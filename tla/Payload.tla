------------------------------ MODULE Payload ------------------------------
(***************************************************************************)
(* The registration payload of one send goroutine (src/tapdance/conjure.go *)
(* generateVSP, createRequest, generateFSP): the zero-byte padding loop of *)
(* the ClientToStation message, the 0xFFFF bound on the VSP, the uint16    *)
(* ciphertext length written into the FSP, the tag layout                  *)
(* enc_VSP || Representative || enc_FSP and the keystream size asked of    *)
(* the TLS connection.  Message contents are abstracted to their sizes;    *)
(* proto.Size is modelled by the protobuf encoding of the padding field.   *)
(***************************************************************************)
EXTENDS Naturals

CONSTANTS
    BaseSizes,   \* proto.Size of the ClientToStation message without padding
    PadKeyLen,   \* bytes of the protobuf key of the padding field
    MaxPad       \* bound on the padding explored (the loop has none)

ASSUME BaseSizesAssumption == BaseSizes \subseteq Nat
ASSUME PadKeyLenAssumption == PadKeyLen \in {1, 2}
ASSUME MaxPadAssumption == MaxPad \in Nat

AesGcmTagSize     == 16          \* AES_GCM_TAG_SIZE
RepresentativeLen == 32          \* len(keys.Representative)
FspLen            == 6           \* make([]byte, 6) in generateFSP
MaxUint16         == 65535       \* ^uint16(0)

VARIABLES
    base,       \* proto.Size(initProto) before any padding is appended
    pad,        \* len(initProto.Padding)
    pc,         \* "pad", "check", "encrypt", "request", "done", "err"
    espSize,    \* the uint16 argument of generateFSP
    tagLen      \* len(tag)

vars == << base, pad, pc, espSize, tagLen >>

-----------------------------------------------------------------------------
(* Sizes, translated from the encoding the code relies on.                  *)

\* Bytes of the protobuf varint encoding of n.
VarintLen(n) == IF n < 128 THEN 1 ELSE IF n < 16384 THEN 2 ELSE 3

\* proto.Size(initProto) with n padding bytes: an empty bytes field is not
\* encoded, a non-empty one costs its key, its length and its bytes.
ProtoSize(b, n) == IF n = 0 THEN b ELSE b + PadKeyLen + VarintLen(n) + n

\* Variant: the loop condition without the GCM tag, (proto.Size) % 3.
PadAlignedNoTag(b, n) == ProtoSize(b, n) % 3 = 0

\* for (proto.Size(initProto)+AES_GCM_TAG_SIZE)%3 != 0
PadAligned(b, n) == (ProtoSize(b, n) + AesGcmTagSize) % 3 = 0

\* len(vsp) once the loop ends.
VspLen == ProtoSize(base, pad)

\* if len(vsp) > int(^uint16(0))
VspTooLarge(n) == n > MaxUint16

\* uint16(len(encryptedVsp)): the conversion keeps the low 16 bits.
Uint16(n) == n % (MaxUint16 + 1)

-----------------------------------------------------------------------------
Init ==
    /\ base \in BaseSizes
    /\ pad = 0
    /\ pc = "pad"
    /\ espSize = 0
    /\ tagLen = 0

\* Variant: the loop appends a 3-byte block per iteration.
PadStepTriple ==
    /\ pc = "pad"
    /\ ~PadAligned(base, pad)
    /\ pad < MaxPad
    /\ pad' = pad + 3
    /\ UNCHANGED << base, pc, espSize, tagLen >>

\* One iteration of the padding loop: append one zero byte.
PadStep ==
    /\ pc = "pad"
    /\ ~PadAligned(base, pad)
    /\ pad < MaxPad
    /\ pad' = pad + 1
    /\ UNCHANGED << base, pc, espSize, tagLen >>

\* The loop condition fails; proto.Marshal returns the message.
PadDone ==
    /\ pc = "pad"
    /\ PadAligned(base, pad)
    /\ pc' = "check"
    /\ UNCHANGED << base, pad, espSize, tagLen >>

\* createRequest: the bound on the VSP.
SizeCheck ==
    /\ pc = "check"
    /\ pc' = IF VspTooLarge(VspLen) THEN "err" ELSE "encrypt"
    /\ UNCHANGED << base, pad, espSize, tagLen >>

\* aesGcmEncrypt of the VSP (adds the 16-byte tag), generateFSP with the
\* uint16 length, aesGcmEncrypt of the FSP, and the tag layout
\* encryptedVsp || Representative || encryptedFsp.  Either encryption may
\* return an error, which createRequest returns.
Seal ==
    /\ pc = "encrypt"
    /\ \/ LET encVsp == VspLen + AesGcmTagSize IN
          /\ espSize' = Uint16(encVsp)
          /\ tagLen' = encVsp + RepresentativeLen + FspLen + AesGcmTagSize
          /\ pc' = "request"
       \/ /\ pc' = "err"
          /\ UNCHANGED << espSize, tagLen >>
    /\ UNCHANGED << base, pad >>

\* GetOutKeystream for (len(tag)/3+1)*4 bytes past the HTTP prefix: it
\* fails when the TLS connection cannot give the keystream, otherwise the
\* masked tag is appended to the request.
Request ==
    /\ pc = "request"
    /\ pc' \in {"done", "err"}
    /\ UNCHANGED << base, pad, espSize, tagLen >>

Next == PadStep \/ PadDone \/ SizeCheck \/ Seal \/ Request

\* createRequest runs to its end on the goroutine that calls it.
Spec == Init /\ [][Next]_vars /\ WF_vars(Next)

-----------------------------------------------------------------------------
(* Properties.                                                             *)

TypeOK ==
    /\ base \in BaseSizes
    /\ pad \in Nat
    /\ pc \in {"pad", "check", "encrypt", "request", "done", "err"}
    /\ espSize \in 0 .. MaxUint16
    /\ tagLen \in Nat

\* The tag handed to the keystream masking, enc_VSP || Representative ||
\* enc_FSP, has a length divisible by 3 (spec: len(tag) % 3 == 0 always):
\* the padding loop of generateVSP, run on the plaintext, must account for
\* the GCM tag added later and for the protobuf cost of the padding field,
\* and the fixed parts (32 + 22 bytes) must keep the alignment.
TagAligned ==
    pc \in {"request", "done"} => tagLen % 3 = 0

\* generateVSP's padding loop, which has no bound of its own, appends at
\* most 3 zero bytes for every message size: the first byte also adds the
\* field's key and length, and from then on each byte moves proto.Size by
\* one, so one of the first three sizes is aligned.  The bound MaxPad of
\* the model is never what stops the loop.
PadBounded == pad <= 3

(***************************************************************************)
(* Refinement: createRequest implements the contract of CreateRequest.     *)
(***************************************************************************)

\* Where createRequest is, for its caller: still building until it
\* returns a request or an error.
RequestPhase == IF pc \in {"done", "err"} THEN pc ELSE "building"

\* The length of the tag the returned request carries.
RequestTag == IF pc = "done" THEN tagLen ELSE 0

Req == INSTANCE CreateRequest WITH phase <- RequestPhase, tag <- RequestTag

\* createRequest, padding loop included, returns: with a request whose tag
\* is a whole number of 3-byte groups, or with an error (generateVSP,
\* createRequest, lines 405-442 and 575-589).
RequestContract == Req!Spec

\* The FSP carries the length of the ciphertext VSP including its AEAD tag
\* (spec, FSP layout), for every payload that passes the size check.
FspLengthExact ==
    pc \in {"request", "done"} => espSize = VspLen + AesGcmTagSize

=============================================================================
