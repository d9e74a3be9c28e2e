--------------------------- MODULE PayloadProofs ---------------------------
(* TLAPS proofs about the registration payload (Payload.tla).              *)
EXTENDS Payload, TLAPS

\* The state after the padding loop: the plaintext size is aligned, and
\* once sealed, the tag length is the sum of its three parts.
AlignInv ==
    /\ base \in Nat
    /\ pad \in Nat
    /\ tagLen \in Nat
    /\ pc \in {"check", "encrypt", "request", "done"} => PadAligned(base, pad)
    /\ pc \in {"request", "done"} =>
           tagLen = VspLen + AesGcmTagSize + RepresentativeLen + FspLen
                    + AesGcmTagSize

USE BaseSizesAssumption, PadKeyLenAssumption, MaxPadAssumption
    DEF AesGcmTagSize, RepresentativeLen, FspLen

\* ProtoSize of a natural base and padding is a natural number.
LEMMA ProtoSizeNat ==
    ASSUME NEW b \in Nat, NEW n \in Nat
    PROVE  ProtoSize(b, n) \in Nat
BY DEF ProtoSize, VarintLen

LEMMA AlignInit == Init => AlignInv
BY DEF Init, AlignInv

LEMMA AlignStep == AlignInv /\ [Next]_vars => AlignInv'
<1> SUFFICES ASSUME AlignInv, [Next]_vars PROVE AlignInv'
    OBVIOUS
<1>1. CASE PadStep
    BY <1>1 DEF PadStep, AlignInv
<1>2. CASE PadDone
    BY <1>2 DEF PadDone, AlignInv
<1>3. CASE SizeCheck
    BY <1>3 DEF SizeCheck, AlignInv
<1>4. CASE Seal
    <2>1. ProtoSize(base, pad) \in Nat
        BY ProtoSizeNat DEF AlignInv
    <2>2. CASE pc' = "request"
        BY <1>4, <2>1, <2>2 DEF Seal, AlignInv, VspLen
    <2>3. CASE pc' = "err"
        BY <1>4, <2>3 DEF Seal, AlignInv
    <2>. QED
        BY <1>4, <2>2, <2>3 DEF Seal
<1>5. CASE Request
    BY <1>5 DEF Request, AlignInv, VspLen
<1>6. CASE UNCHANGED vars
    BY <1>6 DEF vars, AlignInv, VspLen
<1>. QED
    BY <1>1, <1>2, <1>3, <1>4, <1>5, <1>6 DEF Next

\* From the invariant: a sealed tag has a length divisible by 3.
LEMMA AlignTag == AlignInv => TagAligned
<1> SUFFICES ASSUME AlignInv, pc \in {"request", "done"}
             PROVE  tagLen % 3 = 0
    BY DEF TagAligned
<1>1. ProtoSize(base, pad) \in Nat
    BY ProtoSizeNat DEF AlignInv
<1>2. (ProtoSize(base, pad) + 16) % 3 = 0
    BY DEF AlignInv, PadAligned
<1>. QED
    BY <1>1, <1>2 DEF AlignInv, VspLen

\* For every set of message sizes and every padding-field key length, the
\* tag createRequest masks with the keystream has a length divisible by 3.
THEOREM TagAlignedHolds == Spec => []TagAligned
<1>1. Init => AlignInv
    BY AlignInit
<1>2. AlignInv /\ [Next]_vars => AlignInv'
    BY AlignStep
<1>3. AlignInv => TagAligned
    BY AlignTag
<1>. QED
    BY <1>1, <1>2, <1>3, PTL DEF Spec

(***************************************************************************)
(* The padding loop ends within three bytes.  pad <= 3 is not inductive by *)
(* itself: a step from 3 to 4 is excluded only because the loop went past  *)
(* 1 and 2 unaligned, which leaves 3 aligned.  PadInv records the sizes    *)
(* the loop stepped over.                                                  *)
(***************************************************************************)
PadInv ==
    /\ base \in Nat
    /\ pad \in 0 .. 3
    /\ \A n \in 1 .. pad - 1 : ~PadAligned(base, n)

\* With one to three padding bytes the field costs its key, a one-byte
\* length and the bytes: three consecutive sizes, one of them aligned.
LEMMA ThirdPadAligned ==
    ASSUME NEW b \in Nat, ~PadAligned(b, 1), ~PadAligned(b, 2)
    PROVE  PadAligned(b, 3)
BY DEF PadAligned, ProtoSize, VarintLen

LEMMA PadInit == Init => PadInv
BY DEF Init, PadInv

LEMMA PadStepInv == PadInv /\ [Next]_vars => PadInv'
<1> SUFFICES ASSUME PadInv, [Next]_vars PROVE PadInv'
    OBVIOUS
<1>1. CASE PadStep
    <2>1. pad # 3
        BY <1>1, ThirdPadAligned DEF PadStep, PadInv
    <2>. QED
        BY <1>1, <2>1 DEF PadStep, PadInv
<1>2. CASE PadDone \/ SizeCheck \/ Seal \/ Request \/ UNCHANGED vars
    BY <1>2 DEF PadDone, SizeCheck, Seal, Request, vars, PadInv
<1>. QED
    BY <1>1, <1>2 DEF Next

\* For every set of message sizes, every padding-field key length and
\* every bound of the model, generateVSP's zero-byte padding loop appends
\* at most three bytes before its condition fails.
THEOREM PadLoopBounded == Spec => []PadBounded
<1>1. PadInv => PadBounded
    BY DEF PadInv, PadBounded
<1>. QED
    BY <1>1, PadInit, PadStepInv, PTL DEF Spec


(***************************************************************************)
(* Refinement: every step of createRequest is a step of the contract      *)
(* CreateRequest under RequestPhase and RequestTag, or leaves both         *)
(* unchanged.  The returned tag is aligned by AlignInv.  That createRequest *)
(* returns at all is checked by TLC only.                                  *)
(***************************************************************************)
RequestSafety == Req!Init /\ [][Req!Next]_Req!reqVars

LEMMA RequestInitMaps == Init => Req!Init
BY DEF Init, Req!Init, RequestPhase, RequestTag

\* The steps before createRequest returns leave the contract's state alone.
LEMMA RequestStutter ==
    ASSUME pc \notin {"done", "err"}, pc' \notin {"done", "err"}
    PROVE  UNCHANGED Req!reqVars
BY DEF Req!reqVars, RequestPhase, RequestTag

\* A step that returns an error is the contract's Fail.
LEMMA RequestFails ==
    ASSUME pc \notin {"done", "err"}, pc' = "err"
    PROVE  Req!Fail
BY DEF Req!Fail, RequestPhase, RequestTag

LEMMA RequestStep ==
    ASSUME AlignInv, [Next]_vars
    PROVE  [Req!Next]_Req!reqVars
<1>1. CASE PadStep \/ PadDone
    BY <1>1, RequestStutter DEF PadStep, PadDone
<1>2. CASE SizeCheck \/ Seal
    <2>1. pc \in {"check", "encrypt"} /\ pc' \in {"encrypt", "request", "err"}
        BY <1>2 DEF SizeCheck, Seal
    <2>. QED
        BY <2>1, RequestStutter, RequestFails DEF Req!Next
<1>3. CASE Request
    <2>1. pc = "request" /\ pc' \in {"done", "err"} /\ tagLen' = tagLen
        BY <1>3 DEF Request
    <2>2. tagLen \in Nat /\ tagLen % 3 = 0
        BY <2>1, AlignTag DEF AlignInv, TagAligned
    <2>3. CASE pc' = "done"
        BY <2>1, <2>2, <2>3 DEF Req!Next, Req!Build, RequestPhase, RequestTag
    <2>4. CASE pc' = "err"
        BY <2>1, <2>4, RequestFails DEF Req!Next
    <2>. QED
        BY <2>1, <2>3, <2>4
<1>4. CASE UNCHANGED vars
    BY <1>4 DEF vars, Req!reqVars, RequestPhase, RequestTag
<1>. QED
    BY <1>1, <1>2, <1>3, <1>4 DEF Next

\* For every set of message sizes and padding-field key length, every step
\* of createRequest is a step of its contract CreateRequest: it returns an
\* error, or a request whose tag is aligned to 3 bytes, and nothing else.
THEOREM RequestRefinement == Spec => RequestSafety
<1>1. AlignInv /\ [Next]_vars => [Req!Next]_Req!reqVars
    BY RequestStep
<1>. QED
    BY <1>1, RequestInitMaps, AlignInit, AlignStep, PTL DEF Spec, RequestSafety

=============================================================================
