----------------------------- MODULE MCPayload -----------------------------
(* Payload instantiated for TLC: small messages, and messages around the   *)
(* 0xFFFF bound, where the sealed length no longer fits 16 bits.           *)
EXTENDS Payload

\* Sizes of the unpadded ClientToStation message: all residues mod 3 near
\* zero, and every size from just below the uint16 range past its end.
MCBaseSizes == (0 .. 8) \cup (65510 .. 65540)

\* The padding field of ClientToStation is field 100: a two-byte key.
MCPadKeyLen == 2

\* Bound on the padding length explored (the loop needs at most 3).
MCMaxPad == 9
=============================================================================
