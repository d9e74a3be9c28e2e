--------------------------- MODULE CreateRequest ---------------------------
(***************************************************************************)
(* What createRequest promises the send goroutine (spec 4.5, the tag      *)
(* layout): it returns, either with a tag whose length is a multiple of 3, *)
(* as the keystream masking needs, or with an error.  Payload.tla is shown *)
(* to implement this module.                                               *)
(***************************************************************************)
EXTENDS Naturals

VARIABLES
    phase,   \* "building", "done" (the request was built), "err"
    tag      \* len(tag) of the built request, 0 before

reqVars == << phase, tag >>

Init ==
    /\ phase = "building"
    /\ tag = 0

\* The request is built around a tag aligned to 3 bytes.
Build ==
    /\ phase = "building"
    /\ phase' = "done"
    /\ tag' \in Nat
    /\ tag' % 3 = 0

\* createRequest returns an error.
Fail ==
    /\ phase = "building"
    /\ phase' = "err"
    /\ UNCHANGED tag

Next == Build \/ Fail

\* createRequest returns.
Returns == <>(phase \in {"done", "err"})

Spec == Init /\ [][Next]_reqVars /\ Returns

=============================================================================
