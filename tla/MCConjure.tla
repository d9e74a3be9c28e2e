----------------------------- MODULE MCConjure -----------------------------
(* Model-checking instance of Conjure: three decoys, one of each address   *)
(* family, so every pool SelectDecoys can use is non-empty and mixed.      *)
EXTENDS Conjure, TLC

CONSTANTS d1, d2, d3

MCDecoys == {d1, d2, d3}

\* d1 has only a v4 address, d2 only v6, d3 both.
MCDecoyFamily == (d1 :> "v4") @@ (d2 :> "v6") @@ (d3 :> "both")

\* A decoy list with only v6 decoys: the v4 pool is empty, and a session
\* whose IPv6 probe failed finds no decoy.
MCV6OnlyFamily == [d \in MCDecoys |-> "v6"]

=============================================================================
