------------------------------ MODULE MCStats ------------------------------
(***************************************************************************)
(* Stats.tla for TLC: three send goroutines, so that a racy read can see   *)
(* its own store, a later one and more than one candidate; RTTs of 0 (a    *)
(* sub-millisecond dial, which rttInt takes for "unset"), 40ms and 2000ms. *)
(***************************************************************************)
EXTENDS Stats

MCRtts == {0, 40, 2000}

=============================================================================
