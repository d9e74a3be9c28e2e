---------------------------- MODULE ConjureDial ----------------------------
(***************************************************************************)
(* What one Conjure dial promises, without goroutines or channels (spec    *)
(* 4.3-4.7): registration is attempted through Width decoys, each of which *)
(* reports once; the dial gives up as Unreachable only when every decoy    *)
(* reported Unreachable, it counts as registered only once some decoy      *)
(* reported a reachable network, and only a registered dial goes on to the *)
(* phantom.  Conjure.tla is shown to implement this module.                *)
(***************************************************************************)
EXTENDS Naturals

CONSTANT Width

Tasks    == 1 .. Width
Results  == {"ok", "unreachable", "failure"}
Outcomes == {"none", "noSession", "noPhantom", "panic", "unreachable",
             "phantomErr", "ok"}
Phases   == {"idle", "registering", "registered", "done"}

VARIABLES
    phase,     \* where the dial is
    reports,   \* [Tasks -> Results \cup {"none"}]: what each decoy reported
    outcome    \* what the dial returned

dialVars == << phase, reports, outcome >>

Init ==
    /\ phase = "idle"
    /\ reports = [t \in Tasks |-> "none"]
    /\ outcome = "none"

\* The dial stops before any registration: no session, no phantom, or a
\* failure selecting the decoys.
Abort ==
    /\ phase = "idle"
    /\ phase' = "done"
    /\ outcome' \in {"noSession", "noPhantom", "panic"}
    /\ UNCHANGED reports

\* Registration starts through the Width decoys.
Begin ==
    /\ phase = "idle"
    /\ phase' = "registering"
    /\ UNCHANGED << reports, outcome >>

\* Decoy t reports its result, once; reports may still come after the dial
\* has decided.
Report(t) ==
    /\ phase # "idle"
    /\ reports[t] = "none"
    /\ \E r \in Results : reports' = [reports EXCEPT ![t] = r]
    /\ UNCHANGED << phase, outcome >>

\* Every decoy reported Unreachable: the dial fails as Unreachable.
GiveUp ==
    /\ phase = "registering"
    /\ \A t \in Tasks : reports[t] = "unreachable"
    /\ phase' = "done"
    /\ outcome' = "unreachable"
    /\ UNCHANGED reports

\* Some decoy reported a reachable network: the registration stands.
Accept ==
    /\ phase = "registering"
    /\ \E t \in Tasks : reports[t] \in {"ok", "failure"}
    /\ phase' = "registered"
    /\ UNCHANGED << reports, outcome >>

\* The phantom is dialled, with or without success.
Finish ==
    /\ phase = "registered"
    /\ phase' = "done"
    /\ outcome' \in {"ok", "phantomErr"}
    /\ UNCHANGED reports

Next == Abort \/ Begin \/ GiveUp \/ Accept \/ Finish
        \/ \E t \in Tasks : Report(t)

\* A dial that can decide does, and a registered dial reaches the phantom;
\* the decoys' reports are the environment and are not assumed.
Spec == /\ Init /\ [][Next]_dialVars
        /\ WF_dialVars(Abort \/ Begin)
        /\ WF_dialVars(GiveUp \/ Accept)
        /\ WF_dialVars(Finish)

=============================================================================
