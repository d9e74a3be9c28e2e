--------------------------- MODULE ContractProofs ---------------------------
(***************************************************************************)
(* Proofs that the results the drain loop of register tallies are the ones *)
(* the send goroutines posted, and that the dial implements the safety     *)
(* part of its contract ConjureDial, for every width and decoy list.       *)
(***************************************************************************)
EXTENDS ConjureProofs

(***************************************************************************)
(* The tally invariant.  While the loop drains, every result posted is     *)
(* either tallied (each one received so far was Unreachable), still        *)
(* buffered, or still to be posted; a posted reachable result is still in  *)
(* the buffer.  Every buffered result was posted by some goroutine, and    *)
(* once posted a result stays: what the verdicts were decided from is      *)
(* still visible in posted.                                                *)
(***************************************************************************)
Reachable == {"ok", "failure"}

TallyInv ==
    /\ \A i \in 1 .. Len(ch) : \E t \in Tasks : posted[t] = ch[i]
    /\ mainPc = "drain" =>
          /\ unreachableCount + Len(ch) + Cardinality(PendingSenders) = Width
          /\ \A t \in Tasks : posted[t] \in Reachable =>
                 \E i \in 1 .. Len(ch) : ch[i] = posted[t]
    /\ (mainPc \in {"registered", "connect"} \/ phantomDialed) =>
          \E t \in Tasks : posted[t] \in Reachable
    /\ dialResult = "unreachable" => \A t \in Tasks : posted[t] = "unreachable"

ContractInv == BlockInv /\ TallyInv

USE WidthAssumption DEF Families, Transports, Results, Tasks, V6Records,
    MainPcs, TaskPcs, DialResults, sessVars, probeVars, regVars, taskVars,
    outVars, Reachable, Dial!Tasks, Dial!Results

\* The last Unreachable result of a full tally: one result was buffered and
\* nobody is left to send.
LEMMA LastOfTally ==
    ASSUME NEW a \in Nat, NEW l \in Nat \ {0}, NEW c \in Nat, NEW w \in Nat,
           a + 1 = w, a + l + c = w
    PROVE  l = 1 /\ c = 0
OBVIOUS

\* Initially nothing is buffered, posted or decided.
LEMMA TallyInit == Init => TallyInv
BY DEF Init, TallyInv

\* A goroutine that sends its result: the result is buffered and posted,
\* and it leaves the goroutines still to send.
LEMMA TallyPost ==
    ASSUME ContractInv,
           NEW t \in Tasks, NEW r \in Results, NEW p \in TaskPcs \ PreSendPcs,
           taskPc[t] \in PreSendPcs \ {"idle"},
           taskPc' = [taskPc EXCEPT ![t] = p],
           ch' = Append(ch, r),
           posted' = [posted EXCEPT ![t] = r],
           UNCHANGED << mainPc, unreachableCount, dialResult, phantomDialed >>
    PROVE  TallyInv'
<1>1. /\ taskPc \in [Tasks -> TaskPcs]
      /\ posted \in [Tasks -> Results \cup {"none"}]
      /\ ch \in Seq(Results)
    BY DEF ContractInv, BlockInv, TypeInv, TypeOK, TaskTypeOK, SeqTypeOK
<1>2. posted[t] = "none"
    BY DEF ContractInv, BlockInv, ChannelInv
<1>3. \A u \in Tasks : posted[u] # "none" => posted'[u] = posted[u]
    BY <1>1, <1>2
<1>4. \A i \in 1 .. Len(ch') : \E u \in Tasks : posted'[u] = ch'[i]
    <2> SUFFICES ASSUME NEW i \in 1 .. Len(ch')
                 PROVE  \E u \in Tasks : posted'[u] = ch'[i]
        OBVIOUS
    <2>1. CASE i = Len(ch) + 1
        BY <1>1, <2>1
    <2>2. CASE i \in 1 .. Len(ch)
        <3>1. PICK u \in Tasks : posted[u] = ch[i]
            BY <2>2 DEF ContractInv, TallyInv
        <3>2. ch[i] # "none" /\ ch'[i] = ch[i]
            BY <1>1, <2>2
        <3>3. QED
            BY <1>3, <3>1, <3>2
    <2>3. QED
        BY <1>1, <2>1, <2>2
<1>5. mainPc' = "drain" =>
          /\ unreachableCount' + Len(ch') + Cardinality(PendingSenders') = Width
          /\ \A u \in Tasks : posted'[u] \in Reachable =>
                 \E i \in 1 .. Len(ch') : ch'[i] = posted'[u]
    <2> SUFFICES ASSUME mainPc' = "drain" PROVE
          /\ unreachableCount' + Len(ch') + Cardinality(PendingSenders') = Width
          /\ \A u \in Tasks : posted'[u] \in Reachable =>
                 \E i \in 1 .. Len(ch') : ch'[i] = posted'[u]
        OBVIOUS
    <2>1. PendingSenders' = PendingSenders \ {t} /\ t \in PendingSenders
        BY <1>1, <1>2 DEF PendingSenders, PreSendPcs, TaskPcs
    <2>2. Cardinality(PendingSenders') = Cardinality(PendingSenders) - 1
        BY <2>1, PendingFinite, FS_RemoveElement
    <2>3. unreachableCount + Len(ch) + Cardinality(PendingSenders) = Width
        BY DEF ContractInv, TallyInv
    <2>4. unreachableCount' + Len(ch') + Cardinality(PendingSenders') = Width
        <3>1. Len(ch') = Len(ch) + 1 /\ unreachableCount' = unreachableCount
            BY <1>1
        <3>2. /\ Cardinality(PendingSenders) \in Nat /\ Len(ch) \in Nat
              /\ unreachableCount \in Nat
            BY <1>1, PendingFinite
            DEF ContractInv, BlockInv, TypeInv, TypeOK, TaskTypeOK
        <3>3. QED
            BY <2>2, <2>3, <3>1, <3>2
    <2>5. ASSUME NEW u \in Tasks, posted'[u] \in Reachable
          PROVE  \E i \in 1 .. Len(ch') : ch'[i] = posted'[u]
        <3>1. CASE u = t
            BY <1>1, <3>1
        <3>2. CASE u # t
            <4>1. posted[u] \in Reachable /\ posted'[u] = posted[u]
                BY <1>1, <2>5, <3>2
            <4>2. PICK i \in 1 .. Len(ch) : ch[i] = posted[u]
                BY <4>1 DEF ContractInv, TallyInv
            <4>3. QED
                BY <1>1, <4>1, <4>2
        <3>3. QED
            BY <3>1, <3>2
    <2>6. QED
        BY <2>4, <2>5
<1>6. (mainPc' \in {"registered", "connect"} \/ phantomDialed') =>
          \E u \in Tasks : posted'[u] \in Reachable
    BY <1>3 DEF ContractInv, TallyInv
<1>7. dialResult' # "unreachable"
    BY <1>2 DEF ContractInv, TallyInv
<1>8. QED
    BY <1>4, <1>5, <1>6, <1>7 DEF TallyInv

\* A goroutine that moves without sending changes none of the tallied
\* state.
LEMMA TallyMove ==
    ASSUME ContractInv,
           NEW t \in Tasks, NEW p \in TaskPcs \ {"idle"},
           taskPc[t] # "idle",
           taskPc[t] \in PreSendPcs <=> p \in PreSendPcs,
           taskPc' = [taskPc EXCEPT ![t] = p],
           UNCHANGED << mainPc, ch, posted, unreachableCount, dialResult,
                        phantomDialed >>
    PROVE  TallyInv'
<1>1. taskPc \in [Tasks -> TaskPcs]
    BY DEF ContractInv, BlockInv, TypeInv, TypeOK, TaskTypeOK
<1>2. PendingSenders' = PendingSenders
    BY <1>1 DEF PendingSenders
<1>3. QED
    BY <1>2 DEF ContractInv, TallyInv


\* register creates the goroutines on an empty buffer with nothing posted,
\* or ends the dial before that.
LEMMA TallyRegister ==
    ASSUME ContractInv, Register
    PROVE  TallyInv'
<1>1. /\ ch = << >>
      /\ \A t \in Tasks : taskPc[t] = "idle" /\ posted[t] = "none"
      /\ unreachableCount = 0
    BY RegisterCases
    DEF ContractInv, BlockInv, ChannelInv, NoneSpawned, PreSendPcs, TypeInv,
        DrainBound
<1>2. UNCHANGED << ch, posted, unreachableCount, phantomDialed >>
    BY RegisterCases DEF RegisterKeeps
<1>3. ~phantomDialed /\ dialResult # "unreachable"
    BY <1>1 DEF ContractInv, TallyInv
<1>4. CASE RegisterPanics \/ RegisterNoPhantom
    <2>1. mainPc' \in {"panic", "done"} /\ dialResult' # "unreachable"
        BY <1>3, <1>4 DEF RegisterPanics, RegisterNoPhantom
    <2>2. QED
        BY <1>1, <1>2, <1>3, <2>1 DEF TallyInv
<1>5. CASE RegisterSpawns
    <2>1. taskPc' = [t \in Tasks |-> "dial"] /\ mainPc' = "drain"
          /\ dialResult' = dialResult
        BY <1>5 DEF RegisterSpawns
    <2>2. PendingSenders' = Tasks
        BY <1>1, <1>2, <2>1 DEF PendingSenders
    <2>3. Cardinality(Tasks) = Width
        BY FS_Interval
    <2>4. QED
        BY <1>1, <1>2, <1>3, <2>1, <2>2, <2>3 DEF TallyInv
<1>6. QED
    BY <1>4, <1>5, RegisterCases

\* One iteration of the drain loop: the tallied result leaves the buffer.
LEMMA TallyReceive ==
    ASSUME ContractInv, Receive
    PROVE  TallyInv'
<1>1. /\ ch \in Seq(Results) /\ ch # << >>
      /\ posted \in [Tasks -> Results \cup {"none"}]
      /\ mainPc = "drain"
      /\ unreachableCount \in Nat
      /\ Len(regDecoys) = Width /\ unreachableCount < Width
    BY DEF ContractInv, BlockInv, TypeInv, TypeOK, SeqTypeOK, TaskTypeOK,
        DrainBound, Receive
<1>2. /\ ch' = Tail(ch)
      /\ UNCHANGED << posted, taskPc, phantomDialed >>
    BY DEF Receive
<1>3. Len(ch') = Len(ch) - 1
      /\ \A i \in 1 .. Len(ch') : ch'[i] = ch[i + 1]
    BY <1>1, <1>2
<1>4. \A i \in 1 .. Len(ch') : \E t \in Tasks : posted'[t] = ch'[i]
    BY <1>1, <1>2, <1>3 DEF ContractInv, TallyInv
<1>5. PendingSenders' = PendingSenders
    BY <1>2 DEF PendingSenders
<1>6. (mainPc' \in {"registered", "connect"} \/ phantomDialed') =>
          \E t \in Tasks : posted'[t] \in Reachable
    <2>1. CASE Head(ch) = "unreachable"
        <3>1. mainPc' \in {"drain", "done"}
            BY <1>1, <2>1
            DEF Receive, IsUnreachable, KeepDraining, AllUnreachable, RegWidth
        <3>2. QED
            BY <1>2, <3>1 DEF ContractInv, TallyInv
    <2>2. CASE Head(ch) # "unreachable"
        <3>1. PICK t \in Tasks : posted[t] = ch[1]
            BY <1>1 DEF ContractInv, TallyInv
        <3>2. ch[1] \in Reachable
            BY <1>1, <2>2
        <3>3. QED
            BY <1>2, <3>1, <3>2
    <2>3. QED
        BY <2>1, <2>2
<1>7. CASE Head(ch) = "unreachable" /\ unreachableCount + 1 < Width
    <2>1. /\ mainPc' = "drain" /\ unreachableCount' = unreachableCount + 1
          /\ dialResult' = dialResult
        BY <1>1, <1>7
        DEF Receive, IsUnreachable, KeepDraining, AllUnreachable, RegWidth
    <2>2. unreachableCount' + Len(ch') + Cardinality(PendingSenders') = Width
        BY <1>1, <1>3, <1>5, <2>1, PendingFinite DEF ContractInv, TallyInv
    <2>3. ASSUME NEW t \in Tasks, posted'[t] \in Reachable
          PROVE  \E i \in 1 .. Len(ch') : ch'[i] = posted'[t]
        <3>1. PICK i \in 1 .. Len(ch) : ch[i] = posted[t]
            BY <1>1, <1>2, <2>1, <2>3 DEF ContractInv, TallyInv
        <3>2. i # 1
            BY <1>1, <1>2, <1>7, <2>3, <3>1
        <3>3. i - 1 \in 1 .. Len(ch') /\ ch'[i - 1] = ch[i]
            BY <1>1, <1>3, <3>2
        <3>4. QED
            BY <1>2, <3>1, <3>3
    <2>4. QED
        BY <1>2, <1>4, <1>6, <2>1, <2>2, <2>3 DEF ContractInv, TallyInv
<1>8. CASE Head(ch) = "unreachable" /\ unreachableCount + 1 = Width
    <2>1. mainPc' = "done" /\ dialResult' = "unreachable"
        BY <1>1, <1>8
        DEF Receive, IsUnreachable, KeepDraining, AllUnreachable, RegWidth
    <2>2. Len(ch) = 1 /\ Cardinality(PendingSenders) = 0
        <3>1. Len(ch) \in Nat \ {0}
            BY <1>1
        <3>2. unreachableCount + Len(ch) + Cardinality(PendingSenders) = Width
            BY <1>1 DEF ContractInv, TallyInv
        <3>3. QED
            BY <1>1, <1>8, <3>1, <3>2, PendingFinite, LastOfTally
    <2>3. PendingSenders = {}
        BY <2>2, PendingFinite, FS_EmptySet
    <2>4. \A t \in Tasks : taskPc[t] # "idle"
        BY <1>1 DEF ContractInv, BlockInv, ChannelInv
    <2>5. \A t \in Tasks : posted[t] # "none"
        BY <2>3, <2>4 DEF PendingSenders
    <2>6. \A t \in Tasks : posted[t] \notin Reachable
        BY <1>1, <1>8, <2>2 DEF ContractInv, TallyInv
    <2>7. \A t \in Tasks : posted'[t] = "unreachable"
        BY <1>1, <1>2, <2>5, <2>6
    <2>8. QED
        BY <1>4, <1>6, <2>1, <2>7 DEF TallyInv
<1>9. CASE Head(ch) # "unreachable"
    <2>1. mainPc' = "registered" /\ dialResult' = dialResult
        BY <1>1, <1>9
        DEF Receive, IsUnreachable, KeepDraining, AllUnreachable, RegWidth
    <2>2. QED
        BY <1>2, <1>4, <1>6, <2>1 DEF ContractInv, TallyInv
<1>10. QED
    BY <1>1, <1>7, <1>8, <1>9

\* Every step of the dial keeps the tally invariant.
LEMMA TallyStep == ContractInv /\ [Next]_vars => TallyInv'
<1> SUFFICES ASSUME ContractInv, [Next]_vars PROVE TallyInv'
    OBVIOUS
<1>1. CASE DialConjureAddr \/ DialConjureSession \/ TestV6Start
           \/ TestV6Select \/ Registered
    <2>1. /\ UNCHANGED << ch, posted, taskPc, unreachableCount, phantomDialed >>
          /\ mainPc' # "drain"
          /\ dialResult' \in {dialResult, "noSession"}
          /\ mainPc' \in {"registered", "connect"} =>
                 mainPc \in {"registered", "connect"}
        BY <1>1 DEF DialConjureAddr, DialConjureSession, TestV6Start,
                    TestV6Select, Registered
    <2>2. QED
        BY <2>1 DEF ContractInv, TallyInv, PendingSenders
<1>8. CASE ProbeDial
    <2>1. UNCHANGED << mainPc, ch, posted, taskPc, unreachableCount,
                       dialResult, phantomDialed >>
        BY <1>8 DEF ProbeDial
    <2>2. QED
        BY <2>1 DEF ContractInv, TallyInv, PendingSenders
<1>2. CASE Connect
    <2>1. /\ UNCHANGED << ch, posted >>
          /\ mainPc = "connect" /\ mainPc' = "done"
          /\ dialResult' # "unreachable"
        BY <1>2 DEF Connect
    <2>2. QED
        BY <2>1 DEF ContractInv, TallyInv
<1>3. CASE Register
    BY <1>3, TallyRegister
<1>4. CASE Receive
    BY <1>4, TallyReceive
<1>5. ASSUME NEW t \in Tasks, TaskStep(t) PROVE TallyInv'
    <2>1. CASE TaskDial(t)
        <3>1. CASE Post(t, "unreachable") /\ taskPc' = [taskPc EXCEPT ![t] = "done"]
            BY <2>1, <3>1, TallyPost DEF TaskDial, Post, PreSendPcs
        <3>2. CASE Post(t, "failure") /\ taskPc' = [taskPc EXCEPT ![t] = "done"]
            BY <2>1, <3>2, TallyPost DEF TaskDial, Post, PreSendPcs
        <3>3. CASE taskPc' = [taskPc EXCEPT ![t] = "tls"] /\ UNCHANGED << ch, posted >>
            BY <2>1, <3>3, TallyMove DEF TaskDial, PreSendPcs
        <3>4. QED
            BY <2>1, <3>1, <3>2, <3>3 DEF TaskDial
    <2>2. CASE TaskTLS(t)
        <3>1. CASE Post(t, "failure") /\ taskPc' = [taskPc EXCEPT ![t] = "done"]
            BY <2>2, <3>1, TallyPost DEF TaskTLS, Post, PreSendPcs
        <3>2. CASE taskPc' = [taskPc EXCEPT ![t] = "request"] /\ UNCHANGED << ch, posted >>
            BY <2>2, <3>2, TallyMove DEF TaskTLS, PreSendPcs
        <3>3. QED
            BY <2>2, <3>1, <3>2 DEF TaskTLS
    <2>3. CASE TaskRequest(t)
        <3>1. CASE Post(t, "failure") /\ taskPc' = [taskPc EXCEPT ![t] = "done"]
            BY <2>3, <3>1, TallyPost DEF TaskRequest, Post, PreSendPcs
        <3>2. CASE taskPc' = [taskPc EXCEPT ![t] = "write"] /\ UNCHANGED << ch, posted >>
            BY <2>3, <3>2, TallyMove DEF TaskRequest, PreSendPcs
        <3>3. QED
            BY <2>3, <3>1, <3>2 DEF TaskRequest
    <2>4. CASE TaskWrite(t)
        <3>1. CASE Post(t, "failure") /\ taskPc' = [taskPc EXCEPT ![t] = "done"]
            BY <2>4, <3>1, TallyPost DEF TaskWrite, Post, PreSendPcs
        <3>2. CASE Post(t, "ok") /\ taskPc' = [taskPc EXCEPT ![t] = "drain"]
            BY <2>4, <3>2, TallyPost DEF TaskWrite, Post, PreSendPcs
        <3>3. QED
            BY <2>4, <3>1, <3>2 DEF TaskWrite
    <2>5. CASE TaskDrain(t)
        BY <2>5, TallyMove DEF TaskDrain, PreSendPcs
    <2>6. QED
        BY <1>5, <2>1, <2>2, <2>3, <2>4, <2>5 DEF TaskStep
<1>6. CASE UNCHANGED vars
    BY <1>6 DEF vars, ContractInv, TallyInv, PendingSenders
<1>7. QED
    BY <1>1, <1>2, <1>3, <1>4, <1>5, <1>6, <1>8 DEF Next, MainStep

LEMMA ContractInduction ==
    /\ Init => ContractInv
    /\ ContractInv /\ [Next]_vars => ContractInv'
<1>1. Init => ContractInv
    BY TypeInit, ChannelInit, TallyInit DEF ContractInv, BlockInv
<1>2. ContractInv /\ [Next]_vars => ContractInv'
    BY TypeStep, ChannelStep, TallyStep DEF ContractInv, BlockInv
<1>. QED
    BY <1>1, <1>2

\* register returns Unreachable only when all W send goroutines reported
\* an Unreachable dial error, for every width and decoy list, whatever
\* order the results arrive in (drain loop of register).
THEOREM VerdictSound == Spec => []UnreachableVerdictSound
<1>1. ContractInv => UnreachableVerdictSound
    BY DEF ContractInv, TallyInv, UnreachableVerdictSound
<1>. QED
    BY <1>1, ContractInduction, PTL DEF Spec

\* DialConjure dials the phantom only after some send goroutine reported a
\* reachable network, for every width and decoy list.
THEOREM PhantomAfterReachable == Spec => []PhantomOnlyAfterReachable
<1>1. ContractInv => PhantomOnlyAfterReachable
    BY DEF ContractInv, TallyInv, PhantomOnlyAfterReachable
<1>. QED
    BY <1>1, ContractInduction, PTL DEF Spec

(***************************************************************************)
(* Refinement: every step of the dial is a step of the contract ConjureDial *)
(* under the mapping DialPhase, posted, DialOutcome, or leaves all three    *)
(* unchanged.  The fairness of the contract is checked by TLC only.        *)
(***************************************************************************)
DialSafety == Dial!Init /\ [][Dial!Next]_Dial!dialVars

LEMMA DialInitMaps == Init => Dial!Init
BY DEF Init, Dial!Init, DialPhase, DialOutcome

\* The steps of the dialling goroutine that stay in one phase of the
\* contract.
LEMMA DialStutter ==
    ASSUME UNCHANGED << posted, dialResult >>,
           mainPc \notin {"panic"}, mainPc' \notin {"panic"},
           DialPhase' = DialPhase
    PROVE  UNCHANGED Dial!dialVars
BY DEF Dial!dialVars, DialOutcome

\* The two parts of the tally invariant the contract's decisions rest on.
LEMMA TallyDecisions ==
    TallyInv' =>
        /\ mainPc' \in {"registered", "connect"} =>
               \E t \in Tasks : posted'[t] \in Reachable
        /\ dialResult' = "unreachable" =>
               \A t \in Tasks : posted'[t] = "unreachable"
BY DEF TallyInv

LEMMA DialStep ==
    ASSUME ContractInv, [Next]_vars,
           mainPc' \in {"registered", "connect"} =>
               \E t \in Tasks : posted'[t] \in Reachable,
           dialResult' = "unreachable" =>
               \A t \in Tasks : posted'[t] = "unreachable"
    PROVE  [Dial!Next]_Dial!dialVars
<1>1. CASE DialConjureAddr
    <2>1. CASE mainPc' = "probe" /\ UNCHANGED dialResult
        BY <1>1, <2>1, DialStutter DEF DialConjureAddr, DialPhase
    <2>2. CASE mainPc' = "done" /\ dialResult' = "noSession"
        BY <1>1, <2>2
        DEF DialConjureAddr, Dial!Next, Dial!Abort, DialPhase, DialOutcome
    <2>3. QED
        BY <1>1, <2>1, <2>2 DEF DialConjureAddr
<1>2. CASE DialConjureSession \/ TestV6Start \/ TestV6Select
    <2>1. /\ UNCHANGED << posted, dialResult >>
          /\ mainPc \in {"start", "probe"}
          /\ mainPc' \in {"probe", "register"}
        BY <1>2 DEF DialConjureSession, TestV6Start, TestV6Select
    <2>2. DialPhase' = DialPhase
        BY <2>1 DEF DialPhase
    <2>3. QED
        BY <2>1, <2>2, DialStutter
<1>10. CASE Registered
    <2>1. /\ UNCHANGED << posted, dialResult >>
          /\ mainPc = "registered" /\ mainPc' = "connect"
        BY <1>10 DEF Registered
    <2>2. DialPhase' = DialPhase
        BY <2>1 DEF DialPhase
    <2>3. QED
        BY <2>1, <2>2, DialStutter
<1>9. CASE ProbeDial
    <2>1. UNCHANGED << mainPc, posted, dialResult >>
        BY <1>9 DEF ProbeDial
    <2>2. QED
        BY <2>1 DEF Dial!dialVars, DialPhase, DialOutcome
<1>3. CASE Register
    <2>1. mainPc = "register" /\ UNCHANGED posted
        BY <1>3, RegisterCases DEF RegisterKeeps
    <2>2. CASE RegisterPanics \/ RegisterNoPhantom
        <3>1. /\ mainPc' \in {"panic", "done"}
              /\ mainPc' = "done" => dialResult' = "noPhantom"
            BY <2>2 DEF RegisterPanics, RegisterNoPhantom
        <3>2. QED
            BY <2>1, <3>1 DEF Dial!Next, Dial!Abort, DialPhase, DialOutcome
    <2>3. CASE RegisterSpawns
        <3>1. mainPc' = "drain" /\ UNCHANGED dialResult
            BY <2>3 DEF RegisterSpawns
        <3>2. QED
            BY <2>1, <3>1 DEF Dial!Next, Dial!Begin, DialPhase, DialOutcome
    <2>4. QED
        BY <1>3, <2>2, <2>3, RegisterCases
<1>4. CASE Receive
    <2>1. /\ mainPc = "drain" /\ UNCHANGED posted
          /\ mainPc' \in {"drain", "done", "registered"}
          /\ mainPc' = "done" => dialResult' = "unreachable"
          /\ mainPc' # "done" => dialResult' = dialResult
        BY <1>4 DEF Receive
    <2>2. CASE mainPc' = "drain"
        BY <2>1, <2>2, DialStutter DEF DialPhase
    <2>3. CASE mainPc' = "done"
        <3>1. \A t \in Tasks : posted[t] = "unreachable"
            BY <2>1, <2>3
        <3>2. QED
            BY <2>1, <2>3, <3>1
            DEF Dial!Next, Dial!GiveUp, DialPhase, DialOutcome
    <2>4. CASE mainPc' = "registered"
        <3>1. \E t \in Tasks : posted[t] \in Reachable
            BY <2>1, <2>4
        <3>2. QED
            BY <2>1, <2>4, <3>1
            DEF Dial!Next, Dial!Accept, DialPhase, DialOutcome
    <2>5. QED
        BY <2>1, <2>2, <2>3, <2>4
<1>5. CASE Connect
    <2>1. /\ mainPc = "connect" /\ mainPc' = "done" /\ UNCHANGED posted
          /\ dialResult' \in {"ok", "phantomErr"}
        BY <1>5 DEF Connect
    <2>2. QED
        BY <2>1 DEF Dial!Next, Dial!Finish, DialPhase, DialOutcome
<1>6. ASSUME NEW t \in Tasks, TaskStep(t)
      PROVE  [Dial!Next]_Dial!dialVars
    <2>1. /\ taskPc[t] # "idle"
          /\ UNCHANGED << mainPc, dialResult >>
          /\ \/ UNCHANGED posted
             \/ /\ taskPc[t] \in PreSendPcs
                /\ \E r \in Results : posted' = [posted EXCEPT ![t] = r]
        BY <1>6 DEF TaskStep, TaskDial, TaskTLS, TaskRequest, TaskWrite,
                    TaskDrain, Post, PreSendPcs
    <2>2. DialPhase # "idle"
        BY <2>1 DEF ContractInv, BlockInv, ChannelInv, NoneSpawned, DialPhase
    <2>3. CASE UNCHANGED posted
        BY <2>1, <2>3 DEF Dial!dialVars, DialPhase, DialOutcome
    <2>4. CASE ~UNCHANGED posted
        <3>1. posted[t] = "none"
            BY <2>1, <2>4 DEF ContractInv, BlockInv, ChannelInv
        <3>2. QED
            BY <2>1, <2>2, <2>4, <3>1
            DEF Dial!Next, Dial!Report, DialPhase, DialOutcome
    <2>5. QED
        BY <2>3, <2>4
<1>7. CASE UNCHANGED vars
    BY <1>7 DEF vars, Dial!dialVars, DialPhase, DialOutcome
<1>8. QED
    BY <1>1, <1>2, <1>3, <1>4, <1>5, <1>6, <1>7, <1>9, <1>10
    DEF Next, MainStep

\* The dial implements the safety part of its contract, for every width and
\* decoy list: it gives up as Unreachable only when every decoy reported
\* Unreachable, counts as registered only after a reachable report, and
\* goes to the phantom only once registered (DialConjure and register).
THEOREM DialRefinement == Spec => DialSafety
<1>1. Init => Dial!Init
    BY DialInitMaps
<1>2. ContractInv /\ [Next]_vars => [Dial!Next]_Dial!dialVars
    <2> SUFFICES ASSUME ContractInv, [Next]_vars
                 PROVE  [Dial!Next]_Dial!dialVars
        OBVIOUS
    <2>1. TallyInv'
        BY ContractInduction DEF ContractInv
    <2>2. /\ mainPc' \in {"registered", "connect"} =>
                 \E t \in Tasks : posted'[t] \in Reachable
          /\ dialResult' = "unreachable" =>
                 \A t \in Tasks : posted'[t] = "unreachable"
        BY <2>1, TallyDecisions
    <2>3. QED
        BY <2>2, DialStep
<1>. QED
    BY <1>1, <1>2, ContractInduction, PTL DEF Spec, DialSafety
=============================================================================
