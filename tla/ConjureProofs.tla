--------------------------- MODULE ConjureProofs ---------------------------
(***************************************************************************)
(* Machine-checked proofs about the Conjure dial (module Conjure), for     *)
(* every decoy list and every registration width.                          *)
(***************************************************************************)
EXTENDS Conjure, FiniteSetTheorems, TLAPS

(***************************************************************************)
(* TypeOK alone is not inductive: Receive increments unreachableCount, and *)
(* it stays within 0..Width only because the drain loop is left as soon as *)
(* the count reaches the width.  DrainBound records that, and that the     *)
(* count is still 0 when register spawns its goroutines.                   *)
(***************************************************************************)
DrainBound ==
    /\ mainPc \in {"start", "probe", "register"} => unreachableCount = 0
    /\ mainPc = "drain" => /\ Len(regDecoys) = Width
                           /\ unreachableCount < Width

TypeInv == TypeOK /\ DrainBound

\* The enumerations of the model and the groups of variables are plain
\* abbreviations: every proof below may expand them.
USE WidthAssumption DEF Families, Transports, Results, Tasks, V6Records,
    MainPcs, TaskPcs, DialResults, sessVars, probeVars, regVars, taskVars,
    outVars

\* A registration width's worth of decoys is a sequence of decoys.
LEMMA DecoyTupleIsSeq ==
    ASSUME NEW S, NEW ds \in [Tasks -> S]
    PROVE  ds \in Seq(S) /\ Len(ds) = Width
BY WidthAssumption DEF Tasks

LEMMA TypeInit == Init => TypeInv
<1> SUFFICES ASSUME Init PROVE TypeInv
    OBVIOUS
<1>1. SeqTypeOK
    BY DEF Init, SeqTypeOK
<1>2. SessionTypeOK
    BY DEF Init, SessionTypeOK
<1>3. TaskTypeOK
    BY DEF Init, TaskTypeOK
<1>4. OutcomeTypeOK
    BY DEF Init, OutcomeTypeOK
<1>5. DrainBound
    BY DEF Init, DrainBound
<1>6. QED
    BY <1>1, <1>2, <1>3, <1>4, <1>5 DEF TypeInv, TypeOK

\* The three ways register ends: the Mod panic of SelectDecoys on an empty
\* pool, the goroutines spawned, or the SelectPhantom error.
RegisterPanics ==
    /\ DecoyPool(sessV6.include) = {}
    /\ mainPc' = "panic"
    /\ UNCHANGED << regVars, taskPc, dialResult >>

RegisterSpawns ==
    /\ regDecoys' \in Seq(Decoys)
    /\ Len(regDecoys') = Width
    /\ phantomFam' \in Families
    /\ regTransport' = "Min"
    /\ regProxy' = FALSE
    /\ taskPc' = [t \in Tasks |-> "dial"]
    /\ mainPc' = "drain"
    /\ UNCHANGED dialResult

RegisterNoPhantom ==
    /\ regDecoys' \in Seq(Decoys)
    /\ Len(regDecoys') = Width
    /\ mainPc' = "done"
    /\ dialResult' = "noPhantom"
    /\ UNCHANGED << phantomFam, regTransport, regProxy, taskPc >>

\* The variables register leaves alone in all three cases.
RegisterKeeps ==
    UNCHANGED << net, oversize, cache, sessVars, sessV6, probeVars, conn,
                 posted, ch, unreachableCount, phantomDialed,
                 tagWritten, connReturned >>

\* register chooses its decoys from a subset of the decoy list.
LEMMA RegisterCases ==
    ASSUME Register
    PROVE  /\ RegisterPanics \/ RegisterSpawns \/ RegisterNoPhantom
           /\ RegisterKeeps
           /\ mainPc = "register"
<1>1. CASE DecoyPool(sessV6.include) = {}
    BY <1>1 DEF Register, RegisterPanics, RegisterKeeps
<1>2. CASE DecoyPool(sessV6.include) # {}
    <2>1. PICK ds \in [Tasks -> DecoyPool(sessV6.include)] : regDecoys' = ds
        BY <1>2 DEF Register
    <2>2. DecoyPool(sessV6.include) \subseteq Decoys
        BY DEF DecoyPool
    <2>3. regDecoys' \in Seq(Decoys) /\ Len(regDecoys') = Width
        BY <2>1, <2>2, DecoyTupleIsSeq
    <2>4. PhantomFamilies(sessV6.support) \subseteq Families
        BY DEF PhantomFamilies
    <2>5. QED
        BY <1>2, <2>3, <2>4
        DEF Register, RegisterSpawns, RegisterNoPhantom, RegisterKeeps
<1>3. QED
    BY <1>1, <1>2

\* The sequence part: only register (the decoys) and the channel operations
\* change it.
LEMMA SeqTypeStep == TypeInv /\ [Next]_vars => SeqTypeOK'
<1> SUFFICES ASSUME TypeInv, [Next]_vars PROVE SeqTypeOK'
    OBVIOUS
<1>1. SeqTypeOK
    BY DEF TypeInv, TypeOK
<1>2. CASE Register
    <2>1. CASE RegisterPanics
        BY <1>1, <1>2, <2>1, RegisterCases
        DEF RegisterPanics, RegisterKeeps, SeqTypeOK
    <2>2. CASE RegisterSpawns
        BY <1>1, <1>2, <2>2, RegisterCases
        DEF RegisterSpawns, RegisterKeeps, SeqTypeOK
    <2>3. CASE RegisterNoPhantom
        BY <1>1, <1>2, <2>3, RegisterCases
        DEF RegisterNoPhantom, RegisterKeeps, SeqTypeOK
    <2>4. QED
        BY <1>2, <2>1, <2>2, <2>3, RegisterCases
<1>3. CASE Receive
    BY <1>1, <1>3 DEF Receive, SeqTypeOK
<1>4. ASSUME NEW t \in Tasks, TaskStep(t) PROVE SeqTypeOK'
    <2>1. regDecoys' = regDecoys
        BY <1>4 DEF TaskStep, TaskDial, TaskTLS, TaskRequest, TaskWrite,
                    TaskDrain
    <2>2. ch' = ch \/ \E r \in Results : ch' = Append(ch, r)
        <3>1. CASE TaskDial(t)
            BY <3>1 DEF TaskDial, Post
        <3>2. CASE TaskTLS(t)
            BY <3>2 DEF TaskTLS, Post
        <3>3. CASE TaskRequest(t)
            BY <3>3 DEF TaskRequest, Post
        <3>4. CASE TaskWrite(t)
            BY <3>4 DEF TaskWrite, Post
        <3>5. CASE TaskDrain(t)
            BY <3>5 DEF TaskDrain
        <3>. QED
            BY <1>4, <3>1, <3>2, <3>3, <3>4, <3>5 DEF TaskStep
    <2>3. \A r \in Results : Append(ch, r) \in Seq(Results)
        BY <1>1 DEF SeqTypeOK
    <2>. QED
        BY <1>1, <2>1, <2>2, <2>3 DEF SeqTypeOK
<1>5. CASE \/ DialConjureAddr \/ DialConjureSession \/ TestV6Start
           \/ TestV6Select \/ Registered \/ Connect \/ ProbeDial
    BY <1>1, <1>5 DEF DialConjureAddr, DialConjureSession, TestV6Start,
                      TestV6Select, Registered, Connect, ProbeDial, SeqTypeOK
<1>6. CASE UNCHANGED vars
    BY <1>1, <1>6 DEF vars, SeqTypeOK
<1>7. QED
    BY <1>2, <1>3, <1>4, <1>5, <1>6 DEF Next, MainStep

\* The session and registration fields: only the dialling goroutine and the
\* probe goroutine change them.
LEMMA SessionTypeStep == TypeInv /\ [Next]_vars => SessionTypeOK'
<1> SUFFICES ASSUME TypeInv, [Next]_vars PROVE SessionTypeOK'
    OBVIOUS
<1>1. SessionTypeOK
    BY DEF TypeInv, TypeOK
<1>2. CASE DialConjureAddr
    BY <1>1, <1>2 DEF DialConjureAddr, SessionTypeOK
<1>3. CASE DialConjureSession
    BY <1>1, <1>3 DEF DialConjureSession, SessionTypeOK
<1>4. CASE TestV6Start \/ ProbeDial
    BY <1>1, <1>4 DEF TestV6Start, ProbeDial, SessionTypeOK
<1>5. CASE TestV6Select
    BY <1>1, <1>5 DEF TestV6Select, SetV6Support, SessionTypeOK
<1>6. CASE Register
    <2>1. CASE RegisterPanics
        BY <1>1, <1>6, <2>1, RegisterCases
        DEF RegisterPanics, RegisterKeeps, SessionTypeOK
    <2>2. CASE RegisterSpawns
        BY <1>1, <1>6, <2>2, RegisterCases
        DEF RegisterSpawns, RegisterKeeps, SessionTypeOK
    <2>3. CASE RegisterNoPhantom
        BY <1>1, <1>6, <2>3, RegisterCases
        DEF RegisterNoPhantom, RegisterKeeps, SessionTypeOK
    <2>4. QED
        BY <1>6, <2>1, <2>2, <2>3, RegisterCases
<1>7. CASE Receive \/ Registered \/ Connect
    BY <1>1, <1>7 DEF Receive, Registered, Connect, SessionTypeOK
<1>8. ASSUME NEW t \in Tasks, TaskStep(t) PROVE SessionTypeOK'
    BY <1>1, <1>8 DEF TaskStep, TaskDial, TaskTLS, TaskRequest, TaskWrite,
                      TaskDrain, SessionTypeOK
<1>9. CASE UNCHANGED vars
    BY <1>1, <1>9 DEF vars, SessionTypeOK
<1>10. QED
    BY <1>2, <1>3, <1>4, <1>5, <1>6, <1>7, <1>8, <1>9 DEF Next, MainStep

\* The send goroutines' state, and the bound on the Unreachable tally.
LEMMA TaskTypeStep == TypeInv /\ [Next]_vars => TaskTypeOK' /\ DrainBound'
<1> SUFFICES ASSUME TypeInv, [Next]_vars PROVE TaskTypeOK' /\ DrainBound'
    OBVIOUS
<1>1. TaskTypeOK /\ DrainBound
    BY DEF TypeInv, TypeOK
<1>2. CASE \/ DialConjureAddr \/ DialConjureSession \/ TestV6Start
           \/ TestV6Select \/ ProbeDial
    BY <1>1, <1>2 DEF DialConjureAddr, DialConjureSession, TestV6Start,
                      TestV6Select, ProbeDial, TaskTypeOK, DrainBound
<1>3. CASE Register
    <2>1. CASE RegisterPanics
        BY <1>1, <1>3, <2>1, RegisterCases
        DEF RegisterPanics, RegisterKeeps, TaskTypeOK, DrainBound
    <2>2. CASE RegisterSpawns
        BY <1>1, <1>3, <2>2, RegisterCases
        DEF RegisterSpawns, RegisterKeeps, TaskTypeOK, DrainBound
    <2>3. CASE RegisterNoPhantom
        BY <1>1, <1>3, <2>3, RegisterCases
        DEF RegisterNoPhantom, RegisterKeeps, TaskTypeOK, DrainBound
    <2>4. QED
        BY <1>3, <2>1, <2>2, <2>3, RegisterCases
<1>4. CASE Receive
    BY <1>1, <1>4 DEF Receive, TaskTypeOK, DrainBound, IsUnreachable,
                      KeepDraining, AllUnreachable, RegWidth
<1>5. CASE Registered \/ Connect
    BY <1>1, <1>5 DEF Registered, Connect, TaskTypeOK, DrainBound
<1>6. ASSUME NEW t \in Tasks, TaskDial(t) PROVE TaskTypeOK' /\ DrainBound'
    BY <1>1, <1>6 DEF TaskDial, Post, TaskTypeOK, DrainBound
<1>7. ASSUME NEW t \in Tasks, TaskTLS(t) PROVE TaskTypeOK' /\ DrainBound'
    <2>3. CASE /\ Post(t, "failure")
               /\ conn' = [conn EXCEPT ![t] = "closed"]
               /\ taskPc' = [taskPc EXCEPT ![t] = "done"]
        BY <1>1, <1>7, <2>3 DEF TaskTLS, Post, TaskTypeOK, DrainBound
    <2>4. CASE /\ taskPc' = [taskPc EXCEPT ![t] = "request"]
               /\ UNCHANGED << ch, posted, conn >>
        BY <1>1, <1>7, <2>4 DEF TaskTLS, TaskTypeOK, DrainBound
    <2>5. QED
        BY <1>7, <2>3, <2>4 DEF TaskTLS
<1>8. ASSUME NEW t \in Tasks, TaskRequest(t) PROVE TaskTypeOK' /\ DrainBound'
    BY <1>1, <1>8 DEF TaskRequest, Post, TaskTypeOK, DrainBound
<1>9. ASSUME NEW t \in Tasks, TaskWrite(t) PROVE TaskTypeOK' /\ DrainBound'
    BY <1>1, <1>9 DEF TaskWrite, Post, TaskTypeOK, DrainBound
<1>10. ASSUME NEW t \in Tasks, TaskDrain(t) PROVE TaskTypeOK' /\ DrainBound'
    BY <1>1, <1>10 DEF TaskDrain, TaskTypeOK, DrainBound
<1>11. CASE UNCHANGED vars
    BY <1>1, <1>11 DEF vars, TaskTypeOK, DrainBound
<1>12. QED
    BY <1>2, <1>3, <1>4, <1>5, <1>6, <1>7, <1>8, <1>9, <1>10, <1>11
    DEF Next, MainStep, TaskStep

\* What DialConjure returned: set by the early returns and by Connect.
LEMMA OutcomeTypeStep == TypeInv /\ [Next]_vars => OutcomeTypeOK'
<1> SUFFICES ASSUME TypeInv, [Next]_vars PROVE OutcomeTypeOK'
    OBVIOUS
<1>1. OutcomeTypeOK
    BY DEF TypeInv, TypeOK
<1>2. CASE DialConjureAddr
    BY <1>1, <1>2 DEF DialConjureAddr, OutcomeTypeOK
<1>3. CASE Receive
    BY <1>1, <1>3 DEF Receive, OutcomeTypeOK
<1>4. CASE Connect
    BY <1>1, <1>4 DEF Connect, OutcomeTypeOK
<1>5. CASE \/ DialConjureSession \/ TestV6Start \/ TestV6Select \/ ProbeDial
           \/ Registered
    BY <1>1, <1>5 DEF DialConjureSession, TestV6Start, TestV6Select,
                      ProbeDial, Registered, OutcomeTypeOK
<1>9. CASE Register
    <2>1. CASE RegisterPanics
        BY <1>1, <1>9, <2>1, RegisterCases
        DEF RegisterPanics, RegisterKeeps, OutcomeTypeOK
    <2>2. CASE RegisterSpawns
        BY <1>1, <1>9, <2>2, RegisterCases
        DEF RegisterSpawns, RegisterKeeps, OutcomeTypeOK
    <2>3. CASE RegisterNoPhantom
        BY <1>1, <1>9, <2>3, RegisterCases
        DEF RegisterNoPhantom, RegisterKeeps, OutcomeTypeOK
    <2>4. QED
        BY <1>9, <2>1, <2>2, <2>3, RegisterCases
<1>6. ASSUME NEW t \in Tasks, TaskStep(t) PROVE OutcomeTypeOK'
    BY <1>1, <1>6 DEF TaskStep, TaskDial, TaskTLS, TaskRequest, TaskWrite,
                      TaskDrain, OutcomeTypeOK
<1>7. CASE UNCHANGED vars
    BY <1>1, <1>7 DEF vars, OutcomeTypeOK
<1>8. QED
    BY <1>2, <1>3, <1>4, <1>5, <1>6, <1>7, <1>9 DEF Next, MainStep

LEMMA TypeStep == TypeInv /\ [Next]_vars => TypeInv'
BY SeqTypeStep, SessionTypeStep, TaskTypeStep, OutcomeTypeStep
DEF TypeInv, TypeOK


(***************************************************************************)
(* SendNeverBlocks.  It is inductive together with the facts that the      *)
(* goroutines do not exist before register (then the buffer is empty and  *)
(* nobody has sent), that all W of them are spawned at once, and that a    *)
(* goroutine has not sent exactly while it is at one of the steps before   *)
(* its send.                                                               *)
(***************************************************************************)
PreSendPcs == {"idle", "dial", "tls", "request", "write"}

NoneSpawned == \A t \in Tasks : taskPc[t] = "idle"

ChannelInv ==
    /\ mainPc \in {"start", "probe", "register"} => NoneSpawned
    /\ NoneSpawned => ch = << >>
    /\ ~NoneSpawned => /\ Len(regDecoys) = Width
                       /\ \A t \in Tasks : taskPc[t] # "idle"
    /\ \A t \in Tasks : posted[t] = "none" <=> taskPc[t] \in PreSendPcs
    /\ SendNeverBlocks

BlockInv == TypeInv /\ ChannelInv

\* The goroutines form a finite set of at most Width members.
LEMMA PendingFinite ==
    /\ IsFiniteSet(PendingSenders)
    /\ Cardinality(PendingSenders) \in Nat
<1>1. IsFiniteSet(Tasks) /\ PendingSenders \subseteq Tasks
    BY FS_Interval DEF Tasks, PendingSenders
<1>2. IsFiniteSet(PendingSenders)
    BY <1>1, FS_Subset
<1>3. QED
    BY <1>2, FS_CardinalityType

\* A goroutine that sends its result on dialErrors (dialError <- err in
\* send) leaves the set of those still to send: the buffer grows by the
\* slot the goroutine held in reserve.
LEMMA PostStep ==
    ASSUME BlockInv,
           NEW t \in Tasks, NEW r \in Results, NEW p \in TaskPcs \ PreSendPcs,
           taskPc[t] \in PreSendPcs \ {"idle"},
           taskPc' = [taskPc EXCEPT ![t] = p],
           ch' = Append(ch, r),
           posted' = [posted EXCEPT ![t] = r],
           UNCHANGED << mainPc, regDecoys >>
    PROVE  ChannelInv'
<1>1. /\ taskPc \in [Tasks -> TaskPcs]
      /\ posted \in [Tasks -> Results \cup {"none"}]
      /\ ch \in Seq(Results)
    BY DEF BlockInv, TypeInv, TypeOK, TaskTypeOK, SeqTypeOK
<1>2. \A u \in Tasks : taskPc[u] # "idle"
    BY DEF BlockInv, ChannelInv, NoneSpawned
<1>3. posted[t] = "none"
    BY DEF BlockInv, ChannelInv
<1>4. PendingSenders' = PendingSenders \ {t}
    BY <1>1, <1>3 DEF PendingSenders, PreSendPcs, TaskPcs
<1>5. t \in PendingSenders
    BY <1>3 DEF PendingSenders
<1>6. Cardinality(PendingSenders') = Cardinality(PendingSenders) - 1
    BY <1>4, <1>5, PendingFinite, FS_RemoveElement
<1>7. Len(ch') = Len(ch) + 1
    BY <1>1
<1>8. SendNeverBlocks'
    <2>1. SendNeverBlocks
        BY DEF BlockInv, ChannelInv
    <2>2. ChanCap' = ChanCap
        BY DEF ChanCap, RegWidth
    <2>3. QED
        BY <1>6, <1>7, <2>1, <2>2, PendingFinite DEF SendNeverBlocks
<1>9. \A u \in Tasks : posted'[u] = "none" <=> taskPc'[u] \in PreSendPcs
    BY <1>1 DEF BlockInv, ChannelInv, PreSendPcs, TaskPcs
<1>10. \A u \in Tasks : taskPc'[u] # "idle"
    BY <1>1, <1>2 DEF PreSendPcs, TaskPcs
<1>11. ~NoneSpawned'
    BY <1>10 DEF NoneSpawned
<1>12. mainPc' \notin {"start", "probe", "register"}
    BY <1>2 DEF BlockInv, ChannelInv, NoneSpawned
<1>13. Len(regDecoys') = Width
    BY <1>2 DEF BlockInv, ChannelInv, NoneSpawned
<1>14. QED
    BY <1>8, <1>9, <1>10, <1>11, <1>12, <1>13 DEF ChannelInv

\* A goroutine that moves to its next step without sending leaves the
\* buffer and the set of those still to send as they were.
LEMMA MoveStep ==
    ASSUME BlockInv,
           NEW t \in Tasks, NEW p \in TaskPcs \ {"idle"},
           taskPc[t] # "idle",
           taskPc[t] \in PreSendPcs <=> p \in PreSendPcs,
           taskPc' = [taskPc EXCEPT ![t] = p],
           UNCHANGED << mainPc, regDecoys, ch, posted >>
    PROVE  ChannelInv'
<1>1. taskPc \in [Tasks -> TaskPcs]
    BY DEF BlockInv, TypeInv, TypeOK, TaskTypeOK
<1>2. \A u \in Tasks : taskPc[u] # "idle"
    BY DEF BlockInv, ChannelInv, NoneSpawned
<1>3. PendingSenders' = PendingSenders
    BY <1>1 DEF PendingSenders
<1>4. SendNeverBlocks'
    BY <1>3 DEF BlockInv, ChannelInv, SendNeverBlocks, ChanCap, RegWidth
<1>5. \A u \in Tasks : posted'[u] = "none" <=> taskPc'[u] \in PreSendPcs
    BY <1>1 DEF BlockInv, ChannelInv
<1>6. \A u \in Tasks : taskPc'[u] # "idle"
    BY <1>1, <1>2
<1>7. ~NoneSpawned'
    BY <1>6 DEF NoneSpawned
<1>8. mainPc' \notin {"start", "probe", "register"}
    BY <1>2 DEF BlockInv, ChannelInv, NoneSpawned
<1>9. Len(regDecoys') = Width
    BY <1>2 DEF BlockInv, ChannelInv, NoneSpawned
<1>10. QED
    BY <1>4, <1>5, <1>6, <1>7, <1>8, <1>9 DEF ChannelInv

\* A step of the dialling goroutine that neither spawns goroutines nor
\* touches the buffer nor the decoy list.
LEMMA QuietStep ==
    ASSUME BlockInv,
           UNCHANGED << regDecoys, ch, taskPc, posted >>,
           mainPc' \in {"start", "probe", "register"} => NoneSpawned
    PROVE  ChannelInv'
<1>1. PendingSenders' = PendingSenders
    BY DEF PendingSenders
<1>2. NoneSpawned' = NoneSpawned
    BY DEF NoneSpawned
<1>3. QED
    BY <1>1, <1>2 DEF BlockInv, ChannelInv, SendNeverBlocks, ChanCap, RegWidth

\* Initially nobody has sent and no goroutine exists.
LEMMA ChannelInit == Init => ChannelInv
<1> SUFFICES ASSUME Init PROVE ChannelInv
    OBVIOUS
<1>1. PendingSenders = {}
    BY DEF Init, PendingSenders
<1>2. NoneSpawned
    BY DEF Init, NoneSpawned
<1>3. QED
    BY <1>1, <1>2, FS_EmptySet
    DEF Init, ChannelInv, SendNeverBlocks, ChanCap, RegWidth, PreSendPcs

\* register spawns all W goroutines at once, on an empty buffer, or none.
LEMMA RegisterChannel ==
    ASSUME BlockInv, Register
    PROVE  ChannelInv'
<1>1. /\ ch = << >>
      /\ \A t \in Tasks : taskPc[t] = "idle" /\ posted[t] = "none"
    BY RegisterCases DEF BlockInv, ChannelInv, NoneSpawned, PreSendPcs
<1>2. PendingSenders = {}
    BY <1>1 DEF PendingSenders
<1>3. CASE RegisterPanics
    BY <1>3, RegisterCases, QuietStep DEF RegisterPanics, RegisterKeeps
<1>4. CASE RegisterNoPhantom
    <2>1. NoneSpawned' /\ PendingSenders' = {} /\ ch' = << >>
        BY <1>1, <1>4, RegisterCases
        DEF RegisterNoPhantom, RegisterKeeps, NoneSpawned, PendingSenders
    <2>2. SendNeverBlocks'
        BY <2>1, <1>4, FS_EmptySet
        DEF RegisterNoPhantom, SendNeverBlocks, ChanCap, RegWidth
    <2>3. QED
        BY <1>1, <1>4, <2>1, <2>2, RegisterCases
        DEF ChannelInv, RegisterNoPhantom, RegisterKeeps, PreSendPcs
<1>5. CASE RegisterSpawns
    <2>1. taskPc' = [t \in Tasks |-> "dial"] /\ UNCHANGED << ch, posted >>
        BY <1>5, RegisterCases DEF RegisterSpawns, RegisterKeeps
    <2>2. PendingSenders' = Tasks
        BY <1>1, <2>1 DEF PendingSenders
    <2>3. Cardinality(Tasks) = Width
        BY FS_Interval DEF Tasks
    <2>4. SendNeverBlocks'
        BY <1>1, <1>5, <2>1, <2>2, <2>3
        DEF RegisterSpawns, SendNeverBlocks, ChanCap, RegWidth
    <2>5. ~NoneSpawned'
        BY <2>1 DEF NoneSpawned
    <2>6. QED
        BY <1>1, <1>5, <2>1, <2>4, <2>5
        DEF ChannelInv, RegisterSpawns, PreSendPcs
<1>6. QED
    BY <1>3, <1>4, <1>5, RegisterCases

\* The drain loop takes one result out of the buffer.
LEMMA ReceiveChannel ==
    ASSUME BlockInv, Receive
    PROVE  ChannelInv'
<1>1. ch \in Seq(Results) /\ ch # << >>
    BY DEF BlockInv, TypeInv, TypeOK, SeqTypeOK, Receive
<1>2. ~NoneSpawned
    BY <1>1 DEF BlockInv, ChannelInv
<1>3. Len(ch') = Len(ch) - 1 /\ UNCHANGED << regDecoys, taskPc, posted >>
    BY <1>1 DEF Receive
<1>4. PendingSenders' = PendingSenders /\ NoneSpawned' = NoneSpawned
    BY <1>3 DEF PendingSenders, NoneSpawned
<1>5. SendNeverBlocks'
    BY <1>3, <1>4, PendingFinite
    DEF BlockInv, ChannelInv, SendNeverBlocks, ChanCap, RegWidth
<1>6. mainPc' \in {"drain", "done", "registered"}
    BY DEF Receive
<1>7. QED
    BY <1>2, <1>3, <1>4, <1>5, <1>6 DEF BlockInv, ChannelInv

\* Each step of a send goroutine is a send or a move.
LEMMA TaskChannel ==
    ASSUME BlockInv, NEW t \in Tasks, TaskStep(t)
    PROVE  ChannelInv'
<1>1. CASE TaskDial(t)
    <2>1. CASE Post(t, "unreachable") /\ taskPc' = [taskPc EXCEPT ![t] = "done"]
        BY <1>1, <2>1, PostStep DEF TaskDial, Post, PreSendPcs
    <2>2. CASE Post(t, "failure") /\ taskPc' = [taskPc EXCEPT ![t] = "done"]
        BY <1>1, <2>2, PostStep DEF TaskDial, Post, PreSendPcs
    <2>3. CASE taskPc' = [taskPc EXCEPT ![t] = "tls"] /\ UNCHANGED << ch, posted >>
        BY <1>1, <2>3, MoveStep DEF TaskDial, PreSendPcs
    <2>4. QED
        BY <1>1, <2>1, <2>2, <2>3 DEF TaskDial
<1>2. CASE TaskTLS(t)
    <2>1. CASE Post(t, "failure") /\ taskPc' = [taskPc EXCEPT ![t] = "done"]
        BY <1>2, <2>1, PostStep DEF TaskTLS, Post, PreSendPcs
    <2>2. CASE taskPc' = [taskPc EXCEPT ![t] = "request"] /\ UNCHANGED << ch, posted >>
        BY <1>2, <2>2, MoveStep DEF TaskTLS, PreSendPcs
    <2>3. QED
        BY <1>2, <2>1, <2>2 DEF TaskTLS
<1>3. CASE TaskRequest(t)
    <2>1. CASE Post(t, "failure") /\ taskPc' = [taskPc EXCEPT ![t] = "done"]
        BY <1>3, <2>1, PostStep DEF TaskRequest, Post, PreSendPcs
    <2>2. CASE taskPc' = [taskPc EXCEPT ![t] = "write"] /\ UNCHANGED << ch, posted >>
        BY <1>3, <2>2, MoveStep DEF TaskRequest, PreSendPcs
    <2>3. QED
        BY <1>3, <2>1, <2>2 DEF TaskRequest
<1>4. CASE TaskWrite(t)
    <2>1. CASE Post(t, "failure") /\ taskPc' = [taskPc EXCEPT ![t] = "done"]
        BY <1>4, <2>1, PostStep DEF TaskWrite, Post, PreSendPcs
    <2>2. CASE Post(t, "ok") /\ taskPc' = [taskPc EXCEPT ![t] = "drain"]
        BY <1>4, <2>2, PostStep DEF TaskWrite, Post, PreSendPcs
    <2>3. QED
        BY <1>4, <2>1, <2>2 DEF TaskWrite
<1>5. CASE TaskDrain(t)
    BY <1>5, MoveStep DEF TaskDrain, PreSendPcs
<1>6. QED
    BY <1>1, <1>2, <1>3, <1>4, <1>5 DEF TaskStep

LEMMA ChannelStep == BlockInv /\ [Next]_vars => ChannelInv'
<1> SUFFICES ASSUME BlockInv, [Next]_vars PROVE ChannelInv'
    OBVIOUS
<1>1. CASE DialConjureAddr \/ DialConjureSession \/ TestV6Start \/ TestV6Select
    BY <1>1, QuietStep
    DEF DialConjureAddr, DialConjureSession, TestV6Start, TestV6Select,
        BlockInv, ChannelInv, NoneSpawned
<1>2. CASE ProbeDial \/ Registered \/ Connect
    BY <1>2, QuietStep DEF ProbeDial, Registered, Connect, BlockInv, ChannelInv
<1>3. CASE Register
    BY <1>3, RegisterChannel
<1>4. CASE Receive
    BY <1>4, ReceiveChannel
<1>5. ASSUME NEW t \in Tasks, TaskStep(t) PROVE ChannelInv'
    BY <1>5, TaskChannel
<1>6. CASE UNCHANGED vars
    BY <1>6, QuietStep DEF vars, BlockInv, ChannelInv
<1>7. QED
    BY <1>1, <1>2, <1>3, <1>4, <1>5, <1>6 DEF Next, MainStep

\* No send goroutine of register ever blocks on dialErrors, for every
\* width and decoy list: the goroutines left behind when the drain loop
\* stops early all run to completion.
THEOREM NeverBlocks == Spec => []SendNeverBlocks
<1>1. Init => BlockInv
    BY TypeInit, ChannelInit DEF BlockInv
<1>2. BlockInv /\ [Next]_vars => BlockInv'
    BY TypeStep, ChannelStep DEF BlockInv
<1>3. BlockInv => SendNeverBlocks
    BY DEF BlockInv, ChannelInv
<1>4. QED
    BY <1>1, <1>2, <1>3, PTL DEF Spec

\* Type correctness of the whole dial: every variable keeps the type the
\* code's fields have, whatever the decoy list and the width.
THEOREM TypeCorrect == Spec => []TypeOK
<1>1. TypeInv => TypeOK
    BY DEF TypeInv
<1>2. QED
    BY TypeInit, TypeStep, <1>1, PTL DEF Spec

=============================================================================
