---------------------------- MODULE StatsProofs ----------------------------
(* TLAPS proofs about the shared RTT record and its racy reads (Stats.tla). *)
EXTENDS Stats, SequenceTheorems, FiniteSetTheorems, TLAPS

\* Every store in the log is its goroutine's measurement, every goroutine
\* past its dial has stored it, and the main goroutine has received
\* reports only from goroutines that stored.
StatsInv ==
    /\ log \in Seq([task : Tasks, rtt : Rtts])
    /\ tcpIdx \in [Tasks -> Nat]
    /\ measured \in [Tasks -> Rtts \cup {NilRtt}]
    /\ taskPc \in [Tasks -> {"dial", "read", "tls", "report", "done"}]
    /\ posted \in [Tasks -> BOOLEAN]
    /\ received \subseteq Tasks
    /\ mainPc \in {"drain", "done"}
    /\ \A t \in Tasks : taskPc[t] = "dial" => measured[t] = NilRtt /\ ~posted[t]
    /\ \A t \in Tasks : taskPc[t] # "dial" =>
           tcpIdx[t] \in 1 .. Len(log) /\ measured[t] \in Rtts
    /\ \A i \in 1 .. Len(log) : log[i].rtt = measured[log[i].task]
    /\ \A t \in received : posted[t]
    /\ mainPc = "done" =>
           \E t \in Tasks : measured[t] # NilRtt /\ sleepRtt = RttInt(measured[t])

USE WidthAssumption, RttsAssumption DEF Tasks, NilRtt

\* A store in the log is a record of a goroutine and an RTT ...
LEMMA LogEntry ==
    ASSUME log \in Seq([task : Tasks, rtt : Rtts]), NEW i \in 1 .. Len(log)
    PROVE  log[i] \in [task : Tasks, rtt : Rtts]
BY ElementOfSeq

\* ... and the RTT it stores is a natural number, so never the nil field.
LEMMA LogEntryRtt ==
    ASSUME log \in Seq([task : Tasks, rtt : Rtts]), NEW i \in 1 .. Len(log)
    PROVE  log[i].rtt \in Nat
<1>1. log[i] \in [task : Tasks, rtt : Rtts]
    BY LogEntry
<1>. QED
    BY <1>1

LEMMA StatsInit == Init => StatsInv
BY DEF Init, StatsInv

\* A goroutine's dial appends its store and sets its measurement; no earlier
\* store is its own, so the others' measurements are left as they were.
LEMMA DialStep ==
    ASSUME StatsInv, NEW t \in Tasks, TaskDial(t)
    PROVE  StatsInv'
<1>1. PICK m \in Rtts, err \in BOOLEAN :
          /\ measured' = [measured EXCEPT ![t] = m]
          /\ log' = Append(log, [task |-> t, rtt |-> m])
          /\ tcpIdx' = [tcpIdx EXCEPT ![t] = Len(log) + 1]
          /\ taskPc' = [taskPc EXCEPT ![t] = IF err THEN "report" ELSE "read"]
    BY DEF TaskDial
<1>2. /\ taskPc[t] = "dial"
      /\ measured[t] = NilRtt
      /\ ~posted[t]
      /\ UNCHANGED << deadlineRtt, posted, received, mainPc, sleepRtt, sleep >>
    BY DEF TaskDial, StatsInv
<1>3. Len(log') = Len(log) + 1 /\ log' \in Seq([task : Tasks, rtt : Rtts])
    BY <1>1 DEF StatsInv
<1>4. \A i \in 1 .. Len(log) : log[i].task # t
    <2> SUFFICES ASSUME NEW i \in 1 .. Len(log) PROVE log[i].task # t
        OBVIOUS
    <2>1. log[i].rtt \in Nat /\ log[i].rtt = measured[log[i].task]
        BY LogEntryRtt DEF StatsInv
    <2>. QED
        BY <1>2, <2>1
<1>5. \A i \in 1 .. Len(log') : log'[i].rtt = measured'[log'[i].task]
    <2> SUFFICES ASSUME NEW i \in 1 .. Len(log') PROVE log'[i].rtt = measured'[log'[i].task]
        OBVIOUS
    <2>1. CASE i = Len(log) + 1
        BY <1>1, <2>1 DEF StatsInv
    <2>2. CASE i \in 1 .. Len(log)
        BY <1>1, <1>4, <2>2 DEF StatsInv
    <2>. QED
        BY <1>3, <2>1, <2>2
<1>6. \A u \in Tasks : taskPc'[u] # "dial" =>
          tcpIdx'[u] \in 1 .. Len(log') /\ measured'[u] \in Rtts
    BY <1>1, <1>3 DEF StatsInv
<1>7. mainPc' = "done" =>
          \E u \in Tasks : measured'[u] # NilRtt /\ sleepRtt' = RttInt(measured'[u])
    <2> SUFFICES ASSUME mainPc' = "done"
                 PROVE  \E u \in Tasks : measured'[u] # NilRtt
                                         /\ sleepRtt' = RttInt(measured'[u])
        OBVIOUS
    <2>1. PICK u \in Tasks : measured[u] # NilRtt /\ sleepRtt = RttInt(measured[u])
        BY <1>2 DEF StatsInv
    <2>2. u # t
        BY <1>2, <2>1
    <2>. QED
        BY <1>1, <1>2, <2>1, <2>2 DEF StatsInv
<1>8. /\ tcpIdx' \in [Tasks -> Nat]
      /\ measured' \in [Tasks -> Rtts \cup {NilRtt}]
      /\ taskPc' \in [Tasks -> {"dial", "read", "tls", "report", "done"}]
    BY <1>1 DEF StatsInv
<1>9. \A u \in Tasks : taskPc'[u] = "dial" => measured'[u] = NilRtt /\ ~posted'[u]
    BY <1>1, <1>2 DEF StatsInv
<1>. QED
    BY <1>2, <1>3, <1>5, <1>6, <1>7, <1>8, <1>9 DEF StatsInv

\* The unlocked read in send sees its own store or a later one, never nil.
LEMMA ReadStep ==
    ASSUME StatsInv, NEW t \in Tasks, TaskReadRtt(t)
    PROVE  StatsInv'
<1>1. taskPc[t] = "read" /\ tcpIdx[t] \in 1 .. Len(log)
    BY DEF TaskReadRtt, StatsInv
<1>2. PICK v \in Visible({tcpIdx[t]}) :
          IF v = NilRtt
             THEN /\ taskPc' = [taskPc EXCEPT ![t] = "panic"]
                  /\ UNCHANGED deadlineRtt
             ELSE /\ deadlineRtt' = [deadlineRtt EXCEPT ![t] = RttInt(v)]
                  /\ taskPc' = [taskPc EXCEPT ![t] = "tls"]
    BY DEF TaskReadRtt
<1>3. PICK i \in 1 .. Len(log) : v = log[i].rtt
    BY <1>1 DEF Visible
<1>4. v # NilRtt
    <2>1. log[i].rtt \in Nat
        BY <1>3, LogEntryRtt DEF StatsInv
    <2>. QED
        BY <1>3, <2>1
<1>5. taskPc' = [taskPc EXCEPT ![t] = "tls"]
    BY <1>2, <1>4
<1>. QED
    BY <1>1, <1>5 DEF TaskReadRtt, StatsInv


\* The TLS step, the report and the receive move control only.
LEMMA QuietSteps ==
    ASSUME StatsInv, \/ \E t \in Tasks : TaskTLS(t) \/ TaskReport(t)
                     \/ Receive
                     \/ UNCHANGED vars
    PROVE  StatsInv'
<1>1. CASE \E t \in Tasks : TaskTLS(t)
    BY <1>1 DEF TaskTLS, StatsInv
<1>2. CASE \E t \in Tasks : TaskReport(t)
    BY <1>2 DEF TaskReport, StatsInv
<1>3. CASE Receive
    BY <1>3 DEF Receive, StatsInv
<1>4. CASE UNCHANGED vars
    BY <1>4 DEF vars, StatsInv
<1>. QED
    BY <1>1, <1>2, <1>3, <1>4

\* A step that only ends the main goroutine, with a sleep scaled by some
\* goroutine's measurement, keeps the invariant.
LEMMA SleepFrame ==
    ASSUME StatsInv,
           /\ log' = log /\ tcpIdx' = tcpIdx /\ measured' = measured
           /\ taskPc' = taskPc /\ posted' = posted /\ received' = received
           /\ mainPc' = "done",
           \E t \in Tasks : measured'[t] # NilRtt /\ sleepRtt' = RttInt(measured'[t])
    PROVE  StatsInv'
BY DEF StatsInv

\* The main goroutine's unlocked read happens after a received report, so
\* after its sender's store: the sleep is scaled by a measured RTT.
LEMMA SleepStep ==
    ASSUME StatsInv, Sleep
    PROVE  StatsInv'
<1>1. PICK v \in Visible({tcpIdx[u] : u \in received}),
           k \in Addons(212, 3449) :
          /\ sleepRtt' = RttInt(GetTcpToDecoy(v))
          /\ sleep' = 3000 + sleepRtt' * k
    BY DEF Sleep
<1>2. PICK u0 \in received : TRUE
    BY DEF Sleep
<1>3. tcpIdx[u0] \in 1 .. Len(log)
    BY <1>2 DEF StatsInv
<1>4. \A w \in Visible({tcpIdx[u] : u \in received}) :
          \E i \in 1 .. Len(log) : w = log[i].rtt
    <2>1. tcpIdx[u0] \in {tcpIdx[u] : u \in received}
        BY <1>2
    <2>2. tcpIdx[u0] # 0
        BY <1>3
    <2>3. ~(\A h \in {tcpIdx[u] : u \in received} : h = 0)
        BY <2>1, <2>2
    <2>. QED
        BY <2>3 DEF Visible
<1>5. PICK i \in 1 .. Len(log) : v = log[i].rtt
    BY <1>4
<1>6. /\ log[i].task \in Tasks
      /\ v \in Nat
      /\ measured[log[i].task] = v
    <2>1. log[i] \in [task : Tasks, rtt : Rtts]
        BY LogEntry DEF StatsInv
    <2>2. log[i].rtt \in Nat
        BY LogEntryRtt DEF StatsInv
    <2>3. measured[log[i].task] = log[i].rtt
        BY DEF StatsInv
    <2>. QED
        BY <1>5, <2>1, <2>2, <2>3
<1>7. sleepRtt' = RttInt(measured[log[i].task]) /\ measured[log[i].task] # NilRtt
    BY <1>1, <1>6 DEF GetTcpToDecoy
<1>8. /\ log' = log /\ tcpIdx' = tcpIdx /\ measured' = measured
      /\ taskPc' = taskPc /\ posted' = posted /\ received' = received
      /\ mainPc' = "done"
    BY DEF Sleep
<1>9. \E t \in Tasks : measured'[t] # NilRtt /\ sleepRtt' = RttInt(measured'[t])
    BY <1>6, <1>7, <1>8
<1>. QED
    BY <1>8, <1>9, SleepFrame

LEMMA StatsStep == StatsInv /\ [Next]_vars => StatsInv'
<1> SUFFICES ASSUME StatsInv, [Next]_vars PROVE StatsInv'
    OBVIOUS
<1>1. CASE \E t \in Tasks : TaskDial(t)
    BY <1>1, DialStep
<1>2. CASE \E t \in Tasks : TaskReadRtt(t)
    BY <1>2, ReadStep
<1>3. CASE Sleep
    BY <1>3, SleepStep
<1>. QED
    BY <1>1, <1>2, <1>3, QuietSteps DEF Next, TaskStep

\* For every width and every set of measured RTTs, no send goroutine
\* dereferences a nil *reg.stats.TcpToDecoy in its unlocked read.
THEOREM NilDerefFree == Spec => []NoNilRttDeref
<1>1. Init => StatsInv
    BY StatsInit
<1>2. StatsInv /\ [Next]_vars => StatsInv'
    BY StatsStep
<1>3. StatsInv => NoNilRttDeref
    BY DEF StatsInv, NoNilRttDeref
<1>. QED
    BY <1>1, <1>2, <1>3, PTL DEF Spec

\* For every width and every set of measured RTTs, DialConjure's sleep is
\* scaled by an RTT some send goroutine measured, whatever stores its
\* unlocked read observes.
THEOREM SleepMeasured == Spec => []SleepRttMeasured
<1>1. StatsInv => SleepRttMeasured
    BY DEF StatsInv, SleepRttMeasured
<1>. QED
    BY <1>1, StatsInit, StatsStep, PTL DEF Spec

(***************************************************************************)
(* Type correctness.  TypeOK bounds each goroutine's index in the log by   *)
(* Width, which holds because the log has one store per goroutine past its *)
(* dial: StoreInv adds that count, the only fact TypeOK is not inductive   *)
(* without.                                                                *)
(***************************************************************************)
Stored == {t \in Tasks : taskPc[t] # "dial"}

StoreInv == TypeOK /\ Len(log) = Cardinality(Stored)

\* A racy read returns a store of the log or the nil field.
LEMMA VisibleValues ==
    ASSUME log \in Seq([task : Tasks, rtt : Rtts]), NEW hb,
           NEW v \in Visible(hb)
    PROVE  v \in Rtts \cup {NilRtt}
<1>1. CASE v = NilRtt
    BY <1>1
<1>2. CASE v # NilRtt
    <2>1. PICK i \in 1 .. Len(log) : v = log[i].rtt
        BY <1>2 DEF Visible
    <2>2. log[i] \in [task : Tasks, rtt : Rtts]
        BY LogEntry
    <2>. QED
        BY <2>1, <2>2
<1>. QED
    BY <1>1, <1>2

\* A set of goroutines is finite and has at most Width members.
LEMMA TaskSubset ==
    ASSUME NEW S \in SUBSET Tasks
    PROVE  IsFiniteSet(S) /\ Cardinality(S) \in 0 .. Width
<1>1. IsFiniteSet(Tasks) /\ Cardinality(Tasks) = Width
    BY FS_Interval
<1>2. IsFiniteSet(S) /\ Cardinality(S) <= Width
    BY <1>1, FS_Subset
<1>. QED
    BY <1>2, FS_CardinalityType

LEMMA StoreInit == Init => StoreInv
<1> SUFFICES ASSUME Init PROVE StoreInv
    OBVIOUS
<1>1. Stored = {}
    BY DEF Init, Stored
<1>. QED
    BY <1>1, FS_EmptySet DEF Init, StoreInv, TypeOK

\* A dial adds one store and one goroutine past its dial; its index is the
\* new length of the log, at most Width.
LEMMA StoreDial ==
    ASSUME StoreInv, NEW t \in Tasks, TaskDial(t)
    PROVE  StoreInv'
<1>1. PICK m \in Rtts, err \in BOOLEAN :
          /\ measured' = [measured EXCEPT ![t] = m]
          /\ log' = Append(log, [task |-> t, rtt |-> m])
          /\ tcpIdx' = [tcpIdx EXCEPT ![t] = Len(log) + 1]
          /\ taskPc' = [taskPc EXCEPT ![t] = IF err THEN "report" ELSE "read"]
    BY DEF TaskDial
<1>2. taskPc \in [Tasks -> {"dial", "read", "tls", "report", "done", "panic"}]
      /\ taskPc[t] = "dial"
    BY DEF TaskDial, StoreInv, TypeOK
<1>3. Stored' = Stored \cup {t} /\ t \notin Stored
    BY <1>1, <1>2 DEF Stored
<1>4. Cardinality(Stored') = Cardinality(Stored) + 1
    <2>1. IsFiniteSet(Stored)
        BY TaskSubset DEF Stored
    <2>. QED
        BY <1>3, <2>1, FS_AddElement
<1>5. /\ log' \in Seq([task : Tasks, rtt : Rtts])
      /\ Len(log') = Len(log) + 1
    <2>1. [task |-> t, rtt |-> m] \in [task : Tasks, rtt : Rtts]
        OBVIOUS
    <2>. QED
        BY <1>1, <2>1, AppendProperties DEF StoreInv, TypeOK
<1>6. Len(log') = Cardinality(Stored') /\ Len(log) + 1 \in 0 .. Width
    <2>1. Cardinality(Stored') \in 0 .. Width
        BY TaskSubset DEF Stored
    <2>. QED
        BY <1>4, <1>5, <2>1 DEF StoreInv
<1>7. /\ tcpIdx' \in [Tasks -> 0 .. Width]
      /\ measured' \in [Tasks -> Rtts \cup {NilRtt}]
      /\ taskPc' \in [Tasks -> {"dial", "read", "tls", "report", "done", "panic"}]
    BY <1>1, <1>6 DEF StoreInv, TypeOK
<1>. QED
    BY <1>5, <1>6, <1>7 DEF TaskDial, StoreInv, TypeOK

\* The unlocked read in send computes a deadline from a natural RTT or
\* panics; it changes no goroutine's dial state.
LEMMA StoreRead ==
    ASSUME StoreInv, NEW t \in Tasks, TaskReadRtt(t)
    PROVE  StoreInv'
<1>1. PICK v \in Visible({tcpIdx[t]}) :
          IF v = NilRtt
             THEN /\ taskPc' = [taskPc EXCEPT ![t] = "panic"]
                  /\ UNCHANGED deadlineRtt
             ELSE /\ deadlineRtt' = [deadlineRtt EXCEPT ![t] = RttInt(v)]
                  /\ taskPc' = [taskPc EXCEPT ![t] = "tls"]
    BY DEF TaskReadRtt
<1>2. v \in Rtts \cup {NilRtt}
    BY VisibleValues DEF StoreInv, TypeOK
<1>3. v # NilRtt => RttInt(v) \in Nat
    BY <1>2 DEF RttInt
<1>4. Stored' = Stored
    <2>1. taskPc[t] = "read"
        BY DEF TaskReadRtt
    <2>2. taskPc' = [taskPc EXCEPT ![t] = IF v = NilRtt THEN "panic" ELSE "tls"]
        BY <1>1
    <2>. QED
        BY <2>1, <2>2 DEF Stored, StoreInv, TypeOK
<1>5. /\ deadlineRtt' \in [Tasks -> Nat]
      /\ taskPc' \in [Tasks -> {"dial", "read", "tls", "report", "done", "panic"}]
    <2>1. CASE v = NilRtt
        BY <1>1, <2>1 DEF StoreInv, TypeOK
    <2>2. CASE v # NilRtt
        BY <1>1, <1>3, <2>2 DEF StoreInv, TypeOK
    <2>. QED
        BY <2>1, <2>2
<1>. QED
    BY <1>4, <1>5 DEF TaskReadRtt, StoreInv, TypeOK

\* The sleep is 3000ms plus a natural RTT times a natural addon.
LEMMA StoreSleep ==
    ASSUME StoreInv, Sleep
    PROVE  StoreInv'
<1>1. PICK v \in Visible({tcpIdx[u] : u \in received}),
           k \in Addons(212, 3449) :
          /\ sleepRtt' = RttInt(GetTcpToDecoy(v))
          /\ sleep' = 3000 + sleepRtt' * k
    BY DEF Sleep
<1>2. v \in Rtts \cup {NilRtt}
    BY VisibleValues DEF StoreInv, TypeOK
<1>3. sleepRtt' \in Nat
    BY <1>1, <1>2 DEF GetTcpToDecoy, RttInt
<1>4. k \in Nat
    BY DEF Addons, GetRandInt
<1>5. sleep' \in Nat
    BY <1>1, <1>3, <1>4
<1>6. UNCHANGED << log, tcpIdx, measured, taskPc, deadlineRtt, posted,
                   received >> /\ mainPc' = "done"
    BY DEF Sleep
<1>7. Stored' = Stored /\ Len(log') = Len(log)
    BY <1>6 DEF Stored
<1>. QED
    BY <1>3, <1>5, <1>6, <1>7 DEF StoreInv, TypeOK

\* The TLS step, the report and the receive leave the log and the
\* goroutines' dial states alone.
LEMMA StoreQuiet ==
    ASSUME StoreInv, \/ \E t \in Tasks : TaskTLS(t) \/ TaskReport(t)
                     \/ Receive
                     \/ UNCHANGED vars
    PROVE  StoreInv'
<1>1. ASSUME NEW t \in Tasks, TaskTLS(t) PROVE StoreInv'
    BY <1>1 DEF TaskTLS, StoreInv, TypeOK, Stored
<1>2. ASSUME NEW t \in Tasks, TaskReport(t) PROVE StoreInv'
    <2>1. Stored' = Stored
        BY <1>2 DEF TaskReport, Stored
    <2>2. /\ posted' \in [Tasks -> BOOLEAN]
          /\ taskPc' \in [Tasks -> {"dial", "read", "tls", "report", "done", "panic"}]
        BY <1>2 DEF TaskReport, StoreInv, TypeOK
    <2>. QED
        BY <1>2, <2>1, <2>2 DEF TaskReport, StoreInv, TypeOK
<1>3. CASE Receive
    BY <1>3 DEF Receive, StoreInv, TypeOK, Stored
<1>4. CASE UNCHANGED vars
    BY <1>4 DEF vars, StoreInv, TypeOK, Stored
<1>. QED
    BY <1>1, <1>2, <1>3, <1>4

LEMMA StoreStep == StoreInv /\ [Next]_vars => StoreInv'
<1> SUFFICES ASSUME StoreInv, [Next]_vars PROVE StoreInv'
    OBVIOUS
<1>1. CASE \E t \in Tasks : TaskDial(t)
    BY <1>1, StoreDial
<1>2. CASE \E t \in Tasks : TaskReadRtt(t)
    BY <1>2, StoreRead
<1>3. CASE Sleep
    BY <1>3, StoreSleep
<1>. QED
    BY <1>1, <1>2, <1>3, StoreQuiet DEF Next, TaskStep

\* For every width and every set of measured RTTs, every variable keeps
\* its type, and each goroutine's store is among the first Width of the
\* log: a goroutine stores its RTT exactly once.
THEOREM StatsTypeCorrect == Spec => []TypeOK
<1>1. StoreInv => TypeOK
    BY DEF StoreInv
<1>. QED
    BY <1>1, StoreInit, StoreStep, PTL DEF Spec

=============================================================================
