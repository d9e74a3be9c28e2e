------------------------------- MODULE Stats -------------------------------
(***************************************************************************)
(* The shared RTT record of one registration (src/tapdance/conjure.go,     *)
(* ConjureReg.stats) and the two unlocked reads of it: each send goroutine *)
(* stores its TCP RTT under reg.m (setTCPToDecoy) and reads                *)
(* *reg.stats.TcpToDecoy without the lock for its TLS deadline; the        *)
(* dialling goroutine reads it through getTcpToDecoy, again without the    *)
(* lock, for the sleep before Connect.                                     *)
(*                                                                         *)
(* The stores are ordered by the mutex and kept in that order in log.  A   *)
(* racy read is a nondeterministic choice among the stores the Go memory   *)
(* model lets it observe: any store made so far that is not overwritten,   *)
(* along happens-before, by a later store also happening before the read.  *)
(* A goroutine's own store happens before its read (program order), and a  *)
(* goroutine's store happens before the main goroutine's read once main    *)
(* has received that goroutine's report from dialErrors.                   *)
(***************************************************************************)
EXTENDS Integers, Sequences, FiniteSets

CONSTANTS
    Width,   \* number of send goroutines (len(RegDecoys))
    Rtts     \* milliseconds a TCP dial to a decoy may take, as measured

ASSUME WidthAssumption == Width \in Nat \ {0}
ASSUME RttsAssumption == Rtts \subseteq Nat

Tasks  == 1 .. Width
NilRtt == -1            \* reg.stats.TcpToDecoy == nil

VARIABLES
    log,          \* TcpToDecoy stores in mutex order: [task, rtt] records
    tcpIdx,       \* [Tasks -> Nat]: index in log of t's store, 0 if none
    measured,     \* [Tasks -> Rtts \cup {NilRtt}]: what t's dial measured
    taskPc,       \* "dial", "read", "tls", "report", "done", "panic"
    deadlineRtt,  \* the rtt t's TLS deadline was computed from (0: none)
    posted,       \* [Tasks -> BOOLEAN]: t sent on dialErrors
    received,     \* goroutines whose report the main goroutine received
    mainPc,       \* "drain", "done"
    sleepRtt,     \* rttInt(getTcpToDecoy()) in DialConjure's sleep
    sleep         \* the sleep, in milliseconds

vars == << log, tcpIdx, measured, taskPc, deadlineRtt, posted, received,
           mainPc, sleepRtt, sleep >>

-----------------------------------------------------------------------------
\* rttInt: an unset (zero) RTT counts as 300ms.
RttInt(millis) == IF millis = 0 THEN 300 ELSE millis

\* getRandInt(min, max): an integer of [min, max] (not in this repository).
GetRandInt(lo, hi) == lo .. hi

\* addon := getRandInt(min, max) / 1000, integer division.
Addons(lo, hi) == {a \div 1000 : a \in GetRandInt(lo, hi)}

\* The values a racy read may return when the stores at the indices hb
\* happen before it: a store no earlier than all of them, and the initial
\* nil field when no store happens before it.
Visible(hb) ==
    {log[i].rtt : i \in {j \in 1 .. Len(log) : \A h \in hb : h <= j}}
    \cup (IF \A h \in hb : h = 0 THEN {NilRtt} ELSE {})

\* GetTcpToDecoy on the stats record: 0 for a nil field.
GetTcpToDecoy(v) == IF v = NilRtt THEN 0 ELSE v

-----------------------------------------------------------------------------
Init ==
    /\ log = << >>
    /\ tcpIdx = [t \in Tasks |-> 0]
    /\ measured = [t \in Tasks |-> NilRtt]
    /\ taskPc = [t \in Tasks |-> "dial"]
    /\ deadlineRtt = [t \in Tasks |-> 0]
    /\ posted = [t \in Tasks |-> FALSE]
    /\ received = {}
    /\ mainPc = "drain"
    /\ sleepRtt = 0
    /\ sleep = 0

\* Variant: setTCPToDecoy moved below the dial's error check, so a failed
\* dial reports without storing its RTT.
TaskDialStoreAfterCheck(t) ==
    /\ taskPc[t] = "dial"
    /\ \E m \in Rtts, err \in BOOLEAN :
          /\ measured' = [measured EXCEPT ![t] = m]
          /\ IF err
                THEN /\ taskPc' = [taskPc EXCEPT ![t] = "report"]
                     /\ UNCHANGED << log, tcpIdx >>
                ELSE /\ log' = Append(log, [task |-> t, rtt |-> m])
                     /\ tcpIdx' = [tcpIdx EXCEPT ![t] = Len(log) + 1]
                     /\ taskPc' = [taskPc EXCEPT ![t] = "read"]
    /\ UNCHANGED << deadlineRtt, posted, received, mainPc, sleepRtt, sleep >>

\* send: the TCP dial, then setTCPToDecoy (under reg.m; reg.stats is never
\* nil, register allocates it) whether or not the dial failed; a failed
\* dial goes on to report its error.
TaskDial(t) ==
    /\ taskPc[t] = "dial"
    /\ \E m \in Rtts, err \in BOOLEAN :
          /\ measured' = [measured EXCEPT ![t] = m]
          /\ log' = Append(log, [task |-> t, rtt |-> m])
          /\ tcpIdx' = [tcpIdx EXCEPT ![t] = Len(log) + 1]
          /\ taskPc' = [taskPc EXCEPT ![t] = IF err THEN "report" ELSE "read"]
    /\ UNCHANGED << deadlineRtt, posted, received, mainPc, sleepRtt, sleep >>

\* Variant: the RTT is read before the goroutine's own store.
TaskReadRttBeforeStore(t) ==
    /\ taskPc[t] = "read"
    /\ \E v \in Visible({}) :
          IF v = NilRtt
             THEN /\ taskPc' = [taskPc EXCEPT ![t] = "panic"]
                  /\ UNCHANGED deadlineRtt
             ELSE /\ deadlineRtt' = [deadlineRtt EXCEPT ![t] = RttInt(v)]
                  /\ taskPc' = [taskPc EXCEPT ![t] = "tls"]
    /\ UNCHANGED << log, tcpIdx, measured, posted, received, mainPc,
                    sleepRtt, sleep >>

\* rtt := rttInt(*reg.stats.TcpToDecoy), unlocked: a nil field panics.
TaskReadRtt(t) ==
    /\ taskPc[t] = "read"
    /\ \E v \in Visible({tcpIdx[t]}) :
          IF v = NilRtt
             THEN /\ taskPc' = [taskPc EXCEPT ![t] = "panic"]
                  /\ UNCHANGED deadlineRtt
             ELSE /\ deadlineRtt' = [deadlineRtt EXCEPT ![t] = RttInt(v)]
                  /\ taskPc' = [taskPc EXCEPT ![t] = "tls"]
    /\ UNCHANGED << log, tcpIdx, measured, posted, received, mainPc,
                    sleepRtt, sleep >>

\* createTLSConn with the deadline, setTLSToDecoy (the TlsToDecoy field,
\* which no read here observes), createRequest and the write: on every
\* path the goroutine goes on to report.
TaskTLS(t) ==
    /\ taskPc[t] = "tls"
    /\ taskPc' = [taskPc EXCEPT ![t] = "report"]
    /\ UNCHANGED << log, tcpIdx, measured, deadlineRtt, posted, received,
                    mainPc, sleepRtt, sleep >>

\* dialError <- result.
TaskReport(t) ==
    /\ taskPc[t] = "report"
    /\ posted' = [posted EXCEPT ![t] = TRUE]
    /\ taskPc' = [taskPc EXCEPT ![t] = "done"]
    /\ UNCHANGED << log, tcpIdx, measured, deadlineRtt, received, mainPc,
                    sleepRtt, sleep >>

\* register's drain loop receives a report (which report stops the loop is
\* Conjure.tla's concern: here any number of reports may precede the sleep).
Receive ==
    /\ mainPc = "drain"
    /\ \E t \in Tasks : posted[t] /\ t \notin received
                        /\ received' = received \cup {t}
    /\ UNCHANGED << log, tcpIdx, measured, taskPc, deadlineRtt, posted,
                    mainPc, sleepRtt, sleep >>

\* DialConjure after register returned: getRandomDuration(3000, 212, 3449)
\* reads getTcpToDecoy without the lock, then sleeps
\* base + rtt * addon milliseconds.
Sleep ==
    /\ mainPc = "drain"
    /\ received # {}
    /\ \E v \in Visible({tcpIdx[u] : u \in received}), k \in Addons(212, 3449) :
          /\ sleepRtt' = RttInt(GetTcpToDecoy(v))
          /\ sleep' = 3000 + sleepRtt' * k
    /\ mainPc' = "done"
    /\ UNCHANGED << log, tcpIdx, measured, taskPc, deadlineRtt, posted,
                    received >>

TaskStep(t) == TaskDial(t) \/ TaskReadRtt(t) \/ TaskTLS(t) \/ TaskReport(t)

Next == Receive \/ Sleep \/ \E t \in Tasks : TaskStep(t)

Spec == Init /\ [][Next]_vars /\ WF_vars(Receive \/ Sleep)
                              /\ \A t \in Tasks : WF_vars(TaskStep(t))

-----------------------------------------------------------------------------
(* Properties.                                                             *)

TypeOK ==
    /\ log \in Seq([task : Tasks, rtt : Rtts])
    /\ tcpIdx \in [Tasks -> 0 .. Width]
    /\ measured \in [Tasks -> Rtts \cup {NilRtt}]
    /\ taskPc \in [Tasks -> {"dial", "read", "tls", "report", "done", "panic"}]
    /\ deadlineRtt \in [Tasks -> Nat]
    /\ posted \in [Tasks -> BOOLEAN]
    /\ received \subseteq Tasks
    /\ mainPc \in {"drain", "done"}
    /\ sleepRtt \in Nat
    /\ sleep \in Nat

\* The unlocked read *reg.stats.TcpToDecoy in send never dereferences a nil
\* pointer: whatever other goroutines store concurrently, the goroutine's
\* own store precedes the read, so every value it may observe is set.
NoNilRttDeref == \A t \in Tasks : taskPc[t] # "panic"

\* The sleep before Connect is scaled by an RTT some send goroutine really
\* measured, never by the 300ms stand-in for a missing measurement
\* (unless a dial measured 0): every report main received was preceded by
\* that goroutine's store.
SleepRttMeasured ==
    mainPc = "done" =>
        \E t \in Tasks : measured[t] # NilRtt /\ sleepRtt = RttInt(measured[t])

\* DialConjure's sleep (spec 4.8 step 3, and the sleep tuning of 6) has
\* base 3000ms and an addon within the bounds [212, 3449]ms.
SleepWithinSpecBounds ==
    mainPc = "done" => sleep \in 3000 + 212 .. 3000 + 3449

=============================================================================
