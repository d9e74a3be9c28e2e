------------------------------ MODULE Conjure ------------------------------
(***************************************************************************)
(* One Conjure dial of the client core (src/tapdance/conjure.go):          *)
(*                                                                         *)
(*   DialConjureAddr -> makeConjureSession -> DialConjure -> Register      *)
(*   (testV6 probe) -> register (SelectDecoys, SelectPhantom, one send     *)
(*   goroutine per decoy posting into a buffered channel, drain loop with  *)
(*   the Unreachable tally) -> SetV6Support, randomized sleep ->           *)
(*   ConjureReg.Connect (phantom dial, transport tag).                     *)
(*                                                                         *)
(* Every goroutine is an actor: the dialling control flow (mainPc), the    *)
(* IPv6 probe goroutine of testV6 (probePc) and the W registration         *)
(* goroutines running ConjureReg.send (taskPc).  Suspension points of the  *)
(* code (dials, handshakes, writes, the 500us sleep, the post-registration *)
(* sleep) are the boundaries between actions, so every interleaving the Go *)
(* scheduler and the network can produce is a behaviour.  Timing values    *)
(* (RTTs, durations) are abstracted to who wrote them; crypto and wire     *)
(* formats are abstracted to their success or failure.                     *)
(***************************************************************************)
EXTENDS Naturals, Sequences, FiniteSets

CONSTANTS
    Decoys,        \* the decoy list of the asset snapshot
    DecoyFamily,   \* [Decoys -> {"v4", "v6", "both"}]: addresses a decoy has
    Width          \* ConjureSession.Width (defaultRegWidth = 5)

\* The spec requires 0 < W; with W = 0 the drain loop of register ranges
\* over a channel nobody ever sends on (see the hazards in the README).
ASSUME WidthAssumption == Width \in Nat \ {0}
ASSUME DecoyAssumption == DecoyFamily \in [Decoys -> {"v4", "v6", "both"}]

Families   == {"v4", "v6"}
Transports == {"Min", "Null", "Obfs4"}      \* MinTransport, NullTransport, Obfs4Transport
Results    == {"ok", "unreachable", "failure"}   \* nil, RegError{Unreachable}, other error
Tasks      == 1 .. Width

\* The V6 record as setV6Support can leave it (include v4, v6 or both).
V6Records == { [support |-> FALSE, include |-> "v4"],
               [support |-> TRUE,  include |-> "v6"],
               [support |-> TRUE,  include |-> "both"] }

VARIABLES
    net,            \* [Families -> BOOLEAN]: is this address family routable
    oversize,       \* the covert address makes the VSP exceed 0xFFFF bytes
    cache,          \* the asset-wide V6 support record (Assets().GetV6Support)
    mainPc,         \* program counter of the dialling goroutine
    sessTransport,  \* ConjureSession.Transport
    sessProxy,      \* ConjureSession.UseProxyHeader
    sessV6,         \* ConjureSession.V6Support
    probePc,        \* testV6's dial goroutine: "none", "dialing", "done"
    probeMsg,       \* what it put in the dialError channel of testV6
    regDecoys,      \* ConjureSession.RegDecoys
    phantomFam,     \* address family of ConjureSession.Phantom
    regTransport,   \* ConjureReg.transport
    regProxy,       \* ConjureReg.useProxyHeader
    taskPc,         \* program counter of each send goroutine
    conn,           \* each goroutine's decoy TCP/TLS connection
    posted,         \* the result each goroutine sent on dialErrors
    ch,             \* the buffered channel dialErrors, oldest first
    unreachableCount,
    dialResult,     \* what DialConjure returned
    phantomDialed,  \* a TCP dial to the phantom was made
    tagWritten,     \* the Min transport connect tag was written
    connReturned    \* DialConjure returned a non-nil net.Conn

vars == << net, oversize, cache, mainPc, sessTransport, sessProxy, sessV6,
           probePc, probeMsg, regDecoys, phantomFam, regTransport, regProxy,
           taskPc, conn, posted, ch, unreachableCount,
           dialResult, phantomDialed, tagWritten, connReturned >>

sessVars  == << sessTransport, sessProxy >>
probeVars == << probePc, probeMsg >>
regVars   == << regDecoys, phantomFam, regTransport, regProxy >>
taskVars  == << taskPc, conn, posted >>
outVars   == << dialResult, phantomDialed, tagWritten, connReturned >>

MainPcs == {"start", "probe", "register", "drain", "registered", "connect",
            "done", "panic"}
TaskPcs == {"idle", "dial", "tls", "request", "write", "drain", "done"}
DialResults == {"none", "noSession", "noPhantom", "unreachable",
                "phantomErr", "ok"}

-----------------------------------------------------------------------------
(* Helpers translated from the code.                                       *)

\* decoy.GetIpAddrStr(): the v4 address when a decoy has both.
AddrFamily(d) == IF DecoyFamily[d] = "v6" THEN "v6" ELSE "v4"

\* SelectDecoys: the pool Assets() returns for the session's include value.
DecoyPool(version) ==
    IF version = "v6" THEN {d \in Decoys : DecoyFamily[d] \in {"v6", "both"}}
    ELSE IF version = "v4" THEN {d \in Decoys : DecoyFamily[d] \in {"v4", "both"}}
    ELSE Decoys

\* SelectPhantom (newDDIpSelector is outside src/): the phantom is in the v6
\* range only when v6 is supported.
PhantomFamilies(v6Support) == IF v6Support THEN Families ELSE {"v4"}

\* setV6Support(support); any other value than v4, v6 and both means v6.
SetV6Support(support) ==
    IF support = "v4" THEN [support |-> FALSE, include |-> "v4"]
    ELSE IF support = "both" THEN [support |-> TRUE, include |-> "both"]
    ELSE [support |-> TRUE, include |-> "v6"]

\* width := uint(len(cjSession.RegDecoys))
RegWidth == Len(regDecoys)

\* Variant: an unbuffered channel, make(chan error).
ChanCapUnbuffered == 0

\* dialErrors := make(chan error, width)
ChanCap == RegWidth

\* Variant: every error tallied as Unreachable (the code check dropped).
IsUnreachableAnyError(r) == r # "ok"

\* err.(RegError) with code Unreachable
IsUnreachable(r) == r = "unreachable"

\* Variant: the loop gives up one Unreachable result early.
KeepDrainingShort(cnt) == cnt < RegWidth - 1

\* Variant: the loop keeps waiting after the W-th Unreachable result.
KeepDrainingPastWidth(cnt) == cnt <= RegWidth

\* if unreachableCount < width { continue }
KeepDraining(cnt) == cnt < RegWidth

\* if unreachableCount == width { return Unreachable }
AllUnreachable(cnt) == cnt = RegWidth

\* dialError <- r, blocking while the buffer is full.
CanPost == Len(ch) < ChanCap
Post(t, r) == /\ ch' = Append(ch, r)
              /\ posted' = [posted EXCEPT ![t] = r]

-----------------------------------------------------------------------------
Init ==
    /\ net \in [Families -> BOOLEAN]
    /\ oversize \in BOOLEAN
    /\ cache \in V6Records
    /\ mainPc = "start"
    /\ sessTransport = "Null"
    /\ sessProxy = FALSE
    /\ sessV6 = cache
    /\ probePc = "none"
    /\ probeMsg = "none"
    /\ regDecoys = << >>
    /\ phantomFam = "none"
    /\ regTransport = "none"
    /\ regProxy = FALSE
    /\ taskPc = [t \in Tasks |-> "idle"]
    /\ conn = [t \in Tasks |-> "none"]
    /\ posted = [t \in Tasks |-> "none"]
    /\ ch = << >>
    /\ unreachableCount = 0
    /\ dialResult = "none"
    /\ phantomDialed = FALSE
    /\ tagWritten = FALSE
    /\ connReturned = FALSE

-----------------------------------------------------------------------------
(* The dialling goroutine.                                                 *)

\* DialConjureAddr: makeConjureSession derives the keys (failure returns a
\* nil session, which DialConjure rejects with "No Session Provided"); the
\* session takes its V6 record from the asset cache and NullTransport.
DialConjureAddr ==
    /\ mainPc = "start"
    /\ \/ /\ mainPc' = "probe"
          /\ UNCHANGED dialResult
       \/ /\ mainPc' = "done"
          /\ dialResult' = "noSession"
    /\ UNCHANGED << net, oversize, cache, sessVars, sessV6, probeVars, regVars,
                    taskVars, ch, unreachableCount, phantomDialed, tagWritten,
                    connReturned >>

\* DialConjure on a session the caller built: any transport and proxy flag.
DialConjureSession ==
    /\ mainPc = "start"
    /\ \E tr \in Transports, px \in BOOLEAN :
          /\ sessTransport' = tr
          /\ sessProxy' = px
    /\ mainPc' = "probe"
    /\ UNCHANGED << net, oversize, cache, sessV6, probeVars, regVars, taskVars,
                    ch, unreachableCount, outVars >>

\* testV6: start the v6 dial goroutine, then sleep 500us.
TestV6Start ==
    /\ mainPc = "probe"
    /\ probePc = "none"
    /\ probePc' = "dialing"
    /\ UNCHANGED << net, oversize, cache, mainPc, sessVars, sessV6, probeMsg,
                    regVars, taskVars, ch, unreachableCount, outVars >>

\* testV6's goroutine: net.Dial to the v6 decoy; on success the connection
\* is closed and nil is sent, otherwise the error (capacity 1, never blocks).
ProbeDial ==
    /\ probePc = "dialing"
    /\ probePc' = "done"
    /\ \/ /\ net["v6"]
          /\ probeMsg' \in {"nil", "err"}
       \/ /\ ~net["v6"]
          /\ probeMsg' = "err"
    /\ UNCHANGED << net, oversize, cache, mainPc, sessVars, sessV6, regVars,
                    taskVars, ch, unreachableCount, outVars >>

\* testV6's select after the sleep, and Register's setV6Support: anything
\* already in the channel means "v6 unsupported".  setV6Support writes
\* through the *V6 the session took from Assets().GetV6Support(), which is
\* outside src/: if that is the asset record itself, the write reaches it
\* now; both outcomes are allowed.
TestV6Select ==
    /\ mainPc = "probe"
    /\ probePc # "none"
    /\ sessV6' = IF probeMsg # "none" THEN SetV6Support("v4")
                                      ELSE SetV6Support("both")
    /\ cache' \in {cache, sessV6'}
    /\ mainPc' = "register"
    /\ UNCHANGED << net, oversize, sessVars, probeVars, regVars,
                    taskVars, ch, unreachableCount, outVars >>

\* register: SelectDecoys (Mod by the pool size panics on an empty pool),
\* SelectPhantom (its error returns from register with RegDecoys already
\* set), the ConjureReg literal (transport and useProxyHeader are not
\* copied from the session), then one send goroutine per decoy.
Register ==
    /\ mainPc = "register"
    /\ LET pool == DecoyPool(sessV6.include) IN
       \/ /\ pool = {}
          /\ mainPc' = "panic"
          /\ UNCHANGED << regVars, taskPc, dialResult >>
       \/ /\ pool # {}
          /\ \E ds \in [Tasks -> pool] : regDecoys' = ds
          /\ \/ /\ \E f \in PhantomFamilies(sessV6.support) : phantomFam' = f
                /\ regTransport' = "Min"
                /\ regProxy' = FALSE
                /\ taskPc' = [t \in Tasks |-> "dial"]
                /\ mainPc' = "drain"
                /\ UNCHANGED dialResult
             \/ /\ mainPc' = "done"
                /\ dialResult' = "noPhantom"
                /\ UNCHANGED << phantomFam, regTransport, regProxy, taskPc >>
    /\ UNCHANGED << net, oversize, cache, sessVars, sessV6, probeVars, conn,
                    posted, ch, unreachableCount, phantomDialed,
                    tagWritten, connReturned >>

\* One iteration of the drain loop over dialErrors, and what follows it.
Receive ==
    /\ mainPc = "drain"
    /\ ch # << >>
    /\ LET r   == Head(ch)
           cnt == IF IsUnreachable(r) THEN unreachableCount + 1
                                      ELSE unreachableCount
           stop == ~IsUnreachable(r) \/ ~KeepDraining(cnt)
       IN /\ ch' = Tail(ch)
          /\ unreachableCount' = cnt
          /\ mainPc' = IF ~stop THEN "drain"
                       ELSE IF AllUnreachable(cnt) THEN "done" ELSE "registered"
          /\ dialResult' = IF stop /\ AllUnreachable(cnt) THEN "unreachable"
                                                         ELSE dialResult
    /\ UNCHANGED << net, oversize, cache, sessVars, sessV6, probeVars, regVars,
                    taskVars, phantomDialed, tagWritten, connReturned >>

\* DialConjure after a successful Register: Assets().SetV6Support, then the
\* randomized sleep (its duration reads reg.stats without the mutex).
Registered ==
    /\ mainPc = "registered"
    /\ cache' = sessV6
    /\ mainPc' = "connect"
    /\ UNCHANGED << net, oversize, sessVars, sessV6, probeVars, regVars,
                    taskVars, ch, unreachableCount, outVars >>

\* ConjureReg.Connect: dial phantom:443, then switch on reg.transport.  It
\* is always MinTransport, the zero value register leaves it at, so the
\* Obfs4 case of the switch is unreachable and only the tag write is
\* modelled.  On success it returns nil, nil.
Connect ==
    /\ mainPc = "connect"
    /\ mainPc' = "done"
    /\ phantomDialed' = TRUE
    /\ \/ /\ net[phantomFam]
          /\ tagWritten' = TRUE
          /\ dialResult' = "ok"
          /\ connReturned' = FALSE
       \/ /\ dialResult' = "phantomErr"
          /\ UNCHANGED << tagWritten, connReturned >>
    /\ UNCHANGED << net, oversize, cache, sessVars, sessV6, probeVars, regVars,
                    taskVars, ch, unreachableCount >>

-----------------------------------------------------------------------------
(* The registration goroutines: ConjureReg.send(decoy, dialErrors, cb).    *)

\* Variant: a dial error returns from send without reporting on dialErrors.
TaskDialSilentOnError(t) ==
    /\ taskPc[t] = "dial"
    /\ \/ /\ taskPc' = [taskPc EXCEPT ![t] = "done"]
          /\ UNCHANGED conn
       \/ /\ net[AddrFamily(regDecoys[t])]
          /\ conn' = [conn EXCEPT ![t] = "open"]
          /\ taskPc' = [taskPc EXCEPT ![t] = "tls"]
    /\ UNCHANGED << net, oversize, cache, mainPc, sessVars, sessV6, probeVars,
                    regVars, ch, posted, unreachableCount, outVars >>

\* TCP dial to the decoy, setTCPToDecoy (under reg.m), and on error report
\* Unreachable ("connect: network is unreachable") or the error itself.
TaskDial(t) ==
    /\ taskPc[t] = "dial"
    /\ LET fam == AddrFamily(regDecoys[t]) IN
       \/ /\ ~net[fam]
          /\ CanPost
          /\ Post(t, "unreachable")
          /\ taskPc' = [taskPc EXCEPT ![t] = "done"]
          /\ UNCHANGED conn
       \/ /\ net[fam]
          /\ CanPost
          /\ Post(t, "failure")
          /\ taskPc' = [taskPc EXCEPT ![t] = "done"]
          /\ UNCHANGED conn
       \/ /\ net[fam]
          /\ conn' = [conn EXCEPT ![t] = "open"]
          /\ taskPc' = [taskPc EXCEPT ![t] = "tls"]
          /\ UNCHANGED << ch, posted >>
    /\ UNCHANGED << net, oversize, cache, mainPc, sessVars, sessV6, probeVars,
                    regVars, unreachableCount, outVars >>

\* Read *reg.stats.TcpToDecoy (unlocked) for the TLS deadline, then
\* createTLSConn; on error close the TCP connection and report it.  The
\* deadline's value changes no control flow here; the racy read itself is
\* modelled in Stats.tla.
TaskTLS(t) ==
    /\ taskPc[t] = "tls"
    /\ \/ /\ CanPost
          /\ Post(t, "failure")
          /\ conn' = [conn EXCEPT ![t] = "closed"]
          /\ taskPc' = [taskPc EXCEPT ![t] = "done"]
       \/ /\ taskPc' = [taskPc EXCEPT ![t] = "request"]
          /\ UNCHANGED << ch, posted, conn >>
    /\ UNCHANGED << net, oversize, cache, mainPc, sessVars, sessV6, probeVars,
                    regVars, unreachableCount, outVars >>

\* createRequest: generateVSP and its 0xFFFF bound, AES-GCM, the keystream
\* from the TLS connection; on error report it (the connection stays open).
TaskRequest(t) ==
    /\ taskPc[t] = "request"
    /\ \/ /\ CanPost
          /\ Post(t, "failure")
          /\ taskPc' = [taskPc EXCEPT ![t] = "done"]
       \/ /\ ~oversize
          /\ taskPc' = [taskPc EXCEPT ![t] = "write"]
          /\ UNCHANGED << ch, posted >>
    /\ UNCHANGED << net, oversize, cache, mainPc, sessVars, sessV6, probeVars,
                    regVars, conn, unreachableCount, outVars >>

\* tlsConn.Write(httpRequest): on error close and report, else report nil.
TaskWrite(t) ==
    /\ taskPc[t] = "write"
    /\ CanPost
    /\ \/ /\ Post(t, "failure")
          /\ conn' = [conn EXCEPT ![t] = "closed"]
          /\ taskPc' = [taskPc EXCEPT ![t] = "done"]
       \/ /\ Post(t, "ok")
          /\ taskPc' = [taskPc EXCEPT ![t] = "drain"]
          /\ UNCHANGED conn
    /\ UNCHANGED << net, oversize, cache, mainPc, sessVars, sessV6, probeVars,
                    regVars, unreachableCount, outVars >>

\* readAndClose(dialConn, 15s), then the stats-logging callback.
TaskDrain(t) ==
    /\ taskPc[t] = "drain"
    /\ conn' = [conn EXCEPT ![t] = "closed"]
    /\ taskPc' = [taskPc EXCEPT ![t] = "done"]
    /\ UNCHANGED << net, oversize, cache, mainPc, sessVars, sessV6, probeVars,
                    regVars, posted, ch, unreachableCount,
                    outVars >>

-----------------------------------------------------------------------------
MainStep == \/ DialConjureAddr \/ DialConjureSession \/ TestV6Start
            \/ TestV6Select \/ Register \/ Receive \/ Registered \/ Connect

TaskStep(t) == TaskDial(t) \/ TaskTLS(t) \/ TaskRequest(t) \/ TaskWrite(t)
               \/ TaskDrain(t)

Next == MainStep \/ ProbeDial \/ \E t \in Tasks : TaskStep(t)

\* Goroutines are scheduled by the Go runtime and every blocking call of a
\* goroutine returns (dials fail after the OS timeout, the TLS handshake has
\* a deadline, readAndClose a 15s read deadline): each actor is weakly fair.
Fairness == /\ WF_vars(MainStep)
            /\ WF_vars(ProbeDial)
            /\ \A t \in Tasks : WF_vars(TaskStep(t))

Spec == Init /\ [][Next]_vars /\ Fairness

-----------------------------------------------------------------------------
(* Properties.                                                             *)

\* The type invariant, in named parts: the sequences (the decoys register
\* chose and the dialErrors buffer), the session and registration fields,
\* the send goroutines' state, and what DialConjure returned.
SeqTypeOK ==
    /\ regDecoys \in Seq(Decoys)
    /\ ch \in Seq(Results)

SessionTypeOK ==
    /\ net \in [Families -> BOOLEAN]
    /\ oversize \in BOOLEAN
    /\ cache \in V6Records
    /\ mainPc \in MainPcs
    /\ sessTransport \in Transports
    /\ sessProxy \in BOOLEAN
    /\ sessV6 \in V6Records
    /\ probePc \in {"none", "dialing", "done"}
    /\ probeMsg \in {"none", "nil", "err"}
    /\ phantomFam \in Families \cup {"none"}
    /\ regTransport \in Transports \cup {"none"}
    /\ regProxy \in BOOLEAN

TaskTypeOK ==
    /\ taskPc \in [Tasks -> TaskPcs]
    /\ conn \in [Tasks -> {"none", "open", "closed"}]
    /\ posted \in [Tasks -> Results \cup {"none"}]
    /\ unreachableCount \in 0 .. Width

OutcomeTypeOK ==
    /\ dialResult \in DialResults
    /\ phantomDialed \in BOOLEAN
    /\ tagWritten \in BOOLEAN
    /\ connReturned \in BOOLEAN

TypeOK == SeqTypeOK /\ SessionTypeOK /\ TaskTypeOK /\ OutcomeTypeOK

(***************************************************************************)
(* Safety of the registration fan-out and its tally.                      *)
(***************************************************************************)

\* register returns Unreachable only when every one of the W send
\* goroutines reported "connect: network is unreachable" for its decoy
\* dial: one success or one other error must never be tallied away
\* (drain loop of register, lines 274-297).
UnreachableVerdictSound ==
    dialResult = "unreachable" => \A t \in Tasks : posted[t] = "unreachable"

\* DialConjure dials the phantom only after some send goroutine reported a
\* result that shows the network reachable (nil or a non-Unreachable
\* error), whatever order the W results arrive in.
PhantomOnlyAfterReachable ==
    phantomDialed => \E t \in Tasks : posted[t] \in {"ok", "failure"}

\* No send goroutine ever blocks on dialErrors: the results buffered plus
\* the goroutines that have still to send never exceed the channel's
\* capacity, so the goroutines left running after the drain loop stops
\* early all finish (make(chan error, width) in register).
PendingSenders == {t \in Tasks : taskPc[t] # "idle" /\ posted[t] = "none"}

SendNeverBlocks == Len(ch) + Cardinality(PendingSenders) <= ChanCap

\* The drain loop of register never waits on dialErrors when nothing can
\* arrive: while it ranges over the channel (which is never closed), a
\* result is buffered or some send goroutine has still to report.  This is
\* the safety half of DialReturns.
StillToSend == {t \in Tasks : taskPc[t] \in {"dial", "tls", "request", "write"}}

DrainHasSender == mainPc = "drain" => ch # << >> \/ StillToSend # {}

(***************************************************************************)
(* Liveness, under the weak fairness of every goroutine.                  *)
(***************************************************************************)

\* DialConjure returns: the drain loop of register always gets the result
\* it waits for.
DialReturns == <>(mainPc \in {"done", "panic"})

(***************************************************************************)
(* Refinement: the dial implements the contract of ConjureDial.            *)
(***************************************************************************)

\* The phase of the contract the dialling goroutine is in: before the send
\* goroutines exist, draining dialErrors, past a successful register, or
\* returned.
DialPhase ==
    IF mainPc \in {"start", "probe", "register"} THEN "idle"
    ELSE IF mainPc = "drain" THEN "registering"
    ELSE IF mainPc \in {"registered", "connect"} THEN "registered"
    ELSE "done"

\* What the dial returned, a panic included.
DialOutcome == IF mainPc = "panic" THEN "panic" ELSE dialResult

Dial == INSTANCE ConjureDial WITH phase <- DialPhase, reports <- posted,
                                  outcome <- DialOutcome

\* Whatever order the goroutines run and report in, the dial behaves as
\* the contract says: Unreachable only when all W decoys reported it, a
\* registration only after a reachable report, the phantom only after a
\* registration, and every decision the reports allow is taken (drain loop
\* of register and DialConjure, lines 49-64 and 274-299).
DialContract == Dial!Spec

(***************************************************************************)
(* What the spec and the comments say, that the code does not do.          *)
(***************************************************************************)

\* testV6 (comment at line 134: "the only error that would return before
\* this is a network unreachable error") declares v6 unsupported only when
\* the probe dial failed.
ProbeVerdictNeedsError ==
    (probePc # "none" /\ mainPc # "probe" /\ sessV6.include = "v4")
        => probeMsg = "err"

\* Every decoy connection a send goroutine opened is closed when the
\* goroutine ends (spec 4.5 step 7, spec 5).
DecoyConnsClosed == \A t \in Tasks : taskPc[t] = "done" => conn[t] # "open"

\* A payload over 0xFFFF bytes fails the session with PayloadTooLarge
\* before any registration traffic (spec 8, scenario 4): no decoy
\* connection and no phantom dial.
OversizeStaysOffline ==
    oversize => /\ \A t \in Tasks : conn[t] = "none"
                /\ ~phantomDialed

\* SelectDecoys on an empty pool returns no decoys and the dial fails as
\* Unreachable (spec 4.2): once the session's V6 record is set and
\* register has chosen its pool, an empty pool ends the dial with the
\* Unreachable error, not a panic of big.Int.Mod (SelectDecoys, line 728).
EmptyPoolUnreachable ==
    (probePc # "none" /\ mainPc \notin {"probe", "register"}
                      /\ DecoyPool(sessV6.include) = {})
        => (mainPc = "done" /\ dialResult = "unreachable")

\* v4 fallback (spec 8, scenario 2): when v6 dials fail with network
\* unreachable and v4 dials succeed, the session completes with a v4
\* phantom; testV6's verdict and the Unreachable tally (spec 9) are to
\* keep a v6 phantom from being dialled on a host without v6 routes.
V4FallbackPhantom ==
    (~net["v6"] /\ net["v4"] /\ phantomDialed) => phantomFam = "v4"

=============================================================================
