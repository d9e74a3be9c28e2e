# Verification of the Conjure client core

TLA+ models, TLC runs and TLAPS proofs for the Conjure registration and dial
path of gotapdance (`src/tapdance/conjure.go`).

## The system

`conjure.go` is the client side of Conjure. The client registers with a
station through decoy TLS connections, then connects to a "phantom" address.
Its parts and how they interact:

| Part | Code | State it owns |
|---|---|---|
| Session API | `DialConjureAddr`, `DialConjure`, `makeConjureSession` (38-64, 179-206) | the `ConjureSession` fields (keys, width, transport, proxy flag, V6 record) |
| Registration orchestrator | `Register`, `testV6`, `register`, `setV6Support` (71-141, 228-299, 625-642) | the probe goroutine and its one-slot channel, `RegDecoys`, `Phantom`, the `ConjureReg` literal, the buffered `dialErrors` channel, `unreachableCount` |
| Registration sender | `ConjureReg.send`, `createTLSConn`, `createRequest`, `setTCPToDecoy`, `setTLSToDecoy` (403-549) | one goroutine per decoy with its TCP/TLS connection, the shared `stats` record |
| Payload builder | `generateVSP`, `generateFSP` (551-597) | none (pure) |
| Decoy and phantom selection | `SelectDecoys`, `SelectPhantom` (701-749) | none (pure, reads the asset store) |
| Phantom dialer | `ConjureReg.Connect` (347-385) | the phantom connection |
| V6 support cache | `Assets().GetV6Support` / `SetV6Support` (59, 189) | the asset-wide V6 record |
| Keys | `generateSharedKeys`, `conjureHMAC` (755-804) | none (crypto) |
| CLI | `main`, `connectDirect`, `manageConn` (886-1100) | sockets of the local proxy |

One dial works as follows:
1. The caller builds a session from the asset cache (`makeConjureSession`),
   or passes its own session.
2. `Register` probes IPv6. A goroutine dials a v6 decoy while the caller
   sleeps 500us, then a `select` reads the channel. Anything in the channel
   means "v4 only".
3. The probe's verdict is written into the session's V6 record with
   `setV6Support`.
4. `register` picks W decoys from the pool for that verdict and a phantom of
   an allowed family. It starts one `send` goroutine per decoy, all posting
   into `dialErrors`, a channel of capacity W.
5. `register` drains the channel. It counts Unreachable results and stops at
   the first other result, or when all W results were Unreachable.
6. On success, `DialConjure` stores the V6 record in the asset cache and
   sleeps for a random time. Then `Connect` dials the phantom and writes the
   transport tag.

## Hazards

The code is exposed to these hazards. PROJECT.json "hazards" lists each one
at its line.

- **Interleaving of the W results.** The results arrive in any order, and
  the drain loop breaks early.
- **Channel capacity.** Goroutines left running after the early break must
  not block on a full channel. This is the `resource_bound` hazard.
- **Liveness of the drain loop.** The loop ranges over a channel that is
  never closed.
- **The 500us probe race.** A fast success counts as failure. A slow failure
  counts as success.
- **The unlocked RTT read.** The shared stats record is read without the
  mutex at 463 and at 612.
- **Connection leaks.** The createRequest error path leaks the decoy
  connection. Connect returns `nil, nil`.
- **Late payload size check.** The 0xFFFF check comes after the network I/O,
  and its error does not stop the dial.
- **Numeric edges.** The Mod at 728 panics on an empty pool. The uint16 at
  418 wraps. A width of 0 leaves the drain loop waiting forever.
- **Lost session fields.** The session's Transport and UseProxyHeader never
  reach the registration.
- **The asset V6 record.** The session holds the `*V6` that
  `Assets().GetV6Support()` returns. That code is outside src/, so
  `setV6Support` may write through to the asset record. The pointer may
  also be shared between concurrent dials.

## Modules

- **`Conjure.tla`** models one Conjure dial. Each goroutine is an actor:
  - `mainPc` is the dialling goroutine.
  - `probePc` is testV6's dial goroutine.
  - `taskPc[t]` is the t-th send goroutine, t in `1..Width`.

  Every blocking call of the code is an action boundary: dial, handshake,
  write, sleep, channel operation. So every order the Go scheduler and the
  network can produce is a behaviour. Data is abstracted:
  - A decoy is a model value with an address family.
  - A result is `"ok"`, `"unreachable"` or `"failure"`.
  - Timing values are left out. The TLS deadline's RTT changes no control
    flow of `send`, and the racy read behind it is modelled in `Stats.tla`.
  - `net` and `oversize` are the environment: the routability of v4 and v6,
    and whether the covert address makes the VSP too large. Both are fixed
    for the duration of one dial.

  Actions and the code they model (PROJECT.json "map" has the lines):

  | Action | Code |
  |---|---|
  | `DialConjureAddr` | `makeConjureSession`, with its key failure, then `DialConjure`'s nil check |
  | `DialConjureSession` | `DialConjure` on a caller's session (any transport, any proxy flag) |
  | `TestV6Start`, `ProbeDial`, `TestV6Select` | `testV6`: the probe goroutine, the sleep and the `select`; `Register` calls `setV6Support`, which also writes `cache` when the session's `*V6` is the asset record (both outcomes are allowed) |
  | `Register` | `register`: SelectDecoys (panic on an empty pool), SelectPhantom (error or family), the ConjureReg literal, spawning the goroutines |
  | `Receive` | one iteration of the drain loop, and the final tally check |
  | `Registered` | `Assets().SetV6Support` and the random sleep in `DialConjure` |
  | `Connect` | `ConjureReg.Connect` |
  | `TaskDial`, `TaskTLS`, `TaskRequest`, `TaskWrite`, `TaskDrain` | the steps of `ConjureReg.send`, each with its error path and its send on `dialErrors` |

  The channel `dialErrors` is the sequence `ch`. A send is enabled only while
  `Len(ch) < ChanCap`, which is Go's blocking send.
- **`Payload.tla`** models the payload one send goroutine builds
  (`generateVSP`, `createRequest`, `generateFSP`). Message contents are
  abstracted to their sizes. `proto.Size` is modelled by the protobuf cost
  of the padding field: its key, a varint length and the bytes.
  - `PadStep` and `PadDone` are the padding loop.
  - `SizeCheck` is the 0xFFFF bound.
  - `Seal` is the two encryptions, the uint16 length and the tag layout.
  - `Request` is the keystream request.
  `MCPayload.tla` picks base sizes near 0 and near 0xFFFF, where the wrap
  happens.
- **`CreateRequest.tla`** is the abstract contract of createRequest: it
  returns, either with a tag whose length is a multiple of 3 (`Build`) or
  with an error (`Fail`). `Payload.tla` instantiates it as `Req` with the
  mapping `phase <- RequestPhase` (building until `pc` is `done` or `err`)
  and `tag <- RequestTag` (`tagLen` once done, 0 before). The contract's
  liveness is the eventuality `Returns` rather than a fairness condition,
  because `Build` chooses the tag from all of `Nat`.
- **`ConjureDial.tla`** is the abstract contract of one dial, without
  goroutines or channels. Each decoy reports once. The dial gives up as
  Unreachable only when every report is Unreachable. It is registered only
  once some report shows the network reachable, and only a registered dial
  reaches the phantom. `Conjure.tla` instantiates it as `Dial` with this
  refinement mapping:

  | ConjureDial | Conjure |
  |---|---|
  | `phase` | `DialPhase`: idle before register, registering while `mainPc = "drain"`, registered in `registered`/`connect`, done afterwards |
  | `reports` | `posted`, what each send goroutine put into the channel |
  | `outcome` | `DialOutcome`: `dialResult`, or `"panic"` |

  `DialContract == Dial!Spec` is checked as a property, fairness included.
- **`Stats.tla`** models the shared stats record of one registration and
  its two unlocked reads. The W send goroutines store their TCP RTTs under
  `reg.m` (`setTCPToDecoy`). The model keeps those stores in mutex order
  in `log`. Two reads are done without the lock:
  - each goroutine reads `*reg.stats.TcpToDecoy` for its TLS deadline;
  - `getTcpToDecoy` feeds the sleep in `DialConjure`.

  A racy read is a nondeterministic choice, `Visible(hb)`, among the
  stores the Go memory model lets it observe. It may return any store no
  earlier than those that happen before the read. A goroutine's own store
  precedes its read. Each report the main goroutine received precedes
  its read. The nil field is visible only when no store happens before the
  read. `rttInt` and `getRandomDuration(3000, 212, 3449)` are modelled by
  their arithmetic. Which report stops the drain loop is left to
  `Conjure.tla`: here the main goroutine may sleep after any number of
  reports. `MCStats.tla` uses three goroutines and RTTs of 0, 40 and
  2000 ms.
- **`MCConjure.tla`** instantiates the model for TLC. It has three decoy
  model values and decoy-family maps.
- **`ConjureProofs.tla`**, **`ContractProofs.tla`**, **`DrainProofs.tla`**, **`PayloadProofs.tla`** and **`StatsProofs.tla`** hold the TLAPS proofs.

## Runs

| Run | cfg | Checks | Result |
|---|---|---|---|
| conjure_core | MCConjure.cfg | UnreachableVerdictSound, PhantomOnlyAfterReachable, SendNeverBlocks, DrainHasSender, DialReturns | pass, about 624k distinct states, 30 s |
| conjure_v6_only_contract | MCConjure_V6OnlyContract.cfg | DialContract, with only v6 decoys (the empty-pool panic path) | pass, about 664k distinct states |
| probe_verdict | MCConjure_ProbeVerdictNeedsError.cfg | ProbeVerdictNeedsError | violation |
| decoy_conns_closed | MCConjure_DecoyConnsClosed.cfg | DecoyConnsClosed | violation |
| oversize_stays_offline | MCConjure_OversizeStaysOffline.cfg | OversizeStaysOffline | violation |
| empty_pool_unreachable | MCConjure_EmptyPoolUnreachable.cfg | EmptyPoolUnreachable | violation |
| conjure_contract | MCConjure_Contract.cfg | DialContract | pass, about 624k distinct states, 35 s |
| v4_fallback_phantom | MCConjure_V4FallbackPhantom.cfg | V4FallbackPhantom | violation |
| payload | MCPayload.cfg | TagAligned, PadBounded, RequestContract | pass, 287 distinct states |
| payload_fsp_length | MCPayload_FspLengthExact.cfg | FspLengthExact | violation |
| stats_reads | MCStats.cfg | NoNilRttDeref, SleepRttMeasured | pass, about 824k distinct states |
| sleep_bounds | MCStats_SleepWithinSpecBounds.cfg | SleepWithinSpecBounds | violation |

What the passing runs show:
- **UnreachableVerdictSound.** The tally never returns Unreachable unless
  all W goroutines reported Unreachable.
- **PhantomOnlyAfterReachable.** The phantom is dialled only after some
  goroutine reported a result that shows the network reachable.
- **SendNeverBlocks.** The buffered results plus the goroutines yet to send
  never exceed the capacity, so no goroutine is stranded after the early
  break.
- **DrainHasSender.** While the drain loop ranges over `dialErrors`, a
  result is buffered or some goroutine is still at a step before its send.
  The loop never waits on a channel nothing can arrive on. This is the
  safety half of DialReturns.
- **DialReturns.** Every dial ends, either returning or panicking.
- **DialContract.** Every step of the dial is a step of ConjureDial or
  leaves the mapped state unchanged, and the dial's fairness implies the
  contract's: a dial that can decide does, and a registered dial reaches
  the phantom. On the v6-only asset list the contract also covers the
  empty-pool panic: it happens before any send goroutine starts.
- **TagAligned.** The tag handed to the keystream masking has a length
  divisible by 3. The padding loop accounts for the GCM tag and for the
  cost of the padding field itself.
- **PadBounded.** The padding loop, which has no bound in the code,
  appends at most 3 bytes. The bound `MaxPad = 9` of the model never
  stops it.
- **RequestContract.** createRequest implements `CreateRequest`. Every step
  is a contract step or a stutter, and createRequest returns.
- **NoNilRttDeref.** The unlocked read in `send` never dereferences a nil
  `TcpToDecoy`.
- **SleepRttMeasured.** The sleep before Connect is scaled by an RTT some
  goroutine measured. It holds because `setTCPToDecoy` runs before the
  dial's error check, so every report is preceded by its sender's store.

Each violation run records a finding (PROJECT.json "findings"):
- testV6 treats a fast v6 success as "unsupported".
- createRequest's error path leaks the decoy connection.
- The size check comes after the dials and does not stop the phantom dial.
- SelectDecoys reduces modulo the pool size with `big.Int.Mod`, which
  panics on an empty pool. A session whose IPv6 probe failed, on an asset
  list without v4 decoys, crashes the process. The spec (4.2) wants an
  empty selection that fails the dial as Unreachable
  (`empty_pool_unreachable`).
- testV6 reports v6 support when the probe's dial fails after the 500us
  window. With v6 unroutable, decoys with both families are still reached
  over v4, registration succeeds, and a v6 phantom may be dialled. The
  spec's v4-fallback scenario requires a v4 phantom (`v4_fallback_phantom`).
- `getRandomDuration` computes `getRandInt(212, 3449) / 1000`, an integer
  from 0 to 3. The sleep is therefore exactly 3000 ms for draws below
  1000, and otherwise `3000 + k * rtt`. The spec bounds the addon to
  [212, 3449] ms (`sleep_bounds`).
- `uint16(len(encryptedVsp))` wraps. A VSP of 65520..65535 bytes passes
  the 0xFFFF check, but its ciphertext is 16 bytes longer. The FSP then
  carries the length modulo 65536 (`payload_fsp_length`, base 65522).

Two more divergences are visible in single lines of the code and are
modelled, but have no run of their own:
- Connect returns `nil, nil` on success (`connReturned` stays FALSE).
- The ConjureReg literal copies neither the session's transport nor its
  PROXY-header flag, so `regTransport` is always Min.

**Bounds.** The runs use W = 2 with three decoys, one per family (v4, v6,
both). This covers:
- both orders of two results;
- a mix of Unreachable and other results;
- a goroutine still running after the early break;
- a decoy with both families, which is dialled over v4;
- every pool.

A larger W adds permutations of the same cases. The proofs cover every W.
The v6-only asset list is the one that empties the v4 pool.

Every property of a passing run has a mutant that TLC finds violated:
- the channel made unbuffered;
- every error counted as Unreachable (it also breaks the contract on the
  v6-only list);
- a loop that stops one result early;
- a loop that waits past W;
- a dial error that is never reported (it also starves the drain loop);
- the padding condition without the GCM tag (it breaks TagAligned and the
  contract);
- a padding loop that appends 3 bytes at a time (it breaks PadBounded and
  the contract's `Returns`);
- the RTT read before the goroutine's own store;
- `setTCPToDecoy` moved below the dial's error check.

**Payload bounds.** The base sizes are 0..8 and 65510..65540. The first
range covers every residue mod 3, with and without padding. The second
range straddles the 0xFFFF check and the uint16 wrap. `MaxPad = 9` bounds
the padding in the guard of `PadStep`, not by a constraint, so the
liveness check sees every state.

**Fairness.** Each goroutine is weakly fair: `MainStep`, `ProbeDial` and
each `TaskStep(t)`. The Go runtime schedules every runnable goroutine, and
every blocking call the code makes returns:
- OS timeouts end the dials.
- `createTLSConn` has a deadline.
- `readAndClose` has a 15 s read deadline.

The models of one dial stop by design, so the runs set
`CHECK_DEADLOCK FALSE`. Payload has `WF_vars(Next)`: createRequest runs
on one goroutine to its end, and that fairness is what RequestContract's
`Returns` rests on. ConjureDial assumes weak fairness of its
decisions only. The decoys' reports belong to the environment.

## Proofs (ConjureProofs.tla, TLAPS)

- **`TypeCorrect == Spec => []TypeOK`.** TypeOK alone is not inductive: the
  tally `unreachableCount` stays within `0..W` only because the loop stops
  at W. The proof strengthens it with `DrainBound`:
  - the count is 0 before register;
  - while draining, `Len(regDecoys) = W` and the count is below W.

  It uses one step lemma per part of TypeOK, each with one case per action.
  The lemma `RegisterCases` splits register into its three outcomes.
- **`NeverBlocks == Spec => []SendNeverBlocks`.** This holds for every
  width and decoy list. The inductive invariant is `TypeInv /\ ChannelInv`:
  - before register no goroutine exists;
  - when no goroutine exists the buffer is empty;
  - once any goroutine exists, all W do and `Len(regDecoys) = W`;
  - a goroutine has not sent exactly while it is at a step before its send.

  The counting argument has three steps:
  - **`PostStep`.** A send moves one goroutine out of the pending set and
    one result into the buffer. It uses `FS_RemoveElement`.
  - **`MoveStep`.** A move leaves both the pending set and the buffer as
    they were.
  - **`RegisterChannel`.** register creates W pending goroutines on an empty
    buffer of capacity W. It uses `FS_Interval`.

  TLC checked `ChannelInv` as an invariant of the conjure_core instance
  before it was proved.

## Proofs (ContractProofs.tla, TLAPS)

- **`VerdictSound == Spec => []UnreachableVerdictSound`** and
  **`PhantomAfterReachable == Spec => []PhantomOnlyAfterReachable`** hold
  for every width and decoy list. The inductive invariant is
  `ContractInv == BlockInv /\ TallyInv`, where `BlockInv` is the channel
  invariant above. `TallyInv` relates the tally to the results:
  - every buffered result is some goroutine's posted result;
  - while draining, `unreachableCount + Len(ch) + |pending senders| = W`;
  - while draining, every reachable posted result is still in the buffer;
  - once registered, or once the phantom is dialled, some posted result
    is reachable;
  - an Unreachable verdict means every posted result is Unreachable.

  The second and third conjuncts are what makes the tally sound. When the
  loop stops at W Unreachable results, the equation leaves no goroutine
  pending and no result buffered. No reachable result can then be posted.
  `LastOfTally` isolates the arithmetic of the last receive.
  TLC checked `ContractInv` on the conjure_core instance before it was
  proved.
- **`DialRefinement == Spec => DialSafety`** proves the safety half of
  `DialContract` for every width: `Init` maps to `Dial!Init`, and every
  step maps to a `Dial!Next` step or a stutter. It has one case per
  action. `ProbeDial` is a separate case because it leaves `mainPc` as it
  is. A receive that decides draws on the primed `TallyInv`, through the
  lemma `TallyDecisions`.

## Proofs (DrainProofs.tla, TLAPS)

The theorem follows from `ContractInv`, with no further strengthening.
- **`DrainNeverStarves == Spec => []DrainHasSender`** holds for every width
  and decoy list. While draining, `unreachableCount + Len(ch) +
  |pending senders| = W`, and `DrainBound` keeps the count below W.
  With an empty buffer a pending sender must therefore exist (`DrainSupply`).
  By `ChannelInv`, a pending sender is at a step before its send
  (`PendingStillToSend`).

## Proofs (StatsProofs.tla, TLAPS)

- **`NilDerefFree == Spec => []NoNilRttDeref`** and
  **`SleepMeasured == Spec => []SleepRttMeasured`** hold for every width
  and every set of RTTs. The inductive invariant `StatsInv` has three
  parts:
  - every entry of `log` is its goroutine's measurement;
  - a goroutine past its dial has a store in `log`, and one still dialling
    has neither a measurement nor a report;
  - every report received comes from a goroutine past its dial.

  So each read has a store that happens before it, and `Visible` then
  offers only stored, non-nil values. Each step has a lemma.
  `SleepFrame` keeps the frame reasoning of the sleep step out of that
  step's context.
- **`StatsTypeCorrect == Spec => []TypeOK`.** TypeOK bounds each store
  index by W. That holds only because the log has one store per goroutine
  past its dial. `StoreInv` adds `Len(log) = Cardinality(Stored)`, where
  `Stored` is the set of goroutines past their dial. A dial adds one store
  and one member (`FS_AddElement`), and `TaskSubset` bounds the set by W.
  `VisibleValues` shows that a racy read returns a stored RTT or nil.

## Proofs (PayloadProofs.tla, TLAPS)

- **`TagAlignedHolds == Spec => []TagAligned`** holds for every set of base
  sizes, a 1- or 2-byte padding key and any `MaxPad`. The invariant
  `AlignInv` strengthens TagAligned in two ways. Past the loop the message
  satisfies the loop's exit condition. After `Seal`, `tagLen` is
  `VspLen + 16 + 32 + 6 + 16`. Those two facts give `tagLen % 3 = 0`.
- **`PadLoopBounded == Spec => []PadBounded`** holds for every base size,
  key length and `MaxPad`. `pad <= 3` is not inductive by itself: a step
  from 3 to 4 is excluded only because the loop stepped over 1 and 2
  unaligned. `PadInv` records that, and `ThirdPadAligned` is the
  arithmetic. With one to three bytes the field costs its key, one length
  byte and the bytes, so the three sizes are consecutive and one of them
  is aligned.
- **`RequestRefinement == Spec => RequestSafety`** proves the safety half of
  `RequestContract`. `Init` maps to `Req!Init`. The padding, the size
  check and a successful seal stutter (`RequestStutter`). Every error is
  `Fail` (`RequestFails`). The request step that returns is `Build`, and
  `AlignInv` makes its tag aligned.
- The proofs keep `MaxUint16` unexpanded: the SMT backend does not finish
  on the literal interval `0..65535`.

Only model-checked:
- the liveness property `DialReturns`, the fairness half of
  `DialContract` and the `Returns` half of `RequestContract`, since TLAPS
  does not handle fairness or ENABLED. Their safety cores are proved:
  `DrainNeverStarves` shows the drain loop always has something to wait
  for, and `PadLoopBounded` shows the padding loop stops within 3 bytes.

## Not modelled

- **Cryptography.** Key derivation, HMAC and AES-GCM are modelled only
  through their failure.
- **Wire formats.** HTTP request framing and the keystream encoding are not
  modelled.
- **Durations.** The TLS deadline's `getRandomDuration(min, max)` is not in
  this repository. The session's `getRandomDuration` and `randomSleep` are
  never called. Connect's phantom-dial deadline (line 352) makes a third
  unlocked read of the same kind as the sleep's, and is not modelled
  separately. `setTLSToDecoy`'s field is read only by the `digestStats`
  log text. The logging is left out.
- **Dead code.** `ConjureSession.connect`, `useV4`/`useV6` and the free
  `Connect` are never called.
- **The CLI main package.** It is user-facing I/O.
- **Code outside this repository.** The asset store and `newDDIpSelector`
  are not in this repository.

## Plan

1. **Several concurrent dials.** This model covers `manageConn` running
   dials concurrently, sharing the asset V6 record. It needs the asset store
   semantics, which are not in this repository.
