# Fragmentation Governor: a TLA+ model

This directory models Fragmentation Governor, the C++ runtime in `src/`: the
block layout of a resource, fit analysis, planning, verification and metrics, the
coordinator that binds them into a plan lifecycle with workers that die and a
process that crashes and restarts, and the protocol and TCP server it speaks through.
TLC checks the models on small instances; TLAPS proves every safety property that the
passing runs check, for every value of the constants.
Paths below are relative to the repository (`include/` stands for
`include/fragmentation_governor/`).

## The system

| Part | State | Operations | What makes it correct |
|---|---|---|---|
| Resource layout, `include/resource/layout.hpp` | interval map, multiset of free lengths, id-to-offset index, registry, two counters | insert, update, remove, queries | the copies agree; the map tiles the resource; free regions are maximal; wrapped sums are refused; checked arithmetic never throws half-way |
| Fit, `src/fit/fit.cpp` | none | `analyze_fit`, `temporal_continuous_fit` | the outcome follows from shape, topology, protection and reservations; UNKNOWN evidence is never usable |
| Planner, `src/planner/planner.cpp` | none | `plan_remediation` | a plan makes the demand fit, displaces only reclaimable allocations, cheapest first |
| Verification, `src/verification/verification.cpp` | none | `verify_remediation` | success means a real improvement under unchanged authority |
| Coordinator, `src/coordinator/coordinator.cpp` | workers and boots, resource records, plans, before-snapshots, generations, policy generation, epoch, last demand | 14 messages that change state, worker death, recovery | dead incarnations give no evidence; plans move only with authority; completion needs verification |
| Persistence, `src/persistence/codec.cpp` | the state file | encode, decode, save, load | what depends on live evidence does not come back as live |
| Process, `tools/fg_coordinator.cpp` | epoch, state file path | start, recover | |
| Transport, `src/coordinator/tcp_transport.cpp` | connections, threads, one mutex | accept, receive, close, stop | one message at a time; a closed connection is a dead worker; no client waits for ever; stop() returns with nothing left running |
| Protocol, `src/protocol/protocol.cpp` | the decoder's buffer | encode, decode, feed | every frame sent is delivered once, however the stream is cut |
| Metrics, `src/metrics/metrics.cpp` | none | `compute_metrics` | a report that agrees with fit and verification |
| Worker, `tools/fg_worker.cpp` | its connection | register, publish resource, publish layout, be killed, start again | once it has published and stays connected it is evidence |

Workers register over TCP and publish resources, layouts and allocations;
controllers ask for plans, approve them, report completed actions and ask for
verification. Every connection has a thread; `handle()` runs under one mutex, so
a message is an atomic step and the interleaving is that of messages, connection
closes and crashes. All clients share the coordinator's state, `last_demand_`
included. Nothing is persisted except by a SAVE message; a restart is given its
epoch on the command line.

What is hard here: messages of several clients in orders nobody tested (a death
or a second publication between plan and execution, a policy advance between
execution and verification, an approval that arrives last); a crash at any
point, with before-snapshots and demands lost; redundant incremental indexes
under long histories; sums of 64-bit values from outside; connections that end late,
streams cut anywhere, stop() against accept and the threads. There are no timeouts or
retries in the code: whoever waits, waits until a reply or the end of the connection. `PROJECT.json` lists the hazards at their lines.

## Modules

| Module | Models |
|---|---|
| `StdMap` | the `std::map` operations the code uses (emplace keeps an existing key) |
| `LayoutOps` | what a layout means, from its allocations alone: free bytes, free blocks, whether an insert is accepted |
| `ResourceLayout` | class `ResourceLayout`, all seven fields, one action per call |
| `CellMap` | the promise of a layout: each byte has one owner or none |
| `Fit`, `Planner`, `Verification` | the pure functions, as operators over snapshots |
| `Coordinator` | `Coordinator::handle`, `mark_worker_dead`, SAVE, crash, restart; composes the five modules above |
| `Metrics` | `compute_metrics`, as operators |
| `Analysis` | one request through fit, the planner's loop, execution and verification; composes `Planner`, `Verification`, `Metrics` |
| `Protocol` | what is written and read for each message type, frames, `FrameDecoder` |
| `Stream` | one connection: `send_frame`, `recv_frame` and a server thread over two streams; extends `Protocol` |
| `Transport` | `TcpServer` and worker processes; extends `Coordinator`, whose actions are what `handle()` does |
| `MCResourceLayout`, `MCCoordinator`, `MCAnalysis`, `MCStream`, `MCTransport` | instances for TLC |
| `ResourceLayoutProofs`, `FreeIndexProofs` | proofs about the layout: its invariants, its refinement of `CellMap`, its indexes |
| `CoordinatorProofs` | proofs about the coordinator: its invariants, and that completion is an improvement |
| `TransportProofs` | the invariants of the server: which thread watches which worker, what stop() leaves |
| `FitProofs`, `AnalysisProofs` | lemmas about free runs, sums, sorting and the window search; the theorems about fit, planner, verification and metrics |
| `CodecProofs`, `StreamProofs` | that every message survives its frame; that the framing delivers, once and in order, for every cut of the stream |

**ResourceLayout.** One variable per field; `Region::offset` is the key of the
map. `InsertAccepted` is the chain of early returns, `SplitRegions` and
`SplitFreeLengths` the statements after it; `FreeLeft`/`FreeRight`, `Merge...`
the merge of `remove_allocation`. `ValidateGeometry` keeps the raw sum modulo
2^w. A call that returns false is a stuttering step. The parts of an allocation
these calls do not read are one value (`Metas`), except for its generation: the comment
of `insert_allocation` says that a stale one is rejected, no statement reads it, and the
run `stale_insert` shows the difference.

**Coordinator.** One variable per field; a message is an action with the code's
tests as guards, a refused message a stuttering step. Since `ResourceLayout` shows
that a layout's indexes are functions of its allocations, a record keeps the
allocations only and uses `LayoutOps`. `topology_generation` and the generations
that nothing changes are constant and left out of `gens`. A plan's actions are a
set, because an index only selects one; `gens` of a plan stands for the generations
captured in its actions. The action of ACTION_COMPLETE need not be the one of
BEGIN_ACTION, as in the code. `WorkerDied` is the end of a connection thread and
may happen at any time. A crash is part of `RestartEmpty` or `Recover`: all memory
is lost and a new process starts, without a usable state file or from it. PlanStates has
the nine states that some assignment of the code reaches. A reservation never
enters a snapshot of the coordinator; this is why VERIFY cannot throw, although
`verify_remediation` passes on what `analyze_fit` throws (`VerifyRemediation`). Of the
provenance of a record `Snapshot` looks for SYNTHETIC only, as the code does.

**Analysis.** The variables are the snapshot, the demand, the planner's copy of the
devices (`devs`), the candidates it has not looked at, the actions chosen and the
devices themselves (`live`). `Plan` is `plan_remediation` up to the loop, `Take` a
round of it, `Finish` the test behind it; `Execute` carries out any pending action as
ACTION_COMPLETE does, `VerifyNow` verifies at any point, so that partly executed plans
are judged too. `Coordinator` uses the closed forms `HasPlan` and `PlannedActions` for
the loop; the run `analysis` shows that they are the loop.

**Protocol.** A message is a function from field names to values. For each structure
there is the list of fields the `put_` function writes and, separately, the list the
`get_` function reads with its bounds; a round trip is therefore a result and not an
assumption. The unit of the stream is a word (a `u8`, `u32`, `u64` or character): `feed`
looks at the length once 16 bytes are there and then waits for the whole frame, so a cut
inside a word acts like one before it. Limits (16 MiB, 100000 records, 1000 strings) are
constants. `Crc` is a weighted sum of the words in place of the polynomial.
`IsMessage` says what a `struct Message` can hold: words, enumerators, optionals, and
lists of any length, since nothing checks a limit before it sends. A parse state of the
reader is `[ok, rest, rec]`; the loops over fields and records are recursive functions.

**Stream.** `up` and `down` are the words in flight; `ServerRecv(n)` and `ClientRecv(n)`
are one turn of the loops around `recv`, for every length n that recv may return. The
thread keeps its decoder, `recv_frame` starts with an empty one. The coordinator is
replaced by any reply of the right type; HELLO, SHUTDOWN and ERROR get none. A
client leaves up to `window` requests unanswered. `MessageAssumption` asks of the
scripts and replies only that they consist of messages. `WithinLimits` collects what the
decoder refuses: more than 100000 allocations, actions or affected allocations, more
than 1000 strings in any list, an elastic minimum above its maximum, a payload that is
too long; `Survives(m)` says that the frame of `m` decodes to `m`, or to nothing if a
limit is broken.

**Transport.** An incarnation <<worker, boot>> opens one connection and names it.
`client` is the worker's place in its script, `thread` the server's side of the
connection (in the backlog, held by `serve()` between accept and `push_back`, pushed,
in `recv`, in `handle`, closing, done), `msg` what its thread has taken from `feed`,
`sock` whether the server's socket is open, `connWorker` the local variable of the
thread. `handle()` under `mu` is one step, built from the actions `Register`,
`PublishResource` and `PublishLayout` of `Coordinator`; `EndThread` is `WorkerDied`. The four steps of `stop()`
are separate, as `serve()` and the threads run meanwhile. `missed` records the
connection that `serve()` held when stop() closed the others. A killed worker may lose
what the server has not read. Appending to `threads` while stop() walks through it is
undefined in C++; here the join sees the threads started so far.

## Runs

| Run | Instance | Shows |
|---|---|---|
| `layout` | 3-bit word, capacities 0, 1, 5 and 7, three ids, two generations, every offset and length of the word; 15,556 states | the invariants of `ResourceLayout`; exact acceptance; refinement of `CellMap` |
| `lifecycle` | two workers with two boots, one 4-byte resource published up to twice, three allocations two of which overlap, one demand; saves, crashes and one restart with a greater epoch around a simpler state (`SimpleAroundFile`), a second plan after it; 335,330 states | live evidence, valid layouts, verified and authorised completion, real improvement, fresh plan ids, decidable executions |
| `stale_insert` | the instance of `layout` | violation: see findings |
| `reused_epoch` | one epoch, restarts may reuse it | violation: see findings |
| `reapproved`, `stale_action`, `foreign_demand` | one worker, one plan, one process | violations: see findings |
| `analysis` | every layout of a 4-byte device with up to two allocations of five classes (UNKNOWN movability among them) beside a 2-byte device, 16 demands; snapshots without evidence or devices; plans beside a reservation; every sequence of up to two reservations across horizon 5 and three within it; 302,858 states | the greedy loop is its closed form; fit, planner, verification, metrics agree; the window found is the earliest |
| `horizon` | the same instance | violation: see findings |
| `stream` | every message type with empty and with full lists, messages beyond each limit, scripts of up to three messages, 1 or 2 unanswered requests, every cut; 19,428 states | every field survives (`RoundTrip`); delivery once, in order, complete; the right answers; nobody left waiting |
| `transport` | one worker started twice with either tool's generations, killed at any moment, stop() at any moment; 66,461 states | watched evidence, noticed deaths, no stuck worker, a stop() that returns and leaves nothing |
| `late_close` | the same with the CUDA worker's generations | violation: see findings |

Bounds. Three allocations are enough for both neighbours of a removed one to be
allocated, free or missing; with a 7-byte word every sum of two values that can
wrap does, and capacity 7 is the largest the word can express. In `lifecycle`,
two boots of each of two workers give every kind of takeover (new boot of the
same worker, greater generation of another); `GenMax` 2 lets the generations saturate, `MaxPolicyGen` 2 allows one policy advance at any moment, the second
device generation one takeover. A plan id is never reused within a process, so
one plan suffices for properties of a plan, and the second process may create a second
for those about ids. `Epochs` bounds the restarts to one. `SimpleAroundFile` (a state
constraint) keeps the instance small once there is a state file or a second process: one
incarnation, one allocation, the first policy generation; takeovers and restarts are not
combined, as a restart forgets workers, resources and before-snapshots altogether. A save that no restart can read is left out
(`RestartFollows`). These bounds are why the same properties are also proved.

In `analysis` two allocations beside a protected or reserved one give every order of
the candidates and plans of up to three actions over two devices; all outcomes of
`AnalyzeFit` occur, the throw included, and partial and regressed
verifications. In `stream` the limits are scaled to 90 words, 2 records, 2 strings and
each is met and passed by one. In `transport` connections of different workers share
only the mutex, the accept loop and stop(); two incarnations of one worker are what can
interfere. A second pair of connections was left out for the size of the state graph.

Deadlock is not checked for `layout` (a resource of capacity 0 accepts no call) nor for
`analysis`, `stream` and `transport` (a request, a script and a server come to an end);
that nobody waits for ever is a liveness property of the last two.

Fairness. In `Stream`, weak fairness of the two readers: `recv` returns when there is
something to read, the thread loops for ever and a client calls `recv_frame` after its
requests. In `Transport`, weak fairness of each connection thread and of `serve()`
(the system schedules threads; the mutex is held for one call that always ends, and the
threads wait for nothing else), of the rest of `stop()` once it was called, and of a
living worker's script. Nothing obliges a worker to start or to die, a client to send
or anyone to call stop(). The other specifications have no fairness and only safety
properties.

What the liveness properties say and do not say. `Answered` holds for a client that
waits for each answer, keeps the limits and sends messages that are answered: a layout
beyond the record limit, a HELLO, or two frames sent at once can leave a client waiting
for ever, which is why the conditions are part of it. `StopReturns` and `StoppedQuiet`
except the connection that `serve()` held between accept and `push_back`: its socket is
in no list, so `join()` waits for that worker, or its thread outlives `stop()`.

## Findings

* `stale_insert`: the comment of `insert_allocation` (layout.hpp:69-71) says that it
  rejects a "stale generation relative to the layout's known maximum", and the class
  comment (31-32) that every allocated region has a current generation. No statement reads
  `Allocation::generation`: an allocation older than one already registered is accepted.
  `InsertExact` therefore claims acceptance only of allocations that are not stale.
* `horizon`: fit.hpp:30-32 has `temporal_continuous_fit` answer whether a window exists
  in `[horizon_start, horizon_end)` and says "Returns false if no continuous fit
  exists". When the last reservation swept ends past the horizon, the cursor is beyond it
  and the checked difference of fit.cpp:224 throws instead. And the gap before a
  reservation that starts past the horizon is measured up to that start (216-218), so a
  window that does not fit into the horizon is reported as found. `WindowExact` shows
  that every other answer is right. `analyze_fit` passes a horizon of 2^63 - 1 ns, so it
  takes a reservation to that time to see either; the function itself is public and takes
  any horizon.
* `reused_epoch`: `recover()` leaves PLAN_READY plans as they were, and the epoch
  defaults to 1. Restarted with the same epoch, a recovered plan is approved and
  executed with no before-snapshot, so VERIFY can never decide it. With a greater epoch at each restart the run `lifecycle` and a theorem exclude this.
* `reapproved`: APPROVE_PLAN accepts every state, so a plan that a death moved to
  REVALIDATION_REQUIRED executes after a second approval, on a dead worker's resource.
* `stale_action`: between CREATE_PLAN and ACTION_COMPLETE an allocation id may be
  invalidated and published again as reserved; the action removes it. `plan.hpp`
  says the captured generations must be current at execution; nothing compares them.
* `foreign_demand`: VERIFY measures against the last CREATE_PLAN's demand. If that
  one fitted before and after, the outcome is IMPROVED and a plan that improved
  nothing is COMPLETED. With a single demand (`lifecycle`) the README's doctrine holds.
* `late_close`: `mark_worker_dead` knows the worker id and not the boot. The old
  connection's end, processed after the new incarnation is ready, declares the new one
  dead, and nothing brings its evidence back. The multi-process test sleeps around it.
  With `fg_worker`, which always publishes generation 1, a restarted worker's
  publication is refused as stale even without the race.

Three more differences are in the hazard list without a run. The first ACTION_COMPLETE
moves the whole plan to VERIFYING, so that the multi-process test's loop over several
actions would fail at its second BEGIN_ACTION. `plan_remediation` is to "plan remediation
that would make `demand` fit `snapshot`" (planner.hpp:13), but its own fit test counts
devices outside the demand's topology group and knows no reservations: a plan carried
out completely may leave analyze_fit at NO_FIT_TOPOLOGY. README.md:79 says that UNKNOWN
facts "are never promoted to current evidence", but `assemble_snapshot` starts from
MEASURED and looks for SYNTHETIC only.

## Proofs

`ResourceLayoutProofs`, from the assumptions that the word is a natural number,
capacities fit in it and `NoId` is no id. None of the invariants is inductive
alone: to know that a split leaves a tiling one needs that the regions before it
tile; that a removal finds its region needs the registry; that two free regions are
never adjacent after a merge needs that the neighbours' neighbours were allocated;
that the counters do not overflow needs that `freeCapacity` counts free bytes. The
inductive invariant is `LayoutInv == TypeOK /\ Tiling /\ FreeMaximal /\ Registry /\
Counters`, where `Counters` says that the free capacity is the number of free bytes and
the allocation count the size of the registry. The proof describes a split and a merge
once (`SplitEffect`, `Neighbours`, `MergeEffect`), and the counters by cardinalities
(`CardCells` and the lemmas around it). Theorems: `TypeCorrect`, `AlwaysTiled`,
`AlwaysMaximal`, `AlwaysRegistered`, `InsertDecidesExactly` (whose proof shows the
equivalence with `CanInsert`, whatever the generation), `ArithmeticNeverThrows`.

`CoordinatorProofs`, from `MessageAssumption`, `BoundAssumption` and `NullAssumption`
of `Coordinator` (messages have their types; nulls are no values). `TypeCorrect`
goes message by message; for VERIFY it needs that a snapshot of the coordinator has no
reservations, so that nothing is thrown (`OutcomeType`). `EvidenceAlwaysLive` is inductive with the types. The rest
uses one lemma, `PlanSteps`: every message leaves a plan alone, moves it to another
state that is no verdict, verifies it, or creates it. From it follow
`CompletionNeedsVerification` and `PlanIdsAlwaysFresh`, and, assuming `FreshEpochs`,
`ExecutingAlwaysDecidable` and `CompletionAlwaysAuthorised`. The last two need the
invariant `Authority`: no plan in memory or on disk has an epoch above the current one,
a plan of the current epoch has its before-snapshot with the same epoch and policy
generation, and what executes is of the current epoch. The disk part is what makes it
inductive: a plan recovered under a greater epoch is then strictly older.

`LayoutsAlwaysValid` in the same module needs only the types: every way into a layout
goes through `LayoutOps`' test for an insert, and everything else removes.

`LayoutImplementsCellMap`, at the end of `ResourceLayoutProofs`: the owner of a byte is the id of the one
region that contains it (`ByteOwners`, from the tiling), an accepted insert gives the
inserted bytes their owner and no other byte a new one, a merge takes them back. Nothing
beyond `LayoutInv` is needed.

`FreeIndexProofs` shows `IndexesAlwaysExact`. The invariant added to `LayoutInv` is
`LengthsExact`: the multiset counts, for each length, the free regions of that length.
A split takes one free region out and puts up to two in, a merge the reverse;
each is one lemma about counting a set with an element more or less. That free
*regions* are the free *blocks* which the allocations alone imply is where `Tiling` and
`FreeMaximal` enter.

`TransportProofs`, from `ConnAssumption` (connections are incarnations; every generation
one may publish belongs to some RESOURCE message of the coordinator's inputs).
The steps of a thread are written with the coordinator's own actions, so the lemma
`ServerImplementsCoordinator` (`TSpec => Spec`) is bookkeeping: it brings the
coordinator's types and `LiveEvidence` over. There are no controllers, saves or restarts
in `Transport`, hence nothing about plans. `Watched` is not inductive: a late REGISTER of an old connection can make a worker alive
again. `ServerInv` says who watches: the incarnation that registered *last*
(`LastWatches`), which holds because `conn_worker` is set before `handle()` is called
(`BoundFirst`). For `StoppedQuiet` it adds that a socket open after stop() cut the
others is one that `serve()` had not pushed (`OpenWereMissed`).

`CompletionAlwaysImproves`, at the end of `CoordinatorProofs`, assuming `FreshEpochs`, finitely many ids
and `OneDemand`. The invariant `PlannedFor` says that the planner has a plan for the
coordinator's demand in every before-snapshot; CREATE_PLAN establishes it, and the single
demand carries it to VERIFY. Without `OneDemand` the statement is false, which the run
`foreign_demand` shows. It rests on the lemma that a demand with a plan does not fit as
things are (`PlanMeansNoFit`).

`AnalysisProofs`, from `FamilyAssumption`: devices hold finitely many allocations that lie
inside and do not overlap (what the layout theorems give), demands have their types,
a reservation starts before it ends, as `reservation.hpp` demands. The inductive
invariant is `AInv == Loaded /\ Greedy /\ Progress /\ Carried`: the inputs stay legal; the
actions are downward closed in the candidates' order and no smaller number of them was
enough; what the phase says about the loop; the devices are the snapshot less some of the
actions. From it follow `GreedyComputesClosedForm`, `FitAlwaysAgrees`,
`PlanAlwaysVerifies`, `MetricsAlwaysAccount`, `MetricsAlwaysAgree` and `WindowAlwaysExact`.

The facts these need are about data: sums over devices and allocations, sorting, the
sweep over the reservations. `FitProofs` gets them without an induction theorem, by
minimal counterexamples: every nonempty set of naturals has a least element, and of
finite sets with a property there is one no proper subset of which has it. Displacing
allocations only lengthens free runs, and no sum the analysis compares gets
smaller; that is why a fit survives more displacements (`FitMeansPlanFits` and the
monotonicity lemmas). For the window search `SweepState` is the loop's invariant: every
start before the cursor meets a reservation, the cursor is the start of the horizon or
the end of a reservation, and the reservations passed end before it. It gives
`WindowExact` for every timetable: the earliest window within the horizon is found when
there is one; that a missing one is answered with false needs the reservations to end
within the horizon. The proof uses of `std::sort` only that the result is a sorted permutation
(`ByStart`), so it holds for every order of reservations with equal starts.

`CodecProofs`, from `LimitAssumption` and `MessageAssumption`, shows `FrameRoundTrip`:
`Survives(m)` for every message of the constants, whatever the limits. The argument has
three parts.

* *Reading back.* If a reader's field agrees with the writer's (same name and kind, and
  the value within the reader's bound), `GetField` takes exactly the words that
  `PutField` wrote and stores the value; if the value is out of bound it refuses. From
  fields to records, lists of records and messages this goes by induction on the number
  of items read, stated as the set of the numbers for which the claim holds (the least
  number outside it leads to a contradiction). The state after i items is: the words of
  the items left, and a record of the first i values. Once `ok` is false it stays so.
* *Agreement.* `FieldsAgreed` says that the lists `PutFields(t)` and `GetFields(t)` agree
  item by item for all twenty types. This compares the code's two switches, with the
  enumerators of the enum classes on one side and the numbers in `valid_movability` and
  its siblings on the other.
* *Limits.* `LimitsFit`: the reader's bounds are met exactly when `WithinLimits` says so,
  so what is refused is what the limits name and nothing else.

`StreamProofs`, from the same assumptions. `FramesAlwaysDecode` states `RoundTrip` for
everything sent. `MessagesDelivered` needs the inductive invariant `DeliveryInv`: unless
a payload was too long, there is a k such that buffer and stream together are the frames
of the messages after the k-th, and what was handled are exactly the due ones among the
first k. `Delivered` is nearly that; what is added is equality of whole messages in place
of the fields `handle()` reads. The step is `FeedStep`: on words that are the beginning
of a row of frames, `Feed` takes nothing or the whole first frame, for every cut.
`AnswersAlwaysMatch` is about a client with window 1; its invariant
`AnswerInv` says that at most one frame travels in the two directions together
(`Exchange`): either the last request is on its way, or it was handled and its reply is,
or nothing is. That is why the fresh decoder of `recv_frame` finds nothing buffered to lose.
A payload beyond `protocol_max_payload` is the exception in both, as in the properties:
`feed` then clears its buffer in the middle of a frame.

Only model-checked: liveness, which with ENABLED is out of the prover's reach
(`DeathNoticed`, `NeverStuck`, `StopReturns`, `Answered`). Every invariant and action
property of a passing run is a theorem.

## Not modelled

The byte layout of the state file (its CRC, bounds and refusals; what is written,
degraded and restored is in `Coordinator`); the platform's `rename`; the race in
`crc32`'s static table; reuse of socket handles by the system; policy switches, which no
code reads; scores that order nothing; diagnostics; the tools' printing, CUDA programs
other than the worker's publications, benchmarks and examples.
`Coordinator::advance_policy_generation()` is called nowhere.

## Plan

Done, in this order: layout with its abstract specification; fit, planner, verification;
the coordinator; the proofs about both; the analysis run with metrics; protocol and
stream; the transport composed with the coordinator; the proofs about layout refinement and
indexes, analysis, completion and transport; the proofs about codec and stream.

Left:

1. *Persistence.* The state file's format as schemas in the manner of `Protocol`, and
   the steps of `save_state` with failures between them.
2. *Larger transport.* Controllers as clients beside workers, so that the plan
   lifecycle runs over connections that end.
