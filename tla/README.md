# A TLA+ verification of POGLS V4

POGLS V4 is a C library of header files: every operation `(value, angular_addr)` is
routed to one of 54 delta lanes, audited, and periodically certified by a snapshot.
This directory holds TLA+ models of its parts, the TLC runs that check them on small
instances, and TLAPS proofs that hold for every value of the constants: every invariant and
every safety property of a run is also a theorem, liveness is left to TLC. Everything
is translated from the code under `src/`; comments and documents are only quoted where
they disagree with it.

`PROJECT.json` lists components, runs, hazards, findings and theorems, and maps each
definition to its source lines. To check one module: `tlc -config X.cfg M`, and
`tlapm M_proofs.tla`.

## 1. The system

```
 pipeline_wire_process
   |  L3Engine            address -> world -> MAIN / GHOST  (SHADOW: never)
   |  ghost_table         a cached MAIN decision, guarded by a context
   |  DeltaSensor, DualSensor        may reject to GHOST
   |  anchor              a strong GHOST whose signature has matured -> MAIN
   |  EvoV3, castle       a lane number; an answer nobody reads
   v
   MAIN : lane batch -> file lane_NN.dat, audit entry, snapshot gate every 18 commits
   GHOST: lane batch half way round
   SHADOW: DetachLane -> DeltaWriter, mesh callbacks           (unreachable today)
                          mesh callbacks -> MeshEntryBuf -> Mesh, ReflexBias, DiamondLayer, DiamondHC

 beside it: GhostAsyncRing (asynchronous GHOST writes, additive),
            EngineBridge V3.8: FaceState tick -> staging -> audit -> world A or B lanes,
            RewindBuffer -> DeltaWriter, SpectreRing (a ledger of batches) -> DeltaWriter,
            FaceState / HydraContextPool / FaceSleep under a topology engine,
            RateLimiter -> HydraWeight -> HydraBatch -> DynamicHydra, ResourceGuard
```

| Component | State it keeps | Operations | Hard behaviour | What makes it correct |
|---|---|---|---|---|
| GhostAsyncRing `pogls_ghost_async.h` | ring, two wrapping 32-bit indices, stop flag | push, drain pass, start, stop, foreground drain | two threads without a lock; wrap of the indices; shutdown | each accepted entry delivered once, whole, in order; stop returns |
| DetachLane `pogls_detach_lane.h` | the same, but the producer also stores `tail` | push (drops the oldest), flush pass, start, stop, drain | two writers of `tail` | the newest entries survive; stop leaves nothing |
| PipelineWire `pogls_pipeline_wire.h` | ghost table, lane batches, files, audit, pending snapshot | process, flush, close, init | order of the cascade, partial opens, short writes, crash, counters that wrap | lanes lose only what the file system refused, MAIN is earned, the gate keeps its cadence |
| Snapshot and audit `pogls_v4_snapshot.h` | audit context, snapshot headers, tile freezes | ingest, create, certify, certify_freeze, auto_promote, invalidate, verify | free order of calls, full signal queue, live root | a certificate tells the truth about the audit's history |
| L3Engine `pogls_l3_intersection.h` | previous world, flip counters, GHOST streak | `l3_process` | truncation and wrap of counters | GHOST runs end |
| RewindBuffer `core/pogls_rewind.h` | ring, head, tail, count, confirmed, checkpoints | push, flush_gate, rewind, rewind_to_checkpoint, peek, depth | order of calls, eviction of unflushed blocks, failing appends | what is peeked and flushed is the timeline |
| DeltaWriter `storage/pogls_delta.h` | lane files, `offset` per lane | init, append, append_batch, sync, close | short writes, failing fflush and fsync, loss of power | a synced block stays, and is where the offset said |
| SpectreRing `storage/pogls_spectre.h` | ring of batch entries, head, tail, count | push (drops the oldest), pop, peek, confirm | the two indices wrap differently; confirm by position | the newest batches are kept, a confirmed one is on disk |
| EngineBridge `bridge/pogls_engine_bridge.h` | staged writes, two flush counters, face states | write, checkpoint, close | three reasons to flush, two counters that decide a commit | each write once in its world; a bounded crash window |
| FaceState, HydraContextPool `core/pogls_face_state.h` | activity and state per face, pool of contexts with local rings | tick, wake, split, merge, spawn, retire, local push and rewind | rounding of decay; a split child merged away | contexts have one owner; the local ring keeps its window |
| FaceSleep `core/pogls_face_sleep.h` | sleeping and dirty sets | sleep, wake, idle sleep, wake_all, mark | nodes are put to sleep, whole pages are given back | only what shares a page with a sleeper can lose pending data |
| DynamicHydra `hydra/pogls_hydra_dynamic.h` | mask and number of heads, a task ring per head | push, pop, spawn, kill, autoscale | rings used without the lock that spawn resets them under; decisions that age | counter = mask; tasks in order, once |
| HydraBatch, HydraWeight, RateLimiter `hydra/` | slots per head, weights, token bucket | push, push_multi, flush, activate, deactivate; route, hit, decay; refill, acquire | slot at its limit; saturation; integer refill | each operation dispatched once in order; rate kept; load spreads |
| ResourceGuard `hydra/pogls_resource_guard.h` | metrics, three flags, time of the last update | the four questions | failed readings, a clock set back | growth is backed by memory that was seen |
| InfinityCastle `routing/pogls_infinity_castle.h` | trace, window, ghost and collapse tables | process, drift guard, set_phase | keyed by a window that moves between store and lookup | an answer belongs to its window |
| Evo routers v1, v2, v3 `pogls_evo*.h` | cache of lanes, load per lane | `evo*_process` | colliding keys, ages that wrap | an address keeps its lane; the idle way goes |
| Mesh `pogls_mesh.h` | clusters, adjacency, tails per slice | ingest | tail ring masked by 17, not a power of two less one | the graph of the events; the newest in its tail |
| MeshEntryBuf `pogls_mesh_entry.h` | ring between two threads | push, pop, drain | both threads store `tail` | in order until full, then the newest |
| Detach callbacks `pogls_detach_callbacks.h` | none | one flushed entry to `mesh_cb`, then `dhc_cb` | order, the anomaly guard | every observer sees the entries meant for it |
| ReflexBias `pogls_mesh_entry.h`, reflex patch | a bias and an epoch per zone | update, reward, lookup (which decays) | a lookup on the hot path writes the table the flush thread updates; 8-bit epochs, capped catch-up | lazy decay is the eager one; no demotion after one event |
| DiamondLayer `pogls_diamond_layer.h` | bias, heat, count, last type per cell | update, score, boost, signal | bonus, decay and clamp of one small number | a cell of GHOST events is never boosted |
| Honeycomb `pogls_diamond_hc.h` | cell pool, chains, time to live | ingest, tick | a pool that never gives cells back | one live cell per recent place |
| Shadow flush worker, Spectre bridge, other routers, QRPN, FractalGate, slices, GPU batch | - | - | - | not modelled, section 7 |

**Interactions.** Inside `pipeline_wire_process` and inside `hs_engine_write_v38` everything is a
plain call, so one call is one action. Threads exist in five places: the ghost drain
thread, the detach flush thread, the two ends of MeshEntryBuf, the producers and
consumers of DynamicHydra's heads, and its scalers. They share their rings with the
main thread, and the flush thread also the bias table that its callbacks update and the
hot path looks up. The Spectre ledger's ring is shared under a mutex. Persistence is the
lane files and the delta files; no snapshot is ever persisted.

**Two facts found on the way** shape everything else. First, L3 can never answer
SHADOW (theorem `ShadowIsUnreachable`), so the detach hook, the shadow second chance and
the anomalous entries of the audit are dead code *in the wired pipeline*; their modules
are modelled as components in their own right. Second, `l3_process` overwrites
`prev_addr` before the ghost table's context is computed from it, so the "context" of an
operation depends on the operation alone (line 494 of the pipeline header).

## 2. The modules

| Module | Models | How it corresponds |
|---|---|---|
| `GhostQueue` | what the ghost ring promises | a bounded FIFO whose batches leave before they are delivered |
| `GhostAsyncRing` | `pogls_ghost_async.h` | every load or store of a field both threads use is one action; writing a slot is two (`TearSlot`, `FillSlot`), so that a half-written entry is visible; indices count modulo `Wrap` = `Laps * Size`, standing for 2^32 |
| `DetachLane` | `pogls_detach_lane.h` | the same grain; the loads of `tail` (`ReadTail`, `BeginPush`) are separate from the stores (`StoreTail`, `DropOldest`) because either thread can overtake the other between them |
| `SnapshotOps` | the pure part of `pogls_v4_snapshot.h` | `Ingested`, `Created`, `Certified`... are functions from a struct to a struct; shared by `SnapshotAudit` and `PipelineWire` |
| `SnapshotLifecycle` | the life cycle its comment promises | stages of a snapshot; certified ones are sealed |
| `SnapshotAudit` | `pogls_v4_snapshot.h` | one audit, several snapshots, calls in any order |
| `PipelineWire` | `pogls_pipeline_wire.h` | one call of `process` is one action, over `SnapshotOps`; plus flush, close, a crash, and init over old files |
| `RewindBuffer` | `core/pogls_rewind.h` | one action per function; a block is the ordinal of its push |
| `DeltaWriter` | `storage/pogls_delta.h` | a block is two units, so that a write can be torn; `file` is what the kernel has, `durable` how much of it a power failure spares |
| `SpectreLedger` | `storage/pogls_spectre.h` over `DeltaWriter` | the ring's calls hold its mutex and are one action; the worker peeks, appends, syncs, confirms and pops in five, between which the ring goes on |
| `FaceOps` | activity and transitions of `core/pogls_face_state.h` | operators from a face to a face, used by `EngineBridge` |
| `EngineBridge` | `bridge/pogls_engine_bridge.h` | one write is one action: tick of the face, staging, and the flush with audit, append and commit if it is due; what passes the audit is collected by a loop over the staged writes, as in the code (`Passed`) |
| `FaceIslands` | split, merge and pool of `core/pogls_face_state.h` | one action per function, under a topology engine that does what the comments ask of it |
| `FaceSleep` | `core/pogls_face_sleep.h` | one action per function, over nodes that lie in memory at `Base + i * DataStride` and a `madvise` that refuses unaligned addresses and takes whole pages (`Aligned`, `Swept`) |
| `HydraHeads` | `hydra/pogls_hydra_dynamic.h` | each step of the unlocked push and pop is one action; autoscale's decision and the call it makes are two; a spawn sets the bit, then resets head, then tail |
| `HydraFront` | `hydra/pogls_rate_limiter.h`, `pogls_hydra_weight.h`, `pogls_hydra_batch.h` | a submission acquires, routes, hits and pushes in one action; `dispatched` keeps what each head handed to the callback; flushes, (de)activations, decay and the clock are others |
| `ResourceGuard` | `hydra/pogls_resource_guard.h` | each question updates (or not, within a second) and answers |
| `L3Route` | `routing/pogls_l3_intersection.h` | the arithmetic kept, at a scale that need not be 2^20 |
| `InfinityCastle` | `routing/pogls_infinity_castle.h` | a signature stands for the window it hashes; entries that the code never writes stay as they are zeroed |
| `EvoRouters` | `pogls_evolution_core.h`, `pogls_evo_v2.h`, `pogls_evo_v3.h` | one of the three versions per behaviour; hash, Mandelbrot class, Fibonacci term, cache and spill computed as in the code; the XOR of the hashes is a parameter, which the run sets to the bitwise one |
| `Mesh` | `pogls_mesh.h` | one entry is one action: cluster, edge to the ghost's cluster, tail; the AND that masks the tail is a parameter, which the run sets to the bitwise one |
| `MeshEntryBuf` | the ring of `pogls_mesh_entry.h` | the grain of `DetachLane`; the indices start at `BufFirst`, where earlier entries have left them |
| `ReflexOps`, `DiamondOps`, `HoneycombOps` | the functions of `pogls_mesh_entry.h`, `pogls_diamond_layer.h`, `pogls_diamond_hc.h` | operators from a struct, or a number, to a struct, with their thresholds as constants |
| `DetachObservers` | those three behind `pogls_detach_callbacks.h`, and the lookup of `pogls_pipeline_reflex_patch.h` | two threads; each access to the unlocked bias table is one action, with the call's locals in `frame`; layer and honeycomb belong to the flush thread, a call on them is one action |
| `MCCore`, `MCHydra`, `MCRouting` | - | several components side by side, see below |
| `ModArith` | - | lemmas on `%`, and the least-number principle |
| `*_proofs` | - | theorems: `Core_proofs` about `RewindBuffer`, `FaceIslands`, `FaceSleep` and `EngineBridge`; `Pipeline_proofs` about `SnapshotAudit` and `PipelineWire`; `Detach_proofs` about `DetachObservers` and `DetachLane`; `Hydra_proofs` about `MCHydra`; `Routing_proofs` about the five parts of `MCRouting`; the others about the module in their name |
| other `MC*` | - | values of constants for TLC |

**Compositions.** `SpectreLedger` runs the ledger and the file writer together, `EngineBridge` the
write path and the faces, `DetachObservers` the callbacks and three observers,
`PipelineWire` the pipeline and the audit. `MCCore`, `MCHydra` and `MCRouting` are different:
they put parts side by side that no file of the repository joins (the bridge has a rewind
pointer that stays NULL, and a sleep context whose nodes nothing puts to sleep), or that, like
L3, the castle and the evo routers, only answer or observe. No part reads or writes a variable of
another, so a behaviour of all of them is one behaviour of each, and an invariant about
one part holds in the interleaving if and only if it holds when that part runs alone. The
initial state therefore picks the `part` that moves, which checks the same thing and
saves the product of the state spaces.

Variables named *history* in the modules record what has happened (`accepted`, `out`,
`timeline`, `acked`, `grants`, ...). No guard reads them except the bounds. An operator
`Action_mistake` is not part of a specification: it is the action with a plausible slip
and serves to show that some property notices it.

**Abstractions.** A block, an entry or an operation is an ordinal. Hashes are sets of `Bits`,
XOR is symmetric difference: no collision is assumed away that a property depends on.
The verdicts of the sensors, the anchor score and, in `PipelineWire`, L3's answer are
inputs chosen freely; this allows more behaviours than the code has, so what is
safe there is safe in the code. Statistics, time stamps and logging that nothing reads
back are left out. The three signals that make L3's world A confident are one Boolean
input.

**External code.** What is not in the repository is modelled as `src/` uses it.

* *stdio and the disk.* `fopen` of a pipeline lane may fail and init goes on. On such a lane, and
  on any other in `MayFail`, `fwrite` may take any number of a batch's blocks and `fclose` may
  write out any part of what stdio still holds; a crash leaves any part of that on every
  lane. Blocks are whole (64 bytes, in a stdio buffer that holds 64 of them), and what one
  `fwrite` took a later failing one leaves in the buffer, as in glibc. In `DeltaWriter` a
  `fwrite` may fall short, a failing `fflush` drops what it could not write, a failing
  `fsync` leaves any part on the disk, and a power failure keeps any part that is at least
  what was synced. `RewindBuffer` is checked against an append that may fail at any time.
* *The V3.8 engine.* Delta context, audit, ExecWindow and adapt engine are in headers that are
  missing: lanes that append and commit, any verdict, a window that expires at any write,
  idle ticks and completed wake-ups at any time.
* *The topology engine* decides what to split; it splits over faces that are free, and spawns
  and retires a context with the split and the merge.
* *`madvise`* is that of Linux over private anonymous memory: it fails with an address that is
  not the start of a page, rounds the size up to pages, and `MADV_DONTNEED` zeroes them at
  once. Who calls `face_sleep` may pass an address or none and any size; who writes a node
  marks it dirty, and appends its delta before it marks it clean.
* *`/proc` and `time()`.* Either file may be unreadable at any time, the memory shown is any
  number, and the clock may be set back. `CLOCK_MONOTONIC` of the limiter may not.

## 3. The runs

All runs pass. Each property has a mutant in `PROJECT.json`: a slip in a mapped
definition under which the run's own configuration finds the property violated.

| Run | Question | Bounds, and why they are enough |
|---|---|---|
| `ghost_ring` | Does any interleaving lose, tear, repeat or reorder an entry? Do drain and stop end? Is it a FIFO? | ring 4, batch 2, indices wrap at 8; 10 pushes pass the wrap and fill the ring again after it; one refusal shows the full case. Deadlock is checked: even at the bounds a drain can begin |
| `detach_lane` | With two writers of `tail`, what survives? | ring 2, batch 2, starting at index 5 of 8, so that the second lap wraps; 6 pushes overflow the ring more than twice, with one thread start and any foreground drains |
| `snapshot_audit` | Are certificates true, whatever the order of calls? | 2 tiles, 1 hash bit, a queue of 2 (1 usable slot), 8 entries: past the 25 percent threshold from both sides, past the full queue; 2 snapshots |
| `pipeline_lanes` | What is missing from batches and files after flush, close, crash, restart, failed opens, short writes and failing closes? | 2 lanes, one of which may fail, so that a healthy lane runs beside it; batches of 2 and 5 operations: a lane fills twice, what was refused in the middle is followed by what was not; a gate of 2 is passed twice; one restart over files with gaps |
| `pipeline_cache` | Can a colliding or stale ghost entry make an operation MAIN that L3 never routed MAIN? | 2 slots, signatures 0, 1, 3 (1 and 3 collide, 0 means "free"), 2 contexts (symmetric), hits wrap at 4, mature at 3; 7 operations reach the wrap and the re-use of the slot |
| `detach_observers` | Do bias table, diamond layer and honeycomb say what they should of the entries flushed to them? | 2 zones, cells and places; entries of all four types and one that is no anomaly; 7 calls: two make an epoch, epochs wrap at 4, the catch-up stops at 2, so that zones oversleep; biases from -5 to 2 clamp at both ends; warm after 2 events, hot after 3; a pool of 3, of which the code uses 2 (`PoolFull` stops one short), exhausted by the third summons; calls follow one another, as in the tests |
| `detach_overlap` | Can the race of flush thread and hot path demote a zone after one event? | the same module with `Overlap`: every load and store of bias and epoch interleaves with the other thread's; 6 calls over 2 zones, with one that earns a penalty of 1 and one of 3, rewards, lookups, and epochs that wrap at 3: penalties and decays are lost to stale stores, and the threshold is reached in spite of it |
| `spectre_ledger` | Is what the ledger confirms on the disk, and does it stay? | 1 lane, 3 blocks of 2 units so that a write can stop half way, a ring of 2 that overflows at the third of 4 pushes; fwrite, fflush and fsync may fail, the power may fail between any two steps, the lane is reopened |
| `v3_core` | *Rewind buffer*: Are peek, depth and the delta lane right after any order of calls? *Sleep*: Whose data does sleep give back with the pages? *Bridge*: Does each write reach the lane of its world, and what can a crash lose? | *Rewind buffer*: ring 4, gate 2, a checkpoint every 2; 9 pushes go round twice, with evictions and rewinds across the wrap. *Sleep*: 6 nodes of 6 bytes on pages of 4, every third an anchor: nodes 2 and 4 start a page, 1 does not; 2 and 4 take a piece of the anchor 3 and of 5 with them, if the size asks for it; sizes 0, 3 and 9: no page, one, several; any order of writes, deltas, sleeps and wake-ups, without a bound. *Bridge*: 2 nodes, one an anchor; staging and commit batches of 2, 5 writes: two full batches and a rest, with windows that expire at any write; activity 4 at most, split above 1, a GHOST after 1 idle tick, 3 idle ticks |
| `face_islands` | Do contexts and local rewinds keep what is theirs? | an anchor and five interchangeable nodes, so that a child can be split in its turn; 2 contexts, so that the pool runs out; a local ring of 2, 3 blocks pushed |
| `hydra` | Do heads, batches, weights, limiter and guard keep their counts, order and limits? | 3 heads, at least 1, rings of 3 (2 usable), thresholds of 1, two scalers, one head that has a producer and a consumer, 3 pushes, 4 calls: a head is killed while a decision about it is pending; weights to 5 and 4 submissions reach saturation of a weight, and a multi-push of 4 fills its slot of 2 twice; 2 tokens per second of 3 time units, 4 units; 5 questions in 3 seconds to the guard |
| `routing` | Do the parts that only answer keep what they were given? | *L3*: a circle of 16, the addresses 0..16, 11 calls, streak limit 3, gap saturating at 5. *Castle*: window, trace and ghost table of 2, 3 offsets, 2 data, 5 calls. *Evo*: 5 addresses that fold together, to 0, and on a lane bit, one bucket of two ways, ages that wrap at 4 and expire at 2, 4 calls for v1 and 7 for v2 and v3. *Mesh*: the scale and seeds divided by 64, 5 addresses that share lanes or clusters, tails of 6 (the mask is then 5, again not 2^k - 1), 7 events. *Buffer*: 2 slots, indices that wrap at 8 and start at 5, 6 entries: more than the wrap is far |

`CHECK_DEADLOCK FALSE` is set where the caller may simply stop calling: at the bound on
operations nothing is left to do.

Four runs of an earlier stage that only exhibited a disagreement between code and
comment are gone; the properties now exempt exactly the case in question, and section 6
lists it.

## 4. The properties

*GhostAsyncRing.* `ForegroundEmpties`: the foreground drain returns with an empty
ring. `EventuallyDrained` and `StopReturns` are liveness; `ImplementsQueue` is the
refinement to `GhostQueue`. Proved and no longer run: `RingInv`, that the slots between the
indices hold the published entries whole whatever both threads are doing, and
`ExactlyOnceInOrder`, what the callback sees. The thread's one last pass takes a batch
(256) although the ring holds 8192: after `stop` entries may remain, until somebody calls
the foreground drain. All of these properties allow that.

*DetachLane.* `DeliveredAsPushed`: until the ring overflows, entries are delivered whole, once
and in order. `NewestNeverLost`: the two threads overwrite each other's `tail`, but each
of the `Size` newest entries is delivered, being delivered, or still in the ring.
`StopEmpties`: a stop or a drain that has returned has left nothing in the ring;
`StopReturns` is its liveness.

*SnapshotAudit.* `AuditInv` ties health, signal queue and root to the history of entries;
`CertificatesEarned` states the truth gate in terms of that history and not of the
flag the code reads; `ImplementsLifecycle` is a refinement. Proved and not run:
`VerifyUntilNextClean` says how long a certificate verifies, `FlagsAgree`,
`DegradedForGood`.

*PipelineWire.* `LanesLoseOnlyRefused` follows an operation from `process` to its file. `wd_flush`
empties a batch whatever `fwrite` took of it and nobody looks at `fclose`, so that a lane does
lose operations (section 6): the property says that file and batch together hold what was found at
init and pushed since, less exactly the operations that were refused (`lost`), and that nothing is
doubled or reordered by the second flush of `wd_close`, by short writes, by crashes and by
restarts over the files left behind. `MainIsEarned` and `CacheIsEarned` say the ghost table
repeats an answer L3 gave and never speaks for a colliding signature, also after its 8-bit hit
counter has wrapped to 0 and the slot reads as free; `SnapshotCadence` says the gate is never
missed, refused or passed twice.

*RewindBuffer.* `PeekIsTimeline` holds without condition. `FlushedIsTimeline` (and
`WindowCoversDepth`, proved) hold as long as no unflushed block has been overwritten.

*DetachObservers.* `LazyIsEager`: the table decays a zone only when it is touched, by an 8-bit
difference of epochs and at most 16 steps; when no call is under way, a zone that has caught up
must have the bias it would have had if every zone had been decayed at the end of every epoch and
nobody had looked (where calls follow one another). The zones it exempts are those that once slept
through more epochs than the catch-up makes up for, which `missing` counts without the 8-bit wrap.
`DemotionNeedsHistory`: the patch promises that no single event demotes; that a `BURST` costs 3,
that decay rounds down, that rewards come in between and that each thread stores over what the
other has stored since its load must not break it; it is run with the overlap. `HoneycombSound`:
one live cell, of the right age, for each place with an event in the last `Ttl` ticks, none for
the others; the exception it has to make is the pool that fills up for good.
`GhostZonesNeverBoosted` is proved and not run.

*SpectreLedger.* `DeltaKept`: a lane's `offset` is the size of its file, and what a successful
sync covered is there whatever failed afterwards; only blocks whose own `fflush` failed unnoticed
are exempt. `HoldsNewest`: head is never reduced, tail is reduced modulo 2048 when the ring drops
and runs on otherwise, and yet the `count` entries from `tail` are the newest batches in order,
until a pop of an empty ring finds `tail # head`. `ConfirmedIsOnDisk`: the whole point of the
ledger, over both components, the worker's five steps and power failures. Its exemptions are the
states in which an entry was dropped or popped while the worker was at one, and a lane that holds
a torn write.

*EngineBridge.* `EachOnceInItsWorld`: staged, in the lane of its world, or ejected; once, in
order. `CrashWindow`: the uncommitted writes of both worlds together come from fewer
flushes than the commit batch, although a checkpoint commits world A alone, and the
counters of flushes and of commits are bumped in different places. `DeadTransitions`: two
transitions the code provides for cannot be taken, whatever is written and ticked.

*FaceIslands.* `IslandsOwned`, except for a context whose face was wiped out when its parent was
merged; `LocalWindow`.

*FaceSleep.* `PendingDataKept`: the newest data of a node are in memory or in the delta lane,
an anchor's in memory, in any order of writes, deltas, sleeps, writes to a sleeping node
and wake-ups. The code only looks at the node it puts to sleep and gives back its pages
with whatever else is in them, so that this can be said of the nodes that share no page
with another that may sleep, and of no others (`Exposed`; section 6). A write to a
sleeping node is safe too, because waking keeps its mark. `PagesApart` and `OneReleased`
are proved and not run: how few nodes ever give memory back.

*Hydra.* `HeadsCounted`: the counter is the number of bits in the mask, between the minimum and
the number of heads, whatever two scalers decide on readings that have aged. `TasksInOrder`: a
head that no call was using while it was (re)spawned pops what was pushed to it in this life, once
and in order, also while it is being killed. `OpsOnceInOrder`: per head, over push, push_multi,
partial flushes and deactivation, as long as there is a callback. `LoadSpread`: no head's weight
is ahead of another's by more than the farthest distance counts and one hit. `LimitsAreKept`: in
any stretch of time the limiter grants no more than its rate and one bucket; the guard grants
growth only on the memory it last saw, and never together with shrinking, although readings may
fail and the clock may go back.

*Routing.* `GhostRunBounded`: the anti-drift guard holds for any sequence of worlds and signals.
`CastleRemembers`: an answer of the fast path was computed for the window it was asked with, and
drift at an offset in the trace is found. `LanesStick`: between two computations a key keeps its
lane; `EvictsTheIdle`: version 3 gives a key up only if the other way has been idle for no more
stores than it, in true stores and not by the 16-bit ages, of a tie either; what has been idle for
2^16 stores or more looks young again and is exempt. Version 2 gives up only what has been idle
for more than `AgeMax` stores. `MeshRemembers`: clusters and edges are those of the events seen,
and a tail's newest event is in it in spite of its mask. `BufferKeeps`: in order until full, then
the newest. `NeverShadow`, proved and not run: both coordinates are masked to 20 bits, so that the
circle test cannot fail; `tests/test_wire_snapshot.c:50` tries to provoke it with large addresses.

**Fairness.** The two rings use the same: weak fairness on the steps of a main-thread operation
already begun (with `Join`), on the steps of a pass, and on the thread's loop test. The
operating system runs both threads, and nothing in them waits except `pthread_join`.
Nothing obliges the main thread to begin a push, a start, a stop or a drain, and no
liveness property needs it to. No other component promises that something happens: they
answer when they are called.

## 5. What is proved

The theorems hold for every value of the constants that satisfies the module's named
`ASSUME` (sizes positive, a batch no larger than the ring, ...) and without the bounds being
small: a bound is any natural number. Each rests on an inductive invariant with one proof
step per action.

Every invariant and every action property of a run is stated by a theorem. Four theorems
have a hypothesis beyond the assumptions, each because the property fails without it:

* `LazyDecayIsEager` has `~Overlap`. When a lookup of the hot path overlaps an update of the
  flush thread, it can store the bias it loaded before the update (section 6); the run
  `detach_observers` has the same value of the constant. The other theorems about the
  observers hold for both.
* `OverflowTakesTheOldest` has `MaxPush < Wrap`, `NewestAreNotLost` has `MaxEntries <
  Indices`: since the ring was empty, fewer entries were pushed than the 32-bit indices can
  count. A pass that stands between its load and its store of `tail` while 2^32 entries are
  pushed finds the full ring empty, and the newest are gone. The first index is arbitrary,
  so that the theorems do cover the wrap itself. Nothing is assumed of how often a pass is
  overtaken.
* `OneNodeAtMost` has the figures it is about: 162 nodes of 130 or of 8 bytes, and pages of 4096.

Two forms of argument stand in for induction, for which the provers have no rule that they
can instantiate. A fact about every value of a recursive function (the loop of `Passed`) is
shown from a *least counterexample*: `LeastNat` gives the first turn after which it fails,
and the turn before contradicts it. For repeated rounding (`LazyIsEager`) the invariant says
that a *chain of values* leads from one bias to the other, each the decay of the one before
(`Reaches`); a chain can be cut and lengthened at either end without a closed form.

* **`GhostAsyncRing_proofs`**: `TypeCorrect`, `RingIntact`, `DeliveryExactlyOnce`,
  `ForegroundLeavesNothing`, `RingImplementsQueue`. The invariant is `TypeOK /\ RingInv`.
  What the callback has seen (`ExactlyOnceInOrder`) is not inductive: one needs the batch in
  flight, hence the slots, hence that the wrapped indices agree with the true counts and
  that the producer is less than a lap ahead. The lemmas on `%` are in `ModArith`; that
  `Wrap` is a multiple of `Size`, as 2^32 is of 8192, is what lets slots be computed from
  wrapped indices. The refinement maps `[tail, head)` to the queue, a released batch to the
  one in flight. While a foreground drain runs nothing is pushed and no thread exists
  (`ForegroundInv`), so that a batch that is not full was all there was.
* **`Pipeline_proofs`, the audit**: type, `AuditInvariant`, `CertificatesTrue`,
  `VerificationStable`, `FlagsConsistent`, `DegradationFinal`,
  `SnapshotsImplementLifecycle`. The invariant relates the audit to its counters and each
  snapshot to the audit as it was then; verification is stable because the root moves only
  with clean entries.
* **`Pipeline_proofs`, the pipeline**: `OnlyRefusedAreLost`, `NothingWrittenTwice`,
  `CacheSpeaksForL3`, `OnlyL3Promotes`, `GateKeepsCadence`. *Lanes*: inductive is that file and
  batch together are increasing and disjoint from those of every other lane (`Ordered`); a flush
  that keeps a first part of an increasing sequence loses exactly the operations of the rest
  (`CutOff`, `KeptEffect`), since none of them is in the part it keeps. *Cache*: `CacheIsEarned`
  and `MainIsEarned` are inductive together, a store writes signature and context at once, and a
  hit counter that wraps to 0 only frees the slot. *Gate*: `CadenceInv` adds that the counter of
  commits is their number and that the audit is healthy: a certificate cannot be refused, because
  the wired pipeline never gives the audit an anomaly.
* **`Detach_proofs`, the lane**: `LaneDeliversAsPushed`, `OverflowTakesTheOldest`,
  `StopLeavesNothing`. Until the first overflow only the flush pass moves `tail`, and the
  argument is that of the ghost ring. After it `tail` can go *back*: a pass stores the index
  it computed from an old load. `NewestInv` says that the slots hold the `Size` newest
  entries, and of each of them that if `tail` has passed it, it is delivered or in the
  batch, and if the value of `tail` that the pass *loaded* has passed it, it is delivered.
* **`Detach_proofs`, the observers**: `TypeCorrect`, `DemotionHasHistory`,
  `GhostCellsStayCold`, `HoneycombHoldsRecent`, `LazyDecayIsEager`. All but the last hold for
  both values of `Overlap`, so they also cover
  the race of the two threads for the bias table: stale stores lose penalties but demote
  nobody wrongly. The argument is that the bias of a zone, *and the value a thread is about
  to store for it*, never lie more than 3 per counted anomaly below 0 (`Floor`), because
  decay of a negative number never takes it further from 0 (`DecayTowardsZero`) and counted
  anomalies stay counted. `Cells` says a cell of GHOST events has a bias of exactly -1: the
  shift rounds -2 to -1 for every decay rate (`GhostCell`). The honeycomb needs only that
  chains are searched for live cells (`Refreshed`, `Allocated`, `Aged`). The lazy decay
  needs that a zone which has not overslept is behind by its missed epochs, and that the
  difference of two 8-bit epochs is their number.
* **`Core_proofs`, the rewind buffer**: type, `PeekShowsTimeline`, `LaneHoldsTimeline`,
  `DepthIsCovered`. The invariant adds `Kept`: the `count` positions before `head` still
  hold what was pushed at them. `WindowCoversDepth` then makes the next block to flush one
  of them.
* **`Core_proofs`, the islands**: `IslandsAreOwned`, `WindowsAreLocal`.
  Ownership is inductive in both directions at once (`Owner`), with the contexts of
  reclaimed faces set apart; the ring of a context holds the newest blocks of its timeline
  at the remainders of their numbers.
* **`Core_proofs`, sleep**: `SleepLosesNothing`, `SleepersArePagesApart`, `OneNodeAtMost`. For any
  layout: what is not dirty is saved, and what is dirty or an anchor is in memory, unless a
  sleeper's page can hold it; only aligned nodes give memory back, so that their distance
  is a whole number of pages; and no node but itself is 4096 bytes, or a multiple, from one
  of the 162 when they are 130 or 8 bytes apart.
* **`Core_proofs`, the bridge**: `EachWriteOnce`, `FewUncommitted`, `NoDeadTransition`.
  Staged writes are numbered from the last flush on, the lanes hold those before.
  `BridgeInv` bounds the uncommitted writes by the batch times the remainder of the flush
  counter, which is why the two counters may be bumped in different places. For the faces:
  decay takes an activity above the threshold to one above it (`Decayed`), and no face is
  GHOST when the write looks.
* **`Hydra_proofs`**: `CountIsTheMask` (for any number of heads and scalers: a scaler that
  has decided still calls a function that tests the mask again, under the lock),
  `TasksStayInOrder`, `NothingLeftBehind`, `LimitsHold` and `RouteSpreads`. *Tasks*: of a
  head that was quiet when it was spawned, `m` tasks popped and `n` accepted put the two
  indices at the remainders of `m` and `n`; the step of a call in progress knows the index
  it loaded, and the full test leaves the slot being read alone. *Batches*: per head, what
  was dispatched and what is in the slot is what the head took. *Rate*: the tokens now plus
  what was granted since *any* earlier grant never exceed one bucket plus what was earned
  since then; a refill that credits two intervals apart cannot earn more than their sum
  (`EarnedInTwo`), which is where integer division could have gone wrong. *Guard*: after the
  first update the flags are a function of the last reading that succeeded, or of 0.
  *Weights*: decay narrows the difference of two weights (`DecayNarrows`; a quotient rounded
  down is not steeper than the number, `QuotientSlope`) and a hit, which goes to a head only
  while no other is lighter by more than the distance counts, keeps it within the spread
  (`HitKeepsSpread`).
* **`SpectreLedger_proofs`**: `SyncedStays`, `NewestKept` and `ConfirmedStays`, for any
  number of lanes and any ring. The first needs that every block acknowledged and not lost
  to a failed flush is whole in the file (`AckedIsWritten`), and below the durable mark once
  synced (`SyncedHolds`), through torn writes, failed syncs and power failures. The second
  needs `(tail + count) % RingMax = head % RingMax`: from then on every index is a slot, and
  no two of the `count` entries share one (`SameSlot`, `NextSlot`). The third rests on both:
  what the worker appended and synced is at its place whatever happens to the ring
  (`WorkerInv`), and as long as nothing was dropped or popped under it, the oldest entry is
  still the one it took (`LiveInv`).
* **`Routing_proofs`**: *L3*: type, `ShadowIsUnreachable` (at every scale: the sum of two
  squares below s*s is below 2*s*s) and `GhostRunsEnd` (the guard's counter *is* the run of
  GHOST answers). *Castle*: `CastleServesAndRemembers`; a ghost entry is in the slot of its
  own signature and holds the last result for that window, the trace is the last records,
  going round. *Evo*: `CachedLanesStick` and `EvictionTakesTheIdler`; a key is only ever in
  its own bucket, and its epoch is that of its last use, so that the age a slot shows is how
  long its key has been idle up to the width of an epoch. Nothing about XOR is needed but
  that it yields a number. *Mesh*: `MeshRemembersItsEvents`, for any seeds and any mask that
  stays within the tail, hence for 17. *Buffer*: `PopsInOrder`, `NewestAreNotLost`, like the
  lane; here both threads store `tail` with a plain store, and the invariant says of an
  entry behind `tail` that is still among the newest that it was popped, of one behind the
  `tail` a thread *holds* the same.

Only model-checked: all liveness (`EventuallyDrained`, `StopReturns` of both rings), because
fairness and `ENABLED` are beyond the prover; that the mutants are caught; and that the
compositions reach the interesting states, which no theorem says. No theorem assumes a
property of an external part beyond what its model says.

## 6. Where the code and its own words part

| Where | What the code does | What is said, or what follows |
|---|---|---|
| `pogls_pipeline_wire.h:660` | the gate certifies every 18 commits, the batch is written every 256 | `pogls_v4_snapshot.h:20`: `delta_sync()` and then certify |
| `pogls_pipeline_wire.h:229`, `:247` | the results of `fwrite` and `fclose` are ignored, the batch is emptied and counted as written | on a full disk, or a lane that did not open, blocks are gone and nothing shows it |
| `pogls_detach_lane.h:197` | on a full ring the producer stores `tail` and writes a slot that the flush pass may be copying; the pass later stores `tail` over it | lines 176, 195: drops the oldest entry; an entry can be delivered half-written, out of order or twice |
| `core/pogls_rewind.h:251` | the result of `delta_append` is ignored, `confirmed` moves on | line 249: crash safe from here; the block is neither on disk nor can it be rewound |
| `core/pogls_rewind.h:196` | `rewind_push` never flushes and evicts unflushed blocks; the next flush writes a newer block in their place | lines 187, 232: auto-flush every 18 |
| `pogls_mesh_entry.h:401` | `reflex_lookup` stores the decayed bias it loaded before the flush thread stored a penalty | line 400: a logical read; the penalty is lost |
| `storage/pogls_delta.h:135` | the result of `fflush` is ignored; blocks are appended in place | line 11: atomic rename; a block that never reached the file is acknowledged |
| `storage/pogls_spectre.h:117` | `spectre_confirm` counts its offset from the tail of the moment | after a pop or a drop it writes another batch's entry |
| `storage/pogls_spectre_delta_bridge.h:85` | batches are staged from slot 0 and flushed from a slot that moves on by 256 | from the second batch on, slots that were never written |
| `bridge/pogls_engine_bridge.h:516`, `:352` | a checkpoint commits world A only; the test before the first commit sees an odd number | line 508: drain and commit; the commit is dead code |
| `bridge/pogls_engine_bridge.h:421`, `:408` | `world` is used before it is declared; a face found in GHOST has just been moved to WAKING | the header does not compile; the face stays WAKING |
| `core/pogls_face_state.h:181` | activity stops decaying at 7, a hot face cools below 3 | an idle hot face stays hot |
| `core/pogls_face_state.h:242` | a merge zeroes a child that is itself split | its context has no owner any more |
| `core/pogls_face_state.h:377` | nothing confirms local blocks | a local rewind goes back over overwritten ones |
| `core/pogls_face_state.h:34` | every 20th of 162 nodes is an anchor: nine | "n=8 anchor nodes" |
| `core/pogls_face_sleep.h:179` | `madvise` works on pages, a node has 130 bytes (or 8 in each array): unaligned nodes stay awake, an aligned one takes up to a page of neighbours along, dirty ones and anchors included | lines 23, 25: no dirty node and no anchor sleeps; line 40: 162 sleeping nodes free 21 KB; at most one ever frees anything, and over page-aligned arrays it is an anchor, so none |
| `hydra/pogls_hydra_dynamic.h:85`, `:107` | a spawn resets a ring under calls that do not hold the lock; a kill forgets the tasks | tasks are lost, repeated or invented; tasks are lost |
| `hydra/pogls_hydra_batch.h:190` | without a callback a full batch is not reset | the next push writes behind the array |
| `hydra/pogls_hydra_weight.h:184`, `:163` | a distance counts at most 128, a weight up to 255; below 8 a weight never decays | "can influence but not dominate" |
| `hydra/pogls_rate_limiter.h:53` | a refill that earns nothing still moves the clock | polled fast enough, `rl_acquire` never returns |
| `hydra/pogls_resource_guard.h:127` | the number of heads is set at init only | the limit of 32 heads is never reached |
| `routing/pogls_infinity_castle.h:228`, `:379` | the collapse table never ages, predict is never written; the next PREWRITE undoes the drift guard | one of three fast paths can answer |
| `pogls_evo_v3.h:100`, `pogls_evo_v2.h:359` | on equal ages the newer way is evicted; the type is inverted | line 94: empty or oldest; line 316: 0 = stable |
| `pogls_evolution_core.h:101` | the overflow test follows a signed overflow | undefined: the model keeps both outcomes |
| `pogls_mesh.h:193`, `:277` | the tail is masked by 17; a ghost's address is cut to a byte | four of the 18 slots are used; clusters depend on a byte |

`findings` in `PROJECT.json` has each with its lines. No run is violated by them: they are
visible in the models, and the property they touch is stated for the case in which it
does hold.

Also seen: a flush pass or a pop that stands still while 2^32 entries are pushed loses all of them
(`pogls_detach_lane.h:197`, hypotheses of section 5); `pogls_l3_intersection.h:226` tests the
64-bit count for 0 and then truncates it, so that call 2^32 divides by 0;
`pogls_v4_snapshot.h:245` adds a tile's cumulative hash to the root at each clean entry, so that
two clean entries of a tile leave the first in a root that line 147 calls the XOR of the clean
tiles' hashes; `pogls_diamond_hc.h:37` says stale cells are reclaimed, and `_dhc_cell_alloc` never
reuses one; `pogls_diamond_layer.h` raises the bias for a `BURST`, which the bias table punishes
hardest; a positive bias below 8 never decays, in either.

## 7. Not modelled

* Statistics, printing, time stamps: nothing reads them back.
* Of the honeycomb: hash, neighbour mask, shadow offsets and the repair hint. Of an entry: its
  fingerprint, and the scatter of its address, which is an input.
* The change of route in `pipeline_wire_process` that the reflex patch describes.
* `pipeline_wire_process` after `close`: no operation is defined there.
* The shadow flush worker: its calls are commented out and its header is a placeholder.
  The Spectre to Delta bridge: what its functions call are comments.
* Of the engine bridge: predictor, frontier and temporal bridge, whose headers are
  missing; of `HydraWeight`: the histories of iterations.
* Adaptive, fibo and other earlier routers, QRPN: not included by the wired pipeline, pure
  arithmetic on one address. `pogls_pipeline_wire (1).h` is an older copy of the pipeline.
* FractalGate, Hilbert tables, slices, GPU kernel, AVX2: arithmetic without control.
* DeltaSensor and DualSensor: their verdict is an input of `PipelineWire`.

Hazards without a property are in `PROJECT.json` with the reason: the append whose failure nobody
notices (`pogls_rewind.h:251`), the commits a certificate counts that exist only in batches
(`pogls_pipeline_wire.h:662`), and two counters whose wrap at 2^32 the models' bounds stay below
(`pogls_l3_intersection.h:226`, `pogls_rewind.h:241`).

## 8. Plan of what is left

1. `RewindBuffer` over `DeltaWriter`, in place of its external append, with `FlushedIsTimeline`
   down to what is durable; the proof composes `LaneHoldsTimeline` and `SyncedStays`.
2. `DetachLane` in front of `DetachObservers`, so that what the flush pass hands to the
   callbacks is what they see; `DetachLane` as a refinement of a queue that drops its oldest.
3. `DeltaSensor` as a component, and its numeric edges.
