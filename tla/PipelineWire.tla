----------------------------- MODULE PipelineWire -----------------------------
(***************************************************************************)
(* src/pogls_pipeline_wire.h: a PipelineWire over its life, from           *)
(* pipeline_wire_init to pipeline_wire_close or a crash, and again over    *)
(* the same lane files.                                                    *)
(*                                                                         *)
(* One call of pipeline_wire_process is one action: it looks the operation *)
(* up in the ghost table, cascades the sensors' verdicts into a route,     *)
(* appends the block to a lane batch, feeds the audit (SnapshotOps) and    *)
(* certifies a snapshot at the gate.  The verdicts themselves are inputs:  *)
(* L3 (L3Route), DeltaSensor, DualSensor and the anchor score depend on    *)
(* the values fed, the castle's answer is not used.  L3 never answers      *)
(* ROUTE_SHADOW (L3Route, NeverShadow), so the second chance of lines      *)
(* 505-511, the detach hook of 595-628 and the shadow buffer are dead code *)
(* and left out, as are the statistics.                                    *)
(***************************************************************************)
EXTENDS SnapshotOps, Sequences, FiniteSets

CONSTANTS
  NumLanes,   \* RUBIK_LANES
  Batch,      \* WIRE_BATCH
  Gate,       \* commits per snapshot, the 18 of line 658
  NumSlots,   \* GHOST_STORE_SIZE
  HitMod,     \* 2^8: hits is a uint8_t
  Mature,     \* hits for promotion, the 3 of line 568
  Sigs,       \* signatures fed
  Ctxs,       \* low 20 bits of value ^ angular_addr
  MayFail,    \* lanes whose file may fail: to open, to be written or to be closed
  NoCtx,      \* model value: context of an entry never stored
  MaxOps,     \* bound: operations in a behaviour
  MaxRestarts \* bound: restarts in a behaviour

ASSUME PipelineAssumption ==
  /\ NumLanes \in Nat \ {0} /\ Batch \in Nat \ {0} /\ Gate \in Nat \ {0}
  /\ NumSlots \in Nat \ {0} /\ HitMod \in Nat /\ HitMod >= 2 /\ Mature \in Nat
  /\ Sigs \subseteq Nat /\ MayFail \subseteq 0 .. (NumLanes - 1) /\ NoCtx \notin Ctxs
  /\ MaxOps \in Nat /\ MaxRestarts \in Nat

Lanes == 0 .. (NumLanes - 1)
Slots == 0 .. (NumSlots - 1)

\* What process computes from (value, angular_addr), L3's answer, and what the
\* later sensors make of it: DeltaSensor or DualSensor reject it, or they do not
\* and the anchor score is below (weak) or at its threshold (strong).
Op == [sig : Sigs, ctx : Ctxs, l3 : {"MAIN", "GHOST"},
       sensors : {"reject", "weak", "strong"}, tile : Tiles, digest : Digest]

VARIABLES
  status,     \* "open", "closed" by pipeline_wire_close, or "down" after a crash
  opened,     \* lanes whose fopen succeeded at init
  ghost,      \* ghost_table
  batch,      \* batches: per lane, the operations not yet handed to fwrite
  commits,    \* delta_commits
  wire_audit, snap, snap_id_counter,
  file,       \* lane_NN.dat: the operations that fwrite took
  synced,     \* how much of each file a crash cannot take: what fclose wrote out
  \* History.
  lost,       \* per lane, the operations since init that wd_flush or fclose let go
  session,    \* inits so far
  fed,        \* operations so far, which numbers them
  pushed,     \* per lane: the file found at init and the operations since
  earned,     \* << signature, context >> of what L3 has routed MAIN since init
  unearned,   \* signatures that ended up MAIN before they were earned
  committed,  \* operations routed MAIN since init
  certified   \* the certificates since init, with what was committed by then

disk    == << file, synced >>
repair  == << wire_audit, snap, snap_id_counter >>
history == << session, fed, pushed, earned, unearned, committed, certified >>
wire    == << status, opened, ghost, batch, commits, repair, disk, lost, history >>

Slot == [sig : Sigs \cup {0}, ctx : Ctxs \cup {NoCtx}, hits : 0 .. (HitMod - 1)]
Certificate == [id : Nat, commits : Nat, ops : SUBSET Nat]

WireTypeOK ==
  /\ status \in {"open", "closed", "down"}
  /\ opened \subseteq Lanes
  /\ ghost \in [Slots -> Slot]
  /\ batch \in [Lanes -> Seq(Nat)]
  /\ \A l \in Lanes : Len(batch[l]) < Batch
  /\ commits \in Nat /\ snap_id_counter \in Nat
  /\ wire_audit \in Audit /\ snap \in Header
  /\ file \in [Lanes -> Seq(Nat)] /\ synced \in [Lanes -> Nat]
  /\ \A l \in Lanes : synced[l] <= Len(file[l])
  /\ session \in Nat /\ fed \in Nat /\ pushed \in [Lanes -> Seq(Nat)]
  /\ lost \in [Lanes -> SUBSET (0 .. fed)]
  /\ earned \subseteq Sigs \X Ctxs /\ unearned \subseteq Sigs
  /\ committed \subseteq Nat /\ certified \in Seq(Certificate)

-----------------------------------------------------------------------------
\* What wd_init can open; it reports success whatever fopen says.
Openable == {lanes \in SUBSET Lanes : Lanes \ MayFail \subseteq lanes}

EmptyTable == [s \in Slots |-> [sig |-> 0, ctx |-> NoCtx, hits |-> 0]]

\* pipeline_wire_init over an empty directory.
WireInit ==
  /\ status = "open" /\ opened \in Openable
  /\ ghost = EmptyTable
  /\ batch = [l \in Lanes |-> << >>]
  /\ commits = 0
  /\ wire_audit = AuditInit /\ snap_id_counter = 1 /\ snap = Created(1, 0)
  /\ file = [l \in Lanes |-> << >>] /\ synced = [l \in Lanes |-> 0]
  /\ session = 1 /\ fed = 0 /\ pushed = [l \in Lanes |-> << >>]
  /\ lost = [l \in Lanes |-> {}]
  /\ earned = {} /\ unearned = {} /\ committed = {} /\ certified = << >>

-----------------------------------------------------------------------------
\* The ghost table g: _ghost_lookup and _wire_ghost_store.
SlotOf(sig)   == sig % NumSlots
Found(g, sig) == g[SlotOf(sig)].sig = sig /\ sig # 0

Looked(g, sig) ==
  IF Found(g, sig)
  THEN [g EXCEPT ![SlotOf(sig)].hits = (@ + 1) % HitMod] ELSE g

\* A slot is taken if it is free or its hits have wrapped to 0.
Stored(g, sig, ctx) ==
  IF g[SlotOf(sig)].sig = 0 \/ g[SlotOf(sig)].hits = 0
  THEN [g EXCEPT ![SlotOf(sig)] = [sig |-> sig, ctx |-> ctx, hits |-> 1]] ELSE g

\* The wire cache: a hit whose context matches is trusted; otherwise the L3
\* decision stands and a MAIN one is stored.  Both contexts are the low bits of
\* the operation's own probe, since l3_process has already moved prev_addr on.
Trusted(op) == Found(ghost, op.sig) /\ ghost[SlotOf(op.sig)].ctx = op.ctx

Cached_anyRoute(op) ==
  LET g == Looked(ghost, op.sig)
  IN  IF ~Trusted(op) THEN Stored(g, op.sig, op.ctx) ELSE g

Cached(op) ==
  LET g == Looked(ghost, op.sig)
  IN  IF ~Trusted(op) /\ op.l3 = "MAIN" THEN Stored(g, op.sig, op.ctx) ELSE g

Decided(op) == IF Trusted(op) THEN "MAIN" ELSE op.l3

\* P1 and P2: DeltaSensor and DualSensor reject, for good.
Rejected(op) == op.sensors = "reject"

\* P4: the anchor looks a GHOST with a strong score up once more.
Anchored(op) == Decided(op) = "GHOST" /\ op.sensors = "strong"

Consulted(op) == IF Anchored(op) THEN Looked(Cached(op), op.sig) ELSE Cached(op)

Matured_anyEntry(op) == Anchored(op)

Matured(op) ==
  /\ Anchored(op)
  /\ Found(Cached(op), op.sig)
  /\ Consulted(op)[SlotOf(op.sig)].hits >= Mature

RouteOf(op) ==
  IF ~Rejected(op) /\ (Decided(op) = "MAIN" \/ Matured(op)) THEN "MAIN" ELSE "GHOST"

-----------------------------------------------------------------------------
\* What lane l was given: its file, then the batch b[l].  Its file keeps the first
\* kept[l] operations, the batch is emptied and the rest is gone.
Given(l, b) == file[l] \o b[l]

Operations(s) == {s[i] : i \in DOMAIN s}

Kept(lanes, b, kept) ==
  /\ file' = [l \in Lanes |-> IF l \in lanes THEN SubSeq(Given(l, b), 1, kept[l]) ELSE file[l]]
  /\ batch' = [l \in Lanes |-> IF l \in lanes THEN << >> ELSE b[l]]
  /\ lost' = [l \in Lanes |-> IF l \notin lanes THEN lost[l] ELSE
       lost[l] \cup Operations(SubSeq(Given(l, b), kept[l] + 1, Len(Given(l, b))))]

\* How much the file may keep when stdio is sure of the first safe operations: a
\* lane that is not open is given nothing, a file that fails takes any part.
Keepable(l, b, safe) ==
  IF l \notin opened THEN {Len(file[l])}
  ELSE IF l \in MayFail THEN safe .. Len(Given(l, b)) ELSE {Len(Given(l, b))}

\* wd_flush, of several lanes at once: however many blocks fwrite takes, the batch
\* is emptied.  They are taken to be whole blocks, of which stdio's buffer holds 64.
Flushed(lanes, b) ==
  \E kept \in [lanes -> 0 .. MaxOps] :
    /\ \A l \in lanes : kept[l] \in Keepable(l, b, Len(file[l]))
    /\ Kept(lanes, b, kept)

\* wd_push: append the block, flush the lane when its batch is full.
Push(lane, block) ==
  LET b == [batch EXCEPT ![lane] = Append(@, block)]
  IN  /\ Flushed({l \in {lane} : Len(b[l]) >= Batch}, b)
      /\ pushed' = [pushed EXCEPT ![lane] = Append(@, block)]

\* The gate: certify the pending snapshot against the audit and open the next.
AtGate_beforeCounting(a) == commits % Gate = 0 /\ CanCertify(snap, a)

AtGate(a) == (commits + 1) % Gate = 0 /\ CanCertify(snap, a)

Signatures(pairs) == {pair[1] : pair \in pairs}

\* A MAIN block: the lane of its Hilbert address, clean entry for the audit, gate.
Commit(op, lane) ==
  LET a == Ingested(wire_audit, [tile |-> op.tile, reason |-> {}, digest |-> op.digest])
  IN  /\ Push(lane, fed + 1)
      /\ commits' = commits + 1
      /\ wire_audit' = a
      /\ committed' = committed \cup {fed + 1}
      /\ unearned' = unearned \cup ({op.sig} \ Signatures(earned'))
      /\ IF AtGate(a)
         THEN /\ snap_id_counter' = snap_id_counter + 1
              /\ snap' = Created(snap_id_counter + 1, snap_id_counter)
              /\ certified' = Append(certified, [id |-> snap.id, commits |-> commits + 1,
                                                 ops |-> committed \cup {fed + 1}])
         ELSE UNCHANGED << snap, snap_id_counter, certified >>

\* A GHOST block: the lane half way round from EvoV3's.
Divert(op, evo) ==
  /\ Push((evo + NumLanes \div 2) % NumLanes, fed + 1)
  /\ UNCHANGED << commits, repair, unearned, committed, certified >>

Process(op) ==
  /\ status = "open" /\ fed < MaxOps
  /\ ghost' = Consulted(op)
  /\ fed' = fed + 1
  /\ earned' = IF op.l3 = "MAIN" THEN earned \cup {<< op.sig, op.ctx >>} ELSE earned
  /\ \/ RouteOf(op) = "MAIN" /\ \E lane \in Lanes : Commit(op, lane)
     \/ RouteOf(op) = "GHOST" /\ \E evo \in Lanes : Divert(op, evo)
  /\ UNCHANGED << status, opened, synced, session >>

-----------------------------------------------------------------------------
\* pipeline_wire_flush
Flush ==
  /\ status = "open"
  /\ Flushed(Lanes, batch)
  /\ UNCHANGED << status, opened, ghost, commits, repair, synced, history >>

\* The files are closed before the batches are handed over.
Close_noFlush ==
  /\ status = "open"
  /\ status' = "closed"
  /\ synced' = [l \in Lanes |-> Len(file[l])]
  /\ UNCHANGED << opened, ghost, batch, commits, repair, file, lost, history >>

\* pipeline_wire_close: flush and close every lane.  fclose writes out what stdio
\* still holds or, like the last fwrite, fails to, and nobody looks.
Close ==
  /\ status = "open"
  /\ \E kept \in [Lanes -> 0 .. MaxOps] :
       /\ \A l \in Lanes : kept[l] \in Keepable(l, batch, synced[l])
       /\ Kept(Lanes, batch, kept)
       /\ synced' = kept
  /\ status' = "closed"
  /\ UNCHANGED << opened, ghost, commits, repair, history >>

\* Memory as pipeline_wire_init leaves it, over whatever files there are.
Zeroed ==
  /\ ghost' = EmptyTable
  /\ batch' = [l \in Lanes |-> << >>]
  /\ commits' = 0
  /\ wire_audit' = AuditInit /\ snap_id_counter' = 1 /\ snap' = Created(1, 0)
  /\ pushed' = file' /\ lost' = [l \in Lanes |-> {}]
  /\ earned' = {} /\ unearned' = {} /\ committed' = {} /\ certified' = << >>

\* The process dies and its memory with it; of what fwrite took, stdio had written
\* out any part.
Crash ==
  /\ status = "open"
  /\ status' = "down" /\ opened' = {}
  /\ \E kept \in [Lanes -> 0 .. MaxOps] :
       /\ \A l \in Lanes : kept[l] \in synced[l] .. Len(file[l])
       /\ file' = [l \in Lanes |-> SubSeq(file[l], 1, kept[l])]
       /\ synced' = kept
  /\ Zeroed
  /\ UNCHANGED << session, fed >>

\* pipeline_wire_init again: the files are opened for append.
Restart(lanes) ==
  /\ status # "open" /\ session <= MaxRestarts
  /\ status' = "open" /\ opened' = lanes
  /\ session' = session + 1
  /\ UNCHANGED << disk, fed >>
  /\ Zeroed

WireNext ==
  \/ \E op \in Op : Process(op)
  \/ Flush \/ Close \/ Crash
  \/ \E lanes \in Openable : Restart(lanes)

WireSpec == WireInit /\ [][WireNext]_wire

-----------------------------------------------------------------------------
\* Between process, the lane batch and the file an operation disappears only when
\* the lane was not open, or fwrite or fclose did not take it, and then only the
\* operations concerned: those before and after it are there, and what was refused
\* is not written after all (wd_push, wd_flush, wd_close).
LaneFaithful ==
  \A l \in Lanes : Operations(Given(l, batch)) = Operations(pushed[l]) \ lost[l]

\* pipeline_wire_close leaves nothing in the batches: what was not refused is in the
\* lane files, and no second flush can write it again.
CloseEmptiesBatches == status = "closed" => \A l \in Lanes : batch[l] = << >>

\* Through short writes, crashes and restarts over the same files, no operation is
\* written twice, and file and batch of every lane keep the order in which the
\* operations came.
WrittenAtMostOnce ==
  /\ \A l \in Lanes : \A i, j \in DOMAIN Given(l, batch) :
       i < j => Given(l, batch)[i] < Given(l, batch)[j]
  /\ \A k, l \in Lanes :
       k # l => Operations(Given(k, batch)) \cap Operations(Given(l, batch)) = {}

\* "Only L3+Anchor can promote to MAIN" (line 521): whatever the cache, the
\* sensors and the anchor do, an operation ends up MAIN only if L3 has said so,
\* of it or of an earlier one of the same signature.  A slot of the ghost table
\* that a colliding signature holds never speaks for another.
MainIsEarned == unearned = {}

\* The context guard of lines 488-490: an entry of the ghost table is one that L3
\* routed MAIN, with the very context the entry holds, so that a trusted hit
\* repeats an answer L3 gave; and only such an entry is ever found.
CacheIsEarned ==
  \A s \in Slots :
    \/ ghost[s].sig = 0
    \/ SlotOf(ghost[s].sig) = s /\ << ghost[s].sig, ghost[s].ctx >> \in earned

\* "certify snapshot every gate_18 commits": the gate is never missed, never
\* passed twice and never refused, and ids are handed out in order.
SnapshotCadence ==
  /\ Len(certified) = commits \div Gate
  /\ snap_id_counter = Len(certified) + 1
  /\ snap.state = "PENDING" /\ snap.id = snap_id_counter
  /\ \A k \in DOMAIN certified :
       certified[k].id = k /\ certified[k].commits = k * Gate
       /\ Cardinality(certified[k].ops) = k * Gate

\* What the lanes owe the operations: only those that the file system refused are
\* missing, and none is doubled or reordered between process, batch and file, before
\* a close and after it, and over restarts.
LanesLoseOnlyRefused ==
  WireTypeOK /\ LaneFaithful /\ CloseEmptiesBatches /\ WrittenAtMostOnce
=============================================================================
