----------------------------- MODULE EngineBridge -----------------------------
(***************************************************************************)
(* src/bridge/pogls_engine_bridge.h: the write path of V3.8.  A write      *)
(* ticks the face of its node, is staged, and is flushed with its batch:   *)
(* audited, appended to a lane of its world, committed every few flushes.  *)
(* The delta context, the audit, the ExecWindow and the adapt engine are   *)
(* in headers the repository lacks: lanes that append and commit, any      *)
(* verdict, a window that expires at any write, ticks without a hit and    *)
(* completed wake-ups at any time.  br->rewind is NULL, as init leaves it; *)
(* the branch that uses it reads `world` before its declaration and does   *)
(* not compile.  Predictor, frontier, temporal bridge and node counters    *)
(* are never read back by the write path, and are left out.                *)
(***************************************************************************)
EXTENDS FaceOps, Sequences

CONSTANTS
  Batch,        \* BRIDGE_BATCH_SIZE
  CommitBatch,  \* BRIDGE_COMMIT_BATCH, and the literal 4 of line 352
  MaxOps,       \* bound: writes
  MaxTicks      \* bound: ticks of the adapt engine

ASSUME BridgeAssumption ==
  /\ Batch \in Nat \ {0} /\ CommitBatch \in Nat /\ CommitBatch >= 2
  /\ MaxOps \in Nat /\ MaxTicks \in Nat

Worlds == {"A", "B"}

VARIABLES
  is_open,
  pending,      \* the staged writes, in order, each with its world
  ew_flushes, flush_count,
  delta_lane,   \* per world, the writes appended to its delta lanes
  committed,    \* per world, how many of them are committed
  node_face,    \* face_state.nodes: state, activity and last_tick
  bridge_tick,
  \* History.
  ops,          \* ops_total, which numbers the writes
  ejected,      \* writes that the audit ejected
  woken,        \* face_wakes
  idles         \* ticks of the adapt engine

delta  == << delta_lane, committed >>
faces  == << node_face, bridge_tick, woken, idles >>
bridge == << is_open, pending, ew_flushes, flush_count, delta, faces, ops, ejected >>

\* engine_bridge_init
BridgeInit ==
  /\ is_open = TRUE
  /\ pending = << >> /\ ew_flushes = 0 /\ flush_count = 0
  /\ delta_lane = [w \in Worlds |-> << >>] /\ committed = [w \in Worlds |-> 0]
  /\ node_face = [n \in FaceIds |-> [state |-> "NORMAL", activity |-> 0, last_tick |-> 0]]
  /\ bridge_tick = 0
  /\ ops = 0 /\ ejected = {} /\ woken = 0 /\ idles = 0

-----------------------------------------------------------------------------
\* The writes of world w in batch that the audit lets through, one after the other.
Passed(batch, w, out) ==
  LET through[i \in 0 .. Len(batch)] ==
        IF i = 0 THEN << >>
        ELSE IF batch[i].world = w /\ batch[i].id \notin out
        THEN Append(through[i - 1], batch[i].id) ELSE through[i - 1]
  IN  through[Len(batch)]

Ids(batch) == {batch[i].id : i \in DOMAIN batch}

\* Line 352 counts a flush twice and tests after the first count; line 362 counts
\* once and tests.
CommitsNow_firstTestOnly == (ew_flushes + 1) % CommitBatch = 0

CommitsNow ==
  \/ (ew_flushes + 1) % CommitBatch = 0
  \/ (flush_count + 1) % CommitBatch = 0

Drained_unlessFull(staged) == IF Len(staged) = Batch THEN << >> ELSE staged

Drained(staged) == << >>

\* _bridge_flush_pending over the staged writes, of which fold_batch_verify ejects
\* out; alone are the worlds that the caller commits after it.
FlushPending(staged, out, alone) ==
  /\ delta_lane' = [w \in Worlds |-> delta_lane[w] \o Passed(staged, w, out)]
  /\ committed' = [w \in Worlds |->
       IF CommitsNow \/ w \in alone THEN Len(delta_lane'[w]) ELSE committed[w]]
  /\ ejected' = ejected \cup out
  /\ ew_flushes' = ew_flushes + 2 /\ flush_count' = flush_count + 1
  /\ pending' = Drained(staged)

\* Step 1c.  The face is ticked with a hit, and woken if it is a GHOST even so.
TickFace(n) ==
  LET f == Ticked(n, node_face[n], TRUE, bridge_tick + 1)
  IN  /\ bridge_tick' = bridge_tick + 1
      /\ node_face' = [node_face EXCEPT ![n] =
           IF f.state = "GHOST" THEN [f EXCEPT !.state = "NORMAL"] ELSE f]
      /\ woken' = IF f.state = "GHOST" THEN woken + 1 ELSE woken
      /\ idles' = idles

\* hs_engine_write_v38 to node n.  The guard against an overfull batch, line 447, never
\* applies: a full batch is flushed by the write that fills it, line 465.
Write(n, w) ==
  /\ is_open /\ ops < MaxOps
  /\ ops' = ops + 1
  /\ TickFace(n)
  /\ LET staged == Append(pending, [id |-> ops + 1, world |-> w])
     IN  \/ \E out \in SUBSET Ids(staged) : FlushPending(staged, out, {})
         \/ /\ Len(staged) < Batch
            /\ pending' = staged
            /\ UNCHANGED << ew_flushes, flush_count, delta, ejected >>
  /\ UNCHANGED is_open

\* engine_bridge_flush_all flushes what there is and commits world A, not B.
FlushAll ==
  \/ /\ pending # << >>
     /\ \E out \in SUBSET Ids(pending) : FlushPending(pending, out, {"A"})
  \/ /\ pending = << >>
     /\ committed' = [committed EXCEPT !["A"] = Len(delta_lane["A"])]
     /\ UNCHANGED << pending, ew_flushes, flush_count, delta_lane, ejected >>

Checkpoint ==
  /\ is_open /\ FlushAll
  /\ UNCHANGED << is_open, faces, ops >>

\* engine_bridge_close
Close ==
  /\ is_open /\ FlushAll
  /\ is_open' = FALSE
  /\ UNCHANGED << faces, ops >>

\* The adapt engine ticks a face that was not accessed, or completes its wake-up.
IdleTick(n) ==
  /\ idles < MaxTicks /\ idles' = idles + 1
  /\ node_face' = [node_face EXCEPT ![n] = Ticked(n, @, FALSE, bridge_tick)]
  /\ UNCHANGED << is_open, pending, ew_flushes, flush_count, delta, bridge_tick, woken,
                  ops, ejected >>

\* fstate_wake_complete
WakeComplete(n) ==
  /\ node_face[n].state = "WAKING"
  /\ node_face' = [node_face EXCEPT ![n].state = "NORMAL"]
  /\ UNCHANGED << is_open, pending, ew_flushes, flush_count, delta, bridge_tick, woken,
                  idles, ops, ejected >>

BridgeNext ==
  \/ \E n \in FaceIds, w \in Worlds : Write(n, w)
  \/ Checkpoint \/ Close
  \/ \E n \in FaceIds : IdleTick(n) \/ WakeComplete(n)

BridgeSpec == BridgeInit /\ [][BridgeNext]_bridge

-----------------------------------------------------------------------------
\* Every write is staged, in the lane of its world or ejected, once and in order,
\* whatever mix of full batches, expired windows and checkpoints flushed it; a
\* closed bridge has staged nothing.
EachOnceInItsWorld ==
  LET staged(w) == Passed(pending, w, {})
      all(w)    == delta_lane[w] \o staged(w)
      Of(q)     == {q[i] : i \in DOMAIN q}
  IN  /\ \A w \in Worlds : \A i, j \in DOMAIN all(w) : i < j => all(w)[i] < all(w)[j]
      /\ Of(all("A")) \cap Of(all("B")) = {}
      /\ ejected \cap (Of(all("A")) \cup Of(all("B"))) = {}
      /\ Of(all("A")) \cup Of(all("B")) \cup ejected = 1 .. ops
      /\ ~is_open => pending = << >>

\* "Keeping [the] crash window small" (line 361): between two calls, what the two
\* worlds hold uncommitted comes from fewer flushes than BRIDGE_COMMIT_BATCH, be
\* they checkpoints, which commit one world, or not.
CrashWindow ==
  Len(delta_lane["A"]) - committed["A"] + Len(delta_lane["B"]) - committed["B"]
    <= (CommitBatch - 1) * Batch

\* Two transitions of the faces that the code provides for never happen.  A hot face
\* stays hot however long it is idle: the activity stops decaying while it still
\* counts as hot (line 181 of pogls_face_state.h).  And a write never wakes a GHOST
\* (line 405): the tick before it has already moved it to WAKING, where it stays
\* until somebody else completes the wake-up.
DeadTransitions ==
  /\ \A n \in FaceIds : node_face[n].state = "ACTIVE_LOOP" => node_face[n].activity > SplitThresh
  /\ woken = 0
=============================================================================
