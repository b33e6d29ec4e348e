------------------------------ MODULE DetachLane ------------------------------
(***************************************************************************)
(* src/pogls_detach_lane.h: the ring that takes anomalies off the main     *)
(* path, its flush pass, the flush thread, and start / stop / drain.       *)
(*                                                                         *)
(* Unlike the ghost ring (GhostAsyncRing) it never refuses: on a full ring *)
(* the producer stores tail itself, to drop the oldest entry, and so does  *)
(* the consumer after every batch.  Every load or store of head, tail and  *)
(* running is one action, and filling a slot is two, so that a half-       *)
(* written entry (Torn) can be copied.  An entry is the ordinal of its     *)
(* push; `accepted` and `out` are history: the entries published and what  *)
(* reached the delta lane and the mesh.  The counters that nothing reads   *)
(* back (pushed, flushed, reasons) are left out.                           *)
(***************************************************************************)
EXTENDS Integers, Sequences

CONSTANTS
  Size,       \* DETACH_RING_SIZE
  Batch,      \* DETACH_FLUSH_BATCH
  Laps,       \* 2^32 / DETACH_RING_SIZE
  First,      \* index at which the empty ring starts: 0 after init, any later
              \* one after that many entries have gone through
  MaxPush,    \* bound: entries pushed in a behaviour
  MaxStart    \* bound: threads started in a behaviour

ASSUME LaneAssumption ==
  /\ Size \in Nat \ {0} /\ Batch \in 1 .. Size
  /\ Laps \in Nat /\ Laps >= 2 /\ First \in 0 .. (Laps * Size - 1)
  /\ MaxPush \in Nat /\ MaxStart \in Nat

VARIABLES
  head, tail,          \* uint32 ring indices; both threads store tail
  slots,               \* ring[]
  overflows,           \* stats.overflows
  running, started,    \* the stop flag, thread_started
  main, loaded,        \* where the main thread is; push's local tail
  thread,              \* where the flush thread is
  cons,                \* where the flush pass in progress is
  ctail, avail, batch, \* locals of the flush pass
  accepted, out, starts \* history

pushvars == << main, loaded >>
control  == << running, started, thread >>
passvars == << cons, ctail, avail, batch >>
lane_history == << accepted, out, starts >>
lanevars == << head, tail, slots, overflows, pushvars, control, passvars, lane_history >>

-----------------------------------------------------------------------------
Torn == 0
Wrap == Laps * Size                \* 2^32

Slot(index)       == index % Size
Advance(index, n) == (index + n) % Wrap
Ahead(h, tl)      == (h - tl) % Wrap     \* (uint32_t)(h - t)
Lesser(a, b)      == IF a <= b THEN a ELSE b

LaneTypeOK ==
  /\ head \in 0 .. (Wrap - 1) /\ tail \in 0 .. (Wrap - 1)
  /\ slots \in [0 .. (Size - 1) -> Nat]
  /\ overflows \in Nat
  /\ running \in BOOLEAN /\ started \in BOOLEAN
  /\ main \in {"idle", "full", "write", "torn", "filled", "join", "drain"}
  /\ loaded \in 0 .. (Wrap - 1)
  /\ thread \in {"none", "test", "pass", "final", "done"}
  /\ cons \in {"rest", "head", "copy", "deliver"}
  /\ ctail \in 0 .. (Wrap - 1) /\ avail \in 0 .. Batch
  /\ batch \in Seq(Nat) /\ Len(batch) <= avail
  /\ accepted \in Nat /\ out \in Seq(Nat) /\ starts \in Nat

\* detach_lane_init, or a ring long in use and empty.
LaneInit ==
  /\ head = First /\ tail = First
  /\ slots = [s \in 0 .. (Size - 1) |-> Torn]
  /\ overflows = 0 /\ running = FALSE /\ started = FALSE
  /\ main = "idle" /\ loaded = 0 /\ thread = "none"
  /\ cons = "rest" /\ ctail = 0 /\ avail = 0 /\ batch = << >>
  /\ accepted = 0 /\ out = << >> /\ starts = 0

-----------------------------------------------------------------------------
(* detach_lane_push, by the main thread. *)

\* The loads of head and tail, and the full test on what was loaded.
BeginPush ==
  /\ main = "idle" /\ accepted < MaxPush
  /\ loaded' = tail
  /\ main' = IF Ahead(head, tail) >= Size THEN "full" ELSE "write"
  /\ UNCHANGED << head, tail, slots, overflows, control, passvars, lane_history >>

DropOldest_toHead ==
  /\ main = "full"
  /\ tail' = head
  /\ overflows' = overflows + 1
  /\ main' = "write"
  /\ UNCHANGED << head, slots, loaded, control, passvars, lane_history >>

\* Full: store the loaded tail plus one, whatever tail is by now.
DropOldest ==
  /\ main = "full"
  /\ tail' = Advance(loaded, 1)
  /\ overflows' = overflows + 1
  /\ main' = "write"
  /\ UNCHANGED << head, slots, loaded, control, passvars, lane_history >>

\* The first fields of the entry are written ...
TearSlot ==
  /\ main = "write"
  /\ slots' = [slots EXCEPT ![Slot(head)] = Torn]
  /\ main' = "torn"
  /\ UNCHANGED << head, tail, overflows, loaded, control, passvars, lane_history >>

\* ... and the last.
FillSlot ==
  /\ main = "torn"
  /\ slots' = [slots EXCEPT ![Slot(head)] = accepted + 1]
  /\ main' = "filled"
  /\ UNCHANGED << head, tail, overflows, loaded, control, passvars, lane_history >>

\* The release store of head.
PublishHead ==
  /\ main = "filled"
  /\ head' = Advance(head, 1)
  /\ accepted' = accepted + 1
  /\ main' = "idle"
  /\ UNCHANGED << tail, slots, overflows, loaded, control, passvars, out, starts >>

-----------------------------------------------------------------------------
(* detach_flush_pass, by the flush thread or by detach_lane_drain. *)

Flushing == thread \in {"pass", "final"} \/ main = "drain"

AfterPass_onePassOnly(n) ==
  /\ thread' = IF thread = "pass" THEN "test"
               ELSE IF thread = "final" THEN "done" ELSE thread
  /\ main' = IF main = "drain" THEN "idle" ELSE main

\* A pass of n entries returns to the loop test, or, in the shutdown loop and in
\* detach_lane_drain, goes round again while batches are full.
AfterPass(n) ==
  /\ thread' = IF thread = "pass" THEN "test"
               ELSE IF thread = "final" /\ n < Batch THEN "done" ELSE thread
  /\ main' = IF main = "drain" /\ n < Batch THEN "idle" ELSE main

\* The plain load of tail.
ReadTail ==
  /\ Flushing /\ cons = "rest"
  /\ ctail' = tail /\ cons' = "head"
  /\ UNCHANGED << head, tail, slots, overflows, pushvars, control, avail, batch,
                  lane_history >>

\* The acquire load of head, and nothing to do ...
EmptyPass ==
  /\ cons = "head" /\ Ahead(head, ctail) = 0
  /\ cons' = "rest"
  /\ AfterPass(0)
  /\ UNCHANGED << head, tail, slots, overflows, loaded, running, started, ctail, avail,
                  batch, lane_history >>

\* ... or a batch.
BeginPass ==
  /\ cons = "head" /\ Ahead(head, ctail) # 0
  /\ avail' = Lesser(Ahead(head, ctail), Batch)
  /\ cons' = "copy"
  /\ UNCHANGED << head, tail, slots, overflows, pushvars, control, ctail, batch,
                  lane_history >>

CopySlot ==
  /\ cons = "copy" /\ Len(batch) < avail
  /\ batch' = Append(batch, slots[Slot(ctail + Len(batch))])
  /\ UNCHANGED << head, tail, slots, overflows, pushvars, control, cons, ctail,
                  avail, lane_history >>

StoreTail_toHead ==
  /\ cons = "copy" /\ Len(batch) = avail
  /\ tail' = head
  /\ cons' = "deliver"
  /\ UNCHANGED << head, slots, overflows, pushvars, control, ctail, avail, batch,
                  lane_history >>

\* The release store of tail, over whatever the producer stored meanwhile.
StoreTail ==
  /\ cons = "copy" /\ Len(batch) = avail
  /\ tail' = Advance(ctail, avail)
  /\ cons' = "deliver"
  /\ UNCHANGED << head, slots, overflows, pushvars, control, ctail, avail, batch,
                  lane_history >>

\* delta_append and the mesh callback, after the slots were given back.
Deliver ==
  /\ cons = "deliver"
  /\ out' = out \o batch
  /\ cons' = "rest" /\ avail' = 0 /\ batch' = << >>
  /\ AfterPass(avail)
  /\ UNCHANGED << head, tail, slots, overflows, loaded, running, started, ctail, accepted,
                  starts >>

-----------------------------------------------------------------------------
(* The flush thread: while (running) { pass; sleep }, then the shutdown loop. *)

TestRunning ==
  /\ thread = "test"
  /\ thread' = IF running THEN "pass" ELSE "final"
  /\ UNCHANGED << head, tail, slots, overflows, pushvars, running, started,
                  passvars, lane_history >>

(* start, stop and drain, by the main thread; drain is the foreground one,   *)
(* called while there is no thread.                                          *)

\* pthread_create may fail: running stays set and there is no thread.
Start ==
  /\ main = "idle" /\ ~started /\ starts < MaxStart
  /\ running' = TRUE /\ starts' = starts + 1
  /\ \/ started' = TRUE /\ thread' = "test"
     \/ UNCHANGED << started, thread >>
  /\ UNCHANGED << head, tail, slots, overflows, pushvars, passvars, accepted, out >>

Stop_flagKept ==
  /\ main = "idle" /\ started
  /\ main' = "join"
  /\ UNCHANGED << head, tail, slots, overflows, loaded, started, running, thread, passvars,
                  lane_history >>

Stop ==
  /\ main = "idle" /\ started
  /\ running' = FALSE /\ main' = "join"
  /\ UNCHANGED << head, tail, slots, overflows, loaded, started, thread, passvars,
                  lane_history >>

Join ==
  /\ main = "join" /\ thread = "done"
  /\ thread' = "none" /\ started' = FALSE /\ main' = "idle"
  /\ UNCHANGED << head, tail, slots, overflows, loaded, running, passvars, lane_history >>

Drain ==
  /\ main = "idle" /\ ~started
  /\ main' = "drain"
  /\ UNCHANGED << head, tail, slots, overflows, loaded, control, passvars, lane_history >>

-----------------------------------------------------------------------------
Push == BeginPush \/ DropOldest \/ TearSlot \/ FillSlot \/ PublishHead
FlushPass == ReadTail \/ EmptyPass \/ BeginPass \/ CopySlot \/ StoreTail \/ Deliver

LaneNext == Push \/ FlushPass \/ TestRunning \/ Start \/ Stop \/ Join \/ Drain

\* What has begun runs on: both threads are scheduled and only join waits.
\* Nothing obliges the main thread to begin a push, a start, a stop or a drain.
Fairness ==
  /\ WF_lanevars(DropOldest \/ TearSlot \/ FillSlot \/ PublishHead \/ Join)
  /\ WF_lanevars(FlushPass)
  /\ WF_lanevars(TestRunning)

LaneSpec == LaneInit /\ [][LaneNext]_lanevars
FairSpec == LaneSpec /\ Fairness

-----------------------------------------------------------------------------
\* Until the ring first overflows, what reaches the delta lane is what was
\* pushed: whole, once, in order.
FaithfulUntilOverflow ==
  overflows = 0 => \A i \in 1 .. Len(out) : out[i] = i

\* Whatever the two writers of tail do to each other, dropping takes old entries
\* only: each of the Size newest is delivered, or in the batch about to be, or
\* still between tail and head.
BeingPushed == main \in {"write", "torn", "filled"}
Newest == {n \in 1 .. accepted : n > accepted - (IF BeingPushed THEN Size - 1 ELSE Size)}

NewestNeverLost ==
  \A n \in Newest :
    \/ Ahead(head, tail) >= accepted - n + 1
    \/ \E i \in DOMAIN out : out[i] = n
    \/ cons = "deliver" /\ \E i \in DOMAIN batch : batch[i] = n

\* detach_lane_stop and detach_lane_drain return only when the ring is empty,
\* overflows or not: the shutdown loop and drain go on while batches are full.
StopEmpties ==
  [][(main \in {"join", "drain"} /\ main' = "idle") => (head' = tail')]_lanevars

\* detach_lane_stop returns: the worker reads `running` once more after each pass,
\* and the pass it is in ends.
StopReturns == (main = "join") ~> (main = "idle")

\* Pushed entries are delivered as they came, until the ring is full.
DeliveredAsPushed == LaneTypeOK /\ FaithfulUntilOverflow
=============================================================================
