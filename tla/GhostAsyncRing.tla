--------------------------- MODULE GhostAsyncRing ---------------------------
(***************************************************************************)
(* src/pogls_ghost_async.h: the lock-free single-producer single-consumer  *)
(* ring that takes GHOST writes off the main path, its drain pass, the     *)
(* drain thread and start / stop / drain_foreground.                       *)
(*                                                                         *)
(* Two threads: the main thread (push, start, stop, drain_foreground) and  *)
(* the drain thread.  Every load or store of a field the two share is one  *)
(* action; filling a slot is two, so that a half-written entry (Torn) is a *)
(* state the other thread can observe.  An entry is the ordinal of the     *)
(* push that wrote it.  `accepted` and `out` are history: the entries      *)
(* published so far and the entries the callback has seen.                 *)
(***************************************************************************)
EXTENDS Integers, Sequences

CONSTANTS
  Size,         \* GHOST_RING_SIZE
  Batch,        \* GHOST_DRAIN_BATCH
  Laps,         \* 2^32 / GHOST_RING_SIZE: ring laps before an index wraps
  MaxPush,      \* bound: entries accepted in a behaviour
  MaxOverflow   \* bound: pushes refused in a behaviour

ASSUME RingAssumption ==
  /\ Size \in Nat \ {0}
  /\ Batch \in 1 .. Size
  /\ Laps \in Nat /\ Laps >= 2
  /\ MaxPush \in Nat /\ MaxOverflow \in Nat

VARIABLES
  head, tail,   \* uint32 ring indices, compared only through their difference
  slots,        \* ring[]
  pushed, drained, overflows,     \* the counters of ghost_async_stats
  running,      \* the flag that stop() clears
  started,      \* thread_started
  main,         \* where the main thread is
  thread,       \* where the drain thread is
  cons,         \* where the drain pass in progress is
  avail, batch, \* locals of the drain pass
  accepted, out \* history

counters == << pushed, drained, overflows >>
control  == << running, started >>
passvars == << cons, avail, batch >>
vars == << head, tail, slots, counters, control, main, thread, passvars, accepted,
           out >>

-----------------------------------------------------------------------------
Torn == 0
Wrap == Laps * Size                     \* 2^32

Slot(index) == index % Size             \* index & GHOST_RING_MASK
Advance(index, n) == (index + n) % Wrap
Occupied == (head - tail) % Wrap        \* (uint32_t)(head - tail)
Lesser(a, b) == IF a <= b THEN a ELSE b

\* Between operations the main thread is at "idle"; the drain pass at "rest".
MainAt  == {"idle", "checked", "torn", "filled", "count", "drain", "join"}
ThreadAt == {"none", "test", "pass", "final", "done"}
ConsAt  == {"rest", "copy", "deliver"}

TypeOK ==
  /\ head \in 0 .. (Wrap - 1) /\ tail \in 0 .. (Wrap - 1)
  /\ slots \in [0 .. (Size - 1) -> Nat]
  /\ pushed \in Nat /\ drained \in Nat /\ overflows \in Nat
  /\ running \in BOOLEAN /\ started \in BOOLEAN
  /\ main \in MainAt /\ thread \in ThreadAt /\ cons \in ConsAt
  /\ avail \in 0 .. Batch
  /\ batch \in Seq(Nat) /\ Len(batch) <= avail
  /\ accepted \in Nat
  /\ out \in Seq(Nat)

\* ghost_async_init on a zeroed ring.
Init ==
  /\ head = 0 /\ tail = 0
  /\ slots = [s \in 0 .. (Size - 1) |-> Torn]
  /\ pushed = 0 /\ drained = 0 /\ overflows = 0
  /\ running = FALSE /\ started = FALSE
  /\ main = "idle" /\ thread = "none" /\ cons = "rest"
  /\ avail = 0 /\ batch = << >>
  /\ accepted = 0 /\ out = << >>

-----------------------------------------------------------------------------
(* ghost_async_push, by the main thread.  An operator named Action_mistake   *)
(* is no part of the specification: it is the action with a plausible slip,  *)
(* put in its place to see that some property notices.                       *)

\* Full: count the overflow and return 0.
Refuse ==
  /\ main = "idle" /\ Occupied >= Size
  /\ overflows < MaxOverflow
  /\ overflows' = overflows + 1
  /\ UNCHANGED << head, tail, slots, pushed, drained, control, main, thread,
                  passvars, accepted, out >>

BeginPush_fullTestOffByOne ==
  /\ main = "idle" /\ Occupied <= Size /\ accepted < MaxPush
  /\ main' = "checked"
  /\ UNCHANGED << head, tail, slots, counters, control, thread, passvars, accepted,
                  out >>

\* The acquire load of tail and the test on the value loaded.
BeginPush ==
  /\ main = "idle" /\ Occupied < Size
  /\ accepted < MaxPush
  /\ main' = "checked"
  /\ UNCHANGED << head, tail, slots, counters, control, thread, passvars, accepted,
                  out >>

\* The first fields of the entry are written ...
TearSlot ==
  /\ main = "checked"
  /\ slots' = [slots EXCEPT ![Slot(head)] = Torn]
  /\ main' = "torn"
  /\ UNCHANGED << head, tail, counters, control, thread, passvars, accepted, out >>

\* ... and the last.
FillSlot ==
  /\ main = "torn"
  /\ slots' = [slots EXCEPT ![Slot(head)] = accepted + 1]
  /\ main' = "filled"
  /\ UNCHANGED << head, tail, counters, control, thread, passvars, accepted, out >>

\* The release store of head: the entry belongs to the consumer from here.
PublishHead ==
  /\ main = "filled"
  /\ head' = Advance(head, 1)
  /\ accepted' = accepted + 1
  /\ main' = "count"
  /\ UNCHANGED << tail, slots, counters, control, thread, passvars, out >>

\* pushed is counted after the entry is published.
CountPush ==
  /\ main = "count"
  /\ pushed' = pushed + 1
  /\ main' = "idle"
  /\ UNCHANGED << head, tail, slots, drained, overflows, control, thread, passvars,
                  accepted, out >>

-----------------------------------------------------------------------------
(* ghost_async_drain_pass, by the drain thread or by drain_foreground. *)

Draining == thread \in {"pass", "final"} \/ main = "drain"

AfterPass_onePassOnly(n) ==
  /\ thread' = IF thread = "pass" THEN "test"
               ELSE IF thread = "final" THEN "done" ELSE thread
  /\ main' = IF main = "drain" THEN "idle" ELSE main

\* Where the caller goes after a pass of n entries: the thread back to its loop
\* test, the thread's last pass to the end, drain_foreground on to another pass
\* as long as batches are full.
AfterPass(n) ==
  /\ thread' = IF thread = "pass" THEN "test"
               ELSE IF thread = "final" THEN "done" ELSE thread
  /\ main' = IF main = "drain" /\ n < Batch THEN "idle" ELSE main

\* avail == 0: nothing to do.
EmptyPass ==
  /\ Draining /\ cons = "rest" /\ Occupied = 0
  /\ AfterPass(0)
  /\ UNCHANGED << head, tail, slots, counters, control, passvars, accepted, out >>

BeginPass_waitsForFullBatch ==
  /\ Draining /\ cons = "rest" /\ Occupied >= Batch
  /\ avail' = Batch /\ batch' = << >> /\ cons' = "copy"
  /\ UNCHANGED << head, tail, slots, counters, control, main, thread, accepted,
                  out >>

\* The acquire load of head fixes how many entries this pass takes.
BeginPass ==
  /\ Draining /\ cons = "rest" /\ Occupied # 0
  /\ avail' = Lesser(Occupied, Batch)
  /\ batch' = << >>
  /\ cons' = "copy"
  /\ UNCHANGED << head, tail, slots, counters, control, main, thread, accepted,
                  out >>

CopySlot ==
  /\ cons = "copy" /\ Len(batch) < avail
  /\ batch' = Append(batch, slots[Slot(tail + Len(batch))])
  /\ UNCHANGED << head, tail, slots, counters, control, main, thread, cons,
                  avail, accepted, out >>

\* The release store of tail: the producer may refill the slots from here.
ReleaseSlots ==
  /\ cons = "copy" /\ Len(batch) = avail
  /\ tail' = Advance(tail, avail)
  /\ cons' = "deliver"
  /\ UNCHANGED << head, slots, counters, control, main, thread, avail, batch,
                  accepted, out >>

\* Count the batch, hand it to on_drain, return avail.
Deliver ==
  /\ cons = "deliver"
  /\ drained' = drained + avail
  /\ out' = out \o batch
  /\ cons' = "rest" /\ avail' = 0 /\ batch' = << >>
  /\ AfterPass(avail)
  /\ UNCHANGED << head, tail, slots, pushed, overflows, control, accepted >>

-----------------------------------------------------------------------------
(* The drain thread: while (running) { pass; sleep }, then one more pass. *)

TestRunning_wrongFlag ==
  /\ thread = "test"
  /\ thread' = IF started THEN "pass" ELSE "final"
  /\ UNCHANGED << head, tail, slots, counters, control, main, passvars, accepted,
                  out >>

TestRunning ==
  /\ thread = "test"
  /\ thread' = IF running THEN "pass" ELSE "final"
  /\ UNCHANGED << head, tail, slots, counters, control, main, passvars, accepted,
                  out >>

(* start, stop and drain_foreground, by the main thread.  drain_foreground   *)
(* is called only while no drain thread exists ("no thread, call manually"). *)

\* pthread_create may fail: running stays set, no thread exists.
Start ==
  /\ main = "idle" /\ ~started
  /\ running' = TRUE
  /\ \/ started' = TRUE /\ thread' = "test"
     \/ UNCHANGED << started, thread >>
  /\ UNCHANGED << head, tail, slots, counters, main, passvars, accepted, out >>

Stop ==
  /\ main = "idle" /\ started
  /\ running' = FALSE
  /\ main' = "join"
  /\ UNCHANGED << head, tail, slots, counters, started, thread, passvars, accepted,
                  out >>

\* pthread_join returns once the thread has ended.
Join ==
  /\ main = "join" /\ thread = "done"
  /\ thread' = "none" /\ started' = FALSE /\ main' = "idle"
  /\ UNCHANGED << head, tail, slots, counters, running, passvars, accepted, out >>

DrainForeground ==
  /\ main = "idle" /\ ~started
  /\ main' = "drain"
  /\ UNCHANGED << head, tail, slots, counters, control, thread, passvars, accepted,
                  out >>

-----------------------------------------------------------------------------
Push == Refuse \/ BeginPush \/ TearSlot \/ FillSlot \/ PublishHead \/ CountPush
DrainPass == EmptyPass \/ BeginPass \/ CopySlot \/ ReleaseSlots \/ Deliver

Next == Push \/ DrainPass \/ TestRunning \/ Start \/ Stop \/ Join
          \/ DrainForeground

\* An operation once begun runs on: the scheduler runs both threads, nothing in
\* them blocks except join.  No push, start or stop is ever bound to be made.
Fairness ==
  /\ WF_vars(TearSlot \/ FillSlot \/ PublishHead \/ CountPush \/ Join)
  /\ WF_vars(DrainPass)
  /\ WF_vars(TestRunning)

Spec == Init /\ [][Next]_vars
FairSpec == Spec /\ Fairness

-----------------------------------------------------------------------------
(* Entries whose slots the consumer has released. *)
Taken == Len(out) + (IF cons = "deliver" THEN avail ELSE 0)

\* The indices count entries modulo 2^32 and the producer is at most one lap
\* ahead, so the unsigned full test stays right when an index wraps.
IndicesAgree ==
  /\ head = accepted % Wrap
  /\ tail = Taken % Wrap
  /\ accepted - Taken \in 0 .. Size
  /\ main \in {"checked", "torn", "filled"} =>
       accepted - Taken < Size /\ accepted < MaxPush
  /\ cons # "rest" => accepted - Len(out) >= avail /\ avail > 0
  /\ cons = "rest" => avail = 0
  /\ cons = "deliver" => Len(batch) = avail

\* Every slot between tail and head holds the entry published into it, whole,
\* however far the producer is with the next one.
SlotsIntact ==
  \A n \in (Taken + 1) .. accepted : slots[Slot(n - 1)] = n

\* A filled slot not yet published holds the next entry.
NextIsFilled == main = "filled" => slots[Slot(head)] = accepted + 1

\* The batch being drained is the run of entries that follows what the callback
\* has seen: the copy loop reads no slot the producer is writing.
BatchIntact == \A i \in 1 .. Len(batch) : batch[i] = Len(out) + i

\* The callback sees every accepted entry once, whole and in order.
ExactlyOnceInOrder == \A i \in 1 .. Len(out) : out[i] = i

\* The ring is intact at every interleaving of the two threads: indices, slots
\* and batch agree with what was published and what was drained.  The inductive
\* invariant behind ExactlyOnceInOrder and ImplementsQueue.
RingInv ==
  /\ IndicesAgree
  /\ SlotsIntact
  /\ NextIsFilled
  /\ BatchIntact
  /\ ExactlyOnceInOrder

\* drain_foreground returns only when the ring is empty: the do-while on full
\* batches leaves nothing behind, at any backlog,
\* including what the one last pass of a stopped drain thread left behind.
ForegroundEmpties ==
  [][(main = "drain" /\ main' = "idle") => head' = tail']_vars

\* While the thread runs, an entry once published reaches the callback, unless
\* the main thread asks the drain thread to stop first.
EventuallyDrained ==
  \A n \in 1 .. MaxPush :
    (accepted >= n /\ started /\ running) ~> (Len(out) >= n \/ ~running)

\* stop() returns: the drain thread sees the cleared flag and ends, whatever
\* the backlog.
StopReturns == (main = "join") ~> (main = "idle")

\* The ring seen as the queue it implements: the window [tail, head), and the
\* batch that has left the ring but not reached the callback.
Waiting == [i \in 1 .. (accepted - Taken) |-> slots[Slot(Taken + i - 1)]]
HandedOver == IF cons = "deliver" THEN batch ELSE << >>

Queue == INSTANCE GhostQueue WITH queue <- Waiting, inflight <- HandedOver

\* Every step of the two threads is a step of the FIFO queue or invisible in it:
\* pushes refused only when full, batches bounded, nothing lost or repeated.
ImplementsQueue == Queue!Spec
=============================================================================
