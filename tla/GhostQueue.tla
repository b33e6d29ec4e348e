----------------------------- MODULE GhostQueue -----------------------------
(***************************************************************************)
(* What the ghost path promises its caller, with no ring, no indices and   *)
(* no threads: a bounded FIFO of the entries it accepted, emptied in       *)
(* batches, each batch handed to the drain callback once.  An entry is the *)
(* ordinal of its acceptance, so that loss, duplication and reordering are *)
(* all visible in `out`.                                                   *)
(***************************************************************************)
EXTENDS Integers, Sequences

CONSTANTS
  Size,         \* entries the queue holds (GHOST_RING_SIZE)
  Batch,        \* largest batch handed over (GHOST_DRAIN_BATCH)
  MaxPush,      \* bound: entries accepted in a behaviour
  MaxOverflow   \* bound: entries refused in a behaviour

VARIABLES
  queue,        \* accepted, not yet taken by a drain
  inflight,     \* taken, not yet seen by the callback
  out,          \* seen by the callback, in order
  accepted,     \* number of entries accepted
  overflows     \* number of entries refused

vars == << queue, inflight, out, accepted, overflows >>

Init ==
  /\ queue = << >> /\ inflight = << >> /\ out = << >>
  /\ accepted = 0 /\ overflows = 0

Accept ==
  /\ Len(queue) < Size
  /\ accepted < MaxPush
  /\ accepted' = accepted + 1
  /\ queue' = Append(queue, accepted + 1)
  /\ UNCHANGED << inflight, out, overflows >>

\* Only a full queue refuses; the caller then writes inline.
Refuse ==
  /\ Len(queue) = Size
  /\ overflows < MaxOverflow
  /\ overflows' = overflows + 1
  /\ UNCHANGED << queue, inflight, out, accepted >>

Take(n) ==
  /\ inflight = << >>
  /\ n \in 1 .. Batch /\ n <= Len(queue)
  /\ inflight' = [i \in 1 .. n |-> queue[i]]
  /\ queue' = [i \in 1 .. (Len(queue) - n) |-> queue[n + i]]
  /\ UNCHANGED << out, accepted, overflows >>

HandOver ==
  /\ inflight # << >>
  /\ out' = out \o inflight
  /\ inflight' = << >>
  /\ UNCHANGED << queue, accepted, overflows >>

Next == Accept \/ Refuse \/ (\E n \in 1 .. Batch : Take(n)) \/ HandOver

Spec == Init /\ [][Next]_vars
=============================================================================
