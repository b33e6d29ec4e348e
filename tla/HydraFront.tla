------------------------------ MODULE HydraFront ------------------------------
(***************************************************************************)
(* The three stages in front of the heads: the token bucket of             *)
(* src/hydra/pogls_rate_limiter.h, the weighted choice of a head of        *)
(* src/hydra/pogls_hydra_weight.h, and the per-head batches of             *)
(* src/hydra/pogls_hydra_batch.h.  The caller, who is not in the           *)
(* repository, does what their comments say: acquire, route, update the    *)
(* weight of the head, push to its batch.  dispatch_cb is set (without it  *)
(* the push after a full slot writes behind the slot).  Iteration history  *)
(* is kept but never read by the route, and is left out with the           *)
(* statistics.                                                             *)
(***************************************************************************)
EXTENDS Integers, Sequences

CONSTANTS
  HS_HEADS,     \* heads to choose from
  HitLoad,      \* the 8 that hydra_weight_hit adds
  WeightMax,    \* HYDRA_WEIGHT_MAX
  WeightShare,  \* 2^HYDRA_WEIGHT_DECAY_SHIFT
  DistScale,    \* the 16 that a step of distance counts
  BatchSize,    \* HB_BATCH_SIZE
  Rate,         \* max_rate
  Second,       \* the units of time in 1000000000 ns
  MaxSubmits,   \* bound: operations submitted
  MaxTime       \* bound: the clock

ASSUME FrontAssumption ==
  /\ HS_HEADS \in Nat \ {0} /\ HitLoad \in Nat /\ WeightMax \in Nat
  /\ WeightShare \in Nat \ {0} /\ DistScale \in Nat
  /\ BatchSize \in Nat \ {0} /\ Rate \in Nat /\ Second \in Nat \ {0}
  /\ MaxSubmits \in Nat /\ MaxTime \in Nat

HSHeads == 0 .. (HS_HEADS - 1)

VARIABLES
  tokens, last_refill,
  now,         \* CLOCK_MONOTONIC
  weight,
  slot,        \* per head, the operations of its HBSlot
  hb_active,   \* heads whose slot is active
  dispatched,  \* per head, the operations that dispatch_cb was given with it, in order
  \* History.
  ops,         \* operations submitted, which numbers them
  grants,      \* when each token was granted
  taken        \* per head, the operations pushed to it, in order

bucket  == << tokens, last_refill, grants >>
batches == << slot, hb_active, dispatched, taken >>
front    == << bucket, now, weight, batches, ops >>

FrontInit ==
  /\ tokens = Rate /\ last_refill = 0 /\ now = 0
  /\ weight = [h \in HSHeads |-> 0]
  /\ slot = [h \in HSHeads |-> << >>] /\ hb_active = {}
  /\ dispatched = [h \in HSHeads |-> << >>]
  /\ ops = 0 /\ grants = << >> /\ taken = [h \in HSHeads |-> << >>]

-----------------------------------------------------------------------------
Refilled_roundedUp ==
  LET more == (Rate * (now - last_refill) + Second - 1) \div Second
  IN  IF tokens + more > Rate THEN Rate ELSE tokens + more

\* rl_refill: what does not make a whole token is lost with the time it took.
Refilled ==
  LET more == (Rate * (now - last_refill)) \div Second
  IN  IF tokens + more > Rate THEN Rate ELSE tokens + more

\* rl_try_acquire of one token; rl_acquire repeats it until it is granted.
Acquired == Refilled >= 1

Acquire ==
  /\ tokens' = IF Acquired THEN Refilled - 1 ELSE Refilled
  /\ last_refill' = now
  /\ grants' = IF Acquired THEN Append(grants, now) ELSE grants

-----------------------------------------------------------------------------
\* _phi_distance, around the circle of the heads from the head the address hashes to.
Distance(home, h) ==
  LET diff == IF home < h THEN h - home ELSE home - h
  IN  IF diff > HS_HEADS \div 2 THEN HS_HEADS - diff ELSE diff

Score_nearest(home, h) == DistScale * Distance(home, h)

Score(home, h) == DistScale * Distance(home, h) + weight[h]

\* hs_route_weighted: the first of the heads with the lowest score.
IsRoute(home, h) ==
  \A g \in HSHeads : Score(home, h) <= Score(home, g)
                     /\ (g < h => Score(home, h) < Score(home, g))

\* hydra_weight_hit
Heavier(w) == IF w + HitLoad > WeightMax THEN WeightMax ELSE w + HitLoad

\* hydra_weight_decay
Lighter(w) == w - w \div WeightShare

-----------------------------------------------------------------------------
Full_oneLate(queue) == (Len(queue) - 1) \div BatchSize

\* How many full batches queue makes: a slot is dispatched as it becomes full.
Full(queue) == Len(queue) \div BatchSize

\* hydra_batch_push of each of new to head h: hydra_batch_push_multi, or one push.
PushMulti(h, new) ==
  LET queue == slot[h] \o new
      out   == BatchSize * Full(queue)
  IN  \/ h \notin hb_active /\ UNCHANGED batches
      \/ /\ h \in hb_active
         /\ dispatched' = [dispatched EXCEPT ![h] = @ \o SubSeq(queue, 1, out)]
         /\ slot' = [slot EXCEPT ![h] = SubSeq(queue, out + 1, Len(queue))]
         /\ taken' = [taken EXCEPT ![h] = @ \o new]
         /\ hb_active' = hb_active

\* An operation, or a run of them for one head, is submitted and dispatched at once if
\* that fills a batch.  hydra_routing_update counts the run as one hit.
Submit(home, n) ==
  /\ ops + n <= MaxSubmits /\ ops' = ops + n
  /\ Acquire
  /\ \/ ~Acquired /\ UNCHANGED << weight, batches >>
     \/ /\ Acquired
        /\ \E h \in HSHeads :
             /\ IsRoute(home, h)
             /\ weight' = [weight EXCEPT ![h] = Heavier(@)]
             /\ PushMulti(h, [i \in 1 .. n |-> ops + i])
  /\ now' = now

\* _hb_dispatch of the slots of heads.
Flush(heads) ==
  /\ dispatched' = [h \in HSHeads |->
       IF h \in heads THEN dispatched[h] \o slot[h] ELSE dispatched[h]]
  /\ slot' = [h \in HSHeads |-> IF h \in heads THEN << >> ELSE slot[h]]
  /\ taken' = taken

\* hydra_batch_flush_head
FlushHead(h) ==
  /\ slot[h] # << >>
  /\ Flush({h})
  /\ UNCHANGED << bucket, now, weight, hb_active, ops >>

\* hydra_batch_flush_all, called before pipeline_wire_close: of the active heads only.
FlushAll ==
  /\ Flush(hb_active)
  /\ UNCHANGED << bucket, now, weight, hb_active, ops >>

\* hydra_batch_activate
Activate(h) ==
  /\ h \notin hb_active /\ hb_active' = hb_active \cup {h}
  /\ UNCHANGED << bucket, now, weight, slot, dispatched, taken, ops >>

\* hydra_batch_deactivate
Deactivate(h) ==
  /\ h \in hb_active /\ hb_active' = hb_active \ {h}
  /\ Flush({h})
  /\ UNCHANGED << bucket, now, weight, ops >>

\* hydra_weight_decay, at a tick of the topology.
Decay ==
  /\ weight' = [h \in HSHeads |-> Lighter(weight[h])]
  /\ UNCHANGED << bucket, now, batches, ops >>

Elapse ==
  /\ now < MaxTime /\ now' = now + 1
  /\ UNCHANGED << bucket, weight, batches, ops >>

FrontNext ==
  \/ \E home \in HSHeads, n \in 1 .. MaxSubmits : Submit(home, n)
  \/ \E h \in HSHeads : FlushHead(h) \/ Activate(h) \/ Deactivate(h)
  \/ FlushAll \/ Decay \/ Elapse

-----------------------------------------------------------------------------
\* However pushes, full batches, partial flushes and deactivations alternate, each
\* operation that a head took has been dispatched with that head, or is in its
\* slot, once and in order; a slot never holds a whole batch (one more push would
\* write behind it), and an inactive one, which flush_all skips, holds nothing.
OpsOnceInOrder ==
  \A h \in HSHeads :
    /\ taken[h] = dispatched[h] \o slot[h]
    /\ Len(slot[h]) < BatchSize
    /\ h \notin hb_active => slot[h] = << >>

\* In any stretch of time no more tokens are granted than the bucket holds and the
\* rate earns in it, however the requests and refills fall into it.
RateIsKept ==
  \A i, j \in DOMAIN grants :
    i <= j => j - i + 1 <= Rate + (Rate * (grants[j] - grants[i])) \div Second

\* Routed load spreads: no head is ahead of another by more than the farthest
\* distance counts and one hit, because a farther head is taken before; decay never
\* widens a gap.  The weights alone, which saturate, would say nothing.
LoadSpread ==
  \A h, g \in HSHeads : weight[h] - weight[g] <= DistScale * (HS_HEADS \div 2) + HitLoad
=============================================================================
