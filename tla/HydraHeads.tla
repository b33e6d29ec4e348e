------------------------------ MODULE HydraHeads ------------------------------
(***************************************************************************)
(* src/hydra/pogls_hydra_dynamic.h: heads that are spawned and killed      *)
(* under a mutex, each with a ring of tasks that is pushed and popped      *)
(* without it.  A head in Busy has one thread that pushes to it and one    *)
(* that pops from it; Scalers are the threads that call dh_spawn, dh_kill  *)
(* or dh_autoscale.  The thresholds DH_QUEUE_SIZE * 3 / 4 and              *)
(* DH_QUEUE_SIZE / 4 are High and Low.                                     *)
(***************************************************************************)
EXTENDS Integers, Sequences, FiniteSets, FiniteSetsExt

CONSTANTS NumHeads, MinHeads, QueueSize, High, Low, Scalers,
          Busy,          \* the heads that have a producer and a consumer
          MaxPushes, MaxCalls

ASSUME HeadsAssumption ==
    /\ NumHeads \in Nat /\ MinHeads \in 1..NumHeads
    /\ Busy \subseteq 0..NumHeads - 1
    /\ QueueSize \in Nat \ {0, 1}
    /\ High \in Nat /\ Low \in Nat
    /\ MaxPushes \in Nat /\ MaxCalls \in Nat

Heads == 0..NumHeads - 1
Slots == 0..QueueSize - 1

VARIABLES active,        \* active_mask, as the set of the bits that are on
          heads_active,
          q_head, q_tail, tasks,
          spawning,      \* heads whose spawner is in its critical section
          push,          \* push[h]: where the call of h's producer stands
          pop,           \* pop[h]: where the call of h's consumer stands
          scaler,        \* scaler[s]: the call s has decided to make
          calls,         \* calls of scalers, bounded by MaxCalls
          accepted,      \* accepted[h]: tasks dh_push returned 0 for, in order
          popped,        \* popped[h]: tasks dh_pop handed out, in order
          settled        \* heads that no call was using when they were reset

vars == <<active, heads_active, q_head, q_tail, tasks, spawning, push, pop,
          scaler, calls, accepted, popped, settled>>
rings == <<q_head, q_tail, tasks>>
clients == <<push, pop, accepted, popped>>

Idle == [at |-> "idle", value |-> 0]
At(step, v) == [at |-> step, value |-> v]

Init ==
    /\ active = 0..MinHeads - 1
    /\ heads_active = MinHeads
    /\ q_head = [h \in Heads |-> 0]
    /\ q_tail = [h \in Heads |-> 0]
    /\ tasks = [h \in Heads |-> [i \in Slots |-> 0]]
    /\ spawning = {}
    /\ push = [h \in Heads |-> Idle]
    /\ pop = [h \in Heads |-> Idle]
    /\ scaler = [s \in Scalers |-> Idle]
    /\ calls = 0
    /\ accepted = [h \in Heads |-> <<>>]
    /\ popped = [h \in Heads |-> <<>>]
    /\ settled = 0..MinHeads - 1

Next1(i) == (i + 1) % QueueSize

-----------------------------------------------------------------------------
(* dh_push: mask, room, slot, index.  q->tail is read again for the slot.    *)

PushCheck(h) ==
    /\ push[h].at = "idle" /\ h \in active
    /\ Len(accepted[h]) < MaxPushes
    /\ push' = [push EXCEPT ![h] = At("room", 0)]
    /\ UNCHANGED <<active, heads_active, rings, spawning, pop, scaler, calls,
                   accepted, popped, settled>>

PushIsFull(h) == Next1(q_tail[h]) = q_head[h]

PushRoom(h) ==
    /\ push[h].at = "room"
    /\ push' = [push EXCEPT ![h] =
                  IF PushIsFull(h) THEN Idle ELSE At("write", Next1(q_tail[h]))]
    /\ UNCHANGED <<active, heads_active, rings, spawning, pop, scaler, calls,
                   accepted, popped, settled>>

\* A task is known by its number among the tasks of its head.
PushWrite(h) ==
    /\ push[h].at = "write"
    /\ tasks' = [tasks EXCEPT ![h][q_tail[h]] = Len(accepted[h]) + 1]
    /\ push' = [push EXCEPT ![h].at = "publish"]
    /\ UNCHANGED <<active, heads_active, q_head, q_tail, spawning, pop, scaler,
                   calls, accepted, popped, settled>>

PushPublish(h) ==
    /\ push[h].at = "publish"
    /\ q_tail' = [q_tail EXCEPT ![h] = push[h].value]
    /\ accepted' = [accepted EXCEPT ![h] = Append(@, Len(accepted[h]) + 1)]
    /\ push' = [push EXCEPT ![h] = Idle]
    /\ UNCHANGED <<active, heads_active, q_head, tasks, spawning, pop, scaler,
                   calls, popped, settled>>

(* dh_pop: mask, emptiness, slot, index.                                     *)

PopCheck(h) ==
    /\ pop[h].at = "idle" /\ h \in active
    /\ pop' = [pop EXCEPT ![h] = At("see", 0)]
    /\ UNCHANGED <<active, heads_active, rings, spawning, push, scaler, calls,
                   accepted, popped, settled>>

PopSee(h) ==
    /\ pop[h].at = "see"
    /\ pop' = [pop EXCEPT ![h] =
                 IF q_head[h] = q_tail[h] THEN Idle ELSE At("read", 0)]
    /\ UNCHANGED <<active, heads_active, rings, spawning, push, scaler, calls,
                   accepted, popped, settled>>

PopRead(h) ==
    /\ pop[h].at = "read"
    /\ pop' = [pop EXCEPT ![h] = At("advance", tasks[h][q_head[h]])]
    /\ UNCHANGED <<active, heads_active, rings, spawning, push, scaler, calls,
                   accepted, popped, settled>>

PopAdvance(h) ==
    /\ pop[h].at = "advance"
    /\ q_head' = [q_head EXCEPT ![h] = Next1(q_head[h])]
    /\ popped' = [popped EXCEPT ![h] = Append(@, pop[h].value)]
    /\ pop' = [pop EXCEPT ![h] = Idle]
    /\ UNCHANGED <<active, heads_active, q_tail, tasks, spawning, push, scaler,
                   calls, accepted, settled>>

-----------------------------------------------------------------------------
Depth(h) == (q_tail[h] + QueueSize - q_head[h]) % QueueSize

AverageDepth ==
    IF heads_active > 0
    THEN MapThenSumSet(Depth, active) \div heads_active
    ELSE 0

\* The first of the heads with the fewest tasks.
IsLeastLoaded(h) ==
    \A g \in active : Depth(h) <= Depth(g) /\ (g < h => Depth(h) < Depth(g))

LockFree == spawning = {}

(* dh_autoscale takes the lock for its decision only: the call it decides on *)
(* takes the lock anew.  A caller of dh_spawn or dh_kill decides nothing.    *)

Decides(s, call) ==
    /\ scaler[s].at = "idle" /\ calls < MaxCalls
    /\ calls' = calls + 1
    /\ scaler' = [scaler EXCEPT ![s] = call]
    /\ UNCHANGED <<active, heads_active, rings, spawning, clients, settled>>

Autoscale(s) ==
    /\ LockFree
    /\ \/ /\ AverageDepth > High /\ heads_active < NumHeads
          /\ Decides(s, At("spawn", 0))
       \/ /\ ~(AverageDepth > High /\ heads_active < NumHeads)
          /\ AverageDepth < Low /\ heads_active > MinHeads
          /\ \E h \in active : IsLeastLoaded(h) /\ Decides(s, At("kill", h))

CallSpawn(s) == Decides(s, At("spawn", 0))
CallKill(s) == \E h \in Heads : Decides(s, At("kill", h))

Done(s) == scaler' = [scaler EXCEPT ![s] = Idle]

(* dh_spawn, in its critical section: the bit is on before the ring is reset *)
(* and the resets are two stores.                                            *)

MaySpawn == heads_active < NumHeads

SpawnRefused(s) ==
    /\ scaler[s].at = "spawn" /\ LockFree
    /\ ~MaySpawn
    /\ Done(s)
    /\ UNCHANGED <<active, heads_active, rings, spawning, clients, calls, settled>>

SpawnActivate(s) ==
    /\ scaler[s].at = "spawn" /\ LockFree
    /\ MaySpawn
    /\ \E h \in Heads \ active :
         /\ \A g \in Heads \ active : h <= g
         /\ active' = active \cup {h}
         /\ spawning' = {h}
         /\ settled' = settled \ {h}
         /\ scaler' = [scaler EXCEPT ![s] = At("reset_head", h)]
         \* a new life of the head: its history starts over
         /\ accepted' = [accepted EXCEPT ![h] = <<>>]
         /\ popped' = [popped EXCEPT ![h] = <<>>]
    /\ heads_active' = heads_active + 1
    /\ UNCHANGED <<rings, push, pop, calls>>

SpawnResetHead(s) ==
    /\ scaler[s].at = "reset_head"
    /\ q_head' = [q_head EXCEPT ![scaler[s].value] = 0]
    /\ scaler' = [scaler EXCEPT ![s].at = "reset_tail"]
    /\ UNCHANGED <<active, heads_active, q_tail, tasks, spawning, clients,
                   calls, settled>>

Untouched(h) ==
    push[h].at = "idle" /\ pop[h].at = "idle"
        /\ accepted[h] = <<>> /\ popped[h] = <<>>

ResetTail_skipped(h) == q_tail
ResetTail(h) == [q_tail EXCEPT ![h] = 0]

SpawnResetTail(s) ==
    /\ scaler[s].at = "reset_tail"
    /\ LET h == scaler[s].value IN
         /\ q_tail' = ResetTail(h)
         /\ spawning' = {}
         /\ settled' = IF Untouched(h) THEN settled \cup {h} ELSE settled
    /\ Done(s)
    /\ UNCHANGED <<active, heads_active, q_head, tasks, clients, calls>>

(* dh_kill looks again at what the caller decided on: the number of heads    *)
(* and the bit of the head.                                                  *)

MayKill_trustsCaller(h) == heads_active > MinHeads
MayKill(h) == heads_active > MinHeads /\ h \in active

Kill(s) ==
    /\ scaler[s].at = "kill" /\ LockFree
    /\ LET h == scaler[s].value IN
         IF MayKill(h)
         THEN /\ active' = active \ {h}
              /\ heads_active' = heads_active - 1
         ELSE UNCHANGED <<active, heads_active>>
    /\ Done(s)
    /\ UNCHANGED <<rings, spawning, clients, calls, settled>>

Next ==
    \/ \E h \in Busy :
         \/ PushCheck(h) \/ PushRoom(h) \/ PushWrite(h) \/ PushPublish(h)
         \/ PopCheck(h) \/ PopSee(h) \/ PopRead(h) \/ PopAdvance(h)
    \/ \E s \in Scalers :
         \/ Autoscale(s) \/ CallSpawn(s) \/ CallKill(s)
         \/ SpawnRefused(s) \/ SpawnActivate(s)
         \/ SpawnResetHead(s) \/ SpawnResetTail(s) \/ Kill(s)

Spec == Init /\ [][Next]_vars

-----------------------------------------------------------------------------
StepsOf(names) == [at : names, value : Int]

TypeOK ==
    /\ active \subseteq Heads /\ settled \subseteq Heads
    /\ spawning \subseteq Heads
    /\ heads_active \in Int /\ calls \in Nat
    /\ q_head \in [Heads -> Slots] /\ q_tail \in [Heads -> Slots]
    /\ tasks \in [Heads -> [Slots -> Nat]]
    /\ push \in [Heads -> StepsOf({"idle", "room", "write", "publish"})]
    /\ pop \in [Heads -> StepsOf({"idle", "see", "read", "advance"})]
    /\ scaler \in [Scalers ->
         StepsOf({"idle", "spawn", "kill", "reset_head", "reset_tail"})]
    /\ accepted \in [Heads -> Seq(Nat)] /\ popped \in [Heads -> Seq(Nat)]

(* The counter that admits a spawn or a kill is the number of bits of the    *)
(* mask and stays between heads_min and heads_max, although two scalers can  *)
(* decide to kill the same head, or to spawn the last one, before either     *)
(* takes the lock again (lines 170-204): the calls themselves look anew.     *)
HeadsCounted ==
    /\ TypeOK
    /\ heads_active = Cardinality(active)
    /\ heads_active \in MinHeads..NumHeads

Waiting(h) ==
    [i \in 1..Depth(h) |-> tasks[h][(q_head[h] + i - 1) % QueueSize]]

(* A head that no call was using while it was (re)spawned hands out the      *)
(* tasks of this life in order, each once, none of its previous life, and    *)
(* keeps the others in its ring: also while it is being killed under calls   *)
(* that have passed the test of the mask, and after.                         *)
TasksInOrder ==
    \A h \in settled : accepted[h] = popped[h] \o Waiting(h)
=============================================================================
