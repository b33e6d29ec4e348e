---------------------------- MODULE DetachObservers ----------------------------
(***************************************************************************)
(* What happens to a detached entry after it is flushed, and what the hot  *)
(* path reads of it: src/pogls_detach_callbacks.h fires mesh_cb, which     *)
(* feeds the ReflexBias table (src/pogls_mesh_entry.h) and the             *)
(* DiamondLayer (src/pogls_diamond_layer.h), and then dhc_cb, which feeds  *)
(* the honeycomb (src/pogls_diamond_hc.h).                                 *)
(*                                                                         *)
(* Two threads: the flush thread runs the callbacks, and the hot path asks *)
(* reflex_should_demote about the zone of the operation it routes          *)
(* (src/pogls_pipeline_reflex_patch.h, [B] to [E]).  The table has no lock *)
(* and no atomics, and asking decays the zone; the functions of the table  *)
(* are modelled one access to it at a time.  Overlap says whether calls of *)
(* the two threads may overlap, as the patch has them, or follow one       *)
(* another, as in the tests.  Layer and honeycomb belong to the flush      *)
(* thread: a call on them is one step.  reflex_reward and dhc_tick_ttl,    *)
(* which nothing calls yet outside the tests, are the flush thread's too.  *)
(***************************************************************************)
EXTENDS ReflexOps, DiamondOps, HoneycombOps

CONSTANTS
  Entries,    \* the DetachEntries that are flushed, with where they scatter to
  Rewardable, \* zones reflex_reward is called for
  Overlap,    \* whether the two threads run at once
  MaxOps      \* bound: calls in a behaviour

Entry == [reason : SUBSET Reasons, early : BOOLEAN, ghost : BOOLEAN,
          zone : Zones, cell : DiamondIds, place : Places]

ASSUME ObserversAssumption ==
  /\ Entries \subseteq Entry /\ Zones # {} /\ Entries # {} /\ Rewardable \subseteq Zones
  /\ Overlap \in BOOLEAN /\ MaxOps \in Nat

Threads == {"flush", "hot"}

VARIABLES
  bias, last_decay, epoch, pushes,  \* ReflexBias; push_count modulo the interval
  layer,      \* DiamondLayer
  hc,         \* DHCContext
  entry,      \* the entry in the flush thread's hands
  frame,      \* per thread: where it is in a call, and the call's locals
  ops,        \* calls so far
  \* History.
  eager,      \* the bias of each zone had every zone been decayed at every epoch
  missing,    \* epochs since each zone was decayed, up to DecayCap + 1
  overslept,  \* zones that once missed more epochs than a catch-up makes up for
  anomalies,  \* anomalies counted in each zone
  told,       \* zones the hot path was told to demote
  kinds,      \* types of the events of each diamond cell
  since,      \* per place: ticks since its last event, up to Ttl
  refused     \* places whose last event found the pool full

reflex  == << bias, last_decay, epoch, pushes >>
lazy    == << eager, missing, overslept >>
history == << lazy, anomalies, told, kinds, since, refused >>
vars    == << reflex, layer, hc, entry, frame, ops, history >>

\* What a call does to the table: an event of a type, reflex_reward's, or a lookup.
Calls  == Types \cup {"REWARD", "LOOKUP"}
Labels == {"idle", "epoch", "last", "load", "decay", "stamp", "adjust", "write",
           "count", "answer", "scatter", "ingest"}

Frame == [pc : Labels, call : Calls, zone : Zones, now : Epochs,
          left : 0 .. DecayCap, reg : Bias]

Idle == [pc |-> "idle", call |-> "LOOKUP", zone |-> CHOOSE z \in Zones : TRUE,
         now |-> 0, left |-> 0, reg |-> 0]

TypeOK ==
  /\ bias \in [Zones -> Bias] /\ last_decay \in [Zones -> Epochs]
  /\ epoch \in Epochs /\ pushes \in 0 .. (Interval - 1)
  /\ layer \in DiamondLayer /\ hc \in Honeycomb
  /\ Len(hc) < PoolSize
  /\ entry \in Entries /\ frame \in [Threads -> Frame] /\ ops \in Nat
  /\ eager \in [Zones -> Bias] /\ missing \in [Zones -> 0 .. (DecayCap + 1)]
  /\ overslept \subseteq Zones /\ anomalies \in [Zones -> Nat] /\ told \subseteq Zones
  /\ kinds \in [DiamondIds -> SUBSET Types]
  /\ since \in [Places -> 0 .. Ttl] /\ refused \subseteq Places

\* reflex_init, diamond_init, dhc_init.
Init ==
  /\ bias = [z \in Zones |-> 0] /\ last_decay = [z \in Zones |-> 0]
  /\ epoch = 0 /\ pushes = 0
  /\ layer = DiamondInit /\ hc = HoneycombInit
  /\ entry \in Entries /\ frame = [t \in Threads |-> Idle] /\ ops = 0
  /\ eager = bias /\ missing = [z \in Zones |-> 0] /\ overslept = {}
  /\ anomalies = [z \in Zones |-> 0] /\ told = {}
  /\ kinds = [c \in DiamondIds |-> {}]
  /\ since = [p \in Places |-> Ttl] /\ refused = {}

-----------------------------------------------------------------------------
At(t, label) == frame[t].pc = label

\* Thread t may make a call.
Free(t) ==
  /\ At(t, "idle") /\ ops < MaxOps
  /\ Overlap \/ \A u \in Threads : At(u, "idle")

Begin(t, call, zone) ==
  /\ frame' = [frame EXCEPT ![t] = [Idle EXCEPT !.pc = "epoch", !.call = call, !.zone = zone]]
  /\ ops' = ops + 1

Goto(t, label) == frame' = [frame EXCEPT ![t].pc = label]

\* _reflex_lazy_decay: how many epochs has the zone missed?
LoadEpoch(t) ==
  /\ At(t, "epoch")
  /\ frame' = [frame EXCEPT ![t] = [frame[t] EXCEPT !.pc = "last", !.now = epoch]]
  /\ UNCHANGED << reflex, layer, hc, entry, ops, history >>

\* Where a call goes on once its zone has caught up.
Onward(call) == IF call = "LOOKUP" THEN "answer" ELSE "adjust"

LoadLast(t) ==
  /\ At(t, "last")
  /\ LET f == frame[t]
         missed == Missed(f.now, last_decay[f.zone])
     IN  frame' = [frame EXCEPT ![t] = [f EXCEPT
           !.pc = IF missed = 0 THEN Onward(f.call) ELSE "load",
           !.left = Steps(missed)]]
  /\ UNCHANGED << reflex, layer, hc, entry, ops, history >>

\* The local of _reflex_lazy_decay made static: both threads decay one variable.
LoadBias_static(t) ==
  /\ At(t, "load")
  /\ LET f == frame[t]
     IN  frame' = [u \in Threads |-> IF u = t THEN [f EXCEPT !.pc = "decay", !.reg = bias[f.zone]]
                                     ELSE [frame[u] EXCEPT !.reg = bias[f.zone]]]
  /\ UNCHANGED << reflex, layer, hc, entry, ops, history >>

LoadBias(t) ==
  /\ At(t, "load")
  /\ LET f == frame[t]
     IN  frame' = [frame EXCEPT ![t] = [f EXCEPT !.pc = "decay", !.reg = bias[f.zone]]]
  /\ UNCHANGED << reflex, layer, hc, entry, ops, history >>

DecayOnce(t) ==
  /\ At(t, "decay") /\ frame[t].left > 0
  /\ LET f == frame[t]
     IN  frame' = [frame EXCEPT ![t] = [f EXCEPT !.reg = Decayed(f.reg), !.left = f.left - 1]]
  /\ UNCHANGED << reflex, layer, hc, entry, ops, history >>

StoreBias(t) ==
  /\ At(t, "decay") /\ frame[t].left = 0
  /\ bias' = [bias EXCEPT ![frame[t].zone] = frame[t].reg]
  /\ Goto(t, "stamp")
  /\ UNCHANGED << last_decay, epoch, pushes, layer, hc, entry, ops, history >>

Stamp(t) ==
  /\ At(t, "stamp")
  /\ last_decay' = [last_decay EXCEPT ![frame[t].zone] = frame[t].now]
  /\ missing' = [missing EXCEPT ![frame[t].zone] = Steps(Missed(epoch, frame[t].now))]
  /\ Goto(t, Onward(frame[t].call))
  /\ UNCHANGED << bias, epoch, pushes, layer, hc, entry, ops, eager, overslept,
                  anomalies, told, kinds, since, refused >>

-----------------------------------------------------------------------------
\* reflex_update and reflex_reward, once the zone has caught up.  The two loads of
\* the bias (lines 360 and 368) have nothing between them and count as one.
Adjust(t) ==
  /\ At(t, "adjust")
  /\ LET f == frame[t]
     IN  frame' = [frame EXCEPT ![t] = [f EXCEPT
           !.pc = "write", !.reg = Clamped(Feedback(f.call, bias[f.zone]))]]
  /\ UNCHANGED << reflex, layer, hc, entry, ops, history >>

Write(t) ==
  /\ At(t, "write")
  /\ LET f == frame[t]
     IN  /\ bias' = [bias EXCEPT ![f.zone] = f.reg]
         /\ eager' = [eager EXCEPT ![f.zone] = Clamped(Feedback(f.call, @))]
         /\ anomalies' = [anomalies EXCEPT ![f.zone] = IF f.call \in Types THEN @ + 1 ELSE @]
  /\ Goto(t, "count")
  /\ UNCHANGED << last_decay, epoch, pushes, layer, hc, entry, ops, missing, overslept,
                  told, kinds, since, refused >>

\* What the end of an epoch means to the history.
EpochOver ==
  /\ eager' = [z \in Zones |-> Decayed(eager[z])]
  /\ missing' = [z \in Zones |-> IF missing[z] <= DecayCap THEN missing[z] + 1 ELSE missing[z]]
  /\ overslept' = overslept \cup {z \in Zones : missing[z] >= DecayCap}

\* _reflex_advance_epoch, and the end of reflex_reward; reflex_update was called
\* from mesh_cb.
Count(t) ==
  /\ At(t, "count")
  /\ IF pushes + 1 = Interval
     THEN pushes' = 0 /\ epoch' = (epoch + 1) % EpochMod /\ EpochOver
     ELSE pushes' = pushes + 1 /\ UNCHANGED << epoch, lazy >>
  /\ IF frame[t].call = "REWARD" THEN frame' = [frame EXCEPT ![t] = Idle]
                                 ELSE Goto(t, "scatter")
  /\ UNCHANGED << bias, last_decay, layer, hc, entry, ops, anomalies, told, kinds, since,
                  refused >>

\* The end of reflex_lookup and reflex_should_demote.
Answer(t) ==
  /\ At(t, "answer")
  /\ told' = IF bias[frame[t].zone] <= Demote THEN told \cup {frame[t].zone} ELSE told
  /\ frame' = [frame EXCEPT ![t] = Idle]
  /\ UNCHANGED << reflex, layer, hc, entry, ops, lazy, anomalies, kinds, since, refused >>

-----------------------------------------------------------------------------
\* _detach_fire_callbacks, of one entry: only an anomaly goes to mesh_cb.
Fire(e) ==
  /\ Free("flush")
  /\ entry' = e
  /\ IF IsMeshAnomaly(e)
     THEN Begin("flush", ClassifiedType(e), e.zone)
     ELSE Goto("flush", "ingest") /\ ops' = ops + 1
  /\ UNCHANGED << reflex, layer, hc, history >>

\* diamond_process
Scatter ==
  /\ At("flush", "scatter")
  /\ layer' = LayerUpdated(layer, entry.cell, frame["flush"].call)
  /\ kinds' = [kinds EXCEPT ![entry.cell] = @ \cup {frame["flush"].call}]
  /\ Goto("flush", "ingest")
  /\ UNCHANGED << reflex, hc, entry, ops, lazy, anomalies, told, since, refused >>

\* dhc_cb: dhc_ingest of the raw entry.
Ingest ==
  /\ At("flush", "ingest")
  /\ hc' = Summoned(hc, entry.place)
  /\ since' = [since EXCEPT ![entry.place] = 0]
  /\ refused' = IF hc' = hc /\ Live(hc, entry.place) = {}
                THEN refused \cup {entry.place} ELSE refused \ {entry.place}
  /\ frame' = [frame EXCEPT !["flush"] = Idle]
  /\ UNCHANGED << reflex, layer, entry, ops, lazy, anomalies, told, kinds >>

\* dhc_tick_ttl
Tick ==
  /\ Free("flush")
  /\ hc' = Ticked(hc)
  /\ since' = [p \in Places |-> IF since[p] < Ttl THEN since[p] + 1 ELSE since[p]]
  /\ ops' = ops + 1
  /\ UNCHANGED << reflex, layer, entry, frame, lazy, anomalies, told, kinds, refused >>

\* reflex_reward
Reward(z) ==
  /\ Free("flush") /\ Begin("flush", "REWARD", z)
  /\ UNCHANGED << reflex, layer, hc, entry, history >>

\* reflex_should_demote, from the hot path.
ShouldDemote(z) ==
  /\ Free("hot") /\ Begin("hot", "LOOKUP", z)
  /\ UNCHANGED << reflex, layer, hc, entry, history >>

Next ==
  \/ \E e \in Entries : Fire(e)
  \/ \E z \in Rewardable : Reward(z)
  \/ \E z \in Zones : ShouldDemote(z)
  \/ Scatter \/ Ingest \/ Tick
  \/ \E t \in Threads :
       \/ LoadEpoch(t) \/ LoadLast(t) \/ LoadBias(t) \/ DecayOnce(t) \/ StoreBias(t)
       \/ Stamp(t) \/ Adjust(t) \/ Write(t) \/ Count(t) \/ Answer(t)

Spec == Init /\ [][Next]_vars
-----------------------------------------------------------------------------
Quiet == \A t \in Threads : At(t, "idle")

\* "decay is logically a read side-effect" (line 400) and "On access: catch up
\* missed decay cycles" (line 249): a zone that has caught up has the bias it would
\* have if all zones had been decayed at the end of every epoch and nobody had ever
\* looked, unless it missed more epochs than the catch-up is capped at.
LazyIsEager ==
  Quiet => \A z \in Zones :
    last_decay[z] = epoch /\ z \notin overslept => bias[z] = eager[z]

\* "Threshold -4 requires meaningful signal (not single event)": no lookup demotes a
\* zone with fewer than two anomalies, although the two threads overlap, each may
\* store a bias it decayed from an old load over what the other has stored since,
\* and a BURST alone comes within one of the threshold.
DemotionNeedsHistory == \A z \in told : anomalies[z] >= 2

\* "hot GHOST zones must NOT get a boost" (line 220): a cell that has seen nothing
\* but GHOST events never adds to a route's score, and demotes it once warm, however
\* the streak bonus and the decay of bias and heat play together.
GhostZonesNeverBoosted ==
  \A c \in DiamondIds :
    kinds[c] = {"GHOST"} =>
      /\ RouteSignal(layer[c]) <= 0
      /\ Warm(layer[c]) => RouteSignal(layer[c]) < 0 /\ ScoreDemotes(layer[c])

\* The honeycomb holds one live cell, of the right age, for every place with an
\* event in the last Ttl ticks, and none for the others, except that a place may
\* have been refused: then the pool is full.
HoneycombSound ==
  \A p \in Places :
    \/ p \in refused /\ PoolFull(hc) /\ Live(hc, p) = {}
    \/ p \notin refused /\ since[p] = Ttl /\ Live(hc, p) = {}
    \/ p \notin refused /\ \E i \in DOMAIN hc : Live(hc, p) = {i} /\ hc[i].ttl = Ttl - since[p]
=============================================================================
