---------------------------- MODULE Hydra_proofs ----------------------------
(***************************************************************************)
(* Proofs about MCHydra for any number of heads, threads, tasks and        *)
(* readings: the heads are counted, the limits are kept, the load spreads, *)
(* no operation is left behind in a batch, and the tasks of a head leave   *)
(* in the order in which they were accepted.                               *)
(***************************************************************************)
EXTENDS MCHydra, ModArith, TLAPS, FiniteSetTheorems, SequenceTheorems

-----------------------------------------------------------------------------
(* The heads (HydraHeads).  What a call has read and will write is carried in *)
(* its step, so that the invariant bounds it at every step that uses it.      *)

StepValues ==
    /\ \A s \in Scalers :
         scaler[s].at \in {"reset_head", "reset_tail"} => scaler[s].value \in Heads
    /\ \A h \in Heads : push[h].at \in {"write", "publish"} => push[h].value \in Slots
    /\ \A h \in Heads : pop[h].at = "advance" => pop[h].value \in Nat

HeadsInv == HeadsCounted /\ StepValues

LEMMA SlotsWrap ==
  ASSUME NEW i \in Slots
  PROVE  Next1(i) \in Slots
  BY HeadsAssumption, SMT DEF Next1, Slots

LEMMA HeadsFinite ==
  ASSUME NEW S \in SUBSET Heads
  PROVE  IsFiniteSet(S)
<1>1. IsFiniteSet(Heads)  BY HeadsAssumption, FS_Interval DEF Heads
<1>. QED  BY <1>1, FS_Subset

\* Initially the first MinHeads heads are on.
LEMMA HeadsInitially ==
  Init => HeadsInv
<1> SUFFICES ASSUME Init  PROVE HeadsInv
  OBVIOUS
<1>1. active \subseteq Heads  BY HeadsAssumption DEF Init, Heads
<1>2. Cardinality(0..MinHeads - 1) = MinHeads
  <2>1. MinHeads - 1 >= 0  BY HeadsAssumption
  <2>. QED  BY <2>1, HeadsAssumption, FS_Interval
<1>3. TypeOK  BY <1>1, HeadsAssumption DEF Init, TypeOK, StepsOf, Idle, Slots
<1>4. StepValues  BY DEF Init, StepValues, Idle
<1>. QED  BY <1>1, <1>2, <1>3, <1>4, HeadsAssumption DEF Init, HeadsInv, HeadsCounted

\* The calls of producers and consumers leave the heads that are on alone.
LEMMA ClientStep ==
  ASSUME HeadsInv, NEW h \in Busy,
         \/ PushCheck(h) \/ PushRoom(h) \/ PushWrite(h) \/ PushPublish(h)
         \/ PopCheck(h) \/ PopSee(h) \/ PopRead(h) \/ PopAdvance(h)
  PROVE  HeadsInv'
<1> USE DEF HeadsInv, HeadsCounted, rings
<1>0. h \in Heads  BY HeadsAssumption DEF Heads
<1>a. TypeOK /\ StepValues  OBVIOUS
<1>1. CASE PushCheck(h)
  <2>1. TypeOK'  BY <1>0, <1>a, <1>1 DEF PushCheck, TypeOK, StepsOf, At
  <2>2. StepValues'  BY <1>0, <1>a, <1>1 DEF PushCheck, TypeOK, StepsOf, StepValues, At
  <2>. QED  BY <2>1, <2>2, <1>1 DEF PushCheck
<1>2. CASE PushRoom(h)
  <2>0. Next1(q_tail[h]) \in Slots /\ Next1(q_tail[h]) \in Int
    BY <1>0, <1>a, SlotsWrap, HeadsAssumption DEF TypeOK, Slots
  <2>1. TypeOK'  BY <1>0, <1>a, <1>2, <2>0 DEF PushRoom, TypeOK, StepsOf, At, Idle
  <2>2. StepValues'
    BY <1>0, <1>a, <1>2, <2>0 DEF PushRoom, TypeOK, StepsOf, StepValues, At, Idle
  <2>. QED  BY <2>1, <2>2, <1>2 DEF PushRoom
<1>3. CASE PushWrite(h)
  <2>0. Len(accepted[h]) + 1 \in Nat  BY <1>0, <1>a DEF TypeOK
  <2>1. TypeOK'  BY <1>0, <1>a, <1>3, <2>0 DEF PushWrite, TypeOK, StepsOf
  <2>2. StepValues'  BY <1>0, <1>a, <1>3 DEF PushWrite, TypeOK, StepsOf, StepValues
  <2>. QED  BY <2>1, <2>2, <1>3 DEF PushWrite
<1>4. CASE PushPublish(h)
  <2>0. push[h].value \in Slots  BY <1>0, <1>a, <1>4 DEF PushPublish, StepValues
  <2>1. Append(accepted[h], Len(accepted[h]) + 1) \in Seq(Nat)
    BY <1>0, <1>a DEF TypeOK
  <2>2. TypeOK'
    BY <1>0, <1>a, <1>4, <2>0, <2>1 DEF PushPublish, TypeOK, StepsOf, Idle
  <2>3. StepValues'
    BY <1>0, <1>a, <1>4 DEF PushPublish, TypeOK, StepsOf, StepValues, Idle
  <2>. QED  BY <2>2, <2>3, <1>4 DEF PushPublish
<1>5. CASE PopCheck(h)
  <2>1. TypeOK'  BY <1>0, <1>a, <1>5 DEF PopCheck, TypeOK, StepsOf, At
  <2>2. StepValues'  BY <1>0, <1>a, <1>5 DEF PopCheck, TypeOK, StepsOf, StepValues, At
  <2>. QED  BY <2>1, <2>2, <1>5 DEF PopCheck
<1>6. CASE PopSee(h)
  <2>1. TypeOK'  BY <1>0, <1>a, <1>6 DEF PopSee, TypeOK, StepsOf, At, Idle
  <2>2. StepValues'
    BY <1>0, <1>a, <1>6 DEF PopSee, TypeOK, StepsOf, StepValues, At, Idle
  <2>. QED  BY <2>1, <2>2, <1>6 DEF PopSee
<1>7. CASE PopRead(h)
  <2>0. tasks[h][q_head[h]] \in Nat  BY <1>0, <1>a DEF TypeOK
  <2>1. TypeOK'  BY <1>0, <1>a, <1>7, <2>0 DEF PopRead, TypeOK, StepsOf, At
  <2>2. StepValues'
    BY <1>0, <1>a, <1>7, <2>0 DEF PopRead, TypeOK, StepsOf, StepValues, At
  <2>. QED  BY <2>1, <2>2, <1>7 DEF PopRead
<1>8. CASE PopAdvance(h)
  <2>0. Next1(q_head[h]) \in Slots  BY <1>0, <1>a, SlotsWrap DEF TypeOK
  <2>1. Append(popped[h], pop[h].value) \in Seq(Nat)
    BY <1>0, <1>a, <1>8 DEF PopAdvance, TypeOK, StepValues
  <2>2. TypeOK'
    BY <1>0, <1>a, <1>8, <2>0, <2>1 DEF PopAdvance, TypeOK, StepsOf, Idle
  <2>3. StepValues'
    BY <1>0, <1>a, <1>8 DEF PopAdvance, TypeOK, StepsOf, StepValues, Idle
  <2>. QED  BY <2>2, <2>3, <1>8 DEF PopAdvance
<1>. QED  BY <1>1, <1>2, <1>3, <1>4, <1>5, <1>6, <1>7, <1>8

\* A scaler decides on a call under the lock and makes it later.
LEMMA DecisionStep ==
  ASSUME HeadsInv, NEW s \in Scalers, Autoscale(s) \/ CallSpawn(s) \/ CallKill(s)
  PROVE  HeadsInv'
<1> USE DEF HeadsInv, HeadsCounted, rings, clients
<1>a. TypeOK /\ StepValues  OBVIOUS
<1>1. PICK call : /\ Decides(s, call)
                  /\ call = At("spawn", 0) \/ \E h \in Heads : call = At("kill", h)
  <2>1. active \subseteq Heads  BY <1>a DEF TypeOK
  <2>. QED  BY <2>1 DEF Autoscale, CallSpawn, CallKill
<1>2. call \in StepsOf({"spawn", "kill"})
  BY <1>1, HeadsAssumption DEF StepsOf, At, Heads
<1>3. /\ scaler' = [scaler EXCEPT ![s] = call] /\ calls' = calls + 1
      /\ UNCHANGED <<active, heads_active, rings, spawning, clients, settled>>
  BY <1>1 DEF Decides
<1>4. scaler' \in [Scalers ->
        StepsOf({"idle", "spawn", "kill", "reset_head", "reset_tail"})]
  BY <1>a, <1>2, <1>3 DEF TypeOK, StepsOf
<1>5. TypeOK'  BY <1>a, <1>3, <1>4 DEF TypeOK
<1>6. StepValues'  BY <1>a, <1>2, <1>3 DEF TypeOK, StepsOf, StepValues
<1>. QED  BY <1>3, <1>5, <1>6

LEMMA SpawnStep ==
  ASSUME HeadsInv, NEW s \in Scalers,
         SpawnRefused(s) \/ SpawnActivate(s) \/ SpawnResetHead(s) \/ SpawnResetTail(s)
  PROVE  HeadsInv'
<1> USE DEF HeadsInv, HeadsCounted, rings, clients
<1>a. TypeOK /\ StepValues  OBVIOUS
<1>1. CASE SpawnRefused(s)
  <2>1. TypeOK'  BY <1>a, <1>1 DEF SpawnRefused, Done, TypeOK, StepsOf, Idle
  <2>2. StepValues'
    BY <1>a, <1>1 DEF SpawnRefused, Done, TypeOK, StepsOf, StepValues, Idle
  <2>. QED  BY <2>1, <2>2, <1>1 DEF SpawnRefused
<1>2. CASE SpawnActivate(s)
  <2>1. PICK h \in Heads \ active :
          /\ active' = active \cup {h} /\ spawning' = {h}
          /\ settled' = settled \ {h}
          /\ scaler' = [scaler EXCEPT ![s] = At("reset_head", h)]
          /\ accepted' = [accepted EXCEPT ![h] = <<>>]
          /\ popped' = [popped EXCEPT ![h] = <<>>]
    BY <1>2 DEF SpawnActivate
  <2>2. h \in Int  BY HeadsAssumption DEF Heads
  <2>0. At("reset_head", h) \in StepsOf({"reset_head"})  BY <2>2 DEF StepsOf, At
  <2>a. scaler' \in [Scalers ->
          StepsOf({"idle", "spawn", "kill", "reset_head", "reset_tail"})]
    BY <1>a, <2>0, <2>1 DEF TypeOK, StepsOf
  <2>b. accepted' \in [Heads -> Seq(Nat)] /\ popped' \in [Heads -> Seq(Nat)]
    <3>1. <<>> \in Seq(Nat)  OBVIOUS
    <3>. QED  BY <1>a, <2>1, <3>1 DEF TypeOK
  <2>3. TypeOK'
    BY <1>a, <1>2, <2>1, <2>2, <2>a, <2>b DEF SpawnActivate, TypeOK
  <2>4. StepValues'
    BY <1>a, <1>2, <2>1, <2>2 DEF SpawnActivate, TypeOK, StepsOf, StepValues, At
  <2>5. Cardinality(active') = Cardinality(active) + 1
    <3>1. IsFiniteSet(active)  BY <1>a, HeadsFinite DEF TypeOK
    <3>. QED  BY <3>1, <2>1, FS_AddElement
  <2>6. heads_active' \in MinHeads..NumHeads
    BY <1>2, HeadsAssumption DEF SpawnActivate, MaySpawn
  <2>. QED  BY <2>3, <2>4, <2>5, <2>6, <1>2 DEF SpawnActivate
<1>3. CASE SpawnResetHead(s)
  <2>0. scaler[s].value \in Heads /\ 0 \in Slots
    BY <1>a, <1>3, HeadsAssumption DEF SpawnResetHead, StepValues, Slots
  <2>1. TypeOK'  BY <1>a, <1>3, <2>0 DEF SpawnResetHead, TypeOK, StepsOf
  <2>2. StepValues'
    BY <1>a, <1>3, <2>0 DEF SpawnResetHead, TypeOK, StepsOf, StepValues
  <2>. QED  BY <2>1, <2>2, <1>3 DEF SpawnResetHead
<1>4. CASE SpawnResetTail(s)
  <2>0. scaler[s].value \in Heads /\ 0 \in Slots
    BY <1>a, <1>4, HeadsAssumption DEF SpawnResetTail, StepValues, Slots
  <2>1. TypeOK'
    BY <1>a, <1>4, <2>0 DEF SpawnResetTail, ResetTail, Done, TypeOK, StepsOf, Idle
  <2>2. StepValues'
    BY <1>a, <1>4, <2>0 DEF SpawnResetTail, Done, TypeOK, StepsOf, StepValues, Idle
  <2>. QED  BY <2>1, <2>2, <1>4 DEF SpawnResetTail
<1>. QED  BY <1>1, <1>2, <1>3, <1>4

\* Two calls may name the same head: the second finds it off and counts nothing.
LEMMA KillStep ==
  ASSUME HeadsInv, NEW s \in Scalers, Kill(s)
  PROVE  HeadsInv'
<1> USE DEF HeadsInv, HeadsCounted, rings, clients
<1>a. TypeOK /\ StepValues  OBVIOUS
<1> DEFINE h == scaler[s].value
<1>1. TypeOK'  BY <1>a DEF Kill, Done, TypeOK, StepsOf, Idle, MayKill
<1>2. StepValues'  BY <1>a DEF Kill, Done, TypeOK, StepsOf, StepValues, Idle
<1>3. CASE MayKill(h)
  <2>1. active' = active \ {h} /\ heads_active' = heads_active - 1  BY <1>3 DEF Kill
  <2>2. IsFiniteSet(active)  BY <1>a, HeadsFinite DEF TypeOK
  <2>3. Cardinality(active') = Cardinality(active) - 1
    BY <1>3, <2>1, <2>2, FS_RemoveElement DEF MayKill
  <2>4. heads_active' \in MinHeads..NumHeads
    BY <1>3, <2>1, HeadsAssumption DEF MayKill
  <2>. QED  BY <1>1, <1>2, <2>1, <2>3, <2>4
<1>4. CASE ~MayKill(h)
  BY <1>1, <1>2, <1>4 DEF Kill
<1>. QED  BY <1>3, <1>4

LEMMA HeadsStep ==
  HeadsInv /\ [Next]_vars => HeadsInv'
<1> SUFFICES ASSUME HeadsInv, [Next]_vars  PROVE HeadsInv'
  OBVIOUS
<1>1. CASE Next
  BY <1>1, ClientStep, DecisionStep, SpawnStep, KillStep DEF Next
<1>2. CASE UNCHANGED vars
  BY <1>2 DEF vars, rings, HeadsInv, HeadsCounted, TypeOK, StepsOf, StepValues
<1>. QED  BY <1>1, <1>2

\* The counter of heads is the number of bits of the mask, and stays between its two
\* bounds, whatever scalers decide on before they take the lock again
\* (pogls_hydra_dynamic.h lines 61-111, 164-204).
THEOREM CountIsTheMask ==
  HydraSpec => []HeadsCounted
<1>1. HydraInit => HeadsInv  BY HeadsInitially DEF HydraInit
<1>2. HeadsInv /\ [HydraNext]_<< vars, front, guard, part >> => HeadsInv'
  BY HeadsStep DEF HydraNext
<1>3. HeadsInv => HeadsCounted  BY DEF HeadsInv
<1>. QED  BY <1>1, <1>2, <1>3, PTL DEF HydraSpec

-----------------------------------------------------------------------------
(* The token bucket (HydraFront).  A token granted in the past is paid by     *)
(* what the bucket earned since: with the tokens left, the grants from any    *)
(* one on never exceed a full bucket and what was earned since that grant.    *)

LEMMA QuotientsOrdered ==
  ASSUME NEW m \in Nat \ {0}, NEW x \in Int, NEW y \in Int, m * x < m * y
  PROVE  x < y
<1> SUFFICES ASSUME x >= y  PROVE FALSE
  OBVIOUS
<1>1. m * (x - y) >= 0  BY SMT
<1>2. m * (x - y) = m * x - m * y  BY SMT
<1>. QED  BY <1>1, <1>2

\* What is earned in two stretches is earned in the whole: rounding down only loses.
LEMMA EarnedInTwo ==
  ASSUME NEW m \in Nat \ {0}, NEW a \in Int, NEW b \in Int
  PROVE  a \div m + b \div m <= (a + b) \div m
<1> DEFINE p == a \div m
           q == b \div m
           r == (a + b) \div m
<1>1. p \in Int /\ a % m \in 0 .. (m - 1) /\ a = m * p + (a % m)  BY Division
<1>2. q \in Int /\ b % m \in 0 .. (m - 1) /\ b = m * q + (b % m)  BY Division
<1>3. /\ r \in Int /\ (a + b) % m \in 0 .. (m - 1)
      /\ a + b = m * r + ((a + b) % m)
  <2>1. a + b \in Int  OBVIOUS
  <2>. QED  BY <2>1, Division
<1> HIDE DEF p, q, r
<1>4. m * (p + q) = m * p + m * q  BY <1>1, <1>2, Distribute
<1>5. m * (r + 1) = m * r + m  BY <1>3, SMT
<1>6. m * (p + q) < m * (r + 1)  BY <1>1, <1>2, <1>3, <1>4, <1>5
<1>7. p + q < r + 1  BY <1>1, <1>2, <1>3, <1>6, QuotientsOrdered
<1>. QED  BY <1>1, <1>2, <1>3, <1>7 DEF p, q, r

Earned(from, to) == (Rate * (to - from)) \div Second

BucketInv ==
  /\ tokens \in 0 .. Rate /\ last_refill \in Nat /\ now \in Nat
  /\ last_refill <= now
  /\ grants \in Seq(Nat)
  /\ \A i \in DOMAIN grants :
       tokens + (Len(grants) - i + 1) <= Rate + Earned(grants[i], last_refill)
  /\ RateIsKept

LEMMA EarnedSplits ==
  ASSUME NEW x \in Int, NEW y \in Int, NEW z \in Int
  PROVE  /\ Earned(x, y) \in Int
         /\ Earned(x, x) = 0
         /\ Earned(x, y) + Earned(y, z) <= Earned(x, z)
         /\ x <= y => Earned(x, y) >= 0
<1> USE FrontAssumption DEF Earned
<1>1. Rate * (y - x) \in Int /\ Rate * (z - y) \in Int /\ Rate * (z - x) \in Int
  OBVIOUS
<1>2. Rate * (z - x) = Rate * (y - x) + Rate * (z - y)
  <2>1. z - x = (y - x) + (z - y)  OBVIOUS
  <2>. QED  BY <2>1, Distribute
<1>3. Earned(x, y) + Earned(y, z) <= Earned(x, z)  BY <1>1, <1>2, EarnedInTwo
<1>4. Rate * (x - x) = 0 /\ 0 \div Second = 0  BY SMT
<1>5. x <= y => Rate * (y - x) >= 0  BY SMT
<1>6. ASSUME NEW a \in Nat  PROVE a \div Second \in Nat
  BY <1>6, SMT
<1>7. x <= y => Earned(x, y) >= 0  BY <1>1, <1>5, <1>6
<1>8. Earned(x, y) \in Int  BY <1>1, Division
<1>. QED  BY <1>3, <1>4, <1>7, <1>8

LEMMA RefilledBounds ==
  ASSUME BucketInv
  PROVE  /\ Refilled \in 0 .. Rate
         /\ Refilled <= tokens + Earned(last_refill, now)
<1>0. last_refill \in Int /\ now \in Int /\ last_refill <= now
  BY DEF BucketInv
<1>a. Earned(last_refill, now) \in Int /\ Earned(last_refill, now) >= 0
  BY <1>0, EarnedSplits, Zenon
<1>1. Earned(last_refill, now) \in Nat  BY <1>a
<1>2. Refilled = IF tokens + Earned(last_refill, now) > Rate THEN Rate
                 ELSE tokens + Earned(last_refill, now)
  BY DEF Refilled, Earned
<1>. QED  BY <1>1, <1>2, FrontAssumption DEF BucketInv

LEMMA AcquireKeeps ==
  ASSUME BucketInv, Acquire, now' = now
  PROVE  BucketInv'
<1> DEFINE n == Len(grants)
<1>1. /\ tokens \in Int /\ last_refill \in Nat /\ now \in Nat
      /\ grants \in Seq(Nat) /\ n \in Nat /\ DOMAIN grants = 1 .. n
  BY FrontAssumption DEF BucketInv
<1>2. Refilled \in 0 .. Rate /\ Refilled <= tokens + Earned(last_refill, now)
  BY RefilledBounds
<1>3. ASSUME NEW i \in 1 .. n
      PROVE  Refilled + (n - i + 1) <= Rate + Earned(grants[i], now)
  <2>1. grants[i] \in Int  BY <1>1
  <2>2. tokens + (n - i + 1) <= Rate + Earned(grants[i], last_refill)
    BY <1>1 DEF BucketInv
  <2>3. /\ Earned(grants[i], last_refill) + Earned(last_refill, now)
             <= Earned(grants[i], now)
        /\ Earned(grants[i], last_refill) \in Int /\ Earned(last_refill, now) \in Int
        /\ Earned(grants[i], now) \in Int
    <3>1. last_refill \in Int /\ now \in Int  BY <1>1
    <3>. QED  BY <2>1, <3>1, EarnedSplits, Zenon
  <2>. QED  BY <1>1, <1>2, <2>2, <2>3, FrontAssumption
<1>4. Earned(now, now) = 0  BY <1>1, EarnedSplits
<1>5. CASE Acquired
  <2>1. /\ tokens' = Refilled - 1 /\ last_refill' = now
        /\ grants' = Append(grants, now) /\ Refilled >= 1
    BY <1>5 DEF Acquire, Acquired
  <2>2. /\ grants' \in Seq(Nat) /\ Len(grants') = n + 1 /\ DOMAIN grants' = 1 .. n + 1
        /\ \A i \in 1 .. n : grants'[i] = grants[i]
        /\ grants'[n + 1] = now
    BY <1>1, <2>1
  <2>3. tokens' \in 0 .. Rate  BY <1>2, <2>1, FrontAssumption
  <2>4. ASSUME NEW i \in 1 .. n + 1
        PROVE  tokens' + ((n + 1) - i + 1) <= Rate + Earned(grants'[i], now)
    <3>1. CASE i \in 1 .. n
      BY <3>1, <1>1, <1>2, <1>3, <2>1, <2>2
    <3>2. CASE i = n + 1
      BY <3>2, <1>1, <1>2, <1>4, <2>1, <2>2, FrontAssumption
    <3>. QED  BY <3>1, <3>2, <1>1
  <2>5. ASSUME NEW i \in 1 .. n + 1, NEW j \in 1 .. n + 1, i <= j
        PROVE  j - i + 1 <= Rate + Earned(grants'[i], grants'[j])
    <3>1. CASE j \in 1 .. n
      <4>1. i \in 1 .. n  BY <3>1, <2>5, <1>1
      <4>2. j - i + 1 <= Rate + Earned(grants[i], grants[j])
        BY <4>1, <3>1, <2>5, <1>1 DEF BucketInv, RateIsKept, Earned
      <4>. QED  BY <4>1, <4>2, <3>1, <2>2
    <3>2. CASE j = n + 1
      <4>1. tokens' + ((n + 1) - i + 1) <= Rate + Earned(grants'[i], now)  BY <2>4
      <4>2. grants'[i] \in Int /\ now \in Int  BY <2>2, <1>1
      <4>3. Earned(grants'[i], now) \in Int  BY <4>2, EarnedSplits, Zenon
      <4>. QED  BY <3>2, <4>1, <4>3, <2>2, <2>3, <1>1, FrontAssumption
    <3>. QED  BY <3>1, <3>2, <1>1
  <2>6. RateIsKept'  BY <2>2, <2>5 DEF RateIsKept, Earned
  <2>7. \A i \in DOMAIN grants' :
          tokens' + (Len(grants') - i + 1) <= Rate + Earned(grants'[i], last_refill')
    BY <2>1, <2>2, <2>4
  <2>. QED  BY <1>1, <2>1, <2>2, <2>3, <2>6, <2>7 DEF BucketInv, Earned
<1>6. CASE ~Acquired
  <2>1. tokens' = Refilled /\ last_refill' = now /\ grants' = grants
    BY <1>6 DEF Acquire
  <2>2. RateIsKept'  BY <2>1 DEF BucketInv, RateIsKept
  <2>. QED  BY <1>1, <1>2, <1>3, <2>1, <2>2 DEF BucketInv, Earned
<1>. QED  BY <1>5, <1>6

LEMMA BucketStep ==
  BucketInv /\ [FrontNext]_front => BucketInv'
<1> SUFFICES ASSUME BucketInv, [FrontNext]_front  PROVE BucketInv'
  OBVIOUS
<1>1. ASSUME UNCHANGED bucket, now' \in Nat, now' >= now  PROVE BucketInv'
  BY <1>1 DEF bucket, BucketInv, RateIsKept, Earned
<1>2. now \in Nat  BY DEF BucketInv
<1>3. ASSUME NEW home \in HSHeads, NEW n \in 1 .. MaxSubmits, Submit(home, n)
      PROVE  BucketInv'
  BY <1>3, AcquireKeeps DEF Submit
<1>4. CASE Elapse  BY <1>4, <1>1, <1>2 DEF Elapse
<1>5. ASSUME NEW h \in HSHeads, FlushHead(h) \/ Activate(h) \/ Deactivate(h)
      PROVE  BucketInv'
  BY <1>5, <1>1, <1>2 DEF FlushHead, Activate, Deactivate
<1>6. CASE FlushAll \/ Decay  BY <1>6, <1>1, <1>2 DEF FlushAll, Decay
<1>7. CASE UNCHANGED front  BY <1>7, <1>1, <1>2 DEF front
<1>. QED  BY <1>3, <1>4, <1>5, <1>6, <1>7 DEF FrontNext

-----------------------------------------------------------------------------
(* The guard of the resources (ResourceGuard).  What has been granted since   *)
(* the last update agrees with the metric of that update.                     *)

GuardInv ==
  /\ ram_avail \in Nat /\ last_update \in Nat /\ rg_now \in Nat \ {0}
  /\ (readings = {} /\ ram_avail = 0) \/ readings = {ram_avail}
  /\ granted = {} \/ last_update # 0
  /\ last_update # 0 =>
       (block_expand <=> ram_avail < RamMin) /\ (force_shrink <=> ram_avail < RamMin)
  /\ "expand" \in granted => ram_avail >= RamMin
  /\ "spawn" \in granted => ram_avail >= 2 * RamMin
  /\ "shrink" \in granted => ram_avail < RamMin

LEMMA GuardInitially ==
  GuardInit => GuardInv
  BY DEF GuardInit, GuardInv

LEMMA GuardUpdates ==
  ASSUME GuardInv, Update, UNCHANGED rg_now
  PROVE  /\ ram_avail' \in Nat /\ last_update' \in Nat \ {0}
         /\ (readings' = {} /\ ram_avail' = 0) \/ readings' = {ram_avail'}
         /\ block_expand' <=> ram_avail' < RamMin
         /\ force_shrink' <=> ram_avail' < RamMin
         /\ Kept = {} \/ (Kept = granted /\ ram_avail' = ram_avail)
<1>1. CASE rg_now = last_update
  BY <1>1 DEF GuardInv, Update, Kept
<1>2. CASE rg_now # last_update
  <2>1. ReadRam /\ ApplyThresholds /\ last_update' = rg_now  BY <1>2 DEF Update
  <2>2. /\ ram_avail' \in Nat
        /\ (readings' = {} /\ ram_avail' = 0) \/ readings' = {ram_avail'}
    BY <2>1, GuardAssumption DEF GuardInv, ReadRam
  <2>3. /\ block_expand' <=> ram_avail' < RamMin
        /\ force_shrink' <=> ram_avail' < RamMin
    BY <2>1, Zenon DEF ApplyThresholds
  <2>4. last_update' \in Nat \ {0} /\ Kept = {}
    BY <1>2, <2>1 DEF GuardInv, Kept
  <2>. QED  BY <2>2, <2>3, <2>4
<1>. QED  BY <1>1, <1>2

LEMMA GuardStep ==
  GuardInv /\ [GuardNext]_guard => GuardInv'
<1> SUFFICES ASSUME GuardInv, [GuardNext]_guard  PROVE GuardInv'
  OBVIOUS
<1>1. ASSUME NEW question \in Questions, Ask(question)  PROVE GuardInv'
  <2>1. Update /\ UNCHANGED rg_now  BY <1>1 DEF Ask
  <2>2. granted' \subseteq Kept \cup (IF Answer(question) THEN {question} ELSE {})
    BY <1>1 DEF Ask
  <2>3. question = "expand" /\ Answer(question) => ram_avail' >= RamMin
    BY <2>1, GuardUpdates, GuardAssumption DEF Answer
  <2>4. question = "spawn" /\ Answer(question) => ram_avail' >= 2 * RamMin
    BY <2>1, GuardUpdates DEF Answer
  <2>5. question = "shrink" /\ Answer(question) => ram_avail' < RamMin
    BY <2>1, GuardUpdates DEF Answer
  <2>6. \A q \in Kept : q \in granted /\ ram_avail' = ram_avail
    BY <2>1, GuardUpdates
  <2>7. /\ "expand" \in granted' => ram_avail' >= RamMin
        /\ "spawn" \in granted' => ram_avail' >= 2 * RamMin
        /\ "shrink" \in granted' => ram_avail' < RamMin
    BY <2>2, <2>3, <2>4, <2>5, <2>6 DEF GuardInv
  <2>. QED  BY <2>1, <2>7, GuardUpdates DEF GuardInv
<1>2. CASE Passes
  BY <1>2, GuardAssumption DEF Passes, GuardInv
<1>3. CASE UNCHANGED guard
  BY <1>3 DEF guard, GuardInv
<1>. QED  BY <1>1, <1>2, <1>3 DEF GuardNext

LEMMA GuardBacks ==
  GuardInv => GrowthIsBacked
  BY GuardAssumption, SMT DEF GuardInv, GrowthIsBacked

\* The limiter never admits more than its rate earns, in any stretch of time
\* (pogls_rate_limiter.h lines 33-71), and the guard never lets the heads grow on
\* memory that was not last shown to it, nor to both grow and shrink
\* (pogls_resource_guard.h lines 85-199).
THEOREM LimitsHold ==
  HydraSpec => []LimitsAreKept
<1> DEFINE I == BucketInv /\ GuardInv
<1>1. HydraInit => I
  <2> SUFFICES ASSUME HydraInit  PROVE I
    OBVIOUS
  <2>1. GuardInv  BY GuardInitially DEF HydraInit
  <2>2. tokens = Rate /\ last_refill = 0 /\ now = 0 /\ grants = << >>
    BY DEF HydraInit, FrontInit
  <2>3. BucketInv  BY <2>2, FrontAssumption DEF BucketInv, RateIsKept
  <2>. QED  BY <2>1, <2>3
<1>2. I /\ [HydraNext]_<< vars, front, guard, part >> => I'
  BY BucketStep, GuardStep DEF HydraNext
<1>3. I => LimitsAreKept  BY GuardBacks DEF BucketInv, LimitsAreKept
<1>. QED  BY <1>1, <1>2, <1>3, PTL DEF HydraSpec

-----------------------------------------------------------------------------
(* The weighted route (HydraFront).                                          *)

\* A quotient grows with its dividend, and no faster.
LEMMA QuotientSlope ==
  ASSUME NEW m \in Nat \ {0}, NEW a \in Int, NEW b \in Int, a <= b
  PROVE  a \div m <= b \div m /\ b \div m <= a \div m + (b - a)
<1> DEFINE p == a \div m
           q == b \div m
<1>1. p \in Int /\ a % m \in 0 .. (m - 1) /\ a = m * p + (a % m)  BY Division
<1>2. q \in Int /\ b % m \in 0 .. (m - 1) /\ b = m * q + (b % m)  BY Division
<1> HIDE DEF p, q
<1>3. m * (q + 1) = m * q + m  BY <1>2, SMT
<1>4. p < q + 1
  <2>1. m * p < m * (q + 1)  BY <1>1, <1>2, <1>3
  <2>. QED  BY <2>1, <1>1, <1>2, QuotientsOrdered
<1>5. q < p + (b - a) + 1
  <2>1. m * (p + (b - a) + 1) = m * p + m * (b - a) + m  BY <1>1, SMT
  <2>2. m * (b - a) >= b - a  BY SMT
  <2>3. m * p \in Int /\ m * (b - a) \in Int  BY <1>1
  <2>4. m * q < m * (p + (b - a) + 1)  BY <1>1, <1>2, <2>1, <2>2, <2>3
  <2>5. p + (b - a) + 1 \in Int  BY <1>1
  <2>. QED  BY <2>4, <2>5, <1>2, QuotientsOrdered
<1>. QED  BY <1>1, <1>2, <1>4, <1>5 DEF p, q

\* Decay keeps the order of two weights and never widens the gap between them.
LEMMA DecayNarrows ==
  ASSUME NEW a \in 0 .. WeightMax, NEW b \in 0 .. WeightMax, NEW gap \in Nat,
         a - b <= gap
  PROVE  Lighter(a) - Lighter(b) <= gap
<1>1. a \in Int /\ b \in Int  BY FrontAssumption
<1>2. a \div WeightShare \in Int /\ b \div WeightShare \in Int
  BY <1>1, FrontAssumption, Division
<1>3. CASE b <= a
  BY <1>1, <1>2, <1>3, FrontAssumption, QuotientSlope DEF Lighter
<1>4. CASE a <= b
  BY <1>1, <1>2, <1>4, FrontAssumption, QuotientSlope DEF Lighter
<1>. QED  BY <1>1, <1>3, <1>4

LEMMA DecayBounds ==
  ASSUME NEW w \in 0 .. WeightMax
  PROVE  Lighter(w) \in 0 .. WeightMax
<1>1. w \in Int /\ 0 \div WeightShare = 0  BY FrontAssumption, SMT
<1>2. w \div WeightShare \in Int  BY <1>1, FrontAssumption, Division
<1>3. 0 <= w \div WeightShare /\ w \div WeightShare <= 0 + (w - 0)
  <2>1. 0 \in Int /\ 0 <= w  OBVIOUS
  <2>. QED  BY <1>1, <2>1, FrontAssumption, QuotientSlope
<1>. QED  BY <1>2, <1>3, FrontAssumption DEF Lighter

Farthest == HS_HEADS \div 2

LEMMA DistanceBounds ==
  ASSUME NEW home \in HSHeads, NEW h \in HSHeads
  PROVE  /\ Distance(home, h) \in 0 .. Farthest
         /\ DistScale * Distance(home, h) \in 0 .. DistScale * Farthest
<1>1. Distance(home, h) \in 0 .. Farthest
  BY FrontAssumption, SMT DEF HSHeads, Distance, Farthest
<1>2. Farthest \in Nat  BY FrontAssumption, SMT DEF Farthest
<1>3. ASSUME NEW d \in 0 .. Farthest
      PROVE  DistScale * d \in 0 .. DistScale * Farthest
  <2>1. DistScale * d >= 0 /\ DistScale * (Farthest - d) >= 0
    BY <1>2, FrontAssumption, SMT
  <2>2. DistScale * (Farthest - d) = DistScale * Farthest - DistScale * d
    BY <1>2, FrontAssumption, SMT
  <2>3. DistScale * d \in Int /\ DistScale * Farthest \in Int
    BY <1>2, FrontAssumption
  <2>. QED  BY <2>1, <2>2, <2>3
<1>. QED  BY <1>1, <1>3

Spread == DistScale * Farthest + HitLoad
WeightInv == weight \in [HSHeads -> 0 .. WeightMax] /\ LoadSpread

\* A head is chosen only while no other is lighter by more than the distance counts.
LEMMA HitKeepsSpread ==
  ASSUME WeightInv, NEW home \in HSHeads, NEW h \in HSHeads, IsRoute(home, h),
         weight' = [weight EXCEPT ![h] = Heavier(@)]
  PROVE  WeightInv'
<1> USE FrontAssumption
<1>1. \A g \in HSHeads : weight[g] \in 0 .. WeightMax  BY DEF WeightInv
<1>2. Heavier(weight[h]) \in 0 .. WeightMax /\ Heavier(weight[h]) >= weight[h]
      /\ Heavier(weight[h]) <= weight[h] + HitLoad
  BY <1>1 DEF Heavier
<1>3. weight' \in [HSHeads -> 0 .. WeightMax]  BY <1>2 DEF WeightInv
<1>4. DistScale * Farthest \in Nat  BY SMT DEF Farthest
<1>5. ASSUME NEW g \in HSHeads  PROVE weight[h] - weight[g] <= DistScale * Farthest
  <2>1. Score(home, h) <= Score(home, g)  BY DEF IsRoute
  <2>. QED  BY <2>1, <1>1, <1>4, DistanceBounds DEF Score
<1>6. ASSUME NEW x \in HSHeads, NEW g \in HSHeads
      PROVE  weight'[x] - weight'[g] <= Spread
  <2>1. weight[x] - weight[g] <= Spread
    BY DEF WeightInv, LoadSpread, Spread, Farthest
  <2>2. Spread \in Nat  BY <1>4 DEF Spread
  <2>3. CASE x = h /\ g # h
    BY <2>3, <1>1, <1>2, <1>4, <1>5 DEF WeightInv, Spread
  <2>4. CASE x # h /\ g = h
    BY <2>1, <2>2, <2>4, <1>1, <1>2 DEF WeightInv
  <2>5. CASE x # h /\ g # h  BY <2>1, <2>5 DEF WeightInv
  <2>6. CASE x = g  BY <2>2, <2>6, <1>3
  <2>. QED  BY <2>3, <2>4, <2>5, <2>6
<1>. QED  BY <1>3, <1>6 DEF WeightInv, LoadSpread, Spread, Farthest

LEMMA DecayKeepsSpread ==
  ASSUME WeightInv, Decay
  PROVE  WeightInv'
<1>1. weight' = [h \in HSHeads |-> Lighter(weight[h])]  BY DEF Decay
<1>2. weight' \in [HSHeads -> 0 .. WeightMax]
  BY <1>1, DecayBounds DEF WeightInv
<1>3. Spread \in Nat  BY FrontAssumption, SMT DEF Spread, Farthest
<1>4. ASSUME NEW x \in HSHeads, NEW g \in HSHeads
      PROVE  weight'[x] - weight'[g] <= Spread
  <2>1. weight[x] - weight[g] <= Spread
    BY DEF WeightInv, LoadSpread, Spread, Farthest
  <2>2. weight[x] \in 0 .. WeightMax /\ weight[g] \in 0 .. WeightMax  BY DEF WeightInv
  <2>3. Lighter(weight[x]) - Lighter(weight[g]) <= Spread
    BY <2>1, <2>2, <1>3, DecayNarrows
  <2>. QED  BY <2>3, <1>1
<1>. QED  BY <1>2, <1>4 DEF WeightInv, LoadSpread, Spread, Farthest

LEMMA WeightStep ==
  WeightInv /\ [FrontNext]_front => WeightInv'
<1> SUFFICES ASSUME WeightInv, [FrontNext]_front  PROVE WeightInv'
  OBVIOUS
<1>1. ASSUME UNCHANGED weight  PROVE WeightInv'
  BY <1>1 DEF WeightInv, LoadSpread
<1>2. ASSUME NEW home \in HSHeads, NEW n \in 1 .. MaxSubmits, Submit(home, n)
      PROVE  WeightInv'
  BY <1>1, <1>2, HitKeepsSpread DEF Submit
<1>3. ASSUME NEW h \in HSHeads, FlushHead(h) \/ Activate(h) \/ Deactivate(h)
      PROVE  WeightInv'
  BY <1>1, <1>3 DEF FlushHead, Activate, Deactivate
<1>4. CASE FlushAll \/ Elapse  BY <1>1, <1>4 DEF FlushAll, Elapse
<1>5. CASE Decay  BY <1>5, DecayKeepsSpread
<1>6. CASE UNCHANGED front  BY <1>1, <1>6 DEF front
<1>. QED  BY <1>2, <1>3, <1>4, <1>5, <1>6 DEF FrontNext

\* Weighted routing keeps the load of any two heads within the farthest distance and
\* one hit, with saturation and decay (pogls_hydra_weight.h lines 43-147).
THEOREM RouteSpreads ==
  HydraSpec => []LoadSpread
<1>1. HydraInit => WeightInv
  <2> SUFFICES ASSUME HydraInit  PROVE WeightInv
    OBVIOUS
  <2>1. weight = [h \in HSHeads |-> 0]  BY DEF HydraInit, FrontInit
  <2>2. DistScale * (HS_HEADS \div 2) \in Nat  BY FrontAssumption, SMT
  <2>. QED  BY <2>1, <2>2, FrontAssumption DEF WeightInv, LoadSpread
<1>2. WeightInv /\ [HydraNext]_<< vars, front, guard, part >> => WeightInv'
  BY WeightStep DEF HydraNext
<1>3. WeightInv => LoadSpread  BY DEF WeightInv
<1>. QED  BY <1>1, <1>2, <1>3, PTL DEF HydraSpec

-----------------------------------------------------------------------------
(* The batches (HydraFront).                                                 *)

BatchInv ==
  /\ slot \in [HSHeads -> Seq(Nat)] /\ dispatched \in [HSHeads -> Seq(Nat)]
  /\ taken \in [HSHeads -> Seq(Nat)] /\ ops \in Nat
  /\ OpsOnceInOrder

\* A queue is cut after its full batches: less than a batch is left.
LEMMA CutIntoBatches ==
  ASSUME NEW q \in Seq(Nat)
  PROVE  /\ SubSeq(q, 1, BatchSize * Full(q)) \in Seq(Nat)
         /\ SubSeq(q, BatchSize * Full(q) + 1, Len(q)) \in Seq(Nat)
         /\ q = SubSeq(q, 1, BatchSize * Full(q)) \o SubSeq(q, BatchSize * Full(q) + 1, Len(q))
         /\ Len(SubSeq(q, BatchSize * Full(q) + 1, Len(q))) < BatchSize
<1> DEFINE n   == Len(q)
           out == BatchSize * Full(q)
           a   == SubSeq(q, 1, out)
           b   == SubSeq(q, out + 1, n)
<1>1. n \in Nat /\ BatchSize \in Nat \ {0}  BY FrontAssumption, LenProperties
<1>2. out \in 0 .. n /\ n - out < BatchSize
  <2> DEFINE k == n \div BatchSize
             r == n % BatchSize
  <2>1. k \in Int /\ r \in 0 .. (BatchSize - 1) /\ n = BatchSize * k + r
    BY <1>1, Division
  <2>2. out = BatchSize * k  BY DEF Full
  <2> HIDE DEF k, r, n, out
  <2>3. k >= 0
    <3> SUFFICES ASSUME k <= -1  PROVE FALSE
      BY <2>1
    <3>1. BatchSize * k <= BatchSize * (-1)  BY <1>1, <2>1, SMT
    <3>. QED  BY <1>1, <2>1, <3>1
  <2>4. BatchSize * k \in Nat  BY <1>1, <2>1, <2>3, SMT
  <2>. QED  BY <1>1, <2>1, <2>2, <2>4
<1>3. \A i \in 1 .. n : q[i] \in Nat  BY ElementOfSeq
<1>4. /\ a \in Seq(Nat) /\ b \in Seq(Nat) /\ Len(a) = out /\ Len(b) = n - out
      /\ \A i \in 1 .. Len(a) : a[i] = q[i]
      /\ \A i \in 1 .. Len(b) : b[i] = q[out + i]
  <2> HIDE DEF n, out
  <2>1. \A i \in 1 .. out : q[i] \in Nat  BY <1>1, <1>2, <1>3
  <2>2. \A i \in out + 1 .. n : q[i] \in Nat  BY <1>1, <1>2, <1>3
  <2>3. /\ a \in Seq(Nat) /\ Len(a) = IF 1 <= out THEN out - 1 + 1 ELSE 0
        /\ \A i \in 1 .. out - 1 + 1 : a[i] = q[1 + i - 1]
    BY <1>1, <1>2, <2>1, SubSeqProperties
  <2>4. /\ b \in Seq(Nat) /\ Len(b) = IF out + 1 <= n THEN n - (out + 1) + 1 ELSE 0
        /\ \A i \in 1 .. n - (out + 1) + 1 : b[i] = q[(out + 1) + i - 1]
    <3> DEFINE from == out + 1
    <3>1. \A i \in from .. n : q[i] \in Nat  BY <2>2
    <3>2. from \in 1 .. n + 1 /\ n \in Nat  BY <1>1, <1>2
    <3> HIDE DEF from
    <3>3. /\ SubSeq(q, from, n) \in Seq(Nat)
          /\ Len(SubSeq(q, from, n)) = IF from <= n THEN n - from + 1 ELSE 0
          /\ \A i \in 1 .. n - from + 1 : SubSeq(q, from, n)[i] = q[from + i - 1]
      BY <3>1, <3>2, SubSeqProperties
    <3>. QED  BY <3>3 DEF from, b
  <2>5. Len(a) = out /\ Len(b) = n - out  BY <1>1, <1>2, <2>3, <2>4
  <2> HIDE DEF a, b
  <2>6. ASSUME NEW i \in 1 .. Len(a)  PROVE a[i] = q[i]
    <3>1. i \in 1 .. out - 1 + 1 /\ 1 + i - 1 = i  BY <1>1, <1>2, <2>5
    <3>. QED  BY <2>3, <3>1
  <2>7. ASSUME NEW i \in 1 .. Len(b)  PROVE b[i] = q[out + i]
    <3>1. i \in 1 .. n - (out + 1) + 1 /\ (out + 1) + i - 1 = out + i
      BY <1>1, <1>2, <2>5
    <3>. QED  BY <2>4, <3>1
  <2>. QED  BY <2>3, <2>4, <2>5, <2>6, <2>7
<1> HIDE DEF n, out, a, b
<1>5. q = a \o b
  <2>1. /\ a \o b \in Seq(Nat) /\ Len(a \o b) = Len(a) + Len(b)
        /\ \A i \in 1 .. Len(a) + Len(b) :
             (a \o b)[i] = IF i <= Len(a) THEN a[i] ELSE b[i - Len(a)]
    BY <1>4, ConcatProperties
  <2>2. Len(a \o b) = n  BY <1>1, <1>2, <1>4, <2>1
  <2>3. ASSUME NEW i \in 1 .. n  PROVE (a \o b)[i] = q[i]
    <3>1. i \in 1 .. Len(a) + Len(b)  BY <1>1, <1>2, <1>4
    <3>2. CASE i <= Len(a)
      <4>1. i \in 1 .. Len(a)  BY <1>1, <1>2, <1>4, <3>2
      <4>. QED  BY <1>4, <2>1, <3>1, <3>2, <4>1
    <3>3. CASE ~(i <= Len(a))
      <4>1. i - Len(a) \in 1 .. Len(b) /\ out + (i - Len(a)) = i
        BY <1>1, <1>2, <1>4, <3>3
      <4>. QED  BY <1>4, <2>1, <3>1, <3>3, <4>1
    <3>. QED  BY <3>2, <3>3
  <2>4. Len(q) = Len(a \o b)  BY <2>2 DEF n
  <2>5. \A i \in 1 .. Len(q) : q[i] = (a \o b)[i]  BY <2>3 DEF n
  <2>. QED  BY <2>1, <2>4, <2>5, SeqEqual
<1>6. Len(b) < BatchSize  BY <1>2, <1>4
<1>. QED  BY <1>4, <1>5, <1>6 DEF a, b, n, out

LEMMA Regroup ==
  ASSUME NEW s \in Seq(Nat), NEW t \in Seq(Nat), NEW u \in Seq(Nat)
  PROVE  (s \o t) \o u = s \o (t \o u)
  BY ConcatAssociative

LEMMA PushKeepsOps ==
  ASSUME BatchInv, NEW h \in HSHeads, NEW new \in Seq(Nat), PushMulti(h, new), ops' \in Nat
  PROVE  BatchInv'
<1> DEFINE queue == slot[h] \o new
           a == SubSeq(queue, 1, BatchSize * Full(queue))
           b == SubSeq(queue, BatchSize * Full(queue) + 1, Len(queue))
<1>1. CASE UNCHANGED batches
  BY <1>1 DEF batches, BatchInv, OpsOnceInOrder
<1>2. CASE /\ h \in hb_active /\ hb_active' = hb_active
           /\ dispatched' = [dispatched EXCEPT ![h] = @ \o a]
           /\ slot' = [slot EXCEPT ![h] = b]
           /\ taken' = [taken EXCEPT ![h] = @ \o new]
  <2>1. slot[h] \in Seq(Nat) /\ dispatched[h] \in Seq(Nat) /\ taken[h] \in Seq(Nat)
    BY DEF BatchInv
  <2>2. queue \in Seq(Nat)  BY <2>1, ConcatProperties
  <2>3. a \in Seq(Nat) /\ b \in Seq(Nat) /\ queue = a \o b /\ Len(b) < BatchSize
    <3> HIDE DEF queue
    <3>. QED  BY <2>2, CutIntoBatches
  <2>4. taken[h] = dispatched[h] \o slot[h]  BY DEF BatchInv, OpsOnceInOrder
  <2>5. taken[h] \o new = (dispatched[h] \o a) \o b
    <3>1. (dispatched[h] \o slot[h]) \o new = dispatched[h] \o queue
      BY <2>1, Regroup
    <3> HIDE DEF queue, a, b
    <3>2. dispatched[h] \o (a \o b) = (dispatched[h] \o a) \o b
      BY <2>1, <2>3, Regroup
    <3>. QED  BY <2>3, <2>4, <3>1, <3>2
  <2> HIDE DEF queue, a, b
  <2>6. dispatched[h] \o a \in Seq(Nat) /\ taken[h] \o new \in Seq(Nat)
    BY <2>1, <2>3, ConcatProperties
  <2>. QED  BY <1>2, <2>3, <2>5, <2>6 DEF BatchInv, OpsOnceInOrder
<1>. QED  BY <1>1, <1>2 DEF PushMulti

LEMMA FlushKeepsOps ==
  ASSUME BatchInv, NEW heads \in SUBSET HSHeads, Flush(heads), ops' = ops,
         \A h \in HSHeads : h \notin hb_active' => h \in heads \/ h \notin hb_active
  PROVE  BatchInv'
<1>1. /\ dispatched' = [h \in HSHeads |->
           IF h \in heads THEN dispatched[h] \o slot[h] ELSE dispatched[h]]
      /\ slot' = [h \in HSHeads |-> IF h \in heads THEN << >> ELSE slot[h]]
      /\ taken' = taken
  BY DEF Flush
<1>2. Len(<< >>) = 0  BY EmptySeq
<1>3. << >> \in Seq(Nat)  BY EmptySeq
<1>4. BatchSize \in Nat \ {0}  BY FrontAssumption
<1>5. ASSUME NEW h \in HSHeads
      PROVE  /\ dispatched'[h] \in Seq(Nat) /\ slot'[h] \in Seq(Nat)
             /\ taken'[h] = dispatched'[h] \o slot'[h]
             /\ Len(slot'[h]) < BatchSize
             /\ h \notin hb_active' => slot'[h] = << >>
  <2>1. /\ slot[h] \in Seq(Nat) /\ dispatched[h] \in Seq(Nat)
        /\ taken[h] = dispatched[h] \o slot[h] /\ Len(slot[h]) < BatchSize
        /\ h \notin hb_active => slot[h] = << >>
    BY DEF BatchInv, OpsOnceInOrder
  <2>2. CASE h \in heads
    <3>1. dispatched[h] \o slot[h] \in Seq(Nat)  BY <2>1, ConcatProperties
    <3>2. (dispatched[h] \o slot[h]) \o << >> = dispatched[h] \o slot[h]
      BY <3>1, ConcatEmptySeq
    <3>3. dispatched'[h] = dispatched[h] \o slot[h] /\ slot'[h] = << >>
      BY <1>1, <2>2
    <3>4. Len(slot'[h]) < BatchSize  BY <1>2, <1>4, <3>3
    <3>. QED  BY <1>1, <1>3, <2>1, <3>1, <3>2, <3>3, <3>4
  <2>3. CASE h \notin heads
    BY <1>1, <2>1, <2>3
  <2>. QED  BY <2>2, <2>3
<1>6. /\ dispatched' = [h \in HSHeads |-> dispatched'[h]]
      /\ slot' = [h \in HSHeads |-> slot'[h]]
  BY <1>1
<1>7. dispatched' \in [HSHeads -> Seq(Nat)] /\ slot' \in [HSHeads -> Seq(Nat)]
  BY <1>5, <1>6
<1>. QED  BY <1>1, <1>5, <1>7 DEF BatchInv, OpsOnceInOrder

LEMMA BatchInitially == FrontInit => BatchInv
<1> SUFFICES ASSUME FrontInit  PROVE BatchInv
  OBVIOUS
<1>1. Len(<< >>) = 0  BY EmptySeq
<1>2. << >> \in Seq(Nat)  BY EmptySeq
<1>3. << >> \o << >> = << >>  BY <1>2, ConcatEmptySeq
<1>4. 0 < BatchSize  BY FrontAssumption
<1>. QED  BY <1>1, <1>2, <1>3, <1>4 DEF FrontInit, BatchInv, OpsOnceInOrder

LEMMA BatchStep ==
  BatchInv /\ [FrontNext]_front => BatchInv'
<1> SUFFICES ASSUME BatchInv, [FrontNext]_front  PROVE BatchInv'
  OBVIOUS
<1>1. ASSUME NEW home \in HSHeads, NEW n \in 1 .. MaxSubmits, Submit(home, n)
      PROVE  BatchInv'
  <2> DEFINE new == [i \in 1 .. n |-> ops + i]
  <2>1. ops \in Nat /\ ops' = ops + n /\ n \in Nat  BY <1>1, FrontAssumption DEF Submit, BatchInv
  <2>2. new \in Seq(Nat)  BY <2>1, IsASeq
  <2>3. UNCHANGED batches \/ \E h \in HSHeads : PushMulti(h, new)
    BY <1>1 DEF Submit
  <2> HIDE DEF new
  <2>4. ops' \in Nat  BY <2>1
  <2>5. CASE UNCHANGED batches
    BY <2>4, <2>5 DEF batches, BatchInv, OpsOnceInOrder
  <2>. QED  BY <2>2, <2>3, <2>4, <2>5, PushKeepsOps
<1>2. ASSUME NEW h \in HSHeads, FlushHead(h) \/ Deactivate(h)  PROVE BatchInv'
  <2>1. /\ Flush({h}) /\ ops' = ops /\ {h} \in SUBSET HSHeads
        /\ hb_active' = hb_active \/ hb_active' = hb_active \ {h}
    BY <1>2 DEF FlushHead, Deactivate
  <2>2. \A g \in HSHeads : g \notin hb_active' => g \in {h} \/ g \notin hb_active
    BY <2>1
  <2>. QED  BY <2>1, <2>2, FlushKeepsOps
<1>3. CASE FlushAll
  <2>1. /\ dispatched' = [h \in HSHeads |->
             IF h \in hb_active THEN dispatched[h] \o slot[h] ELSE dispatched[h]]
        /\ slot' = [h \in HSHeads |-> IF h \in hb_active THEN << >> ELSE slot[h]]
        /\ taken' = taken /\ ops' = ops /\ hb_active' = hb_active
    BY <1>3 DEF FlushAll, Flush
  <2> DEFINE on == hb_active \cap HSHeads
  <2>2. Flush(on)  BY <2>1 DEF Flush
  <2>3. on \in SUBSET HSHeads  OBVIOUS
  <2> HIDE DEF on
  <2>4. \A g \in HSHeads : g \notin hb_active' => g \in on \/ g \notin hb_active
    BY <2>1
  <2>. QED  BY <2>1, <2>2, <2>3, <2>4, FlushKeepsOps
<1>4. ASSUME NEW h \in HSHeads, Activate(h)  PROVE BatchInv'
  BY <1>4 DEF Activate, BatchInv, OpsOnceInOrder
<1>5. CASE Decay \/ Elapse \/ UNCHANGED front
  <2>1. UNCHANGED << slot, hb_active, dispatched, taken, ops >>
    BY <1>5 DEF Decay, Elapse, front, batches
  <2>. QED  BY <2>1 DEF BatchInv, OpsOnceInOrder
<1>. QED  BY <1>1, <1>2, <1>3, <1>4, <1>5 DEF FrontNext

\* hydra_batch_push, push_multi, the flushes and deactivation, for any number of heads,
\* any batch size and any runs of operations: each operation a head took has been handed
\* to dispatch_cb with that head or is in its slot, once and in order, and the slot has
\* room for one more.
THEOREM NothingLeftBehind ==
  HydraSpec => []OpsOnceInOrder
<1>1. HydraInit => BatchInv  BY BatchInitially DEF HydraInit
<1>2. BatchInv /\ [HydraNext]_<< vars, front, guard, part >> => BatchInv'
  <2> SUFFICES ASSUME BatchInv, [HydraNext]_<< vars, front, guard, part >>
               PROVE  BatchInv'
    OBVIOUS
  <2>1. [FrontNext]_front  BY DEF HydraNext
  <2>. QED  BY <2>1, BatchStep
<1>3. BatchInv => OpsOnceInOrder  BY DEF BatchInv
<1>. QED  BY <1>1, <1>2, <1>3, PTL DEF HydraSpec

-----------------------------------------------------------------------------
(* The order of the tasks (HydraHeads).  In a life that began with no call at *)
(* the head, the n-th task accepted is n, and its ring is a circle: m tasks   *)
(* popped and n accepted put the indices at the remainders of m and n.        *)

Counts(s) == \A i \in 1..Len(s) : s[i] = i

RingAt(n, m, qh, qt, ring, producer, consumer) ==
    /\ m <= n /\ n - m < QueueSize
    /\ qh = m % QueueSize /\ qt = n % QueueSize
    /\ \A k \in m + 1..n : ring[(k - 1) % QueueSize] = k
    /\ producer.at \in {"write", "publish"} =>
         producer.value = (n + 1) % QueueSize /\ n - m < QueueSize - 1
    /\ producer.at = "publish" => ring[n % QueueSize] = n + 1
    /\ consumer.at \in {"read", "advance"} => m < n
    /\ consumer.at = "advance" => consumer.value = m + 1

Ring(h) ==
    /\ Counts(accepted[h]) /\ Counts(popped[h])
    /\ RingAt(Len(accepted[h]), Len(popped[h]), q_head[h], q_tail[h], tasks[h],
              push[h], pop[h])

Resets(s) == scaler[s].at \in {"reset_head", "reset_tail"}

\* One spawn at a time is in its critical section, and its head is not settled.
ResetInv ==
    /\ \A s \in Scalers : Resets(s) =>
         spawning = {scaler[s].value} /\ scaler[s].value \notin settled
    /\ \A s, t \in Scalers : Resets(s) /\ Resets(t) => s = t
    /\ \A s \in Scalers : scaler[s].at = "reset_tail" /\ popped[scaler[s].value] = <<>> =>
         q_head[scaler[s].value] = 0

OrderInv == HeadsInv /\ ResetInv /\ \A h \in settled : Ring(h)

LEMMA CountsAppend ==
  ASSUME NEW s \in Seq(Nat), Counts(s)
  PROVE  /\ Counts(Append(s, Len(s) + 1)) /\ Len(s) \in Nat
         /\ Len(Append(s, Len(s) + 1)) = Len(s) + 1
<1> DEFINE n == Len(s)
           t == Append(s, n + 1)
<1>1. n \in Nat  BY LenProperties
<1>2. n + 1 \in Nat  BY <1>1
<1>3. /\ Len(t) = n + 1 /\ t[n + 1] = n + 1
      /\ \A i \in 1..n : t[i] = s[i]
  BY <1>2, AppendProperties
<1> HIDE DEF n, t
<1>4. ASSUME NEW i \in 1..n + 1  PROVE t[i] = i
  <2>1. CASE i = n + 1
    BY <1>3, <2>1
  <2>2. CASE i # n + 1
    <3>1. i \in 1..n  BY <1>1, <2>2
    <3>. QED  BY <1>3, <3>1 DEF Counts, n
  <2>. QED  BY <2>1, <2>2
<1>. QED  BY <1>1, <1>3, <1>4 DEF Counts, n, t

\* One slot past the one after an index is the index: a full ring.
LEMMA FullCircle ==
  ASSUME NEW x \in Int
  PROVE  (x + QueueSize) % QueueSize = x % QueueSize
<1> DEFINE q == x \div QueueSize
           r == x % QueueSize
           q1 == q + 1
<1>1. QueueSize \in Nat \ {0}  BY HeadsAssumption
<1>2. q \in Int /\ r \in 0..QueueSize - 1 /\ x = QueueSize * q + r
  BY <1>1, Division
<1> HIDE DEF q, r
<1>3. QueueSize * q1 = QueueSize * q + QueueSize * 1  BY <1>1, <1>2, Distribute
<1>4. x + QueueSize = QueueSize * q1 + r /\ q1 \in Int
  BY <1>1, <1>2, <1>3
<1>5. x + QueueSize \in Int  BY <1>1
<1> HIDE DEF q1
<1>6. (x + QueueSize) % QueueSize = r  BY <1>1, <1>2, <1>4, <1>5, RemainderUnique
<1>. QED  BY <1>6 DEF r

\* dh_depth of a ring in order.
LEMMA DepthOf ==
  ASSUME NEW n \in Nat, NEW m \in Nat, m <= n, n - m < QueueSize
  PROVE  ((n % QueueSize) + QueueSize - (m % QueueSize)) % QueueSize = n - m
<1> DEFINE x == n % QueueSize
           y == m % QueueSize
           d == x - y
<1>1. QueueSize \in Nat \ {0}  BY HeadsAssumption
<1>2. x \in 0..QueueSize - 1 /\ y \in 0..QueueSize - 1  BY <1>1, Division
<1>3. n - m \in 0..QueueSize - 1  BY <1>1
<1>a. n \in Int /\ m \in Int  OBVIOUS
<1>4. ((n % QueueSize) - (m % QueueSize)) % QueueSize = n - m
  BY <1>1, <1>3, <1>a, RemainderDistance
<1> HIDE DEF x, y
<1>5. d \in Int /\ x + QueueSize - y = d + QueueSize  BY <1>1, <1>2
<1>6. (d + QueueSize) % QueueSize = d % QueueSize  BY <1>5, FullCircle
<1>. QED  BY <1>4, <1>5, <1>6 DEF x, y

LEMMA InOrder ==
  ASSUME TypeOK, NEW h \in Heads, Ring(h)
  PROVE  accepted[h] = popped[h] \o Waiting(h)
<1> DEFINE n == Len(accepted[h])
           m == Len(popped[h])
           a == accepted[h]
           p == popped[h]
           w == Waiting(h)
<1>1. /\ a \in Seq(Nat) /\ p \in Seq(Nat) /\ n \in Nat /\ m \in Nat
      /\ QueueSize \in Nat \ {0} /\ tasks[h] \in [Slots -> Nat]
  <2>1. a \in Seq(Nat) /\ p \in Seq(Nat) /\ tasks[h] \in [Slots -> Nat]  BY DEF TypeOK
  <2>. QED  BY <2>1, LenProperties, HeadsAssumption
<1>2. /\ m <= n /\ n - m < QueueSize
      /\ q_head[h] = m % QueueSize /\ q_tail[h] = n % QueueSize
      /\ \A k \in m + 1..n : tasks[h][(k - 1) % QueueSize] = k
      /\ \A i \in 1..n : a[i] = i
      /\ \A i \in 1..m : p[i] = i
  BY DEF Ring, RingAt, Counts
<1>3. Depth(h) = n - m  BY <1>1, <1>2, DepthOf DEF Depth
<1> HIDE DEF n, m
<1>4. ASSUME NEW i \in 1..n - m
      PROVE  tasks[h][(q_head[h] + i - 1) % QueueSize] = m + i
  <2> DEFINE j == i - 1
             k == m + i
  <2>a. m \in Int /\ QueueSize \in Nat \ {0} /\ i \in Int  BY <1>1
  <2>b. (m % QueueSize) \in Int  BY <2>a, Division
  <2>1. j \in Int /\ k \in m + 1..n /\ k - 1 = m + j
    BY <1>1, <1>2
  <2>2. ((m % QueueSize) + j) % QueueSize = (m + j) % QueueSize
    <3>1. j \in Int  BY <2>1
    <3> HIDE DEF j
    <3>. QED  BY <2>a, <3>1, RemainderAdd
  <2>3. q_head[h] + i - 1 = (m % QueueSize) + j
    <3> DEFINE rm == m % QueueSize
    <3>1. q_head[h] = rm /\ rm \in Int  BY <1>2, <2>b
    <3> HIDE DEF rm
    <3>2. q_head[h] + i - 1 = rm + j  BY <2>a, <3>1
    <3>. QED  BY <3>2 DEF rm
  <2> HIDE DEF j, k
  <2>4. tasks[h][(k - 1) % QueueSize] = k  BY <1>2, <2>1
  <2>. QED  BY <2>1, <2>2, <2>3, <2>4 DEF k
<1>5. w = [i \in 1..n - m |-> m + i]
  BY <1>3, <1>4 DEF Waiting
<1>6. n - m \in Nat  BY <1>1, <1>2
<1>7. w \in Seq(Nat) /\ Len(w) = n - m /\ \A i \in 1..n - m : w[i] = m + i
  <2>1. \A i \in 1..n - m : m + i \in Nat  BY <1>1
  <2>2. w \in [1..n - m -> Nat]  BY <1>5, <2>1
  <2>. QED  BY <1>5, <1>6, <2>2, SeqDef, LenProperties
<1> HIDE DEF a, p, w
<1>8. Len(a) = n /\ Len(p) = m  BY DEF n, m, a, p
<1>9. /\ p \o w \in Seq(Nat) /\ Len(p \o w) = m + (n - m)
      /\ \A i \in 1..m + (n - m) : (p \o w)[i] = IF i <= m THEN p[i] ELSE w[i - m]
  <2>1. /\ p \o w \in Seq(Nat) /\ Len(p \o w) = Len(p) + Len(w)
        /\ \A i \in 1..Len(p) + Len(w) :
             (p \o w)[i] = IF i <= Len(p) THEN p[i] ELSE w[i - Len(p)]
    <3>1. p \in Seq(Nat) /\ w \in Seq(Nat)  BY <1>1, <1>7
    <3>. QED  BY <3>1, ConcatProperties
  <2>2. Len(p) = m /\ Len(w) = n - m  BY <1>7, <1>8
  <2>. QED  BY <2>1, <2>2
<1>10. m + (n - m) = n  BY <1>1
<1>11. ASSUME NEW i \in 1..n  PROVE a[i] = (p \o w)[i]
  <2>1. CASE i <= m
    <3>1. i \in 1..m  BY <1>1, <2>1
    <3>. QED  BY <1>2, <1>9, <1>10, <2>1, <3>1 DEF a, p
  <2>2. CASE ~(i <= m)
    <3>1. i - m \in 1..n - m /\ m + (i - m) = i  BY <1>1, <2>2
    <3>. QED  BY <1>2, <1>7, <1>9, <1>10, <2>2, <3>1 DEF a
  <2>. QED  BY <2>1, <2>2
<1>12. a = p \o w  BY <1>1, <1>8, <1>9, <1>10, <1>11, SeqEqual
<1>. QED  BY <1>12 DEF a, p, w

\* What each call does to a ring in order.
LEMMA RingBounds ==
  ASSUME NEW n \in Nat, NEW m \in Nat, NEW qh, NEW qt, NEW ring, NEW producer, NEW consumer,
         RingAt(n, m, qh, qt, ring, producer, consumer)
  PROVE  /\ QueueSize \in Nat \ {0} /\ n \in Int /\ m \in Int
         /\ (n % QueueSize) \in Int /\ (m % QueueSize) \in Int
         /\ Next1(qt) = (n + 1) % QueueSize /\ Next1(qh) = (m + 1) % QueueSize
<1>1. QueueSize \in Nat \ {0} /\ n \in Int /\ m \in Int /\ 1 \in Int
  BY HeadsAssumption
<1>2. (n % QueueSize) \in Int /\ (m % QueueSize) \in Int  BY <1>1, Division
<1>3. /\ ((n % QueueSize) + 1) % QueueSize = (n + 1) % QueueSize
      /\ ((m % QueueSize) + 1) % QueueSize = (m + 1) % QueueSize
  BY <1>1, RemainderAdd
<1>4. qh = m % QueueSize /\ qt = n % QueueSize  BY DEF RingAt
<1>. QED  BY <1>1, <1>2, <1>3, <1>4, Zenon DEF Next1

LEMMA RingRoom ==
  ASSUME NEW n \in Nat, NEW m \in Nat, NEW qh, NEW qt, NEW ring, NEW producer, NEW consumer,
         RingAt(n, m, qh, qt, ring, producer, consumer), Next1(qt) # qh
  PROVE  RingAt(n, m, qh, qt, ring, At("write", Next1(qt)), consumer)
<1>1. QueueSize \in Nat \ {0} /\ Next1(qt) = (n + 1) % QueueSize
  BY RingBounds
<1>2. n - m # QueueSize - 1
  <2> SUFFICES ASSUME n - m = QueueSize - 1  PROVE FALSE
    OBVIOUS
  <2>1. n + 1 = m + QueueSize /\ m \in Int  BY <1>1
  <2>2. (m + QueueSize) % QueueSize = m % QueueSize  BY <2>1, FullCircle
  <2>3. qh = m % QueueSize  BY DEF RingAt
  <2>. QED  BY <1>1, <2>1, <2>2, <2>3, Zenon
<1>3. n - m < QueueSize - 1  BY <1>1, <1>2 DEF RingAt
<1>. QED  BY <1>1, <1>3, Zenon DEF RingAt, At

LEMMA RingWrite ==
  ASSUME NEW n \in Nat, NEW m \in Nat, NEW qh, NEW qt, NEW ring \in [Slots -> Nat],
         NEW producer \in StepsOf({"write"}), NEW consumer,
         RingAt(n, m, qh, qt, ring, producer, consumer)
  PROVE  RingAt(n, m, qh, qt, [ring EXCEPT ![qt] = n + 1],
                [producer EXCEPT !.at = "publish"], consumer)
<1> DEFINE new == [ring EXCEPT ![qt] = n + 1]
           sent == [producer EXCEPT !.at = "publish"]
<1>1. QueueSize \in Nat \ {0} /\ n \in Int /\ m \in Int  BY RingBounds
<1>2. /\ m <= n /\ n - m < QueueSize - 1
      /\ qh = m % QueueSize /\ qt = n % QueueSize
      /\ \A k \in m + 1..n : ring[(k - 1) % QueueSize] = k
      /\ producer.value = (n + 1) % QueueSize
      /\ consumer.at \in {"read", "advance"} => m < n
      /\ consumer.at = "advance" => consumer.value = m + 1
  BY DEF RingAt, StepsOf
<1>3. sent.at = "publish" /\ sent.value = producer.value  BY DEF StepsOf
<1>4. \A x \in Int : (x % QueueSize) \in Slots  BY <1>1, Division DEF Slots
<1>5. new[n % QueueSize] = n + 1  BY <1>1, <1>2, <1>4
<1>6. ASSUME NEW k \in m + 1..n  PROVE new[(k - 1) % QueueSize] = k
  <2> DEFINE j == k - 1
  <2>1. j \in Int /\ j # n /\ j - n < QueueSize /\ n - j < QueueSize
    BY <1>1, <1>2
  <2>2. ring[j % QueueSize] = k  BY <1>2
  <2> HIDE DEF j
  <2>3. j % QueueSize # n % QueueSize  BY <1>1, <2>1, RemainderDistinct
  <2>4. (j % QueueSize) \in Slots  BY <1>4, <2>1
  <2>5. new[j % QueueSize] = k  BY <1>2, <2>2, <2>3, <2>4
  <2>. QED  BY <2>5 DEF j
<1>7. n - m < QueueSize  BY <1>1, <1>2
<1> HIDE DEF new, sent
<1>. QED  BY <1>2, <1>3, <1>5, <1>6, <1>7, Zenon DEF RingAt, new, sent

LEMMA RingPublish ==
  ASSUME NEW n \in Nat, NEW m \in Nat, NEW qh, NEW qt, NEW ring, NEW producer, NEW consumer,
         RingAt(n, m, qh, qt, ring, producer, consumer), producer.at = "publish"
  PROVE  RingAt(n + 1, m, qh, producer.value, ring, Idle, consumer)
<1> DEFINE n1 == n + 1
<1>1. QueueSize \in Nat \ {0} /\ n \in Int /\ m \in Int  BY RingBounds
<1>2. /\ m <= n /\ n - m < QueueSize - 1
      /\ qh = m % QueueSize /\ qt = n % QueueSize
      /\ \A k \in m + 1..n : ring[(k - 1) % QueueSize] = k
      /\ producer.value = n1 % QueueSize
      /\ ring[n % QueueSize] = n1
      /\ consumer.at \in {"read", "advance"} => m < n
      /\ consumer.at = "advance" => consumer.value = m + 1
  BY DEF RingAt
<1>3. m <= n1 /\ n1 - m < QueueSize /\ (m < n => m < n1)  BY <1>1, <1>2
<1>4. ASSUME NEW k \in m + 1..n1  PROVE ring[(k - 1) % QueueSize] = k
  <2>1. CASE k = n1
    <3>1. k - 1 = n  BY <1>1, <2>1
    <3>. QED  BY <1>2, <2>1, <3>1
  <2>2. CASE k # n1
    <3>1. k \in m + 1..n  BY <1>1, <2>2
    <3>. QED  BY <1>2, <3>1
  <2>. QED  BY <2>1, <2>2
<1> HIDE DEF n1
<1>5. Idle.at = "idle"  BY DEF Idle
<1>. QED  BY <1>2, <1>3, <1>4, <1>5 DEF RingAt, n1

LEMMA RingRead ==
  ASSUME NEW n \in Nat, NEW m \in Nat, NEW qh, NEW qt, NEW ring, NEW producer, NEW consumer,
         RingAt(n, m, qh, qt, ring, producer, consumer), consumer.at = "read"
  PROVE  RingAt(n, m, qh, qt, ring, producer, At("advance", ring[qh]))
<1>1. m < n  BY DEF RingAt
<1>2. m + 1 \in m + 1..n /\ (m + 1) - 1 = m  BY <1>1
<1>3. ring[qh] = m + 1  BY <1>2 DEF RingAt
<1>. QED  BY <1>1, <1>3, Zenon DEF RingAt, At

LEMMA RingAdvance ==
  ASSUME NEW n \in Nat, NEW m \in Nat, NEW qh, NEW qt, NEW ring, NEW producer, NEW consumer,
         RingAt(n, m, qh, qt, ring, producer, consumer), consumer.at = "advance"
  PROVE  RingAt(n, m + 1, Next1(qh), qt, ring, producer, Idle)
<1> DEFINE m1 == m + 1
<1>1. /\ QueueSize \in Nat \ {0} /\ n \in Int /\ m \in Int
      /\ Next1(qh) = m1 % QueueSize
  BY RingBounds
<1>2. /\ m <= n /\ n - m < QueueSize /\ m < n
      /\ qt = n % QueueSize
      /\ \A k \in m + 1..n : ring[(k - 1) % QueueSize] = k
      /\ producer.at \in {"write", "publish"} =>
           producer.value = (n + 1) % QueueSize /\ n - m < QueueSize - 1
      /\ producer.at = "publish" => ring[n % QueueSize] = n + 1
  BY DEF RingAt
<1>3. /\ m1 <= n /\ n - m1 < QueueSize
      /\ n - m < QueueSize - 1 => n - m1 < QueueSize - 1
  BY <1>1, <1>2
<1>4. ASSUME NEW k \in m1 + 1..n  PROVE ring[(k - 1) % QueueSize] = k
  <2>1. k \in m + 1..n  BY <1>1
  <2>. QED  BY <1>2, <2>1
<1>5. Idle.at = "idle"  BY DEF Idle
<1> HIDE DEF m1
<1>. QED  BY <1>1, <1>2, <1>3, <1>4, <1>5 DEF RingAt, m1

\* A ring nobody has used yet in this life.
LEMMA RingFresh ==
  ASSUME NEW ring, NEW producer, NEW consumer, producer.at = "idle", consumer.at = "idle"
  PROVE  RingAt(0, 0, 0, 0, ring, producer, consumer)
<1>1. QueueSize \in Nat \ {0} /\ 0 \in 0..QueueSize - 1  BY HeadsAssumption
<1>2. 0 % QueueSize = 0  BY <1>1, RemainderSmall
<1>3. 0 <= 0 /\ 0 - 0 < QueueSize /\ 0 + 1..0 = {}  BY <1>1
<1>. QED  BY <1>2, <1>3 DEF RingAt

LEMMA SettledFresh ==
  ASSUME NEW h \in Heads, accepted[h] = <<>>, popped[h] = <<>>, q_head[h] = 0,
         q_tail[h] = 0, push[h].at = "idle", pop[h].at = "idle"
  PROVE  Ring(h)
<1>1. Len(<<>>) = 0  BY EmptySeq
<1>2. Counts(<<>>)  BY <1>1 DEF Counts
<1>. QED  BY <1>1, <1>2, RingFresh DEF Ring

\* A step that leaves everything of a head alone keeps its ring.
LEMMA RingUntouched ==
  ASSUME NEW h \in Heads, Ring(h),
         accepted'[h] = accepted[h], popped'[h] = popped[h], q_head'[h] = q_head[h],
         q_tail'[h] = q_tail[h], tasks'[h] = tasks[h], push'[h] = push[h], pop'[h] = pop[h]
  PROVE  Ring(h)'
  BY DEF Ring

LEMMA ClientRing ==
  ASSUME HeadsInv, NEW h \in Busy, NEW g \in Heads, Ring(g),
         \/ PushCheck(h) \/ PushRoom(h) \/ PushWrite(h) \/ PushPublish(h)
         \/ PopCheck(h) \/ PopSee(h) \/ PopRead(h) \/ PopAdvance(h)
  PROVE  Ring(g)'
<1> USE DEF rings
<1>0. TypeOK /\ h \in Heads  BY HeadsAssumption DEF HeadsInv, HeadsCounted, Heads
<1>a. /\ push \in [Heads -> StepsOf({"idle", "room", "write", "publish"})]
      /\ pop \in [Heads -> StepsOf({"idle", "see", "read", "advance"})]
      /\ q_head \in [Heads -> Slots] /\ q_tail \in [Heads -> Slots]
      /\ tasks \in [Heads -> [Slots -> Nat]]
      /\ accepted \in [Heads -> Seq(Nat)] /\ popped \in [Heads -> Seq(Nat)]
  BY <1>0 DEF TypeOK
<1>1. CASE g # h
  <2>1. /\ accepted'[g] = accepted[g] /\ popped'[g] = popped[g]
        /\ q_head'[g] = q_head[g] /\ q_tail'[g] = q_tail[g] /\ tasks'[g] = tasks[g]
        /\ push'[g] = push[g] /\ pop'[g] = pop[g]
    BY <1>a, <1>1, Zenon DEF PushCheck, PushRoom, PushWrite, PushPublish, PopCheck, PopSee,
       PopRead, PopAdvance
  <2>. QED  BY <2>1, RingUntouched
<1>2. CASE g = h
  <2> DEFINE n == Len(accepted[h])
             m == Len(popped[h])
  <2>1. n \in Nat /\ m \in Nat  BY <1>0, <1>a, LenProperties
  <2>2. /\ Counts(accepted[h]) /\ Counts(popped[h])
        /\ RingAt(n, m, q_head[h], q_tail[h], tasks[h], push[h], pop[h])
    BY <1>2 DEF Ring
  <2> HIDE DEF n, m
  <2>3. ASSUME UNCHANGED <<accepted, popped>>,
               RingAt(n, m, q_head'[h], q_tail'[h], tasks'[h], push'[h], pop'[h])
        PROVE  Ring(g)'
    BY <1>2, <2>2, <2>3 DEF Ring, n, m
  <2>4. CASE PushCheck(h)
    <3>1. /\ push'[h].at = "room" /\ UNCHANGED <<q_head, q_tail, tasks, pop, accepted, popped>>
      BY <1>0, <1>a, <2>4 DEF PushCheck, At
    <3>2. RingAt(n, m, q_head[h], q_tail[h], tasks[h], push'[h], pop[h])
      BY <2>2, <3>1, Zenon DEF RingAt
    <3>. QED  BY <2>3, <3>1, <3>2
  <2>5. CASE PushRoom(h)
    <3>1. UNCHANGED <<q_head, q_tail, tasks, pop, accepted, popped>>
      BY <2>5 DEF PushRoom
    <3>2. CASE PushIsFull(h)
      <4>1. push'[h].at = "idle"  BY <1>0, <1>a, <2>5, <3>2 DEF PushRoom, Idle
      <4>2. RingAt(n, m, q_head[h], q_tail[h], tasks[h], push'[h], pop[h])
        BY <2>2, <4>1, Zenon DEF RingAt
      <4>. QED  BY <2>3, <3>1, <4>2
    <3>3. CASE ~PushIsFull(h)
      <4>1. push'[h] = At("write", Next1(q_tail[h])) /\ Next1(q_tail[h]) # q_head[h]
        BY <1>0, <1>a, <2>5, <3>3 DEF PushRoom, PushIsFull
      <4>2. RingAt(n, m, q_head[h], q_tail[h], tasks[h], push'[h], pop[h])
        BY <2>1, <2>2, <4>1, RingRoom
      <4>. QED  BY <2>3, <3>1, <4>2
    <3>. QED  BY <3>2, <3>3
  <2>6. CASE PushWrite(h)
    <3>1. /\ UNCHANGED <<q_head, q_tail, pop, accepted, popped>>
          /\ push'[h] = [push[h] EXCEPT !.at = "publish"]
          /\ tasks'[h] = [tasks[h] EXCEPT ![q_tail[h]] = n + 1]
      BY <1>0, <1>a, <2>6 DEF PushWrite, n
    <3>2. tasks[h] \in [Slots -> Nat] /\ push[h] \in StepsOf({"write"})
      BY <1>0, <1>a, <2>6 DEF PushWrite, StepsOf
    <3>3. RingAt(n, m, q_head[h], q_tail[h], tasks'[h], push'[h], pop[h])
      BY <2>1, <2>2, <3>1, <3>2, RingWrite
    <3>. QED  BY <2>3, <3>1, <3>3
  <2>7. CASE PushPublish(h)
    <3>1. /\ UNCHANGED <<q_head, tasks, pop, popped>>
          /\ push[h].at = "publish" /\ push'[h] = Idle /\ q_tail'[h] = push[h].value
          /\ accepted'[h] = Append(accepted[h], n + 1)
      BY <1>0, <1>a, <2>7 DEF PushPublish, n
    <3>2. RingAt(n + 1, m, q_head[h], q_tail'[h], tasks[h], push'[h], pop[h])
      BY <2>1, <2>2, <3>1, RingPublish
    <3>3. Counts(accepted'[h]) /\ Len(accepted'[h]) = n + 1
      <4>1. accepted[h] \in Seq(Nat)  BY <1>0, <1>a
      <4>. QED  BY <2>2, <3>1, <4>1, CountsAppend DEF n
    <3>4. q_head'[h] = q_head[h] /\ tasks'[h] = tasks[h] /\ pop'[h] = pop[h]
          /\ popped'[h] = popped[h] /\ Len(popped'[h]) = m
      BY <3>1 DEF m
    <3>. QED  BY <1>2, <2>2, <3>2, <3>3, <3>4, Zenon DEF Ring
  <2>8. CASE PopCheck(h)
    <3>1. /\ pop'[h].at = "see" /\ UNCHANGED <<q_head, q_tail, tasks, push, accepted, popped>>
      BY <1>0, <1>a, <2>8 DEF PopCheck, At
    <3>2. RingAt(n, m, q_head[h], q_tail[h], tasks[h], push[h], pop'[h])
      BY <2>2, <3>1, Zenon DEF RingAt
    <3>. QED  BY <2>3, <3>1, <3>2
  <2>9. CASE PopSee(h)
    <3>1. UNCHANGED <<q_head, q_tail, tasks, push, accepted, popped>>
      BY <2>9 DEF PopSee
    <3>2. /\ q_head[h] = q_tail[h] => pop'[h].at = "idle"
          /\ q_head[h] # q_tail[h] => pop'[h].at = "read"
      BY <1>0, <1>a, <2>9 DEF PopSee, At, Idle
    <3>3. q_head[h] # q_tail[h] => m < n
      <4>1. m <= n /\ q_head[h] = m % QueueSize /\ q_tail[h] = n % QueueSize
        BY <2>2 DEF RingAt
      <4>2. m = n \/ m < n  BY <2>1, <4>1
      <4>. QED  BY <4>1, <4>2, Zenon
    <3>4. RingAt(n, m, q_head[h], q_tail[h], tasks[h], push[h], pop'[h])
      BY <2>2, <3>2, <3>3, Zenon DEF RingAt
    <3>. QED  BY <2>3, <3>1, <3>4
  <2>10. CASE PopRead(h)
    <3>1. /\ UNCHANGED <<q_head, q_tail, tasks, push, accepted, popped>>
          /\ pop[h].at = "read" /\ pop'[h] = At("advance", tasks[h][q_head[h]])
      BY <1>0, <1>a, <2>10 DEF PopRead
    <3>2. RingAt(n, m, q_head[h], q_tail[h], tasks[h], push[h], pop'[h])
      BY <2>1, <2>2, <3>1, RingRead
    <3>. QED  BY <2>3, <3>1, <3>2
  <2>11. CASE PopAdvance(h)
    <3>1. /\ UNCHANGED <<q_tail, tasks, push, accepted>>
          /\ pop[h].at = "advance" /\ pop'[h] = Idle /\ q_head'[h] = Next1(q_head[h])
          /\ popped'[h] = Append(popped[h], pop[h].value)
      BY <1>0, <1>a, <2>11 DEF PopAdvance
    <3>2. RingAt(n, m + 1, q_head'[h], q_tail[h], tasks[h], push[h], pop'[h])
      BY <2>1, <2>2, <3>1, RingAdvance
    <3>3. pop[h].value = m + 1  BY <2>2, <3>1 DEF RingAt
    <3>4. Counts(popped'[h]) /\ Len(popped'[h]) = m + 1
      <4>1. popped[h] \in Seq(Nat)  BY <1>0, <1>a
      <4>. QED  BY <2>2, <3>1, <3>3, <4>1, CountsAppend DEF m
    <3>5. q_tail'[h] = q_tail[h] /\ tasks'[h] = tasks[h] /\ push'[h] = push[h]
          /\ accepted'[h] = accepted[h] /\ Len(accepted'[h]) = n
      BY <3>1 DEF n
    <3>. QED  BY <1>2, <2>2, <3>2, <3>4, <3>5, Zenon DEF Ring
  <2>. QED  BY <2>4, <2>5, <2>6, <2>7, <2>8, <2>9, <2>10, <2>11
<1>. QED  BY <1>1, <1>2

LEMMA ClientResets ==
  ASSUME HeadsInv, ResetInv, NEW h \in Busy,
         \/ PushCheck(h) \/ PushRoom(h) \/ PushWrite(h) \/ PushPublish(h)
         \/ PopCheck(h) \/ PopSee(h) \/ PopRead(h) \/ PopAdvance(h)
  PROVE  ResetInv'
<1> USE DEF rings
<1>0. UNCHANGED <<scaler, spawning, settled>>
  BY DEF PushCheck, PushRoom, PushWrite, PushPublish, PopCheck, PopSee, PopRead, PopAdvance
<1>1. ASSUME NEW s \in Scalers, scaler'[s].at = "reset_tail", popped'[scaler'[s].value] = <<>>
      PROVE  q_head'[scaler'[s].value] = 0
  <2> DEFINE g == scaler[s].value
  <2>1. scaler[s].at = "reset_tail" /\ popped'[g] = <<>>  BY <1>0, <1>1
  <2>2. g \in Heads  BY <2>1 DEF HeadsInv, StepValues
  <2>3. h \in Heads /\ popped \in [Heads -> Seq(Nat)] /\ q_head \in [Heads -> Slots]
    BY HeadsAssumption DEF HeadsInv, HeadsCounted, TypeOK, Heads
  <2>4. UNCHANGED <<popped, q_head>> \/ PopAdvance(h)
    BY DEF PushCheck, PushRoom, PushWrite, PushPublish, PopCheck, PopSee, PopRead
  <2>5. CASE UNCHANGED <<popped, q_head>>
    BY <1>0, <2>1, <2>5 DEF ResetInv
  <2>6. CASE PopAdvance(h)
    <3>1. g # h
      <4> SUFFICES ASSUME g = h  PROVE FALSE
        OBVIOUS
      <4>1. popped'[h] = Append(popped[h], pop[h].value)
        BY <2>3, <2>6 DEF PopAdvance
      <4>2. Append(popped[h], pop[h].value) # <<>>
        BY <2>3
      <4>. QED  BY <2>1, <4>1, <4>2
    <3>2. popped'[g] = popped[g] /\ q_head'[g] = q_head[g]
      BY <2>2, <2>3, <2>6, <3>1 DEF PopAdvance
    <3>. QED  BY <1>0, <2>1, <3>2 DEF ResetInv
  <2>. QED  BY <2>4, <2>5, <2>6
<1>. QED  BY <1>0, <1>1 DEF ResetInv, Resets

\* A scaler that is not resetting a head, and will not, leaves the rings in order.
LEMMA QuietScaler ==
  ASSUME HeadsInv, ResetInv, NEW s \in Scalers, ~Resets(s),
         \A t \in Scalers \ {s} : scaler'[t] = scaler[t],
         scaler'[s].at \notin {"reset_head", "reset_tail"},
         UNCHANGED <<rings, spawning, clients, settled>>
  PROVE  ResetInv' /\ \A h \in Heads : Ring(h) => Ring(h)'
<1>1. \A t \in Scalers : Resets(t)' => Resets(t) /\ scaler'[t] = scaler[t]
  BY DEF Resets
<1>2. ResetInv'
  BY <1>1 DEF ResetInv, Resets, rings, clients
<1>3. \A h \in Heads : Ring(h) => Ring(h)'
  BY DEF Ring, rings, clients
<1>. QED  BY <1>2, <1>3

LEMMA ActivateOrder ==
  ASSUME HeadsInv, ResetInv, NEW s \in Scalers, SpawnActivate(s)
  PROVE  /\ ResetInv' /\ settled' \subseteq settled
         /\ \A h \in settled' : Ring(h) => Ring(h)'
<1>0. TypeOK  BY DEF HeadsInv, HeadsCounted
<1>1. PICK h \in Heads \ active :
        /\ spawning' = {h} /\ settled' = settled \ {h}
        /\ scaler' = [scaler EXCEPT ![s] = At("reset_head", h)]
        /\ accepted' = [accepted EXCEPT ![h] = <<>>]
        /\ popped' = [popped EXCEPT ![h] = <<>>]
  BY DEF SpawnActivate
<1>2. LockFree /\ UNCHANGED <<q_head, q_tail, tasks, push, pop>>
  BY DEF SpawnActivate, rings
<1>3. \A t \in Scalers : ~Resets(t)  BY <1>2 DEF ResetInv, LockFree
<1>4. scaler'[s] = At("reset_head", h) /\ \A t \in Scalers \ {s} : scaler'[t] = scaler[t]
  BY <1>0, <1>1 DEF TypeOK
<1>5. /\ scaler'[s].at = "reset_head" /\ scaler'[s].value = h
      /\ \A t \in Scalers : Resets(t)' => t = s
  BY <1>3, <1>4 DEF Resets, At
<1>6. ResetInv'  BY <1>1, <1>5 DEF ResetInv, Resets
<1>7. ASSUME NEW g \in settled', Ring(g)  PROVE Ring(g)'
  <2>1. g \in Heads /\ g # h  BY <1>0, <1>1 DEF TypeOK
  <2>2. accepted'[g] = accepted[g] /\ popped'[g] = popped[g]
    BY <1>0, <1>1, <2>1 DEF TypeOK
  <2>. QED  BY <1>2, <1>7, <2>1, <2>2, RingUntouched
<1>. QED  BY <1>1, <1>6, <1>7

LEMMA ResetHeadOrder ==
  ASSUME HeadsInv, ResetInv, NEW s \in Scalers, SpawnResetHead(s)
  PROVE  /\ ResetInv' /\ settled' = settled
         /\ \A h \in settled : Ring(h) => Ring(h)'
<1> DEFINE v == scaler[s].value
<1>0. TypeOK /\ v \in Heads
  BY DEF HeadsInv, HeadsCounted, StepValues, SpawnResetHead
<1>1. /\ Resets(s) /\ q_head' = [q_head EXCEPT ![v] = 0]
      /\ scaler' = [scaler EXCEPT ![s].at = "reset_tail"]
      /\ UNCHANGED <<q_tail, tasks, spawning, push, pop, accepted, popped, settled>>
  BY DEF SpawnResetHead, Resets, clients
<1>2. /\ scaler'[s].at = "reset_tail" /\ scaler'[s].value = v
      /\ \A t \in Scalers \ {s} : scaler'[t] = scaler[t]
  BY <1>0, <1>1 DEF TypeOK, StepsOf
<1>3. \A t \in Scalers : Resets(t) => t = s  BY <1>1 DEF ResetInv
<1>4. \A t \in Scalers : Resets(t)' => t = s  BY <1>2, <1>3 DEF Resets
<1>5. spawning = {v} /\ v \notin settled  BY <1>1 DEF ResetInv
<1>6. q_head'[v] = 0  BY <1>0, <1>1 DEF TypeOK
<1>7. ResetInv'  BY <1>1, <1>2, <1>4, <1>5, <1>6 DEF ResetInv, Resets
<1>8. ASSUME NEW g \in settled, Ring(g)  PROVE Ring(g)'
  <2>1. g \in Heads /\ g # v  BY <1>0, <1>5 DEF TypeOK
  <2>2. q_head'[g] = q_head[g]  BY <1>0, <1>1, <2>1 DEF TypeOK
  <2>. QED  BY <1>1, <1>8, <2>1, <2>2, RingUntouched
<1>. QED  BY <1>1, <1>7, <1>8

LEMMA ResetTailOrder ==
  ASSUME HeadsInv, ResetInv, NEW s \in Scalers, SpawnResetTail(s),
         \A h \in settled : Ring(h)
  PROVE  ResetInv' /\ \A h \in settled' : Ring(h)'
<1>a. TypeOK /\ scaler[s].value \in Heads
  BY DEF HeadsInv, HeadsCounted, StepValues, SpawnResetTail
<1>0. PICK v \in Heads : v = scaler[s].value /\ TypeOK
  BY <1>a
<1>1. /\ Resets(s) /\ scaler[s].at = "reset_tail"
      /\ q_tail' = [q_tail EXCEPT ![v] = 0]
      /\ spawning' = {}
      /\ settled' = IF Untouched(v) THEN settled \cup {v} ELSE settled
      /\ scaler' = [scaler EXCEPT ![s] = Idle]
      /\ UNCHANGED <<q_head, tasks, push, pop, accepted, popped>>
  BY <1>0 DEF SpawnResetTail, Resets, ResetTail, Done, clients
<1>2. /\ scaler'[s].at = "idle"
      /\ \A t \in Scalers \ {s} : scaler'[t] = scaler[t]
  BY <1>0, <1>1 DEF TypeOK, Idle
<1>3. \A t \in Scalers : Resets(t) => t = s  BY <1>1 DEF ResetInv
<1>4. \A t \in Scalers : ~Resets(t)'  BY <1>2, <1>3 DEF Resets
<1>5. ResetInv'  BY <1>4 DEF ResetInv, Resets
<1>6. v \notin settled  BY <1>0, <1>1 DEF ResetInv
<1>7. ASSUME NEW g \in settled  PROVE Ring(g)'
  <2>1. g \in Heads /\ g # v /\ Ring(g)  BY <1>0, <1>6 DEF TypeOK
  <2>2. q_tail'[g] = q_tail[g]  BY <1>0, <1>1, <2>1 DEF TypeOK
  <2>. QED  BY <1>1, <2>1, <2>2, RingUntouched
<1>8. ASSUME Untouched(v)  PROVE Ring(v)'
  <2>1. /\ push[v].at = "idle" /\ pop[v].at = "idle"
        /\ accepted[v] = <<>> /\ popped[v] = <<>>
    BY <1>8 DEF Untouched
  <2>2. q_head[v] = 0  BY <1>0, <1>1, <2>1 DEF ResetInv
  <2>3. q_tail'[v] = 0  BY <1>0, <1>1 DEF TypeOK
  <2>4. Len(<<>>) = 0  BY EmptySeq
  <2>5. Counts(<<>>)  BY <2>4 DEF Counts
  <2>6. RingAt(0, 0, 0, 0, tasks[v], push[v], pop[v])  BY <2>1, RingFresh
  <2>7. /\ accepted'[v] = <<>> /\ popped'[v] = <<>> /\ q_head'[v] = 0
        /\ tasks'[v] = tasks[v] /\ push'[v] = push[v] /\ pop'[v] = pop[v]
    BY <1>1, <2>1, <2>2
  <2>. QED  BY <2>3, <2>4, <2>5, <2>6, <2>7, Zenon DEF Ring
<1>9. \A g \in settled' : g \in settled \/ (g = v /\ Untouched(v))
  BY <1>1
<1>. QED  BY <1>5, <1>7, <1>8, <1>9

LEMMA OrderInitially ==
  Init => OrderInv
<1> SUFFICES ASSUME Init  PROVE OrderInv
  OBVIOUS
<1>1. HeadsInv  BY HeadsInitially
<1>2. ResetInv  BY DEF Init, ResetInv, Resets, Idle
<1>3. ASSUME NEW h \in settled  PROVE Ring(h)
  <2>1. h \in Heads  BY <1>1 DEF HeadsInv, HeadsCounted, TypeOK
  <2>. QED  BY <2>1, SettledFresh DEF Init, Idle
<1>. QED  BY <1>1, <1>2, <1>3 DEF OrderInv

LEMMA OrderStep ==
  OrderInv /\ [Next]_vars => OrderInv'
<1> SUFFICES ASSUME OrderInv, [Next]_vars  PROVE OrderInv'
  OBVIOUS
<1>0. /\ HeadsInv /\ ResetInv /\ settled \subseteq Heads
      /\ \A h \in settled : Ring(h)
  BY DEF OrderInv, HeadsInv, HeadsCounted, TypeOK
<1>a. HeadsInv'  BY <1>0, HeadsStep
<1>1. ASSUME NEW h \in Busy,
             \/ PushCheck(h) \/ PushRoom(h) \/ PushWrite(h) \/ PushPublish(h)
             \/ PopCheck(h) \/ PopSee(h) \/ PopRead(h) \/ PopAdvance(h)
      PROVE  OrderInv'
  <2>1. settled' = settled
    BY <1>1 DEF PushCheck, PushRoom, PushWrite, PushPublish, PopCheck, PopSee,
       PopRead, PopAdvance
  <2>2. ResetInv'  BY <1>0, <1>1, ClientResets
  <2>3. \A g \in settled : Ring(g)'  BY <1>0, <1>1, ClientRing
  <2>. QED  BY <1>a, <2>1, <2>2, <2>3 DEF OrderInv
<1>2. ASSUME NEW s \in Scalers,
             \/ Autoscale(s) \/ CallSpawn(s) \/ CallKill(s) \/ SpawnRefused(s) \/ Kill(s)
      PROVE  OrderInv'
  <2>1. /\ ~Resets(s) /\ UNCHANGED <<rings, spawning, clients, settled>>
        /\ \E call : /\ scaler' = [scaler EXCEPT ![s] = call]
                     /\ call.at \notin {"reset_head", "reset_tail"}
    <3>1. CASE Autoscale(s) \/ CallSpawn(s) \/ CallKill(s)
      <4>1. PICK call : /\ Decides(s, call)
                        /\ call = At("spawn", 0) \/ \E g : call = At("kill", g)
        BY <3>1 DEF Autoscale, CallSpawn, CallKill
      <4>2. call.at \notin {"reset_head", "reset_tail"}  BY <4>1 DEF At
      <4>3. ~Resets(s)  BY <4>1 DEF Decides, Resets
      <4>4. /\ scaler' = [scaler EXCEPT ![s] = call]
            /\ UNCHANGED <<rings, spawning, clients, settled>>
        BY <4>1 DEF Decides
      <4>. QED  BY <4>2, <4>3, <4>4
    <3>2. CASE SpawnRefused(s) \/ Kill(s)
      BY <3>2 DEF SpawnRefused, Kill, Done, Idle, Resets
    <3>. QED  BY <1>2, <3>1, <3>2
  <2>2. /\ \A t \in Scalers \ {s} : scaler'[t] = scaler[t]
        /\ scaler'[s].at \notin {"reset_head", "reset_tail"}
    BY <1>0, <2>1 DEF HeadsInv, HeadsCounted, TypeOK
  <2>3. ResetInv' /\ \A h \in Heads : Ring(h) => Ring(h)'
    BY <1>0, <2>1, <2>2, QuietScaler
  <2>4. settled' = settled  BY <2>1
  <2>. QED  BY <1>0, <1>a, <2>3, <2>4 DEF OrderInv
<1>3. ASSUME NEW s \in Scalers, SpawnActivate(s)  PROVE OrderInv'
  BY <1>0, <1>a, <1>3, ActivateOrder DEF OrderInv
<1>4. ASSUME NEW s \in Scalers, SpawnResetHead(s)  PROVE OrderInv'
  BY <1>0, <1>a, <1>4, ResetHeadOrder DEF OrderInv
<1>5. ASSUME NEW s \in Scalers, SpawnResetTail(s)  PROVE OrderInv'
  BY <1>0, <1>a, <1>5, ResetTailOrder DEF OrderInv
<1>6. CASE UNCHANGED vars
  <2>1. settled' = settled /\ ResetInv'
    BY <1>0, <1>6 DEF vars, rings, ResetInv, Resets
  <2>2. \A h \in settled : Ring(h)'  BY <1>0, <1>6 DEF vars, rings, Ring
  <2>. QED  BY <1>a, <2>1, <2>2 DEF OrderInv
<1>. QED  BY <1>1, <1>2, <1>3, <1>4, <1>5, <1>6 DEF Next

\* A head that no call was using while it was spawned hands out the tasks of this life
\* in the order they were accepted, each once, and none of its previous life, while
\* scalers spawn and kill heads around its lock-free producer and consumer
\* (pogls_hydra_dynamic.h lines 61-147).
THEOREM TasksStayInOrder ==
  HydraSpec => []TasksInOrder
<1>1. HydraInit => OrderInv  BY OrderInitially DEF HydraInit
<1>2. OrderInv /\ [HydraNext]_<< vars, front, guard, part >> => OrderInv'
  BY OrderStep DEF HydraNext
<1>3. OrderInv => TasksInOrder
  BY InOrder DEF OrderInv, HeadsInv, HeadsCounted, TypeOK, TasksInOrder
<1>. QED  BY <1>1, <1>2, <1>3, PTL DEF HydraSpec
=============================================================================
