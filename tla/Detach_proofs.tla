--------------------------- MODULE Detach_proofs ---------------------------
(***************************************************************************)
(* For every set of entries and every interleaving of the threads: no zone *)
(* is demoted without at least two anomalies, no cell of GHOST events is   *)
(* boosted, the honeycomb holds the recent places (DetachObservers); the   *)
(* ring delivers what was pushed, overflow takes the oldest, and a stopped *)
(* lane has left nothing in it (DetachLane).  Where calls do not overlap,  *)
(* lazy decay is eager decay.                                              *)
(***************************************************************************)
EXTENDS DetachObservers, DetachLane, ModArith, SequenceTheorems

LEMMA Assumptions ==
  /\ DecayDiv \in Nat /\ DecayDiv >= 2 /\ DecayCap \in Nat \ {0}
  /\ EpochMod \in Nat \ {0} /\ Interval \in Nat \ {0}
  /\ ReflexMin \in Int /\ ReflexMax \in Nat /\ Demote \in Int
  /\ ReflexMin < 0 /\ Demote < -3
  /\ BiasCap \in Nat \ {0} /\ BiasDiv \in Nat /\ BiasDiv >= 2
  /\ HeatDiv \in Nat /\ HeatDiv >= 2 /\ CountMax \in Nat /\ HeatBoost \in Nat
  /\ ColdStart \in Nat \ {0}
  /\ PoolSize \in Nat \ {0} /\ Ttl \in Nat \ {0}
  BY ReflexAssumption, DiamondAssumption, HoneycombAssumption

LEMMA EntryTypes ==
  ASSUME NEW e \in Entries
  PROVE  /\ e.zone \in Zones /\ e.cell \in DiamondIds /\ e.place \in Places
         /\ ClassifiedType(e) \in Types
  BY ObserversAssumption DEF Entry, ClassifiedType, Types

-----------------------------------------------------------------------------
\* A quotient lies between 0 and what is divided, and is negative with it.
LEMMA QuotientBetween ==
  ASSUME NEW b \in Int, NEW m \in Nat, m >= 2
  PROVE  /\ b \div m \in Int
         /\ b >= 0 => b \div m \in 0 .. b
         /\ b < 0  => b \div m \in b .. -1
<1> DEFINE q == b \div m
           r == b % m
<1>1. q \in Int /\ r \in 0 .. (m - 1) /\ b = m * q + r
  <2>1. m \in Nat \ {0}  OBVIOUS
  <2>. QED  BY <2>1, Division
<1> HIDE DEF q, r
<1>2. ASSUME b >= 0  PROVE q \in 0 .. b
  <2>1. q >= 0
    <3>1. SUFFICES ASSUME q <= -1  PROVE FALSE
      BY <1>1
    <3>2. m * q <= m * (-1)  BY <3>1, <1>1, SMT
    <3>. QED  BY <3>2, <1>1, <1>2
  <2>2. m * q >= q  BY <2>1, <1>1, SMT
  <2>. QED  BY <2>1, <2>2, <1>1
<1>3. ASSUME b < 0  PROVE q \in b .. -1
  <2>1. q <= -1
    <3>1. SUFFICES ASSUME q >= 0  PROVE FALSE
      BY <1>1
    <3>2. m * q >= 0  BY <3>1, <1>1, SMT
    <3>. QED  BY <3>2, <1>1, <1>3
  <2>2. q >= b
    <3>1. SUFFICES ASSUME q <= b - 1  PROVE FALSE
      BY <1>1
    <3> DEFINE n == m - 1
    <3>2. n \in Nat /\ n >= 1 /\ q <= -2  BY <3>1, <1>3, <1>1
    <3>3. n * q <= n * (-2)  BY <3>2, <1>1, SMT
    <3>4. n * q = m * q - q  BY <1>1, SMT
    <3>. QED  BY <3>1, <3>3, <3>4, <1>1
  <2>. QED  BY <2>1, <2>2, <1>1
<1>. QED  BY <1>1, <1>2, <1>3 DEF q

\* Decay takes a bias towards 0, never past it.
LEMMA DecayTowardsZero ==
  ASSUME NEW b \in Int
  PROVE  /\ b >= 0 => Decayed(b) \in 0 .. b
         /\ b < 0  => Decayed(b) \in b .. 0
<1>1. /\ b >= 0 => b \div DecayDiv \in 0 .. b
      /\ b < 0  => b \div DecayDiv \in b .. -1
      /\ b \div DecayDiv \in Int
  BY Assumptions, QuotientBetween
<1>. QED  BY <1>1 DEF Decayed

LEMMA DecayedBias ==
  ASSUME NEW b \in Bias
  PROVE  Decayed(b) \in Bias
<1>1. b \in Int  BY Assumptions DEF Bias
<1>. QED  BY <1>1, DecayTowardsZero, Assumptions DEF Bias

LEMMA FeedbackType ==
  ASSUME NEW call \in Calls, NEW b \in Bias
  PROVE  /\ Feedback(call, b) \in Int
         /\ Feedback(call, b) >= b - (IF call \in Types THEN 3 ELSE 0)
         /\ Clamped(Feedback(call, b)) \in Bias
<1>1. b \in Int  BY Assumptions DEF Bias
<1>2. Feedback(call, b) \in Int /\ Feedback(call, b) >= b - (IF call \in Types THEN 3 ELSE 0)
  BY <1>1 DEF Feedback, Calls, Types
<1>. QED  BY <1>2, Assumptions DEF Clamped, Bias

LEMMA MissedEpochs ==
  ASSUME NEW now \in Epochs, NEW last \in Epochs
  PROVE  Missed(now, last) \in Epochs /\ Steps(Missed(now, last)) \in 0 .. DecayCap
<1>1. now - last \in Int  BY Assumptions DEF Epochs
<1>2. (now - last) % EpochMod \in 0 .. (EpochMod - 1)  BY <1>1, Assumptions, Division
<1>. QED  BY <1>2, Assumptions DEF Missed, Steps, Epochs

-----------------------------------------------------------------------------
LEMMA CellType ==
  ASSUME NEW d \in DiamondCell, NEW type \in Types
  PROVE  CellUpdated(d, type) \in DiamondCell
<1> DEFINE b == Pushed(d, type)
           h == Hotter(d.heat)
<1>1. b \in Int  BY Assumptions DEF Pushed, BiasDelta, Types, DiamondCell
<1>2. b - (b \div BiasDiv) \in Int  BY <1>1, Assumptions, QuotientBetween
<1>3. Capped(b - (b \div BiasDiv)) \in (-BiasCap) .. BiasCap
  BY <1>2, Assumptions DEF Capped
<1>4. h \in 0 .. 255  BY DEF Hotter, DiamondCell
<1>5. h - (h \div HeatDiv) \in 0 .. 255
  <2> HIDE DEF h
  <2>1. h \in Int /\ h >= 0  BY <1>4
  <2>2. h \div HeatDiv \in 0 .. h  BY <2>1, Assumptions, QuotientBetween
  <2>. QED  BY <2>2, <1>4
<1>6. (IF d.count < CountMax THEN d.count + 1 ELSE d.count) \in 0 .. CountMax
  BY Assumptions DEF DiamondCell
<1>. QED  BY <1>3, <1>5, <1>6 DEF CellUpdated, DiamondCell, Types

\* The first GHOST takes a cell to -1, and so does every further one.
LEMMA GhostCell ==
  ASSUME NEW d \in DiamondCell,
         \/ d.bias = 0 /\ d.last = Unset
         \/ d.bias = -1 /\ d.last = "GHOST"
  PROVE  CellUpdated(d, "GHOST").bias = -1 /\ CellUpdated(d, "GHOST").last = "GHOST"
<1> DEFINE b == Pushed(d, "GHOST")
<1>1. b = -2  BY DEF Pushed, BiasDelta, Unset
<1>2. b \div BiasDiv = -1
  <2>1. (-2) \div BiasDiv \in (-2) .. -1  BY Assumptions, QuotientBetween
  <2>2. (-2) \div BiasDiv # -2
    <3>1. SUFFICES ASSUME (-2) \div BiasDiv = -2  PROVE FALSE
      OBVIOUS
    <3>2. BiasDiv \in Nat \ {0}  BY Assumptions
    <3>3. /\ (-2) % BiasDiv \in 0 .. (BiasDiv - 1)
          /\ -2 = BiasDiv * ((-2) \div BiasDiv) + ((-2) % BiasDiv)
      BY <3>2, Division
    <3>. QED  BY <3>1, <3>3, Assumptions
  <2>. QED  BY <2>1, <2>2, <1>1
<1>3. Capped(b - (b \div BiasDiv)) = -1  BY <1>1, <1>2, Assumptions DEF Capped
<1>. QED  BY <1>3 DEF CellUpdated

-----------------------------------------------------------------------------
LEMMA LiveCells ==
  ASSUME NEW p \in Places, NEW cells \in Honeycomb
  PROVE  /\ Live(cells, p) \subseteq DOMAIN cells
         /\ DOMAIN cells = 1 .. Len(cells) /\ Len(cells) \in Nat
         /\ \A i \in DOMAIN cells : cells[i] \in HoneycombCell
  BY ElementOfSeq DEF Live, Honeycomb

LEMMA LatestOfOne == ASSUME NEW i \in Nat PROVE Latest({i}) = i
  BY DEF Latest

\* dhc_ingest refreshes the live cell of its place.
LEMMA Refreshed ==
  ASSUME NEW p \in Places, NEW cells \in Honeycomb, NEW i \in DOMAIN cells,
         Live(cells, p) = {i}
  PROVE  LET next == Summoned(cells, p)
         IN  /\ next \in Honeycomb /\ Len(next) = Len(cells)
             /\ Live(next, p) = {i} /\ next[i].ttl = Ttl
             /\ \A q \in Places \ {p} :
                  /\ Live(next, q) = Live(cells, q)
                  /\ \A j \in Live(cells, q) : next[j] = cells[j]
<1> DEFINE fresh == Renewed(cells[i])
           next == Summoned(cells, p)
<1>1. /\ DOMAIN cells = 1 .. Len(cells) /\ Len(cells) \in Nat
      /\ \A j \in DOMAIN cells : cells[j] \in HoneycombCell
  BY LiveCells
<1>2. i \in 1 .. Len(cells) /\ cells[i] \in HoneycombCell  BY <1>1
<1>3. cells[i].place = p /\ cells[i].ttl > 0  BY DEF Live
<1>4. fresh \in HoneycombCell /\ fresh.place = p /\ fresh.ttl = Ttl
  BY <1>2, <1>3, Assumptions DEF HoneycombCell, Renewed
<1>5. next = [cells EXCEPT ![i] = fresh]
  <2>1. i \in Nat  BY <1>1, <1>2
  <2>2. Latest(Live(cells, p)) = i  BY <2>1, LatestOfOne
  <2>. QED  BY <2>2 DEF Summoned
<1> HIDE DEF fresh, next
<1>6. cells \in Seq(HoneycombCell)  BY DEF Honeycomb
<1>7. /\ next \in Seq(HoneycombCell) /\ Len(next) = Len(cells)
      /\ \A j \in 1 .. Len(cells) : next[j] = IF j = i THEN fresh ELSE cells[j]
  BY <1>2, <1>4, <1>5, <1>6, ExceptSeq
<1>8. DOMAIN next = 1 .. Len(cells)  BY <1>7
<1>9. Live(next, p) = {i} /\ next[i].ttl = Ttl
  BY <1>1, <1>2, <1>4, <1>7, <1>8, Assumptions DEF Live
<1>10. \A q \in Places \ {p} : /\ Live(next, q) = Live(cells, q)
                               /\ \A j \in Live(cells, q) : next[j] = cells[j]
  BY <1>1, <1>3, <1>4, <1>7, <1>8 DEF Live
<1>. QED  BY <1>7, <1>9, <1>10 DEF next, Honeycomb

\* dhc_ingest summons a cell where none is alive and the pool has room.
LEMMA Allocated ==
  ASSUME NEW p \in Places, NEW cells \in Honeycomb,
         Live(cells, p) = {}, ~PoolFull(cells)
  PROVE  LET next == Summoned(cells, p)
             i == Len(cells) + 1
         IN  /\ next \in Honeycomb /\ Len(next) = i
             /\ i \in DOMAIN next /\ Live(next, p) = {i} /\ next[i].ttl = Ttl
             /\ \A q \in Places \ {p} :
                  /\ Live(next, q) = Live(cells, q)
                  /\ \A j \in Live(cells, q) : next[j] = cells[j]
<1> DEFINE i == Len(cells) + 1
           next == Summoned(cells, p)
<1>1. DOMAIN cells = 1 .. Len(cells) /\ Len(cells) \in Nat  BY LiveCells
<1>2. Fresh(p) \in HoneycombCell /\ Fresh(p).place = p /\ Fresh(p).ttl = Ttl
  BY Assumptions DEF Fresh, HoneycombCell
<1>3. next = Append(cells, Fresh(p))  BY DEF Summoned
<1> HIDE DEF next
<1>4. cells \in Seq(HoneycombCell)  BY DEF Honeycomb
<1>5. /\ next \in Seq(HoneycombCell) /\ Len(next) = i
      /\ \A j \in 1 .. Len(cells) : next[j] = cells[j]
      /\ next[i] = Fresh(p)
  BY <1>2, <1>3, <1>4, AppendProperties
<1>6. DOMAIN next = 1 .. i  BY <1>5
<1>7. Live(next, p) = {i}  BY <1>1, <1>2, <1>5, <1>6, Assumptions DEF Live
<1>8. \A q \in Places \ {p} : /\ Live(next, q) = Live(cells, q)
                              /\ \A j \in Live(cells, q) : next[j] = cells[j]
  BY <1>1, <1>2, <1>5, <1>6 DEF Live
<1>. QED  BY <1>1, <1>2, <1>5, <1>6, <1>7, <1>8 DEF next, Honeycomb

\* dhc_tick_ttl ages the live cells, and revives none.
LEMMA Aged ==
  ASSUME NEW cells \in Honeycomb
  PROVE  LET next == Ticked(cells)
         IN  /\ next \in Honeycomb /\ Len(next) = Len(cells)
             /\ DOMAIN next = DOMAIN cells
             /\ \A p \in Places : Live(next, p) = {i \in Live(cells, p) : cells[i].ttl > 1}
             /\ \A p \in Places : \A i \in Live(cells, p) : next[i].ttl = cells[i].ttl - 1
<1> DEFINE next == Ticked(cells)
<1>1. /\ DOMAIN cells = 1 .. Len(cells) /\ Len(cells) \in Nat
      /\ \A j \in DOMAIN cells : cells[j] \in HoneycombCell
  BY ElementOfSeq DEF Honeycomb
<1>2. DOMAIN next = DOMAIN cells  BY DEF Ticked
<1>3. ASSUME NEW j \in DOMAIN cells
      PROVE  /\ next[j] \in HoneycombCell /\ next[j].place = cells[j].place
             /\ next[j].ttl = IF cells[j].ttl = 0 THEN 0 ELSE cells[j].ttl - 1
  <2>1. CASE cells[j].ttl = 0
    BY <2>1, <1>1 DEF Ticked, Older
  <2>2. CASE cells[j].ttl # 0
    <3>1. next[j] = [place |-> cells[j].place, ttl |-> cells[j].ttl - 1,
                     events |-> IF cells[j].ttl = 1 THEN 0 ELSE cells[j].events]
      BY <2>2 DEF Ticked, Older
    <3>. QED  BY <3>1, <2>2, <1>1, Assumptions DEF HoneycombCell
  <2>. QED  BY <2>1, <2>2
<1>4. next = [j \in 1 .. Len(cells) |-> next[j]]  BY <1>1, <1>2 DEF Ticked
<1> HIDE DEF next
<1>5. next \in [1 .. Len(cells) -> HoneycombCell]  BY <1>1, <1>3, <1>4, Zenon
<1>6. next \in Seq(HoneycombCell) /\ Len(next) = Len(cells)  BY <1>1, <1>5
<1>7. \A j \in DOMAIN cells : cells[j].ttl \in Nat  BY <1>1, Assumptions DEF HoneycombCell
<1>8. \A p \in Places : Live(next, p) = {i \in Live(cells, p) : cells[i].ttl > 1}
  BY <1>2, <1>3, <1>7 DEF Live
<1>9. \A p \in Places : \A i \in Live(cells, p) : next[i].ttl = cells[i].ttl - 1
  BY <1>3, <1>7 DEF Live
<1>. QED  BY <1>2, <1>6, <1>8, <1>9 DEF next, Honeycomb

-----------------------------------------------------------------------------
\* What a thread that is about to feed the table or the layer carries.
Shape ==
  \A t \in Threads :
    /\ frame[t].pc \in {"adjust", "write", "count"} => frame[t].call \in Types \cup {"REWARD"}
    /\ frame[t].pc = "scatter" => frame[t].call \in Types

LEMMA IdleFrame == Idle \in Frame /\ Idle.pc = "idle"
<1>1. (CHOOSE z \in Zones : TRUE) \in Zones  BY ObserversAssumption
<1>2. 0 \in Bias /\ 0 \in Epochs /\ 0 \in 0 .. DecayCap /\ "LOOKUP" \in Calls /\ "idle" \in Labels
  BY Assumptions DEF Bias, Epochs, Calls, Labels
<1>. QED  BY <1>1, <1>2 DEF Idle, Frame

\* Only the frame changes.
Elsewhere == UNCHANGED << reflex, layer, hc, entry, history >>

LEMMA FrameStep ==
  ASSUME TypeOK, Shape, NEW t \in Threads, NEW f \in Frame,
         frame' = [frame EXCEPT ![t] = f],
         f.pc \in {"adjust", "write", "count"} => f.call \in Types \cup {"REWARD"},
         f.pc = "scatter" => f.call \in Types
  PROVE  frame' \in [Threads -> Frame] /\ Shape'
  BY DEF TypeOK, Shape

LEMMA FrameUnchanged == ASSUME Shape, UNCHANGED frame PROVE Shape'
  BY DEF Shape

LEMMA OnlyFrame ==
  ASSUME TypeOK, HoneycombSound, Elsewhere, frame' \in [Threads -> Frame], ops' \in Nat
  PROVE  TypeOK' /\ HoneycombSound'
<1>1. TypeOK'
  BY DEF TypeOK, Elsewhere, reflex, history, lazy
<1>2. HoneycombSound'
  BY DEF HoneycombSound, Elsewhere, history
<1>. QED  BY <1>1, <1>2

LEMMA SameHoneycomb ==
  ASSUME HoneycombSound, UNCHANGED << hc, since, refused >>
  PROVE  HoneycombSound'
  BY DEF HoneycombSound

-----------------------------------------------------------------------------
Inv == TypeOK /\ Shape /\ HoneycombSound

LEMMA InitInv == Init => Inv
<1> SUFFICES ASSUME Init  PROVE Inv
  OBVIOUS
<1>1. \A t \in Threads : frame[t] = Idle  BY DEF Init
<1>2. Shape  BY <1>1, IdleFrame DEF Shape
<1>3. 0 \in Bias /\ 0 \in Epochs  BY Assumptions DEF Bias, Epochs
<1>4. frame \in [Threads -> Frame]  BY IdleFrame DEF Init
<1>5. layer \in DiamondLayer
  <2>1. [bias |-> 0, heat |-> 0, count |-> 0, last |-> Unset] \in DiamondCell
    BY Assumptions DEF DiamondCell
  <2>. QED  BY <2>1 DEF Init, DiamondInit, DiamondLayer
<1>6. hc = << >> /\ hc \in Honeycomb /\ Len(hc) = 0  BY EmptySeq DEF Init, HoneycombInit, Honeycomb
<1>7. TypeOK
  BY <1>3, <1>4, <1>5, <1>6, Assumptions DEF Init, TypeOK
<1>8. HoneycombSound  BY <1>6 DEF Init, HoneycombSound, Live
<1>. QED  BY <1>2, <1>7, <1>8 DEF Inv

-----------------------------------------------------------------------------
\* The steps that move a thread within a call and touch nothing shared.
LEMMA ReadingSteps ==
  ASSUME Inv, NEW t \in Threads,
         LoadEpoch(t) \/ LoadLast(t) \/ LoadBias(t) \/ DecayOnce(t) \/ Adjust(t)
  PROVE  Inv'
<1> DEFINE f == frame[t]
<1>0. TypeOK /\ Shape /\ HoneycombSound /\ f \in Frame  BY DEF Inv, TypeOK
<1>1. CASE LoadEpoch(t)
  <2> DEFINE g == [f EXCEPT !.pc = "last", !.now = epoch]
  <2>1. g \in Frame /\ g.pc = "last"  BY <1>0 DEF Frame, Labels, TypeOK
  <2>2. frame' = [frame EXCEPT ![t] = g] /\ Elsewhere /\ ops' = ops
    BY <1>1 DEF LoadEpoch, Elsewhere
  <2> HIDE DEF g
  <2>3. frame' \in [Threads -> Frame] /\ Shape'  BY <1>0, <2>1, <2>2, FrameStep
  <2>. QED  BY <1>0, <2>2, <2>3, OnlyFrame DEF Inv, TypeOK
<1>2. CASE LoadLast(t)
  <2> DEFINE missed == Missed(f.now, last_decay[f.zone])
             g == [f EXCEPT !.pc = IF missed = 0 THEN Onward(f.call) ELSE "load",
                            !.left = Steps(missed)]
  <2>1. f.now \in Epochs /\ last_decay[f.zone] \in Epochs  BY <1>0 DEF Frame, TypeOK
  <2>2. Steps(missed) \in 0 .. DecayCap  BY <2>1, MissedEpochs
  <2>3. Onward(f.call) \in {"answer", "adjust"}  BY DEF Onward
  <2>4. Onward(f.call) = "adjust" => f.call \in Types \cup {"REWARD"}
    BY <1>0 DEF Onward, Frame, Calls
  <2>5. frame' = [frame EXCEPT ![t] = g] /\ Elsewhere /\ ops' = ops
    BY <1>2 DEF LoadLast, Elsewhere
  <2> HIDE DEF missed
  <2>6. /\ g \in Frame /\ g.pc \in {"answer", "adjust", "load"} /\ g.call = f.call
        /\ g.pc = "adjust" => Onward(f.call) = "adjust"
    BY <1>0, <2>2, <2>3 DEF Frame, Labels
  <2> HIDE DEF g
  <2>7. frame' \in [Threads -> Frame] /\ Shape'  BY <1>0, <2>4, <2>5, <2>6, FrameStep
  <2>. QED  BY <1>0, <2>5, <2>7, OnlyFrame DEF Inv, TypeOK
<1>3. CASE LoadBias(t)
  <2> DEFINE g == [f EXCEPT !.pc = "decay", !.reg = bias[f.zone]]
  <2>1. g \in Frame /\ g.pc = "decay"  BY <1>0 DEF Frame, Labels, TypeOK
  <2>2. frame' = [frame EXCEPT ![t] = g] /\ Elsewhere /\ ops' = ops
    BY <1>3 DEF LoadBias, Elsewhere
  <2> HIDE DEF g
  <2>3. frame' \in [Threads -> Frame] /\ Shape'  BY <1>0, <2>1, <2>2, FrameStep
  <2>. QED  BY <1>0, <2>2, <2>3, OnlyFrame DEF Inv, TypeOK
<1>4. CASE DecayOnce(t)
  <2> DEFINE g == [f EXCEPT !.reg = Decayed(f.reg), !.left = f.left - 1]
  <2>1. f.reg \in Bias /\ f.left \in 0 .. DecayCap /\ f.left > 0 /\ f.pc = "decay"
    BY <1>0, <1>4 DEF Frame, DecayOnce, At
  <2>2. Decayed(f.reg) \in Bias  BY <2>1, DecayedBias
  <2>3. f.left - 1 \in 0 .. DecayCap  BY <2>1, Assumptions
  <2>4. g \in Frame /\ g.pc = "decay"  BY <1>0, <2>1, <2>2, <2>3 DEF Frame
  <2>5. frame' = [frame EXCEPT ![t] = g] /\ Elsewhere /\ ops' = ops
    BY <1>4 DEF DecayOnce, Elsewhere
  <2> HIDE DEF g
  <2>6. frame' \in [Threads -> Frame] /\ Shape'  BY <1>0, <2>4, <2>5, FrameStep
  <2>. QED  BY <1>0, <2>5, <2>6, OnlyFrame DEF Inv, TypeOK
<1>5. CASE Adjust(t)
  <2> DEFINE g == [f EXCEPT !.pc = "write", !.reg = Clamped(Feedback(f.call, bias[f.zone]))]
  <2>1. f.call \in Calls /\ bias[f.zone] \in Bias  BY <1>0 DEF Frame, TypeOK
  <2>2. Clamped(Feedback(f.call, bias[f.zone])) \in Bias  BY <2>1, FeedbackType
  <2>3. g \in Frame /\ g.pc = "write" /\ g.call = f.call  BY <1>0, <2>2 DEF Frame, Labels
  <2>4. f.call \in Types \cup {"REWARD"}  BY <1>0, <1>5 DEF Shape, Adjust, At
  <2>5. frame' = [frame EXCEPT ![t] = g] /\ Elsewhere /\ ops' = ops
    BY <1>5 DEF Adjust, Elsewhere
  <2> HIDE DEF g
  <2>6. frame' \in [Threads -> Frame] /\ Shape'  BY <1>0, <2>3, <2>4, <2>5, FrameStep
  <2>. QED  BY <1>0, <2>5, <2>6, OnlyFrame DEF Inv, TypeOK
<1>. QED  BY <1>1, <1>2, <1>3, <1>4, <1>5

LEMMA GotoFrame ==
  ASSUME TypeOK, NEW t \in Threads, NEW label \in Labels
  PROVE  /\ [frame EXCEPT ![t].pc = label] = [frame EXCEPT ![t] = [frame[t] EXCEPT !.pc = label]]
         /\ [frame[t] EXCEPT !.pc = label] \in Frame
         /\ [frame[t] EXCEPT !.pc = label].pc = label
         /\ [frame[t] EXCEPT !.pc = label].call = frame[t].call
  BY DEF TypeOK, Frame

LEMMA GotoStep ==
  ASSUME TypeOK, Shape, NEW t \in Threads, NEW label \in Labels, Goto(t, label),
         label \in {"adjust", "write", "count"} => frame[t].call \in Types \cup {"REWARD"},
         label = "scatter" => frame[t].call \in Types
  PROVE  frame' \in [Threads -> Frame] /\ Shape'
<1> DEFINE g == [frame[t] EXCEPT !.pc = label]
<1>1. g \in Frame /\ g.pc = label /\ g.call = frame[t].call  BY GotoFrame
<1>2. frame' = [frame EXCEPT ![t] = g]  BY GotoFrame DEF Goto
<1> HIDE DEF g
<1>. QED  BY <1>1, <1>2, FrameStep

LEMMA IdleStep ==
  ASSUME TypeOK, Shape, NEW t \in Threads, frame' = [frame EXCEPT ![t] = Idle]
  PROVE  frame' \in [Threads -> Frame] /\ Shape'
<1>1. Idle \in Frame /\ Idle.pc \notin {"adjust", "write", "count", "scatter"}  BY IdleFrame
<1>. QED  BY <1>1, FrameStep

LEMMA BeginStep ==
  ASSUME TypeOK, Shape, NEW t \in Threads, NEW call \in Calls, NEW zone \in Zones,
         Begin(t, call, zone)
  PROVE  frame' \in [Threads -> Frame] /\ Shape' /\ ops' \in Nat
<1> DEFINE g == [Idle EXCEPT !.pc = "epoch", !.call = call, !.zone = zone]
<1>1. g \in Frame /\ g.pc = "epoch"  BY IdleFrame DEF Frame, Labels
<1>2. frame' = [frame EXCEPT ![t] = g] /\ ops' \in Nat  BY DEF Begin, TypeOK
<1> HIDE DEF g
<1>. QED  BY <1>1, <1>2, FrameStep

\* The steps of a call that store into the table.
LEMMA StoringSteps ==
  ASSUME Inv, NEW t \in Threads, StoreBias(t) \/ Stamp(t) \/ Write(t) \/ Count(t)
  PROVE  Inv'
<1> DEFINE f == frame[t]
<1>0. /\ TypeOK /\ Shape /\ HoneycombSound
      /\ f \in Frame /\ f.zone \in Zones /\ f.reg \in Bias /\ f.now \in Epochs /\ f.call \in Calls
  BY DEF Inv, TypeOK, Frame
<1>1. CASE StoreBias(t)
  <2>1. frame' \in [Threads -> Frame] /\ Shape'
    BY <1>0, <1>1, GotoStep DEF StoreBias, Labels
  <2>2. TypeOK'  BY <1>0, <1>1, <2>1 DEF StoreBias, TypeOK, history, lazy
  <2>3. HoneycombSound'  BY <1>0, <1>1, SameHoneycomb DEF StoreBias, history
  <2>. QED  BY <2>1, <2>2, <2>3 DEF Inv
<1>2. CASE Stamp(t)
  <2>1. /\ Onward(f.call) \in {"answer", "adjust"}
        /\ Onward(f.call) = "adjust" => f.call \in Types \cup {"REWARD"}
    BY <1>0 DEF Onward, Calls
  <2>2. Onward(f.call) \in Labels  BY <2>1 DEF Labels
  <2>3. frame' \in [Threads -> Frame] /\ Shape'
    <3>1. Goto(t, Onward(f.call))  BY <1>2 DEF Stamp
    <3>. QED  BY <1>0, <2>1, <2>2, <3>1, GotoStep
  <2>4. Steps(Missed(epoch, f.now)) \in 0 .. (DecayCap + 1)
    <3>1. Steps(Missed(epoch, f.now)) \in 0 .. DecayCap  BY <1>0, MissedEpochs DEF TypeOK
    <3>. QED  BY <3>1, Assumptions
  <2>5. /\ last_decay' \in [Zones -> Epochs]
        /\ missing' \in [Zones -> 0 .. (DecayCap + 1)]
    BY <1>0, <1>2, <2>4 DEF Stamp, TypeOK
  <2>6. TypeOK'  BY <1>0, <1>2, <2>3, <2>5 DEF Stamp, TypeOK
  <2>7. HoneycombSound'  BY <1>0, <1>2, SameHoneycomb DEF Stamp
  <2>. QED  BY <2>3, <2>6, <2>7 DEF Inv
<1>3. CASE Write(t)
  <2>1. f.call \in Types \cup {"REWARD"}  BY <1>0, <1>3 DEF Shape, Write, At
  <2>2. frame' \in [Threads -> Frame] /\ Shape'
    <3>1. Goto(t, "count") /\ "count" \in Labels  BY <1>3 DEF Write, Labels
    <3>. QED  BY <1>0, <2>1, <3>1, GotoStep
  <2>3. Clamped(Feedback(f.call, eager[f.zone])) \in Bias
    BY <1>0, FeedbackType DEF TypeOK
  <2>4. eager' \in [Zones -> Bias] /\ bias' \in [Zones -> Bias] /\ anomalies' \in [Zones -> Nat]
    BY <1>0, <1>3, <2>3 DEF Write, TypeOK
  <2>5. TypeOK'  BY <1>0, <1>3, <2>2, <2>4 DEF Write, TypeOK
  <2>6. HoneycombSound'  BY <1>0, <1>3, SameHoneycomb DEF Write
  <2>. QED  BY <2>2, <2>5, <2>6 DEF Inv
<1>4. CASE Count(t)
  <2>1. f.call \in Types \cup {"REWARD"}  BY <1>0, <1>4 DEF Shape, Count, At
  <2>2. frame' \in [Threads -> Frame] /\ Shape'
    <3>1. CASE f.call = "REWARD"
      <4>1. frame' = [frame EXCEPT ![t] = Idle]  BY <1>4, <3>1 DEF Count
      <4>. QED  BY <1>0, <4>1, IdleStep
    <3>2. CASE f.call # "REWARD"
      <4>1. Goto(t, "scatter") /\ "scatter" \in Labels  BY <1>4, <3>2 DEF Count, Labels
      <4>. QED  BY <1>0, <2>1, <3>2, <4>1, GotoStep
    <3>. QED  BY <3>1, <3>2
  <2>3. /\ pushes' \in 0 .. (Interval - 1) /\ epoch' \in Epochs
        /\ eager' \in [Zones -> Bias] /\ missing' \in [Zones -> 0 .. (DecayCap + 1)]
        /\ overslept' \subseteq Zones
    <3>1. CASE pushes + 1 = Interval
      <4>1. pushes' = 0 /\ epoch' = (epoch + 1) % EpochMod /\ EpochOver
        BY <1>4, <3>1 DEF Count
      <4>2. epoch + 1 \in Int  BY <1>0, Assumptions DEF TypeOK, Epochs
      <4>3. epoch' \in Epochs  BY <4>1, <4>2, Assumptions, Division DEF Epochs
      <4>4. \A z \in Zones : Decayed(eager[z]) \in Bias  BY <1>0, DecayedBias DEF TypeOK
      <4>5. eager' \in [Zones -> Bias]  BY <4>1, <4>4 DEF EpochOver
      <4>6. missing' \in [Zones -> 0 .. (DecayCap + 1)]
        BY <4>1, <1>0, Assumptions DEF EpochOver, TypeOK
      <4>7. overslept' \subseteq Zones  BY <4>1, <1>0 DEF EpochOver, TypeOK
      <4>. QED  BY <4>1, <4>3, <4>5, <4>6, <4>7, Assumptions
    <3>2. CASE pushes + 1 # Interval
      BY <1>0, <1>4, <3>2, Assumptions DEF Count, TypeOK, lazy
    <3>. QED  BY <3>1, <3>2
  <2>4. TypeOK'  BY <1>0, <1>4, <2>2, <2>3 DEF Count, TypeOK
  <2>5. HoneycombSound'  BY <1>0, <1>4, SameHoneycomb DEF Count
  <2>. QED  BY <2>2, <2>4, <2>5 DEF Inv
<1>. QED  BY <1>1, <1>2, <1>3, <1>4

\* Calls that begin, and the lookup's end.
LEMMA CallSteps ==
  ASSUME Inv,
         \/ \E e \in Entries : Fire(e)
         \/ \E z \in Rewardable : Reward(z)
         \/ \E z \in Zones : ShouldDemote(z)
         \/ \E t \in Threads : Answer(t)
  PROVE  Inv'
<1>0. TypeOK /\ Shape /\ HoneycombSound  BY DEF Inv
<1>1. ASSUME NEW e \in Entries, Fire(e)  PROVE Inv'
  <2>1. frame' \in [Threads -> Frame] /\ Shape' /\ ops' \in Nat
    <3>1. CASE IsMeshAnomaly(e)
      <4>1. ClassifiedType(e) \in Calls /\ e.zone \in Zones  BY EntryTypes DEF Calls
      <4>2. Begin("flush", ClassifiedType(e), e.zone)  BY <1>1, <3>1 DEF Fire
      <4>. QED  BY <1>0, <4>1, <4>2, BeginStep DEF Threads
    <3>2. CASE ~IsMeshAnomaly(e)
      <4>1. Goto("flush", "ingest") /\ ops' = ops + 1 /\ "ingest" \in Labels
        BY <1>1, <3>2 DEF Fire, Labels
      <4>2. frame' \in [Threads -> Frame] /\ Shape'  BY <1>0, <4>1, GotoStep DEF Threads
      <4>. QED  BY <1>0, <4>1, <4>2 DEF TypeOK
    <3>. QED  BY <3>1, <3>2
  <2>2. TypeOK'  BY <1>0, <1>1, <2>1 DEF Fire, TypeOK, reflex, history, lazy
  <2>3. HoneycombSound'  BY <1>0, <1>1, SameHoneycomb DEF Fire, history
  <2>. QED  BY <2>1, <2>2, <2>3 DEF Inv
<1>2. ASSUME NEW z \in Zones, Reward(z) \/ ShouldDemote(z)  PROVE Inv'
  <2>1. Elsewhere  BY <1>2 DEF Reward, ShouldDemote, Elsewhere
  <2>2. frame' \in [Threads -> Frame] /\ Shape' /\ ops' \in Nat
    <3>1. "REWARD" \in Calls /\ "LOOKUP" \in Calls  BY DEF Calls
    <3>2. Begin("flush", "REWARD", z) \/ Begin("hot", "LOOKUP", z)
      BY <1>2 DEF Reward, ShouldDemote
    <3>. QED  BY <1>0, <3>1, <3>2, BeginStep DEF Threads
  <2>. QED  BY <1>0, <2>1, <2>2, OnlyFrame DEF Inv
<1>3. ASSUME NEW t \in Threads, Answer(t)  PROVE Inv'
  <2>1. frame' \in [Threads -> Frame] /\ Shape'
    BY <1>0, <1>3, IdleStep DEF Answer
  <2>2. told' \subseteq Zones  BY <1>0, <1>3 DEF Answer, TypeOK, Frame
  <2>3. TypeOK'  BY <1>0, <1>3, <2>1, <2>2 DEF Answer, TypeOK, reflex, lazy
  <2>4. HoneycombSound'  BY <1>0, <1>3, SameHoneycomb DEF Answer
  <2>. QED  BY <2>1, <2>3, <2>4 DEF Inv
<1>. QED  BY <1>1, <1>2, <1>3, ObserversAssumption

LEMMA ScatterStep ==
  ASSUME Inv, Scatter
  PROVE  Inv'
<1> DEFINE type == frame["flush"].call
<1>0. TypeOK /\ Shape /\ HoneycombSound /\ "flush" \in Threads  BY DEF Inv, Threads
<1>1. type \in Types  BY <1>0 DEF Shape, Scatter, At
<1>2. entry.cell \in DiamondIds  BY <1>0, EntryTypes DEF TypeOK
<1>3. frame' \in [Threads -> Frame] /\ Shape'
  <2>1. Goto("flush", "ingest") /\ "ingest" \in Labels  BY DEF Scatter, Labels
  <2>. QED  BY <1>0, <2>1, GotoStep
<1>4. layer' \in DiamondLayer
  <2>1. layer[entry.cell] \in DiamondCell  BY <1>0, <1>2 DEF TypeOK, DiamondLayer
  <2>2. CellUpdated(layer[entry.cell], type) \in DiamondCell  BY <1>1, <2>1, CellType
  <2>3. layer' = [layer EXCEPT ![entry.cell] = CellUpdated(layer[entry.cell], type)]
    BY DEF Scatter, LayerUpdated
  <2>. QED  BY <1>0, <2>2, <2>3 DEF TypeOK, DiamondLayer
<1>5. kinds' \in [DiamondIds -> SUBSET Types]  BY <1>0, <1>1 DEF Scatter, TypeOK
<1>6. TypeOK'  BY <1>0, <1>3, <1>4, <1>5 DEF Scatter, TypeOK, reflex, lazy
<1>7. HoneycombSound'  BY <1>0, SameHoneycomb DEF Scatter
<1>. QED  BY <1>3, <1>6, <1>7 DEF Inv

LEMMA IngestStep ==
  ASSUME Inv, Ingest
  PROVE  Inv'
<1> DEFINE p == entry.place
<1>0. /\ TypeOK /\ Shape /\ HoneycombSound /\ "flush" \in Threads
      /\ p \in Places /\ hc \in Honeycomb
      /\ since \in [Places -> 0 .. Ttl] /\ refused \subseteq Places
  BY EntryTypes DEF Inv, TypeOK, Threads
<1>1. frame' \in [Threads -> Frame] /\ Shape'  BY <1>0, IdleStep DEF Ingest
<1>2. since' \in [Places -> 0 .. Ttl] /\ since' = [since EXCEPT ![p] = 0] /\ refused' \subseteq Places
  BY <1>0, Assumptions DEF Ingest
<1>3. hc' = Summoned(hc, p)  BY DEF Ingest
<1>4. SUFFICES hc' \in Honeycomb /\ Len(hc') < PoolSize /\ HoneycombSound'
  <2>1. TypeOK'  BY <1>0, <1>1, <1>2, <1>4 DEF Ingest, TypeOK, reflex, lazy
  <2>. QED  BY <1>1, <1>4, <2>1 DEF Inv
<1> HIDE DEF p
<1>5. ASSUME NEW i \in DOMAIN hc, Live(hc, p) = {i}
      PROVE  hc' \in Honeycomb /\ Len(hc') < PoolSize /\ HoneycombSound'
  <2>1. /\ hc' \in Honeycomb /\ Len(hc') = Len(hc)
        /\ Live(hc', p) = {i} /\ hc'[i].ttl = Ttl
        /\ \A q \in Places \ {p} : /\ Live(hc', q) = Live(hc, q)
                                   /\ \A j \in Live(hc, q) : hc'[j] = hc[j]
    BY <1>0, <1>3, <1>5, Refreshed
  <2>2. refused' = refused \ {p}  BY <1>5 DEF Ingest, p
  <2>3. i \in DOMAIN hc'  BY <2>1, LiveCells, <1>0
  <2>4. ASSUME NEW q \in Places
        PROVE  \/ q \in refused' /\ PoolFull(hc') /\ Live(hc', q) = {}
               \/ q \notin refused' /\ since'[q] = Ttl /\ Live(hc', q) = {}
               \/ /\ q \notin refused'
                  /\ \E j \in DOMAIN hc' : Live(hc', q) = {j} /\ hc'[j].ttl = Ttl - since'[q]
    <3>1. CASE q = p
      BY <3>1, <2>1, <2>2, <2>3, <1>0, <1>2, Assumptions
    <3>2. CASE q # p
      <4>1. /\ Live(hc', q) = Live(hc, q) /\ \A j \in Live(hc, q) : hc'[j] = hc[j]
            /\ since'[q] = since[q] /\ (q \in refused' <=> q \in refused)
        BY <3>2, <2>1, <2>2, <1>0, <1>2
      <4>2. DOMAIN hc' = DOMAIN hc /\ PoolFull(hc') = PoolFull(hc)
        BY <2>1, <1>0, LiveCells DEF PoolFull
      <4>. QED  BY <4>1, <4>2, <1>0 DEF HoneycombSound
    <3>. QED  BY <3>1, <3>2
  <2>5. HoneycombSound'  BY <2>4 DEF HoneycombSound
  <2>. QED  BY <2>1, <2>5, <1>0 DEF TypeOK
<1>6. CASE Live(hc, p) = {} /\ PoolFull(hc)
  <2>1. hc' = hc /\ refused' = refused \cup {p}  BY <1>3, <1>6 DEF Summoned, Ingest, p
  <2>2. HoneycombSound'  BY <2>1, <1>0, <1>2, <1>6 DEF HoneycombSound
  <2>. QED  BY <2>1, <2>2, <1>0 DEF TypeOK
<1>7. CASE Live(hc, p) = {} /\ ~PoolFull(hc)
  <2> DEFINE i == Len(hc) + 1
  <2>1. /\ hc' \in Honeycomb /\ Len(hc') = i
        /\ i \in DOMAIN hc' /\ Live(hc', p) = {i} /\ hc'[i].ttl = Ttl
        /\ \A q \in Places \ {p} : /\ Live(hc', q) = Live(hc, q)
                                   /\ \A j \in Live(hc, q) : hc'[j] = hc[j]
    BY <1>0, <1>3, <1>7, Allocated
  <2>2. Len(hc) \in Nat /\ Len(hc') < PoolSize  BY <1>7, <2>1, <1>0, LiveCells, Assumptions DEF PoolFull
  <2>3. hc' # hc  BY <2>1, <2>2
  <2>4. refused' = refused \ {p}  BY <2>3 DEF Ingest, p
  <2>5. refused = {}  BY <1>0, <1>7 DEF HoneycombSound
  <2> HIDE DEF i
  <2>6. ASSUME NEW q \in Places
        PROVE  \/ q \in refused' /\ PoolFull(hc') /\ Live(hc', q) = {}
               \/ q \notin refused' /\ since'[q] = Ttl /\ Live(hc', q) = {}
               \/ /\ q \notin refused'
                  /\ \E j \in DOMAIN hc' : Live(hc', q) = {j} /\ hc'[j].ttl = Ttl - since'[q]
    <3>1. CASE q = p
      BY <3>1, <2>1, <2>4, <1>0, <1>2, Assumptions
    <3>2. CASE q # p
      <4>1. /\ Live(hc', q) = Live(hc, q) /\ \A j \in Live(hc, q) : hc'[j] = hc[j]
            /\ since'[q] = since[q] /\ q \notin refused' /\ q \notin refused
        BY <3>2, <2>1, <2>4, <2>5, <1>0, <1>2
      <4>2. DOMAIN hc \subseteq DOMAIN hc'
        <5>1. DOMAIN hc = 1 .. Len(hc) /\ DOMAIN hc' = 1 .. Len(hc')
          BY <2>1, <1>0, LiveCells
        <5>. QED  BY <5>1, <2>1, <2>2 DEF i
      <4>. QED  BY <4>1, <4>2, <1>0 DEF HoneycombSound
    <3>. QED  BY <3>1, <3>2
  <2>7. HoneycombSound'  BY <2>6 DEF HoneycombSound
  <2>. QED  BY <2>1, <2>2, <2>7
<1>8. Live(hc, p) = {} \/ \E i \in DOMAIN hc : Live(hc, p) = {i}
  BY <1>0 DEF HoneycombSound
<1>. QED  BY <1>5, <1>6, <1>7, <1>8

LEMMA TickStep ==
  ASSUME Inv, Tick
  PROVE  Inv'
<1>0. /\ TypeOK /\ Shape /\ HoneycombSound /\ hc \in Honeycomb
      /\ since \in [Places -> 0 .. Ttl] /\ refused \subseteq Places
  BY DEF Inv, TypeOK
<1>1. /\ hc' = Ticked(hc) /\ refused' = refused /\ frame' = frame
      /\ since' = [p \in Places |-> IF since[p] < Ttl THEN since[p] + 1 ELSE since[p]]
  BY DEF Tick
<1>2. /\ hc' \in Honeycomb /\ Len(hc') = Len(hc) /\ DOMAIN hc' = DOMAIN hc
      /\ \A p \in Places : Live(hc', p) = {i \in Live(hc, p) : hc[i].ttl > 1}
      /\ \A p \in Places : \A i \in Live(hc, p) : hc'[i].ttl = hc[i].ttl - 1
  BY <1>0, <1>1, Aged
<1>3. Shape'  BY <1>0, <1>1, FrameUnchanged
<1>4. since' \in [Places -> 0 .. Ttl]  BY <1>0, <1>1, Assumptions
<1>5. TypeOK'  BY <1>0, <1>1, <1>2, <1>4 DEF Tick, TypeOK, reflex, lazy
<1>6. ASSUME NEW p \in Places
      PROVE  \/ p \in refused' /\ PoolFull(hc') /\ Live(hc', p) = {}
             \/ p \notin refused' /\ since'[p] = Ttl /\ Live(hc', p) = {}
             \/ /\ p \notin refused'
                /\ \E j \in DOMAIN hc' : Live(hc', p) = {j} /\ hc'[j].ttl = Ttl - since'[p]
  <2>1. PoolFull(hc') = PoolFull(hc)  BY <1>2 DEF PoolFull
  <2>2. CASE Live(hc, p) = {}
    <3>1. Live(hc', p) = {}  BY <1>2, <2>2
    <3>2. since[p] = Ttl => since'[p] = Ttl  BY <1>0, <1>1, Assumptions
    <3>. QED  BY <1>0, <1>1, <2>1, <2>2, <3>1, <3>2 DEF HoneycombSound
  <2>3. ASSUME NEW i \in DOMAIN hc, p \notin refused, Live(hc, p) = {i},
               hc[i].ttl = Ttl - since[p]
        PROVE  \/ since'[p] = Ttl /\ Live(hc', p) = {}
               \/ Live(hc', p) = {i} /\ hc'[i].ttl = Ttl - since'[p]
    <3>1. hc[i].ttl > 0  BY <2>3 DEF Live
    <3>2. since[p] \in 0 .. Ttl /\ since[p] < Ttl /\ since'[p] = since[p] + 1
      BY <1>0, <1>1, <2>3, <3>1, Assumptions
    <3>3. hc'[i].ttl = hc[i].ttl - 1  BY <1>2, <2>3
    <3>4. CASE hc[i].ttl = 1
      <4>1. Live(hc', p) = {}  BY <1>2, <2>3, <3>4
      <4>. QED  BY <4>1, <3>2, <3>4, <2>3, Assumptions
    <3>5. CASE hc[i].ttl # 1
      <4>1. hc[i].ttl > 1  BY <3>1, <3>2, <3>5, <2>3, Assumptions
      <4>2. Live(hc', p) = {i}  BY <1>2, <2>3, <4>1
      <4>. QED  BY <4>2, <3>2, <3>3, <2>3, Assumptions
    <3>. QED  BY <3>4, <3>5
  <2>. QED  BY <2>2, <2>3, <1>0, <1>1, <1>2 DEF HoneycombSound
<1>7. HoneycombSound'  BY <1>6 DEF HoneycombSound
<1>. QED  BY <1>3, <1>5, <1>7 DEF Inv

-----------------------------------------------------------------------------
LEMMA StepInv == Inv /\ [Next]_vars => Inv'
<1> SUFFICES ASSUME Inv, [Next]_vars  PROVE Inv'
  OBVIOUS
<1>1. CASE UNCHANGED vars
  <2>1. UNCHANGED << reflex, layer, hc, entry, frame, ops, history >>  BY <1>1 DEF vars
  <2>2. TypeOK'  BY <2>1 DEF Inv, TypeOK, reflex, history, lazy
  <2>3. Shape'  BY <2>1, FrameUnchanged DEF Inv
  <2>4. HoneycombSound'  BY <2>1, SameHoneycomb DEF Inv, history
  <2>. QED  BY <2>2, <2>3, <2>4 DEF Inv
<1>2. CASE Next
  <2>1. CASE Scatter  BY <2>1, ScatterStep
  <2>2. CASE Ingest  BY <2>2, IngestStep
  <2>3. CASE Tick  BY <2>3, TickStep
  <2>4. CASE \/ \E e \in Entries : Fire(e)
             \/ \E z \in Rewardable : Reward(z)
             \/ \E z \in Zones : ShouldDemote(z)
    BY <2>4, CallSteps
  <2>5. ASSUME NEW t \in Threads,
               \/ LoadEpoch(t) \/ LoadLast(t) \/ LoadBias(t) \/ DecayOnce(t) \/ StoreBias(t)
               \/ Stamp(t) \/ Adjust(t) \/ Write(t) \/ Count(t) \/ Answer(t)
        PROVE  Inv'
    BY <2>5, ReadingSteps, StoringSteps, CallSteps
  <2>. QED  BY <1>2, <2>1, <2>2, <2>3, <2>4, <2>5 DEF Next
<1>. QED  BY <1>1, <1>2

-----------------------------------------------------------------------------
(* No anomaly lowers a bias by more than 3, and decay lowers none that is  *)
(* below 0, so that a bias, and what a thread is about to store for one,   *)
(* is backed by the anomalies counted: however stale the value a thread    *)
(* carries, the anomalies it was made of have been counted by now.         *)

Backed(f) ==
  /\ f.pc = "decay" => f.reg + 3 * anomalies[f.zone] >= 0
  /\ f.pc = "write" => f.reg + 3 * anomalies[f.zone] + (IF f.call \in Types THEN 3 ELSE 0) >= 0

Floor ==
  /\ \A z \in Zones : bias[z] + 3 * anomalies[z] >= 0
  /\ \A t \in Threads : Backed(frame[t])
  /\ DemotionNeedsHistory

LEMMA FrameType ==
  ASSUME TypeOK, NEW t \in Threads
  PROVE  /\ frame[t] \in Frame /\ frame[t].zone \in Zones /\ frame[t].call \in Calls
         /\ frame[t].reg \in Bias /\ frame[t].reg \in Int
         /\ anomalies[frame[t].zone] \in Nat
         /\ bias[frame[t].zone] \in Bias /\ bias[frame[t].zone] \in Int
<1>1. frame[t] \in Frame  BY DEF TypeOK
<1>2. frame[t].zone \in Zones /\ frame[t].call \in Calls /\ frame[t].reg \in Bias
  BY <1>1 DEF Frame
<1>3. bias[frame[t].zone] \in Bias /\ anomalies[frame[t].zone] \in Nat
  BY <1>2 DEF TypeOK
<1>4. \A b \in Bias : b \in Int  BY Assumptions DEF Bias
<1>. QED  BY <1>1, <1>2, <1>3, <1>4

LEMMA ClampedFrom ==
  ASSUME NEW b \in Int
  PROVE  Clamped(b) >= b \/ Clamped(b) >= 0
  BY Assumptions DEF Clamped

\* A step that leaves the table alone and moves one thread.
LEMMA FloorMoves ==
  ASSUME TypeOK, Floor, UNCHANGED << bias, anomalies, told >>,
         NEW t \in Threads, NEW f \in Frame, Backed(f),
         frame' = [frame EXCEPT ![t] = f]
  PROVE  Floor'
<1>1. frame' \in [Threads -> Frame] /\ \A u \in Threads : frame'[u] = IF u = t THEN f ELSE frame[u]
  BY DEF TypeOK
<1>2. \A u \in Threads : Backed(frame[u])'  BY <1>1 DEF Floor, Backed
<1>. QED  BY <1>2 DEF Floor, DemotionNeedsHistory

LEMMA FloorGoes ==
  ASSUME TypeOK, Floor, UNCHANGED << bias, anomalies, told >>,
         NEW t \in Threads, NEW label \in Labels \ {"decay", "write"}, Goto(t, label)
  PROVE  Floor'
<1> DEFINE g == [frame[t] EXCEPT !.pc = label]
<1>1. g \in Frame /\ g.pc = label  BY GotoFrame
<1>2. frame' = [frame EXCEPT ![t] = g]  BY GotoFrame DEF Goto
<1> HIDE DEF g
<1>3. Backed(g)  BY <1>1 DEF Backed
<1>. QED  BY <1>1, <1>2, <1>3, FloorMoves

LEMMA FloorBegins ==
  ASSUME TypeOK, Floor, UNCHANGED << bias, anomalies, told >>,
         NEW t \in Threads,
         \/ frame' = [frame EXCEPT ![t] = Idle]
         \/ \E call \in Calls, zone \in Zones : Begin(t, call, zone)
  PROVE  Floor'
<1>1. CASE frame' = [frame EXCEPT ![t] = Idle]
  <2>1. Backed(Idle)  BY IdleFrame DEF Backed
  <2>. QED  BY <1>1, <2>1, IdleFrame, FloorMoves
<1>2. ASSUME NEW call \in Calls, NEW zone \in Zones, Begin(t, call, zone)  PROVE Floor'
  <2> DEFINE g == [Idle EXCEPT !.pc = "epoch", !.call = call, !.zone = zone]
  <2>1. g \in Frame /\ g.pc = "epoch"  BY IdleFrame DEF Frame, Labels
  <2>2. frame' = [frame EXCEPT ![t] = g]  BY <1>2 DEF Begin
  <2> HIDE DEF g
  <2>3. Backed(g)  BY <2>1 DEF Backed
  <2>. QED  BY <2>1, <2>2, <2>3, FloorMoves
<1>. QED  BY <1>1, <1>2

LEMMA FloorReads ==
  ASSUME Inv, Floor, NEW t \in Threads,
         LoadEpoch(t) \/ LoadLast(t) \/ LoadBias(t) \/ DecayOnce(t) \/ Adjust(t)
  PROVE  Floor'
<1> DEFINE f == frame[t]
<1>0. /\ TypeOK /\ f \in Frame /\ f.zone \in Zones /\ f.call \in Calls
      /\ bias[f.zone] \in Bias /\ anomalies[f.zone] \in Nat /\ bias[f.zone] \in Int
      /\ bias[f.zone] + 3 * anomalies[f.zone] >= 0
  <2>1. TypeOK  BY DEF Inv
  <2>2. \A z \in Zones : bias[z] + 3 * anomalies[z] >= 0  BY DEF Floor
  <2>. QED  BY <2>1, <2>2, FrameType
<1>1. CASE LoadEpoch(t)
  <2> DEFINE g == [f EXCEPT !.pc = "last", !.now = epoch]
  <2>1. g \in Frame /\ g.pc = "last"  BY <1>0 DEF Frame, Labels, TypeOK
  <2>2. frame' = [frame EXCEPT ![t] = g] /\ UNCHANGED << bias, anomalies, told >>
    BY <1>1 DEF LoadEpoch, reflex, history
  <2> HIDE DEF g
  <2>3. Backed(g)  BY <2>1 DEF Backed
  <2>. QED  BY <1>0, <2>1, <2>2, <2>3, FloorMoves
<1>2. CASE LoadLast(t)
  <2> DEFINE missed == Missed(f.now, last_decay[f.zone])
             g == [f EXCEPT !.pc = IF missed = 0 THEN Onward(f.call) ELSE "load",
                            !.left = Steps(missed)]
  <2>1. f.now \in Epochs /\ last_decay[f.zone] \in Epochs  BY <1>0 DEF Frame, TypeOK
  <2>2. Steps(missed) \in 0 .. DecayCap  BY <2>1, MissedEpochs
  <2>3. Onward(f.call) \in {"answer", "adjust"}  BY DEF Onward
  <2>4. frame' = [frame EXCEPT ![t] = g] /\ UNCHANGED << bias, anomalies, told >>
    BY <1>2 DEF LoadLast, reflex, history
  <2> HIDE DEF missed
  <2>5. g \in Frame /\ g.pc \in {"answer", "adjust", "load"}
    BY <1>0, <2>2, <2>3 DEF Frame, Labels
  <2> HIDE DEF g
  <2>6. Backed(g)  BY <2>5 DEF Backed
  <2>. QED  BY <1>0, <2>4, <2>5, <2>6, FloorMoves
<1>3. CASE LoadBias(t)
  <2> DEFINE g == [f EXCEPT !.pc = "decay", !.reg = bias[f.zone]]
  <2>1. g \in Frame /\ g.pc = "decay" /\ g.zone = f.zone /\ g.reg = bias[f.zone]
    BY <1>0 DEF Frame, Labels
  <2>2. frame' = [frame EXCEPT ![t] = g] /\ UNCHANGED << bias, anomalies, told >>
    BY <1>3 DEF LoadBias, reflex, history
  <2> HIDE DEF g
  <2>3. Backed(g)  BY <1>0, <2>1 DEF Backed
  <2>. QED  BY <1>0, <2>1, <2>2, <2>3, FloorMoves
<1>4. CASE DecayOnce(t)
  <2> DEFINE g == [f EXCEPT !.reg = Decayed(f.reg), !.left = f.left - 1]
  <2>1. /\ f.reg \in Bias /\ f.left \in 0 .. DecayCap /\ f.left > 0 /\ f.pc = "decay"
        /\ f.reg \in Int /\ f.reg + 3 * anomalies[f.zone] >= 0
    BY <1>0, <1>4, Assumptions DEF Frame, DecayOnce, At, Bias, Floor, Backed
  <2>2. Decayed(f.reg) \in Bias  BY <2>1, DecayedBias
  <2>3. f.left - 1 \in 0 .. DecayCap  BY <2>1, Assumptions
  <2>4. g \in Frame /\ g.pc = "decay" /\ g.zone = f.zone /\ g.reg = Decayed(f.reg)
    BY <1>0, <2>1, <2>2, <2>3 DEF Frame
  <2>5. Decayed(f.reg) + 3 * anomalies[f.zone] >= 0
    <3>1. Decayed(f.reg) \in Int /\ (Decayed(f.reg) >= 0 \/ Decayed(f.reg) >= f.reg)
      BY <2>1, DecayTowardsZero
    <3>. QED  BY <3>1, <2>1, <1>0
  <2>6. frame' = [frame EXCEPT ![t] = g] /\ UNCHANGED << bias, anomalies, told >>
    BY <1>4 DEF DecayOnce, reflex, history
  <2> HIDE DEF g
  <2>7. Backed(g)  BY <2>4, <2>5 DEF Backed
  <2>. QED  BY <1>0, <2>4, <2>6, <2>7, FloorMoves
<1>5. CASE Adjust(t)
  <2> DEFINE b == Feedback(f.call, bias[f.zone])
             owed == IF f.call \in Types THEN 3 ELSE 0
             g == [f EXCEPT !.pc = "write", !.reg = Clamped(b)]
  <2>1. b \in Int /\ b >= bias[f.zone] - owed /\ Clamped(b) \in Bias
    BY <1>0, FeedbackType
  <2>2. Clamped(b) \in Int /\ (Clamped(b) >= b \/ Clamped(b) >= 0)
    BY <2>1, ClampedFrom, Assumptions DEF Bias
  <2>3. frame' = [frame EXCEPT ![t] = g] /\ UNCHANGED << bias, anomalies, told >>
    BY <1>5 DEF Adjust, reflex, history
  <2> HIDE DEF b
  <2>4. g \in Frame /\ g.pc = "write" /\ g.zone = f.zone /\ g.call = f.call /\ g.reg = Clamped(b)
    BY <1>0, <2>1 DEF Frame, Labels
  <2>5. Clamped(b) + 3 * anomalies[f.zone] + owed >= 0  BY <1>0, <2>1, <2>2
  <2> HIDE DEF g
  <2>6. Backed(g)  BY <2>4, <2>5 DEF Backed
  <2>. QED  BY <1>0, <2>3, <2>4, <2>6, FloorMoves
<1>. QED  BY <1>1, <1>2, <1>3, <1>4, <1>5

LEMMA FloorStores ==
  ASSUME Inv, Floor, NEW t \in Threads,
         StoreBias(t) \/ Write(t) \/ Answer(t)
  PROVE  Floor'
<1> DEFINE f == frame[t]
<1>0. /\ TypeOK /\ f \in Frame /\ f.zone \in Zones /\ f.call \in Calls /\ f.reg \in Int
      /\ bias \in [Zones -> Int] /\ anomalies \in [Zones -> Nat]
      /\ Backed(f)
  <2>1. TypeOK  BY DEF Inv
  <2>2. \A b \in Bias : b \in Int  BY Assumptions DEF Bias
  <2>3. bias \in [Zones -> Int] /\ anomalies \in [Zones -> Nat]  BY <2>1, <2>2 DEF TypeOK
  <2>. QED  BY <2>1, <2>3, FrameType DEF Floor
<1>1. CASE StoreBias(t)
  <2>1. /\ f.pc = "decay" /\ bias' = [bias EXCEPT ![f.zone] = f.reg]
        /\ UNCHANGED << anomalies, told >> /\ Goto(t, "stamp")
    BY <1>1 DEF StoreBias, At, history
  <2>2. \A z \in Zones : bias'[z] + 3 * anomalies'[z] >= 0
    BY <1>0, <2>1 DEF Floor, Backed
  <2>3. \A u \in Threads : Backed(frame[u])'
    BY <1>0, <2>1 DEF Floor, Backed, Goto, TypeOK
  <2>. QED  BY <2>1, <2>2, <2>3 DEF Floor, DemotionNeedsHistory
<1>2. CASE Write(t)
  <2> DEFINE owed == IF f.call \in Types THEN 1 ELSE 0
  <2>1. /\ f.pc = "write" /\ bias' = [bias EXCEPT ![f.zone] = f.reg]
        /\ anomalies' = [anomalies EXCEPT ![f.zone] = anomalies[f.zone] + owed]
        /\ told' = told /\ Goto(t, "count")
    <3>1. CASE f.call \in Types
      BY <3>1, <1>0, <1>2 DEF Write, At
    <3>2. CASE f.call \notin Types
      <4>1. owed = 0 /\ anomalies[f.zone] + owed = anomalies[f.zone]  BY <3>2, <1>0
      <4> HIDE DEF owed
      <4>2. anomalies' = [anomalies EXCEPT ![f.zone] = anomalies[f.zone]]
        BY <3>2, <1>0, <1>2 DEF Write
      <4>3. anomalies' = [anomalies EXCEPT ![f.zone] = anomalies[f.zone] + owed]
        BY <4>1, <4>2
      <4>. QED  BY <4>3, <1>2 DEF Write, At
    <3>. QED  BY <3>1, <3>2
  <2>2. \A z \in Zones : anomalies'[z] >= anomalies[z] /\ anomalies'[z] \in Nat
    BY <1>0, <2>1
  <2>3. f.reg + 3 * (anomalies[f.zone] + owed) >= 0
    <3>1. f.reg + 3 * anomalies[f.zone] + (IF f.call \in Types THEN 3 ELSE 0) >= 0
      BY <1>0, <2>1 DEF Backed
    <3>. QED  BY <1>0, <3>1
  <2>4. \A z \in Zones : bias'[z] + 3 * anomalies'[z] >= 0
    BY <1>0, <2>1, <2>3 DEF Floor
  <2> HIDE DEF owed
  <2>5. ASSUME NEW u \in Threads  PROVE Backed(frame[u])'
    <3>1. CASE u = t
      BY <3>1, <1>0, <2>1 DEF Backed, Goto, TypeOK
    <3>2. CASE u # t
      <4>1. frame'[u] = frame[u]  BY <3>2, <1>0, <2>1 DEF Goto, TypeOK
      <4>2. /\ frame[u].zone \in Zones /\ frame[u].reg \in Int /\ Backed(frame[u])
            /\ anomalies[frame[u].zone] \in Nat
        BY <1>0, FrameType DEF Floor
      <4>. QED  BY <4>1, <4>2, <2>2 DEF Backed
    <3>. QED  BY <3>1, <3>2
  <2>6. DemotionNeedsHistory'
    BY <1>0, <2>1, <2>2 DEF DemotionNeedsHistory, Floor, TypeOK
  <2>. QED  BY <2>4, <2>5, <2>6 DEF Floor
<1>3. CASE Answer(t)
  <2>1. frame' = [frame EXCEPT ![t] = Idle] /\ UNCHANGED << bias, anomalies >>
    BY <1>3 DEF Answer, reflex
  <2>2. told' = told \/ (told' = told \cup {f.zone} /\ bias[f.zone] <= Demote)
    BY <1>3 DEF Answer
  <2>3. bias[f.zone] <= Demote => anomalies[f.zone] >= 2
    <3>1. bias[f.zone] + 3 * anomalies[f.zone] >= 0  BY <1>0 DEF Floor
    <3>. QED  BY <1>0, <3>1, Assumptions
  <2>4. \A u \in Threads : Backed(frame[u])'
    BY <1>0, <2>1, IdleFrame DEF Floor, Backed, TypeOK
  <2>5. DemotionNeedsHistory'
    BY <2>1, <2>2, <2>3 DEF DemotionNeedsHistory, Floor
  <2>. QED  BY <2>1, <2>4, <2>5 DEF Floor
<1>. QED  BY <1>1, <1>2, <1>3

LEMMA FloorStep == Inv /\ Floor /\ [Next]_vars => Floor'
<1> SUFFICES ASSUME Inv, Floor, [Next]_vars  PROVE Floor'
  OBVIOUS
<1>0. TypeOK /\ Shape /\ "flush" \in Threads /\ "hot" \in Threads  BY DEF Inv, Threads
<1>1. CASE UNCHANGED vars
  <2>1. UNCHANGED << bias, anomalies, told, frame >>  BY <1>1 DEF vars, reflex, history
  <2>. QED  BY <2>1 DEF Floor, Backed, DemotionNeedsHistory
<1>2. ASSUME NEW e \in Entries, Fire(e)  PROVE Floor'
  <2>1. UNCHANGED << bias, anomalies, told >>  BY <1>2 DEF Fire, reflex, history
  <2>2. CASE IsMeshAnomaly(e)
    <3>1. ClassifiedType(e) \in Calls /\ e.zone \in Zones  BY EntryTypes DEF Calls
    <3>2. Begin("flush", ClassifiedType(e), e.zone)  BY <1>2, <2>2 DEF Fire
    <3>. QED  BY <1>0, <2>1, <3>1, <3>2, FloorBegins
  <2>3. CASE ~IsMeshAnomaly(e)
    <3>1. Goto("flush", "ingest") /\ "ingest" \in Labels \ {"decay", "write"}
      BY <1>2, <2>3 DEF Fire, Labels
    <3>. QED  BY <1>0, <2>1, <3>1, FloorGoes
  <2>. QED  BY <2>2, <2>3
<1>3. ASSUME NEW z \in Zones, Reward(z) \/ ShouldDemote(z)  PROVE Floor'
  <2>1. UNCHANGED << bias, anomalies, told >>  BY <1>3 DEF Reward, ShouldDemote, reflex, history
  <2>2. "REWARD" \in Calls /\ "LOOKUP" \in Calls  BY DEF Calls
  <2>3. Begin("flush", "REWARD", z) \/ Begin("hot", "LOOKUP", z)
    BY <1>3 DEF Reward, ShouldDemote
  <2>. QED  BY <1>0, <2>1, <2>2, <2>3, FloorBegins
<1>4. CASE Scatter
  <2>1. UNCHANGED << bias, anomalies, told >> /\ Goto("flush", "ingest")
    BY <1>4 DEF Scatter, reflex
  <2>2. "ingest" \in Labels \ {"decay", "write"}  BY DEF Labels
  <2>. QED  BY <1>0, <2>1, <2>2, FloorGoes
<1>5. CASE Ingest
  <2>1. UNCHANGED << bias, anomalies, told >> /\ frame' = [frame EXCEPT !["flush"] = Idle]
    BY <1>5 DEF Ingest, reflex
  <2>. QED  BY <1>0, <2>1, FloorBegins
<1>6. CASE Tick
  <2>1. UNCHANGED << bias, anomalies, told, frame >>  BY <1>6 DEF Tick, reflex
  <2>. QED  BY <2>1 DEF Floor, Backed, DemotionNeedsHistory
<1>7. ASSUME NEW t \in Threads, Stamp(t)  PROVE Floor'
  <2>1. UNCHANGED << bias, anomalies, told >> /\ Goto(t, Onward(frame[t].call))
    BY <1>7 DEF Stamp
  <2>2. Onward(frame[t].call) \in Labels \ {"decay", "write"}  BY DEF Onward, Labels
  <2>. QED  BY <1>0, <2>1, <2>2, FloorGoes
<1>8. ASSUME NEW t \in Threads, Count(t)  PROVE Floor'
  <2>1. UNCHANGED << bias, anomalies, told >>  BY <1>8 DEF Count
  <2>2. frame' = [frame EXCEPT ![t] = Idle] \/ Goto(t, "scatter")  BY <1>8 DEF Count
  <2>3. "scatter" \in Labels \ {"decay", "write"}  BY DEF Labels
  <2>. QED  BY <1>0, <2>1, <2>2, <2>3, FloorBegins, FloorGoes
<1>9. ASSUME NEW t \in Threads,
             \/ LoadEpoch(t) \/ LoadLast(t) \/ LoadBias(t) \/ DecayOnce(t) \/ StoreBias(t)
             \/ Adjust(t) \/ Write(t) \/ Answer(t)
      PROVE  Floor'
  BY <1>9, FloorReads, FloorStores
<1>. QED
  BY <1>1, <1>2, <1>3, <1>4, <1>5, <1>6, <1>7, <1>8, <1>9, ObserversAssumption DEF Next

-----------------------------------------------------------------------------
\* What a cell is after nothing, and after GHOST events only.
Cells ==
  \A c \in DiamondIds :
    /\ kinds[c] = {} => layer[c].bias = 0 /\ layer[c].last = Unset
    /\ kinds[c] = {"GHOST"} => layer[c].bias = -1 /\ layer[c].last = "GHOST"

LEMMA CellsStep == Inv /\ Cells /\ [Next]_vars => Cells'
<1> SUFFICES ASSUME Inv, Cells, [Next]_vars  PROVE Cells'
  OBVIOUS
<1>1. CASE UNCHANGED << layer, kinds >>
  BY <1>1 DEF Cells
<1>2. CASE Scatter
  <2> DEFINE type == frame["flush"].call
             c == entry.cell
  <2>0. /\ type \in Types /\ c \in DiamondIds
        /\ layer \in [DiamondIds -> DiamondCell] /\ kinds \in [DiamondIds -> SUBSET Types]
    BY <1>2, EntryTypes DEF Inv, TypeOK, Shape, Scatter, At, Threads, DiamondLayer
  <2>1. /\ layer' = [layer EXCEPT ![c] = CellUpdated(layer[c], type)]
        /\ kinds' = [kinds EXCEPT ![c] = kinds[c] \cup {type}]
    BY <1>2, <2>0 DEF Scatter, LayerUpdated
  <2> HIDE DEF type, c
  <2>2. ASSUME kinds'[c] = {"GHOST"}
        PROVE  layer'[c].bias = -1 /\ layer'[c].last = "GHOST"
    <3>1. type = "GHOST" /\ (kinds[c] = {} \/ kinds[c] = {"GHOST"})  BY <2>0, <2>1, <2>2
    <3>2. \/ layer[c].bias = 0 /\ layer[c].last = Unset
          \/ layer[c].bias = -1 /\ layer[c].last = "GHOST"
      BY <3>1, <2>0 DEF Cells
    <3>. QED  BY <3>1, <3>2, <2>0, <2>1, GhostCell
  <2>3. kinds'[c] # {}  BY <2>0, <2>1
  <2>4. \A d \in DiamondIds \ {c} : layer'[d] = layer[d] /\ kinds'[d] = kinds[d]
    BY <2>0, <2>1
  <2>. QED  BY <2>0, <2>2, <2>3, <2>4 DEF Cells
<1>3. CASE UNCHANGED vars
  BY <1>1, <1>3 DEF vars, history
<1>4. ASSUME Next, ~Scatter  PROVE UNCHANGED << layer, kinds >>
  <2>1. ASSUME NEW e \in Entries, Fire(e)  PROVE UNCHANGED << layer, kinds >>
    BY <2>1 DEF Fire, history
  <2>2. ASSUME NEW z \in Zones, Reward(z) \/ ShouldDemote(z)  PROVE UNCHANGED << layer, kinds >>
    BY <2>2 DEF Reward, ShouldDemote, history
  <2>3. CASE Ingest \/ Tick
    BY <2>3 DEF Ingest, Tick
  <2>4. ASSUME NEW t \in Threads,
               \/ LoadEpoch(t) \/ LoadLast(t) \/ LoadBias(t) \/ DecayOnce(t) \/ StoreBias(t)
               \/ Stamp(t) \/ Adjust(t) \/ Write(t) \/ Count(t) \/ Answer(t)
        PROVE  UNCHANGED << layer, kinds >>
    BY <2>4 DEF LoadEpoch, LoadLast, LoadBias, DecayOnce, StoreBias, Stamp, Adjust, Write,
                Count, Answer, history
  <2>. QED  BY <1>4, <2>1, <2>2, <2>3, <2>4, ObserversAssumption DEF Next
<1>. QED  BY <1>1, <1>2, <1>3, <1>4

LEMMA CellsAreCold == TypeOK /\ Cells => GhostZonesNeverBoosted
<1> SUFFICES ASSUME TypeOK, Cells, NEW c \in DiamondIds, kinds[c] = {"GHOST"}
             PROVE  /\ RouteSignal(layer[c]) <= 0
                    /\ Warm(layer[c]) => RouteSignal(layer[c]) < 0 /\ ScoreDemotes(layer[c])
  BY DEF GhostZonesNeverBoosted
<1>1. layer[c].bias = -1  BY DEF Cells
<1>2. HeatBoosts(layer[c]) = 0  BY <1>1 DEF HeatBoosts
<1>3. Score(layer[c]) = IF Warm(layer[c]) THEN -1 ELSE 0  BY <1>1 DEF Score
<1>. QED  BY <1>2, <1>3 DEF RouteSignal, ScoreDemotes

-----------------------------------------------------------------------------
\* The state keeps its type: the bias its range, the pool its size, whatever the
\* threads' calls interleave to (ReflexBias, DiamondLayer, DHCContext).
THEOREM TypeCorrect == Spec => []TypeOK
<1>1. Inv => TypeOK  BY DEF Inv
<1>. QED  BY InitInv, StepInv, <1>1, PTL DEF Spec

\* dhc_ingest and dhc_tick_ttl: one live cell of the right age for every place with
\* an event in the last Ttl ticks, unless the pool is full.
THEOREM HoneycombHoldsRecent == Spec => []HoneycombSound
<1>1. Inv => HoneycombSound  BY DEF Inv
<1>. QED  BY InitInv, StepInv, <1>1, PTL DEF Spec

\* reflex_should_demote never demotes a zone with fewer than two anomalies, the
\* races of the lookup with reflex_update included.
THEOREM DemotionHasHistory == Spec => []DemotionNeedsHistory
<1>1. Init => Floor
  <2> SUFFICES ASSUME Init  PROVE Floor
    OBVIOUS
  <2>1. \A t \in Threads : Backed(frame[t])  BY IdleFrame DEF Init, Backed
  <2>2. ASSUME NEW z \in Zones  PROVE bias[z] + 3 * anomalies[z] >= 0
    <3>1. bias[z] = 0 /\ anomalies[z] = 0  BY DEF Init
    <3>. QED  BY <3>1
  <2>3. DemotionNeedsHistory  BY DEF Init, DemotionNeedsHistory
  <2>. QED  BY <2>1, <2>2, <2>3 DEF Floor
<1>2. Floor => DemotionNeedsHistory  BY DEF Floor
<1>. QED  BY InitInv, StepInv, <1>1, FloorStep, <1>2, PTL DEF Spec

\* diamond_route_signal: a cell of GHOST events never adds to a route's score, and
\* demotes it once warm, however many events it has seen.
THEOREM GhostCellsStayCold == Spec => []GhostZonesNeverBoosted
<1>1. Init => Cells  BY DEF Init, Cells, DiamondInit
<1>2. Inv => TypeOK  BY DEF Inv
<1>. QED  BY InitInv, StepInv, <1>1, CellsStep, <1>2, CellsAreCold, PTL DEF Spec

-----------------------------------------------------------------------------
(* Lazy and eager decay.  Between calls, the bias of a zone that has not   *)
(* overslept is as many steps of decay behind the eager one as the zone    *)
(* has missed epochs; within a call, the thread makes those steps.         *)

\* e is b after m steps of decay.
Reaches(b, m, e) ==
  \E c \in [0 .. m -> Int] :
    c[0] = b /\ c[m] = e /\ \A i \in 0 .. (m - 1) : c[i + 1] = Decayed(c[i])

Stamping(z) == \E t \in Threads : frame[t].pc = "stamp" /\ frame[t].zone = z

\* In between the store of the bias and that of last_decay the bias is ahead.
LagsIf(z, stamping) ==
  z \notin overslept =>
    /\ missing[z] <= DecayCap /\ missing[z] = Missed(epoch, last_decay[z])
    /\ IF stamping THEN bias[z] = eager[z] ELSE Reaches(bias[z], missing[z], eager[z])

Current(f) ==
  /\ f.pc \in {"last", "load", "decay", "stamp"} => f.now = epoch
  /\ f.zone \notin overslept =>
       /\ f.pc = "load" => f.left = missing[f.zone]
       /\ f.pc = "decay" => Reaches(f.reg, f.left, eager[f.zone])
       /\ f.pc \in {"adjust", "write"} => missing[f.zone] = 0
       /\ f.pc = "write" => f.reg = Clamped(Feedback(f.call, bias[f.zone]))

Alone == \A t, u \in Threads : frame[t].pc # "idle" /\ frame[u].pc # "idle" => t = u

LazyInv ==
  /\ Alone
  /\ \A z \in Zones : LagsIf(z, Stamping(z))
  /\ \A t \in Threads : Current(frame[t])

LEMMA DecayedInt == ASSUME NEW b \in Int PROVE Decayed(b) \in Int
  BY DecayTowardsZero

LEMMA ReachesNow ==
  ASSUME NEW b \in Int, NEW e
  PROVE  Reaches(b, 0, e) <=> e = b
<1>1. ASSUME e = b  PROVE Reaches(b, 0, e)
  <2> DEFINE c == [i \in 0 .. 0 |-> b]
  <2>1. c \in [0 .. 0 -> Int] /\ c[0] = b  OBVIOUS
  <2>2. \A i \in 0 .. (0 - 1) : FALSE  OBVIOUS
  <2> HIDE DEF c
  <2>. QED  BY <1>1, <2>1, <2>2 DEF Reaches
<1>2. ASSUME Reaches(b, 0, e)  PROVE e = b
  BY <1>2 DEF Reaches
<1>. QED  BY <1>1, <1>2

\* One step of decay more, at the end: what the end of an epoch does.
LEMMA ReachesFurther ==
  ASSUME NEW b \in Int, NEW m \in Nat, NEW e \in Int, Reaches(b, m, e)
  PROVE  Reaches(b, m + 1, Decayed(e))
<1>1. PICK c \in [0 .. m -> Int] :
        c[0] = b /\ c[m] = e /\ \A i \in 0 .. (m - 1) : c[i + 1] = Decayed(c[i])
  BY DEF Reaches
<1> DEFINE d == [i \in 0 .. (m + 1) |-> IF i = m + 1 THEN Decayed(e) ELSE c[i]]
<1>2. Decayed(e) \in Int  BY DecayedInt
<1>3. \A i \in 0 .. (m + 1) : i # m + 1 => i \in 0 .. m  OBVIOUS
<1>4. d \in [0 .. (m + 1) -> Int]  BY <1>1, <1>2, <1>3
<1>5. d[0] = b /\ d[m + 1] = Decayed(e)  BY <1>1
<1>6. ASSUME NEW i \in 0 .. ((m + 1) - 1)  PROVE d[i + 1] = Decayed(d[i])
  <2>1. i \in 0 .. m /\ d[i] = c[i]  OBVIOUS
  <2>2. CASE i = m
    BY <1>1, <2>1, <2>2
  <2>3. CASE i # m
    <3>1. i \in 0 .. (m - 1) /\ i + 1 \in 0 .. (m + 1) /\ i + 1 # m + 1  BY <2>3
    <3>2. d[i + 1] = c[i + 1]  BY <3>1
    <3>. QED  BY <1>1, <2>1, <3>1, <3>2
  <2>. QED  BY <2>2, <2>3
<1> HIDE DEF d
<1>. QED  BY <1>4, <1>5, <1>6 DEF Reaches

\* One step of decay less, at the beginning: what the catch-up does.
LEMMA ReachesNearer ==
  ASSUME NEW b \in Int, NEW m \in Nat \ {0}, NEW e, Reaches(b, m, e)
  PROVE  Reaches(Decayed(b), m - 1, e)
<1>1. PICK c \in [0 .. m -> Int] :
        c[0] = b /\ c[m] = e /\ \A i \in 0 .. (m - 1) : c[i + 1] = Decayed(c[i])
  BY DEF Reaches
<1> DEFINE d == [i \in 0 .. (m - 1) |-> c[i + 1]]
<1>2. \A i \in 0 .. (m - 1) : i + 1 \in 0 .. m  OBVIOUS
<1>3. d \in [0 .. (m - 1) -> Int]  BY <1>1, <1>2
<1>4. d[0] = Decayed(b)
  <2>1. 0 \in 0 .. (m - 1) /\ 0 + 1 = 1  OBVIOUS
  <2>2. c[0 + 1] = Decayed(c[0])  BY <1>1, <2>1
  <2>. QED  BY <1>1, <2>1, <2>2
<1>5. d[m - 1] = e
  <2>1. m - 1 \in 0 .. (m - 1) /\ (m - 1) + 1 = m  OBVIOUS
  <2>. QED  BY <1>1, <2>1
<1>6. ASSUME NEW i \in 0 .. ((m - 1) - 1)  PROVE d[i + 1] = Decayed(d[i])
  <2>1. i \in 0 .. (m - 1) /\ i + 1 \in 0 .. (m - 1)  OBVIOUS
  <2>2. d[i] = c[i + 1] /\ d[i + 1] = c[(i + 1) + 1]  BY <2>1
  <2>. QED  BY <1>1, <2>1, <2>2
<1> HIDE DEF d
<1>. QED  BY <1>3, <1>4, <1>5, <1>6 DEF Reaches

LEMMA ZoneType ==
  ASSUME TypeOK, NEW z \in Zones
  PROVE  /\ bias[z] \in Int /\ eager[z] \in Int /\ eager[z] \in Bias /\ bias[z] \in Bias
         /\ missing[z] \in Nat /\ last_decay[z] \in Epochs /\ epoch \in Epochs
<1>1. \A b \in Bias : b \in Int  BY Assumptions DEF Bias
<1>2. bias[z] \in Bias /\ eager[z] \in Bias /\ missing[z] \in 0 .. (DecayCap + 1)
      /\ last_decay[z] \in Epochs /\ epoch \in Epochs
  BY DEF TypeOK
<1>. QED  BY <1>1, <1>2, Assumptions

LEMMA MissedNone ==
  ASSUME NEW now \in Epochs
  PROVE  Missed(now, now) = 0 /\ Steps(0) = 0
<1>1. now - now = 0  BY Assumptions DEF Epochs
<1>2. 0 \in 0 .. (EpochMod - 1)  BY Assumptions
<1>3. 0 % EpochMod = 0  BY <1>2, Assumptions, RemainderSmall
<1>. QED  BY <1>1, <1>3, Assumptions DEF Missed, Steps

LEMMA MissedOneMore ==
  ASSUME NEW now \in Epochs, NEW last \in Epochs, Missed(now, last) < DecayCap
  PROVE  Missed((now + 1) % EpochMod, last) = Missed(now, last) + 1
<1> DEFINE m == EpochMod
           d == (now - last) % m
<1>1. m \in Nat \ {0} /\ m > DecayCap /\ DecayCap \in Nat /\ now \in Int /\ last \in Int
  BY Assumptions, ReflexAssumption DEF Epochs
<1>2. d \in 0 .. (m - 1) /\ d < DecayCap
  <2>1. now - last \in Int  BY <1>1
  <2>. QED  BY <1>1, <2>1, Division DEF Missed
<1>3. (((now + 1) % m) + (-last)) % m = ((now + 1) + (-last)) % m
  <2>1. now + 1 \in Int /\ -last \in Int  BY <1>1
  <2> HIDE DEF m
  <2>. QED  BY <1>1, <2>1, RemainderAdd
<1>4. (((now - last) % m) + 1) % m = ((now - last) + 1) % m
  <2>1. now - last \in Int /\ 1 \in Int  BY <1>1
  <2> HIDE DEF m
  <2>. QED  BY <1>1, <2>1, RemainderAdd
<1>5. (now + 1) + (-last) = (now - last) + 1  BY <1>1
<1>6. (d + 1) % m = d + 1
  <2>1. d + 1 \in 0 .. (m - 1)  BY <1>1, <1>2
  <2> HIDE DEF m, d
  <2>. QED  BY <1>1, <2>1, RemainderSmall
<1>7. ((now + 1) % m) - last = ((now + 1) % m) + (-last)
  <2>1. (now + 1) % m \in Int
    <3>1. now + 1 \in Int  BY <1>1
    <3>2. (now + 1) % m \in 0 .. (m - 1)  BY <1>1, <3>1, Division
    <3>. QED  BY <1>1, <3>2
  <2>. QED  BY <1>1, <2>1
<1>. QED  BY <1>3, <1>4, <1>5, <1>6, <1>7 DEF Missed

-----------------------------------------------------------------------------
LEMMA OnlyOne ==
  ASSUME ~Overlap, LazyInv, NEW t \in Threads, ~At(t, "idle") \/ Free(t)
  PROVE  /\ \A u \in Threads \ {t} : frame[u].pc = "idle"
         /\ \A z \in Zones : Stamping(z) <=> frame[t].pc = "stamp" /\ frame[t].zone = z
<1>1. \A u \in Threads \ {t} : frame[u].pc = "idle"
  BY DEF LazyInv, Alone, Free, At
<1>. QED  BY <1>1 DEF Stamping

\* One thread moves, the others having been idle.
LEMMA OneMoves ==
  ASSUME TypeOK, NEW t \in Threads, NEW g, frame' = [frame EXCEPT ![t] = g],
         \A u \in Threads \ {t} : frame[u].pc = "idle",
         \A z \in Zones : LagsIf(z, g.pc = "stamp" /\ g.zone = z)',
         Current(g)'
  PROVE  LazyInv'
<1>1. \A u \in Threads : frame'[u] = IF u = t THEN g ELSE frame[u]
  BY DEF TypeOK
<1>2. Alone'  BY <1>1 DEF Alone
<1>3. \A z \in Zones : Stamping(z)' <=> g.pc = "stamp" /\ g.zone = z
  BY <1>1 DEF Stamping
<1>4. \A z \in Zones : LagsIf(z, Stamping(z))'
  BY <1>3 DEF LagsIf
<1>5. ASSUME NEW u \in Threads  PROVE Current(frame[u])'
  <2>1. CASE u = t
    BY <1>1, <2>1 DEF Current
  <2>2. CASE u # t
    <3>1. frame'[u].pc = "idle"  BY <1>1, <2>2
    <3>. QED  BY <3>1 DEF Current
  <2>. QED  BY <2>1, <2>2
<1>. QED  BY <1>2, <1>4, <1>5 DEF LazyInv

\* What it does to the table and the history is nothing.
LEMMA TableStill ==
  ASSUME ~Overlap, TypeOK, LazyInv, NEW t \in Threads, ~At(t, "idle") \/ Free(t),
         NEW g, frame' = [frame EXCEPT ![t] = g],
         UNCHANGED << bias, last_decay, epoch, lazy >>,
         frame[t].pc # "stamp", g.pc # "stamp", Current(g)
  PROVE  LazyInv'
<1>1. /\ \A u \in Threads \ {t} : frame[u].pc = "idle"
      /\ \A z \in Zones : ~Stamping(z)
  BY OnlyOne
<1>2. UNCHANGED << bias, last_decay, epoch, eager, missing, overslept >>  BY DEF lazy
<1>3. Current(g)'  BY <1>2 DEF Current
<1>4. ASSUME NEW z \in Zones  PROVE LagsIf(z, g.pc = "stamp" /\ g.zone = z)'
  <2>1. LagsIf(z, Stamping(z))  BY DEF LazyInv
  <2>. QED  BY <1>1, <1>2, <2>1 DEF LagsIf
<1>. QED  BY <1>1, <1>3, <1>4, OneMoves

LEMMA GoneTo ==
  ASSUME TypeOK, NEW t \in Threads, NEW label \in Labels, Goto(t, label)
  PROVE  \E g \in Frame :
           /\ frame' = [frame EXCEPT ![t] = g]
           /\ g.pc = label /\ g.zone = frame[t].zone /\ g.now = frame[t].now
           /\ g.reg = frame[t].reg /\ g.left = frame[t].left /\ g.call = frame[t].call
<1>1. frame[t] \in Frame  BY DEF TypeOK
<1> DEFINE g == [frame[t] EXCEPT !.pc = label]
<1>2. g \in Frame /\ frame' = [frame EXCEPT ![t] = g]  BY GotoFrame DEF Goto
<1>3. /\ g.pc = label /\ g.zone = frame[t].zone /\ g.now = frame[t].now
      /\ g.reg = frame[t].reg /\ g.left = frame[t].left /\ g.call = frame[t].call
  BY <1>1 DEF Frame
<1>. QED  BY <1>2, <1>3

\* The steps of a call that read the table.
LEMMA LazyReads ==
  ASSUME ~Overlap, TypeOK, LazyInv, NEW t \in Threads,
         LoadEpoch(t) \/ LoadLast(t) \/ LoadBias(t) \/ DecayOnce(t) \/ Adjust(t)
  PROVE  LazyInv'
<1> DEFINE f == frame[t]
<1>0. /\ f \in Frame /\ f.zone \in Zones /\ Current(f) /\ f.left \in Nat /\ f.reg \in Int
      /\ LagsIf(f.zone, Stamping(f.zone))
  <2>1. f \in Frame  BY DEF TypeOK
  <2>2. f.zone \in Zones /\ f.left \in 0 .. DecayCap  BY <2>1 DEF Frame
  <2>. QED  BY <2>1, <2>2, Assumptions, FrameType DEF LazyInv
<1>1. /\ ~At(t, "idle") /\ f.pc # "stamp"
      /\ UNCHANGED << bias, last_decay, epoch, lazy >>
  BY DEF LoadEpoch, LoadLast, LoadBias, DecayOnce, Adjust, At, reflex, history
<1>2. ~Stamping(f.zone)  BY <1>0, <1>1, OnlyOne
<1>3. f.zone \notin overslept =>
        /\ missing[f.zone] <= DecayCap /\ missing[f.zone] = Missed(epoch, last_decay[f.zone])
        /\ Reaches(bias[f.zone], missing[f.zone], eager[f.zone])
  BY <1>0, <1>2 DEF LagsIf
<1>4. missing[f.zone] \in Nat /\ bias[f.zone] \in Int  BY <1>0, ZoneType
<1>5. CASE LoadEpoch(t)
  <2> DEFINE g == [f EXCEPT !.pc = "last", !.now = epoch]
  <2>1. g.pc = "last" /\ g.now = epoch  BY <1>0 DEF Frame
  <2>2. frame' = [frame EXCEPT ![t] = g]  BY <1>5 DEF LoadEpoch
  <2> HIDE DEF g
  <2>3. Current(g)  BY <2>1 DEF Current
  <2>. QED  BY <1>1, <2>1, <2>2, <2>3, TableStill
<1>6. CASE LoadLast(t)
  <2> DEFINE missed == Missed(f.now, last_decay[f.zone])
             g == [f EXCEPT !.pc = IF missed = 0 THEN Onward(f.call) ELSE "load",
                            !.left = Steps(missed)]
  <2>1. f.pc = "last" /\ f.now = epoch  BY <1>0, <1>6 DEF LoadLast, At, Current
  <2>2. f.zone \notin overslept => missed = missing[f.zone] /\ Steps(missed) = missed
    <3>1. f.zone \notin overslept => missed = missing[f.zone] /\ missed <= DecayCap
      BY <1>3, <2>1
    <3> HIDE DEF missed
    <3>. QED  BY <1>4, <3>1, Assumptions DEF Steps
  <2>3. frame' = [frame EXCEPT ![t] = g]  BY <1>6 DEF LoadLast
  <2>4. Onward(f.call) \in {"answer", "adjust"}  BY DEF Onward
  <2> HIDE DEF missed
  <2>5. /\ g.pc \in {"answer", "adjust", "load"} /\ g.now = f.now /\ g.zone = f.zone
        /\ g.left = Steps(missed)
        /\ g.pc = "adjust" => missed = 0
    BY <1>0, <2>4 DEF Frame
  <2> HIDE DEF g
  <2>6. Current(g)  BY <2>1, <2>2, <2>5 DEF Current
  <2>. QED  BY <1>1, <2>3, <2>5, <2>6, TableStill
<1>7. CASE LoadBias(t)
  <2> DEFINE g == [f EXCEPT !.pc = "decay", !.reg = bias[f.zone]]
  <2>1. f.pc = "load" /\ f.now = epoch
        /\ (f.zone \notin overslept => f.left = missing[f.zone])
    BY <1>0, <1>7 DEF LoadBias, At, Current
  <2>2. g.pc = "decay" /\ g.zone = f.zone /\ g.reg = bias[f.zone] /\ g.left = f.left
        /\ g.now = f.now
    BY <1>0 DEF Frame
  <2>3. frame' = [frame EXCEPT ![t] = g]  BY <1>7 DEF LoadBias
  <2> HIDE DEF g
  <2>4. Current(g)  BY <1>3, <2>1, <2>2 DEF Current
  <2>. QED  BY <1>1, <2>2, <2>3, <2>4, TableStill
<1>8. CASE DecayOnce(t)
  <2> DEFINE g == [f EXCEPT !.reg = Decayed(f.reg), !.left = f.left - 1]
  <2>1. /\ f.pc = "decay" /\ f.left \in Nat \ {0} /\ f.now = epoch
        /\ (f.zone \notin overslept => Reaches(f.reg, f.left, eager[f.zone]))
    BY <1>0, <1>8 DEF DecayOnce, At, Current
  <2>2. f.zone \notin overslept => Reaches(Decayed(f.reg), f.left - 1, eager[f.zone])
    BY <1>0, <2>1, ReachesNearer
  <2>3. g.pc = "decay" /\ g.zone = f.zone /\ g.reg = Decayed(f.reg) /\ g.left = f.left - 1
        /\ g.now = f.now
    BY <1>0, <2>1 DEF Frame
  <2>4. frame' = [frame EXCEPT ![t] = g]  BY <1>8 DEF DecayOnce
  <2> HIDE DEF g
  <2>5. Current(g)  BY <2>1, <2>2, <2>3 DEF Current
  <2>. QED  BY <1>1, <2>3, <2>4, <2>5, TableStill
<1>9. CASE Adjust(t)
  <2> DEFINE g == [f EXCEPT !.pc = "write", !.reg = Clamped(Feedback(f.call, bias[f.zone]))]
  <2>1. f.pc = "adjust" /\ (f.zone \notin overslept => missing[f.zone] = 0)
    BY <1>0, <1>9 DEF Adjust, At, Current
  <2>2. g.pc = "write" /\ g.zone = f.zone /\ g.call = f.call
        /\ g.reg = Clamped(Feedback(f.call, bias[f.zone]))
    BY <1>0 DEF Frame
  <2>3. frame' = [frame EXCEPT ![t] = g]  BY <1>9 DEF Adjust
  <2> HIDE DEF g
  <2>4. Current(g)  BY <2>1, <2>2 DEF Current
  <2>. QED  BY <1>1, <2>2, <2>3, <2>4, TableStill
<1>. QED  BY <1>5, <1>6, <1>7, <1>8, <1>9

\* The catch-up stores the bias, then the epoch.
LEMMA LazyCatchesUp ==
  ASSUME ~Overlap, TypeOK, LazyInv, NEW t \in Threads, StoreBias(t) \/ Stamp(t)
  PROVE  LazyInv'
<1> DEFINE f == frame[t]
<1>0. f \in Frame /\ f.zone \in Zones /\ Current(f) /\ f.reg \in Int
  BY FrameType DEF LazyInv
<1>1. ~At(t, "idle")  BY DEF StoreBias, Stamp, At
<1>2. /\ \A u \in Threads \ {t} : frame[u].pc = "idle"
      /\ \A z \in Zones : Stamping(z) <=> f.pc = "stamp" /\ f.zone = z
  BY <1>1, OnlyOne
<1>3. \A z \in Zones : LagsIf(z, Stamping(z))  BY DEF LazyInv
<1>4. CASE StoreBias(t)
  <2>1. /\ f.pc = "decay" /\ f.left = 0 /\ bias' = [bias EXCEPT ![f.zone] = f.reg]
        /\ UNCHANGED << last_decay, epoch, eager, missing, overslept >>
        /\ Goto(t, "stamp") /\ "stamp" \in Labels
    BY <1>4 DEF StoreBias, At, history, lazy, Labels
  <2>2. PICK g \in Frame : /\ frame' = [frame EXCEPT ![t] = g]
                           /\ g.pc = "stamp" /\ g.zone = f.zone /\ g.now = f.now
    BY <2>1, GoneTo
  <2>3. f.now = epoch /\ (f.zone \notin overslept => eager[f.zone] = f.reg)
    BY <1>0, <2>1, ReachesNow DEF Current
  <2>4. Current(g)'  BY <2>1, <2>2, <2>3 DEF Current
  <2>5. ASSUME NEW z \in Zones  PROVE LagsIf(z, g.pc = "stamp" /\ g.zone = z)'
    <3>1. ~Stamping(z) /\ LagsIf(z, Stamping(z))  BY <1>2, <1>3, <2>1
    <3>2. CASE z = f.zone
      <4>1. bias'[z] = f.reg  BY <2>1, <3>2 DEF TypeOK
      <4>. QED  BY <2>1, <2>2, <2>3, <3>1, <3>2, <4>1 DEF LagsIf
    <3>3. CASE z # f.zone
      <4>1. bias'[z] = bias[z]  BY <2>1, <3>3 DEF TypeOK
      <4>. QED  BY <2>1, <2>2, <3>1, <3>3, <4>1 DEF LagsIf
    <3>. QED  BY <3>2, <3>3
  <2>. QED  BY <1>2, <2>2, <2>4, <2>5, OneMoves
<1>5. CASE Stamp(t)
  <2>1. /\ f.pc = "stamp" /\ last_decay' = [last_decay EXCEPT ![f.zone] = f.now]
        /\ missing' = [missing EXCEPT ![f.zone] = Steps(Missed(epoch, f.now))]
        /\ UNCHANGED << bias, epoch, eager, overslept >>
        /\ Goto(t, Onward(f.call))
    BY <1>5 DEF Stamp, At
  <2>2. Onward(f.call) \in {"answer", "adjust"} /\ Onward(f.call) \in Labels
    BY DEF Onward, Labels
  <2>3. PICK g \in Frame : /\ frame' = [frame EXCEPT ![t] = g]
                           /\ g.pc \in {"answer", "adjust"} /\ g.zone = f.zone
    BY <2>1, <2>2, GoneTo
  <2>4. f.now = epoch /\ epoch \in Epochs  BY <1>0, <2>1 DEF Current, TypeOK
  <2>5. Missed(epoch, epoch) = 0 /\ Steps(0) = 0  BY <2>4, MissedNone
  <2>6. missing'[f.zone] = 0 /\ last_decay'[f.zone] = epoch
    BY <1>0, <2>1, <2>4, <2>5 DEF TypeOK
  <2>7. Current(g)'  BY <2>3, <2>6 DEF Current
  <2>8. ASSUME NEW z \in Zones  PROVE LagsIf(z, g.pc = "stamp" /\ g.zone = z)'
    <3>1. CASE z = f.zone
      <4>1. Stamping(z) /\ LagsIf(z, Stamping(z))  BY <1>2, <1>3, <2>1, <3>1
      <4>2. z \notin overslept => bias[z] = eager[z]  BY <4>1 DEF LagsIf
      <4>3. z \notin overslept => Reaches(bias[z], 0, eager[z])
        BY <4>2, ZoneType, ReachesNow
      <4>. QED  BY <2>1, <2>3, <2>5, <2>6, <3>1, <4>3, Assumptions DEF LagsIf
    <3>2. CASE z # f.zone
      <4>1. ~Stamping(z) /\ LagsIf(z, Stamping(z))  BY <1>2, <1>3, <3>2
      <4>2. missing'[z] = missing[z] /\ last_decay'[z] = last_decay[z]
        BY <2>1, <3>2 DEF TypeOK
      <4>. QED  BY <2>1, <2>3, <4>1, <4>2 DEF LagsIf
    <3>. QED  BY <3>1, <3>2
  <2>. QED  BY <1>2, <2>3, <2>7, <2>8, OneMoves
<1>. QED  BY <1>4, <1>5

\* The update is made to both, and an epoch ends for both.
LEMMA LazyUpdates ==
  ASSUME ~Overlap, TypeOK, LazyInv, NEW t \in Threads, Write(t) \/ Count(t)
  PROVE  LazyInv'
<1> DEFINE f == frame[t]
<1>0. f \in Frame /\ f.zone \in Zones /\ Current(f)
  BY FrameType DEF LazyInv
<1>1. ~At(t, "idle") /\ f.pc # "stamp"  BY DEF Write, Count, At
<1>2. /\ \A u \in Threads \ {t} : frame[u].pc = "idle"
      /\ \A z \in Zones : ~Stamping(z)
  BY <1>1, OnlyOne
<1>3. \A z \in Zones : LagsIf(z, FALSE)
  BY <1>2 DEF LazyInv, LagsIf
<1>4. CASE Write(t)
  <2> DEFINE e == Clamped(Feedback(f.call, eager[f.zone]))
  <2>1. /\ f.pc = "write" /\ bias' = [bias EXCEPT ![f.zone] = f.reg]
        /\ eager' = [eager EXCEPT ![f.zone] = e]
        /\ UNCHANGED << last_decay, epoch, missing, overslept >>
        /\ Goto(t, "count") /\ "count" \in Labels
    BY <1>4 DEF Write, At, Labels
  <2>2. PICK g \in Frame : frame' = [frame EXCEPT ![t] = g] /\ g.pc = "count"
    BY <2>1, GoneTo
  <2>3. Current(g)'  BY <2>2 DEF Current
  <2>4. ASSUME NEW z \in Zones  PROVE LagsIf(z, FALSE)'
    <3>1. LagsIf(z, FALSE)  BY <1>3
    <3>2. CASE z = f.zone
      <4>1. bias'[z] = f.reg /\ eager'[z] = e  BY <2>1, <3>2 DEF TypeOK
      <4>2. z \notin overslept => missing[z] = 0 /\ f.reg = Clamped(Feedback(f.call, bias[z]))
        BY <1>0, <2>1, <3>2 DEF Current
      <4>3. z \notin overslept => bias[z] = eager[z]
        <5>1. bias[z] \in Int  BY ZoneType
        <5>. QED  BY <3>1, <4>2, <5>1, ReachesNow DEF LagsIf
      <4>4. z \notin overslept => f.reg = e  BY <3>2, <4>2, <4>3
      <4>5. f.reg \in Int  BY FrameType
      <4>6. z \notin overslept => Reaches(f.reg, 0, e)  BY <4>4, <4>5, ReachesNow
      <4> HIDE DEF e
      <4>. QED  BY <2>1, <3>1, <4>1, <4>2, <4>6 DEF LagsIf
    <3>3. CASE z # f.zone
      <4>1. bias'[z] = bias[z] /\ eager'[z] = eager[z]  BY <2>1, <3>3 DEF TypeOK
      <4>. QED  BY <2>1, <3>1, <4>1 DEF LagsIf
    <3>. QED  BY <3>2, <3>3
  <2>5. \A z \in Zones : LagsIf(z, g.pc = "stamp" /\ g.zone = z)'
    BY <2>2, <2>4 DEF LagsIf
  <2>. QED  BY <1>2, <2>2, <2>3, <2>5, OneMoves
<1>5. CASE Count(t)
  <2>1. PICK g \in Frame : frame' = [frame EXCEPT ![t] = g] /\ g.pc \in {"idle", "scatter"}
    <3>1. CASE f.call = "REWARD"
      BY <1>5, <3>1, IdleFrame DEF Count
    <3>2. CASE f.call # "REWARD"
      <4>1. Goto(t, "scatter") /\ "scatter" \in Labels  BY <1>5, <3>2 DEF Count, Labels
      <4>. QED  BY <4>1, GoneTo
    <3>. QED  BY <3>1, <3>2
  <2>2. Current(g)'  BY <2>1 DEF Current
  <2>3. UNCHANGED << bias, last_decay >>  BY <1>5 DEF Count
  <2>4. ASSUME NEW z \in Zones  PROVE LagsIf(z, FALSE)'
    <3>1. LagsIf(z, FALSE)  BY <1>3
    <3>2. CASE UNCHANGED << epoch, lazy >>
      BY <2>3, <3>1, <3>2 DEF LagsIf, lazy
    <3>3. CASE epoch' = (epoch + 1) % EpochMod /\ EpochOver
      <4>1. /\ bias[z] \in Int /\ eager[z] \in Int /\ missing[z] \in Nat
            /\ last_decay[z] \in Epochs /\ epoch \in Epochs
        BY ZoneType
      <4>2. z \notin overslept' => z \notin overslept /\ missing[z] < DecayCap
        BY <3>3, <4>1, Assumptions DEF EpochOver
      <4>3. z \notin overslept' => missing'[z] = missing[z] + 1 /\ eager'[z] = Decayed(eager[z])
        BY <3>3, <4>1, <4>2, Assumptions DEF EpochOver
      <4>4. z \notin overslept' => /\ missing[z] = Missed(epoch, last_decay[z])
                                   /\ Reaches(bias[z], missing[z], eager[z])
        BY <3>1, <4>2 DEF LagsIf
      <4>5. z \notin overslept' => Missed(epoch', last_decay[z]) = missing[z] + 1
        BY <3>3, <4>1, <4>2, <4>4, MissedOneMore
      <4>6. z \notin overslept' => Reaches(bias[z], missing[z] + 1, Decayed(eager[z]))
        BY <4>1, <4>4, ReachesFurther
      <4>7. z \notin overslept' => missing[z] + 1 <= DecayCap
        BY <4>1, <4>2, Assumptions
      <4>. QED  BY <2>3, <4>3, <4>5, <4>6, <4>7 DEF LagsIf
    <3>. QED  BY <1>5, <3>2, <3>3 DEF Count
  <2>5. \A z \in Zones : LagsIf(z, g.pc = "stamp" /\ g.zone = z)'
    BY <2>1, <2>4 DEF LagsIf
  <2>. QED  BY <1>2, <2>1, <2>2, <2>5, OneMoves
<1>. QED  BY <1>4, <1>5

\* Calls begin and end with the table as it is.
LEMMA LazyCalls ==
  ASSUME ~Overlap, TypeOK, LazyInv, NEW t \in Threads, ~At(t, "idle") \/ Free(t),
         frame[t].pc # "stamp",
         UNCHANGED << bias, last_decay, epoch, lazy >>,
         \/ frame' = [frame EXCEPT ![t] = Idle]
         \/ \E label \in {"ingest"} : Goto(t, label)
         \/ \E call \in Calls, zone \in Zones : Begin(t, call, zone)
  PROVE  LazyInv'
<1>1. PICK g \in Frame : frame' = [frame EXCEPT ![t] = g] /\ g.pc \in {"idle", "ingest", "epoch"}
  <2>1. CASE frame' = [frame EXCEPT ![t] = Idle]
    BY <2>1, IdleFrame
  <2>2. CASE Goto(t, "ingest")
    <3>1. "ingest" \in Labels  BY DEF Labels
    <3>. QED  BY <2>2, <3>1, GoneTo
  <2>3. ASSUME NEW call \in Calls, NEW zone \in Zones, Begin(t, call, zone)
        PROVE  \E g \in Frame : frame' = [frame EXCEPT ![t] = g]
                                /\ g.pc \in {"idle", "ingest", "epoch"}
    <3> DEFINE g == [Idle EXCEPT !.pc = "epoch", !.call = call, !.zone = zone]
    <3>1. g \in Frame /\ g.pc = "epoch"  BY IdleFrame DEF Frame, Labels
    <3>2. frame' = [frame EXCEPT ![t] = g]  BY <2>3 DEF Begin
    <3> HIDE DEF g
    <3>. QED  BY <3>1, <3>2
  <2>. QED  BY <2>1, <2>2, <2>3
<1>2. Current(g)  BY <1>1 DEF Current
<1>. QED  BY <1>1, <1>2, TableStill

LEMMA LazyStep == ~Overlap /\ TypeOK /\ LazyInv /\ [Next]_vars => LazyInv'
<1> SUFFICES ASSUME ~Overlap, TypeOK, LazyInv, [Next]_vars  PROVE LazyInv'
  OBVIOUS
<1>0. "flush" \in Threads /\ "hot" \in Threads  BY DEF Threads
<1>1. CASE UNCHANGED << bias, last_decay, epoch, lazy, frame >>
  BY <1>1 DEF LazyInv, Alone, LagsIf, Stamping, Current, lazy
<1>2. ASSUME NEW e \in Entries, Fire(e)  PROVE LazyInv'
  <2>1. UNCHANGED << bias, last_decay, epoch, lazy >> /\ Free("flush")
        /\ frame["flush"].pc # "stamp"
    BY <1>2 DEF Fire, reflex, history, Free, At
  <2>2. Goto("flush", "ingest") \/ \E call \in Calls, zone \in Zones : Begin("flush", call, zone)
    <3>1. ClassifiedType(e) \in Calls /\ e.zone \in Zones  BY EntryTypes DEF Calls
    <3>. QED  BY <1>2, <3>1 DEF Fire
  <2>. QED  BY <1>0, <2>1, <2>2, LazyCalls
<1>3. ASSUME NEW z \in Zones, Reward(z) \/ ShouldDemote(z)  PROVE LazyInv'
  <2>1. UNCHANGED << bias, last_decay, epoch, lazy >>
    BY <1>3 DEF Reward, ShouldDemote, reflex, history
  <2>2. "REWARD" \in Calls /\ "LOOKUP" \in Calls  BY DEF Calls
  <2>3. CASE Reward(z)
    <3>1. Free("flush") /\ frame["flush"].pc # "stamp" /\ Begin("flush", "REWARD", z)
      BY <2>3 DEF Reward, Free, At
    <3>. QED  BY <1>0, <2>1, <2>2, <3>1, LazyCalls
  <2>4. CASE ShouldDemote(z)
    <3>1. Free("hot") /\ frame["hot"].pc # "stamp" /\ Begin("hot", "LOOKUP", z)
      BY <2>4 DEF ShouldDemote, Free, At
    <3>. QED  BY <1>0, <2>1, <2>2, <3>1, LazyCalls
  <2>. QED  BY <1>3, <2>3, <2>4
<1>4. CASE Scatter
  <2>1. UNCHANGED << bias, last_decay, epoch, lazy >> /\ Goto("flush", "ingest")
        /\ ~At("flush", "idle") /\ frame["flush"].pc # "stamp"
    BY <1>4 DEF Scatter, reflex, At
  <2>. QED  BY <1>0, <2>1, LazyCalls
<1>5. CASE Ingest
  <2>1. UNCHANGED << bias, last_decay, epoch, lazy >> /\ frame' = [frame EXCEPT !["flush"] = Idle]
        /\ ~At("flush", "idle") /\ frame["flush"].pc # "stamp"
    BY <1>5 DEF Ingest, reflex, At
  <2>. QED  BY <1>0, <2>1, LazyCalls
<1>6. CASE Tick
  <2>1. UNCHANGED << bias, last_decay, epoch, lazy, frame >>  BY <1>6 DEF Tick, reflex
  <2>. QED  BY <1>1, <2>1
<1>7. ASSUME NEW t \in Threads, Answer(t)  PROVE LazyInv'
  <2>1. UNCHANGED << bias, last_decay, epoch, lazy >> /\ frame' = [frame EXCEPT ![t] = Idle]
        /\ ~At(t, "idle") /\ frame[t].pc # "stamp"
    BY <1>7 DEF Answer, reflex, At
  <2>. QED  BY <2>1, LazyCalls
<1>8. CASE UNCHANGED vars
  BY <1>1, <1>8 DEF vars, reflex, history
<1>. QED
  BY <1>2, <1>3, <1>4, <1>5, <1>6, <1>7, <1>8, LazyReads, LazyCatchesUp, LazyUpdates,
     ObserversAssumption DEF Next

LEMMA LazyInitially == Init => LazyInv
<1> SUFFICES ASSUME Init  PROVE LazyInv
  OBVIOUS
<1>1. \A t \in Threads : frame[t].pc = "idle"  BY IdleFrame DEF Init
<1>2. Alone /\ \A t \in Threads : Current(frame[t])  BY <1>1 DEF Alone, Current
<1>3. 0 \in Epochs  BY Assumptions DEF Epochs
<1>4. ASSUME NEW z \in Zones  PROVE LagsIf(z, Stamping(z))
  <2>1. ~Stamping(z)  BY <1>1 DEF Stamping
  <2>2. bias[z] = 0 /\ eager[z] = 0 /\ missing[z] = 0 /\ last_decay[z] = 0 /\ epoch = 0
    BY DEF Init
  <2>3. Missed(0, 0) = 0  BY <1>3, MissedNone
  <2>4. Reaches(0, 0, 0)  BY ReachesNow
  <2>. QED  BY <2>1, <2>2, <2>3, <2>4, Assumptions DEF LagsIf
<1>. QED  BY <1>2, <1>4 DEF LazyInv

LEMMA LazyMeans == TypeOK /\ LazyInv => LazyIsEager
<1> SUFFICES ASSUME TypeOK, LazyInv, Quiet, NEW z \in Zones,
                    last_decay[z] = epoch, z \notin overslept
             PROVE  bias[z] = eager[z]
  BY DEF LazyIsEager
<1>1. ~Stamping(z)  BY DEF Quiet, At, Stamping
<1>2. missing[z] = Missed(epoch, epoch) /\ Reaches(bias[z], missing[z], eager[z])
  BY <1>1 DEF LazyInv, LagsIf
<1>3. epoch \in Epochs /\ bias[z] \in Int  BY ZoneType
<1>4. missing[z] = 0  BY <1>2, <1>3, MissedNone
<1>. QED  BY <1>2, <1>3, <1>4, ReachesNow

\* Where the calls of the two threads follow one another, _reflex_lazy_decay leaves a
\* zone with the bias it would have had if it had been decayed at every epoch, for any
\* shift, cap, interval and width of the epoch.  (With calls that overlap a lookup can
\* undo an update.)
THEOREM LazyDecayIsEager ==
  ASSUME ~Overlap
  PROVE  Spec => []LazyIsEager
<1>1. Inv => TypeOK  BY DEF Inv
<1>2. Inv /\ LazyInv /\ [Next]_vars => LazyInv'  BY <1>1, LazyStep
<1>3. Inv /\ LazyInv => LazyIsEager  BY <1>1, LazyMeans
<1>. QED  BY InitInv, StepInv, LazyInitially, <1>2, <1>3, PTL DEF Spec

-----------------------------------------------------------------------------
(* DetachLane: indices.                                                    *)

\* The index and the slot of the (k+1)-th entry pushed.
Pos(k)   == (First + k) % Wrap
Place(k) == (First + k) % Size

\* What holds whatever overflows.
LaneShape ==
  /\ LaneTypeOK
  /\ head = Pos(accepted)
  /\ main = "filled" => slots[Place(accepted)] = accepted + 1
  /\ cons \in {"rest", "head"} => Len(batch) = 0
  /\ cons = "deliver" => Len(batch) = avail

\* Entries taken out of the ring, when nobody but the pass moves tail.
Taken == Len(out) + (IF cons = "deliver" THEN Len(batch) ELSE 0)

\* How many entries had been pushed when an index that has since been left behind
\* was head.
Reached(x) == accepted - Ahead(head, x)

Delivered(n) == \E i \in DOMAIN out : out[i] = n
Carried(n)   == cons = "deliver" /\ \E i \in DOMAIN batch : batch[i] = n

NewestInv ==
  /\ LaneShape
  /\ accepted <= MaxPush
  /\ main \in {"full", "write", "torn", "filled"} => accepted < MaxPush
  /\ Reached(tail) >= 0
  /\ main = "full" => Reached(loaded) >= 0 /\ Ahead(head, loaded) >= Size
  /\ cons \in {"head", "copy", "deliver"} => Reached(ctail) >= 0
  /\ cons = "copy" => avail <= Ahead(head, ctail)
  /\ \A n \in Newest : slots[Place(n - 1)] = n
  /\ \A n \in Newest : n <= Reached(tail) => Delivered(n) \/ Carried(n)
  /\ cons \in {"head", "copy"} => \A n \in Newest : n <= Reached(ctail) => Delivered(n)
  /\ cons = "copy" => \A i \in 1 .. Len(batch) :
                        Reached(ctail) + i \in Newest => batch[i] = Reached(ctail) + i

LEMMA LaneConstants ==
  /\ Size \in Nat \ {0} /\ Laps \in Nat \ {0} /\ Wrap \in Nat \ {0} /\ Size < Wrap
  /\ Batch \in Nat \ {0} /\ First \in Nat /\ MaxPush \in Nat
<1>1. Size \in Nat \ {0} /\ Laps \in Nat /\ Laps >= 2 /\ Batch \in 1 .. Size
  BY LaneAssumption
<1>2. Laps * Size \in Nat /\ Laps * Size >= 2 * Size
  BY <1>1, SMT
<1>. QED  BY <1>1, <1>2, LaneAssumption DEF Wrap

LEMMA PosType ==
  ASSUME NEW k \in Int
  PROVE  Pos(k) \in 0 .. (Wrap - 1) /\ Place(k) \in 0 .. (Size - 1)
<1>1. First + k \in Int  BY LaneConstants
<1>. QED  BY <1>1, LaneConstants, Division DEF Pos, Place

LEMMA PosAdvance ==
  ASSUME NEW k \in Int, NEW n \in Int
  PROVE  Advance(Pos(k), n) = Pos(k + n)
<1> DEFINE x == First + k
<1>1. x \in Int /\ x + n = First + (k + n)  BY LaneConstants
<1>2. Advance(Pos(k), n) = ((x % Wrap) + n) % Wrap  BY DEF Advance, Pos
<1> HIDE DEF x
<1>3. ((x % Wrap) + n) % Wrap = (x + n) % Wrap
  BY <1>1, LaneConstants, RemainderAdd
<1>. QED  BY <1>1, <1>2, <1>3 DEF Pos

LEMMA PosAhead ==
  ASSUME NEW a \in Int, NEW c \in Int, a - c \in 0 .. (Wrap - 1)
  PROVE  Ahead(Pos(a), Pos(c)) = a - c
<1>1. /\ First + a \in Int /\ First + c \in Int
      /\ (First + a) - (First + c) = a - c
  BY LaneConstants
<1>. QED  BY <1>1, LaneConstants, RemainderDistance DEF Ahead, Pos

LEMMA PosSlot ==
  ASSUME NEW c \in Int, NEW k \in Int
  PROVE  Slot(Pos(c) + k) = Place(c + k)
<1> DEFINE x == First + c
           p == x % Wrap
<1>1. x \in Int /\ x + k = First + (c + k)  BY LaneConstants
<1>2. p \in Int  BY <1>1, LaneConstants, Division
<1> HIDE DEF x
<1>3. p % Size = x % Size
  BY <1>1, LaneConstants, RemainderOfRemainder DEF Wrap
<1>4. (p + k) % Size = ((p % Size) + k) % Size
  <2> HIDE DEF p
  <2>. QED  BY <1>2, LaneConstants, RemainderAdd
<1>5. ((x % Size) + k) % Size = (x + k) % Size
  BY <1>1, LaneConstants, RemainderAdd
<1>6. Slot(Pos(c) + k) = (p + k) % Size  BY DEF Slot, Pos, x
<1>. QED  BY <1>1, <1>3, <1>4, <1>5, <1>6 DEF Place

\* Slot of the head, to be written next.
LEMMA HeadSlot ==
  ASSUME NEW c \in Int
  PROVE  Slot(Pos(c)) = Place(c)
<1>1. Pos(c) + 0 = Pos(c) /\ c + 0 = c  BY PosType
<1>2. Slot(Pos(c) + 0) = Place(c + 0)  BY PosSlot
<1>. QED  BY <1>1, <1>2

LEMMA PlaceDistinct ==
  ASSUME NEW a \in Int, NEW b \in Int, a # b, a - b < Size, b - a < Size
  PROVE  Place(a) # Place(b)
<1>1. /\ First + a \in Int /\ First + b \in Int /\ First + a # First + b
      /\ (First + a) - (First + b) < Size /\ (First + b) - (First + a) < Size
  BY LaneConstants
<1>. QED  BY <1>1, LaneConstants, RemainderDistinct DEF Place

\* Any index is where head was so many entries ago.
LEMMA PosOf ==
  ASSUME NEW x \in 0 .. (Wrap - 1), NEW a \in Int
  PROVE  /\ Ahead(Pos(a), x) \in 0 .. (Wrap - 1)
         /\ x = Pos(a - Ahead(Pos(a), x))
<1> DEFINE h == Pos(a)
           d == Ahead(h, x)
           q == (h - x) \div Wrap
           p == (First + a) \div Wrap
<1>1. h \in Int /\ h - x \in Int /\ First + a \in Int /\ Wrap \in Nat \ {0}
  BY PosType, LaneConstants
<1>2. q \in Int /\ d \in 0 .. (Wrap - 1) /\ h - x = Wrap * q + d
  BY <1>1, Division DEF Ahead
<1>3. p \in Int /\ First + a = Wrap * p + h
  BY <1>1, Division DEF Pos
<1> HIDE DEF h, d, q, p
<1>4. Wrap * (p + q) = Wrap * p + Wrap * q  BY <1>1, <1>2, <1>3, Distribute
<1>5. First + (a - d) = Wrap * (p + q) + x
  <2> DEFINE wp == Wrap * p
             wq == Wrap * q
             ws == Wrap * (p + q)
  <2>1. /\ wp \in Int /\ wq \in Int /\ ws = wp + wq
        /\ h - x = wq + d /\ First + a = wp + h
    BY <1>1, <1>2, <1>3, <1>4
  <2>2. First \in Int /\ d \in Int  BY <1>2, LaneConstants
  <2> HIDE DEF wp, wq, ws
  <2>3. First + (a - d) = ws + x  BY <1>1, <2>1, <2>2
  <2>. QED  BY <2>3 DEF ws
<1>6. First + (a - d) \in Int /\ p + q \in Int  BY <1>2, <1>3, LaneConstants
<1>7. (First + (a - d)) % Wrap = x  BY <1>1, <1>5, <1>6, RemainderUnique
<1>. QED  BY <1>2, <1>7 DEF Pos, h, d

-----------------------------------------------------------------------------
(* DetachLane: shape.                                                      *)

LEMMA AheadType ==
  ASSUME NEW x \in Int, NEW y \in Int
  PROVE  Ahead(x, y) \in 0 .. (Wrap - 1)
<1>1. x - y \in Int  OBVIOUS
<1>. QED  BY <1>1, LaneConstants, Division DEF Ahead

LEMMA AdvanceType ==
  ASSUME NEW x \in Int, NEW n \in Int
  PROVE  Advance(x, n) \in 0 .. (Wrap - 1)
<1>1. x + n \in Int  OBVIOUS
<1>. QED  BY <1>1, LaneConstants, Division DEF Advance

LEMMA LaneInitShape == LaneInit => LaneShape
<1> SUFFICES ASSUME LaneInit  PROVE LaneShape
  OBVIOUS
<1>1. << >> \in Seq(Nat) /\ Len(<< >>) = 0  BY EmptySeq
<1>2. First \in 0 .. (Wrap - 1) /\ 0 \in 0 .. (Wrap - 1) /\ 0 \in 0 .. Batch
  BY LaneConstants, LaneAssumption DEF Wrap
<1>3. LaneTypeOK
  <2>1. slots \in [0 .. (Size - 1) -> Nat]  BY DEF LaneInit, Torn
  <2>2. batch \in Seq(Nat) /\ out \in Seq(Nat) /\ Len(batch) <= avail
    BY <1>1 DEF LaneInit
  <2>. QED  BY <1>2, <2>1, <2>2 DEF LaneInit, LaneTypeOK
<1>4. Pos(0) = First
  <2>1. First + 0 = First  BY LaneConstants
  <2>. QED  BY <1>2, <2>1, LaneConstants, RemainderSmall DEF Pos
<1>. QED  BY <1>1, <1>3, <1>4 DEF LaneInit, LaneShape

LEMMA ShapeStep == LaneShape /\ [LaneNext]_lanevars => LaneShape'
<1> SUFFICES ASSUME LaneShape, [LaneNext]_lanevars  PROVE LaneShape'
  OBVIOUS
<1> USE DEF pushvars, control, passvars, lane_history
<1>1. /\ LaneTypeOK /\ head = Pos(accepted) /\ Slot(head) = Place(accepted)
      /\ accepted \in Nat /\ head \in Int /\ tail \in Int /\ loaded \in Int /\ ctail \in Int
      /\ Len(batch) \in Nat /\ Place(accepted) \in 0 .. (Size - 1)
  <2>1. LaneTypeOK /\ head = Pos(accepted) /\ accepted \in Nat
    BY DEF LaneShape, LaneTypeOK
  <2>2. batch \in Seq(Nat) /\ head \in Int /\ tail \in Int /\ loaded \in Int /\ ctail \in Int
    BY <2>1, LaneConstants DEF LaneTypeOK
  <2>. QED  BY <2>1, <2>2, HeadSlot, PosType, LenProperties
<1>2. CASE BeginPush
  BY <1>1, <1>2 DEF BeginPush, LaneShape, LaneTypeOK
<1>3. CASE DropOldest
  BY <1>1, <1>3, AdvanceType DEF DropOldest, LaneShape, LaneTypeOK
<1>4. CASE TearSlot
  BY <1>1, <1>4 DEF TearSlot, LaneShape, LaneTypeOK, Torn
<1>5. CASE FillSlot
  BY <1>1, <1>5 DEF FillSlot, LaneShape, LaneTypeOK
<1>6. CASE PublishHead
  <2>1. head' = Pos(accepted') /\ head' \in 0 .. (Wrap - 1)
    BY <1>1, <1>6, PosAdvance, AdvanceType DEF PublishHead
  <2>. QED  BY <1>1, <1>6, <2>1 DEF PublishHead, LaneShape, LaneTypeOK
<1>7. CASE ReadTail
  BY <1>1, <1>7 DEF ReadTail, LaneShape, LaneTypeOK
<1>8. CASE EmptyPass
  BY <1>1, <1>8 DEF EmptyPass, AfterPass, LaneShape, LaneTypeOK
<1>9. CASE BeginPass
  <2>1. Ahead(head, ctail) \in 0 .. (Wrap - 1)  BY <1>1, AheadType
  <2>2. avail' \in 0 .. Batch
    BY <1>9, <2>1, LaneConstants DEF BeginPass, Lesser
  <2>3. Len(batch) = 0  BY <1>9 DEF BeginPass, LaneShape
  <2>. QED  BY <1>1, <1>9, <2>2, <2>3 DEF BeginPass, LaneShape, LaneTypeOK
<1>10. CASE CopySlot
  <2> DEFINE x == slots[Slot(ctail + Len(batch))]
  <2>1. x \in Nat
    <3>1. Slot(ctail + Len(batch)) \in 0 .. (Size - 1)
      <4>1. ctail + Len(batch) \in Int  BY <1>1
      <4>. QED  BY <4>1, LaneConstants, Division DEF Slot
    <3>. QED  BY <1>1, <3>1 DEF LaneTypeOK
  <2>2. batch \in Seq(Nat) /\ Len(batch) < avail /\ avail \in Nat /\ batch' = Append(batch, x)
    BY <1>1, <1>10, LaneConstants DEF CopySlot, LaneTypeOK
  <2> HIDE DEF x
  <2>3. batch' \in Seq(Nat) /\ Len(batch') = Len(batch) + 1
    BY <2>1, <2>2, AppendProperties
  <2>4. Len(batch') <= avail  BY <1>1, <2>2, <2>3
  <2>. QED  BY <1>1, <1>10, <2>3, <2>4 DEF CopySlot, LaneShape, LaneTypeOK
<1>11. CASE StoreTail
  <2>1. avail \in Int  BY <1>1, LaneConstants DEF LaneTypeOK
  <2>2. tail' \in 0 .. (Wrap - 1)
    BY <1>1, <1>11, <2>1, AdvanceType DEF StoreTail
  <2>. QED  BY <1>1, <1>11, <2>2 DEF StoreTail, LaneShape, LaneTypeOK
<1>12. CASE Deliver
  <2>1. out' \in Seq(Nat)
    BY <1>1, <1>12, ConcatProperties DEF Deliver, LaneTypeOK
  <2>2. << >> \in Seq(Nat) /\ Len(<< >>) = 0 /\ 0 \in 0 .. Batch
    BY EmptySeq, LaneConstants
  <2>. QED  BY <1>1, <1>12, <2>1, <2>2 DEF Deliver, AfterPass, LaneShape, LaneTypeOK
<1>13. CASE TestRunning \/ Start \/ Stop \/ Join \/ Drain
  <2>1. CASE TestRunning
    BY <1>1, <2>1 DEF TestRunning, LaneShape, LaneTypeOK
  <2>2. CASE Start
    <3>1. /\ running' \in BOOLEAN /\ started' \in BOOLEAN /\ starts' \in Nat
          /\ thread' \in {"none", "test", "pass", "final", "done"}
      <4>1. /\ started \in BOOLEAN /\ starts \in Nat
            /\ thread \in {"none", "test", "pass", "final", "done"}
        BY <1>1 DEF LaneTypeOK
      <4>2. /\ running' = TRUE /\ starts' = starts + 1
            /\ \/ started' = TRUE /\ thread' = "test"
               \/ started' = started /\ thread' = thread
        BY <2>2 DEF Start
      <4>3. running' \in BOOLEAN /\ starts' \in Nat  BY <4>1, <4>2
      <4>4. CASE started' = TRUE /\ thread' = "test"
        BY <4>3, <4>4
      <4>5. CASE started' = started /\ thread' = thread
        BY <4>1, <4>3, <4>5
      <4>. QED  BY <4>2, <4>4, <4>5
    <3>2. UNCHANGED << head, tail, slots, overflows, pushvars, passvars, accepted, out >>
      BY <2>2 DEF Start
    <3>. QED  BY <1>1, <3>1, <3>2 DEF LaneShape, LaneTypeOK
  <2>3. CASE Stop
    BY <1>1, <2>3 DEF Stop, LaneShape, LaneTypeOK
  <2>4. CASE Join
    BY <1>1, <2>4 DEF Join, LaneShape, LaneTypeOK
  <2>5. CASE Drain
    BY <1>1, <2>5 DEF Drain, LaneShape, LaneTypeOK
  <2>. QED  BY <1>13, <2>1, <2>2, <2>3, <2>4, <2>5
<1>14. CASE UNCHANGED lanevars
  BY <1>14 DEF lanevars, LaneShape, LaneTypeOK
<1>. QED
  BY <1>2, <1>3, <1>4, <1>5, <1>6, <1>7, <1>8, <1>9, <1>10, <1>11, <1>12, <1>13, <1>14
  DEF LaneNext, Push, FlushPass

-----------------------------------------------------------------------------
(* DetachLane: until the first overflow only the flush pass moves tail.    *)

Unspilled ==
  /\ Taken <= accepted /\ accepted - Taken <= Size
  /\ BeingPushed => accepted - Taken < Size
  /\ tail = Pos(Taken)
  /\ cons \in {"head", "copy", "deliver"} => ctail = Pos(Len(out))
  /\ cons = "copy" => Len(out) + avail <= accepted
  /\ \A i \in 1 .. Len(out) : out[i] = i
  /\ \A i \in 1 .. Len(batch) : batch[i] = Len(out) + i
  /\ \A n \in (Taken + 1) .. accepted : slots[Place(n - 1)] = n

\* overflows only counts up.
LEMMA OverflowsGrow ==
  ASSUME LaneTypeOK, [LaneNext]_lanevars, overflows' = 0
  PROVE  overflows = 0
<1>1. overflows \in Nat  BY DEF LaneTypeOK
<1>2. overflows' = overflows \/ overflows' = overflows + 1
  BY DEF LaneNext, Push, FlushPass, BeginPush, DropOldest, TearSlot, FillSlot,
         PublishHead, ReadTail, EmptyPass, BeginPass, CopySlot, StoreTail, Deliver,
         TestRunning, Start, Stop, Join, Drain, lanevars, pushvars, control, passvars,
         lane_history
<1>. QED  BY <1>1, <1>2

LEMMA UnspilledStep ==
  LaneShape /\ Unspilled /\ [LaneNext]_lanevars /\ overflows' = 0 => Unspilled'
<1> SUFFICES ASSUME LaneShape, Unspilled, [LaneNext]_lanevars, overflows' = 0
             PROVE  Unspilled'
  OBVIOUS
<1> USE DEF pushvars, control, passvars, lane_history
<1>1. /\ LaneTypeOK /\ head = Pos(accepted) /\ accepted \in Nat /\ Size \in Nat
      /\ batch \in Seq(Nat) /\ out \in Seq(Nat) /\ Len(batch) \in Nat /\ Len(out) \in Nat
      /\ Taken \in Nat /\ avail \in Nat /\ Len(batch) <= avail
      /\ slots \in [0 .. (Size - 1) -> Nat]
  <2>1. /\ LaneTypeOK /\ head = Pos(accepted) /\ accepted \in Nat
        /\ batch \in Seq(Nat) /\ out \in Seq(Nat) /\ avail \in Nat /\ Len(batch) <= avail
        /\ slots \in [0 .. (Size - 1) -> Nat]
    BY LaneConstants DEF LaneShape, LaneTypeOK
  <2>2. Len(batch) \in Nat /\ Len(out) \in Nat  BY <2>1, LenProperties
  <2>. QED  BY <2>1, <2>2, LaneConstants DEF Taken
<1>2. overflows = 0  BY <1>1, OverflowsGrow
<1>3. Ahead(head, tail) = accepted - Taken
  BY <1>1, PosAhead, LaneConstants DEF Unspilled
\* Actions that touch nothing of this.
<1>4. ASSUME UNCHANGED << tail, slots, batch, accepted, out >>,
             Taken' = Taken, BeingPushed' => BeingPushed,
             cons' \in {"head", "copy", "deliver"} => ctail' = ctail /\ ctail = Pos(Len(out)),
             cons' = "copy" => Len(out) + avail' <= accepted
      PROVE  Unspilled'
  BY <1>4 DEF Unspilled
<1>5. CASE BeginPush
  <2>1. /\ UNCHANGED << tail, slots, batch, accepted, out, cons, ctail, avail >>
        /\ main' = IF Ahead(head, tail) >= Size THEN "full" ELSE "write"
    BY <1>5 DEF BeginPush
  <2>2. Taken' = Taken  BY <2>1 DEF Taken
  <2>3. BeingPushed' => accepted - Taken < Size
    BY <1>1, <1>3, <2>1 DEF BeingPushed
  <2>. QED  BY <2>1, <2>2, <2>3 DEF Unspilled
<1>6. CASE DropOldest
  <2>1. overflows' = 1  BY <1>2, <1>6 DEF DropOldest
  <2>. QED  BY <2>1
<1>7. ASSUME NEW x \in Nat, slots' = [slots EXCEPT ![Slot(head)] = x], BeingPushed,
             UNCHANGED << head, tail, cons, ctail, avail, batch, accepted, out >>
      PROVE  Unspilled'
  <2>1. Taken' = Taken  BY <1>7 DEF Taken
  <2>2. accepted - Taken < Size  BY <1>7 DEF Unspilled
  <2>3. Slot(head) = Place(accepted)  BY <1>1, HeadSlot
  <2>4. ASSUME NEW n \in (Taken + 1) .. accepted
        PROVE  slots'[Place(n - 1)] = n
    <3>1. n - 1 \in Int /\ n - 1 # accepted /\ (n - 1) - accepted < Size /\ accepted - (n - 1) < Size + 1
      BY <1>1, <2>2
    <3>2. accepted - (n - 1) < Size  BY <1>1, <2>2
    <3>3. Place(n - 1) # Place(accepted)  BY <1>1, <3>1, <3>2, PlaceDistinct
    <3>4. Place(n - 1) \in 0 .. (Size - 1)  BY <3>1, PosType
    <3>5. slots[Place(n - 1)] = n  BY DEF Unspilled
    <3>. QED  BY <1>1, <1>7, <2>3, <3>3, <3>4, <3>5
  <2>. QED  BY <1>7, <2>1, <2>2, <2>4 DEF Unspilled
<1>8. CASE TearSlot
  <2>1. BeingPushed  BY <1>8 DEF TearSlot, BeingPushed
  <2>. QED  BY <1>7, <1>8, <2>1 DEF TearSlot, Torn
<1>9. CASE FillSlot
  <2>1. BeingPushed  BY <1>9 DEF FillSlot, BeingPushed
  <2>2. /\ slots' = [slots EXCEPT ![Slot(head)] = accepted + 1]
        /\ UNCHANGED << head, tail, cons, ctail, avail, batch, accepted, out >>
    BY <1>9 DEF FillSlot
  <2>3. accepted + 1 \in Nat  BY <1>1
  <2>. QED  BY <1>7, <2>1, <2>2, <2>3
<1>10. CASE PublishHead
  <2>1. /\ accepted' = accepted + 1 /\ main' = "idle" /\ BeingPushed
        /\ UNCHANGED << tail, slots, cons, ctail, avail, batch, out >>
        /\ slots[Place(accepted)] = accepted + 1
    BY <1>10 DEF PublishHead, BeingPushed, LaneShape
  <2>2. Taken' = Taken  BY <2>1 DEF Taken
  <2>3. Taken <= accepted' /\ accepted' - Taken <= Size
    BY <1>1, <2>1 DEF Unspilled
  <2>4. ASSUME NEW n \in (Taken + 1) .. accepted'
        PROVE  slots'[Place(n - 1)] = n
    <3>1. CASE n = accepted + 1
      <4>1. n - 1 = accepted  BY <1>1, <3>1
      <4>. QED  BY <2>1, <3>1, <4>1
    <3>2. CASE n # accepted + 1
      <4>1. n \in (Taken + 1) .. accepted  BY <1>1, <2>1, <3>2
      <4>. QED  BY <2>1, <4>1 DEF Unspilled
    <3>. QED  BY <3>1, <3>2
  <2>5. ~BeingPushed'  BY <2>1 DEF BeingPushed
  <2>6. cons' = "copy" => Len(out') + avail' <= accepted'
    BY <1>1, <2>1 DEF Unspilled
  <2>. QED  BY <2>1, <2>2, <2>3, <2>4, <2>5, <2>6 DEF Unspilled
<1>11. CASE ReadTail
  <2>1. /\ cons = "rest" /\ cons' = "head" /\ ctail' = tail /\ Taken = Len(out)
        /\ UNCHANGED << tail, slots, batch, accepted, out, main, avail >>
    BY <1>1, <1>11 DEF ReadTail, Taken
  <2>2. Taken' = Taken /\ BeingPushed' = BeingPushed /\ ctail' = Pos(Len(out))
    BY <1>1, <2>1 DEF Taken, BeingPushed, Unspilled
  <2>. QED  BY <2>1, <2>2 DEF Unspilled
<1>12. CASE EmptyPass
  <2>1. /\ cons = "head" /\ cons' = "rest"
        /\ UNCHANGED << tail, slots, batch, accepted, out, ctail, avail >>
        /\ BeingPushed' => BeingPushed
    BY <1>12 DEF EmptyPass, AfterPass, BeingPushed
  <2>2. Taken' = Taken  BY <2>1 DEF Taken
  <2>. QED  BY <1>4, <2>1, <2>2
<1>13. CASE BeginPass
  <2>1. /\ cons = "head" /\ cons' = "copy" /\ avail' = Lesser(Ahead(head, ctail), Batch)
        /\ UNCHANGED << tail, slots, batch, accepted, out, ctail, main >>
        /\ ctail = Pos(Len(out)) /\ Taken = Len(out)
    BY <1>1, <1>13 DEF BeginPass, Taken, Unspilled
  <2>2. Taken' = Taken /\ BeingPushed' = BeingPushed  BY <2>1 DEF Taken, BeingPushed
  <2>3. accepted - Len(out) \in 0 .. (Wrap - 1)
    BY <1>1, <2>1, LaneConstants DEF Unspilled
  <2>4. Ahead(head, ctail) = accepted - Len(out)
    BY <1>1, <2>1, <2>3, PosAhead
  <2>5. Len(out) + avail' <= accepted
    BY <1>1, <2>1, <2>4, LaneConstants DEF Lesser
  <2>. QED  BY <1>4, <2>1, <2>2, <2>5
<1>14. CASE CopySlot
  <2> DEFINE b == Len(batch)
             x == slots[Slot(ctail + b)]
  <2>1. /\ cons = "copy" /\ b < avail /\ batch' = Append(batch, x)
        /\ UNCHANGED << tail, slots, accepted, out, ctail, main, avail, cons >>
        /\ ctail = Pos(Len(out)) /\ Taken = Len(out) /\ Len(out) + avail <= accepted
    BY <1>1, <1>14 DEF CopySlot, Taken, Unspilled
  <2>2. Taken' = Taken /\ BeingPushed' = BeingPushed  BY <2>1 DEF Taken, BeingPushed
  <2>3. x = Len(out) + b + 1
    <3>1. Slot(ctail + b) = Place(Len(out) + b)  BY <1>1, <2>1, PosSlot
    <3> DEFINE n == Len(out) + b + 1
    <3>2. n \in (Taken + 1) .. accepted /\ n - 1 = Len(out) + b
      BY <1>1, <2>1
    <3> HIDE DEF n
    <3>3. slots[Place(n - 1)] = n  BY <3>2 DEF Unspilled
    <3>. QED  BY <3>1, <3>2, <3>3 DEF n
  <2>4. x \in Nat  BY <1>1, <2>3
  <2> HIDE DEF x
  <2>5. /\ Len(batch') = b + 1 /\ batch'[b + 1] = x
        /\ \A i \in 1 .. b : batch'[i] = batch[i]
    BY <1>1, <2>1, <2>4, AppendProperties
  <2> HIDE DEF b
  <2>6. b \in Nat /\ b = Len(batch)  BY <1>1 DEF b
  <2>7. \A i \in 1 .. Len(batch') : batch'[i] = Len(out) + i
    <3> SUFFICES ASSUME NEW i \in 1 .. b + 1  PROVE batch'[i] = Len(out) + i
      BY <2>5
    <3>1. CASE i = b + 1
      BY <1>1, <2>3, <2>5, <2>6, <3>1
    <3>2. CASE i # b + 1
      <4>1. i \in 1 .. b  BY <2>6, <3>2
      <4>. QED  BY <2>5, <2>6, <4>1 DEF Unspilled
    <3>. QED  BY <3>1, <3>2
  <2>. QED  BY <2>1, <2>2, <2>7 DEF Unspilled
<1>15. CASE StoreTail
  <2>1. /\ cons = "copy" /\ cons' = "deliver" /\ Len(batch) = avail
        /\ tail' = Advance(ctail, avail)
        /\ UNCHANGED << slots, batch, accepted, out, ctail, main, avail >>
        /\ ctail = Pos(Len(out)) /\ Taken = Len(out) /\ Len(out) + avail <= accepted
    BY <1>1, <1>15 DEF StoreTail, Taken, Unspilled
  <2>2. Taken' = Len(out) + avail /\ BeingPushed' = BeingPushed
    BY <2>1 DEF Taken, BeingPushed
  <2>3. tail' = Pos(Len(out) + avail)  BY <1>1, <2>1, PosAdvance
  <2>4. /\ Taken' <= accepted /\ accepted - Taken' <= Size
        /\ BeingPushed => accepted - Taken' < Size
    BY <1>1, <2>1, <2>2 DEF Unspilled
  <2>5. \A n \in (Taken' + 1) .. accepted : n \in (Taken + 1) .. accepted
    BY <1>1, <2>1, <2>2
  <2>. QED  BY <2>1, <2>2, <2>3, <2>4, <2>5 DEF Unspilled
<1>16. CASE Deliver
  <2>1. /\ cons = "deliver" /\ cons' = "rest" /\ out' = out \o batch /\ batch' = << >>
        /\ UNCHANGED << tail, slots, accepted >>
        /\ Taken = Len(out) + Len(batch) /\ BeingPushed' => BeingPushed
    BY <1>16 DEF Deliver, AfterPass, Taken, BeingPushed
  <2>2. /\ Len(out') = Len(out) + Len(batch)
        /\ \A i \in 1 .. Len(out) + Len(batch) :
             out'[i] = IF i <= Len(out) THEN out[i] ELSE batch[i - Len(out)]
    BY <1>1, <2>1, ConcatProperties
  <2>3. Taken' = Taken  BY <1>1, <2>1, <2>2 DEF Taken
  <2>4. ASSUME NEW i \in 1 .. Len(out')  PROVE out'[i] = i
    <3>1. i \in 1 .. Len(out) + Len(batch)  BY <2>2
    <3>2. CASE i <= Len(out)
      <4>1. i \in 1 .. Len(out)  BY <1>1, <3>1, <3>2
      <4>. QED  BY <2>2, <3>1, <4>1, <3>2 DEF Unspilled
    <3>3. CASE ~(i <= Len(out))
      <4>1. i - Len(out) \in 1 .. Len(batch) /\ Len(out) + (i - Len(out)) = i
        BY <1>1, <3>1, <3>3
      <4>2. batch[i - Len(out)] = Len(out) + (i - Len(out))
        BY <4>1 DEF Unspilled
      <4>. QED  BY <2>2, <3>1, <3>3, <4>1, <4>2
    <3>. QED  BY <3>2, <3>3
  <2>5. Len(<< >>) = 0  BY EmptySeq
  <2>6. \A i \in 1 .. Len(batch') : batch'[i] = Len(out') + i  BY <2>1, <2>5
  <2>7. /\ Taken' <= accepted' /\ accepted' - Taken' <= Size
        /\ BeingPushed' => accepted' - Taken' < Size
        /\ tail' = Pos(Taken')
        /\ \A n \in (Taken' + 1) .. accepted' : slots'[Place(n - 1)] = n
    <3>1. /\ Taken <= accepted /\ accepted - Taken <= Size
          /\ BeingPushed => accepted - Taken < Size
          /\ tail = Pos(Taken)
          /\ \A n \in (Taken + 1) .. accepted : slots[Place(n - 1)] = n
      BY DEF Unspilled
    <3>2. /\ accepted' = accepted /\ tail' = tail /\ slots' = slots
          /\ BeingPushed' => BeingPushed
      BY <1>16 DEF Deliver, AfterPass, BeingPushed
    <3>3. tail' = Pos(Taken')  BY <2>3, <3>1, <3>2
    <3>4. \A n \in (Taken' + 1) .. accepted' : slots'[Place(n - 1)] = n
      BY <2>3, <3>1, <3>2
    <3>. QED  BY <2>3, <3>1, <3>2, <3>3, <3>4
  <2>8. cons' \notin {"head", "copy", "deliver"} /\ cons' # "copy"  BY <2>1
  <2>. QED  BY <2>4, <2>6, <2>7, <2>8 DEF Unspilled
<1>17. CASE TestRunning \/ Start \/ Stop \/ Join \/ Drain \/ UNCHANGED lanevars
  <2>1. /\ UNCHANGED << tail, slots, accepted, out, cons, ctail, avail, batch >>
        /\ BeingPushed' => BeingPushed
    BY <1>17 DEF TestRunning, Start, Stop, Join, Drain, lanevars, BeingPushed
  <2>2. Taken' = Taken  BY <2>1 DEF Taken
  <2>. QED  BY <2>1, <2>2 DEF Unspilled
<1>. QED
  BY <1>5, <1>6, <1>8, <1>9, <1>10, <1>11, <1>12, <1>13, <1>14, <1>15, <1>16, <1>17
  DEF LaneNext, Push, FlushPass

LEMMA LaneShapeInvariance == LaneSpec => []LaneShape
  BY LaneInitShape, ShapeStep, PTL DEF LaneSpec

\* What flows through a lane that has not overflowed.
FaithInv == LaneShape /\ (overflows = 0 => Unspilled)

LEMMA FaithStep == FaithInv /\ [LaneNext]_lanevars => FaithInv'
<1> SUFFICES ASSUME FaithInv, [LaneNext]_lanevars  PROVE FaithInv'
  OBVIOUS
<1>1. LaneShape'  BY ShapeStep DEF FaithInv
<1>2. ASSUME overflows' = 0  PROVE overflows = 0
  BY <1>2, OverflowsGrow DEF FaithInv, LaneShape
<1>3. overflows' = 0 => Unspilled'
  BY <1>2, UnspilledStep DEF FaithInv
<1>. QED  BY <1>1, <1>3 DEF FaithInv

LEMMA FaithInit == LaneInit => FaithInv
<1> SUFFICES ASSUME LaneInit  PROVE FaithInv
  OBVIOUS
<1>1. Len(<< >>) = 0  BY EmptySeq
<1>2. Taken = 0 /\ accepted = 0 /\ tail = First /\ cons = "rest" /\ main = "idle"
  BY <1>1 DEF LaneInit, Taken
<1>3. Pos(0) = First
  <2>1. LaneShape /\ head = First /\ accepted = 0  BY LaneInitShape DEF LaneInit
  <2>. QED  BY <2>1 DEF LaneShape
<1>4. Len(out) = 0 /\ Len(batch) = 0  BY <1>1 DEF LaneInit
<1>5. Unspilled  BY <1>2, <1>3, <1>4, LaneConstants DEF Unspilled, BeingPushed
<1>. QED  BY <1>5, LaneInitShape DEF FaithInv

\* detach_lane_push and detach_flush_pass, for any ring and batch size and through
\* any number of wraps of the 2^32 indices: until the ring first overflows, what
\* reaches the delta lane and the mesh is what was pushed, whole, once and in order.
THEOREM LaneDeliversAsPushed == LaneSpec => []DeliveredAsPushed
<1>1. FaithInv => DeliveredAsPushed
  BY DEF FaithInv, LaneShape, Unspilled, DeliveredAsPushed, FaithfulUntilOverflow
<1>. QED  BY <1>1, FaithInit, FaithStep, PTL DEF LaneSpec

-----------------------------------------------------------------------------
(* DetachLane: overflows take old entries only.                            *)

LEMMA ReachedPos ==
  ASSUME NEW a \in Nat, NEW c \in 0 .. a, a < Wrap
  PROVE  a - Ahead(Pos(a), Pos(c)) = c
<1>1. a - c \in 0 .. (Wrap - 1)  BY LaneConstants
<1>2. Ahead(Pos(a), Pos(c)) = a - c  BY <1>1, PosAhead
<1>. QED  BY <1>2

LEMMA ReachedIndex ==
  ASSUME LaneShape, NEW x \in 0 .. (Wrap - 1)
  PROVE  Reached(x) \in Int /\ Reached(x) <= accepted /\ x = Pos(Reached(x))
         /\ Ahead(head, x) = accepted - Reached(x)
<1>1. head = Pos(accepted) /\ accepted \in Nat  BY DEF LaneShape, LaneTypeOK
<1> DEFINE d == Ahead(head, x)
<1>2. d \in 0 .. (Wrap - 1) /\ x = Pos(accepted - d)  BY <1>1, PosOf
<1>3. Reached(x) = accepted - d  BY DEF Reached
<1> HIDE DEF d
<1>4. d \in Int /\ d >= 0  BY <1>2, LaneConstants
<1>. QED  BY <1>1, <1>2, <1>3, <1>4 DEF d

\* Pushes go on; an index left behind stays where it was.
LEMMA ReachedKept ==
  ASSUME LaneShape, NEW x \in 0 .. (Wrap - 1), Reached(x) >= 0,
         NEW a \in Nat, accepted <= a, a < Wrap
  PROVE  a - Ahead(Pos(a), x) = Reached(x)
<1> DEFINE c == Reached(x)
<1>1. c \in Int /\ c <= accepted /\ x = Pos(c)  BY ReachedIndex
<1>2. accepted \in Nat  BY DEF LaneShape, LaneTypeOK
<1> HIDE DEF c
<1>3. c >= 0  BY DEF c
<1>4. c \in 0 .. a  BY <1>1, <1>2, <1>3
<1>. QED  BY <1>1, <1>4, ReachedPos DEF c

LEMMA NewestInit == LaneInit => NewestInv
<1> SUFFICES ASSUME LaneInit  PROVE NewestInv
  OBVIOUS
<1>1. LaneShape  BY LaneInitShape
<1>2. /\ accepted = 0 /\ main = "idle" /\ cons = "rest" /\ head = tail /\ head \in Int
  BY LaneAssumption DEF LaneInit
<1>3. Newest = {}  BY <1>2 DEF Newest
<1>4. Reached(tail) = 0
  <2>1. tail = Pos(0)  BY <1>1, <1>2 DEF LaneShape
  <2>2. 0 - Ahead(Pos(0), Pos(0)) = 0  BY LaneConstants, ReachedPos
  <2>. QED  BY <1>2, <2>1, <2>2 DEF Reached
<1>. QED  BY <1>1, <1>2, <1>3, <1>4, LaneConstants DEF NewestInv

LEMMA NewestStep ==
  ASSUME MaxPush < Wrap, NewestInv, [LaneNext]_lanevars
  PROVE  NewestInv'
<1> USE DEF pushvars, control, passvars, lane_history
<1>1. LaneShape /\ LaneShape'  BY ShapeStep DEF NewestInv
<1>2. /\ LaneTypeOK /\ head = Pos(accepted) /\ accepted \in Nat /\ Size \in Nat \ {0}
      /\ batch \in Seq(Nat) /\ out \in Seq(Nat) /\ Len(batch) \in Nat /\ Len(out) \in Nat
      /\ avail \in Nat /\ Len(batch) <= avail /\ Wrap \in Nat /\ MaxPush \in Nat
      /\ slots \in [0 .. (Size - 1) -> Nat] /\ accepted < Wrap /\ accepted <= MaxPush
      /\ tail \in 0 .. (Wrap - 1) /\ loaded \in 0 .. (Wrap - 1) /\ ctail \in 0 .. (Wrap - 1)
  <2>1. /\ LaneTypeOK /\ head = Pos(accepted) /\ accepted \in Nat /\ accepted <= MaxPush
        /\ batch \in Seq(Nat) /\ out \in Seq(Nat) /\ avail \in Nat /\ Len(batch) <= avail
        /\ slots \in [0 .. (Size - 1) -> Nat]
        /\ tail \in 0 .. (Wrap - 1) /\ loaded \in 0 .. (Wrap - 1) /\ ctail \in 0 .. (Wrap - 1)
    BY LaneConstants DEF NewestInv, LaneShape, LaneTypeOK
  <2>2. Len(batch) \in Nat /\ Len(out) \in Nat  BY <2>1, LenProperties
  <2>3. accepted < Wrap  BY <2>1, LaneConstants
  <2>. QED  BY <2>1, <2>2, <2>3, LaneConstants
<1>3. /\ Reached(tail) \in Int /\ Reached(loaded) \in Int /\ Reached(ctail) \in Int
      /\ Reached(tail) <= accepted /\ Reached(loaded) <= accepted
      /\ Reached(ctail) <= accepted
      /\ tail = Pos(Reached(tail)) /\ loaded = Pos(Reached(loaded))
      /\ ctail = Pos(Reached(ctail))
      /\ Ahead(head, loaded) = accepted - Reached(loaded)
      /\ Ahead(head, ctail) = accepted - Reached(ctail)
  BY <1>1, <1>2, ReachedIndex
<1>4. \A n \in Newest : n \in 1 .. accepted  BY DEF Newest
\* Actions that change nothing but where the threads are.
<1>5. ASSUME UNCHANGED << head, tail, slots, cons, ctail, avail, batch, accepted, out >>,
             main' \in {"full", "write", "torn", "filled"} => accepted < MaxPush,
             BeingPushed => BeingPushed',
             main' = "full" => Reached(loaded)' >= 0 /\ Ahead(head, loaded') >= Size
      PROVE  NewestInv'
  <2>1. Newest' \subseteq Newest
    BY <1>2, <1>5 DEF Newest
  <2>2. Reached(tail)' = Reached(tail) /\ Reached(ctail)' = Reached(ctail)
    BY <1>5 DEF Reached
  <2>3. \A n : (Delivered(n)' <=> Delivered(n)) /\ (Carried(n)' <=> Carried(n))
    BY <1>5 DEF Delivered, Carried
  <2>4. /\ Reached(tail) >= 0
        /\ cons \in {"head", "copy", "deliver"} => Reached(ctail) >= 0
        /\ cons = "copy" => avail <= Ahead(head, ctail)
        /\ \A n \in Newest : slots[Place(n - 1)] = n
        /\ \A n \in Newest : n <= Reached(tail) => Delivered(n) \/ Carried(n)
        /\ cons \in {"head", "copy"} => \A n \in Newest : n <= Reached(ctail) => Delivered(n)
        /\ cons = "copy" => \A i \in 1 .. Len(batch) :
             Reached(ctail) + i \in Newest => batch[i] = Reached(ctail) + i
    BY DEF NewestInv
  <2>5. /\ \A n \in Newest' : slots'[Place(n - 1)] = n
        /\ \A n \in Newest' : n <= Reached(tail)' => Delivered(n)' \/ Carried(n)'
        /\ cons' \in {"head", "copy"} =>
             \A n \in Newest' : n <= Reached(ctail)' => Delivered(n)'
        /\ cons' = "copy" => \A i \in 1 .. Len(batch') :
             Reached(ctail)' + i \in Newest' => batch'[i] = Reached(ctail)' + i
    BY <1>5, <2>1, <2>2, <2>3, <2>4
  <2>. QED  BY <1>1, <1>2, <1>5, <2>2, <2>4, <2>5 DEF NewestInv
<1>6. CASE BeginPush
  <2>1. /\ UNCHANGED << head, tail, slots, cons, ctail, avail, batch, accepted, out >>
        /\ loaded' = tail /\ main = "idle" /\ accepted < MaxPush
        /\ main' = "full" => Ahead(head, tail) >= Size
    BY <1>6 DEF BeginPush
  <2>2. Reached(loaded)' = Reached(tail)  BY <2>1 DEF Reached
  <2>3. Reached(tail) >= 0  BY DEF NewestInv
  <2>. QED  BY <1>5, <2>1, <2>2, <2>3 DEF BeingPushed
<1>7. CASE DropOldest
  <2> DEFINE c == Reached(loaded)
  <2>1. /\ UNCHANGED << head, slots, loaded, cons, ctail, avail, batch, accepted, out >>
        /\ main = "full" /\ main' = "write" /\ tail' = Advance(loaded, 1)
    BY <1>7 DEF DropOldest
  <2>2. /\ c >= 0 /\ accepted - c >= Size /\ c \in Int /\ loaded = Pos(c)
        /\ accepted < MaxPush
    BY <1>3, <2>1 DEF NewestInv
  <2> HIDE DEF c
  <2>3. tail' = Pos(c + 1) /\ c + 1 \in 0 .. accepted
    BY <1>2, <2>1, <2>2, PosAdvance
  <2>4. Reached(tail)' = c + 1
    BY <1>2, <2>1, <2>3, ReachedPos DEF Reached
  <2>5. Newest' \subseteq Newest /\ \A n \in Newest' : n > c + 1
    <3>1. BeingPushed' /\ ~BeingPushed  BY <2>1 DEF BeingPushed
    <3>2. Newest' = {n \in 1 .. accepted : n > accepted - (Size - 1)}
      BY <2>1, <3>1 DEF Newest
    <3>3. Newest = {n \in 1 .. accepted : n > accepted - Size}
      BY <3>1 DEF Newest
    <3>. QED  BY <1>2, <2>2, <3>2, <3>3
  <2>6. Reached(ctail)' = Reached(ctail)  BY <2>1 DEF Reached
  <2>7. \A n : Delivered(n)' <=> Delivered(n)  BY <2>1 DEF Delivered
  <2>8. \A n \in Newest' : ~(n <= c + 1)
    <3>1. \A n \in Newest' : n \in Int  BY <1>2, <2>1 DEF Newest
    <3>. QED  BY <2>2, <2>5, <3>1
  <2>9. /\ cons \in {"head", "copy", "deliver"} => Reached(ctail) >= 0
        /\ cons = "copy" => avail <= Ahead(head, ctail)
        /\ \A n \in Newest' : slots'[Place(n - 1)] = n
        /\ cons' \in {"head", "copy"} =>
             \A n \in Newest' : n <= Reached(ctail)' => Delivered(n)'
        /\ cons' = "copy" => \A i \in 1 .. Len(batch') :
             Reached(ctail)' + i \in Newest' => batch'[i] = Reached(ctail)' + i
    BY <2>1, <2>5, <2>6, <2>7 DEF NewestInv
  <2>10. Reached(tail)' >= 0  BY <2>3, <2>4
  <2>11. \A n \in Newest' : n <= Reached(tail)' => Delivered(n)' \/ Carried(n)'
    BY <2>4, <2>8
  <2>. QED  BY <1>1, <1>2, <2>1, <2>2, <2>6, <2>9, <2>10, <2>11 DEF NewestInv
<1>8. ASSUME NEW x \in Nat, slots' = [slots EXCEPT ![Slot(head)] = x], BeingPushed,
             BeingPushed', main' # "full",
             UNCHANGED << head, tail, cons, ctail, avail, batch, accepted, out >>
      PROVE  NewestInv'
  <2>1. Newest' = Newest  BY <1>8 DEF Newest
  <2>2. /\ Reached(tail)' = Reached(tail) /\ Reached(ctail)' = Reached(ctail)
        /\ Ahead(head, ctail)' = Ahead(head, ctail)
    BY <1>8 DEF Reached
  <2>3. \A n : (Delivered(n)' <=> Delivered(n)) /\ (Carried(n)' <=> Carried(n))
    BY <1>8 DEF Delivered, Carried
  <2>4. Slot(head) = Place(accepted)  BY <1>2, HeadSlot
  <2>5. ASSUME NEW n \in Newest
        PROVE  slots'[Place(n - 1)] = n
    <3>1. n \in 1 .. accepted /\ n > accepted - (Size - 1)
      BY <1>8 DEF Newest
    <3>2. /\ n - 1 \in Int /\ n - 1 # accepted
          /\ (n - 1) - accepted < Size /\ accepted - (n - 1) < Size
      BY <1>2, <3>1
    <3>3. Place(n - 1) # Place(accepted)  BY <1>2, <3>2, PlaceDistinct
    <3>4. Place(n - 1) \in 0 .. (Size - 1)  BY <3>2, PosType
    <3>5. slots[Place(n - 1)] = n  BY DEF NewestInv
    <3>. QED  BY <1>2, <1>8, <2>4, <3>3, <3>4, <3>5
  <2>6. accepted < MaxPush  BY <1>8 DEF NewestInv, BeingPushed
  <2>. QED  BY <1>1, <1>2, <1>8, <2>1, <2>2, <2>3, <2>5, <2>6 DEF NewestInv
<1>9. CASE TearSlot
  <2>1. /\ slots' = [slots EXCEPT ![Slot(head)] = 0] /\ BeingPushed /\ BeingPushed'
        /\ main' # "full"
        /\ UNCHANGED << head, tail, cons, ctail, avail, batch, accepted, out >>
    BY <1>9 DEF TearSlot, Torn, BeingPushed
  <2>. QED  BY <1>8, <2>1
<1>10. CASE FillSlot
  <2>1. /\ slots' = [slots EXCEPT ![Slot(head)] = accepted + 1]
        /\ BeingPushed /\ BeingPushed' /\ main' # "full"
        /\ UNCHANGED << head, tail, cons, ctail, avail, batch, accepted, out >>
    BY <1>10 DEF FillSlot, BeingPushed
  <2>2. accepted + 1 \in Nat  BY <1>2
  <2>. QED  BY <1>8, <2>1, <2>2
<1>11. CASE PublishHead
  <2>1. /\ accepted' = accepted + 1 /\ main' = "idle" /\ main = "filled"
        /\ UNCHANGED << tail, slots, cons, ctail, avail, batch, out >>
        /\ slots[Place(accepted)] = accepted + 1
    BY <1>1, <1>11 DEF PublishHead, LaneShape
  <2>2. accepted < MaxPush /\ accepted' <= MaxPush /\ accepted' < Wrap
    BY <1>2, <2>1 DEF NewestInv
  <2>3. head' = Pos(accepted')  BY <1>1 DEF LaneShape
  <2>4. Reached(tail) >= 0 /\ Reached(tail)' = Reached(tail)
    <3>1. Reached(tail) >= 0  BY DEF NewestInv
    <3>2. accepted' \in Nat /\ accepted <= accepted'  BY <1>2, <2>1
    <3>3. accepted' - Ahead(Pos(accepted'), tail) = Reached(tail)
      BY <1>1, <1>2, <2>2, <3>1, <3>2, ReachedKept
    <3>. QED  BY <2>1, <2>3, <3>1, <3>3 DEF Reached
  <2>5. cons \in {"head", "copy", "deliver"} =>
          Reached(ctail) >= 0 /\ Reached(ctail)' = Reached(ctail)
    <3> SUFFICES ASSUME cons \in {"head", "copy", "deliver"}
                 PROVE  Reached(ctail) >= 0 /\ Reached(ctail)' = Reached(ctail)
      OBVIOUS
    <3>1. Reached(ctail) >= 0  BY DEF NewestInv
    <3>2. accepted' \in Nat /\ accepted <= accepted'  BY <1>2, <2>1
    <3>3. accepted' - Ahead(Pos(accepted'), ctail) = Reached(ctail)
      BY <1>1, <1>2, <2>2, <3>1, <3>2, ReachedKept
    <3>. QED  BY <2>1, <2>3, <3>1, <3>3 DEF Reached
  <2>6. ASSUME NEW n \in Newest'
        PROVE  n \in Newest \/ n = accepted + 1
    <3>1. n \in 1 .. accepted' /\ n > accepted' - Size
      BY <2>1 DEF Newest, BeingPushed
    <3>2. BeingPushed  BY <2>1 DEF BeingPushed
    <3>3. Newest = {k \in 1 .. accepted : k > accepted - (Size - 1)}
      BY <3>2 DEF Newest
    <3>. QED  BY <1>2, <2>1, <3>1, <3>3
  <2>7. \A n : (Delivered(n)' <=> Delivered(n)) /\ (Carried(n)' <=> Carried(n))
    BY <2>1 DEF Delivered, Carried
  <2>8. ASSUME NEW n \in Newest'  PROVE slots'[Place(n - 1)] = n
    <3>1. CASE n \in Newest
      BY <2>1, <3>1 DEF NewestInv
    <3>2. CASE n = accepted + 1
      <4>1. n - 1 = accepted  BY <1>2, <3>2
      <4>. QED  BY <2>1, <3>2, <4>1
    <3>. QED  BY <2>6, <3>1, <3>2
  <2>9. ASSUME NEW n \in Newest', n <= accepted  PROVE n \in Newest
    BY <1>2, <2>6, <2>9
  <2>10. \A n \in Newest' : n \in Int
    BY <1>2, <1>4, <2>6
  <2>11. ASSUME NEW n \in Newest', n <= Reached(tail)'
         PROVE  Delivered(n)' \/ Carried(n)'
    <3>1. n <= accepted  BY <1>2, <1>3, <2>4, <2>10, <2>11
    <3>2. n \in Newest  BY <2>9, <3>1
    <3>. QED  BY <2>4, <2>7, <2>11, <3>2 DEF NewestInv
  <2>12. ASSUME cons' \in {"head", "copy"}, NEW n \in Newest', n <= Reached(ctail)'
         PROVE  Delivered(n)'
    <3>1. cons \in {"head", "copy"} /\ Reached(ctail)' = Reached(ctail)
      BY <2>1, <2>5, <2>12
    <3>2. n <= accepted  BY <1>2, <1>3, <2>10, <2>12, <3>1
    <3>3. n \in Newest  BY <2>9, <3>2
    <3>. QED  BY <2>7, <2>12, <3>1, <3>3 DEF NewestInv
  <2>13. cons = "copy" => Reached(ctail) + avail <= accepted
    BY <1>2, <1>3 DEF NewestInv
  <2>14. cons' = "copy" => avail' <= Ahead(head, ctail)'
    <3> SUFFICES ASSUME cons = "copy"  PROVE avail <= Ahead(head', ctail')
      BY <2>1
    <3>1. Reached(ctail)' = accepted' - Ahead(head', ctail')  BY DEF Reached
    <3>2. Ahead(head', ctail') \in Int
      <4>1. head' \in Int /\ ctail' \in Int
        BY <1>1, LaneConstants DEF LaneShape, LaneTypeOK
      <4>. QED  BY <4>1, AheadType, LaneConstants
    <3>3. /\ Reached(ctail)' = Reached(ctail) /\ Reached(ctail) + avail <= accepted
          /\ accepted' = accepted + 1 /\ Reached(ctail) \in Int
      BY <1>3, <2>1, <2>5, <2>13
    <3> HIDE DEF NewestInv
    <3>4. \A a, ap, r, v, h \in Int :
            r + v <= a /\ ap = a + 1 /\ r = ap - h => v <= h
      OBVIOUS
    <3>5. accepted \in Int /\ accepted' \in Int /\ avail \in Int
      BY <1>2, <3>3
    <3>. QED  BY <3>1, <3>2, <3>3, <3>4, <3>5
  <2>15. ASSUME cons' = "copy", NEW i \in 1 .. Len(batch'), Reached(ctail)' + i \in Newest'
         PROVE  batch'[i] = Reached(ctail)' + i
    <3>1. cons = "copy" /\ Reached(ctail)' = Reached(ctail) /\ i \in 1 .. Len(batch)
      BY <2>1, <2>5, <2>15
    <3>2. Reached(ctail) + i <= accepted
      <4>1. i \in Int /\ i <= Len(batch)  BY <1>2, <3>1
      <4>2. /\ Reached(ctail) + avail <= accepted /\ Reached(ctail) \in Int
            /\ Len(batch) <= avail /\ avail \in Int /\ accepted \in Int
            /\ Len(batch) \in Int
        BY <1>2, <1>3, <2>13, <3>1
      <4>. QED  BY <4>1, <4>2
    <3>3. Reached(ctail) + i \in Newest  BY <2>9, <2>15, <3>1, <3>2
    <3>. QED  BY <2>1, <3>1, <3>3 DEF NewestInv
  <2>16. /\ cons' \in {"head", "copy", "deliver"} => Reached(ctail)' >= 0
         /\ Reached(tail)' >= 0
    BY <2>1, <2>4, <2>5
  <2>. QED  BY <1>1, <2>1, <2>2, <2>8, <2>11, <2>12, <2>14, <2>15, <2>16 DEF NewestInv
\* The flush pass: head, the entries pushed and the slots stay.
<1>12. ASSUME UNCHANGED << head, slots, accepted >>, BeingPushed' = BeingPushed
       PROVE  Newest' = Newest
  BY <1>12 DEF Newest
<1>13. /\ main \in {"full", "write", "torn", "filled"} => accepted < MaxPush
       /\ main = "full" => Reached(loaded) >= 0 /\ Ahead(head, loaded) >= Size
       /\ \A n \in Newest : slots[Place(n - 1)] = n
       /\ Reached(tail) >= 0
  BY DEF NewestInv
<1>14. ASSUME UNCHANGED << head, slots, accepted, loaded >>, BeingPushed' = BeingPushed,
              main' \in {"full", "write", "torn", "filled"} => main' = main,
              Reached(tail)' >= 0,
              cons' \in {"head", "copy", "deliver"} => Reached(ctail)' >= 0,
              cons' = "copy" => avail' <= Ahead(head', ctail'),
              \A n \in Newest : n <= Reached(tail)' => Delivered(n)' \/ Carried(n)',
              cons' \in {"head", "copy"} =>
                \A n \in Newest : n <= Reached(ctail)' => Delivered(n)',
              cons' = "copy" => \A i \in 1 .. Len(batch') :
                Reached(ctail)' + i \in Newest => batch'[i] = Reached(ctail)' + i
       PROVE  NewestInv'
  <2>1. Newest' = Newest  BY <1>12, <1>14
  <2>2. Reached(loaded)' = Reached(loaded)  BY <1>14 DEF Reached
  <2>3. /\ accepted' <= MaxPush
        /\ main' \in {"full", "write", "torn", "filled"} => accepted' < MaxPush
        /\ main' = "full" => Reached(loaded)' >= 0 /\ Ahead(head', loaded') >= Size
    BY <1>2, <1>13, <1>14, <2>2
  <2>4. \A n \in Newest' : slots'[Place(n - 1)] = n  BY <1>13, <1>14, <2>1
  <2>. QED  BY <1>1, <1>14, <2>1, <2>3, <2>4 DEF NewestInv
<1>15. CASE ReadTail
  <2>1. /\ cons = "rest" /\ cons' = "head" /\ ctail' = tail
        /\ UNCHANGED << head, tail, slots, batch, accepted, out, main, loaded >>
    BY <1>15 DEF ReadTail
  <2>2. Reached(ctail)' = Reached(tail) /\ Reached(tail)' = Reached(tail)
    BY <2>1 DEF Reached
  <2>3. \A n \in Newest : n <= Reached(tail) => Delivered(n)
    BY <2>1 DEF NewestInv, Carried
  <2>4. \A n : Delivered(n)' <=> Delivered(n)  BY <2>1 DEF Delivered
  <2>5. BeingPushed' = BeingPushed  BY <2>1 DEF BeingPushed
  <2>. QED  BY <1>13, <1>14, <2>1, <2>2, <2>3, <2>4, <2>5
<1>16. CASE EmptyPass
  <2>1. /\ cons = "head" /\ cons' = "rest" /\ main' \in {main, "idle"}
        /\ (main' # main => main = "drain")
        /\ UNCHANGED << head, tail, slots, batch, accepted, out, loaded >>
    BY <1>16 DEF EmptyPass, AfterPass
  <2>2. Reached(tail)' = Reached(tail)  BY <2>1 DEF Reached
  <2>3. \A n \in Newest : n <= Reached(tail) => Delivered(n)
    BY <2>1 DEF NewestInv, Carried
  <2>4. \A n : Delivered(n)' <=> Delivered(n)  BY <2>1 DEF Delivered
  <2>5. BeingPushed' = BeingPushed  BY <2>1 DEF BeingPushed
  <2>6. main' \in {"full", "write", "torn", "filled"} => main' = main  BY <2>1
  <2>. QED  BY <1>13, <1>14, <2>1, <2>2, <2>3, <2>4, <2>5, <2>6
<1>17. CASE BeginPass
  <2>1. /\ cons = "head" /\ cons' = "copy" /\ avail' = Lesser(Ahead(head, ctail), Batch)
        /\ UNCHANGED << head, tail, slots, batch, accepted, out, main, loaded, ctail >>
        /\ Len(batch) = 0
    BY <1>1, <1>17 DEF BeginPass, LaneShape
  <2>2. Reached(ctail)' = Reached(ctail) /\ Reached(tail)' = Reached(tail)
    BY <2>1 DEF Reached
  <2>3. /\ \A n \in Newest : n <= Reached(tail) => Delivered(n)
        /\ \A n \in Newest : n <= Reached(ctail) => Delivered(n)
        /\ Reached(ctail) >= 0
    BY <2>1 DEF NewestInv, Carried
  <2>4. \A n : Delivered(n)' <=> Delivered(n)  BY <2>1 DEF Delivered
  <2>5. BeingPushed' = BeingPushed  BY <2>1 DEF BeingPushed
  <2>6. avail' <= Ahead(head', ctail')
    BY <1>2, <1>3, <2>1, LaneConstants DEF Lesser
  <2>7. \A i \in 1 .. Len(batch') : FALSE  BY <2>1
  <2>. QED  BY <1>13, <1>14, <2>1, <2>2, <2>3, <2>4, <2>5, <2>6, <2>7
<1>18. CASE CopySlot
  <2> DEFINE b == Len(batch)
             c == Reached(ctail)
             x == slots[Slot(ctail + b)]
  <2>1. /\ cons = "copy" /\ b < avail /\ batch' = Append(batch, x)
        /\ UNCHANGED << head, tail, slots, accepted, out, main, loaded, ctail, avail, cons >>
    BY <1>18 DEF CopySlot
  <2>2. Reached(ctail)' = c /\ Reached(tail)' = Reached(tail)
    BY <2>1 DEF Reached
  <2>3. /\ \A n \in Newest : n <= Reached(tail) => Delivered(n)
        /\ \A n \in Newest : n <= c => Delivered(n)
        /\ \A i \in 1 .. b : c + i \in Newest => batch[i] = c + i
        /\ c >= 0 /\ avail <= Ahead(head, ctail)
    BY <2>1 DEF NewestInv, Carried
  <2>4. \A n : Delivered(n)' <=> Delivered(n)  BY <2>1 DEF Delivered
  <2>5. BeingPushed' = BeingPushed  BY <2>1 DEF BeingPushed
  <2>6. b \in Nat /\ c \in Int /\ ctail = Pos(c)  BY <1>2, <1>3
  <2>7. x \in Nat
    <3>1. Slot(ctail + b) = Place(c + b)  BY <2>6, PosSlot
    <3>2. c + b \in Int  BY <2>6
    <3>3. Place(c + b) \in 0 .. (Size - 1)  BY <3>2, PosType
    <3>. QED  BY <1>2, <3>1, <3>3
  <2>8. c + (b + 1) \in Newest => x = c + (b + 1)
    <3> SUFFICES ASSUME c + (b + 1) \in Newest  PROVE x = c + (b + 1)
      OBVIOUS
    <3>1. Slot(ctail + b) = Place(c + b)  BY <2>6, PosSlot
    <3>2. (c + (b + 1)) - 1 = c + b  BY <2>6
    <3>3. slots[Place((c + (b + 1)) - 1)] = c + (b + 1)  BY <1>13
    <3>. QED  BY <3>1, <3>2, <3>3
  <2> HIDE DEF x, c
  <2>9. /\ Len(batch') = b + 1 /\ batch'[b + 1] = x
        /\ \A i \in 1 .. b : batch'[i] = batch[i]
    BY <1>2, <2>1, <2>7, AppendProperties
  <2> HIDE DEF b
  <2>10. ASSUME NEW i \in 1 .. Len(batch'), c + i \in Newest
         PROVE  batch'[i] = c + i
    <3>1. CASE i = b + 1
      BY <2>8, <2>9, <2>10, <3>1
    <3>2. CASE i # b + 1
      <4>1. i \in 1 .. b  BY <2>6, <2>9, <3>2
      <4>. QED  BY <2>3, <2>9, <2>10, <4>1
    <3>. QED  BY <3>1, <3>2
  <2>11. avail' <= Ahead(head', ctail')  BY <2>1, <2>3
  <2>. QED  BY <1>13, <1>14, <2>1, <2>2, <2>3, <2>4, <2>5, <2>10, <2>11
<1>19. CASE StoreTail
  <2> DEFINE c == Reached(ctail)
  <2>1. /\ cons = "copy" /\ cons' = "deliver" /\ Len(batch) = avail
        /\ tail' = Advance(ctail, avail)
        /\ UNCHANGED << head, slots, accepted, out, main, loaded, ctail, avail, batch >>
    BY <1>19 DEF StoreTail
  <2>2. /\ \A n \in Newest : n <= c => Delivered(n)
        /\ \A i \in 1 .. Len(batch) : c + i \in Newest => batch[i] = c + i
        /\ c >= 0 /\ avail <= Ahead(head, ctail)
    BY <2>1 DEF NewestInv
  <2>3. c \in Int /\ ctail = Pos(c) /\ Ahead(head, ctail) = accepted - c
    BY <1>3
  <2>4. Reached(ctail)' = c  BY <2>1 DEF Reached
  <2> HIDE DEF c
  <2>5. tail' = Pos(c + avail) /\ c + avail \in 0 .. accepted
    BY <1>2, <2>1, <2>2, <2>3, PosAdvance
  <2>6. Reached(tail)' = c + avail
    BY <1>2, <2>1, <2>5, ReachedPos DEF Reached
  <2>7. BeingPushed' = BeingPushed  BY <2>1 DEF BeingPushed
  <2>8. ASSUME NEW n \in Newest, n <= c + avail
        PROVE  Delivered(n)' \/ Carried(n)'
    <3>1. n \in Int  BY <1>4
    <3>2. CASE n <= c
      BY <2>1, <2>2, <3>2 DEF Delivered
    <3>3. CASE ~(n <= c)
      <4> DEFINE i == n - c
      <4>1. i \in 1 .. Len(batch) /\ c + i = n
        BY <1>2, <2>1, <2>3, <2>8, <3>1, <3>3
      <4>2. batch[i] = n  BY <2>2, <4>1
      <4>3. i \in DOMAIN batch  BY <1>2, <4>1, LenProperties
      <4>. QED  BY <2>1, <4>2, <4>3 DEF Carried
    <3>. QED  BY <3>2, <3>3
  <2>9. Reached(tail)' >= 0 /\ Reached(ctail)' >= 0
    BY <2>2, <2>4, <2>5, <2>6
  <2>. QED  BY <1>14, <2>1, <2>6, <2>7, <2>8, <2>9
<1>20. CASE Deliver
  <2>1. /\ cons = "deliver" /\ cons' = "rest" /\ out' = out \o batch
        /\ main' \in {main, "idle"} /\ (main' # main => main = "drain")
        /\ UNCHANGED << head, tail, slots, accepted, loaded >>
    BY <1>20 DEF Deliver, AfterPass
  <2>2. Reached(tail)' = Reached(tail)  BY <2>1 DEF Reached
  <2>3. ASSUME NEW n, Delivered(n) \/ Carried(n)  PROVE Delivered(n)'
    <3>1. /\ DOMAIN (out \o batch) = 1 .. Len(out) + Len(batch)
          /\ DOMAIN out = 1 .. Len(out) /\ DOMAIN batch = 1 .. Len(batch)
          /\ \A i \in 1 .. Len(out) + Len(batch) :
               (out \o batch)[i] = IF i <= Len(out) THEN out[i] ELSE batch[i - Len(out)]
      BY <1>2, LenProperties, ConcatProperties
    <3>2. CASE Delivered(n)
      <4>1. PICK i \in 1 .. Len(out) : out[i] = n  BY <3>1, <3>2 DEF Delivered
      <4>2. i \in 1 .. Len(out) + Len(batch) /\ i <= Len(out)  BY <1>2
      <4>3. (out \o batch)[i] = n  BY <3>1, <4>1, <4>2
      <4>. QED  BY <2>1, <3>1, <4>2, <4>3 DEF Delivered
    <3>3. CASE Carried(n)
      <4>1. PICK i \in 1 .. Len(batch) : batch[i] = n  BY <3>1, <3>3 DEF Carried
      <4> DEFINE k == Len(out) + i
      <4>2. k \in 1 .. Len(out) + Len(batch) /\ ~(k <= Len(out)) /\ k - Len(out) = i
        BY <1>2
      <4>3. (out \o batch)[k] = n  BY <3>1, <4>1, <4>2
      <4>. QED  BY <2>1, <3>1, <4>2, <4>3 DEF Delivered
    <3>. QED  BY <2>3, <3>2, <3>3
  <2>4. \A n \in Newest : n <= Reached(tail) => Delivered(n) \/ Carried(n)
    BY DEF NewestInv
  <2>5. BeingPushed' = BeingPushed  BY <2>1 DEF BeingPushed
  <2>6. main' \in {"full", "write", "torn", "filled"} => main' = main  BY <2>1
  <2>7. \A n \in Newest : n <= Reached(tail)' => Delivered(n)'
    BY <2>2, <2>3, <2>4
  <2>. QED  BY <1>13, <1>14, <2>1, <2>2, <2>5, <2>6, <2>7
<1>21. CASE TestRunning \/ Start \/ Stop \/ Join \/ Drain
  <2>1. /\ UNCHANGED << head, tail, slots, cons, ctail, avail, batch, accepted, out, loaded >>
        /\ main' \in {main, "idle", "join", "drain"}
        /\ (main' # main => ~BeingPushed)
    BY <1>21 DEF TestRunning, Start, Stop, Join, Drain, BeingPushed
  <2>2. BeingPushed => BeingPushed'  BY <2>1 DEF BeingPushed
  <2>3. Reached(loaded)' = Reached(loaded)  BY <2>1 DEF Reached
  <2>. QED  BY <1>5, <1>13, <2>1, <2>2, <2>3
<1>22. CASE UNCHANGED lanevars
  <2>1. UNCHANGED << head, tail, slots, cons, ctail, avail, batch, accepted, out, loaded, main >>
    BY <1>22 DEF lanevars
  <2>2. BeingPushed' = BeingPushed  BY <2>1 DEF BeingPushed
  <2>3. Reached(loaded)' = Reached(loaded)  BY <2>1 DEF Reached
  <2>. QED  BY <1>5, <1>13, <2>1, <2>2, <2>3
<1>. QED
  BY <1>6, <1>7, <1>9, <1>10, <1>11, <1>15, <1>16, <1>17, <1>18, <1>19, <1>20, <1>21, <1>22
  DEF LaneNext, Push, FlushPass

\* However the two writers of tail overwrite each other, an overflow takes old
\* entries only, as long as fewer entries are pushed, since the ring was empty,
\* than an index can count: with 2^32 of them pushed while a pass stands between
\* its load and its store of tail, the full ring looks empty and all is lost.
THEOREM OverflowTakesTheOldest ==
  ASSUME MaxPush < Wrap
  PROVE  LaneSpec => []NewestNeverLost
<1>1. ASSUME NewestInv  PROVE NewestNeverLost
  <2> SUFFICES ASSUME NEW n \in Newest
               PROVE  \/ Ahead(head, tail) >= accepted - n + 1
                      \/ \E i \in DOMAIN out : out[i] = n
                      \/ cons = "deliver" /\ \E i \in DOMAIN batch : batch[i] = n
    BY DEF NewestNeverLost
  <2>1. LaneShape /\ accepted \in Nat /\ n \in 1 .. accepted /\ tail \in 0 .. (Wrap - 1)
    BY <1>1 DEF NewestInv, LaneShape, LaneTypeOK, Newest
  <2>2. Reached(tail) \in Int /\ Ahead(head, tail) = accepted - Reached(tail)
    BY <2>1, ReachedIndex
  <2>3. CASE n <= Reached(tail)
    BY <1>1, <2>3 DEF NewestInv, Delivered, Carried
  <2>4. CASE ~(n <= Reached(tail))
    <3>1. Ahead(head, tail) >= accepted - n + 1  BY <2>1, <2>2, <2>4
    <3>. QED  BY <3>1
  <2>. QED  BY <2>3, <2>4
<1>. QED  BY <1>1, NewestInit, NewestStep, PTL DEF LaneSpec

-----------------------------------------------------------------------------
(* DetachLane: a stop or a drain returns with the ring empty.              *)

\* A pass after which a stop or a drain may return: no push is under way.
Closing == main = "drain" \/ thread = "final"

CloseInv ==
  /\ LaneShape
  /\ started <=> thread # "none"
  /\ main = "drain" => ~started
  /\ main = "join" => started
  /\ thread # "none" /\ main # "join" => running
  /\ thread \in {"final", "done"} => main = "join"
  /\ cons # "rest" => Flushing
  /\ Closing /\ cons \in {"head", "copy"} => ctail = tail
  /\ Closing /\ cons \in {"copy", "deliver"} => avail = Lesser(Ahead(head, ctail), Batch)
  /\ Closing /\ cons = "deliver" => tail = Advance(ctail, avail)
  /\ thread = "done" => head = tail

LEMMA AdvanceToHead ==
  ASSUME LaneShape
  PROVE  /\ Advance(ctail, Ahead(head, ctail)) = head
         /\ Ahead(head, ctail) = 0 => ctail = head
<1> DEFINE d == head - ctail
<1>1. head \in 0 .. (Wrap - 1) /\ ctail \in 0 .. (Wrap - 1) /\ Wrap \in Nat \ {0}
  BY LaneConstants DEF LaneShape, LaneTypeOK
<1>2. d \in Int /\ d + ctail = head /\ ctail \in Int  BY <1>1
<1>3. Ahead(head, ctail) = d % Wrap  BY DEF Ahead
<1>4. ((d % Wrap) + ctail) % Wrap = head
  <2>1. ((d % Wrap) + ctail) % Wrap = (d + ctail) % Wrap  BY <1>1, <1>2, RemainderAdd
  <2>. QED  BY <1>1, <1>2, <2>1, RemainderSmall
<1>5. d % Wrap \in Int  BY <1>1, <1>2, Division
<1> HIDE DEF d
<1>6. (d % Wrap) + ctail = ctail + (d % Wrap)  BY <1>2, <1>5
<1>7. Advance(ctail, Ahead(head, ctail)) = head  BY <1>3, <1>4, <1>6 DEF Advance
<1>8. ASSUME Ahead(head, ctail) = 0  PROVE ctail = head
  <2>1. ctail + 0 = ctail  BY <1>1
  <2>2. ctail % Wrap = head  BY <1>7, <1>8, <2>1 DEF Advance
  <2>. QED  BY <1>1, <2>2, RemainderSmall
<1>. QED  BY <1>7, <1>8

LEMMA CloseInit == LaneInit => CloseInv
<1> SUFFICES ASSUME LaneInit  PROVE CloseInv
  OBVIOUS
<1>1. LaneShape  BY LaneInitShape
<1>. QED  BY <1>1 DEF LaneInit, CloseInv, Closing, Flushing

LEMMA CloseStep == CloseInv /\ [LaneNext]_lanevars => CloseInv'
<1> SUFFICES ASSUME CloseInv, [LaneNext]_lanevars  PROVE CloseInv'
  OBVIOUS
<1> USE DEF pushvars, control, passvars, lane_history
<1>1. LaneShape /\ LaneShape'  BY ShapeStep DEF CloseInv
<1>2. /\ Batch \in Nat \ {0} /\ avail \in Nat /\ Ahead(head, ctail) \in Nat
      /\ started \in BOOLEAN /\ running \in BOOLEAN
  <2>1. head \in Int /\ ctail \in Int  BY <1>1, LaneConstants DEF LaneShape, LaneTypeOK
  <2>2. Ahead(head, ctail) \in Nat  BY <2>1, AheadType, LaneConstants
  <2>. QED  BY <1>1, <2>2, LaneConstants DEF LaneShape, LaneTypeOK
<1>3. CASE Push
  <2>1. main \notin {"join", "drain", "idle"} \/ BeginPush
    BY <1>3 DEF Push, DropOldest, TearSlot, FillSlot, PublishHead
  <2>2. main \notin {"join", "drain"} /\ main' \notin {"join", "drain"}
    BY <1>3, <2>1 DEF Push, BeginPush, DropOldest, TearSlot, FillSlot, PublishHead
  <2>3. UNCHANGED << control, passvars >>
    BY <1>3 DEF Push, BeginPush, DropOldest, TearSlot, FillSlot, PublishHead
  <2>. QED  BY <1>1, <2>2, <2>3 DEF CloseInv, Closing, Flushing
<1>4. CASE ReadTail
  BY <1>1, <1>4 DEF ReadTail, CloseInv, Closing, Flushing
<1>5. CASE EmptyPass
  <2>1. Closing => head = tail
    BY <1>1, <1>5, AdvanceToHead DEF EmptyPass, CloseInv
  <2>. QED  BY <1>1, <1>2, <1>5, <2>1 DEF EmptyPass, AfterPass, CloseInv, Closing, Flushing
<1>6. CASE BeginPass
  BY <1>1, <1>6 DEF BeginPass, CloseInv, Closing, Flushing
<1>7. CASE CopySlot
  BY <1>1, <1>7 DEF CopySlot, CloseInv, Closing, Flushing
<1>8. CASE StoreTail
  BY <1>1, <1>8 DEF StoreTail, CloseInv, Closing, Flushing
<1>9. CASE Deliver
  <2>1. Closing /\ avail < Batch => head = tail
    <3> SUFFICES ASSUME Closing, avail < Batch  PROVE head = tail
      OBVIOUS
    <3>1. avail = Lesser(Ahead(head, ctail), Batch) /\ tail = Advance(ctail, avail)
      BY <1>9 DEF Deliver, CloseInv
    <3>2. avail = Ahead(head, ctail)  BY <1>2, <3>1 DEF Lesser
    <3>. QED  BY <1>1, <3>1, <3>2, AdvanceToHead
  <2>. QED  BY <1>1, <1>2, <1>9, <2>1 DEF Deliver, AfterPass, CloseInv, Closing, Flushing
<1>10. CASE TestRunning
  BY <1>1, <1>10 DEF TestRunning, CloseInv, Closing, Flushing
<1>11. CASE Start
  BY <1>1, <1>11 DEF Start, CloseInv, Closing, Flushing
<1>12. CASE Stop
  BY <1>1, <1>12 DEF Stop, CloseInv, Closing, Flushing
<1>13. CASE Join
  BY <1>1, <1>13 DEF Join, CloseInv, Closing, Flushing
<1>14. CASE Drain
  BY <1>1, <1>14 DEF Drain, CloseInv, Closing, Flushing
<1>15. CASE UNCHANGED lanevars
  BY <1>1, <1>15 DEF lanevars, CloseInv, Closing, Flushing
<1>. QED
  BY <1>3, <1>4, <1>5, <1>6, <1>7, <1>8, <1>9, <1>10, <1>11, <1>12, <1>13, <1>14, <1>15
  DEF LaneNext, FlushPass

\* detach_lane_stop and detach_lane_drain return only when the ring is empty, for
\* any ring and batch size and whatever overflowed before: the passes they wait
\* for begin after the last push and go on while batches are full.
THEOREM StopLeavesNothing == LaneSpec => StopEmpties
<1>1. ASSUME CloseInv, [LaneNext]_lanevars
      PROVE  [(main \in {"join", "drain"} /\ main' = "idle") => (head' = tail')]_lanevars
  <2> SUFFICES ASSUME LaneNext, main \in {"join", "drain"}, main' = "idle"
               PROVE  head' = tail'
    BY <1>1
  <2> USE DEF pushvars, control, passvars, lane_history
  <2>1. CloseInv /\ LaneShape  BY <1>1 DEF CloseInv
  <2>2. EmptyPass \/ Deliver \/ Join
    BY DEF LaneNext, Push, FlushPass, BeginPush, DropOldest, TearSlot, FillSlot,
           PublishHead, ReadTail, BeginPass, CopySlot, StoreTail, TestRunning, Start,
           Stop, Drain
  <2>3. CASE EmptyPass
    <3>1. Closing /\ head' = head /\ tail' = tail
      BY <2>1, <2>3 DEF EmptyPass, AfterPass, Closing
    <3>. QED  BY <2>1, <2>3, <3>1, AdvanceToHead DEF EmptyPass, CloseInv
  <2>4. CASE Deliver
    <3>1. Closing /\ head' = head /\ tail' = tail /\ avail < Batch
      BY <2>1, <2>4 DEF Deliver, AfterPass, Closing
    <3>2. avail = Lesser(Ahead(head, ctail), Batch) /\ tail = Advance(ctail, avail)
      BY <2>1, <2>4, <3>1 DEF Deliver, CloseInv
    <3>3. head \in Int /\ ctail \in Int
      BY <2>1, LaneConstants DEF LaneShape, LaneTypeOK
    <3>4. Ahead(head, ctail) \in Nat /\ Batch \in Nat
      BY <3>3, AheadType, LaneConstants
    <3>5. avail = Ahead(head, ctail)  BY <3>1, <3>2, <3>4 DEF Lesser
    <3>. QED  BY <2>1, <3>1, <3>2, <3>5, AdvanceToHead
  <2>5. CASE Join
    BY <2>1, <2>5 DEF Join, CloseInv
  <2>. QED  BY <2>2, <2>3, <2>4, <2>5
<1>. QED  BY <1>1, CloseInit, CloseStep, PTL DEF LaneSpec, StopEmpties
=============================================================================
