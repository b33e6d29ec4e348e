--------------------------- MODULE Routing_proofs ---------------------------
(***************************************************************************)
(* Proofs about what the routing run checks, for every size of the tables: *)
(* the run of GHOST decisions is bounded (L3Route), the castle serves the  *)
(* result of its own window and remembers the last records                 *)
(* (InfinityCastle), lanes stick and eviction takes the idler              *)
(* (EvoRouters), the mesh is that of the entries ingested (Mesh), and the  *)
(* ring before the cluster engine keeps its newest (MeshEntryBuf).         *)
(***************************************************************************)
EXTENDS L3Route, InfinityCastle, EvoRouters, Mesh, MeshEntryBuf, ModArith,
        SequenceTheorems, FiniteSetTheorems

LEMMA QuotientOfSmall ==
  ASSUME NEW m \in Nat \ {0}, NEW x \in 0 .. (m - 1)
  PROVE  x \div m = 0
<1> DEFINE q == x \div m
<1>1. q \in Int /\ x = m * q + (x % m)  BY Division
<1>2. x % m = x  BY RemainderSmall
<1> HIDE DEF q
<1>3. m * q = 0  BY <1>1, <1>2, SMT
<1>4. q = 0  BY <1>1, <1>3, SmallMultiple
<1>. QED  BY <1>4 DEF q

LEMMA SquareBelow ==
  ASSUME NEW s \in Nat \ {0}, NEW a \in 0 .. (s - 1)
  PROVE  a * a \in Nat /\ a * a < s * s
<1>1. a * a \in Nat /\ s * s \in Nat  BY SMT
<1>2. a * a <= a * s  BY SMT
<1>3. a * s < s * s  BY SMT
<1>. QED  BY <1>1, <1>2, <1>3, SMT

\* l3_scatter masks both coordinates below Scale.
LEMMA ScatterBounded ==
  ASSUME NEW addr \in Nat, NEW phi \in Nat
  PROVE  Scatter(addr, phi) \in 0 .. (Scale - 1)
<1> USE L3Assumption
<1> DEFINE low == addr % Scale
<1>1. low \in Nat  BY Division
<1> HIDE DEF low
<1>2. low * phi \in Int  BY <1>1, SMT
<1> DEFINE product == low * phi
<1> HIDE DEF product
<1>3. product \div Scale \in Int  BY <1>2, Division DEF product
<1> DEFINE x == product \div Scale
<1> HIDE DEF x
<1>4. x % Scale \in 0 .. (Scale - 1)  BY <1>3, Division DEF x
<1>. QED  BY <1>4 DEF Scatter, x, product, low

LEMMA InsideCircle ==
  ASSUME NEW a \in 0 .. (Scale - 1), NEW b \in 0 .. (Scale - 1)
  PROVE  ~OutsideCircle(a, b)
<1> USE L3Assumption
<1> DEFINE s == Scale * Scale
           m == 2 * Scale * Scale
           x == a * a + b * b
<1>1. /\ a * a \in Nat /\ a * a < s
      /\ b * b \in Nat /\ b * b < s
  BY SquareBelow
<1>2. s \in Nat \ {0} /\ m = s + s  BY SMT
<1> HIDE DEF s
<1>3. m \in Nat \ {0} /\ x \in 0 .. (m - 1)  BY <1>1, <1>2, SMT
<1> HIDE DEF m, x
<1>4. x \div m = 0  BY <1>3, QuotientOfSmall
<1>. QED  BY <1>4 DEF OutsideCircle, m, x

-----------------------------------------------------------------------------
\* The guard's counter is the run of GHOST answers.
Inv == TypeOK /\ NeverShadow /\ ghost_run = ghost_streak

LEMMA InitInv == Init => Inv
<1> SUFFICES ASSUME Init  PROVE Inv
  OBVIOUS
<1>1. 0 \in 0 .. GapMax /\ 0 \in 0 .. StreakMax
  BY L3Assumption
<1>2. TypeOK
  BY <1>1 DEF Init, TypeOK, Worlds, Routes
<1>. QED  BY <1>2 DEF Init, Inv, NeverShadow

LEMMA NextInv == Inv /\ [Next]_vars => Inv'
<1> SUFFICES ASSUME Inv, [Next]_vars  PROVE Inv'
  OBVIOUS
<1> USE L3Assumption
<1>1. ASSUME NEW addr \in Addresses, NEW signal \in BOOLEAN, Process(addr, signal)
      PROVE  Inv'
  <2> DEFINE a == Scatter(addr, PhiUp)
             b == Scatter(addr, PhiDown)
  <2>1. a \in 0 .. (Scale - 1) /\ b \in 0 .. (Scale - 1)
    BY ScatterBounded
  <2>2. ~OutsideCircle(a, b)  BY <2>1, InsideCircle
  <2>3. /\ Valid(a, b, signal)
        /\ total_ops' = total_ops + 1
        /\ ghost_run' = IF route' = "GHOST" THEN ghost_run + 1 ELSE 0
    BY <1>1, <2>2 DEF Process
  <2> HIDE DEF a, b
  <2> DEFINE w == World(a, b)
  <2>4. w \in {"TWIN", "A", "B"}  BY DEF World
  <2> HIDE DEF w
  <2>5. /\ CountFlip(w) /\ prev_world' = w /\ anchor_valid' = TRUE
        /\ GuardStreak(Geometry(w, signal))
    BY <2>3 DEF Valid, w
  <2>6. /\ flip_count' \in Nat /\ structured_flip' \in Nat /\ random_flip' \in Nat
        /\ steps_since_flip' \in 0 .. GapMax
    BY <2>5 DEF CountFlip, Inv, TypeOK
  <2>7. /\ ghost_streak' \in 0 .. StreakMax /\ route' \in {"MAIN", "GHOST"}
        /\ ghost_run' = ghost_streak'
    BY <2>3, <2>5 DEF GuardStreak, Inv, TypeOK
  <2>8. total_ops' \in Nat /\ ghost_run' \in Nat
    BY <2>3, <2>7 DEF Inv, TypeOK
  <2>. QED
    BY <2>4, <2>5, <2>6, <2>7, <2>8 DEF Inv, TypeOK, NeverShadow, Worlds, Routes
<1>2. CASE UNCHANGED vars
  BY <1>2 DEF vars, flips, Inv, TypeOK, NeverShadow
<1>. QED  BY <1>1, <1>2 DEF Next

LEMMA Invariance == Spec => []Inv
  BY InitInv, NextInv, PTL DEF Spec

\* The engine's fields stay in their types, the saturating gap and the streak
\* guard's counter in their ranges.
THEOREM TypeCorrect == Spec => []TypeOK
<1>1. Inv => TypeOK  BY DEF Inv
<1>. QED  BY <1>1, Invariance, PTL

\* The unit circle test of l3_process (line 186) never fires, so that ROUTE_SHADOW
\* is never answered: what PipelineWire leaves out is dead code.
THEOREM ShadowIsUnreachable == Spec => []NeverShadow
<1>1. Inv => NeverShadow  BY DEF Inv
<1>. QED  BY <1>1, Invariance, PTL

\* The anti-drift guard (lines 286-296) bounds every run of GHOST answers.
THEOREM GhostRunsEnd == Spec => []GhostRunBounded
<1>1. Inv => GhostRunBounded
  BY L3Assumption DEF Inv, TypeOK, GhostRunBounded
<1>. QED  BY <1>1, Invariance, PTL

-----------------------------------------------------------------------------
(* The castle (InfinityCastle).  A ghost entry is in the slot of its own      *)
(* signature and holds the last result of that window; the trace is the last  *)
(* records, going round.                                                      *)

Record == [offset : Offsets, xor_sig : Data]

WindowInv ==
  /\ window \in [0 .. (WindowSize - 1) -> Offsets \cup {0}]
  /\ window_head \in 0 .. (WindowSize - 1)

GhostInv ==
  /\ ghost = [i \in 0 .. (GhostSize - 1) |-> ghost[i]]
  /\ \A i \in 0 .. (GhostSize - 1) :
       ghost[i].signature # Zero =>
         /\ Index(ghost[i].signature) = i
         /\ << ghost[i].signature, ghost[i].output >> \in results
  /\ ServedForItsWindow

\* The records of which the trace has kept the last size.
Recent(n, k, size) == k \in 1 .. n /\ n - size < k

TraceInv ==
  LET n == Len(recorded)
  IN  /\ recorded \in Seq(Record)
      /\ trace_head = n % TraceSize
      /\ trace = [i \in 0 .. (TraceSize - 1) |-> trace[i]]
      /\ \A k \in Nat : Recent(n, k, TraceSize) => trace[(k - 1) % TraceSize] = recorded[k]
      /\ \A i \in 0 .. (TraceSize - 1) :
           \/ n <= i /\ trace[i].offset = 0
           \/ \E k \in Nat : /\ Recent(n, k, TraceSize) /\ (k - 1) % TraceSize = i
                             /\ trace[i] = recorded[k]

CastleInv == WindowInv /\ GhostInv /\ TraceInv

LEMMA CastleInitially == CastleInit => CastleInv
<1> SUFFICES ASSUME CastleInit  PROVE CastleInv
  OBVIOUS
<1>1. Len(<< >>) = 0 /\ << >> \in Seq(Record)  BY EmptySeq
<1>2. WindowInv
  BY CastleAssumption DEF CastleInit, WindowInv
<1>3. GhostInv
  BY DEF CastleInit, GhostInv, ServedForItsWindow
<1>4. TraceInv
  <2>1. /\ recorded = << >> /\ trace_head = 0
        /\ trace = [i \in 0 .. (TraceSize - 1) |-> [offset |-> 0, xor_sig |-> 0]]
    BY DEF CastleInit
  <2>2. 0 % TraceSize = 0
    <3>1. 0 \in 0 .. (TraceSize - 1) /\ TraceSize \in Nat \ {0}  BY CastleAssumption
    <3>. QED  BY <3>1, RemainderSmall
  <2>3. \A k \in Nat : ~Recent(0, k, TraceSize)  BY DEF Recent
  <2>4. \A i \in 0 .. (TraceSize - 1) : 0 <= i /\ trace[i].offset = 0  BY <2>1
  <2>. QED  BY <1>1, <2>1, <2>2, <2>3, <2>4 DEF TraceInv
<1>. QED  BY <1>2, <1>3, <1>4 DEF CastleInv

LEMMA SignatureHasSlot ==
  ASSUME WindowInv, NEW offset \in Offsets
  PROVE  /\ Windowed(offset) \in [0 .. (WindowSize - 1) -> Offsets \cup {0}]
         /\ Windowed(offset) # Zero
         /\ Index(Windowed(offset)) \in 0 .. (GhostSize - 1)
<1> DEFINE sig == Windowed(offset)
<1>1. sig \in [0 .. (WindowSize - 1) -> Offsets \cup {0}]
  BY DEF WindowInv, Windowed
<1>2. WindowSize \in Nat \ {0} /\ GhostSize \in Nat \ {0} /\ Offsets \subseteq Nat
  BY CastleAssumption
<1> HIDE DEF sig
<1>3. sig # Zero
  <2>1. 0 \in DOMAIN sig  BY <1>1, <1>2
  <2>2. DOMAIN Zero = {}  BY DEF Zero
  <2>. QED  BY <2>1, <2>2
<1>4. Index(sig) \in 0 .. (GhostSize - 1)
  <2>1. sig[0] \in Int /\ sig[WindowSize - 1] \in Int
    <3>1. 0 \in 0 .. (WindowSize - 1) /\ WindowSize - 1 \in 0 .. (WindowSize - 1)
      BY <1>2
    <3>2. sig[0] \in Offsets \cup {0} /\ sig[WindowSize - 1] \in Offsets \cup {0}
      BY <1>1, <3>1
    <3>3. Offsets \cup {0} \subseteq Int  BY <1>2
    <3>. QED  BY <3>2, <3>3, Zenon
  <2>2. sig[0] + 2 * sig[WindowSize - 1] \in Int  BY <2>1
  <2>. QED  BY <1>2, <2>2, Division DEF Index
<1>. QED  BY <1>1, <1>3, <1>4 DEF sig

LEMMA WindowMoves ==
  ASSUME WindowInv, NEW offset \in Offsets, UpdateWindow(offset)
  PROVE  WindowInv'
<1>1. window_head' \in 0 .. (WindowSize - 1)
  <2>1. window_head + 1 \in Int /\ WindowSize \in Nat \ {0}
    BY CastleAssumption DEF WindowInv
  <2>. QED  BY <2>1, Division DEF UpdateWindow
<1>. QED  BY <1>1, SignatureHasSlot DEF UpdateWindow, WindowInv

\* trace_record puts the newest over the oldest.
LEMMA TraceMoves ==
  ASSUME TraceInv, NEW offset \in Offsets, NEW data \in Data, TraceRecord(offset, data)
  PROVE  TraceInv'
<1>1. CASE UNCHANGED << trace, trace_head, recorded >>
  BY <1>1 DEF TraceInv
<1>2. ASSUME trace' = Traced(offset, data),
             trace_head' = (trace_head + 1) % TraceSize,
             recorded' = Append(recorded, [offset |-> offset, xor_sig |-> data])
      PROVE  TraceInv'
  <2> DEFINE n  == Len(recorded)
             n1 == n + 1
             r  == [offset |-> offset, xor_sig |-> data]
             h  == n % TraceSize
  <2>1. /\ recorded \in Seq(Record) /\ trace_head = h /\ TraceSize \in Nat \ {0}
        /\ trace = [i \in 0 .. (TraceSize - 1) |-> trace[i]]
    BY CastleAssumption DEF TraceInv
  <2>2. n \in Nat  BY <2>1, LenProperties
  <2>3. r \in Record  BY DEF Record
  <2>4. /\ recorded' \in Seq(Record) /\ Len(recorded') = n1 /\ recorded'[n1] = r
        /\ \A k \in 1 .. n : recorded'[k] = recorded[k]
    <3> HIDE DEF r
    <3>. QED  BY <1>2, <2>1, <2>3, AppendProperties DEF r
  <2>5. h \in 0 .. (TraceSize - 1)
    <3>1. n \in Int /\ TraceSize \in Nat \ {0}  BY <2>1, <2>2
    <3> HIDE DEF n
    <3>. QED  BY <3>1, Division
  <2>6. (h + 1) % TraceSize = n1 % TraceSize
    <3>1. n \in Int /\ 1 \in Int  BY <2>2
    <3>. QED  BY <2>1, <3>1, RemainderAdd
  <2>7. trace' = [trace EXCEPT ![h] = r]  BY <1>2, <2>1 DEF Traced
  <2>8. \A k \in Nat : Recent(n, k, TraceSize) => trace[(k - 1) % TraceSize] = recorded[k]
    BY DEF TraceInv
  <2>9. \A i \in 0 .. (TraceSize - 1) :
          \/ n <= i /\ trace[i].offset = 0
          \/ \E k \in Nat : /\ Recent(n, k, TraceSize) /\ (k - 1) % TraceSize = i
                            /\ trace[i] = recorded[k]
    BY DEF TraceInv
  <2>10. trace_head' = n1 % TraceSize  BY <1>2, <2>1, <2>6
  <2> HIDE DEF n, r, h
  <2>11. \A i \in 0 .. (TraceSize - 1) : trace'[i] = IF i = h THEN r ELSE trace[i]
    BY <2>1, <2>7
  <2>12. trace' = [i \in 0 .. (TraceSize - 1) |-> trace'[i]]
    BY <2>1, <2>7
  <2>13. n1 - 1 = n /\ n1 \in Nat  BY <2>2
  <2>14. ASSUME NEW k \in Nat, Recent(n1, k, TraceSize), k # n1
         PROVE  Recent(n, k, TraceSize) /\ (k - 1) % TraceSize # h
    <3>1. k \in 1 .. n /\ n1 - TraceSize < k  BY <2>2, <2>14 DEF Recent
    <3>2. k - 1 \in Int /\ n \in Int /\ k - 1 # n /\ (k - 1) - n < TraceSize /\ n - (k - 1) < TraceSize
      BY <2>1, <2>2, <3>1
    <3>3. (k - 1) % TraceSize # n % TraceSize
      BY <2>1, <3>2, RemainderDistinct
    <3>4. n - TraceSize < k  BY <2>1, <2>2, <3>1
    <3>. QED  BY <3>1, <3>3, <3>4 DEF Recent, h
  <2>15. ASSUME NEW k \in Nat, Recent(n1, k, TraceSize)
         PROVE  trace'[(k - 1) % TraceSize] = recorded'[k]
    <3>0. (k - 1) % TraceSize \in 0 .. (TraceSize - 1)
      <4>1. k - 1 \in Int  OBVIOUS
      <4>. QED  BY <2>1, <4>1, Division
    <3>1. CASE k = n1
      <4>1. (k - 1) % TraceSize = h  BY <2>13, <3>1 DEF h
      <4>. QED  BY <2>4, <2>5, <2>11, <3>1, <4>1
    <3>2. CASE k # n1
      <4>1. Recent(n, k, TraceSize) /\ (k - 1) % TraceSize # h  BY <2>14, <2>15, <3>2
      <4>2. k \in 1 .. n  BY <4>1 DEF Recent
      <4>. QED  BY <2>4, <2>8, <2>11, <3>0, <4>1, <4>2
    <3>. QED  BY <3>1, <3>2
  <2>16. ASSUME NEW i \in 0 .. (TraceSize - 1)
         PROVE  \/ n1 <= i /\ trace'[i].offset = 0
                \/ \E k \in Nat : /\ Recent(n1, k, TraceSize) /\ (k - 1) % TraceSize = i
                                  /\ trace'[i] = recorded'[k]
    <3>1. CASE i = h
      <4>1. Recent(n1, n1, TraceSize)  BY <2>1, <2>2 DEF Recent
      <4>2. (n1 - 1) % TraceSize = i  BY <2>13, <3>1 DEF h
      <4>3. trace'[i] = recorded'[n1]  BY <2>4, <2>11, <3>1
      <4> HIDE DEF n1
      <4>. QED  BY <2>13, <4>1, <4>2, <4>3
    <3>2. CASE i # h
      <4>1. trace'[i] = trace[i]  BY <2>11, <3>2
      <4>2. CASE n <= i /\ trace[i].offset = 0
        <5>1. i # n
          <6> SUFFICES ASSUME i = n  PROVE FALSE  OBVIOUS
          <6>1. n % TraceSize = n  BY <2>1, RemainderSmall
          <6>. QED  BY <3>2, <6>1 DEF h
        <5>2. n1 <= i  BY <2>2, <4>2, <5>1
        <5>. QED  BY <4>1, <4>2, <5>2
      <4>3. ASSUME NEW k \in Nat, Recent(n, k, TraceSize), (k - 1) % TraceSize = i,
                   trace[i] = recorded[k]
            PROVE  /\ Recent(n1, k, TraceSize)
                   /\ trace'[i] = recorded'[k]
        <5>1. k \in 1 .. n /\ n - TraceSize < k  BY <4>3 DEF Recent
        <5>2. k # n1 - TraceSize
          <6> SUFFICES ASSUME k = n1 - TraceSize  PROVE FALSE  OBVIOUS
          <6>1. k - 1 \in Int /\ n \in Int /\ n = TraceSize + (k - 1)  BY <2>1, <2>2
          <6>2. n % TraceSize = (k - 1) % TraceSize
            <7>1. ((TraceSize % TraceSize) + (k - 1)) % TraceSize = (TraceSize + (k - 1)) % TraceSize
              <8>1. TraceSize \in Int  BY <2>1
              <8>. QED  BY <2>1, <6>1, <8>1, RemainderAdd
            <7>2. TraceSize % TraceSize = 0
              <8>1. TraceSize = TraceSize * 1 + 0 /\ 0 \in 0 .. (TraceSize - 1)  BY <2>1
              <8>2. TraceSize \in Int /\ 1 \in Int  BY <2>1
              <8>. QED  BY <2>1, <8>1, <8>2, RemainderUnique
            <7>3. 0 + (k - 1) = k - 1  BY <6>1
            <7>. QED  BY <6>1, <7>1, <7>2, <7>3
          <6>. QED  BY <3>2, <4>3, <6>2 DEF h
        <5>3. Recent(n1, k, TraceSize)  BY <2>1, <2>2, <5>1, <5>2 DEF Recent
        <5>4. recorded'[k] = recorded[k]  BY <2>4, <5>1
        <5>. QED  BY <4>1, <4>3, <5>3, <5>4
      <4>. QED  BY <2>9, <4>2, <4>3
    <3>. QED  BY <3>1, <3>2
  <2> HIDE DEF n1
  <2>. QED  BY <2>4, <2>10, <2>12, <2>15, <2>16 DEF TraceInv
<1>. QED  BY <1>1, <1>2 DEF TraceRecord

\* A fast path, or a result computed and stored.
LEMMA ProcessKeepsGhosts ==
  ASSUME WindowInv, GhostInv, NEW offset \in Offsets, NEW data, CastleProcess(offset, data)
  PROVE  GhostInv'
<1>1. PICK sig : sig = Windowed(offset)  OBVIOUS
<1>2. PICK x : x = Index(sig)  OBVIOUS
<1>3. window' = sig  BY <1>1 DEF CastleProcess, UpdateWindow
<1>4. sig # Zero /\ x \in 0 .. (GhostSize - 1)
  BY <1>1, <1>2, SignatureHasSlot
<1>5. CASE /\ GhostHit(sig)
           /\ served' = << window', ghost[Index(sig)].output >>
           /\ UNCHANGED << ghost, results >>
  <2>1. ghost[x].signature = sig  BY <1>2, <1>5 DEF GhostHit
  <2>2. << sig, ghost[x].output >> \in results  BY <1>4, <2>1 DEF GhostInv
  <2>3. served' \in results'  BY <1>2, <1>3, <1>5, <2>2
  <2>. QED  BY <1>5, <2>3 DEF GhostInv, ServedForItsWindow
<1>6. CASE /\ ghost' = [ghost EXCEPT ![Index(sig)] = [signature |-> sig, output |-> data]]
           /\ results' = {c \in results : c[1] # window'} \cup {<< window', data >>}
           /\ served' = << >>
  <2> DEFINE new == [signature |-> sig, output |-> data]
  <2>1. new.signature = sig /\ new.output = data  OBVIOUS
  <2> HIDE DEF new
  <2>2. ghost' = [ghost EXCEPT ![x] = new]  BY <1>2, <1>6 DEF new
  <2>3. /\ ghost' = [i \in 0 .. (GhostSize - 1) |-> ghost'[i]]
        /\ \A i \in 0 .. (GhostSize - 1) : ghost'[i] = IF i = x THEN new ELSE ghost[i]
    BY <1>4, <2>2 DEF GhostInv
  <2>4. ASSUME NEW i \in 0 .. (GhostSize - 1), ghost'[i].signature # Zero
        PROVE  /\ Index(ghost'[i].signature) = i
               /\ << ghost'[i].signature, ghost'[i].output >> \in results'
    <3>1. CASE i = x
      BY <1>2, <1>3, <1>6, <2>1, <2>3, <3>1
    <3>2. CASE i # x
      <4>1. PICK g : g = ghost[i]  OBVIOUS
      <4>2. ghost'[i] = g  BY <2>3, <3>2, <4>1
      <4>3. Index(g.signature) = i /\ << g.signature, g.output >> \in results
        BY <2>4, <4>1, <4>2 DEF GhostInv
      <4>4. g.signature # window'  BY <1>2, <1>3, <3>2, <4>3
      <4>5. << g.signature, g.output >>[1] # window'  BY <4>4
      <4>6. << g.signature, g.output >> \in results'  BY <1>6, <4>3, <4>5
      <4>. QED  BY <4>2, <4>3, <4>6
    <3>. QED  BY <3>1, <3>2
  <2>5. \A i \in 0 .. (GhostSize - 1) :
          ghost'[i].signature # Zero => Index(ghost'[i].signature) = i
    BY <2>4
  <2>. QED  BY <1>6, <2>3, <2>4, <2>5 DEF GhostInv, ServedForItsWindow, Index
<1>7. CASE served' = << >> /\ UNCHANGED << ghost, results >>
  BY <1>7 DEF GhostInv, ServedForItsWindow
<1>. QED  BY <1>1, <1>5, <1>6, <1>7 DEF CastleProcess

LEMMA CastleStep == CastleInv /\ [CastleNext]_castle => CastleInv'
<1> SUFFICES ASSUME CastleInv, [CastleNext]_castle  PROVE CastleInv'
  OBVIOUS
<1>0. WindowInv /\ GhostInv /\ TraceInv  BY DEF CastleInv
<1>1. ASSUME UNCHANGED << ghost, results >>, served' = << >>  PROVE GhostInv'
  BY <1>0, <1>1 DEF GhostInv, ServedForItsWindow
<1>2. ASSUME UNCHANGED << trace, trace_head, recorded >>  PROVE TraceInv'
  BY <1>0, <1>2 DEF TraceInv
<1>3. ASSUME UNCHANGED << window, window_head >>  PROVE WindowInv'
  BY <1>0, <1>3 DEF WindowInv
<1>4. ASSUME NEW offset \in Offsets, NEW data \in Data, CastleProcess(offset, data)
      PROVE  CastleInv'
  <2>1. GhostInv'  BY <1>0, <1>4, ProcessKeepsGhosts
  <2>2. WindowInv'  BY <1>0, <1>4, WindowMoves DEF CastleProcess
  <2>3. TraceInv'
    BY <1>0, <1>2, <1>4, TraceMoves DEF CastleProcess
  <2>. QED  BY <2>1, <2>2, <2>3 DEF CastleInv
<1>5. ASSUME NEW offset \in Offsets, NEW data \in Data, CastleObserve(offset, data)
      PROVE  CastleInv'
  BY <1>0, <1>1, <1>5, WindowMoves, TraceMoves DEF CastleObserve, CastleInv
<1>6. ASSUME NEW offset \in Offsets, NEW data \in Data, DriftGuardVerify(offset, data)
      PROVE  CastleInv'
  BY <1>1, <1>2, <1>3, <1>6 DEF DriftGuardVerify, CastleInv
<1>7. ASSUME NEW to, SetPhase(to)  PROVE CastleInv'
  BY <1>1, <1>2, <1>3, <1>7 DEF SetPhase, CastleInv
<1>8. CASE UNCHANGED castle
  <2>1. GhostInv'  BY <1>0, <1>8 DEF castle, GhostInv, ServedForItsWindow
  <2>. QED  BY <1>2, <1>3, <1>8, <2>1 DEF castle, CastleInv
<1>. QED  BY <1>4, <1>5, <1>6, <1>7, <1>8 DEF CastleNext

LEMMA TraceTells ==
  ASSUME TraceInv
  PROVE  TraceRemembers
<1> DEFINE n == Len(recorded)
           first == IF n > TraceSize THEN n - TraceSize + 1 ELSE 1
           recent == {recorded[i] : i \in first .. n}
<1> SUFFICES ASSUME NEW offset \in Offsets \ {0}
             PROVE  LET its == {r \in recent : r.offset = offset}
                    IN  /\ (TraceHits(offset) # {}) <=> (its # {})
                        /\ its # {} => TraceLookup(offset) \in its
  BY DEF TraceRemembers
<1> DEFINE its == {r \in recent : r.offset = offset}
<1>1. n \in Nat /\ TraceSize \in Nat \ {0}
  BY CastleAssumption, LenProperties DEF TraceInv
<1>2. /\ trace = [i \in 0 .. (TraceSize - 1) |-> trace[i]]
      /\ \A k \in Nat : Recent(n, k, TraceSize) => trace[(k - 1) % TraceSize] = recorded[k]
      /\ \A i \in 0 .. (TraceSize - 1) :
           \/ n <= i /\ trace[i].offset = 0
           \/ \E k \in Nat : /\ Recent(n, k, TraceSize) /\ (k - 1) % TraceSize = i
                             /\ trace[i] = recorded[k]
  BY DEF TraceInv
<1>3. DOMAIN trace = 0 .. (TraceSize - 1)  BY <1>2
<1> HIDE DEF n
<1>4. \A k : k \in first .. n <=> k \in Nat /\ Recent(n, k, TraceSize)
  BY <1>1 DEF Recent
<1> HIDE DEF first
<1>5. ASSUME NEW i \in TraceHits(offset)  PROVE trace[i] \in its
  <2>1. i \in 0 .. (TraceSize - 1) /\ trace[i].offset = offset /\ offset # 0
    BY <1>3, <1>5 DEF TraceHits
  <2>2. PICK k \in Nat : Recent(n, k, TraceSize) /\ trace[i] = recorded[k]
    BY <1>2, <2>1
  <2>. QED  BY <1>4, <2>1, <2>2
<1>6. ASSUME NEW r \in its  PROVE TraceHits(offset) # {}
  <2>1. PICK k \in first .. n : r = recorded[k]  OBVIOUS
  <2>2. k \in Nat /\ Recent(n, k, TraceSize)  BY <1>4
  <2>3. (k - 1) % TraceSize \in 0 .. (TraceSize - 1)
    <3>1. k - 1 \in Int  BY <2>2
    <3>. QED  BY <1>1, <3>1, Division
  <2>4. trace[(k - 1) % TraceSize] = r  BY <1>2, <2>1, <2>2
  <2>5. r.offset = offset  OBVIOUS
  <2>. QED  BY <1>3, <2>3, <2>4, <2>5 DEF TraceHits
<1>7. ASSUME TraceHits(offset) # {}  PROVE TraceLookup(offset) \in its
  <2>1. TraceHits(offset) \in SUBSET Nat  BY <1>1, <1>3 DEF TraceHits
  <2>2. \E i \in TraceHits(offset) : \A j \in TraceHits(offset) : i <= j
    BY <1>7, <2>1, LeastNat
  <2>3. PICK i : i = CHOOSE x \in TraceHits(offset) : \A j \in TraceHits(offset) : x <= j
    OBVIOUS
  <2>4. i \in TraceHits(offset)  BY <2>2, <2>3, Zenon
  <2>. QED  BY <1>5, <2>3, <2>4 DEF TraceLookup
<1>8. TraceHits(offset) # {} <=> its # {}
  <2> HIDE DEF its
  <2>. QED  BY <1>5, <1>6
<1>. QED  BY <1>7, <1>8

\* The fast path of infinity_castle_process serves the last result computed for the
\* window asked with, and a traced offset is found with a checksum it was recorded
\* with, for any window, trace and table sizes and any calls, drifts and phases.
THEOREM CastleServesAndRemembers == CastleSpec => []CastleRemembers
<1>1. CastleInv => CastleRemembers
  BY TraceTells DEF CastleInv, GhostInv, CastleRemembers
<1>. QED  BY <1>1, CastleInitially, CastleStep, PTL DEF CastleSpec

-----------------------------------------------------------------------------
(* The caches of the evo routers (EvoRouters).  A key is only ever in its own *)
(* bucket, with the result last computed for it, and its epoch is that of its *)
(* last use.                                                                  *)

IsEntry(e) == e = [key |-> e.key, val |-> e.val, epoch |-> e.epoch]

UsedAt(uses, key, c) == {u \in uses : u[1] = key} = {<< key, c >>}

Cites(b, w) ==
  LET e == cache[b][w]
  IN  e.key # NoKey =>
        /\ Bucket(e.key) = b
        /\ << e.key, e.val >> \in computed
        /\ \A v \in Ways \ {w} : cache[b][v].key # e.key
        /\ \E c \in Nat : c <= clock /\ UsedAt(used, e.key, c) /\ (version # 1 => e.epoch = c % EpochMod)

EvoInv ==
  /\ version \in 1 .. 3 /\ clock \in Nat
  /\ cache = [b \in Buckets |-> [w \in Ways |-> cache[b][w]]]
  /\ \A b \in Buckets, w \in Ways : IsEntry(cache[b][w]) /\ Cites(b, w)
  /\ asked = << >> \/ asked \in computed

LEMMA EvoInitially == EvoInit => EvoInv
<1> SUFFICES ASSUME EvoInit  PROVE EvoInv
  OBVIOUS
<1>1. /\ version \in 1 .. 3 /\ cache = [b \in Buckets |-> [w \in Ways |-> Empty]]
      /\ clock = 0 /\ asked = << >>
  BY DEF EvoInit
<1>2. IsEntry(Empty) /\ Empty.key = NoKey  BY DEF IsEntry, Empty
<1>3. \A b \in Buckets, w \in Ways : cache[b][w] = Empty
  BY <1>1
<1>4. cache = [b \in Buckets |-> [w \in Ways |-> cache[b][w]]]
  BY <1>1
<1>. QED  BY <1>1, <1>2, <1>3, <1>4 DEF EvoInv, Cites

LEMMA KeyHasBucket ==
  ASSUME NEW addr \in EvoAddresses
  PROVE  Bucket(Key(addr)) \in Buckets
<1>1. CASE version = 1
  BY <1>1, EvoAssumption DEF Key, Folded
<1>2. CASE version # 1
  BY <1>2, EvoAssumption DEF Key, Folded
<1>. QED  BY <1>1, <1>2

LEMMA VictimIsAWay ==
  ASSUME NEW b \in Buckets
  PROVE  Victim[b] \in Ways
  BY DEF Victim, Ways

\* A key that is looked up in its bucket and not found is in no bucket.
LEMMA Absent ==
  ASSUME EvoInv, NEW key, Hits(key) = {}, NEW b \in Buckets, NEW w \in Ways,
         cache[b][w].key # NoKey
  PROVE  cache[b][w].key # key
<1>1. CASE key = NoKey  BY <1>1
<1>2. CASE key # NoKey
  <2>1. Bucket(cache[b][w].key) = b  BY DEF EvoInv, Cites
  <2>. QED  BY <1>2, <2>1 DEF Hits
<1>. QED  BY <1>1, <1>2

\* What is noted of the key that is used does not touch what is noted of another.
LEMMA OtherUse ==
  ASSUME NEW key, NEW other, other # key, NEW c, NEW now,
         UsedAt(used, other, c), used' = {u \in used : u[1] # key} \cup {<< key, now >>}
  PROVE  UsedAt(used', other, c)
<1>1. \A u : u \in used' /\ u[1] = other <=> u \in used /\ u[1] = other
  BY << key, now >>[1] = key
<1>. QED  BY <1>1 DEF UsedAt

LEMMA OwnUse ==
  ASSUME NEW key, NEW now, used' = {u \in used : u[1] # key} \cup {<< key, now >>}
  PROVE  UsedAt(used', key, now)
<1>1. << key, now >>[1] = key  OBVIOUS
<1>. QED  BY <1>1 DEF UsedAt

LEMMA StoreKeeps ==
  ASSUME EvoInv, NEW key, NEW val, Bucket(key) \in Buckets, Hits(key) = {},
         Store(key, val), version' = version
  PROVE  EvoInv'
<1> DEFINE bk == Bucket(key)
<1>0. /\ version \in 1 .. 3 /\ clock \in Nat /\ Ways' = Ways
      /\ cache = [b \in Buckets |-> [w \in Ways |-> cache[b][w]]]
  BY DEF EvoInv, Ways
<1>1. /\ clock' \in Nat /\ clock <= clock'
      /\ computed' = {c \in computed : c[1] # key} \cup {<< key, val >>}
      /\ asked' = << key, val >>
  BY <1>0 DEF Store
<1>2. asked' \in computed'  BY <1>1
<1>3. ASSUME NEW k, NEW x, << k, x >> \in computed, k # key
      PROVE  << k, x >> \in computed'
  <2>1. << k, x >>[1] = k  OBVIOUS
  <2>. QED  BY <1>1, <1>3, <2>1
<1>4. CASE Refused(key)
  <2>1. cache' = cache /\ used' = used  BY <1>4 DEF Store
  <2>2. ASSUME NEW b \in Buckets, NEW w \in Ways
        PROVE  IsEntry(cache'[b][w]) /\ Cites(b, w)'
    <3>1. IsEntry(cache[b][w]) /\ Cites(b, w)  BY DEF EvoInv
    <3>2. cache[b][w].key # NoKey => cache[b][w].key # key  BY Absent
    <3>3. ASSUME NEW c \in Nat, c <= clock  PROVE c <= clock'
      BY <1>0, <1>1, <3>3
    <3>. QED  BY <1>0, <1>3, <2>1, <3>1, <3>2, <3>3 DEF Cites, UsedAt
  <2>. QED  BY <1>0, <1>1, <1>2, <2>1, <2>2 DEF EvoInv
<1>5. CASE ~Refused(key)
  <2> DEFINE new == [key |-> key, val |-> val,
                     epoch |-> IF version = 1 THEN 0 ELSE clock % EpochMod]
             vi == Victim[bk]
  <2>1. /\ cache' = [cache EXCEPT ![bk] = [cache[bk] EXCEPT ![vi] = new]]
        /\ used' = {u \in used : u[1] # key} \cup {<< key, clock >>}
    BY <1>5 DEF Store
  <2>2. vi \in Ways  BY VictimIsAWay
  <2>3. IsEntry(new) /\ new.key = key /\ new.val = val
        /\ (version # 1 => new.epoch = clock % EpochMod)
    BY DEF IsEntry
  <2> HIDE DEF new, vi, bk
  <2>4. bk \in Buckets  BY DEF bk
  <2>5. \A b \in Buckets, w \in Ways :
          cache'[b][w] = IF b = bk /\ w = vi THEN new ELSE cache[b][w]
    BY <1>0, <2>1, <2>2, <2>4
  <2>6. cache' = [b \in Buckets |-> [w \in Ways |-> cache'[b][w]]]
    BY <1>0, <2>1, <2>2, <2>4
  <2>7. ASSUME NEW b \in Buckets, NEW w \in Ways
        PROVE  IsEntry(cache'[b][w]) /\ Cites(b, w)'
    <3>1. IsEntry(cache[b][w]) /\ Cites(b, w)  BY DEF EvoInv
    <3>2. CASE b = bk /\ w = vi
      <4>1. cache'[b][w] = new  BY <2>5, <3>2
      <4>2. ASSUME key # NoKey  PROVE \A v \in Ways \ {w} : cache'[b][v].key # key
        BY <2>5, <3>2, <4>2 DEF bk, Hits
      <4>3. UsedAt(used', key, clock)  BY <2>1, OwnUse
      <4>4. << key, val >> \in computed'  BY <1>1
      <4>5. ASSUME key # NoKey  PROVE Cites(b, w)'
        BY <1>0, <1>1, <2>3, <3>2, <4>1, <4>2, <4>3, <4>4, <4>5 DEF Cites, bk
      <4>6. ASSUME key = NoKey  PROVE Cites(b, w)'
        BY <2>3, <4>1, <4>6 DEF Cites, NoKey
      <4>. QED  BY <2>3, <4>1, <4>5, <4>6
    <3>3. CASE ~(b = bk /\ w = vi)
      <4> DEFINE e == cache[b][w]
      <4>1. cache'[b][w] = e  BY <2>5, <3>3
      <4>2. ASSUME e.key # NoKey
            PROVE  /\ Bucket(e.key) = b
                   /\ << e.key, e.val >> \in computed'
                   /\ \A v \in Ways \ {w} : cache'[b][v].key # e.key
                   /\ \E c \in Nat : /\ c <= clock' /\ UsedAt(used', e.key, c)
                                     /\ (version # 1 => e.epoch = c % EpochMod)
        <5>1. e.key # key  BY <4>2, Absent
        <5>2. PICK c \in Nat : /\ c <= clock /\ UsedAt(used, e.key, c)
                               /\ (version # 1 => e.epoch = c % EpochMod)
          BY <3>1, <4>2 DEF Cites
        <5>3. UsedAt(used', e.key, c)  BY <2>1, <5>1, <5>2, OtherUse
        <5>4. c <= clock'  BY <1>0, <1>1, <5>2
        <5>5. \A v \in Ways \ {w} : cache'[b][v].key # e.key
          BY <2>3, <2>5, <3>1, <4>2, <5>1 DEF Cites
        <5>6. Bucket(e.key) = b /\ << e.key, e.val >> \in computed'
          BY <1>3, <3>1, <4>2, <5>1 DEF Cites
        <5>. QED  BY <5>2, <5>3, <5>4, <5>5, <5>6
      <4> HIDE DEF e
      <4>3. Cites(b, w)'
        BY <1>0, <4>1, <4>2 DEF Cites, NoKey
      <4>. QED  BY <3>1, <4>1, <4>3 DEF e
    <3>. QED  BY <3>2, <3>3
  <2>. QED  BY <1>0, <1>1, <1>2, <2>6, <2>7 DEF EvoInv
<1>. QED  BY <1>4, <1>5

LEMMA LeastHit ==
  ASSUME NEW key, Hits(key) # {}
  PROVE  (CHOOSE w \in Hits(key) : \A v \in Hits(key) : w <= v) \in Hits(key)
<1>1. Hits(key) \subseteq {0, 1}  BY DEF Hits, Ways
<1>2. \E w \in Hits(key) : \A v \in Hits(key) : w <= v
  <2>1. CASE 0 \in Hits(key)
    <3>1. \A v \in Hits(key) : 0 <= v  BY <1>1
    <3>. QED  BY <2>1, <3>1
  <2>2. CASE 0 \notin Hits(key)
    <3>1. Hits(key) = {1}  BY <1>1, <2>2
    <3>. QED  BY <3>1
  <2>. QED  BY <2>1, <2>2
<1>. QED  BY <1>2, Zenon

\* A hit changes an epoch and nothing else of the cache.
LEMMA CachedKeeps ==
  ASSUME EvoInv, NEW addr \in EvoAddresses, Cached(addr), version' = version
  PROVE  EvoInv'
<1>1. PICK key : key = Key(addr)  OBVIOUS
<1>2. PICK w : w = CHOOSE x \in Hits(key) : \A v \in Hits(key) : x <= v
  OBVIOUS
<1>3. PICK b : b = Bucket(key)  OBVIOUS
<1>4. PICK e : e = cache[b][w]  OBVIOUS
<1>5. /\ Hits(key) # {}
      /\ cache' = [cache EXCEPT ![b] = [cache[b] EXCEPT ![w] = Refreshed(e)]]
      /\ used' = {u \in used : u[1] # key} \cup {<< key, clock >>}
      /\ asked' = << key, e.val >>
      /\ UNCHANGED << clock, fib, lane_load, computed >>
  BY <1>1, <1>2, <1>3, <1>4 DEF Cached
<1>6. w \in Ways /\ b \in Buckets /\ key # NoKey /\ e.key = key
  BY <1>1, <1>2, <1>3, <1>4, <1>5, LeastHit, KeyHasBucket DEF Hits
<1>7. /\ version \in 1 .. 3 /\ clock \in Nat /\ Ways' = Ways
      /\ cache = [x \in Buckets |-> [v \in Ways |-> cache[x][v]]]
  BY DEF EvoInv, Ways
<1>8. IsEntry(e) /\ Cites(b, w)  BY <1>4, <1>6 DEF EvoInv
<1>9. PICK new : new = Refreshed(e)  OBVIOUS
<1>10. IsEntry(new) /\ new.key = key /\ new.val = e.val
       /\ (version # 1 => new.epoch = clock % EpochMod)
  <2>1. CASE version = 1
    BY <1>6, <1>8, <1>9, <2>1 DEF Refreshed
  <2>2. CASE version # 1
    <3>1. new = [[key |-> e.key, val |-> e.val, epoch |-> e.epoch] EXCEPT !.epoch = clock % EpochMod]
      BY <1>8, <1>9, <2>2 DEF Refreshed, IsEntry
    <3>2. new = [key |-> e.key, val |-> e.val, epoch |-> clock % EpochMod]
      BY <3>1
    <3>. QED  BY <1>6, <3>2 DEF IsEntry
  <2>. QED  BY <2>1, <2>2
<1>11. cache' = [cache EXCEPT ![b] = [cache[b] EXCEPT ![w] = new]]
  BY <1>5, <1>9
<1>12. \A x \in Buckets, v \in Ways :
         cache'[x][v] = IF x = b /\ v = w THEN new ELSE cache[x][v]
  BY <1>6, <1>7, <1>11
<1>13. cache' = [x \in Buckets |-> [v \in Ways |-> cache'[x][v]]]
  BY <1>6, <1>7, <1>11
<1>14. asked' \in computed'
  BY <1>4, <1>5, <1>6, <1>8 DEF Cites
<1>15. UsedAt(used', key, clock)  BY <1>5, OwnUse
<1>16. \A x \in Buckets, v \in Ways : cache'[x][v].key = cache[x][v].key
  BY <1>4, <1>6, <1>10, <1>12
<1>17. ASSUME NEW x \in Buckets, NEW v \in Ways
       PROVE  IsEntry(cache'[x][v]) /\ Cites(x, v)'
  <2>1. IsEntry(cache[x][v]) /\ Cites(x, v)  BY DEF EvoInv
  <2>2. CASE x = b /\ v = w
    <3>1. cache'[x][v] = new  BY <1>12, <2>2
    <3>2. /\ Bucket(key) = b /\ << key, new.val >> \in computed'
          /\ \A y \in Ways \ {w} : cache'[b][y].key # key
      BY <1>4, <1>5, <1>6, <1>8, <1>10, <1>16 DEF Cites
    <3>3. /\ clock \in Nat /\ clock <= clock' /\ UsedAt(used', new.key, clock)
          /\ (version' # 1 => new.epoch = clock % EpochMod)
      <4>1. clock' = clock /\ version' = version  BY <1>5
      <4>. QED  BY <1>7, <1>10, <1>15, <4>1
    <3>4. Bucket(new.key) = x /\ \A y \in Ways \ {v} : cache'[x][y].key # new.key
      BY <1>10, <2>2, <3>2
    <3>5. Cites(x, v)'
      BY <1>7, <1>10, <3>1, <3>2, <3>3, <3>4 DEF Cites
    <3>. QED  BY <1>10, <3>1, <3>5
  <2>3. CASE ~(x = b /\ v = w)
    <3>1. PICK f : f = cache[x][v]  OBVIOUS
    <3>2. cache'[x][v] = f  BY <1>12, <2>3, <3>1
    <3>3. ASSUME f.key # NoKey
          PROVE  /\ Bucket(f.key) = x /\ << f.key, f.val >> \in computed'
                 /\ \A y \in Ways \ {v} : cache'[x][y].key # f.key
                 /\ \E c \in Nat : /\ c <= clock' /\ UsedAt(used', f.key, c)
                                   /\ (version # 1 => f.epoch = c % EpochMod)
      <4>1. f.key # key
        <5>1. CASE x = b
          BY <1>6, <1>8, <1>4, <2>3, <3>1, <5>1 DEF Cites
        <5>2. CASE x # b
          BY <1>3, <2>1, <3>1, <3>3, <5>2 DEF Cites
        <5>. QED  BY <5>1, <5>2
      <4>2. PICK c \in Nat : /\ c <= clock /\ UsedAt(used, f.key, c)
                             /\ (version # 1 => f.epoch = c % EpochMod)
        BY <2>1, <3>1, <3>3 DEF Cites
      <4>3. UsedAt(used', f.key, c)  BY <1>5, <4>1, <4>2, OtherUse
      <4>4. /\ Bucket(f.key) = x /\ << f.key, f.val >> \in computed'
            /\ \A y \in Ways \ {v} : cache'[x][y].key # f.key
        BY <1>5, <1>16, <2>1, <3>1, <3>3 DEF Cites
      <4>. QED  BY <1>5, <4>2, <4>3, <4>4
    <3>4. Cites(x, v)'
      BY <1>7, <3>2, <3>3 DEF Cites, NoKey
    <3>. QED  BY <2>1, <3>1, <3>2, <3>4
  <2>. QED  BY <2>2, <2>3
<1>. QED  BY <1>5, <1>7, <1>13, <1>14, <1>17 DEF EvoInv

LEMMA EvoStep == EvoInv /\ [EvoNext]_evo => EvoInv'
<1> SUFFICES ASSUME EvoInv, [EvoNext]_evo  PROVE EvoInv'
  OBVIOUS
<1>1. ASSUME NEW addr \in EvoAddresses, Cached(addr), version' = version  PROVE EvoInv'
  BY <1>1, CachedKeeps
<1>2. ASSUME NEW addr \in EvoAddresses, version' = version,
             Evo1Process(addr) \/ Evo2Process(addr) \/ Evo3Process(addr)
      PROVE  EvoInv'
  <2>1. PICK key : key = Key(addr)  OBVIOUS
  <2>2. Bucket(key) \in Buckets  BY <2>1, KeyHasBucket
  <2>3. Hits(key) = {} /\ \E val : Store(key, val)
    BY <1>2, <2>1 DEF Evo1Process, Evo2Process, Evo3Process
  <2>. QED  BY <1>2, <2>2, <2>3, StoreKeeps
<1>3. CASE UNCHANGED evo
  <2>1. UNCHANGED << version, cache, clock, computed, used, asked >>  BY <1>3 DEF evo
  <2>2. Ways' = Ways  BY <2>1 DEF Ways
  <2>3. ASSUME NEW b \in Buckets, NEW w \in Ways  PROVE IsEntry(cache[b][w]) /\ Cites(b, w)'
    <3>1. IsEntry(cache[b][w]) /\ Cites(b, w)  BY DEF EvoInv
    <3>. QED  BY <2>1, <2>2, <3>1 DEF Cites
  <2>. QED  BY <2>1, <2>2, <2>3 DEF EvoInv
<1>. QED  BY <1>1, <1>2, <1>3 DEF EvoNext

LEMMA EvoHolds == EvoSpec => []EvoInv
  BY EvoInitially, EvoStep, PTL DEF EvoSpec

\* A cached lane is the one last computed for its key, in all three versions, for any
\* hash, any number of buckets and any addresses, folded to the same key or not.
THEOREM CachedLanesStick == EvoSpec => []LanesStick
<1>1. EvoInv => LanesStick  BY DEF EvoInv, Cites, LanesStick
<1>. QED  BY <1>1, EvoHolds, PTL

-----------------------------------------------------------------------------
(* What a store evicts.  The age that a slot shows is how long its key has    *)
(* been idle, up to the width of an epoch.                                    *)

LEMMA AgeIsIdle ==
  ASSUME EvoInv, version # 1, NEW b \in Buckets, NEW w \in Ways, cache[b][w].key # NoKey
  PROVE  /\ Idle(cache[b][w].key) \in Nat
         /\ Age(cache[b][w]) = Idle(cache[b][w].key) % EpochMod
<1> DEFINE key == cache[b][w].key
<1>1. PICK c \in Nat : /\ c <= clock /\ UsedAt(used, key, c)
                       /\ cache[b][w].epoch = c % EpochMod
  BY DEF EvoInv, Cites
<1>2. clock \in Nat /\ EpochMod \in Nat \ {0}  BY EvoAssumption DEF EvoInv
<1> HIDE DEF key
<1>3. Idle(key) = clock - c
  <2> DEFINE last == {u[2] : u \in {v \in used : v[1] = key}}
  <2>1. last = {c}
    <3>1. << key, c >>[2] = c  OBVIOUS
    <3>. QED  BY <1>1, <3>1 DEF UsedAt
  <2> HIDE DEF last
  <2>2. (CHOOSE x \in last : \A y \in last : y <= x) = c
    <3>1. \A x \in last : (\A y \in last : y <= x) <=> x = c
      BY <2>1
    <3>2. \E x \in last : \A y \in last : y <= x
      BY <2>1
    <3>. QED  BY <2>1, <3>1, <3>2
  <2>. QED  BY <2>2 DEF Idle, last
<1>4. Age(cache[b][w]) = (clock - c) % EpochMod
  <2>1. (clock - (c % EpochMod)) % EpochMod = (clock - c) % EpochMod
    <3>1. clock \in Int /\ c \in Int  BY <1>1, <1>2
    <3>. QED  BY <1>2, <3>1, RemainderSub
  <2>. QED  BY <1>1, <2>1 DEF Age
<1>. QED  BY <1>1, <1>2, <1>3, <1>4 DEF key

LEMMA AgeAtMostIdle ==
  ASSUME NEW n \in Nat
  PROVE  /\ n % EpochMod \in Nat /\ n % EpochMod <= n
         /\ n < EpochMod => n % EpochMod = n
<1>1. EpochMod \in Nat \ {0} /\ n \in Int  BY EvoAssumption
<1> DEFINE q == n \div EpochMod
           r == n % EpochMod
<1>2. q \in Int /\ r \in 0 .. (EpochMod - 1) /\ n = EpochMod * q + r  BY <1>1, Division
<1> HIDE DEF q, r
<1>3. q >= 0
  <2> SUFFICES ASSUME q <= -1  PROVE FALSE  BY <1>2
  <2>1. EpochMod * q <= -EpochMod  BY <1>1, <1>2, SMT
  <2> DEFINE y == EpochMod * q
  <2>2. y \in Int  BY <1>1, <1>2
  <2>3. n = y + r /\ y <= -EpochMod  BY <1>2, <2>1
  <2> HIDE DEF y
  <2>. QED  BY <1>1, <1>2, <2>2, <2>3
<1>4. r <= n
  <2>1. EpochMod * q >= 0  BY <1>1, <1>2, <1>3, SMT
  <2> DEFINE y == EpochMod * q
  <2>2. y \in Int /\ n = y + r /\ y >= 0  BY <1>1, <1>2, <2>1
  <2> HIDE DEF y
  <2>. QED  BY <1>2, <2>2
<1>5. n < EpochMod => r = n
  <2> SUFFICES ASSUME n < EpochMod  PROVE r = n
    OBVIOUS
  <2>1. n \in 0 .. (EpochMod - 1)  BY <1>1
  <2>. QED  BY <1>1, <2>1, RemainderSmall DEF r
<1>. QED  BY <1>2, <1>4, <1>5 DEF r

\* A step that writes over a key is a store in the bucket of another.
LEMMA OnlyStoresEvict ==
  ASSUME EvoInv, [EvoNext]_evo, NEW b \in Buckets, NEW w \in Ways,
         cache[b][w].key # NoKey, cache'[b][w].key # cache[b][w].key
  PROVE  \E key : key # cache[b][w].key /\ ~Refused(key) /\ b = Bucket(key) /\ w = Victim[b]
<1>0. cache = [x \in Buckets |-> [v \in Ways |-> cache[x][v]]]  BY DEF EvoInv
<1>1. ASSUME NEW addr \in EvoAddresses, Cached(addr)  PROVE FALSE
  <2>1. PICK key : key = Key(addr)  OBVIOUS
  <2>2. PICK v : v = CHOOSE x \in Hits(key) : \A y \in Hits(key) : x <= y
    OBVIOUS
  <2>3. PICK bk : bk = Bucket(key)  OBVIOUS
  <2>4. PICK e : e = cache[bk][v]  OBVIOUS
  <2>5. /\ Hits(key) # {}
        /\ cache' = [cache EXCEPT ![bk] = [cache[bk] EXCEPT ![v] = Refreshed(e)]]
    BY <1>1, <2>1, <2>2, <2>3, <2>4 DEF Cached
  <2>6. v \in Ways /\ bk \in Buckets
    BY <2>1, <2>2, <2>3, <2>5, LeastHit, KeyHasBucket DEF Hits
  <2>7. IsEntry(e)  BY <2>4, <2>6 DEF EvoInv
  <2>8. Refreshed(e).key = e.key
    <3>1. CASE version = 1  BY <3>1 DEF Refreshed
    <3>2. CASE version # 1
      <4>1. Refreshed(e) = [[key |-> e.key, val |-> e.val, epoch |-> e.epoch]
                              EXCEPT !.epoch = clock % EpochMod]
        BY <2>7, <3>2 DEF Refreshed, IsEntry
      <4>. QED  BY <4>1
    <3>. QED  BY <3>1, <3>2
  <2>9. PICK new : new = Refreshed(e)  OBVIOUS
  <2>10. cache'[b][w] = IF b = bk /\ w = v THEN new ELSE cache[b][w]
    BY <1>0, <2>5, <2>6, <2>9
  <2>. QED  BY <2>4, <2>8, <2>9, <2>10
<1>2. ASSUME NEW addr \in EvoAddresses,
             Evo1Process(addr) \/ Evo2Process(addr) \/ Evo3Process(addr)
      PROVE  \E key : key # cache[b][w].key /\ ~Refused(key) /\ b = Bucket(key) /\ w = Victim[b]
  <2>1. PICK key : key = Key(addr)  OBVIOUS
  <2>2. PICK bk : bk = Bucket(key)  OBVIOUS
  <2>3. bk \in Buckets  BY <2>1, <2>2, KeyHasBucket
  <2>4. PICK val : Hits(key) = {} /\ Store(key, val)
    BY <1>2, <2>1 DEF Evo1Process, Evo2Process, Evo3Process
  <2>5. ~Refused(key)  BY <2>4 DEF Store
  <2>6. PICK v : v = Victim[bk]  OBVIOUS
  <2>7. PICK new : new = [key |-> key, val |-> val,
                          epoch |-> IF version = 1 THEN 0 ELSE clock % EpochMod]
    OBVIOUS
  <2>8. cache' = [cache EXCEPT ![bk] = [cache[bk] EXCEPT ![v] = new]]
    BY <2>2, <2>4, <2>5, <2>6, <2>7 DEF Store
  <2>9. v \in Ways  BY <2>3, <2>6, VictimIsAWay
  <2>10. cache'[b][w] = IF b = bk /\ w = v THEN new ELSE cache[b][w]
    BY <1>0, <2>3, <2>8, <2>9
  <2>11. b = bk /\ w = v  BY <2>10
  <2>12. key # cache[b][w].key  BY <2>7, <2>10, <2>11
  <2>. QED  BY <2>2, <2>5, <2>6, <2>11, <2>12
<1>3. CASE UNCHANGED evo
  BY <1>3 DEF evo
<1>. QED  BY <1>1, <1>2, <1>3 DEF EvoNext

LEMMA EvictionIsIdle ==
  ASSUME EvoInv, [EvoNext]_evo
  PROVE  LosesTheIdle
<1> SUFFICES ASSUME NEW b \in Buckets, NEW w \in Ways,
                    cache[b][w].key # NoKey, cache'[b][w].key # cache[b][w].key
             PROVE  /\ version = 2 => Idle(cache[b][w].key) > AgeMax
                    /\ \A v \in Ways \ {w} :
                         \/ Idle(cache[b][w].key) >= Idle(cache[b][v].key)
                         \/ Idle(cache[b][v].key) >= EpochMod
  BY DEF LosesTheIdle
<1>1. PICK key : key # cache[b][w].key /\ ~Refused(key) /\ b = Bucket(key) /\ w = Victim[b]
  BY OnlyStoresEvict
<1>2. AgeMax \in Nat /\ EpochMod \in Nat \ {0}  BY EvoAssumption
<1>3. ASSUME version = 2  PROVE Idle(cache[b][w].key) > AgeMax
  <2>1. w = 0 /\ cache[b][0].key # NoKey  BY <1>3 DEF Ways
  <2>2. Age(cache[b][0]) > AgeMax \/ ~(Age(cache[b][0]) <= AgeMax)
    BY <1>1, <1>3, <2>1 DEF Refused
  <2> DEFINE n == Idle(cache[b][0].key)
             a == Age(cache[b][0])
  <2>3. n \in Nat /\ a = n % EpochMod  BY <1>3, <2>1, AgeIsIdle
  <2>4. ~(a <= AgeMax)  BY <1>1, <1>3, <2>1 DEF Refused
  <2> HIDE DEF n, a
  <2>5. a \in Nat /\ a <= n  BY <2>3, AgeAtMostIdle
  <2>6. n > AgeMax  BY <1>2, <2>3, <2>4, <2>5
  <2>. QED  BY <2>1, <2>6 DEF n
<1>4. ASSUME NEW v \in Ways \ {w}
      PROVE  \/ Idle(cache[b][w].key) >= Idle(cache[b][v].key)
             \/ Idle(cache[b][v].key) >= EpochMod
  <2>1. version = 3 /\ w \in {0, 1} /\ v \in {0, 1} /\ w # v
    BY <1>4 DEF Ways
  <2>2. cache[b][v].key # NoKey
    BY <1>1, <2>1 DEF Victim
  <2> DEFINE n == Idle(cache[b][w].key)
             m == Idle(cache[b][v].key)
             x == Age(cache[b][w])
             y == Age(cache[b][v])
  <2>3. n \in Nat /\ x = n % EpochMod  BY <2>1, AgeIsIdle
  <2>4. m \in Nat /\ y = m % EpochMod
    <3>1. v \in Ways  OBVIOUS
    <3>. QED  BY <2>1, <2>2, <3>1, AgeIsIdle
  <2>5. x \in Nat /\ y \in Nat  BY <2>3, <2>4, AgeAtMostIdle
  <2>6. y <= x \/ ~(x <= y)
    <3>1. CASE w = 1
      <4>1. v = 0  BY <2>1, <3>1
      <4>. QED  BY <1>1, <2>1, <2>2, <3>1, <4>1 DEF Victim
    <3>2. CASE w = 0
      <4>1. v = 1  BY <2>1, <3>2
      <4>2. ~(Age(cache[b][0]) <= Age(cache[b][1]))
        BY <1>1, <2>1, <2>2, <3>2, <4>1 DEF Victim
      <4>. QED  BY <3>2, <4>1, <4>2
    <3>. QED  BY <2>1, <3>1, <3>2
  <2> HIDE DEF n, m, x, y
  <2>7. y <= x  BY <2>5, <2>6
  <2>8. x <= n /\ (m < EpochMod => y = m)
    BY <2>3, <2>4, AgeAtMostIdle
  <2>9. n >= m \/ m >= EpochMod
    BY <1>2, <2>3, <2>4, <2>5, <2>7, <2>8
  <2>. QED  BY <2>9 DEF n, m
<1>. QED  BY <1>3, <1>4

\* Version 2 gives a slot up only when its key has been idle for more than AgeMax
\* stores; version 3 evicts a key only if the other way of its set has been idle for
\* no more stores than it, ties included, or for 2^16 stores or more, when its 16-bit
\* age has wrapped (pogls_evo_v2.h, pogls_evo_v3.h).
THEOREM EvictionTakesTheIdler == EvoSpec => EvictsTheIdle
<1>1. EvoInv /\ [EvoNext]_evo => [LosesTheIdle]_evo
  BY EvictionIsIdle
<1>. QED  BY <1>1, EvoHolds, PTL DEF EvoSpec, EvictsTheIdle

-----------------------------------------------------------------------------
(* The mesh (Mesh).  Each entry has a cluster, because some seed is nearest.  *)
(* The graph and the tails are described one entry further at each step.      *)

TailState == [addr : [0 .. (TailDepth - 1) -> MeshAddresses \cup {NoEntry}],
         head : 0 .. (TailDepth - 1)]

MeshTypeOK ==
  /\ events \in Seq(MeshAddresses)
  /\ tails \in [Slices \X Clusters -> TailState]
  /\ IsFiniteSet(adj)

MeshInv == MeshTypeOK /\ MeshRemembers

LEMMA SquaresAreNat ==
  ASSUME NEW x \in Int  PROVE x * x \in Nat
<1>1. CASE x >= 0  BY <1>1
<1>2. CASE x < 0
  <2>1. -x \in Nat  BY <1>2
  <2>2. (-x) * (-x) \in Nat  BY <2>1
  <2>3. x * x = (-x) * (-x)  OBVIOUS
  <2>. QED  BY <2>2, <2>3
<1>. QED  BY <1>1, <1>2

LEMMA DistanceIsNat ==
  ASSUME NEW a \in Int, NEW b \in Int, NEW c \in Clusters
  PROVE  Dist2(<< a, b >>, MESH_SEEDS[c]) \in Nat
<1>0. MESH_SEEDS[c] \in Nat \X Nat
  BY MeshAssumption, ElementOfSeq DEF Clusters
<1>1. PICK u \in Nat, v \in Nat : MESH_SEEDS[c] = << u, v >>
  BY <1>0
<1>2. a - u \in Int /\ b - v \in Int  BY <1>1
<1>3. (a - u) * (a - u) \in Nat /\ (b - v) * (b - v) \in Nat
  BY <1>2, SquaresAreNat
<1>. QED  BY <1>1, <1>3 DEF Dist2

\* voronoi_classify finds a cluster for every point.
LEMMA ClassifyFinds ==
  ASSUME NEW a \in Int, NEW b \in Int
  PROVE  Classify(<< a, b >>) \in Clusters
<1> DEFINE p == << a, b >>
           dist(c) == Dist2(p, MESH_SEEDS[c])
           all == {dist(c) : c \in Clusters}
<1>1. Clusters \in SUBSET Nat /\ Clusters # {}
  <2>1. Len(MESH_SEEDS) \in Nat /\ Len(MESH_SEEDS) # 0
    BY MeshAssumption, LenProperties, EmptySeq
  <2>. QED  BY <2>1 DEF Clusters
<1>2. \A c \in Clusters : dist(c) \in Nat
  BY DistanceIsNat
<1> HIDE DEF dist
<1>3. all \in SUBSET Nat /\ all # {}
  BY <1>1, <1>2
<1>4. PICK least \in all : \A d \in all : least <= d
  <2> HIDE DEF all
  <2>. QED  BY <1>3, LeastNat
<1> DEFINE nearest == {c \in Clusters : dist(c) = least}
<1>5. nearest \in SUBSET Nat /\ nearest # {}
  BY <1>1, <1>4
<1>6. PICK c \in nearest : \A d \in nearest : c <= d
  <2> HIDE DEF nearest
  <2>. QED  BY <1>5, LeastNat
<1>7. c \in Clusters /\ dist(c) = least  BY <1>6
<1>8. ASSUME NEW d \in Clusters
      PROVE  \/ dist(c) < dist(d)
             \/ dist(c) = dist(d) /\ c <= d
  <2>1. dist(c) <= dist(d)  BY <1>4, <1>7, <1>8
  <2>2. dist(c) \in Nat /\ dist(d) \in Nat  BY <1>2, <1>7
  <2>3. dist(d) = dist(c) => c <= d  BY <1>6, <1>7
  <2>. QED  BY <2>1, <2>2, <2>3
<1>. QED  BY <1>7, <1>8 DEF Classify, dist

LEMMA ClusterOfIsCluster ==
  ASSUME NEW addr \in MeshAddresses
  PROVE  ClusterOf[addr] \in Clusters
<1> DEFINE m == MeshScale
           x == addr % m
           q == MeshScatter(x, m)
<1>1. m \in Nat \ {0} /\ addr \in Int /\ MeshUp \in Int /\ MeshDown \in Int
  BY MeshAssumption
<1>2. x \in Int  BY <1>1, Division
<1> HIDE DEF x
<1>3. x * MeshUp \in Int /\ x * MeshDown \in Int  BY <1>1, <1>2
<1>4. (x * MeshUp) \div m \in Int /\ (x * MeshDown) \div m \in Int
  BY <1>1, <1>3, Division
<1>5. ((x * MeshUp) \div m) % m \in Int /\ ((x * MeshDown) \div m) % m \in Int
  <2>1. \A z \in Int : z % m \in Int
    <3>1. \A z \in Int : z % m \in 0 .. (m - 1)  BY <1>1, Division
    <3>. QED  BY <1>1, <3>1
  <2> HIDE DEF m
  <2>. QED  BY <1>4, <2>1, Zenon
<1>6. q = << ((x * MeshUp) \div m) % m, ((x * MeshDown) \div m) % m >>
  BY DEF MeshScatter
<1>7. Classify(q) \in Clusters
  <2> HIDE DEF q, m
  <2>. QED  BY <1>5, <1>6, ClassifyFinds
<1>. QED  BY <1>7 DEF ClusterOf, x

\* Half the lanes away is another slice.
LEMMA GhostIsElsewhere ==
  ASSUME NEW addr \in MeshAddresses
  PROVE  SliceOf(addr) \in Slices /\ SliceOf(addr) # GhostLane(addr) \div 18
<1> DEFINE lane == addr % 54
<1>1. lane \in 0 .. 53
  <2>1. addr \in Int  BY MeshAssumption
  <2>. QED  BY <2>1, Division
<1> HIDE DEF lane
<1>2. lane \div 18 \in Slices  BY <1>1 DEF Slices
<1>3. lane \div 18 # ((lane + 27) % 54) \div 18  BY <1>1
<1>. QED  BY <1>2, <1>3 DEF SliceOf, GhostLane, lane

LEMMA PushedIsTail ==
  ASSUME NEW t \in TailState, NEW addr \in MeshAddresses
  PROVE  /\ Pushed(t, addr) \in TailState
         /\ {Pushed(t, addr).addr[i] : i \in 0 .. (TailDepth - 1)} \subseteq
              {t.addr[i] : i \in 0 .. (TailDepth - 1)} \cup {addr}
         /\ \E i \in 0 .. (TailDepth - 1) : Pushed(t, addr).addr[i] = addr
<1>1. PICK x : x = AndBits(t.head, TailDepth - 1)  OBVIOUS
<1>2. x \in 0 .. (TailDepth - 1)  BY <1>1, MeshAssumption DEF TailState
<1>3. t.addr \in [0 .. (TailDepth - 1) -> MeshAddresses \cup {NoEntry}]
  BY DEF TailState
<1>4. (t.head + 1) % TailDepth \in 0 .. (TailDepth - 1)
  <2>1. t.head + 1 \in Int /\ TailDepth \in Nat \ {0}  BY MeshAssumption DEF TailState
  <2>. QED  BY <2>1, Division
<1> DEFINE new == [t.addr EXCEPT ![x] = addr]
<1>5. /\ new \in [0 .. (TailDepth - 1) -> MeshAddresses \cup {NoEntry}]
      /\ \A i \in 0 .. (TailDepth - 1) : new[i] = IF i = x THEN addr ELSE t.addr[i]
  BY <1>2, <1>3
<1>6. Pushed(t, addr) = [addr |-> new, head |-> (t.head + 1) % TailDepth]
  BY <1>1 DEF Pushed
<1> HIDE DEF new
<1>7. Pushed(t, addr).addr = new /\ Pushed(t, addr) \in TailState
  BY <1>4, <1>5, <1>6 DEF TailState
<1>. QED  BY <1>2, <1>5, <1>7

LEMMA MeshInitially == MeshInit => MeshInv
<1> SUFFICES ASSUME MeshInit  PROVE MeshInv
  OBVIOUS
<1>1. events = << >> /\ adj = {} /\ edge_count = 0  BY DEF MeshInit
<1>2. \A i \in DOMAIN events : FALSE  BY <1>1
<1>3. MeshTypeOK
  <2>1. IsFiniteSet({})  BY FS_EmptySet
  <2>2. 0 \in 0 .. (TailDepth - 1)  BY MeshAssumption
  <2>3. [addr |-> [i \in 0 .. (TailDepth - 1) |-> NoEntry], head |-> 0] \in TailState
    BY <2>2 DEF TailState
  <2>. QED  BY <1>1, <2>1, <2>3 DEF MeshInit, MeshTypeOK
<1>4. GraphOfTheEvents
  BY <1>1, <1>2, FS_EmptySet DEF GraphOfTheEvents
<1>5. TailHasNewest
  <2>1. \A s \in Slices, c \in Clusters :
          \A i \in 0 .. (TailDepth - 1) : tails[<< s, c >>].addr[i] = NoEntry
    BY DEF MeshInit
  <2>. QED  BY <1>2, <2>1 DEF TailHasNewest
<1>. QED  BY <1>3, <1>4, <1>5 DEF MeshInv, MeshRemembers

LEMMA IngestKeepsGraph ==
  ASSUME MeshInv, NEW addr \in MeshAddresses, MeshIngest(addr)
  PROVE  GraphOfTheEvents' /\ IsFiniteSet(adj')
<1> DEFINE n == Len(events)
           new == << ClusterOf[addr], GhostCluster[addr] >>
           pairs == {<< ClusterOf[events[i]], GhostCluster[events[i]] >> : i \in DOMAIN events}
           pairs1 == {<< ClusterOf[events'[i]], GhostCluster[events'[i]] >> : i \in DOMAIN events'}
<1>1. events \in Seq(MeshAddresses) /\ IsFiniteSet(adj)
  BY DEF MeshInv, MeshTypeOK
<1>2. adj = {p \in pairs : p[1] # p[2]} /\ edge_count = Cardinality(adj)
  BY DEF MeshInv, MeshRemembers, GraphOfTheEvents
<1>3. AddEdge(ClusterOf[addr], GhostCluster[addr])
  BY GhostIsElsewhere DEF MeshIngest
<1>4. /\ DOMAIN events = 1 .. n /\ DOMAIN events' = 1 .. (n + 1) /\ n \in Nat
      /\ \A i \in 1 .. n : events'[i] = events[i]
      /\ events'[n + 1] = addr
  BY <1>1, AppendProperties, LenProperties DEF MeshIngest
<1> HIDE DEF n
<1>5. pairs1 = pairs \cup {new}
  BY <1>4
<1>6. adj' = {p \in pairs1 : p[1] # p[2]}
  <2>1. adj' = IF new[1] = new[2] THEN adj ELSE adj \cup {new}
    BY <1>3 DEF AddEdge
  <2> HIDE DEF new, pairs, pairs1
  <2>. QED  BY <1>2, <1>5, <2>1
<1>7. IsFiniteSet(adj') /\ edge_count' = Cardinality(adj')
  <2>1. /\ adj' = IF new[1] = new[2] THEN adj ELSE adj \cup {new}
        /\ edge_count' = IF new[1] = new[2] \/ new \in adj THEN edge_count ELSE edge_count + 1
    BY <1>3 DEF AddEdge
  <2>2. /\ IsFiniteSet(adj \cup {new})
        /\ Cardinality(adj \cup {new}) =
             IF new \in adj THEN Cardinality(adj) ELSE Cardinality(adj) + 1
    BY <1>1, FS_AddElement
  <2>3. new \in adj => adj \cup {new} = adj  OBVIOUS
  <2> HIDE DEF new
  <2>. QED  BY <1>1, <1>2, <2>1, <2>2, <2>3
<1> HIDE DEF pairs, pairs1
<1>8. GraphOfTheEvents' = (adj' = {p \in pairs1 : p[1] # p[2]} /\ edge_count' = Cardinality(adj'))
  BY DEF GraphOfTheEvents, pairs1, GhostCluster, ClusterOf
<1>. QED  BY <1>6, <1>7, <1>8

LEMMA IngestKeepsTails ==
  ASSUME MeshInv, NEW addr \in MeshAddresses, MeshIngest(addr)
  PROVE  TailHasNewest' /\ tails' \in [Slices \X Clusters -> TailState]
                        /\ events' \in Seq(MeshAddresses)
<1> DEFINE Is == 0 .. (TailDepth - 1)
<1>1. PICK n, s0, c0 : n = Len(events) /\ s0 = SliceOf(addr) /\ c0 = ClusterOf[addr]
  OBVIOUS
<1>2. /\ events \in Seq(MeshAddresses) /\ tails \in [Slices \X Clusters -> TailState]
      /\ TailHasNewest
  BY DEF MeshInv, MeshTypeOK, MeshRemembers
<1>3. s0 \in Slices /\ c0 \in Clusters /\ addr # NoEntry
  BY <1>1, GhostIsElsewhere, ClusterOfIsCluster, MeshAssumption DEF NoEntry
<1>4. /\ DOMAIN events = 1 .. n /\ DOMAIN events' = 1 .. (n + 1) /\ n \in Nat
      /\ \A i \in 1 .. n : events'[i] = events[i]
      /\ events'[n + 1] = addr
      /\ events' \in Seq(MeshAddresses)
  BY <1>1, <1>2, AppendProperties, LenProperties DEF MeshIngest
<1>5. PICK t : t = tails[<< s0, c0 >>]  OBVIOUS
<1>6. PICK u : u = Pushed(t, addr)  OBVIOUS
<1>7. t \in TailState  BY <1>2, <1>3, <1>5
<1>8. /\ u \in TailState
      /\ {u.addr[i] : i \in Is} \subseteq {t.addr[i] : i \in Is} \cup {addr}
      /\ \E i \in Is : u.addr[i] = addr
  BY <1>6, <1>7, PushedIsTail
<1>9. tails' = [tails EXCEPT ![<< s0, c0 >>] = u]
  BY <1>1, <1>5, <1>6 DEF MeshIngest
<1>10. /\ tails' \in [Slices \X Clusters -> TailState]
       /\ tails'[<< s0, c0 >>] = u
       /\ \A s \in Slices, c \in Clusters :
            << s, c >> # << s0, c0 >> => tails'[<< s, c >>] = tails[<< s, c >>]
  BY <1>2, <1>3, <1>8, <1>9
<1>11. ASSUME NEW s \in Slices, NEW c \in Clusters
       PROVE  LET its == {i \in DOMAIN events' : SliceOf(events'[i]) = s
                                                 /\ ClusterOf[events'[i]] = c}
                  has == {tails'[<< s, c >>].addr[i] : i \in Is} \ {NoEntry}
              IN  /\ has \subseteq {events'[i] : i \in its}
                  /\ \A i \in its : (\A j \in its : j <= i) => events'[i] \in has
  <2> DEFINE its == {i \in DOMAIN events : SliceOf(events[i]) = s /\ ClusterOf[events[i]] = c}
             has == {tails[<< s, c >>].addr[i] : i \in Is} \ {NoEntry}
             its1 == {i \in DOMAIN events' : SliceOf(events'[i]) = s
                                             /\ ClusterOf[events'[i]] = c}
             has1 == {tails'[<< s, c >>].addr[i] : i \in Is} \ {NoEntry}
  <2>1. /\ has \subseteq {events[i] : i \in its}
        /\ \A i \in its : (\A j \in its : j <= i) => events[i] \in has
    BY <1>2 DEF TailHasNewest
  <2>2. \A i \in 1 .. n : i \in its1 <=> i \in its  BY <1>4
  <2>3. n + 1 \in its1 <=> << s, c >> = << s0, c0 >>  BY <1>1, <1>4
  <2>4. its \subseteq 1 .. n /\ its1 \subseteq 1 .. (n + 1)  BY <1>4
  <2>5. CASE << s, c >> = << s0, c0 >>
    <3>1. s = s0 /\ c = c0  BY <2>5
    <3>2. has = {t.addr[i] : i \in Is} \ {NoEntry}  BY <1>5, <3>1
    <3>3. has1 = {u.addr[i] : i \in Is} \ {NoEntry}  BY <1>10, <3>1
    <3>4. has1 \subseteq has \cup {addr} /\ addr \in has1
      BY <1>3, <1>8, <3>2, <3>3
    <3> HIDE DEF has, has1, its, its1
    <3>5. has1 \subseteq {events'[i] : i \in its1}
      <4>1. \A i \in its : i \in its1 /\ events'[i] = events[i]  BY <1>4, <2>2, <2>4
      <4>2. n + 1 \in its1 /\ events'[n + 1] = addr  BY <1>4, <2>3, <2>5
      <4>. QED  BY <2>1, <3>4, <4>1, <4>2
    <3>6. ASSUME NEW i \in its1, \A j \in its1 : j <= i  PROVE events'[i] \in has1
      <4>1. n + 1 <= i  BY <2>3, <2>5, <3>6
      <4>2. i = n + 1  BY <1>4, <2>4, <4>1
      <4>. QED  BY <1>4, <3>4, <4>2
    <3>. QED  BY <3>5, <3>6 DEF has1, its1
  <2>6. CASE << s, c >> # << s0, c0 >>
    <3>1. tails'[<< s, c >>] = tails[<< s, c >>]  BY <1>10, <2>6
    <3>2. has1 = has  BY <3>1
    <3>3. its1 = its
      <4> HIDE DEF its, its1
      <4>1. \A i \in 1 .. (n + 1) : i \in 1 .. n \/ i = n + 1  BY <1>4
      <4>. QED  BY <2>2, <2>3, <2>4, <2>6, <4>1, Zenon
    <3> HIDE DEF has, has1, its, its1
    <3>4. \A i \in its : events'[i] = events[i]  BY <1>4, <2>4
    <3>5. /\ has1 \subseteq {events'[i] : i \in its1}
          /\ \A i \in its1 : (\A j \in its1 : j <= i) => events'[i] \in has1
      BY <2>1, <3>2, <3>3, <3>4
    <3>. QED  BY <3>5 DEF has1, its1
  <2>. QED  BY <2>5, <2>6
<1>12. TailHasNewest'
  BY <1>11 DEF TailHasNewest, SliceOf, ClusterOf
<1>. QED  BY <1>4, <1>10, <1>12

\* The graph is that of the entries ingested, each edge counted once, and each tail
\* has only entries of its slice and cluster, the newest among them, for any seeds,
\* scale, depth and addresses.
THEOREM MeshRemembersItsEvents == MeshSpec => []MeshRemembers
<1>1. MeshInv /\ [MeshNext]_mesh => MeshInv'
  <2> SUFFICES ASSUME MeshInv, [MeshNext]_mesh  PROVE MeshInv'
    OBVIOUS
  <2>1. ASSUME NEW addr \in MeshAddresses, MeshIngest(addr)  PROVE MeshInv'
    BY <2>1, IngestKeepsGraph, IngestKeepsTails DEF MeshInv, MeshTypeOK, MeshRemembers
  <2>2. CASE UNCHANGED mesh
    <3>0. UNCHANGED << adj, edge_count, tails, events >> /\ MeshInv
      BY <2>2 DEF mesh
    <3>1. MeshTypeOK'
      BY <3>0 DEF MeshInv, MeshTypeOK
    <3>2. GraphOfTheEvents'
      BY <3>0 DEF MeshInv, MeshRemembers, GraphOfTheEvents, ClusterOf, GhostCluster
    <3>3. TailHasNewest'
      <4>1. TailHasNewest  BY <3>0 DEF MeshInv, MeshRemembers
      <4>2. ASSUME NEW s \in Slices, NEW c \in Clusters
            PROVE  LET its == {i \in DOMAIN events' : SliceOf(events'[i]) = s
                                                      /\ ClusterOf[events'[i]] = c}
                       has == {tails'[<< s, c >>].addr[i] : i \in 0 .. (TailDepth - 1)}
                                \ {NoEntry}
                   IN  /\ has \subseteq {events'[i] : i \in its}
                       /\ \A i \in its : (\A j \in its : j <= i) => events'[i] \in has
        <5> DEFINE its(es) == {i \in DOMAIN es : SliceOf(es[i]) = s /\ ClusterOf[es[i]] = c}
                   has(ts) == {ts[<< s, c >>].addr[i] : i \in 0 .. (TailDepth - 1)} \ {NoEntry}
        <5>1. /\ has(tails) \subseteq {events[i] : i \in its(events)}
              /\ \A i \in its(events) :
                   (\A j \in its(events) : j <= i) => events[i] \in has(tails)
          BY <4>1 DEF TailHasNewest
        <5>2. PICK es, ts : es = events /\ ts = tails  OBVIOUS
        <5>3. events' = es /\ tails' = ts  BY <3>0, <5>2
        <5>4. /\ has(ts) \subseteq {es[i] : i \in its(es)}
              /\ \A i \in its(es) : (\A j \in its(es) : j <= i) => es[i] \in has(ts)
          <6> HIDE DEF its, has
          <6>. QED  BY <5>1, <5>2
        <5>. QED  BY <5>3, <5>4
      <4>. QED  BY <4>2 DEF TailHasNewest, ClusterOf, SliceOf
    <3>. QED  BY <3>1, <3>2, <3>3 DEF MeshInv, MeshRemembers
  <2>. QED  BY <2>1, <2>2 DEF MeshNext
<1>. QED  BY <1>1, MeshInitially, PTL DEF MeshSpec, MeshInv

-----------------------------------------------------------------------------
(* The ring before the cluster engine (MeshEntryBuf).  Indices are numbered   *)
(* from the first: entry n has index n - 1, however often they have wrapped.  *)
(* Each thread may store tail over what the other stored, and back: of an     *)
(* entry behind tail that is still among the newest it is said that it was    *)
(* popped, of one behind the tail that either thread holds the same.          *)

Ix(i)     == (BufFirst + i) % Indices
SlotOf(i) == (BufFirst + i) % BufSize

Writing == IF producer \in {"idle", "full"} THEN 0 ELSE 1

\* The entries that no slot being written has replaced.
Newest(n) == n \in 1 .. buf_pushed /\ n > buf_pushed - BufSize + Writing

BufBase ==
  /\ buf_pushed \in 0 .. MaxEntries /\ buf_head = Ix(buf_pushed)
  /\ producer \in {"write", "publish"} => buf_pushed < MaxEntries
  /\ producer = "full" => buf_pushed < MaxEntries
  /\ producer \in {"idle", "full", "write", "publish"}
  /\ consumer \in {"idle", "seen", "copy", "release"}
  /\ popped \in Seq(Int) /\ copied \in Int /\ overflows \in Nat
  /\ buf_ring \in [0 .. (BufSize - 1) -> Int]

RingInv == \A n \in Nat : Newest(n) => buf_ring[SlotOf(n - 1)] = n

WasPopped(n) == \E i \in DOMAIN popped : popped[i] = n

TailInv ==
  \E t \in 0 .. buf_pushed :
    /\ buf_tail = Ix(t)
    /\ \A n \in Nat : Newest(n) =>
         n > t \/ WasPopped(n) \/ (consumer = "release" /\ copied = n)

ProducerInv ==
  producer = "full" =>
    \E l \in 0 .. buf_pushed : loaded = Ix(l) /\ buf_pushed - l >= BufSize

ConsumerInv ==
  consumer # "idle" =>
    \E a \in 0 .. buf_pushed :
      /\ at = Ix(a)
      /\ \A n \in Nat : Newest(n) /\ n <= a => WasPopped(n)
      /\ consumer \in {"copy", "release"} => a < buf_pushed
      /\ consumer = "release" /\ Newest(a + 1) => copied = a + 1

\* Until the ring is full for the first time tail is the consumer's alone.
OrderInv ==
  overflows = 0 /\ producer # "full" =>
    LET k == Len(popped)
    IN  /\ popped = [i \in 1 .. k |-> i]
        /\ k <= buf_pushed /\ buf_pushed - k <= BufSize - Writing
        /\ buf_tail = Ix(k)
        /\ consumer # "idle" => at = Ix(k)
        /\ consumer \in {"copy", "release"} => k < buf_pushed
        /\ consumer = "release" => copied = k + 1

BufInv == BufBase /\ RingInv /\ TailInv /\ ProducerInv /\ ConsumerInv /\ OrderInv

LEMMA BufNumbers ==
  /\ Indices \in Nat \ {0} /\ BufSize \in Nat \ {0} /\ BufLaps \in Nat \ {0}
  /\ Indices = BufLaps * BufSize /\ BufSize < Indices
  /\ BufFirst \in Nat /\ MaxEntries \in Nat
<1>1. BufSize \in Nat \ {0} /\ BufLaps \in Nat /\ BufLaps >= 2
  BY BufAssumption
<1>2. Indices = BufSize * BufLaps /\ Indices = BufLaps * BufSize
  BY <1>1 DEF Indices
<1>3. BufSize * BufLaps >= BufSize * 2  BY <1>1
<1>. QED  BY <1>1, <1>2, <1>3, BufAssumption

LEMMA IxNext ==
  ASSUME NEW i \in Nat
  PROVE  After(Ix(i)) = Ix(i + 1)
<1>1. PICK x : x = BufFirst + i  OBVIOUS
<1>2. x \in Int /\ 1 \in Int /\ x + 1 = BufFirst + (i + 1)  BY <1>1, BufNumbers
<1>3. ((x % Indices) + 1) % Indices = (x + 1) % Indices
  BY <1>2, BufNumbers, RemainderAdd
<1>. QED  BY <1>1, <1>2, <1>3 DEF After, Ix

LEMMA IxSlot ==
  ASSUME NEW i \in Nat
  PROVE  Ix(i) % BufSize = SlotOf(i) /\ SlotOf(i) \in 0 .. (BufSize - 1)
<1>1. BufFirst + i \in Int  BY BufNumbers
<1>. QED  BY <1>1, BufNumbers, RemainderOfRemainder, Division DEF Ix, SlotOf

LEMMA SlotsDiffer ==
  ASSUME NEW i \in Nat, NEW j \in Nat, i # j, i - j < BufSize, j - i < BufSize
  PROVE  SlotOf(i) # SlotOf(j)
<1> DEFINE x == BufFirst + i
           y == BufFirst + j
<1>1. x \in Int /\ y \in Int /\ x # y /\ x - y < BufSize /\ y - x < BufSize
  BY BufNumbers
<1> HIDE DEF x, y
<1>. QED  BY <1>1, BufNumbers, RemainderDistinct DEF SlotOf, x, y

LEMMA IxDistance ==
  ASSUME NEW i \in Nat, NEW j \in Nat, j - i \in 0 .. (Indices - 1)
  PROVE  (Ix(j) - Ix(i)) % Indices = j - i
<1> DEFINE x == BufFirst + i
           y == BufFirst + j
<1>1. x \in Int /\ y \in Int /\ y - x = j - i
  BY BufNumbers
<1> HIDE DEF x, y
<1>2. ((y % Indices) - (x % Indices)) % Indices = y - x
  BY <1>1, BufNumbers, RemainderDistance
<1>. QED  BY <1>1, <1>2 DEF Ix, x, y

LEMMA FullMeansFull ==
  ASSUME NEW i \in Nat, NEW j \in Nat, i <= j, (Ix(j) - Ix(i)) % Indices >= BufSize
  PROVE  j - i >= BufSize
<1> SUFFICES ASSUME j - i < BufSize  PROVE FALSE
  BY BufNumbers
<1>1. j - i \in 0 .. (Indices - 1)  BY BufNumbers
<1>2. (Ix(j) - Ix(i)) % Indices = j - i  BY <1>1, IxDistance
<1>. QED  BY <1>2, BufNumbers

LEMMA BufInitially == BufInit => BufInv
<1> SUFFICES ASSUME BufInit  PROVE BufInv
  OBVIOUS
<1>1. buf_pushed = 0 /\ popped = << >> /\ producer = "idle" /\ consumer = "idle"
      /\ overflows = 0 /\ copied = 0 /\ buf_tail = buf_head
  BY DEF BufInit
<1>2. buf_head = Ix(0)
  <2>1. BufFirst + 0 = BufFirst  BY BufNumbers
  <2>. QED  BY <2>1 DEF BufInit, Ix
<1>3. Len(popped) = 0 /\ popped \in Seq(Int) /\ popped = [i \in 1 .. 0 |-> i]
  BY <1>1
<1>4. BufBase
  BY <1>1, <1>2, <1>3, BufNumbers DEF BufBase, BufInit
<1>5. \A n \in Nat : ~Newest(n)
  BY <1>1 DEF Newest
<1>6. TailInv
  <2>1. 0 \in 0 .. buf_pushed /\ buf_tail = Ix(0)  BY <1>1, <1>2
  <2>. QED  BY <1>5, <2>1 DEF TailInv
<1>7. OrderInv
  BY <1>1, <1>2, <1>3, BufNumbers DEF OrderInv, Writing
<1>. QED  BY <1>1, <1>4, <1>5, <1>6, <1>7 DEF BufInv, RingInv, ProducerInv, ConsumerInv

-----------------------------------------------------------------------------
(* The producer.                                                              *)

LEMMA LoadTailKeeps == BufInv /\ LoadTail => BufInv'
<1> SUFFICES ASSUME BufInv, LoadTail  PROVE BufInv'
  OBVIOUS
<1> USE DEF LoadTail, consumerState
<1>0. BufBase /\ RingInv /\ TailInv /\ ConsumerInv /\ OrderInv  BY DEF BufInv
<1>1. buf_pushed \in Nat /\ buf_head = Ix(buf_pushed) /\ buf_pushed < MaxEntries
  BY <1>0, BufNumbers DEF BufBase
<1>2. \A n : Newest(n)' => Newest(n)
  BY <1>1, BufNumbers DEF Newest, Writing
<1>3. BufBase'
  BY <1>0 DEF BufBase, Ix, Indices
<1>4. RingInv'
  BY <1>0, <1>2 DEF RingInv, SlotOf
<1>5. TailInv'
  BY <1>0, <1>2 DEF TailInv, WasPopped, Ix, Indices
<1>6. ConsumerInv'
  BY <1>0, <1>2 DEF ConsumerInv, WasPopped, Ix, Indices
<1>7. PICK t \in 0 .. buf_pushed : buf_tail = Ix(t)
  BY <1>0 DEF TailInv
<1>8. FullAt(buf_tail) => buf_pushed - t >= BufSize
  <2>1. t \in Nat /\ t <= buf_pushed  BY <1>1
  <2>. QED  BY <1>1, <1>7, <2>1, FullMeansFull DEF FullAt
<1>9. ProducerInv'
  <2>1. producer' = "full" => FullAt(buf_tail)  OBVIOUS
  <2>2. loaded' = Ix(t) /\ buf_pushed' = buf_pushed  BY <1>7
  <2>. QED  BY <1>8, <2>1, <2>2 DEF ProducerInv, Ix, Indices
<1>10. OrderInv'
  <2> SUFFICES ASSUME overflows = 0, producer' # "full"  PROVE OrderInv'
    BY DEF OrderInv
  <2> DEFINE k == Len(popped)
  <2>1. producer = "idle" /\ ~FullAt(buf_tail) /\ producer' = "write"  OBVIOUS
  <2>2. k \in Nat /\ BufSize \in Nat  BY <1>0, BufNumbers, LenProperties DEF BufBase
  <2>3. k <= buf_pushed /\ buf_pushed - k <= BufSize /\ buf_tail = Ix(k)
    BY <1>0, <1>1, <2>1, <2>2, BufNumbers DEF OrderInv, Writing
  <2>4. buf_pushed - k <= BufSize - 1
    <3> HIDE DEF k
    <3>1. buf_pushed - k \in 0 .. (Indices - 1)  BY <1>1, <2>2, <2>3, BufNumbers
    <3>2. (buf_head - buf_tail) % Indices = buf_pushed - k
      BY <1>1, <2>2, <2>3, <3>1, IxDistance
    <3>. QED  BY <1>1, <2>1, <2>2, <3>2 DEF FullAt
  <2>. QED  BY <1>0, <2>1, <2>4 DEF OrderInv, Writing, Ix, Indices
<1>. QED  BY <1>3, <1>4, <1>5, <1>6, <1>9, <1>10 DEF BufInv

LEMMA GiveUpOldestKeeps == BufInv /\ GiveUpOldest => BufInv'
<1> SUFFICES ASSUME BufInv, GiveUpOldest  PROVE BufInv'
  OBVIOUS
<1> USE DEF GiveUpOldest, consumerState
<1>0. BufBase /\ RingInv /\ ProducerInv /\ ConsumerInv  BY DEF BufInv
<1>1. buf_pushed \in Nat  BY <1>0, BufNumbers DEF BufBase
<1>2. \A n : Newest(n)' => Newest(n) /\ n > buf_pushed - BufSize + 1
  BY <1>1, BufNumbers DEF Newest, Writing
<1>3. BufBase'
  BY <1>0 DEF BufBase, Ix, Indices
<1>4. RingInv'
  BY <1>0, <1>2 DEF RingInv, SlotOf
<1>5. TailInv'
  <2>1. PICK l \in 0 .. buf_pushed : loaded = Ix(l) /\ buf_pushed - l >= BufSize
    BY <1>0 DEF ProducerInv
  <2>2. l + 1 \in 0 .. buf_pushed /\ l \in Nat  BY <1>1, <2>1, BufNumbers
  <2>3. buf_tail' = Ix(l + 1)  BY <2>1, <2>2, IxNext
  <2>4. \A n \in Nat : Newest(n)' => n > l + 1
    <3>1. \A n \in Nat : n > buf_pushed - BufSize + 1 => n > l + 1
      BY <1>1, <2>1, BufNumbers
    <3>. QED  BY <1>2, <3>1
  <2>. QED  BY <2>2, <2>3, <2>4 DEF TailInv, Ix, Indices
<1>6. ProducerInv'
  BY DEF ProducerInv
<1>7. ConsumerInv'
  BY <1>0, <1>2 DEF ConsumerInv, WasPopped, Ix, Indices
<1>8. OrderInv'
  <2>1. overflows' # 0  BY <1>0 DEF BufBase
  <2>. QED  BY <2>1 DEF OrderInv
<1>. QED  BY <1>3, <1>4, <1>5, <1>6, <1>7, <1>8 DEF BufInv

\* The slot of the entry to come is not that of a newest one.
LEMMA OtherSlot ==
  ASSUME NEW p \in Nat, NEW n \in 1 .. p, n > p - BufSize + 1
  PROVE  SlotOf(n - 1) # SlotOf(p)
<1>1. n - 1 \in Nat /\ n - 1 # p /\ (n - 1) - p < BufSize /\ p - (n - 1) < BufSize
  BY BufNumbers
<1>. QED  BY <1>1, SlotsDiffer

LEMMA WriteSlotKeeps == BufInv /\ WriteSlot => BufInv'
<1> SUFFICES ASSUME BufInv, WriteSlot  PROVE BufInv'
  OBVIOUS
<1> USE DEF WriteSlot, consumerState
<1>0. BufBase /\ RingInv /\ TailInv /\ ConsumerInv /\ OrderInv  BY DEF BufInv
<1>1. buf_pushed \in Nat /\ buf_head = Ix(buf_pushed)
  BY <1>0, BufNumbers DEF BufBase
<1>2. \A n : Newest(n)' <=> Newest(n)
  BY DEF Newest, Writing
<1>3. buf_ring' = [buf_ring EXCEPT ![SlotOf(buf_pushed)] = Torn]
  BY <1>1, IxSlot
<1>4. BufBase'
  <2>1. buf_ring' \in [0 .. (BufSize - 1) -> Int]
    <3>1. buf_ring \in [0 .. (BufSize - 1) -> Int]  BY <1>0 DEF BufBase
    <3>2. Torn \in Int  BY DEF Torn
    <3>. QED  BY <1>3, <3>1, <3>2
  <2>. QED  BY <1>0, <2>1 DEF BufBase, Ix, Indices
<1>5. RingInv'
  <2>1. ASSUME NEW n \in Nat, Newest(n)'  PROVE buf_ring'[SlotOf(n - 1)] = n
    <3>1. Newest(n) /\ n \in 1 .. buf_pushed /\ n > buf_pushed - BufSize + 1
      BY <1>2, <2>1 DEF Newest, Writing
    <3>2. SlotOf(n - 1) # SlotOf(buf_pushed)  BY <1>1, <3>1, OtherSlot
    <3>3. n - 1 \in Nat  BY <1>1, <3>1
    <3>4. SlotOf(n - 1) \in 0 .. (BufSize - 1)  BY <3>3, IxSlot
    <3>5. buf_ring[SlotOf(n - 1)] = n  BY <1>0, <3>1 DEF RingInv
    <3>6. buf_ring \in [0 .. (BufSize - 1) -> Int]  BY <1>0 DEF BufBase
    <3>. QED  BY <1>3, <3>2, <3>4, <3>5, <3>6
  <2>. QED  BY <2>1 DEF RingInv, SlotOf
<1>6. TailInv'
  BY <1>0, <1>2 DEF TailInv, WasPopped, Ix, Indices
<1>7. ConsumerInv'
  BY <1>0, <1>2 DEF ConsumerInv, WasPopped, Ix, Indices
<1>8. ProducerInv' /\ OrderInv'
  BY <1>0 DEF ProducerInv, OrderInv, Writing, Ix, Indices
<1>. QED  BY <1>4, <1>5, <1>6, <1>7, <1>8 DEF BufInv

LEMMA PublishKeeps == BufInv /\ Publish => BufInv'
<1> SUFFICES ASSUME BufInv, Publish  PROVE BufInv'
  OBVIOUS
<1> USE DEF Publish, consumerState
<1>0. BufBase /\ RingInv /\ TailInv /\ ConsumerInv /\ OrderInv  BY DEF BufInv
<1>1. buf_pushed \in Nat /\ buf_head = Ix(buf_pushed) /\ buf_pushed < MaxEntries
      /\ buf_pushed + 1 \in Nat
  BY <1>0, BufNumbers DEF BufBase
<1>2. \A n \in Nat : Newest(n)' <=> Newest(n) \/ n = buf_pushed + 1
  BY <1>1, BufNumbers DEF Newest, Writing
<1>3. buf_ring' = [buf_ring EXCEPT ![SlotOf(buf_pushed)] = buf_pushed + 1]
  BY <1>1, IxSlot
<1>4. BufBase'
  <2>1. buf_ring' \in [0 .. (BufSize - 1) -> Int]
    <3>1. buf_ring \in [0 .. (BufSize - 1) -> Int]  BY <1>0 DEF BufBase
    <3>2. buf_pushed + 1 \in Int  BY <1>1
    <3>. QED  BY <1>3, <3>1, <3>2
  <2>2. buf_head' = Ix(buf_pushed + 1)  BY <1>1, IxNext
  <2>3. buf_pushed' \in 0 .. MaxEntries  BY <1>1, BufNumbers
  <2>. QED  BY <1>0, <2>1, <2>2, <2>3 DEF BufBase, Ix, Indices
<1>5. RingInv'
  <2>0. SlotOf(buf_pushed) \in 0 .. (BufSize - 1)  BY <1>1, IxSlot
  <2>6. buf_ring \in [0 .. (BufSize - 1) -> Int]  BY <1>0 DEF BufBase
  <2>1. ASSUME NEW n \in Nat, Newest(n)'  PROVE buf_ring'[SlotOf(n - 1)] = n
    <3>1. CASE n = buf_pushed + 1
      <4>1. n - 1 = buf_pushed  BY <1>1, <3>1
      <4>. QED  BY <1>3, <2>0, <2>6, <3>1, <4>1
    <3>2. CASE Newest(n)
      <4>1. n \in 1 .. buf_pushed /\ n > buf_pushed - BufSize + 1
        BY <3>2 DEF Newest, Writing
      <4>2. SlotOf(n - 1) # SlotOf(buf_pushed)  BY <1>1, <4>1, OtherSlot
      <4>3. n - 1 \in Nat  BY <1>1, <4>1
      <4>4. SlotOf(n - 1) \in 0 .. (BufSize - 1)  BY <4>3, IxSlot
      <4>5. buf_ring[SlotOf(n - 1)] = n  BY <1>0, <3>2 DEF RingInv
      <4>. QED  BY <1>3, <2>6, <4>2, <4>4, <4>5
    <3>. QED  BY <1>2, <2>1, <3>1, <3>2
  <2>. QED  BY <2>1 DEF RingInv, SlotOf
<1>6. TailInv'
  <2>1. PICK t \in 0 .. buf_pushed :
          /\ buf_tail = Ix(t)
          /\ \A n \in Nat : Newest(n) =>
               n > t \/ WasPopped(n) \/ (consumer = "release" /\ copied = n)
    BY <1>0 DEF TailInv
  <2>2. t \in 0 .. (buf_pushed + 1) /\ buf_pushed + 1 > t  BY <1>1
  <2>3. \A n \in Nat : Newest(n)' =>
          n > t \/ WasPopped(n) \/ (consumer = "release" /\ copied = n)
    BY <1>2, <2>1, <2>2
  <2>. QED  BY <2>1, <2>2, <2>3 DEF TailInv, WasPopped, Ix, Indices
<1>7. ConsumerInv'
  <2> SUFFICES ASSUME consumer # "idle"  PROVE ConsumerInv'
    BY DEF ConsumerInv
  <2>1. PICK a \in 0 .. buf_pushed :
          /\ at = Ix(a)
          /\ \A n \in Nat : Newest(n) /\ n <= a => WasPopped(n)
          /\ consumer \in {"copy", "release"} => a < buf_pushed
          /\ consumer = "release" /\ Newest(a + 1) => copied = a + 1
    BY <1>0 DEF ConsumerInv
  <2>2. a \in 0 .. (buf_pushed + 1) /\ ~(buf_pushed + 1 <= a) /\ a + 1 \in Nat  BY <1>1
  <2>3. \A n \in Nat : Newest(n)' /\ n <= a => WasPopped(n)
    BY <1>2, <2>1, <2>2
  <2>4. consumer \in {"copy", "release"} => a < buf_pushed + 1 /\ a + 1 # buf_pushed + 1
    BY <1>1, <2>1
  <2>5. consumer = "release" /\ Newest(a + 1)' => copied = a + 1
    BY <1>2, <2>1, <2>2, <2>4
  <2>. QED  BY <2>1, <2>2, <2>3, <2>4, <2>5 DEF ConsumerInv, WasPopped, Ix, Indices
<1>8. ProducerInv'
  BY DEF ProducerInv
<1>9. OrderInv'
  <2> SUFFICES ASSUME overflows = 0  PROVE OrderInv'
    BY DEF OrderInv
  <2> DEFINE k == Len(popped)
  <2>1. k \in Nat  BY <1>0, LenProperties DEF BufBase
  <2>2. /\ popped = [i \in 1 .. k |-> i]
        /\ k <= buf_pushed /\ buf_pushed - k <= BufSize - 1
        /\ buf_tail = Ix(k)
        /\ consumer # "idle" => at = Ix(k)
        /\ consumer \in {"copy", "release"} => k < buf_pushed
        /\ consumer = "release" => copied = k + 1
    BY <1>0 DEF OrderInv, Writing
  <2> HIDE DEF k
  <2>3. /\ k <= buf_pushed + 1 /\ (buf_pushed + 1) - k <= BufSize - 0
        /\ consumer \in {"copy", "release"} => k < buf_pushed + 1
    BY <1>1, <2>1, <2>2, BufNumbers
  <2>. QED  BY <2>2, <2>3 DEF OrderInv, Writing, Ix, Indices, k
<1>. QED  BY <1>4, <1>5, <1>6, <1>7, <1>8, <1>9 DEF BufInv

-----------------------------------------------------------------------------
(* The consumer.                                                              *)

LEMMA LoadOwnTailKeeps == BufInv /\ LoadOwnTail => BufInv'
<1> SUFFICES ASSUME BufInv, LoadOwnTail  PROVE BufInv'
  OBVIOUS
<1> USE DEF LoadOwnTail, producerState
<1>0. BufBase /\ RingInv /\ TailInv /\ ProducerInv /\ OrderInv  BY DEF BufInv
<1>2. \A n : Newest(n)' <=> Newest(n)
  BY DEF Newest, Writing
<1>3. BufBase' /\ RingInv' /\ ProducerInv' /\ OrderInv'
  BY <1>0, <1>2 DEF BufBase, RingInv, ProducerInv, OrderInv, Writing, SlotOf, Ix, Indices
<1>4. PICK t \in 0 .. buf_pushed :
        /\ buf_tail = Ix(t)
        /\ \A n \in Nat : Newest(n) => n > t \/ WasPopped(n)
  BY <1>0 DEF TailInv
<1>5. TailInv'
  BY <1>2, <1>4 DEF TailInv, WasPopped, Ix, Indices
<1>6. ConsumerInv'
  <2>1. \A n \in Nat : Newest(n) /\ n <= t => WasPopped(n)
    <3>1. buf_pushed \in Nat  BY <1>0, BufNumbers DEF BufBase
    <3>2. \A n \in Nat : n <= t => ~(n > t)  BY <3>1
    <3>. QED  BY <1>4, <3>2
  <2>. QED  BY <1>2, <1>4, <2>1 DEF ConsumerInv, WasPopped, Ix, Indices
<1>. QED  BY <1>3, <1>5, <1>6 DEF BufInv

LEMMA TestEmptyKeeps == BufInv /\ TestEmpty => BufInv'
<1> SUFFICES ASSUME BufInv, TestEmpty  PROVE BufInv'
  OBVIOUS
<1> USE DEF TestEmpty, producerState
<1>0. BufBase /\ RingInv /\ TailInv /\ ProducerInv /\ ConsumerInv /\ OrderInv
  BY DEF BufInv
<1>1. buf_pushed \in Nat /\ buf_head = Ix(buf_pushed)
  BY <1>0, BufNumbers DEF BufBase
<1>2. \A n : Newest(n)' <=> Newest(n)
  BY DEF Newest, Writing
<1>3. BufBase' /\ RingInv' /\ ProducerInv' /\ TailInv'
  BY <1>0, <1>2
  DEF BufBase, RingInv, ProducerInv, TailInv, WasPopped, SlotOf, Ix, Indices
<1>4. ConsumerInv'
  <2> SUFFICES ASSUME at # buf_head  PROVE ConsumerInv'
    BY DEF ConsumerInv
  <2>1. PICK a \in 0 .. buf_pushed :
          /\ at = Ix(a)
          /\ \A n \in Nat : Newest(n) /\ n <= a => WasPopped(n)
    BY <1>0 DEF ConsumerInv
  <2>2. a # buf_pushed  BY <1>1, <2>1
  <2>3. a < buf_pushed  BY <1>1, <2>2
  <2>. QED  BY <1>2, <2>1, <2>3 DEF ConsumerInv, WasPopped, Ix, Indices
<1>5. OrderInv'
  <2> SUFFICES ASSUME overflows = 0, producer # "full"  PROVE OrderInv'
    BY DEF OrderInv
  <2> DEFINE k == Len(popped)
  <2>1. k \in Nat  BY <1>0, LenProperties DEF BufBase
  <2>2. k <= buf_pushed /\ at = Ix(k)  BY <1>0 DEF OrderInv
  <2>3. at # buf_head => k < buf_pushed
    <3> HIDE DEF k
    <3>. QED  BY <1>1, <2>1, <2>2
  <2>. QED  BY <1>0, <2>3 DEF OrderInv, Writing, Ix, Indices
<1>. QED  BY <1>3, <1>4, <1>5 DEF BufInv

LEMMA CopyEntryKeeps == BufInv /\ CopyEntry => BufInv'
<1> SUFFICES ASSUME BufInv, CopyEntry  PROVE BufInv'
  OBVIOUS
<1> USE DEF CopyEntry, producerState
<1>0. BufBase /\ RingInv /\ TailInv /\ ProducerInv /\ ConsumerInv /\ OrderInv
  BY DEF BufInv
<1>1. buf_pushed \in Nat  BY <1>0, BufNumbers DEF BufBase
<1>2. \A n : Newest(n)' <=> Newest(n)
  BY DEF Newest, Writing
<1>3. PICK a \in 0 .. buf_pushed :
        /\ at = Ix(a)
        /\ \A n \in Nat : Newest(n) /\ n <= a => WasPopped(n)
        /\ a < buf_pushed
  BY <1>0 DEF ConsumerInv
<1>4. a \in Nat /\ a + 1 \in Nat /\ (a + 1) - 1 = a  BY <1>1
<1>5. copied' = buf_ring[SlotOf(a)] /\ SlotOf(a) \in 0 .. (BufSize - 1)
  BY <1>3, <1>4, IxSlot
<1>6. Newest(a + 1) => copied' = a + 1
  BY <1>0, <1>4, <1>5 DEF RingInv
<1>7. BufBase'
  <2>1. copied' \in Int  BY <1>0, <1>5 DEF BufBase
  <2>. QED  BY <1>0, <2>1 DEF BufBase, Ix, Indices
<1>8. RingInv' /\ ProducerInv' /\ TailInv'
  BY <1>0, <1>2 DEF RingInv, ProducerInv, TailInv, WasPopped, SlotOf, Ix, Indices
<1>9. ConsumerInv'
  BY <1>2, <1>3, <1>6 DEF ConsumerInv, WasPopped, Ix, Indices
<1>10. OrderInv'
  <2> SUFFICES ASSUME overflows = 0, producer # "full"  PROVE OrderInv'
    BY DEF OrderInv
  <2> DEFINE k == Len(popped)
  <2>1. k \in Nat  BY <1>0, LenProperties DEF BufBase
  <2>2. /\ k < buf_pushed /\ at = Ix(k) /\ buf_pushed - k <= BufSize - Writing
        /\ Writing \in {0, 1}
    BY <1>0 DEF OrderInv, Writing
  <2>3. copied' = k + 1
    <3> HIDE DEF k
    <3>1. k + 1 \in Nat /\ (k + 1) - 1 = k  BY <2>1
    <3>2. Newest(k + 1)
      <4>1. k + 1 \in 1 .. buf_pushed  BY <1>1, <2>1, <2>2
      <4>2. k + 1 > buf_pushed - BufSize + Writing
        <5> PICK w : w = Writing  OBVIOUS
        <5>1. w \in {0, 1} /\ buf_pushed - k <= BufSize - w  BY <2>2
        <5>2. k + 1 > buf_pushed - BufSize + w  BY <1>1, <2>1, <5>1, BufNumbers
        <5>. QED  BY <5>2
      <4>. QED  BY <4>1, <4>2 DEF Newest
    <3>3. copied' = buf_ring[SlotOf(k)]  BY <2>1, <2>2, IxSlot
    <3>. QED  BY <1>0, <3>1, <3>2, <3>3 DEF RingInv
  <2>. QED  BY <1>0, <2>3 DEF OrderInv, Writing, Ix, Indices
<1>. QED  BY <1>7, <1>8, <1>9, <1>10 DEF BufInv

LEMMA ReleaseKeeps == BufInv /\ Release => BufInv'
<1> SUFFICES ASSUME BufInv, Release  PROVE BufInv'
  OBVIOUS
<1> USE DEF Release, StoreTail, producerState
<1>0. BufBase /\ RingInv /\ ProducerInv /\ ConsumerInv /\ OrderInv  BY DEF BufInv
<1>1. buf_pushed \in Nat /\ popped \in Seq(Int) /\ copied \in Int
  BY <1>0, BufNumbers DEF BufBase
<1>2. \A n : Newest(n)' <=> Newest(n)
  BY DEF Newest, Writing
<1>3. PICK a \in 0 .. buf_pushed :
        /\ at = Ix(a)
        /\ \A n \in Nat : Newest(n) /\ n <= a => WasPopped(n)
        /\ a < buf_pushed
        /\ Newest(a + 1) => copied = a + 1
  BY <1>0 DEF ConsumerInv
<1>4. a \in Nat /\ a + 1 \in 0 .. buf_pushed  BY <1>1, <1>3
<1> DEFINE k == Len(popped)
<1>5. /\ popped' \in Seq(Int) /\ Len(popped') = k + 1 /\ k \in Nat
      /\ DOMAIN popped = 1 .. k /\ DOMAIN popped' = 1 .. (k + 1)
      /\ \A i \in 1 .. k : popped'[i] = popped[i]
      /\ popped'[k + 1] = copied
  BY <1>1, AppendProperties, LenProperties
<1> HIDE DEF k
<1>6. BufBase'
  BY <1>0, <1>5 DEF BufBase, Ix, Indices
<1>7. RingInv' /\ ProducerInv'
  BY <1>0, <1>2 DEF RingInv, ProducerInv, SlotOf, Ix, Indices
<1>8. ConsumerInv'
  BY DEF ConsumerInv
<1>9. TailInv'
  <2>1. buf_tail' = Ix(a + 1)  BY <1>3, <1>4, IxNext
  <2>2. ASSUME NEW n \in Nat, Newest(n), ~(n > a + 1)
        PROVE  \E i \in DOMAIN popped' : popped'[i] = n
    <3>1. CASE n = a + 1
      <4>1. popped'[k + 1] = n /\ k + 1 \in 1 .. (k + 1)  BY <1>3, <1>5, <2>2, <3>1
      <4>. QED  BY <1>5, <4>1
    <3>2. CASE n <= a
      <4>1. PICK i \in 1 .. k : popped[i] = n  BY <1>3, <1>5, <2>2, <3>2 DEF WasPopped
      <4>2. i \in 1 .. (k + 1)  BY <1>5
      <4>. QED  BY <1>5, <4>1, <4>2
    <3>3. n = a + 1 \/ n <= a  BY <1>4, <2>2
    <3>. QED  BY <3>1, <3>2, <3>3
  <2>. QED  BY <1>2, <1>4, <2>1, <2>2 DEF TailInv, WasPopped, Ix, Indices
<1>10. OrderInv'
  <2> SUFFICES ASSUME overflows = 0, producer # "full"  PROVE OrderInv'
    BY DEF OrderInv
  <2>2. /\ popped = [i \in 1 .. k |-> i]
        /\ k < buf_pushed /\ at = Ix(k) /\ buf_pushed - k <= BufSize - Writing
        /\ copied = k + 1
    BY <1>0 DEF OrderInv, k
  <2>3. buf_tail' = Ix(k + 1)  BY <1>5, <2>2, IxNext
  <2>4. popped' = [i \in 1 .. (k + 1) |-> i]
    <3>1. \A i \in 1 .. (k + 1) : popped'[i] = i
      <4>1. \A i \in 1 .. (k + 1) : i \in 1 .. k \/ i = k + 1  BY <1>5
      <4>. QED  BY <1>5, <2>2, <4>1
    <3>2. popped' \in [1 .. (k + 1) -> Int]  BY <1>5, LenProperties
    <3>. QED  BY <3>1, <3>2
  <2>5. k + 1 <= buf_pushed /\ buf_pushed - (k + 1) <= BufSize - Writing
    <3> PICK w : w = Writing  OBVIOUS
    <3>1. w \in {0, 1}  BY DEF Writing
    <3>2. buf_pushed - k <= BufSize - w  BY <2>2
    <3>3. buf_pushed - (k + 1) <= BufSize - w  BY <1>1, <1>5, <3>1, <3>2, BufNumbers
    <3>. QED  BY <1>1, <1>5, <2>2, <3>3
  <2>. QED  BY <1>5, <2>3, <2>4, <2>5 DEF OrderInv, Writing, Ix, Indices
<1>. QED  BY <1>6, <1>7, <1>8, <1>9, <1>10 DEF BufInv

LEMMA BufStep == BufInv /\ [BufNext]_buf => BufInv'
<1> SUFFICES ASSUME BufInv, [BufNext]_buf  PROVE BufInv'
  OBVIOUS
<1>1. CASE UNCHANGED buf
  <2>1. \A n : Newest(n)' <=> Newest(n)  BY <1>1 DEF buf, Newest, Writing
  <2>. QED
    BY <1>1, <2>1 DEF buf, BufInv, BufBase, RingInv, TailInv, ProducerInv, ConsumerInv,
                      OrderInv, WasPopped, Writing, SlotOf, Ix, Indices
<1>. QED
  BY <1>1, LoadTailKeeps, GiveUpOldestKeeps, WriteSlotKeeps, PublishKeeps,
     LoadOwnTailKeeps, TestEmptyKeeps, CopyEntryKeeps, ReleaseKeeps DEF BufNext

\* As long as the ring has not overflowed, mesh_entry_pop gets what mesh_entry_push
\* put, once, whole and in order, however their steps fall between each other.
THEOREM PopsInOrder == BufSpec => []PoppedInOrder
<1>1. BufInv => PoppedInOrder
  BY DEF BufInv, OrderInv, PoppedInOrder
<1>. QED  BY <1>1, BufInitially, BufStep, PTL DEF BufSpec

LEMMA KeepsNewest ==
  ASSUME MaxEntries < Indices, BufInv
  PROVE  NewestKept
<1>0. BufBase /\ RingInv /\ TailInv  BY DEF BufInv
<1>1. buf_pushed \in Nat /\ buf_head = Ix(buf_pushed) /\ buf_pushed < Indices
  BY <1>0, BufNumbers DEF BufBase
<1>2. PICK t \in 0 .. buf_pushed :
        /\ buf_tail = Ix(t)
        /\ \A n \in Nat : Newest(n) =>
             n > t \/ WasPopped(n) \/ (consumer = "release" /\ copied = n)
  BY <1>0 DEF TailInv
<1>3. BufPending = buf_pushed - t
  <2>1. t \in Nat /\ buf_pushed - t \in 0 .. (Indices - 1)  BY <1>1, BufNumbers
  <2>. QED  BY <1>1, <1>2, <2>1, IxDistance DEF BufPending
<1>4. ASSUME NEW n \in 1 .. buf_pushed, Newest(n), n > t
      PROVE  LET index == (BufFirst + n - 1) % Indices
             IN  /\ buf_ring[index % BufSize] = n
                 /\ (buf_head - index) % Indices \in 1 .. BufPending
  <2>1. n - 1 \in Nat /\ n \in Nat /\ BufFirst + n - 1 = BufFirst + (n - 1)
    BY <1>1, BufNumbers
  <2>2. (BufFirst + n - 1) % Indices = Ix(n - 1)  BY <2>1 DEF Ix
  <2>3. buf_ring[Ix(n - 1) % BufSize] = n  BY <1>0, <1>4, <2>1, IxSlot DEF RingInv
  <2>4. buf_pushed - (n - 1) \in 0 .. (Indices - 1)
    BY <1>1, <1>2, <1>4, <2>1, BufNumbers
  <2>5. (buf_head - Ix(n - 1)) % Indices = buf_pushed - (n - 1)
    BY <1>1, <2>1, <2>4, IxDistance
  <2>6. buf_pushed - (n - 1) \in 1 .. (buf_pushed - t)  BY <1>1, <1>4
  <2>. QED  BY <1>3, <2>2, <2>3, <2>5, <2>6
<1>. QED  BY <1>2, <1>4 DEF NewestKept, Newest, Writing, WasPopped

\* However the two stores of tail undo each other, the newest entries are popped
\* whole, being popped, or in their slots.  The hypothesis says that the indices have
\* not come round: a pop that is stalled for 2^32 pushes finds the ring empty.
THEOREM NewestAreNotLost ==
  ASSUME MaxEntries < Indices
  PROVE  BufSpec => []BufferKeeps
<1>1. BufInv => BufferKeeps
  BY KeepsNewest DEF BufInv, OrderInv, PoppedInOrder, BufferKeeps
<1>. QED  BY <1>1, BufInitially, BufStep, PTL DEF BufSpec
=============================================================================
