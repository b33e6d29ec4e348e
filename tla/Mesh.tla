--------------------------------- MODULE Mesh ---------------------------------
(***************************************************************************)
(* src/pogls_mesh.h: the observer that the drain of the detach lane feeds. *)
(* It files each entry under the Voronoi cluster of its address, keeps the *)
(* graph of the clusters joined by ghosts, and a tail of the last entries  *)
(* per slice and cluster.  A batch is its entries one by one, in one       *)
(* thread.  Values, reasons, phases and the count of twin windows are left *)
(* out.  The arithmetic is the code's, at a Scale below its 2^20.          *)
(***************************************************************************)
EXTENDS Integers, Sequences, FiniteSets

CONSTANTS
  MeshScale,     \* POGLS_PHI_SCALE, at least 256
  MeshUp,        \* POGLS_PHI_UP
  MeshDown,      \* POGLS_PHI_DOWN
  MESH_SEEDS,    \* the nine seeds << a, b >>, in order
  TailDepth,     \* MESH_TAIL_DEPTH
  AndBits(_, _),     \* and, bit by bit
  MeshAddresses, \* addresses of the entries
  MaxEvents      \* bound: entries

ASSUME MeshAssumption ==
  /\ MeshScale \in Nat /\ MeshScale >= 256 /\ MeshUp \in Nat /\ MeshDown \in Nat
  /\ MESH_SEEDS \in Seq(Nat \X Nat) /\ MESH_SEEDS # << >>
  /\ TailDepth \in Nat \ {0} /\ MeshAddresses \subseteq Nat /\ MaxEvents \in Nat
  /\ \A h \in 0 .. (TailDepth - 1) : AndBits(h, TailDepth - 1) \in 0 .. (TailDepth - 1)

Clusters == 1 .. Len(MESH_SEEDS)
Slices   == 0 .. 2

VARIABLES
  clusters,    \* event_count, primary_slice and last_addr of each
  adj,         \* MeshDelaunay: the directed edges
  edge_count,
  tails,       \* MeshTail per slice and cluster
  events       \* history: the addresses ingested

mesh == << clusters, adj, edge_count, tails, events >>

NoEntry == -1

MeshInit ==
  /\ clusters = [c \in Clusters |->
                   [event_count |-> 0, primary_slice |-> 255, last_addr |-> 0]]
  /\ adj = {} /\ edge_count = 0
  /\ tails = [at \in Slices \X Clusters |->
                [addr |-> [i \in 0 .. (TailDepth - 1) |-> NoEntry], head |-> 0]]
  /\ events = << >>

-----------------------------------------------------------------------------
Dist2(p, q) == (p[1] - q[1]) * (p[1] - q[1]) + (p[2] - q[2]) * (p[2] - q[2])

\* voronoi_classify: the nearest seed, the first of equals.
Classify(p) ==
  CHOOSE c \in Clusters : \A d \in Clusters :
    \/ Dist2(p, MESH_SEEDS[c]) < Dist2(p, MESH_SEEDS[d])
    \/ Dist2(p, MESH_SEEDS[c]) = Dist2(p, MESH_SEEDS[d]) /\ c <= d

MeshScatter(addr, mod) ==
  << ((addr * MeshUp) \div MeshScale) % mod, ((addr * MeshDown) \div MeshScale) % mod >>

ClusterOf == [addr \in MeshAddresses |->
                Classify(MeshScatter(addr % MeshScale, MeshScale))]

SliceOf(addr)   == (addr % 54) \div 18
GhostLane(addr) == ((addr % 54) + 27) % 54

\* The address at the ghost's lane is cut to a byte before it is scattered.
GhostCluster == [addr \in MeshAddresses |->
  LET byte == (GhostLane(addr) * (MeshScale \div 54)) % 256
      p    == MeshScatter(byte, 256)
      unit == MeshScale \div 256
  IN  Classify(<< p[1] * unit, p[2] * unit >>)]

\* tail_push, whose index is head & (MESH_TAIL_DEPTH - 1).
Pushed(tail, entry) ==
  [addr |-> [tail.addr EXCEPT ![AndBits(tail.head, TailDepth - 1)] = entry],
   head |-> (tail.head + 1) % TailDepth]

AddEdge_always(src, dst) ==
  /\ adj' = IF src = dst THEN adj ELSE adj \cup {<< src, dst >>}
  /\ edge_count' = IF src = dst THEN edge_count ELSE edge_count + 1

\* delaunay_add_edge: a cluster is not its own neighbour, an edge counts once.
AddEdge(src, dst) ==
  /\ adj' = IF src = dst THEN adj ELSE adj \cup {<< src, dst >>}
  /\ edge_count' = IF src = dst \/ << src, dst >> \in adj THEN edge_count ELSE edge_count + 1

MeshIngest(addr) ==
  LET cid   == ClusterOf[addr]
      slice == SliceOf(addr)
      old   == clusters[cid]
  IN  /\ clusters' = [clusters EXCEPT ![cid] =
           [event_count   |-> old.event_count + 1,
            primary_slice |-> IF old.primary_slice = 255 THEN slice ELSE old.primary_slice,
            last_addr     |-> addr]]
      /\ tails' = [tails EXCEPT ![<< slice, cid >>] = Pushed(tails[<< slice, cid >>], addr)]
      /\ IF slice # GhostLane(addr) \div 18
         THEN AddEdge(cid, GhostCluster[addr]) ELSE UNCHANGED << adj, edge_count >>
      /\ events' = Append(events, addr)

MeshNext == Len(events) < MaxEvents /\ \E addr \in MeshAddresses : MeshIngest(addr)

MeshSpec == MeshInit /\ [][MeshNext]_mesh

-----------------------------------------------------------------------------
\* The graph is that of the entries ingested: an edge for each pair of clusters that
\* some entry and its ghost fell into, counted once whatever the order and the
\* repetitions; and it joins all such pairs, because a ghost half the lanes away is
\* always of another slice.
GraphOfTheEvents ==
  LET pairs == {<< ClusterOf[events[i]], GhostCluster[events[i]] >> : i \in DOMAIN events}
  IN  /\ adj = {p \in pairs : p[1] # p[2]}
      /\ edge_count = Cardinality(adj)

\* A tail never has an entry of another slice or cluster, and always has its newest.
\* (It does not have the last 18: head & 17 is only ever 0, 1, 16 or 17.)
TailHasNewest ==
  \A s \in Slices, c \in Clusters :
    LET its == {i \in DOMAIN events : SliceOf(events[i]) = s /\ ClusterOf[events[i]] = c}
        has == {tails[<< s, c >>].addr[i] : i \in 0 .. (TailDepth - 1)} \ {NoEntry}
    IN  /\ has \subseteq {events[i] : i \in its}
        /\ \A i \in its : (\A j \in its : j <= i) => events[i] \in has

MeshRemembers == GraphOfTheEvents /\ TailHasNewest
=============================================================================
