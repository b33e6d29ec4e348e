----------------------------- MODULE HoneycombOps ------------------------------
(***************************************************************************)
(* src/pogls_diamond_hc.h, the functions: the honeycomb cells of a         *)
(* DHCContext, allocated one after the other from a pool of PoolSize, each *)
(* in the chain of its diamond and alive until its time to live runs out.  *)
(*                                                                         *)
(* A new cell becomes the head of its diamond's chain, and a cell is never *)
(* unlinked: the chain of a diamond is its cells, the latest first, and    *)
(* the pool is a sequence, cell 0 being the sentinel.  The hash, the       *)
(* neighbour mask (a function of the cell's number), the ring of shadow    *)
(* offsets and the anchors' counters are read by nothing here and left     *)
(* out.                                                                    *)
(***************************************************************************)
EXTENDS Integers, Sequences

CONSTANTS
  Places,      \* << diamond, cell within it >>: diamond_map and cell_ternary
  PoolSize,    \* DHC_HC_POOL_SIZE
  Ttl          \* DHC_TTL_DEFAULT

ASSUME HoneycombAssumption == PoolSize \in Nat \ {0} /\ Ttl \in Nat \ {0}

HoneycombCell == [place : Places, ttl : 0 .. Ttl, events : Nat]

Honeycomb == Seq(HoneycombCell)

HoneycombInit == << >>

-----------------------------------------------------------------------------
\* The cells the walk of dhc_ingest can stop at, and the one it does.
Live(hc, place) == {i \in DOMAIN hc : hc[i].place = place /\ hc[i].ttl > 0}

Latest(cells) == CHOOSE i \in cells : \A j \in cells : j <= i

\* _dhc_cell_alloc: cell_alloc_head only ever grows.
PoolFull(hc) == Len(hc) + 1 >= PoolSize

Fresh(place) == [place |-> place, ttl |-> Ttl, events |-> 1]

Renewed_keepsTtl(cell) == [cell EXCEPT !.events = cell.events + 1]

Renewed(cell) == [place |-> cell.place, ttl |-> Ttl, events |-> cell.events + 1]

\* dhc_ingest: refresh the live cell of the place, or summon one, or, when the
\* pool is used up, skip.
Summoned(hc, place) ==
  IF Live(hc, place) # {} THEN [hc EXCEPT ![Latest(Live(hc, place))] = Renewed(@)]
  ELSE IF PoolFull(hc) THEN hc
  ELSE Append(hc, Fresh(place))

\* dhc_tick_ttl: a cell whose time runs out loses its count.
Older(cell) ==
  IF cell.ttl = 0 THEN cell
  ELSE [place |-> cell.place, ttl |-> cell.ttl - 1,
        events |-> IF cell.ttl = 1 THEN 0 ELSE cell.events]

Ticked(hc) == [i \in DOMAIN hc |-> Older(hc[i])]
=============================================================================
