------------------------------ MODULE Coloring ------------------------------
(***************************************************************************)
(* The processor colouring of the parallel Gauss-Seidel solver             *)
(* (src/bgs.c, processor_coloring).  Every rank gathers the same adjacency *)
(* graph between ranks and then runs the same greedy loop over it, so that *)
(* all ranks end up with the same colours.  One run of that loop is the    *)
(* state machine of this module; the graph is an input.                    *)
(***************************************************************************)
EXTENDS Naturals, FiniteSets

CONSTANT ncpu  \* number of ranks, numbered from 0 as in MPI_COMM_WORLD

ASSUME NcpuAssumption == ncpu \in Nat \ {0}

VARIABLES
  adj,    \* adj[r]: ranks that own an external constraint coupled to r
  color,  \* color[r]: colour tried last for r, 0 before the first trial
  i,      \* the rank being coloured
  colors  \* gs->colors, set once the loop is over

vars == <<adj, color, i, colors>>

Rank == 0 .. ncpu - 1

(***************************************************************************)
(* The rank graph is the collapse of the W graph: r is adjacent to every   *)
(* con->rank met on the adjext lists of its blocks.  W couples constraints *)
(* that share a body, which is a symmetric relation, and adjext holds      *)
(* constraints of other ranks only.                                        *)
(***************************************************************************)
RankGraphs ==
  {g \in [Rank -> SUBSET Rank] :
     \A p, q \in Rank : p \in g[q] <=> p # q /\ q \in g[p]}

(* (mutant: the colours are not zeroed before the loop)                    *)
InitNotZeroed ==
  /\ adj \in RankGraphs
  /\ color = [r \in Rank |-> r]
  /\ i = 0
  /\ colors = 0

Init ==
  /\ adj \in RankGraphs
  /\ color = [r \in Rank |-> 0]
  /\ i = 0
  /\ colors = 0

(* (mutant: the last of the adjacent ranks is left out)                    *)
TakenShort(c) == \E q \in adj[i] : color[q] = c /\ \E p \in adj[i] : q < p
Taken(c) == \E q \in adj[i] : color[q] = c

(* (mutants: the trial colour is not raised, or lowered)                   *)
TryTakenDown ==
  /\ i \in Rank
  /\ Taken(color[i] + 1)
  /\ color' = [color EXCEPT ![i] = @ - 1]
  /\ UNCHANGED <<adj, i, colors>>
TryTakenStuck ==
  /\ i \in Rank
  /\ Taken(color[i] + 1)
  /\ UNCHANGED vars

(* The do-while body: the next trial colour is already used next door. *)
TryTaken ==
  /\ i \in Rank
  /\ Taken(color[i] + 1)
  /\ color' = [color EXCEPT ![i] = @ + 1]
  /\ UNCHANGED <<adj, i, colors>>

(* The do-while body: the next trial colour is free and is kept. *)
TryFree ==
  /\ i \in Rank
  /\ ~ Taken(color[i] + 1)
  /\ color' = [color EXCEPT ![i] = @ + 1]
  /\ i' = i + 1
  /\ UNCHANGED <<adj, colors>>

(* The number of colours is the largest colour used. *)
Count ==
  /\ i = ncpu
  /\ colors = 0
  /\ \E r \in Rank :
       /\ \A q \in Rank : color[q] <= color[r]
       /\ colors' = color[r]
  /\ UNCHANGED <<adj, color, i>>

Next == TryTaken \/ TryFree \/ Count

Spec == Init /\ [][Next]_vars /\ WF_vars(Next)

-----------------------------------------------------------------------------
(* Types of the loop's data; i = ncpu once the loop has ended.             *)
TypeOK ==
  /\ adj \in RankGraphs
  /\ color \in [Rank -> Nat]
  /\ i \in 0 .. ncpu
  /\ colors \in Nat

(* What the block sets of GAUSS_SEIDEL_Solve rest on: once the loop of     *)
(* processor_coloring ends, no two adjacent ranks share a colour, so that  *)
(* of two coupled boundary constraints exactly one belongs to the rank of  *)
(* the lower colour.                                                       *)
ProperColoring ==
  i = ncpu => \A p \in Rank : \A q \in adj[p] : color[p] # color[q]

(* Colours are not wasted: every colour below that of a rank is used by    *)
(* one of the ranks adjacent to it which were coloured before, hence a     *)
(* rank never gets a colour above its degree + 1 and the sequential part   *)
(* of the middle loop is no longer than the graph requires.                *)
NoWastedColor ==
  \A p \in Rank : \A c \in 1 .. color[p] - 1 :
    \E q \in adj[p] : q < p /\ color[q] = c

(* The trial loop of processor_coloring always ends.                       *)
ColoringEnds == <>(colors # 0)
=============================================================================
