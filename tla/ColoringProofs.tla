--------------------------- MODULE ColoringProofs ---------------------------
(***************************************************************************)
(* Theorems about Coloring, for every number of ranks and every graph.     *)
(***************************************************************************)
EXTENDS Coloring, TLAPS

(* The state of the loop between two trials: ranks before i are coloured   *)
(* for good, ranks after i not at all, and every colour that was passed    *)
(* over, also for rank i, is used by an adjacent rank coloured earlier.     *)
Uncolored == \A p \in Rank : (p < i => color[p] > 0) /\ (i < p => color[p] = 0)

Separated == \A p \in Rank : \A q \in adj[p] :
               p < i /\ q < i => color[p] # color[q]

Passed == i \in Rank =>
            \A c \in 1 .. color[i] : \E q \in adj[i] : q < i /\ color[q] = c

LoopInv == TypeOK /\ Uncolored /\ Separated /\ NoWastedColor /\ Passed

(* The loop starts with nothing coloured.                                  *)
LEMMA InitLoopInv == Init => LoopInv
  <1> SUFFICES ASSUME Init PROVE LoopInv
    OBVIOUS
  <1> USE NcpuAssumption DEF Init
  <1>1. TypeOK
    BY DEF TypeOK, Rank
  <1>2. Uncolored
    BY DEF Uncolored, Rank
  <1>3. Separated
    BY DEF Separated, Rank
  <1>4. NoWastedColor
    <2> SUFFICES ASSUME NEW p \in Rank, NEW c \in 1 .. color[p] - 1
                 PROVE  FALSE
      BY DEF NoWastedColor
    <2> QED
      BY DEF Rank
  <1>5. Passed
    BY DEF Passed, Rank
  <1> QED
    BY <1>1, <1>2, <1>3, <1>4, <1>5 DEF LoopInv

(* Neighbours of a rank are ranks, and adjacency is mutual.                *)
LEMMA Mutual ==
  ASSUME adj \in RankGraphs, NEW p \in Rank, NEW q \in adj[p]
  PROVE  q \in Rank /\ q # p /\ p \in adj[q]
  BY DEF RankGraphs

(* Every step of the loop preserves the loop invariant.                    *)
LEMMA StepLoopInv == LoopInv /\ [Next]_vars => LoopInv'
  <1> SUFFICES ASSUME LoopInv, [Next]_vars PROVE LoopInv'
    OBVIOUS
  <1> USE NcpuAssumption
  <1>0. /\ adj \in RankGraphs /\ color \in [Rank -> Nat] /\ i \in Nat
        /\ i <= ncpu /\ \A p \in Rank : p \in Nat /\ p < ncpu
    BY DEF LoopInv, TypeOK, Rank
  <1>1. CASE TryTaken
    <2>0. PICK q \in adj[i] : color[q] = color[i] + 1
      BY <1>1 DEF TryTaken, Taken
    <2>1. /\ i \in Rank /\ adj' = adj /\ i' = i /\ colors' = colors
          /\ color' \in [Rank -> Nat]
          /\ color'[i] = color[i] + 1
          /\ \A p \in Rank \ {i} : color'[p] = color[p]
      BY <1>0, <1>1 DEF TryTaken
    <2>2. q \in Rank /\ q # i
      BY <1>0, <2>1, Mutual
    <2>3. q < i
      BY <1>0, <2>0, <2>1, <2>2 DEF LoopInv, Uncolored
    <2>4. TypeOK'
      BY <2>1 DEF LoopInv, TypeOK, Rank
    <2>5. Uncolored'
      BY <1>0, <2>1 DEF LoopInv, Uncolored, Rank
    <2>6. Separated'
      <3> SUFFICES ASSUME NEW p \in Rank, NEW s \in adj[p], p < i, s < i
                   PROVE  color'[p] # color'[s]
        BY <2>1 DEF Separated, Rank
      <3>1. s \in Rank
        BY <1>0, Mutual
      <3> QED
        BY <1>0, <2>1, <3>1 DEF LoopInv, Separated
    <2>7. NoWastedColor'
      <3> SUFFICES ASSUME NEW p \in Rank, NEW c \in 1 .. color'[p] - 1
                   PROVE  \E s \in adj[p] : s < p /\ color'[s] = c
        BY <2>1 DEF NoWastedColor, Rank
      <3>1. PICK s \in adj[p] : s < p /\ color[s] = c
        <4>1. CASE p = i
          <5>1. c \in 1 .. color[i]
            BY <1>0, <2>1, <4>1
          <5> QED
            BY <2>1, <4>1, <5>1 DEF LoopInv, Passed
        <4>2. CASE p # i
          BY <2>1, <4>2 DEF LoopInv, NoWastedColor
        <4> QED
          BY <4>1, <4>2
      <3>2. s \in Rank /\ c > 0
        BY <1>0, <2>1, <3>1, Mutual
      <3>3. p < i \/ p = i
        BY <1>0, <2>1 DEF LoopInv, Uncolored
      <3>4. s # i
        BY <1>0, <2>1, <3>1, <3>2, <3>3
      <3> QED
        BY <2>1, <3>1, <3>2, <3>4
    <2>8. Passed'
      <3> SUFFICES ASSUME NEW c \in 1 .. color'[i]
                   PROVE  \E s \in adj[i] : s < i /\ color'[s] = c
        BY <2>1 DEF Passed, Rank
      <3>1. CASE c = color'[i]
        BY <2>0, <2>1, <2>2, <2>3, <3>1
      <3>2. CASE c # color'[i]
        <4>1. c \in 1 .. color[i]
          BY <1>0, <2>1, <3>2
        <4>2. PICK s \in adj[i] : s < i /\ color[s] = c
          BY <2>1, <4>1 DEF LoopInv, Passed
        <4> QED
          BY <1>0, <2>1, <4>2, Mutual
      <3> QED
        BY <3>1, <3>2
    <2> QED
      BY <2>4, <2>5, <2>6, <2>7, <2>8 DEF LoopInv
  <1>2. CASE TryFree
    <2>1. /\ i \in Rank /\ adj' = adj /\ i' = i + 1 /\ colors' = colors
          /\ color' \in [Rank -> Nat]
          /\ color'[i] = color[i] + 1
          /\ \A p \in Rank \ {i} : color'[p] = color[p]
          /\ \A q \in adj[i] : color[q] # color[i] + 1
      BY <1>0, <1>2 DEF TryFree, Taken
    <2>2. TypeOK'
      BY <1>0, <2>1 DEF LoopInv, TypeOK, Rank
    <2>3. Uncolored'
      <3> SUFFICES ASSUME NEW p \in Rank
                   PROVE  /\ p < i + 1 => color'[p] > 0
                          /\ i + 1 < p => color'[p] = 0
        BY <2>1 DEF Uncolored, Rank
      <3>1. CASE p = i
        BY <1>0, <2>1, <3>1
      <3>2. CASE p # i
        BY <1>0, <2>1, <3>2 DEF LoopInv, Uncolored
      <3> QED
        BY <3>1, <3>2
    <2>4. Separated'
      <3> SUFFICES ASSUME NEW p \in Rank, NEW s \in adj[p],
                          p < i + 1, s < i + 1
                   PROVE  color'[p] # color'[s]
        BY <2>1 DEF Separated, Rank
      <3>1. s \in Rank /\ s # p /\ p \in adj[s]
        BY <1>0, Mutual
      <3>2. CASE p = i
        BY <1>0, <2>1, <3>1, <3>2
      <3>3. CASE s = i
        BY <1>0, <2>1, <3>1, <3>3
      <3>4. CASE p # i /\ s # i
        BY <1>0, <2>1, <3>1, <3>4 DEF LoopInv, Separated
      <3> QED
        BY <3>2, <3>3, <3>4
    <2>5. NoWastedColor'
      <3> SUFFICES ASSUME NEW p \in Rank, NEW c \in 1 .. color'[p] - 1
                   PROVE  \E s \in adj[p] : s < p /\ color'[s] = c
        BY <2>1 DEF NoWastedColor, Rank
      <3>1. PICK s \in adj[p] : s < p /\ color[s] = c
        <4>1. CASE p = i
          <5>1. c \in 1 .. color[i]
            BY <1>0, <2>1, <4>1
          <5> QED
            BY <2>1, <4>1, <5>1 DEF LoopInv, Passed
        <4>2. CASE p # i
          BY <2>1, <4>2 DEF LoopInv, NoWastedColor
        <4> QED
          BY <4>1, <4>2
      <3>2. s \in Rank /\ c > 0
        BY <1>0, <2>1, <3>1, Mutual
      <3>3. p < i \/ p = i
        BY <1>0, <2>1 DEF LoopInv, Uncolored
      <3>4. s # i
        BY <1>0, <2>1, <3>1, <3>2, <3>3
      <3> QED
        BY <2>1, <3>1, <3>2, <3>4
    <2>6. Passed'
      <3> SUFFICES ASSUME i + 1 \in Rank PROVE 1 .. color'[i + 1] = {}
        BY <2>1 DEF Passed, Rank
      <3>1. color'[i + 1] = 0
        BY <1>0, <2>1 DEF LoopInv, Uncolored
      <3> QED
        BY <3>1
    <2> QED
      BY <2>2, <2>3, <2>4, <2>5, <2>6 DEF LoopInv
  <1>3. CASE Count
    BY <1>0, <1>3 DEF Count, LoopInv, TypeOK, Uncolored, Separated,
                      NoWastedColor, Passed, Rank
  <1>4. CASE UNCHANGED vars
    BY <1>4 DEF vars, LoopInv, TypeOK, Uncolored, Separated, NoWastedColor,
                Passed, Rank
  <1> QED
    BY <1>1, <1>2, <1>3, <1>4 DEF Next

(* processor_coloring gives adjacent ranks different colours, whatever the  *)
(* number of ranks and the W graph between them.                           *)
THEOREM ColoringIsProper == Spec => []ProperColoring
  <1>1. Init => LoopInv
    BY InitLoopInv
  <1>2. LoopInv /\ [Next]_vars => LoopInv'
    BY StepLoopInv
  <1>3. LoopInv => ProperColoring
    <2> SUFFICES ASSUME LoopInv, i = ncpu,
                        NEW p \in Rank, NEW q \in adj[p]
                 PROVE  color[p] # color[q]
      BY DEF ProperColoring
    <2>1. q \in Rank
      BY Mutual DEF LoopInv, TypeOK
    <2> QED
      BY <2>1, NcpuAssumption DEF LoopInv, Separated, Rank
  <1> QED
    BY <1>1, <1>2, <1>3, PTL DEF Spec

(* It wastes no colour, so that a rank is coloured at most one above its    *)
(* degree.                                                                 *)
THEOREM ColoringIsGreedy == Spec => []NoWastedColor
  <1>1. LoopInv => NoWastedColor
    BY DEF LoopInv
  <1> QED
    BY <1>1, InitLoopInv, StepLoopInv, PTL DEF Spec

(* The loop's data keep their types.                                       *)
THEOREM ColoringTypes == Spec => []TypeOK
  <1>1. LoopInv => TypeOK
    BY DEF LoopInv
  <1> QED
    BY <1>1, InitLoopInv, StepLoopInv, PTL DEF Spec

(* What GaussSeidel assumes of the colours (ColorAssumption) is what the   *)
(* loop ends with, for any blocks whose couplings between ranks are those  *)
(* that the rank graph was collapsed from.                                 *)
THEOREM ColorsServeSolver ==
  ASSUME NEW CONSTANT Block, NEW CONSTANT Owner \in [Block -> Rank],
         NEW CONSTANT AdjExt \in [Block -> SUBSET Block]
  PROVE  Spec =>
           [](i = ncpu /\ (\A b \in Block : \A a \in AdjExt[b] :
                             Owner[a] \in adj[Owner[b]])
              => /\ color \in [Rank -> Nat \ {0}]
                 /\ \A b \in Block : \A a \in AdjExt[b] :
                      color[Owner[a]] # color[Owner[b]])
  <1> DEFINE Coupled == \A b \in Block : \A a \in AdjExt[b] :
                          Owner[a] \in adj[Owner[b]]
             Usable == /\ color \in [Rank -> Nat \ {0}]
                       /\ \A b \in Block : \A a \in AdjExt[b] :
                            color[Owner[a]] # color[Owner[b]]
  <1>1. LoopInv => (i = ncpu /\ Coupled => Usable)
    <2> SUFFICES ASSUME LoopInv, i = ncpu, Coupled PROVE Usable
      OBVIOUS
    <2>1. \A p \in Rank : p \in Nat /\ p < i
      BY NcpuAssumption DEF Rank
    <2>2. color \in [Rank -> Nat \ {0}]
      BY <2>1 DEF LoopInv, TypeOK, Uncolored
    <2>3. ASSUME NEW b \in Block, NEW a \in AdjExt[b]
          PROVE  color[Owner[a]] # color[Owner[b]]
      <3>1. Owner[a] \in Rank /\ Owner[b] \in Rank /\ Owner[a] \in adj[Owner[b]]
        OBVIOUS
      <3> QED
        BY <2>1, <3>1 DEF LoopInv, Separated
    <2> QED
      BY <2>2, <2>3
  <1> QED
    BY <1>1, InitLoopInv, StepLoopInv, PTL DEF Spec
=============================================================================
