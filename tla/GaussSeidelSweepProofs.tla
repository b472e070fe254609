----------------------- MODULE GaussSeidelSweepProofs -----------------------
(***************************************************************************)
(* The parallel solver implements SequentialSweep, for every instance of   *)
(* GaussSeidel: how often every row was solved, which copies of reactions  *)
(* a rank has been sent in this iteration, and why no row is solved before *)
(* the rows it has to wait for.                                            *)
(***************************************************************************)
EXTENDS GaussSeidelPatternProofs

(* Solves of b up to the beginning and up to the end of this iteration.    *)
Start(b)  == Quota[variant][b] * iters
Finish(b) == Quota[variant][b] * (iters + 1)

(* The phase in which b is solved.                                         *)
SolvePhases == SweepPhases \cup {"mid_loop"}

SweepOf(b) ==
  IF variant = "BOUNDARY_JACOBI" THEN "all"
  ELSE IF b \in Top[Owner[b]] THEN "top"
  ELSE IF b \in Bottom[Owner[b]] THEN "bottom"
  ELSE IF b \in Middle[Owner[b]]
       THEN IF variant = "FULL" THEN "mid_loop" ELSE "middle"
  ELSE IF b \in Int2[Owner[b]] THEN "int2" ELSE "int1"

(* Is the sweep s of this iteration over for a rank in phase p?             *)
Over(s, p) ==
  \/ p = "reduce"
  \/ s = "top" /\ (p \in {"send_top", "int2", "recv_top"} \/ Rcvd("top", p))
  \/ s = "int2" /\ (p = "recv_top" \/ Rcvd("top", p))
  \/ s = "bottom" /\ (p \in {"send_bot", "int1", "recv_bot"} \/ Rcvd("bottom", p))
  \/ s = "int1" /\ (p = "recv_bot" \/ Rcvd("bottom", p))
  \/ s = "middle" /\ (p \in {"post_rep", "barrier", "rsend", "recv_mid"}
                        \/ Rcvd("middle", p))
  \/ s = "mid_loop" /\ (p \in {"wait_sends", "drain"} \/ PartNo(p) > 2)
  \/ s = "all" /\ p = "update_ext"

(* Solves of b in this iteration.                                          *)
Solved(b) ==
  LET r == Owner[b]
  IN  IF pc[r] = "end" THEN 0
      ELSE IF pc[r] = SweepOf(b)
      THEN (IF pc[r] = "mid_loop" THEN 0 ELSE InnerLoops - loops[r])
             + (IF b \in todo[r] THEN 0 ELSE 1)
      ELSE IF Over(SweepOf(b), pc[r]) THEN Quota[variant][b] ELSE 0

(* Has the copy of a at q been renewed in this iteration?                  *)
Updated(q, a) ==
  /\ pc[q] # "end"
  /\ IF variant = "BOUNDARY_JACOBI" THEN pc[q] = "reduce"
     ELSE \/ a \in Top[Owner[a]] /\ Rcvd("top", pc[q])
          \/ a \in Bottom[Owner[a]] /\ Rcvd("bottom", pc[q])
          \/ /\ a \in Middle[Owner[a]]
             /\ IF variant = "FULL"
                THEN PartNo(pc[q]) > 2 \/ req[q][a] = "arrived"
                ELSE Rcvd("middle", pc[q])

(* The order in which coupled rows of two ranks are solved: by colour,     *)
(* from the highest one downwards, in a backward iteration upwards.        *)
Before(a, b) ==
  IF IsBackward THEN Color[Owner[a]] < Color[Owner[b]]
                ELSE Color[Owner[a]] > Color[Owner[b]]

-----------------------------------------------------------------------------
(* The inductive invariant                                                 *)

EndTogether ==
  \A q, r \in Rank : pc[q] = "end" => pc[r] = "end"

TodoInSweep ==
  \A r \in Rank : todo[r] \subseteq SweepSet(pc[r], r)

(* Every row has been solved as often as the progress of its rank says.    *)
SolveCounts ==
  \A b \in Block : R[b] = Start(b) + Solved(b)

(* A renewed copy holds the final reaction of this iteration, any other one *)
(* that of the iteration before.                                           *)
CopiesHold ==
  \A q \in Rank : \A a \in Ext[q] :
    IF Updated(q, a) THEN R[a] = Finish(a) /\ img[q][a] = Finish(a)
                     ELSE img[q][a] = Start(a)

(* What is sent is final.                                                  *)
MessagesFinal ==
  \A c \in Channels : \A k \in 1 .. Len(chan[c]) : \A b \in chan[c][k].ids :
    R[b] = Finish(b) /\ chan[c][k].val[b] = Finish(b)

MiddleMessages ==
  \A m \in midmsg :
    /\ variant = "FULL"
    /\ m.id \in MidUpd[m.to]
    /\ R[m.id] = Finish(m.id) /\ m.val = Finish(m.id)
    /\ ~ Updated(m.to, m.id)

RequestsInLoop ==
  \A q \in Rank : \A a \in Block : req[q][a] # "none" =>
    a \in MidUpd[q] /\ pc[q] \in {"mid_loop", "wait_sends", "drain"}

DoneUpdated ==
  \A q \in Rank : \A a \in Ext[q] :
    pc[q] # "end" /\ a \in done[q] => Updated(q, a)

(* No row is begun before the copies it has to wait for are renewed.       *)
BegunInOrder ==
  \A b \in Block : \A a \in AdjExt[b] :
    /\ <<b, a>> \notin Lagged[variant]
    /\ Before(a, b)
    /\ R[b] # Start(b)
    => Updated(Owner[b], a)

SweepInv ==
  /\ PatternInv
  /\ EndTogether
  /\ TodoInSweep
  /\ SolveCounts
  /\ CopiesHold
  /\ MessagesFinal
  /\ MiddleMessages
  /\ RequestsInLoop
  /\ DoneUpdated
  /\ BegunInOrder

-----------------------------------------------------------------------------
(* Numbers of solves                                                       *)

LEMMA DueSolves ==
  ASSUME TypeOK, NEW b \in Block
  PROVE  /\ Quota[variant][b] \in Nat
         /\ Quota[variant][b] > 0
         /\ Quota[variant][b] =
              IF variant = "FULL" /\ b \in Middle[Owner[b]] THEN 1 ELSE InnerLoops
         /\ iters \in Nat
         /\ Start(b) \in Nat /\ Finish(b) \in Nat
         /\ Finish(b) = Start(b) + Quota[variant][b]
  <1>1. /\ Quota[variant][b] =
             IF variant = "FULL" /\ b \in Middle[Owner[b]] THEN 1 ELSE InnerLoops
        /\ iters \in Nat
    BY DEF Quota, TypeOK
  <1>2. Quota[variant][b] \in Nat /\ Quota[variant][b] > 0
    BY <1>1, ParameterAssumption
  <1>3. \A k, i \in Nat : k * i \in Nat /\ k * (i + 1) = k * i + k
    OBVIOUS
  <1>4. /\ Start(b) \in Nat
        /\ Finish(b) = Start(b) + Quota[variant][b]
    <2> DEFINE k == Quota[variant][b]
    <2>1. k \in Nat /\ Start(b) = k * iters /\ Finish(b) = k * (iters + 1)
      BY <1>2 DEF Start, Finish
    <2> HIDE DEF k
    <2>2. Start(b) \in Nat /\ Finish(b) = Start(b) + k
      BY <1>1, <1>3, <2>1
    <2> QED
      BY <2>2 DEF k
  <1> QED
    BY <1>1, <1>2, <1>4

(* Within an iteration these numbers stay.                                 *)
LEMMA DueKept ==
  ASSUME variant' = variant, iters' = iters, NEW b
  PROVE  Start(b)' = Start(b) /\ Finish(b)' = Finish(b)
  BY DEF Start, Finish

(* The next iteration starts where this one finishes.                      *)
LEMMA DueNext ==
  ASSUME variant' = variant, iters' = iters + 1, NEW b
  PROVE  Start(b)' = Finish(b)
  BY DEF Start, Finish

-----------------------------------------------------------------------------
(* Sweeps                                                                  *)

LEMMA InnerSplit ==
  ASSUME NEW r \in Rank
  PROVE  /\ Int2[r] \subseteq Internal[r] /\ Int1[r] = Internal[r] \ Int2[r]
         /\ Internal[r] = {b \in Mine[r] : ~ HasLower(b) /\ ~ HasHigher(b)}
  BY DEF Int1, Int2, Internal

(* The sweeps of a rank share its rows between them.                       *)
LEMMA SweepSetOf ==
  ASSUME NEW p, Live(p), NEW r \in Rank, NEW b
  PROVE  b \in SweepSet(p, r) <=>
           b \in Block /\ Owner[b] = r /\ p \in SolvePhases /\ SweepOf(b) = p
  <1>1. b \in Mine[r] <=> b \in Block /\ Owner[b] = r
    BY DEF Mine
  <1>2. ASSUME b \in Mine[r]
        PROVE  /\ b \in Top[r] <=> HasLower(b) /\ ~ HasHigher(b)
               /\ b \in Bottom[r] <=> HasHigher(b) /\ ~ HasLower(b)
               /\ b \in Middle[r] <=> HasHigher(b) /\ HasLower(b)
               /\ b \in Int1[r] <=> ~ HasHigher(b) /\ ~ HasLower(b) /\ b \notin Int2[r]
               /\ b \in Int2[r] => ~ HasHigher(b) /\ ~ HasLower(b)
    BY <1>2, InnerSplit DEF Top, Bottom, Middle
  <1>3. /\ Top[r] \subseteq Mine[r] /\ Bottom[r] \subseteq Mine[r]
        /\ Middle[r] \subseteq Mine[r] /\ Int1[r] \subseteq Mine[r]
        /\ Int2[r] \subseteq Mine[r]
    BY BlockSets, InnerSplit
  <1>4. CASE b \notin Mine[r]
    BY <1>1, <1>3, <1>4 DEF SweepSet, Live, Phases, SweepPhases
  <1>5. CASE b \in Mine[r] /\ variant = "BOUNDARY_JACOBI"
    BY <1>1, <1>5
    DEF SweepSet, Live, Fits, BoundaryPhases, SolvePhases, SweepPhases, SweepOf
  <1>6. CASE b \in Mine[r] /\ variant # "BOUNDARY_JACOBI"
    <2>1. /\ p # "all"
          /\ p = "middle" => variant = "MIDDLE_JACOBI"
          /\ p = "mid_loop" => variant = "FULL"
          /\ p \in Phases /\ variant \in {"FULL", "MIDDLE_JACOBI"}
      BY <1>6, ParameterAssumption
      DEF Live, Fits, BoundaryPhases, FullPhases, MiddleJacobiPhases
    <2> QED
      BY <1>1, <1>2, <1>3, <1>6, <2>1
      DEF SweepSet, Phases, SolvePhases, SweepPhases, SweepOf
  <1> QED
    BY <1>4, <1>5, <1>6

(* The sweep of a row is one of the variant.                               *)
LEMMA SweepOfLive ==
  ASSUME variant \in Variants, NEW b \in Block
  PROVE  /\ SweepOf(b) \in SolvePhases
         /\ Live(SweepOf(b))
         /\ SweepOf(b) = "mid_loop" <=>
              variant = "FULL" /\ b \in Middle[Owner[b]]
  <1>1. b \in Middle[Owner[b]] => b \notin Top[Owner[b]] /\ b \notin Bottom[Owner[b]]
    BY OwnerAssumption DEF Top, Bottom, Middle
  <1> QED
    BY <1>1, ParameterAssumption
    DEF SweepOf, SolvePhases, SweepPhases, Live, Phases, Fits,
        BoundaryPhases, FullPhases, MiddleJacobiPhases

(* One phase further, the sweep that was left is over, and no other one.   *)
LEMMA OverAfter ==
  ASSUME NEW p, Live(p), p \notin {"reduce", "end"},
         NEW s \in SolvePhases, Live(s)
  PROVE  /\ Over(s, After(p)) <=> Over(s, p) \/ s = p
         /\ After(p) = s => ~ Over(s, p) /\ p # s
         /\ After(p) # "end"
         /\ ~ Over(s, s)
  <1> USE DEF Live, Fits, Phases, SweepPhases, SolvePhases, Over, Rcvd, PartNo,
              PatternPart, After, FirstMiddlePhase, TopPhases, MidPhases,
              MiddleJacobiPhases, FullPhases, BoundaryPhases
  <1>1. After(p) # "end" /\ ~ Over(s, s)
    OBVIOUS
  <1>2. CASE s \in {"top", "int2"}
    BY <1>2
  <1>3. CASE s \in {"bottom", "int1"}
    BY <1>3
  <1>4. CASE s \in {"middle", "mid_loop", "all"}
    BY <1>4
  <1> QED
    BY <1>1, <1>2, <1>3, <1>4

(* The first phase comes before the end of every sweep.                    *)
LEMMA OverFirst ==
  ASSUME variant \in Variants, NEW s \in SolvePhases, Live(s)
  PROVE  ~ Over(s, FirstPhase) /\ FirstPhase \notin {"end", "reduce", "mid_loop"}
  BY DEF Live, Fits, Phases, SweepPhases, SolvePhases, Over, Rcvd, PartNo,
         PatternPart, FirstPhase, TopPhases,
         MidPhases, MiddleJacobiPhases, FullPhases, BoundaryPhases

(* What is sent has been swept.                                            *)
LEMMA SentOver ==
  ASSUME NEW p, Live(p), p # "end", NEW pat \in Patterns, Uses(pat),
         p = SendPhase(pat), NEW r \in Rank, NEW b \in PatternBlocks[pat][r]
  PROVE  Over(SweepOf(b), p) /\ SweepOf(b) # p
  <1>1. b \in Mine[r] /\ b \in Block /\ Owner[b] = r
    BY PatternSets DEF Mine
  <1>2. /\ pat = "top" => SweepOf(b) = "top"
        /\ pat = "bottom" => SweepOf(b) = "bottom"
        /\ pat = "middle" => SweepOf(b) = "middle"
    BY <1>1 DEF PatternBlocks, Patterns, Uses, SweepOf, Top, Bottom, Middle
  <1> QED
    BY <1>2 DEF Over, SendPhase, Patterns

(* What the counts of the invariant say of a single row.                   *)
LEMMA SolveBounds ==
  ASSUME TypeInv, SolveCounts, NEW b \in Block
  PROVE  /\ R[b] \in Nat /\ Start(b) \in Nat /\ Finish(b) \in Nat
         /\ Start(b) <= R[b] /\ R[b] <= Finish(b) /\ Start(b) < Finish(b)
  <1>1. /\ Owner[b] \in Rank /\ TypeOK /\ variant \in Variants
        /\ loops[Owner[b]] \in 1 .. InnerLoops /\ R[b] \in Nat
    BY OwnerAssumption DEF TypeInv, TypeOK
  <1>2. SweepOf(b) = "mid_loop" <=> variant = "FULL" /\ b \in Middle[Owner[b]]
    BY <1>1, SweepOfLive
  <1>3. Solved(b) \in 0 .. Quota[variant][b]
    <2>1. /\ Quota[variant][b] =
               IF variant = "FULL" /\ b \in Middle[Owner[b]] THEN 1 ELSE InnerLoops
          /\ Quota[variant][b] \in Nat
      BY <1>1, DueSolves
    <2> QED
      BY <1>1, <1>2, <2>1, ParameterAssumption DEF Solved
  <1> QED
    BY <1>1, <1>3, DueSolves DEF SolveCounts

(* A rank ends a sweep, or a phase without row solves.                     *)
LEMMA CountsMove ==
  ASSUME TypeInv, SolveCounts, TodoInSweep, NEW r \in Rank,
         pc[r] \notin {"reduce", "end"}, Enter(r, After(pc[r])),
         variant' = variant, iters' = iters, R' = R,
         pc[r] \in SweepPhases => todo[r] = {} /\ loops[r] = 1,
         pc[r] = "mid_loop" => todo[r] = {}
  PROVE  SolveCounts' /\ TodoInSweep'
  <1>1. /\ TypeOK /\ variant \in Variants /\ Live(pc[r])
        /\ todo \in [Rank -> SUBSET Block]
        /\ InnerLoops \in Nat
    BY LivePhases, ParameterAssumption DEF TypeInv, TypeOK
  <1>2. Live(After(pc[r]))
    BY <1>1, AfterFits DEF Live
  <1>3. \A q \in Rank :
          /\ pc'[q] = IF q = r THEN After(pc[r]) ELSE pc[q]
          /\ todo'[q] = IF q = r THEN SweepSet(After(pc[r]), r) ELSE todo[q]
          /\ loops'[q] = IF q = r THEN InnerLoops ELSE loops[q]
    BY DEF Enter, TypeInv, TypeOK
  <1>4. TodoInSweep'
    BY <1>3 DEF TodoInSweep, SweepSet
  <1>5. ASSUME NEW b \in Block PROVE R'[b] = Start(b)' + Solved(b)'
    <2>1. Start(b)' = Start(b) /\ SweepOf(b)' = SweepOf(b) /\ Owner[b] \in Rank
      BY DueKept, OwnerAssumption DEF SweepOf
    <2>2. \A s, p : Over(s, p)' <=> Over(s, p)
      BY DEF Over, Rcvd, PartNo, PatternPart, IsBackward
    <2>3. Solved(b)' =
            LET q == Owner[b]
            IN  IF pc'[q] = "end" THEN 0
                ELSE IF pc'[q] = SweepOf(b)
                THEN (IF pc'[q] = "mid_loop" THEN 0 ELSE InnerLoops - loops'[q])
                       + (IF b \in todo'[q] THEN 0 ELSE 1)
                ELSE IF Over(SweepOf(b), pc'[q]) THEN Quota[variant][b] ELSE 0
      BY <2>1 DEF Solved, Over, Rcvd, PartNo, PatternPart, IsBackward
    <2>4. CASE Owner[b] # r
      <3>1. Solved(b)' = Solved(b)
        BY <1>3, <2>1, <2>3, <2>4 DEF Solved
      <3> QED
        BY <2>1, <3>1 DEF SolveCounts
    <2>5. CASE Owner[b] = r
      <3> DEFINE s == SweepOf(b)
                 p == pc[r]
      <3>1. s \in SolvePhases /\ Live(s)
            /\ (s = "mid_loop" <=> variant = "FULL" /\ b \in Middle[Owner[b]])
        BY <1>1, SweepOfLive
      <3>2. /\ Over(s, After(p)) <=> Over(s, p) \/ s = p
            /\ After(p) = s => ~ Over(s, p) /\ p # s
            /\ After(p) # "end"
            /\ ~ Over(s, s)
        BY <1>1, <3>1, OverAfter
      <3>3. Quota[variant][b] =
              IF variant = "FULL" /\ b \in Middle[Owner[b]] THEN 1 ELSE InnerLoops
        BY <1>1, DueSolves
      <3>4. After(p) = s => b \in SweepSet(After(p), r)
        BY <1>2, <2>5, <3>1, SweepSetOf
      <3>5. p = s => Solved(b) = Quota[variant][b]
        <4>1. p = s => p \in SweepPhases \/ p = "mid_loop"
          BY <3>1 DEF SolvePhases
        <4> QED
          BY <1>1, <2>5, <3>1, <3>3, <4>1 DEF Solved
      <3> HIDE DEF s
      <3>6. Solved(b)' = Solved(b)
        <4>1. CASE Over(s, p)
          BY <1>3, <2>3, <2>5, <3>2, <4>1 DEF Solved, s
        <4>2. CASE p = s
          BY <1>3, <2>3, <2>5, <3>2, <3>5, <4>2 DEF s
        <4>3. CASE ~ Over(s, p) /\ p # s
          <5>1. Solved(b) = 0
            BY <2>5, <4>3 DEF Solved, s
          <5>2. CASE After(p) = s
            BY <1>1, <1>3, <2>3, <2>5, <3>2, <3>4, <5>1, <5>2 DEF s
          <5>3. CASE After(p) # s
            BY <1>3, <2>3, <2>5, <3>2, <4>3, <5>1, <5>3 DEF s
          <5> QED
            BY <5>2, <5>3
        <4> QED
          BY <4>1, <4>2, <4>3
      <3> QED
        BY <2>1, <3>6 DEF SolveCounts
    <2> QED
      BY <2>4, <2>5
  <1> QED
    BY <1>4, <1>5 DEF SolveCounts

(* A row left to a sweep has solves due.                                   *)
LEMMA TodoDue ==
  ASSUME TypeInv, SolveCounts, TodoInSweep, NEW r \in Rank,
         pc[r] \in SolvePhases, NEW b \in todo[r]
  PROVE  /\ b \in Block /\ Owner[b] = r /\ SweepOf(b) = pc[r]
         /\ Solved(b) = IF pc[r] = "mid_loop" THEN 0 ELSE InnerLoops - loops[r]
         /\ R[b] < Finish(b)
  <1>1. /\ TypeOK /\ variant \in Variants /\ Live(pc[r])
        /\ loops[r] \in 1 .. InnerLoops
        /\ InnerLoops \in Nat
    BY LivePhases, ParameterAssumption DEF TypeInv, TypeOK
  <1>2. b \in Block /\ Owner[b] = r /\ SweepOf(b) = pc[r]
    BY <1>1, SweepSetOf DEF TodoInSweep
  <1>3. Solved(b) = IF pc[r] = "mid_loop" THEN 0 ELSE InnerLoops - loops[r]
    BY <1>1, <1>2 DEF Solved, SolvePhases, SweepPhases
  <1>4. Solved(b) \in Nat /\ Solved(b) < Quota[variant][b]
    <2>1. pc[r] = "mid_loop" <=> variant = "FULL" /\ b \in Middle[Owner[b]]
      BY <1>1, <1>2, SweepOfLive
    <2>2. Quota[variant][b] = IF pc[r] = "mid_loop" THEN 1 ELSE InnerLoops
      BY <1>1, <1>2, <2>1, DueSolves
    <2> QED
      BY <1>1, <1>3, <2>2
  <1> QED
    BY <1>1, <1>2, <1>3, <1>4, DueSolves DEF SolveCounts

(* A row is solved.                                                        *)
LEMMA CountsSolve ==
  ASSUME TypeInv, SolveCounts, TodoInSweep, NEW r \in Rank,
         pc[r] \in SolvePhases, NEW b \in todo[r],
         R' = [R EXCEPT ![b] = @ + 1],
         todo' = [todo EXCEPT ![r] = @ \ {b}],
         pc' = pc, loops' = loops, variant' = variant, iters' = iters
  PROVE  SolveCounts' /\ TodoInSweep'
  <1>1. /\ TypeOK /\ variant \in Variants /\ Live(pc[r])
        /\ todo \in [Rank -> SUBSET Block] /\ R \in [Block -> Nat]
        /\ loops[r] \in 1 .. InnerLoops
        /\ InnerLoops \in Nat
    BY LivePhases, ParameterAssumption DEF TypeInv, TypeOK
  <1>2. /\ b \in Block /\ Owner[b] = r /\ SweepOf(b) = pc[r]
        /\ Solved(b) = IF pc[r] = "mid_loop" THEN 0 ELSE InnerLoops - loops[r]
    BY TodoDue
  <1>3. \A q \in Rank : todo'[q] = IF q = r THEN todo[q] \ {b} ELSE todo[q]
    BY <1>1
  <1>4. TodoInSweep'
    BY <1>3 DEF TodoInSweep, SweepSet
  <1>5. ASSUME NEW d \in Block
        PROVE  /\ R'[d] = Start(d)' + Solved(d)'
    <2>1. Start(d)' = Start(d) /\ Owner[d] \in Rank /\ Start(d) \in Nat
      BY <1>1, DueKept, DueSolves, OwnerAssumption
    <2>2. Solved(d)' =
            LET q == Owner[d]
            IN  IF pc[q] = "end" THEN 0
                ELSE IF pc[q] = SweepOf(d)
                THEN (IF pc[q] = "mid_loop" THEN 0 ELSE InnerLoops - loops[q])
                       + (IF d \in todo'[q] THEN 0 ELSE 1)
                ELSE IF Over(SweepOf(d), pc[q]) THEN Quota[variant][d] ELSE 0
      BY DEF Solved, SweepOf, Over, Rcvd, PartNo, PatternPart, IsBackward
    <2>3. CASE d = b
      <3>1. /\ Solved(d) = IF pc[r] = "mid_loop" THEN 0 ELSE InnerLoops - loops[r]
            /\ Solved(d)' = Solved(d) + 1
        BY <1>1, <1>2, <1>3, <2>2, <2>3 DEF SolvePhases, SweepPhases
      <3> QED
        BY <1>1, <2>1, <2>3, <3>1 DEF SolveCounts
    <2>4. CASE d # b
      <3>1. Solved(d)' = Solved(d)
        BY <1>3, <2>1, <2>2, <2>4 DEF Solved
      <3> QED
        BY <1>1, <2>1, <2>4, <3>1 DEF SolveCounts
    <2> QED
      BY <2>3, <2>4
  <1> QED
    BY <1>4, <1>5 DEF SolveCounts

(* A sweep is repeated.                                                    *)
LEMMA CountsAgain ==
  ASSUME TypeInv, SolveCounts, NEW r \in Rank, SweepAgain(r), TodoInSweep
  PROVE  SolveCounts' /\ TodoInSweep'
  <1>1. /\ TypeOK /\ variant \in Variants /\ Live(pc[r])
        /\ loops[r] \in 1 .. InnerLoops /\ todo[r] = {}
        /\ InnerLoops \in Nat
        /\ pc[r] \in SweepPhases
        /\ pc' = pc /\ variant' = variant /\ iters' = iters /\ R' = R
    BY LivePhases, ParameterAssumption DEF TypeInv, TypeOK, SweepAgain
  <1>2. \A q \in Rank :
          /\ todo'[q] = IF q = r THEN SweepSet(pc[r], r) ELSE todo[q]
          /\ loops'[q] = IF q = r THEN loops[q] - 1 ELSE loops[q]
    BY DEF SweepAgain, TypeInv, TypeOK
  <1>3. TodoInSweep'
    BY <1>1, <1>2 DEF TodoInSweep, SweepSet
  <1>4. ASSUME NEW d \in Block
        PROVE  R'[d] = Start(d)' + Solved(d)'
    <2>1. Start(d)' = Start(d) /\ Owner[d] \in Rank
      BY <1>1, DueKept, OwnerAssumption
    <2>2. Solved(d)' =
            LET q == Owner[d]
            IN  IF pc[q] = "end" THEN 0
                ELSE IF pc[q] = SweepOf(d)
                THEN (IF pc[q] = "mid_loop" THEN 0 ELSE InnerLoops - loops'[q])
                       + (IF d \in todo'[q] THEN 0 ELSE 1)
                ELSE IF Over(SweepOf(d), pc[q]) THEN Quota[variant][d] ELSE 0
      BY <1>1 DEF Solved, SweepOf, Over, Rcvd, PartNo, PatternPart, IsBackward
    <2>3. Owner[d] = r /\ SweepOf(d) = pc[r] => d \in SweepSet(pc[r], r)
      BY <1>1, SweepSetOf DEF SolvePhases
    <2>4. Solved(d)' = Solved(d)
      <3>1. CASE Owner[d] = r /\ SweepOf(d) = pc[r]
        BY <1>1, <1>2, <2>2, <2>3, <3>1 DEF Solved, SweepPhases
      <3>2. CASE ~ (Owner[d] = r /\ SweepOf(d) = pc[r])
        BY <1>2, <2>1, <2>2, <3>2 DEF Solved
      <3> QED
        BY <3>1, <3>2
    <2> QED
      BY <1>1, <2>1, <2>4 DEF SolveCounts
  <1> QED
    BY <1>3, <1>4 DEF SolveCounts

-----------------------------------------------------------------------------
(* Copies of external reactions                                            *)

(* What a rank keeps copies of.                                            *)
LEMMA Copies ==
  ASSUME NEW q \in Rank, NEW a \in Ext[q]
  PROVE  /\ a \in Block /\ Owner[a] \in Rank /\ q \in Ranks[a]
         /\ \/ a \in Top[Owner[a]]
            \/ a \in Bottom[Owner[a]]
            \/ a \in Middle[Owner[a]]
         /\ a \in Top[Owner[a]] => a \notin Middle[Owner[a]]
         /\ a \in Bottom[Owner[a]] => a \notin Middle[Owner[a]]
         /\ a \in MidUpd[q] <=> a \in Middle[Owner[a]]
  <1>1. PICK b \in Mine[q] : a \in AdjExt[b]
    BY DEF Ext
  <1>2. /\ a \in Block /\ Owner[a] \in Rank /\ q \in Ranks[a]
        /\ \/ a \in Top[Owner[a]]
           \/ a \in Bottom[Owner[a]]
           \/ a \in Middle[Owner[a]]
    BY <1>1, BlockSets, ExternalBlocks
  <1> QED
    BY <1>2 DEF Top, Bottom, Middle, MidUpd

(* A rank keeps copies of the blocks whose reactions are sent to it.       *)
LEMMA SentAreCopies ==
  ASSUME NEW b \in Block, NEW q \in Ranks[b]
  PROVE  q \in Rank /\ b \in Ext[q]
  <1>1. PICK a \in AdjExt[b] : q = Owner[a]
    BY DEF Ranks
  <1>2. a \in Block /\ <<b, a>> \in Adj /\ Owner[a] # Owner[b]
    BY <1>1 DEF AdjExt
  <1>3. b \in AdjExt[a] /\ a \in Mine[q] /\ q \in Rank
    BY <1>1, <1>2, AdjAssumption, OwnerAssumption DEF AdjExt, Mine
  <1> QED
    BY <1>3 DEF Ext

(* A move renews the copies that it receives, and the drain those of the    *)
(* middle blocks.                                                          *)
Renews(r, a) ==
  \/ \E pat \in Patterns : /\ Uses(pat)
                           /\ pc[r] = RecvPhase(pat)
                           /\ a \in PatternBlocks[pat][Owner[a]]
  \/ pc[r] = "drain" /\ a \in Middle[Owner[a]]

LEMMA UpdatedMove ==
  ASSUME TypeInv, NEW r \in Rank,
         pc[r] \notin {"reduce", "end", "update_ext"},
         Enter(r, After(pc[r])), variant' = variant, iters' = iters,
         NEW q \in Rank, NEW a \in Ext[q],
         ~ (q = r /\ pc[r] = "drain") =>
            (req'[q][a] = "arrived" <=> req[q][a] = "arrived")
  PROVE  /\ Updated(q, a)' <=> Updated(q, a) \/ (q = r /\ Renews(r, a))
         /\ pc'[q] # "end" => pc[q] # "end"
  <1>1. /\ pc'[q] = IF q = r THEN After(pc[r]) ELSE pc[q]
        /\ Live(pc[r])
        /\ variant \in {"FULL", "MIDDLE_JACOBI", "BOUNDARY_JACOBI"}
    BY LivePhases, ParameterAssumption DEF Enter, TypeInv, TypeOK
  <1>2. /\ a \in Block /\ Owner[a] \in Rank
        /\ a \in Top[Owner[a]] => a \notin Middle[Owner[a]]
        /\ a \in Bottom[Owner[a]] => a \notin Middle[Owner[a]]
    BY Copies
  <1>3. After(pc[r]) # "end"
    BY <1>1 DEF After, FirstMiddlePhase, Live, Phases, SweepPhases
  <1>4. CASE variant = "BOUNDARY_JACOBI"
    <2>1. pc[r] = "all" /\ After(pc[r]) = "update_ext"
      BY <1>1, <1>4 DEF Live, Fits, BoundaryPhases, After
    <2>2. ~ Renews(r, a)
      BY <1>4, <2>1 DEF Renews, Uses
    <2> QED
      BY <1>1, <1>4, <2>1, <2>2 DEF Updated
  <1>5. CASE variant # "BOUNDARY_JACOBI"
    <2>1. \A pat \in Patterns : Uses(pat) =>
            (Rcvd(pat, pc[q])' <=>
               Rcvd(pat, pc[q]) \/ (q = r /\ pc[r] = RecvPhase(pat)))
      BY MoveSentRcvd
    <2>2. /\ "top" \in Patterns /\ "bottom" \in Patterns /\ "middle" \in Patterns
          /\ Uses("top") /\ Uses("bottom")
          /\ variant = "MIDDLE_JACOBI" <=> Uses("middle")
      BY <1>5 DEF Uses, Patterns
    <2>3. variant = "FULL" =>
            ((PartNo(pc[q]) > 2)' <=>
               PartNo(pc[q]) > 2 \/ (q = r /\ pc[r] = "drain"))
      BY PartAfter
    <2>4. /\ PatternBlocks["top"] = Top
          /\ PatternBlocks["bottom"] = Bottom
          /\ PatternBlocks["middle"] = Middle
      BY DEF PatternBlocks, Patterns
    <2>5. pc[r] = "drain" => variant = "FULL"
      BY <1>1 DEF Live, Fits, FullPhases
    <2>6. Renews(r, a) <=>
            \/ pc[r] = RecvPhase("top") /\ a \in Top[Owner[a]]
            \/ pc[r] = RecvPhase("bottom") /\ a \in Bottom[Owner[a]]
            \/ /\ a \in Middle[Owner[a]]
               /\ \/ variant = "MIDDLE_JACOBI" /\ pc[r] = RecvPhase("middle")
                  \/ pc[r] = "drain"
      BY <2>2, <2>4 DEF Renews, Patterns
    <2>7. /\ pc[q] # "end" <=> pc'[q] # "end"
      BY <1>1, <1>3
    <2>8. Updated(q, a)' <=>
            /\ pc[q] # "end"
            /\ \/ a \in Top[Owner[a]] /\ Rcvd("top", pc[q])'
               \/ a \in Bottom[Owner[a]] /\ Rcvd("bottom", pc[q])'
               \/ /\ a \in Middle[Owner[a]]
                  /\ IF variant = "FULL"
                     THEN (PartNo(pc[q]) > 2)' \/ req'[q][a] = "arrived"
                     ELSE Rcvd("middle", pc[q])'
      BY <1>5, <2>7 DEF Updated
    <2>9. Updated(q, a) <=>
            /\ pc[q] # "end"
            /\ \/ a \in Top[Owner[a]] /\ Rcvd("top", pc[q])
               \/ a \in Bottom[Owner[a]] /\ Rcvd("bottom", pc[q])
               \/ /\ a \in Middle[Owner[a]]
                  /\ IF variant = "FULL"
                     THEN PartNo(pc[q]) > 2 \/ req[q][a] = "arrived"
                     ELSE Rcvd("middle", pc[q])
      BY <1>5 DEF Updated
    <2>10. CASE variant = "FULL"
      BY <1>1, <2>1, <2>2, <2>3, <2>6, <2>7, <2>8, <2>9, <2>10
    <2>11. CASE variant = "MIDDLE_JACOBI"
      BY <1>1, <2>1, <2>2, <2>5, <2>6, <2>7, <2>8, <2>9, <2>11
    <2> QED
      BY <1>1, <1>5, <2>10, <2>11
  <1> QED
    BY <1>4, <1>5

LEMMA UpdatedStay ==
  ASSUME pc' = pc, variant' = variant, iters' = iters, NEW q, NEW a,
         req'[q][a] = req[q][a]
  PROVE  Updated(q, a)' <=> Updated(q, a)
  BY DEF Updated, Rcvd, PartNo, PatternPart, IsBackward

(* A final reaction stays as it is for the rest of the iteration.          *)
FinalStay ==
  /\ variant' = variant /\ iters' = iters
  /\ \A b \in Block : R[b] = Finish(b) => R'[b] = R[b]

LEMMA MessagesKept ==
  ASSUME TypeInv, MessagesFinal, FinalStay, chan' = chan
  PROVE  MessagesFinal'
  <1>1. \A b : Finish(b)' = Finish(b)
    BY DueKept DEF FinalStay
  <1> SUFFICES ASSUME NEW c \in Channels, NEW k \in 1 .. Len(chan[c]),
                      NEW b \in chan[c][k].ids
               PROVE  R'[b] = Finish(b) /\ chan[c][k].val[b] = Finish(b)
    BY <1>1 DEF MessagesFinal
  <1>2. chan[c] \in Seq(MessageType)
    BY DEF TypeInv, TypeOK, MessageType
  <1>3. chan[c][k] \in MessageType
    BY <1>2
  <1>4. b \in Block
    BY <1>3 DEF MessageType
  <1> QED
    BY <1>4 DEF MessagesFinal, FinalStay

(* Nothing arrives.                                                        *)
LEMMA CopiesKept ==
  ASSUME CopiesHold, FinalStay, img' = img,
         \A q \in Rank : \A a \in Ext[q] : Updated(q, a)' <=> Updated(q, a)
  PROVE  CopiesHold'
  <1>1. \A b : Finish(b)' = Finish(b) /\ Start(b)' = Start(b)
    BY DueKept DEF FinalStay
  <1>2. \A q \in Rank : \A a \in Ext[q] : a \in Block
    BY BlockSets
  <1> QED
    BY <1>1, <1>2 DEF CopiesHold, FinalStay

LEMMA MiddleMessagesKept ==
  ASSUME TypeInv, MiddleMessages, FinalStay, midmsg' \subseteq midmsg,
         \A m \in midmsg' : Updated(m.to, m.id)' <=> Updated(m.to, m.id)
  PROVE  MiddleMessages'
  <1>1. \A b : Finish(b)' = Finish(b)
    BY DueKept DEF FinalStay
  <1>2. \A m \in midmsg : m.id \in Block
    BY DEF TypeInv, TypeOK
  <1> QED
    BY <1>1, <1>2 DEF MiddleMessages, FinalStay

LEMMA OrderKept ==
  ASSUME BegunInOrder, variant' = variant, iters' = iters, R' = R,
         \A q \in Rank : \A a \in Ext[q] : Updated(q, a) => Updated(q, a)'
  PROVE  BegunInOrder'
  <1> SUFFICES ASSUME NEW b \in Block, NEW a \in AdjExt[b],
                      <<b, a>> \notin Lagged[variant], Before(a, b)',
                      R[b] # Start(b)'
               PROVE  Updated(Owner[b], a)'
    BY DEF BegunInOrder
  <1>1. Owner[b] \in Rank /\ a \in Ext[Owner[b]]
    BY OwnerAssumption, ExternalBlocks
  <1>2. Before(a, b) /\ R[b] # Start(b)
    BY DueKept DEF Before, IsBackward
  <1> QED
    BY <1>1, <1>2 DEF BegunInOrder

-----------------------------------------------------------------------------
(* Messages                                                                *)

(* What a pattern sends are the results of the sweep before.               *)
LEMMA FinalAtSend ==
  ASSUME TypeInv, SolveCounts, NEW pat \in Patterns, NEW s \in Rank,
         pc[s] = SendPhase(pat), NEW b \in PatternBlocks[pat][s]
  PROVE  b \in Block /\ R[b] = Finish(b)
  <1>1. Uses(pat) /\ Live(pc[s]) /\ pc[s] # "end"
    BY PhaseUses, LivePhases, SendRecvPhases
  <1>2. Over(SweepOf(b), pc[s]) /\ SweepOf(b) # pc[s]
    BY <1>1, SentOver
  <1>3. b \in Block /\ Owner[b] = s
    BY PatternSets, BlockSets
  <1>4. Solved(b) = Quota[variant][b]
    BY <1>1, <1>2, <1>3 DEF Solved
  <1> QED
    BY <1>3, <1>4, DueSolves DEF SolveCounts, TypeInv

LEMMA MessagesSend ==
  ASSUME TypeInv, SolveCounts, MessagesFinal, NEW pat \in Patterns,
         NEW s \in Rank, pc[s] = SendPhase(pat), Transmit(pat, s),
         variant' = variant, iters' = iters, R' = R
  PROVE  MessagesFinal'
  <1>1. \A b : Finish(b)' = Finish(b)
    BY DueKept
  <1>2. ASSUME NEW q, NEW b \in Message(pat, s, q).ids
        PROVE  R[b] = Finish(b) /\ Message(pat, s, q).val[b] = Finish(b)
    <2>1. b \in PatternBlocks[pat][s]
      BY <1>2 DEF Message
    <2>2. b \in Block /\ R[b] = Finish(b)
      BY <2>1, FinalAtSend
    <2>3. Message(pat, s, q).val[b] = R[b]
      BY <1>2, <2>2 DEF Message
    <2> QED
      BY <2>2, <2>3
  <1> SUFFICES ASSUME NEW c \in Channels, NEW k \in 1 .. Len(chan'[c]),
                      NEW b \in chan'[c][k].ids
               PROVE  R[b] = Finish(b) /\ chan'[c][k].val[b] = Finish(b)
    BY <1>1 DEF MessagesFinal
  <1>3. /\ chan[c] \in Seq(MessageType)
        /\ \/ chan'[c] = chan[c]
           \/ chan'[c] = Append(chan[c], Message(pat, s, c[2]))
    BY DEF Transmit, TypeInv, TypeOK, MessageType
  <1>4. \/ k \in 1 .. Len(chan[c]) /\ chan'[c][k] = chan[c][k]
        \/ chan'[c][k] = Message(pat, s, c[2])
    <2>1. CASE chan'[c] = chan[c]
      BY <2>1
    <2>2. CASE chan'[c] = Append(chan[c], Message(pat, s, c[2]))
      <3> DEFINE m == Message(pat, s, c[2])
                 h == chan[c]
      <3>1. h \in Seq(MessageType) /\ chan'[c] = Append(h, m)
        BY <1>3, <2>2
      <3> HIDE DEF m, h
      <3>2. k \in 1 .. Len(h) + 1
        BY <3>1
      <3>3. \/ k \in 1 .. Len(h) /\ chan'[c][k] = h[k]
            \/ chan'[c][k] = m
        BY <3>1, <3>2
      <3> QED
        BY <3>3 DEF m, h
    <2> QED
      BY <1>3, <2>1, <2>2
  <1> QED
    BY <1>2, <1>4 DEF MessagesFinal

(* What a pattern brings are the pattern's blocks among the copies.        *)
Got(s, pat) == UNION {Head(chan[<<q, s, Tag(pat)>>]).ids : q \in Sources[pat][s]}

LEMMA ReceivedBlocks ==
  ASSUME TypeInv, Net, MessagesFinal, NEW pat \in Patterns, NEW s \in Rank,
         pc[s] = RecvPhase(pat), Arrived(pat, s), NEW a \in Ext[s]
  PROVE  /\ a \in Got(s, pat) <=> a \in PatternBlocks[pat][Owner[a]]
         /\ a \in Got(s, pat) =>
              /\ R[a] = Finish(a)
              /\ Head(chan[<<Owner[a], s, Tag(pat)>>]).val[a] = Finish(a)
  <1>1. Uses(pat)
    BY PhaseUses
  <1>2. a \in Block /\ Owner[a] \in Rank /\ s \in Ranks[a]
    BY Copies
  <1>3. ASSUME NEW q \in Sources[pat][s]
        PROVE  /\ q \in Rank /\ <<q, s, Tag(pat)>> \in Channels
               /\ Head(chan[<<q, s, Tag(pat)>>]).ids =
                    {b \in PatternBlocks[pat][q] : s \in Ranks[b]}
               /\ Len(chan[<<q, s, Tag(pat)>>]) > 0
               /\ Head(chan[<<q, s, Tag(pat)>>]) = chan[<<q, s, Tag(pat)>>][1]
               /\ Len(chan[<<q, s, Tag(pat)>>]) \in Nat
    <2>1. chan[<<q, s, Tag(pat)>>] # <<>>
      BY DEF Arrived
    <2>2. /\ q \in Rank
          /\ Head(chan[<<q, s, Tag(pat)>>]).pat = pat
          /\ Head(chan[<<q, s, Tag(pat)>>]) \in Legal(<<q, s, Tag(pat)>>)
      BY <1>1, <2>1, HeadIsOwn DEF Net
    <2>3. <<q, s, Tag(pat)>> \in Channels
      BY <2>2, BottomTag
    <2>4. chan[<<q, s, Tag(pat)>>] \in Seq(MessageType)
      BY <2>3 DEF TypeInv, TypeOK, MessageType
    <2> QED
      BY <2>1, <2>2, <2>3, <2>4 DEF Legal
  <1>4. ASSUME NEW q \in Sources[pat][s], a \in PatternBlocks[pat][q]
        PROVE  q = Owner[a]
    BY <1>3, <1>4, PatternSets, BlockSets
  <1>5. a \in PatternBlocks[pat][Owner[a]] => Owner[a] \in Sources[pat][s]
    <2>1. a \in PatternBlocks[pat][Owner[a]] => s \in Dests[pat][Owner[a]]
      BY <1>2 DEF Dests
    <2> QED
      BY <1>2, <2>1, PatternSets
  <1>6. a \in Got(s, pat) <=> a \in PatternBlocks[pat][Owner[a]]
    <2>1. ASSUME a \in Got(s, pat)
          PROVE  a \in PatternBlocks[pat][Owner[a]]
      <3>1. PICK q \in Sources[pat][s] : a \in Head(chan[<<q, s, Tag(pat)>>]).ids
        BY <2>1 DEF Got
      <3>2. a \in PatternBlocks[pat][q]
        BY <1>3, <3>1
      <3> QED
        BY <1>4, <3>2
    <2>2. ASSUME a \in PatternBlocks[pat][Owner[a]]
          PROVE  a \in Got(s, pat)
      <3>1. Owner[a] \in Sources[pat][s]
        BY <1>5, <2>2
      <3>2. a \in Head(chan[<<Owner[a], s, Tag(pat)>>]).ids
        BY <1>2, <1>3, <2>2, <3>1
      <3> QED
        BY <3>1, <3>2 DEF Got
    <2> QED
      BY <2>1, <2>2
  <1>7. ASSUME a \in Got(s, pat)
        PROVE  /\ R[a] = Finish(a)
               /\ Head(chan[<<Owner[a], s, Tag(pat)>>]).val[a] = Finish(a)
    <2>1. /\ Owner[a] \in Sources[pat][s]
          /\ a \in Head(chan[<<Owner[a], s, Tag(pat)>>]).ids
      BY <1>2, <1>3, <1>5, <1>6, <1>7
    <2>2. 1 \in 1 .. Len(chan[<<Owner[a], s, Tag(pat)>>])
      BY <1>3, <2>1
    <2> QED
      BY <1>3, <2>1, <2>2 DEF MessagesFinal
  <1> QED
    BY <1>6, <1>7

LEMMA MessagesReceive ==
  ASSUME TypeInv, MessagesFinal, NEW pat \in Patterns, NEW s \in Rank,
         Receive(s, pat), variant' = variant, iters' = iters, R' = R
  PROVE  MessagesFinal'
  <1>1. \A b : Finish(b)' = Finish(b)
    BY DueKept
  <1> SUFFICES ASSUME NEW c \in Channels, NEW k \in 1 .. Len(chan'[c]),
                      NEW b \in chan'[c][k].ids
               PROVE  R[b] = Finish(b) /\ chan'[c][k].val[b] = Finish(b)
    BY <1>1 DEF MessagesFinal
  <1>2. chan[c] \in Seq(MessageType)
    BY DEF TypeInv, TypeOK, MessageType
  <1>3. \/ chan'[c] = chan[c]
        \/ chan'[c] = Tail(chan[c]) /\ chan[c] # <<>>
    <2>1. c[1] \in Sources[pat][s] /\ c[2] = s /\ c[3] = Tag(pat) =>
            c = <<c[1], s, Tag(pat)>>
      BY DEF Channels
    <2> QED
      BY <2>1 DEF Receive, Arrived
  <1>4. \E j \in 1 .. Len(chan[c]) : chan'[c][k] = chan[c][j]
    <2>1. CASE chan'[c] = chan[c]
      BY <2>1
    <2>2. CASE chan'[c] = Tail(chan[c]) /\ chan[c] # <<>>
      <3>1. /\ Len(chan[c]) \in Nat /\ Len(chan[c]) > 0
            /\ Len(chan'[c]) = Len(chan[c]) - 1
        BY <1>2, <2>2
      <3>2. k + 1 \in 1 .. Len(chan[c]) /\ chan'[c][k] = chan[c][k + 1]
        BY <1>2, <2>2, <3>1
      <3> QED
        BY <3>2
    <2> QED
      BY <1>3, <2>1, <2>2
  <1> QED
    BY <1>4 DEF MessagesFinal

-----------------------------------------------------------------------------
(* Moves of a rank to its next phase                                       *)

CopyInv == CopiesHold /\ MiddleMessages /\ DoneUpdated /\ BegunInOrder

LEMMA EndMove ==
  ASSUME TypeInv, EndTogether, NEW r \in Rank, pc[r] \notin {"reduce", "end"},
         Enter(r, After(pc[r]))
  PROVE  EndTogether'
  <1>1. \A q \in Rank : pc'[q] = IF q = r THEN After(pc[r]) ELSE pc[q]
    BY DEF Enter, TypeInv, TypeOK
  <1>2. After(pc[r]) # "end"
    BY LivePhases
    DEF After, FirstMiddlePhase, Live, Phases, SweepPhases
  <1>3. \A q \in Rank : pc[q] # "end"
    BY DEF EndTogether
  <1> QED
    BY <1>1, <1>2, <1>3 DEF EndTogether

LEMMA RequestsMove ==
  ASSUME TypeInv, RequestsInLoop, NEW r \in Rank,
         pc[r] \notin {"reduce", "end", "drain"},
         Enter(r, After(pc[r])), req' = req
  PROVE  RequestsInLoop'
  <1>1. \A q \in Rank : pc'[q] = IF q = r THEN After(pc[r]) ELSE pc[q]
    BY DEF Enter, TypeInv, TypeOK
  <1>2. pc[r] \in {"mid_loop", "wait_sends"} =>
          After(pc[r]) \in {"wait_sends", "drain"}
    BY DEF After
  <1> QED
    BY <1>1, <1>2 DEF RequestsInLoop

(* A move that brings nothing.                                             *)
LEMMA QuietMove ==
  ASSUME TypeInv, CopyInv, NEW r \in Rank,
         pc[r] \notin {"reduce", "end", "update_ext", "drain"},
         \A pat \in Patterns : pc[r] # RecvPhase(pat),
         Enter(r, After(pc[r])), variant' = variant, iters' = iters,
         R' = R, img' = img, done' = done, midmsg' = midmsg,
         \A q \in Rank : \A a \in Ext[q] :
           req'[q][a] = "arrived" <=> req[q][a] = "arrived"
  PROVE  CopyInv'
  <1>1. \A a : ~ Renews(r, a)
    BY DEF Renews
  <1>2. \A q \in Rank : \A a \in Ext[q] :
          /\ Updated(q, a)' <=> Updated(q, a)
          /\ pc'[q] # "end" => pc[q] # "end"
    BY <1>1, UpdatedMove
  <1>3. FinalStay
    BY DEF FinalStay
  <1>4. CopiesHold' /\ BegunInOrder'
    BY <1>2, <1>3, CopiesKept, OrderKept DEF CopyInv
  <1>5. MiddleMessages'
    <2>1. \A m \in midmsg : m.to \in Rank /\ m.id \in Ext[m.to]
      BY DEF CopyInv, MiddleMessages, MidUpd, TypeInv, TypeOK
    <2> QED
      BY <1>2, <1>3, <2>1, MiddleMessagesKept DEF CopyInv
  <1>6. DoneUpdated'
    BY <1>2 DEF CopyInv, DoneUpdated
  <1> QED
    BY <1>4, <1>5, <1>6 DEF CopyInv

(* receive_reactions renews the copies that the pattern brings.            *)
LEMMA ReceiveMove ==
  ASSUME TypeInv, Net, MessagesFinal, CopyInv, NEW pat \in Patterns,
         NEW r \in Rank, pc[r] = RecvPhase(pat), Receive(r, pat),
         Enter(r, After(pc[r])), variant' = variant, iters' = iters,
         R' = R, midmsg' = midmsg, req' = req
  PROVE  CopyInv'
  <1>1. /\ pc[r] \notin {"reduce", "end", "update_ext", "drain"}
        /\ \A x \in Patterns : x # pat => pc[r] # RecvPhase(x)
        /\ Uses(pat)
    BY SendRecvPhases, PhaseUses DEF RecvPhase, Patterns
  <1>2. \A a : Renews(r, a) <=> a \in PatternBlocks[pat][Owner[a]]
    BY <1>1 DEF Renews
  <1>3. ASSUME NEW q \in Rank, NEW a \in Ext[q]
        PROVE  /\ Updated(q, a)' <=>
                    Updated(q, a)
                      \/ (q = r /\ a \in PatternBlocks[pat][Owner[a]])
               /\ pc'[q] # "end" => pc[q] # "end"
    BY <1>1, <1>2, UpdatedMove
  <1>4. ASSUME NEW q \in Rank, NEW a \in Ext[q]
        PROVE  /\ a \in Block
               /\ img'[q][a] =
                    IF q = r /\ a \in PatternBlocks[pat][Owner[a]]
                    THEN Finish(a) ELSE img[q][a]
               /\ a \in done'[q] <=>
                    a \in done[q]
                      \/ (q = r /\ a \in PatternBlocks[pat][Owner[a]])
               /\ q = r /\ a \in PatternBlocks[pat][Owner[a]] => R[a] = Finish(a)
    <2>1. a \in Block
      BY Copies
    <2>2. /\ Arrived(pat, r)
          /\ img' = [img EXCEPT ![r] =
                       [b \in Block |-> IF b \in Got(r, pat)
                                        THEN Head(chan[<<Owner[b], r, Tag(pat)>>]).val[b]
                                        ELSE @[b]]]
          /\ done' = [done EXCEPT ![r] = @ \cup Got(r, pat)]
      BY DEF Receive, Got
    <2>3. img \in [Rank -> [Block -> Nat]] /\ done \in [Rank -> SUBSET Block]
      BY DEF TypeInv, TypeOK
    <2>4. CASE q = r
      <3>1. /\ a \in Got(r, pat) <=> a \in PatternBlocks[pat][Owner[a]]
            /\ a \in Got(r, pat) =>
                 /\ R[a] = Finish(a)
                 /\ Head(chan[<<Owner[a], r, Tag(pat)>>]).val[a] = Finish(a)
        BY <2>2, <2>4, ReceivedBlocks
      <3> QED
        BY <2>1, <2>2, <2>3, <2>4, <3>1
    <2>5. CASE q # r
      BY <2>1, <2>2, <2>3, <2>5
    <2> QED
      BY <2>4, <2>5
  <1>5. \A b : Finish(b)' = Finish(b) /\ Start(b)' = Start(b)
    BY DueKept
  <1>6. CopiesHold'
    BY <1>3, <1>4, <1>5 DEF CopyInv, CopiesHold
  <1>7. DoneUpdated'
    BY <1>3, <1>4 DEF CopyInv, DoneUpdated
  <1>8. BegunInOrder'
    BY <1>3, OrderKept DEF CopyInv
  <1>9. MiddleMessages'
    <2>1. ASSUME NEW m \in midmsg
          PROVE  Updated(m.to, m.id)' <=> Updated(m.to, m.id)
      <3>1. /\ m.to \in Rank /\ m.id \in Ext[m.to]
            /\ m.id \in MidUpd[m.to] /\ variant = "FULL"
        BY DEF CopyInv, MiddleMessages, MidUpd, TypeInv, TypeOK
      <3>2. pat \in {"top", "bottom"}
        BY <1>1, <3>1 DEF Uses, Patterns
      <3>3. m.id \notin PatternBlocks[pat][Owner[m.id]]
        BY <3>1, <3>2, Copies DEF PatternBlocks, Patterns
      <3> QED
        BY <1>3, <3>1, <3>3
    <2>2. FinalStay
      BY DEF FinalStay
    <2> QED
      BY <2>1, <2>2, MiddleMessagesKept DEF CopyInv
  <1> QED
    BY <1>6, <1>7, <1>8, <1>9 DEF CopyInv

(* At the drain every copy of a middle block has been renewed.             *)
LEMMA DrainMove ==
  ASSUME TypeInv, CopyInv, EndTogether, RequestsInLoop, NEW r \in Rank, Drain(r)
  PROVE  CopyInv' /\ RequestsInLoop'
  <1>1. /\ pc[r] = "drain" /\ Enter(r, After(pc[r]))
        /\ variant' = variant /\ iters' = iters /\ R' = R
        /\ img' = img /\ midmsg' = midmsg
        /\ \A a \in MidUpd[r] \ done[r] : req[r][a] = "arrived"
        /\ done' = [done EXCEPT ![r] = @ \cup MidUpd[r]]
        /\ req' = [req EXCEPT ![r] =
                     [b \in Block |-> IF b \in MidUpd[r] THEN "none" ELSE @[b]]]
    BY DEF Drain
  <1>2. /\ req \in [Rank -> [Block -> {"none", "posted", "arrived"}]]
        /\ done \in [Rank -> SUBSET Block]
        /\ variant = "FULL"
    BY <1>1 DEF TypeInv, TypeOK, PhaseOfVariant, Fits, FullPhases
  <1>3. \A q \in Rank : \A a \in Block :
          req'[q][a] = IF q = r /\ a \in MidUpd[q] THEN "none" ELSE req[q][a]
    BY <1>1, <1>2
  <1>4. \A pat \in Patterns : pc[r] # RecvPhase(pat)
    BY <1>1 DEF RecvPhase, Patterns
  <1>5. ASSUME NEW q \in Rank, NEW a \in Ext[q]
        PROVE  /\ Updated(q, a)' <=> Updated(q, a)
               /\ pc'[q] # "end" => pc[q] # "end"
    <2>1. /\ a \in Block /\ Owner[a] \in Rank
          /\ a \in MidUpd[q] <=> a \in Middle[Owner[a]]
      BY Copies
    <2>2. /\ Updated(q, a)' <=> Updated(q, a) \/ (q = r /\ a \in Middle[Owner[a]])
          /\ pc'[q] # "end" => pc[q] # "end"
      <3>1. Renews(r, a) <=> a \in Middle[Owner[a]]
        BY <1>1, <1>4 DEF Renews
      <3>2. ~ (q = r /\ pc[r] = "drain") =>
              (req'[q][a] = "arrived" <=> req[q][a] = "arrived")
        BY <1>1, <1>3, <2>1
      <3> QED
        BY <1>1, <3>1, <3>2, UpdatedMove
    <2>3. q = r /\ a \in Middle[Owner[a]] => Updated(q, a)
      <3> SUFFICES ASSUME q = r, a \in MidUpd[r] PROVE Updated(q, a)
        BY <2>1
      <3>1. CASE a \in done[r]
        BY <1>1, <3>1 DEF CopyInv, DoneUpdated
      <3>2. CASE a \notin done[r]
        BY <1>1, <1>2, <2>1, <3>2 DEF Updated
      <3> QED
        BY <3>1, <3>2
    <2> QED
      BY <2>2, <2>3
  <1>6. FinalStay
    BY <1>1 DEF FinalStay
  <1>7. CopiesHold' /\ BegunInOrder'
    BY <1>1, <1>5, <1>6, CopiesKept, OrderKept DEF CopyInv
  <1>8. MiddleMessages'
    <2>1. \A m \in midmsg : m.to \in Rank /\ m.id \in Ext[m.to]
      BY DEF CopyInv, MiddleMessages, MidUpd, TypeInv, TypeOK
    <2> QED
      BY <1>1, <1>5, <1>6, <2>1, MiddleMessagesKept DEF CopyInv
  <1>9. DoneUpdated'
    <2> SUFFICES ASSUME NEW q \in Rank, NEW a \in Ext[q], pc'[q] # "end",
                        a \in done'[q]
                 PROVE  Updated(q, a)
      BY <1>5 DEF DoneUpdated
    <2>1. CASE a \in done[q]
      BY <1>5, <2>1 DEF CopyInv, DoneUpdated
    <2>2. CASE a \notin done[q]
      <3>1. q = r /\ a \in MidUpd[r]
        BY <1>1, <1>2, <2>2
      <3> QED
        BY <1>1, <1>2, <2>2, <3>1, Copies DEF Updated
    <2> QED
      BY <2>1, <2>2
  <1>10. RequestsInLoop'
    <2>1. \A q \in Rank : pc'[q] = IF q = r THEN After(pc[r]) ELSE pc[q]
      BY <1>1 DEF Enter, TypeInv, TypeOK
    <2> QED
      BY <1>3, <2>1 DEF RequestsInLoop
  <1> QED
    BY <1>7, <1>8, <1>9, <1>10 DEF CopyInv

-----------------------------------------------------------------------------
(* The order of row solves                                                 *)

LEMMA SolvableRow ==
  ASSUME TypeInv, TodoInSweep, NEW r \in Rank, NEW b \in Solvable(r)
  PROVE  /\ pc[r] \in SolvePhases /\ b \in todo[r]
         /\ b \in Block /\ Owner[b] = r /\ SweepOf(b) = pc[r]
         /\ pc[r] = "mid_loop" => b \in MiddleReady(r)
         /\ variant \in {"FULL", "MIDDLE_JACOBI", "BOUNDARY_JACOBI"}
  <1>1. /\ pc[r] \in SolvePhases /\ b \in todo[r]
        /\ pc[r] = "mid_loop" => b \in MiddleReady(r)
    BY DEF Solvable, SolvePhases, SweepPhases, MiddleReady, NextMiddle
  <1>2. Live(pc[r]) /\ b \in SweepSet(pc[r], r)
    BY <1>1, LivePhases DEF TodoInSweep
  <1> QED
    BY <1>1, <1>2, SweepSetOf, ParameterAssumption DEF TypeInv, TypeOK

(* A row that is coupled to a row of another rank is no inner one; of the  *)
(* two, the one that comes first has a neighbour that comes after it.      *)
LEMMA OrderedPair ==
  ASSUME variant \in {"FULL", "MIDDLE_JACOBI", "BOUNDARY_JACOBI"},
         variant \in Variants, NEW b \in Block, NEW a \in AdjExt[b],
         <<b, a>> \notin Lagged[variant], Before(a, b)
  PROVE  /\ variant # "BOUNDARY_JACOBI"
         /\ SweepOf(b) \in IF IsBackward THEN {"top", "middle", "mid_loop"}
                                         ELSE {"bottom", "middle", "mid_loop"}
         /\ \/ a \in Middle[Owner[a]]
            \/ IsBackward /\ a \in Bottom[Owner[a]]
            \/ ~ IsBackward /\ a \in Top[Owner[a]]
         /\ SweepOf(b) = "middle" => a \notin Middle[Owner[a]]
         /\ a \in Block /\ Owner[a] \in Rank /\ a \in Ext[Owner[b]]
  <1>1. /\ a \in Block /\ Owner[a] \in Rank /\ a \in Ext[Owner[b]]
        /\ Owner[b] \in Rank /\ <<b, a>> \in Adj /\ b \in AdjExt[a]
        /\ b \in Mine[Owner[b]] /\ a \in Mine[Owner[a]]
    BY OwnerAssumption, AdjAssumption, ExternalBlocks DEF AdjExt, Mine
  <1>2. Color[Owner[a]] \in Nat /\ Color[Owner[b]] \in Nat
    BY <1>1, ColorAssumption
  <1>3. /\ variant # "BOUNDARY_JACOBI"
        /\ variant = "MIDDLE_JACOBI" =>
             b \notin Middle[Owner[b]] \/ a \notin Middle[Owner[a]]
    <2>1. <<b, a>>[1] = b /\ <<b, a>>[2] = a
      OBVIOUS
    <2> QED
      BY <1>1, <2>1 DEF Lagged
  <1>4. CASE IsBackward
    <2>1. HasLower(b) /\ HasHigher(a)
      BY <1>1, <1>2, <1>4 DEF Before, HasLower, HasHigher
    <2> QED
      BY <1>1, <1>3, <1>4, <2>1 DEF SweepOf, Top, Bottom, Middle
  <1>5. CASE ~ IsBackward
    <2>1. HasHigher(b) /\ HasLower(a)
      BY <1>1, <1>2, <1>5 DEF Before, HasLower, HasHigher
    <2> QED
      BY <1>1, <1>3, <1>5, <2>1 DEF SweepOf, Top, Bottom, Middle
  <1> QED
    BY <1>4, <1>5

(* A rank that may solve a row has got all copies the row has to wait for. *)
LEMMA ReadyInOrder ==
  ASSUME TypeInv, TodoInSweep, DoneUpdated, RequestsInLoop,
         NEW r \in Rank, NEW b \in Solvable(r), NEW a \in AdjExt[b],
         <<b, a>> \notin Lagged[variant], Before(a, b)
  PROVE  Updated(r, a)
  <1>1. /\ pc[r] \in SolvePhases /\ b \in todo[r]
        /\ b \in Block /\ Owner[b] = r /\ SweepOf(b) = pc[r]
        /\ pc[r] = "mid_loop" => b \in MiddleReady(r)
        /\ variant \in {"FULL", "MIDDLE_JACOBI", "BOUNDARY_JACOBI"}
        /\ variant \in Variants
    BY SolvableRow DEF TypeInv, TypeOK
  <1>2. /\ variant # "BOUNDARY_JACOBI"
        /\ pc[r] \in IF IsBackward THEN {"top", "middle", "mid_loop"}
                                   ELSE {"bottom", "middle", "mid_loop"}
        /\ \/ a \in Middle[Owner[a]]
           \/ IsBackward /\ a \in Bottom[Owner[a]]
           \/ ~ IsBackward /\ a \in Top[Owner[a]]
        /\ pc[r] = "middle" => a \notin Middle[Owner[a]]
        /\ a \in Block /\ Owner[a] \in Rank /\ a \in Ext[r]
    BY <1>1, OrderedPair
  <1>3. /\ PartNo(pc[r]) \in {2, 3}
        /\ pc[r] \notin {"middle", "mid_loop"} => PartNo(pc[r]) = 3
        /\ pc[r] # "end"
    BY <1>2 DEF PartNo, TopPhases, MidPhases, FullPhases, MiddleJacobiPhases
  <1>4. /\ IsBackward => Rcvd("bottom", pc[r])
        /\ ~ IsBackward => Rcvd("top", pc[r])
        /\ pc[r] \notin {"middle", "mid_loop"} =>
             PartNo(pc[r]) > 2 /\ Rcvd("middle", pc[r])
    BY <1>3 DEF Rcvd, PatternPart
  <1>5. CASE a \notin Middle[Owner[a]]
    BY <1>2, <1>3, <1>4, <1>5 DEF Updated
  <1>6. CASE a \in Middle[Owner[a]] /\ pc[r] \notin {"middle", "mid_loop"}
    BY <1>2, <1>3, <1>4, <1>6 DEF Updated
  <1>7. CASE a \in Middle[Owner[a]] /\ pc[r] = "mid_loop"
    <2>1. variant = "FULL"
      BY <1>7 DEF TypeInv, PhaseOfVariant, Fits, FullPhases
    <2>2. CASE a \in done[r]
      BY <1>2, <1>3, <2>2 DEF DoneUpdated
    <2>3. CASE a \notin done[r]
      <3>1. Color[Owner[a]] \in Nat /\ Color[r] \in Nat
        BY <1>2, ColorAssumption
      <3>2. a \in Awaited(r, b)
        BY <1>1, <2>3, <3>1 DEF Awaited, Before
      <3>3. req[r][a] = "arrived"
        BY <1>1, <1>7, <3>2 DEF MiddleReady
      <3> QED
        BY <1>2, <1>3, <1>7, <2>1, <3>3 DEF Updated
    <2> QED
      BY <2>2, <2>3
  <1> QED
    BY <1>2, <1>5, <1>6, <1>7

(* Of two coupled rows one comes before the other.                         *)
LEMMA Ordered ==
  ASSUME NEW b \in Block, NEW a \in AdjExt[b], variant \in Variants
  PROVE  /\ Before(a, b) \/ Before(b, a)
         /\ b \in AdjExt[a]
         /\ <<b, a>> \notin Lagged[variant] => <<a, b>> \notin Lagged[variant]
  <1>1. /\ a \in Block /\ Owner[a] \in Rank /\ Owner[b] \in Rank
        /\ <<b, a>> \in Adj /\ <<a, b>> \in Adj /\ b \in AdjExt[a]
    BY OwnerAssumption, AdjAssumption DEF AdjExt
  <1>2. /\ Color[Owner[a]] \in Nat /\ Color[Owner[b]] \in Nat
        /\ Color[Owner[a]] # Color[Owner[b]]
    BY <1>1, ColorAssumption
  <1>3. <<b, a>> \notin Lagged[variant] => <<a, b>> \notin Lagged[variant]
    <2>1. /\ <<b, a>>[1] = b /\ <<b, a>>[2] = a
          /\ <<a, b>>[1] = a /\ <<a, b>>[2] = b
      OBVIOUS
    <2>2. /\ \A p, q : (\A k \in 1 .. 2 : <<p, q>>[k] \in Middle[Owner[<<p, q>>[k]]])
                 <=> p \in Middle[Owner[p]] /\ q \in Middle[Owner[q]]
      OBVIOUS
    <2> QED
      BY <1>1, <2>1, <2>2 DEF Lagged
  <1> QED
    BY <1>1, <1>2, <1>3 DEF Before

(* What a row solve reads: a copy that the row does not wait for is that of *)
(* a row which waits for this one, and has not been begun.                 *)
LEMMA ReadsLatest ==
  ASSUME TypeInv, SolveCounts, TodoInSweep, CopyInv, RequestsInLoop,
         NEW r \in Rank, NEW b \in Solvable(r), R[b] < Finish(b),
         NEW a \in AdjExt[b]
  PROVE  /\ img[r][a] \in {R[a], Start(a)}
         /\ <<b, a>> \notin Lagged[variant] =>
              /\ img[r][a] = R[a]
              /\ Updated(r, a) <=> R[a] # Start(a)
  <1>1. b \in Block /\ Owner[b] = r /\ variant \in Variants
    BY SolvableRow DEF TypeInv, TypeOK
  <1>2. /\ a \in Block /\ Owner[a] \in Rank /\ a \in Ext[r]
        /\ b \in Ext[Owner[a]]
    <2>1. b \in AdjExt[a]
      BY <1>1, Ordered
    <2> QED
      BY <1>1, <2>1, ExternalBlocks
  <1>3. IF Updated(r, a) THEN R[a] = Finish(a) /\ img[r][a] = Finish(a)
                         ELSE img[r][a] = Start(a)
    BY <1>2 DEF CopyInv, CopiesHold
  <1>4. ASSUME <<b, a>> \notin Lagged[variant], ~ Updated(r, a)
        PROVE  R[a] = Start(a)
    <2>1. /\ ~ Before(a, b)
      BY <1>4, ReadyInOrder DEF CopyInv
    <2>2. /\ Before(b, a) /\ b \in AdjExt[a] /\ <<a, b>> \notin Lagged[variant]
      BY <1>1, <1>4, <2>1, Ordered
    <2>3. R[a] # Start(a) => Updated(Owner[a], b)
      BY <1>2, <2>2 DEF CopyInv, BegunInOrder
    <2>4. Updated(Owner[a], b) => R[b] = Finish(b)
      BY <1>2 DEF CopyInv, CopiesHold
    <2> QED
      BY <1>1, <2>3, <2>4, SolveBounds
  <1>5. Start(a) < Finish(a) /\ Start(a) \in Nat /\ Finish(a) \in Nat
    BY <1>2, SolveBounds
  <1> QED
    BY <1>3, <1>4, <1>5

-----------------------------------------------------------------------------
(* Row solves                                                              *)

LEMMA SolveStep ==
  ASSUME TypeInv, SolveCounts, TodoInSweep, CopyInv, RequestsInLoop,
         NEW r \in Rank, NEW b \in Solvable(r), Solve(r, b),
         todo' = [todo EXCEPT ![r] = @ \ {b}], pc' = pc, loops' = loops,
         variant' = variant, iters' = iters, img' = img, req' = req
  PROVE  /\ SolveCounts' /\ TodoInSweep' /\ CopiesHold' /\ BegunInOrder'
         /\ FinalStay
         /\ R[b] < Finish(b)
         /\ \A q \in Rank : \A a \in Ext[q] : Updated(q, a)' <=> Updated(q, a)
  <1>1. /\ pc[r] \in SolvePhases /\ b \in todo[r]
        /\ b \in Block /\ Owner[b] = r
    BY SolvableRow
  <1>2. R' = [R EXCEPT ![b] = @ + 1] /\ R \in [Block -> Nat]
    BY DEF Solve, TypeInv, TypeOK
  <1>3. SolveCounts' /\ TodoInSweep' /\ R[b] < Finish(b)
    BY <1>1, <1>2, CountsSolve, TodoDue
  <1>4. Finish(b) \in Nat
    BY <1>1, SolveBounds
  <1>5. FinalStay
    BY <1>2, <1>3, <1>4 DEF FinalStay
  <1>6. \A q \in Rank : \A a \in Ext[q] : Updated(q, a)' <=> Updated(q, a)
    BY UpdatedStay
  <1>7. CopiesHold'
    BY <1>5, <1>6, CopiesKept DEF CopyInv
  <1>8. BegunInOrder'
    <2> SUFFICES ASSUME NEW y \in Block, NEW a \in AdjExt[y],
                        <<y, a>> \notin Lagged[variant], Before(a, y)',
                        R'[y] # Start(y)'
                 PROVE  Updated(Owner[y], a)'
      BY DEF BegunInOrder
    <2>1. Owner[y] \in Rank /\ a \in Ext[Owner[y]]
      BY OwnerAssumption, ExternalBlocks
    <2>2. Before(a, y) /\ Start(y)' = Start(y)
      BY DueKept DEF Before, IsBackward
    <2>3. CASE y = b
      BY <1>1, <1>6, <2>1, <2>2, <2>3, ReadyInOrder DEF CopyInv
    <2>4. CASE y # b
      BY <1>2, <1>6, <2>1, <2>2, <2>4 DEF CopyInv, BegunInOrder
    <2> QED
      BY <2>3, <2>4
  <1> QED
    BY <1>3, <1>5, <1>6, <1>7, <1>8

LEMMA SweepBlockStep ==
  ASSUME TypeInv, SolveCounts, TodoInSweep, CopyInv, RequestsInLoop,
         NEW r \in Rank, SweepBlock(r)
  PROVE  SolveCounts' /\ TodoInSweep' /\ CopyInv' /\ FinalStay
  <1>1. PICK b \in todo[r] : Solve(r, b) /\ todo' = [todo EXCEPT ![r] = @ \ {b}]
    BY DEF SweepBlock
  <1>2. b \in Solvable(r)
    BY DEF SweepBlock, Solvable
  <1>3. /\ SolveCounts' /\ TodoInSweep' /\ CopiesHold' /\ BegunInOrder'
        /\ FinalStay
        /\ \A q \in Rank : \A a \in Ext[q] : Updated(q, a)' <=> Updated(q, a)
    BY <1>1, <1>2, SolveStep DEF SweepBlock
  <1>4. MiddleMessages'
    <2>1. \A m \in midmsg : m.to \in Rank /\ m.id \in Ext[m.to]
      BY DEF CopyInv, MiddleMessages, MidUpd, TypeInv, TypeOK
    <2> QED
      BY <1>3, <2>1, MiddleMessagesKept DEF CopyInv, SweepBlock
  <1>5. DoneUpdated'
    BY <1>3 DEF SweepBlock, CopyInv, DoneUpdated
  <1> QED
    BY <1>3, <1>4, <1>5 DEF CopyInv

LEMMA MiddleBlockStep ==
  ASSUME TypeInv, SolveCounts, TodoInSweep, CopyInv, RequestsInLoop,
         NEW r \in Rank, MiddleBlock(r)
  PROVE  SolveCounts' /\ TodoInSweep' /\ CopyInv' /\ FinalStay
  <1>1. PICK b \in MiddleReady(r) :
          /\ Solve(r, b)
          /\ todo' = [todo EXCEPT ![r] = @ \ {b}]
          /\ done' = [done EXCEPT ![r] = @ \cup Awaited(r, b)]
          /\ midmsg' = midmsg \cup
               {[id |-> b, to |-> q, val |-> R[b] + 1] : q \in Ranks[b]}
    BY DEF MiddleBlock
  <1>2. /\ pc[r] = "mid_loop" /\ variant' = variant /\ iters' = iters
        /\ pc' = pc /\ loops' = loops /\ img' = img /\ req' = req
    BY DEF MiddleBlock
  <1>3. b \in Solvable(r)
    BY <1>2 DEF Solvable, SweepPhases
  <1>4. /\ SolveCounts' /\ TodoInSweep' /\ CopiesHold' /\ BegunInOrder'
        /\ FinalStay /\ R[b] < Finish(b)
        /\ \A q \in Rank : \A a \in Ext[q] : Updated(q, a)' <=> Updated(q, a)
    BY <1>1, <1>2, <1>3, SolveStep
  <1>5. /\ b \in Block /\ Owner[b] = r /\ SweepOf(b) = "mid_loop"
        /\ variant \in Variants /\ TypeOK
    BY <1>2, <1>3, SolvableRow DEF TypeInv, TypeOK
  <1>6. variant = "FULL" /\ b \in Middle[Owner[b]]
    BY <1>5, SweepOfLive
  <1>7. R'[b] = R[b] + 1 /\ R[b] + 1 = Finish(b) /\ Finish(b)' = Finish(b)
    <2>1. R'[b] = R[b] + 1
      BY <1>1, <1>5 DEF Solve, TypeOK
    <2>2. Finish(b) = Start(b) + 1
      BY <1>5, <1>6, DueSolves
    <2>3. R[b] \in Nat /\ Start(b) \in Nat /\ Start(b) <= R[b]
      BY <1>5, SolveBounds
    <2> QED
      BY <1>2, <1>4, <2>1, <2>2, <2>3, DueKept
  <1>8. MiddleMessages'
    <2> SUFFICES ASSUME NEW m \in midmsg'
                 PROVE  /\ variant = "FULL" /\ m.id \in MidUpd[m.to]
                        /\ R'[m.id] = Finish(m.id) /\ m.val = Finish(m.id)
                        /\ ~ Updated(m.to, m.id)'
      BY <1>2, DueKept DEF MiddleMessages
    <2>1. CASE m \in midmsg
      <3>1. m.to \in Rank /\ m.id \in Ext[m.to] /\ m.id \in Block
        BY <2>1 DEF CopyInv, MiddleMessages, MidUpd, TypeInv, TypeOK
      <3> QED
        BY <1>4, <2>1, <3>1 DEF CopyInv, MiddleMessages, FinalStay
    <2>2. CASE m \notin midmsg
      <3>1. PICK q \in Ranks[b] : m = [id |-> b, to |-> q, val |-> R[b] + 1]
        BY <1>1, <2>2
      <3>2. q \in Rank /\ b \in Ext[q] /\ b \in MidUpd[q]
        BY <1>5, <1>6, SentAreCopies DEF MidUpd
      <3>3. R[b] # Finish(b)
        BY <1>5, <1>7, SolveBounds
      <3>4. ~ Updated(q, b)'
        BY <1>4, <3>2, <3>3 DEF CopyInv, CopiesHold
      <3> QED
        BY <1>6, <1>7, <3>1, <3>2, <3>4
    <2> QED
      BY <2>1, <2>2
  <1>9. DoneUpdated'
    <2> SUFFICES ASSUME NEW q \in Rank, NEW a \in Ext[q], pc[q] # "end",
                        a \in done'[q]
                 PROVE  Updated(q, a)
      BY <1>2, <1>4 DEF DoneUpdated
    <2>1. CASE a \in done[q]
      BY <2>1 DEF CopyInv, DoneUpdated
    <2>2. CASE a \notin done[q]
      <3>1. q = r /\ a \in Awaited(r, b)
        BY <1>1, <2>2 DEF TypeInv, TypeOK
      <3>2. req[r][a] = "arrived"
        BY <3>1 DEF MiddleReady
      <3>3. a \in Middle[Owner[a]]
        BY <3>1, <3>2, Copies DEF RequestsInLoop
      <3> QED
        BY <1>6, <3>1, <3>2, <3>3 DEF Updated
    <2> QED
      BY <2>1, <2>2
  <1> QED
    BY <1>4, <1>8, <1>9 DEF CopyInv

-----------------------------------------------------------------------------
(* A reaction of a middle block arrives                                    *)

LEMMA DeliverStep ==
  ASSUME TypeInv, CopyInv, RequestsInLoop, NEW m \in midmsg, Deliver(m)
  PROVE  CopyInv' /\ RequestsInLoop' /\ FinalStay
  <1>1. /\ req[m.to][m.id] = "posted"
        /\ img' = [img EXCEPT ![m.to][m.id] = m.val]
        /\ req' = [req EXCEPT ![m.to][m.id] = "arrived"]
        /\ midmsg' = midmsg \ {m}
        /\ variant' = variant /\ iters' = iters /\ pc' = pc /\ R' = R
        /\ done' = done
    BY DEF Deliver
  <1>2. /\ m.to \in Rank /\ m.id \in Block /\ m.id \in MidUpd[m.to]
        /\ m.id \in Ext[m.to] /\ variant = "FULL"
        /\ R[m.id] = Finish(m.id) /\ m.val = Finish(m.id)
        /\ ~ Updated(m.to, m.id)
    BY DEF CopyInv, MiddleMessages, MidUpd, TypeInv, TypeOK
  <1>3. /\ m.id \in Middle[Owner[m.id]]
        /\ pc[m.to] \in {"mid_loop", "wait_sends", "drain"}
    BY <1>1, <1>2, Copies DEF RequestsInLoop
  <1>4. \A q \in Rank : \A a \in Block :
          /\ req'[q][a] = IF q = m.to /\ a = m.id THEN "arrived" ELSE req[q][a]
          /\ img'[q][a] = IF q = m.to /\ a = m.id THEN m.val ELSE img[q][a]
    BY <1>1, <1>2 DEF TypeInv, TypeOK
  <1>5. ASSUME NEW q \in Rank, NEW a \in Ext[q]
        PROVE  /\ a \in Block
               /\ Updated(q, a)' <=> Updated(q, a) \/ (q = m.to /\ a = m.id)
    <2>1. a \in Block
      BY BlockSets
    <2>2. CASE q = m.to /\ a = m.id
      BY <1>1, <1>2, <1>3, <1>4, <2>1, <2>2 DEF Updated
    <2>3. CASE ~ (q = m.to /\ a = m.id)
      BY <1>1, <1>4, <2>1, <2>3, UpdatedStay
    <2> QED
      BY <2>1, <2>2, <2>3
  <1>6. \A b : Finish(b)' = Finish(b) /\ Start(b)' = Start(b)
    BY <1>1, DueKept
  <1>7. CopiesHold'
    BY <1>1, <1>2, <1>4, <1>5, <1>6 DEF CopyInv, CopiesHold
  <1>8. FinalStay
    BY <1>1 DEF FinalStay
  <1>9. MiddleMessages'
    <2>1. ASSUME NEW x \in midmsg'
          PROVE  Updated(x.to, x.id)' <=> Updated(x.to, x.id)
      <3>1. /\ x \in midmsg /\ x # m /\ x.to \in Rank /\ x.id \in Ext[x.to]
            /\ x.val = Finish(x.id)
        BY <1>1 DEF CopyInv, MiddleMessages, MidUpd, TypeInv, TypeOK
      <3>2. ~ (x.to = m.to /\ x.id = m.id)
        <4>1. /\ x \in [id : Block, to : Rank, val : Nat]
              /\ m \in [id : Block, to : Rank, val : Nat]
          BY <3>1 DEF TypeInv, TypeOK
        <4> QED
          BY <1>2, <3>1, <4>1
      <3> QED
        BY <1>5, <3>1, <3>2
    <2> QED
      BY <1>1, <1>8, <2>1, MiddleMessagesKept DEF CopyInv
  <1>10. DoneUpdated'
    BY <1>1, <1>5 DEF CopyInv, DoneUpdated
  <1>11. BegunInOrder'
    BY <1>1, <1>5, OrderKept DEF CopyInv
  <1>12. RequestsInLoop'
    BY <1>1, <1>2, <1>3, <1>4 DEF RequestsInLoop
  <1> QED
    BY <1>7, <1>8, <1>9, <1>10, <1>11, <1>12 DEF CopyInv

-----------------------------------------------------------------------------
(* Steps of one rank                                                       *)

Progress == EndTogether /\ TodoInSweep /\ SolveCounts

LEMMA ProgressMove ==
  ASSUME TypeInv, Progress, NEW r \in Rank,
         pc[r] \notin {"reduce", "end"} \cup SolvePhases,
         Enter(r, After(pc[r])), variant' = variant, iters' = iters, R' = R
  PROVE  Progress'
  <1>1. pc[r] \notin SweepPhases /\ pc[r] # "mid_loop"
    BY DEF SolvePhases
  <1> QED
    BY <1>1, CountsMove, EndMove DEF Progress

LEMMA StepSweepInv ==
  ASSUME SweepInv, NEW r \in Rank, Step(r)
  PROVE  Progress' /\ MessagesFinal' /\ RequestsInLoop' /\ CopyInv'
  <1>0. /\ TypeInv /\ Net /\ Progress /\ MessagesFinal /\ RequestsInLoop /\ CopyInv
        /\ EndTogether /\ TodoInSweep /\ SolveCounts
    BY DEF SweepInv, PatternInv, Net, Progress, CopyInv
  <1>1. ASSUME pc' = pc, FinalStay, chan' = chan
        PROVE  EndTogether' /\ MessagesFinal'
    BY <1>0, <1>1, MessagesKept DEF EndTogether
  <1>2. ASSUME pc' = pc, req' = req
        PROVE  RequestsInLoop'
    BY <1>0, <1>2 DEF RequestsInLoop
  <1>3. CASE SweepBlock(r)
    BY <1>0, <1>1, <1>2, <1>3, SweepBlockStep DEF SweepBlock, Progress
  <1>4. CASE MiddleBlock(r)
    BY <1>0, <1>1, <1>2, <1>4, MiddleBlockStep DEF MiddleBlock, Progress
  <1>5. CASE SweepAgain(r)
    <2>1. /\ pc' = pc /\ variant' = variant /\ iters' = iters /\ R' = R
          /\ req' = req /\ img' = img /\ done' = done /\ midmsg' = midmsg
          /\ chan' = chan
      BY <1>5 DEF SweepAgain
    <2>2. FinalStay
      BY <2>1 DEF FinalStay
    <2>3. \A q, a : Updated(q, a)' <=> Updated(q, a)
      BY <2>1, UpdatedStay
    <2>4. CopyInv'
      <3>1. CopiesHold' /\ BegunInOrder' /\ MiddleMessages'
        BY <1>0, <2>1, <2>2, <2>3, CopiesKept, OrderKept, MiddleMessagesKept
        DEF CopyInv
      <3>2. DoneUpdated'
        BY <1>0, <2>1, <2>3 DEF CopyInv, DoneUpdated
      <3> QED
        BY <3>1, <3>2 DEF CopyInv
    <2> QED
      BY <1>0, <1>1, <1>2, <1>5, <2>1, <2>2, <2>4, CountsAgain DEF Progress
  <1>6. CASE SweepEnd(r) \/ MiddleEnd(r)
    <2>1. /\ pc[r] \in SolvePhases
          /\ Enter(r, After(pc[r]))
          /\ variant' = variant /\ iters' = iters /\ R' = R
          /\ req' = req /\ img' = img /\ done' = done /\ midmsg' = midmsg
          /\ chan' = chan
          /\ todo[r] = {}
          /\ pc[r] \in SweepPhases => loops[r] = 1
      BY <1>6 DEF SweepEnd, MiddleEnd, SolvePhases, SweepPhases
    <2>2. /\ pc[r] \notin {"reduce", "end", "update_ext", "drain"}
          /\ \A pat \in Patterns : pc[r] # RecvPhase(pat)
      BY <2>1 DEF SolvePhases, SweepPhases, RecvPhase, Patterns
    <2>3. CopyInv' /\ RequestsInLoop' /\ EndTogether'
      BY <1>0, <2>1, <2>2, QuietMove, RequestsMove, EndMove
    <2>4. SolveCounts' /\ TodoInSweep'
      BY <1>0, <2>1, <2>2, CountsMove
    <2>5. MessagesFinal'
      BY <1>0, <2>1, MessagesKept DEF FinalStay
    <2> QED
      BY <2>3, <2>4, <2>5 DEF Progress
  <1>7. ASSUME NEW pat \in Patterns, pc[r] = SendPhase(pat), Transmit(pat, r),
               Enter(r, After(pc[r])), variant' = variant, iters' = iters,
               R' = R, img' = img, done' = done, req' = req, midmsg' = midmsg
        PROVE  Progress' /\ MessagesFinal' /\ RequestsInLoop' /\ CopyInv'
    <2>1. /\ pc[r] \notin {"reduce", "end", "update_ext", "drain"} \cup SolvePhases
          /\ \A x \in Patterns : pc[r] # RecvPhase(x)
      BY <1>7 DEF SolvePhases, SweepPhases, SendPhase, RecvPhase, Patterns
    <2>2. CopyInv' /\ RequestsInLoop'
      BY <1>0, <1>7, <2>1, QuietMove, RequestsMove
    <2>3. Progress'
      BY <1>0, <1>7, <2>1, ProgressMove
    <2>4. MessagesFinal'
      BY <1>0, <1>7, MessagesSend
    <2> QED
      BY <2>2, <2>3, <2>4
  <1>8. ASSUME NEW pat \in Patterns, pc[r] = RecvPhase(pat), Receive(r, pat),
               Enter(r, After(pc[r])), variant' = variant, iters' = iters,
               R' = R, req' = req, midmsg' = midmsg
        PROVE  Progress' /\ MessagesFinal' /\ RequestsInLoop' /\ CopyInv'
    <2>1. /\ pc[r] \notin {"reduce", "end", "update_ext", "drain"} \cup SolvePhases
      BY <1>8 DEF SolvePhases, SweepPhases, RecvPhase, Patterns
    <2>2. CopyInv' /\ RequestsInLoop'
      BY <1>0, <1>8, <2>1, ReceiveMove, RequestsMove
    <2>3. Progress'
      BY <1>0, <1>8, <2>1, ProgressMove
    <2>4. MessagesFinal'
      BY <1>0, <1>8, MessagesReceive
    <2> QED
      BY <2>2, <2>3, <2>4
  <1>9. CASE Send(r, "top") \/ Send(r, "bottom") \/ ReadySend(r)
    BY <1>7, <1>9 DEF Send, ReadySend, SendPhase, Patterns
  <1>10. CASE Recv(r, "top") \/ Recv(r, "bottom") \/ RecvRepeat(r)
    BY <1>8, <1>10 DEF Recv, RecvRepeat, RecvPhase, Patterns
  <1>11. CASE PostMiddle(r) \/ WaitSends(r) \/ PostRepeat(r)
    <2>1. /\ pc[r] \in {"post_mid", "wait_sends", "post_rep"}
          /\ Enter(r, After(pc[r]))
          /\ variant' = variant /\ iters' = iters /\ R' = R
          /\ img' = img /\ done' = done /\ midmsg' = midmsg /\ chan' = chan
      BY <1>11 DEF PostMiddle, WaitSends, PostRepeat
    <2>2. /\ pc[r] \notin {"reduce", "end", "update_ext", "drain"} \cup SolvePhases
          /\ \A x \in Patterns : pc[r] # RecvPhase(x)
      BY <2>1 DEF SolvePhases, SweepPhases, RecvPhase, Patterns
    <2>3. Progress'
      BY <1>0, <2>1, <2>2, ProgressMove
    <2>4. MessagesFinal'
      BY <1>0, <2>1, MessagesKept DEF FinalStay
    <2>5. CASE PostMiddle(r)
      <3>1. /\ pc[r] = "post_mid"
            /\ req' = [req EXCEPT ![r] =
                         [b \in Block |-> IF b \in MidUpd[r] THEN "posted" ELSE @[b]]]
        BY <2>5 DEF PostMiddle
      <3>2. \A q \in Rank : \A a \in Block :
              req'[q][a] = IF q = r /\ a \in MidUpd[q] THEN "posted" ELSE req[q][a]
        BY <1>0, <3>1 DEF TypeInv, TypeOK
      <3>3. \A a \in Block : req[r][a] = "none"
        BY <1>0, <3>1 DEF RequestsInLoop
      <3>4. \A q \in Rank : \A a \in Ext[q] :
              req'[q][a] = "arrived" <=> req[q][a] = "arrived"
        BY <3>2, <3>3, BlockSets
      <3>5. CopyInv'
        BY <1>0, <2>1, <2>2, <3>4, QuietMove
      <3>6. \A q \in Rank : pc'[q] = IF q = r THEN "mid_loop" ELSE pc[q]
        BY <1>0, <2>1, <3>1 DEF Enter, After, TypeInv, TypeOK
      <3>7. RequestsInLoop'
        BY <1>0, <3>2, <3>3, <3>6 DEF RequestsInLoop
      <3> QED
        BY <2>3, <2>4, <3>5, <3>7
    <2>6. CASE WaitSends(r) \/ PostRepeat(r)
      <3>1. req' = req
        BY <2>6 DEF WaitSends, PostRepeat
      <3>2. CopyInv' /\ RequestsInLoop'
        BY <1>0, <2>1, <2>2, <3>1, QuietMove, RequestsMove
      <3> QED
        BY <2>3, <2>4, <3>2
    <2> QED
      BY <1>11, <2>5, <2>6
  <1>12. CASE Drain(r)
    <2>1. /\ pc[r] = "drain" /\ Enter(r, After(pc[r])) /\ chan' = chan
          /\ variant' = variant /\ iters' = iters /\ R' = R
      BY <1>12 DEF Drain
    <2>2. pc[r] \notin {"reduce", "end"} \cup SolvePhases
      BY <2>1 DEF SolvePhases, SweepPhases
    <2>3. Progress'
      BY <1>0, <2>1, <2>2, ProgressMove
    <2>4. MessagesFinal'
      BY <1>0, <2>1, MessagesKept DEF FinalStay
    <2> QED
      BY <1>0, <1>12, <2>3, <2>4, DrainMove
  <1> QED
    BY <1>3, <1>4, <1>5, <1>6, <1>9, <1>10, <1>11, <1>12 DEF Step

-----------------------------------------------------------------------------
(* Collectives                                                             *)

LEMMA BarrierStep ==
  ASSUME SweepInv, Barrier
  PROVE  Progress' /\ MessagesFinal' /\ RequestsInLoop' /\ CopyInv'
  <1>1. /\ TypeInv /\ CopyInv /\ RequestsInLoop /\ MessagesFinal /\ SolveCounts
        /\ TodoInSweep
    BY DEF SweepInv, PatternInv, CopyInv
  <1>2. /\ \A r \in Rank : pc[r] = "barrier" /\ pc'[r] = "rsend"
        /\ variant' = variant /\ iters' = iters /\ todo' = todo
        /\ loops' = loops /\ R' = R /\ img' = img /\ done' = done
        /\ chan' = chan /\ req' = req /\ midmsg' = midmsg
    BY DEF Barrier, After
  <1>3. /\ \A b : Finish(b)' = Finish(b) /\ Start(b)' = Start(b)
        /\ FinalStay
    BY <1>2, DueKept DEF FinalStay
  <1>4. EndTogether'
    BY <1>2 DEF EndTogether
  <1>5. TodoInSweep'
    BY <1>1, <1>2 DEF TodoInSweep, SweepSet
  <1>6. SolveCounts'
    <2> SUFFICES ASSUME NEW b \in Block PROVE Solved(b)' = Solved(b)
      BY <1>1, <1>2, <1>3 DEF SolveCounts
    <2>1. Owner[b] \in Rank /\ SweepOf(b) \in SolvePhases /\ SweepOf(b)' = SweepOf(b)
      BY <1>1, <1>2, SweepOfLive, OwnerAssumption DEF TypeInv, TypeOK, SweepOf
    <2>2. /\ Rcvd("top", "rsend")' <=> Rcvd("top", "barrier")
          /\ Rcvd("bottom", "rsend")' <=> Rcvd("bottom", "barrier")
          /\ Rcvd("middle", "rsend")' <=> Rcvd("middle", "barrier")
          /\ (PartNo("rsend") > 2)' <=> PartNo("barrier") > 2
      BY <1>2 DEF Rcvd, PartNo, PatternPart, IsBackward, MidPhases,
                  MiddleJacobiPhases
    <2>3. Over(SweepOf(b), "rsend")' <=> Over(SweepOf(b), "barrier")
      BY <2>1, <2>2 DEF Over
    <2>4. "rsend" \notin SolvePhases /\ "barrier" \notin SolvePhases
      BY DEF SolvePhases, SweepPhases
    <2> DEFINE s == SweepOf(b)
    <2>5. Solved(b) = IF Over(s, "barrier") THEN Quota[variant][b] ELSE 0
      BY <1>2, <2>1, <2>4 DEF Solved
    <2>6. Solved(b)' = IF Over(s, "rsend")' THEN Quota[variant][b] ELSE 0
      BY <1>2, <2>1, <2>4 DEF Solved
    <2> QED
      BY <2>3, <2>5, <2>6
  <1>7. ASSUME NEW q \in Rank, NEW a \in Ext[q]
        PROVE  Updated(q, a)' <=> Updated(q, a)
    BY <1>2 DEF Updated, Rcvd, PartNo, PatternPart, IsBackward, MidPhases,
                MiddleJacobiPhases
  <1>8. MessagesFinal'
    BY <1>1, <1>2, <1>3, MessagesKept
  <1>9. RequestsInLoop'
    BY <1>1, <1>2 DEF RequestsInLoop
  <1>10. CopiesHold' /\ BegunInOrder'
    BY <1>1, <1>2, <1>3, <1>7, CopiesKept, OrderKept DEF CopyInv
  <1>11. MiddleMessages'
    <2>1. \A m \in midmsg : m.to \in Rank /\ m.id \in Ext[m.to]
      BY <1>1 DEF CopyInv, MiddleMessages, MidUpd, TypeInv, TypeOK
    <2> QED
      BY <1>1, <1>2, <1>3, <1>7, <2>1, MiddleMessagesKept DEF CopyInv
  <1>12. DoneUpdated'
    BY <1>1, <1>2, <1>7 DEF CopyInv, DoneUpdated
  <1> QED
    BY <1>4, <1>5, <1>6, <1>8, <1>9, <1>10, <1>11, <1>12 DEF Progress, CopyInv

LEMMA UpdateExternalStep ==
  ASSUME SweepInv, UpdateExternal
  PROVE  Progress' /\ MessagesFinal' /\ RequestsInLoop' /\ CopyInv'
  <1>1. /\ TypeInv /\ CopyInv /\ RequestsInLoop /\ MessagesFinal /\ SolveCounts
        /\ TodoInSweep
    BY DEF SweepInv, PatternInv, CopyInv
  <1>2. /\ \A r \in Rank : pc[r] = "update_ext" /\ pc'[r] = "reduce"
        /\ variant' = variant /\ iters' = iters /\ todo' = todo
        /\ loops' = loops /\ R' = R /\ done' = done
        /\ chan' = chan /\ req' = req /\ midmsg' = midmsg
        /\ img' = [r \in Rank |-> [b \in Block |-> IF b \in Ext[r] THEN R[b]
                                                               ELSE img[r][b]]]
    BY DEF UpdateExternal, After
  <1>3. variant = "BOUNDARY_JACOBI"
    BY <1>1, <1>2, OwnerAssumption
    DEF TypeInv, PhaseOfVariant, Fits, BoundaryPhases
  <1>4. /\ \A b : Finish(b)' = Finish(b) /\ Start(b)' = Start(b)
        /\ FinalStay
    BY <1>2, DueKept DEF FinalStay
  <1>5. EndTogether'
    BY <1>2 DEF EndTogether
  <1>6. TodoInSweep'
    BY <1>1, <1>2 DEF TodoInSweep, SweepSet
  <1>7. ASSUME NEW b \in Block
        PROVE  /\ Solved(b)' = Solved(b)
               /\ R[b] = Finish(b)
    <2>1. Owner[b] \in Rank
      BY OwnerAssumption
    <2>2. Solved(b)' = Quota[variant][b] /\ Solved(b) = Quota[variant][b]
      BY <1>2, <1>3, <2>1 DEF Solved, SweepOf, Over
    <2> QED
      BY <1>1, <2>2, DueSolves DEF SolveCounts, TypeInv
  <1>8. SolveCounts'
    BY <1>1, <1>2, <1>4, <1>7 DEF SolveCounts
  <1>9. ASSUME NEW q \in Rank, NEW a \in Ext[q]
        PROVE  Updated(q, a)' /\ a \in Block
    BY <1>2, <1>3, BlockSets DEF Updated
  <1>10. CopiesHold'
    BY <1>2, <1>4, <1>7, <1>9 DEF CopiesHold
  <1>11. BegunInOrder' /\ DoneUpdated'
    BY <1>9, <1>1, <1>2, OrderKept DEF CopyInv, DoneUpdated
  <1>12. MiddleMessages'
    BY <1>1, <1>2, <1>3 DEF CopyInv, MiddleMessages
  <1>13. MessagesFinal'
    BY <1>1, <1>2, <1>4, MessagesKept
  <1>14. RequestsInLoop'
    BY <1>1, <1>2 DEF RequestsInLoop
  <1> QED
    BY <1>5, <1>6, <1>8, <1>10, <1>11, <1>12, <1>13, <1>14 DEF Progress, CopyInv

(* When all ranks meet, every row is solved and every copy renewed.        *)
LEMMA AllReduced ==
  ASSUME SweepInv, \A r \in Rank : pc[r] = "reduce"
  PROVE  /\ \A b \in Block : R[b] = Finish(b)
         /\ \A q \in Rank : \A a \in Ext[q] :
              Updated(q, a) /\ img[q][a] = R[a] /\ R[a] = Finish(a)
         /\ \A c \in Channels : Len(chan[c]) = 0
         /\ midmsg = {}
         /\ \A q \in Rank : \A a \in Block : req[q][a] = "none"
  <1>1. /\ TypeInv /\ Net /\ CopyInv /\ RequestsInLoop /\ SolveCounts
    BY DEF SweepInv, PatternInv, CopyInv, Net
  <1>2. ASSUME NEW b \in Block PROVE R[b] = Finish(b)
    <2>1. Owner[b] \in Rank /\ SweepOf(b) \in SolvePhases /\ TypeOK
      BY <1>1, SweepOfLive, OwnerAssumption DEF TypeInv, TypeOK
    <2>2. Solved(b) = Quota[variant][b]
      BY <2>1 DEF Solved, SolvePhases, SweepPhases, Over
    <2> QED
      BY <1>1, <2>1, <2>2, DueSolves DEF SolveCounts
  <1>3. ASSUME NEW q \in Rank, NEW a \in Ext[q]
        PROVE  Updated(q, a) /\ img[q][a] = R[a] /\ R[a] = Finish(a)
    <2>1. /\ PartNo(pc[q]) = 4
          /\ \A pat \in Patterns : Rcvd(pat, pc[q])
      BY DEF Rcvd, PartNo, PatternPart
    <2>2. Updated(q, a)
      BY <2>1, Copies DEF Updated, Patterns
    <2> QED
      BY <1>1, <2>2 DEF CopyInv, CopiesHold
  <1>4. \A pat \in Patterns : \A q, r \in Rank : ~ InFlight(pat, q, r)
    BY DEF InFlight, Rcvd, PartNo, PatternPart
  <1>5. \A c \in Channels : Len(chan[c]) = 0
    <2> SUFFICES ASSUME NEW q \in Rank, NEW r \in Rank, NEW t \in Tags
                 PROVE  Len(chan[<<q, r, t>>]) = 0
      BY DEF Channels
    <2>1. t \in {Tag("top"), Tag("bottom")}
      BY DEF Tags, Tag, Patterns
    <2>2. Len(chan[<<q, r, Tag("top")>>]) = 0
      BY <1>1, <1>4 DEF Net, TopChannels, Count, Patterns
    <2>3. Len(chan[<<q, r, Tag("bottom")>>]) = 0
      BY <1>1, <1>4 DEF Net, BottomChannels, Count, Patterns
    <2> QED
      BY <2>1, <2>2, <2>3
  <1>6. midmsg = {}
    <2>1. \A m \in midmsg : m.to \in Rank /\ m.id \in Ext[m.to]
      BY <1>1 DEF CopyInv, MiddleMessages, MidUpd, TypeInv, TypeOK
    <2> QED
      BY <1>1, <1>3, <2>1 DEF CopyInv, MiddleMessages
  <1>7. \A q \in Rank : \A a \in Block : req[q][a] = "none"
    BY <1>1 DEF RequestsInLoop
  <1> QED
    BY <1>2, <1>3, <1>5, <1>6, <1>7

LEMMA ReduceStep ==
  ASSUME SweepInv, Reduce
  PROVE  Progress' /\ MessagesFinal' /\ RequestsInLoop' /\ CopyInv'
  <1>1. /\ TypeInv /\ TodoInSweep
        /\ \A r \in Rank : pc[r] = "reduce"
    BY DEF SweepInv, PatternInv, Reduce
  <1>2. /\ variant' = variant /\ iters' = iters + 1 /\ R' = R /\ img' = img
        /\ chan' = chan /\ req' = req /\ midmsg' = midmsg
        /\ \/ /\ \A r \in Rank : /\ pc'[r] = FirstPhase'
                                 /\ todo'[r] = SweepSet(FirstPhase', r)
                                 /\ loops'[r] = InnerLoops
                                 /\ done'[r] = {}
           \/ /\ \A r \in Rank : pc'[r] = "end"
              /\ todo' = todo
    BY <1>1 DEF Reduce
  <1>3. /\ \A b \in Block : R[b] = Finish(b)
        /\ \A q \in Rank : \A a \in Ext[q] :
              Updated(q, a) /\ img[q][a] = R[a] /\ R[a] = Finish(a)
        /\ \A c \in Channels : Len(chan[c]) = 0
        /\ midmsg = {}
        /\ \A q \in Rank : \A a \in Block : req[q][a] = "none"
    BY <1>1, AllReduced
  <1>4. \A b : Start(b)' = Finish(b)
    BY <1>2, DueNext
  <1>5. /\ FirstPhase' \in {"all", "top", "bottom"}
        /\ variant = "BOUNDARY_JACOBI" <=> FirstPhase' = "all"
        /\ FirstPhase' = "top" => ~ IsBackward'
        /\ FirstPhase' = "bottom" => IsBackward'
    BY <1>2 DEF FirstPhase
  <1>6. ASSUME NEW r \in Rank
        PROVE  /\ pc'[r] \in {"end", "all", "top", "bottom"}
               /\ pc'[r] # "end" =>
                    (\A pat \in {"top", "bottom", "middle"} : ~ Rcvd(pat, pc[r])')
                      \/ variant = "BOUNDARY_JACOBI"
               /\ pc'[r] \in {"top", "bottom"} => ~ (PartNo(pc[r]) > 2)'
    BY <1>2, <1>5 DEF Rcvd, PartNo, PatternPart, TopPhases, MidPhases,
                      FullPhases, MiddleJacobiPhases
  <1>7. ASSUME NEW q \in Rank, NEW a \in Ext[q]
        PROVE  ~ Updated(q, a)'
    <2>1. a \in Block /\ req'[q][a] # "arrived"
      BY <1>2, <1>3, BlockSets
    <2>2. pc'[q] = "end" \/ (pc'[q] = "all" <=> variant = "BOUNDARY_JACOBI")
      BY <1>2, <1>5
    <2>3. CASE pc'[q] = "end"
      BY <2>3 DEF Updated
    <2>4. CASE pc'[q] # "end" /\ variant = "BOUNDARY_JACOBI"
      BY <1>2, <2>2, <2>4 DEF Updated
    <2>5. CASE pc'[q] # "end" /\ variant # "BOUNDARY_JACOBI"
      BY <1>2, <1>6, <2>1, <2>2, <2>5 DEF Updated
    <2> QED
      BY <2>3, <2>4, <2>5
  <1>8. EndTogether'
    <2>1. FirstPhase' # "end"
      BY <1>5
    <2> QED
      BY <1>2, <2>1 DEF EndTogether
  <1>9. TodoInSweep'
    <2>1. \A r \in Rank : todo[r] \subseteq {}
      BY <1>1 DEF TodoInSweep, SweepSet
    <2> QED
      BY <1>2, <2>1 DEF TodoInSweep, SweepSet
  <1>10. ASSUME NEW b \in Block
         PROVE  Solved(b)' = 0
    <2>1. /\ Owner[b] \in Rank /\ SweepOf(b) \in SolvePhases
          /\ SweepOf(b)' = SweepOf(b) /\ Live(SweepOf(b))
          /\ InnerLoops \in Nat
      BY <1>1, <1>2, SweepOfLive, OwnerAssumption, ParameterAssumption
      DEF TypeInv, TypeOK, SweepOf
    <2> DEFINE s == SweepOf(b)
               q == Owner[b]
    <2>2. Solved(b)' =
            IF pc'[q] = "end" THEN 0
            ELSE IF pc'[q] = s
            THEN (IF pc'[q] = "mid_loop" THEN 0 ELSE InnerLoops - loops'[q])
                   + (IF b \in todo'[q] THEN 0 ELSE 1)
            ELSE IF Over(s, pc[q])' THEN Quota[variant][b] ELSE 0
      BY <1>2, <2>1 DEF Solved
    <2>3. CASE pc'[q] = "end"
      BY <2>2, <2>3
    <2>4. CASE pc'[q] # "end" /\ pc'[q] = s
      <3>1. /\ pc'[q] \in {"all", "top", "bottom"}
            /\ todo'[q] = SweepSet(s, q) /\ loops'[q] = InnerLoops
        BY <1>2, <1>6, <2>1, <2>4
      <3>2. b \in SweepSet(s, q)
        BY <2>1, SweepSetOf
      <3> QED
        BY <2>1, <2>2, <2>4, <3>1, <3>2
    <2>5. CASE pc'[q] # "end" /\ pc'[q] # s
      <3>1. /\ pc'[q] \in {"all", "top", "bottom"}
            /\ pc'[q] = "all" <=> variant = "BOUNDARY_JACOBI"
            /\ pc'[q] # "all" => ~ (PartNo(pc[q]) > 2)'
        BY <1>2, <1>5, <1>6, <2>1, <2>5
      <3>2. s = "all" <=> variant = "BOUNDARY_JACOBI"
        BY DEF SweepOf
      <3>3. ~ Over(s, pc[q])'
        <4>1. pc'[q] # "all"
          BY <2>5, <3>1, <3>2
        <4> QED
          BY <1>6, <2>1, <2>5, <3>1, <3>2, <4>1 DEF Over
      <3> QED
        BY <2>2, <2>5, <3>3
    <2> QED
      BY <2>3, <2>4, <2>5
  <1>11. SolveCounts' /\ CopiesHold' /\ BegunInOrder'
    <2>1. \A b \in Block : R'[b] = Start(b)'
      BY <1>2, <1>3, <1>4
    <2>2. \A b \in Block : R[b] \in Nat
      BY <1>1 DEF TypeInv, TypeOK
    <2>3. SolveCounts'
      BY <1>2, <1>10, <2>1, <2>2 DEF SolveCounts
    <2>4. CopiesHold'
      BY <1>2, <1>3, <1>4, <1>7 DEF CopiesHold
    <2>5. BegunInOrder'
      BY <2>1 DEF BegunInOrder
    <2> QED
      BY <2>3, <2>4, <2>5
  <1>12. MessagesFinal'
    BY <1>2, <1>3 DEF MessagesFinal
  <1>13. MiddleMessages' /\ RequestsInLoop'
    BY <1>2, <1>3 DEF MiddleMessages, RequestsInLoop
  <1>14. DoneUpdated'
    BY <1>2 DEF DoneUpdated
  <1> QED
    BY <1>8, <1>9, <1>11, <1>12, <1>13, <1>14 DEF Progress, CopyInv

-----------------------------------------------------------------------------
(* The invariant                                                           *)

LEMMA InitSweepInv == Init => SweepInv
  <1> SUFFICES ASSUME Init PROVE SweepInv
    OBVIOUS
  <1>1. PatternInv /\ TypeInv /\ ~ IsBackward
    BY InitPatternInv DEF PatternInv, Init, IsBackward
  <1>2. /\ variant \in Variants /\ iters = 0
        /\ \A r \in Rank : pc[r] = FirstPhase /\ todo[r] = SweepSet(FirstPhase, r)
                             /\ loops[r] = InnerLoops /\ done[r] = {}
        /\ \A b \in Block : R[b] = 0
        /\ \A q \in Rank : \A b \in Block : img[q][b] = 0 /\ req[q][b] = "none"
        /\ \A c \in Channels : chan[c] = <<>>
        /\ midmsg = {}
    BY DEF Init
  <1>3. /\ FirstPhase = IF variant = "BOUNDARY_JACOBI" THEN "all" ELSE "top"
        /\ FirstPhase \in Phases /\ Fits(FirstPhase)
    BY <1>1, <1>2, FirstFits DEF FirstPhase
  <1>4. \A b \in Block : Start(b) = 0
    <2>1. \A k \in Nat : k * 0 = 0
      OBVIOUS
    <2> QED
      BY <1>1, <1>2, <2>1, DueSolves DEF Start, TypeInv
  <1>5. EndTogether /\ TodoInSweep
    BY <1>2 DEF EndTogether, TodoInSweep
  <1>6. ASSUME NEW b \in Block PROVE Solved(b) = 0
    <2>1. /\ Owner[b] \in Rank /\ SweepOf(b) \in SolvePhases /\ Live(SweepOf(b))
          /\ InnerLoops \in Nat
      BY <1>2, SweepOfLive, OwnerAssumption, ParameterAssumption
    <2>2. /\ ~ Over(SweepOf(b), FirstPhase)
          /\ FirstPhase \notin {"end", "reduce", "mid_loop"}
      BY <1>2, <2>1, OverFirst
    <2>3. SweepOf(b) = FirstPhase => b \in SweepSet(FirstPhase, Owner[b])
      BY <2>1, SweepSetOf
    <2> QED
      BY <1>2, <2>1, <2>2, <2>3 DEF Solved
  <1>7. SolveCounts
    BY <1>2, <1>4, <1>6 DEF SolveCounts
  <1>8. ASSUME NEW q \in Rank, NEW a \in Ext[q]
        PROVE  ~ Updated(q, a) /\ a \in Block
    BY <1>1, <1>2, <1>3, BlockSets
    DEF Updated, Rcvd, PartNo, PatternPart, TopPhases, MidPhases, FullPhases,
        MiddleJacobiPhases
  <1>9. CopiesHold /\ BegunInOrder /\ DoneUpdated
    BY <1>2, <1>4, <1>8 DEF CopiesHold, BegunInOrder, DoneUpdated
  <1>10. MessagesFinal /\ MiddleMessages /\ RequestsInLoop
    BY <1>2 DEF MessagesFinal, MiddleMessages, RequestsInLoop
  <1> QED
    BY <1>1, <1>5, <1>7, <1>9, <1>10 DEF SweepInv

LEMMA NextSweepInv == SweepInv /\ [Next]_vars => SweepInv'
  <1> SUFFICES ASSUME SweepInv, [Next]_vars PROVE SweepInv'
    OBVIOUS
  <1>0. /\ TypeInv /\ Progress /\ MessagesFinal /\ RequestsInLoop /\ CopyInv
    BY DEF SweepInv, PatternInv, Progress, CopyInv
  <1>1. PatternInv'
    BY NextPatternInv DEF SweepInv
  <1>2. Progress' /\ MessagesFinal' /\ RequestsInLoop' /\ CopyInv'
    <2>1. CASE \E r \in Rank : Step(r)
      BY <2>1, StepSweepInv
    <2>2. ASSUME NEW m \in midmsg, Deliver(m)
          PROVE  Progress' /\ MessagesFinal' /\ RequestsInLoop' /\ CopyInv'
      <3>1. CopyInv' /\ RequestsInLoop' /\ FinalStay
        BY <1>0, <2>2, DeliverStep
      <3>2. /\ pc' = pc /\ todo' = todo /\ loops' = loops /\ R' = R
            /\ chan' = chan /\ variant' = variant /\ iters' = iters
        BY <2>2 DEF Deliver
      <3>3. Progress'
        BY <1>0, <3>2
        DEF Progress, EndTogether, TodoInSweep, SweepSet, SolveCounts, Start,
            Solved, SweepOf, Over, Rcvd, PartNo, PatternPart, IsBackward
      <3>4. MessagesFinal'
        BY <1>0, <3>1, <3>2, MessagesKept
      <3> QED
        BY <3>1, <3>3, <3>4
    <2>3. CASE Collective
      BY <2>3, BarrierStep, UpdateExternalStep, ReduceStep DEF Collective
    <2>4. CASE UNCHANGED vars
      <3>1. /\ pc' = pc /\ todo' = todo /\ loops' = loops /\ R' = R
            /\ chan' = chan /\ variant' = variant /\ iters' = iters
            /\ img' = img /\ req' = req /\ done' = done /\ midmsg' = midmsg
        BY <2>4 DEF vars
      <3>2. /\ FinalStay
            /\ \A q, a : Updated(q, a)' <=> Updated(q, a)
        BY <3>1, UpdatedStay DEF FinalStay
      <3>3. Progress'
        BY <1>0, <3>1
        DEF Progress, EndTogether, TodoInSweep, SweepSet, SolveCounts, Start,
            Solved, SweepOf, Over, Rcvd, PartNo, PatternPart, IsBackward
      <3>4. MessagesFinal' /\ RequestsInLoop'
        BY <1>0, <3>1, <3>2, MessagesKept DEF RequestsInLoop
      <3>5. CopiesHold' /\ BegunInOrder' /\ MiddleMessages'
        BY <1>0, <3>1, <3>2, CopiesKept, OrderKept, MiddleMessagesKept
        DEF CopyInv
      <3>6. DoneUpdated'
        BY <1>0, <3>1, <3>2 DEF CopyInv, DoneUpdated
      <3> QED
        BY <3>3, <3>4, <3>5, <3>6 DEF CopyInv
    <2> QED
      BY <2>1, <2>2, <2>3, <2>4 DEF Next, Ended
  <1> QED
    BY <1>1, <1>2 DEF SweepInv, Progress, CopyInv

LEMMA SweepInvariant == Spec => []SweepInv
  BY InitSweepInv, NextSweepInv, PTL DEF Spec

(* The invariant bounds what is left to solve of a row about to be solved. *)
LEMMA SolvableDue ==
  ASSUME SweepInv, NEW r \in Rank, NEW b \in Solvable(r)
  PROVE  R[b] < Finish(b)
  <1>1. TypeInv /\ TodoInSweep /\ SolveCounts
    BY DEF SweepInv, PatternInv
  <1> QED
    BY <1>1, SolvableRow, TodoDue

-----------------------------------------------------------------------------
(* What the invariant gives                                                *)

(* When all ranks meet in the Allreduce that ends an iteration, every      *)
(* external copy holds the reaction of its owner.                          *)
THEOREM ExternalsCurrentHolds == Spec => []ExternalsCurrent
  <1>1. SweepInv => ExternalsCurrent
    BY AllReduced DEF ExternalsCurrent
  <1> QED
    BY <1>1, SweepInvariant, PTL

(* No row solve reads a copy that MPI may be writing: a row does not begin *)
(* before the copies it waits for have arrived, and the rows that wait for *)
(* it are not sent before it is solved.                                    *)
THEOREM NoReadWhileWrittenHolds == Spec => []NoReadWhileWritten
  <1>1. SweepInv => NoReadWhileWritten
    <2> SUFFICES ASSUME SweepInv, NEW r \in Rank, NEW b \in Solvable(r),
                        NEW a \in AdjExt[b], NEW m \in midmsg,
                        m.to = r, m.id = a
                 PROVE  FALSE
      BY DEF NoReadWhileWritten
    <2>1. /\ TypeInv /\ SolveCounts /\ TodoInSweep /\ CopyInv /\ RequestsInLoop
      BY DEF SweepInv, PatternInv, CopyInv
    <2>2. /\ variant = "FULL" /\ R[a] = Finish(a) /\ ~ Updated(r, a)
      BY <2>1 DEF CopyInv, MiddleMessages
    <2>3. b \in Block /\ a \in Block /\ variant \in Variants
      BY <2>1, SolvableRow, BlockSets DEF TypeInv, TypeOK
    <2>4. <<b, a>> \notin Lagged[variant]
      BY <2>2, <2>3 DEF Lagged
    <2>5. R[b] < Finish(b)
      BY SolvableDue
    <2>6. R[a] = Start(a)
      BY <2>1, <2>2, <2>4, <2>5, ReadsLatest
    <2>7. Start(a) < Finish(a) /\ Start(a) \in Nat /\ Finish(a) \in Nat
      BY <2>1, <2>3, SolveBounds
    <2> QED
      BY <2>2, <2>6, <2>7
  <1> QED
    BY <1>1, SweepInvariant, PTL

(* CON_DONE is only set on copies that are as new as their owner's.        *)
THEOREM DoneIsUpdatedHolds == Spec => []DoneIsUpdated
  <1>1. SweepInv => DoneIsUpdated
    <2> SUFFICES ASSUME SweepInv, NEW r \in Rank, NEW b \in Solvable(r),
                        NEW a \in AdjExt[b], a \in done[r]
                 PROVE  R[a] = Quota[variant][a] * (iters + 1)
      BY DEF DoneIsUpdated
    <2>1. /\ TypeInv /\ TodoInSweep /\ CopyInv
      BY DEF SweepInv, PatternInv, CopyInv
    <2>2. /\ b \in Block /\ Owner[b] = r /\ pc[r] \in SolvePhases
      BY <2>1, SolvableRow
    <2>3. a \in Ext[r] /\ pc[r] # "end"
      BY <2>2, ExternalBlocks DEF SolvePhases, SweepPhases
    <2>4. R[a] = Finish(a)
      BY <2>1, <2>3 DEF CopyInv, DoneUpdated, CopiesHold
    <2> QED
      BY <2>4 DEF Finish
  <1> QED
    BY <1>1, SweepInvariant, PTL

-----------------------------------------------------------------------------
(* The refinement                                                          *)

LEMMA SolveRefines ==
  ASSUME SweepInv, NEW r \in Rank, NEW b \in Solvable(r), Solve(r, b),
         variant' = variant, iters' = iters
  PROVE  Sequential!SolveRow(b)
  <1>1. /\ TypeInv /\ SolveCounts /\ TodoInSweep /\ CopyInv /\ RequestsInLoop
        /\ variant \in Variants /\ seen \in [Block -> [Block -> Nat]]
        /\ R \in [Block -> Nat]
    BY DEF SweepInv, PatternInv, CopyInv, TypeInv, TypeOK
  <1>2. b \in Block /\ Owner[b] = r
    BY <1>1, SolvableRow
  <1>3. R[b] < Finish(b)
    BY SolvableDue
  <1>4. /\ R' = [R EXCEPT ![b] = @ + 1]
        /\ seen' = [seen EXCEPT ![b] =
                      [a \in Block |-> IF <<b, a>> \in Adj THEN Read(b, a) ELSE 0]]
    BY DEF Solve
  <1>5. seen'[b] = [a \in Block |-> IF <<b, a>> \in Adj THEN Read(b, a) ELSE 0]
    BY <1>1, <1>2, <1>4
  <1>6. ASSUME NEW a \in Block
        PROVE  seen'[b][a] \in Sequential!Readable(b, a)
    <2>1. CASE <<b, a>> \notin Adj
      BY <1>5, <2>1 DEF Sequential!Readable
    <2>2. CASE <<b, a>> \in Adj /\ Owner[a] = Owner[b]
      <3>1. a \notin AdjExt[b]
        BY <1>2, <2>2 DEF AdjExt
      <3>2. <<b, a>> \notin Lagged[variant]
        <4>1. <<b, a>>[1] = b /\ <<b, a>>[2] = a
          OBVIOUS
        <4> QED
          BY <1>1, <3>1, <4>1 DEF Lagged
      <3> QED
        BY <1>5, <2>2, <3>2 DEF Read, Sequential!Readable
    <2>3. CASE <<b, a>> \in Adj /\ Owner[a] # Owner[b]
      <3>1. a \in AdjExt[b]
        BY <1>2, <2>3 DEF AdjExt
      <3>2. /\ img[r][a] \in {R[a], Start(a)}
            /\ <<b, a>> \notin Lagged[variant] => img[r][a] = R[a]
        BY <1>1, <1>3, <3>1, ReadsLatest
      <3>3. seen'[b][a] = img[r][a]
        BY <1>2, <1>5, <2>3 DEF Read
      <3> QED
        BY <2>3, <3>2, <3>3 DEF Sequential!Readable, Start
    <2> QED
      BY <2>1, <2>2, <2>3
  <1>7. seen' = [seen EXCEPT ![b] = seen'[b]]
    BY <1>1, <1>4, <1>5
  <1> QED
    BY <1>3, <1>4, <1>6, <1>7 DEF Sequential!SolveRow, Finish

(* The parallel solver, with its messages, copies and colours, is a        *)
(* sequential Gauss-Seidel method: every row solve of any rank reads the   *)
(* reactions of the moment, but where a Jacobi variant lags, and an        *)
(* iteration ends when every row was solved its due number of times.       *)
THEOREM SolverRefinesSequential == Spec => SequentialSpec
  <1>1. Init => Sequential!Init
    BY DEF Init, Sequential!Init
  <1>2. SweepInv /\ [Next]_vars => [Sequential!Next]_(Sequential!vars)
    <2> SUFFICES ASSUME SweepInv, [Next]_vars
                 PROVE  Sequential!Next \/ UNCHANGED Sequential!vars
      OBVIOUS
    <2>1. CASE UNCHANGED <<variant, iters, R, seen>>
      BY <2>1 DEF Sequential!vars
    <2>2. ASSUME NEW r \in Rank, NEW b \in Solvable(r), Solve(r, b),
                 variant' = variant, iters' = iters
          PROVE  Sequential!Next
      <3>1. Sequential!SolveRow(b)
        BY <2>2, SolveRefines
      <3>2. b \in Block
        BY SolvableRow DEF SweepInv, PatternInv
      <3> QED
        BY <3>1, <3>2 DEF Sequential!Next
    <2>3. ASSUME NEW r \in Rank, SweepBlock(r)
          PROVE  Sequential!Next
      <3>1. PICK b \in todo[r] : Solve(r, b)
        BY <2>3 DEF SweepBlock
      <3>2. b \in Solvable(r) /\ variant' = variant /\ iters' = iters
        BY <2>3 DEF SweepBlock, Solvable
      <3> QED
        BY <2>2, <3>1, <3>2
    <2>4. ASSUME NEW r \in Rank, MiddleBlock(r)
          PROVE  Sequential!Next
      <3>1. PICK b \in MiddleReady(r) : Solve(r, b)
        BY <2>4 DEF MiddleBlock
      <3>2. b \in Solvable(r) /\ variant' = variant /\ iters' = iters
        BY <2>4 DEF MiddleBlock, Solvable, SweepPhases
      <3> QED
        BY <2>2, <3>1, <3>2
    <2>5. CASE \E r \in Rank : Step(r)
      <3>1. PICK r \in Rank : Step(r)
        BY <2>5
      <3> QED
        BY <2>1, <2>3, <2>4, <3>1
        DEF Step, SweepAgain, SweepEnd, Send, Recv, PostMiddle, MiddleEnd,
            WaitSends, Drain, PostRepeat, ReadySend, RecvRepeat
    <2>6. CASE Reduce
      <3>1. \A b \in Block : R[b] = Finish(b)
        BY <2>6, AllReduced DEF Reduce
      <3>2. iters' = iters + 1 /\ UNCHANGED <<variant, R, seen>>
        BY <2>6 DEF Reduce
      <3> QED
        BY <3>1, <3>2 DEF Sequential!Next, Sequential!EndSweep, Finish
    <2>7. CASE (\E m \in midmsg : Deliver(m)) \/ Barrier \/ UpdateExternal
                 \/ UNCHANGED vars
      BY <2>1, <2>7 DEF Deliver, Barrier, UpdateExternal, vars
    <2> QED
      BY <2>5, <2>6, <2>7 DEF Next, Collective, Ended
  <1> QED
    BY <1>1, <1>2, SweepInvariant, PTL DEF Spec, SequentialSpec, Sequential!Spec
=============================================================================
