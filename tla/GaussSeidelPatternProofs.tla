---------------------- MODULE GaussSeidelPatternProofs ----------------------
(***************************************************************************)
(* Theorems about GaussSeidel, for every set of ranks and blocks, every    *)
(* coupling graph, colouring, variant and number of iterations.            *)
(*                                                                         *)
(* 1. Type correctness: which phases a rank can be in and which messages   *)
(* can be on their way at all.                                             *)
(*                                                                         *)
(* 2. The communication patterns: which messages are on their way, given   *)
(* how far sender and receiver are, and which external reactions are       *)
(* therefore flagged CON_DONE.                                             *)
(***************************************************************************)
EXTENDS GaussSeidel, TLAPS

MessageType == [pat : Patterns, ids : SUBSET Block, val : [Block -> Nat]]

(* Messages of a channel carry all blocks of their pattern that the        *)
(* receiver is coupled to; only MIDDLE_JACOBI uses mid_pattern.            *)
Legal(c) ==
  {m \in MessageType :
     /\ Tag(m.pat) = c[3]
     /\ m.ids = {b \in PatternBlocks[m.pat][c[1]] : c[2] \in Ranks[b]}
     /\ m.pat = "middle" => variant = "MIDDLE_JACOBI"}

ChannelsLegal == \A c \in Channels : chan[c] \in Seq(Legal(c))

(* The phases a variant never enters.                                      *)
MiddleJacobiPhases == {"middle", "post_rep", "barrier", "rsend", "recv_mid"}
FullPhases         == {"post_mid", "mid_loop", "wait_sends", "drain"}
BoundaryPhases     == {"all", "update_ext"}

Fits(p) ==
  /\ p \in MiddleJacobiPhases => variant = "MIDDLE_JACOBI"
  /\ p \in FullPhases => variant = "FULL"
  /\ p \in BoundaryPhases => variant = "BOUNDARY_JACOBI"
  /\ variant = "BOUNDARY_JACOBI" => p \in BoundaryPhases \cup {"reduce", "end"}

PhaseOfVariant == \A r \in Rank : Fits(pc[r])

(* The loop is left when iters reaches the limit, on all ranks at once.    *)
Bounded == iters < MaxIter \/ \A r \in Rank : pc[r] = "end"

TypeInv == TypeOK /\ ChannelsLegal /\ PhaseOfVariant /\ Bounded

USE OwnerAssumption, ParameterAssumption

-----------------------------------------------------------------------------
(* Block sets                                                              *)

(* The sets of a rank hold blocks of that rank.                            *)
LEMMA BlockSets ==
  /\ Mine \in [Rank -> SUBSET Block]
  /\ Top \in [Rank -> SUBSET Block]
  /\ Bottom \in [Rank -> SUBSET Block]
  /\ Middle \in [Rank -> SUBSET Block]
  /\ MidUpd \in [Rank -> SUBSET Block]
  /\ Ext \in [Rank -> SUBSET Block]
  /\ AdjExt \in [Block -> SUBSET Block]
  /\ Ranks \in [Block -> SUBSET Rank]
  /\ \A r \in Rank : Top[r] \subseteq Mine[r] /\ Bottom[r] \subseteq Mine[r]
                                            /\ Middle[r] \subseteq Mine[r]
  /\ \A r \in Rank : \A b \in Mine[r] : Owner[b] = r
  <1>1. AdjExt \in [Block -> SUBSET Block]
    BY DEF AdjExt
  <1>2. Mine \in [Rank -> SUBSET Block]
    BY DEF Mine
  <1>3. Ext \in [Rank -> SUBSET Block]
    BY <1>1, <1>2 DEF Ext
  <1>4. Ranks \in [Block -> SUBSET Rank]
    BY <1>1 DEF Ranks
  <1>5. /\ Top \in [Rank -> SUBSET Block]
        /\ Bottom \in [Rank -> SUBSET Block]
        /\ Middle \in [Rank -> SUBSET Block]
        /\ \A r \in Rank : Top[r] \subseteq Mine[r] /\ Bottom[r] \subseteq Mine[r]
                                                  /\ Middle[r] \subseteq Mine[r]
    BY <1>2 DEF Top, Bottom, Middle
  <1>6. MidUpd \in [Rank -> SUBSET Block]
    BY <1>3 DEF MidUpd
  <1>7. \A r \in Rank : \A b \in Mine[r] : Owner[b] = r
    BY DEF Mine
  <1> QED
    BY <1>1, <1>2, <1>3, <1>4, <1>5, <1>6, <1>7

LEMMA PatternSets ==
  ASSUME NEW pat \in Patterns, NEW r \in Rank
  PROVE  /\ PatternBlocks[pat][r] \subseteq Mine[r]
         /\ PatternBlocks[pat][r] \subseteq Block
         /\ Dests[pat][r] \subseteq Rank
         /\ Sources[pat][r] = {q \in Rank : r \in Dests[pat][q]}
  <1>1. PatternBlocks[pat][r] \in {Top[r], Bottom[r], Middle[r]}
    BY DEF PatternBlocks, Patterns
  <1>2. PatternBlocks[pat][r] \subseteq Mine[r] /\ Mine[r] \subseteq Block
    BY <1>1, BlockSets
  <1>3. Dests[pat][r] = UNION {Ranks[b] : b \in PatternBlocks[pat][r]}
    BY DEF Dests
  <1>4. Dests[pat][r] \subseteq Rank
    BY <1>2, <1>3, BlockSets
  <1> QED
    BY <1>2, <1>4 DEF Sources

LEMMA SweepSets ==
  ASSUME NEW p \in Phases, NEW r \in Rank
  PROVE  SweepSet(p, r) \subseteq Block
  <1>1. Int2[r] \subseteq Block /\ Int1[r] \subseteq Block
    <2>1. Internal[r] \in SUBSET Block
      BY BlockSets DEF Internal
    <2>2. Int1[r] \subseteq Block
      BY <2>1 DEF Int1
    <2>3. Int2[r] \subseteq Block
      BY <2>1 DEF Int2
    <2> QED
      BY <2>2, <2>3
  <1> QED
    BY <1>1, BlockSets DEF SweepSet

-----------------------------------------------------------------------------
(* Pieces of actions                                                       *)

(* The successor of a phase is a phase of the same variant.                *)
LEMMA AfterFits ==
  ASSUME NEW p \in Phases \ {"reduce", "end"}, Fits(p), variant \in Variants
  PROVE  After(p) \in Phases /\ Fits(After(p))
  BY ZenonT(40) DEF After, Fits, Phases, SweepPhases, MiddleJacobiPhases, FullPhases,
         BoundaryPhases, FirstMiddlePhase

LEMMA FirstFits ==
  ASSUME variant \in Variants
  PROVE  FirstPhase \in Phases /\ Fits(FirstPhase)
  BY DEF FirstPhase, Fits, Phases, SweepPhases, MiddleJacobiPhases, FullPhases,
         BoundaryPhases

(* A rank that goes on to its next phase.                                  *)
LEMMA MoveOn ==
  ASSUME TypeInv, NEW r \in Rank, pc[r] \notin {"reduce", "end"},
         Enter(r, After(pc[r])), variant' = variant, iters' = iters
  PROVE  /\ iters' \in 0 .. MaxIter
         /\ pc' \in [Rank -> Phases]
         /\ todo' \in [Rank -> SUBSET Block]
         /\ loops' \in [Rank -> 1 .. InnerLoops]
         /\ PhaseOfVariant'
         /\ Bounded'
  <1>1. After(pc[r]) \in Phases /\ Fits(After(pc[r]))
    BY AfterFits DEF TypeInv, TypeOK, PhaseOfVariant
  <1>2. SweepSet(After(pc[r]), r) \subseteq Block
    BY <1>1, SweepSets
  <1>3. /\ pc' \in [Rank -> Phases]
        /\ todo' \in [Rank -> SUBSET Block]
        /\ loops' \in [Rank -> 1 .. InnerLoops]
    BY <1>1, <1>2 DEF Enter, TypeInv, TypeOK
  <1>4. PhaseOfVariant'
    BY <1>1 DEF TypeInv, TypeOK, PhaseOfVariant, Fits, Enter
  <1>5. Bounded'
    BY DEF TypeInv, TypeOK, Bounded
  <1> QED
    BY <1>3, <1>4, <1>5 DEF TypeInv, TypeOK

(* A rank that stays in its phase.                                         *)
LEMMA StayPut ==
  ASSUME TypeInv, pc' = pc, variant' = variant, iters' = iters
  PROVE  PhaseOfVariant' /\ Bounded'
  BY DEF TypeInv, PhaseOfVariant, Fits, Bounded

(* Channels that nobody touches.                                           *)
LEMMA ChannelsKept ==
  ASSUME TypeInv, chan' = chan, variant' = variant
  PROVE  ChannelsLegal'
  BY DEF TypeInv, ChannelsLegal, Legal

(* A row solve.                                                            *)
LEMMA SolveType ==
  ASSUME TypeOK, NEW r \in Rank, NEW b \in Block, Solve(r, b)
  PROVE  /\ R' \in [Block -> Nat]
         /\ seen' \in [Block -> [Block -> Nat]]
         /\ dimax' \in [Rank -> Int]
         /\ failed' \subseteq Rank
  <1>1. R' \in [Block -> Nat]
    BY DEF TypeOK, Solve
  <1>2. seen' \in [Block -> [Block -> Nat]]
    <2>1. \A a \in Block : Read(b, a) \in Nat
      BY DEF TypeOK, Read
    <2> QED
      BY <2>1 DEF TypeOK, Solve
  <1>3. dimax' \in [Rank -> Int] /\ failed' \subseteq Rank
    BY DEF TypeOK, Solve
  <1> QED
    BY <1>1, <1>2, <1>3

(* COM_Send and the ready-mode sends of COM_Repeat.                        *)
LEMMA TransmitLegal ==
  ASSUME TypeInv, NEW r \in Rank, NEW pat \in Patterns, Transmit(pat, r),
         variant' = variant, pat = "middle" => variant = "MIDDLE_JACOBI"
  PROVE  chan' \in [Channels -> Seq(MessageType)] /\ ChannelsLegal'
  <1>1. ASSUME NEW c \in Channels, c[1] = r, c[3] = Tag(pat)
        PROVE  Message(pat, r, c[2]) \in Legal(c)
    BY <1>1, PatternSets DEF Message, Legal, MessageType, TypeInv, TypeOK
  <1>2. ASSUME NEW c \in Channels
        PROVE  chan'[c] \in Seq(Legal(c))
    BY <1>1, <1>2 DEF Transmit, TypeInv, ChannelsLegal
  <1>3. \A c \in Channels : Legal(c)' = Legal(c) /\ Legal(c) \subseteq MessageType
    BY DEF Legal
  <1>4. \A c \in Channels : chan'[c] \in Seq(MessageType)
    BY <1>2, <1>3
  <1> QED
    BY <1>2, <1>3, <1>4 DEF Transmit, ChannelsLegal

(* COM_Recv and the end of COM_Repeat.                                     *)
LEMMA ReceiveLegal ==
  ASSUME TypeInv, NEW r \in Rank, NEW pat \in Patterns, Receive(r, pat),
         variant' = variant
  PROVE  /\ chan' \in [Channels -> Seq(MessageType)]
         /\ ChannelsLegal'
         /\ img' \in [Rank -> [Block -> Nat]]
         /\ done' \in [Rank -> SUBSET Block]
         /\ posted' \in [Rank -> SUBSET Patterns]
  <1> DEFINE c(q) == <<q, r, Tag(pat)>>
             from(q) == Head(chan[c(q)])
             got == UNION {from(q).ids : q \in Sources[pat][r]}
  <1>1. ASSUME NEW q \in Sources[pat][r]
        PROVE  q \in Rank /\ c(q) \in Channels /\ from(q) \in Legal(c(q))
    <2>1. q \in Rank /\ c(q) \in Channels
      BY <1>1, PatternSets DEF Channels, Tags
    <2>2. chan[c(q)] \in Seq(Legal(c(q))) /\ chan[c(q)] # <<>>
      BY <1>1, <2>1 DEF Receive, Arrived, TypeInv, ChannelsLegal
    <2> QED
      BY <2>1, <2>2
  <1>2. ASSUME NEW b \in got
        PROVE  /\ b \in Block
               /\ Owner[b] \in Sources[pat][r]
               /\ from(Owner[b]).val[b] \in Nat
    <2>1. PICK q \in Sources[pat][r] : b \in from(q).ids
      BY <1>2
    <2>2. from(q).pat \in Patterns /\ b \in PatternBlocks[from(q).pat][q]
      BY <1>1, <2>1 DEF Legal, MessageType
    <2>3. b \in Block /\ Owner[b] = q
      BY <1>1, <2>2, PatternSets, BlockSets
    <2>4. from(q).val \in [Block -> Nat]
      BY <1>1 DEF Legal, MessageType
    <2> QED
      BY <2>3, <2>4
  <1>3. img' \in [Rank -> [Block -> Nat]]
    <2>1. img' = [img EXCEPT ![r] =
                   [b \in Block |-> IF b \in got THEN from(Owner[b]).val[b]
                                                 ELSE @[b]]]
      BY DEF Receive
    <2>2. [b \in Block |-> IF b \in got THEN from(Owner[b]).val[b]
                                        ELSE img[r][b]] \in [Block -> Nat]
      <3>1. img[r] \in [Block -> Nat]
        BY DEF TypeInv, TypeOK
      <3> HIDE DEF got, from
      <3> QED
        BY <1>2, <3>1
    <2> QED
      BY <2>1, <2>2 DEF TypeInv, TypeOK
  <1>4. done' \in [Rank -> SUBSET Block]
    <2>1. done' = [done EXCEPT ![r] = @ \cup got]
      BY DEF Receive
    <2> QED
      BY <1>2, <2>1 DEF TypeInv, TypeOK
  <1>5. ASSUME NEW d \in Channels
        PROVE  chan'[d] \in Seq(Legal(d))
    <2>1. chan[d] \in Seq(Legal(d))
      BY DEF TypeInv, ChannelsLegal
    <2>2. CASE d[1] \in Sources[pat][r] /\ d[2] = r /\ d[3] = Tag(pat)
      <3>1. d = c(d[1])
        BY <2>2 DEF Channels
      <3>2. chan[d] # <<>>
        BY <2>2, <3>1 DEF Receive, Arrived
      <3>3. chan'[d] = Tail(chan[d])
        BY <2>2 DEF Receive
      <3> QED
        BY <2>1, <3>2, <3>3
    <2>3. CASE ~ (d[1] \in Sources[pat][r] /\ d[2] = r /\ d[3] = Tag(pat))
      BY <2>1, <2>3 DEF Receive
    <2> QED
      BY <2>2, <2>3
  <1>6. \A d \in Channels : Legal(d)' = Legal(d) /\ Legal(d) \subseteq MessageType
    BY DEF Legal
  <1>7. chan' \in [Channels -> Seq(MessageType)]
    <2>1. \A d \in Channels : chan'[d] \in Seq(MessageType)
      BY <1>5, <1>6
    <2> QED
      BY <2>1 DEF Receive
  <1>8. ChannelsLegal'
    BY <1>5, <1>6 DEF ChannelsLegal
  <1>9. posted' \in [Rank -> SUBSET Patterns]
    BY DEF Receive, TypeInv, TypeOK
  <1> QED
    BY <1>3, <1>4, <1>7, <1>8, <1>9

-----------------------------------------------------------------------------
(* Type correctness                                                        *)

LEMMA InitTypeInv == Init => TypeInv
  <1> SUFFICES ASSUME Init PROVE TypeInv
    OBVIOUS
  <1>1. FirstPhase \in Phases /\ Fits(FirstPhase)
    BY FirstFits DEF Init
  <1>2. \A r \in Rank : SweepSet(FirstPhase, r) \subseteq Block
    BY <1>1, SweepSets
  <1>3. TypeOK
    <2>1. /\ pc \in [Rank -> Phases]
          /\ todo \in [Rank -> SUBSET Block]
          /\ loops \in [Rank -> 1 .. InnerLoops]
      BY <1>1, <1>2 DEF Init
    <2>2. chan \in [Channels -> Seq(MessageType)]
      BY DEF Init
    <2>3. /\ R \in [Block -> Nat]
          /\ seen \in [Block -> [Block -> Nat]]
          /\ img \in [Rank -> [Block -> Nat]]
          /\ req \in [Rank -> [Block -> {"none", "posted", "arrived"}]]
          /\ dimax \in [Rank -> Int]
          /\ done \in [Rank -> SUBSET Block]
          /\ posted \in [Rank -> SUBSET Patterns]
      BY DEF Init
    <2>4. iters \in 0 .. MaxIter
      BY DEF Init
    <2> HIDE ParameterAssumption
    <2> QED
      BY <2>1, <2>2, <2>3, <2>4 DEF Init, TypeOK, MessageType
  <1>4. ChannelsLegal
    BY DEF Init, ChannelsLegal
  <1>5. PhaseOfVariant
    BY <1>1 DEF Init, PhaseOfVariant
  <1>6. Bounded
    BY DEF Init, Bounded
  <1> QED
    BY <1>3, <1>4, <1>5, <1>6 DEF TypeInv

(* The steps a rank takes on its own.                                      *)
LEMMA StepTypeInv ==
  ASSUME TypeInv, NEW r \in Rank, Step(r)
  PROVE  TypeInv'
  <1> USE DEF TypeInv
  <1>1. CASE SweepBlock(r)
    <2>1. PICK b \in todo[r] : Solve(r, b) /\ todo' = [todo EXCEPT ![r] = @ \ {b}]
      BY <1>1 DEF SweepBlock
    <2>2. b \in Block
      BY <2>1 DEF TypeOK
    <2>3. TypeOK'
      BY <1>1, <2>1, <2>2, SolveType DEF SweepBlock, TypeOK
    <2> QED
      BY <1>1, <2>3, StayPut, ChannelsKept DEF SweepBlock
  <1>2. CASE SweepAgain(r)
    <2>1. SweepSet(pc[r], r) \subseteq Block
      BY SweepSets DEF TypeOK
    <2>2. todo' \in [Rank -> SUBSET Block]
      BY <1>2, <2>1 DEF SweepAgain, TypeOK
    <2>3. loops' \in [Rank -> 1 .. InnerLoops]
      BY <1>2 DEF SweepAgain, TypeOK
    <2>4. TypeOK'
      BY <1>2, <2>2, <2>3 DEF SweepAgain, TypeOK
    <2> QED
      BY <1>2, <2>4, StayPut, ChannelsKept DEF SweepAgain
  <1>3. CASE SweepEnd(r)
    <2>1. pc[r] \notin {"reduce", "end"}
      BY <1>3 DEF SweepEnd, SweepPhases
    <2>2. TypeOK'
      BY <1>3, <2>1, MoveOn DEF SweepEnd, TypeOK
    <2> QED
      BY <1>3, <2>1, <2>2, MoveOn, ChannelsKept DEF SweepEnd
  <1>4. ASSUME NEW pat \in {"top", "bottom"}, Send(r, pat)
        PROVE  TypeInv'
    <2>1. pc[r] \notin {"reduce", "end"} /\ pat \in Patterns
      BY <1>4 DEF Send, Patterns
    <2>2. chan' \in [Channels -> Seq(MessageType)] /\ ChannelsLegal'
      BY <1>4, <2>1, TransmitLegal DEF Send
    <2>3. TypeOK'
      BY <1>4, <2>1, <2>2, MoveOn DEF Send, TypeOK, MessageType
    <2> QED
      BY <1>4, <2>1, <2>2, <2>3, MoveOn DEF Send
  <1>5. ASSUME NEW pat \in {"top", "bottom"}, Recv(r, pat)
        PROVE  TypeInv'
    <2>1. pc[r] \notin {"reduce", "end"} /\ pat \in Patterns
      BY <1>5 DEF Recv, Patterns
    <2>2. TypeOK' /\ ChannelsLegal'
      BY <1>5, <2>1, MoveOn, ReceiveLegal DEF Recv, TypeOK, MessageType
    <2> QED
      BY <1>5, <2>1, <2>2, MoveOn DEF Recv
  <1>6. CASE PostMiddle(r)
    <2>1. TypeOK'
      BY <1>6, MoveOn DEF PostMiddle, TypeOK
    <2> QED
      BY <1>6, <2>1, MoveOn, ChannelsKept DEF PostMiddle
  <1>7. CASE MiddleBlock(r)
    <2>1. PICK b \in MiddleReady(r) :
            /\ Solve(r, b)
            /\ todo' = [todo EXCEPT ![r] = @ \ {b}]
            /\ done' = [done EXCEPT ![r] = @ \cup Awaited(r, b)]
            /\ midmsg' = midmsg \cup
                 {[id |-> b, to |-> q, val |-> R[b] + 1] : q \in Ranks[b]}
      BY <1>7 DEF MiddleBlock
    <2>2. b \in Block
      BY <2>1 DEF MiddleReady, NextMiddle, TypeOK
    <2>3. /\ R' \in [Block -> Nat]
          /\ seen' \in [Block -> [Block -> Nat]]
          /\ dimax' \in [Rank -> Int]
          /\ failed' \subseteq Rank
      BY <2>1, <2>2, SolveType
    <2>4. done' \in [Rank -> SUBSET Block]
      BY <2>1, <2>2, BlockSets DEF TypeOK, Awaited
    <2>5. midmsg' \subseteq [id : Block, to : Rank, val : Nat]
      BY <2>1, <2>2, BlockSets DEF TypeOK
    <2>6. TypeOK'
      BY <1>7, <2>1, <2>3, <2>4, <2>5 DEF MiddleBlock, TypeOK
    <2> QED
      BY <1>7, <2>6, StayPut, ChannelsKept DEF MiddleBlock
  <1>8. CASE MiddleEnd(r)
    <2>1. TypeOK'
      BY <1>8, MoveOn DEF MiddleEnd, TypeOK
    <2> QED
      BY <1>8, <2>1, MoveOn, ChannelsKept DEF MiddleEnd
  <1>9. CASE WaitSends(r)
    <2>1. TypeOK'
      BY <1>9, MoveOn DEF WaitSends, TypeOK
    <2> QED
      BY <1>9, <2>1, MoveOn, ChannelsKept DEF WaitSends
  <1>10. CASE Drain(r)
    <2>1. done' \in [Rank -> SUBSET Block]
      BY <1>10, BlockSets DEF Drain, TypeOK
    <2>2. req' \in [Rank -> [Block -> {"none", "posted", "arrived"}]]
      BY <1>10 DEF Drain, TypeOK
    <2>3. TypeOK'
      BY <1>10, <2>1, <2>2, MoveOn DEF Drain, TypeOK
    <2> QED
      BY <1>10, <2>3, MoveOn, ChannelsKept DEF Drain
  <1>11. CASE PostRepeat(r)
    <2>1. TypeOK'
      BY <1>11, MoveOn DEF PostRepeat, TypeOK, Patterns
    <2> QED
      BY <1>11, <2>1, MoveOn, ChannelsKept DEF PostRepeat
  <1>12. CASE ReadySend(r)
    <2>1. variant = "MIDDLE_JACOBI"
      BY <1>12 DEF ReadySend, PhaseOfVariant, Fits, MiddleJacobiPhases
    <2>2. chan' \in [Channels -> Seq(MessageType)] /\ ChannelsLegal'
      BY <1>12, <2>1, TransmitLegal DEF ReadySend, Patterns
    <2>3. TypeOK'
      BY <1>12, <2>2, MoveOn DEF ReadySend, TypeOK, MessageType
    <2> QED
      BY <1>12, <2>2, <2>3, MoveOn DEF ReadySend
  <1>13. CASE RecvRepeat(r)
    <2>1. TypeOK' /\ ChannelsLegal'
      BY <1>13, MoveOn, ReceiveLegal DEF RecvRepeat, TypeOK, MessageType, Patterns
    <2> QED
      BY <1>13, <2>1, MoveOn DEF RecvRepeat
  <1> QED
    BY <1>1, <1>2, <1>3, <1>4, <1>5, <1>6, <1>7, <1>8, <1>9, <1>10, <1>11,
       <1>12, <1>13
    DEF Step

(* What MPI and all ranks together do.                                     *)
LEMMA OtherTypeInv ==
  ASSUME TypeInv, (\E m \in midmsg : Deliver(m)) \/ Collective \/ UNCHANGED vars
  PROVE  TypeInv'
  <1> USE DEF TypeInv
  <1>1. ASSUME NEW m \in midmsg, Deliver(m)
        PROVE  TypeInv'
    <2>1. m.to \in Rank /\ m.id \in Block /\ m.val \in Nat
      BY DEF TypeOK
    <2>2. TypeOK'
      BY <1>1, <2>1 DEF Deliver, TypeOK
    <2> QED
      BY <1>1, <2>2, StayPut, ChannelsKept DEF Deliver
  <1>2. CASE Barrier
    <2>1. PICK r \in Rank : TRUE
      OBVIOUS
    <2>2. Fits("barrier") /\ variant \in Variants
      BY <1>2, <2>1 DEF Barrier, PhaseOfVariant, TypeOK
    <2>3. After("barrier") \in Phases /\ Fits(After("barrier"))
      BY <2>2, AfterFits DEF Phases
    <2>4. TypeOK'
      BY <1>2, <2>3 DEF Barrier, TypeOK
    <2>5. PhaseOfVariant' /\ Bounded'
      BY <1>2, <2>1, <2>3 DEF Barrier, PhaseOfVariant, Fits, Bounded
    <2> QED
      BY <1>2, <2>4, <2>5, ChannelsKept DEF Barrier
  <1>3. CASE UpdateExternal
    <2>1. PICK r \in Rank : TRUE
      OBVIOUS
    <2>2. Fits("update_ext") /\ variant \in Variants
      BY <1>3, <2>1 DEF UpdateExternal, PhaseOfVariant, TypeOK
    <2>3. After("update_ext") \in Phases /\ Fits(After("update_ext"))
      BY <2>2, AfterFits DEF Phases
    <2>4. TypeOK'
      BY <1>3, <2>3 DEF UpdateExternal, TypeOK
    <2>5. PhaseOfVariant' /\ Bounded'
      BY <1>3, <2>1, <2>3 DEF UpdateExternal, PhaseOfVariant, Fits, Bounded
    <2> QED
      BY <1>3, <2>4, <2>5, ChannelsKept DEF UpdateExternal
  <1>4. CASE Reduce
    <2>1. PICK r \in Rank : TRUE
      OBVIOUS
    <2>2. iters < MaxIter /\ iters' \in 0 .. MaxIter /\ iters' = iters + 1
      BY <1>4, <2>1 DEF Reduce, Bounded, TypeOK
    <2>3. FirstPhase' \in Phases /\ Fits(FirstPhase')
      BY <1>4 DEF FirstPhase, IsBackward, Fits, Phases, SweepPhases, Reduce,
                  MiddleJacobiPhases, FullPhases, BoundaryPhases, TypeOK
    <2>4. \A q \in Rank : SweepSet(FirstPhase', q) \subseteq Block
      BY <2>3, SweepSets
    <2>5. CASE iters' < MaxIter /\ ~ met'
      <3>0. /\ pc' \in [Rank -> Phases]
            /\ todo' \in [Rank -> SUBSET Block]
            /\ loops' \in [Rank -> 1 .. InnerLoops]
            /\ done' \in [Rank -> SUBSET Block]
        BY <1>4, <2>3, <2>4, <2>5 DEF Reduce
      <3>1. TypeOK'
        BY <1>4, <2>2, <2>5, <3>0 DEF Reduce, TypeOK
      <3>2. PhaseOfVariant' /\ Bounded'
        BY <1>4, <2>3, <2>5 DEF Reduce, PhaseOfVariant, Fits, Bounded
      <3> QED
        BY <1>4, <3>1, <3>2, ChannelsKept DEF Reduce
    <2>6. CASE ~ (iters' < MaxIter /\ ~ met')
      <3>1. TypeOK'
        BY <1>4, <2>2, <2>6 DEF Reduce, TypeOK, Outcome, Phases
      <3>2. PhaseOfVariant' /\ Bounded'
        BY <1>4, <2>6 DEF Reduce, PhaseOfVariant, Fits, Bounded,
                          MiddleJacobiPhases, FullPhases, BoundaryPhases
      <3> QED
        BY <1>4, <3>1, <3>2, ChannelsKept DEF Reduce
    <2> QED
      BY <2>5, <2>6
  <1>5. CASE UNCHANGED vars
    <2>1. TypeOK'
      BY <1>5 DEF vars, TypeOK
    <2> QED
      BY <1>5, <2>1, StayPut, ChannelsKept DEF vars
  <1> QED
    BY <1>1, <1>2, <1>3, <1>4, <1>5 DEF Collective

LEMMA NextTypeInv == TypeInv /\ [Next]_vars => TypeInv'
  BY StepTypeInv, OtherTypeInv DEF Next, Ended

(* The solver's state stays well typed, for every instance.                *)
THEOREM TypeCorrect == Spec => []TypeOK
  <1>1. TypeInv => TypeOK
    BY DEF TypeInv
  <1> QED
    BY <1>1, InitTypeInv, NextTypeInv, PTL DEF Spec

-----------------------------------------------------------------------------
(* The communication patterns.                                             *)


TopPhases == {"top", "send_top", "int2", "recv_top"}
MidPhases == FullPhases \cup MiddleJacobiPhases

(* The parts of an iteration in the order in which a rank goes through.    *)
PartNo(p) ==
  IF p \in {"reduce", "end"} THEN 4
  ELSE IF p \in MidPhases THEN 2
  ELSE IF p \in TopPhases THEN IF IsBackward THEN 3 ELSE 1
  ELSE IF IsBackward THEN 1 ELSE 3

PatternPart(pat) ==
  IF pat = "middle" THEN 2
  ELSE IF pat = "top" THEN IF IsBackward THEN 3 ELSE 1
  ELSE IF IsBackward THEN 1 ELSE 3

(* Has a rank in phase p received, or sent, over pat in this iteration?     *)
Rcvd(pat, p) == PartNo(p) > PatternPart(pat)
Sent(pat, p) ==
  \/ Rcvd(pat, p)
  \/ pat = "top" /\ p \in {"int2", "recv_top"}
  \/ pat = "bottom" /\ p \in {"int1", "recv_bot"}
  \/ pat = "middle" /\ p = "recv_mid"

Uses(pat) ==
  /\ variant # "BOUNDARY_JACOBI"
  /\ pat = "middle" => variant = "MIDDLE_JACOBI"

InFlight(pat, q, r) ==
  /\ Uses(pat)
  /\ r \in Dests[pat][q]
  /\ Sent(pat, pc[q])
  /\ ~ Rcvd(pat, pc[r])

Count(P) == IF P THEN 1 ELSE 0

(* What was received had been sent.                                        *)
Causal ==
  \A pat \in Patterns : \A q, r \in Rank :
    Uses(pat) /\ r \in Dests[pat][q] /\ Rcvd(pat, pc[r]) => Sent(pat, pc[q])

(* The channels hold what is in flight, and in the order it was sent.      *)
TopChannels ==
  \A q, r \in Rank :
    Len(chan[<<q, r, Tag("top")>>]) = Count(InFlight("top", q, r))

BottomChannels ==
  \A q, r \in Rank :
    LET c == chan[<<q, r, Tag("bottom")>>]
        bot == InFlight("bottom", q, r)
        mid == InFlight("middle", q, r)
    IN  /\ Len(c) = Count(bot) + Count(mid)
        /\ bot => c[IF mid /\ ~ IsBackward THEN 2 ELSE 1].pat = "bottom"
        /\ mid => c[IF bot /\ IsBackward THEN 2 ELSE 1].pat = "middle"

(* CON_DONE of what was received.                                          *)
DoneReceived ==
  \A pat \in Patterns : \A q, r \in Rank :
    Uses(pat) /\ Rcvd(pat, pc[r]) =>
      {b \in PatternBlocks[pat][q] : r \in Ranks[b]} \subseteq done[r]

DoneMiddle ==
  \A r \in Rank :
    variant = "FULL" /\ PartNo(pc[r]) > 2 => MidUpd[r] \subseteq done[r]

MiddlePosted ==
  \A r \in Rank :
    /\ pc[r] \in {"mid_loop", "wait_sends", "drain"} =>
         \A a \in MidUpd[r] : req[r][a] # "none"
    /\ pc[r] = "mid_loop" => todo[r] \subseteq Middle[r]

(* Nobody is past the barrier of COM_Repeat before everybody is there, with *)
(* the receives posted.                                                    *)
PastBarrier(p) == p \in {"rsend", "recv_mid"} \/ PartNo(p) > 2

RepeatPosted ==
  variant = "MIDDLE_JACOBI" =>
    /\ \A q, r \in Rank : PastBarrier(pc[r]) => PastBarrier(pc[q])
    /\ \A r \in Rank :
         pc[r] \in {"barrier", "rsend", "recv_mid"} => "middle" \in posted[r]

PatternInv ==
  /\ TypeInv
  /\ Causal
  /\ TopChannels
  /\ BottomChannels
  /\ DoneReceived
  /\ DoneMiddle
  /\ MiddlePosted
  /\ RepeatPosted

-----------------------------------------------------------------------------
(* Phases                                                                  *)

SendPhase(pat) == CASE pat = "top" -> "send_top" [] pat = "bottom" -> "send_bot"
                    [] pat = "middle" -> "rsend"
RecvPhase(pat) == CASE pat = "top" -> "recv_top" [] pat = "bottom" -> "recv_bot"
                    [] pat = "middle" -> "recv_mid"

Live(p) == p \in Phases /\ Fits(p) /\ variant \in Variants

(* One phase further, sends and receives are those of the phase left.      *)
LEMMA SentAfter ==
  ASSUME NEW p, Live(p), p \notin {"reduce", "end"},
         NEW pat \in Patterns, Uses(pat)
  PROVE  /\ Sent(pat, After(p)) <=> Sent(pat, p) \/ p = SendPhase(pat)
         /\ Rcvd(pat, After(p)) <=> Rcvd(pat, p) \/ p = RecvPhase(pat)
  BY DEF Live, Fits, Phases, SweepPhases, Uses, Patterns, Sent, Rcvd, PartNo,
         PatternPart, After, SendPhase, RecvPhase, FirstMiddlePhase, TopPhases,
         MidPhases, MiddleJacobiPhases, FullPhases, BoundaryPhases

LEMMA SendRecvPhases ==
  ASSUME NEW pat \in Patterns
  PROVE  /\ ~ Sent(pat, SendPhase(pat))
         /\ Sent(pat, RecvPhase(pat))
         /\ ~ Rcvd(pat, RecvPhase(pat))
         /\ SendPhase(pat) \notin {"reduce", "end"}
         /\ RecvPhase(pat) \notin {"reduce", "end"}
         /\ \A x \in Patterns : SendPhase(pat) # RecvPhase(x)
         /\ \A x \in Patterns : x # pat => SendPhase(pat) # SendPhase(x)
                                          /\ RecvPhase(pat) # RecvPhase(x)
  BY DEF Patterns, Sent, Rcvd, PartNo, PatternPart, SendPhase, RecvPhase,
         TopPhases, MidPhases, MiddleJacobiPhases, FullPhases

(* Of the two patterns that share a tag, a rank is through with the first   *)
(* before it starts to send over the second.                               *)
LEMMA SharedTagOrder ==
  ASSUME NEW p, Live(p), variant # "BOUNDARY_JACOBI"
  PROVE  /\ IsBackward =>
              /\ Sent("middle", p) => Rcvd("bottom", p)
              /\ p = "recv_mid" => Rcvd("bottom", p)
              /\ p = "send_bot" => ~ Sent("middle", p)
         /\ ~ IsBackward =>
              /\ Sent("bottom", p) => Rcvd("middle", p)
              /\ p = "recv_bot" => Rcvd("middle", p)
              /\ p = "rsend" => ~ Sent("bottom", p)
  BY DEF Live, Fits, Phases, SweepPhases, Patterns, Sent, Rcvd, PartNo,
         PatternPart, TopPhases, MidPhases,
         MiddleJacobiPhases, FullPhases, BoundaryPhases

LEMMA LivePhases ==
  ASSUME TypeInv, NEW r \in Rank
  PROVE  Live(pc[r])
  BY DEF TypeInv, TypeOK, PhaseOfVariant, Live

-----------------------------------------------------------------------------
(* What a receive completes with                                           *)

LEMMA BottomTag ==
  /\ Tag("middle") = Tag("bottom")
  /\ Tag("top") # Tag("bottom")
  /\ \A pat \in Patterns : \A q, r \in Rank : <<q, r, Tag(pat)>> \in Channels
  BY DEF Tag, Tags, Channels, Patterns

LEMMA TailLength ==
  ASSUME NEW S, NEW c \in Seq(S), Len(c) > 0
  PROVE  Len(Tail(c)) = Len(c) - 1
  OBVIOUS

(* A message on the channel of a pattern that its receiver waits for is of *)
(* that pattern, and the sender has sent it in this iteration.             *)
LEMMA HeadIsOwn ==
  ASSUME TypeInv, TopChannels, BottomChannels,
         NEW pat \in Patterns, NEW r \in Rank, NEW q \in Sources[pat][r],
         pc[r] = RecvPhase(pat), Uses(pat), chan[<<q, r, Tag(pat)>>] # <<>>
  PROVE  /\ q \in Rank
         /\ InFlight(pat, q, r)
         /\ Head(chan[<<q, r, Tag(pat)>>]).pat = pat
         /\ Head(chan[<<q, r, Tag(pat)>>]) \in Legal(<<q, r, Tag(pat)>>)
  <1> DEFINE c == chan[<<q, r, Tag(pat)>>]
  <1>1. q \in Rank /\ r \in Dests[pat][q]
    BY PatternSets
  <1>2. c \in Seq(Legal(<<q, r, Tag(pat)>>)) /\ c # <<>> /\ Len(c) \in Nat
    BY <1>1, BottomTag DEF TypeInv, ChannelsLegal
  <1>3. /\ Len(c) > 0 /\ Head(c) = c[1]
        /\ Head(c) \in Legal(<<q, r, Tag(pat)>>)
    BY <1>2
  <1>4. ~ Rcvd(pat, pc[r])
    BY SendRecvPhases
  <1>5. CASE pat = "top"
    <2>1. InFlight(pat, q, r)
      BY <1>1, <1>3, <1>5 DEF TopChannels, Count
    <2>2. Head(c).pat = pat
      BY <1>3, <1>5 DEF Legal, MessageType, Tag, Patterns
    <2> QED
      BY <1>1, <1>3, <2>1, <2>2
  <1>6. CASE pat # "top"
    <2>1. /\ variant # "BOUNDARY_JACOBI"
          /\ Live(pc[r]) /\ Live(pc[q])
          /\ pat \in {"bottom", "middle"}
      BY <1>1, <1>6, LivePhases DEF Uses, Patterns
    <2>2. /\ Len(c) = Count(InFlight("bottom", q, r))
                        + Count(InFlight("middle", q, r))
          /\ InFlight("bottom", q, r) =>
               c[IF InFlight("middle", q, r) /\ ~ IsBackward THEN 2 ELSE 1].pat
                 = "bottom"
          /\ InFlight("middle", q, r) =>
               c[IF InFlight("bottom", q, r) /\ IsBackward THEN 2 ELSE 1].pat
                 = "middle"
      <3>1. c = chan[<<q, r, Tag("bottom")>>]
        BY <2>1, BottomTag
      <3> HIDE DEF c
      <3> QED
        BY <1>1, <3>1 DEF BottomChannels
    <2>3. InFlight("bottom", q, r) \/ InFlight("middle", q, r)
      BY <1>3, <2>2 DEF Count
    <2>4. CASE pat = "bottom"
      <3>1. IsBackward => InFlight("bottom", q, r)
        BY <1>1, <1>4, <2>1, <2>3, <2>4, SharedTagOrder DEF InFlight, Uses, Sent
      <3>2. ~ IsBackward => ~ InFlight("middle", q, r)
        BY <2>1, <2>4, SharedTagOrder DEF InFlight, RecvPhase
      <3> QED
        BY <1>1, <1>3, <2>2, <2>3, <2>4, <3>1, <3>2
    <2>5. CASE pat = "middle"
      <3>1. ~ IsBackward => InFlight("middle", q, r)
        BY <1>1, <1>4, <2>1, <2>3, <2>5, SharedTagOrder DEF InFlight, Uses, Sent
      <3>2. IsBackward => ~ InFlight("bottom", q, r)
        BY <2>1, <2>5, SharedTagOrder DEF InFlight, RecvPhase
      <3> QED
        BY <1>1, <1>3, <2>2, <2>3, <2>5, <3>1, <3>2
    <2> QED
      BY <2>1, <2>4, <2>5
  <1> QED
    BY <1>5, <1>6

-----------------------------------------------------------------------------
(* Messages in flight                                                      *)

Net == Causal /\ TopChannels /\ BottomChannels

(* What a move of rank r to its next phase makes of Sent and Rcvd.         *)
LEMMA MoveSentRcvd ==
  ASSUME TypeInv, NEW r \in Rank, pc[r] \notin {"reduce", "end"},
         Enter(r, After(pc[r])), variant' = variant, iters' = iters,
         NEW pat \in Patterns, Uses(pat), NEW q \in Rank
  PROVE  /\ Sent(pat, pc[q])' <=>
              Sent(pat, pc[q]) \/ (q = r /\ pc[r] = SendPhase(pat))
         /\ Rcvd(pat, pc[q])' <=>
              Rcvd(pat, pc[q]) \/ (q = r /\ pc[r] = RecvPhase(pat))
  <1>1. pc'[q] = IF q = r THEN After(pc[r]) ELSE pc[q]
    BY DEF Enter, TypeInv, TypeOK
  <1>2. (Sent(pat, pc[q])' <=> Sent(pat, pc'[q]))
        /\ (Rcvd(pat, pc[q])' <=> Rcvd(pat, pc'[q]))
    BY DEF Sent, Rcvd, PartNo, PatternPart, IsBackward
  <1>3. Live(pc[r])
    BY LivePhases
  <1> QED
    BY <1>1, <1>2, <1>3, SentAfter

(* Nothing is sent or received.                                            *)
LEMMA NetKept ==
  ASSUME Net, chan' = chan, variant' = variant, iters' = iters,
         \A pat \in Patterns : Uses(pat) => \A q \in Rank :
           /\ Sent(pat, pc[q])' <=> Sent(pat, pc[q])
           /\ Rcvd(pat, pc[q])' <=> Rcvd(pat, pc[q])
  PROVE  Net'
  <1>1. \A pat \in Patterns : Uses(pat)' <=> Uses(pat)
    BY DEF Uses
  <1>2. \A pat \in Patterns : \A q, r \in Rank :
          InFlight(pat, q, r)' <=> InFlight(pat, q, r)
    BY <1>1 DEF InFlight
  <1>3. IsBackward' <=> IsBackward
    BY DEF IsBackward
  <1>4. Causal'
    BY <1>1 DEF Net, Causal
  <1>5. TopChannels'
    BY <1>2 DEF Net, TopChannels, Count, Patterns
  <1>6. BottomChannels'
    BY <1>2, <1>3 DEF Net, BottomChannels, Count, Patterns
  <1> QED
    BY <1>4, <1>5, <1>6 DEF Net

(* A pattern is sent: Transmit adds what InFlight then expects.            *)
LEMMA NetSend ==
  ASSUME TypeInv, Net, NEW pat \in Patterns, Uses(pat), NEW s \in Rank,
         pc[s] = SendPhase(pat), Enter(s, After(pc[s])), Transmit(pat, s),
         variant' = variant, iters' = iters
  PROVE  Net'
  <1>1. \A x \in Patterns : Uses(x)' <=> Uses(x)
    BY DEF Uses
  <1>2. /\ pc[s] \notin {"reduce", "end"}
        /\ ~ Sent(pat, pc[s])
        /\ \A x \in Patterns : pc[s] # RecvPhase(x)
        /\ \A x \in Patterns : x # pat => pc[s] # SendPhase(x)
    BY SendRecvPhases
  <1>3. ASSUME NEW x \in Patterns, Uses(x), NEW q \in Rank
        PROVE  /\ Sent(x, pc[q])' <=> Sent(x, pc[q]) \/ (q = s /\ x = pat)
               /\ Rcvd(x, pc[q])' <=> Rcvd(x, pc[q])
    BY <1>2, <1>3, MoveSentRcvd
  <1>4. \A r \in Rank : r \in Dests[pat][s] => ~ Rcvd(pat, pc[r])
    BY <1>2 DEF Net, Causal
  <1>5. ASSUME NEW x \in Patterns, NEW q \in Rank, NEW r \in Rank
        PROVE  InFlight(x, q, r)' <=>
                 InFlight(x, q, r) \/ (x = pat /\ q = s /\ r \in Dests[pat][s])
    BY <1>1, <1>3, <1>4, <1>5 DEF InFlight
  <1>6. ASSUME NEW r \in Rank PROVE ~ InFlight(pat, s, r)
    BY <1>2 DEF InFlight
  <1>7. Causal'
    BY <1>1, <1>3 DEF Net, Causal
  <1>8. ASSUME NEW q \in Rank, NEW r \in Rank, NEW x \in Patterns
        PROVE  /\ chan[<<q, r, Tag(x)>>] \in Seq(MessageType)
               /\ q = s /\ r \in Dests[pat][s] /\ Tag(x) = Tag(pat) =>
                    chan'[<<q, r, Tag(x)>>] =
                      Append(chan[<<q, r, Tag(x)>>], Message(pat, s, r))
               /\ ~ (q = s /\ r \in Dests[pat][s] /\ Tag(x) = Tag(pat)) =>
                    chan'[<<q, r, Tag(x)>>] = chan[<<q, r, Tag(x)>>]
    BY <1>8, BottomTag DEF Transmit, TypeInv, TypeOK, MessageType
  <1>9. \A r \in Rank : Message(pat, s, r).pat = pat
    BY DEF Message
  <1>10. TopChannels'
    <2> SUFFICES ASSUME NEW q \in Rank, NEW r \in Rank
                 PROVE  Len(chan'[<<q, r, Tag("top")>>])
                          = Count(InFlight("top", q, r)')
      BY DEF TopChannels, Count
    <2> DEFINE c == chan[<<q, r, Tag("top")>>]
    <2>1. c \in Seq(MessageType) /\ Len(c) = Count(InFlight("top", q, r))
      BY <1>8 DEF Net, TopChannels, Patterns
    <2>2. "top" \in Patterns /\ (Tag("top") = Tag(pat) <=> pat = "top")
      BY DEF Tag, Patterns
    <2> HIDE DEF c
    <2>3. CASE q = s /\ r \in Dests[pat][s] /\ pat = "top"
      <3>1. chan'[<<q, r, Tag("top")>>] = Append(c, Message(pat, s, r))
        BY <1>8, <2>2, <2>3 DEF c
      <3>2. Len(chan'[<<q, r, Tag("top")>>]) = Len(c) + 1
        BY <2>1, <3>1
      <3> QED
        BY <1>5, <1>6, <2>1, <2>2, <2>3, <3>2 DEF Count
    <2>4. CASE ~ (q = s /\ r \in Dests[pat][s] /\ pat = "top")
      <3>1. chan'[<<q, r, Tag("top")>>] = c
        BY <1>8, <2>2, <2>4 DEF c
      <3> QED
        BY <1>5, <2>1, <2>2, <2>4, <3>1 DEF Count
    <2> QED
      BY <2>3, <2>4
  <1>11. BottomChannels'
    <2> SUFFICES ASSUME NEW q \in Rank, NEW r \in Rank
                 PROVE  LET d == chan'[<<q, r, Tag("bottom")>>]
                            bot == InFlight("bottom", q, r)'
                            mid == InFlight("middle", q, r)'
                        IN  /\ Len(d) = Count(bot) + Count(mid)
                            /\ bot => d[IF mid /\ ~ IsBackward THEN 2 ELSE 1].pat
                                        = "bottom"
                            /\ mid => d[IF bot /\ IsBackward THEN 2 ELSE 1].pat
                                        = "middle"
      BY DEF BottomChannels, Count, IsBackward
    <2> DEFINE c == chan[<<q, r, Tag("bottom")>>]
    <2>1. /\ c \in Seq(MessageType)
          /\ Len(c) = Count(InFlight("bottom", q, r))
                        + Count(InFlight("middle", q, r))
          /\ InFlight("bottom", q, r) =>
               c[IF InFlight("middle", q, r) /\ ~ IsBackward THEN 2 ELSE 1].pat
                 = "bottom"
          /\ InFlight("middle", q, r) =>
               c[IF InFlight("bottom", q, r) /\ IsBackward THEN 2 ELSE 1].pat
                 = "middle"
      BY <1>8 DEF Net, BottomChannels, Patterns
    <2>2. /\ "bottom" \in Patterns /\ "middle" \in Patterns
          /\ (Tag("bottom") = Tag(pat) <=> pat # "top")
      BY DEF Tag, Patterns
    <2> HIDE DEF c
    <2>3. CASE q = s /\ r \in Dests[pat][s] /\ pat # "top"
      <3>1. chan'[<<q, r, Tag("bottom")>>] = Append(c, Message(pat, s, r))
        BY <1>8, <2>2, <2>3 DEF c
      <3> DEFINE d == chan'[<<q, r, Tag("bottom")>>]
      <3>2. /\ Len(d) = Len(c) + 1
            /\ d[Len(c) + 1].pat = pat
            /\ \A k \in 1 .. Len(c) : d[k] = c[k]
        BY <1>9, <2>1, <3>1
      <3>3. Live(pc[s]) /\ variant # "BOUNDARY_JACOBI"
        BY LivePhases DEF Uses
      <3> HIDE DEF d
      <3>4. CASE pat = "bottom"
        <4>1. ~ InFlight("bottom", q, r)
          BY <1>6, <2>3, <3>4
        <4>2. IsBackward => ~ InFlight("middle", q, r)
          BY <2>3, <3>3, <3>4, SharedTagOrder DEF InFlight, SendPhase
        <4>3. /\ InFlight("bottom", q, r)'
              /\ InFlight("middle", q, r)' <=> InFlight("middle", q, r)
          BY <1>5, <2>2, <2>3, <3>4
        <4> QED
          BY <2>1, <3>2, <3>4, <4>1, <4>2, <4>3 DEF d, Count
      <3>5. CASE pat = "middle"
        <4>1. ~ InFlight("middle", q, r)
          BY <1>6, <2>3, <3>5
        <4>2. ~ IsBackward => ~ InFlight("bottom", q, r)
          BY <2>3, <3>3, <3>5, SharedTagOrder DEF InFlight, SendPhase
        <4>3. /\ InFlight("middle", q, r)'
              /\ InFlight("bottom", q, r)' <=> InFlight("bottom", q, r)
          BY <1>5, <2>2, <2>3, <3>5
        <4> QED
          BY <2>1, <3>2, <3>5, <4>1, <4>2, <4>3 DEF d, Count
      <3> QED
        BY <2>3, <3>4, <3>5 DEF Patterns
    <2>4. CASE ~ (q = s /\ r \in Dests[pat][s] /\ pat # "top")
      <3>1. chan'[<<q, r, Tag("bottom")>>] = c
        BY <1>8, <2>2, <2>4 DEF c
      <3>2. /\ InFlight("bottom", q, r)' <=> InFlight("bottom", q, r)
            /\ InFlight("middle", q, r)' <=> InFlight("middle", q, r)
        BY <1>5, <2>2, <2>4
      <3> QED
        BY <2>1, <3>1, <3>2 DEF Count
    <2> QED
      BY <2>3, <2>4
  <1> QED
    BY <1>7, <1>10, <1>11 DEF Net

(* A pattern is received: what was in flight to the rank no longer is.     *)
LEMMA NetRecv ==
  ASSUME TypeInv, Net, NEW pat \in Patterns, Uses(pat), NEW s \in Rank,
         pc[s] = RecvPhase(pat), Enter(s, After(pc[s])), Receive(s, pat),
         variant' = variant, iters' = iters
  PROVE  Net'
  <1>1. \A x \in Patterns : Uses(x)' <=> Uses(x)
    BY DEF Uses
  <1>2. /\ pc[s] \notin {"reduce", "end"}
        /\ \A x \in Patterns : pc[s] # SendPhase(x)
        /\ \A x \in Patterns : x # pat => pc[s] # RecvPhase(x)
    BY SendRecvPhases
  <1>3. ASSUME NEW x \in Patterns, Uses(x), NEW q \in Rank
        PROVE  /\ Sent(x, pc[q])' <=> Sent(x, pc[q])
               /\ Rcvd(x, pc[q])' <=> Rcvd(x, pc[q]) \/ (q = s /\ x = pat)
    BY <1>2, <1>3, MoveSentRcvd
  <1>4. ASSUME NEW q \in Sources[pat][s]
        PROVE  /\ q \in Rank
               /\ InFlight(pat, q, s)
               /\ chan[<<q, s, Tag(pat)>>] # <<>>
    BY HeadIsOwn DEF Receive, Arrived, Net
  <1>5. ASSUME NEW x \in Patterns, NEW q \in Rank, NEW r \in Rank
        PROVE  InFlight(x, q, r)' <=> InFlight(x, q, r) /\ ~ (x = pat /\ r = s)
    BY <1>1, <1>3, <1>5 DEF InFlight
  <1>6. ASSUME NEW q \in Rank
        PROVE  q \in Sources[pat][s] <=> InFlight(pat, q, s)
    <2>1. q \in Sources[pat][s] <=> s \in Dests[pat][q]
      BY PatternSets
    <2>2. InFlight(pat, q, s) => s \in Dests[pat][q]
      BY DEF InFlight
    <2> QED
      BY <1>4, <2>1, <2>2
  <1>7. Causal'
    <2> SUFFICES ASSUME NEW x \in Patterns, NEW q \in Rank, NEW r \in Rank,
                        Uses(x), r \in Dests[x][q], Rcvd(x, pc[r])'
                 PROVE  Sent(x, pc[q])'
      BY <1>1 DEF Causal
    <2>1. CASE Rcvd(x, pc[r])
      BY <1>3, <2>1 DEF Net, Causal
    <2>2. CASE ~ Rcvd(x, pc[r])
      <3>1. r = s /\ x = pat
        BY <1>3, <2>2
      <3>2. s \in Dests[pat][q]
        BY <3>1
      <3>3. q \in Sources[pat][s]
        BY <3>2, PatternSets
      <3> QED
        BY <1>3, <1>4, <3>1, <3>3 DEF InFlight
    <2> QED
      BY <2>1, <2>2
  <1>8. ASSUME NEW q \in Rank, NEW r \in Rank, NEW x \in Patterns
        PROVE  /\ chan[<<q, r, Tag(x)>>] \in Seq(MessageType)
               /\ InFlight(pat, q, s) /\ r = s /\ Tag(x) = Tag(pat) =>
                    chan'[<<q, r, Tag(x)>>] = Tail(chan[<<q, r, Tag(x)>>])
               /\ ~ (InFlight(pat, q, s) /\ r = s /\ Tag(x) = Tag(pat)) =>
                    chan'[<<q, r, Tag(x)>>] = chan[<<q, r, Tag(x)>>]
    BY <1>6, <1>8, BottomTag DEF Receive, TypeInv, TypeOK, MessageType
  <1>10. TopChannels'
    <2> SUFFICES ASSUME NEW q \in Rank, NEW r \in Rank
                 PROVE  Len(chan'[<<q, r, Tag("top")>>])
                          = Count(InFlight("top", q, r)')
      BY DEF TopChannels, Count
    <2> DEFINE c == chan[<<q, r, Tag("top")>>]
    <2>1. c \in Seq(MessageType) /\ Len(c) = Count(InFlight("top", q, r))
      BY <1>8 DEF Net, TopChannels, Patterns
    <2>2. "top" \in Patterns /\ (Tag("top") = Tag(pat) <=> pat = "top")
      BY DEF Tag, Patterns
    <2> HIDE DEF c
    <2>3. CASE InFlight(pat, q, s) /\ r = s /\ pat = "top"
      <3>1. chan'[<<q, r, Tag("top")>>] = Tail(c)
        BY <1>8, <2>2, <2>3 DEF c
      <3>2. Len(c) = 1
        BY <2>1, <2>3 DEF Count
      <3>3. Len(c) > 0
        BY <3>2
      <3>4. c \in Seq(MessageType)
        BY <2>1
      <3>5. Len(Tail(c)) = Len(c) - 1
        BY <3>3, <3>4, TailLength
      <3> QED
        <4>1. ~ InFlight("top", q, r)'
          BY <1>5, <2>2, <2>3
        <4>2. Len(chan'[<<q, r, Tag("top")>>]) = 0
          BY <3>1, <3>2, <3>5
        <4> QED
          BY <4>1, <4>2 DEF Count
    <2>4. CASE ~ (InFlight(pat, q, s) /\ r = s /\ pat = "top")
      <3>1. chan'[<<q, r, Tag("top")>>] = c
        BY <1>8, <2>2, <2>4 DEF c
      <3> QED
        BY <1>5, <2>1, <2>2, <2>4, <3>1 DEF Count
    <2> QED
      BY <2>3, <2>4
  <1>11. BottomChannels'
    <2> SUFFICES ASSUME NEW q \in Rank, NEW r \in Rank
                 PROVE  LET d == chan'[<<q, r, Tag("bottom")>>]
                            bot == InFlight("bottom", q, r)'
                            mid == InFlight("middle", q, r)'
                        IN  /\ Len(d) = Count(bot) + Count(mid)
                            /\ bot => d[IF mid /\ ~ IsBackward THEN 2 ELSE 1].pat
                                        = "bottom"
                            /\ mid => d[IF bot /\ IsBackward THEN 2 ELSE 1].pat
                                        = "middle"
      BY DEF BottomChannels, Count, IsBackward
    <2> DEFINE c == chan[<<q, r, Tag("bottom")>>]
    <2>1. /\ c \in Seq(MessageType)
          /\ Len(c) = Count(InFlight("bottom", q, r))
                        + Count(InFlight("middle", q, r))
          /\ InFlight("bottom", q, r) =>
               c[IF InFlight("middle", q, r) /\ ~ IsBackward THEN 2 ELSE 1].pat
                 = "bottom"
          /\ InFlight("middle", q, r) =>
               c[IF InFlight("bottom", q, r) /\ IsBackward THEN 2 ELSE 1].pat
                 = "middle"
      BY <1>8 DEF Net, BottomChannels, Patterns
    <2>2. /\ "bottom" \in Patterns /\ "middle" \in Patterns
          /\ (Tag("bottom") = Tag(pat) <=> pat # "top")
      BY DEF Tag, Patterns
    <2> HIDE DEF c
    <2>3. CASE InFlight(pat, q, s) /\ r = s /\ pat # "top"
      <3>1. chan'[<<q, r, Tag("bottom")>>] = Tail(c)
        BY <1>8, <2>2, <2>3 DEF c
      <3> DEFINE d == chan'[<<q, r, Tag("bottom")>>]
      <3>2. Len(c) > 0
        BY <2>1, <2>3 DEF Count, Patterns
      <3>3. Len(d) = Len(c) - 1 /\ \A k \in 1 .. Len(d) : d[k] = c[k + 1]
        BY <2>1, <3>1, <3>2
      <3>4. Live(pc[s]) /\ variant # "BOUNDARY_JACOBI"
        BY LivePhases DEF Uses
      <3> HIDE DEF d
      <3>5. CASE pat = "bottom"
        <4>1. ~ IsBackward => ~ InFlight("middle", q, r)
          BY <2>3, <3>4, <3>5, SharedTagOrder DEF InFlight, RecvPhase
        <4>2. /\ ~ InFlight("bottom", q, r)'
              /\ InFlight("middle", q, r)' <=> InFlight("middle", q, r)
          BY <1>5, <2>2, <2>3, <3>5
        <4> QED
          BY <2>1, <2>3, <3>3, <3>5, <4>1, <4>2 DEF d, Count
      <3>6. CASE pat = "middle"
        <4>1. IsBackward => ~ InFlight("bottom", q, r)
          BY <2>3, <3>4, <3>6, SharedTagOrder DEF InFlight, RecvPhase
        <4>2. /\ ~ InFlight("middle", q, r)'
              /\ InFlight("bottom", q, r)' <=> InFlight("bottom", q, r)
          BY <1>5, <2>2, <2>3, <3>6
        <4> QED
          BY <2>1, <2>3, <3>3, <3>6, <4>1, <4>2 DEF d, Count
      <3> QED
        BY <2>3, <3>5, <3>6 DEF Patterns
    <2>4. CASE ~ (InFlight(pat, q, s) /\ r = s /\ pat # "top")
      <3>1. chan'[<<q, r, Tag("bottom")>>] = c
        BY <1>8, <2>2, <2>4 DEF c
      <3>2. /\ InFlight("bottom", q, r)' <=> InFlight("bottom", q, r)
            /\ InFlight("middle", q, r)' <=> InFlight("middle", q, r)
        BY <1>5, <2>2, <2>4
      <3> QED
        BY <2>1, <3>1, <3>2 DEF Count
    <2> QED
      BY <2>3, <2>4
  <1> QED
    BY <1>7, <1>10, <1>11 DEF Net

(* Moves that neither send nor receive over a pattern.                     *)
QuietPhases == SweepPhases \cup {"post_mid", "mid_loop", "wait_sends", "drain",
                                 "post_rep"}

LEMMA NetQuiet ==
  ASSUME TypeInv, Net, NEW r \in Rank, pc[r] \in QuietPhases,
         Enter(r, After(pc[r])), chan' = chan, variant' = variant, iters' = iters
  PROVE  Net'
  <1>1. /\ pc[r] \notin {"reduce", "end"}
        /\ \A x \in Patterns : pc[r] # SendPhase(x) /\ pc[r] # RecvPhase(x)
    BY DEF QuietPhases, SweepPhases, Patterns, SendPhase, RecvPhase
  <1> QED
    BY <1>1, MoveSentRcvd, NetKept

LEMMA NetStay ==
  ASSUME Net, pc' = pc, chan' = chan, variant' = variant, iters' = iters
  PROVE  Net'
  <1>1. \A pat \in Patterns : \A q \in Rank :
          /\ Sent(pat, pc[q])' <=> Sent(pat, pc[q])
          /\ Rcvd(pat, pc[q])' <=> Rcvd(pat, pc[q])
    BY DEF Sent, Rcvd, PartNo, PatternPart, IsBackward
  <1> QED
    BY <1>1, NetKept

(* A phase that sends or receives over a pattern belongs to a variant that *)
(* uses the pattern.                                                       *)
LEMMA PhaseUses ==
  ASSUME TypeInv, NEW r \in Rank, NEW pat \in Patterns,
         pc[r] = SendPhase(pat) \/ pc[r] = RecvPhase(pat)
  PROVE  Uses(pat)
  <1>1. Live(pc[r])
    BY LivePhases
  <1> QED
    BY <1>1 DEF Live, Fits, Uses, Patterns, SendPhase, RecvPhase,
                MiddleJacobiPhases, BoundaryPhases

LEMMA StepNet ==
  ASSUME TypeInv, Net, NEW r \in Rank, Step(r)
  PROVE  Net'
  <1>1. CASE SweepBlock(r) \/ SweepAgain(r) \/ MiddleBlock(r)
    BY <1>1, NetStay DEF SweepBlock, SweepAgain, MiddleBlock
  <1>2. CASE SweepEnd(r) \/ PostMiddle(r) \/ MiddleEnd(r) \/ WaitSends(r)
             \/ Drain(r) \/ PostRepeat(r)
    <2>1. pc[r] \in QuietPhases
      BY <1>2 DEF QuietPhases, SweepEnd, PostMiddle, MiddleEnd, WaitSends, Drain,
                  PostRepeat
    <2>2. /\ Enter(r, After(pc[r]))
          /\ chan' = chan /\ variant' = variant /\ iters' = iters
      BY <1>2 DEF SweepEnd, PostMiddle, MiddleEnd, WaitSends, Drain, PostRepeat
    <2> QED
      BY <2>1, <2>2, NetQuiet
  <1>3. ASSUME NEW pat \in {"top", "bottom"}, Send(r, pat)
        PROVE  Net'
    <2>1. pat \in Patterns /\ pc[r] = SendPhase(pat)
      BY <1>3 DEF Send, SendPhase, Patterns
    <2> QED
      BY <1>3, <2>1, PhaseUses, NetSend DEF Send
  <1>4. CASE ReadySend(r)
    <2>1. "middle" \in Patterns /\ pc[r] = SendPhase("middle")
      BY <1>4 DEF ReadySend, SendPhase, Patterns
    <2> QED
      BY <1>4, <2>1, PhaseUses, NetSend DEF ReadySend
  <1>5. ASSUME NEW pat \in {"top", "bottom"}, Recv(r, pat)
        PROVE  Net'
    <2>1. pat \in Patterns /\ pc[r] = RecvPhase(pat)
      BY <1>5 DEF Recv, RecvPhase, Patterns
    <2> QED
      BY <1>5, <2>1, PhaseUses, NetRecv DEF Recv
  <1>6. CASE RecvRepeat(r)
    <2>1. "middle" \in Patterns /\ pc[r] = RecvPhase("middle")
      BY <1>6 DEF RecvRepeat, RecvPhase, Patterns
    <2> QED
      BY <1>6, <2>1, PhaseUses, NetRecv DEF RecvRepeat
  <1> QED
    BY <1>1, <1>2, <1>3, <1>4, <1>5, <1>6 DEF Step

-----------------------------------------------------------------------------
(* Flags of external reactions                                             *)

DoneInv == DoneReceived /\ DoneMiddle

(* The part a rank is in changes with the receives and with the drain.     *)
LEMMA PartAfter ==
  ASSUME TypeInv, NEW r \in Rank, pc[r] \notin {"reduce", "end"},
         Enter(r, After(pc[r])), variant' = variant, iters' = iters,
         NEW q \in Rank, variant = "FULL"
  PROVE  (PartNo(pc[q]) > 2)' <=>
           PartNo(pc[q]) > 2 \/ (q = r /\ pc[r] = "drain")
  <1>1. pc'[q] = IF q = r THEN After(pc[r]) ELSE pc[q]
    BY DEF Enter, TypeInv, TypeOK
  <1>2. Live(pc[r])
    BY LivePhases
  <1>3. PartNo(pc[q])' = PartNo(pc'[q])
    BY DEF PartNo, IsBackward
  <1>4. PartNo(After(pc[r])) > 2 <=> PartNo(pc[r]) > 2 \/ pc[r] = "drain"
    BY <1>2 DEF Live, Fits, Phases, SweepPhases, PartNo, After, FirstMiddlePhase,
                TopPhases, MidPhases, MiddleJacobiPhases, FullPhases,
                BoundaryPhases
  <1> QED
    BY <1>1, <1>3, <1>4

(* Within an iteration flags are only set.                                 *)
LEMMA DoneKept ==
  ASSUME DoneInv, variant' = variant,
         \A q \in Rank : done[q] \subseteq done'[q],
         \A pat \in Patterns : Uses(pat) => \A q \in Rank :
           Rcvd(pat, pc[q])' <=> Rcvd(pat, pc[q]),
         variant = "FULL" => \A q \in Rank :
           (PartNo(pc[q]) > 2)' <=> PartNo(pc[q]) > 2
  PROVE  DoneInv'
  <1>1. \A pat \in Patterns : Uses(pat)' <=> Uses(pat)
    BY DEF Uses
  <1>2. DoneReceived'
    BY <1>1 DEF DoneInv, DoneReceived
  <1>3. DoneMiddle'
    BY DEF DoneInv, DoneMiddle
  <1> QED
    BY <1>2, <1>3 DEF DoneInv

LEMMA DoneStay ==
  ASSUME DoneInv, variant' = variant, pc' = pc, iters' = iters,
         \A q \in Rank : done[q] \subseteq done'[q]
  PROVE  DoneInv'
  <1>1. \A pat \in Patterns : \A q \in Rank :
          Rcvd(pat, pc[q])' <=> Rcvd(pat, pc[q])
    BY DEF Rcvd, PartNo, PatternPart, IsBackward
  <1>2. \A q \in Rank : (PartNo(pc[q]) > 2)' <=> PartNo(pc[q]) > 2
    BY DEF PartNo, IsBackward
  <1> QED
    BY <1>1, <1>2, DoneKept

LEMMA DoneMove ==
  ASSUME TypeInv, DoneInv, NEW r \in Rank, pc[r] \notin {"reduce", "end", "drain"},
         \A pat \in Patterns : pc[r] # RecvPhase(pat),
         Enter(r, After(pc[r])), variant' = variant, iters' = iters, done' = done
  PROVE  DoneInv'
  <1>1. \A pat \in Patterns : Uses(pat) => \A q \in Rank :
          Rcvd(pat, pc[q])' <=> Rcvd(pat, pc[q])
    BY MoveSentRcvd
  <1>2. variant = "FULL" => \A q \in Rank :
          (PartNo(pc[q]) > 2)' <=> PartNo(pc[q]) > 2
    BY PartAfter
  <1> QED
    BY <1>1, <1>2, DoneKept

(* receive_reactions flags all that the pattern brings.                    *)
LEMMA DoneRecv ==
  ASSUME TypeInv, Net, DoneInv, NEW pat \in Patterns, NEW s \in Rank,
         pc[s] = RecvPhase(pat), Enter(s, After(pc[s])), Receive(s, pat),
         variant' = variant, iters' = iters
  PROVE  DoneInv'
  <1>1. Uses(pat)
    BY PhaseUses
  <1>2. /\ pc[s] \notin {"reduce", "end", "drain"}
        /\ \A x \in Patterns : x # pat => pc[s] # RecvPhase(x)
    BY SendRecvPhases DEF RecvPhase, Patterns
  <1>3. /\ \A q \in Rank : done[q] \subseteq done'[q]
        /\ \A q \in Sources[pat][s] :
             Head(chan[<<q, s, Tag(pat)>>]).ids \subseteq done'[s]
    <2>1. done' = [done EXCEPT ![s] = @ \cup
                     UNION {Head(chan[<<q, s, Tag(pat)>>]).ids :
                              q \in Sources[pat][s]}]
      BY DEF Receive
    <2> QED
      BY <2>1 DEF TypeInv, TypeOK
  <1>4. DoneReceived'
    <2> SUFFICES ASSUME NEW x \in Patterns, NEW q \in Rank, NEW r \in Rank,
                        Uses(x), Rcvd(x, pc[r])'
                 PROVE  {b \in PatternBlocks[x][q] : r \in Ranks[b]} \subseteq done'[r]
      BY DEF DoneReceived, Uses
    <2>1. CASE Rcvd(x, pc[r])
      BY <1>3, <2>1 DEF DoneInv, DoneReceived
    <2>2. CASE ~ Rcvd(x, pc[r])
      <3>1. x = pat /\ r = s
        BY <1>2, <2>2, MoveSentRcvd
      <3> SUFFICES ASSUME NEW b \in PatternBlocks[pat][q], s \in Ranks[b]
                   PROVE  b \in done'[s]
        BY <3>1
      <3>2. q \in Sources[pat][s]
        <4>1. s \in Dests[pat][q]
          BY DEF Dests
        <4> QED
          BY <4>1, PatternSets
      <3>3. /\ Head(chan[<<q, s, Tag(pat)>>]).pat = pat
            /\ Head(chan[<<q, s, Tag(pat)>>]) \in Legal(<<q, s, Tag(pat)>>)
        BY <1>1, <3>2, HeadIsOwn DEF Receive, Arrived, Net
      <3>4. Head(chan[<<q, s, Tag(pat)>>]).ids
              = {a \in PatternBlocks[pat][q] : s \in Ranks[a]}
        BY <3>3 DEF Legal
      <3> QED
        BY <1>3, <3>2, <3>4
    <2> QED
      BY <2>1, <2>2
  <1>5. DoneMiddle'
    <2>1. variant = "FULL" => \A q \in Rank :
            (PartNo(pc[q]) > 2)' <=> PartNo(pc[q]) > 2
      BY <1>2, PartAfter
    <2> QED
      BY <1>3, <2>1 DEF DoneInv, DoneMiddle
  <1> QED
    BY <1>4, <1>5 DEF DoneInv

LEMMA StepDone ==
  ASSUME TypeInv, Net, DoneInv, NEW r \in Rank, Step(r)
  PROVE  DoneInv'
  <1>1. CASE SweepBlock(r) \/ SweepAgain(r) \/ MiddleBlock(r)
    <2>1. \A q \in Rank : done[q] \subseteq done'[q]
      BY <1>1 DEF SweepBlock, SweepAgain, MiddleBlock, TypeInv, TypeOK
    <2> QED
      BY <1>1, <2>1, DoneStay DEF SweepBlock, SweepAgain, MiddleBlock
  <1>2. CASE SweepEnd(r) \/ PostMiddle(r) \/ MiddleEnd(r) \/ WaitSends(r)
             \/ PostRepeat(r)
    <2>1. pc[r] \in QuietPhases \ {"drain"}
      BY <1>2 DEF QuietPhases, SweepPhases, SweepEnd, PostMiddle, MiddleEnd,
                  WaitSends, PostRepeat
    <2>2. pc[r] \notin {"reduce", "end", "drain"}
          /\ \A pat \in Patterns : pc[r] # RecvPhase(pat)
      BY <2>1 DEF QuietPhases, SweepPhases, RecvPhase, Patterns
    <2>3. /\ Enter(r, After(pc[r]))
          /\ done' = done /\ variant' = variant /\ iters' = iters
      BY <1>2 DEF SweepEnd, PostMiddle, MiddleEnd, WaitSends, PostRepeat
    <2> QED
      BY <2>2, <2>3, DoneMove
  <1>3. CASE Send(r, "top") \/ Send(r, "bottom") \/ ReadySend(r)
    <2>1. pc[r] \in {"send_top", "send_bot", "rsend"}
      BY <1>3 DEF Send, ReadySend
    <2>2. pc[r] \notin {"reduce", "end", "drain"}
          /\ \A pat \in Patterns : pc[r] # RecvPhase(pat)
      BY <2>1 DEF RecvPhase, Patterns
    <2>3. /\ Enter(r, After(pc[r]))
          /\ done' = done /\ variant' = variant /\ iters' = iters
      BY <1>3 DEF Send, ReadySend
    <2> QED
      BY <2>2, <2>3, DoneMove
  <1>4. CASE Drain(r)
    <2>1. /\ pc[r] = "drain" /\ Enter(r, After(pc[r]))
          /\ variant' = variant /\ iters' = iters
          /\ done' = [done EXCEPT ![r] = @ \cup MidUpd[r]]
      BY <1>4 DEF Drain
    <2>2. /\ \A q \in Rank : done[q] \subseteq done'[q]
          /\ MidUpd[r] \subseteq done'[r]
      BY <2>1 DEF TypeInv, TypeOK
    <2>3. \A pat \in Patterns : pc[r] # RecvPhase(pat)
      BY <2>1 DEF RecvPhase, Patterns
    <2>4. \A pat \in Patterns : Uses(pat) => \A q \in Rank :
            Rcvd(pat, pc[q])' <=> Rcvd(pat, pc[q])
      BY <2>1, <2>3, MoveSentRcvd
    <2>5. DoneReceived'
      BY <2>1, <2>2, <2>4 DEF DoneInv, DoneReceived, Uses
    <2>6. variant = "FULL" => \A q \in Rank :
            (PartNo(pc[q]) > 2)' <=> PartNo(pc[q]) > 2 \/ q = r
      BY <2>1, PartAfter
    <2>7. DoneMiddle'
      BY <2>1, <2>2, <2>6 DEF DoneInv, DoneMiddle
    <2> QED
      BY <2>5, <2>7 DEF DoneInv
  <1>5. ASSUME NEW pat \in {"top", "bottom"}, Recv(r, pat)
        PROVE  DoneInv'
    <2>1. pat \in Patterns /\ pc[r] = RecvPhase(pat)
      BY <1>5 DEF Recv, RecvPhase, Patterns
    <2> QED
      BY <1>5, <2>1, DoneRecv DEF Recv
  <1>6. CASE RecvRepeat(r)
    <2>1. "middle" \in Patterns /\ pc[r] = RecvPhase("middle")
      BY <1>6 DEF RecvRepeat, RecvPhase, Patterns
    <2> QED
      BY <1>6, <2>1, DoneRecv DEF RecvRepeat
  <1> QED
    BY <1>1, <1>2, <1>3, <1>4, <1>5, <1>6 DEF Step

-----------------------------------------------------------------------------
(* Posted receives and the barrier                                         *)

PostInv == MiddlePosted /\ RepeatPosted

(* The posts of gauss_seidel_loop stay until the drain; its list holds the  *)
(* middle blocks.                                                          *)
LEMMA StepMiddlePosted ==
  ASSUME TypeInv, MiddlePosted, NEW r \in Rank, Step(r)
  PROVE  MiddlePosted'
  <1>1. \A q \in Rank \ {r} : /\ pc'[q] = pc[q] /\ todo'[q] = todo[q]
                              /\ req'[q] = req[q]
    BY DEF Step, TypeInv, TypeOK, Enter, SweepBlock, SweepAgain, SweepEnd, Send,
           Recv, PostMiddle, MiddleBlock, MiddleEnd, WaitSends, Drain,
           PostRepeat, ReadySend, RecvRepeat
  <1>2. /\ pc'[r] \in {"mid_loop", "wait_sends", "drain"} =>
             \A a \in MidUpd[r] : req'[r][a] # "none"
        /\ pc'[r] = "mid_loop" => todo'[r] \subseteq Middle[r]
    <2>1. CASE PostMiddle(r)
      <3>1. MidUpd[r] \subseteq Block
        BY BlockSets
      <3>2. pc'[r] = "mid_loop" /\ todo'[r] = SweepSet("mid_loop", r)
        BY <2>1 DEF PostMiddle, Enter, After, TypeInv, TypeOK
      <3>3. SweepSet("mid_loop", r) = Middle[r]
        BY DEF SweepSet
      <3> QED
        BY <2>1, <3>1, <3>2, <3>3 DEF PostMiddle, TypeInv, TypeOK
    <2>2. CASE MiddleBlock(r)
      BY <2>2 DEF MiddleBlock, MiddlePosted, TypeInv, TypeOK
    <2>3. CASE MiddleEnd(r) \/ WaitSends(r)
      BY <2>3 DEF MiddleEnd, WaitSends, Enter, After, MiddlePosted, TypeInv, TypeOK
    <2>4. CASE ~ (PostMiddle(r) \/ MiddleBlock(r) \/ MiddleEnd(r) \/ WaitSends(r))
      <3>1. pc'[r] \notin {"mid_loop", "wait_sends", "drain"}
        <4>1. CASE SweepBlock(r) \/ SweepAgain(r)
          BY <4>1 DEF SweepBlock, SweepAgain, SweepPhases
        <4>2. CASE SweepEnd(r)
          <5>1. After(pc[r]) \notin {"mid_loop", "wait_sends", "drain"}
            BY <4>2 DEF SweepEnd, SweepPhases, After
          <5> QED
            BY <4>2, <5>1 DEF SweepEnd, Enter, TypeInv, TypeOK
        <4>3. CASE Drain(r) \/ PostRepeat(r) \/ ReadySend(r) \/ RecvRepeat(r)
                   \/ Send(r, "top") \/ Send(r, "bottom")
                   \/ Recv(r, "top") \/ Recv(r, "bottom")
          <5>1. After(pc[r]) \notin {"mid_loop", "wait_sends", "drain"}
            BY <4>3 DEF Drain, PostRepeat, ReadySend, RecvRepeat, Send, Recv,
                        After, FirstMiddlePhase
          <5>2. Enter(r, After(pc[r]))
            BY <4>3 DEF Drain, PostRepeat, ReadySend, RecvRepeat, Send, Recv
          <5> QED
            BY <5>1, <5>2 DEF Enter, TypeInv, TypeOK
        <4> QED
          BY <2>4, <4>1, <4>2, <4>3 DEF Step
      <3> QED
        BY <3>1
    <2> QED
      BY <2>1, <2>2, <2>3, <2>4
  <1> QED
    BY <1>1, <1>2 DEF MiddlePosted

(* A rank passes the barrier with all others only, its receive posted.      *)
LEMMA StepRepeatPosted ==
  ASSUME TypeInv, RepeatPosted, NEW r \in Rank, Step(r)
  PROVE  RepeatPosted'
  <1> SUFFICES ASSUME variant = "MIDDLE_JACOBI", variant' = "MIDDLE_JACOBI"
               PROVE  RepeatPosted'
    BY DEF RepeatPosted, Step, SweepBlock, SweepAgain, SweepEnd, Send,
           Recv, PostMiddle, MiddleBlock, MiddleEnd, WaitSends, Drain,
           PostRepeat, ReadySend, RecvRepeat
  <1>1. /\ iters' = iters
        /\ \A q \in Rank \ {r} : pc'[q] = pc[q] /\ posted'[q] = posted[q]
    BY SMTT(20) DEF Step, TypeInv, TypeOK, Enter, SweepBlock, SweepAgain, SweepEnd, Send,
           Recv, PostMiddle, MiddleBlock, MiddleEnd, WaitSends, Drain,
           PostRepeat, ReadySend, RecvRepeat, Receive
  <1>2. Live(pc[r])
    BY LivePhases
  <1>3. \/ pc'[r] = pc[r]
        \/ pc[r] \notin {"reduce", "end", "barrier"} /\ pc'[r] = After(pc[r])
    BY DEF Step, TypeInv, TypeOK, Enter, SweepBlock, SweepAgain, SweepEnd, Send,
           Recv, PostMiddle, MiddleBlock, MiddleEnd, WaitSends, Drain,
           PostRepeat, ReadySend, RecvRepeat, SweepPhases
  <1>4. ASSUME NEW p, Live(p), p \notin {"reduce", "end", "barrier"}
        PROVE  PastBarrier(After(p)) <=> PastBarrier(p)
    BY <1>4 DEF Live, Fits, Phases, SweepPhases, PastBarrier, PartNo, After,
           FirstMiddlePhase, TopPhases, MidPhases, MiddleJacobiPhases,
           FullPhases, BoundaryPhases
  <1>5. \A q \in Rank : PastBarrier(pc[q])' <=> PastBarrier(pc[q])
    <2>1. \A q \in Rank : PastBarrier(pc[q])' <=> PastBarrier(pc'[q])
      BY <1>1 DEF PastBarrier, PartNo, IsBackward
    <2> QED
      BY <1>1, <1>2, <1>3, <1>4, <2>1
  <1>6. pc'[r] \in {"barrier", "rsend", "recv_mid"} => "middle" \in posted'[r]
    <2>1. CASE SweepBlock(r) \/ SweepAgain(r) \/ MiddleBlock(r)
      BY <2>1 DEF SweepBlock, SweepAgain, MiddleBlock, SweepPhases, RepeatPosted
    <2>2. CASE SweepEnd(r) \/ PostMiddle(r) \/ MiddleEnd(r) \/ WaitSends(r)
               \/ Drain(r) \/ RecvRepeat(r) \/ Send(r, "top") \/ Send(r, "bottom")
               \/ Recv(r, "top") \/ Recv(r, "bottom")
      <3>1. After(pc[r]) \notin {"barrier", "rsend", "recv_mid"}
        BY <2>2 DEF SweepEnd, PostMiddle, MiddleEnd, WaitSends, Drain, RecvRepeat,
                    Send, Recv, SweepPhases, After, FirstMiddlePhase
      <3>2. Enter(r, After(pc[r]))
        BY <2>2 DEF SweepEnd, PostMiddle, MiddleEnd, WaitSends, Drain, RecvRepeat,
                    Send, Recv
      <3> QED
        BY <3>1, <3>2 DEF Enter, TypeInv, TypeOK
    <2>3. CASE PostRepeat(r)
      BY <2>3 DEF PostRepeat, TypeInv, TypeOK
    <2>4. CASE ReadySend(r)
      BY <2>4 DEF ReadySend, RepeatPosted
    <2> QED
      BY <2>1, <2>2, <2>3, <2>4 DEF Step
  <1>7. \A q \in Rank :
          pc'[q] \in {"barrier", "rsend", "recv_mid"} => "middle" \in posted'[q]
    BY <1>1, <1>6 DEF RepeatPosted
  <1> QED
    BY <1>5, <1>7 DEF RepeatPosted

-----------------------------------------------------------------------------
(* Steps of all ranks together                                             *)

LEMMA OtherPatternInv ==
  ASSUME PatternInv,
         (\E m \in midmsg : Deliver(m)) \/ Collective \/ UNCHANGED vars
  PROVE  Net' /\ DoneInv' /\ PostInv'
  <1> USE DEF PatternInv
  <1>1. Net /\ DoneInv /\ PostInv
    BY DEF Net, DoneInv, PostInv
  <1>2. ASSUME NEW m \in midmsg, Deliver(m)
        PROVE  Net' /\ DoneInv' /\ PostInv'
    <2>1. Net' /\ DoneInv'
      BY <1>1, <1>2, NetStay, DoneStay DEF Deliver
    <2>2. \A q \in Rank : \A a \in Block :
            req[q][a] # "none" => req'[q][a] # "none"
      BY <1>2 DEF Deliver, TypeInv, TypeOK
    <2>3. MiddlePosted'
      BY <1>2, <2>2, BlockSets DEF Deliver, MiddlePosted
    <2>4. RepeatPosted'
      BY <1>2 DEF Deliver, RepeatPosted, PastBarrier, PartNo, IsBackward
    <2> QED
      BY <2>1, <2>3, <2>4 DEF PostInv
  <1>3. CASE UNCHANGED vars
    <2>1. Net' /\ DoneInv'
      BY <1>1, <1>3, NetStay, DoneStay DEF vars
    <2>2. MiddlePosted'
      BY <1>3 DEF vars, MiddlePosted
    <2>3. RepeatPosted'
      BY <1>3 DEF vars, RepeatPosted, PastBarrier, PartNo, IsBackward
    <2> QED
      BY <2>1, <2>2, <2>3 DEF PostInv
  <1>4. CASE Barrier
    <2>1. PICK x \in Rank : TRUE
      BY OwnerAssumption
    <2>2. variant = "MIDDLE_JACOBI"
      BY <1>4, <2>1 DEF Barrier, TypeInv, PhaseOfVariant, Fits, MiddleJacobiPhases
    <2>3. /\ \A q \in Rank : pc[q] = "barrier" /\ pc'[q] = "rsend"
          /\ chan' = chan /\ done' = done /\ iters' = iters /\ req' = req
          /\ posted' = posted /\ todo' = todo /\ variant' = variant
      BY <1>4 DEF Barrier, After
    <2>4. \A pat \in Patterns : \A q \in Rank :
            /\ Sent(pat, pc[q])' <=> Sent(pat, pc[q])
            /\ Rcvd(pat, pc[q])' <=> Rcvd(pat, pc[q])
      BY <2>3 DEF Sent, Rcvd, PartNo, PatternPart, IsBackward, MidPhases,
                  MiddleJacobiPhases
    <2>5. Net'
      BY <1>1, <2>3, <2>4, NetKept
    <2>6. DoneInv'
      BY <1>1, <2>2, <2>3, <2>4, DoneKept
    <2>7. MiddlePosted'
      BY <2>3 DEF MiddlePosted
    <2>8. RepeatPosted'
      BY <2>2, <2>3 DEF RepeatPosted, PastBarrier
    <2> QED
      BY <2>5, <2>6, <2>7, <2>8 DEF PostInv
  <1>5. CASE UpdateExternal
    <2>1. PICK x \in Rank : TRUE
      BY OwnerAssumption
    <2>2. variant = "BOUNDARY_JACOBI" /\ variant' = variant /\ iters' = iters
      BY <1>5, <2>1 DEF UpdateExternal, TypeInv, PhaseOfVariant, Fits,
                        BoundaryPhases
    <2>3. chan' = chan /\ done' = done /\ \A q \in Rank : pc'[q] = "reduce"
      BY <1>5 DEF UpdateExternal, After
    <2>4. Net'
      BY <1>1, <2>2, <2>3, NetKept DEF Uses
    <2>5. DoneInv'
      BY <2>2 DEF DoneInv, DoneReceived, DoneMiddle, Uses
    <2>6. PostInv'
      BY <2>2, <2>3 DEF PostInv, MiddlePosted, RepeatPosted
    <2> QED
      BY <2>4, <2>5, <2>6
  <1>6. CASE Reduce
    <2>1. /\ \A q \in Rank : pc[q] = "reduce"
          /\ chan' = chan /\ variant' = variant /\ iters' \in Int
          /\ \/ \A q \in Rank : pc'[q] = "end" /\ done' = done
             \/ \A q \in Rank : pc'[q] = FirstPhase'
      BY <1>6, SMTT(20) DEF Reduce, TypeInv, TypeOK
    <2>2. \A pat \in Patterns : \A q \in Rank : Rcvd(pat, pc[q])
      BY <2>1 DEF Rcvd, PartNo, PatternPart
    <2>3. ASSUME variant # "BOUNDARY_JACOBI", NEW q \in Rank, pc'[q] = FirstPhase'
          PROVE  /\ PartNo(pc[q])' = 1
                 /\ \A pat \in Patterns : ~ Rcvd(pat, pc[q])' /\ ~ Sent(pat, pc[q])'
      <3>1. CASE IsBackward'
        <4>1. pc'[q] = "bottom"
          BY <2>1, <2>3, <3>1 DEF FirstPhase
        <4>2. PartNo(pc[q])' = 1
          BY <3>1, <4>1 DEF PartNo, TopPhases, MidPhases, MiddleJacobiPhases,
                            FullPhases
        <4> QED
          BY <3>1, <4>1, <4>2 DEF Rcvd, Sent, PatternPart, Patterns
      <3>2. CASE ~ IsBackward'
        <4>1. pc'[q] = "top"
          BY <2>1, <2>3, <3>2 DEF FirstPhase
        <4>2. PartNo(pc[q])' = 1
          BY <3>2, <4>1 DEF PartNo, TopPhases, MidPhases, MiddleJacobiPhases,
                            FullPhases
        <4> QED
          BY <3>2, <4>1, <4>2 DEF Rcvd, Sent, PatternPart, Patterns
      <3> QED
        BY <3>1, <3>2
    <2>3a. ASSUME NEW q \in Rank, pc'[q] = "end"
           PROVE  \A pat \in Patterns : Rcvd(pat, pc[q])' /\ Sent(pat, pc[q])'
      BY <2>3a DEF Rcvd, Sent, PartNo, PatternPart
    <2>4. \A pat \in Patterns : Uses(pat)' <=> Uses(pat)
      BY <2>1 DEF Uses
    <2>5. \A pat \in Patterns : \A q, r \in Rank :
            ~ InFlight(pat, q, r) /\ ~ InFlight(pat, q, r)'
      BY <2>1, <2>2, <2>3, <2>4, <2>3a DEF InFlight, Uses
    <2>6. Causal'
      BY <2>1, <2>3, <2>4, <2>3a DEF Causal, Uses
    <2>7. TopChannels' /\ BottomChannels'
      BY <2>1, <2>5 DEF TopChannels, BottomChannels, Count, Patterns
    <2>8. DoneReceived'
      <3>1. CASE \A q \in Rank : pc'[q] = "end" /\ done' = done
        BY <2>2, <2>4, <3>1 DEF DoneReceived
      <3>2. CASE \A q \in Rank : pc'[q] = FirstPhase'
        BY <2>3, <2>4, <3>2 DEF DoneReceived, Uses
      <3> QED
        BY <2>1, <3>1, <3>2
    <2>9. DoneMiddle'
      <3>1. CASE \A q \in Rank : pc'[q] = "end" /\ done' = done
        BY <2>1, <3>1 DEF DoneMiddle, PartNo
      <3>2. CASE \A q \in Rank : pc'[q] = FirstPhase'
        BY <2>1, <2>3, <3>2 DEF DoneMiddle
      <3> QED
        BY <2>1, <3>1, <3>2
    <2>10. \A q \in Rank : pc'[q] \in {"end", "top", "bottom", "all"}
      BY <2>1 DEF FirstPhase
    <2>11. MiddlePosted'
      BY <2>10 DEF MiddlePosted
    <2>12. RepeatPosted'
      <3>1. \A q, r \in Rank : pc'[q] = pc'[r]
        BY <2>1
      <3> QED
        BY <2>10, <3>1 DEF RepeatPosted, PastBarrier, PartNo
    <2> QED
      BY <2>6, <2>7, <2>8, <2>9, <2>11, <2>12 DEF Net, DoneInv, PostInv
  <1> QED
    BY <1>2, <1>3, <1>4, <1>5, <1>6 DEF Collective

LEMMA InitPatternInv == Init => PatternInv
  <1> SUFFICES ASSUME Init PROVE PatternInv
    OBVIOUS
  <1>1. TypeInv
    BY InitTypeInv
  <1>2. ~ IsBackward
    BY DEF Init, IsBackward
  <1>3. \A r \in Rank : pc[r] \in {"top", "all"}
    BY <1>2 DEF Init, FirstPhase
  <1>4. \A pat \in Patterns : Uses(pat) => \A r \in Rank :
          ~ Sent(pat, pc[r]) /\ ~ Rcvd(pat, pc[r])
    BY <1>2 DEF Init, FirstPhase, Uses, Sent, Rcvd, PartNo, PatternPart,
                TopPhases, MidPhases, MiddleJacobiPhases, FullPhases, Patterns
  <1>5. \A pat \in Patterns : \A q, r \in Rank : ~ InFlight(pat, q, r)
    BY <1>4 DEF InFlight
  <1>6. \A pat \in Patterns : \A q, r \in Rank : chan[<<q, r, Tag(pat)>>] = <<>>
    BY BottomTag DEF Init
  <1>7. Causal /\ DoneReceived
    BY <1>4 DEF Causal, DoneReceived
  <1>8. TopChannels /\ BottomChannels
    BY <1>5, <1>6 DEF TopChannels, BottomChannels, Count, Patterns
  <1>9. DoneMiddle
    BY <1>2 DEF Init, FirstPhase, DoneMiddle, PartNo, TopPhases, MidPhases,
                MiddleJacobiPhases, FullPhases
  <1>10. MiddlePosted
    BY <1>3 DEF MiddlePosted
  <1>11. RepeatPosted
    BY <1>2, <1>3 DEF Init, FirstPhase, RepeatPosted, PastBarrier, PartNo,
                TopPhases, MidPhases, MiddleJacobiPhases, FullPhases
  <1> QED
    BY <1>1, <1>7, <1>8, <1>9, <1>10, <1>11 DEF PatternInv

LEMMA NextPatternInv == PatternInv /\ [Next]_vars => PatternInv'
  <1> SUFFICES ASSUME PatternInv, [Next]_vars PROVE PatternInv'
    OBVIOUS
  <1>1. TypeInv'
    BY NextTypeInv DEF PatternInv
  <1>2. Net' /\ DoneInv' /\ PostInv'
    <2>1. CASE \E r \in Rank : Step(r)
      BY <2>1, StepNet, StepDone, StepMiddlePosted, StepRepeatPosted
      DEF PatternInv, Net, DoneInv, PostInv
    <2>2. CASE (\E m \in midmsg : Deliver(m)) \/ Collective \/ UNCHANGED vars
      BY <2>2, OtherPatternInv
    <2> QED
      BY <2>1, <2>2 DEF Next, Ended
  <1> QED
    BY <1>1, <1>2 DEF PatternInv, Net, DoneInv, PostInv

LEMMA PatternInvariant == Spec => []PatternInv
  BY InitPatternInv, NextPatternInv, PTL DEF Spec

-----------------------------------------------------------------------------
(* What the invariant gives                                                *)

(* An external block is a bottom, top or middle block of its owner, and    *)
(* coupled to a block of the rank that keeps the copy.                     *)
LEMMA ExternalBlocks ==
  ASSUME NEW r \in Rank, NEW b \in Block, Owner[b] = r, NEW a \in AdjExt[b]
  PROVE  /\ a \in Block /\ Owner[a] \in Rank /\ a \in Ext[r]
         /\ r \in Ranks[a]
         /\ \/ a \in Middle[Owner[a]]
            \/ a \in Top[Owner[a]] /\ Color[r] < Color[Owner[a]]
            \/ a \in Bottom[Owner[a]] /\ ~ (Color[r] < Color[Owner[a]])
  <1>1. a \in Block /\ <<b, a>> \in Adj /\ Owner[a] # Owner[b]
    BY DEF AdjExt
  <1>2. Owner[a] \in Rank /\ b \in AdjExt[a]
    BY <1>1, OwnerAssumption, AdjAssumption DEF AdjExt
  <1>3. a \in Ext[r] /\ a \in Mine[Owner[a]]
    BY <1>1, <1>2 DEF Ext, Mine
  <1>4. r \in Ranks[a]
    BY <1>1, <1>2 DEF Ranks
  <1>5. /\ Color[r] < Color[Owner[a]] => HasLower(a)
        /\ ~ (Color[r] < Color[Owner[a]]) => HasHigher(a)
    BY <1>2 DEF HasLower, HasHigher
  <1>6. \/ a \in Middle[Owner[a]]
        \/ a \in Top[Owner[a]] /\ HasLower(a) /\ ~ HasHigher(a)
        \/ a \in Bottom[Owner[a]] /\ HasHigher(a) /\ ~ HasLower(a)
    BY <1>2, <1>3, <1>5 DEF Top, Bottom, Middle
  <1> QED
    BY <1>1, <1>2, <1>3, <1>4, <1>5, <1>6

(* The middle loop never waits on a request that does not exist: what was  *)
(* not received with the top (backward: bottom) pattern has been posted.   *)
THEOREM WaitsArePosted == Spec => []WaitOnPosted
  <1>1. PatternInv => WaitOnPosted
    <2> SUFFICES ASSUME PatternInv, NEW r \in Rank, pc[r] = "mid_loop",
                        NEW b \in todo[r], NEW a \in Awaited(r, b)
                 PROVE  req[r][a] # "none"
      BY DEF WaitOnPosted
    <2>1. b \in Middle[r] /\ b \in Block /\ Owner[b] = r
      BY BlockSets DEF PatternInv, MiddlePosted, Mine
    <2>2. /\ a \in AdjExt[b] /\ a \notin done[r]
          /\ IF IsBackward THEN Color[r] > Color[Owner[a]]
                           ELSE Color[r] < Color[Owner[a]]
      BY DEF Awaited
    <2>3. /\ a \in Block /\ Owner[a] \in Rank /\ a \in Ext[r] /\ r \in Ranks[a]
          /\ \/ a \in Middle[Owner[a]]
             \/ a \in Top[Owner[a]] /\ Color[r] < Color[Owner[a]]
             \/ a \in Bottom[Owner[a]] /\ ~ (Color[r] < Color[Owner[a]])
      BY <2>1, <2>2, ExternalBlocks
    <2>4. Color[r] \in Nat /\ Color[Owner[a]] \in Nat
      BY <2>3, ColorAssumption
    <2>5. variant = "FULL"
      BY DEF PatternInv, TypeInv, PhaseOfVariant, Fits, FullPhases
    <2>6. a \in Middle[Owner[a]]
      <3>1. CASE IsBackward
        <4>1. Rcvd("bottom", pc[r])
          BY <3>1 DEF Rcvd, PartNo, PatternPart, MidPhases, FullPhases
        <4>2. a \notin Bottom[Owner[a]]
          BY <2>2, <2>3, <2>5, <4>1
          DEF PatternInv, DoneReceived, Uses, Patterns, PatternBlocks
        <4> QED
          BY <2>2, <2>3, <2>4, <3>1, <4>2
      <3>2. CASE ~ IsBackward
        <4>1. Rcvd("top", pc[r])
          BY <3>2 DEF Rcvd, PartNo, PatternPart, MidPhases, FullPhases
        <4>2. a \notin Top[Owner[a]]
          BY <2>2, <2>3, <2>5, <4>1
          DEF PatternInv, DoneReceived, Uses, Patterns, PatternBlocks
        <4> QED
          BY <2>2, <2>3, <2>4, <3>2, <4>2
      <3> QED
        BY <3>1, <3>2
    <2>7. a \in MidUpd[r]
      BY <2>3, <2>6 DEF MidUpd
    <2> QED
      BY <2>7 DEF PatternInv, MiddlePosted
  <1> QED
    BY <1>1, PatternInvariant, PTL

(* ASSERT_DEBUG (all_done (ldy)) holds at the end of every iteration.      *)
THEOREM AllDoneHolds == Spec => []AllDone
  <1>1. PatternInv => AllDone
    <2> SUFFICES ASSUME PatternInv, NEW r \in Rank, pc[r] = "reduce",
                        variant # "BOUNDARY_JACOBI", NEW a \in Ext[r]
                 PROVE  a \in done[r]
      BY DEF AllDone
    <2>1. PICK b \in Mine[r] : a \in AdjExt[b]
      BY DEF Ext
    <2>2. /\ a \in Block /\ Owner[a] \in Rank /\ r \in Ranks[a]
          /\ \/ a \in Middle[Owner[a]]
             \/ a \in Top[Owner[a]]
             \/ a \in Bottom[Owner[a]]
      BY <2>1, BlockSets, ExternalBlocks
    <2>3. PartNo(pc[r]) > 2 /\ \A pat \in Patterns : Rcvd(pat, pc[r])
      BY DEF Rcvd, PartNo, PatternPart
    <2>4. /\ a \in Top[Owner[a]] => a \in done[r]
          /\ a \in Bottom[Owner[a]] => a \in done[r]
      BY <2>2, <2>3
      DEF PatternInv, DoneReceived, Uses, Patterns, PatternBlocks
    <2>5. a \in Middle[Owner[a]] => a \in done[r]
      <3>1. CASE variant = "FULL"
        BY <2>3, <3>1 DEF PatternInv, DoneMiddle, MidUpd
      <3>2. CASE variant = "MIDDLE_JACOBI"
        BY <2>2, <2>3, <3>2
        DEF PatternInv, DoneReceived, Uses, Patterns, PatternBlocks
      <3> QED
        BY <3>1, <3>2, ParameterAssumption DEF PatternInv, TypeInv, TypeOK
    <2> QED
      BY <2>2, <2>4, <2>5
  <1> QED
    BY <1>1, PatternInvariant, PTL

(* Although mid_pattern and bot_pattern share a tag, no rank ever takes a  *)
(* message of one for the other.                                           *)
THEOREM OwnPatternReceived == Spec => []ReceivesOwnPattern
  <1>1. PatternInv => ReceivesOwnPattern
    <2> SUFFICES ASSUME PatternInv, NEW r \in Rank, NEW pat \in Patterns,
                        NEW q \in Sources[pat][r],
                        chan[<<q, r, Tag(pat)>>] # <<>>, pc[r] = RecvPhase(pat)
                 PROVE  Head(chan[<<q, r, Tag(pat)>>]).pat = pat
      BY DEF ReceivesOwnPattern, RecvPhase
    <2>1. Uses(pat)
      BY PhaseUses DEF PatternInv
    <2> QED
      BY <2>1, HeadIsOwn DEF PatternInv
  <1> QED
    BY <1>1, PatternInvariant, PTL

(* Every ready-mode send of COM_Repeat finds its receive posted and no     *)
(* other message of the same tag before it.                                *)
THEOREM ReadySendsMatched == Spec => []ReadySendMatched
  <1>1. PatternInv => ReadySendMatched
    <2> SUFFICES ASSUME PatternInv, NEW r \in Rank, pc[r] = "rsend",
                        NEW q \in Dests["middle"][r]
                 PROVE  "middle" \in posted[q] /\ chan[<<r, q, Tag("middle")>>] = <<>>
      BY DEF ReadySendMatched
    <2>1. q \in Rank /\ "middle" \in Patterns /\ "bottom" \in Patterns
      BY PatternSets DEF Patterns
    <2>2. variant = "MIDDLE_JACOBI" /\ Live(pc[r]) /\ Live(pc[q])
      BY <2>1, LivePhases
      DEF PatternInv, TypeInv, PhaseOfVariant, Fits, MiddleJacobiPhases
    <2>3. PastBarrier(pc[q])
      BY <2>1, <2>2 DEF PatternInv, RepeatPosted, PastBarrier
    <2>4. Uses("middle") /\ Uses("bottom") /\ ~ Sent("middle", pc[r])
      BY <2>2 DEF Uses, Sent, Rcvd, PartNo, PatternPart, MidPhases,
                  MiddleJacobiPhases
    <2>5. ~ Rcvd("middle", pc[q])
      BY <2>1, <2>4 DEF PatternInv, Causal
    <2>6. pc[q] \in {"rsend", "recv_mid"}
      BY <2>3, <2>5 DEF PastBarrier, Rcvd, PatternPart
    <2>7. "middle" \in posted[q]
      BY <2>1, <2>2, <2>6 DEF PatternInv, RepeatPosted
    <2>8. ~ InFlight("bottom", r, q) /\ ~ InFlight("middle", r, q)
      <3>1. CASE IsBackward
        <4>1. Rcvd("bottom", pc[q])
          BY <2>6, <3>1 DEF Rcvd, PartNo, PatternPart, MidPhases,
                            MiddleJacobiPhases
        <4> QED
          BY <2>4, <4>1 DEF InFlight
      <3>2. CASE ~ IsBackward
        <4>1. ~ Sent("bottom", pc[r])
          BY <2>2, <3>2, SharedTagOrder
        <4> QED
          BY <2>4, <4>1 DEF InFlight
      <3> QED
        BY <3>1, <3>2
    <2>9. Len(chan[<<r, q, Tag("middle")>>]) = 0
      BY <2>1, <2>8, BottomTag DEF PatternInv, BottomChannels, Count
    <2>10. chan[<<r, q, Tag("middle")>>] \in Seq(MessageType)
      BY <2>1, BottomTag DEF PatternInv, TypeInv, TypeOK, MessageType
    <2> QED
      BY <2>7, <2>9, <2>10
  <1> QED
    BY <1>1, PatternInvariant, PTL
=============================================================================
