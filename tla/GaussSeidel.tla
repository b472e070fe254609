---------------------------- MODULE GaussSeidel ----------------------------
(***************************************************************************)
(* The parallel block Gauss-Seidel solver of src/bgs.c (GAUSS_SEIDEL_Solve *)
(* of the MPI build, gauss_seidel_sweep, gauss_seidel_loop) on top of the  *)
(* communication patterns of src/com.c (COM_Send, COM_Recv, COM_Repeat).   *)
(*                                                                         *)
(* A block is a diagonal block DIAB with its constraint; a reaction is     *)
(* represented by its version, the number of times its block was solved.   *)
(* img[r][b] is the version in the external copy of b kept by rank r, the  *)
(* buffer con->R that adjext blocks point to.                              *)
(***************************************************************************)
EXTENDS Integers, Sequences, FiniteSets

CONSTANTS
  Rank,          \* MPI ranks
  Block,         \* diagonal blocks of all ranks
  Owner,         \* Owner[b]: the rank whose ldy->dia list holds b
  Adj,           \* pairs <<b, a>>: a is on the adj or adjext list of b
  Color,         \* colours of the ranks, from processor_coloring
  Variants,      \* values of gs->variant to consider
  Reverse,       \* gs->reverse
  InnerLoops,    \* gs->innerloops
  MaxIter,       \* gs->maxiter
  DiagMaxIter,   \* gs->diagmaxiter
  DiagOutcomes,  \* what a row solve may return: iterations, or -1 on failure
  Eager          \* TRUE if MPI may complete a send before it is received

AdjExt == [b \in Block |->
             {a \in Block : <<b, a>> \in Adj /\ Owner[a] # Owner[b]}]

ASSUME OwnerAssumption == Rank # {} /\ Owner \in [Block -> Rank]
(* W couples constraints through shared bodies, a symmetric relation.       *)
ASSUME AdjAssumption ==
  /\ Adj \subseteq Block \X Block
  /\ \A a, b \in Block : <<a, b>> \in Adj => <<b, a>> \in Adj /\ a # b
(* Established by processor_coloring, see module Coloring.                  *)
ASSUME ColorAssumption ==
  /\ Color \in [Rank -> Nat \ {0}]
  /\ \A b \in Block : \A a \in AdjExt[b] : Color[Owner[a]] # Color[Owner[b]]
ASSUME ParameterAssumption ==
  /\ Variants \subseteq {"FULL", "MIDDLE_JACOBI", "BOUNDARY_JACOBI"}
  /\ Reverse \in BOOLEAN
  /\ InnerLoops \in Nat \ {0}
  /\ MaxIter \in Nat \ {0}
  /\ DiagMaxIter \in Nat \ {0}
  /\ DiagOutcomes \subseteq Int
  /\ Eager \in BOOLEAN

VARIABLES
  variant,  \* gs->variant
  iters,    \* gs->iters; the Allreduce keeps it equal on all ranks
  pc,       \* pc[r]: the phase of the iteration rank r is in
  todo,     \* todo[r]: blocks left to the sweep rank r is in
  loops,    \* loops[r]: repetitions left of that sweep
  R,        \* R[b]: version of the reaction of b at its owner
  seen,     \* seen[b][a]: version of a used when b was solved last
  img,      \* img[r][b]: version in the external copy of b at r
  done,     \* done[r]: external constraints of r flagged CON_DONE
  chan,     \* chan[<<r, q, tag>>]: messages of the patterns on their way
  posted,   \* posted[r]: patterns with receives posted at r
  req,      \* req[r][b]: the request that con->dia of external b points to
  midmsg,   \* reactions of middle blocks on their way
  dimax,    \* dimax[r]: largest result of a row solve at r
  failed,   \* ranks where some row solve failed for good
  met,      \* the last test of error and merit was met
  error     \* gs->error

vars == <<variant, iters, pc, todo, loops, R, seen, img, done, chan, posted,
          req, midmsg, dimax, failed, met, error>>

-----------------------------------------------------------------------------
(* Block sets                                                              *)

Mine == [r \in Rank |-> {b \in Block : Owner[b] = r}]
Ext  == [r \in Rank |-> UNION {AdjExt[b] : b \in Mine[r]}]

HasLower(b)  == \E a \in AdjExt[b] : Color[Owner[a]] < Color[Owner[b]]
HasHigher(b) == \E a \in AdjExt[b] : ~ (Color[Owner[a]] < Color[Owner[b]])

Middle   == [r \in Rank |-> {b \in Mine[r] : HasHigher(b) /\ HasLower(b)}]
Bottom   == [r \in Rank |-> {b \in Mine[r] : HasHigher(b) /\ ~ HasLower(b)}]
Top      == [r \in Rank |-> {b \in Mine[r] : HasLower(b) /\ ~ HasHigher(b)}]
Internal == [r \in Rank |-> {b \in Mine[r] : ~ HasLower(b) /\ ~ HasHigher(b)}]

(* |int2| is chosen so that |bottom| + |int1| = |top| + |int2|, if possible *)
Int2Size(r) ==
  LET balance == (Cardinality(Internal[r]) + Cardinality(Top[r])
                    - Cardinality(Bottom[r])) \div 2
  IN  IF balance < 0 THEN 0
      ELSE IF balance > Cardinality(Internal[r]) THEN Cardinality(Internal[r])
      ELSE balance
(* The split follows the addresses of the blocks: any one is as good.      *)
Int2 == [r \in Rank |->
           {b \in Internal[r] :
              b \in CHOOSE S \in SUBSET Internal[r] :
                      Cardinality(S) = Int2Size(r)}]
Int1 == [r \in Rank |-> Internal[r] \ Int2[r]]

(* Ranks that keep an external copy of b, and the copies kept by r which   *)
(* middle blocks of other ranks update (midupd).                           *)
Ranks == [b \in Block |-> {Owner[a] : a \in AdjExt[b]}]
(* (mutant: only copies owned by lower colours are expected)               *)
MidUpdLower == [r \in Rank |-> 
  {a \in Ext[r] : a \in Middle[Owner[a]] /\ Color[Owner[a]] < Color[r]}]
MidUpd == [r \in Rank |-> {a \in Ext[r] : a \in Middle[Owner[a]]}]

-----------------------------------------------------------------------------
(* Phases of an iteration                                                  *)

SweepPhases == {"top", "int2", "bottom", "int1", "middle", "all"}

SweepSet(p, r) ==
  CASE p = "top"    -> Top[r]
    [] p = "bottom" -> Bottom[r]
    [] p = "int1"   -> Int1[r]
    [] p = "int2"   -> Int2[r]
    [] p \in {"middle", "mid_loop"} -> Middle[r]
    [] p = "all"    -> Mine[r]
    [] OTHER        -> {}

IsBackward == Reverse /\ iters % 2 = 1

FirstPhase == IF variant = "BOUNDARY_JACOBI" THEN "all"
              ELSE IF IsBackward THEN "bottom" ELSE "top"

FirstMiddlePhase == IF variant = "FULL" THEN "post_mid" ELSE "middle"

(* The phase that follows p; a backward iteration swaps the top and the    *)
(* bottom part around the middle part.                                     *)
After(p) ==
  CASE p = "top"        -> "send_top"
    [] p = "send_top"   -> "int2"
    [] p = "int2"       -> "recv_top"
    [] p = "recv_top"   -> IF IsBackward THEN "reduce" ELSE FirstMiddlePhase
    [] p = "bottom"     -> "send_bot"
    [] p = "send_bot"   -> "int1"
    [] p = "int1"       -> "recv_bot"
    [] p = "recv_bot"   -> IF IsBackward THEN FirstMiddlePhase ELSE "reduce"
    [] p = "post_mid"   -> "mid_loop"
    [] p = "mid_loop"   -> "wait_sends"
    [] p = "wait_sends" -> "drain"
    [] p = "middle"     -> "post_rep"
    [] p = "post_rep"   -> "barrier"
    [] p = "barrier"    -> "rsend"
    [] p = "rsend"      -> "recv_mid"
    [] p \in {"drain", "recv_mid"} -> IF IsBackward THEN "top" ELSE "bottom"
    [] p = "all"        -> "update_ext"
    [] p = "update_ext" -> "reduce"

Phases ==
  SweepPhases \cup
  {"send_top", "recv_top", "send_bot", "recv_bot", "post_mid", "mid_loop",
   "wait_sends", "drain", "post_rep", "barrier", "rsend", "recv_mid",
   "update_ext", "reduce", "end"}

Enter(r, p) ==
  /\ pc' = [pc EXCEPT ![r] = p]
  /\ todo' = [todo EXCEPT ![r] = SweepSet(p, r)]
  /\ loops' = [loops EXCEPT ![r] = InnerLoops]

-----------------------------------------------------------------------------
(* Communication patterns                                                  *)

Patterns == {"top", "bottom", "middle"}

PatternBlocks ==
  [pat \in Patterns |-> CASE pat = "top"    -> Top
                          [] pat = "bottom" -> Bottom
                          [] pat = "middle" -> Middle]

Dests == [pat \in Patterns |-> [r \in Rank |->
            UNION {Ranks[b] : b \in PatternBlocks[pat][r]}]]
Sources == [pat \in Patterns |-> [r \in Rank |->
              {q \in Rank : r \in Dests[pat][q]}]]

(* mid_pattern is created with the tag of bot_pattern.                      *)
Tag(pat) == IF pat = "top" THEN "TAG_GAUSS_SEIDEL_TOP"
            ELSE "TAG_GAUSS_SEIDEL_BOTTOM"

Tags     == {Tag(pat) : pat \in Patterns}
Channels == Rank \X Rank \X Tags

(* (mutant: the buffer is packed before the sweep)                         *)
MessageEarly(pat, r, q) ==
  LET ids == {b \in PatternBlocks[pat][r] : q \in Ranks[b]}
  IN  [pat |-> pat, ids |-> ids,
       val |-> [b \in Block |-> IF b \in ids THEN R[b] - 1 ELSE 0]]
Message(pat, r, q) ==
  LET ids == {b \in PatternBlocks[pat][r] : q \in Ranks[b]}
  IN  [pat |-> pat, ids |-> ids,
       val |-> [b \in Block |-> IF b \in ids THEN R[b] ELSE 0]]

(* Messages of one tag between two ranks do not overtake each other.       *)
Transmit(pat, r) ==
  chan' = [c \in Channels |->
             IF c[1] = r /\ c[2] \in Dests[pat][r] /\ c[3] = Tag(pat)
             THEN Append(chan[c], Message(pat, r, c[2])) ELSE chan[c]]

SendComplete(pat, r) ==
  Eager \/ \A q \in Dests[pat][r] :
             pat \in posted[q] \/ \A k \in 1 .. Len(chan[<<r, q, Tag(pat)>>]) :
                                    chan[<<r, q, Tag(pat)>>][k].pat # pat

Arrived(pat, r) ==
  \A q \in Sources[pat][r] : chan[<<q, r, Tag(pat)>>] # <<>>

-----------------------------------------------------------------------------
(* Row solves                                                              *)

Read(b, a) == IF Owner[a] = Owner[b] THEN R[a] ELSE img[Owner[b]][a]

(* gauss_seidel: one row solve of b at its owner r.  A result that is no    *)
(* success has been through the other diagonal solvers already.            *)
Solve(r, b) ==
  /\ seen' = [seen EXCEPT ![b] =
                [a \in Block |-> IF <<b, a>> \in Adj THEN Read(b, a) ELSE 0]]
  /\ R' = [R EXCEPT ![b] = @ + 1]
  /\ \E di \in DiagOutcomes :
       /\ dimax' = [dimax EXCEPT ![r] = IF di > @ THEN di ELSE @]
       /\ failed' = IF di < 0 \/ di >= DiagMaxIter THEN failed \cup {r}
                                                  ELSE failed

(* gauss_seidel_sweep: the order within a set follows block addresses.     *)
SweepBlock(r) ==
  /\ pc[r] \in SweepPhases
  /\ \E b \in todo[r] :
       /\ Solve(r, b)
       /\ todo' = [todo EXCEPT ![r] = @ \ {b}]
  /\ UNCHANGED <<variant, iters, pc, loops, img, done, chan, posted, req,
                 midmsg, met, error>>

(* (mutants: the sweep is repeated once too often, or never gets on)       *)
SweepAgainOnceMore(r) ==
  /\ pc[r] \in SweepPhases
  /\ todo[r] = {}
  /\ todo' = [todo EXCEPT ![r] = SweepSet(pc[r], r)]
  /\ loops' = [loops EXCEPT ![r] = @ - 1]
  /\ UNCHANGED <<variant, iters, pc, R, seen, img, done, chan, posted, req,
                 midmsg, dimax, failed, met, error>>
SweepAgainStuck(r) ==
  /\ pc[r] \in SweepPhases
  /\ todo[r] = {}
  /\ loops[r] > 1
  /\ UNCHANGED vars
SweepAgain(r) ==
  /\ pc[r] \in SweepPhases
  /\ todo[r] = {}
  /\ loops[r] > 1
  /\ todo' = [todo EXCEPT ![r] = SweepSet(pc[r], r)]
  /\ loops' = [loops EXCEPT ![r] = @ - 1]
  /\ UNCHANGED <<variant, iters, pc, R, seen, img, done, chan, posted, req,
                 midmsg, dimax, failed, met, error>>

(* (mutant: inner loops are left out)                                      *)
SweepEndEarly(r) ==
  /\ pc[r] \in SweepPhases
  /\ todo[r] = {}
  /\ Enter(r, After(pc[r]))
  /\ UNCHANGED <<variant, iters, R, seen, img, done, chan, posted, req,
                 midmsg, dimax, failed, met, error>>
SweepEnd(r) ==
  /\ pc[r] \in SweepPhases
  /\ todo[r] = {}
  /\ loops[r] = 1
  /\ Enter(r, After(pc[r]))
  /\ UNCHANGED <<variant, iters, R, seen, img, done, chan, posted, req,
                 midmsg, dimax, failed, met, error>>

-----------------------------------------------------------------------------
(* COM_Send and COM_Recv over top_pattern and bot_pattern                  *)

Send(r, pat) ==
  /\ pc[r] = (IF pat = "top" THEN "send_top" ELSE "send_bot")
  /\ Transmit(pat, r)
  /\ posted' = [posted EXCEPT ![r] = @ \cup {pat}]
  /\ Enter(r, After(pc[r]))
  /\ UNCHANGED <<variant, iters, R, seen, img, done, req, midmsg, dimax,
                 failed, met, error>>

(* (mutants: reactions are flagged but not copied, copied but not flagged) *)
ReceiveFlagsOnly(r, pat) ==
  LET from(q) == Head(chan[<<q, r, Tag(pat)>>])
  IN  /\ Arrived(pat, r)
      /\ done' = [done EXCEPT ![r] = @ \cup
                   UNION {from(q).ids : q \in Sources[pat][r]}]
      /\ chan' = [c \in Channels |->
                    IF c[1] \in Sources[pat][r] /\ c[2] = r /\ c[3] = Tag(pat)
                    THEN Tail(chan[c]) ELSE chan[c]]
      /\ posted' = [posted EXCEPT ![r] = @ \ {pat}]
      /\ img' = img
ReceiveCopiesOnly(r, pat) ==
  LET from(q) == Head(chan[<<q, r, Tag(pat)>>])
      got     == UNION {from(q).ids : q \in Sources[pat][r]}
  IN  /\ Arrived(pat, r)
      /\ img' = [img EXCEPT ![r] =
                   [b \in Block |-> IF b \in got THEN from(Owner[b]).val[b]
                                                 ELSE @[b]]]
      /\ chan' = [c \in Channels |->
                    IF c[1] \in Sources[pat][r] /\ c[2] = r /\ c[3] = Tag(pat)
                    THEN Tail(chan[c]) ELSE chan[c]]
      /\ posted' = [posted EXCEPT ![r] = @ \ {pat}]
      /\ done' = done
(* The receives of a pattern complete; then receive_reactions copies the   *)
(* reactions into the external constraints and flags them CON_DONE.        *)
Receive(r, pat) ==
  LET from(q) == Head(chan[<<q, r, Tag(pat)>>])
      got     == UNION {from(q).ids : q \in Sources[pat][r]}
  IN  /\ Arrived(pat, r)
      /\ img' = [img EXCEPT ![r] =
                   [b \in Block |-> IF b \in got THEN from(Owner[b]).val[b]
                                                 ELSE @[b]]]
      /\ done' = [done EXCEPT ![r] = @ \cup got]
      /\ chan' = [c \in Channels |->
                    IF c[1] \in Sources[pat][r] /\ c[2] = r /\ c[3] = Tag(pat)
                    THEN Tail(chan[c]) ELSE chan[c]]
      /\ posted' = [posted EXCEPT ![r] = @ \ {pat}]

Recv(r, pat) ==
  /\ pc[r] = (IF pat = "top" THEN "recv_top" ELSE "recv_bot")
  /\ SendComplete(pat, r)
  /\ Receive(r, pat)
  /\ Enter(r, After(pc[r]))
  /\ UNCHANGED <<variant, iters, R, seen, req, midmsg, dimax, failed, met,
                 error>>

-----------------------------------------------------------------------------
(* gauss_seidel_loop: middle blocks of the FULL variant                    *)

PostMiddle(r) ==
  /\ pc[r] = "post_mid"
  /\ req' = [req EXCEPT ![r] =
               [b \in Block |-> IF b \in MidUpd[r] THEN "posted" ELSE @[b]]]
  /\ Enter(r, After(pc[r]))
  /\ UNCHANGED <<variant, iters, R, seen, img, done, chan, posted, midmsg,
                 dimax, failed, met, error>>

(* The sort key of the list of middle blocks.                              *)
Score(b) ==
  LET keys == {0} \cup
        {IF IsBackward THEN Color[q] ELSE 0 - Color[q] : q \in Ranks[b]}
  IN  CHOOSE x \in keys : \A y \in keys : x <= y

NextMiddle(r) == {b \in todo[r] : \A c \in todo[r] : Score(b) <= Score(c)}

(* (mutant: nothing is awaited)                                            *)
AwaitedNone(r, b) == {}
(* External reactions that b has to wait for.                              *)
Awaited(r, b) ==
  {a \in AdjExt[b] :
     /\ a \notin done[r]
     /\ IF IsBackward THEN Color[r] > Color[Owner[a]]
                      ELSE Color[r] < Color[Owner[a]]}

MiddleReady(r) ==
  {b \in NextMiddle(r) : \A a \in Awaited(r, b) : req[r][a] = "arrived"}

(* (mutant: a block polls for all external reactions, whatever the colours) *)
MiddleBlockAwaitsAll(r) ==
  /\ pc[r] = "mid_loop"
  /\ \/ UNCHANGED vars
     \/ /\ \E b \in NextMiddle(r) :
             /\ \A a \in AdjExt[b] \ done[r] : req[r][a] = "arrived"
             /\ Solve(r, b)
             /\ todo' = [todo EXCEPT ![r] = @ \ {b}]
             /\ done' = [done EXCEPT ![r] = @ \cup AdjExt[b]]
             /\ midmsg' = midmsg \cup
                  {[id |-> b, to |-> q, val |-> R[b] + 1] : q \in Ranks[b]}
        /\ UNCHANGED <<variant, iters, pc, loops, img, chan, posted, req, met,
                       error>>
(* The waits for b end, b is solved and its reaction sent to every rank    *)
(* that keeps a copy of it.                                                *)
MiddleBlock(r) ==
  /\ pc[r] = "mid_loop"
  /\ \E b \in MiddleReady(r) :
       /\ Solve(r, b)
       /\ todo' = [todo EXCEPT ![r] = @ \ {b}]
       /\ done' = [done EXCEPT ![r] = @ \cup Awaited(r, b)]
       /\ midmsg' = midmsg \cup
            {[id |-> b, to |-> q, val |-> R[b] + 1] : q \in Ranks[b]}
  /\ UNCHANGED <<variant, iters, pc, loops, img, chan, posted, req, met,
                 error>>

MiddleEnd(r) ==
  /\ pc[r] = "mid_loop"
  /\ todo[r] = {}
  /\ Enter(r, After(pc[r]))
  /\ UNCHANGED <<variant, iters, R, seen, img, done, chan, posted, req,
                 midmsg, dimax, failed, met, error>>

(* MPI writes an arriving reaction straight into con->R of the copy, at    *)
(* any time between the post and the wait.                                 *)
Deliver(m) ==
  /\ m \in midmsg
  /\ req[m.to][m.id] = "posted"
  /\ img' = [img EXCEPT ![m.to][m.id] = m.val]
  /\ req' = [req EXCEPT ![m.to][m.id] = "arrived"]
  /\ midmsg' = midmsg \ {m}
  /\ UNCHANGED <<variant, iters, pc, todo, loops, R, seen, done, chan, posted,
                 dimax, failed, met, error>>

WaitSends(r) ==
  /\ pc[r] = "wait_sends"
  /\ Eager \/ \A m \in midmsg : Owner[m.id] # r
  /\ Enter(r, After(pc[r]))
  /\ UNCHANGED <<variant, iters, R, seen, img, done, chan, posted, req,
                 midmsg, dimax, failed, met, error>>

(* The remaining updates are awaited and the requests released.            *)
Drain(r) ==
  /\ pc[r] = "drain"
  /\ \A a \in MidUpd[r] \ done[r] : req[r][a] = "arrived"
  /\ done' = [done EXCEPT ![r] = @ \cup MidUpd[r]]
  /\ req' = [req EXCEPT ![r] =
               [b \in Block |-> IF b \in MidUpd[r] THEN "none" ELSE @[b]]]
  /\ Enter(r, After(pc[r]))
  /\ UNCHANGED <<variant, iters, R, seen, img, chan, posted, midmsg, dimax,
                 failed, met, error>>

-----------------------------------------------------------------------------
(* COM_Repeat over mid_pattern: middle blocks of the MIDDLE_JACOBI variant *)

PostRepeat(r) ==
  /\ pc[r] = "post_rep"
  /\ posted' = [posted EXCEPT ![r] = @ \cup {"middle"}]
  /\ Enter(r, After(pc[r]))
  /\ UNCHANGED <<variant, iters, R, seen, img, done, chan, req, midmsg, dimax,
                 failed, met, error>>

(* (mutant: no barrier)                                                    *)
BarrierNone ==
  /\ \E r \in Rank : /\ pc[r] = "barrier"
                     /\ pc' = [pc EXCEPT ![r] = After("barrier")]
  /\ UNCHANGED <<variant, iters, todo, loops, R, seen, img, done, chan,
                 posted, req, midmsg, dimax, failed, met, error>>
(* MPI_Barrier on MPI_COMM_WORLD: nobody leaves before everybody is there. *)
Barrier ==
  /\ \A r \in Rank : pc[r] = "barrier"
  /\ pc' = [r \in Rank |-> After("barrier")]
  /\ UNCHANGED <<variant, iters, todo, loops, R, seen, img, done, chan,
                 posted, req, midmsg, dimax, failed, met, error>>

(* MPI_Rsend: what was packed before the barrier, R is the same since.     *)
ReadySend(r) ==
  /\ pc[r] = "rsend"
  /\ Transmit("middle", r)
  /\ Enter(r, After(pc[r]))
  /\ UNCHANGED <<variant, iters, R, seen, img, done, posted, req, midmsg,
                 dimax, failed, met, error>>

(* (mutant: no wait for the receives of the pattern)                       *)
RecvRepeatNoWait(r) ==
  /\ pc[r] = "recv_mid"
  /\ Enter(r, After(pc[r]))
  /\ UNCHANGED <<variant, iters, R, seen, img, done, chan, posted, req,
                 midmsg, dimax, failed, met, error>>
RecvRepeat(r) ==
  /\ pc[r] = "recv_mid"
  /\ Receive(r, "middle")
  /\ Enter(r, After(pc[r]))
  /\ UNCHANGED <<variant, iters, R, seen, req, midmsg, dimax, failed, met,
                 error>>

-----------------------------------------------------------------------------
(* Collectives at the end of an iteration                                  *)

(* DOM_Update_External_Reactions of the BOUNDARY_JACOBI variant.           *)
UpdateExternal ==
  /\ \A r \in Rank : pc[r] = "update_ext"
  /\ img' = [r \in Rank |-> [b \in Block |-> IF b \in Ext[r] THEN R[b]
                                                          ELSE img[r][b]]]
  /\ pc' = [r \in Rank |-> After("update_ext")]
  /\ UNCHANGED <<variant, iters, todo, loops, R, seen, done, chan, posted,
                 req, midmsg, dimax, failed, met, error>>

(* What the second Allreduce makes of the largest row result of all ranks. *)
Outcome(n) ==
  IF \E r \in Rank : dimax[r] >= DiagMaxIter THEN "GS_DIAGONAL_DIVERGED"
  ELSE IF \A r \in Rank : dimax[r] < 0 THEN "GS_DIAGONAL_FAILED"
  ELSE IF n >= MaxIter THEN "GS_DIVERGED"
  ELSE "GS_OK"

(* (mutant: no undo_all between iterations)                                *)
ReduceNoUndo ==
  /\ \A r \in Rank : pc[r] = "reduce"
  /\ iters' = iters + 1
  /\ met' \in BOOLEAN
  /\ variant' = variant
  /\ IF iters' < MaxIter /\ ~ met'
     THEN /\ pc' = [r \in Rank |-> FirstPhase']
          /\ todo' = [r \in Rank |-> SweepSet(FirstPhase', r)]
          /\ loops' = [r \in Rank |-> InnerLoops]
          /\ error' = error
     ELSE /\ pc' = [r \in Rank |-> "end"]
          /\ error' = Outcome(iters')
          /\ UNCHANGED <<todo, loops>>
  /\ UNCHANGED <<R, seen, img, done, chan, posted, req, midmsg,
                 dimax, failed>>
(* The error is summed up over all ranks and, with the merit, decides for  *)
(* all of them alike; undo_all opens the next iteration.                   *)
Reduce ==
  /\ \A r \in Rank : pc[r] = "reduce"
  /\ iters' = iters + 1
  /\ met' \in BOOLEAN
  /\ variant' = variant
  /\ IF iters' < MaxIter /\ ~ met'
     THEN /\ pc' = [r \in Rank |-> FirstPhase']
          /\ todo' = [r \in Rank |-> SweepSet(FirstPhase', r)]
          /\ loops' = [r \in Rank |-> InnerLoops]
          /\ done' = [r \in Rank |-> {}]
          /\ error' = error
     ELSE /\ pc' = [r \in Rank |-> "end"]
          /\ error' = Outcome(iters')
          /\ UNCHANGED <<todo, loops, done>>
  /\ UNCHANGED <<R, seen, img, chan, posted, req, midmsg, dimax,
                 failed>>

(* GAUSS_SEIDEL_Solve has returned on all ranks. *)
Ended ==
  /\ \A r \in Rank : pc[r] = "end"
  /\ UNCHANGED vars

-----------------------------------------------------------------------------

Init ==
  /\ variant \in Variants
  /\ iters = 0
  /\ pc = [r \in Rank |-> FirstPhase]
  /\ todo = [r \in Rank |-> SweepSet(FirstPhase, r)]
  /\ loops = [r \in Rank |-> InnerLoops]
  /\ R = [b \in Block |-> 0]
  /\ seen = [b \in Block |-> [a \in Block |-> 0]]
  /\ img = [r \in Rank |-> [b \in Block |-> 0]]
  /\ done = [r \in Rank |-> {}]
  /\ chan = [c \in Channels |-> <<>>]
  /\ posted = [r \in Rank |-> {}]
  /\ req = [r \in Rank |-> [b \in Block |-> "none"]]
  /\ midmsg = {}
  /\ dimax = [r \in Rank |-> 0]
  /\ failed = {}
  /\ met = FALSE
  /\ error = "GS_OK"

Step(r) ==
  \/ SweepBlock(r)
  \/ SweepAgain(r)
  \/ SweepEnd(r)
  \/ Send(r, "top")
  \/ Send(r, "bottom")
  \/ Recv(r, "top")
  \/ Recv(r, "bottom")
  \/ PostMiddle(r)
  \/ MiddleBlock(r)
  \/ MiddleEnd(r)
  \/ WaitSends(r)
  \/ Drain(r)
  \/ PostRepeat(r)
  \/ ReadySend(r)
  \/ RecvRepeat(r)

Collective == Barrier \/ UpdateExternal \/ Reduce

Next ==
  \/ \E r \in Rank : Step(r)
  \/ \E m \in midmsg : Deliver(m)
  \/ Collective
  \/ Ended

(* Every MPI process runs, MPI progresses the transfers, collectives that  *)
(* all ranks have entered complete.                                        *)
Fairness ==
  /\ \A r \in Rank : WF_vars(Step(r))
  /\ WF_vars(\E m \in midmsg : Deliver(m))
  /\ WF_vars(Collective)

Spec     == Init /\ [][Next]_vars
FairSpec == Spec /\ Fairness

-----------------------------------------------------------------------------
(* Types of the solver's state.                                            *)
TypeOK ==
  /\ variant \in Variants
  /\ iters \in 0 .. MaxIter
  /\ pc \in [Rank -> Phases]
  /\ todo \in [Rank -> SUBSET Block]
  /\ loops \in [Rank -> 1 .. InnerLoops]
  /\ R \in [Block -> Nat]
  /\ seen \in [Block -> [Block -> Nat]]
  /\ img \in [Rank -> [Block -> Nat]]
  /\ done \in [Rank -> SUBSET Block]
  /\ chan \in [Channels -> Seq([pat : Patterns, ids : SUBSET Block,
                                val : [Block -> Nat]])]
  /\ posted \in [Rank -> SUBSET Patterns]
  /\ req \in [Rank -> [Block -> {"none", "posted", "arrived"}]]
  /\ midmsg \subseteq [id : Block, to : Rank, val : Nat]
  /\ dimax \in [Rank -> Int]
  /\ failed \subseteq Rank
  /\ met \in BOOLEAN
  /\ error \in {"GS_OK", "GS_DIVERGED", "GS_DIAGONAL_DIVERGED",
               "GS_DIAGONAL_FAILED"}

(* Blocks that rank r may solve in its next step. *)
Solvable(r) ==
  IF pc[r] \in SweepPhases THEN todo[r]
  ELSE IF pc[r] = "mid_loop" THEN MiddleReady(r) ELSE {}

(* The parallel solver is a sequential Gauss-Seidel method: its row solves, *)
(* taken one at a time, read the reactions of the moment, although ranks   *)
(* only know copies of each other's reactions, and every iteration solves  *)
(* every row its due number of times.  Middle rows are outside innerloops. *)
(* The Jacobi variants lag only where they are said to.                    *)
Lagged == [v \in Variants |->
  {p \in Adj :
     /\ p[2] \in AdjExt[p[1]]
     /\ \/ v = "BOUNDARY_JACOBI"
        \/ /\ v = "MIDDLE_JACOBI"
           /\ \A k \in 1 .. 2 : p[k] \in Middle[Owner[p[k]]]}]

Quota == [v \in Variants |->
  [b \in Block |-> IF v = "FULL" /\ b \in Middle[Owner[b]] THEN 1
                                                         ELSE InnerLoops]]

Sequential == INSTANCE SequentialSweep WITH sweep <- iters

SequentialSpec == Sequential!Spec

(* When all ranks meet in the Allreduce that ends an iteration, every      *)
(* external copy holds the reaction of its owner.                          *)
ExternalsCurrent ==
  (\A r \in Rank : pc[r] = "reduce") =>
    \A r \in Rank : \A a \in Ext[r] : img[r][a] = R[a]

(* ASSERT_DEBUG (all_done (ldy)): no rank leaves the parts of an iteration *)
(* that exchange reactions before all its external copies are flagged.     *)
AllDone ==
  \A r \in Rank :
    pc[r] = "reduce" /\ variant # "BOUNDARY_JACOBI" => Ext[r] \subseteq done[r]

(* No row solve reads a copy that MPI may be writing at the same time: if  *)
(* a receive into con->R is still open, nothing is on its way to it.       *)
NoReadWhileWritten ==
  \A r \in Rank : \A b \in Solvable(r) : \A a \in AdjExt[b] :
    req[r][a] = "posted" => \A m \in midmsg : ~ (m.to = r /\ m.id = a)

(* gauss_seidel_loop never waits on a request that was not posted: the     *)
(* external reactions it misses are all in midupd.                         *)
WaitOnPosted ==
  \A r \in Rank :
    pc[r] = "mid_loop" =>
      \A b \in todo[r] : \A a \in Awaited(r, b) : req[r][a] # "none"

(* mid_pattern and bot_pattern share a tag; still every receive completes  *)
(* with a message of its own pattern.                                      *)
ReceivesOwnPattern ==
  \A r \in Rank : \A pat \in Patterns : \A q \in Sources[pat][r] :
    LET c == chan[<<q, r, Tag(pat)>>]
    IN  (pat \in posted[r] /\ c # <<>>
           /\ pc[r] = CASE pat = "top" -> "recv_top"
                        [] pat = "bottom" -> "recv_bot"
                        [] pat = "middle" -> "recv_mid")
        => Head(c).pat = pat

(* A ready-mode send is only started when the matching receive is posted   *)
(* and no earlier message of that tag is left that could take it.          *)
ReadySendMatched ==
  \A r \in Rank : pc[r] = "rsend" =>
    \A q \in Dests["middle"][r] :
      "middle" \in posted[q] /\ chan[<<r, q, Tag("middle")>>] = <<>>

(* CON_DONE tells what happened in this iteration: the copy of a flagged   *)
(* reaction is as new as its owner's, for all rows solved next.            *)
DoneIsUpdated ==
  \A r \in Rank : \A b \in Solvable(r) : \A a \in AdjExt[b] :
    a \in done[r] => R[a] = Quota[variant][a] * (iters + 1)

(* The solver returns on all ranks: nobody waits for ever.                 *)
Termination == <>(\A r \in Rank : pc[r] = "end")

(* A rank on which a row solve failed for good makes the solver report an  *)
(* error (doc/solfec.lyx, table of error codes of GAUSS_SEIDEL_SOLVER).    *)
FailureReported ==
  (\A r \in Rank : pc[r] = "end") /\ failed # {} =>
    error \in {"GS_DIAGONAL_DIVERGED", "GS_DIAGONAL_FAILED"}
=============================================================================
