------------------------------- MODULE Output -------------------------------
(***************************************************************************)
(* A run of the MPI build up to the closed output files: SOLFEC_Run with   *)
(* its output and callback times (sol.c), the bodies that appear and       *)
(* disappear while it runs (dom.c, cra.c, lng.c), and what write_state     *)
(* records of them (dio.c) in the files of each rank (module Frames).      *)
(*                                                                         *)
(* The ranks take the steps of a run together: every time step and every   *)
(* callback ends in a collective call.  What a rank does between two of    *)
(* these calls depends on its own variables only, which is why all of them *)
(* are kept per rank.                                                      *)
(*                                                                         *)
(* Time counts time steps.  The state of a body is the time it was         *)
(* computed for; what a body is (shape, material, ...) is a pair: <<0, n>> *)
(* for the n-th body of the input file, <<b, k>> for the k-th fragment of  *)
(* body b, <<-t, 0>> for the body that the callback creates at time t.     *)
(* Constraints are left out, they are the subject of module Domain.        *)
(***************************************************************************)
EXTENDS Frames, FiniteSets, FiniteSetsExt, TLC

CONSTANTS NP,          \* number of ranks
          InitBodies,  \* number of bodies in the input file
          MaxId,       \* bound: body ids
          MaxTime,     \* bound: time steps
          MaxLost,     \* bound: bodies that disappear
          Intervals,   \* output and callback intervals the script uses
          Losses       \* bound: items of its streams that a process loses when it dies

ASSUME OutputAssumption ==
  /\ NP \in Nat \ {0}
  /\ InitBodies \in Nat \ {0}
  /\ MaxId \in Nat /\ InitBodies <= MaxId
  /\ MaxTime \in Nat \ {0}
  /\ MaxLost \in Nat
  /\ Intervals \subseteq Nat \ {0}
  /\ Losses \subseteq [idx : Nat, lab : Nat, dat : Nat]

VARIABLES
  pc,       \* where the ranks are
  time,     \* dom->time
  end,      \* sol->t0 + duration
  sol,      \* per rank: members of SOLFEC
  dom,      \* per rank: members of DOM
  file,     \* per rank: the files of pbf.c
  bodfile,  \* per rank: the .bod file, what each body of it is
  log       \* per rank: what has been recorded (no part of the program)

vars == <<pc, time, end, sol, dom, file, bodfile, log>>

Ranks == 0 .. (NP - 1)
Ids == 1 .. MaxId
Never == 2 * MaxTime + 1   \* DBL_MAX
NoBody == [b \in {} |-> <<>>]
Running == {"script", "loop", "output", "callback", "last"}
Ended == {"closed", "aborted", "crashed"}

Parents == UNION {Range(dom[r].bod) : r \in Ranks}

(* The bound on what disappears, when the bodies of S are next.            *)
MayLose(S) ==
  \A r \in Ranks :
    dom[r].bid - 1 - Cardinality(DOMAIN dom[r].all \ S) <= MaxLost

Without(f, S) == [b \in DOMAIN f \ S |-> f[b]]

(* The members of a list that are in S, in their order.                    *)
Chosen(list, S) ==
  LET upto[n \in 0 .. Len(list)] ==
        IF n = 0 THEN <<>>
        ELSE IF list[n] \in S THEN Append(upto[n - 1], list[n])
        ELSE upto[n - 1]
  IN  upto[Len(list)]

Dropped(list, S) == Chosen(list, Range(list) \ S)

(* n ids from first on, the last one first.                                *)
Downwards(first, n) == [i \in 1 .. n |-> first + n - i]

(* DOM_Insert_Body for the bodies of the input file: on all ranks, with    *)
(* rank id % NP as the parent, at the head of its list.                    *)
InitDom(r) ==
  [bid |-> InitBodies + 1,
   all |-> [b \in 1 .. InitBodies |-> <<0, b>>],
   bod |-> Chosen(Downwards(1, InitBodies), {b \in 1 .. InitBodies : b % NP = r}),
   newb |-> {},
   sparebid |-> {}]

InitSol ==
  [output_interval |-> 0, output_time |-> 0,
   callback |-> FALSE, callback_interval |-> Never, callback_time |-> Never,
   written |-> FALSE,    \* iover is positive
   lastwrite |-> FALSE]

Init ==
  /\ pc = "script"
  /\ time = 0
  /\ end = 0
  /\ sol = [r \in Ranks |-> InitSol]
  /\ dom = [r \in Ranks |-> InitDom(r)]
  /\ file = [r \in Ranks |-> NewFile]
  /\ bodfile = [r \in Ranks |-> NoBody]
  /\ log = [r \in Ranks |-> <<>>]

-----------------------------------------------------------------------------
(* One frame.                                                              *)

dom_write_state(f, bod) ==
  PBF_Put(PBF_Label(PBF_Label(f, "DOM"), "BODS"),
          <<Len(bod)>> \o FlattenSeq([i \in DOMAIN bod |-> <<bod[i], time>>]))

frame(f, s, d) ==
  LET t == PBF_Time(f, time)
      v == IF s.written THEN t ELSE PBF_Put(PBF_Label(t, "IOVER"), <<1>>)
  IN  PBF_Put(PBF_Label(dom_write_state(v, d.bod), "TIMERS"), <<0>>)

(* Mutant: the set of new bodies is emptied before it is written.          *)
NewBodiesEmptied(r) == bodfile[r]

(* write_new_bodies appends to the .bod file.  A reader keeps the first    *)
(* body it finds with an id.                                               *)
NewBodies(r) ==
  [b \in DOMAIN bodfile[r] \cup dom[r].newb |->
     IF b \in DOMAIN bodfile[r] THEN bodfile[r][b] ELSE dom[r].all[b]]

(* What rank r records: the bodies in its list.                            *)
Record(r) ==
  [time |-> time, bod |-> [b \in Range(dom[r].bod) |-> dom[r].all[b]]]

(* write_state on the ranks W, with the members s of SOLFEC: on disk ...   *)
Recording(W, s) ==
  /\ file' = [r \in Ranks |->
                IF r \in W THEN frame(file[r], s[r], dom[r]) ELSE file[r]]
  /\ bodfile' = [r \in Ranks |-> IF r \in W THEN NewBodies(r) ELSE bodfile[r]]
  /\ log' = [r \in Ranks |->
               IF r \in W THEN Append(log[r], Record(r)) ELSE log[r]]

(* ... and in memory; lw is what the caller assigns to lastwrite.          *)
write_state(W, s, lw) ==
  /\ Recording(W, s)
  /\ dom' = [r \in Ranks |->
               IF r \in W THEN [dom[r] EXCEPT !.newb = {}] ELSE dom[r]]
  /\ sol' = [r \in Ranks |->
               IF r \in W THEN [s[r] EXCEPT !.written = TRUE, !.lastwrite = lw]
               ELSE s[r]]

-----------------------------------------------------------------------------
(* The input script, before, between and after its RUN commands.  It runs  *)
(* on all ranks, but may give them different intervals.                    *)

SOLFEC_Output(interval) ==
  /\ pc = "script"
  /\ time < MaxTime
  /\ sol' = [r \in Ranks |->
               [sol[r] EXCEPT !.output_interval = interval[r],
                              !.output_time = time + interval[r]]]
  /\ UNCHANGED <<pc, time, end, dom, file, bodfile, log>>

(* On the ranks of S only.                                                 *)
SOLFEC_Set_Callback(S, interval) ==
  /\ pc = "script"
  /\ time < MaxTime
  /\ sol' = [r \in Ranks |->
               IF r \in S THEN [sol[r] EXCEPT !.callback = TRUE,
                                              !.callback_interval = interval[r],
                                              !.callback_time = time + interval[r]]
               ELSE sol[r]]
  /\ UNCHANGED <<pc, time, end, dom, file, bodfile, log>>

(* Mutant: output_time is not made uniform.                                *)
UniformIntervals ==
  [r \in Ranks |->
     [sol[r] EXCEPT
        !.callback = \A q \in Ranks : sol[q].callback,
        !.callback_interval = Min({sol[q].callback_interval : q \in Ranks}),
        !.output_interval = Min({sol[q].output_interval : q \in Ranks}),
        !.callback_time = Min({sol[q].callback_time : q \in Ranks})]]

(* "these values might differ due to clumsy input scripting: make them     *)
(* uniform": what the ranks go on with.                                    *)
Uniform ==
  [r \in Ranks |->
     [sol[r] EXCEPT
        !.callback = \A q \in Ranks : sol[q].callback,
        !.callback_interval = Min({sol[q].callback_interval : q \in Ranks}),
        !.output_interval = Min({sol[q].output_interval : q \in Ranks}),
        !.callback_time = Min({sol[q].callback_time : q \in Ranks}),
        !.output_time = Min({sol[q].output_time : q \in Ranks})]]

(* SOLFEC_Run up to its loop.                                              *)
Run(duration) ==
  /\ pc = "script"
  /\ time + duration <= MaxTime
  /\ pc' = "loop"
  /\ end' = time + duration
  /\ write_state(IF time = 0 THEN Ranks ELSE {}, Uniform, FALSE)
  /\ UNCHANGED time

-----------------------------------------------------------------------------
(* One time step, as far as bodies are concerned: load balancing moves a   *)
(* parent, bodies leave the scene or crack, and manage_bodies makes all    *)
(* ranks agree again.                                                      *)

(* Mutant: a new body that is removed stays among the bodies to be written. *)
RemovedStillNew(d, S) ==
  [d EXCEPT !.all = Without(@, S), !.bod = Dropped(@, S),
            !.sparebid = @ \cup S]

(* DOM_Remove_Body on one rank.                                            *)
Removed(d, S) ==
  [d EXCEPT !.all = Without(@, S), !.bod = Dropped(@, S), !.newb = @ \ S,
            !.sparebid = @ \cup S]

(* Body b gets its parent on rank to: pack_parent takes it out of the list *)
(* of one rank, unpack_parent puts it at the head of another.              *)
Migrated(b, to) ==
  [r \in Ranks |->
     IF b \notin Parents \/ b \in Range(dom[to].bod) THEN dom[r]
     ELSE IF r = to THEN [dom[r] EXCEPT !.bod = <<b>> \o @]
     ELSE [dom[r] EXCEPT !.bod = Dropped(@, {b})]]

(* DOM_Insert_Body on rank q, at a time > 0, of the bodies of a list in    *)
(* their order: each gets the next id and its parent on rank x.rank; all   *)
(* ranks insert their copy of it.                                          *)
Inserted(d, q, list) ==
  LET n == Len(list)
      new == d.bid .. (d.bid + n - 1)
      mine == {b \in new : list[b - d.bid + 1].rank = q}
  IN  [d EXCEPT !.all = [b \in DOMAIN @ \cup new |->
                           IF b \in new THEN list[b - d.bid + 1].what ELSE d.all[b]],
                !.bod = Chosen(Downwards(d.bid, n), mine) \o @,
                !.newb = @ \cup mine,
                !.bid = @ + n]

(* Mutant: a rank inserts its own pending bodies before those it receives. *)
InsertOrderOwnFirst(pending, q) ==
  pending[q] \o FlattenSeq([i \in 1 .. NP |->
                             IF i - 1 = q THEN <<>> ELSE pending[i - 1]])

(* The pending bodies in the order in which manage_bodies_unpack inserts   *)
(* them on rank q: the messages of all ranks, its own included, come in    *)
(* the order of ranks.                                                     *)
InsertOrder(pending, q) == FlattenSeq([i \in 1 .. NP |-> pending[i - 1]])

(* Bodies that DOM_Remove_Body has removed on one rank are removed on all. *)
manage_bodies(doms, pending) ==
  LET spare == UNION {doms[r].sparebid : r \in Ranks}
  IN  [q \in Ranks |->
         [Removed(Inserted(doms[q], q, InsertOrder(pending, q)), spare)
            EXCEPT !.sparebid = {}]]

(* The parts that the cracked bodies of rank r fall into: they wait in     *)
(* pendingbods until manage_bodies.  Their order there is that of their    *)
(* addresses on the rank that sends them; here it is that of the list.     *)
Fragments(r, bod, cracked, parts) ==
  LET split == Chosen(bod, cracked)
  IN  FlattenSeq([i \in DOMAIN split |->
        [k \in 1 .. parts |-> [rank |-> r, what |-> <<split[i], k>>]]])

(* DOM_Update_Begin and DOM_Update_End: body b migrates to rank to, the    *)
(* bodies of gone leave the scene, those of cracked split.                 *)
Step(b, to, gone, cracked, parts) ==
  LET doms == Migrated(b, to)
      Lost(r) == Range(doms[r].bod) \cap (gone \cup cracked)
  IN  /\ pc = "loop"
      /\ MayLose(gone \cup cracked)
      /\ \A r \in Ranks : dom[r].bid + parts * Cardinality(cracked) <= MaxId + 1
      /\ pc' = "output"
      /\ time' = time + 1
      /\ dom' = manage_bodies([r \in Ranks |-> Removed(doms[r], Lost(r))],
                              [r \in Ranks |-> Fragments(r, doms[r].bod, cracked, parts)])
      /\ sol' = [r \in Ranks |-> [sol[r] EXCEPT !.lastwrite = FALSE]]
      /\ UNCHANGED <<end, file, bodfile, log>>

-----------------------------------------------------------------------------
(* The rest of the loop of SOLFEC_Run.                                     *)

DueOutput == {r \in Ranks : time >= sol[r].output_time}

DueCallback == {r \in Ranks : sol[r].callback /\ time >= sol[r].callback_time}

(* "write output if needed"                                                *)
Output ==
  /\ pc = "output"
  /\ pc' = "callback"
  /\ write_state(DueOutput,
                 [r \in Ranks |->
                    IF r \in DueOutput
                    THEN [sol[r] EXCEPT !.output_time = @ + sol[r].output_interval]
                    ELSE sol[r]],
                 TRUE)
  /\ UNCHANGED <<time, end>>

(* What the callback does on rank r: DELETE of the bodies of S takes       *)
(* effect where the parent is, a new body is created on every rank.        *)
Changed(r, S, create) ==
  LET d == Removed(dom[r], S \cap Range(dom[r].bod))
  IN  IF create
      THEN Inserted(d, r, <<[rank |-> d.bid % NP, what |-> <<-time, 0>>]>>)
      ELSE d

(* "execute callback if needed"; go is FALSE when the callback returns 0   *)
(* on some rank or when there is a STOP file.  The callback is followed by *)
(* a collective call: ranks that do not agree on it would wait for ever.   *)
Callback(S, create, go) ==
  /\ pc = "callback"
  /\ DueCallback \in {{}, Ranks}
  /\ DueCallback = {} => S = {} /\ ~create
  /\ MayLose(S)
  /\ create => \A r \in Ranks : dom[r].bid <= MaxId
  /\ pc' = IF go /\ time < end THEN "loop" ELSE "last"
  /\ sol' = [r \in Ranks |->
               IF r \in DueCallback
               THEN [sol[r] EXCEPT !.callback_time = @ + sol[r].callback_interval]
               ELSE sol[r]]
  /\ dom' = [r \in Ranks |-> IF r \in DueCallback THEN Changed(r, S, create) ELSE dom[r]]
  /\ UNCHANGED <<time, end, file, bodfile, log>>

(* Mutant: the last state is always recorded.                              *)
RecordLastAlways ==
  /\ pc = "last"
  /\ pc' = "script"
  /\ write_state(Ranks, sol, FALSE)
  /\ UNCHANGED <<time, end>>

(* "record last state if out of sync"                                      *)
RecordLast ==
  /\ pc = "last"
  /\ pc' = "script"
  /\ write_state({r \in Ranks : ~sol[r].lastwrite}, sol, FALSE)
  /\ UNCHANGED <<time, end>>

-----------------------------------------------------------------------------
(* The end of the process.                                                 *)

(* Its memory is gone.                                                     *)
Gone ==
  /\ time' = 0
  /\ end' = 0
  /\ sol' = [r \in Ranks |-> InitSol]
  /\ dom' = [r \in Ranks |-> InitDom(r)]

(* SOLFEC_Destroy: "in case state was never written" it is written here.   *)
SOLFEC_Destroy ==
  /\ pc = "script"
  /\ pc' = "exit"
  /\ Recording({r \in Ranks : ~sol[r].written}, sol)
  /\ Gone

(* One step of PBF_Close on rank r: every rank closes its files by itself. *)
(* A program that has been aborted ends like one that has crashed if a     *)
(* rank has not got to it.                                                 *)
Close(r) ==
  /\ pc \in {"exit", "abort"}
  /\ ~Left(file[r])
  /\ file' = [file EXCEPT ![r] = PBF_Close(@)]
  /\ pc' = IF \E q \in Ranks : ~Left(file'[q]) THEN pc
           ELSE IF \E q \in Ranks : file'[q].stage = "dead" THEN "crashed"
           ELSE IF pc = "abort" THEN "aborted" ELSE "closed"
  /\ UNCHANGED <<time, end, sol, dom, bodfile, log>>

(* A signal, an error caught by main or a failure of MPI: SOLFEC_Abort     *)
(* writes the state and then closes the files on the ranks of S that get   *)
(* to it; the processes of the others end without it.                      *)
SOLFEC_Abort(S, lost) ==
  /\ pc \in Running
  /\ pc' = "abort"
  /\ file' = [r \in Ranks |->
                IF r \in S THEN frame(file[r], sol[r], dom[r])
                ELSE Torn(file[r], lost[r])]
  /\ bodfile' = [r \in Ranks |-> IF r \in S THEN NewBodies(r) ELSE bodfile[r]]
  /\ log' = [r \in Ranks |->
               IF r \in S THEN Append(log[r], Record(r)) ELSE log[r]]
  /\ Gone

(* All processes end without SOLFEC_Abort, or before it is through.        *)
Crash(lost) ==
  /\ pc \notin Ended
  /\ pc' = "crashed"
  /\ file' = [r \in Ranks |-> Torn(file[r], lost[r])]
  /\ Gone
  /\ UNCHANGED <<bodfile, log>>

=============================================================================
