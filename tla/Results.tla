------------------------------ MODULE Results ------------------------------
(***************************************************************************)
(* A run and, after its end, the process that reads its output: a serial   *)
(* program in READ mode (sol.c), which opens the files of all ranks        *)
(* (PBF_Read), goes back and forth between their frames and keeps one      *)
(* domain with the bodies of the frame it is at (dom_read_state of dio.c). *)
(*                                                                         *)
(* The list of bodies is kept as in the code: dom->bod, and the members    *)
(* next and prev of each body, 0 for NULL.  A walk over a list that has    *)
(* become a ring never ends; the program hangs.                            *)
(***************************************************************************)
EXTENDS Output

CONSTANTS Skips,       \* steps of SOLFEC_Forward, SOLFEC_Backward and histories
          Movers,      \* bound: bodies that load balancing may move
          Parts,       \* in how many parts a body may split
          StaleLinks   \* whether to go on where the list of bodies gets wrong

ASSUME ResultsAssumption ==
  /\ Skips \subseteq Nat \ {0}
  /\ Movers \subseteq Ids
  /\ Parts \subseteq Nat \ {0}
  /\ StaleLinks \in BOOLEAN

VARIABLE view   \* the reading process

allvars == <<vars, view>>

(* The input script of the reading process creates the bodies it finds in  *)
(* the input file again.                                                   *)
InitView ==
  [status |-> "none",              \* then "open" or "refused"
   cur |-> [r \in Ranks |-> 0],    \* the frame every file is at
   known |-> FALSE,                \* iover is positive
   failed |-> FALSE,               \* an assertion has failed
   hung |-> FALSE,                 \* a walk over the list does not end
   stale |-> FALSE,                \* a body was unlinked that prev or head
                                   \* do not lead to
   time |-> 0,
   all |-> [b \in 1 .. InitBodies |-> <<0, b>>],
   allread |-> FALSE,
   idb |-> 1 .. InitBodies,
   nbod |-> InitBodies,
   absent |-> {},
   bod |-> InitBodies,
   next |-> [b \in Ids |-> IF b <= InitBodies THEN b - 1 ELSE 0],
   prev |-> [b \in Ids |-> IF b < InitBodies THEN b + 1 ELSE 0],
   state |-> [b \in Ids |-> 0],
   shown |-> [r \in Ranks |-> 0]]  \* the frames of the last read_state
                                   \* (no part of the program)

-----------------------------------------------------------------------------
(* The list of bodies.                                                     *)

(* The first MaxId + 1 bodies that a walk from dom->bod meets.             *)
Walk(v) ==
  LET at[k \in 0 .. MaxId] ==
        IF k = 0 THEN v.bod
        ELSE LET b == at[k - 1] IN IF b = 0 THEN 0 ELSE v.next[b]
  IN  at

Listed(v) == Range(Walk(v)) \ {0}
IsRing(v) == Walk(v)[MaxId] # 0

Insert(v, b) ==
  [v EXCEPT !.idb = @ \cup {b},
            !.next[b] = v.bod,
            !.prev = IF v.bod # 0 THEN [@ EXCEPT ![v.bod] = b] ELSE @,
            !.bod = b,
            !.nbod = @ + 1]

(* "remove absent bodies": for one of them.                                *)
Unlink(v, b) ==
  LET n == v.next[b]
      w == IF n # 0 THEN [v EXCEPT !.prev[n] = v.prev[b]] ELSE v
      p == w.prev[b]
      linked == IF p = 0 THEN v.bod = b ELSE v.next[p] = b
      u == IF p # 0 THEN [w EXCEPT !.next[p] = n] ELSE [w EXCEPT !.bod = n]
  IN  [u EXCEPT !.idb = @ \ {b}, !.nbod = @ - 1, !.stale = @ \/ ~linked]

(* The loop over the list, which takes the next body before it unlinks.    *)
RemoveAbsent(v) ==
  LET step(w, b) == IF b \in w.absent THEN Unlink(w, b) ELSE w
      loop[k \in 0 .. (MaxId + 1)] ==
        IF k = 0 THEN [v |-> v, at |-> v.bod]
        ELSE LET l == loop[k - 1]
             IN  IF l.at = 0 THEN l
                 ELSE [v |-> step(l.v, l.at), at |-> l.v.next[l.at]]
      last == loop[MaxId + 1]
  IN  IF last.at = 0 THEN last.v ELSE [last.v EXCEPT !.hung = TRUE]

-----------------------------------------------------------------------------
(* Reading the frame that the files are at.                                *)

(* The ids and states in the record of the bodies of one file.             *)
Bodies(f, n) ==
  LET pos == LabelPos(f, n, "BODS")
      data == FrameData(f, n)
  IN  [i \in 1 .. data[pos + 1] |-> <<data[pos + 2 * i], data[pos + 2 * i + 1]>>]

Recorded(cur) ==
  FlattenSeq([i \in 1 .. NP |->
    IF HasLabel(file[i - 1], cur[i - 1], "DOM")
    THEN Bodies(file[i - 1], cur[i - 1]) ELSE <<>>])

(* read_new_bodies: the .bod files in the order of ranks; a body whose id  *)
(* is known already is dropped.                                            *)
read_new_bodies(all) ==
  LET first(b) == Min({r \in Ranks : b \in DOMAIN bodfile[r]})
  IN  [b \in DOMAIN all \cup UNION {DOMAIN bodfile[r] : r \in Ranks} |->
         IF b \in DOMAIN all THEN all[b] ELSE bodfile[first(b)][b]]

ReadBody(v, x) ==
  LET b == x[1]
      w == IF b \in v.idb THEN v
           ELSE IF b \in DOMAIN v.all THEN Insert(v, b)
           ELSE [v EXCEPT !.failed = TRUE]
  IN  [w EXCEPT !.state[b] = x[2], !.absent = @ \ {b}]

ReadBodies(v, list) ==
  LET read[k \in 0 .. Len(list)] ==
        IF k = 0 THEN v ELSE ReadBody(read[k - 1], list[k])
  IN  read[Len(list)]

(* Mutant: bodies are not marked as absent before the frame is read.       *)
dom_read_stateUnmarked(v) ==
  LET w == [v EXCEPT !.all = IF v.allread THEN @ ELSE read_new_bodies(@),
                     !.allread = TRUE]
  IN  RemoveAbsent(ReadBodies(w, Recorded(v.cur)))

dom_read_state(v) ==
  LET w == [v EXCEPT !.all = IF v.allread THEN @ ELSE read_new_bodies(@),
                     !.allread = TRUE,
                     !.absent = @ \cup Listed(v),
                     !.hung = @ \/ IsRing(v)]
  IN  RemoveAbsent(ReadBodies(w, Recorded(v.cur)))

(* read_state: time, "IOVER" once, domain, and the timers, which some file *)
(* must have.                                                              *)
read_state(v) ==
  IF v.failed THEN v ELSE
  LET iover == v.known \/ HasLabel(file[0], v.cur[0], "IOVER")
      timers == \E r \in Ranks : HasLabel(file[r], v.cur[r], "TIMERS")
      w == dom_read_state([v EXCEPT !.time = TimeOf(file[0], v.cur[0]),
                                    !.known = TRUE,
                                    !.failed = @ \/ ~iover])
  IN  [w EXCEPT !.failed = @ \/ ~timers, !.shown = v.cur]

(* "read initial state if needed": every operation begins with it.         *)
init(v) == IF v.known THEN v ELSE read_state(v)

(* initialise_frame on the files of all ranks; where data are missing, an  *)
(* error is thrown.                                                        *)
MoveFiles(v, cur) ==
  IF v.failed THEN v
  ELSE [v EXCEPT !.cur = cur,
                 !.failed = \E r \in Ranks : ~Complete(file[r], cur[r])]

SeekFiles(v, t) == MoveFiles(v, [r \in Ranks |-> PBF_Seek(file[r], t)])

ForwardFiles(v, n) ==
  MoveFiles(v, [r \in Ranks |-> PBF_Forward(file[r], v.cur[r], n)])

BackwardFiles(v, n) ==
  MoveFiles(v, [r \in Ranks |-> PBF_Backward(file[r], v.cur[r], n)])

SeekTo(v, t) == read_state(SeekFiles(init(v), t))

(* The first call reads the initial frame and stays there.                 *)
Forward(v, n) == IF v.known THEN read_state(ForwardFiles(v, n)) ELSE init(v)

Backward(v, n) == IF v.known THEN read_state(BackwardFiles(v, n)) ELSE init(v)

(* Looks at the time of the next frame and goes back.  At the last frame   *)
(* the files stay where they are, and still go back.                       *)
TimeSkip(v) == BackwardFiles(ForwardFiles(init(v), 1), 1)

-----------------------------------------------------------------------------
(* Histories.                                                              *)

FirstTime == TimeOf(file[0], 0)
LastTime == TimeOf(file[0], Size(file[0]) - 1)
HistoryTimes == {t \in 0 .. MaxTime : FirstTime <= t /\ t <= LastTime}

(* The loop of SOLFEC_History: a point is taken, then the files go forward *)
(* until t1 is reached.  points counts what is stored.                     *)
HistoryLoop(v, t1, skip) ==
  LET loop[k \in 0 .. (Size(file[0]) + 1)] ==
        IF k = 0 THEN [v |-> v, points |-> 0]
        ELSE LET l == loop[k - 1]
             IN  IF k > 1 /\ l.v.time >= t1 THEN l
                 ELSE [v |-> Forward(l.v, skip), points |-> k]
  IN  loop[Size(file[0]) + 1]

(* What the arrays of a history have room for.                             *)
HistorySize(t0, t1, skip) == PBF_Span(file[0], t0, t1) \div skip

(* Mutant: the initial frame is not restored.                              *)
HistoryStays(v, t0, t1, skip) == HistoryLoop(SeekTo(init(v), t0), t1, skip).v

History(v, t0, t1, skip) ==
  SeekTo(HistoryLoop(SeekTo(init(v), t0), t1, skip).v, init(v).time)

-----------------------------------------------------------------------------
(* The operations of the reading process.                                  *)

Reading == view.status = "open" /\ ~view.failed /\ ~view.hung

Becomes(v) ==
  /\ StaleLinks \/ ~v.stale
  /\ view' = v
  /\ UNCHANGED vars

(* PBF_Read reads the index and the first frame of every file.             *)
Readable(f) == Intact(f) /\ Complete(f, 0)

Open ==
  /\ pc \in Ended
  /\ view.status = "none"
  /\ view' = [view EXCEPT !.status = IF \A r \in Ranks : Readable(file[r])
                                     THEN "open" ELSE "refused"]
  /\ UNCHANGED vars

SOLFEC_Seek_To(t) == Reading /\ Becomes(SeekTo(view, t))

SOLFEC_Forward(n) == Reading /\ Becomes(Forward(view, n))

SOLFEC_Backward(n) == Reading /\ Becomes(Backward(view, n))

SOLFEC_Time_Skip == Reading /\ Becomes(TimeSkip(view))

SOLFEC_History(t0, t1, skip) ==
  /\ Reading
  /\ t0 \in HistoryTimes /\ t1 \in HistoryTimes /\ t0 <= t1
  /\ Becomes(History(view, t0, t1, skip))

(* A process that has stopped stays so.                                    *)
Stopped ==
  /\ view.status = "refused" \/ view.failed \/ view.hung
  /\ UNCHANGED allvars

-----------------------------------------------------------------------------
ResultsInit == Init /\ view = InitView

Write ==
  /\ \/ \E interval \in [Ranks -> Intervals] : SOLFEC_Output(interval)
     \/ \E S \in SUBSET Ranks, interval \in [Ranks -> Intervals] :
          SOLFEC_Set_Callback(S, interval)
     \/ \E duration \in 1 .. MaxTime : Run(duration)
     \/ \E b \in Movers \cup {0}, to \in Ranks, gone, cracked \in SUBSET Parents, parts \in Parts :
          /\ gone \cap cracked = {}
          /\ Step(b, to, gone, cracked, parts)
     \/ Output
     \/ \E S \in SUBSET Parents, create, go \in BOOLEAN : Callback(S, create, go)
     \/ RecordLast
     \/ SOLFEC_Destroy
     \/ \E r \in Ranks : Close(r)
     \/ \E S \in SUBSET Ranks \ {{}} :
          \E lost \in [Ranks \ S -> Losses] : SOLFEC_Abort(S, lost)
     \/ \E lost \in [Ranks -> Losses] : Crash(lost)
  /\ UNCHANGED view

Read ==
  \/ Open
  \/ \E t \in 0 .. MaxTime : SOLFEC_Seek_To(t)
  \/ \E n \in Skips : SOLFEC_Forward(n)
  \/ \E n \in Skips : SOLFEC_Backward(n)
  \/ SOLFEC_Time_Skip
  \/ \E t0, t1 \in 0 .. MaxTime : SOLFEC_History(t0, t1, 1)
  \/ Stopped

Next == Write \/ Read

Spec == ResultsInit /\ [][Next]_allvars

-----------------------------------------------------------------------------
(* Properties.                                                             *)

FileType ==
  [dat : Seq(Nat), mem : Seq(Nat), time : 0 .. MaxTime,
   lab : Seq({"IOVER", "DOM", "BODS", "TIMERS"}),
   stage : {"writing", "final", "idx", "lab", "closed", "dead"},
   idx : Seq([time : 0 .. MaxTime, doff : Nat, end : {"open", "labels", "inf"},
              labels : Seq(Nat \X Nat)])]

(* Type correctness of the writing and of the reading process.             *)
TypeOK ==
  /\ pc \in Running \cup {"exit", "abort"} \cup Ended
  /\ time \in 0 .. MaxTime /\ end \in 0 .. MaxTime
  /\ \A r \in Ranks :
       /\ dom[r].bid \in 1 .. (MaxId + 1)
       /\ DOMAIN dom[r].all \cup dom[r].sparebid \subseteq 1 .. (dom[r].bid - 1)
       /\ IsInjective(dom[r].bod)
       /\ Range(dom[r].bod) \cup dom[r].newb \subseteq DOMAIN dom[r].all
       /\ file[r] \in FileType
       /\ file[r].mem # <<>> => file[r].stage = "writing"
       /\ DOMAIN bodfile[r] \subseteq (InitBodies + 1) .. MaxId
  /\ view.cur \in [Ranks -> Nat]
  /\ view.idb \subseteq DOMAIN view.all
  /\ DOMAIN view.all \subseteq Ids /\ view.absent \subseteq Ids
  /\ view.bod \in 0 .. MaxId
  /\ view.next \in [Ids -> 0 .. MaxId] /\ view.prev \in [Ids -> 0 .. MaxId]
  /\ view.state \in [Ids -> 0 .. MaxTime]

(* All ranks give a new body the same id, and no body has two parents: the *)
(* ids come from counters that every rank keeps by itself, for pending     *)
(* bodies of several ranks and for bodies that callbacks create, while     *)
(* DELETE removes a body on the rank of its parent only and manage_bodies  *)
(* removes it on the others a step later.                                  *)
IdsAgree ==
  \A r, q \in Ranks :
    /\ dom[r].bid = dom[q].bid
    /\ \A b \in DOMAIN dom[r].all :
         \/ b \in DOMAIN dom[q].all /\ dom[r].all[b] = dom[q].all[b]
         \/ b \in dom[q].sparebid
    /\ r # q => Range(dom[r].bod) \cap Range(dom[q].bod) = {}

(* The times of the frames; the marker that closes the index has none.     *)
FrameTimes(f) ==
  [n \in {m \in DOMAIN f.idx : f.idx[m].end # "inf"} |-> f.idx[n].time]

Times(r) == FrameTimes(file[r])

(* The ranks stay in step, although each decides by its own output_time    *)
(* and callback_time: the files of all ranks have frames of the same       *)
(* times, as a reader puts the n-th frames of all of them together, and a  *)
(* callback, with the collective call after it, is due on all or on none.  *)
(* A rank whose process has died may be behind.                            *)
RanksInStep ==
  /\ \A r, q \in Ranks :
       file[r].stage # "dead" /\ file[q].stage # "dead" => Times(r) = Times(q)
  /\ pc = "callback" => DueCallback \in {{}, Ranks}

(* Every RUN leaves a frame of the state it has reached, "if out of sync"  *)
(* with the output interval, and no state is recorded twice unless the     *)
(* program is aborted.                                                     *)
RecordedOnce ==
  \A r \in Ranks :
    /\ pc = "script" /\ end > 0 => Times(r) # <<>> /\ Last(Times(r)) = time
    /\ pc \notin {"abort", "aborted", "crashed"} =>
         \A i, j \in DOMAIN Times(r) : i < j => Times(r)[i] < Times(r)[j]

(* Output is only accepted if PBF_Close has got as far as its index on     *)
(* every rank (finalize_frames): the index has all frames that the rank    *)
(* has recorded and nothing is left in memory, however much of the streams *)
(* is on disk when a process dies.  All data are there too, unless it dies *)
(* in PBF_Close, which flushes the index before the data.                  *)
OnlyClosedOpens ==
  view.status = "open" =>
    \A r \in Ranks :
      /\ file[r].mem = <<>>
      /\ Size(file[r]) = Len(log[r])
      /\ pc # "crashed" => \A n \in 0 .. (Size(file[r]) - 1) : Complete(file[r], n)

(* No assertion of the reading process fails: all bodies of a frame are    *)
(* known, IOVER is read before anything else and TIMERS is there.  Only a  *)
(* frame whose data a crash has taken cannot be read, and the reader       *)
(* notices it.                                                             *)
ReadsSucceed ==
  view.failed =>
    pc = "crashed" /\ \E r \in Ranks : ~Complete(file[r], view.cur[r])

(* The domain of the reading process has just the bodies that the run had  *)
(* when it wrote the frame: the same ids for the same bodies, their states *)
(* of that time, and the time itself, whatever way led to the frame, up to *)
(* the first body that is unlinked through a stale link (StaleLinks).      *)
ShownIsFrame ==
  Reading /\ view.known =>
    LET recorded(r) == log[r][view.shown[r] + 1]
    IN  /\ view.idb = UNION {DOMAIN recorded(r).bod : r \in Ranks}
        /\ view.nbod = Cardinality(view.idb)
        /\ \A r \in Ranks :
             /\ view.time = recorded(r).time
             /\ \A b \in DOMAIN recorded(r).bod :
                  /\ view.all[b] = recorded(r).bod[b]
                  /\ view.state[b] = recorded(r).time

(* A history that is asked for has room for all points that are stored     *)
(* ("safeguard"), and every point that is returned has been stored, unless *)
(* it meets a frame whose data are lost.                                   *)
HistoryFits ==
  view.status = "open" /\ ~view.known =>
    \A t0, t1 \in HistoryTimes, skip \in Skips :
      t0 <= t1 =>
        LET loop == HistoryLoop(SeekTo(view, t0), t1, skip)
            size == HistorySize(t0, t1, skip)
        IN  ~loop.v.failed => size <= loop.points /\ loop.points <= size + 4

(* Queries do not move the reading process.  After a history, unless it    *)
(* meets a frame whose data are lost, the files of all ranks are at the    *)
(* time they were at; that is the same frame after a normal end of the     *)
(* run, but an aborted run may have recorded its last time twice, and the  *)
(* history goes back to a time.  After SOLFEC_Time_Skip they are at the    *)
(* same frame, except at the last one, where the files go one frame back   *)
(* behind the domain.                                                      *)
QueriesKeepPlace ==
  Reading /\ view.known /\ view.cur = view.shown =>
    /\ \A t0, t1 \in HistoryTimes, skip \in Skips :
         t0 <= t1 =>
           LET v == History(view, t0, t1, skip)
           IN  ~v.failed =>
                 /\ \A r \in Ranks :
                      TimeOf(file[r], v.cur[r]) = TimeOf(file[r], view.cur[r])
                 /\ pc = "closed" => v.cur = view.cur
    /\ \A r \in Ranks :
         view.cur[r] < Size(file[r]) - 1 /\ ~TimeSkip(view).failed =>
           TimeSkip(view).cur[r] = view.cur[r]

(* The comment of dom_read_state says "remove absent bodies": the list of  *)
(* bodies is that of the frame.                                            *)
ListIsFrame ==
  view.status = "open" /\ ~view.failed =>
    Listed(view) = view.idb /\ ~IsRing(view)
=============================================================================
