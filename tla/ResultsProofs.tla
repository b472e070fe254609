--------------------------- MODULE ResultsProofs ---------------------------
(***************************************************************************)
(* Proofs about runs and their output (modules Frames, Output and          *)
(* Results), for any number of ranks and bodies, any script and any moment *)
(* of a crash.                                                             *)
(*                                                                         *)
(* 1. A process that dies before finalize_frames leaves files that a       *)
(* reader refuses, however much of them is on disk: the marker that closes *)
(* an index is written last and once, and a file with this marker has no   *)
(* data left in memory.                                                    *)
(*                                                                         *)
(* 2. The files of all ranks have frames of the same times, a callback is  *)
(* due on all ranks or on none, and every RUN leaves one frame of the      *)
(* state it has reached.  SOLFEC_Run makes the output and callback times   *)
(* uniform once; from then on they change on all ranks together, and where *)
(* the last frame stands against the time of the run follows from the      *)
(* place in the loop and lastwrite.                                        *)
(*                                                                         *)
(* 3. The ranks give the same ids to the same bodies, and no body has two  *)
(* parents.  Where two ranks know different bodies, the removal of one is  *)
(* on its way to manage_bodies.                                            *)
(*                                                                         *)
(* What the frames contain is of no concern here.  Nothing is assumed of   *)
(* the values in them, which is why the fields of a file are given by      *)
(* their names and not by their types.                                     *)
(***************************************************************************)
EXTENDS Results, TLAPS, WellFoundedInduction

HasFields(f) ==
  f = [dat |-> f.dat, mem |-> f.mem, idx |-> f.idx, lab |-> f.lab, time |-> f.time,
       stage |-> f.stage]

IsMarker(m) ==
  m = [time |-> m.time, doff |-> m.doff, labels |-> m.labels, end |-> m.end]

IsList(s) == Len(s) \in Nat /\ s = [n \in 1 .. Len(s) |-> s[n]]

IsFile(f) ==
  /\ HasFields(f)
  /\ IsList(f.idx)
  /\ \A n \in 1 .. Len(f.idx) : IsMarker(f.idx[n])

(* A file that frames are written to.                                      *)
IsOpen(f) ==
  /\ IsFile(f)
  /\ f.stage = "writing"
  /\ \A n \in 1 .. Len(f.idx) : f.idx[n].end # "inf"
  /\ Len(f.idx) = 0 => f.mem = <<>>

(* A file after finalize_frames: only the stage changes any more.          *)
Finals == {"final", "idx", "lab", "closed"}

IsFinal(f) ==
  /\ IsFile(f)
  /\ f.stage \in Finals
  /\ Len(f.idx) \in Nat \ {0}
  /\ \A n \in 1 .. Len(f.idx) : f.idx[n].end = "inf" <=> n = Len(f.idx)
  /\ f.mem = <<>>

(* What a process that has died has left.                                  *)
IsDead(f) == f.stage = "dead" /\ f.mem = <<>>

-----------------------------------------------------------------------------
(* Lists, whatever their elements are.                                     *)

LEMMA SeqIsList ==
  ASSUME NEW S, NEW s \in Seq(S)
  PROVE  IsList(s)
<1>1. Len(s) \in Nat /\ s \in [1 .. Len(s) -> S]
  OBVIOUS
<1>2. s = [n \in 1 .. Len(s) |-> s[n]]
  BY <1>1
<1> QED
  BY <1>1, <1>2 DEF IsList

LEMMA AppendList ==
  ASSUME NEW s, IsList(s), NEW x
  PROVE  /\ IsList(Append(s, x))
         /\ Len(Append(s, x)) = Len(s) + 1
         /\ \A n \in 1 .. Len(s) : Append(s, x)[n] = s[n]
         /\ Append(s, x)[Len(s) + 1] = x
<1> DEFINE S == {s[n] : n \in 1 .. Len(s)} \cup {x}
<1>1. s \in [1 .. Len(s) -> S]
  BY DEF IsList
<1>2. s \in Seq(S) /\ x \in S
  BY <1>1 DEF IsList
<1> HIDE DEF S
<1>3. Append(s, x) \in Seq(S)
  BY <1>2
<1>4. Len(Append(s, x)) = Len(s) + 1
  BY <1>2
<1>5. IsList(Append(s, x))
  BY <1>3, SeqIsList
<1>6. /\ \A n \in 1 .. Len(s) : Append(s, x)[n] = s[n]
      /\ Append(s, x)[Len(s) + 1] = x
  BY <1>2
<1> QED
  BY <1>4, <1>5, <1>6

LEMMA SubSeqList ==
  ASSUME NEW s, IsList(s), NEW k \in Int, k <= Len(s)
  PROVE  /\ k <= 0 => SubSeq(s, 1, k) = <<>>
         /\ k > 0 => Len(SubSeq(s, 1, k)) = k /\ SubSeq(s, 1, k)[k] = s[k]
<1> DEFINE S == {s[n] : n \in 1 .. Len(s)}
<1>1. s \in [1 .. Len(s) -> S]
  BY DEF IsList
<1>2. s \in Seq(S) /\ Len(s) \in Nat
  BY <1>1 DEF IsList
<1> HIDE DEF S
<1> QED
  BY <1>2

LEMMA ExceptList ==
  ASSUME NEW s, IsList(s), NEW x
  PROVE  /\ IsList([s EXCEPT ![Len(s)] = x])
         /\ Len([s EXCEPT ![Len(s)] = x]) = Len(s)
         /\ \A n \in 1 .. Len(s) :
              [s EXCEPT ![Len(s)] = x][n] = IF n = Len(s) THEN x ELSE s[n]
<1> DEFINE S == {s[n] : n \in 1 .. Len(s)} \cup {x}
           t == [s EXCEPT ![Len(s)] = x]
<1>1. s \in [1 .. Len(s) -> S] /\ Len(s) \in Nat
  BY DEF IsList
<1>2. t \in [1 .. Len(s) -> S]
  BY <1>1
<1>3. t \in Seq(S) /\ Len(t) = Len(s)
  BY <1>1, <1>2
<1>4. IsList(t)
  BY <1>2, <1>3, <1>1 DEF IsList
<1> QED
  BY <1>1, <1>3, <1>4

-----------------------------------------------------------------------------
(* Writing to an open file.                                                *)

(* A frame that goes to disk leaves nothing in memory.                     *)
LEMMA WriteFrameOpen ==
  ASSUME NEW f, IsOpen(f)
  PROVE  /\ IsOpen(write_frame(f))
         /\ write_frame(f).mem = <<>>
<1>1. CASE f.idx = <<>>
  <2>1. Len(f.idx) = 0
    BY <1>1
  <2> QED
    BY <1>1, <2>1 DEF write_frame, IsOpen
<1>2. CASE f.idx # <<>>
  <2> DEFINE m == [f.idx[Len(f.idx)] EXCEPT !.end = "labels"]
             idx == [f.idx EXCEPT ![Len(f.idx)] = m]
             g == write_frame(f)
  <2>1. g = [f EXCEPT !.idx = idx, !.dat = f.dat \o f.mem, !.mem = <<>>]
    BY <1>2 DEF write_frame
  <2>2. Len(f.idx) \in Nat \ {0}
    BY <1>2 DEF IsOpen, IsFile, IsList
  <2>3. IsMarker(m) /\ m.end = "labels"
    <3>1. IsMarker(f.idx[Len(f.idx)])
      BY <2>2 DEF IsOpen, IsFile
    <3> QED
      BY <3>1 DEF IsMarker
  <2>4. g.idx = idx /\ g.mem = <<>> /\ HasFields(g) /\ g.stage = "writing"
    BY <2>1 DEF IsOpen, IsFile, HasFields
  <2>5. /\ IsList(idx) /\ Len(idx) = Len(f.idx)
        /\ \A n \in 1 .. Len(f.idx) : idx[n] = IF n = Len(f.idx) THEN m ELSE f.idx[n]
    BY ExceptList DEF IsOpen, IsFile
  <2> HIDE DEF m, idx, g
  <2>6. IsFile(g)
    BY <2>3, <2>4, <2>5 DEF IsOpen, IsFile
  <2>7. IsOpen(g)
    BY <2>2, <2>3, <2>4, <2>5, <2>6 DEF IsOpen
  <2> QED
    BY <2>4, <2>7 DEF g
<1> QED
  BY <1>1, <1>2

(* A new marker m at the end of the index of a file g that has no data in  *)
(* memory.                                                                 *)
Extends(h, g, m) ==
  /\ IsFile(h)
  /\ Len(h.idx) = Len(g.idx) + 1
  /\ h.mem = <<>>
  /\ h.stage = g.stage
  /\ \A n \in 1 .. Len(g.idx) : h.idx[n].end # "inf"
  /\ h.idx[Len(h.idx)] = m

LEMMA NewMarker ==
  ASSUME NEW g, IsOpen(g), g.mem = <<>>, NEW m, IsMarker(m),
         NEW h, h = [g EXCEPT !.idx = Append(g.idx, m)]
  PROVE  Extends(h, g, m)
<1>1. h.idx = Append(g.idx, m) /\ h.mem = <<>> /\ HasFields(h) /\ h.stage = g.stage
  BY DEF IsOpen, IsFile, HasFields
<1>2. /\ IsList(Append(g.idx, m)) /\ Len(Append(g.idx, m)) = Len(g.idx) + 1
      /\ \A n \in 1 .. Len(g.idx) : Append(g.idx, m)[n] = g.idx[n]
      /\ Append(g.idx, m)[Len(g.idx) + 1] = m
  BY AppendList DEF IsOpen, IsFile
<1>3. Len(g.idx) \in Nat
  BY DEF IsOpen, IsFile, IsList
<1>4. IsFile(h)
  BY <1>1, <1>2, <1>3 DEF IsOpen, IsFile
<1>5. /\ \A n \in 1 .. Len(g.idx) : h.idx[n].end # "inf"
      /\ h.idx[Len(h.idx)] = m
  BY <1>1, <1>2 DEF IsOpen
<1> QED
  BY <1>1, <1>2, <1>4, <1>5 DEF Extends

(* What Marker makes.                                                      *)
LEMMA MarkerMade ==
  ASSUME NEW t, NEW doff, NEW kind
  PROVE  IsMarker(Marker(t, doff, kind)) /\ Marker(t, doff, kind).end = kind
BY DEF IsMarker, Marker

(* A file that frames are written to and that has a frame.                 *)
HasFrame(f) == IsOpen(f) /\ Len(f.idx) # 0

LEMMA TimeOpen ==
  ASSUME NEW f, IsOpen(f), NEW t
  PROVE  HasFrame(PBF_Time(f, t))
<1> DEFINE g == write_frame(f)
           m == Marker(t, Len(g.dat), "open")
           h == [g EXCEPT !.idx = Append(@, m)]
<1>1. IsOpen(g) /\ g.mem = <<>>
  BY WriteFrameOpen
<1>2. HasFields(g) /\ Len(g.idx) \in Nat
  BY <1>1 DEF IsOpen, IsFile, IsList
<1>3. IsMarker(m) /\ m.end = "open"
  BY MarkerMade
<1>4. PBF_Time(f, t) = [h EXCEPT !.time = t]
  BY <1>2 DEF PBF_Time, HasFields
<1> HIDE DEF g, m
<1>8. h = [g EXCEPT !.idx = Append(g.idx, m)]
  OBVIOUS
<1> HIDE DEF h
<1>5. Extends(h, g, m)
  BY <1>8, <1>1, <1>3, NewMarker
<1>6. /\ HasFields([h EXCEPT !.time = t])
      /\ [h EXCEPT !.time = t].idx = h.idx
      /\ [h EXCEPT !.time = t].mem = h.mem
      /\ [h EXCEPT !.time = t].stage = "writing"
  BY <1>1, <1>5 DEF Extends, IsOpen, IsFile, HasFields
<1>7. IsFile(PBF_Time(f, t))
  BY <1>4, <1>5, <1>6 DEF Extends, IsFile
<1> QED
  BY <1>2, <1>3, <1>4, <1>5, <1>6, <1>7 DEF Extends, HasFrame, IsOpen

LEMMA LabelOpen ==
  ASSUME NEW f, HasFrame(f), NEW label
  PROVE  HasFrame(PBF_Label(f, label))
<1> DEFINE h == PBF_Label(f, label)
<1>1. PICK lab, labels :
        h = [f EXCEPT !.lab = lab, !.idx[Len(f.idx)].labels = labels]
  BY DEF PBF_Label
<1> DEFINE m == [f.idx[Len(f.idx)] EXCEPT !.labels = labels]
           idx == [f.idx EXCEPT ![Len(f.idx)] = m]
<1>2. h.idx = idx /\ h.mem = f.mem /\ HasFields(h) /\ h.stage = "writing"
  BY <1>1 DEF HasFrame, IsOpen, IsFile, HasFields
<1>3. Len(f.idx) \in Nat \ {0}
  BY DEF HasFrame, IsOpen, IsFile, IsList
<1>4. IsMarker(m) /\ m.end # "inf"
  <2>1. IsMarker(f.idx[Len(f.idx)]) /\ f.idx[Len(f.idx)].end # "inf"
    BY <1>3 DEF HasFrame, IsOpen, IsFile
  <2> QED
    BY <2>1 DEF IsMarker
<1>5. /\ IsList(idx) /\ Len(idx) = Len(f.idx)
      /\ \A n \in 1 .. Len(f.idx) : idx[n] = IF n = Len(f.idx) THEN m ELSE f.idx[n]
  BY ExceptList DEF HasFrame, IsOpen, IsFile
<1> HIDE DEF m, idx, h
<1>6. IsFile(h)
  BY <1>2, <1>4, <1>5 DEF HasFrame, IsOpen, IsFile
<1>7. HasFrame(h)
  BY <1>2, <1>3, <1>4, <1>5, <1>6 DEF HasFrame, IsOpen
<1> QED
  BY <1>7 DEF h

LEMMA PutOpen ==
  ASSUME NEW f, HasFrame(f), NEW values
  PROVE  HasFrame(PBF_Put(f, values))
<1> DEFINE h == PBF_Put(f, values)
<1>1. h.idx = f.idx /\ HasFields(h) /\ h.stage = "writing"
  BY SMTT(20) DEF PBF_Put, HasFrame, IsOpen, IsFile, HasFields
<1> QED
  BY <1>1 DEF HasFrame, IsOpen, IsFile

(* write_state leaves a file open.                                         *)
LEMMA FrameOpen ==
  ASSUME NEW f, IsOpen(f), NEW s, NEW d
  PROVE  IsOpen(frame(f, s, d))
<1> DEFINE t == PBF_Time(f, time)
           v == IF s.written THEN t ELSE PBF_Put(PBF_Label(t, "IOVER"), <<1>>)
           w == dom_write_state(v, d.bod)
<1>1. HasFrame(t)
  BY TimeOpen
<1> HIDE DEF t
<1>2. HasFrame(v)
  BY <1>1, LabelOpen, PutOpen
<1> HIDE DEF v
<1>3. HasFrame(w)
  BY <1>2, LabelOpen, PutOpen DEF dom_write_state
<1> HIDE DEF w
<1>4. HasFrame(PBF_Put(PBF_Label(w, "TIMERS"), <<0>>))
  BY <1>3, LabelOpen, PutOpen
<1> QED
  BY <1>4 DEF frame, t, v, w, HasFrame

LEMMA FinalizeFinal ==
  ASSUME NEW f, IsOpen(f)
  PROVE  /\ IsFinal(finalize_frames(f))
         /\ finalize_frames(f).stage = "final"
         /\ finalize_frames(f).idx =
              Append(write_frame(f).idx,
                     Marker(write_frame(f).time, Len(write_frame(f).dat), "inf"))
<1> DEFINE g == write_frame(f)
           m == Marker(g.time, Len(g.dat), "inf")
           h == [g EXCEPT !.idx = Append(@, m)]
           c == finalize_frames(f)
<1>1. IsOpen(g) /\ g.mem = <<>>
  BY WriteFrameOpen
<1>2. Len(g.idx) \in Nat /\ HasFields(g)
  BY <1>1 DEF IsOpen, IsFile, IsList
<1>3. IsMarker(m) /\ m.end = "inf"
  BY MarkerMade
<1>4. c = [g EXCEPT !.idx = Append(@, m), !.stage = "final"]
  BY DEF finalize_frames
<1> HIDE DEF g, m, c
<1>5. h = [g EXCEPT !.idx = Append(g.idx, m)]
  OBVIOUS
<1>6. /\ c.idx = h.idx /\ c.mem = h.mem /\ c.stage = "final" /\ HasFields(c)
      /\ h.idx = Append(g.idx, m)
  BY <1>2, <1>4 DEF HasFields
<1> HIDE DEF h
<1>7. Extends(h, g, m)
  BY <1>1, <1>3, <1>5, NewMarker
<1>8. /\ Len(c.idx) = Len(g.idx) + 1
      /\ \A n \in 1 .. Len(c.idx) : c.idx[n].end = "inf" <=> n = Len(c.idx)
  BY <1>2, <1>3, <1>6, <1>7 DEF Extends
<1>9. IsFinal(c)
  BY <1>2, <1>6, <1>7, <1>8 DEF IsFinal, IsFile, Finals, Extends
<1> QED
  BY <1>6, <1>9 DEF c, g, m

(* The other steps of PBF_Close.                                           *)
LEMMA FlushedFinal ==
  ASSUME NEW f, IsFinal(f), ~Left(f)
  PROVE  /\ IsFinal(PBF_Close(f))
         /\ PBF_Close(f).idx = f.idx
<1> DEFINE h == PBF_Close(f)
<1>1. f.stage \in {"final", "idx", "lab"}
  BY DEF IsFinal, Left, Finals
<1>2. \E s \in Finals : h = [f EXCEPT !.stage = s]
  BY <1>1 DEF PBF_Close, Finals
<1> HIDE DEF h
<1>3. /\ h.idx = f.idx /\ h.mem = f.mem /\ h.stage \in Finals /\ HasFields(h)
  BY <1>2 DEF IsFinal, IsFile, HasFields
<1> QED
  BY <1>3 DEF h, IsFinal, IsFile

LEMMA CloseFinal ==
  ASSUME NEW f, IsOpen(f) \/ IsFinal(f), ~Left(f)
  PROVE  IsFinal(PBF_Close(f))
<1>1. CASE IsOpen(f)
  <2>1. PBF_Close(f) = finalize_frames(f)
    BY <1>1 DEF IsOpen, PBF_Close
  <2> QED
    BY <1>1, <2>1, FinalizeFinal
<1> QED
  BY <1>1, FlushedFinal

(* A file that was written to when its process died is refused.            *)
LEMMA TornRefused ==
  ASSUME NEW f, IsOpen(f), NEW lost \in Losses
  PROVE  ~Intact(Torn(f, lost))
<1> DEFINE k == Len(f.idx) - lost.idx
           h == Torn(f, lost)
<1>1. h.idx = SubSeq(f.idx, 1, k)
  BY DEF Torn, OnDisk, Left, IsOpen, IsFile, HasFields
<1>2. Len(f.idx) \in Nat /\ k \in Int /\ k <= Len(f.idx)
  <2>1. lost.idx \in Nat
    BY OutputAssumption
  <2>2. Len(f.idx) \in Nat
    BY DEF IsOpen, IsFile, IsList
  <2> QED
    BY <2>1, <2>2
<1>3. /\ k <= 0 => h.idx = <<>>
      /\ k > 0 => Len(h.idx) = k /\ h.idx[k] = f.idx[k]
  BY <1>1, <1>2, SubSeqList DEF IsOpen, IsFile
<1>4. CASE k <= 0
  BY <1>3, <1>4 DEF Intact
<1>5. CASE k > 0
  <2>1. f.idx[k].end # "inf"
    BY <1>2, <1>5 DEF IsOpen
  <2> QED
    BY <1>3, <1>5, <2>1 DEF Intact, Last
<1> QED
  BY <1>2, <1>4, <1>5

(* A process that dies keeps nothing in memory.                            *)
LEMMA TornLeft ==
  ASSUME NEW f, IsOpen(f) \/ IsFinal(f) \/ IsDead(f), NEW lost
  PROVE  /\ IsFinal(Torn(f, lost)) \/ IsDead(Torn(f, lost))
         /\ Left(Torn(f, lost))
         /\ Torn(f, lost).stage = "closed" => Torn(f, lost) = f
<1>1. CASE Left(f)
  BY <1>1 DEF Torn, Left, IsOpen
<1>2. CASE ~Left(f)
  <2>1. HasFields(f)
    BY <1>2 DEF IsOpen, IsFinal, IsDead, IsFile, Left
  <2>2. Torn(f, lost).stage = "dead" /\ Torn(f, lost).mem = <<>>
    BY <1>2, <2>1 DEF Torn, HasFields
  <2> QED
    BY <2>2 DEF IsDead, Left
<1> QED
  BY <1>1, <1>2

-----------------------------------------------------------------------------
(* The run and its reader.                                                 *)

AllOpen == \A r \in Ranks : IsOpen(file[r])

(* While the program runs the files of all ranks are written to.  When it  *)
(* has ended each is closed, or its process has died before that, which    *)
(* does not happen when the program ends as it should.                     *)
FilesInv ==
  /\ pc \in Running \cup {"exit", "abort"} \cup Ended
  /\ file = [r \in Ranks |-> file[r]]
  /\ pc \in Running => AllOpen
  /\ \A r \in Ranks : IsOpen(file[r]) \/ IsFinal(file[r]) \/ IsDead(file[r])
  /\ pc \in {"exit", "closed", "aborted"} => \A r \in Ranks : ~IsDead(file[r])
  /\ pc \in Ended => \A r \in Ranks : Left(file[r])

ReaderInv == view.status # "none" => pc \in Ended

Inv == FilesInv /\ ReaderInv

LEMMA NewFileOpen == IsOpen(NewFile)
<1>1. /\ NewFile.idx = <<>> /\ NewFile.mem = <<>> /\ HasFields(NewFile)
      /\ NewFile.stage = "writing"
  BY DEF NewFile, HasFields
<1>2. Len(NewFile.idx) = 0
  BY <1>1
<1>3. IsList(NewFile.idx)
  BY <1>1, <1>2 DEF IsList
<1> QED
  BY <1>1, <1>2, <1>3 DEF IsOpen, IsFile

LEMMA InitInv == ResultsInit => Inv
<1> SUFFICES ASSUME ResultsInit PROVE Inv
  OBVIOUS
<1>1. pc = "script" /\ file = [r \in Ranks |-> NewFile] /\ view.status = "none"
  BY DEF ResultsInit, Init, InitView
<1>2. AllOpen
  BY <1>1, NewFileOpen DEF AllOpen
<1>3. FilesInv
  BY <1>1, <1>2 DEF FilesInv, AllOpen, Running, Ended
<1> QED
  BY <1>1, <1>3 DEF Inv, ReaderInv

LEMMA RecordingOpen ==
  ASSUME AllOpen, NEW W, NEW s, Recording(W, s)
  PROVE  AllOpen' /\ file' = [r \in Ranks |-> file'[r]]
<1>1. file' = [r \in Ranks |->
                IF r \in W THEN frame(file[r], s[r], dom[r]) ELSE file[r]]
  BY DEF Recording
<1>2. Ranks' = Ranks
  BY DEF Ranks
<1>3. ASSUME NEW r \in Ranks
      PROVE  IsOpen(file'[r])
  <2>1. IsOpen(file[r])
    BY DEF AllOpen
  <2>2. IsOpen(frame(file[r], s[r], dom[r]))
    BY <2>1, FrameOpen
  <2> QED
    BY <1>1, <2>1, <2>2
<1>4. AllOpen'
  BY <1>2, <1>3 DEF AllOpen
<1> QED
  BY <1>1, <1>4

LEMMA OpenNotDead ==
  ASSUME NEW f, IsOpen(f)
  PROVE  ~IsDead(f) /\ ~Left(f)
BY DEF IsOpen, IsDead, Left

(* A step of the loop or of the script, which may write a frame.           *)
LEMMA RunningInv ==
  ASSUME Inv, pc \in Running, pc' \in Running, view' = view,
         file' = file \/ \E W, s : Recording(W, s)
  PROVE  Inv'
<1>1. AllOpen /\ file = [r \in Ranks |-> file[r]]
  BY DEF Inv, FilesInv
<1>2. AllOpen' /\ file' = [r \in Ranks |-> file'[r]]
  <2>1. CASE file' = file
    BY <1>1, <2>1 DEF AllOpen
  <2>2. CASE \E W, s : Recording(W, s)
    BY <1>1, <2>2, RecordingOpen
  <2> QED
    BY <2>1, <2>2
<1>3. FilesInv'
  BY <1>2 DEF FilesInv, AllOpen, Running, Ended
<1>4. view.status = "none"
  BY DEF Inv, ReaderInv, Running, Ended
<1> QED
  BY <1>3, <1>4 DEF Inv, ReaderInv

(* After SOLFEC_Destroy has written what is missing, all files are open.   *)
LEMMA DestroyInv ==
  ASSUME Inv, SOLFEC_Destroy, view' = view
  PROVE  Inv'
<1>1. AllOpen
  BY DEF Inv, FilesInv, SOLFEC_Destroy, Running
<1>2. PICK W, s : Recording(W, s)
  BY DEF SOLFEC_Destroy
<1>3. AllOpen' /\ file' = [r \in Ranks |-> file'[r]]
  BY <1>1, <1>2, RecordingOpen
<1>4. pc' = "exit" /\ view.status = "none"
  BY DEF SOLFEC_Destroy, Inv, ReaderInv, Ended
<1>5. ASSUME NEW r \in Ranks
      PROVE  IsOpen(file'[r]) /\ ~IsDead(file'[r])
  BY <1>3, OpenNotDead DEF AllOpen
<1>6. FilesInv'
  BY <1>3, <1>4, <1>5 DEF FilesInv, Running, Ended
<1> QED
  BY <1>4, <1>6 DEF Inv, ReaderInv

(* The files of one rank come one step closer to being closed, and the     *)
(* last of these steps ends the program.                                   *)
LEMMA CloseInv ==
  ASSUME Inv, NEW r \in Ranks, Close(r), view' = view
  PROVE  Inv'
<1> DEFINE left == \A q \in Ranks : Left(file'[q])
           dead == \E q \in Ranks : file'[q].stage = "dead"
<1>1. /\ pc \in {"exit", "abort"} /\ ~Left(file[r])
      /\ file' = [file EXCEPT ![r] = PBF_Close(@)]
      /\ ~left => pc' = pc
      /\ left /\ dead => pc' = "crashed"
      /\ left /\ ~dead => pc' = IF pc = "abort" THEN "aborted" ELSE "closed"
  BY DEF Close
<1>2. /\ file = [q \in Ranks |-> file[q]]
      /\ \A q \in Ranks : IsOpen(file[q]) \/ IsFinal(file[q]) \/ IsDead(file[q])
      /\ pc = "exit" => \A q \in Ranks : ~IsDead(file[q])
  BY DEF Inv, FilesInv
<1>3. /\ file' = [q \in Ranks |-> file'[q]]
      /\ file'[r] = PBF_Close(file[r])
      /\ \A q \in Ranks \ {r} : file'[q] = file[q]
  BY <1>1, <1>2
<1>4. IsFinal(file'[r]) /\ ~IsDead(file'[r])
  BY <1>1, <1>2, <1>3, CloseFinal DEF IsDead, Left, IsFinal, Finals
<1>5. \A q \in Ranks : IsOpen(file'[q]) \/ IsFinal(file'[q]) \/ IsDead(file'[q])
  BY <1>2, <1>3, <1>4
<1>6. pc = "exit" => \A q \in Ranks : ~IsDead(file'[q])
  BY <1>2, <1>3, <1>4
<1>7. ~dead => \A q \in Ranks : ~IsDead(file'[q])
  BY DEF IsDead
<1>8. pc' \in {"exit", "closed", "aborted"} => \A q \in Ranks : ~IsDead(file'[q])
  BY <1>1, <1>6, <1>7
<1>9. /\ pc' \in {"exit", "abort"} \cup Ended
      /\ pc' \in Ended => left
  BY <1>1 DEF Ended
<1> HIDE DEF left, dead
<1>10. view.status = "none"
  BY <1>1 DEF Inv, ReaderInv, Ended
<1>11. FilesInv'
  BY <1>3, <1>5, <1>8, <1>9 DEF FilesInv, Running, Ended, left, Ranks
<1> QED
  BY <1>10, <1>11 DEF Inv, ReaderInv

(* An abort ends some processes at once; the others still close their      *)
(* files.                                                                  *)
LEMMA AbortInv ==
  ASSUME Inv, NEW S, NEW lost, SOLFEC_Abort(S, lost), view' = view
  PROVE  Inv'
<1>1. /\ AllOpen /\ view.status = "none"
      /\ pc' = "abort"
      /\ file' = [r \in Ranks |->
                    IF r \in S THEN frame(file[r], sol[r], dom[r])
                    ELSE Torn(file[r], lost[r])]
  BY DEF Inv, FilesInv, ReaderInv, SOLFEC_Abort, Running, Ended
<1>2. ASSUME NEW r \in Ranks
      PROVE  IsOpen(file'[r]) \/ IsFinal(file'[r]) \/ IsDead(file'[r])
  <2>1. CASE r \in S
    BY <1>1, <2>1, FrameOpen DEF AllOpen
  <2>2. CASE r \notin S
    <3>1. IsOpen(file[r]) /\ file'[r] = Torn(file[r], lost[r])
      BY <1>1, <2>2 DEF AllOpen
    <3> QED
      BY <3>1, TornLeft
  <2> QED
    BY <2>1, <2>2
<1>3. FilesInv'
  BY <1>1, <1>2 DEF FilesInv, Running, Ended, Ranks
<1> QED
  BY <1>1, <1>3 DEF Inv, ReaderInv

LEMMA CrashInv ==
  ASSUME Inv, NEW lost, Crash(lost), view' = view
  PROVE  Inv'
<1>1. /\ pc \notin Ended /\ pc' = "crashed"
      /\ file' = [r \in Ranks |-> Torn(file[r], lost[r])]
  BY DEF Crash
<1>2. ASSUME NEW r \in Ranks
      PROVE  (IsFinal(file'[r]) \/ IsDead(file'[r])) /\ Left(file'[r])
  <2>1. IsOpen(file[r]) \/ IsFinal(file[r]) \/ IsDead(file[r])
    BY DEF Inv, FilesInv
  <2>2. file'[r] = Torn(file[r], lost[r])
    BY <1>1
  <2> QED
    BY <2>1, <2>2, TornLeft
<1>3. view.status = "none"
  BY <1>1 DEF Inv, ReaderInv
<1>4. FilesInv'
  BY <1>1, <1>2 DEF FilesInv, Running, Ended, Ranks
<1> QED
  BY <1>3, <1>4 DEF Inv, ReaderInv

(* PBF_Read looks at the files of all ranks once the run has ended; the    *)
(* reader leaves them alone.                                               *)
LEMMA ReadInv ==
  ASSUME Inv, Read
  PROVE  Inv'
<1>1. UNCHANGED vars
  BY DEF Read, Open, Stopped, allvars, SOLFEC_Seek_To, SOLFEC_Forward,
         SOLFEC_Backward, SOLFEC_Time_Skip, SOLFEC_History, Becomes
<1>2. view'.status # "none" => pc \in Ended
  <2>1. CASE pc \in Ended
    BY <2>1
  <2>2. CASE pc \notin Ended
    <3>1. view.status = "none" /\ ~Open
      BY <2>2 DEF Inv, ReaderInv, Open
    <3>2. view' = view
      BY <3>1 DEF Read, SOLFEC_Seek_To, SOLFEC_Forward, SOLFEC_Backward,
                  SOLFEC_Time_Skip, SOLFEC_History, Reading, Stopped, allvars
    <3> QED
      BY <3>1, <3>2
  <2> QED
    BY <2>1, <2>2
<1> QED
  BY <1>1, <1>2 DEF vars, Inv, FilesInv, ReaderInv, AllOpen, Ranks

-----------------------------------------------------------------------------
LEMMA WriteInv ==
  ASSUME Inv, Write
  PROVE  Inv'
<1>0. view' = view
  BY DEF Write
<1>1. ASSUME NEW interval \in [Ranks -> Intervals], SOLFEC_Output(interval)
      PROVE  Inv'
  BY <1>0, <1>1, RunningInv DEF SOLFEC_Output, Running
<1>2. ASSUME NEW S \in SUBSET Ranks, NEW interval \in [Ranks -> Intervals],
             SOLFEC_Set_Callback(S, interval)
      PROVE  Inv'
  BY <1>0, <1>2, RunningInv DEF SOLFEC_Set_Callback, Running
<1>3. ASSUME NEW duration \in 1 .. MaxTime, Run(duration)
      PROVE  Inv'
  BY <1>0, <1>3, RunningInv DEF Run, write_state, Running
<1>4. ASSUME NEW b, NEW to, NEW gone, NEW cracked, NEW parts,
             Step(b, to, gone, cracked, parts)
      PROVE  Inv'
  <2>1. pc = "loop" /\ pc' = "output" /\ file' = file
    BY <1>4 DEF Step
  <2> QED
    BY <1>0, <2>1, RunningInv DEF Running
<1>5. CASE Output
  BY <1>0, <1>5, RunningInv DEF Output, write_state, Running
<1>6. ASSUME NEW S, NEW create, NEW go, Callback(S, create, go)
      PROVE  Inv'
  <2>1. pc = "callback" /\ pc' \in {"loop", "last"} /\ file' = file
    BY <1>6 DEF Callback
  <2> QED
    BY <1>0, <2>1, RunningInv DEF Running
<1>7. CASE RecordLast
  BY <1>0, <1>7, RunningInv DEF RecordLast, write_state, Running
<1> QED
  BY <1>0, <1>1, <1>2, <1>3, <1>4, <1>5, <1>6, <1>7,
     DestroyInv, CloseInv, AbortInv, CrashInv DEF Write

LEMMA StepInv == Inv /\ [Next]_allvars => Inv'
<1> SUFFICES ASSUME Inv, [Next]_allvars PROVE Inv'
  OBVIOUS
<1>1. CASE UNCHANGED allvars
  BY <1>1 DEF allvars, vars, Inv, FilesInv, ReaderInv, AllOpen, Ranks
<1> QED
  BY <1>1, WriteInv, ReadInv DEF Next

(* When a process dies before finalize_frames, at any moment of any run,   *)
(* PBF_Read refuses its files, whatever has got to disk of their streams.  *)
THEOREM TornIsRefused ==
  Spec => [](\A r \in Ranks :
               file[r].stage = "writing" =>
                 \A lost \in Losses : ~Intact(Torn(file[r], lost)))
<1>1. ASSUME Inv, NEW r \in Ranks, file[r].stage = "writing", NEW lost \in Losses
      PROVE  ~Intact(Torn(file[r], lost))
  <2>1. IsOpen(file[r])
    BY <1>1 DEF Inv, FilesInv, IsFinal, IsDead, Finals
  <2> QED
    BY <2>1, TornRefused
<1>2. Inv => \A r \in Ranks :
               file[r].stage = "writing" =>
                 \A lost \in Losses : ~Intact(Torn(file[r], lost))
  BY <1>1
<1> QED
  BY InitInv, StepInv, <1>2, PTL DEF Spec

-----------------------------------------------------------------------------
(* The times of the frames.  A file that is written to has a frame for     *)
(* each of its markers.                                                    *)

LEMMA TimesOpen ==
  ASSUME NEW f, IsOpen(f)
  PROVE  /\ FrameTimes(f) = [n \in 1 .. Len(f.idx) |-> f.idx[n].time]
         /\ DOMAIN f.idx = 1 .. Len(f.idx)
         /\ Len(f.idx) \in Nat
<1>1. Len(f.idx) \in Nat /\ f.idx = [n \in 1 .. Len(f.idx) |-> f.idx[n]]
  BY DEF IsOpen, IsFile, IsList
<1>2. DOMAIN f.idx = 1 .. Len(f.idx)
  BY <1>1
<1>3. {m \in DOMAIN f.idx : f.idx[m].end # "inf"} = 1 .. Len(f.idx)
  BY <1>2 DEF IsOpen
<1> QED
  BY <1>1, <1>2, <1>3 DEF FrameTimes

(* Two open files with the same times of their markers.                    *)
LEMMA SameMarkers ==
  ASSUME NEW f, NEW g, IsOpen(f), IsOpen(g), Len(g.idx) = Len(f.idx),
         \A n \in 1 .. Len(f.idx) : g.idx[n].time = f.idx[n].time
  PROVE  FrameTimes(g) = FrameTimes(f)
BY TimesOpen

LEMMA WriteFrameTimes ==
  ASSUME NEW f, IsOpen(f)
  PROVE  FrameTimes(write_frame(f)) = FrameTimes(f)
<1>1. CASE f.idx = <<>>
  BY <1>1 DEF write_frame
<1>2. CASE f.idx # <<>>
  <2> DEFINE m == [f.idx[Len(f.idx)] EXCEPT !.end = "labels"]
             idx == [f.idx EXCEPT ![Len(f.idx)] = m]
             g == write_frame(f)
  <2>1. g.idx = idx
    BY <1>2 DEF write_frame, IsOpen, IsFile, HasFields
  <2>2. Len(f.idx) \in Nat \ {0}
    BY <1>2 DEF IsOpen, IsFile, IsList
  <2>3. IsMarker(f.idx[Len(f.idx)])
    BY <2>2 DEF IsOpen, IsFile
  <2>4. m.time = f.idx[Len(f.idx)].time
    BY <2>3 DEF IsMarker
  <2> HIDE DEF m
  <2>5. /\ Len(idx) = Len(f.idx)
        /\ \A n \in 1 .. Len(f.idx) : idx[n] = IF n = Len(f.idx) THEN m ELSE f.idx[n]
    BY ExceptList DEF IsOpen, IsFile
  <2> HIDE DEF idx, g
  <2>6. IsOpen(g)
    BY WriteFrameOpen DEF g
  <2>7. FrameTimes(g) = FrameTimes(f)
    BY <2>1, <2>4, <2>5, <2>6, SameMarkers
  <2> QED
    BY <2>7 DEF g
<1> QED
  BY <1>1, <1>2

(* A marker at the end of the index of an open file.                       *)
LEMMA MarkerTimes ==
  ASSUME NEW g, IsOpen(g), g.mem = <<>>, NEW m, IsMarker(m),
         NEW h, h = [g EXCEPT !.idx = Append(g.idx, m)],
         FrameTimes(g) \in Seq(Nat), m.end = "inf" \/ m.time \in Nat
  PROVE  FrameTimes(h) = IF m.end = "inf" THEN FrameTimes(g)
                         ELSE Append(FrameTimes(g), m.time)
<1> DEFINE k == Len(g.idx)
           t == FrameTimes(g)
<1>1. h.idx = Append(g.idx, m)
  BY DEF IsOpen, IsFile, HasFields
<1>2. /\ IsList(h.idx) /\ Len(h.idx) = k + 1
      /\ \A n \in 1 .. k : h.idx[n] = g.idx[n]
      /\ h.idx[k + 1] = m
  BY <1>1, AppendList DEF IsOpen, IsFile
<1>3. /\ t = [n \in 1 .. k |-> g.idx[n].time] /\ k \in Nat
      /\ \A n \in 1 .. k : g.idx[n].end # "inf"
  BY TimesOpen DEF IsOpen
<1>4. Len(t) = k /\ t \in Seq(Nat)
  BY <1>3
<1> HIDE DEF k, t
<1>5. DOMAIN h.idx = 1 .. (k + 1)
  BY <1>2 DEF IsList
<1> DEFINE kept == {n \in DOMAIN h.idx : h.idx[n].end # "inf"}
<1>6. FrameTimes(h) = [n \in kept |-> h.idx[n].time]
  BY DEF FrameTimes
<1>7. CASE m.end = "inf"
  <2>1. kept = 1 .. k
    BY <1>2, <1>3, <1>5, <1>7
  <2> QED
    BY <1>2, <1>3, <1>6, <1>7, <2>1, ZenonT(30) DEF t
<1>8. CASE m.end # "inf"
  <2>1. kept = 1 .. (k + 1)
    BY <1>2, <1>3, <1>5, <1>8
  <2>2. Append(t, m.time) = [n \in 1 .. (k + 1) |-> IF n = k + 1 THEN m.time ELSE t[n]]
    BY <1>3, <1>4
  <2>3. \A n \in 1 .. (k + 1) : h.idx[n].time = IF n = k + 1 THEN m.time ELSE t[n]
    BY <1>2, <1>3
  <2> HIDE DEF kept
  <2>4. FrameTimes(h) = Append(t, m.time)
    BY <1>6, <2>1, <2>2, <2>3, ZenonT(30)
  <2> QED
    BY <1>8, <2>4 DEF t
<1> QED
  BY <1>7, <1>8

LEMMA TimeTimes ==
  ASSUME NEW f, IsOpen(f), FrameTimes(f) \in Seq(Nat), NEW t \in Nat
  PROVE  FrameTimes(PBF_Time(f, t)) = Append(FrameTimes(f), t)
<1> DEFINE g == write_frame(f)
           m == Marker(t, Len(g.dat), "open")
           h == [g EXCEPT !.idx = Append(@, m)]
<1>1. IsOpen(g) /\ g.mem = <<>> /\ FrameTimes(g) = FrameTimes(f)
  BY WriteFrameOpen, WriteFrameTimes
<1>2. IsMarker(m) /\ m.end = "open" /\ m.time = t
  BY MarkerMade DEF Marker
<1>3. PBF_Time(f, t).idx = h.idx
  BY <1>1 DEF PBF_Time, IsOpen, IsFile, HasFields
<1> HIDE DEF g, m
<1>4. h = [g EXCEPT !.idx = Append(g.idx, m)]
  OBVIOUS
<1> HIDE DEF h
<1>5. FrameTimes(h) = Append(FrameTimes(f), t)
  BY <1>1, <1>2, <1>4, MarkerTimes
<1> QED
  BY <1>3, <1>5 DEF FrameTimes

LEMMA LabelTimes ==
  ASSUME NEW f, HasFrame(f), NEW label
  PROVE  FrameTimes(PBF_Label(f, label)) = FrameTimes(f)
<1> DEFINE h == PBF_Label(f, label)
<1>1. PICK lab, labels :
        h = [f EXCEPT !.lab = lab, !.idx[Len(f.idx)].labels = labels]
  BY DEF PBF_Label
<1> DEFINE m == [f.idx[Len(f.idx)] EXCEPT !.labels = labels]
           idx == [f.idx EXCEPT ![Len(f.idx)] = m]
<1>2. h.idx = idx
  BY <1>1 DEF HasFrame, IsOpen, IsFile, HasFields
<1>3. Len(f.idx) \in Nat \ {0}
  BY DEF HasFrame, IsOpen, IsFile, IsList
<1>4. IsMarker(f.idx[Len(f.idx)])
  BY <1>3 DEF HasFrame, IsOpen, IsFile
<1>5. m.time = f.idx[Len(f.idx)].time
  BY <1>4 DEF IsMarker
<1> HIDE DEF m
<1>6. /\ Len(idx) = Len(f.idx)
      /\ \A n \in 1 .. Len(f.idx) : idx[n] = IF n = Len(f.idx) THEN m ELSE f.idx[n]
  BY ExceptList DEF HasFrame, IsOpen, IsFile
<1> HIDE DEF idx, h
<1>7. IsOpen(h) /\ IsOpen(f)
  BY LabelOpen DEF h, HasFrame
<1>8. FrameTimes(h) = FrameTimes(f)
  BY <1>2, <1>5, <1>6, <1>7, SameMarkers
<1> QED
  BY <1>8 DEF h

LEMMA PutTimes ==
  ASSUME NEW f, HasFrame(f), NEW values
  PROVE  FrameTimes(PBF_Put(f, values)) = FrameTimes(f)
<1>1. PBF_Put(f, values).idx = f.idx
  BY DEF PBF_Put, HasFrame, IsOpen, IsFile, HasFields
<1> QED
  BY <1>1 DEF FrameTimes

(* write_state adds one frame, of the time of the state.                   *)
LEMMA FrameAdded ==
  ASSUME NEW f, IsOpen(f), FrameTimes(f) \in Seq(Nat), time \in Nat, NEW s, NEW d
  PROVE  FrameTimes(frame(f, s, d)) = Append(FrameTimes(f), time)
<1> DEFINE t == PBF_Time(f, time)
           v == IF s.written THEN t ELSE PBF_Put(PBF_Label(t, "IOVER"), <<1>>)
           w == dom_write_state(v, d.bod)
           result == Append(FrameTimes(f), time)
<1>1. HasFrame(t) /\ FrameTimes(t) = result
  BY TimeOpen, TimeTimes
<1> HIDE DEF t, result
<1>2. HasFrame(v) /\ FrameTimes(v) = result
  BY <1>1, LabelOpen, PutOpen, LabelTimes, PutTimes
<1> HIDE DEF v
<1>3. HasFrame(w) /\ FrameTimes(w) = result
  BY <1>2, LabelOpen, PutOpen, LabelTimes, PutTimes DEF dom_write_state
<1> HIDE DEF w
<1>4. FrameTimes(PBF_Put(PBF_Label(w, "TIMERS"), <<0>>)) = result
  BY <1>3, LabelOpen, LabelTimes, PutTimes
<1> QED
  BY <1>4 DEF frame, t, v, w, result

(* PBF_Close adds no frame.                                                *)
LEMMA FinalizeTimes ==
  ASSUME NEW f, IsOpen(f), FrameTimes(f) \in Seq(Nat)
  PROVE  FrameTimes(finalize_frames(f)) = FrameTimes(f)
<1> DEFINE g == write_frame(f)
           m == Marker(g.time, Len(g.dat), "inf")
           h == [g EXCEPT !.idx = Append(@, m)]
<1>1. IsOpen(g) /\ g.mem = <<>> /\ FrameTimes(g) = FrameTimes(f)
  BY WriteFrameOpen, WriteFrameTimes
<1>3. IsMarker(m) /\ m.end = "inf"
  BY MarkerMade
<1>4. finalize_frames(f).idx = Append(g.idx, m)
  BY FinalizeFinal
<1> HIDE DEF g, m
<1>5. h = [g EXCEPT !.idx = Append(g.idx, m)] /\ h.idx = Append(g.idx, m)
  BY <1>1 DEF IsOpen, IsFile, HasFields
<1> HIDE DEF h
<1>6. FrameTimes(h) = FrameTimes(g)
  BY <1>1, <1>3, <1>5, MarkerTimes
<1>7. FrameTimes(finalize_frames(f)) = FrameTimes(h)
  BY <1>4, <1>5 DEF FrameTimes
<1> QED
  BY <1>1, <1>6, <1>7

LEMMA CloseTimes ==
  ASSUME NEW f, IsOpen(f) \/ IsFinal(f), ~Left(f), FrameTimes(f) \in Seq(Nat)
  PROVE  FrameTimes(PBF_Close(f)) = FrameTimes(f)
<1>1. CASE IsOpen(f)
  <2>1. PBF_Close(f) = finalize_frames(f)
    BY <1>1 DEF IsOpen, PBF_Close
  <2> QED
    BY <1>1, <2>1, FinalizeTimes
<1>2. CASE IsFinal(f)
  <2>1. PBF_Close(f).idx = f.idx
    BY <1>2, FlushedFinal
  <2> QED
    BY <2>1 DEF FrameTimes
<1> QED
  BY <1>1, <1>2

-----------------------------------------------------------------------------
(* The ranks in step.                                                      *)

SolFields(s) ==
  s = [output_interval |-> s.output_interval, output_time |-> s.output_time,
       callback |-> s.callback, callback_interval |-> s.callback_interval,
       callback_time |-> s.callback_time,
       written |-> s.written, lastwrite |-> s.lastwrite]

Increasing(t) == \A i, j \in 1 .. Len(t) : i < j => t[i] < t[j]

(* How far the frames of a rank have got, at each place of the run.        *)
Reached(t, s) ==
  /\ s.written <=> t # <<>>
  /\ pc = "script" => IF time = 0 THEN t = <<>> ELSE t # <<>> /\ t[Len(t)] = time
  /\ pc = "loop" => t # <<>> /\ t[Len(t)] <= time
  /\ pc = "output" => t # <<>> /\ t[Len(t)] < time /\ ~s.lastwrite
  /\ pc \in {"callback", "last"} =>
       /\ t # <<>>
       /\ IF s.lastwrite THEN t[Len(t)] = time ELSE t[Len(t)] < time

Looping == {"loop", "output", "callback", "last"}

(* What the ranks have made uniform and change together.                   *)
SameSol(r, q) ==
  /\ sol[r].output_time = sol[q].output_time
  /\ sol[r].output_interval = sol[q].output_interval
  /\ sol[r].callback = sol[q].callback
  /\ sol[r].callback_time = sol[q].callback_time
  /\ sol[r].callback_interval = sol[q].callback_interval

(* Runs that do not end as they should.                                    *)
Broken == {"abort", "aborted", "crashed"}

Alive(r) == file[r].stage # "dead"

TimesKept(r) ==
  /\ pc \notin Broken =>
       /\ Times(r) \in Seq(Nat) /\ \A q \in Ranks : Times(r) = Times(q)
       /\ Increasing(Times(r))
  /\ pc \in Broken /\ Alive(r) =>
       /\ Times(r) \in Seq(Nat)
       /\ \A q \in Ranks : Alive(q) => Times(r) = Times(q)
  /\ pc \in Running => Reached(Times(r), sol[r])
  /\ pc \in Looping => \A q \in Ranks : SameSol(r, q)

ClockInv ==
  /\ time \in Nat /\ end \in Nat
  /\ time = 0 /\ pc = "script" => end = 0
  /\ pc \in {"output", "callback", "last"} => time # 0
  /\ sol = [r \in Ranks |-> sol[r]]
  /\ \A r \in Ranks : SolFields(sol[r])

TimesInv == ClockInv /\ \A r \in Ranks : TimesKept(r)

LEMMA TimesImply == Inv /\ TimesInv => RanksInStep /\ RecordedOnce
<1> SUFFICES ASSUME Inv, TimesInv PROVE RanksInStep /\ RecordedOnce
  OBVIOUS
<1>1. ASSUME pc = "callback" PROVE DueCallback \in {{}, Ranks}
  <2>1. \A r, q \in Ranks : /\ sol[r].callback = sol[q].callback
                            /\ sol[r].callback_time = sol[q].callback_time
    BY <1>1 DEF TimesInv, TimesKept, SameSol, Looping
  <2>2. CASE \E r \in Ranks : r \in DueCallback
    <3>1. DueCallback = Ranks
      BY <2>1, <2>2 DEF DueCallback
    <3> QED
      BY <3>1
  <2>3. CASE \A r \in Ranks : r \notin DueCallback
    <3>1. DueCallback = {}
      BY <2>3 DEF DueCallback
    <3> QED
      BY <3>1
  <2> QED
    BY <2>2, <2>3
<1>2. ASSUME NEW r \in Ranks, NEW q \in Ranks,
             file[r].stage # "dead", file[q].stage # "dead"
      PROVE  Times(r) = Times(q)
  <2>1. CASE pc \in Broken
    BY <1>2, <2>1 DEF TimesInv, TimesKept, Alive
  <2>2. CASE pc \notin Broken
    BY <2>2 DEF TimesInv, TimesKept
  <2> QED
    BY <2>1, <2>2
<1>3. ASSUME NEW r \in Ranks, pc = "script", end > 0
      PROVE  Times(r) # <<>> /\ Last(Times(r)) = time
  <2>1. time # 0
    BY <1>3 DEF TimesInv, ClockInv
  <2>2. Times(r) # <<>> /\ Times(r)[Len(Times(r))] = time
    BY <1>3, <2>1 DEF TimesInv, TimesKept, Reached, Running
  <2> QED
    BY <2>2 DEF Last
<1>4. ASSUME NEW r \in Ranks, pc \notin {"abort", "aborted", "crashed"},
             NEW i \in DOMAIN Times(r), NEW j \in DOMAIN Times(r), i < j
      PROVE  Times(r)[i] < Times(r)[j]
  <2>1. Times(r) \in Seq(Nat) /\ Increasing(Times(r))
    BY <1>4 DEF TimesInv, TimesKept, Broken
  <2> HIDE DEF Times
  <2>2. DOMAIN Times(r) = 1 .. Len(Times(r))
    BY <2>1
  <2> QED
    BY <1>4, <2>1, <2>2 DEF Increasing
<1>5. RecordedOnce
  BY <1>3, <1>4 DEF RecordedOnce
<1>6. RanksInStep
  BY <1>1, <1>2 DEF RanksInStep
<1> QED
  BY <1>5, <1>6

LEMMA TimesInit == ResultsInit => TimesInv
<1> SUFFICES ASSUME ResultsInit PROVE TimesInv
  OBVIOUS
<1>1. /\ pc = "script" /\ time = 0 /\ end = 0
      /\ sol = [r \in Ranks |-> InitSol] /\ file = [r \in Ranks |-> NewFile]
  BY DEF ResultsInit, Init
<1>2. FrameTimes(NewFile) = <<>>
  <2>1. NewFile.idx = <<>>
    BY DEF NewFile
  <2>2. {m \in DOMAIN NewFile.idx : NewFile.idx[m].end # "inf"} = {}
    BY <2>1
  <2>3. FrameTimes(NewFile) = [n \in {} |-> NewFile.idx[n].time]
    BY <2>2 DEF FrameTimes
  <2> QED
    BY <2>3
<1>3. \A r \in Ranks : Times(r) = <<>> /\ SolFields(sol[r]) /\ ~sol[r].written
  BY <1>1, <1>2 DEF Times, InitSol, SolFields
<1>4. \A r \in Ranks : Increasing(Times(r)) /\ Reached(Times(r), sol[r])
  BY <1>1, <1>3 DEF Increasing, Reached
<1>5. <<>> \in Seq(Nat) /\ pc \notin Looping
  BY <1>1 DEF Looping
<1>6. \A r \in Ranks : TimesKept(r)
  BY <1>1, <1>3, <1>4, <1>5 DEF TimesKept, Broken
<1> QED
  BY <1>1, <1>3, <1>6 DEF TimesInv, ClockInv

(* What a step that writes a frame on the ranks of W makes of the times.   *)
LEMMA RecordingTimes ==
  ASSUME AllOpen, TimesInv, pc \in Running, NEW W, NEW s, Recording(W, s)
  PROVE  \A r \in Ranks :
           Times(r)' = IF r \in W THEN Append(Times(r), time) ELSE Times(r)
<1> SUFFICES ASSUME NEW r \in Ranks
             PROVE  Times(r)' = IF r \in W THEN Append(Times(r), time) ELSE Times(r)
  OBVIOUS
<1>1. IsOpen(file[r]) /\ Times(r) \in Seq(Nat) /\ time \in Nat
  BY DEF AllOpen, TimesInv, TimesKept, Broken, ClockInv, Running
<1>2. file'[r] = IF r \in W THEN frame(file[r], s[r], dom[r]) ELSE file[r]
  BY DEF Recording
<1>3. FrameTimes(frame(file[r], s[r], dom[r])) = Append(Times(r), time)
  BY <1>1, FrameAdded DEF Times
<1>4. Times(r)' = FrameTimes(file'[r])
  BY DEF Times, FrameTimes
<1> QED
  BY <1>2, <1>3, <1>4 DEF Times

(* A frame of a later time.                                                *)
LEMMA LaterTime ==
  ASSUME NEW t \in Seq(Nat), Increasing(t), NEW x \in Nat,
         t = <<>> \/ t[Len(t)] < x
  PROVE  /\ Append(t, x) \in Seq(Nat) /\ Append(t, x) # <<>>
         /\ Append(t, x)[Len(Append(t, x))] = x
         /\ Increasing(Append(t, x))
<1> DEFINE u == Append(t, x)
<1>1. /\ u \in Seq(Nat) /\ Len(u) = Len(t) + 1 /\ u[Len(u)] = x /\ u # <<>>
      /\ \A n \in 1 .. Len(t) : u[n] = t[n]
  OBVIOUS
<1>2. \A n \in 1 .. Len(t) : t[n] \in Nat /\ t[n] < x
  <2>1. CASE t = <<>>
    BY <2>1
  <2>2. CASE t[Len(t)] < x
    <3> TAKE n \in 1 .. Len(t)
    <3>1. t[n] \in Nat /\ t[Len(t)] \in Nat /\ Len(t) \in 1 .. Len(t)
      OBVIOUS
    <3>2. n = Len(t) \/ t[n] < t[Len(t)]
      BY <3>1 DEF Increasing
    <3> QED
      BY <2>2, <3>1, <3>2
  <2> QED
    BY <2>1, <2>2
<1> HIDE DEF u
<1>3. ASSUME NEW i \in 1 .. Len(u), NEW j \in 1 .. Len(u), i < j
      PROVE  u[i] < u[j]
  <2>1. i \in 1 .. Len(t) /\ u[i] = t[i]
    BY <1>1, <1>3
  <2>2. CASE j = Len(u)
    BY <1>1, <1>2, <2>1, <2>2
  <2>3. CASE j # Len(u)
    <3>1. j \in 1 .. Len(t) /\ u[j] = t[j]
      BY <1>1, <2>3
    <3> QED
      BY <1>3, <2>1, <3>1 DEF Increasing
  <2> QED
    BY <2>2, <2>3
<1>4. Increasing(u)
  BY <1>3 DEF Increasing
<1> QED
  BY <1>1, <1>4 DEF u

(* A step that writes no frame.                                            *)
LEMMA NothingWritten ==
  ASSUME NEW r, file'[r] = file[r]
  PROVE  Times(r)' = Times(r)
BY DEF Times, FrameTimes

(* The commands of the script between two runs.                            *)
LEMMA ScriptTimes ==
  ASSUME TimesInv, pc = "script", UNCHANGED <<pc, time, end, file>>,
         sol' = [r \in Ranks |-> sol'[r]],
         \A r \in Ranks : SolFields(sol'[r]) /\ sol'[r].written = sol[r].written
  PROVE  TimesInv'
<1>1. Ranks' = Ranks /\ pc' = "script"
  BY DEF Ranks
<1>2. \A r \in Ranks : Times(r)' = Times(r)
  BY NothingWritten
<1>3. ClockInv'
  BY <1>1 DEF TimesInv, ClockInv, SolFields
<1>4. ASSUME NEW r \in Ranks
      PROVE  TimesKept(r)'
  <2>1. /\ Times(r) \in Seq(Nat) /\ \A q \in Ranks : Times(r) = Times(q)
        /\ Increasing(Times(r)) /\ Reached(Times(r), sol[r])
    BY DEF TimesInv, TimesKept, Broken, Running
  <2>2. Reached(Times(r), sol[r])'
    BY <1>1, <1>2, <2>1 DEF Reached
  <2> QED
    BY <1>1, <1>2, <2>1, <2>2 DEF TimesKept, Broken, Looping, Increasing
<1> QED
  BY <1>1, <1>3, <1>4 DEF TimesInv

LEMMA OutputCommandTimes ==
  ASSUME TimesInv, NEW interval, SOLFEC_Output(interval)
  PROVE  TimesInv'
<1>1. \A r \in Ranks : /\ SolFields(sol[r])
                       /\ sol'[r] = [sol[r] EXCEPT !.output_interval = interval[r],
                                                   !.output_time = time + interval[r]]
  BY DEF SOLFEC_Output, TimesInv, ClockInv
<1>2. \A r \in Ranks : SolFields(sol'[r]) /\ sol'[r].written = sol[r].written
  BY <1>1 DEF SolFields
<1>3. sol' = [r \in Ranks |-> sol'[r]]
  BY DEF SOLFEC_Output
<1> QED
  BY <1>2, <1>3, ScriptTimes DEF SOLFEC_Output

LEMMA CallbackCommandTimes ==
  ASSUME TimesInv, NEW S, NEW interval, SOLFEC_Set_Callback(S, interval)
  PROVE  TimesInv'
<1>1. \A r \in Ranks :
        /\ SolFields(sol[r])
        /\ \/ sol'[r] = sol[r]
           \/ sol'[r] = [sol[r] EXCEPT !.callback = TRUE,
                                       !.callback_interval = interval[r],
                                       !.callback_time = time + interval[r]]
  BY DEF SOLFEC_Set_Callback, TimesInv, ClockInv
<1>2. \A r \in Ranks : SolFields(sol'[r]) /\ sol'[r].written = sol[r].written
  BY <1>1 DEF SolFields
<1>3. sol' = [r \in Ranks |-> sol'[r]]
  BY DEF SOLFEC_Set_Callback
<1> QED
  BY <1>2, <1>3, ScriptTimes DEF SOLFEC_Set_Callback

(* The initial state is recorded by the first RUN only.                    *)
LEMMA RunTimes ==
  ASSUME Inv, TimesInv, NEW duration \in 1 .. MaxTime, Run(duration)
  PROVE  TimesInv'
<1> DEFINE W == IF time = 0 THEN Ranks ELSE {}
<1>0. pc = "script" /\ pc' = "loop" /\ time' = time /\ end' = time + duration
  BY DEF Run
<1>1. /\ Recording(W, Uniform)
      /\ sol' = [r \in Ranks |->
                   IF r \in W THEN [Uniform[r] EXCEPT !.written = TRUE, !.lastwrite = FALSE]
                   ELSE Uniform[r]]
  BY DEF Run, write_state
<1>2. Ranks' = Ranks /\ AllOpen /\ time \in Nat
  BY <1>0 DEF Ranks, Inv, FilesInv, Running, TimesInv, ClockInv
<1>3. \A r \in Ranks : SolFields(sol[r])
  BY DEF TimesInv, ClockInv
<1>4. \A r \in Ranks :
        /\ SolFields(Uniform[r]) /\ (Uniform[r].written <=> sol[r].written)
        /\ \A q \in Ranks : /\ Uniform[r].output_time = Uniform[q].output_time
                            /\ Uniform[r].output_interval = Uniform[q].output_interval
                            /\ Uniform[r].callback = Uniform[q].callback
                            /\ Uniform[r].callback_time = Uniform[q].callback_time
                            /\ Uniform[r].callback_interval = Uniform[q].callback_interval
  <2> DEFINE called == \A q \in Ranks : sol[q].callback
             cinterval == Min({sol[q].callback_interval : q \in Ranks})
             ointerval == Min({sol[q].output_interval : q \in Ranks})
             ctime == Min({sol[q].callback_time : q \in Ranks})
             otime == Min({sol[q].output_time : q \in Ranks})
  <2>1. \A r \in Ranks :
          Uniform[r] = [sol[r] EXCEPT !.callback = called,
                                      !.callback_interval = cinterval,
                                      !.output_interval = ointerval,
                                      !.callback_time = ctime,
                                      !.output_time = otime]
    BY DEF Uniform
  <2> HIDE DEF called, cinterval, ointerval, ctime, otime
  <2>2. ASSUME NEW r \in Ranks
        PROVE  /\ SolFields(Uniform[r]) /\ Uniform[r].written = sol[r].written
               /\ Uniform[r].output_time = otime /\ Uniform[r].output_interval = ointerval
               /\ Uniform[r].callback = called /\ Uniform[r].callback_time = ctime
               /\ Uniform[r].callback_interval = cinterval
    <3>1. SolFields(sol[r])
      BY <1>3
    <3> QED
      BY <2>1, <3>1 DEF SolFields
  <2> QED
    BY <2>2
<1>5. \A r \in Ranks :
        Times(r)' = IF r \in W THEN Append(Times(r), time) ELSE Times(r)
  BY <1>0, <1>1, <1>2, RecordingTimes DEF Running
<1>6. ASSUME NEW r \in Ranks
      PROVE  /\ SolFields(sol'[r])
             /\ (sol'[r].written <=> r \in W \/ sol[r].written)
             /\ \A q \in Ranks : SameSol(r, q)'
  <2>1. ASSUME NEW q \in Ranks
        PROVE  /\ SolFields(sol'[q])
               /\ sol'[q].written <=> q \in W \/ sol[q].written
               /\ sol'[q].output_time = Uniform[q].output_time
               /\ sol'[q].output_interval = Uniform[q].output_interval
               /\ sol'[q].callback = Uniform[q].callback
               /\ sol'[q].callback_time = Uniform[q].callback_time
               /\ sol'[q].callback_interval = Uniform[q].callback_interval
    <3>1. SolFields(Uniform[q]) /\ (Uniform[q].written <=> sol[q].written)
      BY <1>4
    <3>2. CASE q \in W
      <4>1. sol'[q] = [Uniform[q] EXCEPT !.written = TRUE, !.lastwrite = FALSE]
        BY <1>1, <3>2
      <4> QED
        BY <3>1, <3>2, <4>1 DEF SolFields
    <3>3. CASE q \notin W
      BY <1>1, <3>1, <3>3
    <3> QED
      BY <3>2, <3>3
  <2>2. \A q \in Ranks : SameSol(r, q)'
    BY <1>4, <2>1 DEF SameSol
  <2> QED
    BY <2>1, <2>2
<1>7. ClockInv'
  <2>1. sol' = [r \in Ranks |-> sol'[r]] /\ \A r \in Ranks : SolFields(sol'[r])
    BY <1>1, <1>6
  <2>2. duration \in Nat
    BY OutputAssumption
  <2>3. time' \in Nat /\ end' \in Nat
    BY <1>0, <1>2, <2>2
  <2> QED
    BY <1>0, <1>2, <2>1, <2>3 DEF ClockInv, SolFields
<1>8. ASSUME NEW r \in Ranks
      PROVE  TimesKept(r)'
  <2>1. /\ Times(r) \in Seq(Nat) /\ \A q \in Ranks : Times(r) = Times(q)
        /\ Increasing(Times(r)) /\ Reached(Times(r), sol[r])
    BY <1>0 DEF TimesInv, TimesKept, Broken, Running
  <2>2. \A q \in Ranks : Times(r)' = Times(q)'
    BY <1>5, <2>1
  <2>3. CASE time = 0
    <3>1. Times(r) = <<>> /\ r \in W
      BY <1>0, <2>1, <2>3 DEF Reached
    <3>2. /\ Times(r)' \in Seq(Nat) /\ Increasing(Times(r)')
          /\ Times(r)' # <<>> /\ Times(r)'[Len(Times(r)')] = time
      BY <1>2, <1>5, <2>1, <3>1, LaterTime
    <3>3. Reached(Times(r), sol[r])'
      BY <1>0, <1>2, <1>6, <3>1, <3>2 DEF Reached
    <3> QED
      BY <1>0, <1>2, <1>6, <2>2, <3>2, <3>3 DEF TimesKept, Broken, Increasing
  <2>4. CASE time # 0
    <3>1. Times(r)' = Times(r) /\ r \notin W
      BY <1>5, <2>4
    <3>2. Reached(Times(r), sol[r])'
      BY <1>0, <1>2, <1>6, <2>1, <2>4, <3>1 DEF Reached
    <3> QED
      BY <1>0, <1>2, <1>6, <2>1, <2>2, <3>1, <3>2 DEF TimesKept, Broken, Increasing
  <2> QED
    BY <2>3, <2>4
<1> QED
  BY <1>2, <1>7, <1>8 DEF TimesInv

(* What TimesKept says while the program runs.                             *)
LEMMA TimesRunning ==
  ASSUME TimesInv, pc \in Running, NEW r \in Ranks
  PROVE  /\ Times(r) \in Seq(Nat) /\ \A q \in Ranks : Times(r) = Times(q)
         /\ Increasing(Times(r)) /\ Reached(Times(r), sol[r])
         /\ SolFields(sol[r])
BY DEF TimesInv, TimesKept, Broken, ClockInv, Running

LEMMA SolSame ==
  ASSUME TimesInv, pc \in Looping, NEW r \in Ranks, NEW q \in Ranks
  PROVE  SameSol(r, q)
BY DEF TimesInv, TimesKept

LEMMA StepTimes ==
  ASSUME TimesInv, NEW b, NEW to, NEW gone, NEW cracked, NEW parts,
         Step(b, to, gone, cracked, parts)
  PROVE  TimesInv'
<1>1. /\ pc = "loop" /\ pc' = "output" /\ time' = time + 1
      /\ end' = end /\ file' = file /\ Ranks' = Ranks
  BY DEF Step, Ranks
<1>2. sol' = [r \in Ranks |-> [sol[r] EXCEPT !.lastwrite = FALSE]]
  BY DEF Step
<1>3. time \in Nat /\ end \in Nat
  BY DEF TimesInv, ClockInv
<1>4. ASSUME NEW r \in Ranks
      PROVE  /\ SolFields(sol'[r]) /\ ~sol'[r].lastwrite
             /\ sol'[r].written <=> sol[r].written
             /\ sol'[r].output_time = sol[r].output_time
             /\ sol'[r].output_interval = sol[r].output_interval
             /\ sol'[r].callback = sol[r].callback
             /\ sol'[r].callback_time = sol[r].callback_time
             /\ sol'[r].callback_interval = sol[r].callback_interval
  <2>1. SolFields(sol[r]) /\ sol'[r] = [sol[r] EXCEPT !.lastwrite = FALSE]
    BY <1>1, <1>2, TimesRunning DEF Running
  <2> QED
    BY <2>1 DEF SolFields
<1>5. ClockInv'
  <2>1. sol' = [r \in Ranks |-> sol'[r]]
    BY <1>2
  <2> QED
    BY <1>1, <1>3, <1>4, <2>1 DEF ClockInv, SolFields
<1>6. ASSUME NEW r \in Ranks
      PROVE  TimesKept(r)'
  <2>1. /\ Times(r) \in Seq(Nat) /\ \A q \in Ranks : Times(r) = Times(q)
        /\ Increasing(Times(r)) /\ Reached(Times(r), sol[r])
    BY <1>1, TimesRunning DEF Running
  <2>2. \A q \in Ranks : Times(q)' = Times(q)
    BY <1>1, NothingWritten
  <2>3. \A q \in Ranks : SameSol(r, q)'
    BY <1>1, <1>4, SolSame DEF SameSol, Looping
  <2>4. Times(r) # <<>> /\ Times(r)[Len(Times(r))] <= time
    BY <1>1, <2>1 DEF Reached
  <2>5. Times(r)[Len(Times(r))] \in Nat
    BY <2>1, <2>4
  <2>6. Times(r)[Len(Times(r))] < time'
    BY <1>1, <1>3, <2>4, <2>5
  <2>7. Reached(Times(r), sol[r])'
    BY <1>1, <1>4, <2>1, <2>2, <2>4, <2>6 DEF Reached
  <2> QED
    BY <1>1, <2>1, <2>2, <2>3, <2>7 DEF TimesKept, Broken, Increasing
<1> QED
  BY <1>1, <1>5, <1>6 DEF TimesInv

(* Output is due on all ranks or on none.                                  *)
LEMMA DueOutputSame ==
  ASSUME TimesInv, pc = "output"
  PROVE  DueOutput \in {{}, Ranks}
<1>1. \A r, q \in Ranks : sol[r].output_time = sol[q].output_time
  BY SolSame DEF SameSol, Looping
<1>2. CASE \E r \in Ranks : r \in DueOutput
  <2>1. DueOutput = Ranks
    BY <1>1, <1>2 DEF DueOutput
  <2> QED
    BY <2>1
<1>3. CASE \A r \in Ranks : r \notin DueOutput
  <2>1. DueOutput = {}
    BY <1>3 DEF DueOutput
  <2> QED
    BY <2>1
<1> QED
  BY <1>2, <1>3

LEMMA OutputTimes ==
  ASSUME Inv, TimesInv, Output
  PROVE  TimesInv'
<1> DEFINE s == [r \in Ranks |->
                   IF r \in DueOutput
                   THEN [sol[r] EXCEPT !.output_time = @ + sol[r].output_interval]
                   ELSE sol[r]]
<1>1. /\ pc = "output" /\ pc' = "callback" /\ time' = time
      /\ end' = end /\ Ranks' = Ranks
  BY DEF Output, Ranks
<1>2. /\ Recording(DueOutput, s)
      /\ sol' = [r \in Ranks |->
                   IF r \in DueOutput
                   THEN [s[r] EXCEPT !.written = TRUE, !.lastwrite = TRUE]
                   ELSE s[r]]
  BY DEF Output, write_state
<1>3. time \in Nat \ {0} /\ end \in Nat /\ AllOpen
  BY <1>1 DEF TimesInv, ClockInv, Inv, FilesInv, Running
<1>4. \A r \in Ranks :
        Times(r)' = IF r \in DueOutput THEN Append(Times(r), time) ELSE Times(r)
  BY <1>1, <1>2, <1>3, RecordingTimes DEF Running
<1>5. DueOutput = {} \/ DueOutput = Ranks
  BY <1>1, DueOutputSame
<1>6. \A r \in Ranks : SolFields(sol[r])
  BY DEF TimesInv, ClockInv
<1>7. ASSUME NEW r \in Ranks, r \notin DueOutput
      PROVE  sol'[r] = sol[r]
  BY <1>2, <1>7
<1>8. ASSUME NEW r \in Ranks, r \in DueOutput
      PROVE  /\ SolFields(sol'[r]) /\ sol'[r].written /\ sol'[r].lastwrite
             /\ sol'[r].output_time = sol[r].output_time + sol[r].output_interval
             /\ sol'[r].output_interval = sol[r].output_interval
             /\ sol'[r].callback = sol[r].callback
             /\ sol'[r].callback_time = sol[r].callback_time
             /\ sol'[r].callback_interval = sol[r].callback_interval
  <2>1. s[r] = [sol[r] EXCEPT !.output_time = sol[r].output_time + sol[r].output_interval]
    BY <1>6, <1>8 DEF SolFields
  <2>2. sol'[r] = [s[r] EXCEPT !.written = TRUE, !.lastwrite = TRUE]
    BY <1>2, <1>8
  <2>3. SolFields(sol[r])
    BY <1>6
  <2> HIDE DEF s
  <2> QED
    BY <2>1, <2>2, <2>3 DEF SolFields
<1> HIDE DEF s
<1>9. ClockInv'
  <2>1. sol' = [r \in Ranks |-> sol'[r]]
    BY <1>2
  <2>2. \A r \in Ranks : SolFields(sol'[r])
    BY <1>6, <1>7, <1>8
  <2> QED
    BY <1>1, <1>3, <2>1, <2>2 DEF ClockInv, SolFields
<1>10. ASSUME NEW r \in Ranks
       PROVE  TimesKept(r)'
  <2>1. /\ Times(r) \in Seq(Nat) /\ \A q \in Ranks : Times(r) = Times(q)
        /\ Increasing(Times(r)) /\ Reached(Times(r), sol[r])
    BY <1>1, TimesRunning DEF Running
  <2>2. /\ Times(r) # <<>> /\ Times(r)[Len(Times(r))] < time
        /\ ~sol[r].lastwrite /\ sol[r].written
    BY <1>1, <2>1 DEF Reached
  <2>3. \A q \in Ranks : SameSol(r, q)
    BY <1>1, SolSame DEF Looping
  <2>4. CASE DueOutput = {}
    <3>1. \A q \in Ranks : Times(q)' = Times(q) /\ sol'[q] = sol[q]
      BY <1>4, <1>7, <2>4
    <3>2. \A q \in Ranks : SameSol(r, q)'
      BY <1>1, <2>3, <3>1 DEF SameSol
    <3>3. Reached(Times(r), sol[r])'
      BY <1>1, <2>1, <2>2, <3>1 DEF Reached
    <3> QED
      BY <1>1, <2>1, <3>1, <3>2, <3>3 DEF TimesKept, Broken, Increasing
  <2>5. CASE DueOutput = Ranks
    <3>1. \A q \in Ranks : Times(q)' = Append(Times(q), time)
      BY <1>4, <2>5
    <3>2. /\ Times(r)' \in Seq(Nat) /\ Increasing(Times(r)')
          /\ Times(r)' # <<>> /\ Times(r)'[Len(Times(r)')] = time
      BY <1>3, <2>1, <2>2, <3>1, LaterTime
    <3>3. \A q \in Ranks : SameSol(r, q)'
      BY <1>8, <2>3, <2>5 DEF SameSol
    <3>4. Reached(Times(r), sol[r])'
      BY <1>1, <1>8, <2>5, <3>2 DEF Reached
    <3>5. \A q \in Ranks : Times(r)' = Times(q)'
      BY <2>1, <3>1
    <3> QED
      BY <1>1, <3>2, <3>3, <3>4, <3>5 DEF TimesKept, Broken, Increasing
  <2> QED
    BY <1>5, <2>4, <2>5
<1> QED
  BY <1>1, <1>9, <1>10 DEF TimesInv

(* The callback writes nothing; its time goes on wherever it is due.       *)
LEMMA CallbackTimes ==
  ASSUME TimesInv, NEW S, NEW create, NEW go, Callback(S, create, go)
  PROVE  TimesInv'
<1>1. /\ pc = "callback" /\ pc' \in {"loop", "last"} /\ time' = time
      /\ end' = end /\ file' = file /\ Ranks' = Ranks
      /\ DueCallback = {} \/ DueCallback = Ranks
  BY DEF Callback, Ranks
<1>2. sol' = [r \in Ranks |->
               IF r \in DueCallback
               THEN [sol[r] EXCEPT !.callback_time = @ + sol[r].callback_interval]
               ELSE sol[r]]
  BY DEF Callback
<1>3. time \in Nat \ {0} /\ end \in Nat /\ \A r \in Ranks : SolFields(sol[r])
  BY <1>1 DEF TimesInv, ClockInv
<1>4. ASSUME NEW r \in Ranks
      PROVE  /\ SolFields(sol'[r])
             /\ sol'[r].lastwrite <=> sol[r].lastwrite
             /\ sol'[r].written <=> sol[r].written
             /\ sol'[r].output_time = sol[r].output_time
             /\ sol'[r].output_interval = sol[r].output_interval
             /\ sol'[r].callback = sol[r].callback
             /\ sol'[r].callback_interval = sol[r].callback_interval
             /\ sol'[r].callback_time =
                  IF r \in DueCallback
                  THEN sol[r].callback_time + sol[r].callback_interval
                  ELSE sol[r].callback_time
  <2>1. CASE r \notin DueCallback
    BY <1>2, <1>3, <2>1
  <2>2. CASE r \in DueCallback
    <3>1. SolFields(sol[r])
      BY <1>3
    <3>2. sol'[r] = [sol[r] EXCEPT
                       !.callback_time = sol[r].callback_time + sol[r].callback_interval]
      BY <1>2, <2>2, <3>1 DEF SolFields
    <3> QED
      BY <2>2, <3>1, <3>2 DEF SolFields
  <2> QED
    BY <2>1, <2>2
<1>5. ClockInv'
  <2>1. sol' = [r \in Ranks |-> sol'[r]]
    BY <1>2
  <2> QED
    BY <1>1, <1>3, <1>4, <2>1 DEF ClockInv, SolFields
<1>6. ASSUME NEW r \in Ranks
      PROVE  TimesKept(r)'
  <2>1. /\ Times(r) \in Seq(Nat) /\ \A q \in Ranks : Times(r) = Times(q)
        /\ Increasing(Times(r)) /\ Reached(Times(r), sol[r])
    BY <1>1, TimesRunning DEF Running
  <2>2. \A q \in Ranks : Times(q)' = Times(q)
    BY <1>1, NothingWritten
  <2>3. \A q \in Ranks : r \in DueCallback <=> q \in DueCallback
    BY <1>1
  <2>4. \A q \in Ranks : SameSol(r, q)
    BY <1>1, SolSame DEF Looping
  <2>5. \A q \in Ranks : SameSol(r, q)'
    BY <1>4, <2>3, <2>4 DEF SameSol
  <2>6. /\ Times(r) # <<>> /\ sol[r].written
        /\ IF sol[r].lastwrite THEN Times(r)[Len(Times(r))] = time
                               ELSE Times(r)[Len(Times(r))] < time
    BY <1>1, <2>1 DEF Reached
  <2>7. Times(r)[Len(Times(r))] \in Nat
    BY <2>1, <2>6
  <2>8. Reached(Times(r), sol[r])'
    BY <1>1, <1>3, <1>4, <2>2, <2>6, <2>7 DEF Reached
  <2> QED
    BY <1>1, <2>1, <2>2, <2>5, <2>8 DEF TimesKept, Broken, Increasing
<1> QED
  BY <1>1, <1>5, <1>6 DEF TimesInv

(* The last state is recorded on all ranks or on none: on those whose last *)
(* frame is older, and the frames of all ranks have the same times.        *)
LEMMA RecordLastTimes ==
  ASSUME Inv, TimesInv, RecordLast
  PROVE  TimesInv'
<1> DEFINE W == {r \in Ranks : ~sol[r].lastwrite}
<1>1. /\ pc = "last" /\ pc' = "script" /\ time' = time
      /\ end' = end /\ Ranks' = Ranks
  BY DEF RecordLast, Ranks
<1>2. /\ Recording(W, sol)
      /\ sol' = [r \in Ranks |->
                   IF r \in W THEN [sol[r] EXCEPT !.written = TRUE, !.lastwrite = FALSE]
                   ELSE sol[r]]
  BY DEF RecordLast, write_state
<1>3. /\ time \in Nat \ {0} /\ end \in Nat /\ AllOpen
      /\ \A r \in Ranks : SolFields(sol[r])
  BY <1>1 DEF TimesInv, ClockInv, Inv, FilesInv, Running
<1>4. \A r \in Ranks :
        Times(r)' = IF r \in W THEN Append(Times(r), time) ELSE Times(r)
  BY <1>1, <1>2, <1>3, RecordingTimes DEF Running
<1>5. ASSUME NEW r \in Ranks
      PROVE  /\ Times(r) \in Seq(Nat) /\ \A q \in Ranks : Times(r) = Times(q)
             /\ Increasing(Times(r))
             /\ Times(r) # <<>> /\ sol[r].written
             /\ Times(r)[Len(Times(r))] \in Nat
             /\ IF r \in W THEN Times(r)[Len(Times(r))] < time
                           ELSE Times(r)[Len(Times(r))] = time
  <2>1. /\ Times(r) \in Seq(Nat) /\ \A q \in Ranks : Times(r) = Times(q)
        /\ Increasing(Times(r)) /\ Reached(Times(r), sol[r])
    BY <1>1, TimesRunning DEF Running
  <2>2. /\ Times(r) # <<>> /\ sol[r].written
        /\ IF r \in W THEN Times(r)[Len(Times(r))] < time
                      ELSE Times(r)[Len(Times(r))] = time
    BY <1>1, <2>1 DEF Reached
  <2>3. Times(r)[Len(Times(r))] \in Nat
    BY <2>1, <2>2
  <2> QED
    BY <2>1, <2>2, <2>3
<1>6. \A r, q \in Ranks : r \in W <=> q \in W
  BY <1>3, <1>5
<1>7. ASSUME NEW r \in Ranks
      PROVE  SolFields(sol'[r]) /\ sol'[r].written
  <2>1. SolFields(sol[r]) /\ sol[r].written
    BY <1>3, <1>5
  <2>2. CASE r \in W
    <3>1. sol'[r] = [sol[r] EXCEPT !.written = TRUE, !.lastwrite = FALSE]
      BY <1>2, <2>2
    <3> QED
      BY <2>1, <3>1 DEF SolFields
  <2>3. CASE r \notin W
    BY <1>2, <2>1, <2>3
  <2> QED
    BY <2>2, <2>3
<1> HIDE DEF W
<1>8. ClockInv'
  <2>1. sol' = [r \in Ranks |-> sol'[r]]
    BY <1>2
  <2> QED
    BY <1>1, <1>3, <1>7, <2>1 DEF ClockInv, SolFields
<1>9. ASSUME NEW r \in Ranks
      PROVE  TimesKept(r)'
  <2>1. \A q \in Ranks : Times(r)' = Times(q)'
    BY <1>4, <1>5, <1>6
  <2>2. /\ Times(r)' \in Seq(Nat) /\ Increasing(Times(r)')
        /\ Times(r)' # <<>> /\ Times(r)'[Len(Times(r)')] = time
    <3>1. CASE r \in W
      <4>1. /\ Times(r) \in Seq(Nat) /\ Increasing(Times(r)) /\ time \in Nat
            /\ Times(r)[Len(Times(r))] < time
        BY <1>3, <1>5, <3>1
      <4>2. Times(r)' = Append(Times(r), time)
        BY <1>4, <3>1
      <4> QED
        BY <4>1, <4>2, LaterTime
    <3>2. CASE r \notin W
      BY <1>4, <1>5, <3>2
    <3> QED
      BY <3>1, <3>2
  <2>3. Reached(Times(r), sol[r])'
    BY <1>1, <1>3, <1>7, <2>2 DEF Reached
  <2> QED
    BY <1>1, <2>1, <2>2, <2>3 DEF TimesKept, Broken, Increasing, Looping
<1> QED
  BY <1>1, <1>8, <1>9 DEF TimesInv

(* The memory of the process is gone, and with it what the ranks count.    *)
LEMMA GoneClock ==
  ASSUME Gone, pc' \in {"exit", "abort", "crashed"}
  PROVE  ClockInv' /\ Ranks' = Ranks /\ pc' \notin Running /\ pc' \notin Looping
<1>1. /\ time' = 0 /\ end' = 0 /\ sol' = [r \in Ranks |-> InitSol]
      /\ Ranks' = Ranks
  BY DEF Gone, Ranks
<1>2. SolFields(InitSol)
  BY DEF InitSol, SolFields
<1>3. \A r \in Ranks : SolFields(sol'[r])
  BY <1>1, <1>2
<1>4. ClockInv'
  BY <1>1, <1>3 DEF ClockInv, SolFields
<1> QED
  BY <1>1, <1>4 DEF Running, Looping

(* A state that was never written is written by all ranks.                 *)
LEMMA DestroyTimes ==
  ASSUME Inv, TimesInv, SOLFEC_Destroy
  PROVE  TimesInv'
<1> DEFINE W == {r \in Ranks : ~sol[r].written}
<1>1. pc = "script" /\ pc' = "exit" /\ Recording(W, sol) /\ Gone
  BY DEF SOLFEC_Destroy
<1>2. /\ ClockInv' /\ Ranks' = Ranks /\ pc' \notin Running /\ pc' \notin Looping
  BY <1>1, GoneClock
<1>3. AllOpen /\ time \in Nat
  BY <1>1 DEF TimesInv, ClockInv, Inv, FilesInv, Running
<1>4. \A r \in Ranks :
        Times(r)' = IF r \in W THEN Append(Times(r), time) ELSE Times(r)
  BY <1>1, <1>3, RecordingTimes DEF Running
<1>5. ASSUME NEW r \in Ranks
      PROVE  /\ Times(r) \in Seq(Nat) /\ \A q \in Ranks : Times(r) = Times(q)
             /\ Increasing(Times(r))
             /\ r \in W <=> Times(r) = <<>>
  <2>1. /\ Times(r) \in Seq(Nat) /\ \A q \in Ranks : Times(r) = Times(q)
        /\ Increasing(Times(r)) /\ Reached(Times(r), sol[r])
    BY <1>1, TimesRunning DEF Running
  <2> QED
    BY <2>1 DEF Reached
<1> HIDE DEF W
<1>6. ASSUME NEW r \in Ranks
      PROVE  TimesKept(r)'
  <2>1. \A q \in Ranks : Times(r)' = Times(q)'
    BY <1>4, <1>5
  <2>2. Times(r)' \in Seq(Nat) /\ Increasing(Times(r)')
    <3>1. CASE r \in W
      <4>1. Times(r) \in Seq(Nat) /\ Increasing(Times(r)) /\ Times(r) = <<>>
        BY <1>5, <3>1
      <4>2. Times(r)' = Append(Times(r), time)
        BY <1>4, <3>1
      <4> QED
        BY <1>3, <4>1, <4>2, LaterTime
    <3>2. CASE r \notin W
      BY <1>4, <1>5, <3>2
    <3> QED
      BY <3>1, <3>2
  <2> QED
    BY <1>1, <1>2, <2>1, <2>2 DEF TimesKept, Broken, Increasing
<1> QED
  BY <1>2, <1>6 DEF TimesInv

(* The times of the frames stay as they are when a file is closed.         *)
LEMMA CloseKeepsTimes ==
  ASSUME Inv, TimesInv, NEW r \in Ranks, Close(r)
  PROVE  TimesInv'
<1>1. /\ pc \in {"exit", "abort"} /\ ~Left(file[r])
      /\ pc = "exit" => pc' \in {"exit", "closed", "crashed"}
      /\ pc = "abort" => pc' \in Broken
      /\ file' = [file EXCEPT ![r] = PBF_Close(@)]
      /\ UNCHANGED <<time, end, sol>> /\ Ranks' = Ranks
  BY DEF Close, Ranks, Broken
<1>2. /\ file = [q \in Ranks |-> file[q]]
      /\ IsOpen(file[r]) \/ IsFinal(file[r])
  BY <1>1 DEF Inv, FilesInv, IsDead, Left
<1>3. Alive(r)
  BY <1>1 DEF Alive, Left
<1>4. /\ pc = "exit" => \A q \in Ranks : /\ Times(q) \in Seq(Nat) /\ Times(r) = Times(q)
                                         /\ Increasing(Times(q))
      /\ \A q \in Ranks : Alive(q) => Times(q) \in Seq(Nat) /\ Times(r) = Times(q)
  BY <1>1, <1>3 DEF TimesInv, TimesKept, Broken
<1>5. ASSUME NEW q \in Ranks
      PROVE  Times(q)' = Times(q) /\ (Alive(q)' => Alive(q))
  <2>1. CASE q = r
    <3>1. file'[r] = PBF_Close(file[r])
      BY <1>1, <1>2
    <3>2. FrameTimes(file'[r]) = FrameTimes(file[r])
      BY <1>1, <1>2, <1>3, <1>4, <3>1, CloseTimes DEF Times
    <3> QED
      BY <1>3, <2>1, <3>2 DEF Times, FrameTimes
  <2>2. CASE q # r
    <3>1. file'[q] = file[q]
      BY <1>1, <1>2, <2>2
    <3> QED
      BY <3>1, NothingWritten DEF Alive
  <2> QED
    BY <2>1, <2>2
<1>6. ClockInv'
  <2>1. pc' \notin {"script", "output", "callback", "last"}
    BY <1>1 DEF Broken
  <2> QED
    BY <1>1, <2>1 DEF TimesInv, ClockInv, SolFields
<1>7. ASSUME NEW q \in Ranks
      PROVE  TimesKept(q)'
  <2>1. pc' \notin Broken => pc = "exit"
    BY <1>1
  <2>2. pc' \notin Broken =>
          /\ Times(q)' \in Seq(Nat) /\ \A p \in Ranks : Times(q)' = Times(p)'
          /\ Increasing(Times(q)')
    BY <1>4, <1>5, <2>1
  <2>3. Alive(q)' => /\ Times(q)' \in Seq(Nat)
                     /\ \A p \in Ranks : Alive(p)' => Times(q)' = Times(p)'
    BY <1>4, <1>5
  <2>4. pc' \notin Running /\ pc' \notin Looping
    BY <1>1 DEF Broken, Running, Looping
  <2> QED
    BY <1>1, <2>2, <2>3, <2>4 DEF TimesKept, Increasing, Broken
<1> QED
  BY <1>1, <1>6, <1>7 DEF TimesInv

(* An abort records the state once more wherever the process does not die. *)
LEMMA AbortTimes ==
  ASSUME Inv, TimesInv, NEW S, NEW lost, SOLFEC_Abort(S, lost)
  PROVE  TimesInv'
<1>1. /\ pc \in Running /\ pc' = "abort"
      /\ file' = [r \in Ranks |->
                    IF r \in S THEN frame(file[r], sol[r], dom[r])
                    ELSE Torn(file[r], lost[r])]
      /\ Gone
  BY DEF SOLFEC_Abort, Running
<1>2. ClockInv' /\ Ranks' = Ranks /\ pc' \notin Running /\ pc' \notin Looping
  BY <1>1, GoneClock
<1>3. ASSUME NEW r \in Ranks, Alive(r)'
      PROVE  Times(r)' = Append(Times(r), time) /\ Append(Times(r), time) \in Seq(Nat)
  <2>1. IsOpen(file[r]) /\ Times(r) \in Seq(Nat) /\ time \in Nat
    BY <1>1, TimesRunning DEF Inv, FilesInv, AllOpen, TimesInv, ClockInv
  <2>2. r \in S
    <3>1. Torn(file[r], lost[r]).stage = "dead"
      BY <2>1 DEF Torn, Left, IsOpen, IsFile, HasFields
    <3> QED
      BY <1>1, <1>3, <3>1 DEF Alive
  <2>3. file'[r] = frame(file[r], sol[r], dom[r])
    BY <1>1, <2>2
  <2>4. FrameTimes(file'[r]) = Append(Times(r), time)
    BY <2>1, <2>3, FrameAdded DEF Times
  <2>5. Append(Times(r), time) \in Seq(Nat)
    BY <2>1
  <2> QED
    BY <2>4, <2>5 DEF Times, FrameTimes
<1>4. \A r, q \in Ranks : Times(r) = Times(q)
  BY <1>1, TimesRunning
<1>5. \A r \in Ranks : Alive(r)' => /\ Times(r)' \in Seq(Nat)
                                    /\ \A q \in Ranks : Alive(q)' => Times(r)' = Times(q)'
  BY <1>3, <1>4
<1>6. \A r \in Ranks : TimesKept(r)'
  BY <1>1, <1>2, <1>5 DEF TimesKept, Broken
<1> QED
  BY <1>2, <1>6 DEF TimesInv

LEMMA CrashTimes ==
  ASSUME Inv, TimesInv, NEW lost, Crash(lost)
  PROVE  TimesInv'
<1>1. /\ pc' = "crashed" /\ Gone
      /\ file' = [r \in Ranks |-> Torn(file[r], lost[r])]
  BY DEF Crash
<1>2. ClockInv' /\ Ranks' = Ranks /\ pc' \notin Running /\ pc' \notin Looping
  BY <1>1, GoneClock
<1>3. ASSUME NEW r \in Ranks, Alive(r)'
      PROVE  Alive(r) /\ Times(r)' = Times(r)
  <2>1. IsOpen(file[r]) \/ IsFinal(file[r]) \/ IsDead(file[r])
    BY DEF Inv, FilesInv
  <2>2. file'[r] = Torn(file[r], lost[r]) /\ Left(file'[r])
    BY <1>1, <2>1, TornLeft
  <2>3. file'[r] = file[r]
    BY <1>3, <2>1, <2>2, TornLeft DEF Left, Alive
  <2> QED
    BY <1>3, <2>3, NothingWritten DEF Alive
<1>4. \A r \in Ranks : Alive(r) => /\ Times(r) \in Seq(Nat)
                                   /\ \A q \in Ranks : Alive(q) => Times(r) = Times(q)
  BY DEF TimesInv, TimesKept
<1>5. \A r \in Ranks : Alive(r)' => /\ Times(r)' \in Seq(Nat)
                                    /\ \A q \in Ranks : Alive(q)' => Times(r)' = Times(q)'
  BY <1>3, <1>4
<1>6. \A r \in Ranks : TimesKept(r)'
  BY <1>1, <1>2, <1>5 DEF TimesKept, Broken
<1> QED
  BY <1>2, <1>6 DEF TimesInv

LEMMA TimesUnchanged ==
  ASSUME TimesInv, UNCHANGED vars
  PROVE  TimesInv'
<1>1. UNCHANGED <<pc, time, end, sol, file>> /\ Ranks' = Ranks
  BY DEF vars, Ranks
<1>2. \A r \in Ranks : Times(r)' = Times(r)
  BY <1>1, NothingWritten
<1>3. ClockInv'
  BY <1>1 DEF TimesInv, ClockInv, SolFields
<1>4. \A r \in Ranks : TimesKept(r)'
  BY <1>1, <1>2 DEF TimesInv, TimesKept, Broken, Alive, Reached, SameSol, Increasing,
                    Running, Looping
<1> QED
  BY <1>1, <1>3, <1>4 DEF TimesInv

LEMMA TimesNext == Inv /\ TimesInv /\ [Next]_allvars => TimesInv'
<1> SUFFICES ASSUME Inv, TimesInv, [Next]_allvars PROVE TimesInv'
  OBVIOUS
<1>1. CASE UNCHANGED vars
  BY <1>1, TimesUnchanged
<1>2. CASE Write
  <2>1. CASE \E b \in Movers \cup {0}, to \in Ranks,
                gone, cracked \in SUBSET Parents, parts \in Parts :
                gone \cap cracked = {} /\ Step(b, to, gone, cracked, parts)
    BY <2>1, StepTimes
  <2>2. CASE \E S \in SUBSET Parents, create, go \in BOOLEAN : Callback(S, create, go)
    BY <2>2, CallbackTimes
  <2>3. CASE \E S \in SUBSET Ranks \ {{}} :
                \E lost \in [Ranks \ S -> Losses] : SOLFEC_Abort(S, lost)
    BY <2>3, AbortTimes
  <2> QED
    BY <1>2, <2>1, <2>2, <2>3, OutputCommandTimes, CallbackCommandTimes, RunTimes,
       OutputTimes, RecordLastTimes, DestroyTimes, CloseKeepsTimes, CrashTimes DEF Write
<1>3. CASE Read
  <2>1. UNCHANGED vars
    BY <1>3 DEF Read, Open, SOLFEC_Seek_To, SOLFEC_Forward, SOLFEC_Backward,
                SOLFEC_Time_Skip, SOLFEC_History, Becomes, Stopped, allvars
  <2> QED
    BY <2>1, TimesUnchanged
<1> QED
  BY <1>1, <1>2, <1>3 DEF Next, allvars

(* The ranks stay in step although each decides by its own times: their    *)
(* files have frames of the same times, but for those whose process has    *)
(* died, and a callback is due on all or none, for any intervals that the  *)
(* script gives to the ranks.                                              *)
THEOREM RanksInStepHolds == Spec => []RanksInStep
<1>1. Inv /\ TimesInv => RanksInStep
  BY TimesImply
<1> QED
  BY InitInv, StepInv, TimesInit, TimesNext, <1>1, PTL DEF Spec

(* Every RUN leaves a frame of the state it has reached, and unless the    *)
(* program is aborted no state is recorded twice, for any durations and    *)
(* intervals.                                                              *)
THEOREM RecordedOnceHolds == Spec => []RecordedOnce
<1>1. Inv /\ TimesInv => RecordedOnce
  BY TimesImply
<1> QED
  BY InitInv, StepInv, TimesInit, TimesNext, <1>1, PTL DEF Spec

-----------------------------------------------------------------------------
(* Induction and recursion, with sets and functions in place of operators. *)

NatLess == {p \in Nat \X Nat : p[1] < p[2]}

LEMMA NatLessWellFounded == IsWellFoundedOn(NatLess, Nat)
<1>1. NatLess = OpToRel(<, Nat)
  BY Zenon DEF OpToRel, NatLess
<1> QED
  BY ONLY <1>1, NatLessThanWellFounded, Zenon

LEMMA SetInduction ==
  ASSUME NEW S, 0 \in S, \A n \in Nat : n \in S => n + 1 \in S
  PROVE  \A n \in Nat : n \in S
<1> SUFFICES ASSUME Nat \ S # {} PROVE FALSE
  OBVIOUS
<1>1. PICK n \in Nat \ S : \A m \in Nat \ S : ~ (<<m, n>> \in NatLess)
  BY NatLessWellFounded, WFMin
<1>2. n - 1 \in Nat /\ n - 1 < n
  OBVIOUS
<1>3. <<n - 1, n>> \in Nat \X Nat
  BY <1>2
<1>4. <<n - 1, n>> \in NatLess
  BY <1>2, <1>3 DEF NatLess
<1>5. n - 1 \in S
  BY <1>1, <1>2, <1>4
<1> QED
  BY <1>1, <1>2, <1>5

(* f is the function on 0 .. N that begins with a and goes on with step.   *)
Recurs(f, N, T, a, step) ==
  /\ f \in [0 .. N -> T]
  /\ f[0] = a
  /\ \A n \in 1 .. N : f[n] = step[<<n, f[n - 1]>>]

LEMMA SetRecursion ==
  ASSUME NEW N \in Nat, NEW T, NEW a \in T,
         NEW step \in [(1 .. N) \X T -> T]
  PROVE  \E f : Recurs(f, N, T, a, step)
<1> DEFINE S == {k \in Nat : k <= N => \E f : Recurs(f, k, T, a, step)}
<1>1. 0 \in S
  <2>1. Recurs([n \in 0 .. 0 |-> a], 0, T, a, step)
    BY DEF Recurs
  <2> QED
    BY <2>1
<1>2. ASSUME NEW k \in Nat, k \in S
      PROVE  k + 1 \in S
  <2> SUFFICES ASSUME k + 1 <= N
               PROVE  \E g : Recurs(g, k + 1, T, a, step)
    OBVIOUS
  <2>0. PICK f : Recurs(f, k, T, a, step)
    BY <1>2
  <2>1. /\ f \in [0 .. k -> T] /\ f[0] = a
        /\ \A n \in 1 .. k : f[n] = step[<<n, f[n - 1]>>]
    BY <2>0 DEF Recurs
  <2> DEFINE g == [n \in 0 .. (k + 1) |->
                     IF n <= k THEN f[n] ELSE step[<<k + 1, f[k]>>]]
  <2>2. step[<<k + 1, f[k]>>] \in T
    <3>1. f[k] \in T
      BY <2>1
    <3> QED
      BY <3>1
  <2>3. g \in [0 .. (k + 1) -> T] /\ g[0] = a
    BY <2>1, <2>2
  <2>4. ASSUME NEW n \in 1 .. (k + 1)
        PROVE  g[n] = step[<<n, g[n - 1]>>]
    <3>1. n - 1 \in 0 .. k /\ g[n - 1] = f[n - 1]
      OBVIOUS
    <3>2. CASE n = k + 1
      <4>1. g[k + 1] = step[<<k + 1, f[k]>>] /\ n - 1 = k
        BY <3>2
      <4> HIDE DEF g
      <4> QED
        BY <3>1, <3>2, <4>1
    <3>3. CASE n # k + 1
      <4>1. n \in 1 .. k
        BY <3>3
      <4> QED
        BY <2>1, <3>1, <4>1
    <3> QED
      BY <3>2, <3>3
  <2> QED
    BY <2>3, <2>4 DEF Recurs
<1> HIDE DEF S
<1>3. N \in S
  BY <1>1, <1>2, SetInduction
<1> QED
  BY <1>3 DEF S

LEMMA AppendRange ==
  ASSUME NEW T, NEW s \in Seq(T), NEW e \in T
  PROVE  Range(Append(s, e)) = Range(s) \cup {e}
<1>1. DOMAIN Append(s, e) = 1 .. (Len(s) + 1) /\ DOMAIN s = 1 .. Len(s)
  OBVIOUS
<1>2. /\ \A i \in 1 .. Len(s) : Append(s, e)[i] = s[i]
      /\ Append(s, e)[Len(s) + 1] = e
      /\ Len(s) \in Nat
  OBVIOUS
<1> QED
  BY <1>1, <1>2 DEF Range

(* The lists that lead to a list restricted to the members in a set.       *)
ChosenSteps(f, list, S) ==
  /\ f[0] = <<>>
  /\ \A n \in 1 .. Len(list) :
       f[n] = IF list[n] \in S THEN Append(f[n - 1], list[n]) ELSE f[n - 1]

LEMMA ChosenRecursion ==
  ASSUME NEW T, NEW list \in Seq(T), NEW S
  PROVE  \E f : ChosenSteps(f, list, S) /\ Chosen(list, S) = f[Len(list)]
<1> DEFINE N == Len(list)
           Next1(f, n) == IF list[n] \in S THEN Append(f[n - 1], list[n])
                         ELSE f[n - 1]
           Is(f) == f = [n \in 0 .. N |-> IF n = 0 THEN <<>> ELSE Next1(f, n)]
           upto == CHOOSE f : Is(f)
           step == [p \in (1 .. N) \X Seq(T) |->
                      IF list[p[1]] \in S THEN Append(p[2], list[p[1]]) ELSE p[2]]
<1>1. N \in Nat /\ \A n \in 1 .. N : list[n] \in T
  OBVIOUS
<1>2. Is(upto)
  <2>1. step \in [(1 .. N) \X Seq(T) -> Seq(T)]
    <3> SUFFICES ASSUME NEW n \in 1 .. N, NEW s \in Seq(T)
                 PROVE  (IF list[n] \in S THEN Append(s, list[n]) ELSE s) \in Seq(T)
      OBVIOUS
    <3> QED
      BY <1>1
  <2>2. <<>> \in Seq(T)
    OBVIOUS
  <2> HIDE DEF step
  <2>3. PICK f : Recurs(f, N, Seq(T), <<>>, step)
    BY <1>1, <2>1, <2>2, SetRecursion
  <2>6. /\ f \in [0 .. N -> Seq(T)] /\ f[0] = <<>>
        /\ \A n \in 1 .. N : f[n] = step[<<n, f[n - 1]>>]
    BY <2>3 DEF Recurs
  <2>4. ASSUME NEW n \in 1 .. N
        PROVE  f[n] = Next1(f, n)
    <3>1. f[n - 1] \in Seq(T)
      <4>1. n - 1 \in 0 .. N
        BY <1>1
      <4> QED
        BY <2>6, <4>1
    <3>2. <<n, f[n - 1]>> \in (1 .. N) \X Seq(T)
      BY <3>1
    <3>3. step[<<n, f[n - 1]>>] = Next1(f, n)
      BY <3>2 DEF step
    <3> QED
      BY <2>6, <3>3
  <2>5. Is(f)
    <3>1. f = [n \in 0 .. N |-> f[n]]
      BY <2>6
    <3>2. ASSUME NEW n \in 0 .. N
          PROVE  f[n] = IF n = 0 THEN <<>> ELSE Next1(f, n)
      <4>1. n = 0 \/ n \in 1 .. N
        BY <1>1
      <4> HIDE DEF Next1
      <4> QED
        BY <2>6, <2>4, <4>1
    <3> QED
      BY <3>1, <3>2
  <2> QED
    BY <2>5
<1>3. Chosen(list, S) = upto[N]
  BY DEF Chosen
<1> HIDE DEF upto
<1>4. /\ upto[0] = <<>>
      /\ \A n \in 1 .. N : upto[n] = Next1(upto, n)
  <2> HIDE DEF N
  <2>1. 0 \in 0 .. N /\ \A n \in 1 .. N : n \in 0 .. N /\ n # 0
    BY <1>1
  <2> QED
    BY <1>2, <2>1
<1> QED
  BY <1>3, <1>4 DEF ChosenSteps

(* A list restricted to the members in a set.                              *)
LEMMA ChosenList ==
  ASSUME NEW T, NEW list \in Seq(T), NEW S
  PROVE  /\ Chosen(list, S) \in Seq(T)
         /\ Range(Chosen(list, S)) = Range(list) \cap S
<1>0. PICK upto : ChosenSteps(upto, list, S) /\ Chosen(list, S) = upto[Len(list)]
  BY ChosenRecursion
<1> DEFINE N == Len(list)
<1>1. N \in Nat /\ \A n \in 1 .. N : list[n] \in T
  OBVIOUS
<1>3. Chosen(list, S) = upto[N]
  BY <1>0
<1>4. /\ upto[0] = <<>>
      /\ \A n \in 1 .. N : upto[n] = IF list[n] \in S
                                    THEN Append(upto[n - 1], list[n])
                                    ELSE upto[n - 1]
  BY <1>0 DEF ChosenSteps
<1> DEFINE Met(n) == {list[i] : i \in 1 .. n} \cap S
           Good(n) == upto[n] \in Seq(T) /\ Range(upto[n]) = Met(n)
           G == {n \in Nat : n <= N => Good(n)}
<1>5. 0 \in G
  <2>1. Range(<<>>) = {} /\ <<>> \in Seq(T)
    BY DEF Range
  <2>2. Met(0) = {}
    OBVIOUS
  <2> QED
    BY <1>4, <2>1, <2>2
<1>6. ASSUME NEW n \in Nat, n \in G
      PROVE  n + 1 \in G
  <2> SUFFICES ASSUME n + 1 <= N PROVE Good(n + 1)
    OBVIOUS
  <2> DEFINE s == upto[n]
             e == list[n + 1]
  <2>1. s \in Seq(T) /\ Range(s) = Met(n) /\ e \in T
    BY <1>1, <1>6
  <2>2. upto[n + 1] = IF e \in S THEN Append(s, e) ELSE s
    BY <1>4
  <2>3. {list[i] : i \in 1 .. (n + 1)} = {list[i] : i \in 1 .. n} \cup {e}
    <3>1. \A i : i \in 1 .. (n + 1) <=> i \in 1 .. n \/ i = n + 1
      OBVIOUS
    <3> QED
      BY <3>1
  <2>4. Range(Append(s, e)) = Range(s) \cup {e}
    <3> HIDE DEF s, e
    <3> QED
      BY <2>1, AppendRange
  <2> QED
    BY <2>1, <2>2, <2>3, <2>4
<1> HIDE DEF G
<1>7. N \in G
  BY <1>1, <1>5, <1>6, SetInduction
<1>8. Range(list) = {list[i] : i \in 1 .. N}
  BY DEF Range
<1> QED
  BY <1>1, <1>3, <1>7, <1>8 DEF G

(* The lists that lead to a list of lists made one list.                   *)
FlattenSteps(f, seqs) ==
  \A n \in 1 .. Len(seqs) :
    f[n] = IF n = 1 THEN seqs[n] ELSE f[n - 1] \o seqs[n]

LEMMA FlattenRecursion ==
  ASSUME NEW T, NEW seqs \in Seq(Seq(T)), Len(seqs) # 0
  PROVE  \E f : FlattenSteps(f, seqs) /\ FlattenSeq(seqs) = f[Len(seqs)]
<1> DEFINE N == Len(seqs)
           Next1(f, n) == IF n = 1 THEN seqs[n] ELSE f[n - 1] \o seqs[n]
           Is(f) == f = [n \in 1 .. N |-> Next1(f, n)]
           flatten == CHOOSE f : Is(f)
           step == [p \in (1 .. N) \X Seq(T) |->
                      IF p[1] = 1 THEN seqs[p[1]] ELSE p[2] \o seqs[p[1]]]
<1>1. N \in Nat /\ \A n \in 1 .. N : seqs[n] \in Seq(T)
  OBVIOUS
<1>2. Is(flatten)
  <2>1. step \in [(1 .. N) \X Seq(T) -> Seq(T)]
    <3> SUFFICES ASSUME NEW n \in 1 .. N, NEW s \in Seq(T)
                 PROVE  (IF n = 1 THEN seqs[n] ELSE s \o seqs[n]) \in Seq(T)
      OBVIOUS
    <3>1. seqs[n] \in Seq(T)
      BY <1>1
    <3>2. s \o seqs[n] \in Seq(T)
      BY <3>1
    <3> QED
      BY <3>1, <3>2
  <2>2. <<>> \in Seq(T)
    OBVIOUS
  <2> HIDE DEF step
  <2>3. PICK g : Recurs(g, N, Seq(T), <<>>, step)
    BY <1>1, <2>1, <2>2, SetRecursion
  <2>4. /\ g \in [0 .. N -> Seq(T)]
        /\ \A n \in 1 .. N : g[n] = step[<<n, g[n - 1]>>]
    BY <2>3 DEF Recurs
  <2> DEFINE f == [n \in 1 .. N |-> g[n]]
  <2>5. ASSUME NEW n \in 1 .. N
        PROVE  f[n] = Next1(f, n)
    <3>1. n - 1 \in 0 .. N /\ (n # 1 => n - 1 \in 1 .. N)
      BY <1>1
    <3>2. <<n, g[n - 1]>> \in (1 .. N) \X Seq(T)
      BY <2>4, <3>1
    <3>3. step[<<n, g[n - 1]>>]
            = IF n = 1 THEN seqs[n] ELSE g[n - 1] \o seqs[n]
      BY <3>2 DEF step
    <3>4. n # 1 => f[n - 1] = g[n - 1]
      BY <3>1
    <3> QED
      BY <2>4, <3>3, <3>4
  <2>6. Is(f)
    <3> HIDE DEF Next1
    <3>1. f = [n \in 1 .. N |-> f[n]]
      OBVIOUS
    <3> HIDE DEF f
    <3> QED
      BY <2>5, <3>1
  <2> QED
    BY <2>6
<1> HIDE DEF flatten
<1>3. \A n \in 1 .. N : flatten[n] = Next1(flatten, n)
  <2> HIDE DEF N, Next1
  <2> QED
    BY <1>2
<1>4. FlattenSeq(seqs) = flatten[N]
  BY DEF FlattenSeq, flatten
<1> QED
  BY <1>3, <1>4 DEF FlattenSteps

(* A list of lists made one list.                                          *)
LEMMA FlattenList ==
  ASSUME NEW T, NEW seqs \in Seq(Seq(T))
  PROVE  FlattenSeq(seqs) \in Seq(T)
<1> DEFINE N == Len(seqs)
<1>1. N \in Nat /\ \A n \in 1 .. N : seqs[n] \in Seq(T)
  OBVIOUS
<1>2. CASE Len(seqs) = 0
  <2>1. seqs = <<>>
    BY <1>2
  <2> QED
    BY <1>2, <2>1 DEF FlattenSeq
<1>3. CASE Len(seqs) # 0
  <2>0. PICK flatten : /\ FlattenSteps(flatten, seqs)
                       /\ FlattenSeq(seqs) = flatten[Len(seqs)]
    BY <1>3, FlattenRecursion
  <2> DEFINE G == {n \in Nat : n \in 1 .. N => flatten[n] \in Seq(T)}
  <2>1. 0 \in G
    BY <1>1
  <2>2. ASSUME NEW n \in Nat, n \in G
        PROVE  n + 1 \in G
    <3> SUFFICES ASSUME n + 1 \in 1 .. N PROVE flatten[n + 1] \in Seq(T)
      OBVIOUS
    <3>1. seqs[n + 1] \in Seq(T)
      BY <1>1
    <3>2. flatten[n + 1] = IF n + 1 = 1 THEN seqs[n + 1]
                           ELSE flatten[n] \o seqs[n + 1]
      BY <2>0 DEF FlattenSteps
    <3>3. n + 1 # 1 => flatten[n] \in Seq(T)
      BY <1>1, <2>2
    <3> QED
      BY <3>1, <3>2, <3>3
  <2> HIDE DEF G
  <2>3. N \in G
    BY <1>1, <2>1, <2>2, SetInduction
  <2> QED
    BY <1>1, <1>3, <2>0, <2>3 DEF G
<1> QED
  BY <1>2, <1>3

-----------------------------------------------------------------------------
(* The bodies.                                                             *)

(* What a rank knows of bodies.                                            *)
DomFields(d) ==
  d = [bid |-> d.bid, all |-> d.all, bod |-> d.bod, newb |-> d.newb,
       sparebid |-> d.sparebid]

Dealt(d) == 1 .. (d.bid - 1)

Sound(d) ==
  /\ DomFields(d)
  /\ d.bid \in Nat \ {0}
  /\ DOMAIN d.all \subseteq Dealt(d)
  /\ d.sparebid \subseteq Dealt(d)
  /\ d.bod \in Seq(Dealt(d))

(* d and e know the same bodies, up to removals on the way.                *)
SameBodies(d, e) ==
  /\ d.bid = e.bid
  /\ \A b \in DOMAIN d.all :
       (b \in DOMAIN e.all /\ d.all[b] = e.all[b]) \/ b \in e.sparebid

Agreed(doms) ==
  /\ \A r \in Ranks : Sound(doms[r])
  /\ \A r, q \in Ranks :
       /\ SameBodies(doms[r], doms[q])
       /\ r # q => Range(doms[r].bod) \cap Range(doms[q].bod) = {}

LEMMA SeqRange ==
  ASSUME NEW T, NEW s \in Seq(T)
  PROVE  /\ Range(s) \subseteq T
         /\ \A U : Range(s) \subseteq U => s \in Seq(U)
<1>1. Len(s) \in Nat /\ DOMAIN s = 1 .. Len(s) /\ \A i \in 1 .. Len(s) : s[i] \in T
  OBVIOUS
<1>2. Range(s) \subseteq T
  BY <1>1 DEF Range
<1>3. ASSUME NEW U, Range(s) \subseteq U
      PROVE  s \in Seq(U)
  <2>1. \A i \in 1 .. Len(s) : s[i] \in U
    BY <1>1, <1>3 DEF Range
  <2>2. s \in [1 .. Len(s) -> U]
    BY <1>1, <2>1
  <2> QED
    BY <1>1, <2>2
<1> QED
  BY <1>2, <1>3

LEMMA ConcatRange ==
  ASSUME NEW T, NEW s \in Seq(T), NEW t \in Seq(T)
  PROVE  s \o t \in Seq(T) /\ Range(s \o t) = Range(s) \cup Range(t)
<1>1. /\ Len(s) \in Nat /\ DOMAIN s = 1 .. Len(s)
      /\ Len(t) \in Nat /\ DOMAIN t = 1 .. Len(t)
      /\ s \o t \in Seq(T) /\ DOMAIN (s \o t) = 1 .. (Len(s) + Len(t))
  OBVIOUS
<1>2. /\ \A i \in 1 .. Len(s) : (s \o t)[i] = s[i]
      /\ \A i \in 1 .. Len(t) : (s \o t)[Len(s) + i] = t[i]
  OBVIOUS
<1>3. ASSUME NEW i \in 1 .. (Len(s) + Len(t))
      PROVE  (s \o t)[i] \in Range(s) \cup Range(t)
  <2>1. CASE i <= Len(s)
    <3>1. i \in 1 .. Len(s)
      BY <1>1, <2>1
    <3> QED
      BY <1>1, <1>2, <3>1 DEF Range
  <2>2. CASE ~ (i <= Len(s))
    <3>1. i - Len(s) \in 1 .. Len(t) /\ Len(s) + (i - Len(s)) = i
      BY <1>1, <2>2
    <3>2. (s \o t)[i] = t[i - Len(s)]
      BY <1>2, <3>1
    <3> QED
      BY <1>1, <3>1, <3>2 DEF Range
  <2> QED
    BY <2>1, <2>2
<1>4. ASSUME NEW x \in Range(s) \cup Range(t)
      PROVE  x \in Range(s \o t)
  <2>1. ASSUME NEW i \in 1 .. Len(s), x = s[i]
        PROVE  x \in Range(s \o t)
    <3>1. i \in 1 .. (Len(s) + Len(t)) /\ (s \o t)[i] = x
      BY <1>1, <1>2, <2>1
    <3> QED
      BY <1>1, <3>1 DEF Range
  <2>2. ASSUME NEW i \in 1 .. Len(t), x = t[i]
        PROVE  x \in Range(s \o t)
    <3>1. Len(s) + i \in 1 .. (Len(s) + Len(t)) /\ (s \o t)[Len(s) + i] = x
      BY <1>1, <1>2, <2>2
    <3> QED
      BY <1>1, <3>1 DEF Range
  <2> QED
    BY <1>1, <2>1, <2>2 DEF Range
<1> QED
  BY <1>1, <1>3, <1>4 DEF Range

LEMMA DroppedList ==
  ASSUME NEW T, NEW list \in Seq(T), NEW S
  PROVE  /\ Dropped(list, S) \in Seq(T)
         /\ Range(Dropped(list, S)) = Range(list) \ S
<1>1. /\ Chosen(list, Range(list) \ S) \in Seq(T)
      /\ Range(Chosen(list, Range(list) \ S)) = Range(list) \cap (Range(list) \ S)
  BY ChosenList
<1> QED
  BY <1>1 DEF Dropped

LEMMA DownwardsList ==
  ASSUME NEW first \in Nat, NEW n \in Nat
  PROVE  /\ Downwards(first, n) \in Seq(first .. (first + n - 1))
         /\ Range(Downwards(first, n)) = first .. (first + n - 1)
<1> DEFINE s == Downwards(first, n)
<1>1. s \in [1 .. n -> first .. (first + n - 1)]
  BY DEF Downwards
<1>2. \A b \in first .. (first + n - 1) :
        first + n - b \in 1 .. n /\ s[first + n - b] = b
  BY DEF Downwards
<1>3. DOMAIN s = 1 .. n
  BY <1>1
<1>4. \A i \in 1 .. n : s[i] \in first .. (first + n - 1)
  BY <1>1
<1>5. s \in Seq(first .. (first + n - 1))
  BY <1>1
<1> HIDE DEF s
<1>6. Range(s) = first .. (first + n - 1)
  BY <1>2, <1>3, <1>4 DEF Range
<1> QED
  BY <1>5, <1>6 DEF s

(* What the operations do to what one rank knows.                          *)
LEMMA RemovedDom ==
  ASSUME NEW d, Sound(d), NEW S \in SUBSET Dealt(d)
  PROVE  /\ Sound(Removed(d, S))
         /\ Removed(d, S).bid = d.bid
         /\ Removed(d, S).all = Without(d.all, S)
         /\ Range(Removed(d, S).bod) = Range(d.bod) \ S
         /\ Removed(d, S).sparebid = d.sparebid \cup S
<1> DEFINE e == Removed(d, S)
<1>1. /\ e.bid = d.bid /\ e.all = Without(d.all, S)
      /\ e.bod = Dropped(d.bod, S) /\ e.sparebid = d.sparebid \cup S
      /\ DomFields(e)
  <2>1. DomFields(d)
    BY DEF Sound
  <2>2. e = [bid |-> d.bid, all |-> Without(d.all, S), bod |-> Dropped(d.bod, S),
             newb |-> d.newb \ S, sparebid |-> d.sparebid \cup S]
    <3>1. e = [d EXCEPT !.all = Without(d.all, S), !.bod = Dropped(d.bod, S),
                        !.newb = d.newb \ S, !.sparebid = d.sparebid \cup S]
      BY DEF Removed
    <3> HIDE DEF e
    <3> QED
      BY <2>1, <3>1 DEF DomFields
  <2> HIDE DEF e
  <2> QED
    BY <2>2 DEF DomFields
<1>2. Dealt(e) = Dealt(d)
  BY <1>1 DEF Dealt
<1>3. e.bod \in Seq(Dealt(d)) /\ Range(e.bod) = Range(d.bod) \ S
  BY <1>1, DroppedList DEF Sound
<1>4. DOMAIN e.all = DOMAIN d.all \ S
  BY <1>1 DEF Without
<1> HIDE DEF e
<1>5. Sound(e)
  BY <1>1, <1>2, <1>3, <1>4 DEF Sound
<1> QED
  BY <1>1, <1>3, <1>5 DEF e

(* The ids of new bodies whose parents are on rank q.                      *)
New(d, list) == d.bid .. (d.bid + Len(list) - 1)
Mine(d, q, list) == {b \in New(d, list) : list[b - d.bid + 1].rank = q}

LEMMA InsertedDom ==
  ASSUME NEW d, Sound(d), NEW q, NEW T, NEW list \in Seq(T)
  PROVE  /\ Sound(Inserted(d, q, list))
         /\ Inserted(d, q, list).bid = d.bid + Len(list)
         /\ DOMAIN Inserted(d, q, list).all = DOMAIN d.all \cup New(d, list)
         /\ \A b \in DOMAIN d.all : Inserted(d, q, list).all[b] = d.all[b]
         /\ \A b \in New(d, list) :
              Inserted(d, q, list).all[b] = list[b - d.bid + 1].what
         /\ Range(Inserted(d, q, list).bod) = Mine(d, q, list) \cup Range(d.bod)
         /\ Inserted(d, q, list).sparebid = d.sparebid
<1> DEFINE e == Inserted(d, q, list)
           n == Len(list)
           front == Chosen(Downwards(d.bid, n), Mine(d, q, list))
<1>1. /\ e.bid = d.bid + n
      /\ e.all = [b \in DOMAIN d.all \cup New(d, list) |->
                  IF b \in New(d, list) THEN list[b - d.bid + 1].what ELSE d.all[b]]
      /\ e.bod = front \o d.bod
      /\ e.sparebid = d.sparebid
      /\ DomFields(e)
  <2> DEFINE all == [b \in DOMAIN d.all \cup New(d, list) |->
                  IF b \in New(d, list) THEN list[b - d.bid + 1].what ELSE d.all[b]]
  <2>1. DomFields(d)
    BY DEF Sound
  <2>2. e = [d EXCEPT !.all = all, !.bod = front \o d.bod,
                      !.newb = d.newb \cup Mine(d, q, list), !.bid = d.bid + n]
    BY DEF Inserted, New, Mine
  <2> HIDE DEF all, front, e
  <2>3. e = [bid |-> d.bid + n, all |-> all, bod |-> front \o d.bod,
             newb |-> d.newb \cup Mine(d, q, list), sparebid |-> d.sparebid]
    BY <2>1, <2>2 DEF DomFields
  <2>4. /\ e.bid = d.bid + n /\ e.all = all /\ e.bod = front \o d.bod
        /\ e.sparebid = d.sparebid /\ DomFields(e)
    BY <2>3 DEF DomFields
  <2> QED
    BY <2>4 DEF all
<1>2. n \in Nat /\ d.bid \in Nat \ {0}
  BY DEF Sound
<1>3. Dealt(d) \subseteq Dealt(e) /\ New(d, list) \subseteq Dealt(e)
      /\ Dealt(d) \cap New(d, list) = {}
  BY <1>1, <1>2 DEF Dealt, New
<1> HIDE DEF e
<1>4. DOMAIN e.all = DOMAIN d.all \cup New(d, list)
  BY <1>1
<1>5. \A b \in DOMAIN d.all : e.all[b] = d.all[b]
  <2>1. \A b \in DOMAIN d.all : b \notin New(d, list)
    BY <1>3 DEF Sound
  <2> QED
    BY <1>1, <2>1
<1>6. \A b \in New(d, list) : e.all[b] = list[b - d.bid + 1].what
  BY <1>1
<1>7. front \in Seq(New(d, list)) /\ Range(front) = Mine(d, q, list)
  <2>1. /\ Downwards(d.bid, n) \in Seq(New(d, list))
        /\ Range(Downwards(d.bid, n)) = New(d, list)
    BY <1>2, DownwardsList DEF New
  <2>2. /\ front \in Seq(New(d, list))
        /\ Range(front) = New(d, list) \cap Mine(d, q, list)
    BY <2>1, ChosenList
  <2> QED
    BY <2>2 DEF Mine
<1> HIDE DEF front
<1>8. front \in Seq(Dealt(e)) /\ d.bod \in Seq(Dealt(e))
  <2>1. Range(front) \subseteq Dealt(e)
    BY <1>3, <1>7, SeqRange
  <2>2. Range(d.bod) \subseteq Dealt(e)
    BY <1>3, SeqRange DEF Sound
  <2> QED
    BY <1>7, <2>1, <2>2, SeqRange DEF Sound
<1>9. e.bod \in Seq(Dealt(e)) /\ Range(e.bod) = Mine(d, q, list) \cup Range(d.bod)
  BY <1>1, <1>7, <1>8, ConcatRange
<1>10. Sound(e)
  <2>1. e.bid \in Nat \ {0}
    BY <1>1, <1>2
  <2>2. DOMAIN e.all \subseteq Dealt(e) /\ e.sparebid \subseteq Dealt(e)
    BY <1>1, <1>3, <1>4 DEF Sound
  <2> QED
    BY <1>1, <1>9, <2>1, <2>2 DEF Sound
<1> QED
  BY <1>1, <1>4, <1>5, <1>6, <1>9, <1>10 DEF e

LEMMA WithoutFunction ==
  ASSUME NEW f, NEW S
  PROVE  /\ DOMAIN Without(f, S) = DOMAIN f \ S
         /\ \A b \in DOMAIN f \ S : Without(f, S)[b] = f[b]
BY DEF Without

(* What they do to what all ranks know.                                    *)
LEMMA AgreedRemoved ==
  ASSUME NEW doms, Agreed(doms), NEW L,
         \A r \in Ranks : L[r] \subseteq Dealt(doms[r])
  PROVE  Agreed([r \in Ranks |-> Removed(doms[r], L[r])])
<1> DEFINE e == [r \in Ranks |-> Removed(doms[r], L[r])]
<1>1. ASSUME NEW r \in Ranks
      PROVE  /\ Sound(e[r])
             /\ e[r].bid = doms[r].bid
             /\ e[r].all = Without(doms[r].all, L[r])
             /\ Range(e[r].bod) = Range(doms[r].bod) \ L[r]
             /\ e[r].sparebid = doms[r].sparebid \cup L[r]
  BY RemovedDom DEF Agreed
<1> HIDE DEF e
<1>2. ASSUME NEW r \in Ranks, NEW q \in Ranks
      PROVE  SameBodies(e[r], e[q])
  <2>1. SameBodies(doms[r], doms[q])
    BY DEF Agreed
  <2> SUFFICES ASSUME NEW b \in DOMAIN e[r].all
               PROVE  \/ b \in DOMAIN e[q].all /\ e[r].all[b] = e[q].all[b]
                      \/ b \in e[q].sparebid
    BY <1>1, <2>1 DEF SameBodies
  <2>2. b \in DOMAIN doms[r].all /\ b \notin L[r] /\ e[r].all[b] = doms[r].all[b]
    BY <1>1, ZenonT(40) DEF Without
  <2>3. CASE b \in DOMAIN doms[q].all /\ doms[r].all[b] = doms[q].all[b]
    BY <1>1, <2>2, <2>3, ZenonT(30) DEF Without
  <2>4. CASE b \in doms[q].sparebid
    BY <1>1, <2>4
  <2> QED
    BY <2>1, <2>2, <2>3, <2>4 DEF SameBodies
<1>3. ASSUME NEW r \in Ranks, NEW q \in Ranks, r # q
      PROVE  Range(e[r].bod) \cap Range(e[q].bod) = {}
  BY <1>1, <1>3 DEF Agreed
<1>4. Agreed(e)
  BY <1>1, <1>2, <1>3 DEF Agreed
<1> QED
  BY <1>4 DEF e

LEMMA AgreedInserted ==
  ASSUME NEW doms, Agreed(doms), NEW T, NEW list \in Seq(T)
  PROVE  Agreed([r \in Ranks |-> Inserted(doms[r], r, list)])
<1> DEFINE e == [r \in Ranks |-> Inserted(doms[r], r, list)]
<1>1. ASSUME NEW r \in Ranks
      PROVE  /\ Sound(e[r])
             /\ e[r].bid = doms[r].bid + Len(list)
             /\ DOMAIN e[r].all = DOMAIN doms[r].all \cup New(doms[r], list)
             /\ \A b \in DOMAIN doms[r].all : e[r].all[b] = doms[r].all[b]
             /\ \A b \in New(doms[r], list) :
                  e[r].all[b] = list[b - doms[r].bid + 1].what
             /\ Range(e[r].bod) = Mine(doms[r], r, list) \cup Range(doms[r].bod)
             /\ e[r].sparebid = doms[r].sparebid
  BY InsertedDom DEF Agreed
<1> HIDE DEF e
<1>2. ASSUME NEW r \in Ranks, NEW q \in Ranks
      PROVE  doms[r].bid = doms[q].bid /\ New(doms[r], list) = New(doms[q], list)
  BY DEF Agreed, SameBodies, New
<1>3. ASSUME NEW r \in Ranks, NEW q \in Ranks
      PROVE  SameBodies(e[r], e[q])
  <2> SUFFICES ASSUME NEW b \in DOMAIN e[r].all
               PROVE  \/ b \in DOMAIN e[q].all /\ e[r].all[b] = e[q].all[b]
                      \/ b \in e[q].sparebid
    BY <1>1, <1>2 DEF SameBodies
  <2>1. CASE b \in New(doms[r], list)
    BY <1>1, <1>2, <2>1
  <2>2. CASE b \in DOMAIN doms[r].all
    <3>1. \/ b \in DOMAIN doms[q].all /\ doms[r].all[b] = doms[q].all[b]
          \/ b \in doms[q].sparebid
      BY <2>2 DEF Agreed, SameBodies
    <3> QED
      BY <1>1, <2>2, <3>1
  <2> QED
    BY <1>1, <2>1, <2>2
<1>4. ASSUME NEW r \in Ranks, NEW q \in Ranks, r # q
      PROVE  Range(e[r].bod) \cap Range(e[q].bod) = {}
  <2>1. Range(doms[r].bod) \cap Range(doms[q].bod) = {}
    BY <1>4 DEF Agreed
  <2>2. Mine(doms[r], r, list) \cap Mine(doms[q], q, list) = {}
    BY <1>2, <1>4 DEF Mine
  <2>3. ASSUME NEW s \in Ranks
        PROVE  Range(doms[s].bod) \cap New(doms[r], list) = {}
    <3>1. Range(doms[s].bod) \subseteq Dealt(doms[s])
      BY SeqRange DEF Agreed, Sound
    <3>2. doms[s].bid \in Nat
      BY DEF Agreed, Sound
    <3> QED
      BY <1>2, <3>1, <3>2 DEF Dealt, New
  <2>4. /\ Mine(doms[r], r, list) \subseteq New(doms[r], list)
        /\ Mine(doms[q], q, list) \subseteq New(doms[r], list)
    BY <1>2 DEF Mine
  <2> QED
    BY <1>1, <2>1, <2>2, <2>3, <2>4
<1>5. Agreed(e)
  BY <1>1, <1>3, <1>4 DEF Agreed
<1> QED
  BY <1>5 DEF e

(* manage_bodies: what is spare anywhere is removed everywhere.            *)
LEMMA AgreedSpares ==
  ASSUME NEW doms, Agreed(doms), NEW spare,
         \A r \in Ranks : doms[r].sparebid \subseteq spare,
         \A r \in Ranks : spare \subseteq Dealt(doms[r])
  PROVE  Agreed([r \in Ranks |-> [Removed(doms[r], spare) EXCEPT !.sparebid = {}]])
<1> DEFINE e == [r \in Ranks |-> [Removed(doms[r], spare) EXCEPT !.sparebid = {}]]
<1>1. ASSUME NEW r \in Ranks
      PROVE  /\ Sound(e[r])
             /\ e[r].bid = doms[r].bid
             /\ e[r].all = Without(doms[r].all, spare)
             /\ Range(e[r].bod) = Range(doms[r].bod) \ spare
  <2> DEFINE d == Removed(doms[r], spare)
  <2>2. /\ Sound(d) /\ d.bid = doms[r].bid /\ d.all = Without(doms[r].all, spare)
        /\ Range(d.bod) = Range(doms[r].bod) \ spare
    BY RemovedDom DEF Agreed
  <2>3. e[r] = [d EXCEPT !.sparebid = {}]
    OBVIOUS
  <2> HIDE DEF d, e
  <2>4. e[r] = [bid |-> d.bid, all |-> d.all, bod |-> d.bod, newb |-> d.newb,
                sparebid |-> {}]
    BY <2>2, <2>3 DEF Sound, DomFields
  <2>5. /\ e[r].bid = d.bid /\ e[r].all = d.all /\ e[r].bod = d.bod
        /\ e[r].sparebid = {} /\ DomFields(e[r])
    BY <2>4 DEF DomFields
  <2> QED
    BY <2>2, <2>5 DEF Sound, Dealt
<1> HIDE DEF e
<1>2. ASSUME NEW r \in Ranks, NEW q \in Ranks
      PROVE  SameBodies(e[r], e[q])
  <2> SUFFICES ASSUME NEW b \in DOMAIN e[r].all
               PROVE  b \in DOMAIN e[q].all /\ e[r].all[b] = e[q].all[b]
    <3>1. e[r].bid = e[q].bid
      BY <1>1 DEF Agreed, SameBodies
    <3> QED
      BY <3>1 DEF SameBodies
  <2>1. b \in DOMAIN doms[r].all /\ b \notin spare /\ e[r].all[b] = doms[r].all[b]
    <3>1. e[r].all = Without(doms[r].all, spare)
      BY <1>1
    <3>2. DOMAIN e[r].all = DOMAIN doms[r].all \ spare
      BY <3>1, WithoutFunction
    <3>3. \A x \in DOMAIN doms[r].all \ spare : e[r].all[x] = doms[r].all[x]
      BY ONLY <3>1 DEF Without
    <3> QED
      BY <3>2, <3>3
  <2>2. b \notin doms[q].sparebid
    BY <2>1
  <2>3. b \in DOMAIN doms[q].all /\ doms[r].all[b] = doms[q].all[b]
    BY <2>1, <2>2 DEF Agreed, SameBodies
  <2> QED
    <3>1. e[q].all = Without(doms[q].all, spare)
      BY <1>1
    <3>2. DOMAIN e[q].all = DOMAIN doms[q].all \ spare
      BY <3>1, WithoutFunction
    <3>3. \A x \in DOMAIN doms[q].all \ spare : e[q].all[x] = doms[q].all[x]
      BY ONLY <3>1 DEF Without
    <3> QED
      BY <2>1, <2>3, <3>2, <3>3
<1>3. ASSUME NEW r \in Ranks, NEW q \in Ranks, r # q
      PROVE  Range(e[r].bod) \cap Range(e[q].bod) = {}
  BY <1>1, <1>3 DEF Agreed
<1>4. Agreed(e)
  BY <1>1, <1>2, <1>3 DEF Agreed
<1> QED
  BY <1>4 DEF e

LEMMA PrependRange ==
  ASSUME NEW T, NEW x \in T, NEW t \in Seq(T)
  PROVE  <<x>> \o t \in Seq(T) /\ Range(<<x>> \o t) = {x} \cup Range(t)
<1> DEFINE s == <<x>>
<1>1. s \in Seq(T) /\ Range(s) = {x}
  BY DEF Range
<1> HIDE DEF s
<1>2. s \o t \in Seq(T) /\ Range(s \o t) = {x} \cup Range(t)
  BY <1>1, ConcatRange
<1> QED
  BY <1>2 DEF s

LEMMA AgreedMigrated ==
  ASSUME Agreed(dom), NEW b, NEW to \in Ranks
  PROVE  Agreed(Migrated(b, to))
<1> DEFINE e == Migrated(b, to)
<1>1. CASE b \notin Parents \/ b \in Range(dom[to].bod)
  <2>1. \A r \in Ranks : e[r] = dom[r]
    BY <1>1 DEF Migrated
  <2> HIDE DEF e
  <2>2. Agreed(e)
    BY <2>1 DEF Agreed
  <2> QED
    BY <2>2 DEF e
<1>2. CASE ~ (b \notin Parents \/ b \in Range(dom[to].bod))
  <2>1. PICK p \in Ranks : b \in Range(dom[p].bod)
    BY <1>2 DEF Parents
  <2>2. ASSUME NEW r \in Ranks
        PROVE  b \in Dealt(dom[r]) /\ DomFields(dom[r])
    <3>1. b \in Dealt(dom[p])
      BY <2>1, SeqRange DEF Agreed, Sound
    <3> QED
      BY <3>1 DEF Agreed, Sound, SameBodies, Dealt
  <2>3. \A r \in Ranks : e[r] = IF r = to THEN [dom[r] EXCEPT !.bod = <<b>> \o dom[r].bod]
                               ELSE [dom[r] EXCEPT !.bod = Dropped(dom[r].bod, {b})]
    BY <1>2 DEF Migrated
  <2> HIDE DEF e
  <2>4. ASSUME NEW r \in Ranks
        PROVE  /\ e[r].bid = dom[r].bid /\ e[r].all = dom[r].all
               /\ e[r].sparebid = dom[r].sparebid /\ DomFields(e[r])
               /\ e[r].bod = IF r = to THEN <<b>> \o dom[r].bod
                             ELSE Dropped(dom[r].bod, {b})
    <3> DEFINE list == IF r = to THEN <<b>> \o dom[r].bod
                       ELSE Dropped(dom[r].bod, {b})
    <3>1. e[r] = [dom[r] EXCEPT !.bod = list]
      BY <2>3
    <3> HIDE DEF list
    <3>2. e[r] = [bid |-> dom[r].bid, all |-> dom[r].all, bod |-> list,
                  newb |-> dom[r].newb, sparebid |-> dom[r].sparebid]
      BY <2>2, <3>1 DEF DomFields
    <3>3. /\ e[r].bid = dom[r].bid /\ e[r].all = dom[r].all
          /\ e[r].sparebid = dom[r].sparebid /\ DomFields(e[r]) /\ e[r].bod = list
      BY <3>2 DEF DomFields
    <3> QED
      BY <3>3 DEF list
  <2>5. ASSUME NEW r \in Ranks
        PROVE  /\ e[r].bod \in Seq(Dealt(dom[r]))
               /\ Range(e[r].bod) = IF r = to THEN {b} \cup Range(dom[r].bod)
                                    ELSE Range(dom[r].bod) \ {b}
    <3>1. dom[r].bod \in Seq(Dealt(dom[r]))
      BY DEF Agreed, Sound
    <3>2. CASE r = to
      <4>2. /\ <<b>> \o dom[r].bod \in Seq(Dealt(dom[r]))
            /\ Range(<<b>> \o dom[r].bod) = {b} \cup Range(dom[r].bod)
        BY <2>2, <3>1, PrependRange
      <4> QED
        BY <2>4, <3>2, <4>2
    <3>3. CASE r # to
      <4>1. /\ Dropped(dom[r].bod, {b}) \in Seq(Dealt(dom[r]))
            /\ Range(Dropped(dom[r].bod, {b})) = Range(dom[r].bod) \ {b}
        BY <3>1, DroppedList
      <4> QED
        BY <2>4, <3>3, <4>1
    <3> QED
      BY <3>2, <3>3
  <2>6. ASSUME NEW r \in Ranks
        PROVE  Sound(e[r])
    BY <2>4, <2>5 DEF Agreed, Sound, Dealt
  <2>7. ASSUME NEW r \in Ranks, NEW q \in Ranks
        PROVE  SameBodies(e[r], e[q])
    BY <2>4 DEF Agreed, SameBodies
  <2>8. ASSUME NEW r \in Ranks, NEW q \in Ranks, r # q
        PROVE  Range(e[r].bod) \cap Range(e[q].bod) = {}
    <3>1. Range(dom[r].bod) \cap Range(dom[q].bod) = {}
      BY <2>8 DEF Agreed
    <3>3. CASE r = to
      <4>1. /\ Range(e[r].bod) = {b} \cup Range(dom[r].bod)
            /\ Range(e[q].bod) = Range(dom[q].bod) \ {b}
        BY <2>5, <2>8, <3>3
      <4> QED
        BY <3>1, <4>1
    <3>4. CASE r # to
      <4>1. /\ Range(e[r].bod) = Range(dom[r].bod) \ {b}
            /\ Range(e[q].bod) \subseteq {b} \cup Range(dom[q].bod)
        BY <2>5, <3>4
      <4> QED
        BY <3>1, <4>1
    <3> QED
      BY <3>3, <3>4
  <2>9. Agreed(e)
    BY <2>6, <2>7, <2>8 DEF Agreed
  <2> QED
    BY <2>9 DEF e
<1> QED
  BY <1>1, <1>2

(* The parts of cracked bodies are lists of bodies to insert.              *)
Fragment == [rank : Ranks, what : Nat \X Nat]

LEMMA FragmentList ==
  ASSUME NEW r \in Ranks, NEW bod \in Seq(Nat), NEW cracked, NEW parts \in Nat
  PROVE  Fragments(r, bod, cracked, parts) \in Seq(Fragment)
<1> DEFINE split == Chosen(bod, cracked)
           of(i) == [k \in 1 .. parts |-> [rank |-> r, what |-> <<split[i], k>>]]
           lists == [i \in DOMAIN split |-> of(i)]
<1>1. split \in Seq(Nat)
  BY ChosenList
<1> HIDE DEF split
<1>2. Len(split) \in Nat /\ DOMAIN split = 1 .. Len(split)
      /\ \A i \in 1 .. Len(split) : split[i] \in Nat
  BY <1>1
<1>3. ASSUME NEW i \in 1 .. Len(split)
      PROVE  of(i) \in Seq(Fragment)
  <2>1. \A k \in 1 .. parts : [rank |-> r, what |-> <<split[i], k>>] \in Fragment
    BY <1>2 DEF Fragment
  <2>2. of(i) \in [1 .. parts -> Fragment]
    BY <2>1
  <2> QED
    BY <2>2
<1> HIDE DEF of
<1>4. lists \in [1 .. Len(split) -> Seq(Fragment)]
  BY <1>2, <1>3
<1>5. lists \in Seq(Seq(Fragment))
  BY <1>2, <1>4
<1>6. FlattenSeq(lists) \in Seq(Fragment)
  BY <1>5, FlattenList
<1> QED
  BY <1>6 DEF Fragments, split, of

LEMMA InsertOrderList ==
  ASSUME NEW pending, NEW T, \A r \in Ranks : pending[r] \in Seq(T), NEW q
  PROVE  InsertOrder(pending, q) \in Seq(T)
<1>1. \A i \in 1 .. NP : i - 1 \in Ranks
  BY OutputAssumption DEF Ranks
<1>2. [i \in 1 .. NP |-> pending[i - 1]] \in [1 .. NP -> Seq(T)]
  BY <1>1
<1>3. [i \in 1 .. NP |-> pending[i - 1]] \in Seq(Seq(T))
  BY <1>2, OutputAssumption
<1> QED
  BY <1>3, FlattenList DEF InsertOrder

LEMMA AgreedManaged ==
  ASSUME NEW doms, Agreed(doms), NEW T, NEW pending,
         \A r \in Ranks : pending[r] \in Seq(T)
  PROVE  Agreed(manage_bodies(doms, pending))
<1> DEFINE list == InsertOrder(pending, 0)
           e == [r \in Ranks |-> Inserted(doms[r], r, list)]
           spare == UNION {doms[r].sparebid : r \in Ranks}
<1>1. list \in Seq(T)
  BY InsertOrderList
<1>2. manage_bodies(doms, pending)
        = [r \in Ranks |-> [Removed(e[r], spare) EXCEPT !.sparebid = {}]]
  BY DEF manage_bodies, InsertOrder
<1> HIDE DEF list
<1>3. Agreed(e)
  BY <1>1, AgreedInserted
<1>4. \A r \in Ranks : Sound(doms[r])
  BY DEF Agreed
<1>5. \A r \in Ranks : /\ e[r].sparebid = doms[r].sparebid
                       /\ e[r].bid = doms[r].bid + Len(list)
  BY <1>1, <1>4, InsertedDom
<1> HIDE DEF e
<1>6. \A r \in Ranks : e[r].sparebid \subseteq spare
  BY <1>5
<1>7. \A r \in Ranks : spare \subseteq Dealt(e[r])
  <2>1. \A r, q \in Ranks : doms[q].sparebid \subseteq Dealt(e[r])
    BY <1>3, <1>5 DEF Agreed, Sound, SameBodies, Dealt
  <2> QED
    BY <2>1
<1> HIDE DEF spare
<1>8. Agreed([r \in Ranks |-> [Removed(e[r], spare) EXCEPT !.sparebid = {}]])
  BY <1>3, <1>6, <1>7, AgreedSpares
<1> QED
  BY <1>2, <1>8

LEMMA AgreedChanged ==
  ASSUME Agreed(dom), NEW S, NEW create \in BOOLEAN
  PROVE  Agreed([r \in Ranks |-> Changed(r, S, create)])
<1> DEFINE L == [r \in Ranks |-> S \cap Range(dom[r].bod)]
           d == [r \in Ranks |-> Removed(dom[r], L[r])]
<1>1. \A r \in Ranks : L[r] \subseteq Dealt(dom[r])
  <2>1. \A r \in Ranks : Range(dom[r].bod) \subseteq Dealt(dom[r])
    BY SeqRange DEF Agreed, Sound
  <2> QED
    BY <2>1
<1>2. Agreed(d)
  <2> HIDE DEF L
  <2> QED
    BY <1>1, AgreedRemoved
<1>3. CASE ~create
  <2>1. [r \in Ranks |-> Changed(r, S, create)] = d
    BY <1>3 DEF Changed
  <2> QED
    BY <1>2, <2>1
<1>4. CASE create
  <2> DEFINE one(r) == <<[rank |-> d[r].bid % NP, what |-> <<-time, 0>>]>>
             list == one(0)
             x == [rank |-> d[0].bid % NP, what |-> <<-time, 0>>]
  <2>1. 0 \in Ranks
    BY OutputAssumption DEF Ranks
  <2>2. \A r \in Ranks : one(r) = list
    <3> HIDE DEF d
    <3>1. \A r \in Ranks : d[r].bid = d[0].bid
      BY <1>2, <2>1 DEF Agreed, SameBodies
    <3> QED
      BY <3>1
  <2>3. list \in Seq({x})
    <3> HIDE DEF x
    <3>1. <<x>> \in Seq({x})
      OBVIOUS
    <3> QED
      BY <3>1 DEF x
  <2>4. [r \in Ranks |-> Changed(r, S, create)]
          = [r \in Ranks |-> Inserted(d[r], r, list)]
    <3>1. \A r \in Ranks : Changed(r, S, create) = Inserted(d[r], r, one(r))
      BY <1>4 DEF Changed
    <3> HIDE DEF one, d
    <3>2. \A r \in Ranks : Changed(r, S, create) = Inserted(d[r], r, list)
      BY <2>2, <3>1
    <3> QED
      BY <3>2
  <2> HIDE DEF d, list
  <2>5. Agreed([r \in Ranks |-> Inserted(d[r], r, list)])
    BY <1>2, <2>3, AgreedInserted
  <2> QED
    BY <2>4, <2>5
<1> QED
  BY <1>3, <1>4

LEMMA AgreedInit == Agreed([r \in Ranks |-> InitDom(r)])
<1> DEFINE e == [r \in Ranks |-> InitDom(r)]
           Own(r) == {b \in 1 .. InitBodies : b % NP = r}
<1>1. ASSUME NEW r \in Ranks
      PROVE  /\ e[r].bid = InitBodies + 1
             /\ e[r].all = [b \in 1 .. InitBodies |-> <<0, b>>]
             /\ e[r].bod = Chosen(Downwards(1, InitBodies), Own(r))
             /\ e[r].sparebid = {}
             /\ DomFields(e[r])
  BY DEF InitDom, DomFields
<1> HIDE DEF e
<1>2. InitBodies \in Nat \ {0}
  BY OutputAssumption
<1>3. ASSUME NEW r \in Ranks
      PROVE  /\ e[r].bod \in Seq(1 .. InitBodies)
             /\ Range(e[r].bod) \subseteq Own(r)
  <2>1. /\ Downwards(1, InitBodies) \in Seq(1 .. (1 + InitBodies - 1))
    BY <1>2, DownwardsList
  <2>2. 1 .. (1 + InitBodies - 1) = 1 .. InitBodies
    BY <1>2
  <2>4. Downwards(1, InitBodies) \in Seq(1 .. InitBodies)
    BY <2>1, <2>2
  <2> HIDE DEF Own
  <2>3. /\ e[r].bod \in Seq(1 .. InitBodies)
        /\ Range(e[r].bod) = Range(Downwards(1, InitBodies)) \cap Own(r)
    <3>1. e[r].bod = Chosen(Downwards(1, InitBodies), Own(r))
      BY <1>1
    <3> DEFINE down == Downwards(1, InitBodies)
               T == 1 .. InitBodies
    <3>2. down \in Seq(T)
      BY <2>4
    <3> HIDE DEF down, T
    <3>3. /\ Chosen(down, Own(r)) \in Seq(T)
          /\ Range(Chosen(down, Own(r))) = Range(down) \cap Own(r)
      BY <3>2, ChosenList
    <3> QED
      BY <3>1, <3>3 DEF down, T
  <2> QED
    BY <2>3
<1>4. ASSUME NEW r \in Ranks
      PROVE  Sound(e[r]) /\ Dealt(e[r]) = 1 .. InitBodies
  <2>1. e[r].bid = InitBodies + 1 /\ e[r].sparebid = {} /\ DomFields(e[r])
    BY <1>1
  <2>2. Dealt(e[r]) = 1 .. InitBodies
    BY <1>2, <2>1 DEF Dealt
  <2>3. DOMAIN e[r].all = 1 .. InitBodies
    BY <1>1
  <2>4. e[r].bod \in Seq(1 .. InitBodies)
    BY <1>3
  <2> QED
    BY <1>2, <2>1, <2>2, <2>3, <2>4 DEF Sound
<1>5. ASSUME NEW r \in Ranks, NEW q \in Ranks
      PROVE  /\ SameBodies(e[r], e[q])
             /\ r # q => Range(e[r].bod) \cap Range(e[q].bod) = {}
  <2>1. SameBodies(e[r], e[q])
    BY <1>1 DEF SameBodies
  <2>2. r # q => Own(r) \cap Own(q) = {}
    OBVIOUS
  <2> HIDE DEF Own
  <2> QED
    BY <1>3, <2>1, <2>2
<1>6. Agreed(e)
  BY <1>4, <1>5 DEF Agreed
<1> QED
  BY <1>6 DEF e

LEMMA AgreedStep ==
  ASSUME Agreed(dom), NEW b, NEW to \in Ranks, NEW gone, NEW cracked,
         NEW parts \in Nat, Step(b, to, gone, cracked, parts)
  PROVE  Agreed(dom')
<1> DEFINE doms == Migrated(b, to)
           L == [r \in Ranks |-> Range(doms[r].bod) \cap (gone \cup cracked)]
           left == [r \in Ranks |-> Removed(doms[r], L[r])]
           pending == [r \in Ranks |-> Fragments(r, doms[r].bod, cracked, parts)]
<1>1. dom' = manage_bodies(left, pending)
  BY DEF Step
<1>2. Agreed(doms)
  BY AgreedMigrated
<1> HIDE DEF doms
<1>3. \A r \in Ranks : L[r] \subseteq Dealt(doms[r])
  <2>1. \A r \in Ranks : Range(doms[r].bod) \subseteq Dealt(doms[r])
    BY <1>2, SeqRange DEF Agreed, Sound
  <2> QED
    BY <2>1
<1> HIDE DEF L
<1>4. Agreed(left)
  BY <1>2, <1>3, AgreedRemoved
<1> HIDE DEF left
<1>5. ASSUME NEW r \in Ranks
      PROVE  pending[r] \in Seq(Fragment)
  <2>1. doms[r].bod \in Seq(Dealt(doms[r])) /\ Dealt(doms[r]) \subseteq Nat
    BY <1>2 DEF Agreed, Sound, Dealt
  <2>2. doms[r].bod \in Seq(Nat)
    BY <2>1, SeqRange
  <2> QED
    BY <2>2, FragmentList
<1> HIDE DEF pending
<1> QED
  BY <1>1, <1>4, <1>5, AgreedManaged

LEMMA AgreedRecorded ==
  ASSUME Agreed(dom), NEW W, NEW s, NEW lw, write_state(W, s, lw)
  PROVE  Agreed(dom')
<1>1. ASSUME NEW r \in Ranks
      PROVE  /\ dom'[r].bid = dom[r].bid /\ dom'[r].all = dom[r].all
             /\ dom'[r].bod = dom[r].bod /\ dom'[r].sparebid = dom[r].sparebid
             /\ DomFields(dom'[r])
  <2>1. dom'[r] = IF r \in W THEN [dom[r] EXCEPT !.newb = {}] ELSE dom[r]
    BY DEF write_state
  <2>2. DomFields(dom[r])
    BY DEF Agreed, Sound
  <2>3. CASE r \in W
    <3>1. dom'[r] = [bid |-> dom[r].bid, all |-> dom[r].all, bod |-> dom[r].bod,
                     newb |-> {}, sparebid |-> dom[r].sparebid]
      BY <2>1, <2>2, <2>3 DEF DomFields
    <3> QED
      BY <3>1 DEF DomFields
  <2> QED
    BY <2>1, <2>2, <2>3
<1>2. \A r \in Ranks : Sound(dom'[r])
  BY <1>1 DEF Agreed, Sound, Dealt
<1> QED
  BY <1>1, <1>2 DEF Agreed, SameBodies

LEMMA AgreedCallback ==
  ASSUME Agreed(dom), NEW S, NEW create \in BOOLEAN, NEW go,
         Callback(S, create, go)
  PROVE  Agreed(dom')
<1>1. CASE DueCallback = {}
  <2>1. \A r \in Ranks : dom'[r] = dom[r]
    BY <1>1 DEF Callback
  <2> QED
    BY <2>1 DEF Agreed
<1>2. CASE DueCallback = Ranks
  <2>1. dom' = [r \in Ranks |-> Changed(r, S, create)]
    BY <1>2 DEF Callback
  <2> QED
    BY <2>1, AgreedChanged
<1> QED
  BY <1>1, <1>2 DEF Callback

LEMMA AgreedNext ==
  ASSUME Agreed(dom), [Next]_allvars
  PROVE  Agreed(dom')
<1>1. CASE dom' = dom
  BY <1>1
<1>2. CASE Gone
  BY <1>2, AgreedInit DEF Gone
<1>3. CASE Write
  <2>1. ASSUME NEW b \in Movers \cup {0}, NEW to \in Ranks, NEW gone, NEW cracked,
               NEW parts \in Parts, Step(b, to, gone, cracked, parts)
        PROVE  Agreed(dom')
    BY <2>1, AgreedStep, ResultsAssumption
  <2>2. ASSUME NEW W, NEW s, NEW lw, write_state(W, s, lw)
        PROVE  Agreed(dom')
    BY <2>2, AgreedRecorded
  <2>3. ASSUME NEW S, NEW create \in BOOLEAN, NEW go, Callback(S, create, go)
        PROVE  Agreed(dom')
    BY <2>3, AgreedCallback
  <2>4. ASSUME NEW duration, Run(duration)
        PROVE  Agreed(dom')
    BY <2>2, <2>4 DEF Run
  <2>5. CASE Output \/ RecordLast
    BY <2>2, <2>5 DEF Output, RecordLast
  <2>6. ASSUME NEW interval, SOLFEC_Output(interval)
        PROVE  dom' = dom
    BY <2>6 DEF SOLFEC_Output
  <2>7. ASSUME NEW S, NEW interval, SOLFEC_Set_Callback(S, interval)
        PROVE  dom' = dom
    BY <2>7 DEF SOLFEC_Set_Callback
  <2>8. ASSUME NEW r, Close(r)
        PROVE  dom' = dom
    BY <2>8 DEF Close
  <2>9. ASSUME NEW S, NEW lost, SOLFEC_Abort(S, lost)
        PROVE  Gone
    BY <2>9 DEF SOLFEC_Abort
  <2>10. ASSUME NEW lost, Crash(lost)
         PROVE  Gone
    BY <2>10 DEF Crash
  <2>11. CASE SOLFEC_Destroy
    BY <1>2, <2>11 DEF SOLFEC_Destroy
  <2> QED
    BY <1>1, <1>2, <1>3, <2>1, <2>3, <2>4, <2>5, <2>6, <2>7, <2>8, <2>9, <2>10,
       <2>11 DEF Write
<1>4. CASE Read \/ UNCHANGED allvars
  BY <1>1, <1>4 DEF Read, Open, SOLFEC_Seek_To, SOLFEC_Forward, SOLFEC_Backward,
                   SOLFEC_Time_Skip, SOLFEC_History, Stopped, Becomes, allvars, vars
<1> QED
  BY <1>3, <1>4 DEF Next

(* All ranks give a body that is created or that cracks off the same id,   *)
(* for any number of ranks and bodies, any migration and any deletions     *)
(* that manage_bodies has not yet spread, and no body has two parents.     *)
THEOREM IdsAgreeHolds == Spec => []IdsAgree
<1>1. ResultsInit => Agreed(dom)
  BY AgreedInit DEF ResultsInit, Init
<1>2. Agreed(dom) /\ [Next]_allvars => Agreed(dom)'
  BY AgreedNext
<1>3. Agreed(dom) => IdsAgree
  BY DEF Agreed, SameBodies, IdsAgree
<1> QED
  BY <1>1, <1>2, <1>3, PTL DEF Spec
=============================================================================
