------------------------------- MODULE Frames -------------------------------
(***************************************************************************)
(* The portable binary files of pbf.c (the XDR build): what PBF_Write,     *)
(* PBF_Time, PBF_Label and the writing of data do to the three streams of  *)
(* one rank, and what PBF_Read, PBF_Seek, PBF_Forward and PBF_Backward     *)
(* find in them again.                                                     *)
(*                                                                         *)
(* A file is a record: dat, the data on disk; mem, the data of the frame   *)
(* being written, which growmem keeps in one piece; idx, the index, with   *)
(* one marker per frame; lab, the names of the labels in the order of      *)
(* their first use; time, the time of the last frame.  A marker holds the  *)
(* time of its frame, where its data start in dat, the labels as pairs of  *)
(* an index into lab and a position in the data of the frame, and how its  *)
(* list of labels ends: not yet ("open"), with -1 ("labels") or, in the    *)
(* marker that closes the index, with -2 ("inf").  A value is one item,    *)
(* whatever its number of bytes.  Frames are numbered from 0, as in mtab.  *)
(*                                                                         *)
(* dat, idx and lab are what the process has written; how much of it has   *)
(* left the buffers of stdio only matters when the process dies.  stage    *)
(* says how far PBF_Close has come: "writing", then "final" (nothing more  *)
(* is written), "idx", "lab" and "closed" (these streams are flushed), or  *)
(* "dead" when the process ends before.                                    *)
(***************************************************************************)
EXTENDS Integers, Sequences, SequencesExt

NewFile == [dat |-> <<>>, mem |-> <<>>, idx |-> <<>>, lab |-> <<>>, time |-> 0,
            stage |-> "writing"]

Marker(time, doff, end) ==
  [time |-> time, doff |-> doff, labels |-> <<>>, end |-> end]

-----------------------------------------------------------------------------
(* Writing.  A frame goes to disk when the next one begins or the file is  *)
(* closed; before the first PBF_Time there is no frame to write.           *)

write_frame(f) ==
  IF f.idx = <<>> THEN f
  ELSE [f EXCEPT !.idx[Len(f.idx)].end = "labels",
                 !.dat = @ \o f.mem,
                 !.mem = <<>>]

PBF_Time(f, time) ==
  LET g == write_frame(f)
  IN  [g EXCEPT !.idx = Append(@, Marker(time, Len(g.dat), "open")),
                !.time = time]

PBF_Label(f, label) ==
  LET lab == IF Contains(f.lab, label) THEN f.lab ELSE Append(f.lab, label)
      index == CHOOSE i \in DOMAIN lab : lab[i] = label
  IN  [f EXCEPT !.lab = lab,
                !.idx[Len(f.idx)].labels = Append(@, <<index, Len(f.mem)>>)]

(* PBF_Int, PBF_Double, ..., for a sequence of values.                     *)
PBF_Put(f, values) == [f EXCEPT !.mem = @ \o values]

finalize_frames(f) ==
  LET g == write_frame(f)
  IN  [g EXCEPT !.idx = Append(@, Marker(g.time, Len(g.dat), "inf")),
                !.stage = "final"]

(* One step of PBF_Close: the last frame and the marker that closes the    *)
(* index; then xdr_destroy flushes the index and the labels, one after the *)
(* other, and the data follow with is_empty and fclose.                    *)
PBF_Close(f) ==
  CASE f.stage = "writing" -> finalize_frames(f)
    [] f.stage = "final"   -> [f EXCEPT !.stage = "idx"]
    [] f.stage = "idx"     -> [f EXCEPT !.stage = "lab"]
    [] f.stage = "lab"     -> [f EXCEPT !.stage = "closed"]

Left(f) == f.stage \in {"closed", "dead"}

(* A stream without its last n items, unless it is flushed.                *)
OnDisk(stream, flushed, n) ==
  IF flushed THEN stream ELSE SubSeq(stream, 1, Len(stream) - n)

(* What a process that dies leaves of a file it has not closed: the frame  *)
(* in memory is lost, and of each stream what was still in its buffer.     *)
Torn(f, lost) ==
  IF Left(f) THEN f
  ELSE [f EXCEPT
          !.mem = <<>>,
          !.idx = OnDisk(@, f.stage \in {"idx", "lab"}, lost.idx),
          !.lab = OnDisk(@, f.stage = "lab", lost.lab),
          !.dat = OnDisk(@, FALSE, lost.dat),
          !.stage = "dead"]

-----------------------------------------------------------------------------
(* Reading.                                                                *)

(* Mutant: the index may end with any marker but the first.                *)
IntactAnyEnd(f) ==
  /\ Len(f.idx) >= 2
  /\ \A n \in DOMAIN f.idx : \A i \in DOMAIN f.idx[n].labels :
        f.idx[n].labels[i][1] \in DOMAIN f.lab

(* The assertions of initialise_reading, which reads the whole index.      *)
Intact(f) ==
  /\ f.idx # <<>>
  /\ Last(f.idx).end = "inf"
  /\ \A n \in DOMAIN f.idx : \A i \in DOMAIN f.idx[n].labels :
        f.idx[n].labels[i][1] \in DOMAIN f.lab

Size(f) == Len(f.idx) - 1

(* The assertions of fileread: all data of frame n are in dat.             *)
Complete(f, n) == f.idx[n + 2].doff <= Len(f.dat)

TimeOf(f, n) == f.idx[n + 1].time

FrameData(f, n) == SubSeq(f.dat, f.idx[n + 1].doff + 1, f.idx[n + 2].doff)

(* The records of a label in frame n; the last one gives the position.     *)
Records(f, n, label) ==
  {i \in DOMAIN f.idx[n + 1].labels : f.lab[f.idx[n + 1].labels[i][1]] = label}

HasLabel(f, n, label) == Records(f, n, label) # {}

LabelPos(f, n, label) ==
  LET i == CHOOSE i \in Records(f, n, label) :
             \A j \in Records(f, n, label) : j <= i
  IN  f.idx[n + 1].labels[i][2]

(* The binary search of PBF_Seek and PBF_Span: l, h and m after each turn  *)
(* of its loop, which a frame of the time looked for ends.                 *)
SearchSteps(f, time) ==
  LET size == Size(f)
      at[k \in 0 .. size] ==
        IF k = 0 THEN [l |-> 0, h |-> size - 1, m |-> 0]
        ELSE LET s == at[k - 1]
                 mid == s.l + (s.h - s.l) \div 2
             IN  IF s.l > s.h THEN s
                 ELSE IF time = TimeOf(f, mid) THEN [l |-> mid, h |-> mid, m |-> mid]
                 ELSE IF time < TimeOf(f, mid) THEN [l |-> s.l, h |-> mid - 1, m |-> mid]
                 ELSE [l |-> mid + 1, h |-> s.h, m |-> mid]
  IN  at

(* The frame it stops at; between two frames the one looked at last.       *)
Search(f, time) ==
  LET s == SearchSteps(f, time)[Size(f)]
  IN  IF s.l <= s.h THEN s.m
      ELSE IF s.h < 0 THEN s.l
      ELSE IF s.l > Size(f) - 1 THEN s.h
      ELSE s.m

PBF_Seek(f, time) == Search(f, time)

PBF_Forward(f, cur, steps) ==
  IF cur + steps >= Size(f) THEN Size(f) - 1 ELSE cur + steps

PBF_Backward(f, cur, steps) == IF cur < steps THEN 0 ELSE cur - steps

(* Mutant: both ends are counted.                                          *)
PBF_SpanInclusive(f, t0, t1) == Search(f, t1) - Search(f, t0) + 1

PBF_Span(f, t0, t1) == Search(f, t1) - Search(f, t0)
=============================================================================
