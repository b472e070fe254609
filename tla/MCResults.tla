----------------------------- MODULE MCResults -----------------------------
(***************************************************************************)
(* An instance of Results for TLC: what a process that dies may lose of    *)
(* the streams it has not flushed.                                         *)
(***************************************************************************)
EXTENDS Results

(* The end of the data; the end of each stream (the marker that closes the *)
(* index, the last label); all data, which are fewer than a hundred items. *)
(* If nothing is lost the files are those of a process that has closed     *)
(* them.                                                                   *)
SomeLosses == {[idx |-> 0, lab |-> 0, dat |-> 1],
               [idx |-> 1, lab |-> 1, dat |-> 1],
               [idx |-> 0, lab |-> 0, dat |-> 100]}
=============================================================================
