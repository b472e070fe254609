-------------------------- MODULE SequentialSweep --------------------------
(***************************************************************************)
(* What the parallel solver promises: a sequence of Gauss-Seidel sweeps,   *)
(* as run by the serial GAUSS_SEIDEL_Solve of src/bgs.c.  One row is       *)
(* solved at a time, it reads the latest reactions of the rows it is       *)
(* coupled to, and a sweep ends when every row was solved its due number   *)
(* of times.  The order of rows within a sweep is free.                    *)
(*                                                                         *)
(* The Jacobi variants give up the first promise for some couplings: Lagged *)
(* lists the pairs <<b, a>> where b may read a as of the end of the        *)
(* previous sweep instead.                                                 *)
(***************************************************************************)
EXTENDS Naturals

CONSTANTS Block, Variants, Adj, Quota, Lagged

VARIABLES variant, sweep, R, seen

vars == <<variant, sweep, R, seen>>

Init ==
  /\ variant \in Variants
  /\ sweep = 0
  /\ R = [b \in Block |-> 0]
  /\ seen = [b \in Block |-> [a \in Block |-> 0]]

Readable(b, a) ==
  IF <<b, a>> \notin Adj THEN {0}
  ELSE IF <<b, a>> \in Lagged[variant] THEN {R[a], Quota[variant][a] * sweep}
  ELSE {R[a]}

SolveRow(b) ==
  /\ R[b] < Quota[variant][b] * (sweep + 1)
  /\ R' = [R EXCEPT ![b] = @ + 1]
  /\ \A a \in Block : seen'[b][a] \in Readable(b, a)
  /\ seen' = [seen EXCEPT ![b] = seen'[b]]
  /\ UNCHANGED <<variant, sweep>>

EndSweep ==
  /\ \A b \in Block : R[b] = Quota[variant][b] * (sweep + 1)
  /\ sweep' = sweep + 1
  /\ UNCHANGED <<variant, R, seen>>

Next == EndSweep \/ \E b \in Block : SolveRow(b)

Spec == Init /\ [][Next]_vars
=============================================================================
