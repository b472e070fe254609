--------------------------- MODULE MCGaussSeidel ---------------------------
(***************************************************************************)
(* Instances of GaussSeidel for TLC.                                       *)
(***************************************************************************)
EXTENDS GaussSeidel

Sym(S) == S \cup {<<p[2], p[1]>> : p \in S}

(* Four ranks, all adjacent, so that they get four colours and the ranks   *)
(* of colours 2 and 3 have middle blocks coupled to each other.  Rank 3    *)
(* has two middle blocks, rank 2 a middle and a bottom one, both of which   *)
(* it sends to rank 3.                                                     *)
FourRanks  == 1 .. 4
FourBlocks == {"b1", "b2", "c2", "b3", "c3", "b4"}
FourOwner  == [b1 |-> 1, b2 |-> 2, c2 |-> 2, b3 |-> 3, c3 |-> 3, b4 |-> 4]
FourAdj    == Sym({<<"b1", "b2">>, <<"b1", "b3">>, <<"b1", "b4">>,
                   <<"b2", "b3">>, <<"b2", "b4">>, <<"b3", "b4">>,
                   <<"b3", "c3">>, <<"b2", "c3">>, <<"b4", "c3">>,
                   <<"c2", "b3">>})
FourColor  == [r \in FourRanks |-> r]

AllVariants == {"FULL", "MIDDLE_JACOBI", "BOUNDARY_JACOBI"}

Outcomes == {1}
AnyOutcome == {-1, 1, 9}

(* Three ranks of colours 1, 2, 3: rank 2 has a middle block, and all ranks *)
(* have an inner block.                                                    *)
ThreeRanks  == 1 .. 3
ThreeBlocks == {"b1", "b2", "b3", "i1", "i2", "i3"}
ThreeOwner  == [b1 |-> 1, i1 |-> 1, b2 |-> 2, i2 |-> 2, b3 |-> 3, i3 |-> 3]
ThreeAdj    == Sym({<<"b1", "b2">>, <<"b1", "b3">>, <<"b2", "b3">>,
                    <<"b1", "i1">>, <<"b2", "i2">>, <<"b3", "i3">>})
ThreeColor  == [r \in ThreeRanks |-> r]
=============================================================================
