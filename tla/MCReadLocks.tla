----------------------------- MODULE MCReadLocks -----------------------------
(* An instance of ReadLocks for TLC: 1 and 9 collide in vectors of two,    *)
(* four and eight slots, 1, 3 and 9 in one of two, and the four make a     *)
(* vector of four slots too small.                                         *)
EXTENDS ReadLocks

TheLocks == {1, 2, 3, 9}
Nine == {9}
Others == {2, 3, 9}
=============================================================================
