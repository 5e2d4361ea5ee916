------------------------------- MODULE MCUfs -------------------------------
(* Ufs with two kinds of writes, one that fits into a sector at every       *)
(* offset and one that straddles two; names are interchangeable.            *)
EXTENDS Ufs, TLC

Buffers == {<<1>>, <<2, 2>>}

NameSymmetry == Permutations(Name)
=============================================================================
