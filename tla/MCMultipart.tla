---------------------------- MODULE MCMultipart ----------------------------
(***************************************************************************)
(* Multipart for TLC: part 1 is uploaded with two contents, of which one   *)
(* is empty, part 2 with one, and part 3 is beyond the limit.              *)
(***************************************************************************)
EXTENDS Multipart, TLC

Symmetry == Permutations(Procs)

PartLists == {<<1, 2>>}
TwoLists  == {<<1>>, <<1, 2>>}

PartPuts == {<<1, "x">>, <<1, "">>, <<2, "x">>, <<3, "x">>}
=============================================================================
