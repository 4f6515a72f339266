------------------------------- MODULE Orders -------------------------------
(***************************************************************************)
(* Sets of integers in ascending order, and the elements of a sequence     *)
(* that pass a test, in the order they have in it.                         *)
(***************************************************************************)
EXTENDS Integers, Sequences, FiniteSets

Ascending(S) ==
  CHOOSE b \in [1 .. Cardinality(S) -> S] :
    \A i, j \in DOMAIN b : i < j => b[i] < b[j]

Select(s, Test(_)) ==
  LET places == Ascending({i \in DOMAIN s : Test(s[i])})
  IN  [k \in DOMAIN places |-> s[places[k]]]
=============================================================================
