------------------------------- MODULE RzList -------------------------------
(***************************************************************************)
(* What deleting from an RzList (librz/util/list.c) leaves of it, written  *)
(* without recursion so that it can be reasoned about.                     *)
(***************************************************************************)
EXTENDS Integers, FiniteSets

\* The list s without the elements that are not in S, in the order they had.
Only(s, S) ==
    LET Kept == {i \in DOMAIN s : s[i] \in S}
        Rank(i) == Cardinality({j \in Kept : j <= i})
    IN  [k \in 1..Cardinality(Kept) |-> s[CHOOSE i \in Kept : Rank(i) = k]]
=============================================================================
