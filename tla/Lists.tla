-------------------------------- MODULE Lists --------------------------------
(***************************************************************************)
(* Filtered lists, as the comprehensions of web/ratelimit.py,              *)
(* security/access.py and engine/responder.py make them.  What SelectSeq   *)
(* does, without recursion, so that it can be reasoned about (ListsProofs) *)
(* and with the places to keep as a set, so that the test of an entry may  *)
(* look at the others.                                                     *)
(***************************************************************************)
EXTENDS Integers, Sequences, FiniteSets

\* [x for x in s if ...]: the entries of s at the places of I, in order.
KeepAt(s, I) ==
    LET place(i) == Cardinality({j \in I : j <= i})
    IN  [k \in 1..Cardinality(I) |-> s[CHOOSE i \in I : place(i) = k]]

=============================================================================
