------------------------------- MODULE Retain -------------------------------
(* Vec::retain and VecDeque::retain: the elements at some of a sequence's  *)
(* indices, in their order.  Written as a function of the indices, without *)
(* recursion, so that it can be reasoned about.                            *)
EXTENDS Integers, Sequences, FiniteSets

\* The members of a finite set of integers in increasing order.
Increasing(K) ==
    CHOOSE f \in [1 .. Cardinality(K) -> K] :
        \A a, b \in 1 .. Cardinality(K) : a < b => f[a] < f[b]

RetainAt(s, K) == [k \in 1 .. Cardinality(K) |-> s[Increasing(K)[k]]]
=============================================================================
