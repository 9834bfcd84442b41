------------------------------ MODULE Selection ------------------------------
(***************************************************************************)
(* The elements of a sequence at some of its places, and in an order.  The *)
(* rules that are proved about select and sort with these closed forms:    *)
(* the proof system has no definition of SelectSeq and SortSeq, which are  *)
(* built in.                                                               *)
(***************************************************************************)
EXTENDS Integers, FiniteSets

\* The nth least of a set of places, and the elements at the places, in order.
Nth(K, n) == CHOOSE k \in K : Cardinality({j \in K : j <= k}) = n
Kept(s, K) == [n \in 1 .. Cardinality(K) |-> s[Nth(K, n)]]

\* A set in a strict order: at each place the element with so many before it.
Sorted(S, before(_, _)) ==
    [n \in 1 .. Cardinality(S) |->
       CHOOSE e \in S : Cardinality({f \in S : before(f, e)}) = n - 1]

\* The nth smallest of the numbers in a sequence, which may repeat.
NthValue(s, n) ==
    CHOOSE v \in {s[k] : k \in DOMAIN s} :
      /\ Cardinality({k \in DOMAIN s : s[k] < v}) < n
      /\ n <= Cardinality({k \in DOMAIN s : s[k] <= v})
=============================================================================
