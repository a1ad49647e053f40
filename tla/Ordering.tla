------------------------------- MODULE Ordering -------------------------------
(* Sorting and selecting, said by counting what comes before: sort.Slice,    *)
(* sort.SliceStable and ORDER BY, the loop with append that keeps some of    *)
(* the elements, and WHERE.                                                  *)
EXTENDS Naturals, Sequences, FiniteSets

(* The elements of a finite set in a strict order, which is given as a set   *)
(* of pairs.                                                                 *)
Ordered(S, order) ==
    [i \in 1..Cardinality(S) |->
        CHOOSE e \in S : Cardinality({f \in S : <<f, e>> \in order}) = i - 1]

(* Numbers from the least to the greatest.                                   *)
Ascending(N) == Ordered(N, {p \in N \X N : p[1] < p[2]})

(* The elements of a sequence for which Less says what comes first; those it *)
(* does not tell apart stay as they are.                                     *)
SortStable(s, Less(_, _)) ==
    LET first(i, j) == Less(s[i], s[j]) \/ (~Less(s[j], s[i]) /\ i < j)
        places      == Ordered(DOMAIN s, {p \in (DOMAIN s) \X (DOMAIN s) : first(p[1], p[2])})
    IN [k \in DOMAIN places |-> s[places[k]]]

(* The elements of a sequence that are as wanted.                            *)
Where(s, Wanted(_)) ==
    LET places == Ascending({i \in DOMAIN s : Wanted(s[i])})
    IN [k \in DOMAIN places |-> s[places[k]]]
=============================================================================
