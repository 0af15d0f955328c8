------------------------------- MODULE Arrays --------------------------------
(***************************************************************************)
(* The arrays of JavaScript that the pages filter.                         *)
(***************************************************************************)
LOCAL INSTANCE Naturals
LOCAL INSTANCE FiniteSets

\* filter: the entries at the places in S, in the order in which they stand in s.
Picked(s, S) ==
    LET place(k) == CHOOSE j \in S : Cardinality({m \in S : m <= j}) = k
    IN  [k \in 1 .. Cardinality(S) |-> s[place(k)]]
=============================================================================
