----------------------------- MODULE MCLearning ------------------------------
(* Instances of Learning for TLC.                                           *)
EXTENDS Learning, TLC

CONSTANTS d1, d2, f1, f2, n1, n2, n3, n4, c1, c2, g1, g2

MCFolderOf == d1 :> f1 @@ d2 :> f2
MCCards == <<2, 3, 1, 2, 2>>
Tree == [nodes |-> <<1, 2, 3, 4, 5, 6>>, edges |-> <<<<1, 2>>, <<1, 3>>, <<2, 4>>, <<2, 5>>, <<3, 6>>>>]
Twig == [nodes |-> <<1, 2>>, edges |-> <<<<1, 2>>>>]
MCMaps == <<Twig, Tree, Twig, Tree, Twig>>

MCConceptOf == n1 :> c1 @@ n2 :> c2 @@ n3 :> None @@ n4 :> c1
MCGroupOf   == n1 :> g1 @@ n2 :> g1 @@ n3 :> g1 @@ n4 :> g2
==============================================================================
