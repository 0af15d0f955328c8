----------------------------- MODULE MCAccounts ------------------------------
(* Instances of Accounts for TLC: the handlers of the notifications are     *)
(* interchangeable.                                                         *)
EXTENDS Accounts, TLC

MCIds == <<"g1", "g2">>

Symmetry == Permutations(Handlers)
==============================================================================
