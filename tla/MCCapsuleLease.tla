--------------------------- MODULE MCCapsuleLease ---------------------------
(* Two scopes' worth of behaviour is two independent copies, so the model  *)
(* has one scope; two joining members of one operation and an exclusive    *)
(* member of another.                                                      *)
EXTENDS CapsuleLease, TLC

CONSTANTS s1, h1, h2, m1, m2, m3

MCHolderOf == m1 :> h1 @@ m2 :> h1 @@ m3 :> h2
MCScopeOf == [m \in {m1, m2, m3} |-> s1]
MCTtlOf == m1 :> 2 @@ m2 :> 1 @@ m3 :> 2
MCSymmetry == Permutations(Ids) \cup Permutations(Calls)
=============================================================================
