----------------------------- MODULE ScopeLock ------------------------------
(***************************************************************************)
(* What callers of withCapsuleLease, withPlanLease and withWorkspaceLease  *)
(* rely on: a lock per scope.  A member enters a scope nobody is inside,   *)
(* or joins the joining members of its own logical operation.  Members     *)
(* leave one by one, or together when the clock takes their leases away.   *)
(***************************************************************************)
CONSTANTS Members, HolderOf, ScopeOf, Joining

VARIABLE inside   \* the members whose lease promise holds

Compatible(m, n) ==
    /\ {m, n} \subseteq Joining
    /\ HolderOf[m] = HolderOf[n]

Init == inside = {}

Enter(m) ==
    /\ m \notin inside
    /\ \A n \in inside : ScopeOf[n] = ScopeOf[m] => Compatible(m, n)
    /\ inside' = inside \cup {m}

Leave == inside' \in SUBSET inside

Next == Leave \/ \E m \in Members : Enter(m)

Spec == Init /\ [][Next]_inside
=============================================================================
