------------------------ MODULE InterfaceIntentProofs -----------------------
(***************************************************************************)
(* Safety of the interface materialization for every set of drainers and   *)
(* every number of items, generations, runs, rebinds, retries and faults.  *)
(***************************************************************************)
EXTENDS InterfaceIntent, TLAPS

-----------------------------------------------------------------------------
(* The inductive invariant.                                                *)

Fencing == {"fence", "renew", "lineage"}

Open == {"pending", "dead_letter"}

(* An intent belongs to a generation that was committed; while it is open  *)
(* its cursor has an item left and its lineage is of the Capsule's config. *)
IntentInv ==
    \A g \in Generations :
        /\ IF intent[g].status = "absent" THEN intent[g].next = 0 ELSE g <= capsule.gen
        /\ intent[g].status \in Open =>
             intent[g].next < TotalItems /\ intent[g].config = capsule.config

(* The Capsule moved on from a generation, or ended.                       *)
Left(g) == ~capsule.alive \/ capsule.gen # g

(* A lineage that broke does not come back, other than for an intent that  *)
(* is completed.                                                           *)
BrokenInv ==
    \A g \in broken :
        intent[g].status # "absent" /\ (intent[g].status = "completed" \/ Left(g))

(* What a drainer relies on: its intent; an outcome where it settles one;  *)
(* an item that it saw resolved, or a lineage that is lost for good; the   *)
(* Output it resolved a row from.                                          *)
Informed(d) ==
    LET s == drainer[d]
    IN  /\ s.pc = "idle" => s = Idle
        /\ s.pc # "idle" =>
             s.gen \in Generations /\ s.cur < TotalItems /\ intent[s.gen].status # "absent"
        /\ s.pc = "settle" \/ (s.pc \in Fencing /\ s.then = "settle") => s.out # "none"
        /\ s.out = "materialized" =>
             \/ s.cur + 1 \in verified[s.gen]
             \/ s.pc \in Fencing /\ capsule.gen # s.gen
        /\ s.out = "refused" =>
             /\ s.pc \in Fencing
             /\ Left(s.gen) \/ (s.pc # "lineage" /\ ~Claimed(d))
        /\ s.new.gen # 0 \/ s.new.phase = "Resolved" =>
             s.gen <= s.new.gen /\ s.new.gen <= capsule.gen

WorkInv == \A d \in Drainers : Informed(d)

(* An observer has a mark to leave.  After a destroy only its observer is  *)
(* left, and what it has not visited yet is on its list.                   *)
Over(k) == iface[k].phase \in {"absent", "Retired"}

RunInv ==
    /\ run.pc \in {"list", "observe"} => run.mark # "none"
    /\ ~capsule.alive =>
         \/ run.pc = "idle" /\ (missed \/ \A k \in Items : Over(k))
         \/ /\ run.pc \in {"list", "observe"} /\ run.mark = "Retired" /\ run.then = "idle"
            /\ run.pc = "observe" => \A k \in Items \ run.left : Over(k)

IInv ==
    /\ TypeOK
    /\ IntentInv
    /\ BrokenInv
    /\ WorkInv
    /\ RunInv
    /\ CursorIsTrue
    /\ DeadLetterIsHonest

-----------------------------------------------------------------------------
(* What a step does to a drainer.                                          *)

Pcs == {"idle", "read", "acquire", "reread", "target", "create", "resolve", "settle",
        "release"} \cup Fencing

Thens == {"target", "create", "resolve", "settle"}

OthersRest(d) ==
    /\ drainer' \in [Drainers -> Drainer]
    /\ \A e \in Drainers \ {d} : drainer'[e] = drainer[e]

Moves(d, pc, cur, then, out, new) ==
    /\ OthersRest(d)
    /\ drainer'[d].pc = pc
    /\ drainer'[d].gen = drainer[d].gen
    /\ drainer'[d].cur = cur
    /\ drainer'[d].then = then
    /\ drainer'[d].out = out
    /\ drainer'[d].new = new

Goes(d, pc, then, out) == Moves(d, pc, drainer[d].cur, then, out, drainer[d].new)

Rests(d) == OthersRest(d) /\ drainer'[d] = Idle

(* The type of a drainer, with the steps it takes.                         *)
LEMMA DrainerType ==
    /\ Drainer = [pc: Pcs, gen: 0 .. MaxGen, cur: 0 .. TotalItems, done: 0 .. ItemBudget,
                  then: Thens, out: Outcomes, row: Row, new: Row]
    /\ Phase("absent") \in Row /\ Phase("Pending") \in Row
    /\ Idle \in Drainer
<1>1. Pcs = {"idle", "read", "acquire", "reread", "fence", "renew", "lineage",
             "target", "create", "resolve", "settle", "release"}
  BY DEF Pcs, Fencing
<1>2. Drainer = [pc: Pcs, gen: 0 .. MaxGen, cur: 0 .. TotalItems, done: 0 .. ItemBudget,
                 then: Thens, out: Outcomes, row: Row, new: Row]
  BY <1>1 DEF Drainer, Thens
<1>3. MaxGen \in Nat /\ TotalItems \in Nat /\ ItemBudget \in Nat
  BY IntentConstants
<1>4. Phase("absent") \in Row /\ Phase("Pending") \in Row
  BY <1>3 DEF Phase, Row
<1>5. Idle \in Drainer
  BY <1>1, <1>2, <1>3, <1>4 DEF Idle, Thens, Outcomes
<1> QED
  BY <1>2, <1>4, <1>5

(* A drainer that is replaced as a whole.                                  *)
LEMMA PutDrainer ==
    ASSUME TypeOK, NEW d \in Drainers, NEW s \in Drainer, s.gen = drainer[d].gen,
           Become(d, s)
    PROVE  Moves(d, s.pc, s.cur, s.then, s.out, s.new)
  BY DEF Moves, OthersRest, Become, TypeOK

(* The forms in which an action writes a drainer.                          *)
LEMMA MoveDrainer ==
    ASSUME TypeOK, NEW d \in Drainers, NEW s, s = drainer[d], NEW pc \in Pcs,
           NEW then \in Thens, NEW out \in Outcomes, NEW row \in Row, NEW new \in Row
    PROVE  /\ Become(d, Idle) => Rests(d)
           /\ Become(d, [s EXCEPT !.pc = pc]) => Goes(d, pc, s.then, s.out)
           /\ Become(d, [s EXCEPT !.pc = pc, !.out = out]) => Goes(d, pc, s.then, out)
           /\ Fence(d, [s EXCEPT !.then = then]) => Goes(d, "fence", then, s.out)
           /\ Fence(d, [s EXCEPT !.then = then, !.out = out]) => Goes(d, "fence", then, out)
           /\ Fence(d, [s EXCEPT !.then = then, !.row = row, !.new = new]) =>
                Moves(d, "fence", s.cur, then, s.out, new)
<1>1. s \in Drainer /\ "fence" \in Pcs
  BY DEF TypeOK, Pcs, Fencing
<1>2. Become(d, Idle) => Rests(d)
  BY DrainerType DEF Become, Rests, OthersRest, TypeOK
<1>3. ASSUME Become(d, [s EXCEPT !.pc = pc]) PROVE Goes(d, pc, s.then, s.out)
  <2>1. PICK p : p = [s EXCEPT !.pc = pc]
    OBVIOUS
  <2>2. p = [pc |-> pc, gen |-> s.gen, cur |-> s.cur, done |-> s.done, then |-> s.then,
             out |-> s.out, row |-> s.row, new |-> s.new]
    BY <1>1, <2>1, DrainerType
  <2>3. p \in Drainer
    BY <1>1, <2>2, DrainerType
  <2>4. Become(d, p)
    BY <1>3, <2>1
  <2> QED
    BY <2>2, <2>3, <2>4, PutDrainer DEF Goes
<1>4. ASSUME Become(d, [s EXCEPT !.pc = pc, !.out = out]) PROVE Goes(d, pc, s.then, out)
  <2>1. PICK p : p = [s EXCEPT !.pc = pc, !.out = out]
    OBVIOUS
  <2>2. p = [pc |-> pc, gen |-> s.gen, cur |-> s.cur, done |-> s.done, then |-> s.then,
             out |-> out, row |-> s.row, new |-> s.new]
    BY <1>1, <2>1, DrainerType
  <2>3. p \in Drainer
    BY <1>1, <2>2, DrainerType
  <2>4. Become(d, p)
    BY <1>4, <2>1
  <2> QED
    BY <2>2, <2>3, <2>4, PutDrainer DEF Goes
<1>5. ASSUME Fence(d, [s EXCEPT !.then = then]) PROVE Goes(d, "fence", then, s.out)
  <2>1. PICK p : p = [[s EXCEPT !.then = then] EXCEPT !.pc = "fence"]
    OBVIOUS
  <2>2. p = [pc |-> "fence", gen |-> s.gen, cur |-> s.cur, done |-> s.done, then |-> then,
             out |-> s.out, row |-> s.row, new |-> s.new]
    BY <1>1, <2>1, DrainerType
  <2>3. p \in Drainer
    BY <1>1, <2>2, DrainerType
  <2>4. Become(d, p)
    BY <1>5, <2>1 DEF Fence
  <2> QED
    BY <2>2, <2>3, <2>4, PutDrainer DEF Goes
<1>6. ASSUME Fence(d, [s EXCEPT !.then = then, !.out = out])
      PROVE  Goes(d, "fence", then, out)
  <2>1. PICK p : p = [[s EXCEPT !.then = then, !.out = out] EXCEPT !.pc = "fence"]
    OBVIOUS
  <2>2. p = [pc |-> "fence", gen |-> s.gen, cur |-> s.cur, done |-> s.done, then |-> then,
             out |-> out, row |-> s.row, new |-> s.new]
    BY <1>1, <2>1, DrainerType
  <2>3. p \in Drainer
    BY <1>1, <2>2, DrainerType
  <2>4. Become(d, p)
    BY <1>6, <2>1 DEF Fence
  <2> QED
    BY <2>2, <2>3, <2>4, PutDrainer DEF Goes
<1>7. ASSUME Fence(d, [s EXCEPT !.then = then, !.row = row, !.new = new])
      PROVE  Moves(d, "fence", s.cur, then, s.out, new)
  <2>1. PICK p : p = [[s EXCEPT !.then = then, !.row = row, !.new = new]
                        EXCEPT !.pc = "fence"]
    OBVIOUS
  <2>2. p = [pc |-> "fence", gen |-> s.gen, cur |-> s.cur, done |-> s.done, then |-> then,
             out |-> s.out, row |-> row, new |-> new]
    BY <1>1, <2>1, DrainerType
  <2>3. p \in Drainer
    BY <1>1, <2>2, DrainerType
  <2>4. Become(d, p)
    BY <1>7, <2>1 DEF Fence
  <2> QED
    BY <2>2, <2>3, <2>4, PutDrainer
<1> QED
  BY <1>2, <1>3, <1>4, <1>5, <1>6, <1>7

(* The forms that end a reconcile, and the one that takes the next item.   *)
LEMMA EndDrainer ==
    ASSUME TypeOK, NEW d \in Drainers, NEW s, s = drainer[d], NEW over,
           over = [s EXCEPT !.row = Phase("absent"), !.new = Phase("absent")],
           NEW out \in Outcomes
    PROVE  /\ Become(d, [over EXCEPT !.pc = "target"]) =>
                Moves(d, "target", s.cur, s.then, s.out, Phase("absent"))
           /\ Fence(d, [over EXCEPT !.then = "settle", !.out = out]) =>
                Moves(d, "fence", s.cur, "settle", out, Phase("absent"))
           /\ /\ s.cur < TotalItems /\ s.done + 1 < ItemBudget
              /\ Fence(d, [s EXCEPT !.cur = @ + 1, !.done = @ + 1, !.then = "target",
                                    !.out = "none"])
              => Moves(d, "fence", s.cur + 1, "target", "none", s.new)
<1>1. s \in Drainer /\ {"fence", "target"} \subseteq Pcs /\ {"target", "settle"} \subseteq Thens
      /\ "none" \in Outcomes
  BY DEF TypeOK, Pcs, Thens, Fencing, Outcomes
<1>2. over = [pc |-> s.pc, gen |-> s.gen, cur |-> s.cur, done |-> s.done, then |-> s.then,
              out |-> s.out, row |-> Phase("absent"), new |-> Phase("absent")]
  BY <1>1, DrainerType
<1>3. over \in Drainer
  BY <1>1, <1>2, DrainerType
<1>4. ASSUME Become(d, [over EXCEPT !.pc = "target"])
      PROVE  Moves(d, "target", s.cur, s.then, s.out, Phase("absent"))
  <2>1. PICK p : p = [over EXCEPT !.pc = "target"]
    OBVIOUS
  <2>2. p = [pc |-> "target", gen |-> s.gen, cur |-> s.cur, done |-> s.done,
             then |-> s.then, out |-> s.out, row |-> Phase("absent"),
             new |-> Phase("absent")]
    BY <1>2, <2>1
  <2>3. p \in Drainer
    BY <1>1, <2>2, DrainerType
  <2>4. Become(d, p)
    BY <1>4, <2>1
  <2> QED
    BY <2>2, <2>3, <2>4, PutDrainer
<1>5. ASSUME Fence(d, [over EXCEPT !.then = "settle", !.out = out])
      PROVE  Moves(d, "fence", s.cur, "settle", out, Phase("absent"))
  <2>1. PICK p : p = [[over EXCEPT !.then = "settle", !.out = out] EXCEPT !.pc = "fence"]
    OBVIOUS
  <2>2. p = [pc |-> "fence", gen |-> s.gen, cur |-> s.cur, done |-> s.done,
             then |-> "settle", out |-> out, row |-> Phase("absent"),
             new |-> Phase("absent")]
    BY <1>2, <2>1
  <2>3. p \in Drainer
    BY <1>1, <2>2, DrainerType
  <2>4. Become(d, p)
    BY <1>5, <2>1 DEF Fence
  <2> QED
    BY <2>2, <2>3, <2>4, PutDrainer
<1>6. ASSUME s.cur < TotalItems, s.done + 1 < ItemBudget,
             Fence(d, [s EXCEPT !.cur = @ + 1, !.done = @ + 1, !.then = "target",
                                !.out = "none"])
      PROVE  Moves(d, "fence", s.cur + 1, "target", "none", s.new)
  <2>1. PICK p : p = [[s EXCEPT !.cur = @ + 1, !.done = @ + 1, !.then = "target",
                                !.out = "none"] EXCEPT !.pc = "fence"]
    OBVIOUS
  <2>2. p = [pc |-> "fence", gen |-> s.gen, cur |-> s.cur + 1, done |-> s.done + 1,
             then |-> "target", out |-> "none", row |-> s.row, new |-> s.new]
    BY <1>1, <2>1, DrainerType
  <2>3. s.cur + 1 \in 0 .. TotalItems /\ s.done + 1 \in 0 .. ItemBudget
    BY <1>1, <1>6, DrainerType, IntentConstants
  <2>4. p \in Drainer
    BY <1>1, <2>2, <2>3, DrainerType
  <2>5. Become(d, p)
    BY <1>6, <2>1 DEF Fence
  <2> QED
    BY <2>2, <2>4, <2>5, PutDrainer
<1> QED
  BY <1>4, <1>5, <1>6

-----------------------------------------------------------------------------
(* What a step does to the intents and to the Capsule.                     *)

Holds(g, status, next, token, live, receipt) ==
    /\ intent'[g].status = status
    /\ intent'[g].next = next
    /\ intent'[g].token = token
    /\ intent'[g].live = live
    /\ intent'[g].config = intent[g].config
    /\ intent'[g].receipt = receipt

(* A drainer takes the lease, and ends or continues its claim.             *)
Taken(d, g) ==
    /\ drainer[d].pc = "idle"
    /\ intent[g].status = "pending"
    /\ ~intent[g].live
    /\ Holds(g, "pending", intent[g].next, d, TRUE, intent[g].receipt)

Ends(g, out, cur) ==
    LET old == intent[g]
    IN  \/ /\ out = "materialized" /\ cur + 1 # TotalItems
           /\ \/ Holds(g, "pending", cur + 1, old.token, old.live, old.receipt)
              \/ Holds(g, "pending", cur + 1, None, FALSE, old.receipt)
        \/ /\ out = "materialized" /\ cur + 1 = TotalItems
           /\ Holds(g, "completed", TotalItems, None, FALSE, out)
        \/ /\ out \in {"retired", "superseded"}
           /\ Holds(g, "completed", old.next, None, FALSE, out)
        \/ /\ out \in {"retry", "deadline"}
           /\ Holds(g, "pending", old.next, None, FALSE, old.receipt)
        \/ /\ out \in {"dead", "refused"}
           /\ Holds(g, "dead_letter", old.next, None, FALSE, out)

Settled(d, g) ==
    /\ drainer[d].gen = g
    /\ drainer[d].pc = "settle"
    /\ Claimed(d)
    /\ Ends(g, drainer[d].out, drainer[d].cur)

(* Time passes.                                                            *)
Ages(g) ==
    LET old == intent[g]
    IN  /\ old.status = "pending"
        /\ \/ Holds(g, old.status, old.next, old.token, old.live, old.receipt)
           \/ Holds(g, old.status, old.next, old.token, FALSE, old.receipt)

(* The lifecycle adds an intent, retires one, or opens a dead letter.      *)
Fresh(g) ==
    /\ g = capsule.gen + 1 /\ capsule'.gen = g
    /\ intent'[g].status = "pending" /\ intent'[g].next = 0
    /\ intent'[g].token = None /\ ~intent'[g].live
    /\ intent'[g].config = capsule'.config
    /\ intent'[g].receipt = "none"

Retires(g) ==
    /\ intent[g].status \in Open
    /\ Holds(g, "completed", intent[g].next, None, FALSE, "superseded")

Reopens(g) ==
    /\ intent[g].status = "dead_letter"
    /\ Disposition(g, capsule) = "none"
    /\ UNCHANGED <<capsule, broken>>
    /\ Holds(g, "pending", intent[g].next, intent[g].token, intent[g].live, "none")

RowStep(g) ==
    \/ intent'[g] = intent[g]
    \/ \E d \in Drainers : drainer'[d] # drainer[d] /\ (Taken(d, g) \/ Settled(d, g))
    \/ Ages(g) \/ Fresh(g) \/ Retires(g) \/ Reopens(g)

(* The lineage of the Capsule stays, moves on, ends, or is rebound.        *)
CapsuleStep ==
    /\ capsule' \in Capsule
    /\ capsule'.gen >= capsule.gen
    /\ capsule'.alive => capsule.alive
    /\ \/ /\ capsule'.gen = capsule.gen /\ capsule'.config = capsule.config
          /\ capsule'.alive = capsule.alive
          /\ broken' = broken
       \/ capsule'.config = capsule.config /\ broken' = Broken(capsule')
       \/ /\ broken' = Broken(capsule')
          /\ \A g \in Generations : intent'[g].status \notin Open

CoreStep ==
    /\ intent' \in [Generations -> Intent]
    /\ \A g \in Generations : RowStep(g)
    /\ CapsuleStep
    /\ verified' \in [Generations -> SUBSET Items]
    /\ \A g \in Generations : verified[g] \subseteq verified'[g]

-----------------------------------------------------------------------------
(* What the steps preserve of the intents.                                 *)

(* The numbers of the model.                                               *)
LEMMA Numbers ==
    ASSUME TypeOK
    PROVE  /\ MaxGen \in Nat /\ TotalItems \in Nat \ {0} /\ ItemBudget \in Nat
           /\ capsule.gen \in Nat
           /\ \A g \in Generations : g \in Nat /\ intent[g] \in Intent /\ intent[g].next \in Nat
           /\ \A d \in Drainers : /\ drainer[d] \in Drainer /\ drainer[d].cur \in Nat
                                  /\ drainer[d].gen \in Nat /\ drainer[d].new.gen \in Nat
<1>1. MaxGen \in Nat /\ TotalItems \in Nat \ {0} /\ ItemBudget \in Nat
  BY IntentConstants
<1>2. capsule.gen \in Nat
  BY <1>1 DEF TypeOK, Capsule
<1>3. ASSUME NEW g \in Generations
      PROVE  g \in Nat /\ intent[g] \in Intent /\ intent[g].next \in Nat
  BY <1>1 DEF TypeOK, Intent, Generations
<1>4. ASSUME NEW d \in Drainers
      PROVE  /\ drainer[d] \in Drainer /\ drainer[d].cur \in Nat
             /\ drainer[d].gen \in Nat /\ drainer[d].new.gen \in Nat
  <2>1. drainer[d] \in Drainer
    BY DEF TypeOK
  <2>2. drainer[d].new \in Row /\ drainer[d].cur \in Nat /\ drainer[d].gen \in Nat
    BY <1>1, <2>1 DEF Drainer
  <2> QED
    BY <1>1, <2>1, <2>2 DEF Row
<1> QED
  BY <1>1, <1>2, <1>3, <1>4

(* The intents stay open for the Capsule's lineage, with an item left.     *)
LEMMA IntentStep ==
    ASSUME IInv, CoreStep
    PROVE  IntentInv'
<1>1. TypeOK /\ IntentInv /\ capsule' \in Capsule
  BY DEF IInv, CoreStep, CapsuleStep
<1>2. /\ capsule.gen \in Nat /\ capsule'.gen \in Nat /\ capsule'.gen >= capsule.gen
      /\ TotalItems \in Nat \ {0}
  BY <1>1, Numbers, IntentConstants DEF CoreStep, CapsuleStep, Capsule
<1>3. ASSUME NEW g \in Generations
      PROVE  /\ IF intent'[g].status = "absent" THEN intent'[g].next = 0 ELSE g <= capsule'.gen
             /\ intent'[g].status \in Open =>
                  intent'[g].next < TotalItems /\ intent'[g].config = capsule'.config
  <2>1. /\ IF intent[g].status = "absent" THEN intent[g].next = 0 ELSE g <= capsule.gen
        /\ intent[g].status \in Open =>
             intent[g].next < TotalItems /\ intent[g].config = capsule.config
        /\ g \in Nat /\ intent[g].next \in Nat
        /\ \A d \in Drainers : drainer[d].cur \in Nat
    BY <1>1, Numbers DEF IntentInv
  <2>2. intent[g].status # "absent" => g <= capsule'.gen
    BY <1>2, <2>1
  <2>3. capsule'.config = capsule.config \/ intent'[g].status \notin Open
    BY DEF CoreStep, CapsuleStep
  <2>4. CASE intent'[g] = intent[g]
    BY <2>1, <2>2, <2>3, <2>4
  <2>5. ASSUME NEW d \in Drainers, Taken(d, g) \/ Settled(d, g)
        PROVE  /\ intent'[g].status # "absent" /\ intent[g].status = "pending"
               /\ intent'[g].status \in Open =>
                    intent'[g].next < TotalItems /\ intent'[g].config = intent[g].config
    <3>1. CASE Taken(d, g)
      BY <2>1, <3>1 DEF Taken, Holds, Open
    <3>2. CASE Settled(d, g)
      <4>1. intent[g].status = "pending" /\ drainer[d].cur = intent[g].next
        BY <3>2 DEF Settled, Claimed
      <4>2. drainer[d].cur \in Nat /\ drainer[d].cur < TotalItems
        BY <2>1, <4>1 DEF Open
      <4> QED
        BY <1>2, <2>1, <3>2, <4>1, <4>2 DEF Settled, Ends, Holds, Open
    <3> QED
      BY <2>5, <3>1, <3>2
  <2>6. CASE Ages(g)
    BY <2>1, <2>2, <2>3, <2>6 DEF Ages, Holds
  <2>7. CASE Fresh(g)
    BY <1>2, <2>1, <2>7 DEF Fresh
  <2>8. CASE Retires(g) \/ Reopens(g)
    BY <2>1, <2>2, <2>3, <2>8 DEF Retires, Reopens, Holds, Open
  <2>9. CASE \E d \in Drainers : Taken(d, g) \/ Settled(d, g)
    BY <2>1, <2>2, <2>3, <2>5, <2>9 DEF Open
  <2> QED
    BY <2>4, <2>6, <2>7, <2>8, <2>9 DEF CoreStep, RowStep
<1> QED
  BY <1>3 DEF IntentInv

(* How an intent evolves: it does not disappear, stays completed as it is, *)
(* is live only while it is pending and owned, and moves on only.          *)
LEMMA RowSteps ==
    ASSUME IInv, CoreStep, NEW g \in Generations
    PROVE  /\ intent[g].status # "absent" =>
                intent'[g].status # "absent" /\ intent'[g].config = intent[g].config
           /\ intent'[g].live => intent'[g].status = "pending" /\ intent'[g].token # None
           /\ intent[g].status = "completed" =>
                /\ intent'[g].status = "completed"
                /\ intent'[g].next = intent[g].next
                /\ intent'[g].receipt = intent[g].receipt
           /\ intent'[g].next >= intent[g].next
<1>1. /\ TypeOK /\ g \in Nat /\ intent[g].next \in Nat /\ None \notin Drainers
      /\ capsule.gen \in Nat
      /\ intent[g].live => intent[g].status = "pending" /\ intent[g].token # None
      /\ intent[g].status = "absent" => intent[g].next = 0
      /\ intent[g].status # "absent" => g <= capsule.gen
      /\ intent[g].status \in Open => intent[g].next < TotalItems
  BY Numbers, IntentConstants DEF IInv, IntentInv, TypeOK
<1>2. CASE intent'[g] = intent[g]
  BY <1>1, <1>2
<1>3. ASSUME NEW d \in Drainers, Taken(d, g)
      PROVE  /\ intent[g].status = "pending" /\ intent'[g].status = "pending"
             /\ intent'[g].token # None /\ intent'[g].next = intent[g].next
             /\ intent'[g].config = intent[g].config
  BY <1>1, <1>3 DEF Taken, Holds
<1>4. ASSUME NEW d \in Drainers, Settled(d, g)
      PROVE  /\ intent[g].status = "pending" /\ intent'[g].status # "absent"
             /\ intent'[g].live => intent'[g].status = "pending" /\ intent'[g].token # None
             /\ intent'[g].next >= intent[g].next
             /\ intent'[g].config = intent[g].config
  <2>1. intent[g].status = "pending" /\ drainer[d].cur = intent[g].next
    BY <1>4 DEF Settled, Claimed
  <2>2. TotalItems \in Nat /\ intent[g].next < TotalItems
    BY <1>1, <2>1, IntentConstants DEF Open
  <2> QED
    BY <1>1, <1>4, <2>1, <2>2 DEF Settled, Ends, Holds
<1>5. CASE Ages(g)
  BY <1>1, <1>5 DEF Ages, Holds
<1>6. CASE Fresh(g)
  BY <1>1, <1>6 DEF Fresh
<1>7. CASE Retires(g) \/ Reopens(g)
  BY <1>1, <1>7 DEF Retires, Reopens, Holds, Open
<1> QED
  BY <1>1, <1>2, <1>3, <1>4, <1>5, <1>6, <1>7 DEF CoreStep, RowStep

(* A lineage that broke stays broken.                                      *)
LEMMA BrokenStep ==
    ASSUME IInv, CoreStep
    PROVE  BrokenInv' /\ broken' \subseteq Generations
<1>1. TypeOK /\ IntentInv /\ BrokenInv /\ capsule' \in Capsule
  BY DEF IInv, CoreStep, CapsuleStep
<1>2. /\ capsule.gen \in Nat /\ capsule'.gen \in Nat /\ capsule'.gen >= capsule.gen
      /\ capsule'.alive => capsule.alive
  BY <1>1, Numbers, IntentConstants DEF CoreStep, CapsuleStep, Capsule
<1>3. broken' \subseteq Generations
  BY <1>1 DEF CoreStep, CapsuleStep, Broken, TypeOK
<1>4. ASSUME NEW g \in Generations, intent[g].status # "absent",
             intent[g].status = "completed" \/ Left(g)
      PROVE  /\ intent'[g].status # "absent"
             /\ intent'[g].status = "completed" \/ Left(g)'
  <2>1. g \in Nat /\ g <= capsule.gen
    BY <1>1, <1>4, Numbers DEF IntentInv
  <2>2. Left(g) => Left(g)'
    BY <1>2, <2>1 DEF Left
  <2> QED
    BY <1>4, <2>2, RowSteps
<1>5. ASSUME NEW g \in broken'
      PROVE  /\ intent'[g].status # "absent"
             /\ intent'[g].status = "completed" \/ Left(g)'
  <2>1. CASE g \in broken
    BY <1>1, <1>4, <2>1 DEF BrokenInv, TypeOK
  <2>2. CASE g \notin broken
    <3>1. /\ g \in Generations /\ intent[g].status # "absent"
          /\ Disposition(g, capsule') # "none" /\ broken' = Broken(capsule')
      BY <1>5, <2>2 DEF CoreStep, CapsuleStep, Broken
    <3>2. intent'[g].status # "absent" /\ intent'[g] \in Intent
      BY <3>1, RowSteps DEF CoreStep
    <3>3. CASE intent'[g].status \notin Open
      BY <3>2, <3>3 DEF Open, Intent
    <3>4. CASE intent'[g].status \in Open
      <4>1. intent[g].config = capsule'.config
        BY <3>1, <3>4, IntentStep, RowSteps DEF IntentInv
      <4> QED
        BY <3>1, <3>2, <4>1 DEF Disposition, Left
    <3> QED
      BY <3>3, <3>4
  <2> QED
    BY <2>1, <2>2
<1> QED
  BY <1>3, <1>5 DEF BrokenInv

(* What a settlement records is what its drainer saw.                      *)
LEMMA SettledIsSeen ==
    ASSUME IInv, NEW d \in Drainers, NEW g \in Generations, Settled(d, g)
    PROVE  /\ drainer[d].out # "refused"
           /\ drainer[d].out = "materialized" => drainer[d].cur + 1 \in verified[g]
           /\ drainer[d].cur = intent[g].next
  BY DEF IInv, WorkInv, Informed, Settled, Claimed, Fencing

(* The cursors, and the receipts, stay true.                               *)
LEMMA CursorStep ==
    ASSUME IInv, CoreStep
    PROVE  CursorIsTrue' /\ DeadLetterIsHonest'
<1>1. TypeOK /\ CursorIsTrue /\ DeadLetterIsHonest /\ TotalItems \in Nat
  BY IntentConstants DEF IInv
<1>2. ASSUME NEW g \in Generations
      PROVE  /\ 1 .. intent'[g].next \subseteq verified'[g]
             /\ intent'[g].receipt = "materialized" => verified'[g] = Items
             /\ intent'[g].receipt # "refused"
  <2>1. /\ 1 .. intent[g].next \subseteq verified[g]
        /\ intent[g].receipt = "materialized" => verified[g] = Items
        /\ intent[g].receipt # "refused"
        /\ verified[g] \subseteq verified'[g] /\ verified'[g] \subseteq Items
        /\ intent[g].next \in Nat
    BY <1>1, Numbers DEF CursorIsTrue, DeadLetterIsHonest, CoreStep
  <2>2. CASE intent'[g] = intent[g] \/ Ages(g) \/ Retires(g) \/ Reopens(g)
    BY <2>1, <2>2 DEF Ages, Retires, Reopens, Holds
  <2>3. CASE Fresh(g)
    BY <2>1, <2>3 DEF Fresh
  <2>4. ASSUME NEW d \in Drainers, Taken(d, g)
        PROVE  intent'[g].next = intent[g].next /\ intent'[g].receipt = intent[g].receipt
    BY <2>4 DEF Taken, Holds
  <2>5. ASSUME NEW d \in Drainers, Settled(d, g)
        PROVE  /\ 1 .. intent'[g].next \subseteq verified'[g]
               /\ intent'[g].receipt = "materialized" => verified'[g] = Items
               /\ intent'[g].receipt # "refused"
    <3>1. /\ drainer[d].out # "refused"
          /\ drainer[d].out = "materialized" => intent[g].next + 1 \in verified[g]
          /\ Ends(g, drainer[d].out, intent[g].next)
      BY <2>5, SettledIsSeen DEF Settled
    <3>2. CASE drainer[d].out = "materialized"
      <4>1. 1 .. intent[g].next + 1 \subseteq verified[g]
        BY <2>1, <3>1, <3>2
      <4>2. CASE intent[g].next + 1 # TotalItems
        <5>1. /\ intent'[g].next = intent[g].next + 1
              /\ intent'[g].receipt = intent[g].receipt
          BY <3>1, <3>2, <4>2 DEF Ends, Holds
        <5> QED
          BY <2>1, <4>1, <5>1
      <4>3. CASE intent[g].next + 1 = TotalItems
        <5>1. intent'[g].next = TotalItems /\ intent'[g].receipt = "materialized"
          BY <3>1, <3>2, <4>3 DEF Ends, Holds
        <5>2. verified'[g] = Items
          BY <2>1, <4>1, <4>3 DEF Items
        <5> QED
          BY <5>1, <5>2 DEF Items
      <4> QED
        BY <4>2, <4>3
    <3>3. CASE drainer[d].out # "materialized"
      <4>1. /\ intent'[g].next = intent[g].next
            /\ intent'[g].receipt \in {intent[g].receipt, "retired", "superseded", "dead"}
        BY <3>1, <3>3 DEF Ends, Holds
      <4> QED
        BY <2>1, <4>1
    <3> QED
      BY <3>2, <3>3
  <2> QED
    BY <2>1, <2>2, <2>3, <2>4, <2>5 DEF CoreStep, RowStep
<1> QED
  BY <1>2 DEF CursorIsTrue, DeadLetterIsHonest

-----------------------------------------------------------------------------
(* What the steps preserve of a drainer.                                   *)

(* A claim that was lost is not regained by waiting.                       *)
LEMMA LostStep ==
    ASSUME IInv, CoreStep, NEW d \in Drainers, drainer'[d] = drainer[d],
           drainer[d].pc # "idle", ~Claimed(d)
    PROVE  ~Claimed(d)'
<1>1. PICK g \in Generations : g = drainer[d].gen /\ intent[g].status # "absent"
  BY DEF IInv, WorkInv, Informed
<1>2. /\ TypeOK /\ g \in Nat /\ g <= capsule.gen /\ capsule.gen \in Nat
      /\ intent[g].live => intent[g].status = "pending"
  BY <1>1, Numbers DEF IInv, IntentInv, TypeOK
<1>3. SUFFICES ASSUME intent'[g].status = "pending", intent'[g].token = d, intent'[g].live,
                      intent'[g].next = drainer[d].cur
               PROVE  FALSE
  BY <1>1 DEF Claimed
<1>4. CASE intent'[g] = intent[g]
  BY <1>1, <1>3, <1>4 DEF Claimed
<1>5. ASSUME NEW e \in Drainers, drainer'[e] # drainer[e], Taken(e, g) \/ Settled(e, g)
      PROVE  FALSE
  <2>1. e # d /\ None \notin Drainers
    BY <1>5, IntentConstants
  <2>2. CASE Taken(e, g)
    BY <1>3, <2>1, <2>2 DEF Taken, Holds
  <2>3. CASE Settled(e, g)
    <3>1. intent[g].token = e
      BY <2>3 DEF Settled, Claimed
    <3> QED
      BY <1>3, <2>1, <2>3, <3>1 DEF Settled, Ends, Holds
  <2> QED
    BY <1>5, <2>2, <2>3
<1>6. CASE Ages(g)
  <2>1. /\ intent'[g].status = intent[g].status /\ intent'[g].token = intent[g].token
        /\ intent'[g].next = intent[g].next
        /\ intent'[g].live = intent[g].live \/ intent'[g].live = FALSE
    BY <1>6 DEF Ages, Holds
  <2> QED
    BY <1>1, <1>3, <2>1 DEF Claimed
<1>7. CASE Fresh(g)
  BY <1>2, <1>7 DEF Fresh
<1>8. CASE Retires(g)
  BY <1>3, <1>8 DEF Retires, Holds
<1>9. CASE Reopens(g)
  BY <1>2, <1>3, <1>9 DEF Reopens, Holds
<1> QED
  BY <1>4, <1>5, <1>6, <1>7, <1>8, <1>9 DEF CoreStep, RowStep

(* A generation that the Capsule left stays behind.                        *)
LEMMA LeftStep ==
    ASSUME IInv, CoreStep, NEW g \in Generations, intent[g].status # "absent"
    PROVE  /\ Left(g) => Left(g)'
           /\ capsule.gen # g => capsule'.gen # g
           /\ intent'[g].status # "absent"
           /\ verified[g] \subseteq verified'[g]
           /\ g <= capsule.gen /\ capsule.gen <= capsule'.gen
           /\ g \in Nat /\ capsule.gen \in Nat /\ capsule'.gen \in Nat
<1>1. TypeOK /\ IntentInv /\ capsule' \in Capsule
  BY DEF IInv, CoreStep, CapsuleStep
<1>2. /\ capsule.gen \in Nat /\ capsule'.gen \in Nat /\ capsule'.gen >= capsule.gen
      /\ capsule'.alive => capsule.alive
      /\ g \in Nat /\ g <= capsule.gen
  BY <1>1, Numbers, IntentConstants DEF CoreStep, CapsuleStep, Capsule, IntentInv
<1> QED
  BY <1>2, RowSteps DEF Left, CoreStep

(* A drainer that the step leaves alone stays informed.                    *)
LEMMA OthersInformed ==
    ASSUME IInv, CoreStep, NEW d \in Drainers, drainer'[d] = drainer[d]
    PROVE  Informed(d)'
<1>1. Informed(d) /\ TypeOK
  BY DEF IInv, WorkInv
<1>2. PICK s \in Drainer : s = drainer[d] /\ s = drainer'[d]
  BY <1>1, Numbers
<1>3. CASE s.pc = "idle"
  <2>1. s = Idle
    BY <1>1, <1>2, <1>3 DEF Informed
  <2> QED
    BY <1>2, <2>1 DEF Informed, Idle, Phase, Fencing
<1>4. CASE s.pc # "idle"
  <2>1. PICK g \in Generations : g = s.gen /\ intent[g].status # "absent"
    BY <1>1, <1>2, <1>4 DEF Informed
  <2>2. ~Claimed(d) => ~Claimed(d)'
    BY <1>2, <1>4, LostStep
  <2>3. /\ Left(g) => Left(g)'
        /\ capsule.gen # g => capsule'.gen # g
        /\ intent'[g].status # "absent"
        /\ verified[g] \subseteq verified'[g]
        /\ capsule.gen <= capsule'.gen
        /\ capsule.gen \in Nat /\ capsule'.gen \in Nat
    BY <2>1, LeftStep
  <2>4. s.out = "materialized" => \/ s.cur + 1 \in verified'[g]
                                  \/ s.pc \in Fencing /\ capsule'.gen # g
    BY <1>1, <1>2, <2>1, <2>3 DEF Informed
  <2>5. s.out = "refused" =>
          s.pc \in Fencing /\ (Left(g)' \/ (s.pc # "lineage" /\ ~Claimed(d)'))
    BY <1>1, <1>2, <2>1, <2>2, <2>3 DEF Informed
  <2>6. s.new.gen \in Nat
    BY <1>1, <1>2, Numbers
  <2>7. s.new.gen # 0 \/ s.new.phase = "Resolved" =>
          s.gen <= s.new.gen /\ s.new.gen <= capsule'.gen
    BY <1>1, <1>2, <2>3, <2>6 DEF Informed
  <2>8. /\ s.cur < TotalItems
        /\ s.pc = "settle" \/ (s.pc \in Fencing /\ s.then = "settle") => s.out # "none"
    BY <1>1, <1>2, <1>4 DEF Informed
  <2> QED
    BY <1>2, <1>4, <2>1, <2>3, <2>4, <2>5, <2>7, <2>8 DEF Informed
<1> QED
  BY <1>3, <1>4

-----------------------------------------------------------------------------
(* What a drainer knows after its own steps.                               *)

(* A step that neither the intents nor the Capsule see.                    *)
LEMMA QuietCore ==
    ASSUME IInv, UNCHANGED <<capsule, intent, broken>>,
           verified' \in [Generations -> SUBSET Items],
           \A g \in Generations : verified[g] \subseteq verified'[g]
    PROVE  CoreStep
<1>1. capsule \in Capsule /\ capsule.gen \in Nat /\ intent \in [Generations -> Intent]
  BY Numbers DEF IInv, TypeOK
<1>2. CapsuleStep
  BY <1>1 DEF CapsuleStep
<1>3. \A g \in Generations : RowStep(g)
  BY DEF RowStep
<1> QED
  BY <1>1, <1>2, <1>3 DEF CoreStep

(* The types of a drainer at work.                                         *)
LEMMA Busy ==
    ASSUME IInv, NEW d \in Drainers, drainer[d].pc # "idle"
    PROVE  /\ drainer[d] \in Drainer /\ drainer[d].gen \in Generations
           /\ drainer[d].cur \in Nat /\ drainer[d].cur + 1 \in Items
           /\ drainer[d].cur < TotalItems
           /\ intent[drainer[d].gen].status # "absent"
           /\ drainer[d].then \in Thens /\ drainer[d].out \in Outcomes
           /\ drainer[d].new \in Row
<1>1. /\ drainer[d].gen \in Generations /\ drainer[d].cur < TotalItems
      /\ intent[drainer[d].gen].status # "absent"
  BY DEF IInv, WorkInv, Informed
<1>2. drainer[d] \in Drainer /\ drainer[d].cur \in Nat /\ TotalItems \in Nat
  BY Numbers DEF IInv
<1>3. /\ drainer[d].then \in Thens /\ drainer[d].out \in Outcomes
      /\ drainer[d].new \in Row
  BY <1>2, DrainerType
<1> QED
  BY <1>1, <1>2, <1>3 DEF Items

(* An item that is seen resolved is remembered, and nothing is forgotten.  *)
LEMMA VerifyGrows ==
    ASSUME IInv, NEW d \in Drainers, drainer[d].pc # "idle", NEW row,
           verified' = Verify(drainer[d], row)
    PROVE  /\ verified' \in [Generations -> SUBSET Items]
           /\ \A g \in Generations : verified[g] \subseteq verified'[g]
           /\ row = [phase |-> "Resolved", gen |-> drainer[d].gen] =>
                drainer[d].cur + 1 \in verified'[drainer[d].gen]
<1>1. PICK g \in Generations : g = drainer[d].gen
  BY Busy
<1>2. PICK k \in Items : k = drainer[d].cur + 1
  BY Busy
<1>3. verified \in [Generations -> SUBSET Items]
  BY DEF IInv, TypeOK
<1>4. CASE row # [phase |-> "Resolved", gen |-> g]
  BY <1>1, <1>3, <1>4 DEF Verify
<1>5. CASE row = [phase |-> "Resolved", gen |-> g]
  <2>1. verified' = [verified EXCEPT ![g] = verified[g] \cup {k}]
    BY <1>1, <1>2, <1>5 DEF Verify
  <2> QED
    BY <1>1, <1>2, <1>3, <2>1
<1> QED
  BY <1>4, <1>5

(* The memory of a drainer that moved, part by part.                       *)
LEMMA MovedInformed ==
    ASSUME IInv, CoreStep, NEW d \in Drainers, drainer[d].pc # "idle",
           NEW pc \in Pcs \ {"idle"}, NEW cur, NEW then, NEW out, NEW new,
           Moves(d, pc, cur, then, out, new), cur < TotalItems,
           pc = "settle" \/ (pc \in Fencing /\ then = "settle") => out # "none",
           out = "materialized" => \/ cur + 1 \in verified'[drainer[d].gen]
                                   \/ pc \in Fencing /\ capsule'.gen # drainer[d].gen,
           out = "refused" =>
             /\ pc \in Fencing
             /\ Left(drainer[d].gen)' \/ (pc # "lineage" /\ ~Claimed(d)'),
           new.gen # 0 \/ new.phase = "Resolved" =>
             drainer[d].gen <= new.gen /\ new.gen <= capsule'.gen
    PROVE  Informed(d)'
<1>1. PICK g \in Generations : g = drainer[d].gen
  BY Busy
<1>2. intent'[g].status # "absent"
  BY <1>1, Busy, LeftStep
<1>3. g = drainer'[d].gen
  BY <1>1 DEF Moves
<1> QED
  BY <1>1, <1>2, <1>3 DEF Moves, Informed

(* What a step of a drainer leaves behind.                                 *)
DrainStep(d) == CoreStep /\ OthersRest(d) /\ Informed(d)'

(* A drainer that stops is informed.                                       *)
LEMMA IdleInformed ==
    ASSUME CoreStep, NEW d \in Drainers, Rests(d)
    PROVE  DrainStep(d)
  BY DEF DrainStep, Rests, Informed, Idle, Phase, Fencing

(* A drainer that moves while the intents and the Capsule rest.            *)
LEMMA QuietInformed ==
    ASSUME IInv, UNCHANGED <<capsule, intent, broken>>,
           verified' \in [Generations -> SUBSET Items],
           \A g \in Generations : verified[g] \subseteq verified'[g],
           NEW d \in Drainers, NEW s, s = drainer[d], s.pc # "idle",
           NEW pc \in Pcs \ {"idle"}, NEW then, NEW out, NEW new,
           Moves(d, pc, s.cur, then, out, new),
           pc = "settle" \/ (pc \in Fencing /\ then = "settle") => out # "none",
           out = "materialized" => \/ s.cur + 1 \in verified'[s.gen]
                                   \/ pc \in Fencing /\ capsule.gen # s.gen,
           out = "refused" =>
             pc \in Fencing /\ (Left(s.gen) \/ (pc # "lineage" /\ ~Claimed(d))),
           \/ new = s.new
           \/ new.gen # 0 \/ new.phase = "Resolved" =>
                s.gen <= new.gen /\ new.gen <= capsule.gen
    PROVE  DrainStep(d)
<1>1. CoreStep
  BY QuietCore
<1>2. PICK g : g = drainer[d].gen /\ g = s.gen /\ g = drainer'[d].gen
  BY DEF Moves
<1>3. s.cur < TotalItems
  BY Busy
<1>4. Left(g) => Left(g)'
  BY DEF Left
<1>5. ~Claimed(d) => ~Claimed(d)'
  BY <1>2 DEF Claimed, Moves
<1>6. new.gen # 0 \/ new.phase = "Resolved" => g <= new.gen /\ new.gen <= capsule'.gen
  BY <1>2 DEF IInv, WorkInv, Informed
<1>7. out = "refused" =>
        pc \in Fencing /\ (Left(drainer[d].gen)' \/ (pc # "lineage" /\ ~Claimed(d)'))
  BY <1>2, <1>4, <1>5 DEF Left
<1>8. out = "materialized" => \/ s.cur + 1 \in verified'[drainer[d].gen]
                              \/ pc \in Fencing /\ capsule'.gen # drainer[d].gen
  BY <1>2
<1>9. Informed(d)'
  BY <1>1, <1>2, <1>3, <1>6, <1>7, <1>8, MovedInformed
<1> QED
  BY <1>1, <1>9 DEF DrainStep, Moves

(* What a drainer knows that is not at the fence.                          *)
LEMMA Plain ==
    ASSUME IInv, NEW d \in Drainers, NEW s, s = drainer[d], s.pc # "idle",
           s.pc \notin Fencing
    PROVE  /\ s.out # "refused"
           /\ s.out = "materialized" => s.cur + 1 \in verified[s.gen]
  BY DEF IInv, WorkInv, Informed

(* The reads of the lineage.                                               *)
LEMMA ReadLineageStep ==
    ASSUME IInv, NEW d \in Drainers, ReadLineage(d)
    PROVE  DrainStep(d)
<1>1. PICK s : s = drainer[d]
  OBVIOUS
<1>2. /\ TypeOK /\ s.pc \in {"read", "reread"} /\ s.pc # "idle" /\ s.pc \notin Fencing
      /\ UNCHANGED <<capsule, intent, broken, verified>>
      /\ verified' \in [Generations -> SUBSET Items]
  BY <1>1 DEF ReadLineage, Fencing, IInv, TypeOK
<1>3. s.then \in Thens /\ s.out \in Outcomes /\ s.new \in Row
  BY <1>1, <1>2, Busy
<1>4. /\ s.out # "refused"
      /\ s.out = "materialized" => s.cur + 1 \in verified'[s.gen]
  BY <1>1, <1>2, Plain
<1>5. PICK disposition \in {"none", "retired", "superseded"} :
        disposition = Disposition(s.gen, capsule)
  BY DEF Disposition
<1>6. {"settle", "acquire", "fence"} \subseteq Pcs /\ "target" \in Thens
      /\ "fence" \in Fencing /\ disposition \in Outcomes
  BY DEF Pcs, Thens, Fencing, Outcomes
<1>7. ASSUME disposition # "none",
             Become(d, [s EXCEPT !.pc = "settle", !.out = disposition])
      PROVE  DrainStep(d)
  <2>1. Goes(d, "settle", s.then, disposition)
    BY <1>1, <1>2, <1>3, <1>6, <1>7, MoveDrainer
  <2>2. Moves(d, "settle", s.cur, s.then, disposition, s.new)
    BY <1>1, <2>1 DEF Goes
  <2> QED
    BY <1>1, <1>2, <1>6, <1>7, <2>2, QuietInformed
<1>8. ASSUME Become(d, [s EXCEPT !.pc = "acquire"])
      PROVE  DrainStep(d)
  <2>1. Goes(d, "acquire", s.then, s.out)
    BY <1>1, <1>2, <1>3, <1>6, <1>8, MoveDrainer
  <2>2. Moves(d, "acquire", s.cur, s.then, s.out, s.new)
    BY <1>1, <2>1 DEF Goes
  <2>3. "acquire" \notin Fencing
    BY DEF Fencing
  <2> QED
    BY <1>1, <1>2, <1>4, <1>6, <2>2, <2>3, QuietInformed
<1>9. ASSUME Fence(d, [s EXCEPT !.then = "target"])
      PROVE  DrainStep(d)
  <2>1. Goes(d, "fence", "target", s.out)
    BY <1>1, <1>2, <1>3, <1>6, <1>9, MoveDrainer
  <2>2. Moves(d, "fence", s.cur, "target", s.out, s.new)
    BY <1>1, <2>1 DEF Goes
  <2> QED
    BY <1>1, <1>2, <1>4, <1>6, <2>2, QuietInformed
<1> QED
  BY <1>1, <1>5, <1>7, <1>8, <1>9 DEF ReadLineage

(* The Capsule lease.                                                      *)
LEMMA AcquireStep ==
    ASSUME IInv, NEW d \in Drainers, Acquire(d)
    PROVE  DrainStep(d)
<1>1. PICK s : s = drainer[d]
  OBVIOUS
<1>2. /\ TypeOK /\ s.pc = "acquire" /\ s.pc # "idle" /\ s.pc \notin Fencing
      /\ UNCHANGED <<capsule, intent, broken, verified>>
      /\ verified' \in [Generations -> SUBSET Items]
  BY <1>1 DEF Acquire, Fencing, IInv, TypeOK
<1>3. s.then \in Thens /\ s.out \in Outcomes /\ s.new \in Row
  BY <1>1, <1>2, Busy
<1>4. /\ s.out # "refused"
      /\ s.out = "materialized" => s.cur + 1 \in verified'[s.gen]
  BY <1>1, <1>2, Plain
<1>5. {"settle", "reread"} \subseteq Pcs /\ "reread" \notin Fencing /\ "retry" \in Outcomes
  BY DEF Pcs, Fencing, Outcomes
<1>6. ASSUME Become(d, [s EXCEPT !.pc = "reread"])
      PROVE  DrainStep(d)
  <2>1. Goes(d, "reread", s.then, s.out)
    BY <1>1, <1>2, <1>3, <1>5, <1>6, MoveDrainer
  <2>2. Moves(d, "reread", s.cur, s.then, s.out, s.new)
    BY <1>1, <2>1 DEF Goes
  <2> QED
    BY <1>1, <1>2, <1>4, <1>5, <2>2, QuietInformed
<1>7. ASSUME Become(d, [s EXCEPT !.pc = "settle", !.out = "retry"])
      PROVE  DrainStep(d)
  <2>1. Goes(d, "settle", s.then, "retry")
    BY <1>1, <1>2, <1>3, <1>5, <1>7, MoveDrainer
  <2>2. Moves(d, "settle", s.cur, s.then, "retry", s.new)
    BY <1>1, <2>1 DEF Goes
  <2> QED
    BY <1>1, <1>2, <1>5, <2>2, QuietInformed
<1> QED
  BY <1>1, <1>6, <1>7 DEF Acquire

(* The fence passes only a claimant of the Capsule's lineage, so that what *)
(* it decided is true of this lineage.                                     *)
LEMMA AssertCurrentStep ==
    ASSUME IInv, NEW d \in Drainers, AssertCurrent(d)
    PROVE  DrainStep(d)
<1>1. PICK s : s = drainer[d]
  OBVIOUS
<1>2. /\ TypeOK /\ s.pc \in Fencing /\ s.pc # "idle"
      /\ UNCHANGED <<capsule, intent, broken, verified>>
      /\ verified' \in [Generations -> SUBSET Items]
  BY <1>1 DEF AssertCurrent, Fencing, IInv, TypeOK
<1>3. s.then \in Thens /\ s.out \in Outcomes /\ s.new \in Row
  BY <1>1, <1>2, Busy
<1>4. /\ s.then = "settle" => s.out # "none"
      /\ s.out = "materialized" => s.cur + 1 \in verified'[s.gen] \/ capsule.gen # s.gen
      /\ s.out = "refused" => Left(s.gen) \/ (s.pc # "lineage" /\ ~Claimed(d))
  BY <1>1, <1>2 DEF IInv, WorkInv, Informed
<1>5. /\ {"renew", "lineage", "release"} \cup Thens \subseteq Pcs \ {"idle"}
      /\ {"renew", "lineage"} \subseteq Fencing
      /\ "release" \notin Fencing /\ "none" \in Outcomes
      /\ \A then \in Thens : then \notin Fencing
  BY DEF Pcs, Fencing, Outcomes, Thens
<1>6. ASSUME Become(d, [s EXCEPT !.pc = "release", !.out = "none"])
      PROVE  DrainStep(d)
  <2>1. Goes(d, "release", s.then, "none")
    BY <1>1, <1>2, <1>3, <1>5, <1>6, MoveDrainer
  <2>2. Moves(d, "release", s.cur, s.then, "none", s.new)
    BY <1>1, <2>1 DEF Goes
  <2> QED
    BY <1>1, <1>2, <1>5, <2>2, QuietInformed
<1>7. ASSUME Become(d, [s EXCEPT !.pc = "renew"])
      PROVE  DrainStep(d)
  <2>1. Goes(d, "renew", s.then, s.out)
    BY <1>1, <1>2, <1>3, <1>5, <1>7, MoveDrainer
  <2>2. Moves(d, "renew", s.cur, s.then, s.out, s.new)
    BY <1>1, <2>1 DEF Goes
  <2> QED
    BY <1>1, <1>2, <1>4, <1>5, <2>2, QuietInformed
<1>8. ASSUME Claimed(d), Become(d, [s EXCEPT !.pc = "lineage"])
      PROVE  DrainStep(d)
  <2>1. Goes(d, "lineage", s.then, s.out)
    BY <1>1, <1>2, <1>3, <1>5, <1>8, MoveDrainer
  <2>2. Moves(d, "lineage", s.cur, s.then, s.out, s.new)
    BY <1>1, <2>1 DEF Goes
  <2> QED
    BY <1>1, <1>2, <1>4, <1>5, <1>8, <2>2, QuietInformed
<1>9. ASSUME s.pc = "lineage", Disposition(s.gen, capsule) = "none",
             Become(d, [s EXCEPT !.pc = s.then])
      PROVE  DrainStep(d)
  <2>1. Goes(d, s.then, s.then, s.out)
    BY <1>1, <1>2, <1>3, <1>5, <1>9, MoveDrainer
  <2>2. Moves(d, s.then, s.cur, s.then, s.out, s.new)
    BY <1>1, <2>1 DEF Goes
  <2>3. capsule.gen = s.gen /\ ~Left(s.gen)
    BY <1>9 DEF Disposition, Left
  <2>4. s.then \in Pcs \ {"idle"} /\ s.then \notin Fencing
    BY <1>3, <1>5
  <2> QED
    BY <1>1, <1>2, <1>4, <1>9, <2>2, <2>3, <2>4, QuietInformed
<1> QED
  BY <1>1, <1>6, <1>7, <1>8, <1>9 DEF AssertCurrent

(* The time budget at the fence.                                           *)
LEMMA DeadlineStep ==
    ASSUME IInv, NEW d \in Drainers, Deadline(d)
    PROVE  DrainStep(d)
<1>1. PICK s : s = drainer[d]
  OBVIOUS
<1>2. /\ TypeOK /\ s.pc # "idle"
      /\ UNCHANGED <<capsule, intent, broken, verified>>
      /\ verified' \in [Generations -> SUBSET Items]
  BY <1>1 DEF Deadline, IInv, TypeOK
<1>3. s.then \in Thens /\ s.out \in Outcomes /\ s.new \in Row
  BY <1>1, <1>2, Busy
<1>4. "release" \in Pcs \ {"idle"} /\ "release" \notin Fencing /\ "deadline" \in Outcomes
  BY DEF Pcs, Fencing, Outcomes
<1>5. Become(d, [s EXCEPT !.pc = "release", !.out = "deadline"])
  BY <1>1 DEF Deadline
<1>6. Goes(d, "release", s.then, "deadline")
  BY <1>1, <1>2, <1>3, <1>4, <1>5, MoveDrainer
<1>7. Moves(d, "release", s.cur, s.then, "deadline", s.new)
  BY <1>1, <1>6 DEF Goes
<1> QED
  BY <1>1, <1>2, <1>4, <1>7, QuietInformed

(* What a reconcile resolves to is a row, of the current Output if any.    *)
LEMMA ResolutionRow ==
    ASSUME TypeOK
    PROVE  /\ Resolution \in Row
           /\ Resolution.gen # 0 \/ Resolution.phase = "Resolved" =>
                Resolution = [phase |-> "Resolved", gen |-> capsule.gen]
<1>1. capsule.gen \in 0 .. MaxGen /\ 0 \in 0 .. MaxGen
  BY IntentConstants DEF TypeOK, Capsule
<1>2. Phase("Terminating") \in Row /\ Phase("Unsafe") \in Row /\ Phase("NotReady") \in Row
      /\ [phase |-> "Resolved", gen |-> capsule.gen] \in Row
  BY <1>1 DEF Phase, Row
<1>3. Resolution \in {Phase("Terminating"), Phase("Unsafe"), Phase("NotReady"),
                      [phase |-> "Resolved", gen |-> capsule.gen]}
  BY DEF Resolution
<1> QED
  BY <1>2, <1>3 DEF Phase

(* Only a row that is Resolved counts as materialized.                     *)
LEMMA ResultOutcome ==
    ASSUME NEW row
    PROVE  /\ Result(row) \in Outcomes /\ Result(row) \notin {"none", "refused"}
           /\ Result(row) = "materialized" => row.phase = "Resolved"
<1>1. Result(row) \in {"materialized", "retry", "dead"}
  BY DEF Result
<1>2. Result(row) = "materialized" => row.phase = "Resolved"
  BY DEF Result
<1> QED
  BY <1>1, <1>2 DEF Outcomes

(* A row that is left alone and Resolved is of the current Output.         *)
LEMMA TargetStep ==
    ASSUME IInv, NEW d \in Drainers, Target(d)
    PROVE  DrainStep(d)
<1>1. PICK s : s = drainer[d]
  OBVIOUS
<1>2. /\ TypeOK /\ s.pc = "target" /\ s.pc # "idle" /\ s.pc \notin Fencing
      /\ UNCHANGED <<capsule, intent, broken>>
  BY <1>1 DEF Target, Fencing, IInv
<1>3. PICK row : row = iface[s.cur + 1]
  OBVIOUS
<1>4. row \in Row
  BY <1>1, <1>2, <1>3, Busy DEF TypeOK
<1>5. verified' = Verify(drainer[d], row)
  BY <1>1, <1>3 DEF Target
<1>6. /\ verified' \in [Generations -> SUBSET Items]
      /\ \A g \in Generations : verified[g] \subseteq verified'[g]
      /\ row = [phase |-> "Resolved", gen |-> s.gen] => s.cur + 1 \in verified'[s.gen]
  BY <1>1, <1>2, <1>5, VerifyGrows
<1>7. s.then \in Thens /\ s.out \in Outcomes /\ s.new \in Row /\ s.gen \in Generations
  BY <1>1, <1>2, Busy
<1>8. /\ s.out # "refused"
      /\ s.out = "materialized" => s.cur + 1 \in verified'[s.gen]
  BY <1>1, <1>2, <1>6, <1>7, Plain
<1>9. /\ "fence" \in Pcs \ {"idle"} /\ "fence" \in Fencing
      /\ {"create", "settle", "resolve"} \subseteq Thens
  BY DEF Pcs, Fencing, Thens
<1>10. ASSUME Fence(d, [s EXCEPT !.then = "create"])
       PROVE  DrainStep(d)
  <2>1. Goes(d, "fence", "create", s.out)
    BY <1>1, <1>2, <1>7, <1>9, <1>10, MoveDrainer
  <2>2. Moves(d, "fence", s.cur, "create", s.out, s.new)
    BY <1>1, <2>1 DEF Goes
  <2> QED
    BY <1>1, <1>2, <1>6, <1>8, <1>9, <2>2, QuietInformed
<1>11. ASSUME row.phase \in {"Terminating", "Unknown", "Unsafe", "Retired"} \/ row = Resolution,
              Fence(d, [s EXCEPT !.then = "settle", !.out = Result(row)])
       PROVE  DrainStep(d)
  <2>1. PICK out \in Outcomes \ {"none", "refused"} : out = Result(row)
    BY ResultOutcome
  <2>2. Goes(d, "fence", "settle", out)
    BY <1>1, <1>2, <1>4, <1>7, <1>9, <1>11, <2>1, MoveDrainer
  <2>3. Moves(d, "fence", s.cur, "settle", out, s.new)
    BY <1>1, <2>2 DEF Goes
  <2>4. out = "materialized" => s.cur + 1 \in verified'[s.gen] \/ capsule.gen # s.gen
    BY <1>2, <1>6, <1>11, <2>1, ResultOutcome, ResolutionRow
  <2> QED
    BY <1>1, <1>2, <1>6, <1>9, <2>1, <2>3, <2>4, QuietInformed
<1>12. ASSUME Fence(d, [s EXCEPT !.then = "resolve", !.row = row, !.new = Resolution])
       PROVE  DrainStep(d)
  <2>1. PICK new \in Row : new = Resolution
    BY <1>2, ResolutionRow
  <2>2. Moves(d, "fence", s.cur, "resolve", s.out, new)
    BY <1>1, <1>2, <1>4, <1>7, <1>9, <1>12, <2>1, MoveDrainer
  <2>3. s.gen <= capsule.gen /\ capsule.gen <= capsule.gen
    BY <1>1, <1>2, <1>7, Busy, Numbers DEF IInv, IntentInv
  <2>4. new.gen # 0 \/ new.phase = "Resolved" => s.gen <= new.gen /\ new.gen <= capsule.gen
    BY <1>2, <2>1, <2>3, ResolutionRow
  <2> QED
    BY <1>1, <1>2, <1>6, <1>8, <1>9, <2>2, <2>4, QuietInformed
<1> QED
  BY <1>1, <1>3, <1>10, <1>11, <1>12 DEF Target

(* A refused create means a claim or a lineage that is lost.               *)
LEMMA CreateStep ==
    ASSUME IInv, NEW d \in Drainers, Create(d)
    PROVE  DrainStep(d)
<1>1. PICK s : s = drainer[d]
  OBVIOUS
<1>2. /\ TypeOK /\ s.pc = "create" /\ s.pc # "idle" /\ s.pc \notin Fencing
      /\ UNCHANGED <<capsule, intent, broken, verified>>
      /\ verified' \in [Generations -> SUBSET Items]
  BY <1>1 DEF Create, Fencing, IInv, TypeOK
<1>3. s.then \in Thens /\ s.out \in Outcomes /\ s.new \in Row /\ s.gen \in Generations
  BY <1>1, <1>2, Busy
<1>4. /\ s.out # "refused"
      /\ s.out = "materialized" => s.cur + 1 \in verified'[s.gen]
  BY <1>1, <1>2, Plain
<1>5. /\ {"fence", "target"} \subseteq Pcs \ {"idle"} /\ "fence" \in Fencing
      /\ "target" \notin Fencing /\ "settle" \in Thens /\ "refused" \in Outcomes
  BY DEF Pcs, Fencing, Thens, Outcomes
<1>6. ASSUME Become(d, [s EXCEPT !.pc = "target"])
      PROVE  DrainStep(d)
  <2>1. Goes(d, "target", s.then, s.out)
    BY <1>1, <1>2, <1>3, <1>5, <1>6, MoveDrainer
  <2>2. Moves(d, "target", s.cur, s.then, s.out, s.new)
    BY <1>1, <2>1 DEF Goes
  <2> QED
    BY <1>1, <1>2, <1>4, <1>5, <2>2, QuietInformed
<1>7. ASSUME ~Authority(d), Fence(d, [s EXCEPT !.then = "settle", !.out = "refused"])
      PROVE  DrainStep(d)
  <2>1. Goes(d, "fence", "settle", "refused")
    BY <1>1, <1>2, <1>3, <1>5, <1>7, MoveDrainer
  <2>2. Moves(d, "fence", s.cur, "settle", "refused", s.new)
    BY <1>1, <2>1 DEF Goes
  <2>3. CASE ~Claimed(d)
    BY <1>1, <1>2, <1>5, <2>2, <2>3, QuietInformed
  <2>4. CASE Claimed(d)
    <3>1. intent[s.gen].status \in Open /\ Disposition(s.gen, capsule) # "none"
      BY <1>1, <1>7, <2>4 DEF Authority, Claimed, Open
    <3>2. intent[s.gen].config = capsule.config
      BY <1>3, <3>1 DEF IInv, IntentInv
    <3>3. Left(s.gen)
      BY <3>1, <3>2 DEF Disposition, Left
    <3> QED
      BY <1>1, <1>2, <1>5, <2>2, <3>3, QuietInformed
  <2> QED
    BY <2>3, <2>4
<1> QED
  BY <1>1, <1>6, <1>7 DEF Create

(* The current Output is the one of the claim when a reconcile wins.       *)
LEMMA ResolveStep ==
    ASSUME IInv, NEW d \in Drainers, Resolve(d)
    PROVE  DrainStep(d)
<1>1. PICK s : s = drainer[d]
  OBVIOUS
<1>2. /\ TypeOK /\ s.pc = "resolve" /\ s.pc # "idle" /\ s.pc \notin Fencing
      /\ UNCHANGED <<capsule, intent, broken>>
  BY <1>1 DEF Resolve, Fencing, IInv
<1>3. PICK over : over = [s EXCEPT !.row = Phase("absent"), !.new = Phase("absent")]
  OBVIOUS
<1>4. s.then \in Thens /\ s.out \in Outcomes /\ s.new \in Row /\ s.gen \in Generations
  BY <1>1, <1>2, Busy
<1>5. /\ s.out # "refused"
      /\ s.out = "materialized" => s.cur + 1 \in verified[s.gen]
  BY <1>1, <1>2, Plain
<1>6. /\ {"fence", "target"} \subseteq Pcs \ {"idle"} /\ "fence" \in Fencing
      /\ "target" \notin Fencing /\ "settle" \in Thens /\ "retry" \in Outcomes
  BY DEF Pcs, Fencing, Thens, Outcomes
<1>7. PICK none : none = Phase("absent") /\ none.gen = 0 /\ none.phase # "Resolved"
  <2>1. Phase("absent").gen = 0 /\ Phase("absent").phase # "Resolved"
    BY DEF Phase
  <2> QED
    BY <2>1
<1>8. ASSUME Authority(d), verified' = Verify(s, s.new),
             Fence(d, [over EXCEPT !.then = "settle", !.out = Result(s.new)])
      PROVE  DrainStep(d)
  <2>1. PICK out \in Outcomes \ {"none", "refused"} : out = Result(s.new)
    BY ResultOutcome
  <2>2. Moves(d, "fence", s.cur, "settle", out, none)
    BY <1>1, <1>2, <1>3, <1>7, <1>8, <2>1, EndDrainer
  <2>3. /\ verified' \in [Generations -> SUBSET Items]
        /\ \A g \in Generations : verified[g] \subseteq verified'[g]
        /\ s.new = [phase |-> "Resolved", gen |-> s.gen] => s.cur + 1 \in verified'[s.gen]
    BY <1>1, <1>2, <1>8, VerifyGrows
  <2>4. capsule.gen = s.gen
    BY <1>1, <1>8 DEF Authority, Disposition
  <2>5. s.new.phase = "Resolved" => s.gen <= s.new.gen /\ s.new.gen <= capsule.gen
    BY <1>1 DEF IInv, WorkInv, Informed
  <2>6. s.new.phase = "Resolved" => s.new.gen = s.gen
    BY <1>1, <1>2, <2>4, <2>5, Numbers
  <2>7. s.new.phase = "Resolved" => s.new = [phase |-> "Resolved", gen |-> s.gen]
    BY <1>4, <2>6 DEF Row
  <2>8. out = "materialized" => s.cur + 1 \in verified'[s.gen]
    BY <2>1, <2>3, <2>7, ResultOutcome
  <2> QED
    BY <1>1, <1>2, <1>6, <1>7, <2>1, <2>2, <2>3, <2>8, QuietInformed
<1>9. ASSUME UNCHANGED verified, Become(d, [over EXCEPT !.pc = "target"])
      PROVE  DrainStep(d)
  <2>1. Moves(d, "target", s.cur, s.then, s.out, none)
    BY <1>1, <1>2, <1>3, <1>4, <1>7, <1>9, EndDrainer
  <2>2. verified' \in [Generations -> SUBSET Items]
    BY <1>2, <1>9 DEF TypeOK
  <2> QED
    BY <1>1, <1>2, <1>5, <1>6, <1>7, <1>9, <2>1, <2>2, QuietInformed
<1>10. ASSUME UNCHANGED verified, Fence(d, [over EXCEPT !.then = "settle", !.out = "retry"])
       PROVE  DrainStep(d)
  <2>1. Moves(d, "fence", s.cur, "settle", "retry", none)
    BY <1>1, <1>2, <1>3, <1>6, <1>7, <1>10, EndDrainer
  <2>2. verified' \in [Generations -> SUBSET Items]
    BY <1>2, <1>10 DEF TypeOK
  <2> QED
    BY <1>1, <1>2, <1>6, <1>7, <1>10, <2>1, <2>2, QuietInformed
<1> QED
  BY <1>1, <1>3, <1>8, <1>9, <1>10 DEF Resolve

(* An error is settled for a retry.                                        *)
LEMMA StoreFailsStep ==
    ASSUME IInv, NEW d \in Drainers, StoreFails(d)
    PROVE  DrainStep(d)
<1>1. PICK s : s = drainer[d]
  OBVIOUS
<1>2. /\ TypeOK /\ s.pc # "idle"
      /\ UNCHANGED <<capsule, intent, broken, verified>>
      /\ verified' \in [Generations -> SUBSET Items]
  BY <1>1 DEF StoreFails, IInv, TypeOK
<1>3. s.then \in Thens /\ s.out \in Outcomes /\ s.new \in Row
  BY <1>1, <1>2, Busy
<1>4. /\ {"fence", "settle", "release"} \subseteq Pcs \ {"idle"} /\ "settle" \in Thens
      /\ {"retry", "deadline"} \subseteq Outcomes /\ "release" \notin Fencing
  BY DEF Pcs, Fencing, Thens, Outcomes
<1>5. ASSUME Become(d, [s EXCEPT !.pc = "settle", !.out = "retry"])
      PROVE  DrainStep(d)
  <2>1. Goes(d, "settle", s.then, "retry")
    BY <1>1, <1>2, <1>3, <1>4, <1>5, MoveDrainer
  <2>2. Moves(d, "settle", s.cur, s.then, "retry", s.new)
    BY <1>1, <2>1 DEF Goes
  <2> QED
    BY <1>1, <1>2, <1>4, <2>2, QuietInformed
<1>6. ASSUME Become(d, [s EXCEPT !.pc = "release", !.out = "deadline"])
      PROVE  DrainStep(d)
  <2>1. Goes(d, "release", s.then, "deadline")
    BY <1>1, <1>2, <1>3, <1>4, <1>6, MoveDrainer
  <2>2. Moves(d, "release", s.cur, s.then, "deadline", s.new)
    BY <1>1, <2>1 DEF Goes
  <2> QED
    BY <1>1, <1>2, <1>4, <2>2, QuietInformed
<1>7. ASSUME Fence(d, [s EXCEPT !.then = "settle", !.out = "retry"])
      PROVE  DrainStep(d)
  <2>1. Goes(d, "fence", "settle", "retry")
    BY <1>1, <1>2, <1>3, <1>4, <1>7, MoveDrainer
  <2>2. Moves(d, "fence", s.cur, "settle", "retry", s.new)
    BY <1>1, <2>1 DEF Goes
  <2> QED
    BY <1>1, <1>2, <1>4, <2>2, QuietInformed
<1> QED
  BY <1>1, <1>5, <1>6, <1>7 DEF StoreFails

(* The release of the Capsule lease, and a crash.                          *)
LEMMA ReleaseStep ==
    ASSUME IInv, NEW d \in Drainers, Release(d) \/ Crash(d)
    PROVE  DrainStep(d)
<1>1. PICK s : s = drainer[d]
  OBVIOUS
<1>2. /\ TypeOK /\ s.pc # "idle"
      /\ UNCHANGED <<capsule, intent, broken, verified>>
      /\ verified' \in [Generations -> SUBSET Items]
  BY <1>1 DEF Release, Crash, IInv, TypeOK
<1>3. s.then \in Thens /\ s.out \in Outcomes /\ s.new \in Row /\ "settle" \in Pcs \ {"idle"}
  BY <1>1, <1>2, Busy DEF Pcs
<1>4. CoreStep
  BY <1>2, QuietCore
<1>5. ASSUME Become(d, Idle)
      PROVE  DrainStep(d)
  BY <1>1, <1>2, <1>3, <1>4, <1>5, MoveDrainer, IdleInformed
<1>6. ASSUME s.out = "deadline", Become(d, [s EXCEPT !.pc = "settle"])
      PROVE  DrainStep(d)
  <2>1. Goes(d, "settle", s.then, s.out)
    BY <1>1, <1>2, <1>3, <1>6, MoveDrainer
  <2>2. Moves(d, "settle", s.cur, s.then, s.out, s.new)
    BY <1>1, <2>1 DEF Goes
  <2> QED
    BY <1>1, <1>2, <1>3, <1>6, <2>2, QuietInformed
<1> QED
  BY <1>1, <1>5, <1>6 DEF Release, Crash

(* The claim takes the lease of a pending intent at its cursor.            *)
LEMMA ClaimStep ==
    ASSUME IInv, NEW d \in Drainers, Claim(d)
    PROVE  DrainStep(d)
<1>1. TypeOK /\ drainer[d].pc = "idle" /\ UNCHANGED <<capsule, broken, verified>>
  BY DEF Claim, IInv
<1>2. PICK g \in Generations :
        /\ intent[g].status = "pending"
        /\ ~intent[g].live
        /\ intent' = [intent EXCEPT ![g].token = d, ![g].live = TRUE]
        /\ Become(d, [Idle EXCEPT !.pc = "read", !.gen = g, !.cur = intent[g].next])
  BY DEF Claim
<1>3. PICK r \in Intent : r = intent[g]
  BY <1>1, Numbers
<1>4. PICK q : q = [r EXCEPT !.token = d, !.live = TRUE]
  OBVIOUS
<1>5. q = [status |-> r.status, next |-> r.next, token |-> d, live |-> TRUE,
           due |-> r.due, config |-> r.config, receipt |-> r.receipt]
  BY <1>3, <1>4 DEF Intent
<1>6. q \in Intent
  BY <1>3, <1>5 DEF Intent
<1>7. intent' = [intent EXCEPT ![g] = q]
  BY <1>2, <1>3, <1>4
<1>8. /\ intent' \in [Generations -> Intent] /\ intent'[g] = q
      /\ \A h \in Generations \ {g} : intent'[h] = intent[h]
  BY <1>1, <1>6, <1>7 DEF TypeOK
<1>9. PICK p : p = [Idle EXCEPT !.pc = "read", !.gen = g, !.cur = intent[g].next]
  OBVIOUS
<1>10. p = [pc |-> "read", gen |-> g, cur |-> r.next, done |-> 0, then |-> "target",
            out |-> "none", row |-> Phase("absent"), new |-> Phase("absent")]
  BY <1>3, <1>9 DEF Idle
<1>11. /\ r.next \in 0 .. TotalItems /\ g \in 0 .. MaxGen /\ 0 \in 0 .. ItemBudget
       /\ "read" \in Pcs /\ "target" \in Thens /\ "none" \in Outcomes
  BY <1>3, IntentConstants DEF Intent, Generations, Pcs, Thens, Outcomes
<1>12. p \in Drainer
  BY <1>10, <1>11, DrainerType
<1>13. Become(d, p)
  BY <1>2, <1>9
<1>14. OthersRest(d) /\ drainer'[d] = p
  BY <1>1, <1>12, <1>13 DEF OthersRest, Become, TypeOK
<1>15. Taken(d, g)
  BY <1>1, <1>2, <1>3, <1>5, <1>8 DEF Taken, Holds
<1>16. drainer'[d] # drainer[d]
  BY <1>1, <1>10, <1>14
<1>17. CoreStep
  <2>1. \A h \in Generations : RowStep(h)
    BY <1>8, <1>15, <1>16 DEF RowStep
  <2>2. CapsuleStep
    BY <1>1, Numbers DEF CapsuleStep, TypeOK
  <2> QED
    BY <1>1, <1>8, <2>1, <2>2 DEF CoreStep, TypeOK
<1>18. Informed(d)'
  <2>1. r.next < TotalItems
    BY <1>2, <1>3 DEF IInv, IntentInv, Open
  <2>2. intent'[g].status # "absent"
    BY <1>2, <1>3, <1>5, <1>8
  <2>3. /\ drainer'[d].pc = "read" /\ drainer'[d].gen = g /\ drainer'[d].cur = r.next
        /\ drainer'[d].out = "none" /\ drainer'[d].new.gen = 0
        /\ drainer'[d].new.phase = "absent"
    BY <1>10, <1>14 DEF Phase
  <2> QED
    BY <2>1, <2>2, <2>3 DEF Informed, Fencing
<1> QED
  BY <1>14, <1>17, <1>18 DEF DrainStep

(* The outcome of the settlement of a claim.                               *)
LEMMA EndedForm ==
    ASSUME TypeOK, NEW g \in Generations, NEW out \in Outcomes \ {"none"}, NEW cur \in Nat,
           out # "materialized" \/ cur + 1 = TotalItems, NEW q, q = Ended(intent[g], out),
           intent[g].status = "pending", intent'[g] = q
    PROVE  q \in Intent /\ Ends(g, out, cur)
<1>1. PICK r \in Intent : r = intent[g]
  BY Numbers
<1>2. PICK free : free = [r EXCEPT !.token = None, !.live = FALSE]
  OBVIOUS
<1>3. free = [status |-> r.status, next |-> r.next, token |-> None, live |-> FALSE,
              due |-> r.due, config |-> r.config, receipt |-> r.receipt]
  BY <1>1, <1>2 DEF Intent
<1>4. TotalItems \in 0 .. TotalItems
  BY IntentConstants
<1>5. CASE out = "materialized"
  <2>1. q = [free EXCEPT !.status = "completed", !.receipt = out, !.next = TotalItems]
    BY <1>1, <1>2, <1>5 DEF Ended
  <2>2. q = [status |-> "completed", next |-> TotalItems, token |-> None, live |-> FALSE,
             due |-> r.due, config |-> r.config, receipt |-> out]
    BY <1>3, <2>1
  <2>3. q \in Intent
    <3>1. /\ r.due \in BOOLEAN /\ r.config \in {"A", "B"}
      BY <1>1 DEF Intent
    <3>2. out \in {"none", "materialized", "retired", "superseded", "dead", "refused"}
      BY <1>5
    <3> QED
      BY <1>4, <2>2, <3>1, <3>2 DEF Intent
  <2>4. Holds(g, "completed", TotalItems, None, FALSE, out)
    BY <1>1, <2>2 DEF Holds
  <2> QED
    BY <1>1, <1>5, <2>3, <2>4 DEF Ends
<1>6. CASE out \in {"retired", "superseded"}
  <2>1. q = [free EXCEPT !.status = "completed", !.receipt = out]
    BY <1>1, <1>2, <1>6 DEF Ended
  <2>2. q = [status |-> "completed", next |-> r.next, token |-> None, live |-> FALSE,
             due |-> r.due, config |-> r.config, receipt |-> out]
    BY <1>3, <2>1
  <2> QED
    BY <1>1, <1>6, <2>2 DEF Intent, Ends, Holds
<1>7. CASE out \in {"retry", "deadline"}
  <2>1. q = [free EXCEPT !.due = FALSE]
    BY <1>1, <1>2, <1>7 DEF Ended
  <2>2. q = [status |-> r.status, next |-> r.next, token |-> None, live |-> FALSE,
             due |-> FALSE, config |-> r.config, receipt |-> r.receipt]
    BY <1>3, <2>1
  <2>3. q \in Intent
    BY <1>1, <2>2 DEF Intent
  <2>4. Holds(g, "pending", r.next, None, FALSE, r.receipt)
    BY <1>1, <2>2 DEF Holds
  <2> QED
    BY <1>1, <1>7, <2>3, <2>4 DEF Ends
<1>8. CASE out \in {"dead", "refused"}
  <2>1. q = [free EXCEPT !.status = "dead_letter", !.receipt = out]
    BY <1>1, <1>2, <1>8 DEF Ended
  <2>2. q = [status |-> "dead_letter", next |-> r.next, token |-> None, live |-> FALSE,
             due |-> r.due, config |-> r.config, receipt |-> out]
    BY <1>3, <2>1
  <2> QED
    BY <1>1, <1>8, <2>2 DEF Intent, Ends, Holds
<1> QED
  BY <1>5, <1>6, <1>7, <1>8 DEF Outcomes

(* A claimant that replaces its intent settles it.                         *)
LEMMA SettledCore ==
    ASSUME IInv, NEW d \in Drainers, NEW s, s = drainer[d], s.pc = "settle", Claimed(d),
           NEW g, g = s.gen, NEW q \in Intent, intent' = [intent EXCEPT ![g] = q],
           Ends(g, s.out, s.cur), drainer'[d] # drainer[d],
           UNCHANGED <<capsule, broken, verified>>
    PROVE  CoreStep
<1>1. TypeOK /\ g \in Generations
  BY Busy DEF IInv
<1>2. /\ intent' \in [Generations -> Intent]
      /\ \A h \in Generations \ {g} : intent'[h] = intent[h]
  BY <1>1 DEF TypeOK
<1>3. Settled(d, g)
  BY DEF Settled
<1>4. \A h \in Generations : RowStep(h)
  BY <1>2, <1>3 DEF RowStep
<1>5. CapsuleStep
  BY <1>1, Numbers DEF CapsuleStep, TypeOK
<1> QED
  BY <1>1, <1>2, <1>4, <1>5 DEF CoreStep, TypeOK

(* A drainer that is done with its claim.                                  *)
LEMMA AfterSettle ==
    ASSUME IInv, CoreStep, NEW d \in Drainers, NEW s, s = drainer[d], s.pc = "settle",
           Become(d, IF s.out = "deadline" THEN Idle
                     ELSE [s EXCEPT !.pc = "release", !.out = "none"])
    PROVE  DrainStep(d)
<1>1. TypeOK /\ s.pc # "idle"
  BY DEF IInv
<1>2. /\ s.then \in Thens /\ s.out \in Outcomes /\ s.new \in Row /\ s.cur < TotalItems
      /\ s.gen \in Generations
  BY <1>1, Busy
<1>3. "release" \in Pcs \ {"idle"} /\ "none" \in Outcomes /\ "release" \notin Fencing
  BY DEF Pcs, Outcomes, Fencing
<1>4. CASE s.out = "deadline"
  <2>1. Become(d, Idle)
    BY <1>4
  <2> QED
    BY <1>1, <1>2, <1>3, <2>1, MoveDrainer, IdleInformed
<1>5. CASE s.out # "deadline"
  <2>1. Become(d, [s EXCEPT !.pc = "release", !.out = "none"])
    BY <1>5
  <2>2. Goes(d, "release", s.then, "none")
    BY <1>1, <1>2, <1>3, <2>1, MoveDrainer
  <2>3. Moves(d, "release", s.cur, s.then, "none", s.new)
    BY <2>2 DEF Goes
  <2>4. s.new.gen # 0 \/ s.new.phase = "Resolved" =>
          drainer[d].gen <= s.new.gen /\ s.new.gen <= capsule'.gen
    <3>1. /\ s.new.gen # 0 \/ s.new.phase = "Resolved" =>
               s.gen <= s.new.gen /\ s.new.gen <= capsule.gen
          /\ s.new.gen \in Nat
      BY <1>1, Numbers DEF IInv, WorkInv, Informed
    <3>2. capsule.gen <= capsule'.gen /\ capsule.gen \in Nat /\ capsule'.gen \in Nat
      BY <1>1, <1>2, Busy, LeftStep
    <3> QED
      BY <3>1, <3>2
  <2>5. Informed(d)'
    BY <1>1, <1>2, <1>3, <2>3, <2>4, MovedInformed
  <2> QED
    BY <2>3, <2>5 DEF DrainStep, Moves
<1> QED
  BY <1>4, <1>5

(* The settlement.                                                         *)
LEMMA SettleStep ==
    ASSUME IInv, NEW d \in Drainers, Settle(d)
    PROVE  DrainStep(d)
<1>1. PICK s : s = drainer[d]
  OBVIOUS
<1>2. /\ TypeOK /\ s.pc = "settle" /\ s.pc # "idle" /\ UNCHANGED <<capsule, broken, verified>>
      /\ verified' \in [Generations -> SUBSET Items]
  BY <1>1 DEF Settle, IInv, TypeOK
<1>3. PICK g \in Generations : g = s.gen
  BY <1>1, <1>2, Busy
<1>4. /\ s.then \in Thens /\ s.out \in Outcomes \ {"none"} /\ s.new \in Row
      /\ s.cur < TotalItems /\ s.cur \in Nat /\ TotalItems \in Nat
  <2>1. s.out # "none"
    BY <1>1, <1>2 DEF IInv, WorkInv, Informed
  <2> QED
    BY <1>1, <1>2, <2>1, Busy, Numbers
<1>5. PICK r \in Intent : r = intent[g]
  BY <1>2, Numbers
<1>6. DEFINE after == IF s.out = "deadline" THEN Idle
                      ELSE [s EXCEPT !.pc = "release", !.out = "none"]
<1>7. ASSUME Become(d, after)
      PROVE  drainer'[d] # drainer[d]
  <2>1. drainer'[d] = after
    BY <1>2, <1>7 DEF Become, TypeOK
  <2>2. s \in Drainer
    BY <1>1, <1>2, Numbers
  <2>3. after.pc # "settle"
    BY <2>2 DEF Idle, Drainer
  <2> QED
    BY <1>1, <1>2, <2>1, <2>3
<1>8. ASSUME UNCHANGED intent, Become(d, after)
      PROVE  DrainStep(d)
  <2>1. CoreStep
    BY <1>2, <1>8, QuietCore
  <2> QED
    BY <1>1, <1>2, <1>8, <2>1, AfterSettle
<1>9. ASSUME Claimed(d), s.out # "materialized" \/ s.cur + 1 = TotalItems,
             intent' = [intent EXCEPT ![g] = Ended(intent[g], s.out)], Become(d, after)
      PROVE  DrainStep(d)
  <2>1. PICK q : q = Ended(intent[g], s.out)
    OBVIOUS
  <2>2. intent[g].status = "pending" /\ intent'[g] = q
    BY <1>1, <1>2, <1>3, <1>9, <2>1 DEF Claimed, TypeOK
  <2>3. q \in Intent /\ Ends(g, s.out, s.cur)
    BY <1>2, <1>4, <1>9, <2>1, <2>2, EndedForm
  <2>4. CoreStep
    BY <1>1, <1>2, <1>3, <1>7, <1>9, <2>1, <2>3, SettledCore
  <2> QED
    BY <1>1, <1>2, <1>9, <2>4, AfterSettle
<1>10. PICK step : step = [intent[g] EXCEPT !.next = s.cur + 1]
  OBVIOUS
<1>11. /\ step = [status |-> r.status, next |-> s.cur + 1, token |-> r.token, live |-> r.live,
                  due |-> r.due, config |-> r.config, receipt |-> r.receipt]
       /\ s.cur + 1 \in 0 .. TotalItems
  BY <1>4, <1>5, <1>10 DEF Intent
<1>12. ASSUME Claimed(d), s.out = "materialized", s.cur + 1 # TotalItems,
              s.done + 1 < ItemBudget, intent' = [intent EXCEPT ![g] = step],
              Fence(d, [s EXCEPT !.cur = @ + 1, !.done = @ + 1, !.then = "target",
                                 !.out = "none"])
       PROVE  DrainStep(d)
  <2>1. Moves(d, "fence", s.cur + 1, "target", "none", s.new)
    BY <1>1, <1>2, <1>4, <1>12, EndDrainer
  <2>2. step \in Intent
    BY <1>5, <1>11 DEF Intent
  <2>3. intent[g].status = "pending" /\ intent'[g] = step
    BY <1>1, <1>2, <1>3, <1>12 DEF Claimed, TypeOK
  <2>4. Ends(g, s.out, s.cur)
    BY <1>5, <1>11, <1>12, <2>3 DEF Ends, Holds
  <2>5. drainer'[d] # drainer[d]
    BY <1>1, <1>2, <2>1 DEF Moves
  <2>6. CoreStep
    BY <1>1, <1>2, <1>3, <1>12, <2>2, <2>4, <2>5, SettledCore
  <2>7. s.cur + 1 < TotalItems
    BY <1>4, <1>12
  <2>8. "fence" \in Pcs \ {"idle"}
    BY DEF Pcs, Fencing
  <2>9. s.new.gen # 0 \/ s.new.phase = "Resolved" =>
          drainer[d].gen <= s.new.gen /\ s.new.gen <= capsule'.gen
    BY <1>1, <1>2 DEF IInv, WorkInv, Informed
  <2>10. Informed(d)'
    BY <1>1, <1>2, <2>1, <2>6, <2>7, <2>8, <2>9, MovedInformed
  <2> QED
    BY <2>1, <2>6, <2>10 DEF DrainStep, Moves
<1>13. ASSUME Claimed(d), s.out = "materialized", s.cur + 1 # TotalItems,
              intent' = [intent EXCEPT ![g] = [step EXCEPT !.token = None, !.live = FALSE]],
              Become(d, after)
       PROVE  DrainStep(d)
  <2>1. PICK q : q = [step EXCEPT !.token = None, !.live = FALSE]
    OBVIOUS
  <2>2. q = [status |-> r.status, next |-> s.cur + 1, token |-> None, live |-> FALSE,
             due |-> r.due, config |-> r.config, receipt |-> r.receipt]
    BY <1>11, <2>1
  <2>3. q \in Intent
    BY <1>5, <1>11, <2>2 DEF Intent
  <2>4. intent' = [intent EXCEPT ![g] = q]
    BY <1>13, <2>1
  <2>5. intent[g].status = "pending" /\ intent'[g] = q
    BY <1>1, <1>2, <1>3, <1>13, <2>4 DEF Claimed, TypeOK
  <2>6. Ends(g, s.out, s.cur)
    <3>1. Holds(g, "pending", s.cur + 1, None, FALSE, intent[g].receipt)
      BY <1>5, <2>2, <2>5 DEF Holds
    <3> QED
      BY <1>13, <3>1 DEF Ends
  <2>7. Claimed(d) /\ drainer'[d] # drainer[d]
    BY <1>7, <1>13
  <2>8. CoreStep
    BY <1>1, <1>2, <1>3, <2>3, <2>4, <2>6, <2>7, SettledCore
  <2> QED
    BY <1>1, <1>2, <1>13, <2>8, AfterSettle
<1> QED
  BY <1>1, <1>3, <1>8, <1>9, <1>10, <1>12, <1>13 DEF Settle

-----------------------------------------------------------------------------
(* Time, the operator and the lifecycle.                                   *)

(* One intent is replaced.                                                 *)
LEMMA OneRow ==
    ASSUME IInv, NEW g \in Generations, NEW q \in Intent,
           intent' = [intent EXCEPT ![g] = q], RowStep(g),
           UNCHANGED <<capsule, broken, verified>>
    PROVE  CoreStep
<1>1. TypeOK
  BY DEF IInv
<1>2. /\ intent' \in [Generations -> Intent]
      /\ \A h \in Generations \ {g} : intent'[h] = intent[h]
  BY <1>1 DEF TypeOK
<1>3. \A h \in Generations : RowStep(h)
  BY <1>2 DEF RowStep
<1>4. CapsuleStep
  BY <1>1, Numbers DEF CapsuleStep, TypeOK
<1> QED
  BY <1>1, <1>2, <1>3, <1>4 DEF CoreStep, TypeOK

(* The Capsule alone is replaced.                                          *)
LEMMA CapsuleOnly ==
    ASSUME IInv, CapsuleStep, UNCHANGED <<intent, verified>>
    PROVE  CoreStep
<1>1. \A h \in Generations : RowStep(h)
  BY DEF RowStep
<1> QED
  BY <1>1 DEF CoreStep, IInv, TypeOK

(* A lease lapses, and a backoff ends.                                     *)
LEMMA AgesStep ==
    ASSUME IInv, NEW g \in Generations, IntentLeaseExpires(g) \/ BackoffElapses(g)
    PROVE  CoreStep
<1>1. TypeOK /\ UNCHANGED <<capsule, broken, verified>>
  BY DEF IInv, IntentLeaseExpires, BackoffElapses
<1>2. PICK r \in Intent : r = intent[g]
  BY <1>1, Numbers
<1>3. CASE IntentLeaseExpires(g)
  <2>1. PICK q : q = [r EXCEPT !.live = FALSE]
    OBVIOUS
  <2>2. q = [status |-> r.status, next |-> r.next, token |-> r.token, live |-> FALSE,
             due |-> r.due, config |-> r.config, receipt |-> r.receipt]
    BY <1>2, <2>1 DEF Intent
  <2>3. q \in Intent
    BY <1>2, <2>2 DEF Intent
  <2>4. intent' = [intent EXCEPT ![g] = q]
    BY <1>2, <1>3, <2>1 DEF IntentLeaseExpires
  <2>5. intent'[g] = q
    BY <1>1, <2>4 DEF TypeOK
  <2>6. intent[g].status = "pending"
    BY <1>1, <1>3 DEF IntentLeaseExpires, TypeOK
  <2>7. Ages(g)
    BY <1>2, <2>2, <2>5, <2>6 DEF Ages, Holds
  <2> QED
    BY <1>1, <2>3, <2>4, <2>7, OneRow DEF RowStep
<1>4. CASE BackoffElapses(g)
  <2>1. PICK q : q = [r EXCEPT !.due = TRUE]
    OBVIOUS
  <2>2. q = [status |-> r.status, next |-> r.next, token |-> r.token, live |-> r.live,
             due |-> TRUE, config |-> r.config, receipt |-> r.receipt]
    BY <1>2, <2>1 DEF Intent
  <2>3. q \in Intent
    BY <1>2, <2>2 DEF Intent
  <2>4. intent' = [intent EXCEPT ![g] = q]
    BY <1>2, <1>4, <2>1 DEF BackoffElapses
  <2>5. intent'[g] = q
    BY <1>1, <2>4 DEF TypeOK
  <2>6. intent[g].status = "pending"
    BY <1>4 DEF BackoffElapses
  <2>7. Ages(g)
    BY <1>2, <2>2, <2>5, <2>6 DEF Ages, Holds
  <2> QED
    BY <1>1, <2>3, <2>4, <2>7, OneRow DEF RowStep
<1> QED
  BY <1>3, <1>4

(* The operator opens a dead letter of the Capsule's lineage.              *)
LEMMA RetryStep ==
    ASSUME IInv, NEW g \in Generations, RetryDeadLetter(g)
    PROVE  CoreStep /\ Reopens(g)
<1>1. /\ TypeOK /\ UNCHANGED <<capsule, broken, verified>>
      /\ intent[g].status = "dead_letter" /\ Disposition(g, capsule) = "none"
  BY DEF IInv, RetryDeadLetter
<1>2. PICK r \in Intent : r = intent[g]
  BY <1>1, Numbers
<1>3. PICK q : q = [r EXCEPT !.status = "pending", !.due = TRUE, !.receipt = "none"]
  OBVIOUS
<1>4. q = [status |-> "pending", next |-> r.next, token |-> r.token, live |-> r.live,
           due |-> TRUE, config |-> r.config, receipt |-> "none"]
  BY <1>2, <1>3 DEF Intent
<1>5. q \in Intent
  BY <1>2, <1>4 DEF Intent
<1>6. intent' = [intent EXCEPT ![g] = q]
  BY <1>2, <1>3 DEF RetryDeadLetter
<1>7. intent'[g] = q
  BY <1>1, <1>6 DEF TypeOK
<1>8. Reopens(g)
  BY <1>1, <1>2, <1>4, <1>7 DEF Reopens, Holds
<1> QED
  BY <1>1, <1>5, <1>6, <1>8, OneRow DEF RowStep

(* A step that only changes what the Capsule publishes.                    *)
LEMMA SafetyStep ==
    ASSUME IInv, NEW x \in {"safe", "terminating", "unknown", "retired"},
           capsule' = [capsule EXCEPT !.safety = x], UNCHANGED <<intent, broken, verified>>
    PROVE  /\ CoreStep /\ capsule' \in Capsule
           /\ capsule'.alive = capsule.alive
<1>1. PICK c \in Capsule : c = capsule
  BY DEF IInv, TypeOK
<1>2. capsule' = [gen |-> c.gen, config |-> c.config, alive |-> c.alive, safety |-> x]
  BY <1>1 DEF Capsule
<1>3. capsule' \in Capsule /\ capsule.gen \in Nat
  BY <1>1, <1>2, Numbers DEF Capsule, IInv
<1>4. CapsuleStep
  BY <1>1, <1>2, <1>3 DEF CapsuleStep
<1> QED
  BY <1>1, <1>2, <1>3, <1>4, CapsuleOnly

(* The Capsule moves to a generation, or ends.                             *)
LEMMA LineageStep ==
    ASSUME IInv, NEW c \in Capsule, capsule' = c, broken' = Broken(c),
           c.gen >= capsule.gen, c.alive => capsule.alive, c.config = capsule.config
    PROVE  CapsuleStep
  BY DEF CapsuleStep

(* The new row of a commit.                                                *)
FreshIntent(x) ==
    [status |-> "pending", next |-> 0, token |-> None, live |-> FALSE, due |-> TRUE,
     config |-> x, receipt |-> "none"]

(* It is an intent.                                                        *)
LEMMA FreshRow ==
    ASSUME IInv
    PROVE  /\ FreshIntent(capsule.config) \in Intent
           /\ [Absent EXCEPT !.status = "pending", !.due = TRUE, !.config = capsule.config]
                = FreshIntent(capsule.config)
<1>1. PICK x \in {"A", "B"} : x = capsule.config
  BY DEF IInv, TypeOK, Capsule
<1>2. 0 \in 0 .. TotalItems
  BY IntentConstants
<1>3. FreshIntent(x) \in Intent
  BY <1>2 DEF Intent, FreshIntent
<1>4. PICK q : q = [Absent EXCEPT !.status = "pending", !.due = TRUE, !.config = x]
  OBVIOUS
<1>5. q = FreshIntent(x)
  BY <1>4 DEF Absent, FreshIntent
<1> QED
  BY <1>1, <1>3, <1>4, <1>5

(* The generation after the current one.                                   *)
LEMMA NextGeneration ==
    ASSUME IInv, NEW g, g = capsule.gen + 1, g \in Generations, NEW c,
           c = [capsule EXCEPT !.gen = g, !.safety = "safe"]
    PROVE  /\ c \in Capsule /\ c.gen = g /\ c.config = capsule.config
           /\ c.alive = capsule.alive /\ c.gen >= capsule.gen
<1>1. PICK o \in Capsule : o = capsule
  BY DEF IInv, TypeOK
<1>2. c = [gen |-> g, config |-> o.config, alive |-> o.alive, safety |-> "safe"]
  BY <1>1 DEF Capsule
<1>3. g \in 0 .. MaxGen /\ capsule.gen \in Nat /\ g >= capsule.gen
  BY Numbers DEF Generations, IInv
<1> QED
  BY <1>1, <1>2, <1>3 DEF Capsule

(* The commit of an apply adds an intent.                                  *)
LEMMA CommitApplyStep ==
    ASSUME IInv, CommitApply
    PROVE  CoreStep /\ capsule' \in Capsule /\ capsule'.alive = capsule.alive
<1>1. PICK g \in Generations : g = capsule.gen + 1
  BY DEF CommitApply
<1>2. PICK c : c = [capsule EXCEPT !.gen = g, !.safety = "safe"]
  OBVIOUS
<1>3. PICK q : q = [Absent EXCEPT !.status = "pending", !.due = TRUE,
                                  !.config = capsule.config]
  OBVIOUS
<1>4. /\ c \in Capsule /\ c.gen = g /\ c.config = capsule.config
      /\ c.alive = capsule.alive /\ c.gen >= capsule.gen
  BY <1>1, <1>2, NextGeneration
<1>5. capsule' = c /\ broken' = Broken(c) /\ intent' = [intent EXCEPT ![g] = q]
      /\ UNCHANGED verified
  BY <1>1, <1>2, <1>3 DEF CommitApply
<1>6. CapsuleStep
  BY <1>4, <1>5, LineageStep
<1>7. /\ q \in Intent
      /\ q.status = "pending" /\ q.next = 0 /\ q.token = None /\ q.live = FALSE
      /\ q.config = capsule.config /\ q.receipt = "none"
  BY <1>3, FreshRow DEF FreshIntent
<1>8. /\ intent' \in [Generations -> Intent] /\ intent'[g] = q
      /\ \A h \in Generations \ {g} : intent'[h] = intent[h]
  BY <1>5, <1>7 DEF IInv, TypeOK
<1>9. Fresh(g)
  BY <1>1, <1>4, <1>5, <1>7, <1>8 DEF Fresh
<1>10. \A h \in Generations : RowStep(h)
  BY <1>8, <1>9 DEF RowStep
<1> QED
  BY <1>4, <1>5, <1>6, <1>8, <1>10 DEF CoreStep, IInv, TypeOK

(* A superseded row.                                                       *)
LEMMA SupersededRow ==
    ASSUME NEW r \in Intent
    PROVE  /\ Superseded(r) \in Intent
           /\ Superseded(r) = [status |-> "completed", next |-> r.next, token |-> None,
                               live |-> FALSE, due |-> r.due, config |-> r.config,
                               receipt |-> "superseded"]
<1>1. PICK q : q = Superseded(r)
  OBVIOUS
<1>2. q = [r EXCEPT !.status = "completed", !.receipt = "superseded", !.token = None,
                    !.live = FALSE]
  BY <1>1 DEF Superseded
<1>3. q = [status |-> "completed", next |-> r.next, token |-> None, live |-> FALSE,
           due |-> r.due, config |-> r.config, receipt |-> "superseded"]
  BY <1>2 DEF Intent
<1>4. q \in Intent
  BY <1>3 DEF Intent
<1> QED
  BY <1>1, <1>3, <1>4

(* A row that the lifecycle supersedes is retired.                         *)
LEMMA RetiredRow ==
    ASSUME IInv, NEW h \in Generations, intent[h].status \in Open,
           intent'[h] = Superseded(intent[h])
    PROVE  Retires(h) /\ intent'[h] \in Intent
<1>1. PICK r \in Intent : r = intent[h]
  BY Numbers DEF IInv
<1>2. /\ intent'[h] \in Intent
      /\ intent'[h] = [status |-> "completed", next |-> r.next, token |-> None,
                       live |-> FALSE, due |-> r.due, config |-> r.config,
                       receipt |-> "superseded"]
  BY <1>1, SupersededRow
<1> QED
  BY <1>1, <1>2 DEF Retires, Holds

(* The commit of a restore replaces the pending intents by a new one.      *)
LEMMA CommitRestoreStep ==
    ASSUME IInv, NEW source \in Generations, CommitRestore(source)
    PROVE  CoreStep /\ capsule' \in Capsule /\ capsule'.alive = capsule.alive
<1>1. PICK g \in Generations : g = capsule.gen + 1
  BY DEF CommitRestore
<1>2. PICK c : c = [capsule EXCEPT !.gen = g, !.safety = "safe"]
  OBVIOUS
<1>3. PICK copy : copy = [Absent EXCEPT !.status = "pending", !.due = TRUE,
                                        !.config = capsule.config]
  OBVIOUS
<1>4. /\ c \in Capsule /\ c.gen = g /\ c.config = capsule.config
      /\ c.alive = capsule.alive /\ c.gen >= capsule.gen
  BY <1>1, <1>2, NextGeneration
<1>5. /\ capsule' = c /\ broken' = Broken(c) /\ UNCHANGED verified
      /\ \/ intent' = intent
         \/ intent' = [h \in Generations |->
                         CASE h = g -> copy
                           [] intent[h].status = "pending" -> Superseded(intent[h])
                           [] OTHER -> intent[h]]
  BY <1>1, <1>2, <1>3 DEF CommitRestore
<1>6. CapsuleStep
  BY <1>4, <1>5, LineageStep
<1>7. CASE intent' = intent
  BY <1>4, <1>5, <1>6, <1>7, CapsuleOnly
<1>8. CASE intent' = [h \in Generations |->
                        CASE h = g -> copy
                          [] intent[h].status = "pending" -> Superseded(intent[h])
                          [] OTHER -> intent[h]]
  <2>1. /\ copy \in Intent
        /\ copy.status = "pending" /\ copy.next = 0 /\ copy.token = None
        /\ copy.live = FALSE /\ copy.config = capsule.config /\ copy.receipt = "none"
    BY <1>3, FreshRow DEF FreshIntent
  <2>2. intent[g].status = "absent"
    BY <1>1, Numbers DEF IInv, IntentInv
  <2>3. ASSUME NEW h \in Generations
        PROVE  RowStep(h) /\ intent'[h] \in Intent
    <3>1. CASE h = g
      <4>1. intent'[h] = copy
        BY <1>8, <2>2, <3>1
      <4>2. Fresh(h)
        BY <1>1, <1>4, <1>5, <2>1, <3>1, <4>1 DEF Fresh
      <4> QED
        BY <2>1, <4>1, <4>2 DEF RowStep
    <3>2. CASE h # g /\ intent[h].status = "pending"
      <4>1. intent'[h] = Superseded(intent[h])
        BY <1>8, <3>2
      <4> QED
        BY <3>2, <4>1, RetiredRow DEF RowStep, Open
    <3>3. CASE h # g /\ intent[h].status # "pending"
      <4>1. intent'[h] = intent[h]
        BY <1>8, <3>3
      <4> QED
        BY <4>1, Numbers DEF RowStep, IInv
    <3> QED
      BY <3>1, <3>2, <3>3
  <2>4. intent' \in [Generations -> Intent]
    BY <1>8, <2>3
  <2> QED
    BY <1>4, <1>5, <1>6, <2>3, <2>4 DEF CoreStep, IInv, TypeOK
<1> QED
  BY <1>5, <1>7, <1>8

(* The commit of a destroy ends the Capsule.                               *)
LEMMA CommitDestroyStep ==
    ASSUME IInv, CommitDestroy
    PROVE  CoreStep /\ capsule' \in Capsule /\ ~capsule'.alive
<1>1. PICK o \in Capsule : o = capsule
  BY DEF IInv, TypeOK
<1>2. PICK c : c = [capsule EXCEPT !.alive = FALSE, !.safety = "retired"]
  OBVIOUS
<1>3. c = [gen |-> o.gen, config |-> o.config, alive |-> FALSE, safety |-> "retired"]
  BY <1>1, <1>2 DEF Capsule
<1>4. c \in Capsule /\ capsule.gen \in Nat
  BY <1>1, <1>3, Numbers DEF Capsule, IInv
<1>5. capsule' = c /\ broken' = Broken(c) /\ UNCHANGED <<intent, verified>>
  BY <1>2 DEF CommitDestroy
<1>6. c.gen >= capsule.gen /\ c.config = capsule.config /\ ~c.alive
  BY <1>1, <1>3, <1>4
<1>7. CapsuleStep
  BY <1>4, <1>5, <1>6, LineageStep
<1> QED
  BY <1>4, <1>5, <1>6, <1>7, CapsuleOnly

(* A failed run may move the Capsule on.                                   *)
LEMMA FailRunStep ==
    ASSUME IInv, NEW withState \in BOOLEAN, FailRun(withState)
    PROVE  CoreStep /\ capsule' \in Capsule /\ capsule'.alive = capsule.alive
<1>1. PICK o \in Capsule : o = capsule
  BY DEF IInv, TypeOK
<1>2. PICK g : g = IF withState THEN capsule.gen + 1 ELSE capsule.gen
  OBVIOUS
<1>3. PICK c : c = [capsule EXCEPT !.gen = g, !.safety = "unknown"]
  OBVIOUS
<1>4. c = [gen |-> g, config |-> o.config, alive |-> o.alive, safety |-> "unknown"]
  BY <1>1, <1>3 DEF Capsule
<1>5. /\ capsule' = c /\ broken' = Broken(c) /\ UNCHANGED <<intent, verified>>
      /\ withState => capsule.gen < MaxGen
  BY <1>2, <1>3 DEF FailRun
<1>6. capsule.gen \in 0 .. MaxGen /\ MaxGen \in Nat
  BY <1>1, IntentConstants DEF Capsule
<1>7. g \in 0 .. MaxGen /\ g >= capsule.gen
  BY <1>2, <1>5, <1>6
<1>8. c \in Capsule
  BY <1>1, <1>4, <1>7 DEF Capsule
<1>9. CapsuleStep
  BY <1>1, <1>4, <1>5, <1>7, <1>8, LineageStep
<1> QED
  BY <1>1, <1>4, <1>5, <1>8, <1>9, CapsuleOnly

(* A rebind retires every open intent with the lineage it changes.         *)
LEMMA RebindStep ==
    ASSUME IInv, Rebind
    PROVE  CoreStep /\ capsule' \in Capsule /\ capsule'.alive = capsule.alive
<1>1. PICK o \in Capsule : o = capsule
  BY DEF IInv, TypeOK
<1>2. PICK x \in {"A", "B"} : x = IF capsule.config = "A" THEN "B" ELSE "A"
  OBVIOUS
<1>3. PICK c : c = [capsule EXCEPT !.config = x]
  OBVIOUS
<1>4. c = [gen |-> o.gen, config |-> x, alive |-> o.alive, safety |-> o.safety]
  BY <1>1, <1>3 DEF Capsule
<1>5. c \in Capsule /\ capsule.gen \in Nat
  BY <1>1, <1>2, <1>4, Numbers DEF Capsule, IInv
<1>6. /\ capsule' = c /\ broken' = Broken(c) /\ UNCHANGED verified
      /\ intent' = [g \in Generations |->
                      IF intent[g].status \in Open THEN Superseded(intent[g]) ELSE intent[g]]
  BY <1>2, <1>3 DEF Rebind, Open
<1>7. ASSUME NEW h \in Generations
      PROVE  RowStep(h) /\ intent'[h] \in Intent /\ intent'[h].status \notin Open
  <2>1. CASE intent[h].status \in Open
    <3>1. intent'[h] = Superseded(intent[h])
      BY <1>6, <2>1
    <3>2. Retires(h) /\ intent'[h] \in Intent
      BY <2>1, <3>1, RetiredRow
    <3> QED
      BY <3>2 DEF RowStep, Retires, Holds, Open
  <2>2. CASE intent[h].status \notin Open
    <3>1. intent'[h] = intent[h]
      BY <1>6, <2>2
    <3> QED
      BY <2>2, <3>1, Numbers DEF RowStep, IInv
  <2> QED
    BY <2>1, <2>2
<1>8. intent' \in [Generations -> Intent]
  BY <1>6, <1>7
<1>9. CapsuleStep
  BY <1>1, <1>4, <1>5, <1>6, <1>7 DEF CapsuleStep
<1> QED
  BY <1>1, <1>4, <1>5, <1>6, <1>7, <1>8, <1>9 DEF CoreStep, IInv, TypeOK

-----------------------------------------------------------------------------
(* The Interface rows, the Capsule lease, the run and the counters.        *)

Counts == [runs: 0 .. MaxRuns, rebinds: 0 .. MaxRebinds, retries: 0 .. MaxRetries,
           faults: 0 .. MaxFaults]

Marks == {"none", "Terminating", "Unknown", "Retired", "reconcile"}

RestOK ==
    /\ iface \in [Items -> Row]
    /\ lease \in Drainers \cup {None, "run"}
    /\ run \in Run
    /\ missed \in BOOLEAN
    /\ count \in Counts

(* The counters stay within their bounds.                                  *)
LEMMA CountStep ==
    ASSUME TypeOK
    PROVE  /\ UNCHANGED count => count' \in Counts
           /\ Fault => count' \in Counts
           /\ count.runs < MaxRuns /\ count' = [count EXCEPT !.runs = @ + 1] =>
                count' \in Counts
           /\ count.rebinds < MaxRebinds /\ count' = [count EXCEPT !.rebinds = @ + 1] =>
                count' \in Counts
           /\ count.retries < MaxRetries /\ count' = [count EXCEPT !.retries = @ + 1] =>
                count' \in Counts
<1>1. count \in Counts
  BY DEF TypeOK, Counts
<1>2. MaxRuns \in Nat /\ MaxRebinds \in Nat /\ MaxRetries \in Nat /\ MaxFaults \in Nat
  BY IntentConstants
<1>3. PICK c \in Counts : c = count
  BY <1>1
<1>4. Fault => count' \in Counts
  BY <1>2, <1>3 DEF Fault, Counts
<1>5. count.runs < MaxRuns /\ count' = [count EXCEPT !.runs = @ + 1] => count' \in Counts
  BY <1>2, <1>3 DEF Counts
<1>6. count.rebinds < MaxRebinds /\ count' = [count EXCEPT !.rebinds = @ + 1] =>
        count' \in Counts
  BY <1>2, <1>3 DEF Counts
<1>7. count.retries < MaxRetries /\ count' = [count EXCEPT !.retries = @ + 1] =>
        count' \in Counts
  BY <1>2, <1>3 DEF Counts
<1> QED
  BY <1>1, <1>4, <1>5, <1>6, <1>7

(* A step of a drainer, or of time, spares the run, and writes a row only  *)
(* while the Capsule is alive.                                             *)
LEMMA QuietRest ==
    ASSUME IInv, UNCHANGED <<run, missed>>, capsule'.alive = capsule.alive,
           lease' \in Drainers \cup {None, "run"}, count' \in Counts,
           \/ UNCHANGED iface
           \/ /\ capsule.alive
              /\ \E k \in Items, r \in Row : iface' = [iface EXCEPT ![k] = r]
    PROVE  RestOK' /\ RunInv'
<1>1. TypeOK /\ RunInv
  BY DEF IInv
<1>2. iface' \in [Items -> Row]
  BY <1>1 DEF TypeOK
<1>3. RestOK'
  BY <1>1, <1>2 DEF RestOK, TypeOK
<1>4. RunInv'
  BY <1>1 DEF RunInv, Over
<1> QED
  BY <1>3, <1>4

(* Every step of a drainer.                                                *)
LEMMA DrainRest ==
    ASSUME IInv, NEW d \in Drainers, Drain(d) \/ Deadline(d) \/ StoreFails(d) \/ Crash(d)
    PROVE  RestOK' /\ RunInv'
<1>1. TypeOK /\ lease \in Drainers \cup {None, "run"}
  BY DEF IInv, TypeOK
<1>2. CASE Claim(d) \/ ReadLineage(d) \/ Acquire(d) \/ AssertCurrent(d) \/ Release(d)
           \/ Target(d)
  <2>1. /\ UNCHANGED <<run, missed, capsule, count, iface>>
        /\ lease' \in Drainers \cup {None, "run"}
    BY <1>1, <1>2 DEF Claim, ReadLineage, Acquire, AssertCurrent, Release, Target
  <2> QED
    BY <1>1, <2>1, CountStep, QuietRest
<1>3. CASE Deadline(d) \/ StoreFails(d) \/ Crash(d) \/ Settle(d)
  <2>1. UNCHANGED <<run, missed, capsule, iface, lease>> /\ (Fault \/ UNCHANGED count)
    BY <1>3 DEF Deadline, StoreFails, Crash, Settle
  <2> QED
    BY <1>1, <2>1, CountStep, QuietRest
<1>4. CASE Create(d)
  <2>1. drainer[d].pc # "idle"
    BY <1>4 DEF Create
  <2>2. PICK k \in Items : k = drainer[d].cur + 1
    BY <2>1, Busy
  <2>3. /\ UNCHANGED <<run, missed, capsule, count, lease>>
        /\ UNCHANGED iface \/ (Authority(d) /\ iface' = [iface EXCEPT ![k] = Phase("Pending")])
    BY <1>4, <2>2 DEF Create
  <2>4. Authority(d) => capsule.alive
    BY DEF Authority, Disposition
  <2> QED
    BY <1>1, <2>3, <2>4, CountStep, QuietRest, DrainerType
<1>5. CASE Resolve(d)
  <2>1. drainer[d].pc # "idle"
    BY <1>5 DEF Resolve
  <2>2. PICK k \in Items : k = drainer[d].cur + 1
    BY <2>1, Busy
  <2>3. PICK r \in Row : r = drainer[d].new
    BY <2>1, Busy
  <2>4. /\ UNCHANGED <<run, missed, capsule, count, lease>>
        /\ UNCHANGED iface \/ (Authority(d) /\ iface' = [iface EXCEPT ![k] = r])
    BY <1>5, <2>2, <2>3 DEF Resolve
  <2>5. Authority(d) => capsule.alive
    BY DEF Authority, Disposition
  <2> QED
    BY <1>1, <2>4, <2>5, CountStep, QuietRest
<1> QED
  BY <1>2, <1>3, <1>4, <1>5 DEF Drain

(* Time and the operator.                                                  *)
LEMMA TimeRest ==
    ASSUME IInv,
           \/ \E g \in Generations :
                IntentLeaseExpires(g) \/ BackoffElapses(g) \/ RetryDeadLetter(g)
           \/ CapsuleLeaseExpires
    PROVE  RestOK' /\ RunInv'
<1>1. TypeOK /\ lease \in Drainers \cup {None, "run"}
  BY DEF IInv, TypeOK
<1>2. ASSUME NEW g \in Generations, IntentLeaseExpires(g) \/ BackoffElapses(g)
      PROVE  RestOK' /\ RunInv'
  <2>1. UNCHANGED <<run, missed, capsule, iface, lease>> /\ (Fault \/ UNCHANGED count)
    BY <1>2 DEF IntentLeaseExpires, BackoffElapses
  <2> QED
    BY <1>1, <2>1, CountStep, QuietRest
<1>3. ASSUME NEW g \in Generations, RetryDeadLetter(g)
      PROVE  RestOK' /\ RunInv'
  <2>1. /\ UNCHANGED <<run, missed, capsule, iface, lease>>
        /\ count.retries < MaxRetries /\ count' = [count EXCEPT !.retries = @ + 1]
    BY <1>3 DEF RetryDeadLetter
  <2> QED
    BY <1>1, <2>1, CountStep, QuietRest
<1>4. CASE CapsuleLeaseExpires
  <2>1. /\ UNCHANGED <<run, missed, capsule, iface>> /\ lease' = None
        /\ Fault \/ UNCHANGED count
    BY <1>4 DEF CapsuleLeaseExpires
  <2> QED
    BY <1>1, <2>1, CountStep, QuietRest
<1> QED
  BY <1>2, <1>3, <1>4

(* A run in progress, with its type, is of a Capsule that is alive.        *)
LEMMA RunAlive ==
    ASSUME IInv
    PROVE  /\ run.pc \in {"queued", "running"} => capsule.alive
           /\ run \in Run /\ NoRun \in Run
<1>1. NoRun \in Run
  BY DEF NoRun, Run
<1> QED
  BY <1>1 DEF IInv, RunInv, TypeOK

(* An observer starts.                                                     *)
LEMMA ObserveRun ==
    ASSUME IInv, NEW mark \in Marks, Observe(mark)
    PROVE  run' \in Run /\ run'.pc = "list" /\ run'.mark = mark /\ run'.then = "idle"
<1>1. PICK r \in Run : r = run
  BY RunAlive
<1>2. run' = [op |-> r.op, pc |-> "list", mark |-> mark, left |-> r.left, then |-> "idle",
              prior |-> r.prior]
  BY <1>1 DEF Observe, Run
<1>3. run' \in Run
  BY <1>1, <1>2 DEF Run, Marks
<1> QED
  BY <1>2, <1>3

(* A step of the lifecycle that leaves the Capsule alive.                  *)
LEMMA AliveRest ==
    ASSUME IInv, capsule'.alive, UNCHANGED <<iface, missed>>,
           lease' \in Drainers \cup {None, "run"}, count' \in Counts,
           run' \in Run, run'.pc \in {"list", "observe"} => run'.mark # "none"
    PROVE  RestOK' /\ RunInv'
  BY DEF RestOK, RunInv, IInv, TypeOK

(* The start of a run.                                                     *)
LEMMA StartRunStep ==
    ASSUME IInv, NEW op \in {"apply", "destroy", "restore"}, StartRun(op)
    PROVE  CoreStep /\ capsule' \in Capsule /\ RestOK' /\ RunInv'
<1>1. /\ TypeOK /\ capsule.alive /\ lease \in Drainers \cup {None, "run"}
      /\ UNCHANGED <<intent, iface, lease, broken, verified, missed>>
      /\ capsule.safety \in {"safe", "terminating", "unknown", "retired"}
  BY DEF StartRun, IInv, TypeOK, Capsule
<1>2. count' \in Counts
  BY <1>1, CountStep DEF StartRun
<1>3. PICK prior \in {"safe", "unknown"} :
        prior = IF capsule.safety = "safe" THEN "safe" ELSE "unknown"
  OBVIOUS
<1>4. PICK queued : queued = [NoRun EXCEPT !.op = op, !.pc = "queued", !.prior = prior]
  OBVIOUS
<1>5. queued = [op |-> op, pc |-> "queued", mark |-> "none", left |-> {}, then |-> "idle",
                prior |-> prior]
  BY <1>4 DEF NoRun
<1>6. CASE op = "destroy"
  <2>1. /\ capsule' = [capsule EXCEPT !.safety = "terminating"]
        /\ run' = [queued EXCEPT !.pc = "list", !.mark = "Terminating", !.then = "queued"]
    BY <1>3, <1>4, <1>6 DEF StartRun
  <2>2. run' = [op |-> op, pc |-> "list", mark |-> "Terminating", left |-> {},
                then |-> "queued", prior |-> prior]
    BY <1>5, <2>1
  <2>3. run' \in Run /\ run'.mark # "none"
    BY <2>2 DEF Run
  <2>4. CoreStep /\ capsule' \in Capsule /\ capsule'.alive
    BY <1>1, <2>1, SafetyStep
  <2> QED
    BY <1>1, <1>2, <2>3, <2>4, AliveRest
<1>7. CASE op # "destroy"
  <2>1. PICK x \in {"safe", "terminating", "unknown", "retired"} :
          x = IF op = "restore" THEN "unknown" ELSE capsule.safety
    BY <1>1
  <2>2. capsule' = [capsule EXCEPT !.safety = x] /\ run' = queued
    BY <1>3, <1>4, <1>7, <2>1 DEF StartRun
  <2>3. run' \in Run /\ run'.pc = "queued"
    BY <1>5, <2>2 DEF Run
  <2>4. CoreStep /\ capsule' \in Capsule /\ capsule'.alive
    BY <1>1, <2>2, SafetyStep
  <2> QED
    BY <1>1, <1>2, <2>3, <2>4, AliveRest
<1> QED
  BY <1>6, <1>7

(* A step that leaves the intents and the Capsule alone.                   *)
LEMMA IdleCore ==
    ASSUME IInv, UNCHANGED <<capsule, intent, broken, verified>>
    PROVE  CoreStep /\ capsule' \in Capsule
  BY QuietCore DEF IInv, TypeOK

(* The Capsule lease of a run.                                             *)
LEMMA AcquireRunStep ==
    ASSUME IInv, AcquireRun
    PROVE  CoreStep /\ capsule' \in Capsule /\ RestOK' /\ RunInv'
<1>1. /\ TypeOK /\ capsule'.alive /\ lease' = "run"
      /\ UNCHANGED <<capsule, intent, iface, broken, verified, missed, count>>
  BY RunAlive DEF AcquireRun, IInv
<1>2. PICK r \in Run : r = run
  BY RunAlive
<1>3. CASE run.op = "restore"
  <2>1. run' = [r EXCEPT !.pc = "list", !.mark = "Unknown", !.then = "running"]
    BY <1>2, <1>3 DEF AcquireRun
  <2>2. run' = [op |-> r.op, pc |-> "list", mark |-> "Unknown", left |-> r.left,
                then |-> "running", prior |-> r.prior]
    BY <1>2, <2>1 DEF Run
  <2>3. run' \in Run /\ run'.mark # "none"
    BY <1>2, <2>2 DEF Run
  <2> QED
    BY <1>1, <2>3, AliveRest, IdleCore, CountStep
<1>4. CASE run.op # "restore"
  <2>1. run' = [r EXCEPT !.pc = "running"]
    BY <1>2, <1>4 DEF AcquireRun
  <2>2. run' \in Run /\ run'.pc = "running"
    BY <1>2, <2>1 DEF Run
  <2> QED
    BY <1>1, <2>2, AliveRest, IdleCore, CountStep
<1> QED
  BY <1>3, <1>4

(* The end of a run, without or with an observer.                          *)
LEMMA EndRunStep ==
    ASSUME IInv,
           \/ CommitApply \/ AbandonApply \/ AbandonDestroy
           \/ \E g \in Generations : CommitRestore(g)
           \/ \E b \in BOOLEAN : FailRun(b)
    PROVE  CoreStep /\ capsule' \in Capsule /\ RestOK' /\ RunInv'
<1>1. TypeOK /\ lease \in Drainers \cup {None, "run"} /\ NoRun \in Run /\ NoRun.pc = "idle"
  BY RunAlive DEF IInv, TypeOK, NoRun
<1>2. {"reconcile", "Unknown"} \subseteq Marks
  BY DEF Marks
<1>3. CASE CommitApply
  <2>1. /\ run.pc = "running" /\ run' = NoRun /\ UNCHANGED <<iface, missed, count>>
        /\ lease' \in {lease, None}
    BY <1>3 DEF CommitApply
  <2>2. CoreStep /\ capsule' \in Capsule /\ capsule'.alive
    BY <1>3, <2>1, CommitApplyStep, RunAlive
  <2> QED
    BY <1>1, <2>1, <2>2, AliveRest, CountStep
<1>4. CASE AbandonApply
  <2>1. /\ run.pc \in {"queued", "running"} /\ run' = NoRun /\ lease' \in {lease, None}
        /\ UNCHANGED <<capsule, intent, iface, broken, verified, missed, count>>
    BY <1>4 DEF AbandonApply
  <2> QED
    BY <1>1, <2>1, AliveRest, CountStep, IdleCore, RunAlive
<1>5. CASE AbandonDestroy
  <2>1. /\ run.pc \in {"queued", "running"} /\ Observe("reconcile")
        /\ capsule' = [capsule EXCEPT !.safety = run.prior]
        /\ UNCHANGED <<intent, iface, lease, broken, verified, missed, count>>
    BY <1>5 DEF AbandonDestroy
  <2>2. run.prior \in {"safe", "terminating", "unknown", "retired"}
    BY RunAlive DEF Run
  <2>3. CoreStep /\ capsule' \in Capsule /\ capsule'.alive
    BY <2>1, <2>2, SafetyStep, RunAlive
  <2>4. run' \in Run /\ run'.mark = "reconcile"
    BY <1>2, <2>1, ObserveRun
  <2> QED
    BY <1>1, <2>1, <2>3, <2>4, AliveRest, CountStep
<1>6. ASSUME NEW g \in Generations, CommitRestore(g)
      PROVE  CoreStep /\ capsule' \in Capsule /\ RestOK' /\ RunInv'
  <2>1. /\ run.pc = "running" /\ Observe("reconcile")
        /\ UNCHANGED <<iface, lease, missed, count>>
    BY <1>6 DEF CommitRestore
  <2>2. CoreStep /\ capsule' \in Capsule /\ capsule'.alive
    BY <1>6, <2>1, CommitRestoreStep, RunAlive
  <2>3. run' \in Run /\ run'.mark = "reconcile"
    BY <1>2, <2>1, ObserveRun
  <2> QED
    BY <1>1, <2>1, <2>2, <2>3, AliveRest, CountStep
<1>7. ASSUME NEW b \in BOOLEAN, FailRun(b)
      PROVE  CoreStep /\ capsule' \in Capsule /\ RestOK' /\ RunInv'
  <2>1. /\ run.pc = "running" /\ Observe("Unknown")
        /\ UNCHANGED <<iface, lease, missed, count>>
    BY <1>7 DEF FailRun
  <2>2. CoreStep /\ capsule' \in Capsule /\ capsule'.alive
    BY <1>7, <2>1, FailRunStep, RunAlive
  <2>3. run' \in Run /\ run'.mark = "Unknown"
    BY <1>2, <2>1, ObserveRun
  <2> QED
    BY <1>1, <2>1, <2>2, <2>3, AliveRest, CountStep
<1> QED
  BY <1>3, <1>4, <1>5, <1>6, <1>7

(* The end of the Capsule: its observer is about to list the rows.         *)
LEMMA DestroyRest ==
    ASSUME IInv, CommitDestroy
    PROVE  CoreStep /\ capsule' \in Capsule /\ RestOK' /\ RunInv'
<1>1. /\ TypeOK /\ Observe("Retired") /\ UNCHANGED <<iface, lease, missed, count>>
      /\ "Retired" \in Marks
  BY DEF IInv, CommitDestroy, Marks
<1>2. run' \in Run /\ run'.pc = "list" /\ run'.mark = "Retired" /\ run'.then = "idle"
  BY <1>1, ObserveRun
<1>3. count' \in Counts
  BY <1>1, CountStep
<1>4. RestOK'
  BY <1>1, <1>2, <1>3 DEF RestOK, TypeOK
<1>5. RunInv'
  BY <1>2 DEF RunInv
<1> QED
  BY <1>4, <1>5, CommitDestroyStep

(* The list of an observer has every row that is not over.                 *)
LEMMA ListRowsStep ==
    ASSUME IInv, ListRows
    PROVE  CoreStep /\ capsule' \in Capsule /\ RestOK' /\ RunInv'
<1>1. /\ TypeOK /\ RunInv /\ run.pc = "list"
      /\ UNCHANGED <<capsule, intent, iface, lease, broken, verified, missed, count>>
  BY DEF IInv, ListRows
<1>2. PICK left \in SUBSET Items : left = {k \in Items : ~Over(k)}
  OBVIOUS
<1>3. PICK r \in Run : r = run
  BY RunAlive
<1>4. run' = [r EXCEPT !.pc = "observe", !.left = left]
  BY <1>2, <1>3 DEF ListRows, Over
<1>5. run' = [op |-> r.op, pc |-> "observe", mark |-> r.mark, left |-> left,
              then |-> r.then, prior |-> r.prior]
  BY <1>3, <1>4 DEF Run
<1>6. run' \in Run
  BY <1>3, <1>5 DEF Run
<1>7. RestOK'
  BY <1>1, <1>6, CountStep DEF RestOK, TypeOK
<1>8. RunInv'
  BY <1>1, <1>2, <1>3, <1>5 DEF RunInv, Over
<1> QED
  BY <1>1, <1>7, <1>8, IdleCore

(* An observer marks a row of its list.                                    *)
LEMMA ObserveRowStep ==
    ASSUME IInv, NEW k \in Items, ObserveRow(k)
    PROVE  CoreStep /\ capsule' \in Capsule /\ RestOK' /\ RunInv'
<1>1. /\ TypeOK /\ RunInv /\ run.pc = "observe" /\ run.mark # "none" /\ MaxGen \in Nat
      /\ UNCHANGED <<capsule, intent, lease, broken, verified, missed, count>>
  BY IntentConstants DEF IInv, ObserveRow, RunInv
<1>2. PICK r \in Run : r = run
  BY RunAlive
<1>3. run' = [op |-> r.op, pc |-> r.pc, mark |-> r.mark, left |-> r.left \ {k},
              then |-> r.then, prior |-> r.prior]
  BY <1>2 DEF ObserveRow, Run
<1>4. run' \in Run
  BY <1>2, <1>3 DEF Run
<1>5. PICK row : row = IF run.mark = "reconcile" THEN Resolution ELSE Phase(run.mark)
  OBVIOUS
<1>6. row \in Row
  <2>1. CASE run.mark = "reconcile"
    BY <1>1, <1>5, <2>1, ResolutionRow
  <2>2. CASE run.mark # "reconcile"
    <3>1. run.mark \in {"Terminating", "Unknown", "Retired"}
      BY <1>1, <1>2, <2>2 DEF Run
    <3> QED
      BY <1>1, <1>5, <2>2, <3>1 DEF Phase, Row
  <2> QED
    BY <2>1, <2>2
<1>7. iface' = [iface EXCEPT ![k] = row]
  BY <1>5 DEF ObserveRow
<1>8. /\ iface' \in [Items -> Row] /\ iface'[k] = row
      /\ \A j \in Items \ {k} : iface'[j] = iface[j]
  BY <1>1, <1>6, <1>7 DEF TypeOK
<1>9. RestOK'
  BY <1>1, <1>4, <1>8, CountStep DEF RestOK, TypeOK
<1>10. RunInv'
  <2>1. CASE capsule.alive
    BY <1>1, <1>2, <1>3, <2>1 DEF RunInv
  <2>2. CASE ~capsule.alive
    <3>1. run.mark = "Retired" /\ run.then = "idle"
          /\ \A j \in Items \ run.left : Over(j)
      BY <1>1, <2>2 DEF RunInv
    <3>2. Over(k)'
      BY <1>5, <1>8, <3>1 DEF Over, Phase
    <3>3. \A j \in Items \ run'.left : Over(j)'
      BY <1>2, <1>3, <1>8, <3>1, <3>2 DEF Over
    <3> QED
      BY <1>1, <1>2, <1>3, <3>1, <3>3 DEF RunInv
  <2> QED
    BY <2>1, <2>2
<1> QED
  BY <1>1, <1>9, <1>10, IdleCore

(* The observer of a destroy ends with every row over, or is lost.         *)
LEMMA EndObserverStep ==
    ASSUME IInv, EndObserver
    PROVE  CoreStep /\ capsule' \in Capsule /\ RestOK' /\ RunInv'
<1>1. /\ TypeOK /\ RunInv /\ run.pc \in {"list", "observe"}
      /\ UNCHANGED <<capsule, intent, iface, broken, verified>>
      /\ lease' \in {lease, None}
      /\ \/ run.pc = "observe" /\ run.left = {} /\ UNCHANGED <<missed, count>>
         \/ Fault /\ missed' = TRUE
  BY DEF IInv, EndObserver
<1>2. PICK r \in Run : r = run
  BY RunAlive
<1>3. count' \in Counts /\ missed' \in BOOLEAN
  BY <1>1, CountStep DEF TypeOK
<1>4. CASE run.then = "idle"
  <2>1. run' = NoRun /\ NoRun \in Run /\ NoRun.pc = "idle"
    BY <1>4, RunAlive DEF EndObserver, NoRun
  <2>2. ~capsule.alive => missed' \/ \A k \in Items : Over(k)
    BY <1>1 DEF RunInv
  <2>3. RunInv'
    BY <1>1, <2>1, <2>2 DEF RunInv, Over
  <2>4. RestOK'
    BY <1>1, <1>3, <2>1 DEF RestOK, TypeOK
  <2> QED
    BY <1>1, <2>3, <2>4, IdleCore
<1>5. CASE run.then # "idle"
  <2>1. run' = [r EXCEPT !.pc = r.then, !.mark = "none", !.left = {}]
    BY <1>2, <1>5 DEF EndObserver
  <2>2. run' = [op |-> r.op, pc |-> r.then, mark |-> "none", left |-> {}, then |-> r.then,
                prior |-> r.prior]
    BY <1>2, <2>1 DEF Run
  <2>3. r.then \in {"queued", "running"}
    BY <1>2, <1>5 DEF Run
  <2>4. run' \in Run
    BY <1>2, <2>2, <2>3 DEF Run
  <2>5. RestOK'
    BY <1>1, <1>3, <2>4 DEF RestOK, TypeOK
  <2>6. RunInv'
    BY <1>1, <1>5, <2>2, <2>3 DEF RunInv
  <2> QED
    BY <1>1, <2>5, <2>6, IdleCore
<1> QED
  BY <1>4, <1>5

(* A rebind waits for the runs.                                            *)
LEMMA RebindRest ==
    ASSUME IInv, Rebind
    PROVE  CoreStep /\ capsule' \in Capsule /\ RestOK' /\ RunInv'
<1>1. /\ TypeOK /\ UNCHANGED <<iface, lease, run, missed>>
      /\ count.rebinds < MaxRebinds /\ count' = [count EXCEPT !.rebinds = @ + 1]
  BY DEF IInv, Rebind
<1>2. count' \in Counts /\ lease \in Drainers \cup {None, "run"}
  BY <1>1, CountStep DEF TypeOK
<1>3. CoreStep /\ capsule' \in Capsule /\ capsule'.alive = capsule.alive
  BY RebindStep
<1> QED
  BY <1>1, <1>2, <1>3, QuietRest

-----------------------------------------------------------------------------
(* The invariant.                                                          *)

(* The steps that are not a drainer's.                                     *)
Lifecycle ==
    \/ \E g \in Generations :
         IntentLeaseExpires(g) \/ BackoffElapses(g) \/ RetryDeadLetter(g)
    \/ CapsuleLeaseExpires
    \/ \E op \in {"apply", "destroy", "restore"} : StartRun(op)
    \/ Advance
    \/ Rebind

(* Every step of a drainer keeps what its component knows.                 *)
LEMMA DrainCore ==
    ASSUME IInv, NEW d \in Drainers, Drain(d) \/ Deadline(d) \/ StoreFails(d) \/ Crash(d)
    PROVE  DrainStep(d)
  BY ClaimStep, ReadLineageStep, AcquireStep, AssertCurrentStep, TargetStep, CreateStep,
     ResolveStep, SettleStep, ReleaseStep, DeadlineStep, StoreFailsStep DEF Drain

(* Every other step leaves the drainers as they are.                       *)
LEMMA LifecycleCore ==
    ASSUME IInv, Lifecycle
    PROVE  CoreStep /\ capsule' \in Capsule /\ RestOK' /\ RunInv' /\ UNCHANGED drainer
<1>1. UNCHANGED drainer
  BY DEF Lifecycle, IntentLeaseExpires, BackoffElapses, RetryDeadLetter,
         CapsuleLeaseExpires, StartRun, Advance, AcquireRun, CommitApply, CommitDestroy,
         AbandonDestroy, AbandonApply, CommitRestore, FailRun, ListRows, EndObserver,
         ObserveRow, Rebind
<1>2. ASSUME NEW g \in Generations,
             IntentLeaseExpires(g) \/ BackoffElapses(g) \/ RetryDeadLetter(g)
      PROVE  CoreStep /\ capsule' \in Capsule /\ RestOK' /\ RunInv'
  <2>1. CoreStep
    BY <1>2, AgesStep, RetryStep
  <2> QED
    BY <1>2, <2>1, TimeRest DEF CoreStep, CapsuleStep
<1>3. CASE CapsuleLeaseExpires
  BY <1>3, TimeRest, IdleCore DEF CapsuleLeaseExpires
<1>4. ASSUME NEW op \in {"apply", "destroy", "restore"}, StartRun(op)
      PROVE  CoreStep /\ capsule' \in Capsule /\ RestOK' /\ RunInv'
  BY <1>4, StartRunStep
<1>5. CASE Advance
  BY <1>1, <1>5, AcquireRunStep, EndRunStep, DestroyRest, ListRowsStep, EndObserverStep,
     ObserveRowStep DEF Advance
<1>6. CASE Rebind
  BY <1>1, <1>6, RebindRest
<1> QED
  BY <1>1, <1>2, <1>3, <1>4, <1>5, <1>6 DEF Lifecycle

(* The parts of the invariant, put together.                               *)
LEMMA Assembled ==
    ASSUME IInv, CoreStep, RestOK', RunInv', drainer' \in [Drainers -> Drainer], WorkInv'
    PROVE  IInv'
<1>1. IntentInv' /\ BrokenInv' /\ broken' \subseteq Generations
  BY IntentStep, BrokenStep
<1>2. CursorIsTrue' /\ DeadLetterIsHonest'
  BY CursorStep
<1>3. \A g \in Generations :
        intent'[g].live => intent'[g].status = "pending" /\ intent'[g].token # None
  BY RowSteps
<1>4. TypeOK'
  BY <1>1, <1>3 DEF TypeOK, CoreStep, CapsuleStep, RestOK, Counts
<1> QED
  BY <1>1, <1>2, <1>4 DEF IInv

(* The invariant is inductive.                                             *)
LEMMA Inductive ==
    ASSUME IInv, [Next]_vars
    PROVE  IInv'
<1>1. ASSUME NEW d \in Drainers, Drain(d) \/ Deadline(d) \/ StoreFails(d) \/ Crash(d)
      PROVE  IInv'
  <2>1. CoreStep /\ OthersRest(d) /\ Informed(d)'
    BY <1>1, DrainCore DEF DrainStep
  <2>2. \A e \in Drainers : Informed(e)'
    BY <2>1, OthersInformed DEF OthersRest
  <2>3. RestOK' /\ RunInv'
    BY <1>1, DrainRest
  <2> QED
    BY <2>1, <2>2, <2>3, Assembled DEF OthersRest, WorkInv
<1>2. CASE Lifecycle
  <2>1. CoreStep /\ RestOK' /\ RunInv' /\ UNCHANGED drainer
    BY <1>2, LifecycleCore
  <2>2. \A e \in Drainers : Informed(e)'
    BY <2>1, OthersInformed
  <2>3. drainer' \in [Drainers -> Drainer]
    BY <2>1 DEF IInv, TypeOK
  <2> QED
    BY <2>1, <2>2, <2>3, Assembled DEF WorkInv
<1>3. CASE UNCHANGED vars
  <2>1. UNCHANGED <<capsule, intent, iface, lease, drainer, run, broken, verified, missed,
                    count>>
    BY <1>3 DEF vars
  <2>2. CoreStep
    BY <2>1, IdleCore
  <2>3. \A e \in Drainers : Informed(e)'
    BY <2>1, <2>2, OthersInformed
  <2>4. drainer' \in [Drainers -> Drainer] /\ RestOK'
    BY <2>1 DEF IInv, TypeOK, RestOK, Counts
  <2>5. RunInv'
    BY <2>1 DEF IInv, RunInv, Over
  <2> QED
    BY <2>2, <2>3, <2>4, <2>5, Assembled DEF WorkInv
<1> QED
  BY <1>1, <1>2, <1>3 DEF Next, Lifecycle

(* The invariant holds of the initial state.                               *)
LEMMA Initial ==
    ASSUME Init
    PROVE  IInv
<1>1. MaxGen \in Nat /\ TotalItems \in Nat \ {0} /\ ItemBudget \in Nat
  BY IntentConstants
<1>2. Absent \in Intent /\ Absent.status = "absent" /\ Absent.next = 0
      /\ Absent.live = FALSE /\ Absent.receipt = "none"
  BY <1>1 DEF Absent, Intent
<1>3. NoRun \in Run /\ NoRun.pc = "idle"
  BY DEF NoRun, Run
<1>4. capsule \in Capsule /\ capsule.alive
  BY <1>1 DEF Init, Capsule
<1>5. \A g \in Generations : intent[g] = Absent
  BY DEF Init
<1>6. TypeOK
  <2>1. count \in [runs: 0 .. MaxRuns, rebinds: 0 .. MaxRebinds, retries: 0 .. MaxRetries,
                   faults: 0 .. MaxFaults]
    BY IntentConstants DEF Init
  <2>2. /\ intent \in [Generations -> Intent] /\ iface \in [Items -> Row]
        /\ drainer \in [Drainers -> Drainer] /\ verified \in [Generations -> SUBSET Items]
    BY <1>2, DrainerType DEF Init
  <2> QED
    BY <1>2, <1>3, <1>4, <1>5, <2>1, <2>2 DEF TypeOK, Init
<1>7. IntentInv /\ BrokenInv
  BY <1>2, <1>5 DEF IntentInv, BrokenInv, Open, Init
<1>8. WorkInv
  BY DEF WorkInv, Informed, Init, Idle, Phase, Fencing
<1>9. RunInv
  BY <1>3, <1>4 DEF RunInv, Init
<1>10. CursorIsTrue /\ DeadLetterIsHonest
  BY <1>2, <1>5 DEF CursorIsTrue, DeadLetterIsHonest
<1> QED
  BY <1>6, <1>7, <1>8, <1>9, <1>10 DEF IInv

-----------------------------------------------------------------------------
(* The theorems.                                                           *)

(* The inductive invariant holds in every state of the interface           *)
(* materialization.                                                        *)
THEOREM Invariance == Spec => []IInv
<1>1. Init => IInv
  BY Initial
<1>2. IInv /\ [Next]_vars => IInv'
  BY Inductive
<1> QED
  BY <1>1, <1>2, PTL DEF Spec

(* The rows, leases and processes of the materialization have their types, *)
(* and a lease is live only on a pending row with an owner.                *)
THEOREM TypeCorrect == Spec => []TypeOK
  BY Invariance, PTL DEF IInv

(* The cursor and the receipt of an intent tell the truth: all the items   *)
(* the cursor passed were seen Resolved from the Output of that generation.*)
THEOREM CursorIsTrueHolds == Spec => []CursorIsTrue
  BY Invariance, PTL DEF IInv

(* A create that the write fence refused is never recorded as a conflict   *)
(* of the declaration.                                                     *)
THEOREM DeadLetterIsHonestHolds == Spec => []DeadLetterIsHonest
  BY Invariance, PTL DEF IInv

(* No Interface outlives its Capsule unless the observer of the destroy    *)
(* was lost.                                                               *)
THEOREM NothingAfterDestroyHolds == Spec => []NothingAfterDestroy
<1>1. IInv => NothingAfterDestroy
  BY DEF IInv, RunInv, Over, NothingAfterDestroy
<1> QED
  BY <1>1, Invariance, PTL

(* What a step may do to an obligation.                                    *)
AdvanceStep ==
    \A g \in Generations :
        /\ intent'[g].next >= intent[g].next
        /\ intent[g].status = "completed" => intent'[g] = intent[g]
        /\ intent[g].status = "dead_letter" /\ intent'[g].status = "pending" =>
             g \notin broken'

(* Only the operator reopens a dead letter, and only of a lineage that     *)
(* never broke.                                                            *)
LEMMA CoreAdvances ==
    ASSUME IInv, CoreStep
    PROVE  AdvanceStep
<1>1. SUFFICES ASSUME NEW g \in Generations
               PROVE  /\ intent[g].status = "completed" => intent'[g] = intent[g]
                      /\ intent[g].status = "dead_letter" /\ intent'[g].status = "pending" =>
                           g \notin broken'
  BY RowSteps DEF AdvanceStep
<1>2. CASE intent'[g] = intent[g]
  BY <1>2
<1>3. ASSUME NEW d \in Drainers, Taken(d, g) \/ Settled(d, g)
      PROVE  intent[g].status = "pending"
  BY <1>3 DEF Taken, Settled, Claimed
<1>4. Ages(g) => intent[g].status = "pending"
  BY DEF Ages
<1>5. Fresh(g) => intent[g].status = "absent"
  BY Numbers DEF Fresh, IInv, IntentInv
<1>6. CASE Retires(g)
  BY <1>6 DEF Retires, Holds, Open
<1>7. CASE Reopens(g)
  <2>1. intent[g].status = "dead_letter" /\ broken' = broken /\ ~Left(g)
    BY <1>7 DEF Reopens, Disposition, Left
  <2> QED
    BY <2>1 DEF IInv, BrokenInv
<1> QED
  BY <1>2, <1>3, <1>4, <1>5, <1>6, <1>7 DEF CoreStep, RowStep

(* No late claimant moves a cursor back, a completed intent stays as it    *)
(* is, and a dead letter is reopened only for the Capsule's own lineage.   *)
THEOREM ObligationAdvancesHolds == Spec => ObligationAdvances
<1>1. IInv /\ [Next]_vars => [AdvanceStep]_vars
  <2> SUFFICES ASSUME IInv, Next PROVE AdvanceStep
    OBVIOUS
  <2>1. CoreStep
    BY DrainCore, LifecycleCore DEF Next, Lifecycle, DrainStep
  <2> QED
    BY <2>1, CoreAdvances
<1> QED
  BY <1>1, Invariance, PTL DEF Spec, ObligationAdvances, AdvanceStep

(* What a step of a drainer may write.                                     *)
FencedStep ==
    \A d \in Drainers :
        drainer'[d] # drainer[d] /\ iface' # iface =>
          /\ drainer[d].gen \notin broken
          /\ iface'[drainer[d].cur + 1].gen \in {0, capsule.gen}

(* Authority at the write means a lineage that never broke.                *)
LEMMA AuthorityIsCurrent ==
    ASSUME IInv, NEW d \in Drainers, Authority(d)
    PROVE  drainer[d].gen \notin broken /\ capsule.gen = drainer[d].gen
<1>1. PICK g : g = drainer[d].gen
  OBVIOUS
<1>2. intent[g].status = "pending" /\ ~Left(g) /\ capsule.gen = g
  BY <1>1 DEF Authority, Claimed, Disposition, Left
<1> QED
  BY <1>1, <1>2 DEF IInv, BrokenInv

(* Create and Resolve are the only writes, and both are fenced.            *)
LEMMA DrainFenced ==
    ASSUME IInv, NEW d \in Drainers, Drain(d) \/ Deadline(d) \/ StoreFails(d) \/ Crash(d),
           iface' # iface
    PROVE  /\ drainer[d].gen \notin broken
           /\ iface'[drainer[d].cur + 1].gen \in {0, capsule.gen}
<1>1. Create(d) \/ Resolve(d)
  BY DEF Drain, Claim, ReadLineage, Acquire, AssertCurrent, Target, Settle, Release,
         Deadline, StoreFails, Crash
<1>2. drainer[d].pc # "idle" /\ iface \in [Items -> Row] /\ TypeOK
  BY <1>1 DEF Create, Resolve, IInv, TypeOK
<1>3. PICK k \in Items : k = drainer[d].cur + 1
  BY <1>2, Busy
<1>4. CASE Create(d)
  <2>1. Authority(d) /\ iface' = [iface EXCEPT ![k] = Phase("Pending")]
    BY <1>3, <1>4 DEF Create
  <2>2. iface'[k].gen = 0
    BY <1>2, <2>1 DEF Phase
  <2> QED
    BY <1>3, <2>1, <2>2, AuthorityIsCurrent
<1>5. CASE Resolve(d)
  <2>1. Authority(d) /\ iface' = [iface EXCEPT ![k] = drainer[d].new]
    BY <1>3, <1>5 DEF Resolve
  <2>2. iface'[k] = drainer[d].new
    BY <1>2, <2>1
  <2>3. drainer[d].gen \notin broken /\ capsule.gen = drainer[d].gen
    BY <2>1, AuthorityIsCurrent
  <2>4. drainer[d].new.gen # 0 =>
          drainer[d].gen <= drainer[d].new.gen /\ drainer[d].new.gen <= capsule.gen
    BY DEF IInv, WorkInv, Informed
  <2>5. drainer[d].new.gen \in {0, capsule.gen}
    BY <1>2, <2>3, <2>4, Numbers
  <2> QED
    BY <1>3, <2>2, <2>3, <2>5
<1> QED
  BY <1>1, <1>4, <1>5

(* The write fence: a drainer writes an Interface row only for a lineage   *)
(* that never ceased to be the Capsule's, from the Output that is current. *)
THEOREM WritesAreCurrentHolds == Spec => WritesAreCurrent
<1>1. IInv /\ [Next]_vars => [FencedStep]_vars
  <2> SUFFICES ASSUME IInv, Next PROVE FencedStep
    OBVIOUS
  <2>1. CASE Lifecycle
    BY <2>1, LifecycleCore DEF FencedStep
  <2>2. ASSUME NEW e \in Drainers, Drain(e) \/ Deadline(e) \/ StoreFails(e) \/ Crash(e)
        PROVE  FencedStep
    <3>1. OthersRest(e)
      BY <2>2, DrainCore DEF DrainStep
    <3>2. SUFFICES ASSUME iface' # iface
                   PROVE  /\ drainer[e].gen \notin broken
                          /\ iface'[drainer[e].cur + 1].gen \in {0, capsule.gen}
      BY <3>1 DEF FencedStep, OthersRest
    <3> QED
      BY <2>2, <3>2, DrainFenced
  <2> QED
    BY <2>1, <2>2 DEF Next, Lifecycle
<1> QED
  BY <1>1, Invariance, PTL DEF Spec, WritesAreCurrent, FencedStep
=============================================================================
