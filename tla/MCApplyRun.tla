----------------------------- MODULE MCApplyRun -----------------------------
(* Instances of ApplyRun: two applies of one or of two plans over one      *)
(* Capsule, and one apply delivered twice.                                 *)
EXTENDS ApplyRun, TLC

CONSTANTS p1, p2, a1, a2, w1, w2

EachOnce == w1 :> a1 @@ w2 :> a2
Twice == w1 :> a1 @@ w2 :> a1

(* The plans are alike, and so are the applies, each with its consumer.    *)
Alike ==
    Permutations({p1, p2}) \cup
    {f \in Permutations({a1, a2, w1, w2}) :
       \A w \in {w1, w2} : f[w] \in {w1, w2} /\ EachOnce[f[w]] = f[EachOnce[w]]}
=============================================================================
