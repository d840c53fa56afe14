------------------------------- MODULE MCSync -------------------------------
(***************************************************************************)
(* Small instances of Sync for TLC: two categories, two weaknesses, two    *)
(* editions.  In edition 1 category c1 needs two batches and category c2   *)
(* has no relationships; edition 2 drops c2 and the link of w2 to c1.      *)
(***************************************************************************)
EXTENDS Sync, TLC

CONSTANTS c1, c2, w1, w2, t1, t2

MCCat == {c1, c2}
MCCwe == {w1, w2}

MCWorker == {t1, t2}
MCOneWorker == {t1}

MCMembers == [e \in 1 .. MaxEdition |-> IF e = 1 THEN {c1, c2} ELSE {c1}]

MCRel ==
  [e \in 1 .. MaxEdition |->
     (c2 :> {}) @@ (c1 :> IF e = 1 THEN {w1, w2} ELSE {w1})]

MCWorkerSymmetry == Permutations(Worker)
=============================================================================
