--------------------------- MODULE MCSubscription ---------------------------
(* Small instances of Subscription: a friend and the sponsor of the friend.  *)
EXTENDS Subscription, TLC

CONSTANTS friend, sponsor, t1, t2

Friend     == {friend}
Both       == {friend, sponsor}
OneTask    == {t1}
TwoTasks   == {t1, t2}
Symmetry   == Permutations(Tasks)
MCReferrer == [u \in Users |-> IF u = friend /\ sponsor \in Users THEN sponsor ELSE None]
MCBonus    == [k \in BonusKinds |-> IF k = "trial" THEN 2 ELSE 1]
=============================================================================
