------------------------------- MODULE MCPlan -------------------------------
(* Instances of PlanSystem for TLC. *)
EXTENDS PlanSystem, TLC

CONSTANTS pA, pB, n1, n2, n3

\* pA runs on n1; pB runs on n1 as well, or is still to be added.
OnePlaced == <<pA, 1>> :> n1
TwoPlaced == <<pA, 1>> :> n1 @@ <<pB, 1>> :> n1

Add(part, to) == Line("ADD", part, to, to)
Del(part, from) == Line("DEL", part, from, from)
Move(part, from, to) == Line("MOVE", part, from, to)

\* Moves only, of one partition; the last two lines are one plan.
MovePlans == {<<Move(pA, n1, n2)>>, <<Move(pA, n2, n3)>>, <<Move(pA, n2, n1)>>,
              <<Move(pA, n1, n3), Add(pA, n2)>>, <<Add(pB, n2)>>}

\* Additions, deletions and moves of a partition the broker knows and of a new
\* layer.
MixedPlans == {<<Move(pA, n1, n2)>>, <<Del(pA, n1)>>, <<Del(pA, n2)>>, <<Add(pA, n2)>>,
               <<Add(pB, n1), Add(pB, n2)>>, <<Del(pB, n1)>>}

\* Both partitions leave n1.
BothMove == {<<Move(pA, n1, n2), Move(pB, n1, n2)>>}

\* Under the lock with services that go down, with kills and with failing calls,
\* and without a lock with kills.
AnyRegime == {Regime(TRUE, {"down"}, 3), Regime(TRUE, {"kill"}, 2), Regime(TRUE, {"fail"}, 1),
              Regime(FALSE, {"kill"}, 2)}
FailingOnce == {Regime(TRUE, {"fail"}, 1)}
MovesRegime == {Regime(TRUE, {}, 3), Regime(TRUE, {"late"}, 2), Regime(FALSE, {}, 1)}
LockedOnce == {Regime(TRUE, {}, 1)}
UnlockedOnce == {Regime(FALSE, {}, 1)}

\* A new layer on two nodes, in one plan or two.
NewLayers == {<<Add(pB, n1)>>, <<Add(pB, n2)>>, <<Add(pB, n1), Add(pB, n2)>>}
=============================================================================
