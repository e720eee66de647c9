---------------------------- MODULE RoutingPlan -----------------------------
(***************************************************************************)
(* The try-order of a routing-group request: the pure functions of         *)
(* shared/routingGroups.ts and main/proxy/routing/plan.ts.  A member is    *)
(* its seat (provider and model); a group never lists a seat twice.        *)
(***************************************************************************)
EXTENDS Integers, SequencesExt, FiniteSets

\* The elements of S in the strict order R, a set of pairs.
Sorted(S, R) ==
  [k \in 1..Cardinality(S) |-> CHOOSE i \in S : Cardinality({j \in S : <<j, i>> \in R}) = k - 1]

\* What filter() leaves of a list: its entries at the positions I.
Kept(list, I) ==
  [k \in 1..Cardinality(I) |-> list[CHOOSE i \in I : Cardinality({j \in I : j < i}) = k - 1]]

\* Mutant of rotated: the cursor is left out.
unrotated(members, cursor) == members

\* The members starting from the cursor, around.
rotated(members, cursor) ==
  [i \in DOMAIN members |-> members[((i - 1 + cursor) % Len(members)) + 1]]

\* The members by their number of ok replies, then in the group's order.
leastUsed(members, ok) ==
  LET first == {p \in (DOMAIN members) \X (DOMAIN members) :
                  \/ ok[members[p[1]]] < ok[members[p[2]]]
                  \/ ok[members[p[1]]] = ok[members[p[2]]] /\ p[1] < p[2]}
      order == Sorted(DOMAIN members, first)
  IN [k \in DOMAIN order |-> members[order[k]]]

orderMemberIndexes(strategy, members, cursor, ok) ==
  IF strategy = "rotate" THEN rotated(members, cursor)
  ELSE IF strategy = "least_used" THEN leastUsed(members, ok)
  ELSE members

applyAffinityOrder(order, stick) ==
  IF stick \notin ToSet(order) THEN order
  ELSE LET i == CHOOSE i \in DOMAIN order : order[i] = stick
       IN <<stick>> \o RemoveAt(order, i)

deferCooling(order, cooling) ==
  Kept(order, {i \in DOMAIN order : order[i] \notin cooling})
  \o Kept(order, {i \in DOMAIN order : order[i] \in cooling})

\* Mutant of planRoutingOrder: the pinned seat is put first after the resting
\* ones were sent to the back.
planStickLast(members, strategy, stick, cooling, ok, cursor) ==
  applyAffinityOrder(
    deferCooling(orderMemberIndexes(strategy, members, cursor, ok), cooling), stick)

planRoutingOrder(members, strategy, stick, cooling, ok, cursor) ==
  deferCooling(
    applyAffinityOrder(orderMemberIndexes(strategy, members, cursor, ok), stick), cooling)
=============================================================================
