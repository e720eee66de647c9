----------------------------- MODULE RouteTable -----------------------------
(***************************************************************************)
(* What the loopback proxy promises about its route table, with no word on *)
(* how the table is kept.  An agent has at most one route: a token and the *)
(* target it stands for.  Pointing an agent at the target it already has   *)
(* keeps the token; pointing it anywhere else gives a token that was never *)
(* handed out before; a dropped token is gone.  A change touches one agent *)
(* and reaches the durable copy at once or, when the write fails, not at   *)
(* all; a restart gives back the durable copy and nothing else.            *)
(***************************************************************************)
CONSTANTS
  Agents,      \* the coding agents a route can belong to
  Targets,     \* what a route can point at
  Tokens,      \* the tokens that can be handed out
  NoRoute      \* stands for "this agent has no route"

VARIABLES
  route,       \* the route of each agent: [token, target], or NoRoute
  durable,     \* the same table as a restart will find it
  used         \* the tokens handed out so far

tableVars == <<route, durable, used>>

Empty == [a \in Agents |-> NoRoute]

Init == /\ route = Empty
        /\ durable = Empty
        /\ used = {}

\* The new table is written through, or the write fails and the old copy stays.
WriteThrough == durable' \in {route', durable}

\* The agent already has a route to t: its address does not change.
Keep(a, t) ==
  /\ route[a] # NoRoute /\ route[a].target = t
  /\ UNCHANGED <<route, used>>
  /\ WriteThrough

\* The agent is pointed somewhere new: a token nobody has seen replaces the
\* old one in the same step.
Point(a, t) ==
  /\ route[a] = NoRoute \/ route[a].target # t
  /\ \E tok \in Tokens \ used :
       /\ route' = [route EXCEPT ![a] = [token |-> tok, target |-> t]]
       /\ used' = used \cup {tok}
  /\ WriteThrough

Drop(a) ==
  /\ route' = [route EXCEPT ![a] = NoRoute]
  /\ UNCHANGED used
  /\ WriteThrough

\* The table is saved again.
Flush == UNCHANGED <<route, used>> /\ WriteThrough

\* The process ends: nothing is served, the durable copy keeps every address.
Stop == route' = Empty /\ UNCHANGED <<durable, used>>

Restart == route' = durable /\ UNCHANGED <<durable, used>>

Next == \/ \E a \in Agents, t \in Targets : Keep(a, t) \/ Point(a, t)
        \/ \E a \in Agents : Drop(a)
        \/ Flush
        \/ Stop
        \/ Restart

Spec == Init /\ [][Next]_tableVars
=============================================================================
