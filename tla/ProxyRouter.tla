---------------------------- MODULE ProxyRouter -----------------------------
(***************************************************************************)
(* The route registry of the translation proxy and its persistence:        *)
(* main/proxy/router.ts keeps two maps, token to route spec and agent to   *)
(* token, that every operation has to keep each other's inverse;           *)
(* main/proxy/translationProxy.ts wraps each change with a save of the     *)
(* whole table to proxy.json (main/proxy/proxyStore.ts).  A route spec is  *)
(* the agent it belongs to and a target; a target stands for the fields    *)
(* sameSpec() compares (provider, formats, upstream, model, group).        *)
(***************************************************************************)
CONSTANTS
  Agents,      \* AgentId
  Targets,     \* a RouteSpec without its agentId
  Tokens,      \* the values randomUUID() can return
  NoToken,     \* "no entry" in tokenByAgent
  NoSpec       \* "no entry" in byToken

RouteSpec == [agentId : Agents, target : Targets]

ASSUME NoTokenAssumption == NoToken \notin Tokens
ASSUME NoSpecAssumption ==
         NoSpec \notin RouteSpec \cup [token : Tokens, target : Targets]

VARIABLES
  byToken,       \* Map<token, RouteSpec>
  tokenByAgent,  \* Map<AgentId, token>
  saved,         \* "routes" of proxy.json: what the next start rebuilds from
  minted,        \* every token ever returned by randomUUID(): none repeats
  listening      \* port >= 0: the http server is bound

routerVars == <<byToken, tokenByAgent>>
vars == <<byToken, tokenByAgent, saved, minted, listening>>

PersistedRoute == [token : Tokens, spec : RouteSpec]

RouterTypeOK ==
  /\ byToken \in [Tokens -> RouteSpec \cup {NoSpec}]
  /\ tokenByAgent \in [Agents -> Tokens \cup {NoToken}]

TypeOK ==
  /\ RouterTypeOK
  /\ saved \subseteq PersistedRoute
  /\ minted \subseteq Tokens
  /\ listening \in BOOLEAN

(***************************************************************************)
(* The registry's own operations.                                          *)
(***************************************************************************)
has(a) == tokenByAgent[a] # NoToken

\* routeFor(a) returns a route: the two maps agree that there is one.
Routed(a) == has(a) /\ byToken[tokenByAgent[a]] # NoSpec

\* Mutant of SameTarget: a re-registered route always gets a new token.
NeverSame(a, t) == FALSE

\* register() finds a live route of the agent with the same target.
SameTarget(a, t) == Routed(a) /\ byToken[tokenByAgent[a]].target = t

\* Mutant of register: the token a re-pointed agent had stays in byToken.
registerKeepingOld(a, t, fresh) ==
  LET spec == [agentId |-> a, target |-> t]
  IN IF SameTarget(a, t)
     THEN /\ byToken' = [byToken EXCEPT ![tokenByAgent[a]] = spec]
          /\ UNCHANGED tokenByAgent
     ELSE /\ byToken' = [byToken EXCEPT ![fresh] = spec]
          /\ tokenByAgent' = [tokenByAgent EXCEPT ![a] = fresh]

\* register(): reuse the token of an unchanged target, else drop the old
\* token and enter the new one in both maps.
register(a, t, fresh) ==
  LET spec == [agentId |-> a, target |-> t]
  IN IF SameTarget(a, t)
     THEN /\ byToken' = [byToken EXCEPT ![tokenByAgent[a]] = spec]
          /\ UNCHANGED tokenByAgent
     ELSE /\ byToken' = [tok \in Tokens |->
                           IF tok = fresh THEN spec
                           ELSE IF tok = tokenByAgent[a] THEN NoSpec
                           ELSE byToken[tok]]
          /\ tokenByAgent' = [tokenByAgent EXCEPT ![a] = fresh]

unregister(a) ==
  /\ byToken' = [tok \in Tokens |->
                   IF tok = tokenByAgent[a] THEN NoSpec ELSE byToken[tok]]
  /\ tokenByAgent' = [tokenByAgent EXCEPT ![a] = NoToken]

clear == /\ byToken' = [tok \in Tokens |-> NoSpec]
         /\ tokenByAgent' = [a \in Agents |-> NoToken]

\* Mutant of snapshot: the routes by token, with the agents they name now.
snapshotOfTokens == {[token |-> tok, spec |-> [agentId |-> a, target |-> byToken[tok].target]] :
                       a \in {x \in Agents : Routed(x)},
                       tok \in {x \in Tokens : byToken[x] # NoSpec}}

\* Mutant of snapshot: agents without a route are not left out.
snapshotOfAll ==
  {[token |-> tokenByAgent[a], spec |-> IF Routed(a) THEN byToken[tokenByAgent[a]] ELSE NoSpec] :
     a \in Agents}

\* Every live route, as saveRoutes() receives it.
snapshot == {[token |-> tokenByAgent[a], spec |-> byToken[tokenByAgent[a]]] :
               a \in {x \in Agents : Routed(x)}}

\* The tokens a request can use now, and after a restart.
live == {tok \in Tokens : byToken[tok] # NoSpec}
savedTokens == {r.token : r \in saved}

\* new ProxyRouter(loadRoutes()) for a document without collisions, which is
\* what snapshot() always writes; RouteDocument has the colliding ones.
rehydrate(doc) ==
  /\ byToken' = [tok \in Tokens |->
                   IF \E r \in doc : r.token = tok
                   THEN (CHOOSE r \in doc : r.token = tok).spec ELSE NoSpec]
  /\ tokenByAgent' = [a \in Agents |->
                        IF \E r \in doc : r.spec.agentId = a
                        THEN (CHOOSE r \in doc : r.spec.agentId = a).token
                        ELSE NoToken]

(***************************************************************************)
(* The proxy's operations on it.                                           *)
(***************************************************************************)
Init == /\ byToken = [tok \in Tokens |-> NoSpec]
        /\ tokenByAgent = [a \in Agents |-> NoToken]
        /\ saved = {}
        /\ minted = {}
        /\ listening = TRUE

\* saveRoutes() runs after the maps have changed and may throw: the maps stay
\* changed and proxy.json keeps what it had.
SaveRoutes == saved' \in {snapshot', saved}

\* Mutant of RegisterRoute: a token the agent held before may come back.
RegisterRouteReusing(a, t) ==
  /\ listening
  /\ \E fresh \in Tokens :
       /\ SameTarget(a, t) \/ fresh \notin live
       /\ register(a, t, fresh)
       /\ minted' = IF SameTarget(a, t) THEN minted ELSE minted \cup {fresh}
  /\ SaveRoutes
  /\ UNCHANGED listening

RegisterRoute(a, t) ==
  /\ listening
  /\ \E fresh \in Tokens :
       /\ SameTarget(a, t) \/ fresh \notin minted
       /\ register(a, t, fresh)
       /\ minted' = IF SameTarget(a, t) THEN minted ELSE minted \cup {fresh}
  /\ SaveRoutes
  /\ UNCHANGED listening

\* Works whether or not the server is listening.
UnregisterRoute(a) ==
  /\ unregister(a)
  /\ SaveRoutes
  /\ UNCHANGED <<minted, listening>>

\* rebindPort(): savePort() writes the routes along with the new port, also those
\* an earlier save failed to write.
RebindPort == /\ listening
              /\ UNCHANGED <<byToken, tokenByAgent, minted, listening>>
              /\ SaveRoutes

\* stop(): the maps are emptied in memory only.
Stop == /\ listening
        /\ listening' = FALSE
        /\ clear
        /\ UNCHANGED <<saved, minted>>

\* The process dies, or ends after stop(), and is started again: the maps
\* are rebuilt from proxy.json and start() binds a port or fails to.
Restart == /\ rehydrate(saved)
           /\ listening' \in BOOLEAN
           /\ UNCHANGED <<saved, minted>>

Next == \/ \E a \in Agents, t \in Targets : RegisterRoute(a, t)
        \/ \E a \in Agents : UnregisterRoute(a)
        \/ RebindPort
        \/ Stop
        \/ Restart

Spec == Init /\ [][Next]_vars

(***************************************************************************)
(* Properties.                                                             *)
(***************************************************************************)

\* The two maps are each other's inverse: the token of an agent resolves to a
\* route of that agent, and a token that resolves belongs to the agent its
\* route names.  snapshot() and routeFor() have fallback branches for the
\* case that "should never happen"; this says that it never does.
MapsInverse ==
  /\ \A a \in Agents : has(a) => /\ byToken[tokenByAgent[a]] # NoSpec
                                 /\ byToken[tokenByAgent[a]].agentId = a
  /\ \A tok \in Tokens : byToken[tok] # NoSpec =>
                           tokenByAgent[byToken[tok].agentId] = tok

\* proxy.json never holds two routes of one agent or two routes with one
\* token, so loading it drops nothing (parseDocument and the constructor both
\* skip collisions).
SavedCollisionFree ==
  \A r, s \in saved : r.token = s.token \/ r.spec.agentId = s.spec.agentId => r = s

\* A token that is in neither the live table nor the saved one stays out of
\* both: no later call and no restart makes a rotated or dropped address
\* answer again.
DeadStayDead ==
  [][\A tok \in minted :
       tok \notin live \cup savedTokens => tok \notin live' \cup savedTokens']_vars

\* The implementation of the abstract route table.
RouteOf(a) == IF Routed(a) THEN [token |-> tokenByAgent[a],
                                 target |-> byToken[tokenByAgent[a]].target]
              ELSE NoSpec
SavedRouteOf(a) ==
  IF \E r \in saved : r.spec.agentId = a
  THEN LET r == CHOOSE s \in saved : s.spec.agentId = a
       IN [token |-> r.token, target |-> r.spec.target]
  ELSE NoSpec

routeTable == [a \in Agents |-> RouteOf(a)]
savedTable == [a \in Agents |-> SavedRouteOf(a)]

Table == INSTANCE RouteTable WITH NoRoute <- NoSpec, route <- routeTable,
                                  durable <- savedTable, used <- minted

\* Every step of the registry is a step of the abstract table.
ImplementsRouteTable == Table!Spec
=============================================================================
