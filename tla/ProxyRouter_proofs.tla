------------------------- MODULE ProxyRouter_proofs -------------------------
(***************************************************************************)
(* Proofs about ProxyRouter, for every set of agents, targets and tokens:  *)
(* the two maps stay each other's inverse, proxy.json never collides, dead *)
(* tokens stay dead, and the registry implements RouteTable.               *)
(***************************************************************************)
EXTENDS ProxyRouter, TLAPS

\* Whatever is live or saved was minted, so a fresh token is in neither.
MintedCovers == live \cup savedTokens \subseteq minted

\* MapsInverse alone is not inductive: registering a fresh token must not hit
\* a token of another agent (MintedCovers), and a restart replaces the maps
\* by what was saved (SavedCollisionFree).
IInv == TypeOK /\ MapsInverse /\ SavedCollisionFree /\ MintedCovers

\* The table as it is passed to saveRoutes: well-typed, without collisions,
\* one entry for each routed agent and all of it live.
SnapshotExact ==
  /\ snapshot \subseteq PersistedRoute
  /\ \A r, s \in snapshot :
       r.token = s.token \/ r.spec.agentId = s.spec.agentId => r = s
  /\ {r.token : r \in snapshot} \subseteq live
  /\ \A r \in snapshot : /\ Routed(r.spec.agentId)
                         /\ r.token = tokenByAgent[r.spec.agentId]
                         /\ r.spec = byToken[r.token]
  /\ \A a \in Agents : Routed(a) => \E r \in snapshot : r.spec.agentId = a

\* A consistent pair of maps has an exact snapshot.
LEMMA SnapshotGood == RouterTypeOK /\ MapsInverse => SnapshotExact
<1> SUFFICES ASSUME RouterTypeOK, MapsInverse PROVE SnapshotExact
  OBVIOUS
<1> USE DEF RouterTypeOK, MapsInverse, snapshot, Routed, has, RouteSpec
<1>1. ASSUME NEW r \in snapshot
      PROVE  \E a \in Agents : /\ Routed(a)
                               /\ tokenByAgent[a] \in Tokens
                               /\ byToken[tokenByAgent[a]] \in RouteSpec
                               /\ byToken[tokenByAgent[a]].agentId = a
                               /\ r = [token |-> tokenByAgent[a], spec |-> byToken[tokenByAgent[a]]]
  BY <1>1
<1>2. \A a \in Agents : Routed(a) =>
        [token |-> tokenByAgent[a], spec |-> byToken[tokenByAgent[a]]] \in snapshot
  OBVIOUS
<1>3. snapshot \subseteq PersistedRoute
  BY <1>1 DEF PersistedRoute
<1>4. \A r \in snapshot : /\ r.spec.agentId \in Agents
                          /\ Routed(r.spec.agentId)
                          /\ r.token = tokenByAgent[r.spec.agentId]
                          /\ r.spec = byToken[r.token]
                          /\ r = [token |-> r.token, spec |-> r.spec]
                          /\ r.token \in Tokens
  BY <1>1
<1>5. ASSUME NEW r \in snapshot, NEW s \in snapshot,
             r.token = s.token \/ r.spec.agentId = s.spec.agentId
      PROVE  r = s
  BY <1>4, <1>5
<1>6. {r.token : r \in snapshot} \subseteq live
  BY <1>4 DEF live
<1>7. \A a \in Agents : Routed(a) => \E r \in snapshot : r.spec.agentId = a
  BY <1>2
<1> QED
  BY <1>3, <1>4, <1>5, <1>6, <1>7 DEF SnapshotExact

\* The registry operations keep the maps well-typed and each other's inverse.
\* The fresh token of a re-pointed agent must not be in use.
LEMMA RegisterKeepsMaps ==
  ASSUME RouterTypeOK, MapsInverse,
         NEW a \in Agents, NEW t \in Targets, NEW fresh \in Tokens,
         SameTarget(a, t) \/ fresh \notin live,
         register(a, t, fresh)
  PROVE  /\ RouterTypeOK' /\ MapsInverse'
         /\ live' \subseteq live \cup (IF SameTarget(a, t) THEN {} ELSE {fresh})
<1> USE NoTokenAssumption, NoSpecAssumption
<1> DEFINE spec == [agentId |-> a, target |-> t]
<1>0. spec \in RouteSpec /\ spec # NoSpec /\ spec.agentId = a
  BY DEF RouteSpec
<1> HIDE DEF spec
<1>1. CASE SameTarget(a, t)
  <2>1. /\ byToken' = [byToken EXCEPT ![tokenByAgent[a]] = spec]
        /\ tokenByAgent' = tokenByAgent
    BY <1>1 DEF register, spec
  <2>2. /\ tokenByAgent[a] \in Tokens
        /\ byToken[tokenByAgent[a]] # NoSpec
        /\ byToken[tokenByAgent[a]].agentId = a
    BY <1>1 DEF SameTarget, Routed, has, RouterTypeOK, MapsInverse
  <2> QED
    BY <1>0, <1>1, <2>1, <2>2 DEF RouterTypeOK, MapsInverse, has, live
<1>2. CASE ~SameTarget(a, t)
  <2>1. /\ byToken' = [tok \in Tokens |->
                          IF tok = fresh THEN spec
                          ELSE IF tok = tokenByAgent[a] THEN NoSpec
                          ELSE byToken[tok]]
        /\ tokenByAgent' = [tokenByAgent EXCEPT ![a] = fresh]
    BY <1>2 DEF register, spec
  <2>2. byToken[fresh] = NoSpec
    BY <1>2 DEF live
  <2>3. /\ byToken'[fresh] = spec
        /\ \A tok \in Tokens \ {fresh} :
             byToken'[tok] = IF tok = tokenByAgent[a] THEN NoSpec ELSE byToken[tok]
    BY <2>1
  <2>4. RouterTypeOK'
    BY <1>0, <2>1 DEF RouterTypeOK
  <2>5. \A b \in Agents : has(b)' =>
          byToken'[tokenByAgent'[b]] # NoSpec /\ byToken'[tokenByAgent'[b]].agentId = b
    <3> TAKE b \in Agents
    <3>1. CASE b = a
      BY <1>0, <2>1, <2>3, <3>1 DEF RouterTypeOK
    <3>2. CASE b # a
      BY <2>1, <2>2, <2>3, <3>2 DEF RouterTypeOK, MapsInverse, has
    <3> QED BY <3>1, <3>2
  <2>6. \A tok \in Tokens : byToken'[tok] # NoSpec =>
          tokenByAgent'[byToken'[tok].agentId] = tok
    <3> TAKE tok \in Tokens
    <3>1. CASE tok = fresh
      BY <1>0, <2>1, <2>3, <3>1 DEF RouterTypeOK
    <3>2. CASE tok # fresh
      BY <2>1, <2>3, <3>2 DEF RouterTypeOK, MapsInverse, RouteSpec
    <3> QED BY <3>1, <3>2
  <2>7. live' \subseteq live \cup {fresh}
    BY <2>3 DEF live
  <2> QED
    BY <1>2, <2>4, <2>5, <2>6, <2>7 DEF MapsInverse
<1> QED
  BY <1>1, <1>2

\* Dropping an agent's route keeps the maps consistent and makes nothing live.
LEMMA UnregisterKeepsMaps ==
  ASSUME RouterTypeOK, MapsInverse, NEW a \in Agents, unregister(a)
  PROVE  RouterTypeOK' /\ MapsInverse' /\ live' \subseteq live
BY NoTokenAssumption, NoSpecAssumption
   DEF RouterTypeOK, MapsInverse, unregister, has, live, RouteSpec

\* Emptying the maps keeps them consistent and leaves nothing live.
LEMMA ClearKeepsMaps ==
  ASSUME RouterTypeOK, MapsInverse, clear
  PROVE  RouterTypeOK' /\ MapsInverse' /\ live' = {}
BY NoTokenAssumption, NoSpecAssumption
   DEF RouterTypeOK, MapsInverse, clear, has, live, RouteSpec

\* A document without collisions is rebuilt exactly: each of its routes is
\* live under its own token, and nothing else is.
LEMMA RehydrateExact ==
  ASSUME NEW doc \in SUBSET PersistedRoute,
         \A r, s \in doc : r.token = s.token \/ r.spec.agentId = s.spec.agentId => r = s,
         rehydrate(doc)
  PROVE  /\ RouterTypeOK' /\ MapsInverse'
         /\ live' = {r.token : r \in doc}
         /\ \A r \in doc : byToken'[r.token] = r.spec /\ tokenByAgent'[r.spec.agentId] = r.token
         /\ \A a \in Agents : has(a)' => \E r \in doc : r.spec.agentId = a
<1> USE NoTokenAssumption, NoSpecAssumption
<1>1. \A r \in doc : /\ r.token \in Tokens /\ r.spec \in RouteSpec
                     /\ r.spec.agentId \in Agents /\ r.spec # NoSpec
  BY DEF PersistedRoute, RouteSpec
<1>2. \A r \in doc : byToken'[r.token] = r.spec
  <2> TAKE r \in doc
  <2>1. r = CHOOSE s \in doc : s.token = r.token
    OBVIOUS
  <2> QED BY <1>1, <2>1 DEF rehydrate
<1>3. \A tok \in Tokens : (\A r \in doc : r.token # tok) => byToken'[tok] = NoSpec
  BY DEF rehydrate
<1>4. \A r \in doc : tokenByAgent'[r.spec.agentId] = r.token
  <2> TAKE r \in doc
  <2>1. r = CHOOSE s \in doc : s.spec.agentId = r.spec.agentId
    OBVIOUS
  <2> QED BY <1>1, <2>1 DEF rehydrate
<1>5. \A a \in Agents : (\A r \in doc : r.spec.agentId # a) => tokenByAgent'[a] = NoToken
  BY DEF rehydrate
<1>6. RouterTypeOK'
  <2>1. byToken' = [tok \in Tokens |-> byToken'[tok]] /\ tokenByAgent' = [a \in Agents |-> tokenByAgent'[a]]
    BY DEF rehydrate
  <2>2. \A tok \in Tokens : byToken'[tok] \in RouteSpec \cup {NoSpec}
    BY <1>1, <1>2, <1>3
  <2>3. \A a \in Agents : tokenByAgent'[a] \in Tokens \cup {NoToken}
    BY <1>1, <1>4, <1>5
  <2> QED BY <2>1, <2>2, <2>3 DEF RouterTypeOK
<1>7. MapsInverse'
  BY <1>1, <1>2, <1>3, <1>4, <1>5 DEF MapsInverse, has
<1>8. live' = {r.token : r \in doc}
  BY <1>1, <1>2, <1>3 DEF live
<1> QED
  BY <1>2, <1>4, <1>5, <1>6, <1>7, <1>8 DEF has

\* The empty registry satisfies the inductive invariant.
LEMMA InitIInv == Init => IInv
BY NoTokenAssumption, NoSpecAssumption
   DEF Init, IInv, TypeOK, RouterTypeOK, MapsInverse, SavedCollisionFree,
       MintedCovers, live, savedTokens, has, RouteSpec

\* Whether the save succeeds or throws, proxy.json stays free of collisions
\* and gains no token that is not live.
LEMMA SaveGood ==
  ASSUME saved \subseteq PersistedRoute, SavedCollisionFree,
         RouterTypeOK', MapsInverse', SaveRoutes
  PROVE  /\ saved' \subseteq PersistedRoute /\ SavedCollisionFree'
         /\ savedTokens' \subseteq savedTokens \cup live'
<1>1. CASE saved' = saved
  BY <1>1 DEF SavedCollisionFree, savedTokens
<1>2. CASE saved' = snapshot'
  <2>1. SnapshotExact'
    BY SnapshotGood, PTL
  <2> QED
    BY <1>2, <2>1 DEF SnapshotExact, SavedCollisionFree, savedTokens
<1> QED
  BY <1>1, <1>2 DEF SaveRoutes

\* One step of the registry: the inductive invariant is kept, and a token
\* becomes live or saved only if it already was one of them or is new.
LEMMA StepIInv ==
  ASSUME IInv, [Next]_vars
  PROVE  IInv' /\ \A tok \in minted : tok \in live' \cup savedTokens' => tok \in live \cup savedTokens
<1> DEFINE NoneRevived == \A tok \in minted :
                          tok \in live' \cup savedTokens' => tok \in live \cup savedTokens
<1> USE DEF IInv, TypeOK
<1>1. ASSUME NEW a \in Agents, NEW t \in Targets, RegisterRoute(a, t)
      PROVE  IInv' /\ NoneRevived
  <2>1. PICK fresh \in Tokens :
               /\ SameTarget(a, t) \/ fresh \notin minted
               /\ register(a, t, fresh)
               /\ minted' = IF SameTarget(a, t) THEN minted ELSE minted \cup {fresh}
    BY <1>1 DEF RegisterRoute
  <2>2. /\ RouterTypeOK' /\ MapsInverse'
        /\ live' \subseteq live \cup (IF SameTarget(a, t) THEN {} ELSE {fresh})
    BY <2>1, RegisterKeepsMaps DEF MintedCovers
  <2>3. /\ saved' \subseteq PersistedRoute /\ SavedCollisionFree'
        /\ savedTokens' \subseteq savedTokens \cup live'
    BY <1>1, <2>2, SaveGood DEF RegisterRoute
  <2>4. listening' \in BOOLEAN /\ minted' \subseteq Tokens
    BY <1>1, <2>1 DEF RegisterRoute
  <2>5. MintedCovers'
    BY <2>1, <2>2, <2>3 DEF MintedCovers
  <2> QED
    BY <2>1, <2>2, <2>3, <2>4, <2>5
<1>2. ASSUME NEW a \in Agents, UnregisterRoute(a)
      PROVE  IInv' /\ NoneRevived
  <2>1. RouterTypeOK' /\ MapsInverse' /\ live' \subseteq live
    BY <1>2, UnregisterKeepsMaps DEF UnregisterRoute
  <2>2. /\ saved' \subseteq PersistedRoute /\ SavedCollisionFree'
        /\ savedTokens' \subseteq savedTokens \cup live'
    BY <1>2, <2>1, SaveGood DEF UnregisterRoute
  <2> QED
    BY <1>2, <2>1, <2>2 DEF UnregisterRoute, MintedCovers
<1>3. ASSUME Stop
      PROVE  IInv' /\ NoneRevived
  BY <1>3, ClearKeepsMaps DEF Stop, MintedCovers, SavedCollisionFree, savedTokens
<1>4. ASSUME Restart
      PROVE  IInv' /\ NoneRevived
  <2>1. RouterTypeOK' /\ MapsInverse' /\ live' = savedTokens
    BY <1>4, RehydrateExact DEF Restart, SavedCollisionFree, savedTokens
  <2> QED
    BY <1>4, <2>1 DEF Restart, MintedCovers, SavedCollisionFree, savedTokens
<1>5. ASSUME RebindPort
      PROVE  IInv' /\ NoneRevived
  <2>1. RouterTypeOK' /\ MapsInverse' /\ live' = live
    BY <1>5 DEF RebindPort, RouterTypeOK, MapsInverse, has, live
  <2>2. /\ saved' \subseteq PersistedRoute /\ SavedCollisionFree'
        /\ savedTokens' \subseteq savedTokens \cup live'
    BY <1>5, <2>1, SaveGood DEF RebindPort
  <2> QED
    BY <1>5, <2>1, <2>2 DEF RebindPort, MintedCovers
<1>6. ASSUME UNCHANGED vars
      PROVE  IInv' /\ NoneRevived
  BY <1>6 DEF vars, RouterTypeOK, MapsInverse, has, SavedCollisionFree, MintedCovers,
              live, savedTokens
<1> QED
  BY <1>1, <1>2, <1>3, <1>4, <1>5, <1>6 DEF Next

\* The inductive invariant holds throughout, for any agents, targets, tokens.
THEOREM Inductive == Spec => []IInv
<1>1. IInv /\ [Next]_vars => IInv'
  BY StepIInv
<1> QED
  BY InitIInv, <1>1, PTL DEF Spec

\* Every variable keeps its type.
THEOREM TypeCorrect == Spec => []TypeOK
<1>1. IInv => TypeOK
  BY DEF IInv
<1> QED
  BY Inductive, <1>1, PTL

\* The two maps never drift apart: the branches of router.ts for a token
\* without a spec are dead code.
THEOREM MapsStayInverse == Spec => []MapsInverse
<1>1. IInv => MapsInverse
  BY DEF IInv
<1> QED
  BY Inductive, <1>1, PTL

\* proxy.json never holds a collision, so a load drops no route.
THEOREM SavedStaysCollisionFree == Spec => []SavedCollisionFree
<1>1. IInv => SavedCollisionFree
  BY DEF IInv
<1> QED
  BY Inductive, <1>1, PTL

\* A token that was rotated away or dropped, in memory and on disk, never
\* answers again, whatever is registered, lost or restarted afterwards.
THEOREM NoRevival == Spec => DeadStayDead
<1>1. IInv /\ [Next]_vars =>
        [\A tok \in minted :
           tok \notin live \cup savedTokens => tok \notin live' \cup savedTokens']_vars
  BY StepIInv
<1> QED
  BY Inductive, <1>1, PTL DEF Spec, DeadStayDead

(***************************************************************************)
(* ProxyRouter implements RouteTable.                                      *)
(***************************************************************************)

\* A save that succeeds makes the durable table the current one; one that
\* throws leaves it alone.
LEMMA SaveWritesThrough ==
  ASSUME IInv, IInv', SaveRoutes
  PROVE  savedTable' \in {routeTable', savedTable}
<1>1. CASE saved' = saved
  BY <1>1 DEF savedTable, SavedRouteOf
<1>2. CASE saved' = snapshot'
  <2>1. SnapshotExact'
    BY SnapshotGood, PTL DEF IInv, TypeOK
  <2>2. ASSUME NEW a \in Agents
        PROVE  SavedRouteOf(a)' = RouteOf(a)'
    <3>1. CASE Routed(a)'
      <4>1. \E r \in saved' : r.spec.agentId = a
        BY <1>2, <2>1, <3>1 DEF SnapshotExact
      <4>2. PICK r \in saved' : r = CHOOSE s \in saved' : s.spec.agentId = a
        BY <4>1
      <4>3. r.spec.agentId = a
        BY <4>1, <4>2
      <4>4. r.token = tokenByAgent'[a] /\ r.spec = byToken'[tokenByAgent'[a]]
        BY <1>2, <2>1, <4>3 DEF SnapshotExact
      <4>5. SavedRouteOf(a)' = [token |-> r.token, target |-> r.spec.target]
        BY <4>1, <4>2 DEF SavedRouteOf
      <4> QED
        BY <3>1, <4>4, <4>5 DEF RouteOf
    <3>2. CASE ~Routed(a)'
      <4>1. \A r \in saved' : r.spec.agentId # a
        BY <1>2, <2>1, <3>2 DEF SnapshotExact
      <4> QED
        BY <3>2, <4>1 DEF SavedRouteOf, RouteOf
    <3> QED
      BY <3>1, <3>2
  <2> QED
    BY <2>2 DEF savedTable, routeTable
<1> QED
  BY <1>1, <1>2 DEF SaveRoutes

\* The registry starts as the empty abstract table.
LEMMA InitIsTableInit == Init => Table!Init
BY NoTokenAssumption, NoSpecAssumption
   DEF Init, Table!Init, Table!Empty, routeTable, savedTable, RouteOf, SavedRouteOf,
       Routed, has

\* Every step of the registry is a step of the abstract table or changes
\* nothing in it.
LEMMA StepIsTableStep ==
  ASSUME IInv, IInv', [Next]_vars
  PROVE  [Table!Next]_(Table!tableVars)
<1> USE DEF Table!tableVars
<1>0. /\ RouterTypeOK /\ MapsInverse /\ RouterTypeOK' /\ MapsInverse'
      /\ saved \subseteq PersistedRoute /\ SavedCollisionFree
  BY DEF IInv, TypeOK
<1>1. ASSUME NEW a \in Agents, NEW t \in Targets, RegisterRoute(a, t)
      PROVE  Table!Next
  <2>0. Table!WriteThrough
    BY <1>1, SaveWritesThrough DEF RegisterRoute, Table!WriteThrough
  <2>1. PICK fresh \in Tokens :
               /\ SameTarget(a, t) \/ fresh \notin minted
               /\ register(a, t, fresh)
               /\ minted' = IF SameTarget(a, t) THEN minted ELSE minted \cup {fresh}
    BY <1>1 DEF RegisterRoute
  <2>2. CASE SameTarget(a, t)
    <3>1. /\ byToken' = [byToken EXCEPT ![tokenByAgent[a]] = [agentId |-> a, target |-> t]]
          /\ tokenByAgent' = tokenByAgent /\ minted' = minted
      BY <2>1, <2>2 DEF register
    <3>2. \A b \in Agents : RouteOf(b)' = RouteOf(b)
      BY <1>0, <2>2, <3>1 DEF RouteOf, Routed, has, SameTarget, RouterTypeOK, MapsInverse
    <3>3. routeTable' = routeTable
      BY <3>2 DEF routeTable
    <3>4. routeTable[a] # NoSpec /\ routeTable[a].target = t
      BY <1>0, <2>2, NoSpecAssumption
         DEF routeTable, RouteOf, SameTarget, Routed, has, RouterTypeOK, RouteSpec
    <3>5. Table!Keep(a, t)
      BY <2>0, <3>1, <3>3, <3>4 DEF Table!Keep
    <3> QED
      BY <3>5 DEF Table!Next
  <2>3. CASE ~SameTarget(a, t)
    <3>1. /\ byToken' = [tok \in Tokens |->
                            IF tok = fresh THEN [agentId |-> a, target |-> t]
                            ELSE IF tok = tokenByAgent[a] THEN NoSpec
                            ELSE byToken[tok]]
          /\ tokenByAgent' = [tokenByAgent EXCEPT ![a] = fresh]
          /\ minted' = minted \cup {fresh} /\ fresh \in Tokens \ minted
      BY <2>1, <2>3 DEF register
    <3>2. [agentId |-> a, target |-> t] # NoSpec
      BY NoSpecAssumption DEF RouteSpec
    <3>3. RouteOf(a)' = [token |-> fresh, target |-> t]
      BY <1>0, <3>1, <3>2, NoTokenAssumption DEF RouteOf, Routed, has, RouterTypeOK
    <3>4. fresh \notin live
      BY <3>1 DEF IInv, MintedCovers
    <3>5. ASSUME NEW b \in Agents, b # a
          PROVE  RouteOf(b)' = RouteOf(b)
      <4>1. tokenByAgent'[b] = tokenByAgent[b]
        BY <1>0, <3>1, <3>5 DEF RouterTypeOK
      <4>2. CASE has(b)
        <5>1. tokenByAgent[b] \in Tokens /\ tokenByAgent[b] # fresh
              /\ tokenByAgent[b] # tokenByAgent[a]
          BY <1>0, <3>4, <3>5, <4>2 DEF RouterTypeOK, MapsInverse, has, live
        <5> QED
          BY <3>1, <4>1, <5>1 DEF RouteOf, Routed, has
      <4>3. CASE ~has(b)
        BY <4>1, <4>3 DEF RouteOf, Routed, has
      <4> QED
        BY <4>2, <4>3
    <3>6. routeTable' = [routeTable EXCEPT ![a] = [token |-> fresh, target |-> t]]
      BY <3>3, <3>5 DEF routeTable
    <3>7. routeTable[a] = NoSpec \/ routeTable[a].target # t
      BY <2>3 DEF routeTable, RouteOf, SameTarget
    <3>8. Table!Point(a, t)
      BY <2>0, <3>1, <3>6, <3>7 DEF Table!Point
    <3> QED
      BY <3>8 DEF Table!Next
  <2> QED
    BY <2>2, <2>3
<1>2. ASSUME NEW a \in Agents, UnregisterRoute(a)
      PROVE  Table!Next
  <2>1. unregister(a) /\ minted' = minted
    BY <1>2 DEF UnregisterRoute
  <2>2. RouteOf(a)' = NoSpec
    BY <1>0, <2>1 DEF unregister, RouteOf, Routed, has, RouterTypeOK
  <2>3. ASSUME NEW b \in Agents, b # a
        PROVE  RouteOf(b)' = RouteOf(b)
    <3>1. tokenByAgent'[b] = tokenByAgent[b]
      BY <1>0, <2>1, <2>3 DEF unregister, RouterTypeOK
    <3>2. CASE has(b)
      BY <1>0, <2>1, <2>3, <3>1, <3>2
         DEF unregister, RouteOf, Routed, has, RouterTypeOK, MapsInverse
    <3>3. CASE ~has(b)
      BY <3>1, <3>3 DEF RouteOf, Routed, has
    <3> QED
      BY <3>2, <3>3
  <2>4. routeTable' = [routeTable EXCEPT ![a] = NoSpec]
    BY <2>2, <2>3 DEF routeTable
  <2>5. Table!Drop(a)
    BY <1>2, <2>1, <2>4, SaveWritesThrough DEF UnregisterRoute, Table!Drop, Table!WriteThrough
  <2> QED
    BY <2>5 DEF Table!Next
<1>3. ASSUME Stop
      PROVE  Table!Next
  <2>1. routeTable' = Table!Empty
    BY <1>3 DEF Stop, clear, routeTable, RouteOf, Routed, has, Table!Empty
  <2>2. savedTable' = savedTable /\ minted' = minted
    BY <1>3 DEF Stop, savedTable, SavedRouteOf
  <2> QED
    BY <2>1, <2>2 DEF Table!Next, Table!Stop
<1>4. ASSUME Restart
      PROVE  Table!Next
  <2>1. saved' = saved /\ minted' = minted /\ savedTable' = savedTable
    BY <1>4 DEF Restart, savedTable, SavedRouteOf
  <2>2. /\ \A r \in saved : byToken'[r.token] = r.spec /\ tokenByAgent'[r.spec.agentId] = r.token
        /\ \A a \in Agents : has(a)' => \E r \in saved : r.spec.agentId = a
    BY <1>0, <1>4, RehydrateExact DEF Restart, SavedCollisionFree
  <2>3. ASSUME NEW a \in Agents
        PROVE  RouteOf(a)' = SavedRouteOf(a)
    <3>1. CASE \E r \in saved : r.spec.agentId = a
      <4>1. PICK r \in saved : r = CHOOSE s \in saved : s.spec.agentId = a
        BY <3>1
      <4>2. r.spec.agentId = a
        BY <3>1, <4>1
      <4>3. r.token \in Tokens /\ r.spec \in RouteSpec
        BY <1>0 DEF PersistedRoute
      <4>4. has(a)' /\ Routed(a)'
        BY <2>2, <4>2, <4>3, NoTokenAssumption, NoSpecAssumption DEF has, Routed
      <4> QED
        BY <2>2, <3>1, <4>1, <4>2, <4>4 DEF RouteOf, SavedRouteOf
    <3>2. CASE ~\E r \in saved : r.spec.agentId = a
      BY <2>2, <3>2 DEF RouteOf, SavedRouteOf, Routed
    <3> QED
      BY <3>1, <3>2
  <2>4. routeTable' = savedTable
    BY <2>3 DEF routeTable, savedTable
  <2> QED
    BY <2>1, <2>4 DEF Table!Next, Table!Restart
<1>5. ASSUME RebindPort
      PROVE  Table!Next
  <2>1. routeTable' = routeTable /\ minted' = minted
    BY <1>5 DEF RebindPort, routeTable, RouteOf, Routed, has
  <2>2. Table!Flush
    BY <1>5, <2>1, SaveWritesThrough DEF RebindPort, Table!Flush, Table!WriteThrough
  <2> QED
    BY <2>2 DEF Table!Next
<1>6. CASE UNCHANGED vars
  BY <1>6 DEF vars, routeTable, savedTable, RouteOf, SavedRouteOf, Routed, has
<1> QED
  BY <1>1, <1>2, <1>3, <1>4, <1>5, <1>6 DEF Next

\* The registry with its persistence implements the abstract route table:
\* tokens are stable for an unchanged target, rotated for a changed one, no
\* operation touches another agent's route, and a restart gives back exactly
\* what was saved.
THEOREM Implements == Spec => ImplementsRouteTable
<1>1. IInv /\ IInv' /\ [Next]_vars => [Table!Next]_(Table!tableVars)
  BY StepIsTableStep
<1> QED
  BY Inductive, InitIsTableInit, <1>1, PTL DEF Spec, ImplementsRouteTable, Table!Spec
=============================================================================
