-------------------------- MODULE McpGateway_proofs --------------------------
(* What holds of the gateway for any servers, connections and requests, and any   *)
(* number of changes of the library.                                              *)
EXTENDS McpGateway, TLAPS

Objects == [there : BOOLEAN, version : Versions \cup {None}, client : Conns \cup {None},
            starting : Conns \cup {None}, status : {"idle", "starting", "running", "failed"},
            tools : Versions \cup {None}]
Connections == [pc : {"none", "connect", "list", "open"}, name : Names \cup {None},
                version : Versions \cup {None}, kept : BOOLEAN]
Calls == [pc : {"none", "list", "find", "start", "sent"}, name : Names \cup {None},
          tools : Versions \cup {None}, waits : SUBSET Conns]

(* A server without an upstream runs nothing.                                     *)
ObjectShape(n) ==
    ~upstream[n].there => upstream[n].client = None /\ upstream[n].starting = None /\ upstream[n].tools = None

(* Its client and its start are connections made for it as it is now.             *)
OwnConnections(n) ==
    /\ \A k \in Conns : k = upstream[n].client =>
         conn[k].pc = "open" /\ conn[k].name = n /\ conn[k].version = upstream[n].version /\ conn[k].kept
    /\ \A k \in Conns : k = upstream[n].starting =>
         conn[k].pc \in {"connect", "list"} /\ conn[k].name = n /\ conn[k].version = upstream[n].version /\ conn[k].kept
    /\ upstream[n].status = "running" <=> upstream[n].client # None
    /\ upstream[n].status = "starting" <=> upstream[n].starting # None

(* A connection is kept no longer than its object.                                *)
ConnectionKept(k) ==
    /\ conn[k].pc # "none" => conn[k].name \in Names
    /\ conn[k].kept => conn[k].pc # "none" /\ upstream[conn[k].name].there

(* A call waits for a start of its server, or for an answer of its client.        *)
CallWaits(r) ==
    /\ request[r].pc \in {"find", "start", "sent"} => request[r].name \in Names
    /\ request[r].pc = "start" => \E k \in Conns :
         request[r].waits = {k} /\ conn[k].pc \in {"connect", "list"} /\ conn[k].name = request[r].name
    /\ request[r].pc = "sent" => \E k \in Conns :
         request[r].waits = {k} /\ upstream[request[r].name].client = k

RouteLeads(n) == routes[n] # None => upstream[n].there

Sound ==
    /\ \A n \in Names : ObjectShape(n) /\ OwnConnections(n) /\ RouteLeads(n)
    /\ \A k \in Conns : ConnectionKept(k)
    /\ \A r \in Requests : CallWaits(r)

GatewayShape == GatewayTypeOK /\ Sound

(* What the gateway was told of is what it serves.                                 *)
InStep ==
    \A n \in Names \ missed : upstream[n].there => enabled /\ upstream[n].version = serving[n] /\ serving[n] # None

(* The inductive invariant.                                                       *)
GatewayIInv == GatewayShape /\ InStep

(* The same of a value that the variables are to have.                             *)
ObjectIn(g, n) ==
    ~g.upstream[n].there => g.upstream[n].client = None /\ g.upstream[n].starting = None /\ g.upstream[n].tools = None
OwnIn(g, n) ==
    /\ \A k \in Conns : k = g.upstream[n].client =>
         g.conn[k].pc = "open" /\ g.conn[k].name = n /\ g.conn[k].version = g.upstream[n].version /\ g.conn[k].kept
    /\ \A k \in Conns : k = g.upstream[n].starting =>
         g.conn[k].pc \in {"connect", "list"} /\ g.conn[k].name = n /\ g.conn[k].version = g.upstream[n].version /\ g.conn[k].kept
    /\ g.upstream[n].status = "running" <=> g.upstream[n].client # None
    /\ g.upstream[n].status = "starting" <=> g.upstream[n].starting # None
LeadsIn(g, n) == g.routes[n] # None => g.upstream[n].there
KeptIn(g, k) ==
    /\ g.conn[k].pc # "none" => g.conn[k].name \in Names
    /\ g.conn[k].kept => g.conn[k].pc # "none" /\ g.upstream[g.conn[k].name].there
WaitsIn(g, r) ==
    /\ g.request[r].pc \in {"find", "start", "sent"} => g.request[r].name \in Names
    /\ g.request[r].pc = "start" => \E k \in Conns :
         g.request[r].waits = {k} /\ g.conn[k].pc \in {"connect", "list"} /\ g.conn[k].name = g.request[r].name
    /\ g.request[r].pc = "sent" => \E k \in Conns :
         g.request[r].waits = {k} /\ g.upstream[g.request[r].name].client = k

Good(g) ==
    /\ g.upstream \in [Names -> Objects] /\ g.routes \in [Names -> Versions \cup {None}]
    /\ g.conn \in [Conns -> Connections] /\ g.request \in [Requests -> Calls]
    /\ \A n \in Names : ObjectIn(g, n) /\ OwnIn(g, n) /\ LeadsIn(g, n)
    /\ \A k \in Conns : KeptIn(g, k)
    /\ \A r \in Requests : WaitsIn(g, r)

-----------------------------------------------------------------------------
(* The records the operations write.                                              *)
LEMMA Records ==
    /\ NoUpstream \in Objects /\ NoConn \in Connections /\ NoRequest \in Calls
    /\ \A v \in Versions \cup {None} :
        /\ NewUpstream(v) \in Objects
        /\ NewUpstream(v) = [NoUpstream EXCEPT !.there = TRUE, !.version = v]
<1>1. NoUpstream \in Objects
  BY DEF NoUpstream, Objects
<1>2. NoConn \in Connections /\ NoRequest \in Calls
  BY DEF NoConn, Connections, NoRequest, Calls
<1>3. ASSUME NEW v \in Versions \cup {None} PROVE NewUpstream(v) \in Objects
  BY <1>1, <1>3 DEF NewUpstream, Objects
<1> QED
  BY <1>1, <1>2, <1>3 DEF NewUpstream

LEMMA NewUpstreamFields ==
    ASSUME NEW v \in Versions \cup {None}
    PROVE  /\ NewUpstream(v).there /\ NewUpstream(v).version = v
           /\ NewUpstream(v).client = None /\ NewUpstream(v).starting = None
           /\ NewUpstream(v).status = "idle" /\ NewUpstream(v).tools = None
  BY DEF NewUpstream, NoUpstream

(* The types in the names above.                                                  *)
LEMMA Types ==
    GatewayTypeOK <=>
        /\ enabled \in BOOLEAN /\ serving \in [Names -> Versions \cup {None}]
        /\ upstream \in [Names -> Objects] /\ routes \in [Names -> Versions \cup {None}]
        /\ conn \in [Conns -> Connections] /\ request \in [Requests -> Calls]
        /\ missed \subseteq Names /\ changes \in 0 .. MaxChanges
  BY DEF GatewayTypeOK, Objects, Connections, Calls

LEMMA GatewayInitIInv == GatewayInit => GatewayIInv
<1> SUFFICES ASSUME GatewayInit PROVE GatewayIInv
  OBVIOUS
<1>1. GatewayTypeOK
  <2>1. /\ upstream \in [Names -> Objects] /\ conn \in [Conns -> Connections]
        /\ request \in [Requests -> Calls] /\ routes \in [Names -> Versions \cup {None}]
    BY Records DEF GatewayInit
  <2>2. changes \in 0 .. MaxChanges
    BY GatewayAssumption DEF GatewayInit
  <2> QED
    BY <2>1, <2>2, Types DEF GatewayInit
<1>2. Sound
  BY GatewayAssumption DEF GatewayInit, Sound, ObjectShape, OwnConnections, RouteLeads, ConnectionKept, CallWaits,
     NoUpstream, NoConn, NoRequest, None
<1>3. InStep
  BY DEF GatewayInit, InStep, NoUpstream
<1> QED
  BY <1>1, <1>2, <1>3 DEF GatewayIInv, GatewayShape

-----------------------------------------------------------------------------
(* The library changed.                                                           *)

Stopped(w) == {upstream[n].client : n \in Dropped(w) \cup Changed(w)} \ {None}

LEMMA SyncedIs ==
    ASSUME GatewayTypeOK, NEW w \in [Names -> Versions \cup {None}], NEW g, g = Synced(w)
    PROVE  /\ g.upstream \in [Names -> Objects] /\ g.routes \in [Names -> Versions \cup {None}]
           /\ g.conn \in [Conns -> Connections] /\ g.request \in [Requests -> Calls]
           /\ \A n \in Dropped(w) : g.upstream[n] = NoUpstream
           /\ \A n \in Changed(w) \cup Added(w) : g.upstream[n] = NewUpstream(w[n])
           /\ \A n \in Names \ (Dropped(w) \cup Changed(w) \cup Added(w)) : g.upstream[n] = upstream[n]
           /\ \/ g.routes = routes /\ Dropped(w) = {}
              \/ \A n \in Names : g.routes[n] = g.upstream[n].tools
           /\ \A k \in Conns :
               IF k \in Stopped(w) THEN g.conn[k] = NoConn
               ELSE /\ g.conn[k].pc = conn[k].pc /\ g.conn[k].name = conn[k].name /\ g.conn[k].version = conn[k].version
                    /\ g.conn[k].kept = (conn[k].kept /\ conn[k].name \notin Dropped(w))
           /\ \A r \in Requests :
               \/ g.request[r] = NoRequest
               \/ g.request[r] = request[r] /\ (request[r].pc = "sent" => request[r].waits \cap Stopped(w) = {})
<1>1. /\ enabled \in BOOLEAN /\ upstream \in [Names -> Objects] /\ routes \in [Names -> Versions \cup {None}]
      /\ conn \in [Conns -> Connections] /\ request \in [Requests -> Calls]
  BY Types
<1>2. g.upstream = [n \in Names |-> CASE n \in Dropped(w) -> NoUpstream
                                     [] n \in Changed(w) \cup Added(w) -> NewUpstream(w[n])
                                     [] OTHER -> upstream[n]]
  BY DEF Synced, Reconciled
<1>3. /\ \A n \in Dropped(w) : g.upstream[n] = NoUpstream
      /\ \A n \in Changed(w) \cup Added(w) : g.upstream[n] = NewUpstream(w[n])
      /\ \A n \in Names \ (Dropped(w) \cup Changed(w) \cup Added(w)) : g.upstream[n] = upstream[n]
  BY <1>2 DEF Dropped, Changed, Added
<1>4. g.upstream \in [Names -> Objects]
  <2>1. ASSUME NEW n \in Names PROVE g.upstream[n] \in Objects
    BY <1>1, <1>3, Records
  <2> QED
    BY <1>2, <2>1
<1>5. /\ g.routes = routes /\ Dropped(w) = {}
      \/ g.routes = [n \in Names |-> g.upstream[n].tools]
  BY DEF Synced, Routes
<1>6. g.routes \in [Names -> Versions \cup {None}]
  BY <1>1, <1>4, <1>5 DEF Objects
<1>7. g.conn = [k \in Conns |-> IF k \in Stopped(w) THEN NoConn
                               ELSE IF conn[k].name \in Dropped(w) THEN [conn[k] EXCEPT !.kept = FALSE]
                               ELSE conn[k]]
  BY DEF Synced, Stopped
<1>8. /\ g.conn \in [Conns -> Connections]
      /\ \A k \in Conns :
          IF k \in Stopped(w) THEN g.conn[k] = NoConn
          ELSE /\ g.conn[k].pc = conn[k].pc /\ g.conn[k].name = conn[k].name /\ g.conn[k].version = conn[k].version
               /\ g.conn[k].kept = (conn[k].kept /\ conn[k].name \notin Dropped(w))
  <2> DEFINE c == g.conn
  <2>1. c = [k \in Conns |-> IF k \in Stopped(w) THEN NoConn
                             ELSE IF conn[k].name \in Dropped(w) THEN [conn[k] EXCEPT !.kept = FALSE]
                             ELSE conn[k]]
    BY <1>7
  <2> HIDE DEF c
  <2>2. /\ c \in [Conns -> Connections]
        /\ \A k \in Conns :
            IF k \in Stopped(w) THEN c[k] = NoConn
            ELSE /\ c[k].pc = conn[k].pc /\ c[k].name = conn[k].name /\ c[k].version = conn[k].version
                 /\ c[k].kept = (conn[k].kept /\ conn[k].name \notin Dropped(w))
    BY <1>1, <2>1, Records DEF Connections
  <2> QED
    BY <2>2 DEF c
<1>9. g.request = [r \in Requests |-> IF request[r].pc = "sent" /\ request[r].waits \cap Stopped(w) # {}
                                     THEN NoRequest ELSE request[r]]
  BY DEF Synced, Rejected, Stopped
<1>10. /\ g.request \in [Requests -> Calls]
       /\ \A r \in Requests :
           \/ g.request[r] = NoRequest
           \/ g.request[r] = request[r] /\ (request[r].pc = "sent" => request[r].waits \cap Stopped(w) = {})
  BY <1>1, <1>9, Records
<1> QED
  BY <1>3, <1>4, <1>5, <1>6, <1>8, <1>10

(* After it the upstreams are those wanted, with their own connections.           *)
LEMMA SyncedGood ==
    ASSUME GatewayShape, NEW w \in [Names -> Versions \cup {None}], NEW g, g = Synced(w)
    PROVE  /\ Good(g)
           /\ \A n \in Names : g.upstream[n].there => g.upstream[n].version = w[n] /\ w[n] # None
<1> DEFINE Untouched == Names \ (Dropped(w) \cup Changed(w) \cup Added(w))
<1>3. /\ \A n \in Dropped(w) : g.upstream[n] = NoUpstream
      /\ \A n \in Changed(w) \cup Added(w) : g.upstream[n] = NewUpstream(w[n])
      /\ \A n \in Untouched : g.upstream[n] = upstream[n]
      /\ \/ g.routes = routes /\ Dropped(w) = {}
         \/ \A n \in Names : g.routes[n] = g.upstream[n].tools
      /\ \A k \in Conns :
          IF k \in Stopped(w) THEN g.conn[k] = NoConn
          ELSE /\ g.conn[k].pc = conn[k].pc /\ g.conn[k].name = conn[k].name /\ g.conn[k].version = conn[k].version
               /\ g.conn[k].kept = (conn[k].kept /\ conn[k].name \notin Dropped(w))
      /\ \A r \in Requests :
          \/ g.request[r] = NoRequest
          \/ g.request[r] = request[r] /\ (request[r].pc = "sent" => request[r].waits \cap Stopped(w) = {})
  BY SyncedIs DEF GatewayShape
<1>4. /\ \A n \in Untouched : IF upstream[n].there THEN w[n] # None /\ w[n] = upstream[n].version ELSE w[n] = None
      /\ \A n \in Changed(w) \cup Added(w) : n \in Names /\ w[n] # None /\ w[n] \in Versions
      /\ \A n \in Changed(w) \cup Dropped(w) : n \in Names /\ upstream[n].there
  BY DEF Dropped, Changed, Added
<1>5. \A n \in Changed(w) \cup Added(w) :
        /\ g.upstream[n].there /\ g.upstream[n].version = w[n]
        /\ g.upstream[n].client = None /\ g.upstream[n].starting = None
        /\ g.upstream[n].status = "idle" /\ g.upstream[n].tools = None
  BY <1>3, <1>4, NewUpstreamFields
<1>6. \A n \in Dropped(w) :
        /\ ~g.upstream[n].there
        /\ g.upstream[n].client = None /\ g.upstream[n].starting = None
        /\ g.upstream[n].status = "idle" /\ g.upstream[n].tools = None
  BY <1>3 DEF NoUpstream
<1>7. \A k \in Conns : k \in Stopped(w) <=> k # None /\ \E n \in Dropped(w) \cup Changed(w) : upstream[n].client = k
  BY DEF Stopped
<1>8. \A n \in Untouched : \A k \in Conns :
        k = upstream[n].client \/ k = upstream[n].starting => k \notin Stopped(w) /\ conn[k].name \notin Dropped(w)
  BY <1>4, <1>7 DEF GatewayShape, Sound, OwnConnections, OwnIn
<1>9. ASSUME NEW n \in Names PROVE ObjectIn(g, n) /\ OwnIn(g, n) /\ LeadsIn(g, n)
  <2>1. CASE n \in Untouched
    <3>1. ObjectIn(g, n)
      BY <1>3, <1>4, <2>1 DEF GatewayShape, Sound, ObjectShape, ObjectIn
    <3>2. OwnIn(g, n)
      <4>1. g.upstream[n] = upstream[n] /\ n \in Names
        BY <1>3, <2>1
      <4>2. ASSUME NEW k \in Conns, k = upstream[n].client \/ k = upstream[n].starting
            PROVE  /\ g.conn[k].pc = conn[k].pc /\ g.conn[k].name = conn[k].name
                   /\ g.conn[k].version = conn[k].version /\ g.conn[k].kept = conn[k].kept
        <5>1. k \notin Stopped(w) /\ conn[k].name \notin Dropped(w)
          BY <1>8, <2>1, <4>2
        <5>2. conn[k].kept \in BOOLEAN
          BY Types DEF GatewayShape, Connections
        <5> QED
          BY <1>3, <5>1, <5>2
      <4> QED
        BY <4>1, <4>2 DEF GatewayShape, Sound, OwnConnections, OwnIn
    <3>3. LeadsIn(g, n)
      BY <1>3, <2>1 DEF GatewayShape, Sound, ObjectShape, ObjectIn, RouteLeads, LeadsIn
    <3> QED
      BY <3>1, <3>2, <3>3
  <2>2. CASE n \in Changed(w) \cup Added(w)
    <3>1. ObjectIn(g, n)
      BY <1>4, <1>5, <2>2 DEF ObjectShape, ObjectIn
    <3>2. OwnIn(g, n)
      BY <1>5, <2>2, GatewayAssumption DEF OwnConnections, OwnIn, None
    <3> QED
      BY <1>5, <2>2, <3>1, <3>2 DEF RouteLeads, LeadsIn
  <2>3. CASE n \in Dropped(w)
    <3>1. ObjectIn(g, n) /\ OwnIn(g, n)
      BY <1>6, <2>3, GatewayAssumption DEF ObjectShape, ObjectIn, OwnConnections, OwnIn, None
    <3>2. LeadsIn(g, n)
      BY <1>3, <1>6, <2>3 DEF RouteLeads, LeadsIn
    <3> QED
      BY <3>1, <3>2
  <2> QED
    BY <2>1, <2>2, <2>3
<1>10. ASSUME NEW k \in Conns PROVE KeptIn(g, k)
  <2>1. CASE k \in Stopped(w)
    BY <1>3, <2>1 DEF ConnectionKept, KeptIn, NoConn
  <2>2. CASE k \notin Stopped(w)
    <3>1. /\ g.conn[k].pc = conn[k].pc /\ g.conn[k].name = conn[k].name
          /\ g.conn[k].kept => conn[k].kept /\ conn[k].name \notin Dropped(w)
      BY <1>3, <2>2
    <3>2. ASSUME g.conn[k].kept PROVE g.upstream[conn[k].name].there
      <4>1. conn[k].name \in Names /\ upstream[conn[k].name].there /\ conn[k].name \notin Dropped(w)
        BY <3>1, <3>2 DEF GatewayShape, Sound, ConnectionKept, KeptIn
      <4> QED
        BY <1>3, <1>5, <4>1
    <3> QED
      BY <3>1, <3>2 DEF GatewayShape, Sound, ConnectionKept, KeptIn
  <2> QED
    BY <2>1, <2>2
<1>11. ASSUME NEW r \in Requests PROVE WaitsIn(g, r)
  <2>1. CASE g.request[r] = NoRequest
    BY <2>1 DEF CallWaits, WaitsIn, NoRequest
  <2>2. CASE g.request[r] = request[r] /\ (request[r].pc = "sent" => request[r].waits \cap Stopped(w) = {})
    <3>1. ASSUME request[r].pc = "start"
          PROVE  \E k \in Conns : request[r].waits = {k} /\ g.conn[k].pc \in {"connect", "list"} /\ g.conn[k].name = request[r].name
      <4>1. PICK k \in Conns : request[r].waits = {k} /\ conn[k].pc \in {"connect", "list"} /\ conn[k].name = request[r].name
        BY <3>1 DEF GatewayShape, Sound, CallWaits, WaitsIn
      <4>2. k \notin Stopped(w)
        BY <1>4, <1>7, <4>1 DEF GatewayShape, Sound, OwnConnections, OwnIn
      <4> QED
        BY <1>3, <4>1, <4>2
    <3>2. ASSUME request[r].pc = "sent"
          PROVE  \E k \in Conns : request[r].waits = {k} /\ g.upstream[request[r].name].client = k
      <4>1. PICK k \in Conns : request[r].waits = {k} /\ upstream[request[r].name].client = k
        BY <3>2 DEF GatewayShape, Sound, CallWaits, WaitsIn
      <4>2. request[r].name \in Names /\ k # None /\ k \notin Stopped(w)
        BY <2>2, <3>2, <4>1, GatewayAssumption DEF GatewayShape, Sound, CallWaits, WaitsIn, None
      <4>3. upstream[request[r].name].there
        BY <4>1, <4>2 DEF GatewayShape, Sound, ObjectShape, ObjectIn
      <4>4. request[r].name \in Untouched
        BY <1>7, <4>1, <4>2, <4>3 DEF Added
      <4> QED
        BY <1>3, <4>1, <4>4
    <3> QED
      BY <2>2, <3>1, <3>2 DEF GatewayShape, Sound, CallWaits, WaitsIn
  <2> QED
    BY <1>3, <2>1, <2>2
<1>12. /\ g.upstream \in [Names -> Objects] /\ g.routes \in [Names -> Versions \cup {None}]
       /\ g.conn \in [Conns -> Connections] /\ g.request \in [Requests -> Calls]
  BY SyncedIs DEF GatewayShape
<1>13. ASSUME NEW n \in Names, g.upstream[n].there PROVE g.upstream[n].version = w[n] /\ w[n] # None
  BY <1>3, <1>4, <1>5, <1>6, <1>13
<1> QED
  BY <1>9, <1>10, <1>11, <1>12, <1>13 DEF Good

(* The variables as they are.                                                     *)
LEMMA NowGood == GatewayShape => Good(Now)
<1> SUFFICES ASSUME GatewayShape PROVE Good(Now)
  OBVIOUS
<1>1. Now.upstream = upstream /\ Now.routes = routes /\ Now.conn = conn /\ Now.request = request
  BY DEF Now
<1> HIDE DEF Now
<1> QED
  BY <1>1, Types DEF GatewayShape, Sound, Good, ObjectShape, ObjectIn, OwnConnections, OwnIn, RouteLeads, LeadsIn,
     ConnectionKept, KeptIn, CallWaits, WaitsIn

-----------------------------------------------------------------------------
(* Servers are started.                                                           *)

LEMMA StartsAre ==
    ASSUME NEW g, Good(g), NEW S \in SUBSET Names, NEW f \in Assignments(g, S), StartUpstreams(g, f)
    PROVE  /\ upstream' \in [Names -> Objects] /\ conn' \in [Conns -> Connections]
           /\ \A n \in S :
               /\ f[n] \in Conns /\ g.conn[f[n]].pc = "none"
               /\ upstream'[n].there = g.upstream[n].there /\ upstream'[n].version = g.upstream[n].version
               /\ upstream'[n].client = g.upstream[n].client /\ upstream'[n].tools = g.upstream[n].tools
               /\ upstream'[n].starting = f[n] /\ upstream'[n].status = "starting"
               /\ conn'[f[n]].pc = "connect" /\ conn'[f[n]].name = n
               /\ conn'[f[n]].version = g.upstream[n].version /\ conn'[f[n]].kept
           /\ \A n \in Names \ S : upstream'[n] = g.upstream[n]
           /\ \A k \in Conns : conn'[k] = g.conn[k] \/ \E n \in S : f[n] = k
<1>1. /\ g.upstream \in [Names -> Objects] /\ g.conn \in [Conns -> Connections]
      /\ f \in [S -> FreeConns(g)] /\ \A m, n \in S : m # n => f[m] # f[n]
  BY DEF Good, Assignments
<1>2. \A n \in S : f[n] \in Conns /\ g.conn[f[n]].pc = "none"
  BY <1>1 DEF FreeConns
<1>3. upstream' = [n \in Names |-> IF n \in S THEN [g.upstream[n] EXCEPT !.starting = f[n], !.status = "starting"]
                                   ELSE g.upstream[n]]
  BY <1>1 DEF StartUpstreams
<1>4. upstream' \in [Names -> Objects]
  BY <1>1, <1>2, <1>3 DEF Objects
<1>5. \A n \in S : (CHOOSE m \in S : f[m] = f[n]) = n
  BY <1>1
<1>6. conn' = [k \in Conns |-> IF \E n \in S : f[n] = k
                               THEN LET n == CHOOSE m \in S : f[m] = k
                                    IN  [pc |-> "connect", name |-> n, version |-> g.upstream[n].version, kept |-> TRUE]
                               ELSE g.conn[k]]
  BY <1>1 DEF StartUpstreams
<1>7. ASSUME NEW n \in S
      PROVE  conn'[f[n]] = [pc |-> "connect", name |-> n, version |-> g.upstream[n].version, kept |-> TRUE]
  BY <1>2, <1>5, <1>6
<1>8. \A k \in Conns : conn'[k] = g.conn[k] \/ \E n \in S : f[n] = k
  BY <1>6
<1>9. conn' \in [Conns -> Connections]
  <2>1. ASSUME NEW k \in Conns PROVE conn'[k] \in Connections
    <3>1. CASE \E n \in S : f[n] = k
      <4>1. PICK n \in S : f[n] = k
        BY <3>1
      <4>2. g.upstream[n].version \in Versions \cup {None}
        BY <1>1 DEF Objects
      <4>3. conn'[k] = [pc |-> "connect", name |-> n, version |-> g.upstream[n].version, kept |-> TRUE]
        BY <1>7, <4>1
      <4> QED
        BY <4>2, <4>3 DEF Connections
    <3> QED
      BY <1>1, <1>8, <3>1
  <2> QED
    BY <1>6, <2>1
<1>10. \A n \in S :
        /\ upstream'[n].there = g.upstream[n].there /\ upstream'[n].version = g.upstream[n].version
        /\ upstream'[n].client = g.upstream[n].client /\ upstream'[n].tools = g.upstream[n].tools
        /\ upstream'[n].starting = f[n] /\ upstream'[n].status = "starting"
  BY <1>1, <1>3 DEF Objects
<1>11. ASSUME NEW n \in S
       PROVE  /\ conn'[f[n]].pc = "connect" /\ conn'[f[n]].name = n
              /\ conn'[f[n]].version = g.upstream[n].version /\ conn'[f[n]].kept
  <2>1. conn'[f[n]] = [pc |-> "connect", name |-> n, version |-> g.upstream[n].version, kept |-> TRUE]
    BY <1>7
  <2> QED
    BY <2>1
<1>12. \A n \in Names \ S : upstream'[n] = g.upstream[n]
  BY <1>3
<1> QED
  BY <1>2, <1>4, <1>8, <1>9, <1>10, <1>11, <1>12

(* A start of servers that neither run nor start disturbs none, nor a call.       *)
LEMMA StartsSound ==
    ASSUME NEW g, Good(g), NEW S \in SUBSET Names, NEW f \in Assignments(g, S), StartUpstreams(g, f),
           \A n \in S : g.upstream[n].there /\ g.upstream[n].client = None /\ g.upstream[n].starting = None
    PROVE  /\ \A n \in Names : (ObjectShape(n) /\ OwnConnections(n))'
           /\ \A n \in Names : upstream'[n].there = g.upstream[n].there /\ upstream'[n].version = g.upstream[n].version
           /\ \A k \in Conns : ConnectionKept(k)'
           /\ \A r \in Requests : request'[r] = g.request[r] => CallWaits(r)'
<1> USE DEF Good
<1>1. /\ \A n \in S :
          /\ f[n] \in Conns /\ g.conn[f[n]].pc = "none"
          /\ upstream'[n].there = g.upstream[n].there /\ upstream'[n].version = g.upstream[n].version
          /\ upstream'[n].client = g.upstream[n].client /\ upstream'[n].tools = g.upstream[n].tools
          /\ upstream'[n].starting = f[n] /\ upstream'[n].status = "starting"
          /\ conn'[f[n]].pc = "connect" /\ conn'[f[n]].name = n
          /\ conn'[f[n]].version = g.upstream[n].version /\ conn'[f[n]].kept
      /\ \A n \in Names \ S : upstream'[n] = g.upstream[n]
      /\ \A k \in Conns : conn'[k] = g.conn[k] \/ \E n \in S : f[n] = k
  BY StartsAre
<1>2. \A k \in Conns : g.conn[k].pc # "none" => conn'[k] = g.conn[k]
  BY <1>1
<1>3. ASSUME NEW n \in Names PROVE (ObjectShape(n) /\ OwnConnections(n))'
  <2>1. CASE n \in S
    <3>1. ObjectShape(n)'
      BY <1>1, <2>1 DEF ObjectShape, ObjectIn
    <3>2. OwnConnections(n)'
      BY <1>1, <2>1, GatewayAssumption DEF OwnConnections, OwnIn, None
    <3> QED
      BY <3>1, <3>2
  <2>2. CASE n \notin S
    <3>1. ObjectShape(n)'
      BY <1>1, <2>2 DEF ObjectShape, ObjectIn
    <3>2. OwnConnections(n)'
      BY <1>1, <1>2, <2>2 DEF OwnConnections, OwnIn
    <3> QED
      BY <3>1, <3>2
  <2> QED
    BY <2>1, <2>2
<1>4. \A n \in Names : upstream'[n].there = g.upstream[n].there /\ upstream'[n].version = g.upstream[n].version
  BY <1>1
<1>5. ASSUME NEW k \in Conns PROVE ConnectionKept(k)'
  <2>1. CASE conn'[k] = g.conn[k]
    BY <1>4, <2>1 DEF ConnectionKept, KeptIn
  <2>2. CASE \E n \in S : f[n] = k
    BY <1>1, <1>4, <2>2 DEF ConnectionKept, KeptIn
  <2> QED
    BY <1>1, <2>1, <2>2
<1>6. ASSUME NEW r \in Requests, request'[r] = g.request[r] PROVE CallWaits(r)'
  <2>1. \A n \in Names : upstream'[n].client = g.upstream[n].client
    BY <1>1
  <2> QED
    BY <1>2, <1>6, <2>1 DEF CallWaits, WaitsIn
<1> QED
  BY <1>3, <1>4, <1>5, <1>6

(* What a request that asks for tool lists, and a call, leave behind.             *)
LEMMA AsksSound ==
    ASSUME NEW g, Good(g), GatewayTypeOK, NEW r \in Requests, NEW pc \in {"list", "find"}, NEW n \in Names \cup {None}, NEW t \in Versions \cup {None},
           pc = "find" => n \in Names, Asks(g, r, pc, n, t),
           routes' = g.routes, missed' \subseteq Names, UNCHANGED <<enabled, serving, changes>>
    PROVE  /\ GatewayShape'
           /\ \A m \in Names : upstream'[m].there = g.upstream[m].there /\ upstream'[m].version = g.upstream[m].version
<1> DEFINE Lacking == {m \in Names : g.upstream[m].there /\ g.upstream[m].tools = None}
           S == ToStart(g, Lacking)
           shared == {g.upstream[m].starting : m \in Lacking} \ {None}
<1>1. PICK f \in Assignments(g, S) :
        /\ StartUpstreams(g, f)
        /\ request' = [g.request EXCEPT ![r] = [pc |-> pc, name |-> n, tools |-> t,
                                               waits |-> {f[m] : m \in S} \cup shared]]
  BY DEF Asks
<1>2. S \in SUBSET Names /\ \A m \in S : g.upstream[m].there /\ g.upstream[m].client = None /\ g.upstream[m].starting = None
  BY DEF ToStart
<1>3. g.upstream \in [Names -> Objects] /\ g.request \in [Requests -> Calls]
  BY DEF Good
<1>4. shared \subseteq Conns
  BY <1>3 DEF Objects
<1> HIDE DEF S, shared
<1>5. {f[m] : m \in S} \subseteq Conns
  BY <1>1, <1>2, StartsAre
<1>6. request' \in [Requests -> Calls]
  BY <1>1, <1>3, <1>4, <1>5 DEF Calls
<1>7. GatewayTypeOK'
  <2>1. upstream' \in [Names -> Objects] /\ conn' \in [Conns -> Connections]
    BY <1>1, <1>2, StartsAre
  <2>2. routes' \in [Names -> Versions \cup {None}]
    BY DEF Good
  <2> QED
    BY <1>6, <2>1, <2>2 DEF GatewayTypeOK, Objects, Connections, Calls
<1>8. /\ \A m \in Names : (ObjectShape(m) /\ OwnConnections(m))' /\ upstream'[m].there = g.upstream[m].there /\ upstream'[m].version = g.upstream[m].version
      /\ \A k \in Conns : ConnectionKept(k)'
      /\ \A q \in Requests : request'[q] = g.request[q] => CallWaits(q)'
  BY <1>1, <1>2, StartsSound
<1>9. request'[r].pc = pc /\ request'[r].name = n /\ \A q \in Requests \ {r} : request'[q] = g.request[q]
  BY <1>1, <1>3
<1>10. CallWaits(r)'
  BY <1>9 DEF CallWaits, WaitsIn
<1>11. \A m \in Names : RouteLeads(m)'
  BY <1>8 DEF Good, RouteLeads, LeadsIn
<1> QED
  BY <1>7, <1>8, <1>9, <1>10, <1>11 DEF GatewayShape, Sound

LEMMA CallOnSound ==
    ASSUME NEW g, Good(g), GatewayTypeOK, NEW r \in Requests, NEW n \in Names, NEW t \in Versions \cup {None},
           g.upstream[n].there, CallOn(g, r, n, t), missed' \subseteq Names, UNCHANGED <<enabled, serving, changes>>,
           routes' = g.routes \/ routes' = Routes(g.upstream)
    PROVE  /\ GatewayShape'
           /\ \A m \in Names : upstream'[m].there = g.upstream[m].there /\ upstream'[m].version = g.upstream[m].version
<1>1. g.upstream \in [Names -> Objects] /\ g.request \in [Requests -> Calls] /\ g.routes \in [Names -> Versions \cup {None}]
  BY DEF Good
<1>2. routes' \in [Names -> Versions \cup {None}]
  BY <1>1 DEF Routes, Objects
<1>3. \A m \in Names : routes'[m] # None => g.upstream[m].there
  BY <1>1 DEF Routes, Good, RouteLeads, LeadsIn, ObjectShape, ObjectIn
<1>4. CASE g.upstream[n].client # None
  <2> DEFINE k == g.upstream[n].client
  <2>1. /\ request' = [g.request EXCEPT ![r] = [pc |-> "sent", name |-> n, tools |-> t, waits |-> {k}]]
        /\ upstream' = g.upstream /\ conn' = g.conn
    BY <1>4 DEF CallOn
  <2>2. k \in Conns
    BY <1>1, <1>4 DEF Objects
  <2>3. request' \in [Requests -> Calls]
    BY <1>1, <2>1, <2>2 DEF Calls
  <2>4. GatewayTypeOK'
    <3>1. upstream' \in [Names -> Objects] /\ conn' \in [Conns -> Connections]
      BY <2>1 DEF Good
    <3> QED
      BY <1>2, <2>3, <3>1 DEF GatewayTypeOK, Objects, Connections, Calls
  <2>5. \A q \in Requests : CallWaits(q)'
    BY <1>1, <2>1, <2>2 DEF Good, CallWaits, WaitsIn
  <2>6. \A m \in Names : (ObjectShape(m) /\ OwnConnections(m) /\ RouteLeads(m))'
    BY <1>3, <2>1 DEF Good, ObjectShape, ObjectIn, OwnConnections, OwnIn, RouteLeads, LeadsIn
  <2>7. \A j \in Conns : ConnectionKept(j)'
    BY <2>1 DEF Good, ConnectionKept, KeptIn
  <2> QED
    BY <2>1, <2>4, <2>5, <2>6, <2>7 DEF GatewayShape, Sound
<1>5. CASE g.upstream[n].client = None
  <2> DEFINE S == ToStart(g, {n})
  <2>1. PICK f \in Assignments(g, S) :
          /\ StartUpstreams(g, f)
          /\ request' = [g.request EXCEPT ![r] = [pc |-> "start", name |-> n, tools |-> t,
                                                 waits |-> {IF n \in DOMAIN f THEN f[n] ELSE g.upstream[n].starting}]]
    BY <1>5 DEF CallOn
  <2>2. /\ S \in SUBSET Names /\ \A m \in S : g.upstream[m].there /\ g.upstream[m].client = None /\ g.upstream[m].starting = None
        /\ n \notin S => g.upstream[n].starting # None
    BY <1>5 DEF ToStart
  <2> HIDE DEF S
  <2>3. DOMAIN f = S
    BY DEF Assignments
  <2> DEFINE k == IF n \in S THEN f[n] ELSE g.upstream[n].starting
  <2>4. request' = [g.request EXCEPT ![r] = [pc |-> "start", name |-> n, tools |-> t, waits |-> {k}]]
    BY <2>1, <2>3
  <2>5. k \in Conns /\ conn'[k].pc \in {"connect", "list"} /\ conn'[k].name = n
    <3>1. CASE n \in S
      BY <2>1, <2>2, <3>1, StartsAre
    <3>2. CASE n \notin S
      <4>1. k \in Conns /\ g.conn[k].pc \in {"connect", "list"} /\ g.conn[k].name = n
        BY <1>1, <2>2, <3>2 DEF Objects, Good, OwnConnections, OwnIn
      <4>2. conn'[k] = g.conn[k]
        BY <2>1, <2>2, <4>1, StartsAre
      <4> QED
        BY <4>1, <4>2
    <3> QED
      BY <3>1, <3>2
  <2> HIDE DEF k
  <2>6. request' \in [Requests -> Calls]
    BY <1>1, <2>4, <2>5 DEF Calls
  <2>7. GatewayTypeOK'
    <3>1. upstream' \in [Names -> Objects] /\ conn' \in [Conns -> Connections]
      BY <2>1, <2>2, StartsAre
    <3> QED
      BY <1>2, <2>6, <3>1 DEF GatewayTypeOK, Objects, Connections, Calls
  <2>8. /\ \A m \in Names : (ObjectShape(m) /\ OwnConnections(m))' /\ upstream'[m].there = g.upstream[m].there /\ upstream'[m].version = g.upstream[m].version
        /\ \A j \in Conns : ConnectionKept(j)'
        /\ \A q \in Requests : request'[q] = g.request[q] => CallWaits(q)'
    BY <2>1, <2>2, StartsSound
  <2>9. /\ request'[r].pc = "start" /\ request'[r].name = n /\ request'[r].waits = {k}
        /\ \A q \in Requests \ {r} : request'[q] = g.request[q]
    BY <1>1, <2>4
  <2>10. CallWaits(r)'
    BY <2>5, <2>9 DEF CallWaits, WaitsIn
  <2>11. \A m \in Names : RouteLeads(m)'
    BY <1>3, <2>8 DEF RouteLeads, LeadsIn
  <2> QED
    BY <2>7, <2>8, <2>9, <2>10, <2>11 DEF GatewayShape, Sound
<1> QED
  BY <1>4, <1>5
-----------------------------------------------------------------------------
(* A connection is settled: started, given up or lost.                            *)

LEMMA GiveUpIs ==
    ASSUME GatewayShape, NEW k \in Conns, GiveUp(k)
    PROVE  /\ request' \in [Requests -> Calls]
           /\ \A r \in Requests :
               \/ request'[r] = NoRequest
               \/ request'[r] = request[r] /\ (request[r].pc \in {"start", "sent"} => request[r].waits # {k})
               \/ /\ request[r].pc \in {"list", "find"}
                  /\ request'[r].pc = request[r].pc /\ request'[r].name = request[r].name
<1>1. request \in [Requests -> Calls]
  BY Types DEF GatewayShape
<1>2. request' = [r \in Requests |-> IF request[r].pc \in {"start", "sent"} /\ request[r].waits = {k}
                                     THEN NoRequest ELSE Without(request[r], k)]
  BY DEF GiveUp
<1>3. ASSUME NEW r \in Requests
      PROVE  /\ Without(request[r], k) \in Calls
             /\ Without(request[r], k).pc = request[r].pc /\ Without(request[r], k).name = request[r].name
             /\ request[r].pc \notin {"list", "find"} => Without(request[r], k) = request[r]
  BY <1>1 DEF Without, Calls
<1>4. request' \in [Requests -> Calls]
  BY <1>2, <1>3, Records
<1>5. ASSUME NEW r \in Requests
      PROVE  \/ request'[r] = NoRequest
             \/ request'[r] = request[r] /\ (request[r].pc \in {"start", "sent"} => request[r].waits # {k})
             \/ /\ request[r].pc \in {"list", "find"}
                /\ request'[r].pc = request[r].pc /\ request'[r].name = request[r].name
  BY <1>2, <1>3
<1> QED
  BY <1>4, <1>5

LEMMA GoOnIs ==
    ASSUME GatewayShape, NEW k \in Conns, GoOn(k)
    PROVE  /\ request' \in [Requests -> Calls]
           /\ \A r \in Requests :
               \/ /\ request[r].pc = "start" /\ request[r].waits = {k} /\ request'[r].pc = "sent"
                  /\ request'[r].name = request[r].name /\ request'[r].waits = {k}
               \/ request'[r] = request[r] /\ (request[r].pc = "start" => request[r].waits # {k})
               \/ /\ request[r].pc \in {"list", "find"}
                  /\ request'[r].pc = request[r].pc /\ request'[r].name = request[r].name
<1>1. request \in [Requests -> Calls]
  BY Types DEF GatewayShape
<1>2. request' = [r \in Requests |-> IF request[r].pc = "start" /\ request[r].waits = {k}
                                     THEN [request[r] EXCEPT !.pc = "sent"] ELSE Without(request[r], k)]
  BY DEF GoOn
<1>3. ASSUME NEW r \in Requests
      PROVE  /\ Without(request[r], k) \in Calls
             /\ Without(request[r], k).pc = request[r].pc /\ Without(request[r], k).name = request[r].name
             /\ request[r].pc \notin {"list", "find"} => Without(request[r], k) = request[r]
  BY <1>1 DEF Without, Calls
<1>4. ASSUME NEW r \in Requests
      PROVE  /\ [request[r] EXCEPT !.pc = "sent"] \in Calls
             /\ [request[r] EXCEPT !.pc = "sent"].pc = "sent"
             /\ [request[r] EXCEPT !.pc = "sent"].name = request[r].name
             /\ [request[r] EXCEPT !.pc = "sent"].waits = request[r].waits
  BY <1>1 DEF Calls
<1>5. request' \in [Requests -> Calls]
  BY <1>2, <1>3, <1>4
<1>6. ASSUME NEW r \in Requests
      PROVE  \/ /\ request[r].pc = "start" /\ request[r].waits = {k} /\ request'[r].pc = "sent"
                /\ request'[r].name = request[r].name /\ request'[r].waits = {k}
             \/ request'[r] = request[r] /\ (request[r].pc = "start" => request[r].waits # {k})
             \/ /\ request[r].pc \in {"list", "find"}
                /\ request'[r].pc = request[r].pc /\ request'[r].name = request[r].name
  BY <1>2, <1>3, <1>4
<1> QED
  BY <1>5, <1>6

(* The calls that did not wait for k wait for what they waited for.               *)
LEMMA CallsGivenUp ==
    ASSUME GatewayShape, NEW k \in Conns, GiveUp(k),
           \A j \in Conns \ {k} : conn'[j] = conn[j],
           \A n \in Names : upstream[n].client # k => upstream'[n].client = upstream[n].client
    PROVE  request' \in [Requests -> Calls] /\ \A r \in Requests : CallWaits(r)'
<1>1. ASSUME NEW r \in Requests PROVE CallWaits(r)'
  <2>1. CASE request'[r] = NoRequest
    BY <2>1 DEF CallWaits, NoRequest
  <2>2. CASE request'[r] = request[r] /\ (request[r].pc \in {"start", "sent"} => request[r].waits # {k})
    BY <2>2 DEF GatewayShape, Sound, CallWaits
  <2>3. CASE /\ request[r].pc \in {"list", "find"}
             /\ request'[r].pc = request[r].pc /\ request'[r].name = request[r].name
    BY <2>3 DEF GatewayShape, Sound, CallWaits
  <2> QED
    BY <2>1, <2>2, <2>3, GiveUpIs
<1> QED
  BY <1>1, GiveUpIs

(* A start that came to nothing.                                                  *)
LEMMA StartGivenUp ==
    ASSUME GatewayShape, NEW k \in Conns, conn[k].pc \in {"connect", "list"}, GiveUp(k),
           upstream' \in [Names -> Objects], conn' \in [Conns -> Connections],
           \A j \in Conns \ {k} : conn'[j] = conn[j],
           conn'[k] = NoConn \/ (conn'[k].pc = "open" /\ conn'[k].name = conn[k].name /\ conn'[k].kept = conn[k].kept),
           \A n \in Names :
               /\ upstream'[n].there = upstream[n].there /\ upstream'[n].version = upstream[n].version
               /\ upstream'[n].client = upstream[n].client
               /\ ~upstream[n].there => upstream'[n].tools = upstream[n].tools
               /\ IF upstream[n].starting = k THEN upstream'[n].starting = None /\ upstream'[n].status = "failed"
                  ELSE upstream'[n].starting = upstream[n].starting /\ upstream'[n].status = upstream[n].status,
           UNCHANGED <<enabled, serving, routes, missed, changes>>
    PROVE  GatewayShape'
<1>1. request' \in [Requests -> Calls] /\ \A r \in Requests : CallWaits(r)'
  BY CallsGivenUp
<1>2. GatewayTypeOK'
  BY <1>1 DEF GatewayShape, GatewayTypeOK, Objects, Connections, Calls
<1>3. ASSUME NEW n \in Names PROVE (ObjectShape(n) /\ OwnConnections(n) /\ RouteLeads(n))'
  <2>1. ObjectShape(n)' /\ RouteLeads(n)'
    BY <1>3 DEF GatewayShape, Sound, ObjectShape, RouteLeads
  <2>2. upstream[n].client # k /\ k # None
    BY GatewayAssumption DEF GatewayShape, Sound, OwnConnections, None
  <2>3. CASE upstream[n].starting = k
    <3>1. upstream[n].status = "starting" /\ upstream[n].client = None
      BY <2>2, <2>3 DEF GatewayShape, Sound, OwnConnections
    <3>2. None \notin Conns
      BY GatewayAssumption DEF None
    <3> QED
      BY <2>1, <2>3, <3>1, <3>2 DEF OwnConnections
  <2>4. CASE upstream[n].starting # k
    BY <2>1, <2>2, <2>4 DEF GatewayShape, Sound, OwnConnections
  <2> QED
    BY <2>3, <2>4
<1>4. ASSUME NEW j \in Conns PROVE ConnectionKept(j)'
  <2>1. CASE j # k
    BY <2>1 DEF GatewayShape, Sound, ConnectionKept
  <2>2. CASE j = k
    BY <2>2 DEF GatewayShape, Sound, ConnectionKept, NoConn
  <2> QED
    BY <2>1, <2>2
<1> QED
  BY <1>1, <1>2, <1>3, <1>4 DEF GatewayShape, Sound

(* What is said of an upstream, or a call, that a step leaves alone.               *)
LEMMA OwnUntouched ==
    ASSUME NEW n \in Names, OwnConnections(n),
           upstream'[n].version = upstream[n].version, upstream'[n].starting = upstream[n].starting,
           upstream'[n].client = upstream[n].client, upstream'[n].status = upstream[n].status,
           \A j \in Conns : j = upstream[n].client \/ j = upstream[n].starting => conn'[j] = conn[j]
    PROVE  OwnConnections(n)'
  BY DEF OwnConnections

LEMMA WaitsUntouched ==
    ASSUME NEW r \in Requests, CallWaits(r), request'[r] = request[r],
           \A j \in Conns :
               /\ request[r].waits = {j} /\ request[r].pc = "start" => conn'[j] = conn[j]
               /\ request[r].waits = {j} /\ request[r].pc = "sent" /\ upstream[request[r].name].client = j =>
                    upstream'[request[r].name].client = j
    PROVE  CallWaits(r)'
  BY DEF CallWaits

(* A client is let go: lost, or stopped when idle.                                *)
LEMMA ClientGone ==
    ASSUME GatewayShape, NEW k \in Conns, conn[k].pc = "open",
           upstream' \in [Names -> Objects], conn' = Closed(conn, {k}),
           request' \in [Requests -> Calls],
           \A n \in Names :
               /\ upstream'[n].there = upstream[n].there /\ upstream'[n].version = upstream[n].version
               /\ upstream'[n].starting = upstream[n].starting /\ upstream'[n].tools = upstream[n].tools
               /\ IF upstream[n].client = k THEN upstream'[n].client = None /\ upstream'[n].status = "idle"
                  ELSE upstream'[n].client = upstream[n].client /\ upstream'[n].status = upstream[n].status,
           \A r \in Requests :
               \/ request'[r] = NoRequest
               \/ request'[r] = request[r] /\ (request[r].pc = "sent" => request[r].waits # {k})
               \/ /\ request[r].pc \in {"list", "find"}
                  /\ request'[r].pc = request[r].pc /\ request'[r].name = request[r].name,
           UNCHANGED <<enabled, serving, routes, missed, changes>>
    PROVE  GatewayShape'
<1>1. conn' \in [Conns -> Connections] /\ conn'[k] = NoConn /\ \A j \in Conns \ {k} : conn'[j] = conn[j]
  BY Types, Records DEF GatewayShape, Closed
<1>2. GatewayTypeOK'
  BY <1>1 DEF GatewayShape, GatewayTypeOK, Objects, Connections, Calls
<1>3. None \notin Conns
  BY GatewayAssumption DEF None
<1>4. ASSUME NEW n \in Names PROVE (ObjectShape(n) /\ OwnConnections(n) /\ RouteLeads(n))'
  <2>1. ObjectShape(n)' /\ RouteLeads(n)'
    BY <1>3, <1>4 DEF GatewayShape, Sound, ObjectShape, RouteLeads
  <2>2. upstream[n].starting # k
    BY DEF GatewayShape, Sound, OwnConnections
  <2>3. CASE upstream[n].client = k
    <3>1. upstream[n].status = "running" /\ upstream[n].starting = None
      BY <1>3, <2>3 DEF GatewayShape, Sound, OwnConnections
    <3> QED
      BY <1>3, <2>1, <2>3, <3>1 DEF OwnConnections
  <2>4. CASE upstream[n].client # k
    <3>1. \A j \in Conns : j = upstream[n].client \/ j = upstream[n].starting => conn'[j] = conn[j]
      BY <1>1, <2>2, <2>4
    <3>2. OwnConnections(n)
      BY DEF GatewayShape, Sound
    <3>3. /\ upstream'[n].version = upstream[n].version /\ upstream'[n].starting = upstream[n].starting
          /\ upstream'[n].client = upstream[n].client /\ upstream'[n].status = upstream[n].status
      BY <2>4
    <3>4. OwnConnections(n)'
      BY <3>1, <3>2, <3>3, OwnUntouched
    <3> QED
      BY <2>1, <3>4
  <2> QED
    BY <2>3, <2>4
<1>5. ASSUME NEW j \in Conns PROVE ConnectionKept(j)'
  <2>1. CASE j # k
    BY <1>1, <2>1 DEF GatewayShape, Sound, ConnectionKept
  <2>2. CASE j = k
    BY <1>1, <2>2 DEF ConnectionKept, NoConn
  <2> QED
    BY <2>1, <2>2
<1>6. ASSUME NEW r \in Requests PROVE CallWaits(r)'
  <2>1. CASE request'[r] = NoRequest
    BY <2>1 DEF CallWaits, NoRequest
  <2>2. CASE request'[r] = request[r] /\ (request[r].pc = "sent" => request[r].waits # {k})
    <3>1. CallWaits(r)
      BY DEF GatewayShape, Sound
    <3>2. ASSUME NEW j \in Conns, request[r].waits = {j}, request[r].pc = "start" PROVE conn'[j] = conn[j]
      <4>1. conn[j].pc \in {"connect", "list"}
        BY <3>1, <3>2 DEF CallWaits
      <4>2. j # k
        BY <4>1
      <4> QED
        BY <1>1, <4>2
    <3>3. ASSUME NEW j \in Conns, request[r].waits = {j}, request[r].pc = "sent", upstream[request[r].name].client = j
          PROVE  upstream'[request[r].name].client = j
      <4>1. request[r].name \in Names /\ j # k
        BY <2>2, <3>1, <3>3 DEF CallWaits
      <4> QED
        BY <3>3, <4>1
    <3> QED
      BY <2>2, <3>1, <3>2, <3>3, WaitsUntouched
  <2>3. CASE /\ request[r].pc \in {"list", "find"}
             /\ request'[r].pc = request[r].pc /\ request'[r].name = request[r].name
    BY <2>3 DEF GatewayShape, Sound, CallWaits
  <2> QED
    BY <2>1, <2>2, <2>3
<1> QED
  BY <1>2, <1>4, <1>5, <1>6 DEF GatewayShape, Sound
-----------------------------------------------------------------------------
(* One lemma per operation that does more than one thing.                         *)

LEMMA TurnOffSound ==
    ASSUME GatewayShape, Stop, enabled' = FALSE, missed' \subseteq Names, Change, UNCHANGED serving
    PROVE  GatewayShape' /\ \A n \in Names : ~upstream'[n].there
<1> DEFINE stopped == {upstream[n].client : n \in Names} \ {None}
<1>1. /\ upstream' = [n \in Names |-> NoUpstream] /\ routes' = [n \in Names |-> None]
      /\ conn' = [k \in Conns |-> IF k \in stopped THEN NoConn ELSE [conn[k] EXCEPT !.kept = FALSE]]
      /\ request' = [r \in Requests |-> IF request[r].pc = "sent" /\ request[r].waits \cap stopped # {}
                                        THEN NoRequest ELSE request[r]]
  BY DEF Stop, Rejected
<1>10. changes' \in 0 .. MaxChanges
  BY GatewayAssumption DEF GatewayShape, GatewayTypeOK, Change
<1>2. conn \in [Conns -> Connections] /\ request \in [Requests -> Calls]
  BY Types DEF GatewayShape
<1>3. None \notin Conns
  BY GatewayAssumption DEF None
<1>4. \A k \in Conns : k \in stopped <=> \E n \in Names : upstream[n].client = k
  BY <1>3
<1> HIDE DEF stopped
<1>5. /\ upstream' \in [Names -> Objects] /\ conn' \in [Conns -> Connections] /\ request' \in [Requests -> Calls]
      /\ routes' \in [Names -> Versions \cup {None}]
  BY <1>1, <1>2, Records DEF Connections
<1>6. GatewayTypeOK'
  BY <1>1, <1>5, <1>10 DEF GatewayShape, GatewayTypeOK, Objects, Connections, Calls
<1>7. \A n \in Names : (ObjectShape(n) /\ OwnConnections(n) /\ RouteLeads(n))'
  BY <1>1, <1>3 DEF NoUpstream, ObjectShape, OwnConnections, RouteLeads
<1>8. ASSUME NEW k \in Conns
      PROVE  /\ ConnectionKept(k)'
             /\ k \notin stopped => conn'[k].pc = conn[k].pc /\ conn'[k].name = conn[k].name
  <2>1. CASE k \in stopped
    BY <1>1, <2>1 DEF ConnectionKept, NoConn
  <2>2. CASE k \notin stopped
    <3>1. conn'[k].pc = conn[k].pc /\ conn'[k].name = conn[k].name /\ conn'[k].kept = FALSE
      BY <1>1, <1>2, <2>2 DEF Connections
    <3> QED
      BY <3>1 DEF GatewayShape, Sound, ConnectionKept
  <2> QED
    BY <2>1, <2>2
<1>9. ASSUME NEW r \in Requests PROVE CallWaits(r)'
  <2>0. CallWaits(r)
    BY DEF GatewayShape, Sound
  <2>1. CASE request[r].pc = "sent"
    <3>1. request'[r] = NoRequest
      BY <1>1, <1>4, <2>0, <2>1 DEF CallWaits
    <3> QED
      BY <3>1 DEF CallWaits, NoRequest
  <2>2. CASE request[r].pc = "start"
    <3>1. request'[r] = request[r]
      BY <1>1, <2>2
    <3>2. PICK k \in Conns : request[r].waits = {k} /\ conn[k].pc \in {"connect", "list"} /\ conn[k].name = request[r].name
      BY <2>0, <2>2 DEF CallWaits
    <3>3. k \notin stopped
      BY <1>4, <3>2 DEF GatewayShape, Sound, OwnConnections
    <3>4. conn'[k].pc \in {"connect", "list"} /\ conn'[k].name = request[r].name
      BY <1>8, <3>2, <3>3
    <3> QED
      BY <2>0, <2>2, <3>1, <3>2, <3>4 DEF CallWaits
  <2>3. CASE request[r].pc \notin {"sent", "start"}
    <3>1. request'[r] = request[r]
      BY <1>1, <2>3
    <3> QED
      BY <2>0, <2>3, <3>1 DEF CallWaits
  <2> QED
    BY <2>1, <2>2, <2>3
<1>11. \A n \in Names : ~upstream'[n].there
  BY <1>1 DEF NoUpstream
<1> QED
  BY <1>6, <1>7, <1>8, <1>9, <1>11 DEF GatewayShape, Sound

(* The tool list of a start that is still wanted.                                 *)
LEMMA StartedSound == ASSUME GatewayShape, NEW k \in Conns, Listed(k), Starting(k) PROVE GatewayShape'
<1> DEFINE n == conn[k].name
<1>1. /\ conn[k].pc = "list" /\ conn[k].kept /\ upstream[n].starting = k /\ n \in Names
      /\ upstream' = [[upstream EXCEPT ![n].tools = conn[k].version]
                          EXCEPT ![n].client = k, ![n].starting = None, ![n].status = "running"]
      /\ conn' = [conn EXCEPT ![k].pc = "open"]
      /\ GoOn(k) /\ UNCHANGED <<enabled, serving, routes, missed, changes>>
  BY DEF Listed, Starting, GatewayShape, Sound, ConnectionKept
<1>2. /\ upstream \in [Names -> Objects] /\ conn \in [Conns -> Connections] /\ None \notin Conns
  BY Types, GatewayAssumption DEF GatewayShape, None
<1> HIDE DEF n
<1>3. /\ upstream'[n].there = upstream[n].there /\ upstream'[n].version = upstream[n].version
      /\ upstream'[n].client = k /\ upstream'[n].starting = None /\ upstream'[n].status = "running"
      /\ \A m \in Names \ {n} : upstream'[m] = upstream[m]
      /\ upstream' \in [Names -> Objects]
  BY <1>1, <1>2 DEF Objects, Connections
<1>4. /\ conn'[k].pc = "open" /\ conn'[k].name = conn[k].name /\ conn'[k].version = conn[k].version
      /\ conn'[k].kept = conn[k].kept
      /\ \A j \in Conns \ {k} : conn'[j] = conn[j]
      /\ conn' \in [Conns -> Connections]
  BY <1>1, <1>2 DEF Connections
<1>5. OwnConnections(n) /\ ObjectShape(n) /\ RouteLeads(n)
  BY <1>1 DEF GatewayShape, Sound
<1>6. upstream[n].client = None /\ upstream[n].there /\ conn[k].name = n /\ conn[k].version = upstream[n].version
  BY <1>1, <1>2, <1>5 DEF OwnConnections, ObjectShape
<1>7. GatewayTypeOK'
  BY <1>1, <1>3, <1>4, GoOnIs DEF GatewayShape, GatewayTypeOK, Objects, Connections, Calls
<1>8. ASSUME NEW m \in Names PROVE (ObjectShape(m) /\ OwnConnections(m) /\ RouteLeads(m))'
  <2>1. CASE m = n
    BY <1>1, <1>2, <1>3, <1>4, <1>5, <1>6, <2>1 DEF ObjectShape, OwnConnections, RouteLeads
  <2>2. CASE m # n
    <3>1. ObjectShape(m) /\ OwnConnections(m) /\ RouteLeads(m) /\ upstream'[m] = upstream[m]
      BY <1>3, <2>2 DEF GatewayShape, Sound
    <3>2. ASSUME NEW j \in Conns, j = upstream[m].client \/ j = upstream[m].starting PROVE conn'[j] = conn[j]
      <4>1. conn[j].name = m
        BY <3>1, <3>2 DEF OwnConnections
      <4> QED
        BY <1>4, <1>6, <2>2, <4>1
    <3>3. OwnConnections(m)'
      BY <3>1, <3>2, OwnUntouched
    <3> QED
      BY <1>1, <3>1, <3>3 DEF ObjectShape, RouteLeads
  <2> QED
    BY <2>1, <2>2
<1>9. ASSUME NEW j \in Conns PROVE ConnectionKept(j)'
  <2>1. ConnectionKept(j) /\ ConnectionKept(k)
    BY DEF GatewayShape, Sound
  <2>2. \A m \in Names : upstream'[m].there = upstream[m].there
    BY <1>3
  <2> QED
    BY <1>1, <1>4, <2>1, <2>2 DEF ConnectionKept
<1>10. ASSUME NEW r \in Requests PROVE CallWaits(r)'
  <2>0. CallWaits(r)
    BY DEF GatewayShape, Sound
  <2>1. CASE /\ request[r].pc = "start" /\ request[r].waits = {k} /\ request'[r].pc = "sent"
             /\ request'[r].name = request[r].name /\ request'[r].waits = {k}
    <3>1. request[r].name = n
      BY <1>6, <2>0, <2>1 DEF CallWaits
    <3> QED
      BY <1>1, <1>3, <2>1, <3>1 DEF CallWaits
  <2>2. CASE request'[r] = request[r] /\ (request[r].pc = "start" => request[r].waits # {k})
    <3>1. ASSUME NEW j \in Conns, request[r].waits = {j}, request[r].pc = "start" PROVE conn'[j] = conn[j]
      BY <1>4, <2>2, <3>1
    <3>2. ASSUME NEW j \in Conns, request[r].waits = {j}, request[r].pc = "sent", upstream[request[r].name].client = j
          PROVE  upstream'[request[r].name].client = j
      <4>1. request[r].name \in Names /\ request[r].name # n
        BY <1>2, <1>6, <2>0, <3>2 DEF CallWaits
      <4> QED
        BY <1>3, <3>2, <4>1
    <3> QED
      BY <2>0, <2>2, <3>1, <3>2, WaitsUntouched
  <2>3. CASE /\ request[r].pc \in {"list", "find"}
             /\ request'[r].pc = request[r].pc /\ request'[r].name = request[r].name
    BY <2>0, <2>3 DEF CallWaits
  <2> QED
    BY <1>1, <2>1, <2>2, <2>3, GoOnIs
<1> QED
  BY <1>7, <1>8, <1>9, <1>10 DEF GatewayShape, Sound

(* A start that was overtaken, or failed.                                         *)
LEMMA GivenUpSound ==
    ASSUME GatewayShape, NEW k \in Conns, (Listed(k) /\ ~Starting(k)) \/ ConnectFails(k) \/ ListFails(k)
    PROVE  GatewayShape'
<1>1. /\ conn[k].pc \in {"connect", "list"} /\ GiveUp(k) /\ UNCHANGED <<enabled, serving, routes, missed, changes>>
      /\ conn' = Closed(conn, {k}) \/ conn' = [conn EXCEPT ![k].pc = "open"]
  BY DEF Listed, ConnectFails, ListFails
<1>2. upstream \in [Names -> Objects] /\ conn \in [Conns -> Connections]
  BY Types DEF GatewayShape
<1>3. /\ conn' \in [Conns -> Connections]
      /\ \A j \in Conns \ {k} : conn'[j] = conn[j]
      /\ conn'[k] = NoConn \/ (conn'[k].pc = "open" /\ conn'[k].name = conn[k].name /\ conn'[k].kept = conn[k].kept)
  <2>1. CASE conn' = Closed(conn, {k})
    <3>1. conn' \in [Conns -> Connections]
      BY <1>2, <2>1, Records DEF Closed
    <3>2. conn'[k] = NoConn /\ \A j \in Conns \ {k} : conn'[j] = conn[j]
      BY <2>1 DEF Closed
    <3> QED
      BY <3>1, <3>2
  <2>2. CASE conn' = [conn EXCEPT ![k].pc = "open"]
    BY <1>2, <2>2 DEF Connections
  <2> QED
    BY <1>1, <2>1, <2>2
<1>4. \A n \in Names : upstream[n].starting = k => Starting(k) /\ conn[k].name = n
  BY DEF GatewayShape, Sound, OwnConnections, Starting
<1>5. ConnectionKept(k) /\ conn[k].name \in Names
  BY <1>1 DEF GatewayShape, Sound, ConnectionKept
<1> DEFINE Ends == \A n \in Names :
               /\ upstream'[n].there = upstream[n].there /\ upstream'[n].version = upstream[n].version
               /\ upstream'[n].client = upstream[n].client
               /\ ~upstream[n].there => upstream'[n].tools = upstream[n].tools
               /\ IF upstream[n].starting = k THEN upstream'[n].starting = None /\ upstream'[n].status = "failed"
                  ELSE upstream'[n].starting = upstream[n].starting /\ upstream'[n].status = upstream[n].status
<1>6. CASE Listed(k) /\ ~Starting(k)
  <2>1. upstream' = IF conn[k].kept THEN [upstream EXCEPT ![conn[k].name].tools = conn[k].version] ELSE upstream
    BY <1>6 DEF Listed
  <2>2. conn[k].version \in Versions \cup {None}
    BY <1>2 DEF Connections
  <2>3. upstream' \in [Names -> Objects]
    <3>1. [upstream[conn[k].name] EXCEPT !.tools = conn[k].version] \in Objects
      BY <1>2, <1>5, <2>2 DEF Objects
    <3> QED
      BY <1>2, <2>1, <3>1
  <2>4. Ends
    BY <1>2, <1>4, <1>5, <1>6, <2>1 DEF ConnectionKept, Objects
  <2> QED
    BY <1>1, <1>3, <2>3, <2>4, StartGivenUp
<1>7. CASE ConnectFails(k) \/ ListFails(k)
  <2>1. upstream' = IF Starting(k)
                    THEN [upstream EXCEPT ![conn[k].name].starting = None, ![conn[k].name].status = "failed"]
                    ELSE upstream
    BY <1>7 DEF ConnectFails, ListFails, FailedStart
  <2>2. upstream' \in [Names -> Objects]
    BY <1>2, <2>1 DEF Objects
  <2>3. Ends
    BY <1>2, <1>4, <2>1 DEF Starting, Objects
  <2> QED
    BY <1>1, <1>3, <2>2, <2>3, StartGivenUp
<1> QED
  BY <1>6, <1>7

LEMMA LostSound == ASSUME GatewayShape, NEW k \in Conns, ConnectionLost(k) PROVE GatewayShape'
<1> DEFINE n == conn[k].name
<1>1. /\ conn[k].pc = "open" /\ conn' = Closed(conn, {k}) /\ GiveUp(k) /\ UNCHANGED <<enabled, serving, routes, missed, changes>>
      /\ upstream' = IF conn[k].kept /\ upstream[n].client = k
                     THEN [upstream EXCEPT ![n].client = None, ![n].status = IF @ = "running" THEN "idle" ELSE @]
                     ELSE upstream
  BY DEF ConnectionLost
<1>2. upstream \in [Names -> Objects]
  BY Types DEF GatewayShape
<1>3. \A m \in Names : upstream[m].client = k => conn[k].kept /\ n = m /\ upstream[m].status = "running"
  BY GatewayAssumption DEF GatewayShape, Sound, OwnConnections, None
<1> HIDE DEF n
<1>4. upstream' \in [Names -> Objects]
  <2>1. CASE upstream' = upstream
    BY <1>2, <2>1
  <2>2. CASE /\ upstream[n].client = k /\ conn[k].kept
             /\ upstream' = [upstream EXCEPT ![n].client = None,
                                            ![n].status = IF @ = "running" THEN "idle" ELSE @]
    <3>1. n \in Names
      BY <2>2 DEF GatewayShape, Sound, ConnectionKept, n
    <3>2. [upstream[n] EXCEPT !.client = None,
                             !.status = IF upstream[n].status = "running" THEN "idle" ELSE upstream[n].status] \in Objects
      BY <1>2, <3>1 DEF Objects
    <3>3. upstream' = [upstream EXCEPT ![n] =
             [upstream[n] EXCEPT !.client = None,
                                 !.status = IF upstream[n].status = "running" THEN "idle" ELSE upstream[n].status]]
      BY <1>2, <2>2, <3>1 DEF Objects
    <3> QED
      BY <1>2, <3>2, <3>3
  <2> QED
    BY <1>1, <2>1, <2>2
<1>5. \A m \in Names :
        /\ upstream'[m].there = upstream[m].there /\ upstream'[m].version = upstream[m].version
        /\ upstream'[m].starting = upstream[m].starting /\ upstream'[m].tools = upstream[m].tools
        /\ IF upstream[m].client = k THEN upstream'[m].client = None /\ upstream'[m].status = "idle"
           ELSE upstream'[m].client = upstream[m].client /\ upstream'[m].status = upstream[m].status
  BY <1>1, <1>2, <1>3 DEF Objects
<1>6. /\ request' \in [Requests -> Calls]
      /\ \A r \in Requests :
           \/ request'[r] = NoRequest
           \/ request'[r] = request[r] /\ (request[r].pc = "sent" => request[r].waits # {k})
           \/ /\ request[r].pc \in {"list", "find"}
              /\ request'[r].pc = request[r].pc /\ request'[r].name = request[r].name
  BY <1>1, GiveUpIs
<1> QED
  BY <1>1, <1>4, <1>5, <1>6, ClientGone

LEMMA IdleSound == ASSUME GatewayShape, NEW n \in Names, IdleStop(n) PROVE GatewayShape'
<1> DEFINE k == upstream[n].client
<1>1. /\ k # None /\ upstream' = [upstream EXCEPT ![n] = StoppedObject(@)]
      /\ conn' = Closed(conn, {k}) /\ request' = Rejected(request, {k}) /\ UNCHANGED <<enabled, serving, routes, missed, changes>>
  BY DEF IdleStop
<1>2. upstream \in [Names -> Objects] /\ request \in [Requests -> Calls]
  BY Types DEF GatewayShape
<1>3. k \in Conns
  BY <1>1, <1>2 DEF Objects
<1>4. conn[k].pc = "open" /\ \A m \in Names : upstream[m].client = k => m = n
  BY <1>3 DEF GatewayShape, Sound, OwnConnections
<1>5. upstream[n].status = "running" /\ upstream[n].starting = None
  BY <1>1 DEF GatewayShape, Sound, OwnConnections
<1>6. /\ upstream' \in [Names -> Objects]
      /\ upstream'[n].there = upstream[n].there /\ upstream'[n].version = upstream[n].version
      /\ upstream'[n].starting = upstream[n].starting /\ upstream'[n].tools = upstream[n].tools
      /\ upstream'[n].client = None /\ upstream'[n].status = "idle"
      /\ \A m \in Names \ {n} : upstream'[m] = upstream[m]
  BY <1>1, <1>2, <1>5 DEF StoppedObject, Objects
<1> HIDE DEF k
<1>7. \A m \in Names :
        /\ upstream'[m].there = upstream[m].there /\ upstream'[m].version = upstream[m].version
        /\ upstream'[m].starting = upstream[m].starting /\ upstream'[m].tools = upstream[m].tools
        /\ IF upstream[m].client = k THEN upstream'[m].client = None /\ upstream'[m].status = "idle"
           ELSE upstream'[m].client = upstream[m].client /\ upstream'[m].status = upstream[m].status
  BY <1>4, <1>6 DEF k
<1>8. /\ request' \in [Requests -> Calls]
      /\ \A r \in Requests :
           \/ request'[r] = NoRequest
           \/ request'[r] = request[r] /\ (request[r].pc = "sent" => request[r].waits # {k})
  BY <1>1, <1>2, Records DEF Rejected
<1> QED
  BY <1>1, <1>3, <1>4, <1>6, <1>7, <1>8, ClientGone

LEMMA ToolsSound == ASSUME GatewayShape, NEW k \in Conns, ToolsChanged(k) PROVE GatewayShape'
<1>1. /\ upstream' = IF conn[k].kept THEN [upstream EXCEPT ![conn[k].name].tools = conn[k].version] ELSE upstream
      /\ routes' = [n \in Names |-> upstream'[n].tools]
      /\ UNCHANGED <<enabled, serving, conn, request, missed, changes>>
  BY DEF ToolsChanged, Routes
<1>2. upstream \in [Names -> Objects] /\ conn[k].version \in Versions \cup {None}
  BY Types DEF GatewayShape, Connections
<1>3. conn[k].kept => upstream[conn[k].name].there
  BY DEF GatewayShape, Sound, ConnectionKept
<1>4. upstream' \in [Names -> Objects]
  <2>1. conn[k].name \in Names
    BY DEF ToolsChanged, GatewayShape, Sound, ConnectionKept
  <2>2. [upstream[conn[k].name] EXCEPT !.tools = conn[k].version] \in Objects
    BY <1>2, <2>1 DEF Objects
  <2> QED
    BY <1>1, <1>2, <2>2
<1>5. \A n \in Names :
        /\ upstream'[n].there = upstream[n].there /\ upstream'[n].version = upstream[n].version
        /\ upstream'[n].client = upstream[n].client /\ upstream'[n].starting = upstream[n].starting
        /\ upstream'[n].status = upstream[n].status
        /\ ~upstream[n].there => upstream'[n].tools = upstream[n].tools
  BY <1>1, <1>2, <1>3 DEF Objects
<1>6. routes' \in [Names -> Versions \cup {None}]
  BY <1>1, <1>4 DEF Objects
<1>7. GatewayTypeOK'
  BY <1>1, <1>4, <1>6 DEF GatewayShape, GatewayTypeOK, Objects, Connections, Calls
<1>8. ASSUME NEW n \in Names PROVE (ObjectShape(n) /\ OwnConnections(n) /\ RouteLeads(n))'
  BY <1>1, <1>5 DEF GatewayShape, Sound, ObjectShape, OwnConnections, RouteLeads
<1>9. \A j \in Conns : ConnectionKept(j)'
  BY <1>1, <1>5 DEF GatewayShape, Sound, ConnectionKept
<1>10. \A r \in Requests : CallWaits(r)'
  BY <1>1, <1>5 DEF GatewayShape, Sound, CallWaits
<1> QED
  BY <1>7, <1>8, <1>9, <1>10 DEF GatewayShape, Sound

LEMMA ConnectedSound == ASSUME GatewayShape, NEW k \in Conns, ClientConnected(k) PROVE GatewayShape'
<1>1. conn \in [Conns -> Connections]
  BY Types DEF GatewayShape
<1>2. /\ conn[k].pc = "connect" /\ conn'[k].pc = "list" /\ conn'[k].name = conn[k].name
      /\ conn'[k].version = conn[k].version /\ conn'[k].kept = conn[k].kept
      /\ \A j \in Conns \ {k} : conn'[j] = conn[j]
      /\ conn' \in [Conns -> Connections]
      /\ UNCHANGED <<enabled, serving, upstream, routes, request, missed, changes>>
  BY <1>1 DEF ClientConnected, Connections
<1>3. GatewayTypeOK'
  BY <1>2 DEF GatewayShape, GatewayTypeOK, Connections
<1>4. ASSUME NEW n \in Names PROVE (ObjectShape(n) /\ OwnConnections(n) /\ RouteLeads(n))'
  <2>1. ObjectShape(n)' /\ RouteLeads(n)'
    BY <1>2 DEF GatewayShape, Sound, ObjectShape, RouteLeads
  <2>2. OwnConnections(n)'
    BY <1>2 DEF GatewayShape, Sound, OwnConnections
  <2> QED
    BY <2>1, <2>2
<1>5. \A j \in Conns : ConnectionKept(j)'
  BY <1>2 DEF GatewayShape, Sound, ConnectionKept
<1>6. \A r \in Requests : CallWaits(r)'
  BY <1>2 DEF GatewayShape, Sound, CallWaits
<1> QED
  BY <1>3, <1>4, <1>5, <1>6 DEF GatewayShape, Sound

(* A request that is over, with the routes as they were or read anew.             *)
LEMMA AnsweredSound ==
    ASSUME GatewayShape, NEW r \in Requests, request' = [request EXCEPT ![r] = NoRequest],
           routes' = routes \/ routes' = Routes(upstream),
           UNCHANGED <<enabled, serving, upstream, conn, missed, changes>>
    PROVE  GatewayShape'
<1>1. upstream \in [Names -> Objects] /\ request \in [Requests -> Calls] /\ routes \in [Names -> Versions \cup {None}]
  BY Types DEF GatewayShape
<1>2. routes' \in [Names -> Versions \cup {None}]
  BY <1>1 DEF Routes, Objects
<1>7. request' \in [Requests -> Calls]
  BY <1>1, Records
<1>3. GatewayTypeOK'
  BY <1>2, <1>7 DEF GatewayShape, GatewayTypeOK, Calls
<1>4. \A n \in Names : (ObjectShape(n) /\ OwnConnections(n) /\ RouteLeads(n))'
  BY <1>1 DEF Routes, GatewayShape, Sound, ObjectShape, OwnConnections, RouteLeads
<1>5. \A k \in Conns : ConnectionKept(k)'
  BY DEF GatewayShape, Sound, ConnectionKept
<1>6. \A q \in Requests : CallWaits(q)'
  BY <1>1 DEF GatewayShape, Sound, CallWaits, NoRequest
<1> QED
  BY <1>3, <1>4, <1>5, <1>6 DEF GatewayShape, Sound

(* refresh() after a change of the library or of the preference.                  *)
LEMMA RefreshSound ==
    ASSUME GatewayShape, enabled' \in BOOLEAN, serving' \in [Names -> Versions \cup {None}],
           Reconcile(Want(enabled', serving')), Told(Names), Change
    PROVE  GatewayIInv'
<1> DEFINE w == Want(enabled', serving')
           g == Synced(w)
<1>1. w \in [Names -> Versions \cup {None}] /\ \A n \in Names : w[n] # None => enabled' /\ w[n] = serving'[n]
  BY DEF Want
<1>2. upstream' = g.upstream /\ routes' = g.routes /\ conn' = g.conn /\ request' = g.request
  BY DEF Reconcile
<1> HIDE DEF w
<1>3. /\ Good(g)
      /\ \A n \in Names : g.upstream[n].there => g.upstream[n].version = w[n] /\ w[n] # None
  BY <1>1, SyncedGood
<1> HIDE DEF g
<1>4. changes' \in 0 .. MaxChanges
  BY GatewayAssumption DEF GatewayShape, GatewayTypeOK, Change
<1>5. missed' \subseteq Names
  BY Types DEF GatewayShape, Told
<1>6. GatewayTypeOK'
  BY <1>2, <1>3, <1>4, <1>5 DEF Good, GatewayTypeOK, Objects, Connections, Calls
<1>7. Sound'
  BY <1>2, <1>3 DEF Good, Sound, ObjectShape, ObjectIn, OwnConnections, OwnIn, RouteLeads, LeadsIn,
     ConnectionKept, KeptIn, CallWaits, WaitsIn
<1>8. InStep'
  BY <1>1, <1>2, <1>3 DEF InStep
<1> QED
  BY <1>6, <1>7, <1>8 DEF GatewayIInv, GatewayShape

(* A write that threw: what is missed may be out of step.                         *)
LEMMA UntoldSound ==
    ASSUME GatewayIInv, NEW S \in SUBSET Names, Untold(S), Change,
           enabled' \in BOOLEAN, serving' \in [Names -> Versions \cup {None}],
           \A n \in Names \ S : enabled' = enabled /\ serving'[n] = serving[n]
    PROVE  GatewayIInv'
<1>1. missed' = missed \cup S /\ UNCHANGED <<upstream, routes, conn, request>>
  BY DEF Untold
<1>2. changes' \in 0 .. MaxChanges
  BY GatewayAssumption DEF GatewayIInv, GatewayShape, GatewayTypeOK, Change
<1>3. missed' \subseteq Names
  BY <1>1, Types DEF GatewayIInv, GatewayShape
<1>4. GatewayTypeOK'
  BY <1>1, <1>2, <1>3 DEF GatewayIInv, GatewayShape, GatewayTypeOK
<1>5. Sound'
  BY <1>1 DEF GatewayIInv, GatewayShape, Sound, ObjectShape, OwnConnections, RouteLeads, ConnectionKept, CallWaits
<1>6. InStep'
  BY <1>1 DEF GatewayIInv, InStep
<1> QED
  BY <1>4, <1>5, <1>6 DEF GatewayIInv, GatewayShape

(* Whatever the starts, the clients and the idle sweep do, an upstream stays of     *)
(* the version it is of.                                                           *)
LEMMA StepsLeaveVersions ==
    ASSUME GatewayIInv, NEW m \in Names,
           \/ \E k \in Conns : StartStep(k) \/ ToolsChanged(k) \/ ConnectionLost(k)
           \/ \E n \in Names : IdleStop(n)
    PROVE  /\ UNCHANGED <<enabled, serving, missed>>
           /\ upstream'[m].there = upstream[m].there /\ upstream'[m].version = upstream[m].version
<1>1. upstream \in [Names -> Objects]
  BY Types DEF GatewayIInv, GatewayShape
<1>3. ASSUME NEW k \in Conns, ClientConnected(k)
      PROVE  /\ UNCHANGED <<enabled, serving, missed>>
             /\ upstream'[m].there = upstream[m].there /\ upstream'[m].version = upstream[m].version
  BY <1>3 DEF ClientConnected
<1>4. ASSUME NEW k \in Conns, Listed(k)
      PROVE  /\ UNCHANGED <<enabled, serving, missed>>
             /\ upstream'[m].there = upstream[m].there /\ upstream'[m].version = upstream[m].version
  <2> DEFINE n == conn[k].name
             listing == IF conn[k].kept THEN [upstream EXCEPT ![n].tools = conn[k].version] ELSE upstream
  <2>1. /\ UNCHANGED <<enabled, serving, missed>>
        /\ \/ upstream' = listing
           \/ upstream' = [listing EXCEPT ![n].client = k, ![n].starting = None, ![n].status = "running"]
    BY <1>4 DEF Listed
  <2> HIDE DEF n
  <2>2. listing[m].there = upstream[m].there /\ listing[m].version = upstream[m].version
    BY <1>1 DEF Objects
  <2> QED
    BY <1>1, <2>1, <2>2 DEF Objects
<1>5. ASSUME NEW k \in Conns, ConnectFails(k) \/ ListFails(k)
      PROVE  /\ UNCHANGED <<enabled, serving, missed>>
             /\ upstream'[m].there = upstream[m].there /\ upstream'[m].version = upstream[m].version
  BY <1>1, <1>5 DEF ConnectFails, ListFails, FailedStart, Objects
<1>6. ASSUME NEW k \in Conns, ToolsChanged(k)
      PROVE  /\ UNCHANGED <<enabled, serving, missed>>
             /\ upstream'[m].there = upstream[m].there /\ upstream'[m].version = upstream[m].version
  BY <1>1, <1>6 DEF ToolsChanged, Objects
<1>7. ASSUME NEW k \in Conns, ConnectionLost(k)
      PROVE  /\ UNCHANGED <<enabled, serving, missed>>
             /\ upstream'[m].there = upstream[m].there /\ upstream'[m].version = upstream[m].version
  BY <1>1, <1>7 DEF ConnectionLost, Objects
<1>8. ASSUME NEW n \in Names, IdleStop(n)
      PROVE  /\ UNCHANGED <<enabled, serving, missed>>
             /\ upstream'[m].there = upstream[m].there /\ upstream'[m].version = upstream[m].version
  <2>1. UNCHANGED <<enabled, serving, missed>> /\ upstream' = [upstream EXCEPT ![n] = StoppedObject(@)]
    BY <1>8 DEF IdleStop
  <2>2. /\ StoppedObject(upstream[n]).there = upstream[n].there
        /\ StoppedObject(upstream[n]).version = upstream[n].version
    BY <1>1 DEF StoppedObject, Objects
  <2> QED
    BY <1>1, <2>1, <2>2
<1>9. CASE \E k \in Conns : StartStep(k) \/ ToolsChanged(k) \/ ConnectionLost(k)
  <2> DEFINE Left == /\ UNCHANGED <<enabled, serving, missed>>
                     /\ upstream'[m].there = upstream[m].there /\ upstream'[m].version = upstream[m].version
  <2>1. \A k \in Conns : ClientConnected(k) \/ Listed(k) \/ ConnectFails(k) \/ ListFails(k)
                           \/ ToolsChanged(k) \/ ConnectionLost(k) => Left
    BY <1>3, <1>4, <1>5, <1>6, <1>7
  <2> HIDE DEF Left
  <2>2. PICK k \in Conns : ClientConnected(k) \/ Listed(k) \/ ConnectFails(k) \/ ListFails(k)
                            \/ ToolsChanged(k) \/ ConnectionLost(k)
    BY <1>9 DEF StartStep
  <2>3. Left
    BY <2>1, <2>2
  <2> QED
    BY <2>3 DEF Left
<1> QED
  BY <1>8, <1>9

LEMMA StepsKeepVersions ==
    ASSUME GatewayIInv,
           \/ \E k \in Conns : StartStep(k) \/ ToolsChanged(k) \/ ConnectionLost(k)
           \/ \E n \in Names : IdleStop(n)
    PROVE  InStep'
  BY StepsLeaveVersions DEF GatewayIInv, InStep

(* What a request finds is what is served now.                                     *)
LEMMA RequestFindsServed ==
    ASSUME GatewayShape, NEW g, g = RequestFinds
    PROVE  /\ Good(g)
           /\ \A n \in Names : g.upstream[n].there => enabled /\ g.upstream[n].version = serving[n] /\ serving[n] # None
<1> DEFINE w == Want(enabled, serving)
<1>1. w \in [Names -> Versions \cup {None}] /\ \A n \in Names : w[n] # None => enabled /\ w[n] = serving[n]
  BY Types DEF Want, GatewayShape
<1>2. g = Synced(w)
  BY DEF RequestFinds
<1> HIDE DEF w
<1>3. /\ Good(g)
      /\ \A n \in Names : g.upstream[n].there => g.upstream[n].version = w[n] /\ w[n] # None
  BY <1>1, <1>2, SyncedGood
<1> QED
  BY <1>1, <1>3

-----------------------------------------------------------------------------
LEMMA GatewayStepIInv == GatewayIInv /\ [GatewayNext]_gatewayVars => GatewayIInv'
<1> SUFFICES ASSUME GatewayIInv, [GatewayNext]_gatewayVars PROVE GatewayIInv'
  OBVIOUS
<1>0. /\ enabled \in BOOLEAN /\ serving \in [Names -> Versions \cup {None}]
      /\ routes \in [Names -> Versions \cup {None}] /\ missed \subseteq Names /\ GatewayTypeOK /\ GatewayShape
  BY DEF GatewayIInv, GatewayShape, GatewayTypeOK
<1>1. ASSUME NEW n \in Names, NEW v \in Versions \cup {None}, ChangeLibrary(n, v) PROVE GatewayIInv'
  <2>1. /\ Change /\ enabled' = enabled /\ serving' = [serving EXCEPT ![n] = v]
        /\ \/ Reconcile(Want(enabled', serving')) /\ Told(Names)
           \/ Untold({n})
    BY <1>1 DEF ChangeLibrary
  <2>2. serving' \in [Names -> Versions \cup {None}] /\ \A m \in Names \ {n} : serving'[m] = serving[m]
    BY <1>0, <2>1
  <2> QED
    BY <1>0, <2>1, <2>2, RefreshSound, UntoldSound
<1>2. CASE TurnOn
  <2>1. /\ Change /\ enabled' = TRUE /\ serving' = serving
        /\ \/ Reconcile(Want(enabled', serving')) /\ Told(Names)
           \/ Untold(Names)
    BY <1>2 DEF TurnOn
  <2> QED
    BY <1>0, <2>1, RefreshSound, UntoldSound
<1>3. CASE TurnOff
  <2>1. Change /\ enabled' = FALSE /\ serving' = serving
    BY <1>3 DEF TurnOff
  <2>2. CASE Stop /\ Told(Names)
    <3>1. missed' \subseteq Names
      BY <1>0, <2>2 DEF Told
    <3>2. GatewayShape' /\ \A n \in Names : ~upstream'[n].there
      BY <1>0, <2>1, <2>2, <3>1, TurnOffSound
    <3> QED
      BY <3>2 DEF GatewayIInv, InStep
  <2>3. CASE Untold(Names)
    BY <1>0, <2>1, <2>3, UntoldSound
  <2> QED
    BY <1>3, <2>2, <2>3 DEF TurnOff
<1>4. ASSUME NEW k \in Conns, StartStep(k) PROVE GatewayIInv'
  <2>1. GatewayShape'
    BY <1>0, <1>4, ConnectedSound, StartedSound, GivenUpSound DEF StartStep
  <2> QED
    BY <1>4, <2>1, StepsKeepVersions DEF GatewayIInv
<1>5. ASSUME NEW k \in Conns, ToolsChanged(k) \/ ConnectionLost(k) PROVE GatewayIInv'
  <2>1. GatewayShape'
    BY <1>0, <1>5, ToolsSound, LostSound
  <2> QED
    BY <1>5, <2>1, StepsKeepVersions DEF GatewayIInv
<1>6. ASSUME NEW n \in Names, IdleStop(n) PROVE GatewayIInv'
  <2>1. GatewayShape'
    BY <1>0, <1>6, IdleSound
  <2> QED
    BY <1>6, <2>1, StepsKeepVersions DEF GatewayIInv
<1>7. ASSUME NEW r \in Requests, ListTools(r) PROVE GatewayIInv'
  <2> DEFINE g == RequestFinds
  <2>1. /\ Asks(g, r, "list", None, None) /\ routes' = g.routes /\ Told(Names) /\ UNCHANGED <<enabled, serving, changes>>
    BY <1>7 DEF ListTools
  <2>2. /\ Good(g)
        /\ \A n \in Names : g.upstream[n].there => enabled /\ g.upstream[n].version = serving[n] /\ serving[n] # None
    BY <1>0, RequestFindsServed
  <2> HIDE DEF g
  <2>3. missed' \subseteq Names
    BY <1>0, <2>1 DEF Told
  <2>4. /\ GatewayShape'
        /\ \A m \in Names : upstream'[m].there = g.upstream[m].there /\ upstream'[m].version = g.upstream[m].version
    BY <1>0, <2>1, <2>2, <2>3, AsksSound
  <2> QED
    BY <2>1, <2>2, <2>4 DEF GatewayIInv, InStep
<1>8. ASSUME NEW r \in Requests, Answer(r) PROVE GatewayIInv'
  <2>1. CASE ListAnswered(r) \/ CallAnswered(r)
    <3>1. GatewayShape' /\ UNCHANGED <<enabled, serving, missed, upstream>>
      BY <1>0, <2>1, AnsweredSound DEF ListAnswered, CallAnswered
    <3> QED
      BY <3>1 DEF GatewayIInv, InStep
  <2>2. CASE Found(r)
    <3> DEFINE q == request[r]
    <3>1. q.pc = "find" /\ routes' = Routes(upstream) /\ UNCHANGED <<enabled, serving, missed, changes>>
      BY <2>2 DEF Found
    <3>2. q.name \in Names /\ q.tools \in Versions \cup {None}
      BY <3>1, Types DEF GatewayIInv, GatewayShape, Sound, CallWaits, Calls
    <3>3. CASE upstream[q.name].there /\ upstream[q.name].tools = q.tools /\ CallOn(Now, r, q.name, q.tools)
      <4> DEFINE g == Now
      <4>1. g.upstream = upstream /\ Good(g)
        BY <1>0, NowGood DEF Now
      <4>2. CallOn(g, r, q.name, q.tools)
        BY <3>3
      <4> HIDE DEF g
      <4>3. /\ GatewayShape'
            /\ \A m \in Names : upstream'[m].there = g.upstream[m].there /\ upstream'[m].version = g.upstream[m].version
        BY <1>0, <3>1, <3>2, <3>3, <4>1, <4>2, CallOnSound
      <4> QED
        BY <3>1, <4>1, <4>3 DEF GatewayIInv, InStep
    <3>4. CASE request' = [request EXCEPT ![r] = NoRequest] /\ UNCHANGED <<upstream, conn>>
      <4>1. GatewayShape'
        BY <1>0, <3>1, <3>4, AnsweredSound
      <4> QED
        BY <3>1, <3>4, <4>1 DEF GatewayIInv, InStep
    <3> QED
      BY <2>2, <3>3, <3>4 DEF Found
  <2> QED
    BY <1>8, <2>1, <2>2 DEF Answer
<1>9. ASSUME NEW r \in Requests, NEW n \in Names, NEW t \in Versions, CallTool(r, n, t) PROVE GatewayIInv'
  <2> DEFINE g == RequestFinds
  <2>1. /\ IF g.routes[n] = t THEN CallOn(g, r, n, t) ELSE Asks(g, r, "find", n, t)
        /\ routes' = g.routes /\ Told(Names) /\ UNCHANGED <<enabled, serving, changes>>
    BY <1>9 DEF CallTool
  <2>2. /\ Good(g)
        /\ \A m \in Names : g.upstream[m].there => enabled /\ g.upstream[m].version = serving[m] /\ serving[m] # None
    BY <1>0, RequestFindsServed
  <2> HIDE DEF g
  <2>3. missed' \subseteq Names
    BY <1>0, <2>1 DEF Told
  <2>4. CASE g.routes[n] = t
    <3>1. t # None
      BY GatewayAssumption DEF None
    <3>2. g.upstream[n].there
      BY <2>2, <2>4, <3>1 DEF Good, LeadsIn
    <3>3. /\ GatewayShape'
          /\ \A m \in Names : upstream'[m].there = g.upstream[m].there /\ upstream'[m].version = g.upstream[m].version
      BY <1>0, <2>1, <2>2, <2>3, <2>4, <3>2, CallOnSound
    <3> QED
      BY <2>1, <2>2, <3>3 DEF GatewayIInv, InStep
  <2>5. CASE g.routes[n] # t
    <3>1. /\ GatewayShape'
          /\ \A m \in Names : upstream'[m].there = g.upstream[m].there /\ upstream'[m].version = g.upstream[m].version
      BY <1>0, <2>1, <2>2, <2>3, <2>5, AsksSound
    <3> QED
      BY <2>1, <2>2, <3>1 DEF GatewayIInv, InStep
  <2> QED
    BY <2>4, <2>5
<1>10. CASE UNCHANGED gatewayVars
  BY <1>10 DEF gatewayVars, GatewayIInv, GatewayShape, GatewayTypeOK, Sound, InStep, ObjectShape, OwnConnections, RouteLeads, ConnectionKept, CallWaits
<1> QED
  BY <1>1, <1>2, <1>3, <1>4, <1>5, <1>6, <1>7, <1>8, <1>9, <1>10 DEF GatewayNext

LEMMA GatewayInvariance == GatewaySpec => []GatewayIInv
  BY GatewayInitIInv, GatewayStepIInv, PTL DEF GatewaySpec

-----------------------------------------------------------------------------
(* The upstreams, connections and requests of the gateway keep their types        *)
(* (mcpGateway.ts:120-330).                                                       *)
THEOREM GatewayTypeCorrect == GatewaySpec => []GatewayTypeOK
<1>1. GatewayIInv => GatewayTypeOK
  BY DEF GatewayIInv, GatewayShape
<1> QED
  BY <1>1, GatewayInvariance, PTL

(* Whatever starts, stops, edits and losses overlap, and whichever writes throw: a *)
(* call is with the client of the version that is served, an upstream's client and *)
(* its status are its own, and a route leads to a server that is served; but for    *)
(* the entries whose change no request has come after yet (mcpGateway.ts:159,       *)
(* mcpStore.ts:283).                                                               *)
THEOREM GatewayIsSound == GatewaySpec => []UpstreamsSound
<1> USE DEF GatewayIInv, GatewayShape, Sound
<1>1. GatewayIInv => CallsServedVersion
  <2> SUFFICES ASSUME GatewayIInv, NEW r \in Requests, request[r].pc = "sent"
               PROVE  \E k \in request[r].waits :
                        /\ upstream[request[r].name].client = k
                        /\ request[r].name \notin missed => enabled /\ conn[k].version = serving[request[r].name]
    BY DEF CallsServedVersion
  <2>1. PICK k \in Conns : request[r].waits = {k} /\ upstream[request[r].name].client = k
    BY DEF CallWaits
  <2>2. request[r].name \in Names /\ k # None
    BY GatewayAssumption DEF CallWaits, None
  <2>3. upstream[request[r].name].there /\ conn[k].version = upstream[request[r].name].version
    BY <2>1, <2>2 DEF ObjectShape, OwnConnections
  <2> QED
    BY <2>1, <2>2, <2>3 DEF InStep
<1>2. GatewayIInv => StatusTells
  <2> SUFFICES ASSUME GatewayIInv, NEW n \in Names
               PROVE  /\ upstream[n].client # None =>
                            /\ conn[upstream[n].client].pc = "open" /\ conn[upstream[n].client].name = n
                            /\ conn[upstream[n].client].version = upstream[n].version
                      /\ upstream[n].starting # None =>
                            conn[upstream[n].starting].pc \in {"connect", "list"} /\ conn[upstream[n].starting].kept
                      /\ upstream[n].status = "running" <=> upstream[n].client # None
                      /\ upstream[n].status = "starting" <=> upstream[n].starting # None
    BY DEF StatusTells
  <2>1. upstream[n].client \in Conns \cup {None} /\ upstream[n].starting \in Conns \cup {None}
    BY Types DEF Objects
  <2>2. OwnConnections(n)
    OBVIOUS
  <2> QED
    BY <2>1, <2>2 DEF OwnConnections
<1>3. GatewayIInv => RoutesLead
  BY DEF RoutesLead, RouteLeads, InStep
<1>4. GatewayIInv => UpstreamsSound
  BY <1>1, <1>2, <1>3 DEF UpstreamsSound
<1> QED
  BY <1>4, GatewayInvariance, PTL
=============================================================================
