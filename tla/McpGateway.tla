----------------------------- MODULE McpGateway ------------------------------
(* The MCP gateway (mcp/mcpGateway.ts): AiOpt runs the library servers the user    *)
(* confirmed for it and serves their tools to the agents behind one endpoint. A    *)
(* server is started by the first request that needs it, restarted when its        *)
(* entry in the library changes, and stopped when it is idle, removed, or the      *)
(* gateway is turned off.                                                          *)
(*                                                                                *)
(* A connection is one Client with the process or the remote server behind it. It *)
(* is made by a start, which awaits two answers; the upstream object the start    *)
(* was for may be stopped, changed or dropped meanwhile. An entry of the library  *)
(* is the version of what is to be run; a tool list is known by the version of    *)
(* the server it came from.                                                       *)
EXTENDS Integers, FiniteSets

CONSTANTS
    Names,        \* library servers
    Versions,     \* what an entry can say: positive numbers
    Conns,        \* connections there can be at once: numbers from 1
    Requests,     \* tools/list and tools/call requests in flight at once
    MaxChanges,   \* bound: changes of the library and of the preference
    MaxUnclosed   \* bound: connections left open without being anybody's client

None == 0

ASSUME GatewayAssumption ==
    /\ Versions \subseteq Nat \ {None}
    /\ Conns \subseteq Nat \ {None}
    /\ MaxChanges \in Nat
    /\ MaxUnclosed \in Nat

VARIABLES
    enabled,      \* the mcpGateway preference
    serving,       \* the library: the version confirmed for the gateway, or None
    upstream,     \* `upstreams'
    routes,       \* `routes': of which tool list a server's tools are
    conn,         \* the connections
    request,      \* what each request awaits
    missed,       \* history: servers whose entry changed unseen by the gateway, until the next request
    changes

gatewayVars == <<enabled, serving, upstream, routes, conn, request, missed, changes>>

NoUpstream == [there |-> FALSE, version |-> None, client |-> None, starting |-> None, status |-> "idle", tools |-> None]
NewUpstream(v) == [NoUpstream EXCEPT !.there = TRUE, !.version = v]
NoConn == [pc |-> "none", name |-> None, version |-> None, kept |-> FALSE]
NoRequest == [pc |-> "none", name |-> None, tools |-> None, waits |-> {}]

GatewayTypeOK ==
    /\ enabled \in BOOLEAN
    /\ serving \in [Names -> Versions \cup {None}]
    /\ upstream \in [Names -> [there : BOOLEAN, version : Versions \cup {None}, client : Conns \cup {None},
                               starting : Conns \cup {None}, status : {"idle", "starting", "running", "failed"},
                               tools : Versions \cup {None}]]
    /\ routes \in [Names -> Versions \cup {None}]
    /\ conn \in [Conns -> [pc : {"none", "connect", "list", "open"}, name : Names \cup {None},
                           version : Versions \cup {None}, kept : BOOLEAN]]
    /\ request \in [Requests -> [pc : {"none", "list", "find", "start", "sent"}, name : Names \cup {None},
                                 tools : Versions \cup {None}, waits : SUBSET Conns]]
    /\ missed \subseteq Names
    /\ changes \in 0 .. MaxChanges

(* AiOpt starts with the preference and the library of the run before.          *)
GatewayInit ==
    /\ enabled \in BOOLEAN
    /\ serving \in [Names -> Versions \cup {None}]
    /\ upstream = [n \in Names |-> NoUpstream]
    /\ routes = [n \in Names |-> None]
    /\ conn = [k \in Conns |-> NoConn]
    /\ request = [r \in Requests |-> NoRequest]
    /\ missed = {}
    /\ changes = 0

Change == changes < MaxChanges /\ changes' = changes + 1

-----------------------------------------------------------------------------
(* What the operations are made of, on values of the variables.               *)

(* buildToolTable: every upstream with a tool list is routed to.              *)
Routes(u) == [n \in Names |-> u[n].tools]

(* stopUpstream, for the object.                                              *)
StoppedObject(o) ==
    [o EXCEPT !.client = None, !.starting = None, !.status = IF @ = "failed" THEN @ ELSE "idle"]

(* Closing connections: a request sent to one of them is rejected.            *)
Closed(c, K) == [k \in Conns |-> IF k \in K THEN NoConn ELSE c[k]]
Rejected(q, K) == [r \in Requests |-> IF q[r].pc = "sent" /\ q[r].waits \cap K # {} THEN NoRequest ELSE q[r]]

(* reconcile: the upstreams are made to match what is wanted.                  *)
Want(on, lib) == [n \in Names |-> IF on THEN lib[n] ELSE None]
Dropped(w) == {n \in Names : upstream[n].there /\ w[n] = None}
Changed(w) == {n \in Names : upstream[n].there /\ w[n] # None /\ w[n] # upstream[n].version}
Added(w) == {n \in Names : ~upstream[n].there /\ w[n] # None}

(* Mutant: an entry that changed is only noted.                               *)
ReconciledNoting(w) ==
    [n \in Names |-> CASE n \in Dropped(w) -> NoUpstream
                       [] n \in Changed(w) -> [upstream[n] EXCEPT !.version = w[n], !.tools = None]
                       [] n \in Added(w) -> NewUpstream(w[n])
                       [] OTHER -> upstream[n]]

Reconciled(w) ==
    [n \in Names |-> CASE n \in Dropped(w) -> NoUpstream
                       [] n \in Changed(w) \cup Added(w) -> NewUpstream(w[n])
                       [] OTHER -> upstream[n]]

(* The gateway after a reconcile, as a value: a request goes on from there.      *)
Synced(w) ==
    LET u == Reconciled(w)
        gone == Dropped(w)
        anew == gone \cup Changed(w)
        stopped == {upstream[n].client : n \in anew} \ {None}
    IN  [upstream |-> u,
         routes |-> IF anew \cup Added(w) = {} THEN routes ELSE Routes(u),
         conn |-> [k \in Conns |-> IF k \in stopped THEN NoConn
                                   ELSE IF conn[k].name \in gone THEN [conn[k] EXCEPT !.kept = FALSE]
                                   ELSE conn[k]],
         request |-> Rejected(request, stopped)]

Now == [upstream |-> upstream, routes |-> routes, conn |-> conn, request |-> request]

Reconcile(w) == LET g == Synced(w) IN
    upstream' = g.upstream /\ routes' = g.routes /\ conn' = g.conn /\ request' = g.request

(* startUpstream for the objects of S that neither run nor start yet: each gets *)
(* a connection of its own.                                                     *)
ToStart(g, S) == {n \in S : g.upstream[n].client = None /\ g.upstream[n].starting = None}
FreeConns(g) == {k \in Conns : g.conn[k].pc = "none"}
Assignments(g, S) ==
    {f \in [S -> FreeConns(g)] :
        /\ \A m, n \in S : m # n => f[m] # f[n]
        /\ \A n \in S, k \in FreeConns(g) : k < f[n] => \E m \in S : f[m] = k}

StartUpstreams(g, f) ==
    /\ upstream' = [n \in Names |->
         IF n \in DOMAIN f THEN [g.upstream[n] EXCEPT !.starting = f[n], !.status = "starting"] ELSE g.upstream[n]]
    /\ conn' = [k \in Conns |->
         IF \E n \in DOMAIN f : f[n] = k
         THEN LET n == CHOOSE m \in DOMAIN f : f[m] = k
              IN  [pc |-> "connect", name |-> n, version |-> g.upstream[n].version, kept |-> TRUE]
         ELSE g.conn[k]]

-----------------------------------------------------------------------------
(* The library and the preference change in memory and are written; then the     *)
(* gateway is told. A write that throws leaves the change in memory, and the      *)
(* gateway is not told.                                                            *)

Told(S) == missed' = missed \ S
Untold(S) == missed' = missed \cup S /\ UNCHANGED <<upstream, routes, conn, request>>

(* An entry is confirmed, edited or removed; after a write that failed, the same   *)
(* may be asked for again.                                                        *)
ChangeLibrary(n, v) ==
    /\ serving[n] # v \/ missed # {}
    /\ serving' = [serving EXCEPT ![n] = v]
    /\ \/ Reconcile(Want(enabled, serving')) /\ Told(Names)
       \/ Untold({n})
    /\ Change
    /\ UNCHANGED enabled

TurnOn ==
    /\ ~enabled \/ missed # {}
    /\ enabled' = TRUE
    /\ \/ Reconcile(Want(TRUE, serving)) /\ Told(Names)
       \/ Untold(Names)
    /\ Change
    /\ UNCHANGED serving

(* Mutant: the routes stay.                                                        *)
StopKeepingRoutes ==
    LET stopped == {upstream[n].client : n \in Names} \ {None} IN
    /\ upstream' = [n \in Names |-> NoUpstream]
    /\ conn' = [k \in Conns |-> IF k \in stopped THEN NoConn ELSE [conn[k] EXCEPT !.kept = FALSE]]
    /\ request' = Rejected(request, stopped)
    /\ UNCHANGED routes

(* stop(): every upstream is let go and its client closed.                         *)
Stop ==
    LET stopped == {upstream[n].client : n \in Names} \ {None} IN
    /\ upstream' = [n \in Names |-> NoUpstream]
    /\ routes' = [n \in Names |-> None]
    /\ conn' = [k \in Conns |-> IF k \in stopped THEN NoConn ELSE [conn[k] EXCEPT !.kept = FALSE]]
    /\ request' = Rejected(request, stopped)

TurnOff ==
    /\ enabled \/ missed # {}
    /\ enabled' = FALSE
    /\ \/ Stop /\ Told(Names)
       \/ Untold(Names)
    /\ Change
    /\ UNCHANGED serving

-----------------------------------------------------------------------------
(* run(), the start of one connection.                                        *)

ClientConnected(k) ==
    /\ conn[k].pc = "connect"
    /\ conn' = [conn EXCEPT ![k].pc = "list"]
    /\ UNCHANGED <<enabled, serving, upstream, routes, request, missed, changes>>

(* The start of k has settled: a listing does not wait for it any more; calls   *)
(* that share it go on with its client, or answer that the server could not be   *)
(* started.                                                                      *)
Without(q, k) == IF q.pc \in {"list", "find"} THEN [q EXCEPT !.waits = @ \ {k}] ELSE q
GoOn(k) ==
    request' = [r \in Requests |-> IF request[r].pc = "start" /\ request[r].waits = {k}
                                   THEN [request[r] EXCEPT !.pc = "sent"] ELSE Without(request[r], k)]
GiveUp(k) ==
    request' = [r \in Requests |-> IF request[r].pc \in {"start", "sent"} /\ request[r].waits = {k}
                                   THEN NoRequest ELSE Without(request[r], k)]

Starting(k) == conn[k].kept /\ upstream[conn[k].name].starting = k

(* Mutant: whether the start is still wanted is not looked at.                 *)
ListedLate(k) ==
    LET n == conn[k].name IN
    /\ conn[k].pc = "list"
    /\ conn' = [conn EXCEPT ![k].pc = "open"]
    /\ upstream' = IF conn[k].kept
                   THEN [upstream EXCEPT ![n].tools = conn[k].version, ![n].client = k, ![n].starting = None, ![n].status = "running"]
                   ELSE upstream
    /\ GoOn(k)
    /\ UNCHANGED <<enabled, serving, routes, missed, changes>>

(* The tool list arrives. It is the object's tool list now, also if the start   *)
(* has been overtaken; only then is the connection kept.                        *)
Listed(k) ==
    LET n == conn[k].name
        listing == IF conn[k].kept THEN [upstream EXCEPT ![n].tools = conn[k].version] ELSE upstream
    IN  /\ conn[k].pc = "list"
        /\ IF Starting(k)
           THEN /\ upstream' = [listing EXCEPT ![n].client = k, ![n].starting = None, ![n].status = "running"]
                /\ conn' = [conn EXCEPT ![k].pc = "open"]
                /\ GoOn(k)
           ELSE /\ upstream' = listing
                /\ conn' = Closed(conn, {k})
                /\ GiveUp(k)
        /\ UNCHANGED <<enabled, serving, routes, missed, changes>>

(* The start is rejected; a client that never connected closes itself, one      *)
(* whose tools/list failed stays as it is.                                      *)
FailedStart(k) ==
    upstream' = IF Starting(k) THEN [upstream EXCEPT ![conn[k].name].starting = None, ![conn[k].name].status = "failed"]
                ELSE upstream

ConnectFails(k) ==
    /\ conn[k].pc = "connect"
    /\ FailedStart(k)
    /\ conn' = Closed(conn, {k})
    /\ GiveUp(k)
    /\ UNCHANGED <<enabled, serving, routes, missed, changes>>

Unclosed == {k \in Conns : conn[k].pc = "open" /\ ~(conn[k].kept /\ upstream[conn[k].name].client = k)}

(* Mutant: whoever waits is not told.                                          *)
ListFailsQuietly(k) ==
    /\ conn[k].pc = "list"
    /\ conn' = Closed(conn, {k})
    /\ UNCHANGED <<enabled, serving, upstream, routes, request, missed, changes>>

ListFails(k) ==
    /\ conn[k].pc = "list"
    /\ FailedStart(k)
    /\ \/ Cardinality(Unclosed) < MaxUnclosed /\ conn' = [conn EXCEPT ![k].pc = "open"]
       \/ conn' = Closed(conn, {k})
    /\ GiveUp(k)
    /\ UNCHANGED <<enabled, serving, routes, missed, changes>>

(* A server says that its tools changed, and they are listed again.            *)
ToolsChanged(k) ==
    /\ conn[k].pc \in {"list", "open"}
    /\ upstream' = IF conn[k].kept THEN [upstream EXCEPT ![conn[k].name].tools = conn[k].version] ELSE upstream
    /\ routes' = Routes(upstream')
    /\ UNCHANGED <<enabled, serving, conn, request, missed, changes>>

(* onclose: the process exits or the server hangs up.                          *)
ConnectionLost(k) ==
    LET n == conn[k].name IN
    /\ conn[k].pc = "open"
    /\ conn' = Closed(conn, {k})
    /\ upstream' = IF conn[k].kept /\ upstream[n].client = k
                   THEN [upstream EXCEPT ![n].client = None, ![n].status = IF @ = "running" THEN "idle" ELSE @]
                   ELSE upstream
    /\ GiveUp(k)
    /\ UNCHANGED <<enabled, serving, routes, missed, changes>>

(* The idle sweep: nobody began or ended a call for IDLE_STOP_MS, though one     *)
(* may take longer than that.                                                   *)
IdleStop(n) ==
    LET k == upstream[n].client IN
    /\ k # None
    /\ upstream' = [upstream EXCEPT ![n] = StoppedObject(@)]
    /\ conn' = Closed(conn, {k})
    /\ request' = Rejected(request, {k})
    /\ UNCHANGED <<enabled, serving, routes, missed, changes>>

-----------------------------------------------------------------------------
(* tools/list and tools/call. A request that arrived while the gateway was on   *)
(* may be read after it was turned off. It reads the library and the preference   *)
(* itself: listTools and callTool reconcile first ("the gateway re-reads the       *)
(* library on its next request anyway").                                          *)

(* Mutant: the library is what the last refresh() read.                           *)
RequestFindsOld == Now

RequestFinds == Synced(Want(enabled, serving))

Asks(g, r, pc, n, t) ==
    LET lacking == {m \in Names : g.upstream[m].there /\ g.upstream[m].tools = None}
        S == ToStart(g, lacking)
        shared == {g.upstream[m].starting : m \in lacking} \ {None}
    IN  \E f \in Assignments(g, S) :
            /\ StartUpstreams(g, f)
            /\ request' = [g.request EXCEPT ![r] = [pc |-> pc, name |-> n, tools |-> t,
                                                     waits |-> {f[m] : m \in S} \cup shared]]

ListTools(r) == LET g == RequestFinds IN
    /\ request[r].pc = "none"
    /\ Asks(g, r, "list", None, None)
    /\ routes' = g.routes /\ Told(Names)
    /\ UNCHANGED <<enabled, serving, changes>>

(* The start, shared or not, or the client that already runs; then the call     *)
(* goes out. A request of none is answered at once.                             *)
CallOn(g, r, n, t) ==
    IF g.upstream[n].client # None
    THEN /\ request' = [g.request EXCEPT ![r] = [pc |-> "sent", name |-> n, tools |-> t,
                                                  waits |-> {g.upstream[n].client}]]
         /\ upstream' = g.upstream /\ conn' = g.conn
    ELSE \E f \in Assignments(g, ToStart(g, {n})) :
         /\ StartUpstreams(g, f)
         /\ request' = [g.request EXCEPT ![r] = [pc |-> "start", name |-> n, tools |-> t,
                                waits |-> {IF n \in DOMAIN f THEN f[n] ELSE g.upstream[n].starting}]]

(* A tool that is not in the table is looked for in a new one.                 *)
CallTool(r, n, t) == LET g == RequestFinds IN
    /\ request[r].pc = "none"
    /\ IF g.routes[n] = t THEN CallOn(g, r, n, t) ELSE Asks(g, r, "find", n, t)
    /\ routes' = g.routes /\ Told(Names)
    /\ UNCHANGED <<enabled, serving, changes>>

(* Every start that the listing waited for has settled.                        *)
Settled(r) == request[r].waits = {}

ListAnswered(r) ==
    /\ request[r].pc = "list"
    /\ Settled(r)
    /\ routes' = Routes(upstream)
    /\ request' = [request EXCEPT ![r] = NoRequest]
    /\ UNCHANGED <<enabled, serving, upstream, conn, missed, changes>>

Found(r) ==
    LET q == request[r] IN
    /\ q.pc = "find"
    /\ Settled(r)
    /\ routes' = Routes(upstream)
    /\ IF upstream[q.name].there /\ upstream[q.name].tools = q.tools
       THEN CallOn(Now, r, q.name, q.tools)
       ELSE request' = [request EXCEPT ![r] = NoRequest] /\ UNCHANGED <<upstream, conn>>
    /\ UNCHANGED <<enabled, serving, missed, changes>>

(* The upstream answers, or CALL_TIMEOUT_MS pass.                              *)
CallAnswered(r) ==
    /\ request[r].pc = "sent"
    /\ request' = [request EXCEPT ![r] = NoRequest]
    /\ UNCHANGED <<enabled, serving, upstream, routes, conn, missed, changes>>

-----------------------------------------------------------------------------

StartStep(k) == ClientConnected(k) \/ Listed(k) \/ ConnectFails(k) \/ ListFails(k)
Answer(r) == ListAnswered(r) \/ Found(r) \/ CallAnswered(r)

GatewayNext ==
    \/ \E n \in Names, v \in Versions \cup {None} : ChangeLibrary(n, v)
    \/ TurnOn
    \/ TurnOff
    \/ \E k \in Conns : StartStep(k) \/ ToolsChanged(k) \/ ConnectionLost(k)
    \/ \E n \in Names : IdleStop(n)
    \/ \E r \in Requests : ListTools(r) \/ Answer(r)
    \/ \E r \in Requests, n \in Names, t \in Versions : CallTool(r, n, t)

GatewaySpec == GatewayInit /\ [][GatewayNext]_gatewayVars

(* connect and tools/list answer or time out, and so does every call.          *)
GatewayFairness ==
    /\ \A k \in Conns : WF_gatewayVars(StartStep(k))
    /\ \A r \in Requests : WF_gatewayVars(Answer(r))

-----------------------------------------------------------------------------
(* No call goes to a server the user has meanwhile edited, removed or turned    *)
(* off: whatever start a request shared, its client is of the version that is   *)
(* served, and the one the upstream holds ("a changed spec restarts that         *)
(* upstream"). A change whose write threw is not seen before the next request    *)
(* comes: until then a call may be with what was served before.                  *)
CallsServedVersion ==
    \A r \in Requests : request[r].pc = "sent" =>
        \E k \in request[r].waits :
            /\ upstream[request[r].name].client = k
            /\ request[r].name \notin missed => enabled /\ conn[k].version = serving[request[r].name]

(* "Stopped or replaced while starting: do not keep this one": an upstream holds *)
(* one connection at most, that of its own version, and the status it shows is    *)
(* that connection's, through any stops, restarts and losses that overlap.         *)
StatusTells ==
    \A n \in Names :
        LET u == upstream[n] IN
        /\ u.client # None => conn[u.client].pc = "open" /\ conn[u.client].name = n /\ conn[u.client].version = u.version
        /\ u.starting # None => conn[u.starting].pc \in {"connect", "list"} /\ conn[u.starting].kept
        /\ u.status = "running" <=> u.client # None
        /\ u.status = "starting" <=> u.starting # None

(* A route leads to a server that is served: whatever was removed, edited or     *)
(* turned off while a listing was awaited, its tools are not offered any more.    *)
RoutesLead ==
    \A n \in Names : routes[n] # None =>
        /\ upstream[n].there
        /\ n \notin missed => enabled /\ serving[n] # None

(* Every request is answered, whatever is stopped or changed under it.          *)
RequestsAnswered == \A r \in Requests : request[r].pc # "none" ~> request[r].pc = "none"

(* mcp-gateway.md, section 2: when the preference is off, every child is         *)
(* stopped. Once stop() has run and nothing is starting any more, nothing is      *)
(* connected.                                                                     *)
OffStopsChildren ==
    ~enabled /\ missed = {} /\ (\A k \in Conns : conn[k].pc \notin {"connect", "list"}) => \A k \in Conns : conn[k].pc = "none"

(* The gateway serves what the user has it serve, over one connection each, and    *)
(* says so.                                                                       *)
UpstreamsSound == CallsServedVersion /\ StatusTells /\ RoutesLead
=============================================================================
