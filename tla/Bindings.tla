------------------------------ MODULE Bindings ------------------------------
(***************************************************************************)
(* The life of agent bindings: main/providers/providerManager.ts over the  *)
(* provider store, the routing-group store, the binding-applied store, the *)
(* proxy's route registry and the agents' own config files.                *)
(*                                                                         *)
(* A handler runs to its end without interleaving (one thread, no await    *)
(* between its steps), but each of its writes can fail, which throws out   *)
(* of the handler with what was already done left in place, and the        *)
(* process can die between any two of them.  So a handler is a job: the    *)
(* action that starts it fixes the writes it will make in todo, and Do and *)
(* Fail execute the next one: those before a loop over the agents, those   *)
(* of each agent in the order of AGENTS, and those after the loop.         *)
(* Nothing else can happen while any is left except the death of the       *)
(* process.                                                                *)
(***************************************************************************)
EXTENDS BindingRoute

CONSTANTS
  AgentOrder,   \* AGENTS: every loop over the agents follows this sequence
  Accepted,     \* acceptedFormats of each agent, in its declared order
  Providers,    \* provider ids (a UUID is never used twice)
  Groups,       \* routing-group ids, also never used twice
  Shapes,       \* what a provider record can say: [formats, url, models, mode, driver]
  MemberLists,  \* the member lists a group can be given: Seq([provider, model])
  Profiles,     \* binding profiles: a partial assignment of bindings to agents
  RouteModel,   \* ROUTING_GROUP_MODEL_ID
  Ports,        \* loopback ports; 0 stands for "not started" (-1 in the code)
  Tokens, NoToken, NoSpec,
  None,         \* null, and the agent's config as AiOpt found it
  Foreign,      \* an agent config another tool has rewritten
  MaxFaults,    \* bound: failed writes, failed starts and deaths inside a handler
  MaxEdits      \* bound: rewrites of an agent config by another tool

Agents == Elements(AgentOrder)
ASSUME PortsAssumption == 0 \notin Ports

VARIABLES
  mem,          \* the stores in memory: [pool, binding, groups, applied]
  disk,         \* the same four as their files hold them
  port, diskPort,                 \* the proxy's port and the persisted one
  byToken, tokenByAgent, saved,   \* the route registry (ProxyRouter)
  secret,       \* secrets store: has the provider a stored API key
  proxyMode,    \* the preference, durable
  file,         \* the config file of each agent
  todo,         \* the writes the running handler still has to make: [first, each, last]
  job,          \* the handler that runs or ran last: [kind, guarded, clean]
  kept,         \* the agent configs at the last orderly restart, or None
  retired,      \* provider and group ids that were removed
  faults, edits

durableVars == <<disk, diskPort, saved, secret, proxyMode, file>>
vars == <<mem, disk, port, diskPort, byToken, tokenByAgent, saved, secret, proxyMode,
          file, todo, job, kept, retired, faults, edits>>

(***************************************************************************)
(* Data.  A binding names a provider or, with ROUTING_GROUP_MODEL_ID, a    *)
(* group; a target is the RouteSpec registered for an agent; a config file *)
(* is what writeLive puts there: base URL, model and key.                  *)
(***************************************************************************)
Models == UNION {s.models : s \in Shapes}
Binding == [provider : Providers \cup Groups, model : Models \cup {RouteModel}]

RouteTargets == [provider : Providers \cup Groups, inbound : ApiFormats,
                 outbound : ApiFormats, url : {s.url : s \in Shapes},
                 model : Models \cup {RouteModel}, group : Groups \cup {None}]

Upstream(u) == [host |-> "upstream", url |-> u, port |-> 0, token |-> NoToken]
Loopback(p, tok) == [host |-> "loopback", url |-> None, port |-> p, token |-> tok]

Config(base, model, key) == [base |-> base, model |-> model, key |-> key]

\* The configs AiOpt writes; a key is a provider's, named by its id, or a token.
Bases == {Upstream(s.url) : s \in Shapes}
         \cup {Loopback(p, tok) : p \in Ports \cup {0}, tok \in Tokens \cup {NoToken}}
Configs == [base : Bases, model : Models \cup {RouteModel},
            key : Providers \cup Tokens \cup {NoToken, None}]

\* ROUTING_GROUP_ID_PREFIX keeps the ids of groups and of providers apart, and
\* every agent declares a format.  The rest gives the data their types.
ASSUME BindingsAssumption ==
  /\ AgentOrder \in Seq(Agents)
  /\ \A a \in Agents : Accepted[a] \in Seq(ApiFormats) \ {<< >>}
  /\ \A s \in Shapes : s.formats \subseteq ApiFormats
  /\ Providers \cap Groups = {}
  /\ MemberLists \subseteq Seq([provider : Providers, model : Models])
  /\ Profiles \subseteq [Agents -> Binding \cup {None}]
  /\ None \notin Shapes /\ None \notin MemberLists /\ None \notin Binding
  /\ None \notin Configs /\ Foreign \notin Configs
  /\ NoToken \notin Tokens /\ Tokens \cap Providers = {}
  /\ NoSpec \notin [agentId : Agents, target : RouteTargets] \cup
                    [token : Tokens, target : RouteTargets]
  /\ MaxFaults \in Nat /\ MaxEdits \in Nat

\* Tokens some part of the system still refers to.  A new UUID differs from
\* all of them; one nothing refers to any more is as good as new.
TokensIn(configs) == {c.base.token : c \in configs \ {None, Foreign}}
Referenced ==
  {tokenByAgent[a] : a \in Agents} \cup {r.token : r \in saved}
  \cup TokensIn({file[a] : a \in Agents})
  \cup TokensIn({mem.applied[a] : a \in Agents} \cup {disk.applied[a] : a \in Agents})
  \cup (IF kept = None THEN {} ELSE TokensIn({kept[a] : a \in Agents}))

Router == INSTANCE ProxyRouter WITH
            Targets <- RouteTargets, minted <- Referenced, listening <- port # 0

(***************************************************************************)
(* What a binding means: applyBinding and applyRoutingGroupBinding up to   *)
(* their first write.                                                      *)
(***************************************************************************)
Refused == [kind |-> "refused"]

\* main/proxy/routing/expand.ts: the members the agent can reach through the
\* proxy in its primary format.
expandRoutingGroup(members, a, inbound) ==
  {m \in Elements(members) :
     /\ mem.pool[m.provider] # None
     /\ m.model \in mem.pool[m.provider].models
     /\ LET r == resolveBindingRoute(Accepted[a], mem.pool[m.provider].formats)
        IN r # NoPair /\ r.inbound = inbound}

Proxied(target) == IF port = 0 THEN Refused ELSE [kind |-> "proxied", target |-> target]

GroupPlan(groups, a, b) ==
  LET inbound == Accepted[a][1]
      members == expandRoutingGroup(groups[b.provider], a, inbound)
      first == mem.pool[FirstIn(groups[b.provider], members).provider]
  IN IF groups[b.provider] = None \/ inbound = "gemini" THEN Refused
     ELSE IF members = {} THEN Refused
     ELSE Proxied([provider |-> b.provider, inbound |-> inbound,
                   outbound |-> resolveBindingRoute(Accepted[a], first.formats).outbound,
                   url |-> first.url, model |-> RouteModel, group |-> b.provider])

\* Mutant of directConfig: the proxy-mode preference is not consulted.
directWhateverTheMode(p, r) ==
  r.kind = "native" /\ p.mode = "api_key" /\ ~p.driver

\* The config with the provider's own address and key, instead of a route.
directConfig(p, r) ==
  /\ r.kind = "native"
  /\ ~proxyMode \/ ~translationSupported(r.inbound, r.outbound)
  /\ p.mode = "api_key" /\ ~p.driver

ProviderPlan(a, b) ==
  LET p == mem.pool[b.provider]
      r == resolveBindingRoute(Accepted[a], p.formats)
  IN IF p = None \/ b.model \notin p.models \/ r = NoPair THEN Refused
     ELSE IF \/ r.outbound = "gemini" /\ r.kind = "translated" /\ p.mode # "api_key"
             \/ p.driver /\ r.outbound # "openai"
     THEN Refused
     ELSE IF directConfig(p, r)
     THEN [kind |-> "direct",
           config |-> Config(Upstream(p.url), b.model,
                             IF secret[b.provider] THEN b.provider ELSE None)]
     ELSE IF ~translationSupported(r.inbound, r.outbound) THEN Refused
     ELSE Proxied([provider |-> b.provider, inbound |-> r.inbound, outbound |-> r.outbound,
                   url |-> p.url, model |-> b.model, group |-> None])

Plan(groups, a, b) == IF b.provider \in Groups THEN GroupPlan(groups, a, b)
                      ELSE ProviderPlan(a, b)

(***************************************************************************)
(* The writes of a handler.                                                *)
(***************************************************************************)
W(op, a, arg) == [op |-> op, agent |-> a, arg |-> arg]

\* Mutant of Apply: what a proxied binding writes is not recorded.
ApplyRecordingDirect(groups, a, b) ==
  LET plan == Plan(groups, a, b)
  IN CASE plan.kind = "direct" ->
            << W("unregister", a, None), W("write", a, plan.config), W("record", a, b.provider) >>
       [] plan.kind = "proxied" ->
            << W("register", a, plan.target), W("point", a, plan.target.model) >>
       [] OTHER -> << >>

\* applyBinding after its checks: route, config file, applied record.
Apply(groups, a, b) ==
  LET plan == Plan(groups, a, b)
  IN CASE plan.kind = "direct" ->
            << W("unregister", a, None), W("write", a, plan.config), W("record", a, b.provider) >>
       [] plan.kind = "proxied" ->
            << W("register", a, plan.target), W("point", a, plan.target.model),
               W("record", a, b.provider) >>
       [] OTHER -> << >>

\* Mutant of Unbind: the route is left behind.
UnbindRecordsOnly(a) ==
  (IF mem.binding[a] = None THEN << >> ELSE << W("unbind", a, None) >>)
  \o (IF mem.applied[a] = None THEN << >> ELSE << W("forget", a, None) >>)

\* A store's own early return: nothing to clear, nothing written.
Unbind(a) ==
  << W("unregister", a, None) >>
  \o (IF mem.binding[a] = None THEN << >> ELSE << W("unbind", a, None) >>)
  \o (IF mem.applied[a] = None THEN << >> ELSE << W("forget", a, None) >>)

\* What a handler does before, in and after its loop over the agents.
Done == [first |-> << >>, each |-> [a \in Agents |-> << >>], last |-> << >>]
ForAgents(writes) == [Done EXCEPT !.each = writes]
ForAgent(a, writes) == [Done EXCEPT !.each[a] = writes]

\* Mutant of Rebuild: agents that have a route are taken to be up to date.
RebuildUnroutedOnly ==
  ForAgents([a \in Agents |-> IF mem.binding[a] = None \/ Router!Routed(a) THEN << >>
                              ELSE Apply(mem.groups, a, mem.binding[a])])

\* rebuildRoutes: every binding that can still be applied.
Rebuild ==
  ForAgents([a \in Agents |-> IF mem.binding[a] = None THEN << >>
                              ELSE Apply(mem.groups, a, mem.binding[a])])

\* Mutant of WithoutProvider: the bindings are left to the caller.
WithoutProviderOnly(p) == [mem EXCEPT !.pool[p] = None]

\* providerStore.removeProvider: the record goes with every binding to it.
WithoutProvider(p) ==
  [mem EXCEPT !.pool[p] = None,
              !.binding = [a \in Agents |->
                IF mem.binding[a] # None /\ mem.binding[a].provider = p
                THEN None ELSE mem.binding[a]]]

\* The documents after write w, in memory.
Edited(w) ==
  LET a == w.agent  x == w.arg
  IN CASE w.op = "record" ->
            [mem EXCEPT !.applied[a] = [base |-> file[a].base, model |-> file[a].model,
                                        keySet |-> file[a].key # None, provider |-> x]]
       [] w.op = "forget" -> [mem EXCEPT !.applied[a] = None]
       [] w.op = "bind" -> [mem EXCEPT !.binding[a] = x]
       [] w.op = "unbind" -> [mem EXCEPT !.binding[a] = None]
       [] w.op = "putProvider" -> [mem EXCEPT !.pool[x.id] = x.shape]
       [] w.op = "dropProvider" -> WithoutProvider(x)
       [] w.op = "putGroup" -> [mem EXCEPT !.groups[x.id] = x.members]
       [] w.op = "dropGroup" -> [mem EXCEPT !.groups[x] = None]

\* The fields of the file a write saves: the store writes its whole document.
SavedFields(w) ==
  IF w.op \in {"record", "forget"} THEN {"applied"}
  ELSE IF w.op \in {"putGroup", "dropGroup"} THEN {"groups"}
  ELSE {"pool", "binding"}

DocOps == {"record", "forget", "bind", "unbind", "putProvider", "dropProvider",
           "putGroup", "dropGroup"}

(***************************************************************************)
(* Executing the next write.                                               *)
(***************************************************************************)
Idle == todo = Done

\* The write that is next, and what is left to do after it.
Due ==
  IF todo.first # << >>
  THEN {[write |-> Head(todo.first), left |-> [todo EXCEPT !.first = Tail(@)]]}
  ELSE LET busy == {i \in DOMAIN AgentOrder : todo.each[AgentOrder[i]] # << >>}
       IN IF busy # {}
          THEN {[write |-> Head(todo.each[a]), left |-> [todo EXCEPT !.each[a] = Tail(@)]] :
                  a \in {AgentOrder[i] : i \in {i \in busy : \A j \in busy : i =< j}}}
          ELSE IF todo.last = << >> THEN {}
          ELSE {[write |-> Head(todo.last), left |-> [todo EXCEPT !.last = Tail(@)]]}

\* register() hands out a token nothing refers to; all of those are alike.
RouteEffect(w) ==
  IF w.op = "register"
  THEN /\ Tokens \ Referenced # {}
       /\ Router!register(w.agent, w.arg, CHOOSE tok \in Tokens \ Referenced : TRUE)
  ELSE Router!unregister(w.agent)

RouteOps == {"register", "unregister"}

\* proxy.json is one document: saving the routes writes the port with them and the
\* other way round, also what an earlier save failed to write.
SaveProxyState ==
  /\ saved' = Router!snapshot'
  /\ diskPort' = IF port' = 0 THEN diskPort ELSE port'

DoRoute(w) ==
  /\ w.op \in RouteOps
  /\ RouteEffect(w)
  /\ SaveProxyState
  /\ UNCHANGED <<mem, disk, file, secret>>

DoDoc(w) ==
  /\ w.op \in DocOps
  /\ mem' = Edited(w)
  /\ disk' = [f \in DOMAIN disk |-> IF f \in SavedFields(w) THEN mem'[f] ELSE disk[f]]
  /\ UNCHANGED <<byToken, tokenByAgent, saved, diskPort, file, secret>>

\* The config that "point" writes: the loopback address registerRoute returned.
LoopbackConfig(a, model) ==
  Config(Loopback(port, tokenByAgent[a]), model, tokenByAgent[a])

FileOps == {"write", "point", "restore"}
DoFile(w) ==
  /\ w.op \in FileOps
  /\ file' = [file EXCEPT ![w.agent] =
                CASE w.op = "write" -> w.arg
                  [] w.op = "point" -> LoopbackConfig(w.agent, w.arg)
                  [] w.op = "restore" -> None]
  /\ UNCHANGED <<mem, disk, byToken, tokenByAgent, saved, diskPort, secret>>

SecretOps == {"putSecret", "dropSecret"}
DoSecret(w) ==
  /\ w.op \in SecretOps
  /\ secret' = [secret EXCEPT ![w.arg] = (w.op = "putSecret")]
  /\ UNCHANGED <<mem, disk, byToken, tokenByAgent, saved, diskPort, file>>

Do ==
  \E next \in Due :
    /\ UNCHANGED port
    /\ DoRoute(next.write) \/ DoDoc(next.write) \/ DoFile(next.write) \/ DoSecret(next.write)
    /\ todo' = next.left
    /\ UNCHANGED <<proxyMode, job, kept, retired, faults, edits>>

\* What is left after a write threw: a loop over the agents with a catch goes
\* on with the next agent, everything else is abandoned.
AfterThrow(w) ==
  IF job.guarded /\ todo.first = << >> THEN [todo EXCEPT !.each[w.agent] = << >>] ELSE Done

\* The write fails: a store has already changed its memory when its save
\* throws, the registry likewise; a config file or a secret stays as it was.
Fail ==
  \E next \in Due :
    LET w == next.write
    IN /\ faults < MaxFaults
       /\ faults' = faults + 1
       /\ IF w.op \in RouteOps THEN RouteEffect(w) ELSE UNCHANGED <<byToken, tokenByAgent>>
       /\ mem' = IF w.op \in DocOps THEN Edited(w) ELSE mem
       /\ todo' = AfterThrow(w)
       /\ job' = [job EXCEPT !.clean = FALSE]
       /\ UNCHANGED <<durableVars, port, kept, retired, edits>>

(***************************************************************************)
(* The handlers.                                                           *)
(***************************************************************************)
Start(kind, guarded, writes) ==
  /\ Idle
  /\ todo' = writes
  /\ job' = [kind |-> kind, guarded |-> guarded, clean |-> TRUE]
  /\ kept' = None
  /\ UNCHANGED <<mem, disk, diskPort, byToken, tokenByAgent, saved, secret, file, faults, edits>>

BindingOptions ==
  [provider : {p \in Providers : mem.pool[p] # None}, model : Models]
  \cup [provider : {g \in Groups : mem.groups[g] # None}, model : {RouteModel}]

\* setBinding: apply first, then record the binding.
SetBinding(a) ==
  \E b \in BindingOptions :
    /\ Plan(mem.groups, a, b) # Refused
    /\ Start("bind", FALSE, ForAgent(a, Append(Apply(mem.groups, a, b), W("bind", a, b))))
    /\ UNCHANGED <<port, proxyMode, retired>>

\* resyncBinding: replay one binding; a routing-group binding is NOT_FOUND.
ResyncBinding(a) ==
  /\ mem.binding[a] # None
  /\ mem.binding[a].provider \in Providers
  /\ Plan(mem.groups, a, mem.binding[a]) # Refused
  /\ Start("bind", FALSE, ForAgent(a, Apply(mem.groups, a, mem.binding[a])))
  /\ UNCHANGED <<port, proxyMode, retired>>

ClearBinding(a) ==
  /\ Start("unbind", FALSE, ForAgent(a, Unbind(a)))
  /\ UNCHANGED <<port, proxyMode, retired>>

\* restoreAgentDefault: the file first, then the route and the records.
RestoreAgentDefault(a) ==
  /\ Start("unbind", FALSE, ForAgent(a, << W("restore", a, None) >> \o Unbind(a)))
  /\ UNCHANGED <<port, proxyMode, retired>>

\* applyBindingProfile: bind what the profile names, unbind the rest.  A
\* binding whose provider, model or group is gone is passed over; one that
\* cannot be applied throws, and the agents after it are not touched.
ProfileWrites(profile) ==
  LET Missing(b) == IF b.provider \in Groups THEN mem.groups[b.provider] = None
                    ELSE mem.pool[b.provider] = None \/ b.model \notin mem.pool[b.provider].models
      Throws(a) == /\ profile[a] # None /\ ~Missing(profile[a])
                   /\ Plan(mem.groups, a, profile[a]) = Refused
      Before(a) == \A i \in DOMAIN AgentOrder : \A j \in 1..i :
                     AgentOrder[i] = a => ~Throws(AgentOrder[j])
  IN ForAgents([a \in Agents |->
       IF ~Before(a) THEN << >>
       ELSE IF profile[a] = None
       THEN IF mem.binding[a] = None THEN << >> ELSE Unbind(a)
       ELSE IF Missing(profile[a]) THEN << >>
       ELSE Append(Apply(mem.groups, a, profile[a]), W("bind", a, profile[a]))])

ApplyBindingProfile ==
  \E profile \in Profiles :
    /\ Start("profile", FALSE, ProfileWrites(profile))
    /\ UNCHANGED <<port, proxyMode, retired>>

AddProvider(p) ==
  \E shape \in Shapes, key \in BOOLEAN :
    /\ mem.pool[p] = None /\ p \notin retired
    /\ key => shape.mode = "api_key"
    /\ Start("edit", FALSE,
             [Done EXCEPT !.first = << W("putProvider", None, [id |-> p, shape |-> shape]) >>
                                    \o (IF key THEN << W("putSecret", None, p) >> ELSE << >>)])
    /\ UNCHANGED <<port, proxyMode, retired>>

\* updateProvider: the record and the key change; no binding is re-applied.
\* The endpoint and formats of a driver-served provider are pinned.
UpdateProvider(p) ==
  \E shape \in Shapes, keyOp \in {"keep"} \cup SecretOps :
    /\ mem.pool[p] # None /\ shape # mem.pool[p]
    /\ mem.pool[p].driver => /\ shape.formats = {"openai"}
                             /\ shape.url = mem.pool[p].url
    /\ keyOp # "keep" => shape.mode = "api_key"
    /\ Start("edit", FALSE,
             [Done EXCEPT !.first = << W("putProvider", None, [id |-> p, shape |-> shape]) >>
                                    \o (IF keyOp = "keep" THEN << >> ELSE << W(keyOp, None, p) >>)])
    /\ UNCHANGED <<port, proxyMode, retired>>

\* removeProvider: the routes of the agents bound to it, then the record with
\* their bindings, then the key.  The applied records stay.
RemoveProvider(p) ==
  /\ mem.pool[p] # None
  /\ Start("remove", FALSE,
           [first |-> << >>,
            each |-> [a \in Agents |-> IF mem.binding[a] # None /\ mem.binding[a].provider = p
                                       THEN << W("unregister", a, None) >> ELSE << >>],
            last |-> << W("dropProvider", None, p), W("dropSecret", None, p) >>])
  /\ retired' = retired \cup {p}
  /\ UNCHANGED <<port, proxyMode>>

\* addRoutingGroup, and updateRoutingGroup with its re-apply loop.
PutRoutingGroup(g) ==
  \E members \in MemberLists :
    LET groups == [mem.groups EXCEPT ![g] = members]
        Reapply(a) == IF mem.binding[a] # None /\ mem.binding[a].provider = g
                      THEN Apply(groups, a, mem.binding[a]) ELSE << >>
    IN /\ members # mem.groups[g]
       /\ mem.groups[g] = None => g \notin retired
       /\ \A m \in Elements(members) : /\ mem.pool[m.provider] # None
                                      /\ m.model \in mem.pool[m.provider].models
       /\ Start("group", TRUE,
                [first |-> << W("putGroup", None, [id |-> g, members |-> members]) >>,
                 each |-> [a \in Agents |-> Reapply(a)], last |-> << >>])
       /\ UNCHANGED <<port, proxyMode, retired>>

\* Mutant of RemoveRoutingGroup: its agents are not unbound.
RemoveGroupOnly(g) ==
  /\ mem.groups[g] # None
  /\ Start("remove", FALSE, [Done EXCEPT !.last = << W("dropGroup", None, g) >>])
  /\ retired' = retired \cup {g}
  /\ UNCHANGED <<port, proxyMode>>

\* removeRoutingGroup: its agents are unbound one by one, then the group goes.
RemoveRoutingGroup(g) ==
  /\ mem.groups[g] # None
  /\ Start("remove", FALSE,
           [first |-> << >>,
            each |-> [a \in Agents |-> IF mem.binding[a] # None /\ mem.binding[a].provider = g
                                       THEN Unbind(a) ELSE << >>],
            last |-> << W("dropGroup", None, g) >>])
  /\ retired' = retired \cup {g}
  /\ UNCHANGED <<port, proxyMode>>

Run(kind) == [kind |-> kind, guarded |-> TRUE, clean |-> TRUE]

\* The preference is stored, then every binding is re-applied under it.
SetProxyMode ==
  /\ Idle
  /\ proxyMode' = ~proxyMode
  /\ UNCHANGED <<mem, disk, port, diskPort, byToken, tokenByAgent, saved, secret, file,
                 retired, faults, edits>>
  /\ todo' = Rebuild'
  /\ job' = Run("rebuild")
  /\ kept' = None

\* refreshProxyPort: rebindPort moves the listener, saves the port and then
\* every binding is re-applied.  When the save throws, the listener has moved
\* and nothing is re-applied.
RefreshProxyPort ==
  /\ Idle
  /\ port # 0
  /\ port' \in Ports \ {port}
  /\ UNCHANGED <<mem, disk, proxyMode, byToken, tokenByAgent, secret, file, retired, edits>>
  /\ kept' = None
  /\ \/ /\ SaveProxyState
        /\ todo' = Rebuild'
        /\ job' = Run("rebuild")
        /\ UNCHANGED faults
     \/ /\ faults < MaxFaults
        /\ faults' = faults + 1
        /\ job' = [kind |-> "rebuild", guarded |-> TRUE, clean |-> FALSE]
        /\ UNCHANGED <<saved, diskPort, todo>>

\* Another tool rewrites an agent's config.
ForeignEdit(a) ==
  /\ Idle
  /\ edits < MaxEdits
  /\ edits' = edits + 1
  /\ file' = [file EXCEPT ![a] = Foreign]
  /\ job' = [kind |-> "none", guarded |-> FALSE, clean |-> TRUE]
  /\ kept' = None
  /\ UNCHANGED <<mem, disk, port, diskPort, byToken, tokenByAgent, saved, secret,
                 proxyMode, todo, retired, faults>>

(***************************************************************************)
(* What the user sees when everything worked.                              *)
(***************************************************************************)

\* The agent's config and its route say what its binding means now.
Served(a) ==
  LET b == mem.binding[a]
      plan == Plan(mem.groups, a, b)
      t == plan.target
  IN CASE plan.kind = "direct" -> ~Router!Routed(a) /\ file[a] = plan.config
       [] plan.kind = "proxied" -> /\ Router!Routed(a)
                                   /\ byToken[tokenByAgent[a]].target = t
                                   /\ file[a] = LoopbackConfig(a, t.model)
       [] OTHER -> FALSE

Bindable(a) == mem.binding[a] # None /\ Plan(mem.groups, a, mem.binding[a]) # Refused

\* Nothing is half done: the files agree with memory and every bound agent is
\* served.
Settled ==
  /\ Idle
  /\ disk = mem /\ diskPort = port /\ saved = Router!snapshot
  /\ \A a \in Agents : mem.binding[a] # None => Bindable(a) /\ Served(a)

\* The process ends, orderly or in the middle of a handler, and is started
\* again (main/index.ts): the stores are loaded, the provider store dropping
\* bindings of absent providers, the registry is rebuilt, and start() binds
\* the persisted port, or another one when it is taken, and records it.
\* When start() throws, before or after it has a port, the rebuild is
\* skipped.
Loaded ==
  [disk EXCEPT !.binding = [a \in Agents |->
     LET b == disk.binding[a]
     IN IF b # None /\ b.provider \in Providers /\ disk.pool[b.provider] = None
        THEN None ELSE b]]

Restart ==
  LET dies == IF Idle THEN 0 ELSE 1
  IN /\ faults + dies =< MaxFaults
     /\ mem' = Loaded
     /\ Router!rehydrate(saved)
     /\ retired' = retired \cup {p \in Providers : mem.pool[p] # None /\ disk.pool[p] = None}
                           \cup {g \in Groups : mem.groups[g] # None /\ disk.groups[g] = None}
     /\ UNCHANGED <<disk, saved, secret, proxyMode, file, edits>>
     /\ \/ /\ port' \in Ports
           /\ diskPort' = port'
           /\ todo' = Rebuild'
           /\ job' = Run("boot")
           /\ faults' = faults + dies
           /\ kept' = IF Settled /\ port' = diskPort THEN file ELSE None
        \/ /\ faults + dies < MaxFaults
           /\ port' \in Ports \cup {0}
           /\ diskPort' = diskPort
           /\ todo' = Done
           /\ job' = [kind |-> "boot", guarded |-> TRUE, clean |-> FALSE]
           /\ faults' = faults + dies + 1
           /\ kept' = None

Init ==
  /\ mem = [pool |-> [p \in Providers |-> None], binding |-> [a \in Agents |-> None],
            groups |-> [g \in Groups |-> None], applied |-> [a \in Agents |-> None]]
  /\ disk = mem
  /\ port \in Ports /\ diskPort = port
  /\ byToken = [tok \in Tokens |-> NoSpec]
  /\ tokenByAgent = [a \in Agents |-> NoToken]
  /\ saved = {}
  /\ secret = [p \in Providers |-> FALSE]
  /\ proxyMode = FALSE
  /\ file = [a \in Agents |-> None]
  /\ todo = Done
  /\ job = [kind |-> "none", guarded |-> FALSE, clean |-> TRUE]
  /\ kept = None
  /\ retired = {}
  /\ faults = 0 /\ edits = 0

Next ==
  \/ Do
  \/ Fail
  \/ \E a \in Agents : \/ SetBinding(a) \/ ResyncBinding(a) \/ ClearBinding(a)
                       \/ RestoreAgentDefault(a) \/ ForeignEdit(a)
  \/ \E p \in Providers : AddProvider(p) \/ UpdateProvider(p) \/ RemoveProvider(p)
  \/ \E g \in Groups : PutRoutingGroup(g) \/ RemoveRoutingGroup(g)
  \/ ApplyBindingProfile
  \/ SetProxyMode
  \/ RefreshProxyPort
  \/ Restart

Spec == Init /\ [][Next]_vars

(***************************************************************************)
(* Properties.                                                             *)
(***************************************************************************)
\* The types of the state.
TypeOK ==
  /\ \A d \in {mem, disk} :
       /\ \A p \in Providers : d.pool[p] \in Shapes \cup {None}
       /\ \A g \in Groups : d.groups[g] \in MemberLists \cup {None}
       /\ \A a \in Agents : d.binding[a] = None
                           \/ d.binding[a].provider \in Providers \cup Groups
  /\ port \in Ports \cup {0} /\ diskPort \in Ports
  /\ Router!RouterTypeOK
  /\ saved \subseteq Router!PersistedRoute
  /\ secret \in [Providers -> BOOLEAN] /\ proxyMode \in BOOLEAN
  /\ file \in [Agents -> Configs \cup {None, Foreign}]
  /\ faults \in 0..MaxFaults /\ edits \in 0..MaxEdits

\* The route registry stays consistent under the whole of its real use.
RegistryConsistent == Router!MapsInverse /\ Router!SavedCollisionFree

\* A binding never names a provider that is gone, not even between the writes of
\* the handler that removes it or after that handler failed.  It never names a
\* group that is gone as long as nothing has failed: a group and the bindings to
\* it are in two stores, and a save that threw leaves their files apart.
NoDanglingBinding ==
  \A d \in {mem, disk}, a \in Agents :
    d.binding[a] # None =>
      LET p == d.binding[a].provider
      IN IF p \in Groups THEN faults = 0 => d.groups[p] # None ELSE d.pool[p] # None

\* What providerStore.ts:170 says of a binding to a group, which the store keeps
\* whatever became of the group: "the manager drops it if the group itself is
\* gone".  After a clean rebuild at startup no binding names a group that is gone.
GoneGroupsDropped ==
  Idle /\ job.kind = "boot" /\ job.clean =>
    \A a \in Agents : mem.binding[a] # None /\ mem.binding[a].provider \in Groups =>
      mem.groups[mem.binding[a].provider] # None

\* After a rebuild in which no write failed (startup, a proxy-mode flip, a
\* port refresh), every bound agent that can be served is served: its config
\* holds the current port and its live token, or the provider's own address,
\* whatever failed before.
RebuildHeals ==
  Idle /\ job.kind \in {"boot", "rebuild"} /\ job.clean =>
    \A a \in Agents : Bindable(a) => Served(a)

\* An orderly restart on the same port changes nothing an agent has cached:
\* every config stays as it was through the whole startup replay.
RestartKeepsAddresses == kept # None => file = kept

\* Where nothing has failed, a live route always belongs to a binding: its
\* agent is bound to the provider or group the route names.
RoutesFollowBindings ==
  Idle => \A a \in Agents : Router!Routed(a) =>
    /\ mem.binding[a] # None
    /\ byToken[tokenByAgent[a]].target.provider = mem.binding[a].provider

\* With proxy mode on and a clean rebuild behind it, no bound agent's config
\* holds a provider key unless the pair cannot be proxied at all.
ProxyModeHidesKeys ==
  Idle /\ proxyMode /\ job.kind \in {"boot", "rebuild"} /\ job.clean =>
    \A a \in Agents :
      Bindable(a) /\ file[a] \notin {None, Foreign} /\ file[a].key \in Providers =>
        resolveBindingRoute(Accepted[a], mem.pool[mem.binding[a].provider].formats).inbound = "gemini"

\* bindingDriftDetected.
Drift(a) ==
  LET r == mem.applied[a]
  IN /\ mem.binding[a] # None /\ r # None
     /\ \/ file[a] \in {None, Foreign}
        \/ file[a].base # r.base \/ file[a].model # r.model
        \/ (file[a].key # None) # r.keySet

\* No false warning: while no other tool rewrites an agent's config and no write
\* fails, a bound agent's config is what its last apply recorded.
NoFalseDrift == Idle => \A a \in Agents : ~Drift(a)
=============================================================================
