-------------------------- MODULE Bindings_proofs ---------------------------
(***************************************************************************)
(* Proofs about Bindings, for every list of agents, set of providers and   *)
(* groups, shape of a provider record and bound on failures, unless a      *)
(* theorem names a hypothesis of its own.                                  *)
(***************************************************************************)
EXTENDS Bindings, SequenceTheorems, WellFoundedInduction, TLAPS

\* The lemmas about the registry alone.
Registry == INSTANCE ProxyRouter_proofs WITH
              Targets <- RouteTargets, minted <- Referenced, listening <- port # 0

(***************************************************************************)
(* Scripts: the writes a handler has left for one agent.                   *)
(***************************************************************************)
BoundModels == Models \cup {RouteModel}

AgentWrites(a) ==
  [op : {"register"}, agent : {a}, arg : RouteTargets]
  \cup [op : {"unregister", "unbind", "forget", "restore"}, agent : {a}, arg : {None}]
  \cup [op : {"write"}, agent : {a}, arg : Configs]
  \cup [op : {"point"}, agent : {a}, arg : BoundModels]
  \cup [op : {"record"}, agent : {a}, arg : Providers \cup Groups]
  \cup [op : {"bind"}, agent : {a}, arg : Binding]

FirstWrites ==
  [op : {"putProvider"}, agent : {None}, arg : [id : Providers, shape : Shapes]]
  \cup [op : {"putGroup"}, agent : {None}, arg : [id : Groups, members : MemberLists]]
  \cup [op : SecretOps, agent : {None}, arg : Providers]

LastWrites ==
  [op : {"dropProvider", "dropSecret"}, agent : {None}, arg : Providers]
  \cup [op : {"dropGroup"}, agent : {None}, arg : Groups]

ConfigOps == {"write", "point"}

\* Every script follows this order, each kind of write at most once.
Rank(op) == IF op = "restore" THEN 0
            ELSE IF op \in RouteOps THEN 1
            ELSE IF op \in ConfigOps THEN 2
            ELSE IF op = "record" THEN 3
            ELSE IF op = "unbind" THEN 4
            ELSE IF op = "forget" THEN 5 ELSE 6

Ordered(s) == \A i, j \in DOMAIN s : i < j => Rank(s[i].op) < Rank(s[j].op)

\* A script that takes a config back writes none, one that binds does not
\* unbind, and a config that is written is recorded.
Coherent(writes) ==
  /\ \A v, w \in writes :
       /\ v.op = "restore" => w.op \in {"restore", "unregister", "unbind", "forget"}
       /\ v.op = "unbind" => w.op # "bind"
  /\ \A v \in writes : v.op \in ConfigOps => \E w \in writes : w.op = "record"

Script(s, a) == /\ s \in Seq(AgentWrites(a))
                /\ Ordered(s)
                /\ Coherent(Elements(s))

TodoTyped(t) ==
  /\ t = [first |-> t.first, each |-> t.each, last |-> t.last]
  /\ t.each = [a \in Agents |-> t.each[a]]
  /\ t.first \in Seq(FirstWrites)
  /\ \A a \in Agents : Script(t.each[a], a)
  /\ t.last \in Seq(LastWrites)

\* The writes that are left for an agent, as a set.
Left(a) == Elements(todo.each[a])

(***************************************************************************)
(* Sequences.                                                              *)
(***************************************************************************)

\* A nonempty set of numbers has a least one.
LEMMA LeastNumber == ASSUME NEW T \in SUBSET Nat, T # {} PROVE \E n \in T : \A m \in T : n =< m
<1> DEFINE R == {ss \in Nat \X Nat : ss[1] < ss[2]}
<1>1. IsWellFoundedOn(R, Nat)
  BY NatLessThanWellFounded, Zenon DEF OpToRel
<1>2. \A y, x \in Nat : <<y, x>> \in R <=> y < x
  OBVIOUS
<1> HIDE DEF R
<1>3. PICK n \in T : \A m \in T : ~ (<<m, n>> \in R)
  BY <1>1, WFMin, Zenon
<1>4. n \in Nat /\ \A m \in T : m \in Nat /\ ~ (m < n)
  BY <1>2, <1>3
<1> QED
  BY <1>4

\* FirstIn finds the first element of a sequence in a set that it meets.
LEMMA FirstInFound ==
  ASSUME NEW X, NEW seq \in Seq(X), NEW S, NEW k \in DOMAIN seq, seq[k] \in S
  PROVE  FirstIn(seq, S) \in S /\ \E i \in DOMAIN seq : FirstIn(seq, S) = seq[i]
<1> DEFINE T == {i \in DOMAIN seq : seq[i] \in S}
<1>1. T \in SUBSET Nat /\ T # {} /\ DOMAIN seq = 1..Len(seq) /\ Len(seq) \in Nat
  OBVIOUS
<1>2. PICK n \in T : \A m \in T : n =< m
  BY <1>1, LeastNumber
<1>3. n \in DOMAIN seq /\ seq[n] \in S /\ \A j \in 1..(n - 1) : seq[j] \notin S
  BY <1>1, <1>2
<1> QED
  BY <1>3 DEF FirstIn

\* The first write of a script comes before all the others in rank.
LEMMA ScriptStep ==
  ASSUME NEW a, NEW s, Script(s, a), s # << >>
  PROVE  /\ Head(s) \in AgentWrites(a)
         /\ Elements(s) = {Head(s)} \cup Elements(Tail(s))
         /\ \A w \in Elements(Tail(s)) : Rank(Head(s).op) < Rank(w.op)
         /\ Script(Tail(s), a)
<1>1. s \in Seq(AgentWrites(a)) /\ Ordered(s) /\ Coherent(Elements(s))
  BY DEF Script
<1>2. /\ Head(s) \in AgentWrites(a) /\ Tail(s) \in Seq(AgentWrites(a))
      /\ Len(Tail(s)) = Len(s) - 1 /\ Len(s) \in Nat /\ Len(s) # 0
      /\ DOMAIN s = 1..Len(s) /\ DOMAIN Tail(s) = 1..(Len(s) - 1)
      /\ Head(s) = s[1]
      /\ \A i \in 1..(Len(s) - 1) : Tail(s)[i] = s[i + 1]
  BY <1>1, HeadTailProperties
<1>3. Elements(s) = {Head(s)} \cup Elements(Tail(s))
  <2>1. ASSUME NEW i \in DOMAIN s PROVE s[i] \in {Head(s)} \cup Elements(Tail(s))
    <3>1. CASE i = 1
      BY <1>2, <3>1
    <3>2. CASE i # 1
      <4>1. i - 1 \in DOMAIN Tail(s) /\ Tail(s)[i - 1] = s[i]
        BY <1>2, <3>2
      <4> QED BY <4>1 DEF Elements
    <3> QED BY <3>1, <3>2
  <2>2. Head(s) \in Elements(s)
    BY <1>2 DEF Elements
  <2>3. ASSUME NEW i \in DOMAIN Tail(s) PROVE Tail(s)[i] \in Elements(s)
    <3>1. i + 1 \in DOMAIN s /\ Tail(s)[i] = s[i + 1]
      BY <1>2
    <3> QED BY <3>1 DEF Elements
  <2>4. Elements(s) \subseteq {Head(s)} \cup Elements(Tail(s))
    BY <2>1 DEF Elements
  <2>5. Elements(Tail(s)) \subseteq Elements(s)
    BY <2>3 DEF Elements
  <2> QED BY <2>2, <2>4, <2>5
<1>4. ASSUME NEW w \in Elements(Tail(s)) PROVE Rank(Head(s).op) < Rank(w.op)
  <2>1. PICK i \in DOMAIN Tail(s) : w = Tail(s)[i]
    BY DEF Elements
  <2>2. i + 1 \in DOMAIN s /\ 1 \in DOMAIN s /\ 1 < i + 1 /\ w = s[i + 1]
    BY <1>2, <2>1
  <2> QED BY <1>1, <1>2, <2>2 DEF Ordered
<1>5. Ordered(Tail(s))
  <2> SUFFICES ASSUME NEW i \in DOMAIN Tail(s), NEW j \in DOMAIN Tail(s), i < j
               PROVE  Rank(Tail(s)[i].op) < Rank(Tail(s)[j].op)
    BY DEF Ordered
  <2>1. /\ i + 1 \in DOMAIN s /\ j + 1 \in DOMAIN s /\ i + 1 < j + 1
        /\ Tail(s)[i] = s[i + 1] /\ Tail(s)[j] = s[j + 1]
    BY <1>2
  <2> QED BY <1>1, <2>1 DEF Ordered
<1>6. Coherent(Elements(Tail(s)))
  <2>1. ASSUME NEW v \in Elements(Tail(s)), v.op \in ConfigOps
        PROVE  \E w \in Elements(Tail(s)) : w.op = "record"
    <3>1. PICK w \in Elements(s) : w.op = "record"
      BY <1>1, <1>3, <2>1 DEF Coherent
    <3>2. w # Head(s)
      BY <1>4, <2>1, <3>1 DEF Rank, ConfigOps, RouteOps
    <3> QED BY <1>3, <3>1, <3>2
  <2> QED BY <1>1, <1>3, <2>1 DEF Coherent
<1> QED
  BY <1>2, <1>3, <1>4, <1>5, <1>6 DEF Script

(***************************************************************************)
(* What a binding means, typed.                                            *)
(***************************************************************************)

\* A document of the stores; the applied records are of any kind.
DocTyped(d) ==
  /\ d = [pool |-> d.pool, binding |-> d.binding, groups |-> d.groups, applied |-> d.applied]
  /\ d.pool \in [Providers -> Shapes \cup {None}]
  /\ d.binding \in [Agents -> Binding \cup {None}]
  /\ d.groups \in [Groups -> MemberLists \cup {None}]
  /\ d.applied = [a \in Agents |-> d.applied[a]]

\* resolveBindingRoute returns null or a pair of formats; a native one is one
\* format on both sides.
LEMMA ResolvedPair ==
  ASSUME NEW accepted \in Seq(ApiFormats), accepted # << >>, NEW served \in SUBSET ApiFormats
  PROVE  \/ resolveBindingRoute(accepted, served) = NoPair
         \/ \E f \in ApiFormats :
              resolveBindingRoute(accepted, served) = [kind |-> "native", inbound |-> f, outbound |-> f]
         \/ \E f, g \in ApiFormats :
              resolveBindingRoute(accepted, served) = [kind |-> "translated", inbound |-> f, outbound |-> g]
<1>1. CASE \E i \in DOMAIN accepted : accepted[i] \in served
  <2>1. PICK i \in DOMAIN accepted : accepted[i] \in served
    BY <1>1
  <2>2. FirstIn(accepted, served) \in served
    BY <2>1, FirstInFound
  <2> DEFINE f == FirstIn(accepted, served)
  <2>3. resolveBindingRoute(accepted, served) = [kind |-> "native", inbound |-> f, outbound |-> f]
    BY <1>1 DEF resolveBindingRoute
  <2>4. f \in ApiFormats
    BY <2>2
  <2> HIDE DEF f
  <2> QED BY <2>3, <2>4
<1>2. CASE ~ \E i \in DOMAIN accepted : accepted[i] \in served
  <2> DEFINE inbound == accepted[1]
             targets == TRANSLATION_TARGETS[inbound]
             reachable == {f \in served : translationSupported(inbound, f)}
             g == FirstIn(targets, reachable)
  <2>1. inbound \in ApiFormats
    OBVIOUS
  <2>2. targets \in Seq(ApiFormats)
    <3>1. /\ <<"openai", "gemini">> \in Seq(ApiFormats) /\ <<"anthropic", "gemini">> \in Seq(ApiFormats)
          /\ <<"openai", "anthropic">> \in Seq(ApiFormats) /\ << >> \in Seq(ApiFormats)
      BY DEF ApiFormats
    <3>2. targets \in {<<"openai", "gemini">>, <<"anthropic", "gemini">>, <<"openai", "anthropic">>, << >>}
      BY <2>1, Zenon DEF TRANSLATION_TARGETS
    <3> HIDE DEF targets
    <3> QED BY <3>1, <3>2
  <2>3. CASE \E i \in DOMAIN targets : targets[i] \in reachable
    <3>1. PICK i \in DOMAIN targets : targets[i] \in reachable
      BY <2>3
    <3> HIDE DEF targets, reachable
    <3>2. g \in reachable
      BY <2>2, <3>1, FirstInFound
    <3>3. g \in ApiFormats
      BY <3>2 DEF reachable
    <3>4. resolveBindingRoute(accepted, served)
            = [kind |-> "translated", inbound |-> inbound, outbound |-> g]
      BY <1>2, <2>3 DEF resolveBindingRoute, targets, reachable
    <3> HIDE DEF g, inbound
    <3> QED BY <2>1, <3>3, <3>4
  <2>4. CASE ~ \E i \in DOMAIN targets : targets[i] \in reachable
    BY <1>2, <2>4 DEF resolveBindingRoute
  <2> QED BY <2>3, <2>4
<1> QED
  BY <1>1, <1>2

\* A plan is a refusal, a config with the provider's own address, or a route
\* that carries the name of what is bound.
PlanTyped(plan, b) ==
  \/ plan = Refused
  \/ \E c \in Configs : plan = [kind |-> "direct", config |-> c]
  \/ \E t \in RouteTargets : /\ plan = [kind |-> "proxied", target |-> t]
                             /\ t.provider = b.provider
                             /\ port # 0

\* applyRoutingGroupBinding's plan.
LEMMA GroupPlanTyped ==
  ASSUME DocTyped(mem), NEW groups \in [Groups -> MemberLists \cup {None}],
         NEW a \in Agents, NEW b \in Binding, b.provider \in Groups
  PROVE  PlanTyped(GroupPlan(groups, a, b), b)
<1> DEFINE seq == groups[b.provider]
           inbound == Accepted[a][1]
           members == expandRoutingGroup(seq, a, inbound)
           member == FirstIn(seq, members)
           first == mem.pool[member.provider]
           outbound == resolveBindingRoute(Accepted[a], first.formats).outbound
           target == [provider |-> b.provider, inbound |-> inbound, outbound |-> outbound,
                      url |-> first.url, model |-> RouteModel, group |-> b.provider]
<1> SUFFICES ASSUME seq # None, members # {}
             PROVE  PlanTyped(GroupPlan(groups, a, b), b)
  <2>1. CASE seq = None \/ members = {}
    BY <2>1 DEF GroupPlan, PlanTyped
  <2> QED BY <2>1
<1>1. seq \in Seq([provider : Providers, model : Models])
  BY BindingsAssumption
<1>2. Accepted[a] \in Seq(ApiFormats) /\ Accepted[a] # << >> /\ inbound \in ApiFormats
  BY BindingsAssumption
<1>3. \A m \in members : /\ \E i \in DOMAIN seq : seq[i] = m
                         /\ mem.pool[m.provider] # None
                         /\ LET r == resolveBindingRoute(Accepted[a], mem.pool[m.provider].formats)
                            IN r # NoPair /\ r.inbound = inbound
  BY DEF expandRoutingGroup, Elements
<1>4. PICK k \in DOMAIN seq : seq[k] \in members
  BY <1>3
<1> HIDE DEF seq, members, inbound
<1>5. member \in members
  BY <1>1, <1>4, FirstInFound
<1>6. member.provider \in Providers
  <2> HIDE DEF member
  <2>1. PICK i \in DOMAIN seq : seq[i] = member
    BY <1>3, <1>5
  <2>2. seq[i] \in [provider : Providers, model : Models]
    <3>1. i \in 1..Len(seq)
      BY <1>1
    <3> QED BY <1>1, <3>1, ElementOfSeq
  <2> QED BY <2>1, <2>2
<1>7. first \in Shapes
  BY <1>3, <1>5, <1>6 DEF DocTyped
<1>8. first.formats \in SUBSET ApiFormats
  BY <1>7, BindingsAssumption
<1>9. resolveBindingRoute(Accepted[a], first.formats) # NoPair
  BY <1>3, <1>5
<1>10. outbound \in ApiFormats
  <2> DEFINE r == resolveBindingRoute(Accepted[a], first.formats)
  <2>1. \/ \E f \in ApiFormats : r = [kind |-> "native", inbound |-> f, outbound |-> f]
        \/ \E f, g \in ApiFormats : r = [kind |-> "translated", inbound |-> f, outbound |-> g]
    <3> HIDE DEF first
    <3> QED BY <1>2, <1>8, <1>9, ResolvedPair
  <2> HIDE DEF r
  <2>2. r.outbound \in ApiFormats
    BY <2>1
  <2> QED BY <2>2 DEF r
<1>11. first.url \in {s.url : s \in Shapes}
  BY <1>7
<1> HIDE DEF first, outbound
<1>12. target \in RouteTargets
  BY <1>2, <1>10, <1>11 DEF RouteTargets, Binding
<1>13. target.provider = b.provider
  OBVIOUS
<1>14. GroupPlan(groups, a, b) = Refused \/ GroupPlan(groups, a, b) = Proxied(target)
  BY Zenon DEF GroupPlan, seq, members, inbound, first, outbound, member
<1> HIDE DEF target
<1>15. port # 0 => Proxied(target) = [kind |-> "proxied", target |-> target]
  BY DEF Proxied
<1>16. port = 0 => Proxied(target) = Refused
  BY DEF Proxied
<1> QED
  BY <1>12, <1>13, <1>14, <1>15, <1>16 DEF PlanTyped

\* applyBinding's plan.
LEMMA ProviderPlanTyped ==
  ASSUME DocTyped(mem), NEW a \in Agents, NEW b \in Binding, b.provider \in Providers
  PROVE  PlanTyped(ProviderPlan(a, b), b)
<1> DEFINE p == mem.pool[b.provider]
           r == resolveBindingRoute(Accepted[a], p.formats)
           config == Config(Upstream(p.url), b.model, IF secret[b.provider] THEN b.provider ELSE None)
           target == [provider |-> b.provider, inbound |-> r.inbound, outbound |-> r.outbound,
                      url |-> p.url, model |-> b.model, group |-> None]
<1> SUFFICES ASSUME p # None, r # NoPair
             PROVE  PlanTyped(ProviderPlan(a, b), b)
  <2>1. CASE p = None \/ r = NoPair
    BY <2>1 DEF ProviderPlan, PlanTyped
  <2> QED BY <2>1
<1>1. p \in Shapes
  BY DEF DocTyped
<1>2. p.formats \in SUBSET ApiFormats
  BY <1>1, BindingsAssumption
<1>3. Accepted[a] \in Seq(ApiFormats) /\ Accepted[a] # << >>
  BY BindingsAssumption
<1>4. r.inbound \in ApiFormats /\ r.outbound \in ApiFormats
  <2>1. \/ \E f \in ApiFormats : r = [kind |-> "native", inbound |-> f, outbound |-> f]
        \/ \E f, g \in ApiFormats : r = [kind |-> "translated", inbound |-> f, outbound |-> g]
    <3> HIDE DEF p
    <3> QED BY <1>2, <1>3, ResolvedPair
  <2> HIDE DEF r
  <2> QED BY <2>1
<1>5. p.url \in {s.url : s \in Shapes}
  BY <1>1
<1>6. config \in Configs
  <2>1. Upstream(p.url) \in Bases
    BY <1>1 DEF Bases
  <2> QED BY <2>1 DEF Configs, Config, Binding, BoundModels
<1>7. \/ ProviderPlan(a, b) = Refused
      \/ ProviderPlan(a, b) = [kind |-> "direct", config |-> config]
      \/ ProviderPlan(a, b) = Proxied(target)
  BY Zenon DEF ProviderPlan
<1> HIDE DEF p, r, config
<1>8. target \in RouteTargets /\ target.provider = b.provider
  BY <1>4, <1>5 DEF RouteTargets, Binding
<1> HIDE DEF target
<1>9. port # 0 => Proxied(target) = [kind |-> "proxied", target |-> target]
  BY DEF Proxied
<1>10. port = 0 => Proxied(target) = Refused
  BY DEF Proxied
<1> QED
  BY <1>6, <1>7, <1>8, <1>9, <1>10 DEF PlanTyped

LEMMA PlansTyped ==
  ASSUME DocTyped(mem), NEW groups \in [Groups -> MemberLists \cup {None}],
         NEW a \in Agents, NEW b \in Binding
  PROVE  PlanTyped(Plan(groups, a, b), b)
<1>1. CASE b.provider \in Groups
  BY <1>1, GroupPlanTyped DEF Plan
<1>2. CASE b.provider \notin Groups
  <2>1. b.provider \in Providers
    BY <1>2 DEF Binding
  <2> QED BY <1>2, <2>1, ProviderPlanTyped DEF Plan
<1> QED
  BY <1>1, <1>2

(***************************************************************************)
(* The scripts of the handlers.                                            *)
(***************************************************************************)

\* One write is in order.
LEMMA OneWrite ==
  ASSUME NEW a, NEW w \in AgentWrites(a)
  PROVE  <<w>> \in Seq(AgentWrites(a)) /\ Ordered(<<w>>) /\ Elements(<<w>>) = {w}
<1>1. <<w>> \in Seq(AgentWrites(a)) /\ DOMAIN <<w>> = {1} /\ <<w>>[1] = w
  OBVIOUS
<1> QED
  BY <1>1 DEF Ordered, Elements

\* Two sequences of writes in order make one, if all of the first come before
\* all of the second in rank.
LEMMA Joined ==
  ASSUME NEW a, NEW s \in Seq(AgentWrites(a)), Ordered(s), NEW t \in Seq(AgentWrites(a)), Ordered(t),
         \A v \in Elements(s), w \in Elements(t) : Rank(v.op) < Rank(w.op)
  PROVE  /\ s \o t \in Seq(AgentWrites(a)) /\ Ordered(s \o t)
         /\ Elements(s \o t) = Elements(s) \cup Elements(t)
<1> DEFINE m == Len(s)
           n == Len(t)
           st == s \o t
           S == AgentWrites(a)
<1>1. m \in Nat /\ DOMAIN s = 1..m /\ n \in Nat /\ DOMAIN t = 1..n
  OBVIOUS
<1>2. /\ st \in Seq(S) /\ Len(st) = m + n
      /\ \A i \in 1..(m + n) : st[i] = IF i <= m THEN s[i] ELSE t[i - m]
  <2> HIDE DEF S
  <2>1. s \in Seq(S) /\ t \in Seq(S)
    BY DEF S
  <2> QED BY <2>1, ConcatProperties
<1>3. DOMAIN st = 1..(m + n)
  BY <1>2
<1> HIDE DEF m, n, st
<1>4. \A i \in 1..m : i \in 1..(m + n) /\ st[i] = s[i]
  BY <1>1, <1>2
<1>5. \A i \in 1..n : m + i \in 1..(m + n) /\ st[m + i] = t[i]
  BY <1>1, <1>2
<1>6. \A i \in 1..(m + n) : i \in 1..m \/ (i > m /\ i - m \in 1..n /\ m + (i - m) = i)
  BY <1>1
<1>7. Ordered(st)
  <2> SUFFICES ASSUME NEW i \in 1..(m + n), NEW j \in 1..(m + n), i < j
               PROVE  Rank(st[i].op) < Rank(st[j].op)
    BY <1>3 DEF Ordered
  <2>1. CASE j \in 1..m
    <3>1. i \in 1..m
      BY <1>1, <2>1
    <3> QED BY <1>1, <1>4, <2>1, <3>1 DEF Ordered
  <2>2. CASE i \in 1..m /\ j \notin 1..m
    <3>1. j - m \in 1..n /\ st[j] = t[j - m]
      BY <1>5, <1>6, <2>2
    <3>2. s[i] \in Elements(s) /\ t[j - m] \in Elements(t)
      BY <1>1, <2>2, <3>1 DEF Elements
    <3> QED BY <1>4, <2>2, <3>1, <3>2
  <2>3. CASE i \notin 1..m
    <3>1. j \notin 1..m
      BY <1>1, <2>3
    <3>2. i - m \in 1..n /\ j - m \in 1..n /\ st[i] = t[i - m] /\ st[j] = t[j - m]
      BY <1>5, <1>6, <2>3, <3>1
    <3>3. i - m < j - m
      BY <1>1
    <3> QED BY <1>1, <3>2, <3>3 DEF Ordered
  <2> QED BY <2>1, <2>2, <2>3
<1>8. Elements(st) = Elements(s) \cup Elements(t)
  <2>1. Elements(st) = {st[i] : i \in 1..(m + n)} /\ Elements(s) = {s[i] : i \in 1..m}
        /\ Elements(t) = {t[i] : i \in 1..n}
    BY <1>1, <1>3 DEF Elements
  <2>2. \A i \in 1..(m + n) : st[i] \in Elements(s) \cup Elements(t)
    <3> TAKE i \in 1..(m + n)
    <3>1. CASE i \in 1..m
      BY <1>4, <2>1, <3>1
    <3>2. CASE i \notin 1..m
      <4>1. i - m \in 1..n /\ st[i] = t[i - m]
        BY <1>5, <1>6, <3>2
      <4> QED BY <2>1, <4>1
    <3> QED BY <3>1, <3>2
  <2>3. \A i \in 1..m : s[i] \in Elements(st)
    BY <1>4, <2>1
  <2>4. \A i \in 1..n : t[i] \in Elements(st)
    BY <1>5, <2>1
  <2> QED BY <2>1, <2>2, <2>3, <2>4
<1> QED
  BY <1>2, <1>7, <1>8 DEF st, S

\* Nothing to do is a script.
LEMMA EmptyScript == ASSUME NEW a PROVE Script(<< >>, a) /\ Elements(<< >>) = {}
<1>1. << >> \in Seq(AgentWrites(a)) /\ DOMAIN << >> = {}
  OBVIOUS
<1> QED
  BY <1>1 DEF Script, Ordered, Coherent, Elements

\* Three writes of growing rank.
LEMMA ThreeWrites ==
  ASSUME NEW a, NEW x \in AgentWrites(a), NEW y \in AgentWrites(a), NEW z \in AgentWrites(a),
         Rank(x.op) < Rank(y.op), Rank(y.op) < Rank(z.op)
  PROVE  /\ << x, y, z >> \in Seq(AgentWrites(a)) /\ Ordered(<< x, y, z >>)
         /\ Elements(<< x, y, z >>) = {x, y, z}
<1> DEFINE s == << x, y, z >>
<1>1. s \in Seq(AgentWrites(a))
  OBVIOUS
<1>2. DOMAIN s = {1, 2, 3} /\ s[1] = x /\ s[2] = y /\ s[3] = z
  OBVIOUS
<1>3. Rank(x.op) \in Nat /\ Rank(y.op) \in Nat /\ Rank(z.op) \in Nat
  BY DEF Rank
<1> HIDE DEF s
<1>4. Elements(s) = {x, y, z}
  BY <1>2 DEF Elements
<1>5. \A i, j \in {1, 2, 3} : i < j => Rank(s[i].op) < Rank(s[j].op)
  <2>1. Rank(x.op) < Rank(z.op)
    BY <1>3
  <2> QED BY <1>2, <2>1
<1> QED
  BY <1>1, <1>2, <1>4, <1>5 DEF Ordered, s

\* Direct and proxied applications of a binding, as they are written out in Apply.
DirectWrites(a, b, c) == {W("unregister", a, None), W("write", a, c), W("record", a, b.provider)}
ProxiedWrites(a, b, t) ==
  {W("register", a, t), W("point", a, t.model), W("record", a, b.provider)}

LEMMA DirectScript ==
  ASSUME NEW a \in Agents, NEW b \in Binding, NEW c \in Configs
  PROVE  LET s == << W("unregister", a, None), W("write", a, c), W("record", a, b.provider) >>
         IN Script(s, a) /\ Elements(s) = DirectWrites(a, b, c)
<1> DEFINE x == W("unregister", a, None)
           y == W("write", a, c)
           z == W("record", a, b.provider)
<1>1. /\ x \in AgentWrites(a) /\ y \in AgentWrites(a) /\ z \in AgentWrites(a)
      /\ x.op = "unregister" /\ y.op = "write" /\ z.op = "record"
  BY DEF W, AgentWrites, Binding
<1>2. Rank("unregister") = 1 /\ Rank("write") = 2 /\ Rank("record") = 3
  BY DEF Rank, RouteOps, ConfigOps
<1> HIDE DEF x, y, z
<1>3. /\ << x, y, z >> \in Seq(AgentWrites(a)) /\ Ordered(<< x, y, z >>)
      /\ Elements(<< x, y, z >>) = {x, y, z}
  <2>1. Rank(x.op) < Rank(y.op) /\ Rank(y.op) < Rank(z.op)
    BY <1>1, <1>2
  <2> QED BY <1>1, <2>1, ThreeWrites
<1>4. Coherent({x, y, z})
  BY <1>1 DEF Coherent, ConfigOps
<1> QED
  BY <1>3, <1>4 DEF Script, DirectWrites, x, y, z

LEMMA ProxiedScript ==
  ASSUME NEW a \in Agents, NEW b \in Binding, NEW t \in RouteTargets
  PROVE  LET s == << W("register", a, t), W("point", a, t.model), W("record", a, b.provider) >>
         IN Script(s, a) /\ Elements(s) = ProxiedWrites(a, b, t)
<1> DEFINE x == W("register", a, t)
           y == W("point", a, t.model)
           z == W("record", a, b.provider)
<1>1. /\ x \in AgentWrites(a) /\ y \in AgentWrites(a) /\ z \in AgentWrites(a)
      /\ x.op = "register" /\ y.op = "point" /\ z.op = "record"
  <2>1. t.model \in BoundModels
    BY DEF RouteTargets, BoundModels
  <2> QED BY <2>1 DEF W, AgentWrites, Binding
<1>2. Rank("register") = 1 /\ Rank("point") = 2 /\ Rank("record") = 3
  BY DEF Rank, RouteOps, ConfigOps
<1> HIDE DEF x, y, z
<1>3. /\ << x, y, z >> \in Seq(AgentWrites(a)) /\ Ordered(<< x, y, z >>)
      /\ Elements(<< x, y, z >>) = {x, y, z}
  <2>1. Rank(x.op) < Rank(y.op) /\ Rank(y.op) < Rank(z.op)
    BY <1>1, <1>2
  <2> QED BY <1>1, <2>1, ThreeWrites
<1>4. Coherent({x, y, z})
  BY <1>1 DEF Coherent, ConfigOps
<1> QED
  BY <1>3, <1>4 DEF Script, ProxiedWrites, x, y, z

\* Apply writes nothing, or the three writes of its plan.
LEMMA ApplyScript ==
  ASSUME DocTyped(mem), NEW groups \in [Groups -> MemberLists \cup {None}],
         NEW a \in Agents, NEW b \in Binding
  PROVE  LET s == Apply(groups, a, b)
             plan == Plan(groups, a, b)
         IN /\ Script(s, a)
            /\ \/ plan = Refused /\ s = << >> /\ Elements(s) = {}
               \/ \E c \in Configs : /\ plan = [kind |-> "direct", config |-> c]
                                     /\ Elements(s) = DirectWrites(a, b, c)
               \/ \E t \in RouteTargets : /\ plan = [kind |-> "proxied", target |-> t]
                                          /\ t.provider = b.provider /\ port # 0
                                          /\ Elements(s) = ProxiedWrites(a, b, t)
<1> DEFINE plan == Plan(groups, a, b)
           s == Apply(groups, a, b)
<1>1. PlanTyped(plan, b)
  BY PlansTyped
<1>2. s = CASE plan.kind = "direct" ->
                 << W("unregister", a, None), W("write", a, plan.config), W("record", a, b.provider) >>
            [] plan.kind = "proxied" ->
                 << W("register", a, plan.target), W("point", a, plan.target.model),
                    W("record", a, b.provider) >>
            [] OTHER -> << >>
  BY DEF Apply
<1> HIDE DEF plan, s
<1>3. CASE plan = Refused
  <2>1. s = << >>
    BY <1>2, <1>3 DEF Refused
  <2> QED BY <1>3, <2>1, EmptyScript DEF s, plan
<1>4. ASSUME NEW c \in Configs, plan = [kind |-> "direct", config |-> c]
      PROVE  Script(s, a) /\ Elements(s) = DirectWrites(a, b, c)
  <2>1. s = << W("unregister", a, None), W("write", a, c), W("record", a, b.provider) >>
    BY <1>2, <1>4
  <2> QED BY <2>1, DirectScript
<1>5. ASSUME NEW t \in RouteTargets, plan = [kind |-> "proxied", target |-> t]
      PROVE  Script(s, a) /\ Elements(s) = ProxiedWrites(a, b, t)
  <2>1. s = << W("register", a, t), W("point", a, t.model), W("record", a, b.provider) >>
    BY <1>2, <1>5
  <2> QED BY <2>1, ProxiedScript
<1> QED
  BY <1>1, <1>3, <1>4, <1>5 DEF PlanTyped, s, plan

\* setBinding's script: the application, then the record of the binding.
LEMMA BindScript ==
  ASSUME NEW a \in Agents, NEW b \in Binding, NEW s, Script(s, a),
         \A v \in Elements(s) : v.op \notin {"restore", "unbind", "forget", "bind"}
  PROVE  /\ Script(Append(s, W("bind", a, b)), a)
         /\ Elements(Append(s, W("bind", a, b))) = Elements(s) \cup {W("bind", a, b)}
<1> DEFINE w == W("bind", a, b)
<1>1. w \in AgentWrites(a) /\ w.op = "bind"
  BY DEF W, AgentWrites
<1>2. \A v \in Elements(s) : v \in AgentWrites(a)
  BY DEF Script, Elements
<1>3. \A v \in Elements(s) : Rank(v.op) < Rank(w.op)
  <2> SUFFICES ASSUME NEW v \in Elements(s) PROVE Rank(v.op) < Rank(w.op)
    OBVIOUS
  <2>1. v.op \in {"register", "unregister", "unbind", "forget", "restore", "write", "point", "record", "bind"}
    BY <1>2 DEF AgentWrites
  <2>2. v.op \in {"register", "unregister", "write", "point", "record"}
    BY <2>1
  <2> QED BY <1>1, <2>2 DEF Rank, RouteOps, ConfigOps
<1> HIDE DEF w
<1>4. /\ Append(s, w) \in Seq(AgentWrites(a)) /\ Ordered(Append(s, w))
      /\ Elements(Append(s, w)) = Elements(s) \cup {w}
  <2>1. <<w>> \in Seq(AgentWrites(a)) /\ Ordered(<<w>>) /\ Elements(<<w>>) = {w}
    BY <1>1, OneWrite
  <2>2. s \in Seq(AgentWrites(a)) /\ Ordered(s)
    BY DEF Script
  <2>3. Append(s, w) = s \o <<w>>
    BY <1>1, <2>2, AppendIsConcat
  <2> HIDE DEF Rank
  <2>4. \A v \in Elements(s), u \in Elements(<<w>>) : Rank(v.op) < Rank(u.op)
    BY <1>3, <2>1
  <2>5. /\ s \o <<w>> \in Seq(AgentWrites(a)) /\ Ordered(s \o <<w>>)
        /\ Elements(s \o <<w>>) = Elements(s) \cup Elements(<<w>>)
    BY <2>1, <2>2, <2>4, Joined
  <2> QED BY <2>1, <2>3, <2>5
<1>5. Coherent(Elements(s) \cup {w})
  BY <1>1 DEF Script, Coherent, ConfigOps
<1> QED
  BY <1>4, <1>5 DEF Script, w

\* Unbind as a set of writes: a record is cleared only where there is one.
UnbindWrites(a) ==
  {W("unregister", a, None)}
  \cup (IF mem.binding[a] = None THEN {} ELSE {W("unbind", a, None)})
  \cup (IF mem.applied[a] = None THEN {} ELSE {W("forget", a, None)})

\* clearBinding's script, alone and after a config was restored.
LEMMA UnbindScripts ==
  ASSUME NEW a \in Agents
  PROVE  /\ Script(<< W("unregister", a, None) >>, a)
         /\ Elements(<< W("unregister", a, None) >>) = {W("unregister", a, None)}
         /\ Script(Unbind(a), a) /\ Elements(Unbind(a)) = UnbindWrites(a)
         /\ Script(<< W("restore", a, None) >> \o Unbind(a), a)
         /\ Elements(<< W("restore", a, None) >> \o Unbind(a))
              = {W("restore", a, None)} \cup UnbindWrites(a)
<1> DEFINE r == W("restore", a, None)
           x == W("unregister", a, None)
           y == W("unbind", a, None)
           z == W("forget", a, None)
           bound == mem.binding[a] # None
           applied == mem.applied[a] # None
           AW == AgentWrites(a)
<1>1. /\ r \in AgentWrites(a) /\ x \in AgentWrites(a) /\ y \in AgentWrites(a) /\ z \in AgentWrites(a)
      /\ r.op = "restore" /\ x.op = "unregister" /\ y.op = "unbind" /\ z.op = "forget"
  BY DEF W, AgentWrites
<1>2. /\ Rank("restore") = 0 /\ Rank("unregister") = 1 /\ Rank("unbind") = 4 /\ Rank("forget") = 5
  BY DEF Rank, RouteOps, ConfigOps
<1>3. Unbind(a) = << x >> \o (IF bound THEN << y >> ELSE << >>) \o (IF applied THEN << z >> ELSE << >>)
  BY Zenon DEF Unbind
<1>4. UnbindWrites(a) = {x} \cup (IF bound THEN {y} ELSE {}) \cup (IF applied THEN {z} ELSE {})
  BY Zenon DEF UnbindWrites
<1> DEFINE P == IF bound THEN << y >> ELSE << >>
           Q == IF applied THEN << z >> ELSE << >>
           ys == IF bound THEN {y} ELSE {}
           zs == IF applied THEN {z} ELSE {}
           Is(s, S) == s \in Seq(AgentWrites(a)) /\ Ordered(s) /\ Elements(s) = S
<1> HIDE DEF r, x, y, z, bound, applied
<1>5. Is(<<x>>, {x}) /\ Is(<<y>>, {y}) /\ Is(<<z>>, {z}) /\ Is(<<r>>, {r}) /\ Is(<< >>, {})
  BY <1>1, OneWrite, EmptyScript DEF Script
<1>6. ASSUME NEW s, NEW S, Is(s, S), NEW t, NEW T, Is(t, T),
             \A v \in S, w \in T : Rank(v.op) < Rank(w.op)
      PROVE  Is(s \o t, S \cup T)
  BY <1>6, Joined
<1> HIDE DEF Is
<1>7. Is(P, ys) /\ Is(Q, zs)
  BY <1>5
<1>8. ys \subseteq {y} /\ zs \subseteq {z}
  OBVIOUS
<1> HIDE DEF P, Q, ys, zs
<1>9. Is(<<x>> \o P, {x} \cup ys)
  <2>1. \A v \in {x}, w \in ys : Rank(v.op) < Rank(w.op)
    BY <1>1, <1>2, <1>8
  <2> QED BY <1>5, <1>6, <1>7, <2>1
<1>10. Is((<<x>> \o P) \o Q, ({x} \cup ys) \cup zs)
  <2>1. \A v \in {x} \cup ys, w \in zs : Rank(v.op) < Rank(w.op)
    BY <1>1, <1>2, <1>8
  <2> QED BY <1>6, <1>7, <1>9, <2>1
<1>11. Is(Unbind(a), UnbindWrites(a)) /\ Is(<<r>> \o Unbind(a), {r} \cup UnbindWrites(a))
  <2>1. Unbind(a) = (<<x>> \o P) \o Q /\ UnbindWrites(a) = ({x} \cup ys) \cup zs
    BY <1>3, <1>4, Zenon DEF P, Q, ys, zs
  <2>2. Is(Unbind(a), UnbindWrites(a))
    BY <1>10, <2>1
  <2>3. \A v \in {r}, w \in UnbindWrites(a) : Rank(v.op) < Rank(w.op)
    BY <1>1, <1>2, <1>8, <2>1
  <2> QED BY <1>5, <1>6, <2>2, <2>3
<1>12. Coherent({x}) /\ Coherent(UnbindWrites(a)) /\ Coherent({r} \cup UnbindWrites(a))
  BY <1>1, <1>4 DEF Coherent, ConfigOps
<1> QED
  BY <1>5, <1>11, <1>12 DEF Is, Script, r, x

(***************************************************************************)
(* The route registry under the writes of the handlers.                    *)
(***************************************************************************)
RoutesGood == Router!RouterTypeOK /\ Router!MapsInverse

SnapshotGood ==
  /\ Router!snapshot \subseteq Router!PersistedRoute
  /\ \A r, s \in Router!snapshot : r.token = s.token \/ r.spec.agentId = s.spec.agentId => r = s
  /\ \A r \in Router!snapshot : r.token = tokenByAgent[r.spec.agentId] /\ r.spec = byToken[r.token]
  /\ \A a \in Agents : Router!Routed(a) => \E r \in Router!snapshot : r.spec.agentId = a

SavedGood == saved \subseteq Router!PersistedRoute /\ Router!SavedCollisionFree

\* The registry's assumptions hold of its instance here.
LEMMA RegistryAssumptions ==
  /\ NoToken \notin Tokens
  /\ NoSpec \notin Registry!RouteSpec \cup [token : Tokens, target : RouteTargets]
  /\ NoSpec \notin Router!RouteSpec
BY BindingsAssumption DEF Registry!RouteSpec, Router!RouteSpec

\* A consistent registry has an exact snapshot.
LEMMA SnapshotIsGood == RoutesGood => SnapshotGood
<1> SUFFICES ASSUME RoutesGood PROVE SnapshotGood
  OBVIOUS
<1>1. Registry!RouterTypeOK /\ Registry!MapsInverse
  BY DEF RoutesGood, Router!RouterTypeOK, Router!MapsInverse, Router!has, Router!RouteSpec,
         Registry!RouterTypeOK, Registry!MapsInverse, Registry!has, Registry!RouteSpec
<1>2. Registry!SnapshotExact
  BY <1>1, RegistryAssumptions, Registry!SnapshotGood, Zenon
<1> QED
  BY <1>2, Zenon
     DEF SnapshotGood, Registry!SnapshotExact, Router!snapshot, Registry!snapshot,
         Router!PersistedRoute, Registry!PersistedRoute, Router!RouteSpec, Registry!RouteSpec,
         Router!Routed, Registry!Routed, Router!has, Registry!has

\* register() gives the agent the route, with its old token when the target is
\* the same, and leaves every other agent's route alone.
LEMMA RegisterEffect ==
  ASSUME RoutesGood, NEW a \in Agents, NEW t \in RouteTargets, NEW fresh \in Tokens \ Referenced,
         Router!register(a, t, fresh)
  PROVE  /\ RoutesGood'
         /\ tokenByAgent'[a] \in Tokens
         /\ byToken'[tokenByAgent'[a]] = [agentId |-> a, target |-> t]
         /\ Router!SameTarget(a, t) => tokenByAgent' = tokenByAgent /\ byToken' = byToken
         /\ \A b \in Agents \ {a} :
              /\ tokenByAgent'[b] = tokenByAgent[b]
              /\ tokenByAgent[b] # NoToken => byToken'[tokenByAgent[b]] = byToken[tokenByAgent[b]]
<1>1. Registry!RouterTypeOK /\ Registry!MapsInverse /\ Registry!register(a, t, fresh)
  BY DEF RoutesGood, Router!RouterTypeOK, Router!MapsInverse, Router!has, Router!RouteSpec,
         Registry!RouterTypeOK, Registry!MapsInverse, Registry!has, Registry!RouteSpec,
         Router!register, Registry!register, Router!SameTarget, Registry!SameTarget,
         Router!Routed, Registry!Routed
<1>2. fresh \notin {tokenByAgent[b] : b \in Agents}
  BY Zenon DEF Referenced
<1>3. Registry!SameTarget(a, t) \/ fresh \notin Registry!live
  BY <1>1, <1>2 DEF Registry!live, Registry!MapsInverse, Registry!RouterTypeOK, Registry!RouteSpec
<1>4. Registry!RouterTypeOK' /\ Registry!MapsInverse'
  BY <1>1, <1>3, RegistryAssumptions, Registry!RegisterKeepsMaps, Zenon
<1>5. RoutesGood'
  BY <1>4, Zenon DEF RoutesGood, Router!RouterTypeOK, Router!MapsInverse, Router!has, Router!RouteSpec,
         Registry!RouterTypeOK, Registry!MapsInverse, Registry!has, Registry!RouteSpec
<1> DEFINE spec == [agentId |-> a, target |-> t]
<1> USE DEF RoutesGood, Router!RouterTypeOK, Router!MapsInverse, Router!has
<1>6. CASE Router!SameTarget(a, t)
  <2>1. /\ byToken' = [byToken EXCEPT ![tokenByAgent[a]] = spec]
        /\ tokenByAgent' = tokenByAgent
    BY <1>6 DEF Router!register
  <2>2. tokenByAgent[a] \in Tokens /\ byToken[tokenByAgent[a]] = spec
    <3>1. tokenByAgent[a] \in Tokens /\ byToken[tokenByAgent[a]] \in Router!RouteSpec
          /\ byToken[tokenByAgent[a]].agentId = a /\ byToken[tokenByAgent[a]].target = t
      BY <1>6 DEF Router!SameTarget, Router!Routed
    <3> QED BY <3>1 DEF Router!RouteSpec
  <2>3. byToken' = byToken
    BY <2>1, <2>2
  <2> QED BY <1>5, <2>1, <2>2, <2>3
<1>7. CASE ~Router!SameTarget(a, t)
  <2>1. /\ byToken' = [tok \in Tokens |->
                           IF tok = fresh THEN spec
                           ELSE IF tok = tokenByAgent[a] THEN NoSpec
                           ELSE byToken[tok]]
        /\ tokenByAgent' = [tokenByAgent EXCEPT ![a] = fresh]
    BY <1>7 DEF Router!register
  <2>2. tokenByAgent'[a] = fresh /\ byToken'[fresh] = spec
    BY <2>1
  <2>3. \A b \in Agents \ {a} : tokenByAgent'[b] = tokenByAgent[b]
    BY <2>1
  <2>4. ASSUME NEW b \in Agents \ {a}, tokenByAgent[b] # NoToken
        PROVE  byToken'[tokenByAgent[b]] = byToken[tokenByAgent[b]]
    <3>1. tokenByAgent[b] \in Tokens /\ byToken[tokenByAgent[b]].agentId = b
      BY <2>4
    <3>2. tokenByAgent[b] # fresh /\ tokenByAgent[b] # tokenByAgent[a]
      BY <1>2, <2>4
    <3> QED BY <2>1, <3>1, <3>2
  <2> QED BY <1>5, <1>7, <2>2, <2>3, <2>4
<1> QED
  BY <1>6, <1>7

\* unregister() takes the agent's route and leaves the others alone.
LEMMA UnregisterEffect ==
  ASSUME RoutesGood, NEW a \in Agents, Router!unregister(a)
  PROVE  /\ RoutesGood'
         /\ tokenByAgent'[a] = NoToken
         /\ tokenByAgent[a] = NoToken => tokenByAgent' = tokenByAgent /\ byToken' = byToken
         /\ \A b \in Agents \ {a} :
              /\ tokenByAgent'[b] = tokenByAgent[b]
              /\ tokenByAgent[b] # NoToken => byToken'[tokenByAgent[b]] = byToken[tokenByAgent[b]]
<1>1. Registry!RouterTypeOK /\ Registry!MapsInverse /\ Registry!unregister(a)
  BY DEF RoutesGood, Router!RouterTypeOK, Router!MapsInverse, Router!has, Router!RouteSpec,
         Registry!RouterTypeOK, Registry!MapsInverse, Registry!has, Registry!RouteSpec,
         Router!unregister, Registry!unregister
<1>2. Registry!RouterTypeOK' /\ Registry!MapsInverse'
  BY <1>1, RegistryAssumptions, Registry!UnregisterKeepsMaps, Zenon
<1>3. RoutesGood'
  BY <1>2, Zenon DEF RoutesGood, Router!RouterTypeOK, Router!MapsInverse, Router!has, Router!RouteSpec,
         Registry!RouterTypeOK, Registry!MapsInverse, Registry!has, Registry!RouteSpec
<1> USE DEF RoutesGood, Router!RouterTypeOK, Router!MapsInverse, Router!has
<1>4. /\ byToken' = [tok \in Tokens |-> IF tok = tokenByAgent[a] THEN NoSpec ELSE byToken[tok]]
      /\ tokenByAgent' = [tokenByAgent EXCEPT ![a] = NoToken]
  BY DEF Router!unregister
<1>5. ASSUME NEW b \in Agents \ {a}, tokenByAgent[b] # NoToken
      PROVE  byToken'[tokenByAgent[b]] = byToken[tokenByAgent[b]]
  <2>1. tokenByAgent[b] \in Tokens /\ byToken[tokenByAgent[b]].agentId = b
    BY <1>5
  <2>2. tokenByAgent[b] # tokenByAgent[a]
    BY <1>5
  <2> QED BY <1>4, <2>1, <2>2
<1>6. ASSUME tokenByAgent[a] = NoToken
      PROVE  tokenByAgent' = tokenByAgent /\ byToken' = byToken
  BY <1>4, <1>6, RegistryAssumptions
<1> QED
  BY <1>3, <1>4, <1>5, <1>6

\* The two route writes as one: the write's agent alone changes.
LEMMA RouteEffects ==
  ASSUME RoutesGood, NEW a \in Agents, NEW w \in AgentWrites(a), w.op \in RouteOps, RouteEffect(w)
  PROVE  /\ RoutesGood'
         /\ w.op = "unregister" => tokenByAgent'[a] = NoToken
         /\ w.op = "register" => /\ tokenByAgent'[a] \in Tokens
                                 /\ byToken'[tokenByAgent'[a]] = [agentId |-> a, target |-> w.arg]
                                 /\ w.arg \in RouteTargets
         /\ \/ w.op = "unregister" /\ tokenByAgent[a] = NoToken
            \/ w.op = "register" /\ Router!SameTarget(a, w.arg)
            => tokenByAgent' = tokenByAgent /\ byToken' = byToken
         /\ \A b \in Agents \ {a} :
              /\ tokenByAgent'[b] = tokenByAgent[b]
              /\ tokenByAgent[b] # NoToken => byToken'[tokenByAgent[b]] = byToken[tokenByAgent[b]]
<1>1. w.agent = a
  BY DEF AgentWrites
<1>2. CASE w.op = "register"
  <2>1. w.arg \in RouteTargets
    BY <1>2 DEF AgentWrites
  <2>2. PICK fresh \in Tokens \ Referenced : Router!register(a, w.arg, fresh)
    BY <1>1, <1>2 DEF RouteEffect
  <2> QED BY <1>2, <2>1, <2>2, RegisterEffect
<1>3. CASE w.op = "unregister"
  <2>1. Router!unregister(a)
    BY <1>1, <1>3 DEF RouteEffect
  <2> QED BY <1>3, <2>1, UnregisterEffect
<1> QED
  BY <1>2, <1>3 DEF RouteOps

\* A restart rebuilds a consistent registry from the file.
LEMMA Rehydrated == ASSUME SavedGood, Router!rehydrate(saved) PROVE RoutesGood'
<1>1. /\ saved \in SUBSET Registry!PersistedRoute
      /\ \A r, s \in saved : r.token = s.token \/ r.spec.agentId = s.spec.agentId => r = s
      /\ Registry!rehydrate(saved)
  BY Zenon DEF SavedGood, Router!PersistedRoute, Registry!PersistedRoute, Router!RouteSpec, Registry!RouteSpec,
         Router!SavedCollisionFree, Router!rehydrate, Registry!rehydrate
<1>2. Registry!RouterTypeOK' /\ Registry!MapsInverse'
  BY <1>1, RegistryAssumptions, Registry!RehydrateExact, Zenon
<1> QED
  BY <1>2, Zenon DEF RoutesGood, Router!RouterTypeOK, Router!MapsInverse, Router!has, Router!RouteSpec,
         Registry!RouterTypeOK, Registry!MapsInverse, Registry!has, Registry!RouteSpec

\* From the snapshot of a consistent registry it rebuilds that registry.
LEMMA RehydratedSame ==
  ASSUME RoutesGood, saved = Router!snapshot, Router!rehydrate(saved)
  PROVE  byToken' = byToken /\ tokenByAgent' = tokenByAgent
<1>1. SnapshotGood
  BY SnapshotIsGood
<1> USE DEF RoutesGood, Router!RouterTypeOK, Router!MapsInverse, Router!has, Router!Routed
<1>2. \A a \in Agents : tokenByAgent[a] # NoToken =>
        \E r \in saved : r.spec.agentId = a /\ r.token = tokenByAgent[a] /\ r.spec = byToken[r.token]
  BY <1>1 DEF SnapshotGood
<1>3. \A r \in saved : /\ r.token \in Tokens /\ r.spec \in Router!RouteSpec /\ r.spec.agentId \in Agents
                       /\ r.token = tokenByAgent[r.spec.agentId] /\ r.spec = byToken[r.token]
  BY <1>1 DEF SnapshotGood, Router!PersistedRoute, Router!RouteSpec
<1>4. \A r, s \in saved : r.token = s.token \/ r.spec.agentId = s.spec.agentId => r = s
  BY <1>1 DEF SnapshotGood
<1>5. tokenByAgent' = tokenByAgent
  <2>1. ASSUME NEW a \in Agents PROVE tokenByAgent'[a] = tokenByAgent[a]
    <3>1. CASE \E r \in saved : r.spec.agentId = a
      <4>1. PICK r \in saved : r.spec.agentId = a
        BY <3>1
      <4>2. (CHOOSE s \in saved : s.spec.agentId = a) = r
        BY <1>4, <4>1
      <4>3. tokenByAgent'[a] = r.token
        BY <3>1, <4>2 DEF Router!rehydrate
      <4> QED BY <1>3, <4>1, <4>3
    <3>2. CASE ~ \E r \in saved : r.spec.agentId = a
      <4>1. tokenByAgent'[a] = NoToken
        BY <3>2 DEF Router!rehydrate
      <4> QED BY <1>2, <3>2, <4>1
    <3> QED BY <3>1, <3>2
  <2>2. tokenByAgent' = [a \in Agents |-> tokenByAgent'[a]]
    BY DEF Router!rehydrate
  <2> QED BY <2>1, <2>2
<1>6. byToken' = byToken
  <2>1. ASSUME NEW tok \in Tokens PROVE byToken'[tok] = byToken[tok]
    <3>1. CASE \E r \in saved : r.token = tok
      <4>1. PICK r \in saved : r.token = tok
        BY <3>1
      <4>2. (CHOOSE s \in saved : s.token = tok) = r
        BY <1>4, <4>1
      <4>3. byToken'[tok] = r.spec
        BY <3>1, <4>2 DEF Router!rehydrate
      <4> QED BY <1>3, <4>1, <4>3
    <3>2. CASE ~ \E r \in saved : r.token = tok
      <4>1. byToken'[tok] = NoSpec
        BY <3>2 DEF Router!rehydrate
      <4>2. ASSUME byToken[tok] # NoSpec PROVE FALSE
        <5>1. byToken[tok].agentId \in Agents /\ tokenByAgent[byToken[tok].agentId] = tok
          BY <4>2 DEF Router!RouteSpec
        <5>2. tok # NoToken
          BY RegistryAssumptions
        <5> QED BY <1>2, <3>2, <5>1, <5>2
      <4> QED BY <4>1, <4>2
    <3> QED BY <3>1, <3>2
  <2>2. byToken' = [tok \in Tokens |-> byToken'[tok]]
    BY DEF Router!rehydrate
  <2> QED BY <2>1, <2>2
<1> QED
  BY <1>5, <1>6

(***************************************************************************)
(* What a handler starts with.                                             *)
(***************************************************************************)

\* The writes of an application of binding b to agent a, whatever its plan.
Applies(writes, a, b) ==
  \/ \E c \in Configs : writes = DirectWrites(a, b, c)
  \/ \E t \in RouteTargets : t.provider = b.provider /\ writes = ProxiedWrites(a, b, t)

Available(b) == IF b.provider \in Groups THEN mem.groups[b.provider] # None
                ELSE mem.pool[b.provider] # None

BoundTo(a, p) == mem.binding[a] # None /\ mem.binding[a].provider = p

\* The writes for one agent: none, the agent's binding applied again, a new
\* binding applied and recorded, an unbinding, or the loss of a route whose
\* provider is about to go.
AgentStarts(writes, last, a) ==
  \/ writes = {}
  \/ mem.binding[a] # None /\ Applies(writes, a, mem.binding[a])
  \/ \E b \in Binding, applied \in SUBSET AgentWrites(a) :
       /\ Available(b) /\ Applies(applied, a, b)
       /\ writes = applied \cup {W("bind", a, b)}
       /\ last = {}
  \/ writes = UnbindWrites(a) /\ \A p \in Providers : W("dropProvider", None, p) \notin last
  \/ writes = {W("restore", a, None)} \cup UnbindWrites(a) /\ last = {}
  \/ \E p \in Providers : /\ writes = {W("unregister", a, None)}
                          /\ BoundTo(a, p) /\ W("dropProvider", None, p) \in last

\* A removed group loses its agents first, a removed provider their routes.
LastStarts(t) ==
  /\ \A g \in Groups : W("dropGroup", None, g) \in Elements(t.last) =>
       \A a \in Agents : BoundTo(a, g) => Elements(t.each[a]) = UnbindWrites(a)
  /\ \A p \in Providers : W("dropProvider", None, p) \in Elements(t.last) =>
       /\ \A a \in Agents : BoundTo(a, p) => Elements(t.each[a]) = {W("unregister", a, None)}
       /\ \A a \in Agents : ~BoundTo(a, p) => Elements(t.each[a]) = {}

Starts(t) ==
  /\ TodoTyped(t)
  /\ \A a \in Agents : AgentStarts(Elements(t.each[a]), Elements(t.last), a)
  /\ LastStarts(t)

LEMMA NothingElements == Elements(<< >>) = {}
BY DEF Elements

LEMMA WriteFields == \A op, a, x : W(op, a, x).op = op /\ W(op, a, x).agent = a /\ W(op, a, x).arg = x
BY DEF W

\* A job without a last part that gives every agent a script it may start with.
LEMMA LoopStarts ==
  ASSUME NEW t, t = [first |-> t.first, each |-> t.each, last |-> << >>],
         t.first \in Seq(FirstWrites),
         t.each = [a \in Agents |-> t.each[a]],
         \A a \in Agents : Script(t.each[a], a) /\ AgentStarts(Elements(t.each[a]), {}, a)
  PROVE  Starts(t)
<1>1. t.last = << >>
  OBVIOUS
<1>2. t.last \in Seq(LastWrites) /\ Elements(t.last) = {}
  BY <1>1, NothingElements
<1>3. TodoTyped(t)
  BY <1>1, <1>2 DEF TodoTyped
<1>4. LastStarts(t)
  BY <1>2 DEF LastStarts
<1>5. \A a \in Agents : AgentStarts(Elements(t.each[a]), Elements(t.last), a)
  BY <1>2
<1> QED
  BY <1>3, <1>4, <1>5 DEF Starts

\* ForAgents gives each agent its script and does nothing else.
LEMMA ForAgentsStarts ==
  ASSUME NEW f, f = [a \in Agents |-> f[a]],
         \A a \in Agents : Script(f[a], a) /\ AgentStarts(Elements(f[a]), {}, a)
  PROVE  Starts(ForAgents(f))
<1> DEFINE t == ForAgents(f)
<1>1. t = [first |-> << >>, each |-> f, last |-> << >>]
  BY DEF ForAgents, Done
<1>2. << >> \in Seq(FirstWrites)
  OBVIOUS
<1> HIDE DEF t
<1>3. t.first = << >> /\ t.each = f
  BY <1>1
<1>4. t = [first |-> t.first, each |-> t.each, last |-> << >>]
  BY <1>1, <1>3
<1>5. t.each = [a \in Agents |-> t.each[a]]
  BY <1>3
<1>6. \A a \in Agents : Script(t.each[a], a) /\ AgentStarts(Elements(t.each[a]), {}, a)
  BY <1>3
<1>7. t.first \in Seq(FirstWrites)
  BY <1>2, <1>3
<1>8. Starts(t)
  BY <1>4, <1>5, <1>6, <1>7, LoopStarts
<1> QED
  BY <1>8 DEF t

LEMMA IdleScript ==
  ASSUME NEW a, NEW last PROVE Script(<< >>, a) /\ AgentStarts(Elements(<< >>), last, a)
BY EmptyScript DEF AgentStarts

LEMMA ForAgentStarts ==
  ASSUME NEW a \in Agents, NEW s, Script(s, a), AgentStarts(Elements(s), {}, a)
  PROVE  Starts(ForAgent(a, s))
<1> DEFINE f == [b \in Agents |-> IF b = a THEN s ELSE << >>]
<1>1. ForAgent(a, s) = ForAgents(f)
  BY DEF ForAgent, ForAgents, Done
<1>2. \A b \in Agents : Script(f[b], b) /\ AgentStarts(Elements(f[b]), {}, b)
  BY IdleScript
<1>3. f = [b \in Agents |-> f[b]]
  OBVIOUS
<1> HIDE DEF f
<1> QED
  BY <1>1, <1>2, <1>3, ForAgentsStarts

\* Applying a binding again.
LEMMA ReapplyStarts ==
  ASSUME DocTyped(mem), NEW groups \in [Groups -> MemberLists \cup {None}],
         NEW a \in Agents, mem.binding[a] # None
  PROVE  LET s == Apply(groups, a, mem.binding[a])
         IN Script(s, a) /\ AgentStarts(Elements(s), {}, a)
<1> DEFINE b == mem.binding[a]
           s == Apply(groups, a, b)
<1>1. b \in Binding
  BY DEF DocTyped
<1> HIDE DEF b
<1>2. /\ Script(s, a)
      /\ Elements(s) = {} \/ Applies(Elements(s), a, b)
  BY <1>1, ApplyScript DEF Applies
<1> QED
  BY <1>2 DEF AgentStarts, b

\* Applying and recording a new one.
LEMMA BindStarts ==
  ASSUME DocTyped(mem), NEW a \in Agents, NEW b \in Binding, Available(b),
         Plan(mem.groups, a, b) # Refused
  PROVE  LET s == Append(Apply(mem.groups, a, b), W("bind", a, b))
         IN Script(s, a) /\ AgentStarts(Elements(s), {}, a)
<1> DEFINE r == Apply(mem.groups, a, b)
           s == Append(r, W("bind", a, b))
<1>1. mem.groups \in [Groups -> MemberLists \cup {None}]
  BY DEF DocTyped
<1>2. Script(r, a) /\ Applies(Elements(r), a, b)
  BY <1>1, ApplyScript DEF Applies
<1> HIDE DEF r
<1>3. \A v \in Elements(r) : v.op \notin {"restore", "unbind", "forget", "bind"}
  BY <1>2, WriteFields DEF Applies, DirectWrites, ProxiedWrites
<1>4. Script(s, a) /\ Elements(s) = Elements(r) \cup {W("bind", a, b)}
  BY <1>2, <1>3, BindScript
<1>5. Elements(r) \in SUBSET AgentWrites(a)
  BY <1>2 DEF Script, Elements
<1> QED
  BY <1>2, <1>4, <1>5 DEF AgentStarts, r

(***************************************************************************)
(* Every handler starts so.                                                *)
(***************************************************************************)
Handler ==
  \/ \E a \in Agents : SetBinding(a) \/ ResyncBinding(a) \/ ClearBinding(a) \/ RestoreAgentDefault(a)
  \/ \E p \in Providers : AddProvider(p) \/ UpdateProvider(p) \/ RemoveProvider(p)
  \/ \E g \in Groups : PutRoutingGroup(g) \/ RemoveRoutingGroup(g)
  \/ ApplyBindingProfile

HandlerKinds == {"bind", "unbind", "profile", "edit", "remove", "group"}

StartsHandler(kind, guarded, writes) ==
  /\ kind \in HandlerKinds /\ guarded \in BOOLEAN
  /\ Starts(writes) /\ Start(kind, guarded, writes) /\ UNCHANGED <<port, proxyMode>>

HandlerStarted == \E kind, guarded, writes : StartsHandler(kind, guarded, writes)

LEMMA SetBindingStarts ==
  ASSUME DocTyped(mem), NEW a \in Agents, SetBinding(a) PROVE HandlerStarted
<1>1. PICK b \in BindingOptions :
        /\ Plan(mem.groups, a, b) # Refused
        /\ Start("bind", FALSE, ForAgent(a, Append(Apply(mem.groups, a, b), W("bind", a, b))))
        /\ UNCHANGED <<port, proxyMode, retired>>
  BY Zenon DEF SetBinding
<1>2. b \in Binding /\ Available(b)
  BY BindingsAssumption DEF BindingOptions, Binding, Available
<1> DEFINE s == Append(Apply(mem.groups, a, b), W("bind", a, b))
<1>3. Script(s, a) /\ AgentStarts(Elements(s), {}, a)
  BY <1>1, <1>2, BindStarts
<1> HIDE DEF s
<1>4. Starts(ForAgent(a, s))
  BY <1>3, ForAgentStarts
<1> QED
  BY <1>1, <1>4, Zenon DEF HandlerStarted, StartsHandler, HandlerKinds, s

LEMMA ResyncBindingStarts ==
  ASSUME DocTyped(mem), NEW a \in Agents, ResyncBinding(a) PROVE HandlerStarted
<1> DEFINE s == Apply(mem.groups, a, mem.binding[a])
<1>1. /\ mem.binding[a] # None
      /\ Start("bind", FALSE, ForAgent(a, s))
      /\ UNCHANGED <<port, proxyMode, retired>>
  BY Zenon DEF ResyncBinding
<1>2. Script(s, a) /\ AgentStarts(Elements(s), {}, a)
  <2>1. mem.groups \in [Groups -> MemberLists \cup {None}]
    BY DEF DocTyped
  <2> QED BY <1>1, <2>1, ReapplyStarts
<1> HIDE DEF s
<1>3. Starts(ForAgent(a, s))
  BY <1>2, ForAgentStarts
<1> QED
  BY <1>1, <1>3, Zenon DEF HandlerStarted, StartsHandler, HandlerKinds

LEMMA UnbindingStarts ==
  ASSUME DocTyped(mem), NEW a \in Agents, ClearBinding(a) \/ RestoreAgentDefault(a)
  PROVE  HandlerStarted
<1>1. /\ Script(Unbind(a), a) /\ AgentStarts(Elements(Unbind(a)), {}, a)
      /\ Script(<< W("restore", a, None) >> \o Unbind(a), a)
      /\ AgentStarts(Elements(<< W("restore", a, None) >> \o Unbind(a)), {}, a)
  BY UnbindScripts DEF AgentStarts
<1> DEFINE s == Unbind(a)
           r == << W("restore", a, None) >> \o Unbind(a)
<1>2. (Start("unbind", FALSE, ForAgent(a, s)) \/ Start("unbind", FALSE, ForAgent(a, r)))
      /\ UNCHANGED <<port, proxyMode>>
  BY Zenon DEF ClearBinding, RestoreAgentDefault
<1> HIDE DEF s, r
<1>3. Starts(ForAgent(a, s)) /\ Starts(ForAgent(a, r))
  BY <1>1, ForAgentStarts DEF s, r
<1> QED
  BY <1>2, <1>3, Zenon DEF HandlerStarted, StartsHandler, HandlerKinds

LEMMA ProfileStarts ==
  ASSUME DocTyped(mem), ApplyBindingProfile PROVE HandlerStarted
<1>1. PICK profile \in Profiles :
        Start("profile", FALSE, ProfileWrites(profile)) /\ UNCHANGED <<port, proxyMode>>
  BY Zenon DEF ApplyBindingProfile
<1>2. profile \in [Agents -> Binding \cup {None}]
  BY BindingsAssumption
<1> DEFINE Missing(b) == IF b.provider \in Groups THEN mem.groups[b.provider] = None
                         ELSE mem.pool[b.provider] = None \/ b.model \notin mem.pool[b.provider].models
           Throws(a) == /\ profile[a] # None /\ ~Missing(profile[a])
                        /\ Plan(mem.groups, a, profile[a]) = Refused
           Before(a) == \A i \in DOMAIN AgentOrder : \A j \in 1..i :
                          AgentOrder[i] = a => ~Throws(AgentOrder[j])
           f == [a \in Agents |->
                   IF ~Before(a) THEN << >>
                   ELSE IF profile[a] = None
                   THEN IF mem.binding[a] = None THEN << >> ELSE Unbind(a)
                   ELSE IF Missing(profile[a]) THEN << >>
                   ELSE Append(Apply(mem.groups, a, profile[a]), W("bind", a, profile[a]))]
<1>3. ProfileWrites(profile) = ForAgents(f)
  BY Zenon DEF ProfileWrites
<1>4. ASSUME NEW a \in Agents PROVE Script(f[a], a) /\ AgentStarts(Elements(f[a]), {}, a)
  <2>1. CASE f[a] = << >>
    BY <2>1, IdleScript
  <2>2. CASE f[a] = Unbind(a)
    BY <2>2, UnbindScripts DEF AgentStarts
  <2>3. CASE /\ Before(a) /\ profile[a] # None /\ ~Missing(profile[a])
             /\ f[a] = Append(Apply(mem.groups, a, profile[a]), W("bind", a, profile[a]))
    <3> DEFINE b == profile[a]
    <3>1. b \in Binding
      BY <1>2, <2>3
    <3>2. Available(b)
      BY <2>3 DEF Available
    <3>3. ~Throws(a)
      <4>1. PICK i \in DOMAIN AgentOrder : AgentOrder[i] = a
        BY DEF Agents, Elements
      <4>2. i \in 1..i
        BY <4>1, BindingsAssumption
      <4> QED BY <2>3, <4>1, <4>2
    <3>4. Plan(mem.groups, a, b) # Refused
      BY <2>3, <3>3
    <3> HIDE DEF b
    <3>5. Script(Append(Apply(mem.groups, a, b), W("bind", a, b)), a)
          /\ AgentStarts(Elements(Append(Apply(mem.groups, a, b), W("bind", a, b))), {}, a)
      BY <3>1, <3>2, <3>4, BindStarts
    <3> QED BY <2>3, <3>5 DEF b
  <2> QED BY <2>1, <2>2, <2>3
<1>5. f = [a \in Agents |-> f[a]]
  OBVIOUS
<1> HIDE DEF f
<1>6. Starts(ForAgents(f))
  BY <1>4, <1>5, ForAgentsStarts
<1> QED
  BY <1>1, <1>3, <1>6, Zenon DEF HandlerStarted, StartsHandler, HandlerKinds

\* A job that only edits a provider's record and key.
LEMMA EditStarts ==
  ASSUME NEW s \in Seq(FirstWrites) PROVE Starts([Done EXCEPT !.first = s])
<1> DEFINE t == [Done EXCEPT !.first = s]
           none == [a \in Agents |-> << >>]
<1>1. t = [first |-> s, each |-> none, last |-> << >>]
  BY DEF Done
<1>2. none = [a \in Agents |-> none[a]]
  OBVIOUS
<1>3. \A a \in Agents : Script(none[a], a) /\ AgentStarts(Elements(none[a]), {}, a)
  BY IdleScript
<1> HIDE DEF t, none
<1>4. t.first = s /\ t.each = none
  BY <1>1
<1>5. Starts(t)
  BY <1>1, <1>2, <1>3, <1>4, LoopStarts
<1> QED
  BY <1>5 DEF t

LEMMA ProviderEditStarts ==
  ASSUME NEW p \in Providers, AddProvider(p) \/ UpdateProvider(p) PROVE HandlerStarted
<1>1. PICK shape \in Shapes, keyOp \in {"keep"} \cup SecretOps :
        LET put == W("putProvider", None, [id |-> p, shape |-> shape])
        IN /\ Start("edit", FALSE,
                    [Done EXCEPT !.first = << put >> \o (IF keyOp = "keep" THEN << >> ELSE << W(keyOp, None, p) >>)])
           /\ UNCHANGED <<port, proxyMode>>
  <2>1. CASE UpdateProvider(p)
    BY <2>1, Zenon DEF UpdateProvider
  <2>2. CASE AddProvider(p)
    <3>1. PICK shape \in Shapes, key \in BOOLEAN :
            /\ Start("edit", FALSE,
             [Done EXCEPT !.first = << W("putProvider", None, [id |-> p, shape |-> shape]) >>
                                    \o (IF key THEN << W("putSecret", None, p) >> ELSE << >>)])
            /\ UNCHANGED <<port, proxyMode>>
      BY <2>2, Zenon DEF AddProvider
    <3>2. CASE key
      <4>1. "putSecret" \in SecretOps /\ "putSecret" # "keep"
        BY DEF SecretOps
      <4> QED BY <3>1, <3>2, <4>1
    <3>3. CASE ~key
      BY <3>1, <3>3
    <3> QED BY <3>2, <3>3
  <2> QED BY <2>1, <2>2
<1> DEFINE put == W("putProvider", None, [id |-> p, shape |-> shape])
           s == << put >> \o (IF keyOp = "keep" THEN << >> ELSE << W(keyOp, None, p) >>)
<1>2. put \in FirstWrites
  BY DEF FirstWrites, W
<1>3. keyOp = "keep" \/ W(keyOp, None, p) \in FirstWrites
  BY DEF FirstWrites, W
<1> HIDE DEF put
<1>4. s \in Seq(FirstWrites)
  <2> DEFINE rest == IF keyOp = "keep" THEN << >> ELSE << W(keyOp, None, p) >>
  <2>1. rest \in Seq(FirstWrites) /\ << put >> \in Seq(FirstWrites)
    BY <1>2, <1>3
  <2> HIDE DEF rest
  <2>2. << put >> \o rest \in Seq(FirstWrites)
    BY <2>1, ConcatProperties
  <2> QED BY <2>2 DEF rest
<1>5. Start("edit", FALSE, [Done EXCEPT !.first = s]) /\ UNCHANGED <<port, proxyMode>>
  BY <1>1, Zenon DEF put
<1> HIDE DEF s
<1>6. Starts([Done EXCEPT !.first = s])
  BY <1>4, EditStarts
<1> QED
  BY <1>5, <1>6, Zenon DEF HandlerStarted, StartsHandler, HandlerKinds

\* removeProvider and removeRoutingGroup: the agents first, the record last.
LEMMA RemovalStarts ==
  ASSUME NEW f, f = [a \in Agents |-> f[a]], NEW last \in Seq(LastWrites),
         \A a \in Agents : Script(f[a], a) /\ AgentStarts(Elements(f[a]), Elements(last), a),
         LastStarts([first |-> << >>, each |-> f, last |-> last])
  PROVE  Starts([first |-> << >>, each |-> f, last |-> last])
<1> DEFINE t == [first |-> << >>, each |-> f, last |-> last]
<1>1. t.first = << >> /\ t.each = f /\ t.last = last
  OBVIOUS
<1>2. t = [first |-> t.first, each |-> t.each, last |-> t.last]
  OBVIOUS
<1>3. << >> \in Seq(FirstWrites)
  OBVIOUS
<1> HIDE DEF t
<1>4. TodoTyped(t)
  BY <1>1, <1>2, <1>3 DEF TodoTyped
<1>5. \A a \in Agents : AgentStarts(Elements(t.each[a]), Elements(t.last), a)
  BY <1>1
<1> QED
  BY <1>4, <1>5, Zenon DEF Starts, t

LEMMA PairOfWrites ==
  ASSUME NEW S, NEW x \in S, NEW y \in S
  PROVE  << x, y >> \in Seq(S) /\ Elements(<< x, y >>) = {x, y}
<1>1. << x, y >> \in Seq(S) /\ DOMAIN << x, y >> = {1, 2} /\ << x, y >>[1] = x /\ << x, y >>[2] = y
  OBVIOUS
<1> QED
  BY <1>1 DEF Elements

LEMMA RemoveProviderStarts ==
  ASSUME DocTyped(mem), NEW p \in Providers, RemoveProvider(p) PROVE HandlerStarted
<1> DEFINE x == W("dropProvider", None, p)
           y == W("dropSecret", None, p)
           f == [a \in Agents |-> IF mem.binding[a] # None /\ mem.binding[a].provider = p
                                  THEN << W("unregister", a, None) >> ELSE << >>]
           t == [first |-> << >>, each |-> f, last |-> << x, y >>]
<1>1. Start("remove", FALSE, t) /\ UNCHANGED <<port, proxyMode>>
  BY Zenon DEF RemoveProvider
<1>2. x \in LastWrites /\ y \in LastWrites /\ x.op = "dropProvider" /\ y.op = "dropSecret" /\ x.arg = p
  BY DEF LastWrites, W
<1> DEFINE last == << x, y >>
<1>3. last \in Seq(LastWrites) /\ Elements(last) = {x, y}
  <2> HIDE DEF x, y
  <2> QED BY <1>2, PairOfWrites
<1>4. \A q : W("dropProvider", None, q) \in Elements(last) => q = p
  BY <1>2, <1>3, WriteFields
<1>5. \A g : W("dropGroup", None, g) \notin Elements(last)
  BY <1>2, <1>3, WriteFields
<1>6. x \in Elements(last)
  BY <1>3
<1> HIDE DEF last
<1>7. \A a \in Agents : /\ BoundTo(a, p) => f[a] = << W("unregister", a, None) >>
                        /\ ~BoundTo(a, p) => f[a] = << >>
  BY DEF BoundTo
<1>8. f = [a \in Agents |-> f[a]]
  OBVIOUS
<1> HIDE DEF f
<1>9. ASSUME NEW a \in Agents
      PROVE  /\ Script(f[a], a) /\ AgentStarts(Elements(f[a]), Elements(last), a)
             /\ BoundTo(a, p) => Elements(f[a]) = {W("unregister", a, None)}
             /\ ~BoundTo(a, p) => Elements(f[a]) = {}
  BY <1>6, <1>7, IdleScript, NothingElements, UnbindScripts DEF AgentStarts
<1> DEFINE u == [first |-> << >>, each |-> f, last |-> last]
<1>10. LastStarts(u)
  <2>1. u.last = last /\ u.each = f
    OBVIOUS
  <2> HIDE DEF u
  <2> QED BY <1>4, <1>5, <1>9, <2>1 DEF LastStarts
<1>11. Starts(u)
  BY <1>3, <1>8, <1>9, <1>10, RemovalStarts
<1> QED
  BY <1>1, <1>11, Zenon DEF HandlerStarted, StartsHandler, HandlerKinds, last

LEMMA RemoveRoutingGroupStarts ==
  ASSUME DocTyped(mem), NEW g \in Groups, RemoveRoutingGroup(g) PROVE HandlerStarted
<1> DEFINE x == W("dropGroup", None, g)
           f == [a \in Agents |-> IF mem.binding[a] # None /\ mem.binding[a].provider = g
                                  THEN Unbind(a) ELSE << >>]
           last == << x >>
           t == [first |-> << >>, each |-> f, last |-> last]
<1>1. Start("remove", FALSE, t) /\ UNCHANGED <<port, proxyMode>>
  BY Zenon DEF RemoveRoutingGroup
<1>2. x \in LastWrites /\ x.op = "dropGroup" /\ x.arg = g
  BY DEF LastWrites, W
<1>3. last \in Seq(LastWrites) /\ Elements(last) = {x}
  <2> HIDE DEF x
  <2>1. << x >> \in Seq(LastWrites) /\ DOMAIN << x >> = {1} /\ << x >>[1] = x
    BY <1>2
  <2> QED BY <2>1 DEF Elements
<1>4. \A h : W("dropGroup", None, h) \in Elements(last) => h = g
  BY <1>2, <1>3, WriteFields
<1>5. \A q : W("dropProvider", None, q) \notin Elements(last)
  BY <1>2, <1>3, WriteFields
<1> HIDE DEF last
<1>6. \A a \in Agents : /\ BoundTo(a, g) => f[a] = Unbind(a)
                        /\ ~BoundTo(a, g) => f[a] = << >>
  BY DEF BoundTo
<1>7. f = [a \in Agents |-> f[a]]
  OBVIOUS
<1> HIDE DEF f
<1>8. ASSUME NEW a \in Agents
      PROVE  /\ Script(f[a], a) /\ AgentStarts(Elements(f[a]), Elements(last), a)
             /\ BoundTo(a, g) => Elements(f[a]) = UnbindWrites(a)
  <2>1. CASE BoundTo(a, g)
    <3>1. f[a] = Unbind(a)
      BY <1>6, <2>1
    <3>2. Script(f[a], a) /\ Elements(f[a]) = UnbindWrites(a)
      BY <3>1, UnbindScripts
    <3>3. AgentStarts(Elements(f[a]), Elements(last), a)
      BY <1>5, <3>2 DEF AgentStarts
    <3> QED BY <3>2, <3>3
  <2>2. CASE ~BoundTo(a, g)
    BY <1>6, <2>2, IdleScript
  <2> QED BY <2>1, <2>2
<1>9. LastStarts(t)
  <2>1. t.last = last /\ t.each = f
    OBVIOUS
  <2> HIDE DEF t
  <2> QED BY <1>4, <1>5, <1>8, <2>1 DEF LastStarts
<1>10. Starts(t)
  BY <1>3, <1>7, <1>8, <1>9, RemovalStarts
<1> QED
  BY <1>1, <1>10, Zenon DEF HandlerStarted, StartsHandler, HandlerKinds

LEMMA PutRoutingGroupStarts ==
  ASSUME DocTyped(mem), NEW g \in Groups, PutRoutingGroup(g) PROVE HandlerStarted
<1>1. PICK members \in MemberLists :
        LET groups == [mem.groups EXCEPT ![g] = members]
            Reapply(a) == IF mem.binding[a] # None /\ mem.binding[a].provider = g
                          THEN Apply(groups, a, mem.binding[a]) ELSE << >>
        IN /\ Start("group", TRUE,
                [first |-> << W("putGroup", None, [id |-> g, members |-> members]) >>,
                 each |-> [a \in Agents |-> Reapply(a)], last |-> << >>])
           /\ UNCHANGED <<port, proxyMode>>
  BY Zenon DEF PutRoutingGroup
<1> DEFINE groups == [mem.groups EXCEPT ![g] = members]
           x == W("putGroup", None, [id |-> g, members |-> members])
           f == [a \in Agents |-> IF mem.binding[a] # None /\ mem.binding[a].provider = g
                          THEN Apply(groups, a, mem.binding[a]) ELSE << >>]
           t == [first |-> << x >>, each |-> f, last |-> << >>]
<1>2. x \in FirstWrites
  BY DEF FirstWrites, W
<1>3. << x >> \in Seq(FirstWrites)
  BY <1>2
<1>4. groups \in [Groups -> MemberLists \cup {None}]
  BY DEF DocTyped
<1>5. Start("group", TRUE, t) /\ UNCHANGED <<port, proxyMode>>
  BY <1>1, Zenon
<1> HIDE DEF x, groups
<1>6. ASSUME NEW a \in Agents PROVE Script(f[a], a) /\ AgentStarts(Elements(f[a]), {}, a)
  <2>1. CASE f[a] = << >>
    BY <2>1, IdleScript
  <2>2. CASE mem.binding[a] # None /\ f[a] = Apply(groups, a, mem.binding[a])
    BY <1>4, <2>2, ReapplyStarts
  <2> QED BY <2>1, <2>2
<1>7. f = [a \in Agents |-> f[a]]
  OBVIOUS
<1> HIDE DEF f
<1>8. t.first = << x >> /\ t.each = f /\ t = [first |-> t.first, each |-> t.each, last |-> << >>]
  OBVIOUS
<1> HIDE DEF t
<1>9. Starts(t)
  <2>1. t.first \in Seq(FirstWrites)
    BY <1>3, <1>8
  <2>2. t.each = [a \in Agents |-> t.each[a]]
    BY <1>7, <1>8
  <2>3. \A a \in Agents : Script(t.each[a], a) /\ AgentStarts(Elements(t.each[a]), {}, a)
    BY <1>6, <1>8
  <2> QED BY <1>8, <2>1, <2>2, <2>3, LoopStarts
<1> QED
  BY <1>5, <1>9, Zenon DEF HandlerStarted, StartsHandler, HandlerKinds

LEMMA HandlersStart == ASSUME DocTyped(mem), Handler PROVE HandlerStarted
BY SetBindingStarts, ResyncBindingStarts, UnbindingStarts, ProviderEditStarts, RemoveProviderStarts,
   PutRoutingGroupStarts, RemoveRoutingGroupStarts, ProfileStarts DEF Handler

\* rebuildRoutes replays the bindings there are.
Replayed(t) ==
  /\ Starts(t) /\ t.first = << >> /\ t.last = << >>
  /\ \A a \in Agents : t.each[a] = IF mem.binding[a] = None THEN << >>
                                   ELSE Apply(mem.groups, a, mem.binding[a])

RebuildIsReplay == Replayed(Rebuild)

LEMMA RebuildStarts == DocTyped(mem) => RebuildIsReplay
<1> SUFFICES ASSUME DocTyped(mem) PROVE Replayed(Rebuild)
  BY DEF RebuildIsReplay
<1> DEFINE f == [a \in Agents |-> IF mem.binding[a] = None THEN << >>
                              ELSE Apply(mem.groups, a, mem.binding[a])]
<1>1. Rebuild = ForAgents(f)
  BY DEF Rebuild
<1>2. mem.groups \in [Groups -> MemberLists \cup {None}]
  BY DEF DocTyped
<1>3. \A a \in Agents : f[a] = IF mem.binding[a] = None THEN << >>
                               ELSE Apply(mem.groups, a, mem.binding[a])
  OBVIOUS
<1>4. f = [a \in Agents |-> f[a]]
  OBVIOUS
<1> HIDE DEF f
<1>5. ASSUME NEW a \in Agents PROVE Script(f[a], a) /\ AgentStarts(Elements(f[a]), {}, a)
  <2>1. CASE mem.binding[a] = None
    BY <1>3, <2>1, IdleScript
  <2>2. CASE mem.binding[a] # None
    BY <1>2, <1>3, <2>2, ReapplyStarts
  <2> QED BY <2>1, <2>2
<1>6. Starts(ForAgents(f))
  BY <1>4, <1>5, ForAgentsStarts
<1>7. ForAgents(f).first = << >> /\ ForAgents(f).last = << >> /\ ForAgents(f).each = f
  BY DEF ForAgents, Done
<1> QED
  BY <1>1, <1>3, <1>6, <1>7 DEF Replayed

(***************************************************************************)
(* The effect of a write of the stores.                                    *)
(***************************************************************************)
AnyWrite(w) == w \in FirstWrites \/ w \in LastWrites \/ \E a \in Agents : w \in AgentWrites(a)

Without(p) == [a \in Agents |-> IF mem.binding[a] # None /\ mem.binding[a].provider = p
                                THEN None ELSE mem.binding[a]]

\* Each write changes one field of the documents, dropProvider two.
LEMMA EditedFields ==
  ASSUME DocTyped(mem), NEW w, AnyWrite(w), w.op \in DocOps
  PROVE  /\ DocTyped(Edited(w))
         /\ Edited(w).pool =
              IF w.op = "putProvider" THEN [mem.pool EXCEPT ![w.arg.id] = w.arg.shape]
              ELSE IF w.op = "dropProvider" THEN [mem.pool EXCEPT ![w.arg] = None]
              ELSE mem.pool
         /\ Edited(w).binding =
              IF w.op = "bind" THEN [mem.binding EXCEPT ![w.agent] = w.arg]
              ELSE IF w.op = "unbind" THEN [mem.binding EXCEPT ![w.agent] = None]
              ELSE IF w.op = "dropProvider" THEN Without(w.arg)
              ELSE mem.binding
         /\ Edited(w).groups =
              IF w.op = "putGroup" THEN [mem.groups EXCEPT ![w.arg.id] = w.arg.members]
              ELSE IF w.op = "dropGroup" THEN [mem.groups EXCEPT ![w.arg] = None]
              ELSE mem.groups
         /\ Edited(w).applied =
              IF w.op = "record"
              THEN [mem.applied EXCEPT ![w.agent] =
                      [base |-> file[w.agent].base, model |-> file[w.agent].model,
                       keySet |-> file[w.agent].key # None, provider |-> w.arg]]
              ELSE IF w.op = "forget" THEN [mem.applied EXCEPT ![w.agent] = None]
              ELSE mem.applied
<1> DEFINE pool == mem.pool  binding == mem.binding  groups == mem.groups  applied == mem.applied
<1>1. /\ mem = [pool |-> pool, binding |-> binding, groups |-> groups, applied |-> applied]
      /\ pool \in [Providers -> Shapes \cup {None}]
      /\ binding \in [Agents -> Binding \cup {None}]
      /\ groups \in [Groups -> MemberLists \cup {None}]
      /\ applied = [a \in Agents |-> applied[a]]
  BY Zenon DEF DocTyped
<1> HIDE DEF pool, binding, groups, applied
<1>2. CASE w.op = "record"
  <2> DEFINE r == [base |-> file[w.agent].base, model |-> file[w.agent].model,
                   keySet |-> file[w.agent].key # None, provider |-> w.arg]
             d == [pool |-> pool, binding |-> binding, groups |-> groups,
                   applied |-> [applied EXCEPT ![w.agent] = r]]
  <2> HIDE DEF r
  <2>1. Edited(w) = [mem EXCEPT !.applied[w.agent] = r]
    BY <1>2 DEF Edited, r
  <2>2. Edited(w) = d
    BY <1>1, <2>1
  <2>3. d.applied = [a \in Agents |-> d.applied[a]]
    BY <1>1
  <2>4. DocTyped(d)
    BY <1>1, <2>3 DEF DocTyped
  <2> QED BY <1>2, <2>2, <2>4 DEF pool, binding, groups, applied, r
<1>3. CASE w.op = "forget"
  <2> DEFINE d == [pool |-> pool, binding |-> binding, groups |-> groups,
                   applied |-> [applied EXCEPT ![w.agent] = None]]
  <2>1. Edited(w) = [mem EXCEPT !.applied[w.agent] = None]
    BY <1>3 DEF Edited
  <2>2. Edited(w) = d
    BY <1>1, <2>1
  <2>3. d.applied = [a \in Agents |-> d.applied[a]]
    BY <1>1
  <2>4. DocTyped(d)
    BY <1>1, <2>3 DEF DocTyped
  <2> QED BY <1>3, <2>2, <2>4 DEF pool, binding, groups, applied
<1>4. CASE w.op = "bind"
  <2> DEFINE d == [pool |-> pool, binding |-> [binding EXCEPT ![w.agent] = w.arg],
                   groups |-> groups, applied |-> applied]
  <2>1. Edited(w) = [mem EXCEPT !.binding[w.agent] = w.arg]
    BY <1>4 DEF Edited
  <2>2. Edited(w) = d
    BY <1>1, <2>1
  <2>3. w.arg \in Binding
    BY <1>4 DEF AnyWrite, FirstWrites, LastWrites, AgentWrites, SecretOps
  <2>4. DocTyped(d)
    BY <1>1, <2>3 DEF DocTyped
  <2> QED BY <1>4, <2>2, <2>4 DEF pool, binding, groups, applied
<1>5. CASE w.op = "unbind"
  <2> DEFINE d == [pool |-> pool, binding |-> [binding EXCEPT ![w.agent] = None],
                   groups |-> groups, applied |-> applied]
  <2>1. Edited(w) = [mem EXCEPT !.binding[w.agent] = None]
    BY <1>5 DEF Edited
  <2>2. Edited(w) = d
    BY <1>1, <2>1
  <2>4. DocTyped(d)
    BY <1>1 DEF DocTyped
  <2> QED BY <1>5, <2>2, <2>4 DEF pool, binding, groups, applied
<1>6. CASE w.op = "putProvider"
  <2> DEFINE d == [pool |-> [pool EXCEPT ![w.arg.id] = w.arg.shape], binding |-> binding,
                   groups |-> groups, applied |-> applied]
  <2>1. Edited(w) = [mem EXCEPT !.pool[w.arg.id] = w.arg.shape]
    BY <1>6 DEF Edited
  <2>2. Edited(w) = d
    BY <1>1, <2>1
  <2>3. w.arg.shape \in Shapes
    BY <1>6 DEF AnyWrite, FirstWrites, LastWrites, AgentWrites, SecretOps
  <2>4. DocTyped(d)
    BY <1>1, <2>3 DEF DocTyped
  <2> QED BY <1>6, <2>2, <2>4 DEF pool, binding, groups, applied
<1>7. CASE w.op = "dropProvider"
  <2> DEFINE d == [pool |-> [pool EXCEPT ![w.arg] = None], binding |-> Without(w.arg),
                   groups |-> groups, applied |-> applied]
  <2>1. Edited(w) = [mem EXCEPT !.pool[w.arg] = None, !.binding = Without(w.arg)]
    BY <1>7, Zenon DEF Edited, WithoutProvider, Without
  <2>2. Edited(w) = d
    BY <1>1, <2>1
  <2>3. Without(w.arg) \in [Agents -> Binding \cup {None}]
    BY <1>1 DEF Without, binding
  <2>4. DocTyped(d)
    BY <1>1, <2>3 DEF DocTyped
  <2> QED BY <1>7, <2>2, <2>4 DEF pool, binding, groups, applied
<1>8. CASE w.op = "putGroup"
  <2> DEFINE d == [pool |-> pool, binding |-> binding,
                   groups |-> [groups EXCEPT ![w.arg.id] = w.arg.members], applied |-> applied]
  <2>1. Edited(w) = [mem EXCEPT !.groups[w.arg.id] = w.arg.members]
    BY <1>8 DEF Edited
  <2>2. Edited(w) = d
    BY <1>1, <2>1
  <2>3. w.arg.members \in MemberLists
    BY <1>8 DEF AnyWrite, FirstWrites, LastWrites, AgentWrites, SecretOps
  <2>4. DocTyped(d)
    BY <1>1, <2>3 DEF DocTyped
  <2> QED BY <1>8, <2>2, <2>4 DEF pool, binding, groups, applied
<1>9. CASE w.op = "dropGroup"
  <2> DEFINE d == [pool |-> pool, binding |-> binding,
                   groups |-> [groups EXCEPT ![w.arg] = None], applied |-> applied]
  <2>1. Edited(w) = [mem EXCEPT !.groups[w.arg] = None]
    BY <1>9 DEF Edited
  <2>2. Edited(w) = d
    BY <1>1, <2>1
  <2>4. DocTyped(d)
    BY <1>1 DEF DocTyped
  <2> QED BY <1>9, <2>2, <2>4 DEF pool, binding, groups, applied
<1> QED
  BY <1>2, <1>3, <1>4, <1>5, <1>6, <1>7, <1>8, <1>9, Zenon DEF DocOps

\* The write saves its own document and leaves the other files as they were.
LEMMA DiskFields ==
  ASSUME DocTyped(disk), NEW m, DocTyped(m), NEW d, NEW w,
         d = [f \in DOMAIN disk |-> IF f \in SavedFields(w) THEN m[f] ELSE disk[f]]
  PROVE  /\ DocTyped(d)
         /\ d.applied = IF w.op \in {"record", "forget"} THEN m.applied ELSE disk.applied
         /\ d.groups = IF w.op \in {"putGroup", "dropGroup"} THEN m.groups ELSE disk.groups
         /\ \/ w.op \in {"record", "forget", "putGroup", "dropGroup"}
               /\ d.pool = disk.pool /\ d.binding = disk.binding
            \/ w.op \notin {"record", "forget", "putGroup", "dropGroup"}
               /\ d.pool = m.pool /\ d.binding = m.binding
<1>1. DOMAIN disk = {"pool", "binding", "groups", "applied"}
  BY DEF DocTyped
<1>2. /\ d.pool = IF "pool" \in SavedFields(w) THEN m.pool ELSE disk.pool
      /\ d.binding = IF "binding" \in SavedFields(w) THEN m.binding ELSE disk.binding
      /\ d.groups = IF "groups" \in SavedFields(w) THEN m.groups ELSE disk.groups
      /\ d.applied = IF "applied" \in SavedFields(w) THEN m.applied ELSE disk.applied
      /\ d = [pool |-> d.pool, binding |-> d.binding, groups |-> d.groups, applied |-> d.applied]
  BY <1>1
<1>3. /\ "pool" \in SavedFields(w) <=> w.op \notin {"record", "forget", "putGroup", "dropGroup"}
      /\ "binding" \in SavedFields(w) <=> w.op \notin {"record", "forget", "putGroup", "dropGroup"}
      /\ "applied" \in SavedFields(w) <=> w.op \in {"record", "forget"}
      /\ "groups" \in SavedFields(w) <=> w.op \in {"putGroup", "dropGroup"}
  BY DEF SavedFields
<1>4. /\ m.pool \in [Providers -> Shapes \cup {None}] /\ disk.pool \in [Providers -> Shapes \cup {None}]
      /\ m.binding \in [Agents -> Binding \cup {None}] /\ disk.binding \in [Agents -> Binding \cup {None}]
      /\ m.groups \in [Groups -> MemberLists \cup {None}] /\ disk.groups \in [Groups -> MemberLists \cup {None}]
      /\ m.applied = [a \in Agents |-> m.applied[a]] /\ disk.applied = [a \in Agents |-> disk.applied[a]]
  BY Zenon DEF DocTyped
<1>5. DocTyped(d)
  BY <1>2, <1>4, Zenon DEF DocTyped
<1> QED
  BY <1>2, <1>3, <1>5

(***************************************************************************)
(* The next write of a job.                                                *)
(***************************************************************************)
FirstStep(w, t) ==
  /\ w \in FirstWrites /\ todo.first # << >> /\ w = Head(todo.first)
  /\ t = [first |-> Tail(todo.first), each |-> todo.each, last |-> todo.last]

AgentStep(a, w, t) ==
  /\ w \in AgentWrites(a) /\ todo.first = << >> /\ todo.each[a] # << >> /\ w = Head(todo.each[a])
  /\ t = [first |-> << >>, each |-> [todo.each EXCEPT ![a] = Tail(todo.each[a])], last |-> todo.last]

LastStep(w, t) ==
  /\ w \in LastWrites /\ todo.first = << >> /\ todo.last # << >> /\ w = Head(todo.last)
  /\ \A a \in Agents : todo.each[a] = << >>
  /\ t = [first |-> << >>, each |-> todo.each, last |-> Tail(todo.last)]

\* The next write is the head of one of the parts, and its tail is left.
LEMMA DueSteps ==
  ASSUME TodoTyped(todo), NEW next \in Due
  PROVE  /\ TodoTyped(next.left) /\ AnyWrite(next.write)
         /\ \/ FirstStep(next.write, next.left)
            \/ \E a \in Agents : AgentStep(a, next.write, next.left)
            \/ LastStep(next.write, next.left)
<1> DEFINE first == todo.first  each == todo.each  last == todo.last
<1>1. /\ todo = [first |-> first, each |-> each, last |-> last]
      /\ each = [a \in Agents |-> each[a]]
      /\ first \in Seq(FirstWrites) /\ last \in Seq(LastWrites)
      /\ \A a \in Agents : Script(each[a], a)
  BY Zenon DEF TodoTyped
<1>2. CASE first # << >>
  <2>1. next = [write |-> Head(first), left |-> [todo EXCEPT !.first = Tail(@)]]
    BY <1>2 DEF Due
  <2> HIDE DEF first, each, last
  <2> DEFINE t == [first |-> Tail(first), each |-> each, last |-> last]
  <2>2. next.write = Head(first) /\ next.left = t
    BY <1>1, <2>1
  <2>3. Head(first) \in FirstWrites /\ Tail(first) \in Seq(FirstWrites)
    BY <1>1, <1>2, HeadTailProperties
  <2>4. TodoTyped(t)
    BY <1>1, <2>3 DEF TodoTyped
  <2> QED BY <1>2, <2>2, <2>3, <2>4 DEF FirstStep, AnyWrite, first, each, last
<1> DEFINE busy == {i \in DOMAIN AgentOrder : each[AgentOrder[i]] # << >>}
<1>3. CASE first = << >> /\ busy # {}
  <2>1. PICK a \in {AgentOrder[i] : i \in {i \in busy : \A j \in busy : i =< j}} :
          next = [write |-> Head(each[a]), left |-> [todo EXCEPT !.each[a] = Tail(@)]]
    BY <1>3 DEF Due
  <2>2. a \in Agents /\ each[a] # << >>
    BY <2>1 DEF Agents, Elements
  <2> HIDE DEF first, each, last
  <2> DEFINE t == [first |-> << >>, each |-> [each EXCEPT ![a] = Tail(each[a])], last |-> last]
  <2>3. next.write = Head(each[a]) /\ next.left = t
    BY <1>1, <1>3, <2>1
  <2>4. Head(each[a]) \in AgentWrites(a) /\ Script(Tail(each[a]), a)
    BY <1>1, <2>2, ScriptStep
  <2>5. TodoTyped(t)
    <3>1. \A b \in Agents : Script(t.each[b], b)
      BY <1>1, <2>4
    <3>2. t.each = [b \in Agents |-> t.each[b]]
      BY <1>1
    <3> QED BY <1>1, <1>3, <3>1, <3>2 DEF TodoTyped
  <2> QED BY <1>3, <2>2, <2>3, <2>4, <2>5 DEF AgentStep, AnyWrite, first, each, last
<1>4. CASE first = << >> /\ busy = {}
  <2>1. last # << >> /\ next = [write |-> Head(last), left |-> [todo EXCEPT !.last = Tail(@)]]
    BY <1>4 DEF Due
  <2>2. \A a \in Agents : each[a] = << >>
    BY <1>4 DEF Agents, Elements
  <2> HIDE DEF first, each, last, busy
  <2> DEFINE t == [first |-> << >>, each |-> each, last |-> Tail(last)]
  <2>3. next.write = Head(last) /\ next.left = t
    BY <1>1, <1>4, <2>1
  <2>4. Head(last) \in LastWrites /\ Tail(last) \in Seq(LastWrites)
    BY <1>1, <2>1, HeadTailProperties
  <2>5. TodoTyped(t)
    BY <1>1, <1>4, <2>4 DEF TodoTyped
  <2> QED BY <1>4, <2>1, <2>2, <2>3, <2>4, <2>5 DEF LastStep, AnyWrite, first, each, last
<1> QED
  BY <1>2, <1>3, <1>4

\* Nothing left to do.
LEMMA DoneTyped ==
  /\ TodoTyped(Done)
  /\ Done.first = << >> /\ Done.last = << >> /\ \A a \in Agents : Done.each[a] = << >>
<1>1. << >> \in Seq(FirstWrites) /\ << >> \in Seq(LastWrites)
  OBVIOUS
<1> QED
  BY <1>1, IdleScript DEF TodoTyped, Done

\* After a throw: either nothing is left or the rest of one agent's script is
\* dropped.
LEMMA AfterThrowTyped ==
  ASSUME TodoTyped(todo), NEW w
  PROVE  /\ TodoTyped(AfterThrow(w))
         /\ \/ AfterThrow(w) = Done
            \/ /\ todo.first = << >> /\ job.guarded
               /\ AfterThrow(w).first = << >> /\ AfterThrow(w).last = todo.last
               /\ \A a \in Agents : AfterThrow(w).each[a] = IF a = w.agent THEN << >> ELSE todo.each[a]
<1>1. CASE job.guarded /\ todo.first = << >>
  <2> DEFINE first == todo.first  each == todo.each  last == todo.last
             t == [first |-> first, each |-> [each EXCEPT ![w.agent] = << >>], last |-> last]
  <2>1. /\ todo = [first |-> first, each |-> each, last |-> last]
        /\ each = [a \in Agents |-> each[a]]
        /\ first \in Seq(FirstWrites) /\ last \in Seq(LastWrites)
        /\ \A a \in Agents : Script(each[a], a)
    BY Zenon DEF TodoTyped
  <2>2. AfterThrow(w) = [todo EXCEPT !.each[w.agent] = << >>]
    BY <1>1 DEF AfterThrow
  <2> HIDE DEF first, each, last
  <2>3. AfterThrow(w) = t
    BY <2>1, <2>2
  <2>4. \A a \in Agents : t.each[a] = IF a = w.agent THEN << >> ELSE each[a]
    BY <2>1
  <2>5. t.each = [a \in Agents |-> t.each[a]]
    BY <2>1
  <2>6. \A a \in Agents : Script(t.each[a], a)
    BY <2>1, <2>4, EmptyScript
  <2>7. TodoTyped(t)
    BY <2>1, <2>5, <2>6 DEF TodoTyped
  <2> QED BY <1>1, <2>3, <2>4, <2>7 DEF first, each, last
<1>2. CASE ~(job.guarded /\ todo.first = << >>)
  BY <1>2, DoneTyped DEF AfterThrow
<1> QED
  BY <1>1, <1>2

(***************************************************************************)
(* Types and the consistency of the registry.                              *)
(***************************************************************************)
JobKinds == HandlerKinds \cup {"none", "boot", "rebuild"}

Typed ==
  /\ DocTyped(mem) /\ DocTyped(disk)
  /\ port \in Ports \cup {0} /\ diskPort \in Ports
  /\ secret \in [Providers -> BOOLEAN] /\ proxyMode \in BOOLEAN
  /\ file \in [Agents -> Configs \cup {None, Foreign}]
  /\ TodoTyped(todo)
  /\ job \in [kind : JobKinds, guarded : BOOLEAN, clean : BOOLEAN]
  /\ faults \in 0..MaxFaults /\ edits \in 0..MaxEdits

\* RegistryConsistent is inductive only over states whose pending writes are
\* typed: the next registration takes its agent and target from one of them.
IInv == Typed /\ RoutesGood /\ SavedGood

\* Saving the table of a consistent registry leaves a file without collisions.
LEMMA SnapshotSaved == ASSUME RoutesGood', saved' = Router!snapshot' PROVE SavedGood'
<1>1. SnapshotGood'
  BY SnapshotIsGood, PTL
<1> QED
  BY <1>1 DEF SnapshotGood, SavedGood, Router!SavedCollisionFree, Router!PersistedRoute, Router!RouteSpec

LEMMA NextCases ==
  ASSUME DocTyped(mem), Next
  PROVE  \/ Do \/ Fail \/ HandlerStarted \/ SetProxyMode \/ RefreshProxyPort \/ Restart
         \/ \E a \in Agents : ForeignEdit(a)
<1>1. \/ Do \/ Fail \/ Handler \/ SetProxyMode \/ RefreshProxyPort \/ Restart
      \/ \E a \in Agents : ForeignEdit(a)
  BY Zenon DEF Next, Handler
<1> QED
  BY <1>1, HandlersStart

LEMMA InitIInv == Init => IInv
<1> SUFFICES ASSUME Init PROVE IInv
  OBVIOUS
<1> USE DEF Init
<1>1. DocTyped(mem) /\ DocTyped(disk)
  BY DEF DocTyped
<1>2. TodoTyped(todo)
  BY DoneTyped
<1>3. Typed
  <2>1. file \in [Agents -> Configs \cup {None, Foreign}] /\ secret \in [Providers -> BOOLEAN]
    OBVIOUS
  <2>2. job \in [kind : JobKinds, guarded : BOOLEAN, clean : BOOLEAN]
    BY DEF JobKinds
  <2>3. faults \in 0..MaxFaults /\ edits \in 0..MaxEdits
    BY BindingsAssumption
  <2> QED BY <1>1, <1>2, <2>1, <2>2, <2>3 DEF Typed
<1>4. RoutesGood
  BY BindingsAssumption DEF RoutesGood, Router!RouterTypeOK, Router!MapsInverse, Router!has
<1>5. SavedGood
  BY DEF SavedGood, Router!SavedCollisionFree
<1> QED
  BY <1>3, <1>4, <1>5 DEF IInv

\* Only an agent's script holds route, config and binding writes.
LEMMA WriteOwners ==
  ASSUME NEW w, AnyWrite(w)
  PROVE  /\ w.op \in RouteOps \cup FileOps \cup {"record", "forget", "bind", "unbind"} =>
              \E a \in Agents : w \in AgentWrites(a) /\ w.agent = a
         /\ w.op \in SecretOps => w.arg \in Providers
BY DEF AnyWrite, FirstWrites, LastWrites, AgentWrites, RouteOps, FileOps, SecretOps

LEMMA DoRouteIInv ==
  ASSUME IInv, NEW w, AnyWrite(w), DoRoute(w), port' = port
  PROVE  RoutesGood' /\ SavedGood' /\ diskPort' \in Ports
<1>1. /\ w.op \in RouteOps /\ RouteEffect(w) /\ SaveProxyState
  BY DEF DoRoute
<1>2. PICK a \in Agents : w \in AgentWrites(a)
  BY <1>1, WriteOwners
<1>3. RoutesGood'
  BY <1>1, <1>2, RouteEffects DEF IInv
<1>4. SavedGood'
  BY <1>1, <1>3, SnapshotSaved DEF SaveProxyState
<1>5. diskPort' \in Ports
  BY <1>1 DEF SaveProxyState, IInv, Typed
<1> QED
  BY <1>3, <1>4, <1>5

LEMMA UnchangedRoutes ==
  ASSUME RoutesGood, SavedGood, UNCHANGED <<byToken, tokenByAgent>>
  PROVE  RoutesGood' /\ (saved' = saved => SavedGood')
BY DEF RoutesGood, SavedGood, Router!RouterTypeOK, Router!MapsInverse, Router!has, Router!SavedCollisionFree

\* The config that point writes.
LEMMA LoopbackTyped ==
  ASSUME IInv, NEW a \in Agents, NEW model \in BoundModels
  PROVE  LoopbackConfig(a, model) \in Configs
<1>1. tokenByAgent[a] \in Tokens \cup {NoToken} /\ port \in Ports \cup {0}
  BY DEF IInv, Typed, RoutesGood, Router!RouterTypeOK
<1>2. Loopback(port, tokenByAgent[a]) \in Bases
  BY <1>1 DEF Bases
<1> QED
  BY <1>1, <1>2 DEF LoopbackConfig, Config, Configs, BoundModels

LEMMA DoFileTyped ==
  ASSUME IInv, NEW w, AnyWrite(w), DoFile(w)
  PROVE  file' \in [Agents -> Configs \cup {None, Foreign}]
<1>1. w.op \in FileOps
  BY DEF DoFile
<1>2. PICK a \in Agents : w \in AgentWrites(a) /\ w.agent = a
  BY <1>1, WriteOwners
<1> DEFINE x == CASE w.op = "write" -> w.arg
                  [] w.op = "point" -> LoopbackConfig(w.agent, w.arg)
                  [] w.op = "restore" -> None
<1>3. file' = [file EXCEPT ![w.agent] = x]
  BY DEF DoFile
<1>4. x \in Configs \cup {None}
  <2>1. CASE w.op = "write"
    <3>1. w.arg \in Configs
      BY <1>2, <2>1 DEF AgentWrites
    <3> QED BY <2>1, <3>1
  <2>2. CASE w.op = "point"
    <3>1. w.arg \in BoundModels
      BY <1>2, <2>2 DEF AgentWrites
    <3> QED BY <1>2, <2>2, <3>1, LoopbackTyped
  <2>3. CASE w.op = "restore"
    BY <2>3
  <2> QED BY <1>1, <2>1, <2>2, <2>3 DEF FileOps
<1> HIDE DEF x
<1> QED
  BY <1>2, <1>3, <1>4 DEF IInv, Typed

LEMMA DoIInv == ASSUME IInv, Do PROVE IInv'
<1>1. PICK next \in Due :
        /\ UNCHANGED port
        /\ DoRoute(next.write) \/ DoDoc(next.write) \/ DoFile(next.write) \/ DoSecret(next.write)
        /\ todo' = next.left
        /\ UNCHANGED <<proxyMode, job, kept, retired, faults, edits>>
  BY Zenon DEF Do
<1> DEFINE w == next.write
<1>2. TodoTyped(todo') /\ AnyWrite(w)
  BY <1>1, DueSteps DEF IInv, Typed
<1> HIDE DEF w
<1>3. CASE DoRoute(w)
  <2>1. RoutesGood' /\ SavedGood' /\ diskPort' \in Ports
    BY <1>1, <1>2, <1>3, DoRouteIInv
  <2>2. UNCHANGED <<mem, disk, file, secret>>
    BY <1>3 DEF DoRoute
  <2> QED BY <1>1, <1>2, <2>1, <2>2 DEF IInv, Typed
<1>4. CASE DoDoc(w)
  <2>1. /\ w.op \in DocOps /\ mem' = Edited(w)
        /\ disk' = [f \in DOMAIN disk |-> IF f \in SavedFields(w) THEN mem'[f] ELSE disk[f]]
        /\ UNCHANGED <<byToken, tokenByAgent, saved, diskPort, file, secret>>
    BY <1>4 DEF DoDoc
  <2>2. DocTyped(mem')
    BY <1>2, <2>1, EditedFields DEF IInv, Typed
  <2>3. DocTyped(disk')
    BY <2>1, <2>2, DiskFields DEF IInv, Typed
  <2>4. RoutesGood' /\ SavedGood'
    BY <2>1, UnchangedRoutes DEF IInv
  <2> QED BY <1>1, <1>2, <2>1, <2>2, <2>3, <2>4 DEF IInv, Typed
<1>5. CASE DoFile(w)
  <2>1. file' \in [Agents -> Configs \cup {None, Foreign}]
    BY <1>2, <1>5, DoFileTyped
  <2>2. UNCHANGED <<mem, disk, byToken, tokenByAgent, saved, diskPort, secret>>
    BY <1>5 DEF DoFile
  <2>3. RoutesGood' /\ SavedGood'
    BY <2>2, UnchangedRoutes DEF IInv
  <2> QED BY <1>1, <1>2, <2>1, <2>2, <2>3 DEF IInv, Typed
<1>6. CASE DoSecret(w)
  <2>1. w.op \in SecretOps /\ secret' = [secret EXCEPT ![w.arg] = (w.op = "putSecret")]
        /\ UNCHANGED <<mem, disk, byToken, tokenByAgent, saved, diskPort, file>>
    BY <1>6 DEF DoSecret
  <2>2. w.arg \in Providers
    BY <1>2, <2>1, WriteOwners
  <2>3. secret' \in [Providers -> BOOLEAN]
    BY <2>1, <2>2 DEF IInv, Typed
  <2>4. RoutesGood' /\ SavedGood'
    BY <2>1, UnchangedRoutes DEF IInv
  <2> QED BY <1>1, <1>2, <2>1, <2>3, <2>4 DEF IInv, Typed
<1> QED
  BY <1>1, <1>3, <1>4, <1>5, <1>6 DEF w

LEMMA FailIInv == ASSUME IInv, Fail PROVE IInv'
<1>1. PICK next \in Due :
        /\ faults < MaxFaults /\ faults' = faults + 1
        /\ IF next.write.op \in RouteOps THEN RouteEffect(next.write) ELSE UNCHANGED <<byToken, tokenByAgent>>
        /\ mem' = IF next.write.op \in DocOps THEN Edited(next.write) ELSE mem
        /\ todo' = AfterThrow(next.write)
        /\ job' = [job EXCEPT !.clean = FALSE]
        /\ UNCHANGED <<durableVars, port, kept, retired, edits>>
  BY Zenon DEF Fail
<1> DEFINE w == next.write
<1>2. AnyWrite(w)
  BY DueSteps DEF IInv, Typed
<1>3. TodoTyped(todo')
  BY <1>1, AfterThrowTyped DEF IInv, Typed
<1> HIDE DEF w
<1>4. RoutesGood'
  <2>1. CASE w.op \in RouteOps
    <3>1. PICK a \in Agents : w \in AgentWrites(a)
      BY <1>2, <2>1, WriteOwners
    <3> QED BY <1>1, <2>1, <3>1, RouteEffects DEF IInv, w
  <2>2. CASE w.op \notin RouteOps
    BY <1>1, <2>2, UnchangedRoutes DEF IInv, w
  <2> QED BY <2>1, <2>2
<1>5. DocTyped(mem')
  <2>1. CASE w.op \in DocOps
    <3>1. mem' = Edited(w)
      BY <1>1, <2>1 DEF w
    <3> QED BY <1>2, <2>1, <3>1, EditedFields DEF IInv, Typed
  <2>2. CASE w.op \notin DocOps
    BY <1>1, <2>2 DEF IInv, Typed, w
  <2> QED BY <2>1, <2>2
<1>6. UNCHANGED <<disk, diskPort, saved, secret, proxyMode, file>>
  BY <1>1, Zenon DEF durableVars
<1>7. SavedGood'
  BY <1>6 DEF SavedGood, IInv, Router!SavedCollisionFree
<1>8. job' \in [kind : JobKinds, guarded : BOOLEAN, clean : BOOLEAN]
  BY <1>1 DEF IInv, Typed
<1>9. faults' \in 0..MaxFaults
  BY <1>1, BindingsAssumption DEF IInv, Typed
<1> QED
  BY <1>1, <1>3, <1>4, <1>5, <1>6, <1>7, <1>8, <1>9 DEF IInv, Typed

LEMMA HandlerIInv == ASSUME IInv, HandlerStarted PROVE IInv'
<1>1. PICK kind, guarded, writes : StartsHandler(kind, guarded, writes)
  BY DEF HandlerStarted
<1>2. /\ kind \in HandlerKinds /\ guarded \in BOOLEAN
      /\ Starts(writes) /\ todo' = writes
      /\ job' = [kind |-> kind, guarded |-> guarded, clean |-> TRUE]
      /\ UNCHANGED <<mem, disk, diskPort, byToken, tokenByAgent, saved, secret, file, faults, edits>>
      /\ UNCHANGED <<port, proxyMode>>
  BY <1>1 DEF StartsHandler, Start
<1>3. TodoTyped(todo')
  BY <1>2 DEF Starts
<1>4. RoutesGood' /\ SavedGood'
  BY <1>2, UnchangedRoutes DEF IInv
<1>5. job' \in [kind : JobKinds, guarded : BOOLEAN, clean : BOOLEAN]
  BY <1>2 DEF JobKinds
<1> QED
  BY <1>2, <1>3, <1>4, <1>5 DEF IInv, Typed

\* A replay of the bindings, under the state it starts from.
RebuildTodo == DocTyped(mem) /\ todo = Rebuild
TodoReplayed == Replayed(todo)

LEMMA RebuildReplays == RebuildTodo => TodoReplayed
BY RebuildStarts DEF RebuildTodo, TodoReplayed, RebuildIsReplay

LEMMA RebuildNext == ASSUME DocTyped(mem'), todo' = Rebuild' PROVE TodoReplayed' /\ TodoTyped(todo')
<1>1. RebuildTodo'
  BY DEF RebuildTodo, DocTyped
<1>2. TodoReplayed'
  BY <1>1, RebuildReplays, PTL
<1> QED
  BY <1>2 DEF TodoReplayed, Replayed, Starts

LEMMA SetProxyModeIInv == ASSUME IInv, SetProxyMode PROVE IInv'
<1>1. /\ proxyMode' = ~proxyMode
      /\ UNCHANGED <<mem, disk, port, diskPort, byToken, tokenByAgent, saved, secret, file,
                     retired, faults, edits>>
      /\ todo' = Rebuild' /\ job' = Run("rebuild")
  BY Zenon DEF SetProxyMode
<1>2. DocTyped(mem') /\ TodoTyped(todo')
  BY <1>1, RebuildNext DEF IInv, Typed
<1>3. RoutesGood' /\ SavedGood'
  BY <1>1, UnchangedRoutes DEF IInv
<1>4. job' \in [kind : JobKinds, guarded : BOOLEAN, clean : BOOLEAN]
  BY <1>1 DEF JobKinds, Run
<1> QED
  BY <1>1, <1>2, <1>3, <1>4 DEF IInv, Typed

LEMMA RefreshProxyPortIInv == ASSUME IInv, RefreshProxyPort PROVE IInv'
<1>1. /\ port' \in Ports
      /\ UNCHANGED <<mem, disk, proxyMode, byToken, tokenByAgent, secret, file, retired, edits>>
      /\ \/ /\ SaveProxyState /\ todo' = Rebuild' /\ job' = Run("rebuild") /\ UNCHANGED faults
         \/ /\ faults < MaxFaults /\ faults' = faults + 1
            /\ job' = [kind |-> "rebuild", guarded |-> TRUE, clean |-> FALSE]
            /\ UNCHANGED <<saved, diskPort, todo>>
  BY Zenon DEF RefreshProxyPort
<1>2. RoutesGood' /\ (saved' = saved => SavedGood')
  BY <1>1, UnchangedRoutes DEF IInv
<1>3. job' \in [kind : JobKinds, guarded : BOOLEAN, clean : BOOLEAN]
  <2>1. job' = Run("rebuild") \/ job' = [kind |-> "rebuild", guarded |-> TRUE, clean |-> FALSE]
    BY <1>1, Zenon
  <2>2. CASE job' = Run("rebuild")
    BY <2>2 DEF JobKinds, Run
  <2>3. CASE job' = [kind |-> "rebuild", guarded |-> TRUE, clean |-> FALSE]
    BY <2>3 DEF JobKinds
  <2> QED BY <2>1, <2>2, <2>3
<1>4. CASE SaveProxyState /\ todo' = Rebuild' /\ UNCHANGED faults
  <2>1. SavedGood'
    BY <1>2, <1>4, SnapshotSaved DEF SaveProxyState
  <2>2. diskPort' \in Ports
    BY <1>1, <1>4 DEF SaveProxyState, IInv, Typed
  <2>3. TodoTyped(todo')
    BY <1>1, <1>4, RebuildNext DEF IInv, Typed
  <2> QED BY <1>1, <1>2, <1>3, <1>4, <2>1, <2>2, <2>3 DEF IInv, Typed
<1>5. CASE faults < MaxFaults /\ faults' = faults + 1 /\ UNCHANGED <<saved, diskPort, todo>>
  <2>1. faults' \in 0..MaxFaults
    BY <1>5, BindingsAssumption DEF IInv, Typed
  <2> QED BY <1>1, <1>2, <1>3, <1>5, <2>1 DEF IInv, Typed
<1> QED
  BY <1>1, <1>4, <1>5

\* What the stores load is typed.
LEMMA LoadedFields ==
  ASSUME DocTyped(disk)
  PROVE  /\ DocTyped(Loaded)
         /\ Loaded.pool = disk.pool /\ Loaded.groups = disk.groups /\ Loaded.applied = disk.applied
         /\ \A a \in Agents : Loaded.binding[a] =
              IF disk.binding[a] # None /\ disk.binding[a].provider \in Providers
                   /\ disk.pool[disk.binding[a].provider] = None
              THEN None ELSE disk.binding[a]
<1> DEFINE pool == disk.pool  binding == disk.binding  groups == disk.groups  applied == disk.applied
           bs == [a \in Agents |->
                    IF binding[a] # None /\ binding[a].provider \in Providers /\ pool[binding[a].provider] = None
                    THEN None ELSE binding[a]]
           d == [pool |-> pool, binding |-> bs, groups |-> groups, applied |-> applied]
<1>1. /\ disk = [pool |-> pool, binding |-> binding, groups |-> groups, applied |-> applied]
      /\ pool \in [Providers -> Shapes \cup {None}]
      /\ binding \in [Agents -> Binding \cup {None}]
      /\ groups \in [Groups -> MemberLists \cup {None}]
      /\ applied = [a \in Agents |-> applied[a]]
  BY Zenon DEF DocTyped
<1>2. Loaded = [disk EXCEPT !.binding = bs]
  BY Zenon DEF Loaded
<1>3. bs \in [Agents -> Binding \cup {None}]
  BY <1>1
<1>4. \A a \in Agents : bs[a] =
        IF binding[a] # None /\ binding[a].provider \in Providers /\ pool[binding[a].provider] = None
        THEN None ELSE binding[a]
  OBVIOUS
<1> HIDE DEF pool, binding, groups, applied, bs
<1>5. Loaded = d
  BY <1>1, <1>2
<1>6. DocTyped(d)
  BY <1>1, <1>3 DEF DocTyped
<1> QED
  BY <1>4, <1>5, <1>6 DEF pool, binding, groups, applied

LEMMA RestartIInv == ASSUME IInv, Restart PROVE IInv'
<1> DEFINE dies == IF Idle THEN 0 ELSE 1
<1>1. /\ faults + dies =< MaxFaults
      /\ mem' = Loaded /\ Router!rehydrate(saved)
      /\ UNCHANGED <<disk, saved, secret, proxyMode, file, edits>>
      /\ \/ /\ port' \in Ports /\ diskPort' = port' /\ todo' = Rebuild'
            /\ job' = Run("boot") /\ faults' = faults + dies
         \/ /\ faults + dies < MaxFaults /\ port' \in Ports \cup {0} /\ diskPort' = diskPort
            /\ todo' = Done /\ job' = [kind |-> "boot", guarded |-> TRUE, clean |-> FALSE]
            /\ faults' = faults + dies + 1
  BY Zenon DEF Restart
<1>2. DocTyped(mem')
  BY <1>1, LoadedFields DEF IInv, Typed
<1>3. RoutesGood'
  BY <1>1, Rehydrated DEF IInv
<1>4. SavedGood'
  BY <1>1 DEF SavedGood, IInv, Router!SavedCollisionFree
<1>5. faults' \in 0..MaxFaults
  <2>1. dies \in {0, 1}
    OBVIOUS
  <2> HIDE DEF dies
  <2> QED BY <1>1, <2>1, BindingsAssumption DEF IInv, Typed
<1> HIDE DEF dies
<1>6. TodoTyped(todo')
  BY <1>1, <1>2, RebuildNext, DoneTyped
<1>7. job' \in [kind : JobKinds, guarded : BOOLEAN, clean : BOOLEAN]
  <2>1. job' = Run("boot") \/ job' = [kind |-> "boot", guarded |-> TRUE, clean |-> FALSE]
    BY <1>1, Zenon
  <2>2. CASE job' = Run("boot")
    BY <2>2 DEF JobKinds, Run
  <2>3. CASE job' = [kind |-> "boot", guarded |-> TRUE, clean |-> FALSE]
    BY <2>3 DEF JobKinds
  <2> QED BY <2>1, <2>2, <2>3
<1>8. port' \in Ports \cup {0} /\ diskPort' \in Ports
  BY <1>1 DEF IInv, Typed
<1> QED
  BY <1>1, <1>2, <1>3, <1>4, <1>5, <1>6, <1>7, <1>8 DEF IInv, Typed

LEMMA ForeignEditIInv == ASSUME IInv, NEW a \in Agents, ForeignEdit(a) PROVE IInv'
<1>1. /\ edits < MaxEdits /\ edits' = edits + 1
      /\ file' = [file EXCEPT ![a] = Foreign]
      /\ job' = [kind |-> "none", guarded |-> FALSE, clean |-> TRUE]
      /\ UNCHANGED <<mem, disk, port, diskPort, byToken, tokenByAgent, saved, secret,
                     proxyMode, todo, retired, faults>>
  BY Zenon DEF ForeignEdit
<1>2. RoutesGood' /\ SavedGood'
  BY <1>1, UnchangedRoutes DEF IInv
<1>3. job' \in [kind : JobKinds, guarded : BOOLEAN, clean : BOOLEAN]
  BY <1>1 DEF JobKinds
<1>4. edits' \in 0..MaxEdits
  BY <1>1, BindingsAssumption DEF IInv, Typed
<1>5. file' \in [Agents -> Configs \cup {None, Foreign}]
  BY <1>1 DEF IInv, Typed
<1> QED
  BY <1>1, <1>2, <1>3, <1>4, <1>5 DEF IInv, Typed

LEMMA StutterIInv == ASSUME IInv, UNCHANGED vars PROVE IInv'
<1>1. UNCHANGED <<mem, disk, port, diskPort, byToken, tokenByAgent, saved, secret, proxyMode,
                  file, todo, job, faults, edits>>
  BY Zenon DEF vars
<1>2. RoutesGood' /\ SavedGood'
  BY <1>1, UnchangedRoutes DEF IInv
<1> QED
  BY <1>1, <1>2 DEF IInv, Typed

LEMMA NextIInv == IInv /\ [Next]_vars => IInv'
<1> SUFFICES ASSUME IInv, [Next]_vars PROVE IInv'
  OBVIOUS
<1>1. CASE UNCHANGED vars
  BY <1>1, StutterIInv
<1>2. CASE Next
  <2>1. \/ Do \/ Fail \/ HandlerStarted \/ SetProxyMode \/ RefreshProxyPort \/ Restart
        \/ \E a \in Agents : ForeignEdit(a)
    BY <1>2, NextCases DEF IInv, Typed
  <2> QED BY <2>1, DoIInv, FailIInv, HandlerIInv, SetProxyModeIInv, RefreshProxyPortIInv,
             RestartIInv, ForeignEditIInv
<1> QED
  BY <1>1, <1>2, Zenon

LEMMA AlwaysIInv == Spec => []IInv
BY InitIInv, NextIInv, PTL DEF Spec

\* Every state of the stores, the registry, the files and the bounds has its
\* type, through failed writes and deaths between any two of them.
THEOREM TypeCorrect == Spec => []TypeOK
<1>1. IInv => TypeOK
  BY BindingsAssumption DEF IInv, Typed, RoutesGood, SavedGood, DocTyped, TypeOK, Binding
<1> QED
  BY <1>1, AlwaysIInv, PTL

\* The two maps of the registry stay each other's inverse and proxy.json never
\* holds two routes of an agent or of a token, under the real callers of
\* register and unregister.
THEOREM RegistryStaysConsistent == Spec => []RegistryConsistent
<1>1. IInv => RegistryConsistent
  BY DEF IInv, RoutesGood, SavedGood, RegistryConsistent
<1> QED
  BY <1>1, AlwaysIInv, PTL

(***************************************************************************)
(* The steps once more, with what each leaves to do.                       *)
(***************************************************************************)

LEMMA TailElements ==
  ASSUME NEW S, NEW s \in Seq(S), s # << >>
  PROVE  Elements(Tail(s)) \subseteq Elements(s) /\ Head(s) \in Elements(s)
<1>1. /\ Len(s) \in Nat /\ Len(s) # 0 /\ DOMAIN s = 1..Len(s) /\ DOMAIN Tail(s) = 1..(Len(s) - 1)
      /\ Head(s) = s[1] /\ \A i \in 1..(Len(s) - 1) : Tail(s)[i] = s[i + 1]
  BY HeadTailProperties
<1>2. \A i \in DOMAIN Tail(s) : i + 1 \in DOMAIN s /\ Tail(s)[i] = s[i + 1]
  BY <1>1
<1>3. 1 \in DOMAIN s
  BY <1>1
<1> QED
  BY <1>1, <1>2, <1>3 DEF Elements

FirstDone(w) ==
  /\ w \in FirstWrites /\ todo.first # << >>
  /\ \A a \in Agents : Left(a)' = Left(a)
  /\ todo'.last = todo.last

AgentDone(a, w) ==
  /\ w \in AgentWrites(a) /\ todo.first = << >> /\ todo'.first = << >>
  /\ Left(a) = {w} \cup Left(a)'
  /\ \A u \in Left(a)' : Rank(w.op) < Rank(u.op)
  /\ \A b \in Agents \ {a} : Left(b)' = Left(b)
  /\ todo'.last = todo.last

LastDone(w) ==
  /\ w \in LastWrites /\ todo.first = << >> /\ todo'.first = << >>
  /\ \A a \in Agents : Left(a) = {} /\ Left(a)' = {}
  /\ w \in Elements(todo.last) /\ Elements(todo'.last) \subseteq Elements(todo.last)

Stepped(w) == FirstDone(w) \/ (\E a \in Agents : AgentDone(a, w)) \/ LastDone(w)

\* The next write of the running job is made, and nothing else.
DoneWrite(w) ==
  /\ Stepped(w) /\ AnyWrite(w)
  /\ DoRoute(w) \/ DoDoc(w) \/ DoFile(w) \/ DoSecret(w)
  /\ UNCHANGED <<port, proxyMode, job, kept, retired, faults, edits>>

LEMMA DueStepped ==
  ASSUME TodoTyped(todo), NEW next \in Due, todo' = next.left
  PROVE  Stepped(next.write)
<1> DEFINE w == next.write
<1>1. FirstStep(w, todo') \/ (\E a \in Agents : AgentStep(a, w, todo')) \/ LastStep(w, todo')
  BY DueSteps
<1>2. /\ todo.first \in Seq(FirstWrites) /\ todo.last \in Seq(LastWrites)
      /\ todo.each = [a \in Agents |-> todo.each[a]]
      /\ \A a \in Agents : Script(todo.each[a], a)
  BY Zenon DEF TodoTyped
<1> HIDE DEF w
<1>3. CASE FirstStep(w, todo')
  <2>1. w \in FirstWrites /\ todo.first # << >> /\ todo'.each = todo.each /\ todo'.last = todo.last
    BY <1>3 DEF FirstStep
  <2> QED BY <2>1, Zenon DEF Stepped, FirstDone, Left, w
<1>4. ASSUME NEW a \in Agents, AgentStep(a, w, todo') PROVE AgentDone(a, w)
  <2>1. /\ todo.each[a] # << >> /\ w = Head(todo.each[a]) /\ w \in AgentWrites(a)
        /\ todo.first = << >>
        /\ todo' = [first |-> << >>, each |-> [todo.each EXCEPT ![a] = Tail(todo.each[a])], last |-> todo.last]
    BY <1>4, Zenon DEF AgentStep
  <2>2. /\ todo'.first = << >> /\ todo'.last = todo.last
        /\ todo'.each[a] = Tail(todo.each[a])
        /\ \A b \in Agents \ {a} : todo'.each[b] = todo.each[b]
    BY <1>2, <2>1
  <2>3. /\ Elements(todo.each[a]) = {w} \cup Elements(Tail(todo.each[a]))
        /\ \A u \in Elements(Tail(todo.each[a])) : Rank(w.op) < Rank(u.op)
    BY <1>2, <2>1, ScriptStep
  <2> HIDE DEF Rank
  <2> QED BY <2>1, <2>2, <2>3, Zenon DEF AgentDone, Left
<1>5. CASE LastStep(w, todo')
  <2>1. /\ w \in LastWrites /\ todo.first = << >> /\ todo.last # << >> /\ w = Head(todo.last)
        /\ \A a \in Agents : todo.each[a] = << >>
        /\ todo'.first = << >> /\ todo'.each = todo.each /\ todo'.last = Tail(todo.last)
    BY <1>5 DEF LastStep
  <2>2. w \in Elements(todo.last) /\ Elements(todo'.last) \subseteq Elements(todo.last)
    BY <1>2, <2>1, TailElements
  <2>3. \A a \in Agents : Left(a) = {} /\ Left(a)' = {}
    <3>1. \A a \in Agents : todo'.each[a] = << >>
      BY <2>1
    <3> QED BY <2>1, <3>1, NothingElements, Zenon DEF Left
  <2> QED BY <2>1, <2>2, <2>3, Zenon DEF Stepped, LastDone, w
<1> QED
  BY <1>1, <1>3, <1>4, <1>5 DEF Stepped, w

LEMMA DoIsDone == ASSUME IInv, Do PROVE \E w : DoneWrite(w)
<1>1. PICK next \in Due :
        /\ UNCHANGED port
        /\ DoRoute(next.write) \/ DoDoc(next.write) \/ DoFile(next.write) \/ DoSecret(next.write)
        /\ todo' = next.left
        /\ UNCHANGED <<proxyMode, job, kept, retired, faults, edits>>
  BY Zenon DEF Do
<1>2. Stepped(next.write)
  BY <1>1, DueStepped DEF IInv, Typed
<1>3. AnyWrite(next.write)
  BY DueSteps DEF IInv, Typed
<1> QED
  BY <1>1, <1>2, <1>3, Zenon DEF DoneWrite

\* The write throws: what is left after it was left before it.
FailedWrite(w) ==
  /\ AnyWrite(w)
  /\ faults < MaxFaults /\ faults' = faults + 1
  /\ IF w.op \in RouteOps THEN RouteEffect(w) ELSE UNCHANGED <<byToken, tokenByAgent>>
  /\ mem' = IF w.op \in DocOps THEN Edited(w) ELSE mem
  /\ ~job'.clean /\ job'.kind = job.kind
  /\ \/ w \in FirstWrites /\ todo.first # << >> /\ todo' = Done
     \/ w \in LastWrites /\ w \in Elements(todo.last) /\ \A a \in Agents : Left(a) = {}
     \/ \E a \in Agents : w \in Left(a) /\ w \in AgentWrites(a) /\ Left(a)' = {}
  /\ \A a \in Agents : Left(a)' \in {Left(a), {}}
  /\ todo'.first = << >> /\ Elements(todo'.last) \subseteq Elements(todo.last)
  /\ UNCHANGED <<disk, diskPort, saved, secret, proxyMode, file, port, kept, retired, edits>>

LEMMA FailIsFailed == ASSUME IInv, Fail PROVE \E w : FailedWrite(w)
<1>1. PICK next \in Due :
        /\ faults < MaxFaults /\ faults' = faults + 1
        /\ IF next.write.op \in RouteOps THEN RouteEffect(next.write) ELSE UNCHANGED <<byToken, tokenByAgent>>
        /\ mem' = IF next.write.op \in DocOps THEN Edited(next.write) ELSE mem
        /\ todo' = AfterThrow(next.write)
        /\ job' = [job EXCEPT !.clean = FALSE]
        /\ UNCHANGED <<durableVars, port, kept, retired, edits>>
  BY Zenon DEF Fail
<1> DEFINE w == next.write
<1>2. TodoTyped(todo)
  BY DEF IInv, Typed
<1>3. /\ AnyWrite(w)
      /\ FirstStep(w, next.left) \/ (\E a \in Agents : AgentStep(a, w, next.left)) \/ LastStep(w, next.left)
  BY <1>2, DueSteps
<1>4. \/ todo' = Done
      \/ /\ todo.first = << >> /\ todo'.last = todo.last
         /\ \A a \in Agents : todo'.each[a] = IF a = w.agent THEN << >> ELSE todo.each[a]
  <2>1. todo' = AfterThrow(w)
    BY <1>1
  <2> HIDE DEF w
  <2>2. \/ AfterThrow(w) = Done
        \/ /\ todo.first = << >> /\ AfterThrow(w).last = todo.last
           /\ \A a \in Agents : AfterThrow(w).each[a] = IF a = w.agent THEN << >> ELSE todo.each[a]
    BY <1>2, AfterThrowTyped, Zenon
  <2> QED BY <2>1, <2>2
<1> HIDE DEF w
<1>5. \A a \in Agents : Left(a)' \in {Left(a), {}}
  BY <1>4, DoneTyped, NothingElements DEF Left
<1>6. Elements(todo'.last) \subseteq Elements(todo.last)
  BY <1>4, DoneTyped, NothingElements
<1>10. todo'.first = << >>
  <2>1. todo' = AfterThrow(w)
    BY <1>1 DEF w
  <2>2. AfterThrow(w).first = << >>
    BY <1>2, DoneTyped DEF AfterThrow, TodoTyped
  <2> QED BY <2>1, <2>2
<1>7. \/ w \in FirstWrites /\ todo.first # << >> /\ todo' = Done
      \/ w \in LastWrites /\ w \in Elements(todo.last) /\ \A a \in Agents : Left(a) = {}
      \/ \E a \in Agents : w \in Left(a) /\ w \in AgentWrites(a) /\ Left(a)' = {}
  <2>1. CASE FirstStep(w, next.left)
    BY <1>4, <2>1 DEF FirstStep
  <2>2. CASE LastStep(w, next.left)
    <3>1. /\ w \in LastWrites /\ todo.last # << >> /\ w = Head(todo.last)
          /\ \A a \in Agents : todo.each[a] = << >>
      BY <2>2, Zenon DEF LastStep
    <3>2. w \in Elements(todo.last)
      BY <1>2, <3>1, TailElements DEF TodoTyped
    <3> QED BY <3>1, <3>2, NothingElements DEF Left
  <2>3. ASSUME NEW a \in Agents, AgentStep(a, w, next.left)
        PROVE  w \in Left(a) /\ w \in AgentWrites(a) /\ Left(a)' = {}
    <3>1. todo.each[a] # << >> /\ w = Head(todo.each[a]) /\ w \in AgentWrites(a)
      BY <2>3, Zenon DEF AgentStep
    <3>2. w \in Left(a)
      BY <1>2, <3>1, ScriptStep DEF TodoTyped, Left
    <3>3. w.agent = a
      BY <3>1 DEF AgentWrites
    <3>4. todo'.each[a] = << >>
      BY <1>4, <3>3, DoneTyped
    <3>5. Left(a)' = {}
      BY <3>4, NothingElements DEF Left
    <3> QED BY <3>1, <3>2, <3>5
  <2> QED BY <1>3, <2>1, <2>2, <2>3
<1>8. ~job'.clean /\ job'.kind = job.kind
  BY <1>1 DEF IInv, Typed
<1>9. UNCHANGED <<disk, diskPort, saved, secret, proxyMode, file, port, kept, retired, edits>>
  BY <1>1, Zenon DEF durableVars
<1> QED
  BY <1>1, <1>3, <1>5, <1>6, <1>7, <1>8, <1>9, <1>10, Zenon DEF FailedWrite, w

(***************************************************************************)
(* A binding never names what is gone.                                     *)
(***************************************************************************)
InPool(d, b) == b.provider \in Providers => d.pool[b.provider] # None
InGroups(d, b) == b.provider \in Groups => d.groups[b.provider] # None

Binds(a, b) == W("bind", a, b) \in Left(a)
Dropping(g) == W("dropGroup", None, g) \in Elements(todo.last)

\* What the bindings name is there, and so is what a pending write will bind.
\* The provider store drops a provider with the bindings to it in one write.
ProvidersHeld ==
  /\ \A a \in Agents : mem.binding[a] # None => InPool(mem, mem.binding[a])
  /\ \A a \in Agents : disk.binding[a] # None => InPool(disk, disk.binding[a])
  /\ \A a \in Agents, b \in Binding : Binds(a, b) => InPool(mem, b)

\* A group's bindings go one by one, in another store, before the group does.
GroupsHeld ==
  /\ disk = mem
  /\ \A a \in Agents : mem.binding[a] # None => InGroups(mem, mem.binding[a])
  /\ \A a \in Agents, b \in Binding : Binds(a, b) => InGroups(mem, b)
  /\ \A g \in Groups : Dropping(g) =>
       \A a \in Agents : /\ BoundTo(a, g) => W("unbind", a, None) \in Left(a)
                         /\ \A b \in Binding : ~Binds(a, b)

\* The writes a job starts with bind only what is there, and unbind what it
\* will drop.
LEMMA StartsHeld ==
  ASSUME NEW t, Starts(t)
  PROVE  /\ \A a \in Agents, b \in Binding :
              W("bind", a, b) \in Elements(t.each[a]) => Available(b) /\ Elements(t.last) = {}
         /\ \A g \in Groups : W("dropGroup", None, g) \in Elements(t.last) =>
              \A a \in Agents : BoundTo(a, g) => W("unbind", a, None) \in Elements(t.each[a])
<1>1. ASSUME NEW a \in Agents, NEW b \in Binding, W("bind", a, b) \in Elements(t.each[a])
      PROVE  Available(b) /\ Elements(t.last) = {}
  <2>1. AgentStarts(Elements(t.each[a]), Elements(t.last), a)
    BY DEF Starts
  <2> DEFINE writes == Elements(t.each[a])
  <2>2. \A c, x : ~Applies(writes, a, c) /\ (\A applied : Applies(applied, a, c) => W("bind", a, x) \notin applied)
    BY <1>1, WriteFields DEF Applies, DirectWrites, ProxiedWrites
  <2>3. writes # UnbindWrites(a) /\ writes # {W("restore", a, None)} \cup UnbindWrites(a)
    BY <1>1, WriteFields DEF UnbindWrites
  <2>4. writes # {W("unregister", a, None)} /\ writes # {}
    BY <1>1, WriteFields
  <2> HIDE DEF writes
  <2>5. PICK c \in Binding, applied \in SUBSET AgentWrites(a) :
          Available(c) /\ Applies(applied, a, c) /\ writes = applied \cup {W("bind", a, c)} /\ Elements(t.last) = {}
    BY <2>1, <2>2, <2>3, <2>4, Zenon DEF AgentStarts, writes
  <2>6. W("bind", a, b) = W("bind", a, c)
    BY <1>1, <2>2, <2>5 DEF writes
  <2>7. b = c
    BY <2>6, WriteFields
  <2> QED BY <2>5, <2>7
<1>2. ASSUME NEW g \in Groups, W("dropGroup", None, g) \in Elements(t.last), NEW a \in Agents, BoundTo(a, g)
      PROVE  W("unbind", a, None) \in Elements(t.each[a])
  BY <1>2 DEF Starts, LastStarts, UnbindWrites, BoundTo
<1> QED
  BY <1>1, <1>2

LEMMA ProviderNotGroup ==
  ASSUME NEW b \in Binding, Available(b) PROVE InPool(mem, b) /\ InGroups(mem, b)
BY BindingsAssumption DEF Available, InPool, InGroups

\* A replay binds nothing that is not there.
TodoHeld == /\ \A a \in Agents, b \in Binding : Binds(a, b) => InPool(mem, b) /\ InGroups(mem, b)
            /\ \A g \in Groups : ~Dropping(g)

LEMMA ReplayHeld == TodoReplayed => TodoHeld
BY StartsHeld, ProviderNotGroup, NothingElements DEF TodoReplayed, Replayed, TodoHeld, Binds, Dropping, Left

LEMMA BindForm == ASSUME NEW a, NEW w \in AgentWrites(a), w.op = "bind"
                  PROVE  w = W("bind", a, w.arg) /\ w.arg \in Binding /\ w.agent = a
BY DEF AgentWrites, W

LEMMA UnbindForm == ASSUME NEW a, NEW w \in AgentWrites(a), w.op = "unbind"
                    PROVE  w = W("unbind", a, None) /\ w.agent = a
BY DEF AgentWrites, W

\* Only a provider that is dropped leaves the pool, and its bindings go along.
LEMMA EditKeepsProviders ==
  ASSUME IInv, ProvidersHeld, NEW w, AnyWrite(w), w.op \in DocOps,
         \A a \in Agents : w \in AgentWrites(a) => w \in Left(a)
  PROVE  /\ \A a \in Agents : Edited(w).binding[a] # None => InPool(Edited(w), Edited(w).binding[a])
         /\ w.op # "dropProvider" => \A b : InPool(mem, b) => InPool(Edited(w), b)
<1> DEFINE d == Edited(w)
<1>1. DocTyped(mem)
  BY DEF IInv, Typed
<1>2. /\ d.pool = IF w.op = "putProvider" THEN [mem.pool EXCEPT ![w.arg.id] = w.arg.shape]
                  ELSE IF w.op = "dropProvider" THEN [mem.pool EXCEPT ![w.arg] = None]
                  ELSE mem.pool
      /\ d.binding = IF w.op = "bind" THEN [mem.binding EXCEPT ![w.agent] = w.arg]
                     ELSE IF w.op = "unbind" THEN [mem.binding EXCEPT ![w.agent] = None]
                     ELSE IF w.op = "dropProvider" THEN Without(w.arg)
                     ELSE mem.binding
  BY <1>1, EditedFields
<1>3. mem.pool \in [Providers -> Shapes \cup {None}] /\ mem.binding \in [Agents -> Binding \cup {None}]
  BY <1>1 DEF DocTyped
<1> HIDE DEF d
<1>4. w.op # "dropProvider" => \A b : InPool(mem, b) => InPool(d, b)
  <2>1. CASE w.op = "putProvider"
    <3>1. w.arg.shape # None
      BY <2>1, BindingsAssumption DEF AnyWrite, FirstWrites, LastWrites, AgentWrites, SecretOps
    <3> QED BY <1>2, <1>3, <2>1, <3>1 DEF InPool
  <2>2. CASE w.op \notin {"putProvider", "dropProvider"}
    BY <1>2, <2>2 DEF InPool
  <2> QED BY <2>1, <2>2
<1>5. ASSUME NEW a \in Agents, d.binding[a] # None PROVE InPool(d, d.binding[a])
  <2>1. CASE w.op = "bind"
    <3>1. PICK c \in Agents : w \in AgentWrites(c)
      BY <2>1 DEF AnyWrite, FirstWrites, LastWrites, SecretOps
    <3>2. w = W("bind", c, w.arg) /\ w.arg \in Binding /\ w.agent = c /\ w \in Left(c)
      BY <2>1, <3>1, BindForm
    <3>3. InPool(mem, w.arg)
      BY <3>2 DEF ProvidersHeld, Binds
    <3>4. d.binding[a] = w.arg \/ d.binding[a] = mem.binding[a]
      BY <1>2, <1>3, <2>1, <3>2
    <3>5. InPool(mem, d.binding[a])
      BY <1>5, <3>3, <3>4 DEF ProvidersHeld
    <3> QED BY <1>4, <2>1, <3>5
  <2>2. CASE w.op = "dropProvider"
    <3>1. d.binding[a] = mem.binding[a] /\ mem.binding[a].provider # w.arg
      BY <1>2, <1>5, <2>2 DEF Without
    <3>2. InPool(mem, mem.binding[a])
      BY <1>5, <3>1 DEF ProvidersHeld
    <3> QED BY <1>2, <1>3, <2>2, <3>1, <3>2 DEF InPool
  <2>3. CASE w.op \notin {"bind", "dropProvider"}
    <3>1. d.binding[a] = mem.binding[a]
      BY <1>2, <1>3, <1>5, <2>3
    <3>2. InPool(mem, d.binding[a])
      BY <1>5, <3>1 DEF ProvidersHeld
    <3> QED BY <1>4, <2>3, <3>2
  <2> QED BY <2>1, <2>2, <2>3
<1> QED
  BY <1>4, <1>5 DEF d

\* An agent's write was in its script, and what is left was left before; the
\* records of a provider or group go when no script is left.
LEMMA WriteKinds ==
  ASSUME NEW w, Stepped(w) \/ FailedWrite(w)
  PROVE  /\ \A a \in Agents : Left(a)' \subseteq Left(a)
         /\ \A a \in Agents : w \in AgentWrites(a) => w \in Left(a)
         /\ w.op \in {"dropProvider", "dropGroup"} => \A a \in Agents : Left(a)' = {}
<1>1. \A a, b \in Agents : w \in AgentWrites(a) /\ w \in AgentWrites(b) => a = b
  BY DEF AgentWrites
<1>2. w \in FirstWrites => \A a \in Agents : w \notin AgentWrites(a)
  BY DEF FirstWrites, AgentWrites, SecretOps
<1>3. w \in LastWrites => \A a \in Agents : w \notin AgentWrites(a)
  BY DEF LastWrites, AgentWrites
<1>4. w.op \in {"dropProvider", "dropGroup"} => w \notin FirstWrites /\ \A a \in Agents : w \notin AgentWrites(a)
  BY DEF FirstWrites, AgentWrites, SecretOps
<1>5. CASE FirstDone(w)
  BY <1>2, <1>4, <1>5, Zenon DEF FirstDone
<1>6. CASE LastDone(w)
  BY <1>3, <1>6, Zenon DEF LastDone
<1>7. ASSUME NEW a \in Agents, AgentDone(a, w)
      PROVE  /\ \A b \in Agents : Left(b)' \subseteq Left(b)
             /\ w \in AgentWrites(a) /\ w \in Left(a)
  <2>1. /\ w \in AgentWrites(a) /\ Left(a) = {w} \cup Left(a)'
        /\ \A b \in Agents \ {a} : Left(b)' = Left(b)
    BY <1>7, Zenon DEF AgentDone
  <2> QED BY <2>1
<1>8. CASE FailedWrite(w)
  <2>1. /\ \/ w \in FirstWrites
           \/ w \in LastWrites /\ \A a \in Agents : Left(a) = {}
           \/ \E a \in Agents : w \in Left(a) /\ w \in AgentWrites(a) /\ Left(a)' = {}
        /\ \A a \in Agents : Left(a)' \in {Left(a), {}}
    BY <1>8, Zenon DEF FailedWrite
  <2> QED BY <1>1, <1>2, <1>3, <1>4, <2>1
<1>9. ASSUME NEW a \in Agents, AgentDone(a, w)
      PROVE  /\ \A b \in Agents : w \in AgentWrites(b) => w \in Left(b)
             /\ w.op \in {"dropProvider", "dropGroup"} => \A b \in Agents : Left(b)' = {}
  BY <1>1, <1>4, <1>7, <1>9, Zenon
<1> QED
  BY <1>5, <1>6, <1>7, <1>8, <1>9 DEF Stepped

\* A save brings its own document to the file.
LEMMA SavedDoc ==
  ASSUME IInv, NEW w, AnyWrite(w), DoDoc(w)
  PROVE  /\ mem' = Edited(w) /\ DocTyped(mem') /\ DocTyped(disk')
         /\ \/ disk'.pool = disk.pool /\ disk'.binding = disk.binding
            \/ disk'.pool = mem'.pool /\ disk'.binding = mem'.binding
         /\ disk = mem => disk' = mem'
<1>1. /\ w.op \in DocOps /\ mem' = Edited(w)
      /\ disk' = [f \in DOMAIN disk |-> IF f \in SavedFields(w) THEN mem'[f] ELSE disk[f]]
  BY Zenon DEF DoDoc
<1>2. DocTyped(mem) /\ DocTyped(disk)
  BY DEF IInv, Typed
<1>3. /\ DocTyped(mem')
      /\ w.op \notin {"putProvider", "dropProvider"} => mem'.pool = mem.pool
      /\ w.op \notin {"bind", "unbind", "dropProvider"} => mem'.binding = mem.binding
      /\ w.op \notin {"putGroup", "dropGroup"} => mem'.groups = mem.groups
      /\ w.op \notin {"record", "forget"} => mem'.applied = mem.applied
  BY <1>1, <1>2, EditedFields
<1>4. /\ DocTyped(disk')
      /\ disk'.applied = IF w.op \in {"record", "forget"} THEN mem'.applied ELSE disk.applied
      /\ disk'.groups = IF w.op \in {"putGroup", "dropGroup"} THEN mem'.groups ELSE disk.groups
      /\ \/ w.op \in {"record", "forget", "putGroup", "dropGroup"}
            /\ disk'.pool = disk.pool /\ disk'.binding = disk.binding
         \/ w.op \notin {"record", "forget", "putGroup", "dropGroup"}
            /\ disk'.pool = mem'.pool /\ disk'.binding = mem'.binding
  BY <1>1, <1>2, <1>3, DiskFields
<1>5. ASSUME disk = mem PROVE disk' = mem'
  <2>1. /\ disk'.applied = mem'.applied /\ disk'.groups = mem'.groups
        /\ disk'.pool = mem'.pool /\ disk'.binding = mem'.binding
    BY <1>3, <1>4, <1>5
  <2> QED BY <1>3, <1>4, <2>1, Zenon DEF DocTyped
<1> QED
  BY <1>1, <1>3, <1>4, <1>5

\* What ProvidersHeld says of one document.
HeldIn(d) == \A a \in Agents : d.binding[a] # None => InPool(d, d.binding[a])

LEMMA SameHeld == ASSUME NEW d, NEW e, d.pool = e.pool, d.binding = e.binding, HeldIn(e) PROVE HeldIn(d)
BY DEF HeldIn, InPool

LEMMA WrittenHeld ==
  ASSUME IInv, ProvidersHeld, NEW w, AnyWrite(w), Stepped(w) \/ FailedWrite(w),
         mem' = IF w.op \in DocOps THEN Edited(w) ELSE mem
  PROVE  HeldIn(mem') /\ \A a \in Agents, b \in Binding : Binds(a, b)' => InPool(mem', b)
<1>1. /\ \A a \in Agents : Left(a)' \subseteq Left(a)
      /\ \A a \in Agents : w \in AgentWrites(a) => w \in Left(a)
      /\ w.op = "dropProvider" => \A a \in Agents : Left(a)' = {}
  BY WriteKinds
<1>2. \A a \in Agents, b \in Binding : Binds(a, b)' => Binds(a, b) /\ w.op # "dropProvider"
  BY <1>1 DEF Binds
<1>3. CASE w.op \in DocOps
  <2>1. /\ \A a \in Agents : Edited(w).binding[a] # None => InPool(Edited(w), Edited(w).binding[a])
        /\ w.op # "dropProvider" => \A b : InPool(mem, b) => InPool(Edited(w), b)
    BY <1>1, <1>3, EditKeepsProviders
  <2>2. mem' = Edited(w)
    BY <1>3
  <2> QED BY <1>2, <2>1, <2>2 DEF HeldIn, ProvidersHeld
<1>4. CASE w.op \notin DocOps
  BY <1>2, <1>4 DEF HeldIn, ProvidersHeld, InPool
<1> QED
  BY <1>3, <1>4

\* The providers' part of a state, and the next one's.
LEMMA ProvidersHeldOf ==
  ASSUME HeldIn(mem'), HeldIn(disk'), \A a \in Agents, b \in Binding : Binds(a, b)' => InPool(mem', b)
  PROVE  ProvidersHeld'
BY DEF HeldIn, ProvidersHeld, InPool

LEMMA NextProvidersHeld == ASSUME IInv, ProvidersHeld, [Next]_vars PROVE ProvidersHeld'
<1>1. HeldIn(mem) /\ HeldIn(disk) /\ \A a \in Agents, b \in Binding : Binds(a, b) => InPool(mem, b)
  BY DEF HeldIn, ProvidersHeld
<1>2. CASE UNCHANGED <<mem, disk, todo>>
  <2>1. \A a \in Agents, b \in Binding : Binds(a, b)' => Binds(a, b)
    BY <1>2 DEF Binds, Left
  <2> QED BY <1>1, <1>2, <2>1, ProvidersHeldOf
<1>3. ASSUME NEW w, DoneWrite(w) PROVE ProvidersHeld'
  <2>1. AnyWrite(w) /\ Stepped(w) /\ (DoRoute(w) \/ DoDoc(w) \/ DoFile(w) \/ DoSecret(w))
    BY <1>3 DEF DoneWrite
  <2>2. CASE DoDoc(w)
    <3>1. /\ mem' = Edited(w) /\ w.op \in DocOps
          /\ \/ disk'.pool = disk.pool /\ disk'.binding = disk.binding
             \/ disk'.pool = mem'.pool /\ disk'.binding = mem'.binding
      BY <2>1, <2>2, SavedDoc DEF DoDoc
    <3>2. HeldIn(mem') /\ \A a \in Agents, b \in Binding : Binds(a, b)' => InPool(mem', b)
      BY <2>1, <3>1, WrittenHeld
    <3>3. HeldIn(disk')
      BY <1>1, <3>1, <3>2, SameHeld
    <3> QED BY <3>2, <3>3, ProvidersHeldOf
  <2>3. CASE ~DoDoc(w)
    <3>1. mem' = mem /\ disk' = disk
      BY <2>1, <2>3 DEF DoRoute, DoFile, DoSecret
    <3>2. \A a \in Agents, b \in Binding : Binds(a, b)' => Binds(a, b)
      BY <2>1, WriteKinds DEF Binds
    <3> QED BY <1>1, <3>1, <3>2, ProvidersHeldOf
  <2> QED BY <2>2, <2>3
<1>4. ASSUME NEW w, FailedWrite(w) PROVE ProvidersHeld'
  <2>1. AnyWrite(w) /\ mem' = (IF w.op \in DocOps THEN Edited(w) ELSE mem) /\ disk' = disk
    BY <1>4 DEF FailedWrite
  <2>2. HeldIn(mem') /\ \A a \in Agents, b \in Binding : Binds(a, b)' => InPool(mem', b)
    BY <1>4, <2>1, WrittenHeld
  <2> QED BY <1>1, <2>1, <2>2, ProvidersHeldOf
<1>5. CASE HandlerStarted
  <2>1. PICK writes :
          Starts(writes) /\ todo' = writes /\ UNCHANGED <<mem, disk>>
    BY <1>5, Zenon DEF HandlerStarted, StartsHandler, Start
  <2>2. \A a \in Agents, b \in Binding : Binds(a, b)' => InPool(mem, b)
    BY <2>1, StartsHeld, ProviderNotGroup DEF Binds, Left
  <2> QED BY <1>1, <2>1, <2>2, ProvidersHeldOf
<1>6. CASE mem' = mem /\ disk' = disk /\ TodoReplayed'
  <2>1. TodoHeld'
    BY <1>6, ReplayHeld, PTL
  <2> QED BY <1>1, <1>6, <2>1, ProvidersHeldOf DEF TodoHeld
<1>7. CASE SetProxyMode
  <2>1. TodoReplayed'
    BY <1>7, RebuildNext DEF SetProxyMode, IInv, Typed
  <2> QED BY <1>6, <1>7, <2>1 DEF SetProxyMode
<1>8. CASE RefreshProxyPort
  <2>1. mem' = mem /\ disk' = disk /\ (todo' = Rebuild' \/ todo' = todo)
    BY <1>8, Zenon DEF RefreshProxyPort
  <2>2. todo' = Rebuild' => TodoReplayed'
    BY <2>1, RebuildNext DEF IInv, Typed
  <2> QED BY <1>2, <1>6, <2>1, <2>2
<1>9. CASE Restart
  <2>1. mem' = Loaded /\ disk' = disk /\ (todo' = Rebuild' \/ todo' = Done)
    BY <1>9, Zenon DEF Restart
  <2>2. /\ DocTyped(mem')
        /\ mem'.pool = disk.pool
        /\ \A a \in Agents : mem'.binding[a] =
             IF disk.binding[a] # None /\ disk.binding[a].provider \in Providers
                  /\ disk.pool[disk.binding[a].provider] = None
             THEN None ELSE disk.binding[a]
    BY <2>1, LoadedFields DEF IInv, Typed
  <2>3. HeldIn(mem')
    BY <2>2 DEF HeldIn, InPool
  <2>4. \A a \in Agents, b \in Binding : Binds(a, b)' => InPool(mem', b)
    <3>1. CASE todo' = Done
      BY <3>1, DoneTyped, NothingElements DEF Binds, Left
    <3>2. CASE todo' = Rebuild'
      <4>1. TodoReplayed'
        BY <2>2, <3>2, RebuildNext
      <4>2. TodoHeld'
        BY <4>1, ReplayHeld, PTL
      <4> QED BY <4>2 DEF TodoHeld, InPool
    <3> QED BY <2>1, <3>1, <3>2
  <2> QED BY <1>1, <2>1, <2>3, <2>4, ProvidersHeldOf
<1>10. ASSUME NEW a \in Agents, ForeignEdit(a) PROVE UNCHANGED <<mem, disk, todo>>
  BY <1>10, Zenon DEF ForeignEdit
<1>11. UNCHANGED vars => UNCHANGED <<mem, disk, todo>>
  BY Zenon DEF vars
<1>12. Next => \/ (\E w : DoneWrite(w)) \/ (\E w : FailedWrite(w)) \/ HandlerStarted \/ SetProxyMode
               \/ RefreshProxyPort \/ Restart \/ \E a \in Agents : ForeignEdit(a)
  BY NextCases, DoIsDone, FailIsFailed DEF IInv, Typed
<1> QED
  BY <1>2, <1>3, <1>4, <1>5, <1>7, <1>8, <1>9, <1>10, <1>11, <1>12, Zenon

(***************************************************************************)
(* Where nothing has failed.                                               *)
(***************************************************************************)
Agreed == disk = mem /\ saved = Router!snapshot

\* A replay starts and nothing else changes that a binding's life depends on.
Replays ==
  /\ Idle /\ TodoReplayed'
  /\ UNCHANGED <<mem, disk, byToken, tokenByAgent, file>>

\* What can happen then.
FaultlessStep ==
  \/ \E w : DoneWrite(w)
  \/ HandlerStarted
  \/ Replays
  \/ \E a \in Agents : ForeignEdit(a)
  \/ UNCHANGED vars

LEMMA SameSnapshot ==
  ASSUME UNCHANGED <<byToken, tokenByAgent, saved>>, saved = Router!snapshot
  PROVE  saved' = Router!snapshot'
BY DEF Router!snapshot, Router!Routed, Router!has

\* What has failed stays counted.
LEMMA FaultsStay ==
  ASSUME IInv, [Next]_vars, faults' = 0
  PROVE  faults = 0
<1>1. faults \in Nat
  BY BindingsAssumption DEF IInv, Typed
<1>2. ASSUME NEW w, DoneWrite(w) PROVE UNCHANGED faults
  BY <1>2, Zenon DEF DoneWrite
<1>3. ASSUME NEW w, FailedWrite(w) PROVE faults' = faults + 1
  BY <1>3, Zenon DEF FailedWrite
<1>4. HandlerStarted => UNCHANGED faults
  BY Zenon DEF HandlerStarted, StartsHandler, Start
<1>5. SetProxyMode => UNCHANGED faults
  BY Zenon DEF SetProxyMode
<1>6. RefreshProxyPort => faults' \in {faults, faults + 1}
  BY DEF RefreshProxyPort
<1>7. Restart => \E dies \in {0, 1} : faults' = faults + dies \/ faults' = faults + dies + 1
  BY DEF Restart
<1>8. (\E a \in Agents : ForeignEdit(a)) => UNCHANGED faults
  BY Zenon DEF ForeignEdit
<1>9. UNCHANGED vars => UNCHANGED faults
  BY Zenon DEF vars
<1>10. Next => \/ (\E w : DoneWrite(w)) \/ (\E w : FailedWrite(w)) \/ HandlerStarted \/ SetProxyMode
               \/ RefreshProxyPort \/ Restart \/ \E a \in Agents : ForeignEdit(a)
  BY NextCases, DoIsDone, FailIsFailed DEF IInv, Typed
<1>11. faults' \in {faults, faults + 1, faults + 2}
  <2>1. Restart => faults' \in {faults, faults + 1, faults + 2}
    BY <1>1, <1>7
  <2> QED BY <1>2, <1>3, <1>4, <1>5, <1>6, <1>8, <1>9, <1>10, <2>1
<1> QED
  BY <1>1, <1>11

LEMMA FaultlessSteps ==
  ASSUME faults' = 0, IInv, ProvidersHeld, Agreed, [Next]_vars
  PROVE  FaultlessStep /\ Agreed'
<1>1. faults = 0 /\ faults' = 0
  BY FaultsStay
<1>2. ASSUME NEW w, FailedWrite(w) PROVE FALSE
  BY <1>1, <1>2 DEF FailedWrite
<1>3. ASSUME NEW w, DoneWrite(w) PROVE Agreed'
  <2>1. AnyWrite(w) /\ (DoRoute(w) \/ DoDoc(w) \/ DoFile(w) \/ DoSecret(w))
    BY <1>3 DEF DoneWrite
  <2>2. CASE DoRoute(w)
    BY <2>2 DEF DoRoute, SaveProxyState, Agreed
  <2>3. CASE DoDoc(w)
    <3>1. UNCHANGED <<byToken, tokenByAgent, saved>>
      BY <2>3 DEF DoDoc
    <3>2. disk' = mem'
      BY <2>1, <2>3, SavedDoc DEF Agreed
    <3> QED BY <3>1, <3>2, SameSnapshot DEF Agreed
  <2>4. CASE DoFile(w) \/ DoSecret(w)
    <3>1. UNCHANGED <<mem, disk, byToken, tokenByAgent, saved>>
      BY <2>4 DEF DoFile, DoSecret
    <3> QED BY <3>1, SameSnapshot DEF Agreed
  <2> QED BY <2>1, <2>2, <2>3, <2>4
<1>4. CASE HandlerStarted
  <2>1. UNCHANGED <<mem, disk, byToken, tokenByAgent, saved>>
    BY <1>4, Zenon DEF HandlerStarted, StartsHandler, Start
  <2> QED BY <1>4, <2>1, SameSnapshot DEF Agreed, FaultlessStep
<1>5. CASE SetProxyMode
  <2>1. /\ UNCHANGED <<mem, disk, byToken, tokenByAgent, saved, file>> /\ Idle /\ todo' = Rebuild'
    BY <1>5, Zenon DEF SetProxyMode
  <2>2. TodoReplayed'
    BY <2>1, RebuildNext DEF IInv, Typed
  <2> QED BY <2>1, <2>2, SameSnapshot DEF Agreed, FaultlessStep, Replays
<1>6. CASE RefreshProxyPort
  <2>1. /\ UNCHANGED <<mem, disk, byToken, tokenByAgent, file>> /\ Idle
        /\ \/ SaveProxyState /\ todo' = Rebuild'
           \/ faults' = faults + 1
    BY <1>6, Zenon DEF RefreshProxyPort
  <2>2. SaveProxyState /\ todo' = Rebuild'
    BY <1>1, <2>1
  <2>3. TodoReplayed'
    BY <2>1, <2>2, RebuildNext DEF IInv, Typed
  <2> QED BY <2>1, <2>2, <2>3 DEF Agreed, FaultlessStep, Replays, SaveProxyState
<1>7. CASE Restart
  <2> DEFINE dies == IF Idle THEN 0 ELSE 1
  <2>1. /\ mem' = Loaded /\ Router!rehydrate(saved) /\ UNCHANGED <<disk, saved, file>>
        /\ (todo' = Rebuild' /\ faults' = faults + dies) \/ faults' = faults + dies + 1
    BY <1>7, Zenon DEF Restart
  <2>2. Idle /\ faults' = faults + dies
    BY <1>1, <2>1
  <2>3. todo' = Rebuild'
    BY <1>1, <2>1, <2>2
  <2>4. mem' = mem
    <3>1. /\ DocTyped(Loaded) /\ DocTyped(mem) /\ disk = mem
          /\ Loaded.pool = disk.pool /\ Loaded.groups = disk.groups /\ Loaded.applied = disk.applied
          /\ \A a \in Agents : Loaded.binding[a] =
               IF disk.binding[a] # None /\ disk.binding[a].provider \in Providers
                    /\ disk.pool[disk.binding[a].provider] = None
               THEN None ELSE disk.binding[a]
      BY LoadedFields DEF IInv, Typed, Agreed
    <3>2. \A a \in Agents : Loaded.binding[a] = mem.binding[a]
      BY <3>1 DEF ProvidersHeld, InPool
    <3>3. Loaded.binding = mem.binding
      BY <3>1, <3>2 DEF DocTyped
    <3> QED BY <2>1, <3>1, <3>3, Zenon DEF DocTyped
  <2>5. UNCHANGED <<byToken, tokenByAgent>>
    BY <2>1, RehydratedSame DEF Agreed, IInv
  <2>6. TodoReplayed'
    BY <2>3, <2>4, RebuildNext DEF IInv, Typed
  <2> QED BY <2>1, <2>2, <2>4, <2>5, <2>6, SameSnapshot DEF Agreed, FaultlessStep, Replays
<1>8. ASSUME NEW a \in Agents, ForeignEdit(a) PROVE Agreed'
  <2>1. UNCHANGED <<mem, disk, byToken, tokenByAgent, saved>>
    BY <1>8, Zenon DEF ForeignEdit
  <2> QED BY <2>1, SameSnapshot DEF Agreed
<1>9. CASE UNCHANGED vars
  <2>1. UNCHANGED <<mem, disk, byToken, tokenByAgent, saved>>
    BY <1>9, Zenon DEF vars
  <2> QED BY <1>9, <2>1, SameSnapshot DEF Agreed, FaultlessStep
<1>10. Next => \/ (\E w : DoneWrite(w)) \/ (\E w : FailedWrite(w)) \/ HandlerStarted \/ SetProxyMode
               \/ RefreshProxyPort \/ Restart \/ \E a \in Agents : ForeignEdit(a)
  BY NextCases, DoIsDone, FailIsFailed DEF IInv, Typed
<1> QED
  BY <1>2, <1>3, <1>4, <1>5, <1>6, <1>7, <1>8, <1>9, <1>10, Zenon DEF FaultlessStep

\* A removed group is no longer named, and a group is named only where it is.
LEMMA WrittenGroups ==
  ASSUME IInv, GroupsHeld, NEW w, AnyWrite(w), Stepped(w),
         mem' = IF w.op \in DocOps THEN Edited(w) ELSE mem
  PROVE  /\ \A a \in Agents : mem'.binding[a] # None => InGroups(mem', mem'.binding[a])
         /\ \A a \in Agents, b \in Binding : Binds(a, b)' => InGroups(mem', b)
<1>1. /\ \A a \in Agents : Left(a)' \subseteq Left(a)
      /\ \A a \in Agents : w \in AgentWrites(a) => w \in Left(a)
      /\ w.op = "dropGroup" => \A a \in Agents : Left(a)' = {}
  BY WriteKinds
<1>2. DocTyped(mem) /\ mem.groups \in [Groups -> MemberLists \cup {None}]
      /\ mem.binding \in [Agents -> Binding \cup {None}]
  BY DEF IInv, Typed, DocTyped
<1>3. /\ mem'.groups = IF w.op = "putGroup" THEN [mem.groups EXCEPT ![w.arg.id] = w.arg.members]
                       ELSE IF w.op = "dropGroup" THEN [mem.groups EXCEPT ![w.arg] = None]
                       ELSE mem.groups
      /\ mem'.binding = IF w.op = "bind" THEN [mem.binding EXCEPT ![w.agent] = w.arg]
                        ELSE IF w.op = "unbind" THEN [mem.binding EXCEPT ![w.agent] = None]
                        ELSE IF w.op = "dropProvider" THEN Without(w.arg)
                        ELSE mem.binding
  <2>1. CASE w.op \in DocOps
    BY <1>2, <2>1, EditedFields
  <2>2. CASE w.op \notin DocOps
    BY <2>2 DEF DocOps
  <2> QED BY <2>1, <2>2
<1>4. w.op # "dropGroup" => \A b : InGroups(mem, b) => InGroups(mem', b)
  <2>1. CASE w.op = "putGroup"
    <3>1. w.arg.members # None
      BY <2>1, BindingsAssumption DEF AnyWrite, FirstWrites, LastWrites, AgentWrites, SecretOps
    <3> QED BY <1>2, <1>3, <2>1, <3>1 DEF InGroups
  <2>2. CASE w.op \notin {"putGroup", "dropGroup"}
    BY <1>3, <2>2 DEF InGroups
  <2> QED BY <2>1, <2>2
<1>5. \A a \in Agents, b \in Binding : Binds(a, b)' => Binds(a, b) /\ w.op # "dropGroup"
  BY <1>1 DEF Binds
<1>6. ASSUME NEW a \in Agents, mem'.binding[a] # None PROVE InGroups(mem', mem'.binding[a])
  <2>1. CASE w.op = "bind"
    <3>1. PICK c \in Agents : w \in AgentWrites(c)
      BY <2>1 DEF AnyWrite, FirstWrites, LastWrites, SecretOps
    <3>2. w = W("bind", c, w.arg) /\ w.arg \in Binding /\ w.agent = c /\ w \in Left(c)
      BY <1>1, <2>1, <3>1, BindForm
    <3>3. InGroups(mem, w.arg)
      BY <3>2 DEF GroupsHeld, Binds
    <3>4. mem'.binding[a] = w.arg \/ mem'.binding[a] = mem.binding[a]
      BY <1>2, <1>3, <2>1, <3>2
    <3>5. InGroups(mem, mem'.binding[a])
      BY <1>6, <3>3, <3>4 DEF GroupsHeld
    <3> QED BY <1>4, <2>1, <3>5
  <2>2. CASE w.op = "dropGroup"
    <3>1. LastDone(w) /\ w.arg \in Groups /\ w = W("dropGroup", None, w.arg)
      BY <2>2 DEF Stepped, FirstDone, AgentDone, FirstWrites, AgentWrites, LastWrites, LastDone, SecretOps, W
    <3>2. Dropping(w.arg) /\ Left(a) = {}
      BY <3>1 DEF LastDone, Dropping
    <3>3. ~BoundTo(a, w.arg)
      BY <3>1, <3>2 DEF GroupsHeld
    <3>4. mem'.binding[a] = mem.binding[a]
      BY <1>3, <2>2
    <3> QED BY <1>2, <1>3, <1>6, <2>2, <3>3, <3>4 DEF GroupsHeld, InGroups, BoundTo
  <2>3. CASE w.op \notin {"bind", "dropGroup"}
    <3>1. mem'.binding[a] = mem.binding[a]
      BY <1>2, <1>3, <1>6, <2>3 DEF Without
    <3> QED BY <1>4, <1>6, <2>3, <3>1 DEF GroupsHeld
  <2> QED BY <2>1, <2>2, <2>3
<1>7. ASSUME NEW a \in Agents, NEW b \in Binding, Binds(a, b)' PROVE InGroups(mem', b)
  BY <1>4, <1>5, <1>7 DEF GroupsHeld
<1> QED
  BY <1>6, <1>7

\* An agent of a removed group waits for its own unbinding.
LEMMA DropsWait ==
  ASSUME IInv, GroupsHeld, NEW w, AnyWrite(w), Stepped(w),
         mem' = IF w.op \in DocOps THEN Edited(w) ELSE mem,
         NEW g \in Groups, Dropping(g)', NEW a \in Agents
  PROVE  /\ BoundTo(a, g)' => W("unbind", a, None) \in Left(a)'
         /\ \A b \in Binding : ~Binds(a, b)'
<1>1. /\ \A c \in Agents : Left(c)' \subseteq Left(c)
      /\ \A c \in Agents : w \in AgentWrites(c) => w \in Left(c)
  BY WriteKinds
<1>2. Dropping(g)
  BY DEF Dropping, Stepped, FirstDone, AgentDone, LastDone
<1>3. /\ BoundTo(a, g) => W("unbind", a, None) \in Left(a)
      /\ \A c \in Agents, b \in Binding : ~Binds(c, b)
  BY <1>2 DEF GroupsHeld
<1>4. \A b \in Binding : ~Binds(a, b)'
  BY <1>1, <1>3 DEF Binds
<1>5. w.op # "bind"
  <2>1. SUFFICES ASSUME w.op = "bind" PROVE FALSE
    OBVIOUS
  <2>2. PICK c \in Agents : w \in AgentWrites(c)
    BY <2>1 DEF AnyWrite, FirstWrites, LastWrites, SecretOps
  <2>3. w = W("bind", c, w.arg) /\ w.arg \in Binding /\ w \in Left(c)
    BY <1>1, <2>1, <2>2, BindForm
  <2> QED BY <1>3, <2>3 DEF Binds
<1>6. DocTyped(mem) /\ mem.binding \in [Agents -> Binding \cup {None}]
  BY DEF IInv, Typed, DocTyped
<1>7. /\ w.op \in DocOps => mem'.binding = Edited(w).binding
      /\ w.op \notin DocOps => mem'.binding = mem.binding
      /\ w.op \in DocOps => Edited(w).binding =
           IF w.op = "bind" THEN [mem.binding EXCEPT ![w.agent] = w.arg]
           ELSE IF w.op = "unbind" THEN [mem.binding EXCEPT ![w.agent] = None]
           ELSE IF w.op = "dropProvider" THEN Without(w.arg)
           ELSE mem.binding
  BY <1>6, EditedFields
<1>8. BoundTo(a, g)' => BoundTo(a, g) /\ ~(w.op = "unbind" /\ w.agent = a)
  <2>1. CASE w.op = "unbind"
    BY <1>6, <1>7, <2>1 DEF BoundTo, DocOps
  <2>2. CASE w.op # "unbind"
    <3>1. mem'.binding[a] # None => mem'.binding[a] = mem.binding[a]
      BY <1>5, <1>6, <1>7, <2>2 DEF Without
    <3> QED BY <2>2, <3>1 DEF BoundTo
  <2> QED BY <2>1, <2>2
<1>9. ASSUME BoundTo(a, g)' PROVE W("unbind", a, None) \in Left(a)'
  <2>1. W("unbind", a, None) \in Left(a) /\ w # W("unbind", a, None)
    BY <1>3, <1>8, <1>9, WriteFields
  <2>2. Left(a)' = Left(a) \/ Left(a) = {w} \cup Left(a)'
    BY <2>1 DEF Stepped, FirstDone, AgentDone, LastDone
  <2> QED BY <2>1, <2>2
<1> QED
  BY <1>4, <1>9

LEMMA NextGroupsHeld ==
  ASSUME faults' = 0, IInv, ProvidersHeld, GroupsHeld, Agreed, [Next]_vars
  PROVE  GroupsHeld'
<1>1. FaultlessStep /\ disk' = mem'
  BY FaultlessSteps DEF Agreed
<1>2. ASSUME NEW w, DoneWrite(w) PROVE GroupsHeld'
  <2>1. AnyWrite(w) /\ Stepped(w) /\ (DoRoute(w) \/ DoDoc(w) \/ DoFile(w) \/ DoSecret(w))
    BY <1>2 DEF DoneWrite
  <2>2. mem' = IF w.op \in DocOps THEN Edited(w) ELSE mem
    BY <2>1 DEF DoRoute, DoDoc, DoFile, DoSecret, DocOps, RouteOps, FileOps, SecretOps
  <2>3. /\ \A a \in Agents : mem'.binding[a] # None => InGroups(mem', mem'.binding[a])
        /\ \A a \in Agents, b \in Binding : Binds(a, b)' => InGroups(mem', b)
    BY <2>1, <2>2, WrittenGroups
  <2>4. \A g \in Groups : Dropping(g)' =>
          \A a \in Agents : /\ BoundTo(a, g)' => W("unbind", a, None) \in Left(a)'
                            /\ \A b \in Binding : ~Binds(a, b)'
    BY <2>1, <2>2, DropsWait
  <2> QED BY <1>1, <2>3, <2>4, Zenon DEF GroupsHeld, InGroups
<1>3. CASE HandlerStarted
  <2>1. PICK writes :
          Starts(writes) /\ todo' = writes /\ UNCHANGED <<mem, disk>>
    BY <1>3, Zenon DEF HandlerStarted, StartsHandler, Start
  <2>2. /\ \A a \in Agents, b \in Binding :
             Binds(a, b)' => InGroups(mem, b) /\ Elements(todo'.last) = {}
        /\ \A g \in Groups : W("dropGroup", None, g) \in Elements(todo'.last) =>
             \A a \in Agents : BoundTo(a, g) => W("unbind", a, None) \in Left(a)'
    BY <2>1, StartsHeld, ProviderNotGroup DEF Binds, Left
  <2>3. \A a \in Agents, g \in Groups : (BoundTo(a, g)' <=> BoundTo(a, g))
    BY <2>1 DEF BoundTo
  <2> QED BY <1>1, <2>1, <2>2, <2>3 DEF GroupsHeld, InGroups, Dropping
<1>4. CASE Replays
  <2>1. TodoReplayed' /\ UNCHANGED <<mem, disk>>
    BY <1>4 DEF Replays
  <2>2. TodoHeld'
    BY <2>1, ReplayHeld, PTL
  <2> QED BY <2>1, <2>2 DEF GroupsHeld, TodoHeld, InGroups
<1>5. CASE UNCHANGED <<mem, disk, todo>>
  <2>1. /\ \A a \in Agents : Left(a)' = Left(a)
        /\ \A a \in Agents, b \in Binding : Binds(a, b)' <=> Binds(a, b)
        /\ \A a \in Agents, g \in Groups : (BoundTo(a, g)' <=> BoundTo(a, g)) /\ (Dropping(g)' <=> Dropping(g))
    BY <1>5 DEF Binds, Left, BoundTo, Dropping
  <2> QED BY <1>5, <2>1 DEF GroupsHeld, InGroups
<1>6. ASSUME NEW a \in Agents, ForeignEdit(a) PROVE UNCHANGED <<mem, disk, todo>>
  BY <1>6, Zenon DEF ForeignEdit
<1>7. UNCHANGED vars => UNCHANGED <<mem, disk, todo>>
  BY Zenon DEF vars
<1> QED
  BY <1>1, <1>2, <1>3, <1>4, <1>5, <1>6, <1>7, Zenon DEF FaultlessStep

LEMMA InitHeld == Init => ProvidersHeld /\ GroupsHeld /\ Agreed
<1> SUFFICES ASSUME Init PROVE ProvidersHeld /\ GroupsHeld /\ Agreed
  OBVIOUS
<1>1. /\ disk = mem /\ \A a \in Agents : mem.binding[a] = None
      /\ todo = Done /\ saved = {} /\ \A a \in Agents : tokenByAgent[a] = NoToken
  BY DEF Init
<1>2. Elements(todo.last) = {} /\ \A a \in Agents : Left(a) = {}
  BY <1>1, DoneTyped, NothingElements DEF Left
<1>3. saved = Router!snapshot
  BY <1>1 DEF Router!snapshot, Router!Routed, Router!has
<1> QED
  BY <1>1, <1>2, <1>3 DEF ProvidersHeld, GroupsHeld, Agreed, Binds, Dropping

LEMMA AlwaysProvidersHeld == Spec => [](IInv /\ ProvidersHeld)
<1>1. IInv /\ ProvidersHeld /\ [Next]_vars => ProvidersHeld'
  BY NextProvidersHeld
<1> QED
  BY <1>1, InitIInv, InitHeld, NextIInv, PTL DEF Spec

LEMMA HeldUntilFault == Spec => [](IInv /\ ProvidersHeld /\ (faults = 0 => GroupsHeld /\ Agreed))
<1>1. IInv /\ ProvidersHeld /\ [Next]_vars => ProvidersHeld'
  BY NextProvidersHeld
<1>2. /\ IInv /\ ProvidersHeld /\ (faults = 0 => GroupsHeld /\ Agreed) /\ [Next]_vars
      => (faults' = 0 => GroupsHeld' /\ Agreed')
  BY FaultsStay, NextGroupsHeld, FaultlessSteps
<1>3. IInv /\ ProvidersHeld /\ (faults = 0 => GroupsHeld /\ Agreed) /\ [Next]_vars
      => (faults = 0 => GroupsHeld /\ Agreed)'
  BY <1>2
<1> QED
  BY <1>1, <1>3, InitIInv, InitHeld, NextIInv, PTL DEF Spec

LEMMA AlwaysGroupsHeld == ASSUME MaxFaults = 0 PROVE Spec => [](IInv /\ ProvidersHeld /\ GroupsHeld /\ Agreed)
<1>1. IInv /\ (faults = 0 => GroupsHeld /\ Agreed) => GroupsHeld /\ Agreed
  BY DEF IInv, Typed
<1> QED
  BY <1>1, HeldUntilFault, PTL

\* A binding never names a provider that is gone, in memory or on disk, whatever
\* fails: removeProvider takes the record and the bindings to it in one document.
NoDanglingProvider ==
  \A d \in {mem, disk}, a \in Agents :
    d.binding[a] # None /\ d.binding[a].provider \notin Groups => d.pool[d.binding[a].provider] # None

LEMMA HeldProviders == IInv /\ ProvidersHeld => NoDanglingProvider
<1> SUFFICES ASSUME IInv, ProvidersHeld, NEW d \in {mem, disk}, NEW a \in Agents,
                    d.binding[a] # None, d.binding[a].provider \notin Groups
             PROVE  d.pool[d.binding[a].provider] # None
  BY DEF NoDanglingProvider
<1>1. d.binding[a] \in Binding
  BY DEF IInv, Typed, DocTyped
<1>2. d.binding[a].provider \in Providers
  BY <1>1 DEF Binding
<1> QED
  BY <1>2 DEF ProvidersHeld, InPool

\* The half of NoDanglingBinding that needs no hypothesis on what can fail.
THEOREM ProvidersNeverDangle == Spec => []NoDanglingProvider
BY HeldProviders, AlwaysProvidersHeld, PTL

\* A binding never names a provider that is gone, neither in memory nor in the
\* files, not even between the writes of the handler that removes it, whatever
\* fails; and never a group that is gone as long as no write has failed and the
\* process has not died in a handler, for the bindings to a group go one by one
\* in another store.
THEOREM NothingDangles == Spec => []NoDanglingBinding
<1>1. NoDanglingProvider /\ (faults = 0 => GroupsHeld /\ Agreed) => NoDanglingBinding
  <2>1. CASE faults = 0
    BY <2>1, Zenon DEF NoDanglingBinding, NoDanglingProvider, GroupsHeld, InGroups, Agreed
  <2>2. CASE faults # 0
    BY <2>2, Zenon DEF NoDanglingBinding, NoDanglingProvider
  <2> QED BY <2>1, <2>2
<1> QED
  BY <1>1, HeldProviders, HeldUntilFault, PTL

(***************************************************************************)
(* Routes and bindings, where no write can fail.                           *)
(***************************************************************************)
RouteName(a) == byToken[tokenByAgent[a]].target.provider

\* After the writes in left and last, agent a is bound to q.
WillName(left, last, a, q) ==
  \/ \E b \in Binding : b.provider = q /\ W("bind", a, b) \in left
  \/ /\ BoundTo(a, q)
     /\ \A b \in Binding : W("bind", a, b) \notin left
     /\ W("unbind", a, None) \notin left
     /\ W("dropProvider", None, q) \notin last

\* A pending registration, or else the route there is, carries the name that
\* the agent's binding will have in the end.
RouteGood(left, last, a) ==
  /\ \A b \in Binding : W("bind", a, b) \in left => last = {}
  /\ \A t \in RouteTargets : W("register", a, t) \in left => WillName(left, last, a, t.provider)
  /\ (\A w \in left : w.op \notin RouteOps) /\ Router!Routed(a) => WillName(left, last, a, RouteName(a))

RoutesLead == \A a \in Agents : RouteGood(Left(a), Elements(todo.last), a)

RoutesNamed == \A a \in Agents : Router!Routed(a) => BoundTo(a, RouteName(a))

\* When nothing is left the routes carry the names of the bindings.
LEMMA IdleRoutes == ASSUME IInv, RoutesLead, Idle PROVE RoutesNamed
<1>1. Elements(todo.last) = {} /\ \A a \in Agents : Left(a) = {}
  BY DoneTyped, NothingElements DEF Idle, Left
<1> QED
  BY <1>1 DEF RoutesLead, RouteGood, WillName, RoutesNamed

LEMMA AppliesWrites ==
  ASSUME NEW a \in Agents, NEW b, NEW writes, Applies(writes, a, b)
  PROVE  /\ \A x : W("bind", a, x) \notin writes
         /\ W("unbind", a, None) \notin writes
         /\ \E w \in writes : w.op \in RouteOps
         /\ \A t : W("register", a, t) \in writes => t.provider = b.provider
         /\ writes # {} /\ writes # {W("unregister", a, None)}
<1>1. ASSUME NEW c \in Configs, writes = DirectWrites(a, b, c)
      PROVE  /\ \A w \in writes : w.op \in {"unregister", "write", "record"}
             /\ W("unregister", a, None) \in writes /\ W("write", a, c) \in writes
  BY <1>1, WriteFields DEF DirectWrites
<1>2. ASSUME NEW t \in RouteTargets, t.provider = b.provider, writes = ProxiedWrites(a, b, t)
      PROVE  /\ \A w \in writes : w.op \in {"register", "point", "record"}
             /\ \A u : W("register", a, u) \in writes => u = t
             /\ W("register", a, t) \in writes
  BY <1>2, WriteFields DEF ProxiedWrites
<1>3. CASE \E c \in Configs : writes = DirectWrites(a, b, c)
  <2>1. PICK c \in Configs : writes = DirectWrites(a, b, c)
    BY <1>3
  <2>2. /\ \A w \in writes : w.op \in {"unregister", "write", "record"}
        /\ W("unregister", a, None) \in writes /\ W("write", a, c) \in writes
    BY <1>1, <2>1
  <2> QED BY <2>2, WriteFields DEF RouteOps
<1>4. CASE \E t \in RouteTargets : t.provider = b.provider /\ writes = ProxiedWrites(a, b, t)
  <2>1. PICK t \in RouteTargets : t.provider = b.provider /\ writes = ProxiedWrites(a, b, t)
    BY <1>4
  <2>2. /\ \A w \in writes : w.op \in {"register", "point", "record"}
        /\ \A u : W("register", a, u) \in writes => u = t
        /\ W("register", a, t) \in writes
    BY <1>2, <2>1
  <2> QED BY <2>1, <2>2, WriteFields DEF RouteOps
<1> QED
  BY <1>3, <1>4 DEF Applies

\* So they do when a job starts.
LEMMA StartsRoutes ==
  ASSUME NEW t, Starts(t), RoutesNamed, NEW a \in Agents
  PROVE  RouteGood(Elements(t.each[a]), Elements(t.last), a)
<1> DEFINE left == Elements(t.each[a])
           last == Elements(t.last)
<1>1. AgentStarts(left, last, a)
  BY DEF Starts
<1>2. \A b \in Binding : W("bind", a, b) \in left => last = {}
  BY StartsHeld
<1>3. \A p \in Providers : W("dropProvider", None, p) \in last =>
        /\ BoundTo(a, p) => left = {W("unregister", a, None)}
        /\ ~BoundTo(a, p) => left = {}
  BY DEF Starts, LastStarts
<1>4. ASSUME NEW q, W("dropProvider", None, q) \in last PROVE q \in Providers
  <2>1. t.last \in Seq(LastWrites)
    BY DEF Starts, TodoTyped
  <2>2. W("dropProvider", None, q) \in LastWrites
    BY <1>4, <2>1 DEF Elements
  <2> QED BY <2>2, WriteFields DEF LastWrites
<1> HIDE DEF left, last
<1>5. CASE left = {}
  <2>1. \A q : BoundTo(a, q) => W("dropProvider", None, q) \notin last
    BY <1>3, <1>4, <1>5
  <2> QED BY <1>2, <1>5, <2>1 DEF RouteGood, WillName, RoutesNamed, left, last
<1>6. CASE mem.binding[a] # None /\ Applies(left, a, mem.binding[a])
  <2>1. /\ \A x : W("bind", a, x) \notin left
        /\ W("unbind", a, None) \notin left
        /\ \E w \in left : w.op \in RouteOps
        /\ \A u : W("register", a, u) \in left => u.provider = mem.binding[a].provider
        /\ left # {} /\ left # {W("unregister", a, None)}
    BY <1>6, AppliesWrites
  <2>2. \A q : W("dropProvider", None, q) \notin last
    BY <1>3, <1>4, <2>1
  <2>3. BoundTo(a, mem.binding[a].provider)
    BY <1>6 DEF BoundTo
  <2> QED BY <1>2, <2>1, <2>2, <2>3 DEF RouteGood, WillName, left, last
<1>7. ASSUME NEW b \in Binding, NEW applied \in SUBSET AgentWrites(a),
             Available(b), Applies(applied, a, b), left = applied \cup {W("bind", a, b)}, last = {}
      PROVE  RouteGood(left, last, a)
  <2>1. /\ \E w \in applied : w.op \in RouteOps
        /\ \A u : W("register", a, u) \in applied => u.provider = b.provider
    BY <1>7, AppliesWrites
  <2>2. \A u : W("register", a, u) \in left => u.provider = b.provider
    BY <1>7, <2>1, WriteFields
  <2> QED BY <1>2, <1>7, <2>1, <2>2 DEF RouteGood, WillName
<1>8. ASSUME W("unregister", a, None) \in left,
             \A w \in left : w.op \in {"restore", "unregister", "unbind", "forget"}
      PROVE  RouteGood(left, last, a)
  <2>1. /\ \A x : W("register", a, x) \notin left /\ W("bind", a, x) \notin left
        /\ \E w \in left : w.op \in RouteOps
    BY <1>8, WriteFields DEF RouteOps
  <2> QED BY <2>1 DEF RouteGood
<1>9. CASE left \in {UnbindWrites(a), {W("restore", a, None)} \cup UnbindWrites(a), {W("unregister", a, None)}}
  BY <1>8, <1>9, WriteFields DEF UnbindWrites, left, last
<1> QED
  BY <1>1, <1>5, <1>6, <1>7, <1>9 DEF AgentStarts, left, last

\* What a write of an agent's script does to the bindings and routes.
LEMMA AgentEffect ==
  ASSUME IInv, NEW a \in Agents, NEW w \in AgentWrites(a), AnyWrite(w),
         DoRoute(w) \/ DoDoc(w) \/ DoFile(w) \/ DoSecret(w)
  PROVE  /\ mem'.pool = mem.pool /\ mem'.groups = mem.groups
         /\ w.op \notin {"bind", "unbind"} => mem'.binding = mem.binding
         /\ w.op = "bind" => mem'.binding = [mem.binding EXCEPT ![a] = w.arg]
         /\ w.op = "unbind" => mem'.binding = [mem.binding EXCEPT ![a] = None]
         /\ w.op \notin RouteOps => UNCHANGED <<byToken, tokenByAgent>>
         /\ w.op = "unregister" => ~Router!Routed(a)'
         /\ w.op = "register" => RouteName(a)' = w.arg.provider
         /\ \A b \in Agents \ {a} : Router!Routed(b)' => Router!Routed(b) /\ RouteName(b)' = RouteName(b)
<1>1. DocTyped(mem) /\ RoutesGood /\ w.agent = a
  BY DEF IInv, Typed, AgentWrites
<1>2. CASE DoRoute(w)
  <2>1. w.op \in RouteOps /\ RouteEffect(w) /\ mem' = mem
    BY <1>2 DEF DoRoute
  <2>2. /\ w.op = "unregister" => tokenByAgent'[a] = NoToken
        /\ w.op = "register" => byToken'[tokenByAgent'[a]] = [agentId |-> a, target |-> w.arg]
        /\ \A b \in Agents \ {a} :
              /\ tokenByAgent'[b] = tokenByAgent[b]
              /\ tokenByAgent[b] # NoToken => byToken'[tokenByAgent[b]] = byToken[tokenByAgent[b]]
    BY <1>1, <2>1, RouteEffects
  <2>3. w.op = "unregister" => ~Router!Routed(a)'
    BY <2>2 DEF Router!Routed, Router!has
  <2>4. w.op = "register" => RouteName(a)' = w.arg.provider
    BY <2>2 DEF RouteName
  <2>5. \A b \in Agents \ {a} : Router!Routed(b)' => Router!Routed(b) /\ RouteName(b)' = RouteName(b)
    BY <2>2 DEF Router!Routed, Router!has, RouteName
  <2>6. w.op \notin {"bind", "unbind"}
    BY <2>1 DEF RouteOps
  <2> QED BY <2>1, <2>3, <2>4, <2>5, <2>6
<1>3. CASE DoDoc(w)
  <2>1. /\ w.op \in DocOps /\ mem' = Edited(w) /\ UNCHANGED <<byToken, tokenByAgent>>
    BY <1>3 DEF DoDoc
  <2>2. w.op \notin RouteOps /\ w.op \notin {"putProvider", "dropProvider", "putGroup", "dropGroup"}
    BY <2>1 DEF AgentWrites, DocOps, RouteOps
  <2>3. /\ mem'.pool = mem.pool /\ mem'.groups = mem.groups
        /\ w.op \notin {"bind", "unbind"} => mem'.binding = mem.binding
        /\ w.op = "bind" => mem'.binding = [mem.binding EXCEPT ![a] = w.arg]
        /\ w.op = "unbind" => mem'.binding = [mem.binding EXCEPT ![a] = None]
    BY <1>1, <2>1, <2>2, EditedFields
  <2>4. \A b \in Agents \ {a} : Router!Routed(b)' => Router!Routed(b) /\ RouteName(b)' = RouteName(b)
    BY <2>1 DEF Router!Routed, Router!has, RouteName
  <2> QED BY <2>1, <2>2, <2>3, <2>4 DEF RouteOps
<1>4. CASE DoFile(w) \/ DoSecret(w)
  <2>1. /\ w.op \notin DocOps /\ w.op \notin RouteOps /\ UNCHANGED <<mem, byToken, tokenByAgent>>
    BY <1>4 DEF DoFile, DoSecret, FileOps, SecretOps, DocOps, RouteOps
  <2>2. \A b \in Agents \ {a} : Router!Routed(b)' => Router!Routed(b) /\ RouteName(b)' = RouteName(b)
    BY <2>1 DEF Router!Routed, Router!has, RouteName
  <2> QED BY <2>1, <2>2 DEF DocOps, RouteOps
<1> QED
  BY <1>2, <1>3, <1>4

LEMMA RegisterForm == ASSUME NEW a, NEW w \in AgentWrites(a), w.op = "register"
                      PROVE  w = W("register", a, w.arg) /\ w.arg \in RouteTargets
BY DEF AgentWrites, W

\* The next write of an agent's script keeps its route and binding on the way.
LEMMA AgentRouteGood ==
  ASSUME IInv, NEW a \in Agents, NEW left, NEW rest, NEW last, RouteGood(left, last, a),
         Coherent(left), left \subseteq AgentWrites(a),
         NEW w \in AgentWrites(a), left = {w} \cup rest, \A u \in rest : Rank(w.op) < Rank(u.op),
         AnyWrite(w), DoRoute(w) \/ DoDoc(w) \/ DoFile(w) \/ DoSecret(w)
  PROVE  RouteGood(rest, last, a)'
<1>1. /\ w \in AgentWrites(a) /\ left = {w} \cup rest
      /\ \A u \in rest : Rank(w.op) < Rank(u.op)
  OBVIOUS
<1>2. /\ w.op \notin {"bind", "unbind"} => mem'.binding = mem.binding
      /\ w.op = "bind" => mem'.binding = [mem.binding EXCEPT ![a] = w.arg]
      /\ w.op = "unbind" => mem'.binding = [mem.binding EXCEPT ![a] = None]
      /\ w.op \notin RouteOps => UNCHANGED <<byToken, tokenByAgent>>
      /\ w.op = "unregister" => ~Router!Routed(a)'
      /\ w.op = "register" => RouteName(a)' = w.arg.provider
  BY AgentEffect
<1>3. Coherent(left) /\ left \subseteq AgentWrites(a) /\ mem.binding \in [Agents -> Binding \cup {None}]
  BY DEF IInv, Typed, DocTyped
<1>4. /\ \A b \in Binding : W("bind", a, b) \in left => last = {}
      /\ \A t \in RouteTargets : W("register", a, t) \in left => WillName(left, last, a, t.provider)
      /\ (\A u \in left : u.op \notin RouteOps) /\ Router!Routed(a) => WillName(left, last, a, RouteName(a))
  BY Zenon DEF RouteGood
<1>5. ASSUME NEW q, WillName(left, last, a, q), w.op # "unbind" \/ ~ \E u \in left : u.op = "unbind"
      PROVE  WillName(rest, last, a, q)'
  <2>1. CASE w.op = "bind"
    <3>1. w = W("bind", a, w.arg) /\ w.arg \in Binding
      BY <1>1, <2>1, BindForm
    <3>2. \A u \in rest : u.op \notin {"register", "unregister", "bind", "unbind"}
      <4>1. \A u \in rest : Rank(u.op) > Rank("bind") /\ Rank("bind") = 6 /\ Rank("unbind") = 4
                            /\ Rank("register") = 1 /\ Rank("unregister") = 1
        BY <1>1, <2>1 DEF Rank, RouteOps, ConfigOps
      <4> HIDE DEF Rank
      <4> QED BY <4>1
    <3>3. \A b \in Binding : W("bind", a, b) \in left => b = w.arg
      BY <1>1, <3>1, <3>2, WriteFields
    <3>4. w.arg.provider = q /\ last = {}
      BY <1>1, <1>4, <1>5, <3>1, <3>3 DEF WillName
    <3>5. mem'.binding[a] = w.arg /\ w.arg # None
      BY <1>2, <1>3, <2>1, <3>1, BindingsAssumption
    <3>6. BoundTo(a, q)'
      BY <3>4, <3>5 DEF BoundTo
    <3> QED BY <3>2, <3>4, <3>6, WriteFields DEF WillName
  <2>2. CASE w.op \notin {"bind", "unbind"}
    <3>1. \A b : W("bind", a, b) \in rest <=> W("bind", a, b) \in left
      BY <1>1, <2>2, WriteFields
    <3>2. W("unbind", a, None) \in rest => W("unbind", a, None) \in left
      BY <1>1
    <3>3. BoundTo(a, q)' <=> BoundTo(a, q)
      BY <1>2, <2>2 DEF BoundTo
    <3> QED BY <1>5, <3>1, <3>2, <3>3, Zenon DEF WillName
  <2>3. CASE w.op = "unbind"
    BY <1>1, <1>5, <2>3
  <2> QED BY <2>1, <2>2, <2>3
<1>6. \A b \in Binding : W("bind", a, b) \in rest => last = {}
  BY <1>1, <1>4
<1>7. ASSUME NEW t \in RouteTargets, W("register", a, t) \in rest
      PROVE  WillName(rest, last, a, t.provider)'
  <2>1. Rank(w.op) < 1
    BY <1>1, <1>7, WriteFields DEF Rank, RouteOps
  <2>2. w.op # "unbind"
    BY <2>1 DEF Rank, RouteOps, ConfigOps
  <2>3. WillName(left, last, a, t.provider)
    BY <1>1, <1>4, <1>7
  <2> QED BY <1>5, <2>2, <2>3
<1>8. ASSUME \A u \in rest : u.op \notin RouteOps, Router!Routed(a)'
      PROVE  WillName(rest, last, a, RouteName(a))'
  <2>1. CASE w.op = "register"
    <3>1. w = W("register", a, w.arg) /\ w.arg \in RouteTargets
      BY <1>1, <2>1, RegisterForm
    <3>2. WillName(left, last, a, w.arg.provider)
      BY <1>1, <1>4, <3>1
    <3> QED BY <1>2, <1>5, <2>1, <3>2
  <2>2. CASE w.op = "unregister"
    BY <1>2, <1>8, <2>2
  <2>3. CASE w.op \notin RouteOps
    <3>1. (\A u \in left : u.op \notin RouteOps) /\ Router!Routed(a) /\ RouteName(a)' = RouteName(a)
      BY <1>1, <1>2, <1>8, <2>3 DEF Router!Routed, Router!has, RouteName
    <3>2. WillName(left, last, a, RouteName(a))
      BY <1>4, <3>1
    <3>3. ~ \E u \in left : u.op = "unbind"
      <4> SUFFICES ASSUME NEW u \in left, u.op = "unbind" PROVE FALSE
        OBVIOUS
      <4>1. u = W("unbind", a, None) /\ \A v \in left : v.op # "bind"
        BY <1>3, UnbindForm DEF Coherent
      <4>2. \A b : W("bind", a, b) \notin left
        BY <4>1, WriteFields
      <4> QED BY <3>2, <4>1, <4>2 DEF WillName
    <3> QED BY <1>5, <3>1, <3>2, <3>3
  <2> QED BY <2>1, <2>2, <2>3 DEF RouteOps
<1> QED
  BY <1>6, <1>7, <1>8, Zenon DEF RouteGood

\* With the routes and the agents' bindings as they were, and no more to do.
LEMMA StillLead ==
  ASSUME RoutesLead, Elements(todo'.last) \subseteq Elements(todo.last),
         NEW a \in Agents, Left(a)' = Left(a), mem'.binding[a] = mem.binding[a],
         Router!Routed(a)' => Router!Routed(a) /\ RouteName(a)' = RouteName(a)
  PROVE  RouteGood(Left(a), Elements(todo.last), a)'
<1> DEFINE left == Left(a)
           last == Elements(todo.last)
<1>1. RouteGood(left, last, a)
  BY DEF RoutesLead
<1>2. \A q : BoundTo(a, q)' <=> BoundTo(a, q)
  BY DEF BoundTo
<1> QED
  BY <1>1, <1>2 DEF RouteGood, WillName

LEMMA ReplayLeads == TodoReplayed /\ RoutesNamed => RoutesLead
BY StartsRoutes DEF TodoReplayed, Replayed, RoutesLead, Left

LEMMA NextRoutesLead ==
  ASSUME MaxFaults = 0, IInv, ProvidersHeld, Agreed, RoutesLead, [Next]_vars
  PROVE  RoutesLead'
<1>0. faults' = 0
  BY NextIInv DEF IInv, Typed
<1>1. FaultlessStep
  BY <1>0, FaultlessSteps
<1>2. ASSUME NEW w, DoneWrite(w) PROVE RoutesLead'
  <2>1. AnyWrite(w) /\ Stepped(w) /\ (DoRoute(w) \/ DoDoc(w) \/ DoFile(w) \/ DoSecret(w))
    BY <1>2 DEF DoneWrite
  <2>2. ASSUME NEW a \in Agents, AgentDone(a, w), NEW b \in Agents
        PROVE  RouteGood(Left(b), Elements(todo.last), b)'
    <3>1. /\ w \in AgentWrites(a) /\ Left(a) = {w} \cup Left(a)'
          /\ \A u \in Left(a)' : Rank(w.op) < Rank(u.op)
          /\ \A c \in Agents \ {a} : Left(c)' = Left(c)
          /\ todo'.last = todo.last
      BY <2>2, Zenon DEF AgentDone
    <3>2. CASE b = a
      <4>1. Script(todo.each[a], a)
        BY DEF IInv, Typed, TodoTyped
      <4>2. Coherent(Left(a)) /\ Left(a) \subseteq AgentWrites(a)
        BY <4>1 DEF Script, Left, Elements
      <4> HIDE DEF Rank
      <4> DEFINE left == Left(a)
                 last == Elements(todo.last)
      <4>3. RouteGood(left, last, a)
        BY DEF RoutesLead
      <4>4. Elements(todo'.last) = last
        BY <3>1
      <4>5. ASSUME NEW rest, rest = Left(a)' PROVE RouteGood(rest, last, a)'
        <5> HIDE DEF left, last
        <5>1. left = {w} \cup rest /\ \A u \in rest : Rank(w.op) < Rank(u.op)
          BY <3>1, <4>5 DEF left
        <5>2. Coherent(left) /\ left \subseteq AgentWrites(a)
          BY <4>2 DEF left
        <5> QED BY <2>1, <3>1, <4>3, <4>4, <5>1, <5>2, AgentRouteGood DEF last
      <4> QED BY <3>2, <4>4, <4>5, Zenon DEF RouteGood, WillName
    <3>3. CASE b # a
      <4>1. mem'.binding[b] = mem.binding[b]
            /\ (Router!Routed(b)' => Router!Routed(b) /\ RouteName(b)' = RouteName(b))
        <5>1. /\ w.op \notin {"bind", "unbind"} => mem'.binding = mem.binding
              /\ w.op = "bind" => mem'.binding = [mem.binding EXCEPT ![a] = w.arg]
              /\ w.op = "unbind" => mem'.binding = [mem.binding EXCEPT ![a] = None]
              /\ Router!Routed(b)' => Router!Routed(b) /\ RouteName(b)' = RouteName(b)
          BY <2>1, <3>1, <3>3, AgentEffect
        <5>2. mem.binding \in [Agents -> Binding \cup {None}]
          BY DEF IInv, Typed, DocTyped
        <5> QED BY <3>3, <5>1, <5>2
      <4>2. Left(b)' = Left(b) /\ Elements(todo'.last) \subseteq Elements(todo.last)
        BY <3>1, <3>3
      <4> QED BY <4>1, <4>2, StillLead
    <3> QED BY <3>2, <3>3
  <2>3. ASSUME w \in FirstWrites \cup LastWrites, w.op # "dropProvider"
        PROVE  UNCHANGED <<byToken, tokenByAgent>> /\ mem'.binding = mem.binding
    <3>1. w.op \notin RouteOps /\ w.op \notin FileOps /\ w.op \notin {"bind", "unbind", "dropProvider"}
      BY <2>3 DEF FirstWrites, LastWrites, RouteOps, FileOps, SecretOps
    <3>2. CASE DoDoc(w)
      <4>1. mem' = Edited(w) /\ w.op \in DocOps /\ UNCHANGED <<byToken, tokenByAgent>>
        BY <3>2 DEF DoDoc
      <4> QED BY <2>1, <3>1, <4>1, EditedFields DEF IInv, Typed
    <3>3. CASE DoSecret(w)
      BY <3>3 DEF DoSecret
    <3> QED BY <2>1, <3>1, <3>2, <3>3 DEF DoRoute, DoFile
  <2>4. ASSUME w \in FirstWrites \cup LastWrites, w.op # "dropProvider",
               \A a \in Agents : Left(a)' = Left(a), Elements(todo'.last) \subseteq Elements(todo.last)
        PROVE  RoutesLead'
    <3>1. UNCHANGED <<byToken, tokenByAgent>> /\ mem'.binding = mem.binding
      BY <2>3, <2>4
    <3>2. \A a \in Agents : Router!Routed(a)' => Router!Routed(a) /\ RouteName(a)' = RouteName(a)
      BY <3>1 DEF Router!Routed, Router!has, RouteName
    <3> QED BY <2>4, <3>1, <3>2, StillLead DEF RoutesLead
  <2>5. CASE FirstDone(w)
    <3>1. w \in FirstWrites /\ (\A a \in Agents : Left(a)' = Left(a)) /\ todo'.last = todo.last
      BY <2>5 DEF FirstDone
    <3>2. w.op # "dropProvider"
      BY <3>1 DEF FirstWrites, SecretOps
    <3> QED BY <2>4, <3>1, <3>2
  <2>6. CASE LastDone(w)
    <3>1. /\ w \in LastWrites /\ \A a \in Agents : Left(a) = {} /\ Left(a)' = {}
          /\ w \in Elements(todo.last) /\ Elements(todo'.last) \subseteq Elements(todo.last)
      BY <2>6 DEF LastDone
    <3>2. CASE w.op # "dropProvider"
      BY <2>4, <3>1, <3>2
    <3>3. CASE w.op = "dropProvider"
      <4>1. w = W("dropProvider", None, w.arg)
        BY <3>1, <3>3 DEF LastWrites, W
      <4>2. mem' = Edited(w) /\ UNCHANGED <<byToken, tokenByAgent>>
        BY <2>1, <3>3 DEF DoRoute, DoDoc, DoFile, DoSecret, RouteOps, FileOps, SecretOps
      <4>3. mem'.binding = Without(w.arg)
        BY <2>1, <3>3, <4>2, EditedFields DEF IInv, Typed, DocOps
      <4>4. ASSUME NEW a \in Agents PROVE RouteGood(Left(a), Elements(todo.last), a)'
        <5>1. \A q : q # w.arg /\ BoundTo(a, q) => BoundTo(a, q)'
          BY <4>3 DEF BoundTo, Without
        <5>2. \A q : WillName({}, Elements(todo.last), a, q) => BoundTo(a, q) /\ q # w.arg
          BY <3>1, <4>1 DEF WillName
        <5>3. Router!Routed(a) => WillName({}, Elements(todo.last), a, RouteName(a))
          BY <3>1 DEF RoutesLead, RouteGood
        <5>4. Router!Routed(a)' <=> Router!Routed(a)
          BY <4>2 DEF Router!Routed, Router!has
        <5>5. RouteName(a)' = RouteName(a)
          BY <4>2 DEF RouteName
        <5>6. Router!Routed(a) => WillName({}, Elements(todo.last), a, RouteName(a)) /\ BoundTo(a, RouteName(a))'
          BY <5>1, <5>2, <5>3, <5>5
        <5> QED BY <3>1, <5>4, <5>5, <5>6 DEF RouteGood, WillName
      <4> QED BY <4>4 DEF RoutesLead
    <3> QED BY <3>2, <3>3
  <2> QED BY <2>1, <2>2, <2>5, <2>6, Zenon DEF Stepped, RoutesLead
<1>3. ASSUME NEW t, Idle, Starts(t), todo' = t, mem' = mem, UNCHANGED <<byToken, tokenByAgent>>
      PROVE  RoutesLead'
  <2>1. RoutesNamed
    BY <1>3, IdleRoutes
  <2>2. ASSUME NEW a \in Agents PROVE RouteGood(Left(a), Elements(todo.last), a)'
    <3>1. RouteGood(Elements(t.each[a]), Elements(t.last), a)
      BY <1>3, <2>1, StartsRoutes
    <3>2. Left(a)' = Elements(t.each[a]) /\ Elements(todo'.last) = Elements(t.last)
      BY <1>3 DEF Left
    <3>3. (Router!Routed(a)' <=> Router!Routed(a)) /\ RouteName(a)' = RouteName(a)
      BY <1>3 DEF Router!Routed, Router!has, RouteName
    <3>4. \A q : BoundTo(a, q)' <=> BoundTo(a, q)
      BY <1>3 DEF BoundTo
    <3> QED BY <3>1, <3>2, <3>3, <3>4 DEF RouteGood, WillName
  <2> QED BY <2>2 DEF RoutesLead
<1>4. CASE HandlerStarted
  <2>1. PICK writes :
          Starts(writes) /\ Idle /\ todo' = writes /\ UNCHANGED <<mem, byToken, tokenByAgent>>
    BY <1>4, Zenon DEF HandlerStarted, StartsHandler, Start
  <2> QED BY <1>3, <2>1
<1>5. CASE Replays
  <2>1. Idle /\ TodoReplayed' /\ UNCHANGED <<mem, byToken, tokenByAgent>>
    BY <1>5 DEF Replays
  <2>2. RoutesNamed
    BY <2>1, IdleRoutes
  <2>3. RoutesNamed'
    BY <2>1, <2>2 DEF RoutesNamed, Router!Routed, Router!has, RouteName, BoundTo
  <2> QED BY <2>1, <2>3, ReplayLeads, PTL
<1>6. CASE UNCHANGED <<mem, todo, byToken, tokenByAgent>>
  <2>1. \A a \in Agents : /\ Left(a)' = Left(a) /\ (Router!Routed(a)' <=> Router!Routed(a))
                          /\ RouteName(a)' = RouteName(a)
    BY <1>6 DEF Left, Router!Routed, Router!has, RouteName
  <2> QED BY <1>6, <2>1, StillLead DEF RoutesLead
<1>7. ASSUME NEW a \in Agents, ForeignEdit(a) PROVE UNCHANGED <<mem, todo, byToken, tokenByAgent>>
  BY <1>7, Zenon DEF ForeignEdit
<1>8. UNCHANGED vars => UNCHANGED <<mem, todo, byToken, tokenByAgent>>
  BY Zenon DEF vars
<1> QED
  BY <1>1, <1>2, <1>4, <1>5, <1>6, <1>7, <1>8, Zenon DEF FaultlessStep

\* Where no write fails, a live route belongs to a binding whenever no handler
\* runs: its agent is bound to the provider or group that the route names.
THEOREM RoutesAreBound ==
  ASSUME MaxFaults = 0
  PROVE  Spec => []RoutesFollowBindings
<1>1. Init => RoutesLead
  <2> SUFFICES ASSUME Init PROVE RoutesLead
    OBVIOUS
  <2>1. Elements(todo.last) = {} /\ \A a \in Agents : Left(a) = {} /\ ~Router!Routed(a)
    BY DoneTyped, NothingElements DEF Init, Left, Router!Routed, Router!has
  <2> QED BY <2>1 DEF RoutesLead, RouteGood
<1>2. IInv /\ ProvidersHeld /\ Agreed /\ RoutesLead /\ [Next]_vars => RoutesLead'
  BY NextRoutesLead
<1>3. IInv /\ RoutesLead => RoutesFollowBindings
  BY IdleRoutes DEF RoutesFollowBindings, RoutesNamed, BoundTo, RouteName
<1> QED
  BY <1>1, <1>2, <1>3, AlwaysGroupsHeld, PTL DEF Spec

(***************************************************************************)
(* The applied records, where no write fails and no other tool writes.     *)
(***************************************************************************)
Matches(a) ==
  LET r == mem.applied[a]
  IN /\ file[a] \notin {None, Foreign}
     /\ file[a].base = r.base /\ file[a].model = r.model
     /\ (file[a].key # None) = r.keySet

\* An agent's config is what its record says, unless the record is about to
\* change; a config that was written is recorded, and a record is forgotten
\* once its config was taken back.
RecordGood(left, a) ==
  /\ mem.applied[a] = None \/ Matches(a) \/ \E w \in left : w.op \in {"record", "forget"}
  /\ (\E w \in left : w.op = "record") /\ (\A w \in left : w.op \notin ConfigOps) => file[a] \in Configs
  /\ (\E w \in left : w.op = "restore") /\ mem.applied[a] # None => \E w \in left : w.op = "forget"

RecordsLead == \A a \in Agents : RecordGood(Left(a), a)

LEMMA IdleRecords == ASSUME RecordsLead, Idle PROVE NoFalseDrift
<1>1. \A a \in Agents : Left(a) = {}
  BY DoneTyped, NothingElements DEF Idle, Left
<1>2. \A a \in Agents : mem.applied[a] = None \/ Matches(a)
  BY <1>1 DEF RecordsLead, RecordGood
<1> QED
  BY <1>2 DEF NoFalseDrift, Drift, Matches

\* The scripts that jobs start with touch the config and the record together.
LEMMA StartsTogether ==
  ASSUME NEW t, Starts(t), NEW a \in Agents
  PROVE  LET left == Elements(t.each[a])
         IN /\ (\E w \in left : w.op = "record") => \E w \in left : w.op \in ConfigOps
            /\ (\E w \in left : w.op = "restore") /\ mem.applied[a] # None => \E w \in left : w.op = "forget"
<1> DEFINE left == Elements(t.each[a])
           Good(writes) ==
             /\ (\E w \in writes : w.op = "record") => \E w \in writes : w.op \in ConfigOps
             /\ (\E w \in writes : w.op = "restore") /\ mem.applied[a] # None => \E w \in writes : w.op = "forget"
<1>1. AgentStarts(left, Elements(t.last), a)
  BY DEF Starts
<1>2. ASSUME NEW b, NEW writes, Applies(writes, a, b)
      PROVE  /\ \E w \in writes : w.op \in ConfigOps
             /\ \A w \in writes : w.op # "restore"
  <2>1. ASSUME NEW c, writes = DirectWrites(a, b, c)
        PROVE  W("write", a, c) \in writes /\ \A w \in writes : w.op \in {"unregister", "write", "record"}
    BY <2>1, WriteFields DEF DirectWrites
  <2>2. ASSUME NEW u, writes = ProxiedWrites(a, b, u)
        PROVE  W("point", a, u.model) \in writes /\ \A w \in writes : w.op \in {"register", "point", "record"}
    BY <2>2, WriteFields DEF ProxiedWrites
  <2> QED BY <1>2, <2>1, <2>2, WriteFields DEF Applies, ConfigOps
<1> HIDE DEF left
<1>3. ASSUME Applies(left, a, mem.binding[a]) PROVE Good(left)
  BY <1>2, <1>3, Zenon
<1>4. ASSUME NEW b \in Binding, NEW applied \in SUBSET AgentWrites(a),
             Applies(applied, a, b), left = applied \cup {W("bind", a, b)}
      PROVE  Good(left)
  <2>1. (\E w \in applied : w.op \in ConfigOps) /\ (\A w \in applied : w.op # "restore")
    BY <1>2, <1>4
  <2> QED BY <1>4, <2>1, WriteFields
<1>5. Good({}) /\ Good({W("unregister", a, None)}) /\ Good(UnbindWrites(a))
      /\ Good({W("restore", a, None)} \cup UnbindWrites(a))
  BY WriteFields DEF UnbindWrites
<1>6. Good(left)
  <2>1. CASE left = {}
    BY <1>5, <2>1, Zenon
  <2>2. CASE left = UnbindWrites(a)
    BY <1>5, <2>2, Zenon
  <2>3. CASE left = {W("restore", a, None)} \cup UnbindWrites(a)
    BY <1>5, <2>3, Zenon
  <2>4. CASE left = {W("unregister", a, None)}
    BY <1>5, <2>4, Zenon
  <2> HIDE DEF Good
  <2>5. CASE mem.binding[a] # None /\ Applies(left, a, mem.binding[a])
    BY <1>3, <2>5, Zenon
  <2> QED BY <1>1, <1>4, <2>1, <2>2, <2>3, <2>4, <2>5, Zenon DEF AgentStarts
<1> QED
  BY <1>6 DEF left

LEMMA StartsRecords ==
  ASSUME NEW t, Starts(t), \A a \in Agents : mem.applied[a] = None \/ Matches(a), NEW a \in Agents
  PROVE  RecordGood(Elements(t.each[a]), a)
BY StartsTogether DEF RecordGood

RecordsMatch == \A a \in Agents : mem.applied[a] = None \/ Matches(a)

LEMMA ReplayRecords == TodoReplayed /\ RecordsMatch => RecordsLead
BY StartsRecords DEF TodoReplayed, Replayed, RecordsMatch, RecordsLead, Left

\* What a write of an agent's script does to the configs and records.
LEMMA RecordEffect ==
  ASSUME IInv, NEW a \in Agents, NEW w \in AgentWrites(a), AnyWrite(w),
         DoRoute(w) \/ DoDoc(w) \/ DoFile(w) \/ DoSecret(w)
  PROVE  /\ \A b \in Agents \ {a} : mem'.applied[b] = mem.applied[b] /\ file'[b] = file[b]
         /\ w.op \notin {"record", "forget"} => mem'.applied[a] = mem.applied[a]
         /\ w.op = "record" => mem'.applied[a] =
              [base |-> file[a].base, model |-> file[a].model, keySet |-> file[a].key # None, provider |-> w.arg]
         /\ w.op = "forget" => mem'.applied[a] = None
         /\ w.op \notin ConfigOps \cup {"restore"} => file'[a] = file[a]
         /\ w.op \in ConfigOps => file'[a] \in Configs
<1>1. DocTyped(mem) /\ w.agent = a /\ file \in [Agents -> Configs \cup {None, Foreign}]
      /\ mem.applied = [b \in Agents |-> mem.applied[b]]
  BY DEF IInv, Typed, AgentWrites, DocTyped
<1>2. CASE DoDoc(w)
  <2>1. /\ w.op \in DocOps /\ mem' = Edited(w) /\ file' = file
    BY <1>2 DEF DoDoc
  <2>2. w.op \notin ConfigOps
    BY <2>1 DEF DocOps, ConfigOps
  <2>3. mem'.applied =
          IF w.op = "record"
          THEN [mem.applied EXCEPT ![w.agent] =
                  [base |-> file[w.agent].base, model |-> file[w.agent].model,
                   keySet |-> file[w.agent].key # None, provider |-> w.arg]]
          ELSE IF w.op = "forget" THEN [mem.applied EXCEPT ![w.agent] = None]
          ELSE mem.applied
    BY <1>1, <2>1, EditedFields
  <2> QED BY <1>1, <2>1, <2>2, <2>3
<1>3. CASE DoFile(w)
  <2>1. w.op \in FileOps /\ mem' = mem
    BY <1>3 DEF DoFile
  <2> DEFINE x == CASE w.op = "write" -> w.arg
                    [] w.op = "point" -> LoopbackConfig(w.agent, w.arg)
                    [] w.op = "restore" -> None
  <2>2. file' = [file EXCEPT ![w.agent] = x]
    BY <1>3 DEF DoFile
  <2>3. w.op \in ConfigOps => x \in Configs
    <3>1. CASE w.op = "write"
      <4>1. w.arg \in Configs
        BY <3>1 DEF AgentWrites
      <4> QED BY <3>1, <4>1
    <3>2. CASE w.op = "point"
      <4>1. w.arg \in BoundModels
        BY <3>2 DEF AgentWrites
      <4> QED BY <1>1, <3>2, <4>1, LoopbackTyped
    <3> QED BY <3>1, <3>2 DEF ConfigOps
  <2> HIDE DEF x
  <2>4. w.op \notin {"record", "forget"}
    BY <2>1 DEF FileOps
  <2>5. w.op \in ConfigOps \cup {"restore"}
    BY <2>1 DEF FileOps, ConfigOps
  <2> QED BY <1>1, <2>1, <2>2, <2>3, <2>4, <2>5
<1>4. CASE DoRoute(w) \/ DoSecret(w)
  <2>1. mem' = mem /\ file' = file
    BY <1>4 DEF DoRoute, DoSecret
  <2>2. w.op \notin {"record", "forget"} \cup ConfigOps
    BY <1>4 DEF DoRoute, DoSecret, RouteOps, SecretOps, ConfigOps
  <2> QED BY <2>1, <2>2
<1> QED
  BY <1>2, <1>3, <1>4

LEMMA AgentRecordGood ==
  ASSUME IInv, NEW a \in Agents, NEW left, NEW rest, RecordGood(left, a),
         Coherent(left), left \subseteq AgentWrites(a),
         NEW w \in AgentWrites(a), left = {w} \cup rest, \A u \in rest : Rank(w.op) < Rank(u.op),
         AnyWrite(w), DoRoute(w) \/ DoDoc(w) \/ DoFile(w) \/ DoSecret(w)
  PROVE  RecordGood(rest, a)'
<1>1. /\ w.op \notin {"record", "forget"} => mem'.applied[a] = mem.applied[a]
      /\ w.op = "record" => mem'.applied[a] =
           [base |-> file[a].base, model |-> file[a].model, keySet |-> file[a].key # None, provider |-> w.arg]
      /\ w.op = "forget" => mem'.applied[a] = None
      /\ w.op \notin ConfigOps \cup {"restore"} => file'[a] = file[a]
      /\ w.op \in ConfigOps => file'[a] \in Configs
  BY RecordEffect
<1>2. /\ mem.applied[a] = None \/ Matches(a) \/ \E v \in left : v.op \in {"record", "forget"}
      /\ (\E v \in left : v.op = "record") /\ (\A v \in left : v.op \notin ConfigOps) => file[a] \in Configs
      /\ (\E v \in left : v.op = "restore") /\ mem.applied[a] # None => \E v \in left : v.op = "forget"
  BY Zenon DEF RecordGood
<1>3. \A u \in rest : /\ w.op \in ConfigOps => u.op \notin ConfigOps \cup {"restore", "register", "unregister"}
                      /\ w.op = "record" => u.op \notin ConfigOps \cup {"record", "restore"}
                      /\ w.op = "forget" => u.op \notin ConfigOps \cup {"record", "restore", "forget"}
                      /\ u.op # "restore"
  <2> SUFFICES ASSUME NEW u \in rest
               PROVE  /\ w.op \in ConfigOps => u.op \notin ConfigOps \cup {"restore", "register", "unregister"}
                      /\ w.op = "record" => u.op \notin ConfigOps \cup {"record", "restore"}
                      /\ w.op = "forget" => u.op \notin ConfigOps \cup {"record", "restore", "forget"}
                      /\ u.op # "restore"
    OBVIOUS
  <2>1. Rank(w.op) < Rank(u.op)
    OBVIOUS
  <2>2. /\ \A op \in ConfigOps : Rank(op) = 2
        /\ Rank("restore") = 0 /\ Rank("register") = 1 /\ Rank("unregister") = 1
        /\ Rank("record") = 3 /\ Rank("forget") = 5 /\ Rank(w.op) \in Nat
    BY DEF Rank, ConfigOps, RouteOps
  <2> HIDE DEF Rank
  <2> QED BY <2>1, <2>2
<1> SUFFICES
      /\ mem'.applied[a] = None \/ Matches(a)' \/ \E v \in rest : v.op \in {"record", "forget"}
      /\ (\E v \in rest : v.op = "record") /\ (\A v \in rest : v.op \notin ConfigOps) => file'[a] \in Configs
      /\ (\E v \in rest : v.op = "restore") /\ mem'.applied[a] # None => \E v \in rest : v.op = "forget"
  BY Zenon DEF RecordGood
<1>4. CASE w.op \in ConfigOps
  <2>1. PICK r \in left : r.op = "record"
    BY <1>4 DEF Coherent
  <2>2. r \in rest
    BY <1>4, <2>1 DEF ConfigOps
  <2> QED BY <1>1, <1>3, <1>4, <2>1, <2>2
<1>5. CASE w.op = "record"
  <2>1. file[a] \in Configs /\ file'[a] = file[a]
    BY <1>1, <1>2, <1>3, <1>5 DEF ConfigOps
  <2>2. file[a] # None /\ file[a] # Foreign
    BY <2>1, BindingsAssumption
  <2>3. Matches(a)'
    BY <1>1, <1>5, <2>1, <2>2 DEF Matches
  <2> QED BY <1>3, <1>5, <2>3
<1>6. CASE w.op = "forget"
  BY <1>1, <1>3, <1>6
<1>7. CASE w.op = "restore"
  <2>1. \A v \in left : v.op \in {"restore", "unregister", "unbind", "forget"}
    BY <1>7 DEF Coherent
  <2>2. mem'.applied[a] # None => \E v \in rest : v.op = "forget"
    BY <1>1, <1>2, <1>7
  <2> QED BY <1>3, <2>1, <2>2
<1>8. CASE w.op \notin ConfigOps \cup {"record", "forget", "restore"}
  <2>1. mem'.applied[a] = mem.applied[a] /\ file'[a] = file[a]
    BY <1>1, <1>8
  <2>2. Matches(a) => Matches(a)'
    BY <2>1 DEF Matches
  <2> QED BY <1>2, <1>3, <1>8, <2>1, <2>2
<1> QED
  BY <1>4, <1>5, <1>6, <1>7, <1>8

LEMMA NextRecordsLead ==
  ASSUME MaxFaults = 0, MaxEdits = 0, IInv, ProvidersHeld, Agreed, RecordsLead, [Next]_vars
  PROVE  RecordsLead'
<1>0. faults' = 0
  BY NextIInv DEF IInv, Typed
<1>1. FaultlessStep
  BY <1>0, FaultlessSteps
<1>2. ASSUME NEW a \in Agents, Left(a)' = Left(a), mem'.applied[a] = mem.applied[a], file'[a] = file[a]
      PROVE  RecordGood(Left(a), a)'
  <2> DEFINE left == Left(a)
  <2>1. RecordGood(left, a)
    BY DEF RecordsLead
  <2>2. Matches(a)' <=> Matches(a)
    BY <1>2 DEF Matches
  <2>3. /\ mem.applied[a] = None \/ Matches(a) \/ \E v \in left : v.op \in {"record", "forget"}
        /\ (\E v \in left : v.op = "record") /\ (\A v \in left : v.op \notin ConfigOps) => file[a] \in Configs
        /\ (\E v \in left : v.op = "restore") /\ mem.applied[a] # None => \E v \in left : v.op = "forget"
    BY <2>1, Zenon DEF RecordGood
  <2>4. left' = left
    BY <1>2
  <2> HIDE DEF left
  <2>5. RecordGood(left, a)'
    BY <1>2, <2>2, <2>3, <2>4 DEF RecordGood
  <2> QED BY <2>5 DEF left
<1>3. ASSUME NEW w, DoneWrite(w) PROVE RecordsLead'
  <2>1. AnyWrite(w) /\ Stepped(w) /\ (DoRoute(w) \/ DoDoc(w) \/ DoFile(w) \/ DoSecret(w))
    BY <1>3 DEF DoneWrite
  <2>2. ASSUME NEW a \in Agents, AgentDone(a, w), NEW b \in Agents
        PROVE  RecordGood(Left(b), b)'
    <3>1. /\ w \in AgentWrites(a) /\ Left(a) = {w} \cup Left(a)'
          /\ \A u \in Left(a)' : Rank(w.op) < Rank(u.op)
          /\ \A c \in Agents \ {a} : Left(c)' = Left(c)
      BY <2>2, Zenon DEF AgentDone
    <3>2. CASE b = a
      <4>1. Script(todo.each[a], a)
        BY DEF IInv, Typed, TodoTyped
      <4>2. Coherent(Left(a)) /\ Left(a) \subseteq AgentWrites(a)
        BY <4>1 DEF Script, Left, Elements
      <4> HIDE DEF Rank
      <4> DEFINE left == Left(a)
      <4>3. RecordGood(left, a)
        BY DEF RecordsLead
      <4>4. ASSUME NEW rest, rest = Left(a)' PROVE RecordGood(rest, a)'
        <5> HIDE DEF left
        <5>1. left = {w} \cup rest /\ \A u \in rest : Rank(w.op) < Rank(u.op)
          BY <3>1, <4>4 DEF left
        <5>2. Coherent(left) /\ left \subseteq AgentWrites(a)
          BY <4>2 DEF left
        <5> QED BY <2>1, <3>1, <4>3, <5>1, <5>2, AgentRecordGood
      <4> QED BY <3>2, <4>4, Zenon DEF RecordGood
    <3>3. CASE b # a
      <4>1. mem'.applied[b] = mem.applied[b] /\ file'[b] = file[b]
        BY <2>1, <3>1, <3>3, RecordEffect
      <4> QED BY <1>2, <3>1, <3>3, <4>1
    <3> QED BY <3>2, <3>3
  <2>3. ASSUME w \in FirstWrites \cup LastWrites
        PROVE  mem'.applied = mem.applied /\ file' = file
    <3>1. w.op \notin FileOps /\ w.op \notin {"record", "forget"}
      BY <2>3 DEF FirstWrites, LastWrites, FileOps, SecretOps
    <3>2. CASE DoDoc(w)
      <4>1. mem' = Edited(w) /\ w.op \in DocOps /\ file' = file
        BY <3>2 DEF DoDoc
      <4> QED BY <2>1, <3>1, <4>1, EditedFields DEF IInv, Typed
    <3>3. CASE DoSecret(w) \/ DoRoute(w)
      BY <3>3 DEF DoSecret, DoRoute
    <3> QED BY <2>1, <3>1, <3>2, <3>3 DEF DoFile
  <2>4. CASE FirstDone(w)
    BY <1>2, <2>3, <2>4 DEF FirstDone, RecordsLead
  <2>5. CASE LastDone(w)
    <3>1. w \in LastWrites /\ \A a \in Agents : Left(a)' = Left(a)
      BY <2>5 DEF LastDone
    <3> QED BY <1>2, <2>3, <3>1 DEF RecordsLead
  <2> QED BY <2>1, <2>2, <2>4, <2>5, Zenon DEF Stepped, RecordsLead
<1>4. Idle => RecordsMatch
  <2> SUFFICES ASSUME Idle PROVE RecordsMatch
    OBVIOUS
  <2>1. \A a \in Agents : Left(a) = {}
    BY DoneTyped, NothingElements DEF Idle, Left
  <2> QED BY <2>1 DEF RecordsLead, RecordGood, RecordsMatch
<1>5. UNCHANGED <<mem, file>> /\ RecordsMatch => RecordsMatch'
  BY DEF RecordsMatch, Matches
<1>6. CASE HandlerStarted
  <2>1. PICK writes :
          Starts(writes) /\ Idle /\ todo' = writes /\ UNCHANGED <<mem, file>>
    BY <1>6, Zenon DEF HandlerStarted, StartsHandler, Start
  <2>2. ASSUME NEW a \in Agents PROVE RecordGood(Left(a), a)'
    <3>1. RecordGood(Elements(writes.each[a]), a)
      BY <1>4, <2>1, StartsRecords DEF RecordsMatch
    <3>2. Left(a)' = Elements(writes.each[a])
      BY <2>1 DEF Left
    <3>3. Matches(a)' <=> Matches(a)
      BY <2>1 DEF Matches
    <3> QED BY <2>1, <3>1, <3>2, <3>3 DEF RecordGood
  <2> QED BY <2>2 DEF RecordsLead
<1>7. CASE Replays
  <2>1. Idle /\ TodoReplayed' /\ UNCHANGED <<mem, file>>
    BY <1>7 DEF Replays
  <2>2. RecordsMatch'
    BY <1>4, <1>5, <2>1
  <2> QED BY <2>1, <2>2, ReplayRecords, PTL
<1>8. ~ \E a \in Agents : ForeignEdit(a)
  BY DEF ForeignEdit, IInv, Typed
<1>9. CASE UNCHANGED vars
  <2>1. UNCHANGED <<mem, file, todo>>
    BY <1>9, Zenon DEF vars
  <2> QED BY <1>2, <2>1 DEF Left, RecordsLead
<1> QED
  BY <1>1, <1>3, <1>6, <1>7, <1>8, <1>9, Zenon DEF FaultlessStep

\* Where no write fails and no other tool rewrites an agent's config, a bound
\* agent's config says what its last apply recorded whenever no handler runs:
\* bindingDriftDetected warns of no change that AiOpt made itself.
THEOREM DriftIsForeign ==
  ASSUME MaxFaults = 0, MaxEdits = 0
  PROVE  Spec => []NoFalseDrift
<1>1. Init => RecordsLead
  <2> SUFFICES ASSUME Init PROVE RecordsLead
    OBVIOUS
  <2>1. \A a \in Agents : Left(a) = {} /\ mem.applied[a] = None
    BY DoneTyped, NothingElements DEF Init, Left
  <2> QED BY <2>1 DEF RecordsLead, RecordGood
<1>2. IInv /\ ProvidersHeld /\ Agreed /\ RecordsLead /\ [Next]_vars => RecordsLead'
  BY NextRecordsLead
<1>3. RecordsLead => NoFalseDrift
  BY IdleRecords DEF NoFalseDrift
<1> QED
  BY <1>1, <1>2, <1>3, AlwaysGroupsHeld, PTL DEF Spec

(***************************************************************************)
(* A replay of the bindings, write by write, whatever failed before.       *)
(***************************************************************************)
PlanOf(a) == Plan(mem.groups, a, mem.binding[a])

\* The agent's binding means a config with the provider's address, or a route.
Direct(a, c) == mem.binding[a] # None /\ PlanOf(a) = [kind |-> "direct", config |-> c]
Routes(a, t) == mem.binding[a] # None /\ PlanOf(a) = [kind |-> "proxied", target |-> t]

Serving(a, t) == Router!Routed(a) /\ byToken[tokenByAgent[a]].target = t

\* The agent's script is what is left of the replay of its binding, and what
\* was done of it has taken effect.
DirectDone(left, a, c) ==
  /\ left \subseteq DirectWrites(a, mem.binding[a], c)
  /\ W("unregister", a, None) \in left \/ ~Router!Routed(a)
  /\ W("write", a, c) \in left \/ file[a] = c

RouteDone(left, a, t) ==
  /\ left \subseteq ProxiedWrites(a, mem.binding[a], t)
  /\ W("register", a, t) \in left \/ Serving(a, t)
  /\ W("point", a, t.model) \in left \/ file[a] = LoopbackConfig(a, t.model)
  /\ W("register", a, t) \in left => W("point", a, t.model) \in left

Mended(left, a) ==
  /\ mem.binding[a] = None \/ PlanOf(a) = Refused => left = {}
  /\ \A c \in Configs : Direct(a, c) => DirectDone(left, a, c)
  /\ \A t \in RouteTargets : Routes(a, t) => RouteDone(left, a, t)

NoneAround == todo.first = << >> /\ Elements(todo.last) = {}

Mending ==
  job.kind \in {"boot", "rebuild"} /\ job.clean =>
    NoneAround /\ \A a \in Agents : Mended(Left(a), a)

\* A plan looks at the stores, the port, the preference and the keys only.
LEMMA SamePlan ==
  ASSUME NEW a, mem'.pool = mem.pool, mem'.groups = mem.groups, mem'.binding[a] = mem.binding[a],
         UNCHANGED <<port, proxyMode, secret>>
  PROVE  PlanOf(a)' = PlanOf(a)
BY DEF PlanOf, Plan, GroupPlan, ProviderPlan, expandRoutingGroup, Proxied, directConfig, Refused, Config, Upstream

ReplayOps == {"register", "unregister", "write", "point", "record"}

\* What a write that is made, or that fails, does to the routes.
LEMMA RouteWrite ==
  ASSUME IInv, NEW a \in Agents, NEW w \in AgentWrites(a),
         IF w.op \in RouteOps THEN RouteEffect(w) ELSE UNCHANGED <<byToken, tokenByAgent>>
  PROVE  /\ w.op = "unregister" => ~Router!Routed(a)'
         /\ w.op = "register" => Serving(a, w.arg)'
         /\ \/ w.op = "unregister" /\ ~Router!Routed(a)
            \/ w.op = "register" /\ Serving(a, w.arg)
            \/ w.op \notin RouteOps
            => UNCHANGED <<byToken, tokenByAgent>>
         /\ \A b \in Agents \ {a} : /\ tokenByAgent'[b] = tokenByAgent[b]
                                    /\ Router!Routed(b)' <=> Router!Routed(b)
                                    /\ \A t : Serving(b, t)' <=> Serving(b, t)
<1>1. CASE w.op \notin RouteOps
  BY <1>1 DEF RouteOps, Router!Routed, Router!has, Serving
<1>2. CASE w.op \in RouteOps
  <2>1. /\ w.op = "unregister" => tokenByAgent'[a] = NoToken
        /\ w.op = "register" => /\ tokenByAgent'[a] \in Tokens
                                /\ byToken'[tokenByAgent'[a]] = [agentId |-> a, target |-> w.arg]
                                /\ w.arg \in RouteTargets
        /\ \/ w.op = "unregister" /\ tokenByAgent[a] = NoToken
           \/ w.op = "register" /\ Router!SameTarget(a, w.arg)
           => tokenByAgent' = tokenByAgent /\ byToken' = byToken
        /\ \A b \in Agents \ {a} :
              /\ tokenByAgent'[b] = tokenByAgent[b]
              /\ tokenByAgent[b] # NoToken => byToken'[tokenByAgent[b]] = byToken[tokenByAgent[b]]
    BY <1>2, RouteEffects, Zenon DEF IInv
  <2>2. w.op = "unregister" => ~Router!Routed(a)'
    BY <2>1 DEF Router!Routed, Router!has
  <2>3. w.op = "register" => Serving(a, w.arg)'
    <3> SUFFICES ASSUME w.op = "register" PROVE Serving(a, w.arg)'
      OBVIOUS
    <3>1. tokenByAgent'[a] # NoToken /\ byToken'[tokenByAgent'[a]].target = w.arg
      BY <2>1, RegistryAssumptions
    <3>2. byToken'[tokenByAgent'[a]] \in Router!RouteSpec
      BY <2>1 DEF Router!RouteSpec
    <3> QED BY <3>1, <3>2, RegistryAssumptions DEF Serving, Router!Routed, Router!has
  <2>4. ~Router!Routed(a) => tokenByAgent[a] = NoToken
    BY DEF IInv, RoutesGood, Router!MapsInverse, Router!Routed, Router!has
  <2>5. Serving(a, w.arg) => Router!SameTarget(a, w.arg)
    BY DEF Serving, Router!SameTarget
  <2>6. ASSUME NEW b \in Agents \ {a}
        PROVE  /\ tokenByAgent'[b] = tokenByAgent[b]
               /\ Router!Routed(b)' <=> Router!Routed(b)
               /\ \A t : Serving(b, t)' <=> Serving(b, t)
    BY <2>1 DEF Router!Routed, Router!has, Serving
  <2> QED BY <1>2, <2>1, <2>2, <2>3, <2>4, <2>5, <2>6
<1> QED
  BY <1>1, <1>2

\* What a write of a replay does to everything else.
LEMMA ReplayWrite ==
  ASSUME IInv, NEW a \in Agents, NEW w \in AgentWrites(a), w.op \in ReplayOps, DoneWrite(w)
  PROVE  /\ UNCHANGED <<port, proxyMode, secret, job, kept>>
         /\ mem'.pool = mem.pool /\ mem'.groups = mem.groups /\ mem'.binding = mem.binding
         /\ IF w.op \in RouteOps THEN RouteEffect(w) ELSE UNCHANGED <<byToken, tokenByAgent>>
         /\ file' = IF w.op = "write" THEN [file EXCEPT ![a] = w.arg]
                    ELSE IF w.op = "point" THEN [file EXCEPT ![a] = LoopbackConfig(a, w.arg)]
                    ELSE file
<1>1. /\ AnyWrite(w)
      /\ DoRoute(w) \/ DoDoc(w) \/ DoFile(w) \/ DoSecret(w)
      /\ UNCHANGED <<port, proxyMode, job, kept>>
  BY Zenon DEF DoneWrite
<1>2. /\ mem'.pool = mem.pool /\ mem'.groups = mem.groups /\ mem'.binding = mem.binding
      /\ w.op \notin RouteOps => UNCHANGED <<byToken, tokenByAgent>>
  BY <1>1, AgentEffect DEF ReplayOps
<1>3. w.agent = a
  BY DEF AgentWrites
<1>4. CASE DoRoute(w)
  BY <1>1, <1>2, <1>4 DEF DoRoute, RouteOps
<1>5. CASE DoDoc(w)
  BY <1>1, <1>2, <1>5 DEF DoDoc, DocOps, RouteOps
<1>6. CASE DoFile(w)
  <2>1. w.op \in {"write", "point"} /\ secret' = secret
    BY <1>6 DEF DoFile, FileOps, ReplayOps
  <2>2. CASE w.op = "write"
    BY <1>1, <1>2, <1>3, <1>6, <2>1, <2>2 DEF DoFile, RouteOps
  <2>3. CASE w.op = "point"
    BY <1>1, <1>2, <1>3, <1>6, <2>1, <2>3 DEF DoFile, RouteOps
  <2> QED BY <2>1, <2>2, <2>3
<1>7. ~DoSecret(w)
  BY DEF DoSecret, SecretOps, ReplayOps
<1> QED
  BY <1>1, <1>4, <1>5, <1>6, <1>7

\* A binding that can be applied means one of the two, and one thing only.
LEMMA PlanForms ==
  ASSUME DocTyped(mem), NEW a \in Agents, mem.binding[a] # None, PlanOf(a) # Refused
  PROVE  (\E c \in Configs : Direct(a, c)) \/ \E t \in RouteTargets : Routes(a, t)
<1>1. mem.binding[a] \in Binding /\ mem.groups \in [Groups -> MemberLists \cup {None}]
  BY DEF DocTyped
<1> QED
  BY <1>1, PlansTyped, Zenon DEF PlanTyped, PlanOf, Direct, Routes

LEMMA OneMeaning ==
  ASSUME NEW a
  PROVE  /\ \A c, d : Direct(a, c) /\ Direct(a, d) => c = d
         /\ \A t, u : Routes(a, t) /\ Routes(a, u) => t = u
         /\ \A c, t : ~(Direct(a, c) /\ Routes(a, t))
         /\ \A c : Direct(a, c) => PlanOf(a) # Refused /\ mem.binding[a] # None
         /\ \A t : Routes(a, t) => PlanOf(a) # Refused /\ mem.binding[a] # None
<1>1. \A c : /\ [kind |-> "direct", config |-> c].kind = "direct"
             /\ [kind |-> "direct", config |-> c].config = c
  OBVIOUS
<1>2. \A t : /\ [kind |-> "proxied", target |-> t].kind = "proxied"
             /\ [kind |-> "proxied", target |-> t].target = t
  OBVIOUS
<1>3. Refused.kind = "refused"
  BY DEF Refused
<1>4. \A c : Direct(a, c) => PlanOf(a).kind = "direct" /\ PlanOf(a).config = c /\ mem.binding[a] # None
  BY <1>1 DEF Direct
<1>5. \A t : Routes(a, t) => PlanOf(a).kind = "proxied" /\ PlanOf(a).target = t /\ mem.binding[a] # None
  BY <1>2 DEF Routes
<1> QED
  BY <1>3, <1>4, <1>5

\* What is left of an agent's replay are writes of a replay.
LEMMA MendedWrites ==
  ASSUME DocTyped(mem), NEW a \in Agents, NEW left, Mended(left, a), NEW w \in left
  PROVE  /\ w.op \in ReplayOps
         /\ \/ \E c \in Configs : Direct(a, c) /\ w \in DirectWrites(a, mem.binding[a], c)
            \/ \E t \in RouteTargets : Routes(a, t) /\ w \in ProxiedWrites(a, mem.binding[a], t)
<1>1. mem.binding[a] # None /\ PlanOf(a) # Refused
  BY DEF Mended
<1>2. \/ \E c \in Configs : Direct(a, c) /\ w \in DirectWrites(a, mem.binding[a], c)
      \/ \E t \in RouteTargets : Routes(a, t) /\ w \in ProxiedWrites(a, mem.binding[a], t)
  BY <1>1, PlanForms, Zenon DEF Mended, DirectDone, RouteDone
<1>3. w.op \in ReplayOps
  BY <1>2, WriteFields DEF DirectWrites, ProxiedWrites, ReplayOps
<1> QED
  BY <1>2, <1>3

\* The agent's own next write.
LEMMA MendedStep ==
  ASSUME IInv, NEW a \in Agents, NEW left, NEW rest, Mended(left, a),
         NEW w \in AgentWrites(a), left = {w} \cup rest, \A u \in rest : Rank(w.op) < Rank(u.op),
         DoneWrite(w)
  PROVE  Mended(rest, a)'
<1>1. DocTyped(mem) /\ file \in [Agents -> Configs \cup {None, Foreign}]
  BY DEF IInv, Typed
<1>2. /\ w.op \in ReplayOps
      /\ \/ \E c \in Configs : Direct(a, c) /\ w \in DirectWrites(a, mem.binding[a], c)
         \/ \E t \in RouteTargets : Routes(a, t) /\ w \in ProxiedWrites(a, mem.binding[a], t)
  BY <1>1, MendedWrites
<1>3. /\ UNCHANGED <<port, proxyMode, secret>>
      /\ mem'.pool = mem.pool /\ mem'.groups = mem.groups /\ mem'.binding = mem.binding
      /\ IF w.op \in RouteOps THEN RouteEffect(w) ELSE UNCHANGED <<byToken, tokenByAgent>>
      /\ file' = IF w.op = "write" THEN [file EXCEPT ![a] = w.arg]
                 ELSE IF w.op = "point" THEN [file EXCEPT ![a] = LoopbackConfig(a, w.arg)]
                 ELSE file
  BY <1>2, ReplayWrite
<1>4. PlanOf(a)' = PlanOf(a) /\ mem'.binding[a] = mem.binding[a]
  BY <1>3, SamePlan
<1>5. /\ \A c : Direct(a, c)' <=> Direct(a, c)
      /\ \A t : Routes(a, t)' <=> Routes(a, t)
  BY <1>4 DEF Direct, Routes
<1>6. /\ w.op = "unregister" => ~Router!Routed(a)'
      /\ w.op = "register" => Serving(a, w.arg)'
      /\ w.op \notin RouteOps => UNCHANGED <<byToken, tokenByAgent>>
  BY <1>3, RouteWrite, Zenon
<1>7. /\ \A u \in rest : u.op # w.op
      /\ w.op \in ConfigOps => \A u \in rest : u.op \notin RouteOps
      /\ w.op \notin RouteOps \cup ConfigOps => \A u \in rest : u.op \notin RouteOps \cup ConfigOps
  <2> SUFFICES ASSUME NEW u \in rest
               PROVE  /\ u.op # w.op
                      /\ w.op \in ConfigOps => u.op \notin RouteOps
                      /\ w.op \notin RouteOps \cup ConfigOps => u.op \notin RouteOps \cup ConfigOps
    OBVIOUS
  <2>1. Rank(w.op) < Rank(u.op)
    OBVIOUS
  <2>2. /\ \A op \in ConfigOps : Rank(op) = 2
        /\ \A op \in RouteOps : Rank(op) = 1
        /\ Rank("record") = 3 /\ Rank(w.op) \in Nat
    BY DEF Rank, ConfigOps, RouteOps
  <2>3. w.op \in RouteOps \cup ConfigOps \cup {"record"}
    BY <1>2 DEF ReplayOps, RouteOps, ConfigOps
  <2> HIDE DEF Rank
  <2> QED BY <2>1, <2>2, <2>3
<1>8. ASSUME NEW c \in Configs, Direct(a, c)
      PROVE  DirectDone(rest, a, c)'
  <2>1. /\ left \subseteq DirectWrites(a, mem.binding[a], c)
        /\ W("unregister", a, None) \in left \/ ~Router!Routed(a)
        /\ W("write", a, c) \in left \/ file[a] = c
    BY <1>8 DEF Mended, DirectDone
  <2>2. rest \subseteq DirectWrites(a, mem'.binding[a], c)
    BY <1>4, <2>1
  <2>3. w \in {W("unregister", a, None), W("write", a, c), W("record", a, mem.binding[a].provider)}
    BY <2>1 DEF DirectWrites
  <2>4. CASE w = W("unregister", a, None)
    <3>1. w.op = "unregister" /\ W("write", a, c) # w
      BY <2>4, WriteFields
    <3> QED BY <1>3, <1>6, <2>1, <2>2, <3>1 DEF DirectDone
  <2>5. CASE w = W("write", a, c)
    <3>1. w.op = "write" /\ w.arg = c /\ W("unregister", a, None) # w
      BY <2>5, WriteFields
    <3>2. UNCHANGED <<byToken, tokenByAgent>> /\ file'[a] = c
      BY <1>1, <1>3, <1>6, <3>1 DEF RouteOps
    <3> QED BY <2>1, <2>2, <3>1, <3>2 DEF DirectDone, Router!Routed, Router!has
  <2>6. CASE w = W("record", a, mem.binding[a].provider)
    <3>1. w.op = "record" /\ W("unregister", a, None) # w /\ W("write", a, c) # w
      BY <2>6, WriteFields
    <3>2. UNCHANGED <<byToken, tokenByAgent>> /\ file' = file
      BY <1>3, <1>6, <3>1 DEF RouteOps
    <3> QED BY <2>1, <2>2, <3>1, <3>2 DEF DirectDone, Router!Routed, Router!has
  <2> QED BY <2>3, <2>4, <2>5, <2>6
<1>9. ASSUME NEW t \in RouteTargets, Routes(a, t)
      PROVE  RouteDone(rest, a, t)'
  <2> DEFINE x == W("register", a, t)
             y == W("point", a, t.model)
             z == W("record", a, mem.binding[a].provider)
  <2>1. /\ left \subseteq ProxiedWrites(a, mem.binding[a], t)
        /\ x \in left \/ Serving(a, t)
        /\ y \in left \/ file[a] = LoopbackConfig(a, t.model)
        /\ x \in left => y \in left
    BY <1>9 DEF Mended, RouteDone
  <2>2. rest \subseteq ProxiedWrites(a, mem'.binding[a], t)
    BY <1>4, <2>1
  <2>3. w \in {x, y, z}
    BY <2>1 DEF ProxiedWrites
  <2>4. /\ x.op = "register" /\ x.arg = t /\ y.op = "point" /\ y.arg = t.model /\ z.op = "record"
    BY WriteFields
  <2> HIDE DEF x, y, z
  <2>5. x \notin rest
    <3>1. CASE w = x
      BY <1>7, <2>4, <3>1
    <3>2. CASE w # x
      BY <1>7, <2>3, <2>4, <3>2 DEF RouteOps, ConfigOps
    <3> QED BY <3>1, <3>2
  <2>6. CASE w = x
    <3>1. y \in rest /\ Serving(a, t)'
      BY <1>6, <2>1, <2>4, <2>6
    <3> QED BY <2>2, <2>5, <3>1 DEF RouteDone, x, y
  <2>7. CASE w # x
    <3>1. Serving(a, t) /\ UNCHANGED <<byToken, tokenByAgent>>
      BY <1>6, <2>1, <2>3, <2>4, <2>5, <2>7 DEF RouteOps
    <3>2. Serving(a, t)' /\ \A m : LoopbackConfig(a, m)' = LoopbackConfig(a, m)
      BY <1>3, <3>1 DEF Serving, Router!Routed, Router!has, LoopbackConfig, Config, Loopback
    <3>3. y \in rest \/ file'[a] = LoopbackConfig(a, t.model)
      BY <1>1, <1>3, <2>1, <2>3, <2>4, <2>7
    <3> QED BY <2>2, <2>5, <3>2, <3>3 DEF RouteDone, x, y
  <2> QED BY <2>6, <2>7
<1>10. mem.binding[a] # None /\ PlanOf(a) # Refused
  BY DEF Mended
<1> QED
  BY <1>4, <1>5, <1>8, <1>9, <1>10 DEF Mended, Refused

\* Nothing of an agent's replay is touched by another agent's.
LEMMA MendedStill ==
  ASSUME NEW a \in Agents, NEW left, Mended(left, a),
         mem'.binding[a] = mem.binding[a], PlanOf(a)' = PlanOf(a), port' = port,
         file'[a] = file[a], tokenByAgent'[a] = tokenByAgent[a],
         Router!Routed(a)' <=> Router!Routed(a), \A t : Serving(a, t)' <=> Serving(a, t)
  PROVE  Mended(left, a)'
<1>1. /\ \A c : Direct(a, c)' <=> Direct(a, c)
      /\ \A t : Routes(a, t)' <=> Routes(a, t)
  BY DEF Direct, Routes
<1>2. \A m : LoopbackConfig(a, m)' = LoopbackConfig(a, m)
  BY DEF LoopbackConfig, Config, Loopback
<1>3. \A c \in Configs : Direct(a, c)' => DirectDone(left, a, c)'
  BY <1>1 DEF Mended, DirectDone
<1>4. \A t \in RouteTargets : Routes(a, t)' => RouteDone(left, a, t)'
  BY <1>1, <1>2 DEF Mended, RouteDone
<1> QED
  BY <1>3, <1>4 DEF Mended, Refused

\* A replay starts with all of it to do.
AllMended == NoneAround /\ \A a \in Agents : Mended(Left(a), a)
ReplayReady == DocTyped(mem) /\ TodoReplayed

LEMMA ReplayMends == ReplayReady => AllMended
<1> SUFFICES ASSUME ReplayReady PROVE AllMended
  OBVIOUS
<1>1. /\ DocTyped(mem) /\ NoneAround
      /\ \A a \in Agents : todo.each[a] = IF mem.binding[a] = None THEN << >>
                                          ELSE Apply(mem.groups, a, mem.binding[a])
  BY NothingElements DEF ReplayReady, TodoReplayed, Replayed, NoneAround
<1>2. ASSUME NEW a \in Agents PROVE Mended(Left(a), a)
  <2>1. CASE mem.binding[a] = None
    <3>1. Left(a) = {}
      BY <1>1, <2>1, NothingElements DEF Left
    <3> QED BY <2>1, <3>1 DEF Mended, Direct, Routes
  <2>2. CASE mem.binding[a] # None
    <3>1. mem.binding[a] \in Binding /\ mem.groups \in [Groups -> MemberLists \cup {None}]
      BY <1>1, <2>2 DEF DocTyped
    <3>2. Left(a) = Elements(Apply(mem.groups, a, mem.binding[a]))
      BY <1>1, <2>2 DEF Left
    <3>3. \/ PlanOf(a) = Refused /\ Left(a) = {}
          \/ \E c \in Configs : Direct(a, c) /\ Left(a) = DirectWrites(a, mem.binding[a], c)
          \/ \E t \in RouteTargets : Routes(a, t) /\ Left(a) = ProxiedWrites(a, mem.binding[a], t)
      BY <1>1, <2>2, <3>1, <3>2, ApplyScript, Zenon DEF PlanOf, Direct, Routes
    <3> DEFINE left == Left(a)
    <3> HIDE DEF left
    <3>4. CASE PlanOf(a) = Refused /\ left = {}
      BY <3>4, OneMeaning DEF Mended, left
    <3>5. ASSUME NEW c \in Configs, Direct(a, c), left = DirectWrites(a, mem.binding[a], c)
          PROVE  Mended(left, a)
      <4>1. DirectDone(left, a, c)
        BY <3>5 DEF DirectDone, DirectWrites
      <4> QED BY <3>5, <4>1, OneMeaning, Zenon DEF Mended
    <3>6. ASSUME NEW t \in RouteTargets, Routes(a, t), left = ProxiedWrites(a, mem.binding[a], t)
          PROVE  Mended(left, a)
      <4>1. RouteDone(left, a, t)
        BY <3>6 DEF RouteDone, ProxiedWrites
      <4> QED BY <3>6, <4>1, OneMeaning, Zenon DEF Mended
    <3> QED BY <3>3, <3>4, <3>5, <3>6 DEF left
  <2> QED BY <2>1, <2>2
<1> QED
  BY <1>1, <1>2 DEF AllMended

LEMMA DoneMended ==
  ASSUME IInv, AllMended, NEW w, DoneWrite(w)
  PROVE  AllMended'
<1>1. Stepped(w) /\ DocTyped(mem) /\ Elements(todo.last) = {}
  BY NothingElements DEF DoneWrite, IInv, Typed, AllMended, NoneAround
<1>2. PICK a \in Agents : AgentDone(a, w)
  BY <1>1 DEF Stepped, FirstDone, LastDone, AllMended, NoneAround
<1>3. /\ w \in AgentWrites(a) /\ Left(a) = {w} \cup Left(a)'
      /\ \A u \in Left(a)' : Rank(w.op) < Rank(u.op)
      /\ \A b \in Agents \ {a} : Left(b)' = Left(b)
      /\ todo'.first = << >> /\ todo'.last = todo.last
  BY <1>2, Zenon DEF AgentDone
<1>4. Mended(Left(a), a)
  BY DEF AllMended
<1>5. w.op \in ReplayOps
  BY <1>1, <1>3, <1>4, MendedWrites
<1>6. ASSUME NEW rest, rest = Left(a)' PROVE Mended(rest, a)'
  <2> HIDE DEF Rank
  <2> DEFINE left == Left(a)
  <2>1. Mended(left, a) /\ left = {w} \cup rest /\ \A u \in rest : Rank(w.op) < Rank(u.op)
    BY <1>3, <1>4, <1>6
  <2> HIDE DEF left
  <2> QED BY <1>3, <2>1, MendedStep
<1>7. Mended(Left(a), a)'
  BY <1>6, Zenon DEF Mended, DirectDone, RouteDone
<1>8. ASSUME NEW b \in Agents \ {a} PROVE Mended(Left(b), b)'
  <2>1. /\ UNCHANGED <<port, proxyMode, secret>>
        /\ mem'.pool = mem.pool /\ mem'.groups = mem.groups /\ mem'.binding = mem.binding
        /\ IF w.op \in RouteOps THEN RouteEffect(w) ELSE UNCHANGED <<byToken, tokenByAgent>>
        /\ file' = IF w.op = "write" THEN [file EXCEPT ![a] = w.arg]
                   ELSE IF w.op = "point" THEN [file EXCEPT ![a] = LoopbackConfig(a, w.arg)]
                   ELSE file
    BY <1>3, <1>5, ReplayWrite
  <2>2. /\ tokenByAgent'[b] = tokenByAgent[b]
        /\ Router!Routed(b)' <=> Router!Routed(b)
        /\ \A t : Serving(b, t)' <=> Serving(b, t)
    BY <1>3, <2>1, RouteWrite, Zenon
  <2>3. file'[b] = file[b]
    BY <2>1 DEF IInv, Typed
  <2>4. PlanOf(b)' = PlanOf(b)
    BY <2>1, SamePlan
  <2> DEFINE left == Left(b)
  <2>5. left' = left /\ Mended(left, b)
    BY <1>3 DEF AllMended
  <2> HIDE DEF left
  <2>6. ASSUME NEW rest, rest = left PROVE Mended(rest, b)'
    BY <2>1, <2>2, <2>3, <2>4, <2>5, <2>6, MendedStill
  <2>7. Mended(left, b)'
    BY <2>5, <2>6, Zenon DEF Mended, DirectDone, RouteDone
  <2> QED BY <2>7 DEF left
<1> QED
  BY <1>3, <1>7, <1>8 DEF AllMended, NoneAround

\* How a step leaves the job of a rebuild.
LEMMA JobSteps ==
  ASSUME IInv, [Next]_vars
  PROVE  \/ \E w : DoneWrite(w)
         \/ ~job'.clean
         \/ job'.kind \notin {"boot", "rebuild"}
         \/ ReplayReady'
         \/ UNCHANGED vars
<1>1. DocTyped(mem) /\ DocTyped(mem')
  BY NextIInv DEF IInv, Typed
<1>2. Do => \E w : DoneWrite(w)
  BY DoIsDone
<1>3. Fail => ~job'.clean
  BY FailIsFailed DEF FailedWrite
<1>4. HandlerStarted => job'.kind \notin {"boot", "rebuild"}
  <2> SUFFICES ASSUME HandlerStarted PROVE job'.kind \notin {"boot", "rebuild"}
    OBVIOUS
  <2>1. PICK kind \in HandlerKinds, guarded \in BOOLEAN :
          job' = [kind |-> kind, guarded |-> guarded, clean |-> TRUE]
    BY Zenon DEF HandlerStarted, StartsHandler, Start
  <2> QED BY <2>1 DEF HandlerKinds
<1>5. todo' = Rebuild' => ReplayReady'
  <2> SUFFICES ASSUME todo' = Rebuild' PROVE ReplayReady'
    OBVIOUS
  <2>1. TodoReplayed'
    BY <1>1, RebuildNext
  <2> QED BY <1>1, <2>1 DEF ReplayReady, DocTyped
<1>6. SetProxyMode => todo' = Rebuild'
  BY Zenon DEF SetProxyMode
<1>7. RefreshProxyPort => todo' = Rebuild' \/ ~job'.clean
  BY DEF RefreshProxyPort
<1>8. Restart => todo' = Rebuild' \/ ~job'.clean
  BY DEF Restart
<1>9. (\E a \in Agents : ForeignEdit(a)) => job'.kind \notin {"boot", "rebuild"}
  BY DEF ForeignEdit
<1> QED
  BY <1>1, <1>2, <1>3, <1>4, <1>5, <1>6, <1>7, <1>8, <1>9, NextCases, Zenon

LEMMA NextMending == IInv /\ Mending /\ [Next]_vars => Mending'
<1> SUFFICES ASSUME IInv, Mending, [Next]_vars PROVE Mending'
  OBVIOUS
<1>1. (job.kind \in {"boot", "rebuild"} /\ job.clean) => AllMended
  BY DEF Mending, AllMended
<1>2. AllMended' => Mending'
  BY DEF Mending, AllMended
<1>3. ASSUME NEW w, DoneWrite(w) PROVE Mending'
  <2>1. job' = job
    BY <1>3 DEF DoneWrite
  <2>2. CASE job.kind \in {"boot", "rebuild"} /\ job.clean
    BY <1>1, <1>2, <1>3, <2>2, DoneMended
  <2>3. CASE ~(job.kind \in {"boot", "rebuild"} /\ job.clean)
    BY <2>1, <2>3 DEF Mending
  <2> QED BY <2>2, <2>3
<1>4. ReplayReady' => AllMended'
  BY ReplayMends, PTL
<1>5. CASE UNCHANGED vars
  <2>1. UNCHANGED <<mem, port, proxyMode, secret, byToken, tokenByAgent, file, todo, job>>
    BY <1>5, Zenon DEF vars
  <2>2. CASE job.kind \in {"boot", "rebuild"} /\ job.clean
    <3>1. ASSUME NEW a \in Agents PROVE Mended(Left(a), a)'
      <4> DEFINE left == Left(a)
      <4>1. Mended(left, a) /\ left' = left
        BY <1>1, <2>1, <2>2 DEF AllMended, Left
      <4>2. PlanOf(a)' = PlanOf(a)
        BY <2>1, SamePlan
      <4>3. (Router!Routed(a)' <=> Router!Routed(a)) /\ \A t : Serving(a, t)' <=> Serving(a, t)
        BY <2>1 DEF Router!Routed, Router!has, Serving
      <4> HIDE DEF left
      <4>4. ASSUME NEW rest, rest = left PROVE Mended(rest, a)'
        BY <2>1, <4>1, <4>2, <4>3, <4>4, MendedStill
      <4>5. Mended(left, a)'
        BY <4>1, <4>4, Zenon DEF Mended, DirectDone, RouteDone
      <4> QED BY <4>5 DEF left
    <3>2. NoneAround'
      BY <1>1, <2>1, <2>2 DEF AllMended, NoneAround
    <3> QED BY <1>2, <3>1, <3>2 DEF AllMended
  <2>3. CASE ~(job.kind \in {"boot", "rebuild"} /\ job.clean)
    BY <2>1, <2>3 DEF Mending
  <2> QED BY <2>2, <2>3
<1>6. ~job'.clean \/ job'.kind \notin {"boot", "rebuild"} => Mending'
  BY DEF Mending
<1> QED
  BY <1>2, <1>3, <1>4, <1>5, <1>6, JobSteps, Zenon

\* A binding that can be applied is served once nothing of its replay is left.
LEMMA MendedServed ==
  ASSUME DocTyped(mem), NEW a \in Agents, Mended({}, a), Bindable(a)
  PROVE  Served(a)
<1>1. PlanOf(a) # Refused /\ mem.binding[a] # None
  BY DEF Bindable, PlanOf
<1>2. ASSUME NEW c \in Configs, Direct(a, c) PROVE Served(a)
  <2>1. ~Router!Routed(a) /\ file[a] = c
    BY <1>2 DEF Mended, DirectDone
  <2>2. PlanOf(a).kind = "direct" /\ PlanOf(a).config = c
    BY <1>2 DEF Direct
  <2> QED BY <2>1, <2>2 DEF Served, PlanOf
<1>3. ASSUME NEW t \in RouteTargets, Routes(a, t) PROVE Served(a)
  <2>1. Serving(a, t) /\ file[a] = LoopbackConfig(a, t.model)
    BY <1>3 DEF Mended, RouteDone
  <2>2. PlanOf(a).kind = "proxied" /\ PlanOf(a).target = t
    BY <1>3 DEF Routes
  <2> QED BY <2>1, <2>2 DEF Served, PlanOf, Serving
<1> QED
  BY <1>1, <1>2, <1>3, PlanForms

LEMMA AlwaysMending == Spec => [](IInv /\ Mending)
<1>1. Init => Mending
  BY DEF Init, Mending
<1> QED
  BY <1>1, NextMending, InitIInv, NextIInv, PTL DEF Spec

LEMMA IdleMended == ASSUME IInv, Mending, Idle, job.kind \in {"boot", "rebuild"}, job.clean
                    PROVE  \A a \in Agents : Mended({}, a)
<1>1. \A a \in Agents : Left(a) = {}
  BY DoneTyped, NothingElements DEF Idle, Left
<1> QED
  BY <1>1 DEF Mending

\* After a startup, a change of proxy mode or a port refresh in which no write
\* failed, every bound agent that can be served is served, however many writes
\* failed and processes died before it.
THEOREM RebuildMends == Spec => []RebuildHeals
<1>1. IInv /\ Mending => RebuildHeals
  BY IdleMended, MendedServed DEF RebuildHeals, IInv, Typed
<1> QED
  BY <1>1, AlwaysMending, PTL

\* With proxy mode on and such a rebuild behind it, no bound agent's config
\* holds a provider's key unless the pair cannot go through the proxy at all.
THEOREM KeysStayBehindTheProxy == Spec => []ProxyModeHidesKeys
<1>1. ASSUME IInv, Mending, Idle, proxyMode, job.kind \in {"boot", "rebuild"}, job.clean,
             NEW a \in Agents, Bindable(a), file[a].key \in Providers
      PROVE  resolveBindingRoute(Accepted[a], mem.pool[mem.binding[a].provider].formats).inbound = "gemini"
  <2> DEFINE b == mem.binding[a]
             p == mem.pool[b.provider]
             r == resolveBindingRoute(Accepted[a], p.formats)
  <2>1. DocTyped(mem) /\ Mended({}, a)
    BY <1>1, IdleMended DEF IInv, Typed
  <2>2. b # None /\ PlanOf(a) # Refused
    BY <1>1 DEF Bindable, PlanOf
  <2>3. ASSUME NEW t \in RouteTargets, Routes(a, t) PROVE FALSE
    <3>1. Router!Routed(a) /\ file[a] = LoopbackConfig(a, t.model)
      BY <2>1, <2>3 DEF Mended, RouteDone, Serving
    <3>2. tokenByAgent[a] \in Tokens /\ file[a].key = tokenByAgent[a]
      BY <1>1, <3>1 DEF IInv, RoutesGood, Router!RouterTypeOK, Router!Routed, Router!has, LoopbackConfig, Config
    <3> QED BY <1>1, <3>2, BindingsAssumption
  <2>4. PICK c \in Configs : Direct(a, c)
    BY <2>1, <2>2, <2>3, PlanForms
  <2>5. PlanOf(a).kind = "direct"
    BY <2>4 DEF Direct
  <2>6. b \in Binding /\ mem.groups \in [Groups -> MemberLists \cup {None}]
    BY <2>1, <2>2 DEF DocTyped
  <2>7. b.provider \notin Groups
    <3> SUFFICES ASSUME b.provider \in Groups PROVE FALSE
      OBVIOUS
    <3>1. PlanOf(a) = GroupPlan(mem.groups, a, b)
      BY DEF PlanOf, Plan
    <3>2. PlanOf(a) = Refused \/ \E t : PlanOf(a) = Proxied(t)
      BY <3>1, Zenon DEF GroupPlan
    <3>3. \A t : Proxied(t).kind # "direct"
      BY DEF Proxied, Refused
    <3> QED BY <2>2, <2>5, <3>2, <3>3
  <2>8. PlanOf(a) = ProviderPlan(a, b)
    BY <2>7 DEF PlanOf, Plan
  <2>9. p # None /\ r # NoPair /\ directConfig(p, r)
    <3>1. \/ ProviderPlan(a, b) = Refused
          \/ \E t : ProviderPlan(a, b) = Proxied(t)
          \/ p # None /\ r # NoPair /\ directConfig(p, r)
      BY Zenon DEF ProviderPlan
    <3>2. \A t : Proxied(t).kind # "direct"
      BY DEF Proxied, Refused
    <3> QED BY <2>2, <2>5, <2>8, <3>1, <3>2
  <2>10. r.kind = "native" /\ ~translationSupported(r.inbound, r.outbound)
    BY <1>1, <2>9 DEF directConfig
  <2>11. p \in Shapes
    <3>1. b.provider \in Providers
      BY <2>6, <2>7 DEF Binding
    <3> QED BY <2>1, <2>9, <3>1 DEF DocTyped
  <2>12. p.formats \in SUBSET ApiFormats /\ Accepted[a] \in Seq(ApiFormats) /\ Accepted[a] # << >>
    BY <2>11, BindingsAssumption
  <2>13. \/ \E f \in ApiFormats : r = [kind |-> "native", inbound |-> f, outbound |-> f]
         \/ \E f, g \in ApiFormats : r = [kind |-> "translated", inbound |-> f, outbound |-> g]
    <3> HIDE DEF p
    <3> QED BY <2>9, <2>12, ResolvedPair
  <2> HIDE DEF r
  <2>14. r.inbound \in ApiFormats /\ r.inbound = r.outbound
    BY <2>10, <2>13
  <2>15. \A f \in ApiFormats \ {"gemini"} : translationSupported(f, f)
    BY DEF ApiFormats, translationSupported
  <2>16. r.inbound = "gemini"
    BY <2>10, <2>14, <2>15
  <2> QED BY <2>16 DEF r
<1>2. IInv /\ Mending => ProxyModeHidesKeys
  BY <1>1 DEF ProxyModeHidesKeys
<1> QED
  BY <1>2, AlwaysMending, PTL

(***************************************************************************)
(* An orderly restart.                                                     *)
(***************************************************************************)

\* The agent's binding is served, and a replay of it would change nothing.
InPlace(a) ==
  /\ \A c \in Configs : Direct(a, c) => ~Router!Routed(a) /\ file[a] = c
  /\ \A t \in RouteTargets : Routes(a, t) => Serving(a, t) /\ file[a] = LoopbackConfig(a, t.model)

Replaying(left, a) ==
  /\ mem.binding[a] = None \/ PlanOf(a) = Refused => left = {}
  /\ \A c \in Configs : Direct(a, c) => left \subseteq DirectWrites(a, mem.binding[a], c)
  /\ \A t \in RouteTargets : Routes(a, t) => left \subseteq ProxiedWrites(a, mem.binding[a], t)

\* RestartKeepsAddresses holds of every state of the replay because each of its
\* writes puts down what is there already.
Steady == NoneAround /\ \A a \in Agents : InPlace(a) /\ Replaying(Left(a), a)
KeptSteady == kept # None => file = kept /\ Steady

SameAddresses ==
  UNCHANGED <<port, proxyMode, secret, byToken, tokenByAgent, file>>
  /\ mem'.pool = mem.pool /\ mem'.groups = mem.groups /\ mem'.binding = mem.binding

LEMMA StillInPlace ==
  ASSUME SameAddresses, NEW a
  PROVE  /\ InPlace(a) => InPlace(a)'
         /\ \A left : Replaying(left, a) => Replaying(left, a)'
<1>1. PlanOf(a)' = PlanOf(a)
  BY SamePlan DEF SameAddresses
<1>2. /\ \A c : Direct(a, c)' <=> Direct(a, c)
      /\ \A t : Routes(a, t)' <=> Routes(a, t)
  BY <1>1 DEF Direct, Routes, SameAddresses
<1>3. /\ Router!Routed(a)' <=> Router!Routed(a)
      /\ \A t : Serving(a, t)' <=> Serving(a, t)
      /\ \A m : LoopbackConfig(a, m)' = LoopbackConfig(a, m)
  BY DEF SameAddresses, Serving, Router!Routed, Router!has, LoopbackConfig, Config, Loopback
<1>4. InPlace(a) => InPlace(a)'
  BY <1>2, <1>3 DEF InPlace, SameAddresses
<1>5. \A left : Replaying(left, a) => Replaying(left, a)'
  BY <1>1, <1>2 DEF Replaying, SameAddresses, Refused
<1> QED
  BY <1>4, <1>5

\* A write of a replay in such a state changes no address, made or not.
LEMMA SteadyWrite ==
  ASSUME IInv, NEW a \in Agents, NEW left, InPlace(a), Replaying(left, a), NEW w \in left
  PROVE  /\ w.op \in ReplayOps
         /\ \/ w.op = "unregister" /\ ~Router!Routed(a)
            \/ w.op = "register" /\ Serving(a, w.arg)
            \/ w.op \notin RouteOps
         /\ w.op = "write" => w.arg = file[a]
         /\ w.op = "point" => LoopbackConfig(a, w.arg) = file[a]
<1>1. mem.binding[a] # None /\ PlanOf(a) # Refused /\ DocTyped(mem)
  BY DEF Replaying, IInv, Typed
<1>2. ASSUME NEW c \in Configs, Direct(a, c)
      PROVE  /\ w \in DirectWrites(a, mem.binding[a], c) /\ ~Router!Routed(a) /\ file[a] = c
  BY <1>2 DEF InPlace, Replaying
<1>3. ASSUME NEW t \in RouteTargets, Routes(a, t)
      PROVE  /\ w \in ProxiedWrites(a, mem.binding[a], t) /\ Serving(a, t)
             /\ file[a] = LoopbackConfig(a, t.model)
  BY <1>3 DEF InPlace, Replaying
<1>4. CASE \E c \in Configs : Direct(a, c)
  <2>1. PICK c \in Configs : Direct(a, c)
    BY <1>4
  <2>2. /\ w \in DirectWrites(a, mem.binding[a], c) /\ ~Router!Routed(a) /\ file[a] = c
    BY <1>2, <2>1
  <2> QED BY <2>2, WriteFields DEF DirectWrites, ReplayOps, RouteOps
<1>5. CASE \E t \in RouteTargets : Routes(a, t)
  <2>1. PICK t \in RouteTargets : Routes(a, t)
    BY <1>5
  <2>2. /\ w \in ProxiedWrites(a, mem.binding[a], t) /\ Serving(a, t)
        /\ file[a] = LoopbackConfig(a, t.model)
    BY <1>3, <2>1
  <2> QED BY <2>2, WriteFields DEF ProxiedWrites, ReplayOps, RouteOps
<1> QED
  BY <1>1, <1>4, <1>5, PlanForms

LEMMA SteadyFailure ==
  ASSUME IInv, Steady, NEW w, FailedWrite(w)
  PROVE  SameAddresses
<1>1. /\ IF w.op \in RouteOps THEN RouteEffect(w) ELSE UNCHANGED <<byToken, tokenByAgent>>
      /\ AnyWrite(w)
      /\ mem' = IF w.op \in DocOps THEN Edited(w) ELSE mem
      /\ \/ w \in FirstWrites /\ todo.first # << >> /\ todo' = Done
         \/ w \in LastWrites /\ w \in Elements(todo.last) /\ \A a \in Agents : Left(a) = {}
         \/ \E a \in Agents : w \in Left(a) /\ w \in AgentWrites(a) /\ Left(a)' = {}
      /\ UNCHANGED <<port, proxyMode, secret, file>>
  BY Zenon DEF FailedWrite
<1>2. PICK a \in Agents : w \in Left(a) /\ w \in AgentWrites(a)
  BY <1>1 DEF Steady, NoneAround
<1>3. /\ w.op \in ReplayOps
      /\ \/ w.op = "unregister" /\ ~Router!Routed(a)
         \/ w.op = "register" /\ Serving(a, w.arg)
         \/ w.op \notin RouteOps
  BY <1>2, SteadyWrite, Zenon DEF Steady
<1>4. UNCHANGED <<byToken, tokenByAgent>>
  BY <1>1, <1>2, <1>3, RouteWrite
<1>5. mem'.pool = mem.pool /\ mem'.groups = mem.groups /\ mem'.binding = mem.binding
  <2>1. CASE w.op \in DocOps
    BY <1>1, <1>3, <2>1, EditedFields DEF ReplayOps, IInv, Typed
  <2>2. CASE w.op \notin DocOps
    BY <1>1, <2>2
  <2> QED BY <2>1, <2>2
<1> QED
  BY <1>1, <1>4, <1>5 DEF SameAddresses

LEMMA SteadyStep ==
  ASSUME IInv, Steady, NEW w, DoneWrite(w)
  PROVE  SameAddresses
<1>1. Stepped(w) /\ \E a \in Agents : AgentDone(a, w)
  BY DEF DoneWrite, Stepped, FirstDone, LastDone, Steady, NoneAround
<1>2. PICK a \in Agents : w \in Left(a) /\ w \in AgentWrites(a)
  BY <1>1, WriteKinds DEF AgentDone
<1>3. /\ w.op \in ReplayOps
      /\ \/ w.op = "unregister" /\ ~Router!Routed(a)
         \/ w.op = "register" /\ Serving(a, w.arg)
         \/ w.op \notin RouteOps
      /\ w.op = "write" => w.arg = file[a]
      /\ w.op = "point" => LoopbackConfig(a, w.arg) = file[a]
  BY <1>2, SteadyWrite, Zenon DEF Steady
<1>4. /\ UNCHANGED <<port, proxyMode, secret>>
      /\ mem'.pool = mem.pool /\ mem'.groups = mem.groups /\ mem'.binding = mem.binding
      /\ IF w.op \in RouteOps THEN RouteEffect(w) ELSE UNCHANGED <<byToken, tokenByAgent>>
      /\ file' = IF w.op = "write" THEN [file EXCEPT ![a] = w.arg]
                 ELSE IF w.op = "point" THEN [file EXCEPT ![a] = LoopbackConfig(a, w.arg)]
                 ELSE file
  BY <1>2, <1>3, ReplayWrite
<1>5. UNCHANGED <<byToken, tokenByAgent>>
  BY <1>2, <1>3, <1>4, RouteWrite
<1>6. file' = file
  BY <1>3, <1>4 DEF IInv, Typed
<1> QED
  BY <1>4, <1>5, <1>6 DEF SameAddresses

\* Less to do in the same place.
LEMMA StillSteady ==
  ASSUME Steady, SameAddresses, NoneAround', \A a \in Agents : Left(a)' \subseteq Left(a)
  PROVE  Steady'
<1>1. ASSUME NEW a \in Agents PROVE InPlace(a)' /\ Replaying(Left(a), a)'
  <2> DEFINE left == Left(a)
  <2>1. InPlace(a) /\ Replaying(left, a)
    BY DEF Steady
  <2>2. ASSUME NEW rest, rest \subseteq left PROVE Replaying(rest, a)'
    <3> HIDE DEF left
    <3>1. Replaying(rest, a)
      BY <2>1, <2>2 DEF Replaying
    <3> QED BY <3>1, StillInPlace
  <2>3. InPlace(a)'
    BY <2>1, StillInPlace
  <2>4. ASSUME NEW rest, rest = Left(a)' PROVE Replaying(rest, a)'
    BY <2>2, <2>4
  <2>5. Replaying(Left(a), a)'
    BY <2>4, Zenon DEF Replaying
  <2> QED BY <2>3, <2>5
<1> QED
  BY <1>1 DEF Steady

\* An idle, settled state is in place, and so is what a restart makes of it.
LEMMA SettledInPlace ==
  ASSUME IInv, Settled, NEW a \in Agents
  PROVE  InPlace(a)
<1>1. ASSUME NEW c \in Configs, Direct(a, c) PROVE ~Router!Routed(a) /\ file[a] = c
  <2>1. PlanOf(a).kind = "direct" /\ PlanOf(a).config = c /\ mem.binding[a] # None
    BY <1>1 DEF Direct
  <2>2. Served(a)
    BY <2>1 DEF Settled
  <2> QED BY <2>1, <2>2 DEF Served, PlanOf
<1>2. ASSUME NEW t \in RouteTargets, Routes(a, t)
      PROVE  Serving(a, t) /\ file[a] = LoopbackConfig(a, t.model)
  <2>1. PlanOf(a).kind = "proxied" /\ PlanOf(a).target = t /\ mem.binding[a] # None
    BY <1>2 DEF Routes
  <2>2. Served(a)
    BY <2>1 DEF Settled
  <2> QED BY <2>1, <2>2 DEF Served, PlanOf, Serving
<1> QED
  BY <1>1, <1>2 DEF InPlace

LEMMA SettledRestart ==
  ASSUME IInv, Settled, Restart, port' = diskPort
  PROVE  SameAddresses
<1>1. /\ mem' = Loaded /\ Router!rehydrate(saved)
      /\ UNCHANGED <<secret, proxyMode, file>>
  BY Zenon DEF Restart
<1>2. disk = mem /\ port' = port /\ saved = Router!snapshot
  BY DEF Settled
<1>3. UNCHANGED <<byToken, tokenByAgent>>
  BY <1>1, <1>2, RehydratedSame DEF IInv
<1>4. /\ DocTyped(mem') /\ mem'.pool = mem.pool /\ mem'.groups = mem.groups
      /\ \A a \in Agents : mem'.binding[a] =
           IF mem.binding[a] # None /\ mem.binding[a].provider \in Providers
                /\ mem.pool[mem.binding[a].provider] = None
           THEN None ELSE mem.binding[a]
  BY <1>1, <1>2, LoadedFields DEF IInv, Typed
<1>5. ASSUME NEW a \in Agents, mem.binding[a] # None, mem.binding[a].provider \in Providers,
             mem.pool[mem.binding[a].provider] = None
      PROVE  FALSE
  <2>1. mem.binding[a].provider \notin Groups
    BY <1>5, BindingsAssumption
  <2>2. PlanOf(a) = Refused
    BY <1>5, <2>1, Zenon DEF PlanOf, Plan, ProviderPlan
  <2> QED BY <1>5, <2>2 DEF Settled, Bindable, PlanOf
<1>6. mem'.binding = mem.binding
  <2>1. \A a \in Agents : mem'.binding[a] = mem.binding[a]
    BY <1>4, <1>5
  <2>2. mem.binding \in [Agents -> Binding \cup {None}] /\ mem'.binding \in [Agents -> Binding \cup {None}]
    BY <1>4 DEF IInv, Typed, DocTyped
  <2> QED BY <2>1, <2>2
<1> QED
  BY <1>1, <1>2, <1>3, <1>4, <1>6 DEF SameAddresses

MendedReplay == NoneAround /\ \A a \in Agents : Replaying(Left(a), a)

LEMMA ReplayReplays == ReplayReady => MendedReplay
BY ReplayMends DEF AllMended, Mended, DirectDone, RouteDone, Replaying, MendedReplay

LEMMA RestartSteady ==
  ASSUME IInv, Restart, kept' # None
  PROVE  (file = kept /\ Steady)'
<1>1. kept' = file /\ file' = file /\ Settled /\ port' = diskPort /\ todo' = Rebuild'
  BY DEF Restart
<1>2. SameAddresses
  BY <1>1, SettledRestart
<1>3. \A a \in Agents : InPlace(a)'
  BY <1>1, <1>2, SettledInPlace, StillInPlace
<1>4. DocTyped(mem')
  BY LoadedFields DEF Restart, IInv, Typed
<1>5. ReplayReady'
  <2>1. TodoReplayed'
    BY <1>1, <1>4, RebuildNext
  <2> QED BY <1>4, <2>1 DEF ReplayReady, DocTyped
<1>6. MendedReplay'
  BY <1>5, ReplayReplays, PTL
<1> QED
  BY <1>1, <1>3, <1>6 DEF Steady, MendedReplay

LEMMA NextKeptSteady == IInv /\ KeptSteady /\ [Next]_vars => KeptSteady'
<1> SUFFICES ASSUME IInv, KeptSteady, [Next]_vars PROVE KeptSteady'
  OBVIOUS
<1>1. ASSUME kept' = kept, SameAddresses, Steady => NoneAround', \A a \in Agents : Left(a)' \subseteq Left(a)
      PROVE  KeptSteady'
  BY <1>1, StillSteady DEF KeptSteady, SameAddresses
<1>2. ASSUME NEW w, DoneWrite(w) PROVE KeptSteady'
  <2>1. kept' = kept /\ Stepped(w)
    BY <1>2 DEF DoneWrite
  <2>2. CASE kept = None
    BY <2>1, <2>2 DEF KeptSteady
  <2>3. CASE kept # None
    <3>1. Steady /\ SameAddresses
      BY <1>2, <2>3, SteadyStep DEF KeptSteady
    <3>2. \A a \in Agents : Left(a)' \subseteq Left(a)
      BY <2>1, WriteKinds
    <3>3. NoneAround'
      BY <2>1, <3>1 DEF Stepped, FirstDone, AgentDone, LastDone, Steady, NoneAround
    <3> QED BY <1>1, <2>1, <3>1, <3>2, <3>3
  <2> QED BY <2>2, <2>3
<1>3. ASSUME NEW w, FailedWrite(w) PROVE KeptSteady'
  <2>1. kept' = kept /\ todo'.first = << >> /\ Elements(todo'.last) \subseteq Elements(todo.last)
    BY <1>3 DEF FailedWrite
  <2>2. CASE kept = None
    BY <2>1, <2>2 DEF KeptSteady
  <2>3. CASE kept # None
    <3>1. Steady /\ SameAddresses
      BY <1>3, <2>3, SteadyFailure DEF KeptSteady
    <3>2. \A a \in Agents : Left(a)' \subseteq Left(a)
      BY <1>3, WriteKinds
    <3>3. NoneAround'
      BY <2>1, <3>1 DEF Steady, NoneAround
    <3> QED BY <1>1, <2>1, <3>1, <3>2, <3>3
  <2> QED BY <2>2, <2>3
<1>4. CASE kept' = None
  BY <1>4 DEF KeptSteady
<1>5. CASE Restart
  BY <1>5, RestartSteady DEF KeptSteady
<1>6. CASE UNCHANGED vars
  <2>1. UNCHANGED <<mem, port, proxyMode, secret, byToken, tokenByAgent, file, todo, kept>>
    BY <1>6, Zenon DEF vars
  <2> QED BY <1>1, <2>1 DEF SameAddresses, Steady, NoneAround, Left
<1>7. HandlerStarted => kept' = None
  BY Zenon DEF HandlerStarted, StartsHandler, Start
<1>8. SetProxyMode \/ RefreshProxyPort \/ (\E a \in Agents : ForeignEdit(a)) => kept' = None
  BY Zenon DEF SetProxyMode, RefreshProxyPort, ForeignEdit
<1>9. Next => \/ (\E w : DoneWrite(w)) \/ (\E w : FailedWrite(w)) \/ HandlerStarted \/ SetProxyMode
              \/ RefreshProxyPort \/ Restart \/ \E a \in Agents : ForeignEdit(a)
  BY NextCases, DoIsDone, FailIsFailed DEF IInv, Typed
<1> QED
  BY <1>2, <1>3, <1>4, <1>5, <1>6, <1>7, <1>8, <1>9, Zenon

\* An orderly restart on the same port leaves every config file as it was, after
\* any write of the startup replay, made or failed: an agent that has read its
\* config goes on with an address and token that still work.
THEOREM RestartsKeepAddresses == Spec => []RestartKeepsAddresses
<1>1. Init => KeptSteady
  BY DEF Init, KeptSteady
<1>2. KeptSteady => RestartKeepsAddresses
  BY DEF KeptSteady, RestartKeepsAddresses
<1> QED
  BY <1>1, <1>2, NextKeptSteady, InitIInv, NextIInv, PTL DEF Spec
=============================================================================
