---------------------------- MODULE RoutingProxy ----------------------------
(***************************************************************************)
(* Requests through a routing group: translationProxy.ts handle() and      *)
(* serveDriver() over the routing runtime (routing/runtime.ts: cooldown,   *)
(* rotate cursor, ok counts, recorded decisions) and the conversation      *)
(* sticks (routing/sessionAffinity.ts).                                    *)
(*                                                                         *)
(* handle() gives up control at four places: while it reads the request's  *)
(* body, while an upstream answers, while it answers again after an        *)
(* automatic fix, and while the reply's body is read.  Between two of them *)
(* it runs to the next without interleaving; any number of requests are    *)
(* in flight, and the group is edited and removed under them.              *)
(***************************************************************************)
EXTENDS RoutingPlan

CONSTANTS
  Reqs,         \* the requests that can be in flight at once
  Seats,        \* provider and model pairs
  DriverSeats,  \* seats served by an upstream driver instead of HTTP
  Convs,        \* conversation keys
  Configs,      \* what the group can say: [members, strategy, affinity]
  None,
  MaxSticks,    \* ROUTING_AFFINITY_MAX
  MaxAnswers,   \* bound: answers after which no request follows one that has ended
  MaxEdits,     \* bound: changes by the user (group, providers, retry now, restart)
  MaxThrows     \* bound: saves of the sticks that throw

ASSUME RoutingAssumption ==
  /\ DriverSeats \subseteq Seats
  /\ None \notin Seats \cup Convs \cup Configs
  /\ MaxSticks \in Nat
  /\ \A g \in Configs :
       /\ g \in [members : Seq(Seats), strategy : {"ordered", "rotate", "least_used"},
                 affinity : {"session", "off"}]
       /\ g.members # << >>
       /\ \A i, j \in DOMAIN g.members : g.members[i] = g.members[j] => i = j

VARIABLES
  group,        \* the routing group as its store has it, or None
  reachable,    \* seats whose provider exists and that the agent can reach
  resting,      \* cooldown: the seats whose rest has not run out
  cursor,       \* rotateCursor of the group
  ok,           \* okBySeat
  sticks,       \* conversation sticks, newest first: Seq([conv, seat])
  savedSticks,  \* the same in routing-affinity.json
  req,          \* the requests
  recorded,     \* the requests whose decision, with its trail, is in recent
  answeredBy,   \* the seat that last answered a conversation over HTTP, or None
  moved,        \* the member that answered the last request, when that request ran
                \* alone and unpinned and nobody rested; None once anything changes
  edits, throws

runtime == <<resting, cursor, ok>>
affinity == <<sticks, savedSticks, answeredBy>>
user == <<group, reachable, edits>>
vars == <<group, reachable, resting, cursor, ok, sticks, savedSticks, req, recorded,
          answeredBy, moved, edits, throws>>

(***************************************************************************)
(* The runtime and the sticks.                                             *)
(***************************************************************************)
members == Kept(group.members, {i \in DOMAIN group.members : group.members[i] \in reachable})

stickOf(c) ==
  LET mine == {i \in DOMAIN sticks : sticks[i].conv = c}
  IN IF mine = {} THEN None ELSE sticks[CHOOSE i \in mine : \A j \in mine : i =< j].seat

newest(c, seat) ==
  <<[conv |-> c, seat |-> seat]>> \o Kept(sticks, {i \in DOMAIN sticks : sticks[i].conv # c})

\* Mutant of remembered: an older stick of the conversation is left in place.
rememberedOnce(c, seat) ==
  IF stickOf(c) # None THEN sticks
  ELSE SubSeq(<<[conv |-> c, seat |-> seat]>> \o sticks, 1, MaxSticks)

\* Mutant of remembered: the sticks beyond the cap are kept.
rememberedUncapped(c, seat) == newest(c, seat)

\* remember(): the newest stick first, the oldest beyond the cap dropped.
remembered(c, seat) ==
  LET next == newest(c, seat)
  IN SubSeq(next, 1, IF Len(next) < MaxSticks THEN Len(next) ELSE MaxSticks)

plan(c) ==
  planRoutingOrder(members, group.strategy,
                   IF group.affinity = "session" /\ c # None THEN stickOf(c) ELSE None,
                   resting, ok, cursor)

(***************************************************************************)
(* A request.  trail is what handle() records, one entry per attempt.      *)
(***************************************************************************)
FailoverStatus == {"unreached", "failover"}
seat(r) == req[r].cand[req[r].at]
more(r) == req[r].at < Len(req[r].cand)
logged(r, good, status) ==
  Append(req[r].trail, [seat |-> seat(r), ok |-> good, status |-> status])

Active(r) == req[r].pc \notin {"new", "reading", "done", "stuck"}

\* The request is answered, and the finally block records the decision.
Finish(r, trail, answer) ==
  /\ req' = [req EXCEPT ![r].pc = "done", ![r].trail = trail, ![r].answer = answer,
                        ![r].solo = FALSE]
  /\ recorded' = IF trail = << >> THEN recorded ELSE recorded \cup {r}

\* What an attempt on seat s waits for first.
Begin(s) == IF s \in DriverSeats THEN "driven" ELSE "sent"

\* Mutant of FailOver: the members between the failed one and the last are skipped.
FailOverToLast(r, status) ==
  /\ req' = [req EXCEPT ![r].trail = logged(r, FALSE, status), ![r].at = Len(req[r].cand),
                        ![r].pc = Begin(Last(req[r].cand))]
  /\ UNCHANGED recorded

\* The next member is tried, and the failed one rests.
FailOver(r, status) ==
  /\ req' = [req EXCEPT ![r].trail = logged(r, FALSE, status), ![r].at = @ + 1,
                        ![r].pc = Begin(req[r].cand[req[r].at + 1])]
  /\ UNCHANGED recorded

unmade == [pc |-> "new", conv |-> None, cand |-> << >>, at |-> 0, trail |-> << >>,
           answer |-> "none", solo |-> FALSE]

answers == FoldFunction(LAMBDA n, sum : n + sum, 0, ok)

\* The request reaches the proxy: its token resolves to the group's route.
Arrive(r) ==
  /\ \/ req[r].pc = "new"
     \/ req[r].pc = "done" /\ answers < MaxAnswers
  /\ group # None
  /\ \E c \in Convs \cup {None} :
       req' = [req EXCEPT ![r] = [unmade EXCEPT !.pc = "reading", !.conv = c]]
  /\ UNCHANGED <<runtime, affinity, user, recorded, moved, throws>>

\* The body is there: plan the candidates and begin with the first.
Plan(r) ==
  /\ req[r].pc = "reading"
  /\ IF group = None \/ members = << >>
     THEN Finish(r, << >>, "unavailable")
     ELSE /\ req' = [q \in Reqs |->
                       IF q = r
                       THEN [req[r] EXCEPT !.cand = plan(req[r].conv), !.at = 1,
                                           !.pc = Begin(plan(req[r].conv)[1]),
                                           !.solo = resting = {} /\ \A p \in Reqs \ {r} : ~Active(p)]
                       ELSE [req[q] EXCEPT !.solo = FALSE]]
          /\ UNCHANGED recorded
  /\ UNCHANGED <<runtime, affinity, user, moved, throws>>

\* The upstream was not reached, or answered with an error status, to the
\* request or to its fixed form.
Fails(r, status) ==
  /\ req[r].pc \in {"sent", "fixed"}
  /\ IF more(r) /\ status \in FailoverStatus
     THEN FailOver(r, status) /\ resting' = resting \cup {seat(r)}
     ELSE Finish(r, logged(r, FALSE, status),
                 IF status \in FailoverStatus THEN "unavailable" ELSE "refused")
          /\ UNCHANGED resting
  /\ moved' = None
  /\ UNCHANGED <<cursor, ok, affinity, user, throws>>

\* Mutant of Fixes: the fixed form is fixed again, back to the first.
FixesEndlessly(r) ==
  /\ req[r].pc \in {"sent", "fixed"}
  /\ req' = [req EXCEPT ![r].pc = IF @ = "sent" THEN "fixed" ELSE "sent"]
  /\ UNCHANGED <<runtime, affinity, user, recorded, moved, throws>>

\* 400 or 422 with a body that autoFixRequest knows how to avoid.
Fixes(r) ==
  /\ req[r].pc = "sent"
  /\ req' = [req EXCEPT ![r].pc = "fixed"]
  /\ UNCHANGED <<runtime, affinity, user, recorded, moved, throws>>

\* An ok status: onSuccess() advances the rotation and pins the conversation,
\* then the reply's body is read.  When the save of the sticks throws, the
\* request ends there.
Succeeds(r) ==
  LET c == req[r].conv
      pins == group # None /\ group.affinity = "session" /\ c # None
  IN /\ req[r].pc \in {"sent", "fixed"}
     /\ ok' = [ok EXCEPT ![seat(r)] = @ + 1]
     /\ cursor' = IF group # None /\ group.strategy = "rotate"
                  THEN (cursor + 1) % Len(group.members) ELSE cursor
     /\ sticks' = IF pins THEN remembered(c, seat(r)) ELSE sticks
     /\ answeredBy' = IF c = None THEN answeredBy ELSE [answeredBy EXCEPT ![c] = seat(r)]
     /\ \/ /\ savedSticks' = IF pins THEN sticks' ELSE savedSticks
           /\ req' = [req EXCEPT ![r].pc = "body"]
           /\ UNCHANGED <<recorded, throws>>
        \/ /\ pins /\ throws < MaxThrows
           /\ throws' = throws + 1
           /\ Finish(r, req[r].trail, "broken")
           /\ UNCHANGED savedSticks
     /\ moved' = None
     /\ UNCHANGED <<resting, user>>

\* The member that a lone, unpinned request went to and got its answer from.
FirstChoice(r) ==
  IF req[r].solo /\ req[r].conv = None /\ req[r].at = 1 /\ edits = 0 THEN seat(r) ELSE None

Replied(r) ==
  /\ req[r].pc = "body"
  /\ Finish(r, logged(r, TRUE, "ok"), "reply")
  /\ moved' = FirstChoice(r)
  /\ UNCHANGED <<runtime, affinity, user, throws>>

\* The reply breaks off: a stream is ended and counted as answered, a whole
\* reply that cannot be read throws.
BreaksOff(r) ==
  /\ req[r].pc = "body"
  /\ \/ Finish(r, logged(r, TRUE, "ok"), "cut")
     \/ Finish(r, req[r].trail, "broken")
  /\ moved' = None
  /\ UNCHANGED <<runtime, affinity, user, throws>>

\* serveDriver(): the driver's answer ends the request, whatever it is.
DriverEnds(r) ==
  /\ req[r].pc = "driven"
  /\ \/ /\ Finish(r, logged(r, TRUE, "ok"), "reply")
        /\ moved' = FirstChoice(r)
     \/ /\ \/ \E status \in {"failover", "refused"} :
                Finish(r, logged(r, FALSE, status),
                       IF status = "failover" THEN "unavailable" ELSE "refused")
           \/ Finish(r, logged(r, FALSE, "ok"), "cut")
        /\ moved' = None
  /\ UNCHANGED <<runtime, affinity, user, throws>>

\* The client leaves while a write of its stream waits for the socket to drain:
\* writeBackpressured() waits on, and nothing after it is done.
Stalls(r) ==
  /\ req[r].pc \in {"body", "driven"}
  /\ req' = [req EXCEPT ![r].pc = "stuck", ![r].solo = FALSE]
  /\ moved' = None
  /\ UNCHANGED <<runtime, affinity, user, recorded, throws>>

(***************************************************************************)
(* Time and the user.                                                      *)
(***************************************************************************)
RestEnds ==
  /\ \E s \in resting : resting' = resting \ {s}
  /\ moved' = None
  /\ UNCHANGED <<cursor, ok, affinity, user, req, recorded, throws>>

\* The oldest stick has been kept for ROUTING_AFFINITY_TTL_MS; loading it from
\* the file would drop it too.
StickExpires ==
  /\ sticks # << >>
  /\ sticks' = Front(sticks)
  /\ savedSticks' = Kept(savedSticks, {i \in DOMAIN savedSticks : savedSticks[i] # Last(sticks)})
  /\ UNCHANGED <<runtime, answeredBy, user, req, recorded, moved, throws>>

Edit == edits < MaxEdits /\ edits' = edits + 1 /\ moved' = None

\* updateRoutingGroup: nothing the runtime keeps is touched.
EditGroup ==
  /\ Edit
  /\ group # None
  /\ group' \in Configs \ {group}
  /\ UNCHANGED <<runtime, affinity, reachable, req, recorded, throws>>

\* removeRoutingGroup: clearGroup drops what belongs to the group; when the save
\* of the sticks throws, the decisions stay.
RemoveGroup ==
  /\ Edit
  /\ group # None
  /\ group' = None
  /\ cursor' = 0
  /\ sticks' = << >>
  /\ \/ /\ savedSticks' = IF sticks = << >> THEN savedSticks ELSE << >>
        /\ recorded' = {}
        /\ UNCHANGED throws
     \/ /\ sticks # << >> /\ throws < MaxThrows
        /\ throws' = throws + 1
        /\ UNCHANGED <<savedSticks, recorded>>
  /\ UNCHANGED <<resting, ok, answeredBy, reachable, req>>

\* A provider is edited or removed: one seat becomes reachable or stops being.
EditProvider ==
  /\ Edit
  /\ \E s \in Seats : reachable' = IF s \in reachable THEN reachable \ {s}
                                   ELSE reachable \cup {s}
  /\ UNCHANGED <<runtime, affinity, group, req, recorded, throws>>

\* "Retry now" on a member of the group.
RetryNow ==
  /\ Edit
  /\ group # None
  /\ \E s \in resting : s \in ToSet(group.members) /\ resting' = resting \ {s}
  /\ UNCHANGED <<cursor, ok, affinity, group, reachable, req, recorded, throws>>

\* The process is started again: only the sticks were on disk.
Restart ==
  /\ Edit
  /\ resting' = {} /\ cursor' = 0 /\ ok' = [s \in Seats |-> 0]
  /\ sticks' = savedSticks
  /\ recorded' = {}
  /\ req' = [r \in Reqs |-> IF req[r].pc = "new" THEN req[r]
                            ELSE [req[r] EXCEPT !.pc = "done", !.answer = "dropped"]]
  /\ UNCHANGED <<savedSticks, answeredBy, group, reachable, throws>>

Init ==
  /\ group \in Configs
  /\ reachable = Seats
  /\ resting = {} /\ cursor = 0 /\ ok = [s \in Seats |-> 0]
  /\ sticks = << >> /\ savedSticks = << >>
  /\ req = [r \in Reqs |-> unmade]
  /\ recorded = {}
  /\ answeredBy = [c \in Convs |-> None]
  /\ moved = None
  /\ edits = 0 /\ throws = 0

Handle(r) ==
  \/ Plan(r)
  \/ \E status \in FailoverStatus \cup {"refused"} : Fails(r, status)
  \/ Fixes(r) \/ Succeeds(r)
  \/ Replied(r) \/ BreaksOff(r)
  \/ DriverEnds(r)

Next ==
  \/ \E r \in Reqs : Arrive(r) \/ Handle(r) \/ Stalls(r)
  \/ RestEnds \/ StickExpires
  \/ EditGroup \/ RemoveGroup \/ EditProvider \/ RetryNow \/ Restart

Spec == Init /\ [][Next]_vars

\* A request that has arrived goes on: its body comes, every fetch and every
\* reply ends or fails.  Nothing is assumed of new requests or of the user.
Fairness == \A r \in Reqs : WF_vars(Handle(r))
FairSpec == Spec /\ Fairness

(***************************************************************************)
(* Properties.                                                             *)
(***************************************************************************)

\* The types of the state.
TypeOK ==
  /\ group \in Configs \cup {None} /\ reachable \subseteq Seats /\ resting \subseteq Seats
  /\ cursor \in Nat /\ ok \in [Seats -> Nat]
  /\ \A stick \in ToSet(sticks) \cup ToSet(savedSticks) :
       stick \in [conv : Convs, seat : Seats]
  /\ \A r \in Reqs :
       /\ req[r].pc \in {"new", "reading", "sent", "fixed", "driven", "body", "done", "stuck"}
       /\ req[r].at \in 0..Len(req[r].cand)
       /\ ToSet(req[r].cand) \subseteq Seats

\* A client is told that no member is available only after the members of the
\* plan were tried once each, in the planned order, and failed in a way that
\* another member might not; only a member served by a driver ends the request
\* before the last one.
TriesEveryMember ==
  \A r \in Reqs : req[r].answer = "unavailable" /\ req[r].cand # << >> =>
    LET trail == req[r].trail
    IN /\ [i \in DOMAIN trail |-> trail[i].seat] = SubSeq(req[r].cand, 1, Len(trail))
       /\ \A i \in DOMAIN trail : trail[i].status \in FailoverStatus
       /\ Len(trail) = Len(req[r].cand) \/ Last(trail).seat \in DriverSeats

\* No member is left untried when the client is told that none is available
\* ("fails over to the next before any reply bytes reach the agent",
\* shared/routingGroups.ts:8).
NoMemberLeftUntried ==
  \A r \in Reqs : req[r].answer = "unavailable" => Len(req[r].trail) = Len(req[r].cand)

\* While conversations are pinned, a pinned one is pinned to the member that last
\* answered it over HTTP, however many of its requests overlapped ("A stick
\* remembers which seat last answered a conversation", sessionAffinity.ts:3; an
\* answer that a driver gave never pins).
StickIsLastAnswerer ==
  group # None /\ group.affinity = "session" /\ throws = 0 =>
    \A c \in Convs : stickOf(c) # None => stickOf(c) = answeredBy[c]

\* A conversation has one stick, in memory and on disk, and there are never more
\* than the cap.
OneStickPerConversation ==
  \A list \in {sticks, savedSticks} :
    /\ Len(list) =< MaxSticks
    /\ \A i, j \in DOMAIN list : list[i].conv = list[j].conv => i = j

\* A request begins with a resting member only when all of them rest, pinned
\* or not ("a resting seat is tried last", cooldown.ts:3).
Starts(r) == req[r].pc = "reading" /\ req'[r].pc \in {"sent", "driven"}
RestingTriedLast ==
  [][\A r \in Reqs : Starts(r) /\ req'[r].cand[1] \in resting =>
       ToSet(members) \subseteq resting]_vars

\* With rotate, two requests that follow each other with nothing in between
\* begin with different members.
RotateMovesOn ==
  [][\A r \in Reqs :
       /\ Starts(r) /\ req[r].conv = None /\ moved # None
       /\ group.strategy = "rotate" /\ Len(members) > 1 /\ members = group.members
       /\ resting = {}
       => req'[r].cand[1] # moved]_vars

\* A request that reached the proxy ends, with a reply or an error, as long as
\* every fetch ends one way or the other, and unless its client left while a write
\* to it was waiting.
EveryRequestEnds == \A r \in Reqs : req[r].pc = "reading" ~> req[r].pc \in {"done", "stuck"}

\* The state of the routing keeps its types, and the list of sticks its form.
SticksSound == TypeOK /\ OneStickPerConversation
=============================================================================
