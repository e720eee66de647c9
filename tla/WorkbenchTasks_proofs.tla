------------------------ MODULE WorkbenchTasks_proofs ------------------------
(* What holds on every board of the workbench, however many tasks, slots, calls  *)
(* and workspaces there are: its types, that the graph of dependencies has no    *)
(* cycle and no loose end, that an approved plan goes on by itself, and that a   *)
(* task that ended stays ended.                                                  *)
EXTENDS WorkbenchTasks, FiniteSetTheorems, TLAPS

-----------------------------------------------------------------------------
(* The inductive invariant.                                                    *)

Boards == [Tasks -> [status : Live \cup Launchable \cup {"absent"},
                     deps : SUBSET Tasks, space : Spaces \cup {NoSpace}, agent : BOOLEAN]]

FlightTypes == [pc : {"none", "create", "made", "start", "prompt", "discard", "abandon"},
                space : Spaces \cup {NoSpace}, fresh : BOOLEAN]
CallTypes == [pc : {"none", "tail", "close", "send", "git"},
              kind : {"none", "complete", "stop", "message", "remove"},
              task : Tasks \cup {NoTask}, space : Spaces \cup {NoSpace}]
PollTypes == [pc : {"idle", "sweep", "list", "rows"}, held : SUBSET Spaces, watched : SUBSET Tasks,
              rows : SUBSET Tasks, count : 0 .. SweepEvery]

Running(f) == flight[f].pc # "none"
Planned == {"proposed", "approved"}

(* A task that is only proposed or approved was never launched: no launch is      *)
(* under way for it, and no call but its removal is.                            *)
Unlaunched(b, l) ==
    \A t \in Tasks : b[t].status \in Planned =>
        /\ t \notin l
        /\ \A f \in Flights : f[1] = t => ~Running(f)
Uncalled(b) ==
    \A t \in Tasks : b[t].status \in Planned =>
        \A c \in Calls : call[c].task = t => call[c].pc \in {"none", "git"}

(* A call in flight is about a task.                                            *)
Named == \A c \in Calls : call[c].pc # "none" => call[c].task \in Tasks

(* What launchTask has under way, runLaunch runs for.                           *)
Flying(l) == \A t \in l : \E f \in Flights : f[1] = t /\ Running(f)

(* No approved task waits beside a free slot, unless a step that will advance     *)
(* the plan is still to come: the sweep of start(), or a workspace that closes.  *)
Advancing ==
    ~lostSlot /\ ~booting /\ (\A c \in Calls : call[c].pc # "close") => \A t \in Tasks : ~Waiting(t)

(* The graph of a board: no cycle, and no edge to a task that is not there.      *)
Acyclic(b) == \A t \in Tasks : ~Reaches(Edges(b), t, t)
NoLooseEnd(b) == \A t \in Tasks : \A d \in b[t].deps : b[d].status # "absent"
Graph(b) == Acyclic(b) /\ NoLooseEnd(b)

IInv ==
    /\ TypeOK
    /\ Graph(task)
    /\ Unlaunched(task, launching)
    /\ Uncalled(task)
    /\ Named
    /\ Flying(launching)
    /\ Advancing

FlightsOK == flight \in [Flights -> FlightTypes]
CallsOK == call \in [Calls -> CallTypes]
RestOK ==
    /\ up \in {"stopped", "starting", "ready", "stopping", "error"}
    /\ herdr \in BOOLEAN
    /\ booting \in BOOLEAN
    /\ held \subseteq Spaces
    /\ server \in BOOLEAN
    /\ launching \subseteq Tasks
    /\ lostSlot \in BOOLEAN
    /\ events \in 0 .. MaxEvents
SpacesOK == space \in [Spaces -> [of : Tasks \cup {NoTask}, worker : BOOLEAN]]

LEMMA TypeParts ==
    TypeOK <=> task \in Boards /\ FlightsOK /\ CallsOK /\ RestOK /\ SpacesOK /\ poll \in PollTypes
BY DEF TypeOK, Boards, FlightsOK, FlightTypes, CallsOK, CallTypes, RestOK, SpacesOK, PollTypes

LEMMA TypePartsNext ==
    ASSUME task' \in Boards, FlightsOK', CallsOK', RestOK', SpacesOK', poll' \in PollTypes
    PROVE  TypeOK'
BY DEF TypeOK, Boards, FlightsOK, FlightTypes, CallsOK, CallTypes, RestOK, SpacesOK, PollTypes

-----------------------------------------------------------------------------
(* Reachability.                                                               *)

(* What is reached is a closed set, and it holds what x leads to.               *)
ReachOf(E, x) == {z \in Tasks : Reaches(E, x, z)}

LEMMA ReachOfClosed ==
    ASSUME NEW E, NEW x \in Tasks
    PROVE  /\ ReachOf(E, x) \in SUBSET Tasks
           /\ ClosedUnder(E, ReachOf(E, x))
           /\ \A y \in Tasks : <<x, y>> \in E => y \in ReachOf(E, x)
<1>1. ReachOf(E, x) \in SUBSET Tasks
  BY DEF ReachOf
<1>2. ASSUME NEW y \in ReachOf(E, x), NEW z \in Tasks, <<y, z>> \in E PROVE z \in ReachOf(E, x)
  <2>1. SUFFICES ASSUME NEW C \in SUBSET Tasks, ClosedUnder(E, C), \A u \in Tasks : <<x, u>> \in E => u \in C
                 PROVE  z \in C
    BY DEF ReachOf, Reaches
  <2>2. y \in C
    BY <2>1 DEF ReachOf, Reaches
  <2> QED
    BY <1>2, <2>1, <2>2 DEF ClosedUnder
<1>3. ASSUME NEW y \in Tasks, <<x, y>> \in E PROVE y \in ReachOf(E, x)
  BY <1>3 DEF ReachOf, Reaches
<1> QED
  BY <1>1, <1>2, <1>3 DEF ClosedUnder

(* It is the least such set.                                                   *)
LEMMA ReachOfLeast ==
    ASSUME NEW E, NEW x \in Tasks, NEW C \in SUBSET Tasks, ClosedUnder(E, C),
           \A y \in Tasks : <<x, y>> \in E => y \in C
    PROVE  ReachOf(E, x) \subseteq C
BY DEF ReachOf, Reaches

(* With fewer edges less is reached.                                            *)
LEMMA FewerEdges ==
    ASSUME NEW E, NEW D, D \subseteq E, NEW x \in Tasks, NEW z \in Tasks, ~Reaches(E, x, z)
    PROVE  ~Reaches(D, x, z)
<1>1. PICK C \in SUBSET Tasks : ClosedUnder(E, C) /\ (\A y \in Tasks : <<x, y>> \in E => y \in C) /\ z \notin C
  BY DEF Reaches
<1>2. ClosedUnder(D, C) /\ (\A y \in Tasks : <<x, y>> \in D => y \in C)
  BY <1>1 DEF ClosedUnder
<1> QED
  BY <1>1, <1>2 DEF Reaches

(* The edges of one task are replaced: when none of the new ones leads back to    *)
(* it, a graph without a cycle stays one.                                       *)
LEMMA NewEdges ==
    ASSUME NEW E, NEW D, NEW t \in Tasks,
           \A x \in Tasks \ {t}, y \in Tasks : <<x, y>> \in D <=> <<x, y>> \in E,
           \A x \in Tasks : ~Reaches(E, x, x),
           \A d \in Tasks : <<t, d>> \in D => d # t /\ ~Reaches(D, d, t)
    PROVE  \A x \in Tasks : ~Reaches(D, x, x)
<1> DEFINE Next1 == {d \in Tasks : <<t, d>> \in D}
           A == {z \in Tasks : z \in Next1 \/ \E d \in Next1 : z \in ReachOf(D, d)}
<1>1. A \in SUBSET Tasks /\ t \notin A
  BY DEF ReachOf
<1>2. ASSUME NEW y \in A, NEW z \in Tasks, <<y, z>> \in D PROVE z \in A
  <2>1. CASE y \in Next1
    BY <1>2, <2>1, ReachOfClosed
  <2>2. CASE \E d \in Next1 : y \in ReachOf(D, d)
    <3>1. PICK d \in Next1 : y \in ReachOf(D, d)
      BY <2>2
    <3>2. z \in ReachOf(D, d)
      BY <1>2, <3>1, ReachOfClosed DEF ClosedUnder
    <3> QED
      BY <3>1, <3>2
  <2> QED
    BY <2>1, <2>2
<1>3. ClosedUnder(D, A)
  BY <1>2 DEF ClosedUnder
<1>4. SUFFICES ASSUME NEW x \in Tasks PROVE ~Reaches(D, x, x)
  OBVIOUS
<1>5. CASE x = t
  BY <1>1, <1>3, <1>5 DEF Reaches
<1>6. CASE x # t
  <2> DEFINE B == ReachOf(E, x)
  <2>1. B \in SUBSET Tasks /\ ClosedUnder(E, B) /\ (\A y \in Tasks : <<x, y>> \in E => y \in B) /\ x \notin B
    <3>1. x \notin B
      BY DEF ReachOf
    <3> QED
      BY <3>1, ReachOfClosed
  <2>2. CASE t \notin B
    <3>1. ClosedUnder(D, B) /\ \A y \in Tasks : <<x, y>> \in D => y \in B
      BY <1>6, <2>1, <2>2 DEF ClosedUnder
    <3> QED
      BY <2>1, <3>1 DEF Reaches
  <2>3. CASE t \in B /\ x \notin A
    <3> DEFINE C == A \cup B
    <3>1. C \in SUBSET Tasks /\ x \notin C
      BY <1>1, <2>1, <2>3
    <3>2. ASSUME NEW y \in C, NEW z \in Tasks, <<y, z>> \in D PROVE z \in C
      <4>1. CASE y = t
        BY <3>2, <4>1
      <4>2. CASE y \in A
        BY <1>2, <3>2, <4>2
      <4>3. CASE y # t /\ y \in B
        BY <2>1, <3>2, <4>3 DEF ClosedUnder
      <4> QED
        BY <3>2, <4>1, <4>2, <4>3
    <3>3. \A y \in Tasks : <<x, y>> \in D => y \in C
      BY <1>6, <2>1
    <3> HIDE DEF C
    <3>4. ClosedUnder(D, C)
      BY <3>2 DEF ClosedUnder
    <3> QED
      BY <3>1, <3>3, <3>4 DEF Reaches
  <2>4. CASE t \in B /\ x \in A
    (* Then x leads to t by edges out of A, which does not hold t.               *)
    <3> DEFINE C == A \cap B
    <3>1. C \in SUBSET Tasks /\ t \notin C
      BY <1>1
    <3>2. ASSUME NEW y \in C, NEW z \in Tasks, <<y, z>> \in E PROVE z \in C
      <4>1. y \in Tasks /\ y # t /\ <<y, z>> \in D
        BY <1>1, <3>2
      <4> QED
        BY <1>2, <2>1, <3>2, <4>1 DEF ClosedUnder
    <3>3. ASSUME NEW y \in Tasks, <<x, y>> \in E PROVE y \in C
      <4>1. <<x, y>> \in D
        BY <1>6, <3>3
      <4> QED
        BY <1>2, <2>1, <2>4, <3>3, <4>1
    <3> HIDE DEF C
    <3>4. ClosedUnder(E, C)
      BY <3>2 DEF ClosedUnder
    <3>5. B \subseteq C
      BY <3>1, <3>3, <3>4, ReachOfLeast
    <3> QED
      BY <2>4, <3>1, <3>5
  <2> QED
    BY <2>2, <2>3, <2>4
<1> QED
  BY <1>5, <1>6

-----------------------------------------------------------------------------
(* The graph, as the board changes.                                            *)

(* A task may lose edges, and none disappears.                                  *)
LEMMA GraphKept ==
    ASSUME NEW b \in Boards, NEW e \in Boards, Graph(b),
           \A t \in Tasks : e[t].deps \subseteq b[t].deps,
           \A t \in Tasks : e[t].status = "absent" => b[t].status = "absent"
    PROVE  Graph(e)
<1>1. Edges(e) \subseteq Edges(b)
  BY DEF Edges
<1>2. Acyclic(e)
  BY <1>1, FewerEdges DEF Graph, Acyclic
<1>3. NoLooseEnd(e)
  BY DEF Graph, NoLooseEnd, Boards
<1> QED
  BY <1>2, <1>3 DEF Graph

(* A task goes, and the edges to it with it.                                    *)
LEMMA GraphPruned ==
    ASSUME NEW b \in Boards, NEW e \in Boards, NEW t, Graph(b),
           \A u \in Tasks : e[u].deps \subseteq b[u].deps \ {t},
           \A u \in Tasks \ {t} : e[u].status = "absent" => b[u].status = "absent"
    PROVE  Graph(e)
<1>1. Edges(e) \subseteq Edges(b)
  BY DEF Edges
<1>2. Acyclic(e)
  BY <1>1, FewerEdges DEF Graph, Acyclic
<1>3. NoLooseEnd(e)
  BY DEF Graph, NoLooseEnd, Boards
<1> QED
  BY <1>2, <1>3 DEF Graph

(* The dependencies of one task are replaced by others that are there and do not  *)
(* lead back to it.                                                             *)
LEMMA GraphEdited ==
    ASSUME NEW b \in Boards, NEW e \in Boards, NEW t \in Tasks, Graph(b),
           \A u \in Tasks \ {t} : e[u].deps = b[u].deps,
           \A u \in Tasks : e[u].status = "absent" => b[u].status = "absent",
           \A d \in e[t].deps : e[d].status # "absent" /\ d # t /\ ~Reaches(Edges(e), d, t)
    PROVE  Graph(e)
<1>1. \A x \in Tasks \ {t}, y \in Tasks : <<x, y>> \in Edges(e) <=> <<x, y>> \in Edges(b)
  BY DEF Edges
<1>2. \A d \in Tasks : <<t, d>> \in Edges(e) => d # t /\ ~Reaches(Edges(e), d, t)
  BY DEF Edges
<1>3. Acyclic(e)
  BY <1>1, <1>2, NewEdges DEF Graph, Acyclic
<1>4. NoLooseEnd(e)
  <2>1. SUFFICES ASSUME NEW u \in Tasks, NEW d \in e[u].deps PROVE e[d].status # "absent"
    BY DEF NoLooseEnd
  <2>2. CASE u # t
    BY <2>2 DEF Graph, NoLooseEnd, Boards
  <2> QED
    BY <2>2
<1> QED
  BY <1>3, <1>4 DEF Graph

(* A task on which nothing depends cannot be reached.                           *)
LEMMA NothingLeadsTo ==
    ASSUME NEW E, NEW t \in Tasks, NEW d \in Tasks, \A x \in Tasks : <<x, t>> \notin E
    PROVE  ~Reaches(E, d, t)
<1> DEFINE C == Tasks \ {t}
<1>1. C \in SUBSET Tasks /\ t \notin C /\ \A y \in Tasks : <<d, y>> \in E => y \in C
  OBVIOUS
<1>2. ClosedUnder(E, C)
  BY DEF ClosedUnder
<1> QED
  BY <1>1, <1>2 DEF Reaches

-----------------------------------------------------------------------------
(* Slots.                                                                      *)

LEMMA LiveFinite ==
    ASSUME NEW b PROVE IsFiniteSet(LiveTasks(b)) /\ Cardinality(LiveTasks(b)) \in Nat
BY BoundsAssumption, FS_Subset, FS_CardinalityType DEF LiveTasks

LEMMA RoomShrinks ==
    ASSUME NEW b, NEW e, LiveTasks(b) \subseteq LiveTasks(e), Room(e) > 0
    PROVE  Room(b) > 0
BY LiveFinite, FS_Subset, BoundsAssumption DEF Room

LEMMA RoomFilled ==
    ASSUME NEW b, NEW e, NEW S \in SUBSET Tasks, S \cap LiveTasks(b) = {},
           LiveTasks(e) = LiveTasks(b) \cup S, Cardinality(S) = Room(b)
    PROVE  Room(e) = 0
<1>1. /\ IsFiniteSet(S) /\ Cardinality(S) \in Nat
      /\ IsFiniteSet(LiveTasks(b)) /\ Cardinality(LiveTasks(b)) \in Nat
  BY LiveFinite, BoundsAssumption, FS_Subset, FS_CardinalityType
<1>2. Cardinality(LiveTasks(b) \cap S) = 0
  <2>1. LiveTasks(b) \cap S = {}
    OBVIOUS
  <2> QED
    BY <2>1, FS_EmptySet
<1>3. Cardinality(LiveTasks(b) \cup S) = Cardinality(LiveTasks(b)) + Cardinality(S) - Cardinality(LiveTasks(b) \cap S)
  BY <1>1, FS_Union
<1>4. Cardinality(LiveTasks(e)) = Cardinality(LiveTasks(b)) + Room(b)
  BY <1>1, <1>2, <1>3
<1> QED
  BY <1>1, <1>4, BoundsAssumption DEF Room

-----------------------------------------------------------------------------
(* Launching.                                                                  *)

(* What launchTask does for the tasks of S, to board b with l under way.         *)
Launched(b, l, S) ==
    /\ task' \in Boards /\ launching' = l \cup S /\ flight' \in [Flights -> FlightTypes]
    /\ \A t \in Tasks :
         /\ task'[t].deps = b[t].deps
         /\ task'[t].space = b[t].space
         /\ task'[t].status = IF t \in S THEN "starting" ELSE b[t].status
    /\ \A f \in Flights : f[1] \notin S => flight'[f] = flight[f]
    /\ \A f \in Flights : flight[f].pc # "none" => flight'[f].pc # "none"
    /\ \A t \in S : \E f \in Flights : f[1] = t /\ flight'[f].pc # "none"

LEMMA LaunchAllBoard ==
    ASSUME flight \in [Flights -> FlightTypes],
           NEW b \in Boards, NEW l \in SUBSET Tasks, NEW S \in SUBSET Tasks, LaunchAll(S, b, l),
           \A t \in S : FreeFlights(t) # {}
    PROVE  Launched(b, l, S)
<1> DEFINE Chosen(t) == CHOOSE g \in FreeFlights(t) : TRUE
<1>1. \A t \in S : /\ Chosen(t) \in Flights
                   /\ Chosen(t)[1] = t
                   /\ flight[Chosen(t)].pc = "none"
  BY DEF FreeFlights
<1>2. task' = [t \in Tasks |-> IF t \in S THEN [b[t] EXCEPT !.status = "starting"] ELSE b[t]]
  BY DEF LaunchAll
<1>3. launching' = l \cup S
  BY DEF LaunchAll
<1>4. flight' = [f \in Flights |-> IF f[1] \in S /\ f = Chosen(f[1])
                                   THEN [pc |-> "create", space |-> NoSpace, fresh |-> TRUE] ELSE flight[f]]
  BY DEF LaunchAll
<1> HIDE DEF Chosen
<1>5. task' \in Boards
  BY <1>2 DEF Boards, Live
<1>6. \A t \in Tasks :
        /\ task'[t].deps = b[t].deps
        /\ task'[t].space = b[t].space
        /\ task'[t].status = IF t \in S THEN "starting" ELSE b[t].status
  BY <1>2 DEF Boards
<1>7. flight' \in [Flights -> FlightTypes]
  BY <1>4 DEF FlightTypes
<1>8. \A f \in Flights : /\ f[1] \notin S => flight'[f] = flight[f]
                         /\ flight[f].pc # "none" => flight'[f].pc # "none"
  BY <1>1, <1>4
<1>9. \A t \in S : flight'[Chosen(t)].pc # "none"
  BY <1>1, <1>4
<1> QED
  BY <1>1, <1>3, <1>5, <1>6, <1>7, <1>8, <1>9 DEF Launched

(* What advance does: the graph is kept, what is under way is flown for, and no   *)
(* approved task waits beside a free slot any more.                             *)
Advanced(b) ==
    /\ task' \in Boards /\ launching' \in SUBSET Tasks /\ flight' \in [Flights -> FlightTypes]
    /\ lostSlot' = FALSE
    /\ Graph(b) => Graph(task')
    /\ Unlaunched(task, launching)'
    /\ Flying(launching)'
    /\ \A t \in Tasks : ~Waiting(t)'
    /\ \A t \in Tasks :
         \/ task'[t].status = b[t].status
         \/ b[t].status = "approved" /\ task'[t].status = "starting" /\ t \in launching'

LEMMA AdvanceSound ==
    ASSUME flight \in [Flights -> FlightTypes],
           NEW b \in Boards, NEW l \in SUBSET Tasks, Advance(b, l),
           Unlaunched(b, l), Flying(l), up' = up, herdr' = herdr
    PROVE  Advanced(b)
<1> DEFINE ready == {t \in Tasks : b[t].status = "approved" /\ CanLaunch(b, l, t)}
<1>1. PICK S \in SUBSET ready : /\ S = ready \/ Cardinality(S) = Room(b)
                                /\ LaunchAll(S, b, l)
                                /\ lostSlot' = FALSE
  BY DEF Advance
<1>2. S \in SUBSET Tasks /\ \A t \in S : b[t].status = "approved" /\ FreeFlights(t) # {}
  BY DEF CanLaunch
<1>3. Launched(b, l, S)
  BY <1>1, <1>2, LaunchAllBoard
<1>4. Graph(b) => Graph(task')
  <2>1. \A t \in Tasks : task'[t].status = "absent" => b[t].status = "absent"
    BY <1>2, <1>3 DEF Launched
  <2> QED
    BY <1>3, <2>1, GraphKept DEF Launched
<1>5. Unlaunched(task, launching)'
  <2>1. SUFFICES ASSUME NEW t \in Tasks, task'[t].status \in Planned
                 PROVE  t \notin launching' /\ \A f \in Flights : f[1] = t => flight'[f].pc = "none"
    BY DEF Unlaunched, Running
  <2>2. t \notin S /\ b[t].status \in Planned
    BY <1>3, <2>1 DEF Launched, Planned
  <2> QED
    BY <1>3, <2>2 DEF Launched, Unlaunched, Running
<1>6. Flying(launching)'
  BY <1>3 DEF Flying, Launched, Running
<1>7. ASSUME NEW t \in Tasks, Waiting(t)' PROVE FALSE
  <2>1. /\ task'[t].status = "approved" /\ up = "ready" /\ herdr /\ t \notin launching'
        /\ Room(task') > 0 /\ DependenciesMet(task', t)
    BY <1>7 DEF Waiting, CanLaunch
  <2>2. t \notin S /\ b[t].status = "approved" /\ t \notin l
    BY <1>3, <2>1 DEF Launched
  <2>3. LiveTasks(task') = LiveTasks(b) \cup S /\ S \cap LiveTasks(b) = {}
    BY <1>2, <1>3 DEF LiveTasks, Live, Launched
  <2>4. Cardinality(S) # Room(b)
    BY <1>2, <2>1, <2>3, RoomFilled
  <2>5. Room(b) > 0
    BY <2>1, <2>3, RoomShrinks
  <2>6. DependenciesMet(b, t)
    BY <1>2, <1>3, <2>1 DEF DependenciesMet, Boards, Launched
  <2>7. FreeFlights(t) # {}
    <3>1. <<t, 1>> \in Flights /\ flight[<<t, 1>>].pc = "none"
      BY <2>2 DEF Unlaunched, Planned, Flights, Running
    <3> QED
      BY <3>1 DEF FreeFlights
  <2>8. t \in ready
    BY <2>1, <2>2, <2>5, <2>6, <2>7 DEF CanLaunch, Launchable
  <2> QED
    BY <1>1, <2>2, <2>4, <2>8
<1> QED
  BY <1>1, <1>2, <1>3, <1>4, <1>5, <1>6, <1>7 DEF Advanced, Launched

(* Nor does any when nothing has ended, been added or been unblocked.            *)
LEMMA NobodyNewWaits ==
    ASSUME task \in Boards, task' \in Boards, Unlaunched(task, launching), up' = up, herdr' = herdr,
           \A t \in Tasks :
             /\ task'[t].status = "approved" => task[t].status = "approved" /\ task'[t].deps = task[t].deps
             /\ task'[t].status = "done" => task[t].status = "done"
             /\ task[t].status \in Live => task'[t].status \in Live,
           NEW t \in Tasks, Waiting(t)'
    PROVE  Waiting(t)
<1>1. /\ task'[t].status = "approved" /\ up = "ready" /\ herdr
      /\ Room(task') > 0 /\ DependenciesMet(task', t)
  BY DEF Waiting, CanLaunch
<1>2. task[t].status = "approved" /\ t \notin launching /\ \A f \in Flights : f[1] = t => flight[f].pc = "none"
  BY <1>1 DEF Unlaunched, Planned, Running
<1>3. LiveTasks(task) \subseteq LiveTasks(task')
  BY DEF LiveTasks
<1>4. Room(task) > 0
  BY <1>1, <1>3, RoomShrinks
<1>5. DependenciesMet(task, t)
  BY <1>1 DEF DependenciesMet, Boards
<1>6. <<t, 1>> \in FreeFlights(t)
  BY <1>2 DEF FreeFlights, Flights
<1> QED
  BY <1>1, <1>2, <1>4, <1>5, <1>6 DEF Waiting, CanLaunch, Launchable
-----------------------------------------------------------------------------
(* Steps that put nothing new on the board.                                    *)

(* No task becomes planned or disappears; nothing takes off for it, and what       *)
(* still counts as under way is still flown for; a call begins only for a task     *)
(* that has been launched.                                                      *)
Calm ==
    /\ \A t \in Tasks :
         /\ task'[t].deps = task[t].deps
         /\ task'[t].status = "absent" => task[t].status = "absent"
         /\ task'[t].status \in Planned => task'[t].status = task[t].status
    /\ launching' \subseteq launching
    /\ \A f \in Flights : Running(f)' => Running(f)
    /\ \A f \in Flights : f[1] \in launching' /\ Running(f) => Running(f)'
    /\ \A c \in Calls :
         \/ call'[c] = call[c]
         \/ call'[c].pc = "none"
         \/ /\ call'[c].task \in Tasks
            /\ call'[c].pc = "git" \/ task'[call'[c].task].status \notin Planned

LEMMA CalmKeeps ==
    ASSUME IInv, TypeOK', Calm, Advancing' PROVE IInv'
<1>1. task \in Boards /\ task' \in Boards
  BY DEF IInv, TypeOK, Boards
<1>2. Graph(task)'
  <2>1. Graph(task')
    BY <1>1, GraphKept DEF IInv, Calm
  <2> QED
    BY <2>1 DEF Graph, Acyclic, NoLooseEnd, Edges
<1>3. Unlaunched(task, launching)'
  BY DEF IInv, Unlaunched, Calm
<1>4. Uncalled(task)'
  BY DEF IInv, Uncalled, Calm
<1>5. Flying(launching)'
  BY DEF IInv, Flying, Calm
<1>6. Named'
  BY DEF IInv, Named, Calm
<1> QED
  BY <1>2, <1>3, <1>4, <1>5, <1>6 DEF IInv

(* No slot is freed, nothing is unblocked, and what will advance the plan is still  *)
(* to come.                                                                     *)
Steady ==
    /\ up' = up /\ herdr' = herdr
    /\ booting => booting'
    /\ lostSlot => lostSlot'
    /\ \A c \in Calls : call[c].pc = "close" => call'[c].pc = "close"
    /\ \A t \in Tasks :
         /\ task'[t].status = "done" => task[t].status = "done"
         /\ task[t].status \in Live => task'[t].status \in Live

LEMMA SteadyKeeps ==
    ASSUME IInv, TypeOK', Calm, Steady PROVE IInv'
<1>1. task \in Boards /\ task' \in Boards
  BY DEF IInv, TypeOK, Boards
<1>2. \A t \in Tasks :
        /\ task'[t].status = "approved" => task[t].status = "approved" /\ task'[t].deps = task[t].deps
        /\ task'[t].status = "done" => task[t].status = "done"
        /\ task[t].status \in Live => task'[t].status \in Live
  BY DEF Calm, Steady, Planned
<1>3. \A t \in Tasks : Waiting(t)' => Waiting(t)
  BY <1>1, <1>2, NobodyNewWaits DEF IInv, Steady
<1>4. Advancing'
  BY <1>3 DEF IInv, Advancing, Steady
<1> QED
  BY <1>4, CalmKeeps

(* A workbench that is not ready launches nothing.                              *)
LEMMA NotReadyAdvancing ==
    ASSUME up' # "ready" \/ herdr' = FALSE \/ booting' = TRUE \/ lostSlot' = TRUE
           \/ \E c \in Calls : call'[c].pc = "close"
    PROVE  Advancing'
BY DEF Advancing, Waiting, CanLaunch

(* A step that ends with advance: what is left to see is that the board it is      *)
(* given is sound, and that no call is about a task nobody has launched.         *)
LEMMA AdvanceKeeps ==
    ASSUME IInv, NEW b \in Boards, Advance(b, launching), Graph(b), Unlaunched(b, launching),
           \A t \in Tasks : b[t].status \in Planned =>
               \A c \in Calls : call'[c].task = t => call'[c].pc \in {"none", "git"},
           up' = up, herdr' = herdr, booting' \in BOOLEAN, server' \in BOOLEAN, held' \subseteq Spaces,
           SpacesOK', CallsOK', Named', poll' \in PollTypes, events' \in 0 .. MaxEvents
    PROVE  IInv' /\ Advanced(b)
<1>1. /\ task \in Boards /\ FlightsOK /\ RestOK
      /\ Flying(launching)
  BY TypeParts DEF IInv
<1>2. Advanced(b)
  BY <1>1, AdvanceSound DEF FlightsOK, RestOK
<1>3. TypeOK'
  <2>1. FlightsOK' /\ RestOK' /\ task' \in Boards
    BY <1>1, <1>2 DEF FlightsOK, RestOK, Advanced
  <2> QED
    BY <2>1, TypePartsNext
<1>4. Uncalled(task)'
  BY <1>2 DEF Uncalled, Advanced, Planned
<1>5. Advancing'
  BY <1>2 DEF Advancing, Advanced
<1>6. Graph(task)'
  BY <1>2 DEF Advanced, Graph, Acyclic, NoLooseEnd, Edges
<1> QED
  BY <1>2, <1>3, <1>4, <1>5, <1>6 DEF IInv, Advanced

(* Nobody is planned who was not.                                               *)
LEMMA EndKeeps ==
    ASSUME IInv, NEW b \in Boards, Advance(b, launching), Graph(b),
           \A t \in Tasks : b[t].status \in Planned => task[t].status \in Planned,
           \A c \in Calls : call'[c] = call[c] \/ call'[c].pc = "none",
           up' = up, herdr' = herdr, booting' \in BOOLEAN, server' \in BOOLEAN, held' \subseteq Spaces,
           SpacesOK', CallsOK', poll' \in PollTypes, events' \in 0 .. MaxEvents
    PROVE  IInv' /\ Advanced(b)
<1>1. Unlaunched(b, launching)
  BY DEF IInv, Unlaunched
<1>2. \A t \in Tasks : b[t].status \in Planned =>
        \A c \in Calls : call'[c].task = t => call'[c].pc \in {"none", "git"}
  BY DEF IInv, Uncalled
<1>3. Named'
  BY DEF IInv, Named
<1> QED
  BY <1>1, <1>2, <1>3, AdvanceKeeps

-----------------------------------------------------------------------------
(* What the parts of a step do to the flights and the calls.                    *)

LEMMA SpaceClosed ==
    ASSUME SpacesOK, NEW s, space' = [space EXCEPT ![s] = Closed] \/ space' = space
    PROVE  SpacesOK'
<1> DEFINE T == [of : Tasks \cup {NoTask}, worker : BOOLEAN]
<1>1. Closed \in T /\ space \in [Spaces -> T]
  BY DEF Closed, SpacesOK
<1> HIDE DEF T
<1>2. space' \in [Spaces -> T]
  BY <1>1
<1> QED
  BY <1>2 DEF SpacesOK, T

LEMMA FlightTask == ASSUME NEW f \in Flights PROVE f[1] \in Tasks
BY DEF Flights

LEMMA FlightSet ==
    ASSUME FlightsOK, NEW f \in Flights,
           NEW pc \in {"create", "made", "start", "prompt", "discard", "abandon"},
           NEW s \in Spaces \cup {NoSpace}, SetFlight(f, pc, s)
    PROVE  /\ FlightsOK'
           /\ flight'[f].pc = pc
           /\ \A g \in Flights \ {f} : flight'[g] = flight[g]
<1> HIDE DEF Flights
<1>1. flight' = [flight EXCEPT ![f] = [flight[f] EXCEPT !.pc = pc, !.space = s]]
  BY DEF SetFlight, FlightsOK, FlightTypes
<1> QED
  BY <1>1 DEF FlightsOK, FlightTypes

LEMMA FlightEnded ==
    ASSUME FlightsOK, NEW f \in Flights, EndFlight(f)
    PROVE  /\ FlightsOK'
           /\ flight'[f].pc = "none"
           /\ \A g \in Flights \ {f} : flight'[g] = flight[g]
           /\ launching' = launching \ {f[1]}
BY DEF EndFlight, FlightsOK, FlightTypes, NoFlight

LEMMA CallEnded ==
    ASSUME CallsOK, NEW c \in Calls, EndCall(c)
    PROVE  /\ CallsOK'
           /\ call'[c].pc = "none"
           /\ \A d \in Calls \ {c} : call'[d] = call[d]
BY DEF EndCall, CallsOK, CallTypes, NoCall

LEMMA CallRequested ==
    ASSUME CallsOK, NEW kind \in {"complete", "stop", "message", "remove"}, NEW t \in Tasks,
           NEW pc \in {"tail", "send", "git"}, Request(kind, t, pc)
    PROVE  /\ CallsOK'
           /\ \E c \in Calls :
                /\ call[c].pc = "none" /\ call'[c].pc = pc /\ call'[c].task = t
                /\ \A d \in Calls \ {c} : call'[d] = call[d]
<1>1. PICK c \in Calls : Free(c) /\ call' = [call EXCEPT ![c] = [pc |-> pc, kind |-> kind, task |-> t, space |-> NoSpace]]
  BY DEF Request
<1>2. CallsOK'
  BY <1>1 DEF CallsOK, CallTypes
<1>3. /\ call[c].pc = "none" /\ call'[c].pc = pc /\ call'[c].task = t
      /\ \A d \in Calls \ {c} : call'[d] = call[d]
  BY <1>1 DEF Free, CallsOK
<1> QED
  BY <1>2, <1>3

-----------------------------------------------------------------------------
(* runLaunch.                                                                  *)

LEMMA FlightCreatedSound == ASSUME IInv, NEW f \in Flights, FlightCreated(f) PROVE IInv'
<1>0. /\ task \in Boards /\ FlightsOK /\ CallsOK /\ RestOK /\ SpacesOK /\ poll \in PollTypes
      /\ f[1] \in Tasks
  BY TypeParts, FlightTask DEF IInv
<1>1. flight[f].pc = "create" /\ UNCHANGED <<up, herdr, booting, held, server, task, launching, call, poll, lostSlot, events>>
  BY DEF FlightCreated
<1>2. PICK s \in Spaces : space' = [space EXCEPT ![s].of = f[1]] /\ SetFlight(f, "made", s)
  BY DEF FlightCreated
<1>3. FlightsOK' /\ flight'[f].pc = "made" /\ \A g \in Flights \ {f} : flight'[g] = flight[g]
  BY <1>0, <1>2, FlightSet
<1>4. TypeOK'
  <2>1. SpacesOK'
    BY <1>0, <1>2 DEF SpacesOK
  <2>2. CallsOK' /\ RestOK' /\ task' \in Boards /\ poll' \in PollTypes
    BY <1>0, <1>1 DEF CallsOK, RestOK
  <2> QED
    BY <1>3, <2>1, <2>2, TypePartsNext
<1>5. Calm
  BY <1>1, <1>3 DEF Calm, Running
<1>6. Steady
  BY <1>1 DEF Steady
<1> QED
  BY <1>4, <1>5, <1>6, SteadyKeeps

LEMMA FlightRecordsSound == ASSUME IInv, NEW f \in Flights, FlightRecords(f) PROVE IInv'
<1>0. /\ task \in Boards /\ FlightsOK /\ CallsOK /\ RestOK /\ SpacesOK /\ poll \in PollTypes
      /\ f[1] \in Tasks
  BY TypeParts, FlightTask DEF IInv
<1>1. /\ flight[f].pc = "made" /\ SetFlight(f, "start", flight[f].space)
      /\ task' = [task EXCEPT ![f[1]].space = flight[f].space, ![f[1]].agent = TRUE]
      /\ UNCHANGED <<up, herdr, booting, held, server, space, launching, call, poll, lostSlot, events>>
  BY DEF FlightRecords
<1>2. flight[f].space \in Spaces \cup {NoSpace}
  BY <1>0 DEF FlightsOK, FlightTypes
<1>3. FlightsOK' /\ flight'[f].pc = "start" /\ \A g \in Flights \ {f} : flight'[g] = flight[g]
  BY <1>0, <1>1, <1>2, FlightSet
<1>4. task' \in Boards /\ \A t \in Tasks : task'[t].status = task[t].status /\ task'[t].deps = task[t].deps
  BY <1>0, <1>1, <1>2 DEF Boards
<1>5. TypeOK'
  <2>1. CallsOK' /\ RestOK' /\ SpacesOK' /\ poll' \in PollTypes
    BY <1>0, <1>1 DEF CallsOK, RestOK, SpacesOK
  <2> QED
    BY <1>3, <1>4, <2>1, TypePartsNext
<1>6. Calm
  BY <1>1, <1>3, <1>4 DEF Calm, Running
<1>7. Steady
  BY <1>1, <1>4 DEF Steady
<1> QED
  BY <1>5, <1>6, <1>7, SteadyKeeps

LEMMA FlightStartedSound == ASSUME IInv, NEW f \in Flights, FlightStarted(f) PROVE IInv'
<1>0. /\ task \in Boards /\ FlightsOK /\ CallsOK /\ RestOK /\ SpacesOK /\ poll \in PollTypes
      /\ f[1] \in Tasks
  BY TypeParts, FlightTask DEF IInv
<1>1. /\ flight[f].pc = "start" /\ SetFlight(f, "prompt", flight[f].space)
      /\ space' = [space EXCEPT ![flight[f].space].worker = TRUE]
      /\ UNCHANGED <<up, herdr, booting, held, server, task, launching, call, poll, lostSlot, events>>
  BY DEF FlightStarted
<1>2. flight[f].space \in Spaces \cup {NoSpace}
  BY <1>0 DEF FlightsOK, FlightTypes
<1>3. FlightsOK' /\ flight'[f].pc = "prompt" /\ \A g \in Flights \ {f} : flight'[g] = flight[g]
  BY <1>0, <1>1, <1>2, FlightSet
<1>4. TypeOK'
  <2>1. SpacesOK'
    BY <1>0, <1>1 DEF SpacesOK
  <2>2. CallsOK' /\ RestOK' /\ task' \in Boards /\ poll' \in PollTypes
    BY <1>0, <1>1 DEF CallsOK, RestOK
  <2> QED
    BY <1>3, <2>1, <2>2, TypePartsNext
<1>5. Calm
  BY <1>1, <1>3 DEF Calm, Running
<1>6. Steady
  BY <1>1 DEF Steady
<1> QED
  BY <1>4, <1>5, <1>6, SteadyKeeps

LEMMA FlightPromptedSound == ASSUME IInv, NEW f \in Flights, FlightPrompted(f) PROVE IInv'
<1>0. /\ task \in Boards /\ FlightsOK /\ CallsOK /\ RestOK /\ SpacesOK /\ poll \in PollTypes
      /\ f[1] \in Tasks
  BY TypeParts, FlightTask DEF IInv
<1>1. /\ flight[f].pc = "prompt"
      /\ UNCHANGED <<up, herdr, booting, held, server, space, call, poll, lostSlot, events>>
  BY DEF FlightPrompted
<1>2. CASE flight[f].fresh /\ task[f[1]].status = "starting"
  <2>1. task' = [task EXCEPT ![f[1]].status = "working"] /\ EndFlight(f)
    BY <1>2 DEF FlightPrompted
  <2>2. /\ task' \in Boards
        /\ \A t \in Tasks : task'[t].deps = task[t].deps
        /\ \A t \in Tasks :
             \/ task'[t].status = task[t].status
             \/ task[t].status = "starting" /\ task'[t].status = "working"
    BY <1>0, <1>2, <2>1 DEF Boards, Live
  <2>3. /\ FlightsOK' /\ flight'[f].pc = "none" /\ \A g \in Flights \ {f} : flight'[g] = flight[g]
        /\ launching' = launching \ {f[1]}
    BY <1>0, <2>1, FlightEnded
  <2>4. TypeOK'
    <3>1. CallsOK' /\ RestOK' /\ SpacesOK' /\ poll' \in PollTypes
      BY <1>0, <1>1, <2>3 DEF CallsOK, RestOK, SpacesOK
    <3> QED
      BY <2>2, <2>3, <3>1, TypePartsNext
  <2>5. Calm
    BY <1>1, <2>2, <2>3 DEF Calm, Running, Planned
  <2>6. Steady
    BY <1>1, <2>2 DEF Steady, Live
  <2> QED
    BY <2>4, <2>5, <2>6, SteadyKeeps
<1>3. CASE ~(flight[f].fresh /\ task[f[1]].status = "starting")
  <2>1. /\ task' = [task EXCEPT ![f[1]].space = NoSpace]
        /\ IF task[f[1]].space = NoSpace THEN EndFlight(f)
           ELSE SetFlight(f, "discard", task[f[1]].space) /\ UNCHANGED launching
    BY <1>3 DEF FlightPrompted
  <2>2. task' \in Boards /\ \A t \in Tasks : task'[t].deps = task[t].deps /\ task'[t].status = task[t].status
    BY <1>0, <2>1 DEF Boards
  <2>3. task[f[1]].space \in Spaces \cup {NoSpace}
    BY <1>0 DEF Boards
  <2>4. /\ FlightsOK' /\ \A g \in Flights \ {f} : flight'[g] = flight[g]
        /\ \/ flight'[f].pc = "none" /\ launching' = launching \ {f[1]}
           \/ flight'[f].pc = "discard" /\ launching' = launching
    BY <1>0, <2>1, <2>3, FlightEnded, FlightSet
  <2>5. TypeOK'
    <3>1. CallsOK' /\ RestOK' /\ SpacesOK' /\ poll' \in PollTypes
      BY <1>0, <1>1, <2>4 DEF CallsOK, RestOK, SpacesOK
    <3> QED
      BY <2>2, <2>4, <3>1, TypePartsNext
  <2>6. Calm
    BY <1>1, <2>2, <2>4 DEF Calm, Running
  <2>7. Steady
    BY <1>1, <2>2 DEF Steady
  <2> QED
    BY <2>5, <2>6, <2>7, SteadyKeeps
<1> QED
  BY <1>2, <1>3

(* fail() moves a task that is starting, and no other.                          *)
LEMMA FailedBoard ==
    ASSUME NEW b \in Boards, NEW t \in Tasks
    PROVE  /\ Failed(b, t) \in Boards
           /\ \A u \in Tasks :
                /\ Failed(b, t)[u].deps = b[u].deps
                /\ \/ Failed(b, t)[u].status = b[u].status
                   \/ u = t /\ b[t].status = "starting" /\ Failed(b, t)[u].status = "failed"
BY DEF Failed, Boards, Launchable, Finished

(* A launch that fails frees a slot without advancing the plan: lostSlot says so.   *)
LEMMA FailedKeeps ==
    ASSUME IInv, TypeOK', Calm, NEW t \in Tasks, task' = Failed(task, t),
           lostSlot' = (lostSlot \/ task[t].status = "starting"),
           UNCHANGED <<up, herdr, booting, call>>
    PROVE  IInv'
<1>1. CASE task[t].status = "starting"
  BY <1>1, NotReadyAdvancing, CalmKeeps
<1>2. CASE task[t].status # "starting"
  <2>1. task' = task
    BY <1>2 DEF Failed
  <2>2. Steady
    BY <2>1 DEF Steady
  <2> QED
    BY <2>2, SteadyKeeps
<1> QED
  BY <1>1, <1>2

LEMMA FlightThrowsSound == ASSUME IInv, NEW f \in Flights, FlightThrows(f) PROVE IInv'
<1>0. /\ task \in Boards /\ FlightsOK /\ CallsOK /\ RestOK /\ SpacesOK /\ poll \in PollTypes
      /\ f[1] \in Tasks
  BY TypeParts, FlightTask DEF IInv
<1>1. /\ Running(f) /\ events' \in 0 .. MaxEvents
      /\ UNCHANGED <<up, herdr, booting, held, server, space, call, poll>>
  BY <1>0, BoundsAssumption DEF FlightThrows, Hopeless, Running, Event, RestOK
<1>2. CASE task[f[1]].space = NoSpace
  <2>1. /\ task' = Failed(task, f[1]) /\ EndFlight(f)
        /\ lostSlot' = (lostSlot \/ task[f[1]].status = "starting")
    BY <1>2 DEF FlightThrows
  <2>2. /\ FlightsOK' /\ flight'[f].pc = "none" /\ \A g \in Flights \ {f} : flight'[g] = flight[g]
        /\ launching' = launching \ {f[1]}
    BY <1>0, <2>1, FlightEnded
  <2>3. /\ task' \in Boards
        /\ \A t \in Tasks : task'[t].deps = task[t].deps
        /\ \A t \in Tasks : task'[t].status = task[t].status \/ task'[t].status = "failed"
    BY <1>0, <2>1, FailedBoard
  <2>4. TypeOK'
    <3>1. lostSlot' \in BOOLEAN
      BY <2>1
    <3>2. CallsOK' /\ RestOK' /\ SpacesOK' /\ poll' \in PollTypes
      BY <1>0, <1>1, <2>2, <3>1 DEF CallsOK, RestOK, SpacesOK
    <3> QED
      BY <2>2, <2>3, <3>2, TypePartsNext
  <2>5. Calm
    BY <1>1, <2>2, <2>3 DEF Calm, Running, Planned
  <2> QED
    BY <1>0, <1>1, <2>1, <2>4, <2>5, FailedKeeps
<1>3. CASE task[f[1]].space # NoSpace
  <2>1. /\ task' = [task EXCEPT ![f[1]].space = NoSpace]
        /\ SetFlight(f, "abandon", task[f[1]].space)
        /\ UNCHANGED <<launching, lostSlot>>
    BY <1>3 DEF FlightThrows
  <2>2. task' \in Boards /\ \A t \in Tasks : task'[t].deps = task[t].deps /\ task'[t].status = task[t].status
    BY <1>0, <2>1 DEF Boards
  <2>3. task[f[1]].space \in Spaces \cup {NoSpace}
    BY <1>0 DEF Boards
  <2>4. FlightsOK' /\ flight'[f].pc = "abandon" /\ \A g \in Flights \ {f} : flight'[g] = flight[g]
    BY <1>0, <2>1, <2>3, FlightSet
  <2>5. TypeOK'
    <3>1. CallsOK' /\ RestOK' /\ SpacesOK' /\ poll' \in PollTypes
      BY <1>0, <1>1, <2>1 DEF CallsOK, RestOK, SpacesOK
    <3> QED
      BY <2>2, <2>4, <3>1, TypePartsNext
  <2>6. Calm
    BY <1>1, <2>1, <2>2, <2>4 DEF Calm, Running
  <2>7. Steady
    BY <1>1, <2>1, <2>2 DEF Steady
  <2> QED
    BY <2>5, <2>6, <2>7, SteadyKeeps
<1> QED
  BY <1>2, <1>3

LEMMA FlightClosesSound == ASSUME IInv, NEW f \in Flights, FlightCloses(f) PROVE IInv'
<1>0. /\ task \in Boards /\ FlightsOK /\ CallsOK /\ RestOK /\ SpacesOK /\ poll \in PollTypes
      /\ f[1] \in Tasks
  BY TypeParts, FlightTask DEF IInv
<1>1. /\ Running(f) /\ EndFlight(f) /\ events' \in 0 .. MaxEvents
      /\ UNCHANGED <<up, herdr, booting, held, server, call, poll>>
  BY <1>0, BoundsAssumption DEF FlightCloses, Running, Event, RestOK
<1>2. SpacesOK'
  <2>1. space' = [space EXCEPT ![flight[f].space] = Closed] \/ space' = space
    BY DEF FlightCloses
  <2> QED
    BY <1>0, <2>1, SpaceClosed
<1>3. /\ FlightsOK' /\ flight'[f].pc = "none" /\ \A g \in Flights \ {f} : flight'[g] = flight[g]
      /\ launching' = launching \ {f[1]}
  BY <1>0, <1>1, FlightEnded
<1>4. CASE flight[f].pc = "abandon"
  <2>1. task' = Failed(task, f[1]) /\ lostSlot' = (lostSlot \/ task[f[1]].status = "starting")
    BY <1>4 DEF FlightCloses
  <2>2. /\ task' \in Boards
        /\ \A t \in Tasks : task'[t].deps = task[t].deps
        /\ \A t \in Tasks : task'[t].status = task[t].status \/ task'[t].status = "failed"
    BY <1>0, <2>1, FailedBoard
  <2>3. TypeOK'
    <3>1. lostSlot' \in BOOLEAN
      BY <2>1
    <3>2. CallsOK' /\ RestOK' /\ poll' \in PollTypes
      BY <1>0, <1>1, <1>3, <3>1 DEF CallsOK, RestOK
    <3> QED
      BY <1>2, <1>3, <2>2, <3>2, TypePartsNext
  <2>4. Calm
    BY <1>1, <1>3, <2>2 DEF Calm, Running, Planned
  <2> QED
    BY <1>0, <1>1, <2>1, <2>3, <2>4, FailedKeeps
<1>5. CASE flight[f].pc # "abandon"
  <2>1. UNCHANGED <<task, lostSlot>>
    BY <1>5 DEF FlightCloses
  <2>2. TypeOK'
    <3>1. CallsOK' /\ RestOK' /\ task' \in Boards /\ poll' \in PollTypes
      BY <1>0, <1>1, <1>3, <2>1 DEF CallsOK, RestOK
    <3> QED
      BY <1>2, <1>3, <3>1, TypePartsNext
  <2>3. Calm
    BY <1>1, <1>3, <2>1 DEF Calm, Running
  <2>4. Steady
    BY <1>1, <2>1 DEF Steady
  <2> QED
    BY <2>2, <2>3, <2>4, SteadyKeeps
<1> QED
  BY <1>4, <1>5

-----------------------------------------------------------------------------
(* endTask, messageTask and removeTask.                                       *)

LEMMA EventBound == ASSUME RestOK, Event PROVE events' \in 0 .. MaxEvents
BY BoundsAssumption DEF Event, RestOK

(* A call goes out: for the removal of a task, or about one that was launched.    *)
LEMMA RequestKeeps ==
    ASSUME IInv, NEW kind \in {"complete", "stop", "message", "remove"}, NEW t \in Tasks,
           NEW pc \in {"tail", "send", "git"}, Request(kind, t, pc),
           pc = "git" \/ task[t].status \notin Planned,
           UNCHANGED <<up, herdr, booting, held, server, space, task, launching, flight, poll, lostSlot>>,
           events' \in 0 .. MaxEvents
    PROVE  IInv'
<1>0. task \in Boards /\ FlightsOK /\ CallsOK /\ RestOK /\ SpacesOK /\ poll \in PollTypes
  BY TypeParts DEF IInv
<1>1. CallsOK'
  BY <1>0, CallRequested
<1>2. PICK c \in Calls : /\ call[c].pc = "none" /\ call'[c].pc = pc /\ call'[c].task = t
                         /\ \A d \in Calls \ {c} : call'[d] = call[d]
  BY <1>0, CallRequested
<1>3. TypeOK'
  <2>1. FlightsOK' /\ RestOK' /\ SpacesOK' /\ task' \in Boards /\ poll' \in PollTypes
    BY <1>0 DEF FlightsOK, RestOK, SpacesOK
  <2> QED
    BY <1>1, <2>1, TypePartsNext
<1>4. Calm
  BY <1>2 DEF Calm, Running
<1>5. Steady
  BY <1>2 DEF Steady
<1> QED
  BY <1>3, <1>4, <1>5, SteadyKeeps

LEMMA OverBoard ==
    ASSUME task \in Boards, NEW kind, NEW t
    PROVE  /\ Over(kind, t) \in Boards
           /\ \A u \in Tasks :
                /\ Over(kind, t)[u].deps = task[u].deps
                /\ \/ Over(kind, t)[u].status = task[u].status
                   \/ u = t /\ task[u].status # "absent" /\ Over(kind, t)[u].status \in {"done", "stopped"}
           /\ t \in Tasks => Over(kind, t)[t].status \notin Planned
<1> DEFINE st == IF task[t].status = "absent" THEN "absent" ELSE IF kind = "complete" THEN "done" ELSE "stopped"
<1>1. CASE t \in Tasks
  <2>1. Over(kind, t) = [task EXCEPT ![t].space = NoSpace, ![t].status = st]
    BY <1>1 DEF Over, Boards
  <2>2. st \in {"absent", "done", "stopped"} /\ (st = "absent" <=> task[t].status = "absent")
    OBVIOUS
  <2> HIDE DEF st
  <2>3. Over(kind, t) \in Boards
    BY <1>1, <2>1, <2>2 DEF Boards, Launchable, Finished
  <2>4. \A u \in Tasks : /\ Over(kind, t)[u].deps = task[u].deps
                         /\ Over(kind, t)[u].status = IF u = t THEN st ELSE task[u].status
    BY <1>1, <2>1 DEF Boards
  <2> QED
    BY <1>1, <2>2, <2>3, <2>4 DEF Planned
<1>2. CASE t \notin Tasks
  <2>1. Over(kind, t) = task
    BY <1>2 DEF Over, Boards
  <2> QED
    BY <1>2, <2>1
<1> QED
  BY <1>1, <1>2

(* Ending a task keeps the graph, and plans nothing.                            *)
LEMMA OverGraph ==
    ASSUME IInv, NEW kind, NEW t
    PROVE  /\ Over(kind, t) \in Boards
           /\ Graph(Over(kind, t))
           /\ \A u \in Tasks : Over(kind, t)[u].status \in Planned => task[u].status \in Planned
<1>1. task \in Boards /\ Graph(task)
  BY TypeParts DEF IInv
<1>2. Over(kind, t) \in Boards
  BY <1>1, OverBoard
<1>3. \A u \in Tasks : /\ Over(kind, t)[u].deps \subseteq task[u].deps
                       /\ Over(kind, t)[u].status = "absent" => task[u].status = "absent"
                       /\ Over(kind, t)[u].status \in Planned => task[u].status \in Planned
  BY <1>1, OverBoard DEF Planned
<1>4. Graph(Over(kind, t))
  BY <1>1, <1>2, <1>3, GraphKept
<1> QED
  BY <1>2, <1>3, <1>4

LEMMA EndSound == ASSUME IInv, NEW t \in Tasks, NEW kind \in {"complete", "stop"}, End(kind, t) PROVE IInv'
<1>0. CallsOK /\ RestOK /\ SpacesOK /\ poll \in PollTypes
  BY TypeParts DEF IInv
<1>1. /\ events' \in 0 .. MaxEvents /\ task[t].status \in Live
      /\ UNCHANGED <<up, herdr, booting, held, server, space, poll>>
  BY <1>0, EventBound DEF End, Live
<1>2. CASE herdr /\ task[t].agent
  <2>1. Request(kind, t, "tail") /\ UNCHANGED <<task, launching, flight, lostSlot>>
    BY <1>2 DEF End
  <2>2. task[t].status \notin Planned
    BY <1>1 DEF Live, Planned
  <2> QED
    BY <1>1, <2>1, <2>2, RequestKeeps
<1>3. CASE ~(herdr /\ task[t].agent)
  <2>1. Advance(Over(kind, t), launching) /\ UNCHANGED call
    BY <1>3 DEF End
  <2>2. SpacesOK' /\ CallsOK' /\ booting' \in BOOLEAN /\ server' \in BOOLEAN /\ held' \subseteq Spaces
    BY <1>0, <1>1, <2>1 DEF SpacesOK, CallsOK, RestOK
  <2> QED
    BY <1>0, <1>1, <2>1, <2>2, OverGraph, EndKeeps
<1> QED
  BY <1>2, <1>3

LEMMA EndReadSound == ASSUME IInv, NEW c \in Calls, EndRead(c) PROVE IInv'
<1> DEFINE t == call[c].task
<1>0. task \in Boards /\ FlightsOK /\ CallsOK /\ RestOK /\ SpacesOK /\ poll \in PollTypes
  BY TypeParts DEF IInv
<1>1. call[c].pc = "tail" /\ UNCHANGED <<up, herdr, booting, held, server, space, poll, events>>
  BY DEF EndRead
<1>2. t \in Tasks
  BY <1>1 DEF IInv, Named
<1> HIDE DEF t
<1>3. CASE task[t].space # NoSpace
  <2>1. /\ task' = Over(call[c].kind, t) /\ UNCHANGED <<launching, flight, lostSlot>>
        /\ call' = [call EXCEPT ![c].pc = "close", ![c].space = task[t].space]
    BY <1>3 DEF EndRead, t
  <2>2. CallsOK'
    <3>1. task[t].space \in Spaces \cup {NoSpace}
      BY <1>0, <1>2 DEF Boards
    <3> QED
      BY <1>0, <2>1, <3>1 DEF CallsOK, CallTypes
  <2>3. /\ call'[c].pc = "close" /\ call'[c].task = t
        /\ \A d \in Calls \ {c} : call'[d] = call[d]
    BY <1>0, <2>1 DEF CallsOK, CallTypes, t
  <2>4. /\ task' \in Boards /\ task'[t].status \notin Planned
        /\ \A u \in Tasks :
             /\ task'[u].deps = task[u].deps
             /\ task'[u].status = "absent" => task[u].status = "absent"
             /\ task'[u].status \in Planned => task'[u].status = task[u].status
    BY <1>0, <1>2, <2>1, OverBoard DEF Planned
  <2>5. TypeOK'
    <3>1. FlightsOK' /\ RestOK' /\ SpacesOK' /\ poll' \in PollTypes
      BY <1>0, <1>1, <2>1 DEF FlightsOK, RestOK, SpacesOK
    <3> QED
      BY <2>2, <2>4, <3>1, TypePartsNext
  <2>6. Calm
    BY <1>2, <2>1, <2>3, <2>4 DEF Calm, Running
  <2> QED
    BY <2>3, <2>5, <2>6, NotReadyAdvancing, CalmKeeps
<1>4. CASE task[t].space = NoSpace
  <2>1. Advance(Over(call[c].kind, t), launching) /\ EndCall(c)
    BY <1>4 DEF EndRead, t
  <2>2. CallsOK' /\ \A d \in Calls : call'[d] = call[d] \/ call'[d].pc = "none"
    BY <1>0, <2>1, CallEnded
  <2>3. SpacesOK' /\ booting' \in BOOLEAN /\ server' \in BOOLEAN /\ held' \subseteq Spaces /\ events' \in 0 .. MaxEvents
    BY <1>0, <1>1 DEF SpacesOK, RestOK
  <2> QED
    BY <1>0, <1>1, <2>1, <2>2, <2>3, OverGraph, EndKeeps
<1> QED
  BY <1>3, <1>4

LEMMA EndClosedSound == ASSUME IInv, NEW c \in Calls, EndClosed(c) PROVE IInv'
<1>0. task \in Boards /\ CallsOK /\ RestOK /\ SpacesOK /\ poll \in PollTypes /\ Graph(task)
  BY TypeParts DEF IInv
<1>1. /\ Advance(task, launching) /\ EndCall(c) /\ events' \in 0 .. MaxEvents
      /\ space' = [space EXCEPT ![call[c].space] = Closed] \/ space' = space
      /\ UNCHANGED <<up, herdr, booting, held, server, poll>>
  BY <1>0, EventBound DEF EndClosed, RestOK
<1>2. CallsOK' /\ \A d \in Calls : call'[d] = call[d] \/ call'[d].pc = "none"
  BY <1>0, <1>1, CallEnded
<1>3. SpacesOK'
  BY <1>0, <1>1, SpaceClosed
<1>4. booting' \in BOOLEAN /\ server' \in BOOLEAN /\ held' \subseteq Spaces
  BY <1>0, <1>1 DEF RestOK
<1> QED
  BY <1>0, <1>1, <1>2, <1>3, <1>4, EndKeeps

LEMMA MessageSound == ASSUME IInv, NEW t \in Tasks, Message(t) PROVE IInv'
<1>0. RestOK
  BY TypeParts DEF IInv
<1>1. events' \in 0 .. MaxEvents /\ task[t].status \notin Planned
  BY <1>0, EventBound DEF Message, Planned
<1> QED
  BY <1>1, RequestKeeps DEF Message

LEMMA MessageAnsweredSound == ASSUME IInv, NEW c \in Calls, MessageAnswered(c) PROVE IInv'
<1> DEFINE t == call[c].task
<1>0. task \in Boards /\ FlightsOK /\ CallsOK /\ RestOK /\ SpacesOK /\ poll \in PollTypes
  BY TypeParts DEF IInv
<1>1. /\ call[c].pc = "send" /\ EndCall(c)
      /\ \/ task' = [task EXCEPT ![t].status = IF task[t].status = "absent" THEN "absent" ELSE "working"]
         \/ task' = task
      /\ UNCHANGED <<up, herdr, booting, held, server, space, launching, flight, poll, lostSlot, events>>
  <2>1. task' = [task EXCEPT ![t].status = IF @ = "absent" THEN @ ELSE "working"] \/ task' = task
    BY DEF MessageAnswered
  <2> QED
    BY <1>0, <2>1 DEF MessageAnswered, Boards
<1>2. t \in Tasks
  BY <1>1 DEF IInv, Named
<1>3. CallsOK' /\ call'[c].pc = "none" /\ \A d \in Calls \ {c} : call'[d] = call[d]
  BY <1>0, <1>1, CallEnded
<1> HIDE DEF t
<1>4. /\ task' \in Boards
      /\ \A u \in Tasks :
           /\ task'[u].deps = task[u].deps
           /\ \/ task'[u].status = task[u].status
              \/ task[u].status # "absent" /\ task'[u].status = "working"
  BY <1>0, <1>1, <1>2 DEF Boards, Live
<1>5. TypeOK'
  <2>1. FlightsOK' /\ RestOK' /\ SpacesOK' /\ poll' \in PollTypes
    BY <1>0, <1>1 DEF FlightsOK, RestOK, SpacesOK
  <2> QED
    BY <1>3, <1>4, <2>1, TypePartsNext
<1>6. Calm
  BY <1>1, <1>3, <1>4 DEF Calm, Running, Planned
<1>7. Steady
  BY <1>1, <1>3, <1>4 DEF Steady, Live
<1> QED
  BY <1>5, <1>6, <1>7, SteadyKeeps

(* Removing a task keeps the graph, and plans nothing.                          *)
LEMMA DeletedGraph ==
    ASSUME IInv, NEW t \in Tasks
    PROVE  /\ Deleted(task, t) \in Boards
           /\ Graph(Deleted(task, t))
           /\ \A u \in Tasks : Deleted(task, t)[u].status \in Planned => task[u].status \in Planned
           /\ \A u \in Tasks : Deleted(task, t)[u].status \in {task[u].status, "absent"}
<1>1. task \in Boards /\ Graph(task)
  BY TypeParts DEF IInv
<1> DEFINE gone == [Absent EXCEPT !.space = task[t].space, !.agent = task[t].agent]
<1> DEFINE T == [status : Live \cup Launchable \cup {"absent"},
                 deps : SUBSET Tasks, space : Spaces \cup {NoSpace}, agent : BOOLEAN]
<1>2. gone \in T /\ gone.status = "absent" /\ gone.deps = {}
  BY <1>1 DEF Boards, Absent
<1>3. Deleted(task, t) = [u \in Tasks |-> IF u = t THEN gone ELSE [task[u] EXCEPT !.deps = task[u].deps \ {t}]]
  BY <1>1 DEF Deleted, Boards
<1> HIDE DEF gone
<1>4. Deleted(task, t) \in Boards
  <2>1. \A u \in Tasks : [task[u] EXCEPT !.deps = task[u].deps \ {t}] \in T
    BY <1>1 DEF Boards
  <2> HIDE DEF T
  <2>2. Deleted(task, t) \in [Tasks -> T]
    BY <1>2, <1>3, <2>1
  <2> QED
    BY <2>2 DEF Boards, T
<1>5. \A u \in Tasks : /\ Deleted(task, t)[u].deps \subseteq task[u].deps \ {t}
                       /\ Deleted(task, t)[u].status = IF u = t THEN "absent" ELSE task[u].status
  <2>1. ASSUME NEW u \in Tasks, u # t
        PROVE  Deleted(task, t)[u].deps = task[u].deps \ {t} /\ Deleted(task, t)[u].status = task[u].status
    BY <1>1, <1>3, <2>1 DEF Boards
  <2>2. Deleted(task, t)[t] = gone
    BY <1>3
  <2> QED
    BY <1>2, <2>1, <2>2
<1>6. Graph(Deleted(task, t))
  BY <1>1, <1>4, <1>5, GraphPruned
<1> QED
  BY <1>4, <1>5, <1>6 DEF Planned

LEMMA RemoveSound == ASSUME IInv, NEW t \in Tasks, Remove(t) PROVE IInv'
<1>0. CallsOK /\ RestOK /\ SpacesOK /\ poll \in PollTypes
  BY TypeParts DEF IInv
<1>1. events' \in 0 .. MaxEvents /\ UNCHANGED <<up, herdr, booting, held, server, space, poll>>
  BY <1>0, EventBound DEF Remove
<1>2. CASE Request("remove", t, "git") /\ UNCHANGED <<task, launching, flight, lostSlot>>
  BY <1>1, <1>2, RequestKeeps
<1>3. CASE Advance(Deleted(task, t), launching) /\ UNCHANGED call
  <2>1. SpacesOK' /\ CallsOK' /\ booting' \in BOOLEAN /\ server' \in BOOLEAN /\ held' \subseteq Spaces
    BY <1>0, <1>1, <1>3 DEF SpacesOK, CallsOK, RestOK
  <2> QED
    BY <1>0, <1>1, <1>3, <2>1, DeletedGraph, EndKeeps
<1> QED
  BY <1>2, <1>3 DEF Remove

LEMMA RemoveAnsweredSound == ASSUME IInv, NEW c \in Calls, RemoveAnswered(c) PROVE IInv'
<1> DEFINE t == call[c].task
<1>0. task \in Boards /\ FlightsOK /\ CallsOK /\ RestOK /\ SpacesOK /\ poll \in PollTypes
  BY TypeParts DEF IInv
<1>1. call[c].pc = "git" /\ EndCall(c) /\ UNCHANGED <<up, herdr, booting, held, server, space, poll, events>>
  BY DEF RemoveAnswered
<1>2. t \in Tasks
  BY <1>1 DEF IInv, Named
<1>3. CallsOK' /\ call'[c].pc = "none" /\ \A d \in Calls \ {c} : call'[d] = call[d]
  BY <1>0, <1>1, CallEnded
<1>4. CASE Advance(Deleted(task, t), launching)
  <2>1. SpacesOK' /\ booting' \in BOOLEAN /\ server' \in BOOLEAN /\ held' \subseteq Spaces /\ events' \in 0 .. MaxEvents
    BY <1>0, <1>1 DEF SpacesOK, RestOK
  <2>2. \A d \in Calls : call'[d] = call[d] \/ call'[d].pc = "none"
    BY <1>3
  <2> HIDE DEF t
  <2> QED
    BY <1>0, <1>1, <1>2, <1>3, <1>4, <2>1, <2>2, DeletedGraph, EndKeeps
<1>5. CASE UNCHANGED <<task, launching, flight, lostSlot>>
  <2>1. TypeOK'
    <3>1. FlightsOK' /\ RestOK' /\ SpacesOK' /\ task' \in Boards /\ poll' \in PollTypes
      BY <1>0, <1>1, <1>5 DEF FlightsOK, RestOK, SpacesOK
    <3> QED
      BY <1>3, <3>1, TypePartsNext
  <2>2. Calm
    BY <1>1, <1>3, <1>5 DEF Calm, Running
  <2>3. Steady
    BY <1>1, <1>3, <1>5 DEF Steady
  <2> QED
    BY <2>1, <2>2, <2>3, SteadyKeeps
<1> QED
  BY <1>4, <1>5 DEF RemoveAnswered

-----------------------------------------------------------------------------
(* Putting tasks on the board.                                                 *)

(* A new task: nothing depends on it yet, so its dependencies close no cycle.     *)
LEMMA NewTaskGraph ==
    ASSUME task \in Boards, Graph(task), NEW t \in Tasks, task[t].status = "absent",
           NEW b \in Boards, b[t].status # "absent",
           \A d \in b[t].deps : d # t /\ task[d].status # "absent",
           \A u \in Tasks \ {t} : b[u] = task[u]
    PROVE  Graph(b)
<1>1. \A u \in Tasks : <<u, t>> \notin Edges(b)
  <2>1. SUFFICES ASSUME NEW u \in Tasks, t \in b[u].deps PROVE FALSE
    BY DEF Edges
  <2>2. CASE u = t
    BY <2>1, <2>2
  <2>3. CASE u # t
    BY <2>1, <2>3 DEF Graph, NoLooseEnd
  <2> QED
    BY <2>2, <2>3
<1>2. \A d \in b[t].deps : b[d].status # "absent" /\ d # t /\ ~Reaches(Edges(b), d, t)
  <2>1. b[t].deps \subseteq Tasks
    BY DEF Boards
  <2> QED
    BY <1>1, <2>1, NothingLeadsTo
<1>3. /\ \A u \in Tasks \ {t} : b[u].deps = task[u].deps
      /\ \A u \in Tasks : b[u].status = "absent" => task[u].status = "absent"
  OBVIOUS
<1> QED
  BY <1>2, <1>3, GraphEdited

(* insertTask puts it there.                                                   *)
WithNew(t, st, deps) == [task EXCEPT ![t] = [Absent EXCEPT !.status = st, !.deps = deps]]

LEMMA NewTaskBoard ==
    ASSUME IInv, NEW t \in Tasks, Unused(t),
           NEW deps \in SUBSET {d \in Tasks \ {t} : task[d].status # "absent"}, NEW st \in Planned
    PROVE  /\ WithNew(t, st, deps) \in Boards /\ Graph(WithNew(t, st, deps))
           /\ WithNew(t, st, deps)[t].status = st
           /\ \A u \in Tasks \ {t} : WithNew(t, st, deps)[u] = task[u]
<1>1. task \in Boards /\ Graph(task) /\ task[t].status = "absent"
  BY TypeParts DEF IInv, Unused
<1> DEFINE new == [Absent EXCEPT !.status = st, !.deps = deps]
           b == [task EXCEPT ![t] = new]
           T == [status : Live \cup Launchable \cup {"absent"},
                 deps : SUBSET Tasks, space : Spaces \cup {NoSpace}, agent : BOOLEAN]
<1>2. new \in T /\ new.status = st /\ new.deps = deps
  BY DEF Absent, Planned, Launchable
<1> HIDE DEF new
<1>3. task \in [Tasks -> T]
  BY <1>1 DEF Boards
<1>4. b \in Boards
  <2> HIDE DEF T
  <2>1. b \in [Tasks -> T]
    BY <1>2, <1>3
  <2> QED
    BY <2>1 DEF Boards, T
<1>5. b[t] = new /\ \A u \in Tasks \ {t} : b[u] = task[u]
  BY <1>3
<1> HIDE DEF b
<1>6. Graph(b)
  BY <1>1, <1>2, <1>4, <1>5, NewTaskGraph DEF Planned
<1> QED
  BY <1>2, <1>4, <1>5, <1>6 DEF b, new, WithNew

LEMMA CreateSound == ASSUME IInv, NEW t \in Tasks, Create(t) PROVE IInv'
<1>0. task \in Boards /\ FlightsOK /\ CallsOK /\ RestOK /\ SpacesOK /\ poll \in PollTypes
  BY TypeParts DEF IInv
<1>1. /\ Unused(t) /\ events' \in 0 .. MaxEvents
      /\ UNCHANGED <<up, herdr, booting, held, server, space, call, poll>>
  BY <1>0, EventBound DEF Create
<1>2. PICK deps \in SUBSET {d \in Tasks \ {t} : task[d].status # "absent"}, auto \in BOOLEAN :
        IF auto THEN Advance(WithNew(t, "approved", deps), launching)
        ELSE task' = WithNew(t, "proposed", deps) /\ UNCHANGED <<launching, flight, lostSlot>>
  BY DEF Create, WithNew
<1>3. ASSUME NEW st \in Planned
      PROVE  /\ WithNew(t, st, deps) \in Boards /\ Graph(WithNew(t, st, deps))
             /\ WithNew(t, st, deps)[t].status = st
             /\ \A u \in Tasks \ {t} : WithNew(t, st, deps)[u] = task[u]
             /\ Unlaunched(WithNew(t, st, deps), launching)
             /\ \A u \in Tasks : WithNew(t, st, deps)[u].status \in Planned =>
                  \A c \in Calls : call'[c].task = u => call'[c].pc \in {"none", "git"}
  <2> DEFINE b == WithNew(t, st, deps)
  <2>1. /\ b \in Boards /\ Graph(b) /\ b[t].status = st
        /\ \A u \in Tasks \ {t} : b[u] = task[u]
    BY <1>1, NewTaskBoard
  <2> HIDE DEF b
  <2>2. t \notin launching
    BY <1>1 DEF IInv, Flying, Unused, Running
  <2>3. Unlaunched(b, launching)
    BY <1>1, <2>1, <2>2 DEF IInv, Unlaunched, Unused, Running
  <2>4. \A u \in Tasks : b[u].status \in Planned =>
          \A c \in Calls : call'[c].task = u => call'[c].pc \in {"none", "git"}
    BY <1>1, <2>1 DEF IInv, Uncalled, Unused
  <2> QED
    BY <2>1, <2>3, <2>4 DEF b
<1>4. Named' /\ SpacesOK' /\ CallsOK'
  BY <1>0, <1>1 DEF IInv, Named, SpacesOK, CallsOK
<1>5. CASE auto
  <2>1. booting' \in BOOLEAN /\ server' \in BOOLEAN /\ held' \subseteq Spaces
    BY <1>0, <1>1 DEF RestOK
  <2> QED
    BY <1>0, <1>1, <1>2, <1>3, <1>4, <1>5, <2>1, AdvanceKeeps DEF Planned
<1>6. CASE ~auto
  <2>1. /\ task' \in Boards /\ Graph(task') /\ task'[t].status = "proposed"
        /\ \A u \in Tasks \ {t} : task'[u] = task[u]
        /\ Unlaunched(task', launching)
        /\ \A u \in Tasks : task'[u].status \in Planned =>
             \A c \in Calls : call'[c].task = u => call'[c].pc \in {"none", "git"}
        /\ UNCHANGED <<launching, flight, lostSlot>>
    BY <1>2, <1>3, <1>6 DEF Planned
  <2>2. TypeOK'
    <3>1. FlightsOK' /\ RestOK' /\ poll' \in PollTypes
      BY <1>0, <1>1, <2>1 DEF FlightsOK, RestOK
    <3> QED
      BY <1>4, <2>1, <3>1, TypePartsNext
  <2>3. ASSUME NEW u \in Tasks, Waiting(u)' PROVE Waiting(u)
    <3>1. \A v \in Tasks :
            /\ task'[v].status = "approved" => task[v].status = "approved" /\ task'[v].deps = task[v].deps
            /\ task'[v].status = "done" => task[v].status = "done"
            /\ task[v].status \in Live => task'[v].status \in Live
      BY <1>1, <2>1 DEF Unused, Live
    <3> QED
      BY <1>0, <1>1, <2>1, <2>3, <3>1, NobodyNewWaits DEF IInv
  <2>4. Advancing'
    BY <1>1, <2>1, <2>3 DEF IInv, Advancing
  <2>5. Graph(task)' /\ Unlaunched(task, launching)' /\ Uncalled(task)' /\ Flying(launching)'
    <3>1. Graph(task)'
      BY <2>1 DEF Graph, Acyclic, NoLooseEnd, Edges
    <3>2. Unlaunched(task, launching)' /\ Uncalled(task)' /\ Flying(launching)'
      BY <2>1 DEF IInv, Unlaunched, Running, Uncalled, Flying
    <3> QED
      BY <3>1, <3>2
  <2> QED
    BY <1>4, <2>2, <2>4, <2>5 DEF IInv
<1> QED
  BY <1>5, <1>6

LEMMA UpdateSound == ASSUME IInv, NEW t \in Tasks, Update(t) PROVE IInv'
<1>0. task \in Boards /\ CallsOK /\ RestOK /\ SpacesOK /\ poll \in PollTypes /\ Graph(task)
  BY TypeParts DEF IInv
<1>1. /\ events' \in 0 .. MaxEvents
      /\ UNCHANGED <<up, herdr, booting, held, server, space, call, poll>>
  BY <1>0, EventBound DEF Update
<1>2. PICK deps \in SUBSET {d \in Tasks \ {t} : task[d].status # "absent"} :
        /\ ~WouldCreateCycle(task, t, deps)
        /\ Advance([task EXCEPT ![t].deps = deps], launching)
  BY DEF Update
<1> DEFINE b == [task EXCEPT ![t].deps = deps]
<1>3. \A d \in deps : ~Reaches(Edges(b), d, t)
  BY <1>2 DEF WouldCreateCycle
<1>4. b \in Boards /\ b[t].deps = deps
      /\ \A u \in Tasks : b[u].status = task[u].status /\ (u # t => b[u].deps = task[u].deps)
  BY <1>0 DEF Boards
<1>5. Advance(b, launching)
  BY <1>2
<1> HIDE DEF b
<1>6. Graph(b)
  <2>1. \A d \in b[t].deps : b[d].status # "absent" /\ d # t /\ ~Reaches(Edges(b), d, t)
    BY <1>3, <1>4
  <2> QED
    BY <1>0, <1>4, <2>1, GraphEdited
<1>7. SpacesOK' /\ CallsOK' /\ booting' \in BOOLEAN /\ server' \in BOOLEAN /\ held' \subseteq Spaces
  BY <1>0, <1>1 DEF SpacesOK, CallsOK, RestOK
<1> QED
  BY <1>0, <1>1, <1>4, <1>5, <1>6, <1>7, EndKeeps

LEMMA ApproveSound == ASSUME IInv, NEW S \in SUBSET Tasks, Approve(S) PROVE IInv'
<1>0. task \in Boards /\ CallsOK /\ RestOK /\ SpacesOK /\ poll \in PollTypes /\ Graph(task)
  BY TypeParts DEF IInv
<1> DEFINE b == [t \in Tasks |-> IF t \in S /\ task[t].status = "proposed" THEN [task[t] EXCEPT !.status = "approved"]
                                 ELSE task[t]]
<1>1. /\ events' \in 0 .. MaxEvents /\ Advance(b, launching)
      /\ UNCHANGED <<up, herdr, booting, held, server, space, call, poll>>
  BY <1>0, EventBound DEF Approve
<1>2. /\ b \in Boards
      /\ \A t \in Tasks : /\ b[t].deps = task[t].deps
                          /\ b[t].status = "absent" => task[t].status = "absent"
                          /\ b[t].status \in Planned => task[t].status \in Planned
  BY <1>0 DEF Boards, Planned, Launchable
<1> HIDE DEF b
<1>3. Graph(b)
  BY <1>0, <1>2, GraphKept
<1>4. SpacesOK' /\ CallsOK' /\ booting' \in BOOLEAN /\ server' \in BOOLEAN /\ held' \subseteq Spaces
  BY <1>0, <1>1 DEF SpacesOK, CallsOK, RestOK
<1> QED
  BY <1>0, <1>1, <1>2, <1>3, <1>4, EndKeeps

LEMMA LaunchSound == ASSUME IInv, NEW t \in Tasks, Launch(t) PROVE IInv'
<1>0. /\ task \in Boards /\ FlightsOK /\ CallsOK /\ RestOK /\ SpacesOK /\ poll \in PollTypes /\ Graph(task)
      /\ launching \in SUBSET Tasks
  BY TypeParts DEF IInv, RestOK
<1>1. /\ CanLaunch(task, launching, t) /\ LaunchAll({t}, task, launching) /\ events' \in 0 .. MaxEvents
      /\ UNCHANGED <<up, herdr, booting, held, server, space, call, poll, lostSlot>>
  BY <1>0, EventBound DEF Launch
<1>2. Launched(task, launching, {t})
  BY <1>0, <1>1, LaunchAllBoard DEF CanLaunch, FlightsOK
<1>3. TypeOK'
  <2>1. FlightsOK' /\ CallsOK' /\ RestOK' /\ SpacesOK' /\ task' \in Boards /\ poll' \in PollTypes
    BY <1>0, <1>1, <1>2 DEF FlightsOK, CallsOK, RestOK, SpacesOK, Launched
  <2> QED
    BY <2>1, TypePartsNext
<1>4. /\ \A u \in Tasks : task'[u].deps = task[u].deps
      /\ \A u \in Tasks : task'[u].status = IF u = t THEN "starting" ELSE task[u].status
  BY <1>2 DEF Launched
<1>5. Graph(task)'
  <2>1. Graph(task')
    BY <1>0, <1>2, <1>4, GraphKept DEF Launched
  <2> QED
    BY <2>1 DEF Graph, Acyclic, NoLooseEnd, Edges
<1>6. Unlaunched(task, launching)'
  <2>1. SUFFICES ASSUME NEW u \in Tasks, task'[u].status \in Planned
                 PROVE  u \notin launching' /\ \A f \in Flights : f[1] = u => flight'[f].pc = "none"
    BY DEF Unlaunched, Running
  <2>2. u # t /\ task[u].status \in Planned
    BY <1>4, <2>1 DEF Planned
  <2> QED
    BY <1>2, <2>2 DEF IInv, Launched, Unlaunched, Running
<1>7. Uncalled(task)' /\ Named'
  BY <1>1, <1>4 DEF IInv, Uncalled, Named, Planned
<1>8. Flying(launching)'
  BY <1>2 DEF IInv, Flying, Launched, Running
<1>9. Advancing'
  <2>1. \A u \in Tasks :
          /\ task'[u].status = "approved" => task[u].status = "approved" /\ task'[u].deps = task[u].deps
          /\ task'[u].status = "done" => task[u].status = "done"
          /\ task[u].status \in Live => task'[u].status \in Live
    BY <1>4 DEF Live
  <2>2. \A u \in Tasks : Waiting(u)' => Waiting(u)
    BY <1>0, <1>1, <1>2, <2>1, NobodyNewWaits DEF IInv, Launched
  <2> QED
    BY <1>1, <2>2 DEF IInv, Advancing
<1> QED
  BY <1>3, <1>5, <1>6, <1>7, <1>8, <1>9 DEF IInv

-----------------------------------------------------------------------------
(* The poll, and what happens to the workers.                                   *)

LEMMA Sweeps == ASSUME SpacesOK, NEW kept, space' = Swept(kept) PROVE SpacesOK'
<1> DEFINE T == [of : Tasks \cup {NoTask}, worker : BOOLEAN]
<1>1. Closed \in T /\ space \in [Spaces -> T]
  BY DEF Closed, SpacesOK
<1> HIDE DEF T
<1>2. space' \in [Spaces -> T]
  BY <1>1 DEF Swept
<1> QED
  BY <1>2 DEF SpacesOK, T

(* A step that changes neither the board nor a flight nor a call.               *)
LEMMA AsideKeeps ==
    ASSUME IInv, UNCHANGED <<up, herdr, booting, held, task, launching, flight, call, lostSlot>>,
           server' \in BOOLEAN, SpacesOK', poll' \in PollTypes, events' \in 0 .. MaxEvents
    PROVE  IInv'
<1>0. task \in Boards /\ FlightsOK /\ CallsOK /\ RestOK /\ SpacesOK /\ poll \in PollTypes
  BY TypeParts DEF IInv
<1>1. TypeOK'
  <2>1. FlightsOK' /\ CallsOK' /\ RestOK' /\ task' \in Boards
    BY <1>0 DEF FlightsOK, CallsOK, RestOK
  <2> QED
    BY <2>1, TypePartsNext
<1>2. Calm /\ Steady
  BY DEF Calm, Steady, Running
<1> QED
  BY <1>1, <1>2, SteadyKeeps

(* What a poll starts from, and what it goes on with.                           *)
LEMMA IdlePolls ==
    ASSUME task \in Boards, NEW n \in 0 .. SweepEvery
    PROVE  /\ [IdlePoll EXCEPT !.count = n] \in PollTypes
           /\ [IdlePoll EXCEPT !.pc = "sweep", !.held = HeldSpaces] \in PollTypes
           /\ Watch(n) => poll' \in PollTypes
<1>1. IdlePoll \in PollTypes
  BY BoundsAssumption DEF IdlePoll, PollTypes
<1>2. HeldSpaces \in SUBSET Spaces /\ Watched \in SUBSET Tasks
  BY DEF HeldSpaces, Boards, Watched, LiveTasks
<1> HIDE DEF IdlePoll
<1>3. [IdlePoll EXCEPT !.count = n] \in PollTypes
  BY <1>1 DEF PollTypes
<1>4. [IdlePoll EXCEPT !.pc = "sweep", !.held = HeldSpaces] \in PollTypes
  BY <1>1, <1>2 DEF PollTypes
<1>5. [IdlePoll EXCEPT !.pc = "list", !.watched = Watched, !.count = n] \in PollTypes
  BY <1>1, <1>2 DEF PollTypes
<1> QED
  BY <1>3, <1>4, <1>5 DEF Watch

LEMMA TickSound == ASSUME IInv, Tick PROVE IInv'
<1>0. task \in Boards /\ RestOK /\ SpacesOK /\ poll \in PollTypes
  BY TypeParts DEF IInv
<1> DEFINE n == IF poll.count < SweepEvery THEN poll.count + 1 ELSE SweepEvery
<1>1. n \in 0 .. SweepEvery
  BY <1>0, BoundsAssumption DEF PollTypes
<1>2. /\ UNCHANGED <<up, herdr, booting, held, server, space, task, launching, flight, call, lostSlot, events>>
      /\ poll' = [IdlePoll EXCEPT !.pc = "sweep", !.held = HeldSpaces] \/ Watch(n)
  BY DEF Tick
<1> HIDE DEF n
<1>3. poll' \in PollTypes
  BY <1>0, <1>1, <1>2, IdlePolls
<1>4. server' \in BOOLEAN /\ SpacesOK' /\ events' \in 0 .. MaxEvents
  BY <1>0, <1>2 DEF RestOK, SpacesOK
<1> QED
  BY <1>2, <1>3, <1>4, AsideKeeps

LEMMA PollSweepsSound == ASSUME IInv, PollSweeps PROVE IInv'
<1>0. task \in Boards /\ RestOK /\ SpacesOK
  BY TypeParts DEF IInv
<1>1. /\ Watch(0) /\ space' = Swept(poll.held)
      /\ UNCHANGED <<up, herdr, booting, held, server, task, launching, flight, call, lostSlot, events>>
  BY DEF PollSweeps
<1>2. poll' \in PollTypes
  <2>1. 0 \in 0 .. SweepEvery
    BY BoundsAssumption
  <2> QED
    BY <1>0, <1>1, <2>1, IdlePolls
<1>3. server' \in BOOLEAN /\ SpacesOK' /\ events' \in 0 .. MaxEvents
  BY <1>0, <1>1, Sweeps DEF RestOK
<1> QED
  BY <1>1, <1>2, <1>3, AsideKeeps

LEMMA PollListsSound == ASSUME IInv, PollLists PROVE IInv'
<1>0. RestOK /\ SpacesOK /\ poll \in PollTypes
  BY TypeParts DEF IInv
<1>1. /\ UNCHANGED <<up, herdr, booting, held, server, space, task, launching, flight, call, lostSlot, events>>
      /\ poll' = [poll EXCEPT !.pc = "rows", !.rows = {t \in poll.watched : HasWorker(t)}]
  BY DEF PollLists
<1>2. poll' \in PollTypes
  BY <1>0, <1>1 DEF PollTypes
<1>3. server' \in BOOLEAN /\ SpacesOK' /\ events' \in 0 .. MaxEvents
  BY <1>0, <1>1 DEF RestOK, SpacesOK
<1> QED
  BY <1>1, <1>2, <1>3, AsideKeeps

LEMMA PollThrowsSound == ASSUME IInv, PollThrows PROVE IInv'
<1>0. task \in Boards /\ RestOK /\ SpacesOK /\ poll \in PollTypes
  BY TypeParts DEF IInv
<1>1. /\ UNCHANGED <<up, herdr, booting, held, server, space, task, launching, flight, call, lostSlot>>
      /\ poll' = [IdlePoll EXCEPT !.count = poll.count] /\ Event
  BY DEF PollThrows
<1>2. poll' \in PollTypes
  BY <1>0, <1>1, IdlePolls DEF PollTypes
<1>3. server' \in BOOLEAN /\ SpacesOK' /\ events' \in 0 .. MaxEvents
  BY <1>0, <1>1, EventBound DEF RestOK, SpacesOK
<1> QED
  BY <1>1, <1>2, <1>3, AsideKeeps

LEMMA WorkerDiesSound == ASSUME IInv, NEW s \in Spaces, WorkerDies(s) PROVE IInv'
<1>0. RestOK /\ SpacesOK /\ poll \in PollTypes
  BY TypeParts DEF IInv
<1>1. /\ UNCHANGED <<up, herdr, booting, held, server, task, launching, flight, call, poll, lostSlot>> /\ Event
      /\ space' = [space EXCEPT ![s] = Closed] \/ space' = [space EXCEPT ![s].worker = FALSE]
  BY DEF WorkerDies
<1>2. SpacesOK'
  <2>1. CASE space' = [space EXCEPT ![s] = Closed]
    BY <1>0, <2>1, SpaceClosed
  <2>2. CASE space' = [space EXCEPT ![s].worker = FALSE]
    BY <1>0, <2>2 DEF SpacesOK
  <2> QED
    BY <1>1, <2>1, <2>2
<1>3. server' \in BOOLEAN /\ poll' \in PollTypes /\ events' \in 0 .. MaxEvents
  BY <1>0, <1>1, EventBound DEF RestOK
<1> QED
  BY <1>1, <1>2, <1>3, AsideKeeps

Statuses == Live \cup Launchable \cup {"absent"}
TaskTypes == [status : Statuses, deps : SUBSET Tasks, space : Spaces \cup {NoSpace}, agent : BOOLEAN]

LEMMA BoardTypes ==
    /\ Boards = [Tasks -> TaskTypes]
    /\ {"absent", "proposed", "approved", "starting", "working", "done", "stopped", "failed"} \subseteq Statuses
BY DEF Boards, TaskTypes, Statuses, Live, Launchable, Finished

(* The board after a poll that has found the workers of some tasks gone, and       *)
(* others at work.                                                              *)
Polled(lost, works) ==
    [t \in Tasks |->
        IF t \in lost THEN [task[t] EXCEPT !.status = "failed", !.space = NoSpace]
        ELSE IF t \in works THEN [task[t] EXCEPT !.status = "working"]
        ELSE task[t]]

LEMMA PolledBoard ==
    ASSUME task \in Boards, NEW lost, NEW works
    PROVE  /\ Polled(lost, works) \in Boards
           /\ \A t \in Tasks :
                /\ Polled(lost, works)[t].deps = task[t].deps
                /\ Polled(lost, works)[t].status =
                     IF t \in lost THEN "failed" ELSE IF t \in works THEN "working" ELSE task[t].status
<1>1. task \in [Tasks -> TaskTypes] /\ "failed" \in Statuses /\ "working" \in Statuses
  BY BoardTypes
<1>2. ASSUME NEW t \in Tasks
      PROVE  /\ Polled(lost, works)[t] \in TaskTypes
             /\ Polled(lost, works)[t].deps = task[t].deps
             /\ Polled(lost, works)[t].status =
                  IF t \in lost THEN "failed" ELSE IF t \in works THEN "working" ELSE task[t].status
  <2>1. task[t] \in TaskTypes
    BY <1>1
  <2>2. CASE t \in lost
    <3>1. Polled(lost, works)[t] = [task[t] EXCEPT !.status = "failed", !.space = NoSpace]
      BY <2>2 DEF Polled
    <3> QED
      BY <1>1, <2>1, <2>2, <3>1 DEF TaskTypes
  <2>3. CASE t \notin lost /\ t \in works
    <3>1. Polled(lost, works)[t] = [task[t] EXCEPT !.status = "working"]
      BY <2>3 DEF Polled
    <3> QED
      BY <1>1, <2>1, <2>3, <3>1 DEF TaskTypes
  <2>4. CASE t \notin lost /\ t \notin works
    BY <1>1, <2>1, <2>4 DEF Polled
  <2> QED
    BY <2>2, <2>3, <2>4
<1>3. Polled(lost, works) \in [Tasks -> TaskTypes]
  BY <1>2 DEF Polled
<1> QED
  BY <1>2, <1>3, BoardTypes

LEMMA PollAppliesSound == ASSUME IInv, PollApplies PROVE IInv'
<1>0. task \in Boards /\ FlightsOK /\ CallsOK /\ RestOK /\ SpacesOK /\ poll \in PollTypes /\ Graph(task)
  BY TypeParts DEF IInv
<1>1. /\ UNCHANGED <<up, herdr, booting, held, server, call, events>>
      /\ poll' = [IdlePoll EXCEPT !.count = poll.count]
      /\ space' = Swept(Spaces \ {task[t].space : t \in Lost})
  BY DEF PollApplies
<1>2. poll' \in PollTypes
  BY <1>0, <1>1, IdlePolls DEF PollTypes
<1>3. SpacesOK'
  BY <1>0, <1>1, Sweeps
<1>4. PICK works \in SUBSET {t \in StillWatched \cap poll.rows : task[t].status = "starting"} :
        IF Lost # {} THEN Advance(Polled(Lost, works), launching)
        ELSE task' = Polled(Lost, works) /\ UNCHANGED <<launching, flight, lostSlot>>
  BY DEF PollApplies, Polled
<1>5. \A t \in works : t \in Tasks => task[t].status = "starting"
  OBVIOUS
<1>6. /\ Polled(Lost, works) \in Boards
      /\ \A t \in Tasks :
           /\ Polled(Lost, works)[t].deps = task[t].deps
           /\ \/ Polled(Lost, works)[t].status = task[t].status
              \/ Lost # {} /\ Polled(Lost, works)[t].status = "failed"
              \/ task[t].status = "starting" /\ Polled(Lost, works)[t].status = "working"
  BY <1>0, <1>5, PolledBoard
<1>7. CASE Lost # {}
  <2>1. Graph(Polled(Lost, works))
    BY <1>0, <1>6, GraphKept
  <2>2. \A t \in Tasks : Polled(Lost, works)[t].status \in Planned => task[t].status \in Planned
    BY <1>6 DEF Planned
  <2>3. CallsOK' /\ booting' \in BOOLEAN /\ server' \in BOOLEAN /\ held' \subseteq Spaces /\ events' \in 0 .. MaxEvents
    BY <1>0, <1>1 DEF CallsOK, RestOK
  <2> QED
    BY <1>1, <1>2, <1>3, <1>4, <1>6, <1>7, <2>1, <2>2, <2>3, EndKeeps
<1>8. CASE Lost = {}
  <2>1. task' = Polled(Lost, works) /\ UNCHANGED <<launching, flight, lostSlot>>
    BY <1>4, <1>8
  <2>2. TypeOK'
    <3>1. FlightsOK' /\ CallsOK' /\ RestOK' /\ task' \in Boards
      BY <1>0, <1>1, <1>6, <2>1 DEF FlightsOK, CallsOK, RestOK
    <3> QED
      BY <1>2, <1>3, <3>1, TypePartsNext
  <2>3. \A t \in Tasks :
          /\ task'[t].deps = task[t].deps
          /\ task'[t].status = task[t].status \/ (task[t].status = "starting" /\ task'[t].status = "working")
    BY <1>6, <1>8, <2>1
  <2>4. Calm
    BY <1>1, <2>1, <2>3 DEF Calm, Running, Planned
  <2>5. Steady
    BY <1>1, <2>1, <2>3 DEF Steady, Live
  <2> QED
    BY <2>2, <2>4, <2>5, SteadyKeeps
<1> QED
  BY <1>7, <1>8

-----------------------------------------------------------------------------
(* start, stop, and the end of the orchestrator and of AiOpt.                    *)

LEMMA AllClosed == ASSUME space' = [s \in Spaces |-> Closed] PROVE SpacesOK'
<1> DEFINE T == [of : Tasks \cup {NoTask}, worker : BOOLEAN]
<1>1. Closed \in T
  BY DEF Closed
<1> HIDE DEF T
<1>2. space' \in [Spaces -> T]
  BY <1>1
<1> QED
  BY <1>2 DEF SpacesOK, T

LEMMA StaleFlightsTyped ==
    ASSUME FlightsOK
    PROVE  /\ StaleFlights \in [Flights -> FlightTypes]
           /\ \A f \in Flights : StaleFlights[f].pc = flight[f].pc
BY DEF FlightsOK, FlightTypes, StaleFlights

LEMMA EndedBoard ==
    ASSUME task \in Boards
    PROVE  /\ Ended(task) \in Boards
           /\ \A t \in Tasks :
                /\ Ended(task)[t].deps = task[t].deps
                /\ Ended(task)[t].status = IF task[t].status \in Live THEN "stopped" ELSE task[t].status
<1>1. task \in [Tasks -> TaskTypes] /\ "stopped" \in Statuses
  BY BoardTypes
<1>2. ASSUME NEW t \in Tasks
      PROVE  /\ Ended(task)[t] \in TaskTypes
             /\ Ended(task)[t].deps = task[t].deps
             /\ Ended(task)[t].status = IF task[t].status \in Live THEN "stopped" ELSE task[t].status
  <2>1. task[t] \in TaskTypes
    BY <1>1
  <2>2. CASE task[t].status \in Live
    <3>1. Ended(task)[t] = [task[t] EXCEPT !.status = "stopped", !.space = NoSpace]
      BY <2>2 DEF Ended
    <3> QED
      BY <1>1, <2>1, <2>2, <3>1 DEF TaskTypes
  <2>3. CASE task[t].status \notin Live
    BY <1>1, <2>1, <2>3 DEF Ended
  <2> QED
    BY <2>2, <2>3
<1>3. Ended(task) \in [Tasks -> TaskTypes]
  BY <1>2 DEF Ended
<1> QED
  BY <1>2, <1>3, BoardTypes

(* A step after which the workbench is not ready, or is still to advance, need      *)
(* only be calm.                                                                *)
LEMMA PauseKeeps ==
    ASSUME IInv, task' \in Boards, FlightsOK', RestOK', SpacesOK', UNCHANGED <<call, poll>>,
           \A t \in Tasks :
             /\ task'[t].deps = task[t].deps
             /\ task'[t].status = "absent" => task[t].status = "absent"
             /\ task'[t].status \in Planned => task'[t].status = task[t].status,
           launching' \subseteq launching,
           \A f \in Flights : flight'[f].pc = flight[f].pc,
           up' # "ready" \/ herdr' = FALSE \/ booting' = TRUE
    PROVE  IInv'
<1>1. CallsOK' /\ poll' \in PollTypes
  BY TypeParts DEF IInv, CallsOK
<1>2. TypeOK'
  BY <1>1, TypePartsNext
<1>3. Calm
  BY DEF Calm, Running
<1>4. Advancing'
  BY NotReadyAdvancing
<1> QED
  BY <1>2, <1>3, <1>4, CalmKeeps

LEMMA StartSound == ASSUME IInv, Start PROVE IInv'
<1>0. task \in Boards /\ FlightsOK /\ RestOK /\ SpacesOK
  BY TypeParts DEF IInv
<1>1. /\ up' = "starting" /\ flight' = StaleFlights
      /\ UNCHANGED <<herdr, booting, held, server, space, task, launching, call, poll, lostSlot, events>>
  BY DEF Start
<1>2. task' \in Boards /\ FlightsOK' /\ RestOK' /\ SpacesOK' /\ \A f \in Flights : flight'[f].pc = flight[f].pc
  BY <1>0, <1>1, StaleFlightsTyped DEF FlightsOK, RestOK, SpacesOK
<1> QED
  BY <1>1, <1>2, PauseKeeps

LEMMA ReadySound == ASSUME IInv, Ready PROVE IInv'
<1>0. task \in Boards /\ FlightsOK /\ RestOK /\ SpacesOK
  BY TypeParts DEF IInv
<1>1. up' = "ready" /\ UNCHANGED <<task, launching, flight, call, poll, lostSlot>>
  BY DEF Ready
<1>2. SpacesOK'
  <2>1. space' = space \/ space' = [s \in Spaces |-> Closed]
    BY DEF Ready
  <2> QED
    BY <1>0, <2>1, AllClosed DEF SpacesOK
<1>3. /\ herdr' \in BOOLEAN /\ booting' \in BOOLEAN /\ server' \in BOOLEAN /\ events' \in 0 .. MaxEvents
      /\ held' \subseteq Spaces
      /\ herdr' = FALSE \/ booting' = TRUE
  <2>1. HeldSpaces \subseteq Spaces
    BY <1>0 DEF HeldSpaces, Boards
  <2> QED
    BY <1>0, <2>1, EventBound DEF Ready, RestOK
<1>4. task' \in Boards /\ FlightsOK' /\ RestOK' /\ \A f \in Flights : flight'[f].pc = flight[f].pc
  BY <1>0, <1>1, <1>3 DEF FlightsOK, RestOK
<1> QED
  BY <1>1, <1>2, <1>3, <1>4, PauseKeeps

LEMMA BootSweepsSound == ASSUME IInv, BootSweeps PROVE IInv'
<1>0. task \in Boards /\ CallsOK /\ RestOK /\ SpacesOK /\ poll \in PollTypes /\ Graph(task)
  BY TypeParts DEF IInv
<1>1. /\ space' = Swept(held) /\ booting' = FALSE /\ held' = {} /\ Advance(task, launching)
      /\ UNCHANGED <<up, herdr, server, call, poll, events>>
  BY DEF BootSweeps
<1>2. SpacesOK'
  BY <1>0, <1>1, Sweeps
<1>3. CallsOK' /\ booting' \in BOOLEAN /\ server' \in BOOLEAN /\ held' \subseteq Spaces /\ events' \in 0 .. MaxEvents
  BY <1>0, <1>1 DEF CallsOK, RestOK
<1> QED
  BY <1>0, <1>1, <1>2, <1>3, EndKeeps

LEMMA OrchestratorExitSound == ASSUME IInv, OrchestratorExit PROVE IInv'
<1>0. task \in Boards /\ FlightsOK /\ RestOK /\ SpacesOK
  BY TypeParts DEF IInv
<1>1. /\ up' = "error" /\ Event
      /\ UNCHANGED <<herdr, booting, held, server, space, task, launching, flight, call, poll, lostSlot>>
  BY DEF OrchestratorExit
<1>2. task' \in Boards /\ FlightsOK' /\ RestOK' /\ SpacesOK'
  BY <1>0, <1>1, EventBound DEF FlightsOK, RestOK, SpacesOK
<1> QED
  BY <1>1, <1>2, PauseKeeps

LEMMA StopSound == ASSUME IInv, Stop PROVE IInv'
<1>0. task \in Boards /\ FlightsOK /\ RestOK /\ SpacesOK
  BY TypeParts DEF IInv
<1>1. /\ up' \in {"stopping", "stopped"} /\ herdr' = FALSE /\ flight' = StaleFlights /\ Event
      /\ UNCHANGED <<booting, held, server, space, call, poll, lostSlot>>
      /\ (task' = task /\ launching' = launching) \/ (task' = Ended(task) /\ launching' = {})
  BY DEF Stop
<1>2. /\ task' \in Boards /\ launching' \subseteq launching
      /\ \A t \in Tasks :
           /\ task'[t].deps = task[t].deps
           /\ task'[t].status = "absent" => task[t].status = "absent"
           /\ task'[t].status \in Planned => task'[t].status = task[t].status
  BY <1>0, <1>1, EndedBoard DEF Planned
<1>3. FlightsOK' /\ RestOK' /\ SpacesOK' /\ \A f \in Flights : flight'[f].pc = flight[f].pc
  BY <1>0, <1>1, <1>2, EventBound, StaleFlightsTyped DEF FlightsOK, RestOK, SpacesOK
<1> QED
  BY <1>1, <1>2, <1>3, PauseKeeps

LEMMA StopDoneSound == ASSUME IInv, StopDone PROVE IInv'
<1>0. task \in Boards /\ FlightsOK /\ RestOK /\ SpacesOK
  BY TypeParts DEF IInv
<1>1. /\ up' = "stopped" /\ server' = FALSE /\ space' = [s \in Spaces |-> Closed]
      /\ UNCHANGED <<herdr, booting, held, flight, call, poll, lostSlot, events>>
      /\ task' = Ended(task) /\ launching' = {}
  BY DEF StopDone
<1>2. /\ task' \in Boards
      /\ \A t \in Tasks :
           /\ task'[t].deps = task[t].deps
           /\ task'[t].status = "absent" => task[t].status = "absent"
           /\ task'[t].status \in Planned => task'[t].status = task[t].status
  BY <1>0, <1>1, EndedBoard DEF Planned
<1>3. FlightsOK' /\ RestOK' /\ SpacesOK'
  BY <1>0, <1>1 DEF FlightsOK, RestOK, SpacesOK, Closed
<1> QED
  BY <1>1, <1>2, <1>3, PauseKeeps

LEMMA QuitSound == ASSUME IInv, Quit PROVE IInv'
<1>0. task \in Boards /\ RestOK
  BY TypeParts DEF IInv
<1>1. /\ up' = "stopped" /\ herdr' = FALSE /\ server' = FALSE /\ booting' = FALSE /\ held' = {} /\ Event
      /\ space' = [s \in Spaces |-> Closed] /\ launching' = {} /\ UNCHANGED lostSlot
      /\ flight' = [f \in Flights |-> NoFlight] /\ call' = [c \in Calls |-> NoCall] /\ poll' = IdlePoll
      /\ task' = [t \in Tasks |-> [Ended(task)[t] EXCEPT !.space = NoSpace, !.agent = FALSE]]
  BY DEF Quit
<1>2. /\ task' \in Boards
      /\ \A t \in Tasks :
           /\ task'[t].deps = task[t].deps
           /\ task'[t].status = IF task[t].status \in Live THEN "stopped" ELSE task[t].status
  <2>1. /\ Ended(task) \in Boards
        /\ \A t \in Tasks :
             /\ Ended(task)[t].deps = task[t].deps
             /\ Ended(task)[t].status = IF task[t].status \in Live THEN "stopped" ELSE task[t].status
    BY <1>0, EndedBoard
  <2>2. \A t \in Tasks : /\ task'[t] \in TaskTypes
                         /\ task'[t].deps = Ended(task)[t].deps
                         /\ task'[t].status = Ended(task)[t].status
    <3>1. SUFFICES ASSUME NEW t \in Tasks
                   PROVE  /\ task'[t] \in TaskTypes
                          /\ task'[t].deps = Ended(task)[t].deps
                          /\ task'[t].status = Ended(task)[t].status
      OBVIOUS
    <3>2. Ended(task)[t] \in TaskTypes /\ Ended(task)[t].status \in Statuses
      BY <2>1, BoardTypes DEF TaskTypes
    <3>3. task'[t] = [Ended(task)[t] EXCEPT !.space = NoSpace, !.agent = FALSE]
      BY <1>1
    <3> QED
      BY <3>2, <3>3 DEF TaskTypes
  <2>3. task' \in [Tasks -> TaskTypes]
    BY <1>1, <2>2
  <2> QED
    BY <2>1, <2>2, <2>3, BoardTypes
<1>3. TypeOK'
  <2>1. FlightsOK' /\ CallsOK'
    BY <1>1 DEF FlightsOK, CallsOK, FlightTypes, CallTypes, NoFlight, NoCall
  <2>2. SpacesOK' /\ poll' \in PollTypes
    <3>1. SpacesOK'
      BY <1>1, AllClosed
    <3>2. 0 \in 0 .. SweepEvery
      BY BoundsAssumption
    <3>3. poll' \in PollTypes
      BY <1>1, <3>2 DEF IdlePoll, PollTypes
    <3> QED
      BY <3>1, <3>3
  <2>3. RestOK'
    BY <1>0, <1>1, EventBound DEF RestOK
  <2> QED
    BY <1>2, <2>1, <2>2, <2>3, TypePartsNext
<1>4. Calm
  <2>1. /\ \A f \in Flights : flight'[f].pc = "none"
        /\ \A c \in Calls : call'[c].pc = "none"
    BY <1>1 DEF NoFlight, NoCall
  <2>2. \A t \in Tasks :
          /\ task'[t].deps = task[t].deps
          /\ task'[t].status = "absent" => task[t].status = "absent"
          /\ task'[t].status \in Planned => task'[t].status = task[t].status
    BY <1>2 DEF Planned
  <2> QED
    BY <1>1, <2>1, <2>2 DEF Calm, Running
<1>5. Advancing'
  BY <1>1, NotReadyAdvancing
<1> QED
  BY <1>3, <1>4, <1>5, CalmKeeps

-----------------------------------------------------------------------------
(* The invariant.                                                              *)

LEMMA InitSound == ASSUME Init PROVE IInv
<1>1. /\ up = "stopped" /\ herdr = FALSE /\ booting = FALSE /\ held = {} /\ server = FALSE
      /\ space = [s \in Spaces |-> Closed] /\ task \in SavedBoards /\ launching = {}
      /\ flight = [f \in Flights |-> NoFlight] /\ call = [c \in Calls |-> NoCall]
      /\ poll = IdlePoll /\ lostSlot = FALSE /\ events = 0
  BY DEF Init
<1>2. task \in Boards /\ Graph(task)
  BY <1>1 DEF SavedBoards, Boards, Graph, Acyclic, NoLooseEnd
<1>3. FlightsOK /\ CallsOK /\ SpacesOK
  BY <1>1 DEF FlightsOK, CallsOK, SpacesOK, FlightTypes, CallTypes, NoFlight, NoCall, Closed
<1>4. RestOK /\ poll \in PollTypes
  <2>1. 0 \in 0 .. SweepEvery /\ 0 \in 0 .. MaxEvents
    BY BoundsAssumption
  <2> QED
    BY <1>1, <2>1 DEF RestOK, PollTypes, IdlePoll
<1>5. TypeOK
  BY <1>2, <1>3, <1>4, TypeParts
<1>6. /\ \A f \in Flights : flight[f].pc = "none"
      /\ \A c \in Calls : call[c].pc = "none"
  BY <1>1 DEF NoFlight, NoCall
<1>7. Unlaunched(task, launching) /\ Uncalled(task) /\ Named /\ Flying(launching)
  BY <1>1, <1>6 DEF Unlaunched, Uncalled, Named, Flying, Running
<1>8. Advancing
  BY <1>1 DEF Advancing, Waiting, CanLaunch
<1> QED
  BY <1>2, <1>5, <1>7, <1>8 DEF IInv

LEMMA NextSound == ASSUME IInv, [Next]_vars PROVE IInv'
<1>1. ASSUME NEW t \in Tasks, Create(t) \/ Update(t) \/ Launch(t) \/ Message(t) \/ Remove(t) PROVE IInv'
  BY <1>1, CreateSound, UpdateSound, LaunchSound, MessageSound, RemoveSound
<1>2. ASSUME NEW S \in SUBSET Tasks, Approve(S) PROVE IInv'
  BY <1>2, ApproveSound
<1>3. ASSUME NEW t \in Tasks, NEW kind \in {"complete", "stop"}, End(kind, t) PROVE IInv'
  BY <1>3, EndSound
<1>4. ASSUME NEW f \in Flights, FlightStep(f) PROVE IInv'
  BY <1>4, FlightCreatedSound, FlightRecordsSound, FlightStartedSound, FlightPromptedSound, FlightThrowsSound,
     FlightClosesSound DEF FlightStep
<1>5. ASSUME NEW c \in Calls, CallStep(c) PROVE IInv'
  BY <1>5, EndReadSound, EndClosedSound, MessageAnsweredSound, RemoveAnsweredSound DEF CallStep
<1>6. CASE PollStep
  BY <1>6, TickSound, PollSweepsSound, PollListsSound, PollAppliesSound, PollThrowsSound DEF PollStep
<1>7. ASSUME NEW s \in Spaces, WorkerDies(s) PROVE IInv'
  BY <1>7, WorkerDiesSound
<1>8. CASE Lifecycle
  BY <1>8, StartSound, ReadySound, BootSweepsSound, OrchestratorExitSound, StopSound, StopDoneSound, QuitSound
     DEF Lifecycle
<1>9. CASE UNCHANGED vars
  <2>1. server' \in BOOLEAN /\ SpacesOK' /\ poll' \in PollTypes /\ events' \in 0 .. MaxEvents
    BY <1>9, TypeParts DEF IInv, vars, RestOK, SpacesOK
  <2> QED
    BY <1>9, <2>1, AsideKeeps DEF vars
<1> QED
  BY <1>1, <1>2, <1>3, <1>4, <1>5, <1>6, <1>7, <1>8, <1>9 DEF Next, Board

(* Whatever the users, the coordinator, herdr and the launches do, in any order:   *)
(* the board is well formed, and the dependencies of its tasks (workbenchManager's  *)
(* updateTask, insertTask and removeTask keep them) form no cycle and name no task   *)
(* that is gone.                                                                *)
THEOREM BoardIsSound == Spec => []BoardSound
<1>1. Init => IInv
  BY InitSound
<1>2. IInv /\ [Next]_vars => IInv'
  BY NextSound
<1>3. IInv => BoardSound
  BY DEF IInv, BoardSound, Graph, Acyclic, NoLooseEnd, NoDependencyCycle, NoDanglingDependency
<1> QED
  BY <1>1, <1>2, <1>3, PTL DEF Spec

(* An approved plan goes on by itself: whenever nothing is in flight, no approved   *)
(* task whose dependencies are done is left beside a free slot, except after a      *)
(* launch that ended without a worker (the advance() calls of workbenchManager).   *)
THEOREM PlanAlwaysAdvances == Spec => []PlanAdvances
<1>1. Init => IInv
  BY InitSound
<1>2. IInv /\ [Next]_vars => IInv'
  BY NextSound
<1>3. IInv => PlanAdvances
  <2>1. SUFFICES ASSUME IInv, Quiet, ~lostSlot PROVE \A t \in Tasks : ~Waiting(t)
    BY DEF PlanAdvances
  <2>2. \A c \in Calls : call[c].pc # "close"
    BY <2>1 DEF Quiet
  <2> QED
    BY <2>1, <2>2 DEF IInv, Advancing, Quiet
<1> QED
  BY <1>1, <1>2, <1>3, PTL DEF Spec

-----------------------------------------------------------------------------
(* What has ended.                                                             *)

(* What may still move a task that ended.                                       *)
StaysEnded ==
    \A t \in Tasks :
         task[t].status \in Finished /\ task'[t].status # task[t].status =>
            \/ task'[t].status = "absent"
            \/ task'[t].status = "starting" /\ t \in launching'
            \/ \E c \in Calls : call[c].task = t /\ call'[c].pc # call[c].pc

(* advance launches approved tasks only.                                        *)
LEMMA AdvanceMoves ==
    ASSUME NEW b \in Boards, NEW l, Advance(b, l), NEW t \in Tasks
    PROVE  task'[t].status = b[t].status \/ b[t].status = "approved"
<1>1. PICK S : /\ \A u \in S : u \in Tasks => b[u].status = "approved"
               /\ LaunchAll(S, b, l)
  BY DEF Advance
<1> QED
  BY <1>1 DEF LaunchAll

(* A step that ends with advance leaves a task that ended where its board put it.  *)
LEMMA AdvanceStays ==
    ASSUME NEW b \in Boards, Advance(b, launching),
           \A t \in Tasks : task[t].status \in Finished =>
               \/ b[t].status = task[t].status
               \/ b[t].status = "absent"
               \/ b[t].status \in Finished /\ \E c \in Calls : call[c].task = t /\ call'[c].pc # call[c].pc
    PROVE  StaysEnded
BY AdvanceMoves DEF StaysEnded, Finished

(* A step in which only a task that lives gets another status.                   *)
LEMMA OnlyLiveMove ==
    ASSUME \A t \in Tasks : task[t].status \in Finished => task'[t].status = task[t].status
    PROVE  StaysEnded
BY DEF StaysEnded

LEMMA FlightStays == ASSUME IInv, NEW f \in Flights, FlightStep(f) PROVE StaysEnded
<1>0. task \in Boards /\ f[1] \in Tasks
  BY TypeParts, FlightTask DEF IInv
<1>1. \/ task' = task
      \/ \E s : task' = [task EXCEPT ![f[1]].space = s]
      \/ \E s : task' = [task EXCEPT ![f[1]].space = s, ![f[1]].agent = TRUE]
      \/ task' = [task EXCEPT ![f[1]].status = "working"] /\ task[f[1]].status = "starting"
      \/ task' = Failed(task, f[1])
  BY DEF FlightStep, FlightCreated, FlightRecords, FlightStarted, FlightPrompted, FlightThrows, FlightCloses
<1>2. CASE task' = Failed(task, f[1])
  BY <1>0, <1>2, FailedBoard, OnlyLiveMove DEF Finished
<1>3. ASSUME NEW t \in Tasks, task[t].status \in Finished, task' # Failed(task, f[1])
      PROVE  task'[t].status = task[t].status
  <2>1. CASE \E s : task' = [task EXCEPT ![f[1]].space = s]
    BY <1>0, <2>1 DEF Boards
  <2>2. CASE \E s : task' = [task EXCEPT ![f[1]].space = s, ![f[1]].agent = TRUE]
    BY <1>0, <2>2 DEF Boards
  <2>3. CASE task' = [task EXCEPT ![f[1]].status = "working"] /\ task[f[1]].status = "starting"
    BY <1>0, <1>3, <2>3 DEF Boards, Finished
  <2> QED
    BY <1>1, <1>3, <2>1, <2>2, <2>3
<1> QED
  BY <1>2, <1>3, OnlyLiveMove

LEMMA CallStays == ASSUME IInv, NEW c \in Calls, CallStep(c) PROVE StaysEnded
<1> DEFINE t == call[c].task
<1>0. task \in Boards /\ CallsOK
  BY TypeParts DEF IInv
<1>1. call[c].pc # "none" /\ t \in Tasks
  BY DEF IInv, Named, CallStep, EndRead, EndClosed, MessageAnswered, RemoveAnswered
<1>2. CASE EndRead(c)
  <2>1. call'[c].pc # call[c].pc
    <3>1. call[c].pc = "tail"
      BY <1>2 DEF EndRead
    <3>2. \/ EndCall(c)
          \/ call' = [call EXCEPT ![c].pc = "close", ![c].space = task[t].space]
      BY <1>2 DEF EndRead
    <3>3. CASE EndCall(c)
      BY <1>0, <3>1, <3>3, CallEnded
    <3>4. CASE call' = [call EXCEPT ![c].pc = "close", ![c].space = task[t].space]
      BY <1>0, <3>1, <3>4 DEF CallsOK, CallTypes
    <3> QED
      BY <3>2, <3>3, <3>4
  <2>2. /\ Over(call[c].kind, t) \in Boards
        /\ \A u \in Tasks \ {t} : Over(call[c].kind, t)[u].status = task[u].status
        /\ Over(call[c].kind, t)[t].status \in {task[t].status, "done", "stopped"}
    BY <1>0, <1>1, OverBoard
  <2>3. CASE task' = Over(call[c].kind, t)
    BY <1>1, <2>1, <2>2, <2>3 DEF StaysEnded
  <2>4. CASE Advance(Over(call[c].kind, t), launching)
    BY <1>1, <2>1, <2>2, <2>4, AdvanceStays DEF Finished
  <2> QED
    BY <1>2, <2>3, <2>4 DEF EndRead
<1>3. CASE EndClosed(c)
  BY <1>0, <1>3, AdvanceStays DEF EndClosed
<1>4. CASE MessageAnswered(c)
  <2>1. call'[c].pc # call[c].pc
    BY <1>0, <1>1, <1>4, CallEnded DEF MessageAnswered
  <2>2. \A u \in Tasks \ {t} : task'[u].status = task[u].status
    BY <1>0, <1>4 DEF MessageAnswered, Boards
  <2> QED
    BY <1>1, <2>1, <2>2 DEF StaysEnded
<1>5. CASE RemoveAnswered(c)
  BY <1>0, <1>1, <1>5, DeletedGraph, AdvanceStays, OnlyLiveMove DEF RemoveAnswered
<1> QED
  BY <1>2, <1>3, <1>4, <1>5 DEF CallStep

LEMMA BoardStays == ASSUME IInv, Board PROVE StaysEnded
<1>0. task \in Boards
  BY TypeParts DEF IInv
<1>1. ASSUME NEW t \in Tasks, Create(t) PROVE StaysEnded
  <2>1. PICK deps \in SUBSET {d \in Tasks \ {t} : task[d].status # "absent"}, auto \in BOOLEAN :
          IF auto THEN Advance(WithNew(t, "approved", deps), launching) ELSE task' = WithNew(t, "proposed", deps)
    BY <1>1 DEF Create, WithNew
  <2>2. \A st \in Planned : /\ WithNew(t, st, deps) \in Boards
                            /\ \A u \in Tasks \ {t} : WithNew(t, st, deps)[u] = task[u]
    BY <1>1, NewTaskBoard DEF Create
  <2>3. task[t].status \notin Finished
    BY <1>1 DEF Create, Unused, Finished
  <2>4. CASE auto
    <3>1. /\ WithNew(t, "approved", deps) \in Boards
          /\ \A u \in Tasks : task[u].status \in Finished => WithNew(t, "approved", deps)[u].status = task[u].status
      BY <2>2, <2>3 DEF Planned
    <3> QED
      BY <2>1, <2>4, <3>1, AdvanceStays
  <2>5. CASE ~auto
    BY <2>1, <2>2, <2>3, <2>5, OnlyLiveMove DEF Planned
  <2> QED
    BY <2>4, <2>5
<1>2. ASSUME NEW t \in Tasks, Update(t) PROVE StaysEnded
  <2>1. PICK deps \in SUBSET {d \in Tasks \ {t} : task[d].status # "absent"} :
          Advance([task EXCEPT ![t].deps = deps], launching)
    BY <1>2 DEF Update
  <2> DEFINE b == [task EXCEPT ![t].deps = deps]
  <2>2. b \in Boards /\ \A u \in Tasks : b[u].status = task[u].status
    BY <1>0 DEF Boards
  <2>3. Advance(b, launching)
    BY <2>1
  <2> HIDE DEF b
  <2> QED
    BY <2>2, <2>3, AdvanceStays
<1>3. ASSUME NEW S \in SUBSET Tasks, Approve(S) PROVE StaysEnded
  <2> DEFINE b == [t \in Tasks |-> IF t \in S /\ task[t].status = "proposed" THEN [task[t] EXCEPT !.status = "approved"]
                                   ELSE task[t]]
  <2>1. b \in Boards /\ \A u \in Tasks : task[u].status \in Finished => b[u].status = task[u].status
    BY <1>0 DEF Boards, Launchable, Finished
  <2>2. Advance(b, launching)
    BY <1>3 DEF Approve
  <2> HIDE DEF b
  <2> QED
    BY <2>1, <2>2, AdvanceStays
<1>4. ASSUME NEW t \in Tasks, Launch(t) PROVE StaysEnded
  BY <1>0, <1>4 DEF Launch, LaunchAll, StaysEnded, Boards
<1>5. ASSUME NEW t \in Tasks, Message(t) PROVE StaysEnded
  BY <1>5, OnlyLiveMove DEF Message
<1>6. ASSUME NEW t \in Tasks, Remove(t) PROVE StaysEnded
  BY <1>0, <1>6, DeletedGraph, AdvanceStays, OnlyLiveMove DEF Remove
<1>7. ASSUME NEW t \in Tasks, NEW kind \in {"complete", "stop"}, End(kind, t) PROVE StaysEnded
  <2>1. task[t].status \notin Finished
    BY <1>7 DEF End, Live, Finished
  <2>2. /\ Over(kind, t) \in Boards
        /\ \A u \in Tasks : task[u].status \in Finished => Over(kind, t)[u].status = task[u].status
    BY <1>0, <2>1, OverBoard
  <2> QED
    BY <1>7, <2>2, AdvanceStays, OnlyLiveMove DEF End
<1> QED
  BY <1>1, <1>2, <1>3, <1>4, <1>5, <1>6, <1>7 DEF Board

LEMMA PollStays == ASSUME IInv, PollStep PROVE StaysEnded
<1>0. task \in Boards
  BY TypeParts DEF IInv
<1>1. CASE PollApplies
  <2>1. PICK works \in SUBSET {t \in StillWatched \cap poll.rows : task[t].status = "starting"} :
          IF Lost # {} THEN Advance(Polled(Lost, works), launching)
          ELSE task' = Polled(Lost, works)
    BY <1>1 DEF PollApplies, Polled
  <2>2. /\ \A t \in works : task[t].status = "starting"
        /\ \A t \in Lost : task[t].status \in Live
    BY DEF Lost, StillWatched
  <2>3. /\ Polled(Lost, works) \in Boards
        /\ \A t \in Tasks : task[t].status \in Finished => Polled(Lost, works)[t].status = task[t].status
    BY <1>0, <2>2, PolledBoard DEF Live, Finished
  <2> QED
    BY <2>1, <2>3, AdvanceStays, OnlyLiveMove
<1>2. CASE ~PollApplies
  BY <1>2, OnlyLiveMove DEF PollStep, Tick, PollSweeps, PollLists, PollThrows
<1> QED
  BY <1>1, <1>2

LEMMA LifecycleStays == ASSUME IInv, Lifecycle PROVE StaysEnded
<1>0. task \in Boards
  BY TypeParts DEF IInv
<1>1. CASE BootSweeps
  BY <1>0, <1>1, AdvanceStays DEF BootSweeps
<1>2. CASE Quit
  <2>1. \A t \in Tasks : task'[t].status = Ended(task)[t].status
    <3>1. SUFFICES ASSUME NEW t \in Tasks PROVE task'[t].status = Ended(task)[t].status
      OBVIOUS
    <3>2. Ended(task)[t] \in TaskTypes
      BY <1>0, EndedBoard, BoardTypes
    <3>3. task'[t] = [Ended(task)[t] EXCEPT !.space = NoSpace, !.agent = FALSE]
      BY <1>2 DEF Quit
    <3> QED
      BY <3>2, <3>3 DEF TaskTypes
  <2> QED
    BY <1>0, <2>1, EndedBoard, OnlyLiveMove DEF Live, Finished
<1>3. CASE Start \/ Ready \/ OrchestratorExit \/ Stop \/ StopDone
  <2>1. task' = task \/ task' = Ended(task)
    BY <1>3 DEF Start, Ready, OrchestratorExit, Stop, StopDone
  <2> QED
    BY <1>0, <2>1, EndedBoard, OnlyLiveMove DEF Live, Finished
<1> QED
  BY <1>1, <1>2, <1>3 DEF Lifecycle

(* A task that ended stays as it ended until the user launches or removes it, or a  *)
(* call made while it lived is answered: no late answer of herdr, launch from       *)
(* before, start, stop or quit moves it.                                        *)
THEOREM EndedStays == Spec => EndedStaysEnded
<1>1. Init => IInv
  BY InitSound
<1>2. IInv /\ [Next]_vars => IInv'
  BY NextSound
<1>3. IInv /\ [Next]_vars => [StaysEnded]_vars
  <2>1. SUFFICES ASSUME IInv, Next PROVE StaysEnded
    OBVIOUS
  <2>2. ASSUME NEW f \in Flights, FlightStep(f) PROVE StaysEnded
    BY <2>1, <2>2, FlightStays
  <2>3. ASSUME NEW c \in Calls, CallStep(c) PROVE StaysEnded
    BY <2>1, <2>3, CallStays
  <2>4. ASSUME NEW s \in Spaces, WorkerDies(s) PROVE StaysEnded
    BY <2>4, OnlyLiveMove DEF WorkerDies
  <2> QED
    BY <2>1, <2>2, <2>3, <2>4, BoardStays, PollStays, LifecycleStays DEF Next
<1> QED
  BY <1>1, <1>2, <1>3, PTL DEF Spec, EndedStaysEnded, StaysEnded

=============================================================================
