--------------------------- MODULE WorkbenchTasks ---------------------------
(* The task board of the workbench (workbench/workbenchManager.ts): tasks are    *)
(* proposed, approved, launched as workers in workspaces of AiOpt's own herdr    *)
(* session, watched by a poll, ended and removed.                                *)
(*                                                                               *)
(* The main process is one thread; what lies between two awaits is one action.   *)
(* A launch (runLaunch) is a *flight*, an end, message or removal of a task a    *)
(* *call*: each is a small process whose program counter names the answer it     *)
(* awaits. herdr is another process: `space' is what it has open, and a step     *)
(* that lets it act is separate from the one in which the answer arrives         *)
(* wherever something can happen in between. "working" stands for working,       *)
(* blocked and review: who may do what to the task is the same in all three.     *)
(* "approved" is a proposed task whose approved flag is set: on any other task    *)
(* the flag says nothing.                                                         *)
EXTENDS Integers, FiniteSets

CONSTANTS
    Tasks,        \* ids of the tasks that can be on the board
    NoTask,       \* no task
    MaxSpaces,    \* bound: herdr workspaces open or remembered at once
    MaxCalls,     \* bound: end, message and remove calls in flight at once
    LiveLimit,    \* WORKBENCH_LIMITS.liveTasks
    SweepEvery,   \* SWEEP_EVERY_POLLS
    MaxEvents     \* bound: requests of the user and the coordinator, herdr calls that fail,
                  \* workers that die, stops, quits and exits of the orchestrator

ASSUME BoundsAssumption ==
    /\ IsFiniteSet(Tasks) /\ NoTask \notin Tasks
    /\ MaxSpaces \in Nat \ {0}
    /\ MaxCalls \in Nat
    /\ LiveLimit \in Nat \ {0}
    /\ SweepEvery \in Nat \ {0}
    /\ MaxEvents \in Nat

VARIABLES
    up,         \* status: what the workbench says of itself
    herdr,      \* whether the manager holds a herdr client
    booting,    \* start() awaits its sweep
    held,       \* what the tasks held when that sweep began
    server,     \* whether the herdr server runs
    space,      \* what the server has open: whose worker each workspace is for, and if it runs
    task,       \* the board
    launching,  \* the ids launchTask has under way
    flight,     \* the runLaunch processes, up to two per task
    call,       \* endTask, messageTask and removeTask processes
    poll,       \* the poll, and the sweep of start()
    lostSlot,   \* history: a launch ended without a worker, and nothing has advanced since
    events      \* how many of the bounded events there were

vars == <<up, herdr, booting, held, server, space, task, launching, flight, call, poll, lostSlot, events>>

Spaces == 1 .. MaxSpaces
NoSpace == 0
Flights == Tasks \X {1, 2}
Calls == 1 .. MaxCalls

Live == {"starting", "working"}
Finished == {"done", "stopped", "failed"}
Launchable == {"proposed", "approved"} \cup Finished
Closed == [of |-> NoTask, worker |-> FALSE]
Absent == [status |-> "absent", deps |-> {}, space |-> NoSpace, agent |-> FALSE]
NoFlight == [pc |-> "none", space |-> NoSpace, fresh |-> FALSE]
NoCall == [pc |-> "none", kind |-> "none", task |-> NoTask, space |-> NoSpace]
IdlePoll == [pc |-> "idle", held |-> {}, watched |-> {}, rows |-> {}, count |-> 0]

TypeOK ==
    /\ up \in {"stopped", "starting", "ready", "stopping", "error"}
    /\ herdr \in BOOLEAN
    /\ booting \in BOOLEAN
    /\ held \subseteq Spaces
    /\ server \in BOOLEAN
    /\ space \in [Spaces -> [of : Tasks \cup {NoTask}, worker : BOOLEAN]]
    /\ task \in [Tasks -> [status : Live \cup Launchable \cup {"absent"},
                           deps : SUBSET Tasks, space : Spaces \cup {NoSpace}, agent : BOOLEAN]]
    /\ launching \subseteq Tasks
    /\ flight \in [Flights -> [pc : {"none", "create", "made", "start", "prompt", "discard", "abandon"},
                               space : Spaces \cup {NoSpace}, fresh : BOOLEAN]]
    /\ call \in [Calls -> [pc : {"none", "tail", "close", "send", "git"},
                           kind : {"none", "complete", "stop", "message", "remove"},
                           task : Tasks \cup {NoTask}, space : Spaces \cup {NoSpace}]]
    /\ poll \in [pc : {"idle", "sweep", "list", "rows"}, held : SUBSET Spaces, watched : SUBSET Tasks,
                 rows : SUBSET Tasks, count : 0 .. SweepEvery]
    /\ lostSlot \in BOOLEAN
    /\ events \in 0 .. MaxEvents

-----------------------------------------------------------------------------
(* What nobody has to do, or may do too often.                                *)
Event == events < MaxEvents /\ events' = events + 1

(* Reading the board and the server.                                          *)

IsOpen(s) == space[s].of # NoTask
HasWorker(t) == \E s \in Spaces : space[s] = [of |-> t, worker |-> TRUE]
HeldSpaces == {task[t].space : t \in {u \in Tasks : task[u].status # "absent"}} \ {NoSpace}
LiveTasks(b) == {t \in Tasks : b[t].status \in Live}
Room(b) == LET n == Cardinality(LiveTasks(b)) IN IF n < LiveLimit THEN LiveLimit - n ELSE 0

(* herdr never gives an id twice; one nothing remembers is as good as new.     *)
Remembered(s) ==
    \/ IsOpen(s)
    \/ s \in poll.held \cup held
    \/ \E t \in Tasks : task[t].space = s
    \/ \E f \in Flights : flight[f].space = s
    \/ \E c \in Calls : call[c].space = s

FreeFlights(t) == {f \in Flights : f[1] = t /\ flight[f].pc = "none"}

(* A task id is minted once: nothing in flight still names it.                 *)
Unused(t) ==
    /\ task[t].status = "absent"
    /\ \A f \in Flights : f[1] = t => flight[f].pc = "none"
    /\ \A c \in Calls : call[c].task # t

Free(c) == call[c].pc = "none" /\ \A d \in Calls : call[d].pc = "none" => c <= d

(* dependenciesMet: only `done' satisfies a dependency.                        *)
DependenciesMet(b, t) == \A d \in b[t].deps : b[d].status = "done"

CanLaunch(b, l, t) ==
    /\ up = "ready"
    /\ herdr
    /\ b[t].status \in Launchable
    /\ t \notin l
    /\ Room(b) > 0
    /\ DependenciesMet(b, t)
    /\ FreeFlights(t) # {}

(* What can be reached along a set of edges: what every set of tasks holds that *)
(* the edges do not lead out of, once it holds what x leads to.                  *)
ClosedUnder(E, C) == \A y \in C, z \in Tasks : <<y, z>> \in E => z \in C
Reaches(E, x, z) ==
    \A C \in SUBSET Tasks : ClosedUnder(E, C) /\ (\A y \in Tasks : <<x, y>> \in E => y \in C) => z \in C
Edges(b) == {e \in Tasks \X Tasks : e[2] \in b[e[1]].deps}

(* Mutant: only the task itself is refused.                                    *)
DependsOnItself(b, t, deps) == t \in deps

(* From a dependency, following the edges, back to the task.                   *)
WouldCreateCycle(b, t, deps) ==
    \E d \in deps : d = t \/ Reaches(Edges([b EXCEPT ![t].deps = deps]), d, t)

(* The board as loadTasks reads it: no worker survives AiOpt, and what was live *)
(* is stopped.                                                                 *)
SavedBoards ==
    {b \in [Tasks -> [status : {"absent"} \cup Launchable, deps : SUBSET Tasks, space : {NoSpace}, agent : {FALSE}]] :
        /\ \A t \in Tasks : b[t].status = "absent" => b[t] = Absent
        /\ \A t \in Tasks : \A d \in b[t].deps : b[d].status # "absent"
        /\ \A t \in Tasks : ~Reaches(Edges(b), t, t)}

Init ==
    /\ up = "stopped"
    /\ herdr = FALSE
    /\ booting = FALSE
    /\ held = {}
    /\ server = FALSE
    /\ space = [s \in Spaces |-> Closed]
    /\ task \in SavedBoards
    /\ launching = {}
    /\ flight = [f \in Flights |-> NoFlight]
    /\ call = [c \in Calls |-> NoCall]
    /\ poll = IdlePoll
    /\ lostSlot = FALSE
    /\ events = 0

-----------------------------------------------------------------------------
(* Launching.                                                                 *)

(* launchTask, the part before the first await, for every task of S on board   *)
(* b with l under way.                                                         *)
LaunchAll(S, b, l) ==
    /\ task' = [t \in Tasks |-> IF t \in S THEN [b[t] EXCEPT !.status = "starting"]
                                ELSE b[t]]
    /\ launching' = l \cup S
    /\ flight' = [f \in Flights |->
                    IF f[1] \in S /\ f = CHOOSE g \in FreeFlights(f[1]) : TRUE
                    THEN [pc |-> "create", space |-> NoSpace, fresh |-> TRUE]
                    ELSE flight[f]]

(* advance: every approved task that is ready, as far as there is room. The    *)
(* code takes the oldest first; here any of them may be the ones that fit.     *)
Advance(b, l) ==
    LET ready == {t \in Tasks : b[t].status = "approved" /\ CanLaunch(b, l, t)}
    IN  /\ \E S \in SUBSET ready :
             /\ Cardinality(S) <= Room(b)
             /\ \/ S = ready
                \/ Cardinality(S) = Room(b)
             /\ LaunchAll(S, b, l)
        /\ lostSlot' = FALSE

-----------------------------------------------------------------------------
(* The user and the coordinator put tasks on the board, edit and approve them. *)

(* insertTask with its dependencies; a proposal in a user's turn under auto-run *)
(* is approved at once and the plan advances.                                   *)
Create(t) ==
    /\ Unused(t)
    /\ \E deps \in SUBSET {d \in Tasks \ {t} : task[d].status # "absent"}, auto \in BOOLEAN :
         LET b == [task EXCEPT ![t] = [Absent EXCEPT !.status = IF auto THEN "approved" ELSE "proposed",
                                                        !.deps = deps]]
         IN  IF auto THEN /\ up = "ready"
                          /\ Advance(b, launching)
             ELSE /\ task' = b
                  /\ UNCHANGED <<launching, flight, lostSlot>>
    /\ UNCHANGED <<up, herdr, booting, held, server, space, call, poll>>
    /\ Event

(* updateTask: the dependencies are what other parts depend on.                *)
Update(t) ==
    /\ task[t].status \in Launchable
    /\ t \notin launching
    /\ \E deps \in SUBSET {d \in Tasks \ {t} : task[d].status # "absent"} :
         /\ deps # task[t].deps
         /\ ~WouldCreateCycle(task, t, deps)
         /\ Advance([task EXCEPT ![t].deps = deps], launching)
    /\ UNCHANGED <<up, herdr, booting, held, server, space, call, poll>>
    /\ Event

(* approveTasks and runPlan.                                                   *)
Approve(S) ==
    /\ S # {}
    /\ \A t \in S : task[t].status \in Launchable /\ t \notin launching
    /\ Advance([t \in Tasks |-> IF t \in S /\ task[t].status = "proposed" THEN [task[t] EXCEPT !.status = "approved"]
                               ELSE task[t]], launching)
    /\ UNCHANGED <<up, herdr, booting, held, server, space, call, poll>>
    /\ Event

Launch(t) ==
    /\ CanLaunch(task, launching, t)
    /\ LaunchAll({t}, task, launching)
    /\ UNCHANGED <<up, herdr, booting, held, server, space, call, poll, lostSlot>>
    /\ Event

-----------------------------------------------------------------------------
(* runLaunch. Its record of the task is the one on the board, which other      *)
(* calls and other flights write as well.                                      *)

SetFlight(f, pc, s) == flight' = [flight EXCEPT ![f].pc = pc, ![f].space = s]

(* .finally of launchTask: the flight is over, whatever came of it.            *)
EndFlight(f) ==
    /\ flight' = [flight EXCEPT ![f] = NoFlight]
    /\ launching' = launching \ {f[1]}

(* herdr carries out workspaceCreate or worktreeCreate.                        *)
FlightCreated(f) ==
    /\ flight[f].pc = "create"
    /\ server
    /\ \E s \in Spaces :
         /\ ~Remembered(s)
         /\ \A r \in Spaces : ~Remembered(r) => s <= r
         /\ space' = [space EXCEPT ![s].of = f[1]]
         /\ SetFlight(f, "made", s)
    /\ UNCHANGED <<up, herdr, booting, held, server, task, launching, call, poll, lostSlot, events>>

(* Its answer arrives: the task holds the workspace and has the name of its    *)
(* agent, and agentStart goes out.                                             *)
FlightRecords(f) ==
    /\ flight[f].pc = "made"
    /\ task' = [task EXCEPT ![f[1]].space = flight[f].space, ![f[1]].agent = TRUE]
    /\ SetFlight(f, "start", flight[f].space)
    /\ UNCHANGED <<up, herdr, booting, held, server, space, launching, call, poll, lostSlot, events>>

(* agentStart: pi is up in its pane.                                           *)
FlightStarted(f) ==
    /\ flight[f].pc = "start"
    /\ IsOpen(flight[f].space)
    /\ space' = [space EXCEPT ![flight[f].space].worker = TRUE]
    /\ SetFlight(f, "prompt", flight[f].space)
    /\ UNCHANGED <<up, herdr, booting, held, server, task, launching, call, poll, lostSlot, events>>

(* agentPrompt was answered: the task works, unless it was stopped or the      *)
(* workbench restarted meanwhile.                                              *)
FlightPrompted(f) ==
    LET t == f[1] IN
    /\ flight[f].pc = "prompt"
    /\ HasWorker(t)
    /\ IF flight[f].fresh /\ task[t].status = "starting"
       THEN /\ task' = [task EXCEPT ![t].status = "working"]
            /\ EndFlight(f)
       ELSE /\ task' = [task EXCEPT ![t].space = NoSpace]
            /\ IF task[t].space = NoSpace THEN EndFlight(f)
               ELSE SetFlight(f, "discard", task[t].space) /\ UNCHANGED launching
    /\ UNCHANGED <<up, herdr, booting, held, server, space, call, poll, lostSlot, events>>

(* A call that cannot succeed: herdr is gone, or the workspace or the worker.  *)
Hopeless(f) ==
    \/ flight[f].pc = "create" /\ ~server
    \/ flight[f].pc = "start" /\ ~IsOpen(flight[f].space)
    \/ flight[f].pc = "prompt" /\ ~HasWorker(f[1])

(* Mutant: the task is left as it was.                                         *)
Unfailed(b, t) == b

(* fail(), for a task that is still starting.                                  *)
Failed(b, t) == IF b[t].status = "starting" THEN [b EXCEPT ![t].status = "failed"] ELSE b

(* The catch of runLaunch: the task's workspace is closed, then a task that is *)
(* still starting has failed.                                                  *)
FlightThrows(f) ==
    LET t == f[1] IN
    /\ \/ Hopeless(f) /\ UNCHANGED events
       \/ /\ flight[f].pc \in {"create", "made", "start", "prompt"}
          /\ Event
    /\ IF task[t].space = NoSpace
       THEN /\ task' = Failed(task, t)
            /\ EndFlight(f)
            /\ lostSlot' = (lostSlot \/ task[t].status = "starting")
       ELSE /\ task' = [task EXCEPT ![t].space = NoSpace]
            /\ SetFlight(f, "abandon", task[t].space)
            /\ UNCHANGED <<launching, lostSlot>>
    /\ UNCHANGED <<up, herdr, booting, held, server, space, call, poll>>

(* workspaceClose, and what follows it. A close that fails is only logged.     *)
FlightCloses(f) ==
    LET t == f[1] IN
    /\ flight[f].pc \in {"discard", "abandon"}
    /\ \/ /\ space' = [space EXCEPT ![flight[f].space] = Closed]
          /\ UNCHANGED events
       \/ /\ Event
          /\ UNCHANGED space
    /\ EndFlight(f)
    /\ IF flight[f].pc = "abandon"
       THEN /\ task' = Failed(task, t)
            /\ lostSlot' = (lostSlot \/ task[t].status = "starting")
       ELSE UNCHANGED <<task, lostSlot>>
    /\ UNCHANGED <<up, herdr, booting, held, server, call, poll>>

-----------------------------------------------------------------------------
(* endTask, messageTask and removeTask.                                       *)

Request(kind, t, pc) ==
    \E c \in Calls :
        /\ Free(c)
        /\ call' = [call EXCEPT ![c] = [pc |-> pc, kind |-> kind, task |-> t, space |-> NoSpace]]

EndCall(c) == call' = [call EXCEPT ![c] = NoCall]

(* What endTask makes of the task: it has ended and holds no workspace. The     *)
(* record of a task removed meanwhile is no longer on the board.                *)
Over(kind, t) ==
    [task EXCEPT ![t].space = NoSpace,
                 ![t].status = IF @ = "absent" THEN @
                               ELSE IF kind = "complete" THEN "done" ELSE "stopped"]

(* completeTask and stopTask, by the user or the coordinator. The terminal's   *)
(* tail is read first; without a herdr client there is nothing to wait for.    *)
End(kind, t) ==
    /\ t \notin launching
    /\ \/ kind = "complete" /\ task[t].status = "working"
       \/ kind = "stop" /\ task[t].status \in Live
    /\ IF herdr /\ task[t].agent THEN Request(kind, t, "tail") /\ UNCHANGED <<task, launching, flight, lostSlot>>
       ELSE Advance(Over(kind, t), launching) /\ UNCHANGED call
    /\ UNCHANGED <<up, herdr, booting, held, server, space, poll>>
    /\ Event

(* The tail is there (or could not be read): the task has ended, and the       *)
(* workspace it held is to be closed.                                          *)
EndRead(c) ==
    LET t == call[c].task IN
    /\ call[c].pc = "tail"
    /\ IF task[t].space # NoSpace
       THEN /\ task' = Over(call[c].kind, t)
            /\ call' = [call EXCEPT ![c].pc = "close", ![c].space = task[t].space]
            /\ UNCHANGED <<launching, flight, lostSlot>>
       ELSE Advance(Over(call[c].kind, t), launching) /\ EndCall(c)
    /\ UNCHANGED <<up, herdr, booting, held, server, space, poll, events>>

(* Mutant: nobody looks at what waits for the slot.                            *)
EndClosedQuietly(c) ==
    /\ call[c].pc = "close"
    /\ space' = [space EXCEPT ![call[c].space] = Closed]
    /\ EndCall(c)
    /\ UNCHANGED <<up, herdr, booting, held, server, task, launching, flight, poll, lostSlot, events>>

(* workspaceClose is answered, one that fails is only logged, and the plan goes on. *)
EndClosed(c) ==
    /\ call[c].pc = "close"
    /\ \/ /\ space' = [space EXCEPT ![call[c].space] = Closed]
          /\ UNCHANGED events
       \/ /\ Event
          /\ UNCHANGED space
    /\ Advance(task, launching)
    /\ EndCall(c)
    /\ UNCHANGED <<up, herdr, booting, held, server, poll>>

Message(t) ==
    /\ herdr
    /\ t \notin launching
    /\ task[t].status = "working"
    /\ task[t].agent
    /\ Request("message", t, "send")
    /\ UNCHANGED <<up, herdr, booting, held, server, space, task, launching, flight, poll, lostSlot>>
    /\ Event

(* herdr has typed the message into the worker's terminal: whatever became of  *)
(* the task meanwhile, it works again. Or the worker could not be reached.     *)
MessageAnswered(c) ==
    /\ call[c].pc = "send"
    /\ \/ task' = [task EXCEPT ![call[c].task].status = IF @ = "absent" THEN @ ELSE "working"]
       \/ UNCHANGED task
    /\ EndCall(c)
    /\ UNCHANGED <<up, herdr, booting, held, server, space, launching, flight, poll, lostSlot, events>>

(* Mutant: the edges to the task stay.                                         *)
DeletedOnly(b, t) == [b EXCEPT ![t] = [Absent EXCEPT !.space = b[t].space, !.agent = b[t].agent]]

(* tasks.delete, with the edges to it, and advance. The record of a flight or  *)
(* a call on it lives on, detached.                                            *)
Deleted(b, t) ==
    [u \in Tasks |-> IF u = t THEN [Absent EXCEPT !.space = b[t].space, !.agent = b[t].agent]
                     ELSE [b[u] EXCEPT !.deps = @ \ {t}]]

(* removeTask: at once, or after git has removed the task's worktree.          *)
Remove(t) ==
    /\ task[t].status \in Launchable
    /\ t \notin launching
    /\ \/ Advance(Deleted(task, t), launching) /\ UNCHANGED call
       \/ Request("remove", t, "git") /\ UNCHANGED <<task, launching, flight, lostSlot>>
    /\ UNCHANGED <<up, herdr, booting, held, server, space, poll>>
    /\ Event

(* git refuses a worktree with uncommitted changes, and the task stays.        *)
RemoveAnswered(c) ==
    /\ call[c].pc = "git"
    /\ \/ task[call[c].task].status # "absent" /\ Advance(Deleted(task, call[c].task), launching)
       \/ UNCHANGED <<task, launching, flight, lostSlot>>
    /\ EndCall(c)
    /\ UNCHANGED <<up, herdr, booting, held, server, space, poll, events>>

-----------------------------------------------------------------------------
(* poll, every POLL_MS while the workbench is ready.                           *)

(* The tasks a poll asks herdr about.                                          *)
Watched == {t \in LiveTasks(task) : t \notin launching /\ task[t].agent}

Watch(n) ==
    poll' = IF Watched = {} THEN [IdlePoll EXCEPT !.count = n]
            ELSE [IdlePoll EXCEPT !.pc = "list", !.watched = Watched, !.count = n]

(* Mutant: one poll too late, and there is none.                               *)
SweepDueAfter(n) == n > SweepEvery /\ launching = {}
SweepDue(n) == n = SweepEvery /\ launching = {}

Tick ==
    LET n == IF poll.count < SweepEvery THEN poll.count + 1 ELSE SweepEvery IN
    /\ up = "ready"
    /\ herdr
    /\ ~booting
    /\ poll.pc = "idle"
    /\ IF SweepDue(n)
       THEN poll' = [IdlePoll EXCEPT !.pc = "sweep", !.held = HeldSpaces]
       ELSE Watch(n)
    /\ UNCHANGED <<up, herdr, booting, held, server, space, task, launching, flight, call, lostSlot, events>>

(* sweepOrphanWorkspaces: what herdr lists and no task held when the sweep     *)
(* began is closed. Then the poll goes on to the workers.                      *)
Swept(kept) == [s \in Spaces |-> IF s \in kept THEN space[s] ELSE Closed]

PollSweeps ==
    /\ poll.pc = "sweep"
    /\ space' = Swept(poll.held)
    /\ Watch(0)
    /\ UNCHANGED <<up, herdr, booting, held, server, task, launching, flight, call, lostSlot, events>>

(* agentList: which of the watched workers herdr knows.                        *)
PollLists ==
    /\ poll.pc = "list"
    /\ poll' = [poll EXCEPT !.pc = "rows", !.rows = {t \in poll.watched : HasWorker(t)}]
    /\ UNCHANGED <<up, herdr, booting, held, server, space, task, launching, flight, call, lostSlot, events>>

(* Those of them that still run when the rows arrive, and those that do but    *)
(* are not among the rows; mutants: no second look, nobody missed.             *)
WatchedThen == poll.watched
StillWatched == {t \in poll.watched : task[t].status \in Live /\ t \notin launching}
NobodyLost == {}
Lost == StillWatched \ poll.rows

(* The rows arrive. A task whose worker is not among them has failed, its      *)
(* workspace is closed behind it, and the slot it frees lets the plan advance. *)
(* A worker that herdr knows may be found working.                             *)
PollApplies ==
    LET lost == Lost
        starting == {t \in StillWatched \cap poll.rows : task[t].status = "starting"}
    IN  /\ poll.pc = "rows"
        /\ \E works \in SUBSET starting :
             LET b == [t \in Tasks |->
                         IF t \in lost THEN [task[t] EXCEPT !.status = "failed", !.space = NoSpace]
                         ELSE IF t \in works THEN [task[t] EXCEPT !.status = "working"]
                         ELSE task[t]]
             IN  IF lost # {} THEN Advance(b, launching)
                 ELSE task' = b /\ UNCHANGED <<launching, flight, lostSlot>>
        /\ space' = Swept(Spaces \ {task[t].space : t \in lost})
        /\ poll' = [IdlePoll EXCEPT !.count = poll.count]
        /\ UNCHANGED <<up, herdr, booting, held, server, call, events>>

PollThrows ==
    /\ poll.pc = "list"
    /\ Event
    /\ poll' = [IdlePoll EXCEPT !.count = poll.count]
    /\ UNCHANGED <<up, herdr, booting, held, server, space, task, launching, flight, call, lostSlot>>

(* A worker goes away: pi exits in its pane, or its pane is closed in herdr.   *)
WorkerDies(s) ==
    /\ space[s].worker
    /\ Event
    /\ space' = [space EXCEPT ![s] = Closed] \/ space' = [space EXCEPT ![s].worker = FALSE]
    /\ UNCHANGED <<up, herdr, booting, held, server, task, launching, flight, call, poll, lostSlot>>

-----------------------------------------------------------------------------
(* start, stop, the end of the orchestrator and of AiOpt, as far as the board  *)
(* is concerned. WorkbenchLifecycle has their own steps.                       *)

(* startSeq moves on: every launch in flight is from before.                   *)
StaleFlights == [f \in Flights |-> [flight[f] EXCEPT !.fresh = FALSE]]

Ended(b) ==
    [t \in Tasks |-> IF b[t].status \in Live THEN [b[t] EXCEPT !.status = "stopped", !.space = NoSpace] ELSE b[t]]

Start ==
    /\ up \in {"stopped", "error"}
    /\ up' = "starting"
    /\ flight' = StaleFlights
    /\ UNCHANGED <<herdr, booting, held, server, space, task, launching, call, poll, lostSlot, events>>

(* The orchestrator and herdr are up: a server of an earlier run is replaced,  *)
(* the own one reused, and what no task holds in it is about to be swept. Or   *)
(* herdr is not available.                                                     *)
Ready ==
    /\ up = "starting"
    /\ ~booting
    /\ up' = "ready"
    /\ \/ /\ herdr' = TRUE
          /\ server' = TRUE
          /\ \/ server /\ UNCHANGED space
             \/ ~(server /\ herdr) /\ space' = [s \in Spaces |-> Closed]
          /\ booting' = TRUE
          /\ held' = HeldSpaces
          /\ UNCHANGED events
       \/ /\ herdr' = FALSE
          /\ Event
          /\ UNCHANGED <<booting, held, server, space>>
    /\ UNCHANGED <<task, launching, flight, call, poll, lostSlot>>

(* The sweep of start() is done: the poll is set up and the plan advances.     *)
BootSweeps ==
    /\ booting
    /\ space' = Swept(held)
    /\ booting' = FALSE
    /\ held' = {}
    /\ Advance(task, launching)
    /\ UNCHANGED <<up, herdr, server, call, poll, events>>

(* onOrchestratorExit: the tasks and their workers stay.                       *)
OrchestratorExit ==
    /\ up \in {"starting", "ready"}
    /\ Event
    /\ up' = "error"
    /\ UNCHANGED <<herdr, booting, held, server, space, task, launching, flight, call, poll, lostSlot>>

(* stop: without a herdr client there is nothing to wait for.                  *)
Stop ==
    /\ up \in {"starting", "ready", "error"}
    /\ Event
    /\ IF herdr THEN /\ up' = "stopping"
                     /\ flight' = StaleFlights
                     /\ UNCHANGED <<task, launching>>
       ELSE /\ up' = "stopped"
            /\ flight' = StaleFlights
            /\ task' = Ended(task)
            /\ launching' = {}
    /\ herdr' = FALSE
    /\ UNCHANGED <<booting, held, server, space, call, poll, lostSlot>>

(* closeTaskWorkspaces, endLiveTasks and stopServer have been answered.        *)
StopDone ==
    /\ up = "stopping"
    /\ up' = "stopped"
    /\ task' = Ended(task)
    /\ launching' = {}
    /\ server' = FALSE
    /\ space' = [s \in Spaces |-> Closed]
    /\ UNCHANGED <<herdr, booting, held, flight, call, poll, lostSlot, events>>

(* AiOpt ends and starts again: loadTasks takes what was live as stopped. A    *)
(* server that survived is replaced by the next start.                         *)
Quit ==
    /\ Event
    /\ up' = "stopped"
    /\ herdr' = FALSE
    /\ server' = FALSE
    /\ booting' = FALSE
    /\ held' = {}
    /\ space' = [s \in Spaces |-> Closed]
    /\ task' = [t \in Tasks |-> [Ended(task)[t] EXCEPT !.space = NoSpace, !.agent = FALSE]]
    /\ launching' = {}
    /\ flight' = [f \in Flights |-> NoFlight]
    /\ call' = [c \in Calls |-> NoCall]
    /\ poll' = IdlePoll
    /\ UNCHANGED <<lostSlot>>

-----------------------------------------------------------------------------

Board ==
    \/ \E t \in Tasks : Create(t) \/ Update(t) \/ Launch(t) \/ Message(t) \/ Remove(t)
    \/ \E S \in SUBSET Tasks : Approve(S)
    \/ \E t \in Tasks, kind \in {"complete", "stop"} : End(kind, t)

FlightStep(f) ==
    \/ FlightCreated(f)
    \/ FlightRecords(f)
    \/ FlightStarted(f)
    \/ FlightPrompted(f)
    \/ FlightThrows(f)
    \/ FlightCloses(f)

CallStep(c) ==
    \/ EndRead(c)
    \/ EndClosed(c)
    \/ MessageAnswered(c)
    \/ RemoveAnswered(c)

PollStep == Tick \/ PollSweeps \/ PollLists \/ PollApplies \/ PollThrows

Lifecycle == Start \/ Ready \/ BootSweeps \/ OrchestratorExit \/ Stop \/ StopDone \/ Quit

Next ==
    \/ Board
    \/ \E f \in Flights : FlightStep(f)
    \/ \E c \in Calls : CallStep(c)
    \/ PollStep
    \/ \E s \in Spaces : WorkerDies(s)
    \/ Lifecycle

Spec == Init /\ [][Next]_vars

(* Every herdr call is answered or times out, the timer of the poll fires, and *)
(* start and stop come to an end. Nobody has to create, approve or end a task. *)
Fairness ==
    /\ \A f \in Flights : WF_vars(FlightStep(f))
    /\ \A c \in Calls : WF_vars(CallStep(c))
    /\ WF_vars(PollStep)
    /\ WF_vars(Ready \/ BootSweeps \/ StopDone)

FairSpec == Spec /\ Fairness

-----------------------------------------------------------------------------
(* Nothing is in flight that would still launch a task.                        *)
Quiet ==
    /\ ~booting
    /\ \A f \in Flights : flight[f].pc = "none"
    /\ \A c \in Calls : call[c].pc = "none"

Waiting(t) == task[t].status = "approved" /\ CanLaunch(task, launching, t)

(* An approved plan runs to its end without another click: when nothing is in  *)
(* flight, no approved task whose dependencies are done waits beside a free    *)
(* slot, except after a launch that ended without a worker.                    *)
PlanAdvances == Quiet /\ ~lostSlot => \A t \in Tasks : ~Waiting(t)

(* What the comment on advance() says: it is called whenever a slot is freed.  *)
PlanNeverStalls == Quiet => \A t \in Tasks : ~Waiting(t)

(* The dependencies never form a cycle, whatever is edited, removed and added  *)
(* again: a cycle would be a plan that cannot finish.                          *)
NoDependencyCycle == \A t \in Tasks : ~Reaches(Edges(task), t, t)

(* A removed task leaves no dependency on it behind: a task that waited for it *)
(* could never be launched.                                                    *)
NoDanglingDependency == \A t \in Tasks : \A d \in task[t].deps : task[d].status # "absent"

(* A task that ended is moved again only by the user: by a launch, a removal,  *)
(* or a call that was made while it lived. Neither a poll whose rows are from  *)
(* before, nor a launch from before, nor start, stop or quit touch it.         *)
EndedStaysEnded ==
    [][\A t \in Tasks :
         task[t].status \in Finished /\ task'[t].status # task[t].status =>
            \/ task'[t].status = "absent"
            \/ task'[t].status = "starting" /\ t \in launching'
            \/ \E c \in Calls : call[c].task = t /\ call'[c].pc # call[c].pc]_vars

Watching == up = "ready" /\ herdr

(* A launch comes to an end: no task is left starting while the workbench      *)
(* watches it.                                                                 *)
StartingEnds ==
    \A t \in Tasks : task[t].status = "starting" ~> task[t].status # "starting" \/ ~Watching

(* A task whose worker is gone is not shown as running for ever.               *)
LostWorkerNoticed ==
    \A t \in Tasks : task[t].status \in Live /\ ~HasWorker(t)
                       ~> task[t].status \notin Live \/ HasWorker(t) \/ ~Watching

(* Nothing accumulates in the herdr session: a workspace no task holds is      *)
(* closed in the end.                                                          *)
OrphansClosed ==
    \A s \in Spaces : IsOpen(s) /\ s \notin HeldSpaces ~> ~IsOpen(s) \/ s \in HeldSpaces \/ ~Watching

(* The board is well formed, and so is the graph of its dependencies.           *)
BoardSound == TypeOK /\ NoDependencyCycle /\ NoDanglingDependency
=============================================================================
