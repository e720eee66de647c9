-------------------------- MODULE WorkbenchLifecycle --------------------------
(* How the workbench comes up and goes down (workbench/workbenchManager.ts): start *)
(* spawns the orchestrator (a pi process), reopens its conversation and brings up  *)
(* AiOpt's own herdr server; stop takes all of it down again; and either may run    *)
(* while the other, or an earlier one, still awaits an answer.                      *)
(*                                                                                 *)
(* A start is known by its number, and so are the pi it spawned, the server it      *)
(* spawned and the poll timer it set. A start is current while startSeq is the      *)
(* value it took. Nothing here is awaited for ever: every RPC and every herdr call   *)
(* has a timeout.                                                                   *)
EXTENDS Integers, FiniteSets

CONSTANTS
    MaxStarts,    \* bound: starts, over all runs of AiOpt
    StopCalls,    \* stops in flight at once
    MaxTroubles   \* bound: herdr calls and starts that fail, orchestrators that exit

ASSUME LifecycleAssumption == MaxStarts \in Nat /\ MaxTroubles \in Nat

Starts == 1 .. MaxStarts
NoStart == 0

VARIABLES
    status,       \* what the workbench says of itself
    current,      \* the start whose number startSeq is; NoStart after a stop
    boot,         \* where each start is: the answer it awaits
    rpc,          \* the orchestrator the manager talks to
    orchestrators,\* the pi processes that run
    herdrHeld,    \* whether the manager holds a herdr client
    ownsServer,
    herdrServer,  \* the start whose server runs
    cancelPoll,   \* the poll timer the manager can cancel
    timers,       \* the poll timers that tick
    stopping,     \* the stops under way
    happened,     \* history: what went wrong or crossed, of Oddities
    troubles

lifecycleVars == <<status, current, boot, rpc, orchestrators, herdrHeld, ownsServer, herdrServer,
                   cancelPoll, timers, stopping, happened, troubles>>
servers == <<herdrHeld, ownsServer, herdrServer>>
polling == <<cancelPoll, timers>>

(* A herdr call failed; a start or a stop began while a stop was under way; the     *)
(* orchestrator exited while its start went on; a stop came during the sweep of a   *)
(* start; AiOpt quit during a start; a start that was overtaken undid its work while *)
(* a later one went on.                                                             *)
Oddities == {"herdr", "overlap", "exited", "sweeping", "quit", "undone"}

LifecycleTypeOK ==
    /\ status \in {"stopped", "starting", "ready", "error"}
    /\ current \in {NoStart} \cup Starts
    /\ boot \in [Starts -> {"none", "ping", "resume", "probe", "kill", "wait", "install", "undo", "sweep", "over"}]
    /\ {rpc, herdrServer, cancelPoll} \subseteq {NoStart} \cup Starts
    /\ orchestrators \subseteq Starts
    /\ timers \subseteq Starts
    /\ herdrHeld \in BOOLEAN /\ ownsServer \in BOOLEAN
    /\ stopping \in [StopCalls -> {"none", "close", "server"}]
    /\ happened \subseteq Oddities
    /\ troubles \in 0 .. MaxTroubles

LifecycleInit ==
    /\ status = "stopped"
    /\ current = NoStart
    /\ boot = [s \in Starts |-> "none"]
    /\ rpc = NoStart /\ orchestrators = {}
    /\ herdrHeld = FALSE /\ ownsServer = FALSE /\ herdrServer = NoStart
    /\ cancelPoll = NoStart /\ timers = {}
    /\ stopping = [x \in StopCalls |-> "none"]
    /\ happened = {}
    /\ troubles = 0

Trouble == troubles < MaxTroubles /\ troubles' = troubles + 1
HerdrFails == Trouble /\ happened' = happened \cup {"herdr"}
Stops == {x \in StopCalls : stopping[x] # "none"}
Under(s, pcs) == boot[s] \in pcs
Goes(s, pc) == boot' = [boot EXCEPT ![s] = pc]

(* disposeOrchestrator: whichever orchestrator is in `rpc' by now.                   *)
Dispose == rpc' = NoStart /\ orchestrators' = orchestrators \ {rpc}

-----------------------------------------------------------------------------
(* start.                                                                          *)

NextStart(s) == boot[s] = "none" /\ \A t \in Starts : t < s => boot[t] # "none"

(* Up to the spawn of pi; what is missing ends the start at once.                   *)
Spawned(s) ==
    /\ NextStart(s)
    /\ current' = s
    /\ happened' = IF Stops # {} THEN happened \cup {"overlap"} ELSE happened
    /\ \/ /\ Goes(s, "ping")
          /\ status' = "starting"
          /\ rpc' = s
          /\ orchestrators' = orchestrators \cup {s}
          /\ UNCHANGED troubles
       \/ /\ Trouble
          /\ Goes(s, "over")
          /\ status' = "error"
          /\ Dispose \/ UNCHANGED <<rpc, orchestrators>>
    /\ UNCHANGED <<servers, polling, stopping>>

(* Mutant: a start while one is under way is not refused.                           *)
BeginStartAnyway(s) == status # "ready" /\ Spawned(s)

BeginStart(s) == status \notin {"starting", "ready"} /\ Spawned(s)

(* pi answered the ping. A start that is not current any more just returns.          *)
PingAnswered(s) ==
    /\ Under(s, {"ping"})
    /\ s \in orchestrators
    /\ Goes(s, IF current = s THEN "resume" ELSE "over")
    /\ UNCHANGED <<status, current, rpc, orchestrators, servers, polling, stopping, happened, troubles>>

(* The catch of start. Mutant: it only logs.                                        *)
PingFailsQuietly(s) ==
    /\ Under(s, {"ping"})
    /\ Goes(s, "over")
    /\ Dispose
    /\ UNCHANGED <<status, current, servers, polling, stopping, happened, troubles>>

(* pi is gone, or did not answer in time.                                           *)
PingFails(s) ==
    /\ Under(s, {"ping"})
    /\ IF s \in orchestrators THEN Trouble ELSE UNCHANGED troubles
    /\ Goes(s, "over")
    /\ Dispose
    /\ status' = IF current = s THEN "error" ELSE status
    /\ UNCHANGED <<current, servers, polling, stopping, happened>>

(* resumeLatest swallows every error, that of an orchestrator that is gone too.      *)
Resumed(s) ==
    /\ Under(s, {"resume"})
    /\ Goes(s, IF current = s THEN "probe" ELSE "over")
    /\ UNCHANGED <<status, current, rpc, orchestrators, servers, polling, stopping, happened, troubles>>

-----------------------------------------------------------------------------
(* startServer, and the end of start. A herdr that is not installed is one whose     *)
(* calls fail.                                                                      *)

(* The end of start, with the client it got or without; what it awaits next.         *)
(* Mutant: whether the start is still wanted is not looked at.                       *)
FinishAnyway(s, got) ==
    /\ status' = "ready"
    /\ herdrHeld' = got
    /\ Goes(s, IF got THEN "sweep" ELSE "over")
    /\ timers' = IF got THEN timers ELSE timers \cup {s}
    /\ cancelPoll' = IF got THEN cancelPoll ELSE s
    /\ UNCHANGED <<current, rpc, orchestrators, ownsServer, stopping>>

Finish(s, got) ==
    IF current = s
    THEN /\ status' = "ready"
         /\ herdrHeld' = got
         /\ Goes(s, IF got THEN "sweep" ELSE "over")
         /\ timers' = IF got THEN timers ELSE timers \cup {s}
         /\ cancelPoll' = IF got THEN cancelPoll ELSE s
         /\ UNCHANGED <<current, rpc, orchestrators, ownsServer, stopping>>
    ELSE /\ herdrHeld' = got
         /\ Goes(s, IF got THEN "undo" ELSE "over")
         /\ ownsServer' = (got /\ ownsServer)
         /\ UNCHANGED <<status, current, rpc, orchestrators, polling, stopping>>

(* isRunning: the own server is kept, one from an earlier run is stopped first.      *)
ServerProbed(s) ==
    /\ Under(s, {"probe"})
    /\ herdrServer # NoStart
    /\ Goes(s, IF ownsServer THEN "install" ELSE "kill")
    /\ UNCHANGED <<status, current, rpc, orchestrators, servers, polling, stopping, happened, troubles>>

(* No server runs, or the one from the earlier run has been stopped: one is spawned.  *)
(* It does not come up, or the other did not stop, and then it stays.                *)
ServerSpawned(s) ==
    /\ Under(s, {"kill"}) \/ (Under(s, {"probe"}) /\ herdrServer = NoStart)
    /\ Goes(s, "wait")
    /\ \/ herdrServer' = s /\ UNCHANGED <<happened, troubles>>
       \/ HerdrFails /\ UNCHANGED herdrServer
    /\ UNCHANGED <<status, current, rpc, orchestrators, herdrHeld, ownsServer, polling, stopping>>

ServerAnswers(s) ==
    /\ Under(s, {"wait"})
    /\ herdrServer # NoStart
    /\ ownsServer' = TRUE
    /\ Goes(s, "install")
    /\ UNCHANGED <<status, current, rpc, orchestrators, herdrHeld, herdrServer, polling, stopping, happened, troubles>>

(* isRunning said no for SERVER_READY_TRIES times.                                  *)
ServerSilent(s) ==
    /\ Under(s, {"wait"})
    /\ IF herdrServer = NoStart THEN UNCHANGED <<happened, troubles>> ELSE HerdrFails
    /\ Finish(s, FALSE)
    /\ UNCHANGED herdrServer

Installed(s) ==
    /\ Under(s, {"install"})
    /\ \/ Finish(s, TRUE) /\ UNCHANGED <<happened, troubles>>
       \/ HerdrFails /\ Finish(s, FALSE)
    /\ UNCHANGED herdrServer

(* stopServer, which swallows its errors.                                           *)
StopsServer(noted) ==
    \/ herdrServer' = NoStart /\ happened' = happened \cup noted /\ UNCHANGED troubles
    \/ herdrServer # NoStart /\ Trouble /\ happened' = happened \cup noted \cup {"herdr"} /\ UNCHANGED herdrServer

(* "stop() ran while this start was in flight: undo what came up after it."          *)
Undone(s) ==
    /\ Under(s, {"undo"})
    /\ StopsServer(IF current = NoStart THEN {} ELSE {"undone"})
    /\ herdrHeld' = FALSE
    /\ ownsServer' = FALSE
    /\ Goes(s, "over")
    /\ UNCHANGED <<status, current, rpc, orchestrators, polling, stopping>>

SweepAnswered(s) ==
    /\ Under(s, {"sweep"})
    /\ Goes(s, "over")
    /\ timers' = timers \cup {s}
    /\ cancelPoll' = s
    /\ UNCHANGED <<status, current, rpc, orchestrators, servers, stopping, happened, troubles>>

-----------------------------------------------------------------------------
(* stop, the exit of an orchestrator, and the end of AiOpt.                         *)

Noted == (IF Stops # {} THEN {"overlap"} ELSE {})
         \cup (IF \E s \in Starts : Under(s, {"sweep"}) THEN {"sweeping"} ELSE {})

StopPolling == timers' = timers \ {cancelPoll} /\ cancelPoll' = NoStart

(* Without a herdr client nothing is awaited.                                       *)
BeginStop(x) ==
    /\ stopping[x] = "none"
    /\ current' = NoStart
    /\ StopPolling
    /\ Dispose
    /\ herdrHeld' = FALSE
    /\ IF herdrHeld
       THEN stopping' = [stopping EXCEPT ![x] = "close"] /\ UNCHANGED <<status, ownsServer>>
       ELSE status' = "stopped" /\ ownsServer' = FALSE /\ UNCHANGED stopping
    /\ happened' = happened \cup Noted
    /\ UNCHANGED <<boot, herdrServer, troubles>>

(* The workspaces of the tasks are closed, one after the other.                     *)
StopCloses(x) ==
    /\ stopping[x] = "close"
    /\ stopping' = [stopping EXCEPT ![x] = "server"]
    /\ UNCHANGED <<status, current, boot, rpc, orchestrators, servers, polling, happened, troubles>>

StopEnds(x) ==
    /\ stopping[x] = "server"
    /\ StopsServer({})
    /\ ownsServer' = FALSE
    /\ status' = "stopped"
    /\ stopping' = [stopping EXCEPT ![x] = "none"]
    /\ UNCHANGED <<current, boot, rpc, orchestrators, herdrHeld, polling>>

(* onOrchestratorExit. Mutant: only the client is let go.                           *)
ExitsUnnoticed(s) ==
    /\ s \in orchestrators
    /\ Trouble
    /\ orchestrators' = orchestrators \ {s}
    /\ rpc' = IF rpc = s THEN NoStart ELSE rpc
    /\ UNCHANGED <<status, current, boot, servers, polling, stopping, happened>>

Exits(s) ==
    /\ s \in orchestrators
    /\ Trouble
    /\ orchestrators' = orchestrators \ {s}
    /\ IF rpc = s
       THEN rpc' = NoStart /\ StopPolling /\ status' = "error"
       ELSE UNCHANGED <<rpc, polling, status>>
    /\ happened' = IF Under(s, {"none", "ping", "over"}) THEN happened ELSE happened \cup {"exited"}
    /\ UNCHANGED <<current, boot, servers, stopping>>

(* shutdown, and the process ends; the server is told to stop by a process that      *)
(* outlives it, if there is one to be told.                                         *)
Quit ==
    /\ herdrServer' = IF herdrHeld \/ ownsServer THEN NoStart ELSE herdrServer
    /\ status' = "stopped"
    /\ current' = NoStart
    /\ boot' = [s \in Starts |-> IF boot[s] = "none" THEN "none" ELSE "over"]
    /\ rpc' = NoStart /\ orchestrators' = {}
    /\ herdrHeld' = FALSE /\ ownsServer' = FALSE
    /\ cancelPoll' = NoStart /\ timers' = {}
    /\ stopping' = [x \in StopCalls |-> "none"]
    /\ happened' = IF \E s \in Starts : ~Under(s, {"none", "over"}) THEN happened \cup {"quit"} ELSE happened
    /\ UNCHANGED troubles

-----------------------------------------------------------------------------

StartGoesOn(s) ==
    \/ PingAnswered(s) \/ PingFails(s) \/ Resumed(s)
    \/ ServerProbed(s) \/ ServerSpawned(s) \/ ServerAnswers(s) \/ ServerSilent(s)
    \/ Installed(s) \/ Undone(s) \/ SweepAnswered(s)

(* What was pending on an orchestrator that is gone rejects before anything else      *)
(* runs.                                                                            *)
Rejecting(s) == Under(s, {"ping", "resume"}) /\ s \notin orchestrators

LifecycleNext ==
    \/ \E s \in Starts : Rejecting(s) /\ (PingFails(s) \/ Resumed(s))
    \/ /\ \A s \in Starts : ~Rejecting(s)
       /\ \/ \E s \in Starts : BeginStart(s) \/ StartGoesOn(s) \/ Exits(s)
          \/ \E x \in StopCalls : BeginStop(x) \/ StopCloses(x) \/ StopEnds(x)
          \/ Quit

LifecycleSpec == LifecycleInit /\ [][LifecycleNext]_lifecycleVars

(* Every RPC and herdr call is answered or times out.                               *)
LifecycleFairness ==
    /\ \A s \in Starts : WF_lifecycleVars(StartGoesOn(s))
    /\ \A x \in StopCalls : WF_lifecycleVars(StopCloses(x) \/ StopEnds(x))

-----------------------------------------------------------------------------
(* One orchestrator at a time: every pi that runs is the one the manager talks to,   *)
(* so none goes on unseen, with the user's key, after the start it belongs to was    *)
(* stopped, failed or overtaken; but for starts and stops that cross a pending stop.  *)
OneOrchestrator == "overlap" \notin happened => orchestrators \subseteq {rpc}

(* When the workbench says it is ready, it is: there is an orchestrator to send to,   *)
(* and a herdr client has AiOpt's own server behind it.                              *)
ReadyIsUp ==
    status = "ready" /\ Stops = {} /\ happened \cap {"overlap", "exited"} = {} =>
        /\ rpc # NoStart /\ rpc \in orchestrators
        /\ herdrHeld /\ happened \cap {"herdr", "undone"} = {} => ownsServer /\ herdrServer # NoStart

(* A stop takes down what a start it overtook still brings up: once every start has   *)
(* ended, no orchestrator, server or poll is left ("undo what came up after it").     *)
StoppedIsDown ==
    status = "stopped" /\ Stops = {} /\ (\A s \in Starts : Under(s, {"none", "over"})) =>
        /\ "overlap" \notin happened => orchestrators = {}
        /\ happened \cap {"overlap", "herdr", "quit"} = {} => herdrServer = NoStart
        /\ happened \cap {"overlap", "sweeping", "exited"} = {} => timers = {}

(* No start stays "starting": pi and herdr answer, fail or time out.                  *)
StartEnds == status = "starting" ~> status # "starting"

(* Up is up, with one orchestrator, the one that is talked to; and stopped is down.   *)
WorkbenchUp == OneOrchestrator /\ ReadyIsUp /\ StoppedIsDown
=============================================================================
