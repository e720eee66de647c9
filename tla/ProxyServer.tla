----------------------------- MODULE ProxyServer -----------------------------
(* The loopback listener under the translation proxy: start, rebindPort and stop  *)
(* (proxy/translationProxy.ts), where each is called from (index.ts, and           *)
(* refreshProxyPort of providerManager.ts), and the runs of AiOpt in between.      *)
(*                                                                                *)
(* The registry and the bindings take a move of the port as one step; here it is   *)
(* taken apart at its awaits. A listener is known by its port: an OS-assigned      *)
(* port is never one that is in use.                                               *)
EXTENDS Integers

CONSTANTS
    Ports,        \* the ports listeners get
    NoPort,       \* port = -1, an absent proxy.json, an unwritten config
    Rebinds,      \* refreshProxyPort calls in flight at once
    MaxFailures   \* bound: saves that throw and listens that fail, over all runs

ASSUME ServerAssumption == NoPort \notin Ports /\ MaxFailures \in Nat

VARIABLES
    phase,        \* of AiOpt: "off", "starting", "up", "quitting"
    live,         \* the port of `server'; NoPort when there is none
    listening,    \* the ports on which this process listens
    saved,        \* the port in proxy.json
    written,      \* the port in the agents' config files
    rebind,       \* rebindPort: [pc, port]
    unsaved,      \* history: the last move of the port was not saved
    leaked,       \* history: listeners whose successor could not be saved
    mute,         \* history: start() failed and no move of the port has succeeded since
    failures

serverVars == <<phase, live, listening, saved, written, rebind, unsaved, leaked, mute, failures>>

NoRebind == [pc |-> "none", port |-> NoPort]
Idle(r) == rebind[r].pc = "none"

ServerTypeOK ==
    /\ phase \in {"off", "starting", "up", "quitting"}
    /\ live \in Ports \cup {NoPort}
    /\ listening \subseteq Ports
    /\ saved \in Ports \cup {NoPort}
    /\ written \in Ports \cup {NoPort}
    /\ rebind \in [Rebinds -> [pc : {"none", "bind", "bound"}, port : Ports \cup {NoPort}]]
    /\ unsaved \in BOOLEAN
    /\ leaked \subseteq Ports
    /\ mute \in BOOLEAN
    /\ failures \in 0 .. MaxFailures

ServerInit ==
    /\ phase = "off"
    /\ live = NoPort
    /\ listening = {}
    /\ saved = NoPort
    /\ written = NoPort
    /\ rebind = [r \in Rebinds |-> NoRebind]
    /\ unsaved = FALSE
    /\ leaked = {}
    /\ mute = FALSE
    /\ failures = 0

Failure == failures < MaxFailures /\ failures' = failures + 1

-----------------------------------------------------------------------------
(* start, at the launch of AiOpt, followed by rebuildProxyRoutes.             *)

LaunchApp ==
    /\ phase = "off"
    /\ phase' = "starting"
    /\ UNCHANGED <<live, listening, saved, written, rebind, unsaved, leaked, mute, failures>>

(* What bind() may end up with: the saved port, unless another program has it   *)
(* by now, or one the system picks.                                            *)
Fresh == Ports \ listening

(* The new listener is installed, its port saved, and the agents' files are    *)
(* rewritten with it.                                                          *)
Started(p) ==
    /\ phase = "starting"
    /\ p \in Fresh
    /\ phase' = "up"
    /\ live' = p
    /\ listening' = listening \cup {p}
    /\ \/ /\ saved' = p
          /\ written' = p
          /\ unsaved' = FALSE
          /\ mute' = FALSE
          /\ UNCHANGED failures
       \/ /\ Failure
          /\ unsaved' = TRUE
          /\ mute' = TRUE
          /\ UNCHANGED <<saved, written>>
    /\ UNCHANGED <<rebind, leaked>>

(* Not even an OS-assigned port: AiOpt runs without the proxy.                *)
StartFails ==
    /\ phase = "starting"
    /\ Failure
    /\ phase' = "up"
    /\ mute' = TRUE
    /\ UNCHANGED <<live, listening, saved, written, rebind, unsaved, leaked>>

-----------------------------------------------------------------------------
(* refreshProxyPort.                                                          *)

(* Mutant: the listener is closed first.                                      *)
ClosedFirst(r) ==
    /\ phase = "up"
    /\ live # NoPort
    /\ Idle(r)
    /\ rebind' = [rebind EXCEPT ![r].pc = "bind"]
    /\ listening' = listening \ {live}
    /\ UNCHANGED <<phase, live, saved, written, unsaved, leaked, mute, failures>>

AskRebind(r) ==
    /\ phase = "up"
    /\ live # NoPort
    /\ Idle(r)
    /\ rebind' = [rebind EXCEPT ![r].pc = "bind"]
    /\ UNCHANGED <<phase, live, listening, saved, written, unsaved, leaked, mute, failures>>

(* The system listens on a new port; the callback is still to come.           *)
RebindListens(r, p) ==
    /\ rebind[r].pc = "bind"
    /\ p \in Fresh
    /\ listening' = listening \cup {p}
    /\ rebind' = [rebind EXCEPT ![r] = [pc |-> "bound", port |-> p]]
    /\ UNCHANGED <<phase, live, saved, written, unsaved, leaked, mute, failures>>

RebindFails(r) ==
    /\ rebind[r].pc = "bind"
    /\ Failure
    /\ rebind' = [rebind EXCEPT ![r] = NoRebind]
    /\ UNCHANGED <<phase, live, listening, saved, written, unsaved, leaked, mute>>

(* The listener to close when a new one takes over: the live one of that       *)
(* moment. Mutant: the one that proxy.json names.                              *)
PreviousBySave == saved
Previous == live

(* The callback: the new listener takes the place of whichever is live by now,  *)
(* and the agents' files follow. A stop in between left none to close, which     *)
(* throws; so does a save.                                                      *)
Rebound(r) ==
    LET p == rebind[r].port IN
    /\ rebind[r].pc = "bound"
    /\ live' = p
    /\ rebind' = [rebind EXCEPT ![r] = NoRebind]
    /\ \/ /\ saved' = p
          /\ unsaved' = FALSE
          /\ UNCHANGED <<leaked, failures>>
          /\ IF live = NoPort THEN UNCHANGED <<listening, written, mute>>
             ELSE /\ listening' = listening \ {Previous}
                  /\ written' = p
                  /\ mute' = FALSE
       \/ /\ Failure
          /\ unsaved' = TRUE
          /\ leaked' = leaked \cup ({live} \ {NoPort})
          /\ UNCHANGED <<saved, listening, written, mute>>
    /\ UNCHANGED phase

-----------------------------------------------------------------------------
(* stop, before AiOpt quits; then the process is gone, and its listeners.     *)

StopServer ==
    /\ phase = "up"
    /\ phase' = "quitting"
    /\ live' = NoPort
    /\ listening' = listening \ {live}
    /\ UNCHANGED <<saved, written, rebind, unsaved, leaked, mute, failures>>

ProcessEnds ==
    /\ phase = "quitting"
    /\ phase' = "off"
    /\ live' = NoPort
    /\ listening' = {}
    /\ rebind' = [r \in Rebinds |-> NoRebind]
    /\ leaked' = {}
    /\ UNCHANGED <<saved, written, unsaved, mute, failures>>

-----------------------------------------------------------------------------

ServerNext ==
    \/ LaunchApp
    \/ \E p \in Ports : Started(p)
    \/ StartFails
    \/ \E r \in Rebinds : AskRebind(r) \/ RebindFails(r) \/ Rebound(r)
    \/ \E r \in Rebinds, p \in Ports : RebindListens(r, p)
    \/ StopServer
    \/ ProcessEnds

ServerSpec == ServerInit /\ [][ServerNext]_serverVars

-----------------------------------------------------------------------------
(* The port in the agents' config files answers at every moment while AiOpt is  *)
(* up, through any rebinds that overlap, fail or cannot be saved ("so in-flight *)
(* requests on the old listener are never refused mid-swap"), unless start()    *)
(* itself had failed.                                                          *)
AgentsReachProxy == phase = "up" /\ ~mute => written \in listening

(* When no rebind is in flight, one server listens, and proxy.json and the      *)
(* agents' files name its port; only a save that threw leaves a second one, or  *)
(* the two files behind.                                                       *)
OneServer ==
    phase = "up" /\ (\A r \in Rebinds : Idle(r)) =>
        /\ listening = ({live} \ {NoPort}) \cup leaked
        /\ live # NoPort /\ ~unsaved => saved = live /\ written = live
=============================================================================
