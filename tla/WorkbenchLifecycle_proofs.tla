--------------------- MODULE WorkbenchLifecycle_proofs ----------------------
(* What holds of the workbench for any number of starts and of stops in flight at  *)
(* once, and any number of troubles.                                              *)
EXTENDS WorkbenchLifecycle, TLAPS

(* None of these went wrong or crossed so far.                                    *)
Quiet(odd) == \A o \in odd : o \notin happened

BootStates == {"none", "ping", "resume", "probe", "kill", "wait", "install", "undo", "sweep", "over"}
BeforeReady == {"ping", "resume", "probe", "kill", "wait", "install"}

(* A start that has to undo its work was overtaken; one that goes on is not ready. *)
Ordered ==
    /\ rpc # NoStart => rpc \in orchestrators
    /\ \A s \in Starts : Under(s, {"undo"}) => current # s
    /\ \A s \in Starts : current = s /\ Under(s, BeforeReady) => status # "ready"

(* The orchestrator that is talked to is that of the current start, and a start    *)
(* that waits for another one is about to be rejected; nothing is up under a stop.  *)
OneAtATime ==
    /\ orchestrators \subseteq {rpc}
    /\ (status \in {"stopped", "error"} \/ Stops # {}) => rpc = NoStart
    /\ Stops # {} => current = NoStart
    /\ rpc # NoStart => current = rpc
    /\ \A s \in Starts : rpc # NoStart /\ Under(s, {"ping", "resume"}) => s = rpc
    /\ status = "stopped" => current = NoStart
    /\ status \in {"starting", "ready"} /\ Stops = {} => current # NoStart
    /\ herdrHeld /\ current = NoStart => \E s \in Starts : Under(s, {"undo"})

(* A current start goes on with its own orchestrator.                             *)
OwnOrchestrator ==
    /\ \A s \in Starts : current = s /\ Under(s, BeforeReady \ {"ping"}) => rpc = s
    /\ status = "ready" /\ Stops = {} => rpc # NoStart

(* ... and with a server that is there.                                           *)
OwnServer ==
    /\ \A s \in Starts : current = s /\ Under(s, {"wait", "install"}) => herdrServer # NoStart
    /\ \A s \in Starts : current = s /\ Under(s, {"install"}) => ownsServer
    /\ status = "ready" /\ Stops = {} => herdrServer # NoStart /\ ownsServer

(* A server that runs is one a start will own or undo, or one the manager will      *)
(* stop.                                                                          *)
ServerLeads ==
    /\ herdrServer # NoStart /\ ~ownsServer =>
         \E s \in Starts : \/ Under(s, {"wait", "undo"})
                           \/ Under(s, {"install"}) /\ current # s
    /\ herdrServer # NoStart /\ (\A s \in Starts : ~Under(s, {"wait", "install", "undo"})) =>
         ownsServer /\ (herdrHeld \/ Stops # {})

(* One poll timer ticks, which the manager can cancel, while the workbench is ready. *)
OneTimer ==
    /\ timers # {} => timers = {cancelPoll} /\ status = "ready" /\ current # NoStart
    /\ \A s \in Starts : Under(s, {"sweep"}) => current = s /\ status = "ready" /\ timers = {}

(* The inductive invariant.                                                       *)
LifecycleIInv ==
    /\ LifecycleTypeOK /\ Ordered
    /\ Quiet({"overlap"}) => OneAtATime
    /\ Quiet({"overlap", "exited"}) => OwnOrchestrator
    /\ Quiet({"overlap", "herdr", "undone"}) => OwnServer
    /\ Quiet({"overlap", "herdr", "quit"}) => ServerLeads
    /\ Quiet({"overlap", "sweeping", "exited"}) => OneTimer

NoneRejects == \A s \in Starts : ~Rejecting(s)
-----------------------------------------------------------------------------
LEMMA LifecycleInitIInv == LifecycleInit => LifecycleIInv
<1> SUFFICES ASSUME LifecycleInit PROVE LifecycleIInv
  OBVIOUS
<1> USE DEF LifecycleInit
<1>1. LifecycleTypeOK
  <2>1. 0 \in 0 .. MaxTroubles
    BY LifecycleAssumption
  <2> QED
    BY <2>1 DEF LifecycleTypeOK
<1>2. Stops = {}
  BY DEF Stops
<1>3. Ordered /\ OneAtATime /\ OwnOrchestrator /\ OwnServer /\ ServerLeads /\ OneTimer
  BY <1>2 DEF Ordered, OneAtATime, OwnOrchestrator, OwnServer, ServerLeads, OneTimer, Under
<1> QED
  BY <1>1, <1>3 DEF LifecycleIInv

LEMMA TroublesCounted == ASSUME LifecycleTypeOK, Trouble PROVE troubles' \in 0 .. MaxTroubles
  BY LifecycleAssumption DEF LifecycleTypeOK, Trouble

LEMMA NoStartIsNone == NoStart \notin Starts
  BY DEF NoStart, Starts

(* The types, from those of what changes.                                         *)
LEMMA TypesKept ==
    ASSUME LifecycleTypeOK, status' \in {"stopped", "starting", "ready", "error"},
           {rpc', herdrServer', cancelPoll', current'} \subseteq {NoStart} \cup Starts,
           orchestrators' \subseteq Starts, timers' \subseteq Starts,
           boot' \in [Starts -> BootStates], stopping' \in [StopCalls -> {"none", "close", "server"}],
           herdrHeld' \in BOOLEAN, ownsServer' \in BOOLEAN,
           happened' \subseteq Oddities, troubles' = troubles \/ Trouble
    PROVE  LifecycleTypeOK'
<1>1. troubles' \in 0 .. MaxTroubles
  BY TroublesCounted DEF LifecycleTypeOK
<1> QED
  BY <1>1 DEF LifecycleTypeOK, BootStates
-----------------------------------------------------------------------------
(* Every step, part by part.                                                      *)

LEMMA BeginStartSound == ASSUME LifecycleIInv, NEW s \in Starts, BeginStart(s), NoneRejects PROVE LifecycleIInv'
<1> USE DEF BeginStart, Spawned, NextStart, Trouble, Dispose, servers, polling, Goes
<1>1. /\ LifecycleTypeOK /\ boot' \in [Starts -> BootStates] /\ happened \subseteq happened' /\ Stops' = Stops
      /\ boot'[s] \in BootStates /\ \A t \in Starts \ {s} : boot'[t] = boot[t]
  BY DEF LifecycleIInv, LifecycleTypeOK, BootStates, Stops
<1>2. LifecycleTypeOK'
  BY <1>1, TypesKept DEF LifecycleTypeOK, Oddities
<1>3. Ordered'
  BY <1>1, NoStartIsNone DEF LifecycleIInv, Ordered, Under, BeforeReady
<1>4. Quiet({"overlap"})' => OneAtATime'
  <2> SUFFICES ASSUME Quiet({"overlap"})' PROVE OneAtATime'
    OBVIOUS
  <2>1. Quiet({"overlap"}) /\ Stops = {} /\ Stops' = {}
    BY <1>1 DEF Quiet
  <2>2. rpc = NoStart /\ orchestrators = {}
    BY <1>1, <2>1, NoStartIsNone DEF LifecycleIInv, OneAtATime, LifecycleTypeOK
  <2>3. \A t \in Starts : ~Under(t, {"ping", "resume"})
    BY <2>2 DEF NoneRejects, Rejecting
  <2>4. \A t \in Starts \ {s} : ~(boot'[t] \in {"ping", "resume"})
    BY <1>1, <2>3 DEF Under
  <2>5. herdrHeld' /\ current' = NoStart => FALSE
    BY NoStartIsNone
  <2> QED
    BY <1>1, <2>1, <2>2, <2>4, <2>5, NoStartIsNone DEF OneAtATime, Under
<1>5. Quiet({"overlap", "exited"})' => OwnOrchestrator'
  BY <1>1, NoStartIsNone DEF LifecycleIInv, Quiet, Ordered, OneAtATime, OwnOrchestrator, Under, BeforeReady
<1>6. Quiet({"overlap", "herdr", "undone"})' => OwnServer'
  BY <1>1, NoStartIsNone DEF LifecycleIInv, Quiet, OneAtATime, OwnServer, Under
<1>7. Quiet({"overlap", "herdr", "quit"})' => ServerLeads'
  BY <1>1, NoStartIsNone DEF LifecycleIInv, Quiet, OneAtATime, ServerLeads, Under
<1>8. Quiet({"overlap", "sweeping", "exited"})' => OneTimer'
  BY <1>1, NoStartIsNone DEF LifecycleIInv, Quiet, Ordered, OneAtATime, OneTimer, Under, BeforeReady
<1> QED
  BY <1>2, <1>3, <1>4, <1>5, <1>6, <1>7, <1>8 DEF LifecycleIInv

LEMMA PingAnsweredSound == ASSUME LifecycleIInv, NEW s \in Starts, PingAnswered(s) PROVE LifecycleIInv'
<1> USE DEF PingAnswered, servers, polling, Goes
<1>1. /\ LifecycleTypeOK /\ boot' \in [Starts -> BootStates] /\ happened \subseteq happened' /\ Stops' = Stops
      /\ boot'[s] \in BootStates /\ \A t \in Starts \ {s} : boot'[t] = boot[t]
  BY DEF LifecycleIInv, LifecycleTypeOK, BootStates, Stops
<1>2. LifecycleTypeOK'
  BY <1>1, TypesKept DEF LifecycleTypeOK, Oddities
<1>3. Ordered'
  BY <1>1, NoStartIsNone DEF LifecycleIInv, Ordered, Under, BeforeReady
<1>4. Quiet({"overlap"})' => OneAtATime'
  BY <1>1, NoStartIsNone DEF LifecycleIInv, Quiet, Ordered, OneAtATime, Under
<1>5. Quiet({"overlap", "exited"})' => OwnOrchestrator'
  BY <1>1, NoStartIsNone DEF LifecycleIInv, Quiet, Ordered, OneAtATime, OwnOrchestrator, Under, BeforeReady
<1>6. Quiet({"overlap", "herdr", "undone"})' => OwnServer'
  BY <1>1, NoStartIsNone DEF LifecycleIInv, Quiet, OneAtATime, OwnServer, Under
<1>7. Quiet({"overlap", "herdr", "quit"})' => ServerLeads'
  BY <1>1, NoStartIsNone DEF LifecycleIInv, Quiet, OneAtATime, ServerLeads, Under
<1>8. Quiet({"overlap", "sweeping", "exited"})' => OneTimer'
  BY <1>1, NoStartIsNone DEF LifecycleIInv, Quiet, Ordered, OneAtATime, OneTimer, Under, BeforeReady
<1> QED
  BY <1>2, <1>3, <1>4, <1>5, <1>6, <1>7, <1>8 DEF LifecycleIInv

LEMMA PingFailsSound == ASSUME LifecycleIInv, NEW s \in Starts, PingFails(s) PROVE LifecycleIInv'
<1> USE DEF PingFails, Trouble, Dispose, servers, polling, Goes
<1>1. /\ LifecycleTypeOK /\ boot' \in [Starts -> BootStates] /\ happened \subseteq happened' /\ Stops' = Stops
      /\ boot'[s] \in BootStates /\ \A t \in Starts \ {s} : boot'[t] = boot[t]
  BY DEF LifecycleIInv, LifecycleTypeOK, BootStates, Stops
<1>2. LifecycleTypeOK'
  BY <1>1, TypesKept DEF LifecycleTypeOK, Oddities
<1>3. Ordered'
  BY <1>1, NoStartIsNone DEF LifecycleIInv, Ordered, Under, BeforeReady
<1>4. Quiet({"overlap"})' => OneAtATime'
  BY <1>1, NoStartIsNone DEF LifecycleIInv, Quiet, Ordered, OneAtATime, Under
<1>5. Quiet({"overlap", "exited"})' => OwnOrchestrator'
  BY <1>1, NoStartIsNone DEF LifecycleIInv, Quiet, Ordered, OneAtATime, OwnOrchestrator, Under, BeforeReady
<1>6. Quiet({"overlap", "herdr", "undone"})' => OwnServer'
  BY <1>1, NoStartIsNone DEF LifecycleIInv, Quiet, OneAtATime, OwnServer, Under
<1>7. Quiet({"overlap", "herdr", "quit"})' => ServerLeads'
  BY <1>1, NoStartIsNone DEF LifecycleIInv, Quiet, OneAtATime, ServerLeads, Under
<1>8. Quiet({"overlap", "sweeping", "exited"})' => OneTimer'
  BY <1>1, NoStartIsNone DEF LifecycleIInv, Quiet, Ordered, OneAtATime, OneTimer, Under, BeforeReady
<1> QED
  BY <1>2, <1>3, <1>4, <1>5, <1>6, <1>7, <1>8 DEF LifecycleIInv

LEMMA ResumedSound == ASSUME LifecycleIInv, NEW s \in Starts, Resumed(s) PROVE LifecycleIInv'
<1> USE DEF Resumed, servers, polling, Goes
<1>1. /\ LifecycleTypeOK /\ boot' \in [Starts -> BootStates] /\ happened \subseteq happened' /\ Stops' = Stops
      /\ boot'[s] \in BootStates /\ \A t \in Starts \ {s} : boot'[t] = boot[t]
  BY DEF LifecycleIInv, LifecycleTypeOK, BootStates, Stops
<1>2. LifecycleTypeOK'
  BY <1>1, TypesKept DEF LifecycleTypeOK, Oddities
<1>3. Ordered'
  BY <1>1, NoStartIsNone DEF LifecycleIInv, Ordered, Under, BeforeReady
<1>4. Quiet({"overlap"})' => OneAtATime'
  BY <1>1, NoStartIsNone DEF LifecycleIInv, Quiet, Ordered, OneAtATime, Under
<1>5. Quiet({"overlap", "exited"})' => OwnOrchestrator'
  BY <1>1, NoStartIsNone DEF LifecycleIInv, Quiet, Ordered, OneAtATime, OwnOrchestrator, Under, BeforeReady
<1>6. Quiet({"overlap", "herdr", "undone"})' => OwnServer'
  BY <1>1, NoStartIsNone DEF LifecycleIInv, Quiet, OneAtATime, OwnServer, Under
<1>7. Quiet({"overlap", "herdr", "quit"})' => ServerLeads'
  BY <1>1, NoStartIsNone DEF LifecycleIInv, Quiet, OneAtATime, ServerLeads, Under
<1>8. Quiet({"overlap", "sweeping", "exited"})' => OneTimer'
  BY <1>1, NoStartIsNone DEF LifecycleIInv, Quiet, Ordered, OneAtATime, OneTimer, Under, BeforeReady
<1> QED
  BY <1>2, <1>3, <1>4, <1>5, <1>6, <1>7, <1>8 DEF LifecycleIInv

LEMMA ServerProbedSound == ASSUME LifecycleIInv, NEW s \in Starts, ServerProbed(s) PROVE LifecycleIInv'
<1> USE DEF ServerProbed, servers, polling, Goes
<1>1. /\ LifecycleTypeOK /\ boot' \in [Starts -> BootStates] /\ happened \subseteq happened' /\ Stops' = Stops
      /\ boot'[s] \in BootStates /\ \A t \in Starts \ {s} : boot'[t] = boot[t]
  BY DEF LifecycleIInv, LifecycleTypeOK, BootStates, Stops
<1>2. LifecycleTypeOK'
  BY <1>1, TypesKept DEF LifecycleTypeOK, Oddities
<1>3. Ordered'
  BY <1>1, NoStartIsNone DEF LifecycleIInv, Ordered, Under, BeforeReady
<1>4. Quiet({"overlap"})' => OneAtATime'
  BY <1>1, NoStartIsNone DEF LifecycleIInv, Quiet, Ordered, OneAtATime, Under
<1>5. Quiet({"overlap", "exited"})' => OwnOrchestrator'
  BY <1>1, NoStartIsNone DEF LifecycleIInv, Quiet, Ordered, OneAtATime, OwnOrchestrator, Under, BeforeReady
<1>6. Quiet({"overlap", "herdr", "undone"})' => OwnServer'
  BY <1>1, NoStartIsNone DEF LifecycleIInv, Quiet, OneAtATime, OwnServer, Under
<1>7. Quiet({"overlap", "herdr", "quit"})' => ServerLeads'
  BY <1>1, NoStartIsNone DEF LifecycleIInv, Quiet, OneAtATime, ServerLeads, Under
<1>8. Quiet({"overlap", "sweeping", "exited"})' => OneTimer'
  BY <1>1, NoStartIsNone DEF LifecycleIInv, Quiet, Ordered, OneAtATime, OneTimer, Under, BeforeReady
<1> QED
  BY <1>2, <1>3, <1>4, <1>5, <1>6, <1>7, <1>8 DEF LifecycleIInv

LEMMA ServerSpawnedSound == ASSUME LifecycleIInv, NEW s \in Starts, ServerSpawned(s) PROVE LifecycleIInv'
<1> USE DEF ServerSpawned, HerdrFails, Trouble, polling, Goes
<1>1. /\ LifecycleTypeOK /\ boot' \in [Starts -> BootStates] /\ happened \subseteq happened' /\ Stops' = Stops
      /\ boot'[s] \in BootStates /\ \A t \in Starts \ {s} : boot'[t] = boot[t]
  BY DEF LifecycleIInv, LifecycleTypeOK, BootStates, Stops
<1>2. LifecycleTypeOK'
  BY <1>1, TypesKept DEF LifecycleTypeOK, Oddities
<1>3. Ordered'
  BY <1>1, NoStartIsNone DEF LifecycleIInv, Ordered, Under, BeforeReady
<1>4. Quiet({"overlap"})' => OneAtATime'
  BY <1>1, NoStartIsNone DEF LifecycleIInv, Quiet, Ordered, OneAtATime, Under
<1>5. Quiet({"overlap", "exited"})' => OwnOrchestrator'
  BY <1>1, NoStartIsNone DEF LifecycleIInv, Quiet, Ordered, OneAtATime, OwnOrchestrator, Under, BeforeReady
<1>6. Quiet({"overlap", "herdr", "undone"})' => OwnServer'
  BY <1>1, NoStartIsNone DEF LifecycleIInv, Quiet, OneAtATime, OwnServer, Under
<1>7. Quiet({"overlap", "herdr", "quit"})' => ServerLeads'
  BY <1>1, NoStartIsNone DEF LifecycleIInv, Quiet, OneAtATime, ServerLeads, Under
<1>8. Quiet({"overlap", "sweeping", "exited"})' => OneTimer'
  BY <1>1, NoStartIsNone DEF LifecycleIInv, Quiet, Ordered, OneAtATime, OneTimer, Under, BeforeReady
<1> QED
  BY <1>2, <1>3, <1>4, <1>5, <1>6, <1>7, <1>8 DEF LifecycleIInv

LEMMA ServerAnswersSound == ASSUME LifecycleIInv, NEW s \in Starts, ServerAnswers(s) PROVE LifecycleIInv'
<1> USE DEF ServerAnswers, polling, Goes
<1>1. /\ LifecycleTypeOK /\ boot' \in [Starts -> BootStates] /\ happened \subseteq happened' /\ Stops' = Stops
      /\ boot'[s] \in BootStates /\ \A t \in Starts \ {s} : boot'[t] = boot[t]
  BY DEF LifecycleIInv, LifecycleTypeOK, BootStates, Stops
<1>2. LifecycleTypeOK'
  BY <1>1, TypesKept DEF LifecycleTypeOK, Oddities
<1>3. Ordered'
  BY <1>1, NoStartIsNone DEF LifecycleIInv, Ordered, Under, BeforeReady
<1>4. Quiet({"overlap"})' => OneAtATime'
  BY <1>1, NoStartIsNone DEF LifecycleIInv, Quiet, Ordered, OneAtATime, Under
<1>5. Quiet({"overlap", "exited"})' => OwnOrchestrator'
  BY <1>1, NoStartIsNone DEF LifecycleIInv, Quiet, Ordered, OneAtATime, OwnOrchestrator, Under, BeforeReady
<1>6. Quiet({"overlap", "herdr", "undone"})' => OwnServer'
  BY <1>1, NoStartIsNone DEF LifecycleIInv, Quiet, OneAtATime, OwnServer, Under
<1>7. Quiet({"overlap", "herdr", "quit"})' => ServerLeads'
  BY <1>1, NoStartIsNone DEF LifecycleIInv, Quiet, OneAtATime, ServerLeads, Under
<1>8. Quiet({"overlap", "sweeping", "exited"})' => OneTimer'
  BY <1>1, NoStartIsNone DEF LifecycleIInv, Quiet, Ordered, OneAtATime, OneTimer, Under, BeforeReady
<1> QED
  BY <1>2, <1>3, <1>4, <1>5, <1>6, <1>7, <1>8 DEF LifecycleIInv

(* The end of a start, in whichever way it gets there.                            *)
LEMMA FinishSound ==
    ASSUME LifecycleIInv, NEW s \in Starts, NEW got \in BOOLEAN, Finish(s, got), UNCHANGED herdrServer,
           Under(s, {"wait", "install"}), got => Under(s, {"install"}),
           happened \subseteq happened', happened' \subseteq Oddities, troubles' = troubles \/ Trouble,
           ~got => herdrServer = NoStart \/ "herdr" \in happened'
    PROVE  LifecycleIInv'
<1> USE DEF Finish, Goes
<1>1. /\ LifecycleTypeOK /\ boot' \in [Starts -> BootStates] /\ Stops' = Stops
      /\ boot'[s] = (IF current = s /\ got THEN "sweep" ELSE IF got THEN "undo" ELSE "over")
      /\ \A t \in Starts \ {s} : boot'[t] = boot[t]
      /\ UNCHANGED <<current, rpc, orchestrators, stopping>> /\ herdrHeld' = got
  BY DEF LifecycleIInv, LifecycleTypeOK, BootStates, Stops, polling
<1>9. \/ /\ current = s /\ status' = "ready" /\ UNCHANGED ownsServer
         /\ timers' = (IF got THEN timers ELSE timers \cup {s}) /\ cancelPoll' = (IF got THEN cancelPoll ELSE s)
      \/ /\ current # s /\ UNCHANGED <<status, timers, cancelPoll>> /\ ownsServer' = (got /\ ownsServer)
  BY DEF polling
<1> HIDE DEF Finish, Goes
<1>2. LifecycleTypeOK'
  BY <1>1, <1>9, TypesKept DEF LifecycleTypeOK
<1>3. Ordered'
  BY <1>1, <1>9, NoStartIsNone DEF LifecycleIInv, Ordered, Under, BeforeReady
<1>4. Quiet({"overlap"})' => OneAtATime'
  BY <1>1, <1>9, NoStartIsNone DEF LifecycleIInv, Quiet, Ordered, OneAtATime, Under
<1>5. Quiet({"overlap", "exited"})' => OwnOrchestrator'
  BY <1>1, <1>9, NoStartIsNone DEF LifecycleIInv, Quiet, Ordered, OneAtATime, OwnOrchestrator, Under, BeforeReady
<1>6. Quiet({"overlap", "herdr", "undone"})' => OwnServer'
  BY <1>1, <1>9, NoStartIsNone DEF LifecycleIInv, Quiet, OneAtATime, OwnServer, Under
<1>7. Quiet({"overlap", "herdr", "quit"})' => ServerLeads'
  BY <1>1, <1>9, NoStartIsNone DEF LifecycleIInv, Quiet, OneAtATime, ServerLeads, Under
<1>8. Quiet({"overlap", "sweeping", "exited"})' => OneTimer'
  BY <1>1, <1>9, NoStartIsNone DEF LifecycleIInv, Quiet, Ordered, OneAtATime, OneTimer, Under, BeforeReady
<1> QED
  BY <1>2, <1>3, <1>4, <1>5, <1>6, <1>7, <1>8 DEF LifecycleIInv

LEMMA ServerSilentSound == ASSUME LifecycleIInv, NEW s \in Starts, ServerSilent(s) PROVE LifecycleIInv'
<1>1. /\ Finish(s, FALSE) /\ UNCHANGED herdrServer /\ Under(s, {"wait"})
      /\ (herdrServer = NoStart \/ "herdr" \in happened') /\ (troubles' = troubles \/ Trouble)
      /\ happened \subseteq happened' /\ happened' \subseteq Oddities
  BY DEF ServerSilent, HerdrFails, Oddities, LifecycleIInv, LifecycleTypeOK
<1>2. Under(s, {"wait", "install"})
  BY <1>1 DEF Under
<1> QED
  BY <1>1, <1>2, FinishSound

LEMMA InstalledSound == ASSUME LifecycleIInv, NEW s \in Starts, Installed(s) PROVE LifecycleIInv'
<1>1. Under(s, {"install"}) /\ Under(s, {"wait", "install"}) /\ UNCHANGED herdrServer
  BY DEF Installed, Under
<1>2. CASE Finish(s, TRUE) /\ UNCHANGED <<happened, troubles>>
  <2>1. happened' \subseteq Oddities
    BY <1>2 DEF LifecycleIInv, LifecycleTypeOK
  <2> QED
    BY <1>1, <1>2, <2>1, FinishSound
<1>3. CASE HerdrFails /\ Finish(s, FALSE)
  <2>1. happened \subseteq happened' /\ happened' \subseteq Oddities /\ "herdr" \in happened' /\ Trouble
    BY <1>3 DEF HerdrFails, Oddities, LifecycleIInv, LifecycleTypeOK
  <2> QED
    BY <1>1, <1>3, <2>1, FinishSound
<1> QED
  BY <1>2, <1>3 DEF Installed

LEMMA UndoneSound == ASSUME LifecycleIInv, NEW s \in Starts, Undone(s) PROVE LifecycleIInv'
<1> USE DEF Undone, StopsServer, Trouble, polling, Goes
<1>1. /\ LifecycleTypeOK /\ boot' \in [Starts -> BootStates] /\ happened \subseteq happened' /\ Stops' = Stops
      /\ boot'[s] \in BootStates /\ \A t \in Starts \ {s} : boot'[t] = boot[t]
  BY DEF LifecycleIInv, LifecycleTypeOK, BootStates, Stops
<1>2. LifecycleTypeOK'
  <2>1. happened' \subseteq Oddities
    BY <1>1 DEF LifecycleTypeOK, Oddities
  <2>2. {rpc', herdrServer', cancelPoll', current'} \subseteq {NoStart} \cup Starts
        /\ orchestrators' \subseteq Starts /\ timers' \subseteq Starts
    BY <1>1 DEF LifecycleTypeOK
  <2>3. /\ status' \in {"stopped", "starting", "ready", "error"} /\ boot' \in [Starts -> BootStates]
        /\ herdrHeld' \in BOOLEAN /\ ownsServer' \in BOOLEAN
    BY <1>1 DEF LifecycleTypeOK, BootStates
  <2>4. stopping' \in [StopCalls -> {"none", "close", "server"}]
    BY <1>1 DEF LifecycleTypeOK
  <2>5. troubles' = troubles \/ Trouble
    OBVIOUS
  <2> QED
    BY <1>1, <2>1, <2>2, <2>3, <2>4, <2>5, TypesKept
<1>3. Ordered'
  BY <1>1, NoStartIsNone DEF LifecycleIInv, Ordered, Under, BeforeReady
<1>4. Quiet({"overlap"})' => OneAtATime'
  BY <1>1, NoStartIsNone DEF LifecycleIInv, Quiet, Ordered, OneAtATime, Under
<1>5. Quiet({"overlap", "exited"})' => OwnOrchestrator'
  BY <1>1, NoStartIsNone DEF LifecycleIInv, Quiet, Ordered, OneAtATime, OwnOrchestrator, Under, BeforeReady
<1>6. Quiet({"overlap", "herdr", "undone"})' => OwnServer'
  BY <1>1, NoStartIsNone DEF LifecycleIInv, Quiet, OneAtATime, OwnServer, Under
<1>7. Quiet({"overlap", "herdr", "quit"})' => ServerLeads'
  BY <1>1, NoStartIsNone DEF LifecycleIInv, Quiet, OneAtATime, ServerLeads, Under
<1>8. Quiet({"overlap", "sweeping", "exited"})' => OneTimer'
  BY <1>1, NoStartIsNone DEF LifecycleIInv, Quiet, Ordered, OneAtATime, OneTimer, Under, BeforeReady
<1> QED
  BY <1>2, <1>3, <1>4, <1>5, <1>6, <1>7, <1>8 DEF LifecycleIInv

LEMMA SweepAnsweredSound == ASSUME LifecycleIInv, NEW s \in Starts, SweepAnswered(s) PROVE LifecycleIInv'
<1> USE DEF SweepAnswered, servers, Goes
<1>1. /\ LifecycleTypeOK /\ boot' \in [Starts -> BootStates] /\ happened \subseteq happened' /\ Stops' = Stops
      /\ boot'[s] \in BootStates /\ \A t \in Starts \ {s} : boot'[t] = boot[t]
  BY DEF LifecycleIInv, LifecycleTypeOK, BootStates, Stops
<1>2. LifecycleTypeOK'
  BY <1>1, TypesKept DEF LifecycleTypeOK, Oddities
<1>3. Ordered'
  BY <1>1, NoStartIsNone DEF LifecycleIInv, Ordered, Under, BeforeReady
<1>4. Quiet({"overlap"})' => OneAtATime'
  BY <1>1, NoStartIsNone DEF LifecycleIInv, Quiet, Ordered, OneAtATime, Under
<1>5. Quiet({"overlap", "exited"})' => OwnOrchestrator'
  BY <1>1, NoStartIsNone DEF LifecycleIInv, Quiet, Ordered, OneAtATime, OwnOrchestrator, Under, BeforeReady
<1>6. Quiet({"overlap", "herdr", "undone"})' => OwnServer'
  BY <1>1, NoStartIsNone DEF LifecycleIInv, Quiet, OneAtATime, OwnServer, Under
<1>7. Quiet({"overlap", "herdr", "quit"})' => ServerLeads'
  BY <1>1, NoStartIsNone DEF LifecycleIInv, Quiet, OneAtATime, ServerLeads, Under
<1>8. Quiet({"overlap", "sweeping", "exited"})' => OneTimer'
  BY <1>1, NoStartIsNone DEF LifecycleIInv, Quiet, Ordered, OneAtATime, OneTimer, Under, BeforeReady
<1> QED
  BY <1>2, <1>3, <1>4, <1>5, <1>6, <1>7, <1>8 DEF LifecycleIInv

LEMMA BeginStopSound == ASSUME LifecycleIInv, NEW x \in StopCalls, BeginStop(x) PROVE LifecycleIInv'
<1> USE DEF BeginStop, StopPolling, Dispose, Noted
<1>1. LifecycleTypeOK /\ happened \subseteq happened' /\ (\A y \in Stops : y # x => y \in Stops') /\ Stops' \subseteq Stops \cup {x}
      /\ (stopping'[x] # "none" <=> x \in Stops') /\ (stopping[x] # "none" <=> x \in Stops)
  BY DEF LifecycleIInv, LifecycleTypeOK, Stops
<1>9. /\ Quiet({"overlap"})' => (Quiet({"overlap"}) /\ Stops = {})
      /\ herdrHeld => (Stops' # {} /\ UNCHANGED <<status, ownsServer>>)
      /\ ~herdrHeld => (Stops' = Stops /\ status' = "stopped" /\ ~ownsServer')
      /\ rpc' = NoStart /\ current' = NoStart /\ ~herdrHeld' /\ orchestrators' = orchestrators \ {rpc} /\ UNCHANGED boot
  <2>1. Quiet({"overlap"})' => (Quiet({"overlap"}) /\ Stops = {})
    BY <1>1 DEF Quiet
  <2>2. herdrHeld => stopping'[x] # "none"
    BY <1>1 DEF LifecycleTypeOK
  <2>3. ~herdrHeld => Stops' = Stops
    BY DEF Stops
  <2> QED
    BY <1>1, <2>1, <2>2, <2>3
<1>2. LifecycleTypeOK'
  BY <1>1, TypesKept DEF LifecycleTypeOK, Oddities
<1>3. Ordered'
  BY <1>1, <1>9, NoStartIsNone DEF LifecycleIInv, Ordered, Under, BeforeReady
<1>4. Quiet({"overlap"})' => OneAtATime'
  BY <1>1, <1>9, NoStartIsNone DEF LifecycleIInv, Quiet, Ordered, OneAtATime, Under
<1>5. Quiet({"overlap", "exited"})' => OwnOrchestrator'
  BY <1>1, <1>9, NoStartIsNone DEF LifecycleIInv, Quiet, Ordered, OneAtATime, OwnOrchestrator, Under, BeforeReady
<1>6. Quiet({"overlap", "herdr", "undone"})' => OwnServer'
  BY <1>1, <1>9, NoStartIsNone DEF LifecycleIInv, Quiet, OneAtATime, OwnServer, Under
<1>7. Quiet({"overlap", "herdr", "quit"})' => ServerLeads'
  BY <1>1, <1>9, NoStartIsNone DEF LifecycleIInv, Quiet, OneAtATime, ServerLeads, Under
<1>8. Quiet({"overlap", "sweeping", "exited"})' => OneTimer'
  BY <1>1, <1>9, NoStartIsNone DEF LifecycleIInv, Quiet, Ordered, OneAtATime, OneTimer, Under, BeforeReady
<1> QED
  BY <1>2, <1>3, <1>4, <1>5, <1>6, <1>7, <1>8 DEF LifecycleIInv

LEMMA StopClosesSound == ASSUME LifecycleIInv, NEW x \in StopCalls, StopCloses(x) PROVE LifecycleIInv'
<1> USE DEF StopCloses, servers, polling
<1>1. LifecycleTypeOK /\ happened \subseteq happened' /\ (\A y \in Stops : y # x => y \in Stops') /\ Stops' \subseteq Stops \cup {x}
      /\ (stopping'[x] # "none" <=> x \in Stops') /\ (stopping[x] # "none" <=> x \in Stops)
  BY DEF LifecycleIInv, LifecycleTypeOK, Stops
<1>2. LifecycleTypeOK'
  BY <1>1, TypesKept DEF LifecycleTypeOK, Oddities
<1>3. Ordered'
  BY <1>1, NoStartIsNone DEF LifecycleIInv, Ordered, Under, BeforeReady
<1>4. Quiet({"overlap"})' => OneAtATime'
  BY <1>1, NoStartIsNone DEF LifecycleIInv, Quiet, Ordered, OneAtATime, Under
<1>5. Quiet({"overlap", "exited"})' => OwnOrchestrator'
  BY <1>1, NoStartIsNone DEF LifecycleIInv, Quiet, Ordered, OneAtATime, OwnOrchestrator, Under, BeforeReady
<1>6. Quiet({"overlap", "herdr", "undone"})' => OwnServer'
  BY <1>1, NoStartIsNone DEF LifecycleIInv, Quiet, OneAtATime, OwnServer, Under
<1>7. Quiet({"overlap", "herdr", "quit"})' => ServerLeads'
  BY <1>1, NoStartIsNone DEF LifecycleIInv, Quiet, OneAtATime, ServerLeads, Under
<1>8. Quiet({"overlap", "sweeping", "exited"})' => OneTimer'
  BY <1>1, NoStartIsNone DEF LifecycleIInv, Quiet, Ordered, OneAtATime, OneTimer, Under, BeforeReady
<1> QED
  BY <1>2, <1>3, <1>4, <1>5, <1>6, <1>7, <1>8 DEF LifecycleIInv

LEMMA StopEndsSound == ASSUME LifecycleIInv, NEW x \in StopCalls, StopEnds(x) PROVE LifecycleIInv'
<1> USE DEF StopEnds, StopsServer, Trouble, polling
<1>1. LifecycleTypeOK /\ happened \subseteq happened' /\ (\A y \in Stops : y # x => y \in Stops') /\ Stops' \subseteq Stops \cup {x}
      /\ (stopping'[x] # "none" <=> x \in Stops') /\ (stopping[x] # "none" <=> x \in Stops)
  BY DEF LifecycleIInv, LifecycleTypeOK, Stops
<1>2. LifecycleTypeOK'
  <2>1. happened' \subseteq Oddities
    BY <1>1 DEF LifecycleTypeOK, Oddities
  <2>2. {rpc', herdrServer', cancelPoll', current'} \subseteq {NoStart} \cup Starts
        /\ orchestrators' \subseteq Starts /\ timers' \subseteq Starts
    BY <1>1 DEF LifecycleTypeOK
  <2>3. /\ status' \in {"stopped", "starting", "ready", "error"} /\ boot' \in [Starts -> BootStates]
        /\ herdrHeld' \in BOOLEAN /\ ownsServer' \in BOOLEAN
    BY <1>1 DEF LifecycleTypeOK, BootStates
  <2>4. stopping' \in [StopCalls -> {"none", "close", "server"}]
    BY <1>1 DEF LifecycleTypeOK
  <2>5. troubles' = troubles \/ Trouble
    OBVIOUS
  <2> QED
    BY <1>1, <2>1, <2>2, <2>3, <2>4, <2>5, TypesKept
<1>3. Ordered'
  BY <1>1, NoStartIsNone DEF LifecycleIInv, Ordered, Under, BeforeReady
<1>4. Quiet({"overlap"})' => OneAtATime'
  BY <1>1, NoStartIsNone DEF LifecycleIInv, Quiet, Ordered, OneAtATime, Under
<1>5. Quiet({"overlap", "exited"})' => OwnOrchestrator'
  BY <1>1, NoStartIsNone DEF LifecycleIInv, Quiet, Ordered, OneAtATime, OwnOrchestrator, Under, BeforeReady
<1>6. Quiet({"overlap", "herdr", "undone"})' => OwnServer'
  BY <1>1, NoStartIsNone DEF LifecycleIInv, Quiet, OneAtATime, OwnServer, Under
<1>7. Quiet({"overlap", "herdr", "quit"})' => ServerLeads'
  BY <1>1, NoStartIsNone DEF LifecycleIInv, Quiet, OneAtATime, ServerLeads, Under
<1>8. Quiet({"overlap", "sweeping", "exited"})' => OneTimer'
  BY <1>1, NoStartIsNone DEF LifecycleIInv, Quiet, Ordered, OneAtATime, OneTimer, Under, BeforeReady
<1> QED
  BY <1>2, <1>3, <1>4, <1>5, <1>6, <1>7, <1>8 DEF LifecycleIInv

LEMMA ExitsSound == ASSUME LifecycleIInv, NEW s \in Starts, Exits(s) PROVE LifecycleIInv'
<1> USE DEF Exits, Trouble, StopPolling, servers, polling
<1>1. LifecycleTypeOK /\ happened \subseteq happened' /\ Stops' = Stops
  BY DEF LifecycleIInv, LifecycleTypeOK, Stops
<1>2. LifecycleTypeOK'
  <2>1. happened' \subseteq Oddities
    BY <1>1 DEF LifecycleTypeOK, Oddities
  <2>2. {rpc', herdrServer', cancelPoll', current'} \subseteq {NoStart} \cup Starts
        /\ orchestrators' \subseteq Starts /\ timers' \subseteq Starts
    BY <1>1 DEF LifecycleTypeOK
  <2>3. /\ status' \in {"stopped", "starting", "ready", "error"} /\ boot' \in [Starts -> BootStates]
        /\ herdrHeld' \in BOOLEAN /\ ownsServer' \in BOOLEAN
    BY <1>1 DEF LifecycleTypeOK, BootStates
  <2>4. stopping' \in [StopCalls -> {"none", "close", "server"}]
    BY <1>1 DEF LifecycleTypeOK
  <2>5. troubles' = troubles \/ Trouble
    OBVIOUS
  <2> QED
    BY <1>1, <2>1, <2>2, <2>3, <2>4, <2>5, TypesKept
<1>3. Ordered'
  BY <1>1, NoStartIsNone DEF LifecycleIInv, Ordered, Under, BeforeReady
<1>4. Quiet({"overlap"})' => OneAtATime'
  BY <1>1, NoStartIsNone DEF LifecycleIInv, Quiet, Ordered, OneAtATime, Under
<1>5. Quiet({"overlap", "exited"})' => OwnOrchestrator'
  BY <1>1, NoStartIsNone DEF LifecycleIInv, Quiet, Ordered, OneAtATime, OwnOrchestrator, Under, BeforeReady
<1>6. Quiet({"overlap", "herdr", "undone"})' => OwnServer'
  BY <1>1, NoStartIsNone DEF LifecycleIInv, Quiet, OneAtATime, OwnServer, Under
<1>7. Quiet({"overlap", "herdr", "quit"})' => ServerLeads'
  BY <1>1, NoStartIsNone DEF LifecycleIInv, Quiet, OneAtATime, ServerLeads, Under
<1>8. Quiet({"overlap", "sweeping", "exited"})' => OneTimer'
  BY <1>1, NoStartIsNone DEF LifecycleIInv, Quiet, Ordered, OneAtATime, OneTimer, Under, BeforeReady
<1> QED
  BY <1>2, <1>3, <1>4, <1>5, <1>6, <1>7, <1>8 DEF LifecycleIInv

LEMMA QuitSound == ASSUME LifecycleIInv, Quit PROVE LifecycleIInv'
<1> USE DEF Quit
<1>1. LifecycleTypeOK /\ happened \subseteq happened' /\ Stops' = {}
      /\ \A s \in Starts : boot'[s] \in {"none", "over"} /\ (boot[s] \in {"none", "over"} \/ "quit" \in happened')
  BY DEF LifecycleIInv, LifecycleTypeOK, Stops, Under
<1>2. LifecycleTypeOK'
  BY <1>1, TypesKept DEF LifecycleTypeOK, Oddities
<1>3. Ordered'
  BY <1>1, NoStartIsNone DEF LifecycleIInv, Ordered, Under, BeforeReady
<1>4. Quiet({"overlap"})' => OneAtATime'
  BY <1>1, NoStartIsNone DEF LifecycleIInv, Quiet, Ordered, OneAtATime, Under
<1>5. Quiet({"overlap", "exited"})' => OwnOrchestrator'
  BY <1>1, NoStartIsNone DEF LifecycleIInv, Quiet, Ordered, OneAtATime, OwnOrchestrator, Under, BeforeReady
<1>6. Quiet({"overlap", "herdr", "undone"})' => OwnServer'
  BY <1>1, NoStartIsNone DEF LifecycleIInv, Quiet, OneAtATime, OwnServer, Under
<1>7. Quiet({"overlap", "herdr", "quit"})' => ServerLeads'
  BY <1>1, NoStartIsNone DEF LifecycleIInv, Quiet, OneAtATime, ServerLeads, Under
<1>8. Quiet({"overlap", "sweeping", "exited"})' => OneTimer'
  BY <1>1, NoStartIsNone DEF LifecycleIInv, Quiet, Ordered, OneAtATime, OneTimer, Under, BeforeReady
<1> QED
  BY <1>2, <1>3, <1>4, <1>5, <1>6, <1>7, <1>8 DEF LifecycleIInv

LEMMA LifecycleStepIInv == LifecycleIInv /\ [LifecycleNext]_lifecycleVars => LifecycleIInv'
<1> SUFFICES ASSUME LifecycleIInv, [LifecycleNext]_lifecycleVars PROVE LifecycleIInv'
  OBVIOUS
<1>1. CASE UNCHANGED lifecycleVars
  BY <1>1 DEF lifecycleVars, servers, polling, LifecycleIInv, Quiet, LifecycleTypeOK, Ordered, OneAtATime, OwnOrchestrator,
              OwnServer, ServerLeads, OneTimer, Under, Stops
<1>2. ASSUME NEW s \in Starts, StartGoesOn(s) PROVE LifecycleIInv'
  BY <1>2, PingAnsweredSound, PingFailsSound, ResumedSound, ServerProbedSound, ServerSpawnedSound, ServerAnswersSound,
     ServerSilentSound, InstalledSound, UndoneSound, SweepAnsweredSound DEF StartGoesOn
<1>3. ASSUME NEW s \in Starts, Rejecting(s), PingFails(s) \/ Resumed(s) PROVE LifecycleIInv'
  BY <1>3, PingFailsSound, ResumedSound
<1>4. ASSUME NEW s \in Starts, NoneRejects, BeginStart(s) \/ Exits(s) PROVE LifecycleIInv'
  BY <1>4, BeginStartSound, ExitsSound
<1>5. ASSUME NEW x \in StopCalls, BeginStop(x) \/ StopCloses(x) \/ StopEnds(x) PROVE LifecycleIInv'
  BY <1>5, BeginStopSound, StopClosesSound, StopEndsSound
<1>6. CASE Quit
  BY <1>6, QuitSound
<1> QED
  BY <1>1, <1>2, <1>3, <1>4, <1>5, <1>6 DEF LifecycleNext, NoneRejects

LEMMA LifecycleInvariance == LifecycleSpec => []LifecycleIInv
  BY LifecycleInitIInv, LifecycleStepIInv, PTL DEF LifecycleSpec

(* What the workbench keeps of its starts, stops, orchestrators, servers and timers  *)
(* has its types.                                                                  *)
THEOREM LifecycleTypeCorrect == LifecycleSpec => []LifecycleTypeOK
<1>1. LifecycleIInv => LifecycleTypeOK
  BY DEF LifecycleIInv
<1> QED
  BY <1>1, LifecycleInvariance, PTL

(* One orchestrator runs, ready is up and stopped is down, however many starts and   *)
(* stops overtake each other, but for the crossings that the properties name         *)
(* (workbenchManager.ts: start, stop, shutdown, the exit of the orchestrator).        *)
THEOREM WorkbenchStaysUp == LifecycleSpec => []WorkbenchUp
<1>1. LifecycleIInv => OneOrchestrator
  BY DEF LifecycleIInv, Quiet, OneAtATime, OneOrchestrator
<1>2. LifecycleIInv => ReadyIsUp
  BY DEF LifecycleIInv, Quiet, Ordered, OwnOrchestrator, OwnServer, ReadyIsUp
<1>3. LifecycleIInv => StoppedIsDown
  <2> SUFFICES ASSUME LifecycleIInv, status = "stopped", Stops = {}, \A s \in Starts : Under(s, {"none", "over"})
               PROVE  /\ "overlap" \notin happened => orchestrators = {}
                      /\ happened \cap {"overlap", "herdr", "quit"} = {} => herdrServer = NoStart
                      /\ happened \cap {"overlap", "sweeping", "exited"} = {} => timers = {}
    BY DEF StoppedIsDown
  <2>1. "overlap" \notin happened => OneAtATime
    BY DEF LifecycleIInv, Quiet
  <2>2. \A s \in Starts : ~Under(s, {"wait", "install", "undo"}) /\ ~Under(s, {"undo"})
    BY DEF Under
  <2>3. "overlap" \notin happened => orchestrators = {}
    BY <2>1, NoStartIsNone DEF OneAtATime, LifecycleIInv, LifecycleTypeOK
  <2>4. happened \cap {"overlap", "herdr", "quit"} = {} => herdrServer = NoStart
    BY <2>1, <2>2 DEF LifecycleIInv, Quiet, ServerLeads, OneAtATime
  <2>5. happened \cap {"overlap", "sweeping", "exited"} = {} => timers = {}
    BY DEF LifecycleIInv, Quiet, OneTimer
  <2> QED
    BY <2>3, <2>4, <2>5
<1>4. LifecycleIInv => WorkbenchUp
  BY <1>1, <1>2, <1>3 DEF WorkbenchUp
<1> QED
  BY <1>4, LifecycleInvariance, PTL
=============================================================================
