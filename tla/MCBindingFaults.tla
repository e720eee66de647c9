--------------------------- MODULE MCBindingFaults ---------------------------
(***************************************************************************)
(* Bindings where writes fail and the process dies, in two instances, each *)
(* small enough to be searched: two agents and a profile on one port, and  *)
(* one agent with a group, two ports and a tool that rewrites its config.  *)
(* States that are in neither are not gone on from.                        *)
(***************************************************************************)
EXTENDS MCBindings

TwoAgentsOnePort ==
  /\ job.kind # "group" /\ retired \cap Groups = {}
  /\ \A d \in {mem, disk}, g \in Groups : d.groups[g] = None
  /\ port \in {0, 1} /\ edits = 0

OneAgentAndGroup ==
  /\ job.kind # "profile"
  /\ \A d \in {mem, disk} : d.binding[codex] = None /\ d.applied[codex] = None
  /\ todo.each[codex] = << >> /\ file[codex] = None

OneOfTheInstances == TwoAgentsOnePort \/ OneAgentAndGroup
=============================================================================
