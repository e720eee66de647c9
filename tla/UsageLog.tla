------------------------------- MODULE UsageLog -------------------------------
(* The usage log (usage/usageStore.ts): the events the proxy records, in memory and    *)
(* one line each in a file that is appended to, and rewritten when events expired.     *)
(* An append may throw or the app be killed within it, and half a line be left. The    *)
(* store is made at its first use after a launch, and again when that threw; a file     *)
(* that cannot be read then is taken to be empty.                                     *)
EXTENDS Integers, FiniteSets

CONSTANTS
    UsageEvents,
    CompactThreshold,   \* COMPACT_THRESHOLD: how many events memory may hold
    MaxSlips            \* bound: appends, rewrites and reads that fail, and crashes within one

ASSUME UsageAssumption == CompactThreshold \in Nat /\ MaxSlips \in Nat

VARIABLES
    opened,     \* whether the store is there
    mem,        \* events
    lines,      \* the file: the events whose line is whole
    tail,       \* the file: whether it ends in half a line
    expired,    \* events out of the retention window
    used,       \* history: what was recorded
    lost,       \* history: recorded, and not written whole
    unread,     \* the file: events that the store in use could not read
    dropped,    \* history: such events that a rewrite left out
    cleared,    \* history: what the user cleared, or tried to
    slips

usageVars == <<opened, mem, lines, tail, expired, used, lost, unread, dropped, cleared, slips>>

UsageTypeOK ==
    /\ opened \in BOOLEAN /\ tail \in BOOLEAN
    /\ mem \subseteq UsageEvents /\ lines \subseteq UsageEvents /\ expired \subseteq UsageEvents
    /\ used \subseteq UsageEvents /\ lost \subseteq used /\ cleared \subseteq used
    /\ unread \subseteq lines /\ dropped \subseteq used
    /\ slips \in 0 .. MaxSlips

UsageInit ==
    /\ opened = FALSE /\ tail = FALSE
    /\ mem = {} /\ lines = {} /\ expired = {}
    /\ used = {} /\ lost = {} /\ unread = {} /\ dropped = {} /\ cleared = {}
    /\ slips = 0

Slip == slips < MaxSlips /\ slips' = slips + 1

(* rewrite: the events, all lines whole; or it throws, and the file is as it was.       *)
Rewritten(events) ==
    /\ lines' = events /\ tail' = FALSE /\ lost' = lost \ events
    /\ unread' = {} /\ dropped' = dropped \cup (unread \ events)
FileKept == UNCHANGED <<lines, tail, lost, dropped>>

-----------------------------------------------------------------------------

(* Mutant: a file with a line that is not whole loads as an empty log.                  *)
LoadAllOrNothing == IF tail \/ lost # {} THEN {} ELSE lines
Load == lines

(* createUsageStore: lines that do not parse are skipped before they are counted, so     *)
(* they alone do not get the file rewritten. When the read throws there is no line to    *)
(* count, and the file is left as it is.                                              *)
OpenStore ==
    /\ ~opened
    /\ \/ /\ opened' = TRUE /\ mem' = Load \ expired
          /\ IF Load \ expired = lines THEN FileKept /\ UNCHANGED unread ELSE Rewritten(Load \ expired)
          /\ UNCHANGED slips
       \/ /\ Load \ expired # lines /\ Slip
          /\ FileKept /\ UNCHANGED <<opened, mem, unread>>
       \/ /\ lines # {} /\ Slip
          /\ opened' = TRUE /\ mem' = {} /\ unread' = lines /\ FileKept
    /\ UNCHANGED <<expired, used, cleared>>

(* An append after half a line goes onto that line, and neither parses.                 *)
Appended(e) ==
    /\ lines' = IF tail THEN lines ELSE lines \cup {e}
    /\ lost' = IF tail THEN lost \cup {e} ELSE lost
    /\ tail' = FALSE
    /\ UNCHANGED <<unread, dropped>>

Full(events) == Cardinality(events) > CompactThreshold /\ events \cap expired # {}

Record(e) ==
    /\ opened /\ e \notin used
    /\ used' = used \cup {e}
    /\ \/ /\ ~Full(mem \cup {e})
          /\ mem' = mem \cup {e} /\ Appended(e) /\ UNCHANGED slips
       \/ /\ Full(mem \cup {e})
          /\ mem' = (mem \cup {e}) \ expired
          /\ \/ Rewritten(mem') /\ UNCHANGED slips
             \/ Appended(e) /\ Slip
    /\ UNCHANGED <<opened, expired, cleared>>

(* The append throws or the app is killed, with or without half a line written.         *)
RecordFails(e) ==
    /\ opened /\ e \notin used /\ Slip
    /\ used' = used \cup {e} /\ lost' = lost \cup {e}
    /\ \/ mem' = mem \cup {e} /\ UNCHANGED <<opened, unread>>
       \/ mem' = {} /\ opened' = FALSE /\ unread' = {}
    /\ tail' \in {tail, TRUE}
    /\ UNCHANGED <<lines, dropped, expired, cleared>>

(* clear: memory first. When the rewrite throws, the events are back at the next launch. *)
Clear ==
    /\ opened
    /\ mem' = {} /\ cleared' = used
    /\ Rewritten({}) /\ UNCHANGED slips
    /\ UNCHANGED <<opened, expired, used>>

ClearFails ==
    /\ opened /\ Slip
    /\ mem' = {} /\ cleared' = used /\ FileKept
    /\ UNCHANGED <<opened, unread, expired, used>>

AppEnds ==
    /\ opened /\ opened' = FALSE /\ mem' = {} /\ unread' = {}
    /\ FileKept /\ UNCHANGED <<expired, used, cleared, slips>>

Expire(e) == e \in used \ expired /\ expired' = expired \cup {e}
             /\ UNCHANGED <<opened, mem, lines, tail, used, lost, unread, dropped, cleared, slips>>

UsageNext ==
    \/ OpenStore
    \/ \E e \in UsageEvents : Record(e) \/ RecordFails(e) \/ Expire(e)
    \/ Clear \/ ClearFails
    \/ AppEnds

UsageSpec == UsageInit /\ [][UsageNext]_usageVars

-----------------------------------------------------------------------------
(* An event is in the file until it expires or is cleared; one append that fails takes   *)
(* with it at most the event and the next one. The panel counts what the file holds.     *)
(* A file that could not be read is not counted until the next launch, and then is       *)
(* again, unless the store rewrote it meanwhile without what it had not read.            *)
UsageKept ==
    /\ used \ (expired \cup cleared \cup lost \cup dropped) \subseteq lines
    /\ Cardinality(lost) <= 2 * slips
    /\ opened => lines \ (expired \cup cleared \cup unread) \subseteq mem /\ mem \subseteq lines \cup lost
    /\ unread \cup dropped # {} => slips > 0
=============================================================================
