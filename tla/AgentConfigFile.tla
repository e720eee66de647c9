-------------------------- MODULE AgentConfigFile ---------------------------
(***************************************************************************)
(* One agent config file under AiOpt's takeover: backup once, atomic       *)
(* write, restore (main/providers/fsutil.ts), driven by an adapter's       *)
(* writeLive (read, merge, write) and restoreDefault.  The file system is  *)
(* shared with the user and the agent, which may read or rewrite the file  *)
(* between any two calls.                                                  *)
(***************************************************************************)
EXTENDS Naturals

CONSTANTS
  UserVersions,  \* what the user's own part of the file can say
  OurVersions,   \* the bindings AiOpt can write into it
  Absent,        \* the file does not exist
  MaxEdits,      \* bound: rewrites by the user
  MaxThrows,     \* bound: file system calls that throw
  MaxCrashes     \* bound: deaths of the process inside a call sequence

Nobody == 0      \* no user part, or no AiOpt part
ASSUME VersionsAssumption == Nobody \notin UserVersions \cup OurVersions
ASSUME BoundsAssumption == MaxEdits \in Nat /\ MaxThrows \in Nat /\ MaxCrashes \in Nat

\* A document: the user's part, AiOpt's part, and whether it is all there.
Document == [user : UserVersions \cup {Nobody}, ours : OurVersions \cup {Nobody},
             whole : BOOLEAN]
ASSUME AbsentAssumption == Absent \notin Document
Contents == Document \cup {Absent}

\* A document while its bytes are being written, and when the last one is.
partial(d) == [user |-> d.user, ours |-> d.ours, whole |-> FALSE]
complete(d) == [user |-> d.user, ours |-> d.ours, whole |-> TRUE]

VARIABLES
  target, backup, tmp,  \* <file>, <file>.aiopt.bak and <file>.tmp
  pc,        \* the next file system call: "idle", "backup", "copying", "temp",
             \* "writing", "rename", "unbackup"
  restoring, \* the running sequence is restoreAgentConfigFile
  next,      \* the contents it is going to write
  taken,     \* a takeover has begun and was not handed back
  orig,      \* the file as the takeover found it
  torn,      \* the process died while it copied the backup
  handed,    \* a restore has completed and nobody has touched the file since
  edits, throws, crashes

vars == <<target, backup, tmp, pc, restoring, next, taken, orig, torn, handed,
          edits, throws, crashes>>
files == <<target, backup, tmp>>
history == <<taken, orig, torn>>
budget == <<edits, throws, crashes>>

Init ==
  /\ target = Absent \/ \E u \in UserVersions :
                            target = [user |-> u, ours |-> Nobody, whole |-> TRUE]
  /\ backup = Absent /\ tmp = Absent
  /\ pc = "idle" /\ restoring = FALSE /\ next = Absent
  /\ taken = FALSE /\ orig = Absent /\ torn = FALSE /\ handed = FALSE
  /\ edits = 0 /\ throws = 0 /\ crashes = 0

(***************************************************************************)
(* writeLive: the adapter merges its keys into what it reads, an unreadable *)
(* file counting as empty, and calls writeAgentConfigFile.                 *)
(***************************************************************************)
merged(k) == [user |-> IF target = Absent THEN Nobody
                       ELSE IF target.whole THEN target.user ELSE Nobody,
              ours |-> k, whole |-> TRUE]

WriteLive(k) ==
  /\ pc = "idle"
  /\ next' = merged(k)
  /\ restoring' = FALSE
  /\ pc' = "backup"
  /\ handed' = FALSE
  /\ UNCHANGED <<files, history, budget>>

\* backupOnce: an existing backup is left alone, a missing file is a no-op.
SkipBackup ==
  /\ pc = "backup"
  /\ backup # Absent \/ target = Absent
  /\ pc' = "temp"
  /\ taken' = TRUE
  /\ orig' = IF taken THEN orig ELSE target
  /\ UNCHANGED <<files, restoring, next, torn, handed, budget>>

\* Mutant of CopyBackup: the backup is taken anew on every write.
CopyBackupEveryTime ==
  /\ pc = "backup"
  /\ target # Absent
  /\ backup' = partial(target)
  /\ pc' = "copying"
  /\ taken' = TRUE
  /\ orig' = IF taken THEN orig ELSE target
  /\ UNCHANGED <<target, tmp, restoring, next, torn, handed, budget>>

\* copyFileSync creates the copy and then fills it.
CopyBackup ==
  /\ pc = "backup"
  /\ backup = Absent /\ target # Absent
  /\ backup' = partial(target)
  /\ pc' = "copying"
  /\ taken' = TRUE
  /\ orig' = IF taken THEN orig ELSE target
  /\ UNCHANGED <<target, tmp, restoring, next, torn, handed, budget>>

CopiedBackup ==
  /\ pc = "copying"
  /\ backup' = complete(backup)
  /\ pc' = "temp"
  /\ UNCHANGED <<target, tmp, restoring, next, history, handed, budget>>

(***************************************************************************)
(* atomicWriteFile: fill <file>.tmp, rename it over the file.              *)
(***************************************************************************)
OpenTemp ==
  /\ pc = "temp"
  /\ tmp' = partial(next)
  /\ pc' = "writing"
  /\ UNCHANGED <<target, backup, restoring, next, history, handed, budget>>

FillTemp ==
  /\ pc = "writing"
  /\ tmp' = next
  /\ pc' = "rename"
  /\ UNCHANGED <<target, backup, restoring, next, history, handed, budget>>

RenameTemp ==
  /\ pc = "rename"
  /\ target' = tmp
  /\ tmp' = Absent
  /\ pc' = IF restoring THEN "unbackup" ELSE "idle"
  /\ UNCHANGED <<backup, restoring, next, history, handed, budget>>

(***************************************************************************)
(* restoreAgentConfigFile.                                                 *)
(***************************************************************************)
\* Mutant of RestoreFromBackup: AiOpt's keys are taken out of the current file.
RestoreByStripping ==
  /\ pc = "idle"
  /\ backup # Absent
  /\ next' = merged(Nobody)
  /\ restoring' = TRUE
  /\ pc' = "temp"
  /\ handed' = FALSE
  /\ UNCHANGED <<files, history, budget>>

RestoreFromBackup ==
  /\ pc = "idle"
  /\ backup # Absent
  /\ next' = backup
  /\ restoring' = TRUE
  /\ pc' = "temp"
  /\ handed' = FALSE
  /\ UNCHANGED <<files, history, budget>>

RemoveBackup ==
  /\ pc = "unbackup"
  /\ backup' = Absent
  /\ pc' = "idle"
  /\ taken' = FALSE
  /\ handed' = TRUE
  /\ UNCHANGED <<target, tmp, restoring, next, orig, torn, budget>>

\* No backup: AiOpt created the file, or never touched it.
RestoreWithoutBackup ==
  /\ pc = "idle"
  /\ backup = Absent
  /\ target' = Absent
  /\ taken' = FALSE
  /\ handed' = TRUE
  /\ UNCHANGED <<backup, tmp, pc, restoring, next, orig, torn, budget>>

(***************************************************************************)
(* What can go wrong, and what others do.                                  *)
(***************************************************************************)

\* A call throws, and the sequence is abandoned.  discardTemp removes the
\* temporary file if it can; a copy that throws removes its destination.
Throw ==
  /\ pc # "idle"
  /\ throws < MaxThrows
  /\ throws' = throws + 1
  /\ pc' = "idle"
  /\ backup' = IF pc = "copying" THEN Absent ELSE backup
  /\ taken' = (taken /\ pc # "copying")
  /\ tmp' \in IF pc \in {"writing", "rename"} THEN {tmp, Absent} ELSE {tmp}
  /\ UNCHANGED <<target, restoring, next, orig, torn, handed, edits, crashes>>

\* The process dies: the three files stay as they are.
Crash ==
  /\ pc # "idle"
  /\ crashes < MaxCrashes
  /\ crashes' = crashes + 1
  /\ pc' = "idle"
  /\ torn' = (torn \/ pc = "copying")
  /\ UNCHANGED <<files, restoring, next, taken, orig, handed, edits, throws>>

\* The user, or the agent itself, saves the file.
UserEdit ==
  /\ edits < MaxEdits
  /\ edits' = edits + 1
  /\ \E u \in UserVersions :
       target' = [user |-> u, ours |-> IF target = Absent THEN Nobody ELSE target.ours,
                  whole |-> TRUE]
  /\ handed' = FALSE
  /\ UNCHANGED <<backup, tmp, pc, restoring, next, history, throws, crashes>>

UserDelete ==
  /\ edits < MaxEdits
  /\ edits' = edits + 1
  /\ target # Absent
  /\ target' = Absent
  /\ handed' = FALSE
  /\ UNCHANGED <<backup, tmp, pc, restoring, next, history, throws, crashes>>

Next ==
  \/ \E k \in OurVersions : WriteLive(k)
  \/ SkipBackup \/ CopyBackup \/ CopiedBackup
  \/ OpenTemp \/ FillTemp \/ RenameTemp
  \/ RestoreFromBackup \/ RemoveBackup \/ RestoreWithoutBackup
  \/ Throw \/ Crash
  \/ UserEdit \/ UserDelete

Spec == Init /\ [][Next]_vars

(***************************************************************************)
(* Properties.                                                             *)
(***************************************************************************)

\* The types of the state.
TypeOK ==
  /\ target \in Contents /\ backup \in Contents /\ tmp \in Contents
  /\ next \in Contents /\ orig \in Contents
  /\ pc \in {"idle", "backup", "copying", "temp", "writing", "rename", "unbackup"}
  /\ restoring \in BOOLEAN /\ taken \in BOOLEAN /\ torn \in BOOLEAN /\ handed \in BOOLEAN
  /\ edits \in 0..MaxEdits /\ throws \in 0..MaxThrows /\ crashes \in 0..MaxCrashes

\* Whoever opens the agent's config, at any moment, between any two calls and
\* after any failure, reads a whole document; the one exception is a restore
\* from a backup whose copying the process did not survive.
TruncatedOnlyByTornBackup == target # Absent /\ ~target.whole => torn

\* While the takeover lasts, the file the user had before it is on disk in
\* full, as the backup: no interleaving of bindings, edits by others, failed
\* calls and deaths of the process replaces the only copy (backupOnce: "it
\* always holds the earliest state").
OriginalSurvives ==
  taken /\ orig # Absent /\ ~torn => backup = orig \/ pc = "copying"

\* A restore from the backup puts in place exactly what the takeover found,
\* whatever was bound, edited or interrupted in between, and however often the
\* restore itself was interrupted and begun again.
RestoreGivesBack ==
  [][restoring /\ pc = "rename" /\ pc' = "unbackup" /\ orig # Absent /\ ~torn
       => target' = orig]_vars

\* After a completed restore of a file nobody else has touched, the file is what
\* the last takeover found, present or absent ("Reverse a takeover: restore one
\* agent config file to its pre-AiOpt state", fsutil.ts:147).
RestoreUndoesTakeover == handed /\ edits = 0 => target = orig
=============================================================================
