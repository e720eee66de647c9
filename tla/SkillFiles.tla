------------------------------ MODULE SkillFiles ------------------------------
(* The copies of one skill on disk (skills/skillsFs.ts under skills/skillsStore.ts):  *)
(* the central library's and an agent's. A copy is replaced through a tree next to     *)
(* it (.aiopt-tmp) and one set aside (.aiopt-old); any step may throw, and the app may *)
(* be killed between any two. A handler runs to its end before the next, and takes     *)
(* milliseconds: that others edit a copy while it runs is not modelled.                *)
EXTENDS Integers

CONSTANTS
    MaxMishaps,       \* bound: steps that throw, or crashes
    MaxSkillEdits     \* bound: edits of a copy by its agent or the user

ASSUME SkillAssumption == MaxMishaps \in Nat /\ MaxSkillEdits \in Nat

Locs == {"central", "agent"}
SkillFile == {"plain", "skipped"}    \* skipped: in .git, node_modules and the like (SKIP_SKILL_SUBDIRS)

(* A tree: what its files hold, 0 for a file that is not there.                       *)
NoTree == [there |-> FALSE, plain |-> 0, skipped |-> 0]
Trees == [there : {TRUE}, plain : 0 .. 2, skipped : 0 .. 1]
TreesOrNone == Trees \cup {NoTree}

VARIABLES
    copies,       \* per place: the copy and the two trees beside it
    job,          \* the handler that runs
    last,         \* history: per place, what was last put there
    gone,         \* history: per place, whether the only tree that held it was removed
    left,         \* history: per place, whether a crash or a removal that failed left trees there
    done,         \* history: the copying that just succeeded
    mishaps, skillEdits

skillVars == <<copies, job, last, gone, left, done, mishaps, skillEdits>>

NoJob == [pc |-> "idle", kind |-> "none", to |-> "central", base |-> 0, over |-> 0, picks |-> {}]
Jobs == [pc : {"idle", "clean", "copy", "aside", "place", "drop"}, kind : {"none", "push", "pull", "import", "merge"},
         to : Locs, base : 0 .. 2, over : 0 .. 2, picks : SUBSET SkillFile]

SkillTypeOK ==
    /\ copies \in [Locs -> [dir : TreesOrNone, tmp : TreesOrNone, old : TreesOrNone]]
    /\ job \in Jobs
    /\ last \in [Locs -> TreesOrNone]
    /\ gone \in [Locs -> BOOLEAN] /\ left \in [Locs -> BOOLEAN]
    /\ done \in Jobs
    /\ mishaps \in 0 .. MaxMishaps /\ skillEdits \in 0 .. MaxSkillEdits

SkillInit ==
    /\ copies = [l \in Locs |-> [dir |-> NoTree, tmp |-> NoTree, old |-> NoTree]]
    /\ last = [l \in Locs |-> NoTree]
    /\ job = NoJob /\ done = NoJob
    /\ gone = [l \in Locs |-> FALSE] /\ left = [l \in Locs |-> FALSE]
    /\ mishaps = 0 /\ skillEdits = 0

-----------------------------------------------------------------------------
(* What is copied, compared and removed.                                            *)

(* compareDirs walks every directory, also those that are never copied.               *)
Differing == {f \in SkillFile : copies.central.dir[f] # copies.agent.dir[f]}

(* collectFiles leaves those out, so of a tree that is copied only the plain file counts; files are copied over what is there already.          *)
Copied(t, j) == [there |-> TRUE, skipped |-> t.skipped,
                 plain |-> IF j.base = 0 THEN t.plain ELSE j.base]
(* Mutant: what the agent lacks stays as the library has it.                          *)
PickedNotDropped(t, j) == [t EXCEPT !.plain = IF "plain" \in j.picks /\ j.over # 0 THEN j.over ELSE @]
Picked(t, j) == [t EXCEPT !.plain = IF "plain" \in j.picks THEN j.over ELSE @,
                          !.skipped = IF "skipped" \in j.picks THEN 0 ELSE @]
Filled(t, j) == Picked(Copied(t, j), j)

(* What a removal that fails may leave.                                              *)
Remains(t) ==
    IF t = NoTree THEN {NoTree}
    ELSE {[t EXCEPT !.plain = p, !.skipped = s] : p \in {0, t.plain}, s \in {0, t.skipped}}

-----------------------------------------------------------------------------
(* replaceDir and mergeInto, step by step.                                            *)

Here == copies[job.to]
Doing(pc) == job.pc = pc
Becomes(c) == copies' = [copies EXCEPT ![job.to] = c]
GoTo(pc) == job' = [job EXCEPT !.pc = pc]
Over == job' = NoJob
Mishap == mishaps < MaxMishaps /\ mishaps' = mishaps + 1

BeginJob(j) ==
    /\ Doing("idle")
    /\ job' = [j EXCEPT !.pc = "clean"] /\ done' = NoJob
    /\ UNCHANGED <<copies, last, gone, left, mishaps, skillEdits>>

PushSkill == copies.central.dir # NoTree /\ BeginJob([NoJob EXCEPT !.kind = "push", !.to = "agent", !.base = copies.central.dir.plain])
PullSkill == copies.agent.dir # NoTree /\ BeginJob([NoJob EXCEPT !.kind = "pull", !.base = copies.agent.dir.plain])
ImportSkill(p) == BeginJob([NoJob EXCEPT !.kind = "import", !.base = p])
MergeSkill(picks) ==
    /\ copies.central.dir # NoTree /\ copies.agent.dir # NoTree
    /\ picks \subseteq Differing
    /\ BeginJob([NoJob EXCEPT !.kind = "merge", !.base = copies.central.dir.plain,
                          !.over = copies.agent.dir.plain, !.picks = picks])

(* Mutant: the trees of a run that did not end are kept.                              *)
KeepTrees == Here
Cleaned == [Here EXCEPT !.tmp = NoTree, !.old = NoTree]
OnlyHold(c) == c.old # NoTree /\ c.dir = NoTree

CleanUp ==
    /\ Doing("clean") /\ GoTo("copy")
    /\ Becomes(Cleaned)
    /\ gone' = [gone EXCEPT ![job.to] = @ \/ OnlyHold(Here)]
    /\ left' = [left EXCEPT ![job.to] = FALSE]
    /\ UNCHANGED <<last, done, mishaps, skillEdits>>

CleanUpFails ==
    /\ Doing("clean") /\ Over /\ Mishap
    /\ \/ \E t \in Remains(Here.tmp) : Becomes([Here EXCEPT !.tmp = t]) /\ UNCHANGED gone
       \/ \E o \in Remains(Here.old) :
              /\ Becomes([Here EXCEPT !.tmp = NoTree, !.old = o])
              /\ gone' = [gone EXCEPT ![job.to] = @ \/ (OnlyHold(Here) /\ o # Here.old)]
    /\ left' = [left EXCEPT ![job.to] = TRUE]
    /\ UNCHANGED <<last, done, skillEdits>>

CopyFiles ==
    /\ Doing("copy") /\ GoTo("aside")
    /\ Becomes([Here EXCEPT !.tmp = Filled(@, job)])
    /\ UNCHANGED <<last, gone, left, done, mishaps, skillEdits>>

MoveAside ==
    /\ Doing("aside") /\ GoTo("place")
    /\ Becomes(IF Here.dir = NoTree THEN Here ELSE [Here EXCEPT !.dir = NoTree, !.old = Here.dir])
    /\ UNCHANGED <<last, gone, left, done, mishaps, skillEdits>>

Place ==
    /\ Doing("place") /\ GoTo("drop")
    /\ Becomes([Here EXCEPT !.dir = Here.tmp, !.tmp = NoTree])
    /\ last' = [last EXCEPT ![job.to] = Here.tmp]
    /\ gone' = [gone EXCEPT ![job.to] = FALSE]
    /\ UNCHANGED <<left, done, mishaps, skillEdits>>

DropOld ==
    /\ Doing("drop") /\ Over
    /\ Becomes([Here EXCEPT !.old = NoTree])
    /\ done' = job
    /\ UNCHANGED <<last, gone, left, mishaps, skillEdits>>

(* A step throws: what was set aside goes back, and the new tree is removed.             *)
(* Mutant: nothing is put back.                                                        *)
NotPutBack == Here
PutBack == IF Doing("place") /\ Here.old # NoTree THEN [Here EXCEPT !.dir = Here.old, !.old = NoTree] ELSE Here

StepThrows ==
    /\ job.pc \in {"copy", "aside", "place"} /\ Over /\ Mishap
    /\ Becomes([PutBack EXCEPT !.tmp = NoTree])
    /\ UNCHANGED <<last, gone, left, done, skillEdits>>

(* A crash, or a removal or a roll back that fails on top of the throw.                  *)
StepBreaks ==
    /\ job.pc \in {"copy", "aside", "place", "drop"} /\ Over /\ Mishap
    /\ \/ Doing("drop") /\ \E o \in Remains(Here.old) : Becomes([Here EXCEPT !.old = o])
       \/ ~Doing("drop") /\ \E t \in Remains(IF Doing("copy") THEN Filled(Here.tmp, job) ELSE Here.tmp) \cup {NoTree} :
              \E c \in {Here, PutBack} : Becomes([c EXCEPT !.tmp = t])
    /\ left' = [left EXCEPT ![job.to] = TRUE]
    /\ UNCHANGED <<last, gone, done, skillEdits>>

(* deleteCentral, deleteAgent: the user confirmed it, however far it gets.               *)
DeleteSkill(l) ==
    /\ Doing("idle") /\ copies[l].dir # NoTree
    /\ \/ copies' = [copies EXCEPT ![l].dir = NoTree] /\ UNCHANGED mishaps
       \/ Mishap /\ \E t \in Remains(copies[l].dir) : copies' = [copies EXCEPT ![l].dir = t]
    /\ last' = [last EXCEPT ![l] = copies'[l].dir]
    /\ gone' = [gone EXCEPT ![l] = FALSE]
    /\ done' = NoJob
    /\ UNCHANGED <<job, left, skillEdits>>

EditCopy(l, t) ==
    /\ Doing("idle") /\ skillEdits < MaxSkillEdits /\ skillEdits' = skillEdits + 1
    /\ copies' = [copies EXCEPT ![l].dir = t]
    /\ last' = [last EXCEPT ![l] = t]
    /\ gone' = [gone EXCEPT ![l] = FALSE]
    /\ done' = NoJob
    /\ UNCHANGED <<job, left, mishaps>>

-----------------------------------------------------------------------------

SkillNext ==
    \/ PushSkill \/ PullSkill
    \/ \E p \in 1 .. 2 : ImportSkill(p)
    \/ \E picks \in SUBSET SkillFile : MergeSkill(picks)
    \/ CleanUp \/ CleanUpFails
    \/ CopyFiles \/ MoveAside \/ Place \/ DropOld
    \/ StepThrows \/ StepBreaks
    \/ \E l \in Locs : DeleteSkill(l) \/ \E t \in Trees : EditCopy(l, t)

SkillSpec == SkillInit /\ [][SkillNext]_skillVars

-----------------------------------------------------------------------------
(* A copy is what was last put there, also after a step of its replacement threw:       *)
(* "a failure leaves the destination untouched". It is missing, and whole in the tree    *)
(* beside it, only while it is replaced or after a crash (or a failed roll back) there;  *)
(* that tree is gone when one tried again and failed again.                            *)
SkillSurvives ==
    \A l \in Locs :
        \/ copies[l].dir = last[l]
        \/ gone[l]
        \/ /\ left[l] \/ (job.to = l /\ ~Doing("idle"))
           /\ copies[l].dir = NoTree /\ copies[l].old = last[l]

(* Trees are left beside a copy by a crash or a failed removal only, until the next      *)
(* replacement; such a tree is listed as a skill whose name is then refused.             *)
NoLeftovers ==
    Doing("idle") => \A l \in Locs : ~left[l] => copies[l].tmp = NoTree /\ copies[l].old = NoTree

(* The copy that was made is the one that was asked for, file by file, also after an     *)
(* earlier one that did not end; and after a push or a pull the comparison shows no      *)
(* difference, except for what is never copied.                                        *)
CopiesAgree ==
    done # NoJob =>
        /\ copies[done.to].dir.plain = IF "plain" \in done.picks THEN done.over ELSE done.base
        /\ copies[done.to].dir.skipped = 0
        /\ done.kind \in {"push", "pull"} => Differing \subseteq {"skipped"}

SkillsSound == SkillSurvives /\ NoLeftovers /\ CopiesAgree
=============================================================================
