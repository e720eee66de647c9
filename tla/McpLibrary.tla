------------------------------ MODULE McpLibrary ------------------------------
(* The library of MCP servers (mcp/mcpStore.ts) against the agents' own MCP files: *)
(* entries are saved, pulled, merged and removed at once; what puts a command into  *)
(* an agent's file, or under the gateway, waits for a native dialog, during which   *)
(* everything else goes on. The library is a document in memory with its copy on    *)
(* disk; the values of its keys are secrets, written before the document.           *)
(*                                                                                 *)
(* An entry says what runs (its summary: a command line or a URL) and whether it     *)
(* takes a key; a file holds the value as well. One key stands for the keys and one  *)
(* transport for the three.                                                         *)
EXTENDS Integers, FiniteSets

CONSTANTS
    Servers,      \* names of servers
    NoName,       \* of a form: it adds a server
    ToolAgents,   \* agents with an MCP file
    Sums,         \* summaries: positive numbers
    KeyValues,    \* values of a key: positive numbers
    Dialogs,      \* dialogs there can be at once
    MaxMoves      \* bound: requests of the user and edits of the agents' files

Nothing == 0
Kept == -1       \* of a key in a saved form: its value is left out

ASSUME LibraryAssumption ==
    /\ {Nothing, Kept} \cap (Sums \cup KeyValues) = {}
    /\ MaxMoves \in Nat

VARIABLES
    library,      \* `doc'
    onDisk,       \* mcp-servers.json
    secrets,      \* the stored value per server
    file,         \* per agent: the entries of its MCP file
    dialog,       \* the dialogs that are open, with what they show and what they are for
    unwritten,    \* history: a write of mcp-servers.json threw
    moves

libraryVars == <<library, onDisk, secrets, file, dialog, unwritten, moves>>

(* gate: the fingerprint that was confirmed for the gateway. agreed, history: the     *)
(* summary the user saw when agreeing to have the entry served.                      *)
Fingerprints == [sum : Sums, keyed : BOOLEAN]
NoPrint == [sum |-> Nothing, keyed |-> FALSE]
NoServer == [sum |-> Nothing, keyed |-> FALSE, gate |-> NoPrint, agreed |-> Nothing]
Entries == [sum : Sums, keyed : BOOLEAN, gate : Fingerprints \cup {NoPrint}, agreed : Sums \cup {Nothing}]
LiveEntries == [sum : Sums, value : KeyValues \cup {Nothing}]
NoFileEntry == [sum |-> Nothing, value |-> Nothing]
NoDialog == [for |-> "none"]

InLibrary(lib, n) == lib[n] # NoServer
InFile(a, n) == file[a][n] # NoFileEntry
DialogOpen(d) == dialog[d] # NoDialog

LibraryTypeOK ==
    /\ {library, onDisk} \subseteq [Servers -> Entries \cup {NoServer}]
    /\ secrets \in [Servers -> KeyValues \cup {Nothing}]
    /\ file \in [ToolAgents -> [Servers -> LiveEntries \cup {NoFileEntry}]]
    /\ \A d \in Dialogs : DialogOpen(d) =>
        /\ dialog[d].for \in {"push", "gateway", "profile"}
        /\ dialog[d].shows \in (SUBSET (Servers \X ToolAgents \X Sums)) \cup (SUBSET (Servers \X {"gateway"} \X Sums))
    /\ unwritten \in BOOLEAN
    /\ moves \in 0 .. MaxMoves

LibraryInit ==
    /\ library = [n \in Servers |-> NoServer]
    /\ onDisk = library
    /\ secrets = [n \in Servers |-> Nothing]
    /\ file = [a \in ToolAgents |-> [n \in Servers |-> NoFileEntry]]
    /\ dialog = [d \in Dialogs |-> NoDialog]
    /\ unwritten = FALSE
    /\ moves = 0

Moved == moves < MaxMoves /\ moves' = moves + 1

(* The document changes in memory; its write may throw, which ends the handler.       *)
Persisted(lib) == library' = lib /\ onDisk' = lib /\ UNCHANGED unwritten
PersistThrows(lib) == library' = lib /\ unwritten' = TRUE /\ UNCHANGED onDisk
Persist(lib) == Persisted(lib) \/ PersistThrows(lib)

toLive(n) == [sum |-> library[n].sum, value |-> IF library[n].keyed THEN secrets[n] ELSE Nothing]
fingerprint(e) == [sum |-> e.sum, keyed |-> e.keyed]
Served(lib, n) == InLibrary(lib, n) /\ lib[n].gate = fingerprint(lib[n])

-----------------------------------------------------------------------------
(* What changes the library only.                                                  *)

(* Mutant: a value that is left out is stored as it is.                              *)
ValueForRaw(old, key) == key

(* The value a saved entry has: none, the new one, or the one that was stored under    *)
(* the same server and key.                                                        *)
ValueFor(old, key) == IF key # Kept THEN key ELSE IF old \in Servers THEN secrets[old] ELSE Nothing

Renamed(old, n, e) == [m \in Servers |-> IF m = n THEN e ELSE IF m = old THEN NoServer ELSE library[m]]

(* Mutant: a renamed server's value stays under the old name as well.                *)
SaveLeavingValue(old, n, s, key) ==
    /\ old \in Servers => InLibrary(library, old)
    /\ n # old => ~InLibrary(library, n)
    /\ secrets' = [secrets EXCEPT ![n] = ValueFor(old, key)]
    /\ Persist(Renamed(old, n, [NoServer EXCEPT !.sum = s, !.keyed = key # Nothing]))
    /\ Moved
    /\ UNCHANGED <<file, dialog>>

(* save: an edit, a rename, or a new entry. The confirmation for the gateway stays,    *)
(* to be compared with the new fingerprint.                                         *)
Save(old, n, s, key) ==
    LET kept == IF old = NoName THEN NoServer ELSE library[old] IN
    /\ old \in Servers => InLibrary(library, old)
    /\ n # old => ~InLibrary(library, n)
    /\ secrets' = [m \in Servers |-> IF m = n THEN ValueFor(old, key) ELSE IF m = old THEN Nothing ELSE secrets[m]]
    /\ Persist(Renamed(old, n, [sum |-> s, keyed |-> key # Nothing, gate |-> kept.gate, agreed |-> kept.agreed]))
    /\ Moved
    /\ UNCHANGED <<file, dialog>>

(* putLibrary.                                                                     *)
PutLibrary(n, s, keyed, value) ==
    /\ secrets' = [secrets EXCEPT ![n] = value]
    /\ Persist([library EXCEPT ![n].sum = s, ![n].keyed = keyed])
    /\ Moved
    /\ UNCHANGED <<file, dialog>>

Pull(a, n) ==
    /\ InFile(a, n)
    /\ PutLibrary(n, file[a][n].sum, file[a][n].value # Nothing, file[a][n].value)

(* merge: some of the fields that differ are taken from the agent.                   *)
Merge(a, n, picks) ==
    LET got == file[a][n]
        mine == toLive(n)
    IN  /\ InLibrary(library, n) /\ InFile(a, n)
        /\ picks # {}
        /\ "spec" \in picks => got.sum # mine.sum
        /\ "key" \in picks => got.value # mine.value
        /\ PutLibrary(n, IF "spec" \in picks THEN got.sum ELSE library[n].sum,
                  IF "key" \in picks THEN got.value # Nothing ELSE library[n].keyed,
                  IF "key" \in picks THEN got.value ELSE mine.value)

(* remove: the document first, then the value.                                      *)
RemoveServer(n) ==
    /\ InLibrary(library, n)
    /\ LET rest == [library EXCEPT ![n] = NoServer] IN
        \/ Persisted(rest) /\ secrets' = [secrets EXCEPT ![n] = Nothing]
        \/ PersistThrows(rest) /\ UNCHANGED secrets
    /\ Moved
    /\ UNCHANGED <<file, dialog>>

GatewayOff(n) ==
    /\ InLibrary(library, n)
    /\ library[n].gate # NoPrint
    /\ Persist([library EXCEPT ![n].gate = NoPrint, ![n].agreed = Nothing])
    /\ Moved
    /\ UNCHANGED <<secrets, file, dialog>>

-----------------------------------------------------------------------------
(* What asks first. Of several files a write throws on one, and the rest is left.      *)

RemoveFromAgent(a, n) ==
    /\ InFile(a, n)
    /\ file' = [file EXCEPT ![a][n] = NoFileEntry]
    /\ Moved
    /\ UNCHANGED <<library, onDisk, secrets, dialog, unwritten>>

Ask(d, request) ==
    /\ ~DialogOpen(d)
    /\ dialog' = [dialog EXCEPT ![d] = request]
    /\ Moved
    /\ UNCHANGED <<library, onDisk, secrets, file, unwritten>>

DialogEnds(d) == dialog' = [dialog EXCEPT ![d] = NoDialog]

Refused(d) ==
    /\ DialogOpen(d)
    /\ DialogEnds(d)
    /\ UNCHANGED <<library, onDisk, secrets, file, unwritten, moves>>

(* push: what will be written is taken before the dialog.                            *)
AskPush(d, n, A) ==
    /\ InLibrary(library, n)
    /\ Ask(d, [for |-> "push", shows |-> {n} \X A \X {library[n].sum}, live |-> toLive(n)])

Pushed(d) ==
    /\ DialogOpen(d) /\ dialog[d].for = "push"
    /\ \E done \in SUBSET {r[2] : r \in dialog[d].shows} :
        file' = [a \in ToolAgents |-> [n \in Servers |->
                    IF a \in done /\ \E r \in dialog[d].shows : r[1] = n THEN dialog[d].live ELSE file[a][n]]]
    /\ DialogEnds(d)
    /\ UNCHANGED <<library, onDisk, secrets, unwritten, moves>>

AskGateway(d, n) ==
    /\ InLibrary(library, n)
    /\ ~Served(library, n)
    /\ Ask(d, [for |-> "gateway", shows |-> {<<n, "gateway", library[n].sum>>}])

(* Mutant: whatever the entry says by now is served.                                 *)
AllowedUnseen(d) ==
    /\ DialogOpen(d) /\ dialog[d].for = "gateway"
    /\ \E r \in dialog[d].shows :
        /\ InLibrary(library, r[1])
        /\ Persist([library EXCEPT ![r[1]].gate = fingerprint(library[r[1]]), ![r[1]].agreed = r[3]])
    /\ DialogEnds(d)
    /\ UNCHANGED <<secrets, file, moves>>

(* setGateway: "a spec edited during the dialog is not" served.                       *)
Allowed(d) ==
    /\ DialogOpen(d) /\ dialog[d].for = "gateway"
    /\ \E r \in dialog[d].shows :
        IF library[r[1]].sum = r[3]
        THEN Persist([library EXCEPT ![r[1]].gate = fingerprint(library[r[1]]), ![r[1]].agreed = r[3]])
        ELSE UNCHANGED <<library, onDisk, unwritten>>
    /\ DialogEnds(d)
    /\ UNCHANGED <<secrets, file, moves>>

(* planEnabledSets: what each agent's file lacks of its set, and has beyond it; only    *)
(* names of the library count.                                                     *)
ToAdd(sets) == {r \in Servers \X DOMAIN sets : InLibrary(library, r[1]) /\ r[1] \in sets[r[2]] /\ ~InFile(r[2], r[1])}
(* Mutant: whatever is not in the set goes.                                          *)
ToDropAll(sets) == {r \in Servers \X DOMAIN sets : r[1] \notin sets[r[2]] /\ InFile(r[2], r[1])}
ToDrop(sets) == {r \in Servers \X DOMAIN sets : InLibrary(library, r[1]) /\ r[1] \notin sets[r[2]] /\ InFile(r[2], r[1])}

(* commit: the plan is made again over what is there by now, and of the additions only  *)
(* those are made that the dialog showed. Mutant: those the plan has now.             *)
CommitAsPlanned(sets, shows) ==
    file' = [a \in ToolAgents |-> [n \in Servers |->
                IF <<n, a>> \in ToDrop(sets) THEN NoFileEntry
                ELSE IF <<n, a>> \in ToAdd(sets) THEN toLive(n) ELSE file[a][n]]]

Commit(sets, shows) ==
    \E done \in SUBSET ToolAgents :
        file' = [a \in ToolAgents |-> [n \in Servers |->
                    IF a \notin done THEN file[a][n]
                    ELSE IF <<n, a>> \in ToDrop(sets) THEN NoFileEntry
                    ELSE IF <<n, a>> \in ToAdd(sets) /\ <<n, a, library[n].sum>> \in shows THEN toLive(n)
                    ELSE file[a][n]]]

PlanSets(d, sets) ==
    IF ToAdd(sets) # {}
    THEN Ask(d, [for |-> "profile", sets |-> sets,
                 shows |-> {<<r[1], r[2], library[r[1]].sum>> : r \in ToAdd(sets)}])
    ELSE /\ Commit(sets, {})
         /\ Moved
         /\ UNCHANGED <<library, onDisk, secrets, dialog, unwritten>>

Committed(d) ==
    /\ DialogOpen(d) /\ dialog[d].for = "profile"
    /\ Commit(dialog[d].sets, dialog[d].shows)
    /\ DialogEnds(d)
    /\ UNCHANGED <<library, onDisk, secrets, unwritten, moves>>

-----------------------------------------------------------------------------

(* The user, an agent or another tool edits an agent's file.                         *)
EditFile(a, n, e) ==
    /\ e # file[a][n]
    /\ file' = [file EXCEPT ![a][n] = e]
    /\ Moved
    /\ UNCHANGED <<library, onDisk, secrets, dialog, unwritten>>

(* AiOpt ends, between two handlers, and is started again.                                  *)
Relaunch ==
    /\ library' = onDisk
    /\ dialog' = [d \in Dialogs |-> NoDialog]
    /\ UNCHANGED <<onDisk, secrets, file, unwritten, moves>>

LibraryNext ==
    \/ \E old \in Servers \cup {NoName}, n \in Servers, s \in Sums, key \in KeyValues \cup {Nothing, Kept} :
           Save(old, n, s, key)
    \/ \E a \in ToolAgents, n \in Servers :
           \/ Pull(a, n)
           \/ RemoveFromAgent(a, n)
           \/ \E picks \in SUBSET {"spec", "key"} : Merge(a, n, picks)
           \/ \E e \in LiveEntries \cup {NoFileEntry} : EditFile(a, n, e)
    \/ \E n \in Servers : RemoveServer(n) \/ GatewayOff(n)
    \/ \E d \in Dialogs :
           \/ \E n \in Servers, A \in SUBSET ToolAgents \ {{}} : AskPush(d, n, A)
           \/ \E n \in Servers : AskGateway(d, n)
           \/ \E A \in SUBSET ToolAgents : \E sets \in [A -> SUBSET Servers] : PlanSets(d, sets)
           \/ Refused(d) \/ Pushed(d) \/ Allowed(d) \/ Committed(d)
    \/ Relaunch

LibrarySpec == LibraryInit /\ [][LibraryNext]_libraryVars

-----------------------------------------------------------------------------

(* What AiOpt writes into an agent's file was on the screen, for that agent and with    *)
(* that command, when the user agreed: push writes what it took before its dialog, a     *)
(* profile leaves out what was edited under its dialog (mcpStore.ts:607, 781).           *)
ShownIsWritten ==
    [][\A a \in ToolAgents, n \in Servers :
        LET e == file'[a][n] IN
        e \notin {file[a][n], NoFileEntry} =>
            \/ EditFile(a, n, e)
            \/ \E d \in Dialogs : DialogEnds(d) /\ DialogOpen(d) /\ <<n, a, e.sum>> \in dialog[d].shows
      ]_libraryVars

(* "An entry the user wrote by hand into an agent file is never touched" by a profile     *)
(* (mcpStore.ts:750): only the user takes an entry the library does not have out of a      *)
(* file, and what is in a file already changes under a profile's commit only by going.   *)
HandWrittenKept ==
    [][\A d \in Dialogs, a \in ToolAgents, n \in Servers :
        /\ DialogOpen(d) /\ dialog[d].for = "profile" /\ DialogEnds(d)
        /\ InFile(a, n)
        => \/ file'[a][n] = file[a][n]
           \/ InLibrary(library, n) /\ file'[a][n] = NoFileEntry
      ]_libraryVars

(* What the gateway may run is a command the user agreed to have run, through edits,     *)
(* renames, pulls, merges, removals and relaunches (mcpStore.ts:135, 724, 737).          *)
ServedAsConfirmed ==
    \A n \in Servers : Served(library, n) => library[n].agreed = library[n].sum

(* No value outlives the key it belongs to, as long as the library could be written:     *)
(* none is left under a removed server, an old name or a key that went.                  *)
SecretsBelong ==
    ~unwritten => \A n \in Servers : secrets[n] # Nothing => InLibrary(library, n) /\ library[n].keyed

(* What AiOpt writes into the agents' files was shown, and what the user wrote       *)
(* there by hand stays.                                                             *)
FilesAsAgreed == ShownIsWritten /\ HandWrittenKept

(* What is served was agreed to, and no value is kept for nothing.                   *)
LibrarySound == ServedAsConfirmed /\ SecretsBelong
=============================================================================
