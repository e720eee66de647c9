-------------------------- MODULE McpLibrary_proofs --------------------------
(* What holds of the MCP library for any servers, agents, commands and keys, any   *)
(* number of dialogs at once and any number of moves.                              *)
EXTENDS McpLibrary, TLAPS

Documents == [Servers -> Entries \cup {NoServer}]
FileEntries == LiveEntries \cup {NoFileEntry}
PushShows == SUBSET (Servers \X ToolAgents \X Sums)
GatewayShows == SUBSET (Servers \X {"gateway"} \X Sums)
Asked == {NoDialog}
         \cup [for : {"push"}, shows : PushShows, live : LiveEntries]
         \cup [for : {"gateway"}, shows : GatewayShows]
         \cup [for : {"profile"}, sets : UNION {[A -> SUBSET Servers] : A \in SUBSET ToolAgents}, shows : PushShows]

DialogsTyped == dialog \in [Dialogs -> Asked]

(* A push shows one server, as it will write it.                                  *)
ShowsOne(q) == (\A r \in q.shows : r[3] = q.live.sum) /\ (\A r, o \in q.shows : r[1] = o[1])
PushWritesShown == \A d \in Dialogs : dialog[d].for = "push" => ShowsOne(dialog[d])

(* Whatever is confirmed was agreed to, in memory and in the file.                *)
AsAgreed(e) == e.gate # NoPrint => e.agreed = e.gate.sum
ConfirmedWasAgreed(lib) == \A n \in Servers : AsAgreed(lib[n])

(* A relaunch finds the library as it was, if it could be written.                *)
DiskFollows == ~unwritten => onDisk = library

(* The inductive invariant.                                                       *)
LibraryIInv ==
    /\ LibraryTypeOK /\ DialogsTyped /\ PushWritesShown
    /\ ConfirmedWasAgreed(library) /\ ConfirmedWasAgreed(onDisk)
    /\ DiskFollows /\ SecretsBelong
-----------------------------------------------------------------------------
LEMMA NothingIsNone == Nothing \notin Sums /\ Nothing \notin KeyValues /\ Kept \notin KeyValues
  BY LibraryAssumption

LEMMA LibraryInitIInv == LibraryInit => LibraryIInv
<1> SUFFICES ASSUME LibraryInit PROVE LibraryIInv
  OBVIOUS
<1> USE DEF LibraryInit
<1>1. library \in Documents /\ onDisk \in Documents /\ \A n \in Servers : library[n] = NoServer
  BY DEF Documents
<1>2. file \in [ToolAgents -> [Servers -> FileEntries]]
  BY DEF FileEntries
<1>3. DialogsTyped /\ \A d \in Dialogs : dialog[d] = NoDialog
  BY DEF DialogsTyped, Asked
<1>4. 0 \in 0 .. MaxMoves
  BY LibraryAssumption
<1>5. LibraryTypeOK
  BY <1>1, <1>2, <1>3, <1>4 DEF LibraryTypeOK, Documents, FileEntries, DialogOpen
<1>6. PushWritesShown
  BY <1>3 DEF PushWritesShown, NoDialog
<1>7. ConfirmedWasAgreed(library) /\ ConfirmedWasAgreed(onDisk)
  BY <1>1 DEF ConfirmedWasAgreed, AsAgreed, NoServer
<1>8. DiskFollows /\ SecretsBelong
  BY DEF DiskFollows, SecretsBelong
<1> QED
  BY <1>3, <1>5, <1>6, <1>7, <1>8 DEF LibraryIInv

(* An entry of the library says what runs.                                        *)
LEMMA EntryOf ==
    ASSUME NEW lib \in Documents, NEW n \in Servers
    PROVE  /\ lib[n].sum \in Sums \cup {Nothing} /\ lib[n].keyed \in BOOLEAN
           /\ lib[n].gate \in Fingerprints \cup {NoPrint} /\ lib[n].agreed \in Sums \cup {Nothing}
           /\ InLibrary(lib, n) => lib[n] \in Entries
           /\ lib[n].sum # Nothing <=> InLibrary(lib, n)
<1>1. CASE lib[n] = NoServer
  BY <1>1 DEF NoServer, InLibrary
<1>2. CASE lib[n] \in Entries
  BY <1>2, NothingIsNone DEF Entries, NoServer, InLibrary
<1> QED
  BY <1>1, <1>2 DEF Documents

LEMMA AskedTyped ==
    ASSUME NEW q \in Asked, q # NoDialog
    PROVE  q.for \in {"push", "gateway", "profile"} /\ q.shows \in PushShows \cup GatewayShows
  BY DEF Asked

LEMMA NoServerAgreed == AsAgreed(NoServer)
  BY DEF AsAgreed, NoServer

(* What is written into a file of an agent is an entry.                           *)
LEMMA LiveEntry ==
    ASSUME library \in Documents, secrets \in [Servers -> KeyValues \cup {Nothing}],
           NEW n \in Servers, InLibrary(library, n)
    PROVE  toLive(n) \in LiveEntries /\ toLive(n).sum = library[n].sum /\ toLive(n) # NoFileEntry
<1>1. library[n].sum \in Sums /\ library[n].keyed \in BOOLEAN
  BY EntryOf
<1> QED
  BY <1>1, NothingIsNone DEF toLive, LiveEntries, NoFileEntry

(* What the parts of the invariant say of a step that leaves files and dialogs.    *)
LEMMA LibraryKept ==
    ASSUME LibraryIInv, NEW lib \in Documents, ConfirmedWasAgreed(lib), Persist(lib),
           secrets' \in [Servers -> KeyValues \cup {Nothing}], moves' \in 0 .. MaxMoves,
           UNCHANGED file, DialogsTyped', PushWritesShown',
           \A d \in Dialogs : dialog'[d] = dialog[d] \/ dialog'[d] = NoDialog,
           ~unwritten' => \A n \in Servers : secrets'[n] # Nothing => InLibrary(lib, n) /\ lib[n].keyed
    PROVE  LibraryIInv'
<1>1. /\ library' = lib /\ onDisk' \in Documents /\ unwritten' \in BOOLEAN
      /\ onDisk' = lib \/ onDisk' = onDisk
      /\ ~unwritten' => onDisk' = lib
  BY DEF Persist, Persisted, PersistThrows, LibraryIInv, LibraryTypeOK, Documents
<1>2. LibraryTypeOK'
  <2>2. file' \in [ToolAgents -> [Servers -> LiveEntries \cup {NoFileEntry}]]
    BY DEF LibraryIInv, LibraryTypeOK
  <2>3. \A d \in Dialogs : DialogOpen(d)' =>
          /\ dialog'[d].for \in {"push", "gateway", "profile"}
          /\ dialog'[d].shows \in PushShows \cup GatewayShows
    BY AskedTyped DEF DialogsTyped, DialogOpen
  <2> QED
    BY <1>1, <2>2, <2>3 DEF LibraryTypeOK, Documents, PushShows, GatewayShows, DialogOpen
<1>3. ConfirmedWasAgreed(library)' /\ ConfirmedWasAgreed(onDisk)'
  BY <1>1 DEF LibraryIInv, ConfirmedWasAgreed
<1>4. DiskFollows' /\ SecretsBelong'
  BY <1>1 DEF DiskFollows, SecretsBelong, InLibrary
<1> QED
  BY <1>2, <1>3, <1>4 DEF LibraryIInv

(* ... and of one that leaves the library and its keys.                            *)
LEMMA FilesWritten ==
    ASSUME LibraryIInv, UNCHANGED <<library, onDisk, secrets, unwritten>>, moves' \in 0 .. MaxMoves,
           file' \in [ToolAgents -> [Servers -> FileEntries]], DialogsTyped', PushWritesShown'
    PROVE  LibraryIInv'
<1>1. \A d \in Dialogs : DialogOpen(d)' =>
          /\ dialog'[d].for \in {"push", "gateway", "profile"}
          /\ dialog'[d].shows \in PushShows \cup GatewayShows
  BY AskedTyped DEF DialogsTyped, DialogOpen
<1>2. LibraryTypeOK'
  <2>1. LibraryTypeOK
    BY DEF LibraryIInv
  <2> QED
    BY <1>1, <2>1 DEF LibraryTypeOK, FileEntries, PushShows, GatewayShows, DialogOpen
<1> QED
  BY <1>2 DEF LibraryIInv, ConfirmedWasAgreed, DiskFollows, SecretsBelong, InLibrary

LEMMA DialogGone ==
    ASSUME DialogsTyped, PushWritesShown, NEW d \in Dialogs, DialogEnds(d)
    PROVE  /\ DialogsTyped' /\ PushWritesShown'
           /\ \A c \in Dialogs : dialog'[c] = dialog[c] \/ dialog'[c] = NoDialog
<1>1. dialog'[d] = NoDialog /\ \A c \in Dialogs \ {d} : dialog'[c] = dialog[c]
  BY DEF DialogsTyped, DialogEnds
<1>2. DialogsTyped'
  BY DEF DialogsTyped, DialogEnds, Asked
<1>3. PushWritesShown'
  BY <1>1 DEF PushWritesShown, NoDialog
<1> QED
  BY <1>1, <1>2, <1>3

LEMMA DialogAsked ==
    ASSUME DialogsTyped, PushWritesShown, NEW d \in Dialogs, NEW q \in Asked, Ask(d, q),
           q.for = "push" => ShowsOne(q)
    PROVE  DialogsTyped' /\ PushWritesShown'
<1>1. dialog'[d] = q /\ \A c \in Dialogs \ {d} : dialog'[c] = dialog[c]
  BY DEF DialogsTyped, Ask
<1>2. DialogsTyped'
  BY DEF DialogsTyped, Ask
<1>3. PushWritesShown'
  BY <1>1 DEF PushWritesShown
<1> QED
  BY <1>2, <1>3

LEMMA DialogsKept ==
    ASSUME DialogsTyped, PushWritesShown, UNCHANGED dialog
    PROVE  /\ DialogsTyped' /\ PushWritesShown'
           /\ \A c \in Dialogs : dialog'[c] = dialog[c] \/ dialog'[c] = NoDialog
  BY DEF DialogsTyped, PushWritesShown

LEMMA MoveCounted == ASSUME LibraryTypeOK, Moved PROVE moves' \in 0 .. MaxMoves
  BY LibraryAssumption DEF LibraryTypeOK, Moved

-----------------------------------------------------------------------------
(* What changes the library.                                                      *)

LEMMA SaveSound ==
    ASSUME LibraryIInv, NEW old \in Servers \cup {NoName}, NEW n \in Servers, NEW s \in Sums,
           NEW key \in KeyValues \cup {Nothing, Kept}, Save(old, n, s, key)
    PROVE  LibraryIInv'
<1> DEFINE before == IF old = NoName THEN NoServer ELSE library[old]
           e == [sum |-> s, keyed |-> key # Nothing, gate |-> before.gate, agreed |-> before.agreed]
           lib == [m \in Servers |-> IF m = n THEN e ELSE IF m = old THEN NoServer ELSE library[m]]
<1>1. /\ secrets' = [m \in Servers |-> IF m = n THEN ValueFor(old, key) ELSE IF m = old THEN Nothing ELSE secrets[m]]
      /\ Persist(lib) /\ Moved /\ UNCHANGED <<file, dialog>>
  BY DEF Save, Renamed
<1>2. library \in Documents /\ secrets \in [Servers -> KeyValues \cup {Nothing}]
  BY DEF LibraryIInv, LibraryTypeOK, Documents
<1>3. before.gate \in Fingerprints \cup {NoPrint} /\ before.agreed \in Sums \cup {Nothing}
      /\ AsAgreed(before)
  <2>1. CASE old = NoName
    BY <2>1, NoServerAgreed DEF NoServer
  <2>2. CASE old # NoName
    BY <1>2, <2>2, EntryOf DEF LibraryIInv, ConfirmedWasAgreed
  <2> QED
    BY <2>1, <2>2
<1> HIDE DEF before
<1>4. e \in Entries /\ AsAgreed(e)
  <2>1. (key # Nothing) \in BOOLEAN
    OBVIOUS
  <2> QED
    BY <1>3, <2>1 DEF Entries, AsAgreed
<1>13. \A m \in Servers : lib[m] \in {e, NoServer, library[m]}
  OBVIOUS
<1>5. lib \in Documents
  BY <1>2, <1>4 DEF Documents
<1>6. ConfirmedWasAgreed(lib)
  <2> HIDE DEF lib, e
  <2> QED
    BY <1>4, <1>13, NoServerAgreed DEF LibraryIInv, ConfirmedWasAgreed
<1>7. ValueFor(old, key) \in KeyValues \cup {Nothing} /\ (key = Nothing => ValueFor(old, key) = Nothing)
  BY <1>2, LibraryAssumption DEF ValueFor, Nothing, Kept
<1>8. secrets' \in [Servers -> KeyValues \cup {Nothing}]
  BY <1>1, <1>2, <1>7
<1>9. e # NoServer
  BY NothingIsNone DEF NoServer
<1>10. ASSUME ~unwritten', NEW m \in Servers, secrets'[m] # Nothing PROVE InLibrary(lib, m) /\ lib[m].keyed
  <2>0. ~unwritten
    BY <1>1, <1>10 DEF Persist, Persisted, PersistThrows
  <2>1. CASE m = n
    <3>1. key # Nothing
      BY <1>1, <1>7, <1>10, <2>1
    <3> QED
      BY <1>9, <2>1, <3>1 DEF InLibrary
  <2>2. CASE m # n
    <3>1. m # old /\ secrets[m] # Nothing
      BY <1>1, <1>10, <2>2
    <3> QED
      BY <2>0, <2>2, <3>1 DEF LibraryIInv, SecretsBelong, InLibrary
  <2> QED
    BY <2>1, <2>2
<1> HIDE DEF lib
<1>11. moves' \in 0 .. MaxMoves
  BY <1>1, MoveCounted DEF LibraryIInv
<1>12. DialogsTyped' /\ PushWritesShown' /\ \A d \in Dialogs : dialog'[d] = dialog[d] \/ dialog'[d] = NoDialog
  BY <1>1, DialogsKept DEF LibraryIInv
<1> QED
  BY <1>1, <1>5, <1>6, <1>8, <1>10, <1>11, <1>12, LibraryKept

LEMMA PutLibrarySound ==
    ASSUME LibraryIInv, NEW n \in Servers, NEW s \in Sums, NEW keyed \in BOOLEAN, NEW value \in KeyValues \cup {Nothing},
           value # Nothing => keyed, PutLibrary(n, s, keyed, value)
    PROVE  LibraryIInv'
<1> DEFINE lib == [library EXCEPT ![n].sum = s, ![n].keyed = keyed]
<1>1. secrets' = [secrets EXCEPT ![n] = value] /\ Persist(lib) /\ Moved /\ UNCHANGED <<file, dialog>>
  BY DEF PutLibrary
<1>2. library \in Documents /\ secrets \in [Servers -> KeyValues \cup {Nothing}]
  BY DEF LibraryIInv, LibraryTypeOK, Documents
<1>3. library[n].gate \in Fingerprints \cup {NoPrint} /\ library[n].agreed \in Sums \cup {Nothing}
  BY <1>2, EntryOf
<1>4. library[n] = [sum |-> library[n].sum, keyed |-> library[n].keyed, gate |-> library[n].gate, agreed |-> library[n].agreed]
  BY <1>2 DEF Documents, Entries, NoServer
<1>5. lib[n] = [sum |-> s, keyed |-> keyed, gate |-> library[n].gate, agreed |-> library[n].agreed]
      /\ \A m \in Servers \ {n} : lib[m] = library[m]
  BY <1>2, <1>4 DEF Documents
<1>6. lib[n] \in Entries /\ lib[n] # NoServer
  <2> HIDE DEF lib
  <2> QED
    BY <1>3, <1>5, NothingIsNone DEF Entries, NoServer
<1>7. lib \in Documents
  <2>1. lib \in [Servers -> {lib[m] : m \in Servers}]
    BY <1>2 DEF Documents
  <2> QED
    BY <1>2, <1>5, <1>6, <2>1 DEF Documents
<1> HIDE DEF lib
<1>8. ConfirmedWasAgreed(lib)
  <2>1. AsAgreed(library[n])
    BY DEF LibraryIInv, ConfirmedWasAgreed
  <2>2. AsAgreed(lib[n])
    BY <1>5, <2>1 DEF AsAgreed
  <2> QED
    BY <1>5, <2>2 DEF LibraryIInv, ConfirmedWasAgreed
<1>9. secrets' \in [Servers -> KeyValues \cup {Nothing}]
  BY <1>1, <1>2
<1>10. ASSUME ~unwritten', NEW m \in Servers, secrets'[m] # Nothing PROVE InLibrary(lib, m) /\ lib[m].keyed
  <2>0. ~unwritten
    BY <1>1, <1>10 DEF Persist, Persisted, PersistThrows
  <2>1. CASE m = n
    <3>1. value # Nothing
      BY <1>1, <1>2, <1>10, <2>1
    <3>2. lib[m].keyed = keyed
      BY <1>5, <2>1
    <3> QED
      BY <1>6, <2>1, <3>1, <3>2 DEF InLibrary
  <2>2. CASE m # n
    BY <1>1, <1>2, <1>5, <1>10, <2>0, <2>2 DEF LibraryIInv, SecretsBelong, InLibrary
  <2> QED
    BY <2>1, <2>2
<1>11. moves' \in 0 .. MaxMoves
  BY <1>1, MoveCounted DEF LibraryIInv
<1>12. DialogsTyped' /\ PushWritesShown' /\ \A d \in Dialogs : dialog'[d] = dialog[d] \/ dialog'[d] = NoDialog
  BY <1>1, DialogsKept DEF LibraryIInv
<1> QED
  BY <1>1, <1>7, <1>8, <1>9, <1>10, <1>11, <1>12, LibraryKept

LEMMA PullSound == ASSUME LibraryIInv, NEW a \in ToolAgents, NEW n \in Servers, Pull(a, n) PROVE LibraryIInv'
<1>1. file[a][n] \in LiveEntries
  BY DEF Pull, InFile, LibraryIInv, LibraryTypeOK
<1>2. file[a][n].sum \in Sums /\ file[a][n].value \in KeyValues \cup {Nothing}
  BY <1>1 DEF LiveEntries
<1>3. PutLibrary(n, file[a][n].sum, file[a][n].value # Nothing, file[a][n].value)
  BY DEF Pull
<1>4. (file[a][n].value # Nothing) \in BOOLEAN
  OBVIOUS
<1> QED
  BY <1>2, <1>3, <1>4, PutLibrarySound

LEMMA MergeSound ==
    ASSUME LibraryIInv, NEW a \in ToolAgents, NEW n \in Servers, NEW picks \in SUBSET {"spec", "key"}, Merge(a, n, picks)
    PROVE  LibraryIInv'
<1> DEFINE s == IF "spec" \in picks THEN file[a][n].sum ELSE library[n].sum
           keyed == IF "key" \in picks THEN file[a][n].value # Nothing ELSE library[n].keyed
           value == IF "key" \in picks THEN file[a][n].value ELSE toLive(n).value
<1>1. InLibrary(library, n) /\ file[a][n] \in LiveEntries /\ PutLibrary(n, s, keyed, value)
  BY DEF Merge, InFile, LibraryIInv, LibraryTypeOK
<1>2. library \in Documents /\ secrets \in [Servers -> KeyValues \cup {Nothing}]
  BY DEF LibraryIInv, LibraryTypeOK, Documents
<1>3. library[n].sum \in Sums /\ library[n].keyed \in BOOLEAN
  BY <1>1, <1>2, EntryOf
<1>4. toLive(n).value \in KeyValues \cup {Nothing} /\ (toLive(n).value # Nothing => library[n].keyed)
  BY <1>2, <1>3 DEF toLive
<1>5. s \in Sums /\ keyed \in BOOLEAN /\ value \in KeyValues \cup {Nothing} /\ (value # Nothing => keyed)
  BY <1>1, <1>3, <1>4 DEF LiveEntries
<1> HIDE DEF s, keyed, value
<1> QED
  BY <1>1, <1>5, PutLibrarySound

LEMMA RemoveSound == ASSUME LibraryIInv, NEW n \in Servers, RemoveServer(n) PROVE LibraryIInv'
<1> DEFINE lib == [library EXCEPT ![n] = NoServer]
<1>1. /\ \/ Persisted(lib) /\ secrets' = [secrets EXCEPT ![n] = Nothing]
         \/ PersistThrows(lib) /\ UNCHANGED secrets
      /\ Moved /\ UNCHANGED <<file, dialog>>
  BY DEF RemoveServer
<1>2. library \in Documents /\ secrets \in [Servers -> KeyValues \cup {Nothing}]
  BY DEF LibraryIInv, LibraryTypeOK, Documents
<1>3. lib \in Documents /\ lib[n] = NoServer /\ \A m \in Servers \ {n} : lib[m] = library[m]
  BY <1>2 DEF Documents
<1>4. ConfirmedWasAgreed(lib)
  BY <1>3, NoServerAgreed DEF LibraryIInv, ConfirmedWasAgreed
<1> HIDE DEF lib
<1>5. secrets' \in [Servers -> KeyValues \cup {Nothing}] /\ Persist(lib)
  BY <1>1, <1>2 DEF Persist
<1>6. ASSUME ~unwritten', NEW m \in Servers, secrets'[m] # Nothing PROVE InLibrary(lib, m) /\ lib[m].keyed
  <2>1. ~unwritten /\ secrets' = [secrets EXCEPT ![n] = Nothing]
    BY <1>1, <1>6 DEF Persisted, PersistThrows
  <2>2. m # n /\ secrets[m] # Nothing
    BY <1>2, <1>6, <2>1
  <2> QED
    BY <1>3, <2>1, <2>2 DEF LibraryIInv, SecretsBelong, InLibrary
<1>7. moves' \in 0 .. MaxMoves
  BY <1>1, MoveCounted DEF LibraryIInv
<1>8. DialogsTyped' /\ PushWritesShown' /\ \A d \in Dialogs : dialog'[d] = dialog[d] \/ dialog'[d] = NoDialog
  BY <1>1, DialogsKept DEF LibraryIInv
<1> QED
  BY <1>1, <1>3, <1>4, <1>5, <1>6, <1>7, <1>8, LibraryKept

(* A confirmation that is given or taken back leaves what runs.                   *)
LEMMA GateChanged ==
    ASSUME LibraryIInv, NEW n \in Servers, InLibrary(library, n),
           NEW g \in Fingerprints \cup {NoPrint}, NEW s \in Sums \cup {Nothing}, g # NoPrint => g.sum = s,
           Persist([library EXCEPT ![n].gate = g, ![n].agreed = s]),
           moves' \in 0 .. MaxMoves, UNCHANGED <<secrets, file>>, DialogsTyped', PushWritesShown',
           \A d \in Dialogs : dialog'[d] = dialog[d] \/ dialog'[d] = NoDialog
    PROVE  LibraryIInv'
<1> DEFINE lib == [library EXCEPT ![n].gate = g, ![n].agreed = s]
<1>1. library \in Documents /\ library[n] \in Entries /\ secrets \in [Servers -> KeyValues \cup {Nothing}]
  BY DEF LibraryIInv, LibraryTypeOK, Documents, InLibrary
<1>2. library[n] = [sum |-> library[n].sum, keyed |-> library[n].keyed, gate |-> library[n].gate, agreed |-> library[n].agreed]
      /\ library[n].sum \in Sums /\ library[n].keyed \in BOOLEAN
  BY <1>1 DEF Entries
<1>3. lib[n] = [sum |-> library[n].sum, keyed |-> library[n].keyed, gate |-> g, agreed |-> s]
      /\ \A m \in Servers \ {n} : lib[m] = library[m]
  BY <1>1, <1>2 DEF Documents
<1>4. lib[n] \in Entries /\ lib[n] # NoServer
  <2> HIDE DEF lib
  <2> QED
    BY <1>2, <1>3, NothingIsNone DEF Entries, NoServer
<1>5. lib \in Documents
  <2>1. lib \in [Servers -> {lib[m] : m \in Servers}]
    BY <1>1 DEF Documents
  <2> QED
    BY <1>1, <1>3, <1>4, <2>1 DEF Documents
<1>7. Persist(lib)
  OBVIOUS
<1> HIDE DEF lib
<1>6. ConfirmedWasAgreed(lib)
  <2>1. AsAgreed(lib[n])
    BY <1>3 DEF AsAgreed
  <2> QED
    BY <1>3, <2>1 DEF LibraryIInv, ConfirmedWasAgreed
<1>8. ASSUME ~unwritten', NEW m \in Servers, secrets'[m] # Nothing PROVE InLibrary(lib, m) /\ lib[m].keyed
  <2>1. ~unwritten /\ secrets[m] # Nothing
    BY <1>7, <1>8 DEF Persist, Persisted, PersistThrows
  <2>2. InLibrary(library, m) /\ library[m].keyed
    BY <2>1 DEF LibraryIInv, SecretsBelong
  <2> QED
    BY <1>3, <1>4, <2>2 DEF InLibrary
<1> QED
  BY <1>1, <1>5, <1>6, <1>7, <1>8, LibraryKept

LEMMA GatewayOffSound == ASSUME LibraryIInv, NEW n \in Servers, GatewayOff(n) PROVE LibraryIInv'
<1>1. /\ InLibrary(library, n) /\ Moved /\ UNCHANGED <<secrets, file, dialog>>
      /\ Persist([library EXCEPT ![n].gate = NoPrint, ![n].agreed = Nothing])
  BY DEF GatewayOff
<1>2. moves' \in 0 .. MaxMoves
  BY <1>1, MoveCounted DEF LibraryIInv
<1>3. DialogsTyped' /\ PushWritesShown' /\ \A d \in Dialogs : dialog'[d] = dialog[d] \/ dialog'[d] = NoDialog
  BY <1>1, DialogsKept DEF LibraryIInv
<1> QED
  BY <1>1, <1>2, <1>3, GateChanged

(* What an open dialog is for says what it holds.                                 *)
LEMMA OpenDialog ==
    ASSUME DialogsTyped, NEW d \in Dialogs
    PROVE  /\ dialog[d].for = "push" => dialog[d].shows \in PushShows /\ dialog[d].live \in LiveEntries
           /\ dialog[d].for = "gateway" => dialog[d].shows \in GatewayShows
           /\ dialog[d].for = "profile" => dialog[d].shows \in PushShows
  BY DEF DialogsTyped, Asked, NoDialog

LEMMA AllowedSound == ASSUME LibraryIInv, NEW d \in Dialogs, Allowed(d) PROVE LibraryIInv'
<1>1. PICK r \in dialog[d].shows :
        IF library[r[1]].sum = r[3]
        THEN Persist([library EXCEPT ![r[1]].gate = fingerprint(library[r[1]]), ![r[1]].agreed = r[3]])
        ELSE UNCHANGED <<library, onDisk, unwritten>>
  BY DEF Allowed
<1>2. dialog[d].for = "gateway" /\ DialogEnds(d) /\ UNCHANGED <<secrets, file, moves>>
  BY DEF Allowed
<1>3. r[1] \in Servers /\ r[3] \in Sums
  BY <1>2, OpenDialog DEF LibraryIInv, GatewayShows
<1>4. library \in Documents /\ moves' \in 0 .. MaxMoves
      /\ file' \in [ToolAgents -> [Servers -> FileEntries]]
  BY <1>2 DEF LibraryIInv, LibraryTypeOK, Documents, FileEntries
<1>5. DialogsTyped' /\ PushWritesShown' /\ \A c \in Dialogs : dialog'[c] = dialog[c] \/ dialog'[c] = NoDialog
  BY <1>2, DialogGone DEF LibraryIInv
<1>6. CASE library[r[1]].sum = r[3]
  <2>1. InLibrary(library, r[1]) /\ library[r[1]].keyed \in BOOLEAN
    BY <1>3, <1>4, <1>6, EntryOf, NothingIsNone
  <2>2. fingerprint(library[r[1]]) \in Fingerprints /\ fingerprint(library[r[1]]).sum = r[3]
    BY <1>3, <1>6, <2>1 DEF fingerprint, Fingerprints
  <2> QED
    BY <1>1, <1>2, <1>3, <1>4, <1>5, <1>6, <2>1, <2>2, GateChanged
<1>7. CASE library[r[1]].sum # r[3]
  BY <1>1, <1>2, <1>4, <1>5, <1>7, FilesWritten
<1> QED
  BY <1>6, <1>7

-----------------------------------------------------------------------------
(* What leaves the library.                                                       *)

(* A step that asks, or answers, and writes nothing.                              *)
LEMMA OnlyDialogs ==
    ASSUME LibraryIInv, UNCHANGED <<library, onDisk, secrets, unwritten, file>>, moves' \in 0 .. MaxMoves,
           DialogsTyped', PushWritesShown'
    PROVE  LibraryIInv'
<1>1. file' \in [ToolAgents -> [Servers -> FileEntries]]
  BY DEF LibraryIInv, LibraryTypeOK, FileEntries
<1> QED
  BY <1>1, FilesWritten

LEMMA RefusedSound == ASSUME LibraryIInv, NEW d \in Dialogs, Refused(d) PROVE LibraryIInv'
<1>1. DialogEnds(d) /\ UNCHANGED <<library, onDisk, secrets, unwritten, file, moves>>
  BY DEF Refused
<1>2. moves' \in 0 .. MaxMoves
  BY <1>1 DEF LibraryIInv, LibraryTypeOK
<1>3. DialogsTyped' /\ PushWritesShown'
  BY <1>1, DialogGone DEF LibraryIInv
<1> QED
  BY <1>1, <1>2, <1>3, OnlyDialogs

LEMMA AskSound ==
    ASSUME LibraryIInv, NEW d \in Dialogs, NEW q \in Asked, Ask(d, q), q.for = "push" => ShowsOne(q)
    PROVE  LibraryIInv'
<1>1. Moved /\ UNCHANGED <<library, onDisk, secrets, unwritten, file>>
  BY DEF Ask
<1>2. moves' \in 0 .. MaxMoves
  BY <1>1, MoveCounted DEF LibraryIInv
<1>3. DialogsTyped' /\ PushWritesShown'
  BY DialogAsked DEF LibraryIInv
<1> QED
  BY <1>1, <1>2, <1>3, OnlyDialogs

LEMMA AskPushSound ==
    ASSUME LibraryIInv, NEW d \in Dialogs, NEW n \in Servers, NEW A \in SUBSET ToolAgents, AskPush(d, n, A)
    PROVE  LibraryIInv'
<1> DEFINE q == [for |-> "push", shows |-> {n} \X A \X {library[n].sum}, live |-> toLive(n)]
<1>1. InLibrary(library, n) /\ Ask(d, q)
  BY DEF AskPush
<1>2. library \in Documents /\ secrets \in [Servers -> KeyValues \cup {Nothing}]
  BY DEF LibraryIInv, LibraryTypeOK, Documents
<1>3. toLive(n) \in LiveEntries /\ toLive(n).sum = library[n].sum /\ library[n].sum \in Sums
  BY <1>1, <1>2, LiveEntry, EntryOf, NothingIsNone
<1>4. q.shows \in PushShows
  BY <1>3 DEF PushShows
<1>5. q \in Asked
  BY <1>3, <1>4 DEF Asked
<1>6. ShowsOne(q)
  BY <1>3 DEF ShowsOne
<1> HIDE DEF q
<1> QED
  BY <1>1, <1>5, <1>6, AskSound

LEMMA AskGatewaySound == ASSUME LibraryIInv, NEW d \in Dialogs, NEW n \in Servers, AskGateway(d, n) PROVE LibraryIInv'
<1> DEFINE q == [for |-> "gateway", shows |-> {<<n, "gateway", library[n].sum>>}]
<1>1. InLibrary(library, n) /\ Ask(d, q)
  BY DEF AskGateway
<1>2. library[n].sum \in Sums
  BY <1>1, EntryOf DEF LibraryIInv, LibraryTypeOK, Documents
<1>3. q \in Asked /\ q.for # "push"
  BY <1>2 DEF Asked, GatewayShows
<1> HIDE DEF q
<1> QED
  BY <1>1, <1>3, AskSound

(* What a commit does to an entry of a file.                                      *)
LEMMA CommitOf ==
    ASSUME NEW sets, NEW shows, Commit(sets, shows), NEW a \in ToolAgents, NEW n \in Servers
    PROVE  \/ file'[a][n] = file[a][n]
           \/ InLibrary(library, n) /\ file'[a][n] = NoFileEntry
           \/ /\ InLibrary(library, n) /\ ~InFile(a, n)
              /\ <<n, a, library[n].sum>> \in shows /\ file'[a][n] = toLive(n)
<1>1. <<n, a>> \in ToDrop(sets) => InLibrary(library, n)
  BY DEF ToDrop
<1>2. <<n, a>> \in ToAdd(sets) => InLibrary(library, n) /\ ~InFile(a, n)
  BY DEF ToAdd
<1> QED
  BY <1>1, <1>2 DEF Commit

LEMMA CommitTyped ==
    ASSUME LibraryTypeOK, NEW sets, NEW shows, Commit(sets, shows)
    PROVE  file' \in [ToolAgents -> [Servers -> FileEntries]]
<1>1. \A a \in ToolAgents, n \in Servers : file'[a][n] \in FileEntries
  <2> SUFFICES ASSUME NEW a \in ToolAgents, NEW n \in Servers PROVE file'[a][n] \in FileEntries
    OBVIOUS
  <2>1. file[a][n] \in FileEntries /\ NoFileEntry \in FileEntries
    BY DEF LibraryTypeOK, FileEntries
  <2>2. InLibrary(library, n) => toLive(n) \in FileEntries
    BY LiveEntry DEF LibraryTypeOK, Documents, FileEntries
  <2> QED
    BY <2>1, <2>2, CommitOf
<1>2. PICK F : file' = [a \in ToolAgents |-> [n \in Servers |-> F[a][n]]]
  <2>1. PICK done \in SUBSET ToolAgents :
          file' = [a \in ToolAgents |-> [n \in Servers |->
                    IF a \notin done THEN file[a][n]
                    ELSE IF <<n, a>> \in ToDrop(sets) THEN NoFileEntry
                    ELSE IF <<n, a>> \in ToAdd(sets) /\ <<n, a, library[n].sum>> \in shows THEN toLive(n)
                    ELSE file[a][n]]]
    BY DEF Commit
  <2>2. file' = [a \in ToolAgents |-> [n \in Servers |-> file'[a][n]]]
    BY <2>1
  <2> QED
    BY <2>2
<1> QED
  BY <1>1, <1>2

LEMMA CommittedSound == ASSUME LibraryIInv, NEW d \in Dialogs, Committed(d) PROVE LibraryIInv'
<1>1. /\ Commit(dialog[d].sets, dialog[d].shows) /\ DialogEnds(d)
      /\ UNCHANGED <<library, onDisk, secrets, unwritten, moves>>
  BY DEF Committed
<1>2. file' \in [ToolAgents -> [Servers -> FileEntries]] /\ moves' \in 0 .. MaxMoves
  BY <1>1, CommitTyped DEF LibraryIInv, LibraryTypeOK
<1>3. DialogsTyped' /\ PushWritesShown'
  BY <1>1, DialogGone DEF LibraryIInv
<1> QED
  BY <1>1, <1>2, <1>3, FilesWritten

LEMMA PlanSetsSound ==
    ASSUME LibraryIInv, NEW d \in Dialogs, NEW A \in SUBSET ToolAgents, NEW sets \in [A -> SUBSET Servers], PlanSets(d, sets)
    PROVE  LibraryIInv'
<1>1. CASE ToAdd(sets) # {}
  <2> DEFINE q == [for |-> "profile", sets |-> sets,
                   shows |-> {<<r[1], r[2], library[r[1]].sum>> : r \in ToAdd(sets)}]
  <2>1. Ask(d, q)
    BY <1>1 DEF PlanSets
  <2>2. \A r \in ToAdd(sets) : r[1] \in Servers /\ r[2] \in ToolAgents /\ library[r[1]].sum \in Sums
    <3>1. \A r \in ToAdd(sets) : r[1] \in Servers /\ r[2] \in ToolAgents /\ InLibrary(library, r[1])
      BY DEF ToAdd
    <3>2. library \in Documents
      BY DEF LibraryIInv, LibraryTypeOK, Documents
    <3> QED
      BY <3>1, <3>2, EntryOf
  <2>3. q.shows \in PushShows
    BY <2>2 DEF PushShows
  <2>4. sets \in UNION {[B -> SUBSET Servers] : B \in SUBSET ToolAgents}
    OBVIOUS
  <2>5. q \in Asked /\ q.for # "push"
    BY <2>3, <2>4 DEF Asked
  <2> HIDE DEF q
  <2> QED
    BY <2>1, <2>5, AskSound
<1>2. CASE ToAdd(sets) = {}
  <2>1. Commit(sets, {}) /\ Moved /\ UNCHANGED <<library, onDisk, secrets, dialog, unwritten>>
    BY <1>2 DEF PlanSets
  <2>2. file' \in [ToolAgents -> [Servers -> FileEntries]] /\ moves' \in 0 .. MaxMoves
    BY <2>1, CommitTyped, MoveCounted DEF LibraryIInv
  <2>3. DialogsTyped' /\ PushWritesShown'
    BY <2>1, DialogsKept DEF LibraryIInv
  <2> QED
    BY <2>1, <2>2, <2>3, FilesWritten
<1> QED
  BY <1>1, <1>2

LEMMA PushedSound == ASSUME LibraryIInv, NEW d \in Dialogs, Pushed(d) PROVE LibraryIInv'
<1>1. PICK done \in SUBSET {r[2] : r \in dialog[d].shows} :
        file' = [a \in ToolAgents |-> [n \in Servers |->
                    IF a \in done /\ \E r \in dialog[d].shows : r[1] = n THEN dialog[d].live ELSE file[a][n]]]
  BY DEF Pushed
<1>2. dialog[d].for = "push" /\ DialogEnds(d) /\ UNCHANGED <<library, onDisk, secrets, unwritten, moves>>
  BY DEF Pushed
<1>3. dialog[d].live \in FileEntries
  BY <1>2, OpenDialog DEF LibraryIInv, FileEntries
<1>4. file \in [ToolAgents -> [Servers -> FileEntries]] /\ moves' \in 0 .. MaxMoves
  BY <1>2 DEF LibraryIInv, LibraryTypeOK, FileEntries
<1>5. file' \in [ToolAgents -> [Servers -> FileEntries]]
  BY <1>1, <1>3, <1>4
<1>6. DialogsTyped' /\ PushWritesShown'
  BY <1>2, DialogGone DEF LibraryIInv
<1> QED
  BY <1>2, <1>4, <1>5, <1>6, FilesWritten

LEMMA FileEdited ==
    ASSUME LibraryIInv, NEW a \in ToolAgents, NEW n \in Servers, NEW e \in FileEntries,
           file' = [file EXCEPT ![a][n] = e], Moved, UNCHANGED <<library, onDisk, secrets, dialog, unwritten>>
    PROVE  LibraryIInv'
<1>1. file \in [ToolAgents -> [Servers -> FileEntries]]
  BY DEF LibraryIInv, LibraryTypeOK, FileEntries
<1>2. file' \in [ToolAgents -> [Servers -> FileEntries]] /\ moves' \in 0 .. MaxMoves
  BY <1>1, MoveCounted DEF LibraryIInv
<1>3. DialogsTyped' /\ PushWritesShown'
  BY DialogsKept DEF LibraryIInv
<1> QED
  BY <1>2, <1>3, FilesWritten

LEMMA RelaunchSound == ASSUME LibraryIInv, Relaunch PROVE LibraryIInv'
<1> USE DEF Relaunch
<1>1. DialogsTyped' /\ PushWritesShown'
  <2>1. \A d \in Dialogs : dialog'[d] = NoDialog
    OBVIOUS
  <2> QED
    BY <2>1 DEF DialogsTyped, PushWritesShown, Asked, NoDialog
<1>2. LibraryTypeOK'
  <2>1. \A d \in Dialogs : dialog'[d] = NoDialog
    OBVIOUS
  <2>2. LibraryTypeOK
    BY DEF LibraryIInv
  <2> QED
    BY <2>1, <2>2 DEF LibraryTypeOK, DialogOpen
<1>3. ConfirmedWasAgreed(library)' /\ ConfirmedWasAgreed(onDisk)'
  BY DEF LibraryIInv, ConfirmedWasAgreed
<1>4. DiskFollows' /\ SecretsBelong'
  BY DEF LibraryIInv, DiskFollows, SecretsBelong, InLibrary
<1> QED
  BY <1>1, <1>2, <1>3, <1>4 DEF LibraryIInv
-----------------------------------------------------------------------------
LEMMA LibraryStepIInv == LibraryIInv /\ [LibraryNext]_libraryVars => LibraryIInv'
<1> SUFFICES ASSUME LibraryIInv, [LibraryNext]_libraryVars PROVE LibraryIInv'
  OBVIOUS
<1>1. CASE UNCHANGED libraryVars
  BY <1>1 DEF libraryVars, LibraryIInv, LibraryTypeOK, DialogOpen, DialogsTyped, PushWritesShown, ConfirmedWasAgreed,
              DiskFollows, SecretsBelong, InLibrary
<1>2. ASSUME NEW old \in Servers \cup {NoName}, NEW n \in Servers, NEW s \in Sums,
             NEW key \in KeyValues \cup {Nothing, Kept}, Save(old, n, s, key)
      PROVE  LibraryIInv'
  BY <1>2, SaveSound
<1>3. ASSUME NEW a \in ToolAgents, NEW n \in Servers, Pull(a, n) PROVE LibraryIInv'
  BY <1>3, PullSound
<1>4. ASSUME NEW a \in ToolAgents, NEW n \in Servers, RemoveFromAgent(a, n) PROVE LibraryIInv'
  BY <1>4, FileEdited DEF RemoveFromAgent, FileEntries
<1>5. ASSUME NEW a \in ToolAgents, NEW n \in Servers, NEW picks \in SUBSET {"spec", "key"}, Merge(a, n, picks)
      PROVE  LibraryIInv'
  BY <1>5, MergeSound
<1>6. ASSUME NEW a \in ToolAgents, NEW n \in Servers, NEW e \in LiveEntries \cup {NoFileEntry}, EditFile(a, n, e)
      PROVE  LibraryIInv'
  BY <1>6, FileEdited DEF EditFile, FileEntries
<1>7. ASSUME NEW n \in Servers, RemoveServer(n) \/ GatewayOff(n) PROVE LibraryIInv'
  BY <1>7, RemoveSound, GatewayOffSound
<1>8. ASSUME NEW d \in Dialogs, NEW n \in Servers, NEW A \in SUBSET ToolAgents \ {{}}, AskPush(d, n, A) PROVE LibraryIInv'
  BY <1>8, AskPushSound
<1>9. ASSUME NEW d \in Dialogs, NEW n \in Servers, AskGateway(d, n) PROVE LibraryIInv'
  BY <1>9, AskGatewaySound
<1>10. ASSUME NEW d \in Dialogs, NEW A \in SUBSET ToolAgents, NEW sets \in [A -> SUBSET Servers], PlanSets(d, sets)
       PROVE  LibraryIInv'
  BY <1>10, PlanSetsSound
<1>11. ASSUME NEW d \in Dialogs, Refused(d) \/ Pushed(d) \/ Allowed(d) \/ Committed(d) PROVE LibraryIInv'
  BY <1>11, RefusedSound, PushedSound, AllowedSound, CommittedSound
<1>12. CASE Relaunch
  BY <1>12, RelaunchSound
<1> QED
  BY <1>1, <1>2, <1>3, <1>4, <1>5, <1>6, <1>7, <1>8, <1>9, <1>10, <1>11, <1>12 DEF LibraryNext

LEMMA LibraryInvariance == LibrarySpec => []LibraryIInv
  BY LibraryInitIInv, LibraryStepIInv, PTL DEF LibrarySpec

(* The library, its file, the agents' files and the dialogs keep their types.     *)
THEOREM LibraryTypeCorrect == LibrarySpec => []LibraryTypeOK
<1>1. LibraryIInv => LibraryTypeOK
  BY DEF LibraryIInv
<1> QED
  BY <1>1, LibraryInvariance, PTL

(* What the gateway may run was agreed to, and no value outlives the key it        *)
(* belongs to, through edits, renames, pulls, merges, removals and relaunches       *)
(* between any of the dialogs (mcpStore.ts).                                      *)
THEOREM LibraryStaysSound == LibrarySpec => []LibrarySound
<1>1. ASSUME LibraryIInv, NEW n \in Servers, Served(library, n) PROVE library[n].agreed = library[n].sum
  <2>1. InLibrary(library, n) /\ library[n].gate = fingerprint(library[n])
    BY <1>1 DEF Served
  <2>2. library[n].sum \in Sums
    BY <1>1, <2>1, EntryOf, NothingIsNone DEF LibraryIInv, LibraryTypeOK, Documents
  <2>3. library[n].gate.sum = library[n].sum
    BY <2>1 DEF fingerprint
  <2>4. library[n].gate # NoPrint
    BY <2>2, <2>3, NothingIsNone DEF NoPrint
  <2> QED
    BY <1>1, <2>3, <2>4 DEF LibraryIInv, ConfirmedWasAgreed, AsAgreed
<1>2. LibraryIInv => LibrarySound
  BY <1>1 DEF LibrarySound, ServedAsConfirmed, LibraryIInv
<1> QED
  BY <1>2, LibraryInvariance, PTL

-----------------------------------------------------------------------------
(* What a step may do to a file.                                                  *)

LEMMA PushedOf ==
    ASSUME LibraryIInv, NEW d \in Dialogs, Pushed(d), NEW a \in ToolAgents, NEW n \in Servers
    PROVE  \/ file'[a][n] = file[a][n]
           \/ <<n, a, file'[a][n].sum>> \in dialog[d].shows
<1>1. PICK done \in SUBSET {r[2] : r \in dialog[d].shows} :
        file' = [b \in ToolAgents |-> [m \in Servers |->
                    IF b \in done /\ \E r \in dialog[d].shows : r[1] = m THEN dialog[d].live ELSE file[b][m]]]
  BY DEF Pushed
<1>2. dialog[d].shows \in PushShows /\ ShowsOne(dialog[d])
  BY OpenDialog DEF LibraryIInv, Pushed, PushWritesShown
<1>3. CASE a \in done /\ \E r \in dialog[d].shows : r[1] = n
  <2>1. PICK r \in dialog[d].shows : r[2] = a
    BY <1>3
  <2>2. r[1] = n /\ r[3] = dialog[d].live.sum
    BY <1>2, <1>3 DEF ShowsOne
  <2>3. r = <<n, a, dialog[d].live.sum>>
    BY <1>2, <2>1, <2>2 DEF PushShows
  <2>4. file'[a][n] = dialog[d].live
    BY <1>1, <1>3
  <2> QED
    BY <2>3, <2>4
<1>4. CASE ~(a \in done /\ \E r \in dialog[d].shows : r[1] = n)
  BY <1>1, <1>4
<1> QED
  BY <1>3, <1>4

(* A file changes by an edit or a removal, by a push or by a commit.               *)
LEMMA FileChanges ==
    ASSUME [LibraryNext]_libraryVars, file' # file
    PROVE  \/ \E a \in ToolAgents, n \in Servers :
                RemoveFromAgent(a, n) \/ \E e \in LiveEntries \cup {NoFileEntry} : EditFile(a, n, e)
           \/ \E d \in Dialogs : Pushed(d) \/ Committed(d)
           \/ \E sets : Commit(sets, {}) /\ UNCHANGED dialog
<1>1. \A sets : \A d \in Dialogs : PlanSets(d, sets) => Commit(sets, {}) /\ UNCHANGED dialog
  BY DEF PlanSets, Ask
<1> QED
  BY <1>1 DEF LibraryNext, libraryVars, Save, Pull, Merge, PutLibrary, RemoveServer, GatewayOff, AskPush,
              AskGateway, Ask, Refused, Allowed, Relaunch

LEMMA WrittenWasShown ==
    ASSUME LibraryIInv, [LibraryNext]_libraryVars, NEW a \in ToolAgents, NEW n \in Servers,
           file'[a][n] \notin {file[a][n], NoFileEntry}
    PROVE  \/ EditFile(a, n, file'[a][n])
           \/ \E d \in Dialogs : DialogEnds(d) /\ DialogOpen(d) /\ <<n, a, file'[a][n].sum>> \in dialog[d].shows
<1>0. file \in [ToolAgents -> [Servers -> FileEntries]] /\ library \in Documents
      /\ secrets \in [Servers -> KeyValues \cup {Nothing}]
  BY DEF LibraryIInv, LibraryTypeOK, FileEntries, Documents
<1>1. file' # file
  OBVIOUS
<1>2. ASSUME NEW b \in ToolAgents, NEW m \in Servers, RemoveFromAgent(b, m) PROVE FALSE
  BY <1>0, <1>2 DEF RemoveFromAgent
<1>3. ASSUME NEW b \in ToolAgents, NEW m \in Servers, NEW e \in LiveEntries \cup {NoFileEntry}, EditFile(b, m, e)
      PROVE  EditFile(a, n, file'[a][n])
  <2>1. b = a /\ m = n /\ file'[a][n] = e
    BY <1>0, <1>3 DEF EditFile
  <2> QED
    BY <1>3, <2>1
<1>4. ASSUME NEW d \in Dialogs, Pushed(d)
      PROVE  DialogEnds(d) /\ DialogOpen(d) /\ <<n, a, file'[a][n].sum>> \in dialog[d].shows
  BY <1>4, PushedOf DEF Pushed
<1>5. ASSUME NEW d \in Dialogs, Committed(d)
      PROVE  DialogEnds(d) /\ DialogOpen(d) /\ <<n, a, file'[a][n].sum>> \in dialog[d].shows
  <2>1. Commit(dialog[d].sets, dialog[d].shows) /\ DialogEnds(d) /\ DialogOpen(d)
    BY <1>5 DEF Committed
  <2>2. InLibrary(library, n) /\ <<n, a, library[n].sum>> \in dialog[d].shows /\ file'[a][n] = toLive(n)
    BY <2>1, CommitOf
  <2>3. toLive(n).sum = library[n].sum
    BY DEF toLive
  <2> QED
    BY <2>1, <2>2, <2>3
<1>6. ASSUME NEW sets, Commit(sets, {}) PROVE FALSE
  <2>1. <<n, a, library[n].sum>> \notin {}
    OBVIOUS
  <2>2. file'[a][n] = file[a][n] \/ file'[a][n] = NoFileEntry
    BY <1>6, <2>1, CommitOf
  <2> QED
    BY <2>2
<1> QED
  BY <1>1, <1>2, <1>3, <1>4, <1>5, <1>6, FileChanges

LEMMA HandWrittenStays ==
    ASSUME LibraryIInv, [LibraryNext]_libraryVars, NEW d \in Dialogs, NEW a \in ToolAgents, NEW n \in Servers,
           DialogOpen(d), dialog[d].for = "profile", DialogEnds(d), InFile(a, n)
    PROVE  \/ file'[a][n] = file[a][n]
           \/ InLibrary(library, n) /\ file'[a][n] = NoFileEntry
<1> SUFFICES ASSUME file' # file PROVE \/ file'[a][n] = file[a][n]
                                       \/ InLibrary(library, n) /\ file'[a][n] = NoFileEntry
  OBVIOUS
<1>1. dialog \in [Dialogs -> Asked] /\ dialog' # dialog
  BY DEF LibraryIInv, DialogsTyped, DialogOpen, DialogEnds
<1>2. ASSUME NEW b \in ToolAgents, NEW m \in Servers,
             RemoveFromAgent(b, m) \/ \E e \in LiveEntries \cup {NoFileEntry} : EditFile(b, m, e)
      PROVE  FALSE
  BY <1>1, <1>2 DEF RemoveFromAgent, EditFile
<1>3. ASSUME NEW c \in Dialogs, Pushed(c) PROVE FALSE
  <2>1. c = d
    BY <1>1, <1>3 DEF Pushed, DialogOpen, DialogEnds
  <2> QED
    BY <1>3, <2>1 DEF Pushed
<1>4. ASSUME NEW sets, NEW shows, Commit(sets, shows)
      PROVE  \/ file'[a][n] = file[a][n]
             \/ InLibrary(library, n) /\ file'[a][n] = NoFileEntry
  BY <1>4, CommitOf
<1> QED
  BY <1>1, <1>2, <1>3, <1>4, FileChanges DEF Committed

(* What AiOpt writes into an agent's file was shown for that agent with that       *)
(* command in a dialog that was agreed to, and a profile leaves what the user       *)
(* wrote there by hand, whatever happens while any number of dialogs are open       *)
(* (mcpStore.ts:607, 750, 781).                                                   *)
THEOREM FilesStayAsAgreed == LibrarySpec => FilesAsAgreed
<1>1. LibraryIInv /\ [LibraryNext]_libraryVars =>
        [\A a \in ToolAgents, n \in Servers :
            LET e == file'[a][n] IN
            e \notin {file[a][n], NoFileEntry} =>
                \/ EditFile(a, n, e)
                \/ \E d \in Dialogs : DialogEnds(d) /\ DialogOpen(d) /\ <<n, a, e.sum>> \in dialog[d].shows
        ]_libraryVars
  BY WrittenWasShown
<1>2. LibraryIInv /\ [LibraryNext]_libraryVars =>
        [\A d \in Dialogs, a \in ToolAgents, n \in Servers :
            /\ DialogOpen(d) /\ dialog[d].for = "profile" /\ DialogEnds(d)
            /\ InFile(a, n)
            => \/ file'[a][n] = file[a][n]
               \/ InLibrary(library, n) /\ file'[a][n] = NoFileEntry
        ]_libraryVars
  BY HandWrittenStays
<1>3. LibrarySpec => ShownIsWritten
  BY <1>1, LibraryInvariance, PTL DEF LibrarySpec, ShownIsWritten
<1>4. LibrarySpec => HandWrittenKept
  BY <1>2, LibraryInvariance, PTL DEF LibrarySpec, HandWrittenKept
<1> QED
  BY <1>3, <1>4 DEF FilesAsAgreed
=============================================================================
