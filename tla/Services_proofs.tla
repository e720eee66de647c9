--------------------------- MODULE Services_proofs ---------------------------
(* What holds of the smaller components for every value of their constants. They    *)
(* share no state; each section has the inductive invariant of one of them, and the *)
(* last one says that MCServices, which puts them side by side, is each of them.     *)
EXTENDS MCServices, McpGateway_proofs, McpLibrary_proofs, WorkbenchLifecycle_proofs,
        FiniteSetTheorems, WellFoundedInduction, TLAPS

-----------------------------------------------------------------------------
(* The configuration file of an agent (AgentConfigFile).                      *)

\* The contents on their way to the file are whole, or the backup was torn.
WholeOnItsWay ==
  /\ target # Absent => target.whole \/ torn
  /\ pc # "idle" => next \in Document /\ (next.whole \/ torn)
  /\ backup # Absent /\ pc # "copying" => backup.whole \/ torn
  /\ pc = "rename" => tmp = next

\* Which calls can be under way, and what they have in hand.
CallsInOrder ==
  /\ pc = "copying" => backup # Absent /\ taken
  /\ pc \in {"backup", "copying"} => ~restoring
  /\ pc = "unbackup" => restoring
  /\ pc # "idle" /\ restoring => backup # Absent /\ next = backup

\* The backup is the file the takeover found, from the first byte copied on.
BackupIsOriginal ==
  /\ backup # Absent => taken
  /\ pc = "copying" /\ orig # Absent /\ ~torn =>
       backup = partial(orig) /\ orig.whole
  /\ taken /\ orig # Absent /\ ~torn => backup = orig \/ pc = "copying"

\* The inductive invariant.
FileIInv == TypeOK /\ WholeOnItsWay /\ CallsInOrder /\ BackupIsOriginal

\* Writing a document's bytes changes nothing but whether it is all there.
LEMMA PartialAndComplete ==
  ASSUME NEW d \in Document
  PROVE  /\ partial(d) \in Document /\ ~partial(d).whole
         /\ complete(d) \in Document /\ complete(d).whole
         /\ d.whole => complete(partial(d)) = d
  BY DEF Document, partial, complete

\* What writeLive is about to write is a whole document.
LEMMA MergedWhole ==
  ASSUME TypeOK, NEW k \in OurVersions
  PROVE  merged(k) \in Document /\ merged(k).whole
  BY AbsentAssumption DEF TypeOK, Contents, merged, Document

\* The invariant holds of a file AiOpt has not touched.
LEMMA FileInitIInv == Init => FileIInv
<1> SUFFICES ASSUME Init PROVE FileIInv
  OBVIOUS
<1>1. ASSUME target # Absent PROVE target \in Document /\ target.whole
  <2>1. PICK u \in UserVersions : target = [user |-> u, ours |-> Nobody, whole |-> TRUE]
    BY <1>1 DEF Init
  <2> QED
    BY <2>1 DEF Document
<1>2. target \in Contents
  BY <1>1 DEF Contents
<1>3. backup \in Contents /\ tmp \in Contents /\ next \in Contents /\ orig \in Contents
  BY DEF Init, Contents
<1>4. edits \in 0..MaxEdits /\ throws \in 0..MaxThrows /\ crashes \in 0..MaxCrashes
  BY BoundsAssumption DEF Init
<1>5. TypeOK
  BY <1>2, <1>3, <1>4 DEF Init, TypeOK
<1>6. WholeOnItsWay /\ CallsInOrder /\ BackupIsOriginal
  BY <1>1 DEF Init, WholeOnItsWay, CallsInOrder, BackupIsOriginal
<1> QED
  BY <1>5, <1>6 DEF FileIInv

\* Every call, failure, crash and edit preserves it.
LEMMA FileStepIInv == FileIInv /\ [Next]_vars => FileIInv'
<1> SUFFICES ASSUME FileIInv, [Next]_vars PROVE FileIInv'
  OBVIOUS
<1> USE AbsentAssumption, BoundsAssumption
<1> USE DEF FileIInv, TypeOK, Contents, WholeOnItsWay, CallsInOrder, BackupIsOriginal, files, history, budget
<1>1. ASSUME NEW k \in OurVersions, WriteLive(k) PROVE FileIInv'
  BY <1>1, MergedWhole DEF WriteLive
<1>2. CASE SkipBackup
  BY <1>2 DEF SkipBackup
<1>3. CASE CopyBackup
  BY <1>3, PartialAndComplete DEF CopyBackup
<1>4. CASE CopiedBackup
  BY <1>4, PartialAndComplete DEF CopiedBackup
<1>5. CASE OpenTemp
  BY <1>5, PartialAndComplete DEF OpenTemp
<1>6. CASE FillTemp
  BY <1>6 DEF FillTemp
<1>7. CASE RenameTemp
  BY <1>7 DEF RenameTemp
<1>8. CASE RestoreFromBackup
  BY <1>8 DEF RestoreFromBackup
<1>9. CASE RemoveBackup
  BY <1>9 DEF RemoveBackup
<1>10. CASE RestoreWithoutBackup
  BY <1>10 DEF RestoreWithoutBackup
<1>11. CASE Throw
  BY <1>11 DEF Throw
<1>12. CASE Crash
  BY <1>12 DEF Crash
<1>13. CASE UserEdit
  <2>1. target' \in Document /\ target'.whole
    BY <1>13 DEF UserEdit, Document
  <2>2. edits < MaxEdits /\ edits' = edits + 1 /\ handed' = FALSE
    BY <1>13 DEF UserEdit
  <2>3. edits' \in 0..MaxEdits
    BY <2>2
  <2>4. UNCHANGED <<backup, tmp, pc, restoring, next, taken, orig, torn, throws, crashes>>
    BY <1>13 DEF UserEdit
  <2>5. TypeOK'
    BY <2>1, <2>2, <2>4, <2>3
  <2>6. WholeOnItsWay' /\ CallsInOrder' /\ BackupIsOriginal'
    BY <2>1, <2>4
  <2> QED
    BY <2>5, <2>6
<1>14. CASE UserDelete
  <2>1. target' = Absent
    BY <1>14 DEF UserDelete
  <2>2. edits < MaxEdits /\ edits' = edits + 1 /\ handed' = FALSE
    BY <1>14 DEF UserDelete
  <2>3. edits' \in 0..MaxEdits
    BY <2>2
  <2>4. UNCHANGED <<backup, tmp, pc, restoring, next, taken, orig, torn, throws, crashes>>
    BY <1>14 DEF UserDelete
  <2>5. TypeOK'
    BY <2>1, <2>2, <2>4, <2>3
  <2>6. WholeOnItsWay' /\ CallsInOrder' /\ BackupIsOriginal'
    BY <2>1, <2>4
  <2> QED
    BY <2>5, <2>6
<1>15. CASE UNCHANGED vars
  BY <1>15 DEF vars
<1> QED
  BY <1>1, <1>2, <1>3, <1>4, <1>5, <1>6, <1>7, <1>8, <1>9, <1>10, <1>11, <1>12, <1>13,
     <1>14, <1>15 DEF Next

\* The invariant, and with it the type of every file and of the call sequence.
THEOREM FileInductive == Spec => []FileIInv
  BY FileInitIInv, FileStepIInv, PTL DEF Spec

\* Types, for any versions and any bounds.
THEOREM FileTypeCorrect == Spec => []TypeOK
  BY FileInductive, PTL DEF FileIInv

\* Nobody ever reads a truncated config unless the backup's copying was cut
\* off by the death of the process.
THEOREM NoTruncation == Spec => []TruncatedOnlyByTornBackup
<1>1. FileIInv => TruncatedOnlyByTornBackup
  BY DEF FileIInv, WholeOnItsWay, TruncatedOnlyByTornBackup
<1> QED
  BY FileInductive, <1>1, PTL

\* The user's original is on disk for as long as the takeover lasts.
THEOREM OriginalIsKept == Spec => []OriginalSurvives
<1>1. FileIInv => OriginalSurvives
  BY DEF FileIInv, BackupIsOriginal, OriginalSurvives
<1> QED
  BY FileInductive, <1>1, PTL

\* A restore puts the user's original back.
THEOREM RestoreIsFaithful == Spec => RestoreGivesBack
<1>1. FileIInv /\ [Next]_vars =>
        [restoring /\ pc = "rename" /\ pc' = "unbackup" /\ orig # Absent /\ ~torn
           => target' = orig]_vars
  <2> SUFFICES ASSUME FileIInv, Next, restoring, pc = "rename", pc' = "unbackup",
                      orig # Absent, ~torn
               PROVE  target' = orig
    OBVIOUS
  <2>1. next = orig /\ tmp = next
    BY DEF FileIInv, WholeOnItsWay, CallsInOrder, BackupIsOriginal
  <2>2. RenameTemp
    BY DEF Next, WriteLive, SkipBackup, CopyBackup, CopiedBackup, OpenTemp, FillTemp,
           RestoreFromBackup, RemoveBackup, RestoreWithoutBackup, Throw, Crash,
           UserEdit, UserDelete
  <2> QED
    BY <2>1, <2>2 DEF RenameTemp
<1> QED
  BY FileInductive, <1>1, PTL DEF Spec, RestoreGivesBack

-----------------------------------------------------------------------------
(* Signing in and refreshing (OAuthSessions).                                 *)

Logins == [pc : {"none", "listen", "browse", "callback", "exchange"},
           account : Accounts \cup {NoAccount}, grant : 0 .. MaxGrants]
Bundles == [grant : 0 .. MaxGrants, gen : 0 .. MaxGen, due : {"no", "soon", "now"}]
Flights == [pc : {"none", "sent", "granted", "refused"}, by : {"none", "manager", "renew"},
            account : Accounts \cup {NoAccount}, grant : 0 .. MaxGrants, gen : 0 .. MaxGen]

InFlight(r) == refresh[r].pc # "none"

(* One login at a time; its listener comes after the listen and goes with it.     *)
LoginHeld ==
    /\ login.pc = "none" => login = NoLogin
    /\ login.pc # "none" => login.account \in Accounts /\ pending = login.account
    /\ login.pc \in {"none", "listen"} => ~listener

(* A refresh in flight was started from a bundle.                                 *)
RefreshesStarted ==
    \A r \in Refreshes :
        /\ ~InFlight(r) => refresh[r] = NoRefresh
        /\ InFlight(r) => refresh[r].account \in Accounts /\ refresh[r].grant \in Grants

(* A sign-in is one account's: no other account's bundle or refresh is of it, and *)
(* none at all while it is exchanged.                                             *)
GrantsOwned ==
    /\ \A a, b \in Accounts : Connected(a) /\ bundle[a].grant = bundle[b].grant => a = b
    /\ \A a \in Accounts, r \in Refreshes :
         InFlight(r) /\ refresh[r].grant = bundle[a].grant => refresh[r].account = a
    /\ \A r, s \in Refreshes :
         InFlight(r) /\ InFlight(s) /\ refresh[r].grant = refresh[s].grant => refresh[r].account = refresh[s].account
    /\ login.pc = "exchange" =>
         /\ login.grant \in Grants /\ newest[login.grant] = 1
         /\ \A a \in Accounts : bundle[a].grant # login.grant
         /\ \A r \in Refreshes : InFlight(r) => refresh[r].grant # login.grant

(* No one holds a token the vendor has not given yet.                             *)
TokensGiven ==
    /\ \A a \in Accounts : Connected(a) => 1 <= bundle[a].gen /\ bundle[a].gen <= newest[bundle[a].grant]
    /\ \A r \in Refreshes : InFlight(r) => /\ 1 <= refresh[r].gen /\ refresh[r].gen < MaxGen
                                           /\ refresh[r].gen <= newest[refresh[r].grant]

(* An answer on its way is the vendor's newest, and no one holds a newer one.     *)
AnswersAreNewest ==
    \A s \in Refreshes : refresh[s].pc = "granted" =>
        /\ newest[refresh[s].grant] = refresh[s].gen + 1
        /\ \A a \in Accounts : bundle[a].grant = refresh[s].grant => bundle[a].gen <= refresh[s].gen
        /\ \A r \in Refreshes : InFlight(r) /\ refresh[r].grant = refresh[s].grant =>
             /\ refresh[r].gen <= refresh[s].gen
             /\ refresh[r].pc = "granted" => r = s

(* With no answer on its way and none lost, what is stored is the newest.         *)
StoredUnlessAnswering ==
    \A a \in Accounts :
        /\ Connected(a)
        /\ bundle[a].grant \notin unanswered
        /\ \A s \in Refreshes : refresh[s].pc = "granted" => refresh[s].grant # bundle[a].grant
        => newest[bundle[a].grant] = bundle[a].gen

(* Only a login or a refresh that was under way can sign a removed account in.    *)
RemovedWasOvertaken ==
    \A a \in Accounts \ provider :
        /\ Connected(a) => a \in overtaken
        /\ login.account = a => a \in overtaken
        /\ \A r \in Refreshes : refresh[r].account = a => a \in overtaken

Tokens == GrantsOwned /\ TokensGiven /\ AnswersAreNewest /\ StoredUnlessAnswering

(* The inductive invariant.                                                       *)
OAuthIInv == OAuthTypeOK /\ LoginHeld /\ RefreshesStarted /\ Tokens /\ RemovedWasOvertaken

-----------------------------------------------------------------------------
LEMMA OAuthInitIInv == OAuthInit => OAuthIInv
<1> SUFFICES ASSUME OAuthInit PROVE OAuthIInv
  OBVIOUS
<1> USE OAuthAssumption DEF OAuthInit
<1>1. /\ \A a \in Accounts : bundle[a] = SignedOut
      /\ \A r \in Refreshes : refresh[r] = NoRefresh
  OBVIOUS
<1>2. OAuthTypeOK
  <2>1. SignedOut \in Bundles /\ NoRefresh \in Flights
    BY DEF Bundles, Flights, SignedOut, NoRefresh
  <2>2. bundle \in [Accounts -> Bundles] /\ refresh \in [Refreshes -> Flights]
    BY <2>1
  <2>3. newest \in [Grants -> 0 .. MaxGen]
    OBVIOUS
  <2>4. login \in Logins
    BY DEF NoLogin, Logins
  <2> QED
    BY <2>2, <2>3, <2>4 DEF OAuthTypeOK, Logins, Bundles, Flights
<1>3. LoginHeld /\ RefreshesStarted /\ RemovedWasOvertaken
  BY <1>1 DEF LoginHeld, RefreshesStarted, RemovedWasOvertaken, InFlight, NoLogin, NoRefresh
<1>4. Tokens
  BY <1>1 DEF Tokens, GrantsOwned, TokensGiven, AnswersAreNewest, StoredUnlessAnswering,
              InFlight, Connected, SignedOut, NoLogin, NoRefresh
<1> QED
  BY <1>2, <1>3, <1>4 DEF OAuthIInv

(* A refresh that ends is in no one's way.                                        *)
LEMMA RefreshEnded ==
    ASSUME OAuthTypeOK, NEW r \in Refreshes, EndRefresh(r)
    PROVE  /\ refresh'[r] = NoRefresh
           /\ \A s \in Refreshes \ {r} : refresh'[s] = refresh[s]
           /\ renewing' \subseteq Accounts
           /\ refresh' \in [Refreshes -> Flights]
<1>1. NoRefresh \in Flights
  BY OAuthAssumption DEF NoRefresh, Flights
<1> QED
  BY <1>1 DEF OAuthTypeOK, EndRefresh, Flights

(* A refresh that is sent takes the bundle's token with it.                       *)
LEMMA RefreshSent ==
    ASSUME OAuthTypeOK, NEW r \in Refreshes, NEW a \in Accounts, NEW by \in {"manager", "renew"}, Send(r, a, by)
    PROVE  /\ refresh[r].pc = "none"
           /\ bundle[a].gen < MaxGen
           /\ refresh'[r].pc = "sent" /\ refresh'[r].account = a
           /\ refresh'[r].grant = bundle[a].grant /\ refresh'[r].gen = bundle[a].gen
           /\ \A s \in Refreshes \ {r} : refresh'[s] = refresh[s]
           /\ refresh' \in [Refreshes -> Flights]
<1>1. bundle[a].grant \in 0 .. MaxGrants /\ bundle[a].gen \in 0 .. MaxGen
  BY DEF OAuthTypeOK
<1> QED
  BY <1>1 DEF OAuthTypeOK, Send, Flights

(* The vendor's answer changes the one refresh, and the one sign-in when it grants. *)
LEMMA Answered ==
    ASSUME OAuthTypeOK, RefreshesStarted, TokensGiven, NEW r \in Refreshes, VendorAnswers(r)
    PROVE  /\ refresh[r].pc = "sent" /\ refresh[r].grant \in Grants
           /\ refresh'[r].account = refresh[r].account
           /\ refresh'[r].grant = refresh[r].grant /\ refresh'[r].gen = refresh[r].gen
           /\ \A s \in Refreshes \ {r} : refresh'[s] = refresh[s]
           /\ refresh' \in [Refreshes -> Flights]
           /\ newest' \in [Grants -> 0 .. MaxGen]
           /\ \/ /\ refresh'[r].pc = "granted"
                 /\ newest[refresh[r].grant] = refresh[r].gen
                 /\ newest'[refresh[r].grant] = refresh[r].gen + 1
                 /\ \A g \in Grants \ {refresh[r].grant} : newest'[g] = newest[g]
              \/ refresh'[r].pc = "refused" /\ newest' = newest
<1>1. refresh[r].pc = "sent" /\ refresh[r].grant \in Grants
  BY DEF VendorAnswers, RefreshesStarted, InFlight
<1>2. refresh[r].gen \in Nat /\ refresh[r].gen < MaxGen
  BY <1>1, OAuthAssumption DEF TokensGiven, InFlight, OAuthTypeOK
<1>3. CASE newest[refresh[r].grant] = refresh[r].gen
  <2>1. newest' = [newest EXCEPT ![refresh[r].grant] = refresh[r].gen + 1]
        /\ refresh' = [refresh EXCEPT ![r].pc = "granted"]
    BY <1>3 DEF VendorAnswers
  <2>2. newest' \in [Grants -> 0 .. MaxGen]
    <3>1. refresh[r].gen + 1 \in 0 .. MaxGen
      BY <1>2, OAuthAssumption
    <3>2. newest \in [Grants -> 0 .. MaxGen]
      BY DEF OAuthTypeOK
    <3> QED
      BY <2>1, <3>1, <3>2
  <2> QED
    BY <1>1, <1>2, <1>3, <2>1, <2>2 DEF OAuthTypeOK, Flights
<1>4. CASE newest[refresh[r].grant] # refresh[r].gen
  <2>1. newest' = newest /\ refresh' = [refresh EXCEPT ![r].pc = "refused"]
    BY <1>4 DEF VendorAnswers
  <2> QED
    BY <1>1, <2>1 DEF OAuthTypeOK, Flights
<1> QED
  BY <1>3, <1>4

(* What is stored when the tokens of an account are cleared.                      *)
LEMMA Cleared ==
    ASSUME OAuthTypeOK, NEW a \in Accounts, ClearTokens(a)
    PROVE  /\ bundle'[a].grant = 0
           /\ \A b \in Accounts \ {a} : bundle'[b] = bundle[b]
           /\ overtaken \subseteq overtaken' /\ overtaken' \subseteq Accounts
           /\ login.account = a => a \in overtaken'
           /\ \A r \in Refreshes : refresh[r].account = a => a \in overtaken'
           /\ bundle' \in [Accounts -> Bundles]
<1>1. SignedOut \in Bundles
  BY OAuthAssumption DEF SignedOut, Bundles
<1> QED
  BY <1>1 DEF OAuthTypeOK, ClearTokens, SignedOut, Refreshing, Bundles

(* What an answer that arrives stores.                                            *)
LEMMA Stored ==
    ASSUME OAuthTypeOK, NEW a \in Accounts, NEW g \in Grants, NEW n \in 1 .. MaxGen,
           bundle' = [bundle EXCEPT ![a] = [grant |-> g, gen |-> n, due |-> "no"]]
    PROVE  /\ bundle'[a].grant = g /\ bundle'[a].gen = n
           /\ \A b \in Accounts \ {a} : bundle'[b] = bundle[b]
           /\ bundle' \in [Accounts -> Bundles]
  BY OAuthAssumption DEF OAuthTypeOK, Grants, Bundles

(* Time changes no token.                                                         *)
LEMMA Aged ==
    ASSUME OAuthTypeOK, NEW a \in Accounts, Age(a)
    PROVE  /\ \A b \in Accounts : bundle'[b].grant = bundle[b].grant /\ bundle'[b].gen = bundle[b].gen
           /\ bundle' \in [Accounts -> Bundles]
  BY DEF OAuthTypeOK, Age, Bundles

(* A login that goes on, gets its sign-in or ends is one still.                  *)
LEMMA LoginMoves ==
    ASSUME OAuthTypeOK
    PROVE  /\ NoLogin \in Logins
           /\ [login EXCEPT !.pc = "browse"] \in Logins
           /\ [login EXCEPT !.pc = "callback"] \in Logins
           /\ \A g \in Grants : [login EXCEPT !.pc = "exchange", !.grant = g] \in Logins
<1>1. login \in Logins
  BY DEF OAuthTypeOK, Logins
<1>2. NoLogin \in Logins
  BY OAuthAssumption DEF NoLogin, Logins
<1>3. ASSUME NEW g \in Grants PROVE [login EXCEPT !.pc = "exchange", !.grant = g] \in Logins
  <2>1. g \in 0 .. MaxGrants
    BY OAuthAssumption DEF Grants
  <2> QED
    BY <1>1, <2>1 DEF Logins
<1>4. [login EXCEPT !.pc = "browse"] \in Logins /\ [login EXCEPT !.pc = "callback"] \in Logins
  BY <1>1 DEF Logins
<1> QED
  BY <1>2, <1>3, <1>4

(* Every step keeps the types.                                                 *)
LEMMA OAuthStepTypeOK == OAuthIInv /\ [OAuthNext]_oauthVars => OAuthTypeOK'
<1> SUFFICES ASSUME OAuthIInv, [OAuthNext]_oauthVars PROVE OAuthTypeOK'
  OBVIOUS
<1> USE OAuthAssumption DEF OAuthIInv, OAuthTypeOK
<1>1. ASSUME NEW a \in Accounts, StartLogin(a) PROVE OAuthTypeOK'
  BY <1>1 DEF StartLogin
<1>2. ASSUME NEW a \in Accounts, Disconnect(a) PROVE OAuthTypeOK'
  BY <1>2, Cleared DEF Disconnect, Bundles
<1>3. ASSUME NEW a \in Accounts, RemoveProvider(a) PROVE OAuthTypeOK'
  BY <1>3, Cleared DEF RemoveProvider, Bundles
<1>4. ASSUME NEW a \in Accounts, Age(a) PROVE OAuthTypeOK'
  BY <1>4, Aged DEF Age, Bundles
<1>5. CASE Listening
  BY <1>5, LoginMoves DEF Listening, Logins
<1>6. CASE BrowserOpened
  BY <1>6, LoginMoves DEF BrowserOpened, LoginOver, Logins
<1>7. ASSUME NEW g \in Grants, CallbackArrives(g) PROVE OAuthTypeOK'
  <2>1. newest' \in [Grants -> 0 .. MaxGen]
    BY <1>7 DEF CallbackArrives
  <2>2. login' \in Logins
    BY <1>7, LoginMoves DEF CallbackArrives
  <2> QED
    BY <1>7, <2>1, <2>2 DEF CallbackArrives, Logins
<1>8. CASE CallbackFails \/ CallbackTimeout
  BY <1>8, LoginMoves DEF CallbackFails, CallbackTimeout, LoginOver, Logins
<1>9. CASE Exchanged
  <2>1. login.account \in Accounts /\ login.grant \in Grants
    BY <1>9 DEF Exchanged, LoginHeld, Tokens, GrantsOwned
  <2>2. bundle' \in [Accounts -> Bundles]
    BY <1>9, <2>1, Stored DEF Exchanged, Bundles
  <2> QED
    BY <1>9, <2>2, LoginMoves DEF Exchanged, LoginOver, Logins, Bundles
<1>10. ASSUME NEW r \in Refreshes, NEW a \in Accounts, ManagerRefreshes(r, a) PROVE OAuthTypeOK'
  BY <1>10, RefreshSent DEF ManagerRefreshes, Flights
<1>11. ASSUME NEW r \in Refreshes, NEW a \in Accounts, SessionRenews(r, a) PROVE OAuthTypeOK'
  BY <1>11, RefreshSent DEF SessionRenews, Flights
<1>12. ASSUME NEW r \in Refreshes, VendorAnswers(r) PROVE OAuthTypeOK'
  BY <1>12, Answered DEF VendorAnswers, Tokens, Flights
<1>13. ASSUME NEW r \in Refreshes, Refreshed(r) PROVE OAuthTypeOK'
  <2>1. refresh[r].account \in Accounts /\ refresh[r].grant \in Grants /\ refresh[r].gen + 1 \in 1 .. MaxGen
    BY <1>13 DEF Refreshed, RefreshesStarted, Tokens, TokensGiven, InFlight
  <2>2. bundle' \in [Accounts -> Bundles]
    BY <1>13, <2>1, Stored DEF Refreshed
  <2> QED
    BY <1>13, <2>2, RefreshEnded DEF Refreshed, Bundles, Flights
<1>14. ASSUME NEW r \in Refreshes, RefreshFails(r) PROVE OAuthTypeOK'
  <2>1. refresh[r].grant \in Grants
    BY <1>14 DEF RefreshFails, RefreshesStarted, InFlight
  <2> QED
    BY <1>14, <2>1, RefreshEnded DEF RefreshFails, Flights
<1>15. CASE UNCHANGED oauthVars
  BY <1>15 DEF oauthVars
<1> QED
  BY <1>1, <1>2, <1>3, <1>4, <1>5, <1>6, <1>7, <1>8, <1>9, <1>10, <1>11, <1>12, <1>13, <1>14, <1>15 DEF OAuthNext, LoginStep

(* ... one login at a time, and a bundle behind each refresh ...               *)
LEMMA StepHeld == OAuthIInv /\ [OAuthNext]_oauthVars => (LoginHeld /\ RefreshesStarted)'
<1> SUFFICES ASSUME OAuthIInv, [OAuthNext]_oauthVars PROVE (LoginHeld /\ RefreshesStarted)'
  OBVIOUS
<1> DEFINE Held == LoginHeld /\ RefreshesStarted
<1> USE OAuthAssumption DEF OAuthIInv, LoginHeld, RefreshesStarted, InFlight
<1>1. ASSUME NEW a \in Accounts, StartLogin(a) PROVE Held'
  BY <1>1 DEF StartLogin, OAuthTypeOK
<1>2. ASSUME NEW a \in Accounts, Disconnect(a) PROVE Held'
  BY <1>2 DEF Disconnect
<1>3. ASSUME NEW a \in Accounts, RemoveProvider(a) PROVE Held'
  BY <1>3 DEF RemoveProvider
<1>4. ASSUME NEW a \in Accounts, Age(a) PROVE Held'
  BY <1>4 DEF Age
<1>5. CASE Listening
  BY <1>5 DEF Listening, NoLogin, OAuthTypeOK
<1>6. CASE BrowserOpened
  BY <1>6 DEF BrowserOpened, LoginOver, NoLogin, OAuthTypeOK
<1>7. ASSUME NEW g \in Grants, CallbackArrives(g) PROVE Held'
  BY <1>7 DEF CallbackArrives, OAuthTypeOK
<1>8. CASE CallbackFails \/ CallbackTimeout
  BY <1>8 DEF CallbackFails, CallbackTimeout, LoginOver, NoLogin
<1>9. CASE Exchanged
  BY <1>9 DEF Exchanged, LoginOver, NoLogin
<1>10. ASSUME NEW r \in Refreshes, NEW a \in Accounts, ManagerRefreshes(r, a) PROVE Held'
  <2>1. bundle[a].grant \in Grants
    BY <1>10 DEF ManagerRefreshes, Connected, OAuthTypeOK, Grants
  <2> QED
    BY <1>10, <2>1, RefreshSent DEF ManagerRefreshes
<1>11. ASSUME NEW r \in Refreshes, NEW a \in Accounts, SessionRenews(r, a) PROVE Held'
  <2>1. bundle[a].grant \in Grants
    BY <1>11 DEF SessionRenews, Connected, OAuthTypeOK, Grants
  <2> QED
    BY <1>11, <2>1, RefreshSent DEF SessionRenews
<1>12. ASSUME NEW r \in Refreshes, VendorAnswers(r) PROVE Held'
  BY <1>12, Answered DEF VendorAnswers, Tokens
<1>13. ASSUME NEW r \in Refreshes, Refreshed(r) PROVE Held'
  BY <1>13, RefreshEnded DEF Refreshed, NoRefresh
<1>14. ASSUME NEW r \in Refreshes, RefreshFails(r) PROVE Held'
  BY <1>14, RefreshEnded DEF RefreshFails, NoRefresh
<1>15. CASE UNCHANGED oauthVars
  BY <1>15 DEF oauthVars
<1> QED
  BY <1>1, <1>2, <1>3, <1>4, <1>5, <1>6, <1>7, <1>8, <1>9, <1>10, <1>11, <1>12, <1>13, <1>14, <1>15 DEF OAuthNext, LoginStep

(* ... a removed account is signed in by nothing new ...                       *)
LEMMA StepRemoved == OAuthIInv /\ [OAuthNext]_oauthVars => RemovedWasOvertaken'
<1> SUFFICES ASSUME OAuthIInv, [OAuthNext]_oauthVars PROVE RemovedWasOvertaken'
  OBVIOUS
<1> USE OAuthAssumption DEF OAuthIInv, RemovedWasOvertaken, Connected
<1>1. ASSUME NEW a \in Accounts, StartLogin(a) PROVE RemovedWasOvertaken'
  BY <1>1 DEF StartLogin
<1>2. ASSUME NEW a \in Accounts, Disconnect(a) PROVE RemovedWasOvertaken'
  BY <1>2, Cleared DEF Disconnect
<1>3. ASSUME NEW a \in Accounts, RemoveProvider(a) PROVE RemovedWasOvertaken'
  BY <1>3, Cleared DEF RemoveProvider
<1>4. ASSUME NEW a \in Accounts, Age(a) PROVE RemovedWasOvertaken'
  BY <1>4, Aged DEF Age
<1>5. CASE Listening
  BY <1>5 DEF Listening, NoLogin, OAuthTypeOK
<1>6. CASE BrowserOpened
  BY <1>6 DEF BrowserOpened, LoginOver, NoLogin, OAuthTypeOK
<1>7. ASSUME NEW g \in Grants, CallbackArrives(g) PROVE RemovedWasOvertaken'
  BY <1>7 DEF CallbackArrives, OAuthTypeOK
<1>8. CASE CallbackFails \/ CallbackTimeout
  BY <1>8 DEF CallbackFails, CallbackTimeout, LoginOver, NoLogin
<1>9. CASE Exchanged
  <2>1. \A b \in Accounts \ {login.account} : bundle'[b] = bundle[b]
    BY <1>9 DEF Exchanged, OAuthTypeOK
  <2> QED
    BY <1>9, <2>1 DEF Exchanged, LoginOver, NoLogin
<1>10. ASSUME NEW r \in Refreshes, NEW a \in Accounts, ManagerRefreshes(r, a) PROVE RemovedWasOvertaken'
  BY <1>10, RefreshSent DEF ManagerRefreshes
<1>11. ASSUME NEW r \in Refreshes, NEW a \in Accounts, SessionRenews(r, a) PROVE RemovedWasOvertaken'
  BY <1>11, RefreshSent DEF SessionRenews
<1>12. ASSUME NEW r \in Refreshes, VendorAnswers(r) PROVE RemovedWasOvertaken'
  BY <1>12, Answered DEF VendorAnswers, Tokens
<1>13. ASSUME NEW r \in Refreshes, Refreshed(r) PROVE RemovedWasOvertaken'
  <2>1. \A b \in Accounts \ {refresh[r].account} : bundle'[b] = bundle[b]
    BY <1>13 DEF Refreshed, OAuthTypeOK
  <2> QED
    BY <1>13, <2>1, RefreshEnded DEF Refreshed, NoRefresh
<1>14. ASSUME NEW r \in Refreshes, RefreshFails(r) PROVE RemovedWasOvertaken'
  BY <1>14, RefreshEnded DEF RefreshFails, NoRefresh
<1>15. CASE UNCHANGED oauthVars
  BY <1>15 DEF oauthVars
<1> QED
  BY <1>1, <1>2, <1>3, <1>4, <1>5, <1>6, <1>7, <1>8, <1>9, <1>10, <1>11, <1>12, <1>13, <1>14, <1>15 DEF OAuthNext, LoginStep

(* What each of the steps that touch a token leaves of them.                      *)
LEMMA TokensAfterClear ==
    ASSUME OAuthIInv, NEW a \in Accounts, ClearTokens(a), UNCHANGED <<newest, login, refresh, unanswered>>
    PROVE  Tokens'
<1> USE DEF OAuthIInv, Tokens, Connected, InFlight
<1>1. /\ bundle'[a].grant = 0 /\ \A b \in Accounts \ {a} : bundle'[b] = bundle[b]
      /\ \A r \in Refreshes : InFlight(r) => refresh[r].grant # 0
      /\ login.pc = "exchange" => login.grant # 0
  BY Cleared, OAuthAssumption DEF RefreshesStarted, GrantsOwned, Grants
<1>2. GrantsOwned'
  BY <1>1 DEF GrantsOwned
<1>3. TokensGiven'
  BY <1>1 DEF TokensGiven
<1>4. AnswersAreNewest'
  BY <1>1 DEF AnswersAreNewest
<1>5. StoredUnlessAnswering'
  BY <1>1 DEF StoredUnlessAnswering
<1> QED
  BY <1>2, <1>3, <1>4, <1>5

LEMMA TokensAfterSend ==
    ASSUME OAuthIInv, NEW r \in Refreshes, NEW a \in Accounts, NEW by \in {"manager", "renew"},
           Connected(a), Send(r, a, by), UNCHANGED <<bundle, newest, login, unanswered>>
    PROVE  Tokens'
<1> USE DEF OAuthIInv, Tokens, InFlight
<1>1. /\ refresh[r].pc = "none" /\ refresh'[r].pc = "sent" /\ refresh'[r].account = a
      /\ refresh'[r].grant = bundle[a].grant /\ refresh'[r].gen = bundle[a].gen
      /\ bundle[a].gen < MaxGen
      /\ \A s \in Refreshes \ {r} : refresh'[s] = refresh[s]
  BY RefreshSent
<1>2. GrantsOwned'
  BY <1>1 DEF GrantsOwned, Connected
<1>3. TokensGiven'
  BY <1>1 DEF TokensGiven, Connected
<1>4. AnswersAreNewest'
  BY <1>1 DEF AnswersAreNewest
<1>5. StoredUnlessAnswering'
  BY <1>1 DEF StoredUnlessAnswering, Connected
<1> QED
  BY <1>2, <1>3, <1>4, <1>5

LEMMA TokensAfterAnswer ==
    ASSUME OAuthIInv, NEW r \in Refreshes, VendorAnswers(r)
    PROVE  Tokens'
<1> USE DEF OAuthIInv, Tokens, InFlight
<1>1. UNCHANGED <<bundle, login, unanswered>>
  BY DEF VendorAnswers
<1>2. /\ refresh[r].pc = "sent" /\ refresh[r].grant \in Grants
      /\ refresh'[r].account = refresh[r].account
      /\ refresh'[r].grant = refresh[r].grant /\ refresh'[r].gen = refresh[r].gen
      /\ \A s \in Refreshes \ {r} : refresh'[s] = refresh[s]
  BY Answered
<1>3. CASE refresh'[r].pc = "refused" /\ newest' = newest
  <2>1. GrantsOwned'
    BY <1>1, <1>2, <1>3 DEF GrantsOwned, Connected
  <2>2. TokensGiven'
    BY <1>1, <1>2, <1>3 DEF TokensGiven, Connected
  <2>3. AnswersAreNewest'
    BY <1>1, <1>2, <1>3 DEF AnswersAreNewest
  <2>4. StoredUnlessAnswering'
    BY <1>1, <1>2, <1>3 DEF StoredUnlessAnswering, Connected
  <2> QED
    BY <2>1, <2>2, <2>3, <2>4
<1>4. CASE /\ refresh'[r].pc = "granted"
           /\ newest[refresh[r].grant] = refresh[r].gen
           /\ newest'[refresh[r].grant] = refresh[r].gen + 1
           /\ \A g \in Grants \ {refresh[r].grant} : newest'[g] = newest[g]
  <2>1. /\ refresh[r].gen \in Nat
        /\ \A a \in Accounts : bundle[a].gen \in Nat /\ (Connected(a) <=> bundle[a].grant \in Grants)
        /\ \A s \in Refreshes : refresh[s].gen \in Nat
        /\ \A s \in Refreshes : InFlight(s) => refresh[s].grant \in Grants
    BY OAuthAssumption DEF OAuthTypeOK, Connected, Grants, RefreshesStarted
  <2>2. \A s \in Refreshes : refresh[s].pc = "granted" => refresh[s].grant # refresh[r].grant
    BY <1>2, <1>4, <2>1 DEF AnswersAreNewest
  <2>3. GrantsOwned'
    BY <1>1, <1>2, <1>4 DEF GrantsOwned, Connected
  <2>4. TokensGiven'
    BY <1>1, <1>2, <1>4, <2>1 DEF TokensGiven, Connected
  <2>5. AnswersAreNewest'
    BY <1>1, <1>2, <1>4, <2>1, <2>2 DEF AnswersAreNewest, TokensGiven, Connected
  <2>6. StoredUnlessAnswering'
    BY <1>1, <1>2, <1>4, <2>1 DEF StoredUnlessAnswering, Connected
  <2> QED
    BY <2>3, <2>4, <2>5, <2>6
<1> QED
  BY <1>3, <1>4, Answered

LEMMA TokensAfterRefresh ==
    ASSUME OAuthIInv, NEW r \in Refreshes, Refreshed(r)
    PROVE  Tokens'
<1> USE DEF OAuthIInv, Tokens, InFlight
<1> DEFINE a == refresh[r].account
<1>1. UNCHANGED <<newest, login, unanswered>> /\ refresh[r].pc = "granted"
  BY DEF Refreshed
<1>2. /\ refresh'[r] = NoRefresh
      /\ \A s \in Refreshes \ {r} : refresh'[s] = refresh[s]
  BY RefreshEnded DEF Refreshed
<1>3. a \in Accounts /\ refresh[r].grant \in Grants /\ refresh[r].gen + 1 \in 1 .. MaxGen
  BY <1>1, OAuthAssumption DEF RefreshesStarted, TokensGiven, OAuthTypeOK
<1>4. /\ bundle'[a].grant = refresh[r].grant /\ bundle'[a].gen = refresh[r].gen + 1
      /\ \A b \in Accounts \ {a} : bundle'[b] = bundle[b]
  BY <1>3, Stored DEF Refreshed
<1>5. newest[refresh[r].grant] = refresh[r].gen + 1
  BY <1>1 DEF AnswersAreNewest
<1>6. \A b \in Accounts \ {a} : bundle[b].grant # refresh[r].grant
  BY <1>1 DEF GrantsOwned
<1>7. \A s \in Refreshes \ {r} : refresh[s].pc = "granted" => refresh[s].grant # refresh[r].grant
  BY <1>1 DEF AnswersAreNewest
<1> HIDE DEF a
<1>8. GrantsOwned'
  BY <1>1, <1>2, <1>3, <1>4, <1>6 DEF GrantsOwned, Connected, NoRefresh, a
<1>9. TokensGiven'
  BY <1>1, <1>2, <1>3, <1>4, <1>5 DEF TokensGiven, Connected, NoRefresh
<1>10. AnswersAreNewest'
  BY <1>1, <1>2, <1>3, <1>4, <1>7 DEF AnswersAreNewest, NoRefresh
<1>11. StoredUnlessAnswering'
  BY <1>1, <1>2, <1>3, <1>4, <1>5, <1>6 DEF StoredUnlessAnswering, Connected, NoRefresh
<1> QED
  BY <1>8, <1>9, <1>10, <1>11

(* ... and the tokens are those the vendor gave.                               *)
LEMMA StepTokens == OAuthIInv /\ [OAuthNext]_oauthVars => Tokens'
<1> SUFFICES ASSUME OAuthIInv, [OAuthNext]_oauthVars PROVE Tokens'
  OBVIOUS
<1> USE OAuthAssumption
    DEF OAuthIInv, Tokens, GrantsOwned, TokensGiven, AnswersAreNewest, StoredUnlessAnswering, InFlight, Connected
<1>1. ASSUME NEW a \in Accounts, StartLogin(a) PROVE Tokens'
  BY <1>1 DEF StartLogin
<1>2. ASSUME NEW a \in Accounts, Disconnect(a) PROVE Tokens'
  BY <1>2, TokensAfterClear DEF Disconnect
<1>3. ASSUME NEW a \in Accounts, RemoveProvider(a) PROVE Tokens'
  BY <1>3, TokensAfterClear DEF RemoveProvider
<1>4. ASSUME NEW a \in Accounts, Age(a) PROVE Tokens'
  BY <1>4, Aged DEF Age
<1>5. CASE Listening
  BY <1>5 DEF Listening, NoLogin, OAuthTypeOK
<1>6. CASE BrowserOpened
  BY <1>6 DEF BrowserOpened, LoginOver, NoLogin, OAuthTypeOK
<1>7. ASSUME NEW g \in Grants, CallbackArrives(g) PROVE Tokens'
  <2>1. /\ login'.pc = "exchange" /\ login'.grant = g
        /\ newest[g] = 0 /\ newest'[g] = 1
        /\ \A h \in Grants \ {g} : newest'[h] = newest[h]
    BY <1>7 DEF CallbackArrives, OAuthTypeOK, Issued
  <2>2. \A a \in Accounts : bundle[a].grant # g
    BY <2>1 DEF OAuthTypeOK, Grants
  <2>3. \A r \in Refreshes : InFlight(r) => refresh[r].grant # g
    BY <2>1 DEF OAuthTypeOK
  <2> QED
    BY <1>7, <2>1, <2>2, <2>3 DEF CallbackArrives, OAuthTypeOK, RefreshesStarted, Grants
<1>8. CASE CallbackFails \/ CallbackTimeout
  BY <1>8 DEF CallbackFails, CallbackTimeout, LoginOver, NoLogin
<1>9. CASE Exchanged
  <2>1. CASE UNCHANGED bundle
    BY <1>9, <2>1 DEF Exchanged, LoginOver, NoLogin
  <2>2. CASE bundle' = [bundle EXCEPT ![login.account] = [grant |-> login.grant, gen |-> 1, due |-> "no"]]
    <3>1. login.account \in Accounts /\ login.grant \in Grants /\ 1 \in 1 .. MaxGen
      BY <1>9 DEF Exchanged, LoginHeld
    <3> QED
      BY <1>9, <2>2, <3>1, Stored DEF Exchanged, LoginOver, NoLogin
  <2> QED
    BY <1>9, <2>1, <2>2 DEF Exchanged
<1>10. ASSUME NEW r \in Refreshes, NEW a \in Accounts, ManagerRefreshes(r, a) PROVE Tokens'
  BY <1>10, TokensAfterSend DEF ManagerRefreshes
<1>11. ASSUME NEW r \in Refreshes, NEW a \in Accounts, SessionRenews(r, a) PROVE Tokens'
  BY <1>11, TokensAfterSend DEF SessionRenews
<1>12. ASSUME NEW r \in Refreshes, VendorAnswers(r) PROVE Tokens'
  BY <1>12, TokensAfterAnswer
<1>13. ASSUME NEW r \in Refreshes, Refreshed(r) PROVE Tokens'
  BY <1>13, TokensAfterRefresh
<1>14. ASSUME NEW r \in Refreshes, RefreshFails(r) PROVE Tokens'
  BY <1>14, RefreshEnded DEF RefreshFails, NoRefresh
<1>15. CASE UNCHANGED oauthVars
  BY <1>15 DEF oauthVars
<1> QED
  BY <1>1, <1>2, <1>3, <1>4, <1>5, <1>6, <1>7, <1>8, <1>9, <1>10, <1>11, <1>12, <1>13, <1>14, <1>15 DEF OAuthNext, LoginStep

LEMMA OAuthInvariance == OAuthSpec => []OAuthIInv
<1>1. OAuthIInv /\ [OAuthNext]_oauthVars => OAuthIInv'
  BY OAuthStepTypeOK, StepHeld, StepTokens, StepRemoved DEF OAuthIInv
<1> QED
  BY <1>1, OAuthInitIInv, PTL DEF OAuthSpec

-----------------------------------------------------------------------------
(* The sessions, the login under way and the refreshes in flight keep their types *)
(* (oauthManager.ts:83-200).                                                      *)
THEOREM OAuthTypeCorrect == OAuthSpec => []OAuthTypeOK
<1>1. OAuthIInv => OAuthTypeOK
  BY DEF OAuthIInv
<1> QED
  BY <1>1, OAuthInvariance, PTL

(* Whatever logins, refreshes, sign-outs and removals cross: no listener outlives *)
(* its login, the stored refresh token is the one the vendor takes next unless an *)
(* answer is to come or was lost, and a removed account's tokens are gone unless  *)
(* something of it was under way (oauthManager.ts:83).                            *)
THEOREM SessionsStaySound == OAuthSpec => []SessionsSound
<1>1. OAuthIInv => ListenerServesLogin
  BY DEF OAuthIInv, OAuthTypeOK, LoginHeld, ListenerServesLogin
<1>2. OAuthIInv => StoredTokenIsNewest
  <2> SUFFICES ASSUME OAuthIInv, NEW a \in Accounts, Connected(a), bundle[a].grant \notin unanswered \cup Outlived(a)
               PROVE  newest[bundle[a].grant] = bundle[a].gen
    BY DEF StoredTokenIsNewest
  <2>1. \A s \in Refreshes : refresh[s].pc = "granted" => refresh[s].grant # bundle[a].grant
    BY DEF OAuthIInv, Tokens, GrantsOwned, InFlight, Outlived, Refreshing
  <2> QED
    BY <2>1 DEF OAuthIInv, Tokens, StoredUnlessAnswering
<1>3. OAuthIInv => RemovedLeavesNoTokens
  BY DEF OAuthIInv, RemovedWasOvertaken, RemovedLeavesNoTokens
<1>4. OAuthIInv => SessionsSound
  BY <1>1, <1>2, <1>3 DEF SessionsSound
<1> QED
  BY <1>4, OAuthInvariance, PTL

-----------------------------------------------------------------------------
(* The translation proxy as a server (ProxyServer).                           *)

Bound(r) == rebind[r].pc = "bound"

(* Each listener has one owner: it is the live one, one that leaked, or that of   *)
(* a rebind whose callback is still to come.                                     *)
OwnersListen ==
    /\ live # NoPort => live \in listening /\ live \notin leaked
    /\ leaked \subseteq listening
    /\ \A r \in Rebinds :
        /\ Bound(r) => rebind[r].port \in listening /\ rebind[r].port \notin leaked \cup {live}
        /\ ~Bound(r) => rebind[r] \in [pc : {"none", "bind"}, port : {NoPort}]
    /\ \A r, s \in Rebinds : Bound(r) /\ Bound(s) /\ r # s => rebind[r].port # rebind[s].port

ListenersOwned ==
    phase = "up" => \A p \in listening : p = live \/ p \in leaked \/ \E r \in Rebinds : Bound(r) /\ rebind[r].port = p

(* Nothing of a run is there before it began, and nothing is rebound without a    *)
(* listener.                                                                     *)
NothingBefore ==
    /\ phase \in {"off", "starting"} => live = NoPort /\ listening = {} /\ \A r \in Rebinds : Idle(r)
    /\ phase = "up" /\ live = NoPort => \A r \in Rebinds : Idle(r)

(* What the files say.                                                           *)
FilesNameAServer ==
    phase = "up" =>
        /\ ~mute => written \in ({live} \ {NoPort}) \cup leaked
        /\ live # NoPort /\ ~unsaved => saved = live /\ written = live

(* The inductive invariant.                                                      *)
ServerIInv == ServerTypeOK /\ OwnersListen /\ ListenersOwned /\ NothingBefore /\ FilesNameAServer

-----------------------------------------------------------------------------
LEMMA ServerInitIInv == ServerInit => ServerIInv
<1> SUFFICES ASSUME ServerInit PROVE ServerIInv
  OBVIOUS
<1> USE ServerAssumption DEF ServerInit
<1>1. \A r \in Rebinds : rebind[r] = NoRebind
  OBVIOUS
<1>2. ServerTypeOK
  <2>1. NoRebind \in [pc : {"none", "bind", "bound"}, port : Ports \cup {NoPort}]
    BY DEF NoRebind
  <2>2. rebind \in [Rebinds -> [pc : {"none", "bind", "bound"}, port : Ports \cup {NoPort}]]
    BY <2>1
  <2>3. failures \in 0 .. MaxFailures
    OBVIOUS
  <2> QED
    BY <2>2, <2>3 DEF ServerTypeOK
<1>3. OwnersListen /\ ListenersOwned /\ NothingBefore /\ FilesNameAServer
  BY <1>1 DEF OwnersListen, ListenersOwned, NothingBefore, FilesNameAServer, Bound, Idle, NoRebind
<1> QED
  BY <1>2, <1>3 DEF ServerIInv

(* A failure is counted within its bound.                                        *)
LEMMA FailureCounted ==
    ASSUME ServerTypeOK, Failure
    PROVE  failures' \in 0 .. MaxFailures
  BY ServerAssumption DEF ServerTypeOK, Failure

(* Every step keeps the types.                                                   *)
LEMMA ServerStepTypeOK == ServerIInv /\ [ServerNext]_serverVars => ServerTypeOK'
<1> SUFFICES ASSUME ServerIInv, [ServerNext]_serverVars PROVE ServerTypeOK'
  OBVIOUS
<1> USE ServerAssumption DEF ServerIInv, ServerTypeOK
<1>0. NoRebind \in [pc : {"none", "bind", "bound"}, port : Ports \cup {NoPort}]
  BY DEF NoRebind
<1>1. CASE LaunchApp
  BY <1>1 DEF LaunchApp
<1>2. ASSUME NEW p \in Ports, Started(p) PROVE ServerTypeOK'
  BY <1>2, FailureCounted DEF Started
<1>3. CASE StartFails
  BY <1>3, FailureCounted DEF StartFails
<1>4. ASSUME NEW r \in Rebinds, AskRebind(r) PROVE ServerTypeOK'
  <2>1. rebind' \in [Rebinds -> [pc : {"none", "bind", "bound"}, port : Ports \cup {NoPort}]]
    BY <1>4 DEF AskRebind
  <2> QED
    BY <1>4, <2>1 DEF AskRebind
<1>5. ASSUME NEW r \in Rebinds, RebindFails(r) PROVE ServerTypeOK'
  BY <1>0, <1>5, FailureCounted DEF RebindFails
<1>6. ASSUME NEW r \in Rebinds, Rebound(r) PROVE ServerTypeOK'
  <2>1. Bound(r) /\ rebind[r].port \in Ports
    BY <1>6 DEF Rebound, OwnersListen, Bound
  <2>2. rebind' \in [Rebinds -> [pc : {"none", "bind", "bound"}, port : Ports \cup {NoPort}]]
    BY <1>0, <1>6 DEF Rebound
  <2> QED
    BY <1>6, <2>1, <2>2, FailureCounted DEF Rebound, Previous
<1>7. ASSUME NEW r \in Rebinds, NEW p \in Ports, RebindListens(r, p) PROVE ServerTypeOK'
  BY <1>7 DEF RebindListens
<1>8. CASE StopServer
  BY <1>8 DEF StopServer
<1>9. CASE ProcessEnds
  BY <1>0, <1>9 DEF ProcessEnds
<1>10. CASE UNCHANGED serverVars
  BY <1>10 DEF serverVars
<1> QED
  BY <1>1, <1>2, <1>3, <1>4, <1>5, <1>6, <1>7, <1>8, <1>9, <1>10 DEF ServerNext

(* ... and the rest.                                                             *)
LEMMA ServerStepIInv == ServerIInv /\ [ServerNext]_serverVars => ServerIInv'
<1> SUFFICES ASSUME ServerIInv, [ServerNext]_serverVars PROVE ServerIInv'
  OBVIOUS
<1>0. ServerTypeOK'
  BY ServerStepTypeOK
<1> SUFFICES (OwnersListen /\ ListenersOwned /\ NothingBefore /\ FilesNameAServer)'
  BY <1>0 DEF ServerIInv
<1> USE ServerAssumption
    DEF ServerIInv, ServerTypeOK, OwnersListen, ListenersOwned, NothingBefore, FilesNameAServer, Bound, Idle, NoRebind
<1> DEFINE Goal == (OwnersListen /\ ListenersOwned /\ NothingBefore /\ FilesNameAServer)'
<1>1. CASE LaunchApp
  BY <1>1 DEF LaunchApp
<1>2. ASSUME NEW p \in Ports, Started(p) PROVE Goal
  BY <1>2 DEF Started, Fresh
<1>3. CASE StartFails
  BY <1>3 DEF StartFails
<1>4. ASSUME NEW r \in Rebinds, AskRebind(r) PROVE Goal
  <2>1. rebind'[r] = [pc |-> "bind", port |-> NoPort] /\ \A s \in Rebinds \ {r} : rebind'[s] = rebind[s]
    BY <1>4 DEF AskRebind
  <2> QED
    BY <1>4, <2>1 DEF AskRebind
<1>5. ASSUME NEW r \in Rebinds, RebindFails(r) PROVE Goal
  BY <1>5 DEF RebindFails
<1>6. ASSUME NEW r \in Rebinds, Rebound(r) PROVE Goal
  <2>1. /\ rebind'[r] = NoRebind
        /\ \A s \in Rebinds \ {r} : rebind'[s] = rebind[s]
    BY <1>6 DEF Rebound
  <2>2. rebind[r].port \in listening \ (leaked \cup {live})
    BY <1>6 DEF Rebound
  <2>3. CASE saved' = rebind[r].port /\ unsaved' = FALSE /\ UNCHANGED <<leaked, failures>>
    BY <1>6, <2>1, <2>2, <2>3 DEF Rebound, Previous
  <2>4. CASE Failure /\ unsaved' = TRUE
    BY <1>6, <2>1, <2>2, <2>4 DEF Rebound
  <2> QED
    BY <1>6, <2>3, <2>4 DEF Rebound
<1>7. ASSUME NEW r \in Rebinds, NEW p \in Ports, RebindListens(r, p) PROVE Goal
  <2>1. rebind'[r] = [pc |-> "bound", port |-> p] /\ \A s \in Rebinds \ {r} : rebind'[s] = rebind[s]
    BY <1>7 DEF RebindListens
  <2> QED
    BY <1>7, <2>1 DEF RebindListens, Fresh
<1>8. CASE StopServer
  BY <1>8 DEF StopServer
<1>9. CASE ProcessEnds
  BY <1>9 DEF ProcessEnds
<1>10. CASE UNCHANGED serverVars
  BY <1>10 DEF serverVars
<1> QED
  BY <1>1, <1>2, <1>3, <1>4, <1>5, <1>6, <1>7, <1>8, <1>9, <1>10 DEF ServerNext

LEMMA ServerInvariance == ServerSpec => []ServerIInv
  BY ServerInitIInv, ServerStepIInv, PTL DEF ServerSpec

-----------------------------------------------------------------------------
(* The state of the server and of the moves of its port keeps its types          *)
(* (translationProxy.ts:838-906).                                                *)
THEOREM ServerTypeCorrect == ServerSpec => []ServerTypeOK
<1>1. ServerIInv => ServerTypeOK
  BY DEF ServerIInv
<1> QED
  BY <1>1, ServerInvariance, PTL

(* The address the agents were given answers while AiOpt is up, whatever rebinds  *)
(* overlap, fail or cannot be saved, unless the start itself failed              *)
(* (translationProxy.ts:882).                                                    *)
THEOREM AgentsAreServed == ServerSpec => []AgentsReachProxy
<1>1. ServerIInv => AgentsReachProxy
  BY DEF ServerIInv, OwnersListen, FilesNameAServer, AgentsReachProxy
<1> QED
  BY <1>1, ServerInvariance, PTL

(* No second server is left listening by rebinds that overlap, nor are the files  *)
(* left naming another port, but by a save that threw.                           *)
THEOREM ServerIsOne == ServerSpec => []OneServer
<1>1. ServerIInv => OneServer
  <2> SUFFICES ASSUME ServerIInv, phase = "up", \A r \in Rebinds : Idle(r)
               PROVE  /\ listening = ({live} \ {NoPort}) \cup leaked
                      /\ live # NoPort /\ ~unsaved => saved = live /\ written = live
    BY DEF OneServer
  <2>1. \A r \in Rebinds : ~Bound(r)
    BY DEF Idle, Bound
  <2>2. ASSUME NEW p \in listening PROVE p \in ({live} \ {NoPort}) \cup leaked
    BY <2>1, ServerAssumption DEF ServerIInv, ServerTypeOK, ListenersOwned
  <2>3. ({live} \ {NoPort}) \cup leaked \subseteq listening
    BY DEF ServerIInv, OwnersListen
  <2> QED
    BY <2>2, <2>3 DEF ServerIInv, FilesNameAServer
<1> QED
  BY <1>1, ServerInvariance, PTL

-----------------------------------------------------------------------------
(* The log of usage events (UsageLog).                                        *)

(* Half a line at the end will cost the next event, too.                          *)
Owed == IF tail THEN 1 ELSE 0

(* A failure costs the event it hit and the one appended to what it left.         *)
LossBounded == IsFiniteSet(lost) /\ Cardinality(lost) + Owed <= 2 * slips

(* The file holds recorded events, and all of those not lost and not left out.    *)
FileComplete == lines \subseteq used /\ used \ (expired \cup cleared \cup lost \cup dropped) \subseteq lines

(* Memory is at most what was recorded, and at least what the file has to count.  *)
MemoryFollows == opened => lines \ (expired \cup cleared \cup unread) \subseteq mem /\ mem \subseteq lines \cup lost

(* Only a store in use has a file that it did not read, and only a read that failed is *)
(* behind it.                                                                     *)
ReadsFail ==
    /\ unread # {} => opened
    /\ unread \cup dropped # {} => slips > 0

(* The inductive invariant.                                                       *)
UsageIInv == UsageTypeOK /\ LossBounded /\ FileComplete /\ MemoryFollows /\ ReadsFail

-----------------------------------------------------------------------------
LEMMA UsageInitIInv == UsageInit => UsageIInv
<1> SUFFICES ASSUME UsageInit PROVE UsageIInv
  OBVIOUS
<1>1. LossBounded
  BY FS_EmptySet DEF UsageInit, LossBounded, Owed
<1>2. 0 \in 0 .. MaxSlips
  BY UsageAssumption
<1>3. UsageTypeOK
  BY <1>2 DEF UsageInit, UsageTypeOK
<1>4. FileComplete /\ MemoryFollows /\ ReadsFail
  BY DEF UsageInit, FileComplete, MemoryFollows, ReadsFail
<1> QED
  BY <1>1, <1>3, <1>4 DEF UsageIInv

(* What a rewrite keeps is no longer lost, and it loses none.                    *)
LEMMA RewriteLosesNothing ==
    ASSUME UsageTypeOK, LossBounded, NEW events, Rewritten(events), slips' \in {slips, slips + 1}
    PROVE  LossBounded'
<1>1. lost' \subseteq lost /\ ~tail'
  BY DEF Rewritten
<1>2. IsFiniteSet(lost') /\ Cardinality(lost') <= Cardinality(lost)
  BY <1>1, FS_Subset DEF LossBounded
<1>3. Cardinality(lost) \in Nat /\ Cardinality(lost') \in Nat /\ slips \in Nat
  BY <1>2, FS_CardinalityType DEF LossBounded, UsageTypeOK
<1> QED
  BY <1>1, <1>2, <1>3 DEF LossBounded, Owed

(* One more event lost is at most one more to count.                            *)
LEMMA OneMoreMissed ==
    ASSUME IsFiniteSet(lost), NEW e
    PROVE  /\ IsFiniteSet(lost \cup {e})
           /\ Cardinality(lost) \in Nat /\ Cardinality(lost \cup {e}) \in Nat
           /\ Cardinality(lost \cup {e}) <= Cardinality(lost) + 1
<1>1. /\ IsFiniteSet(lost \cup {e})
      /\ Cardinality(lost \cup {e}) = IF e \in lost THEN Cardinality(lost) ELSE Cardinality(lost) + 1
  BY FS_AddElement
<1>2. Cardinality(lost) \in Nat
  BY FS_CardinalityType
<1> QED
  BY <1>1, <1>2

(* An append pays what half a line owed, and owes nothing itself.                 *)
LEMMA AppendPays ==
    ASSUME UsageTypeOK, LossBounded, NEW e, Appended(e), slips' \in {slips, slips + 1}
    PROVE  LossBounded'
<1>1. lost' = (IF tail THEN lost \cup {e} ELSE lost) /\ ~tail'
  BY DEF Appended
<1>2. /\ IsFiniteSet(lost \cup {e})
      /\ Cardinality(lost) \in Nat /\ Cardinality(lost \cup {e}) \in Nat
      /\ Cardinality(lost \cup {e}) <= Cardinality(lost) + 1
  <2>1. IsFiniteSet(lost)
    BY DEF LossBounded
  <2> QED
    BY <2>1, OneMoreMissed
<1>3. slips \in Nat
  BY UsageAssumption DEF UsageTypeOK
<1> QED
  BY <1>1, <1>2, <1>3 DEF LossBounded, Owed

(* A failure pays for its event and for the next.                                 *)
LEMMA FailurePays ==
    ASSUME UsageTypeOK, LossBounded, NEW e, Slip, lost' = lost \cup {e}, tail' \in {tail, TRUE}
    PROVE  LossBounded'
<1>1. /\ IsFiniteSet(lost \cup {e})
      /\ Cardinality(lost) \in Nat /\ Cardinality(lost \cup {e}) \in Nat
      /\ Cardinality(lost \cup {e}) <= Cardinality(lost) + 1
  <2>1. IsFiniteSet(lost)
    BY DEF LossBounded
  <2> QED
    BY <2>1, OneMoreMissed
<1>2. slips \in Nat /\ slips' = slips + 1
  BY UsageAssumption DEF UsageTypeOK, Slip
<1>3. Cardinality(lost \cup {e}) + 1 <= 2 * (slips + 1)
  BY <1>1, <1>2 DEF LossBounded, Owed
<1> QED
  BY <1>1, <1>2, <1>3 DEF LossBounded, Owed

(* A failure that only counts leaves the loss bounded.                            *)
LEMMA FileKeptLosesNothing ==
    ASSUME UsageTypeOK, LossBounded, UNCHANGED <<lost, tail>>, slips' \in {slips, slips + 1}
    PROVE  LossBounded'
<1>1. Cardinality(lost) \in Nat /\ slips \in Nat
  BY FS_CardinalityType DEF LossBounded, UsageTypeOK
<1> QED
  BY <1>1 DEF LossBounded, Owed

-----------------------------------------------------------------------------
LEMMA UsageStepIInv == UsageIInv /\ [UsageNext]_usageVars => UsageIInv'
<1> SUFFICES ASSUME UsageIInv, [UsageNext]_usageVars PROVE UsageIInv'
  OBVIOUS
<1> USE UsageAssumption DEF UsageIInv, UsageTypeOK, FileComplete, MemoryFollows, ReadsFail
<1>0. slips \in Nat
  OBVIOUS
<1>1. CASE OpenStore
  <2>0. ~opened /\ unread = {} /\ UNCHANGED <<expired, used, cleared>>
    BY <1>1 DEF OpenStore
  <2>1. CASE Load \ expired = lines /\ FileKept /\ UNCHANGED <<unread, slips>> /\ opened' = TRUE /\ mem' = Load \ expired
    <3>1. LossBounded'
      BY <2>1, FileKeptLosesNothing DEF FileKept
    <3> QED
      BY <2>0, <2>1, <3>1 DEF FileKept, Load
  <2>2. CASE Rewritten(Load \ expired) /\ UNCHANGED slips /\ opened' = TRUE /\ mem' = Load \ expired
    <3>1. LossBounded'
      BY <2>2, RewriteLosesNothing
    <3>2. dropped' = dropped
      BY <2>0, <2>2 DEF Rewritten
    <3> QED
      BY <2>0, <2>2, <3>1, <3>2 DEF Rewritten, Load
  <2>3. CASE Slip /\ FileKept /\ UNCHANGED <<opened, mem, unread>>
    <3>1. LossBounded' /\ slips' \in 0 .. MaxSlips /\ slips' > 0
      BY <1>0, <2>3, FileKeptLosesNothing DEF FileKept, Slip
    <3> QED
      BY <2>0, <2>3, <3>1 DEF FileKept
  <2>4. CASE Slip /\ FileKept /\ opened' = TRUE /\ mem' = {} /\ unread' = lines
    <3>1. LossBounded' /\ slips' \in 0 .. MaxSlips /\ slips' > 0
      BY <1>0, <2>4, FileKeptLosesNothing DEF FileKept, Slip
    <3> QED
      BY <2>0, <2>4, <3>1 DEF FileKept
  <2> QED
    BY <1>1, <2>1, <2>2, <2>3, <2>4 DEF OpenStore
<1>2. ASSUME NEW e \in UsageEvents, Record(e) PROVE UsageIInv'
  <2>0. opened /\ e \notin used /\ used' = used \cup {e} /\ UNCHANGED <<opened, expired, cleared>>
    BY <1>2 DEF Record
  <2>1. CASE mem' = mem \cup {e} /\ Appended(e) /\ UNCHANGED slips
    <3>1. LossBounded'
      BY <2>1, AppendPays
    <3> QED
      BY <2>0, <2>1, <3>1 DEF Appended
  <2>2. CASE mem' = (mem \cup {e}) \ expired /\ Rewritten(mem') /\ UNCHANGED slips
    <3>1. LossBounded'
      BY <2>2, RewriteLosesNothing
    <3> QED
      BY <2>0, <2>2, <3>1 DEF Rewritten
  <2>3. CASE mem' = (mem \cup {e}) \ expired /\ Appended(e) /\ Slip
    <3>1. LossBounded' /\ slips' \in 0 .. MaxSlips /\ slips' > 0
      BY <1>0, <2>3, AppendPays DEF Slip
    <3> QED
      BY <2>0, <2>3, <3>1 DEF Appended
  <2> QED
    BY <1>2, <2>1, <2>2, <2>3 DEF Record
<1>3. ASSUME NEW e \in UsageEvents, RecordFails(e) PROVE UsageIInv'
  <2>0. slips' \in 0 .. MaxSlips /\ slips' > 0
    BY <1>0, <1>3 DEF RecordFails, Slip
  <2>1. LossBounded' /\ slips' \in 0 .. MaxSlips /\ slips' > 0
    BY <1>3, <2>0, FailurePays DEF RecordFails
  <2> QED
    BY <1>3, <2>1 DEF RecordFails
<1>4. ASSUME NEW e \in UsageEvents, Expire(e) PROVE UsageIInv'
  <2>1. LossBounded'
    BY <1>4, FileKeptLosesNothing DEF Expire
  <2> QED
    BY <1>4, <2>1 DEF Expire
<1>5. CASE Clear
  <2>1. LossBounded'
    BY <1>5, RewriteLosesNothing DEF Clear
  <2> QED
    BY <1>5, <2>1 DEF Clear, Rewritten
<1>6. CASE ClearFails
  <2>1. LossBounded' /\ slips' \in 0 .. MaxSlips /\ slips' > 0
    BY <1>0, <1>6, FileKeptLosesNothing DEF ClearFails, FileKept, Slip
  <2> QED
    BY <1>6, <2>1 DEF ClearFails, FileKept
<1>7. CASE AppEnds
  <2>1. LossBounded'
    BY <1>7, FileKeptLosesNothing DEF AppEnds, FileKept
  <2> QED
    BY <1>7, <2>1 DEF AppEnds, FileKept
<1>8. CASE UNCHANGED usageVars
  <2>1. LossBounded'
    BY <1>8, FileKeptLosesNothing DEF usageVars
  <2> QED
    BY <1>8, <2>1 DEF usageVars
<1> QED
  BY <1>1, <1>2, <1>3, <1>4, <1>5, <1>6, <1>7, <1>8 DEF UsageNext

LEMMA UsageInvariance == UsageSpec => []UsageIInv
  BY UsageInitIInv, UsageStepIInv, PTL DEF UsageSpec

-----------------------------------------------------------------------------
(* The log, its file and what it has recorded keep their types                    *)
(* (usageStore.ts:77-170).                                                        *)
THEOREM UsageTypeCorrect == UsageSpec => []UsageTypeOK
<1>1. UsageIInv => UsageTypeOK
  BY DEF UsageIInv
<1> QED
  BY <1>1, UsageInvariance, PTL

(* Through failed appends, failed rewrites, crashes and clears that throw: every  *)
(* event neither expired nor cleared is in the file, but for two per failure and   *)
(* for what a store that could not read the file left out when it rewrote it, and  *)
(* memory counts what the file holds, but for what it could not read               *)
(* (usageStore.ts:91, 149-153).                                                    *)
THEOREM EventsAreKept == UsageSpec => []UsageKept
<1>1. UsageIInv => UsageKept
  <2> SUFFICES ASSUME UsageIInv PROVE UsageKept
    OBVIOUS
  <2>1. Cardinality(lost) \in Nat /\ slips \in Nat
    BY FS_CardinalityType, UsageAssumption DEF UsageIInv, LossBounded, UsageTypeOK
  <2>2. Cardinality(lost) <= 2 * slips
    BY <2>1 DEF UsageIInv, LossBounded, Owed
  <2> QED
    BY <2>2 DEF UsageIInv, FileComplete, MemoryFollows, ReadsFail, UsageKept
<1> QED
  BY <1>1, UsageInvariance, PTL

-----------------------------------------------------------------------------
(* The copies of a skill (SkillFiles).                                         *)

Places == [dir : TreesOrNone, tmp : TreesOrNone, old : TreesOrNone]

(* What is copied for a job, once the place is clean.                           *)
Wanted(j) == Filled(NoTree, j)

(* The copy is what was last put there, unless the only tree that held it went.    *)
Keeps(l) == copies[l].dir = last[l] \/ gone[l]
NoTreesBeside(l) == copies[l].tmp = NoTree /\ copies[l].old = NoTree

(* A place nobody works on, or on which a job has not begun to.                  *)
AtRest(l) ==
    /\ \/ Keeps(l)
       \/ left[l] /\ copies[l].dir = NoTree /\ copies[l].old = last[l]
    /\ ~left[l] => NoTreesBeside(l)

(* The place a job works on, step by step.                                     *)
AtWork(l) ==
    /\ Doing("clean") => AtRest(l)
    /\ Doing("copy") => Keeps(l) /\ NoTreesBeside(l)
    /\ Doing("aside") => Keeps(l) /\ copies[l].tmp = Wanted(job) /\ copies[l].old = NoTree
    /\ Doing("place") => /\ copies[l].dir = NoTree /\ copies[l].tmp = Wanted(job)
                         /\ copies[l].old = last[l] \/ gone[l]
    /\ Doing("drop") => /\ copies[l].dir = Wanted(job) /\ last[l] = Wanted(job)
                        /\ copies[l].tmp = NoTree
    /\ ~Doing("clean") => ~left[l]

(* A push or a pull copies what the other place holds, and that stays.           *)
SourceKept(j) ==
    /\ j.kind = "push" => j.to = "agent" /\ j.picks = {} /\ j.base = copies.central.dir.plain
    /\ j.kind = "pull" => j.to = "central" /\ j.picks = {} /\ j.base = copies.agent.dir.plain

SkillIInv ==
    /\ SkillTypeOK
    /\ \A l \in Locs : IF Doing("idle") \/ job.to # l THEN AtRest(l) ELSE AtWork(l)
    /\ ~Doing("idle") => done = NoJob /\ SourceKept(job)
    /\ done # NoJob => done.pc = "drop" /\ SourceKept(done) /\ copies[done.to].dir = Wanted(done)

LEMMA WantedTree ==
    ASSUME NEW j \in Jobs
    PROVE  /\ Wanted(j) \in Trees
           /\ Wanted(j).skipped = 0
           /\ Wanted(j).plain = IF "plain" \in j.picks THEN j.over ELSE j.base
<1>1. /\ Copied(NoTree, j) \in Trees
      /\ Copied(NoTree, j).plain = j.base
      /\ Copied(NoTree, j).skipped = 0
  BY DEF Copied, NoTree, Trees, Jobs
<1> DEFINE t == Copied(NoTree, j)
           e == [t EXCEPT !.plain = IF "plain" \in j.picks THEN j.over ELSE t.plain,
                          !.skipped = IF "skipped" \in j.picks THEN 0 ELSE t.skipped]
<1>2. Wanted(j) = e
  BY <1>1 DEF Wanted, Filled, Picked, Trees
<1> HIDE DEF t
<1>3. t \in Trees /\ t.plain = j.base /\ t.skipped = 0
  BY <1>1 DEF t
<1>4. e \in Trees /\ e.skipped = 0 /\ e.plain = IF "plain" \in j.picks THEN j.over ELSE j.base
  BY <1>3 DEF Trees, Jobs
<1> QED
  BY <1>2, <1>4

LEMMA RemainsTyped ==
    ASSUME NEW t \in TreesOrNone, NEW r \in Remains(t)
    PROVE  r \in TreesOrNone /\ (t = NoTree => r = NoTree)
<1>1. CASE t = NoTree
  BY <1>1 DEF Remains
<1>2. CASE t # NoTree
  <2>1. PICK p \in {0, t.plain}, s \in {0, t.skipped} : r = [t EXCEPT !.plain = p, !.skipped = s]
    BY <1>2 DEF Remains
  <2>2. t \in Trees
    BY <1>2 DEF TreesOrNone
  <2>3. r \in Trees
    <3>1. p \in 0 .. 2 /\ s \in 0 .. 1
      BY <2>2 DEF Trees
    <3> QED
      BY <2>1, <2>2, <3>1 DEF Trees
  <2> QED
    BY <1>2, <2>3 DEF TreesOrNone
<1> QED
  BY <1>1, <1>2

LEMMA PlaceSet ==
    ASSUME copies \in [Locs -> Places], NEW l \in Locs, NEW c \in Places, copies' = [copies EXCEPT ![l] = c]
    PROVE  /\ copies' \in [Locs -> Places]
           /\ copies'[l] = c
           /\ \A m \in Locs \ {l} : copies'[m] = copies[m]
OBVIOUS

LEMMA SkillInitIInv == SkillInit => SkillIInv
<1> SUFFICES ASSUME SkillInit PROVE SkillIInv
  OBVIOUS
<1>1. NoTree \in TreesOrNone /\ NoJob \in Jobs /\ NoJob.pc = "idle"
  BY DEF TreesOrNone, NoJob, Jobs, Locs
<1>2. SkillTypeOK
  <2>1. 0 \in 0 .. MaxMishaps /\ 0 \in 0 .. MaxSkillEdits
    BY SkillAssumption
  <2> QED
    BY <1>1, <2>1 DEF SkillInit, SkillTypeOK
<1>3. \A l \in Locs : AtRest(l)
  BY DEF SkillInit, AtRest, Keeps, NoTreesBeside
<1> QED
  BY <1>1, <1>2, <1>3 DEF SkillInit, SkillIInv, Doing

(* A step of the job: it changes the place it works on, and no other.             *)
LEMMA WorkGoesOn ==
    ASSUME SkillIInv, ~Doing("idle"), NEW c \in Places, Becomes(c), NEW stage, GoTo(stage), NEW v \in TreesOrNone,
           stage \in {"copy", "aside", "place", "drop"},
           last' = [last EXCEPT ![job.to] = v],
           gone' \in [Locs -> BOOLEAN], left' \in [Locs -> BOOLEAN],
           \A m \in Locs \ {job.to} : gone'[m] = gone[m] /\ left'[m] = left[m],
           UNCHANGED <<done, mishaps, skillEdits>>,
           AtWork(job.to)'
    PROVE  SkillIInv'
<1> DEFINE l == job.to
<1>0. l \in Locs /\ SkillTypeOK /\ job.pc # "idle" /\ done = NoJob /\ SourceKept(job)
  BY DEF SkillIInv, SkillTypeOK, Jobs, Doing
<1>1. /\ copies' \in [Locs -> Places] /\ copies'[l] = c
      /\ \A m \in Locs \ {l} : copies'[m] = copies[m]
  BY <1>0, PlaceSet DEF Becomes, SkillTypeOK, Places
<1>2. job' \in Jobs /\ job'.pc = stage /\ job'.to = l /\ job'.kind = job.kind /\ job'.picks = job.picks /\ job'.base = job.base
  BY <1>0 DEF GoTo, SkillTypeOK, Jobs
<1> HIDE DEF l
<1>3. SkillTypeOK'
  BY <1>0, <1>1, <1>2 DEF SkillTypeOK, Places, l
<1>4. \A m \in Locs \ {l} : AtRest(m)'
  <2>1. \A m \in Locs \ {l} : AtRest(m) /\ last'[m] = last[m]
    BY <1>0 DEF SkillIInv, SkillTypeOK, l
  <2> QED
    BY <1>1, <2>1 DEF AtRest, Keeps, NoTreesBeside, l
<1>5. SourceKept(job)'
  BY <1>0, <1>1, <1>2 DEF SourceKept, Locs, l
<1>6. AtWork(l)'
  BY <1>2 DEF l
<1> QED
  BY <1>0, <1>2, <1>3, <1>4, <1>5, <1>6 DEF SkillIInv, Doing

(* A job that is over, by a throw, by a crash or at its end.                      *)
LEMMA WorkEnds ==
    ASSUME NEW l \in Locs, l = job.to, SkillIInv, ~Doing("idle"), NEW c \in Places, Becomes(c), Over, mishaps' \in 0 .. MaxMishaps,
           gone' \in [Locs -> BOOLEAN], left' \in [Locs -> BOOLEAN],
           \A m \in Locs \ {l} : gone'[m] = gone[m] /\ left'[m] = left[m],
           UNCHANGED <<last, skillEdits>>,
           AtRest(l)',
           \/ done' = done
           \/ done' = job /\ Doing("drop") /\ c.dir = Wanted(job)
    PROVE  SkillIInv'
<1>0. l \in Locs /\ SkillTypeOK /\ job.pc # "idle" /\ done = NoJob /\ SourceKept(job) /\ job \in Jobs
  BY DEF SkillIInv, SkillTypeOK, Jobs, Doing
<1>1. /\ copies' \in [Locs -> Places] /\ copies'[l] = c
      /\ \A m \in Locs \ {l} : copies'[m] = copies[m]
  BY <1>0, PlaceSet DEF Becomes, SkillTypeOK, Places
<1>2. job' = NoJob /\ NoJob \in Jobs /\ NoJob.pc = "idle"
  BY DEF Over, NoJob, Jobs, Locs
<1>3. SkillTypeOK'
  BY <1>0, <1>1, <1>2 DEF SkillTypeOK, Places
<1>4. \A m \in Locs : AtRest(m)'
  <2>1. \A m \in Locs \ {l} : AtRest(m)
    BY <1>0 DEF SkillIInv
  <2>2. \A m \in Locs \ {l} : AtRest(m)'
    BY <1>1, <2>1 DEF AtRest, Keeps, NoTreesBeside
  <2> QED
    BY <2>2
<1>5. done' # NoJob => done'.pc = "drop" /\ SourceKept(done)' /\ copies'[done'.to].dir = Wanted(done')
  <2>1. SUFFICES ASSUME done' # NoJob PROVE done'.pc = "drop" /\ SourceKept(done)' /\ copies'[done'.to].dir = Wanted(done')
    OBVIOUS
  <2>2. done' = job /\ job.pc = "drop" /\ c.dir = Wanted(job)
    BY <1>0, <2>1 DEF Doing
  <2>3. SourceKept(done)'
    BY <1>0, <1>1, <2>2 DEF SourceKept, Locs
  <2> QED
    BY <1>1, <2>2, <2>3
<1> QED
  BY <1>2, <1>3, <1>4, <1>5 DEF SkillIInv, Doing

(* What the place a job works on is like.                                        *)
LEMMA AtWorkNow ==
    ASSUME SkillIInv, ~Doing("idle")
    PROVE  /\ job.to \in Locs /\ job \in Jobs /\ Here \in Places /\ AtWork(job.to)
           /\ last \in [Locs -> TreesOrNone] /\ gone \in [Locs -> BOOLEAN] /\ left \in [Locs -> BOOLEAN]
           /\ mishaps \in 0 .. MaxMishaps
           /\ Wanted(job) \in Trees /\ Wanted(job) \in TreesOrNone /\ NoTree \in TreesOrNone
<1>1. job.to \in Locs /\ job \in Jobs /\ SkillTypeOK
  BY DEF SkillIInv, SkillTypeOK, Jobs
<1> QED
  BY <1>1, WantedTree DEF SkillIInv, SkillTypeOK, Here, Places, TreesOrNone

LEMMA CleanUpSound == ASSUME SkillIInv, CleanUp PROVE SkillIInv'
<1> DEFINE l == job.to
<1>0. /\ l \in Locs /\ Here \in Places /\ AtRest(l) /\ ~Doing("idle") /\ NoTree \in TreesOrNone
      /\ last \in [Locs -> TreesOrNone] /\ gone \in [Locs -> BOOLEAN] /\ left \in [Locs -> BOOLEAN]
  BY AtWorkNow DEF CleanUp, Doing, AtWork
<1>1. Cleaned \in Places /\ Cleaned.dir = Here.dir /\ Cleaned.tmp = NoTree /\ Cleaned.old = NoTree
  BY <1>0 DEF Cleaned, Places
<1>2. /\ Becomes(Cleaned) /\ GoTo("copy") /\ UNCHANGED <<last, done, mishaps, skillEdits>>
      /\ gone' = [gone EXCEPT ![l] = gone[l] \/ OnlyHold(Here)]
      /\ left' = [left EXCEPT ![l] = FALSE]
  BY DEF CleanUp
<1>3. /\ copies'[l] = Cleaned /\ job'.pc = "copy" /\ job'.to = l /\ ~left'[l] /\ (gone'[l] <=> gone[l] \/ OnlyHold(Here))
  BY <1>0, <1>1, <1>2, PlaceSet DEF SkillIInv, SkillTypeOK, Places, Becomes, GoTo, Jobs
<1>4. Keeps(l)'
  BY <1>0, <1>1, <1>2, <1>3 DEF AtRest, Keeps, Here, OnlyHold
<1>5. AtWork(l)'
  BY <1>1, <1>3, <1>4 DEF AtWork, Doing, NoTreesBeside
<1>6. last' = [last EXCEPT ![l] = last[l]] /\ last[l] \in TreesOrNone
  BY <1>0, <1>2
<1>7. gone' \in [Locs -> BOOLEAN] /\ left' \in [Locs -> BOOLEAN]
      /\ \A m \in Locs \ {l} : gone'[m] = gone[m] /\ left'[m] = left[m]
  BY <1>0, <1>2
<1> QED
  BY <1>0, <1>1, <1>2, <1>5, <1>6, <1>7, WorkGoesOn

LEMMA CopyFilesSound == ASSUME SkillIInv, CopyFiles PROVE SkillIInv'
<1> DEFINE l == job.to
           c == [Here EXCEPT !.tmp = Filled(Here.tmp, job)]
<1>0. /\ l \in Locs /\ Here \in Places /\ AtWork(l) /\ Doing("copy") /\ ~Doing("idle") /\ Wanted(job) \in TreesOrNone
      /\ last \in [Locs -> TreesOrNone] /\ gone \in [Locs -> BOOLEAN] /\ left \in [Locs -> BOOLEAN]
  BY AtWorkNow DEF CopyFiles, Doing
<1>1. Keeps(l) /\ NoTreesBeside(l) /\ ~left[l]
  BY <1>0 DEF AtWork, Doing
<1>2. c \in Places /\ c.dir = Here.dir /\ c.tmp = Wanted(job) /\ c.old = NoTree
  BY <1>0, <1>1 DEF Places, Wanted, NoTreesBeside, Here
<1>3. /\ Becomes(c) /\ GoTo("aside") /\ UNCHANGED <<last, gone, left, done, mishaps, skillEdits>>
  BY <1>0 DEF CopyFiles, Places, Becomes
<1> HIDE DEF c
<1>4. /\ copies'[l] = c /\ job'.pc = "aside" /\ job'.to = l /\ Wanted(job') = Wanted(job)
  <2>1. job' \in Jobs /\ job'.pc = "aside" /\ job'.to = l /\ job'.base = job.base /\ job'.over = job.over /\ job'.picks = job.picks
    BY <1>0, <1>3 DEF SkillIInv, SkillTypeOK, GoTo, Jobs
  <2> QED
    BY <1>0, <1>2, <1>3, <2>1, PlaceSet DEF SkillIInv, SkillTypeOK, Places, Becomes, Wanted, Filled, Picked, Copied
<1>5. AtWork(l)'
  BY <1>1, <1>2, <1>3, <1>4 DEF AtWork, Doing, Keeps, Here
<1>6. last' = [last EXCEPT ![l] = last[l]] /\ last[l] \in TreesOrNone
  BY <1>0, <1>3
<1> QED
  BY <1>0, <1>2, <1>3, <1>5, <1>6, WorkGoesOn


LEMMA MoveAsideSound == ASSUME SkillIInv, MoveAside PROVE SkillIInv'
<1> DEFINE l == job.to
           c == IF Here.dir = NoTree THEN Here ELSE [Here EXCEPT !.dir = NoTree, !.old = Here.dir]
<1>0. /\ l \in Locs /\ Here \in Places /\ AtWork(l) /\ Doing("aside") /\ ~Doing("idle") /\ NoTree \in TreesOrNone
      /\ last \in [Locs -> TreesOrNone] /\ gone \in [Locs -> BOOLEAN] /\ left \in [Locs -> BOOLEAN]
  BY AtWorkNow DEF MoveAside, Doing
<1>1. Keeps(l) /\ Here.tmp = Wanted(job) /\ Here.old = NoTree /\ ~left[l]
  BY <1>0 DEF AtWork, Doing, Here
<1>2. c \in Places /\ c.dir = NoTree /\ c.tmp = Wanted(job) /\ c.old = Here.dir
  BY <1>0, <1>1 DEF Places
<1>3. Becomes(c) /\ GoTo("place") /\ UNCHANGED <<last, gone, left, done, mishaps, skillEdits>>
  BY DEF MoveAside
<1> HIDE DEF c
<1>4. copies'[l] = c /\ job'.pc = "place" /\ job'.to = l /\ Wanted(job') = Wanted(job)
  <2>1. job' \in Jobs /\ job'.pc = "place" /\ job'.to = l /\ job'.base = job.base /\ job'.over = job.over /\ job'.picks = job.picks
    BY <1>0, <1>3 DEF SkillIInv, SkillTypeOK, GoTo, Jobs
  <2> QED
    BY <1>0, <1>2, <1>3, <2>1, PlaceSet DEF SkillIInv, SkillTypeOK, Places, Becomes, Wanted, Filled, Picked, Copied
<1>5. AtWork(l)'
  BY <1>1, <1>2, <1>3, <1>4 DEF AtWork, Doing, Keeps, Here
<1>6. last' = [last EXCEPT ![l] = last[l]] /\ last[l] \in TreesOrNone
  BY <1>0, <1>3
<1> QED
  BY <1>0, <1>2, <1>3, <1>5, <1>6, WorkGoesOn

LEMMA PlaceSound == ASSUME SkillIInv, Place PROVE SkillIInv'
<1> DEFINE l == job.to
           c == [Here EXCEPT !.dir = Here.tmp, !.tmp = NoTree]
<1>0. /\ l \in Locs /\ Here \in Places /\ AtWork(l) /\ Doing("place") /\ ~Doing("idle") /\ NoTree \in TreesOrNone
      /\ last \in [Locs -> TreesOrNone] /\ gone \in [Locs -> BOOLEAN] /\ left \in [Locs -> BOOLEAN]
      /\ Wanted(job) \in TreesOrNone
  BY AtWorkNow DEF Place, Doing
<1>1. Here.tmp = Wanted(job) /\ ~left[l]
  BY <1>0 DEF AtWork, Doing, Here
<1>2. c \in Places /\ c.dir = Wanted(job) /\ c.tmp = NoTree
  BY <1>0, <1>1 DEF Places
<1>3. /\ Becomes(c) /\ GoTo("drop") /\ UNCHANGED <<left, done, mishaps, skillEdits>>
      /\ last' = [last EXCEPT ![l] = Wanted(job)] /\ gone' = [gone EXCEPT ![l] = FALSE]
  BY <1>1 DEF Place
<1> HIDE DEF c
<1>4. copies'[l] = c /\ job'.pc = "drop" /\ job'.to = l /\ Wanted(job') = Wanted(job)
  <2>1. job' \in Jobs /\ job'.pc = "drop" /\ job'.to = l /\ job'.base = job.base /\ job'.over = job.over /\ job'.picks = job.picks
    BY <1>0, <1>3 DEF SkillIInv, SkillTypeOK, GoTo, Jobs
  <2> QED
    BY <1>0, <1>2, <1>3, <2>1, PlaceSet DEF SkillIInv, SkillTypeOK, Places, Becomes, Wanted, Filled, Picked, Copied
<1>5. AtWork(l)'
  BY <1>0, <1>1, <1>2, <1>3, <1>4 DEF AtWork, Doing
<1>6. gone' \in [Locs -> BOOLEAN] /\ \A m \in Locs \ {l} : gone'[m] = gone[m] /\ left'[m] = left[m]
  BY <1>0, <1>3
<1> QED
  BY <1>0, <1>2, <1>3, <1>5, <1>6, WorkGoesOn

LEMMA DropOldSound == ASSUME SkillIInv, DropOld PROVE SkillIInv'
<1>a. PICK l \in Locs : l = job.to
  BY AtWorkNow DEF DropOld, Doing
<1> DEFINE c == [Here EXCEPT !.old = NoTree]
<1>0. /\ Here \in Places /\ AtWork(l) /\ Doing("drop") /\ ~Doing("idle") /\ NoTree \in TreesOrNone
      /\ last \in [Locs -> TreesOrNone] /\ gone \in [Locs -> BOOLEAN] /\ left \in [Locs -> BOOLEAN]
      /\ mishaps \in 0 .. MaxMishaps
  BY <1>a, AtWorkNow DEF DropOld, Doing
<1>1. Here.dir = Wanted(job) /\ last[l] = Wanted(job) /\ Here.tmp = NoTree /\ ~left[l]
  BY <1>a, <1>0 DEF AtWork, Doing, Here
<1>2. c \in Places /\ c.dir = Wanted(job) /\ c.tmp = NoTree /\ c.old = NoTree
  BY <1>0, <1>1 DEF Places
<1>3. Becomes(c) /\ Over /\ done' = job /\ UNCHANGED <<last, gone, left, mishaps, skillEdits>>
  BY DEF DropOld
<1> HIDE DEF c
<1>4. copies'[l] = c
  BY <1>a, <1>0, <1>2, <1>3, PlaceSet DEF SkillIInv, SkillTypeOK, Places, Becomes
<1>5. AtRest(l)'
  BY <1>1, <1>2, <1>3, <1>4 DEF AtRest, Keeps, NoTreesBeside
<1> QED
  BY <1>a, <1>0, <1>2, <1>3, <1>5, WorkEnds

LEMMA PutBackSound ==
    ASSUME SkillIInv, job.pc \in {"copy", "aside", "place"}
    PROVE  /\ PutBack \in Places /\ PutBack.old = NoTree /\ PutBack.tmp = Here.tmp
           /\ PutBack.dir = last[job.to] \/ gone[job.to]
           /\ ~left[job.to]
<1>0. /\ job.to \in Locs /\ Here \in Places /\ AtWork(job.to) /\ ~Doing("idle") /\ NoTree \in TreesOrNone
      /\ gone \in [Locs -> BOOLEAN] /\ left \in [Locs -> BOOLEAN]
  BY AtWorkNow DEF Doing
<1>1. CASE job.pc \in {"copy", "aside"}
  BY <1>0, <1>1 DEF AtWork, Doing, PutBack, Here, Keeps, NoTreesBeside
<1>2. CASE job.pc = "place"
  <2>1. /\ Here.dir = NoTree /\ (Here.old = last[job.to] \/ gone[job.to]) /\ ~left[job.to]
    BY <1>0, <1>2 DEF AtWork, Doing, Here
  <2>2. CASE Here.old # NoTree
    BY <1>0, <1>2, <2>1, <2>2 DEF PutBack, Places, Doing
  <2>3. CASE Here.old = NoTree
    BY <1>0, <1>2, <2>1, <2>3 DEF PutBack, Places, Doing
  <2> QED
    BY <2>2, <2>3
<1> QED
  BY <1>1, <1>2

LEMMA StepThrowsSound == ASSUME SkillIInv, StepThrows PROVE SkillIInv'
<1>a. PICK l \in Locs : l = job.to
  BY AtWorkNow DEF StepThrows, Doing
<1> DEFINE c == [PutBack EXCEPT !.tmp = NoTree]
<1>0. /\ ~Doing("idle") /\ NoTree \in TreesOrNone /\ gone \in [Locs -> BOOLEAN] /\ left \in [Locs -> BOOLEAN]
      /\ mishaps \in 0 .. MaxMishaps
  BY AtWorkNow DEF StepThrows, Doing
<1>1. /\ PutBack \in Places /\ PutBack.old = NoTree
      /\ PutBack.dir = last[l] \/ gone[l]
      /\ ~left[l]
  BY <1>a, PutBackSound DEF StepThrows
<1>2. c \in Places /\ c.dir = PutBack.dir /\ c.tmp = NoTree /\ c.old = NoTree
  BY <1>0, <1>1 DEF Places
<1>3. Becomes(c) /\ Over /\ mishaps' \in 0 .. MaxMishaps /\ UNCHANGED <<last, gone, left, done, skillEdits>>
  BY <1>0, SkillAssumption DEF StepThrows, Mishap
<1> HIDE DEF c
<1>4. copies'[l] = c
  BY <1>a, <1>0, <1>2, <1>3, PlaceSet DEF SkillIInv, SkillTypeOK, Places, Becomes
<1>5. AtRest(l)'
  BY <1>1, <1>2, <1>3, <1>4 DEF AtRest, Keeps, NoTreesBeside
<1> QED
  BY <1>a, <1>0, <1>2, <1>3, <1>5, WorkEnds

LEMMA StepBreaksSound == ASSUME SkillIInv, StepBreaks PROVE SkillIInv'
<1>a. PICK l \in Locs : l = job.to
  BY AtWorkNow DEF StepBreaks, Doing
<1>0. /\ ~Doing("idle") /\ NoTree \in TreesOrNone /\ gone \in [Locs -> BOOLEAN] /\ left \in [Locs -> BOOLEAN]
      /\ mishaps \in 0 .. MaxMishaps /\ Here \in Places /\ AtWork(l) /\ Wanted(job) \in TreesOrNone
  BY <1>a, AtWorkNow DEF StepBreaks, Doing
<1>1. /\ Over /\ mishaps' \in 0 .. MaxMishaps /\ UNCHANGED <<last, gone, done, skillEdits>>
      /\ left' = [left EXCEPT ![l] = TRUE]
  BY <1>a, <1>0, SkillAssumption DEF StepBreaks, Mishap
<1>2. left'[l] /\ left' \in [Locs -> BOOLEAN] /\ \A m \in Locs \ {l} : left'[m] = left[m]
  BY <1>0, <1>1
<1>3. \E c \in Places : Becomes(c) /\ (c.dir = last[l] \/ gone[l] \/ (c.dir = NoTree /\ c.old = last[l]))
  <2>1. CASE Doing("drop")
    <3>1. PICK o \in Remains(Here.old) : Becomes([Here EXCEPT !.old = o])
      BY <2>1 DEF StepBreaks
    <3>2. Here.old \in TreesOrNone /\ Here.dir = last[l]
      BY <1>a, <1>0, <2>1 DEF AtWork, Places, Here
    <3>3. o \in TreesOrNone
      BY <3>2, RemainsTyped
    <3>4. [Here EXCEPT !.old = o] \in Places /\ [Here EXCEPT !.old = o].dir = last[l]
      BY <1>0, <3>2, <3>3 DEF Places
    <3> QED
      BY <3>1, <3>4
  <2>2. CASE ~Doing("drop")
    <3> DEFINE s == IF Doing("copy") THEN Filled(Here.tmp, job) ELSE Here.tmp
    <3>1. PICK t \in Remains(s) \cup {NoTree}, p \in {Here, PutBack} : Becomes([p EXCEPT !.tmp = t])
      BY <2>2 DEF StepBreaks
    <3>2. s \in TreesOrNone
      BY <1>a, <1>0 DEF AtWork, NoTreesBeside, Wanted, Here, Places
    <3> HIDE DEF s
    <3>3. t \in TreesOrNone
      BY <1>0, <3>2, RemainsTyped
    <3>4. job.pc \in {"copy", "aside", "place"}
      BY <2>2 DEF StepBreaks, Doing
    <3>5. p \in Places /\ (p.dir = last[l] \/ gone[l] \/ (p.dir = NoTree /\ p.old = last[l]))
      <4>1. CASE p = PutBack
        BY <1>a, <3>4, <4>1, PutBackSound
      <4>2. CASE p = Here
        BY <1>a, <1>0, <3>4, <4>2 DEF AtWork, Doing, Keeps, Here
      <4> QED
        BY <4>1, <4>2
    <3>6. [p EXCEPT !.tmp = t] \in Places /\ [p EXCEPT !.tmp = t].dir = p.dir /\ [p EXCEPT !.tmp = t].old = p.old
      BY <3>3, <3>5 DEF Places
    <3> QED
      BY <3>1, <3>5, <3>6
  <2> QED
    BY <2>1, <2>2
<1>4. PICK c \in Places : Becomes(c) /\ (c.dir = last[l] \/ gone[l] \/ (c.dir = NoTree /\ c.old = last[l]))
  BY <1>3
<1>5. copies'[l] = c
  BY <1>a, <1>0, <1>4, PlaceSet DEF SkillIInv, SkillTypeOK, Places, Becomes
<1>6. AtRest(l)'
  BY <1>1, <1>2, <1>4, <1>5 DEF AtRest, Keeps
<1> QED
  BY <1>a, <1>0, <1>1, <1>2, <1>4, <1>6, WorkEnds

LEMMA CleanUpFailsSound == ASSUME SkillIInv, CleanUpFails PROVE SkillIInv'
<1>a. PICK l \in Locs : l = job.to
  BY AtWorkNow DEF CleanUpFails, Doing
<1>0. /\ ~Doing("idle") /\ NoTree \in TreesOrNone /\ gone \in [Locs -> BOOLEAN] /\ left \in [Locs -> BOOLEAN]
      /\ mishaps \in 0 .. MaxMishaps /\ Here \in Places /\ AtRest(l)
  BY <1>a, AtWorkNow DEF CleanUpFails, Doing, AtWork
<1>b. /\ Over /\ Mishap /\ UNCHANGED <<last, done, skillEdits>>
      /\ left' = [left EXCEPT ![job.to] = TRUE]
  BY Zenon DEF CleanUpFails
<1>1. /\ Over /\ mishaps' \in 0 .. MaxMishaps /\ UNCHANGED <<last, done, skillEdits>>
      /\ left' = [left EXCEPT ![l] = TRUE]
  BY <1>a, <1>b, <1>0, SkillAssumption DEF Mishap
<1>2. left'[l] /\ left' \in [Locs -> BOOLEAN] /\ \A m \in Locs \ {l} : left'[m] = left[m]
  BY <1>0, <1>1
<1>3. ASSUME NEW c \in Places, Becomes(c), c.dir = Here.dir, gone' \in [Locs -> BOOLEAN],
             \A m \in Locs \ {l} : gone'[m] = gone[m], gone[l] => gone'[l],
             c.old = Here.old \/ gone'[l] \/ ~OnlyHold(Here)
      PROVE  SkillIInv'
  <2>1. copies'[l] = c
    BY <1>a, <1>0, <1>3, PlaceSet DEF SkillIInv, SkillTypeOK, Places, Becomes
  <2>2. Here = copies[l]
    BY <1>a DEF Here
  <2>3. Keeps(l)' \/ (c.dir = NoTree /\ c.old = last'[l])
    BY <1>0, <1>1, <1>3, <2>1, <2>2 DEF AtRest, Keeps, OnlyHold
  <2>4. AtRest(l)'
    BY <1>2, <2>1, <2>3 DEF AtRest
  <2> QED
    BY <1>a, <1>0, <1>1, <1>2, <1>3, <2>4, WorkEnds
<1>4. CASE \E t \in Remains(Here.tmp) : Becomes([Here EXCEPT !.tmp = t]) /\ UNCHANGED gone
  <2>1. PICK t \in Remains(Here.tmp) : Becomes([Here EXCEPT !.tmp = t]) /\ UNCHANGED gone
    BY <1>4
  <2>2. t \in TreesOrNone
    BY <1>0, RemainsTyped DEF Places
  <2> DEFINE c == [Here EXCEPT !.tmp = t]
  <2>3. c \in Places /\ c.dir = Here.dir /\ c.old = Here.old
    BY <1>0, <2>2 DEF Places
  <2> HIDE DEF c
  <2> QED
    BY <1>0, <1>3, <2>1, <2>3 DEF c
<1>5. CASE \E o \in Remains(Here.old) :
              /\ Becomes([Here EXCEPT !.tmp = NoTree, !.old = o])
              /\ gone' = [gone EXCEPT ![job.to] = @ \/ (OnlyHold(Here) /\ o # Here.old)]
  <2>1. PICK o \in Remains(Here.old) :
              /\ Becomes([Here EXCEPT !.tmp = NoTree, !.old = o])
              /\ gone' = [gone EXCEPT ![job.to] = @ \/ (OnlyHold(Here) /\ o # Here.old)]
    BY <1>5
  <2>2. o \in TreesOrNone
    BY <1>0, RemainsTyped DEF Places
  <2> DEFINE c == [Here EXCEPT !.tmp = NoTree, !.old = o]
  <2>3. c \in Places /\ c.dir = Here.dir /\ c.old = o
    BY <1>0, <2>2 DEF Places
  <2>4. Becomes(c)
    BY <2>1
  <2> HIDE DEF c
  <2>5. gone' = [gone EXCEPT ![l] = gone[l] \/ (OnlyHold(Here) /\ o # Here.old)]
    BY <1>a, <2>1
  <2>6. gone' \in [Locs -> BOOLEAN] /\ (\A m \in Locs \ {l} : gone'[m] = gone[m])
        /\ (gone'[l] <=> gone[l] \/ (OnlyHold(Here) /\ o # Here.old))
    BY <1>0, <2>5
  <2> QED
    BY <1>3, <2>3, <2>4, <2>6
<1> QED
  BY <1>4, <1>5 DEF CleanUpFails

(* What the state is like between two handlers.                                    *)
LEMMA IdleNow ==
    ASSUME SkillIInv, Doing("idle")
    PROVE  /\ SkillTypeOK /\ copies \in [Locs -> Places] /\ NoJob \in Jobs /\ NoJob.pc = "idle" /\ NoTree \in TreesOrNone
           /\ \A l \in Locs : AtRest(l)
BY DEF SkillIInv, SkillTypeOK, Places, NoJob, Jobs, Locs, TreesOrNone

(* A handler begins: the place it will work on is left as it is.                    *)
LEMMA JobBegins ==
    ASSUME SkillIInv, NEW j \in Jobs, BeginJob(j), SourceKept(j)
    PROVE  SkillIInv'
<1>1. /\ Doing("idle") /\ job' = [j EXCEPT !.pc = "clean"] /\ done' = NoJob
      /\ UNCHANGED <<copies, last, gone, left, mishaps, skillEdits>>
  BY DEF BeginJob
<1>2. /\ job' \in Jobs /\ job'.pc = "clean" /\ job'.to = j.to /\ job'.kind = j.kind
      /\ job'.picks = j.picks /\ job'.base = j.base
  BY <1>1 DEF Jobs
<1>3. SkillTypeOK'
  BY <1>1, <1>2, IdleNow DEF SkillTypeOK
<1>4. \A l \in Locs : AtRest(l)'
  BY <1>1, IdleNow DEF AtRest, Keeps, NoTreesBeside
<1>5. \A l \in Locs : job'.to = l => AtWork(l)'
  BY <1>2, <1>4 DEF AtWork, Doing
<1>6. SourceKept(job)'
  BY <1>1, <1>2 DEF SourceKept
<1> QED
  BY <1>1, <1>2, <1>3, <1>4, <1>5, <1>6 DEF SkillIInv, Doing

LEMMA BeginSound ==
    ASSUME SkillIInv
    PROVE  /\ PushSkill => SkillIInv'
           /\ PullSkill => SkillIInv'
           /\ \A p \in 1 .. 2 : ImportSkill(p) => SkillIInv'
           /\ \A picks \in SUBSET SkillFile : MergeSkill(picks) => SkillIInv'
<1>1. /\ copies \in [Locs -> Places] /\ "central" \in Locs /\ "agent" \in Locs
  BY DEF SkillIInv, SkillTypeOK, Places, Locs
<1>2. \A c \in Places : c.dir.plain \in 0 .. 2
  <2>1. \A t \in TreesOrNone : t.plain \in 0 .. 2
    <3>1. NoTree.plain = 0 /\ \A t \in Trees : t.plain \in 0 .. 2
      BY DEF NoTree, Trees
    <3> QED
      BY <3>1 DEF TreesOrNone
  <2>2. \A c \in Places : c.dir \in TreesOrNone
    BY DEF Places
  <2> QED
    BY <2>1, <2>2
<1>n. NoJob \in Jobs /\ NoJob.to = "central" /\ NoJob.picks = {}
  BY DEF NoJob, Jobs, Locs
<1>3. copies.central.dir.plain \in 0 .. 2 /\ copies.agent.dir.plain \in 0 .. 2
  <2>1. copies.central \in Places /\ copies.agent \in Places
    BY <1>1
  <2> QED
    BY <1>2, <2>1
<1> DEFINE b == copies.central.dir.plain
           o == copies.agent.dir.plain
<1>a. b \in 0 .. 2 /\ o \in 0 .. 2 /\ b = copies.central.dir.plain /\ o = copies.agent.dir.plain
  BY <1>3
<1> HIDE DEF b, o
<1>4. ASSUME PushSkill PROVE SkillIInv'
  <2> DEFINE j == [NoJob EXCEPT !.kind = "push", !.to = "agent", !.base = b]
  <2>1. BeginJob(j)
    BY <1>4, <1>a DEF PushSkill
  <2>2. j \in Jobs /\ j.kind = "push" /\ j.to = "agent" /\ j.base = b /\ j.picks = {}
    BY <1>a, <1>n DEF Jobs, Locs
  <2> HIDE DEF j
  <2>3. SourceKept(j)
    BY <1>a, <2>2 DEF SourceKept
  <2> QED
    BY <2>1, <2>2, <2>3, JobBegins
<1>5. ASSUME PullSkill PROVE SkillIInv'
  <2> DEFINE j == [NoJob EXCEPT !.kind = "pull", !.base = o]
  <2>1. BeginJob(j)
    BY <1>5, <1>a DEF PullSkill
  <2>2. j \in Jobs /\ j.kind = "pull" /\ j.to = "central" /\ j.base = o /\ j.picks = {}
    BY <1>a, <1>n DEF Jobs, Locs
  <2> HIDE DEF j
  <2>3. SourceKept(j)
    BY <1>a, <2>2 DEF SourceKept
  <2> QED
    BY <2>1, <2>2, <2>3, JobBegins
<1>6. ASSUME NEW p \in 1 .. 2, ImportSkill(p) PROVE SkillIInv'
  <2> DEFINE j == [NoJob EXCEPT !.kind = "import", !.base = p]
  <2>1. BeginJob(j)
    BY <1>6 DEF ImportSkill
  <2>2. j \in Jobs /\ j.kind = "import"
    <3>1. p \in 0 .. 2
      OBVIOUS
    <3> QED
      BY <1>n, <3>1 DEF Jobs
  <2> HIDE DEF j
  <2> QED
    BY <2>1, <2>2, JobBegins DEF SourceKept
<1>7. ASSUME NEW picks \in SUBSET SkillFile, MergeSkill(picks) PROVE SkillIInv'
  <2> DEFINE j == [NoJob EXCEPT !.kind = "merge", !.base = b, !.over = o, !.picks = picks]
  <2>1. BeginJob(j)
    BY <1>7, <1>a DEF MergeSkill
  <2>2. j \in Jobs /\ j.kind = "merge"
    BY <1>a, <1>n DEF Jobs, Locs
  <2> HIDE DEF j
  <2> QED
    BY <2>1, <2>2, JobBegins DEF SourceKept
<1> QED
  BY <1>4, <1>5, <1>6, <1>7

(* A copy that is deleted or edited between two handlers: it is what it now is.      *)
LEMMA CopyChanges ==
    ASSUME SkillIInv, Doing("idle"), NEW l \in Locs, NEW t \in TreesOrNone,
           copies' = [copies EXCEPT ![l] = [copies[l] EXCEPT !.dir = t]],
           last' = [last EXCEPT ![l] = t], gone' = [gone EXCEPT ![l] = FALSE], done' = NoJob,
           mishaps' \in 0 .. MaxMishaps, skillEdits' \in 0 .. MaxSkillEdits, UNCHANGED <<job, left>>
    PROVE  SkillIInv'
<1> DEFINE c == [copies[l] EXCEPT !.dir = t]
<1>1. c \in Places /\ c.dir = t /\ c.tmp = copies[l].tmp /\ c.old = copies[l].old
  BY IdleNow DEF Places
<1>2. copies' = [copies EXCEPT ![l] = c]
  OBVIOUS
<1> HIDE DEF c
<1>3. copies' \in [Locs -> Places] /\ copies'[l] = c /\ \A m \in Locs \ {l} : copies'[m] = copies[m]
  BY <1>1, <1>2, IdleNow
<1>4. SkillTypeOK'
  BY <1>3, IdleNow DEF SkillTypeOK, Places
<1>5. AtRest(l)'
  <2>1. last'[l] = t
    BY IdleNow DEF SkillTypeOK
  <2> QED
    BY <1>1, <1>3, <2>1, IdleNow DEF AtRest, Keeps, NoTreesBeside
<1>6. \A m \in Locs \ {l} : AtRest(m)'
  BY <1>3, IdleNow DEF AtRest, Keeps, NoTreesBeside, SkillTypeOK
<1> QED
  BY <1>4, <1>5, <1>6 DEF SkillIInv, Doing

LEMMA DeleteSkillSound == ASSUME SkillIInv, NEW l \in Locs, DeleteSkill(l) PROVE SkillIInv'
<1>1. /\ Doing("idle") /\ last' = [last EXCEPT ![l] = copies'[l].dir]
      /\ gone' = [gone EXCEPT ![l] = FALSE] /\ done' = NoJob /\ UNCHANGED <<job, left, skillEdits>>
  BY Zenon DEF DeleteSkill
<1>2. /\ mishaps' \in 0 .. MaxMishaps
      /\ \E t \in TreesOrNone : copies' = [copies EXCEPT ![l] = [copies[l] EXCEPT !.dir = t]]
  <2>1. CASE copies' = [copies EXCEPT ![l].dir = NoTree] /\ UNCHANGED mishaps
    BY <1>1, <2>1, IdleNow DEF SkillTypeOK
  <2>2. CASE Mishap /\ \E t \in Remains(copies[l].dir) : copies' = [copies EXCEPT ![l].dir = t]
    <3>1. PICK t \in Remains(copies[l].dir) : copies' = [copies EXCEPT ![l].dir = t]
      BY <2>2
    <3>2. copies[l].dir \in TreesOrNone
      BY <1>1, IdleNow DEF Places
    <3>3. t \in TreesOrNone
      BY <3>2, RemainsTyped
    <3>4. mishaps' \in 0 .. MaxMishaps
      BY <1>1, <2>2, IdleNow, SkillAssumption DEF SkillTypeOK, Mishap
    <3> QED
      BY <3>1, <3>3, <3>4
  <2> QED
    BY <2>1, <2>2 DEF DeleteSkill
<1>3. PICK t \in TreesOrNone : copies' = [copies EXCEPT ![l] = [copies[l] EXCEPT !.dir = t]]
  BY <1>2
<1>4. copies'[l].dir = t
  <2>1. copies \in [Locs -> Places]
    BY <1>1, IdleNow
  <2> QED
    BY <1>3, <2>1 DEF Places
<1>5. skillEdits' \in 0 .. MaxSkillEdits
  BY <1>1, IdleNow DEF SkillTypeOK
<1>6. last' = [last EXCEPT ![l] = t]
  BY <1>1, <1>4
<1> QED
  BY <1>1, <1>2, <1>3, <1>5, <1>6, CopyChanges

LEMMA EditCopySound == ASSUME SkillIInv, NEW l \in Locs, NEW t \in Trees, EditCopy(l, t) PROVE SkillIInv'
<1>1. /\ Doing("idle") /\ copies' = [copies EXCEPT ![l] = [copies[l] EXCEPT !.dir = t]]
      /\ last' = [last EXCEPT ![l] = t] /\ gone' = [gone EXCEPT ![l] = FALSE] /\ done' = NoJob
      /\ UNCHANGED <<job, left, mishaps>> /\ t \in TreesOrNone
  BY DEF EditCopy, TreesOrNone
<1>2. mishaps' \in 0 .. MaxMishaps /\ skillEdits' \in 0 .. MaxSkillEdits
  BY <1>1, IdleNow, SkillAssumption DEF EditCopy, SkillTypeOK
<1> QED
  BY <1>1, <1>2, CopyChanges

LEMMA SkillInductive == SkillIInv /\ [SkillNext]_skillVars => SkillIInv'
<1> SUFFICES ASSUME SkillIInv, [SkillNext]_skillVars PROVE SkillIInv'
  OBVIOUS
<1>1. CASE UNCHANGED skillVars
  BY <1>1 DEF skillVars, SkillIInv, SkillTypeOK, AtRest, AtWork, Keeps, NoTreesBeside, Doing, SourceKept,
              Wanted, Filled, Picked, Copied
<1>2. CASE PushSkill \/ PullSkill
  BY <1>2, BeginSound
<1>3. CASE \E p \in 1 .. 2 : ImportSkill(p)
  BY <1>3, BeginSound
<1>4. CASE \E picks \in SUBSET SkillFile : MergeSkill(picks)
  BY <1>4, BeginSound
<1>5. CASE CleanUp \/ CleanUpFails
  BY <1>5, CleanUpSound, CleanUpFailsSound
<1>6. CASE CopyFiles \/ MoveAside
  BY <1>6, CopyFilesSound, MoveAsideSound
<1>7. CASE Place \/ DropOld
  BY <1>7, PlaceSound, DropOldSound
<1>8. CASE StepThrows \/ StepBreaks
  BY <1>8, StepThrowsSound, StepBreaksSound
<1>9. CASE \E l \in Locs : DeleteSkill(l) \/ \E t \in Trees : EditCopy(l, t)
  BY <1>9, DeleteSkillSound, EditCopySound
<1> QED
  BY <1>1, <1>2, <1>3, <1>4, <1>5, <1>6, <1>7, <1>8, <1>9 DEF SkillNext

(* Deleting, pushing, pulling, importing and merging leave the copies and the trees     *)
(* beside them well formed, however often a step throws.                               *)
THEOREM SkillTypeCorrect == SkillSpec => []SkillTypeOK
<1>1. SkillIInv => SkillTypeOK
  BY DEF SkillIInv
<1> QED
  BY <1>1, SkillInitIInv, SkillInductive, PTL DEF SkillSpec

LEMMA SkillsSoundNow == SkillIInv => SkillsSound
<1> SUFFICES ASSUME SkillIInv PROVE SkillsSound
  OBVIOUS
<1>1. SkillSurvives
  <2>1. SUFFICES ASSUME NEW l \in Locs
                 PROVE  \/ copies[l].dir = last[l]
                        \/ gone[l]
                        \/ /\ left[l] \/ (job.to = l /\ ~Doing("idle"))
                           /\ copies[l].dir = NoTree /\ copies[l].old = last[l]
    BY DEF SkillSurvives
  <2>2. CASE Doing("idle") \/ job.to # l
    BY <2>2 DEF SkillIInv, AtRest, Keeps
  <2>3. CASE ~(Doing("idle") \/ job.to # l)
    <3>1. AtWork(l) /\ job.pc \in {"clean", "copy", "aside", "place", "drop"}
      BY <2>3 DEF SkillIInv, SkillTypeOK, Jobs, Doing
    <3> QED
      BY <2>3, <3>1 DEF AtWork, Doing, AtRest, Keeps
  <2> QED
    BY <2>2, <2>3
<1>2. NoLeftovers
  BY DEF NoLeftovers, SkillIInv, AtRest, NoTreesBeside
<1>3. CopiesAgree
  <2>1. SUFFICES ASSUME done # NoJob
                 PROVE  /\ copies[done.to].dir.plain = IF "plain" \in done.picks THEN done.over ELSE done.base
                        /\ copies[done.to].dir.skipped = 0
                        /\ done.kind \in {"push", "pull"} => Differing \subseteq {"skipped"}
    BY Zenon DEF CopiesAgree
  <2>2. done \in Jobs /\ SourceKept(done) /\ copies[done.to].dir = Wanted(done)
    BY <2>1 DEF SkillIInv, SkillTypeOK
  <2>3. /\ copies[done.to].dir.plain = IF "plain" \in done.picks THEN done.over ELSE done.base
        /\ copies[done.to].dir.skipped = 0
    BY <2>2, WantedTree
  <2>4. ASSUME done.kind \in {"push", "pull"} PROVE Differing \subseteq {"skipped"}
    <3>1. copies.central.dir.plain = copies.agent.dir.plain
      BY <2>2, <2>3, <2>4 DEF SourceKept
    <3> QED
      BY <3>1 DEF Differing, SkillFile
  <2> QED
    BY <2>3, <2>4
<1> QED
  BY <1>1, <1>2, <1>3 DEF SkillsSound

(* A copy is what was last put there, or is whole beside it; no tree stays beside a     *)
(* copy but after a crash; and what was copied is what was asked for (SkillsSound).     *)
THEOREM SkillsAreSound == SkillSpec => []SkillsSound
BY SkillInitIInv, SkillInductive, SkillsSoundNow, PTL DEF SkillSpec

-----------------------------------------------------------------------------
(* The stream translators (TranslateStream).                                        *)

(* Streams y and x differ at most in client, blocks and owed, as after a frame.       *)
Sent(x, y) ==
    /\ y \in Streams
    /\ y.begun = x.begun /\ y.ended = x.ended /\ y.kind = x.kind /\ y.at = x.at
    /\ y.next = x.next /\ y.blockOf = x.blockOf
    /\ x.client = "broken" => y.client = "broken"

LEMMA SendBeginSends ==
    ASSUME NEW x \in Streams
    PROVE  /\ Sent(x, SendBegin(x))
           /\ SendBegin(x).blocks = x.blocks /\ SendBegin(x).owed = x.owed
           /\ SendBegin(x).client = IF x.client = "before" THEN "in" ELSE "broken"
BY DEF Streams, Sent, SendBegin, Reads

LEMMA SendOpenSends ==
    ASSUME NEW x \in Streams, NEW b \in Blocks, NEW k \in Kinds, NEW c \in Blocks \cup {NoIndex}
    PROVE  LET y == SendOpen(x, b, k, c) IN
           /\ Sent(x, y) /\ y.owed = x.owed
           /\ IF x.client = "in" /\ x.blocks[b] = NoBlock
              THEN /\ y.client = "in"
                   /\ y.blocks = [x.blocks EXCEPT ![b] = [is |-> "open", kind |-> k, of |-> c]]
              ELSE y.client = "broken"
BY DEF Streams, Sent, SendOpen, Reads

LEMMA SendPieceSends ==
    ASSUME NEW x \in Streams, NEW b, NEW k, NEW c
    PROVE  LET y == SendPiece(x, b, k, c) IN
           /\ Sent(x, y) /\ y.blocks = x.blocks
           /\ IF x.client = "in" /\ b # NoIndex /\ x.blocks[b] = [is |-> "open", kind |-> k, of |-> c]
              THEN y.client = "in" /\ y.owed = x.owed \ {c}
              ELSE y.client = "broken"
BY DEF Streams, Sent, SendPiece, Reads

LEMMA SendLooseSends ==
    ASSUME NEW x \in Streams, NEW c
    PROVE  LET y == SendLoose(x, c) IN
           /\ Sent(x, y) /\ y.blocks = x.blocks
           /\ IF x.client = "in" THEN y.client = "in" /\ y.owed = x.owed \ {c} ELSE y.client = "broken"
BY DEF Streams, Sent, SendLoose, Reads

LEMMA SendCloseSends ==
    ASSUME NEW x \in Streams, NEW b
    PROVE  LET y == SendClose(x, b) IN
           /\ Sent(x, y) /\ y.owed = x.owed
           /\ IF x.client = "in" /\ x.blocks[b].is = "open"
              THEN y.client = "in" /\ y.blocks = [x.blocks EXCEPT ![b].is = "closed"]
              ELSE y.client = "broken"
BY DEF Streams, Sent, SendClose, Reads

LEMMA SendWholeSends ==
    ASSUME NEW x \in Streams, NEW b \in Blocks, NEW c
    PROVE  LET y == SendWhole(x, b, c) IN
           /\ Sent(x, y)
           /\ IF x.client = "in" /\ x.blocks[b].is = "open"
              THEN /\ y.client = "in" /\ y.blocks = [x.blocks EXCEPT ![b].is = "closed"]
                   /\ y.owed = x.owed \ {c}
              ELSE y.client = "broken"
<1> DEFINE n == [x.blocks EXCEPT ![b].is = "closed"]
           z == [x EXCEPT !.blocks[b].is = "closed", !.owed = @ \ {c}]
<1>1. n \in [Blocks -> [is : {"none", "open", "closed"}, kind : Kinds \cup {"none"}, of : Blocks \cup {NoIndex}]]
  BY DEF Streams
<1>2. z = [x EXCEPT !.blocks = n, !.owed = @ \ {c}]
  BY DEF Streams
<1> HIDE DEF n
<1>3. /\ z \in Streams /\ z.blocks = n /\ z.owed = x.owed \ {c} /\ z.client = x.client
      /\ z.begun = x.begun /\ z.ended = x.ended /\ z.kind = x.kind /\ z.at = x.at
      /\ z.next = x.next /\ z.blockOf = x.blockOf
  BY <1>1, <1>2 DEF Streams
<1> HIDE DEF z
<1>4. SendWhole(x, b, c) = IF x.client # "broken" /\ x.client = "in" /\ x.blocks[b].is = "open" THEN z ELSE [x EXCEPT !.client = "broken"]
  BY DEF SendWhole, Reads, z
<1>5. Sent(x, [x EXCEPT !.client = "broken"]) /\ [x EXCEPT !.client = "broken"].client = "broken"
  BY DEF Sent, Streams
<1> QED
  BY <1>3, <1>4, <1>5 DEF Sent, n

LEMMA SendFinishSends ==
    ASSUME NEW x \in Streams
    PROVE  LET y == SendFinish(x) IN
           /\ Sent(x, y) /\ y.blocks = x.blocks /\ y.owed = x.owed
           /\ IF /\ x.client \in {"in", "finishing"}
                 /\ Target # "openai" => \A b \in Blocks : x.blocks[b].is # "open"
              THEN y.client = "finishing" ELSE y.client = "broken"
BY DEF Streams, Sent, SendFinish, Reads

LEMMA SendEndSends ==
    ASSUME NEW x \in Streams
    PROVE  LET y == SendEnd(x) IN
           /\ Sent(x, y) /\ y.blocks = x.blocks /\ y.owed = x.owed
           /\ y.client = IF x.client = "finishing" THEN "over" ELSE "broken"
BY DEF Streams, Sent, SendEnd, Reads

(* A translator that keeps one block open at a time (all but those from Anthropic and   *)
(* the one from Gemini to OpenAI), as far as its reader still follows.                 *)
Tidy(x) ==
    x.client # "broken" =>
        /\ x.client \in {"before", "in", "over"}
        /\ x.begun <=> x.client # "before"
        /\ x.ended <=> x.client = "over"
        /\ \A b \in Blocks : b >= x.next => x.blocks[b] = NoBlock
        /\ \A b \in Blocks : x.blocks[b].is = "open" <=> x.kind # "none" /\ b = x.at
        /\ x.kind # "none" => /\ x.client = "in" /\ x.at \in Blocks /\ x.blocks[x.at].kind = x.kind
                              /\ x.kind # "tool" => x.blocks[x.at].of = NoIndex

LEMMA StartTidy ==
    ASSUME NEW x \in Streams, Tidy(x)
    PROVE  LET y == Start(x) IN
           /\ y \in Streams /\ Tidy(y) /\ y.begun
           /\ y.ended = x.ended /\ y.kind = x.kind /\ y.at = x.at /\ y.next = x.next
           /\ y.blockOf = x.blockOf /\ y.blocks = x.blocks /\ y.owed = x.owed
           /\ y.client = IF x.client = "before" /\ ~x.begun THEN "in" ELSE IF x.begun THEN x.client ELSE "broken"
<1> DEFINE y == SendBegin(x)
<1>1. CASE x.begun
  BY <1>1 DEF Start, Tidy
<1>2. CASE ~x.begun
  <2>1. Start(x) = [y EXCEPT !.begun = TRUE]
    BY <1>2 DEF Start
  <2>2. /\ y \in Streams /\ y.blocks = x.blocks /\ y.owed = x.owed
        /\ y.ended = x.ended /\ y.kind = x.kind /\ y.at = x.at /\ y.next = x.next /\ y.blockOf = x.blockOf
        /\ y.client = IF x.client = "before" THEN "in" ELSE "broken"
    BY SendBeginSends DEF Sent
  <2> HIDE DEF y
  <2>3. /\ [y EXCEPT !.begun = TRUE] \in Streams
        /\ [y EXCEPT !.begun = TRUE].begun
        /\ [y EXCEPT !.begun = TRUE].ended = x.ended /\ [y EXCEPT !.begun = TRUE].kind = x.kind
        /\ [y EXCEPT !.begun = TRUE].at = x.at /\ [y EXCEPT !.begun = TRUE].next = x.next
        /\ [y EXCEPT !.begun = TRUE].blockOf = x.blockOf /\ [y EXCEPT !.begun = TRUE].blocks = x.blocks
        /\ [y EXCEPT !.begun = TRUE].owed = x.owed /\ [y EXCEPT !.begun = TRUE].client = y.client
    BY <2>2 DEF Streams
  <2>4. Tidy([y EXCEPT !.begun = TRUE])
    BY <1>2, <2>2, <2>3 DEF Tidy
  <2> QED
    BY <1>2, <2>1, <2>2, <2>3, <2>4
<1> QED
  BY <1>1, <1>2

LEMMA CloseTidy ==
    ASSUME NEW x \in Streams, Tidy(x)
    PROVE  LET y == CloseOpenBlock(x) IN
           /\ y \in Streams /\ Tidy(y) /\ y.kind = "none"
           /\ y.begun = x.begun /\ y.ended = x.ended /\ y.next = x.next
           /\ y.blockOf = x.blockOf /\ y.owed = x.owed /\ y.client = x.client
<1> DEFINE y == SendClose(x, x.at)
<1>1. CASE x.kind = "none"
  BY <1>1 DEF CloseOpenBlock
<1>2. CASE x.kind # "none"
  <2> DEFINE z == [y EXCEPT !.kind = "none", !.at = NoIndex]
  <2>1. CloseOpenBlock(x) = z
    BY <1>2 DEF CloseOpenBlock
  <2>2. /\ y \in Streams /\ y.owed = x.owed /\ y.begun = x.begun /\ y.ended = x.ended /\ y.next = x.next
        /\ y.blockOf = x.blockOf
        /\ IF x.client = "in" /\ x.blocks[x.at].is = "open"
           THEN y.client = "in" /\ y.blocks = [x.blocks EXCEPT ![x.at].is = "closed"]
           ELSE y.client = "broken"
    BY SendCloseSends DEF Sent
  <2>3. y.client = x.client
    BY <1>2, <2>2 DEF Tidy
  <2> HIDE DEF y
  <2>4. /\ z \in Streams /\ z.kind = "none" /\ z.at = NoIndex
        /\ z.begun = y.begun /\ z.ended = y.ended /\ z.next = y.next /\ z.blockOf = y.blockOf
        /\ z.client = y.client /\ z.blocks = y.blocks /\ z.owed = y.owed
    BY <2>2 DEF Streams
  <2> HIDE DEF z
  <2>5. Tidy(z)
    <3> SUFFICES ASSUME z.client # "broken" PROVE Tidy(z)
      BY DEF Tidy
    <3>1. x.client = "in" /\ z.blocks = [x.blocks EXCEPT ![x.at].is = "closed"] /\ x.at \in Blocks /\ x.blocks[x.at].is = "open"
      BY <1>2, <2>2, <2>3, <2>4 DEF Tidy
    <3>2. x.at < x.next
      BY <3>1 DEF Tidy, NoBlock, Streams, Blocks
    <3>3. x.blocks \in [Blocks -> [is : {"none", "open", "closed"}, kind : Kinds \cup {"none"}, of : Blocks \cup {NoIndex}]]
      BY DEF Streams
    <3>4. \A b \in Blocks : z.blocks[b] = IF b = x.at THEN [x.blocks[b] EXCEPT !.is = "closed"] ELSE x.blocks[b]
      BY <3>1, <3>3
    <3>5. \A b \in Blocks : b >= z.next => z.blocks[b] = NoBlock
      BY <2>2, <2>4, <3>1, <3>2, <3>4 DEF Tidy, Blocks, Streams
    <3>6. \A b \in Blocks : z.blocks[b].is # "open"
      BY <3>1, <3>3, <3>4 DEF Tidy
    <3> QED
      BY <2>2, <2>3, <2>4, <3>1, <3>5, <3>6 DEF Tidy
  <2> QED
    BY <2>1, <2>2, <2>3, <2>4, <2>5
<1> QED
  BY <1>1, <1>2

LEMMA OpenTidy ==
    ASSUME NEW x \in Streams, Tidy(x), x.begun, x.next < MaxBlocks, NEW k \in Kinds, NEW c \in Blocks \cup {NoIndex},
           k # "tool" => c = NoIndex
    PROVE  LET y == OpenBlock(x, k, c) IN
           /\ y \in Streams /\ Tidy(y) /\ y.kind = k /\ y.at = x.next /\ y.next = x.next + 1 /\ x.next \in Blocks
           /\ y.begun /\ y.ended = x.ended /\ y.blockOf = x.blockOf /\ y.owed = x.owed
           /\ y.client = IF x.client = "in" THEN "in" ELSE "broken"
           /\ x.client = "in" => y.blocks[x.next] = [is |-> "open", kind |-> k, of |-> c]
<1> DEFINE v == CloseOpenBlock(x)
           w == SendOpen(v, x.next, k, c)
           y == [w EXCEPT !.kind = k, !.at = x.next, !.next = @ + 1]
<1>1. OpenBlock(x, k, c) = y
  BY DEF OpenBlock
<1>2. /\ v \in Streams /\ Tidy(v) /\ v.kind = "none" /\ v.begun /\ v.ended = x.ended /\ v.next = x.next
      /\ v.blockOf = x.blockOf /\ v.owed = x.owed /\ v.client = x.client
  BY CloseTidy
<1>3. x.next \in Blocks
  BY StreamAssumption DEF Streams, Blocks
<1> HIDE DEF v
<1>4. /\ w \in Streams /\ w.owed = v.owed /\ w.begun = v.begun /\ w.ended = v.ended /\ w.next = v.next
      /\ w.blockOf = v.blockOf
      /\ IF v.client = "in" /\ v.blocks[x.next] = NoBlock
         THEN /\ w.client = "in"
              /\ w.blocks = [v.blocks EXCEPT ![x.next] = [is |-> "open", kind |-> k, of |-> c]]
         ELSE w.client = "broken"
  <2>1. Sent(v, w) /\ w.owed = v.owed
    BY <1>2, <1>3, SendOpenSends
  <2>2. IF v.client = "in" /\ v.blocks[x.next] = NoBlock
        THEN /\ w.client = "in"
             /\ w.blocks = [v.blocks EXCEPT ![x.next] = [is |-> "open", kind |-> k, of |-> c]]
        ELSE w.client = "broken"
    BY <1>2, <1>3, SendOpenSends
  <2> QED
    BY <2>1, <2>2 DEF Sent
<1>5. w.client = IF x.client = "in" THEN "in" ELSE "broken"
  BY <1>2, <1>3, <1>4 DEF Tidy, Streams, Blocks
<1> HIDE DEF w
<1>6. /\ y \in Streams /\ y.kind = k /\ y.at = x.next /\ y.next = x.next + 1
      /\ y.begun = w.begun /\ y.ended = w.ended /\ y.blockOf = w.blockOf
      /\ y.client = w.client /\ y.blocks = w.blocks /\ y.owed = w.owed
  <2>1. x.next + 1 \in 0 .. MaxBlocks /\ w.next = x.next
    BY <1>2, <1>3, <1>4, StreamAssumption DEF Blocks
  <2> QED
    BY <1>3, <1>4, <2>1 DEF Streams
<1> HIDE DEF y
<1>7. ASSUME x.client = "in"
      PROVE  /\ \A b \in Blocks : y.blocks[b] = IF b = x.next THEN [is |-> "open", kind |-> k, of |-> c] ELSE v.blocks[b]
  <2>1. v.blocks \in [Blocks -> [is : {"none", "open", "closed"}, kind : Kinds \cup {"none"}, of : Blocks \cup {NoIndex}]]
    BY <1>2 DEF Streams
  <2> QED
    BY <1>2, <1>3, <1>4, <1>5, <1>6, <1>7, <2>1
<1>8. Tidy(y)
  <2> SUFFICES ASSUME y.client # "broken" PROVE Tidy(y)
    BY DEF Tidy
  <2>1. x.client = "in" /\ y.client = "in" /\ ~x.ended
    BY <1>2, <1>5, <1>6 DEF Tidy
  <2>2. \A b \in Blocks : b >= y.next => y.blocks[b] = NoBlock
    BY <1>2, <1>3, <1>6, <1>7, <2>1 DEF Tidy, Blocks, Streams
  <2>3. \A b \in Blocks : y.blocks[b].is = "open" <=> b = x.next
    BY <1>2, <1>3, <1>6, <1>7, <2>1 DEF Tidy
  <2> QED
    BY <1>2, <1>3, <1>4, <1>6, <1>7, <2>1, <2>2, <2>3 DEF Tidy, Kinds
<1> QED
  BY <1>1, <1>2, <1>3, <1>4, <1>5, <1>6, <1>7, <1>8

LEMMA SentTidy ==
    ASSUME NEW x \in Streams, NEW y, Tidy(x), Sent(x, y), y.blocks = x.blocks, y.client \in {x.client, "broken"}
    PROVE  Tidy(y)
BY DEF Tidy, Sent

LEMMA OpenRun ==
    ASSUME NEW x \in Streams, Tidy(x), x.begun, x.next < MaxBlocks, NEW k \in Kinds, k # "tool"
    PROVE  LET y == OpenBlock(x, k, NoIndex) IN
           /\ y \in Streams /\ Tidy(y) /\ y.kind = k /\ y.begun /\ y.ended = x.ended /\ y.blockOf = x.blockOf
           /\ y.owed = x.owed
           /\ y.client = IF x.client = "in" THEN "in" ELSE "broken"
<1>1. ASSUME NEW c \in Blocks \cup {NoIndex}, c = NoIndex
      PROVE  LET y == OpenBlock(x, k, c) IN
             /\ y \in Streams /\ Tidy(y) /\ y.kind = k /\ y.at = x.next /\ y.next = x.next + 1 /\ x.next \in Blocks
             /\ y.begun /\ y.ended = x.ended /\ y.blockOf = x.blockOf /\ y.owed = x.owed
             /\ y.client = IF x.client = "in" THEN "in" ELSE "broken"
             /\ x.client = "in" => y.blocks[x.next] = [is |-> "open", kind |-> k, of |-> c]
  BY <1>1, OpenTidy
<1>2. NoIndex \in Blocks \cup {NoIndex}
  OBVIOUS
<1> QED
  BY <1>1, <1>2

LEMMA RunTidy ==
    ASSUME NEW x \in Streams, Tidy(x), x.begun, x.next < MaxBlocks, NEW k \in {"text", "think"}
    PROVE  LET y == Run(x, k) IN
           /\ y \in Streams /\ Tidy(y) /\ y.begun /\ y.ended = x.ended /\ y.blockOf = x.blockOf
           /\ y.client = IF x.client = "in" THEN "in" ELSE "broken"
           /\ x.client = "in" => y.owed = x.owed \ {NoIndex}
<1> DEFINE v == Continues(x, k)
           y == SendPiece(v, v.at, k, NoIndex)
<1>1. /\ v \in Streams /\ Tidy(v) /\ v.begun /\ v.ended = x.ended /\ v.blockOf = x.blockOf /\ v.owed = x.owed
      /\ v.kind = k /\ v.client = IF x.client = "in" THEN "in" ELSE "broken"
  <2>1. CASE x.kind = k
    BY <2>1 DEF Continues, Tidy
  <2>2. CASE x.kind # k
    <3>1. k \in Kinds /\ k # "tool" /\ NoIndex \in Blocks \cup {NoIndex}
      BY DEF Kinds
    <3>2. v = OpenBlock(x, k, NoIndex)
      BY <2>2 DEF Continues
    <3> QED
      BY <3>1, <3>2, OpenRun
  <2> QED
    BY <2>1, <2>2
<1> HIDE DEF v
<1>2. x.client = "in" => v.at # NoIndex /\ v.blocks[v.at] = [is |-> "open", kind |-> k, of |-> NoIndex]
  <2> SUFFICES ASSUME x.client = "in" PROVE v.at # NoIndex /\ v.blocks[v.at] = [is |-> "open", kind |-> k, of |-> NoIndex]
    OBVIOUS
  <2>1. /\ v.at \in Blocks /\ v.blocks[v.at].kind = k /\ v.blocks[v.at].of = NoIndex /\ v.blocks[v.at].is = "open"
    BY <1>1 DEF Tidy
  <2>2. v.blocks[v.at] \in [is : {"none", "open", "closed"}, kind : Kinds \cup {"none"}, of : Blocks \cup {NoIndex}]
    BY <1>1, <2>1 DEF Streams
  <2> QED
    BY <2>1, <2>2 DEF Blocks, NoIndex
<1>3. /\ Sent(v, y) /\ y.blocks = v.blocks
      /\ IF v.client = "in" /\ v.at # NoIndex /\ v.blocks[v.at] = [is |-> "open", kind |-> k, of |-> NoIndex]
         THEN y.client = "in" /\ y.owed = v.owed \ {NoIndex}
         ELSE y.client = "broken"
  BY <1>1, SendPieceSends
<1>4. Run(x, k) = y
  BY DEF Run, v
<1> HIDE DEF y
<1>5. Tidy(y)
  BY <1>1, <1>3, SentTidy
<1> QED
  BY <1>1, <1>2, <1>3, <1>4, <1>5 DEF Sent

(* What a call has come to: a block was opened for it, or the one it has is used.      *)
LEMMA BeginsTidy ==
    ASSUME NEW x \in Streams, Tidy(x), x.begun, x.next < MaxBlocks, NEW c \in Blocks
    PROVE  LET y == Begins(x, c) IN
           /\ Index(c) \in Blocks
           /\ y \in Streams /\ Tidy(y) /\ y.begun /\ y.ended = x.ended /\ y.owed = x.owed
           /\ y.client \in {x.client, "broken"}
           /\ x.blockOf[Index(c)] # NoIndex => y = x
           /\ x.blockOf[Index(c)] = NoIndex =>
                /\ y.client = IF x.client = "in" THEN "in" ELSE "broken"
                /\ x.client = "in" =>
                     /\ y.kind = "tool" /\ y.at = x.next /\ y.blocks[x.next] = [is |-> "open", kind |-> "tool", of |-> c]
                     /\ x.next \in Blocks /\ y.blockOf = [x.blockOf EXCEPT ![Index(c)] = x.next]
<1> DEFINE v == OpenBlock(x, "tool", c)
           y == [v EXCEPT !.blockOf[Index(c)] = x.next]
<1>0. Index(c) \in Blocks
  BY StreamAssumption DEF Index, Blocks
<1>1. CASE x.blockOf[Index(c)] # NoIndex
  BY <1>0, <1>1 DEF Begins
<1>2. CASE x.blockOf[Index(c)] = NoIndex
  <2>1. Begins(x, c) = y
    BY <1>2 DEF Begins
  <2>2. /\ v \in Streams /\ Tidy(v) /\ v.kind = "tool" /\ v.at = x.next /\ v.next = x.next + 1 /\ x.next \in Blocks
        /\ v.begun /\ v.ended = x.ended /\ v.blockOf = x.blockOf /\ v.owed = x.owed
        /\ v.client = IF x.client = "in" THEN "in" ELSE "broken"
        /\ x.client = "in" => v.blocks[x.next] = [is |-> "open", kind |-> "tool", of |-> c]
    <3>1. "tool" \in Kinds
      BY DEF Kinds
    <3> QED
      BY <3>1, OpenTidy
  <2> HIDE DEF v
  <2>3. /\ y \in Streams /\ y.kind = v.kind /\ y.at = v.at /\ y.next = v.next /\ y.begun = v.begun /\ y.ended = v.ended
        /\ y.client = v.client /\ y.blocks = v.blocks /\ y.owed = v.owed
        /\ y.blockOf = [v.blockOf EXCEPT ![Index(c)] = x.next]
    BY <1>0, <2>2 DEF Streams
  <2> HIDE DEF y
  <2>4. Tidy(y)
    BY <2>2, <2>3 DEF Tidy
  <2> QED
    BY <1>0, <1>2, <2>1, <2>2, <2>3, <2>4
<1> QED
  BY <1>1, <1>2

LEMMA CallTidy ==
    ASSUME NEW x \in Streams, Tidy(x), x.begun, x.next < MaxBlocks, NEW c \in Blocks, NEW piece \in BOOLEAN
    PROVE  LET y == Call(x, c, piece)
               b == x.blockOf[Index(c)] IN
           /\ Index(c) \in Blocks
           /\ y \in Streams /\ Tidy(y) /\ y.begun /\ y.ended = x.ended
           /\ y.client \in {x.client, "broken"}
           /\ b = NoIndex => y.client = IF x.client = "in" THEN "in" ELSE "broken"
           /\ x.client = "in" /\ b = NoIndex =>
                /\ y.owed = (IF piece THEN x.owed \ {c} ELSE x.owed)
                /\ y.kind = "tool" /\ y.at = x.next /\ y.blocks[x.next].of = c
                /\ x.next \in Blocks /\ y.blockOf = [x.blockOf EXCEPT ![Index(c)] = x.next]
           /\ b # NoIndex => y.kind = x.kind /\ y.at = x.at /\ y.blocks = x.blocks /\ y.blockOf = x.blockOf
           /\ ~piece /\ b # NoIndex => y = x
           /\ x.client = "in" /\ piece /\ b # NoIndex /\ x.blocks[b] = [is |-> "open", kind |-> "tool", of |-> c] =>
                y.client = "in" /\ y.owed = x.owed \ {c}
<1> DEFINE v == Begins(x, c)
           b == x.blockOf[Index(c)]
           y == SendPiece(v, v.blockOf[Index(c)], "tool", c)
<1>1. /\ Index(c) \in Blocks
      /\ v \in Streams /\ Tidy(v) /\ v.begun /\ v.ended = x.ended /\ v.owed = x.owed
      /\ v.client \in {x.client, "broken"}
      /\ b # NoIndex => v = x
      /\ b = NoIndex =>
           /\ v.client = IF x.client = "in" THEN "in" ELSE "broken"
           /\ x.client = "in" =>
                /\ v.kind = "tool" /\ v.at = x.next /\ v.blocks[x.next] = [is |-> "open", kind |-> "tool", of |-> c]
                /\ x.next \in Blocks /\ v.blockOf = [x.blockOf EXCEPT ![Index(c)] = x.next]
  BY BeginsTidy
<1>2. Call(x, c, piece) = IF piece THEN y ELSE v
  BY DEF Call
<1>3. x.client = "in" /\ b = NoIndex => v.blockOf[Index(c)] = x.next /\ x.next # NoIndex
  <2>1. x.blockOf \in [Blocks -> Blocks \cup {NoIndex}]
    BY DEF Streams
  <2>2. \A n \in Blocks : n # NoIndex
    BY DEF Blocks, NoIndex
  <2> HIDE DEF v
  <2> QED
    BY <1>1, <2>1, <2>2
<1> HIDE DEF v
<1>4. /\ Sent(v, y) /\ y.blocks = v.blocks
      /\ IF v.client = "in" /\ v.blockOf[Index(c)] # NoIndex
               /\ v.blocks[v.blockOf[Index(c)]] = [is |-> "open", kind |-> "tool", of |-> c]
         THEN y.client = "in" /\ y.owed = v.owed \ {c}
         ELSE y.client = "broken"
  BY <1>1, SendPieceSends
<1> HIDE DEF y
<1>5. Tidy(y) /\ y \in Streams /\ y.begun = v.begun /\ y.ended = v.ended /\ y.kind = v.kind /\ y.at = v.at /\ y.blockOf = v.blockOf
      /\ y.client \in {v.client, "broken"}
  BY <1>1, <1>4, SentTidy DEF Sent
<1>6. CASE b = NoIndex
  <2>1. CASE x.client = "in"
    <3>1. /\ v.client = "in" /\ v.kind = "tool" /\ v.at = x.next /\ v.owed = x.owed
          /\ v.blocks[x.next] = [is |-> "open", kind |-> "tool", of |-> c]
          /\ x.next \in Blocks /\ v.blockOf = [x.blockOf EXCEPT ![Index(c)] = x.next]
      BY <1>1, <1>6, <2>1
    <3>2. v.blocks[x.next].of = c
      BY <3>1
    <3>3. CASE piece
      <4>1. y.client = "in" /\ y.owed = v.owed \ {c} /\ y.blocks = v.blocks
        BY <1>3, <1>4, <1>6, <2>1, <3>1
      <4> QED
        BY <1>1, <1>2, <1>5, <1>6, <2>1, <3>1, <3>2, <3>3, <4>1
    <3>4. CASE ~piece
      BY <1>1, <1>2, <1>6, <2>1, <3>1, <3>2, <3>4
    <3> QED
      BY <3>3, <3>4
  <2>2. CASE x.client # "in"
    <3>1. v.client = "broken" /\ y.client = "broken"
      BY <1>1, <1>4, <1>6, <2>2 DEF Sent
    <3> QED
      BY <1>1, <1>2, <1>5, <1>6, <2>2, <3>1
  <2> QED
    BY <2>1, <2>2
<1>7. CASE b # NoIndex
  BY <1>1, <1>2, <1>4, <1>5, <1>7
<1> QED
  BY <1>6, <1>7

LEMMA FinishTidy ==
    ASSUME NEW x \in Streams, Tidy(x), x.begun, Target # "openai"
    PROVE  LET y == FinishStream(x) IN
           /\ y \in Streams /\ Tidy(y) /\ y.owed = x.owed
           /\ y.client = IF x.client = "broken" THEN "broken" ELSE "over"
<1> DEFINE v == CloseOpenBlock(x)
           w == SendFinish(v)
           z == SendEnd(w)
           y == [z EXCEPT !.ended = TRUE]
<1>1. CASE x.ended
  BY <1>1 DEF FinishStream, Tidy
<1>2. CASE ~x.ended
  <2>1. FinishStream(x) = y
    BY <1>2 DEF FinishStream
  <2>2. /\ v \in Streams /\ Tidy(v) /\ v.kind = "none" /\ v.begun = x.begun /\ v.ended = x.ended
        /\ v.owed = x.owed /\ v.client = x.client
    BY CloseTidy
  <2> HIDE DEF v
  <2>3. /\ Sent(v, w) /\ w.blocks = v.blocks /\ w.owed = v.owed
        /\ IF /\ v.client \in {"in", "finishing"} /\ \A b \in Blocks : v.blocks[b].is # "open"
           THEN w.client = "finishing" ELSE w.client = "broken"
    BY <2>2, SendFinishSends
  <2>4. w.client = IF x.client = "broken" THEN "broken" ELSE "finishing"
    BY <1>2, <2>2, <2>3 DEF Tidy
  <2> HIDE DEF w
  <2>5. /\ Sent(w, z) /\ z.blocks = w.blocks /\ z.owed = w.owed
        /\ z.client = IF w.client = "finishing" THEN "over" ELSE "broken"
    <3>1. w \in Streams
      BY <2>3 DEF Sent
    <3> QED
      BY <3>1, SendEndSends
  <2> HIDE DEF z
  <2>6. /\ y \in Streams /\ y.ended /\ y.client = z.client /\ y.blocks = z.blocks /\ y.owed = z.owed
        /\ y.begun = z.begun /\ y.kind = z.kind /\ y.at = z.at /\ y.next = z.next
    BY <2>5 DEF Streams, Sent
  <2> HIDE DEF y
  <2>7. y.begun = v.begun /\ y.kind = "none" /\ y.at = v.at /\ y.next = v.next /\ y.blocks = v.blocks
    BY <2>2, <2>3, <2>5, <2>6 DEF Sent
  <2>8. Tidy(y)
    <3> SUFFICES ASSUME y.client # "broken" PROVE Tidy(y)
      BY DEF Tidy
    <3>1. x.client # "broken" /\ y.client = "over" /\ v.client # "broken"
      BY <2>2, <2>4, <2>5, <2>6
    <3> QED
      BY <2>2, <2>6, <2>7, <3>1 DEF Tidy
  <2> QED
    BY <2>1, <2>2, <2>3, <2>4, <2>5, <2>6, <2>8
<1> QED
  BY <1>1, <1>2

-----------------------------------------------------------------------------
(* The invariant of the six translators.                                       *)

(* An OpenAI upstream that keeps to its format stays with the call whose block is open.  *)
Attentive ==
    odd = {} /\ vendor.phase = "on" =>
        \A c \in Blocks : stream.blockOf[c] # NoIndex =>
            /\ c \in Begun
            /\ vendor.current = c => /\ stream.kind = "tool" /\ stream.at = stream.blockOf[c]
                                     /\ stream.blocks[stream.at].of = c

FinishedIsOver == stream.client # "broken" /\ vendor.phase \in {"finished", "over"} => stream.client = "over"

(* From Gemini to OpenAI: no block is held open, and the reader follows.                 *)
Loose(x) ==
    /\ x.client \in {"in", "over"}
    /\ x.ended <=> x.client = "over"
    /\ x.kind = "none"
    /\ \A b \in Blocks : b >= x.next => x.blocks[b] = NoBlock

(* From Anthropic: the upstream's blocks have indexes of the reader's in their order.    *)
InOrder ==
    /\ \A b \in Blocks : b >= stream.next => stream.blocks[b] = NoBlock
    /\ \A b \in Blocks : vendor.block[b].is = "none" => stream.next =< b

(* A call that is open at the upstream is open at the reader.                            *)
CallsOpen ==
    /\ vendor.phase \in {"on", "finished", "over"} =>
         stream.client = CASE vendor.phase = "on" -> "in" [] vendor.phase = "finished" -> "finishing" [] OTHER -> "over"
    /\ \A i \in Blocks : vendor.block[i] = [is |-> "open", kind |-> "tool"] =>
         /\ stream.blockOf[i] # NoIndex
         /\ stream.blocks[stream.blockOf[i]] = [is |-> "open", kind |-> "tool", of |-> i]

(* What is open at the upstream is open at the reader, and nothing else.                  *)
ItemsOpen ==
    /\ stream.client \in {"before", "in", "over"}
    /\ stream.begun <=> stream.client # "before"
    /\ stream.ended <=> stream.client = "over"
    /\ vendor.phase \in {"on", "finished"} => ~stream.ended
    /\ vendor.started => stream.begun
    /\ \A i \in Blocks : vendor.block[i].is # "none" => stream.begun
    /\ vendor.phase = "finished" => /\ stream.begun \/ "bare" \in odd
                                    /\ \A i \in Blocks : vendor.block[i].is # "open"
    /\ vendor.phase = "over" => stream.client = "over"
    /\ \A i \in Blocks : vendor.block[i].is = "open" =>
         /\ stream.begun /\ stream.blockOf[i] # NoIndex
         /\ stream.blocks[stream.blockOf[i]] = [is |-> "open", kind |-> vendor.block[i].kind, of |-> i]
    /\ \A b \in Blocks : stream.blocks[b].is = "open" =>
         LET i == stream.blocks[b].of IN i \in Blocks /\ vendor.block[i].is = "open" /\ stream.blockOf[i] = b

Shaped ==
    /\ Source = "openai" => Tidy(stream) /\ FinishedIsOver /\ Attentive
    /\ pair = <<"gemini", "anthropic">> => Tidy(stream) /\ FinishedIsOver
    /\ pair = <<"gemini", "openai">> => Loose(stream) /\ FinishedIsOver
    /\ pair = <<"anthropic", "openai">> => InOrder /\ CallsOpen
    /\ pair = <<"anthropic", "responses">> => \/ InOrder /\ ItemsOpen
                                              \/ stream.client = "broken" /\ vendor.phase \in {"over", "ended"}

OnIsNotOver ==
    stream.client # "broken" =>
        /\ vendor.phase = "on" => stream.client # "over"
        /\ vendor.complete => stream.client = "over"

StreamIInv == StreamTypeOK /\ ReaderFollows /\ NothingLost /\ OnIsNotOver /\ Shaped
              /\ (vendor.complete => vendor.phase = "ended")

LEMMA PairCases ==
    ASSUME pair \in Pairs
    PROVE  \/ Source = "openai" /\ Target \in {"anthropic", "responses"} /\ Waiting = {}
              /\ pair \notin {<<"gemini", "anthropic">>, <<"gemini", "openai">>, <<"anthropic", "openai">>, <<"anthropic", "responses">>}
           \/ Source = "gemini" /\ Target = "anthropic" /\ pair = <<"gemini", "anthropic">> /\ Waiting = {}
           \/ Source = "gemini" /\ Target = "openai" /\ pair = <<"gemini", "openai">> /\ Waiting = {}
           \/ Source = "anthropic" /\ Target = "openai" /\ pair = <<"anthropic", "openai">> /\ Waiting = {}
           \/ Source = "anthropic" /\ Target = "responses" /\ pair = <<"anthropic", "responses">>
BY DEF Pairs, Source, Target, Waiting

LEMMA StreamInitIInv == StreamInit => StreamIInv
<1> SUFFICES ASSUME StreamInit PROVE StreamIInv
  OBVIOUS
<1>0. pair \in Pairs
  BY DEF StreamInit
<1>1. StreamStart \in Streams
  BY StreamAssumption DEF StreamStart, Streams, NoBlock
<1>2. /\ stream \in Streams /\ ~stream.begun /\ ~stream.ended /\ stream.kind = "none" /\ stream.at = NoIndex /\ stream.next = 0
      /\ stream.client = IF Target = "openai" THEN "in" ELSE "before"
      /\ stream.owed = {} /\ \A b \in Blocks : stream.blockOf[b] = NoIndex /\ stream.blocks[b] = NoBlock
  BY <1>1 DEF StreamInit, StreamStart, Streams
<1>3. /\ vendor \in Upstreams /\ vendor.phase = "on" /\ ~vendor.complete /\ ~vendor.started
      /\ \A b \in Blocks : vendor.block[b] = [is |-> "none", kind |-> "none"]
  BY DEF StreamInit, Upstreams
<1>4. StreamTypeOK
  BY <1>2, <1>3 DEF StreamInit, StreamTypeOK
<1>5. ReaderFollows /\ NothingLost /\ OnIsNotOver
  BY <1>2, <1>3 DEF ReaderFollows, NothingLost, OnIsNotOver
<1>6. \A b \in Blocks : stream.blocks[b].is # "open"
  BY <1>2 DEF NoBlock
<1>7. Target # "openai" => Tidy(stream)
  BY <1>2, <1>6 DEF Tidy
<1>8. Target = "openai" => Loose(stream)
  BY <1>2 DEF Loose
<1>9. \A b \in Blocks : 0 =< b
  BY DEF Blocks
<1>10. InOrder /\ Attentive /\ FinishedIsOver
  BY <1>2, <1>3, <1>9 DEF InOrder, Attentive, FinishedIsOver
<1>11. \A i \in Blocks : vendor.block[i].is = "none" /\ vendor.block[i] # [is |-> "open", kind |-> "tool"]
  BY <1>3
<1>12. Target = "openai" => CallsOpen
  BY <1>2, <1>3, <1>11 DEF CallsOpen
<1>13. Target = "responses" => ItemsOpen
  BY <1>2, <1>3, <1>6, <1>11 DEF ItemsOpen
<1>14. Shaped
  BY <1>0, <1>7, <1>8, <1>10, <1>12, <1>13, PairCases DEF Shaped
<1> QED
  BY <1>3, <1>4, <1>5, <1>14 DEF StreamIInv

LEMMA ReceivedTyped ==
    ASSUME NEW x \in Streams, NEW c \in Blocks \cup {NoIndex}
    PROVE  LET y == Received(x, c) IN
           /\ y \in Streams /\ y.owed = x.owed \cup {c}
           /\ y.begun = x.begun /\ y.ended = x.ended /\ y.kind = x.kind /\ y.at = x.at /\ y.next = x.next
           /\ y.blockOf = x.blockOf /\ y.blocks = x.blocks /\ y.client = x.client
BY DEF Received, Streams

(* What a chunk leaves when its parts are as tidy as it found them.                      *)
LEMMA OpenAiParts1 ==
    ASSUME NEW p \in OpenAiParts
    PROVE  \/ p = NoPart /\ p.kind = "none" /\ p.call = NoIndex /\ ~p.piece
           \/ p.kind \in {"text", "think"} /\ p.call = NoIndex /\ p.piece = TRUE /\ p # NoPart
           \/ p.kind = "tool" /\ p.call \in Blocks /\ p.piece \in BOOLEAN /\ p # NoPart
BY DEF OpenAiParts, NoPart, Runs

LEMMA PartTidy ==
    ASSUME NEW x \in Streams, Tidy(x), x.begun, NEW p \in OpenAiParts, p.kind # "none" => x.next < MaxBlocks
    PROVE  LET y == Part(x, p) IN
           y \in Streams /\ Tidy(y) /\ y.begun /\ y.client \in {x.client, "broken"}
<1>1. CASE p = NoPart /\ p.kind = "none"
  BY <1>1 DEF Part
<1>2. CASE p.kind \in {"text", "think"}
  <2>1. Part(x, p) = Run(x, p.kind)
    BY <1>2 DEF Part
  <2> DEFINE y == Run(x, p.kind)
  <2>2. /\ y \in Streams /\ Tidy(y) /\ y.begun /\ y.ended = x.ended /\ y.blockOf = x.blockOf
        /\ y.client = IF x.client = "in" THEN "in" ELSE "broken"
        /\ x.client = "in" => y.owed = x.owed \ {NoIndex}
    BY <1>2, RunTidy
  <2> QED
    BY <2>1, <2>2
<1>3. CASE p.kind = "tool" /\ p.call \in Blocks /\ p.piece \in BOOLEAN
  <2>1. Part(x, p) = Call(x, p.call, p.piece)
    BY <1>3 DEF Part
  <2> DEFINE y == Call(x, p.call, p.piece)
  <2>2. y \in Streams /\ Tidy(y) /\ y.begun /\ y.client \in {x.client, "broken"}
    BY <1>3, CallTidy
  <2> QED
    BY <2>1, <2>2
<1> QED
  BY <1>1, <1>2, <1>3, OpenAiParts1

LEMMA OpenAiVendor ==
    ASSUME vendor \in Upstreams, NEW p \in OpenAiParts, NEW finish \in BOOLEAN, vendor.phase # "ended", ~vendor.complete,
           vendor' = [vendor EXCEPT !.phase = IF finish THEN "finished" ELSE @,
                                    !.current = IF p.kind = "none" THEN @ ELSE p.call,
                                    !.block = [b \in Blocks |-> IF b = p.call THEN [is |-> "open", kind |-> "tool"] ELSE @[b]]]
    PROVE  /\ vendor' \in Upstreams /\ ~vendor'.complete /\ vendor'.phase = IF finish THEN "finished" ELSE vendor.phase
           /\ vendor'.current = IF p.kind = "none" THEN vendor.current ELSE p.call
           /\ \A b \in Blocks : vendor'.block[b] = IF b = p.call THEN [is |-> "open", kind |-> "tool"] ELSE vendor.block[b]
<1> DEFINE blk == [b \in Blocks |-> IF b = p.call THEN [is |-> "open", kind |-> "tool"] ELSE vendor.block[b]]
           cur == IF p.kind = "none" THEN vendor.current ELSE p.call
           ph == IF finish THEN "finished" ELSE vendor.phase
<1>1. blk \in [Blocks -> [is : {"none", "open", "closed"}, kind : Kinds \cup {"none"}]]
  BY DEF Upstreams, Kinds
<1>2. cur \in Blocks \cup {NoIndex}
  BY OpenAiParts1 DEF Upstreams
<1>3. ph \in {"on", "finished", "over", "ended"}
  BY DEF Upstreams
<1>4. vendor' = [vendor EXCEPT !.phase = ph, !.current = cur, !.block = blk]
  BY DEF Upstreams
<1>5. \A b \in Blocks : blk[b] = IF b = p.call THEN [is |-> "open", kind |-> "tool"] ELSE vendor.block[b]
  OBVIOUS
<1> HIDE DEF blk, cur, ph
<1>6. vendor' \in Upstreams /\ vendor'.complete = vendor.complete /\ vendor'.phase = ph /\ vendor'.current = cur /\ vendor'.block = blk
  BY <1>1, <1>2, <1>3, <1>4 DEF Upstreams
<1> QED
  BY <1>5, <1>6 DEF cur, ph

(* A part that is no oddity is sent on.                                                  *)
LEMMA PartFollows ==
    ASSUME StreamIInv, Source = "openai", vendor.phase = "on", odd = {},
           NEW p \in OpenAiParts, p # NoPart, stream.next < MaxBlocks,
           StreamOddities(p) = {},
           NEW x \in Streams, x.begun, Tidy(x), x.client = "in",
           x.kind = stream.kind, x.at = stream.at, x.next = stream.next, x.blockOf = stream.blockOf, x.blocks = stream.blocks,
           x.owed = IF p.piece THEN stream.owed \cup {p.call} ELSE stream.owed
    PROVE  LET y == Part(x, p) IN
           /\ y.client = "in" /\ y.owed = {}
           /\ \A c \in Blocks : y.blockOf[c] # NoIndex =>
                /\ c \in Begun \/ c = p.call
                /\ p.call = c => y.kind = "tool" /\ y.at = y.blockOf[c] /\ y.blocks[y.at].of = c
<1>0. pair \in Pairs /\ stream.owed = {}
  BY PairCases DEF StreamIInv, NothingLost, StreamTypeOK
<1>1. \A c \in Blocks : stream.blockOf[c] # NoIndex =>
            /\ c \in Begun
            /\ vendor.current = c => /\ stream.kind = "tool" /\ stream.at = stream.blockOf[c]
                                     /\ stream.blocks[stream.at].of = c
  BY DEF StreamIInv, Shaped, Attentive
<1>2. CASE p.kind \in {"text", "think"} /\ p.call = NoIndex /\ p.piece = TRUE
  <2> DEFINE y == Run(x, p.kind)
  <2>1. Part(x, p) = y
    BY <1>2 DEF Part
  <2>2. /\ y \in Streams /\ Tidy(y) /\ y.begun /\ y.ended = x.ended /\ y.blockOf = x.blockOf
        /\ y.client = IF x.client = "in" THEN "in" ELSE "broken"
        /\ x.client = "in" => y.owed = x.owed \ {NoIndex}
    BY <1>2, RunTidy
  <2>3. \A c \in Blocks : c # NoIndex
    BY DEF Blocks, NoIndex
  <2> QED
    BY <1>0, <1>1, <1>2, <2>1, <2>2, <2>3
<1>3. CASE p.kind = "tool" /\ p.call \in Blocks /\ p.piece \in BOOLEAN
  <2> DEFINE c == p.call
             b == x.blockOf[c]
             y == Call(x, c, p.piece)
  <2>1. Part(x, p) = y
    BY <1>3 DEF Part
  <2>2. Index(c) = c
    BY <1>3 DEF StreamOddities, Index
  <2>3. b # NoIndex => /\ x.kind = "tool" /\ x.at = b /\ x.blocks[b] = [is |-> "open", kind |-> "tool", of |-> c]
    <3> SUFFICES ASSUME b # NoIndex
                 PROVE  x.kind = "tool" /\ x.at = b /\ x.blocks[b] = [is |-> "open", kind |-> "tool", of |-> c]
      OBVIOUS
    <3>1. vendor.current = c
      BY <1>1, <1>3 DEF StreamOddities
    <3>2. x.kind = "tool" /\ x.at = b /\ x.blocks[b].of = c
      BY <1>1, <1>3, <3>1
    <3>3. b \in Blocks /\ x.blocks[b].is = "open" /\ x.blocks[b].kind = "tool"
      BY <3>2 DEF Tidy
    <3>4. x.blocks[b] \in [is : {"none", "open", "closed"}, kind : Kinds \cup {"none"}, of : Blocks \cup {NoIndex}]
      BY <3>3 DEF Streams
    <3> QED
      BY <3>2, <3>3, <3>4
  <2>4. /\ y.client \in {x.client, "broken"}
        /\ b = NoIndex => y.client = IF x.client = "in" THEN "in" ELSE "broken"
        /\ x.client = "in" /\ b = NoIndex =>
             /\ y.owed = (IF p.piece THEN x.owed \ {c} ELSE x.owed)
             /\ y.kind = "tool" /\ y.at = x.next /\ y.blocks[x.next].of = c
             /\ x.next \in Blocks /\ y.blockOf = [x.blockOf EXCEPT ![c] = x.next]
        /\ b # NoIndex => y.kind = x.kind /\ y.at = x.at /\ y.blocks = x.blocks /\ y.blockOf = x.blockOf
        /\ ~p.piece /\ b # NoIndex => y = x
        /\ x.client = "in" /\ p.piece /\ b # NoIndex /\ x.blocks[b] = [is |-> "open", kind |-> "tool", of |-> c] =>
             y.client = "in" /\ y.owed = x.owed \ {c}
    <3>1. c \in Blocks /\ x.next < MaxBlocks
      BY <1>3
    <3> HIDE DEF c
    <3> QED
      BY <1>3, <2>2, <3>1, CallTidy
  <2>5. x.blockOf \in [Blocks -> Blocks \cup {NoIndex}]
    BY DEF Streams
  <2> HIDE DEF y
  <2>6. CASE b = NoIndex
    BY <1>0, <1>1, <1>3, <2>1, <2>4, <2>5, <2>6
  <2>7. CASE b # NoIndex
    BY <1>0, <1>1, <1>3, <2>1, <2>3, <2>4, <2>7
  <2> QED
    BY <2>6, <2>7
<1> QED
  BY <1>2, <1>3, OpenAiParts1

LEMMA OpenAiChunkIInv ==
    ASSUME StreamIInv, NEW p \in OpenAiParts, NEW finish \in BOOLEAN, OpenAiChunk(p, finish)
    PROVE  StreamIInv'
<1> DEFINE x == IF p.piece THEN Received(stream, p.call) ELSE stream
           s == Start(x)
           y == Part(s, p)
           z == IF finish THEN FinishStream(y) ELSE y
<1>1. /\ pair \in Pairs /\ numbered \in BOOLEAN /\ vendor \in Upstreams /\ stream \in Streams
      /\ odd \subseteq {"back", "late", "unnumbered", "bare"} /\ ~vendor.complete
      /\ Source = "openai" /\ Target \in {"anthropic", "responses"} /\ Waiting = {} /\ vendor.phase \in {"on", "finished"}
      /\ pair \notin {<<"gemini", "anthropic">>, <<"gemini", "openai">>, <<"anthropic", "openai">>, <<"anthropic", "responses">>}
      /\ Tidy(stream) /\ FinishedIsOver /\ Attentive
      /\ UNCHANGED <<pair, numbered>> /\ odd' = odd \cup StreamOddities(p)
  BY PairCases DEF StreamIInv, StreamTypeOK, OpenAiChunk, Speaking, Shaped
<1>2. stream' = z
  BY DEF OpenAiChunk, OpenAiToResponses, OpenAiToAnthropic
<1>3. /\ x \in Streams /\ Tidy(x) /\ x.owed = (IF p.piece THEN stream.owed \cup {p.call} ELSE stream.owed)
      /\ x.begun = stream.begun /\ x.kind = stream.kind /\ x.at = stream.at /\ x.next = stream.next
      /\ x.blockOf = stream.blockOf /\ x.blocks = stream.blocks /\ x.client = stream.client
  <2>1. p.piece => p.call \in Blocks \cup {NoIndex}
    BY OpenAiParts1
  <2>2. CASE p.piece
    <3> DEFINE r == Received(stream, p.call)
    <3>1. /\ r \in Streams /\ r.owed = stream.owed \cup {p.call}
          /\ r.begun = stream.begun /\ r.ended = stream.ended /\ r.kind = stream.kind /\ r.at = stream.at
          /\ r.next = stream.next /\ r.blockOf = stream.blockOf /\ r.blocks = stream.blocks /\ r.client = stream.client
      BY <1>1, <2>1, <2>2, ReceivedTyped
    <3> HIDE DEF r
    <3>2. Tidy(r)
      BY <1>1, <3>1 DEF Tidy
    <3>3. x = r
      BY <2>2 DEF r
    <3> HIDE DEF x
    <3> QED
      BY <2>2, <3>1, <3>2, <3>3
  <2>3. CASE ~p.piece
    BY <1>1, <2>3
  <2> QED
    BY <2>2, <2>3
<1> HIDE DEF x
<1>4. /\ s \in Streams /\ Tidy(s) /\ s.begun
      /\ s.kind = x.kind /\ s.at = x.at /\ s.next = x.next
      /\ s.blockOf = x.blockOf /\ s.blocks = x.blocks /\ s.owed = x.owed
      /\ s.client = IF x.client = "before" /\ ~x.begun THEN "in" ELSE IF x.begun THEN x.client ELSE "broken"
  BY <1>3, StartTidy
<1> HIDE DEF s
<1>5. s.client = IF stream.client = "before" THEN "in" ELSE stream.client
  BY <1>1, <1>3, <1>4 DEF Tidy
<1>6. p.kind # "none" => stream.next < MaxBlocks
  BY DEF OpenAiChunk
<1>7. y \in Streams /\ Tidy(y) /\ y.begun /\ y.client \in {s.client, "broken"}
  BY <1>3, <1>4, <1>6, PartTidy
<1> HIDE DEF y
<1>8. /\ z \in Streams /\ Tidy(z)
      /\ z.owed = y.owed
      /\ z.client = IF finish /\ y.client # "broken" THEN "over" ELSE y.client
      /\ ~finish => z = y
  <2>1. CASE finish
    BY <1>1, <1>7, <2>1, FinishTidy
  <2>2. CASE ~finish
    BY <1>7, <2>2
  <2> QED
    BY <2>1, <2>2
<1>9. /\ vendor' \in Upstreams /\ ~vendor'.complete /\ vendor'.phase = IF finish THEN "finished" ELSE vendor.phase
      /\ vendor'.current = IF p.kind = "none" THEN vendor.current ELSE p.call
      /\ \A b \in Blocks : vendor'.block[b] = IF b = p.call THEN [is |-> "open", kind |-> "tool"] ELSE vendor.block[b]
  BY <1>1, OpenAiVendor DEF OpenAiChunk
<1> HIDE DEF z
<1>10. StreamTypeOK'
  BY <1>1, <1>2, <1>8, <1>9 DEF StreamTypeOK, StreamOddities
<1>11. vendor'.phase = "on" => z.client # "over"
  BY <1>1, <1>5, <1>7, <1>8, <1>9 DEF StreamIInv, OnIsNotOver
<1>12. vendor'.phase \in {"finished", "over"} /\ z.client # "broken" => z.client = "over"
  BY <1>1, <1>5, <1>7, <1>8, <1>9 DEF FinishedIsOver
<1>13. ASSUME odd' = {}
       PROVE  /\ z.client # "broken" /\ z.owed = {}
              /\ vendor'.phase = "on" =>
                   \A c \in Blocks : z.blockOf[c] # NoIndex =>
                      /\ vendor'.block[c].is # "none"
                      /\ vendor'.current = c => z.kind = "tool" /\ z.at = z.blockOf[c] /\ z.blocks[z.at].of = c
  <2>1. odd = {} /\ StreamOddities(p) = {} /\ stream.client # "broken" /\ stream.owed = {}
    BY <1>1, <1>13 DEF StreamIInv, ReaderFollows, NothingLost
  <2>2. CASE p = NoPart
    <3>1. y = s /\ p.kind = "none" /\ ~p.piece /\ p.call = NoIndex
      BY <2>2 DEF y, Part, NoPart
    <3>2. \A c \in Blocks : c # NoIndex
      BY DEF Blocks, NoIndex
    <3>3. z.client # "broken" /\ z.owed = {}
      BY <1>3, <1>4, <1>5, <1>8, <2>1, <3>1
    <3>4. ASSUME vendor'.phase = "on", NEW c \in Blocks, z.blockOf[c] # NoIndex
          PROVE  /\ vendor'.block[c].is # "none"
                 /\ vendor'.current = c => z.kind = "tool" /\ z.at = z.blockOf[c] /\ z.blocks[z.at].of = c
      <4>1. vendor.phase = "on" /\ ~finish
        BY <1>9, <3>4
      <4>2. z.kind = stream.kind /\ z.at = stream.at /\ z.blockOf = stream.blockOf /\ z.blocks = stream.blocks
        BY <1>3, <1>4, <1>8, <3>1, <4>1
      <4>3. vendor.block[c].is # "none" /\ (vendor.current = c => z.kind = "tool" /\ z.at = z.blockOf[c] /\ z.blocks[z.at].of = c)
        BY <1>1, <2>1, <3>4, <4>1, <4>2 DEF Attentive, Begun
      <4> QED
        BY <1>9, <3>1, <3>2, <4>3
    <3> QED
      BY <3>3, <3>4
  <2>3. CASE p # NoPart
    <3>1. vendor.phase = "on" /\ p.kind # "none" /\ stream.next < MaxBlocks
      <4>1. vendor.phase = "on"
        BY <1>1, <2>1, <2>3 DEF StreamOddities
      <4>2. p.kind # "none"
        BY <2>3, OpenAiParts1
      <4> QED
        BY <1>6, <4>1, <4>2
    <3>2. s.client = "in"
      BY <1>1, <1>5, <2>1, <3>1 DEF StreamIInv, OnIsNotOver, Tidy
    <3>3. /\ y.client = "in" /\ y.owed = {}
          /\ \A c \in Blocks : y.blockOf[c] # NoIndex =>
               /\ c \in Begun \/ c = p.call
               /\ p.call = c => y.kind = "tool" /\ y.at = y.blockOf[c] /\ y.blocks[y.at].of = c
      BY <1>1, <1>3, <1>4, <2>1, <2>3, <3>1, <3>2, PartFollows DEF y
    <3>4. z.client # "broken" /\ z.owed = {}
      BY <1>8, <3>3
    <3>5. ASSUME vendor'.phase = "on" PROVE z = y
      BY <1>8, <1>9, <3>5
    <3>6. \A c \in Blocks : c \in Begun \/ c = p.call => vendor'.block[c].is # "none"
      BY <1>9 DEF Begun
    <3> QED
      BY <1>9, <3>1, <3>3, <3>4, <3>5, <3>6
  <2> QED
    BY <2>2, <2>3
<1>14. ReaderFollows' /\ NothingLost' /\ OnIsNotOver' /\ (vendor'.complete => vendor'.phase = "ended")
  BY <1>1, <1>2, <1>9, <1>11, <1>13 DEF ReaderFollows, NothingLost, OnIsNotOver, Source
<1>15. Tidy(stream)' /\ FinishedIsOver' /\ Attentive'
  BY <1>2, <1>8, <1>12, <1>13 DEF FinishedIsOver, Attentive, Begun, Tidy
<1>16. Shaped'
  BY <1>1, <1>15 DEF Shaped
<1> QED
  BY <1>10, <1>14, <1>16 DEF StreamIInv

(* What every step that leaves the upstream's blocks alone has to show.                  *)
LEMMA VendorPhase ==
    ASSUME vendor \in Upstreams, NEW ph \in {"on", "finished", "over", "ended"}, NEW said \in BOOLEAN,
           NEW v, v = [vendor EXCEPT !.phase = ph, !.complete = said]
    PROVE  /\ v \in Upstreams /\ v.phase = ph /\ v.complete = said /\ v.current = vendor.current
           /\ v.block = vendor.block /\ v.started = vendor.started
BY DEF Upstreams

LEMMA VendorMoves ==
    ASSUME vendor \in Upstreams, NEW ph \in {"on", "finished", "over", "ended"}, NEW v, v = [vendor EXCEPT !.phase = ph]
    PROVE  /\ v \in Upstreams /\ v.phase = ph /\ v.complete = vendor.complete
           /\ v.current = vendor.current /\ v.block = vendor.block /\ v.started = vendor.started
BY DEF Upstreams

LEMMA StartFollows ==
    ASSUME NEW x \in Streams, Tidy(x)
    PROVE  LET y == Start(x) IN
           /\ y \in Streams /\ Tidy(y) /\ y.begun /\ y.ended = x.ended /\ y.owed = x.owed /\ y.next = x.next
           /\ y.client = IF x.client = "before" THEN "in" ELSE x.client
<1> DEFINE y == Start(x)
<1>1. /\ y \in Streams /\ Tidy(y) /\ y.begun
      /\ y.ended = x.ended /\ y.kind = x.kind /\ y.at = x.at /\ y.next = x.next
      /\ y.blockOf = x.blockOf /\ y.blocks = x.blocks /\ y.owed = x.owed
      /\ y.client = IF x.client = "before" /\ ~x.begun THEN "in" ELSE IF x.begun THEN x.client ELSE "broken"
  BY StartTidy
<1> HIDE DEF y
<1>2. y.client = IF x.client = "before" THEN "in" ELSE x.client
  BY <1>1 DEF Tidy
<1> QED
  BY <1>1, <1>2 DEF y

LEMMA OpenAiSaysDoneIInv ==
    ASSUME StreamIInv, OpenAiSaysDone
    PROVE  StreamIInv'
<1> DEFINE x == Start(stream)
           y == FinishStream(x)
<1>1. /\ pair \in Pairs /\ numbered \in BOOLEAN /\ vendor \in Upstreams /\ stream \in Streams
      /\ odd \subseteq {"back", "late", "unnumbered", "bare"} /\ ~vendor.complete
      /\ Source = "openai" /\ Target \in {"anthropic", "responses"} /\ Waiting = {}
      /\ pair \notin {<<"gemini", "anthropic">>, <<"gemini", "openai">>, <<"anthropic", "openai">>, <<"anthropic", "responses">>}
      /\ Tidy(stream) /\ UNCHANGED <<pair, numbered, odd>>
  BY PairCases DEF StreamIInv, StreamTypeOK, OpenAiSaysDone, Speaking, Shaped
<1>2. stream' = y
  BY DEF OpenAiSaysDone, OpenAiDone
<1>3. /\ x \in Streams /\ Tidy(x) /\ x.begun /\ x.ended = stream.ended /\ x.owed = stream.owed /\ x.next = stream.next
      /\ x.client = IF stream.client = "before" THEN "in" ELSE stream.client
  BY <1>1, StartFollows
<1> HIDE DEF x
<1>4. y \in Streams /\ Tidy(y) /\ y.owed = x.owed /\ y.client = IF x.client = "broken" THEN "broken" ELSE "over"
  BY <1>1, <1>3, FinishTidy
<1> HIDE DEF y
<1>5. vendor' = [vendor EXCEPT !.phase = "over"]
  BY DEF OpenAiSaysDone
<1>6. vendor' \in Upstreams /\ vendor'.phase = "over" /\ ~vendor'.complete
  BY <1>1, <1>5 DEF Upstreams
<1>7. StreamTypeOK'
  BY <1>1, <1>2, <1>4, <1>6 DEF StreamTypeOK
<1>8. y.client = "broken" => stream.client = "broken"
  BY <1>3, <1>4
<1>9. odd = {} => y.owed = {}
  BY <1>1, <1>3, <1>4 DEF StreamIInv, NothingLost
<1>10. ReaderFollows' /\ NothingLost' /\ OnIsNotOver' /\ (vendor'.complete => vendor'.phase = "ended")
  BY <1>1, <1>2, <1>6, <1>8, <1>9 DEF StreamIInv, ReaderFollows, NothingLost, OnIsNotOver, Source
<1>11. Tidy(stream)' /\ FinishedIsOver' /\ Attentive'
  BY <1>2, <1>4, <1>6 DEF FinishedIsOver, Attentive, Tidy
<1>12. Shaped'
  BY <1>1, <1>11 DEF Shaped
<1> QED
  BY <1>7, <1>10, <1>12 DEF StreamIInv

(* From Gemini a call comes whole: its block is opened, filled and closed at once.       *)
LEMMA WholeCallTidy ==
    ASSUME NEW x \in Streams, Tidy(x), x.begun, x.client = "in", x.next < MaxBlocks
    PROVE  LET y == WholeCall(x) IN
           /\ y \in Streams /\ Tidy(y) /\ y.begun /\ y.client = "in" /\ y.owed = x.owed \ {NoIndex}
<1> DEFINE c == NoIndex
           v == OpenBlock(x, "tool", c)
           w == SendPiece(v, x.next, "tool", c)
           y == CloseOpenBlock(w)
<1>1. /\ v \in Streams /\ Tidy(v) /\ v.kind = "tool" /\ v.at = x.next /\ v.next = x.next + 1 /\ x.next \in Blocks
      /\ v.begun /\ v.ended = x.ended /\ v.blockOf = x.blockOf /\ v.owed = x.owed
      /\ v.client = IF x.client = "in" THEN "in" ELSE "broken"
      /\ x.client = "in" => v.blocks[x.next] = [is |-> "open", kind |-> "tool", of |-> c]
  <2>1. "tool" \in Kinds /\ c \in Blocks \cup {NoIndex}
    BY DEF Kinds
  <2> HIDE DEF c
  <2> QED
    BY <2>1, OpenTidy
<1> HIDE DEF v
<1>2. x.next # NoIndex
  BY <1>1 DEF Blocks, NoIndex
<1> HIDE DEF c
<1>3. /\ Sent(v, w) /\ w.blocks = v.blocks
      /\ IF v.client = "in" /\ x.next # NoIndex /\ v.blocks[x.next] = [is |-> "open", kind |-> "tool", of |-> c]
         THEN w.client = "in" /\ w.owed = v.owed \ {c}
         ELSE w.client = "broken"
  BY <1>1, SendPieceSends
<1> HIDE DEF w
<1>4. w \in Streams /\ Tidy(w) /\ w.client = "in" /\ w.owed = x.owed \ {c} /\ w.begun
  BY <1>1, <1>2, <1>3, SentTidy DEF Sent
<1>5. /\ y \in Streams /\ Tidy(y) /\ y.kind = "none"
      /\ y.begun = w.begun /\ y.ended = w.ended /\ y.next = w.next
      /\ y.blockOf = w.blockOf /\ y.owed = w.owed /\ y.client = w.client
  BY <1>4, CloseTidy
<1>6. WholeCall(x) = y
  BY DEF WholeCall, v, w, c
<1> QED
  BY <1>4, <1>5, <1>6 DEF c

LEMMA GeminiParts1 ==
    ASSUME NEW p \in GeminiParts
    PROVE  /\ p.call = NoIndex
           /\ \/ p = NoPart /\ p.kind = "none" /\ ~p.piece
              \/ p.kind \in {"text", "tool"} /\ p.piece = TRUE /\ p # NoPart
BY DEF GeminiParts, NoPart

LEMMA GeminiPartTidy ==
    ASSUME NEW x \in Streams, Tidy(x), x.begun, x.client = "in", NEW p \in GeminiParts, p.kind # "none" => x.next < MaxBlocks
    PROVE  LET y == GeminiPart(x, p) IN
           y \in Streams /\ Tidy(y) /\ y.begun /\ y.client = "in" /\ y.owed = IF p.piece THEN x.owed \ {NoIndex} ELSE x.owed
<1>1. CASE p = NoPart /\ p.kind = "none" /\ ~p.piece
  BY <1>1 DEF GeminiPart
<1>2. CASE p.kind = "text" /\ p.piece = TRUE
  <2>1. GeminiPart(x, p) = Run(x, p.kind)
    BY <1>2 DEF GeminiPart
  <2> DEFINE y == Run(x, p.kind)
  <2>2. /\ y \in Streams /\ Tidy(y) /\ y.begun /\ y.ended = x.ended /\ y.blockOf = x.blockOf
        /\ y.client = IF x.client = "in" THEN "in" ELSE "broken"
        /\ x.client = "in" => y.owed = x.owed \ {NoIndex}
    BY <1>2, RunTidy
  <2> QED
    BY <1>2, <2>1, <2>2
<1>3. CASE p.kind = "tool" /\ p.piece = TRUE
  <2>1. GeminiPart(x, p) = WholeCall(x)
    BY <1>3 DEF GeminiPart
  <2> DEFINE y == WholeCall(x)
  <2>2. y \in Streams /\ Tidy(y) /\ y.begun /\ y.client = "in" /\ y.owed = x.owed \ {NoIndex}
    BY <1>3, WholeCallTidy
  <2> QED
    BY <1>3, <2>1, <2>2
<1> QED
  BY <1>1, <1>2, <1>3, GeminiParts1

LEMMA LoosePartLoose ==
    ASSUME NEW x \in Streams, Loose(x), ~x.ended, NEW p \in GeminiParts, p.kind # "none" => x.next < MaxBlocks
    PROVE  LET y == LoosePart(x, p) IN
           y \in Streams /\ Loose(y) /\ ~y.ended /\ y.client = "in" /\ y.owed = IF p.piece THEN x.owed \ {NoIndex} ELSE x.owed
<1>0. x.client = "in"
  BY DEF Loose
<1>1. CASE p = NoPart /\ p.kind = "none" /\ ~p.piece
  BY <1>0, <1>1 DEF LoosePart
<1>2. CASE p.kind = "text" /\ p.piece = TRUE
  <2> DEFINE y == SendLoose(x, NoIndex)
  <2>1. LoosePart(x, p) = y
    BY <1>2 DEF LoosePart
  <2>2. /\ Sent(x, y) /\ y.blocks = x.blocks
        /\ IF x.client = "in" THEN y.client = "in" /\ y.owed = x.owed \ {NoIndex} ELSE y.client = "broken"
    BY SendLooseSends
  <2> HIDE DEF y
  <2> QED
    BY <1>0, <1>2, <2>1, <2>2 DEF Sent, Loose
<1>3. CASE p.kind = "tool" /\ p.piece = TRUE
  <2> DEFINE c == NoIndex
             v == SendOpen(x, x.next, "tool", c)
             w == SendPiece(v, x.next, "tool", c)
             y == [w EXCEPT !.next = @ + 1]
  <2>1. LoosePart(x, p) = y
    BY <1>3 DEF LoosePart, LooseCall
  <2>2. /\ "tool" \in Kinds /\ c \in Blocks \cup {NoIndex} /\ x.next \in Blocks /\ x.next # NoIndex
        /\ x.blocks[x.next] = NoBlock
    BY <1>3, StreamAssumption DEF Kinds, Streams, Blocks, Loose, NoIndex
  <2> HIDE DEF c
  <2>3. /\ Sent(x, v) /\ v.owed = x.owed
        /\ IF x.client = "in" /\ x.blocks[x.next] = NoBlock
           THEN /\ v.client = "in"
                /\ v.blocks = [x.blocks EXCEPT ![x.next] = [is |-> "open", kind |-> "tool", of |-> c]]
           ELSE v.client = "broken"
    BY <2>2, SendOpenSends
  <2> HIDE DEF v
  <2>4. v \in Streams /\ v.client = "in" /\ v.next = x.next /\ v.kind = x.kind /\ v.ended = x.ended
    BY <1>0, <2>2, <2>3 DEF Sent
  <2>5. x.blocks \in [Blocks -> [is : {"none", "open", "closed"}, kind : Kinds \cup {"none"}, of : Blocks \cup {NoIndex}]]
    BY DEF Streams
  <2>6. \A b \in Blocks : v.blocks[b] = IF b = x.next THEN [is |-> "open", kind |-> "tool", of |-> c] ELSE x.blocks[b]
    BY <1>0, <2>2, <2>3, <2>5
  <2>7. v.blocks[x.next] = [is |-> "open", kind |-> "tool", of |-> c]
    BY <2>2, <2>6
  <2>8. /\ Sent(v, w) /\ w.blocks = v.blocks
        /\ IF v.client = "in" /\ x.next # NoIndex /\ v.blocks[x.next] = [is |-> "open", kind |-> "tool", of |-> c]
           THEN w.client = "in" /\ w.owed = v.owed \ {c}
           ELSE w.client = "broken"
    BY <2>4, SendPieceSends
  <2> HIDE DEF w
  <2>9. w \in Streams /\ w.client = "in" /\ w.next = x.next /\ w.kind = x.kind /\ w.ended = x.ended /\ w.owed = x.owed \ {c}
    BY <2>2, <2>3, <2>4, <2>7, <2>8 DEF Sent
  <2>10. x.next + 1 \in 0 .. MaxBlocks
    BY <2>2, StreamAssumption DEF Blocks
  <2>11. /\ y \in Streams /\ y.client = "in" /\ y.next = x.next + 1 /\ y.kind = x.kind /\ y.ended = x.ended
         /\ y.owed = x.owed \ {c} /\ y.blocks = w.blocks
    BY <2>9, <2>10 DEF Streams
  <2> HIDE DEF y
  <2>12. \A b \in Blocks : b >= y.next => y.blocks[b] = NoBlock
    BY <2>2, <2>6, <2>8, <2>11 DEF Loose, Blocks
  <2> QED
    BY <1>3, <2>1, <2>11, <2>12 DEF Loose, c
<1> QED
  BY <1>1, <1>2, <1>3, GeminiParts1

LEMMA FinishLoose ==
    ASSUME NEW x \in Streams, Loose(x), Target = "openai"
    PROVE  LET y == FinishStream(x) IN
           y \in Streams /\ Loose(y) /\ y.client = "over" /\ y.owed = x.owed
<1> DEFINE w == SendFinish(x)
           z == SendEnd(w)
           y == [z EXCEPT !.ended = TRUE]
<1>1. CASE x.ended
  BY <1>1 DEF FinishStream, Loose
<1>2. CASE ~x.ended
  <2>1. FinishStream(x) = y
    BY <1>2 DEF FinishStream, CloseOpenBlock, Loose
  <2>2. /\ Sent(x, w) /\ w.blocks = x.blocks /\ w.owed = x.owed /\ w.client = "finishing"
    BY <1>2, SendFinishSends DEF Loose
  <2> HIDE DEF w
  <2>3. w \in Streams
    BY <2>2 DEF Sent
  <2>4. /\ Sent(w, z) /\ z.blocks = w.blocks /\ z.owed = w.owed
        /\ z.client = IF w.client = "finishing" THEN "over" ELSE "broken"
    BY <2>3, SendEndSends
  <2> HIDE DEF z
  <2>5. /\ y \in Streams /\ y.client = "over" /\ y.ended /\ y.kind = x.kind /\ y.next = x.next /\ y.blocks = x.blocks
        /\ y.owed = x.owed
    BY <2>2, <2>4 DEF Sent, Streams
  <2> HIDE DEF y
  <2> QED
    BY <2>1, <2>5 DEF Loose
<1> QED
  BY <1>1, <1>2

LEMMA GeminiChunkIInv ==
    ASSUME StreamIInv, NEW p \in GeminiParts, NEW finish \in BOOLEAN, GeminiChunk(p, finish)
    PROVE  StreamIInv'
<1> DEFINE x == IF p.piece THEN Received(stream, NoIndex) ELSE stream
           z == stream'
<1>1. /\ pair \in Pairs /\ numbered \in BOOLEAN /\ vendor \in Upstreams /\ stream \in Streams
      /\ odd \subseteq {"back", "late", "unnumbered", "bare"} /\ ~vendor.complete
      /\ Source = "gemini" /\ Waiting = {} /\ vendor.phase \in {"on", "finished"}
      /\ \/ Target = "anthropic" /\ pair = <<"gemini", "anthropic">> /\ Tidy(stream)
         \/ Target = "openai" /\ pair = <<"gemini", "openai">> /\ Loose(stream)
      /\ FinishedIsOver /\ OnIsNotOver /\ stream.client # "broken"
      /\ UNCHANGED <<pair, numbered>> /\ odd' = odd \cup StreamOddities(p)
      /\ p.kind # "none" => stream.next < MaxBlocks
  BY PairCases DEF StreamIInv, StreamTypeOK, GeminiChunk, Speaking, Shaped, ReaderFollows
<1>2. /\ x \in Streams /\ x.owed = (IF p.piece THEN stream.owed \cup {NoIndex} ELSE stream.owed)
      /\ x.begun = stream.begun /\ x.kind = stream.kind /\ x.at = stream.at /\ x.next = stream.next
      /\ x.blockOf = stream.blockOf /\ x.blocks = stream.blocks /\ x.client = stream.client /\ x.ended = stream.ended
  <2>1. CASE p.piece
    <3> DEFINE r == Received(stream, NoIndex)
    <3>1. NoIndex \in Blocks \cup {NoIndex}
      OBVIOUS
    <3>2. /\ r \in Streams /\ r.owed = stream.owed \cup {NoIndex}
          /\ r.begun = stream.begun /\ r.ended = stream.ended /\ r.kind = stream.kind /\ r.at = stream.at
          /\ r.next = stream.next /\ r.blockOf = stream.blockOf /\ r.blocks = stream.blocks /\ r.client = stream.client
      <4> DEFINE c == NoIndex
      <4>1. c \in Blocks \cup {NoIndex}
        OBVIOUS
      <4> HIDE DEF c
      <4>2. /\ Received(stream, c) \in Streams /\ Received(stream, c).owed = stream.owed \cup {c}
            /\ Received(stream, c).begun = stream.begun /\ Received(stream, c).ended = stream.ended
            /\ Received(stream, c).kind = stream.kind /\ Received(stream, c).at = stream.at
            /\ Received(stream, c).next = stream.next /\ Received(stream, c).blockOf = stream.blockOf
            /\ Received(stream, c).blocks = stream.blocks /\ Received(stream, c).client = stream.client
        BY <1>1, <4>1, ReceivedTyped
      <4> QED
        BY <4>2 DEF c
    <3> HIDE DEF r
    <3>3. x = r
      BY <2>1 DEF r
    <3> HIDE DEF x
    <3> QED
      BY <2>1, <3>2, <3>3
  <2>2. CASE ~p.piece
    BY <1>1, <2>2
  <2> QED
    BY <2>1, <2>2
<1>3. /\ Target = "anthropic" => z = GeminiToAnthropic(x, p, finish)
      /\ Target = "openai" => z = GeminiToOpenAi(x, p, finish)
  BY DEF GeminiChunk
<1> HIDE DEF x
<1>4. /\ \/ Target = "anthropic" /\ Tidy(x)
         \/ Target = "openai" /\ Loose(x)
      /\ x.client # "broken"
  BY <1>1, <1>2 DEF Tidy, Loose
<1>5. /\ z \in Streams
      /\ Target = "anthropic" => Tidy(z)
      /\ Target = "openai" => Loose(z)
      /\ z.client # "broken"
      /\ x.ended => z = x /\ x.client = "over"
      /\ ~x.ended => /\ z.owed = IF p.piece THEN x.owed \ {NoIndex} ELSE x.owed
                     /\ z.client = IF finish THEN "over" ELSE "in"
  <2>1. CASE x.ended
    BY <1>2, <1>3, <1>4, <2>1 DEF GeminiToAnthropic, GeminiToOpenAi, Tidy, Loose
  <2>2. CASE ~x.ended /\ Target = "anthropic"
    <3> DEFINE s == Start(x)
               y == GeminiPart(s, p)
    <3>1. z = IF finish THEN FinishStream(y) ELSE y
      BY <1>3, <2>2 DEF GeminiToAnthropic
    <3>2. /\ s \in Streams /\ Tidy(s) /\ s.begun /\ s.ended = x.ended /\ s.owed = x.owed /\ s.next = x.next
          /\ s.client = IF x.client = "before" THEN "in" ELSE x.client
      BY <1>2, <1>4, <2>2, StartFollows
    <3>3. s.client = "in"
      BY <1>4, <2>2, <3>2 DEF Tidy
    <3> HIDE DEF s
    <3>4. y \in Streams /\ Tidy(y) /\ y.begun /\ y.client = "in" /\ y.owed = IF p.piece THEN s.owed \ {NoIndex} ELSE s.owed
      BY <1>1, <1>2, <3>2, <3>3, GeminiPartTidy
    <3> HIDE DEF y, z
    <3>5. CASE finish
      <4> DEFINE f == FinishStream(y)
      <4>1. f \in Streams /\ Tidy(f) /\ f.owed = y.owed /\ f.client = IF y.client = "broken" THEN "broken" ELSE "over"
        BY <2>2, <3>4, FinishTidy
      <4>2. z = f
        BY <3>1, <3>5
      <4> HIDE DEF f
      <4> QED
        BY <2>2, <3>2, <3>4, <3>5, <4>1, <4>2
    <3>6. CASE ~finish
      BY <2>2, <3>1, <3>2, <3>4, <3>6
    <3> QED
      BY <3>5, <3>6
  <2>3. CASE ~x.ended /\ Target = "openai"
    <3> DEFINE y == LoosePart(x, p)
    <3>1. z = IF finish THEN FinishStream(y) ELSE y
      BY <1>3, <2>3 DEF GeminiToOpenAi
    <3>2. /\ y \in Streams /\ Loose(y) /\ ~y.ended /\ y.client = "in"
          /\ y.owed = IF p.piece THEN x.owed \ {NoIndex} ELSE x.owed
      BY <1>1, <1>2, <1>4, <2>3, LoosePartLoose
    <3> HIDE DEF y, z
    <3>3. CASE finish
      <4> DEFINE f == FinishStream(y)
      <4>1. f \in Streams /\ Loose(f) /\ f.client = "over" /\ f.owed = y.owed
        BY <2>3, <3>2, FinishLoose
      <4>2. z = f
        BY <3>1, <3>3
      <4> HIDE DEF f
      <4> QED
        BY <2>3, <3>2, <3>3, <4>1, <4>2
    <3>4. CASE ~finish
      BY <2>3, <3>1, <3>2, <3>4
    <3> QED
      BY <3>3, <3>4
  <2> QED
    BY <1>1, <2>1, <2>2, <2>3
<1>6. vendor' = [vendor EXCEPT !.phase = IF finish THEN "finished" ELSE @]
  BY DEF GeminiChunk
<1>7. /\ vendor' \in Upstreams /\ ~vendor'.complete
      /\ vendor'.phase = IF finish THEN "finished" ELSE vendor.phase
  <2> DEFINE ph == IF finish THEN "finished" ELSE vendor.phase
  <2>1. ph \in {"on", "finished", "over", "ended"}
    BY <1>1
  <2>2. vendor' = [vendor EXCEPT !.phase = ph]
    BY <1>1, <1>6 DEF Upstreams
  <2> HIDE DEF ph
  <2>3. /\ vendor' \in Upstreams /\ vendor'.phase = ph /\ vendor'.complete = vendor.complete
        /\ vendor'.current = vendor.current /\ vendor'.block = vendor.block
    BY <1>1, <2>1, <2>2, VendorMoves
  <2> QED
    BY <1>1, <2>3 DEF ph
<1>8. StreamTypeOK'
  BY <1>1, <1>5, <1>7 DEF StreamTypeOK, StreamOddities
<1>9. vendor'.phase = "on" => z.client # "over"
  BY <1>1, <1>2, <1>5, <1>7 DEF OnIsNotOver
<1>10. vendor'.phase \in {"finished", "over"} => z.client = "over"
  <2>1. CASE x.ended
    BY <1>5, <2>1
  <2>2. CASE ~x.ended
    <3>1. vendor.phase = "on"
      BY <1>1, <1>2, <2>2 DEF FinishedIsOver, Tidy, Loose
    <3> QED
      BY <1>5, <1>7, <2>2, <3>1
  <2> QED
    BY <2>1, <2>2
<1>11. ASSUME odd' = {} PROVE z.owed = {}
  <2>1. odd = {} /\ StreamOddities(p) = {} /\ stream.owed = {}
    BY <1>1, <1>11 DEF StreamIInv, NothingLost
  <2>2. CASE x.ended
    <3>1. vendor.phase = "finished"
      BY <1>1, <1>2, <1>5, <2>2 DEF OnIsNotOver
    <3>2. p = NoPart /\ ~p.piece
      BY <2>1, <3>1, GeminiParts1 DEF StreamOddities
    <3> QED
      BY <1>2, <1>5, <2>1, <2>2, <3>2
  <2>3. CASE ~x.ended
    BY <1>2, <1>5, <2>1, <2>3
  <2> QED
    BY <2>2, <2>3
<1>12. ReaderFollows' /\ NothingLost' /\ OnIsNotOver' /\ (vendor'.complete => vendor'.phase = "ended")
  BY <1>5, <1>7, <1>9, <1>11 DEF ReaderFollows, NothingLost, OnIsNotOver
<1>13. FinishedIsOver'
  BY <1>10 DEF FinishedIsOver
<1>14. (Target = "anthropic" => Tidy(stream)') /\ (Target = "openai" => Loose(stream)')
  BY <1>5 DEF Tidy, Loose
<1>15. Shaped'
  BY <1>1, <1>13, <1>14 DEF Shaped, Source
<1> QED
  BY <1>8, <1>12, <1>15 DEF StreamIInv

-----------------------------------------------------------------------------
(* The end of the upstream.                                                             *)

LEMMA UpstreamEndsIInv ==
    ASSUME StreamIInv, UpstreamEnds
    PROVE  StreamIInv'
<1>1. /\ pair \in Pairs /\ numbered \in BOOLEAN /\ vendor \in Upstreams /\ stream \in Streams
      /\ odd \subseteq {"back", "late", "unnumbered", "bare"} /\ vendor.phase # "ended" /\ ~vendor.complete
      /\ UNCHANGED <<pair, numbered, odd>>
  BY DEF StreamIInv, StreamTypeOK, UpstreamEnds
<1>2. /\ vendor' \in Upstreams /\ vendor'.phase = "ended" /\ vendor'.complete = Complete /\ vendor'.block = vendor.block
      /\ vendor'.started = vendor.started
  <2>1. Complete \in BOOLEAN
    <3>1. CASE Source = "gemini"
      BY <3>1 DEF Complete
    <3>2. CASE Source = "openai"
      <4>1. Complete = (vendor.phase \in {"finished", "over"})
        BY <3>2 DEF Complete
      <4> QED
        BY <4>1
    <3>3. CASE Source = "anthropic"
      <4>1. Complete = (vendor.phase = "over")
        BY <3>3 DEF Complete
      <4> QED
        BY <4>1
    <3> QED
      BY <1>1, <3>1, <3>2, <3>3, PairCases
  <2>2. vendor' = [vendor EXCEPT !.phase = "ended", !.complete = Complete]
    BY DEF UpstreamEnds
  <2> DEFINE said == Complete
  <2> HIDE DEF said
  <2>3. vendor' = [vendor EXCEPT !.phase = "ended", !.complete = said] /\ said \in BOOLEAN
    BY <2>1, <2>2 DEF said
  <2>4. /\ vendor' \in Upstreams /\ vendor'.phase = "ended" /\ vendor'.complete = said /\ vendor'.current = vendor.current
        /\ vendor'.block = vendor.block /\ vendor'.started = vendor.started
    BY <1>1, <2>3, VendorPhase
  <2> QED
    BY <2>4 DEF said
<1>3. Waiting' = Waiting
  BY <1>1, <1>2 DEF Waiting
<1>4. CASE Source = "openai"
  <2>1. /\ stream' = stream /\ Tidy(stream) /\ FinishedIsOver
        /\ pair \notin {<<"gemini", "anthropic">>, <<"gemini", "openai">>, <<"anthropic", "openai">>, <<"anthropic", "responses">>}
    BY <1>1, <1>4, PairCases DEF UpstreamEnds, StreamIInv, Shaped
  <2>2. Complete => vendor.phase \in {"finished", "over"}
    BY <1>4 DEF Complete
  <2>3. StreamTypeOK'
    BY <1>1, <1>2, <2>1 DEF StreamTypeOK
  <2>4. ReaderFollows' /\ NothingLost' /\ OnIsNotOver'
    BY <1>1, <1>2, <1>3, <2>1, <2>2 DEF StreamIInv, ReaderFollows, NothingLost, OnIsNotOver, FinishedIsOver, Source
  <2>5. Tidy(stream)' /\ FinishedIsOver' /\ Attentive'
    BY <1>2, <2>1 DEF Tidy, FinishedIsOver, Attentive
  <2>6. Shaped'
    BY <1>1, <2>1, <2>5 DEF Shaped
  <2> QED
    BY <1>2, <2>3, <2>4, <2>6 DEF StreamIInv
<1>5. CASE Source = "gemini"
  <2>1. /\ \/ Target = "anthropic" /\ pair = <<"gemini", "anthropic">> /\ Tidy(stream)
           \/ Target = "openai" /\ pair = <<"gemini", "openai">> /\ Loose(stream)
        /\ stream.client # "broken" /\ stream' = Flush(stream)
    BY <1>1, <1>5, PairCases DEF UpstreamEnds, StreamIInv, Shaped, ReaderFollows
  <2>2. /\ stream' \in Streams /\ stream'.client = "over" /\ stream'.owed = stream.owed
        /\ Target = "anthropic" => Tidy(stream')
        /\ Target = "openai" => Loose(stream')
    <3>1. CASE Target = "anthropic"
      <4> DEFINE x == Start(stream)
                 y == FinishStream(x)
      <4>1. stream' = y
        BY <2>1, <3>1 DEF Flush
      <4>2. /\ x \in Streams /\ Tidy(x) /\ x.begun /\ x.ended = stream.ended /\ x.owed = stream.owed /\ x.next = stream.next
            /\ x.client = IF stream.client = "before" THEN "in" ELSE stream.client
        BY <1>1, <2>1, <3>1, StartFollows
      <4> HIDE DEF x
      <4>3. y \in Streams /\ Tidy(y) /\ y.owed = x.owed /\ y.client = IF x.client = "broken" THEN "broken" ELSE "over"
        BY <3>1, <4>2, FinishTidy
      <4> HIDE DEF y
      <4> QED
        BY <2>1, <3>1, <4>1, <4>2, <4>3
    <3>2. CASE Target = "openai"
      <4> DEFINE y == FinishStream(stream)
      <4>1. stream' = y
        BY <2>1, <3>2 DEF Flush
      <4>2. y \in Streams /\ Loose(y) /\ y.client = "over" /\ y.owed = stream.owed
        BY <1>1, <2>1, <3>2, FinishLoose
      <4> HIDE DEF y
      <4> QED
        BY <3>2, <4>1, <4>2
    <3> QED
      BY <2>1, <3>1, <3>2
  <2>3. StreamTypeOK'
    BY <1>1, <1>2, <2>2 DEF StreamTypeOK
  <2>4. ReaderFollows' /\ NothingLost' /\ OnIsNotOver'
    BY <1>1, <1>2, <1>3, <2>2 DEF StreamIInv, ReaderFollows, NothingLost, OnIsNotOver
  <2>5. FinishedIsOver' /\ (Target = "anthropic" => Tidy(stream)') /\ (Target = "openai" => Loose(stream)')
    BY <2>2 DEF FinishedIsOver, Tidy, Loose
  <2>6. Shaped'
    BY <1>1, <1>5, <2>1, <2>5 DEF Shaped, Source
  <2> QED
    BY <1>2, <2>3, <2>4, <2>6 DEF StreamIInv
<1>6. CASE Source = "anthropic"
  <2>1. /\ \/ Target = "openai" /\ pair = <<"anthropic", "openai">> /\ CallsOpen /\ InOrder
           \/ Target = "responses" /\ pair = <<"anthropic", "responses">> /\ ItemsOpen /\ InOrder
           \/ Target = "responses" /\ pair = <<"anthropic", "responses">> /\ stream.client = "broken"
        /\ stream' = stream
    BY <1>1, <1>6, PairCases DEF UpstreamEnds, StreamIInv, Shaped
  <2>2. Complete => vendor.phase = "over"
    BY <1>6 DEF Complete
  <2>3. StreamTypeOK'
    BY <1>1, <1>2, <2>1 DEF StreamTypeOK
  <2>4. ReaderFollows' /\ NothingLost'
    BY <1>1, <1>2, <1>3, <2>1 DEF StreamIInv, ReaderFollows, NothingLost, Source
  <2>5. OnIsNotOver'
    BY <1>2, <2>1, <2>2 DEF OnIsNotOver, CallsOpen, ItemsOpen
  <2>6. InOrder => InOrder'
    BY <1>2, <2>1 DEF InOrder
  <2>7. /\ CallsOpen => CallsOpen'
        /\ ItemsOpen => ItemsOpen'
    BY <1>1, <1>2, <2>1 DEF CallsOpen, ItemsOpen
  <2>8. Shaped'
    BY <1>1, <1>2, <1>6, <2>1, <2>6, <2>7 DEF Shaped, Source
  <2> QED
    BY <1>2, <2>3, <2>4, <2>5, <2>8 DEF StreamIInv
<1> QED
  BY <1>1, <1>4, <1>5, <1>6, PairCases

LEMMA UpstreamBreaksIInv ==
    ASSUME StreamIInv, UpstreamBreaks
    PROVE  StreamIInv'
<1>1. /\ vendor \in Upstreams /\ vendor.phase # "ended" /\ ~vendor.complete
      /\ UNCHANGED <<pair, numbered, stream, odd>> /\ vendor' = [vendor EXCEPT !.phase = "ended"]
  BY DEF StreamIInv, StreamTypeOK, UpstreamBreaks
<1>2. /\ vendor' \in Upstreams /\ vendor'.phase = "ended" /\ ~vendor'.complete /\ vendor'.block = vendor.block
      /\ vendor'.started = vendor.started
  BY <1>1 DEF Upstreams
<1>3. StreamTypeOK'
  BY <1>1, <1>2 DEF StreamIInv, StreamTypeOK
<1>4. Waiting' = Waiting
  BY <1>1, <1>2 DEF Waiting
<1>5. ReaderFollows' /\ NothingLost' /\ OnIsNotOver'
  BY <1>1, <1>2, <1>4 DEF StreamIInv, ReaderFollows, NothingLost, OnIsNotOver, Source
<1>6. (Tidy(stream) => Tidy(stream)') /\ (Loose(stream) => Loose(stream)') /\ FinishedIsOver' /\ Attentive'
  BY <1>1, <1>2 DEF Tidy, Loose, FinishedIsOver, Attentive
<1>7. InOrder => InOrder'
  BY <1>1, <1>2 DEF InOrder
<1>8. CallsOpen => CallsOpen'
  BY <1>1, <1>2 DEF CallsOpen
<1>9. ItemsOpen => ItemsOpen'
  BY <1>1, <1>2 DEF ItemsOpen
<1>10. Shaped'
  BY <1>1, <1>2, <1>6, <1>7, <1>8, <1>9 DEF StreamIInv, Shaped, Source
<1> QED
  BY <1>2, <1>3, <1>5, <1>10 DEF StreamIInv

-----------------------------------------------------------------------------
(* The steps of an Anthropic upstream.                                                  *)

LEMMA AnthropicCases ==
    ASSUME StreamIInv, Source = "anthropic", vendor.phase \in {"on", "finished"}
    PROVE  /\ pair \in Pairs /\ numbered \in BOOLEAN /\ vendor \in Upstreams /\ stream \in Streams
           /\ odd \subseteq {"back", "late", "unnumbered", "bare"} /\ InOrder /\ stream.client # "broken"
           /\ \/ Target = "openai" /\ pair = <<"anthropic", "openai">> /\ CallsOpen /\ Waiting = {}
              \/ Target = "responses" /\ pair = <<"anthropic", "responses">> /\ ItemsOpen
<1>1. /\ pair \in Pairs /\ numbered \in BOOLEAN /\ vendor \in Upstreams /\ stream \in Streams
      /\ odd \subseteq {"back", "late", "unnumbered", "bare"}
  BY DEF StreamIInv, StreamTypeOK
<1>2. \/ Target = "openai" /\ pair = <<"anthropic", "openai">> /\ InOrder /\ CallsOpen /\ Waiting = {}
      \/ Target = "responses" /\ pair = <<"anthropic", "responses">> /\ InOrder /\ ItemsOpen
  BY <1>1, PairCases DEF StreamIInv, Shaped
<1>3. stream.client # "broken"
  BY <1>2 DEF CallsOpen, ItemsOpen
<1> QED
  BY <1>1, <1>2, <1>3

(* What there is to show after a step that leaves the format alone, as far as the reader  *)
(* still follows.                                                                       *)
LEMMA AnthropicIInv ==
    ASSUME StreamIInv, Source = "anthropic", UNCHANGED <<pair, numbered>>, odd' \in {odd, odd \cup {"bare"}},
           vendor' \in Upstreams, stream' \in Streams, ~vendor'.complete, stream'.client # "broken",
           vendor'.phase = "on" => stream'.client # "over",
           stream.owed \subseteq Waiting => stream'.owed \subseteq Waiting',
           InOrder', Target = "openai" => CallsOpen', Target = "responses" => ItemsOpen'
    PROVE  StreamIInv'
<1>1. StreamTypeOK'
  BY DEF StreamIInv, StreamTypeOK
<1>2. ReaderFollows' /\ NothingLost' /\ OnIsNotOver'
  BY DEF StreamIInv, ReaderFollows, NothingLost, OnIsNotOver
<1>3. Source' = "anthropic" /\ Target' = Target /\ pair' = pair /\ pair \in Pairs
  BY DEF Source, Target, StreamIInv, StreamTypeOK
<1>4. Shaped'
  BY <1>3, PairCases DEF Shaped
<1> QED
  BY <1>1, <1>2, <1>4 DEF StreamIInv

LEMMA MessageStartIInv ==
    ASSUME StreamIInv, MessageStart
    PROVE  StreamIInv'
<1>1. /\ Source = "anthropic" /\ vendor.phase = "on" /\ Begun = {} /\ UNCHANGED <<pair, numbered, odd>>
      /\ stream' = IF Target = "responses" THEN Start(stream) ELSE stream
      /\ vendor' = [vendor EXCEPT !.started = TRUE]
  BY DEF MessageStart
<1>2. ~vendor.complete
  BY <1>1 DEF StreamIInv
<1>0. /\ pair \in Pairs /\ numbered \in BOOLEAN /\ vendor \in Upstreams /\ stream \in Streams
      /\ odd \subseteq {"back", "late", "unnumbered", "bare"} /\ InOrder /\ stream.client # "broken"
      /\ \/ Target = "openai" /\ pair = <<"anthropic", "openai">> /\ CallsOpen /\ Waiting = {}
         \/ Target = "responses" /\ pair = <<"anthropic", "responses">> /\ ItemsOpen
  BY <1>1, AnthropicCases
<1>5. /\ vendor' \in Upstreams /\ vendor'.phase = "on" /\ ~vendor'.complete /\ vendor'.block = vendor.block
      /\ \A i \in Blocks : vendor.block[i].is = "none"
  BY <1>0, <1>1, <1>2 DEF Upstreams, Begun
<1>6. Waiting' = Waiting
  BY <1>1, <1>5 DEF Waiting
<1>3. CASE Target = "openai" \/ stream.begun
  <2>1. stream' = stream
    BY <1>0, <1>1, <1>3 DEF Start
  <2>2. InOrder'
    BY <1>0, <1>5, <2>1 DEF InOrder
  <2>3. (Target = "openai" => CallsOpen') /\ (Target = "responses" => ItemsOpen')
    <3>1. CASE Target = "openai"
      BY <1>0, <1>1, <1>5, <2>1, <3>1 DEF CallsOpen
    <3>2. CASE Target = "responses"
      BY <1>0, <1>1, <1>3, <1>5, <2>1, <3>2 DEF ItemsOpen
    <3> QED
      BY <1>0, <3>1, <3>2
  <2>4. stream'.client # "over"
    BY <1>0, <1>1, <2>1 DEF StreamIInv, OnIsNotOver
  <2> QED
    BY <1>0, <1>1, <1>5, <1>6, <2>1, <2>2, <2>3, <2>4, AnthropicIInv
<1>4. CASE Target = "responses" /\ ~stream.begun
  <2> DEFINE y == SendBegin(stream)
  <2>0. stream \in Streams /\ InOrder /\ ItemsOpen
    BY <1>0, <1>4
  <2>1. /\ Sent(stream, y)
        /\ y.blocks = stream.blocks /\ y.owed = stream.owed
        /\ y.client = IF stream.client = "before" THEN "in" ELSE "broken"
    BY <2>0, SendBeginSends
  <2>2. stream' = [y EXCEPT !.begun = TRUE]
    BY <1>1, <1>4 DEF Start
  <2> HIDE DEF y
  <2>3. /\ stream' \in Streams /\ stream'.begun /\ stream'.ended = stream.ended /\ stream'.next = stream.next
        /\ stream'.blockOf = stream.blockOf /\ stream'.blocks = stream.blocks /\ stream'.owed = stream.owed
        /\ stream'.client = y.client
    BY <2>1, <2>2 DEF Sent, Streams
  <2>4. stream'.client = "in" /\ ~stream.ended
    BY <1>4, <2>0, <2>1, <2>3 DEF ItemsOpen
  <2>5. InOrder'
    BY <1>1, <1>5, <2>0, <2>3 DEF InOrder
  <2>6. ItemsOpen'
    BY <1>1, <1>5, <2>0, <2>3, <2>4 DEF ItemsOpen
  <2> QED
    BY <1>1, <1>4, <1>5, <1>6, <2>3, <2>4, <2>5, <2>6, AnthropicIInv
<1> QED
  BY <1>0, <1>3, <1>4

LEMMA BlockStartIInv ==
    ASSUME StreamIInv, NEW i \in Blocks, NEW k \in Kinds, BlockStart(i, k)
    PROVE  StreamIInv'
<1>1. /\ Source = "anthropic" /\ vendor.phase = "on" /\ IsNext(i) /\ UNCHANGED <<pair, numbered, odd>>
      /\ stream' = OpenAnthropicBlock(stream, i, k)
      /\ vendor' = [vendor EXCEPT !.block[i] = [is |-> "open", kind |-> k]]
  BY DEF BlockStart
<1>2. ~vendor.complete
  BY <1>1 DEF StreamIInv
<1>3. /\ pair \in Pairs /\ numbered \in BOOLEAN /\ vendor \in Upstreams /\ stream \in Streams
      /\ odd \subseteq {"back", "late", "unnumbered", "bare"} /\ InOrder /\ stream.client # "broken"
      /\ \/ Target = "openai" /\ pair = <<"anthropic", "openai">> /\ CallsOpen /\ Waiting = {}
         \/ Target = "responses" /\ pair = <<"anthropic", "responses">> /\ ItemsOpen
  BY <1>1, AnthropicCases
<1>4. /\ vendor' \in Upstreams /\ vendor'.phase = "on" /\ ~vendor'.complete
      /\ \A b \in Blocks : vendor'.block[b] = IF b = i THEN [is |-> "open", kind |-> k] ELSE vendor.block[b]
  BY <1>1, <1>2, <1>3 DEF Upstreams
<1>5. vendor.block[i].is = "none" /\ stream.next =< i /\ \A c \in Blocks : vendor.block[c].is = "none" /\ c # i => i < c
  BY <1>1, <1>3 DEF IsNext, Begun, InOrder, Blocks
<1>6. Waiting \subseteq Waiting'
  BY <1>1, <1>4, <1>5 DEF Waiting
<1>7. CASE Target = "openai" /\ k # "tool"
  <2>1. stream' = stream
    BY <1>1, <1>7 DEF OpenAnthropicBlock
  <2>2. InOrder'
    BY <1>3, <1>4, <2>1 DEF InOrder
  <2>3. CallsOpen'
    BY <1>1, <1>3, <1>4, <1>7, <2>1 DEF CallsOpen
  <2>4. stream'.client # "over"
    BY <1>1, <1>3, <2>1 DEF StreamIInv, OnIsNotOver
  <2> QED
    BY <1>1, <1>3, <1>4, <1>6, <1>7, <2>1, <2>2, <2>3, <2>4, AnthropicIInv
<1>8. CASE ~(Target = "openai" /\ k # "tool")
  <2> DEFINE y == IF Target = "responses" THEN Start(stream) ELSE stream
             n == stream.next
             w == SendOpen(y, n, k, i)
  <2>1. stream' = [w EXCEPT !.blockOf[i] = n, !.next = @ + 1]
    BY <1>1, <1>8 DEF OpenAnthropicBlock
  <2>2. /\ n \in Blocks /\ n + 1 \in 0 .. MaxBlocks /\ stream.blocks[n] = NoBlock
    BY <1>3, <1>5, StreamAssumption DEF InOrder, Streams, Blocks
  <2>3. /\ y \in Streams /\ y.client = "in" /\ y.ended = stream.ended /\ y.next = n /\ y.blockOf = stream.blockOf
        /\ y.blocks = stream.blocks /\ y.owed = stream.owed
        /\ Target = "responses" => y.begun /\ ~y.ended
    <3>1. CASE Target = "openai"
      BY <1>1, <1>3, <3>1 DEF CallsOpen
    <3>2. CASE Target = "responses" /\ stream.begun
      BY <1>1, <1>3, <3>2 DEF ItemsOpen, Start
    <3>3. CASE Target = "responses" /\ ~stream.begun
      <4> DEFINE v == SendBegin(stream)
      <4>1. y = [v EXCEPT !.begun = TRUE]
        BY <3>3 DEF Start
      <4>2. /\ Sent(stream, v)
            /\ v.blocks = stream.blocks /\ v.owed = stream.owed
            /\ v.client = IF stream.client = "before" THEN "in" ELSE "broken"
        BY <1>3, SendBeginSends
      <4> HIDE DEF v, y
      <4>3. stream.client = "before" /\ ~stream.ended
        BY <1>1, <1>3, <3>3 DEF ItemsOpen
      <4> QED
        BY <4>1, <4>2, <4>3 DEF Sent, Streams
    <3> QED
      BY <1>3, <3>1, <3>2, <3>3
  <2> HIDE DEF y
  <2>4. i \in Blocks \cup {NoIndex}
    OBVIOUS
  <2>5. /\ Sent(y, w) /\ w.owed = y.owed
        /\ IF y.client = "in" /\ y.blocks[n] = NoBlock
           THEN /\ w.client = "in" /\ w.blocks = [y.blocks EXCEPT ![n] = [is |-> "open", kind |-> k, of |-> i]]
           ELSE w.client = "broken"
    BY <2>2, <2>3, <2>4, SendOpenSends
  <2> HIDE DEF w
  <2>6. /\ w \in Streams /\ w.owed = stream.owed /\ w.begun = y.begun /\ w.ended = y.ended /\ w.next = n
        /\ w.blockOf = stream.blockOf /\ w.client = "in"
        /\ w.blocks = [stream.blocks EXCEPT ![n] = [is |-> "open", kind |-> k, of |-> i]]
    BY <2>2, <2>3, <2>5 DEF Sent
  <2>7. /\ stream' \in Streams /\ stream'.owed = stream.owed /\ stream'.begun = y.begun /\ stream'.ended = y.ended
        /\ stream'.next = n + 1 /\ stream'.client = "in" /\ stream'.blocks = w.blocks
        /\ stream'.blockOf = [stream.blockOf EXCEPT ![i] = n]
    BY <2>1, <2>2, <2>6 DEF Streams
  <2>8. /\ \A b \in Blocks : stream'.blocks[b] = IF b = n THEN [is |-> "open", kind |-> k, of |-> i] ELSE stream.blocks[b]
        /\ \A c \in Blocks : stream'.blockOf[c] = IF c = i THEN n ELSE stream.blockOf[c]
    BY <1>3, <2>2, <2>6, <2>7 DEF Streams
  <2>9. InOrder'
    <3>1. \A b \in Blocks : b >= stream'.next => stream'.blocks[b] = NoBlock
      BY <1>3, <2>2, <2>7, <2>8 DEF InOrder, Blocks
    <3>2. \A b \in Blocks : vendor'.block[b].is = "none" => stream'.next =< b
      BY <1>4, <1>5, <2>2, <2>7 DEF Blocks
    <3> QED
      BY <3>1, <3>2 DEF InOrder
  <2>10. n # NoIndex
    BY <2>2 DEF Blocks, NoIndex
  <2>11. ASSUME Target = "openai" PROVE CallsOpen'
    <3>1. ASSUME NEW j \in Blocks, vendor'.block[j] = [is |-> "open", kind |-> "tool"]
          PROVE  /\ stream'.blockOf[j] # NoIndex
                 /\ stream'.blocks[stream'.blockOf[j]] = [is |-> "open", kind |-> "tool", of |-> j]
      <4>1. CASE j = i
        BY <1>8, <2>2, <2>8, <2>10, <2>11, <4>1
      <4>2. CASE j # i
        <5>1. /\ stream.blockOf[j] # NoIndex
              /\ stream.blocks[stream.blockOf[j]] = [is |-> "open", kind |-> "tool", of |-> j]
          BY <1>3, <1>4, <2>11, <3>1, <4>2 DEF CallsOpen
        <5>2. stream.blockOf[j] \in Blocks /\ stream.blockOf[j] # n
          BY <1>3, <2>2, <5>1 DEF Streams, NoBlock
        <5> QED
          BY <2>8, <4>2, <5>1, <5>2
      <4> QED
        BY <4>1, <4>2
    <3> QED
      BY <1>4, <2>7, <3>1 DEF CallsOpen
  <2>12. ASSUME Target = "responses" PROVE ItemsOpen'
    <3>0. ItemsOpen
      BY <1>3, <2>12
    <3>1. ASSUME NEW j \in Blocks, vendor'.block[j].is = "open"
          PROVE  /\ stream'.begun /\ stream'.blockOf[j] # NoIndex
                 /\ stream'.blocks[stream'.blockOf[j]] = [is |-> "open", kind |-> vendor'.block[j].kind, of |-> j]
      <4>1. CASE j = i
        <5>1. vendor'.block[j].kind = k
          BY <1>4, <4>1
        <5> QED
          BY <2>2, <2>3, <2>7, <2>8, <2>10, <2>12, <4>1, <5>1
      <4>2. CASE j # i
        <5>1. /\ stream.blockOf[j] # NoIndex
              /\ stream.blocks[stream.blockOf[j]] = [is |-> "open", kind |-> vendor.block[j].kind, of |-> j]
          BY <1>4, <3>0, <3>1, <4>2 DEF ItemsOpen
        <5>2. stream.blockOf[j] \in Blocks /\ stream.blockOf[j] # n
          BY <1>3, <2>2, <5>1 DEF Streams, NoBlock
        <5> QED
          BY <1>4, <2>3, <2>7, <2>8, <2>12, <4>2, <5>1, <5>2
      <4> QED
        BY <4>1, <4>2
    <3>2. ASSUME NEW b \in Blocks, stream'.blocks[b].is = "open"
          PROVE  LET j == stream'.blocks[b].of IN j \in Blocks /\ vendor'.block[j].is = "open" /\ stream'.blockOf[j] = b
      <4>1. CASE b = n
        <5>1. stream'.blocks[b].of = i
          BY <2>8, <4>1
        <5> QED
          BY <1>4, <2>8, <4>1, <5>1
      <4>2. CASE b # n
        <5> DEFINE j == stream.blocks[b].of
        <5>1. j \in Blocks /\ vendor.block[j].is = "open" /\ stream.blockOf[j] = b /\ stream'.blocks[b].of = j
          BY <2>8, <3>0, <3>2, <4>2 DEF ItemsOpen
        <5> HIDE DEF j
        <5>2. j # i
          BY <1>5, <5>1
        <5> QED
          BY <1>4, <2>8, <5>1, <5>2
      <4> QED
        BY <4>1, <4>2
    <3> QED
      BY <1>4, <2>3, <2>7, <2>12, <3>1, <3>2 DEF ItemsOpen
  <2> QED
    BY <1>1, <1>3, <1>4, <1>6, <2>7, <2>9, <2>11, <2>12, AnthropicIInv
<1> QED
  BY <1>7, <1>8

LEMMA BlockDeltaIInv ==
    ASSUME StreamIInv, NEW i \in Blocks, BlockDelta(i)
    PROVE  StreamIInv'
<1> DEFINE x == Received(stream, i)
           k == vendor.block[i].kind
           b == stream.blockOf[i]
<1>1. /\ Source = "anthropic" /\ vendor.phase = "on" /\ vendor.block[i].is = "open" /\ UNCHANGED <<pair, numbered, vendor, odd>>
      /\ stream' = IF Target = "openai" THEN AnthropicPieceToOpenAi(x, i, k) ELSE AnthropicPieceToResponses(x, i, k)
  BY DEF BlockDelta
<1>2. ~vendor.complete
  BY <1>1 DEF StreamIInv
<1>3. /\ pair \in Pairs /\ numbered \in BOOLEAN /\ vendor \in Upstreams /\ stream \in Streams
      /\ odd \subseteq {"back", "late", "unnumbered", "bare"} /\ InOrder /\ stream.client # "broken"
      /\ \/ Target = "openai" /\ pair = <<"anthropic", "openai">> /\ CallsOpen /\ Waiting = {}
         \/ Target = "responses" /\ pair = <<"anthropic", "responses">> /\ ItemsOpen
  BY <1>1, AnthropicCases
<1>4. /\ x \in Streams /\ x.owed = stream.owed \cup {i}
      /\ x.begun = stream.begun /\ x.ended = stream.ended /\ x.kind = stream.kind /\ x.at = stream.at /\ x.next = stream.next
      /\ x.blockOf = stream.blockOf /\ x.blocks = stream.blocks /\ x.client = stream.client
  <2>1. i \in Blocks \cup {NoIndex}
    OBVIOUS
  <2> QED
    BY <1>3, <2>1, ReceivedTyped
<1> HIDE DEF x
<1>5. vendor.block[i] = [is |-> "open", kind |-> k]
  BY <1>1, <1>3 DEF Upstreams
<1>6. /\ Sent(x, stream') /\ stream'.blocks = stream.blocks /\ stream'.client = stream.client
      /\ stream.owed \subseteq Waiting => stream'.owed \subseteq Waiting
  <2>1. CASE Target = "openai" /\ k = "tool"
    <3> DEFINE y == SendPiece(x, b, k, i)
    <3>1. /\ b # NoIndex /\ stream.blocks[b] = [is |-> "open", kind |-> k, of |-> i] /\ stream.client = "in"
      BY <1>1, <1>3, <1>5, <2>1 DEF CallsOpen
    <3>2. stream' = y
      BY <1>1, <1>4, <2>1, <3>1 DEF AnthropicPieceToOpenAi
    <3> HIDE DEF k, b
    <3>3. /\ Sent(x, y) /\ y.blocks = x.blocks
          /\ IF x.client = "in" /\ b # NoIndex /\ x.blocks[b] = [is |-> "open", kind |-> k, of |-> i]
             THEN y.client = "in" /\ y.owed = x.owed \ {i}
             ELSE y.client = "broken"
      BY <1>4, SendPieceSends
    <3> QED
      BY <1>4, <3>1, <3>2, <3>3
  <2>2. CASE Target = "openai" /\ k # "tool"
    <3> DEFINE y == SendLoose(x, i)
    <3>1. stream' = y /\ stream.client = "in"
      BY <1>1, <1>3, <2>2 DEF AnthropicPieceToOpenAi, CallsOpen
    <3>2. /\ Sent(x, y) /\ y.blocks = x.blocks
          /\ IF x.client = "in" THEN y.client = "in" /\ y.owed = x.owed \ {i} ELSE y.client = "broken"
      BY <1>4, SendLooseSends
    <3> QED
      BY <1>4, <3>1, <3>2
  <2>3. CASE Target = "responses" /\ k = "think"
    <3>1. stream' = x
      BY <1>1, <2>3 DEF AnthropicPieceToResponses
    <3>2. i \in Waiting
      BY <1>3, <1>5, <2>3 DEF Waiting
    <3> QED
      BY <1>4, <3>1, <3>2 DEF Sent
  <2>4. CASE Target = "responses" /\ k # "think"
    <3> DEFINE y == SendPiece(x, b, k, i)
    <3>1. /\ b # NoIndex /\ stream.blocks[b] = [is |-> "open", kind |-> k, of |-> i] /\ stream.client = "in"
      BY <1>1, <1>3, <2>4 DEF ItemsOpen
    <3>2. stream' = y
      BY <1>1, <1>4, <2>4, <3>1 DEF AnthropicPieceToResponses
    <3> HIDE DEF k, b
    <3>3. /\ Sent(x, y) /\ y.blocks = x.blocks
          /\ IF x.client = "in" /\ b # NoIndex /\ x.blocks[b] = [is |-> "open", kind |-> k, of |-> i]
             THEN y.client = "in" /\ y.owed = x.owed \ {i}
             ELSE y.client = "broken"
      BY <1>4, SendPieceSends
    <3> QED
      BY <1>4, <3>1, <3>2, <3>3
  <2> QED
    BY <1>3, <2>1, <2>2, <2>3, <2>4
<1> HIDE DEF k, b
<1>7. /\ stream' \in Streams /\ stream'.begun = stream.begun /\ stream'.ended = stream.ended /\ stream'.next = stream.next
      /\ stream'.blockOf = stream.blockOf
  BY <1>4, <1>6 DEF Sent
<1>8. Waiting' = Waiting
  BY <1>1 DEF Waiting
<1>9. InOrder'
  BY <1>1, <1>3, <1>6, <1>7 DEF InOrder
<1>10. (Target = "openai" => CallsOpen') /\ (Target = "responses" => ItemsOpen')
  <2>1. CASE Target = "openai"
    BY <1>1, <1>3, <1>6, <1>7, <2>1 DEF CallsOpen
  <2>2. CASE Target = "responses"
    BY <1>1, <1>3, <1>6, <1>7, <2>2 DEF ItemsOpen
  <2> QED
    BY <1>3, <2>1, <2>2
<1>11. stream'.client # "over" /\ stream'.client # "broken"
  BY <1>1, <1>3, <1>6 DEF StreamIInv, OnIsNotOver
<1> QED
  BY <1>1, <1>2, <1>3, <1>6, <1>7, <1>8, <1>9, <1>10, <1>11, AnthropicIInv

LEMMA BlockStopIInv ==
    ASSUME StreamIInv, NEW i \in Blocks, BlockStop(i)
    PROVE  StreamIInv'
<1> DEFINE k == vendor.block[i].kind
           b == stream.blockOf[i]
<1>1. /\ Source = "anthropic" /\ vendor.phase = "on" /\ vendor.block[i].is = "open" /\ UNCHANGED <<pair, numbered, odd>>
      /\ stream' = IF Target = "openai" THEN stream ELSE StopToResponses(stream, i, k)
      /\ vendor' = [vendor EXCEPT !.block[i].is = "closed"]
  BY DEF BlockStop
<1>2. ~vendor.complete
  BY <1>1 DEF StreamIInv
<1>3. /\ pair \in Pairs /\ numbered \in BOOLEAN /\ vendor \in Upstreams /\ stream \in Streams
      /\ odd \subseteq {"back", "late", "unnumbered", "bare"} /\ InOrder /\ stream.client # "broken"
      /\ \/ Target = "openai" /\ pair = <<"anthropic", "openai">> /\ CallsOpen /\ Waiting = {}
         \/ Target = "responses" /\ pair = <<"anthropic", "responses">> /\ ItemsOpen
  BY <1>1, AnthropicCases
<1>4. /\ vendor' \in Upstreams /\ vendor'.phase = "on" /\ ~vendor'.complete
      /\ \A j \in Blocks : vendor'.block[j] = IF j = i THEN [vendor.block[j] EXCEPT !.is = "closed"] ELSE vendor.block[j]
  BY <1>1, <1>2, <1>3 DEF Upstreams
<1>5. vendor'.block[i].is = "closed" /\ \A j \in Blocks : j # i => vendor'.block[j] = vendor.block[j]
  BY <1>3, <1>4 DEF Upstreams
<1>6. \A j \in Blocks : vendor'.block[j].is = "open" <=> vendor.block[j].is = "open" /\ j # i
  BY <1>5
<1>7. pair' = pair /\ Target' = Target
  BY <1>1 DEF Target
<1>8. CASE Target = "openai"
  <2>1. stream' = stream
    BY <1>1, <1>8
  <2>2. \A j \in Blocks : vendor'.block[j] = [is |-> "open", kind |-> "tool"] => vendor.block[j] = [is |-> "open", kind |-> "tool"]
    BY <1>5
  <2>3. CallsOpen'
    BY <1>1, <1>3, <1>4, <1>8, <2>1, <2>2 DEF CallsOpen
  <2>4. InOrder'
    BY <1>1, <1>3, <1>5, <2>1 DEF InOrder
  <2>5. Waiting \subseteq Waiting'
    BY <1>3, <1>8
  <2>6. stream'.client # "over"
    BY <1>1, <1>3, <2>1 DEF StreamIInv, OnIsNotOver
  <2> QED
    BY <1>1, <1>3, <1>4, <1>8, <2>1, <2>3, <2>4, <2>5, <2>6, AnthropicIInv
<1>9. CASE Target = "responses"
  <2>0. /\ ItemsOpen /\ b # NoIndex /\ stream.blocks[b] = [is |-> "open", kind |-> k, of |-> i]
        /\ stream.client = "in"
    BY <1>1, <1>3, <1>9 DEF ItemsOpen
  <2>1. b \in Blocks /\ b < stream.next
    <3>1. b \in Blocks
      BY <1>3, <2>0 DEF Streams
    <3> HIDE DEF b, k
    <3>2. stream.blocks[b] # NoBlock
      BY <2>0 DEF NoBlock
    <3>3. ~(b >= stream.next)
      BY <1>3, <3>1, <3>2 DEF InOrder
    <3>4. b \in Int /\ stream.next \in Int
      BY <1>3, <3>1 DEF Streams, Blocks
    <3> QED
      BY <3>1, <3>3, <3>4
  <2>2. \A j \in Waiting : j # i => j \in Waiting'
    BY <1>5, <1>7 DEF Waiting
  <2>3. /\ Sent(stream, stream') /\ stream'.client = "in" /\ stream'.blocks = [stream.blocks EXCEPT ![b].is = "closed"]
        /\ stream.owed \subseteq Waiting => stream'.owed \subseteq Waiting'
    <3>1. CASE k = "think"
      <4> DEFINE y == SendWhole(stream, b, i)
      <4>1. stream' = y
        BY <1>1, <1>9, <2>0, <3>1 DEF StopToResponses
      <4> HIDE DEF b
      <4>2. /\ Sent(stream, y)
            /\ IF stream.client = "in" /\ stream.blocks[b].is = "open"
               THEN /\ y.client = "in" /\ y.blocks = [stream.blocks EXCEPT ![b].is = "closed"]
                    /\ y.owed = stream.owed \ {i}
               ELSE y.client = "broken"
        BY <1>3, <2>1, SendWholeSends
      <4> QED
        BY <2>0, <2>2, <4>1, <4>2
    <3>2. CASE k # "think"
      <4> DEFINE y == SendClose(stream, b)
      <4>1. stream' = y
        BY <1>1, <1>9, <2>0, <3>2 DEF StopToResponses
      <4>2. i \notin Waiting
        BY <3>2 DEF Waiting
      <4> HIDE DEF b
      <4>3. /\ Sent(stream, y) /\ y.owed = stream.owed
            /\ IF stream.client = "in" /\ stream.blocks[b].is = "open"
               THEN y.client = "in" /\ y.blocks = [stream.blocks EXCEPT ![b].is = "closed"]
               ELSE y.client = "broken"
        BY <1>3, SendCloseSends
      <4> QED
        BY <2>0, <2>2, <4>1, <4>2, <4>3
    <3> QED
      BY <3>1, <3>2
  <2>4. /\ stream' \in Streams /\ stream'.begun = stream.begun /\ stream'.ended = stream.ended /\ stream'.next = stream.next
        /\ stream'.blockOf = stream.blockOf
    BY <2>3 DEF Sent
  <2>5. stream'.blocks[b].is = "closed" /\ \A c \in Blocks : c # b => stream'.blocks[c] = stream.blocks[c]
    <3>1. stream.blocks \in [Blocks -> [is : {"none", "open", "closed"}, kind : Kinds \cup {"none"}, of : Blocks \cup {NoIndex}]]
      BY <1>3 DEF Streams
    <3> HIDE DEF b
    <3> QED
      BY <2>1, <2>3, <3>1
  <2>6. InOrder'
    <3>1. \A c \in Blocks : c >= stream'.next => stream'.blocks[c] = NoBlock
      BY <1>3, <2>1, <2>4, <2>5 DEF InOrder, Blocks, Streams
    <3>2. \A c \in Blocks : vendor'.block[c].is = "none" => stream'.next =< c
      BY <1>3, <1>5, <2>4 DEF InOrder
    <3> QED
      BY <3>1, <3>2 DEF InOrder
  <2>7. ItemsOpen'
    <3>1. ASSUME NEW j \in Blocks, vendor'.block[j].is = "open"
          PROVE  /\ stream'.begun /\ stream'.blockOf[j] # NoIndex
                 /\ stream'.blocks[stream'.blockOf[j]] = [is |-> "open", kind |-> vendor'.block[j].kind, of |-> j]
      <4>1. j # i /\ vendor'.block[j] = vendor.block[j]
        BY <1>5, <3>1
      <4>2. /\ stream.begun /\ stream.blockOf[j] # NoIndex
            /\ stream.blocks[stream.blockOf[j]] = [is |-> "open", kind |-> vendor.block[j].kind, of |-> j]
        BY <2>0, <3>1, <4>1 DEF ItemsOpen
      <4>3. stream.blockOf[j] \in Blocks /\ stream.blockOf[j] # b
        <5>1. stream.blockOf[j] \in Blocks
          BY <1>3, <4>2 DEF Streams
        <5>2. stream.blocks[stream.blockOf[j]].of = j /\ stream.blocks[b].of = i
          BY <2>0, <4>2
        <5> QED
          BY <4>1, <5>1, <5>2
      <4> QED
        BY <2>4, <2>5, <4>1, <4>2, <4>3
    <3>2. ASSUME NEW c \in Blocks, stream'.blocks[c].is = "open"
          PROVE  LET j == stream'.blocks[c].of IN j \in Blocks /\ vendor'.block[j].is = "open" /\ stream'.blockOf[j] = c
      <4>1. c # b /\ stream'.blocks[c] = stream.blocks[c]
        BY <2>5, <3>2
      <4> DEFINE j == stream.blocks[c].of
      <4>2. j \in Blocks /\ vendor.block[j].is = "open" /\ stream.blockOf[j] = c
        BY <2>0, <3>2, <4>1 DEF ItemsOpen
      <4>3. j # i
        BY <4>1, <4>2
      <4> QED
        BY <1>5, <2>4, <4>1, <4>2, <4>3
    <3> QED
      BY <1>1, <1>4, <2>0, <2>3, <2>4, <3>1, <3>2 DEF ItemsOpen
  <2> QED
    BY <1>1, <1>3, <1>4, <1>9, <2>3, <2>4, <2>6, <2>7, AnthropicIInv
<1> QED
  BY <1>3, <1>8, <1>9

LEMMA MessageDeltaIInv ==
    ASSUME StreamIInv, MessageDelta
    PROVE  StreamIInv'
<1>1. /\ Source = "anthropic" /\ vendor.phase \in {"on", "finished"} /\ UNCHANGED <<pair, numbered>>
      /\ odd' = odd \cup (IF vendor.started \/ Begun # {} THEN {} ELSE {"bare"})
      /\ \A i \in Blocks : vendor.block[i].is # "open"
      /\ stream' = IF Target = "openai" THEN SendFinish(stream) ELSE stream
      /\ vendor' = [vendor EXCEPT !.phase = "finished"]
  BY DEF MessageDelta, Speaking
<1>2. ~vendor.complete
  BY <1>1 DEF StreamIInv
<1>3. /\ pair \in Pairs /\ numbered \in BOOLEAN /\ vendor \in Upstreams /\ stream \in Streams
      /\ odd \subseteq {"back", "late", "unnumbered", "bare"} /\ InOrder /\ stream.client # "broken"
      /\ \/ Target = "openai" /\ pair = <<"anthropic", "openai">> /\ CallsOpen /\ Waiting = {}
         \/ Target = "responses" /\ pair = <<"anthropic", "responses">> /\ ItemsOpen
  BY <1>1, AnthropicCases
<1>4. /\ vendor' \in Upstreams /\ vendor'.phase = "finished" /\ vendor'.complete = vendor.complete
      /\ vendor'.current = vendor.current /\ vendor'.block = vendor.block /\ vendor'.started = vendor.started
  BY <1>1, <1>3, VendorMoves
<1>8. odd' \in {odd, odd \cup {"bare"}}
  BY <1>1
<1>5. Waiting' = Waiting
  BY <1>1, <1>4 DEF Waiting
<1>6. CASE Target = "openai"
  <2> DEFINE y == SendFinish(stream)
  <2>1. stream.client \in {"in", "finishing"}
    BY <1>1, <1>3, <1>6 DEF CallsOpen
  <2>2. /\ Sent(stream, y) /\ y.blocks = stream.blocks /\ y.owed = stream.owed
        /\ IF /\ stream.client \in {"in", "finishing"}
              /\ Target # "openai" => \A b \in Blocks : stream.blocks[b].is # "open"
           THEN y.client = "finishing" ELSE y.client = "broken"
    BY <1>3, SendFinishSends
  <2>3. stream' = y
    BY <1>1, <1>6
  <2> HIDE DEF y
  <2>4. /\ stream' \in Streams /\ stream'.client = "finishing" /\ stream'.blocks = stream.blocks /\ stream'.owed = stream.owed
        /\ stream'.next = stream.next /\ stream'.blockOf = stream.blockOf
    BY <1>6, <2>1, <2>2, <2>3 DEF Sent
  <2>5. InOrder'
    BY <1>3, <1>4, <2>4 DEF InOrder
  <2>6. CallsOpen'
    BY <1>3, <1>4, <1>6, <2>4 DEF CallsOpen
  <2> QED
    BY <1>1, <1>2, <1>4, <1>5, <1>6, <1>8, <2>4, <2>5, <2>6, AnthropicIInv
<1>7. CASE Target = "responses"
  <2>1. stream' = stream
    BY <1>1, <1>7
  <2>2. InOrder'
    BY <1>3, <1>4, <2>1 DEF InOrder
  <2>3. ItemsOpen'
    <3>1. stream.begun \/ "bare" \in odd'
      BY <1>1, <1>3, <1>7 DEF ItemsOpen, Begun
    <3> QED
      BY <1>1, <1>3, <1>4, <1>7, <2>1, <3>1 DEF ItemsOpen
  <2> QED
    BY <1>1, <1>2, <1>3, <1>4, <1>5, <1>7, <1>8, <2>1, <2>2, <2>3, AnthropicIInv
<1> QED
  BY <1>3, <1>6, <1>7

LEMMA MessageStopIInv ==
    ASSUME StreamIInv, MessageStop
    PROVE  StreamIInv'
<1>1. /\ Source = "anthropic" /\ vendor.phase = "finished" /\ UNCHANGED <<pair, numbered, odd>>
      /\ stream' = IF Target = "openai" THEN SendEnd(stream) ELSE CompleteResponse(stream)
      /\ vendor' = [vendor EXCEPT !.phase = "over"]
  BY DEF MessageStop
<1>2. ~vendor.complete
  BY <1>1 DEF StreamIInv
<1>3. /\ pair \in Pairs /\ numbered \in BOOLEAN /\ vendor \in Upstreams /\ stream \in Streams
      /\ odd \subseteq {"back", "late", "unnumbered", "bare"} /\ InOrder /\ stream.client # "broken"
      /\ \/ Target = "openai" /\ pair = <<"anthropic", "openai">> /\ CallsOpen /\ Waiting = {}
         \/ Target = "responses" /\ pair = <<"anthropic", "responses">> /\ ItemsOpen
  BY <1>1, AnthropicCases
<1>4. /\ vendor' \in Upstreams /\ vendor'.phase = "over" /\ vendor'.complete = vendor.complete
      /\ vendor'.current = vendor.current /\ vendor'.block = vendor.block /\ vendor'.started = vendor.started
  BY <1>1, <1>3, VendorMoves
<1>5. Waiting' = Waiting
  BY <1>1, <1>4 DEF Waiting
<1>6. CASE Target = "openai"
  <2> DEFINE y == SendEnd(stream)
  <2>1. stream.client = "finishing"
    BY <1>1, <1>3, <1>6 DEF CallsOpen
  <2>2. /\ Sent(stream, y) /\ y.blocks = stream.blocks /\ y.owed = stream.owed
        /\ y.client = IF stream.client = "finishing" THEN "over" ELSE "broken"
    BY <1>3, SendEndSends
  <2>3. stream' = y
    BY <1>1, <1>6
  <2> HIDE DEF y
  <2>4. /\ stream' \in Streams /\ stream'.client = "over" /\ stream'.blocks = stream.blocks /\ stream'.owed = stream.owed
        /\ stream'.next = stream.next /\ stream'.blockOf = stream.blockOf
    BY <2>1, <2>2, <2>3 DEF Sent
  <2>5. InOrder'
    BY <1>3, <1>4, <2>4 DEF InOrder
  <2>6. CallsOpen'
    BY <1>3, <1>4, <1>6, <2>4 DEF CallsOpen
  <2> QED
    BY <1>1, <1>2, <1>4, <1>5, <1>6, <2>4, <2>5, <2>6, AnthropicIInv
<1>7. CASE Target = "responses" /\ stream.begun
  <2> DEFINE w == SendFinish(stream)
             z == SendEnd(w)
  <2>1. /\ ItemsOpen /\ ~stream.ended /\ stream.begun /\ stream.client = "in"
        /\ \A i \in Blocks : vendor.block[i].is # "open"
    BY <1>1, <1>3, <1>7 DEF ItemsOpen
  <2>2. \A b \in Blocks : stream.blocks[b].is # "open"
    BY <2>1 DEF ItemsOpen
  <2>3. stream' = [z EXCEPT !.ended = TRUE]
    BY <1>1, <1>7, <2>1 DEF CompleteResponse
  <2>4. /\ Sent(stream, w) /\ w.blocks = stream.blocks /\ w.owed = stream.owed
        /\ IF /\ stream.client \in {"in", "finishing"}
              /\ Target # "openai" => \A b \in Blocks : stream.blocks[b].is # "open"
           THEN w.client = "finishing" ELSE w.client = "broken"
    BY <1>3, SendFinishSends
  <2> HIDE DEF w
  <2>5. w \in Streams /\ w.client = "finishing"
    BY <2>1, <2>2, <2>4 DEF Sent
  <2>6. /\ Sent(w, z) /\ z.blocks = w.blocks /\ z.owed = w.owed
        /\ z.client = IF w.client = "finishing" THEN "over" ELSE "broken"
    BY <2>5, SendEndSends
  <2> HIDE DEF z
  <2>7. /\ stream' \in Streams /\ stream'.client = "over" /\ stream'.ended /\ stream'.begun = stream.begun
        /\ stream'.blocks = stream.blocks /\ stream'.owed = stream.owed /\ stream'.next = stream.next
        /\ stream'.blockOf = stream.blockOf
    BY <2>3, <2>4, <2>5, <2>6 DEF Sent, Streams
  <2>8. InOrder'
    BY <1>3, <1>4, <2>7 DEF InOrder
  <2>9. ItemsOpen'
    BY <1>4, <2>1, <2>2, <2>7 DEF ItemsOpen
  <2> QED
    BY <1>1, <1>2, <1>4, <1>5, <1>7, <2>7, <2>8, <2>9, AnthropicIInv
<1>8. CASE Target = "responses" /\ ~stream.begun
  <2> DEFINE w == SendFinish(stream)
             z == SendEnd(w)
  <2>1. /\ pair = <<"anthropic", "responses">> /\ stream.client = "before" /\ ~stream.ended /\ "bare" \in odd
    BY <1>1, <1>3, <1>8 DEF ItemsOpen
  <2>2. stream' = [z EXCEPT !.ended = TRUE]
    BY <1>1, <1>8, <2>1 DEF CompleteResponse
  <2>3. /\ Sent(stream, w) /\ w.blocks = stream.blocks /\ w.owed = stream.owed
        /\ IF /\ stream.client \in {"in", "finishing"}
              /\ Target # "openai" => \A b \in Blocks : stream.blocks[b].is # "open"
           THEN w.client = "finishing" ELSE w.client = "broken"
    BY <1>3, SendFinishSends
  <2> HIDE DEF w
  <2>4. w \in Streams /\ w.client = "broken"
    BY <2>1, <2>3 DEF Sent
  <2>5. /\ Sent(w, z) /\ z.blocks = w.blocks /\ z.owed = w.owed
        /\ z.client = IF w.client = "finishing" THEN "over" ELSE "broken"
    BY <2>4, SendEndSends
  <2> HIDE DEF z
  <2>6. stream' \in Streams /\ stream'.client = "broken" /\ stream'.owed = stream.owed
    BY <2>2, <2>3, <2>4, <2>5 DEF Sent, Streams
  <2>7. StreamTypeOK'
    BY <1>1, <1>3, <1>4, <2>6 DEF StreamTypeOK
  <2>8. ReaderFollows' /\ NothingLost' /\ OnIsNotOver'
    BY <1>1, <1>2, <1>4, <1>5, <2>1, <2>6 DEF StreamIInv, ReaderFollows, NothingLost, OnIsNotOver
  <2>9. Source' = "anthropic" /\ pair' = <<"anthropic", "responses">>
    BY <1>1, <2>1 DEF Source
  <2>10. Shaped'
    BY <1>4, <2>6, <2>9 DEF Shaped
  <2> QED
    BY <1>2, <1>4, <2>7, <2>8, <2>10 DEF StreamIInv
<1> QED
  BY <1>3, <1>6, <1>7, <1>8

LEMMA StreamNextIInv ==
    ASSUME StreamIInv, [StreamNext]_streamVars
    PROVE  StreamIInv'
<1>1. CASE UNCHANGED streamVars
  BY <1>1 DEF streamVars, StreamIInv, StreamTypeOK, ReaderFollows, NothingLost, OnIsNotOver, Shaped, Tidy, FinishedIsOver,
     Attentive, Loose, InOrder, CallsOpen, ItemsOpen, Begun, Waiting, Source, Target
<1>2. ASSUME NEW finish \in BOOLEAN, NEW p \in OpenAiParts, OpenAiChunk(p, finish) PROVE StreamIInv'
  BY <1>2, OpenAiChunkIInv
<1>3. ASSUME NEW finish \in BOOLEAN, NEW p \in GeminiParts, GeminiChunk(p, finish) PROVE StreamIInv'
  BY <1>3, GeminiChunkIInv
<1>4. CASE OpenAiSaysDone
  BY <1>4, OpenAiSaysDoneIInv
<1>5. CASE MessageStart
  BY <1>5, MessageStartIInv
<1>6. ASSUME NEW i \in Blocks, NEW k \in Kinds, BlockStart(i, k) PROVE StreamIInv'
  BY <1>6, BlockStartIInv
<1>7. ASSUME NEW i \in Blocks, BlockDelta(i) PROVE StreamIInv'
  BY <1>7, BlockDeltaIInv
<1>8. ASSUME NEW i \in Blocks, BlockStop(i) PROVE StreamIInv'
  BY <1>8, BlockStopIInv
<1>9. CASE MessageDelta
  BY <1>9, MessageDeltaIInv
<1>10. CASE MessageStop
  BY <1>10, MessageStopIInv
<1>11. CASE UpstreamEnds
  BY <1>11, UpstreamEndsIInv
<1>12. CASE UpstreamBreaks
  BY <1>12, UpstreamBreaksIInv
<1> QED
  BY <1>1, <1>2, <1>3, <1>4, <1>5, <1>6, <1>7, <1>8, <1>9, <1>10, <1>11, <1>12 DEF StreamNext

(* The translator, what the upstream has sent and what the reader has made of it keep     *)
(* their types: no translator numbers more blocks than it was sent                      *)
(* (openaiToAnthropic.ts, anthropicToOpenai.ts, geminiToAnthropic.ts).                   *)
THEOREM StreamTypeCorrect == StreamSpec => []StreamTypeOK
<1>1. StreamIInv => StreamTypeOK
  BY DEF StreamIInv
<1> QED
  BY StreamInitIInv, StreamNextIInv, <1>1, PTL DEF StreamSpec

(* The reader can follow, no piece is lost and the answer ends when the upstream's does,  *)
(* for answers of any length in each of the six pairs of formats (StreamsSound).          *)
THEOREM StreamsAreSound == StreamSpec => []StreamsSound
<1>1. StreamIInv => StreamsSound
  BY DEF StreamIInv, OnIsNotOver, StreamsSound, EndsTogether
<1> QED
  BY StreamInitIInv, StreamNextIInv, <1>1, PTL DEF StreamSpec

-----------------------------------------------------------------------------
(* The pair of formats a binding uses (BindingRoute, MCBindingRoute).                  *)

(* A set of natural numbers that has a member has a least one.                          *)
LEMMA LeastIndex == ASSUME NEW T \in SUBSET Nat, T # {} PROVE \E n \in T : \A m \in T : n =< m
<1> DEFINE Below == {nm \in Nat \X Nat : nm[1] < nm[2]}
<1>1. IsWellFoundedOn(Below, Nat)
  BY NatLessThanWellFounded, Zenon DEF OpToRel
<1>2. \A m, n \in Nat : <<m, n>> \in Below <=> m < n
  OBVIOUS
<1> HIDE DEF Below
<1>3. PICK n \in T : \A m \in T : ~ (<<m, n>> \in Below)
  BY <1>1, WFMin, Zenon
<1>4. n \in Nat /\ \A m \in T : m \in Nat /\ ~ (m < n)
  BY <1>2, <1>3
<1> QED
  BY <1>4

(* FirstIn takes the element with the least index, of a list that has one in the set.   *)
LEMMA FirstInIsFirst ==
    ASSUME NEW X, NEW s \in Seq(X), NEW S, NEW k \in DOMAIN s, s[k] \in S
    PROVE  \E i \in DOMAIN s : /\ FirstIn(s, S) = s[i] /\ s[i] \in S
                               /\ \A j \in DOMAIN s : s[j] \in S => i =< j
<1> DEFINE T == {i \in DOMAIN s : s[i] \in S}
           C(i) == i \in DOMAIN s /\ s[i] \in S /\ \A j \in 1..(i-1) : s[j] \notin S
<1>1. T \in SUBSET Nat /\ T # {} /\ DOMAIN s = 1 .. Len(s) /\ Len(s) \in Nat
  OBVIOUS
<1>2. PICK n \in T : \A m \in T : n =< m
  BY <1>1, LeastIndex
<1>3. C(n)
  BY <1>1, <1>2
<1> DEFINE m == CHOOSE i \in DOMAIN s : s[i] \in S /\ \A j \in 1..(i-1) : s[j] \notin S
<1>4. m \in DOMAIN s /\ s[m] \in S /\ \A j \in 1..(m-1) : s[j] \notin S
  BY <1>3
<1>5. FirstIn(s, S) = s[m]
  BY DEF FirstIn
<1> HIDE DEF m
<1>6. \A j \in DOMAIN s : s[j] \in S => m =< j
  BY <1>1, <1>4
<1> QED
  BY <1>4, <1>5, <1>6

(* The table of targets and the predicate of the proxy agree, on every format.          *)
LEMMA TargetsAre ==
    ASSUME NEW f \in ApiFormats
    PROVE  /\ TRANSLATION_TARGETS[f] \in Seq(ApiFormats)
           /\ Elements(TRANSLATION_TARGETS[f]) = {g \in ApiFormats \ {f} : translationSupported(f, g)}
<1>1. CASE f = "anthropic"
  <2>1. TRANSLATION_TARGETS[f] = <<"openai", "gemini">>
    BY <1>1 DEF TRANSLATION_TARGETS
  <2>2. Elements(<<"openai", "gemini">>) = {"openai", "gemini"}
    BY DEF Elements
  <2> QED
    BY <1>1, <2>1, <2>2 DEF ApiFormats, translationSupported
<1>2. CASE f = "openai"
  <2>1. TRANSLATION_TARGETS[f] = <<"anthropic", "gemini">>
    BY <1>2 DEF TRANSLATION_TARGETS
  <2>2. Elements(<<"anthropic", "gemini">>) = {"anthropic", "gemini"}
    BY DEF Elements
  <2> QED
    BY <1>2, <2>1, <2>2 DEF ApiFormats, translationSupported
<1>3. CASE f = "openai-responses"
  <2>1. TRANSLATION_TARGETS[f] = <<"openai", "anthropic">>
    BY <1>3 DEF TRANSLATION_TARGETS
  <2>2. Elements(<<"openai", "anthropic">>) = {"openai", "anthropic"}
    BY DEF Elements
  <2> QED
    BY <1>3, <2>1, <2>2 DEF ApiFormats, translationSupported
<1>4. CASE f = "gemini"
  <2>1. TRANSLATION_TARGETS[f] = << >>
    BY <1>4 DEF TRANSLATION_TARGETS
  <2>2. Elements(<< >>) = {}
    BY DEF Elements
  <2>3. << >> \in Seq(ApiFormats)
    OBVIOUS
  <2> QED
    BY <1>4, <2>1, <2>2, <2>3 DEF translationSupported
<1> QED
  BY <1>1, <1>2, <1>3, <1>4 DEF ApiFormats

(* However many formats an agent declares, and whatever the provider serves.            *)
RouteTyped == accepted \in Seq(ApiFormats) /\ accepted # << >> /\ speaks \in SUBSET ApiFormats

LEMMA RouteFound == RouteTyped => RouteResolution
<1> SUFFICES ASSUME RouteTyped PROVE RouteResolution
  OBVIOUS
<1>1. /\ accepted \in Seq(ApiFormats) /\ DOMAIN accepted = 1 .. Len(accepted) /\ Len(accepted) \in Nat
      /\ 1 \in DOMAIN accepted /\ accepted[1] \in ApiFormats /\ speaks \subseteq ApiFormats
      /\ \A i \in DOMAIN accepted : accepted[i] \in ApiFormats
  BY DEF RouteTyped
<1>2. TargetsMirrorPredicate
  BY <1>1, TargetsAre DEF TargetsMirrorPredicate, Elements
<1>3. \A f : f \in Elements(accepted) \cap speaks <=> \E i \in DOMAIN accepted : accepted[i] = f /\ f \in speaks
  BY DEF Elements
<1>4. CASE \E i \in DOMAIN accepted : accepted[i] \in speaks
  <2> DEFINE f == FirstIn(accepted, speaks)
  <2>1. route = [kind |-> "native", inbound |-> f, outbound |-> f]
    BY <1>4 DEF route, resolveBindingRoute
  <2>2. PICK n \in DOMAIN accepted : /\ f = accepted[n] /\ accepted[n] \in speaks
                                     /\ \A j \in DOMAIN accepted : accepted[j] \in speaks => n =< j
    BY <1>1, <1>4, FirstInIsFirst
  <2> HIDE DEF f
  <2>3. Elements(accepted) \cap speaks # {}
    BY <1>3, <2>2
  <2>4. \A i \in DOMAIN accepted : accepted[i] \in Elements(accepted) \cap speaks => \E j \in 1 .. i : accepted[j] = f
    BY <1>1, <2>2
  <2>5. route.kind = "native" /\ route.inbound = f /\ route.outbound = f
    BY <2>1
  <2>6. route # NoPair
    BY <2>5 DEF NoPair
  <2>7. NativeWins
    BY <2>3, <2>4, <2>5 DEF NativeWins
  <2>8. NoRouteMissed
    BY <2>5, <2>6 DEF NoRouteMissed
  <2> QED
    BY <1>2, <2>7, <2>8 DEF RouteResolution
<1>5. CASE ~ \E i \in DOMAIN accepted : accepted[i] \in speaks
  <2> DEFINE targets == TRANSLATION_TARGETS[accepted[1]]
             reachable == {f \in speaks : translationSupported(accepted[1], f)}
             g == FirstIn(targets, reachable)
  <2>1. Elements(accepted) \cap speaks = {}
    BY <1>3, <1>5
  <2>2. /\ targets \in Seq(ApiFormats)
        /\ Elements(targets) = {h \in ApiFormats \ {accepted[1]} : translationSupported(accepted[1], h)}
    BY <1>1, TargetsAre
  <2>3. \A h \in reachable : \E i \in DOMAIN targets : targets[i] = h
    <3>1. \A h \in reachable : h \in Elements(targets)
      BY <1>1, <1>5, <2>2
    <3> HIDE DEF targets, reachable
    <3> QED
      BY <3>1 DEF Elements
  <2>4. accepted # << >>
    BY <1>1
  <2>5. CASE \E i \in DOMAIN targets : targets[i] \in reachable
    <3>1. route = [kind |-> "translated", inbound |-> accepted[1], outbound |-> g]
      BY <1>5, <2>4, <2>5 DEF route, resolveBindingRoute
    <3> HIDE DEF reachable, targets
    <3>2. g \in reachable
      BY <2>2, <2>5, FirstInIsFirst
    <3> HIDE DEF g
    <3>3. route.kind = "translated" /\ route.outbound = g
      BY <3>1
    <3>4. route # NoPair
      BY <3>3 DEF NoPair
    <3>5. NativeWins
      BY <2>1, <3>3 DEF NativeWins
    <3>6. NoRouteMissed
      BY <3>2, <3>3, <3>4 DEF NoRouteMissed, reachable
    <3> QED
      BY <1>2, <3>5, <3>6 DEF RouteResolution
  <2>6. CASE ~ \E i \in DOMAIN targets : targets[i] \in reachable
    <3>1. route = NoPair
      BY <1>5, <2>4, <2>6 DEF route, resolveBindingRoute
    <3>2. reachable = {}
      BY <2>3, <2>6
    <3>3. route.kind = "unsupported"
      BY <3>1 DEF NoPair
    <3>4. NativeWins
      BY <2>1, <3>3 DEF NativeWins
    <3>5. NoRouteMissed
      BY <2>1, <3>2, <3>3 DEF NoRouteMissed
    <3> QED
      BY <1>2, <3>4, <3>5 DEF RouteResolution
  <2> QED
    BY <2>5, <2>6
<1> QED
  BY <1>4, <1>5

(* The pair a binding gets is one both sides speak, the agent's favourite of these, or    *)
(* one the proxy can carry; and none is missed, however the user edits the provider's    *)
(* formats (RouteResolution; aiProviders.ts, resolveBindingRoute).                       *)
THEOREM RoutesResolve == RouteSpec => []RouteResolution
<1>1. RouteInit => RouteTyped
  <2> SUFFICES ASSUME RouteInit PROVE RouteTyped
    OBVIOUS
  <2>1. PICK n \in 1 .. 3 : accepted \in [1 .. n -> ApiFormats]
    BY DEF RouteInit, FormatLists
  <2>2. accepted \in Seq(ApiFormats) /\ Len(accepted) = n
    BY <2>1
  <2> QED
    BY <2>2 DEF RouteTyped, RouteInit
<1>2. RouteTyped /\ [RouteNext]_<<accepted, speaks>> => RouteTyped'
  BY DEF RouteTyped, RouteNext, EditFormats
<1> QED
  BY <1>1, <1>2, RouteFound, PTL DEF RouteSpec

-----------------------------------------------------------------------------
(* The components side by side (MCServices).                                            *)

(* Seen from one component, the composition that TLC runs is that component: what is      *)
(* proved of each of them holds there too.                                              *)
THEOREM ServicesAreComponents ==
    ServicesSpec => /\ RouteSpec /\ Spec /\ OAuthSpec /\ ServerSpec /\ GatewaySpec /\ LibrarySpec
                    /\ LifecycleSpec /\ StreamSpec /\ SkillSpec /\ UsageSpec
<1>1. ServicesInit => /\ RouteInit /\ Init /\ OAuthInit /\ ServerInit /\ GatewayInit
                      /\ LibraryInit /\ LifecycleInit /\ StreamInit /\ SkillInit /\ UsageInit
  BY DEF ServicesInit
<1>2. [ServicesNext]_ServicesVars =>
        /\ [RouteNext]_<<accepted, speaks>> /\ [Next]_vars /\ [OAuthNext]_oauthVars /\ [ServerNext]_serverVars
        /\ [GatewayNext]_gatewayVars /\ [LibraryNext]_libraryVars /\ [LifecycleNext]_lifecycleVars
        /\ [StreamNext]_streamVars /\ [SkillNext]_skillVars /\ [UsageNext]_usageVars
  <2>1. CASE ServicesNext
    BY <2>1 DEF ServicesNext, Others, routeVars
  <2>2. CASE UNCHANGED ServicesVars
    BY <2>2 DEF ServicesVars, routeVars
  <2> QED
    BY <2>1, <2>2
<1> QED
  BY <1>1, <1>2, PTL DEF ServicesSpec, RouteSpec, Spec, OAuthSpec, ServerSpec, GatewaySpec, LibrarySpec,
     LifecycleSpec, StreamSpec, SkillSpec, UsageSpec

(* Every component keeps its types, for every value of its constants (ServicesTypeOK).    *)
THEOREM ServicesTypeCorrect == ServicesSpec => []ServicesTypeOK
BY ServicesAreComponents, FileTypeCorrect, OAuthTypeCorrect, ServerTypeCorrect, GatewayTypeCorrect, LibraryTypeCorrect,
   LifecycleTypeCorrect, StreamTypeCorrect, SkillTypeCorrect, UsageTypeCorrect, PTL DEF ServicesTypeOK
=============================================================================
