---------------------------- MODULE OAuthSessions ----------------------------
(* Signing in with a vendor account (oauth/oauthManager.ts, callbackServer.ts)   *)
(* and the refreshing of what it gave (upstreams/codearts/auth.ts, the one       *)
(* caller of getAccessToken).                                                    *)
(*                                                                               *)
(* A bundle is known by the sign-in it came from and by how often it was         *)
(* refreshed; the vendor gives a new refresh token with every refresh and        *)
(* accepts each only once. A login and a refresh are processes whose program     *)
(* counter names what they await.                                                *)
EXTENDS Integers, FiniteSets

CONSTANTS
    Accounts,     \* ids of OAuth-backed providers
    NoAccount,
    Refreshes,    \* refreshes in flight at once
    MaxGrants,    \* bound: sign-ins the vendor grants
    MaxGen        \* bound: refreshes of one sign-in

ASSUME OAuthAssumption ==
    /\ NoAccount \notin Accounts
    /\ MaxGrants \in Nat
    /\ MaxGen \in Nat \ {0}

VARIABLES
    provider,     \* the accounts that are providers of the store
    bundle,       \* the secret store: what each account is signed in with
    newest,       \* vendor: the refresh token it accepts, per sign-in; 0 before it is granted
    login,        \* the startLogin under way
    pending,      \* `pending': whose login refuses every other
    listener,     \* whether the callback server of the login listens
    refresh,      \* refreshIfNeeded and renew
    renewing,     \* the accounts with a renew() under way
    overtaken,    \* history: accounts signed out or removed while a login or a refresh was under way
    unanswered    \* history: sign-ins the vendor refreshed without AiOpt hearing of it

oauthVars == <<provider, bundle, newest, login, pending, listener, refresh, renewing, overtaken, unanswered>>

Grants == 1 .. MaxGrants
SignedOut == [grant |-> 0, gen |-> 0, due |-> "no"]
NoLogin == [pc |-> "none", account |-> NoAccount, grant |-> 0]
NoRefresh == [pc |-> "none", by |-> "none", account |-> NoAccount, grant |-> 0, gen |-> 0]

OAuthTypeOK ==
    /\ provider \subseteq Accounts
    /\ bundle \in [Accounts -> [grant : 0 .. MaxGrants, gen : 0 .. MaxGen, due : {"no", "soon", "now"}]]
    /\ newest \in [Grants -> 0 .. MaxGen]
    /\ login \in [pc : {"none", "listen", "browse", "callback", "exchange"},
                  account : Accounts \cup {NoAccount}, grant : 0 .. MaxGrants]
    /\ pending \in Accounts \cup {NoAccount}
    /\ listener \in BOOLEAN
    /\ refresh \in [Refreshes -> [pc : {"none", "sent", "granted", "refused"}, by : {"none", "manager", "renew"},
                                  account : Accounts \cup {NoAccount}, grant : 0 .. MaxGrants, gen : 0 .. MaxGen]]
    /\ renewing \subseteq Accounts
    /\ overtaken \subseteq Accounts
    /\ unanswered \subseteq Grants

OAuthInit ==
    /\ provider = Accounts
    /\ bundle = [a \in Accounts |-> SignedOut]
    /\ newest = [g \in Grants |-> 0]
    /\ login = NoLogin
    /\ pending = NoAccount
    /\ listener = FALSE
    /\ refresh = [r \in Refreshes |-> NoRefresh]
    /\ renewing = {}
    /\ overtaken = {}
    /\ unanswered = {}

-----------------------------------------------------------------------------
(* What is under way for an account.                                          *)

Connected(a) == bundle[a].grant # 0
Refreshing(a) == {r \in Refreshes : refresh[r].account = a}
(* The sign-ins of a that a refresh in flight still thinks are current.       *)
Outlived(a) == {refresh[r].grant : r \in Refreshing(a)}
Issued == {g \in Grants : newest[g] > 0}

-----------------------------------------------------------------------------
(* startLogin.                                                                *)

(* Everything before the first await. A second login is refused.              *)
StartLogin(a) ==
    /\ pending = NoAccount
    /\ a \in provider
    /\ pending' = a
    /\ login' = [pc |-> "listen", account |-> a, grant |-> 0]
    /\ UNCHANGED <<provider, bundle, newest, listener, refresh, renewing, overtaken, unanswered>>

(* The callback server listens; a listen that fails rejects outside the try.  *)
Listening ==
    /\ login.pc = "listen"
    /\ \/ /\ listener' = TRUE
          /\ login' = [login EXCEPT !.pc = "browse"]
       \/ /\ login' = NoLogin
          /\ UNCHANGED listener
    /\ UNCHANGED <<provider, bundle, newest, pending, refresh, renewing, overtaken, unanswered>>

(* The finally: the login is over and its listener closed. Mutant: the close   *)
(* is left to the timeout, which a settled login has cleared.                  *)
LoginOverStillListening ==
    /\ login' = NoLogin
    /\ pending' = NoAccount
    /\ UNCHANGED listener

LoginOver ==
    /\ login' = NoLogin
    /\ pending' = NoAccount
    /\ listener' = FALSE

(* openExternalUrl was answered: the browser is open, or could not be.        *)
BrowserOpened ==
    /\ login.pc = "browse"
    /\ \/ login' = [login EXCEPT !.pc = "callback"] /\ UNCHANGED <<pending, listener>>
       \/ LoginOver
    /\ UNCHANGED <<provider, bundle, newest, refresh, renewing, overtaken, unanswered>>

(* The redirect came with this login's state and a code, and the vendor grants *)
(* a sign-in for it.                                                           *)
CallbackArrives(g) ==
    /\ login.pc = "callback"
    /\ g \notin Issued
    /\ \A h \in Grants : h \notin Issued => g <= h
    /\ newest' = [newest EXCEPT ![g] = 1]
    /\ login' = [login EXCEPT !.pc = "exchange", !.grant = g]
    /\ UNCHANGED <<provider, bundle, pending, listener, refresh, renewing, overtaken, unanswered>>

(* Another state, an error, or no code.                                       *)
CallbackFails ==
    /\ login.pc = "callback"
    /\ LoginOver
    /\ UNCHANGED <<provider, bundle, newest, refresh, renewing, overtaken, unanswered>>

(* FLOW_TIMEOUT_MS without a redirect. Mutant: nothing ends the wait.         *)
NoTimeout == FALSE

CallbackTimeout == CallbackFails

(* The exchange was answered: the bundle is stored, then the provider is        *)
(* written back, which throws when it was removed meanwhile. Or the exchange    *)
(* failed, or the OS cannot encrypt.                                            *)
Exchanged ==
    LET a == login.account IN
    /\ login.pc = "exchange"
    /\ \/ bundle' = [bundle EXCEPT ![a] = [grant |-> login.grant, gen |-> 1, due |-> "no"]]
       \/ UNCHANGED bundle
    /\ LoginOver
    /\ UNCHANGED <<provider, newest, refresh, renewing, overtaken, unanswered>>

-----------------------------------------------------------------------------
(* disconnect, by itself and as part of removing the provider.                *)

ClearTokens(a) ==
    /\ bundle' = [bundle EXCEPT ![a] = SignedOut]
    /\ overtaken' = IF Refreshing(a) # {} \/ login.account = a THEN overtaken \cup {a} ELSE overtaken

Disconnect(a) ==
    /\ ClearTokens(a)
    /\ UNCHANGED <<provider, newest, login, pending, listener, refresh, renewing, unanswered>>

(* Mutant: the provider goes, its tokens stay.                                *)
RemoveProviderOnly(a) ==
    /\ a \in provider
    /\ provider' = provider \ {a}
    /\ UNCHANGED <<bundle, newest, login, pending, listener, refresh, renewing, overtaken, unanswered>>

RemoveProvider(a) ==
    /\ a \in provider
    /\ provider' = provider \ {a}
    /\ ClearTokens(a)
    /\ UNCHANGED <<newest, login, pending, listener, refresh, renewing, unanswered>>

-----------------------------------------------------------------------------
(* A request needs a token.                                                   *)

(* Time passes: within CODEARTS_REFRESH_LEAD_MS, then within REFRESH_SKEW_MS. *)
Age(a) ==
    /\ Connected(a)
    /\ bundle[a].due # "now"
    /\ bundle' = [bundle EXCEPT ![a].due = IF @ = "no" THEN "soon" ELSE "now"]
    /\ UNCHANGED <<provider, newest, login, pending, listener, refresh, renewing, overtaken, unanswered>>

Send(r, a, by) ==
    /\ refresh[r].pc = "none"
    /\ bundle[a].gen < MaxGen
    /\ refresh' = [refresh EXCEPT ![r] = [pc |-> "sent", by |-> by, account |-> a,
                                          grant |-> bundle[a].grant, gen |-> bundle[a].gen]]

(* getAccessToken with a bundle that is about to expire: every request that    *)
(* finds it so asks for itself.                                                *)
ManagerRefreshes(r, a) ==
    /\ a \in provider
    /\ Connected(a)
    /\ bundle[a].due = "now"
    /\ Send(r, a, "manager")
    /\ UNCHANGED <<provider, bundle, newest, login, pending, listener, renewing, overtaken, unanswered>>

(* current(): the session it got is within the lead, and nobody renews it yet. *)
SessionRenews(r, a) ==
    /\ Connected(a)
    /\ bundle[a].due # "no"
    /\ a \notin renewing
    /\ renewing' = renewing \cup {a}
    /\ Send(r, a, "renew")
    /\ UNCHANGED <<provider, bundle, newest, login, pending, listener, overtaken, unanswered>>

(* The vendor takes a refresh token once.                                     *)
VendorAnswers(r) ==
    LET f == refresh[r] IN
    /\ f.pc = "sent"
    /\ IF newest[f.grant] = f.gen
       THEN /\ newest' = [newest EXCEPT ![f.grant] = f.gen + 1]
            /\ refresh' = [refresh EXCEPT ![r].pc = "granted"]
       ELSE /\ refresh' = [refresh EXCEPT ![r].pc = "refused"]
            /\ UNCHANGED newest
    /\ UNCHANGED <<provider, bundle, login, pending, listener, renewing, overtaken, unanswered>>

EndRefresh(r) ==
    /\ refresh' = [refresh EXCEPT ![r] = NoRefresh]
    /\ renewing' = IF refresh[r].by = "renew" THEN renewing \ {refresh[r].account} ELSE renewing

(* Mutant: the session in memory is renewed, the stored one is not.           *)
RefreshedUnstored(r) ==
    /\ refresh[r].pc = "granted"
    /\ EndRefresh(r)
    /\ UNCHANGED <<provider, bundle, newest, login, pending, listener, overtaken, unanswered>>

(* The new bundle arrives and is written, whatever is stored by now.          *)
Refreshed(r) ==
    LET f == refresh[r] IN
    /\ f.pc = "granted"
    /\ bundle' = [bundle EXCEPT ![f.account] = [grant |-> f.grant, gen |-> f.gen + 1, due |-> "no"]]
    /\ EndRefresh(r)
    /\ UNCHANGED <<provider, newest, login, pending, listener, overtaken, unanswered>>

(* Refused, or no answer, or one that cannot be written: the request goes on   *)
(* without it and nothing is changed.                                          *)
RefreshFails(r) ==
    /\ refresh[r].pc # "none"
    /\ EndRefresh(r)
    /\ unanswered' = IF refresh[r].pc = "granted" THEN unanswered \cup {refresh[r].grant} ELSE unanswered
    /\ UNCHANGED <<provider, bundle, newest, login, pending, listener, overtaken>>

-----------------------------------------------------------------------------

LoginStep ==
    \/ Listening
    \/ BrowserOpened
    \/ \E g \in Grants : CallbackArrives(g)
    \/ CallbackFails
    \/ CallbackTimeout
    \/ Exchanged

OAuthNext ==
    \/ \E a \in Accounts : StartLogin(a) \/ Disconnect(a) \/ RemoveProvider(a) \/ Age(a)
    \/ LoginStep
    \/ \E r \in Refreshes, a \in Accounts : ManagerRefreshes(r, a) \/ SessionRenews(r, a)
    \/ \E r \in Refreshes : VendorAnswers(r) \/ Refreshed(r) \/ RefreshFails(r)

OAuthSpec == OAuthInit /\ [][OAuthNext]_oauthVars

(* The listen, the browser and the vendor answer, and the timer fires.        *)
OAuthFairness == WF_oauthVars(Listening \/ BrowserOpened \/ CallbackTimeout \/ Exchanged)

-----------------------------------------------------------------------------
(* Every login that got as far as listening ends, with its listener closed and *)
(* the next one admitted: listen, browser, exchange and the timer answer.      *)
LoginEnds == listener ~> ~listener /\ pending = NoAccount

(* The loopback listener is there for one login at a time and gone with it     *)
(* (oauth-providers.md, review checklist: stopped after the attempt).          *)
ListenerServesLogin == listener => login.pc \in {"browse", "callback", "exchange"} /\ pending = login.account

(* Requests that refresh the same bundle at once do not lock the account out:   *)
(* the refresh token that is stored is the one the vendor takes next, unless an *)
(* answer is still to come or was lost.                                         *)
StoredTokenIsNewest ==
    \A a \in Accounts :
        Connected(a) /\ bundle[a].grant \notin unanswered \cup Outlived(a) =>
            newest[bundle[a].grant] = bundle[a].gen

(* A removed provider's credentials go with it, unless a login or a refresh of  *)
(* it was under way.                                                            *)
RemovedLeavesNoTokens == \A a \in Accounts \ provider : Connected(a) => a \in overtaken

(* Whatever crosses: the stored tokens are the ones that work, those of a removed *)
(* provider are gone, and no listener outlives its login.                         *)
SessionsSound == ListenerServesLogin /\ StoredTokenIsNewest /\ RemovedLeavesNoTokens
=============================================================================
