----------------------------- MODULE MCServices ------------------------------
(* The smaller components, checked side by side: they share no state, so a       *)
(* behaviour is one of one of them, with the others parked in their first state.  *)
EXTENDS MCBindingRoute, AgentConfigFile, OAuthSessions, ProxyServer, McpGateway,
        McpLibrary, WorkbenchLifecycle, TranslateStream, SkillFiles, UsageLog

VARIABLE part    \* the component that moves

routeVars == <<accepted, speaks>>
Parts == {"route", "files", "oauth", "server", "gateway", "library", "workbench",
          "streams", "skills", "usage"}

(* Where a component starts, and the one state in which it is parked. The gateway's *)
(* versions are alike: the one that is served first is called 1.                   *)
ServicesInit ==
    /\ part \in Parts
    /\ RouteInit /\ Init /\ OAuthInit /\ ServerInit /\ GatewayInit
    /\ LibraryInit /\ LifecycleInit /\ StreamInit /\ SkillInit /\ UsageInit
    /\ part # "route" => accepted = [i \in 1 .. 1 |-> "anthropic"] /\ speaks = {}
    /\ part # "files" => target = Absent
    /\ part # "streams" => pair = <<"openai", "anthropic">> /\ numbered
    /\ part # "gateway" => ~enabled /\ serving = [n \in Names |-> None]
    /\ \A n \in Names : serving[n] \in {None, 1}

(* All variables but those of one component.                                      *)
Others(p) ==
    /\ p # "route" => UNCHANGED routeVars
    /\ p # "files" => UNCHANGED vars
    /\ p # "oauth" => UNCHANGED oauthVars
    /\ p # "server" => UNCHANGED serverVars
    /\ p # "gateway" => UNCHANGED gatewayVars
    /\ p # "library" => UNCHANGED libraryVars
    /\ p # "workbench" => UNCHANGED lifecycleVars
    /\ p # "streams" => UNCHANGED streamVars
    /\ p # "skills" => UNCHANGED skillVars
    /\ p # "usage" => UNCHANGED usageVars

ServicesNext ==
    /\ UNCHANGED part
    /\ Others(part)
    /\ \/ part = "route" /\ RouteNext
       \/ part = "files" /\ Next
       \/ part = "oauth" /\ OAuthNext
       \/ part = "server" /\ ServerNext
       \/ part = "gateway" /\ GatewayNext
       \/ part = "library" /\ LibraryNext
       \/ part = "workbench" /\ LifecycleNext
       \/ part = "streams" /\ StreamNext
       \/ part = "skills" /\ SkillNext
       \/ part = "usage" /\ UsageNext

ServicesVars ==
    <<part, routeVars, vars, oauthVars, serverVars, gatewayVars, libraryVars,
      lifecycleVars, streamVars, skillVars, usageVars>>

(* Nothing that is fair can happen to a component that is parked.                 *)
ServicesSpec ==
    /\ ServicesInit /\ [][ServicesNext]_ServicesVars
    /\ OAuthFairness
    /\ GatewayFairness
    /\ LifecycleFairness

(* Every component keeps its types.                                               *)
ServicesTypeOK ==
    /\ TypeOK /\ OAuthTypeOK /\ ServerTypeOK /\ GatewayTypeOK /\ LibraryTypeOK
    /\ LifecycleTypeOK /\ StreamTypeOK /\ SkillTypeOK /\ UsageTypeOK

(* Nothing waits for ever: a login, a request to the gateway, a start of the       *)
(* workbench ends, because what it waits for answers, fails or times out.          *)
WaitsEnd == LoginEnds /\ RequestsAnswered /\ StartEnds
=============================================================================
