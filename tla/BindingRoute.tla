---------------------------- MODULE BindingRoute ----------------------------
(***************************************************************************)
(* Which pair of API formats a binding uses, and whether the proxy can     *)
(* carry it: the pure functions of shared/aiProviders.ts that the binding  *)
(* picker, the provider manager and the routing groups share.              *)
(***************************************************************************)
EXTENDS Naturals, Sequences

ApiFormats == {"anthropic", "openai", "openai-responses", "gemini"}

\* The first element of seq in the set S; seq has one.
FirstIn(seq, S) ==
  seq[CHOOSE i \in DOMAIN seq : seq[i] \in S /\ \A j \in 1..(i-1) : seq[j] \notin S]

Elements(seq) == {seq[i] : i \in DOMAIN seq}

\* Mutant of TRANSLATION_TARGETS: the Responses dialect gains a Gemini target.
ResponsesToGemini ==
  [f \in ApiFormats |->
     IF f = "anthropic" THEN <<"openai", "gemini">>
     ELSE IF f = "openai" THEN <<"anthropic", "gemini">>
     ELSE IF f = "openai-responses" THEN <<"openai", "gemini", "anthropic">>
     ELSE << >>]

\* For each agent format, the provider formats to translate to, best first.
TRANSLATION_TARGETS ==
  [f \in ApiFormats |->
     IF f = "anthropic" THEN <<"openai", "gemini">>
     ELSE IF f = "openai" THEN <<"anthropic", "gemini">>
     ELSE IF f = "openai-responses" THEN <<"openai", "anthropic">>
     ELSE << >>]

\* Whether the loopback proxy can carry the directed pair: a same-format
\* passthrough, except Gemini, or one of the translations it implements.
translationSupported(inbound, outbound) ==
  /\ inbound # "gemini"
  /\ \/ outbound = "gemini" /\ inbound \in {"anthropic", "openai"}
     \/ outbound # "gemini" /\ inbound = outbound
     \/ <<inbound, outbound>> \in { <<"anthropic", "openai">>,
                                    <<"openai", "anthropic">>,
                                    <<"openai-responses", "openai">>,
                                    <<"openai-responses", "anthropic">> }

\* No format pair: resolveBindingRoute returned null.
NoPair == [kind |-> "unsupported"]

\* Mutant of resolveBindingRoute: a pair is taken from the provider's formats
\* without asking whether both speak it.
resolveTranslatingFirst(accepted, served) ==
  LET inbound == accepted[1]
      reachable == {f \in served : translationSupported(inbound, f)}
  IN IF reachable = {} THEN NoPair
     ELSE [kind |-> "translated", inbound |-> inbound,
           outbound |-> CHOOSE f \in reachable : TRUE]

\* accepted: the agent's formats in its own order; served: the provider's set.
\* A shared format wins, in the agent's order; else the agent's first format
\* is translated to the first target the provider serves.
resolveBindingRoute(accepted, served) ==
  IF \E i \in DOMAIN accepted : accepted[i] \in served
  THEN LET f == FirstIn(accepted, served)
       IN [kind |-> "native", inbound |-> f, outbound |-> f]
  ELSE IF accepted = << >> THEN NoPair
  ELSE LET inbound == accepted[1]
           targets == TRANSLATION_TARGETS[inbound]
           reachable == {f \in served : translationSupported(inbound, f)}
       IN IF \E i \in DOMAIN targets : targets[i] \in reachable
          THEN [kind |-> "translated", inbound |-> inbound,
                outbound |-> FirstIn(targets, reachable)]
          ELSE NoPair
=============================================================================
