----------------------------- MODULE MCBindings -----------------------------
EXTENDS Bindings, TLC

CONSTANTS claude, codex, p1, p2, g1, m1

\* claude speaks anthropic, codex the Responses dialect.
MCAccepted == (claude :> <<"anthropic">>) @@ (codex :> <<"openai-responses">>)

OneAgent == << claude >>
TwoAgents == << claude, codex >>

Shape(formats, url, mode) ==
  [formats |-> formats, url |-> url, models |-> {m1}, mode |-> mode, driver |-> FALSE]

\* Native for claude, translated for claude, and one an agent cannot reach.
MCShapes == { Shape({"anthropic"}, "u1", "api_key"), Shape({"openai"}, "u2", "api_key"),
              Shape({"openai-responses"}, "u2", "api_key") }

\* Native for both agents with a key, translated for both without one.
FaultShapes == { Shape({"anthropic", "openai-responses"}, "u1", "api_key"),
                 Shape({"openai"}, "u2", "oauth") }

MCMemberLists == LET m(p) == [provider |-> p, model |-> m1]
                 IN { << m(p1), m(p2) >>, << m(p2) >> }

OneMember == { << [provider |-> p1, model |-> m1] >> }

Bound(p) == [provider |-> p, model |-> m1]
NoProfiles == {}
OneProfile == { [a \in Agents |-> IF a = claude THEN Bound(p1) ELSE None] }
=============================================================================
