--------------------------- MODULE MCBindingRoute ---------------------------
(***************************************************************************)
(* BindingRoute over every agent that declares up to three formats and     *)
(* every set of formats a provider can serve.  A step is the user changing *)
(* the provider's formats while the agent stays.                           *)
(***************************************************************************)
EXTENDS BindingRoute, FiniteSets

VARIABLES accepted, speaks

Distinct(seq) == \A i, j \in DOMAIN seq : seq[i] = seq[j] => i = j
FormatLists == {seq \in UNION {[1..n -> ApiFormats] : n \in 1..3} : Distinct(seq)}

RouteInit == accepted \in FormatLists /\ speaks \in SUBSET ApiFormats

EditFormats(f) == /\ speaks' = IF f \in speaks THEN speaks \ {f} ELSE speaks \cup {f}
                  /\ UNCHANGED accepted

RouteNext == \E f \in ApiFormats : EditFormats(f)
RouteSpec == RouteInit /\ [][RouteNext]_<<accepted, speaks>>

route == resolveBindingRoute(accepted, speaks)

\* The two hand-kept tables agree: the translation targets of a format an agent
\* declares are exactly the other formats the proxy can carry it to ("Mirrors
\* translationSupported's cross-format cases").
TargetsMirrorPredicate ==
  \A f \in Elements(accepted) : Elements(TRANSLATION_TARGETS[f]) =
    {g \in ApiFormats \ {f} : translationSupported(f, g)}

\* A pair both sides speak is never translated, and of several shared formats
\* the one the agent declares first is used, whatever the provider serves.
NativeWins ==
  LET shared == Elements(accepted) \cap speaks
  IN IF shared = {} THEN route.kind # "native"
     ELSE /\ route.kind = "native" /\ route.inbound = route.outbound
          /\ \A i \in DOMAIN accepted : accepted[i] \in shared =>
               \E j \in 1..i : accepted[j] = route.inbound

\* What the picker offers the proxy can carry, and it greys out nothing the
\* proxy could carry from the agent's primary format: a route is missing only
\* when no speaks format is reachable at all.
NoRouteMissed ==
  LET carried == {f \in speaks : translationSupported(accepted[1], f)}
  IN /\ route.kind = "translated" => route.outbound \in carried
     /\ route = NoPair => carried = {} /\ Elements(accepted) \cap speaks = {}

\* The picker, the table behind it and what the proxy can do agree.
RouteResolution == TargetsMirrorPredicate /\ NativeWins /\ NoRouteMissed
=============================================================================
