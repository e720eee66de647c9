--------------------------- MODULE MCRoutingProxy ---------------------------
(* A group of two or three members, and what an edit can turn it into.     *)
EXTENDS RoutingProxy, TLC

CONSTANTS s1, s2, s3, r1, r2, c1, c2

Config(list, strategy, pins) == [members |-> list, strategy |-> strategy, affinity |-> pins]

RotateOrLeastUsed ==
  { Config(<<s1, s2>>, "rotate", "session"), Config(<<s2, s1>>, "least_used", "off") }
OrderedThree ==
  { Config(<<s1, s2, s3>>, "ordered", "session"), Config(<<s3, s1>>, "ordered", "session") }
RotateOnly == { Config(<<s1, s2>>, "rotate", "session") }

\* Requests are interchangeable.
Symmetry == Permutations(Reqs)
=============================================================================
