---------------------------- MODULE MCPrimitives ----------------------------
EXTENDS Primitives, TLC

CONSTANTS o1, o2, c1, c2
\* Two clients share one object; another one of them uses ids at the same time.
TwoAndOne == o1 :> {c1, c2} @@ o2 :> {c2}
DefaultFactory == [policy |-> "OTHER", priority |-> NORMAL]
=============================================================================
