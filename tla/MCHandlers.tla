----------------------------- MODULE MCHandlers -----------------------------
EXTENDS Handlers, TLC

CONSTANTS m1, m2, m3, t1, t2, parent, e1, e2, b, r1, r2
\* The first target is sent twice; the second one is its sibling.
TargetOf == m1 :> t1 @@ m2 :> t1 @@ m3 :> t2
OneDir == t1 :> parent @@ t2 :> parent
\* The target_id of the second one does not parse as a whole: it names another row.
RowOf == m1 :> r1 @@ m2 :> r2 @@ m3 :> r1 @@ e1 :> r1 @@ e2 :> r1
BookOf == e1 :> b @@ e2 :> b
=============================================================================
