---------------------------- MODULE MCStatements ----------------------------
EXTENDS Statements, TLC

CONSTANTS update, several, one, none
\* A direct statement can bind a column only if it has three.
Placeholders == update :> 2 @@ several :> 1 @@ one :> 3 @@ none :> 0
NumRows == update :> -1 @@ several :> 2 @@ one :> 1 @@ none :> 0
=============================================================================
