-------------------------- MODULE StatementsProofs --------------------------
(***************************************************************************)
(* ExecutesWhatWasBound, RowsInOrder and TransactionAtomic of Statements,  *)
(* for any queries, values and bounds.                                     *)
(*                                                                         *)
(* The first two say what was seen at the calls so far.  They are kept     *)
(* because the statement's parameters agree with the caller's wishes       *)
(* between the calls too (Bound), and the position of a result with that   *)
(* of the driver below it (Place).                                         *)
(***************************************************************************)
EXTENDS Statements, SequenceTheorems, TLAPS

-----------------------------------------------------------------------------
(* The inductive invariant.                                                *)

Params == [how : {"null", "pointer", "value"}, v : Values \cup {None}]
DBStatements == [query : Queries \cup {None}, prepared : BOOLEAN, params : Seq(Params)]
Results == [on : {None, "prepared", "direct"}, eof : BOOLEAN, fetched : BOOLEAN,
            column : Nat, row : Nat, rows : Int, stored : BOOLEAN, replaced : BOOLEAN]
Wants == [1..MaxArity -> SUBSET (Values \cup {None})]
Views == [bound : Nat, want : Wants, wrong : SUBSET Nat, next : Int, fetches : Nat,
          row : Seq(BOOLEAN)]

Types ==
    /\ stmt \in DBStatements
    /\ native \in [rows : Int, at : Nat]
    /\ st \in [some : BOOLEAN, placeholder : Nat]
    /\ res \in Results
    /\ text \in Values
    /\ table \in Nat /\ saved \in Nat \cup {None}
    /\ tx \in [exists : BOOLEAN, commited : BOOLEAN, begun : Nat,
               first : {None, "commit", "rollback"}]
    /\ seen \in Views
    /\ aborted \in BOOLEAN

\* The parameters of the statement are among those that the caller wants the server to get;
\* the caller counts the bindings as the Statement does.
Bound ==
    /\ Len(stmt.params) <= MaxArity
    /\ st.some => stmt.query \in Queries
    /\ st.placeholder = seen.bound + 1
    /\ \A i \in 1..Len(stmt.params) : Sent[i] \in seen.want[i]

\* Where a result is that no other call has taken away: at its row-th row, as the
\* MYSQL_STMT below a prepared one, and past the last one when eof_ is set.
Place ==
    res.on # None /\ ~res.replaced =>
        /\ res.rows \in Nat /\ res.rows = IF res.stored THEN Yields[stmt.query] ELSE 0
        /\ res.on = "prepared" => native.rows = res.rows
        /\ res.on = "prepared" /\ ~res.eof => native.at = res.row
        /\ IF res.eof THEN res.row = res.rows + 1 ELSE res.row <= res.rows
        /\ ~res.fetched => ~res.eof
        /\ res.fetched /\ ~res.eof => seen.next = res.row

\* An open transaction can still go back to where it began, until it is ended once.
Open ==
    /\ ~tx.exists => saved = None
    /\ tx.exists /\ tx.first = None => ~tx.commited /\ saved = tx.begun
    /\ tx.exists /\ tx.first # None => tx.commited /\ saved = None

Inv == Types /\ Bound /\ ExecutesWhatWasBound /\ Place /\ RowsInOrder /\ Open

-----------------------------------------------------------------------------
(* Parameters.                                                             *)

USE DEF DBStatements, Results, Wants, Views

\* Cleared parameters: as many, all NULL.
LEMMA ResetParamsFacts ==
    ASSUME NEW n \in Nat
    PROVE  /\ ResetParams(n) \in Seq(Params) /\ Len(ResetParams(n)) = n
           /\ \A i \in 1..n : ResetParams(n)[i] = Null
<1>1. Null \in Params
  BY DEF Null, Params
<1>2. /\ ResetParams(n) \in [1..n -> Params]
      /\ \A i \in 1..n : ResetParams(n)[i] = Null
  BY <1>1 DEF ResetParams
<1> QED
  BY <1>2

\* What is sent for a parameter.
LEMMA SentFacts ==
    ASSUME Types, NEW i \in 1..Len(stmt.params)
    PROVE  Sent[i] = IF stmt.prepared THEN BindIt(stmt.params[i]) ELSE stmt.params[i].v
<1>1. i \in DOMAIN stmt.params
  BY DEF Types
<1> QED
  BY <1>1 DEF Sent

\* What Bind stores is a parameter, and what is sent for it is what the caller wants.
LEMMA ParamFacts ==
    ASSUME Types, NEW how \in {"value", "pointer", "null"}
    PROVE  /\ Param(how) \in Params
           /\ Wanted(how) \in SUBSET (Values \cup {None})
           /\ (IF stmt.prepared THEN BindIt(Param(how)) ELSE Param(how).v) \in Wanted(how)
<1>1. CASE how = "value"
  BY <1>1, StatementsAssumption
     DEF Param, PreparedParam, DirectParam, ByValue, Wanted, BindIt, Params
<1>2. CASE how = "pointer"
  BY <1>2, StatementsAssumption
     DEF Types, Param, PreparedParam, DirectParam, ByValue, Wanted, BindIt, Params
<1>3. CASE how = "null"
  BY <1>3, StatementsAssumption
     DEF Param, PreparedParam, DirectParam, Null, ByValue, Wanted, BindIt, Params
<1> QED
  BY <1>1, <1>2, <1>3

\* A binding changes one parameter, and what is sent for the others stays.
LEMMA BindKeeps ==
    ASSUME Types, Bound, NEW how \in {"value", "pointer", "null"}, NEW col \in Nat, HasParam(col),
           stmt' = [stmt EXCEPT !.params[col] = Param(how)], text' = text,
           seen'.want = [seen.want EXCEPT ![col] = Wanted(how)]
    PROVE  /\ col \in 1..MaxArity /\ stmt'.query = stmt.query
           /\ stmt' \in DBStatements
           /\ Len(stmt'.params) = Len(stmt.params)
           /\ seen'.want \in Wants
           /\ \A i \in 1..Len(stmt.params) : Sent'[i] \in seen'.want[i]
<1> DEFINE n == Len(stmt.params)
<1>1. /\ stmt.params \in Seq(Params) /\ n \in Nat /\ n <= MaxArity /\ col \in 1..n
      /\ MaxArity \in Nat /\ seen.want \in Wants
  BY StatementsAssumption DEF Types, Bound, HasParam, PreparedAt, DirectAt
<1>2. Param(how) \in Params /\ Wanted(how) \in SUBSET (Values \cup {None})
  BY ParamFacts
<1>3. stmt'.params = [stmt.params EXCEPT ![col] = Param(how)]
      /\ stmt'.query = stmt.query /\ stmt'.prepared = stmt.prepared
  BY DEF Types
<1>4. stmt'.params \in Seq(Params) /\ Len(stmt'.params) = n
  BY <1>1, <1>2, <1>3
<1>5. stmt' \in DBStatements
  BY <1>3, <1>4 DEF Types
<1>6. seen'.want \in Wants
  BY <1>1, <1>2
<1>7. ASSUME NEW i \in 1..n
      PROVE  Sent'[i] = IF stmt.prepared THEN BindIt(stmt'.params[i]) ELSE stmt'.params[i].v
  <2>1. DOMAIN stmt'.params = 1..n
    BY <1>4
  <2> QED
    BY <1>3, <1>7, <2>1 DEF Sent, BindIt
<1>8. ASSUME NEW i \in 1..n
      PROVE  Sent'[i] \in seen'.want[i]
  <2>1. CASE i = col
    BY <1>1, <1>3, <1>7, <1>8, <2>1, ParamFacts
  <2>2. CASE i # col
    <3>1. stmt'.params[i] = stmt.params[i] /\ seen'.want[i] = seen.want[i]
      BY <1>1, <1>3, <2>2
    <3> QED
      BY <1>7, <1>8, <3>1, SentFacts DEF Bound
  <2> QED
    BY <2>1, <2>2
<1> QED
  BY <1>1, <1>3, <1>4, <1>5, <1>6, <1>8

\* Nothing that was bound is lost or mixed up on its way to the server.
LEMMA BoundStep ==
    ASSUME Inv, Types', [Next]_stvars
    PROVE  (Bound /\ ExecutesWhatWasBound)'
<1>1. Types /\ Bound /\ ExecutesWhatWasBound
  BY DEF Inv
<1>2. /\ stmt.params \in Seq(Params) /\ Len(stmt.params) \in Nat /\ MaxArity \in Nat
      /\ DOMAIN stmt.params = 1..Len(stmt.params)
  BY <1>1, StatementsAssumption DEF Types
<1>3. Wrong = {}
  BY <1>1, <1>2 DEF Wrong, Bound
\* The statement, its Statement and the caller's string are left alone.
<1>4. ASSUME UNCHANGED <<stmt, st, text>>, seen'.bound = seen.bound, seen'.want = seen.want,
             seen'.wrong \in {Wrong, seen.wrong}
      PROVE  (Bound /\ ExecutesWhatWasBound)'
  <2>1. Sent' = Sent
    BY <1>4 DEF Sent, BindIt
  <2> QED
    BY <1>1, <1>3, <1>4, <2>1 DEF Bound, ExecutesWhatWasBound
\* Everything is forgotten.
<1>5. ASSUME Len(stmt'.params) <= MaxArity, st'.some => stmt'.query \in Queries,
             \A i \in 1..Len(stmt'.params) : stmt'.params[i] = Null,
             st'.placeholder = seen'.bound + 1, seen'.want = Unbound,
             seen'.wrong \in {Wrong, seen.wrong, {}}
      PROVE  (Bound /\ ExecutesWhatWasBound)'
  <2>1. Len(stmt'.params) \in Nat
    BY DEF Types
  <2>2. \A i \in 1..Len(stmt'.params) : seen'.want[i] = {None}
    BY <1>2, <1>5, <2>1 DEF Unbound
  <2>3. \A i \in 1..Len(stmt'.params) : Sent'[i] = None
    <3>1. DOMAIN stmt'.params = 1..Len(stmt'.params)
      BY DEF Types
    <3> QED
      BY <1>5, <3>1 DEF Sent, BindIt, Null
  <2> QED
    BY <1>1, <1>3, <1>5, <2>2, <2>3 DEF Bound, ExecutesWhatWasBound
<1>6. ASSUME NEW q \in Queries, NEW prepared \in BOOLEAN, Prepare(q, prepared)
      PROVE  (Bound /\ ExecutesWhatWasBound)'
  <2>1. Arity[q] \in Nat /\ Arity[q] <= MaxArity
    BY <1>2, StatementsAssumption
  <2> QED
    BY <1>5, <1>6, <2>1, ResetParamsFacts DEF Prepare, NewStatement, NothingSeen
<1>7. CASE Reset
  <2>1. /\ st' = [st EXCEPT !.placeholder = 1] /\ UNCHANGED text
        /\ seen' = [seen EXCEPT !.bound = 0, !.want = IF stmt.prepared THEN Unbound ELSE seen.want]
        /\ stmt' = IF stmt.prepared THEN PreparedReset(stmt) ELSE stmt
    BY <1>7 DEF Reset, FirstPlaceholder
  <2>2. /\ st'.placeholder = seen'.bound + 1 /\ st'.some = st.some
        /\ seen'.want = (IF stmt.prepared THEN Unbound ELSE seen.want) /\ seen'.wrong = seen.wrong
    BY <1>1, <2>1 DEF Types
  <2>3. CASE stmt.prepared
    <3>1. stmt'.query = stmt.query /\ stmt'.params = ResetParams(Len(stmt.params))
      BY <1>1, <2>1, <2>3 DEF Types, PreparedReset
    <3>2. /\ Len(stmt'.params) = Len(stmt.params)
          /\ \A i \in 1..Len(stmt'.params) : stmt'.params[i] = Null
      BY <1>2, <3>1, ResetParamsFacts
    <3> QED
      BY <1>1, <1>5, <2>2, <2>3, <3>1, <3>2 DEF Bound
  <2>4. CASE ~stmt.prepared
    <3>1. Sent' = Sent /\ UNCHANGED stmt
      BY <2>1, <2>4 DEF Sent, BindIt
    <3> QED
      BY <1>1, <2>2, <2>4, <3>1 DEF Bound, ExecutesWhatWasBound
  <2> QED
    BY <2>3, <2>4
<1>8. ASSUME NEW how \in {"value", "pointer", "null"}, BindNext(how)
      PROVE  (Bound /\ ExecutesWhatWasBound)'
  <2>1. CASE HasParam(st.placeholder)
    <3>1. /\ stmt' = [stmt EXCEPT !.params[st.placeholder] = Param(how)] /\ text' = text
          /\ st' = [st EXCEPT !.placeholder = @ + 1]
          /\ seen' = [seen EXCEPT !.bound = @ + 1, !.want[seen.bound + 1] = Wanted(how)]
      BY <1>8, <2>1 DEF BindNext
    <3>2. st.placeholder \in Nat /\ st.placeholder = seen.bound + 1
      BY <1>1 DEF Types, Bound
    <3>3. /\ seen'.want = [seen.want EXCEPT ![st.placeholder] = Wanted(how)]
          /\ seen'.bound = seen.bound + 1 /\ seen'.wrong = seen.wrong
      BY <1>1, <3>1, <3>2 DEF Types
    <3>4. st'.placeholder = st.placeholder + 1 /\ st'.some = st.some
      BY <1>1, <3>1 DEF Types
    <3>5. /\ stmt'.query = stmt.query /\ Len(stmt'.params) = Len(stmt.params)
          /\ \A i \in 1..Len(stmt.params) : Sent'[i] \in seen'.want[i]
      BY <1>1, <2>1, <3>1, <3>2, <3>3, BindKeeps
    <3> QED
      BY <1>1, <3>2, <3>3, <3>4, <3>5 DEF Bound, ExecutesWhatWasBound
  <2>2. CASE ~HasParam(st.placeholder)
    BY <1>4, <1>8, <2>2 DEF BindNext
  <2> QED
    BY <2>1, <2>2
<1>9. ASSUME NEW col \in 0..MaxArity, NEW how \in {"value", "pointer", "null"}, BindColumn(col, how)
      PROVE  (Bound /\ ExecutesWhatWasBound)'
  <2>1. CASE HasParam(col)
    <3>1. /\ stmt' = [stmt EXCEPT !.params[col] = Param(how)] /\ UNCHANGED <<st, text>>
          /\ seen' = [seen EXCEPT !.want[col] = Wanted(how)]
      BY <1>9, <2>1 DEF BindColumn
    <3>2. /\ seen'.want = [seen.want EXCEPT ![col] = Wanted(how)]
          /\ seen'.bound = seen.bound /\ seen'.wrong = seen.wrong
      BY <1>1, <3>1 DEF Types
    <3>3. /\ stmt'.query = stmt.query /\ Len(stmt'.params) = Len(stmt.params)
          /\ \A i \in 1..Len(stmt.params) : Sent'[i] \in seen'.want[i]
      BY <1>1, <1>2, <2>1, <3>1, <3>2, BindKeeps
    <3> QED
      BY <1>1, <3>1, <3>2, <3>3 DEF Bound, ExecutesWhatWasBound
  <2>2. CASE ~HasParam(col)
    BY <1>4, <1>9, <2>2 DEF BindColumn
  <2> QED
    BY <2>1, <2>2
<1>10. ASSUME NEW v \in Values, ChangeText(v)
       PROVE  (Bound /\ ExecutesWhatWasBound)'
  <2> DEFINE Loose(i) == stmt.prepared /\ i \in DOMAIN stmt.params /\ stmt.params[i].how = "pointer"
             W == [i \in 1..MaxArity |-> IF Loose(i) THEN Values ELSE seen.want[i]]
  <2>1. /\ UNCHANGED <<stmt, st>> /\ text' = v /\ seen' = [seen EXCEPT !.want = W]
    BY <1>1, <1>10 DEF ChangeText, Types
  <2>2. /\ seen'.bound = seen.bound /\ seen'.wrong = seen.wrong
        /\ \A i \in 1..Len(stmt.params) : seen'.want[i] = IF Loose(i) THEN Values ELSE seen.want[i]
    <3>1. seen'.bound = seen.bound /\ seen'.wrong = seen.wrong /\ seen'.want = W
      BY <1>1, <2>1 DEF Types
    <3>2. 1..Len(stmt.params) \subseteq 1..MaxArity
      BY <1>1, <1>2 DEF Bound
    <3> QED
      BY <1>2, <3>1, <3>2
  <2>3. ASSUME NEW i \in 1..Len(stmt.params)
        PROVE  Sent'[i] \in seen'.want[i]
    <3>1. Sent'[i] = IF stmt.prepared /\ stmt.params[i].how = "pointer" THEN v ELSE stmt.params[i].v
      BY <1>2, <2>1, <2>3 DEF Sent, BindIt
    <3>2. CASE Loose(i)
      BY <2>2, <3>1, <3>2
    <3>3. CASE ~Loose(i)
      <4>1. Sent[i] = stmt.params[i].v
        BY <1>1, <1>2, <3>3, SentFacts DEF BindIt
      <4> QED
        BY <1>1, <1>2, <2>2, <3>1, <3>3, <4>1 DEF Bound
    <3> QED
      BY <3>2, <3>3
  <2> QED
    BY <1>1, <2>1, <2>2, <2>3 DEF Bound, ExecutesWhatWasBound
<1>11. CASE PreparedExecute
  BY <1>1, <1>4, <1>11 DEF PreparedExecute, Types
<1>12. CASE DirectExecute
  <2>1. /\ stmt' = [stmt EXCEPT !.params = ResetParams(Len(@))] /\ UNCHANGED st
        /\ seen' = [seen EXCEPT !.wrong = Wrong, !.want = Unbound]
    BY <1>12 DEF DirectExecute
  <2>2. stmt'.query = stmt.query /\ stmt'.params = ResetParams(Len(stmt.params))
    BY <1>1, <2>1 DEF Types
  <2>3. /\ Len(stmt'.params) = Len(stmt.params)
        /\ \A i \in 1..Len(stmt'.params) : stmt'.params[i] = Null
    BY <1>2, <2>2, ResetParamsFacts
  <2> QED
    BY <1>1, <1>5, <2>1, <2>2, <2>3 DEF Types, Bound
<1>13. CASE Query
  BY <1>1, <1>4, <1>13 DEF Query, Types
<1>14. CASE Row
  BY <1>1, <1>4, <1>14 DEF Row, Types
<1>15. CASE NextRow \/ FetchNext \/ RewindColumn
  BY <1>1, <1>4, <1>15 DEF NextRow, FetchNext, RewindColumn, Types
<1>16. CASE ClearResult \/ \E col \in -1..Columns : FetchColumn(col)
  BY <1>4, <1>16 DEF ClearResult, FetchColumn
<1>17. CASE Begin \/ Commit \/ Rollback \/ EndTransaction
  BY <1>4, <1>17 DEF Begin, Commit, Rollback, EndTransaction
<1>18. CASE UNCHANGED stvars
  BY <1>4, <1>18 DEF stvars
<1> QED
  BY <1>6, <1>7, <1>8, <1>9, <1>10, <1>11, <1>12, <1>13, <1>14, <1>15, <1>16, <1>17, <1>18 DEF Next

-----------------------------------------------------------------------------
(* Rows.                                                                   *)

\* What one Next of the driver does to a result that is in its place.
LEMMA NextPlace ==
    ASSUME NEW r \in [on : {"prepared", "direct"}, eof : BOOLEAN, fetched : BOOLEAN,
                      column : Nat, row : Nat, rows : Nat, stored : BOOLEAN, replaced : BOOLEAN],
           NEW n \in [rows : Int, at : Nat], ~r.eof, r.row <= r.rows,
           r.on = "prepared" => n.rows = r.rows /\ n.at = r.row
    PROVE  /\ AfterNext(r, n).on = r.on /\ AfterNext(r, n).rows = r.rows
           /\ AfterNext(r, n).row = r.row + 1 /\ AfterNext(r, n).fetched
           /\ AfterNext(r, n).replaced = r.replaced /\ AfterNext(r, n).column = 0 /\ AfterNext(r, n).stored = r.stored
           /\ AfterNext(r, n).eof <=> r.row = r.rows
           /\ ~AfterNext(r, n).eof => FetchRow(r, n) = r.row + 1
           /\ r.on = "prepared" =>
                /\ Fetched(r, n).rows = r.rows
                /\ ~AfterNext(r, n).eof => Fetched(r, n).at = r.row + 1
<1>1. FetchRow(r, n) = IF r.row < r.rows THEN r.row + 1 ELSE 0
  BY DEF FetchRow, DirectNext, PreparedNext
<1>2. AfterNext(r, n) = [r EXCEPT !.eof = FetchRow(r, n) = 0, !.fetched = TRUE, !.row = @ + 1, !.column = 0]
  BY DEF AfterNext, NextOf
<1>3. /\ AfterNext(r, n).on = r.on /\ AfterNext(r, n).rows = r.rows
      /\ AfterNext(r, n).row = r.row + 1 /\ AfterNext(r, n).fetched
      /\ AfterNext(r, n).replaced = r.replaced /\ AfterNext(r, n).column = 0 /\ AfterNext(r, n).stored = r.stored
      /\ AfterNext(r, n).eof <=> FetchRow(r, n) = 0
  BY <1>2
<1>4. AfterNext(r, n).eof <=> r.row = r.rows
  BY <1>1, <1>3
<1>5. r.on = "prepared" =>
        Fetched(r, n) = IF r.row < r.rows THEN [n EXCEPT !.at = @ + 1] ELSE n
  BY DEF Fetched, PreparedNext
<1> QED
  BY <1>1, <1>3, <1>4, <1>5

\* The types of what Next and the queries return.
LEMMA NextTypes ==
    ASSUME NEW r \in Results, NEW n \in [rows : Int, at : Nat]
    PROVE  /\ AfterNext(r, n) \in Results
           /\ Fetched(r, n) \in [rows : Int, at : Nat]
           /\ FetchRow(r, n) \in Int
<1>1. FetchRow(r, n) \in Int
  BY DEF FetchRow, DirectNext, PreparedNext, Results
<1>2. AfterNext(r, n) \in Results
  <2>1. ASSUME NEW b \in BOOLEAN, NEW k \in Nat
        PROVE  [r EXCEPT !.eof = b, !.fetched = TRUE, !.row = k, !.column = 0] \in Results
    BY <2>1, Zenon DEF Results
  <2>2. (FetchRow(r, n) = 0) \in BOOLEAN /\ r.row + 1 \in Nat
    BY DEF Results
  <2> QED
    BY <2>1, <2>2 DEF AfterNext, NextOf
<1>3. Fetched(r, n) \in [rows : Int, at : Nat]
  BY DEF Fetched, PreparedNext
<1> QED
  BY <1>1, <1>2, <1>3

\* What the statement stores when it is executed.
LEMMA ExecutedFacts ==
    ASSUME Types, Bound, st.some
    PROVE  /\ Executed \in [rows : Int, at : Nat]
           /\ IsSelect => /\ Executed.rows = Yields[stmt.query] /\ Executed.at = 0
                          /\ Yields[stmt.query] \in Nat
<1>1. stmt.query \in Queries
  BY DEF Bound
<1>2. Yields[stmt.query] \in Nat \cup {-1}
  BY <1>1, StatementsAssumption
<1> QED
  BY <1>2 DEF Executed, IsSelect, NoNative

\* A result as a query makes it.
LEMMA NewResultFacts ==
    ASSUME Types, Bound, st.some, NEW stored \in Stored, NEW made, made = NewResult(stored)
    PROVE  /\ made \in [on : {"prepared", "direct"}, eof : BOOLEAN, fetched : BOOLEAN, column : Nat,
                        row : Nat, rows : Int, stored : BOOLEAN, replaced : BOOLEAN]
           /\ made.on = (IF stmt.prepared THEN "prepared" ELSE "direct")
           /\ ~made.eof /\ ~made.fetched /\ ~made.replaced
           /\ made.column = 0 /\ made.row = 0 /\ made.stored = stored
           /\ stored \in BOOLEAN /\ (stmt.prepared => stored)
           /\ made.rows = IF stored THEN Executed.rows ELSE 0
<1>1. stmt.prepared \in BOOLEAN
  BY DEF Types
<1>2. stored \in BOOLEAN /\ (stmt.prepared => stored)
  BY <1>1 DEF Stored
<1> DEFINE on == IF stmt.prepared THEN "prepared" ELSE "direct"
           rows == IF stored THEN Executed.rows ELSE 0
           no == FALSE
           zero == 0
<1>3. rows \in Int /\ on \in {"prepared", "direct"} /\ zero \in Nat /\ no \in BOOLEAN
  BY ExecutedFacts
<1>4. made = [on |-> on, eof |-> no, fetched |-> no, column |-> zero, row |-> zero, rows |-> rows,
              stored |-> stored, replaced |-> no]
  BY DEF NewResult
<1>5. /\ on = (IF stmt.prepared THEN "prepared" ELSE "direct")
      /\ rows = (IF stored THEN Executed.rows ELSE 0)
      /\ ~no /\ zero = 0
  OBVIOUS
<1> HIDE DEF on, rows, no, zero
<1>6. made \in [on : {"prepared", "direct"}, eof : BOOLEAN, fetched : BOOLEAN, column : Nat,
                row : Nat, rows : Int, stored : BOOLEAN, replaced : BOOLEAN]
  BY ONLY <1>2, <1>3, <1>4, SMT
<1>7. made.on = on /\ made.column = zero /\ made.row = zero /\ made.rows = rows
  BY ONLY <1>4, SMT
<1>8. made.eof = no /\ made.fetched = no /\ made.replaced = no /\ made.stored = stored
  BY ONLY <1>4, Zenon
<1> QED
  BY <1>2, <1>5, <1>6, <1>7, <1>8

-----------------------------------------------------------------------------
(* Types.                                                                  *)

\* The ways in which the calls change what the client knows.
LEMMA ViewTypes ==
    ASSUME NEW s \in Views
    PROVE  /\ \A b \in Nat, w \in Wants : [s EXCEPT !.bound = b, !.want = w] \in Views
           /\ \A g \in SUBSET Nat, w \in Wants : [s EXCEPT !.wrong = g, !.want = w] \in Views
           /\ \A g \in SUBSET Nat : [s EXCEPT !.wrong = g] \in Views
           /\ \A w \in Wants : [s EXCEPT !.want = w] \in Views
           /\ \A f \in Nat : [s EXCEPT !.fetches = f] \in Views
           /\ \A x \in Int, f \in Nat : [s EXCEPT !.next = x, !.fetches = f] \in Views
           /\ \A g \in SUBSET Nat, x \in Int, f \in Nat, y \in Seq(BOOLEAN) :
                /\ [s EXCEPT !.wrong = g, !.next = x, !.fetches = f, !.row = y] \in Views
                /\ [s EXCEPT !.wrong = g, !.fetches = f, !.next = x, !.row = y] \in Views
  BY Zenon

\* What they know, field by field.
LEMMA ViewFields ==
    ASSUME NEW s \in Views
    PROVE  /\ s.bound \in Nat /\ s.want \in Wants /\ s.fetches \in Nat
  OBVIOUS

\* The ways in which the calls change a statement or a result.
LEMMA RecordTypes ==
    /\ \A s \in DBStatements, p \in Seq(Params) : [s EXCEPT !.params = p] \in DBStatements
    /\ \A r \in Results, k \in Nat : [r EXCEPT !.column = k] \in Results
    /\ \A r \in Results : [r EXCEPT !.replaced = TRUE] \in Results
  BY Zenon

HIDE DEF DBStatements, Results, Wants, Views

\* Every call keeps the types.
LEMMA TypesStep ==
    ASSUME Inv, [Next]_stvars
    PROVE  Types'
<1>1. Types /\ Bound
  BY DEF Inv
<1>2. /\ stmt \in DBStatements /\ native \in [rows : Int, at : Nat]
      /\ st \in [some : BOOLEAN, placeholder : Nat] /\ res \in Results /\ text \in Values
      /\ table \in Nat /\ seen \in Views /\ MaxArity \in Nat
      /\ stmt.params \in Seq(Params) /\ Len(stmt.params) \in Nat
      /\ DOMAIN stmt.params = 1..Len(stmt.params)
      /\ seen.bound \in Nat /\ seen.want \in [1..MaxArity -> SUBSET (Values \cup {None})]
      /\ seen.want \in Wants
      /\ seen.fetches \in Nat
  BY <1>1, StatementsAssumption DEF Types, DBStatements, Views, Wants
<1>0. 0 \in Nat /\ 0 \in Int /\ <<>> \in Seq(BOOLEAN) /\ {} \in SUBSET Nat
  OBVIOUS
<1>3. Wrong \in SUBSET Nat /\ Unbound \in Wants /\ NoNative \in [rows : Int, at : Nat]
      /\ NoResult \in Results
  BY <1>2 DEF Wrong, Unbound, NoNative, NoResult, Wants, Results
<1>4. Replaced \in Results
  BY <1>2, RecordTypes DEF Replaced
<1>5. stmt.query \in Queries => Written \in Nat
  BY <1>2 DEF Written
<1>6. ASSUME NEW q \in Queries, NEW prepared \in BOOLEAN, Prepare(q, prepared)
      PROVE  Types'
  <2>1. Arity[q] \in Nat
    BY StatementsAssumption
  <2>2. stmt' \in DBStatements
    BY <1>6, <2>1, ResetParamsFacts DEF Prepare, NewStatement, DBStatements
  <2>4. seen' \in Views
    BY <1>0, <1>3, <1>6, Zenon DEF Prepare, NothingSeen, Views
  <2> QED
    BY <1>1, <1>3, <1>6, <2>2, <2>4 DEF Prepare, Types
<1>7. CASE Reset
  <2>1. PreparedReset(stmt) \in DBStatements
    BY <1>2, ResetParamsFacts, RecordTypes DEF PreparedReset
  <2>2. (IF stmt.prepared THEN Unbound ELSE seen.want) \in Wants
    BY <1>2, <1>3
  <2>3. seen' \in Views
    BY <1>0, <1>2, <1>7, <2>2, ViewTypes, Zenon DEF Reset
  <2> QED
    BY <1>1, <1>2, <1>3, <1>4, <1>7, <2>1, <2>3 DEF Reset, FirstPlaceholder, Types
<1>8. ASSUME NEW how \in {"value", "pointer", "null"}, BindNext(how)
      PROVE  Types'
  <2>1. CASE HasParam(st.placeholder)
    <3>1. st.placeholder \in Nat /\ st.placeholder = seen.bound + 1 /\ seen.bound + 1 \in Nat
      BY <1>1 DEF Types, Bound
    <3>2. st.placeholder \in 1..MaxArity /\ st.placeholder \in 1..Len(stmt.params)
      BY <1>1, <1>2, <2>1, <3>1 DEF HasParam, PreparedAt, DirectAt, Bound
    <3>3. /\ stmt' = [stmt EXCEPT !.params[st.placeholder] = Param(how)]
          /\ st' = [st EXCEPT !.placeholder = @ + 1]
          /\ seen' = [seen EXCEPT !.bound = @ + 1, !.want[seen.bound + 1] = Wanted(how)]
          /\ UNCHANGED <<native, res, text, table, saved, tx, aborted>>
      BY <1>8, <2>1 DEF BindNext
    <3>4. [seen.want EXCEPT ![st.placeholder] = Wanted(how)] \in Wants
      BY <1>1, <1>2, <3>2, ParamFacts DEF Wants
    <3>5. seen' = [seen EXCEPT !.bound = seen.bound + 1,
                               !.want = [seen.want EXCEPT ![st.placeholder] = Wanted(how)]]
      BY <1>2, <3>1, <3>3
    <3>6. seen' \in Views
      BY <1>2, <3>1, <3>4, <3>5, ViewTypes, Zenon
    <3>7. [stmt.params EXCEPT ![st.placeholder] = Param(how)] \in Seq(Params)
      <4>1. Param(how) \in Params
        BY <1>1, ParamFacts
      <4> QED
        BY <1>2, <3>2, <4>1
    <3>8. stmt' \in DBStatements
      BY <1>2, <3>3, <3>7, RecordTypes, Zenon
    <3> QED
      BY <1>1, <1>2, <3>3, <3>6, <3>8 DEF Types
  <2>2. CASE ~HasParam(st.placeholder)
    BY <1>1, <1>8, <2>2 DEF BindNext, Types
  <2> QED
    BY <2>1, <2>2
<1>9. ASSUME NEW col \in 0..MaxArity, NEW how \in {"value", "pointer", "null"}, BindColumn(col, how)
      PROVE  Types'
  <2>1. CASE HasParam(col)
    <3>1. /\ stmt' = [stmt EXCEPT !.params[col] = Param(how)] /\ UNCHANGED <<st, text>>
          /\ seen' = [seen EXCEPT !.want[col] = Wanted(how)]
          /\ UNCHANGED <<native, st, res, text, table, saved, tx, aborted>>
      BY <1>9, <2>1 DEF BindColumn
    <3>2. col \in 1..MaxArity /\ col \in 1..Len(stmt.params)
      BY <1>1, <1>2, <2>1 DEF HasParam, PreparedAt, DirectAt, Bound
    <3>3. [seen.want EXCEPT ![col] = Wanted(how)] \in Wants
      BY <1>1, <1>2, <3>2, ParamFacts DEF Wants
    <3>4. seen' = [seen EXCEPT !.want = [seen.want EXCEPT ![col] = Wanted(how)]]
      BY <1>2, <3>1
    <3>5. seen' \in Views
      BY <1>2, <3>3, <3>4, ViewTypes, Zenon
    <3>6. [stmt.params EXCEPT ![col] = Param(how)] \in Seq(Params)
      <4>1. Param(how) \in Params
        BY <1>1, ParamFacts
      <4> QED
        BY <1>2, <3>2, <4>1
    <3>7. stmt' \in DBStatements
      BY <1>2, <3>1, <3>6, RecordTypes, Zenon
    <3> QED
      BY <1>1, <3>1, <3>5, <3>7 DEF Types
  <2>2. CASE ~HasParam(col)
    BY <1>1, <1>9, <2>2 DEF BindColumn, Types
  <2> QED
    BY <2>1, <2>2
<1>10. ASSUME NEW v \in Values, ChangeText(v)
       PROVE  Types'
  <2>1. [i \in 1..MaxArity |->
            IF stmt.prepared /\ i \in DOMAIN stmt.params /\ stmt.params[i].how = "pointer"
            THEN Values ELSE seen.want[i]] \in Wants
    BY <1>2 DEF Wants
  <2>2. seen' \in Views
    BY <1>2, <1>10, <2>1, ViewTypes, Zenon DEF ChangeText
  <2> QED
    BY <1>1, <1>10, <2>2 DEF ChangeText, Types
<1>11. CASE PreparedExecute
  <2>1. Executed \in [rows : Int, at : Nat] /\ Written \in Nat
    BY <1>1, <1>5, <1>11, ExecutedFacts DEF PreparedExecute, Bound
  <2>2. seen' \in Views
    BY <1>2, <1>3, <1>11, ViewTypes, Zenon DEF PreparedExecute
  <2> QED
    BY <1>1, <1>3, <1>4, <1>11, <2>1, <2>2 DEF PreparedExecute, Types
<1>12. CASE DirectExecute
  <2>1. Written \in Nat
    BY <1>1, <1>5, <1>12 DEF DirectExecute, Bound
  <2>2. stmt' \in DBStatements
    BY <1>2, <1>12, ResetParamsFacts, RecordTypes DEF DirectExecute
  <2>3. seen' \in Views
    BY <1>2, <1>3, <1>12, ViewTypes, Zenon DEF DirectExecute
  <2> QED
    BY <1>1, <1>12, <2>1, <2>2, <2>3 DEF DirectExecute, Types
<1>13. ASSUME NEW r \in Results, NEW n \in [rows : Int, at : Nat],
              PreparedQuery(r, n) \/ DirectQuery(r)
       PROVE  /\ res' \in Results /\ native' \in [rows : Int, at : Nat] /\ aborted' \in BOOLEAN
  BY <1>1, <1>2, <1>3, <1>13 DEF PreparedQuery, DirectQuery, Types
<1>14. CASE Query
  <2>1. PICK stored \in Stored :
          PreparedQuery(NewResult(stored), Executed) \/ DirectQuery(NewResult(stored))
    BY <1>14 DEF Query
  <2>2. NewResult(stored) \in Results /\ Executed \in [rows : Int, at : Nat] /\ Written \in Nat
    BY <1>1, <1>5, <1>14, ExecutedFacts, NewResultFacts DEF Query, Bound, Results
  <2>3. seen' \in Views
    BY <1>0, <1>2, <1>3, <1>14, ViewTypes, Zenon DEF Query
  <2>4. res' \in Results /\ native' \in [rows : Int, at : Nat] /\ aborted' \in BOOLEAN
    BY <1>13, <2>1, <2>2
  <2> QED
    BY <1>1, <1>14, <2>2, <2>3, <2>4 DEF Query, Types
<1>15. CASE Row
  <2>1. PICK stored \in Stored :
          LET made == NewResult(stored)
              first == AfterNext(made, Executed)
              left == Fetched(made, Executed)
              threw == ~first.eof /\ IF stmt.prepared THEN PreparedHasNext(first, left) ELSE DirectHasNext(first)
              result == IF threw THEN NoResult ELSE first
          IN /\ PreparedQuery(result, left) \/ DirectQuery(result)
             /\ seen' = [seen EXCEPT !.wrong = Wrong, !.fetches = 0,
                     !.next = IF threw THEN 0 ELSE FetchRow(made, Executed),
                     !.row = IF aborted' \/ (stmt.prepared /\ native' = NoNative) THEN <<>>
                             ELSE <<threw, ~threw /\ first.eof, stored>>]
    BY <1>15 DEF Row
  <2> DEFINE made == NewResult(stored)
             first == AfterNext(made, Executed)
             left == Fetched(made, Executed)
             threw == ~first.eof /\ IF stmt.prepared THEN PreparedHasNext(first, left) ELSE DirectHasNext(first)
             result == IF threw THEN NoResult ELSE first
  <2>2. made \in Results /\ Executed \in [rows : Int, at : Nat] /\ Written \in Nat /\ stored \in BOOLEAN
    BY <1>1, <1>5, <1>15, ExecutedFacts, NewResultFacts DEF Row, Bound, Results
  <2>3. first \in Results /\ left \in [rows : Int, at : Nat] /\ FetchRow(made, Executed) \in Int
    BY <2>2, NextTypes
  <2>4. threw \in BOOLEAN /\ (~threw /\ first.eof) \in BOOLEAN
    BY Zenon
  <2> HIDE DEF made, first, left, threw
  <2>5. /\ PreparedQuery(result, left) \/ DirectQuery(result)
        /\ seen' = [seen EXCEPT !.wrong = Wrong, !.fetches = 0,
                  !.next = IF threw THEN 0 ELSE FetchRow(made, Executed),
                  !.row = IF aborted' \/ (stmt.prepared /\ native' = NoNative) THEN <<>>
                          ELSE <<threw, ~threw /\ first.eof, stored>>]
    BY <2>1, Zenon DEF made, first, left, threw
  <2>6. result \in Results
    BY <1>3, <2>3
  <2>7. res' \in Results /\ native' \in [rows : Int, at : Nat] /\ aborted' \in BOOLEAN
    BY <1>13, <2>3, <2>5, <2>6
  <2>8. (IF aborted' \/ (stmt.prepared /\ native' = NoNative) THEN <<>>
         ELSE <<threw, ~threw /\ first.eof, stored>>) \in Seq(BOOLEAN)
    <3>1. \A b, c, d \in BOOLEAN : <<b, c, d>> \in Seq(BOOLEAN)
      OBVIOUS
    <3> QED
      BY <1>0, <2>2, <2>4, <3>1, Zenon
  <2>9. (IF threw THEN 0 ELSE FetchRow(made, Executed)) \in Int
    BY <2>3
  <2>10. seen' \in Views
    BY <1>0, <1>2, <1>3, <2>5, <2>8, <2>9, ViewTypes, Zenon
  <2>11. table' = (IF aborted' THEN Written ELSE table) /\ UNCHANGED <<stmt, st, text, saved, tx>>
    BY <1>15 DEF Row
  <2> QED
    BY <1>1, <2>2, <2>7, <2>10, <2>11 DEF Types
<1>16. CASE NextRow
  <2>1. /\ AfterNext(res, native) \in Results /\ Fetched(res, native) \in [rows : Int, at : Nat]
        /\ FetchRow(res, native) \in Int
    BY <1>2, NextTypes
  <2>2. seen' \in Views
    BY <1>0, <1>2, <1>16, <2>1, ViewTypes, Zenon DEF NextRow
  <2> QED
    BY <1>1, <1>16, <2>1, <2>2 DEF NextRow, Types
<1>17. CASE FetchNext
  <2>1. CASE ResultAt(res.column)
    <3>1. seen.fetches + 1 \in Nat /\ res.column + 1 \in Nat
      BY <1>2 DEF Results
    <3>2. seen' \in Views
      BY <1>2, <1>17, <2>1, <3>1, ViewTypes, Zenon DEF FetchNext
    <3>3. res' \in Results
      <4>1. res' = [res EXCEPT !.column = res.column + 1]
        BY <1>17, <2>1 DEF FetchNext
      <4> QED
        BY <1>2, <3>1, <4>1, RecordTypes, Zenon
    <3> QED
      BY <1>1, <1>17, <2>1, <3>2, <3>3 DEF FetchNext, Types
  <2>2. CASE ~ResultAt(res.column)
    BY <1>1, <1>17, <2>2 DEF FetchNext, Types
  <2> QED
    BY <2>1, <2>2
<1>18. CASE RewindColumn
  <2>1. seen' \in Views
    BY <1>0, <1>2, <1>18, ViewTypes, Zenon DEF RewindColumn
  <2>2. res' \in Results
    BY <1>0, <1>2, <1>18, RecordTypes, Zenon DEF RewindColumn
  <2> QED
    BY <1>1, <1>18, <2>1, <2>2 DEF RewindColumn, Types
<1>19. CASE ClearResult
  BY <1>1, <1>3, <1>19 DEF ClearResult, Types
<1>20. ASSUME NEW col \in -1..Columns, FetchColumn(col)
       PROVE  Types'
  <2>1. aborted' \in BOOLEAN
    BY <1>20 DEF FetchColumn
  <2> QED
    BY <1>1, <1>20, <2>1 DEF FetchColumn, Types
<1>21. CASE Begin \/ Commit \/ Rollback \/ EndTransaction
  <2>1. RolledBack \in Nat
    BY <1>1 DEF RolledBack, Types
  <2> DEFINE Txs == [exists : BOOLEAN, commited : BOOLEAN, begun : Nat,
                     first : {None, "commit", "rollback"}]
  <2>2. tx \in Txs /\ NoTx \in Txs
    BY <1>1 DEF NoTx, Types
  <2>3. ASSUME NEW t \in Txs, NEW k \in Nat, NEW f \in {None, "commit", "rollback"}
        PROVE  /\ [t EXCEPT !.exists = TRUE, !.begun = k] \in Txs
               /\ [t EXCEPT !.commited = TRUE, !.first = f] \in Txs
    BY <2>3, Zenon
  <2>4. (IF tx.first = None THEN "commit" ELSE tx.first) \in {None, "commit", "rollback"}
        /\ (IF tx.first = None THEN "rollback" ELSE tx.first) \in {None, "commit", "rollback"}
    BY <2>2
  <2> HIDE DEF Txs
  <2>5. tx' \in Txs
    <3>1. CASE Begin
      BY <1>2, <2>2, <2>3, <3>1, Zenon DEF Begin
    <3>2. CASE Commit
      BY <1>2, <2>2, <2>3, <2>4, <3>2, Zenon DEF Commit
    <3>3. CASE Rollback
      BY <1>2, <2>2, <2>3, <2>4, <3>3, Zenon DEF Rollback
    <3>4. CASE EndTransaction
      BY <2>2, <3>4, Zenon DEF EndTransaction
    <3> QED
      BY <1>21, <3>1, <3>2, <3>3, <3>4
  <2>6. table' \in Nat /\ saved' \in Nat \cup {None}
    BY <1>1, <1>21, <2>1 DEF Begin, Commit, Rollback, EndTransaction, Types
  <2>7. UNCHANGED <<stmt, native, st, res, text, seen, aborted>>
    BY <1>21 DEF Begin, Commit, Rollback, EndTransaction
  <2> QED
    BY <1>1, <2>5, <2>6, <2>7, Zenon DEF Txs, Types
<1>22. CASE UNCHANGED stvars
  BY <1>1, <1>22 DEF stvars, Types
<1> QED
  BY <1>6, <1>7, <1>8, <1>9, <1>10, <1>11, <1>12, <1>14, <1>15, <1>16, <1>17, <1>18, <1>19, <1>20, <1>21, <1>22 DEF Next

-----------------------------------------------------------------------------
(* The order of the rows.                                                  *)

\* A result is at the row the driver has fetched last, and its columns are read in turn.
LEMMA RowsStep ==
    ASSUME Inv, Types', [Next]_stvars
    PROVE  (Place /\ RowsInOrder)'
<1>1. Types /\ Bound /\ Place /\ RowsInOrder
  BY DEF Inv
<1>2. /\ stmt \in DBStatements /\ native \in [rows : Int, at : Nat] /\ res \in Results
      /\ seen \in Views /\ None \notin {"prepared", "direct"}
  BY <1>1, StatementsAssumption DEF Types
\* Nobody touches the result.
<1>3. ASSUME res' = res, res.on = "prepared" => native' = native, stmt'.query = stmt.query,
             seen'.next = seen.next, seen'.fetches = seen.fetches, seen'.row = seen.row
      PROVE  (Place /\ RowsInOrder)'
  BY <1>1, <1>3 DEF Place, RowsInOrder
\* There is no result.
<1>4. ASSUME res'.on = None,
             seen'.row = <<>> \/ (seen'.row = seen.row /\ stmt'.query = stmt.query)
      PROVE  (Place /\ RowsInOrder)'
  BY <1>1, <1>4 DEF Place, RowsInOrder
\* A prepared result loses its rows, a direct one keeps them.
<1>5. ASSUME res' = Replaced, stmt'.query = stmt.query,
             seen'.next = seen.next, seen'.fetches = seen.fetches, seen'.row = seen.row
      PROVE  (Place /\ RowsInOrder)'
  <2>1. CASE res.on = "prepared"
    <3>1. res'.replaced /\ res'.column = res.column
      BY <1>2, <1>5, <2>1 DEF Replaced, Results
    <3> QED
      BY <1>1, <1>2, <1>5, <2>1, <3>1 DEF Place, RowsInOrder
  <2>2. CASE res.on # "prepared"
    BY <1>3, <1>5, <2>2 DEF Replaced
  <2> QED
    BY <2>1, <2>2
\* There is a result, and it is in its place.
<1>6. ASSUME Place', res'.column = seen'.fetches,
             seen'.row # <<>> => seen'.row \in {<<Yields[stmt'.query] > 1, Yields[stmt'.query] = 0, TRUE>>,
                                                <<FALSE, TRUE, FALSE>>}
      PROVE  (Place /\ RowsInOrder)'
  BY <1>6 DEF Place, RowsInOrder
<1>7. ASSUME NEW q \in Queries, NEW prepared \in BOOLEAN, Prepare(q, prepared)
      PROVE  (Place /\ RowsInOrder)'
  BY <1>4, <1>7 DEF Prepare, NothingSeen
<1>8. CASE Reset
  <2>1. stmt'.query = stmt.query
    BY <1>2, <1>8 DEF Reset, PreparedReset, DBStatements
  <2>2. seen'.next = seen.next /\ seen'.fetches = seen.fetches /\ seen'.row = seen.row
    BY <1>2, <1>8 DEF Reset, Views
  <2> QED
    BY <1>5, <1>8, <2>1, <2>2 DEF Reset
<1>9. ASSUME NEW how \in {"value", "pointer", "null"}, BindNext(how)
      PROVE  (Place /\ RowsInOrder)'
  <2>1. stmt'.query = stmt.query
    BY <1>2, <1>9 DEF BindNext, DBStatements
  <2>2. seen'.next = seen.next /\ seen'.fetches = seen.fetches /\ seen'.row = seen.row
    BY <1>2, <1>9 DEF BindNext, Views
  <2> QED
    BY <1>3, <1>9, <2>1, <2>2 DEF BindNext
<1>10. ASSUME NEW col \in 0..MaxArity, NEW how \in {"value", "pointer", "null"}, BindColumn(col, how)
       PROVE  (Place /\ RowsInOrder)'
  <2>1. stmt'.query = stmt.query
    BY <1>2, <1>10 DEF BindColumn, DBStatements
  <2>2. seen'.next = seen.next /\ seen'.fetches = seen.fetches /\ seen'.row = seen.row
    BY <1>2, <1>10 DEF BindColumn, Views
  <2> QED
    BY <1>3, <1>10, <2>1, <2>2 DEF BindColumn
<1>11. ASSUME NEW v \in Values, ChangeText(v)
       PROVE  (Place /\ RowsInOrder)'
  <2>1. seen'.next = seen.next /\ seen'.fetches = seen.fetches /\ seen'.row = seen.row
    BY <1>2, <1>11 DEF ChangeText, Views
  <2> QED
    BY <1>3, <1>11, <2>1 DEF ChangeText
<1>12. CASE PreparedExecute
  <2>1. seen'.next = seen.next /\ seen'.fetches = seen.fetches /\ seen'.row = seen.row
    BY <1>2, <1>12 DEF PreparedExecute, Views
  <2> QED
    BY <1>5, <1>12, <2>1 DEF PreparedExecute
<1>13. CASE DirectExecute
  <2>1. stmt'.query = stmt.query
    BY <1>2, <1>13 DEF DirectExecute, DBStatements
  <2>2. seen'.next = seen.next /\ seen'.fetches = seen.fetches /\ seen'.row = seen.row
    BY <1>2, <1>13 DEF DirectExecute, Views
  <2> QED
    BY <1>3, <1>13, <2>1, <2>2 DEF DirectExecute
\* What Statement::Query and Statement::Row make of the result r over n.
<1>14. ASSUME NEW r, NEW n, PreparedQuery(r, n) \/ DirectQuery(r), res.on = None
       PROVE  \/ /\ IsSelect /\ res' = r /\ aborted' = aborted /\ (stmt.prepared => native' = n)
              \/ res'.on = None /\ (aborted' = TRUE \/ (stmt.prepared /\ native' = NoNative))
  BY <1>14 DEF PreparedQuery, DirectQuery, NoResult
<1>15. CASE Query
  <2>1. PICK stored \in Stored :
          PreparedQuery(NewResult(stored), Executed) \/ DirectQuery(NewResult(stored))
    BY <1>15 DEF Query
  <2>2. PICK made : made = NewResult(stored)
    OBVIOUS
  <2>3. /\ st.some /\ res.on = None /\ UNCHANGED stmt
        /\ seen' = [seen EXCEPT !.wrong = Wrong, !.next = 0, !.fetches = 0, !.row = <<>>]
    BY <1>15 DEF Query
  <2>4. seen'.fetches = 0 /\ seen'.row = <<>>
    BY <1>2, <2>3 DEF Views
  <2>5. CASE res'.on = None
    BY <1>4, <2>4, <2>5
  <2>6. CASE IsSelect /\ res' = made /\ (stmt.prepared => native' = Executed)
    <3>1. /\ res'.on = (IF stmt.prepared THEN "prepared" ELSE "direct")
          /\ ~res'.eof /\ ~res'.fetched /\ res'.column = 0 /\ res'.row = 0
          /\ res'.rows = (IF res'.stored THEN Yields[stmt.query] ELSE 0) /\ Yields[stmt.query] \in Nat
          /\ stmt.prepared => res'.stored
          /\ Executed.rows = Yields[stmt.query] /\ Executed.at = 0
      BY <1>1, <2>2, <2>3, <2>6, ExecutedFacts, NewResultFacts
    <3>2. Place'
      BY <1>2, <2>3, <2>6, <3>1 DEF Place
    <3> QED
      BY <1>6, <2>4, <3>1, <3>2
  <2> QED
    BY <1>14, <2>1, <2>2, <2>3, <2>5, <2>6
<1>16. CASE Row
  <2>1. PICK stored \in Stored :
          LET made == NewResult(stored)
              first == AfterNext(made, Executed)
              left == Fetched(made, Executed)
              threw == ~first.eof /\ IF stmt.prepared THEN PreparedHasNext(first, left) ELSE DirectHasNext(first)
              result == IF threw THEN NoResult ELSE first
          IN /\ PreparedQuery(result, left) \/ DirectQuery(result)
             /\ seen' = [seen EXCEPT !.wrong = Wrong, !.fetches = 0,
                     !.next = IF threw THEN 0 ELSE FetchRow(made, Executed),
                     !.row = IF aborted' \/ (stmt.prepared /\ native' = NoNative) THEN <<>>
                             ELSE <<threw, ~threw /\ first.eof, stored>>]
    BY <1>16 DEF Row
  <2>2. PICK made : made = NewResult(stored)
    OBVIOUS
  <2> DEFINE first == AfterNext(made, Executed)
             left == Fetched(made, Executed)
             threw == ~first.eof /\ IF stmt.prepared THEN PreparedHasNext(first, left) ELSE DirectHasNext(first)
             result == IF threw THEN NoResult ELSE first
             got == IF threw THEN 0 ELSE FetchRow(made, Executed)
             failed == aborted' \/ (stmt.prepared /\ native' = NoNative)
             told == IF failed THEN <<>> ELSE <<threw, ~threw /\ first.eof, stored>>
             y == IF stored THEN Yields[stmt.query] ELSE 0
  <2>3. /\ PreparedQuery(result, left) \/ DirectQuery(result)
        /\ seen' = [seen EXCEPT !.wrong = Wrong, !.fetches = 0, !.next = got, !.row = told]
    BY <2>1, <2>2, Zenon
  <2>4. st.some /\ res.on = None /\ UNCHANGED stmt
    BY <1>16 DEF Row
  <2> HIDE DEF first, left, threw, result, got, failed, told
  <2>5. seen'.fetches = 0 /\ seen'.next = got /\ seen'.row = told
    BY <1>2, <2>3 DEF Views
  <2>6. CASE res'.on = None /\ failed
    BY <1>4, <2>5, <2>6 DEF told
  <2>7. CASE IsSelect /\ res' = result /\ (stmt.prepared => native' = left)
    <3>1. /\ made \in [on : {"prepared", "direct"}, eof : BOOLEAN, fetched : BOOLEAN, column : Nat,
                       row : Nat, rows : Nat, stored : BOOLEAN, replaced : BOOLEAN]
          /\ Executed \in [rows : Int, at : Nat]
          /\ ~made.eof /\ made.row = 0 /\ made.rows = y /\ y \in Nat /\ made.stored = stored
          /\ Yields[stmt.query] \in Nat /\ stored \in BOOLEAN /\ (stmt.prepared => stored)
          /\ Executed.rows = Yields[stmt.query] /\ Executed.at = 0 /\ ~made.replaced
          /\ made.on = (IF stmt.prepared THEN "prepared" ELSE "direct")
      BY <1>1, <2>2, <2>4, <2>7, ExecutedFacts, NewResultFacts
    <3>2. /\ first.on = made.on /\ first.rows = y /\ first.row = 1 /\ first.fetched
          /\ first.column = 0 /\ (first.eof <=> y = 0) /\ first.stored = stored
          /\ ~first.eof => FetchRow(made, Executed) = 1
          /\ made.on = "prepared" => left.rows = y /\ (~first.eof => left.at = 1)
      BY <3>1, NextPlace DEF first, left
    <3>3. threw <=> y > 1
      BY <3>1, <3>2 DEF threw, PreparedHasNext, DirectHasNext
    <3>4. told # <<>> => told \in {<<Yields[stmt.query] > 1, Yields[stmt.query] = 0, TRUE>>, <<FALSE, TRUE, FALSE>>}
      <4>1. threw = (y > 1) /\ (~threw /\ first.eof) = (y = 0)
        BY <3>1, <3>2, <3>3 DEF threw
      <4>2. CASE stored
        <5>1. stored = TRUE /\ y = Yields[stmt.query]
          BY <3>1, <4>2
        <5> QED
          BY <4>1, <5>1, Zenon DEF told
      <4>3. CASE ~stored
        <5>1. stored = FALSE /\ threw = FALSE /\ (~threw /\ first.eof) = TRUE
          BY <3>1, <4>1, <4>3
        <5> QED
          BY <5>1, Zenon DEF told
      <4> QED
        BY <4>2, <4>3
    <3>5. CASE threw
      <4>1. res'.on = None
        BY <2>7, <3>5 DEF result, NoResult
      <4> QED
        BY <2>4, <2>5, <3>4, <4>1 DEF Place, RowsInOrder
    <3>6. CASE ~threw
      <4>1. res' = first /\ got = FetchRow(made, Executed)
        BY <2>7, <3>6 DEF result, got
      <4>2. Place'
        BY <1>2, <2>4, <2>5, <2>7, <3>1, <3>2, <3>3, <3>6, <4>1 DEF Place
      <4> QED
        BY <1>6, <2>4, <2>5, <3>2, <3>4, <4>1, <4>2
    <3> QED
      BY <3>5, <3>6
  <2> QED
    BY <1>14, <2>3, <2>4, <2>6, <2>7 DEF failed
<1>17. CASE NextRow
  <2>1. /\ res.on # None /\ ~res.eof /\ UNCHANGED stmt
        /\ res' = AfterNext(res, native) /\ native' = Fetched(res, native)
        /\ seen' = [seen EXCEPT !.next = FetchRow(res, native), !.fetches = 0]
    BY <1>17 DEF NextRow
  <2>2. seen'.next = FetchRow(res, native) /\ seen'.fetches = 0 /\ seen'.row = seen.row
    BY <1>2, <2>1 DEF Views
  <2>3. seen'.row # <<>> => seen'.row \in {<<Yields[stmt'.query] > 1, Yields[stmt'.query] = 0, TRUE>>,
                                             <<FALSE, TRUE, FALSE>>}
    BY <1>1, <2>1, <2>2 DEF RowsInOrder
  <2>4. CASE res.replaced
    <3>1. res'.replaced /\ res'.column = 0
      BY <1>2, <2>1, <2>4 DEF AfterNext, NextOf, Results
    <3> QED
      BY <1>6, <2>2, <2>3, <3>1 DEF Place
  <2>5. CASE ~res.replaced
    <3>1. /\ res.rows \in Nat /\ res.row <= res.rows
          /\ res.rows = (IF res.stored THEN Yields[stmt.query] ELSE 0)
          /\ res.on = "prepared" => native.rows = res.rows /\ native.at = res.row
      BY <1>1, <2>1, <2>5 DEF Place
    <3>2. res \in [on : {"prepared", "direct"}, eof : BOOLEAN, fetched : BOOLEAN,
                   column : Nat, row : Nat, rows : Nat, stored : BOOLEAN, replaced : BOOLEAN]
      BY <1>2, <2>1, <3>1 DEF Results
    <3>3. /\ res'.on = res.on /\ res'.rows = res.rows /\ res'.stored = res.stored /\ res'.row = res.row + 1 /\ res'.fetched
          /\ res'.column = 0 /\ (res'.eof <=> res.row = res.rows)
          /\ ~res'.eof => FetchRow(res, native) = res.row + 1
          /\ res.on = "prepared" => native'.rows = res.rows /\ (~res'.eof => native'.at = res.row + 1)
      BY <1>2, <2>1, <3>1, <3>2, NextPlace
    <3>4. res.row \in Nat /\ res.rows \in Nat
      BY <3>2
    <3>5. Place'
      BY <2>1, <2>2, <3>1, <3>3, <3>4 DEF Place
    <3> QED
      BY <1>6, <2>2, <2>3, <3>3, <3>5
  <2> QED
    BY <2>4, <2>5
<1>18. CASE FetchNext \/ RewindColumn
  <2>1. CASE aborted' = aborted
    <3>1. /\ res.on # None /\ UNCHANGED <<stmt, native>>
          /\ \/ res' = [res EXCEPT !.column = @ + 1] /\ seen' = [seen EXCEPT !.fetches = @ + 1]
             \/ res' = [res EXCEPT !.column = 0] /\ seen' = [seen EXCEPT !.fetches = 0]
             \/ res' = res /\ seen' = seen
      BY <1>18 DEF FetchNext, RewindColumn
    <3>2. /\ res'.on = res.on /\ res'.eof = res.eof /\ res'.fetched = res.fetched
          /\ res'.row = res.row /\ res'.rows = res.rows /\ res'.replaced = res.replaced
          /\ res'.stored = res.stored
          /\ seen'.next = seen.next /\ seen'.row = seen.row
      BY <1>2, <3>1 DEF Results, Views
    <3>3. res'.column = seen'.fetches
      BY <1>1, <1>2, <3>1 DEF Results, Views, RowsInOrder
    <3>4. Place'
      BY <1>1, <3>1, <3>2 DEF Place
    <3> QED
      BY <1>1, <1>6, <3>1, <3>2, <3>3, <3>4 DEF RowsInOrder
  <2>2. CASE aborted' # aborted
    BY <1>3, <1>18, <2>2 DEF FetchNext, RewindColumn
  <2> QED
    BY <2>1, <2>2
<1>19. CASE ClearResult
  BY <1>4, <1>19 DEF ClearResult, NoResult
<1>20. CASE \E col \in -1..Columns : FetchColumn(col)
  BY <1>3, <1>20 DEF FetchColumn
<1>21. CASE Begin \/ Commit \/ Rollback \/ EndTransaction
  BY <1>3, <1>21 DEF Begin, Commit, Rollback, EndTransaction
<1>22. CASE UNCHANGED stvars
  BY <1>3, <1>22 DEF stvars
<1> QED
  BY <1>7, <1>8, <1>9, <1>10, <1>11, <1>12, <1>13, <1>15, <1>16, <1>17, <1>18, <1>19, <1>20, <1>21, <1>22
     DEF Next

-----------------------------------------------------------------------------
(* Transactions.                                                           *)

\* The calls that have nothing to do with transactions keep tx, saved and, for it is the
\* table that saved goes back to, saved's meaning.
LEMMA OpenStep ==
    ASSUME Inv, [Next]_stvars
    PROVE  /\ Open'
           /\ tx.exists /\ ~tx'.exists =>
                saved' = None /\ table' = IF tx.first = None THEN tx.begun ELSE table
<1>1. Types /\ Open
  BY DEF Inv
<1>2. /\ tx \in [exists : BOOLEAN, commited : BOOLEAN, begun : Nat,
                 first : {None, "commit", "rollback"}]
      /\ table \in Nat /\ None \notin Nat /\ None \notin {"commit", "rollback"}
  BY <1>1, StatementsAssumption DEF Types
<1>3. CASE UNCHANGED <<tx, saved>>
  BY <1>1, <1>3 DEF Open
<1>4. CASE Begin
  <2>1. /\ saved' = table /\ tx'.exists /\ tx'.begun = table /\ ~tx'.commited /\ tx'.first = None
    BY <1>4 DEF Begin, NoTx
  <2> QED
    BY <2>1 DEF Open
<1>5. CASE Commit
  <2>1. tx.exists /\ saved' = None /\ tx'.exists /\ tx'.commited /\ tx'.first # None
    BY <1>2, <1>5 DEF Commit
  <2> QED
    BY <2>1 DEF Open
<1>6. CASE Rollback
  <2>1. tx.exists /\ saved' = None
    BY <1>1, <1>2, <1>6 DEF Rollback, Open
  <2>2. tx'.exists /\ tx'.commited /\ tx'.first # None
    BY <1>2, <1>6 DEF Rollback
  <2> QED
    BY <2>1, <2>2 DEF Open
<1>7. CASE EndTransaction
  <2>1. tx.exists /\ saved' = None /\ ~tx'.exists
    BY <1>1, <1>7 DEF EndTransaction, Open, NoTx
  <2>2. table' = IF tx.first = None THEN tx.begun ELSE table
    BY <1>1, <1>2, <1>7 DEF EndTransaction, RolledBack, Open
  <2> QED
    BY <2>1, <2>2 DEF Open
<1>8. CASE UNCHANGED stvars
  BY <1>3, <1>8 DEF stvars
<1> QED
  BY <1>3, <1>4, <1>5, <1>6, <1>7, <1>8
     DEF Next, Prepare, Reset, BindNext, BindColumn, ChangeText, PreparedExecute, DirectExecute,
         Query, NextRow, Row, FetchNext, FetchColumn, RewindColumn, ClearResult

-----------------------------------------------------------------------------
(* The theorems.                                                           *)

\* A session starts with nothing bound, no result and no transaction.
LEMMA InitInv == Init => Inv
<1> SUFFICES ASSUME Init PROVE Inv
  OBVIOUS
<1> USE DEF Init
<1>1. MaxArity \in Nat /\ None \notin Nat
  BY StatementsAssumption
<1>2. /\ 0 \in Nat /\ 0 \in Int /\ {} \in SUBSET Nat /\ <<>> \in Seq(BOOLEAN) /\ <<>> \in Seq(Params)
      /\ FALSE \in BOOLEAN /\ Len(<<>>) = 0
  OBVIOUS
<1>3. Unbound \in Wants
  BY <1>1 DEF Unbound, Wants
<1>4. seen \in Views /\ stmt \in DBStatements
  BY <1>2, <1>3, Zenon DEF Views, DBStatements, NothingSeen, NoStatement
<1>5. Types
  <2>1. res \in Results /\ native \in [rows : Int, at : Nat]
    BY DEF NoNative, NoResult, Results
  <2>2. tx \in [exists : BOOLEAN, commited : BOOLEAN, begun : Nat,
                first : {None, "commit", "rollback"}]
    BY DEF NoTx
  <2>3. st \in [some : BOOLEAN, placeholder : Nat]
    OBVIOUS
  <2> QED
    BY <1>2, <1>4, <2>1, <2>2, <2>3 DEF Types
<1>6. /\ stmt.params = <<>> /\ ~st.some /\ st.placeholder = 1 /\ seen.bound = 0 /\ seen.wrong = {}
      /\ seen.row = <<>> /\ res.on = None /\ ~tx.exists
  BY DEF NoStatement, NothingSeen, NoResult, NoTx
<1>7. Bound /\ ExecutesWhatWasBound
  BY <1>1, <1>2, <1>6 DEF Bound, ExecutesWhatWasBound
<1>8. Place /\ RowsInOrder /\ Open
  BY <1>6 DEF Place, RowsInOrder, Open
<1> QED
  BY <1>5, <1>7, <1>8 DEF Inv

\* The invariant holds of every behaviour of a session.
LEMMA InvHolds == Spec => []Inv
<1>1. Inv /\ [Next]_stvars => Inv'
  <2> SUFFICES ASSUME Inv, [Next]_stvars PROVE Inv'
    OBVIOUS
  <2>1. Types'
    BY TypesStep
  <2> QED
    BY <2>1, BoundStep, RowsStep, OpenStep DEF Inv
<1> QED
  BY <1>1, InitInv, PTL DEF Spec

\* What the server gets for a placeholder is what the caller has bound to it, by value,
\* by pointer or as NULL, in whatever order Bind, Reset, Prepare and the executions come:
\* Statement and its drivers, for any queries, any number of placeholders and any values.
THEOREM BindingsArrive == Spec => []ExecutesWhatWasBound
<1>1. Inv => ExecutesWhatWasBound
  BY DEF Inv
<1> QED
  BY <1>1, InvHolds, PTL

\* Result::Next goes through the rows of a query in order and stops after the last, Fetch
\* reads the columns of that row in turn, and Statement::Row tells none, one and several
\* rows apart, for results of any size.
THEOREM RowsArriveInOrder == Spec => []RowsInOrder
<1>1. Inv => RowsInOrder
  BY DEF Inv
<1> QED
  BY <1>1, InvHolds, PTL

\* ~Transaction undoes what was not committed, keeps what was, and leaves the connection
\* outside of a transaction, however often Commit and Rollback were called before it.
THEOREM TransactionsAreAtomic == Spec => TransactionAtomic
<1>1. Inv /\ [Next]_stvars =>
        [tx.exists /\ ~tx'.exists =>
           /\ saved' = None
           /\ table' = IF tx.first = None THEN tx.begun ELSE table]_stvars
  BY OpenStep
<1> QED
  BY <1>1, InvHolds, PTL DEF Spec, TransactionAtomic
=============================================================================
