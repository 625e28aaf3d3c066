----------------------------- MODULE Statements -----------------------------
(* db/frontend's Statement, Result and Transaction on one Session, over the   *)
(* prepared and direct statements and results of db/drivers/mysql.  The       *)
(* server is external: a table that counts the writes it has executed, with   *)
(* BEGIN, COMMIT and ROLLBACK, and the rows a query yields.                   *)
EXTENDS Integers, Sequences

CONSTANTS
    Queries,    \* SQL texts
    Arity,      \* Arity[q]: its placeholders
    Yields,     \* Yields[q]: how many rows it yields; -1 for one that is no SELECT
    Columns,    \* columns of every result
    Values,     \* what a string holds
    Value,      \* what is bound by value
    MaxWrites,  \* bound on the writes
    MaxNexts,   \* bound on the calls of Next on a result
    MaxArity,   \* bound on the placeholders
    None

ASSUME StatementsAssumption ==
    /\ None \notin Values /\ None \notin Nat /\ Value \in Values
    /\ None \notin {"prepared", "direct", "commit", "rollback"}
    /\ MaxArity \in Nat
    /\ \A q \in Queries : Arity[q] \in 0..MaxArity /\ Yields[q] \in Nat \cup {-1}

VARIABLES
    stmt,       \* the DBStatement the Statement points to
    native,     \* its MYSQL_STMT: the result it has stored, if any
    st,         \* Statement
    res,        \* Result, and the DBResult it points to
    text,       \* the string whose characters a pointer parameter points to
    table,      \* the server's data: the number of writes
    saved,      \* what ROLLBACK goes back to; None when no transaction is open
    tx,         \* Transaction
    seen,       \* what the client knows: see the properties
    scene,      \* what the behaviour exercises
    aborted     \* a DCHECK has failed
stvars == <<stmt, native, st, res, text, table, saved, tx, seen, scene, aborted>>

Null == [how |-> "null", v |-> None]
NoStatement == [query |-> None, prepared |-> FALSE, params |-> <<>>]
NoNative == [rows |-> -1, at |-> 0]
NoResult == [on |-> None, eof |-> TRUE, fetched |-> TRUE, column |-> 0, row |-> 0, rows |-> -1,
             stored |-> TRUE, replaced |-> FALSE]
NoTx == [exists |-> FALSE, commited |-> FALSE, begun |-> 0, first |-> None]
\* What the caller accepts for a placeholder: NULL unless something was bound.
Unbound == [i \in 1..MaxArity |-> {None}]
NothingSeen == [bound |-> 0, want |-> Unbound, wrong |-> {}, next |-> 0, fetches |-> 0, row |-> <<>>]

Init ==
    /\ stmt = NoStatement /\ native = NoNative /\ st = [some |-> FALSE, placeholder |-> 1]
    /\ res = NoResult /\ text \in Values
    /\ table = 0 /\ saved = None /\ tx = NoTx
    /\ seen = NothingSeen /\ aborted = FALSE
    /\ scene \in {"parameters", "rows", "transactions"}

(* ------------------------------- preparing -------------------------------- *)

\* ResetData and ResetParams: every parameter is NULL.
ResetParams(n) == [i \in 1..n |-> Null]
NewStatement(q, prepared) == [query |-> q, prepared |-> prepared, params |-> ResetParams(Arity[q])]

\* Session::Prepare and New*Statement.  The statement cache is always empty, because
\* DBStatement::Dispose returns before it does anything; what is not pointed at any more
\* stays allocated and can be forgotten here.  mysql_stmt_prepare may fail: an exception.
Prepare(q, prepared) ==
    /\ res.on = None
    /\ stmt' = NewStatement(q, prepared)
    /\ native' = NoNative
    /\ st' = [some |-> TRUE, placeholder |-> 1]
    /\ seen' = NothingSeen
    /\ UNCHANGED <<res, text, table, saved, tx, aborted>>

\* A prepared result reads what its statement has stored last; executing or resetting the
\* statement again takes that away.
Replaced == IF res.on = "prepared" THEN [res EXCEPT !.replaced = TRUE] ELSE res

\* Faulty variant: the placeholder is not reset.
FirstPlaceholderKept == st.placeholder

FirstPlaceholder == 1

\* Reset of a prepared statement; a direct one keeps its parameters.
PreparedReset(s) == [s EXCEPT !.params = ResetParams(Len(@))]
Reset ==
    /\ st.some
    /\ st' = [st EXCEPT !.placeholder = FirstPlaceholder]
    /\ stmt' = IF stmt.prepared THEN PreparedReset(stmt) ELSE stmt
    /\ native' = IF stmt.prepared THEN NoNative ELSE native
    /\ res' = Replaced
    /\ seen' = [seen EXCEPT !.bound = 0, !.want = IF stmt.prepared THEN Unbound ELSE seen.want]
    /\ UNCHANGED <<text, table, saved, tx, aborted>>

(* -------------------------------- binding --------------------------------- *)

\* At: a direct statement refuses its first and its last parameter.
PreparedAt(col) == col >= 1 /\ col <= Len(stmt.params)
DirectAt(col) == col > 1 /\ col < Len(stmt.params)
HasParam(col) == IF stmt.prepared THEN PreparedAt(col) ELSE DirectAt(col)

\* Numbers, times and streams are copied; of a string or characters a prepared statement
\* keeps the address, and a direct one the escaped and quoted characters.
ByValue(v) == [how |-> "value", v |-> v]
PreparedParam(how) ==
    CASE how = "pointer" -> [how |-> "pointer", v |-> None]
      [] how = "null" -> Null
      [] OTHER -> ByValue(Value)
DirectParam(how) ==
    CASE how = "pointer" -> ByValue(text)
      [] how = "null" -> Null
      [] OTHER -> ByValue(Value)
Param(how) == IF stmt.prepared THEN PreparedParam(how) ELSE DirectParam(how)
\* What the caller means by it.
Wanted(how) ==
    CASE how = "pointer" -> {text}
      [] how = "null" -> {None}
      [] OTHER -> {Value}

\* Bind(v) takes the next placeholder.
BindNext(how) ==
    LET col == st.placeholder IN
    /\ st.some /\ st.placeholder <= Arity[stmt.query]
    /\ IF HasParam(col)
       THEN /\ stmt' = [stmt EXCEPT !.params[col] = Param(how)]
            /\ st' = [st EXCEPT !.placeholder = @ + 1]
            /\ seen' = [seen EXCEPT !.bound = @ + 1, !.want[seen.bound + 1] = Wanted(how)]
            /\ UNCHANGED aborted
       ELSE aborted' = TRUE /\ UNCHANGED <<stmt, st, seen>>
    /\ UNCHANGED <<native, res, text, table, saved, tx>>

\* Bind(col, v).
BindColumn(col, how) ==
    /\ st.some
    /\ IF HasParam(col)
       THEN /\ stmt' = [stmt EXCEPT !.params[col] = Param(how)]
            /\ seen' = [seen EXCEPT !.want[col] = Wanted(how)]
            /\ UNCHANGED aborted
       ELSE aborted' = TRUE /\ UNCHANGED <<stmt, seen>>
    /\ UNCHANGED <<native, st, res, text, table, saved, tx>>

\* The caller's string changes after it was bound; a prepared statement may get whatever it
\* had or has.
ChangeText(v) ==
    /\ v # text /\ text' = v
    /\ seen' = [seen EXCEPT !.want = [i \in 1..MaxArity |->
            IF stmt.prepared /\ i \in DOMAIN stmt.params /\ stmt.params[i].how = "pointer"
            THEN Values ELSE @[i]]]
    /\ UNCHANGED <<stmt, native, st, res, table, saved, tx, aborted>>

(* ------------------------------- executing -------------------------------- *)

\* BindAll: what the server gets for a parameter, which a direct statement puts into the
\* text of the query.
BindIt(p) == IF p.how = "pointer" THEN text ELSE p.v
Sent == [i \in DOMAIN stmt.params |-> IF stmt.prepared THEN BindIt(stmt.params[i]) ELSE stmt.params[i].v]
IsSelect == Yields[stmt.query] >= 0
Executed == IF IsSelect THEN [rows |-> Yields[stmt.query], at |-> 0] ELSE NoNative
Written == IF IsSelect THEN table ELSE table + 1
\* The placeholders for which the server gets something else than what was bound.
Wrong == {i \in DOMAIN stmt.params : Sent[i] \notin seen.want[i]}

\* Statement::Execute.  What the server refuses is an exception of a prepared statement; so
\* is a query, once it has run.
PreparedExecute ==
    /\ st.some /\ stmt.prepared /\ table < MaxWrites
    /\ \/ native' = Executed /\ table' = Written
       \/ native' = NoNative /\ UNCHANGED table
    /\ res' = Replaced
    /\ seen' = [seen EXCEPT !.wrong = Wrong]
    /\ UNCHANGED <<stmt, st, text, saved, tx, aborted>>
\* A direct statement forgets its parameters before it executes, so that executing it again
\* sends NULLs, frees the rows of a query and ends the process if the server refuses.
DirectExecute ==
    /\ st.some /\ ~stmt.prepared /\ table < MaxWrites
    /\ stmt' = [stmt EXCEPT !.params = ResetParams(Len(@))]
    /\ \/ table' = Written /\ UNCHANGED aborted
       \/ aborted' = TRUE /\ UNCHANGED table
    /\ seen' = [seen EXCEPT !.wrong = Wrong, !.want = Unbound]
    /\ UNCHANGED <<native, st, res, text, saved, tx>>

\* A prepared result reads the rows its statement has stored, a direct one has its own; it
\* takes those that mysql_store_result failed to get for no rows.
Stored == IF stmt.prepared THEN {TRUE} ELSE BOOLEAN
NewResult(stored) == [on |-> IF stmt.prepared THEN "prepared" ELSE "direct", eof |-> FALSE, fetched |-> FALSE,
                      column |-> 0, row |-> 0, rows |-> IF stored THEN Executed.rows ELSE 0,
                      stored |-> stored, replaced |-> FALSE]

\* DBStatement::Query; what is no SELECT is executed and ends the process, and so does what
\* the server refuses of a direct statement and what a prepared one cannot store; what it
\* cannot execute throws.
PreparedQuery(r, n) ==
    /\ stmt.prepared
    /\ \/ IsSelect /\ native' = n /\ res' = r /\ UNCHANGED aborted
       \/ aborted' = TRUE /\ UNCHANGED <<native, res>>
       \/ native' = NoNative /\ res' = NoResult /\ UNCHANGED aborted
DirectQuery(r) ==
    /\ ~stmt.prepared /\ UNCHANGED native
    /\ \/ IsSelect /\ res' = r /\ UNCHANGED aborted
       \/ aborted' = TRUE /\ UNCHANGED res

\* Statement::Query.
Query ==
    /\ st.some /\ res.on = None /\ table < MaxWrites
    /\ \E stored \in Stored :
         PreparedQuery(NewResult(stored), Executed) \/ DirectQuery(NewResult(stored))
    /\ table' = IF aborted' THEN Written ELSE table
    /\ seen' = [seen EXCEPT !.wrong = Wrong, !.next = 0, !.fetches = 0, !.row = <<>>]
    /\ UNCHANGED <<stmt, st, text, saved, tx>>

(* -------------------------------- results --------------------------------- *)

\* The row that the driver's Next gives for a result r over native n: its number, 0 at the
\* end, -1 for an error, which MysqlPreparedResult::Next takes for a row.
PreparedNext(n) == IF n.rows = -1 THEN -1 ELSE IF n.at < n.rows THEN n.at + 1 ELSE 0
DirectNext(r) == IF r.row < r.rows THEN r.row + 1 ELSE 0
FetchRow(r, n) == IF r.on = "direct" THEN DirectNext(r) ELSE PreparedNext(n)
Fetched(r, n) == IF r.eof \/ r.on = "direct" \/ PreparedNext(n) < 1 THEN n ELSE [n EXCEPT !.at = @ + 1]

\* Faulty variant: the column is not reset with the row.
NextOfKeepsColumn(r, got) ==
    [r EXCEPT !.eof = got = 0, !.fetched = TRUE, !.row = @ + 1]

\* Result::Next once the driver has fetched a row.
NextOf(r, got) ==
    [r EXCEPT !.eof = got = 0, !.fetched = TRUE, !.row = @ + 1, !.column = 0]

AfterNext(r, n) == IF r.eof THEN r ELSE NextOf(r, FetchRow(r, n))
PreparedHasNext(r, n) == r.row < n.rows
DirectHasNext(r) == r.row < r.rows

NextRow ==
    /\ res.on # None /\ ~res.eof /\ res.row < MaxNexts
    /\ res' = AfterNext(res, native) /\ native' = Fetched(res, native)
    /\ seen' = [seen EXCEPT !.next = FetchRow(res, native), !.fetches = 0]
    /\ UNCHANGED <<stmt, st, text, table, saved, tx, aborted>>

\* Statement::Row: the query, one Next, and an exception if there are more rows.
Row ==
    /\ st.some /\ res.on = None /\ table < MaxWrites
    /\ \E stored \in Stored :
         LET made == NewResult(stored)
             first == AfterNext(made, Executed)
             left == Fetched(made, Executed)
             threw == ~first.eof /\ IF stmt.prepared THEN PreparedHasNext(first, left) ELSE DirectHasNext(first)
             result == IF threw THEN NoResult ELSE first
         IN /\ PreparedQuery(result, left) \/ DirectQuery(result)
            /\ seen' = [seen EXCEPT !.wrong = Wrong, !.fetches = 0,
                    !.next = IF threw THEN 0 ELSE FetchRow(made, Executed),
                    !.row = IF aborted' \/ (stmt.prepared /\ native' = NoNative) THEN <<>>
                            ELSE <<threw, ~threw /\ first.eof, stored>>]
    /\ table' = IF aborted' THEN Written ELSE table
    /\ UNCHANGED <<stmt, st, text, saved, tx>>

\* At: a direct result refuses column 0.  Both need a row: a prepared one past the end
\* reads empty buffers, a direct one ends the process.
PreparedResultAt(col) == col \in 0..(Columns - 1) /\ res.fetched
DirectResultAt(col) == col > 0 /\ col < Columns /\ res.fetched /\ ~res.eof
ResultAt(col) == IF res.on = "direct" THEN DirectResultAt(col) ELSE PreparedResultAt(col)

\* Result::Fetch(v) and operator>>: the next column.
FetchNext ==
    /\ res.on # None /\ res.column < Columns
    /\ IF ResultAt(res.column)
       THEN /\ res' = [res EXCEPT !.column = @ + 1]
            /\ seen' = [seen EXCEPT !.fetches = @ + 1]
            /\ UNCHANGED aborted
       ELSE aborted' = TRUE /\ UNCHANGED <<res, seen>>
    /\ UNCHANGED <<stmt, native, st, text, table, saved, tx>>
\* Fetch(col, v), and Fetch(name, v), whose column is -1 for a name there is not.
FetchColumn(col) ==
    /\ res.on # None
    /\ aborted' = ~ResultAt(col)
    /\ UNCHANGED <<stmt, native, st, res, text, table, saved, tx, seen>>
RewindColumn ==
    /\ res.on # None
    /\ res' = [res EXCEPT !.column = 0]
    /\ seen' = [seen EXCEPT !.fetches = 0]
    /\ UNCHANGED <<stmt, native, st, text, table, saved, tx, aborted>>
\* Result::Clear and the destructor.
ClearResult ==
    /\ res.on # None
    /\ res' = NoResult
    /\ UNCHANGED <<stmt, native, st, text, table, saved, tx, seen, aborted>>

(* ------------------------------ transactions ------------------------------ *)

Begin ==
    /\ ~tx.exists
    /\ saved' = table
    /\ tx' = [NoTx EXCEPT !.exists = TRUE, !.begun = table]
    /\ UNCHANGED <<stmt, native, st, res, text, table, seen, aborted>>
Commit ==
    /\ tx.exists
    /\ saved' = None
    /\ tx' = [tx EXCEPT !.commited = TRUE, !.first = IF @ = None THEN "commit" ELSE @]
    /\ UNCHANGED <<stmt, native, st, res, text, table, seen, aborted>>
\* ROLLBACK outside a transaction does nothing.
RolledBack == IF tx.commited \/ saved = None THEN table ELSE saved
Rollback ==
    /\ tx.exists
    /\ table' = RolledBack
    /\ saved' = IF tx.commited THEN saved ELSE None
    /\ tx' = [tx EXCEPT !.commited = TRUE, !.first = IF @ = None THEN "rollback" ELSE @]
    /\ UNCHANGED <<stmt, native, st, res, text, seen, aborted>>

\* Faulty variant: the destructor leaves the transaction open.
EndTransactionOpen ==
    /\ tx.exists
    /\ tx' = NoTx
    /\ UNCHANGED <<stmt, native, st, res, text, table, saved, seen, aborted>>

\* ~Transaction.
EndTransaction ==
    /\ tx.exists
    /\ table' = RolledBack
    /\ saved' = IF tx.commited THEN saved ELSE None
    /\ tx' = NoTx
    /\ UNCHANGED <<stmt, native, st, res, text, seen, aborted>>

\* Parameters, rows and transactions do not interfere, so a behaviour exercises one of them.
Next ==
    /\ ~aborted /\ UNCHANGED scene
    /\ \/ \E q \in Queries, prepared \in BOOLEAN : Prepare(q, prepared)
       \/ PreparedExecute
       \/ DirectExecute
       \/ scene = "parameters" /\ \E how \in {"value", "pointer", "null"} : BindNext(how)
       \/ scene = "parameters" /\ \E col \in 0..MaxArity, how \in {"value", "pointer", "null"} : BindColumn(col, how)
       \/ scene = "parameters" /\ \E v \in Values : ChangeText(v)
       \/ scene # "transactions" /\ (Reset \/ Query \/ ClearResult)
       \/ scene = "rows" /\ (NextRow \/ Row \/ FetchNext \/ RewindColumn)
       \/ scene = "rows" /\ \E col \in -1..Columns : FetchColumn(col)
       \/ scene = "transactions" /\ (Begin \/ Commit \/ Rollback \/ EndTransaction)

Spec == Init /\ [][Next]_stvars

(* ------------------------------- properties ------------------------------- *)

\* What the server gets for the n-th placeholder is what was bound to it last, by the n-th
\* Bind since the statement was made or reset or by column, and NULL when nothing was: no
\* value, NULL or position of an earlier use.  The drivers differ in when a use ends.  A
\* prepared statement keeps what was bound until Reset; a direct one until Execute, after
\* which it sends NULLs, but not until Reset.
ExecutesWhatWasBound == seen.wrong = {}

\* Next goes through the rows of the query in order and eof_ is set when there are no more,
\* so the n-th fetch after it reads column n - 1 of that row, unless the statement was
\* executed again or reset under the result.  Row throws exactly if there are several rows and
\* gives an empty result exactly if there are none; only rows that the direct driver could
\* not store look like none, where nobody is told.
RowsInOrder ==
    /\ res.on # None /\ ~res.replaced =>
         /\ res.rows = IF res.stored THEN Yields[stmt.query] ELSE 0
         /\ res.fetched => IF res.eof THEN res.row = res.rows + 1
                           ELSE res.row <= res.rows /\ seen.next = res.row
    /\ res.on # None => res.column = seen.fetches
    /\ seen.row # <<>> =>
         seen.row \in {<<Yields[stmt.query] > 1, Yields[stmt.query] = 0, TRUE>>, <<FALSE, TRUE, FALSE>>}

\* What was written in a transaction that ends without Commit is gone, what was committed
\* stays, and the connection is left outside of a transaction.
TransactionAtomic ==
    [][tx.exists /\ ~tx'.exists =>
         /\ saved' = None
         /\ table' = IF tx.first = None THEN tx.begun ELSE table]_stvars
=============================================================================
