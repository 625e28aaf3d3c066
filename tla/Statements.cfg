SPECIFICATION Spec
CONSTANTS
    update = update
    several = several
    one = one
    none = none
    Queries = {update, several, one, none}
    Arity <- Placeholders
    Yields <- NumRows
    Columns = 2
    Values = {v1, v2}
    Value = v1
    MaxWrites = 2
    MaxNexts = 4
    MaxArity = 3
    None = None
INVARIANTS
    ExecutesWhatWasBound
    RowsInOrder
PROPERTIES
    TransactionAtomic
CHECK_DEADLOCK FALSE
