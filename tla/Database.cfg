\* Two users, four statements, executions with up to two answers to read.
CONSTANTS
    User = {u1, u2}
    Nobody = Nobody
    Null = Null
    MaxStatements = 4
    MaxPending = 2
    MaxRows = 2
SPECIFICATION DatabaseSpec
INVARIANTS
    LeftoversHaveTheirStatement
    SuccessIsThisUsers
\* The statements run out.
CHECK_DEADLOCK FALSE
