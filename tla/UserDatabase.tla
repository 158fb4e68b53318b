---------------------------- MODULE UserDatabase ----------------------------
(***************************************************************************)
(* CMySqlConnector, which keeps one connection, one prepared statement and *)
(* one record set of it, and HXDBClient::GetUserInfo on top of it.  One    *)
(* thread uses a connector: GetUserInfo again and again, or a program that *)
(* calls the operations of HXDBService in an order of its own.             *)
(*                                                                         *)
(* An error of the MySQL library is thrown on as an HXError by every       *)
(* operation, so what is after a catch there is never reached; GetUserInfo *)
(* looks at no result and relies on this.                                  *)
(***************************************************************************)
EXTENDS Integers, FiniteSets

CONSTANTS
    User,           \* the values of userID
    Nobody,         \* a parameter that is not bound
    Null,           \* a null m_DBRecordSet, a field not read
    MaxStatements,  \* bound: statements prepared
    MaxPending,     \* bound: results and final status of one execution
    MaxRows         \* bound: rows of a record set

ASSUME DatabaseAssumption ==
    /\ Nobody \notin User
    /\ {MaxStatements, MaxPending, MaxRows} \subseteq Nat

VARIABLES
    m_DBConnect,        \* "null", or "made"
    m_DBPrepareState,   \* 0 for null, or the number of the statement
    m_DBRecordSet,      \* Null, or its statement, the parameter of the execution
                        \* it came from, and how many rows are left
    parameter,          \* the parameter bound to the statement
    prepared,           \* how many statements were prepared
    alive,              \* the connection works
    pending,            \* what the server has answered to the last execution and
                        \* nobody has read; a command needs 0
    caller,             \* who uses the connector: "GetUserInfo" or "program"
    at,                 \* where GetUserInfo is, or "out"
    userID, testRec,    \* its parameters, *testRec from the call on
    ret                 \* what it returned last; "undefined", any value, off its end

statementVars == <<m_DBPrepareState, m_DBRecordSet, parameter, prepared>>
connectorVars == <<m_DBConnect, statementVars, alive, pending>>
callVars == <<at, userID, testRec, ret>>
dbVars == <<connectorVars, caller, callVars>>

NoRec == [id |-> Null, name |-> Null]

\* The constructor.
DatabaseInit ==
    /\ m_DBConnect = "null"
    /\ m_DBPrepareState = 0 /\ m_DBRecordSet = Null
    /\ parameter = Nobody /\ prepared = 0
    /\ alive = FALSE /\ pending = 0
    /\ caller \in {"GetUserInfo", "program"}
    /\ at = "new" /\ userID = Nobody /\ testRec = NoRec /\ ret = "none"

-----------------------------------------------------------------------------
(* Operations of the connector.  Each has an outcome: TRUE is a return, FALSE *)
(* an HXError thrown.                                                         *)

\* What an error at the server, or of the connection, does to it.
Fails == alive' \in {alive, FALSE}

\* InitDBConn, OpenConnect: a new connection, with nothing to read, which is kept
\* although the schema cannot be set or the connection is not valid.
InitDBConn(ok) ==
    /\ \/ ok /\ m_DBConnect' = "made" /\ alive' = TRUE
       \/ ~ok /\ m_DBConnect' \in {"null", "made"} /\ alive' \in {m_DBConnect' = "made", FALSE}
    /\ pending' = 0
    /\ UNCHANGED statementVars

\* A ping, which fails while there is something to read.
IsDBConnValid == m_DBConnect = "made" /\ alive /\ pending = 0

\* A record set read from the statement now.
RecordSets(p) ==
    [stmt : {m_DBPrepareState}, of : {p}, rows : 0 .. MaxRows]

\* CloseRecordset when reading on fails: the statement stays, with the set read
\* last.
DrainFails ==
    /\ m_DBPrepareState # 0 /\ pending > 0
    /\ \/ pending' = 0 /\ UNCHANGED alive
       \/ alive' = FALSE /\ UNCHANGED pending
    /\ m_DBRecordSet' \in {m_DBRecordSet} \cup RecordSets(parameter)
    /\ UNCHANGED <<m_DBConnect, m_DBPrepareState, parameter, prepared>>

\* It can read to the end: what is left of the statement then is nothing.
CanDrain == m_DBPrepareState # 0 /\ pending > 0 => alive
Drained == IF m_DBPrepareState # 0 THEN 0 ELSE pending

\* Fault: the statement is destroyed with results unread.
CloseRecordsetUnread(ok) ==
    /\ ok
    /\ m_DBPrepareState' = 0 /\ m_DBRecordSet' = Null /\ parameter' = Nobody
    /\ UNCHANGED <<m_DBConnect, prepared, alive, pending>>

\* CloseRecordset: all results are read, then statement and record set go.
CloseRecordset(ok) ==
    \/ /\ ok /\ CanDrain
       /\ pending' = Drained
       /\ m_DBPrepareState' = 0 /\ m_DBRecordSet' = Null /\ parameter' = Nobody
       /\ UNCHANGED <<m_DBConnect, prepared, alive>>
    \/ ~ok /\ DrainFails

\* CloseConnect.
CloseConnect(ok) ==
    \/ /\ ok /\ CanDrain
       /\ m_DBConnect' = "null" /\ alive' = FALSE /\ pending' = 0
       /\ m_DBPrepareState' = 0 /\ m_DBRecordSet' = Null /\ parameter' = Nobody
       /\ UNCHANGED prepared
    \/ ~ok /\ DrainFails

\* PreparedExcute: CloseRecordset, then a new statement, whose parameters are
\* cleared.
PreparedExcute(ok) ==
    /\ m_DBConnect = "made"
    /\ prepared < MaxStatements
    /\ \/ /\ alive /\ CanDrain /\ Drained = 0
          /\ prepared' = prepared + 1 /\ m_DBPrepareState' = prepared + 1
          /\ m_DBRecordSet' = Null /\ parameter' = Nobody /\ pending' = 0
          /\ UNCHANGED <<m_DBConnect, alive>>
       \/ /\ ~ok /\ CanDrain
          /\ m_DBPrepareState' = 0 /\ m_DBRecordSet' = Null /\ parameter' = Nobody
          /\ pending' = Drained /\ Fails
          /\ UNCHANGED <<m_DBConnect, prepared>>
       \/ ~ok /\ DrainFails

\* setBigInt, ..., setInt, ..., setNull.
SetParameter(u, ok) ==
    /\ m_DBPrepareState # 0
    /\ parameter' = IF ok THEN u ELSE parameter
    /\ UNCHANGED <<m_DBConnect, m_DBPrepareState, m_DBRecordSet, prepared, alive, pending>>

\* executeUpdate, then getResultSet if bRecordset: either may fail.
ExecuteCommand(bRecordset, ok) ==
    /\ m_DBPrepareState # 0
    /\ \/ /\ alive /\ pending = 0
          /\ pending' \in 0 .. MaxPending
          /\ m_DBRecordSet' \in IF ok /\ bRecordset THEN RecordSets(parameter)
                                ELSE {m_DBRecordSet}
          /\ IF ok THEN UNCHANGED alive ELSE bRecordset /\ Fails
       \/ ~ok /\ UNCHANGED <<pending, m_DBRecordSet>> /\ Fails
    /\ UNCHANGED <<m_DBConnect, m_DBPrepareState, parameter, prepared>>

\* Query (bRecordset) and Execute: a statement without parameters is prepared and
\* executed.
Query(bRecordset, ok) ==
    \/ ~ok /\ PreparedExcute(FALSE)
    \/ /\ m_DBConnect = "made" /\ alive /\ CanDrain /\ Drained = 0
       /\ prepared < MaxStatements
       /\ prepared' = prepared + 1 /\ m_DBPrepareState' = prepared + 1
       /\ parameter' = Nobody
       /\ pending' \in 0 .. MaxPending
       /\ m_DBRecordSet' \in IF ok /\ bRecordset
                             THEN [stmt : {prepared + 1}, of : {Nobody}, rows : 0 .. MaxRows]
                             ELSE {Null}
       /\ IF ok THEN UNCHANGED alive ELSE (bRecordset \/ pending' = 0) /\ Fails
       /\ UNCHANGED m_DBConnect

\* GetNextResultSet: the next record set, or only the final status, which leaves
\* the record set alone; an error of the library is not caught here.
GetNextResultSet(ok) ==
    /\ m_DBPrepareState # 0 /\ pending > 0
    /\ \/ /\ ok /\ alive
          /\ \/ /\ pending' \in 0 .. pending - 1
                /\ m_DBRecordSet' \in RecordSets(parameter)
             \/ pending' = 0 /\ UNCHANGED m_DBRecordSet
          /\ UNCHANGED alive
       \/ ~ok /\ UNCHANGED <<pending, m_DBRecordSet>> /\ Fails
    /\ UNCHANGED <<m_DBConnect, m_DBPrepareState, parameter, prepared>>

\* NextFieldExist: the next row of the record set, if any.
NextFieldExist ==
    /\ m_DBRecordSet # Null
    /\ m_DBRecordSet.rows > 0
    /\ m_DBRecordSet' = [m_DBRecordSet EXCEPT !.rows = @ - 1]
    /\ UNCHANGED <<m_DBConnect, m_DBPrepareState, parameter, prepared, alive, pending>>

\* GetFieldValue, into a field that holds old: a number is reset to 0 before it
\* is read, a string is not.
GetFieldValue(old, ok) == IF ok THEN m_DBRecordSet.of ELSE old

-----------------------------------------------------------------------------
(* HXDBClient. *)

\* CreateDBConn; whoever has a connector goes on with it though this failed.
CreateDBConn(ok) ==
    /\ at = "new" /\ at' = "out"
    /\ InitDBConn(ok)
    /\ UNCHANGED <<caller, userID, testRec, ret>>

GoesTo(place) == at' = place /\ UNCHANGED <<caller, userID, testRec, ret>>
Returns(r) == at' = "out" /\ ret' = r /\ UNCHANGED <<caller, userID, testRec>>

\* Fault: SetErrorInfo does not throw, and the operation returns false.
ThenNoThrow(place, ok) == GoesTo(place)

\* A step of GetUserInfo whose operation returned goes on; if it threw, the error
\* is logged and the function ends without a return.
Then(place, ok) == IF ok THEN GoesTo(place) ELSE Returns("undefined")

Call(u) ==
    /\ caller = "GetUserInfo" /\ at = "out"
    /\ prepared < MaxStatements
    /\ IF IsDBConnValid
       THEN at' = "prepare" /\ UNCHANGED ret
       ELSE at' = "out" /\ ret' = "ERR_DBCONN_SANITY_CHECK"
    /\ userID' = u /\ testRec' = NoRec
    /\ UNCHANGED <<connectorVars, caller>>

CallPrepares(ok) == at = "prepare" /\ PreparedExcute(ok) /\ Then("bind", ok)
CallBinds(ok) == at = "bind" /\ SetParameter(userID, ok) /\ Then("execute", ok)
CallExecutes(ok) == at = "execute" /\ ExecuteCommand(TRUE, ok) /\ Then("rows", ok)

\* A row: the id, then the name; a column that is missing is an error.
CallReadsRow(id, name) ==
    /\ at = "rows"
    /\ NextFieldExist
    /\ testRec' = [id   |-> GetFieldValue(Null, id),
                   name |-> GetFieldValue(testRec.name, id /\ name)]
    /\ IF id /\ name
       THEN UNCHANGED <<at, ret>>
       ELSE at' = "out" /\ ret' = "undefined"
    /\ UNCHANGED <<caller, userID>>

CallReadAll ==
    /\ at = "rows"
    /\ m_DBRecordSet # Null => m_DBRecordSet.rows = 0
    /\ UNCHANGED connectorVars
    /\ GoesTo("close")

CallCloses(ok) ==
    /\ at = "close"
    /\ CloseRecordset(ok)
    /\ Returns(IF ok THEN "SUCCESS" ELSE "undefined")

\* The connection is lost.
Lose ==
    /\ alive /\ alive' = FALSE
    /\ UNCHANGED <<m_DBConnect, statementVars, pending, caller, callVars>>

-----------------------------------------------------------------------------
GetUserInfo ==
    \/ \E u \in User : Call(u)
    \/ \E ok \in BOOLEAN :
        CallPrepares(ok) \/ CallBinds(ok) \/ CallExecutes(ok) \/ CallCloses(ok)
    \/ \E id, name \in BOOLEAN : CallReadsRow(id, name)
    \/ CallReadAll

\* A program that prepares before it binds and executes, as GetUserInfo does, and
\* connects again only after CloseConnect, but else calls what it likes.
Program ==
    /\ caller = "program" /\ at = "out"
    /\ \E ok \in BOOLEAN :
        \/ CloseRecordset(ok) \/ CloseConnect(ok) \/ PreparedExcute(ok)
        \/ \E u \in User : SetParameter(u, ok)
        \/ \E bRecordset \in BOOLEAN : ExecuteCommand(bRecordset, ok) \/ Query(bRecordset, ok)
        \/ GetNextResultSet(ok)
        \/ NextFieldExist
        \/ m_DBConnect = "null" /\ InitDBConn(ok)
    /\ UNCHANGED <<caller, callVars>>

DatabaseNext ==
    \/ \E ok \in BOOLEAN : CreateDBConn(ok)
    \/ GetUserInfo \/ Program \/ Lose

DatabaseSpec == DatabaseInit /\ [][DatabaseNext]_dbVars

-----------------------------------------------------------------------------
(* Properties. *)

\* Whatever fails half-way, what an execution leaves behind belongs to the
\* statement kept: answers nobody has read, which only that statement can read
\* to the end and which make every other command fail till then; and the record
\* set, whose rows are never those of an earlier statement.
LeftoversHaveTheirStatement ==
    /\ alive /\ pending > 0 => m_DBPrepareState # 0
    /\ m_DBRecordSet # Null =>
        m_DBPrepareState # 0 /\ m_DBRecordSet.stmt = m_DBPrepareState

\* When GetUserInfo returns SUCCESS, *testRec holds a row the database gave for
\* this userID, or none was given, and the connector is ready for the next call.
SuccessIsThisUsers ==
    ret = "SUCCESS" /\ at = "out" =>
        /\ testRec \in {NoRec, [id |-> userID, name |-> userID]}
        /\ alive => IsDBConnValid
=============================================================================
