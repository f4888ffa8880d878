------------------------------ MODULE Records ------------------------------
(***************************************************************************)
(* The `records` table: every minute a client in a room asks for one       *)
(* minute to be added to its user's record.  A request is four statements  *)
(* (count the rows, find the row, look at its age, add to it), and nothing *)
(* but the first one keeps a user from having two rows.                    *)
(*                                                                         *)
(* `call[c]` is a request in flight: the statement that comes next (`pc`), *)
(* its user and the row it has found.  A row is due `Advantage` before a   *)
(* minute has passed since its last update (in the code 5 seconds of 60).  *)
(***************************************************************************)
EXTENDS Naturals, FiniteSets

CONSTANTS
    Users,
    Calls,      \* bound: requests in flight together
    RowIds,     \* bound: rows ever created; an id is not used again
    Minute,     \* 60 * 1000, in units of `now`
    Advantage,  \* ADVANTAGE_SECOND, in units of `now`
    MaxTime,    \* bound: the last moment
    Enough,     \* bound: no request is made when a row's duration is beyond it
    None

ASSUME NoneIsNothing == None \notin Users \cup RowIds
ASSUME CallsFinite == IsFiniteSet(Calls)
ASSUME AdvantageIsShort == Minute \in Nat /\ Advantage \in Nat /\ Advantage < Minute
ASSUME BoundsAreNumbers == MaxTime \in Nat /\ Enough \in Nat

VARIABLES
    users,      \* users who exist
    row,        \* [owner, duration, createdAt, updatedAt] of each row
    used,       \* ids given out
    call,       \* the requests in flight
    now

vars == <<users, row, used, call, now>>

Idle == [pc |-> "idle", user |-> None, id |-> None]
NoRow == [owner |-> None, duration |-> 0, createdAt |-> 0, updatedAt |-> 0]

At(c, pc) == call[c].pc = pc
Continue(c, pc) == call' = [call EXCEPT ![c].pc = pc]
Finish(c) == call' = [call EXCEPT ![c] = Idle]
RowsOf(u) == {i \in RowIds : row[i].owner = u}
Mine(c) == RowsOf(call[c].user)

------------------------------------------------------------------------------
\* recordTime: the guard of the socket has found the user.
Ask(c, u) ==
    /\ call[c] = Idle
    /\ u \in users
    /\ \A i \in RowsOf(u) : row[i].duration <= Enough
    /\ call' = [call EXCEPT ![c] = [pc |-> "count", user |-> u, id |-> None]]
    /\ UNCHANGED <<users, row, used, now>>

\* Mutant of CountRows: one row is taken for none.
CountRowsOff(c) ==
    /\ At(c, "count")
    /\ Continue(c, IF Cardinality(Mine(c)) <= 1 THEN "create" ELSE "find")
    /\ UNCHANGED <<users, row, used, now>>

\* getRecordCount
CountRows(c) ==
    /\ At(c, "count")
    /\ Continue(c, IF Cardinality(Mine(c)) = 0 THEN "create" ELSE "find")
    /\ UNCHANGED <<users, row, used, now>>

Insert(i, u) ==
    /\ i \notin used
    /\ used' = used \cup {i}
    /\ row' = [row EXCEPT ![i] = [owner |-> u, duration |-> 1,
                                  createdAt |-> now, updatedAt |-> now]]

\* Mutant of CreateRecord: the row is written with the user's number as it is.
CreateRecordUnconnected(c, i) ==
    /\ At(c, "create")
    /\ Insert(i, call[c].user)
    /\ Finish(c)
    /\ UNCHANGED <<users, now>>

\* createRecord: `connect` fails if the user is gone.
CreateRecord(c, i) ==
    /\ At(c, "create")
    /\ IF call[c].user \in users THEN Insert(i, call[c].user)
       ELSE UNCHANGED <<row, used>>
    /\ Finish(c)
    /\ UNCHANGED <<users, now>>

\* getRecentRecordId: any row of the user; reading the id of none throws.
FindRecord(c) ==
    /\ At(c, "find")
    /\ \/ \E i \in Mine(c) :
             call' = [call EXCEPT ![c].pc = "age", ![c].id = i]
       \/ Mine(c) = {} /\ Finish(c)
    /\ UNCHANGED <<users, row, used, now>>

\* floor((deltaTime + ADVANTAGE_SECOND) / minute) >= 1
Due(i) == (now - row[i].updatedAt) + Advantage >= Minute

\* Mutant of LookAtAge: the age of the row is reckoned from its creation.
LookAtAgeCreated(c) ==
    /\ At(c, "age")
    /\ \/ \E i \in Mine(c) : IF (now - row[i].createdAt) + Advantage >= Minute
                             THEN Continue(c, "add")
                             ELSE Finish(c)
       \/ Mine(c) = {} /\ Finish(c)
    /\ UNCHANGED <<users, row, used, now>>

\* longerThen1min: any row of the user again, not necessarily the same one;
\* without a row nothing is added.
LookAtAge(c) ==
    /\ At(c, "age")
    /\ \/ \E i \in Mine(c) : IF Due(i) THEN Continue(c, "add") ELSE Finish(c)
       \/ Mine(c) = {} /\ Finish(c)
    /\ UNCHANGED <<users, row, used, now>>

\* The update of updateRecord, which fails if the row is gone.
AddMinute(c) ==
    LET i == call[c].id IN
    /\ At(c, "add")
    /\ row' = IF row[i] = NoRow THEN row
              ELSE [row EXCEPT ![i].duration = @ + 1, ![i].updatedAt = now]
    /\ Finish(c)
    /\ UNCHANGED <<users, used, now>>

------------------------------------------------------------------------------
Erase(u) == row' = [i \in RowIds |-> IF row[i].owner = u THEN NoRow ELSE row[i]]

DeleteAllRecords(u) ==
    /\ u \in users
    /\ Erase(u)
    /\ UNCHANGED <<users, used, call, now>>

\* The foreign key of a record cascades.
DeleteUser(u) ==
    /\ u \in users
    /\ users' = users \ {u}
    /\ Erase(u)
    /\ UNCHANGED <<used, call, now>>

Tick == /\ now < MaxTime
        /\ now' = now + 1
        /\ UNCHANGED <<users, row, used, call>>

------------------------------------------------------------------------------
Init ==
    /\ users = Users
    /\ row = [i \in RowIds |-> NoRow]
    /\ used = {}
    /\ call = [c \in Calls |-> Idle]
    /\ now = 0

Next ==
    \/ \E c \in Calls :
          \/ CountRows(c) \/ FindRecord(c) \/ LookAtAge(c) \/ AddMinute(c)
          \/ \E u \in Users : Ask(c, u)
          \/ \E i \in RowIds : CreateRecord(c, i)
    \/ \E u \in Users : DeleteAllRecords(u) \/ DeleteUser(u)
    \/ Tick

Spec == Init /\ [][Next]_vars

------------------------------------------------------------------------------
Row == [owner: Users \cup {None}, duration: Nat, createdAt: 0..MaxTime,
        updatedAt: 0..MaxTime]

\* The variables stay in their types; a row in use belongs to a user who
\* exists and has been given out.
TypeOK ==
    /\ users \subseteq Users /\ used \subseteq RowIds /\ now \in 0..MaxTime
    /\ row \in [RowIds -> Row]
    /\ call \in [Calls -> [pc: {"idle", "count", "create", "find", "age", "add"},
                           user: Users \cup {None}, id: RowIds \cup {None}]]
    /\ \A i \in RowIds : row[i] # NoRow => /\ i \in used
                                           /\ row[i].owner \in users
                                           /\ row[i].createdAt <= row[i].updatedAt
                                           /\ row[i].updatedAt <= now

Creating(u) == {c \in Calls : call[c].user = u /\ call[c].pc = "create"}

\* "assume only one record exists": a user has at most one row per request
\* that can be in flight, those about to create one included.
FewRows ==
    \A u \in Users :
        Cardinality(RowsOf(u)) + Cardinality(Creating(u)) <= Cardinality(Calls)

Adding(i) == {c \in Calls : call[c].id = i /\ call[c].pc = "add"}

\* The only row of a user grows by at most one minute for each request in
\* flight per Minute - Advantage passed since its creation, however long a
\* request waits between its look at the row and its addition.  (So it can
\* outrun time: by a minute for 55 seconds and request, but by no more.)
NoFasterThanDue ==
    \A i \in RowIds :
        row[i] # NoRow /\ RowsOf(row[i].owner) = {i} =>
            (row[i].duration - 1 + Cardinality(Adding(i))) * (Minute - Advantage)
                <= Cardinality(Calls) * (now - row[i].createdAt)
==============================================================================
