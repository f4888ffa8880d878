---------------------------- MODULE RecordsProofs ----------------------------
(***************************************************************************)
(* Proofs about Records, for every set of users and rows, every finite set *)
(* of requests in flight and every length of time.                         *)
(***************************************************************************)
EXTENDS Records, FiniteSetTheorems, TLAPS

\* A request names its user; the row it has found was given out, and is the
\* user's for as long as it exists.
Shape(c) ==
    /\ call[c].pc # "idle" => call[c].user \in Users
    /\ call[c].pc \in {"age", "add"} => call[c].id \in RowIds
    /\ call[c].id # None => call[c].id \in used
    /\ call[c].id \in RowIds /\ row[call[c].id] # NoRow =>
           row[call[c].id].owner = call[c].user

Typed == TypeOK /\ \A c \in Calls : Shape(c)

CallType == [pc: {"idle", "count", "create", "find", "age", "add"},
             user: Users \cup {None}, id: RowIds \cup {None}]

\* The idle handler and the missing row have their types.
LEMMA IdleType == Idle \in CallType /\ NoRow \in Row /\ Idle.id = None
  BY BoundsAreNumbers DEF Idle, CallType, NoRow, Row

\* Types at first, ...
LEMMA InitTyped == Init => Typed
  BY IdleType, BoundsAreNumbers, NoneIsNothing
  DEF Init, Typed, TypeOK, Shape, CallType, Idle, NoRow

\* A step of one request that leaves the rows alone.
LEMMA RequestTyped ==
    ASSUME Typed, NEW c \in Calls, NEW k \in CallType,
           k.pc # "idle" => k.user \in Users,
           k.pc \in {"age", "add"} => k.id \in RowIds,
           k.id # None => k.id \in used,
           k.id \in RowIds /\ row[k.id] # NoRow => row[k.id].owner = k.user,
           call' = [call EXCEPT ![c] = k],
           UNCHANGED <<users, row, used, now>>
    PROVE  Typed'
  BY DEF Typed, TypeOK, Shape, CallType

\* ... when a request comes, ...
LEMMA AskTyped ==
    ASSUME Typed, NEW c \in Calls, NEW u \in Users, Ask(c, u)
    PROVE  Typed'
  <1> DEFINE k == [pc |-> "count", user |-> u, id |-> None]
  <1>1. k \in CallType /\ k.pc = "count" /\ k.user = u /\ k.id = None
    BY DEF CallType
  <1>2. None \notin RowIds
    BY NoneIsNothing
  <1>3. call' = [call EXCEPT ![c] = k] /\ UNCHANGED <<users, row, used, now>>
    BY DEF Ask
  <1> HIDE DEF k
  <1> QED
    BY <1>1, <1>2, <1>3, RequestTyped

\* ... when a handler ends, ...
LEMMA FinishTyped ==
    ASSUME Typed, NEW c \in Calls, Finish(c), UNCHANGED <<users, row, used, now>>
    PROVE  Typed'
  <1>1. Idle.pc = "idle" /\ Idle.id = None /\ None \notin RowIds
    BY NoneIsNothing DEF Idle
  <1> QED
    BY <1>1, IdleType, RequestTyped DEF Finish

\* ... when it goes on, ...
LEMMA ContinueTyped ==
    ASSUME Typed, NEW c \in Calls, call[c].pc # "idle",
           NEW pc \in {"create", "find", "add"}, Continue(c, pc),
           pc = "add" => call[c].pc = "age",
           UNCHANGED <<users, row, used, now>>
    PROVE  Typed'
  <1> DEFINE k == [call[c] EXCEPT !.pc = pc]
  <1>1. call[c] \in CallType /\ Shape(c)
    BY DEF Typed, TypeOK, CallType
  <1>2. k \in CallType /\ k.pc = pc /\ k.user = call[c].user /\ k.id = call[c].id
    BY <1>1 DEF CallType
  <1>3. call' = [call EXCEPT ![c] = k]
    BY DEF Continue
  <1> HIDE DEF k
  <1> QED
    BY <1>1, <1>2, <1>3, RequestTyped DEF Shape

\* ... when the row of today is looked up, ...
LEMMA FindTyped ==
    ASSUME Typed, NEW c \in Calls, FindRecord(c)
    PROVE  Typed'
  <1>1. CASE Finish(c)
    BY <1>1, FinishTyped DEF FindRecord
  <1>2. ASSUME NEW i \in Mine(c), call' = [call EXCEPT ![c].pc = "age", ![c].id = i]
        PROVE  Typed'
    <2> DEFINE k == [call[c] EXCEPT !.pc = "age", !.id = i]
    <2>1. call[c] \in CallType /\ call[c].pc = "find" /\ call[c].user \in Users
      BY DEF Typed, TypeOK, CallType, FindRecord, At, Shape
    <2>2. i \in RowIds /\ row[i].owner = call[c].user
      BY <1>2 DEF Mine, RowsOf
    <2>3. i \in used
      BY <2>1, <2>2, NoneIsNothing DEF Typed, TypeOK, NoRow
    <2>4. k \in CallType /\ k.pc = "age" /\ k.user = call[c].user /\ k.id = i
      BY <2>1, <2>2 DEF CallType
    <2>5. call' = [call EXCEPT ![c] = k] /\ UNCHANGED <<users, row, used, now>>
      BY <1>2 DEF FindRecord
    <2> HIDE DEF k
    <2> QED
      BY <2>1, <2>2, <2>3, <2>4, <2>5, RequestTyped
  <1> QED
    BY <1>1, <1>2 DEF FindRecord

\* ... when it is created, ...
LEMMA CreateTyped ==
    ASSUME Typed, NEW c \in Calls, NEW i \in RowIds, CreateRecord(c, i)
    PROVE  Typed'
  <1>1. CASE call[c].user \notin users
    BY <1>1, FinishTyped DEF CreateRecord
  <1>2. CASE call[c].user \in users
    <2> DEFINE u == call[c].user
               r == [owner |-> u, duration |-> 1, createdAt |-> now, updatedAt |-> now]
    <2>1. /\ i \notin used /\ used' = used \cup {i}
          /\ row' = [row EXCEPT ![i] = r]
          /\ call' = [call EXCEPT ![c] = Idle]
          /\ users' = users /\ now' = now
      BY <1>2 DEF CreateRecord, Insert, Finish
    <2>2. r \in Row /\ r.owner = u /\ r.createdAt = now /\ r.updatedAt = now
      BY <1>2 DEF Row, Typed, TypeOK
    <2> HIDE DEF r
    <2>3. TypeOK'
      BY <1>2, <2>1, <2>2, IdleType DEF Typed, TypeOK, CallType
    <2>4. ASSUME NEW d \in Calls
          PROVE  Shape(d)'
      <3>1. CASE d = c
        <4>1. call'[d] = Idle
          BY <2>1, <3>1 DEF Typed, TypeOK
        <4> QED
          BY <4>1, NoneIsNothing DEF Shape, Idle
      <3>2. CASE d # c
        <4>1. call'[d] = call[d] /\ call[d].id # i
          BY <2>1, <3>2, NoneIsNothing DEF Typed, TypeOK, Shape
        <4> QED
          BY <2>1, <4>1 DEF Shape, Typed, TypeOK
      <3> QED
        BY <3>1, <3>2
    <2> QED
      BY <2>3, <2>4 DEF Typed
  <1> QED
    BY <1>1, <1>2

\* The row to which a minute is added.
LEMMA AddedRow ==
    ASSUME Typed, NEW c \in Calls, AddMinute(c),
           NEW i \in RowIds, i = call[c].id, row[i] # NoRow
    PROVE  \E r \in Row : /\ row' = [row EXCEPT ![i] = r]
                          /\ r.owner = row[i].owner
                          /\ r.duration = row[i].duration + 1
                          /\ r.createdAt = row[i].createdAt
                          /\ r.updatedAt = now
  <1> DEFINE d == row[i].duration + 1
             r == [row[i] EXCEPT !.duration = d, !.updatedAt = now]
  <1>1. row' = [row EXCEPT ![i] = r]
    BY DEF AddMinute
  <1>2. row[i] \in Row /\ now \in 0..MaxTime
    BY DEF Typed, TypeOK
  <1>3. d \in Nat
    BY <1>2 DEF Row
  <1>4. r = [row[i] EXCEPT !.duration = d, !.updatedAt = now] /\ d = row[i].duration + 1
    OBVIOUS
  <1> HIDE DEF d, r
  <1>5. PICK x \in Row, t \in 0..MaxTime : x = row[i] /\ t = now
    BY <1>2
  <1>6. r = [x EXCEPT !.duration = d, !.updatedAt = t]
    BY <1>4, <1>5
  <1>7. /\ r \in Row /\ r.owner = x.owner /\ r.duration = d
        /\ r.createdAt = x.createdAt /\ r.updatedAt = t
    BY <1>3, <1>6 DEF Row
  <1> QED
    BY <1>1, <1>4, <1>5, <1>7

\* ... when its time is raised, ...
LEMMA AddTyped ==
    ASSUME Typed, NEW c \in Calls, AddMinute(c)
    PROVE  Typed'
  <1> DEFINE i == call[c].id
  <1>1. i \in RowIds
    BY DEF AddMinute, At, Typed, Shape
  <1>2. CASE row[i] = NoRow
    BY <1>2, FinishTyped DEF AddMinute
  <1>3. CASE row[i] # NoRow
    <2>1. PICK r \in Row : /\ row' = [row EXCEPT ![i] = r]
                           /\ r.owner = row[i].owner
                           /\ r.createdAt = row[i].createdAt
                           /\ r.updatedAt = now
      BY <1>1, <1>3, AddedRow
    <2>2. call' = [call EXCEPT ![c] = Idle] /\ UNCHANGED <<users, used, now>>
      BY DEF AddMinute, Finish
    <2>3. /\ row[i] \in Row /\ i \in used /\ row[i].owner \in users
          /\ row[i].createdAt <= row[i].updatedAt /\ row[i].updatedAt <= now
          /\ now \in 0..MaxTime /\ MaxTime \in Nat
      BY <1>1, <1>3, BoundsAreNumbers DEF Typed, TypeOK
    <2>4. row[i].createdAt <= now
      BY <2>3 DEF Row
    <2>5. TypeOK'
      BY <1>1, <2>1, <2>2, <2>3, <2>4, IdleType DEF Typed, TypeOK, CallType
    <2>6. ASSUME NEW d \in Calls
          PROVE  Shape(d)'
      <3>1. CASE d = c
        BY <2>2, <3>1, NoneIsNothing DEF Shape, Idle, Typed, TypeOK
      <3>2. CASE d # c
        BY <1>1, <1>3, <2>1, <2>2, <3>2 DEF Shape, Typed, TypeOK
      <3> QED
        BY <3>1, <3>2
    <2> QED
      BY <2>5, <2>6 DEF Typed
  <1> QED
    BY <1>2, <1>3

\* ... when rows are erased, ...
LEMMA EraseTyped ==
    ASSUME Typed, NEW u \in Users, DeleteAllRecords(u) \/ DeleteUser(u)
    PROVE  Typed'
  <1>1. /\ row' = [i \in RowIds |-> IF row[i].owner = u THEN NoRow ELSE row[i]]
        /\ users \ {u} \subseteq users' /\ users' \subseteq users
        /\ UNCHANGED <<used, call, now>>
    BY DEF DeleteAllRecords, DeleteUser, Erase
  <1>2. TypeOK'
    BY <1>1, IdleType DEF Typed, TypeOK
  <1>3. \A c \in Calls : Shape(c)'
    BY <1>1 DEF Typed, TypeOK, Shape
  <1> QED
    BY <1>2, <1>3 DEF Typed

\* ... when time passes, ...
LEMMA TickTyped == Typed /\ Tick => Typed'
  <1> SUFFICES ASSUME Typed, Tick PROVE Typed'
    OBVIOUS
  <1>1. now' \in 0..MaxTime /\ now' = now + 1 /\ now \in 0..MaxTime
    BY BoundsAreNumbers DEF Tick, Typed, TypeOK
  <1>2. ASSUME NEW i \in RowIds, row[i] # NoRow
        PROVE  row[i].updatedAt <= now'
    BY <1>1, <1>2, BoundsAreNumbers DEF Typed, TypeOK, Row
  <1> QED
    BY <1>1, <1>2 DEF Typed, TypeOK, Shape, Tick

\* ... and so after every step.
LEMMA StepTyped == Typed /\ [Next]_vars => Typed'
  <1> SUFFICES ASSUME Typed, [Next]_vars PROVE Typed'
    OBVIOUS
  <1>1. ASSUME NEW c \in Calls, CountRows(c)
        PROVE  Typed'
    BY <1>1, ContinueTyped DEF CountRows, At
  <1>2. ASSUME NEW c \in Calls, LookAtAge(c)
        PROVE  Typed'
    BY <1>2, ContinueTyped, FinishTyped DEF LookAtAge, At
  <1>3. CASE UNCHANGED vars
    BY <1>3 DEF vars, Typed, TypeOK, Shape
  <1> QED
    BY <1>1, <1>2, <1>3, AskTyped, FindTyped, CreateTyped, AddTyped, EraseTyped,
       TickTyped
    DEF Next

\* The variables keep their types; a row in use was given out, belongs to a
\* user who exists and was not updated before it was created.
THEOREM TypeCorrect == Spec => []TypeOK
  <1>1. Typed => TypeOK
    BY DEF Typed
  <1> QED
    BY <1>1, InitTyped, StepTyped, PTL DEF Spec

------------------------------------------------------------------------------
(* Few rows.  A request that is about to create a row is counted with the  *)
(* rows of its user: it came from a count of none, and creates one row.    *)

FewRowsInv ==
    \A u \in Users :
        /\ IsFiniteSet(RowsOf(u))
        /\ Cardinality(RowsOf(u)) + Cardinality(Creating(u)) <= Cardinality(Calls)

\* The handlers about to create a row of u are as few as all handlers.
LEMMA CreatingFinite ==
    ASSUME NEW u \in Users
    PROVE  /\ IsFiniteSet(Creating(u)) /\ Cardinality(Creating(u)) \in Nat
           /\ Cardinality(Creating(u)) <= Cardinality(Calls)
           /\ Cardinality(Calls) \in Nat
  <1>1. Creating(u) \subseteq Calls
    BY DEF Creating
  <1> QED
    BY <1>1, CallsFinite, FS_Subset, FS_CardinalityType

\* A user with no more rows and no more such requests than before.
LEMMA Fewer ==
    ASSUME FewRowsInv, NEW u \in Users,
           RowsOf(u)' \subseteq RowsOf(u), Creating(u)' \subseteq Creating(u)
    PROVE  /\ IsFiniteSet(RowsOf(u)')
           /\ Cardinality(RowsOf(u)') + Cardinality(Creating(u)')
                  <= Cardinality(Calls)
  <1>1. /\ IsFiniteSet(RowsOf(u)')
        /\ Cardinality(RowsOf(u)') <= Cardinality(RowsOf(u))
        /\ Cardinality(RowsOf(u)) \in Nat /\ Cardinality(RowsOf(u)') \in Nat
    BY FS_Subset, FS_CardinalityType DEF FewRowsInv
  <1>2. /\ IsFiniteSet(Creating(u)')
        /\ Cardinality(Creating(u)') <= Cardinality(Creating(u))
        /\ Cardinality(Creating(u)) \in Nat /\ Cardinality(Creating(u)') \in Nat
    BY CreatingFinite, FS_Subset, FS_CardinalityType
  <1> QED
    BY <1>1, <1>2, CreatingFinite DEF FewRowsInv

\* The count of the rows, after which a handler may be about to create one,
\* keeps the bound.
LEMMA CountFew ==
    ASSUME Typed, FewRowsInv, NEW c \in Calls, CountRows(c)
    PROVE  FewRowsInv'
  <1> SUFFICES ASSUME NEW u \in Users
               PROVE  /\ IsFiniteSet(RowsOf(u)')
                      /\ Cardinality(RowsOf(u)') + Cardinality(Creating(u)')
                             <= Cardinality(Calls)
    BY DEF FewRowsInv
  <1>1. RowsOf(u)' = RowsOf(u) /\ IsFiniteSet(RowsOf(u))
    BY DEF CountRows, RowsOf, FewRowsInv
  <1>2. CASE u = call[c].user /\ Cardinality(RowsOf(u)) = 0
    <2>1. Creating(u)' \subseteq Calls
      BY DEF Creating
    <2>2. Cardinality(Creating(u)') <= Cardinality(Calls)
          /\ Cardinality(Creating(u)') \in Nat
      BY <2>1, CallsFinite, FS_Subset, FS_CardinalityType
    <2> QED
      BY <1>1, <1>2, <2>2
  <1>3. CASE ~(u = call[c].user /\ Cardinality(RowsOf(u)) = 0)
    <2>1. Creating(u)' \subseteq Creating(u)
      BY <1>3 DEF CountRows, Continue, Mine, Creating, Typed, TypeOK
    <2> QED
      BY <1>1, <2>1, Fewer
  <1> QED
    BY <1>2, <1>3

\* A creation keeps it: the handler is about to create no more.
LEMMA CreateFew ==
    ASSUME Typed, FewRowsInv, NEW c \in Calls, NEW i \in RowIds, CreateRecord(c, i)
    PROVE  FewRowsInv'
  <1> SUFFICES ASSUME NEW u \in Users
               PROVE  /\ IsFiniteSet(RowsOf(u)')
                      /\ Cardinality(RowsOf(u)') + Cardinality(Creating(u)')
                             <= Cardinality(Calls)
    BY DEF FewRowsInv
  <1>1. Creating(u)' = Creating(u) \ {c}
    BY DEF CreateRecord, At, Finish, Idle, Creating, Typed, TypeOK
  <1>2. CASE u = call[c].user /\ u \in users
    <2>1. RowsOf(u)' \subseteq RowsOf(u) \cup {i}
      BY <1>2 DEF CreateRecord, Insert, RowsOf, Typed, TypeOK
    <2>2. /\ IsFiniteSet(RowsOf(u) \cup {i})
          /\ Cardinality(RowsOf(u) \cup {i}) <= Cardinality(RowsOf(u)) + 1
          /\ Cardinality(RowsOf(u)) \in Nat
      <3>1. IsFiniteSet(RowsOf(u)) /\ Cardinality(RowsOf(u)) \in Nat
        BY FS_CardinalityType DEF FewRowsInv
      <3>2. /\ IsFiniteSet(RowsOf(u) \cup {i})
            /\ Cardinality(RowsOf(u) \cup {i}) =
                   IF i \in RowsOf(u) THEN Cardinality(RowsOf(u))
                   ELSE Cardinality(RowsOf(u)) + 1
        BY <3>1, FS_AddElement, Zenon
      <3> QED
        BY <3>1, <3>2
    <2>3. /\ IsFiniteSet(RowsOf(u)')
          /\ Cardinality(RowsOf(u)') <= Cardinality(RowsOf(u) \cup {i})
          /\ Cardinality(RowsOf(u)') \in Nat
          /\ Cardinality(RowsOf(u) \cup {i}) \in Nat
      BY <2>1, <2>2, FS_Subset, FS_CardinalityType
    <2>4. c \in Creating(u)
      BY <1>2 DEF CreateRecord, At, Creating
    <2>5. Cardinality(Creating(u)') = Cardinality(Creating(u)) - 1
      BY <1>1, <2>4, CreatingFinite, FS_RemoveElement
    <2> QED
      BY <2>2, <2>3, <2>5, CreatingFinite DEF FewRowsInv
  <1>3. CASE ~(u = call[c].user /\ u \in users)
    <2>1. RowsOf(u)' \subseteq RowsOf(u)
      BY <1>3 DEF CreateRecord, Insert, RowsOf, Typed, TypeOK
    <2> QED
      BY <1>1, <2>1, Fewer
  <1> QED
    BY <1>2, <1>3

\* Every other step of a request neither creates a row nor is about to.
LEMMA OtherRequestSteps ==
    ASSUME Typed, NEW c \in Calls, NEW u \in Users,
           \/ FindRecord(c) \/ LookAtAge(c) \/ AddMinute(c)
           \/ \E v \in Users : Ask(c, v)
    PROVE  RowsOf(u)' = RowsOf(u) /\ Creating(u)' \subseteq Creating(u)
  <1> USE DEF Typed, TypeOK, RowsOf, Creating, Idle
  <1>1. CASE FindRecord(c)
    BY <1>1 DEF FindRecord, Finish
  <1>2. CASE LookAtAge(c)
    BY <1>2 DEF LookAtAge, Continue, Finish
  <1>3. CASE AddMinute(c)
    <2>1. call[c].id \in RowIds
      BY <1>3 DEF AddMinute, At, Shape
    <2>2. \A i \in RowIds : row'[i].owner = row[i].owner
      BY <1>3, <2>1 DEF AddMinute, Row
    <2> QED
      BY <1>3, <2>2 DEF AddMinute, Finish
  <1>4. ASSUME NEW v \in Users, Ask(c, v)
        PROVE  RowsOf(u)' = RowsOf(u) /\ Creating(u)' \subseteq Creating(u)
    BY <1>4 DEF Ask
  <1> QED
    BY <1>1, <1>2, <1>3, <1>4

\* A deletion takes all of a user's rows.
LEMMA EraseRows ==
    ASSUME Typed, NEW v \in Users, DeleteAllRecords(v) \/ DeleteUser(v),
           NEW u \in Users
    PROVE  /\ RowsOf(u)' = IF u = v THEN {} ELSE RowsOf(u)
           /\ Creating(u)' = Creating(u)
  BY NoneIsNothing
  DEF DeleteAllRecords, DeleteUser, Erase, RowsOf, Creating, NoRow, Typed, TypeOK

\* The bound on rows is kept.
LEMMA StepFew == Typed /\ FewRowsInv /\ [Next]_vars => FewRowsInv'
  <1> SUFFICES ASSUME Typed, FewRowsInv, [Next]_vars PROVE FewRowsInv'
    OBVIOUS
  <1>1. ASSUME \A u \in Users : /\ RowsOf(u)' \subseteq RowsOf(u)
                                /\ Creating(u)' \subseteq Creating(u)
        PROVE  FewRowsInv'
    BY <1>1, Fewer DEF FewRowsInv
  <1>2. ASSUME NEW v \in Users, DeleteAllRecords(v) \/ DeleteUser(v)
        PROVE  FewRowsInv'
    BY <1>1, <1>2, EraseRows
  <1>3. CASE Tick
    BY <1>1, <1>3 DEF Tick, RowsOf, Creating
  <1>4. CASE UNCHANGED vars
    BY <1>1, <1>4 DEF vars, RowsOf, Creating
  <1> QED
    BY <1>1, <1>2, <1>3, <1>4, CountFew, CreateFew, OtherRequestSteps DEF Next

\* It holds at first.
LEMMA InitFew == Init => FewRowsInv
  <1> SUFFICES ASSUME Init, NEW u \in Users
               PROVE  /\ IsFiniteSet(RowsOf(u))
                      /\ Cardinality(RowsOf(u)) + Cardinality(Creating(u))
                             <= Cardinality(Calls)
    BY DEF FewRowsInv
  <1>1. RowsOf(u) = {}
    BY NoneIsNothing DEF Init, RowsOf, NoRow
  <1> QED
    BY <1>1, CreatingFinite, FS_EmptySet

\* A user has at most one row per request that can be in flight, those about to
\* create one included: nothing but a count in an earlier statement keeps
\* createRecord from making a second row.
THEOREM RowsAreFew == Spec => []FewRows
  <1>1. FewRowsInv => FewRows
    BY DEF FewRowsInv, FewRows
  <1> QED
    BY <1>1, InitTyped, StepTyped, InitFew, StepFew, PTL DEF Spec

------------------------------------------------------------------------------
(* No faster than rows fall due.  The row's duration is bounded by the     *)
(* time of its last update as well: a look that finds the row due is an    *)
(* Interval later, which pays for a minute of every request in flight.     *)

Interval == Minute - Advantage

Only(i) == RowsOf(row[i].owner) = {i}

Paced(i) ==
    row[i] # NoRow /\ Only(i) =>
        /\ (row[i].duration - 1) * Interval
               <= Cardinality(Calls) * (row[i].updatedAt - row[i].createdAt)
        /\ (row[i].duration - 1 + Cardinality(Adding(i))) * Interval
               <= Cardinality(Calls) * (now - row[i].createdAt)

PacedInv == \A i \in RowIds : Paced(i)

\* Multiples are in order.
LEMMA Multiples ==
    ASSUME NEW n \in Nat, NEW a \in Int, NEW b \in Int, a <= b
    PROVE  /\ n * a \in Int /\ n * b \in Int /\ n * a <= n * b
           /\ a * n = n * a /\ b * n = n * b
  <1>1. n * b = n * a + n * (b - a) /\ n * (b - a) \in Nat /\ n * a \in Int
    OBVIOUS
  <1> QED
    BY <1>1

\* The interval after which a row is due.
LEMMA IntervalIs == Interval \in Nat
  BY AdvantageIsShort DEF Interval

\* What holds of a duration still holds with fewer to add, later.
LEMMA Later ==
    ASSUME NEW n \in Nat, NEW d \in Int, NEW k \in Nat, NEW l \in Nat, l <= k,
           NEW a \in Nat, NEW b \in Nat, a <= b, (d + k) * Interval <= n * a
    PROVE  (d + l) * Interval <= n * b
  <1>1. n * a <= n * b /\ n * a \in Int /\ n * b \in Int
    BY Multiples
  <1>2. d + l \in Int /\ d + k \in Int /\ d + l <= d + k
    OBVIOUS
  <1>3. (d + l) * Interval <= (d + k) * Interval
        /\ (d + l) * Interval \in Int /\ (d + k) * Interval \in Int
    BY <1>2, IntervalIs, Multiples
  <1> QED
    BY <1>1, <1>3

\* An interval pays for as many minutes as there are requests.
LEMMA Paid ==
    ASSUME NEW n \in Nat, NEW d \in Int, NEW l \in Nat, l <= n,
           NEW a \in Nat, NEW b \in Nat, a + Interval <= b, d * Interval <= n * a
    PROVE  (d + l) * Interval <= n * b
  <1>0. Interval \in Nat
    BY IntervalIs
  <1>1. n * (a + Interval) <= n * b /\ n * b \in Int
    BY <1>0, Multiples
  <1>2. n * (a + Interval) = n * a + n * Interval /\ n * a \in Int /\ n * Interval \in Int
    BY <1>0
  <1>3. l * Interval <= n * Interval /\ l * Interval \in Int
    BY <1>0, Multiples
  <1>4. (d + l) * Interval = d * Interval + l * Interval /\ d * Interval \in Int
    BY <1>0
  <1> QED
    BY <1>1, <1>2, <1>3, <1>4

\* So are those about to raise a row.
LEMMA AddingFinite ==
    ASSUME NEW i \in RowIds
    PROVE  /\ IsFiniteSet(Adding(i)) /\ Cardinality(Adding(i)) \in Nat
           /\ Cardinality(Adding(i)) <= Cardinality(Calls)
           /\ Cardinality(Calls) \in Nat
  <1>1. Adding(i) \subseteq Calls
    BY DEF Adding
  <1> QED
    BY <1>1, CallsFinite, FS_Subset, FS_CardinalityType

\* The numbers of a row in use.
LEMMA RowNumbers ==
    ASSUME Typed, NEW i \in RowIds, row[i] # NoRow
    PROVE  /\ row[i].duration \in Nat /\ row[i].createdAt \in Nat
           /\ row[i].updatedAt \in Nat /\ now \in Nat
           /\ row[i].createdAt <= row[i].updatedAt /\ row[i].updatedAt <= now
           /\ row[i].owner \in Users
  BY BoundsAreNumbers DEF Typed, TypeOK, Row

\* A row that a step leaves alone, with no more requests about to add to it.
LEMMA Unhurried ==
    ASSUME Typed, NEW i \in RowIds, Paced(i), row'[i] = row[i],
           row[i] # NoRow /\ Only(i)' => Only(i),
           Adding(i)' \subseteq Adding(i), now' \in Nat, now <= now'
    PROVE  Paced(i)'
  <1> SUFFICES ASSUME row[i] # NoRow, Only(i)
               PROVE  (row[i].duration - 1 + Cardinality(Adding(i)')) * Interval
                          <= Cardinality(Calls) * (now' - row[i].createdAt)
    BY DEF Paced
  <1> DEFINE n == Cardinality(Calls)
             a == now - row[i].createdAt
             b == now' - row[i].createdAt
             d == row[i].duration - 1
             k == Cardinality(Adding(i))
             l == Cardinality(Adding(i)')
  <1>1. n \in Nat /\ k \in Nat /\ l \in Nat /\ l <= k
    BY AddingFinite, FS_Subset, FS_CardinalityType
  <1>2. a \in Nat /\ b \in Nat /\ a <= b /\ d \in Int
    BY RowNumbers
  <1>3. (d + k) * Interval <= n * a
    BY DEF Paced
  <1> HIDE DEF n, a, b, d, k, l
  <1>5. (d + l) * Interval <= n * b
    BY <1>1, <1>2, <1>3, Later
  <1> QED
    BY <1>5 DEF n, b, d, l

\* A request finds the row due: the step of time since the row's last update
\* leaves room for every request in flight.
LEMMA LookPaced ==
    ASSUME Typed, PacedInv, NEW c \in Calls, LookAtAge(c)
    PROVE  PacedInv'
  <1> SUFFICES ASSUME NEW i \in RowIds
               PROVE  Paced(i)'
    BY DEF PacedInv
  <1>1. /\ UNCHANGED <<users, row, used, now>> /\ now \in Nat
        /\ Only(i)' = Only(i)
    BY BoundsAreNumbers DEF LookAtAge, Only, RowsOf, Typed, TypeOK
  <1>2. CASE Adding(i)' \subseteq Adding(i)
    BY <1>1, <1>2, Unhurried DEF PacedInv
  <1>3. CASE ~(Adding(i)' \subseteq Adding(i))
    <2>1. call[c].id = i /\ Continue(c, "add") /\ call[c].pc = "age"
      BY <1>3 DEF LookAtAge, At, Finish, Idle, Continue, Adding, Typed, TypeOK
    <2> SUFFICES ASSUME row[i] # NoRow, Only(i)
                 PROVE  (row[i].duration - 1 + Cardinality(Adding(i)')) * Interval
                            <= Cardinality(Calls) * (now - row[i].createdAt)
      BY <1>1 DEF PacedInv, Paced
    <2>2. Mine(c) = {i}
      BY <2>1 DEF Mine, Only, Typed, Shape
    <2>3. Due(i)
      <3>1. call'[c].pc = "add" /\ call'[c].pc # "idle"
        BY <2>1 DEF Continue, Typed, TypeOK
      <3> QED
        BY <2>2, <3>1 DEF LookAtAge, Finish, Idle, Typed, TypeOK
    <2> DEFINE n == Cardinality(Calls)
               a == row[i].updatedAt - row[i].createdAt
               b == now - row[i].createdAt
               d == row[i].duration - 1
               l == Cardinality(Adding(i)')
    <2>4. n \in Nat /\ l \in Nat /\ l <= n
      <3>1. Adding(i)' \subseteq Calls
        BY DEF Adding
      <3> QED
        BY <3>1, CallsFinite, FS_Subset, FS_CardinalityType
    <2>5. a \in Nat /\ b \in Nat /\ a + Interval <= b /\ d \in Int
      BY <2>3, RowNumbers, AdvantageIsShort DEF Due, Interval
    <2>6. d * Interval <= n * a
      BY DEF PacedInv, Paced
    <2> HIDE DEF n, a, b, d, l
    <2>8. (d + l) * Interval <= n * b
      BY <2>4, <2>5, <2>6, Paid
    <2> QED
      BY <2>8 DEF n, b, d, l
  <1> QED
    BY <1>2, <1>3

\* A creation keeps the pace, ...
LEMMA CreatePaced ==
    ASSUME Typed, PacedInv, NEW c \in Calls, NEW j \in RowIds, CreateRecord(c, j)
    PROVE  PacedInv'
  <1> SUFFICES ASSUME NEW i \in RowIds
               PROVE  Paced(i)'
    BY DEF PacedInv
  <1>1. now' = now /\ now \in Nat /\ Adding(i)' \subseteq Adding(i)
    BY BoundsAreNumbers DEF CreateRecord, Finish, Idle, Adding, Typed, TypeOK
  <1>2. CASE UNCHANGED row
    BY <1>1, <1>2, Unhurried DEF PacedInv, Only, RowsOf
  <1>3. CASE Insert(j, call[c].user) /\ call[c].user \in users
    <2>1. j \notin used /\ row[j] = NoRow
      BY <1>3 DEF Insert, Typed, TypeOK
    <2>2. row' = [row EXCEPT ![j] = [owner |-> call[c].user, duration |-> 1,
                                     createdAt |-> now, updatedAt |-> now]]
      BY <1>3 DEF Insert
    <2>3. CASE i = j
      <3>1. Adding(i) = {}
        BY <2>1, <2>3, NoneIsNothing DEF Adding, Typed, Shape
      <3>2. Cardinality(Adding(i)') = 0
        BY <1>1, <3>1, FS_EmptySet
      <3>3. row'[i].duration = 1 /\ row'[i].createdAt = now /\ row'[i].updatedAt = now
        BY <2>2, <2>3 DEF Typed, TypeOK
      <3>4. Cardinality(Calls) * (now - now) = 0
        BY <1>1, AddingFinite
      <3>5. (1 - 1) * Interval = 0 /\ (1 - 1 + 0) * Interval = 0
        BY IntervalIs
      <3> QED
        BY <1>1, <3>2, <3>3, <3>4, <3>5 DEF Paced
    <2>4. CASE i # j
      <3>1. row'[i] = row[i]
        BY <2>2, <2>4 DEF Typed, TypeOK
      <3>2. ASSUME row[i] # NoRow, Only(i)'
            PROVE  Only(i)
        <4>1. row[i].owner \in Users /\ row[j].owner = None
          BY <2>1, <3>2, RowNumbers DEF NoRow
        <4>2. \A k \in RowIds : row[k].owner = row[i].owner =>
                  row'[k].owner = row'[i].owner
          BY <2>2, <3>1, <4>1, NoneIsNothing DEF Typed, TypeOK
        <4> QED
          BY <3>2, <4>2 DEF Only, RowsOf
      <3> QED
        BY <1>1, <3>1, <3>2, Unhurried DEF PacedInv
    <2> QED
      BY <2>3, <2>4
  <1> QED
    BY <1>2, <1>3 DEF CreateRecord

\* ... an addition does, ...
LEMMA AddPaced ==
    ASSUME Typed, PacedInv, NEW c \in Calls, AddMinute(c)
    PROVE  PacedInv'
  <1> SUFFICES ASSUME NEW i \in RowIds
               PROVE  Paced(i)'
    BY DEF PacedInv
  <1>1. /\ now' = now /\ now \in Nat
        /\ Adding(i)' = Adding(i) \ {c} /\ call[c].id \in RowIds /\ call[c].pc = "add"
    BY BoundsAreNumbers, NoneIsNothing
    DEF AddMinute, At, Finish, Idle, Adding, Typed, TypeOK, Shape
  <1>2. \A k \in RowIds : row'[k].owner = row[k].owner
    <2>1. CASE row[call[c].id] = NoRow
      BY <2>1 DEF AddMinute
    <2>2. CASE row[call[c].id] # NoRow
      BY <1>1, <2>2, AddedRow DEF Typed, TypeOK
    <2> QED
      BY <2>1, <2>2
  <1>3. Only(i)' = Only(i)
    BY <1>2 DEF Only, RowsOf
  <1>4. CASE row'[i] = row[i]
    BY <1>1, <1>3, <1>4, Unhurried DEF PacedInv
  <1>5. CASE row'[i] # row[i]
    <2>1. i = call[c].id /\ row[i] # NoRow
      BY <1>5 DEF AddMinute, Typed, TypeOK
    <2>2. /\ row'[i].duration = row[i].duration + 1
          /\ row'[i].createdAt = row[i].createdAt /\ row'[i].updatedAt = now
      BY <2>1, AddedRow DEF Typed, TypeOK
    <2> SUFFICES ASSUME Only(i)
                 PROVE  /\ (row'[i].duration - 1) * Interval
                               <= Cardinality(Calls) * (now - row[i].createdAt)
                        /\ (row'[i].duration - 1 + Cardinality(Adding(i)')) * Interval
                               <= Cardinality(Calls) * (now - row[i].createdAt)
      BY <1>1, <1>3, <2>2 DEF Paced
    <2> DEFINE n == Cardinality(Calls)
               a == now - row[i].createdAt
               d == row[i].duration - 1
               k == Cardinality(Adding(i))
               l == Cardinality(Adding(i)')
               e == row'[i].duration - 1
    <2>3. c \in Adding(i)
      BY <1>1, <2>1 DEF Adding
    <2>4. k \in Nat /\ l \in Nat /\ l = k - 1
      BY <1>1, <2>3, AddingFinite, FS_RemoveElement, FS_CardinalityType
    <2>5. (d + k) * Interval <= n * a /\ d \in Int /\ a \in Nat /\ n \in Nat
      BY <2>1, RowNumbers, AddingFinite DEF PacedInv, Paced
    <2>6. e = d + 1 /\ e + l = d + k
      BY <2>1, <2>2, <2>4, RowNumbers
    <2> HIDE DEF n, a, d, k, l, e
    <2>7. PICK one \in Nat : one = 1 /\ one <= k
      BY <2>4
    <2>8. a <= a /\ (d + one) * Interval <= n * a
      <3>1. a <= a
        BY <2>5
      <3> QED
        BY <2>4, <2>5, <2>7, <3>1, Later
    <2>9. e = d + one
      BY <2>6, <2>7
    <2>10. e * Interval <= n * a /\ (e + l) * Interval <= n * a
      BY <2>5, <2>6, <2>8, <2>9
    <2> QED
      BY <2>10 DEF n, a, l, e
  <1> QED
    BY <1>4, <1>5

\* ... and an erasure, ...
LEMMA ErasePaced ==
    ASSUME Typed, PacedInv, NEW u \in Users, DeleteAllRecords(u) \/ DeleteUser(u)
    PROVE  PacedInv'
  <1> SUFFICES ASSUME NEW i \in RowIds
               PROVE  Paced(i)'
    BY DEF PacedInv
  <1>1. /\ row' = [k \in RowIds |-> IF row[k].owner = u THEN NoRow ELSE row[k]]
        /\ now' = now /\ now \in Nat /\ Adding(i)' = Adding(i)
    BY BoundsAreNumbers DEF DeleteAllRecords, DeleteUser, Erase, Adding, Typed, TypeOK
  <1>2. CASE row[i].owner = u
    BY <1>1, <1>2 DEF Paced
  <1>3. CASE row[i].owner # u
    <2>1. row'[i] = row[i]
      BY <1>1, <1>3
    <2>2. ASSUME row[i] # NoRow
          PROVE  Only(i)' = Only(i)
      <3>1. row[i].owner \in Users
        BY <2>2, RowNumbers
      <3>2. \A k \in RowIds : row'[k].owner = row'[i].owner <=>
                               row[k].owner = row[i].owner
        BY <1>1, <1>3, <2>1, <3>1, NoneIsNothing DEF NoRow
      <3> QED
        BY <3>2 DEF Only, RowsOf
    <2> QED
      BY <1>1, <2>1, <2>2, Unhurried DEF PacedInv
  <1> QED
    BY <1>2, <1>3

\* ... and so every step.
LEMMA StepPaced == Typed /\ PacedInv /\ [Next]_vars => PacedInv'
  <1> SUFFICES ASSUME Typed, PacedInv, [Next]_vars PROVE PacedInv'
    OBVIOUS
  <1>0. now \in Nat
    BY BoundsAreNumbers DEF Typed, TypeOK
  <1>1. ASSUME row' = row, \A i \in RowIds : Adding(i)' \subseteq Adding(i),
               now' \in Nat, now <= now'
        PROVE  PacedInv'
    BY <1>1, Unhurried DEF PacedInv, Only, RowsOf
  <1>2. ASSUME NEW c \in Calls,
               CountRows(c) \/ FindRecord(c) \/ \E u \in Users : Ask(c, u)
        PROVE  PacedInv'
    <2>1. row' = row /\ now' = now
      BY <1>2 DEF CountRows, FindRecord, Ask
    <2>2. \A i \in RowIds : Adding(i)' \subseteq Adding(i)
      BY <1>2 DEF CountRows, FindRecord, Ask, Continue, Finish, Idle, Adding,
                  Typed, TypeOK
    <2> QED
      BY <1>0, <1>1, <2>1, <2>2
  <1>3. CASE Tick \/ UNCHANGED vars
    BY <1>0, <1>1, <1>3 DEF Tick, vars, Adding
  <1> QED
    BY <1>2, <1>3, LookPaced, CreatePaced, AddPaced, ErasePaced DEF Next

\* The only row of a user grows by no more than a minute for each request in
\* flight per Minute - Advantage passed, however long a request waits between
\* longerThen1min and the update it allows.
THEOREM RowsGrowAsDue == Spec => []NoFasterThanDue
  <1>1. Init => PacedInv
    BY DEF Init, PacedInv, Paced
  <1>2. PacedInv => NoFasterThanDue
    BY DEF PacedInv, Paced, Only, NoFasterThanDue, Interval
  <1> QED
    BY <1>1, <1>2, InitTyped, StepTyped, StepPaced, PTL DEF Spec
==============================================================================
