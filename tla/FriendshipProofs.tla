--------------------------- MODULE FriendshipProofs ---------------------------
(***************************************************************************)
(* Proofs about Friendship, for every set of users, moderators, columns    *)
(* and values and any number of requests in flight.                        *)
(***************************************************************************)
EXTENDS Friendship, TLAPS

\* A request names its user, and an update carries the row it will write.
Shape(k) ==
    /\ k \in CallRecord
    /\ k.op # "none" => k.user \in Users
    /\ k.op = "update" => k.other \in Fields /\ k.data \in [Fields -> Values]
    /\ k.op = "update" /\ k.pc = "hash" => k.other = Hash
    /\ k.op \in {"add", "unfriend"} => Row(k) \in Pairs

\* TypeOK without the history variables, whose types do not depend on the step.
Typed ==
    /\ account \in [Users -> {"none", "unverified", "verified", "deleted"}]
    /\ profile \in [Users -> [Fields -> Values]]
    /\ rows \in [Pairs -> {"none", "pending", "accepted"}]
    /\ call \in [Calls -> CallRecord]
    /\ \A c \in Calls : Shape(call[c])

HistoryTyped == raced \subseteq Pairs /\ overtaken \subseteq Calls

------------------------------------------------------------------------------
(* Pairs and the records that requests carry. *)

\* The opposite of a pair of users is one.
LEMMA OppositeIsPair ==
    ASSUME NEW p \in Pairs
    PROVE  Opposite(p) \in Pairs /\ Opposite(Opposite(p)) = p /\ Opposite(p) # p
  BY DEF Pairs, Opposite

\* A handler that is not running has its shape.
LEMMA IdleShape == Shape(Idle)
  BY DEF Shape, Idle, CallRecord

\* So has one of a friend request, an answer or a removal, ...
LEMMA FriendRequestShape ==
    ASSUME NEW u \in Users, NEW v \in Users, u # v,
           NEW op \in {"add", "unfriend"}, NEW pc \in {"exists", "role"}
    PROVE  Shape([Idle EXCEPT !.op = op, !.pc = pc, !.user = u, !.other = v])
  BY DEF Shape, Idle, CallRecord, Row, Pairs

\* ... of a sign-up or a deletion, ...
LEMMA AccountRequestShape ==
    ASSUME NEW u \in Users, NEW op \in {"verify", "oauth"},
           NEW pc \in {"verify", "create"}
    PROVE  Shape([Idle EXCEPT !.op = op, !.pc = pc, !.user = u])
  BY DEF Shape, Idle, CallRecord

\* ... and of a change of a user.
LEMMA UpdateShape ==
    ASSUME NEW u \in Users, NEW f \in Fields, NEW data \in [Fields -> Values]
    PROVE  Shape([op |-> "update", pc |-> "update", user |-> u, other |-> f,
                  role |-> None, data |-> data])
  BY DEF Shape, CallRecord

\* A step that replaces one handler by one of its shape keeps all shapes.
LEMMA OneCallShape ==
    ASSUME call \in [Calls -> CallRecord], \A d \in Calls : Shape(call[d]),
           NEW c \in Calls, NEW k, Shape(k), call' = [call EXCEPT ![c] = k]
    PROVE  call' \in [Calls -> CallRecord] /\ \A d \in Calls : Shape(call'[d])
  BY DEF Shape

\* A handler that goes on keeps its shape.
LEMMA ContinueShape ==
    ASSUME call \in [Calls -> CallRecord], \A d \in Calls : Shape(call[d]),
           NEW c \in Calls,
           NEW pc \in {"reverse", "insert", "erase"},
           NEW role \in {None, "sender", "receiver"},
           \/ call' = [call EXCEPT ![c].pc = pc]
           \/ call' = [call EXCEPT ![c].pc = pc, ![c].role = role]
    PROVE  call' \in [Calls -> CallRecord] /\ \A d \in Calls : Shape(call'[d])
  BY DEF Shape, CallRecord, Row

\* So does an update that has still to write a hash.
LEMMA HashShape ==
    ASSUME call \in [Calls -> CallRecord], \A d \in Calls : Shape(call[d]),
           NEW c \in Calls, call[c].other = Hash,
           call' = [call EXCEPT ![c].pc = "hash"]
    PROVE  call' \in [Calls -> CallRecord] /\ \A d \in Calls : Shape(call'[d])
  BY DEF Shape, CallRecord, Row

------------------------------------------------------------------------------
(* Types *)

\* Types at first, ...
LEMMA InitTyped == Init => Typed /\ HistoryTyped
  BY DefaultIsValue, IdleShape
  DEF Init, AccountInit, Typed, HistoryTyped, Shape

\* ... after a step about a friendship, ...
LEMMA FriendStepTyped ==
    ASSUME Typed, NEW c \in Calls, FriendStep(c)
    PROVE  Typed'
  <1> USE DEF Typed
  <1>0. Shape(call[c])
    OBVIOUS
  <1>1. CASE AddExists(c)
    BY <1>1, IdleShape, OneCallShape, ContinueShape DEF AddExists, Finish, Continue
  <1>2. CASE AddReverse(c)
    BY <1>2, IdleShape, OneCallShape, ContinueShape DEF AddReverse, Finish, Continue
  <1>3. CASE AddInsert(c)
    <2>1. Row(call[c]) \in Pairs
      BY <1>0, <1>3 DEF AddInsert, At, Shape
    <2> QED
      BY <1>3, <2>1, IdleShape, OneCallShape DEF AddInsert, Finish
  <1>4. CASE DeleteRole(c)
    BY <1>4, IdleShape, OneCallShape, ContinueShape DEF DeleteRole, Finish
  <1>5. CASE DeleteErase(c)
    BY <1>5, IdleShape, OneCallShape DEF DeleteErase, Finish
  <1>6. ASSUME NEW u \in Users, NEW v \in Users, AddAsk(c, u, v)
        PROVE  Typed'
    BY <1>6, FriendRequestShape, OneCallShape DEF AddAsk, Begin
  <1>7. ASSUME NEW u \in Users, NEW v \in Users, DeleteAsk(c, u, v)
        PROVE  Typed'
    BY <1>7, FriendRequestShape, OneCallShape DEF DeleteAsk, Begin
  <1> QED
    BY <1>1, <1>2, <1>3, <1>4, <1>5, <1>6, <1>7 DEF FriendStep

\* ... after one about an account, ...
LEMMA AccountStepTyped ==
    ASSUME Typed, NEW c \in Calls, AccountStep(c), UNCHANGED rows
    PROVE  Typed'
  <1> USE DEF Typed
  <1>0. Shape(call[c])
    OBVIOUS
  <1>1. CASE VerifyWrite(c)
    BY <1>1, IdleShape, OneCallShape DEF VerifyWrite, Finish
  <1>2. CASE OAuthCreate(c)
    BY <1>2, IdleShape, OneCallShape DEF OAuthCreate, Finish
  <1>3. CASE UpdateWrite(c)
    <2>1. call[c].user \in Users /\ call[c].data \in [Fields -> Values]
      BY <1>0, <1>3 DEF UpdateWrite, At, Shape
    <2>2. call' \in [Calls -> CallRecord] /\ \A d \in Calls : Shape(call'[d])
      <3>1. CASE call' = [call EXCEPT ![c] = Idle]
        BY <3>1, IdleShape, OneCallShape
      <3>2. CASE call[c].other = Hash /\ call' = [call EXCEPT ![c].pc = "hash"]
        BY <3>2, HashShape
      <3>3. \/ call' = [call EXCEPT ![c] = Idle]
            \/ call[c].other = Hash /\ call' = [call EXCEPT ![c].pc = "hash"]
        BY ONLY <1>3 DEF UpdateWrite, Finish, Continue
      <3> QED
        BY <3>1, <3>2, <3>3
    <2>3. profile' \in [Users -> [Fields -> Values]]
      <3> DEFINE row == [call[c].data EXCEPT ![Hash] = profile[call[c].user][Hash]]
      <3>1. row \in [Fields -> Values]
        BY <2>1, HashIsField
      <3>2. profile' = [profile EXCEPT ![call[c].user] = row] \/ profile' = profile
        BY ONLY <1>3 DEF UpdateWrite
      <3> HIDE DEF row
      <3> QED
        BY <2>1, <3>1, <3>2
    <2> QED
      BY <1>3, <2>2, <2>3 DEF UpdateWrite
  <1>7. CASE HashWrite(c)
    <2>1. call[c].user \in Users /\ call[c].data \in [Fields -> Values]
      BY <1>0, <1>7 DEF HashWrite, At, Shape
    <2>2. profile' \in [Users -> [Fields -> Values]]
      BY <1>7, <2>1, HashIsField DEF HashWrite
    <2> QED
      BY <1>7, <2>2, IdleShape, OneCallShape DEF HashWrite, Finish
  <1>4. ASSUME NEW u \in Users, VerifyRead(c, u)
        PROVE  Typed'
    BY <1>4, AccountRequestShape, OneCallShape DEF VerifyRead
  <1>5. ASSUME NEW u \in Users, OAuthFind(c, u)
        PROVE  Typed'
    BY <1>5, AccountRequestShape, OneCallShape DEF OAuthFind
  <1>6. ASSUME NEW u \in Users, NEW f \in Fields, NEW v \in Values,
               UpdateAsk(c, u, f, v)
        PROVE  Typed'
    <2>1. [profile[u] EXCEPT ![f] = v] \in [Fields -> Values]
      OBVIOUS
    <2> QED
      BY <1>6, <2>1, UpdateShape, OneCallShape DEF UpdateAsk, Begin
  <1> QED
    BY <1>1, <1>2, <1>3, <1>4, <1>5, <1>6, <1>7 DEF AccountStep

\* ... after a change of a user, ...
LEMMA UserStepTyped ==
    ASSUME Typed,
           \/ \E u \in Users : Signup(u) /\ UNCHANGED rows
           \/ \E u \in Users : DeleteUser(u)
           \/ \E u, v \in Users : Accept(u, v)
    PROVE  Typed'
  <1> USE DEF Typed
  <1>1. ASSUME NEW u \in Users, Signup(u), UNCHANGED rows
        PROVE  Typed'
    BY <1>1 DEF Signup, Shape, Row, Pairs
  <1>2. ASSUME NEW u \in Users, DeleteUser(u)
        PROVE  Typed'
    BY <1>2 DEF DeleteUser, DeleteRow, Shape, Row, Pairs
  <1>3. ASSUME NEW u \in Users, NEW v \in Users, Accept(u, v)
        PROVE  Typed'
    BY <1>3 DEF Accept, Shape, Row
  <1> QED
    BY <1>1, <1>2, <1>3

\* ... and so after every step.
LEMMA StepTyped == Typed /\ [Next]_vars => Typed'
  <1> SUFFICES ASSUME Typed, [Next]_vars PROVE Typed'
    OBVIOUS
  <1>1. CASE Step
    BY <1>1, FriendStepTyped, AccountStepTyped, UserStepTyped DEF Step
  <1>2. CASE UNCHANGED vars
    BY <1>2 DEF vars, Typed, Shape, Row
  <1> QED
    BY <1>1, <1>2 DEF Next

\* The history variables keep their types.
LEMMA StepHistoryTyped == HistoryTyped /\ [Next]_vars => HistoryTyped'
  BY DEF HistoryTyped, Next, History, vars

\* The variables keep their types, and no request is about the user itself.
THEOREM TypeCorrect == Spec => []TypeOK
  <1>1. Typed /\ HistoryTyped => TypeOK
    BY DEF Typed, HistoryTyped, TypeOK, Shape
  <1> QED
    BY <1>1, InitTyped, StepTyped, StepHistoryTyped, PTL DEF Spec

------------------------------------------------------------------------------
(* Two rows between two users.  A request that is about to insert, with the *)
(* opposite row in place, was in flight together with the one that inserted *)
(* that row; whatever else a step does, it brings no row and no such        *)
(* request.                                                                 *)

InFlightTogether ==
    \A c, d \in Calls, p \in Pairs :
        Adding(call[c], p) /\ Adding(call[d], Opposite(p)) => p \in raced

RacedBothWays == \A p \in Pairs : p \in raced => Opposite(p) \in raced

LateInsert ==
    \A c \in Calls : /\ At(c, "add", "insert")
                     /\ rows[Opposite(Row(call[c]))] # "none"
                     => Row(call[c]) \in raced

RaceInv ==
    InFlightTogether /\ RacedBothWays /\ LateInsert /\ MutualOnlyByRace

\* A step inserts no row, and takes a request to its insert only when the
\* opposite row is absent.
Quiet ==
    /\ \A p \in Pairs : rows'[p] # "none" => rows[p] # "none"
    /\ \A c \in Calls : At(c, "add", "insert")' =>
          \/ call'[c] = call[c]
          \/ rows[Opposite(Row(call'[c]))] = "none"

\* The steps about a friendship are quiet, but for the insert itself, ...
LEMMA FriendStepQuiet ==
    ASSUME Typed, NEW c \in Calls, FriendStep(c)
    PROVE  Quiet \/ AddInsert(c)
  <1> USE DEF Typed
  <1>1. CASE AddExists(c)
    BY <1>1 DEF AddExists, Continue, Finish, Idle, At, Quiet, CallRecord
  <1>2. CASE AddReverse(c)
    <2>1. CASE rows[Opposite(Row(call[c]))] = "none"
      <3>1. Row(call'[c]) = Row(call[c])
        BY <1>2, <2>1 DEF AddReverse, Continue, CallRecord, Row
      <3> QED
        BY <1>2, <2>1, <3>1 DEF AddReverse, Continue, At, Quiet
    <2>2. CASE rows[Opposite(Row(call[c]))] # "none"
      BY <1>2, <2>2 DEF AddReverse, Finish, Idle, At, Quiet
    <2> QED
      BY <2>1, <2>2
  <1>3. CASE DeleteRole(c)
    BY <1>3 DEF DeleteRole, Finish, Idle, At, Quiet, CallRecord
  <1>4. CASE DeleteErase(c)
    BY <1>4 DEF DeleteErase, Finish, Idle, At, Quiet
  <1>5. ASSUME NEW u \in Users, NEW v \in Users, AddAsk(c, u, v)
        PROVE  Quiet
    BY <1>5 DEF AddAsk, Begin, Idle, At, Quiet
  <1>6. ASSUME NEW u \in Users, NEW v \in Users, DeleteAsk(c, u, v)
        PROVE  Quiet
    BY <1>6 DEF DeleteAsk, Begin, Idle, At, Quiet
  <1> QED
    BY <1>1, <1>2, <1>3, <1>4, <1>5, <1>6 DEF FriendStep

\* ... those about an account are, ...
LEMMA AccountStepQuiet ==
    ASSUME Typed, NEW c \in Calls, AccountStep(c), UNCHANGED rows
    PROVE  Quiet
  <1> USE DEF Typed, Idle, At, Quiet
  <1>1. CASE VerifyWrite(c) \/ OAuthCreate(c) \/ HashWrite(c)
    BY <1>1 DEF VerifyWrite, OAuthCreate, HashWrite, Finish
  <1>4. CASE UpdateWrite(c)
    BY <1>4 DEF UpdateWrite, Finish, Continue, CallRecord
  <1>2. ASSUME NEW u \in Users, VerifyRead(c, u) \/ OAuthFind(c, u)
        PROVE  Quiet
    BY <1>2 DEF VerifyRead, OAuthFind
  <1>3. ASSUME NEW u \in Users, NEW f \in Fields, NEW v \in Values,
               UpdateAsk(c, u, f, v)
        PROVE  Quiet
    BY <1>3 DEF UpdateAsk, Begin
  <1> QED
    BY <1>1, <1>2, <1>3, <1>4 DEF AccountStep

\* ... and so every step but an insert is.
LEMMA StepQuiet ==
    ASSUME Typed, [Next]_vars
    PROVE  Quiet \/ \E c \in Calls : AddInsert(c)
  <1>1. ASSUME NEW u \in Users, Signup(u), UNCHANGED rows
        PROVE  Quiet
    BY <1>1 DEF Signup, Quiet, At
  <1>2. ASSUME NEW u \in Users, DeleteUser(u)
        PROVE  Quiet
    BY <1>2 DEF DeleteUser, DeleteRow, Quiet, At
  <1>3. ASSUME NEW u \in Users, NEW v \in Users, Accept(u, v)
        PROVE  Quiet
    BY <1>3 DEF Accept, Quiet, At, Typed
  <1>4. CASE UNCHANGED vars
    BY <1>4 DEF vars, Quiet, At
  <1> QED
    BY <1>1, <1>2, <1>3, <1>4, FriendStepQuiet, AccountStepQuiet DEF Next, Step

\* Requests that are in flight together have raced, both ways, and stay so.
LEMMA StepHistory ==
    ASSUME [Next]_vars, HistoryTyped, RaceInv
    PROVE  raced \subseteq raced' /\ InFlightTogether' /\ RacedBothWays'
  <1>1. CASE UNCHANGED vars
    BY <1>1 DEF RaceInv, vars, InFlightTogether, RacedBothWays, Adding, Row
  <1>2. CASE Next
    <2>1. raced' = raced \cup {p \in Pairs : \E c, d \in Calls :
                                 /\ Adding(call'[c], p)
                                 /\ Adding(call'[d], Opposite(p))}
      BY <1>2 DEF Next, History
    <2>2. InFlightTogether'
      BY <2>1 DEF InFlightTogether, Adding
    <2>3. ASSUME NEW p \in Pairs, p \in raced'
          PROVE  Opposite(p) \in raced'
      BY <2>1, <2>3, OppositeIsPair DEF RaceInv, RacedBothWays
    <2> QED
      BY <2>1, <2>2, <2>3 DEF RacedBothWays
  <1> QED
    BY <1>1, <1>2

\* The invariant about mutual rows is kept.
LEMMA StepRace == Typed /\ HistoryTyped /\ RaceInv /\ [Next]_vars => RaceInv'
  <1> SUFFICES ASSUME Typed, HistoryTyped, RaceInv, [Next]_vars PROVE RaceInv'
    OBVIOUS
  <1>1. raced \subseteq raced' /\ InFlightTogether' /\ RacedBothWays'
    BY StepHistory
  <1>t. Typed'
    BY StepTyped
  <1>2. CASE Quiet
    <2>1. ASSUME NEW c \in Calls, At(c, "add", "insert")',
                 rows'[Opposite(Row(call'[c]))] # "none"
          PROVE  Row(call'[c]) \in raced'
      <3>1. Row(call'[c]) \in Pairs
        BY <1>t, <2>1 DEF Typed, Shape, At
      <3>2. rows[Opposite(Row(call'[c]))] # "none"
        BY <1>2, <2>1, <3>1, OppositeIsPair DEF Quiet
      <3>3. call'[c] = call[c]
        BY <1>2, <2>1, <3>2 DEF Quiet
      <3> QED
        BY <1>1, <2>1, <3>2, <3>3 DEF RaceInv, LateInsert, At, Row
    <2>2. MutualOnlyByRace'
      BY <1>1, <1>2, OppositeIsPair DEF RaceInv, MutualOnlyByRace, Quiet
    <2> QED
      BY <1>1, <2>1, <2>2 DEF RaceInv, LateInsert, Row
  <1>3. ASSUME NEW c \in Calls, AddInsert(c)
        PROVE  RaceInv'
    <2> DEFINE q == Row(call[c])
    <2>1. q \in Pairs /\ Adding(call[c], q) /\ At(c, "add", "insert")
      BY <1>3 DEF AddInsert, At, Typed, Shape, Adding
    <2>2. \A p \in Pairs : rows'[p] # "none" => rows[p] # "none" \/ p = q
      BY <1>3, <2>1 DEF AddInsert, Typed
    <2>3. \A d \in Calls : At(d, "add", "insert")' => call'[d] = call[d]
      BY <1>3 DEF AddInsert, Finish, Idle, At, Typed
    <2>4. ASSUME NEW d \in Calls, At(d, "add", "insert")',
                 rows'[Opposite(Row(call'[d]))] # "none"
          PROVE  Row(call'[d]) \in raced'
      <3> DEFINE p == Row(call[d])
      <3>1. call'[d] = call[d] /\ At(d, "add", "insert")
        BY <2>3, <2>4 DEF At
      <3>2. p \in Pairs /\ Adding(call[d], p)
        BY <3>1 DEF At, Typed, Shape, Adding
      <3>3. Row(call'[d]) = p
        BY <3>1
      <3>4. rows[Opposite(p)] # "none" \/ Opposite(p) = q
        BY <2>2, <2>4, <3>2, <3>3, OppositeIsPair
      <3>5. CASE Opposite(p) = q
        BY <1>1, <2>1, <3>2, <3>3, <3>5 DEF RaceInv, InFlightTogether
      <3>6. CASE rows[Opposite(p)] # "none"
        BY <1>1, <3>1, <3>3, <3>6 DEF RaceInv, LateInsert
      <3> QED
        BY <3>4, <3>5, <3>6
    <2>5. ASSUME NEW p \in Pairs, rows'[p] # "none", rows'[Opposite(p)] # "none"
          PROVE  p \in raced'
      <3>1. Opposite(p) \in Pairs /\ Opposite(Opposite(p)) = p /\ Opposite(p) # p
        BY OppositeIsPair
      <3>2. CASE p = q
        <4>1. rows[Opposite(q)] # "none"
          BY <2>2, <2>5, <3>1, <3>2
        <4> QED
          BY <1>1, <2>1, <3>2, <4>1 DEF RaceInv, LateInsert
      <3>3. CASE Opposite(p) = q
        <4>1. rows[Opposite(q)] # "none"
          BY <2>2, <2>5, <3>1, <3>3
        <4>2. q \in raced
          BY <2>1, <4>1 DEF RaceInv, LateInsert
        <4> QED
          BY <1>1, <2>1, <3>1, <3>3, <4>2 DEF RaceInv, RacedBothWays
      <3>4. CASE p # q /\ Opposite(p) # q
        BY <1>1, <2>2, <2>5, <3>1, <3>4 DEF RaceInv, MutualOnlyByRace
      <3> QED
        BY <3>2, <3>3, <3>4
    <2> QED
      BY <1>1, <2>4, <2>5 DEF RaceInv, LateInsert, MutualOnlyByRace, Row
  <1> QED
    BY <1>2, <1>3, StepQuiet

\* It holds at first.
LEMMA InitRace == Init => RaceInv
  BY OppositeIsPair
  DEF Init, AccountInit, RaceInv, InFlightTogether, RacedBothWays, LateInsert,
      MutualOnlyByRace, Adding, At, Idle

\* Two users have two rows only if their requests to each other were in flight
\* together: the check for the opposite row in addFriend fails in no other way.
THEOREM MutualRowsRaced == Spec => []MutualOnlyByRace
  <1>1. RaceInv => MutualOnlyByRace
    BY DEF RaceInv
  <1> QED
    BY <1>1, InitTyped, StepTyped, StepHistoryTyped, InitRace, StepRace, PTL
    DEF Spec

------------------------------------------------------------------------------
(* A carried-out deletion. *)

\* A step of one request leaves the others where they are.
LEMMA OneAtATime ==
    ASSUME Typed, NEW d \in Calls, FriendStep(d) \/ AccountStep(d),
           NEW c \in Calls, c # d
    PROVE  call'[c] = call[c]
  <1> USE DEF Typed
  <1>1. CASE FriendStep(d)
    BY <1>1 DEF FriendStep, AddExists, AddReverse, AddInsert, DeleteRole,
                DeleteErase, AddAsk, DeleteAsk, Begin, Continue, Finish
  <1>2. CASE AccountStep(d)
    BY <1>2 DEF AccountStep, VerifyWrite, OAuthCreate, UpdateWrite, HashWrite,
                VerifyRead, OAuthFind, UpdateAsk, Begin, Continue, Finish
  <1> QED
    BY <1>1, <1>2

\* A step that changes a request is that request's own.
LEMMA OwnStep ==
    ASSUME Typed, [Next]_vars, NEW c \in Calls, call'[c] # call[c]
    PROVE  FriendStep(c) \/ AccountStep(c)
  BY OneAtATime DEF Next, Step, vars, Signup, DeleteUser, DeleteRow, Accept

\* Only the erasing statement ends a request that has reached it.
LEMMA EraseEnds ==
    ASSUME Typed, [Next]_vars, NEW c \in Calls, At(c, "unfriend", "erase"),
           call'[c] = Idle
    PROVE  DeleteErase(c)
  <1>1. call[c].op = "unfriend" /\ call[c].pc = "erase" /\ call[c] # Idle
    BY DEF At, Idle
  <1>2. FriendStep(c) \/ AccountStep(c)
    BY <1>1, OwnStep
  <1>3. ~AccountStep(c)
    BY <1>1 DEF AccountStep, VerifyWrite, OAuthCreate, UpdateWrite, HashWrite,
                VerifyRead, OAuthFind, UpdateAsk, Begin, At
  <1> QED
    BY <1>1, <1>2, <1>3
    DEF FriendStep, AddExists, AddReverse, AddInsert, DeleteRole, AddAsk,
        DeleteAsk, Begin, At

\* A deletion that is carried out leaves no row between the two users,
\* whichever role checkRole found, unless their requests had raced.
THEOREM DeletionsAreComplete == Spec => CleanDelete
  <1> DEFINE Clean(c) ==
        LET p == Row(call[c]) IN
        \/ p \in raced
        \/ rows[Erased(call[c])] = "none"
        \/ rows'[p] = "none" /\ rows'[Opposite(p)] = "none"
  <1>1. ASSUME Typed, RaceInv, [Next]_vars,
               NEW c \in Calls, At(c, "unfriend", "erase"), call'[c] = Idle
        PROVE  Clean(c)
    <2> DEFINE p == Row(call[c])
               e == Erased(call[c])
    <2>1. p \in Pairs /\ Opposite(p) \in Pairs /\ Opposite(Opposite(p)) = p
      BY <1>1, OppositeIsPair DEF Typed, Shape, At
    <2>2. e = p \/ e = Opposite(p)
      BY DEF Erased
    <2>3. rows' = [rows EXCEPT ![e] = "none"]
      BY <1>1, EraseEnds DEF DeleteErase
    <2>4. rows[p] = "none" \/ rows[Opposite(p)] = "none" \/ p \in raced
      BY <1>1, <2>1 DEF RaceInv, MutualOnlyByRace
    <2> QED
      BY <1>1, <2>1, <2>2, <2>3, <2>4 DEF Typed
  <1>2. Typed /\ RaceInv /\ [Next]_vars =>
            \A c \in Calls : At(c, "unfriend", "erase") /\ call'[c] = Idle => Clean(c)
    BY <1>1
  <1>3. Typed /\ RaceInv /\ [Next]_vars =>
            [\A c \in Calls : At(c, "unfriend", "erase") /\ call'[c] = Idle =>
                 Clean(c)]_vars
    BY <1>2
  <1> QED
    BY <1>3, InitTyped, StepTyped, StepHistoryTyped, InitRace, StepRace, PTL
    DEF Spec, CleanDelete

------------------------------------------------------------------------------
(* Rows of users who are gone. *)

\* Only the deletion of a user ends its existence.
LEMMA UsersStay ==
    ASSUME Typed, [Next]_vars
    PROVE  \/ \E u \in Users : DeleteUser(u)
           \/ \A u \in Users : Exists(u) => Exists(u)'
  <1> USE DEF Typed, Exists
  <1>1. ASSUME NEW c \in Calls, FriendStep(c)
        PROVE  account' = account
    BY <1>1 DEF FriendStep, AddExists, AddReverse, AddInsert, DeleteRole,
                DeleteErase, AddAsk, DeleteAsk
  <1>2. ASSUME NEW c \in Calls, AccountStep(c)
        PROVE  \A u \in Users : Exists(u) => Exists(u)'
    BY <1>2 DEF AccountStep, VerifyWrite, OAuthCreate, UpdateWrite, HashWrite,
                VerifyRead, OAuthFind, UpdateAsk
  <1> QED
    BY <1>1, <1>2 DEF Next, Step, vars, Signup, Accept

\* No row outlives its users.
LEMMA StepOrphans == Typed /\ NoOrphans /\ [Next]_vars => NoOrphans'
  <1> SUFFICES ASSUME Typed, NoOrphans, [Next]_vars PROVE NoOrphans'
    OBVIOUS
  <1> USE DEF Typed
  <1>1. ASSUME NEW u \in Users, DeleteUser(u)
        PROVE  NoOrphans'
    BY <1>1 DEF DeleteUser, DeleteRow, NoOrphans, Exists, Pairs
  <1>2. CASE Quiet /\ \A u \in Users : Exists(u) => Exists(u)'
    BY <1>2 DEF Quiet, NoOrphans, Pairs
  <1>3. ASSUME NEW c \in Calls, AddInsert(c)
        PROVE  NoOrphans'
    <2>1. account' = account /\ Row(call[c]) \in Pairs
      BY <1>3 DEF AddInsert, At, Shape
    <2> QED
      BY <1>3, <2>1 DEF AddInsert, NoOrphans, Exists
  <1> QED
    BY <1>1, <1>2, <1>3, StepQuiet, UsersStay

\* A friendship never refers to a user who is gone: the insert checks both
\* foreign keys, and both of them cascade.
THEOREM RowsHaveUsers == Spec => []NoOrphans
  <1>1. Init => NoOrphans
    BY DEF Init, NoOrphans
  <1> QED
    BY <1>1, InitTyped, StepTyped, StepOrphans, PTL DEF Spec

------------------------------------------------------------------------------
(* Updates.  The row that an update carries is the row as it is, except for *)
(* the column it changes, until somebody else's write overtakes it.         *)

CarriesRow ==
    \A c \in Calls : call[c].op = "update" /\ c \notin overtaken =>
        \A f \in Fields \ {call[c].other} :
            call[c].data[f] = profile[call[c].user][f]

\* A request becomes an update in UpdateAsk only, and stays one in between its
\* two statements.
LEMMA UpdateBegins ==
    ASSUME Typed, [Next]_vars, NEW c \in Calls, call'[c].op = "update",
           call'[c] # call[c]
    PROVE  \/ \E u \in Users, f \in Fields, v \in Values : UpdateAsk(c, u, f, v)
           \/ /\ UpdateWrite(c) /\ call[c].other = Hash
              /\ call' = [call EXCEPT ![c].pc = "hash"]
              /\ profile' = [profile EXCEPT ![call[c].user] =
                                 [call[c].data EXCEPT ![Hash] = profile[call[c].user][Hash]]]
  <1> USE DEF Typed, Idle
  <1>1. FriendStep(c) \/ AccountStep(c)
    BY OwnStep
  <1>2. ~Finish(c)
    BY DEF Finish
  <1>3. ASSUME At(c, "add", "exists") \/ At(c, "add", "reverse"),
               NEW pc, Continue(c, pc)
        PROVE  FALSE
    BY <1>3 DEF At, Continue, CallRecord
  <1>4. ~DeleteRole(c)
    BY <1>2 DEF DeleteRole, At, CallRecord
  <1>5. ASSUME NEW u \in Users, NEW v \in Users, AddAsk(c, u, v) \/ DeleteAsk(c, u, v)
        PROVE  FALSE
    BY <1>5 DEF AddAsk, DeleteAsk, Begin
  <1>6. ~FriendStep(c)
    BY <1>2, <1>3, <1>4, <1>5
    DEF FriendStep, AddExists, AddReverse, AddInsert, DeleteErase
  <1>7. ASSUME NEW u \in Users, VerifyRead(c, u) \/ OAuthFind(c, u)
        PROVE  FALSE
    BY <1>7 DEF VerifyRead, OAuthFind
  <1> QED
    BY <1>1, <1>2, <1>6, <1>7
    DEF AccountStep, VerifyWrite, OAuthCreate, UpdateWrite, HashWrite, Continue

\* A change carries the row it has read.
LEMMA StepCarries == Typed /\ CarriesRow /\ [Next]_vars => CarriesRow'
  <1> SUFFICES ASSUME Typed, CarriesRow, [Next]_vars,
                      NEW c \in Calls, call'[c].op = "update", c \notin overtaken',
                      NEW f \in Fields, f # call'[c].other
               PROVE  call'[c].data[f] = profile'[call'[c].user][f]
    BY DEF CarriesRow
  <1>1. CASE call'[c] = call[c]
    <2>1. CASE UNCHANGED vars
      BY <1>1, <2>1 DEF vars, CarriesRow
    <2>2. CASE Next
      <3>1. c \notin overtaken /\ profile'[call[c].user] = profile[call[c].user]
        BY <1>1, <2>2 DEF Next, History
      <3> QED
        BY <1>1, <3>1 DEF CarriesRow
    <2> QED
      BY <2>1, <2>2
  <1>2. CASE call'[c] # call[c] /\ UpdateWrite(c)
    <2>1. /\ call' = [call EXCEPT ![c].pc = "hash"]
          /\ profile' = [profile EXCEPT ![call[c].user] =
                             [call[c].data EXCEPT ![Hash] = profile[call[c].user][Hash]]]
          /\ call[c].other = Hash
      BY <1>2, UpdateBegins DEF UpdateAsk, Begin, UpdateWrite, At, Idle
    <2>2. call[c].user \in Users /\ call[c].data \in [Fields -> Values]
      BY <1>2 DEF Typed, Shape, UpdateWrite, At
    <2>3. /\ call'[c].data = call[c].data /\ call'[c].user = call[c].user
          /\ call'[c].other = call[c].other
      BY <2>1 DEF Typed, CallRecord
    <2> QED
      BY <2>1, <2>2, <2>3 DEF Typed
  <1>3. CASE call'[c] # call[c] /\ ~UpdateWrite(c)
    <2>1. PICK u \in Users, g \in Fields, v \in Values : UpdateAsk(c, u, g, v)
      BY <1>3, UpdateBegins
    <2>2. /\ call'[c] = [op |-> "update", pc |-> "update", user |-> u, other |-> g,
                         role |-> None, data |-> [profile[u] EXCEPT ![g] = v]]
          /\ profile' = profile
      BY <2>1 DEF UpdateAsk, Begin, Typed
    <2> QED
      BY <2>2 DEF Typed
  <1> QED
    BY <1>1, <1>2, <1>3

\* An update of one column leaves the others as they are, unless another update
\* of the user was written after this one's guard had read the row; and nothing
\* but a new password replaces the hash, even then.
THEOREM UpdatesAreClean == Spec => CleanUpdate
  <1> DEFINE Kept(c) == \A f \in Fields \ {call[c].other} :
        \/ c \in overtaken /\ f # Hash
        \/ profile'[call[c].user][f] = profile[call[c].user][f]
  <1>1. ASSUME Typed, CarriesRow, NEW c \in Calls, UpdateWrite(c)
        PROVE  Kept(c)
    <2>1. call[c].user \in Users /\ call[c].op = "update"
          /\ call[c].data \in [Fields -> Values]
      BY <1>1 DEF Typed, Shape, UpdateWrite, At
    <2> QED
      BY <1>1, <2>1 DEF Typed, CarriesRow, UpdateWrite
  <1>2. ASSUME Typed, NEW c \in Calls, HashWrite(c)
        PROVE  Kept(c)
    <2>1. call[c].user \in Users
      BY <1>2 DEF Typed, Shape, HashWrite, At
    <2>2. ASSUME NEW f \in Fields, f # Hash
          PROVE  profile'[call[c].user][f] = profile[call[c].user][f]
      BY <1>2, <2>1, <2>2 DEF Typed, HashWrite
    <2> QED
      BY <1>2, <2>2 DEF Typed, Shape, HashWrite, At
  <1>3. Typed /\ CarriesRow =>
            [\A c \in Calls : UpdateWrite(c) \/ HashWrite(c) => Kept(c)]_vars
    BY <1>1, <1>2
  <1>4. Init => CarriesRow
    BY DEF Init, AccountInit, CarriesRow, Idle
  <1> QED
    BY <1>3, <1>4, InitTyped, StepTyped, StepCarries, PTL DEF Spec, CleanUpdate
==============================================================================
