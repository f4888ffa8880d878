----------------------------- MODULE Friendship -----------------------------
(***************************************************************************)
(* The `friendships` table: a row (from, to) is a request of `from`,       *)
(* pending until `to` accepts it.  The service checks for the opposite     *)
(* row before it inserts one, and finds out which of the two exists before *)
(* it deletes one, each in statements of its own.  Two history variables   *)
(* tell which requests met another one on their way.                       *)
(***************************************************************************)
EXTENDS Accounts

VARIABLES
    rows,       \* status of the row (from, to), or "none"
    raced,      \* history: pairs whose opposite requests were in flight together
    overtaken   \* history: updates whose profile changed after they read it

vars == <<account, profile, call, rows, raced, overtaken>>

Pairs == {p \in Users \X Users : p[1] # p[2]}
Row(k) == <<k.user, k.other>>
Opposite(p) == <<p[2], p[1]>>
Erased(k) == IF k.role = "sender" THEN Row(k) ELSE Opposite(Row(k))

------------------------------------------------------------------------------
\* addFriend

\* Mutant of AddAsk: a user may be its own friend.
AddAskAnyone(c, u, v) ==
    /\ Begin(c, [Idle EXCEPT !.op = "add", !.pc = "exists", !.user = u,
                             !.other = v])
    /\ UNCHANGED <<account, profile, rows>>

AddAsk(c, u, v) ==
    /\ u # v
    /\ Begin(c, [Idle EXCEPT !.op = "add", !.pc = "exists", !.user = u,
                             !.other = v])
    /\ UNCHANGED <<account, profile, rows>>

\* validateAddFriendParams
AddExists(c) ==
    /\ At(c, "add", "exists")
    /\ IF Exists(call[c].other) THEN Continue(c, "reverse") ELSE Finish(c)
    /\ UNCHANGED <<account, profile, rows>>

\* Mutant of AddReverse: the check counts the user's own requests.
AddReverseOwn(c) ==
    /\ At(c, "add", "reverse")
    /\ IF rows[Row(call[c])] = "none" THEN Continue(c, "insert") ELSE Finish(c)
    /\ UNCHANGED <<account, profile, rows>>

\* checkIfFriendshipExists
AddReverse(c) ==
    /\ At(c, "add", "reverse")
    /\ IF rows[Opposite(Row(call[c]))] = "none" THEN Continue(c, "insert")
       ELSE Finish(c)
    /\ UNCHANGED <<account, profile, rows>>

\* createFriendship: refused by the key or by a foreign key.
AddInsert(c) ==
    LET p == Row(call[c]) IN
    /\ At(c, "add", "insert")
    /\ rows' = IF rows[p] = "none" /\ Exists(p[1]) /\ Exists(p[2])
               THEN [rows EXCEPT ![p] = "pending"] ELSE rows
    /\ Finish(c)
    /\ UNCHANGED <<account, profile>>

------------------------------------------------------------------------------
\* acceptFriendRequest, of the row (v, u): one statement.
Accept(u, v) ==
    /\ u # v
    /\ account[u] = "verified"
    /\ rows[<<v, u>>] # "none"
    /\ rows' = [rows EXCEPT ![<<v, u>>] = "accepted"]
    /\ UNCHANGED <<account, profile, call>>

------------------------------------------------------------------------------
\* deleteFriendshipByFriendUid

DeleteAsk(c, u, v) ==
    /\ u # v
    /\ Begin(c, [Idle EXCEPT !.op = "unfriend", !.pc = "role", !.user = u,
                             !.other = v])
    /\ UNCHANGED <<account, profile, rows>>

\* checkRole: findFirstOrThrow returns either direction's row.
DeleteRole(c) ==
    LET p == Row(call[c]) IN
    /\ At(c, "unfriend", "role")
    /\ \/ /\ rows[p] # "none"
          /\ call' = [call EXCEPT ![c].pc = "erase", ![c].role = "sender"]
       \/ /\ rows[Opposite(p)] # "none"
          /\ call' = [call EXCEPT ![c].pc = "erase", ![c].role = "receiver"]
       \/ /\ rows[p] = "none" /\ rows[Opposite(p)] = "none"
          /\ Finish(c)
    /\ UNCHANGED <<account, profile, rows>>

\* Mutant of DeleteErase: the receiver's branch uses the sender's key.
DeleteEraseOwn(c) ==
    /\ At(c, "unfriend", "erase")
    /\ rows' = [rows EXCEPT ![Row(call[c])] = "none"]
    /\ Finish(c)
    /\ UNCHANGED <<account, profile>>

\* The row's deletion; if it is gone by now the statement is refused.
DeleteErase(c) ==
    /\ At(c, "unfriend", "erase")
    /\ rows' = [rows EXCEPT ![Erased(call[c])] = "none"]
    /\ Finish(c)
    /\ UNCHANGED <<account, profile>>

------------------------------------------------------------------------------
\* Mutant of DeleteUser: the friendships' foreign keys do not cascade.
DeleteUserOnly(u) == DeleteRow(u) /\ UNCHANGED rows

\* Both foreign keys of a friendship cascade.
DeleteUser(u) ==
    /\ DeleteRow(u)
    /\ rows' = [p \in Pairs |-> IF u \in {p[1], p[2]} THEN "none" ELSE rows[p]]

------------------------------------------------------------------------------
Adding(k, p) == k.op = "add" /\ Row(k) = p

History ==
    /\ raced' = raced \cup {p \in Pairs : \E c, d \in Calls :
                              /\ Adding(call'[c], p)
                              /\ Adding(call'[d], Opposite(p))}
    /\ overtaken' = {c \in Calls : /\ call'[c].op = "update"
                                   /\ \/ c \in overtaken
                                      \/ /\ call[c] = call'[c]
                                         /\ profile'[call[c].user] # profile[call[c].user]}

Init ==
    /\ AccountInit
    /\ rows = [p \in Pairs |-> "none"]
    /\ raced = {} /\ overtaken = {}

FriendStep(c) ==
    \/ AddExists(c) \/ AddReverse(c) \/ AddInsert(c)
    \/ DeleteRole(c) \/ DeleteErase(c)
    \/ \E u, v \in Users : AddAsk(c, u, v) \/ DeleteAsk(c, u, v)

Step ==
    \/ \E c \in Calls : FriendStep(c)
    \/ \E c \in Calls : AccountStep(c) /\ UNCHANGED rows
    \/ \E u \in Users : Signup(u) /\ UNCHANGED rows
    \/ \E u \in Users : DeleteUser(u)
    \/ \E u, v \in Users : Accept(u, v)

Next == Step /\ History
Spec == Init /\ [][Next]_vars

------------------------------------------------------------------------------
CallRecord ==
    [op: {"none", "verify", "oauth", "update", "add", "unfriend"},
     pc: {"idle", "verify", "create", "update", "hash", "exists", "reverse", "insert",
          "role", "erase"},
     user: Users \cup {None}, other: Users \cup Fields \cup {None},
     role: {None, "sender", "receiver"},
     data: {None} \cup [Fields -> Values]]

\* The variables stay in their types; no request is about the user itself.
TypeOK ==
    /\ account \in [Users -> {"none", "unverified", "verified", "deleted"}]
    /\ profile \in [Users -> [Fields -> Values]]
    /\ call \in [Calls -> CallRecord]
    /\ rows \in [Pairs -> {"none", "pending", "accepted"}]
    /\ raced \subseteq Pairs
    /\ overtaken \subseteq Calls
    /\ \A c \in Calls : call[c].op \in {"add", "unfriend"} => Row(call[c]) \in Pairs

\* Two users have two rows only if their requests to each other were in
\* flight together: the check for the opposite row fails in no other way.
MutualOnlyByRace ==
    \A p \in Pairs : rows[p] # "none" /\ rows[Opposite(p)] # "none" => p \in raced

\* A friendship never refers to a user who is gone, even if the user goes
\* while the request is between its checks and its insert.
NoOrphans == \A p \in Pairs : rows[p] # "none" => Exists(p[1]) /\ Exists(p[2])

\* A deletion that is carried out leaves no row between the two users,
\* whichever of them had asked for the friendship, unless they had raced.
CleanDelete ==
    [][\A c \in Calls : At(c, "unfriend", "erase") /\ call'[c] = Idle =>
          LET p == Row(call[c]) IN
          \/ p \in raced
          \/ rows[Erased(call[c])] = "none"
          \/ rows'[p] = "none" /\ rows'[Opposite(p)] = "none"]_vars

\* An update of one column leaves the others as they are, unless another
\* update was written after this one had read the row; and nothing but a new
\* password replaces the hash, even then.
CleanUpdate ==
    [][\A c \in Calls : UpdateWrite(c) \/ HashWrite(c) =>
          \A f \in Fields \ {call[c].other} :
              \/ c \in overtaken /\ f # Hash
              \/ profile'[call[c].user][f] = profile[call[c].user][f]]_vars

==============================================================================
