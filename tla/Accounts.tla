------------------------------ MODULE Accounts ------------------------------
(***************************************************************************)
(* The `users` table under concurrent requests: signup and verification,   *)
(* the first login through an OAuth provider, changes of the profile.      *)
(* As in RoomGateway `call` holds one record per request in flight; its    *)
(* `pc` names the statement that comes next:                               *)
(*                                                                         *)
(*   verify    checkSignupVerificationToken: the token was right           *)
(*   create    OAuth: no row with the provider's id was found              *)
(*   update    updateUser: the guard has read the user's row               *)
(*   hash      updateUser: a new password's hash is still to be written    *)
(*   exists, reverse, insert      addFriend (module Friendship)            *)
(*   role, erase                  deleteFriendship (module Friendship)     *)
(*                                                                         *)
(* A uid is used once.  A request of one statement is one action.          *)
(***************************************************************************)
EXTENDS FiniteSets

CONSTANTS
    Users,      \* uids; u stands also for the e-mail address of its owner
    Calls,      \* bound: requests that can be in flight together
    None,
    Fields,     \* columns of the profile
    Hash,       \* the column of the password's hash
    Values,     \* bound: what a column can hold
    Default,    \* what it holds at first
    Moderators  \* users who moderate a room

ASSUME NoneIsNobody == None \notin Users
ASSUME HashIsField == Hash \in Fields
ASSUME DefaultIsValue == Default \in Values
ASSUME ModeratorsAreUsers == Moderators \subseteq Users

VARIABLES
    account,    \* none, unverified, verified or deleted
    profile,    \* the columns of each user's row
    call        \* the requests in flight

Idle == [op |-> "none", pc |-> "idle", user |-> None, other |-> None,
         role |-> None, data |-> None]

Exists(u) == account[u] \in {"unverified", "verified"}

\* JwtGuard: only a verified user gets past it.
Begin(c, k) == /\ call[c] = Idle
               /\ account[k.user] = "verified"
               /\ call' = [call EXCEPT ![c] = k]
At(c, op, pc) == call[c].op = op /\ call[c].pc = pc
Continue(c, pc) == call' = [call EXCEPT ![c].pc = pc]
Finish(c) == call' = [call EXCEPT ![c] = Idle]

------------------------------------------------------------------------------
\* A second signup with the same address only sends the mail again.
Signup(u) ==
    /\ account[u] = "none"
    /\ account' = [account EXCEPT ![u] = "unverified"]
    /\ UNCHANGED <<profile, call>>

VerifyRead(c, u) ==
    /\ call[c] = Idle
    /\ account[u] = "unverified"
    /\ call' = [call EXCEPT ![c] = [Idle EXCEPT !.op = "verify", !.pc = "verify",
                                                !.user = u]]
    /\ UNCHANGED <<account, profile>>

\* verifyUserSignup; the update of a row that is gone is refused.
VerifyWrite(c) ==
    LET u == call[c].user IN
    /\ At(c, "verify", "verify")
    /\ account' = IF Exists(u) THEN [account EXCEPT ![u] = "verified"] ELSE account
    /\ Finish(c)
    /\ UNCHANGED profile

\* The provider's strategies look for their own id, which a row created by a
\* signup does not have.
OAuthFind(c, u) ==
    /\ call[c] = Idle
    /\ account[u] # "deleted"
    /\ call' = [call EXCEPT ![c] = [Idle EXCEPT !.op = "oauth", !.pc = "create",
                                                !.user = u]]
    /\ UNCHANGED <<account, profile>>

\* The unique address refuses a second row.
OAuthCreate(c) ==
    LET u == call[c].user IN
    /\ At(c, "oauth", "create")
    /\ account' = IF account[u] = "none" THEN [account EXCEPT ![u] = "verified"]
                  ELSE account
    /\ Finish(c)
    /\ UNCHANGED profile

\* Mutant of UpdateAsk: a column the request does not name gets its default.
UpdateAskReset(c, u, f, v) ==
    /\ Begin(c, [op |-> "update", pc |-> "update", user |-> u, other |-> f,
                 role |-> None, data |-> [g \in Fields |-> IF g = f THEN v ELSE Default]])
    /\ UNCHANGED <<account, profile>>

\* updateUser: the row that will be written is the one the guard has read,
\* with the column f of the request replaced.  Bound: a request names one.
UpdateAsk(c, u, f, v) ==
    /\ Begin(c, [op |-> "update", pc |-> "update", user |-> u, other |-> f,
                 role |-> None, data |-> [profile[u] EXCEPT ![f] = v]])
    /\ UNCHANGED <<account, profile>>

\* The statement writes every column but the hash, and a new password calls for
\* another one.  It is refused if the row is gone, or if the address it writes,
\* a new one or the one that was read, is another's by now; addresses are left
\* open.
UpdateWrite(c) ==
    LET k == call[c] IN
    /\ At(c, "update", "update")
    /\ \/ /\ Exists(k.user)
          /\ profile' = [profile EXCEPT ![k.user] = [k.data EXCEPT ![Hash] = profile[k.user][Hash]]]
          /\ IF k.other = Hash THEN Continue(c, "hash") ELSE Finish(c)
       \/ Finish(c) /\ UNCHANGED profile
    /\ UNCHANGED account

\* The second statement of updateUser.
HashWrite(c) ==
    LET k == call[c] IN
    /\ At(c, "update", "hash")
    /\ profile' = IF Exists(k.user) THEN [profile EXCEPT ![k.user][Hash] = k.data[Hash]]
                  ELSE profile
    /\ Finish(c)
    /\ UNCHANGED account

\* The delete statement.  rooms.moderatorId is NOT NULL and set to null on
\* deletion, so Postgres refuses to delete a moderator.
DeleteRow(u) ==
    /\ account[u] = "verified"
    /\ u \notin Moderators
    /\ account' = [account EXCEPT ![u] = "deleted"]
    /\ UNCHANGED <<profile, call>>

------------------------------------------------------------------------------
AccountInit ==
    /\ account = [u \in Users |-> "none"]
    /\ profile = [u \in Users |-> [f \in Fields |-> Default]]
    /\ call = [c \in Calls |-> Idle]

\* DeleteRow is left to the modules of the tables that refer to a user.
AccountStep(c) ==
    \/ VerifyWrite(c) \/ OAuthCreate(c) \/ UpdateWrite(c) \/ HashWrite(c)
    \/ \E u \in Users : VerifyRead(c, u) \/ OAuthFind(c, u)
    \/ \E u \in Users, f \in Fields, v \in Values : UpdateAsk(c, u, f, v)
==============================================================================
