------------------------------ MODULE Sessions ------------------------------
(***************************************************************************)
(* AuthService with UsersService and RedisService (src/auth, src/users,    *)
(* src/redis): registration, login, refresh and logout.                    *)
(*                                                                         *)
(* A step ends where the code awaits the database, bcrypt or Redis.  Redis *)
(* keeps one refresh token for each user.  A token is a signature over the *)
(* user and the second in which it is made, so two that are made in one    *)
(* second are the same: a token is that second.                            *)
(***************************************************************************)
EXTENDS Integers, FiniteSets

CONSTANTS
    Users,       \* by e-mail address
    Patient,     \* users who wait for the answer to a request
    Requests,    \* each made once
    Expiration,  \* JWT_REFRESH_EXPIRATION
    Hour,        \* seconds (3600)
    NoSession

ASSUME SessionsAssumption ==
    /\ Patient \subseteq Users
    /\ Expiration \in [unit : {"d", "h", "other"}, amount : Int]
    /\ Hour \in Nat \ {0}
    /\ NoSession \notin [token : Nat, left : Nat]

VARIABLES
    account,    \* none, bare (a row in users), or member (one in user_roles too)
    disabled,   \* users whose is_active is FALSE
    session,    \* Redis: refresh_token:<user>
    second,     \* the clock
    issued,     \* the refresh tokens that a user's clients have been given
    pc, wish, token

requestVars == <<pc, wish, token>>
sessionVars == <<account, disabled, session, second, issued, requestVars>>

Operations == {"register", "login", "refresh", "logout"}
InFlight == {"insert", "role", "bcrypt", "find", "store"}

SessionsTypeOK ==
    /\ account \in [Users -> {"none", "bare", "member"}]
    /\ disabled \in SUBSET Users
    /\ session \in [Users -> [token : Nat, left : Nat] \cup {NoSession}]
    /\ second \in Nat
    /\ issued \in [Users -> SUBSET Nat]
    /\ pc \in [Requests -> {"idle", "done", "failed"} \cup InFlight]
    /\ wish \in [Requests -> [user : Users, op : Operations]]
    /\ token \in [Requests -> Nat]

SessionsInit ==
    /\ account \in [Users -> {"none", "member"}]
    /\ disabled = {}
    /\ session = [u \in Users |-> NoSession]
    /\ second = 0
    /\ issued = [u \in Users |-> {}]
    /\ pc = [r \in Requests |-> "idle"]
    /\ wish \in [Requests -> [user : Users, op : Operations]]
    /\ token = [r \in Requests |-> 0]

-----------------------------------------------------------------------------

User(r) == wish[r].user
Goto(r, label) == pc' = [pc EXCEPT ![r] = label]

Begins(r, op) ==
    /\ pc[r] = "idle" /\ wish[r].op = op
    /\ User(r) \in Patient => \A s \in Requests : User(s) = User(r) => pc[s] \notin InFlight

(* register: UsersService.create looks the address up, once the password   *)
(* is hashed,                                                              *)
CheckEmail(r) ==
    /\ Begins(r, "register")
    /\ Goto(r, IF account[User(r)] = "none" THEN "insert" ELSE "failed")
    /\ UNCHANGED <<account, disabled, session, second, issued, wish, token>>

(* inserts the user,                                                       *)
AlwaysFree(u) == TRUE            \* mutant: users.email is not unique
EmailIsFree(u) == account[u] = "none"

InsertUser(r) ==
    /\ pc[r] = "insert"
    /\ EmailIsFree(User(r))
    /\ account' = [account EXCEPT ![User(r)] = "bare"]
    /\ Goto(r, "role")
    /\ UNCHANGED <<disabled, session, second, issued, wish, token>>

(* and register gives the user the role CUSTOMER.                          *)
AssignRole(r) ==
    /\ pc[r] = "role"
    /\ account' = [account EXCEPT ![User(r)] = "member"]
    /\ Goto(r, "done")
    /\ UNCHANGED <<disabled, session, second, issued, wish, token>>

Enabled(u) == account[u] # "none" /\ u \notin disabled

(* login finds an active user and awaits bcrypt,                           *)
FindByEmail(r) ==
    /\ Begins(r, "login")
    /\ Goto(r, IF Enabled(User(r)) THEN "bcrypt" ELSE "failed")
    /\ UNCHANGED <<account, disabled, session, second, issued, wish, token>>

(* then signs the tokens.                                                  *)
Sign(r) ==
    /\ token' = [token EXCEPT ![r] = second]
    /\ Goto(r, "store")

ComparePassword(r) ==
    /\ pc[r] = "bcrypt"
    /\ Sign(r)
    /\ UNCHANGED <<account, disabled, session, second, issued, wish>>

SignedByUs(u, presented) == TRUE    \* mutant: a valid signature will do
Accepts(u, presented) == session[u] # NoSession /\ session[u].token = presented

(* refreshTokens compares the token with the stored one,                   *)
CompareToken(r) ==
    /\ Begins(r, "refresh")
    /\ \E presented \in issued[User(r)] :
         Goto(r, IF Accepts(User(r), presented) THEN "find" ELSE "failed")
    /\ UNCHANGED <<account, disabled, session, second, issued, wish, token>>

Exists(u) == account[u] # "none"    \* mutant: a refresh ignores is_active
MayRefresh(u) == Enabled(u)

(* finds the user, and signs.                                              *)
FindById(r) ==
    /\ pc[r] = "find"
    /\ IF MayRefresh(User(r)) THEN Sign(r) ELSE Goto(r, "failed") /\ UNCHANGED token
    /\ UNCHANGED <<account, disabled, session, second, issued, wish>>

(* parseInt makes an integer of the amount, 0 of "0d" and of "0.5d"; for   *)
(* ".5d" it gives NaN, which Redis is told as little as 0, and 0 stands    *)
(* for both.  Nothing validates the variable.                              *)
Ttl ==
    CASE Expiration.unit = "d" -> Expiration.amount * 24 * Hour
      [] Expiration.unit = "h" -> Expiration.amount * Hour
      [] OTHER -> 7 * 24 * Hour

StoredForever(r) == [token |-> token[r], left |-> 0]   \* mutant: SET without EX
KeptOnRefresh(r) ==              \* mutant: a refresh does not replace the token
    IF wish[r].op = "refresh" /\ session[User(r)] # NoSession
    THEN session[User(r)] ELSE [token |-> token[r], left |-> Ttl]
(* left: seconds to live; RedisService.set tells Redis no time when it is  *)
(* 0, and the value stays for ever.                                        *)
NewSession(r) == [token |-> token[r], left |-> Ttl]

(* Redis stores the token, unless it is given a negative time; the answer  *)
(* may be lost.                                                            *)
StoreToken(r) ==
    /\ pc[r] = "store"
    /\ Ttl >= 0
    /\ session' = [session EXCEPT ![User(r)] = NewSession(r)]
    /\ \/ issued' = [issued EXCEPT ![User(r)] = @ \cup {token[r]}] /\ Goto(r, "done")
       \/ UNCHANGED issued /\ Goto(r, "failed")
    /\ UNCHANGED <<account, disabled, second, wish, token>>

(* Whoever logs out has an access token, which came with a refresh token.  *)
Logout(r) ==
    /\ Begins(r, "logout")
    /\ issued[User(r)] # {}
    /\ session' = [session EXCEPT ![User(r)] = NoSession]
    /\ Goto(r, "done")
    /\ UNCHANGED <<account, disabled, second, issued, wish, token>>

(* A wrong password, a refused insert, a lost connection, a crash.         *)
RequestFails(r) ==
    /\ pc[r] \in InFlight
    /\ Goto(r, "failed")
    /\ UNCHANGED <<account, disabled, session, second, issued, wish, token>>

(* Nothing in src/ sets is_active after the registration: an operator does *)
(* so in the database.                                                     *)
SwitchUser(u) ==
    /\ account[u] # "none"
    /\ disabled' = IF u \in disabled THEN disabled \ {u} ELSE disabled \cup {u}
    /\ UNCHANGED <<account, session, second, issued, requestVars>>

(* A second passes.  Seconds in which nothing is signed keep the number,   *)
(* which bounds it by that of the requests; Redis counts them all.         *)
Spent == \/ \E u \in Users : second \in issued[u] \/ (session[u] # NoSession /\ session[u].token = second)
         \/ \E r \in Requests : pc[r] = "store" /\ token[r] = second

AgedPastZero(s) == [s EXCEPT !.left = @ - 1]   \* mutant: nothing expires
Aged(s) ==
    CASE s.left = 1 -> NoSession
      [] s.left = 0 -> s
      [] OTHER -> [s EXCEPT !.left = @ - 1]

Tick ==
    /\ second' = IF Spent THEN second + 1 ELSE second
    /\ session' = [u \in Users |-> IF session[u] = NoSession THEN NoSession ELSE Aged(session[u])]
    /\ UNCHANGED <<account, disabled, issued, requestVars>>

SessionsNext ==
    \/ \E r \in Requests :
         \/ CheckEmail(r) \/ InsertUser(r) \/ AssignRole(r)
         \/ FindByEmail(r) \/ ComparePassword(r)
         \/ CompareToken(r) \/ FindById(r)
         \/ StoreToken(r) \/ Logout(r) \/ RequestFails(r)
    \/ \E u \in Users : SwitchUser(u)
    \/ Tick

(* Time passes; nobody has to do anything.                                 *)
SessionsSpec == SessionsInit /\ [][SessionsNext]_sessionVars
FairSessionsSpec == SessionsSpec /\ WF_sessionVars(Tick)

-----------------------------------------------------------------------------
(* What can go wrong                                                       *)

Succeeded(r, op) == pc[r] = "done" /\ wish[r].op = op

(* Of registrations with one address, however they overlap, at most one    *)
(* succeeds, although each looks the address up before any has inserted    *)
(* it; and the account of the one that does has its role.  (One that       *)
(* breaks off between its two inserts leaves an account without a role,    *)
(* which keeps the address.)                                               *)
RegisteredOnce ==
    \A r \in Requests :
        Succeeded(r, "register") =>
            /\ account[User(r)] = "member"
            /\ \A s \in Requests \ {r} : User(s) = User(r) => ~Succeeded(s, "register")

(* A user who waits for each answer is never left with a stored token that *)
(* is older than one the user has been given: a token that was exchanged   *)
(* for a newer one is dead, whatever was lost or failed in between.        *)
NewestOnly ==
    \A u \in Patient :
        session[u] # NoSession => \A t \in issued[u] : t <= session[u].token

(* Once a user has no session and none of the user's requests is past its  *)
(* first check, no refresh gets the session back: that takes a login.  A   *)
(* refresh that a logout overtakes may still restore it.                   *)
UnderWay(u, labels) == \E r \in Requests : User(r) = u /\ pc[r] \in labels
SignedOut(u) == session[u] = NoSession /\ ~UnderWay(u, {"bcrypt", "find", "store"})

SignedOutStays ==
    [][\A u \in Users :
         SignedOut(u) => \/ SignedOut(u)'
                         \/ \E r \in Requests : wish[r] = [user |-> u, op |-> "login"]
                                                /\ pc[r] = "idle" /\ pc'[r] = "bcrypt"]_sessionVars

(* While a user is disabled, with no token already being made, no login    *)
(* and no refresh gives the user another, and a token that the user holds  *)
(* wins no more time: only requests that had passed the check do.          *)
Shut(u) == u \in disabled /\ ~UnderWay(u, {"bcrypt", "store"})
TimeLeft(u) == IF session[u] = NoSession THEN 0 ELSE session[u].left

DisabledGetsNothing ==
    [][\A u \in Users :
         Shut(u) /\ u \in disabled' =>
            Shut(u)' /\ issued'[u] = issued[u] /\ TimeLeft(u)' <= TimeLeft(u)]_sessionVars

(* A refresh token is retired in the end, exchanged, revoked or expired:   *)
(* "Refresh tokens should have: expiration" (the full documentation).  It  *)
(* is, unless JWT_REFRESH_EXPIRATION is a number of days or hours in which *)
(* parseInt finds 0 or none ("0d", "0.5d", ".5d"): then the token is       *)
(* stored without a time, and nothing else that the code looks at expires  *)
(* it, for no request verifies the token itself.                           *)
Stored(u, t) == session[u] # NoSession /\ session[u].token = t

EveryTokenEnds ==
    Ttl # 0 =>
        \A u \in Users, t \in 0..Cardinality(Requests) : Stored(u, t) ~> ~Stored(u, t)
=============================================================================
