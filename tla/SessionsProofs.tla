--------------------------- MODULE SessionsProofs ---------------------------
(***************************************************************************)
(* Theorems about Sessions, for any users, requests and expiration.        *)
(***************************************************************************)
EXTENDS Sessions, TLAPS

(* A request stands where its operation can lead it.                       *)
Way(r) ==
    /\ pc[r] \in {"insert", "role"} => wish[r].op = "register"
    /\ pc[r] = "bcrypt" => wish[r].op = "login"
    /\ pc[r] = "find" => wish[r].op = "refresh"
    /\ pc[r] = "store" => wish[r].op \in {"login", "refresh"}

(* A registration that has inserted its user owns the account.             *)
Owns(r) == pc[r] = "role" \/ Succeeded(r, "register")
OneOwner ==
    \A r \in Requests :
        /\ Owns(r) => account[User(r)] # "none"
        /\ Succeeded(r, "register") => account[User(r)] = "member"
        /\ \A s \in Requests : Owns(r) /\ Owns(s) /\ User(r) = User(s) => r = s

(* Whoever waits has one request under way.                                *)
OneAtATime ==
    \A r, s \in Requests :
        User(r) = User(s) /\ User(r) \in Patient /\ pc[r] \in InFlight /\ pc[s] \in InFlight => r = s

(* No token is from the future, and one about to be stored for a user who  *)
(* waits is the user's newest.                                             *)
TokensInOrder ==
    /\ \A u \in Users : \A t \in issued[u] : t <= second
    /\ \A r \in Requests : token[r] <= second
    /\ \A r \in Requests :
         User(r) \in Patient /\ pc[r] = "store" =>
            \A t \in issued[User(r)] : t <= token[r]

(* A stored token has no more time than JWT_REFRESH_EXPIRATION comes to;   *)
(* it stays for ever (0) if and only if that comes to nothing, and nothing *)
(* is stored if it is negative.                                            *)
TimeAsConfigured ==
    \A u \in Users :
        session[u] # NoSession =>
            IF Ttl = 0 THEN session[u].left = 0 ELSE session[u].left \in 1..Ttl

(* The inductive invariant.                                                *)
SessionsInv ==
    /\ SessionsTypeOK
    /\ \A r \in Requests : Way(r)
    /\ OneOwner
    /\ OneAtATime
    /\ TokensInOrder
    /\ NewestOnly
    /\ TimeAsConfigured

USE SessionsAssumption

-----------------------------------------------------------------------------
(* Time                                                                    *)

LEMMA Product ==
  ASSUME NEW a \in Int, NEW b \in Int
  PROVE  a * b \in Int
OBVIOUS

LEMMA TtlIsWhole == Ttl \in Int
<1>1. Expiration.amount \in Int /\ 24 \in Int /\ 7 * 24 \in Int /\ Hour \in Int
  OBVIOUS
<1> DEFINE days == Expiration.amount * 24
           amount == Expiration.amount
<1>2. days \in Int
  BY <1>1
<1>3. amount \in Int
  BY <1>1
<1> HIDE DEF days, amount
<1>4. days * Hour \in Int /\ amount * Hour \in Int
  BY <1>1, <1>2, <1>3, Product
<1>5. (7 * 24) * Hour \in Int
  BY <1>1, Product
<1> QED
  BY <1>4, <1>5 DEF Ttl, days, amount

(* A second less.                                                          *)
LEMMA AgedTyped ==
  ASSUME NEW s \in [token : Nat, left : Nat]
  PROVE  /\ Aged(s) \in [token : Nat, left : Nat] \cup {NoSession}
         /\ Aged(s) # NoSession => /\ Aged(s).token = s.token
                                   /\ Aged(s).left = s.left \/ (s.left > 1 /\ Aged(s).left = s.left - 1)
                                   /\ s.left # 0 => Aged(s).left = s.left - 1
<1>1. CASE s.left = 1
  BY <1>1 DEF Aged
<1>2. CASE s.left = 0
  BY <1>2 DEF Aged
<1>3. CASE s.left \notin {0, 1}
  <2> DEFINE k == [s EXCEPT !.left = @ - 1]
  <2>1. k \in [token : Nat, left : Nat] /\ k.token = s.token /\ k.left = s.left - 1
    BY <1>3
  <2>2. Aged(s) = k
    BY <1>3 DEF Aged
  <2> HIDE DEF k
  <2> QED
    BY <1>3, <2>1, <2>2
<1> QED
  BY <1>1, <1>2, <1>3

-----------------------------------------------------------------------------
(* Requests' steps                                                         *)

Labels == {"idle", "done", "failed"} \cup InFlight

LEMMA Goes ==
  ASSUME SessionsTypeOK, NEW r \in Requests, NEW label \in Labels, Goto(r, label)
  PROVE  /\ pc' \in [Requests -> Labels]
         /\ pc'[r] = label
         /\ \A s \in Requests \ {r} : pc'[s] = pc[s]
BY DEF Goto, SessionsTypeOK, Labels

(* A request that begins is alone, if its user waits.                      *)
LEMMA BeginsAlone ==
  ASSUME SessionsInv, NEW r \in Requests, NEW label \in Labels, Goto(r, label), UNCHANGED wish,
         \/ pc[r] \in InFlight \/ label \notin InFlight
         \/ User(r) \in Patient => \A s \in Requests : User(s) = User(r) => pc[s] \notin InFlight
  PROVE  OneAtATime'
<1>1. SessionsTypeOK /\ OneAtATime
  BY DEF SessionsInv
<1> QED
  BY <1>1, Goes DEF OneAtATime, User

(* A request that goes on, without storing or owning anything new.         *)
LEMMA GoingOnKeeps ==
  ASSUME SessionsInv, NEW r \in Requests, NEW label \in Labels, Goto(r, label),
         UNCHANGED <<account, disabled, session, second, issued, wish, token>>,
         \/ pc[r] \in InFlight \/ label \notin InFlight
         \/ User(r) \in Patient => \A s \in Requests : User(s) = User(r) => pc[s] \notin InFlight,
         label \in {"insert", "role"} => wish[r].op = "register",
         label = "bcrypt" => wish[r].op = "login",
         label = "find" => wish[r].op = "refresh",
         label \notin {"role", "store"},
         label = "done" => wish[r].op # "register"
  PROVE  SessionsInv'
<1>0. SessionsTypeOK
  BY DEF SessionsInv
<1>1. SessionsTypeOK'
  BY <1>0, Goes DEF SessionsTypeOK, Labels
<1>2. ASSUME NEW s \in Requests PROVE Way(s)'
  BY <1>0, Goes DEF SessionsInv, Way
<1>3. OneOwner'
  BY <1>0, Goes DEF SessionsInv, OneOwner, Owns, Succeeded, User
<1>4. OneAtATime'
  BY BeginsAlone
<1>5. TokensInOrder'
  BY <1>0, Goes DEF SessionsInv, TokensInOrder, User
<1>6. NewestOnly'
  BY DEF SessionsInv, NewestOnly
<1>7. TimeAsConfigured'
  BY DEF SessionsInv, TimeAsConfigured
<1> QED
  BY <1>1, <1>2, <1>3, <1>4, <1>5, <1>6, <1>7 DEF SessionsInv

LEMMA CheckEmailKeeps ==
  ASSUME SessionsInv, NEW r \in Requests, CheckEmail(r)
  PROVE  SessionsInv'
<1>1. PICK label \in {"insert", "failed"} : Goto(r, label)
  BY DEF CheckEmail
<1> QED
  BY <1>1, GoingOnKeeps DEF CheckEmail, Begins, Labels, InFlight

LEMMA FindByEmailKeeps ==
  ASSUME SessionsInv, NEW r \in Requests, FindByEmail(r)
  PROVE  SessionsInv'
<1>1. PICK label \in {"bcrypt", "failed"} : Goto(r, label)
  BY DEF FindByEmail
<1> QED
  BY <1>1, GoingOnKeeps DEF FindByEmail, Begins, Labels, InFlight

LEMMA CompareTokenKeeps ==
  ASSUME SessionsInv, NEW r \in Requests, CompareToken(r)
  PROVE  SessionsInv'
<1>1. PICK label \in {"find", "failed"} : Goto(r, label)
  BY DEF CompareToken
<1> QED
  BY <1>1, GoingOnKeeps DEF CompareToken, Begins, Labels, InFlight

LEMMA RequestFailsKeeps ==
  ASSUME SessionsInv, NEW r \in Requests, RequestFails(r)
  PROVE  SessionsInv'
BY GoingOnKeeps DEF RequestFails, Labels, InFlight

(* users.email is unique: no registration owns an account that is free.    *)
LEMMA InsertUserKeeps ==
  ASSUME SessionsInv, NEW r \in Requests, InsertUser(r)
  PROVE  SessionsInv'
<1>0. /\ SessionsTypeOK /\ User(r) \in Users /\ "role" \in Labels
      /\ pc[r] = "insert" /\ account[User(r)] = "none"
      /\ account' = [account EXCEPT ![User(r)] = "bare"]
      /\ Goto(r, "role")
      /\ UNCHANGED <<disabled, session, second, issued, wish, token>>
  BY DEF SessionsInv, SessionsTypeOK, InsertUser, EmailIsFree, User, Labels, InFlight
<1>1. SessionsTypeOK'
  BY <1>0, Goes DEF SessionsTypeOK, Labels
<1>2. ASSUME NEW s \in Requests PROVE Way(s)'
  BY <1>0, Goes DEF SessionsInv, Way
<1>3. OneOwner'
  <2>1. ASSUME NEW s \in Requests, Owns(s) PROVE User(s) # User(r) /\ User(s) \in Users
    BY <1>0, <2>1 DEF SessionsInv, OneOwner, SessionsTypeOK, User
  <2>2. ASSUME NEW s \in Requests, Owns(s)' PROVE s = r \/ Owns(s)
    BY <1>0, <2>2, Goes DEF Owns, Succeeded
  <2>3. /\ account'[User(r)] = "bare"
        /\ \A u \in Users \ {User(r)} : account'[u] = account[u]
    BY <1>0 DEF SessionsTypeOK
  <2>4. ~Succeeded(r, "register")'
    BY <1>0, Goes DEF Succeeded
  <2>5. ASSUME NEW s \in Requests, Succeeded(s, "register")' PROVE Succeeded(s, "register")
    BY <1>0, <2>5, Goes DEF Succeeded
  <2> QED
    BY <1>0, <2>1, <2>2, <2>3, <2>4, <2>5 DEF SessionsInv, OneOwner, User, Owns
<1>4. OneAtATime'
  BY <1>0, BeginsAlone DEF InFlight
<1>5. TokensInOrder'
  BY <1>0, Goes DEF SessionsInv, TokensInOrder, User
<1>6. NewestOnly' /\ TimeAsConfigured'
  BY <1>0 DEF SessionsInv, NewestOnly, TimeAsConfigured
<1> QED
  BY <1>1, <1>2, <1>3, <1>4, <1>5, <1>6 DEF SessionsInv

LEMMA AssignRoleKeeps ==
  ASSUME SessionsInv, NEW r \in Requests, AssignRole(r)
  PROVE  SessionsInv'
<1>0. /\ SessionsTypeOK /\ User(r) \in Users /\ "done" \in Labels
      /\ pc[r] = "role" /\ wish[r].op = "register"
      /\ account' = [account EXCEPT ![User(r)] = "member"]
      /\ Goto(r, "done")
      /\ UNCHANGED <<disabled, session, second, issued, wish, token>>
  BY DEF SessionsInv, SessionsTypeOK, AssignRole, Way, User, Labels
<1>1. SessionsTypeOK'
  BY <1>0, Goes DEF SessionsTypeOK, Labels
<1>2. ASSUME NEW s \in Requests PROVE Way(s)'
  BY <1>0, Goes DEF SessionsInv, Way
<1>3. OneOwner'
  <2>1. ASSUME NEW s \in Requests PROVE Owns(s)' <=> Owns(s)
    BY <1>0, Goes DEF Owns, Succeeded
  <2>2. ASSUME NEW s \in Requests, Succeeded(s, "register")' PROVE s = r \/ Succeeded(s, "register")
    BY <1>0, <2>2, Goes DEF Succeeded
  <2>3. /\ account'[User(r)] = "member"
        /\ \A u \in Users \ {User(r)} : account'[u] = account[u]
    BY <1>0 DEF SessionsTypeOK
  <2>4. \A s \in Requests : User(s) \in Users
    BY <1>0 DEF SessionsTypeOK, User
  <2> QED
    BY <1>0, <2>1, <2>2, <2>3, <2>4 DEF SessionsInv, OneOwner, User
<1>4. OneAtATime'
  BY <1>0, BeginsAlone DEF InFlight
<1>5. TokensInOrder'
  BY <1>0, Goes DEF SessionsInv, TokensInOrder, User
<1>6. NewestOnly' /\ TimeAsConfigured'
  BY <1>0 DEF SessionsInv, NewestOnly, TimeAsConfigured
<1> QED
  BY <1>1, <1>2, <1>3, <1>4, <1>5, <1>6 DEF SessionsInv

(* A token that is signed now is no older than any that its user has.      *)
LEMMA SignKeeps ==
  ASSUME SessionsInv, NEW r \in Requests, Sign(r), pc[r] \in InFlight,
         wish[r].op \in {"login", "refresh"},
         UNCHANGED <<account, disabled, session, second, issued, wish>>
  PROVE  SessionsInv'
<1>0. /\ SessionsTypeOK /\ "store" \in Labels /\ User(r) \in Users
      /\ token' = [token EXCEPT ![r] = second] /\ Goto(r, "store")
  BY DEF SessionsInv, SessionsTypeOK, Sign, User, Labels, InFlight
<1>1. SessionsTypeOK'
  BY <1>0, Goes DEF SessionsTypeOK, Labels
<1>2. ASSUME NEW s \in Requests PROVE Way(s)'
  BY <1>0, Goes DEF SessionsInv, Way
<1>3. OneOwner'
  BY <1>0, Goes DEF SessionsInv, OneOwner, Owns, Succeeded, User
<1>4. OneAtATime'
  BY <1>0, BeginsAlone DEF InFlight
<1>5. TokensInOrder'
  <2>1. token'[r] = second /\ \A s \in Requests \ {r} : token'[s] = token[s]
    BY <1>0 DEF SessionsTypeOK
  <2>2. second \in Nat /\ second <= second /\ issued \in [Users -> SUBSET Nat]
    BY <1>0 DEF SessionsTypeOK
  <2> QED
    BY <1>0, <2>1, <2>2, Goes DEF SessionsInv, TokensInOrder, User
<1>6. NewestOnly' /\ TimeAsConfigured'
  BY DEF SessionsInv, NewestOnly, TimeAsConfigured
<1> QED
  BY <1>1, <1>2, <1>3, <1>4, <1>5, <1>6 DEF SessionsInv

LEMMA ComparePasswordKeeps ==
  ASSUME SessionsInv, NEW r \in Requests, ComparePassword(r)
  PROVE  SessionsInv'
BY SignKeeps DEF ComparePassword, SessionsInv, Way, InFlight

LEMMA FindByIdKeeps ==
  ASSUME SessionsInv, NEW r \in Requests, FindById(r)
  PROVE  SessionsInv'
<1>1. /\ pc[r] = "find" /\ pc[r] \in InFlight /\ wish[r].op = "refresh"
      /\ UNCHANGED <<account, disabled, session, second, issued, wish>>
      /\ Sign(r) \/ (Goto(r, "failed") /\ UNCHANGED token)
  BY DEF FindById, SessionsInv, Way, InFlight
<1> QED
  BY <1>1, SignKeeps, GoingOnKeeps DEF Labels

(* The request of a user who waits stores the user's newest token, for no  *)
(* other request of the user has stored one since it was signed.           *)
LEMMA StoreTokenKeeps ==
  ASSUME SessionsInv, NEW r \in Requests, StoreToken(r)
  PROVE  SessionsInv'
<1> DEFINE u == User(r)
           s == NewSession(r)
<1>0. /\ SessionsTypeOK /\ u \in Users /\ {"done", "failed"} \subseteq Labels
      /\ pc[r] = "store" /\ Ttl >= 0 /\ wish[r].op \in {"login", "refresh"}
      /\ session' = [session EXCEPT ![u] = s]
      /\ \/ issued' = [issued EXCEPT ![u] = @ \cup {token[r]}] /\ Goto(r, "done")
         \/ UNCHANGED issued /\ Goto(r, "failed")
      /\ UNCHANGED <<account, disabled, second, wish, token>>
  BY DEF SessionsInv, SessionsTypeOK, StoreToken, Way, User, Labels
<1>00. /\ s \in [token : Nat, left : Nat] /\ s # NoSession
       /\ s.token = token[r] /\ s.left = Ttl /\ Ttl \in Nat /\ token[r] \in Nat
  <2>1. token[r] \in Nat
    BY <1>0 DEF SessionsTypeOK
  <2> QED
    BY <1>0, <2>1, TtlIsWhole DEF NewSession
<1> HIDE DEF u, s
<1>1. PICK label \in {"done", "failed"} : Goto(r, label) /\ label \in Labels
  BY <1>0
<1>2. /\ session'[u] = s
      /\ \A v \in Users \ {u} : session'[v] = session[v] /\ issued'[v] = issued[v]
      /\ issued[u] \subseteq issued'[u] /\ issued'[u] \subseteq issued[u] \cup {token[r]}
      /\ issued' \in [Users -> SUBSET Nat]
      /\ session' \in [Users -> [token : Nat, left : Nat] \cup {NoSession}]
  BY <1>0, <1>00 DEF SessionsTypeOK
<1>3. SessionsTypeOK'
  BY <1>0, <1>1, <1>2, Goes DEF SessionsTypeOK, Labels
<1>4. ASSUME NEW q \in Requests PROVE Way(q)'
  BY <1>0, <1>1, Goes DEF SessionsInv, Way
<1>5. OneOwner'
  BY <1>0, <1>1, Goes DEF SessionsInv, OneOwner, Owns, Succeeded, User
<1>6. OneAtATime'
  BY <1>0, <1>1, BeginsAlone DEF InFlight
<1>7. TokensInOrder'
  <2>1. \A q \in Requests : token[q] \in Nat /\ User(q) \in Users
    BY <1>0 DEF SessionsTypeOK, User
  <2>2. \A v \in Users : \A t \in issued'[v] : t <= second'
    BY <1>0, <1>2 DEF SessionsInv, TokensInOrder
  <2>3. ASSUME NEW q \in Requests, User(q) \in Patient, pc'[q] = "store"
        PROVE  \A t \in issued'[User(q)] : t <= token[q]
    <3>1. q # r /\ pc[q] = "store"
      BY <1>0, <1>1, <2>3, Goes
    <3>2. User(q) # u
      BY <1>0, <2>3, <3>1 DEF SessionsInv, OneAtATime, InFlight, u
    <3> QED
      BY <1>2, <2>1, <2>3, <3>1, <3>2 DEF SessionsInv, TokensInOrder
  <2> QED
    BY <1>0, <2>2, <2>3 DEF SessionsInv, TokensInOrder, User
<1>8. NewestOnly'
  <2>1. ASSUME u \in Patient, NEW t \in issued'[u] PROVE t <= token[r]
    BY <1>0, <1>00, <1>2, <2>1 DEF SessionsInv, TokensInOrder, u
  <2> QED
    BY <1>00, <1>2, <2>1 DEF SessionsInv, NewestOnly
<1>9. TimeAsConfigured'
  BY <1>00, <1>2 DEF SessionsInv, TimeAsConfigured, Ttl
<1> QED
  BY <1>3, <1>4, <1>5, <1>6, <1>7, <1>8, <1>9 DEF SessionsInv

LEMMA LogoutKeeps ==
  ASSUME SessionsInv, NEW r \in Requests, Logout(r)
  PROVE  SessionsInv'
<1>0. /\ SessionsTypeOK /\ User(r) \in Users /\ "done" \in Labels /\ "done" \notin InFlight
      /\ wish[r].op = "logout"
      /\ session' = [session EXCEPT ![User(r)] = NoSession]
      /\ Goto(r, "done")
      /\ UNCHANGED <<account, disabled, second, issued, wish, token>>
  BY DEF SessionsInv, SessionsTypeOK, Logout, Begins, User, Labels, InFlight
<1>1. /\ session' \in [Users -> [token : Nat, left : Nat] \cup {NoSession}]
      /\ \A u \in Users : session'[u] = session[u] \/ session'[u] = NoSession
  BY <1>0 DEF SessionsTypeOK
<1>2. SessionsTypeOK'
  BY <1>0, <1>1, Goes DEF SessionsTypeOK, Labels
<1>3. ASSUME NEW s \in Requests PROVE Way(s)'
  BY <1>0, Goes DEF SessionsInv, Way
<1>4. OneOwner'
  BY <1>0, Goes DEF SessionsInv, OneOwner, Owns, Succeeded, User
<1>5. OneAtATime'
  BY <1>0, BeginsAlone
<1>6. TokensInOrder'
  BY <1>0, Goes DEF SessionsInv, TokensInOrder, User
<1>7. NewestOnly' /\ TimeAsConfigured'
  BY <1>0, <1>1 DEF SessionsInv, NewestOnly, TimeAsConfigured, Ttl
<1> QED
  BY <1>2, <1>3, <1>4, <1>5, <1>6, <1>7 DEF SessionsInv

-----------------------------------------------------------------------------
(* The operator and the clock                                              *)

LEMMA SwitchUserKeeps ==
  ASSUME SessionsInv, NEW u \in Users, SwitchUser(u)
  PROVE  SessionsInv'
<1>1. disabled' \in SUBSET Users
  BY DEF SwitchUser, SessionsInv, SessionsTypeOK
<1>2. UNCHANGED <<account, session, second, issued, pc, wish, token>>
  BY DEF SwitchUser, requestVars
<1>3. SessionsTypeOK'
  BY <1>1, <1>2 DEF SessionsInv, SessionsTypeOK
<1>4. OneOwner' /\ OneAtATime' /\ TokensInOrder' /\ NewestOnly' /\ TimeAsConfigured'
  BY <1>2 DEF SessionsInv, OneOwner, Owns, Succeeded, OneAtATime, TokensInOrder, NewestOnly,
              TimeAsConfigured, Ttl, User
<1>5. \A r \in Requests : Way(r)'
  BY <1>2 DEF SessionsInv, Way
<1> QED
  BY <1>3, <1>4, <1>5 DEF SessionsInv

LEMMA TickKeeps ==
  ASSUME SessionsInv, Tick
  PROVE  SessionsInv'
<1>0. SessionsTypeOK /\ Ttl \in Int
  BY TtlIsWhole DEF SessionsInv
<1>1. /\ second' \in Nat /\ second <= second'
      /\ UNCHANGED <<account, disabled, issued, pc, wish, token>>
  BY <1>0 DEF Tick, SessionsTypeOK, requestVars
<1>2. ASSUME NEW u \in Users
      PROVE  /\ session'[u] \in [token : Nat, left : Nat] \cup {NoSession}
             /\ session'[u] # NoSession =>
                  /\ session[u] # NoSession
                  /\ session'[u].token = session[u].token
                  /\ IF Ttl = 0 THEN session'[u].left = 0 ELSE session'[u].left \in 1..Ttl
  <2>1. session'[u] = IF session[u] = NoSession THEN NoSession ELSE Aged(session[u])
    BY DEF Tick
  <2>2. CASE session[u] = NoSession
    BY <2>1, <2>2
  <2>3. CASE session[u] # NoSession
    <3>1. /\ session[u] \in [token : Nat, left : Nat]
          /\ IF Ttl = 0 THEN session[u].left = 0 ELSE session[u].left \in 1..Ttl
      BY <1>0, <2>3 DEF SessionsTypeOK, SessionsInv, TimeAsConfigured
    <3>2. session'[u] = Aged(session[u])
      BY <2>1, <2>3
    <3>3. /\ session'[u] \in [token : Nat, left : Nat] \cup {NoSession}
          /\ session'[u] # NoSession => /\ session'[u].token = session[u].token
                                        /\ session[u].left = 0 => session'[u].left = 0
                                        /\ session[u].left # 0 => session'[u].left = session[u].left - 1
      BY <3>1, <3>2, AgedTyped
    <3>4. CASE session[u].left = 1
      BY <3>2, <3>4 DEF Aged
    <3>5. CASE Ttl = 0
      BY <2>3, <3>1, <3>3, <3>5
    <3>6. CASE Ttl # 0 /\ session[u].left # 1
      BY <1>0, <2>3, <3>1, <3>3, <3>6
    <3> QED
      BY <3>4, <3>5, <3>6
  <2> QED
    BY <2>2, <2>3
<1>3. session' \in [Users -> [token : Nat, left : Nat] \cup {NoSession}]
  BY <1>2 DEF Tick
<1>4. SessionsTypeOK'
  BY <1>0, <1>1, <1>3 DEF SessionsTypeOK
<1>5. OneOwner' /\ OneAtATime'
  BY <1>1 DEF SessionsInv, OneOwner, Owns, Succeeded, OneAtATime, User
<1>6. TokensInOrder'
  <2>1. /\ \A u \in Users : issued[u] \subseteq Nat
        /\ \A r \in Requests : token[r] \in Nat
        /\ second \in Nat
    BY <1>0 DEF SessionsTypeOK
  <2> QED
    BY <1>1, <2>1 DEF SessionsInv, TokensInOrder, User
<1>7. NewestOnly'
  BY <1>1, <1>2 DEF SessionsInv, NewestOnly
<1>8. TimeAsConfigured'
  BY <1>2 DEF TimeAsConfigured, Ttl
<1>9. \A r \in Requests : Way(r)'
  BY <1>1 DEF SessionsInv, Way
<1> QED
  BY <1>4, <1>5, <1>6, <1>7, <1>8, <1>9 DEF SessionsInv

-----------------------------------------------------------------------------
(* The invariant                                                           *)

LEMMA SessionsStart ==
  ASSUME SessionsInit
  PROVE  SessionsInv
<1> USE DEF SessionsInit
<1>1. SessionsTypeOK
  BY DEF SessionsTypeOK
<1>2. OneOwner /\ OneAtATime /\ \A r \in Requests : Way(r)
  BY DEF OneOwner, Owns, Succeeded, OneAtATime, InFlight, Way
<1>3. TokensInOrder
  <2>1. \A u \in Users : issued[u] = {}
    OBVIOUS
  <2> QED
    BY <2>1 DEF TokensInOrder, User
<1>4. NewestOnly /\ TimeAsConfigured
  BY DEF NewestOnly, TimeAsConfigured
<1> QED
  BY <1>1, <1>2, <1>3, <1>4 DEF SessionsInv

LEMMA SessionsKeep ==
  ASSUME SessionsInv, [SessionsNext]_sessionVars
  PROVE  SessionsInv'
<1>1. CASE SessionsNext
  BY <1>1, CheckEmailKeeps, InsertUserKeeps, AssignRoleKeeps, FindByEmailKeeps,
     ComparePasswordKeeps, CompareTokenKeeps, FindByIdKeeps, StoreTokenKeeps, LogoutKeeps,
     RequestFailsKeeps, SwitchUserKeeps, TickKeeps
  DEF SessionsNext
<1>2. CASE UNCHANGED sessionVars
  <2> USE <1>2 DEF SessionsInv, sessionVars, requestVars
  <2>1. SessionsTypeOK' /\ \A r \in Requests : Way(r)'
    BY DEF SessionsTypeOK, Way
  <2>2. OneOwner' /\ OneAtATime' /\ TokensInOrder'
    BY DEF OneOwner, Owns, Succeeded, OneAtATime, TokensInOrder, User
  <2>3. NewestOnly' /\ TimeAsConfigured'
    BY DEF NewestOnly, TimeAsConfigured, Ttl
  <2> QED
    BY <2>1, <2>2, <2>3
<1> QED
  BY <1>1, <1>2

(* The invariant holds in every state.                                     *)
THEOREM SessionsInvariant == SessionsSpec => []SessionsInv
BY SessionsStart, SessionsKeep, PTL DEF SessionsSpec

(* Accounts, stored and issued tokens and requests keep their types.       *)
THEOREM SessionsTypes == SessionsSpec => []SessionsTypeOK
<1>1. SessionsInv => SessionsTypeOK
  BY DEF SessionsInv
<1> QED
  BY <1>1, SessionsInvariant, PTL

(* However many registrations with one address look it up before any has   *)
(* inserted it, one succeeds at most, and its account has the role.        *)
THEOREM OneRegistration == SessionsSpec => []RegisteredOnce
<1>1. SessionsInv => RegisteredOnce
  BY DEF SessionsInv, OneOwner, Owns, RegisteredOnce
<1> QED
  BY <1>1, SessionsInvariant, PTL

(* What Redis has for a user who waits for each answer is the newest token *)
(* of the user, so that one which has been exchanged is dead.  For users   *)
(* who do not wait nothing is said.                                        *)
THEOREM OldTokensAreDead == SessionsSpec => []NewestOnly
<1>1. SessionsInv => NewestOnly
  BY DEF SessionsInv
<1> QED
  BY <1>1, SessionsInvariant, PTL

(* Whatever JWT_REFRESH_EXPIRATION is, a stored token has no more time     *)
(* than it comes to, and is kept for ever if and only if it comes to 0:    *)
(* refreshes do not add up, and the countdown ends without passing 0.      *)
THEOREM TokensLiveAsConfigured == SessionsSpec => []TimeAsConfigured
<1>1. SessionsInv => TimeAsConfigured
  BY DEF SessionsInv
<1> QED
  BY <1>1, SessionsInvariant, PTL

-----------------------------------------------------------------------------
(* Action properties                                                       *)

(* One request of one user moves, and it is past its first check only if   *)
(* it was before, or has just passed it.                                   *)
LEMMA SignedOutKept ==
  ASSUME SessionsTypeOK, SessionsNext, NEW u \in Users, SignedOut(u),
         ~\E r \in Requests : wish[r] = [user |-> u, op |-> "login"]
                              /\ pc[r] = "idle" /\ pc'[r] = "bcrypt"
  PROVE  SignedOut(u)'
<1> DEFINE Past == {"bcrypt", "find", "store"}
<1>0. /\ session[u] = NoSession
      /\ \A r \in Requests : User(r) = u => pc[r] \notin Past
  BY DEF SignedOut, UnderWay
<1>1. SUFFICES /\ session'[u] = NoSession
               /\ \A r \in Requests : User(r)' = u => pc'[r] \notin Past
  BY DEF SignedOut, UnderWay
<1>2. ASSUME NEW r \in Requests, NEW label \in Labels, Goto(r, label), UNCHANGED wish,
             session'[u] = NoSession, label \notin Past \/ User(r) # u
      PROVE  /\ session'[u] = NoSession
             /\ \A s \in Requests : User(s)' = u => pc'[s] \notin Past
  BY <1>0, <1>2, Goes DEF User
<1>3. ASSUME NEW r \in Requests, CheckEmail(r) \/ InsertUser(r) \/ AssignRole(r) \/ RequestFails(r)
      PROVE  /\ session'[u] = NoSession
             /\ \A s \in Requests : User(s)' = u => pc'[s] \notin Past
  <2>1. PICK label \in {"insert", "failed", "role", "done"} : Goto(r, label)
    BY <1>3 DEF CheckEmail, InsertUser, AssignRole, RequestFails
  <2>2. UNCHANGED <<wish, session>> /\ label \in Labels /\ label \notin Past
    BY <1>3 DEF CheckEmail, InsertUser, AssignRole, RequestFails, Labels, InFlight
  <2> QED
    BY <1>0, <1>2, <2>1, <2>2
<1>4. ASSUME NEW r \in Requests, FindByEmail(r)
      PROVE  /\ session'[u] = NoSession
             /\ \A s \in Requests : User(s)' = u => pc'[s] \notin Past
  <2>1. PICK label \in {"bcrypt", "failed"} : Goto(r, label) /\ label \in Labels
    BY <1>4 DEF FindByEmail, Labels, InFlight
  <2>2. CASE label = "bcrypt"
    <3>1. pc[r] = "idle" /\ pc'[r] = "bcrypt" /\ wish[r].op = "login"
      BY <1>4, <2>1, <2>2, Goes DEF FindByEmail, Begins
    <3>2. wish[r] \in [user : Users, op : Operations]
      BY DEF SessionsTypeOK
    <3>3. wish[r] = [user |-> User(r), op |-> "login"]
      BY <3>1, <3>2 DEF User
    <3>4. User(r) # u
      BY <3>1, <3>3
    <3> QED
      BY <1>0, <1>2, <1>4, <2>1, <3>4 DEF FindByEmail
  <2>3. CASE label = "failed"
    BY <1>0, <1>2, <1>4, <2>1, <2>3 DEF FindByEmail
  <2> QED
    BY <2>1, <2>2, <2>3
<1>5. ASSUME NEW r \in Requests, ComparePassword(r) \/ FindById(r) \/ StoreToken(r)
      PROVE  /\ session'[u] = NoSession
             /\ \A s \in Requests : User(s)' = u => pc'[s] \notin Past
  <2>1. pc[r] \in Past
    BY <1>5 DEF ComparePassword, FindById, StoreToken
  <2>2. User(r) # u
    BY <1>0, <2>1
  <2>3. PICK label \in {"store", "failed", "done"} : Goto(r, label) /\ label \in Labels
    BY <1>5 DEF ComparePassword, FindById, StoreToken, Sign, Labels, InFlight
  <2>4. session'[u] = session[u] /\ UNCHANGED wish
    BY <1>5, <2>2 DEF ComparePassword, FindById, StoreToken, SessionsTypeOK, User
  <2> QED
    BY <1>0, <1>2, <2>2, <2>3, <2>4
<1>6. ASSUME NEW r \in Requests, CompareToken(r)
      PROVE  /\ session'[u] = NoSession
             /\ \A s \in Requests : User(s)' = u => pc'[s] \notin Past
  <2>1. PICK label \in {"find", "failed"} : Goto(r, label) /\ (label = "find" => session[User(r)] # NoSession)
    BY <1>6 DEF CompareToken, Accepts
  <2>2. UNCHANGED <<wish, session>> /\ label \in Labels
    BY <1>6 DEF CompareToken, Labels, InFlight
  <2> QED
    BY <1>0, <1>2, <2>1, <2>2
<1>7. ASSUME NEW r \in Requests, Logout(r)
      PROVE  /\ session'[u] = NoSession
             /\ \A s \in Requests : User(s)' = u => pc'[s] \notin Past
  <2>1. Goto(r, "done") /\ "done" \in Labels /\ UNCHANGED wish
    BY <1>7 DEF Logout, Labels
  <2>2. session'[u] = NoSession
    BY <1>0, <1>7 DEF Logout, SessionsTypeOK
  <2> QED
    BY <1>2, <2>1, <2>2
<1>8. CASE Tick
  <2>1. session'[u] = NoSession
    BY <1>0, <1>8 DEF Tick
  <2> QED
    BY <1>0, <1>8, <2>1 DEF Tick, requestVars, User
<1>9. CASE \E v \in Users : SwitchUser(v)
  BY <1>0, <1>9 DEF SwitchUser, requestVars, User
<1> QED
  BY <1>3, <1>4, <1>5, <1>6, <1>7, <1>8, <1>9 DEF SessionsNext

(* A session that is gone does not come back without a login, unless a     *)
(* refresh was past the comparison of its token when it went.              *)
THEOREM SignedOutForGood == SessionsSpec => SignedOutStays
<1>1. ASSUME SessionsInv, [SessionsNext]_sessionVars
      PROVE  [\A u \in Users :
                SignedOut(u) => \/ SignedOut(u)'
                                \/ \E r \in Requests : wish[r] = [user |-> u, op |-> "login"]
                                       /\ pc[r] = "idle" /\ pc'[r] = "bcrypt"]_sessionVars
  BY <1>1, SignedOutKept DEF SessionsInv
<1> QED
  BY <1>1, SessionsInvariant, PTL DEF SessionsSpec, SignedOutStays

(* What a disabled user keeps: the steps that could give the user a token  *)
(* start from a label that none of the user's requests has, and none gets. *)
LEMMA ShutKept ==
  ASSUME SessionsTypeOK, SessionsNext, NEW u \in Users, Shut(u), u \in disabled'
  PROVE  Shut(u)' /\ issued'[u] = issued[u] /\ TimeLeft(u)' <= TimeLeft(u)
<1> DEFINE Making == {"bcrypt", "store"}
<1>0. /\ u \in disabled
      /\ \A r \in Requests : User(r) = u => pc[r] \notin Making
      /\ TimeLeft(u) \in Nat
  BY DEF Shut, UnderWay, TimeLeft, SessionsTypeOK
<1>1. SUFFICES /\ \A r \in Requests : User(r)' = u => pc'[r] \notin Making
               /\ issued'[u] = issued[u]
               /\ TimeLeft(u)' <= TimeLeft(u)
  BY DEF Shut, UnderWay
<1>2. ASSUME NEW r \in Requests, NEW label \in Labels, Goto(r, label), UNCHANGED wish,
             label \notin Making \/ User(r) # u
      PROVE  \A s \in Requests : User(s)' = u => pc'[s] \notin Making
  BY <1>0, <1>2, Goes DEF User
<1>3. ASSUME UNCHANGED <<session, issued>>
      PROVE  issued'[u] = issued[u] /\ TimeLeft(u)' <= TimeLeft(u)
  BY <1>0, <1>3 DEF TimeLeft
<1>4. ASSUME NEW r \in Requests,
             CheckEmail(r) \/ InsertUser(r) \/ AssignRole(r) \/ CompareToken(r) \/ RequestFails(r)
      PROVE  \A s \in Requests : User(s)' = u => pc'[s] \notin Making
  <2>1. PICK label \in {"insert", "failed", "role", "done", "find"} : Goto(r, label)
    BY <1>4 DEF CheckEmail, InsertUser, AssignRole, CompareToken, RequestFails
  <2>2. UNCHANGED wish /\ label \in Labels /\ label \notin Making
    BY <1>4 DEF CheckEmail, InsertUser, AssignRole, CompareToken, RequestFails, Labels, InFlight
  <2> QED
    BY <1>2, <2>1, <2>2
<1>5. ASSUME NEW r \in Requests, FindByEmail(r)
      PROVE  \A s \in Requests : User(s)' = u => pc'[s] \notin Making
  <2>1. PICK label \in {"bcrypt", "failed"} :
          Goto(r, label) /\ (label = "bcrypt" => User(r) \notin disabled)
    BY <1>5 DEF FindByEmail, Enabled
  <2>2. UNCHANGED wish /\ label \in Labels
    BY <1>5 DEF FindByEmail, Labels, InFlight
  <2> QED
    BY <1>0, <1>2, <2>1, <2>2
<1>6. ASSUME NEW r \in Requests, FindById(r)
      PROVE  \A s \in Requests : User(s)' = u => pc'[s] \notin Making
  <2>1. PICK label \in {"store", "failed"} :
          Goto(r, label) /\ (label = "store" => User(r) \notin disabled)
    BY <1>6 DEF FindById, MayRefresh, Enabled, Sign
  <2>2. UNCHANGED wish /\ label \in Labels
    BY <1>6 DEF FindById, Labels, InFlight
  <2> QED
    BY <1>0, <1>2, <2>1, <2>2
<1>7. ASSUME NEW r \in Requests, ComparePassword(r) \/ StoreToken(r)
      PROVE  /\ \A s \in Requests : User(s)' = u => pc'[s] \notin Making
             /\ session'[u] = session[u] /\ issued'[u] = issued[u]
  <2>1. User(r) # u
    BY <1>0, <1>7 DEF ComparePassword, StoreToken
  <2>2. PICK label \in {"store", "failed", "done"} : Goto(r, label) /\ label \in Labels
    BY <1>7 DEF ComparePassword, StoreToken, Sign, Labels, InFlight
  <2>3. UNCHANGED wish /\ session'[u] = session[u] /\ issued'[u] = issued[u]
    BY <1>7, <2>1 DEF ComparePassword, StoreToken, SessionsTypeOK, User
  <2> QED
    BY <1>2, <2>1, <2>2, <2>3
<1>8. ASSUME NEW r \in Requests, Logout(r)
      PROVE  /\ \A s \in Requests : User(s)' = u => pc'[s] \notin Making
             /\ issued'[u] = issued[u] /\ TimeLeft(u)' <= TimeLeft(u)
  <2>1. Goto(r, "done") /\ "done" \in Labels /\ UNCHANGED <<wish, issued>>
    BY <1>8 DEF Logout, Labels
  <2>2. session'[u] = NoSession \/ session'[u] = session[u]
    BY <1>8 DEF Logout, SessionsTypeOK
  <2>3. TimeLeft(u)' <= TimeLeft(u)
    BY <1>0, <2>2 DEF TimeLeft
  <2> QED
    BY <1>2, <2>1, <2>3
<1>9. CASE Tick
  <2>1. UNCHANGED <<issued, pc, wish>>
    BY <1>9 DEF Tick, requestVars
  <2>2. TimeLeft(u)' <= TimeLeft(u)
    <3>1. CASE session[u] = NoSession
      BY <1>0, <1>9, <3>1 DEF Tick, TimeLeft
    <3>2. CASE session[u] # NoSession
      <4>1. session[u] \in [token : Nat, left : Nat] /\ session'[u] = Aged(session[u])
        BY <1>9, <3>2 DEF Tick, SessionsTypeOK
      <4> QED
        BY <3>2, <4>1, AgedTyped DEF TimeLeft
    <3> QED
      BY <3>1, <3>2
  <2> QED
    BY <1>0, <2>1, <2>2 DEF User
<1>10. CASE \E v \in Users : SwitchUser(v)
  <2>1. UNCHANGED <<session, issued, pc, wish>>
    BY <1>10 DEF SwitchUser, requestVars
  <2> QED
    BY <1>0, <1>3, <2>1 DEF User
<1>11. ASSUME NEW r \in Requests,
              \/ CheckEmail(r) \/ InsertUser(r) \/ AssignRole(r) \/ CompareToken(r)
              \/ RequestFails(r) \/ FindByEmail(r) \/ FindById(r) \/ ComparePassword(r)
       PROVE  UNCHANGED <<session, issued>>
  BY <1>11 DEF CheckEmail, InsertUser, AssignRole, CompareToken, RequestFails, FindByEmail,
               FindById, ComparePassword
<1>12. ASSUME session'[u] = session[u] PROVE TimeLeft(u)' <= TimeLeft(u)
  BY <1>0, <1>12 DEF TimeLeft
<1> QED
  BY <1>3, <1>4, <1>5, <1>6, <1>7, <1>8, <1>9, <1>10, <1>11, <1>12 DEF SessionsNext

(* While is_active is FALSE the user gets nothing: neither a login nor a   *)
(* refresh that had not passed its check yet.                              *)
THEOREM DisabledUsersGetNothing == SessionsSpec => DisabledGetsNothing
<1>1. ASSUME SessionsInv, [SessionsNext]_sessionVars
      PROVE  [\A u \in Users :
                Shut(u) /\ u \in disabled' =>
                   Shut(u)' /\ issued'[u] = issued[u] /\ TimeLeft(u)' <= TimeLeft(u)]_sessionVars
  BY <1>1, ShutKept DEF SessionsInv
<1> QED
  BY <1>1, SessionsInvariant, PTL DEF SessionsSpec, DisabledGetsNothing
=============================================================================
