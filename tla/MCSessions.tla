----------------------------- MODULE MCSessions -----------------------------
(***************************************************************************)
(* Small instances of Sessions for TLC.                                    *)
(***************************************************************************)
EXTENDS Sessions

MCExpiration == [unit |-> "h", amount |-> 2]

(* The requests are those of one user, who registers with one of them or   *)
(* has done so before; one of each order of them is enough.  Unless the    *)
(* user waits, one logs out or some register, but not both.                *)
Number(op) == CASE op = "register" -> 1 [] op = "login" -> 2 [] op = "refresh" -> 3 [] op = "logout" -> 4

MCInit ==
    /\ SessionsInit
    /\ \A r, s \in Requests : User(r) = User(s)
    /\ \A r, s \in Requests : r < s => Number(wish[r].op) <= Number(wish[s].op)
    /\ \A u \in Users : account[u] = "member" <=>
         \A r \in Requests : User(r) = u /\ wish[r].op # "register"
    /\ \A r, s \in Requests : wish[r].op = "logout" /\ wish[s].op \in {"register", "logout"} => r = s
    /\ \A r \in Requests : User(r) \in Patient \/ wish[1].op = "register" \/ wish[4].op = "logout"

MCSpec == MCInit /\ [][SessionsNext]_sessionVars /\ WF_sessionVars(Tick)
=============================================================================
