-------------------------------- MODULE Api --------------------------------
(***************************************************************************)
(* The web API's requests: sign-in and passwords (Login), and the queries  *)
(* of ClickHouse that a signed-in browser or the health check asks for     *)
(* (ClickHouseClient), across restarts of the process                      *)
(* (src/backend/app/api/app.py:42-61).                                     *)
(***************************************************************************)
EXTENDS Login, ClickHouseClient

vars == <<loginVars, clientVars>>

Init == LoginInit /\ ClientInit

Idle(r) == pc[r] = "idle" /\ at[r] = "idle"

SignInOrPassword(r) == /\ at[r] = "idle"
                       /\ LoginStep(r)
                       /\ UNCHANGED clientVars

(* require_user() at the start of all but the health check. *)
Query(r) == /\ Idle(r)
            /\ \E k \in Kind : /\ k = "ping" \/ session
                             /\ BeginQuery(r, k)
            /\ UNCHANGED loginVars

QueryStep(r) == ClientStep(r) /\ UNCHANGED loginVars

Elsewhere == (CreateAdmin \/ Logout \/ Expire) /\ UNCHANGED clientVars

(* The process ends, killed or not, and its requests and its client with   *)
(* it; the counter stays in Redis and the row in SQLite.  The next process *)
(* may run a release with other Argon2 parameters.                         *)
Restart == /\ \E r \in Request : ~Idle(r)
           /\ pc' = [r \in Request |-> "idle"]
           /\ typed' = [r \in Request |-> 0]
           /\ rehash' = [r \in Request |-> FALSE]
           /\ at' = [r \in Request |-> "idle"]
           /\ kind' = [r \in Request |-> "query"]
           /\ holds' = [r \in Request |-> NoClient]
           /\ disturbed' = [r \in Request |-> FALSE]
           /\ client' = NoClient
           /\ closed' = {}
           /\ account' \in {account, [account EXCEPT !.outdated = account # NoAccount]}
           /\ UNCHANGED <<throttleVars, set, overtaken, session>>

Next == \/ \E r \in Request : SignInOrPassword(r) \/ Query(r) \/ QueryStep(r)
        \/ Elsewhere
        \/ Restart

(* Redis ends what it gave a time to live. *)
Spec == Init /\ [][Next]_vars /\ WF_vars(Expire /\ UNCHANGED clientVars)

-----------------------------------------------------------------------------
TypeOK == LoginTypeOK /\ ClientTypeOK
=============================================================================
