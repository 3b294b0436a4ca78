------------------------------- MODULE Login -------------------------------
(***************************************************************************)
(* One account and one address it is used from: sign-in with its throttle  *)
(* in Redis (src/backend/app/auth/ratelimit.py), changes of the password   *)
(* and the browser's session (src/backend/app/api/auth_api.py), and        *)
(* nls-admin create-admin (src/backend/app/cli.py:50-81).                  *)
(*                                                                         *)
(* Requests run in several API processes.  Each of their steps is what     *)
(* happens at one time in Redis, or up to the next call of SQLite.         *)
(* Passwords are numbered in the order in which they were set, 0 being one *)
(* that never is.                                                          *)
(***************************************************************************)
EXTENDS Requests, Integers, FiniteSets

CONSTANTS MaxFailures,   \* auth.max_failed_logins
          MaxPasswords,  \* bound on the passwords set
          MaxCounted,    \* bound on the failures that unchecked logins add to
          LoginFaults    \* {"redis"}: Redis may not answer

ASSUME LoginAssumption == /\ MaxFailures \in Nat \ {0}
                          /\ MaxPasswords \in Nat
                          /\ MaxCounted \in Nat
                          /\ LoginFaults \subseteq {"redis"}

VARIABLES failures,   \* the counter nls:login_fail:<ip>:<name>, 0 if missing
          expires,    \* it has a time to live
          account,    \* the row of the users table
          set,        \* passwords set so far
          session,    \* the browser holds a token that is valid
          pc,         \* where each request is
          typed,      \* the password it came with
          rehash,     \* needs_rehash() of the hash it was verified against
          unchecked,  \* a check did not get an answer from Redis
          overtaken   \* a password was set under a login that rehashes

throttleVars == <<failures, expires, unchecked>>
accountVars == <<account, set, overtaken>>
requestVars == <<pc, typed, rehash>>
loginVars == <<throttleVars, accountVars, session, requestVars>>

Password == 0..MaxPasswords

(* No row; a row is never deleted. *)
NoAccount == [password |-> 0, outdated |-> FALSE]
Account == [password : Password, outdated : BOOLEAN]

LoginInit == /\ failures = 0 /\ expires = FALSE
             /\ account = NoAccount
             /\ set = 0
             /\ session = FALSE
             /\ pc = [r \in Request |-> "idle"]
             /\ typed = [r \in Request |-> 0]
             /\ rehash = [r \in Request |-> FALSE]
             /\ unchecked = FALSE
             /\ overtaken = FALSE

Goto(r, label) == pc' = [pc EXCEPT ![r] = label]

(* The response; what the request knew is gone. *)
End(r) == /\ Goto(r, "idle")
          /\ typed' = [typed EXCEPT ![r] = 0]
          /\ rehash' = [rehash EXCEPT ![r] = FALSE]

-----------------------------------------------------------------------------
(* Mutation: one failure more than configured. *)
AllowedOneMore == failures <= MaxFailures

(* check() finds no counter, or one below the limit. *)
Allowed == failures < MaxFailures

(* login() up to the reply to GET.  At the limit the request is refused,   *)
(* which changes nothing; without a reply it is allowed.                   *)
Check(r, p) == /\ pc[r] = "idle"
               /\ \/ Allowed /\ UNCHANGED unchecked
                  \/ "redis" \in LoginFaults /\ failures < MaxCounted /\ unchecked' = TRUE
               /\ Goto(r, "allowed")
               /\ typed' = [typed EXCEPT ![r] = p]
               /\ UNCHANGED <<failures, expires, accountVars, session, rehash>>

(* verify_password of the row's hash, or of a dummy hash without a row. *)
Correct(r) == account # NoAccount /\ typed[r] = account.password

(* get_user() and the verification, up to the throttle's next command. *)
Verify(r) == /\ pc[r] = "allowed"
             /\ IF Correct(r)
                THEN /\ Goto(r, "right")
                     /\ rehash' = [rehash EXCEPT ![r] = account.outdated]
                ELSE Goto(r, "wrong") /\ UNCHANGED rehash
             /\ UNCHANGED <<throttleVars, accountVars, session, typed>>

(* Mutation: the counter is given no time to live. *)
CountedFailureForever == failures' = failures + 1 /\ UNCHANGED expires

(* INCR and EXPIRE in one MULTI. *)
CountedFailure == failures' = failures + 1 /\ expires' = TRUE

(* record_failure(), executed or not, and the 401. *)
RecordFailure(r) == /\ pc[r] = "wrong"
                    /\ \/ CountedFailure
                       \/ "redis" \in LoginFaults /\ UNCHANGED <<failures, expires>>
                    /\ End(r)
                    /\ UNCHANGED <<unchecked, accountVars, session>>

(* Mutation: one failure is taken back, also when there is none. *)
OneForgotten == failures' = failures - 1 /\ UNCHANGED expires

AllForgotten == failures' = 0 /\ expires' = FALSE

(* clear(), executed or not. *)
Clear(r) == /\ pc[r] = "right"
            /\ \/ AllForgotten
               \/ "redis" \in LoginFaults /\ UNCHANGED <<failures, expires>>
            /\ Goto(r, "cleared")
            /\ UNCHANGED <<unchecked, accountVars, session, typed, rehash>>

(* Mutation: the password is hashed again at every login. *)
RehashesAll(r) == TRUE

Rehashes(r) == rehash[r]

(* The rest of login(): set_password() with the password typed if the hash *)
(* read before the await is outdated, touch_login(), the cookie.           *)
SignIn(r) == /\ pc[r] = "cleared"
             /\ account' = IF Rehashes(r)
                           THEN [password |-> typed[r], outdated |-> FALSE]
                           ELSE account
             /\ session' = TRUE
             /\ End(r)
             /\ UNCHANGED <<throttleVars, set, overtaken>>

-----------------------------------------------------------------------------
(* A new password in the row.  A login that will rehash has the old one. *)
SetPassword ==
  /\ set < MaxPasswords
  /\ set' = set + 1
  /\ account' = [password |-> set + 1, outdated |-> FALSE]
  /\ overtaken' = (overtaken \/ \E q \in Request : pc[q] \in {"right", "cleared"} /\ rehash[q])

(* change_password() up to the verification; require_user() has accepted   *)
(* the token.  A wrong password, or a new one with problems, changes       *)
(* nothing.                                                                *)
BeginChange(r, p) == /\ pc[r] = "idle"
                     /\ session
                     /\ account # NoAccount /\ account.password = p
                     /\ Goto(r, "changing")
                     /\ UNCHANGED <<throttleVars, accountVars, session, typed, rehash>>

ChangePassword(r) == /\ pc[r] = "changing"
                     /\ SetPassword
                     /\ End(r)
                     /\ UNCHANGED <<throttleVars, session>>

(* create-admin: a row if there is none, a new password, with --force, if  *)
(* there is.  The row's must_change is not modelled.                       *)
CreateAdmin == SetPassword /\ UNCHANGED <<throttleVars, session, requestVars>>

(* logout(), or the cookie or its token comes to its end. *)
Logout == /\ session
          /\ session' = FALSE
          /\ UNCHANGED <<throttleVars, accountVars, requestVars>>

(* The counter's time to live ends. *)
Expire == /\ expires
          /\ AllForgotten
          /\ UNCHANGED <<unchecked, accountVars, session, requestVars>>

LoginStep(r) == \/ \E p \in Password : Check(r, p) \/ BeginChange(r, p)
                \/ Verify(r) \/ RecordFailure(r) \/ Clear(r) \/ SignIn(r)
                \/ ChangePassword(r)

LoginNext == (\E r \in Request : LoginStep(r)) \/ CreateAdmin \/ Logout \/ Expire

-----------------------------------------------------------------------------
LoginTypeOK ==
  /\ failures \in Nat /\ expires \in BOOLEAN
  /\ account \in Account
  /\ set \in Password
  /\ session \in BOOLEAN
  /\ pc \in [Request -> {"idle", "allowed", "wrong", "right", "cleared", "changing"}]
  /\ typed \in [Request -> Password]
  /\ rehash \in [Request -> BOOLEAN]
  /\ unchecked \in BOOLEAN /\ overtaken \in BOOLEAN

UnderWay == {r \in Request : pc[r] \in {"allowed", "wrong"}}

(* The counter is read before and written after the verification, so it    *)
(* can pass the limit; by one failure per request under way at most, as    *)
(* long as Redis answers the checks, in however many processes they are.   *)
FewFailures ==
  ~unchecked => failures + Cardinality(UnderWay) <= MaxFailures - 1 + Cardinality(Request)

(* A counter is there only with a time to live, so that a lockout ends     *)
(* without anyone's doing (ratelimit.py:42-46: the MULTI).                 *)
LockoutEnds == failures >= MaxFailures ~> failures < MaxFailures

(* The account has the password that was set last, whatever logins are     *)
(* under way when it is; except for one that was verified against an       *)
(* outdated hash before: it writes the old password back                   *)
(* (auth_api.py:57-58).                                                    *)
LastPasswordStays == ~overtaken => account.password = set
=============================================================================
