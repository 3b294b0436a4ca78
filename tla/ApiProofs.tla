----------------------------- MODULE ApiProofs -----------------------------
(***************************************************************************)
(* Proofs about Api, for any number of requests, clients and passwords,    *)
(* with or without failures of Redis and of ClickHouse.                    *)
(*                                                                         *)
(* Login and ClickHouseClient share no variable, so each has an inductive  *)
(* invariant of its own; Restart is the only step that changes both.       *)
(***************************************************************************)
EXTENDS Api, FiniteSetTheorems, TLAPS

-----------------------------------------------------------------------------
(* The password of the row is the one set last, and so is the one that a   *)
(* login holds that will hash it again, until one is set under it.         *)
PasswordHeld == \A r \in Request : ~overtaken /\ pc[r] \in {"right", "cleared"} /\ rehash[r]
                                     => typed[r] = account.password

LoginInv == LoginTypeOK /\ FewFailures /\ LastPasswordStays /\ PasswordHeld

(* No closed client and no None is left to a request that nothing has      *)
(* disturbed: whoever reads the attribute while it is one of them began    *)
(* before the client was closed, or while it was being closed.             *)
ClientInv == /\ ClientTypeOK
             /\ \A q, r \in Closing : q = r
             /\ \A r \in Request : at[r] = "closing" => client # NoClient
             /\ client \in closed =>
                  \E u \in Request : /\ at[u] = "unsetting"
                                     /\ \A q \in Request \ {u} : at[q] # "idle" => disturbed[q]
             /\ \A r \in Request : /\ at[r] = "reading" /\ client = NoClient => disturbed[r]
                                   /\ at[r] = "querying" /\ holds[r] \in closed => disturbed[r]
             /\ FailureContained

-----------------------------------------------------------------------------
(* A step of a login or a change of the password keeps the types.          *)
LEMMA LoginTypes == ASSUME LoginTypeOK, LoginNext PROVE LoginTypeOK'
<1> USE LoginAssumption DEF LoginTypeOK, Account, Password, Goto, End,
        throttleVars, accountVars, requestVars
<1>1. ASSUME NEW r \in Request, NEW p \in Password, Check(r, p) PROVE LoginTypeOK'
  BY <1>1 DEF Check, Allowed
<1>2. ASSUME NEW r \in Request, Verify(r) PROVE LoginTypeOK'
  <2>1. pc' \in [Request -> {"idle", "allowed", "wrong", "right", "cleared", "changing"}]
    BY <1>2 DEF Verify
  <2>2. account.outdated \in BOOLEAN
    OBVIOUS
  <2>3. rehash' \in [Request -> BOOLEAN]
    BY <1>2, <2>2 DEF Verify
  <2>4. /\ failures' \in Nat /\ expires' \in BOOLEAN /\ unchecked' \in BOOLEAN
        /\ account' \in Account /\ set' \in Password /\ overtaken' \in BOOLEAN
        /\ session' \in BOOLEAN /\ typed' \in [Request -> Password]
    BY <1>2 DEF Verify
  <2> QED
    BY <2>1, <2>3, <2>4
<1>3. ASSUME NEW r \in Request, RecordFailure(r) PROVE LoginTypeOK'
  <2>0. failures' \in Nat
    BY <1>3 DEF RecordFailure, CountedFailure
  <2>1. expires' \in BOOLEAN
    BY <1>3 DEF RecordFailure, CountedFailure
  <2>2. /\ pc' \in [Request -> {"idle", "allowed", "wrong", "right", "cleared", "changing"}]
        /\ typed' \in [Request -> Password]
        /\ rehash' \in [Request -> BOOLEAN]
    BY <1>3 DEF RecordFailure
  <2>3. UNCHANGED <<unchecked, account, set, overtaken, session>>
    BY <1>3 DEF RecordFailure
  <2> QED
    BY <2>0, <2>1, <2>2, <2>3
<1>4. ASSUME NEW r \in Request, Clear(r) PROVE LoginTypeOK'
  <2>0. failures' \in Nat
    BY <1>4 DEF Clear, AllForgotten
  <2>1. expires' \in BOOLEAN
    BY <1>4 DEF Clear, AllForgotten
  <2>2. pc' \in [Request -> {"idle", "allowed", "wrong", "right", "cleared", "changing"}]
    BY <1>4 DEF Clear
  <2>3. UNCHANGED <<unchecked, account, set, overtaken, session, typed, rehash>>
    BY <1>4 DEF Clear
  <2> QED
    BY <2>0, <2>1, <2>2, <2>3
<1>5. ASSUME NEW r \in Request, SignIn(r) PROVE LoginTypeOK'
  BY <1>5 DEF SignIn, Rehashes
<1>6. ASSUME NEW r \in Request, NEW p \in Password, BeginChange(r, p) PROVE LoginTypeOK'
  BY <1>6 DEF BeginChange
<1>7. ASSUME NEW r \in Request, ChangePassword(r) PROVE LoginTypeOK'
  BY <1>7 DEF ChangePassword, SetPassword
<1>8. CASE CreateAdmin
  BY <1>8 DEF CreateAdmin, SetPassword
<1>9. CASE Logout
  BY <1>9 DEF Logout
<1>10. CASE Expire
  BY <1>10 DEF Expire, AllForgotten
<1> QED
  BY <1>1, <1>2, <1>3, <1>4, <1>5, <1>6, <1>7, <1>8, <1>9, <1>10 DEF LoginNext, LoginStep

(* What a set of requests loses makes it no larger, and it is no larger    *)
(* than the set of all.                                                    *)
LEMMA UnderWayBounded == /\ Cardinality(Request) \in Nat
                         /\ Cardinality(UnderWay) \in Nat
                         /\ Cardinality(UnderWay') \in Nat
                         /\ Cardinality(UnderWay') <= Cardinality(Request)
                         /\ UnderWay' \subseteq UnderWay =>
                              Cardinality(UnderWay') <= Cardinality(UnderWay)
                         /\ \A r \in UnderWay : UnderWay' = UnderWay \ {r} =>
                              Cardinality(UnderWay') = Cardinality(UnderWay) - 1
<1>1. IsFiniteSet(Request) /\ UnderWay \in SUBSET Request /\ UnderWay' \in SUBSET Request
  BY RequestAssumption DEF UnderWay
<1>2. IsFiniteSet(UnderWay) /\ IsFiniteSet(UnderWay')
  BY <1>1, FS_Subset
<1>3. /\ Cardinality(Request) \in Nat
      /\ Cardinality(UnderWay) \in Nat
      /\ Cardinality(UnderWay') \in Nat
  BY <1>1, <1>2, FS_CardinalityType
<1>4. Cardinality(UnderWay') <= Cardinality(Request)
  BY <1>1, FS_Subset
<1>5. UnderWay' \subseteq UnderWay => Cardinality(UnderWay') <= Cardinality(UnderWay)
  BY <1>2, FS_Subset
<1>6. \A r \in UnderWay : Cardinality(UnderWay \ {r}) = Cardinality(UnderWay) - 1
  BY <1>2, FS_RemoveElement
<1> QED
  BY <1>3, <1>4, <1>5, <1>6

(* A check is passed below the limit only, a failure that is counted takes *)
(* a request off those under way, and nothing else adds to either.         *)
LEMMA ThrottleKeeps == ASSUME LoginTypeOK, FewFailures, LoginNext PROVE FewFailures'
<1> USE LoginAssumption, UnderWayBounded DEF FewFailures
<1>1. ASSUME NEW r \in Request, NEW p \in Password, Check(r, p) PROVE FewFailures'
  <2>1. unchecked' \/ failures <= MaxFailures - 1
    BY <1>1 DEF Check, Allowed, LoginTypeOK
  <2>2. failures' = failures
    BY <1>1 DEF Check
  <2> QED
    BY <2>1, <2>2 DEF LoginTypeOK
<1>2. ASSUME failures' <= failures, UnderWay' \subseteq UnderWay, unchecked' = unchecked,
             failures' \in Nat
      PROVE  FewFailures'
  BY <1>2 DEF LoginTypeOK
<1>3. ASSUME NEW r \in Request, Verify(r) PROVE FewFailures'
  BY <1>2, <1>3 DEF Verify, throttleVars, Goto, UnderWay, LoginTypeOK
<1>4. ASSUME NEW r \in Request, RecordFailure(r) PROVE FewFailures'
  <2>1. r \in UnderWay /\ UnderWay' = UnderWay \ {r}
    BY <1>4 DEF RecordFailure, End, Goto, UnderWay, LoginTypeOK
  <2>2. failures' \in {failures, failures + 1} /\ unchecked' = unchecked
    BY <1>4 DEF RecordFailure, CountedFailure
  <2>3. Cardinality(UnderWay') = Cardinality(UnderWay) - 1
    BY <2>1, UnderWayBounded
  <2> QED
    BY <2>2, <2>3 DEF LoginTypeOK
<1>5. ASSUME NEW r \in Request, Clear(r) PROVE FewFailures'
  BY <1>2, <1>5 DEF Clear, AllForgotten, Goto, UnderWay, LoginTypeOK
<1>6. ASSUME NEW r \in Request, SignIn(r) PROVE FewFailures'
  BY <1>2, <1>6 DEF SignIn, End, throttleVars, Goto, UnderWay, LoginTypeOK
<1>7. ASSUME NEW r \in Request, NEW p \in Password, BeginChange(r, p) PROVE FewFailures'
  BY <1>2, <1>7 DEF BeginChange, throttleVars, Goto, UnderWay, LoginTypeOK
<1>8. ASSUME NEW r \in Request, ChangePassword(r) PROVE FewFailures'
  BY <1>2, <1>8 DEF ChangePassword, throttleVars, End, Goto, UnderWay, LoginTypeOK
<1>9. CASE CreateAdmin
  BY <1>2, <1>9 DEF CreateAdmin, throttleVars, requestVars, UnderWay, LoginTypeOK
<1>10. CASE Logout
  BY <1>2, <1>10 DEF Logout, throttleVars, requestVars, UnderWay, LoginTypeOK
<1>11. CASE Expire
  BY <1>2, <1>11 DEF Expire, AllForgotten, requestVars, UnderWay, LoginTypeOK
<1> QED
  BY <1>1, <1>3, <1>4, <1>5, <1>6, <1>7, <1>8, <1>9, <1>10, <1>11 DEF LoginNext, LoginStep

-----------------------------------------------------------------------------
(* A new password is the one set last, and marks the logins that hold the  *)
(* one before as overtaken; a login holds what the row has.                *)
LEMMA PasswordKeeps == ASSUME LoginTypeOK, LastPasswordStays, PasswordHeld, LoginNext
                       PROVE  LastPasswordStays' /\ PasswordHeld'
<1> DEFINE Goal == LastPasswordStays' /\ PasswordHeld'
<1> USE DEF LoginTypeOK, LastPasswordStays, PasswordHeld, Account
<1>1. ASSUME UNCHANGED <<account, set, overtaken>>,
             \A q \in Request : pc'[q] \in {"right", "cleared"} /\ rehash'[q] =>
               \/ pc[q] \in {"right", "cleared"} /\ rehash[q] /\ typed'[q] = typed[q]
               \/ typed'[q] = account.password
      PROVE  Goal
  BY <1>1
<1>2. ASSUME NEW r \in Request, NEW p \in Password, Check(r, p) PROVE Goal
  BY <1>1, <1>2 DEF Check, Goto, accountVars
<1>3. ASSUME NEW r \in Request, Verify(r) PROVE Goal
  BY <1>1, <1>3 DEF Verify, Correct, Goto, accountVars
<1>4. ASSUME NEW r \in Request, RecordFailure(r) PROVE Goal
  BY <1>1, <1>4 DEF RecordFailure, End, Goto, accountVars
<1>5. ASSUME NEW r \in Request, Clear(r) PROVE Goal
  BY <1>1, <1>5 DEF Clear, Goto, accountVars
<1>6. ASSUME NEW r \in Request, SignIn(r) PROVE Goal
  <2>1. ~overtaken => account'.password = account.password
    BY <1>6 DEF SignIn, Rehashes
  <2>2. UNCHANGED <<set, overtaken>>
    BY <1>6 DEF SignIn
  <2>3. \A q \in Request : pc'[q] \in {"right", "cleared"} =>
          pc[q] \in {"right", "cleared"} /\ rehash'[q] = rehash[q] /\ typed'[q] = typed[q]
    BY <1>6 DEF SignIn, End, Goto
  <2> QED
    BY <2>1, <2>2, <2>3
<1>7. ASSUME NEW r \in Request, NEW p \in Password, BeginChange(r, p) PROVE Goal
  BY <1>1, <1>7 DEF BeginChange, Goto, accountVars
<1>8. ASSUME SetPassword,
             \A q \in Request : pc'[q] \in {"right", "cleared"} =>
               pc[q] \in {"right", "cleared"} /\ rehash'[q] = rehash[q]
      PROVE  Goal
  BY <1>8 DEF SetPassword
<1>9. ASSUME NEW r \in Request, ChangePassword(r) PROVE Goal
  BY <1>8, <1>9 DEF ChangePassword, End, Goto
<1>10. CASE CreateAdmin
  BY <1>8, <1>10 DEF CreateAdmin, requestVars
<1>11. CASE Logout
  BY <1>1, <1>11 DEF Logout, requestVars, accountVars
<1>12. CASE Expire
  BY <1>1, <1>12 DEF Expire, requestVars, accountVars
<1> QED
  BY <1>2, <1>3, <1>4, <1>5, <1>6, <1>7, <1>9, <1>10, <1>11, <1>12 DEF LoginNext, LoginStep

(* The invariant of Login is inductive.                                    *)
LEMMA LoginKeeps == ASSUME LoginInv, LoginNext PROVE LoginInv'
BY LoginTypes, ThrottleKeeps, PasswordKeeps DEF LoginInv

-----------------------------------------------------------------------------
(* Names that are in use: what a step leaves out of closed was in it.      *)
LEMMA ClientTypes == ASSUME ClientInv, NEW r \in Request,
                            ClientStep(r) \/ \E k \in Kind : BeginQuery(r, k)
                     PROVE  ClientTypeOK'
<1> USE ClientAssumption DEF ClientInv, ClientTypeOK, Kind, MoveTo, Answered, sharedVars
<1>1. ASSUME NEW k \in Kind, BeginQuery(r, k) PROVE ClientTypeOK'
  BY <1>1 DEF BeginQuery
<1>2. CASE TestClient(r)
  BY <1>2 DEF TestClient
<1>3. CASE BuildClient(r)
  <2>1. client' \in Client
    BY <1>3 DEF BuildClient, Unused
  <2> QED
    BY <1>3, <2>1 DEF BuildClient
<1>4. CASE ReadClient(r)
  BY <1>4 DEF ReadClient
<1>5. CASE QueryOk(r)
  BY <1>5 DEF QueryOk
<1>6. CASE QueryOnClosedFails(r)
  BY <1>6 DEF QueryOnClosedFails
<1>7. CASE ClickHouseFails(r)
  BY <1>7 DEF ClickHouseFails
<1>8. CASE FailsOnly(r)
  BY <1>8 DEF FailsOnly
<1>9. CASE TestClose(r)
  BY <1>9 DEF TestClose
<1>10. CASE CloseClient(r)
  <2>1. closed' \subseteq Client
    BY <1>10 DEF CloseClient
  <2>2. disturbed' \in [Request -> BOOLEAN]
    BY <1>10 DEF CloseClient, Disturb
  <2>3. at' \in [Request -> {"idle", "testing", "building", "reading", "querying",
                             "failed", "closing", "unsetting"}]
    BY <1>10 DEF CloseClient
  <2> QED
    BY <1>10, <2>1, <2>2, <2>3 DEF CloseClient
<1>11. CASE UnsetClient(r)
  <2>1. disturbed' \in [Request -> BOOLEAN]
    BY <1>11 DEF UnsetClient
  <2>2. closed' \subseteq Client /\ client' = NoClient
    BY <1>11 DEF UnsetClient, Unset
  <2>3. /\ kind' \in [Request -> {"query", "ping", "alter"}]
        /\ holds' \in [Request -> Client \cup {NoClient}]
        /\ at' \in [Request -> {"idle", "testing", "building", "reading", "querying",
                                "failed", "closing", "unsetting"}]
    BY <1>11 DEF UnsetClient
  <2> QED
    BY <2>1, <2>2, <2>3
<1> QED
  BY <1>1, <1>2, <1>3, <1>4, <1>5, <1>6, <1>7, <1>8, <1>9, <1>10, <1>11 DEF ClientStep

(* The invariant of ClickHouseClient is inductive: only the two steps that *)
(* close a client take it from others, and both disturb them all.          *)
LEMMA ClientKeeps == ASSUME ClientInv, NEW r \in Request,
                            ClientStep(r) \/ \E k \in Kind : BeginQuery(r, k)
                     PROVE  ClientInv'
<1>1. ClientTypeOK /\ ClientTypeOK'
  BY ClientTypes DEF ClientInv
<1> DEFINE Rest == /\ \A q, s \in Closing : q = s
                   /\ \A q \in Request : at[q] = "closing" => client # NoClient
                   /\ client \in closed =>
                        \E u \in Request :
                          /\ at[u] = "unsetting"
                          /\ \A q \in Request \ {u} : at[q] # "idle" => disturbed[q]
                   /\ \A q \in Request :
                        /\ at[q] = "reading" /\ client = NoClient => disturbed[q]
                        /\ at[q] = "querying" /\ holds[q] \in closed => disturbed[q]
                   /\ FailureContained
<1>2. SUFFICES Rest'
  BY <1>1 DEF ClientInv
<1> USE <1>1, ClientAssumption DEF ClientInv, ClientTypeOK, FailureContained, Closing, MoveTo,
        Answered, sharedVars
<1>3. ASSUME NEW k \in Kind, BeginQuery(r, k) PROVE Rest'
  <2>1. \A q \in Request \ {r} : at'[q] = at[q] /\ disturbed'[q] = disturbed[q]
    BY <1>3 DEF BeginQuery
  <2>2. at[r] = "idle" /\ at'[r] = "testing" /\ (disturbed'[r] <=> Closing # {})
    BY <1>3 DEF BeginQuery
  <2>3. UNCHANGED <<client, closed, holds>>
    BY <1>3 DEF BeginQuery
  <2> QED
    BY <2>1, <2>2, <2>3
<1>4. CASE TestClient(r)
  BY <1>4 DEF TestClient
<1>5. CASE BuildClient(r)
  <2>1. client' \in Client /\ client' \notin closed
    BY <1>5 DEF BuildClient, Unused
  <2>2. closed' \subseteq closed
    BY <1>5 DEF BuildClient
  <2>3. UNCHANGED <<holds, disturbed>>
    BY <1>5 DEF BuildClient
  <2>4. /\ at[r] = "building" /\ at'[r] = "reading"
        /\ \A q \in Request \ {r} : at'[q] = at[q]
    BY <1>5 DEF BuildClient
  <2>5. client' # NoClient /\ client' \notin closed'
    BY <2>1, <2>2
  <2>6. \A q \in Request : holds[q] \in closed' => holds[q] \in closed
    BY <2>2
  <2> QED
    BY <2>3, <2>4, <2>5, <2>6
<1>6. CASE ReadClient(r)
  BY <1>6 DEF ReadClient
<1>7. CASE QueryOk(r)
  BY <1>7 DEF QueryOk
<1>8. CASE QueryOnClosedFails(r)
  BY <1>8 DEF QueryOnClosedFails
<1>9. CASE ClickHouseFails(r)
  BY <1>9 DEF ClickHouseFails
<1>10. CASE FailsOnly(r)
  BY <1>10 DEF FailsOnly
<1>11. CASE TestClose(r)
  BY <1>11 DEF TestClose
<1>12. CASE CloseClient(r)
  <2>1. \A q \in Request \ {r} : at'[q] = at[q] /\ (at[q] # "idle" => disturbed'[q])
    BY <1>12 DEF CloseClient, Disturb
  <2>2. at[r] = "closing" /\ at'[r] = "unsetting"
    BY <1>12 DEF CloseClient
  <2>3. client' = client /\ holds' = holds
    BY <1>12 DEF CloseClient
  <2> QED
    BY <2>1, <2>2, <2>3
<1>13. CASE UnsetClient(r)
  <2>1. \A q \in Request \ {r} : at'[q] = at[q] /\ (at[q] # "idle" => disturbed'[q])
    BY <1>13 DEF UnsetClient
  <2>2. at[r] = "unsetting" /\ at'[r] = "idle"
    BY <1>13 DEF UnsetClient
  <2>3. client' = NoClient /\ NoClient \notin closed'
    BY <1>13 DEF UnsetClient, Unset
  <2> QED
    BY <2>1, <2>2, <2>3
<1> QED
  BY <1>3, <1>4, <1>5, <1>6, <1>7, <1>8, <1>9, <1>10, <1>11, <1>12, <1>13 DEF ClientStep

-----------------------------------------------------------------------------
(* The conjunction is an invariant of the whole.                           *)
THEOREM Invariant == Spec => [](LoginInv /\ ClientInv)
<1>1. Init => LoginInv /\ ClientInv
  <2> SUFFICES ASSUME Init PROVE LoginInv /\ ClientInv
    OBVIOUS
  <2>1. LoginTypeOK /\ LastPasswordStays /\ PasswordHeld
    <3>1. 0 \in Password
      BY LoginAssumption DEF Password
    <3>2. account = NoAccount /\ NoAccount \in Account /\ account.password = 0
      BY <3>1 DEF Init, LoginInit, NoAccount, Account
    <3>3. failures \in Nat
      BY DEF Init, LoginInit
    <3>4. LoginTypeOK
      BY <3>1, <3>2, <3>3 DEF Init, LoginInit, LoginTypeOK
    <3>5. LastPasswordStays /\ PasswordHeld
      BY <3>2 DEF Init, LoginInit, LastPasswordStays, PasswordHeld
    <3> QED
      BY <3>4, <3>5
  <2>2. FewFailures
    <3>1. UnderWay = {}
      BY DEF Init, LoginInit, UnderWay
    <3>2. Cardinality(Request) \in Nat
      BY RequestAssumption, FS_CardinalityType
    <3>3. Cardinality(UnderWay) = 0
      BY <3>1, FS_EmptySet
    <3> QED
      BY <3>2, <3>3, LoginAssumption DEF FewFailures, Init, LoginInit
  <2>3. ClientInv
    BY ClientAssumption DEF Init, ClientInit, ClientInv, ClientTypeOK, FailureContained,
       Closing, Kind
  <2> QED
    BY <2>1, <2>2, <2>3 DEF LoginInv
<1>2. LoginInv /\ UNCHANGED loginVars => LoginInv'
  BY DEF LoginInv, LoginTypeOK, FewFailures, LastPasswordStays, PasswordHeld, UnderWay,
     loginVars, throttleVars, accountVars, requestVars
<1>3. ClientInv /\ UNCHANGED clientVars => ClientInv'
  BY DEF ClientInv, ClientTypeOK, FailureContained, Closing, clientVars, sharedVars
<1>4. LoginInv /\ ClientInv /\ [Next]_vars => LoginInv' /\ ClientInv'
  <2> SUFFICES ASSUME LoginInv, ClientInv, [Next]_vars PROVE LoginInv' /\ ClientInv'
    OBVIOUS
  <2>1. ASSUME NEW r \in Request, SignInOrPassword(r) PROVE LoginInv' /\ ClientInv'
    BY <1>3, <2>1, LoginKeeps DEF SignInOrPassword, LoginNext
  <2>2. ASSUME NEW r \in Request, Query(r) PROVE LoginInv' /\ ClientInv'
    BY <1>2, <2>2, ClientKeeps DEF Query
  <2>3. ASSUME NEW r \in Request, QueryStep(r) PROVE LoginInv' /\ ClientInv'
    BY <1>2, <2>3, ClientKeeps DEF QueryStep
  <2>4. CASE Elsewhere
    BY <1>3, <2>4, LoginKeeps DEF Elsewhere, LoginNext
  <2>5. CASE Restart
    <3>1. ClientInv'
      BY <2>5, ClientAssumption DEF Restart, ClientInv, ClientTypeOK, FailureContained,
         Closing, Kind
    <3>2. LoginTypeOK'
      <4>1. account' \in Account
        BY <2>5 DEF Restart, LoginInv, LoginTypeOK, Account
      <4>2. typed' \in [Request -> Password]
        BY <2>5, LoginAssumption DEF Restart, Password
      <4> QED
        BY <2>5, <4>1, <4>2 DEF Restart, LoginInv, LoginTypeOK, throttleVars
    <3>3. LastPasswordStays' /\ PasswordHeld'
      <4>1. account'.password = account.password
        BY <2>5 DEF Restart, LoginInv, LoginTypeOK, Account
      <4> QED
        BY <2>5, <4>1 DEF Restart, LoginInv, LastPasswordStays, PasswordHeld
    <3>4. FewFailures'
      <4>1. UnderWay' = {}
        BY <2>5 DEF Restart, UnderWay
      <4>2. Cardinality(UnderWay') <= Cardinality(UnderWay)
        BY <4>1, UnderWayBounded
      <4> QED
        BY <2>5, <4>2, UnderWayBounded, LoginAssumption
        DEF Restart, LoginInv, LoginTypeOK, FewFailures, throttleVars
    <3> QED
      BY <3>1, <3>2, <3>3, <3>4 DEF LoginInv
  <2>6. CASE UNCHANGED vars
    BY <1>2, <1>3, <2>6 DEF vars
  <2> QED
    BY <2>1, <2>2, <2>3, <2>4, <2>5, <2>6 DEF Next
<1> QED
  BY <1>1, <1>4, PTL DEF Spec

(* The variables of logins and of clients keep their ranges.               *)
THEOREM TypeCorrect == Spec => []TypeOK
<1>1. LoginInv /\ ClientInv => TypeOK
  BY DEF LoginInv, ClientInv, TypeOK
<1> QED
  BY <1>1, Invariant, PTL

(* The throttle of ratelimit.py passes its limit by one failure per        *)
(* request under way at most.                                              *)
THEOREM FailuresAreFew == Spec => []FewFailures
<1>1. LoginInv => FewFailures
  BY DEF LoginInv
<1> QED
  BY <1>1, Invariant, PTL

(* No login of auth_api.py undoes a change of the password, but one that   *)
(* hashes again the password it verified before the change.                *)
THEOREM ChangeIsKept == Spec => []LastPasswordStays
<1>1. LoginInv => LastPasswordStays
  BY DEF LoginInv
<1> QED
  BY <1>1, Invariant, PTL

(* ClickHouseService.close() leaves no closed client and no None to a      *)
(* request that begins when it is done.                                    *)
THEOREM FailureStaysContained == Spec => []FailureContained
<1>1. ClientInv => FailureContained
  BY DEF ClientInv
<1> QED
  BY <1>1, Invariant, PTL
=============================================================================
