-------------------------- MODULE BatchWorkerProofs --------------------------
(***************************************************************************)
(* Proofs about BatchWorker for every number of records and workers, every *)
(* batch size and every set of failures.  Spec takes the replies of claims *)
(* to arrive; LossySpec does not.                                          *)
(***************************************************************************)
EXTENDS BatchWorker, SequenceTheorems, TLAPS

-----------------------------------------------------------------------------
(* Lemmas about the lists. *)

(* What LRANGE returns and what LTRIM leaves are lists of records, and     *)
(* together they are the list.                                             *)
LEMMA Split ==
  ASSUME NEW S, NEW q \in Seq(S), NEW n \in Nat
  PROVE  /\ FirstN(q, n) \in Seq(S)
         /\ AfterN(q, n) \in Seq(S)
         /\ Range(FirstN(q, n)) \cup Range(AfterN(q, n)) = Range(q)
<1> DEFINE m == Least(n, Len(q))
<1>1. m \in 0..Len(q)
  BY LenProperties DEF Least
<1>2. FirstN(q, n) = [i \in 1..m |-> q[i]] /\ FirstN(q, n) \in Seq(S)
  BY <1>1, SMT DEF FirstN
<1>3. /\ AfterN(q, n) = [i \in 1..(Len(q) - m) |-> q[m + i]]
      /\ AfterN(q, n) \in Seq(S)
  BY <1>1, SMT DEF AfterN
<1>4. Range(FirstN(q, n)) = {q[i] : i \in 1..m}
  BY <1>2, <1>1, Zenon DEF Range
<1>5. Range(AfterN(q, n)) = {q[m + i] : i \in 1..(Len(q) - m)}
  BY <1>3, <1>1, Zenon DEF Range
<1>6. Range(q) = {q[i] : i \in 1..Len(q)}
  BY LenProperties DEF Range
<1>7. \A i \in 1..Len(q) : i \notin 1..m =>
        \E j \in 1..(Len(q) - m) : i = m + j
  <2>1. SUFFICES ASSUME NEW i \in 1..Len(q), i \notin 1..m
                 PROVE  i - m \in 1..(Len(q) - m) /\ i = m + (i - m)
    OBVIOUS
  <2> QED  BY <1>1, <2>1, LenProperties
<1>8. \A j \in 1..(Len(q) - m) : m + j \in 1..Len(q)
  BY <1>1, LenProperties
<1>9. 1..m \subseteq 1..Len(q)
  BY <1>1, LenProperties
<1> HIDE DEF m
<1>10. Range(q) \subseteq Range(FirstN(q, n)) \cup Range(AfterN(q, n))
  BY <1>4, <1>5, <1>6, <1>7, Zenon
<1>11. Range(FirstN(q, n)) \cup Range(AfterN(q, n)) \subseteq Range(q)
  BY <1>4, <1>5, <1>6, <1>8, <1>9, Zenon
<1> QED  BY <1>2, <1>3, <1>10, <1>11, Zenon

(* Joining two lists joins what they hold. *)
LEMMA Join ==
  ASSUME NEW S, NEW p \in Seq(S), NEW q \in Seq(S)
  PROVE  /\ p \o q \in Seq(S)
         /\ Range(p \o q) = Range(p) \cup Range(q)
BY RangeConcatenation, ConcatProperties

LEMMA RangeOfEmpty == Range(<<>>) = {}
BY DEF Range

LEMMA RangeOfRecords ==
  ASSUME NEW S, NEW q \in Seq(S) PROVE Range(q) \subseteq S
BY LenProperties, ElementOfSeq DEF Range

-----------------------------------------------------------------------------
(* The type invariant. *)

LEMMA RowsOfRecords ==
  ASSUME NEW q \in Seq(Record) PROVE Rows(q) \subseteq Record \ Undecodable
BY RangeOfRecords DEF Rows

LEMMA ReleaseType ==
  ASSUME TypeOK, NEW w \in Worker, Release(w)
  PROVE  queue' \in Seq(Record) /\ inflight' \in [Worker -> Seq(Record)]
<1>1. inflight[w] \in Seq(Record) /\ <<>> \in Seq(Record)
  BY DEF TypeOK
<1>2. queue' \in Seq(Record)
  BY <1>1, Join DEF TypeOK, Release, Requeue
<1> QED  BY <1>1, <1>2 DEF TypeOK, Release

LEMMA ClaimType ==
  ASSUME TypeOK, NEW w \in Worker, ClaimScript(w)
  PROVE  queue' \in Seq(Record) /\ inflight' \in [Worker -> Seq(Record)]
<1>1. BatchSize \in Nat
  BY ConstantsAssumption
<1>2. /\ FirstN(queue, BatchSize) \in Seq(Record)
      /\ AfterN(queue, BatchSize) \in Seq(Record)
  BY <1>1, Split DEF TypeOK
<1>3. inflight[w] \o FirstN(queue, BatchSize) \in Seq(Record)
  BY <1>2, Join DEF TypeOK
<1> QED  BY <1>2, <1>3 DEF TypeOK, ClaimScript

LEMMA StoresType ==
  ASSUME TypeOK, NEW S \in SUBSET (Record \ Undecodable), Stores(S)
  PROVE  /\ stored' \subseteq Record \ Undecodable
         /\ dup' \subseteq stored'
         /\ stored \subseteq stored'
         /\ S \subseteq stored'
BY DEF TypeOK, Stores

(* Every step of the system keeps the types. *)
LEMMA TypeStep == TypeOK /\ [LossyNext]_vars => TypeOK'
<1> SUFFICES ASSUME TypeOK, [LossyNext]_vars PROVE TypeOK'
  OBVIOUS
<1> USE DEF redisVars, tableVars, workerVars, maintVars
<1>1. ASSUME NEW n \in 1..PushBatch, Push(n) PROVE TypeOK'
  <2>1. PushBatch \in Nat /\ NumRecords \in Nat
    BY ConstantsAssumption
  <2>2. arrived' \in 0..NumRecords /\ arrived + n <= NumRecords /\ n \in Nat
    BY <1>1, <2>1 DEF TypeOK, Push
  <2>3. [i \in 1..n |-> arrived + i] \in Seq(Record)
    <3>1. \A i \in 1..n : arrived + i \in Record
      BY <2>1, <2>2 DEF TypeOK, Record
    <3> QED  BY <2>2, <3>1, IsASeq
  <2>4. queue' \in Seq(Record)
    BY <1>1, <2>3, Join DEF TypeOK, Push
  <2> QED  BY <1>1, <2>2, <2>4 DEF TypeOK, Push
<1>2. ASSUME NEW w \in Worker, WorkerStep(w) PROVE TypeOK'
  <2>1. Rows(batch[w]) \subseteq Record \ Undecodable
    BY RowsOfRecords DEF TypeOK
  <2>2. <<>> \in Seq(Record)
    OBVIOUS
  <2>3. CASE Start(w)
    BY <2>3 DEF TypeOK, Start, Goto
  <2>4. CASE Recover(w)
    BY <2>4, ReleaseType DEF TypeOK, Recover, Goto
  <2>5. CASE RecoverFail(w)
    BY <2>5, <2>2, ReleaseType DEF TypeOK, RecoverFail, GoesDown
  <2>6. CASE Signal(w)
    BY <2>6 DEF TypeOK, Signal
  <2>7. CASE Claim(w)
    <3>1. FirstN(queue, BatchSize) \in Seq(Record)
      BY Split, ConstantsAssumption DEF TypeOK
    <3> QED  BY <2>7, <3>1, ClaimType DEF TypeOK, Claim
  <2>8. CASE ClaimReplyLost(w)
    BY <2>8, ClaimType DEF TypeOK, ClaimReplyLost
  <2>9. CASE BeginInsert(w)
    BY <2>9 DEF TypeOK, BeginInsert, Goto
  <2>10. CASE InsertOk(w)
    BY <2>10, <2>1, StoresType DEF TypeOK, InsertOk, Goto
  <2>11. CASE InsertFail(w)
    <3>1. PICK S \in SUBSET Rows(batch[w]) : Stores(S) /\ window' = window \cup S
      BY <2>11 DEF InsertFail
    <3> QED  BY <2>11, <2>1, <3>1, StoresType DEF TypeOK, InsertFail, Goto
  <2>12. CASE Ack(w)
    BY <2>12, <2>2 DEF TypeOK, Ack
  <2>13. CASE AckFail(w)
    <3>1. window' \subseteq Record \ Undecodable
      BY <2>13, <2>1 DEF TypeOK, AckFail
    <3>2. inflight' \in [Worker -> Seq(Record)]
      BY <2>13, <2>2 DEF TypeOK, AckFail
    <3> QED  BY <2>13, <2>2, <3>1, <3>2 DEF TypeOK, AckFail, GoesDown
  <2>14. CASE HandBack(w)
    BY <2>14, <2>2, ReleaseType DEF TypeOK, HandBack
  <2>15. CASE HandBackFail(w)
    BY <2>15, <2>2, ReleaseType DEF TypeOK, HandBackFail, GoesDown
  <2>16. CASE Shutdown(w)
    BY <2>16, <2>2, ReleaseType DEF TypeOK, Shutdown, GoesDown
  <2>17. CASE Kill(w)
    BY <2>17, <2>1, <2>2, StoresType DEF TypeOK, Kill, GoesDown
  <2> QED  BY <1>2, <2>3, <2>4, <2>5, <2>6, <2>7, <2>8, <2>9, <2>10, <2>11, <2>12,
              <2>13, <2>14, <2>15, <2>16, <2>17 DEF WorkerStep, AnsweredStep
<1>3. CASE MaintStart
  BY <1>3, ConstantsAssumption DEF TypeOK, MaintStart, LiveWorkerIds, Up
<1>4. CASE MaintAbort
  BY <1>4 DEF TypeOK, MaintAbort
<1>5. ASSUME NEW k \in Worker, MaintVisit(k) PROVE TypeOK'
  <2>1. Rows(inflight[k]) \subseteq Record \ Undecodable
    BY RowsOfRecords DEF TypeOK
  <2>2. window' \subseteq Record \ Undecodable
    BY <1>5, <2>1 DEF TypeOK, MaintVisit
  <2>3. queue' \in Seq(Record) /\ inflight' \in [Worker -> Seq(Record)]
    BY <1>5, ReleaseType DEF TypeOK, MaintVisit
  <2> QED  BY <1>5, <2>2, <2>3 DEF TypeOK, MaintVisit
<1>6. CASE UNCHANGED vars
  BY <1>6 DEF TypeOK, vars
<1> QED  BY <1>1, <1>2, <1>3, <1>4, <1>5, <1>6 DEF LossyNext, PushNext, MaintNext

(* Spec is LossySpec with claims that are answered. *)
LEMMA AnsweredIsLossy == [Next]_vars => [LossyNext]_vars
BY DEF Next, LossyNext, WorkerStep

(* The lists, whatever fails and whoever moves their entries, stay lists of *)
(* records, the processes where run() can be, and rows are decodable.       *)
THEOREM TypeCorrect == LossySpec => []TypeOK
<1>1. Init => TypeOK
  BY ConstantsAssumption DEF Init, TypeOK
<1> QED  BY <1>1, TypeStep, PTL DEF LossySpec

LEMMA TypeCorrectAnswered == Spec => []TypeOK
<1>1. Init => TypeOK
  BY ConstantsAssumption DEF Init, TypeOK
<1> QED  BY <1>1, TypeStep, AnsweredIsLossy, PTL DEF Spec

-----------------------------------------------------------------------------
(* What the scripts do to the records Redis holds. *)

LEMMA HeldMember ==
  \A r : r \in Held <=> r \in Range(queue) \/ \E v \in Worker : r \in Range(inflight[v])
BY DEF Held, InFlight

LEMMA HeldMemberNext ==
  \A r : r \in Held' <=> r \in Range(queue') \/ \E v \in Worker : r \in Range(inflight'[v])
BY DEF Held, InFlight

(* Handing a list back to the queue moves records, and loses none. *)
LEMMA ReleaseHeld ==
  ASSUME TypeOK, NEW w \in Worker, Release(w)
  PROVE  Held' = Held
<1>1. Range(queue') = Range(inflight[w]) \cup Range(queue)
  BY Join DEF TypeOK, Release, Requeue
<1>2. Range(inflight'[w]) = {}
  BY RangeOfEmpty DEF TypeOK, Release
<1>3. \A v \in Worker : v # w => inflight'[v] = inflight[v]
  BY DEF TypeOK, Release
<1> QED  BY <1>1, <1>2, <1>3, HeldMember, HeldMemberNext, Zenon

(* So does claiming. *)
LEMMA ClaimHeld ==
  ASSUME TypeOK, NEW w \in Worker, ClaimScript(w)
  PROVE  Held' = Held
<1> DEFINE items == FirstN(queue, BatchSize)
<1>1. /\ items \in Seq(Record)
      /\ Range(queue) = Range(items) \cup Range(queue')
  BY Split, ConstantsAssumption DEF TypeOK, ClaimScript
<1>2. Range(inflight'[w]) = Range(inflight[w]) \cup Range(items)
  <2>1. inflight'[w] = inflight[w] \o items
    BY DEF TypeOK, ClaimScript
  <2> QED  BY <1>1, <2>1, Join DEF TypeOK
<1>3. \A v \in Worker : v # w => inflight'[v] = inflight[v]
  BY DEF TypeOK, ClaimScript
<1> HIDE DEF items
<1> QED  BY <1>1, <1>2, <1>3, HeldMember, HeldMemberNext, Zenon

(* Deleting an in-flight list takes nothing else away. *)
LEMMA DeleteHeld ==
  ASSUME TypeOK, NEW w \in Worker, queue' = queue,
         inflight' = [inflight EXCEPT ![w] = <<>>]
  PROVE  Held' \subseteq Held /\ Held \ Held' \subseteq Range(inflight[w])
<1>1. Range(inflight'[w]) = {}
  BY RangeOfEmpty DEF TypeOK
<1>2. \A v \in Worker : v # w => inflight'[v] = inflight[v]
  BY DEF TypeOK
<1> QED  BY <1>1, <1>2, HeldMember, HeldMemberNext, Zenon

(* A push adds the new records. *)
LEMMA PushHeld ==
  ASSUME TypeOK, NEW n \in 1..PushBatch, Push(n)
  PROVE  /\ Held' = Held \cup ((arrived + 1)..(arrived + n))
         /\ arrived' = arrived + n
<1> DEFINE new == [i \in 1..n |-> arrived + i]
<1>1. n \in Nat /\ arrived \in Nat /\ NumRecords \in Nat
  BY ConstantsAssumption DEF TypeOK
<1>2. Range(new) = (arrived + 1)..(arrived + n)
  <2>1. Range(new) = {arrived + i : i \in 1..n}
    BY DEF Range
  <2>2. \A j \in (arrived + 1)..(arrived + n) : \E i \in 1..n : j = arrived + i
    <3>1. ASSUME NEW j \in (arrived + 1)..(arrived + n)
          PROVE  j - arrived \in 1..n /\ j = arrived + (j - arrived)
      BY <1>1
    <3> QED  BY <3>1
  <2>3. \A i \in 1..n : arrived + i \in (arrived + 1)..(arrived + n)
    BY <1>1
  <2> HIDE DEF new
  <2> QED  BY <2>1, <2>2, <2>3, Zenon
<1>3. new \in Seq(Nat) /\ queue \in Seq(Nat)
  <2>1. Record \subseteq Nat
    BY <1>1 DEF Record
  <2>2. queue \in Seq(Nat)
    BY <2>1, SeqMonotonic DEF TypeOK
  <2>3. \A i \in 1..n : arrived + i \in Nat
    BY <1>1
  <2>4. new \in Seq(Nat)
    BY <1>1, <2>3, IsASeq
  <2> QED  BY <2>2, <2>4
<1>4. queue' = queue \o new /\ inflight' = inflight /\ arrived' = arrived + n
  BY DEF Push, redisVars
<1> HIDE DEF new
<1>5. Range(queue') = Range(queue) \cup Range(new)
  BY <1>3, <1>4, Join
<1>6. Held' = Held \cup Range(new)
  BY <1>4, <1>5, HeldMember, HeldMemberNext, Zenon
<1> QED  BY <1>2, <1>4, <1>6

-----------------------------------------------------------------------------
(* The invariant that makes the acknowledgement safe.  It needs the claim  *)
(* reply to arrive: ClaimReplyLost leaves a batch in the list of a worker  *)
(* that is about to claim the next one.                                    *)

(* What the invariant says of one worker. *)
ClaimInvOf(w) ==
  /\ pc[w] = "loop" => inflight[w] = <<>>
  /\ pc[w] \in {"retry", "inserting", "ack"} => Range(inflight[w]) \subseteq Range(batch[w])
  /\ pc[w] = "ack" => Rows(batch[w]) \subseteq stored
  /\ Rows(batch[w]) \subseteq Held \cup stored

(* No step loses a record that can be a row. *)
Kept == /\ Held \ Undecodable \subseteq Held' \cup stored'
        /\ stored \subseteq stored'

LEMMA NoRows == Rows(<<>>) = {} /\ Range(<<>>) = {}
BY RangeOfEmpty DEF Rows

(* Releasing the list of one worker disturbs no other. *)
LEMMA ReleaseClaims ==
  ASSUME TypeOK, ClaimInv, NEW w \in Worker, Release(w)
  PROVE  /\ Held' = Held
         /\ inflight'[w] = <<>>
         /\ \A v \in Worker : inflight'[v] = inflight[v] \/ inflight'[v] = <<>>
BY ReleaseHeld DEF TypeOK, Release

(* A step of one worker keeps what the invariant says of the others, if it *)
(* loses nothing and at most empties their in-flight lists.                *)
LEMMA OthersKept ==
  ASSUME ClaimInv, Kept, NEW v \in Worker,
         pc'[v] = pc[v], batch'[v] = batch[v],
         inflight'[v] = inflight[v] \/ inflight'[v] = <<>>
  PROVE  ClaimInvOf(v)'
<1>1. ClaimInvOf(v)
  BY DEF ClaimInv, ClaimInvOf
<1>2. Rows(batch[v]) \subseteq Held' \cup stored'
  BY <1>1 DEF ClaimInvOf, Kept, Rows
<1> QED  BY <1>1, <1>2, NoRows DEF ClaimInvOf, Kept, Rows

(* A process that goes down has nothing in hand. *)
LEMMA DownKept ==
  ASSUME TypeOK, NEW w \in Worker, GoesDown(w)
  PROVE  /\ ClaimInvOf(w)'
         /\ \A v \in Worker : v # w => pc'[v] = pc[v] /\ batch'[v] = batch[v]
BY NoRows DEF TypeOK, GoesDown, ClaimInvOf

(* What every step does to the records: it loses none, and no step but a   *)
(* claim adds to an in-flight list.                                        *)
LEMMA StepKeeps ==
  ASSUME TypeOK, ClaimInv, NEW w \in Worker, WorkerStep(w)
  PROVE  /\ Kept
         /\ \A v \in Worker : v # w =>
              /\ inflight'[v] = inflight[v]
              /\ pc'[v] = pc[v] /\ batch'[v] = batch[v]
<1> USE DEF redisVars, tableVars, workerVars, maintVars
<1>1. ASSUME Held' = Held, stored \subseteq stored' PROVE Kept
  BY <1>1 DEF Kept
<1>2. ASSUME UNCHANGED redisVars PROVE Held' = Held
  BY <1>2 DEF Held, InFlight
<1>3. Range(inflight[w]) \subseteq Range(batch[w]) /\ Rows(batch[w]) \subseteq stored
        => Range(inflight[w]) \ Undecodable \subseteq stored
  BY DEF Rows
<1>4. CASE Start(w)
  BY <1>1, <1>2, <1>4 DEF TypeOK, Start, Goto
<1>5. CASE Recover(w)
  BY <1>1, <1>5, ReleaseHeld DEF TypeOK, Recover, Release, Goto
<1>6. CASE RecoverFail(w)
  BY <1>1, <1>2, <1>6, ReleaseHeld DEF TypeOK, RecoverFail, Release, GoesDown
<1>7. CASE Signal(w)
  BY <1>1, <1>2, <1>7 DEF TypeOK, Signal
<1>8. CASE Claim(w)
  BY <1>1, <1>8, ClaimHeld DEF TypeOK, Claim, ClaimScript
<1>9. CASE ClaimReplyLost(w)
  BY <1>1, <1>9, ClaimHeld DEF TypeOK, ClaimReplyLost, ClaimScript
<1>10. CASE BeginInsert(w)
  BY <1>1, <1>2, <1>10 DEF TypeOK, BeginInsert, Goto
<1>11. CASE InsertOk(w)
  BY <1>1, <1>2, <1>11 DEF TypeOK, InsertOk, Stores, Goto
<1>12. CASE InsertFail(w)
  BY <1>1, <1>2, <1>12 DEF TypeOK, InsertFail, Stores, Goto
<1>13. CASE Ack(w)
  <2>1. Kept
    BY <1>3, <1>13, DeleteHeld DEF ClaimInv, Ack, Kept
  <2> QED  BY <1>13, <2>1 DEF TypeOK, Ack
<1>14. CASE AckFail(w)
  <2>1. Kept
    BY <1>1, <1>2, <1>3, <1>14, DeleteHeld DEF ClaimInv, AckFail, Kept
  <2> QED  BY <1>14, <2>1 DEF TypeOK, AckFail, GoesDown
<1>15. CASE HandBack(w)
  BY <1>1, <1>15, ReleaseHeld DEF TypeOK, HandBack, Release
<1>16. CASE HandBackFail(w)
  BY <1>1, <1>2, <1>16, ReleaseHeld DEF TypeOK, HandBackFail, Release, GoesDown
<1>17. CASE Shutdown(w)
  BY <1>1, <1>2, <1>17, ReleaseHeld DEF TypeOK, Shutdown, Release, GoesDown
<1>18. CASE Kill(w)
  <2>1. stored \subseteq stored'
    BY <1>18 DEF Kill, Stores
  <2> QED  BY <1>1, <1>2, <1>18, <2>1 DEF TypeOK, Kill, GoesDown
<1> QED  BY <1>4, <1>5, <1>6, <1>7, <1>8, <1>9, <1>10, <1>11, <1>12, <1>13, <1>14,
            <1>15, <1>16, <1>17, <1>18 DEF WorkerStep, AnsweredStep

(* And the worker that steps keeps what the invariant says of it. *)
LEMMA OwnKept ==
  ASSUME TypeOK, ClaimInv, NEW w \in Worker, AnsweredStep(w)
  PROVE  ClaimInvOf(w)'
<1> USE DEF redisVars, tableVars, workerVars, maintVars
<1>1. ClaimInvOf(w)
  BY DEF ClaimInv, ClaimInvOf
<1>2. Kept
  BY StepKeeps DEF WorkerStep
<1>3. Rows(batch[w]) \subseteq Held' \cup stored'
  BY <1>1, <1>2 DEF ClaimInvOf, Kept, Rows
<1>4. CASE Start(w)
  BY <1>1, <1>3, <1>4 DEF TypeOK, Start, Goto, ClaimInvOf
<1>5. CASE Recover(w)
  BY <1>1, <1>3, <1>5 DEF TypeOK, Recover, Release, Goto, ClaimInvOf
<1>6. CASE Signal(w)
  BY <1>1, <1>3, <1>6 DEF TypeOK, Signal, ClaimInvOf
<1>7. CASE Claim(w)
  <2> DEFINE items == FirstN(queue, BatchSize)
  <2>1. /\ items \in Seq(Record)
        /\ Range(items) \subseteq Range(queue)
    <3>1. BatchSize \in Nat
      BY ConstantsAssumption
    <3>2. /\ items \in Seq(Record)
          /\ Range(items) \cup Range(AfterN(queue, BatchSize)) = Range(queue)
      BY <3>1, Split DEF TypeOK
    <3> HIDE DEF items
    <3> QED  BY <3>2
  <2>2. /\ batch'[w] = items
        /\ pc'[w] = IF Rows(items) = {} THEN "ack" ELSE "retry"
        /\ inflight[w] = <<>>
        /\ inflight'[w] = inflight[w] \o items
    BY <1>1, <1>7 DEF TypeOK, Claim, ClaimScript, ClaimInvOf
  <2>3. Range(inflight'[w]) = Range(batch'[w])
    <3>1. Range(inflight[w] \o items) = Range(inflight[w]) \cup Range(items)
      BY <2>1, Join DEF TypeOK
    <3> QED  BY <2>2, <3>1, NoRows
  <2>4. Rows(items) \subseteq Held'
    <3>1. Range(items) \subseteq Held
      BY <2>1 DEF Held
    <3> QED  BY <1>7, <3>1, ClaimHeld DEF Claim, Rows
  <2> HIDE DEF items
  <2> QED  BY <2>2, <2>3, <2>4 DEF ClaimInvOf, Rows
<1>8. CASE BeginInsert(w)
  BY <1>1, <1>3, <1>8 DEF TypeOK, BeginInsert, Goto, ClaimInvOf
<1>9. CASE InsertOk(w)
  <2>1. Rows(batch[w]) \subseteq stored'
    BY <1>9 DEF InsertOk, Stores
  <2> QED  BY <1>1, <1>3, <1>9, <2>1 DEF TypeOK, InsertOk, Goto, ClaimInvOf, Rows
<1>10. CASE InsertFail(w)
  BY <1>1, <1>3, <1>10 DEF TypeOK, InsertFail, Goto, ClaimInvOf
<1>11. CASE Ack(w)
  BY <1>11, NoRows DEF TypeOK, Ack, ClaimInvOf
<1>12. CASE HandBack(w)
  BY <1>12, NoRows DEF TypeOK, HandBack, Release, ClaimInvOf
<1>13. ASSUME GoesDown(w) PROVE ClaimInvOf(w)'
  BY <1>13, DownKept
<1> QED  BY <1>4, <1>5, <1>6, <1>7, <1>8, <1>9, <1>10, <1>11, <1>12, <1>13
         DEF AnsweredStep, RecoverFail, AckFail, HandBackFail, Shutdown, Kill

LEMMA ClaimStep ==
  ASSUME TypeOK, ClaimInv, [Next]_vars
  PROVE  ClaimInv'
<1> USE DEF redisVars, tableVars, workerVars, maintVars
<1>1. SUFFICES ASSUME NEW v \in Worker PROVE ClaimInvOf(v)'
  BY DEF ClaimInv, ClaimInvOf
<1>2. ASSUME NEW w \in Worker, AnsweredStep(w) PROVE ClaimInvOf(v)'
  <2>1. CASE v = w
    BY <1>2, <2>1, OwnKept
  <2>2. CASE v # w
    BY <1>2, <2>2, StepKeeps, OthersKept DEF WorkerStep
  <2> QED  BY <2>1, <2>2
<1>3. ASSUME NEW n \in 1..PushBatch, Push(n) PROVE ClaimInvOf(v)'
  <2>1. Kept
    BY <1>3, PushHeld DEF Push, Kept
  <2> QED  BY <1>3, <2>1, OthersKept DEF Push
<1>4. ASSUME NEW k \in Worker, MaintVisit(k) PROVE ClaimInvOf(v)'
  <2>1. CASE Release(k)
    <3>1. Kept
      BY <1>4, <2>1, ReleaseHeld DEF MaintVisit, Kept
    <3>2. inflight'[v] = inflight[v] \/ inflight'[v] = <<>>
      BY <2>1 DEF TypeOK, Release
    <3> QED  BY <1>4, <3>1, <3>2, OthersKept DEF MaintVisit
  <2>2. CASE UNCHANGED redisVars
    <3>1. Kept
      BY <1>4, <2>2 DEF MaintVisit, Kept, Held, InFlight
    <3> QED  BY <1>4, <2>2, <3>1, OthersKept DEF MaintVisit
  <2> QED  BY <1>4, <2>1, <2>2 DEF MaintVisit
<1>5. CASE MaintStart \/ MaintAbort \/ UNCHANGED vars
  <2>1. UNCHANGED <<redisVars, tableVars, workerVars>>
    BY <1>5 DEF MaintStart, MaintAbort, vars
  <2>2. Kept
    BY <2>1 DEF Kept, Held, InFlight
  <2> QED  BY <2>1, <2>2, OthersKept
<1> QED  BY <1>2, <1>3, <1>4, <1>5 DEF Next, PushNext, MaintNext

(* Unless a claim reply is lost, ClaimInv holds throughout, whatever else  *)
(* fails and whatever the maintenance run takes away.                      *)
THEOREM ClaimsInHand == Spec => []ClaimInv
<1>1. Init => ClaimInv
  BY NoRows DEF Init, ClaimInv
<1>2. TypeOK /\ ClaimInv /\ [Next]_vars => ClaimInv'
  BY ClaimStep
<1> QED  BY <1>1, <1>2, TypeCorrectAnswered, PTL DEF Spec

(* A worker never deletes a record that is not yet a row. *)
THEOREM AcknowledgedOnly == Spec => []AckSafe
<1>1. ClaimInv => AckSafe
  BY DEF ClaimInv, AckSafe, Rows
<1> QED  BY <1>1, ClaimsInHand, PTL

-----------------------------------------------------------------------------
(* The lists implement at-least-once delivery. *)

LEMMA PushAccepts ==
  ASSUME TypeOK, NEW n \in 1..PushBatch, Push(n)
  PROVE  D!Accept((arrived + 1)..(arrived + n))
<1>1. n \in Nat /\ arrived \in Nat
  BY ConstantsAssumption DEF TypeOK
<1>2. Held' = Held \cup ((arrived + 1)..(arrived + n)) /\ arrived' = arrived + n
  BY PushHeld
<1>3. 1..(arrived + n) = (1..arrived) \cup ((arrived + 1)..(arrived + n))
  BY <1>1
<1>4. ((arrived + 1)..(arrived + n)) \cap (1..arrived) = {}
  BY <1>1
<1>5. stored' = stored
  BY DEF Push, tableVars
<1> QED  BY <1>2, <1>3, <1>4, <1>5 DEF D!Accept

(* Storing rows of the batch in hand delivers them. *)
LEMMA StoreDelivers ==
  ASSUME TypeOK, ClaimInv, NEW w \in Worker, NEW S \in SUBSET Rows(batch[w]),
         Stores(S), UNCHANGED <<arrived, redisVars>>
  PROVE  D!Deliver(S)
<1>1. S \subseteq (Held \cup stored) \ Undecodable
  BY DEF ClaimInv, Rows
<1>2. Held' = Held
  BY DEF Held, InFlight, redisVars
<1> QED  BY <1>1, <1>2 DEF D!Deliver, Stores

(* Deleting the list of a worker whose rows are stored forgets them. *)
LEMMA DeleteForgets ==
  ASSUME TypeOK, ClaimInv, NEW w \in Worker, pc[w] = "ack",
         inflight' = [inflight EXCEPT ![w] = <<>>],
         UNCHANGED <<arrived, queue, stored>>
  PROVE  D!Forget(Held \ Held')
<1>1. Range(inflight[w]) \subseteq stored \cup Undecodable
  BY DEF ClaimInv, Rows
<1>2. Held' \subseteq Held /\ Held \ Held' \subseteq Range(inflight[w])
  BY DeleteHeld
<1> QED  BY <1>1, <1>2 DEF D!Forget

LEMMA HeldRecords == TypeOK => Held \subseteq Record
BY RangeOfRecords DEF TypeOK, Held, InFlight

LEMMA StepImplements ==
  ASSUME TypeOK, ClaimInv, [Next]_vars
  PROVE  [D!Next]_(D!vars)
<1> USE DEF redisVars, tableVars, workerVars, maintVars
<1>1. ASSUME NEW S \in SUBSET Record, D!Accept(S) \/ D!Deliver(S) \/ D!Forget(S)
      PROVE  D!Next
  BY <1>1 DEF D!Next
<1>2. ASSUME arrived' = arrived, Held' = Held, stored' = stored
      PROVE  UNCHANGED D!vars
  BY <1>2 DEF D!vars
<1>3. ASSUME UNCHANGED redisVars PROVE Held' = Held
  BY <1>3 DEF Held, InFlight
<1>4. ASSUME NEW n \in 1..PushBatch, Push(n) PROVE D!Next
  <2>1. (arrived + 1)..(arrived + n) \subseteq Record
    BY <1>4, ConstantsAssumption DEF TypeOK, Push, Record
  <2> QED  BY <1>1, <1>4, <2>1, PushAccepts
<1>5. ASSUME NEW w \in Worker, AnsweredStep(w) PROVE [D!Next]_(D!vars)
  <2>1. Rows(batch[w]) \subseteq Record
    BY RowsOfRecords DEF TypeOK
  <2>2. ASSUME NEW S \in SUBSET Rows(batch[w]), Stores(S), UNCHANGED <<arrived, redisVars>>
        PROVE  D!Next
    BY <1>1, <2>1, <2>2, StoreDelivers
  <2>3. ASSUME pc[w] = "ack", inflight' = [inflight EXCEPT ![w] = <<>>],
               UNCHANGED <<arrived, queue, stored>>
        PROVE  D!Next
    BY <1>1, <2>3, DeleteForgets, HeldRecords
  <2>4. CASE Start(w) \/ Signal(w) \/ BeginInsert(w)
    BY <1>2, <1>3, <2>4 DEF Start, Signal, BeginInsert
  <2>5. CASE Recover(w) \/ RecoverFail(w) \/ HandBack(w) \/ HandBackFail(w) \/ Shutdown(w)
    BY <1>2, <1>3, <2>5, ReleaseHeld
       DEF Recover, RecoverFail, HandBack, HandBackFail, Shutdown
  <2>6. CASE Claim(w)
    BY <1>2, <2>6, ClaimHeld DEF Claim
  <2>7. CASE InsertOk(w)
    BY <2>2, <2>7 DEF InsertOk
  <2>8. CASE InsertFail(w)
    BY <2>2, <2>8 DEF InsertFail
  <2>9. CASE Ack(w)
    BY <2>3, <2>9 DEF Ack
  <2>10. CASE AckFail(w)
    <3>1. CASE inflight' = inflight
      BY <1>2, <1>3, <2>10, <3>1 DEF AckFail
    <3>2. CASE inflight' = [inflight EXCEPT ![w] = <<>>]
      BY <2>3, <2>10, <3>2 DEF AckFail
    <3> QED  BY <2>10, <3>1, <3>2 DEF AckFail
  <2>11. CASE Kill(w)
    <3>1. CASE UNCHANGED tableVars
      BY <1>2, <1>3, <2>11, <3>1 DEF Kill
    <3>2. CASE \E S \in SUBSET Rows(batch[w]) : Stores(S)
      BY <2>2, <2>11, <3>2 DEF Kill
    <3>3. UNCHANGED tableVars \/ \E S \in SUBSET Rows(batch[w]) : Stores(S)
      <4>1. CASE pc[w] = "inserting"
        BY <2>11, <4>1 DEF Kill
      <4>2. CASE pc[w] = "ack"
        BY <2>11, <4>2 DEF Kill
      <4>3. CASE pc[w] \notin {"inserting", "ack"}
        BY <2>11, <4>3 DEF Kill
      <4> QED  BY <4>1, <4>2, <4>3
    <3> QED  BY <3>1, <3>2, <3>3
  <2> QED  BY <1>5, <2>4, <2>5, <2>6, <2>7, <2>8, <2>9, <2>10, <2>11 DEF AnsweredStep
<1>6. ASSUME NEW k \in Worker, MaintVisit(k) PROVE UNCHANGED D!vars
  BY <1>2, <1>3, <1>6, ReleaseHeld DEF MaintVisit
<1>7. CASE MaintStart \/ MaintAbort \/ UNCHANGED vars
  BY <1>2, <1>3, <1>7 DEF MaintStart, MaintAbort, vars
<1> QED  BY <1>4, <1>5, <1>6, <1>7 DEF Next, PushNext, MaintNext

(* The queue, the in-flight lists and the table implement Delivery: every  *)
(* step accepts new records, delivers held ones, forgets delivered ones,   *)
(* or changes nothing of that.                                             *)
THEOREM Implements == Spec => ImplementsDelivery
<1>1. Init => D!Init
  <2>1. 1..0 = {}
    OBVIOUS
  <2> QED  BY <2>1, NoRows DEF Init, D!Init, Held, InFlight
<1>2. TypeOK /\ ClaimInv /\ [Next]_vars => [D!Next]_(D!vars)
  BY StepImplements
<1> QED  BY <1>1, <1>2, TypeCorrectAnswered, ClaimsInHand, PTL
         DEF Spec, ImplementsDelivery, D!Spec

(* No record that was pushed and can be decoded is lost. *)
THEOREM NothingIsLost == Spec => []NoLoss
<1>1. D!Init => D!NothingLost
  BY DEF D!Init, D!NothingLost
<1>2. D!NothingLost /\ [D!Next]_(D!vars) => D!NothingLost'
  <2> SUFFICES ASSUME D!NothingLost, [D!Next]_(D!vars) PROVE D!NothingLost'
    OBVIOUS
  <2>1. CASE UNCHANGED D!vars
    BY <2>1 DEF D!vars, D!NothingLost
  <2>2. ASSUME NEW S \in SUBSET Record, D!Accept(S) PROVE D!NothingLost'
    BY <2>2 DEF D!Accept, D!NothingLost
  <2>3. ASSUME NEW S \in SUBSET Record, D!Deliver(S) PROVE D!NothingLost'
    BY <2>3 DEF D!Deliver, D!NothingLost
  <2>4. ASSUME NEW S \in SUBSET Record, D!Forget(S) PROVE D!NothingLost'
    BY <2>4 DEF D!Forget, D!NothingLost
  <2> QED  BY <2>1, <2>2, <2>3, <2>4 DEF D!Next
<1>3. D!NothingLost => NoLoss
  BY DEF D!NothingLost, NoLoss
<1> QED  BY <1>1, <1>2, <1>3, Implements, PTL DEF ImplementsDelivery, D!Spec

-----------------------------------------------------------------------------
(* No record is at two places of Redis, and none is stored twice but in    *)
(* the window between its insert and its ack: for every set of failures,   *)
(* lost claim replies included.                                            *)

(* The inductive invariant. *)

(* Nothing is known of a record before it arrives. *)
Arrived == /\ Held \subseteq 1..arrived
           /\ stored \subseteq 1..arrived
           /\ \A w \in Worker : Range(batch[w]) \subseteq 1..arrived

InHand(w) == pc[w] \in {"retry", "inserting", "ack"}

(* What of worker w's list may be a row while its insert is not yet acked. *)
Unacked(w) == IF pc[w] = "ack" THEN Rows(batch[w]) ELSE {}

(* What is in Redis and a row is in the window, but for what is about to   *)
(* be deleted; what a worker has in hand is in its own list, unless a      *)
(* maintenance run took it away, which opens the window.                   *)
Windowed == /\ Rows(queue) \cap stored \subseteq window
            /\ \A w \in Worker :
                 /\ Rows(inflight[w]) \cap stored \subseteq window \cup Unacked(w)
                 /\ Rows(batch[w]) \subseteq window \cup Range(inflight[w])
                 /\ ~InHand(w) => batch[w] = <<>>
            /\ dup \subseteq window

OnceInv == TypeOK /\ Arrived /\ HeldOnce /\ Windowed

-----------------------------------------------------------------------------
(* Lemmas about lists without repetition. *)

LEMMA JoinInjective ==
  ASSUME NEW S, NEW p \in Seq(S), NEW q \in Seq(S),
         IsInjective(p), IsInjective(q), Range(p) \cap Range(q) = {}
  PROVE  IsInjective(p \o q)
<1>1. /\ p \o q \in Seq(S) /\ Len(p \o q) = Len(p) + Len(q)
      /\ \A i \in 1..(Len(p) + Len(q)) :
           (p \o q)[i] = IF i <= Len(p) THEN p[i] ELSE q[i - Len(p)]
  BY ConcatProperties
<1>2. DOMAIN (p \o q) = 1..Len(p \o q)
  BY <1>1, LenProperties
<1>3. /\ Len(p) \in Nat /\ Len(q) \in Nat
      /\ DOMAIN p = 1..Len(p) /\ DOMAIN q = 1..Len(q)
  BY LenProperties
<1>4. \A i \in DOMAIN p : p[i] \in Range(p)
  BY DEF Range
<1>5. \A i \in DOMAIN q : q[i] \in Range(q)
  BY DEF Range
<1> SUFFICES ASSUME NEW i \in 1..(Len(p) + Len(q)), NEW j \in 1..(Len(p) + Len(q)),
                    (p \o q)[i] = (p \o q)[j]
             PROVE  i = j
  BY <1>1, <1>2 DEF IsInjective
<1>6. CASE i <= Len(p) /\ j <= Len(p)
  BY <1>1, <1>3, <1>6 DEF IsInjective
<1>7. CASE i > Len(p) /\ j > Len(p)
  <2>1. i - Len(p) \in 1..Len(q) /\ j - Len(p) \in 1..Len(q)
    BY <1>3, <1>7
  <2>2. q[i - Len(p)] = q[j - Len(p)]
    BY <1>1, <1>3, <1>7
  <2>3. i - Len(p) = j - Len(p)
    BY <1>3, <2>1, <2>2 DEF IsInjective
  <2> QED
    BY <1>3, <2>3
<1>8. ASSUME NEW k \in 1..(Len(p) + Len(q)), NEW l \in 1..(Len(p) + Len(q)),
             k <= Len(p), l > Len(p)
      PROVE  (p \o q)[k] # (p \o q)[l]
  <2>1. k \in DOMAIN p /\ l - Len(p) \in DOMAIN q
    BY <1>3, <1>8
  <2>2. p[k] \in Range(p) /\ q[l - Len(p)] \in Range(q)
    BY <2>1, <1>4, <1>5
  <2>3. (p \o q)[k] = p[k] /\ (p \o q)[l] = q[l - Len(p)]
    BY <1>1, <1>3, <1>8
  <2> QED
    BY <2>2, <2>3
<1> QED
  BY <1>3, <1>6, <1>7, <1>8

(* What a claim takes and what it leaves have nothing in common. *)
LEMMA SplitInjective ==
  ASSUME NEW S, NEW q \in Seq(S), NEW n \in Nat, IsInjective(q)
  PROVE  /\ IsInjective(FirstN(q, n)) /\ IsInjective(AfterN(q, n))
         /\ Range(FirstN(q, n)) \cap Range(AfterN(q, n)) = {}
<1> DEFINE m == Least(n, Len(q))
<1>1. m \in 0..Len(q) /\ Len(q) \in Nat /\ DOMAIN q = 1..Len(q)
  BY LenProperties DEF Least
<1>2. FirstN(q, n) = [i \in 1..m |-> q[i]]
  BY <1>1, SMT DEF FirstN
<1>3. AfterN(q, n) = [i \in 1..(Len(q) - m) |-> q[m + i]]
  BY <1>1, SMT DEF AfterN
<1>4. Range(FirstN(q, n)) = {q[i] : i \in 1..m}
  BY <1>2, <1>1, Zenon DEF Range
<1>5. Range(AfterN(q, n)) = {q[m + i] : i \in 1..(Len(q) - m)}
  BY <1>3, <1>1, Zenon DEF Range
<1>6. \A i \in 1..m : i \in DOMAIN q
  BY <1>1
<1>7. \A i \in 1..(Len(q) - m) : m + i \in DOMAIN q /\ m + i \notin 1..m
  BY <1>1
<1>8. \A i, j \in 1..(Len(q) - m) : m + i = m + j => i = j
  BY <1>1
<1> HIDE DEF m
<1>9. IsInjective(FirstN(q, n))
  BY <1>2, <1>6 DEF IsInjective
<1>10. IsInjective(AfterN(q, n))
  BY <1>3, <1>7, <1>8 DEF IsInjective
<1>11. \A i \in 1..m, j \in 1..(Len(q) - m) : q[i] # q[m + j]
  BY <1>6, <1>7 DEF IsInjective
<1> QED
  BY <1>4, <1>5, <1>9, <1>10, <1>11

-----------------------------------------------------------------------------
(* HeldOnce, one lemma per thing that is done to the lists.                *)

LEMMA ReleaseOnce ==
  ASSUME TypeOK, HeldOnce, NEW w \in Worker, Release(w) PROVE HeldOnce'
<1>1. queue' = inflight[w] \o queue /\ inflight'[w] = <<>>
  BY DEF TypeOK, Release, Requeue
<1>2. \A v \in Worker : v # w => inflight'[v] = inflight[v]
  BY DEF TypeOK, Release
<1>3. inflight[w] \in Seq(Record) /\ queue \in Seq(Record)
  BY DEF TypeOK
<1>4. IsInjective(queue') /\ Range(queue') = Range(inflight[w]) \cup Range(queue)
  BY <1>1, <1>3, Join, JoinInjective DEF HeldOnce
<1>5. IsInjective(inflight'[w]) /\ Range(inflight'[w]) = {}
  BY <1>1, RangeOfEmpty DEF IsInjective
<1>6. ASSUME NEW v \in Worker
      PROVE  IsInjective(inflight'[v]) /\ Range(inflight'[v]) \cap Range(queue') = {}
  BY <1>2, <1>4, <1>5 DEF HeldOnce
<1>7. ASSUME NEW u \in Worker, NEW v \in Worker, u # v
      PROVE  Range(inflight'[u]) \cap Range(inflight'[v]) = {}
  BY <1>2, <1>5, <1>7 DEF HeldOnce
<1> QED
  BY <1>4, <1>6, <1>7 DEF HeldOnce

LEMMA ClaimOnce ==
  ASSUME TypeOK, HeldOnce, NEW w \in Worker, ClaimScript(w) PROVE HeldOnce'
<1> DEFINE items == FirstN(queue, BatchSize)
<1>1. /\ items \in Seq(Record) /\ IsInjective(items) /\ IsInjective(queue')
      /\ Range(items) \cup Range(queue') = Range(queue)
      /\ Range(items) \cap Range(queue') = {}
  <2>1. BatchSize \in Nat /\ queue \in Seq(Record) /\ IsInjective(queue)
    BY ConstantsAssumption DEF TypeOK, HeldOnce
  <2>2. queue' = AfterN(queue, BatchSize)
    BY DEF ClaimScript
  <2> QED
    BY <2>1, <2>2, Split, SplitInjective
<1>2. inflight'[w] = inflight[w] \o items
  BY DEF TypeOK, ClaimScript
<1>3. \A v \in Worker : v # w => inflight'[v] = inflight[v]
  BY DEF TypeOK, ClaimScript
<1> HIDE DEF items
<1>4. /\ IsInjective(inflight'[w])
      /\ Range(inflight'[w]) = Range(inflight[w]) \cup Range(items)
  <2>1. inflight[w] \in Seq(Record) /\ IsInjective(inflight[w])
    BY DEF TypeOK, HeldOnce
  <2>2. Range(inflight[w]) \cap Range(items) = {}
    BY <1>1 DEF HeldOnce
  <2> QED
    BY <1>1, <1>2, <2>1, <2>2, Join, JoinInjective
<1>5. ASSUME NEW v \in Worker
      PROVE  IsInjective(inflight'[v]) /\ Range(inflight'[v]) \cap Range(queue') = {}
  BY <1>1, <1>3, <1>4 DEF HeldOnce
<1>6. ASSUME NEW v \in Worker, v # w PROVE Range(inflight'[v]) \cap Range(inflight'[w]) = {}
  BY <1>1, <1>3, <1>4, <1>6 DEF HeldOnce
<1>7. ASSUME NEW u \in Worker, NEW v \in Worker, u # v
      PROVE  Range(inflight'[u]) \cap Range(inflight'[v]) = {}
  BY <1>3, <1>6, <1>7 DEF HeldOnce
<1> QED
  BY <1>1, <1>5, <1>7 DEF HeldOnce

LEMMA DeleteOnce ==
  ASSUME TypeOK, HeldOnce, NEW w \in Worker, queue' = queue,
         inflight' = [inflight EXCEPT ![w] = <<>>]
  PROVE  HeldOnce'
<1>1. IsInjective(inflight'[w]) /\ Range(inflight'[w]) = {}
  BY RangeOfEmpty DEF TypeOK, IsInjective
<1>2. \A v \in Worker : v # w => inflight'[v] = inflight[v]
  BY DEF TypeOK
<1> QED
  BY <1>1, <1>2 DEF HeldOnce

LEMMA PushOnce ==
  ASSUME TypeOK, Arrived, HeldOnce, NEW n \in 1..PushBatch, Push(n) PROVE HeldOnce'
<1> DEFINE new == [i \in 1..n |-> arrived + i]
<1>1. n \in Nat /\ arrived \in Nat /\ arrived + n <= NumRecords /\ NumRecords \in Nat
  BY ConstantsAssumption DEF TypeOK, Push
<1>2. queue' = queue \o new /\ inflight' = inflight
  BY DEF Push, redisVars
<1>3. new \in Seq(Record)
  <2>1. \A i \in 1..n : arrived + i \in Record
    BY <1>1 DEF Record
  <2> QED
    BY <1>1, <2>1, IsASeq
<1>4. \A x \in Range(new) : x \notin 1..arrived
  BY <1>1 DEF Range
<1>5. IsInjective(new)
  BY <1>1 DEF IsInjective
<1> HIDE DEF new
<1>6. Range(new) \cap Held = {}
  BY <1>4 DEF Arrived
<1>7. IsInjective(queue') /\ Range(queue') = Range(queue) \cup Range(new)
  <2>1. queue \in Seq(Record) /\ IsInjective(queue) /\ Range(queue) \cap Range(new) = {}
    BY <1>6 DEF TypeOK, HeldOnce, Held
  <2> QED
    BY <1>2, <1>3, <1>5, <2>1, Join, JoinInjective
<1>8. \A v \in Worker : Range(inflight[v]) \cap Range(new) = {}
  BY <1>6, HeldMember
<1> QED
  BY <1>2, <1>7, <1>8 DEF HeldOnce

(* The only things that are done to the lists. *)
ListSteps == \/ \E n \in 1..PushBatch : Push(n)
             \/ /\ arrived' = arrived
                /\ \E w \in Worker : \/ Release(w) \/ ClaimScript(w)
                                     \/ /\ inflight' = [inflight EXCEPT ![w] = <<>>]
                                        /\ queue' = queue
             \/ UNCHANGED <<arrived, redisVars>>

LEMMA EveryStep == ASSUME [LossyNext]_vars PROVE ListSteps
<1>1. ASSUME NEW w \in Worker, WorkerStep(w) PROVE ListSteps
  BY <1>1 DEF ListSteps, WorkerStep, AnsweredStep, Start, Recover, RecoverFail, Signal,
       Claim, ClaimReplyLost,
     BeginInsert, InsertOk, InsertFail, Ack, AckFail, HandBack, HandBackFail, Shutdown, Kill,
     redisVars
<1>2. ASSUME NEW k \in Worker, MaintVisit(k) PROVE ListSteps
  BY <1>2 DEF ListSteps, MaintVisit, redisVars
<1>3. CASE MaintStart \/ MaintAbort \/ UNCHANGED vars
  BY <1>3 DEF ListSteps, MaintStart, MaintAbort, vars, redisVars
<1> QED
  BY <1>1, <1>2, <1>3 DEF ListSteps, LossyNext, PushNext, MaintNext

LEMMA OnceKeeps == ASSUME TypeOK, Arrived, HeldOnce, [LossyNext]_vars PROVE HeldOnce'
<1>1. CASE UNCHANGED <<arrived, redisVars>>
  BY <1>1 DEF HeldOnce, redisVars
<1> QED
  BY <1>1, EveryStep, PushOnce, ReleaseOnce, ClaimOnce, DeleteOnce DEF ListSteps

-----------------------------------------------------------------------------
(* Arrived: nothing makes a record up. *)

(* What a worker takes in hand is at the head of the queue, and what is    *)
(* stored was in some worker's hands.                                      *)
LEMMA Sources ==
  ASSUME TypeOK, [LossyNext]_vars
  PROVE  /\ \A v \in Worker : batch'[v] \in {batch[v], <<>>, FirstN(queue, BatchSize)}
         /\ \/ stored' = stored
            \/ \E v \in Worker : \E S \in SUBSET Rows(batch[v]) : Stores(S)
<1>1. ASSUME NEW w \in Worker, WorkerStep(w)
      PROVE  \A v \in Worker : batch'[v] \in {batch[v], <<>>, FirstN(queue, BatchSize)}
  BY <1>1 DEF TypeOK, WorkerStep, AnsweredStep, Start, Recover, RecoverFail, Signal,
       Claim, ClaimReplyLost,
     BeginInsert, InsertOk, InsertFail, Ack, AckFail, HandBack, HandBackFail, Shutdown, Kill,
     Goto, GoesDown, workerVars
<1>2. ASSUME NEW w \in Worker, WorkerStep(w)
      PROVE  stored' = stored \/ \E S \in SUBSET Rows(batch[w]) : Stores(S)
  <2>1. CASE Kill(w)
    BY <2>1 DEF Kill, tableVars
  <2>2. CASE InsertOk(w) \/ InsertFail(w)
    BY <2>2 DEF InsertOk, InsertFail
  <2> QED
    BY <1>2, <2>1, <2>2 DEF WorkerStep, AnsweredStep, Start, Recover, RecoverFail,
         Signal, Claim,
       ClaimReplyLost, BeginInsert, Ack, AckFail, HandBack, HandBackFail, Shutdown, tableVars
<1>3. CASE UNCHANGED <<stored, batch>>
  BY <1>3
<1>4. [LossyNext]_vars => UNCHANGED <<stored, batch>> \/ \E w \in Worker : WorkerStep(w)
  BY DEF LossyNext, PushNext, MaintNext, Push, MaintStart, MaintVisit, MaintAbort, vars,
     tableVars, workerVars
<1> QED
  BY <1>1, <1>2, <1>3, <1>4

LEMMA ArrivedKeeps == ASSUME TypeOK, Arrived, [LossyNext]_vars PROVE Arrived'
<1>1. arrived' \in Nat /\ 1..arrived \subseteq 1..arrived' /\ Held' \subseteq 1..arrived'
  <2>1. arrived \in Nat
    BY ConstantsAssumption DEF TypeOK
  <2>2. CASE \E n \in 1..PushBatch : Push(n)
    <3>1. PICK n \in 1..PushBatch : Push(n)
      BY <2>2
    <3>2. Held' = Held \cup ((arrived + 1)..(arrived + n)) /\ arrived' = arrived + n
      BY <3>1, PushHeld
    <3>3. n \in Nat
      OBVIOUS
    <3>4. /\ arrived + n \in Nat /\ 1..arrived \subseteq 1..(arrived + n)
          /\ (arrived + 1)..(arrived + n) \subseteq 1..(arrived + n)
      BY <2>1, <3>3
    <3> QED
      BY <3>2, <3>4 DEF Arrived
  <2>3. CASE /\ arrived' = arrived
             /\ \E w \in Worker : \/ Release(w) \/ ClaimScript(w)
                                  \/ /\ inflight' = [inflight EXCEPT ![w] = <<>>]
                                     /\ queue' = queue
    <3>1. Held' \subseteq Held
      BY <2>3, ReleaseHeld, ClaimHeld, DeleteHeld
    <3> QED
      BY <2>1, <2>3, <3>1 DEF Arrived
  <2>4. CASE UNCHANGED <<arrived, redisVars>>
    BY <2>1, <2>4 DEF Arrived, Held, InFlight, redisVars
  <2> QED
    BY <2>2, <2>3, <2>4, EveryStep DEF ListSteps
<1>2. stored' \subseteq 1..arrived'
  <2>1. \A v \in Worker : Rows(batch[v]) \subseteq 1..arrived
    BY DEF Arrived, Rows
  <2> QED
    BY <1>1, <2>1, Sources DEF Arrived, Stores
<1>3. ASSUME NEW v \in Worker PROVE Range(batch'[v]) \subseteq 1..arrived'
  <2>1. Range(FirstN(queue, BatchSize)) \subseteq Held
    BY Split, ConstantsAssumption DEF TypeOK, Held
  <2> QED
    BY <1>1, <2>1, Sources, RangeOfEmpty DEF Arrived
<1> QED
  BY <1>1, <1>2, <1>3 DEF Arrived

-----------------------------------------------------------------------------
(* Windowed, one lemma per kind of step.                                   *)

(* What a step of one worker leaves alone. *)
OthersKeep(w) == \A v \in Worker : v # w => pc'[v] = pc[v] /\ batch'[v] = batch[v]

(* A list goes back to the queue. *)
LEMMA ReleaseWindowed ==
  ASSUME TypeOK, Windowed, NEW w \in Worker, Release(w), OthersKeep(w), UNCHANGED tableVars,
         window \subseteq window',
         Rows(inflight[w]) \cap stored \subseteq window',
         Rows(batch'[w]) \subseteq window',
         ~InHand(w)' => batch'[w] = <<>>
  PROVE  Windowed'
<1>1. queue' = inflight[w] \o queue /\ inflight'[w] = <<>>
  BY DEF TypeOK, Release, Requeue
<1>2. Range(queue') = Range(inflight[w]) \cup Range(queue) /\ Range(inflight'[w]) = {}
  BY <1>1, Join, RangeOfEmpty DEF TypeOK
<1>3. Rows(queue') \cap stored' \subseteq window'
  BY <1>2 DEF Windowed, Rows, tableVars
<1>4. ASSUME NEW v \in Worker
      PROVE  /\ Rows(inflight'[v]) \cap stored' \subseteq window' \cup Unacked(v)'
             /\ Rows(batch'[v]) \subseteq window' \cup Range(inflight'[v])
             /\ ~InHand(v)' => batch'[v] = <<>>
  <2>1. CASE v = w
    BY <1>2, <2>1 DEF Rows
  <2>2. CASE v # w
    <3>1. inflight'[v] = inflight[v] /\ pc'[v] = pc[v] /\ batch'[v] = batch[v]
      BY <2>2 DEF TypeOK, Release, OthersKeep
    <3> QED
      BY <3>1 DEF Windowed, InHand, Unacked, Rows, tableVars
  <2> QED
    BY <2>1, <2>2
<1> QED
  BY <1>3, <1>4 DEF Windowed, tableVars

(* Rows of a claim are stored, or none. *)
LEMMA StoresWindowed ==
  ASSUME TypeOK, HeldOnce, Windowed, NEW w \in Worker, OthersKeep(w), UNCHANGED redisVars,
         NEW S \in SUBSET Rows(batch[w]), Stores(S), S = {} \/ pc[w] = "inserting",
         window \subseteq window',
         S \cup Unacked(w) \subseteq window' \cup Unacked(w)',
         batch'[w] \in {batch[w], <<>>},
         ~InHand(w)' => batch'[w] = <<>>
  PROVE  Windowed'
<1>1. S \subseteq window \cup Range(inflight[w]) /\ S \cap Undecodable = {}
  BY DEF Windowed, Rows
<1>2. S \cap stored \subseteq window
  BY <1>1 DEF Windowed, Unacked, Rows
<1>3. dup' \subseteq window'
  BY <1>2 DEF Windowed, Stores
<1>4. Rows(queue') \cap stored' \subseteq window'
  BY <1>1 DEF Windowed, HeldOnce, Stores, Rows, redisVars
<1>5. ASSUME NEW v \in Worker
      PROVE  /\ Rows(inflight'[v]) \cap stored' \subseteq window' \cup Unacked(v)'
             /\ Rows(batch'[v]) \subseteq window' \cup Range(inflight'[v])
             /\ ~InHand(v)' => batch'[v] = <<>>
  <2>1. inflight'[v] = inflight[v]
    BY DEF redisVars
  <2>2. Rows(inflight[v]) \cap stored \subseteq window \cup Unacked(v)
    BY DEF Windowed
  <2>3. stored' = stored \cup S
    BY DEF Stores
  <2>4. CASE v = w
    <3>1. Rows(inflight'[v]) \cap stored' \subseteq window' \cup Unacked(v)'
      BY <2>1, <2>2, <2>3, <2>4
    <3>2. Rows(<<>>) = {}
      BY RangeOfEmpty DEF Rows
    <3>3. Rows(batch'[v]) \subseteq window' \cup Range(inflight'[v])
      BY <2>1, <2>4, <3>2 DEF Windowed
    <3> QED
      BY <2>4, <3>1, <3>3
  <2>5. CASE v # w
    <3>1. pc'[v] = pc[v] /\ batch'[v] = batch[v]
      BY <2>5 DEF OthersKeep
    <3>2. Rows(inflight[v]) \cap S \subseteq window
      BY <1>1, <2>5 DEF HeldOnce, Rows
    <3>3. Unacked(v)' = Unacked(v) /\ InHand(v)' = InHand(v)
      BY <3>1 DEF Unacked, InHand
    <3>4. Rows(inflight'[v]) \cap stored' \subseteq window' \cup Unacked(v)'
      BY <2>1, <2>2, <2>3, <3>2, <3>3
    <3> QED
      BY <2>1, <3>1, <3>3, <3>4 DEF Windowed
  <2> QED
    BY <2>4, <2>5
<1> QED
  BY <1>3, <1>4, <1>5 DEF Windowed

(* A list is deleted after its insert. *)
LEMMA DeleteWindowed ==
  ASSUME TypeOK, Windowed, NEW w \in Worker, OthersKeep(w), UNCHANGED <<queue, tableVars, window>>,
         inflight' = [inflight EXCEPT ![w] = <<>>], batch'[w] = <<>>
  PROVE  Windowed'
<1>1. Rows(inflight'[w]) = {} /\ Rows(batch'[w]) = {}
  BY RangeOfEmpty DEF TypeOK, Rows
<1>2. ASSUME NEW v \in Worker, v # w
      PROVE  inflight'[v] = inflight[v] /\ pc'[v] = pc[v] /\ batch'[v] = batch[v]
  BY <1>2 DEF TypeOK, OthersKeep
<1>3. ASSUME NEW v \in Worker
      PROVE  /\ Rows(inflight'[v]) \cap stored' \subseteq window' \cup Unacked(v)'
             /\ Rows(batch'[v]) \subseteq window' \cup Range(inflight'[v])
             /\ ~InHand(v)' => batch'[v] = <<>>
  BY <1>1, <1>2 DEF Windowed, Unacked, InHand, tableVars
<1> QED
  BY <1>3 DEF Windowed, Rows, tableVars

(* The claim script runs, answered or not. *)
LEMMA ClaimWindowed ==
  ASSUME TypeOK, Windowed, NEW w \in Worker, ClaimScript(w), pc[w] = "loop", OthersKeep(w),
         UNCHANGED <<tableVars, window>>,
         \/ batch'[w] = FirstN(queue, BatchSize) /\ pc'[w] \in {"ack", "retry"}
         \/ batch'[w] = batch[w] /\ pc'[w] = pc[w]
  PROVE  Windowed'
<1> DEFINE items == FirstN(queue, BatchSize)
<1>1. items \in Seq(Record) /\ Range(items) \cup Range(queue') = Range(queue)
  BY Split, ConstantsAssumption DEF TypeOK, ClaimScript
<1>2. inflight'[w] = inflight[w] \o items
  BY DEF TypeOK, ClaimScript
<1>3. Range(inflight'[w]) = Range(inflight[w]) \cup Range(items)
  BY <1>1, <1>2, Join DEF TypeOK
<1> HIDE DEF items
<1>4. Rows(queue') \cap stored' \subseteq window'
  BY <1>1 DEF Windowed, Rows, tableVars
<1>5. Rows(inflight'[w]) \cap stored' \subseteq window'
  BY <1>1, <1>3 DEF Windowed, Rows, Unacked, tableVars
<1>6. batch[w] = <<>>
  BY DEF Windowed, InHand
<1>7. /\ Rows(batch'[w]) \subseteq Range(inflight'[w])
      /\ ~InHand(w)' => batch'[w] = <<>>
  BY <1>3, <1>6, RangeOfEmpty DEF Rows, InHand, items
<1>8. ASSUME NEW v \in Worker, v # w
      PROVE  inflight'[v] = inflight[v] /\ pc'[v] = pc[v] /\ batch'[v] = batch[v]
  BY <1>8 DEF TypeOK, ClaimScript, OthersKeep
<1>9. ASSUME NEW v \in Worker, v # w
      PROVE  /\ Rows(inflight'[v]) \cap stored' \subseteq window' \cup Unacked(v)'
             /\ Rows(batch'[v]) \subseteq window' \cup Range(inflight'[v])
             /\ ~InHand(v)' => batch'[v] = <<>>
  BY <1>8, <1>9 DEF Windowed, Unacked, InHand, Rows, tableVars
<1> QED
  BY <1>4, <1>5, <1>7, <1>9 DEF Windowed, tableVars

LEMMA PushRange ==
  ASSUME TypeOK, NEW n \in 1..PushBatch, Push(n)
  PROVE  Range(queue') \subseteq Range(queue) \cup {arrived + i : i \in 1..n}
<1> DEFINE new == [i \in 1..n |-> arrived + i]
<1>1. n \in Nat /\ arrived \in Nat /\ arrived + n <= NumRecords /\ NumRecords \in Nat
  BY ConstantsAssumption DEF TypeOK, Push
<1>2. new \in Seq(Record)
  <2>1. \A i \in 1..n : arrived + i \in Record
    BY <1>1 DEF Record
  <2> QED
    BY <1>1, <2>1, IsASeq
<1>3. Range(new) = {arrived + i : i \in 1..n}
  BY DEF Range
<1>4. queue' = queue \o new /\ queue \in Seq(Record)
  BY DEF Push, TypeOK
<1> HIDE DEF new
<1> QED
  BY <1>2, <1>3, <1>4, Join

(* New records are no rows yet. *)
LEMMA PushWindowed ==
  ASSUME TypeOK, Arrived, Windowed, NEW n \in 1..PushBatch, Push(n) PROVE Windowed'
<1>1. arrived \in Nat /\ n \in Nat
  BY ConstantsAssumption DEF TypeOK
<1>2. Range(queue') \subseteq Range(queue) \cup ((arrived + 1)..(arrived + n))
  <2>1. Range(queue') \subseteq Range(queue) \cup {arrived + i : i \in 1..n}
    BY PushRange
  <2> QED
    BY <1>1, <2>1
<1>3. ((arrived + 1)..(arrived + n)) \cap stored = {}
  BY <1>1 DEF Arrived
<1>4. Rows(queue') \cap stored' \subseteq window'
  BY <1>2, <1>3 DEF Windowed, Rows, Push, tableVars
<1> QED
  BY <1>4 DEF Windowed, Unacked, InHand, Rows, Push, tableVars, workerVars

LEMMA WorkerWindowed ==
  ASSUME TypeOK, HeldOnce, Windowed, NEW w \in Worker, WorkerStep(w) PROVE Windowed'
<1>1. /\ TypeOK /\ Windowed /\ OthersKeep(w) /\ window \subseteq window'
      /\ Rows(inflight[w]) \cap stored \subseteq window \cup Unacked(w)
      /\ Rows(batch[w]) \subseteq window \cup Range(inflight[w])
      /\ ~InHand(w) => batch[w] = <<>>
  <2>1. OthersKeep(w)
    BY DEF TypeOK, OthersKeep, WorkerStep, AnsweredStep, Start, Recover, RecoverFail,
         Signal, Claim,
       ClaimReplyLost, BeginInsert, InsertOk, InsertFail, Ack, AckFail, HandBack,
       HandBackFail, Shutdown, Kill, Goto, GoesDown, workerVars
  <2>2. ASSUME Kill(w) PROVE window \subseteq window'
    BY <2>2 DEF Kill
  <2>3. window \subseteq window'
    BY <2>2 DEF WorkerStep, AnsweredStep, Start, Recover, RecoverFail, Signal, Claim,
         ClaimReplyLost,
       BeginInsert, InsertOk, InsertFail, Ack, AckFail, HandBack, HandBackFail, Shutdown
  <2> QED
    BY <2>1, <2>3 DEF Windowed
<1>2. Rows(<<>>) = {} /\ Unacked(w) \subseteq Rows(batch[w])
  BY RangeOfEmpty DEF Rows, Unacked
<1>3. ASSUME Release(w), UNCHANGED <<tableVars, window>>, pc[w] # "ack",
             batch'[w] = <<>>
      PROVE  Windowed'
  BY <1>1, <1>2, <1>3, ReleaseWindowed DEF Unacked
<1>4. ASSUME UNCHANGED <<redisVars, tableVars>>,
             Unacked(w) \subseteq window' \cup Unacked(w)',
             batch'[w] \in {batch[w], <<>>}, ~InHand(w)' => batch'[w] = <<>>
      PROVE  Windowed'
  <2>1. Stores({})
    BY <1>4 DEF Stores, tableVars
  <2> QED
    BY <1>1, <1>4, <2>1, StoresWindowed
<1>5. ASSUME UNCHANGED <<redisVars, tableVars>>, pc[w] # "ack", GoesDown(w)
      PROVE  Windowed'
  <2>1. batch'[w] = <<>>
    BY <1>5 DEF TypeOK, GoesDown
  <2> QED
    BY <1>4, <1>5, <2>1 DEF Unacked
<1>6. ASSUME NEW S \in SUBSET Rows(batch[w]), Stores(S), UNCHANGED redisVars,
             pc[w] = "inserting", window' = window \cup S, batch'[w] \in {batch[w], <<>>},
             ~InHand(w)' => batch'[w] = <<>>
      PROVE  Windowed'
  BY <1>1, <1>6, StoresWindowed DEF Unacked
<1>7. CASE Start(w)
  BY <1>1, <1>4, <1>7 DEF Start, Goto, TypeOK, InHand, Unacked
<1>8. CASE Recover(w)
  BY <1>1, <1>3, <1>8 DEF Recover, Goto, TypeOK, InHand
<1>9. CASE RecoverFail(w)
  BY <1>3, <1>5, <1>9 DEF RecoverFail, GoesDown, TypeOK
<1>10. CASE Signal(w)
  BY <1>1, <1>4, <1>10 DEF Signal, InHand, Unacked
<1>11. CASE Claim(w)
  <2>1. /\ batch'[w] = FirstN(queue, BatchSize) /\ pc'[w] \in {"ack", "retry"}
        /\ ClaimScript(w) /\ pc[w] = "loop" /\ UNCHANGED <<tableVars, window>>
    BY <1>11 DEF Claim, TypeOK
  <2> QED
    BY <1>1, <2>1, ClaimWindowed
<1>12. CASE ClaimReplyLost(w)
  BY <1>1, <1>12, ClaimWindowed DEF ClaimReplyLost, workerVars
<1>13. CASE BeginInsert(w)
  BY <1>4, <1>13 DEF BeginInsert, Goto, TypeOK, InHand, Unacked
<1>14. CASE InsertOk(w)
  <2>1. Unacked(w)' = Rows(batch[w]) /\ batch'[w] = batch[w] /\ pc'[w] = "ack"
    BY <1>14 DEF InsertOk, Goto, TypeOK, Unacked, Rows
  <2> QED
    BY <1>1, <1>14, <2>1, StoresWindowed DEF InsertOk, Unacked, InHand
<1>15. CASE InsertFail(w)
  <2>1. PICK S \in SUBSET Rows(batch[w]) : Stores(S) /\ window' = window \cup S
    BY <1>15 DEF InsertFail
  <2> QED
    BY <1>6, <1>15, <2>1 DEF InsertFail, Goto, TypeOK, InHand
<1>16. CASE Ack(w)
  BY <1>1, <1>16, DeleteWindowed DEF Ack, TypeOK
<1>17. CASE AckFail(w)
  <2>1. batch'[w] = <<>>
    BY <1>17 DEF AckFail, GoesDown, TypeOK
  <2>2. CASE window' = window \cup Rows(batch[w]) /\ UNCHANGED inflight
    BY <1>2, <1>4, <1>17, <2>1, <2>2 DEF AckFail, redisVars
  <2>3. CASE inflight' = [inflight EXCEPT ![w] = <<>>] /\ UNCHANGED window
    BY <1>1, <1>17, <2>1, <2>3, DeleteWindowed DEF AckFail
  <2> QED
    BY <1>17, <2>2, <2>3 DEF AckFail
<1>18. CASE HandBack(w)
  BY <1>3, <1>18 DEF HandBack, TypeOK
<1>19. CASE HandBackFail(w)
  BY <1>3, <1>5, <1>19 DEF HandBackFail, GoesDown, TypeOK
<1>20. CASE Shutdown(w)
  BY <1>3, <1>5, <1>20 DEF Shutdown, GoesDown, TypeOK
<1>21. CASE Kill(w)
  <2>1. batch'[w] = <<>> /\ GoesDown(w) /\ UNCHANGED redisVars
    BY <1>21 DEF Kill, GoesDown, TypeOK
  <2>2. CASE pc[w] = "inserting"
    <3>1. PICK S \in SUBSET Rows(batch[w]) : Stores(S) /\ window' = window \cup S
      BY <1>21, <2>2 DEF Kill
    <3> QED
      BY <1>6, <2>1, <2>2, <3>1
  <2>3. CASE pc[w] = "ack"
    <3>1. window' = window \cup Rows(batch[w]) /\ UNCHANGED tableVars
      BY <1>21, <2>3 DEF Kill
    <3> QED
      BY <1>2, <1>4, <2>1, <3>1
  <2>4. CASE pc[w] \notin {"inserting", "ack"}
    <3>1. UNCHANGED tableVars
      BY <1>21, <2>4 DEF Kill
    <3> QED
      BY <1>5, <2>1, <2>4, <3>1
  <2> QED
    BY <2>2, <2>3, <2>4
<1> QED
  BY <1>7, <1>8, <1>9, <1>10, <1>11, <1>12, <1>13, <1>14, <1>15, <1>16, <1>17, <1>18,
       <1>19,
     <1>20, <1>21 DEF WorkerStep, AnsweredStep

LEMMA WindowedKeeps == ASSUME OnceInv, [LossyNext]_vars PROVE Windowed'
<1> USE DEF OnceInv
<1>1. ASSUME NEW k \in Worker, MaintVisit(k) PROVE Windowed'
  <2>1. OthersKeep(k) /\ UNCHANGED tableVars /\ pc' = pc /\ batch' = batch
    BY <1>1 DEF MaintVisit, workerVars, OthersKeep
  <2>2. /\ window \subseteq window'
        /\ ~InHand(k) => batch[k] = <<>>
        /\ Rows(batch[k]) \subseteq window \cup Range(inflight[k])
        /\ Rows(inflight[k]) \cap stored \subseteq window \cup Unacked(k)
    BY <1>1 DEF MaintVisit, Windowed
  <2>3. CASE k \in live
    BY <1>1, <2>1, <2>3 DEF MaintVisit, Windowed, Unacked, InHand, redisVars, tableVars
  <2>4. CASE k \notin live /\ InHand(k)
    <3>1. window' = window \cup Rows(inflight[k]) /\ Release(k)
      BY <1>1, <2>4 DEF MaintVisit, InHand
    <3>2. Rows(batch[k]) \subseteq window'
      BY <2>2, <3>1 DEF Rows
    <3> QED
      BY <2>1, <2>2, <2>4, <3>1, <3>2, ReleaseWindowed DEF InHand
  <2>5. CASE k \notin live /\ ~InHand(k)
    <3>1. Release(k) /\ Unacked(k) = {} /\ Rows(batch[k]) = {}
      BY <1>1, <2>2, <2>5, RangeOfEmpty DEF MaintVisit, Unacked, InHand, Rows
    <3> QED
      BY <2>1, <2>2, <2>5, <3>1, ReleaseWindowed DEF InHand
  <2> QED
    BY <2>3, <2>4, <2>5
<1>2. CASE MaintStart \/ MaintAbort \/ UNCHANGED vars
  BY <1>2 DEF MaintStart, MaintAbort, vars, Windowed, Unacked, InHand, redisVars,
       tableVars,
     workerVars
<1> QED
  BY <1>1, <1>2, WorkerWindowed, PushWindowed DEF LossyNext, PushNext, MaintNext

-----------------------------------------------------------------------------
(* The theorems, for every set of failures. *)

(* OnceInv is an invariant, of the workers, the maintenance run and their  *)
(* failures, lost claim replies included.                                  *)
THEOREM OnceInvariant == LossySpec => []OnceInv
<1>1. Init => OnceInv
  <2> SUFFICES ASSUME Init PROVE OnceInv
    OBVIOUS
  <2>1. TypeOK
    BY ConstantsAssumption DEF Init, TypeOK
  <2>2. Range(queue) = {} /\ \A v \in Worker : Range(inflight[v]) = {} /\ Range(batch[v]) = {}
    BY RangeOfEmpty DEF Init
  <2>3. Held = {}
    BY <2>2, HeldMember
  <2>4. Arrived
    BY <2>2, <2>3 DEF Init, Arrived
  <2>5. HeldOnce
    BY <2>2 DEF Init, HeldOnce, IsInjective
  <2>6. Windowed
    BY <2>2 DEF Init, Windowed, Rows
  <2> QED
    BY <2>1, <2>4, <2>5, <2>6 DEF OnceInv
<1>2. OnceInv /\ [LossyNext]_vars => OnceInv'
  BY TypeStep, ArrivedKeeps, OnceKeeps, WindowedKeeps DEF OnceInv
<1> QED
  BY <1>1, <1>2, PTL DEF LossySpec

(* Claims are exclusive: a record is at one place of one Redis list.       *)
THEOREM HeldAtOnePlace == LossySpec => []HeldOnce
<1>1. OnceInv => HeldOnce
  BY DEF OnceInv
<1> QED
  BY <1>1, OnceInvariant, PTL

(* A row is stored twice only if its insert took effect and its ack did    *)
(* not.                                                                    *)
THEOREM DuplicatesOnlyInTheWindow == LossySpec => []DuplicateOnlyInWindow
<1>1. OnceInv => DuplicateOnlyInWindow
  BY DEF OnceInv, Windowed, DuplicateOnlyInWindow
<1> QED
  BY <1>1, OnceInvariant, PTL
=============================================================================
