---------------------------- MODULE ArchiveProofs ----------------------------
(***************************************************************************)
(* Proofs about Archive, for any months, rows and retention, and failures  *)
(* and kills at every step: a partition is dropped only if a file has its  *)
(* rows, and what is recorded as archived is complete.                     *)
(***************************************************************************)
EXTENDS Archive, TLAPS

-----------------------------------------------------------------------------
(* The inductive invariant. *)

Of(m) == {r \in arrived : MonthOf(r) = m}
Busy == {"count", "stream", "replace", "finish", "drop"}

(* A month whose rows do not begin to expire yet. *)
Young(m) == m + RetentionMonths > Today

(* Where the run is, and what SQLite says of the months. *)
Positions ==
  /\ pc \in {"count", "stream", "replace", "finish"} => record[part] = "running"
  /\ pc = "drop" => record[part] = "success"
  /\ pc \in Busy => part < Today /\ part \notin todo
  /\ \A m \in todo : m < Today /\ record[m] # "success"
  /\ \A m \in Month : record[m] = "success" \/ m \in unsure => m < Today

(* After a drop that seemed to fail, only late rows make a month be        *)
(* exported again.                                                         *)
OnlyLate ==
  \A m \in unsure : /\ Rows(m) \subseteq late
                    /\ m \in todo \/ (m = part /\ pc \in Busy) => Overwritten(m)

(* Before it is dropped a month is all in the table. *)
StillThere ==
  \A m \in Month :
    Young(m) /\ m \notin unsure /\ (record[m] # "success" \/ (m = part /\ pc = "drop"))
      => Of(m) \subseteq table

(* Before it may be dropped, and from then on, it is all in its file.      *)
Filed ==
  \A m \in Month :
    Young(m) /\ (record[m] = "success" \/ m \in unsure \/ (m = part /\ pc \in {"finish", "drop"}))
      => Overwritten(m) \/ Of(m) \subseteq file[m] \cup late

Exporting ==
  pc = "replace" /\ Young(part) => Overwritten(part) \/ Of(part) \subseteq export \cup late

(* No row is of the future. *)
RowsPast == \A r \in arrived : r <= clock

AInv == TypeOK /\ RowsPast /\ Positions /\ OnlyLate /\ StillThere /\ Filed /\ Exporting

-----------------------------------------------------------------------------
(* Arithmetic of months. *)

LEMMA Quotient ==
  ASSUME NEW a \in Nat, NEW u \in Nat \ {0}
  PROVE  a \div u \in Nat /\ u * (a \div u) <= a /\ a < u * (a \div u + 1)
OBVIOUS

LEMMA Cancel ==
  ASSUME NEW u \in Nat \ {0}, NEW x \in Int, NEW y \in Int, u * x < u * y
  PROVE  x < y
OBVIOUS

(* Months do not go back, and a whole number of months later is as many    *)
(* months later.                                                           *)
LEMMA MonthsLater ==
  ASSUME NEW a \in Nat, NEW b \in Nat, NEW k \in Nat, a + UnitsPerMonth * k <= b
  PROVE  MonthOf(a) + k <= MonthOf(b)
<1> DEFINE u == UnitsPerMonth
           x == a \div u
           y == b \div u
<1>1. u \in Nat \ {0}
  BY ArchiveAssumption
<1>2. x \in Nat /\ y \in Nat /\ u * x <= a /\ b < u * (y + 1)
  BY <1>1, Quotient
<1>3. MonthOf(a) = x /\ MonthOf(b) = y
  BY DEF MonthOf
<1>4. a + u * k <= b
  OBVIOUS
<1> HIDE DEF u, x, y
<1>5. u * (x + k) = u * x + u * k
  BY <1>1, <1>2
<1>6. u * x \in Nat /\ u * k \in Nat /\ u * (y + 1) \in Nat
  BY <1>1, <1>2
<1>7. u * (x + k) < u * (y + 1)
  BY <1>2, <1>4, <1>5, <1>6
<1>8. x + k < y + 1
  BY <1>1, <1>2, <1>7, Cancel
<1> QED
  BY <1>2, <1>3, <1>8

LEMMA MonthsInOrder ==
  ASSUME NEW a \in Nat, NEW b \in Nat, a <= b PROVE MonthOf(a) <= MonthOf(b)
<1>1. UnitsPerMonth \in Nat \ {0} /\ UnitsPerMonth * 0 = 0
  BY ArchiveAssumption
<1>2. MonthOf(a) \in Nat
  BY <1>1, Quotient DEF MonthOf
<1> QED
  BY <1>1, <1>2, MonthsLater

LEMMA MonthOfMultiple ==
  ASSUME NEW k \in Nat PROVE MonthOf(UnitsPerMonth * k) = k
<1> DEFINE u == UnitsPerMonth
           x == (u * k) \div u
<1>1. u \in Nat \ {0} /\ u * k \in Nat
  BY ArchiveAssumption
<1>2. x \in Nat /\ u * x <= u * k /\ u * k < u * (x + 1)
  BY <1>1, Quotient
<1>3. MonthOf(UnitsPerMonth * k) = x
  BY DEF MonthOf
<1> HIDE DEF u, x
<1>4. k < x + 1
  BY <1>1, <1>2, Cancel
<1>5. CASE x > k
  <2>1. u * k < u * x
    BY <1>1, <1>2, <1>5
  <2> QED
    BY <1>1, <1>2, <2>1
<1> QED
  BY <1>2, <1>3, <1>4, <1>5

(* The six digits of year and month order the months. *)
LEMMA StemOrder ==
  ASSUME NEW m \in Nat, NEW n \in Nat, Stem(m) < Stem(n) PROVE m < n
BY DEF Stem

LEMMA CutoffOrder ==
  ASSUME TypeOK, NEW m \in PastCutoff PROVE ~Young(m)
<1>1. m \in Nat /\ Today \in Nat /\ Today + 1 - RetentionMonths \in Nat
      /\ RetentionMonths \in Nat /\ Stem(m) < Cutoff
  BY ArchiveAssumption DEF TypeOK, PastCutoff, Month
<1>2. Cutoff = Stem(Today + 1 - RetentionMonths)
  BY DEF Cutoff, Stem
<1>3. m < Today + 1 - RetentionMonths
  BY <1>1, <1>2, StemOrder
<1> QED
  BY <1>1, <1>3 DEF Young

LEMMA Ranges ==
  ASSUME TypeOK
  PROVE  /\ FirstMonth \in Nat /\ LastMonth \in Nat /\ RetentionMonths \in Nat /\ Today \in Nat
         /\ clock \in Nat /\ Month \subseteq Nat /\ UnitsPerMonth \in Nat \ {0} /\ Row \subseteq Nat
         /\ \A r \in arrived : r \in Nat
BY ArchiveAssumption DEF TypeOK, Month

(* The rows are of the months. *)
LEMMA MonthsOfRows ==
  ASSUME TypeOK, NEW r \in Row, r <= clock
  PROVE  MonthOf(r) \in Month /\ MonthOf(r) <= Today
<1>1. /\ r \in Nat /\ clock \in Nat /\ FirstMonth \in Nat /\ UnitsPerMonth \in Nat
      /\ UnitsPerMonth * FirstMonth \in Nat
  BY Ranges, ArchiveAssumption
<1>2. MonthOf(UnitsPerMonth * FirstMonth) <= MonthOf(r)
  <2>1. UnitsPerMonth * FirstMonth <= r
    BY ArchiveAssumption
  <2> QED
    BY <1>1, <2>1, MonthsInOrder
<1>3. MonthOf(UnitsPerMonth * FirstMonth) = FirstMonth
  BY <1>1, MonthOfMultiple
<1>4. MonthOf(r) <= Today
  BY <1>1, MonthsInOrder DEF Today
<1>5. MonthOf(r) \in Int
  BY <1>1, Quotient, ArchiveAssumption DEF MonthOf
<1>6. Today \in Int /\ LastMonth \in Int /\ Today <= LastMonth
  <2>1. Today \in Month
    BY DEF TypeOK
  <2>2. FirstMonth \in Int /\ LastMonth \in Int
    BY Ranges
  <2> QED
    BY <2>1, <2>2 DEF Month
<1>7. FirstMonth <= MonthOf(r) /\ MonthOf(r) <= LastMonth
  BY <1>2, <1>3, <1>4, <1>5, <1>6
<1> QED
  BY <1>1, <1>4, <1>5, <1>6, <1>7 DEF Month

LEMMA TypeStep == ASSUME TypeOK, [Next]_vars PROVE TypeOK'
<1> USE DEF world, run
<1>1. CASE Tick
  <2>1. clock \in Nat /\ clock + 1 \in Nat /\ MonthOf(clock) \in Month
    BY <1>1 DEF TypeOK, Today
  <2>2. MonthOf(clock) <= MonthOf(clock + 1)
    BY <2>1, MonthsInOrder
  <2>3. MonthOf(clock + 1) \in Int
    BY <2>1, Quotient, ArchiveAssumption DEF MonthOf
  <2>4. MonthOf(clock + 1) \in Month
    BY <1>1, <2>1, <2>2, <2>3, Ranges DEF Tick, Month
  <2> QED
    BY <1>1, <2>1, <2>4 DEF Tick, TypeOK, Today
<1>2. CASE Insert
  <2>1. PICK r \in Row \ arrived :
          /\ r <= clock /\ arrived' = arrived \cup {r} /\ table' = table \cup {r}
          /\ late' \subseteq late \cup {r}
          /\ UNCHANGED <<clock, unsure, file, record, run>>
    BY <1>2 DEF Insert
  <2>2. arrived' \subseteq Row /\ table' \subseteq arrived' /\ late' \subseteq arrived'
    BY <2>1 DEF TypeOK
  <2>3. file' \in [Month -> SUBSET arrived']
    BY <2>1 DEF TypeOK
  <2>4. export' \subseteq {q \in arrived' : MonthOf(q) = part'}
    BY <2>1 DEF TypeOK
  <2>5. UNCHANGED <<clock, unsure, record, pc, drop, todo, part, export>>
    BY <2>1
  <2> QED
    BY <2>2, <2>3, <2>4, <2>5 DEF TypeOK, Today
<1>3. CASE Expire
  <2>1. table' \subseteq table /\ UNCHANGED <<clock, arrived, late, unsure, file, record, run>>
    BY <1>3 DEF Expire
  <2> QED
    BY <2>1 DEF TypeOK, Today
<1>4. CASE Start
  BY <1>4 DEF Start, TypeOK, Today, ClosedPartitions
<1>5. CASE Begin
  BY <1>5 DEF Begin, TypeOK, Today
<1>6. CASE Count
  BY <1>6 DEF Count, Finished, TypeOK, Today
<1>7. CASE Stream
  BY <1>7 DEF Stream, Rows, TypeOK, Today
<1>8. CASE Replace
  BY <1>8 DEF Replace, Finished, TypeOK, Today
<1>9. CASE Finish
  BY <1>9 DEF Finish, Finished, TypeOK, Today
<1>10. CASE DropPartition
  BY <1>10 DEF DropPartition, TypeOK, Today
<1>11. CASE Fail
  BY <1>11 DEF Fail, Finished, TypeOK, Today
<1>12. CASE DropReplyLost
  BY <1>12 DEF DropReplyLost, Finished, TypeOK, Today
<1>13. CASE Prune
  <2>1. file' \in [Month -> SUBSET arrived]
    BY <1>13 DEF Prune, TypeOK
  <2> QED
    BY <1>13, <2>1 DEF Prune, TypeOK, Today
<1>14. CASE Kill
  BY <1>14 DEF Kill, TypeOK, Today
<1>15. CASE UNCHANGED vars
  BY <1>15 DEF vars, TypeOK, Today
<1> QED
  BY <1>1, <1>2, <1>3, <1>4, <1>5, <1>6, <1>7, <1>8, <1>9, <1>10, <1>11, <1>12, <1>13, <1>14,
     <1>15 DEF Next

-----------------------------------------------------------------------------
(* What the world does: a month stays closed, and only old rows expire.    *)

LEMMA TodayAdvances == ASSUME TypeOK, [Next]_vars PROVE Today <= Today' /\ Today' \in Nat
<1>1. Today' \in Nat /\ Today \in Nat
  BY TypeStep, Ranges DEF TypeOK, Month
<1>2. CASE Tick
  <2>1. clock \in Nat /\ clock' = clock + 1 /\ clock + 1 \in Nat
    BY <1>2, Ranges DEF Tick
  <2>2. MonthOf(clock) <= MonthOf(clock + 1)
    BY <2>1, MonthsInOrder
  <2> QED
    BY <1>1, <2>1, <2>2 DEF Today
<1>3. CASE clock' = clock
  BY <1>1, <1>3 DEF Today
<1>4. Tick \/ clock' = clock
  BY DEF Next, vars, world, Insert, Expire, Start, Begin, Count, Stream, Replace, Finish,
     DropPartition, Fail, DropReplyLost, Prune, Kill
<1> QED
  BY <1>2, <1>3, <1>4

LEMMA YoungBefore == ASSUME TypeOK, [Next]_vars, NEW m \in Month, Young(m)' PROVE Young(m)
BY TodayAdvances, Ranges DEF Young

LEMMA OldRowsExpire ==
  ASSUME TypeOK, NEW r \in arrived, Expired(r) PROVE ~Young(MonthOf(r))
<1>1. r \in Nat /\ clock \in Nat /\ RetentionMonths \in Nat
  BY Ranges
<1>2. MonthOf(r) + RetentionMonths <= Today
  BY <1>1, MonthsLater DEF Expired, Today
<1>3. MonthOf(r) \in Int
  BY <1>1, Quotient, ArchiveAssumption DEF MonthOf
<1> QED
  BY <1>1, <1>2, <1>3, Ranges DEF Young

(* What a month has of exported and late rows does not change back.        *)
LEMMA HistoryGrows ==
  ASSUME TypeOK, [Next]_vars
  PROVE  /\ late \subseteq late' /\ unsure \subseteq unsure'
         /\ \A m : Overwritten(m) => Overwritten(m)'
<1>1. late \subseteq late' /\ unsure \subseteq unsure'
  BY DEF Next, vars, world, Tick, Insert, Expire, Start, Begin, Count, Stream, Replace, Finish,
     DropPartition, Fail, DropReplyLost, Prune, Kill
<1> QED
  BY <1>1 DEF Overwritten

(* What the world's steps and the run's leave to each other.               *)
WorldStep == Tick \/ Insert \/ Expire
RunStep == \/ Start \/ Begin \/ Count \/ Stream \/ Replace \/ Finish
           \/ DropPartition \/ Fail \/ DropReplyLost \/ Prune \/ Kill

LEMMA WorldKeeps == ASSUME WorldStep PROVE UNCHANGED <<unsure, file, record, run>>
BY DEF WorldStep, Tick, Insert, Expire, run

LEMMA RunKeeps ==
  ASSUME RunStep
  PROVE  /\ UNCHANGED <<clock, arrived, late>> /\ Today' = Today
         /\ \A m : Young(m)' = Young(m) /\ Of(m)' = Of(m)
<1>1. UNCHANGED <<clock, arrived, late>>
  BY DEF RunStep, world, Start, Begin, Count, Stream, Replace, Finish,
     DropPartition, Fail, DropReplyLost, Prune, Kill
<1> QED
  BY <1>1 DEF Today, Young, Of

LEMMA AnyStep == [Next]_vars => WorldStep \/ RunStep \/ UNCHANGED vars
BY DEF Next, WorldStep, RunStep

-----------------------------------------------------------------------------
(* Each part of the invariant. *)

LEMMA PositionsKeep == ASSUME TypeOK, Positions, [Next]_vars PROVE Positions'
<1>1. Today <= Today' /\ Today \in Nat /\ Today' \in Nat /\ Month \subseteq Nat
      /\ todo \subseteq Month /\ part \in Month
  BY TodayAdvances, Ranges DEF TypeOK
<1>2. CASE WorldStep
  <2>1. UNCHANGED <<unsure, record, pc, todo, part>>
    BY <1>2, WorldKeeps DEF run
  <2>2. \A m \in Month : m < Today => m < Today'
    BY <1>1
  <2> QED
    BY <1>1, <2>1, <2>2 DEF Positions
<1>3. CASE UNCHANGED vars
  BY <1>3 DEF vars, Positions, Busy, Today
<1>4. CASE RunStep
  <2>1. Today' = Today
    BY <1>4, RunKeeps
  <2>2. CASE Start
    <3>1. \A m \in ClosedPartitions : m < Today /\ record[m] # "success"
      BY <1>1, StemOrder DEF ClosedPartitions
    <3> QED
      BY <2>1, <2>2, <3>1 DEF Start, world, Positions, Busy
  <2>3. CASE Begin
    <3>1. PICK m \in todo : /\ part' = m /\ todo' = todo \ {m}
                            /\ record' = [record EXCEPT ![m] = "running"]
      BY <2>3 DEF Begin
    <3>2. record'[m] = "running" /\ \A n \in Month : n # m => record'[n] = record[n]
      BY <1>1, <3>1 DEF TypeOK
    <3> QED
      BY <1>1, <2>1, <2>3, <3>1, <3>2 DEF Begin, world, Positions, Busy
  <2>4. ASSUME NEW status, Finished(status), status # "success", pc \in Busy,
               todo' = todo, part' = part, unsure' \subseteq unsure \cup {part}
        PROVE  Positions'
    <3>1. record'[part] = status /\ \A n \in Month : n # part => record'[n] = record[n]
      BY <1>1, <2>4 DEF TypeOK, Finished
    <3> QED
      BY <1>1, <2>1, <2>4, <3>1 DEF Finished, Positions, Busy
  <2>5. CASE Count
    <3>1. CASE Rows(part) = {}
      BY <2>4, <2>5, <3>1 DEF Count, world, Busy
    <3>2. CASE Rows(part) # {}
      BY <2>1, <2>5, <3>2 DEF Count, world, Positions, Busy
    <3> QED
      BY <3>1, <3>2
  <2>6. CASE Stream
    BY <2>1, <2>6 DEF Stream, world, Positions, Busy
  <2>7. CASE Replace
    <3>1. CASE export = {}
      BY <2>4, <2>7, <3>1 DEF Replace, world, Busy
    <3>2. CASE export # {}
      BY <2>1, <2>7, <3>2 DEF Replace, world, Positions, Busy
    <3> QED
      BY <3>1, <3>2
  <2>8. CASE Finish
    <3>1. /\ record' = [record EXCEPT ![part] = "success"] /\ pc = "finish"
          /\ pc' \in {"drop", "next"} /\ UNCHANGED <<unsure, todo, part>>
      BY <2>8 DEF Finish, Finished, world
    <3>2. record'[part] = "success" /\ \A n \in Month : n # part => record'[n] = record[n]
      BY <1>1, <3>1 DEF TypeOK
    <3> QED
      BY <1>1, <2>1, <3>1, <3>2 DEF Positions, Busy
  <2>9. CASE DropPartition
    BY <2>1, <2>9 DEF DropPartition, Positions, Busy
  <2>10. CASE Fail
    BY <2>4, <2>10 DEF Fail, world, Busy
  <2>11. CASE DropReplyLost
    BY <2>4, <2>11 DEF DropReplyLost, Busy
  <2>12. CASE Prune \/ Kill
    BY <2>1, <2>12 DEF Prune, Kill, world, Positions, Busy
  <2> QED
    BY <1>4, <2>2, <2>3, <2>5, <2>6, <2>7, <2>8, <2>9, <2>10, <2>11, <2>12 DEF RunStep
<1> QED
  BY <1>2, <1>3, <1>4, AnyStep

LEMMA OnlyLateKeeps ==
  ASSUME TypeOK, Positions, OnlyLate, [Next]_vars PROVE OnlyLate'
<1>1. /\ late \subseteq late' /\ \A m : Overwritten(m) => Overwritten(m)'
      /\ unsure \subseteq Month /\ \A m \in unsure : m < Today
  BY HistoryGrows DEF TypeOK, Positions
<1>2. CASE WorldStep
  <2>1. UNCHANGED <<unsure, pc, todo, part>>
    BY <1>2, WorldKeeps DEF run
  <2>2. ASSUME NEW m \in unsure PROVE Rows(m)' \subseteq late'
    <3>1. CASE Insert
      <4>1. PICK r \in Row \ arrived :
              /\ table' = table \cup {r}
              /\ late' = IF MonthOf(r) < Today /\ Exported(MonthOf(r))
                         THEN late \cup {r} ELSE late
        BY <3>1 DEF Insert
      <4>2. MonthOf(r) = m => r \in late'
        BY <1>1, <4>1 DEF Exported
      <4> QED
        BY <1>1, <4>1, <4>2 DEF OnlyLate, Rows
    <3>2. CASE Tick \/ Expire
      <4>1. table' \subseteq table
        BY <3>2 DEF Tick, Expire
      <4> QED
        BY <1>1, <4>1 DEF OnlyLate, Rows
    <3> QED
      BY <1>2, <3>1, <3>2 DEF WorldStep
  <2> QED
    BY <1>1, <2>1, <2>2 DEF OnlyLate
<1>3. CASE UNCHANGED vars
  BY <1>3 DEF vars, OnlyLate, Rows, Overwritten
<1>4. CASE RunStep
  <2>1. late' = late /\ table' \subseteq table
    BY <1>4, RunKeeps DEF RunStep, world, Start, Begin, Count, Stream, Replace, Finish,
       DropPartition, Fail, DropReplyLost, Prune, Kill
  <2>2. CASE DropReplyLost
    <3>1. /\ pc = "drop" /\ pc' = "next" /\ unsure' = unsure \cup {part}
          /\ part \notin todo /\ todo' = todo
          /\ table' = table \ {r \in table : MonthOf(r) = part}
      BY <2>2 DEF DropReplyLost, Finished, Rows, Positions, Busy
    <3>2. ASSUME NEW m \in unsure
          PROVE  Rows(m)' \subseteq late' /\ (m \in todo' => Overwritten(m)')
      BY <1>1, <2>1, <3>1 DEF OnlyLate, Rows
    <3>3. ASSUME NEW r \in table', MonthOf(r) = part PROVE FALSE
      BY <3>1, <3>3
    <3> QED
      BY <3>1, <3>2, <3>3 DEF OnlyLate, Rows, Busy
  <2>3. CASE Start
    <3>1. \A m \in unsure \cap ClosedPartitions : Overwritten(m)
      BY DEF ClosedPartitions, OnlyLate, Overwritten, Rows
    <3> QED
      BY <1>1, <2>1, <2>3, <3>1 DEF Start, world, OnlyLate, Rows, Busy
  <2>4. CASE Begin
    BY <1>1, <2>4 DEF Begin, world, OnlyLate, Rows, Busy
  <2>5. CASE Count \/ Stream \/ Replace \/ Finish \/ DropPartition \/ Fail \/ Prune \/ Kill
    <3>1. /\ unsure' = unsure /\ todo' \subseteq todo /\ part' = part
          /\ pc' \in Busy => pc \in Busy
      BY <2>5 DEF Count, Stream, Replace, Finish, DropPartition, Fail, Prune, Kill, Finished,
         world, Busy
    <3> QED
      BY <1>1, <2>1, <3>1 DEF OnlyLate, Rows
  <2> QED
    BY <1>4, <2>2, <2>3, <2>4, <2>5 DEF RunStep
<1> QED
  BY <1>2, <1>3, <1>4, AnyStep

LEMMA StillThereKeeps ==
  ASSUME TypeOK, Positions, StillThere, [Next]_vars PROVE StillThere'
<1>1. ASSUME NEW m \in Month, Young(m)' PROVE Young(m)
  BY <1>1, YoungBefore
<1>2. CASE WorldStep
  <2>1. UNCHANGED <<unsure, record, pc, part>>
    BY <1>2, WorldKeeps DEF run
  <2>2. CASE Tick \/ Insert
    <3>1. \E new : table' = table \cup new /\ arrived' = arrived \cup new
      <4>1. Tick => table' = table \cup {} /\ arrived' = arrived \cup {}
        BY DEF Tick
      <4>2. Insert => \E r : table' = table \cup {r} /\ arrived' = arrived \cup {r}
        BY DEF Insert
      <4> QED
        BY <2>2, <4>1, <4>2
    <3> QED
      BY <1>1, <2>1, <3>1 DEF StillThere, Of
  <2>3. CASE Expire
    <3>1. arrived' = arrived /\ \A r \in table : r \notin table' => Expired(r)
      BY <2>3 DEF Expire
    <3>2. table \subseteq arrived
      BY DEF TypeOK
    <3>3. ASSUME NEW m \in Month, Young(m), Of(m) \subseteq table PROVE Of(m)' \subseteq table'
      <4>1. \A r \in table : MonthOf(r) = m => ~Expired(r)
        BY <3>2, <3>3, OldRowsExpire
      <4> QED
        BY <3>1, <3>3, <4>1 DEF Of
    <3> QED
      BY <1>1, <2>1, <3>3 DEF StillThere
  <2> QED
    BY <1>2, <2>2, <2>3 DEF WorldStep
<1>3. CASE UNCHANGED vars
  BY <1>3 DEF vars, StillThere, Of, Young, Today
<1>4. CASE RunStep
  <2>1. \A m : Young(m)' = Young(m) /\ Of(m)' = Of(m)
    BY <1>4, RunKeeps
  <2>2. part \in Month /\ record \in [Month -> {"none", "running", "skipped", "failed", "success"}]
    BY DEF TypeOK
  <2>3. ASSUME NEW status, Finished(status), pc \in Busy,
               UNCHANGED <<table, unsure, part>>
        PROVE  StillThere'
    <3>1. record[part] # "success" \/ pc = "drop"
      BY <2>3 DEF Positions, Busy
    <3>2. \A m \in Month : m # part => record'[m] = record[m]
      BY <2>2, <2>3 DEF Finished
    <3> QED
      BY <2>1, <2>3, <3>1, <3>2 DEF StillThere, Finished
  <2>4. CASE Start \/ Prune \/ Kill \/ Stream
    <3>1. UNCHANGED <<table, unsure, record, part>> /\ pc' # "drop"
      BY <2>4 DEF Start, Prune, Kill, Stream, world
    <3> QED
      BY <2>1, <3>1 DEF StillThere
  <2>5. CASE Begin
    <3>1. PICK m \in todo : record' = [record EXCEPT ![m] = "running"]
      BY <2>5 DEF Begin
    <3>2. /\ record[m] # "success" /\ m \in Month
          /\ \A n \in Month : n # m => record'[n] = record[n]
      BY <2>2, <3>1 DEF Positions, TypeOK
    <3>3. UNCHANGED <<table, unsure>> /\ pc' = "count"
      BY <2>5 DEF Begin, world
    <3> QED
      BY <2>1, <3>2, <3>3 DEF StillThere
  <2>6. CASE Count
    <3>1. CASE Rows(part) = {}
      BY <2>3, <2>6, <3>1 DEF Count, world, Busy
    <3>2. CASE Rows(part) # {}
      BY <2>1, <2>6, <3>2 DEF Count, world, StillThere
    <3> QED
      BY <3>1, <3>2
  <2>7. CASE Replace
    <3>1. CASE export = {}
      BY <2>3, <2>7, <3>1 DEF Replace, world, Busy
    <3>2. CASE export # {}
      BY <2>1, <2>7, <3>2 DEF Replace, world, StillThere
    <3> QED
      BY <3>1, <3>2
  <2>8. CASE Finish
    <3>1. /\ record' = [record EXCEPT ![part] = "success"] /\ pc = "finish"
          /\ UNCHANGED <<table, unsure, part>>
      BY <2>8 DEF Finish, Finished, world
    <3>2. record[part] # "success" /\ \A n \in Month : n # part => record'[n] = record[n]
      BY <2>2, <3>1 DEF Positions
    <3> QED
      BY <2>1, <3>1, <3>2 DEF StillThere
  <2>9. CASE DropPartition
    <3>1. /\ table' = table \ {r \in table : MonthOf(r) = part} /\ record[part] = "success"
          /\ pc = "drop" /\ pc' = "next" /\ UNCHANGED <<unsure, record, part>>
      BY <2>9 DEF DropPartition, Rows, Positions
    <3>2. ASSUME NEW m \in Month, m # part, Of(m) \subseteq table PROVE Of(m) \subseteq table'
      BY <3>1, <3>2 DEF Of
    <3> QED
      BY <2>1, <3>1, <3>2 DEF StillThere
  <2>10. CASE Fail
    BY <2>3, <2>10 DEF Fail, world, Busy
  <2>11. CASE DropReplyLost
    <3>1. /\ table' = table \ {r \in table : MonthOf(r) = part} /\ unsure' = unsure \cup {part}
          /\ pc = "drop" /\ pc' = "next" /\ part' = part
          /\ record' = [record EXCEPT ![part] = "failed"]
      BY <2>11 DEF DropReplyLost, Rows, Finished
    <3>2. ASSUME NEW m \in Month, m # part, Of(m) \subseteq table PROVE Of(m) \subseteq table'
      BY <3>1, <3>2 DEF Of
    <3>3. \A n \in Month : n # part => record'[n] = record[n]
      BY <2>2, <3>1
    <3> QED
      BY <2>1, <3>1, <3>2, <3>3 DEF StillThere
  <2> QED
    BY <1>4, <2>4, <2>5, <2>6, <2>7, <2>8, <2>9, <2>10, <2>11 DEF RunStep
<1> QED
  BY <1>2, <1>3, <1>4, AnyStep

(* A row that arrives after its month was exported is late. *)
LEMMA LateArrivals ==
  ASSUME Positions, WorldStep, NEW m, m < Today, Exported(m)
  PROVE  Of(m)' \subseteq Of(m) \cup late'
<1>1. CASE Insert
  <2>1. PICK r \in Row \ arrived :
          /\ arrived' = arrived \cup {r}
          /\ late' = IF MonthOf(r) < Today /\ Exported(MonthOf(r)) THEN late \cup {r} ELSE late
    BY <1>1 DEF Insert
  <2>2. MonthOf(r) = m => r \in late'
    BY <2>1
  <2> QED
    BY <2>1, <2>2 DEF Of
<1>2. CASE Tick \/ Expire
  BY <1>2 DEF Tick, Expire, Of
<1> QED
  BY <1>1, <1>2 DEF WorldStep

LEMMA FiledKeeps ==
  ASSUME TypeOK, Positions, OnlyLate, Filed, Exporting, [Next]_vars PROVE Filed'
<1>1. /\ late \subseteq late' /\ \A m : Overwritten(m) => Overwritten(m)'
      /\ \A m \in Month : Young(m)' => Young(m)
  BY HistoryGrows, YoungBefore
<1>2. CASE WorldStep
  <2>1. UNCHANGED <<unsure, file, record, pc, part>>
    BY <1>2, WorldKeeps DEF run
  <2>2. ASSUME NEW m \in Month,
               \/ record[m] = "success" \/ m \in unsure
               \/ m = part /\ pc \in {"finish", "drop"}
        PROVE  Of(m)' \subseteq Of(m) \cup late'
    BY <1>2, <2>2, LateArrivals DEF Exported, Positions, Busy
  <2> QED
    BY <1>1, <2>1, <2>2 DEF Filed
<1>3. CASE UNCHANGED vars
  BY <1>3 DEF vars, Filed, Of, Young, Today, Overwritten
<1>4. CASE RunStep
  <2>1. late' = late /\ \A m : Young(m)' = Young(m) /\ Of(m)' = Of(m)
    BY <1>4, RunKeeps
  <2>2. /\ part \in Month
        /\ record \in [Month -> {"none", "running", "skipped", "failed", "success"}]
        /\ file \in [Month -> SUBSET arrived]
    BY DEF TypeOK
  <2>3. ASSUME NEW status, Finished(status), status # "success", UNCHANGED <<file, part>>,
               \/ unsure' = unsure
               \/ pc = "drop" /\ unsure' = unsure \cup {part}
        PROVE  Filed'
    <3>1. record'[part] = status /\ \A m \in Month : m # part => record'[m] = record[m]
      BY <2>2, <2>3 DEF Finished
    <3> QED
      BY <1>1, <2>1, <2>3, <3>1 DEF Filed, Finished
  <2>4. CASE Start \/ Kill \/ Stream \/ DropPartition
    <3>1. UNCHANGED <<unsure, file, record, part>> /\ pc' \notin {"finish", "drop"}
      BY <2>4 DEF Start, Kill, Stream, DropPartition, world
    <3> QED
      BY <1>1, <2>1, <3>1 DEF Filed
  <2>5. CASE Begin
    <3>1. PICK m \in todo : record' = [record EXCEPT ![m] = "running"]
      BY <2>5 DEF Begin
    <3>2. record'[m] = "running" /\ \A n \in Month : n # m => record'[n] = record[n]
      BY <2>2, <3>1 DEF TypeOK
    <3>3. UNCHANGED <<unsure, file>> /\ pc' = "count"
      BY <2>5 DEF Begin, world
    <3> QED
      BY <1>1, <2>1, <3>2, <3>3 DEF Filed
  <2>6. CASE Count
    <3>1. CASE Rows(part) = {}
      BY <2>3, <2>6, <3>1 DEF Count, world
    <3>2. CASE Rows(part) # {}
      BY <1>1, <2>1, <2>6, <3>2 DEF Count, world, Filed
    <3> QED
      BY <3>1, <3>2
  <2>7. CASE Replace
    <3>1. /\ file' = [file EXCEPT ![part] = export] /\ pc = "replace"
          /\ UNCHANGED <<unsure, part>>
      BY <2>7 DEF Replace, world
    <3>2. file'[part] = export /\ \A m \in Month : m # part => file'[m] = file[m]
      BY <2>2, <3>1
    <3>3. record[part] = "running" /\ (part \in unsure => Overwritten(part))
      BY <3>1 DEF Positions, OnlyLate, Busy
    <3>4. CASE export = {}
      <4>1. /\ record' = [record EXCEPT ![part] = "failed"] /\ pc' = "next"
        BY <2>7, <3>4 DEF Replace, Finished
      <4>2. record'[part] = "failed" /\ \A m \in Month : m # part => record'[m] = record[m]
        BY <2>2, <4>1
      <4> QED
        BY <1>1, <2>1, <3>1, <3>2, <3>3, <4>1, <4>2 DEF Filed
    <3>5. CASE export # {}
      <4>1. record' = record /\ pc' = "finish"
        BY <2>7, <3>5 DEF Replace
      <4>2. Young(part) => Overwritten(part) \/ Of(part) \subseteq export \cup late
        BY <3>1 DEF Exporting
      <4> QED
        BY <1>1, <2>1, <3>1, <3>2, <4>1, <4>2 DEF Filed
    <3> QED
      BY <3>4, <3>5
  <2>8. CASE Finish
    <3>1. /\ record' = [record EXCEPT ![part] = "success"] /\ pc = "finish"
          /\ UNCHANGED <<unsure, file, part>>
      BY <2>8 DEF Finish, Finished, world
    <3>2. \A m \in Month : m # part => record'[m] = record[m]
      BY <2>2, <3>1
    <3> QED
      BY <1>1, <2>1, <3>1, <3>2 DEF Filed
  <2>9. CASE Fail \/ DropReplyLost
    BY <2>3, <2>9 DEF Fail, DropReplyLost, world
  <2>10. CASE Prune
    <3>1. UNCHANGED <<unsure, record, part>> /\ pc' = "idle"
      BY <2>10 DEF Prune, world
    <3>2. ASSUME NEW m \in Month, Young(m) PROVE file'[m] = file[m]
      BY <2>10, <3>2, CutoffOrder DEF Prune
    <3> QED
      BY <1>1, <2>1, <3>1, <3>2 DEF Filed
  <2> QED
    BY <1>4, <2>4, <2>5, <2>6, <2>7, <2>8, <2>9, <2>10 DEF RunStep
<1> QED
  BY <1>2, <1>3, <1>4, AnyStep

LEMMA ExportingKeeps == ASSUME AInv, [Next]_vars PROVE Exporting'
<1>1. /\ late \subseteq late' /\ \A m : Overwritten(m) => Overwritten(m)'
      /\ part \in Month /\ \A m \in Month : Young(m)' => Young(m)
  BY HistoryGrows, YoungBefore DEF AInv, TypeOK
<1>2. CASE WorldStep
  <2>1. UNCHANGED <<pc, part, export>>
    BY <1>2, WorldKeeps DEF run
  <2>2. ASSUME NEW m \in Month, m = part, pc = "replace", Young(m)'
        PROVE  Overwritten(m)' \/ Of(m)' \subseteq export' \cup late'
    <3>1. Of(m)' \subseteq Of(m) \cup late'
      BY <1>2, <2>2, LateArrivals DEF AInv, Exported, Positions, Busy
    <3>2. Overwritten(m) \/ Of(m) \subseteq export \cup late
      BY <1>1, <2>2 DEF AInv, Exporting
    <3> QED
      BY <1>1, <2>1, <3>1, <3>2
  <2> QED
    BY <1>1, <2>1, <2>2 DEF Exporting, Young, Overwritten, Of
<1>3. CASE UNCHANGED vars
  BY <1>3 DEF vars, AInv, Exporting, Of, Young, Today, Overwritten
<1>4. CASE Stream
  <2>1. late' = late /\ Young(part)' = Young(part) /\ Of(part)' = Of(part)
    BY <1>4, RunKeeps DEF RunStep, Stream
  <2>2. part' = part /\ export' = Rows(part) /\ record[part] # "success" /\ pc = "stream"
    BY <1>4 DEF Stream, AInv, Positions
  <2>3. part \in unsure => Overwritten(part)
    BY <2>2 DEF AInv, OnlyLate, Busy
  <2>4. part \notin unsure /\ Young(part) => Of(part) \subseteq Rows(part)
    BY <1>1, <2>2 DEF AInv, StillThere, Of, Rows
  <2> QED
    BY <1>1, <2>1, <2>2, <2>3, <2>4 DEF Exporting
<1>5. CASE RunStep /\ ~Stream
  <2>1. pc' # "replace"
    BY <1>5 DEF RunStep, Start, Begin, Count, Replace, Finish, DropPartition, Fail,
       DropReplyLost, Prune, Kill, Finished
  <2> QED
    BY <2>1 DEF Exporting
<1> QED
  BY <1>2, <1>3, <1>4, <1>5, AnyStep

LEMMA RowsPastKeep == ASSUME TypeOK, RowsPast, [Next]_vars PROVE RowsPast'
<1>1. clock \in Nat /\ \A r \in arrived : r \in Nat
  BY Ranges
<1>2. CASE Tick
  BY <1>1, <1>2 DEF Tick, RowsPast
<1>3. CASE Insert
  BY <1>3 DEF Insert, RowsPast
<1>4. CASE Expire \/ RunStep \/ UNCHANGED vars
  <2>1. arrived' = arrived /\ clock' = clock
    BY <1>4, RunKeeps DEF Expire, vars
  <2> QED
    BY <2>1 DEF RowsPast
<1> QED
  BY <1>2, <1>3, <1>4, AnyStep DEF WorldStep

-----------------------------------------------------------------------------
(* The theorems. *)

(* AInv is an invariant, of the archive run, its kills and the late        *)
(* inserts.                                                                *)
THEOREM Invariant == Spec => []AInv
<1>1. Init => AInv
  <2> SUFFICES ASSUME Init PROVE AInv
    OBVIOUS
  <2>1. Today = FirstMonth
    BY ArchiveAssumption, MonthOfMultiple DEF Init, Today
  <2>2. clock \in Nat /\ FirstMonth \in Month
    BY ArchiveAssumption DEF Init, Month
  <2>3. TypeOK
    BY <2>1, <2>2 DEF Init, TypeOK
  <2>4. Positions /\ OnlyLate /\ Filed /\ Exporting
    BY DEF Init, Positions, OnlyLate, Filed, Exporting, Busy
  <2>5. StillThere /\ RowsPast
    BY DEF Init, StillThere, Of, RowsPast
  <2> QED
    BY <2>3, <2>4, <2>5 DEF AInv
<1>2. AInv /\ [Next]_vars => AInv'
  BY TypeStep, RowsPastKeep, PositionsKeep, OnlyLateKeeps, StillThereKeeps, FiledKeeps, ExportingKeeps
     DEF AInv
<1> QED
  BY <1>1, <1>2, PTL DEF Spec

(* The variables keep their ranges, and the partition is dropped only if   *)
(* that is configured.                                                     *)
THEOREM TypeCorrect == Spec => []TypeOK
<1>1. AInv => TypeOK
  BY DEF AInv
<1> QED
  BY <1>1, Invariant, PTL

(* A month recorded as archived has a file with every row of it that was   *)
(* there when it was exported, until the file is pruned.                   *)
THEOREM ArchivesComplete == Spec => []ArchivedIsComplete
<1>1. AInv => ArchivedIsComplete
  BY DEF AInv, Filed, ArchivedIsComplete, Of, Young
<1> QED
  BY <1>1, Invariant, PTL

(* A row leaves the table only into a file or past the retention, late     *)
(* rows and overwritten months excepted.                                   *)
THEOREM DroppedRowsAreFiled == Spec => []DroppedOnlyIfFiled
<1>1. AInv => DroppedOnlyIfFiled
  <2> SUFFICES ASSUME AInv, NEW r \in arrived
               PROVE  \/ r \in table \cup Files \/ r \in late \/ Overwritten(MonthOf(r))
                      \/ MonthOf(r) + RetentionMonths <= Today
    BY DEF DroppedOnlyIfFiled
  <2> DEFINE m == MonthOf(r)
  <2>1. m \in Month
    BY MonthsOfRows DEF AInv, TypeOK, RowsPast
  <2>2. ~Young(m) => m + RetentionMonths <= Today
    BY <2>1, Ranges DEF AInv, Young
  <2>3. file[m] \subseteq Files /\ r \in Of(m)
    BY <2>1 DEF Files, Of
  <2> HIDE DEF m
  <2>4. CASE Young(m) /\ (record[m] = "success" \/ m \in unsure)
    <3>1. Overwritten(m) \/ r \in file[m] \cup late
      BY <2>1, <2>3, <2>4 DEF AInv, Filed
    <3> QED
      BY <2>3, <3>1 DEF m
  <2>5. CASE Young(m) /\ record[m] # "success" /\ m \notin unsure
    BY <2>1, <2>3, <2>5 DEF AInv, StillThere
  <2> QED
    BY <2>2, <2>4, <2>5 DEF m
<1> QED
  BY <1>1, Invariant, PTL
==============================================================================
