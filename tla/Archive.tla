------------------------------ MODULE Archive ------------------------------
(***************************************************************************)
(* The daily maintenance run's second half: it exports closed months from  *)
(* ClickHouse to files, records each run in SQLite, optionally drops the   *)
(* exported partition, and prunes old files                                *)
(* (src/backend/app/services/maintenance.py:35-116,165-193).               *)
(*                                                                         *)
(* A row is its timestamp.  Time is counted in units, UnitsPerMonth to the *)
(* month, and months are counted through: year * 12 + month - 1.  Workers  *)
(* insert rows meanwhile, also rows of a past month that waited in the     *)
(* queue, and ClickHouse deletes rows past the table's TTL.                *)
(***************************************************************************)
EXTENDS Integers, FiniteSets

CONSTANTS FirstMonth, LastMonth,  \* the months that pass
          UnitsPerMonth,
          Row,                    \* timestamps of the rows that are received
          RetentionMonths,        \* retention.retention_months, also the TTL's
          DropModes,              \* the values of retention.drop_after_archive
          Faults                  \* the failures that may happen

ASSUME ArchiveAssumption ==
         /\ FirstMonth \in Nat \ {0} /\ LastMonth \in Nat
         /\ FirstMonth <= LastMonth
         /\ UnitsPerMonth \in Nat \ {0}
         /\ Row \subseteq Nat
         /\ \A r \in Row : r >= UnitsPerMonth * FirstMonth
         /\ RetentionMonths \in 1..FirstMonth
         /\ DropModes \subseteq BOOLEAN
         /\ Faults \subseteq {"step",        \* a query or a file operation raises
                              "drop_reply",  \* DROP PARTITION is executed and raises
                              "kill"}        \* the run is killed or times out

Month == FirstMonth..LastMonth
MonthOf(t) == t \div UnitsPerMonth

VARIABLES clock,    \* the time, in units
          arrived,  \* rows that have been inserted
          table,    \* rows in ClickHouse
          file,     \* rows in a month's archive file; {} without a file
          record,   \* status of a month's latest archive run in SQLite
          pc,       \* step of the maintenance run
          drop,     \* its cfg.retention.drop_after_archive
          todo,     \* months it has still to archive
          part,     \* the month it is archiving
          export,   \* rows it has written to the temporary file
          late,     \* history: rows inserted after the export of their month
          unsure    \* history: months whose drop was executed and raised

world == <<clock, arrived, table, late, unsure>>
run == <<pc, drop, todo, part, export>>
vars == <<clock, arrived, table, file, record, pc, drop, todo, part, export, late, unsure>>

Rows(m) == {r \in table : MonthOf(r) = m}
Today == MonthOf(clock)

Init == /\ clock = UnitsPerMonth * FirstMonth
        /\ arrived = {} /\ table = {} /\ late = {} /\ unsure = {}
        /\ file = [m \in Month |-> {}]
        /\ record = [m \in Month |-> "none"]
        /\ pc = "idle" /\ drop = FALSE
        /\ todo = {} /\ part = FirstMonth /\ export = {}

-----------------------------------------------------------------------------
(* Time passes, workers insert, the TTL deletes.                           *)
Tick == /\ MonthOf(clock + 1) <= LastMonth
        /\ clock' = clock + 1
        /\ UNCHANGED <<arrived, table, late, unsure, file, record, run>>

(* The rows of the month were exported, and are not read again unless the  *)
(* run fails; nor are they after a drop that only seemed to fail.          *)
Exported(m) == \/ record[m] = "success"
               \/ m \in unsure
               \/ part = m /\ pc \in {"replace", "finish", "drop"}

Insert == \E r \in Row \ arrived :
            /\ r <= clock
            /\ arrived' = arrived \cup {r}
            /\ table' = table \cup {r}
            /\ late' = IF MonthOf(r) < Today /\ Exported(MonthOf(r))
                       THEN late \cup {r} ELSE late
            /\ UNCHANGED <<clock, unsure, file, record, run>>

(* A row is past the interval of the TTL. *)
Expired(r) == r + UnitsPerMonth * RetentionMonths <= clock

Expire == \E gone \in SUBSET {r \in table : Expired(r)} :
            /\ gone # {}
            /\ table' = table \ gone
            /\ UNCHANGED <<clock, arrived, late, unsure, file, record, run>>

-----------------------------------------------------------------------------
(* closed_partitions: the six digits of year and month are compared as     *)
(* text, which for four-digit years is their order as numbers.             *)
Stem(m) == (m \div 12) * 100 + (m % 12) + 1

(* Mutation: a month whose run failed or was killed is not tried again. *)
ClosedAndNew == {m \in Month : /\ Rows(m) # {}
                               /\ Stem(m) < Stem(Today)
                               /\ record[m] = "none"}

ClosedPartitions == {m \in Month : /\ Rows(m) # {}
                                   /\ Stem(m) < Stem(Today)
                                   /\ record[m] # "success"}

(* run() up to the loop.  If ClickHouse does not answer it ends here, and  *)
(* nothing has changed.                                                    *)
Start == /\ pc = "idle"
         /\ drop' \in DropModes
         /\ todo' = ClosedPartitions
         /\ pc' = "next"
         /\ UNCHANGED <<world, file, record, part, export>>

(* start_archive for the latest month left; partitions() sorts descending. *)
Begin == /\ pc = "next"
         /\ \E m \in todo : /\ \A n \in todo : n <= m
                            /\ part' = m
                            /\ todo' = todo \ {m}
                            /\ record' = [record EXCEPT ![m] = "running"]
         /\ pc' = "count"
         /\ UNCHANGED <<world, file, drop, export>>

(* The next month, with the result of this one recorded. *)
Finished(status) == /\ record' = [record EXCEPT ![part] = status]
                    /\ export' = {}
                    /\ pc' = "next"

Count == /\ pc = "count"
         /\ IF Rows(part) = {}
            THEN Finished("skipped")
            ELSE pc' = "stream" /\ UNCHANGED <<record, export>>
         /\ UNCHANGED <<world, file, drop, todo, part>>

(* SELECT ... FORMAT Native reads the rows there are when it starts. *)
Stream == /\ pc = "stream"
          /\ export' = Rows(part)
          /\ pc' = "replace"
          /\ UNCHANGED <<world, file, record, drop, todo, part>>

(* Mutation: an archive that exists is kept. *)
ReplaceOnce == /\ pc = "replace"
               /\ file' = [file EXCEPT ![part] = IF @ = {} THEN export ELSE @]
               /\ IF export = {}
                  THEN Finished("failed")
                  ELSE pc' = "finish" /\ UNCHANGED <<record, export>>
               /\ UNCHANGED <<world, drop, todo, part>>

(* tmp.replace(target); a file without rows is implausibly small. *)
Replace == /\ pc = "replace"
           /\ file' = [file EXCEPT ![part] = export]
           /\ IF export = {}
              THEN Finished("failed")
              ELSE pc' = "finish" /\ UNCHANGED <<record, export>>
           /\ UNCHANGED <<world, drop, todo, part>>

Finish == /\ pc = "finish"
          /\ IF drop
             THEN /\ record' = [record EXCEPT ![part] = "success"]
                  /\ pc' = "drop"
                  /\ UNCHANGED export
             ELSE Finished("success")
          /\ UNCHANGED <<world, file, drop, todo, part>>

DropPartition == /\ pc = "drop"
                 /\ table' = table \ Rows(part)
                 /\ export' = {} /\ pc' = "next"
                 /\ UNCHANGED <<clock, arrived, late, unsure, file, record, drop, todo, part>>

(* Any of these raises: the run is recorded as failed, also after it was   *)
(* recorded as a success, and the loop goes on.  A target that was         *)
(* replaced stays.                                                         *)
Fail == /\ "step" \in Faults
        /\ pc \in {"count", "stream", "replace", "finish", "drop"}
        /\ Finished("failed")
        /\ UNCHANGED <<world, file, drop, todo, part>>

(* Mutation: the handler removes the archive as well. *)
DropReplyLostTidies == /\ "drop_reply" \in Faults
                       /\ pc = "drop"
                       /\ table' = table \ Rows(part)
                       /\ unsure' = unsure \cup {part}
                       /\ file' = [file EXCEPT ![part] = {}]
                       /\ Finished("failed")
                       /\ UNCHANGED <<clock, arrived, late, drop, todo, part>>

DropReplyLost == /\ "drop_reply" \in Faults
                 /\ pc = "drop"
                 /\ table' = table \ Rows(part)
                 /\ unsure' = unsure \cup {part}
                 /\ Finished("failed")
                 /\ UNCHANGED <<clock, arrived, late, file, drop, todo, part>>

-----------------------------------------------------------------------------
(* prune_archives.  months counts from year * 12 + month, not month - 1.   *)
Cutoff == LET months == Today + 1 - RetentionMonths
          IN (months \div 12) * 100 + (months % 12) + 1

PastCutoff == {m \in Month : Stem(m) < Cutoff}

(* The end of the run; an exception leaves some of the files.              *)
Prune == /\ pc = "next" /\ todo = {}
         /\ \E gone \in SUBSET PastCutoff :
              /\ gone = PastCutoff \/ "step" \in Faults
              /\ file' = [m \in Month |-> IF m \in gone THEN {} ELSE file[m]]
         /\ pc' = "idle" /\ drop' = FALSE
         /\ UNCHANGED <<world, record, todo, part, export>>

(* SIGKILL, TimeoutStartSec, or an exception of SQLite outside the try. *)
Kill == /\ "kill" \in Faults
        /\ pc # "idle"
        /\ pc' = "idle" /\ drop' = FALSE /\ todo' = {} /\ export' = {}
        /\ UNCHANGED <<world, file, record, part>>

Next == \/ Tick \/ Insert \/ Expire
        \/ Start \/ Begin \/ Count \/ Stream \/ Replace \/ Finish
        \/ DropPartition \/ Fail \/ DropReplyLost \/ Prune \/ Kill

Spec == Init /\ [][Next]_vars

(* The timer starts runs for ever, and no step fails each time it is tried. *)
FairSpec == /\ Spec
            /\ WF_vars(Start) /\ SF_vars(Begin) /\ WF_vars(Prune)
            /\ SF_vars(Count) /\ SF_vars(Stream) /\ SF_vars(Replace)
            /\ SF_vars(Finish) /\ SF_vars(DropPartition)

-----------------------------------------------------------------------------
(* The variables' ranges; the partition is dropped only if that is          *)
(* configured, and the export is of the month at hand.                     *)
TypeOK == /\ clock \in Nat /\ Today \in Month
          /\ arrived \subseteq Row /\ table \subseteq arrived
          /\ late \subseteq arrived /\ unsure \subseteq Month
          /\ file \in [Month -> SUBSET arrived]
          /\ record \in [Month -> {"none", "running", "skipped", "failed", "success"}]
          /\ pc \in {"idle", "next", "count", "stream", "replace", "finish", "drop"}
          /\ drop \in DropModes \cup {FALSE} /\ (pc = "drop" => drop)
          /\ todo \subseteq Month /\ part \in Month
          /\ export \subseteq {r \in arrived : MonthOf(r) = part}
          /\ pc \in {"idle", "next", "count", "stream"} => export = {}

Files == UNION {file[m] : m \in Month}

(* A drop that only seemed to fail and a row that came late after it: the  *)
(* month is exported again, without the rows that were dropped, over the   *)
(* file that has them.                                                     *)
Overwritten(m) == m \in unsure /\ \E r \in late : MonthOf(r) = m

(* A row leaves the table only into a file or past the retention: a run    *)
(* that fails, is killed or starts over at any step never drops a          *)
(* partition whose file lacks rows.  Excepted are rows that came late,     *)
(* months that were overwritten, and the month prune_archives takes for    *)
(* past (KeptForRetention).                                                *)
DroppedOnlyIfFiled ==
  \A r \in arrived : \/ r \in table \cup Files
                     \/ r \in late
                     \/ Overwritten(MonthOf(r))
                     \/ MonthOf(r) + RetentionMonths <= Today

(* A month recorded as archived has a file with every row of it that was   *)
(* there when it was exported, until the file is pruned: a run repeated    *)
(* after a failure has replaced what the earlier one wrote.                *)
ArchivedIsComplete ==
  \A m \in Month : record[m] = "success" /\ m + RetentionMonths > Today =>
    \/ Overwritten(m)
    \/ {r \in arrived : MonthOf(r) = m} \subseteq file[m] \cup late

(* Failures "are retried on the next run" (src/docs/database.md:99): a     *)
(* closed month that has rows is archived, or its rows expire.             *)
EventuallyArchived ==
  \A m \in Month : Rows(m) # {} /\ m < Today ~> record[m] = "success" \/ Rows(m) = {}

(* "Delete exported files past the retention window" (maintenance.py:102): *)
(* a row that is younger than the retention is in the table or in a file.  *)
KeptForRetention ==
  \A r \in arrived \ late : ~Expired(r) => r \in table \cup Files
=============================================================================
