------------------------------ MODULE Settings ------------------------------
(***************************************************************************)
(* The settings that live in two places: the logo, a file and its name in  *)
(* SQLite, and the retention, a TTL in ClickHouse and two rows in SQLite   *)
(* (src/backend/app/api/settings_api.py:85-123,150-165,                    *)
(* src/backend/app/cli.py:128-139).                                        *)
(*                                                                         *)
(* The API runs in several processes, however many, and the command line   *)
(* beside them: every call on SQLite, ClickHouse or the directory of logos *)
(* is a step.                                                              *)
(* A request, made once, is an upload, a removal, or a change of the       *)
(* retention, and the file an upload makes, whose name is random, is       *)
(* called after it.                                                        *)
(***************************************************************************)
EXTENDS Naturals, Requests

CONSTANTS Hot, Months,   \* the values of hot_days and retention_months
          DefaultHot, DefaultMonths,
          NoLogo,
          Faults         \* what may go wrong

ASSUME SettingsAssumption ==
         /\ Hot \subseteq Nat \ {0} /\ DefaultHot \in Hot
         /\ Months \subseteq Nat \ {0} /\ DefaultMonths \in Months
         /\ NoLogo \notin Request
         /\ Faults \subseteq {"request",      \* SQLite raises, or the process ends
                              "unlink",       \* an old file cannot be removed
                              "alter",        \* ClickHouse refuses the change
                              "alter_reply"}  \* it is made, and the reply is lost

VARIABLES logo, hot, months,  \* settings in SQLite
          files,              \* the logos in the directory
          ttl,                \* the table's TTL, in days and months
          pc,                 \* where a request is
          next,               \* the logo it will name
          previous,           \* the one it has found
          asked,              \* the retention it asks for
          smooth,  \* history: no logo request failed or met another
          alone,   \* history: the request that altered the TTL with no other
                   \* under way, if none has altered it since
          agreed   \* history: such a request was the last, and came to its end

stores == <<logo, hot, months, files, ttl>>
locals == <<next, previous, asked>>
history == <<smooth, alone, agreed>>
vars == <<stores, pc, locals, history>>

LogoStep == {"process", "read", "set", "unlink"}
RetentionStep == {"readhot", "readmonths", "alter", "sethot", "setmonths"}

Init == /\ logo = NoLogo /\ files = {}
        /\ hot = DefaultHot /\ months = DefaultMonths
        /\ ttl = <<DefaultHot, DefaultMonths>>
        /\ pc = [r \in Request |-> "new"]
        /\ next = [r \in Request |-> NoLogo]
        /\ previous = [r \in Request |-> NoLogo]
        /\ asked = [r \in Request |-> <<0, 0>>]
        /\ smooth = TRUE /\ alone = NoLogo /\ agreed = TRUE

Goto(r, step) == pc' = [pc EXCEPT ![r] = step]

-----------------------------------------------------------------------------
(* upload_logo and clear_logo.  A request that is refused before it        *)
(* changes anything is not a step.                                         *)
MeetsAnother(r) == \E s \in Request \ {r} : pc[s] \in LogoStep

Upload(r) == /\ pc[r] = "new"
             /\ Goto(r, "process")
             /\ next' = [next EXCEPT ![r] = r]
             /\ smooth' = (smooth /\ ~MeetsAnother(r))
             /\ UNCHANGED <<stores, previous, asked, alone, agreed>>

Clear(r) == /\ pc[r] = "new"
            /\ Goto(r, "read")
            /\ smooth' = (smooth /\ ~MeetsAnother(r))
            /\ UNCHANGED <<stores, locals, alone, agreed>>

(* _process_logo has saved the file. *)
Process(r) == /\ pc[r] = "process"
              /\ files' = files \cup {r}
              /\ Goto(r, "read")
              /\ UNCHANGED <<logo, hot, months, ttl, locals, history>>

(* The image was no image after all, or could be saved in part only. *)
ProcessFails(r) == /\ pc[r] = "process"
                   /\ "request" \in Faults
                   /\ files' \in {files, files \cup {r}}
                   /\ Goto(r, "done")
                   /\ smooth' = (smooth /\ r \notin files')
                   /\ UNCHANGED <<logo, hot, months, ttl, locals, alone, agreed>>

(* Mutation: the name is read after it has been replaced. *)
ReadReplaced(r) == /\ pc[r] = "read"
                   /\ previous' = [previous EXCEPT ![r] = next[r]]
                   /\ Goto(r, "set")
                   /\ UNCHANGED <<stores, next, asked, history>>

ReadPrevious(r) == /\ pc[r] = "read"
                   /\ previous' = [previous EXCEPT ![r] = logo]
                   /\ Goto(r, "set")
                   /\ UNCHANGED <<stores, next, asked, history>>

(* Mutation: a removal leaves the file. *)
SetLogoKeeps(r) == /\ pc[r] = "set"
                   /\ logo' = next[r]
                   /\ Goto(r, IF previous[r] = NoLogo \/ next[r] = NoLogo
                              THEN "done" ELSE "unlink")
                   /\ UNCHANGED <<hot, months, files, ttl, locals, history>>

SetLogo(r) == /\ pc[r] = "set"
              /\ logo' = next[r]
              /\ Goto(r, IF previous[r] = NoLogo THEN "done" ELSE "unlink")
              /\ UNCHANGED <<hot, months, files, ttl, locals, history>>

(* unlink(missing_ok=True) *)
Unlink(r) == /\ pc[r] = "unlink"
             /\ files' = files \ {previous[r]}
             /\ Goto(r, "done")
             /\ UNCHANGED <<logo, hot, months, ttl, locals, history>>

UnlinkFails(r) == /\ pc[r] = "unlink"
                  /\ "unlink" \in Faults
                  /\ Goto(r, "done")
                  /\ smooth' = FALSE
                  /\ UNCHANGED <<stores, locals, alone, agreed>>

-----------------------------------------------------------------------------
(* set_retention *)
SetRetention(r) == /\ pc[r] = "new"
                   /\ \E h \in Hot, m \in Months : asked' = [asked EXCEPT ![r] = <<h, m>>]
                   /\ Goto(r, "alter")
                   /\ UNCHANGED <<stores, next, previous, history>>

(* cmd_apply_retention: what is not given, or is zero, is read. *)
ApplyRetention(r) ==
  /\ pc[r] = "new"
  /\ \E h \in Hot \cup {0}, m \in Months \cup {0} : asked' = [asked EXCEPT ![r] = <<h, m>>]
  /\ Goto(r, "readhot")
  /\ UNCHANGED <<stores, next, previous, history>>

ReadHot(r) == /\ pc[r] = "readhot"
              /\ asked' = [asked EXCEPT ![r][1] = IF @ = 0 THEN hot ELSE @]
              /\ Goto(r, "readmonths")
              /\ UNCHANGED <<stores, next, previous, history>>

ReadMonths(r) == /\ pc[r] = "readmonths"
                 /\ asked' = [asked EXCEPT ![r][2] = IF @ = 0 THEN months ELSE @]
                 /\ Goto(r, "alter")
                 /\ UNCHANGED <<stores, next, previous, history>>

(* A request that has altered the TTL, and has not come to its end. *)
UnderWay(r) == pc[r] \in {"sethot", "setmonths"}

Altered(r) == /\ ttl' = asked[r]
              /\ alone' = IF \E s \in Request : UnderWay(s) THEN NoLogo ELSE r
              /\ agreed' = FALSE

(* apply_retention: ALTER TABLE ... MODIFY TTL *)
Alter(r) == /\ pc[r] = "alter"
            /\ Altered(r)
            /\ Goto(r, "sethot")
            /\ UNCHANGED <<logo, hot, months, files, locals, smooth>>

(* Mutation: a refusal is logged and the settings are written. *)
AlterRefusedGoesOn(r) == /\ pc[r] = "alter"
                         /\ "alter" \in Faults
                         /\ Goto(r, "sethot")
                         /\ UNCHANGED <<stores, locals, history>>

(* A refusal is answered with 503, "Nothing was modified." *)
AlterRefused(r) == /\ pc[r] = "alter"
                   /\ "alter" \in Faults
                   /\ Goto(r, "done")
                   /\ UNCHANGED <<stores, locals, history>>

AlterReplyLost(r) == /\ pc[r] = "alter"
                     /\ "alter_reply" \in Faults
                     /\ Altered(r)
                     /\ Goto(r, "done")
                     /\ UNCHANGED <<logo, hot, months, files, locals, smooth>>

SetHot(r) == /\ pc[r] = "sethot"
             /\ hot' = asked[r][1]
             /\ Goto(r, "setmonths")
             /\ UNCHANGED <<logo, months, files, ttl, locals, history>>

SetMonths(r) == /\ pc[r] = "setmonths"
                /\ months' = asked[r][2]
                /\ agreed' = (agreed \/ alone = r)
                /\ Goto(r, "done")
                /\ UNCHANGED <<logo, hot, files, ttl, locals, smooth, alone>>

-----------------------------------------------------------------------------
(* A call on SQLite raises, outside any try, or the process ends. *)
Fails(r) == /\ "request" \in Faults
            /\ pc[r] \in LogoStep \cup RetentionStep
            /\ Goto(r, "done")
            /\ smooth' = (smooth /\ pc[r] \notin LogoStep)
            /\ UNCHANGED <<stores, locals, alone, agreed>>

Step(r) == \/ Upload(r) \/ Process(r) \/ ProcessFails(r)
           \/ Clear(r) \/ ReadPrevious(r) \/ SetLogo(r)
           \/ Unlink(r) \/ UnlinkFails(r)
           \/ SetRetention(r) \/ ApplyRetention(r) \/ ReadHot(r) \/ ReadMonths(r)
           \/ Alter(r) \/ AlterRefused(r) \/ AlterReplyLost(r)
           \/ SetHot(r) \/ SetMonths(r)
           \/ Fails(r)

Next == \E r \in Request : Step(r)

Spec == Init /\ [][Next]_vars

-----------------------------------------------------------------------------
(* The variables' ranges; what is asked for is complete before the ALTER,  *)
(* and a request names no logo but its own.                                *)
TypeOK ==
  /\ logo \in Request \cup {NoLogo} /\ files \subseteq Request
  /\ hot \in Hot /\ months \in Months /\ ttl \in Hot \X Months
  /\ pc \in [Request -> {"new", "done"} \cup LogoStep \cup RetentionStep]
  /\ next \in [Request -> Request \cup {NoLogo}]
  /\ \A r \in Request : next[r] \in {r, NoLogo}
  /\ previous \in [Request -> Request \cup {NoLogo}]
  /\ asked \in [Request -> (Hot \cup {0}) \X (Months \cup {0})]
  /\ \A r \in Request : pc[r] \in {"alter", "sethot", "setmonths"} =>
                          asked[r] \in Hot \X Months
  /\ \A r \in Request : pc[r] = "readmonths" => asked[r][1] \in Hot
  /\ smooth \in BOOLEAN /\ agreed \in BOOLEAN
  /\ alone \in Request \cup {NoLogo}

(* The logo the settings name is there, whatever uploads and removals      *)
(* meet, fail or are cut off: each writes its file first, names it, and    *)
(* only then removes what it had found (settings_api.py:103-109,116-122).  *)
LogoExists == logo # NoLogo => logo \in files

(* Uploads and removals one after the other leave no file that is not      *)
(* named.  Two that meet may both find the same logo, and a failing one    *)
(* leaves its file or the old one.                                         *)
OldLogosGo ==
  smooth /\ (\A r \in Request : pc[r] \notin LogoStep) => files \subseteq {logo}

(* Settings and TTL agree once a change has gone through with no other     *)
(* between its ALTER and its last setting, also if a later one is refused  *)
(* or fails before its ALTER ("Nothing was modified", settings_api.py:160).*)
RetentionAgrees == agreed => ttl = <<hot, months>>
=============================================================================
