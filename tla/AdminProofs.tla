---------------------------- MODULE AdminProofs ----------------------------
(***************************************************************************)
(* Proofs about what administrators change: Settings, for every set of     *)
(* requests and every combination of failures (the logo that is named      *)
(* exists, no old one stays, and settings and TTL agree), and AllowList,   *)
(* for every number of requests and receivers (nothing but a change of the *)
(* table makes a good cache stale).                                        *)
(***************************************************************************)
EXTENDS Settings, AllowList, TLAPS

-----------------------------------------------------------------------------
(* The variables keep their ranges, and what is asked of ClickHouse is     *)
(* complete: TypeOK is inductive as it is.                                 *)
THEOREM TypeCorrect == Spec => []TypeOK
<1>1. Init => TypeOK
  BY SettingsAssumption DEF Init, TypeOK
<1>2. TypeOK /\ [Next]_vars => TypeOK'
  <2> SUFFICES ASSUME TypeOK, [Next]_vars PROVE TypeOK'
    OBVIOUS
  <2> USE SettingsAssumption DEF TypeOK, stores, locals, history, Goto, LogoStep, RetentionStep
  <2> SUFFICES ASSUME NEW r \in Request, Step(r) PROVE TypeOK'
    BY DEF Next, vars
  <2>1. CASE Upload(r)
    BY <2>1 DEF Upload
  <2>2. CASE Process(r)
    BY <2>2 DEF Process
  <2>3. CASE ProcessFails(r)
    BY <2>3 DEF ProcessFails
  <2>4. CASE Clear(r)
    BY <2>4 DEF Clear
  <2>5. CASE ReadPrevious(r)
    BY <2>5 DEF ReadPrevious
  <2>6. CASE SetLogo(r)
    BY <2>6 DEF SetLogo
  <2>7. CASE Unlink(r)
    BY <2>7 DEF Unlink
  <2>8. CASE UnlinkFails(r)
    BY <2>8 DEF UnlinkFails
  <2>9. CASE SetRetention(r)
    BY <2>9 DEF SetRetention
  <2>10. CASE ApplyRetention(r)
    BY <2>10 DEF ApplyRetention
  <2>11. CASE ReadHot(r)
    BY <2>11 DEF ReadHot
  <2>12. CASE ReadMonths(r)
    <3>1. asked[r] = <<asked[r][1], asked[r][2]>> /\ asked[r][1] \in Hot
      BY <2>12 DEF ReadMonths
    <3>2. asked'[r] = <<asked[r][1], IF asked[r][2] = 0 THEN months ELSE asked[r][2]>>
      BY <2>12, <3>1 DEF ReadMonths
    <3>3. asked'[r] \in Hot \X Months
      BY <3>1, <3>2
    <3>4. \A s \in Request \ {r} : asked'[s] = asked[s] /\ pc'[s] = pc[s]
      BY <2>12 DEF ReadMonths
    <3> QED
      BY <2>12, <3>3, <3>4 DEF ReadMonths
  <2>13. CASE Alter(r)
    BY <2>13 DEF Alter, Altered
  <2>14. CASE AlterRefused(r)
    BY <2>14 DEF AlterRefused
  <2>15. CASE AlterReplyLost(r)
    BY <2>15 DEF AlterReplyLost, Altered
  <2>16. CASE SetHot(r)
    BY <2>16 DEF SetHot
  <2>17. CASE SetMonths(r)
    BY <2>17 DEF SetMonths
  <2>18. CASE Fails(r)
    BY <2>18 DEF Fails
  <2> QED
    BY <2>1, <2>2, <2>3, <2>4, <2>5, <2>6, <2>7, <2>8, <2>9, <2>10, <2>11, <2>12,
       <2>13, <2>14, <2>15, <2>16, <2>17, <2>18 DEF Step
<1> QED
  BY <1>1, <1>2, PTL DEF Spec

-----------------------------------------------------------------------------
(* Why the logo that is named exists.  A request that is over, or about to *)
(* remove a file, has named its own; only such a request's file is ever    *)
(* found by another.  What a request removes is therefore never the file   *)
(* of one that has still to name it, nor, since it has named its own after *)
(* it has found the old one, the file that is named now.                   *)
Named == {r \in Request : pc[r] \in {"unlink", "done"}}

LogoSafe ==
  /\ logo # NoLogo => logo \in files \cap Named
  /\ \A r \in Request : pc[r] = "new" => next[r] = NoLogo
  /\ \A r \in Request : pc[r] \in {"read", "set"} /\ next[r] # NoLogo => r \in files
  /\ \A r \in Request : pc[r] \in {"set", "unlink"} /\ previous[r] # NoLogo => previous[r] \in Named
  /\ \A r \in Request : pc[r] = "unlink" /\ logo # NoLogo => previous[r] # logo

(* Whatever uploads and removals meet or fail, the logo is there           *)
(* (settings_api.py:85-123).                                               *)
THEOREM LogoIsThere == Spec => []LogoExists
<1>1. Init => LogoSafe
  BY SettingsAssumption DEF Init, LogoSafe
<1>2. TypeOK /\ LogoSafe /\ [Next]_vars => LogoSafe'
  <2> SUFFICES ASSUME TypeOK, LogoSafe, [Next]_vars PROVE LogoSafe'
    OBVIOUS
  <2> USE SettingsAssumption DEF TypeOK, LogoSafe, Named, stores, locals, history, Goto, LogoStep, RetentionStep
  <2> SUFFICES ASSUME NEW r \in Request, Step(r) PROVE LogoSafe'
    BY DEF Next, vars
  <2>1. CASE Upload(r)
    BY <2>1 DEF Upload
  <2>2. CASE Process(r)
    BY <2>2 DEF Process
  <2>3. CASE ProcessFails(r)
    BY <2>3 DEF ProcessFails
  <2>4. CASE Clear(r)
    BY <2>4 DEF Clear
  <2>5. CASE ReadPrevious(r)
    BY <2>5 DEF ReadPrevious
  <2>6. CASE SetLogo(r)
    BY <2>6 DEF SetLogo
  <2>7. CASE Unlink(r)
    BY <2>7 DEF Unlink
  <2>8. CASE UnlinkFails(r)
    BY <2>8 DEF UnlinkFails
  <2>9. CASE SetRetention(r)
    BY <2>9 DEF SetRetention
  <2>10. CASE ApplyRetention(r)
    BY <2>10 DEF ApplyRetention
  <2>11. CASE ReadHot(r)
    BY <2>11 DEF ReadHot
  <2>12. CASE ReadMonths(r)
    BY <2>12 DEF ReadMonths
  <2>13. CASE Alter(r)
    BY <2>13 DEF Alter, Altered
  <2>14. CASE AlterRefused(r)
    BY <2>14 DEF AlterRefused
  <2>15. CASE AlterReplyLost(r)
    BY <2>15 DEF AlterReplyLost, Altered
  <2>16. CASE SetHot(r)
    BY <2>16 DEF SetHot
  <2>17. CASE SetMonths(r)
    BY <2>17 DEF SetMonths
  <2>18. CASE Fails(r)
    BY <2>18 DEF Fails
  <2> QED
    BY <2>1, <2>2, <2>3, <2>4, <2>5, <2>6, <2>7, <2>8, <2>9, <2>10, <2>11, <2>12,
       <2>13, <2>14, <2>15, <2>16, <2>17, <2>18 DEF Step
<1>3. LogoSafe => LogoExists
  BY DEF LogoSafe, LogoExists
<1> QED
  BY <1>1, <1>2, <1>3, TypeCorrect, PTL DEF Spec

-----------------------------------------------------------------------------
(* Why no old file is left.  As long as no two uploads or removals met and *)
(* none failed, the one under way accounts for every file: the one it has  *)
(* saved, the one it has found, and the one the settings name.             *)
OneAtATime == \A r, s \in Request : pc[r] \in LogoStep /\ pc[s] \in LogoStep => r = s

NoOldFiles ==
  smooth =>
    /\ OneAtATime
    /\ (\A r \in Request : pc[r] \notin LogoStep) => files \subseteq {logo}
    /\ \A r \in Request :
         /\ pc[r] = "process" => next[r] = r /\ files \subseteq {logo}
         /\ pc[r] = "read" => files \subseteq {logo, next[r]}
         /\ pc[r] = "set" => previous[r] = logo /\ files \subseteq {logo, next[r]}
         /\ pc[r] = "unlink" => files \subseteq {logo, previous[r]}

(* Uploads and removals that follow each other leave no file behind        *)
(* (settings_api.py:85-123).                                               *)
THEOREM NoFileIsLeft == Spec => []OldLogosGo
<1>1. Init => NoOldFiles
  BY DEF Init, NoOldFiles, OneAtATime, LogoStep
<1>2. TypeOK /\ NoOldFiles /\ [Next]_vars => NoOldFiles'
  <2> SUFFICES ASSUME TypeOK, NoOldFiles, [Next]_vars PROVE NoOldFiles'
    OBVIOUS
  <2> USE SettingsAssumption DEF TypeOK, NoOldFiles, OneAtATime, stores, locals, history, Goto,
                                 LogoStep, RetentionStep
  <2> SUFFICES ASSUME NEW r \in Request, Step(r) PROVE NoOldFiles'
    BY DEF Next, vars
  <2>1. CASE Upload(r)
    <3>1. smooth' => smooth /\ \A s \in Request : pc[s] \notin LogoStep
      BY <2>1 DEF Upload, MeetsAnother
    <3>2. smooth' => files' \subseteq {logo'}
      BY <2>1, <3>1 DEF Upload
    <3>3. next'[r] = r /\ pc'[r] = "process"
          /\ \A s \in Request \ {r} : pc'[s] = pc[s]
      BY <2>1 DEF Upload
    <3> QED
      BY <3>1, <3>2, <3>3
  <2>2. CASE Process(r)
    <3>1. smooth => files' \subseteq {logo', r} /\ pc'[r] = "read"
      BY <2>2 DEF Process
    <3>2. smooth => next'[r] = r
      BY <2>2 DEF Process
    <3>3. smooth => \A s \in Request \ {r} : pc'[s] \notin LogoStep
      BY <2>2 DEF Process
    <3> QED
      BY <2>2, <3>1, <3>2, <3>3 DEF Process
  <2>3. CASE ProcessFails(r)
    <3>1. smooth' => smooth /\ files' = files
      BY <2>3 DEF ProcessFails
    <3>2. smooth' => files' \subseteq {logo'}
      BY <2>3, <3>1 DEF ProcessFails
    <3>3. smooth' => \A s \in Request : pc'[s] \notin LogoStep
      BY <2>3, <3>1 DEF ProcessFails
    <3> QED
      BY <3>2, <3>3
  <2>4. CASE Clear(r)
    <3>1. smooth' => smooth /\ \A s \in Request : pc[s] \notin LogoStep
      BY <2>4 DEF Clear, MeetsAnother
    <3>2. smooth' => files' \subseteq {logo'}
      BY <2>4, <3>1 DEF Clear
    <3>3. pc'[r] = "read" /\ \A s \in Request \ {r} : pc'[s] = pc[s]
      BY <2>4 DEF Clear
    <3> QED
      BY <3>1, <3>2, <3>3
  <2>5. CASE ReadPrevious(r)
    BY <2>5 DEF ReadPrevious
  <2>6. CASE SetLogo(r)
    <3>1. smooth => previous[r] = logo /\ files \subseteq {logo, next[r]}
      BY <2>6 DEF SetLogo
    <3>2. smooth => \A s \in Request \ {r} : pc[s] \notin LogoStep
      BY <2>6 DEF SetLogo
    <3>3. CASE previous[r] = NoLogo
      <4>1. smooth => files \subseteq {logo'}
        BY <2>6, <3>1, <3>3 DEF SetLogo
      <4>2. smooth => \A s \in Request : pc'[s] \notin LogoStep
        BY <2>6, <3>2, <3>3 DEF SetLogo
      <4> QED
        BY <2>6, <4>1, <4>2 DEF SetLogo
    <3>4. CASE previous[r] # NoLogo
      <4>1. smooth => files \subseteq {logo', previous[r]}
        BY <2>6, <3>1 DEF SetLogo
      <4>2. smooth => pc'[r] = "unlink" /\ \A s \in Request \ {r} : pc'[s] \notin LogoStep
        BY <2>6, <3>2, <3>4 DEF SetLogo
      <4> QED
        BY <2>6, <4>1, <4>2 DEF SetLogo
    <3> QED
      BY <3>3, <3>4
  <2>7. CASE Unlink(r)
    <3>1. smooth => files' \subseteq {logo'}
      BY <2>7 DEF Unlink
    <3>2. smooth => \A s \in Request : pc'[s] \notin LogoStep
      BY <2>7 DEF Unlink
    <3> QED
      BY <2>7, <3>1, <3>2 DEF Unlink
  <2>8. CASE UnlinkFails(r)
    BY <2>8 DEF UnlinkFails
  <2>9. CASE SetRetention(r)
    BY <2>9 DEF SetRetention
  <2>10. CASE ApplyRetention(r)
    BY <2>10 DEF ApplyRetention
  <2>11. CASE ReadHot(r)
    BY <2>11 DEF ReadHot
  <2>12. CASE ReadMonths(r)
    BY <2>12 DEF ReadMonths
  <2>13. CASE Alter(r)
    BY <2>13 DEF Alter, Altered
  <2>14. CASE AlterRefused(r)
    BY <2>14 DEF AlterRefused
  <2>15. CASE AlterReplyLost(r)
    BY <2>15 DEF AlterReplyLost, Altered
  <2>16. CASE SetHot(r)
    BY <2>16 DEF SetHot
  <2>17. CASE SetMonths(r)
    BY <2>17 DEF SetMonths
  <2>18. CASE Fails(r)
    <3>1. smooth' => smooth /\ pc[r] \in RetentionStep
      BY <2>18 DEF Fails
    <3>2. \A s \in Request : (pc'[s] \in LogoStep => pc[s] \in LogoStep)
                          /\ (s # r => pc'[s] = pc[s])
      BY <2>18 DEF Fails
    <3> QED
      BY <2>18, <3>1, <3>2 DEF Fails
  <2> QED
    BY <2>1, <2>2, <2>3, <2>4, <2>5, <2>6, <2>7, <2>8, <2>9, <2>10, <2>11, <2>12,
       <2>13, <2>14, <2>15, <2>16, <2>17, <2>18 DEF Step
<1>3. NoOldFiles => OldLogosGo
  BY DEF NoOldFiles, OldLogosGo
<1> QED
  BY <1>1, <1>2, <1>3, TypeCorrect, PTL DEF Spec

-----------------------------------------------------------------------------
(* Why settings and TTL agree.  A request that altered the TTL with no     *)
(* other under way stays the only one, or alone is reset by the next ALTER;*)
(* until its end the TTL is what it asked for, and it writes just that.    *)
RetentionSafe ==
  /\ agreed => /\ ttl = <<hot, months>>
               /\ \A r \in Request : ~UnderWay(r)
  /\ \A r \in Request : alone = r /\ UnderWay(r) =>
       /\ ttl = asked[r]
       /\ \A s \in Request \ {r} : ~UnderWay(s)
       /\ pc[r] = "setmonths" => hot = asked[r][1]

(* Settings and TTL agree after a change that was alone, whatever requests *)
(* met or failed before it, and until another alters the TTL               *)
(* (settings_api.py:150-165).                                              *)
THEOREM RetentionIsAgreed == Spec => []RetentionAgrees
<1>1. Init => RetentionSafe
  BY SettingsAssumption DEF Init, RetentionSafe, UnderWay
<1>2. TypeOK /\ RetentionSafe /\ [Next]_vars => RetentionSafe'
  <2> SUFFICES ASSUME TypeOK, RetentionSafe, [Next]_vars PROVE RetentionSafe'
    OBVIOUS
  <2> USE SettingsAssumption DEF TypeOK, RetentionSafe, UnderWay, stores, locals, history, Goto, LogoStep, RetentionStep
  <2> SUFFICES ASSUME NEW r \in Request, Step(r) PROVE RetentionSafe'
    BY DEF Next, vars
  <2>1. CASE Upload(r)
    BY <2>1 DEF Upload
  <2>2. CASE Process(r)
    BY <2>2 DEF Process
  <2>3. CASE ProcessFails(r)
    BY <2>3 DEF ProcessFails
  <2>4. CASE Clear(r)
    BY <2>4 DEF Clear
  <2>5. CASE ReadPrevious(r)
    BY <2>5 DEF ReadPrevious
  <2>6. CASE SetLogo(r)
    BY <2>6 DEF SetLogo
  <2>7. CASE Unlink(r)
    BY <2>7 DEF Unlink
  <2>8. CASE UnlinkFails(r)
    BY <2>8 DEF UnlinkFails
  <2>9. CASE SetRetention(r)
    BY <2>9 DEF SetRetention
  <2>10. CASE ApplyRetention(r)
    BY <2>10 DEF ApplyRetention
  <2>11. CASE ReadHot(r)
    BY <2>11 DEF ReadHot
  <2>12. CASE ReadMonths(r)
    BY <2>12 DEF ReadMonths
  <2>13. CASE Alter(r)
    BY <2>13 DEF Alter, Altered
  <2>14. CASE AlterRefused(r)
    BY <2>14 DEF AlterRefused
  <2>15. CASE AlterReplyLost(r)
    BY <2>15 DEF AlterReplyLost, Altered
  <2>16. CASE SetHot(r)
    BY <2>16 DEF SetHot
  <2>17. CASE SetMonths(r)
    BY <2>17 DEF SetMonths
  <2>18. CASE Fails(r)
    BY <2>18 DEF Fails
  <2> QED
    BY <2>1, <2>2, <2>3, <2>4, <2>5, <2>6, <2>7, <2>8, <2>9, <2>10, <2>11, <2>12,
       <2>13, <2>14, <2>15, <2>16, <2>17, <2>18 DEF Step
<1>3. RetentionSafe => RetentionAgrees
  BY DEF RetentionSafe, RetentionAgrees
<1> QED
  BY <1>1, <1>2, <1>3, TypeCorrect, PTL DEF Spec

-----------------------------------------------------------------------------
(* Nothing read by one request or refresh is left for the next: every      *)
(* handler clears or overwrites what it has read (routers_api.py:38-50,    *)
(* receiver.py:65-84).                                                     *)
THEOREM NothingLeftOver == AllowListSpec => []AllowListTypeOK
<1>1. AllowListInit => AllowListTypeOK
  BY AllowListAssumption DEF AllowListInit, AllowListTypeOK
<1>2. ASSUME AllowListTypeOK, [AllowListNext]_allowListVars PROVE AllowListTypeOK'
  <2> USE AllowListAssumption, <1>2
      DEF AllowListTypeOK, tableVars, requestVars, receiverVars
  <2>1. ASSUME NEW r \in Request, EditRouter(r) PROVE AllowListTypeOK'
    <3>1. table' \subseteq Ip /\ edits' \in 0..MaxEdits
      BY <2>1 DEF EditRouter, Edit
    <3> QED  BY <2>1, <3>1 DEF EditRouter
  <2>2. ASSUME NEW r \in Request, ApiStart(r) PROVE AllowListTypeOK'
    BY <2>2 DEF ApiStart
  <2>3. ASSUME NEW r \in Request, ReadTable(r) PROVE AllowListTypeOK'
    BY <2>3 DEF ReadTable
  <2>4. ASSUME NEW r \in Request, Publish(r) PROVE AllowListTypeOK'
    BY <2>4 DEF Publish
  <2>5. CASE CliAddRouter
    BY <2>5 DEF CliAddRouter
  <2>6. ASSUME NEW v \in Receiver, Members(v) PROVE AllowListTypeOK'
    BY <2>6 DEF Members
  <2>7. ASSUME NEW v \in Receiver, UseReply(v) PROVE AllowListTypeOK'
    BY <2>7 DEF UseReply
  <2>8. ASSUME NEW v \in Receiver, FallBack(v) PROVE AllowListTypeOK'
    BY <2>8 DEF FallBack
  <2>9. ASSUME NEW v \in Receiver, FallBackFails(v) PROVE AllowListTypeOK'
    BY <2>9 DEF FallBackFails
  <2>10. ASSUME NEW v \in Receiver, PublishFetched(v) PROVE AllowListTypeOK'
    BY <2>10 DEF PublishFetched
  <2>11. ASSUME NEW v \in Receiver, Restart(v) PROVE AllowListTypeOK'
    BY <2>11 DEF Restart
  <2>12. CASE UNCHANGED allowListVars
    BY <2>12 DEF allowListVars
  <2> QED
    BY <2>1, <2>2, <2>3, <2>4, <2>5, <2>6, <2>7, <2>8, <2>9, <2>10, <2>11, <2>12
       DEF AllowListNext, RequestStep, Refresh
<1> QED
  BY <1>1, <1>2, PTL DEF AllowListSpec

(* A good cache stays good: whoever publishes, a request or a receiver in  *)
(* its fallback, publishes the table as it still is, so that only a change *)
(* of the table makes the cache stale (routers_api.py:38-50,               *)
(* receiver.py:65-90).                                                     *)
THEOREM GoodCacheIsKept == AllowListSpec => GoodCacheStays
<1>1. ASSUME AllowListTypeOK, [AllowListNext]_allowListVars, CacheGood, Current, table' = table
      PROVE  CacheGood' /\ Current'
  <2> USE <1>1 DEF AllowListTypeOK, CacheGood, Current, tableVars, requestVars, receiverVars
  <2>1. ASSUME NEW r \in Request, EditRouter(r) PROVE FALSE
    BY <2>1 DEF EditRouter, Edit
  <2>2. ASSUME NEW r \in Request, ApiStart(r) PROVE CacheGood' /\ Current'
    BY <2>2 DEF ApiStart
  <2>3. ASSUME NEW r \in Request, ReadTable(r) PROVE CacheGood' /\ Current'
    BY <2>3 DEF ReadTable
  <2>4. ASSUME NEW r \in Request, Publish(r) PROVE CacheGood' /\ Current'
    BY <2>4 DEF Publish
  <2>5. ASSUME CliAddRouter PROVE FALSE
    BY <2>5 DEF CliAddRouter
  <2>6. ASSUME NEW v \in Receiver, Members(v) PROVE CacheGood' /\ Current'
    BY <2>6 DEF Members
  <2>7. ASSUME NEW v \in Receiver, UseReply(v) PROVE CacheGood' /\ Current'
    BY <2>7 DEF UseReply
  <2>8. ASSUME NEW v \in Receiver, FallBack(v) PROVE CacheGood' /\ Current'
    BY <2>8 DEF FallBack
  <2>9. ASSUME NEW v \in Receiver, FallBackFails(v) PROVE CacheGood' /\ Current'
    BY <2>9 DEF FallBackFails
  <2>10. ASSUME NEW v \in Receiver, PublishFetched(v) PROVE CacheGood' /\ Current'
    BY <2>10 DEF PublishFetched
  <2>11. ASSUME NEW v \in Receiver, Restart(v) PROVE CacheGood' /\ Current'
    BY <2>11 DEF Restart
  <2>12. ASSUME UNCHANGED allowListVars PROVE CacheGood' /\ Current'
    BY <2>12 DEF allowListVars
  <2> QED
    BY <2>1, <2>2, <2>3, <2>4, <2>5, <2>6, <2>7, <2>8, <2>9, <2>10, <2>11, <2>12
       DEF AllowListNext, RequestStep, Refresh
<1>2. AllowListTypeOK /\ [AllowListNext]_allowListVars => [CacheGood /\ Current /\ table' = table => CacheGood' /\ Current']_allowListVars
  BY <1>1
<1> QED
  BY <1>2, NothingLeftOver, PTL DEF AllowListSpec, GoodCacheStays
=============================================================================
