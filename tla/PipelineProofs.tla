--------------------------- MODULE PipelineProofs ---------------------------
(***************************************************************************)
(* Proofs about Ingest, for every number of records, every batch size,     *)
(* either event loop and failures of any push; and about Pipeline: the     *)
(* receiver in it behaves as Ingest says, so that what is proved of Ingest *)
(* holds there; no accepted record is gone uncounted on its way to the     *)
(* table; one worker keeps the backlog in order.  They hold for every set  *)
(* of failures on either side.                                             *)
(***************************************************************************)
EXTENDS Pipeline, FiniteSetTheorems, SequenceTheorems, TLAPS

-----------------------------------------------------------------------------
(* The inductive invariant. *)

(* The types, with any number of push tasks waiting. *)
Types == /\ handled \in 0..NumRecords
         /\ buffer \in Seq(Record) /\ redis \in Seq(Record) /\ draining \in Seq(Record)
         /\ pushing \in BOOLEAN /\ paused \in BOOLEAN /\ connected \in BOOLEAN
         /\ created \in Nat
         /\ sending \subseteq Seq(Record)
         /\ shed \subseteq Record /\ failed \subseteq Record
         /\ late \subseteq Record /\ cut \subseteq Record
         /\ mode \in {"serving", "closing", "flushing", "reporting", "exited"}
         /\ loop \in Loops \cup {"any"}

(* Until the drain _pushing counts the tasks; the drain's own push is one  *)
(* more, and each end of a push makes room for one that is created.        *)
TasksCounted ==
  /\ IsFiniteSet(sending)
  /\ IF Drains
     THEN created + Cardinality(sending) + (IF mode = "flushing" THEN 1 ELSE 0)
            <= (IF pushing THEN 2 ELSE 1)
     ELSE created + Cardinality(sending) = (IF pushing THEN 1 ELSE 0)

(* What the modes leave empty. *)
EmptyByMode == /\ mode # "flushing" => draining = <<>>
               /\ mode # "exited" => cut = {}
               /\ IF Drains THEN Range(buffer) \subseteq late ELSE late = {}
               /\ loop = "asyncio" /\ mode \in {"flushing", "reporting"} =>
                    ~connected /\ buffer = <<>>

(* No record is in two batches. *)
BatchesApart == /\ \A b, c \in sending : b # c => Range(b) \cap Range(c) = {}
                /\ \A b \in sending : Range(b) \cap Range(draining) = {}

(* Redis, then the batch under way, then the buffer, then what comes.      *)
Rising(s) == \A j, k \in DOMAIN s : j < k => s[j] < s[k]
Before(S, T) == \A x \in S, y \in T : x < y
InOrder == ~Drains =>
  /\ Rising(redis) /\ Rising(buffer)
  /\ Before(Range(redis), Range(buffer))
  /\ \A b \in sending : /\ Rising(b)
                        /\ Before(Range(redis), Range(b))
                        /\ Before(Range(b), Range(buffer))

Sent == UNION {Range(b) : b \in sending}
Done == Range(redis) \cup shed \cup failed

IInv == Types /\ TasksCounted /\ EmptyByMode /\ BatchesApart /\ AccountedFor /\ InOrder

-----------------------------------------------------------------------------
(* Lemmas about lists. *)

LEMMA RangeOfEmpty == Range(<<>>) = {}
BY DEF Range

LEMMA RangeOfRecords ==
  ASSUME NEW S, NEW q \in Seq(S) PROVE Range(q) \subseteq S
BY LenProperties, ElementOfSeq DEF Range

(* Joining two lists joins what they hold. *)
LEMMA Join ==
  ASSUME NEW S, NEW p \in Seq(S), NEW q \in Seq(S)
  PROVE  /\ p \o q \in Seq(S)
         /\ Range(p \o q) = Range(p) \cup Range(q)
BY RangeConcatenation, ConcatProperties

(* A list that rises, followed by one that rises above it, rises. *)
LEMMA RisingJoin ==
  ASSUME NEW S, NEW p \in Seq(S), NEW q \in Seq(S),
         Rising(p), Rising(q), Before(Range(p), Range(q))
  PROVE  Rising(p \o q)
<1>1. /\ Len(p) \in Nat /\ Len(q) \in Nat /\ Len(p \o q) = Len(p) + Len(q)
      /\ DOMAIN p = 1..Len(p) /\ DOMAIN q = 1..Len(q) /\ DOMAIN (p \o q) = 1..(Len(p) + Len(q))
      /\ \A i \in 1..(Len(p) + Len(q)) :
           (p \o q)[i] = IF i <= Len(p) THEN p[i] ELSE q[i - Len(p)]
  <2>1. /\ p \o q \in Seq(S) /\ Len(p \o q) = Len(p) + Len(q)
        /\ \A i \in 1..(Len(p) + Len(q)) :
             (p \o q)[i] = IF i <= Len(p) THEN p[i] ELSE q[i - Len(p)]
    BY ConcatProperties
  <2>2. DOMAIN (p \o q) = 1..Len(p \o q)
    BY <2>1, LenProperties
  <2>3. /\ Len(p) \in Nat /\ Len(q) \in Nat
        /\ DOMAIN p = 1..Len(p) /\ DOMAIN q = 1..Len(q)
    BY LenProperties
  <2> QED
    BY <2>1, <2>2, <2>3
<1> SUFFICES ASSUME NEW j \in 1..(Len(p) + Len(q)), NEW k \in 1..(Len(p) + Len(q)), j < k
             PROVE  (p \o q)[j] < (p \o q)[k]
  BY <1>1 DEF Rising
<1>2. CASE k <= Len(p)
  BY <1>1, <1>2 DEF Rising
<1>3. CASE j > Len(p)
  <2>1. /\ j - Len(p) \in 1..Len(q) /\ k - Len(p) \in 1..Len(q)
        /\ j - Len(p) < k - Len(p)
    BY <1>1, <1>3
  <2>2. q[j - Len(p)] < q[k - Len(p)]
    BY <2>1, <1>1 DEF Rising
  <2> QED
    BY <1>1, <1>3, <2>2
<1>4. CASE j <= Len(p) /\ k > Len(p)
  <2>1. j \in DOMAIN p /\ k - Len(p) \in DOMAIN q
    BY <1>1, <1>4
  <2>2. p[j] \in Range(p) /\ q[k - Len(p)] \in Range(q)
    BY <2>1 DEF Range
  <2>3. p[j] < q[k - Len(p)]
    BY <2>2 DEF Before
  <2> QED
    BY <1>1, <1>4, <2>3
<1> QED
  BY <1>1, <1>2, <1>3, <1>4

(* What Append adds, and that it keeps a list rising. *)
LEMMA AppendOne ==
  ASSUME NEW S, NEW q \in Seq(S), NEW x \in S
  PROVE  /\ Append(q, x) \in Seq(S)
         /\ Range(Append(q, x)) = Range(q) \cup {x}
         /\ Rising(q) /\ (\A y \in Range(q) : y < x) => Rising(Append(q, x))
<1>1. Append(q, x) = q \o <<x>> /\ <<x>> \in Seq(S)
  BY AppendIsConcat
<1>2. Range(<<x>>) = {x}
  BY DEF Range
<1>3. Rising(<<x>>)
  <2>1. \A j, k \in DOMAIN <<x>> : j = k
    OBVIOUS
  <2> QED
    BY <2>1 DEF Rising
<1>4. Rising(q) /\ (\A y \in Range(q) : y < x) => Rising(q \o <<x>>)
  BY <1>1, <1>2, <1>3, RisingJoin DEF Before
<1>5. ASSUME NEW t \in Seq(S), Range(t) = {x}
      PROVE  Range(q \o t) = Range(q) \cup {x} /\ q \o t \in Seq(S)
  BY <1>5, Join
<1> QED
  BY <1>1, <1>2, <1>4, <1>5

-----------------------------------------------------------------------------
(* Facts about the steps that several parts of the invariant need.         *)

LEMMA ScheduleTypes ==
  ASSUME Types, NEW wanted, Schedule(wanted) PROVE pushing' \in BOOLEAN /\ created' \in Nat
<1>1. pushing' \in BOOLEAN
  BY DEF Types, Schedule
<1>2. created' \in Nat
  BY DEF Types, Schedule
<1> QED
  BY <1>1, <1>2

(* Batches by their name. *)
LEMMA Batches == /\ InFlight = Sent \cup Range(draining)
                 /\ \A b \in sending : Range(b) \subseteq Sent
<1>1. InFlight = Sent \cup Range(draining)
  BY DEF InFlight, Sent
<1>2. ASSUME NEW b \in sending PROVE Range(b) \subseteq Sent
  <2>1. Range(b) \in {Range(c) : c \in sending}
    OBVIOUS
  <2> QED
    BY <2>1 DEF Sent
<1> QED
  BY <1>1, <1>2

(* What Redis holds at the end: what it held, and any of the last batches. *)
LEMMA Landed ==
  ASSUME Types, redis' \in Landings
  PROVE  /\ redis' \in Seq(Record)
         /\ Range(redis) \subseteq Range(redis')
         /\ Range(redis') \subseteq Range(redis) \cup Sent
         /\ \E d \in Seq(Record) : redis' = redis \o d
<1>1. redis \in Seq(Record)
  BY DEF Types
<1>2. ASSUME NEW b \in sending PROVE b \in Seq(Record) /\ Range(b) \subseteq Sent
  BY Batches DEF Types
<1>3. ASSUME NEW d \in Seq(Record), Range(d) \subseteq Sent, redis' = redis \o d
      PROVE  /\ redis' \in Seq(Record)
             /\ Range(redis) \subseteq Range(redis')
             /\ Range(redis') \subseteq Range(redis) \cup Sent
  BY <1>1, <1>3, Join
<1>4. CASE redis' = redis
  BY <1>1, <1>3, <1>4, ConcatEmptySeq, EmptySeq, RangeOfEmpty
<1>5. ASSUME NEW b \in sending, redis' = redis \o b
      PROVE  \E d \in Seq(Record) : Range(d) \subseteq Sent /\ redis' = redis \o d
  BY <1>2, <1>5
<1>6. ASSUME NEW b \in sending, NEW c \in sending, redis' = (redis \o b) \o c
      PROVE  \E d \in Seq(Record) : Range(d) \subseteq Sent /\ redis' = redis \o d
  <2>1. b \o c \in Seq(Record) /\ Range(b \o c) = Range(b) \cup Range(c)
    BY <1>2, Join
  <2>2. redis' = redis \o (b \o c)
    <3>1. b \in Seq(Record) /\ c \in Seq(Record)
      BY <1>2
    <3> QED
      BY <1>1, <1>6, <3>1, ConcatAssociative
  <2> QED
    BY <1>2, <2>1, <2>2
<1>7. \/ redis' = redis
      \/ \E b \in sending : redis' = redis \o b
      \/ \E b \in sending : \E c \in sending : redis' = (redis \o b) \o c
  BY DEF Landings
<1> QED
  BY <1>3, <1>4, <1>5, <1>6, <1>7

(* The types. *)
LEMMA TypesKeep == ASSUME Types, Next PROVE Types'
<1> USE IngestAssumption DEF pushVars, fateVars, envVars
<1> DEFINE Lists == /\ buffer \in Seq(Record) /\ redis \in Seq(Record)
                    /\ draining \in Seq(Record) /\ sending \subseteq Seq(Record)
           Flags == pushing \in BOOLEAN /\ paused \in BOOLEAN /\ connected \in BOOLEAN
           Counted == /\ shed \subseteq Record /\ failed \subseteq Record
                      /\ late \subseteq Record /\ cut \subseteq Record
           Places == /\ mode \in {"serving", "closing", "flushing", "reporting", "exited"}
                     /\ loop \in Loops \cup {"any"}
           Numbers == handled \in 0..NumRecords /\ created \in Nat
<1>1. Types <=> Lists /\ Flags /\ Counted /\ Places /\ Numbers
  BY DEF Types
<1>2. Types' <=> Lists' /\ Flags' /\ Counted' /\ Places' /\ Numbers'
  BY DEF Types
<1>3. <<>> \in Seq(Record)
  BY EmptySeq
<1>4. Range(buffer) \subseteq Record /\ \A b \in sending : Range(b) \subseteq Record
  BY <1>1, RangeOfRecords
<1>5. Range(draining) \subseteq Record
  BY <1>1, RangeOfRecords
<1>6. ASSUME TakesBuffer, late' = late
      PROVE  buffer' \in Seq(Record) /\ Counted' /\ redis' \in Seq(Record)
  BY <1>1, <1>3, <1>4, <1>6 DEF TakesBuffer
<1>7. ASSUME NEW b \in Seq(Record), PushSucceeds(b) \/ PushFails(b)
      PROVE  redis' \in Seq(Record) /\ failed' \subseteq Record /\ pushing' = FALSE
  <2>1. redis \o b \in Seq(Record) /\ Range(b) \subseteq Record
    BY <1>1, Join, RangeOfRecords
  <2> QED
    BY <1>1, <1>7, <2>1 DEF PushSucceeds, PushFails
<1>8. ASSUME DrainBuffer, late' = late
      PROVE  /\ Lists' /\ Counted' /\ pushing' \in BOOLEAN /\ created' = created
             /\ mode' \in {"flushing", "reporting"}
  <2>1. buffer' \in Seq(Record) /\ Counted' /\ redis' \in Seq(Record)
    BY <1>6, <1>8 DEF DrainBuffer
  <2>2. draining' \in Seq(Record) /\ sending' = sending
    BY <1>1, <1>3, <1>8 DEF DrainBuffer
  <2>3. pushing' \in BOOLEAN
    BY <1>1, <1>8 DEF DrainBuffer
  <2> QED
    BY <1>1, <1>8, <2>1, <2>2, <2>3 DEF DrainBuffer
<1> HIDE DEF Lists, Flags, Counted, Places, Numbers
<1>9. CASE Handle
  <2>1. handled' \in 0..NumRecords /\ handled' \in Record
    BY <1>1, <1>9 DEF Handle, Record, Numbers
  <2>2. buffer' \in Seq(Record)
    BY <1>1, <1>9, <2>1, AppendOne DEF Handle, Lists
  <2>3. pushing' \in BOOLEAN /\ created' \in Nat
    BY <1>9, ScheduleTypes DEF Handle
  <2>4. Lists' /\ Counted' /\ Places'
    BY <1>1, <1>9, <2>1, <2>2 DEF Handle, Lists, Counted, Places
  <2>5. Flags'
    BY <1>1, <1>9, <2>3 DEF Handle, Flags
  <2>6. Numbers'
    BY <2>1, <2>3 DEF Numbers
  <2> QED
    BY <1>2, <2>4, <2>5, <2>6
<1>10. CASE Tick
  <2>1. pushing' \in BOOLEAN /\ created' \in Nat
    BY <1>10, ScheduleTypes DEF Tick
  <2>2. Lists' /\ Counted' /\ Places'
    BY <1>1, <1>10 DEF Tick, Lists, Counted, Places
  <2>3. Flags' /\ Numbers'
    BY <1>1, <1>10, <2>1 DEF Tick, Flags, Numbers
  <2> QED
    BY <1>2, <2>2, <2>3
<1>11. CASE Pause \/ Resume
  <2>1. Lists' /\ Counted' /\ Places' /\ Numbers'
    BY <1>1, <1>11 DEF Pause, Resume, Lists, Counted, Places, Numbers
  <2>2. Flags'
    BY <1>1, <1>11 DEF Pause, Resume, Flags
  <2> QED
    BY <1>2, <2>1, <2>2
<1>12. CASE StartPush
  <2>1. buffer' \in Seq(Record) /\ Counted' /\ redis' \in Seq(Record)
    BY <1>6, <1>12 DEF StartPush
  <2>2. Lists'
    BY <1>1, <1>12, <2>1 DEF StartPush, Lists
  <2>3. Flags'
    BY <1>1, <1>12 DEF StartPush, Flags
  <2>4. Numbers'
    BY <1>1, <1>12 DEF StartPush, Numbers
  <2>5. Places'
    BY <1>1, <1>12 DEF StartPush, Places
  <2> QED
    BY <1>2, <2>1, <2>2, <2>3, <2>4, <2>5
<1>13. ASSUME NEW b \in sending, EndPush(b) PROVE Types'
  <2>1. b \in Seq(Record)
    BY <1>1 DEF Lists
  <2>2. redis' \in Seq(Record) /\ failed' \subseteq Record /\ pushing' = FALSE
    BY <1>7, <1>13, <2>1 DEF EndPush
  <2>3. Lists' /\ Counted' /\ Places' /\ Numbers'
    BY <1>1, <1>13, <2>2 DEF EndPush, Lists, Counted, Places, Numbers
  <2>4. Flags'
    BY <1>1, <1>13, <2>2 DEF EndPush, Flags
  <2> QED
    BY <1>2, <2>3, <2>4
<1>14. CASE Connect \/ Disconnect
  <2>1. Lists' /\ Counted' /\ Places' /\ Numbers'
    BY <1>1, <1>14 DEF Connect, Disconnect, Lists, Counted, Places, Numbers
  <2>2. Flags'
    BY <1>1, <1>14 DEF Connect, Disconnect, Flags
  <2> QED
    BY <1>2, <2>1, <2>2
<1>15. CASE Stop
  <2>1. /\ handled' = handled /\ paused' = paused /\ connected' = connected
        /\ loop' \in Loops /\ late' = late
    BY <1>15 DEF Stop
  <2>2. CASE UNCHANGED <<pushVars, fateVars>> /\ mode' = "closing"
    <3>1. Lists' /\ Counted' /\ Places' /\ Numbers'
      BY <1>1, <2>1, <2>2 DEF Lists, Counted, Places, Numbers
    <3>2. Flags'
      BY <1>1, <2>1, <2>2 DEF Flags
    <3> QED
      BY <1>2, <3>1, <3>2
  <2>3. CASE DrainBuffer
    <3>1. Places' /\ Numbers'
      BY <1>1, <1>8, <2>1, <2>3 DEF Places, Numbers
    <3>2. Flags'
      BY <1>1, <1>8, <2>1, <2>3 DEF Flags
    <3> QED
      BY <1>2, <1>8, <2>1, <2>3, <3>1, <3>2
  <2> QED
    BY <1>15, <2>2, <2>3 DEF Stop
<1>16. CASE Closed
  <2>1. DrainBuffer /\ UNCHANGED <<handled, paused, connected, loop, late>>
    BY <1>16 DEF Closed
  <2>2. Places' /\ Numbers'
    BY <1>1, <1>8, <2>1 DEF Places, Numbers
  <2>3. Flags'
    BY <1>1, <1>8, <2>1 DEF Flags
  <2> QED
    BY <1>2, <1>8, <2>1, <2>2, <2>3
<1>17. CASE Drained
  <2>1. redis' \in Seq(Record) /\ failed' \subseteq Record /\ pushing' = FALSE
    BY <1>1, <1>7, <1>17 DEF Drained, Lists
  <2>2. Lists' /\ Counted' /\ Places' /\ Numbers'
    BY <1>1, <1>3, <1>17, <2>1 DEF Drained, Lists, Counted, Places, Numbers
  <2>3. Flags'
    BY <1>1, <1>17, <2>1 DEF Drained, Flags
  <2> QED
    BY <1>2, <2>2, <2>3
<1>18. CASE Exit
  <2>1. Lists' /\ Places' /\ Numbers'
    BY <1>1, <1>3, <1>18, Landed DEF Exit, Lists, Places, Numbers
  <2>2. Counted'
    BY <1>1, <1>4, <1>18 DEF Exit, Counted
  <2>3. Flags'
    BY <1>1, <1>18 DEF Exit, Flags
  <2> QED
    BY <1>2, <2>1, <2>2, <2>3
<1> QED
  BY <1>9, <1>10, <1>11, <1>12, <1>13, <1>14, <1>15, <1>16, <1>17, <1>18 DEF Next

(* The drain takes no push task off the way; it may reset _pushing.        *)
LEMMA DrainSteps ==
  ASSUME Stop \/ Closed
  PROVE  /\ ~Drains
         /\ \/ UNCHANGED <<pushVars, fateVars>> /\ mode' = "closing"
            \/ DrainBuffer /\ (loop' = "asyncio" => ~connected)
         /\ UNCHANGED <<handled, paused, connected, late>>
BY DEF Stop, Closed, WaitClosed, Drains, envVars

(* The counts of push tasks. *)
LEMMA TasksKeep == ASSUME Types, TasksCounted, Next PROVE TasksCounted'
<1> DEFINE N == created + Cardinality(sending)
<1>1. /\ IsFiniteSet(sending) /\ Cardinality(sending) \in Nat
      /\ created \in Nat /\ pushing \in BOOLEAN
  BY FS_CardinalityType DEF TasksCounted, Types
<1>2. ASSUME UNCHANGED <<created, pushing, sending, mode>> PROVE TasksCounted'
  BY <1>2 DEF TasksCounted, Drains
<1>3. ASSUME NEW wanted, Schedule(wanted), UNCHANGED <<sending, mode>> PROVE TasksCounted'
  BY <1>1, <1>3 DEF Schedule, TasksCounted, Drains
<1>4. ASSUME DrainBuffer, ~Drains PROVE TasksCounted'
  BY <1>1, <1>4 DEF DrainBuffer, TasksCounted, Drains
<1>5. CASE Handle
  BY <1>3, <1>5 DEF Handle
<1>6. CASE Tick
  BY <1>3, <1>6 DEF Tick
<1>7. CASE Pause \/ Resume \/ Connect \/ Disconnect
  BY <1>2, <1>7 DEF Pause, Resume, Connect, Disconnect, pushVars
<1>8. CASE StartPush
  <2>1. CASE PushEndsAtOnce
    <3>1. created' = created - 1 /\ sending' = sending /\ pushing' = FALSE /\ mode' = mode
      BY <1>8, <2>1 DEF StartPush
    <3>2. created > 0 /\ mode # "exited"
      BY <1>8 DEF StartPush
    <3> QED
      BY <1>1, <3>1, <3>2 DEF TasksCounted, Drains
  <2>2. CASE ~PushEndsAtOnce
    <3>1. created' = created - 1 /\ sending' = sending \cup {buffer} /\ mode' = mode
      BY <1>8, <2>2 DEF StartPush
    <3>2. pushing' = pushing
      BY <1>1, <1>8, <2>2 DEF StartPush
    <3>3. created > 0
      BY <1>8 DEF StartPush
    <3>4. IsFiniteSet(sending') /\ Cardinality(sending') \in Nat
      BY <1>1, <3>1, FS_AddElement, FS_CardinalityType
    <3>5. Cardinality(sending') \in {Cardinality(sending), Cardinality(sending) + 1}
      BY <1>1, <3>1, FS_AddElement
    <3>6. ~Drains => Cardinality(sending') = Cardinality(sending) + 1
      <4>1. ~Drains => Cardinality(sending) = 0
        BY <1>1, <3>3 DEF TasksCounted
      <4>2. ~Drains => sending = {}
        BY <1>1, <4>1, FS_EmptySet
      <4> QED
        BY <1>1, <3>1, <4>2, FS_AddElement
    <3> QED
      BY <1>1, <3>1, <3>2, <3>3, <3>4, <3>5, <3>6 DEF TasksCounted, Drains
  <2> QED
    BY <2>1, <2>2
<1>9. ASSUME NEW b \in sending, EndPush(b) PROVE TasksCounted'
  <2>1. created' = created /\ sending' = sending \ {b} /\ pushing' = FALSE /\ mode' = mode
    BY <1>9 DEF EndPush, PushSucceeds, PushFails
  <2>2. IsFiniteSet(sending') /\ Cardinality(sending') = Cardinality(sending) - 1
    BY <1>1, <2>1, FS_RemoveElement
  <2>3. Cardinality(sending') \in Nat
    BY <2>2, FS_CardinalityType
  <2> QED
    BY <1>1, <2>1, <2>2, <2>3 DEF TasksCounted, Drains
<1>10. CASE Stop \/ Closed
  <2>1. CASE UNCHANGED <<pushVars, fateVars>> /\ mode' = "closing"
    BY <1>10, <2>1, DrainSteps DEF TasksCounted, Drains, pushVars
  <2> QED
    BY <1>4, <1>10, <2>1, DrainSteps
<1>11. CASE Drained
  <2>1. pushing' = FALSE /\ UNCHANGED <<created, sending>> /\ mode = "flushing" /\ mode' = "reporting"
    BY <1>11 DEF Drained, PushSucceeds, PushFails
  <2> QED
    BY <1>1, <2>1 DEF TasksCounted, Drains
<1>12. CASE Exit
  <2>1. created' = 0 /\ sending' = {} /\ mode' = "exited"
    BY <1>12 DEF Exit
  <2> QED
    BY <2>1, FS_EmptySet DEF TasksCounted, Drains
<1> QED
  BY <1>5, <1>6, <1>7, <1>8, <1>9, <1>10, <1>11, <1>12 DEF Next

(* What the modes leave empty. *)
LEMMA EmptyKeep == ASSUME Types, EmptyByMode, Next PROVE EmptyByMode'
<1> USE DEF EmptyByMode, pushVars, fateVars, envVars
<1>1. CASE Handle
  <2>1. Range(buffer') = Range(buffer) \cup {handled'}
    <3>1. handled' \in Record /\ buffer' = Append(buffer, handled')
      BY <1>1, IngestAssumption DEF Handle, Types, Record
    <3> QED
      BY <3>1, AppendOne DEF Types
  <2>2. /\ late' = IF Drains THEN late \cup {handled'} ELSE late
        /\ UNCHANGED <<mode, draining, cut, loop, connected>>
        /\ mode = "serving" \/ connected
    BY <1>1 DEF Handle
  <2> QED
    BY <2>1, <2>2 DEF Drains
<1>2. CASE Tick \/ Pause \/ Resume
  <2>1. UNCHANGED <<mode, draining, late, cut, loop, connected, buffer>>
    BY <1>2 DEF Tick, Pause, Resume
  <2> QED
    BY <2>1 DEF Drains
<1>3. CASE StartPush
  BY <1>3, RangeOfEmpty DEF StartPush, TakesBuffer, Drains
<1>4. ASSUME NEW b \in sending, EndPush(b) PROVE EmptyByMode'
  BY <1>4 DEF EndPush, Drains
<1>5. CASE Connect \/ Disconnect
  BY <1>5 DEF Connect, Disconnect, Drains
<1>6. CASE Stop \/ Closed
  <2>1. ~Drains /\ connected' = connected /\ late' = late
    BY <1>6, DrainSteps
  <2>2. CASE UNCHANGED <<pushVars, fateVars>> /\ mode' = "closing"
    BY <2>1, <2>2 DEF Drains
  <2>3. CASE DrainBuffer /\ (loop' = "asyncio" => ~connected)
    BY <2>1, <2>3, RangeOfEmpty DEF Drains, DrainBuffer, TakesBuffer
  <2> QED
    BY <1>6, <2>2, <2>3, DrainSteps
<1>7. CASE Drained
  BY <1>7 DEF Drained, Drains
<1>8. CASE Exit
  BY <1>8, RangeOfEmpty DEF Exit, Drains
<1> QED
  BY <1>1, <1>2, <1>3, <1>4, <1>5, <1>6, <1>7, <1>8 DEF Next

-----------------------------------------------------------------------------
(* What the head of _push() does with the buffer, whoever calls it.        *)
LEMMA Taken == ASSUME TakesBuffer
               PROVE  /\ Range(buffer') = {}
                      /\ UNCHANGED <<redis, failed, cut>>
                      /\ PushEndsAtOnce => shed' = shed \cup Range(buffer)
                      /\ ~PushEndsAtOnce => shed' = shed
BY RangeOfEmpty DEF TakesBuffer, PushEndsAtOnce

(* What the reply to an RPUSH does with its batch. *)
LEMMA Replied == ASSUME Types, NEW b \in Seq(Record), PushSucceeds(b) \/ PushFails(b)
                 PROVE  /\ Range(redis') \in {Range(redis), Range(redis) \cup Range(b)}
                        /\ failed' \in {failed, failed \cup Range(b)}
                        /\ Range(b) \subseteq Range(redis') \cup failed'
<1>1. Range(redis \o b) = Range(redis) \cup Range(b)
  BY Join DEF Types
<1> QED
  BY <1>1 DEF PushSucceeds, PushFails

(* No record is in two batches. *)
LEMMA ApartKeep == ASSUME BatchesApart, AccountedFor, EmptyByMode, Next PROVE BatchesApart'
<1> USE DEF BatchesApart
<1>1. ASSUME UNCHANGED <<sending, draining>> PROVE BatchesApart'
  BY <1>1
<1>2. \A b \in sending : Range(b) \cap Range(buffer) = {}
  BY DEF AccountedFor, InFlight
<1>3. Range(draining) \cap Range(buffer) = {}
  <2>1. Range(buffer) \cap InFlight = {}
    BY DEF AccountedFor
  <2> QED
    BY <2>1, Batches
<1>4. ASSUME sending' \subseteq sending, Range(draining') = {} PROVE BatchesApart'
  BY <1>4
<1>5. CASE Handle \/ Tick \/ Pause \/ Resume \/ Connect \/ Disconnect
  BY <1>1, <1>5 DEF Handle, Tick, Pause, Resume, Connect, Disconnect, pushVars
<1>6. CASE StartPush
  <2>1. sending' \subseteq sending \cup {buffer} /\ draining' = draining
    BY <1>6 DEF StartPush
  <2> QED
    BY <1>2, <1>3, <2>1
<1>7. ASSUME NEW b \in sending, EndPush(b) PROVE BatchesApart'
  BY <1>7 DEF EndPush
<1>8. CASE Stop \/ Closed
  <2>1. CASE UNCHANGED <<pushVars, fateVars>> /\ mode' = "closing"
    BY <1>1, <2>1 DEF pushVars
  <2>2. CASE DrainBuffer
    <3>1. sending' = sending /\ draining' \in {<<>>, buffer}
      BY <2>2 DEF DrainBuffer
    <3> QED
      BY <1>2, <3>1, RangeOfEmpty
  <2> QED
    BY <1>8, <2>1, <2>2, DrainSteps
<1>9. CASE Drained
  BY <1>4, <1>9, RangeOfEmpty DEF Drained
<1>10. CASE Exit
  BY <1>10 DEF Exit
<1> QED
  BY <1>5, <1>6, <1>7, <1>8, <1>9, <1>10 DEF Next

(* Every accepted record is in one place, or lost at the stop. *)
LEMMA AccountedKeep ==
  ASSUME Types, BatchesApart, EmptyByMode, AccountedFor, Next PROVE AccountedFor'
<1> DEFINE Waiting == Range(buffer)
           Places == Waiting \cup InFlight \cup Done
           Apart == /\ Places \cup cut \subseteq 1..handled
                    /\ Waiting \cap (InFlight \cup Done) = {} /\ InFlight \cap Done = {}
                    /\ shed \cap (Range(redis) \cup failed) = {}
                    /\ cut \cap (shed \cup failed) = {}
<1>1. Apart /\ 1..handled \subseteq Places \cup LostAtStop
  BY DEF AccountedFor, Done
<1>2. InFlight = Sent \cup Range(draining)
  BY Batches
<1>3. ASSUME Apart', 1..handled' \subseteq Places' \cup LostAtStop'
      PROVE  AccountedFor'
  BY <1>3 DEF AccountedFor, Done
<1> HIDE DEF Waiting
(* Before the process has ended, nothing is lost. *)
<1>a. mode # "exited" => cut = {} /\ LostAtStop = {}
  BY DEF EmptyByMode, LostAtStop
<1>4. ASSUME UNCHANGED <<handled, buffer, sending, draining, redis, shed, failed, late, cut, mode>>
      PROVE  AccountedFor'
  BY <1>4 DEF AccountedFor, InFlight, LostAtStop
(* The buffer goes on its way. *)
<1>5. ASSUME mode # "exited", handled' = handled, Waiting' = {},
             InFlight' = InFlight \cup Waiting, UNCHANGED <<redis, shed, failed, cut>>
      PROVE  AccountedFor'
  BY <1>1, <1>3, <1>a, <1>5 DEF Done
(* The buffer is shed. *)
<1>6. ASSUME mode # "exited", handled' = handled, Waiting' = {}, InFlight' = InFlight,
             shed' = shed \cup Waiting, UNCHANGED <<redis, failed, cut>>
      PROVE  AccountedFor'
  BY <1>1, <1>3, <1>a, <1>6 DEF Done
(* A batch is done with. *)
<1>7. ASSUME mode # "exited",
             NEW R, R \subseteq InFlight, InFlight' = InFlight \ R,
             Range(redis') \in {Range(redis), Range(redis) \cup R},
             failed' \in {failed, failed \cup R}, R \subseteq Range(redis') \cup failed',
             UNCHANGED <<handled, buffer, shed, cut>>
      PROVE  AccountedFor'
  <2>1. Waiting' = Waiting
    BY <1>7 DEF Waiting
  <2>2. Done' = Done \cup R
    BY <1>7 DEF Done
  <2> QED
    BY <1>1, <1>3, <1>a, <1>7, <2>1, <2>2 DEF Done
<1>8. CASE Handle
  <2>1. handled' = handled + 1 /\ Waiting' = Waiting \cup {handled'}
    <3>1. handled' \in Record /\ buffer' = Append(buffer, handled')
      BY <1>8, IngestAssumption DEF Handle, Types, Record
    <3> QED
      BY <1>8, <3>1, AppendOne DEF Handle, Types, Waiting
  <2>2. UNCHANGED <<sending, draining, redis, shed, failed, cut, mode>> /\ mode # "exited"
    BY <1>8 DEF Handle, fateVars
  <2>3. InFlight' = InFlight /\ Done' = Done
    BY <2>2 DEF InFlight, Done
  <2>4. 1..handled' = 1..handled \cup {handled'} /\ handled' \notin 1..handled
    BY <2>1 DEF Types
  <2> QED
    BY <1>1, <1>3, <1>a, <2>1, <2>2, <2>3, <2>4 DEF Done
<1>9. CASE Tick \/ Pause \/ Resume \/ Connect \/ Disconnect
  BY <1>4, <1>9 DEF Tick, Pause, Resume, Connect, Disconnect, pushVars, fateVars
<1>10. CASE StartPush
  <2>1. TakesBuffer /\ handled' = handled /\ draining' = draining /\ mode # "exited"
    BY <1>10 DEF StartPush
  <2>2. CASE PushEndsAtOnce
    <3>1. sending' = sending
      BY <1>10, <2>2 DEF StartPush
    <3>2. InFlight' = InFlight
      BY <2>1, <3>1 DEF InFlight
    <3> QED
      BY <1>6, <2>1, <2>2, <3>2, Taken DEF Waiting
  <2>3. CASE ~PushEndsAtOnce
    <3>1. sending' = sending \cup {buffer}
      BY <1>10, <2>3 DEF StartPush
    <3>2. InFlight' = InFlight \cup Waiting
      BY <2>1, <3>1 DEF InFlight, Waiting
    <3> QED
      BY <1>5, <2>1, <2>3, <3>2, Taken DEF Waiting
  <2> QED
    BY <2>2, <2>3
<1>11. ASSUME NEW b \in sending, EndPush(b) PROVE AccountedFor'
  <2>1. b \in Seq(Record)
    BY DEF Types
  <2>2. /\ PushSucceeds(b) \/ PushFails(b)
        /\ sending' = sending \ {b} /\ draining' = draining
        /\ UNCHANGED <<handled, buffer, shed, cut>> /\ mode # "exited"
    BY <1>11 DEF EndPush
  <2>3. InFlight' = InFlight \ Range(b) /\ Range(b) \subseteq InFlight
    <3>1. Range(b) \subseteq InFlight
      BY DEF InFlight
    <3>2. InFlight \subseteq InFlight' \cup Range(b)
      BY <2>2 DEF InFlight
    <3>3. InFlight' \subseteq InFlight
      BY <2>2 DEF InFlight
    <3>4. InFlight' \cap Range(b) = {}
      <4> SUFFICES ASSUME NEW x \in InFlight', x \in Range(b) PROVE FALSE
        OBVIOUS
      <4>1. CASE x \in Range(draining)
        BY <4>1 DEF BatchesApart
      <4>2. CASE x \notin Range(draining)
        <5>1. PICK c \in sending \ {b} : x \in Range(c)
          BY <2>2, <4>2 DEF InFlight
        <5> QED
          BY <5>1 DEF BatchesApart
      <4> QED
        BY <4>1, <4>2
    <3> QED
      BY <3>1, <3>2, <3>3, <3>4
  <2> QED
    BY <1>7, <2>1, <2>2, <2>3, Replied
<1>12. CASE Stop \/ Closed
  <2>1. CASE UNCHANGED <<pushVars, fateVars>> /\ mode' = "closing"
    <3>1. mode # "exited" /\ UNCHANGED <<handled, buffer, sending, draining, redis, shed,
                                          failed, late, cut>>
      BY <1>12, <2>1, DrainSteps DEF pushVars, fateVars, Drains
    <3>2. LostAtStop' = LostAtStop
      BY <2>1, <3>1 DEF LostAtStop
    <3> QED
      BY <3>1, <3>2 DEF AccountedFor, InFlight
  <2>2. CASE DrainBuffer
    <3>1. TakesBuffer /\ handled' = handled /\ sending' = sending /\ mode # "exited"
      BY <1>12, <2>2, DrainSteps DEF DrainBuffer, Drains
    <3>2. draining = <<>>
      BY <1>12, DrainSteps DEF EmptyByMode, Drains
    <3>3. CASE PushEndsAtOnce
      <4>1. draining' = <<>>
        BY <2>2, <3>3 DEF DrainBuffer
      <4>2. InFlight' = InFlight
        BY <3>1, <3>2, <4>1 DEF InFlight
      <4> QED
        BY <1>6, <3>1, <3>3, <4>2, Taken DEF Waiting
    <3>4. CASE ~PushEndsAtOnce
      <4>1. draining' = buffer
        BY <2>2, <3>4 DEF DrainBuffer
      <4>2. InFlight' = InFlight \cup Waiting
        <5>1. InFlight' = Sent' \cup Range(draining') /\ Sent' = Sent
          BY <3>1 DEF InFlight, Sent
        <5> QED
          BY <1>2, <3>2, <4>1, <5>1, RangeOfEmpty DEF Waiting
      <4> QED
        BY <1>5, <3>1, <3>4, <4>2, Taken DEF Waiting
    <3> QED
      BY <3>3, <3>4
  <2> QED
    BY <1>12, <2>1, <2>2, DrainSteps
<1>13. CASE Drained
  <2>1. /\ PushSucceeds(draining) \/ PushFails(draining)
        /\ draining' = <<>> /\ sending' = sending
        /\ UNCHANGED <<handled, buffer, shed, cut>> /\ mode # "exited"
    BY <1>13 DEF Drained
  <2>2. InFlight' = InFlight \ Range(draining) /\ Range(draining) \subseteq InFlight
    <3>1. InFlight' = Sent
      BY <2>1, RangeOfEmpty DEF InFlight, Sent
    <3>2. Sent \cap Range(draining) = {}
      BY DEF Sent, BatchesApart
    <3> QED
      BY <1>2, <3>1, <3>2
  <2>3. draining \in Seq(Record)
    BY DEF Types
  <2> QED
    BY <1>7, <2>1, <2>2, <2>3, Replied
<1>14. CASE Exit
  <2>1. draining = <<>> /\ mode # "exited" /\ Waiting \subseteq late
    BY <1>14 DEF Exit, EmptyByMode, Drains, Waiting
  <2>2. /\ buffer' = <<>> /\ sending' = {} /\ draining' = draining /\ redis' \in Landings
        /\ cut' = Sent /\ mode' = "exited"
        /\ UNCHANGED <<handled, shed, failed, late>>
    BY <1>14 DEF Exit, Sent
  <2>3. Waiting' = {} /\ InFlight' = {} /\ InFlight = Sent
    BY <1>2, <2>1, <2>2, RangeOfEmpty DEF Waiting, InFlight
  <2>4. /\ Range(redis) \subseteq Range(redis')
        /\ Range(redis') \subseteq Range(redis) \cup Sent
    BY <2>2, Landed
  <2>5. LostAtStop' = Sent \cup late
    BY <2>2 DEF LostAtStop
  <2> HIDE DEF Places, Apart
  <2>6. Apart'
    <3> USE DEF Apart, Places, Done
    <3>1. /\ Waiting \cup Sent \cup Done \subseteq 1..handled
          /\ Sent \cap Done = {} /\ shed \cap (Range(redis) \cup failed) = {}
      BY <1>1, <2>3
    <3> QED
      BY <2>2, <2>3, <2>4, <3>1
  <2>7. 1..handled' \subseteq Places' \cup LostAtStop'
    <3> USE DEF Places, Done
    <3>1. 1..handled \subseteq Waiting \cup Sent \cup Done
      BY <1>1, <1>a, <2>1, <2>3
    <3> QED
      BY <2>1, <2>2, <2>3, <2>4, <2>5, <3>1
  <2> QED
    BY <1>3, <2>6, <2>7
<1> QED
  BY <1>8, <1>9, <1>10, <1>11, <1>12, <1>13, <1>14 DEF Next

-----------------------------------------------------------------------------
(* The order of arrival: until the drain there is one batch at most.       *)
LEMMA OneBatch == ASSUME Types, TasksCounted, ~Drains
                  PROVE  /\ created > 0 => sending = {}
                         /\ \A b \in sending : sending = {b}
<1>1. /\ IsFiniteSet(sending) /\ Cardinality(sending) \in Nat
      /\ created \in Nat /\ created + Cardinality(sending) <= 1
  BY FS_CardinalityType DEF TasksCounted, Types
<1>2. created > 0 => sending = {}
  BY <1>1, FS_EmptySet
<1>3. ASSUME NEW b \in sending PROVE sending = {b}
  <2>1. Cardinality(sending \ {b}) = Cardinality(sending) - 1 /\ IsFiniteSet(sending \ {b})
    BY <1>1, FS_RemoveElement
  <2>2. Cardinality(sending \ {b}) \in Nat
    BY <2>1, FS_CardinalityType
  <2>3. Cardinality(sending \ {b}) = 0
    BY <1>1, <2>1, <2>2
  <2>4. sending \ {b} = {}
    BY <2>1, <2>3, FS_EmptySet
  <2> QED
    BY <2>4
<1> QED
  BY <1>2, <1>3

LEMMA OrderKeep ==
  ASSUME Types, TasksCounted, AccountedFor, InOrder, Next PROVE InOrder'
<1> SUFFICES ASSUME ~Drains' PROVE InOrder'
  BY DEF InOrder
<1>1. ~Drains
  BY DEF Next, Drains, Handle, Tick, Pause, Resume, StartPush, EndPush, Connect, Disconnect,
     Stop, Closed, DrainBuffer, Drained, Exit
<1>2. /\ Rising(redis) /\ Rising(buffer) /\ Before(Range(redis), Range(buffer))
      /\ \A b \in sending : /\ Rising(b)
                            /\ Before(Range(redis), Range(b))
                            /\ Before(Range(b), Range(buffer))
  BY <1>1 DEF InOrder
<1>3. ASSUME UNCHANGED <<redis, buffer, sending>> PROVE InOrder'
  BY <1>2, <1>3 DEF InOrder
<1>4. CASE Handle
  <2>1. /\ handled' = handled + 1 /\ handled' \in Record
        /\ buffer' = Append(buffer, handled') /\ UNCHANGED <<redis, sending>>
    BY <1>4, IngestAssumption DEF Handle, Types, Record, fateVars
  <2>2. Range(buffer) \cup InFlight \cup Done \subseteq 1..handled
    BY DEF AccountedFor, Done
  <2>3. /\ \A x \in Range(buffer) : x < handled'
        /\ \A x \in Range(redis) : x < handled'
        /\ \A b \in sending : \A x \in Range(b) : x < handled'
    <3>1. \A x \in 1..handled : x < handled'
      BY <2>1 DEF Types
    <3>2. Range(buffer) \subseteq 1..handled /\ Range(redis) \subseteq 1..handled
      BY <2>2 DEF Done
    <3>3. \A b \in sending : Range(b) \subseteq 1..handled
      BY <2>2 DEF InFlight
    <3> QED
      BY <3>1, <3>2, <3>3
  <2>4. Range(buffer') = Range(buffer) \cup {handled'} /\ Rising(buffer')
    BY <1>2, <2>1, <2>3, AppendOne DEF Types
  <2> QED
    BY <1>2, <2>1, <2>3, <2>4 DEF InOrder, Before
<1>5. CASE Tick \/ Pause \/ Resume \/ Connect \/ Disconnect
  BY <1>3, <1>5 DEF Tick, Pause, Resume, Connect, Disconnect, pushVars, fateVars
<1>6. CASE StartPush
  <2>1. buffer' = <<>> /\ redis' = redis /\ sending' \subseteq {buffer}
    BY <1>1, <1>6, OneBatch DEF StartPush, TakesBuffer
  <2>2. Range(buffer') = {} /\ Rising(buffer')
    BY <2>1, RangeOfEmpty DEF Rising
  <2> QED
    BY <1>2, <2>1, <2>2 DEF InOrder, Before
<1>7. ASSUME NEW b \in sending, EndPush(b) PROVE InOrder'
  <2>1. sending' = {} /\ buffer' = buffer /\ redis' \in {redis, redis \o b}
    BY <1>1, <1>7, OneBatch DEF EndPush, PushSucceeds, PushFails
  <2>2. b \in Seq(Record) /\ redis \in Seq(Record)
    BY DEF Types
  <2>3. Rising(redis \o b) /\ Range(redis \o b) = Range(redis) \cup Range(b)
    BY <1>2, <2>2, RisingJoin, Join
  <2>4. Rising(redis') /\ Before(Range(redis'), Range(buffer))
    BY <1>2, <2>1, <2>3 DEF Before
  <2> QED
    BY <1>2, <2>1, <2>4 DEF InOrder
<1>8. CASE Stop \/ Closed
  BY <1>3, <1>8, DrainSteps DEF DrainBuffer, Drains, pushVars, fateVars
<1>9. CASE Drained \/ Exit
  BY <1>1, <1>9 DEF Drained, Exit, Drains
<1> QED
  BY <1>4, <1>5, <1>6, <1>7, <1>8, <1>9 DEF Next

-----------------------------------------------------------------------------
(* The invariant is inductive.                                             *)
THEOREM Invariant == Spec => []IInv
<1>1. Init => IInv
  <2> SUFFICES ASSUME Init PROVE IInv
    OBVIOUS
  <2>1. Types
    <3>1. handled \in 0..NumRecords /\ created \in Nat
      BY IngestAssumption DEF Init
    <3>2. buffer \in Seq(Record) /\ redis \in Seq(Record) /\ draining \in Seq(Record)
      BY EmptySeq DEF Init
    <3>3. pushing \in BOOLEAN /\ paused \in BOOLEAN /\ connected \in BOOLEAN
      BY DEF Init
    <3> QED
      BY <3>1, <3>2, <3>3 DEF Init, Types
  <2>2. TasksCounted
    BY FS_EmptySet DEF Init, TasksCounted, Drains
  <2>3. EmptyByMode /\ BatchesApart
    BY DEF Init, EmptyByMode, BatchesApart, Drains
  <2>4. AccountedFor
    <3>1. Range(buffer) = {} /\ Range(redis) = {} /\ InFlight = {}
      BY RangeOfEmpty DEF Init, InFlight
    <3>2. 1..handled = {}
      BY DEF Init
    <3> QED
      BY <3>1, <3>2 DEF Init, AccountedFor
  <2>5. InOrder
    <3>1. Rising(redis) /\ Rising(buffer) /\ Range(redis) = {}
      BY RangeOfEmpty DEF Init, Rising
    <3> QED
      BY <3>1 DEF Init, InOrder, Before
  <2> QED
    BY <2>1, <2>2, <2>3, <2>4, <2>5 DEF IInv
<1>2. IInv /\ [Next]_vars => IInv'
  <2> SUFFICES ASSUME IInv, [Next]_vars PROVE IInv'
    OBVIOUS
  <2>1. CASE Next
    BY <2>1, TypesKeep, TasksKeep, EmptyKeep, ApartKeep, AccountedKeep, OrderKeep DEF IInv
  <2>2. CASE UNCHANGED vars
    BY <2>2 DEF vars, IInv, Types, TasksCounted, EmptyByMode, BatchesApart, AccountedFor,
       InOrder, Drains, InFlight, LostAtStop
  <2> QED
    BY <2>1, <2>2
<1> QED
  BY <1>1, <1>2, PTL DEF Spec

(* The variables of the receiver keep their ranges, and never more than    *)
(* two push tasks wait to start.                                           *)
THEOREM TypeCorrect == Spec => []TypeOK
<1>1. IInv => TypeOK
  <2> SUFFICES ASSUME IInv PROVE TypeOK
    OBVIOUS
  <2>1. Cardinality(sending) \in Nat
    BY FS_CardinalityType DEF IInv, TasksCounted
  <2>2. created \in 0..2
    BY <2>1 DEF IInv, TasksCounted, Types
  <2> QED
    BY <2>2 DEF IInv, Types, TypeOK
<1> QED
  BY <1>1, Invariant, PTL

(* While the receiver runs, every accepted record is in the buffer, in one *)
(* batch, in Redis or in one drop counter; when it has ended, what is in   *)
(* none of them was in a batch whose RPUSH had no reply at the end, or was *)
(* read after the drain had taken the buffer.                              *)
THEOREM AllAccountedFor == Spec => []AccountedFor
<1>1. IInv => AccountedFor
  BY DEF IInv
<1> QED
  BY <1>1, Invariant, PTL

(* One push at a time, and _pushing says whether there is one, until the   *)
(* drain.                                                                  *)
THEOREM OnePushAtATime == Spec => []OnePush
<1>1. IInv => OnePush
  BY DEF IInv, TasksCounted, OnePush, Drains
<1> QED
  BY <1>1, Invariant, PTL

(* What is in Redis is in the order of arrival, until the drain.           *)
THEOREM InOrderOfArrival == Spec => []ArrivalOrder
<1>1. IInv => ArrivalOrder
  BY DEF IInv, InOrder, Rising, ArrivalOrder, Drains
<1> QED
  BY <1>1, Invariant, PTL

(* Under asyncio's own loop nothing is in the buffer after the drain.      *)
THEOREM DrainLeavesNothing == Spec => []BufferDrained
<1>1. IInv => BufferDrained
  BY DEF IInv, EmptyByMode, BufferDrained
<1> QED
  BY <1>1, Invariant, PTL


-----------------------------------------------------------------------------
(* The receiver in the pipeline. *)

LEMMA StepsOfReceiver == [PipelineNext]_allVars => [Next]_vars
BY DEF PipelineNext, ReceiverStep, WorkerStep, Pushes, Serves, FlusherTick, Measure, HeedDepth,
   StopFlusher, Next, allVars

(* The receiver in the pipeline behaves as Ingest says: the queue and the  *)
(* workers restrict it, by their depth, and do nothing it could not        *)
(* (receiver.py:182-206).                                                  *)
THEOREM ReceiverInPipeline == PipelineSpec => Spec
<1>1. PipelineInit => Init
  BY DEF PipelineInit
<1> QED
  BY <1>1, StepsOfReceiver, PTL DEF PipelineSpec, Spec

-----------------------------------------------------------------------------
(* The inductive invariant. *)

QueueTypes == /\ queue \in Seq(Nat)
              /\ inflight \in [Worker -> Seq(Nat)]
              /\ batch \in [Worker -> Seq(Nat)]
              /\ pc \in [Worker -> {"down", "recover", "loop", "retry", "inserting", "ack"}]

(* What is in a worker's list is in its hands, or its claim's reply was    *)
(* lost; what it is about to delete is stored.                             *)
InHand(v) == /\ pc[v] = "loop" => Range(inflight[v]) \subseteq unanswered
             /\ pc[v] \in {"retry", "inserting", "ack"} =>
                  Range(inflight[v]) \subseteq Range(batch[v]) \cup unanswered
             /\ pc[v] = "ack" => Range(batch[v]) \subseteq stored

Whereabouts == W!Held \cup stored \cup unanswered

Kept == /\ 1..Len(redis) \subseteq Whereabouts
        /\ \A v \in Worker : InHand(v)

(* The lists rise, the claimed records below the waiting ones.             *)
Backlog == /\ W!Held \subseteq 1..Len(redis)
           /\ Rising(queue)
           /\ \A v \in Worker : /\ Rising(inflight[v])
                                /\ Before(Range(inflight[v]), Range(queue))

-----------------------------------------------------------------------------
(* Lemmas about the lists. *)

(* What a claim takes and what it leaves.                                  *)
LEMMA Split ==
  ASSUME NEW q \in Seq(Nat), NEW n \in Nat
  PROVE  /\ W!FirstN(q, n) \in Seq(Nat) /\ W!AfterN(q, n) \in Seq(Nat)
         /\ Range(q) = Range(W!FirstN(q, n)) \cup Range(W!AfterN(q, n))
         /\ Rising(q) => /\ Rising(W!FirstN(q, n)) /\ Rising(W!AfterN(q, n))
                         /\ Before(Range(W!FirstN(q, n)), Range(W!AfterN(q, n)))
<1> DEFINE m == W!Least(n, Len(q))
           first == W!FirstN(q, n)
           after == W!AfterN(q, n)
<1>1. m \in 0..Len(q) /\ Len(q) \in Nat /\ DOMAIN q = 1..Len(q)
  BY LenProperties DEF W!Least
<1>2. first = [i \in 1..m |-> q[i]] /\ first \in Seq(Nat)
  BY <1>1, SMT DEF W!FirstN
<1>3. after = [i \in 1..(Len(q) - m) |-> q[m + i]] /\ after \in Seq(Nat)
  <2>1. after = SubSeq(q, m + 1, Len(q))
    BY DEF W!AfterN
  <2> HIDE DEF m, after
  <2> QED
    BY <1>1, <2>1, SMT
<1>4. Range(first) = {q[i] : i \in 1..m}
  BY <1>2, <1>1, Zenon DEF Range
<1>5. Range(after) = {q[m + i] : i \in 1..(Len(q) - m)}
  BY <1>3, <1>1, Zenon DEF Range
<1>6. \A i \in 1..m : i \in DOMAIN q
  BY <1>1
<1>7. \A i \in 1..(Len(q) - m) : m + i \in DOMAIN q
  BY <1>1
<1>8. \A i \in DOMAIN q : i \in 1..m \/ \E j \in 1..(Len(q) - m) : i = m + j
  <2>1. ASSUME NEW i \in DOMAIN q, i \notin 1..m
        PROVE  i - m \in 1..(Len(q) - m) /\ i = m + (i - m)
    BY <1>1, <2>1
  <2> QED
    BY <2>1
<1>9. Rising(q) => Rising(first)
  <2>1. \A i, j \in 1..m : i < j => i \in DOMAIN q /\ j \in DOMAIN q /\ i < j
    BY <1>1
  <2> HIDE DEF m, first
  <2> QED
    BY <1>2, <2>1 DEF Rising
<1>10. Rising(q) => Rising(after)
  <2>1. \A i, j \in 1..(Len(q) - m) : i < j => m + i < m + j
    BY <1>1
  <2> HIDE DEF m, after
  <2> QED
    BY <1>3, <1>7, <2>1 DEF Rising
<1>11. Rising(q) => Before(Range(first), Range(after))
  <2>1. \A i \in 1..m, j \in 1..(Len(q) - m) : i < m + j
    BY <1>1
  <2> HIDE DEF m, first, after
  <2> QED
    BY <1>4, <1>5, <1>6, <1>7, <2>1 DEF Rising, Before
<1>12. Range(q) = Range(first) \cup Range(after)
  <2>1. Range(q) = {q[i] : i \in DOMAIN q}
    BY DEF Range
  <2> HIDE DEF m, first, after
  <2> QED
    BY <1>4, <1>5, <1>6, <1>7, <1>8, <2>1, Zenon
<1> QED
  BY <1>2, <1>3, <1>9, <1>10, <1>11, <1>12

LEMMA HeldMembers ==
  /\ \A r : r \in W!Held <=> r \in Range(queue) \/ \E v \in Worker : r \in Range(inflight[v])
  /\ \A r : r \in W!Held' <=> r \in Range(queue') \/ \E v \in Worker : r \in Range(inflight'[v])
BY DEF W!Held, W!InFlight, W!Range, Range

(* What an RPUSH of the receiver adds to the queue.                        *)
LEMMA AppendedNumbers ==
  ASSUME QueueTypes, Types, Types', Appended
  PROVE  \E new \in Seq(Nat) :
           /\ queue' = queue \o new
           /\ Range(new) = {k \in 1..Len(redis') : k > Len(redis)}
           /\ Rising(new)
<1> DEFINE n == Len(redis') - Len(redis)
           new == [i \in 1..n |-> Len(redis) + i]
<1>1. Len(redis) \in Nat /\ Len(redis') \in Nat
  BY LenProperties DEF Types
<1>2. new \in Seq(Nat) /\ DOMAIN new = 1..n
  <2>1. CASE n \in Nat
    <3>1. \A i \in 1..n : Len(redis) + i \in Nat
      BY <1>1
    <3> QED
      BY <2>1, <3>1, IsASeq
  <2>2. CASE n \notin Nat
    <3>1. 1..n = {} /\ 1..n = 1..0
      BY <1>1, <2>2
    <3>2. \A i \in 1..0 : Len(redis) + i \in Nat
      OBVIOUS
    <3>3. [i \in 1..0 |-> Len(redis) + i] \in Seq(Nat)
      BY <3>2, IsASeq
    <3> QED
      BY <3>1, <3>3
  <2> QED
    BY <2>1, <2>2
<1>3. Range(new) = {k \in 1..Len(redis') : k > Len(redis)}
  <2>1. Range(new) = {Len(redis) + i : i \in 1..n}
    BY DEF Range
  <2>2. \A i \in 1..n : Len(redis) + i \in 1..Len(redis') /\ Len(redis) + i > Len(redis)
    BY <1>1
  <2>3. \A k \in 1..Len(redis') : k > Len(redis) =>
          k - Len(redis) \in 1..n /\ k = Len(redis) + (k - Len(redis))
    BY <1>1
  <2> QED
    BY <2>1, <2>2, <2>3
<1>4. Rising(new)
  BY <1>1, <1>2 DEF Rising
<1>5. queue' = queue \o new
  BY DEF Appended
<1> QED
  BY <1>2, <1>3, <1>4, <1>5

-----------------------------------------------------------------------------
(* What the steps do to the lists. *)

(* A worker's list goes back to the queue. *)
LEMMA Released ==
  ASSUME QueueTypes, NEW w \in Worker, W!Release(w)
  PROVE  /\ queue' \in Seq(Nat) /\ inflight' \in [Worker -> Seq(Nat)]
         /\ queue' = inflight[w] \o queue /\ inflight'[w] = <<>>
         /\ Range(queue') = Range(inflight[w]) \cup Range(queue)
         /\ \A v \in Worker : v # w => inflight'[v] = inflight[v]
         /\ W!Held' = W!Held
<1>1. queue' = inflight[w] \o queue /\ inflight' = [inflight EXCEPT ![w] = <<>>]
  BY DEF W!Release, W!Requeue
<1>2. inflight[w] \in Seq(Nat) /\ queue \in Seq(Nat) /\ <<>> \in Seq(Nat)
  BY DEF QueueTypes
<1>3. /\ inflight' \in [Worker -> Seq(Nat)] /\ inflight'[w] = <<>>
      /\ \A v \in Worker : v # w => inflight'[v] = inflight[v]
  BY <1>1, <1>2 DEF QueueTypes
<1>4. queue' \in Seq(Nat) /\ Range(queue') = Range(inflight[w]) \cup Range(queue)
  BY <1>1, <1>2, Join
<1>5. W!Held' = W!Held
  <2>1. Range(inflight'[w]) = {}
    BY <1>3, RangeOfEmpty
  <2> QED
    BY <1>3, <1>4, <2>1, HeldMembers, Zenon
<1> QED
  BY <1>1, <1>3, <1>4, <1>5

(* The claim script. *)
LEMMA Claimed ==
  ASSUME QueueTypes, NEW w \in Worker, W!ClaimScript(w)
  PROVE  \E items, rest \in Seq(Nat) :
           /\ items = W!FirstN(queue, BatchSize) /\ queue' = rest
           /\ Range(queue) = Range(items) \cup Range(rest)
           /\ Rising(queue) => /\ Rising(items) /\ Rising(rest)
                               /\ Before(Range(items), Range(rest))
           /\ inflight' \in [Worker -> Seq(Nat)]
           /\ inflight'[w] = inflight[w] \o items
           /\ Range(inflight'[w]) = Range(inflight[w]) \cup Range(items)
           /\ \A v \in Worker : v # w => inflight'[v] = inflight[v]
           /\ W!Held' = W!Held
<1> DEFINE items == W!FirstN(queue, BatchSize)
           rest == W!AfterN(queue, BatchSize)
<1>1. /\ items \in Seq(Nat) /\ rest \in Seq(Nat)
      /\ Range(queue) = Range(items) \cup Range(rest)
      /\ Rising(queue) => /\ Rising(items) /\ Rising(rest)
                          /\ Before(Range(items), Range(rest))
  <2>1. BatchSize \in Nat /\ queue \in Seq(Nat)
    BY PipelineAssumption DEF QueueTypes
  <2> QED
    BY <2>1, Split
<1>2. queue' = rest /\ inflight' = [inflight EXCEPT ![w] = @ \o items]
  BY DEF W!ClaimScript
<1> HIDE DEF items, rest
<1>3. /\ inflight[w] \o items \in Seq(Nat)
      /\ Range(inflight[w] \o items) = Range(inflight[w]) \cup Range(items)
  BY <1>1, Join DEF QueueTypes
<1>4. /\ inflight' \in [Worker -> Seq(Nat)] /\ inflight'[w] = inflight[w] \o items
      /\ \A v \in Worker : v # w => inflight'[v] = inflight[v]
  BY <1>2, <1>3 DEF QueueTypes
<1>5. W!Held' = W!Held
  BY <1>1, <1>2, <1>3, <1>4, HeldMembers, Zenon
<1> QED
  BY <1>1, <1>2, <1>3, <1>4, <1>5 DEF items

(* A worker's list is deleted. *)
LEMMA Deleted ==
  ASSUME QueueTypes, NEW w \in Worker, inflight' = [inflight EXCEPT ![w] = <<>>],
         queue' = queue
  PROVE  /\ inflight' \in [Worker -> Seq(Nat)] /\ inflight'[w] = <<>>
         /\ \A v \in Worker : v # w => inflight'[v] = inflight[v]
         /\ W!Held' \subseteq W!Held
         /\ W!Held \subseteq W!Held' \cup Range(inflight[w])
<1>1. /\ inflight' \in [Worker -> Seq(Nat)] /\ inflight'[w] = <<>>
      /\ \A v \in Worker : v # w => inflight'[v] = inflight[v]
  BY DEF QueueTypes
<1>2. Range(inflight'[w]) = {}
  BY <1>1, RangeOfEmpty
<1> QED
  BY <1>1, <1>2, HeldMembers, Zenon

(* The receiver pushes. *)
LEMMA Pushed ==
  ASSUME QueueTypes, Types, Types', Appended
  PROVE  /\ queue' \in Seq(Nat)
         /\ W!Held \subseteq W!Held'
         /\ 1..Len(redis') \subseteq 1..Len(redis) \cup W!Held'
<1>1. PICK new \in Seq(Nat) : /\ queue' = queue \o new
                              /\ Range(new) = {k \in 1..Len(redis') : k > Len(redis)}
  BY AppendedNumbers
<1>2. queue' \in Seq(Nat) /\ Range(queue') = Range(queue) \cup Range(new)
  BY <1>1, Join DEF QueueTypes
<1>3. inflight' = inflight
  BY DEF Appended, claimVars
<1>4. Len(redis) \in Nat /\ Len(redis') \in Nat
  BY LenProperties DEF Types
<1>5. \A k \in 1..Len(redis') : k \in 1..Len(redis) \/ k \in Range(queue')
  BY <1>1, <1>2, <1>4
<1> QED
  BY <1>2, <1>3, <1>5, HeldMembers

(* Which step of a worker does what to the lists. *)
LEMMA ListSteps ==
  ASSUME NEW w \in Worker, WorkerStep(w)
  PROVE  \/ W!Release(w)
         \/ W!ClaimScript(w)
         \/ pc[w] = "ack" /\ queue' = queue /\ inflight' = [inflight EXCEPT ![w] = <<>>]
         \/ UNCHANGED <<queue, inflight>>
BY DEF WorkerStep, W!WorkerStep, W!AnsweredStep, W!Start, W!Recover, W!RecoverFail, W!Signal, W!Claim,
   W!ClaimReplyLost, W!BeginInsert, W!InsertOk, W!InsertFail, W!Ack, W!AckFail, W!HandBack,
   W!HandBackFail, W!Shutdown, W!Kill, W!redisVars

LEMMA QueueTypesKeep ==
  ASSUME QueueTypes, Types, Types', [PipelineNext]_allVars PROVE QueueTypes'
<1>1. ASSUME NEW w \in Worker, WorkerStep(w) PROVE QueueTypes'
  <2>1. queue' \in Seq(Nat) /\ inflight' \in [Worker -> Seq(Nat)]
    BY <1>1, ListSteps, Released, Claimed, Deleted DEF QueueTypes
  <2>2. W!FirstN(queue, BatchSize) \in Seq(Nat) /\ <<>> \in Seq(Nat)
    BY PipelineAssumption, Split DEF QueueTypes
  <2>3. /\ pc' \in [Worker -> {"down", "recover", "loop", "retry", "inserting", "ack"}]
        /\ batch' \in [Worker -> Seq(Nat)]
    BY <1>1, <2>2 DEF QueueTypes, WorkerStep, W!WorkerStep, W!AnsweredStep, W!Start,
         W!Recover, W!RecoverFail,
       W!Signal, W!Claim, W!ClaimReplyLost, W!BeginInsert, W!InsertOk, W!InsertFail, W!Ack,
       W!AckFail, W!HandBack, W!HandBackFail, W!Shutdown, W!Kill, W!Goto, W!GoesDown,
       W!workerVars
  <2> QED
    BY <2>1, <2>3 DEF QueueTypes
<1>2. CASE ReceiverStep
  BY <1>2, Pushed DEF ReceiverStep, Appended, claimVars, QueueTypes
<1>3. CASE UNCHANGED allVars
  BY <1>3 DEF allVars, workerVars, claimVars, QueueTypes
<1> QED
  BY <1>1, <1>2, <1>3 DEF PipelineNext

-----------------------------------------------------------------------------
(* Nothing is gone but with a lost claim reply. *)

LEMMA Others ==
  ASSUME QueueTypes, NEW w \in Worker, WorkerStep(w)
  PROVE  /\ redis' = redis
         /\ stored \subseteq stored' /\ unanswered \subseteq unanswered'
         /\ \A v \in Worker : v # w => /\ pc'[v] = pc[v] /\ batch'[v] = batch[v]
                                       /\ inflight'[v] = inflight[v]
<1>1. ASSUME W!Kill(w) PROVE stored \subseteq stored'
  BY <1>1 DEF W!Kill, W!Stores, W!tableVars
<1>2. stored \subseteq stored'
  BY <1>1 DEF WorkerStep, W!WorkerStep, W!AnsweredStep, W!Start, W!Recover,
       W!RecoverFail, W!Signal, W!Claim,
     W!ClaimReplyLost, W!BeginInsert, W!InsertOk, W!InsertFail, W!Ack, W!AckFail, W!HandBack,
     W!HandBackFail, W!Shutdown, W!Stores, W!tableVars
<1>3. \A v \in Worker : v # w => pc'[v] = pc[v] /\ batch'[v] = batch[v]
  BY DEF QueueTypes, WorkerStep, W!WorkerStep, W!AnsweredStep, W!Start, W!Recover,
       W!RecoverFail, W!Signal,
     W!Claim, W!ClaimReplyLost, W!BeginInsert, W!InsertOk, W!InsertFail, W!Ack, W!AckFail,
     W!HandBack, W!HandBackFail, W!Shutdown, W!Kill, W!Goto, W!GoesDown, W!workerVars
<1>4. \A v \in Worker : v # w => inflight'[v] = inflight[v]
  BY ListSteps, Released, Claimed, Deleted
<1>5. redis' = redis /\ unanswered \subseteq unanswered'
  BY DEF WorkerStep, vars
<1> QED
  BY <1>2, <1>3, <1>4, <1>5

(* Every payload of the pipeline can be decoded. *)
LEMMA RowsAreRange == \A items : W!Rows(items) = Range(items)
BY DEF W!Rows, W!Range, Range

(* The worker's own list, hands and rows after a step of it. *)
LEMMA HandsKeep ==
  ASSUME QueueTypes, Kept, NEW w \in Worker, WorkerStep(w) PROVE InHand(w)'
<1>1. InHand(w)
  BY DEF Kept
<1>2. stored \subseteq stored' /\ unanswered \subseteq unanswered'
  BY Others
<1>3. CASE pc'[w] \in {"down", "recover"}
  BY <1>3 DEF InHand
<1>4. CASE W!Recover(w) \/ W!HandBack(w)
  <2>1. inflight'[w] = <<>> /\ pc'[w] = "loop"
    BY <1>4, Released DEF W!Recover, W!HandBack, W!Goto, QueueTypes
  <2> QED
    BY <2>1, RangeOfEmpty DEF InHand
<1>5. CASE W!Signal(w)
  BY <1>1, <1>2, <1>5 DEF W!Signal, W!redisVars, InHand
<1>6. CASE W!Claim(w)
  <2>1. /\ batch'[w] = W!FirstN(queue, BatchSize) /\ pc[w] = "loop" /\ W!ClaimScript(w)
        /\ pc'[w] = IF W!Rows(W!FirstN(queue, BatchSize)) = {} THEN "ack" ELSE "retry"
    BY <1>6 DEF W!Claim, QueueTypes
  <2>2. Range(inflight'[w]) = Range(inflight[w]) \cup Range(batch'[w])
    BY <2>1, Claimed
  <2>3. pc'[w] = "ack" => Range(batch'[w]) = {}
    BY <2>1, RowsAreRange
  <2>4. Range(inflight[w]) \subseteq unanswered'
    BY <1>1, <1>2, <2>1 DEF InHand
  <2>5. pc'[w] # "loop"
    BY <2>1
  <2> QED
    BY <2>2, <2>3, <2>4, <2>5 DEF InHand
<1>7. CASE W!ClaimReplyLost(w)
  <2>1. pc[w] = "loop" /\ pc'[w] = "loop"
    BY <1>7 DEF W!ClaimReplyLost, W!workerVars
  <2> QED
    BY <2>1 DEF InHand, WorkerStep
<1>8. CASE W!BeginInsert(w) \/ W!InsertFail(w)
  <2>1. /\ batch'[w] = batch[w] /\ inflight' = inflight
        /\ pc[w] \in {"retry", "inserting"} /\ pc'[w] \in {"retry", "inserting"}
    BY <1>8 DEF W!BeginInsert, W!InsertFail, W!Goto, W!redisVars, QueueTypes
  <2> QED
    BY <1>1, <1>2, <2>1 DEF InHand
<1>9. CASE W!InsertOk(w)
  <2>1. /\ batch'[w] = batch[w] /\ inflight' = inflight
        /\ pc[w] = "inserting" /\ pc'[w] = "ack"
        /\ stored' = stored \cup W!Rows(batch[w])
    BY <1>9 DEF W!InsertOk, W!Stores, W!Goto, W!redisVars, QueueTypes
  <2> QED
    BY <1>1, <1>2, <2>1, RowsAreRange DEF InHand
<1>10. CASE W!Ack(w)
  <2>1. inflight'[w] = <<>> /\ pc'[w] = "loop"
    BY <1>10 DEF W!Ack, QueueTypes
  <2> QED
    BY <2>1, RangeOfEmpty DEF InHand
<1>11. CASE W!Start(w) \/ W!RecoverFail(w) \/ W!AckFail(w) \/ W!HandBackFail(w)
              \/ W!Shutdown(w) \/ W!Kill(w)
  <2>1. pc'[w] \in {"down", "recover"}
    BY <1>11 DEF W!Start, W!RecoverFail, W!AckFail, W!HandBackFail, W!Shutdown, W!Kill,
       W!Goto, W!GoesDown, QueueTypes
  <2> QED
    BY <1>3, <2>1
<1> QED
  BY <1>4, <1>5, <1>6, <1>7, <1>8, <1>9, <1>10, <1>11 DEF WorkerStep, W!WorkerStep,
       W!AnsweredStep

LEMMA KeptKeeps ==
  ASSUME QueueTypes, Types, Types', Kept, [PipelineNext]_allVars PROVE Kept'
<1>1. ASSUME NEW w \in Worker, WorkerStep(w) PROVE Kept'
  <2>1. W!Held \subseteq Whereabouts'
    <3>1. CASE W!Release(w) \/ W!ClaimScript(w)
      BY <3>1, Released, Claimed DEF Whereabouts
    <3>2. CASE pc[w] = "ack" /\ queue' = queue /\ inflight' = [inflight EXCEPT ![w] = <<>>]
      <4>1. Range(inflight[w]) \subseteq stored \cup unanswered
        BY <3>2 DEF Kept, InHand
      <4> QED
        BY <1>1, <3>2, <4>1, Deleted, Others DEF Whereabouts
    <3>3. CASE UNCHANGED <<queue, inflight>>
      BY <3>3 DEF Whereabouts, W!Held, W!InFlight
    <3> QED
      BY <1>1, <3>1, <3>2, <3>3, ListSteps
  <2>2. Whereabouts \subseteq Whereabouts'
    BY <1>1, <2>1, Others DEF Whereabouts
  <2>3. ASSUME NEW v \in Worker, v # w PROVE InHand(v)'
    <3>1. InHand(v)
      BY DEF Kept
    <3> QED
      BY <1>1, <2>3, <3>1, Others DEF InHand
  <2> QED
    BY <1>1, <2>2, <2>3, HandsKeep, Others DEF Kept
<1>2. CASE ReceiverStep
  <2>1. /\ W!Held \subseteq W!Held' /\ 1..Len(redis') \subseteq 1..Len(redis) \cup W!Held'
        /\ UNCHANGED claimVars
    BY <1>2, Pushed DEF ReceiverStep, Appended
  <2> QED
    BY <2>1 DEF Kept, InHand, Whereabouts, claimVars
<1>3. CASE UNCHANGED allVars
  BY <1>3 DEF allVars, vars, workerVars, claimVars, Kept, InHand, Whereabouts, W!Held,
       W!InFlight
<1> QED
  BY <1>1, <1>2, <1>3 DEF PipelineNext

-----------------------------------------------------------------------------
(* The order of the backlog. *)

LEMMA EmptyRises == Rising(<<>>) /\ \A S : Before(Range(<<>>), S)
BY RangeOfEmpty DEF Rising, Before

LEMMA BacklogKeeps ==
  ASSUME QueueTypes, Types, Types', Len(redis) <= Len(redis'), Backlog, [PipelineNext]_allVars,
         \A v, w \in Worker : v = w
  PROVE  Backlog'
<1>1. Len(redis) \in Nat /\ Len(redis') \in Nat
  BY LenProperties DEF Types
<1>2. ASSUME NEW w \in Worker, WorkerStep(w) PROVE Backlog'
  <2>1. redis' = redis /\ \A v \in Worker : v = w
    BY <1>2, Others
  <2>2. inflight[w] \in Seq(Nat) /\ queue \in Seq(Nat)
    BY DEF QueueTypes
  <2>3. /\ Rising(inflight[w]) /\ Rising(queue)
        /\ Before(Range(inflight[w]), Range(queue))
    BY DEF Backlog
  <2>4. W!Held' \subseteq W!Held
    BY <1>2, ListSteps, Released, Claimed, Deleted DEF W!Held, W!InFlight
  <2>5. CASE W!Release(w)
    <3>1. queue' = inflight[w] \o queue /\ inflight'[w] = <<>>
      BY <2>5, Released
    <3>2. Rising(queue')
      BY <2>2, <2>3, <3>1, RisingJoin
    <3> QED
      BY <2>1, <2>4, <3>1, <3>2, EmptyRises DEF Backlog
  <2>6. CASE W!ClaimScript(w)
    <3>1. PICK items, rest \in Seq(Nat) :
            /\ queue' = rest /\ Range(queue) = Range(items) \cup Range(rest)
            /\ Rising(items) /\ Rising(rest) /\ Before(Range(items), Range(rest))
            /\ inflight'[w] = inflight[w] \o items
            /\ Range(inflight'[w]) = Range(inflight[w]) \cup Range(items)
      BY <2>3, <2>6, Claimed
    <3>2. Before(Range(inflight[w]), Range(items)) /\ Before(Range(inflight[w]), Range(rest))
      BY <2>3, <3>1 DEF Before
    <3>3. Rising(inflight'[w])
      BY <2>2, <2>3, <3>1, <3>2, RisingJoin
    <3>4. Before(Range(inflight'[w]), Range(queue'))
      BY <3>1, <3>2 DEF Before
    <3> QED
      BY <2>1, <2>4, <3>1, <3>3, <3>4 DEF Backlog
  <2>7. CASE queue' = queue /\ inflight' = [inflight EXCEPT ![w] = <<>>]
    <3>1. inflight'[w] = <<>>
      BY <2>7, Deleted
    <3> QED
      BY <2>1, <2>3, <2>4, <2>7, <3>1, EmptyRises DEF Backlog
  <2>8. CASE UNCHANGED <<queue, inflight>>
    BY <2>1, <2>4, <2>8 DEF Backlog
  <2> QED
    BY <1>2, <2>5, <2>6, <2>7, <2>8, ListSteps
<1>3. CASE ReceiverStep
  <2>1. PICK new \in Seq(Nat) : /\ queue' = queue \o new
                                /\ Range(new) = {k \in 1..Len(redis') : k > Len(redis)}
                                /\ Rising(new)
    BY <1>3, AppendedNumbers DEF ReceiverStep
  <2>2. queue \in Seq(Nat) /\ inflight' = inflight
    BY <1>3 DEF QueueTypes, ReceiverStep, Appended, claimVars
  <2>3. Range(queue') = Range(queue) \cup Range(new)
    BY <2>1, <2>2, Join
  <2>4. W!Held' \subseteq W!Held \cup Range(new)
    BY <2>2, <2>3, HeldMembers
  <2>5. W!Held' \subseteq 1..Len(redis')
    BY <1>1, <2>1, <2>4 DEF Backlog
  <2>6. \A x \in W!Held, y \in Range(new) : x < y
    BY <1>1, <2>1 DEF Backlog
  <2>7. /\ Range(queue) \subseteq W!Held
        /\ \A v \in Worker : Range(inflight[v]) \subseteq W!Held
    BY HeldMembers
  <2>8. Rising(queue')
    <3>1. Before(Range(queue), Range(new))
      BY <2>6, <2>7 DEF Before
    <3> QED
      BY <2>1, <2>2, <3>1, RisingJoin DEF Backlog
  <2>9. \A v \in Worker : Before(Range(inflight'[v]), Range(queue'))
    BY <2>2, <2>3, <2>6, <2>7 DEF Backlog, Before
  <2> QED
    BY <2>2, <2>5, <2>8, <2>9 DEF Backlog
<1>4. CASE UNCHANGED allVars
  BY <1>4 DEF allVars, vars, workerVars, claimVars, Backlog, W!Held, W!InFlight
<1> QED
  BY <1>2, <1>3, <1>4 DEF PipelineNext

(* Nothing leaves what the receiver pushed.                                *)
LEMMA RedisGrows ==
  ASSUME Types, [PipelineNext]_allVars PROVE Len(redis) <= Len(redis')
<1>1. redis \in Seq(Record) /\ draining \in Seq(Record) /\ \A b \in sending : b \in Seq(Record)
  BY DEF Types
<1>2. \A b \in Seq(Record) : Len(redis) <= Len(redis \o b)
  BY <1>1, ConcatProperties, LenProperties
<1>3. Len(redis) <= Len(redis)
  BY <1>1, LenProperties
<1>4. redis' = redis \/ \E b \in Seq(Record) : redis' = redis \o b
  <2>1. CASE Next
    <3>1. CASE Exit
      BY <3>1, Landed DEF Exit
    <3> QED
      BY <1>1, <2>1, <3>1 DEF Next, Handle, Tick, Pause, Resume, StartPush, EndPush, Connect,
         Disconnect, Stop, Closed, Drained, DrainBuffer, TakesBuffer, PushSucceeds,
         PushFails, fateVars
  <2>2. CASE UNCHANGED vars
    BY <2>2 DEF vars
  <2> QED
    BY <2>1, <2>2, StepsOfReceiver
<1> QED
  BY <1>2, <1>3, <1>4

-----------------------------------------------------------------------------
(* The theorems. *)

LEMMA ReceiverInvariant == PipelineSpec => []IInv
BY ReceiverInPipeline, Invariant, PTL

(* Every pushed record is kept (redis_queue.py, worker.py), whatever       *)
(* fails.                                                                  *)
THEOREM PipelineInvariant == PipelineSpec => [](QueueTypes /\ Kept)
<1>1. Types /\ PipelineInit => QueueTypes /\ Kept
  <2> SUFFICES ASSUME Types, PipelineInit PROVE QueueTypes /\ Kept
    OBVIOUS
  <2>1. QueueTypes
    BY DEF PipelineInit, QueueTypes
  <2>2. redis = <<>> /\ \A v \in Worker : pc[v] = "down"
    BY DEF PipelineInit, Init
  <2>3. 1..Len(redis) = {}
    BY <2>2
  <2> QED
    BY <2>1, <2>2, <2>3 DEF Kept, InHand
<1>2. QueueTypes /\ Kept /\ Types /\ Types' /\ [PipelineNext]_allVars => (QueueTypes /\ Kept)'
  BY QueueTypesKeep, KeptKeeps
<1>3. IInv => Types
  BY DEF IInv
<1> QED
  BY <1>1, <1>2, <1>3, ReceiverInvariant, PTL DEF PipelineSpec

(* From the receiver's buffer to the table, whatever fails on either side: *)
(* a record that was pushed is in Redis, a row, or gone with a lost claim  *)
(* reply; any other is in the receiver's hands, in one of its drop         *)
(* counters, or was lost at a stop as LostAtStop says.                     *)
THEOREM NothingUncounted == PipelineSpec => []CountedOrKept
<1>1. IInv /\ Kept => CountedOrKept
  <2> SUFFICES ASSUME IInv, Kept PROVE CountedOrKept
    OBVIOUS
  <2>1. 1..handled \subseteq Range(buffer) \cup InFlight \cup Range(redis) \cup shed
                             \cup failed \cup LostAtStop
    BY DEF IInv, AccountedFor
  <2> SUFFICES ASSUME NEW r \in Range(redis)
               PROVE  \E k \in DOMAIN redis :
                        redis[k] = r /\ k \in W!Held \cup stored \cup unanswered
    BY <2>1 DEF CountedOrKept
  <2>2. PICK k \in DOMAIN redis : redis[k] = r
    BY DEF Range
  <2>3. k \in 1..Len(redis)
    BY <2>2, LenProperties DEF IInv, Types
  <2> QED
    BY <2>2, <2>3 DEF Kept, Whereabouts
<1> QED
  BY <1>1, PipelineInvariant, ReceiverInvariant, PTL

(* One worker of a fixed id keeps the backlog in the order of arrival      *)
(* through every failure.                                                  *)
THEOREM BacklogInOrder ==
  ASSUME \A v, w \in Worker : v = w
  PROVE  PipelineSpec => []BacklogOrder
<1>1. Types /\ PipelineInit => Backlog
  <2> SUFFICES ASSUME PipelineInit PROVE Backlog
    OBVIOUS
  <2>1. Range(queue) = {} /\ \A v \in Worker : Range(inflight[v]) = {} /\ inflight[v] = <<>>
    BY RangeOfEmpty DEF PipelineInit
  <2>2. W!Held = {}
    BY <2>1, HeldMembers
  <2>3. queue = <<>>
    BY DEF PipelineInit
  <2> QED
    BY <2>1, <2>2, <2>3, EmptyRises DEF Backlog
<1>2. QueueTypes /\ Types /\ Types' /\ Backlog /\ [PipelineNext]_allVars => Backlog'
  BY BacklogKeeps, RedisGrows
<1>3. IInv => Types
  BY DEF IInv
<1>4. QueueTypes /\ Backlog => BacklogOrder
  <2> SUFFICES ASSUME QueueTypes, Backlog, NEW w \in Worker PROVE Rising(inflight[w] \o queue)
    BY DEF BacklogOrder, W!BacklogOrder, Rising
  <2>1. inflight[w] \in Seq(Nat) /\ queue \in Seq(Nat)
    BY DEF QueueTypes
  <2> QED
    BY <2>1, RisingJoin DEF Backlog
<1> QED
  BY <1>1, <1>2, <1>3, <1>4, PipelineInvariant, ReceiverInvariant, PTL DEF PipelineSpec
=============================================================================
