----------------------------- MODULE Accounting -----------------------------
(***************************************************************************)
(* What a receiver tells about the lines of a TCP connection: the framing  *)
(* of TcpFraming, the counting in handle()                                 *)
(* (src/backend/app/services/receiver.py:134-157) and the reporting of     *)
(* Metrics.  Redis answers or fails, the router may be taken off the       *)
(* allow-list, and the process may stop, at any time.  uvloop leaves the   *)
(* connection open then, so that lines are received and counted beside and *)
(* after the last flush (receiver.py:331-337, metrics.py:62-71), until the *)
(* process is gone.  Bytes, counted as lines are, are left out.            *)
(***************************************************************************)
EXTENDS TcpFraming, Metrics, FiniteSets

CONSTANTS Form,      \* the lines a router sends: content and what is around it
          MaxForms,  \* bound on their number
          MaxChunk   \* bytes that data_received may be called with at a time

ASSUME AccountingAssumption ==
         /\ \A f \in Form : f.size \in Nat \ {0} /\ {f.counted, f.cr} \subseteq BOOLEAN
         /\ MaxForms \in Nat /\ MaxChunk \in Nat \ {0}
         /\ Counter = {"RECEIVED", "UNKNOWN_ROUTER", "PARSED", "PARSER_ERRORS"}

VARIABLES sent,      \* the lines the router sends, in order
          arrived,   \* how many bytes of them have arrived
          allowed,   \* the router is on the allow-list
          buf,       \* _buf
          handled,   \* payloads that handle() was called with
          outcomes,  \* and the counter each of them went to
          cut,       \* history: lines of which bytes were taken out of _buf unread
          told       \* history: what had come to each counter when stop() took
                     \* the counts for its flush

connVars == <<sent, arrived, allowed, buf, handled, outcomes, cut>>
vars == <<connVars, metricsVars, told>>

(* The content is one record, as long as it is; "x" stands for any other   *)
(* byte than those the framing looks at.                                   *)
Content(f) == [i \in 1..f.size |-> "x"]
Body(f) == (IF f.counted THEN <<"digit", "SP">> ELSE <<>>) \o Content(f)
Wire(f) == Body(f) \o (IF f.cr THEN <<"CR">> ELSE <<>>) \o <<"LF">>

Stream == FlattenSeq([i \in DOMAIN sent |-> Wire(sent[i])])

(* The place of a line's last byte. *)
EndOf(i) == Len(FlattenSeq([j \in 1..i |-> Wire(sent[j])]))

(* The parser's verdict: a record is parsed if it is whole. *)
Parses(payload) == \E i \in DOMAIN sent : payload = Content(sent[i])

Outcome(payload) == CASE ~allowed -> "UNKNOWN_ROUTER"
                      [] allowed /\ Parses(payload) -> "PARSED"
                      [] allowed /\ ~Parses(payload) -> "PARSER_ERRORS"

(* Mutation: what comes of the payload is counted before its receipt. *)
CountLate(c, payload) == Incr(Incr(c, Outcome(payload), 1), "RECEIVED", 1)

(* handle(): one more received, and one more of its outcome. *)
Count(c, payload) == Incr(Incr(c, "RECEIVED", 1), Outcome(payload), 1)

(* connection_made has found the router on the list. *)
Init == /\ sent \in SeqOf(Form, MaxForms)
        /\ arrived = 0 /\ buf = <<>> /\ allowed = TRUE
        /\ handled = <<>> /\ outcomes = <<>> /\ cut = {}
        /\ InitMetrics /\ told = [name \in Counter |-> 0]

(* A refresh no longer finds the router; its connection stays open. *)
Disallow == /\ allowed
            /\ allowed' = FALSE
            /\ UNCHANGED <<sent, arrived, buf, handled, outcomes, cut, metricsVars, told>>

(* The lines that lose bytes when n more do not fit. *)
Overrun(n) == LET from == arrived - Len(buf)
                  to == arrived + n - MaxLine
              IN {i \in DOMAIN sent : from < to /\ EndOf(i - 1) < to /\ from < EndOf(i)}

DataReceived ==
  /\ \E n \in 1..MaxChunk :
       LET bytes == Keep(buf \o SubSeq(Stream, arrived + 1, arrived + n))
       IN /\ arrived + n <= Len(Stream)
          /\ arrived' = arrived + n
          /\ cut' = cut \cup Overrun(n)
          /\ buf' = Rest(bytes)
          /\ handled' = handled \o Payloads(bytes)
          /\ outcomes' = outcomes \o [k \in DOMAIN Payloads(bytes) |-> Outcome(Payloads(bytes)[k])]
          /\ counts' = FoldLeft(Count, counts, Payloads(bytes))
  /\ UNCHANGED <<sent, allowed, pending, task, hash, failures, unsent, told>>

(* What has come to a counter, be it reported or not. *)
Total(name) == IF name = "RECEIVED" THEN Len(handled)
               ELSE Cardinality({i \in DOMAIN outcomes : outcomes[i] = name})

Next == \/ DataReceived \/ Disallow
        \/ (Flush \/ FlushOk \/ FlushFails \/ LastFlush) /\ UNCHANGED <<connVars, told>>
        \/ /\ Stop
           /\ told' = [name \in Counter |-> Total(name)]
           /\ UNCHANGED connVars

Spec == Init /\ [][Next]_vars

(* The timer goes on, and not every flush fails. *)
FairSpec == /\ Spec
            /\ WF_vars(Flush /\ UNCHANGED <<connVars, told>>)
            /\ SF_vars(FlushOk /\ UNCHANGED <<connVars, told>>)

-----------------------------------------------------------------------------
Dict(c) == /\ \A i \in DOMAIN c : c[i] \in [name : Counter, value : Nat \ {0}]
           /\ \A i, j \in DOMAIN c : c[i].name = c[j].name => i = j

(* The variables' ranges: a name is in a dict once, no line feed is left   *)
(* in the buffer, and the buffer is bounded.                               *)
TypeOK == /\ Dict(counts) /\ Dict(pending)
          /\ task \in {"sleeping", "flushing", "last", "stopped"}
          /\ hash \in [Counter -> Nat] /\ told \in [Counter -> Nat]
          /\ failures \in 0..MaxFailures /\ unsent \in BOOLEAN
          /\ arrived \in 0..Len(Stream) /\ cut \subseteq DOMAIN sent
          /\ Breaks(buf) = {} /\ Len(buf) <= MaxLine

(* The lines of which the last byte has arrived. *)
Complete == {i \in DOMAIN sent : EndOf(i) <= arrived}

(* Each payload is what its sender wrote on a line of its own, in the      *)
(* order of the lines, however the stream is cut into chunks and whatever  *)
(* count and line end surround it, and no line is without its payload.     *)
(* Excepted are lines the bound of the buffer has cut                      *)
(* (receiver.py:241-243): of such a one the end is handled, or nothing.    *)
FramedAsSent ==
  \E line \in [DOMAIN handled -> Complete] :
    /\ \A j, k \in DOMAIN handled : j < k => line[j] < line[k]
    /\ Complete \ cut \subseteq {line[k] : k \in DOMAIN handled}
    /\ \A k \in DOMAIN handled :
         LET f == sent[line[k]]
         IN IF line[k] \in cut
            THEN \E n \in 1..Len(Body(f)) : handled[k] = SubSeq(Body(f), n, Len(Body(f)))
            ELSE handled[k] = Content(f)

Known(name) == hash[name] + Value(pending, name) + Value(counts, name)

(* No count is lost by a flush that fails, at whatever command, nor one    *)
(* made while a flush is under way ("so nothing is lost if Redis           *)
(* recovers", metrics.py:83); and none is doubled without a failure.       *)
(* Excepted is a stop that cancels a flush.                                *)
CountsKept ==
  ~unsent => \A name \in Counter : /\ Known(name) >= Total(name)
                                   /\ failures = 0 => Known(name) = Total(name)

(* A stop that cancels no flush and whose own flush succeeds reports all   *)
(* that was counted until it took the counts (metrics.py:71,76), and lines *)
(* that are counted beside that flush take nothing from it.  What they     *)
(* count themselves is never reported: the task is gone.                   *)
StopReports ==
  task = "stopped" /\ ~unsent => \A name \in Counter : hash[name] >= told[name]

(* The share of parsed lines the status page shows                         *)
(* (system_api.py:103) never exceeds the whole, wherever flushes stop and  *)
(* are repeated: a receipt is reported before what came of it.             *)
OutcomesWithinReceived ==
  hash["UNKNOWN_ROUTER"] + hash["PARSED"] + hash["PARSER_ERRORS"] <= hash["RECEIVED"]

(* A line that was received is reported, if the process goes on. *)
Reported ==
  \A k \in 1..MaxForms :
    Len(handled) >= k ~> hash["RECEIVED"] >= k \/ task \in {"last", "stopped"}
=============================================================================
