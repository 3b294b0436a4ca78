----------------------------- MODULE TcpFraming -----------------------------
(***************************************************************************)
(* How a TCP connection's bytes are cut into lines (SyslogTCP and          *)
(* _strip_octet_count, src/backend/app/services/receiver.py:220-261).      *)
(* A byte is one of "LF", "CR", "SP", "digit" and others.                  *)
(***************************************************************************)
EXTENDS Integers, Sequences, SequencesExt

CONSTANT MaxLine  \* SyslogTCP.MAX_LINE

ASSUME FramingAssumption == MaxLine \in Nat \ {0}

(* Mutation: a sender without line feeds is not bounded. *)
KeepAll(b) == b

(* del self._buf[:-self.MAX_LINE], if there are more. *)
Keep(b) == SubSeq(b, Max({1, Len(b) - MaxLine + 1}), Len(b))

Breaks(b) == {i \in DOMAIN b : b[i] = "LF"}

(* The loop: what is before each line feed, and what is left over. *)
CutLines(b) ==
  LET end(k) == CHOOSE i \in Breaks(b) : Cardinality({j \in Breaks(b) : j <= i}) = k
      start(k) == IF k = 1 THEN 1 ELSE end(k - 1) + 1
  IN [k \in 1..Cardinality(Breaks(b)) |-> SubSeq(b, start(k), end(k) - 1)]

(* Mutation: what follows the last line feed is dropped. *)
RestDropped(b) == IF Breaks(b) = {} THEN b ELSE <<>>

Rest(b) == SubSeq(b, Max(Breaks(b) \cup {0}) + 1, Len(b))

(* rstrip(b"\r") *)
StripReturns(l) == SubSeq(l, 1, SelectLastInSeq(l, LAMBDA c : c # "CR"))

(* A length of one to six digits and a space go. *)
StripOctetCount(l) ==
  LET sp == SelectInSeq(l, LAMBDA c : c = "SP")
  IN IF sp \in 2..7 /\ \A i \in 1..(sp - 1) : l[i] = "digit"
     THEN SubSeq(l, sp + 1, Len(l))
     ELSE l

(* handle() is called with what there is on a line, if anything. *)
Handle(payloads, line) ==
  LET l == StripReturns(line)
  IN IF l = <<>> THEN payloads ELSE Append(payloads, StripOctetCount(l))

(* The payloads that handle() is called with for the bytes b. *)
Payloads(b) == FoldLeft(Handle, <<>>, CutLines(b))
=============================================================================
