---------------------------- MODULE QueueScripts ----------------------------
(***************************************************************************)
(* The two Lua scripts of src/backend/app/queue/redis_queue.py, one        *)
(* redis.call or loop iteration per step.  Redis runs a script without     *)
(* interleaving other commands, so there is one process; what is at stake  *)
(* is the index arithmetic of the chunk loops (999, stop + 1, start - 1),  *)
(* the order LPUSH leaves, and that unpack() never gets more than a chunk. *)
(* Lists are Lua's and Redis's: positions count from 1 here, the LRANGE    *)
(* and LTRIM offsets from 0 are converted in Lrange and Ltrim.             *)
(***************************************************************************)
EXTENDS Integers, Sequences, Functions

CONSTANTS Item,        \* list entries
          MaxLen,      \* bound on the lists the scripts start from
          MaxClaim,    \* bound on ARGV[1]
          Chunk        \* 1000: how many entries one RPUSH or LPUSH takes

ASSUME ScriptsAssumption == MaxLen \in Nat /\ MaxClaim \in Nat \ {0} /\ Chunk \in Nat \ {0}

VARIABLES script,      \* "claim" or "requeue"
          at,          \* the line the script is at
          src,         \* the list at KEYS[1]
          dst,         \* the list at KEYS[2]
          items,       \* result of LRANGE
          i,           \* loop variable
          src0, dst0,  \* what src and dst were when the script started
          n            \* ARGV[1] of the claim script

vars == <<script, at, src, dst, items, i, src0, dst0, n>>
given == <<script, src0, dst0, n>>

Lesser(a, b) == IF a <= b THEN a ELSE b
Greater(a, b) == IF a >= b THEN a ELSE b

(* LRANGE key first last and LTRIM key first -1, offsets from 0. *)
Lrange(l, first, last) == SubSeq(l, first + 1, Lesser(last + 1, Len(l)))
Ltrim(l, first) == SubSeq(l, first + 1, Len(l))

(* unpack(items, a, b), and the requeue script's chunk: the same backwards. *)
Unpack(l, a, b) == [k \in 1..(b - a + 1) |-> l[a + k - 1]]
Backwards(l, b, a) == [k \in 1..(b - a + 1) |-> l[b - k + 1]]

(* RPUSH appends its arguments; LPUSH prepends them one by one.            *)
Rpush(l, args) == l \o args
Lpush(l, args) == [k \in 1..Len(args) |-> args[Len(args) - k + 1]] \o l

-----------------------------------------------------------------------------
Lists == UNION {[1..k -> Item] : k \in 0..MaxLen}

Init == /\ script \in {"claim", "requeue"}
        /\ src0 \in Lists
        /\ dst0 \in Lists
        /\ n \in 1..MaxClaim
        /\ script = "requeue" => n = 1
        /\ src = src0
        /\ dst = dst0
        /\ items = <<>>
        /\ i = 0
        /\ at = "range"

-----------------------------------------------------------------------------
(* The claim script. *)

ClaimRange == /\ script = "claim" /\ at = "range"
              /\ items' = Lrange(src, 0, n - 1)
              /\ at' = IF items' = <<>> THEN "done" ELSE "trim"
              /\ UNCHANGED <<given, src, dst, i>>

ClaimTrim == /\ script = "claim" /\ at = "trim"
             /\ src' = Ltrim(src, Len(items))
             /\ i' = 1
             /\ at' = "loop"
             /\ UNCHANGED <<given, dst, items>>

(* math.min(i + 999, count). *)
ChunkEnd(first, count) == Lesser(first + (Chunk - 1), count)

(* Mutation: the next chunk starts at stop. *)
ClaimPushOverlap == /\ script = "claim" /\ at = "loop" /\ i <= Len(items)
                    /\ LET stop == ChunkEnd(i, Len(items)) IN
                         /\ dst' = Rpush(dst, Unpack(items, i, stop))
                         /\ i' = stop
                    /\ UNCHANGED <<given, at, src, items>>

ClaimPush == /\ script = "claim" /\ at = "loop" /\ i <= Len(items)
             /\ LET stop == ChunkEnd(i, Len(items)) IN
                  /\ dst' = Rpush(dst, Unpack(items, i, stop))
                  /\ i' = stop + 1
             /\ UNCHANGED <<given, at, src, items>>

ClaimDone == /\ script = "claim" /\ at = "loop" /\ i > Len(items)
             /\ at' = "done"
             /\ UNCHANGED <<given, src, dst, items, i>>

-----------------------------------------------------------------------------
(* The requeue script. *)

RequeueRange == /\ script = "requeue" /\ at = "range"
                /\ items' = Lrange(src, 0, Len(src) - 1)
                /\ i' = Len(items')
                /\ at' = IF items' = <<>> THEN "delete" ELSE "loop"
                /\ UNCHANGED <<given, src, dst>>

(* math.max(i - 999, 1). *)
ChunkStart(last) == Greater(last - (Chunk - 1), 1)

(* Mutation: the chunk is fed in list order. *)
RequeuePushForwards ==
  /\ script = "requeue" /\ at = "loop" /\ i >= 1
  /\ LET start == ChunkStart(i) IN
       /\ dst' = Lpush(dst, Unpack(items, start, i))
       /\ i' = start - 1
  /\ UNCHANGED <<given, at, src, items>>

RequeuePush == /\ script = "requeue" /\ at = "loop" /\ i >= 1
               /\ LET start == ChunkStart(i) IN
                    /\ dst' = Lpush(dst, Backwards(items, i, start))
                    /\ i' = start - 1
               /\ UNCHANGED <<given, at, src, items>>

RequeueLoopEnd == /\ script = "requeue" /\ at = "loop" /\ i < 1
                  /\ at' = "delete"
                  /\ UNCHANGED <<given, src, dst, items, i>>

RequeueDelete == /\ script = "requeue" /\ at = "delete"
                 /\ src' = <<>>
                 /\ at' = "done"
                 /\ UNCHANGED <<given, dst, items, i>>

-----------------------------------------------------------------------------
Next == \/ ClaimRange \/ ClaimTrim \/ ClaimPush \/ ClaimDone
        \/ RequeueRange \/ RequeuePush \/ RequeueLoopEnd \/ RequeueDelete

Spec == Init /\ [][Next]_vars

-----------------------------------------------------------------------------
(* Types of the scripts' variables (redis_queue.py:39-82). *)
TypeOK == /\ script \in {"claim", "requeue"}
          /\ at \in {"range", "trim", "loop", "delete", "done"}
          /\ {src, dst, items, src0, dst0} \subseteq Seq(Item)
          /\ i \in Int
          /\ n \in Nat \ {0}

(* Before the loops, and the range of i in them (redis_queue.py:45-46,     *)
(* 68-69): what ListsInOrder needs to be inductive.                        *)
AtLoops ==
  /\ at = "range" => src = src0 /\ dst = dst0 /\ items = <<>>
  /\ at = "trim" => /\ script = "claim"
                    /\ items = Lrange(src0, 0, n - 1)
                    /\ src = src0 /\ dst = dst0
  /\ script = "claim" /\ at = "loop" => i \in 1..(Len(items) + 1)
  /\ script = "requeue" /\ at = "loop" => i \in 0..Len(items)
  /\ script = "requeue" /\ at = "delete" /\ items = <<>> => src0 = <<>>

(* What the lists hold while a script runs: the entries already pushed are *)
(* in order, next to what was there.  At the end a claim has moved the     *)
(* first n entries behind the in-flight list, and a requeue has put the    *)
(* whole in-flight list, in order, before the queue (redis_queue.py:54-60);*)
(* these are the atomic steps of BatchWorker.                              *)
ListsInOrder ==
  /\ script = "claim" /\ at \in {"loop", "done"} =>
       /\ items = SubSeq(src0, 1, Lesser(n, Len(src0)))
       /\ src = SubSeq(src0, Lesser(n, Len(src0)) + 1, Len(src0))
  /\ script = "claim" /\ at = "loop" => dst = dst0 \o SubSeq(items, 1, i - 1)
  /\ script = "claim" /\ at = "done" => dst = dst0 \o items
  /\ script = "requeue" /\ at = "loop" =>
       /\ items = src0
       /\ dst = SubSeq(items, i + 1, Len(items)) \o dst0
  /\ script = "requeue" /\ at \in {"delete", "done"} => dst = src0 \o dst0
  /\ script = "requeue" /\ at = "done" => src = <<>>

(* The loops come to an end: i moves at each iteration, never past the     *)
(* entry the loop ends at (redis_queue.py:46-50, 69-79), and by Chunk      *)
(* entries at most: unpack() blows the C stack with more arguments than    *)
(* some 7900 (redis_queue.py:38).                                          *)
LoopsAdvance ==
  [][at = "loop" /\ at' = "loop" =>
       \/ script = "claim" /\ i < i' /\ i' <= Len(items) + 1 /\ i' <= i + Chunk
       \/ script = "requeue" /\ i' < i /\ 0 <= i' /\ i - Chunk <= i']_vars
=============================================================================
