------------------------- MODULE QueueScriptsProofs -------------------------
(***************************************************************************)
(* The chunk loops of the Lua scripts are right for lists of any length    *)
(* and for any chunk size.                                                 *)
(***************************************************************************)
EXTENDS QueueScripts, SequenceTheorems, TLAPS

(* A slice of a list is a list, and unpack() of a slice is the slice. *)
LEMMA Slice ==
  ASSUME NEW l \in Seq(Item), NEW a \in Int, NEW b \in Int, 1 <= a, b <= Len(l)
  PROVE  SubSeq(l, a, b) \in Seq(Item)
BY LenProperties, SubSeqProperties, ElementOfSeq

LEMMA UnpackIsSlice ==
  ASSUME NEW l \in Seq(Item), NEW a \in 1..Len(l), NEW b \in a..Len(l)
  PROVE  Unpack(l, a, b) = SubSeq(l, a, b)
<1>1. Len(l) \in Nat
  BY LenProperties
<1> QED  BY <1>1, SMT DEF Unpack

(* LPUSH of a chunk fed in reverse puts the chunk, in order, in front. *)
LEMMA LpushOfBackwards ==
  ASSUME NEW l \in Seq(Item), NEW d \in Seq(Item),
         NEW a \in 1..Len(l), NEW b \in a..Len(l)
  PROVE  Lpush(d, Backwards(l, b, a)) = SubSeq(l, a, b) \o d
<1> DEFINE c == Backwards(l, b, a)
           r == [k \in 1..Len(c) |-> c[Len(c) - k + 1]]
<1>1. Len(l) \in Nat
  BY LenProperties
<1>2. c = [k \in 1..(b - a + 1) |-> l[b - k + 1]] /\ b - a + 1 \in Nat
  BY <1>1 DEF Backwards
<1>3. Len(c) = b - a + 1
  BY <1>2
<1>4. r = [k \in 1..(b - a + 1) |-> c[b - a + 1 - k + 1]]
  BY <1>3
<1>5. \A k \in 1..(b - a + 1) : c[b - a + 1 - k + 1] = l[a + k - 1]
  <2>1. SUFFICES ASSUME NEW k \in 1..(b - a + 1)
                 PROVE  c[b - a + 1 - k + 1] = l[a + k - 1]
    OBVIOUS
  <2>2. b - a + 1 - k + 1 \in 1..(b - a + 1) /\ b - (b - a + 1 - k + 1) + 1 = a + k - 1
    BY <1>1
  <2>3. c[b - a + 1 - k + 1] = l[b - (b - a + 1 - k + 1) + 1]
    BY <1>2, <2>2
  <2> QED  BY <2>2, <2>3, Zenon
<1>6. r = [k \in 1..(b - a + 1) |-> l[a + k - 1]]
  BY <1>4, <1>5
<1> HIDE DEF c, r
<1>7. r = SubSeq(l, a, b)
  BY <1>6, UnpackIsSlice DEF Unpack
<1> USE DEF c, r
<1> QED  BY <1>7 DEF Lpush

-----------------------------------------------------------------------------
ScriptInv == TypeOK /\ AtLoops /\ ListsInOrder

LEMMA InitInv == Init => ScriptInv
<1> SUFFICES ASSUME Init PROVE ScriptInv
  OBVIOUS
<1>1. Lists \subseteq Seq(Item)
  BY ScriptsAssumption, SeqDef DEF Lists
<1>2. n \in Nat \ {0}
  BY ScriptsAssumption DEF Init
<1>3. <<>> \in Seq(Item)
  OBVIOUS
<1> QED  BY <1>1, <1>2, <1>3 DEF Init, ScriptInv, TypeOK, AtLoops, ListsInOrder

(* One iteration of the claim loop appends the next chunk. *)
LEMMA ClaimIteration ==
  ASSUME ScriptInv, ClaimPush
  PROVE  /\ i' \in 1..(Len(items) + 1)
         /\ dst' = dst0 \o SubSeq(items, 1, i' - 1)
         /\ dst' \in Seq(Item)
         /\ i < i' /\ i' <= i + Chunk
<1> DEFINE stop == ChunkEnd(i, Len(items))
<1>1. /\ items \in Seq(Item) /\ dst0 \in Seq(Item) /\ Len(items) \in Nat
      /\ i \in 1..Len(items)
      /\ dst = dst0 \o SubSeq(items, 1, i - 1)
  BY LenProperties DEF ScriptInv, TypeOK, AtLoops, ListsInOrder, ClaimPush
<1>2. stop \in i..Len(items) /\ stop + 1 <= i + Chunk
  BY <1>1, ScriptsAssumption DEF ChunkEnd, Lesser
<1>3. dst' = dst \o Unpack(items, i, stop) /\ i' = stop + 1
  BY DEF ClaimPush, Rpush
<1> HIDE DEF stop
<1>4. Unpack(items, i, stop) = SubSeq(items, i, stop)
  BY <1>1, <1>2, UnpackIsSlice
<1>5. SubSeq(items, 1, i - 1) \o SubSeq(items, i, stop) = SubSeq(items, 1, stop)
  <2>1. i - 1 \in 0..Len(items) /\ stop \in (i - 1)..Len(items) /\ (i - 1) + 1 = i
        /\ 1 \in 1..(Len(items) + 1) /\ 1 - 1 = 0
    BY <1>1, <1>2
  <2> QED  BY <1>1, <2>1, ConcatAdjacentSubSeq
<1>6. /\ SubSeq(items, 1, i - 1) \in Seq(Item)
      /\ SubSeq(items, i, stop) \in Seq(Item)
      /\ SubSeq(items, 1, stop) \in Seq(Item)
  BY <1>1, <1>2, Slice
<1>7. dst' = dst0 \o SubSeq(items, 1, stop)
  <2> DEFINE p == SubSeq(items, 1, i - 1)
             q == SubSeq(items, i, stop)
  <2>1. p \in Seq(Item) /\ q \in Seq(Item) /\ dst0 \in Seq(Item)
    BY <1>1, <1>6
  <2>2. dst = dst0 \o p /\ dst' = dst \o q /\ p \o q = SubSeq(items, 1, stop)
    BY <1>1, <1>3, <1>4, <1>5
  <2> HIDE DEF p, q
  <2>3. (dst0 \o p) \o q = dst0 \o (p \o q)
    BY <2>1, ConcatAssociative
  <2> QED  BY <2>2, <2>3, Zenon
<1>8. i' - 1 = stop /\ i' \in 1..(Len(items) + 1) /\ i < i' /\ i' <= i + Chunk
  BY <1>1, <1>2, <1>3
<1>9. dst' \in Seq(Item)
  BY <1>1, <1>6, <1>7, ConcatProperties
<1> QED  BY <1>7, <1>8, <1>9

(* One iteration of the requeue loop puts the chunk before those behind it. *)
LEMMA RequeueIteration ==
  ASSUME ScriptInv, RequeuePush
  PROVE  /\ i' \in 0..Len(items)
         /\ dst' = SubSeq(items, i' + 1, Len(items)) \o dst0
         /\ dst' \in Seq(Item)
         /\ i' < i /\ i - Chunk <= i'
<1> DEFINE start == ChunkStart(i)
<1>1. /\ items \in Seq(Item) /\ dst0 \in Seq(Item) /\ dst \in Seq(Item) /\ Len(items) \in Nat
      /\ i \in 1..Len(items)
      /\ dst = SubSeq(items, i + 1, Len(items)) \o dst0
  BY LenProperties DEF ScriptInv, TypeOK, AtLoops, ListsInOrder, RequeuePush
<1>2. start \in 1..i /\ i - Chunk <= start - 1
  BY <1>1, ScriptsAssumption DEF ChunkStart, Greater
<1>3. dst' = Lpush(dst, Backwards(items, i, start)) /\ i' = start - 1
  BY DEF RequeuePush
<1> HIDE DEF start
<1>4. dst' = SubSeq(items, start, i) \o dst
  <2>1. start \in 1..Len(items) /\ i \in start..Len(items)
    BY <1>1, <1>2
  <2> QED  BY <1>1, <1>3, <2>1, LpushOfBackwards
<1>5. SubSeq(items, start, i) \o SubSeq(items, i + 1, Len(items)) = SubSeq(items, start, Len(items))
  <2>1. /\ start \in 1..(Len(items) + 1) /\ i \in (start - 1)..Len(items)
        /\ Len(items) \in i..Len(items)
    BY <1>1, <1>2
  <2> QED  BY <1>1, <2>1, ConcatAdjacentSubSeq
<1>6. /\ SubSeq(items, start, i) \in Seq(Item)
      /\ SubSeq(items, i + 1, Len(items)) \in Seq(Item)
      /\ SubSeq(items, start, Len(items)) \in Seq(Item)
  BY <1>1, <1>2, Slice
<1>7. dst' = SubSeq(items, start, Len(items)) \o dst0
  <2> DEFINE p == SubSeq(items, start, i)
             q == SubSeq(items, i + 1, Len(items))
  <2>1. p \in Seq(Item) /\ q \in Seq(Item) /\ dst0 \in Seq(Item)
    BY <1>1, <1>6
  <2>2. dst = q \o dst0 /\ dst' = p \o dst /\ p \o q = SubSeq(items, start, Len(items))
    BY <1>1, <1>4, <1>5
  <2> HIDE DEF p, q
  <2>3. (p \o q) \o dst0 = p \o (q \o dst0)
    BY <2>1, ConcatAssociative
  <2> QED  BY <2>2, <2>3, Zenon
<1>8. i' + 1 = start /\ i' \in 0..Len(items) /\ i' < i /\ i - Chunk <= i'
  BY <1>1, <1>2, <1>3
<1>9. dst' \in Seq(Item)
  BY <1>1, <1>6, <1>7, ConcatProperties
<1> QED  BY <1>7, <1>8, <1>9

LEMMA StepInv == ScriptInv /\ [Next]_vars => ScriptInv'
<1> SUFFICES ASSUME ScriptInv, [Next]_vars PROVE ScriptInv'
  OBVIOUS
<1> USE DEF ScriptInv, given
<1>0. /\ src0 \in Seq(Item) /\ dst0 \in Seq(Item) /\ items \in Seq(Item)
      /\ Len(src0) \in Nat /\ Len(items) \in Nat /\ n \in Nat \ {0}
  BY LenProperties DEF TypeOK
<1>1. CASE ClaimRange
  <2>1. items' = SubSeq(src0, 1, Lesser(n, Len(src0)))
    <3>1. 0 + 1 = 1 /\ n - 1 + 1 = n
      BY <1>0
    <3> QED  BY <1>1, <3>1 DEF ClaimRange, Lrange, AtLoops
  <2>2. Lesser(n, Len(src0)) \in 0..Len(src0)
    BY <1>0 DEF Lesser
  <2>3. items' \in Seq(Item) /\ Len(items') = Lesser(n, Len(src0))
    BY <1>0, <2>1, <2>2, SubSeqProperties, ElementOfSeq
  <2>4. items' = <<>> => src0 = <<>>
    <3>1. ASSUME items' = <<>> PROVE Len(src0) = 0
      BY <1>0, <2>3, <3>1 DEF Lesser
    <3> QED  BY <1>0, <3>1, EmptySeq
  <2>5. items' = <<>> => /\ dst0 \o items' = dst0
                         /\ SubSeq(src0, Lesser(n, Len(src0)) + 1, Len(src0)) = src0
    <3>1. ASSUME items' = <<>> PROVE SubSeq(src0, Lesser(n, Len(src0)) + 1, Len(src0)) = <<>>
      <4>1. Len(src0) = 0 /\ Lesser(n, Len(src0)) + 1 = 1
        BY <1>0, <2>4, <3>1 DEF Lesser
      <4> QED  BY <4>1, SubSeqEmpty
    <3> QED  BY <1>0, <2>4, <3>1, ConcatEmptySeq
  <2> QED  BY <1>1, <2>1, <2>3, <2>4, <2>5
           DEF ClaimRange, TypeOK, AtLoops, ListsInOrder, Lrange
<1>2. CASE ClaimTrim
  <2>1. /\ items = SubSeq(src0, 1, Lesser(n, Len(src0)))
        /\ src = src0 /\ dst = dst0
    <3>1. 0 + 1 = 1 /\ n - 1 + 1 = n
      BY <1>0
    <3> QED  BY <1>2, <3>1 DEF ClaimTrim, Lrange, AtLoops
  <2>2. Lesser(n, Len(src0)) \in 0..Len(src0)
    BY <1>0 DEF Lesser
  <2>3. Len(items) = Lesser(n, Len(src0))
    BY <1>0, <2>1, <2>2, SubSeqProperties, ElementOfSeq
  <2>4. src' = SubSeq(src0, Lesser(n, Len(src0)) + 1, Len(src0))
    BY <1>2, <2>1, <2>3 DEF ClaimTrim, Ltrim
  <2>5. src' \in Seq(Item)
    BY <1>0, <2>2, <2>4, Slice
  <2>6. SubSeq(items, 1, i' - 1) = <<>> /\ dst0 \o <<>> = dst0
    <3>1. i' - 1 = 0 /\ i' - 1 \in Int /\ i' - 1 < 1
      BY <1>2 DEF ClaimTrim
    <3> QED  BY <1>0, <3>1, SubSeqEmpty, ConcatEmptySeq
  <2> QED  BY <1>0, <1>2, <2>1, <2>4, <2>5, <2>6
           DEF ClaimTrim, TypeOK, AtLoops, ListsInOrder
<1>3. CASE ClaimPush
  <2>1. /\ script = "claim" /\ at = "loop" /\ UNCHANGED <<given, at, src, items>>
        /\ i' \in Int
    BY <1>0, <1>3, ClaimIteration DEF ClaimPush
  <2>2. TypeOK'
    BY <1>3, <2>1, ClaimIteration DEF TypeOK
  <2>3. AtLoops'
    BY <1>3, <2>1, ClaimIteration DEF AtLoops
  <2>4. ListsInOrder'
    BY <1>3, <2>1, ClaimIteration DEF ListsInOrder
  <2> QED  BY <2>2, <2>3, <2>4
<1>4. CASE ClaimDone
  <2>1. i - 1 = Len(items)
    BY <1>0, <1>4 DEF ClaimDone, AtLoops
  <2>2. SubSeq(items, 1, i - 1) = items
    BY <1>0, <2>1, SubSeqFull
  <2> QED  BY <1>4, <2>2 DEF ClaimDone, TypeOK, AtLoops, ListsInOrder
<1>5. CASE RequeueRange
  <2>1. items' = src0
    <3>1. Len(src0) - 1 + 1 = Len(src0) /\ 0 + 1 = 1 /\ Lesser(Len(src0), Len(src0)) = Len(src0)
      BY <1>0 DEF Lesser
    <3>2. items' = SubSeq(src0, 1, Len(src0))
      BY <1>5, <3>1 DEF RequeueRange, Lrange, AtLoops
    <3> QED  BY <1>0, <3>2, SubSeqFull
  <2>2. i' = Len(src0)
    BY <1>5, <2>1 DEF RequeueRange
  <2>3. SubSeq(items', i' + 1, Len(items')) = <<>>
    <3>1. i' + 1 \in Int /\ Len(items') \in Int /\ Len(items') < i' + 1
      BY <1>0, <2>1, <2>2
    <3> QED  BY <3>1, SubSeqEmpty
  <2>4. <<>> \o dst0 = dst0
    BY <1>0, ConcatEmptySeq
  <2> QED  BY <1>0, <1>5, <2>1, <2>2, <2>3, <2>4
           DEF RequeueRange, TypeOK, AtLoops, ListsInOrder
<1>6. CASE RequeuePush
  <2>1. /\ script = "requeue" /\ at = "loop" /\ UNCHANGED <<given, at, src, items>>
        /\ i' \in Int
    BY <1>0, <1>6, RequeueIteration DEF RequeuePush
  <2>2. TypeOK'
    BY <1>6, <2>1, RequeueIteration DEF TypeOK
  <2>3. AtLoops'
    BY <1>6, <2>1, RequeueIteration DEF AtLoops
  <2>4. ListsInOrder'
    BY <1>6, <2>1, RequeueIteration DEF ListsInOrder
  <2> QED  BY <2>2, <2>3, <2>4
<1>7. CASE RequeueLoopEnd
  <2>1. i = 0 /\ i + 1 = 1
    BY <1>0, <1>7 DEF RequeueLoopEnd, AtLoops
  <2>2. SubSeq(items, i + 1, Len(items)) = items
    BY <1>0, <2>1, SubSeqFull
  <2> QED  BY <1>7, <2>2 DEF RequeueLoopEnd, TypeOK, AtLoops, ListsInOrder
<1>8. CASE RequeueDelete
  BY <1>8 DEF RequeueDelete, TypeOK, AtLoops, ListsInOrder
<1>9. CASE UNCHANGED vars
  BY <1>9 DEF vars, TypeOK, AtLoops, ListsInOrder
<1> QED  BY <1>1, <1>2, <1>3, <1>4, <1>5, <1>6, <1>7, <1>8, <1>9 DEF Next

(* A claim moves the first n entries, in order, to the end of the in-flight *)
(* list and leaves the rest; a requeue puts the whole in-flight list, in    *)
(* order, before the queue: for every chunk size and every length.          *)
THEOREM ScriptsCorrect == Spec => []ListsInOrder
<1>1. ScriptInv => ListsInOrder
  BY DEF ScriptInv
<1> QED  BY <1>1, InitInv, StepInv, PTL DEF Spec

(* The chunk loops end: i moves towards its end at every iteration, by a    *)
(* chunk at most.                                                           *)
THEOREM ScriptsEnd == Spec => LoopsAdvance
<1>1. ScriptInv /\ [Next]_vars =>
        [at = "loop" /\ at' = "loop" =>
           \/ script = "claim" /\ i < i' /\ i' <= Len(items) + 1 /\ i' <= i + Chunk
           \/ script = "requeue" /\ i' < i /\ 0 <= i' /\ i - Chunk <= i']_vars
  <2> SUFFICES ASSUME ScriptInv, Next, at = "loop", at' = "loop"
               PROVE  \/ script = "claim" /\ i < i' /\ i' <= Len(items) + 1 /\ i' <= i + Chunk
                      \/ script = "requeue" /\ i' < i /\ 0 <= i' /\ i - Chunk <= i'
    OBVIOUS
  <2>1. Len(items) \in Nat
    BY LenProperties DEF ScriptInv, TypeOK
  <2>2. CASE ClaimPush
    BY <2>1, <2>2, ClaimIteration DEF ClaimPush
  <2>3. CASE RequeuePush
    BY <2>1, <2>3, RequeueIteration DEF RequeuePush
  <2> QED  BY <2>2, <2>3 DEF Next, ClaimRange, ClaimTrim, ClaimDone,
                             RequeueRange, RequeueLoopEnd, RequeueDelete
<1> QED  BY <1>1, InitInv, StepInv, PTL DEF Spec, LoopsAdvance

==============================================================================
