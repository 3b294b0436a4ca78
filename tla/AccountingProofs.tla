-------------------------- MODULE AccountingProofs --------------------------
(***************************************************************************)
(* Proofs about Accounting, for every set of lines, every size of chunks   *)
(* and of the buffer, and any number of flushes that fail: how the lines   *)
(* are framed, and what is reported of those that were received.           *)
(***************************************************************************)
EXTENDS Accounting, FiniteSetTheorems, SequenceTheorems, WellFoundedInduction, TLAPS

(* Induction, for a set of numbers. *)
LEMMA EveryNumber ==
  ASSUME NEW S, 0 \in S, \A n \in Nat : n \in S => n + 1 \in S
  PROVE  Nat \subseteq S
<1> SUFFICES ASSUME Nat \ S # {} PROVE FALSE
  OBVIOUS
<1>1. \E x \in Nat \ S : \A y \in Nat \ S : ~ (<<y, x>> \in OpToRel(<, Nat))
  BY NatLessThanWellFounded, WFMin, Zenon
<1>2. \E x \in Nat \ S : \A y \in Nat \ S : ~(y < x)
  BY <1>1, Zenon DEF OpToRel
<1>3. PICK x \in Nat \ S : \A y \in Nat \ S : ~(y < x)
  BY <1>2
<1>4. x # 0 /\ x - 1 \in Nat /\ x - 1 < x /\ (x - 1) + 1 = x
  BY <1>3
<1> QED
  BY <1>3, <1>4

(* A set of places has a last one. *)
LEMMA MaxIsLast ==
  ASSUME NEW n \in Nat, NEW S \in SUBSET (0..n), S # {}
  PROVE  Max(S) \in S /\ \A i \in S : i <= Max(S)
<1> DEFINE P == {m \in Nat : \A T \in SUBSET (0..m) :
                   T # {} => \E x \in T : \A y \in T : x >= y}
<1>1. 0 \in P
  <2>1. ASSUME NEW T \in SUBSET (0..0), T # {} PROVE \E x \in T : \A y \in T : x >= y
    <3>1. \A y \in T : y = 0
      OBVIOUS
    <3>2. 0 \in T
      BY <2>1, <3>1
    <3> QED  BY <3>1, <3>2
  <2> QED  BY <2>1
<1>2. ASSUME NEW m \in Nat, m \in P PROVE m + 1 \in P
  <2>1. ASSUME NEW T \in SUBSET (0..(m + 1)), T # {} PROVE \E x \in T : \A y \in T : x >= y
    <3>1. CASE m + 1 \in T
      <4>1. \A y \in T : m + 1 >= y
        OBVIOUS
      <4> QED  BY <3>1, <4>1
    <3>2. CASE m + 1 \notin T
      <4>1. T \subseteq 0..m
        BY <3>2
      <4> QED  BY <1>2, <2>1, <4>1
    <3> QED  BY <3>1, <3>2
  <2> QED  BY <2>1
<1>3. n \in P
  <2> HIDE DEF P
  <2> QED  BY <1>1, <1>2, EveryNumber
<1>4. \E x \in S : \A y \in S : x >= y
  BY <1>3
<1> QED
  BY <1>4 DEF Max

(* A fold over the places of a sequence: G is a step.  What MapThenFoldSet *)
(* defines is there.                                                       *)
IsFold(iter, n, start, G) ==
  \A s \in SUBSET (1..n) :
    iter[s] = IF s = {} THEN start ELSE G[Max(s)][iter[s \ {Max(s)}]]

(* There is such a function.                                               *)
LEMMA FoldExists ==
  ASSUME NEW n \in Nat, NEW X, NEW start \in X, NEW G \in [1..n -> [X -> X]]
  PROVE  \E iter \in [SUBSET (1..n) -> X] : IsFold(iter, n, start, G)
<1> DEFINE P == {m \in Nat : m <= n => \E iter \in [SUBSET (1..m) -> X] : IsFold(iter, m, start, G)}
<1>1. 0 \in P
  <2> DEFINE it == [s \in SUBSET (1..0) |-> start]
  <2>1. it \in [SUBSET (1..0) -> X]
    OBVIOUS
  <2>2. \A s \in SUBSET (1..0) : s = {}
    OBVIOUS
  <2>3. IsFold(it, 0, start, G)
    BY <2>2 DEF IsFold
  <2> HIDE DEF it
  <2> QED  BY <2>1, <2>3
<1>2. ASSUME NEW m \in Nat, m \in P PROVE m + 1 \in P
  <2> SUFFICES ASSUME m + 1 <= n
               PROVE  \E iter \in [SUBSET (1..(m + 1)) -> X] : IsFold(iter, m + 1, start, G)
    <3>1. m + 1 \in Nat
      OBVIOUS
    <3> QED  BY <3>1
  <2>1. PICK it \in [SUBSET (1..m) -> X] : IsFold(it, m, start, G)
    <3>1. m <= n
      OBVIOUS
    <3> QED  BY <1>2, <3>1
  <2> DEFINE jt == [s \in SUBSET (1..(m + 1)) |->
                      IF m + 1 \in s THEN G[m + 1][it[s \ {m + 1}]] ELSE it[s]]
  <2>2. ASSUME NEW s \in SUBSET (1..(m + 1))
        PROVE  /\ s \ {m + 1} \in SUBSET (1..m)
               /\ m + 1 \in s => Max(s) = m + 1
               /\ m + 1 \notin s /\ s # {} => Max(s) \in 1..m /\ Max(s) \in s
               /\ m + 1 \notin s => s \in SUBSET (1..m)
    <3>1. s \in SUBSET (0..(m + 1)) /\ m + 1 \in Nat
      OBVIOUS
    <3>2. s # {} => Max(s) \in s /\ \A i \in s : i <= Max(s)
      BY <3>1, MaxIsLast
    <3>3. s \ {m + 1} \in SUBSET (1..m)
      OBVIOUS
    <3>4. m + 1 \in s => Max(s) = m + 1
      <4>1. \A i \in s : i \in Nat /\ i <= m + 1
        OBVIOUS
      <4>2. m + 1 \in s => Max(s) \in s /\ m + 1 <= Max(s)
        BY <3>2
      <4>3. m + 1 \in s => Max(s) \in Nat /\ Max(s) <= m + 1 /\ m + 1 \in Nat
        BY <4>1, <4>2
      <4> QED  BY <4>2, <4>3
    <3> QED  BY <3>2, <3>3, <3>4
  <2>3. jt \in [SUBSET (1..(m + 1)) -> X]
    <3>1. ASSUME NEW s \in SUBSET (1..(m + 1))
          PROVE  (IF m + 1 \in s THEN G[m + 1][it[s \ {m + 1}]] ELSE it[s]) \in X
      <4>1. m + 1 \in 1..n
        OBVIOUS
      <4>2. it[s \ {m + 1}] \in X
        BY <2>2
      <4> QED  BY <2>2, <4>1, <4>2
    <3> QED  BY <3>1
  <2>4. ASSUME NEW s \in SUBSET (1..(m + 1))
        PROVE  jt[s] = IF s = {} THEN start ELSE G[Max(s)][jt[s \ {Max(s)}]]
    <3>1. CASE m + 1 \in s
      <4>1. s \ {m + 1} \in SUBSET (1..(m + 1)) /\ m + 1 \notin s \ {m + 1}
        OBVIOUS
      <4>2. jt[s \ {m + 1}] = it[s \ {m + 1}]
        BY <4>1
      <4> QED  BY <2>2, <3>1, <4>2
    <3>2. CASE m + 1 \notin s
      <4>1. /\ s \ {Max(s)} \in SUBSET (1..(m + 1)) /\ m + 1 \notin s \ {Max(s)}
            /\ s \in SUBSET (1..m)
        BY <2>2, <3>2
      <4>2. jt[s \ {Max(s)}] = it[s \ {Max(s)}] /\ jt[s] = it[s]
        BY <3>2, <4>1
      <4> HIDE DEF jt
      <4> QED  BY <2>1, <4>1, <4>2 DEF IsFold
    <3> QED  BY <3>1, <3>2
  <2> HIDE DEF jt
  <2>5. IsFold(jt, m + 1, start, G)
    BY <2>4 DEF IsFold
  <2> QED  BY <2>3, <2>5
<1>3. n \in P
  <2> HIDE DEF P
  <2> QED  BY <1>1, <1>2, EveryNumber
<1> QED
  <2>1. n <= n
    OBVIOUS
  <2> QED  BY <1>3, <2>1

(* The places up to k are those up to the one before, and k. *)
LEMMA LastPlace ==
  ASSUME NEW n \in Nat, NEW k \in 1..n
  PROVE  /\ 1..k \in SUBSET (1..n) /\ 1..k # {}
         /\ Max(1..k) = k /\ (1..k) \ {k} = 1..(k - 1)
<1>1. 1..k \in SUBSET (1..n) /\ 1..k # {} /\ 1..k \in SUBSET (0..n)
  OBVIOUS
<1>2. Max(1..k) \in 1..k /\ \A i \in 1..k : i <= Max(1..k)
  BY <1>1, MaxIsLast
<1>3. k \in 1..k /\ k \in Nat
  OBVIOUS
<1>4. Max(1..k) = k
  BY <1>2, <1>3
<1>5. (1..k) \ {k} = 1..(k - 1)
  OBVIOUS
<1> QED
  BY <1>1, <1>4, <1>5

-----------------------------------------------------------------------------
(* A dict, as _counts and the deltas of a flush are (metrics.py:55-56).    *)
Entry == [name : Counter, value : Nat \ {0}]
Dicts == {c \in Seq(Entry) : \A i, j \in 1..Len(c) : c[i].name = c[j].name => i = j}

(* The place of a name in a dict, 0 if it is not there.                    *)
LEMMA PlaceInDict ==
  ASSUME NEW c \in Dicts, NEW name
  PROVE  LET p == SelectInSeq(c, LAMBDA e : e.name = name)
         IN /\ p = 0 => \A i \in 1..Len(c) : c[i].name # name
            /\ p # 0 => p \in 1..Len(c) /\ c[p].name = name
<1> DEFINE I == {i \in 1..Len(c) : c[i].name = name}
<1>1. SelectInSeq(c, LAMBDA e : e.name = name) = IF I # {} THEN Min(I) ELSE 0
  BY DEF SelectInSeq
<1>2. ASSUME NEW i \in I PROVE Min(I) = i
  <2>1. I = {i}
    BY DEF Dicts
  <2>2. i \in Nat
    OBVIOUS
  <2> HIDE DEF I
  <2> QED  BY <2>1, <2>2 DEF Min
<1>3. 0 \notin I
  OBVIOUS
<1> QED
  BY <1>1, <1>2, <1>3

(* _counts.get(name, 0) (metrics.py:56).                                   *)
LEMMA ValueInDict ==
  ASSUME NEW c \in Dicts, NEW name
  PROVE  /\ Value(c, name) \in Nat
         /\ \A i \in 1..Len(c) : c[i].name = name => Value(c, name) = c[i].value
         /\ (\A i \in 1..Len(c) : c[i].name # name) => Value(c, name) = 0
<1> DEFINE p == SelectInSeq(c, LAMBDA e : e.name = name)
<1>1. /\ p = 0 => \A i \in 1..Len(c) : c[i].name # name
      /\ p # 0 => p \in 1..Len(c) /\ c[p].name = name
  BY PlaceInDict
<1>2. Value(c, name) = IF p = 0 THEN 0 ELSE c[p].value
  BY DEF Value
<1> HIDE DEF p
<1>3. c \in Seq(Entry) /\ \A i, j \in 1..Len(c) : c[i].name = c[j].name => i = j
  BY DEF Dicts
<1>4. \A i \in 1..Len(c) : c[i] \in Entry
  BY <1>3
<1>5. \A e \in Entry : e.value \in Nat
  BY DEF Entry
<1> QED
  BY <1>1, <1>2, <1>3, <1>4, <1>5

(* incr() adds to one counter. *)
LEMMA IncrAdds ==
  ASSUME NEW c \in Dicts, NEW name \in Counter, NEW v \in Nat \ {0}
  PROVE  /\ Incr(c, name, v) \in Dicts
         /\ \A m : Value(Incr(c, name, v), m) = Value(c, m) + (IF m = name THEN v ELSE 0)
         /\ Incr(c, name, v) # <<>>
         /\ c # <<>> => Incr(c, name, v)[1].name = c[1].name
         /\ c = <<>> => Incr(c, name, v)[1].name = name
<1> DEFINE p == SelectInSeq(c, LAMBDA e : e.name = name)
           d == Incr(c, name, v)
<1>1. /\ p = 0 => \A i \in 1..Len(c) : c[i].name # name
      /\ p # 0 => p \in 1..Len(c) /\ c[p].name = name
  BY PlaceInDict
<1>2. d = IF p = 0 THEN Append(c, [name |-> name, value |-> v])
          ELSE [c EXCEPT ![p].value = @ + v]
  BY DEF Incr
<1>3. c \in Seq(Entry) /\ \A i, j \in 1..Len(c) : c[i].name = c[j].name => i = j
  BY DEF Dicts
<1>4. \A i \in 1..Len(c) : c[i] \in Entry
  BY <1>3
<1> HIDE DEF p, d
<1>5. CASE p = 0
  <2> DEFINE e == [name |-> name, value |-> v]
  <2>1. d = Append(c, e) /\ e \in Entry
    BY <1>2, <1>5 DEF Entry
  <2>2. /\ d \in Seq(Entry) /\ Len(d) = Len(c) + 1 /\ Len(c) \in Nat
        /\ d[Len(c) + 1] = e
        /\ \A i \in 1..Len(c) : d[i] = c[i]
    BY <1>3, <2>1
  <2>3. d \in Dicts
    <3>1. \A i, j \in 1..Len(d) : d[i].name = d[j].name => i = j
      BY <1>1, <1>3, <1>5, <2>2
    <3> QED  BY <2>2, <3>1 DEF Dicts
  <2>4. ASSUME NEW m PROVE Value(d, m) = Value(c, m) + (IF m = name THEN v ELSE 0)
    <3>1. CASE m = name
      <4>1. Value(d, m) = v /\ Value(c, m) = 0
        BY <1>1, <1>5, <2>2, <2>3, <3>1, ValueInDict
      <4> QED  BY <3>1, <4>1
    <3>2. CASE m # name /\ \E i \in 1..Len(c) : c[i].name = m
      <4>1. PICK i \in 1..Len(c) : c[i].name = m
        BY <3>2
      <4>2. i \in 1..Len(d) /\ d[i].name = m
        BY <2>2, <4>1
      <4>3. Value(d, m) = d[i].value /\ Value(c, m) = c[i].value /\ Value(c, m) \in Nat
        BY <2>3, <4>1, <4>2, ValueInDict
      <4> QED  BY <2>2, <3>2, <4>1, <4>3
    <3>3. CASE m # name /\ ~ \E i \in 1..Len(c) : c[i].name = m
      <4>1. \A i \in 1..Len(d) : d[i].name # m
        BY <2>2, <3>3
      <4>2. Value(d, m) = 0 /\ Value(c, m) = 0
        BY <2>3, <3>3, <4>1, ValueInDict
      <4> QED  BY <3>3, <4>2
    <3> QED  BY <3>1, <3>2, <3>3
  <2>5. d # <<>> /\ (c # <<>> => d[1].name = c[1].name) /\ (c = <<>> => d[1].name = name)
    <3>1. d # <<>>
      BY <2>2
    <3>2. c # <<>> => 1 \in 1..Len(c)
      BY <1>3
    <3>3. c = <<>> => Len(c) = 0
      OBVIOUS
    <3> QED  BY <2>2, <3>1, <3>2, <3>3
  <2> QED  BY <2>3, <2>4, <2>5 DEF d
<1>6. CASE p # 0
  <2>1. p \in 1..Len(c) /\ c[p].name = name
    BY <1>1, <1>6
  <2>2. c[p] \in Entry
    BY <1>4, <2>1
  <2>3. [name |-> name, value |-> c[p].value + v] \in Entry
    BY <2>2 DEF Entry
  <2>4. d = [c EXCEPT ![p] = [name |-> name, value |-> c[p].value + v]]
    <3>1. [c[p] EXCEPT !.value = @ + v] = [name |-> name, value |-> c[p].value + v]
      BY <2>1, <2>2 DEF Entry
    <3>2. d = [c EXCEPT ![p].value = @ + v]
      BY <1>2, <1>6
    <3> QED  BY <1>3, <2>1, <3>1, <3>2
  <2>5. d \in Seq(Entry) /\ Len(d) = Len(c) /\ d[p] = [name |-> name, value |-> c[p].value + v]
        /\ \A i \in 1..Len(c) : i # p => d[i] = c[i]
    BY <1>3, <2>1, <2>3, <2>4, ExceptSeq
  <2>6. \A i \in 1..Len(c) : d[i].name = c[i].name
    <3>1. d[p].name = c[p].name
      BY <2>1, <2>5
    <3> QED  BY <2>5, <3>1
  <2>7. d \in Dicts
    BY <1>3, <2>5, <2>6 DEF Dicts
  <2>8. ASSUME NEW m PROVE Value(d, m) = Value(c, m) + (IF m = name THEN v ELSE 0)
    <3>1. CASE m = name
      <4>1. p \in 1..Len(d) /\ d[p].name = m /\ c[p].name = m
        BY <2>1, <2>5, <2>6, <3>1
      <4>2. Value(d, m) = d[p].value /\ Value(c, m) = c[p].value
        BY <2>1, <2>7, <4>1, ValueInDict
      <4> QED  BY <2>5, <3>1, <4>2
    <3>2. CASE m # name /\ \E i \in 1..Len(c) : c[i].name = m
      <4>1. PICK i \in 1..Len(c) : c[i].name = m
        BY <3>2
      <4>2. i \in 1..Len(d) /\ d[i].name = m /\ d[i] = c[i]
        BY <2>1, <2>5, <2>6, <3>2, <4>1
      <4>3. Value(d, m) = d[i].value /\ Value(c, m) = c[i].value /\ Value(c, m) \in Nat
        BY <2>7, <4>1, <4>2, ValueInDict
      <4> QED  BY <3>2, <4>2, <4>3
    <3>3. CASE m # name /\ ~ \E i \in 1..Len(c) : c[i].name = m
      <4>1. \A i \in 1..Len(d) : d[i].name # m
        BY <2>5, <2>6, <3>3
      <4>2. Value(d, m) = 0 /\ Value(c, m) = 0
        BY <2>7, <3>3, <4>1, ValueInDict
      <4> QED  BY <3>3, <4>2
    <3> QED  BY <3>1, <3>2, <3>3
  <2>9. d # <<>> /\ c # <<>> /\ d[1].name = c[1].name
    BY <1>3, <2>1, <2>5, <2>6
  <2> QED  BY <2>7, <2>8, <2>9 DEF d
<1> QED
  BY <1>5, <1>6

(* The first counters of a dict. *)
LEMMA FirstCounters ==
  ASSUME NEW c \in Dicts, NEW k \in 0..Len(c)
  PROVE  /\ SubSeq(c, 1, k) \in Dicts
         /\ k = 0 => \A m : Value(SubSeq(c, 1, k), m) = 0
         /\ k > 0 => \A m : Value(SubSeq(c, 1, k), m)
                              = Value(SubSeq(c, 1, k - 1), m) + (IF m = c[k].name THEN c[k].value ELSE 0)
         /\ \A m : Value(SubSeq(c, 1, k), m) \in {0, Value(c, m)}
         /\ \A i \in 1..k : Value(SubSeq(c, 1, k), c[i].name) = Value(c, c[i].name)
         /\ SubSeq(c, 1, Len(c)) = c
<1>1. c \in Seq(Entry) /\ \A i, j \in 1..Len(c) : c[i].name = c[j].name => i = j
  BY DEF Dicts
<1>2. \A i \in 1..Len(c) : c[i] \in Entry
  BY <1>1
<1>3. \A e \in Entry : e.value \in Nat
  BY DEF Entry
<1>4. ASSUME NEW n \in 0..Len(c)
      PROVE  /\ SubSeq(c, 1, n) \in Dicts /\ Len(SubSeq(c, 1, n)) = n
             /\ \A i \in 1..n : SubSeq(c, 1, n)[i] = c[i]
  <2>1. /\ SubSeq(c, 1, n) \in Seq(Entry) /\ Len(SubSeq(c, 1, n)) = n
        /\ \A i \in 1..n : SubSeq(c, 1, n)[i] = c[i]
    BY <1>1, SubSeqProperties
  <2>2. \A i, j \in 1..n : SubSeq(c, 1, n)[i].name = SubSeq(c, 1, n)[j].name => i = j
    BY <1>1, <2>1
  <2> QED  BY <2>1, <2>2 DEF Dicts
<1>5. ASSUME NEW n \in 0..Len(c), NEW m
      PROVE  /\ \A i \in 1..n : c[i].name = m => /\ Value(SubSeq(c, 1, n), m) = c[i].value
                                                 /\ Value(c, m) = c[i].value
             /\ (\A i \in 1..n : c[i].name # m) => Value(SubSeq(c, 1, n), m) = 0
             /\ Value(SubSeq(c, 1, n), m) \in Nat
  <2> DEFINE d == SubSeq(c, 1, n)
  <2>1. d \in Dicts /\ Len(d) = n /\ \A i \in 1..n : d[i] = c[i]
    BY <1>4
  <2> HIDE DEF d
  <2>2. /\ Value(d, m) \in Nat
        /\ \A i \in 1..n : d[i].name = m => Value(d, m) = d[i].value
        /\ (\A i \in 1..n : d[i].name # m) => Value(d, m) = 0
    BY <2>1, ValueInDict
  <2>3. \A i \in 1..Len(c) : c[i].name = m => Value(c, m) = c[i].value
    BY ValueInDict
  <2>4. \A i \in 1..n : i \in 1..Len(c)
    BY <1>1
  <2> QED  BY <2>1, <2>2, <2>3, <2>4 DEF d
<1>6. k = 0 => \A m : Value(SubSeq(c, 1, k), m) = 0
  BY <1>5
<1>7. ASSUME k > 0, NEW m
      PROVE  Value(SubSeq(c, 1, k), m)
               = Value(SubSeq(c, 1, k - 1), m) + (IF m = c[k].name THEN c[k].value ELSE 0)
  <2>1. k \in 1..Len(c) /\ k - 1 \in 0..Len(c) /\ c[k].value \in Nat /\ k \in 1..k
    BY <1>1, <1>2, <1>3, <1>7
  <2>2. CASE m = c[k].name
    <3>1. Value(SubSeq(c, 1, k), m) = c[k].value
      BY <1>5, <2>1, <2>2
    <3>2. \A i \in 1..(k - 1) : c[i].name # m
      BY <1>1, <2>1, <2>2
    <3>3. Value(SubSeq(c, 1, k - 1), m) = 0
      BY <1>5, <2>1, <3>2
    <3> QED  BY <2>1, <2>2, <3>1, <3>3
  <2>3. CASE m # c[k].name /\ \E i \in 1..(k - 1) : c[i].name = m
    <3>1. PICK i \in 1..(k - 1) : c[i].name = m
      BY <2>3
    <3>2. i \in 1..k
      OBVIOUS
    <3>3. Value(SubSeq(c, 1, k), m) = c[i].value /\ Value(SubSeq(c, 1, k - 1), m) = c[i].value
      BY <1>5, <2>1, <3>1, <3>2
    <3>4. Value(SubSeq(c, 1, k - 1), m) \in Nat
      BY <1>5, <2>1
    <3> QED  BY <2>3, <3>3, <3>4
  <2>4. CASE m # c[k].name /\ ~ \E i \in 1..(k - 1) : c[i].name = m
    <3>1. \A i \in 1..k : c[i].name # m
      BY <2>4
    <3>2. Value(SubSeq(c, 1, k), m) = 0 /\ Value(SubSeq(c, 1, k - 1), m) = 0
      BY <1>5, <2>1, <2>4, <3>1
    <3> QED  BY <2>4, <3>2
  <2> QED  BY <2>2, <2>3, <2>4
<1>8. ASSUME NEW m PROVE Value(SubSeq(c, 1, k), m) \in {0, Value(c, m)}
  BY <1>5
<1>9. \A i \in 1..k : Value(SubSeq(c, 1, k), c[i].name) = Value(c, c[i].name)
  BY <1>5
<1>10. SubSeq(c, 1, Len(c)) = c
  BY <1>1, SubSeqFull
<1> QED
  BY <1>4, <1>6, <1>7, <1>8, <1>9, <1>10

(* flush(), on an error, adds what it had taken (metrics.py:82-85): no     *)
(* count is lost or doubled, and the order is that of the first dict, or   *)
(* if that is empty, of the second.                                        *)
LEMMA FoldBackAdds ==
  ASSUME counts \in Dicts, NEW c \in Dicts
  PROVE  /\ FoldBack(c) \in Dicts
         /\ \A m : Value(FoldBack(c), m) = Value(counts, m) + Value(c, m)
         /\ counts # <<>> => FoldBack(c) # <<>> /\ FoldBack(c)[1].name = counts[1].name
         /\ counts = <<>> /\ c # <<>> => FoldBack(c) # <<>> /\ FoldBack(c)[1].name = c[1].name
<1> DEFINE n == Len(c)
           G == [k \in 1..n |-> [d \in Dicts |-> Incr(d, c[k].name, c[k].value)]]
           F == CHOOSE iter : iter = [s \in SUBSET DOMAIN c |->
                  IF s = {} THEN counts
                  ELSE Incr(iter[s \ {Max(s)}], c[Max(s)].name, c[Max(s)].value)]
<1>1. FoldBack(c) = F[DOMAIN c]
  BY DEF FoldBack, FoldLeft, MapThenFoldSet
<1>2. n \in Nat /\ DOMAIN c = 1..n /\ \A k \in 1..n : c[k] \in Entry
  BY DEF Dicts
<1>3. \A k \in 1..n : c[k].name \in Counter /\ c[k].value \in Nat \ {0}
  BY <1>2 DEF Entry
<1>4. G \in [1..n -> [Dicts -> Dicts]]
  BY <1>3, IncrAdds
<1>5. PICK it \in [SUBSET (1..n) -> Dicts] : IsFold(it, n, counts, G)
  BY <1>2, <1>4, FoldExists
<1>6. it = [s \in SUBSET DOMAIN c |->
              IF s = {} THEN counts
              ELSE Incr(it[s \ {Max(s)}], c[Max(s)].name, c[Max(s)].value)]
  <2>1. ASSUME NEW s \in SUBSET (1..n)
        PROVE  it[s] = IF s = {} THEN counts
                       ELSE Incr(it[s \ {Max(s)}], c[Max(s)].name, c[Max(s)].value)
    <3>1. s \in SUBSET (0..n)
      OBVIOUS
    <3>2. s # {} => Max(s) \in 1..n
      BY <1>2, <3>1, MaxIsLast
    <3>3. it[s \ {Max(s)}] \in Dicts
      OBVIOUS
    <3>4. s # {} => G[Max(s)][it[s \ {Max(s)}]]
                      = Incr(it[s \ {Max(s)}], c[Max(s)].name, c[Max(s)].value)
      BY <3>2, <3>3
    <3>5. it[s] = IF s = {} THEN counts ELSE G[Max(s)][it[s \ {Max(s)}]]
      BY <1>5 DEF IsFold
    <3> QED  BY <3>4, <3>5
  <2> QED  BY <1>2, <2>1
<1> HIDE DEF G
<1>7. F = [s \in SUBSET DOMAIN c |->
             IF s = {} THEN counts
             ELSE Incr(F[s \ {Max(s)}], c[Max(s)].name, c[Max(s)].value)]
  BY <1>6
<1> HIDE DEF F
<1>8. F[1..0] = counts /\ \A k \in 1..n : F[1..k] = Incr(F[1..(k - 1)], c[k].name, c[k].value)
  <2>1. \A s \in SUBSET (1..n) :
           F[s] = IF s = {} THEN counts
                  ELSE Incr(F[s \ {Max(s)}], c[Max(s)].name, c[Max(s)].value)
    BY <1>2, <1>7
  <2>2. 1..0 = {} /\ {} \in SUBSET (1..n)
    OBVIOUS
  <2> QED  BY <1>2, <2>1, <2>2, LastPlace
<1> DEFINE Good(k) == /\ F[1..k] \in Dicts
                      /\ \A m : Value(F[1..k], m) = Value(counts, m) + Value(SubSeq(c, 1, k), m)
                      /\ counts # <<>> => F[1..k] # <<>> /\ F[1..k][1].name = counts[1].name
                      /\ counts = <<>> /\ k > 0 => F[1..k] # <<>> /\ F[1..k][1].name = c[1].name
           P == {k \in Nat : k <= n => Good(k)}
<1>9. 0 \in P
  <2>1. \A m : Value(counts, m) \in Nat /\ Value(SubSeq(c, 1, 0), m) = 0
    BY <1>2, ValueInDict, FirstCounters
  <2>2. Good(0)
    BY <1>8, <2>1
  <2> QED  BY <2>2
<1>10. ASSUME NEW k \in Nat, k \in P PROVE k + 1 \in P
  <2> SUFFICES ASSUME k + 1 <= n PROVE Good(k + 1)
    OBVIOUS
  <2>1. Good(k) /\ k + 1 \in 1..n /\ (k + 1) - 1 = k /\ k + 1 > 0 /\ k + 1 \in 0..n
    BY <1>2, <1>10
  <2> DEFINE d == F[1..k]
             e == F[1..(k + 1)]
             v == c[k + 1].value
             name == c[k + 1].name
  <2>2. e = Incr(d, name, v) /\ d \in Dicts /\ name \in Counter /\ v \in Nat \ {0}
    BY <1>3, <1>8, <2>1
  <2>3. /\ e \in Dicts
        /\ \A m : Value(e, m) = Value(d, m) + (IF m = name THEN v ELSE 0)
        /\ e # <<>>
        /\ d # <<>> => e[1].name = d[1].name
        /\ d = <<>> => e[1].name = name
    <3> HIDE DEF d, e, v, name
    <3> QED  BY <2>2, IncrAdds
  <2>4. \A m : /\ Value(counts, m) \in Nat
               /\ Value(SubSeq(c, 1, k), m) \in Nat
               /\ Value(SubSeq(c, 1, k + 1), m)
                    = Value(SubSeq(c, 1, k), m) + (IF m = name THEN v ELSE 0)
    <3>1. SubSeq(c, 1, k) \in Dicts
      BY <1>2, <2>1, FirstCounters
    <3>2. \A m : Value(SubSeq(c, 1, k + 1), m)
                   = Value(SubSeq(c, 1, (k + 1) - 1), m) + (IF m = name THEN v ELSE 0)
      BY <2>1, FirstCounters
    <3> QED  BY <2>1, <3>1, <3>2, ValueInDict
  <2>5. \A m : Value(e, m) = Value(counts, m) + Value(SubSeq(c, 1, k + 1), m)
    BY <2>1, <2>2, <2>3, <2>4
  <2>6. counts # <<>> => e # <<>> /\ e[1].name = counts[1].name
    BY <2>1, <2>3
  <2>7. counts = <<>> => e # <<>> /\ e[1].name = c[1].name
    <3>1. k = 0 => d = counts
      BY <1>8
    <3> QED  BY <2>1, <2>3, <3>1
  <2> QED  BY <2>3, <2>5, <2>6, <2>7
<1>11. n \in P
  <2> HIDE DEF P
  <2> QED  BY <1>2, <1>9, <1>10, EveryNumber
<1>12. Good(n) /\ FoldBack(c) = F[1..n] /\ SubSeq(c, 1, n) = c /\ (c # <<>> => n > 0)
  BY <1>1, <1>2, <1>11, FirstCounters DEF Dicts
<1> QED
  BY <1>12

-----------------------------------------------------------------------------
(* What handle() counts for one payload (receiver.py:134-157).             *)
Outcomes == {"UNKNOWN_ROUTER", "PARSED", "PARSER_ERRORS"}

(* As many outcomes as receipts, and the receipts first. *)
Balanced(c) ==
  /\ Value(c, "UNKNOWN_ROUTER") + Value(c, "PARSED") + Value(c, "PARSER_ERRORS")
       = Value(c, "RECEIVED")
  /\ c # <<>> => c[1].name = "RECEIVED"

(* Every payload comes to one of the three outcomes, whatever the parser   *)
(* says.                                                                   *)
LEMMA OutcomeIsOne ==
  ASSUME allowed \in BOOLEAN, NEW payload
  PROVE  Outcome(payload) \in Outcomes /\ Outcome(payload) \in Counter
<1>1. Parses(payload) \in BOOLEAN
  BY DEF Parses
<1> QED
  BY <1>1, AccountingAssumption DEF Outcome, Outcomes

(* One payload adds a receipt and an outcome, the receipt first.           *)
LEMMA CountAdds ==
  ASSUME allowed \in BOOLEAN, NEW c \in Dicts, NEW payload
  PROVE  /\ Count(c, payload) \in Dicts
         /\ \A m : Value(Count(c, payload), m)
                     = Value(c, m) + (IF m \in {"RECEIVED", Outcome(payload)} THEN 1 ELSE 0)
         /\ Balanced(c) => Balanced(Count(c, payload))
<1> DEFINE o == Outcome(payload)
           d == Incr(c, "RECEIVED", 1)
           e == Incr(d, o, 1)
<1>1. Count(c, payload) = e
  BY DEF Count
<1>2. o \in Outcomes /\ o \in Counter /\ "RECEIVED" \in Counter /\ o # "RECEIVED"
  BY OutcomeIsOne, AccountingAssumption DEF Outcomes
<1> HIDE DEF o
<1>3. /\ d \in Dicts /\ \A m : Value(d, m) = Value(c, m) + (IF m = "RECEIVED" THEN 1 ELSE 0)
      /\ d # <<>>
      /\ c # <<>> => d[1].name = c[1].name
      /\ c = <<>> => d[1].name = "RECEIVED"
  BY <1>2, IncrAdds
<1> HIDE DEF d
<1>4. /\ e \in Dicts /\ \A m : Value(e, m) = Value(d, m) + (IF m = o THEN 1 ELSE 0)
      /\ e[1].name = d[1].name
  BY <1>2, <1>3, IncrAdds
<1> HIDE DEF e
<1>5. \A m : Value(c, m) \in Nat
  BY ValueInDict
<1>6. \A m : Value(e, m) = Value(c, m) + (IF m \in {"RECEIVED", o} THEN 1 ELSE 0)
  BY <1>2, <1>3, <1>4, <1>5
<1>7. Balanced(c) => Balanced(e)
  <2>1. Balanced(c) => e[1].name = "RECEIVED"
    BY <1>3, <1>4 DEF Balanced
  <2>2. /\ Value(e, "RECEIVED") = Value(c, "RECEIVED") + 1
        /\ Value(e, o) = Value(c, o) + 1
        /\ \A m \in Outcomes \ {o} : Value(e, m) = Value(c, m)
    BY <1>2, <1>5, <1>6 DEF Outcomes
  <2>3. ASSUME Balanced(c)
        PROVE  Value(e, "UNKNOWN_ROUTER") + Value(e, "PARSED") + Value(e, "PARSER_ERRORS")
                 = Value(e, "RECEIVED")
    <3>1. CASE o = "UNKNOWN_ROUTER"
      BY <1>5, <2>2, <2>3, <3>1 DEF Balanced, Outcomes
    <3>2. CASE o = "PARSED"
      BY <1>5, <2>2, <2>3, <3>2 DEF Balanced, Outcomes
    <3>3. CASE o = "PARSER_ERRORS"
      BY <1>5, <2>2, <2>3, <3>3 DEF Balanced, Outcomes
    <3> QED  BY <1>2, <3>1, <3>2, <3>3 DEF Outcomes
  <2> QED  BY <2>1, <2>3 DEF Balanced
<1> QED
  BY <1>1, <1>4, <1>6, <1>7 DEF o

(* How many of the first k payloads come to the outcome m. *)
Come(ps, k, m) == {i \in 1..k : Outcome(ps[i]) = m}
Comes(ps, k, m) == IF m = Outcome(ps[k]) THEN 1 ELSE 0

(* Counting on by one payload.                                             *)
LEMMA OneMoreComes ==
  ASSUME NEW ps, NEW k \in Nat, NEW m
  PROVE  /\ Cardinality(Come(ps, 0, m)) = 0
         /\ Cardinality(Come(ps, k, m)) \in Nat
         /\ Cardinality(Come(ps, k + 1, m)) = Cardinality(Come(ps, k, m)) + Comes(ps, k + 1, m)
<1>1. IsFiniteSet(1..k) /\ Come(ps, k, m) \subseteq 1..k /\ k + 1 \notin Come(ps, k, m)
  BY FS_Interval DEF Come
<1>2. IsFiniteSet(Come(ps, k, m))
  BY <1>1, FS_Subset
<1>3. Come(ps, 0, m) = {}
  BY DEF Come
<1>4. Come(ps, k + 1, m) = IF m = Outcome(ps[k + 1]) THEN Come(ps, k, m) \cup {k + 1}
                                                     ELSE Come(ps, k, m)
  <2>1. 1..(k + 1) = (1..k) \cup {k + 1}
    OBVIOUS
  <2> QED  BY <2>1 DEF Come
<1>5. Cardinality(Come(ps, k, m)) \in Nat /\ Cardinality(Come(ps, 0, m)) = 0
  BY <1>2, <1>3, FS_CardinalityType, FS_EmptySet
<1>6. Cardinality(Come(ps, k, m) \cup {k + 1}) = Cardinality(Come(ps, k, m)) + 1
  BY <1>1, <1>2, FS_AddElement
<1> QED
  BY <1>4, <1>5, <1>6 DEF Comes

(* What is counted for all of them. *)
CountAll(ps) == FoldLeft(Count, counts, ps)

(* The payloads of a chunk add as many receipts as they are, and to every  *)
(* outcome as many as come to it.                                          *)
LEMMA CountAllAdds ==
  ASSUME counts \in Dicts, allowed \in BOOLEAN, NEW n \in Nat, NEW ps, DOMAIN ps = 1..n
  PROVE  LET d == CountAll(ps)
         IN /\ d \in Dicts
            /\ Value(d, "RECEIVED") = Value(counts, "RECEIVED") + n
            /\ \A m \in Outcomes : Value(d, m) = Value(counts, m) + Cardinality(Come(ps, n, m))
            /\ Balanced(counts) => Balanced(d)
<1> DEFINE G == [k \in 1..n |-> [c \in Dicts |-> Count(c, ps[k])]]
           F == CHOOSE iter : iter = [s \in SUBSET DOMAIN ps |->
                  IF s = {} THEN counts
                  ELSE Count(iter[s \ {Max(s)}], ps[Max(s)])]
<1>1. CountAll(ps) = F[DOMAIN ps]
  BY DEF CountAll, FoldLeft, MapThenFoldSet
<1>2. G \in [1..n -> [Dicts -> Dicts]]
  BY CountAdds
<1>3. PICK it \in [SUBSET (1..n) -> Dicts] : IsFold(it, n, counts, G)
  BY <1>2, FoldExists
<1>4. it = [s \in SUBSET DOMAIN ps |->
              IF s = {} THEN counts
              ELSE Count(it[s \ {Max(s)}], ps[Max(s)])]
  <2>1. ASSUME NEW s \in SUBSET (1..n)
        PROVE  it[s] = IF s = {} THEN counts ELSE Count(it[s \ {Max(s)}], ps[Max(s)])
    <3>1. s \in SUBSET (0..n)
      OBVIOUS
    <3>2. s # {} => Max(s) \in 1..n
      BY <3>1, MaxIsLast
    <3>3. it[s \ {Max(s)}] \in Dicts
      OBVIOUS
    <3>4. s # {} => G[Max(s)][it[s \ {Max(s)}]] = Count(it[s \ {Max(s)}], ps[Max(s)])
      BY <3>2, <3>3
    <3>5. it[s] = IF s = {} THEN counts ELSE G[Max(s)][it[s \ {Max(s)}]]
      BY <1>3 DEF IsFold
    <3> QED  BY <3>4, <3>5
  <2> QED  BY <2>1
<1> HIDE DEF G
<1>5. F = [s \in SUBSET DOMAIN ps |->
             IF s = {} THEN counts
             ELSE Count(F[s \ {Max(s)}], ps[Max(s)])]
  BY <1>4
<1> HIDE DEF F
<1>6. F[1..0] = counts /\ \A k \in 1..n : F[1..k] = Count(F[1..(k - 1)], ps[k])
  <2>1. \A s \in SUBSET (1..n) :
           F[s] = IF s = {} THEN counts ELSE Count(F[s \ {Max(s)}], ps[Max(s)])
    BY <1>5
  <2>2. 1..0 = {} /\ {} \in SUBSET (1..n)
    OBVIOUS
  <2> QED  BY <2>1, <2>2, LastPlace
<1> DEFINE Good(k) ==
             /\ F[1..k] \in Dicts
             /\ Value(F[1..k], "RECEIVED") = Value(counts, "RECEIVED") + k
             /\ \A m \in Outcomes : Value(F[1..k], m) = Value(counts, m) + Cardinality(Come(ps, k, m))
             /\ Balanced(counts) => Balanced(F[1..k])
           P == {k \in Nat : k <= n => Good(k)}
<1>7. 0 \in P
  <2>1. \A m : Value(counts, m) \in Nat /\ Cardinality(Come(ps, 0, m)) = 0
    BY ValueInDict, OneMoreComes
  <2>2. Good(0)
    BY <1>6, <2>1
  <2> QED  BY <2>2
<1>8. ASSUME NEW k \in Nat, k \in P PROVE k + 1 \in P
  <2> SUFFICES ASSUME k + 1 <= n PROVE Good(k + 1)
    OBVIOUS
  <2>1. Good(k) /\ k + 1 \in 1..n /\ (k + 1) - 1 = k
    BY <1>8
  <2> DEFINE d == F[1..k]
             e == F[1..(k + 1)]
             o == Outcome(ps[k + 1])
  <2>2. /\ e \in Dicts
        /\ \A m : Value(e, m) = Value(d, m) + (IF m \in {"RECEIVED", o} THEN 1 ELSE 0)
        /\ Balanced(d) => Balanced(e)
    <3>1. e = Count(d, ps[k + 1]) /\ d \in Dicts
      BY <1>6, <2>1
    <3> HIDE DEF d, e
    <3> QED  BY <3>1, CountAdds
  <2>3. \A m : /\ Value(counts, m) \in Nat
               /\ Cardinality(Come(ps, k, m)) \in Nat
               /\ Cardinality(Come(ps, k + 1, m))
                    = Cardinality(Come(ps, k, m)) + (IF m = o THEN 1 ELSE 0)
    <3>1. \A m : /\ Cardinality(Come(ps, k, m)) \in Nat
                 /\ Cardinality(Come(ps, k + 1, m))
                      = Cardinality(Come(ps, k, m)) + Comes(ps, k + 1, m)
      BY OneMoreComes
    <3> QED  BY <3>1, ValueInDict DEF Comes
  <2>4. Value(e, "RECEIVED") = Value(counts, "RECEIVED") + (k + 1)
    BY <2>1, <2>2, <2>3
  <2>5. ASSUME NEW m \in Outcomes
        PROVE  Value(e, m) = Value(counts, m) + Cardinality(Come(ps, k + 1, m))
    <3>1. m # "RECEIVED"
      BY DEF Outcomes
    <3>2. Value(d, m) = Value(counts, m) + Cardinality(Come(ps, k, m))
      BY <2>1
    <3>3. Value(e, m) = Value(d, m) + (IF m = o THEN 1 ELSE 0)
      BY <2>2, <3>1
    <3> HIDE DEF o
    <3> QED  BY <2>3, <3>2, <3>3
  <2> QED  BY <2>1, <2>2, <2>4, <2>5
<1>9. n \in P
  <2> HIDE DEF P
  <2> QED  BY <1>7, <1>8, EveryNumber
<1>10. Good(n) /\ CountAll(ps) = F[1..n]
  BY <1>1, <1>9
<1> QED
  BY <1>10

-----------------------------------------------------------------------------
(* What the bytes of a connection are cut into (receiver.py:241-253).      *)
Byte == {"x", "digit", "SP", "CR", "LF"}

(* The buffer is cut to MAX_LINE (receiver.py:243-245).                    *)
LEMMA KeepBounds ==
  ASSUME NEW b \in Seq(Byte)
  PROVE  Keep(b) \in Seq(Byte) /\ Len(Keep(b)) <= MaxLine
<1> DEFINE m == Max({1, Len(b) - MaxLine + 1})
<1>1. MaxLine \in Nat \ {0} /\ Len(b) \in Nat
  BY FramingAssumption
<1>2. m \in {1, Len(b) - MaxLine + 1} /\ \A y \in {1, Len(b) - MaxLine + 1} : m >= y
  <2>1. \E x \in {1, Len(b) - MaxLine + 1} : \A y \in {1, Len(b) - MaxLine + 1} : x >= y
    <3>1. CASE 1 >= Len(b) - MaxLine + 1
      BY <3>1
    <3>2. CASE ~(1 >= Len(b) - MaxLine + 1)
      BY <1>1, <3>2
    <3> QED  BY <3>1, <3>2
  <2> QED  BY <2>1 DEF Max
<1> HIDE DEF m
<1>3. m \in 1..(Len(b) + 1) /\ Len(b) - m + 1 <= MaxLine /\ 0 <= Len(b) - m + 1
  BY <1>1, <1>2
<1>4. Keep(b) = SubSeq(b, m, Len(b))
  BY DEF Keep, m
<1>5. SubSeq(b, m, Len(b)) \in Seq(Byte)
      /\ Len(SubSeq(b, m, Len(b))) = IF m <= Len(b) THEN Len(b) - m + 1 ELSE 0
  BY <1>1, <1>3, SubSeqProperties
<1> QED
  BY <1>1, <1>3, <1>4, <1>5

(* What the loop leaves over is no longer than the bytes, and without a    *)
(* line feed (receiver.py:246-251).                                        *)
LEMMA RestHasNoBreak ==
  ASSUME NEW b \in Seq(Byte)
  PROVE  Rest(b) \in Seq(Byte) /\ Len(Rest(b)) <= Len(b) /\ Breaks(Rest(b)) = {}
<1> DEFINE S == Breaks(b) \cup {0}
           m == Max(S)
<1>1. Len(b) \in Nat /\ DOMAIN b = 1..Len(b)
  OBVIOUS
<1>2. S \in SUBSET (0..Len(b)) /\ S # {}
  BY <1>1 DEF Breaks
<1>3. m \in S /\ \A i \in S : i <= m
  BY <1>1, <1>2, MaxIsLast
<1>4. m \in 0..Len(b)
  BY <1>2, <1>3
<1>11. \A i \in Breaks(b) : i <= m
  BY <1>3
<1>5. Rest(b) = SubSeq(b, m + 1, Len(b))
  BY DEF Rest
<1> HIDE DEF m, S
<1>6. m + 1 \in 1..(Len(b) + 1) /\ Len(b) \in 0..Len(b)
  BY <1>1, <1>4
<1>7. /\ SubSeq(b, m + 1, Len(b)) \in Seq(Byte)
      /\ Len(SubSeq(b, m + 1, Len(b))) = Len(b) - m
      /\ \A i \in 1..(Len(b) - m) : SubSeq(b, m + 1, Len(b))[i] = b[m + i]
  <2>1. /\ SubSeq(b, m + 1, Len(b)) \in Seq(Byte)
        /\ Len(SubSeq(b, m + 1, Len(b))) = IF m + 1 <= Len(b) THEN Len(b) - (m + 1) + 1 ELSE 0
        /\ \A i \in 1..(Len(b) - (m + 1) + 1) : SubSeq(b, m + 1, Len(b))[i] = b[(m + 1) + i - 1]
    BY <1>6, SubSeqProperties
  <2>2. \A i \in 1..(Len(b) - m) : (m + 1) + i - 1 = m + i
    BY <1>4
  <2>3. Len(b) - (m + 1) + 1 = Len(b) - m
    BY <1>1, <1>4
  <2>4. (IF m + 1 <= Len(b) THEN Len(b) - (m + 1) + 1 ELSE 0) = Len(b) - m
    <3>1. CASE m = Len(b)
      BY <1>1, <3>1
    <3>2. CASE m + 1 <= Len(b)
      BY <2>3, <3>2
    <3>3. m \in Nat /\ m <= Len(b) /\ Len(b) \in Nat
      BY <1>1, <1>4
    <3>4. m = Len(b) \/ m + 1 <= Len(b)
      BY <3>3
    <3> QED  BY <3>1, <3>2, <3>4
  <2>5. ASSUME NEW i \in 1..(Len(b) - m) PROVE SubSeq(b, m + 1, Len(b))[i] = b[m + i]
    BY <2>1, <2>2, <2>3
  <2> QED  BY <2>1, <2>4, <2>5
<1>8. ASSUME NEW i \in 1..(Len(b) - m) PROVE Rest(b)[i] # "LF"
  <2>1. m + i \in 1..Len(b) /\ ~(m + i <= m)
    BY <1>1, <1>4
  <2>2. b[m + i] # "LF"
    BY <1>1, <1>11, <2>1 DEF Breaks
  <2> QED  BY <1>5, <1>7, <2>2
<1>9. Rest(b) \in Seq(Byte) /\ Len(Rest(b)) = Len(b) - m
  BY <1>5, <1>7
<1>10. Breaks(Rest(b)) = {}
  <2>1. DOMAIN Rest(b) = 1..(Len(b) - m)
    BY <1>9
  <2> QED  BY <1>8, <2>1 DEF Breaks
<1> QED
  BY <1>1, <1>4, <1>9, <1>10

(* The payloads are a sequence. *)
LEMMA PayloadsAreASeq ==
  ASSUME NEW b \in Seq(Byte)
  PROVE  \E S : Payloads(b) \in Seq(S)
<1> DEFINE ls == CutLines(b)
           n == Cardinality(Breaks(b))
           S == {StripOctetCount(StripReturns(ls[k])) : k \in 1..n}
           G == [k \in 1..n |-> [p \in Seq(S) |-> Handle(p, ls[k])]]
           F == CHOOSE iter : iter = [s \in SUBSET DOMAIN ls |->
                  IF s = {} THEN <<>> ELSE Handle(iter[s \ {Max(s)}], ls[Max(s)])]
<1>1. Payloads(b) = F[DOMAIN ls]
  BY DEF Payloads, FoldLeft, MapThenFoldSet
<1>2. DOMAIN ls = 1..n /\ n \in Nat
  <2>1. Breaks(b) \subseteq 1..Len(b) /\ IsFiniteSet(1..Len(b))
    BY FS_Interval DEF Breaks
  <2> QED  BY <2>1, FS_Subset, FS_CardinalityType DEF CutLines
<1> HIDE DEF ls, n
<1>3. ASSUME NEW k \in 1..n, NEW p \in Seq(S) PROVE Handle(p, ls[k]) \in Seq(S)
  BY DEF Handle
<1> HIDE DEF S
<1>4. G \in [1..n -> [Seq(S) -> Seq(S)]] /\ <<>> \in Seq(S)
  BY <1>3
<1>5. PICK it \in [SUBSET (1..n) -> Seq(S)] : IsFold(it, n, <<>>, G)
  BY <1>2, <1>4, FoldExists
<1>6. it = [s \in SUBSET DOMAIN ls |->
              IF s = {} THEN <<>> ELSE Handle(it[s \ {Max(s)}], ls[Max(s)])]
  <2>1. ASSUME NEW s \in SUBSET (1..n)
        PROVE  it[s] = IF s = {} THEN <<>> ELSE Handle(it[s \ {Max(s)}], ls[Max(s)])
    <3>1. s \in SUBSET (0..n)
      OBVIOUS
    <3>2. s # {} => Max(s) \in 1..n
      BY <1>2, <3>1, MaxIsLast
    <3>3. it[s \ {Max(s)}] \in Seq(S)
      OBVIOUS
    <3>4. s # {} => G[Max(s)][it[s \ {Max(s)}]] = Handle(it[s \ {Max(s)}], ls[Max(s)])
      BY <3>2, <3>3
    <3>5. it[s] = IF s = {} THEN <<>> ELSE G[Max(s)][it[s \ {Max(s)}]]
      BY <1>5 DEF IsFold
    <3> QED  BY <3>4, <3>5
  <2> QED  BY <1>2, <2>1
<1> HIDE DEF G
<1>7. F = [s \in SUBSET DOMAIN ls |->
             IF s = {} THEN <<>> ELSE Handle(F[s \ {Max(s)}], ls[Max(s)])]
  BY <1>6
<1> HIDE DEF F
<1>8. F[1..0] = <<>> /\ \A k \in 1..n : F[1..k] = Handle(F[1..(k - 1)], ls[k])
  <2>1. \A s \in SUBSET (1..n) :
           F[s] = IF s = {} THEN <<>> ELSE Handle(F[s \ {Max(s)}], ls[Max(s)])
    BY <1>2, <1>7
  <2>2. 1..0 = {} /\ {} \in SUBSET (1..n)
    OBVIOUS
  <2> QED  BY <1>2, <2>1, <2>2, LastPlace
<1> DEFINE P == {k \in Nat : k <= n => F[1..k] \in Seq(S)}
<1>9. 0 \in P
  <2>1. F[1..0] \in Seq(S)
    BY <1>8, EmptySeq
  <2> QED  BY <2>1
<1>10. ASSUME NEW k \in Nat, k \in P PROVE k + 1 \in P
  <2> SUFFICES ASSUME k + 1 <= n PROVE F[1..(k + 1)] \in Seq(S)
    OBVIOUS
  <2>1. k + 1 \in 1..n /\ (k + 1) - 1 = k /\ F[1..k] \in Seq(S)
    BY <1>2, <1>10
  <2> QED  BY <1>3, <1>8, <2>1
<1>11. n \in P
  <2> HIDE DEF P
  <2> QED  BY <1>2, <1>9, <1>10, EveryNumber
<1> QED
  BY <1>1, <1>2, <1>11

(* What is joined from sequences grows by one of them at a time.           *)
LEMMA FlattenSteps ==
  ASSUME NEW S, NEW ss \in Seq(Seq(S))
  PROVE  \E f \in [0..Len(ss) -> Seq(S)] :
           /\ f[0] = <<>>
           /\ \A k \in 1..Len(ss) : f[k] = f[k - 1] \o ss[k]
           /\ FlattenSeq(ss) = f[Len(ss)]
<1> DEFINE n == Len(ss)
           G == [k \in 1..n |-> [v \in Seq(S) |-> v \o ss[k]]]
           F == CHOOSE f : f = [i \in 1..Len(ss) |->
                                  IF i = 1 THEN ss[i] ELSE f[i - 1] \o ss[i]]
<1>1. FlattenSeq(ss) = IF Len(ss) = 0 THEN ss ELSE F[Len(ss)]
  BY DEF FlattenSeq
<1>2. n \in Nat /\ \A k \in 1..n : ss[k] \in Seq(S)
  OBVIOUS
<1>3. G \in [1..n -> [Seq(S) -> Seq(S)]] /\ <<>> \in Seq(S)
  BY <1>2
<1>4. PICK it \in [SUBSET (1..n) -> Seq(S)] : IsFold(it, n, <<>>, G)
  BY <1>2, <1>3, FoldExists
<1>5. it[1..0] = <<>> /\ \A k \in 1..n : it[1..k] = it[1..(k - 1)] \o ss[k]
  <2>1. 1..0 = {} /\ {} \in SUBSET (1..n) /\ it[{}] = <<>>
    <3>1. it[{}] = <<>>
      <4> HIDE DEF G
      <4> QED  BY <1>4 DEF IsFold
    <3> QED  BY <3>1
  <2>2. ASSUME NEW k \in 1..n PROVE it[1..k] = it[1..(k - 1)] \o ss[k]
    <3>1. it[1..k] = G[k][it[1..(k - 1)]]
      <4>1. /\ 1..k \in SUBSET (1..n) /\ 1..k # {}
            /\ Max(1..k) = k /\ (1..k) \ {k} = 1..(k - 1)
        BY <1>2, LastPlace
      <4> QED  BY <1>4, <4>1 DEF IsFold
    <3>2. 1..(k - 1) \in SUBSET (1..n)
      BY <1>2
    <3>3. it[1..(k - 1)] \in Seq(S)
      BY <3>2
    <3> QED  BY <3>1, <3>3
  <2> QED  BY <2>1, <2>2
<1> DEFINE f0 == [i \in 1..n |-> it[1..i]]
<1>6. f0 = [i \in 1..Len(ss) |-> IF i = 1 THEN ss[i] ELSE f0[i - 1] \o ss[i]]
  <2>1. ASSUME NEW i \in 1..n PROVE f0[i] = IF i = 1 THEN ss[i] ELSE f0[i - 1] \o ss[i]
    <3>1. CASE i = 1
      <4>1. f0[i] = it[1..0] \o ss[i] /\ it[1..0] = <<>> /\ ss[i] \in Seq(S)
        <5>1. i - 1 = 0
          BY <3>1
        <5> QED  BY <1>2, <1>5, <5>1
      <4> QED  BY <3>1, <4>1
    <3>2. CASE i # 1
      <4>1. i - 1 \in 1..n
        BY <1>2, <3>2
      <4> QED  BY <1>5, <3>2, <4>1
    <3> QED  BY <3>1, <3>2
  <2> HIDE DEF f0
  <2>2. DOMAIN f0 = 1..Len(ss) /\ f0 = [i \in DOMAIN f0 |-> f0[i]]
    BY DEF f0
  <2> QED  BY <2>1, <2>2
<1> HIDE DEF f0
<1>7. F = [i \in 1..Len(ss) |-> IF i = 1 THEN ss[i] ELSE F[i - 1] \o ss[i]]
  BY <1>6
<1> HIDE DEF F, G
<1> DEFINE P == {k \in Nat : k \in 1..n => F[k] = it[1..k]}
<1>8. 0 \in P
  OBVIOUS
<1>9. ASSUME NEW k \in Nat, k \in P PROVE k + 1 \in P
  <2> SUFFICES ASSUME k + 1 \in 1..n PROVE F[k + 1] = it[1..(k + 1)]
    OBVIOUS
  <2> DEFINE j == k + 1
  <2>0. j \in 1..n /\ j - 1 = k /\ (k = 0 <=> j = 1) /\ ss[j] \in Seq(S)
    BY <1>2
  <2>1. /\ F[j] = IF j = 1 THEN ss[j] ELSE F[j - 1] \o ss[j]
        /\ it[1..j] = it[1..(j - 1)] \o ss[j]
    <3> HIDE DEF j
    <3>1. it[1..j] = it[1..(j - 1)] \o ss[j]
      BY <1>5, <2>0
    <3>2. F[j] = IF j = 1 THEN ss[j] ELSE F[j - 1] \o ss[j]
      <4>1. j \in 1..Len(ss)
        BY <2>0
      <4> QED  BY <1>7, <4>1
    <3> QED  BY <3>1, <3>2
  <2>2. k # 0 => k \in 1..n /\ F[k] = it[1..k]
    BY <1>2, <1>9
  <2> HIDE DEF j, P
  <2>3. CASE k = 0
    <3>1. it[1..(j - 1)] = <<>>
      BY <1>5, <2>0, <2>3
    <3>2. F[j] = it[1..j]
      BY <2>0, <2>1, <2>3, <3>1
    <3> QED  BY <3>2 DEF j
  <2>4. CASE k # 0
    <3>1. F[j - 1] = it[1..(j - 1)]
      BY <2>0, <2>2, <2>4
    <3>2. F[j] = it[1..j]
      BY <2>0, <2>1, <2>4, <3>1
    <3> QED  BY <3>2 DEF j
  <2> QED  BY <2>3, <2>4
<1>10. n \in P
  <2> HIDE DEF P
  <2> QED  BY <1>2, <1>8, <1>9, EveryNumber
<1>11. FlattenSeq(ss) = it[1..n]
  <2>1. CASE n = 0
    <3>1. ss = <<>>
      BY <2>1
    <3> QED  BY <1>1, <1>5, <2>1, <3>1
  <2>2. CASE n # 0
    BY <1>1, <1>2, <1>10, <2>2
  <2> QED  BY <2>1, <2>2
<1> DEFINE f == [k \in 0..n |-> it[1..k]]
<1>12. f \in [0..n -> Seq(S)]
  <2>1. \A k \in 0..n : 1..k \in SUBSET (1..n)
    BY <1>2
  <2> QED  BY <2>1
<1>13. /\ f[0] = <<>> /\ \A k \in 1..n : f[k] = f[k - 1] \o ss[k]
       /\ FlattenSeq(ss) = f[n]
  <2>1. \A k \in 1..n : k \in 0..n /\ k - 1 \in 0..n
    BY <1>2
  <2>2. 0 \in 0..n /\ n \in 0..n
    BY <1>2
  <2> QED  BY <1>5, <1>11, <2>1, <2>2
<1> QED
  BY <1>12, <1>13

(* One sequence more. *)
LEMMA FlattenOneMore ==
  ASSUME NEW S, NEW ss \in Seq(Seq(S)), NEW s \in Seq(S)
  PROVE  /\ FlattenSeq(Append(ss, s)) = FlattenSeq(ss) \o s
         /\ FlattenSeq(ss) \in Seq(S)
<1> DEFINE n == Len(ss)
           tt == Append(ss, s)
<1>1. /\ n \in Nat /\ tt \in Seq(Seq(S)) /\ Len(tt) = n + 1
      /\ tt[n + 1] = s /\ \A k \in 1..n : tt[k] = ss[k]
  OBVIOUS
<1>2. PICK f \in [0..n -> Seq(S)] :
        f[0] = <<>> /\ (\A k \in 1..n : f[k] = f[k - 1] \o ss[k]) /\ FlattenSeq(ss) = f[n]
  BY FlattenSteps
<1> HIDE DEF tt
<1>3. PICK g \in [0..(n + 1) -> Seq(S)] :
        g[0] = <<>> /\ (\A k \in 1..(n + 1) : g[k] = g[k - 1] \o tt[k]) /\ FlattenSeq(tt) = g[n + 1]
  <2>1. \E g \in [0..Len(tt) -> Seq(S)] :
        g[0] = <<>> /\ (\A k \in 1..Len(tt) : g[k] = g[k - 1] \o tt[k]) /\ FlattenSeq(tt) = g[Len(tt)]
    BY <1>1, FlattenSteps
  <2> QED  BY <1>1, <2>1
<1> DEFINE P == {k \in Nat : k <= n => f[k] = g[k]}
<1>4. 0 \in P
  BY <1>2, <1>3
<1>5. ASSUME NEW k \in Nat, k \in P PROVE k + 1 \in P
  <2> SUFFICES ASSUME k + 1 <= n PROVE f[k + 1] = g[k + 1]
    OBVIOUS
  <2>1. k + 1 \in 1..n /\ k + 1 \in 1..(n + 1) /\ (k + 1) - 1 = k /\ k <= n
    BY <1>1
  <2>2. f[k] = g[k]
    BY <1>5, <2>1
  <2>3. f[k + 1] = f[k] \o ss[k + 1] /\ g[k + 1] = g[k] \o tt[k + 1]
    BY <1>2, <1>3, <2>1
  <2> QED  BY <1>1, <2>1, <2>2, <2>3
<1>6. n \in P
  <2> HIDE DEF P
  <2> QED  BY <1>1, <1>4, <1>5, EveryNumber
<1>7. g[n + 1] = g[n] \o s /\ g[n] = f[n]
  <2>1. n + 1 \in 1..(n + 1) /\ (n + 1) - 1 = n
    BY <1>1
  <2>2. g[n + 1] = g[(n + 1) - 1] \o tt[n + 1]
    BY <1>3, <2>1
  <2>3. g[(n + 1) - 1] = g[n]
    BY <2>1
  <2>4. f[n] = g[n]
    <3>1. n <= n
      BY <1>1
    <3> QED  BY <1>6, <3>1
  <2> QED  BY <1>1, <2>2, <2>3, <2>4
<1>8. FlattenSeq(tt) = FlattenSeq(ss) \o s
  BY <1>2, <1>3, <1>7
<1>9. f[n] \in Seq(S)
  <2>1. n \in 0..n
    BY <1>1
  <2> QED  BY <2>1
<1> QED
  BY <1>2, <1>8, <1>9 DEF tt

(* What is joined from sequences is one. *)
LEMMA FlattenIsASeq ==
  ASSUME NEW S, NEW ss \in Seq(Seq(S))
  PROVE  FlattenSeq(ss) \in Seq(S)
<1>1. PICK f \in [0..Len(ss) -> Seq(S)] : FlattenSeq(ss) = f[Len(ss)]
  BY FlattenSteps
<1>2. Len(ss) \in 0..Len(ss)
  OBVIOUS
<1> QED
  BY <1>1, <1>2

(* What a router sends.                                                    *)
LEMMA StreamIsBytes ==
  ASSUME sent \in Seq(Form)
  PROVE  Stream \in Seq(Byte) /\ Len(Stream) \in Nat
<1>1. ASSUME NEW f \in Form PROVE Wire(f) \in Seq(Byte)
  <2>1. f.size \in Nat
    BY AccountingAssumption
  <2>2. Content(f) \in Seq(Byte)
    BY <2>1 DEF Content, Byte
  <2>3. <<"LF">> \in Seq(Byte) /\ <<"CR">> \in Seq(Byte) /\ <<"digit", "SP">> \in Seq(Byte) /\ <<>> \in Seq(Byte)
    BY DEF Byte
  <2>4. (IF f.counted THEN <<"digit", "SP">> ELSE <<>>) \in Seq(Byte)
    BY <2>3
  <2>5. (IF f.cr THEN <<"CR">> ELSE <<>>) \in Seq(Byte)
    BY <2>3
  <2> HIDE DEF Byte
  <2> QED  BY <2>2, <2>3, <2>4, <2>5 DEF Wire, Body
<1>2. \A i \in DOMAIN sent : Wire(sent[i]) \in Seq(Byte)
  BY <1>1
<1>3. [i \in DOMAIN sent |-> Wire(sent[i])] \in Seq(Seq(Byte))
  <2>1. DOMAIN sent = 1..Len(sent) /\ Len(sent) \in Nat
    OBVIOUS
  <2> QED  BY <1>2, <2>1, IsASeq
<1>4. Stream \in Seq(Byte)
  BY <1>3, FlattenIsASeq DEF Stream
<1> QED
  BY <1>4

-----------------------------------------------------------------------------
(* The connection: what has arrived, is left and was handed on. *)
Connected ==
  /\ sent \in Seq(Form) /\ allowed \in BOOLEAN
  /\ arrived \in 0..Len(Stream)
  /\ buf \in Seq(Byte) /\ Breaks(buf) = {} /\ Len(buf) <= MaxLine
  /\ \E S : handled \in Seq(S)
  /\ outcomes \in Seq(Outcomes)
  /\ cut \subseteq DOMAIN sent

(* The counters: where they are at which point of a flush. *)
Counted ==
  /\ counts \in Dicts /\ pending \in Dicts
  /\ hash \in [Counter -> Nat]
  /\ failures \in 0..MaxFailures /\ unsent \in BOOLEAN
  /\ task \in {"sleeping", "flushing", "last", "stopped"}
  /\ task \in {"sleeping", "stopped"} => pending = <<>>
  /\ task \in {"sleeping", "flushing"} => ~unsent
  /\ told \in [Counter -> Nat]

(* What stop() took the counts for is reported or about to be. *)
Telling ==
  task \in {"last", "stopped"} /\ ~unsent =>
    \A m \in Counter : hash[m] + Value(pending, m) >= told[m]

(* Nothing is reported but as whole lines and receipts before outcomes. *)
Sound == Balanced(counts) /\ Balanced(pending) /\ OutcomesWithinReceived

(* A dict that was just emptied (metrics.py:76).                           *)
LEMMA EmptyDict ==
  /\ <<>> \in Dicts /\ Balanced(<<>>)
  /\ \A m : Value(<<>>, m) = 0
<1>1. <<>> \in Dicts
  BY DEF Dicts
<1>2. \A m : Value(<<>>, m) = 0
  BY <1>1, ValueInDict
<1> QED
  BY <1>1, <1>2 DEF Balanced

(* HINCRBY of the first n names: no count is taken twice or invented, and  *)
(* no outcome is reported before the receipts.                             *)
LEMMA ExecutedAdds ==
  ASSUME hash \in [Counter -> Nat], NEW c \in Dicts, NEW n \in 0..Len(c)
  PROVE  /\ Executed(c, n) \in [Counter -> Nat]
         /\ \A m \in Counter : hash[m] <= Executed(c, n)[m]
         /\ n = Len(c) => \A m \in Counter : Executed(c, n)[m] = hash[m] + Value(c, m)
         /\ Balanced(c) /\ OutcomesWithinReceived =>
              Executed(c, n)["UNKNOWN_ROUTER"] + Executed(c, n)["PARSED"]
                + Executed(c, n)["PARSER_ERRORS"] <= Executed(c, n)["RECEIVED"]
<1> DEFINE d == SubSeq(c, 1, n)
           e == Executed(c, n)
<1>1. /\ d \in Dicts /\ SubSeq(c, 1, Len(c)) = c
      /\ n = 0 => \A m : Value(d, m) = 0
      /\ \A m : Value(d, m) \in {0, Value(c, m)}
      /\ \A i \in 1..n : Value(d, c[i].name) = Value(c, c[i].name)
  BY FirstCounters
<1>2. \A m : Value(d, m) \in Nat /\ Value(c, m) \in Nat
  BY <1>1, ValueInDict
<1>3. e = [m \in Counter |-> hash[m] + Value(d, m)]
  BY DEF Executed
<1>4. n = Len(c) => \A m : Value(d, m) = Value(c, m)
  BY <1>1
<1> HIDE DEF d, e
<1>5. \A m \in Counter : e[m] = hash[m] + Value(d, m) /\ hash[m] \in Nat
  BY <1>3
<1>6. e \in [Counter -> Nat]
  BY <1>2, <1>3, <1>5
<1>7. ASSUME Balanced(c), OutcomesWithinReceived
      PROVE  e["UNKNOWN_ROUTER"] + e["PARSED"] + e["PARSER_ERRORS"] <= e["RECEIVED"]
  <2>1. Value(d, "UNKNOWN_ROUTER") + Value(d, "PARSED") + Value(d, "PARSER_ERRORS")
          <= Value(d, "RECEIVED")
    <3>1. CASE n = 0
      BY <1>1, <3>1
    <3>2. CASE n # 0
      <4>1. 1 \in 1..n /\ c # <<>>
        BY <3>2
      <4>2. Value(d, "RECEIVED") = Value(c, "RECEIVED")
        BY <1>1, <1>7, <4>1 DEF Balanced
      <4>3. \A m : Value(d, m) <= Value(c, m)
        BY <1>1, <1>2
      <4>4. Value(c, "UNKNOWN_ROUTER") + Value(c, "PARSED") + Value(c, "PARSER_ERRORS")
              = Value(c, "RECEIVED")
        BY <1>7 DEF Balanced
      <4> QED  BY <1>2, <4>2, <4>3, <4>4
    <3> QED  BY <3>1, <3>2
  <2>2. {"UNKNOWN_ROUTER", "PARSED", "PARSER_ERRORS", "RECEIVED"} \subseteq Counter
    BY AccountingAssumption
  <2> DEFINE h1 == hash["UNKNOWN_ROUTER"]  v1 == Value(d, "UNKNOWN_ROUTER")
             h2 == hash["PARSED"]          v2 == Value(d, "PARSED")
             h3 == hash["PARSER_ERRORS"]   v3 == Value(d, "PARSER_ERRORS")
             h0 == hash["RECEIVED"]        v0 == Value(d, "RECEIVED")
  <2>3. /\ e["UNKNOWN_ROUTER"] = h1 + v1 /\ e["PARSED"] = h2 + v2
        /\ e["PARSER_ERRORS"] = h3 + v3 /\ e["RECEIVED"] = h0 + v0
    BY <1>5, <2>2
  <2>4. h1 + h2 + h3 <= h0
    BY <1>7 DEF OutcomesWithinReceived
  <2>5. v1 + v2 + v3 <= v0
    BY <2>1
  <2>6. h1 \in Nat /\ h2 \in Nat /\ h3 \in Nat /\ h0 \in Nat
    BY <1>5, <2>2
  <2>7. v1 \in Nat /\ v2 \in Nat /\ v3 \in Nat /\ v0 \in Nat
    BY <1>2
  <2> HIDE DEF h1, h2, h3, h0, v1, v2, v3, v0
  <2>8. (h1 + v1) + (h2 + v2) + (h3 + v3) <= h0 + v0
    BY <2>4, <2>5, <2>6, <2>7
  <2> QED  BY <2>3, <2>8
<1> QED
  BY <1>2, <1>4, <1>5, <1>6, <1>7 DEF e

(* The outcomes of more payloads. *)
CameTo(m, a) == {i \in DOMAIN a : a[i] = m}

(* With the outcomes of further payloads, as many have come to each as     *)
(* before and of these.                                                    *)
LEMMA OutcomesAdd ==
  ASSUME allowed \in BOOLEAN, NEW a \in Seq(Outcomes),
         NEW n \in Nat, NEW ps, DOMAIN ps = 1..n
  PROVE  LET b == [k \in 1..n |-> Outcome(ps[k])]
         IN /\ a \o b \in Seq(Outcomes)
            /\ \A m : /\ Cardinality(CameTo(m, a)) \in Nat
                     /\ Cardinality(CameTo(m, a \o b))
                          = Cardinality(CameTo(m, a)) + Cardinality(Come(ps, n, m))
<1> DEFINE b == [k \in 1..n |-> Outcome(ps[k])]
           L == Len(a)
<1>1. \A k \in 1..n : Outcome(ps[k]) \in Outcomes /\ b[k] = Outcome(ps[k])
  BY OutcomeIsOne
<1>2. b \in Seq(Outcomes) /\ Len(b) = n
  <2>1. b \in Seq(Outcomes)
    BY <1>1, IsASeq
  <2>2. DOMAIN b = 1..n
    OBVIOUS
  <2> HIDE DEF b
  <2> QED  BY <2>1, <2>2
<1> HIDE DEF b
<1>3. /\ a \o b \in Seq(Outcomes) /\ Len(a \o b) = L + n
      /\ \A i \in 1..(L + n) : (a \o b)[i] = IF i <= L THEN a[i] ELSE b[i - L]
  BY <1>2, ConcatProperties
<1>4. L \in Nat /\ DOMAIN a = 1..L /\ DOMAIN (a \o b) = 1..(L + n)
  BY <1>3
<1>5. ASSUME NEW m
      PROVE  /\ Cardinality(CameTo(m, a)) \in Nat
             /\ Cardinality(CameTo(m, a \o b))
                  = Cardinality(CameTo(m, a)) + Cardinality(Come(ps, n, m))
  <2> DEFINE A == CameTo(m, a)
             C == Come(ps, n, m)
             B == {L + k : k \in C}
             f == [k \in C |-> L + k]
  <2>1. A \subseteq 1..L /\ C \subseteq 1..n
    BY <1>4 DEF CameTo, Come
  <2>2. IsFiniteSet(A) /\ IsFiniteSet(C)
    <3>1. IsFiniteSet(1..L) /\ IsFiniteSet(1..n)
      BY <1>4, FS_Interval
    <3> HIDE DEF A, C
    <3> QED  BY <2>1, <3>1, FS_Subset
  <2>3. CameTo(m, a \o b) = A \cup B
    <3>1. ASSUME NEW i \in CameTo(m, a \o b) PROVE i \in A \cup B
      <4>1. i \in 1..(L + n) /\ (a \o b)[i] = m
        BY <1>4 DEF CameTo
      <4>2. CASE i <= L
        BY <1>3, <1>4, <4>1, <4>2 DEF CameTo
      <4>3. CASE ~(i <= L)
        <5>1. i - L \in 1..n /\ i = L + (i - L)
          BY <1>4, <4>1, <4>3
        <5>2. Outcome(ps[i - L]) = m
          BY <1>1, <1>3, <4>1, <4>3, <5>1
        <5> QED  BY <5>1, <5>2 DEF Come
      <4> QED  BY <4>2, <4>3
    <3>2. ASSUME NEW i \in A PROVE i \in CameTo(m, a \o b)
      <4>1. i \in 1..(L + n) /\ i <= L /\ a[i] = m
        BY <1>4 DEF CameTo
      <4> QED  BY <1>3, <1>4, <4>1 DEF CameTo
    <3>3. ASSUME NEW k \in C PROVE L + k \in CameTo(m, a \o b)
      <4>1. k \in 1..n /\ Outcome(ps[k]) = m
        BY DEF Come
      <4>2. L + k \in 1..(L + n) /\ ~(L + k <= L) /\ (L + k) - L = k
        BY <1>4, <4>1
      <4>3. (a \o b)[L + k] = b[k]
        BY <1>3, <4>2
      <4> QED  BY <1>1, <1>4, <4>1, <4>2, <4>3 DEF CameTo
    <3> QED  BY <3>1, <3>2, <3>3
  <2>4. A \cap B = {}
    BY <1>4, <2>1
  <2>5. f \in Bijection(C, B)
    <3>1. f \in [C -> B] /\ \A t \in B : \E k \in C : f[k] = t
      OBVIOUS
    <3>2. \A k, l \in C : f[k] = f[l] => k = l
      BY <1>4, <2>1
    <3> HIDE DEF f, B, C
    <3> QED  BY <3>1, <3>2 DEF Bijection, Injection, Surjection, IsInjective
  <2> HIDE DEF A, B, C, f
  <2>6. IsFiniteSet(B) /\ Cardinality(B) = Cardinality(C)
    BY <2>2, <2>5, FS_Bijection DEF ExistsBijection
  <2>7. Cardinality(A) \in Nat /\ Cardinality(B) \in Nat
    BY <2>2, <2>6, FS_CardinalityType
  <2>10. Cardinality(A \cap B) = 0
    BY <2>4, FS_EmptySet
  <2>8. Cardinality(A \cup B) = Cardinality(A) + Cardinality(B) - Cardinality(A \cap B)
    BY <2>2, <2>6, FS_Union
  <2>9. Cardinality(A \cup B) = Cardinality(A) + Cardinality(B)
    BY <2>7, <2>8, <2>10
  <2> QED  BY <2>3, <2>6, <2>7, <2>9 DEF A, C
<1> QED
  BY <1>3, <1>5 DEF b

(* data_received (receiver.py:241-253): what one chunk brings. *)
Brings(m, ps) ==
  /\ DOMAIN ps = 1..m
  /\ Len(handled) \in Nat /\ Len(handled') = Len(handled) + m
  /\ counts' = CountAll(ps)
  /\ outcomes' = outcomes \o [k \in 1..m |-> Outcome(ps[k])]
  /\ Connected'

(* It brings a number of payloads, and the connection stays sound. *)
LEMMA Received ==
  ASSUME Connected, DataReceived
  PROVE  \E m \in Nat : \E ps : Brings(m, ps)
<1> DEFINE chunk(n) == SubSeq(Stream, arrived + 1, arrived + n)
           bytes(n) == Keep(buf \o chunk(n))
<1>1. PICK n \in 1..MaxChunk :
        /\ arrived + n <= Len(Stream)
        /\ arrived' = arrived + n
        /\ buf' = Rest(bytes(n))
        /\ handled' = handled \o Payloads(bytes(n))
        /\ outcomes' = outcomes \o [k \in DOMAIN Payloads(bytes(n)) |-> Outcome(Payloads(bytes(n))[k])]
        /\ counts' = CountAll(Payloads(bytes(n)))
  BY DEF DataReceived, CountAll
<1>2. sent' = sent /\ allowed' = allowed /\ Stream' = Stream
  BY DEF DataReceived, Stream
<1> DEFINE c == chunk(n)
           b == bytes(n)
           ps == Payloads(b)
<1>3. c \in Seq(Byte)
  <2>1. Stream \in Seq(Byte) /\ Len(Stream) \in Nat /\ arrived \in 0..Len(Stream) /\ n \in Nat
    BY StreamIsBytes, AccountingAssumption DEF Connected
  <2> HIDE DEF Connected
  <2>2. \A i \in (arrived + 1)..(arrived + n) : i \in 1..Len(Stream) /\ Stream[i] \in Byte
    BY <1>1, <2>1
  <2> QED  BY <2>1, <2>2, SubSeqProperties
<1>4. b \in Seq(Byte) /\ Len(b) <= MaxLine /\ Len(b) \in Nat /\ MaxLine \in Nat
  <2>1. buf \o c \in Seq(Byte)
    BY <1>3, ConcatProperties DEF Connected
  <2> HIDE DEF c
  <2>2. Keep(buf \o c) \in Seq(Byte) /\ Len(Keep(buf \o c)) <= MaxLine
    BY <2>1, KeepBounds
  <2> QED  BY <2>2, FramingAssumption DEF c
<1> HIDE DEF chunk, bytes, c
<1>5. Rest(b) \in Seq(Byte) /\ Len(Rest(b)) <= Len(b) /\ Breaks(Rest(b)) = {}
  BY <1>4, RestHasNoBreak
<1>6. buf' \in Seq(Byte) /\ Breaks(buf)' = {} /\ Len(buf') <= MaxLine
  <2>1. buf' = Rest(b) /\ Breaks(buf)' = Breaks(Rest(b))
    BY <1>1 DEF Breaks
  <2>2. Len(Rest(b)) \in Nat
    BY <1>5
  <2> QED  BY <1>4, <1>5, <2>1, <2>2
<1>7. PICK S : ps \in Seq(S)
  BY <1>4, PayloadsAreASeq
<1>8. handled' = handled \o ps /\ counts' = CountAll(ps)
      /\ outcomes' = outcomes \o [k \in DOMAIN ps |-> Outcome(ps[k])]
  BY <1>1
<1> HIDE DEF b, ps
<1>9. DOMAIN ps = 1..Len(ps) /\ Len(ps) \in Nat
  BY <1>7
<1>10. PICK T : handled \in Seq(T)
  BY DEF Connected
<1>11. handled \in Seq(S \cup T) /\ ps \in Seq(S \cup T)
  BY <1>7, <1>10
<1>12. handled' \in Seq(S \cup T) /\ Len(handled') = Len(handled) + Len(ps) /\ Len(handled) \in Nat
  BY <1>8, <1>11, ConcatProperties
<1>13. outcomes' \in Seq(Outcomes)
  <2>1. outcomes \in Seq(Outcomes) /\ allowed \in BOOLEAN
    BY DEF Connected
  <2>2. outcomes' = outcomes \o [k \in 1..Len(ps) |-> Outcome(ps[k])]
    BY <1>8, <1>9
  <2> QED  BY <1>9, <2>1, <2>2, OutcomesAdd
<1>14. arrived' \in 0..Len(Stream)'
  <2>1. Len(Stream) \in Nat /\ arrived \in 0..Len(Stream) /\ n \in Nat
    BY StreamIsBytes, AccountingAssumption DEF Connected
  <2>2. arrived + n \in 0..Len(Stream)
    BY <1>1, <2>1
  <2> QED  BY <1>1, <1>2, <2>2
<1>15. Connected'
  <2>1. sent' \in Seq(Form) /\ allowed' \in BOOLEAN
    BY <1>2 DEF Connected
  <2>2. cut' \subseteq DOMAIN sent'
    BY <1>2 DEF DataReceived, Overrun, Connected
  <2> QED  BY <1>6, <1>12, <1>13, <1>14, <2>1, <2>2 DEF Connected
<1>16. outcomes' = outcomes \o [k \in 1..Len(ps) |-> Outcome(ps[k])]
  BY <1>8, <1>9
<1> QED
  BY <1>8, <1>9, <1>12, <1>15, <1>16 DEF Brings

-----------------------------------------------------------------------------
(* What a flush that failed had taken is folded back whole. *)
LEMMA FoldBackBalanced ==
  ASSUME counts \in Dicts, Balanced(counts), NEW c \in Dicts, Balanced(c)
  PROVE  Balanced(FoldBack(c))
<1> DEFINE d == FoldBack(c)
<1>1. /\ \A m : Value(d, m) = Value(counts, m) + Value(c, m)
      /\ counts # <<>> => d # <<>> /\ d[1].name = counts[1].name
      /\ counts = <<>> /\ c # <<>> => d # <<>> /\ d[1].name = c[1].name
      /\ d \in Dicts
  BY FoldBackAdds
<1> HIDE DEF d
<1>2. counts = <<>> /\ c = <<>> => d = <<>> \/ (d # <<>> /\ Value(d, d[1].name) = 0)
  BY <1>1, EmptyDict
<1>3. d # <<>> => Value(d, d[1].name) > 0
  <2>1. d \in Seq(Entry)
    BY <1>1 DEF Dicts
  <2>2. d # <<>> => 1 \in 1..Len(d) /\ d[1] \in Entry
    BY <2>1
  <2>3. d # <<>> => Value(d, d[1].name) = d[1].value
    BY <1>1, <2>2, ValueInDict
  <2>4. \A e \in Entry : e.value > 0
    BY DEF Entry
  <2> QED  BY <2>2, <2>3, <2>4
<1>4. d # <<>> => d[1].name = "RECEIVED"
  BY <1>1, <1>2, <1>3 DEF Balanced
<1>5. \A m : Value(counts, m) \in Nat /\ Value(c, m) \in Nat
  BY ValueInDict
<1>6. Value(d, "UNKNOWN_ROUTER") + Value(d, "PARSED") + Value(d, "PARSER_ERRORS")
        = Value(d, "RECEIVED")
  <2>1. /\ Value(counts, "UNKNOWN_ROUTER") + Value(counts, "PARSED") + Value(counts, "PARSER_ERRORS")
             = Value(counts, "RECEIVED")
        /\ Value(c, "UNKNOWN_ROUTER") + Value(c, "PARSED") + Value(c, "PARSER_ERRORS")
             = Value(c, "RECEIVED")
    BY DEF Balanced
  <2> QED  BY <1>1, <1>5, <2>1
<1> QED
  BY <1>4, <1>6 DEF Balanced, d

(* What was received and came to each outcome is a number.                 *)
LEMMA TotalIsNat ==
  ASSUME Connected
  PROVE  \A m : Total(m) \in Nat
<1>1. Len(handled) \in Nat
  BY DEF Connected
<1>2. ASSUME NEW m PROVE Cardinality({i \in DOMAIN outcomes : outcomes[i] = m}) \in Nat
  <2>1. IsFiniteSet(DOMAIN outcomes)
    BY FS_Interval DEF Connected
  <2>2. {i \in DOMAIN outcomes : outcomes[i] = m} \subseteq DOMAIN outcomes
    OBVIOUS
  <2> QED  BY <2>1, <2>2, FS_Subset, FS_CardinalityType
<1> QED
  BY <1>1, <1>2 DEF Total

(* So is what is in Redis and in the two dicts.                            *)
LEMMA KnownIsNat ==
  ASSUME Counted
  PROVE  \A m \in Counter : /\ Known(m) \in Nat
                            /\ hash[m] \in Nat
                            /\ Value(pending, m) \in Nat /\ Value(counts, m) \in Nat
<1>1. \A m : Value(pending, m) \in Nat /\ Value(counts, m) \in Nat
  BY ValueInDict DEF Counted
<1>2. \A m \in Counter : hash[m] \in Nat
  BY DEF Counted
<1> QED
  BY <1>1, <1>2 DEF Known

(* The flush task and stop() do not touch the connection. *)
LEMMA ConnectionIsLeft ==
  ASSUME Connected, UNCHANGED connVars
  PROVE  Connected' /\ \A m : Total(m)' = Total(m)
BY DEF Connected, connVars, Stream, Breaks, Total

(* A step that leaves what is known of the counters, or after a failure    *)
(* adds to it, keeps the counts.                                           *)
LEMMA KeptIfKnown ==
  ASSUME Connected, Counted, Counted', CountsKept,
         unsent => unsent',
         \A m \in Counter : Total(m)' = Total(m),
         ~unsent' => \A m \in Counter : Known(m)' >= Known(m),
         ~unsent' /\ failures' = 0 => failures = 0 /\ \A m \in Counter : Known(m)' = Known(m)
  PROVE  CountsKept'
<1>1. \A m \in Counter : Known(m) \in Nat /\ Total(m) \in Nat
  BY KnownIsNat, TotalIsNat
<1>2. \A m \in Counter : Known(m)' \in Nat
  <2>1. \A m : Value(pending', m) \in Nat /\ Value(counts', m) \in Nat
    BY ValueInDict DEF Counted
  <2>2. \A m \in Counter : hash'[m] \in Nat
    BY DEF Counted
  <2> QED  BY <2>1, <2>2 DEF Known
<1> SUFFICES ASSUME ~unsent', NEW m \in Counter
             PROVE  /\ Known(m)' >= Total(m)'
                    /\ failures' = 0 => Known(m)' = Total(m)'
  BY DEF CountsKept
<1>3. /\ Known(m) >= Total(m)
      /\ failures = 0 => Known(m) = Total(m)
  BY DEF CountsKept
<1> QED
  BY <1>1, <1>2, <1>3

-----------------------------------------------------------------------------
Inv == Connected /\ Counted /\ Sound /\ CountsKept /\ Telling

(* A connection is made, and nothing is counted yet.                       *)
LEMMA InitHolds == Init => Inv
<1> SUFFICES ASSUME Init PROVE Inv
  OBVIOUS
<1>1. sent \in Seq(Form)
  BY AccountingAssumption DEF Init, SeqOf
<1>2. Stream \in Seq(Byte) /\ Len(Stream) \in Nat
  BY <1>1, StreamIsBytes
<1>3. Connected
  <2>1. arrived \in 0..Len(Stream) /\ allowed \in BOOLEAN
    BY <1>2 DEF Init
  <2>2. buf \in Seq(Byte) /\ Breaks(buf) = {} /\ Len(buf) <= MaxLine
    BY FramingAssumption DEF Init, Breaks
  <2>3. handled \in Seq(Byte) /\ outcomes \in Seq(Outcomes) /\ cut \subseteq DOMAIN sent
    BY DEF Init
  <2> QED  BY <1>1, <2>1, <2>2, <2>3 DEF Connected
<1>4. Counted
  <2>1. hash \in [Counter -> Nat]
    BY DEF Init, InitMetrics
  <2>2. failures \in 0..MaxFailures
    BY MetricsAssumption DEF Init, InitMetrics
  <2>3. told \in [Counter -> Nat]
    BY DEF Init
  <2> QED  BY <2>1, <2>2, <2>3, EmptyDict DEF Init, InitMetrics, Counted
<1>5. Sound
  <2>1. \A m \in Outcomes \cup {"RECEIVED"} : hash[m] = 0
    BY AccountingAssumption DEF Init, InitMetrics, Outcomes
  <2>2. OutcomesWithinReceived
    BY <2>1 DEF OutcomesWithinReceived, Outcomes
  <2> QED  BY <2>2, EmptyDict DEF Init, InitMetrics, Sound
<1>6. CountsKept
  <2>1. \A m \in Counter : Known(m) = 0
    BY EmptyDict DEF Init, InitMetrics, Known
  <2>2. \A m : Total(m) = 0
    <3>1. handled = <<>> /\ outcomes = <<>>
      BY DEF Init
    <3>2. Len(handled) = 0 /\ DOMAIN outcomes = {}
      BY <3>1
    <3>3. \A m : {i \in DOMAIN outcomes : outcomes[i] = m} = {}
      BY <3>2
    <3> QED  BY <3>2, <3>3, FS_EmptySet DEF Total
  <2> QED  BY <2>1, <2>2 DEF CountsKept
<1>7. Telling
  BY DEF Init, InitMetrics, Telling
<1> QED
  BY <1>3, <1>4, <1>5, <1>6, <1>7 DEF Inv

(* What a chunk adds to the counts it adds to the totals.                  *)
LEMMA DataReceivedKeeps ==
  ASSUME Inv, DataReceived
  PROVE  Inv'
<1>1. Connected /\ Counted /\ Sound /\ CountsKept
  BY DEF Inv
<1>10. PICK n \in Nat : \E ps : Brings(n, ps)
  BY <1>1, Received
<1>11. PICK ps : Brings(n, ps)
  BY <1>10
<1>2. /\ DOMAIN ps = 1..n
      /\ Len(handled) \in Nat /\ Len(handled') = Len(handled) + n
      /\ counts' = CountAll(ps)
      /\ outcomes' = outcomes \o [k \in 1..n |-> Outcome(ps[k])]
      /\ Connected'
  BY <1>11 DEF Brings
<1>3. /\ pending' = pending /\ task' = task /\ hash' = hash
      /\ failures' = failures /\ unsent' = unsent /\ told' = told
  BY DEF DataReceived
<1>4. counts \in Dicts /\ allowed \in BOOLEAN /\ outcomes \in Seq(Outcomes)
  BY <1>1 DEF Counted, Connected
<1>5. /\ counts' \in Dicts
      /\ Value(counts', "RECEIVED") = Value(counts, "RECEIVED") + n
      /\ \A m \in Outcomes : Value(counts', m) = Value(counts, m) + Cardinality(Come(ps, n, m))
      /\ Balanced(counts) => Balanced(counts')
  BY <1>2, <1>4, CountAllAdds
<1>6. \A m : Cardinality(CameTo(m, outcomes'))
               = Cardinality(CameTo(m, outcomes)) + Cardinality(Come(ps, n, m))
  <2>1. \A m : Cardinality(CameTo(m, outcomes \o [k \in 1..n |-> Outcome(ps[k])]))
                 = Cardinality(CameTo(m, outcomes)) + Cardinality(Come(ps, n, m))
    BY <1>2, <1>4, OutcomesAdd
  <2> QED  BY <1>2, <2>1
<1>7. Counted'
  BY <1>1, <1>3, <1>5 DEF Counted
<1>8. Sound'
  BY <1>1, <1>3, <1>5 DEF Sound, OutcomesWithinReceived, Balanced
<1>9. CountsKept'
  <2> SUFFICES ASSUME ~unsent', NEW m \in Counter
               PROVE  /\ Known(m)' >= Total(m)'
                      /\ failures' = 0 => Known(m)' = Total(m)'
    BY DEF CountsKept
  <2>1. PICK j \in Nat : Value(counts', m) = Value(counts, m) + j /\ Total(m)' = Total(m) + j
    <3>1. CASE m = "RECEIVED"
      BY <1>2, <1>5, <3>1 DEF Total
    <3>2. CASE m # "RECEIVED"
      <4>1. m \in Outcomes
        BY <3>2, AccountingAssumption DEF Outcomes
      <4>2. Cardinality(Come(ps, n, m)) \in Nat
        BY OneMoreComes
      <4>3. Total(m) = Cardinality(CameTo(m, outcomes))
            /\ Total(m)' = Cardinality(CameTo(m, outcomes'))
        BY <3>2 DEF Total, CameTo
      <4> QED  BY <1>5, <1>6, <4>1, <4>2, <4>3
    <3> QED  BY <3>1, <3>2
  <2>2. /\ Total(m) \in Nat /\ hash[m] \in Nat
        /\ Value(pending, m) \in Nat /\ Value(counts, m) \in Nat
    BY <1>1, TotalIsNat, KnownIsNat
  <2>3. Known(m) = hash[m] + Value(pending, m) + Value(counts, m)
        /\ Known(m)' = hash[m] + Value(pending, m) + Value(counts', m)
    BY <1>3 DEF Known
  <2>4. /\ Known(m) >= Total(m)
        /\ failures' = 0 => Known(m) = Total(m)
    BY <1>1, <1>3 DEF CountsKept
  <2> QED  BY <2>1, <2>2, <2>3, <2>4
<1>12. Telling'
  <2>1. Telling
    BY DEF Inv
  <2> QED  BY <1>3, <2>1 DEF Telling
<1> QED
  BY <1>2, <1>7, <1>8, <1>9, <1>12 DEF Inv

(* flush() takes the dict as it is (metrics.py:76).                        *)
LEMMA FlushKeeps ==
  ASSUME Inv, Flush, UNCHANGED <<connVars, told>>
  PROVE  Inv'
<1>1. Connected /\ Counted /\ Sound /\ CountsKept
  BY DEF Inv
<1>2. Connected' /\ \A m : Total(m)' = Total(m)
  BY <1>1, ConnectionIsLeft
<1>3. /\ pending = <<>> /\ pending' = counts /\ counts' = <<>> /\ task' = "flushing"
      /\ hash' = hash /\ failures' = failures /\ unsent' = unsent /\ ~unsent
  BY <1>1 DEF Flush, Counted
<1>4. Counted' /\ Telling'
  BY <1>1, <1>3, EmptyDict DEF Counted, Telling
<1>5. Sound'
  BY <1>1, <1>3, EmptyDict DEF Sound, OutcomesWithinReceived, Balanced
<1>6. \A m \in Counter : Known(m)' = Known(m) /\ Known(m) \in Nat
  BY <1>1, <1>3, EmptyDict, KnownIsNat DEF Known
<1>7. CountsKept'
  BY <1>1, <1>2, <1>3, <1>4, <1>6, KeptIfKnown
<1> QED
  BY <1>2, <1>4, <1>5, <1>7 DEF Inv

(* Redis has executed every command (metrics.py:78-81).                    *)
LEMMA FlushOkKeeps ==
  ASSUME Inv, FlushOk, UNCHANGED <<connVars, told>>
  PROVE  Inv'
<1>1. Connected /\ Counted /\ Sound /\ CountsKept
  BY DEF Inv
<1>2. Connected' /\ \A m : Total(m)' = Total(m)
  BY <1>1, ConnectionIsLeft
<1>3. /\ hash' = Executed(pending, Len(pending)) /\ pending' = <<>>
      /\ task' = "sleeping" /\ counts' = counts
      /\ failures' = failures /\ unsent' = unsent /\ ~unsent
  BY <1>1 DEF FlushOk, Counted
<1>4. /\ hash \in [Counter -> Nat] /\ pending \in Dicts /\ Len(pending) \in 0..Len(pending)
      /\ Balanced(pending) /\ OutcomesWithinReceived
  BY <1>1 DEF Counted, Sound, Dicts
<1>5. /\ hash' \in [Counter -> Nat]
      /\ \A m \in Counter : hash'[m] = hash[m] + Value(pending, m)
      /\ OutcomesWithinReceived'
  <2>1. /\ hash' \in [Counter -> Nat]
        /\ \A m \in Counter : hash'[m] = hash[m] + Value(pending, m)
        /\ hash'["UNKNOWN_ROUTER"] + hash'["PARSED"] + hash'["PARSER_ERRORS"] <= hash'["RECEIVED"]
    BY <1>3, <1>4, ExecutedAdds
  <2> QED  BY <2>1 DEF OutcomesWithinReceived
<1>6. Counted' /\ Telling'
  BY <1>1, <1>3, <1>5, EmptyDict DEF Counted, Telling
<1>7. Sound'
  BY <1>1, <1>3, <1>5, EmptyDict DEF Sound, Balanced
<1>8. \A m \in Counter : Known(m)' = Known(m) /\ Known(m) \in Nat
  BY <1>1, <1>3, <1>5, EmptyDict, KnownIsNat DEF Known
<1>9. CountsKept'
  BY <1>1, <1>2, <1>3, <1>6, <1>8, KeptIfKnown
<1> QED
  BY <1>2, <1>6, <1>7, <1>9 DEF Inv

(* What a failure does, of a flush or of the last one. *)
LEMMA FailureAdds ==
  ASSUME Counted, Sound, NEW n \in 0..Len(pending), hash' = Executed(pending, n),
         counts' = FoldBack(pending), pending' = <<>>
  PROVE  /\ hash' \in [Counter -> Nat] /\ OutcomesWithinReceived'
         /\ counts' \in Dicts /\ pending' \in Dicts
         /\ Balanced(counts') /\ Balanced(pending')
         /\ \A m \in Counter : Known(m)' >= Known(m)
<1>1. /\ hash \in [Counter -> Nat] /\ pending \in Dicts /\ counts \in Dicts
      /\ Balanced(pending) /\ Balanced(counts) /\ OutcomesWithinReceived
  BY DEF Counted, Sound
<1>2. /\ hash' \in [Counter -> Nat]
      /\ \A m \in Counter : hash[m] <= hash'[m]
      /\ OutcomesWithinReceived'
  <2>1. /\ hash' \in [Counter -> Nat]
        /\ \A m \in Counter : hash[m] <= hash'[m]
        /\ hash'["UNKNOWN_ROUTER"] + hash'["PARSED"] + hash'["PARSER_ERRORS"] <= hash'["RECEIVED"]
    BY <1>1, ExecutedAdds
  <2> QED  BY <2>1 DEF OutcomesWithinReceived
<1>3. /\ counts' \in Dicts
      /\ \A m : Value(counts', m) = Value(counts, m) + Value(pending, m)
  BY <1>1, FoldBackAdds
<1>4. Balanced(counts')
  BY <1>1, FoldBackBalanced
<1>5. ASSUME NEW m \in Counter PROVE Known(m)' >= Known(m)
  <2>1. hash[m] \in Nat /\ Value(pending, m) \in Nat /\ Value(counts, m) \in Nat
    BY KnownIsNat
  <2>2. Known(m)' = hash'[m] + Value(counts', m) /\ hash'[m] \in Nat
    <3>1. Value(pending', m) = 0
      BY EmptyDict
    <3>2. Known(m)' = hash'[m] + Value(pending', m) + Value(counts', m)
      BY DEF Known
    <3>3. hash'[m] \in Nat /\ Value(counts', m) \in Nat
      BY <1>2, <1>3, ValueInDict
    <3> QED  BY <3>1, <3>2, <3>3
  <2>3. Known(m) = hash[m] + Value(pending, m) + Value(counts, m)
    BY DEF Known
  <2>4. Value(counts', m) = Value(counts, m) + Value(pending, m) /\ hash[m] <= hash'[m]
    BY <1>2, <1>3
  <2> QED  BY <2>1, <2>2, <2>3, <2>4
<1> QED
  BY <1>2, <1>3, <1>4, <1>5, EmptyDict

(* Redis has executed some, and all is folded back (metrics.py:82-85).     *)
LEMMA FlushFailsKeeps ==
  ASSUME Inv, FlushFails, UNCHANGED <<connVars, told>>
  PROVE  Inv'
<1>1. Connected /\ Counted /\ Sound /\ CountsKept
  BY DEF Inv
<1>2. Connected' /\ \A m : Total(m)' = Total(m)
  BY <1>1, ConnectionIsLeft
<1>3. PICK n \in 0..Len(pending) : hash' = Executed(pending, n)
  BY DEF FlushFails
<1>4. /\ counts' = FoldBack(pending) /\ pending' = <<>> /\ task' = "sleeping"
      /\ failures < MaxFailures /\ failures' = failures + 1
      /\ unsent' = unsent /\ ~unsent
  BY <1>1 DEF FlushFails, Counted
<1>5. /\ hash' \in [Counter -> Nat] /\ OutcomesWithinReceived'
      /\ counts' \in Dicts /\ pending' \in Dicts
      /\ Balanced(counts') /\ Balanced(pending')
      /\ \A m \in Counter : Known(m)' >= Known(m)
  BY <1>1, <1>3, <1>4, FailureAdds
<1>6. failures' \in 0..MaxFailures /\ failures' # 0
  BY <1>1, <1>4, MetricsAssumption DEF Counted
<1>7. Counted' /\ Telling'
  BY <1>1, <1>4, <1>5, <1>6 DEF Counted, Telling
<1>8. Sound'
  BY <1>5 DEF Sound, Balanced
<1>9. CountsKept'
  <2>1. /\ unsent => unsent'
        /\ ~unsent' => \A m \in Counter : Known(m)' >= Known(m)
        /\ ~unsent' /\ failures' = 0 => failures = 0 /\ \A m \in Counter : Known(m)' = Known(m)
    BY <1>4, <1>5, <1>6
  <2> QED  BY <1>1, <1>2, <1>7, <2>1, KeptIfKnown
<1> QED
  BY <1>2, <1>7, <1>8, <1>9 DEF Inv

(* stop() up to its flush: nothing was pending unless it cancelled a flush *)
(* (metrics.py:62-71).                                                     *)
LEMMA StopKeeps ==
  ASSUME Inv, Stop, UNCHANGED connVars, told' = [m \in Counter |-> Total(m)]
  PROVE  Inv'
<1>1. Connected /\ Counted /\ Sound /\ CountsKept
  BY DEF Inv
<1>2. Connected' /\ \A m : Total(m)' = Total(m)
  BY <1>1, ConnectionIsLeft
<1>3. PICK n \in 0..Len(pending) : hash' = Executed(pending, n)
  BY DEF Stop
<1>4. /\ task \in {"sleeping", "flushing"} /\ unsent' = (task = "flushing")
      /\ pending' = counts /\ counts' = <<>>
      /\ task' = (IF counts = <<>> THEN "stopped" ELSE "last")
      /\ failures' = failures /\ ~unsent
  BY <1>1 DEF Stop, Counted
<1>5. /\ hash \in [Counter -> Nat] /\ pending \in Dicts
      /\ Balanced(pending) /\ OutcomesWithinReceived
  BY <1>1 DEF Counted, Sound
<1>6. /\ hash' \in [Counter -> Nat]
      /\ n = Len(pending) => \A m \in Counter : hash'[m] = hash[m] + Value(pending, m)
      /\ OutcomesWithinReceived'
  <2>1. /\ hash' \in [Counter -> Nat]
        /\ n = Len(pending) => \A m \in Counter : hash'[m] = hash[m] + Value(pending, m)
        /\ hash'["UNKNOWN_ROUTER"] + hash'["PARSED"] + hash'["PARSER_ERRORS"] <= hash'["RECEIVED"]
    BY <1>3, <1>5, ExecutedAdds
  <2> QED  BY <2>1 DEF OutcomesWithinReceived
<1>7. Counted'
  <2>1. told' \in [Counter -> Nat]
    BY <1>1, TotalIsNat
  <2> QED  BY <1>1, <1>4, <1>6, <2>1, EmptyDict DEF Counted
<1>8. Sound'
  BY <1>1, <1>4, <1>6, EmptyDict DEF Sound, Balanced
<1>9. ~unsent' => \A m \in Counter : Known(m)' = Known(m) /\ Known(m) \in Nat
  <2> SUFFICES ASSUME ~unsent', NEW m \in Counter
               PROVE  Known(m)' = Known(m) /\ Known(m) \in Nat
    OBVIOUS
  <2>1. pending = <<>>
    BY <1>1, <1>4 DEF Counted
  <2>2. n = Len(pending)
    BY <2>1
  <2>3. hash'[m] = hash[m] + Value(pending, m) /\ Value(pending, m) = 0
    BY <1>6, <2>1, <2>2, EmptyDict
  <2>4. Value(counts', m) = 0 /\ Value(pending', m) = Value(counts, m)
    BY <1>4, EmptyDict
  <2>5. hash[m] \in Nat /\ Value(counts, m) \in Nat /\ Known(m) \in Nat
    BY <1>1, KnownIsNat
  <2> QED  BY <2>3, <2>4, <2>5 DEF Known
<1>10. CountsKept'
  <2>1. /\ unsent => unsent'
        /\ ~unsent' => \A m \in Counter : Known(m)' >= Known(m)
        /\ ~unsent' /\ failures' = 0 => failures = 0 /\ \A m \in Counter : Known(m)' = Known(m)
    BY <1>4, <1>9
  <2> QED  BY <1>1, <1>2, <1>7, <2>1, KeptIfKnown
<1>11. Telling'
  <2> SUFFICES ASSUME ~unsent', NEW m \in Counter
               PROVE  hash'[m] + Value(pending', m) >= told'[m]
    BY DEF Telling
  <2>1. Known(m)' = Known(m) /\ Known(m) >= Total(m) /\ told'[m] = Total(m)
    BY <1>1, <1>4, <1>9 DEF CountsKept
  <2>2. Known(m)' = hash'[m] + Value(pending', m) + Value(counts', m)
    BY DEF Known
  <2>3. Value(counts', m) = 0 /\ Value(pending', m) \in Nat /\ hash'[m] \in Nat
    BY <1>4, <1>6, <1>7, EmptyDict, ValueInDict DEF Counted
  <2> QED  BY <2>1, <2>2, <2>3
<1> QED
  BY <1>2, <1>7, <1>8, <1>10, <1>11 DEF Inv

(* The last flush, which may fail too.                                     *)
LEMMA LastFlushKeeps ==
  ASSUME Inv, LastFlush, UNCHANGED <<connVars, told>>
  PROVE  Inv'
<1>1. Connected /\ Counted /\ Sound /\ CountsKept
  BY DEF Inv
<1>2. Connected' /\ \A m : Total(m)' = Total(m)
  BY <1>1, ConnectionIsLeft
<1>3. pending' = <<>> /\ task' = "stopped" /\ task = "last"
  BY <1>1 DEF LastFlush, Counted
<1>4. CASE /\ hash' = Executed(pending, Len(pending))
           /\ UNCHANGED <<counts, failures, unsent>>
  <2>1. /\ hash \in [Counter -> Nat] /\ pending \in Dicts /\ Len(pending) \in 0..Len(pending)
        /\ Balanced(pending) /\ OutcomesWithinReceived
    BY <1>1 DEF Counted, Sound, Dicts
  <2>2. /\ hash' \in [Counter -> Nat]
        /\ \A m \in Counter : hash'[m] = hash[m] + Value(pending, m)
        /\ OutcomesWithinReceived'
    <3>1. /\ hash' \in [Counter -> Nat]
          /\ \A m \in Counter : hash'[m] = hash[m] + Value(pending, m)
          /\ hash'["UNKNOWN_ROUTER"] + hash'["PARSED"] + hash'["PARSER_ERRORS"] <= hash'["RECEIVED"]
      BY <1>4, <2>1, ExecutedAdds
    <3> QED  BY <3>1 DEF OutcomesWithinReceived
  <2>3. Counted' /\ Telling'
    <3>1. Counted'
      BY <1>1, <1>3, <1>4, <2>2, EmptyDict DEF Counted
    <3>2. ~unsent' => \A m \in Counter : hash[m] + Value(pending, m) >= told[m]
      BY <1>3, <1>4 DEF Inv, Telling
    <3>3. \A m \in Counter : hash'[m] + Value(pending', m) = hash[m] + Value(pending, m)
      BY <1>1, <1>3, <2>2, EmptyDict, KnownIsNat
    <3> QED  BY <3>1, <3>2, <3>3 DEF Telling
  <2>4. Sound'
    BY <1>1, <1>3, <1>4, <2>2, EmptyDict DEF Sound, Balanced
  <2>5. \A m \in Counter : Known(m)' = Known(m) /\ Known(m) \in Nat
    BY <1>1, <1>3, <1>4, <2>2, EmptyDict, KnownIsNat DEF Known
  <2>6. CountsKept'
    BY <1>1, <1>2, <1>4, <2>3, <2>5, KeptIfKnown
  <2> QED  BY <1>2, <2>3, <2>4, <2>6 DEF Inv
<1>5. CASE /\ failures < MaxFailures
           /\ failures' = failures + 1
           /\ \E n \in 0..Len(pending) : hash' = Executed(pending, n)
           /\ counts' = FoldBack(pending)
           /\ unsent' = TRUE
  <2>1. PICK n \in 0..Len(pending) : hash' = Executed(pending, n)
    BY <1>5
  <2>2. /\ hash' \in [Counter -> Nat] /\ OutcomesWithinReceived'
        /\ counts' \in Dicts /\ pending' \in Dicts
        /\ Balanced(counts') /\ Balanced(pending')
    BY <1>1, <1>3, <1>5, <2>1, FailureAdds
  <2>3. failures' \in 0..MaxFailures
    BY <1>1, <1>5, MetricsAssumption DEF Counted
  <2>4. Counted' /\ Telling'
    BY <1>1, <1>3, <1>5, <2>2, <2>3 DEF Counted, Telling
  <2>5. Sound'
    BY <2>2 DEF Sound, Balanced
  <2>6. CountsKept'
    BY <1>5 DEF CountsKept
  <2> QED  BY <1>2, <2>4, <2>5, <2>6 DEF Inv
<1>6. \/ /\ hash' = Executed(pending, Len(pending))
         /\ UNCHANGED <<counts, failures, unsent>>
      \/ /\ failures < MaxFailures
         /\ failures' = failures + 1
         /\ \E n \in 0..Len(pending) : hash' = Executed(pending, n)
         /\ counts' = FoldBack(pending)
         /\ unsent' = TRUE
  BY DEF LastFlush
<1> QED
  BY <1>4, <1>5, <1>6

(* Every step of the router, the connection, the flush task and stop(). *)
LEMMA Stays ==
  ASSUME Inv, [Next]_vars
  PROVE  Inv'
<1>1. CASE DataReceived
  BY <1>1, DataReceivedKeeps
<1>2. CASE Disallow
  <2>1. /\ Connected /\ Counted /\ Sound /\ CountsKept /\ Telling
        /\ allowed' = FALSE /\ UNCHANGED <<sent, arrived, buf, handled, outcomes, cut, metricsVars, told>>
    BY <1>2 DEF Disallow, Inv
  <2>2. Connected'
    BY <2>1 DEF Connected, Stream, Breaks
  <2>3. Counted' /\ Sound' /\ CountsKept' /\ Telling'
    BY <2>1 DEF Counted, Sound, CountsKept, Telling, metricsVars, OutcomesWithinReceived, Balanced, Known, Total
  <2> QED  BY <2>2, <2>3 DEF Inv
<1>3. CASE Flush /\ UNCHANGED <<connVars, told>>
  BY <1>3, FlushKeeps
<1>4. CASE FlushOk /\ UNCHANGED <<connVars, told>>
  BY <1>4, FlushOkKeeps
<1>5. CASE FlushFails /\ UNCHANGED <<connVars, told>>
  BY <1>5, FlushFailsKeeps
<1>6. CASE Stop /\ UNCHANGED connVars /\ told' = [m \in Counter |-> Total(m)]
  BY <1>6, StopKeeps
<1>7. CASE LastFlush /\ UNCHANGED <<connVars, told>>
  BY <1>7, LastFlushKeeps
<1>8. CASE UNCHANGED vars
  <2>1. /\ Connected /\ Counted /\ Sound /\ CountsKept /\ Telling
        /\ UNCHANGED connVars /\ UNCHANGED metricsVars /\ told' = told
    BY <1>8 DEF Inv, vars
  <2>2. Connected'
    BY <2>1, ConnectionIsLeft
  <2>3. Counted' /\ Sound' /\ CountsKept' /\ Telling'
    BY <2>1 DEF Counted, Sound, CountsKept, Telling, metricsVars, connVars, OutcomesWithinReceived, Balanced, Known, Total
  <2> QED  BY <2>2, <2>3 DEF Inv
<1> QED
  BY <1>1, <1>2, <1>3, <1>4, <1>5, <1>6, <1>7, <1>8 DEF Next

(* Inv is an invariant.                                                    *)
LEMMA InvIsInvariant == Spec => []Inv
<1>1. Init => Inv
  BY InitHolds
<1>2. Inv /\ [Next]_vars => Inv'
  BY Stays
<1> QED
  BY <1>1, <1>2, PTL DEF Spec

(* A name is in a dict once, no line feed is left in _buf, and it does not *)
(* outgrow MAX_LINE (receiver.py:241-253, metrics.py:55-56).               *)
THEOREM TypeCorrect == Spec => []TypeOK
<1>1. Inv => TypeOK
  <2> SUFFICES ASSUME Connected, Counted PROVE TypeOK
    BY DEF Inv
  <2>1. ASSUME NEW c \in Dicts PROVE Dict(c)
    <3>1. c \in Seq(Entry) /\ \A i, j \in 1..Len(c) : c[i].name = c[j].name => i = j
      BY DEF Dicts
    <3>2. DOMAIN c = 1..Len(c) /\ \A i \in 1..Len(c) : c[i] \in Entry
      BY <3>1
    <3> QED  BY <3>1, <3>2 DEF Dict, Entry
  <2>2. Dict(counts) /\ Dict(pending)
    BY <2>1 DEF Counted
  <2> QED  BY <2>2 DEF TypeOK, Connected, Counted
<1> QED
  BY <1>1, InvIsInvariant, PTL

(* No count is lost by a flush that fails at whatever command, nor one     *)
(* made while a flush is under way (metrics.py:82-85).                     *)
THEOREM NothingLost == Spec => []CountsKept
<1>1. Inv => CountsKept
  BY DEF Inv
<1> QED
  BY <1>1, InvIsInvariant, PTL

(* A stop that cancels no flush and whose own succeeds reports all that    *)
(* was counted when it took the counts, whatever is counted beside it      *)
(* (metrics.py:62-86).                                                     *)
THEOREM StopReportsAll == Spec => []StopReports
<1>1. Inv => StopReports
  <2> SUFFICES ASSUME Connected, Counted, Telling, task = "stopped", ~unsent, NEW m \in Counter
               PROVE  hash[m] >= told[m]
    BY DEF Inv, StopReports
  <2>1. pending = <<>>
    BY DEF Counted
  <2>2. hash[m] + Value(pending, m) >= told[m]
    BY DEF Telling
  <2>3. hash[m] \in Nat /\ Value(pending, m) = 0
    BY <2>1, EmptyDict, KnownIsNat
  <2> QED  BY <2>2, <2>3
<1> QED
  BY <1>1, InvIsInvariant, PTL

(* Wherever flushes stop and are repeated, no more outcomes are reported   *)
(* than receipts: what the status page divides by                          *)
(* (metrics.py:76-81, receiver.py:138-157).                                *)
THEOREM ReceiptsFirst == Spec => []OutcomesWithinReceived
<1>1. Inv => OutcomesWithinReceived
  BY DEF Inv, Sound
<1> QED
  BY <1>1, InvIsInvariant, PTL

-----------------------------------------------------------------------------
(* One line as it is sent (receiver.py:246-261).                           *)
LEMMA WireOfForm ==
  ASSUME NEW f \in Form
  PROVE  LET w == Wire(f)
             b == Body(f)
             m == Len(Body(f))
             s == f.size
         IN /\ w \in Seq(Byte) /\ b \in Seq(Byte) /\ m \in Nat \ {0} /\ s \in Nat \ {0}
            /\ Len(w) = (IF f.cr THEN m + 2 ELSE m + 1) /\ Len(w) \in Nat \ {0, 1}
            /\ \A p \in 1..m : w[p] = b[p]
            /\ f.cr => w[m + 1] = "CR"
            /\ w[Len(w)] = "LF"
            /\ m = IF f.counted THEN s + 2 ELSE s
            /\ f.counted => b[1] = "digit" /\ b[2] = "SP" /\ \A p \in 3..m : b[p] = "x"
            /\ ~f.counted => \A p \in 1..m : b[p] = "x"
<1> DEFINE s == f.size
           pre == IF f.counted THEN <<"digit", "SP">> ELSE <<>>
           c == Content(f)
           post == IF f.cr THEN <<"CR">> ELSE <<>>
           end == <<"LF">>
           w == Wire(f)
           b == Body(f)
           m == Len(Body(f))
<1>1. s \in Nat \ {0} /\ f.counted \in BOOLEAN /\ f.cr \in BOOLEAN
  BY AccountingAssumption
<1>2. c \in Seq(Byte) /\ Len(c) = s /\ \A p \in 1..s : c[p] = "x"
  BY <1>1 DEF Content, Byte
<1>3. /\ pre \in Seq(Byte) /\ Len(pre) = IF f.counted THEN 2 ELSE 0
      /\ f.counted => pre[1] = "digit" /\ pre[2] = "SP"
  <2>1. <<"digit", "SP">> \in Seq(Byte) /\ <<>> \in Seq(Byte)
    BY DEF Byte
  <2>2. CASE f.counted
    <3>1. pre = <<"digit", "SP">>
      BY <2>2
    <3> QED  BY <2>1, <2>2, <3>1
  <2>3. CASE ~f.counted
    <3>1. pre = <<>>
      BY <2>3
    <3> HIDE DEF pre
    <3> QED  BY <2>1, <2>3, <3>1
  <2> QED  BY <2>2, <2>3
<1>4. /\ post \in Seq(Byte) /\ Len(post) = IF f.cr THEN 1 ELSE 0
      /\ f.cr => post[1] = "CR"
  <2>1. <<"CR">> \in Seq(Byte) /\ <<>> \in Seq(Byte)
    BY DEF Byte
  <2>2. CASE f.cr
    <3>1. post = <<"CR">>
      BY <2>2
    <3> QED  BY <2>1, <2>2, <3>1
  <2>3. CASE ~f.cr
    <3>1. post = <<>>
      BY <2>3
    <3> HIDE DEF post
    <3> QED  BY <2>1, <2>3, <3>1
  <2> QED  BY <2>2, <2>3
<1>5. end \in Seq(Byte) /\ Len(end) = 1 /\ end[1] = "LF"
  BY DEF Byte
<1>6. b = pre \o c /\ w = (b \o post) \o end
  BY DEF Body, Wire
<1> HIDE DEF s, pre, c, post, end, w, b
<1>7. /\ b \in Seq(Byte) /\ Len(b) = Len(pre) + s
      /\ \A p \in 1..(Len(pre) + s) : b[p] = IF p <= Len(pre) THEN pre[p] ELSE c[p - Len(pre)]
  BY <1>2, <1>3, <1>6, ConcatProperties
<1> DEFINE u == b \o post
<1>8. /\ u \in Seq(Byte) /\ Len(u) = Len(b) + Len(post)
      /\ \A p \in 1..(Len(b) + Len(post)) : u[p] = IF p <= Len(b) THEN b[p] ELSE post[p - Len(b)]
  BY <1>4, <1>7, ConcatProperties
<1> HIDE DEF u
<1>9. /\ w \in Seq(Byte) /\ Len(w) = Len(u) + 1
      /\ \A p \in 1..(Len(u) + 1) : w[p] = IF p <= Len(u) THEN u[p] ELSE end[p - Len(u)]
  <2>1. w = u \o end
    BY <1>6 DEF u
  <2>2. /\ w \in Seq(Byte) /\ Len(w) = Len(u) + Len(end)
        /\ \A p \in 1..(Len(u) + Len(end)) : w[p] = IF p <= Len(u) THEN u[p] ELSE end[p - Len(u)]
    <3>1. u \in Seq(Byte) /\ end \in Seq(Byte)
      BY <1>5, <1>8
    <3> QED  BY <2>1, <3>1, ConcatProperties
  <2> QED  BY <1>5, <2>2
<1>10. m = Len(b) /\ m \in Nat \ {0} /\ m = IF f.counted THEN s + 2 ELSE s
  <2>1. m = Len(b)
    BY DEF b
  <2> HIDE DEF m
  <2> QED  BY <1>1, <1>3, <1>7, <2>1
<1> HIDE DEF m
<1>11. Len(w) = IF f.cr THEN m + 2 ELSE m + 1
  BY <1>1, <1>4, <1>8, <1>9, <1>10
<1>12. ASSUME NEW p \in 1..m PROVE w[p] = b[p]
  <2>1. p \in 1..(Len(u) + 1) /\ p <= Len(u) /\ p \in 1..(Len(b) + Len(post)) /\ p <= Len(b)
    BY <1>4, <1>8, <1>10
  <2> QED  BY <1>8, <1>9, <2>1
<1>13. f.cr => w[m + 1] = "CR"
  <2> SUFFICES ASSUME f.cr PROVE w[m + 1] = "CR"
    OBVIOUS
  <2>1. /\ m + 1 \in 1..(Len(u) + 1) /\ m + 1 <= Len(u) /\ m + 1 \in 1..(Len(b) + Len(post))
        /\ ~(m + 1 <= Len(b)) /\ m + 1 - Len(b) = 1
    BY <1>4, <1>8, <1>10
  <2> QED  BY <1>4, <1>8, <1>9, <2>1
<1>14. w[Len(w)] = "LF"
  <2>1. Len(w) \in 1..(Len(u) + 1) /\ ~(Len(w) <= Len(u)) /\ Len(w) - Len(u) = 1
    BY <1>8, <1>9
  <2> QED  BY <1>5, <1>9, <2>1
<1>15. f.counted => b[1] = "digit" /\ b[2] = "SP" /\ \A p \in 3..m : b[p] = "x"
  <2> SUFFICES ASSUME f.counted
               PROVE  b[1] = "digit" /\ b[2] = "SP" /\ \A p \in 3..m : b[p] = "x"
    OBVIOUS
  <2>1. Len(pre) = 2 /\ m = s + 2
    BY <1>3, <1>10
  <2>2. b[1] = "digit" /\ b[2] = "SP"
    BY <1>1, <1>3, <1>7, <2>1
  <2>3. ASSUME NEW p \in 3..m PROVE b[p] = "x"
    <3>1. p \in 1..(Len(pre) + s) /\ ~(p <= Len(pre)) /\ p - Len(pre) \in 1..s
      BY <1>1, <2>1
    <3> QED  BY <1>2, <1>7, <3>1
  <2> QED  BY <2>2, <2>3
<1>16. ~f.counted => \A p \in 1..m : b[p] = "x"
  <2> SUFFICES ASSUME ~f.counted, NEW p \in 1..m PROVE b[p] = "x"
    OBVIOUS
  <2>1. Len(pre) = 0 /\ m = s
    BY <1>3, <1>10
  <2>2. p \in 1..(Len(pre) + s) /\ ~(p <= Len(pre)) /\ p - Len(pre) = p /\ p \in 1..s
    BY <1>1, <2>1
  <2> QED  BY <1>2, <1>7, <2>2
<1> QED
  <2>1. Len(w) \in Nat \ {0, 1}
    BY <1>10, <1>11
  <2> QED
    BY <1>1, <1>7, <1>9, <1>10, <1>11, <1>12, <1>13, <1>14, <1>15, <1>16, <2>1 DEF s, w, b, m

(* The lines of a connection, one after the other: where each ends.        *)
LEMMA Ends ==
  ASSUME sent \in Seq(Form)
  PROVE  /\ Len(sent) \in Nat /\ DOMAIN sent = 1..Len(sent)
         /\ EndOf(0) = 0 /\ EndOf(Len(sent)) = Len(Stream)
         /\ \A i \in 0..Len(sent) : EndOf(i) \in 0..Len(Stream)
         /\ \A i \in 1..Len(sent) :
              /\ EndOf(i) = EndOf(i - 1) + Len(Wire(sent[i]))
              /\ \A p \in 1..Len(Wire(sent[i])) : Stream[EndOf(i - 1) + p] = Wire(sent[i])[p]
<1> DEFINE N == Len(sent)
           pieces(i) == [j \in 1..i |-> Wire(sent[j])]
           joined(i) == FlattenSeq(pieces(i))
<1>1. N \in Nat /\ DOMAIN sent = 1..N /\ \A i \in 1..N : Wire(sent[i]) \in Seq(Byte)
  <2>1. \A i \in 1..N : sent[i] \in Form
    OBVIOUS
  <2> QED  BY <2>1, WireOfForm
<1>2. \A i \in 0..N : pieces(i) \in Seq(Seq(Byte)) /\ Len(pieces(i)) = i
  <2>1. ASSUME NEW i \in 0..N PROVE pieces(i) \in Seq(Seq(Byte)) /\ Len(pieces(i)) = i
    <3>1. i \in Nat /\ \A j \in 1..i : Wire(sent[j]) \in Seq(Byte)
      BY <1>1
    <3> QED  BY <3>1, IsASeq
  <2> QED  BY <2>1
<1>3. ASSUME NEW i \in 1..N PROVE joined(i) = joined(i - 1) \o Wire(sent[i])
  <2>1. i - 1 \in 0..N /\ i \in 0..N /\ Wire(sent[i]) \in Seq(Byte)
    BY <1>1
  <2>2. pieces(i - 1) \in Seq(Seq(Byte)) /\ Len(pieces(i - 1)) = i - 1
    BY <1>2, <2>1
  <2>3. pieces(i) = Append(pieces(i - 1), Wire(sent[i]))
    BY <1>1
  <2> HIDE DEF pieces
  <2> QED  BY <2>1, <2>2, <2>3, FlattenOneMore
<1>4. \A i \in 0..N : joined(i) \in Seq(Byte)
  <2> HIDE DEF pieces
  <2> QED  BY <1>2, FlattenIsASeq
<1>5. joined(0) = <<>>
  <2>1. 0 \in 0..N
    BY <1>1
  <2>2. pieces(0) = <<>>
    BY <1>2, <2>1
  <2> QED  BY <2>2 DEF FlattenSeq
<1>6. joined(N) = Stream
  BY <1>1 DEF Stream
<1>7. \A i \in 0..N : EndOf(i) = Len(joined(i))
  BY DEF EndOf
<1> HIDE DEF joined, pieces
<1> DEFINE Starts(i, k) == /\ Len(joined(i)) <= Len(joined(k))
                           /\ \A q \in 1..Len(joined(i)) : joined(k)[q] = joined(i)[q]
<1>8. ASSUME NEW i \in 1..N
      PROVE  /\ Len(joined(i)) = Len(joined(i - 1)) + Len(Wire(sent[i]))
             /\ Len(joined(i)) \in Nat /\ Len(joined(i - 1)) \in Nat
             /\ \A p \in 1..Len(Wire(sent[i])) : joined(i)[Len(joined(i - 1)) + p] = Wire(sent[i])[p]
             /\ Starts(i - 1, i)
  <2> DEFINE u == joined(i - 1)
             w == Wire(sent[i])
  <2>1. u \in Seq(Byte) /\ w \in Seq(Byte) /\ joined(i) = u \o w
    <3>1. i - 1 \in 0..N
      BY <1>1
    <3> QED  BY <1>1, <1>3, <1>4, <3>1
  <2> HIDE DEF u, w
  <2>2. /\ Len(joined(i)) = Len(u) + Len(w)
        /\ \A q \in 1..(Len(u) + Len(w)) : joined(i)[q] = IF q <= Len(u) THEN u[q] ELSE w[q - Len(u)]
    BY <2>1, ConcatProperties
  <2>3. Len(u) \in Nat /\ Len(w) \in Nat
    BY <2>1
  <2>4. ASSUME NEW p \in 1..Len(w) PROVE joined(i)[Len(u) + p] = w[p]
    <3>1. Len(u) + p \in 1..(Len(u) + Len(w)) /\ ~(Len(u) + p <= Len(u)) /\ Len(u) + p - Len(u) = p
      BY <2>3
    <3> QED  BY <2>2, <3>1
  <2>5. Len(u) <= Len(joined(i)) /\ \A q \in 1..Len(u) : joined(i)[q] = u[q]
    <3>1. \A q \in 1..Len(u) : q \in 1..(Len(u) + Len(w)) /\ q <= Len(u)
      BY <2>3
    <3> QED  BY <2>2, <2>3, <3>1
  <2> QED  BY <2>2, <2>3, <2>4, <2>5 DEF u, w
<1> DEFINE P == {d \in Nat : \A i \in 0..N : i + d <= N => Starts(i, i + d)}
<1>9. 0 \in P
  <2>1. ASSUME NEW i \in 0..N PROVE Starts(i, i + 0)
    <3>1. i + 0 = i /\ Len(joined(i)) \in Nat
      BY <1>4
    <3> QED  BY <3>1
  <2> QED  BY <2>1
<1>10. ASSUME NEW d \in Nat, d \in P PROVE d + 1 \in P
  <2> SUFFICES ASSUME NEW i \in 0..N, i + (d + 1) <= N PROVE Starts(i, i + (d + 1))
    OBVIOUS
  <2> DEFINE k == i + (d + 1)
  <2>1. k \in 1..N /\ k - 1 = i + d /\ i + d <= N /\ k - 1 \in 0..N
    BY <1>1
  <2>2. Starts(i, k - 1)
    BY <1>10, <2>1
  <2> HIDE DEF k
  <2>3. Starts(k - 1, k)
    BY <1>8, <2>1
  <2>4. Len(joined(i)) \in Nat /\ Len(joined(k - 1)) \in Nat /\ Len(joined(k)) \in Nat
    BY <1>4, <1>8, <2>1
  <2>5. Starts(i, k)
    <3>1. \A q \in 1..Len(joined(i)) : q \in 1..Len(joined(k - 1))
      BY <2>2, <2>4
    <3> QED  BY <2>2, <2>3, <2>4, <3>1
  <2> QED  BY <2>5 DEF k
<1>11. ASSUME NEW i \in 0..N PROVE Starts(i, N)
  <2>1. N - i \in Nat /\ i + (N - i) = N /\ i + (N - i) <= N
    BY <1>1
  <2>2. N - i \in P
    <3> HIDE DEF P
    <3> QED  BY <1>9, <1>10, <2>1, EveryNumber
  <2>3. Starts(i, i + (N - i))
    BY <2>1, <2>2
  <2> HIDE DEF Starts
  <2> QED  BY <2>1, <2>3
<1>12. ASSUME NEW i \in 0..N PROVE EndOf(i) \in 0..Len(Stream)
  <2>1. Len(joined(i)) \in Nat /\ Len(joined(i)) <= Len(Stream) /\ Len(Stream) \in Nat
    <3>1. N \in 0..N
      BY <1>1
    <3> QED  BY <1>4, <1>6, <1>11, <3>1
  <2> QED  BY <1>7, <2>1
<1>13. ASSUME NEW i \in 1..N
       PROVE  /\ EndOf(i) = EndOf(i - 1) + Len(Wire(sent[i]))
              /\ \A p \in 1..Len(Wire(sent[i])) : Stream[EndOf(i - 1) + p] = Wire(sent[i])[p]
  <2>1. i \in 0..N /\ i - 1 \in 0..N
    BY <1>1
  <2>2. EndOf(i) = Len(joined(i)) /\ EndOf(i - 1) = Len(joined(i - 1))
    BY <1>7, <2>1
  <2>3. Len(Wire(sent[i])) \in Nat
    BY <1>1
  <2>4. ASSUME NEW p \in 1..Len(Wire(sent[i])) PROVE Stream[Len(joined(i - 1)) + p] = Wire(sent[i])[p]
    <3>1. Len(joined(i - 1)) + p \in 1..Len(joined(i))
      BY <1>8, <2>3
    <3> QED  BY <1>6, <1>8, <1>11, <2>1, <3>1
  <2> QED  BY <1>8, <2>2, <2>4
<1>14. EndOf(0) = 0 /\ EndOf(N) = Len(Stream)
  <2>1. 0 \in 0..N /\ N \in 0..N
    BY <1>1
  <2> QED  BY <1>5, <1>6, <1>7, <2>1
<1> QED
  BY <1>1, <1>12, <1>13, <1>14

(* They end in the order they are sent.                                    *)
LEMMA EndsRise ==
  ASSUME sent \in Seq(Form), NEW i \in 0..Len(sent), NEW j \in 0..Len(sent)
  PROVE  /\ i < j => EndOf(i) + 1 < EndOf(j)
         /\ i <= j => EndOf(i) <= EndOf(j)
<1> DEFINE N == Len(sent)
           P == {d \in Nat : \A k \in 0..N : d > 0 /\ k + d <= N => EndOf(k) + 1 < EndOf(k + d)}
<1>1. N \in Nat /\ \A k \in 0..N : EndOf(k) \in Nat
  BY Ends
<1>2. ASSUME NEW k \in 1..N PROVE EndOf(k - 1) + 1 < EndOf(k)
  <2>1. EndOf(k) = EndOf(k - 1) + Len(Wire(sent[k])) /\ k - 1 \in 0..N /\ EndOf(k - 1) \in Nat
    BY <1>1, Ends
  <2>2. Len(Wire(sent[k])) \in Nat \ {0, 1}
    <3>1. sent[k] \in Form
      OBVIOUS
    <3> QED  BY <3>1, WireOfForm
  <2>3. \A l \in Nat \ {0, 1}, e \in Nat : e + 1 < e + l
    OBVIOUS
  <2> HIDE DEF P
  <2> QED  BY <2>1, <2>2, <2>3
<1>3. 0 \in P
  OBVIOUS
<1>4. ASSUME NEW d \in Nat, d \in P PROVE d + 1 \in P
  <2> SUFFICES ASSUME NEW k \in 0..N, k + (d + 1) <= N PROVE EndOf(k) + 1 < EndOf(k + (d + 1))
    OBVIOUS
  <2> DEFINE l == k + (d + 1)
  <2>1. l \in 1..N /\ l - 1 = k + d /\ l - 1 \in 0..N /\ k + d <= N /\ l \in 0..N
    BY <1>1
  <2>2. d > 0 => EndOf(k) + 1 < EndOf(l - 1)
    BY <1>4, <2>1
  <2>3. d = 0 => l - 1 = k
    BY <2>1
  <2> HIDE DEF l
  <2>4. EndOf(l - 1) + 1 < EndOf(l) /\ EndOf(l) \in Nat /\ EndOf(l - 1) \in Nat /\ EndOf(k) \in Nat
    BY <1>1, <1>2, <2>1
  <2>5. EndOf(k) + 1 < EndOf(l)
    <3>1. CASE d > 0
      BY <2>2, <2>4, <3>1
    <3>2. CASE d = 0
      BY <2>3, <2>4, <3>2
    <3> QED  BY <3>1, <3>2
  <2> QED  BY <2>5 DEF l
<1>5. ASSUME i < j PROVE EndOf(i) + 1 < EndOf(j)
  <2>1. j - i \in Nat /\ j - i > 0 /\ i + (j - i) = j /\ j <= N
    BY <1>1, <1>5
  <2>2. j - i \in P
    <3> HIDE DEF P
    <3> QED  BY <1>3, <1>4, <2>1, EveryNumber
  <2>3. EndOf(i) + 1 < EndOf(i + (j - i))
    BY <2>1, <2>2
  <2> QED  BY <2>1, <2>3
<1>6. ASSUME i <= j PROVE EndOf(i) <= EndOf(j)
  <2>1. EndOf(i) \in Nat /\ EndOf(j) \in Nat
    BY <1>1
  <2>2. i = j \/ i < j
    BY <1>6
  <2> QED  BY <1>5, <2>1, <2>2
<1> QED
  BY <1>5, <1>6

(* Each place of the stream lies in one line, or after all of them.        *)
LEMMA LineAt ==
  ASSUME sent \in Seq(Form), NEW q \in 0..Len(Stream)
  PROVE  \E c \in 0..Len(sent) : EndOf(c) <= q /\ (c < Len(sent) => q < EndOf(c + 1))
<1> DEFINE N == Len(sent)
           S == {i \in 0..N : EndOf(i) <= q}
           c == Max(S)
<1>1. N \in Nat /\ EndOf(0) = 0 /\ \A k \in 0..N : EndOf(k) \in Nat
  BY Ends
<1>2. q \in Nat
  BY StreamIsBytes
<1>3. S \in SUBSET (0..N) /\ 0 \in S
  BY <1>1, <1>2
<1>4. c \in S /\ \A i \in S : i <= c
  <2>1. S # {}
    BY <1>3
  <2> HIDE DEF S
  <2> QED  BY <1>1, <1>3, <2>1, MaxIsLast
<1>5. c \in 0..N /\ EndOf(c) <= q
  BY <1>4
<1>6. ASSUME c < N PROVE q < EndOf(c + 1)
  <2>1. c + 1 \in 0..N /\ ~(c + 1 <= c)
    BY <1>1, <1>5, <1>6
  <2>2. c + 1 \notin S
    BY <1>4, <2>1
  <2>3. ~(EndOf(c + 1) <= q) /\ EndOf(c + 1) \in Nat
    <3> HIDE DEF c
    <3> QED  BY <1>1, <2>1, <2>2
  <2> QED  BY <1>2, <2>3
<1> HIDE DEF c
<1> QED
  BY <1>5, <1>6

(* A line feed ends a line and is nowhere else.                            *)
LEMMA FeedsAreEnds ==
  ASSUME sent \in Seq(Form), NEW p \in 1..Len(Stream)
  PROVE  Stream[p] = "LF" <=> \E i \in 1..Len(sent) : p = EndOf(i)
<1> DEFINE N == Len(sent)
<1>1. N \in Nat /\ EndOf(N) = Len(Stream) /\ \A k \in 0..N : EndOf(k) \in Nat
  BY Ends
<1>2. p \in Nat /\ p > 0 /\ Len(Stream) \in Nat
  BY StreamIsBytes
<1>3. ASSUME NEW i \in 1..N, p = EndOf(i) PROVE Stream[p] = "LF"
  <2>1. sent[i] \in Form
    OBVIOUS
  <2>2. Len(Wire(sent[i])) \in Nat \ {0, 1} /\ Wire(sent[i])[Len(Wire(sent[i]))] = "LF"
    BY <2>1, WireOfForm
  <2>3. Len(Wire(sent[i])) \in 1..Len(Wire(sent[i]))
    BY <2>2
  <2> QED  BY <1>3, <2>2, <2>3, Ends
<1>4. ASSUME Stream[p] = "LF" PROVE \E i \in 1..N : p = EndOf(i)
  <2>1. p - 1 \in 0..Len(Stream)
    BY <1>2
  <2>2. PICK c \in 0..N : EndOf(c) <= p - 1 /\ (c < N => p - 1 < EndOf(c + 1))
    BY <2>1, LineAt
  <2>3. c < N
    <3>1. c = N => EndOf(c) = Len(Stream)
      BY <1>1
    <3> QED  BY <1>1, <1>2, <2>2, <3>1
  <2> DEFINE i == c + 1
  <2>4. i \in 1..N /\ i - 1 = c
    BY <1>1, <2>3
  <2> HIDE DEF i
  <2> DEFINE w == Wire(sent[i])
             r == p - EndOf(c)
  <2>5. sent[i] \in Form
    BY <2>4
  <2>6. EndOf(i) = EndOf(c) + Len(w) /\ EndOf(i) \in Nat /\ EndOf(c) \in Nat /\ p - 1 < EndOf(i)
        /\ \A k \in 1..Len(w) : Stream[EndOf(c) + k] = w[k]
    BY <1>1, <2>2, <2>3, <2>4, Ends DEF i
  <2>7. Len(w) \in Nat
    BY <2>5, WireOfForm
  <2> HIDE DEF w
  <2>8. r \in 1..Len(w) /\ EndOf(c) + r = p
    BY <1>2, <2>2, <2>6, <2>7
  <2>9. w[r] = "LF"
    BY <1>4, <2>6, <2>8
  <2>10. ASSUME r # Len(w) PROVE FALSE
    <3>1. /\ Len(w) = IF sent[i].cr THEN Len(Body(sent[i])) + 2 ELSE Len(Body(sent[i])) + 1
          /\ \A k \in 1..Len(Body(sent[i])) : w[k] = Body(sent[i])[k]
          /\ sent[i].cr => w[Len(Body(sent[i])) + 1] = "CR"
          /\ Len(Body(sent[i])) \in Nat
      BY <2>5, WireOfForm DEF w
    <3>2. \A k \in 1..Len(Body(sent[i])) : Body(sent[i])[k] # "LF"
      <4>1. sent[i].counted \in BOOLEAN
        BY <2>5, AccountingAssumption
      <4>2. /\ sent[i].counted => /\ Body(sent[i])[1] = "digit" /\ Body(sent[i])[2] = "SP"
                                  /\ \A k \in 3..Len(Body(sent[i])) : Body(sent[i])[k] = "x"
            /\ ~sent[i].counted => \A k \in 1..Len(Body(sent[i])) : Body(sent[i])[k] = "x"
        BY <2>5, WireOfForm
      <4>3. \A k \in 1..Len(Body(sent[i])) : k = 1 \/ k = 2 \/ k \in 3..Len(Body(sent[i]))
        BY <3>1
      <4> QED  BY <4>1, <4>2, <4>3
    <3>3. r \in 1..Len(Body(sent[i])) \/ (sent[i].cr /\ r = Len(Body(sent[i])) + 1)
      <4>1. r \in Nat /\ r >= 1 /\ r < Len(w) /\ Len(w) \in Nat
        BY <2>7, <2>8, <2>10
      <4>2. CASE sent[i].cr
        BY <3>1, <4>1, <4>2
      <4>3. CASE ~sent[i].cr
        BY <3>1, <4>1, <4>3
      <4> QED  BY <4>2, <4>3
    <3> QED  BY <2>9, <3>1, <3>2, <3>3
  <2>11. p = EndOf(i)
    BY <2>6, <2>8, <2>10
  <2> QED  BY <2>4, <2>11
<1> QED
  BY <1>3, <1>4

-----------------------------------------------------------------------------
(* A part of a sequence.                                                   *)
LEMMA PartOf ==
  ASSUME NEW S, NEW b \in Seq(S), NEW m \in Nat \ {0}, NEW n \in Nat, m <= n + 1, n <= Len(b)
  PROVE  /\ SubSeq(b, m, n) \in Seq(S) /\ Len(SubSeq(b, m, n)) = n + 1 - m
         /\ \A i \in 1..(n + 1 - m) : SubSeq(b, m, n)[i] = b[m - 1 + i]
<1>1. m \in Int /\ n \in Int /\ Len(b) \in Nat
  OBVIOUS
<1>2. ASSUME NEW i \in m..n PROVE b[i] \in S
  <2>1. i \in 1..Len(b)
    BY <1>1
  <2> QED  BY <2>1
<1>3. /\ SubSeq(b, m, n) \in Seq(S)
      /\ Len(SubSeq(b, m, n)) = IF m <= n THEN n - m + 1 ELSE 0
      /\ \A i \in 1..(n - m + 1) : SubSeq(b, m, n)[i] = b[m + i - 1]
  BY <1>1, <1>2, SubSeqProperties
<1>4. n - m + 1 = n + 1 - m /\ (m <= n \/ n + 1 - m = 0)
  BY <1>1
<1>5. ASSUME NEW i \in 1..(n + 1 - m) PROVE SubSeq(b, m, n)[i] = b[m - 1 + i]
  <2>1. i \in 1..(n - m + 1) /\ m + i - 1 = m - 1 + i
    BY <1>1
  <2> QED  BY <1>3, <2>1
<1> QED
  BY <1>3, <1>4, <1>5

(* As many as there are line feeds, and up to each, each piece of it       *)
(* (receiver.py:246-251).                                                  *)
LEMMA LinesOf ==
  ASSUME NEW b \in Seq(Byte), NEW m \in Nat, NEW e \in [0..m -> 0..Len(b)], e[0] = 0,
         \A k, l \in 0..m : k < l => e[k] < e[l],
         \A p \in 1..Len(b) : b[p] = "LF" <=> \E k \in 1..m : p = e[k]
  PROVE  /\ CutLines(b) = [k \in 1..m |-> SubSeq(b, e[k - 1] + 1, e[k] - 1)]
         /\ Rest(b) = SubSeq(b, e[m] + 1, Len(b))
<1> DEFINE B == Breaks(b)
           upto(i) == {j \in B : j <= i}
<1>1. Len(b) \in Nat /\ DOMAIN b = 1..Len(b) /\ \A k \in 0..m : e[k] \in Nat /\ e[k] <= Len(b)
  OBVIOUS
<1>2. ASSUME NEW k \in 1..m PROVE e[k] \in 1..Len(b)
  <2>1. 0 \in 0..m /\ k \in 0..m /\ 0 < k
    OBVIOUS
  <2>2. e[0] < e[k]
    BY <2>1
  <2> QED  BY <1>1, <2>1, <2>2
<1>3. B = {e[k] : k \in 1..m}
  <2>1. ASSUME NEW p \in B PROVE p \in {e[k] : k \in 1..m}
    BY <1>1 DEF Breaks
  <2>2. ASSUME NEW k \in 1..m PROVE e[k] \in B
    <3>1. b[e[k]] = "LF"
      BY <1>2
    <3> QED  BY <1>1, <1>2, <3>1 DEF Breaks
  <2> HIDE DEF B
  <2> QED  BY <2>1, <2>2
<1>4. \A k, l \in 1..m : (e[k] <= e[l] <=> k <= l) /\ (e[k] = e[l] => k = l)
  <2>1. ASSUME NEW k \in 1..m, NEW l \in 1..m
        PROVE  (e[k] <= e[l] <=> k <= l) /\ (e[k] = e[l] => k = l)
    <3>1. k \in 0..m /\ l \in 0..m /\ e[k] \in Nat /\ e[l] \in Nat
      BY <1>1
    <3>2. (k < l => e[k] < e[l]) /\ (l < k => e[l] < e[k])
      BY <3>1
    <3>3. k < l \/ l < k \/ k = l
      OBVIOUS
    <3> QED  BY <3>1, <3>2, <3>3
  <2> QED  BY <2>1
<1> HIDE DEF B
<1>5. ASSUME NEW i \in 0..m, NEW T, T = {e[k] : k \in 1..i} PROVE Cardinality(T) = i
  <2> DEFINE f == [k \in 1..i |-> e[k]]
  <2>1. \A k \in 1..i : k \in 1..m
    OBVIOUS
  <2>2. f \in Bijection(1..i, T)
    <3>1. f \in [1..i -> T] /\ \A k \in 1..i : f[k] = e[k]
      BY <1>5
    <3> HIDE DEF f
    <3>2. \A t \in T : \E k \in 1..i : f[k] = t
      BY <1>5, <3>1
    <3>3. \A k, l \in 1..i : f[k] = f[l] => k = l
      BY <1>4, <2>1, <3>1
    <3>4. f \in Injection(1..i, T)
      BY <3>1, <3>3 DEF Injection, IsInjective
    <3>5. f \in Surjection(1..i, T)
      BY <3>1, <3>2 DEF Surjection
    <3> QED  BY <3>4, <3>5 DEF Bijection
  <2>3. i \in Nat /\ ExistsBijection(1..i, T)
    BY <2>2 DEF ExistsBijection
  <2> QED  BY <2>3, FS_CountingElements
<1>6. Cardinality(B) = m
  <2>1. m \in 0..m
    OBVIOUS
  <2> QED  BY <1>3, <1>5, <2>1
<1>7. ASSUME NEW l \in 1..m PROVE Cardinality(upto(e[l])) = l
  <2>1. upto(e[l]) = {e[k] : k \in 1..l}
    <3>1. ASSUME NEW j \in upto(e[l]) PROVE j \in {e[k] : k \in 1..l}
      <4>1. PICK k \in 1..m : j = e[k]
        BY <1>3
      <4>2. k <= l
        BY <1>4, <4>1
      <4> QED  BY <4>1, <4>2
    <3>2. ASSUME NEW k \in 1..l PROVE e[k] \in upto(e[l])
      <4>1. k \in 1..m /\ k <= l
        OBVIOUS
      <4>2. e[k] <= e[l] /\ e[k] \in B
        BY <1>3, <1>4, <4>1
      <4> QED  BY <4>2
    <3> HIDE DEF upto
    <3> QED  BY <3>1, <3>2
  <2>2. l \in 0..m
    OBVIOUS
  <2> HIDE DEF upto
  <2> QED  BY <1>5, <2>1, <2>2
<1> DEFINE end(k) == CHOOSE i \in B : Cardinality(upto(i)) = k
<1>8. ASSUME NEW k \in 1..m PROVE end(k) = e[k]
  <2> HIDE DEF upto
  <2>1. e[k] \in B /\ Cardinality(upto(e[k])) = k
    BY <1>3, <1>7
  <2>2. end(k) \in B /\ Cardinality(upto(end(k))) = k
    BY <2>1
  <2> HIDE DEF end
  <2>3. PICK l \in 1..m : end(k) = e[l]
    BY <1>3, <2>2
  <2>4. Cardinality(upto(e[l])) = l
    BY <1>7
  <2> QED  BY <2>2, <2>3, <2>4
<1>9. CutLines(b) = [k \in 1..m |-> SubSeq(b, e[k - 1] + 1, e[k] - 1)]
  <2> DEFINE start(k) == IF k = 1 THEN 1 ELSE end(k - 1) + 1
  <2>1. CutLines(b) = [k \in 1..Cardinality(B) |-> SubSeq(b, start(k), end(k) - 1)]
    BY DEF CutLines, B
  <2>2. ASSUME NEW k \in 1..m PROVE start(k) = e[k - 1] + 1 /\ end(k) = e[k]
    <3>1. CASE k = 1
      <4>1. start(k) = 1 /\ k - 1 = 0
        BY <3>1
      <4>2. e[k - 1] + 1 = 1
        BY <4>1
      <4> HIDE DEF start, end
      <4> QED  BY <1>8, <4>1, <4>2
    <3>2. CASE k # 1
      <4>1. k - 1 \in 1..m
        BY <3>2
      <4>2. start(k) = end(k - 1) + 1
        BY <3>2
      <4> HIDE DEF start, end
      <4> QED  BY <1>8, <4>1, <4>2
    <3> QED  BY <3>1, <3>2
  <2> HIDE DEF start, end
  <2> QED  BY <1>6, <2>1, <2>2
<1>10. Max(B \cup {0}) = e[m]
  <2> DEFINE S == B \cup {0}
  <2>1. S \in SUBSET (0..Len(b)) /\ 0 \in S
    BY <1>1, <1>2, <1>3
  <2>2. e[m] \in S /\ \A i \in S : i <= e[m]
    <3>1. CASE m = 0
      <4>1. B = {}
        BY <1>3, <3>1
      <4> QED  BY <3>1, <4>1
    <3>2. CASE m # 0
      <4>1. m \in 1..m /\ m \in 0..m
        BY <3>2
      <4>2. \A k \in 1..m : e[k] <= e[m]
        BY <1>4, <4>1
      <4> QED  BY <1>1, <1>3, <4>1, <4>2
    <3> QED  BY <3>1, <3>2
  <2> HIDE DEF S
  <2>3. Max(S) \in S /\ \A i \in S : i <= Max(S)
    <3>1. S # {}
      BY <2>1
    <3> QED  BY <1>1, <2>1, <3>1, MaxIsLast
  <2>4. Max(S) <= e[m] /\ e[m] <= Max(S) /\ Max(S) \in Nat /\ e[m] \in Nat
    <3>1. m \in 0..m /\ \A i \in S : i \in Nat
      BY <1>1, <2>1
    <3> QED  BY <1>1, <2>2, <2>3, <3>1
  <2>5. Max(S) = e[m]
    BY <2>4
  <2> QED  BY <2>5 DEF S
<1>11. Rest(b) = SubSeq(b, e[m] + 1, Len(b))
  BY <1>10 DEF Rest, B
<1> QED
  BY <1>9, <1>11

(* 1 if there is nothing on the first line, and it is passed over. *)
Skipped(b) == IF 1 \in DOMAIN CutLines(b) /\ StripReturns(CutLines(b)[1]) = <<>> THEN 1 ELSE 0

(* What is handed on of the lines, if only the first may be empty          *)
(* (receiver.py:249-253).                                                  *)
LEMMA PayloadsOf ==
  ASSUME NEW b, NEW m \in Nat, DOMAIN CutLines(b) = 1..m,
         \A k \in 2..m : StripReturns(CutLines(b)[k]) # <<>>
  PROVE  /\ DOMAIN Payloads(b) = 1..(m - Skipped(b))
         /\ \A k \in 1..(m - Skipped(b)) :
              Payloads(b)[k] = StripOctetCount(StripReturns(CutLines(b)[k + Skipped(b)]))
<1> DEFINE ls == CutLines(b)
           o == Skipped(b)
           S == {StripOctetCount(StripReturns(ls[k])) : k \in 1..m}
           G == [k \in 1..m |-> [p \in Seq(S) |-> Handle(p, ls[k])]]
           F == CHOOSE iter : iter = [s \in SUBSET DOMAIN ls |->
                  IF s = {} THEN <<>> ELSE Handle(iter[s \ {Max(s)}], ls[Max(s)])]
           part(k) == [j \in 1..(k - o) |-> StripOctetCount(StripReturns(ls[j + o]))]
<1>1. Payloads(b) = F[DOMAIN ls]
  BY DEF Payloads, FoldLeft, MapThenFoldSet
<1>2. DOMAIN ls = 1..m /\ \A k \in 2..m : StripReturns(ls[k]) # <<>>
  OBVIOUS
<1> HIDE DEF ls
<1>3. ASSUME NEW k \in 1..m, NEW p \in Seq(S) PROVE Handle(p, ls[k]) \in Seq(S)
  BY DEF Handle
<1> HIDE DEF S
<1>4. G \in [1..m -> [Seq(S) -> Seq(S)]] /\ <<>> \in Seq(S)
  BY <1>3
<1>5. PICK it \in [SUBSET (1..m) -> Seq(S)] : IsFold(it, m, <<>>, G)
  BY <1>4, FoldExists
<1>6. it = [s \in SUBSET DOMAIN ls |->
              IF s = {} THEN <<>> ELSE Handle(it[s \ {Max(s)}], ls[Max(s)])]
  <2>1. ASSUME NEW s \in SUBSET (1..m)
        PROVE  it[s] = IF s = {} THEN <<>> ELSE Handle(it[s \ {Max(s)}], ls[Max(s)])
    <3>1. s \in SUBSET (0..m)
      OBVIOUS
    <3>2. s # {} => Max(s) \in 1..m
      BY <3>1, MaxIsLast
    <3>3. it[s \ {Max(s)}] \in Seq(S)
      OBVIOUS
    <3>4. s # {} => G[Max(s)][it[s \ {Max(s)}]] = Handle(it[s \ {Max(s)}], ls[Max(s)])
      BY <3>2, <3>3
    <3>5. it[s] = IF s = {} THEN <<>> ELSE G[Max(s)][it[s \ {Max(s)}]]
      BY <1>5 DEF IsFold
    <3> QED  BY <3>4, <3>5
  <2> QED  BY <1>2, <2>1
<1> HIDE DEF G
<1>7. F = [s \in SUBSET DOMAIN ls |->
             IF s = {} THEN <<>> ELSE Handle(F[s \ {Max(s)}], ls[Max(s)])]
  BY <1>6
<1> HIDE DEF F
<1>8. F[1..0] = <<>> /\ \A k \in 1..m : F[1..k] = Handle(F[1..(k - 1)], ls[k])
  <2>1. \A s \in SUBSET (1..m) :
           F[s] = IF s = {} THEN <<>> ELSE Handle(F[s \ {Max(s)}], ls[Max(s)])
    BY <1>2, <1>7
  <2>2. 1..0 = {} /\ {} \in SUBSET (1..m)
    OBVIOUS
  <2> QED  BY <2>1, <2>2, LastPlace
<1>9. o \in {0, 1} /\ (o = 1 => m > 0) /\ (m > 0 => (o = 1 <=> StripReturns(ls[1]) = <<>>))
  <2>1. 1 \in DOMAIN ls <=> m > 0
    BY <1>2
  <2>2. o = IF 1 \in DOMAIN ls /\ StripReturns(ls[1]) = <<>> THEN 1 ELSE 0
    BY DEF Skipped, ls
  <2> HIDE DEF o
  <2> QED  BY <2>1, <2>2
<1> HIDE DEF o
<1> DEFINE P == {k \in Nat : k <= m => F[1..k] = part(k)}
<1>10. 0 \in P
  <2>1. 1..(0 - o) = {}
    BY <1>9
  <2>2. part(0) = <<>>
    BY <2>1
  <2> HIDE DEF part
  <2> QED  BY <1>8, <2>2
<1>11. ASSUME NEW k \in Nat, k \in P PROVE k + 1 \in P
  <2> SUFFICES ASSUME k + 1 <= m PROVE F[1..(k + 1)] = part(k + 1)
    OBVIOUS
  <2>1. k + 1 \in 1..m /\ (k + 1) - 1 = k /\ F[1..k] = part(k) /\ k - o \in Int
    BY <1>9, <1>11
  <2>2. F[1..(k + 1)] = Handle(part(k), ls[k + 1])
    <3> HIDE DEF part
    <3>1. F[1..(k + 1)] = Handle(F[1..((k + 1) - 1)], ls[k + 1])
      BY <1>8, <2>1
    <3> QED  BY <2>1, <3>1
  <2>3. CASE k = 0 /\ o = 1
    <3>1. StripReturns(ls[k + 1]) = <<>>
      BY <1>9, <2>1, <2>3
    <3>2. k <= o /\ k + 1 <= o
      BY <2>3
    <3>3. part(k) = <<>> /\ part(k + 1) = <<>>
      <4>1. ASSUME NEW i \in Nat, i <= o PROVE part(i) = <<>>
        <5>1. 1..(i - o) = {}
          BY <1>9, <4>1
        <5> QED  BY <5>1
      <4>2. part(k) = <<>>
        <5> HIDE DEF part
        <5> QED  BY <3>2, <4>1
      <4>3. part(k + 1) = <<>>
        <5>1. k + 1 \in Nat
          OBVIOUS
        <5> HIDE DEF part
        <5> QED  BY <3>2, <4>1, <5>1
      <4> HIDE DEF part
      <4> QED  BY <4>2, <4>3
    <3> HIDE DEF part
    <3> QED  BY <2>2, <3>1, <3>3 DEF Handle
  <2>4. CASE ~(k = 0 /\ o = 1)
    <3> DEFINE pl == StripOctetCount(StripReturns(ls[k + 1]))
    <3>1. StripReturns(ls[k + 1]) # <<>>
      <4>1. CASE k = 0
        BY <1>9, <2>1, <2>4, <4>1
      <4>2. CASE k # 0
        <5>1. k + 1 \in 2..m
          BY <2>1, <4>2
        <5> QED  BY <1>2, <5>1
      <4> QED  BY <4>1, <4>2
    <3>2. Handle(part(k), ls[k + 1]) = Append(part(k), pl)
      <4> HIDE DEF part
      <4> QED  BY <3>1 DEF Handle
    <3>3. part(k + 1) = Append(part(k), pl)
      <4> DEFINE n == k - o
      <4>1. n \in Nat /\ (k + 1) - o = n + 1 /\ (n + 1) + o = k + 1
        BY <1>9, <2>4
      <4>2. part(k + 1) = [j \in 1..(n + 1) |-> StripOctetCount(StripReturns(ls[j + o]))]
        BY <4>1
      <4>3. part(k) = [j \in 1..n |-> StripOctetCount(StripReturns(ls[j + o]))]
        OBVIOUS
      <4>4. ASSUME NEW j \in 1..(n + 1)
            PROVE  StripOctetCount(StripReturns(ls[j + o])) = IF j = n + 1 THEN pl ELSE part(k)[j]
        <5>1. CASE j = n + 1
          BY <4>1, <5>1
        <5>2. CASE j # n + 1
          <6>1. j \in 1..n
            BY <4>1, <5>2
          <6> QED  BY <4>3, <5>2, <6>1
        <5> QED  BY <5>1, <5>2
      <4> DEFINE T == {StripOctetCount(StripReturns(ls[j])) : j \in 1..m}
      <4>5. ASSUME NEW j \in 1..(n + 1) PROVE StripOctetCount(StripReturns(ls[j + o])) \in T
        <5>1. j + o \in 1..m
          BY <1>9, <4>1
        <5> QED  BY <5>1
      <4> HIDE DEF T
      <4>6. part(k + 1) \in Seq(T) /\ DOMAIN part(k + 1) = 1..(n + 1)
        <5>1. [j \in 1..(n + 1) |-> StripOctetCount(StripReturns(ls[j + o]))] \in Seq(T)
          BY <4>1, <4>5, IsASeq
        <5> HIDE DEF n
        <5> QED  BY <4>2, <5>1
      <4>7. part(k) \in Seq(T) /\ DOMAIN part(k) = 1..n /\ pl \in T
        <5>1. [j \in 1..n |-> StripOctetCount(StripReturns(ls[j + o]))] \in Seq(T)
          <6>1. \A j \in 1..n : j \in 1..(n + 1)
            BY <4>1
          <6> QED  BY <4>1, <4>5, <6>1, IsASeq
        <5>2. pl \in T
          <6>1. n + 1 \in 1..(n + 1)
            BY <4>1
          <6> QED  BY <4>1, <4>5, <6>1
        <5> HIDE DEF n, pl
        <5> QED  BY <4>3, <5>1, <5>2
      <4>8. \A j \in 1..(n + 1) : part(k + 1)[j] = IF j = n + 1 THEN pl ELSE part(k)[j]
        <5> HIDE DEF pl, n
        <5> QED  BY <4>2, <4>4
      <4> DEFINE x == part(k)
                 y == part(k + 1)
      <4>9. y = Append(x, pl)
        <5>1. /\ x \in Seq(T) /\ y \in Seq(T) /\ DOMAIN x = 1..n /\ DOMAIN y = 1..(n + 1) /\ pl \in T
              /\ n \in Nat /\ \A j \in 1..(n + 1) : y[j] = IF j = n + 1 THEN pl ELSE x[j]
          BY <4>1, <4>6, <4>7, <4>8
        <5> HIDE DEF x, y, n, pl, part
        <5>2. Len(x) = n /\ Len(y) = n + 1
          BY <5>1
        <5>3. /\ Append(x, pl) \in Seq(T) /\ Len(Append(x, pl)) = n + 1
              /\ \A j \in 1..(n + 1) : Append(x, pl)[j] = IF j = n + 1 THEN pl ELSE x[j]
          BY <5>1, <5>2
        <5> QED  BY <5>1, <5>2, <5>3, SeqEqual
      <4> HIDE DEF pl, part
      <4> QED  BY <4>9
    <3> HIDE DEF part, pl
    <3> QED  BY <2>2, <3>2, <3>3
  <2> QED  BY <2>3, <2>4
<1>12. F[1..m] = part(m)
  <2>1. m \in P
    <3> HIDE DEF P
    <3> QED  BY <1>10, <1>11, EveryNumber
  <2>2. m <= m
    OBVIOUS
  <2> HIDE DEF part
  <2> QED  BY <2>1, <2>2
<1>13. Payloads(b) = part(m)
  <2> HIDE DEF part
  <2> QED  BY <1>1, <1>2, <1>12
<1> QED
  BY <1>13 DEF part, o, ls

(* What rstrip leaves of the end of a line (receiver.py:249).              *)
LEMMA ReturnStripped ==
  ASSUME NEW f \in Form, NEW n \in 1..Len(Wire(f))
  PROVE  /\ StripReturns(SubSeq(Wire(f), n, Len(Wire(f)) - 1)) = SubSeq(Body(f), n, Len(Body(f)))
         /\ SubSeq(Body(f), n, Len(Body(f))) # <<>> <=> n <= Len(Body(f))
<1> DEFINE w == Wire(f)
           b == Body(f)
           m == Len(Body(f))
           l == SubSeq(Wire(f), n, Len(Wire(f)) - 1)
           I == {i \in 1..Len(l) : l[i] # "CR"}
<1>1. /\ w \in Seq(Byte) /\ b \in Seq(Byte) /\ m \in Nat \ {0} /\ m = Len(b)
      /\ Len(w) = (IF f.cr THEN m + 2 ELSE m + 1) /\ Len(w) \in Nat \ {0, 1}
      /\ \A p \in 1..m : w[p] = b[p]
      /\ f.cr => w[m + 1] = "CR"
  BY WireOfForm
<1>2. \A p \in 1..m : b[p] # "CR"
  <2>1. f.counted \in BOOLEAN
    BY AccountingAssumption
  <2>2. /\ f.counted => b[1] = "digit" /\ b[2] = "SP" /\ \A p \in 3..m : b[p] = "x"
        /\ ~f.counted => \A p \in 1..m : b[p] = "x"
    BY WireOfForm
  <2>3. \A p \in 1..m : p = 1 \/ p = 2 \/ p \in 3..m
    BY <1>1
  <2> HIDE DEF b, m
  <2> QED  BY <2>1, <2>2, <2>3
<1>3. n \in 1..Len(w)
  OBVIOUS
<1>4. /\ l \in Seq(Byte) /\ Len(l) = Len(w) - n
      /\ \A i \in 1..(Len(w) - n) : l[i] = w[n - 1 + i]
  <2> DEFINE z == Len(w) - 1
  <2>1. l = SubSeq(w, n, z)
    OBVIOUS
  <2>2. n \in Nat \ {0} /\ z \in Nat /\ n <= z + 1 /\ z <= Len(w) /\ z + 1 - n = Len(w) - n
    <3> HIDE DEF w
    <3> QED  BY <1>1, <1>3
  <2> HIDE DEF z, w, l
  <2> QED  BY <1>1, <2>1, <2>2, PartOf
<1>5. StripReturns(l) = SubSeq(l, 1, IF I # {} THEN Max(I) ELSE 0)
  BY DEF StripReturns, SelectLastInSeq
<1> HIDE DEF w, b, m, l
<1>6. CASE n <= m
  <2> DEFINE e == m + 1 - n
  <2>1. /\ e \in Nat \ {0} /\ n \in Nat \ {0} /\ Len(w) \in Nat
        /\ e = Len(l) \/ (f.cr /\ e + 1 = Len(l))
    BY <1>1, <1>3, <1>4, <1>6
  <2>2. ASSUME NEW i \in 1..e PROVE i \in 1..Len(l) /\ l[i] = b[n - 1 + i]
    <3>1. i \in 1..(Len(w) - n) /\ n - 1 + i \in 1..m
      BY <1>1, <1>3, <1>4, <1>6, <2>1
    <3> QED  BY <1>1, <1>4, <3>1
  <2>3. ASSUME NEW i \in 1..Len(l), i \notin 1..e PROVE l[i] = "CR"
    <3>1. f.cr /\ i = e + 1
      BY <1>4, <2>1, <2>3
    <3>2. i \in 1..(Len(w) - n) /\ n - 1 + i = m + 1
      BY <1>1, <1>3, <1>4, <3>1
    <3> QED  BY <1>1, <1>4, <3>1, <3>2
  <2>4. I = 1..e
    <3>1. ASSUME NEW i \in 1..e PROVE i \in I
      <4>1. n - 1 + i \in 1..m
        BY <1>1, <1>3, <1>6
      <4> QED  BY <1>2, <2>2, <4>1
    <3>2. ASSUME NEW i \in I PROVE i \in 1..e
      BY <2>3
    <3> HIDE DEF I, e
    <3> QED  BY <3>1, <3>2
  <2>5. Max(I) = e /\ I # {}
    <3>1. e \in 1..e
      BY <2>1
    <3> HIDE DEF e, I
    <3> QED  BY <2>1, <2>4, <3>1, LastPlace
  <2>6. StripReturns(l) = SubSeq(l, 1, e)
    <3> HIDE DEF e, I
    <3> QED  BY <1>5, <2>5
  <2>7. SubSeq(l, 1, e) \in Seq(Byte) /\ Len(SubSeq(l, 1, e)) = e
        /\ \A i \in 1..e : SubSeq(l, 1, e)[i] = l[i]
    <3>1. 1 <= e + 1 /\ e <= Len(l) /\ e + 1 - 1 = e /\ 1 \in Nat \ {0} /\ \A i \in 1..e : 1 - 1 + i = i
      BY <1>4, <2>1
    <3>2. SubSeq(l, 1, e) \in Seq(Byte) /\ Len(SubSeq(l, 1, e)) = e + 1 - 1
        /\ \A i \in 1..(e + 1 - 1) : SubSeq(l, 1, e)[i] = l[1 - 1 + i]
      <4> HIDE DEF e
      <4> QED  BY <1>4, <2>1, <3>1, PartOf
    <3> HIDE DEF e
    <3> QED  BY <3>1, <3>2
  <2>8. SubSeq(b, n, m) \in Seq(Byte) /\ Len(SubSeq(b, n, m)) = e
        /\ \A i \in 1..e : SubSeq(b, n, m)[i] = b[n - 1 + i]
    <3>1. n <= m + 1 /\ m <= Len(b) /\ m \in Nat
      BY <1>1, <1>6, <2>1
    <3> QED  BY <1>1, <2>1, <3>1, PartOf
  <2>9. SubSeq(l, 1, e) = SubSeq(b, n, m)
    <3> HIDE DEF e
    <3> QED  BY <2>2, <2>7, <2>8, SeqEqual
  <2>10. SubSeq(b, n, m) # <<>>
    BY <2>1, <2>8
  <2> QED  BY <1>6, <2>6, <2>9, <2>10 DEF w, b, m, l
<1>7. CASE ~(n <= m)
  <2>1. Len(l) = 0 \/ (f.cr /\ Len(l) = 1 /\ l[1] = "CR")
    <3>1. CASE f.cr /\ n = m + 1
      <4>1. Len(w) - n = 1 /\ n - 1 + 1 = m + 1 /\ 1 \in 1..(Len(w) - n)
        BY <1>1, <3>1
      <4> QED  BY <1>1, <1>4, <3>1, <4>1
    <3>2. CASE ~(f.cr /\ n = m + 1)
      <4>1. CASE f.cr
        BY <1>1, <1>3, <1>4, <1>7, <3>2, <4>1
      <4>2. CASE ~f.cr
        BY <1>1, <1>3, <1>4, <1>7, <4>2
      <4> QED  BY <4>1, <4>2
    <3> QED  BY <3>1, <3>2
  <2>2. I = {}
    BY <2>1
  <2>3. StripReturns(l) = <<>>
    <3>1. StripReturns(l) = SubSeq(l, 1, 0)
      BY <1>5, <2>2
    <3> QED  BY <3>1, SubSeqEmpty
  <2>4. SubSeq(b, n, m) = <<>>
    <3>1. n \in Int /\ m \in Int /\ m < n
      BY <1>1, <1>3, <1>7
    <3> QED  BY <3>1, SubSeqEmpty
  <2> QED  BY <1>7, <2>3, <2>4 DEF w, b, m, l
<1> QED
  BY <1>6, <1>7

(* What of a line is handed on: its end, and of a whole line the record    *)
(* (receiver.py:220-229).                                                  *)
LEMMA CountStripped ==
  ASSUME NEW f \in Form, NEW n \in 1..Len(Body(f))
  PROVE  LET payload == StripOctetCount(SubSeq(Body(f), n, Len(Body(f))))
         IN /\ \E k \in 1..Len(Body(f)) : payload = SubSeq(Body(f), k, Len(Body(f)))
            /\ n = 1 => payload = Content(f)
<1> DEFINE b == Body(f)
           m == Len(Body(f))
           s == f.size
           l == SubSeq(Body(f), n, Len(Body(f)))
           I == {i \in 1..Len(l) : l[i] = "SP"}
           sp == IF I # {} THEN Min(I) ELSE 0
<1>1. /\ b \in Seq(Byte) /\ m \in Nat \ {0} /\ m = Len(b) /\ s \in Nat \ {0}
      /\ m = IF f.counted THEN s + 2 ELSE s
      /\ f.counted => b[1] = "digit" /\ b[2] = "SP" /\ \A p \in 3..m : b[p] = "x"
      /\ ~f.counted => \A p \in 1..m : b[p] = "x"
  BY WireOfForm
<1>2. f.counted \in BOOLEAN
  BY AccountingAssumption
<1>3. n \in 1..m
  OBVIOUS
<1>4. StripOctetCount(l) = IF sp \in 2..7 /\ \A i \in 1..(sp - 1) : l[i] = "digit"
                           THEN SubSeq(l, sp + 1, Len(l)) ELSE l
  BY DEF StripOctetCount, SelectInSeq
<1>5. l = SubSeq(b, n, m)
  OBVIOUS
<1> HIDE DEF b, m, l, s
<1>6. l \in Seq(Byte) /\ Len(l) = m + 1 - n /\ \A i \in 1..(m + 1 - n) : l[i] = b[n - 1 + i]
  <2>1. n \in Nat \ {0} /\ m \in Nat /\ n <= m + 1 /\ m <= Len(b) /\ b \in Seq(Byte)
    BY <1>1, <1>3
  <2> QED  BY <1>5, <2>1, PartOf
<1>7. Content(f) \in Seq(Byte) /\ Len(Content(f)) = s /\ \A p \in 1..s : Content(f)[p] = "x"
  BY <1>1 DEF Content, Byte, s
<1>8. CASE f.counted /\ n = 1
  <2>1. m = s + 2 /\ Len(l) = m /\ m >= 3 /\ \A i \in 1..m : l[i] = b[i]
    <3>1. \A i \in 1..m : n - 1 + i = i /\ i \in 1..(m + 1 - n)
      BY <1>1, <1>8
    <3>2. m + 1 - n = m /\ m = s + 2
      BY <1>1, <1>8
    <3> QED  BY <1>1, <1>6, <3>1, <3>2
  <2>2. 1 \in 1..m /\ 2 \in 1..m /\ l[1] = "digit" /\ l[2] = "SP" /\ \A i \in 3..m : i \in 1..m /\ l[i] = "x"
    BY <1>1, <1>8, <2>1
  <2>3. I = {2}
    <3>1. \A i \in 1..m : i = 1 \/ i = 2 \/ i \in 3..m
      BY <1>1
    <3> QED  BY <2>1, <2>2, <3>1
  <2>4. sp = 2
    <3>1. Min({2}) = 2
      BY DEF Min
    <3> HIDE DEF I
    <3> QED  BY <2>3, <3>1
  <2> HIDE DEF sp
  <2>5. StripOctetCount(l) = SubSeq(l, 3, m)
    <3>1. sp \in 2..7 /\ \A i \in 1..(sp - 1) : l[i] = "digit"
      BY <2>2, <2>4
    <3>2. sp + 1 = 3
      BY <2>4
    <3> QED  BY <1>4, <2>1, <3>1, <3>2
  <2>6. l = b
    <3>1. Len(l) = Len(b) /\ \A i \in 1..Len(l) : l[i] = b[i]
      BY <1>1, <2>1
    <3> QED  BY <1>1, <1>6, <3>1, SeqEqual
  <2>7. SubSeq(b, 3, m) = Content(f)
    <3>1. /\ SubSeq(b, 3, m) \in Seq(Byte) /\ Len(SubSeq(b, 3, m)) = m + 1 - 3
          /\ \A i \in 1..(m + 1 - 3) : SubSeq(b, 3, m)[i] = b[3 - 1 + i]
      <4>1. 3 \in Nat \ {0} /\ m \in Nat /\ 3 <= m + 1 /\ m <= Len(b) /\ b \in Seq(Byte)
        BY <1>1, <2>1
      <4> QED  BY <4>1, PartOf
    <3>2. m + 1 - 3 = s /\ \A i \in 1..s : 3 - 1 + i \in 3..m
      BY <1>1, <2>1
    <3>3. \A i \in 1..s : SubSeq(b, 3, m)[i] = "x"
      BY <1>1, <1>8, <3>1, <3>2
    <3>4. Len(SubSeq(b, 3, m)) = s
      BY <3>1, <3>2
    <3> QED  BY <1>7, <3>1, <3>3, <3>4, SeqEqual
  <2>8. 3 \in 1..m
    BY <1>1, <2>1
  <2> QED  BY <2>5, <2>6, <2>7, <2>8 DEF b, m, l
<1>9. CASE ~(f.counted /\ n = 1)
  <2>1. ASSUME NEW i \in I PROVE i = 1
    <3>1. i \in 1..(m + 1 - n) /\ l[i] = "SP" /\ n - 1 + i \in 1..m
      BY <1>1, <1>3, <1>6
    <3>2. b[n - 1 + i] = "SP"
      BY <1>6, <3>1
    <3>3. f.counted
      BY <1>1, <3>1, <3>2
    <3>4. n - 1 + i = 2
      <4>1. n - 1 + i = 1 \/ n - 1 + i = 2 \/ n - 1 + i \in 3..m
        BY <1>1, <3>1
      <4>2. n - 1 + i # 1
        BY <1>1, <3>2, <3>3
      <4>3. n - 1 + i \notin 3..m
        BY <1>1, <3>2, <3>3
      <4> QED  BY <4>1, <4>2, <4>3
    <3> QED  BY <1>3, <1>9, <3>1, <3>3, <3>4
  <2>2. sp \notin 2..7
    <3>1. CASE I = {}
      BY <3>1
    <3>2. CASE I # {}
      <4>1. I = {1}
        BY <2>1, <3>2
      <4>2. Min({1}) = 1
        BY DEF Min
      <4> HIDE DEF I
      <4> QED  BY <4>1, <4>2
    <3> QED  BY <3>1, <3>2
  <2>3. StripOctetCount(l) = l
    <3> HIDE DEF sp
    <3> QED  BY <1>4, <2>2
  <2>4. ASSUME n = 1 PROVE l = Content(f)
    <3>1. ~f.counted /\ m = s /\ m + 1 - n = s
      BY <1>1, <1>2, <1>9, <2>4
    <3>2. \A i \in 1..s : n - 1 + i = i /\ i \in 1..(m + 1 - n)
      BY <1>1, <2>4, <3>1
    <3>3. \A i \in 1..s : l[i] = "x"
      BY <1>1, <1>6, <3>1, <3>2
    <3>4. Len(l) = s
      BY <1>6, <3>1
    <3> QED  BY <1>6, <1>7, <3>3, <3>4, SeqEqual
  <2> QED  BY <1>3, <1>5, <2>3, <2>4 DEF b, m, l
<1> QED
  BY <1>8, <1>9

-----------------------------------------------------------------------------
(* A part of what a router sends.                                          *)
LEMMA PartOfStream ==
  ASSUME sent \in Seq(Form), NEW s \in Nat, NEW a \in Nat, s <= a, a <= Len(Stream)
  PROVE  /\ SubSeq(Stream, s + 1, a) \in Seq(Byte) /\ Len(SubSeq(Stream, s + 1, a)) = a - s
         /\ \A p \in 1..(a - s) : SubSeq(Stream, s + 1, a)[p] = Stream[s + p]
<1>1. Stream \in Seq(Byte) /\ Len(Stream) \in Nat
  BY StreamIsBytes
<1> DEFINE m == s + 1
<1>2. m \in Nat \ {0} /\ m <= a + 1 /\ a + 1 - m = a - s
  OBVIOUS
<1>3. /\ SubSeq(Stream, m, a) \in Seq(Byte) /\ Len(SubSeq(Stream, m, a)) = a + 1 - m
      /\ \A p \in 1..(a + 1 - m) : SubSeq(Stream, m, a)[p] = Stream[m - 1 + p]
  <2> HIDE DEF m
  <2> QED  BY <1>1, <1>2, PartOf
<1>4. \A p \in 1..(a - s) : p \in 1..(a + 1 - m) /\ m - 1 + p = s + p
  OBVIOUS
<1> QED
  BY <1>2, <1>3, <1>4

(* Where the buffer starts that ends at a, if it started at s: MAX_LINE    *)
(* before it, or where it was.                                             *)
From(s, a) == IF s < a - MaxLine THEN a - MaxLine ELSE s

(* What is left after a chunk is again a part of the stream                *)
(* (receiver.py:241-245).                                                  *)
LEMMA BytesKept ==
  ASSUME sent \in Seq(Form), NEW s \in Nat, NEW a \in Nat, NEW n \in Nat, s <= a, a + n <= Len(Stream)
  PROVE  /\ Keep(SubSeq(Stream, s + 1, a) \o SubSeq(Stream, a + 1, a + n))
              = SubSeq(Stream, From(s, a + n) + 1, a + n)
         /\ From(s, a + n) \in Nat /\ s <= From(s, a + n) /\ From(s, a + n) <= a + n
<1> DEFINE x == SubSeq(Stream, s + 1, a)
           y == SubSeq(Stream, a + 1, a + n)
           z == SubSeq(Stream, s + 1, a + n)
           t == From(s, a + n)
           m == Max({1, Len(z) - MaxLine + 1})
<1>1. MaxLine \in Nat \ {0} /\ Len(Stream) \in Nat /\ a + n \in Nat /\ a <= a + n /\ s <= a + n
  BY FramingAssumption, StreamIsBytes
<1>2. /\ x \in Seq(Byte) /\ Len(x) = a - s /\ \A p \in 1..(a - s) : x[p] = Stream[s + p]
  <2>1. a <= Len(Stream)
    BY <1>1
  <2> QED  BY <2>1, PartOfStream
<1>3. /\ y \in Seq(Byte) /\ Len(y) = n /\ \A p \in 1..n : y[p] = Stream[a + p]
  <2>1. a + n - a = n
    OBVIOUS
  <2>2. /\ y \in Seq(Byte) /\ Len(y) = a + n - a /\ \A p \in 1..(a + n - a) : y[p] = Stream[a + p]
    BY <1>1, PartOfStream
  <2> HIDE DEF y
  <2> QED  BY <2>1, <2>2
<1> DEFINE g == a + n
<1>4. /\ z \in Seq(Byte) /\ Len(z) = a + n - s /\ \A p \in 1..(a + n - s) : z[p] = Stream[s + p]
  <2>1. g \in Nat /\ s <= g /\ g <= Len(Stream)
    BY <1>1
  <2> HIDE DEF g
  <2>2. LET v == SubSeq(Stream, s + 1, g)
        IN v \in Seq(Byte) /\ Len(v) = g - s /\ \A p \in 1..(g - s) : v[p] = Stream[s + p]
    BY <2>1, PartOfStream
  <2> QED  BY <2>2 DEF g, z
<1>5. t \in Nat /\ s <= t /\ t <= a + n /\ t = IF s < a + n - MaxLine THEN a + n - MaxLine ELSE s
  BY <1>1 DEF From
<1> HIDE DEF x, y, z, t
<1>6. x \o y = z
  <2>1. /\ x \o y \in Seq(Byte) /\ Len(x \o y) = Len(x) + Len(y)
        /\ \A p \in 1..(Len(x) + Len(y)) : (x \o y)[p] = IF p <= Len(x) THEN x[p] ELSE y[p - Len(x)]
    BY <1>2, <1>3, ConcatProperties
  <2>2. Len(x \o y) = Len(z)
    BY <1>2, <1>3, <1>4, <2>1
  <2>3. ASSUME NEW p \in 1..Len(z) PROVE (x \o y)[p] = z[p]
    <3>1. p \in 1..(Len(x) + Len(y)) /\ p \in 1..(a + n - s)
      BY <1>2, <1>3, <1>4
    <3>2. CASE p <= Len(x)
      <4>1. p \in 1..(a - s)
        BY <1>2, <3>1, <3>2
      <4> QED  BY <1>2, <1>4, <2>1, <3>1, <3>2, <4>1
    <3>3. CASE ~(p <= Len(x))
      <4>1. p - Len(x) \in 1..n /\ a + (p - Len(x)) = s + p
        BY <1>2, <3>1, <3>3, <1>3
      <4> QED  BY <1>3, <1>4, <2>1, <3>1, <3>3, <4>1
    <3> QED  BY <3>2, <3>3
  <2> QED  BY <1>4, <2>1, <2>2, <2>3, SeqEqual
<1>7. m = t - s + 1
  <2>1. Len(z) \in Nat /\ Len(z) - MaxLine + 1 = (a + n - MaxLine) - s + 1
    BY <1>1, <1>4
  <2>2. t - s + 1 \in {1, Len(z) - MaxLine + 1}
    BY <1>1, <1>5, <2>1
  <2>3. \A i \in {1, Len(z) - MaxLine + 1} : t - s + 1 >= i
    BY <1>1, <1>5, <2>1
  <2>4. m \in {1, Len(z) - MaxLine + 1} /\ \A i \in {1, Len(z) - MaxLine + 1} : m >= i
    BY <2>2, <2>3 DEF Max
  <2>5. m >= t - s + 1 /\ t - s + 1 >= m /\ m \in Int /\ t - s + 1 \in Int
    <3> HIDE DEF m
    <3> QED  BY <1>1, <1>5, <2>1, <2>2, <2>3, <2>4
  <2> HIDE DEF m
  <2> QED  BY <2>5
<1>8. Keep(z) = SubSeq(z, m, Len(z))
  BY DEF Keep
<1> HIDE DEF m
<1>9. /\ SubSeq(z, m, Len(z)) \in Seq(Byte) /\ Len(SubSeq(z, m, Len(z))) = a + n - t
      /\ \A p \in 1..(a + n - t) : SubSeq(z, m, Len(z))[p] = z[t - s + p]
  <2>1. m \in Nat \ {0} /\ Len(z) \in Nat /\ m <= Len(z) + 1 /\ Len(z) <= Len(z) /\ Len(z) + 1 - m = a + n - t
    BY <1>1, <1>4, <1>5, <1>7
  <2>2. /\ SubSeq(z, m, Len(z)) \in Seq(Byte) /\ Len(SubSeq(z, m, Len(z))) = Len(z) + 1 - m
        /\ \A p \in 1..(Len(z) + 1 - m) : SubSeq(z, m, Len(z))[p] = z[m - 1 + p]
    <3> DEFINE l == Len(z)
               w == SubSeq(z, m, l)
    <3>1. z \in Seq(Byte) /\ m \in Nat \ {0} /\ l \in Nat /\ m <= l + 1 /\ l <= Len(z)
      BY <1>4, <2>1
    <3> HIDE DEF l
    <3>2. w \in Seq(Byte) /\ Len(w) = l + 1 - m /\ \A p \in 1..(l + 1 - m) : w[p] = z[m - 1 + p]
      BY <3>1, PartOf
    <3> QED  BY <3>2 DEF l
  <2>3. \A p \in 1..(a + n - t) : p \in 1..(Len(z) + 1 - m) /\ m - 1 + p = t - s + p
    BY <1>5, <1>7, <2>1
  <2> QED  BY <2>1, <2>2, <2>3
<1>10. SubSeq(z, m, Len(z)) = SubSeq(Stream, t + 1, a + n)
  <2> DEFINE u == SubSeq(Stream, t + 1, a + n)
  <2>1. u \in Seq(Byte) /\ Len(u) = a + n - t /\ \A p \in 1..(a + n - t) : u[p] = Stream[t + p]
    <3>1. g \in Nat /\ t <= g /\ g <= Len(Stream) /\ t \in Nat
      BY <1>1, <1>5
    <3> HIDE DEF g
    <3>2. LET v == SubSeq(Stream, t + 1, g)
          IN v \in Seq(Byte) /\ Len(v) = g - t /\ \A p \in 1..(g - t) : v[p] = Stream[t + p]
      BY <3>1, PartOfStream
    <3>3. u = SubSeq(Stream, t + 1, g)
      BY DEF g
    <3> HIDE DEF u
    <3>4. u \in Seq(Byte) /\ Len(u) = g - t /\ \A p \in 1..(g - t) : u[p] = Stream[t + p]
      BY <3>2, <3>3
    <3>5. g - t = a + n - t
      BY <3>1 DEF g
    <3> QED  BY <3>4, <3>5
  <2> HIDE DEF u
  <2>2. ASSUME NEW p \in 1..(a + n - t) PROVE z[t - s + p] = Stream[t + p]
    <3>1. t - s + p \in 1..(a + n - s) /\ s + (t - s + p) = t + p
      BY <1>5
    <3> QED  BY <1>4, <3>1
  <2>3. SubSeq(z, m, Len(z)) = u
    BY <1>9, <2>1, <2>2, SeqEqual
  <2> QED  BY <2>3 DEF u
<1>11. Keep(x \o y) = SubSeq(Stream, t + 1, a + n)
  BY <1>6, <1>8, <1>10
<1> QED
  BY <1>5, <1>11 DEF x, y, t

(* d lines end up to s, and c up to a.                                     *)
Between(d, c, s, a) ==
  /\ s <= a /\ a <= Len(Stream)
  /\ EndOf(d) <= s /\ (d < Len(sent) => s < EndOf(d + 1))
  /\ EndOf(c) <= a /\ (c < Len(sent) => a < EndOf(c + 1))

(* Then the d are among the c.                                             *)
LEMMA FewerBefore ==
  ASSUME sent \in Seq(Form), NEW s \in Nat, NEW a \in Nat,
         NEW d \in 0..Len(sent), NEW c \in 0..Len(sent), Between(d, c, s, a)
  PROVE  d <= c /\ \A i \in 1..Len(sent) : (i > d => s < EndOf(i)) /\ (i <= c <=> EndOf(i) <= a)
<1>1. Len(sent) \in Nat /\ \A i \in 0..Len(sent) : EndOf(i) \in Nat
  BY Ends
<1>2. ASSUME NEW i \in 1..Len(sent), i > d PROVE s < EndOf(i)
  <2>1. d + 1 \in 0..Len(sent) /\ i \in 0..Len(sent) /\ d + 1 <= i /\ d < Len(sent)
    BY <1>1, <1>2
  <2>2. EndOf(d + 1) <= EndOf(i) /\ EndOf(d + 1) \in Nat /\ EndOf(i) \in Nat
    BY <1>1, <2>1, EndsRise
  <2> QED  BY <2>1, <2>2 DEF Between
<1>3. ASSUME NEW i \in 1..Len(sent) PROVE i <= c <=> EndOf(i) <= a
  <2>1. i \in 0..Len(sent) /\ EndOf(i) \in Nat /\ EndOf(c) \in Nat
    BY <1>1
  <2>2. CASE i <= c
    <3>1. EndOf(i) <= EndOf(c)
      BY <2>1, <2>2, EndsRise
    <3> QED  BY <2>1, <2>2, <3>1 DEF Between
  <2>3. CASE ~(i <= c)
    <3>1. c + 1 \in 0..Len(sent) /\ c + 1 <= i /\ c < Len(sent)
      BY <1>1, <2>3
    <3>2. EndOf(c + 1) <= EndOf(i) /\ EndOf(c + 1) \in Nat
      BY <1>1, <2>1, <3>1, EndsRise
    <3> QED  BY <2>1, <2>3, <3>1, <3>2 DEF Between
  <2> QED  BY <2>2, <2>3
<1>4. d <= c
  <2> SUFFICES ASSUME c < d PROVE FALSE
    OBVIOUS
  <2>1. d \in 1..Len(sent) /\ ~(d <= c) /\ EndOf(d) \in Nat
    BY <1>1
  <2>2. ~(EndOf(d) <= a)
    BY <1>3, <2>1
  <2> QED  BY <2>1, <2>2 DEF Between
<1> QED
  BY <1>2, <1>3, <1>4

(* Where in the k-th line of them the bytes begin, if they do at s.        *)
StartIn(k, d, s) == IF k = 1 THEN s - EndOf(d) + 1 ELSE 1

(* The bytes b, after s, are cut into m lines, those after d. *)
CutAfter(d, s, m, b) ==
  /\ DOMAIN CutLines(b) = 1..m
  /\ \A k \in 1..m :
       LET w == Wire(sent[d + k])
       IN /\ StartIn(k, d, s) \in 1..Len(w)
          /\ CutLines(b)[k] = SubSeq(w, StartIn(k, d, s), Len(w) - 1)

(* What is left in the buffer: the bytes from the end of the last of the m *)
(* lines, c, or from s.                                                    *)
Left(m, s, c, a, b) == Rest(b) = SubSeq(Stream, (IF m = 0 THEN s ELSE EndOf(c)) + 1, a)

(* The bytes after s are cut into the lines that end in them, the first    *)
(* from where the bytes begin (receiver.py:246-251).                       *)
LEMMA Pieces ==
  ASSUME sent \in Seq(Form), NEW s \in Nat, NEW a \in Nat,
         NEW d \in 0..Len(sent), NEW c \in 0..Len(sent), Between(d, c, s, a),
         NEW b, b = SubSeq(Stream, s + 1, a), NEW m \in Nat, d + m = c
  PROVE  /\ CutAfter(d, s, m, b)
         /\ Left(m, s, c, a, b)
<1> DEFINE N == Len(sent)
           e == [k \in 0..m |-> IF k = 0 THEN 0 ELSE EndOf(d + k) - s]
<1>1. N \in Nat /\ \A i \in 0..N : EndOf(i) \in Nat
  BY Ends
<1>2. s <= a /\ a <= Len(Stream) /\ Len(Stream) \in Nat /\ EndOf(d) <= s /\ EndOf(c) <= a /\ EndOf(d) \in Nat
  BY <1>1, StreamIsBytes DEF Between
<1>3. /\ b \in Seq(Byte) /\ Len(b) = a - s /\ \A p \in 1..(a - s) : b[p] = Stream[s + p]
  BY <1>2, PartOfStream
<1>4. ASSUME NEW k \in 1..m PROVE d + k \in 1..N /\ s < EndOf(d + k) /\ EndOf(d + k) <= a /\ EndOf(d + k) \in Nat
  <2>1. d + k \in 1..N /\ d + k > d /\ d + k <= c /\ d + k \in 0..N
    BY <1>1
  <2> QED  BY <1>1, <2>1, FewerBefore
<1>5. e[0] = 0 /\ \A k \in 1..m : k \in 0..m /\ k # 0 /\ e[k] = EndOf(d + k) - s
  OBVIOUS
<1>6. e \in [0..m -> 0..Len(b)]
  <2>1. ASSUME NEW k \in 0..m PROVE (IF k = 0 THEN 0 ELSE EndOf(d + k) - s) \in 0..Len(b)
    <3>1. CASE k = 0
      BY <1>2, <1>3, <3>1
    <3>2. CASE k # 0
      <4>1. k \in 1..m
        BY <3>2
      <4>2. s < EndOf(d + k) /\ EndOf(d + k) <= a /\ EndOf(d + k) \in Nat /\ Len(b) = a - s
        BY <1>3, <1>4, <4>1
      <4>3. EndOf(d + k) - s \in 0..Len(b)
        BY <4>2
      <4> QED  BY <3>2, <4>3
    <3> QED  BY <3>1, <3>2
  <2> QED  BY <2>1
<1> HIDE DEF e
<1>7. ASSUME NEW k \in 0..m, NEW l \in 0..m, k < l PROVE e[k] < e[l]
  <2>1. l \in 1..m /\ e[l] = EndOf(d + l) - s /\ s < EndOf(d + l) /\ EndOf(d + l) \in Nat
    BY <1>4, <1>5, <1>7
  <2>2. CASE k = 0
    BY <1>5, <2>1, <2>2
  <2>3. CASE k # 0
    <3>1. k \in 1..m /\ e[k] = EndOf(d + k) - s /\ EndOf(d + k) \in Nat
      BY <1>4, <1>5, <2>3
    <3>2. d + k \in 0..N /\ d + l \in 0..N /\ d + k < d + l
      BY <1>4, <1>7, <2>1, <3>1
    <3>3. EndOf(d + k) + 1 < EndOf(d + l)
      <4> DEFINE i == d + k
                 j == d + l
      <4>1. i \in 0..N /\ j \in 0..N /\ i < j
        BY <3>2
      <4> HIDE DEF i, j
      <4>2. EndOf(i) + 1 < EndOf(j)
        BY <4>1, EndsRise
      <4> QED  BY <4>2 DEF i, j
    <3> QED  BY <2>1, <3>1, <3>3
  <2> QED  BY <2>2, <2>3
<1>8. ASSUME NEW p \in 1..Len(b) PROVE b[p] = "LF" <=> \E k \in 1..m : p = e[k]
  <2>1. p \in 1..(a - s) /\ s + p \in 1..Len(Stream) /\ b[p] = Stream[s + p]
    BY <1>2, <1>3
  <2>2. Stream[s + p] = "LF" <=> \E i \in 1..N : s + p = EndOf(i)
    <3> DEFINE q == s + p
    <3>1. q \in 1..Len(Stream)
      BY <2>1
    <3> HIDE DEF q
    <3>2. Stream[q] = "LF" <=> \E i \in 1..N : q = EndOf(i)
      BY <3>1, FeedsAreEnds
    <3> QED  BY <3>2 DEF q
  <2>3. ASSUME NEW i \in 1..N, s + p = EndOf(i) PROVE \E k \in 1..m : p = e[k]
    <3>1. i \in 0..N /\ EndOf(i) \in Nat /\ EndOf(i) <= a /\ ~(EndOf(i) <= s)
      BY <1>1, <1>2, <2>1, <2>3
    <3>2. i <= c
      BY <3>1, FewerBefore
    <3>3. ~(i <= d)
      <4> SUFFICES ASSUME i <= d PROVE FALSE
        OBVIOUS
      <4>1. EndOf(i) <= EndOf(d)
        BY <3>1, EndsRise
      <4> QED  BY <1>2, <3>1, <4>1
    <3> DEFINE k == i - d
    <3>4. k \in 1..m /\ d + k = i
      BY <1>1, <3>2, <3>3
    <3> HIDE DEF k
    <3>5. e[k] = EndOf(i) - s
      BY <1>5, <3>4
    <3>6. p = e[k]
      BY <2>1, <2>3, <3>1, <3>5
    <3> QED  BY <3>4, <3>6
  <2>4. ASSUME NEW k \in 1..m, p = e[k] PROVE \E i \in 1..N : s + p = EndOf(i)
    <3>1. d + k \in 1..N /\ EndOf(d + k) \in Nat /\ e[k] = EndOf(d + k) - s
      BY <1>4, <1>5
    <3>2. s + p = EndOf(d + k)
      BY <2>4, <3>1
    <3> QED  BY <3>1, <3>2
  <2> QED  BY <2>1, <2>2, <2>3, <2>4
<1>9. /\ CutLines(b) = [k \in 1..m |-> SubSeq(b, e[k - 1] + 1, e[k] - 1)]
      /\ Rest(b) = SubSeq(b, e[m] + 1, Len(b))
  BY <1>3, <1>5, <1>6, <1>7, <1>8, LinesOf
<1>10. ASSUME NEW k \in 1..m
       PROVE  LET w == Wire(sent[d + k])
              IN /\ StartIn(k, d, s) \in 1..Len(w)
                 /\ SubSeq(b, e[k - 1] + 1, e[k] - 1) = SubSeq(w, StartIn(k, d, s), Len(w) - 1)
  <2> DEFINE i == d + k
             w == Wire(sent[d + k])
             n == StartIn(k, d, s)
             from == e[k - 1]
             to == e[k]
  <2>1. i \in 1..N /\ i - 1 \in 0..N /\ i - 1 = d + (k - 1) /\ k - 1 \in 0..m
    BY <1>1, <1>4
  <2>2. w \in Seq(Byte) /\ Len(w) \in Nat /\ Len(w) >= 1
    <3>1. sent[i] \in Form
      <4> HIDE DEF i
      <4> QED  BY <2>1
    <3>2. w \in Seq(Byte) /\ Len(w) \in Nat \ {0, 1}
      <4> HIDE DEF w
      <4> QED  BY <3>1, WireOfForm DEF w
    <3> HIDE DEF w
    <3> QED  BY <3>2
  <2>3. /\ EndOf(i) = EndOf(i - 1) + Len(w) /\ EndOf(i) \in Nat /\ EndOf(i - 1) \in Nat
        /\ \A p \in 1..Len(w) : Stream[EndOf(i - 1) + p] = w[p]
    <3>1. w = Wire(sent[i])
      OBVIOUS
    <3> HIDE DEF i, w
    <3> QED  BY <1>1, <2>1, <3>1, Ends
  <2>4. to = EndOf(i) - s /\ s < EndOf(i) /\ EndOf(i) <= a
    BY <1>4, <1>5
  <2> DEFINE D == EndOf(i - 1)
             E == EndOf(i)
             L == Len(w)
  <2>14. /\ D \in Nat /\ E \in Nat /\ L \in Nat /\ L >= 1 /\ E = D + L
         /\ to = E - s /\ s < E /\ E <= a
         /\ a \in Nat /\ s \in Nat /\ Len(b) = a - s
    BY <1>3, <2>2, <2>3, <2>4
  <2>15. k = 1 => D <= s /\ from = 0 /\ n = s - D + 1
    <3>1. k = 1 => D = EndOf(d) /\ EndOf(d) <= s
      <4>1. k = 1 => i - 1 = d
        OBVIOUS
      <4>2. k = 1 => D = EndOf(d)
        <5> HIDE DEF i
        <5> QED  BY <4>1
      <4> HIDE DEF D
      <4> QED  BY <1>2, <4>2
    <3>2. k = 1 => from = 0
      BY <1>5
    <3>3. k = 1 => n = s - EndOf(d) + 1
      BY DEF StartIn
    <3> HIDE DEF from, n, D
    <3> QED  BY <3>1, <3>2, <3>3
  <2>16. k # 1 => s < D /\ from = D - s /\ n = 1
    <3> SUFFICES ASSUME k # 1 PROVE s < D /\ from = D - s /\ n = 1
      OBVIOUS
    <3> DEFINE j == k - 1
    <3>1. j \in 1..m /\ d + j = i - 1
      OBVIOUS
    <3>2. n = 1
      BY DEF StartIn
    <3>3. from = e[j]
      OBVIOUS
    <3> HIDE DEF j, i, from, n
    <3>4. e[j] = EndOf(d + j) - s /\ s < EndOf(d + j)
      BY <1>4, <1>5, <3>1
    <3>5. EndOf(d + j) = D
      BY <3>1
    <3> HIDE DEF D
    <3> QED  BY <3>2, <3>3, <3>4, <3>5
  <2> HIDE DEF i, w, n, from, to, D, E, L
  <2>5. from \in Nat /\ s + from = D + (n - 1) /\ n \in Nat /\ n >= 1 /\ n <= L
    <3>1. CASE k = 1
      <4>1. D <= s /\ from = 0 /\ n = s - D + 1
        BY <2>15, <3>1
      <4>2. from \in Nat /\ n \in Nat /\ n >= 1
        BY <2>14, <4>1
      <4>3. n <= L
        BY <2>14, <4>1
      <4> QED  BY <2>14, <4>1, <4>2, <4>3
    <3>2. CASE k # 1
      <4>1. s < D /\ from = D - s /\ n = 1
        BY <2>16, <3>2
      <4> QED  BY <2>14, <4>1
    <3> QED  BY <3>1, <3>2
  <2> DEFINE l == L - n
             z == L - 1
             u == to - 1
             v == from + 1
  <2>6. to - from = L - n + 1 /\ to \in Nat /\ to <= a - s
    BY <2>5, <2>14
  <2>7. /\ v \in Nat \ {0} /\ u \in Nat /\ v <= u + 1 /\ u <= Len(b) /\ u + 1 - v = l
        /\ n \in Nat \ {0} /\ z \in Nat /\ n <= z + 1 /\ z <= L /\ z + 1 - n = l /\ l \in Nat
    BY <2>5, <2>6, <2>14
  <2>8. ASSUME NEW p \in 1..l PROVE b[v - 1 + p] = w[n - 1 + p]
    <3> DEFINE r == v - 1 + p
               q == n - 1 + p
    <3>1. r \in 1..(a - s) /\ q \in 1..L /\ s + r = D + q
      BY <2>5, <2>6, <2>14
    <3> HIDE DEF r, q, v, l
    <3>2. b[r] = Stream[s + r]
      BY <1>3, <3>1
    <3>3. Stream[D + q] = w[q]
      BY <2>3, <3>1 DEF D, L
    <3>4. b[r] = w[q]
      BY <3>1, <3>2, <3>3
    <3> QED  BY <3>4 DEF r, q
  <2> HIDE DEF l, z, u, v
  <2>9. /\ SubSeq(b, v, u) \in Seq(Byte) /\ Len(SubSeq(b, v, u)) = u + 1 - v
        /\ \A p \in 1..(u + 1 - v) : SubSeq(b, v, u)[p] = b[v - 1 + p]
    <3>1. b \in Seq(Byte)
      BY <1>3
    <3> QED  BY <2>7, <3>1, PartOf
  <2>10. /\ SubSeq(w, n, z) \in Seq(Byte) /\ Len(SubSeq(w, n, z)) = z + 1 - n
         /\ \A p \in 1..(z + 1 - n) : SubSeq(w, n, z)[p] = w[n - 1 + p]
    <3>1. w \in Seq(Byte) /\ L = Len(w)
      BY <2>2 DEF L
    <3> QED  BY <2>7, <3>1, PartOf
  <2>11. SubSeq(b, v, u) = SubSeq(w, n, z)
    <3>1. Len(SubSeq(b, v, u)) = l /\ Len(SubSeq(w, n, z)) = l
      BY <2>7, <2>9, <2>10
    <3>2. \A p \in 1..l : p \in 1..(u + 1 - v) /\ p \in 1..(z + 1 - n)
      BY <2>7
    <3>3. \A p \in 1..l : SubSeq(b, v, u)[p] = SubSeq(w, n, z)[p]
      BY <2>8, <2>9, <2>10, <3>2
    <3>4. SubSeq(b, v, u) \in Seq(Byte) /\ SubSeq(w, n, z) \in Seq(Byte)
      BY <2>9, <2>10
    <3> QED  BY <3>1, <3>3, <3>4, SeqEqual
  <2>12. n \in 1..L
    BY <2>5, <2>14
  <2> QED  BY <2>11, <2>12 DEF l, z, u, v, i, w, n, from, to, L
<1>11. Rest(b) = SubSeq(Stream, (IF m = 0 THEN s ELSE EndOf(c)) + 1, a)
  <2> DEFINE t == IF m = 0 THEN s ELSE EndOf(c)
             g == e[m]
             L == Len(b)
             v == g + 1
             x == SubSeq(b, v, Len(b))
             y == SubSeq(Stream, t + 1, a)
  <2>1. t \in Nat /\ t <= a /\ s <= t /\ g = t - s /\ L = a - s /\ s \in Nat /\ a \in Nat
    <3>1. CASE m = 0
      BY <1>2, <1>3, <1>5, <3>1
    <3>2. CASE m # 0
      <4>1. m \in 1..m /\ t = EndOf(c)
        BY <3>2
      <4>2. e[m] = EndOf(c) - s /\ s < EndOf(c) /\ EndOf(c) \in Nat
        BY <1>4, <1>5, <4>1
      <4>3. L = a - s
        BY <1>3
      <4> HIDE DEF t, L
      <4> QED  BY <1>2, <4>1, <4>2, <4>3
    <3> QED  BY <3>1, <3>2
  <2> HIDE DEF t
  <2>2. y \in Seq(Byte) /\ Len(y) = a - t /\ \A p \in 1..(a - t) : y[p] = Stream[t + p]
    BY <1>2, <2>1, PartOfStream
  <2> HIDE DEF g, L
  <2>3. v \in Nat \ {0} /\ L \in Nat /\ v <= L + 1 /\ L <= L /\ L + 1 - v = a - t
    BY <2>1
  <2>4. ASSUME NEW p \in 1..(a - t) PROVE b[v - 1 + p] = Stream[t + p]
    <3> DEFINE r == v - 1 + p
    <3>1. r \in 1..(a - s) /\ s + r = t + p
      BY <2>1
    <3> HIDE DEF r
    <3>2. b[r] = Stream[t + p]
      BY <1>3, <3>1
    <3> QED  BY <3>2 DEF r
  <2> HIDE DEF v, y
  <2>5. x \in Seq(Byte) /\ Len(x) = L + 1 - v
        /\ \A p \in 1..(L + 1 - v) : x[p] = b[v - 1 + p]
    <3>1. b \in Seq(Byte) /\ L = Len(b)
      BY <1>3 DEF L
    <3> QED  BY <2>3, <3>1, PartOf
  <2> HIDE DEF x
  <2>6. x = y
    <3>1. Len(x) = Len(y) /\ \A p \in 1..Len(x) : x[p] = y[p]
      BY <2>2, <2>3, <2>4, <2>5
    <3> QED  BY <2>2, <2>5, <3>1, SeqEqual
  <2> QED  BY <1>9, <2>6 DEF x, y, t, v, g
<1>12. DOMAIN CutLines(b) = 1..m
  BY <1>9
<1>13. ASSUME NEW k \in 1..m
       PROVE  LET w == Wire(sent[d + k])
              IN /\ StartIn(k, d, s) \in 1..Len(w)
                 /\ CutLines(b)[k] = SubSeq(w, StartIn(k, d, s), Len(w) - 1)
  <2>1. CutLines(b)[k] = SubSeq(b, e[k - 1] + 1, e[k] - 1)
    BY <1>9
  <2> QED  BY <1>10, <2>1
<1> QED
  BY <1>11, <1>12, <1>13 DEF CutAfter, Left

(* The end of a line's text, from one of its bytes on. *)
EndOfText(payload, f) == \E n \in 1..Len(Body(f)) : payload = SubSeq(Body(f), n, Len(Body(f)))

(* What is handed on of the bytes b after s: of each of the m lines after  *)
(* d its record, but for the first, of which there may be an end or        *)
(* nothing if s lies within it.                                            *)
HandedOn(d, s, m, b) ==
  \E o \in {0, 1} :
    /\ o <= m /\ (o = 1 => EndOf(d) < s)
    /\ DOMAIN Payloads(b) = 1..(m - o)
    /\ \A k \in 1..(m - o) :
         /\ EndOfText(Payloads(b)[k], sent[d + (k + o)])
         /\ (k + o = 1 /\ EndOf(d) < s) \/ Payloads(b)[k] = Content(sent[d + (k + o)])

(* The lines that end in the bytes are handed on (receiver.py:246-253).    *)
LEMMA Handed ==
  ASSUME sent \in Seq(Form), NEW s \in Nat, NEW a \in Nat,
         NEW d \in 0..Len(sent), NEW c \in 0..Len(sent), Between(d, c, s, a),
         NEW b, b = SubSeq(Stream, s + 1, a), NEW m \in Nat, d + m = c
  PROVE  HandedOn(d, s, m, b)
<1> DEFINE N == Len(sent)
           ls == CutLines(b)
           o == Skipped(b)
           bytes(k) == Len(Body(sent[d + k]))
           text(k) == SubSeq(Body(sent[d + k]), StartIn(k, d, s), bytes(k))
<1>1. N \in Nat /\ EndOf(d) \in Nat /\ EndOf(d) <= s
  <2>1. Len(sent) \in Nat /\ \A i \in 0..Len(sent) : EndOf(i) \in 0..Len(Stream)
    BY Ends
  <2>2. EndOf(d) \in 0..Len(Stream)
    BY <2>1
  <2>3. EndOf(d) \in Nat
    BY <2>2
  <2>4. EndOf(d) <= s
    BY DEF Between
  <2> QED  BY <2>1, <2>3, <2>4
<1>2. /\ DOMAIN ls = 1..m
      /\ \A k \in 1..m :
           LET w == Wire(sent[d + k])
           IN /\ StartIn(k, d, s) \in 1..Len(w)
              /\ ls[k] = SubSeq(w, StartIn(k, d, s), Len(w) - 1)
  <2>1. CutAfter(d, s, m, b)
    BY Pieces
  <2> QED  BY <2>1 DEF CutAfter
<1> HIDE DEF ls
<1>3. ASSUME NEW k \in 1..m
      PROVE  /\ sent[d + k] \in Form
             /\ bytes(k) \in Nat \ {0}
             /\ StripReturns(ls[k]) = text(k)
             /\ text(k) # <<>> <=> StartIn(k, d, s) <= bytes(k)
             /\ StartIn(k, d, s) \in Nat \ {0}
             /\ StartIn(k, d, s) = 1 \/ (k = 1 /\ EndOf(d) < s)
  <2> DEFINE f == sent[d + k]
             n == StartIn(k, d, s)
  <2>1. f \in Form
    <3>1. d + k \in 1..N
      BY <1>1
    <3> QED  BY <3>1
  <2>2. n \in 1..Len(Wire(f)) /\ ls[k] = SubSeq(Wire(f), n, Len(Wire(f)) - 1)
    BY <1>2
  <2>3. n = 1 \/ (k = 1 /\ EndOf(d) < s)
    <3>1. k = 1 => n = s - EndOf(d) + 1
      BY DEF StartIn
    <3>2. k # 1 => n = 1
      BY DEF StartIn
    <3> HIDE DEF n
    <3> QED  BY <1>1, <3>1, <3>2
  <2> HIDE DEF f, n
  <2>4. Len(Wire(f)) \in Nat /\ Len(Body(f)) \in Nat \ {0}
    BY <2>1, WireOfForm
  <2>5. /\ StripReturns(ls[k]) = SubSeq(Body(f), n, Len(Body(f)))
        /\ SubSeq(Body(f), n, Len(Body(f))) # <<>> <=> n <= Len(Body(f))
    BY <2>1, <2>2, ReturnStripped
  <2>6. n \in Nat \ {0}
    BY <2>2, <2>4
  <2> QED  BY <2>1, <2>3, <2>4, <2>5, <2>6 DEF f, n
<1>4. ASSUME NEW k \in 2..m PROVE StripReturns(ls[k]) # <<>>
  <2>1. k \in 1..m /\ k # 1
    OBVIOUS
  <2>2. StartIn(k, d, s) = 1 /\ bytes(k) \in Nat \ {0}
    <3> HIDE DEF bytes
    <3> QED  BY <1>3, <2>1
  <2>3. StartIn(k, d, s) <= bytes(k)
    <3> HIDE DEF bytes
    <3> QED  BY <2>2
  <2> HIDE DEF bytes, text
  <2> QED  BY <1>3, <2>1, <2>3
<1>5. /\ DOMAIN Payloads(b) = 1..(m - o)
      /\ \A k \in 1..(m - o) : Payloads(b)[k] = StripOctetCount(StripReturns(ls[k + o]))
  <2>1. DOMAIN CutLines(b) = 1..m /\ \A k \in 2..m : StripReturns(CutLines(b)[k]) # <<>>
    BY <1>2, <1>4 DEF ls
  <2> QED  BY <2>1, PayloadsOf DEF ls
<1>6. /\ o \in {0, 1} /\ o <= m /\ (o = 1 => StripReturns(ls[1]) = <<>> /\ 1 \in 1..m)
      /\ o = 0 /\ m > 0 => StripReturns(ls[1]) # <<>>
  <2>1. 1 \in DOMAIN ls <=> m > 0 /\ 1 \in 1..m
    BY <1>2
  <2>2. o = IF 1 \in DOMAIN ls /\ StripReturns(ls[1]) = <<>> THEN 1 ELSE 0
    BY DEF Skipped, ls
  <2> HIDE DEF o
  <2> QED  BY <2>1, <2>2
<1> HIDE DEF o
<1>7. ASSUME o = 1 PROVE EndOf(d) < s
  <2>1. text(1) = <<>> /\ 1 \in 1..m
    <3> HIDE DEF text
    <3> QED  BY <1>3, <1>6, <1>7
  <2>2. ~(StartIn(1, d, s) <= bytes(1)) /\ bytes(1) \in Nat \ {0}
    <3> HIDE DEF text, bytes
    <3> QED  BY <1>3, <2>1
  <2>3. StartIn(1, d, s) # 1
    <3> HIDE DEF bytes
    <3> QED  BY <2>2
  <2> QED  BY <1>3, <2>1, <2>3
<1>8. ASSUME NEW k \in 1..(m - o)
      PROVE  /\ EndOfText(Payloads(b)[k], sent[d + (k + o)])
             /\ (k + o = 1 /\ EndOf(d) < s) \/ Payloads(b)[k] = Content(sent[d + (k + o)])
  <2> DEFINE j == k + o
             f == sent[d + j]
             n == StartIn(j, d, s)
  <2>1. j \in 1..m
    BY <1>6
  <2>2. Payloads(b)[k] = StripOctetCount(StripReturns(ls[j]))
    BY <1>5
  <2> HIDE DEF j
  <2>3. StripReturns(ls[j]) # <<>>
    <3>1. CASE j = 1
      <4>1. o = 0 /\ m > 0
        BY <1>6, <3>1 DEF j
      <4> QED  BY <1>6, <3>1, <4>1
    <3>2. CASE j # 1
      <4>1. j \in 2..m
        BY <2>1, <3>2
      <4> QED  BY <1>4, <4>1
    <3> QED  BY <3>1, <3>2
  <2>4. /\ f \in Form /\ n \in Nat \ {0} /\ n <= Len(Body(f)) /\ Len(Body(f)) \in Nat
        /\ StripReturns(ls[j]) = SubSeq(Body(f), n, Len(Body(f)))
        /\ n = 1 \/ (j = 1 /\ EndOf(d) < s)
    BY <1>3, <2>1, <2>3
  <2> HIDE DEF f, n
  <2>5. n \in 1..Len(Body(f))
    BY <2>4
  <2>6. /\ EndOfText(Payloads(b)[k], f)
        /\ n = 1 => Payloads(b)[k] = Content(f)
    <3>1. f \in Form
      BY <2>4
    <3>2. Payloads(b)[k] = StripOctetCount(SubSeq(Body(f), n, Len(Body(f))))
      BY <2>2, <2>4
    <3> QED  BY <2>5, <3>1, <3>2, CountStripped DEF EndOfText
  <2> QED  BY <2>4, <2>6 DEF f, j
<1>9. DOMAIN Payloads(b) = 1..(m - o)
  BY <1>5
<1> QED
  BY <1>6, <1>7, <1>8, <1>9 DEF HandedOn

-----------------------------------------------------------------------------
(* FramedAsSent, for the payloads ps, the complete lines and the cut ones.  *)
FramedBy(ps, complete, cs) ==
  \E line \in [DOMAIN ps -> complete] :
    /\ \A j, k \in DOMAIN ps : j < k => line[j] < line[k]
    /\ complete \ cs \subseteq {line[k] : k \in DOMAIN ps}
    /\ \A k \in DOMAIN ps : IF line[k] \in cs THEN EndOfText(ps[k], sent[line[k]])
                            ELSE ps[k] = Content(sent[line[k]])

(* The payloads of further lines are added: of the lines up to d nothing   *)
(* is, as they have lost bytes.                                            *)
LEMMA MoreFramed ==
  ASSUME NEW S, NEW h \in Seq(S), NEW ps \in Seq(S), NEW c \in Nat, NEW d \in Nat, c <= d,
         NEW m \in Nat, NEW o \in {0, 1}, o <= m, Len(ps) = m - o,
         NEW cs, NEW ds, FramedBy(h, 1..c, cs),
         cs \subseteq ds, \A i \in 1..c : i \in ds => i \in cs,
         \A i \in (c + 1)..d : i \in ds, o = 1 => d + 1 \in ds,
         \A k \in 1..(m - o) :
           /\ EndOfText(ps[k], sent[d + (k + o)])
           /\ d + (k + o) \in ds \/ ps[k] = Content(sent[d + (k + o)])
  PROVE  FramedBy(h \o ps, 1..(d + m), ds)
<1> DEFINE n == Len(h)
           hs == h \o ps
           e == d + m
<1>1. n \in Nat /\ DOMAIN h = 1..n /\ e \in Nat /\ c <= e /\ m - o \in Nat
  OBVIOUS
<1>2. PICK line \in [1..n -> 1..c] :
        /\ \A j, k \in 1..n : j < k => line[j] < line[k]
        /\ (1..c) \ cs \subseteq {line[k] : k \in 1..n}
        /\ \A k \in 1..n : IF line[k] \in cs THEN EndOfText(h[k], sent[line[k]])
                           ELSE h[k] = Content(sent[line[k]])
  BY <1>1 DEF FramedBy
<1>3. /\ hs \in Seq(S) /\ DOMAIN hs = 1..(n + (m - o))
      /\ \A k \in 1..(n + (m - o)) : hs[k] = IF k <= n THEN h[k] ELSE ps[k - n]
  <2>1. /\ hs \in Seq(S) /\ Len(hs) = Len(h) + Len(ps)
        /\ \A k \in 1..(Len(h) + Len(ps)) : hs[k] = IF k <= Len(h) THEN h[k] ELSE ps[k - Len(h)]
    BY ConcatProperties
  <2> HIDE DEF hs
  <2> QED  BY <2>1
<1> HIDE DEF hs, e, n
<1> DEFINE all == [k \in 1..(n + (m - o)) |-> IF k <= n THEN line[k] ELSE d + ((k - n) + o)]
<1>4. ASSUME NEW k \in 1..n PROVE /\ k \in 1..(n + (m - o)) /\ all[k] = line[k] /\ hs[k] = h[k]
                                  /\ line[k] \in 1..c
  BY <1>1, <1>3
<1>5. ASSUME NEW k \in 1..(n + (m - o)), ~(k <= n)
      PROVE  /\ k - n \in 1..(m - o) /\ all[k] = d + ((k - n) + o) /\ hs[k] = ps[k - n]
             /\ all[k] \in 1..e /\ all[k] > d
  <2>1. k - n \in 1..(m - o) /\ all[k] = d + ((k - n) + o)
    BY <1>1, <1>5
  <2> HIDE DEF all
  <2>2. hs[k] = ps[k - n]
    BY <1>3, <1>5
  <2> DEFINE r == k - n
  <2>3. r \in 1..(m - o) /\ all[k] = d + (r + o)
    BY <2>1
  <2> HIDE DEF r
  <2>4. all[k] \in 1..e /\ all[k] > d
    BY <2>3 DEF e
  <2> QED  BY <2>1, <2>2, <2>4
<1>6. all \in [1..(n + (m - o)) -> 1..e]
  <2>1. ASSUME NEW k \in 1..(n + (m - o)) PROVE all[k] \in 1..e
    <3>1. CASE k <= n
      <4>1. k \in 1..n
        BY <1>1, <3>1
      <4>2. all[k] \in 1..c
        BY <1>4, <4>1
      <4> HIDE DEF all
      <4> QED  BY <1>1, <4>2
    <3>2. CASE ~(k <= n)
      BY <1>5, <3>2
    <3> QED  BY <3>1, <3>2
  <2>2. all = [k \in 1..(n + (m - o)) |-> all[k]]
    OBVIOUS
  <2> HIDE DEF all
  <2> QED  BY <2>1, <2>2
<1> HIDE DEF all
<1>7. ASSUME NEW j \in 1..(n + (m - o)), NEW k \in 1..(n + (m - o)), j < k PROVE all[j] < all[k]
  <2>1. CASE k <= n
    <3>1. j \in 1..n /\ k \in 1..n
      BY <1>1, <1>7, <2>1
    <3> QED  BY <1>2, <1>4, <1>7, <3>1
  <2>2. CASE ~(k <= n) /\ j <= n
    <3>1. j \in 1..n
      BY <1>1, <2>2
    <3>2. all[j] \in 1..c /\ all[k] > d /\ all[k] \in 1..e
      BY <1>4, <1>5, <2>2, <3>1
    <3> QED  BY <1>1, <3>2
  <2>3. CASE ~(k <= n) /\ ~(j <= n)
    <3>1. all[j] = d + ((j - n) + o) /\ all[k] = d + ((k - n) + o)
      BY <1>5, <2>3
    <3> QED  BY <1>1, <1>7, <3>1
  <2> QED  BY <2>1, <2>2, <2>3
<1>8. ASSUME NEW i \in 1..e, i \notin ds PROVE \E k \in 1..(n + (m - o)) : all[k] = i
  <2>1. CASE i <= c
    <3>1. i \in 1..c /\ i \notin cs
      BY <1>8, <2>1
    <3>2. PICK k \in 1..n : line[k] = i
      <4>1. i \in (1..c) \ cs
        BY <3>1
      <4>2. i \in {line[k] : k \in 1..n}
        BY <1>2, <4>1
      <4> QED  BY <4>2
    <3> QED  BY <1>4, <3>2
  <2>2. CASE ~(i <= c) /\ i <= d
    <3>1. i \in (c + 1)..d
      BY <1>1, <2>2
    <3> QED  BY <1>8, <3>1
  <2>3. CASE ~(i <= d)
    <3> DEFINE k == n + (i - d - o)
    <3>1. o = 0 \/ i # d + 1
      BY <1>8
    <3>2. i - d - o \in 1..(m - o) /\ d + ((i - d - o) + o) = i
      BY <1>1, <2>3, <3>1 DEF e
    <3>3. k \in 1..(n + (m - o)) /\ ~(k <= n) /\ k - n = i - d - o
      BY <1>1, <3>2
    <3> HIDE DEF k
    <3>4. all[k] = i
      BY <1>5, <3>2, <3>3
    <3> QED  BY <3>3, <3>4
  <2> QED  BY <2>1, <2>2, <2>3
<1>9. ASSUME NEW k \in 1..(n + (m - o))
      PROVE  IF all[k] \in ds THEN EndOfText(hs[k], sent[all[k]]) ELSE hs[k] = Content(sent[all[k]])
  <2>1. CASE k <= n
    <3>1. k \in 1..n
      BY <1>1, <2>1
    <3>2. all[k] = line[k] /\ hs[k] = h[k] /\ (line[k] \in ds <=> line[k] \in cs)
      BY <1>4, <3>1
    <3> QED  BY <1>2, <3>1, <3>2
  <2>2. CASE ~(k <= n)
    <3>1. k - n \in 1..(m - o) /\ all[k] = d + ((k - n) + o) /\ hs[k] = ps[k - n]
      BY <1>5, <2>2
    <3>2. /\ EndOfText(ps[k - n], sent[d + ((k - n) + o)])
          /\ d + ((k - n) + o) \in ds \/ ps[k - n] = Content(sent[d + ((k - n) + o)])
      BY <3>1
    <3> QED  BY <3>1, <3>2
  <2> QED  BY <2>1, <2>2
<1>10. (1..e) \ ds \subseteq {all[k] : k \in 1..(n + (m - o))}
  BY <1>8
<1>11. FramedBy(hs, 1..e, ds)
  BY <1>3, <1>6, <1>7, <1>9, <1>10 DEF FramedBy
<1> QED
  BY <1>11 DEF hs, e

(* The buffer is the end of what has arrived, from byte s on: c lines have *)
(* ended before, none since, and one of which it holds only the end has    *)
(* been cut.                                                               *)
Buffered(s, c) ==
  /\ buf = SubSeq(Stream, s + 1, arrived) /\ s = arrived - Len(buf)
  /\ Between(c, c, s, arrived)
  /\ EndOf(c) < s => c + 1 \in cut

(* The framing, with what has become of the lines before. *)
Framed ==
  /\ \E s \in Nat : \E c \in 0..Len(sent) : Buffered(s, c)
  /\ FramedAsSent

(* FramedAsSent in these terms. *)
LEMMA AsFramedBy ==
  FramedAsSent <=> FramedBy(handled, Complete, cut)
BY DEF FramedAsSent, FramedBy, EndOfText

(* The complete lines are the first ones. *)
LEMMA CompleteAre ==
  ASSUME sent \in Seq(Form), NEW c \in 0..Len(sent), NEW s \in Nat, arrived \in Nat,
         Between(c, c, s, arrived)
  PROVE  Complete = 1..c
<1>1. Len(sent) \in Nat /\ DOMAIN sent = 1..Len(sent)
  BY Ends
<1>2. s <= arrived /\ arrived <= Len(Stream) /\ \A i \in 1..Len(sent) : i <= c <=> EndOf(i) <= arrived
  <2>1. Between(c, c, arrived, arrived)
    BY DEF Between
  <2> QED  BY FewerBefore DEF Between
<1> QED
  BY <1>1, <1>2 DEF Complete

(* Nothing has arrived: no line is complete. *)
LEMMA FramedAtFirst == Init => Framed
<1> SUFFICES ASSUME Init PROVE Framed
  OBVIOUS
<1>1. sent \in Seq(Form) /\ arrived = 0 /\ buf = <<>> /\ handled = <<>> /\ cut = {}
  BY InitHolds DEF Init, Inv, Connected
<1>2. Len(sent) \in Nat /\ EndOf(0) = 0 /\ Len(Stream) \in Nat
  BY <1>1, Ends, StreamIsBytes
<1>3. Len(sent) > 0 => 0 < EndOf(1)
  <2>1. Len(sent) > 0 => 0 \in 0..Len(sent) /\ 1 \in 0..Len(sent) /\ EndOf(1) \in Nat
    BY <1>1, <1>2, Ends
  <2>2. Len(sent) > 0 => EndOf(0) + 1 < EndOf(1)
    BY <1>1, <2>1, EndsRise
  <2> QED  BY <1>2, <2>1, <2>2
<1>4. Between(0, 0, 0, 0)
  BY <1>2, <1>3 DEF Between
<1>5. Buffered(0, 0)
  <2>1. SubSeq(Stream, 0 + 1, 0) = <<>>
    BY SubSeqEmpty
  <2>2. buf = SubSeq(Stream, 0 + 1, arrived) /\ 0 = arrived - Len(buf)
    <3>1. Len(<<>>) = 0
      OBVIOUS
    <3>2. Len(buf) = 0
      BY <1>1, <3>1
    <3>3. SubSeq(Stream, 0 + 1, arrived) = SubSeq(Stream, 0 + 1, 0)
      BY <1>1
    <3>4. buf = SubSeq(Stream, 0 + 1, arrived)
      BY <1>1, <2>1, <3>3
    <3>5. arrived = 0
      BY <1>1
    <3>6. 0 = arrived - Len(buf)
      BY <3>2, <3>5
    <3> QED  BY <3>4, <3>6
  <2>3. Between(0, 0, 0, arrived) /\ ~(EndOf(0) < 0)
    BY <1>1, <1>2, <1>4
  <2> QED  BY <2>2, <2>3 DEF Buffered
<1>6. Complete = {}
  <2>1. 0 \in 0..Len(sent) /\ 1..0 = {}
    BY <1>2
  <2> QED  BY <1>1, <1>4, <2>1, CompleteAre
<1>7. FramedBy(<<>>, {}, {})
  <2>1. <<>> \in [{} -> {}] /\ DOMAIN <<>> = {}
    OBVIOUS
  <2> QED  BY <2>1 DEF FramedBy
<1>8. FramedAsSent
  BY <1>1, <1>6, <1>7, AsFramedBy
<1> QED
  BY <1>2, <1>5, <1>8 DEF Framed

(* Which lines a chunk cuts (receiver.py:243-245): none that was handled,  *)
(* all that were to end in the bytes deleted, and the one they end in.     *)
LEMMA CutByChunk ==
  ASSUME sent \in Seq(Form), arrived \in Nat, NEW n \in Nat, NEW s \in Nat,
         NEW c \in 0..Len(sent), Buffered(s, c),
         NEW t, t = From(s, arrived + n), NEW d \in 0..Len(sent),
         t \in Nat, s <= t, t <= Len(Stream), EndOf(d) <= t, d < Len(sent) => t < EndOf(d + 1)
  PROVE  /\ c <= d
         /\ \A i \in 1..c : i \notin Overrun(n)
         /\ \A i \in (c + 1)..d : i \in Overrun(n)
         /\ EndOf(d) < t => d + 1 \in cut \cup Overrun(n)
<1> DEFINE N == Len(sent)
           to == arrived + n - MaxLine
<1>1. N \in Nat /\ DOMAIN sent = 1..N /\ (\A i \in 0..N : EndOf(i) \in Nat) /\ EndOf(N) = Len(Stream)
  BY Ends
<1>2. /\ s = arrived - Len(buf) /\ s <= arrived /\ EndOf(c) <= s
      /\ c < N => arrived < EndOf(c + 1)
      /\ EndOf(c) < s => c + 1 \in cut
  BY DEF Buffered, Between
<1>3. to \in Int /\ t = IF s < to THEN to ELSE s
  BY FramingAssumption DEF From
<1>4. Overrun(n) = {i \in 1..N : s < to /\ EndOf(i - 1) < to /\ s < EndOf(i)}
  BY <1>1, <1>2 DEF Overrun
<1> HIDE DEF to
<1>5. c <= d
  <2> SUFFICES ASSUME d < c PROVE FALSE
    BY <1>1
  <2>1. d + 1 \in 0..N /\ d + 1 <= c /\ d < N
    BY <1>1
  <2>2. EndOf(d + 1) <= EndOf(c) /\ EndOf(d + 1) \in Nat /\ EndOf(c) \in Nat
    BY <1>1, <2>1, EndsRise
  <2>3. t < EndOf(d + 1)
    BY <2>1
  <2> QED  BY <1>2, <2>2, <2>3
<1>6. ASSUME NEW i \in 1..c PROVE i \notin Overrun(n)
  <2>1. i \in 0..N /\ i <= c
    BY <1>1
  <2>2. EndOf(i) <= EndOf(c) /\ EndOf(i) \in Nat /\ EndOf(c) \in Nat
    BY <1>1, <2>1, EndsRise
  <2>3. ~(s < EndOf(i))
    BY <1>2, <2>2
  <2> QED  BY <1>4, <2>3
<1>7. c < N => s < EndOf(c + 1)
  <2>1. c < N => EndOf(c + 1) \in Nat
    BY <1>1
  <2> QED  BY <1>2, <2>1
<1>8. CASE ~(s < to)
  <2>1. t = s
    BY <1>3, <1>8
  <2>2. d = c
    <3> SUFFICES ASSUME d # c PROVE FALSE
      OBVIOUS
    <3>1. c + 1 \in 0..N /\ c + 1 <= d /\ c < N
      BY <1>1, <1>5
    <3>2. EndOf(c + 1) <= EndOf(d) /\ EndOf(c + 1) \in Nat /\ EndOf(d) \in Nat
      BY <1>1, <3>1, EndsRise
    <3> QED  BY <1>7, <2>1, <3>1, <3>2
  <2> QED  BY <1>1, <1>2, <1>5, <1>6, <2>1, <2>2
<1>9. CASE s < to
  <2>1. t = to
    BY <1>3, <1>9
  <2>2. ASSUME NEW i \in 1..N, i > c PROVE s < EndOf(i)
    <3>1. c + 1 \in 0..N /\ i \in 0..N /\ c + 1 <= i /\ c < N
      BY <1>1, <2>2
    <3>2. EndOf(c + 1) <= EndOf(i) /\ EndOf(c + 1) \in Nat /\ EndOf(i) \in Nat
      BY <1>1, <3>1, EndsRise
    <3> QED  BY <1>7, <3>1, <3>2
  <2>3. ASSUME NEW i \in (c + 1)..d PROVE i \in Overrun(n)
    <3>1. i \in 1..N /\ i > c /\ i - 1 \in 0..N /\ i - 1 < d
      BY <1>1
    <3>2. EndOf(i - 1) < EndOf(d)
      <4> DEFINE j == i - 1
      <4>1. j \in 0..N /\ j < d
        BY <3>1
      <4> HIDE DEF j
      <4>2. EndOf(j) + 1 < EndOf(d) /\ EndOf(j) \in Nat /\ EndOf(d) \in Nat
        BY <1>1, <4>1, EndsRise
      <4>3. EndOf(j) < EndOf(d)
        BY <4>2
      <4> QED  BY <4>3 DEF j
    <3>3. EndOf(i - 1) < to /\ s < EndOf(i)
      <4>1. EndOf(i - 1) \in Nat /\ EndOf(d) \in Nat
        BY <1>1, <3>1
      <4> QED  BY <1>3, <2>1, <2>2, <3>1, <3>2, <4>1
    <3> QED  BY <1>4, <1>9, <3>1, <3>3
  <2>4. ASSUME EndOf(d) < t, d < N PROVE d + 1 \in Overrun(n)
    <3> DEFINE i == d + 1
    <3>1. i \in 1..N /\ i - 1 = d /\ i > c
      BY <1>1, <1>5, <2>4
    <3> HIDE DEF i
    <3>2. EndOf(i - 1) < to
      BY <2>1, <2>4, <3>1
    <3>3. i \in Overrun(n)
      BY <1>4, <1>9, <2>2, <3>1, <3>2
    <3> QED  BY <3>3 DEF i
  <2>5. d = N => t <= EndOf(d)
    BY <1>1
  <2>6. EndOf(d) < t => d + 1 \in cut \cup Overrun(n)
    <3> SUFFICES ASSUME EndOf(d) < t PROVE d + 1 \in Overrun(n)
      OBVIOUS
    <3>1. EndOf(d) \in Nat
      BY <1>1
    <3>2. d # N
      BY <2>5, <3>1
    <3>3. N \in Nat /\ d \in 0..N
      BY <1>1
    <3>4. d < N
      BY <3>2, <3>3
    <3> QED  BY <2>4, <3>4
  <2> QED  BY <1>5, <1>6, <2>3, <2>6
<1> QED
  BY <1>8, <1>9

(* A chunk: what it completes is handled, and what it overruns is cut.     *)
LEMMA DataReceivedFrames ==
  ASSUME Connected, Framed, DataReceived
  PROVE  Framed'
<1> DEFINE N == Len(sent)
<1>1. PICK n \in 1..MaxChunk :
        LET bytes == Keep(buf \o SubSeq(Stream, arrived + 1, arrived + n))
        IN /\ arrived + n <= Len(Stream)
           /\ arrived' = arrived + n
           /\ cut' = cut \cup Overrun(n)
           /\ buf' = Rest(bytes)
           /\ handled' = handled \o Payloads(bytes)
  BY DEF DataReceived
<1>2. sent' = sent
  BY DEF DataReceived
<1>3. sent \in Seq(Form) /\ arrived \in Nat /\ n \in Nat /\ cut \subseteq DOMAIN sent /\ Len(Stream) \in Nat
  BY StreamIsBytes, AccountingAssumption DEF Connected
<1>4. PICK s \in Nat : \E c \in 0..N : Buffered(s, c)
  BY DEF Framed
<1>5. PICK c \in 0..N : Buffered(s, c)
  BY <1>4
<1>6. N \in Nat /\ DOMAIN sent = 1..N /\ \A i \in 0..N : EndOf(i) \in Nat
  BY <1>3, Ends
<1>7. /\ buf = SubSeq(Stream, s + 1, arrived) /\ s <= arrived
      /\ Between(c, c, s, arrived) /\ arrived + n <= Len(Stream)
  BY <1>1, <1>5 DEF Buffered, Between
<1>a. PICK a : a = arrived + n
  OBVIOUS
<1>t. PICK t : t = From(s, a)
  OBVIOUS
<1>b. PICK b : b = SubSeq(Stream, t + 1, a)
  OBVIOUS
<1>8. /\ Keep(buf \o SubSeq(Stream, arrived + 1, a)) = b
      /\ t \in Nat /\ s <= t /\ t <= a /\ a \in Nat /\ a <= Len(Stream)
  <2>1. /\ Keep(SubSeq(Stream, s + 1, arrived) \o SubSeq(Stream, arrived + 1, arrived + n))
              = SubSeq(Stream, From(s, arrived + n) + 1, arrived + n)
         /\ From(s, arrived + n) \in Nat /\ s <= From(s, arrived + n) /\ From(s, arrived + n) <= arrived + n
    BY <1>3, <1>7, BytesKept
  <2>2. From(s, arrived + n) = t /\ a \in Nat
    BY <1>3, <1>a, <1>t
  <2> QED  BY <1>7, <1>a, <1>b, <2>1, <2>2
<1>9. /\ arrived' = a /\ cut' = cut \cup Overrun(n) /\ buf' = Rest(b) /\ handled' = handled \o Payloads(b)
  BY <1>1, <1>8, <1>a
<1>10. t = From(s, arrived + n)
  BY <1>a, <1>t
<1>11. PICK d \in 0..N : EndOf(d) <= t /\ (d < N => t < EndOf(d + 1))
  <2>1. t \in 0..Len(Stream)
    BY <1>3, <1>8
  <2> QED  BY <1>3, <2>1, LineAt
<1>12. PICK e \in 0..N : EndOf(e) <= a /\ (e < N => a < EndOf(e + 1))
  <2>1. a \in 0..Len(Stream)
    BY <1>3, <1>8
  <2> QED  BY <1>3, <2>1, LineAt
<1>13. Between(d, e, t, a)
  BY <1>8, <1>11, <1>12 DEF Between
<1>14. d <= e
  BY <1>3, <1>8, <1>13, FewerBefore
<1>15. /\ c <= d
       /\ \A i \in 1..c : i \notin Overrun(n)
       /\ \A i \in (c + 1)..d : i \in Overrun(n)
       /\ EndOf(d) < t => d + 1 \in cut \cup Overrun(n)
  <2>1. t <= Len(Stream)
    BY <1>3, <1>8
  <2> QED  BY <1>3, <1>5, <1>8, <1>10, <1>11, <2>1, CutByChunk
<1>16. PICK m \in Nat : d + m = e /\ (m = 0 <=> d = e)
  BY <1>6, <1>14
<1>17. /\ sent \in Seq(Form) /\ t \in Nat /\ a \in Nat /\ d \in 0..Len(sent) /\ e \in 0..Len(sent)
       /\ Between(d, e, t, a) /\ b = SubSeq(Stream, t + 1, a) /\ m \in Nat /\ d + m = e
  BY <1>3, <1>8, <1>13, <1>16, <1>b
<1>18. Rest(b) = SubSeq(Stream, (IF m = 0 THEN t ELSE EndOf(e)) + 1, a)
  <2>1. Left(m, t, e, a, b)
    BY <1>17, Pieces
  <2> QED  BY <2>1 DEF Left
<1>19. PICK o \in {0, 1} :
         /\ o <= m /\ (o = 1 => EndOf(d) < t)
         /\ DOMAIN Payloads(b) = 1..(m - o)
         /\ \A k \in 1..(m - o) :
              /\ EndOfText(Payloads(b)[k], sent[d + (k + o)])
              /\ (k + o = 1 /\ EndOf(d) < t) \/ Payloads(b)[k] = Content(sent[d + (k + o)])
  <2>1. HandedOn(d, t, m, b)
    BY <1>17, Handed
  <2> QED  BY <2>1 DEF HandedOn
<1>20. FramedBy(handled, 1..c, cut)
  <2>1. Complete = 1..c
    BY <1>3, <1>7, CompleteAre
  <2> QED  BY <2>1, AsFramedBy DEF Framed
<1>21. FramedBy(handled', 1..e, cut')
  <2>1. PICK S : handled \in Seq(S) /\ Payloads(b) \in Seq(S)
    <3>1. b \in Seq(Byte)
      BY <1>3, <1>8, <1>17, PartOfStream
    <3>2. PICK T : Payloads(b) \in Seq(T)
      BY <3>1, PayloadsAreASeq
    <3>3. PICK U : handled \in Seq(U)
      BY DEF Connected
    <3>4. handled \in Seq(T \cup U) /\ Payloads(b) \in Seq(T \cup U)
      BY <3>2, <3>3
    <3> QED  BY <3>4
  <2> DEFINE ps == Payloads(b)
  <2>2. Len(ps) = m - o
    <3>1. m - o \in Nat /\ DOMAIN ps = 1..(m - o)
      BY <1>16, <1>19
    <3> HIDE DEF ps
    <3> QED  BY <2>1, <3>1 DEF ps
  <2> HIDE DEF ps
  <2>3. /\ cut \subseteq cut' /\ \A i \in 1..c : i \in cut' => i \in cut
        /\ \A i \in (c + 1)..d : i \in cut'
        /\ o = 1 => d + 1 \in cut'
    BY <1>9, <1>15, <1>19
  <2>4. ASSUME NEW k \in 1..(m - o)
        PROVE  /\ EndOfText(ps[k], sent[d + (k + o)])
               /\ d + (k + o) \in cut' \/ ps[k] = Content(sent[d + (k + o)])
    <3>1. CASE k + o = 1 /\ EndOf(d) < t
      <4>1. d + (k + o) = d + 1 /\ d + 1 \in cut'
        BY <1>9, <1>15, <3>1
      <4> QED  BY <1>19, <4>1 DEF ps
    <3>2. CASE ~(k + o = 1 /\ EndOf(d) < t)
      BY <1>19, <3>2 DEF ps
    <3> QED  BY <3>1, <3>2
  <2>5. c \in Nat /\ d \in Nat
    BY <1>6
  <2>6. handled \in Seq(S) /\ ps \in Seq(S)
    BY <2>1 DEF ps
  <2>7. FramedBy(handled \o ps, 1..(d + m), cut')
    BY <1>15, <1>16, <1>19, <1>20, <2>2, <2>3, <2>4, <2>5, <2>6, MoreFramed
  <2> QED  BY <1>9, <1>16, <2>7 DEF ps
<1>u. PICK u : u = IF m = 0 THEN t ELSE EndOf(e)
  OBVIOUS
<1>22. /\ u \in Nat /\ t <= u /\ EndOf(e) <= u /\ u <= a
       /\ EndOf(e) < u => e + 1 \in cut'
  <2>1. CASE m = 0
    BY <1>8, <1>9, <1>11, <1>15, <1>16, <1>u, <2>1
  <2>2. CASE m # 0
    <3>1. EndOf(e) \in Nat /\ e \in 1..N /\ e > d
      BY <1>6, <1>14, <1>16, <2>2
    <3>2. t < EndOf(e)
      BY <1>3, <1>8, <1>13, <3>1, FewerBefore
    <3> QED  BY <1>8, <1>12, <1>u, <2>2, <3>1, <3>2
  <2> QED  BY <2>1, <2>2
<1>23. buf' = SubSeq(Stream, u + 1, a)
  BY <1>9, <1>18, <1>u
<1>24. u = arrived' - Len(buf')
  <2>1. Len(buf') = a - u
    BY <1>3, <1>8, <1>22, <1>23, PartOfStream
  <2> QED  BY <1>8, <1>9, <1>22, <2>1
<1>25. Between(e, e, u, a)
  <2>1. e < N => u < EndOf(e + 1)
    <3>1. e < N => EndOf(e + 1) \in Nat
      BY <1>6
    <3> QED  BY <1>8, <1>12, <1>22, <3>1
  <2> QED  BY <1>8, <1>12, <1>22, <2>1 DEF Between
<1>26. Stream' = Stream /\ Len(sent)' = N /\ \A i : EndOf(i)' = EndOf(i)
  BY <1>2 DEF Stream, EndOf
<1>27. Buffered(u, e)'
  <2>1. Between(e, e, u, arrived)'
    BY <1>2, <1>9, <1>25, <1>26 DEF Between
  <2>2. (EndOf(e) < u => e + 1 \in cut)'
    BY <1>22, <1>26
  <2>3. (buf = SubSeq(Stream, u + 1, arrived) /\ u = arrived - Len(buf))'
    BY <1>9, <1>23, <1>24, <1>26
  <2> QED  BY <2>1, <2>2, <2>3 DEF Buffered
<1>28. Complete' = 1..e
  <2>1. Between(e, e, a, a)
    BY <1>8, <1>12 DEF Between
  <2>2. \A i \in 1..N : i <= e <=> EndOf(i) <= a
    BY <1>3, <1>8, <2>1, FewerBefore
  <2>3. Complete' = {i \in 1..N : EndOf(i) <= a}
    BY <1>2, <1>6, <1>9, <1>26 DEF Complete
  <2> QED  BY <1>6, <2>2, <2>3
<1>29. FramedAsSent'
  BY <1>2, <1>21, <1>28 DEF FramedAsSent, FramedBy, EndOfText
<1> QED
  BY <1>22, <1>26, <1>27, <1>29 DEF Framed

(* Nothing else touches the connection's bytes or payloads.                *)
LEMMA FramedStays ==
  ASSUME Inv, Framed, [Next]_vars
  PROVE  Framed'
<1>1. CASE DataReceived
  BY <1>1, DataReceivedFrames DEF Inv
<1>2. ASSUME UNCHANGED <<sent, arrived, buf, handled, cut>> PROVE Framed'
  <2>1. Stream' = Stream /\ Complete' = Complete /\ \A i : EndOf(i)' = EndOf(i)
    BY <1>2 DEF Stream, Complete, EndOf
  <2>2. FramedAsSent'
    BY <1>2, <2>1 DEF FramedAsSent, Framed
  <2>3. PICK s \in Nat : \E c \in 0..Len(sent) : Buffered(s, c)
    BY DEF Framed
  <2>4. PICK c \in 0..Len(sent) : Buffered(s, c)
    BY <2>3
  <2>5. Buffered(s, c)'
    BY <1>2, <2>1, <2>4 DEF Buffered, Between
  <2> QED  BY <1>2, <2>2, <2>5 DEF Framed
<1>3. CASE Disallow
  BY <1>2, <1>3 DEF Disallow
<1>4. CASE UNCHANGED connVars
  BY <1>2, <1>4 DEF connVars
<1>5. CASE UNCHANGED vars
  BY <1>2, <1>5 DEF vars, connVars
<1> QED
  BY <1>1, <1>3, <1>4, <1>5 DEF Next

(* However the stream is cut into chunks, whatever the size of the buffer  *)
(* and of the chunks (receiver.py:241-253): each payload is the record of  *)
(* one line, in order, and none is missing, but of the lines the bound of  *)
(* the buffer has cut.                                                     *)
THEOREM EveryLineFramed == Spec => []FramedAsSent
<1>1. Init => Framed
  BY FramedAtFirst
<1>2. Inv /\ Framed /\ [Next]_vars => Framed'
  BY FramedStays
<1>3. Framed => FramedAsSent
  BY DEF Framed
<1> QED
  BY <1>1, <1>2, <1>3, InvIsInvariant, PTL DEF Spec

-----------------------------------------------------------------------------
(* What is left of a line and one more chunk fit into the buffer.          *)
ChunksFit == \A f \in Form : Len(Wire(f)) + MaxChunk <= MaxLine + 1

(* Then no chunk overruns the buffer (receiver.py:243).                    *)
LEMMA NothingOverrun ==
  ASSUME ChunksFit, sent \in Seq(Form), arrived \in Nat, Framed,
         NEW n \in 1..MaxChunk, arrived + n <= Len(Stream)
  PROVE  Overrun(n) = {}
<1> DEFINE N == Len(sent)
<1>1. N \in Nat /\ DOMAIN sent = 1..N /\ EndOf(N) = Len(Stream) /\ \A i \in 0..N : EndOf(i) \in 0..Len(Stream)
  BY Ends
<1>2. PICK s \in Nat : \E c \in 0..N : Buffered(s, c)
  BY DEF Framed
<1>3. PICK c \in 0..N : Buffered(s, c)
  BY <1>2
<1>4. /\ s = arrived - Len(buf) /\ EndOf(c) <= s /\ EndOf(c) <= arrived
      /\ c < N => arrived < EndOf(c + 1)
  BY <1>3 DEF Buffered, Between
<1>5. Len(Stream) \in Nat /\ n \in Nat /\ n >= 1 /\ n <= MaxChunk
  BY StreamIsBytes, AccountingAssumption
<1>6. c < N
  <2>1. c # N
    <3> SUFFICES ASSUME c = N PROVE FALSE
      OBVIOUS
    <3>1. arrived >= Len(Stream)
      BY <1>1, <1>4
    <3> QED  BY <1>5, <3>1
  <2>2. N \in Nat
    BY <1>1
  <2> QED  BY <2>1, <2>2
<1> DEFINE l == c + 1
<1>7. l \in 1..N /\ l - 1 = c /\ l \in 0..N
  BY <1>1, <1>6
<1>8. arrived < EndOf(l)
  BY <1>4, <1>6
<1> HIDE DEF l
<1>9. EndOf(l) = EndOf(c) + Len(Wire(sent[l]))
  <2>1. \A i \in 1..N : EndOf(i) = EndOf(i - 1) + Len(Wire(sent[i]))
    BY Ends
  <2> QED  BY <1>7, <2>1
<1>10. Len(Wire(sent[l])) + MaxChunk <= MaxLine + 1
  <2>1. sent[l] \in Form
    BY <1>1, <1>7
  <2> QED  BY <2>1 DEF ChunksFit
<1>11. ~(s < arrived + n - MaxLine)
  <2> DEFINE w == Len(Wire(sent[l]))
             x == EndOf(c)
             y == EndOf(l)
  <2>1. x \in Nat /\ y \in Nat /\ y = x + w /\ w \in Int
    <3>1. x \in 0..Len(Stream) /\ y \in 0..Len(Stream)
      BY <1>1, <1>7
    <3>2. x \in Nat /\ y \in Nat
      BY <1>5, <3>1
    <3>3. w \in Nat
      <4>1. sent[l] \in Form
        BY <1>1, <1>7
      <4> QED  BY <4>1, WireOfForm
    <3> QED  BY <1>9, <3>2, <3>3
  <2>2. w + MaxChunk <= MaxLine + 1 /\ arrived < y /\ x <= s
    BY <1>4, <1>8, <1>10
  <2>3. MaxLine \in Int /\ MaxChunk \in Int
    BY FramingAssumption, AccountingAssumption
  <2> HIDE DEF w, x, y
  <2> QED  BY <1>5, <2>1, <2>2, <2>3
<1>12. ~(arrived - Len(buf) < arrived + n - MaxLine)
  BY <1>4, <1>11
<1> QED
  BY <1>12 DEF Overrun

(* The exception EveryLineFramed makes is for a chunk that does not fit    *)
(* into the buffer beside what is left of a line (receiver.py:243): where  *)
(* all do, no line is cut, so that each is framed as it was sent.          *)
THEOREM NoneCutIfChunksFit ==
  ASSUME ChunksFit
  PROVE  Spec => [](cut = {})
<1>1. Init => cut = {} /\ Framed
  BY FramedAtFirst DEF Init
<1>2. Inv /\ Framed /\ cut = {} /\ [Next]_vars => (cut = {})' /\ Framed'
  <2> SUFFICES ASSUME Inv, Framed, cut = {}, [Next]_vars PROVE (cut = {})'
    BY FramedStays
  <2>1. CASE DataReceived
    <3>1. PICK n \in 1..MaxChunk : arrived + n <= Len(Stream) /\ cut' = cut \cup Overrun(n)
      BY <2>1 DEF DataReceived
    <3>2. sent \in Seq(Form) /\ arrived \in Nat
      BY StreamIsBytes DEF Inv, Connected
    <3>3. Overrun(n) = {}
      BY <3>1, <3>2, NothingOverrun
    <3> QED  BY <3>1, <3>3
  <2>2. CASE Disallow
    BY <2>2 DEF Disallow
  <2>3. CASE UNCHANGED connVars
    BY <2>3 DEF connVars
  <2>4. CASE UNCHANGED vars
    BY <2>4 DEF vars, connVars
  <2> QED  BY <2>1, <2>2, <2>3, <2>4 DEF Next
<1> QED
  BY <1>1, <1>2, InvIsInvariant, PTL DEF Spec
=============================================================================
