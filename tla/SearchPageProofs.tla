-------------------------- MODULE SearchPageProofs --------------------------
(***************************************************************************)
(* Proofs about SearchPage, for every table, every choice of page sizes,   *)
(* any number of requests and every failure: pages do not repeat rows of a *)
(* table that stays, and paging to the end leaves none out, but for rows   *)
(* that share their key with another.                                      *)
(***************************************************************************)
EXTENDS SearchPage, FiniteSetTheorems, TLAPS

(* The rows of the table t that come before r in every order of a query. *)
Ahead(t, r, desc) == {x \in t : Earlier(x, r, desc)}

Place(t, r, desc) == Cardinality(Ahead(t, r, desc))

(* Places are numbers, and grow with the table.                            *)
LEMMA PlaceGrows ==
  ASSUME NEW t, NEW u, IsFiniteSet(u), t \subseteq u, NEW r, NEW desc
  PROVE  /\ Place(t, r, desc) \in Nat /\ Place(u, r, desc) \in Nat
         /\ Place(t, r, desc) <= Place(u, r, desc)
<1>1. Ahead(t, r, desc) \subseteq Ahead(u, r, desc) /\ Ahead(u, r, desc) \subseteq u
  BY DEF Ahead
<1>2. IsFiniteSet(Ahead(u, r, desc))
  BY <1>1, FS_Subset
<1>3. IsFiniteSet(Ahead(t, r, desc))
  BY <1>1, <1>2, FS_Subset
<1> QED
  BY <1>1, <1>2, <1>3, FS_Subset, FS_CardinalityType DEF Place

(* An order gives each row a place of its own and leaves none empty.       *)
LEMMA OrderTypes ==
  ASSUME table \subseteq Row, NEW desc \in BOOLEAN, NEW place \in Orders(desc)
  PROVE  /\ IsFiniteSet(table) /\ Cardinality(table) \in Nat
         /\ place \in [table -> 0 .. Cardinality(table) - 1]
         /\ \A x \in table : place[x] \in Nat /\ place[x] <= Cardinality(table) - 1
         /\ \A x, y \in table : place[x] = place[y] => x = y
         /\ \A i \in 0 .. Cardinality(table) - 1 : \E x \in table : place[x] = i
         /\ \A x, y \in table : Earlier(x, y, desc) => place[x] < place[y]
<1>1. IsFiniteSet(table) /\ Cardinality(table) \in Nat
  BY SearchAssumption, FS_Subset, FS_CardinalityType
<1>2. /\ place \in Bijection(table, 0 .. Cardinality(table) - 1)
      /\ \A x, y \in table : Earlier(x, y, desc) => place[x] < place[y]
  BY DEF Orders
<1>3. /\ place \in [table -> 0 .. Cardinality(table) - 1]
      /\ \A x, y \in table : place[x] = place[y] => x = y
      /\ \A i \in 0 .. Cardinality(table) - 1 : \E x \in table : place[x] = i
  BY <1>2 DEF Bijection, Injection, Surjection, IsInjective
<1>4. \A x \in table : place[x] \in Nat /\ place[x] <= Cardinality(table) - 1
  BY <1>1, <1>3
<1> QED
  BY <1>1, <1>2, <1>3, <1>4

(* Every order gives a row that has its key alone the same place: as many  *)
(* rows are before it as have an earlier key.                              *)
LEMMA PlaceOfUntied ==
  ASSUME table \subseteq Row, NEW desc \in BOOLEAN, NEW place \in Orders(desc),
         NEW r \in table \ Tied
  PROVE  place[r] = Place(table, r, desc)
<1> DEFINE A == Ahead(table, r, desc)
           p == place[r]
           f == [x \in A |-> place[x]]
<1>1. /\ IsFiniteSet(table) /\ Cardinality(table) \in Nat
      /\ \A x \in table : place[x] \in Nat /\ place[x] <= Cardinality(table) - 1
      /\ \A x, y \in table : place[x] = place[y] => x = y
      /\ \A i \in 0 .. Cardinality(table) - 1 : \E x \in table : place[x] = i
      /\ \A x, y \in table : Earlier(x, y, desc) => place[x] < place[y]
  BY OrderTypes
<1>2. A \subseteq table /\ IsFiniteSet(A) /\ p \in Nat /\ p <= Cardinality(table) - 1
  <2>1. A \subseteq table
    BY DEF Ahead
  <2> QED  BY <1>1, <2>1, FS_Subset
<1>3. \A x \in A : place[x] \in 0 .. p - 1
  <2> SUFFICES ASSUME NEW x \in A PROVE place[x] \in 0 .. p - 1
    OBVIOUS
  <2>1. x \in table /\ place[x] < p
    BY <1>1 DEF Ahead
  <2>2. place[x] \in Nat
    BY <1>1, <2>1
  <2> QED  BY <1>2, <2>1, <2>2
<1>4. \A i \in 0 .. p - 1 : \E x \in A : place[x] = i
  <2> SUFFICES ASSUME NEW i \in 0 .. p - 1 PROVE \E x \in A : place[x] = i
    OBVIOUS
  <2>1. i \in 0 .. Cardinality(table) - 1 /\ i < p
    BY <1>1, <1>2
  <2>2. PICK x \in table : place[x] = i
    BY <1>1, <2>1
  <2>3. x # r /\ x \in Row /\ r \in Row /\ Key[x] \in Int /\ Key[r] \in Int
    BY <1>2, <2>1, <2>2, SearchAssumption
  <2>4. Key[x] # Key[r]
    BY <2>3 DEF Tied, Twins
  <2>5. ~Earlier(r, x, desc)
    BY <1>1, <1>2, <2>1, <2>2
  <2>6. Earlier(x, r, desc)
    BY <2>3, <2>4, <2>5 DEF Earlier
  <2> QED  BY <2>2, <2>6 DEF Ahead
<1>5. f \in Bijection(A, 0 .. p - 1)
  BY <1>1, <1>2, <1>3, <1>4 DEF Bijection, Injection, Surjection, IsInjective
<1>6. Cardinality(0 .. p - 1) = p /\ IsFiniteSet(0 .. p - 1)
  BY <1>2, FS_Interval
<1> HIDE DEF f, A, p
<1>7. Cardinality(A) = p
  BY <1>2, <1>5, <1>6, FS_Bijection DEF ExistsBijection
<1> QED
  BY <1>7 DEF A, p, Place

(* The rows an order puts at the places from a to b: as many as there are  *)
(* places, if there is a row at b or after it.                             *)
Between(place, a, b) == {x \in table : place[x] \in a..b}

(* There are no more rows than places.                                     *)
LEMMA FewBetween ==
  ASSUME table \subseteq Row, NEW desc \in BOOLEAN, NEW place \in Orders(desc),
         NEW a \in Int, NEW b \in Int, a <= b + 1
  PROVE  /\ IsFiniteSet(Between(place, a, b))
         /\ Cardinality(Between(place, a, b)) <= b - a + 1
<1> DEFINE B == Between(place, a, b)
           f == [x \in B |-> place[x]]
<1>1. \A x, y \in table : place[x] = place[y] => x = y
  BY OrderTypes
<1>2. f \in Injection(B, a..b)
  BY <1>1 DEF Between, Injection, IsInjective
<1>3. IsFiniteSet(a..b) /\ Cardinality(a..b) = b - a + 1
  BY FS_Interval
<1> QED
  BY <1>2, <1>3, FS_Injection

(* Up to the place of a row no place is empty.                             *)
LEMMA ManyBetween ==
  ASSUME table \subseteq Row, NEW desc \in BOOLEAN, NEW place \in Orders(desc),
         NEW r \in table, NEW a \in Nat, NEW b \in Nat, a <= b, b <= place[r]
  PROVE  b - a + 1 <= Cardinality(Between(place, a, b))
<1> DEFINE B == Between(place, a, b)
           f == [i \in a..b |-> CHOOSE x \in B : place[x] = i]
<1>1. /\ Cardinality(table) \in Nat
      /\ place[r] \in Nat /\ place[r] <= Cardinality(table) - 1
      /\ \A i \in 0 .. Cardinality(table) - 1 : \E x \in table : place[x] = i
  BY OrderTypes
<1>2. \A i \in a..b : \E x \in B : place[x] = i
  <2> SUFFICES ASSUME NEW i \in a..b PROVE \E x \in B : place[x] = i
    OBVIOUS
  <2>1. i \in 0 .. Cardinality(table) - 1
    BY <1>1
  <2> QED  BY <1>1, <2>1 DEF Between
<1>3. \A i \in a..b : f[i] \in B /\ place[f[i]] = i
  BY <1>2
<1>4. f \in Injection(a..b, B)
  BY <1>3 DEF Injection, IsInjective
<1>5. IsFiniteSet(B)
  <2>1. a \in Int /\ b \in Int /\ a <= b + 1
    OBVIOUS
  <2> QED  BY <2>1, FewBetween
<1>6. IsFiniteSet(a..b) /\ Cardinality(a..b) = b - a + 1
  BY FS_Interval
<1> HIDE DEF f, B
<1>7. Cardinality(a..b) <= Cardinality(B)
  BY <1>4, <1>5, FS_Injection
<1> QED
  BY <1>6, <1>7 DEF B

-----------------------------------------------------------------------------
(* How many rows search() asks ClickHouse for (clickhouse.py:152).         *)
Ask(q) == (IF q.limit < MaxResultRows THEN q.limit ELSE MaxResultRows) + 1

(* What the query returns (clickhouse.py:145-180).                         *)
LEMMA FetchedIsBetween ==
  \A q, place : Fetched(q, place) = Between(place, q.offset, q.offset + Ask(q) - 1)
BY DEF Fetched, Between, Ask

(* What search() asks for is a page and one row more (clickhouse.py:152).  *)
LEMMA QueryTypes ==
  ASSUME NEW q \in Query
  PROVE  /\ q.offset \in Nat /\ q.limit \in Nat \ {0} /\ q.limit \in Limits /\ q.desc \in BOOLEAN
         /\ Ask(q) \in 1..(q.limit + 1)
         /\ q.limit <= MaxResultRows => Ask(q) = q.limit + 1
<1>1. q.offset \in Nat /\ q.limit \in Nat \ {0} /\ q.limit \in Limits /\ q.desc \in BOOLEAN
  <2>1. q.offset \in 0..MaxOffset /\ q.limit \in Limits /\ q.desc \in BOOLEAN
    BY DEF Query
  <2>2. Limits \subseteq Nat \ {0} /\ 0..MaxOffset \subseteq Nat
    BY SearchAssumption
  <2> QED  BY <2>1, <2>2
<1> QED
  BY <1>1, SearchAssumption DEF Ask

(* The rows that are fetched end with the page, or one row after it and    *)
(* then there are more of them than the page has.                          *)
LEMMA FetchedTellsMore ==
  ASSUME table \subseteq Row, NEW q \in Query, NEW place \in Orders(q.desc), NEW r \in table,
         q.offset + q.limit <= place[r], Ask(q) = q.limit + 1
  PROVE  Cardinality(Fetched(q, place)) > q.limit
<1>1. q.offset \in Nat /\ q.limit \in Nat /\ q.desc \in BOOLEAN
  BY QueryTypes
<1> DEFINE a == q.offset
           b == q.offset + q.limit
<1>2. a \in Nat /\ b \in Nat /\ a <= b /\ b <= place[r] /\ b - a + 1 = q.limit + 1
  BY <1>1
<1>3. Fetched(q, place) = Between(place, a, b)
  <2>1. q.offset + Ask(q) - 1 = b
    BY <1>1
  <2> QED  BY <2>1, FetchedIsBetween
<1> HIDE DEF a, b
<1>4. b - a + 1 <= Cardinality(Between(place, a, b))
  BY <1>1, <1>2, ManyBetween
<1>5. IsFiniteSet(Between(place, a, b))
  <2>1. a \in Int /\ b \in Int /\ a <= b + 1
    BY <1>2
  <2> QED  BY <1>1, <2>1, FewBetween
<1> QED
  BY <1>1, <1>2, <1>3, <1>4, <1>5, FS_CardinalityType

(* An answer has rows of the page only, and no more than a page.           *)
LEMMA AnswerIsOnPage ==
  ASSUME table \subseteq Row, NEW q \in Query, NEW place \in Orders(q.desc)
  PROVE  /\ Answer(q, place).at = "answered" /\ Answer(q, place).hasMore \in BOOLEAN
         /\ Answer(q, place) \in Reply
         /\ Answer(q, place).rows \subseteq table
         /\ \A r \in Answer(q, place).rows : /\ q.offset <= place[r]
                                             /\ place[r] < q.offset + q.limit
         /\ Cardinality(Answer(q, place).rows) <= q.limit
<1> DEFINE answer == Answer(q, place)
<1>1. /\ q.offset \in Nat /\ q.limit \in Nat /\ q.desc \in BOOLEAN /\ Ask(q) \in 1..(q.limit + 1)
      /\ \A r \in table : place[r] \in Nat
  BY QueryTypes, OrderTypes
<1>2. \A r \in Fetched(q, place) : /\ r \in table
                                   /\ place[r] \in q.offset .. q.offset + Ask(q) - 1
  BY DEF Fetched, Ask
<1>3. answer.rows = IF answer.hasMore
                    THEN {r \in Fetched(q, place) : place[r] < q.offset + q.limit}
                    ELSE Fetched(q, place)
  BY DEF Answer
<1>4. /\ answer.at = "answered"
      /\ answer.hasMore = (Cardinality(Fetched(q, place)) > q.limit)
      /\ answer.hasMore \in BOOLEAN
  BY DEF Answer
<1>5. answer.rows \subseteq table
  BY <1>2, <1>3, <1>4
<1>6. ASSUME NEW r \in answer.rows
      PROVE  q.offset <= place[r] /\ place[r] < q.offset + q.limit
  <2>1. r \in Fetched(q, place) /\ r \in table
    BY <1>2, <1>3, <1>4
  <2>2. CASE answer.hasMore
    BY <1>1, <1>2, <1>3, <2>1, <2>2
  <2>3. CASE ~answer.hasMore
    <3>1. ASSUME q.offset + q.limit <= place[r] PROVE FALSE
      <4>1. Ask(q) = q.limit + 1
        BY <1>1, <1>2, <2>1, <3>1
      <4>2. Cardinality(Fetched(q, place)) > q.limit
        BY <2>1, <3>1, <4>1, FetchedTellsMore
      <4> QED  BY <1>4, <2>3, <4>2
    <3> QED
      BY <1>1, <1>2, <2>1, <3>1
  <2> QED  BY <1>4, <2>2, <2>3
<1>7. Cardinality(answer.rows) <= q.limit
  <2> DEFINE a == q.offset
             b == q.offset + q.limit - 1
  <2>1. a \in Int /\ b \in Int /\ a <= b + 1 /\ b - a + 1 = q.limit
    BY <1>1
  <2>2. answer.rows \subseteq Between(place, a, b)
    BY <1>1, <1>5, <1>6 DEF Between
  <2> HIDE DEF a, b
  <2>3. /\ IsFiniteSet(Between(place, a, b))
        /\ Cardinality(Between(place, a, b)) <= q.limit
    BY <1>1, <2>1, FewBetween
  <2>4. /\ IsFiniteSet(answer.rows)
        /\ Cardinality(answer.rows) <= Cardinality(Between(place, a, b))
    BY <2>2, <2>3, FS_Subset
  <2> QED
    BY <1>1, <2>3, <2>4, FS_CardinalityType
<1>8. answer \in Reply
  BY <1>4, <1>5 DEF Answer, Reply
<1> QED
  BY <1>4, <1>5, <1>6, <1>7, <1>8

(* If clickhouse.max_result_rows allows for a page, an answer has all the  *)
(* rows of the page, and says so if there is none behind it.               *)
LEMMA AnswerIsWholePage ==
  ASSUME table \subseteq Row, NEW q \in Query, NEW place \in Orders(q.desc),
         q.limit <= MaxResultRows
  PROVE  /\ \A r \in table : q.offset <= place[r] /\ place[r] < q.offset + q.limit
                               => r \in Answer(q, place).rows
         /\ Answer(q, place).hasMore \/ \A r \in table : place[r] < q.offset + q.limit
<1>1. /\ q.offset \in Nat /\ q.limit \in Nat /\ Ask(q) = q.limit + 1 /\ q.desc \in BOOLEAN
      /\ \A r \in table : place[r] \in Nat
  BY QueryTypes, OrderTypes
<1>2. Fetched(q, place) = {r \in table : place[r] \in q.offset .. q.offset + Ask(q) - 1}
  BY DEF Fetched, Ask
<1>3. /\ Answer(q, place).hasMore = (Cardinality(Fetched(q, place)) > q.limit)
      /\ Answer(q, place).rows = IF Answer(q, place).hasMore
                          THEN {r \in Fetched(q, place) : place[r] < q.offset + q.limit}
                          ELSE Fetched(q, place)
  BY DEF Answer
<1>4. ASSUME NEW r \in table, q.offset <= place[r], place[r] < q.offset + q.limit
      PROVE  r \in Answer(q, place).rows
  <2>1. r \in Fetched(q, place)
    BY <1>1, <1>2, <1>4
  <2> QED  BY <1>3, <1>4, <2>1
<1>5. ASSUME NEW r \in table, ~(place[r] < q.offset + q.limit)
      PROVE  Answer(q, place).hasMore
  <2>1. q.offset + q.limit <= place[r]
    BY <1>1, <1>5
  <2> QED  BY <1>1, <1>3, <2>1, FetchedTellsMore
<1> QED
  BY <1>4, <1>5

-----------------------------------------------------------------------------
(* As long as a search is smooth there is one request in progress at most. *)
OneRequest == smooth => \A c, d \in InProgress : c = d

(* No row that is shown is on a later page, if its key is its own: what    *)
(* was shown is before the page that is asked for, and an answer is within *)
(* it.                                                                     *)
Before(S, n) == \A r \in S \ Tied : Place(table, r, descending) < n

OnceShown ==
  still =>
    /\ again \subseteq Tied
    /\ InProgress = {} => Before(seen, offset + limit)
    /\ \A c \in Call :
         /\ call[c].at = "sent" => /\ call[c] = Filters(offset, limit, descending)
                                   /\ Before(seen, offset)
         /\ call[c].at = "answered" =>
              /\ Before(seen, offset)
              /\ call[c].rows \subseteq table
              /\ Before(call[c].rows, offset + limit)
              /\ \A r \in call[c].rows \ Tied : offset <= Place(table, r, descending)

(* The wanted rows at the first n places are in S. *)
Covers(S, n) == \A r \in wanted : Place(table, r, descending) < n => r \in S

(* What has been passed has been shown: all that is before the page that   *)
(* is asked for, with an answer all that is before the next, and with the  *)
(* last answer everything.                                                 *)
PassedShown ==
  smooth =>
    /\ InProgress = {} => /\ Covers(seen, offset + limit)
                          /\ nextDisabled => wanted \subseteq seen
    /\ \A c \in Call :
         /\ call[c].at = "sent" => /\ call[c] = Filters(offset, limit, descending)
                                   /\ Covers(seen, offset)
         /\ call[c].at = "answered" =>
              /\ Covers(seen \cup call[c].rows, offset + limit)
              /\ call[c].hasMore \/ wanted \subseteq seen \cup call[c].rows

-----------------------------------------------------------------------------
(* The table is finite, and every row has a place.                         *)
LEMMA TableTypes ==
  ASSUME TypeOK
  PROVE  /\ table \subseteq Row /\ IsFiniteSet(table)
         /\ offset \in Nat /\ limit \in Nat \ {0} /\ descending \in BOOLEAN
<1>1. table \subseteq Row /\ IsFiniteSet(table)
  BY SearchAssumption, FS_Subset DEF TypeOK
<1> QED
  BY <1>1, SearchAssumption DEF TypeOK

(* The table says which rows are tied.                                     *)
LEMMA TiedStays == table' = table => Tied' = Tied
BY DEF Tied, Twins

(* What a request sends is a query. *)
LEMMA SentIsQuery ==
  ASSUME TypeOK, NEW c \in Call, call[c].at = "sent"
  PROVE  call[c] \in Query
BY DEF TypeOK, Query, Reply

CallTypes ==
  /\ call \in [Call -> [at : {"free", "failed"}] \cup Query \cup Reply]
  /\ \A c \in Call :
       call[c].at = "answered" => \E l \in Limits : Cardinality(call[c].rows) <= l

(* runSearch up to its await, for a place within the bound. *)
LEMMA RunSearchTypes ==
  ASSUME TypeOK, NEW off \in 0..MaxOffset, NEW desc \in BOOLEAN, RunSearch(off, desc)
  PROVE  /\ offset' \in 0..MaxOffset /\ limit' \in Limits /\ descending' \in BOOLEAN
         /\ table' = table
         /\ buttons' \in BOOLEAN \X BOOLEAN \X BOOLEAN \X BOOLEAN
         /\ \E c \in Call : /\ call[c] = Free
                            /\ call' = [call EXCEPT ![c] = Filters(off, limit', desc)]
                            /\ Filters(off, limit', desc) \in Query
         /\ CallTypes'
<1>1. PICK c \in Call : call[c] = Free /\ call' = [call EXCEPT ![c] = Filters(off, limit', desc)]
  BY DEF RunSearch
<1>2. limit' \in Limits
  BY DEF RunSearch
<1>3. Filters(off, limit', desc) \in Query /\ Filters(off, limit', desc).at = "sent"
  BY <1>2 DEF Filters, Query
<1>4. CallTypes'
  BY <1>1, <1>3 DEF TypeOK, CallTypes
<1> QED
  BY <1>1, <1>2, <1>3, <1>4 DEF TypeOK, RunSearch, buttons

HistoryTypes ==
  /\ smooth \in BOOLEAN /\ still \in BOOLEAN /\ (still => smooth)
  /\ wanted \subseteq table \ Tied /\ again \subseteq seen /\ seen \subseteq Row

PageTypes ==
  /\ table \subseteq Row
  /\ offset \in 0..MaxOffset /\ limit \in Limits /\ descending \in BOOLEAN
  /\ buttons \in BOOLEAN \X BOOLEAN \X BOOLEAN \X BOOLEAN

(* The type invariant in three parts: the page, the calls, the history.    *)
LEMMA TypeParts == TypeOK <=> PageTypes /\ CallTypes /\ HistoryTypes
BY DEF TypeOK, PageTypes, CallTypes, HistoryTypes

(* The same after a step.                                                  *)
LEMMA TypePartsAfter == TypeOK' <=> PageTypes' /\ CallTypes' /\ HistoryTypes'
BY DEF TypeOK, PageTypes, CallTypes, HistoryTypes

(* What a click sends is for a place within the bound. *)
LEMMA ClickIsRunSearch ==
  ASSUME TypeOK
  PROVE  /\ NewSearch => \E desc \in BOOLEAN : RunSearch(0, desc)
         /\ NextPage => /\ RunSearch(offset + limit, descending)
                        /\ offset + limit \in 0..MaxOffset
         /\ PrevPage => \E off \in 0..MaxOffset : RunSearch(off, descending)
         /\ 0 \in 0..MaxOffset
<1>1. offset \in Nat /\ offset <= MaxOffset /\ limit \in Nat /\ MaxOffset \in Nat
  BY TableTypes, SearchAssumption DEF TypeOK
<1>2. NewSearch => \E desc \in BOOLEAN : RunSearch(0, desc)
  BY DEF NewSearch, TypeOK
<1>3. NextPage => RunSearch(offset + limit, descending) /\ offset + limit \in 0..MaxOffset
  BY <1>1 DEF NextPage
<1>4. PrevPage => \E off \in 0..MaxOffset : RunSearch(off, descending)
  <2>1. (IF offset > limit THEN offset - limit ELSE 0) \in 0..MaxOffset
    BY <1>1
  <2> QED  BY <2>1 DEF PrevPage
<1> QED
  BY <1>1, <1>2, <1>3, <1>4

(* The ranges of the variables (app.js:246-270, clickhouse.py:145-180); an *)
(* answer is never longer than a page.                                     *)
THEOREM TypeCorrect == Spec => []TypeOK
<1>1. Init => TypeOK
  <2> SUFFICES ASSUME Init PROVE TypeOK
    OBVIOUS
  <2>1. PageTypes
    <3>1. 0 \in 0..MaxOffset
      BY SearchAssumption
    <3>2. buttons \in BOOLEAN \X BOOLEAN \X BOOLEAN \X BOOLEAN
      BY DEF Init, buttons
    <3> QED  BY <3>1, <3>2 DEF Init, PageTypes
  <2>2. CallTypes
    BY DEF Init, CallTypes, Free
  <2>3. HistoryTypes
    BY DEF Init, HistoryTypes
  <2> QED
    BY <2>1, <2>2, <2>3, TypeParts
<1>2. TypeOK /\ [Next]_vars => TypeOK'
  <2> SUFFICES ASSUME TypeOK, [Next]_vars PROVE TypeOK'
    OBVIOUS
  <2>0. PageTypes /\ CallTypes /\ HistoryTypes
    BY TypeParts
  <2>1. ASSUME NEW off \in 0..MaxOffset, NEW desc \in BOOLEAN, RunSearch(off, desc)
        PROVE  PageTypes' /\ CallTypes'
    BY <2>0, <2>1, RunSearchTypes DEF PageTypes
  <2>2. CASE NewSearch
    <3>1. PageTypes' /\ CallTypes' /\ table' = table
      BY <2>1, <2>2, ClickIsRunSearch DEF RunSearch
    <3>2. HistoryTypes'
      BY <2>0, <2>2, <3>1, TiedStays DEF HistoryTypes, PageTypes, NewSearch, NotSmooth
    <3> QED  BY <3>1, <3>2, TypePartsAfter
  <2>3. CASE NextPage
    <3>1. PageTypes' /\ CallTypes' /\ table' = table
      BY <2>0, <2>1, <2>3, ClickIsRunSearch DEF RunSearch, PageTypes
    <3>2. HistoryTypes'
      BY <2>0, <2>3, <3>1, TiedStays DEF HistoryTypes, NextPage, NotSmooth, history
    <3> QED  BY <3>1, <3>2, TypePartsAfter
  <2>4. CASE PrevPage
    <3>1. PageTypes' /\ CallTypes' /\ table' = table
      BY <2>0, <2>1, <2>4, ClickIsRunSearch DEF RunSearch, PageTypes
    <3>2. HistoryTypes'
      BY <2>0, <2>4, <3>1, TiedStays DEF HistoryTypes, PrevPage, NotSmooth
    <3> QED  BY <3>1, <3>2, TypePartsAfter
  <2>5. CASE Clear
    <3>1. PageTypes'
      BY <2>0, <2>5 DEF PageTypes, Clear, page, buttons
    <3>2. CallTypes'
      BY <2>0, <2>5 DEF CallTypes, Clear
    <3>3. HistoryTypes'
      BY <2>0, <2>5, TiedStays DEF HistoryTypes, Clear, history
    <3> QED  BY <3>1, <3>2, <3>3, TypePartsAfter
  <2>6. ASSUME NEW c \in Call, Search(c) PROVE TypeOK'
    <3>1. PageTypes' /\ HistoryTypes'
      BY <2>0, <2>6, TiedStays DEF PageTypes, HistoryTypes, Search, page, history, buttons
    <3>2. PICK place \in Orders(call[c].desc) :
            call[c] \in Query /\ call' = [call EXCEPT ![c] = Answer(call[c], place)]
      BY <2>6, SentIsQuery DEF Search
    <3>3. /\ Answer(call[c], place) \in Reply
          /\ \E l \in Limits : Cardinality(Answer(call[c], place).rows) <= l
      BY <2>0, <3>2, AnswerIsOnPage, QueryTypes DEF PageTypes
    <3>4. CallTypes'
      BY <2>0, <3>2, <3>3 DEF CallTypes
    <3> QED  BY <3>1, <3>4, TypePartsAfter
  <2>7. ASSUME NEW c \in Call, SearchFail(c) PROVE TypeOK'
    <3>1. PageTypes' /\ HistoryTypes'
      BY <2>0, <2>7, TiedStays DEF PageTypes, HistoryTypes, SearchFail, page, history, buttons
    <3>2. CallTypes'
      BY <2>0, <2>7 DEF CallTypes, SearchFail
    <3> QED  BY <3>1, <3>2, TypePartsAfter
  <2>8. ASSUME NEW c \in Call, Render(c) PROVE TypeOK'
    <3>1. call[c].hasMore \in BOOLEAN /\ call[c].rows \subseteq Row
      BY <2>0, <2>8 DEF Render, CallTypes, Query, Reply
    <3>2. PageTypes'
      BY <2>0, <2>8, <3>1 DEF PageTypes, Render, page, buttons
    <3>3. CallTypes'
      BY <2>0, <2>8 DEF CallTypes, Render, Free
    <3>4. HistoryTypes'
      BY <2>0, <2>8, <3>1, TiedStays DEF HistoryTypes, Render
    <3> QED  BY <3>2, <3>3, <3>4, TypePartsAfter
  <2>9. ASSUME NEW c \in Call, RenderFail(c) PROVE TypeOK'
    <3>1. PageTypes' /\ HistoryTypes'
      BY <2>0, <2>9, TiedStays DEF PageTypes, HistoryTypes, RenderFail, NotSmooth, page, buttons
    <3>2. CallTypes'
      BY <2>0, <2>9 DEF CallTypes, RenderFail, Free
    <3> QED  BY <3>1, <3>2, TypePartsAfter
  <2>10. CASE Insert
    <3>1. PageTypes'
      BY <2>0, <2>10 DEF PageTypes, Insert, page, buttons
    <3>2. CallTypes'
      BY <2>0, <2>10 DEF CallTypes, Insert
    <3>3. HistoryTypes'
      <4>1. PICK r \in Row \ table : table' = table \cup {r} /\ wanted' = wanted \ Twins(r)
        BY <2>10 DEF Insert
      <4>2. wanted' \subseteq table' \ Tied'
        BY <2>0, <4>1 DEF HistoryTypes, PageTypes, Tied, Twins
      <4> QED  BY <2>0, <2>10, <4>2 DEF HistoryTypes, Insert
    <3> QED  BY <3>1, <3>2, <3>3, TypePartsAfter
  <2>11. CASE Delete
    <3>1. PageTypes'
      BY <2>0, <2>11 DEF PageTypes, Delete, page, buttons
    <3>2. CallTypes'
      BY <2>0, <2>11 DEF CallTypes, Delete
    <3>3. HistoryTypes'
      <4>1. PICK r \in table : table' = table \ {r} /\ wanted' \in {wanted \ {r}, {}}
        BY <2>11 DEF Delete, NotSmooth
      <4>2. wanted' \subseteq table' \ Tied'
        BY <2>0, <4>1 DEF HistoryTypes, Tied
      <4> QED  BY <2>0, <2>11, <4>2 DEF HistoryTypes, Delete, NotSmooth
    <3> QED  BY <3>1, <3>2, <3>3, TypePartsAfter
  <2>12. CASE UNCHANGED vars
    <3>1. PageTypes' /\ CallTypes' /\ HistoryTypes'
      BY <2>0, <2>12, TiedStays DEF PageTypes, CallTypes, HistoryTypes, vars, page, buttons, history
    <3> QED  BY <3>1, TypePartsAfter
  <2> QED
    BY <2>2, <2>3, <2>4, <2>5, <2>6, <2>7, <2>8, <2>9, <2>10, <2>11, <2>12 DEF Next
<1> QED
  BY <1>1, <1>2, PTL DEF Spec

-----------------------------------------------------------------------------
(* A click when nothing is in progress makes the one request there is.     *)
LEMMA FirstRequest ==
  ASSUME TypeOK, NEW off \in 0..MaxOffset, NEW desc \in BOOLEAN, RunSearch(off, desc),
         InProgress = {}
  PROVE  \E c \in Call : /\ call'[c] = Filters(offset', limit', descending')
                         /\ InProgress' = {c}
                         /\ \A d \in Call : d # c => call'[d].at = "free"
                         /\ call'[c].at = "sent"
<1>1. PICK c \in Call : call' = [call EXCEPT ![c] = Filters(off, limit', desc)]
  BY DEF RunSearch
<1>2. call \in [Call -> [at : {"free", "failed"}] \cup Query \cup Reply]
  BY DEF TypeOK
<1>3. \A d \in Call : call[d] = Free
  BY DEF InProgress
<1>4. call'[c] = Filters(offset', limit', descending') /\ call'[c].at = "sent"
  BY <1>1, <1>2 DEF RunSearch, Filters
<1>5. \A d \in Call : d # c => call'[d] = Free /\ call'[d].at = "free"
  BY <1>1, <1>2, <1>3 DEF Free
<1>6. call'[c] # Free
  BY <1>4 DEF Free
<1> QED
  BY <1>4, <1>5, <1>6 DEF InProgress

(* The rest of a request's life changes nothing about the other calls.     *)
LEMMA CallMoves ==
  ASSUME TypeOK, NEW c \in Call
  PROVE  /\ Search(c) => /\ call[c] \in Query
                         /\ \E place \in Orders(call[c].desc) : call'[c] = Answer(call[c], place)
                         /\ c \in InProgress /\ InProgress' = InProgress
                         /\ \A d \in Call : d # c => call'[d] = call[d]
         /\ SearchFail(c) => /\ call'[c].at = "failed"
                             /\ c \in InProgress /\ InProgress' = InProgress
                             /\ \A d \in Call : d # c => call'[d] = call[d]
         /\ Render(c) \/ RenderFail(c) => /\ call'[c].at = "free"
                                          /\ c \in InProgress /\ InProgress' = InProgress \ {c}
                                          /\ \A d \in Call : d # c => call'[d] = call[d]
         /\ Render(c) => call[c] \in Reply
<1>1. call \in [Call -> [at : {"free", "failed"}] \cup Query \cup Reply]
  BY DEF TypeOK
<1>2. Free.at = "free"
  BY DEF Free
<1>3. ASSUME Search(c)
      PROVE  /\ call[c] \in Query
             /\ \E place \in Orders(call[c].desc) : call'[c] = Answer(call[c], place)
             /\ c \in InProgress /\ InProgress' = InProgress
             /\ \A d \in Call : d # c => call'[d] = call[d]
  <2>1. call[c] \in Query /\ c \in InProgress
    BY <1>2, <1>3, SentIsQuery DEF Search, InProgress
  <2>2. PICK place \in Orders(call[c].desc) :
          call'[c] = Answer(call[c], place) /\ \A d \in Call : d # c => call'[d] = call[d]
    BY <1>1, <1>3 DEF Search
  <2>3. Answer(call[c], place) # Free
    BY <1>2, <2>1, AnswerIsOnPage DEF TypeOK
  <2> QED  BY <2>1, <2>2, <2>3 DEF InProgress
<1>4. ASSUME SearchFail(c)
      PROVE  /\ call'[c].at = "failed"
             /\ c \in InProgress /\ InProgress' = InProgress
             /\ \A d \in Call : d # c => call'[d] = call[d]
  <2>1. c \in InProgress
    BY <1>2, <1>4 DEF SearchFail, InProgress
  <2>2. call'[c] = [at |-> "failed"] /\ \A d \in Call : d # c => call'[d] = call[d]
    BY <1>1, <1>4 DEF SearchFail
  <2>3. call'[c].at = "failed" /\ call'[c] # Free
    BY <1>2, <2>2
  <2> QED  BY <2>1, <2>2, <2>3 DEF InProgress
<1>5. ASSUME Render(c) \/ RenderFail(c)
      PROVE  /\ call'[c].at = "free"
             /\ c \in InProgress /\ InProgress' = InProgress \ {c}
             /\ \A d \in Call : d # c => call'[d] = call[d]
  <2>1. c \in InProgress
    BY <1>2, <1>5 DEF Render, RenderFail, InProgress
  <2>2. call'[c] = Free /\ \A d \in Call : d # c => call'[d] = call[d]
    BY <1>1, <1>5 DEF Render, RenderFail
  <2> QED  BY <1>2, <2>1, <2>2 DEF InProgress
<1>6. Render(c) => call[c] \in Reply
  BY <1>1 DEF Render, Query, Reply
<1> QED
  BY <1>3, <1>4, <1>5, <1>6

(* The buttons are disabled while a request is in progress, so that only a *)
(* search that is not smooth has two.                                      *)
LEMMA OneRequestStays == TypeOK /\ OneRequest /\ [Next]_vars => OneRequest'
<1> SUFFICES ASSUME TypeOK, OneRequest, [Next]_vars, smooth'
             PROVE  \A c, d \in InProgress' : c = d
  BY DEF OneRequest
<1>1. ASSUME NEW off \in 0..MaxOffset, NEW desc \in BOOLEAN, RunSearch(off, desc),
             InProgress = {}
      PROVE  \A c, d \in InProgress' : c = d
  BY <1>1, FirstRequest
<1>2. CASE NewSearch
  <2>1. InProgress = {}
    BY <1>2 DEF NewSearch, NotSmooth
  <2> QED  BY <1>1, <1>2, <2>1, ClickIsRunSearch
<1>3. CASE NextPage
  <2>1. InProgress = {} /\ descending \in BOOLEAN
    BY <1>3 DEF NextPage, NotSmooth, TypeOK
  <2> QED  BY <1>1, <1>3, <2>1, ClickIsRunSearch
<1>4. CASE PrevPage
  <2>1. InProgress = {} /\ descending \in BOOLEAN
    BY <1>4 DEF PrevPage, NotSmooth, TypeOK
  <2> QED  BY <1>1, <1>4, <2>1, ClickIsRunSearch
<1>5. ASSUME smooth, InProgress' \subseteq InProgress
      PROVE  \A c, d \in InProgress' : c = d
  BY <1>5 DEF OneRequest
<1>6. CASE Clear \/ Insert \/ Delete \/ UNCHANGED vars
  <2>1. smooth /\ call' = call
    BY <1>6 DEF Clear, Insert, Delete, NotSmooth, history, vars
  <2> QED  BY <1>5, <2>1 DEF InProgress
<1>7. ASSUME NEW c \in Call, Search(c) \/ SearchFail(c) \/ Render(c) \/ RenderFail(c)
      PROVE  \A d, e \in InProgress' : d = e
  <2>1. InProgress' \subseteq InProgress
    BY <1>7, CallMoves
  <2>2. smooth
    BY <1>7 DEF Search, SearchFail, Render, RenderFail, NotSmooth, history
  <2> QED  BY <1>5, <2>1, <2>2
<1> QED
  BY <1>2, <1>3, <1>4, <1>6, <1>7 DEF Next

-----------------------------------------------------------------------------
(* While a search is smooth, the request of a step is the only one.        *)
LEMMA OthersAreFree ==
  ASSUME TypeOK, OneRequest, smooth, NEW c \in InProgress
  PROVE  \A d \in Call : d # c => call[d].at = "free"
BY DEF OneRequest, InProgress, Free

(* Every step keeps OnceShown.                                             *)
LEMMA OnceShownStays ==
  TypeOK /\ OneRequest /\ OnceShown /\ [Next]_vars => OnceShown'
<1> SUFFICES ASSUME TypeOK, OneRequest, OnceShown, [Next]_vars, still'
             PROVE  OnceShown'
  BY DEF OnceShown
<1>0. /\ offset \in Nat /\ limit \in Nat \ {0} /\ descending \in BOOLEAN
      /\ \A r : Place(table, r, descending) \in Nat
  BY TableTypes, PlaceGrows
<1>1. ASSUME NEW off \in 0..MaxOffset, NEW desc \in BOOLEAN, RunSearch(off, desc),
             InProgress = {}, again' \subseteq Tied,
             \A r \in seen' \ Tied : Place(table, r, desc) < off
      PROVE  OnceShown'
  <2>1. PICK c \in Call : /\ call'[c] = Filters(offset', limit', descending')
                          /\ InProgress' = {c}
                          /\ \A d \in Call : d # c => call'[d].at = "free"
                          /\ call'[c].at = "sent"
    BY <1>1, FirstRequest
  <2>2. Tied' = Tied
    BY <1>1, TiedStays DEF RunSearch
  <2>3. Before(seen, offset)'
    BY <1>1, <2>2 DEF Before, RunSearch
  <2> QED
    BY <1>1, <2>1, <2>2, <2>3 DEF OnceShown
<1>2. CASE NewSearch
  <2>1. InProgress = {} /\ again' = {} /\ seen' = {}
    BY <1>2 DEF NewSearch, NotSmooth
  <2> QED  BY <1>1, <1>2, <2>1, ClickIsRunSearch
<1>3. CASE NextPage
  <2>1. InProgress = {} /\ UNCHANGED history /\ descending \in BOOLEAN
    BY <1>3 DEF NextPage, NotSmooth, TypeOK
  <2>2. again' \subseteq Tied /\ \A r \in seen' \ Tied : Place(table, r, descending) < offset + limit
    BY <2>1 DEF OnceShown, Before, history
  <2> QED  BY <1>1, <1>3, <2>1, <2>2, ClickIsRunSearch
<1>4. CASE PrevPage
  BY <1>4 DEF PrevPage, NotSmooth
<1>5. CASE Clear \/ UNCHANGED vars
  <2>1. UNCHANGED <<table, page, call, history>> /\ Tied' = Tied
    BY <1>5, TiedStays DEF Clear, vars
  <2> QED
    BY <2>1 DEF OnceShown, Before, InProgress, page, history
<1>6. ASSUME NEW c \in Call, Search(c) PROVE OnceShown'
  <2>1. UNCHANGED <<table, page, history>> /\ Tied' = Tied
    BY <1>6, TiedStays DEF Search
  <2>2. still /\ smooth
    BY <2>1 DEF history, TypeOK
  <2>3. PICK place \in Orders(call[c].desc) :
        /\ call[c] \in Query /\ call'[c] = Answer(call[c], place)
        /\ c \in InProgress /\ InProgress' = InProgress
        /\ \A d \in Call : d # c => call'[d] = call[d]
    BY <1>6, CallMoves
  <2>4. \A d \in Call : d # c => call'[d].at = "free"
    BY <2>2, <2>3, OthersAreFree
  <2>5. again \subseteq Tied /\ call[c] = Filters(offset, limit, descending) /\ Before(seen, offset)
    BY <1>6, <2>2 DEF OnceShown, Search
  <2>6. call[c].offset = offset /\ call[c].limit = limit /\ call[c].desc = descending
    BY <2>5 DEF Filters
  <2>7. table \subseteq Row
    BY DEF TypeOK
  <2>8. /\ call'[c].at = "answered" /\ call'[c].rows \subseteq table
        /\ \A r \in call'[c].rows : offset <= place[r] /\ place[r] < offset + limit
    BY <2>3, <2>6, <2>7, AnswerIsOnPage
  <2>9. \A r \in call'[c].rows \ Tied : place[r] = Place(table, r, descending)
    BY <1>0, <2>6, <2>7, <2>8, PlaceOfUntied
  <2>10. Before(call'[c].rows, offset + limit)
         /\ \A r \in call'[c].rows \ Tied : offset <= Place(table, r, descending)
    BY <2>8, <2>9 DEF Before
  <2>11. /\ again' \subseteq Tied' /\ InProgress' # {} /\ call'[c].rows \subseteq table'
         /\ Before(seen, offset)' /\ Before(call[c].rows, offset + limit)'
         /\ \A r \in call'[c].rows \ Tied' : offset' <= Place(table', r, descending')
    BY <2>1, <2>3, <2>5, <2>8, <2>10 DEF Before, page, history
  <2> QED
    BY <2>4, <2>8, <2>11 DEF OnceShown
<1>7. ASSUME NEW c \in Call, SearchFail(c) PROVE OnceShown'
  <2>1. UNCHANGED <<table, page, history>> /\ Tied' = Tied
    BY <1>7, TiedStays DEF SearchFail
  <2>2. still
    BY <2>1 DEF history
  <2>3. /\ call'[c].at = "failed" /\ c \in InProgress /\ InProgress' = InProgress
        /\ \A d \in Call : d # c => call'[d] = call[d]
    BY <1>7, CallMoves
  <2>4. \A d \in Call : d # c => call'[d].at = "free"
    BY <2>2, <2>3, OthersAreFree DEF TypeOK
  <2> QED
    BY <2>1, <2>2, <2>3, <2>4 DEF OnceShown, history
<1>8. ASSUME NEW c \in Call, Render(c) PROVE OnceShown'
  <2>1. still /\ smooth /\ UNCHANGED <<table, page>> /\ Tied' = Tied
    BY <1>8, TiedStays DEF Render, TypeOK
  <2>2. /\ call'[c].at = "free" /\ c \in InProgress /\ InProgress' = InProgress \ {c}
        /\ \A d \in Call : d # c => call'[d] = call[d]
    BY <1>8, CallMoves
  <2>3. \A d \in Call : call'[d].at = "free"
    BY <2>1, <2>2, OthersAreFree
  <2>4. /\ again \subseteq Tied /\ call[c].rows \subseteq table
        /\ Before(seen, offset) /\ Before(call[c].rows, offset + limit)
        /\ \A r \in call[c].rows \ Tied : offset <= Place(table, r, descending)
    BY <1>8, <2>1 DEF OnceShown, Render
  <2>5. seen' = seen \cup call[c].rows /\ again' = again \cup (seen \cap call[c].rows)
    BY <1>8, <2>1 DEF Render
  <2>6. again' \subseteq Tied'
    BY <1>0, <2>1, <2>4, <2>5 DEF Before
  <2>7. Before(seen, offset + limit)'
    <3>1. \A r \in seen' \ Tied : Place(table, r, descending) < offset + limit
      BY <1>0, <2>4, <2>5 DEF Before
    <3> QED  BY <2>1, <3>1 DEF Before, page
  <2> QED
    BY <2>3, <2>6, <2>7 DEF OnceShown
<1>9. ASSUME NEW c \in Call, RenderFail(c) PROVE FALSE
  BY <1>9 DEF RenderFail, NotSmooth
<1>10. CASE Insert \/ Delete
  BY <1>10 DEF Insert, Delete, NotSmooth
<1> QED
  BY <1>2, <1>3, <1>4, <1>5, <1>6, <1>7, <1>8, <1>9, <1>10 DEF Next

(* Nobody who pages through a table that does not change sees a row twice  *)
(* that has its key alone, whatever page sizes are chosen in between,      *)
(* whatever clickhouse.max_result_rows cuts a page to, and in whatever     *)
(* order each query puts the rows of equal keys                            *)
(* (app.js:486-520, clickhouse.py:155-160).                                *)
THEOREM NoRowTwice == Spec => []NothingTwice
<1>1. Init => OneRequest /\ OnceShown
  BY DEF Init, OneRequest, OnceShown
<1>2. OnceShown => NothingTwice
  BY DEF OnceShown, NothingTwice
<1> QED
  BY <1>1, <1>2, TypeCorrect, OneRequestStays, OnceShownStays, PTL DEF Spec

-----------------------------------------------------------------------------
(* clickhouse.max_result_rows, 10000 unless configured otherwise, allows   *)
(* for every choice of rows per page (config.py:78).                       *)
PagesAreWhole == \A l \in Limits : l <= MaxResultRows

(* Rows only move on to later places, but for an oldest one, that goes.    *)
LEMMA WantedMoveOn ==
  ASSUME TypeOK, Insert \/ Delete, smooth'
  PROVE  /\ smooth /\ UNCHANGED <<page, buttons, call, seen>>
         /\ wanted' \subseteq wanted
         /\ \A r \in wanted' : /\ Place(table', r, descending) \in Nat
                               /\ Place(table, r, descending) <= Place(table', r, descending)
<1>1. table \subseteq Row /\ IsFiniteSet(table)
  BY TableTypes
<1>2. CASE Insert
  <2>1. table \subseteq table' /\ IsFiniteSet(table')
    BY <1>1, <1>2, FS_AddElement DEF Insert
  <2>2. \A r : /\ Place(table', r, descending) \in Nat
               /\ Place(table, r, descending) <= Place(table', r, descending)
    BY <2>1, PlaceGrows
  <2> QED  BY <1>2, <2>2 DEF Insert
<1>3. CASE Delete
  <2>1. /\ smooth /\ descending /\ UNCHANGED <<page, buttons, call, seen>>
    BY <1>3 DEF Delete, NotSmooth
  <2>2. PICK o \in table : /\ \A x \in table : Key[o] <= Key[x]
                           /\ table' = table \ {o} /\ wanted' = wanted \ {o}
    BY <1>3, <2>1 DEF Delete, NotSmooth
  <2>3. ASSUME NEW r \in wanted'
        PROVE  Place(table, r, descending) = Place(table', r, descending)
    <3>1. /\ r \in table /\ r # o /\ Key[r] \in Int /\ Key[o] \in Int
          /\ Key[o] <= Key[r]
      BY <1>1, <2>2, SearchAssumption DEF TypeOK
    <3>2. ~Earlier(o, r, descending)
      BY <2>1, <3>1 DEF Earlier
    <3>3. Ahead(table', r, descending) = Ahead(table, r, descending)
      BY <2>2, <3>2 DEF Ahead
    <3> QED  BY <3>3 DEF Place
  <2>4. \A r : Place(table, r, descending) \in Nat
    BY <1>1, PlaceGrows
  <2>5. ASSUME NEW r \in wanted'
        PROVE  /\ Place(table', r, descending) \in Nat
               /\ Place(table, r, descending) <= Place(table', r, descending)
    <3> DEFINE p == Place(table, r, descending)
    <3>1. p \in Nat /\ p <= p
      BY <2>4
    <3> QED  BY <2>3, <3>1
  <2>6. wanted' \subseteq wanted
    BY <2>2
  <2> QED  BY <2>1, <2>5, <2>6
<1> QED
  BY <1>2, <1>3

(* Every step keeps PassedShown.                                           *)
LEMMA PassedShownStays ==
  ASSUME PagesAreWhole
  PROVE  TypeOK /\ OneRequest /\ PassedShown /\ [Next]_vars => PassedShown'
<1> SUFFICES ASSUME TypeOK, OneRequest, PassedShown, [Next]_vars, smooth'
             PROVE  PassedShown'
  BY DEF PassedShown
<1>0. /\ offset \in Nat /\ limit \in Nat \ {0} /\ limit \in Limits /\ descending \in BOOLEAN
      /\ \A r : Place(table, r, descending) \in Nat
      /\ wanted \subseteq table \ Tied /\ table \subseteq Row
  BY TableTypes, PlaceGrows DEF TypeOK
<1>1. ASSUME NEW off \in 0..MaxOffset, NEW desc \in BOOLEAN, RunSearch(off, desc),
             InProgress = {},
             \A r \in wanted' : Place(table, r, desc) < off => r \in seen'
      PROVE  PassedShown'
  <2>1. PICK c \in Call : /\ call'[c] = Filters(offset', limit', descending')
                          /\ InProgress' = {c}
                          /\ \A d \in Call : d # c => call'[d].at = "free"
                          /\ call'[c].at = "sent"
    BY <1>1, FirstRequest
  <2>2. Covers(seen, offset)'
    BY <1>1 DEF Covers, RunSearch
  <2> QED
    BY <1>1, <2>1, <2>2 DEF PassedShown
<1>2. CASE NewSearch
  <2>1. InProgress = {}
    BY <1>2 DEF NewSearch, NotSmooth
  <2>2. ASSUME NEW desc \in BOOLEAN, NEW r PROVE ~(Place(table, r, desc) < 0)
    BY TableTypes, PlaceGrows
  <2> QED  BY <1>1, <1>2, <2>1, <2>2, ClickIsRunSearch
<1>3. CASE NextPage
  <2>1. InProgress = {} /\ UNCHANGED history
    BY <1>3 DEF NextPage, NotSmooth
  <2>2. \A r \in wanted' : Place(table, r, descending) < offset + limit => r \in seen'
    BY <2>1 DEF PassedShown, Covers, history
  <2> QED  BY <1>0, <1>1, <1>3, <2>1, <2>2, ClickIsRunSearch
<1>4. CASE PrevPage
  <2> DEFINE off == IF offset > limit THEN offset - limit ELSE 0
  <2>1. InProgress = {} /\ UNCHANGED <<smooth, wanted, seen>> /\ RunSearch(off, descending)
    BY <1>4 DEF PrevPage, NotSmooth
  <2>2. off \in 0..MaxOffset /\ off <= offset + limit /\ off \in Nat
    BY <1>0, SearchAssumption DEF TypeOK
  <2> HIDE DEF off
  <2>3. \A r \in wanted' : Place(table, r, descending) < off => r \in seen'
    BY <1>0, <2>1, <2>2 DEF PassedShown, Covers
  <2> QED  BY <1>0, <1>1, <2>1, <2>2, <2>3
<1>5. CASE Clear \/ UNCHANGED vars
  <2>1. UNCHANGED <<table, page, call, history, nextDisabled>>
    BY <1>5 DEF Clear, vars, buttons
  <2> QED
    BY <2>1 DEF PassedShown, Covers, InProgress, page, history
<1>6. ASSUME NEW c \in Call, Search(c) PROVE PassedShown'
  <2>1. smooth /\ UNCHANGED <<table, page, history>>
    BY <1>6 DEF Search, history
  <2>2. PICK place \in Orders(call[c].desc) :
        /\ call[c] \in Query /\ call'[c] = Answer(call[c], place)
        /\ c \in InProgress /\ InProgress' = InProgress
        /\ \A d \in Call : d # c => call'[d] = call[d]
    BY <1>6, CallMoves
  <2>3. \A d \in Call : d # c => call'[d].at = "free"
    BY <2>1, <2>2, OthersAreFree
  <2>4. call[c] = Filters(offset, limit, descending) /\ Covers(seen, offset)
    BY <1>6, <2>1 DEF PassedShown, Search
  <2>5. call[c].offset = offset /\ call[c].limit = limit /\ call[c].desc = descending
    BY <2>4 DEF Filters
  <2>6. call[c].limit <= MaxResultRows
    BY <1>0, <2>5 DEF PagesAreWhole
  <2>7. /\ call'[c].at = "answered" /\ call'[c].hasMore \in BOOLEAN
        /\ \A r \in table : offset <= place[r] /\ place[r] < offset + limit
                              => r \in call'[c].rows
        /\ call'[c].hasMore \/ \A r \in table : place[r] < offset + limit
    BY <1>0, <2>2, <2>5, <2>6, AnswerIsOnPage, AnswerIsWholePage
  <2>7a. \A r \in wanted : r \in table /\ place[r] = Place(table, r, descending)
    BY <1>0, <2>5, PlaceOfUntied
  <2>8. /\ \A r \in wanted :
             offset <= Place(table, r, descending)
               /\ Place(table, r, descending) < offset + limit
             => r \in call'[c].rows
        /\ call'[c].hasMore \/ \A r \in wanted : Place(table, r, descending) < offset + limit
    BY <2>7, <2>7a
  <2>9. Covers(seen \cup call'[c].rows, offset + limit)
    BY <1>0, <2>4, <2>8 DEF Covers
  <2>10. call'[c].hasMore \/ wanted \subseteq seen \cup call'[c].rows
    BY <1>0, <2>8, <2>9 DEF Covers
  <2>11. /\ call'[c].at = "answered" /\ InProgress' # {}
         /\ Covers(seen \cup call[c].rows, offset + limit)'
         /\ call'[c].hasMore \/ wanted' \subseteq seen' \cup call'[c].rows
    BY <2>1, <2>2, <2>7, <2>9, <2>10 DEF Covers, page, history
  <2> QED
    BY <2>3, <2>11 DEF PassedShown
<1>7. ASSUME NEW c \in Call, SearchFail(c) PROVE PassedShown'
  <2>1. smooth /\ UNCHANGED <<table, page, history>>
    BY <1>7 DEF SearchFail, history
  <2>2. /\ call'[c].at = "failed" /\ c \in InProgress /\ InProgress' = InProgress
        /\ \A d \in Call : d # c => call'[d] = call[d]
    BY <1>7, CallMoves
  <2>3. \A d \in Call : d # c => call'[d].at = "free"
    BY <2>1, <2>2, OthersAreFree
  <2> QED
    BY <2>1, <2>2, <2>3 DEF PassedShown
<1>8. ASSUME NEW c \in Call, Render(c) PROVE PassedShown'
  <2>1. smooth /\ UNCHANGED <<table, page, wanted>>
    BY <1>8 DEF Render
  <2>2. /\ call'[c].at = "free" /\ c \in InProgress /\ InProgress' = InProgress \ {c}
        /\ \A d \in Call : d # c => call'[d] = call[d]
    BY <1>8, CallMoves
  <2>3. \A d \in Call : call'[d].at = "free"
    BY <2>1, <2>2, OthersAreFree
  <2>4. /\ Covers(seen \cup call[c].rows, offset + limit)
        /\ call[c].hasMore \/ wanted \subseteq seen \cup call[c].rows
    BY <1>8, <2>1 DEF PassedShown, Render
  <2>5. seen' = seen \cup call[c].rows /\ nextDisabled' = ~call[c].hasMore
    BY <1>8, <2>1 DEF Render
  <2>6. Covers(seen, offset + limit)' /\ (nextDisabled' => wanted' \subseteq seen')
    BY <2>1, <2>4, <2>5 DEF Covers, page
  <2> QED
    BY <2>3, <2>6 DEF PassedShown
<1>9. ASSUME NEW c \in Call, RenderFail(c) PROVE FALSE
  BY <1>9 DEF RenderFail, NotSmooth
<1>10. CASE Insert \/ Delete
  <2>1. /\ smooth /\ UNCHANGED <<page, buttons, call, seen>>
        /\ wanted' \subseteq wanted
        /\ \A r \in wanted' : /\ Place(table', r, descending) \in Nat
                              /\ Place(table, r, descending) <= Place(table', r, descending)
    BY <1>10, WantedMoveOn
  <2>2. ASSUME NEW S, NEW n \in Nat, Covers(S, n)
        PROVE  \A r \in wanted' : Place(table', r, descending') < n => r \in S
    BY <1>0, <2>1, <2>2 DEF Covers, page
  <2>3. Covers(seen, offset) => Covers(seen, offset)'
    BY <1>0, <2>1, <2>2 DEF Covers, page
  <2>4. Covers(seen, offset + limit) => Covers(seen, offset + limit)'
    <3>1. offset + limit \in Nat
      BY <1>0
    <3> QED  BY <2>1, <2>2, <3>1 DEF Covers, page
  <2>5. ASSUME NEW c \in Call, Covers(seen \cup call[c].rows, offset + limit)
        PROVE  Covers(seen \cup call[c].rows, offset + limit)'
    <3>1. offset + limit \in Nat
      BY <1>0
    <3> QED  BY <2>1, <2>2, <2>5, <3>1 DEF Covers, page
  <2> QED
    BY <2>1, <2>3, <2>4, <2>5 DEF PassedShown, InProgress, page, buttons
<1> QED
  BY <1>2, <1>3, <1>4, <1>5, <1>6, <1>7, <1>8, <1>9, <1>10 DEF Next

(* Whoever pages on until Next is disabled has been shown every row that   *)
(* was there when the search began, still is and had its key alone         *)
(* meanwhile, with page sizes changed and steps back in between, rows      *)
(* inserted anywhere and rows of equal keys in another order for each      *)
(* query (app.js:486-520, clickhouse.py:145-180), if no choice of rows per *)
(* page is larger than clickhouse.max_result_rows.                         *)
THEOREM NoRowSkipped ==
  ASSUME PagesAreWhole
  PROVE  Spec => []NothingSkipped
<1>1. Init => OneRequest /\ PassedShown
  BY DEF Init, OneRequest, PassedShown
<1>2. PassedShown => NothingSkipped
  BY DEF PassedShown, NothingSkipped, AtEnd
<1>3. TypeOK /\ OneRequest /\ PassedShown /\ [Next]_vars => PassedShown'
  BY PassedShownStays
<1> QED
  BY <1>1, <1>2, <1>3, TypeCorrect, OneRequestStays, PTL DEF Spec
=============================================================================
