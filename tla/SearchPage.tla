---------------------------- MODULE SearchPage ----------------------------
(***************************************************************************)
(* The search page: the pager of the browser                               *)
(* (src/frontend/assets/app.js:246-270,486-520), the search endpoint       *)
(* (src/backend/app/api/search_api.py:107-130) and the query of one page   *)
(* (src/backend/app/database/clickhouse.py:145-180), over a table that     *)
(* workers insert into and the TTL deletes from.                           *)
(*                                                                         *)
(* A row has a key, its value in the sorted column: ORDER BY names that    *)
(* column alone, so each query puts rows of equal keys in an order of its  *)
(* own.  The filters stay what they are.  An event handler runs to its     *)
(* await; the requests of several clicks may be in progress together, and  *)
(* are answered in any order.                                              *)
(***************************************************************************)
EXTENDS Integers, FiniteSets, Functions

CONSTANTS Row,             \* the rows that match the filters, at some time
          Key,             \* what a row has in the sorted column
          Limits,          \* the choices of rows per page
          MaxResultRows,   \* clickhouse.max_result_rows
          Call,            \* requests that may be in progress together
          MaxOffset,       \* bound on the offsets that are asked for
          Faults           \* the failures that may happen

ASSUME SearchAssumption ==
         /\ IsFiniteSet(Row) /\ Key \in [Row -> Int]
         /\ Limits \subseteq Nat \ {0} /\ IsFiniteSet(Limits) /\ Limits # {}
         /\ MaxResultRows \in Nat \ {0} /\ MaxOffset \in Nat
         /\ Faults \subseteq {"answer",  \* ClickHouse, the API or the network fails
                              "delete"}  \* rows are deleted, the oldest first

VARIABLES table,             \* rows in ClickHouse
          offset, limit,     \* state.offset, state.limit
          descending,        \* state.descending
          searchDisabled,    \* the buttons
          prevDisabled, nextDisabled, pagerHidden,
          call,              \* the requests in progress
          smooth,  \* history: since the last new search no request failed or
                   \* was sent beside another
          still,   \* history: nor did the table change or was Prev used
          wanted,  \* history: rows that were in the table then and still are,
                   \* with a key that no other row has had in the meantime
          seen, again  \* history: rows shown since then, and shown twice

page == <<offset, limit, descending>>
buttons == <<searchDisabled, prevDisabled, nextDisabled, pagerHidden>>
history == <<smooth, still, wanted, seen, again>>
vars == <<table, page, buttons, call, history>>

Twins(r) == {x \in Row \ {r} : Key[x] = Key[r]}

(* The rows whose place the order of the sorted column does not fix. *)
Tied == {r \in table : Twins(r) \cap table # {}}

Free == [at |-> "free"]
InProgress == {c \in Call : call[c] # Free}

Init == /\ table \in SUBSET Row
        /\ offset = 0 /\ limit \in Limits /\ descending = TRUE
        /\ searchDisabled = FALSE /\ prevDisabled = FALSE /\ nextDisabled = FALSE
        /\ pagerHidden = TRUE
        /\ call = [c \in Call |-> Free]
        /\ smooth = FALSE /\ still = FALSE
        /\ wanted = {} /\ seen = {} /\ again = {}

-----------------------------------------------------------------------------
(* collectFilters, of which the page's place and order are kept: what the  *)
(* fields and the preset select are the rows of Row.                       *)
Filters(off, lim, desc) == [at |-> "sent", offset |-> off, limit |-> lim, desc |-> desc]

(* runSearch up to the await of api(): the request carries the state. *)
RunSearch(off, desc) ==
  /\ offset' = off /\ descending' = desc
  /\ limit' \in Limits
  /\ searchDisabled' = TRUE
  /\ \E c \in Call :
       /\ call[c] = Free
       /\ call' = [call EXCEPT ![c] = Filters(off, limit', desc)]
  /\ UNCHANGED <<table, prevDisabled, nextDisabled, pagerHidden>>

(* What is remembered is of a smooth search. *)
NotSmooth == /\ smooth' = FALSE /\ still' = FALSE
             /\ wanted' = {} /\ seen' = {} /\ again' = {}

(* A new search, by the button, Enter in a field, or a click on a column's *)
(* head: that turns the order of the column, or takes a new one.           *)
NewSearch == /\ \/ RunSearch(0, descending)
                \/ RunSearch(0, ~descending)
             /\ IF InProgress = {}
                THEN /\ smooth' = TRUE /\ still' = TRUE
                     /\ wanted' = table \ Tied /\ seen' = {} /\ again' = {}
                ELSE NotSmooth

(* Mutation: the next page starts with the last row of this one. *)
NextPageOverlaps == /\ ~pagerHidden /\ ~nextDisabled
                    /\ offset + limit <= MaxOffset
                    /\ RunSearch(offset + limit - 1, descending)
                    /\ IF InProgress = {} THEN UNCHANGED history ELSE NotSmooth

(* onclick of page-next. *)
NextPage == /\ ~pagerHidden /\ ~nextDisabled
            /\ offset + limit <= MaxOffset
            /\ RunSearch(offset + limit, descending)
            /\ IF InProgress = {} THEN UNCHANGED history ELSE NotSmooth

(* onclick of page-prev. *)
PrevPage == /\ ~pagerHidden /\ ~prevDisabled
            /\ RunSearch(IF offset > limit THEN offset - limit ELSE 0, descending)
            /\ IF InProgress = {}
               THEN /\ still' = FALSE /\ again' = {}
                    /\ UNCHANGED <<smooth, wanted, seen>>
               ELSE NotSmooth

(* onclick of clear-filters: the results go, the state stays. *)
Clear == /\ pagerHidden' = TRUE
         /\ UNCHANGED <<table, page, searchDisabled, prevDisabled, nextDisabled, call, history>>

-----------------------------------------------------------------------------
Earlier(x, y, desc) == IF desc THEN Key[x] > Key[y] ELSE Key[x] < Key[y]

(* ORDER BY order_column direction: the places a query may give the rows;  *)
(* rows of equal keys take theirs in any order, another for each query.    *)
Orders(desc) ==
  {place \in Bijection(table, 0 .. Cardinality(table) - 1) :
     \A x, y \in table : Earlier(x, y, desc) => place[x] < place[y]}

(* Mutation: no extra row is fetched. *)
FetchedExactly(q, place) ==
  LET n == IF q.limit < MaxResultRows THEN q.limit ELSE MaxResultRows
  IN {r \in table : place[r] \in q.offset .. q.offset + n - 1}

(* LIMIT min(limit, max_result_rows) + 1 OFFSET offset *)
Fetched(q, place) ==
  LET n == (IF q.limit < MaxResultRows THEN q.limit ELSE MaxResultRows) + 1
  IN {r \in table : place[r] \in q.offset .. q.offset + n - 1}

(* Mutation: the extra row is shown. *)
AnswerUntrimmed(q, place) ==
  LET rows == Fetched(q, place)
  IN [at |-> "answered", hasMore |-> Cardinality(rows) > q.limit, rows |-> rows]

(* search(): the row beyond the page tells that there is more. *)
Answer(q, place) ==
  LET rows == Fetched(q, place)
      hasMore == Cardinality(rows) > q.limit
  IN [at |-> "answered", hasMore |-> hasMore,
      rows |-> IF hasMore THEN {r \in rows : place[r] < q.offset + q.limit} ELSE rows]

Search(c) == /\ call[c].at = "sent"
             /\ \E place \in Orders(call[c].desc) :
                  call' = [call EXCEPT ![c] = Answer(@, place)]
             /\ UNCHANGED <<table, page, buttons, history>>

(* A status 4xx or 5xx, or no response. *)
SearchFail(c) == /\ "answer" \in Faults
                 /\ call[c].at = "sent"
                 /\ call' = [call EXCEPT ![c] = [at |-> "failed"]]
                 /\ UNCHANGED <<table, page, buttons, history>>

(* runSearch after the await: the rows are shown, the buttons set from the *)
(* answer and from what state.offset is by now.                            *)
Render(c) == /\ call[c].at = "answered"
             /\ pagerHidden' = (call[c].rows = {} /\ offset = 0)
             /\ prevDisabled' = (offset = 0)
             /\ nextDisabled' = ~call[c].hasMore
             /\ searchDisabled' = FALSE
             /\ call' = [call EXCEPT ![c] = Free]
             /\ seen' = IF smooth THEN seen \cup call[c].rows ELSE {}
             /\ again' = IF still THEN again \cup (seen \cap call[c].rows) ELSE {}
             /\ UNCHANGED <<table, page, smooth, still, wanted>>

(* Mutation: the button is not enabled in a finally. *)
RenderFailOnly(c) == /\ call[c].at = "failed"
                     /\ call' = [call EXCEPT ![c] = Free]
                     /\ NotSmooth
                     /\ UNCHANGED <<table, page, buttons>>

(* catch and finally: only the message and the search button change. *)
RenderFail(c) == /\ call[c].at = "failed"
                 /\ searchDisabled' = FALSE
                 /\ call' = [call EXCEPT ![c] = Free]
                 /\ NotSmooth
                 /\ UNCHANGED <<table, page, prevDisabled, nextDisabled, pagerHidden>>

-----------------------------------------------------------------------------
(* A worker inserts a row, new or late: anywhere in the order. *)
Insert == /\ \E r \in Row \ table : /\ table' = table \cup {r}
                                      /\ wanted' = wanted \ Twins(r)
          /\ still' = FALSE /\ again' = {}
          /\ UNCHANGED <<page, buttons, call, smooth, seen>>

(* An oldest row is deleted; if the oldest come first, later rows move to *)
(* places the pager has passed.                                            *)
Delete == /\ "delete" \in Faults
          /\ \E r \in table :
               /\ \A x \in table : Key[r] <= Key[x]
               /\ table' = table \ {r}
               /\ IF smooth /\ descending
                  THEN /\ still' = FALSE /\ again' = {}
                       /\ wanted' = wanted \ {r}
                       /\ UNCHANGED <<smooth, seen>>
                  ELSE NotSmooth
          /\ UNCHANGED <<page, buttons, call>>

Next == \/ NewSearch \/ NextPage \/ PrevPage \/ Clear
        \/ \E c \in Call : Search(c) \/ SearchFail(c) \/ Render(c) \/ RenderFail(c)
        \/ Insert \/ Delete

Spec == Init /\ [][Next]_vars

(* A request is answered or fails, and the browser runs the continuation. *)
FairSpec == /\ Spec
            /\ \A c \in Call : WF_vars(Search(c) \/ SearchFail(c))
                               /\ WF_vars(Render(c) \/ RenderFail(c))

-----------------------------------------------------------------------------
Query == [at : {"sent"}, offset : 0..MaxOffset, limit : Limits, desc : BOOLEAN]
Reply == [at : {"answered"}, hasMore : BOOLEAN, rows : SUBSET Row]

(* The variables' ranges; a call is one of the four kinds of record, and   *)
(* an answer has no more rows than one page.                               *)
TypeOK ==
  /\ table \subseteq Row
  /\ offset \in 0..MaxOffset /\ limit \in Limits
  /\ buttons \in BOOLEAN \X BOOLEAN \X BOOLEAN \X BOOLEAN
  /\ call \in [Call -> [at : {"free", "failed"}] \cup Query \cup Reply]
  /\ \A c \in Call :
       call[c].at = "answered" => \E l \in Limits : Cardinality(call[c].rows) <= l
  /\ descending \in BOOLEAN /\ smooth \in BOOLEAN /\ still \in BOOLEAN
  /\ wanted \subseteq table \ Tied
  /\ again \subseteq seen /\ seen \subseteq Row
  /\ still => smooth

(* The page says there is no further one: Next cannot be used. *)
AtEnd == smooth /\ InProgress = {} /\ ~pagerHidden /\ nextDisabled

(* Whoever pages on until Next is disabled, in whatever sizes and with     *)
(* steps back, has been shown every row that was there when the search     *)
(* began and still is, though rows are inserted before, on and after the   *)
(* page all the while.  Excepted are rows that another row had the key of  *)
(* meanwhile: each query orders those anew, and the edge of a page may     *)
(* pass them over.  So are searches one of whose requests failed or        *)
(* overlapped another, and deletions in ascending order.                   *)
NothingSkipped == AtEnd => wanted \subseteq seen

(* While the table does not change, no row is on two pages but those that  *)
(* share their key with another.                                           *)
NothingTwice == still => again \subseteq Tied

(* A request that fails, or that others overtake, does not leave the       *)
(* search button disabled.                                                 *)
SearchButtonReturns == searchDisabled ~> ~searchDisabled
=============================================================================
