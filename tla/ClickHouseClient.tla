-------------------------- MODULE ClickHouseClient --------------------------
(***************************************************************************)
(* The ClickHouse client that the requests of one API process share        *)
(* (src/backend/app/database/clickhouse.py:88-105).                        *)
(*                                                                         *)
(* A query runs in a thread of the pool: the property `client` tests the   *)
(* attribute, builds a client if there is none, and reads the attribute    *)
(* again.  What follows a failure runs on the event loop, one request at a *)
(* time, but beside those threads.  A client is a name that is used again  *)
(* when nobody refers to it any more.                                      *)
(***************************************************************************)
EXTENDS Requests, Integers, FiniteSets

CONSTANTS Client,       \* names of clients
          NoClient,     \* None
          ClientFaults  \* {"clickhouse"}: ClickHouse may not answer

ASSUME ClientAssumption == /\ NoClient \notin Client
                           /\ ClientFaults \subseteq {"clickhouse"}

VARIABLES client,     \* _client
          closed,     \* clients that were closed and are still referred to
          at,         \* where each request is
          kind,       \* what it does about a failure
          holds,      \* the client its thread uses
          disturbed   \* ClickHouse failed it, or another request closed one
                      \* while it was under way

sharedVars == <<client, closed>>
clientVars == <<sharedVars, at, kind, holds, disturbed>>

(* "query": search, count, partitions and status close the client;         *)
(* "ping" of the health check swallows the exception; "alter" of           *)
(* set_retention answers 503 and leaves the client alone.                  *)
Kind == {"query", "ping", "alter"}

ClientInit == /\ client = NoClient
              /\ closed = {}
              /\ at = [r \in Request |-> "idle"]
              /\ kind = [r \in Request |-> "query"]
              /\ holds = [r \in Request |-> NoClient]
              /\ disturbed = [r \in Request |-> FALSE]

MoveTo(r, label) == at' = [at EXCEPT ![r] = label]

Closing == {r \in Request : at[r] \in {"closing", "unsetting"}}

(* The request is answered, its thread holds nothing. *)
Answered(r) == /\ MoveTo(r, "idle")
               /\ kind' = [kind EXCEPT ![r] = "query"]
               /\ holds' = [holds EXCEPT ![r] = NoClient]
               /\ disturbed' = [disturbed EXCEPT ![r] = FALSE]
               /\ closed' = closed \cap ({client} \cup {holds[q] : q \in Request \ {r}})

-----------------------------------------------------------------------------
(* run_in_threadpool(). *)
BeginQuery(r, k) == /\ at[r] = "idle"
                    /\ MoveTo(r, "testing")
                    /\ kind' = [kind EXCEPT ![r] = k]
                    /\ disturbed' = [disturbed EXCEPT ![r] = Closing # {}]
                    /\ UNCHANGED <<sharedVars, holds>>

TestClient(r) == /\ at[r] = "testing"
                 /\ MoveTo(r, IF client = NoClient THEN "building" ELSE "reading")
                 /\ UNCHANGED <<sharedVars, kind, holds, disturbed>>

Unused == Client \ ({client} \cup closed \cup {holds[q] : q \in Request})

(* build_client() connects; threads that found no client build one each,   *)
(* and the last one stays.                                                 *)
BuildClient(r) == /\ at[r] = "building"
                  /\ Unused # {}
                  /\ client' = CHOOSE c \in Unused : TRUE
                  /\ MoveTo(r, "reading")
                  /\ closed' = closed \cap {holds[q] : q \in Request}
                  /\ UNCHANGED <<kind, holds, disturbed>>

(* The second read of the attribute; the query of None raises. *)
ReadClient(r) == /\ at[r] = "reading"
                 /\ MoveTo(r, IF client = NoClient THEN "failed" ELSE "querying")
                 /\ holds' = [holds EXCEPT ![r] = client]
                 /\ UNCHANGED <<sharedVars, kind, disturbed>>

QueryOk(r) == /\ at[r] = "querying"
              /\ Answered(r)
              /\ UNCHANGED client

(* A client that was closed may still answer, or raise. *)
QueryOnClosedFails(r) == /\ at[r] = "querying"
                         /\ holds[r] \in closed
                         /\ MoveTo(r, "failed")
                         /\ UNCHANGED <<sharedVars, kind, holds, disturbed>>

(* ClickHouse refuses the connection, times out, or rejects the query. *)
ClickHouseFails(r) == /\ "clickhouse" \in ClientFaults
                      /\ at[r] \in {"building", "querying"}
                      /\ MoveTo(r, "failed")
                      /\ disturbed' = [disturbed EXCEPT ![r] = TRUE]
                      /\ UNCHANGED <<sharedVars, kind, holds>>

(* The except clauses that do not touch the client. *)
FailsOnly(r) == /\ at[r] = "failed"
                /\ kind[r] \in {"ping", "alter"}
                /\ Answered(r)
                /\ UNCHANGED client

(* The others call close(): it does nothing without a client ... *)
TestClose(r) == /\ at[r] = "failed"
                /\ kind[r] = "query"
                /\ Closing = {}
                /\ IF client = NoClient
                   THEN Answered(r)
                   ELSE MoveTo(r, "closing") /\ UNCHANGED <<closed, kind, holds, disturbed>>
                /\ UNCHANGED client

Disturb(r) == disturbed' = [q \in Request |-> disturbed[q] \/ (q # r /\ at[q] # "idle")]

(* ... closes the one that is there by now, which may be another ... *)
CloseClient(r) == /\ at[r] = "closing"
                  /\ closed' = closed \cup {client}
                  /\ MoveTo(r, "unsetting")
                  /\ Disturb(r)
                  /\ UNCHANGED <<client, kind, holds>>

(* Mutation: the attribute keeps the closed client. *)
UnsetNothing == UNCHANGED client

Unset == client' = NoClient

(* ... and unsets the attribute, be it the closed client or one that a     *)
(* thread has built since.                                                 *)
UnsetClient(r) == /\ at[r] = "unsetting"
                  /\ Unset
                  /\ MoveTo(r, "idle")
                  /\ kind' = [kind EXCEPT ![r] = "query"]
                  /\ holds' = [holds EXCEPT ![r] = NoClient]
                  /\ disturbed' = [q \in Request |-> q # r /\ (disturbed[q] \/ at[q] # "idle")]
                  /\ closed' = closed \cap ({client'} \cup {holds[q] : q \in Request \ {r}})

ClientStep(r) == \/ TestClient(r) \/ BuildClient(r) \/ ReadClient(r)
                 \/ QueryOk(r) \/ QueryOnClosedFails(r) \/ ClickHouseFails(r)
                 \/ FailsOnly(r) \/ TestClose(r) \/ CloseClient(r) \/ UnsetClient(r)

-----------------------------------------------------------------------------
ClientTypeOK ==
  /\ client \in Client \cup {NoClient}
  /\ closed \subseteq Client
  /\ at \in [Request -> {"idle", "testing", "building", "reading", "querying",
                         "failed", "closing", "unsetting"}]
  /\ kind \in [Request -> Kind]
  /\ holds \in [Request -> Client \cup {NoClient}]
  /\ disturbed \in [Request -> BOOLEAN]

(* A failure stays with the requests it meets: one that ClickHouse answers *)
(* and during which no other request closes the client does not fail, so   *)
(* that no closed client and no None is left for those to come             *)
(* (clickhouse.py:100-105).                                                *)
FailureContained == \A r \in Request : at[r] = "failed" => disturbed[r]
=============================================================================
