----------------------------- MODULE AllowList -----------------------------
(***************************************************************************)
(* The router allow-list: the routers table of SQLite, the Redis set the   *)
(* API publishes from it, and the set each receiver process tests sender   *)
(* addresses against (src/backend/app/api/routers_api.py:38-114,           *)
(* src/backend/app/services/receiver.py:45-114, src/backend/app/cli.py:84).*)
(*                                                                         *)
(* The API runs in several processes and each interleaves requests at its  *)
(* awaits, so a request is three steps: commit its change, read the table, *)
(* publish.  A receiver's refresh is an SMEMBERS, what it does with the    *)
(* reply, and in the fallback a publication of its own.                    *)
(***************************************************************************)
EXTENDS Integers, FiniteSets, Requests

CONSTANTS Ip,           \* router addresses
          Receiver,     \* receiver processes
          MaxEdits,     \* bound on the changes of the table
          Cli,          \* routers are also added with the command line
          RouterFaults  \* the failures that may happen

ASSUME AllowListAssumption ==
         /\ MaxEdits \in Nat
         /\ Cli \in BOOLEAN
         /\ RouterFaults \subseteq {"publish",  \* the API's or a receiver's MULTI fails
                                    "members",  \* SMEMBERS fails
                                    "sqlite",   \* a receiver cannot read the table
                                    "restart"}  \* an API process or a receiver restarts

VARIABLES table,    \* addresses of the enabled routers in SQLite
          edits,    \* changes so far
          redis,    \* the set nls:authorized_routers; {} is no key
          at, ips,  \* of a request: its step, and the addresses it read
          rpc,      \* of a receiver: the step of refresh()
          reply,    \* what SMEMBERS returned, {} if it failed
          fetched,  \* the addresses the fallback read
          allowed   \* _ips

tableVars == <<table, edits>>
requestVars == <<at, ips>>
receiverVars == <<rpc, reply, fetched, allowed>>
allowListVars == <<table, edits, redis, at, ips, rpc, reply, fetched, allowed>>

AllowListInit == /\ table \in SUBSET Ip
                 /\ edits = 0
                 /\ redis \in {{}, table}
                 /\ at = [r \in Request |-> "idle"]
                 /\ ips = [r \in Request |-> {}]
                 /\ rpc = [v \in Receiver |-> "sleep"]
                 /\ reply = [v \in Receiver |-> {}]
                 /\ fetched = [v \in Receiver |-> {}]
                 /\ allowed = [v \in Receiver |-> {}]

-----------------------------------------------------------------------------
(* One row is added, deleted, enabled, disabled or given another address.  *)
Edit == /\ edits < MaxEdits
        /\ edits' = edits + 1
        /\ \E off, on \in SUBSET Ip :
             /\ Cardinality(off) <= 1 /\ Cardinality(on) <= 1
             /\ table' = (table \ off) \cup on
        /\ table' # table

(* add_router, update_router, delete_router up to the call of             *)
(* sync_allow_list.                                                        *)
EditRouter(r) == /\ at[r] = "idle"
                 /\ Edit
                 /\ at' = [at EXCEPT ![r] = "read"]
                 /\ UNCHANGED <<redis, ips, receiverVars>>

(* An API process starts: sync_allow_list_startup. *)
ApiStart(r) == /\ "restart" \in RouterFaults
               /\ at[r] = "idle"
               /\ at' = [at EXCEPT ![r] = "read"]
               /\ UNCHANGED <<tableVars, redis, ips, receiverVars>>

(* cmd_add_router does not publish. *)
CliAddRouter == /\ Cli
                /\ edits < MaxEdits
                /\ edits' = edits + 1
                /\ \E ip \in Ip \ table : table' = table \cup {ip}
                /\ UNCHANGED <<redis, requestVars, receiverVars>>

ReadTable(r) == /\ at[r] = "read"
                /\ ips' = [ips EXCEPT ![r] = table]
                /\ at' = [at EXCEPT ![r] = "publish"]
                /\ UNCHANGED <<tableVars, redis, receiverVars>>

(* The transaction of DEL and SADD runs, or raises: run or not, the         *)
(* exception is logged.                                                    *)
Publish(r) == /\ at[r] = "publish"
              /\ \/ redis' = ips[r]
                 \/ "publish" \in RouterFaults /\ UNCHANGED redis
              /\ at' = [at EXCEPT ![r] = "idle"]
              /\ ips' = [ips EXCEPT ![r] = {}]
              /\ UNCHANGED <<tableVars, receiverVars>>

-----------------------------------------------------------------------------
(* refresh(): the SMEMBERS. *)
Members(v) == /\ rpc[v] = "sleep"
              /\ rpc' = [rpc EXCEPT ![v] = "reply"]
              /\ \/ reply' = [reply EXCEPT ![v] = redis]
                 \/ "members" \in RouterFaults /\ reply' = [reply EXCEPT ![v] = {}]
              /\ UNCHANGED <<tableVars, redis, requestVars, fetched, allowed>>

(* The reply has members: they become the receiver's set. *)
UseReply(v) == /\ rpc[v] = "reply"
               /\ reply[v] # {}
               /\ allowed' = [allowed EXCEPT ![v] = reply[v]]
               /\ reply' = [reply EXCEPT ![v] = {}]
               /\ rpc' = [rpc EXCEPT ![v] = "sleep"]
               /\ UNCHANGED <<tableVars, redis, requestVars, fetched>>

(* Mutation: an empty or missing set is taken as it is. *)
FallBackNot(v) == /\ rpc[v] = "reply"
                  /\ reply[v] = {}
                  /\ allowed' = [allowed EXCEPT ![v] = {}]
                  /\ rpc' = [rpc EXCEPT ![v] = "sleep"]
                  /\ UNCHANGED <<tableVars, redis, requestVars, reply, fetched>>

(* Mutation: the receiver publishes the set it has. *)
FallBackOwn(v) == /\ rpc[v] = "reply"
                  /\ reply[v] = {}
                  /\ fetched' = [fetched EXCEPT ![v] = allowed[v]]
                  /\ rpc' = [rpc EXCEPT ![v] = "publish"]
                  /\ UNCHANGED <<tableVars, redis, requestVars, reply, allowed>>

(* It has none, or there is no reply: read the table, to publish it.       *)
FallBack(v) == /\ rpc[v] = "reply"
               /\ reply[v] = {}
               /\ fetched' = [fetched EXCEPT ![v] = table]
               /\ rpc' = [rpc EXCEPT ![v] = "publish"]
               /\ UNCHANGED <<tableVars, redis, requestVars, reply, allowed>>

(* The table cannot be read: the set stays as it is. *)
FallBackFails(v) == /\ "sqlite" \in RouterFaults
                    /\ rpc[v] = "reply"
                    /\ reply[v] = {}
                    /\ rpc' = [rpc EXCEPT ![v] = "sleep"]
                    /\ UNCHANGED <<tableVars, redis, requestVars, reply, fetched, allowed>>

(* _publish(), which ignores exceptions; then the set is replaced. *)
PublishFetched(v) == /\ rpc[v] = "publish"
                     /\ \/ redis' = fetched[v]
                        \/ "publish" \in RouterFaults /\ UNCHANGED redis
                     /\ allowed' = [allowed EXCEPT ![v] = fetched[v]]
                     /\ fetched' = [fetched EXCEPT ![v] = {}]
                     /\ rpc' = [rpc EXCEPT ![v] = "sleep"]
                     /\ UNCHANGED <<tableVars, requestVars, reply>>

(* Mutation: what a refresh had read before the restart is still there. *)
RestartKeeps(v) == /\ "restart" \in RouterFaults
                   /\ rpc' = [rpc EXCEPT ![v] = "sleep"]
                   /\ allowed' = [allowed EXCEPT ![v] = {}]
                   /\ UNCHANGED <<tableVars, redis, requestVars, reply, fetched>>

(* The process is killed and started again; it serves after a refresh.     *)
Restart(v) == /\ "restart" \in RouterFaults
              /\ rpc' = [rpc EXCEPT ![v] = "sleep"]
              /\ reply' = [reply EXCEPT ![v] = {}]
              /\ fetched' = [fetched EXCEPT ![v] = {}]
              /\ allowed' = [allowed EXCEPT ![v] = {}]
              /\ UNCHANGED <<tableVars, redis, requestVars>>

-----------------------------------------------------------------------------
RequestStep(r) == EditRouter(r) \/ ApiStart(r) \/ ReadTable(r) \/ Publish(r)
Refresh(v) == Members(v) \/ UseReply(v) \/ FallBack(v) \/ PublishFetched(v)

AllowListNext == \/ \E r \in Request : RequestStep(r)
                 \/ CliAddRouter
                 \/ \E v \in Receiver : Refresh(v) \/ FallBackFails(v) \/ Restart(v)

AllowListSpec == AllowListInit /\ [][AllowListNext]_allowListVars

(* A request that changed the table comes to its end; a receiver refreshes *)
(* every router_refresh_seconds, and neither fails nor restarts each time. *)
FairAllowList == /\ AllowListSpec
                 /\ \A r \in Request : WF_allowListVars(ReadTable(r)) /\ WF_allowListVars(Publish(r))
                 /\ \A v \in Receiver : /\ SF_allowListVars(Members(v)) /\ SF_allowListVars(UseReply(v))
                                        /\ SF_allowListVars(FallBack(v)) /\ SF_allowListVars(PublishFetched(v))

-----------------------------------------------------------------------------
(* Types, and that nothing read by one request or refresh is left for the  *)
(* next: ips, the reply and the fetched addresses live from the read to    *)
(* the use (receiver.py:65-84, routers_api.py:38-50).                      *)
AllowListTypeOK == /\ table \subseteq Ip
                   /\ edits \in 0..MaxEdits
                   /\ redis \subseteq Ip
                   /\ at \in [Request -> {"idle", "read", "publish"}]
                   /\ ips \in [Request -> SUBSET Ip]
                   /\ rpc \in [Receiver -> {"sleep", "reply", "publish"}]
                   /\ reply \in [Receiver -> SUBSET Ip]
                   /\ fetched \in [Receiver -> SUBSET Ip]
                   /\ allowed \in [Receiver -> SUBSET Ip]
                   /\ \A r \in Request : at[r] # "publish" => ips[r] = {}
                   /\ \A v \in Receiver : /\ rpc[v] # "reply" => reply[v] = {}
                                          /\ rpc[v] # "publish" => fetched[v] = {}

(* Whoever is about to publish holds the table as it is. *)
Current == /\ \A r \in Request : at[r] = "publish" => ips[r] = table
           /\ \A v \in Receiver : rpc[v] = "publish" => fetched[v] = table

(* The cache shows the table, or is empty so that receivers read the table.*)
CacheGood == redis \in {table, {}}

(* Once the cache is good and every publication under way is current, only *)
(* a change of the table can make it stale: no refresh, restart, failure   *)
(* or publication that interleaves otherwise undoes it.                    *)
GoodCacheStays ==
  [][CacheGood /\ Current /\ table' = table => CacheGood' /\ Current']_allowListVars

(* From then on every receiver comes to use the table, with Redis up or    *)
(* down (receiver.py:72-74), until the next change of the table.           *)
RefreshCatchesUp ==
  \A v \in Receiver :
    (CacheGood /\ Current) ~> (allowed[v] = table \/ ~(CacheGood /\ Current))
=============================================================================
