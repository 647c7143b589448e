----------------------------- MODULE RpcClient ------------------------------
(***************************************************************************)
(* A JSON-RPC call of the canister to the Bitcoin node: make_rpc and       *)
(* make_single_request of src/indexer/src/rpc.rs, the HTTPS outcall that   *)
(* every replica of the subnet makes for itself, and the proxy of          *)
(* src/bitcoin-rpc-proxy with its cache between them and the node.         *)
(*                                                                         *)
(* A reply longer than one outcall may be is fetched in byte ranges.  The  *)
(* proxy asks the node for the whole reply each time and cuts the range    *)
(* out, so between two ranges, or between two replicas, the reply may have *)
(* become another one (a "version" here).  An outcall succeeds only if     *)
(* enough replicas got the same response, which is what the cache is for.  *)
(*                                                                         *)
(* All calls here have the same method and parameters, so the cache key,   *)
(* a hash of the body and the range, is the range.  A body is abstracted   *)
(* to where it comes from: the version and the bytes first..first+size-1.  *)
(***************************************************************************)
EXTENDS Integers, Sequences, FiniteSets

CONSTANTS
  Replica,      \* the replicas of the subnet
  Agreement,    \* how many equal responses make an outcall succeed
  FirstLimit,   \* max_response_bytes of the call
  Limit,        \* MAX_RESPONSE_BYTES
  Sizes,        \* the lengths a reply of the node may have
  Capacity,     \* of the proxy's cache
  MaxVersion,   \* bound on the replies the node gives over time
  MaxLost,      \* bound on outcalls and forwardings that fail
  MaxCalls      \* bound on calls

ASSUME RpcAssumption ==
  /\ Replica # {} /\ IsFiniteSet(Replica)
  /\ Agreement \in 1..Cardinality(Replica) /\ 2 * Agreement > Cardinality(Replica)
  /\ FirstLimit \in Nat /\ FirstLimit >= 2
  /\ Limit \in Nat /\ Limit >= 2
  /\ Sizes \subseteq Nat \ {0}
  /\ Capacity \in Nat \ {0}
  /\ MaxVersion \in Nat \ {0} /\ MaxLost \in Nat /\ MaxCalls \in Nat

VARIABLES
  node,    \* the reply the node gives now: its version and its size
  cache,   \* entries of the proxy's cache, least recently used first
  task,    \* per replica, its outcall
  range,   \* make_rpc: the range asked for
  buf,     \* make_rpc: the bodies received
  retry,   \* make_single_request: failed attempts of this outcall
  phase,   \* "idle", "outcall", "ok" or "error"
  lost,    \* failures so far
  calls    \* calls so far

vars == <<node, cache, task, range, buf, retry, phase, lost, calls>>
client == <<range, buf, retry, phase, calls>>

Part(version, first, size) == [version |-> version, first |-> first, size |-> size]

(***************************************************************************)
(* What a replica gets: status, body and, for 206, the Content-Range.      *)
(* 0 is an outcall that failed without a response.                         *)
(***************************************************************************)
Response(status, part, end, total) ==
  [status |-> status, part |-> part, end |-> end, total |-> total]

NoPart == Part(0, 0, 0)
Failed == Response(0, NoPart, 0, 0)
ServerError == Response(500, NoPart, 0, 0)

Idle == [at |-> "idle", response |-> Failed]

-----------------------------------------------------------------------------
(* The proxy (bitcoin-rpc-proxy/src/main.rs and cache.rs).                 *)

(* Bug: the end of a range is exclusive.                                   *)
Bug_Forwarded(n, r) ==
  LET length == r[2] - r[1] + 1 IN
  IF n.size <= length
  THEN Response(200, Part(n.version, 0, n.size), 0, 0)
  ELSE IF r[1] > n.size THEN Failed
  ELSE Response(206, Part(n.version, r[1], (IF r[2] >= n.size THEN n.size ELSE r[2]) - r[1]),
                r[2], n.size)

(***************************************************************************)
(* forward: a reply that is no longer than the range is passed on whole as *)
(* 200, whatever status the node gave it; otherwise the range is cut out.  *)
(* Slicing from beyond the end of the reply panics, which drops the        *)
(* connection.                                                             *)
(***************************************************************************)
Forwarded(n, r) ==
  LET length == r[2] - r[1] + 1 IN
  IF n.size <= length
  THEN Response(200, Part(n.version, 0, n.size), 0, 0)
  ELSE IF r[1] > n.size THEN Failed
  ELSE Response(206, Part(n.version, r[1], (IF r[2] >= n.size THEN n.size ELSE r[2] + 1) - r[1]),
                r[2], n.size)

Entries(map, key) == {i \in DOMAIN map : map[i].key = key}

Without(map, i) == [j \in 1..Len(map) - 1 |-> map[IF j < i THEN j ELSE j + 1]]

Entry(map, key) == CHOOSE i \in Entries(map, key) : TRUE

(* LinkedHashMap::insert: the entry goes to the back, in place of another. *)
Inserted(map, key, response) ==
  Append(IF Entries(map, key) = {} THEN map ELSE Without(map, Entry(map, key)),
         [key |-> key, response |-> response])

(* get_refresh: the entry becomes the most recently used one.              *)
Refreshed(map, key) == Inserted(map, key, map[Entry(map, key)].response)

(* Bug: the capacity is exceeded by one.                                   *)
Bug_Cached(map, key, response) ==
  Inserted(IF Len(map) > Capacity THEN Without(map, 1) ELSE map, key, response)

(***************************************************************************)
(* put: a full cache loses its oldest entry, also if the key is there.     *)
(***************************************************************************)
Cached(map, key, response) ==
  Inserted(IF Len(map) >= Capacity THEN Without(map, 1) ELSE map, key, response)

(***************************************************************************)
(* A request has arrived: it is answered from the cache or passed on.      *)
(***************************************************************************)
LookUp(r) ==
  /\ task[r].at = "lookup"
  /\ \/ /\ Entries(cache, range) # {}
        /\ cache' = Refreshed(cache, range)
        /\ task' = [task EXCEPT ![r] =
             [at |-> "answered", response |-> cache[Entry(cache, range)].response]]
     \/ /\ Entries(cache, range) = {}
        /\ task' = [task EXCEPT ![r].at = "fetch"]
        /\ UNCHANGED cache
  /\ UNCHANGED <<node, client, lost>>

(* Bug: a response that is no response is cached, too.                     *)
Bug_Fetch(r) ==
  /\ task[r].at = "fetch"
  /\ task' = [task EXCEPT ![r] = [at |-> "store", response |-> Forwarded(node, range)]]
  /\ UNCHANGED <<node, cache, client, lost>>

(***************************************************************************)
(* The node has answered the proxy.                                        *)
(***************************************************************************)
Fetch(r) ==
  /\ task[r].at = "fetch"
  /\ LET response == Forwarded(node, range) IN
     task' = [task EXCEPT ![r] =
       [at |-> IF response = Failed THEN "answered" ELSE "store", response |-> response]]
  /\ UNCHANGED <<node, cache, client, lost>>

(***************************************************************************)
(* proxy::call failed: 500, which is not cached.                           *)
(***************************************************************************)
FetchFails(r) ==
  /\ task[r].at = "fetch"
  /\ lost < MaxLost /\ lost' = lost + 1
  /\ task' = [task EXCEPT ![r] = [at |-> "answered", response |-> ServerError]]
  /\ UNCHANGED <<node, cache, client>>

(* Bug: the response is not cached.                                        *)
Bug_Store(r) ==
  /\ task[r].at = "store"
  /\ task' = [task EXCEPT ![r].at = "answered"]
  /\ UNCHANGED <<node, cache, client, lost>>

(***************************************************************************)
(* A success goes into the cache, after the wait for its lock, and then    *)
(* back to the replica.                                                    *)
(***************************************************************************)
Store(r) ==
  /\ task[r].at = "store"
  /\ cache' = Cached(cache, range, task[r].response)
  /\ task' = [task EXCEPT ![r].at = "answered"]
  /\ UNCHANGED <<node, client, lost>>

-----------------------------------------------------------------------------
(* The canister.                                                           *)

Outcalls == [r \in Replica |-> [at |-> "lookup", response |-> Failed]]

(***************************************************************************)
(* make_rpc begins.                                                        *)
(***************************************************************************)
Call ==
  /\ phase # "outcall"
  /\ calls < MaxCalls /\ calls' = calls + 1
  /\ range' = <<0, FirstLimit - 1>>
  /\ buf' = <<>> /\ retry' = 0 /\ phase' = "outcall"
  /\ task' = Outcalls
  /\ UNCHANGED <<node, cache, lost>>

(***************************************************************************)
(* A replica's own outcall fails before it reaches the proxy.              *)
(***************************************************************************)
Lose(r) ==
  /\ task[r].at = "lookup"
  /\ lost < MaxLost /\ lost' = lost + 1
  /\ task' = [task EXCEPT ![r] = [at |-> "answered", response |-> Failed]]
  /\ UNCHANGED <<node, cache, client>>

AllAnswered == phase = "outcall" /\ \A r \in Replica : task[r].at = "answered"

Agreed(x) == Cardinality({r \in Replica : task[r].response = x}) >= Agreement

Responses == {task[r].response : r \in Replica}

(* Bug: the next range begins with the last byte received.                 *)
Bug_Split(end, total) ==
  LET start == end IN
  <<start, IF start + Limit >= total THEN total - 1 ELSE start + Limit - 1>>

(***************************************************************************)
(* split: the range after the one that ends in "end".                      *)
(***************************************************************************)
Split(end, total) ==
  LET start == end + 1 IN
  <<start, IF start + Limit >= total THEN total - 1 ELSE start + Limit - 1>>

Received(b) == IF b = <<>> THEN 0 ELSE b[Len(b)].first + b[Len(b)].size

Contiguous(b) ==
  \A i \in DOMAIN b :
    b[i].version = b[1].version
      /\ b[i].first = (IF i = 1 THEN 0 ELSE b[i-1].first + b[i-1].size)

(***************************************************************************)
(* Does the reply parse?  It does if all of it is there, but for the last  *)
(* byte at most: bitcoind ends its replies in a line feed.  Parts of       *)
(* several replies put together may parse or not.                          *)
(***************************************************************************)
Outcomes(b, total) ==
  IF \E i \in DOMAIN b : b[i] = NoPart THEN {"error"}
  ELSE IF \E i \in DOMAIN b : b[i].version # b[1].version THEN {"ok", "error"}
  ELSE IF Contiguous(b) /\ total - Received(b) <= 1 THEN {"ok"} ELSE {"error"}

(***************************************************************************)
(* The outcall succeeded.  200 is the whole reply; 206 goes on with the    *)
(* next range until that is one byte or none; anything else ends the call. *)
(***************************************************************************)
Got(x) ==
  LET b == Append(buf, x.part)
      next == Split(x.end, x.total)
      more == x.status = 206 /\ next[1] < next[2]
      total == IF x.status = 206 THEN x.total ELSE x.part.size
  IN
  /\ AllAnswered /\ x.status # 0 /\ Agreed(x)
  /\ buf' = b
  /\ IF more
     THEN range' = next /\ retry' = 0 /\ phase' = "outcall" /\ task' = Outcalls
     ELSE /\ phase' \in Outcomes(b, total)
          /\ task' = [r \in Replica |-> Idle]
          /\ range' = IF x.status = 206 THEN next ELSE range
          /\ UNCHANGED retry
  /\ UNCHANGED <<node, cache, lost, calls>>

(***************************************************************************)
(* The outcall failed, for want of agreement or of responses: it is made   *)
(* again, at most three times.                                             *)
(***************************************************************************)
Again ==
  /\ AllAnswered
  /\ \A x \in Responses : x.status # 0 => ~ Agreed(x)
  /\ retry' = retry + 1
  /\ IF retry' > 3
     THEN phase' = "error" /\ task' = [r \in Replica |-> Idle]
     ELSE phase' = phase /\ task' = Outcalls
  /\ UNCHANGED <<node, cache, range, buf, lost, calls>>

(***************************************************************************)
(* The node's reply becomes another one: a block arrives, or leaves.       *)
(***************************************************************************)
NodeMoves ==
  /\ node.version < MaxVersion
  /\ \E size \in Sizes : node' = [version |-> node.version + 1, size |-> size]
  /\ UNCHANGED <<cache, task, client, lost>>

-----------------------------------------------------------------------------
Init ==
  /\ \E size \in Sizes : node = [version |-> 1, size |-> size]
  /\ cache = <<>>
  /\ task = [r \in Replica |-> Idle]
  /\ range = <<0, FirstLimit - 1>> /\ buf = <<>> /\ retry = 0
  /\ phase = "idle" /\ lost = 0 /\ calls = 0

Outcall(r) == LookUp(r) \/ Fetch(r) \/ FetchFails(r) \/ Store(r) \/ Lose(r)

Answer == Again \/ \E x \in Responses : Got(x)

Next ==
  \/ Call
  \/ \E r \in Replica : Outcall(r)
  \/ Answer
  \/ NodeMoves

Spec == Init /\ [][Next]_vars

-----------------------------------------------------------------------------
(* Properties.                                                             *)

PartType == [version : Nat, first : Nat, size : Nat]
ResponseType == [status : {0, 200, 206, 500}, part : PartType, end : Nat, total : Nat]
TaskType ==
  [at : {"idle", "lookup", "fetch", "store", "answered"}, response : ResponseType]

TypeOK ==
  /\ node.version \in 1..MaxVersion /\ node.size \in Sizes
  /\ cache \in Seq([key : Nat \X Nat, response : ResponseType])
  /\ \A i \in DOMAIN cache : cache[i].response.status \in {200, 206}
  /\ task \in [Replica -> TaskType]
  /\ \A r \in Replica : task[r].at = "store" => task[r].response.status \in {200, 206}
  /\ range \in Nat \X Nat
  /\ buf \in Seq(PartType)
  /\ retry \in 0..4
  /\ phase \in {"idle", "outcall", "ok", "error"}
  /\ phase = "outcall" => retry <= 3 /\ range[1] < range[2]
  /\ lost \in 0..MaxLost /\ calls \in 0..MaxCalls

(***************************************************************************)
(* While the node's reply stays the same, the ranges received follow one   *)
(* another without gap or overlap up to the one asked for, and a call that *)
(* succeeds has all of the reply but for its last byte at most             *)
(* (split, and the loop of make_rpc that stops at a range of one byte).    *)
(***************************************************************************)
Gapless ==
  node.version = 1 =>
    /\ phase = "outcall" => Contiguous(buf) /\ Received(buf) = range[1]
    /\ phase = "ok" => Contiguous(buf) /\ node.size - Received(buf) \in {0, 1}

(***************************************************************************)
(* A reply that stays the same is received, whatever its size, when no     *)
(* outcall fails.                                                          *)
(***************************************************************************)
UnchangingReplyReceived == node.version = 1 /\ lost = 0 => phase # "error"

(***************************************************************************)
(* The cache makes the replicas agree: when they got different replies     *)
(* because the node's changed while they asked, all of them get the one    *)
(* stored last at the next attempt (forward, put and the retries of        *)
(* make_single_request; the first range cannot lie beyond a reply).        *)
(***************************************************************************)
RetryAgrees == lost = 0 /\ range[1] = 0 => retry <= 1

(***************************************************************************)
(* The cache never holds more than its capacity, nor a key twice, however  *)
(* the puts of the replicas' requests interleave (MemoryCache::put).       *)
(***************************************************************************)
CacheBounded ==
  /\ Len(cache) <= Capacity
  /\ \A i, j \in DOMAIN cache : cache[i].key = cache[j].key => i = j
=============================================================================
