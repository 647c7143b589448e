-------------------------- MODULE RpcClientProofs ---------------------------
(***************************************************************************)
(* The invariants of RpcClient.tla hold for every number of replicas, any  *)
(* sizes of the replies, any limits and any capacity of the cache.         *)
(***************************************************************************)
EXTENDS RpcClient, TLAPS, FiniteSetTheorems

-----------------------------------------------------------------------------
(* The cache.                                                              *)

EntryType == [key : Nat \X Nat, response : ResponseType]

UniqueKeys(map) == \A i, j \in DOMAIN map : map[i].key = map[j].key => i = j

(* Without one entry the others are there as before.                       *)
LEMMA WithoutEntry ==
  ASSUME NEW S, NEW map \in Seq(S), NEW i \in DOMAIN map
  PROVE  /\ Without(map, i) \in Seq(S)
         /\ Len(Without(map, i)) = Len(map) - 1
         /\ \A j \in DOMAIN Without(map, i) :
              Without(map, i)[j] = map[IF j < i THEN j ELSE j + 1]
<1>1. Len(map) - 1 \in Nat /\ \A j \in 1..Len(map) - 1 : (IF j < i THEN j ELSE j + 1) \in DOMAIN map
  OBVIOUS
<1>2. Without(map, i) \in [1..Len(map) - 1 -> S]
  BY <1>1 DEF Without
<1>. QED
  BY <1>1, <1>2 DEF Without

(* An insertion has the key once, with what was inserted, and keeps what   *)
(* else is in the cache.                                                   *)
LEMMA InsertedEntry ==
  ASSUME NEW map \in Seq(EntryType), UniqueKeys(map),
         NEW key \in Nat \X Nat, NEW response \in ResponseType
  PROVE  LET new == Inserted(map, key, response) IN
         /\ new \in Seq(EntryType)
         /\ UniqueKeys(new)
         /\ new # <<>> /\ new[Len(new)] = [key |-> key, response |-> response]
         /\ Len(new) = IF Entries(map, key) = {} THEN Len(map) + 1 ELSE Len(map)
         /\ \A i \in 1..Len(new) - 1 : \E j \in DOMAIN map : new[i] = map[j]
<1>. DEFINE new == Inserted(map, key, response)
            entry == [key |-> key, response |-> response]
<1>0. entry \in EntryType
  BY DEF EntryType
<1>1. CASE Entries(map, key) = {}
  <2>1. new = Append(map, entry)
    BY <1>1 DEF Inserted
  <2>2. \A i \in DOMAIN map : map[i].key # key
    BY <1>1 DEF Entries
  <2>. QED
    BY <1>0, <1>1, <2>1, <2>2 DEF UniqueKeys
<1>2. CASE Entries(map, key) # {}
  <2>. DEFINE i == Entry(map, key)
              rest == Without(map, i)
  <2>1. i \in DOMAIN map /\ map[i].key = key
    BY <1>2 DEF Entry, Entries
  <2>2. /\ rest \in Seq(EntryType) /\ Len(rest) = Len(map) - 1
        /\ \A j \in DOMAIN rest : rest[j] = map[IF j < i THEN j ELSE j + 1]
    BY <2>1, WithoutEntry
  <2>3. new = Append(rest, entry)
    BY <1>2 DEF Inserted
  <2>. HIDE DEF rest, i, new
  <2>4. \A j \in DOMAIN rest : (IF j < i THEN j ELSE j + 1) \in DOMAIN map
                                 /\ (IF j < i THEN j ELSE j + 1) # i
    BY <2>1, <2>2
  <2>5. \A j \in DOMAIN rest : rest[j].key # key
    BY <2>1, <2>2, <2>4 DEF UniqueKeys
  <2>6. \A j, k \in DOMAIN rest : rest[j].key = rest[k].key => j = k
    <3>1. SUFFICES ASSUME NEW j \in DOMAIN rest, NEW k \in DOMAIN rest,
                          rest[j].key = rest[k].key
                   PROVE  j = k
      OBVIOUS
    <3>2. (IF j < i THEN j ELSE j + 1) = (IF k < i THEN k ELSE k + 1)
      BY <3>1, <2>2, <2>4 DEF UniqueKeys
    <3>. QED
      BY <3>2, <2>1, <2>2
  <2>7. DOMAIN new = 1..Len(rest) + 1 /\ new[Len(rest) + 1] = entry
          /\ \A j \in DOMAIN rest : new[j] = rest[j]
    BY <2>2, <2>3, <1>0
  <2>8. UniqueKeys(new)
    <3>1. SUFFICES ASSUME NEW j \in DOMAIN new, NEW k \in DOMAIN new, new[j].key = new[k].key
                   PROVE  j = k
      BY DEF UniqueKeys
    <3>2. \A m \in DOMAIN new : m = Len(rest) + 1 \/ m \in DOMAIN rest
      BY <2>2, <2>7
    <3>3. CASE j \in DOMAIN rest /\ k \in DOMAIN rest
      BY <3>1, <3>3, <2>6, <2>7
    <3>4. CASE j = Len(rest) + 1 /\ k \in DOMAIN rest
      BY <3>1, <3>4, <2>5, <2>7
    <3>5. CASE j \in DOMAIN rest /\ k = Len(rest) + 1
      BY <3>1, <3>5, <2>5, <2>7
    <3>. QED
      BY <3>2, <3>3, <3>4, <3>5
  <2>9. new \in Seq(EntryType) /\ Len(new) = Len(rest) + 1
    BY <1>0, <2>2, <2>3
  <2>10. \A k \in 1..Len(new) - 1 : \E j \in DOMAIN map : new[k] = map[j]
    <3>1. SUFFICES ASSUME NEW k \in 1..Len(new) - 1
                   PROVE  \E j \in DOMAIN map : new[k] = map[j]
      OBVIOUS
    <3>2. k \in DOMAIN rest
      BY <2>2, <2>9
    <3>3. new[k] = rest[k]
      BY <3>2, <2>7
    <3>4. rest[k] = map[IF k < i THEN k ELSE k + 1]
      BY <3>2, <2>2
    <3>. QED
      BY <3>2, <3>3, <3>4, <2>4
  <2>. QED
    BY <1>2, <2>2, <2>7, <2>8, <2>9, <2>10 DEF new
<1>. QED
  BY <1>1, <1>2

(* So do the keys that are left differ.                                    *)
LEMMA WithoutUnique ==
  ASSUME NEW map \in Seq(EntryType), UniqueKeys(map), NEW i \in DOMAIN map
  PROVE  UniqueKeys(Without(map, i))
<1>. DEFINE rest == Without(map, i)
<1>1. /\ rest \in Seq(EntryType) /\ Len(rest) = Len(map) - 1
      /\ \A j \in DOMAIN rest : rest[j] = map[IF j < i THEN j ELSE j + 1]
  BY WithoutEntry
<1>. HIDE DEF rest
<1>2. SUFFICES ASSUME NEW j \in DOMAIN rest, NEW k \in DOMAIN rest, rest[j].key = rest[k].key
               PROVE  j = k
  BY DEF UniqueKeys, rest
<1>3. \A m \in DOMAIN rest : (IF m < i THEN m ELSE m + 1) \in DOMAIN map
  BY <1>1
<1>4. (IF j < i THEN j ELSE j + 1) = (IF k < i THEN k ELSE k + 1)
  BY <1>1, <1>2, <1>3 DEF UniqueKeys
<1>. QED
  BY <1>1, <1>4

(***************************************************************************)
(* What holds of the cache and of each response in it.  A partial response *)
(* is one of a reply that is not empty.                                    *)
(***************************************************************************)
GoodResponse(x) == x \in ResponseType /\ (x.status = 206 => x.total >= 1)

GoodCache(map) ==
  /\ map \in Seq(EntryType)
  /\ UniqueKeys(map)
  /\ Len(map) <= Capacity
  /\ \A i \in DOMAIN map :
       map[i].response.status \in {200, 206} /\ GoodResponse(map[i].response)

(* A key looked up has one entry.                                          *)
LEMMA EntryFound ==
  ASSUME NEW map, NEW key, Entries(map, key) # {}
  PROVE  Entry(map, key) \in DOMAIN map /\ map[Entry(map, key)].key = key
BY DEF Entry, Entries

(* get_refresh only reorders the cache.                                    *)
LEMMA RefreshedCache ==
  ASSUME GoodCache(cache), NEW key \in Nat \X Nat, Entries(cache, key) # {}
  PROVE  /\ GoodCache(Refreshed(cache, key))
         /\ Entries(Refreshed(cache, key), key) # {}
         /\ \A i \in DOMAIN Refreshed(cache, key) :
              \E j \in DOMAIN cache : Refreshed(cache, key)[i] = cache[j]
<1>. DEFINE i == Entry(cache, key)
            new == Refreshed(cache, key)
<1>1. i \in DOMAIN cache /\ cache[i].key = key /\ cache[i] \in EntryType
  BY EntryFound DEF GoodCache
<1>2. cache[i].response \in ResponseType /\ cache[i] = [key |-> key, response |-> cache[i].response]
  BY <1>1 DEF EntryType
<1>3. /\ new \in Seq(EntryType) /\ UniqueKeys(new) /\ Len(new) = Len(cache)
      /\ new # <<>> /\ new[Len(new)] = cache[i]
      /\ \A k \in 1..Len(new) - 1 : \E j \in DOMAIN cache : new[k] = cache[j]
  BY <1>2, InsertedEntry DEF GoodCache, Refreshed
<1>. HIDE DEF new, i
<1>4. \A k \in DOMAIN new : \E j \in DOMAIN cache : new[k] = cache[j]
  <2>1. SUFFICES ASSUME NEW k \in DOMAIN new PROVE \E j \in DOMAIN cache : new[k] = cache[j]
    OBVIOUS
  <2>2. k = Len(new) \/ k \in 1..Len(new) - 1
    BY <1>3
  <2>. QED
    BY <1>1, <1>3, <2>2
<1>5. Len(new) \in DOMAIN new
  BY <1>3
<1>. QED
  BY <1>1, <1>3, <1>4, <1>5 DEF GoodCache, Entries, new

(* put makes room first, so it never exceeds the capacity.                 *)
LEMMA CachedCache ==
  ASSUME GoodCache(cache), NEW key \in Nat \X Nat,
         NEW x, GoodResponse(x), x.status \in {200, 206}
  PROVE  /\ GoodCache(Cached(cache, key, x))
         /\ Entries(Cached(cache, key, x), key) # {}
         /\ \A i \in DOMAIN Cached(cache, key, x) :
              \/ Cached(cache, key, x)[i] = [key |-> key, response |-> x]
              \/ \E j \in DOMAIN cache : Cached(cache, key, x)[i] = cache[j]
<1>. DEFINE room == IF Len(cache) >= Capacity THEN Without(cache, 1) ELSE cache
            new == Cached(cache, key, x)
<1>0. Capacity \in Nat \ {0} /\ Len(cache) \in Nat /\ cache \in Seq(EntryType) /\ UniqueKeys(cache)
  BY RpcAssumption DEF GoodCache
<1>1. /\ room \in Seq(EntryType) /\ UniqueKeys(room) /\ Len(room) + 1 <= Capacity
      /\ \A i \in DOMAIN room : \E j \in DOMAIN cache : room[i] = cache[j]
  <2>1. CASE Len(cache) >= Capacity
    <3>1. 1 \in DOMAIN cache
      BY <1>0, <2>1
    <3>2. /\ room \in Seq(EntryType) /\ Len(room) = Len(cache) - 1
          /\ \A j \in DOMAIN room : room[j] = cache[IF j < 1 THEN j ELSE j + 1]
      BY <1>0, <2>1, <3>1, WithoutEntry
    <3>3. UniqueKeys(room)
      BY <1>0, <2>1, <3>1, WithoutUnique
    <3>4. \A j \in DOMAIN room : (IF j < 1 THEN j ELSE j + 1) \in DOMAIN cache
      BY <1>0, <3>2
    <3>. QED
      BY <1>0, <3>2, <3>3, <3>4 DEF GoodCache
  <2>2. CASE ~ (Len(cache) >= Capacity)
    BY <1>0, <2>2
  <2>. QED
    BY <2>1, <2>2
<1>. HIDE DEF room
<1>2. /\ new \in Seq(EntryType) /\ UniqueKeys(new) /\ Len(new) \in {Len(room), Len(room) + 1}
      /\ new # <<>> /\ new[Len(new)] = [key |-> key, response |-> x]
      /\ \A k \in 1..Len(new) - 1 : \E j \in DOMAIN room : new[k] = room[j]
  <2>1. new = Inserted(room, key, x)
    BY DEF Cached, room
  <2>2. x \in ResponseType /\ Len(room) \in Nat
    BY <1>1 DEF GoodResponse
  <2>. HIDE DEF new
  <2>3. /\ Inserted(room, key, x) \in Seq(EntryType) /\ UniqueKeys(Inserted(room, key, x))
        /\ Inserted(room, key, x) # <<>>
        /\ Inserted(room, key, x)[Len(Inserted(room, key, x))] = [key |-> key, response |-> x]
        /\ Len(Inserted(room, key, x))
             = IF Entries(room, key) = {} THEN Len(room) + 1 ELSE Len(room)
        /\ \A k \in 1..Len(Inserted(room, key, x)) - 1 :
             \E j \in DOMAIN room : Inserted(room, key, x)[k] = room[j]
    BY <1>1, <2>2, InsertedEntry
  <2>. QED
    BY <2>1, <2>3
<1>. HIDE DEF new
<1>3. \A k \in DOMAIN new : \/ new[k] = [key |-> key, response |-> x]
                            \/ \E j \in DOMAIN cache : new[k] = cache[j]
  <2>1. SUFFICES ASSUME NEW k \in DOMAIN new
                 PROVE  \/ new[k] = [key |-> key, response |-> x]
                        \/ \E j \in DOMAIN cache : new[k] = cache[j]
    OBVIOUS
  <2>2. k = Len(new) \/ k \in 1..Len(new) - 1
    BY <1>2
  <2>. QED
    BY <1>1, <1>2, <2>2
<1>4. Len(new) \in DOMAIN new /\ Len(new) <= Capacity
  BY <1>0, <1>1, <1>2
<1>5. \A k \in DOMAIN new :
        new[k].response.status \in {200, 206} /\ GoodResponse(new[k].response)
  BY <1>3 DEF GoodCache
<1>. QED
  BY <1>2, <1>3, <1>4, <1>5 DEF GoodCache, Entries, new

-----------------------------------------------------------------------------
(* Types.                                                                  *)

(* What the proxy answers is a response, and no partial one of nothing.    *)
LEMMA ForwardedType ==
  ASSUME NEW n, n.version \in Nat, n.size \in Nat \ {0},
         NEW r \in Nat \X Nat, r[1] < r[2]
  PROVE  /\ GoodResponse(Forwarded(n, r))
         /\ Forwarded(n, r) # Failed => Forwarded(n, r).status \in {200, 206}
<1>. DEFINE length == r[2] - r[1] + 1
            size == (IF r[2] >= n.size THEN n.size ELSE r[2] + 1) - r[1]
<1>0. r[1] \in Nat /\ r[2] \in Nat
  OBVIOUS
<1>1. CASE n.size <= length
  <2>1. Forwarded(n, r) = Response(200, Part(n.version, 0, n.size), 0, 0)
    BY <1>1 DEF Forwarded
  <2>. QED
    BY <2>1 DEF GoodResponse, ResponseType, PartType, Response, Part
<1>2. CASE ~ (n.size <= length) /\ r[1] > n.size
  <2>1. Forwarded(n, r) = Failed
    BY <1>2 DEF Forwarded
  <2>. QED
    BY <2>1 DEF GoodResponse, ResponseType, PartType, Response, Part, Failed, NoPart
<1>3. CASE ~ (n.size <= length) /\ ~ (r[1] > n.size)
  <2>1. Forwarded(n, r) = Response(206, Part(n.version, r[1], size), r[2], n.size)
    BY <1>3 DEF Forwarded
  <2>2. size \in Nat
    BY <1>0, <1>3
  <2>. HIDE DEF size
  <2>. QED
    BY <1>0, <2>1, <2>2 DEF GoodResponse, ResponseType, PartType, Response, Part
<1>. QED
  BY <1>1, <1>2, <1>3

(***************************************************************************)
(* The type invariant, strengthened with what the range after a response   *)
(* needs, and with: there are outcalls only in the phase of that name.     *)
(***************************************************************************)
TypeInv ==
  /\ TypeOK
  /\ GoodCache(cache)
  /\ \A r \in Replica : GoodResponse(task[r].response)
  /\ \A r \in Replica : task[r].at # "idle" => phase = "outcall"

(* A response of an agreement is one that some replica got.                *)
LEMMA GoodAnswer ==
  ASSUME TypeInv, NEW x \in Responses
  PROVE  GoodResponse(x)
BY DEF TypeInv, Responses

LEMMA OutcallsType ==
  /\ Outcalls \in [Replica -> TaskType]
  /\ \A r \in Replica : Outcalls[r].at = "lookup" /\ GoodResponse(Outcalls[r].response)
BY DEF Outcalls, TaskType, Failed, NoPart, Part, Response, ResponseType, PartType, GoodResponse

LEMMA IdleType ==
  /\ [r \in Replica |-> Idle] \in [Replica -> TaskType]
  /\ Idle.at = "idle" /\ GoodResponse(Idle.response)
BY DEF Idle, TaskType, Failed, NoPart, Part, Response, ResponseType, PartType, GoodResponse

LEMMA FailureTypes ==
  /\ GoodResponse(Failed) /\ Failed.status = 0
  /\ GoodResponse(ServerError) /\ ServerError.status = 500
BY DEF ServerError, Failed, NoPart, Part, Response, ResponseType, PartType, GoodResponse

LEMMA InitType == Init => TypeInv
<1>. SUFFICES ASSUME Init PROVE TypeInv
  OBVIOUS
<1>1. PICK size \in Sizes : node = [version |-> 1, size |-> size]
  BY DEF Init
<1>2. node.version \in 1..MaxVersion /\ node.size \in Sizes
  BY <1>1, RpcAssumption
<1>3. cache \in Seq(EntryType) /\ Len(cache) = 0
  BY DEF Init
<1>4. GoodCache(cache)
  BY <1>3, RpcAssumption DEF GoodCache, UniqueKeys
<1>5. range \in Nat \X Nat
  BY RpcAssumption DEF Init
<1>. QED
  BY <1>2, <1>3, <1>4, <1>5, IdleType, RpcAssumption DEF Init, TypeInv, TypeOK, EntryType, GoodCache

(***************************************************************************)
(* A step of one replica's outcall changes its task, the cache and the     *)
(* count of failures, and preserves the types if these are right.          *)
(***************************************************************************)
LEMMA OutcallType ==
  ASSUME TypeInv, NEW r \in Replica, NEW new \in TaskType,
         task' = [task EXCEPT ![r] = new], phase = "outcall",
         new.at = "store" => new.response.status \in {200, 206},
         GoodResponse(new.response), GoodCache(cache'), lost' \in 0..MaxLost,
         UNCHANGED <<node, client>>
  PROVE  TypeInv'
<1>1. task' \in [Replica -> TaskType]
  BY DEF TypeInv, TypeOK
<1>2. \A q \in Replica : task'[q] = IF q = r THEN new ELSE task[q]
  BY DEF TypeInv, TypeOK
<1>3. \A q \in Replica : /\ GoodResponse(task'[q].response)
                         /\ task'[q].at = "store" => task'[q].response.status \in {200, 206}
  BY <1>2 DEF TypeInv, TypeOK
<1>4. /\ cache' \in Seq([key : Nat \X Nat, response : ResponseType])
      /\ \A i \in DOMAIN cache' : cache'[i].response.status \in {200, 206}
  BY DEF GoodCache, EntryType
<1>. QED
  BY <1>1, <1>3, <1>4 DEF TypeInv, TypeOK, client

LEMMA NaturalsOfState ==
  ASSUME TypeInv
  PROVE  /\ node.version \in Nat /\ node.size \in Nat \ {0}
         /\ lost \in Nat
         /\ range \in Nat \X Nat /\ (phase = "outcall" => range[1] < range[2])
<1>1. node.version \in 1..MaxVersion /\ node.size \in Sizes /\ lost \in 0..MaxLost
  BY DEF TypeInv, TypeOK
<1>2. range \in Nat \X Nat /\ (phase = "outcall" => range[1] < range[2])
  BY DEF TypeInv, TypeOK
<1>3. Sizes \subseteq Nat \ {0} /\ MaxVersion \in Nat /\ MaxLost \in Nat
  BY RpcAssumption
<1>4. node.version \in Nat /\ lost \in Nat
  BY <1>1, <1>3
<1>. QED
  BY <1>1, <1>2, <1>3, <1>4

LEMMA StepType == TypeInv /\ [Next]_vars => TypeInv'
<1>. SUFFICES ASSUME TypeInv, [Next]_vars PROVE TypeInv'
  OBVIOUS
<1>0. /\ range \in Nat \X Nat /\ cache \in Seq(EntryType)
      /\ \A r \in Replica : task[r] \in TaskType /\ GoodResponse(task[r].response)
  BY DEF TypeInv, TypeOK, EntryType
<1>1. CASE Call
  <2>1. range' \in Nat \X Nat /\ range'[1] < range'[2]
    BY <1>1, RpcAssumption DEF Call
  <2>. QED
    BY <1>1, <2>1, OutcallsType, RpcAssumption DEF Call, TypeInv, TypeOK
<1>2. ASSUME NEW r \in Replica, LookUp(r) PROVE TypeInv'
  <2>0. phase = "outcall" /\ lost' \in 0..MaxLost /\ UNCHANGED <<node, client>>
    BY <1>2 DEF LookUp, TypeInv, TypeOK
  <2>1. CASE Entries(cache, range) # {}
    <3>. DEFINE i == Entry(cache, range)
                new == [at |-> "answered", response |-> cache[i].response]
    <3>1. i \in DOMAIN cache
      BY <2>1, EntryFound
    <3>2. GoodResponse(cache[i].response)
      BY <3>1 DEF TypeInv, GoodCache
    <3>3. GoodCache(cache')
      BY <1>0, <1>2, <2>1, RefreshedCache DEF LookUp, TypeInv
    <3>4. task' = [task EXCEPT ![r] = new] /\ new.at # "store" /\ GoodResponse(new.response)
      BY <1>2, <2>1, <3>2 DEF LookUp
    <3>5. new \in TaskType
      BY <3>2 DEF TaskType, GoodResponse
    <3>. HIDE DEF new
    <3>. QED
      BY <2>0, <3>3, <3>4, <3>5, OutcallType
  <2>2. CASE Entries(cache, range) = {}
    <3>. DEFINE new == [task[r] EXCEPT !.at = "fetch"]
    <3>1. task' = [task EXCEPT ![r] = new] /\ GoodCache(cache')
      BY <1>2, <2>2 DEF LookUp, TypeInv
    <3>2. new \in TaskType /\ new.at # "store" /\ GoodResponse(new.response)
      BY <1>0 DEF TaskType
    <3>. HIDE DEF new
    <3>. QED
      BY <2>0, <3>1, <3>2, OutcallType
  <2>. QED
    BY <2>1, <2>2
<1>3. ASSUME NEW r \in Replica, Fetch(r) PROVE TypeInv'
  <2>. DEFINE x == Forwarded(node, range)
              new == [at |-> IF x = Failed THEN "answered" ELSE "store", response |-> x]
  <2>1. phase = "outcall" /\ lost' \in 0..MaxLost /\ UNCHANGED <<node, client>> /\ GoodCache(cache')
    BY <1>3 DEF Fetch, TypeInv, TypeOK
  <2>2. node.version \in Nat /\ node.size \in Nat \ {0} /\ range[1] < range[2]
    BY <2>1, NaturalsOfState
  <2>3. GoodResponse(x) /\ (x # Failed => x.status \in {200, 206})
    BY <1>0, <2>2, ForwardedType
  <2>4. task' = [task EXCEPT ![r] = new]
    BY <1>3 DEF Fetch
  <2>. HIDE DEF x
  <2>5. new \in TaskType /\ GoodResponse(new.response)
          /\ (new.at = "store" => new.response.status \in {200, 206})
    BY <2>3 DEF TaskType, GoodResponse
  <2>. HIDE DEF new
  <2>. QED
    BY <2>1, <2>4, <2>5, OutcallType
<1>4. ASSUME NEW r \in Replica, FetchFails(r) PROVE TypeInv'
  <2>. DEFINE new == [at |-> "answered", response |-> ServerError]
  <2>1. phase = "outcall" /\ lost' \in 0..MaxLost /\ UNCHANGED <<node, client>> /\ GoodCache(cache')
    BY <1>4, RpcAssumption DEF FetchFails, TypeInv, TypeOK
  <2>2. task' = [task EXCEPT ![r] = new]
    BY <1>4 DEF FetchFails
  <2>3. new \in TaskType /\ new.at # "store" /\ GoodResponse(new.response)
    BY FailureTypes DEF TaskType, GoodResponse
  <2>. HIDE DEF new
  <2>. QED
    BY <2>1, <2>2, <2>3, OutcallType
<1>5. ASSUME NEW r \in Replica, Store(r) PROVE TypeInv'
  <2>. DEFINE new == [task[r] EXCEPT !.at = "answered"]
  <2>1. phase = "outcall" /\ lost' \in 0..MaxLost /\ UNCHANGED <<node, client>>
    BY <1>5 DEF Store, TypeInv, TypeOK
  <2>2. task[r].response.status \in {200, 206}
    BY <1>5 DEF Store, TypeInv, TypeOK
  <2>3. GoodCache(cache')
    BY <1>0, <1>5, <2>2, CachedCache DEF Store, TypeInv
  <2>4. task' = [task EXCEPT ![r] = new]
    BY <1>5 DEF Store
  <2>5. new \in TaskType /\ new.at # "store" /\ GoodResponse(new.response)
    BY <1>0 DEF TaskType
  <2>. HIDE DEF new
  <2>. QED
    BY <2>1, <2>3, <2>4, <2>5, OutcallType
<1>6. ASSUME NEW r \in Replica, Lose(r) PROVE TypeInv'
  <2>. DEFINE new == [at |-> "answered", response |-> Failed]
  <2>1. phase = "outcall" /\ lost' \in 0..MaxLost /\ UNCHANGED <<node, client>> /\ GoodCache(cache')
    BY <1>6, RpcAssumption DEF Lose, TypeInv, TypeOK
  <2>2. task' = [task EXCEPT ![r] = new]
    BY <1>6 DEF Lose
  <2>3. new \in TaskType /\ new.at # "store" /\ GoodResponse(new.response)
    BY FailureTypes DEF TaskType, GoodResponse
  <2>. HIDE DEF new
  <2>. QED
    BY <2>1, <2>2, <2>3, OutcallType
<1>7. CASE Again
  <2>1. retry' \in 0..4
    BY <1>7 DEF Again, AllAnswered, TypeInv, TypeOK
  <2>2. CASE retry' > 3
    BY <1>7, <2>1, <2>2, IdleType DEF Again, TypeInv, TypeOK
  <2>3. CASE ~ (retry' > 3)
    BY <1>7, <2>1, <2>3, OutcallsType DEF Again, AllAnswered, TypeInv, TypeOK
  <2>. QED
    BY <2>2, <2>3
<1>8. ASSUME NEW x \in Responses, Got(x) PROVE TypeInv'
  <2>. DEFINE next == Split(x.end, x.total)
              more == x.status = 206 /\ next[1] < next[2]
  <2>1. GoodResponse(x)
    BY GoodAnswer
  <2>2. x.part \in PartType /\ x.end \in Nat /\ x.total \in Nat
          /\ (x.status = 206 => x.total - 1 \in Nat)
    BY <2>1 DEF GoodResponse, ResponseType
  <2>3. x.status = 206 => next \in Nat \X Nat
    BY <2>2, RpcAssumption DEF Split
  <2>4. buf' \in Seq(PartType)
    BY <1>8, <2>2 DEF Got, TypeInv, TypeOK
  <2>5. UNCHANGED <<node, cache, lost, calls>>
    BY <1>8 DEF Got
  <2>. HIDE DEF next
  <2>6. CASE more
    <3>1. range' = next /\ retry' = 0 /\ phase' = "outcall" /\ task' = Outcalls
      BY <1>8, <2>6 DEF Got, next
    <3>. QED
      BY <2>3, <2>4, <2>5, <2>6, <3>1, OutcallsType DEF TypeInv, TypeOK
  <2>7. CASE ~ more
    <3>1. /\ phase' \in {"ok", "error"} /\ task' = [r \in Replica |-> Idle]
          /\ range' = (IF x.status = 206 THEN next ELSE range) /\ retry' = retry
      BY <1>8, <2>7 DEF Got, next, Outcomes
    <3>2. range' \in Nat \X Nat
      BY <1>0, <2>3, <3>1
    <3>. QED
      BY <2>4, <2>5, <3>1, <3>2, IdleType DEF TypeInv, TypeOK
  <2>. QED
    BY <2>6, <2>7
<1>9. CASE NodeMoves
  <2>1. node'.version \in 1..MaxVersion /\ node'.size \in Sizes
    BY <1>9, RpcAssumption DEF NodeMoves, TypeInv, TypeOK
  <2>. QED
    BY <1>9, <2>1 DEF NodeMoves, client, TypeInv, TypeOK
<1>10. CASE UNCHANGED vars
  BY <1>10 DEF vars, TypeInv, TypeOK
<1>. QED
  BY <1>1, <1>2, <1>3, <1>4, <1>5, <1>6, <1>7, <1>8, <1>9, <1>10 DEF Next, Outcall, Answer

LEMMA TypeInvariant == Spec => []TypeInv
BY InitType, StepType, PTL DEF Spec

(* Every variable of the call, the proxy and its cache keeps its type      *)
(* (make_rpc, make_single_request, forward, MemoryCache).                  *)
THEOREM RpcTypeCorrect == Spec => []TypeOK
<1>1. TypeInv => TypeOK
  BY DEF TypeInv
<1>. QED
  BY <1>1, TypeInvariant, PTL

(* The cache never exceeds its capacity nor holds a key twice, whatever    *)
(* the order of the lookups and puts of any number of requests             *)
(* (MemoryCache::get_refresh and put).                                     *)
THEOREM CacheStaysBounded == Spec => []CacheBounded
<1>1. TypeInv => CacheBounded
  BY DEF TypeInv, GoodCache, UniqueKeys, CacheBounded
<1>. QED
  BY <1>1, TypeInvariant, PTL

-----------------------------------------------------------------------------
(* What a step of an outcall does.                                         *)

(* A lookup finds the range in the cache.                                  *)
Hit(r) ==
  /\ Entries(cache, range) # {}
  /\ task'[r] = [at |-> "answered", response |-> cache[Entry(cache, range)].response]
  /\ \A i \in DOMAIN cache' : \E j \in DOMAIN cache : cache'[i] = cache[j]
  /\ Entries(cache', range) # {}
  /\ lost' = lost

(* A lookup does not find it.                                              *)
Miss(r) ==
  /\ Entries(cache, range) = {}
  /\ task'[r].at = "fetch" /\ cache' = cache /\ lost' = lost

(* The node's answer is cut.                                               *)
Fetched(r) ==
  /\ task[r].at = "fetch"
  /\ task'[r].response = Forwarded(node, range)
  /\ task'[r].at = IF Forwarded(node, range) = Failed THEN "answered" ELSE "store"
  /\ cache' = cache /\ lost' = lost

(* The answer is cached.                                                   *)
Stored(r) ==
  /\ task[r].at = "store"
  /\ task'[r] = [at |-> "answered", response |-> task[r].response]
  /\ \A i \in DOMAIN cache' :
       \/ cache'[i] = [key |-> range, response |-> task[r].response]
       \/ \E j \in DOMAIN cache : cache'[i] = cache[j]
  /\ Entries(cache', range) # {}
  /\ lost' = lost

(* The outcall or the forwarding fails.                                    *)
Fails(r) ==
  /\ task'[r].at = "answered" /\ task'[r].response \in {Failed, ServerError}
  /\ cache' = cache /\ lost' = lost + 1

LEMMA OutcallSteps ==
  ASSUME TypeInv, NEW r \in Replica, Outcall(r)
  PROVE  /\ phase = "outcall" /\ UNCHANGED <<node, client>>
         /\ \A q \in Replica : q # r => task'[q] = task[q]
         /\ Hit(r) \/ Miss(r) \/ Fetched(r) \/ Stored(r) \/ Fails(r)
<1>0. task \in [Replica -> TaskType] /\ range \in Nat \X Nat /\ task[r] \in TaskType
  BY DEF TypeInv, TypeOK
<1>1. phase = "outcall" /\ UNCHANGED <<node, client>>
  BY DEF TypeInv, Outcall, LookUp, Fetch, FetchFails, Store, Lose
<1>2. \A q \in Replica : q # r => task'[q] = task[q]
  BY <1>0 DEF Outcall, LookUp, Fetch, FetchFails, Store, Lose
<1>3. CASE LookUp(r)
  <2>1. CASE Entries(cache, range) # {}
    <3>1. cache' = Refreshed(cache, range) /\ lost' = lost
            /\ task' = [task EXCEPT ![r] =
                 [at |-> "answered", response |-> cache[Entry(cache, range)].response]]
      BY <1>3, <2>1 DEF LookUp
    <3>2. /\ Entries(cache', range) # {}
          /\ \A i \in DOMAIN cache' : \E j \in DOMAIN cache : cache'[i] = cache[j]
      BY <1>0, <2>1, <3>1, RefreshedCache DEF TypeInv
    <3>. QED
      BY <1>0, <1>1, <1>2, <2>1, <3>1, <3>2 DEF Hit
  <2>2. CASE Entries(cache, range) = {}
    <3>1. task' = [task EXCEPT ![r].at = "fetch"] /\ cache' = cache /\ lost' = lost
      BY <1>3, <2>2 DEF LookUp
    <3>2. task'[r].at = "fetch"
      BY <1>0, <3>1 DEF TaskType
    <3>. QED
      BY <1>1, <1>2, <2>2, <3>1, <3>2 DEF Miss
  <2>. QED
    BY <2>1, <2>2
<1>4. CASE Fetch(r)
  BY <1>0, <1>1, <1>2, <1>4 DEF Fetch, Fetched
<1>5. CASE Store(r)
  <2>1. task[r].at = "store" /\ GoodResponse(task[r].response)
          /\ task[r].response.status \in {200, 206}
    BY <1>5 DEF Store, TypeInv, TypeOK
  <2>2. cache' = Cached(cache, range, task[r].response) /\ lost' = lost
          /\ task' = [task EXCEPT ![r].at = "answered"]
    BY <1>5 DEF Store
  <2>3. /\ Entries(cache', range) # {}
        /\ \A i \in DOMAIN cache' :
             \/ cache'[i] = [key |-> range, response |-> task[r].response]
             \/ \E j \in DOMAIN cache : cache'[i] = cache[j]
    BY <1>0, <2>1, <2>2, CachedCache DEF TypeInv
  <2>4. task'[r] = [at |-> "answered", response |-> task[r].response]
    BY <1>0, <2>2 DEF TaskType
  <2>. QED
    BY <1>1, <1>2, <2>1, <2>2, <2>3, <2>4 DEF Stored
<1>6. CASE FetchFails(r) \/ Lose(r)
  BY <1>0, <1>1, <1>2, <1>6 DEF FetchFails, Lose, Fails
<1>. QED
  BY <1>3, <1>4, <1>5, <1>6 DEF Outcall

-----------------------------------------------------------------------------
(* The cache makes the replicas agree.                                     *)

(* A range that does not begin beyond the reply gets an answer.            *)
LEMMA ForwardedAnswers ==
  ASSUME NEW n, n.version \in Nat, n.size \in Nat \ {0},
         NEW r \in Nat \X Nat, r[1] <= n.size
  PROVE  Forwarded(n, r) # Failed
BY DEF Forwarded, Failed, Response

(* An outcall that all replicas answered alike has succeeded.              *)
LEMMA Unanimous ==
  ASSUME NEW x, \A r \in Replica : task[r].response = x
  PROVE  Agreed(x) /\ x \in Responses
<1>1. {r \in Replica : task[r].response = x} = Replica
  OBVIOUS
<1>2. Cardinality(Replica) \in Nat
  BY RpcAssumption, FS_CardinalityType
<1>3. Agreement <= Cardinality(Replica)
  BY <1>2, RpcAssumption
<1>. QED
  BY <1>1, <1>3, RpcAssumption DEF Agreed, Responses

(***************************************************************************)
(* While no outcall fails, a first range that was answered is cached, and  *)
(* from the second attempt on the cache is all the replicas see.           *)
(***************************************************************************)
AgreeInv ==
  lost = 0 /\ range[1] = 0 =>
    /\ retry \in {0, 1}
    /\ \A r \in Replica : task[r].at = "answered" => Entries(cache, range) # {}
    /\ phase = "outcall" /\ retry = 1 =>
         /\ Entries(cache, range) # {}
         /\ \A r \in Replica : task[r].at \in {"lookup", "answered"}
         /\ \A r \in Replica, i \in DOMAIN cache :
              task[r].at = "answered" /\ cache[i].key = range
                => task[r].response = cache[i].response

LEMMA InitAgree == Init => AgreeInv
BY DEF Init, AgreeInv, Idle

LEMMA StepAgree == TypeInv /\ AgreeInv /\ [Next]_vars => AgreeInv'
<1>. SUFFICES ASSUME TypeInv, AgreeInv, [Next]_vars, lost' = 0, range'[1] = 0
              PROVE  AgreeInv'
  BY DEF AgreeInv
<1>0. lost \in Nat /\ range \in Nat \X Nat /\ node.version \in Nat /\ node.size \in Nat \ {0}
  BY NaturalsOfState
<1>1. CASE Call
  BY <1>1, OutcallsType DEF Call, AgreeInv
<1>2. ASSUME NEW r \in Replica, Outcall(r) PROVE AgreeInv'
  <2>1. /\ phase = "outcall" /\ range' = range /\ retry' = retry /\ phase' = phase
        /\ \A q \in Replica : q # r => task'[q] = task[q]
        /\ Hit(r) \/ Miss(r) \/ Fetched(r) \/ Stored(r)
    BY <1>0, <1>2, OutcallSteps DEF client, Fails
  <2>2. lost = 0 /\ range[1] = 0
    BY <1>0, <2>1 DEF Hit, Miss, Fetched, Stored
  <2>3. CASE Hit(r)
    <3>1. \A i \in DOMAIN cache : cache[i].key = range => i = Entry(cache, range)
      BY <2>3, EntryFound DEF Hit, TypeInv, GoodCache, UniqueKeys
    <3>2. \A i \in DOMAIN cache' : cache'[i].key = range =>
            cache'[i].response = cache[Entry(cache, range)].response
      BY <2>3, <3>1 DEF Hit
    <3>3. \A q \in Replica : retry = 1 /\ task'[q].at = "answered" =>
            task'[q].response = cache[Entry(cache, range)].response
      BY <2>1, <2>2, <2>3, EntryFound DEF Hit, AgreeInv
    <3>. QED
      BY <2>1, <2>2, <2>3, <3>2, <3>3 DEF Hit, AgreeInv
  <2>4. CASE Miss(r)
    BY <2>1, <2>2, <2>4 DEF Miss, AgreeInv
  <2>5. CASE Fetched(r)
    <3>1. Forwarded(node, range) # Failed
      BY <1>0, <2>2, ForwardedAnswers
    <3>. QED
      BY <2>1, <2>2, <2>5, <3>1 DEF Fetched, AgreeInv
  <2>6. CASE Stored(r)
    BY <2>1, <2>2, <2>6 DEF Stored, AgreeInv
  <2>. QED
    BY <2>1, <2>3, <2>4, <2>5, <2>6
<1>3. CASE Again
  <2>1. /\ phase = "outcall" /\ \A r \in Replica : task[r].at = "answered"
        /\ \A x \in Responses : x.status # 0 => ~ Agreed(x)
        /\ cache' = cache /\ range' = range /\ lost' = lost /\ retry' = retry + 1
    BY <1>3 DEF Again, AllAnswered
  <2>2. Entries(cache, range) # {}
    BY <2>1, RpcAssumption DEF AgreeInv
  <2>3. retry = 0
    <3>1. SUFFICES ASSUME retry = 1 PROVE FALSE
      BY <2>1 DEF AgreeInv
    <3>. DEFINE i == Entry(cache, range)
    <3>2. i \in DOMAIN cache /\ cache[i].key = range
      BY <2>2, EntryFound
    <3>3. cache[i].response.status # 0
      BY <3>2 DEF TypeInv, GoodCache
    <3>4. \A r \in Replica : task[r].response = cache[i].response
      BY <2>1, <3>1, <3>2 DEF AgreeInv
    <3>5. Agreed(cache[i].response) /\ cache[i].response \in Responses
      BY <3>4, Unanimous
    <3>. QED
      BY <2>1, <3>3, <3>5
  <2>4. task' = Outcalls /\ retry' = 1
    BY <1>3, <2>1, <2>3 DEF Again
  <2>. QED
    BY <2>1, <2>2, <2>4, OutcallsType DEF AgreeInv
<1>4. ASSUME NEW x \in Responses, Got(x) PROVE AgreeInv'
  <2>. DEFINE next == Split(x.end, x.total)
              more == x.status = 206 /\ next[1] < next[2]
  <2>1. x.status = 206 => next[1] # 0
    BY GoodAnswer DEF Split, GoodResponse, ResponseType
  <2>. HIDE DEF next
  <2>2. CASE more
    BY <1>4, <2>1, <2>2 DEF Got, next
  <2>3. CASE ~ more
    <3>1. task' = [r \in Replica |-> Idle] /\ retry' = retry /\ lost' = lost /\ phase' # "outcall"
            /\ range' = IF x.status = 206 THEN next ELSE range
      BY <1>4, <2>3 DEF Got, next, Outcomes
    <3>. QED
      BY <2>1, <3>1, IdleType DEF AgreeInv
  <2>. QED
    BY <2>2, <2>3
<1>5. CASE NodeMoves
  BY <1>5 DEF NodeMoves, client, AgreeInv
<1>6. CASE UNCHANGED vars
  BY <1>6 DEF vars, AgreeInv
<1>. QED
  BY <1>1, <1>2, <1>3, <1>4, <1>5, <1>6 DEF Next, Answer

(* When no outcall fails, the first range of a call needs at most two      *)
(* attempts, however often the node's reply changes meanwhile: the cache   *)
(* answers the second one (forward, MemoryCache::put and the retries of    *)
(* make_single_request).                                                   *)
THEOREM SecondAttemptAgrees == Spec => []RetryAgrees
<1>1. TypeInv /\ AgreeInv => RetryAgrees
  BY DEF AgreeInv, RetryAgrees
<1>. QED
  BY <1>1, InitAgree, StepAgree, TypeInvariant, PTL DEF Spec

-----------------------------------------------------------------------------
(* A reply that stays the same.                                            *)

(* A part that begins where the others end leaves no gap.                  *)
LEMMA AppendedPart ==
  ASSUME NEW b \in Seq(PartType), NEW p \in PartType, Contiguous(b), p.first = Received(b),
         b # <<>> => p.version = b[1].version
  PROVE  Contiguous(Append(b, p)) /\ Received(Append(b, p)) = p.first + p.size
<1>. DEFINE new == Append(b, p)
<1>1. /\ new \in Seq(PartType) /\ Len(new) = Len(b) + 1 /\ new[Len(b) + 1] = p
      /\ \A i \in 1..Len(b) : new[i] = b[i]
  OBVIOUS
<1>. HIDE DEF new
<1>2. new # <<>> /\ Received(new) = p.first + p.size
  BY <1>1 DEF Received
<1>3. ASSUME NEW i \in DOMAIN new
      PROVE  /\ new[i].version = new[1].version
             /\ new[i].first = (IF i = 1 THEN 0 ELSE new[i-1].first + new[i-1].size)
  <2>1. CASE i \in 1..Len(b)
    <3>1. /\ b[i].version = b[1].version
          /\ b[i].first = (IF i = 1 THEN 0 ELSE b[i-1].first + b[i-1].size)
      BY <2>1 DEF Contiguous
    <3>2. 1 \in 1..Len(b) /\ (i # 1 => i - 1 \in 1..Len(b))
      BY <2>1
    <3>. QED
      BY <1>1, <2>1, <3>1, <3>2
  <2>2. CASE i = Len(b) + 1 /\ b = <<>>
    BY <1>1, <2>2 DEF Received
  <2>3. CASE i = Len(b) + 1 /\ b # <<>>
    BY <1>1, <2>3 DEF Received
  <2>. QED
    BY <1>1, <1>3, <2>1, <2>2, <2>3
<1>. QED
  BY <1>2, <1>3 DEF Contiguous, new

(* What the proxy cuts out of a longer reply.                              *)
LEMMA ForwardedParts ==
  ASSUME NEW n, n.version \in Nat, n.size \in Nat \ {0},
         NEW r \in Nat \X Nat, r[1] < r[2],
         r[1] = 0 \/ r[2] <= n.size - 1
  PROVE  LET x == Forwarded(n, r) IN
         \/ /\ x.status = 200 /\ r[1] = 0
            /\ x.part = Part(n.version, 0, n.size)
         \/ /\ x.status = 206 /\ r[2] <= n.size - 1
            /\ x.part = Part(n.version, r[1], r[2] + 1 - r[1])
            /\ x.end = r[2] /\ x.total = n.size
<1>. DEFINE length == r[2] - r[1] + 1
<1>0. r[1] \in Nat /\ r[2] \in Nat
  OBVIOUS
<1>1. CASE n.size <= length
  <2>1. Forwarded(n, r) = Response(200, Part(n.version, 0, n.size), 0, 0)
    BY <1>1 DEF Forwarded
  <2>2. r[1] = 0
    BY <1>0, <1>1
  <2>. QED
    BY <2>1, <2>2 DEF Response
<1>2. CASE ~ (n.size <= length)
  <2>1. r[2] <= n.size - 1 /\ ~ (r[1] > n.size)
    BY <1>0, <1>2
  <2>2. Forwarded(n, r) = Response(206, Part(n.version, r[1], r[2] + 1 - r[1]), r[2], n.size)
    BY <1>0, <1>2, <2>1 DEF Forwarded
  <2>. QED
    BY <2>1, <2>2 DEF Response
<1>. QED
  BY <1>1, <1>2

(***************************************************************************)
(* While the node's reply is the first one, all that is in the cache or on *)
(* the way to a replica is cut out of it, and the parts received end where *)
(* the range asked for begins.                                             *)
(***************************************************************************)
WholeInv ==
  node.version = 1 =>
    /\ \A i \in DOMAIN cache : cache[i].response = Forwarded(node, cache[i].key)
    /\ \A r \in Replica : /\ task[r].at = "store" => task[r].response = Forwarded(node, range)
                          /\ task[r].at = "answered" =>
                               task[r].response \in {Forwarded(node, range), Failed, ServerError}
    /\ phase = "outcall" =>
         /\ Contiguous(buf) /\ Received(buf) = range[1]
         /\ \A i \in DOMAIN buf : buf[i].version = 1
         /\ range[1] = 0 => buf = <<>>
         /\ range[1] # 0 => range[2] <= node.size - 1
    /\ phase = "ok" => Contiguous(buf) /\ node.size - Received(buf) \in {0, 1}

(* Without failures each answer is the one cut out, and no call ends in an *)
(* error.                                                                  *)
SureInv ==
  node.version = 1 /\ lost = 0 =>
    /\ phase # "error"
    /\ \A r \in Replica : task[r].at = "answered" => task[r].response = Forwarded(node, range)

LEMMA InitWhole == Init => WholeInv /\ SureInv
BY DEF Init, WholeInv, SureInv, Idle

(***************************************************************************)
(* A step of an outcall brings parts of the one reply only.                *)
(***************************************************************************)
LEMMA OutcallWhole ==
  ASSUME TypeInv, WholeInv, NEW r \in Replica, Outcall(r)
  PROVE  WholeInv'
<1>0. /\ phase = "outcall" /\ UNCHANGED <<node, client>>
      /\ \A q \in Replica : q # r => task'[q] = task[q]
      /\ Hit(r) \/ Miss(r) \/ Fetched(r) \/ Stored(r) \/ Fails(r)
  BY OutcallSteps
<1>1. SUFFICES ASSUME node.version = 1
      PROVE  /\ \A i \in DOMAIN cache' : cache'[i].response = Forwarded(node, cache'[i].key)
             /\ task'[r].at = "store" => task'[r].response = Forwarded(node, range)
             /\ task'[r].at = "answered" =>
                  task'[r].response \in {Forwarded(node, range), Failed, ServerError}
  BY <1>0 DEF WholeInv, client
<1>2. CASE Hit(r)
  BY <1>1, <1>2, EntryFound DEF Hit, WholeInv
<1>3. CASE Miss(r)
  BY <1>1, <1>3 DEF Miss, WholeInv
<1>4. CASE Fetched(r)
  BY <1>1, <1>4 DEF Fetched, WholeInv
<1>5. CASE Stored(r)
  <2>1. task[r].response = Forwarded(node, range)
    BY <1>1, <1>5 DEF Stored, WholeInv
  <2>2. ASSUME NEW i \in DOMAIN cache'
        PROVE  cache'[i].response = Forwarded(node, cache'[i].key)
    <3>1. CASE cache'[i] = [key |-> range, response |-> task[r].response]
      BY <2>1, <3>1
    <3>2. CASE \E j \in DOMAIN cache : cache'[i] = cache[j]
      BY <1>1, <3>2 DEF WholeInv
    <3>. QED
      BY <1>5, <2>2, <3>1, <3>2 DEF Stored
  <2>. QED
    BY <1>5, <2>1, <2>2 DEF Stored
<1>6. CASE Fails(r)
  BY <1>1, <1>6 DEF Fails, WholeInv
<1>. QED
  BY <1>0, <1>2, <1>3, <1>4, <1>5, <1>6

(* ... and, if it does not fail, the answer that is due.                   *)
LEMMA OutcallSure ==
  ASSUME TypeInv, WholeInv, SureInv, NEW r \in Replica, Outcall(r)
  PROVE  SureInv'
<1>0. /\ phase = "outcall" /\ UNCHANGED <<node, client>>
      /\ \A q \in Replica : q # r => task'[q] = task[q]
      /\ Hit(r) \/ Miss(r) \/ Fetched(r) \/ Stored(r) \/ Fails(r)
  BY OutcallSteps
<1>1. SUFFICES ASSUME node.version = 1, lost' = 0 PROVE SureInv'
  BY <1>0 DEF SureInv
<1>2. ~ Fails(r) /\ lost = 0
  BY <1>0, <1>1, NaturalsOfState DEF Fails, Hit, Miss, Fetched, Stored
<1>3. task'[r].at = "answered" => task'[r].response = Forwarded(node, range)
  <2>1. CASE Hit(r)
    BY <1>1, <2>1, EntryFound DEF Hit, WholeInv
  <2>2. CASE Miss(r)
    BY <2>2 DEF Miss
  <2>3. CASE Fetched(r)
    BY <2>3 DEF Fetched
  <2>4. CASE Stored(r)
    BY <1>1, <2>4 DEF Stored, WholeInv
  <2>. QED
    BY <1>0, <1>2, <2>1, <2>2, <2>3, <2>4
<1>. QED
  BY <1>0, <1>1, <1>2, <1>3 DEF SureInv, client

(* What is received without gap parses if one byte at most is missing.     *)
LEMMA WholeParses ==
  ASSUME NEW b \in Seq(PartType), Contiguous(b), \A i \in DOMAIN b : b[i].version = 1,
         NEW total \in Nat, total - Received(b) <= 1
  PROVE  Outcomes(b, total) = {"ok"}
<1>1. \A i \in DOMAIN b : b[i] # NoPart
  BY DEF NoPart, Part
<1>2. \A i \in DOMAIN b : b[i].version = b[1].version
  BY DEF Contiguous
<1>. QED
  BY <1>1, <1>2 DEF Outcomes

(***************************************************************************)
(* An outcall that succeeds brings the part that is due; either the next   *)
(* range follows it, or nothing but the last byte can be missing.          *)
(***************************************************************************)
LEMMA GotWhole ==
  ASSUME TypeInv, WholeInv, node.version = 1, NEW x \in Responses, Got(x)
  PROVE  WholeInv' /\ (SureInv => SureInv')
<1>. DEFINE next == Split(x.end, x.total)
            more == x.status = 206 /\ next[1] < next[2]
            b == Append(buf, x.part)
            total == IF x.status = 206 THEN x.total ELSE x.part.size
<1>1. /\ phase = "outcall" /\ \A r \in Replica : task[r].at = "answered"
      /\ x.status # 0 /\ buf' = b /\ UNCHANGED <<node, cache, lost, calls>>
      /\ more => range' = next /\ phase' = "outcall" /\ task' = Outcalls
      /\ ~ more => phase' \in Outcomes(b, total) /\ task' = [r \in Replica |-> Idle]
  BY DEF Got, AllAnswered
<1>2. /\ buf \in Seq(PartType) /\ GoodResponse(x) /\ x.part \in PartType
      /\ node.size \in Nat \ {0} /\ range \in Nat \X Nat /\ range[1] < range[2]
      /\ range[1] \in Nat /\ range[2] \in Nat
  BY <1>1, GoodAnswer, NaturalsOfState DEF TypeInv, TypeOK, GoodResponse, ResponseType
<1>3. /\ Contiguous(buf) /\ Received(buf) = range[1] /\ \A i \in DOMAIN buf : buf[i].version = 1
      /\ range[1] = 0 => buf = <<>>
      /\ range[1] # 0 => range[2] <= node.size - 1
  BY <1>1 DEF WholeInv
<1>4. b \in Seq(PartType) /\ Len(b) = Len(buf) + 1 /\ b[Len(b)] = x.part
        /\ \A i \in DOMAIN buf : b[i] = buf[i]
  BY <1>2
<1>5. /\ \A r \in Replica : Outcalls[r].at = "lookup"
      /\ \A r \in Replica : [q \in Replica |-> Idle][r].at = "idle"
  BY OutcallsType, IdleType
<1>. HIDE DEF b, next, total
<1>6. x \in {Forwarded(node, range), Failed, ServerError}
  BY <1>1 DEF WholeInv, Responses
<1>7. CASE x = ServerError
  <2>1. ~ more /\ x.part = NoPart
    BY <1>7 DEF ServerError, Response
  <2>2. phase' = "error"
    BY <1>1, <1>4, <2>1 DEF Outcomes
  <2>3. SureInv => lost # 0
    <3>1. SUFFICES ASSUME SureInv, lost = 0 PROVE FALSE
      OBVIOUS
    <3>2. x = Forwarded(node, range)
      BY <1>1, <3>1 DEF SureInv, Responses
    <3>. QED
      BY <1>2, <1>3, <1>7, <3>2, ForwardedParts, FailureTypes
  <2>. QED
    BY <1>1, <1>5, <2>1, <2>2, <2>3 DEF WholeInv, SureInv
<1>8. CASE x = Forwarded(node, range)
  <2>1. \/ /\ x.status = 200 /\ range[1] = 0
           /\ x.part = Part(1, 0, node.size)
        \/ /\ x.status = 206 /\ range[2] <= node.size - 1
           /\ x.part = Part(1, range[1], range[2] + 1 - range[1])
           /\ x.end = range[2] /\ x.total = node.size
    BY <1>2, <1>3, <1>8, ForwardedParts
  <2>2. x.part.first = range[1] /\ x.part.version = 1
    BY <2>1 DEF Part
  <2>3. buf # <<>> => x.part.version = buf[1].version
    BY <1>2, <1>3, <2>2
  <2>4. Contiguous(b) /\ Received(b) = x.part.first + x.part.size
    BY <1>2, <1>3, <2>2, <2>3, AppendedPart DEF b
  <2>5. \A i \in DOMAIN b : b[i].version = 1
    <3>1. \A i \in DOMAIN b : i = Len(b) \/ i \in DOMAIN buf
      BY <1>2, <1>4
    <3>. QED
      BY <1>3, <1>4, <2>2, <3>1
  <2>6. CASE more
    <3>1. x.part.size = range[2] + 1 - range[1] /\ x.end = range[2] /\ x.total = node.size
            /\ range[2] <= node.size - 1
      BY <2>1, <2>6 DEF Part
    <3>2. Received(b) = range[2] + 1
      BY <1>2, <2>2, <2>4, <3>1
    <3>3. next[1] = range[2] + 1 /\ next[2] <= node.size - 1
      BY <1>2, <3>1, RpcAssumption DEF next, Split
    <3>. QED
      BY <1>1, <1>2, <1>5, <2>4, <2>5, <2>6, <3>2, <3>3 DEF WholeInv, SureInv
  <2>7. CASE ~ more
    <3>1. total = node.size /\ node.size - Received(b) \in {0, 1}
      <4>1. CASE x.status = 200
        BY <1>2, <2>1, <2>4, <4>1 DEF total, Part
      <4>2. CASE x.status = 206
        <5>1. /\ x.part.size = range[2] + 1 - range[1] /\ x.end = range[2]
              /\ x.total = node.size /\ range[2] <= node.size - 1
          BY <2>1, <4>2 DEF Part
        <5>2. Received(b) = range[2] + 1
          BY <1>2, <2>2, <2>4, <5>1
        <5>3. ~ (next[1] < next[2]) /\ next[1] = range[2] + 1
                /\ next[2] = IF range[2] + 1 + Limit >= node.size
                             THEN node.size - 1 ELSE range[2] + 1 + Limit - 1
          BY <1>2, <2>7, <4>2, <5>1 DEF next, Split
        <5>. QED
          BY <1>2, <4>2, <5>1, <5>2, <5>3, RpcAssumption DEF total
      <4>. QED
        BY <2>1, <4>1, <4>2
    <3>2. Outcomes(b, total) = {"ok"}
      BY <1>2, <1>4, <2>4, <2>5, <3>1, WholeParses
    <3>. QED
      BY <1>1, <1>5, <2>4, <2>7, <3>1, <3>2 DEF WholeInv, SureInv
  <2>. QED
    BY <2>6, <2>7
<1>. QED
  BY <1>1, <1>6, <1>7, <1>8, FailureTypes

LEMMA StepWhole == TypeInv /\ WholeInv /\ [Next]_vars => WholeInv'
<1>. SUFFICES ASSUME TypeInv, WholeInv, [Next]_vars PROVE WholeInv'
  OBVIOUS
<1>1. CASE Call
  <2>1. /\ range' = <<0, FirstLimit - 1>> /\ buf' = <<>> /\ phase' = "outcall"
        /\ task' = Outcalls /\ node' = node /\ cache' = cache
    BY <1>1 DEF Call
  <2>2. Contiguous(buf') /\ Received(buf') = 0
    BY <2>1 DEF Contiguous, Received
  <2>. QED
    BY <2>1, <2>2, OutcallsType DEF WholeInv
<1>2. CASE \E r \in Replica : Outcall(r)
  BY <1>2, OutcallWhole
<1>3. CASE Again
  <2>1. \/ task' = Outcalls /\ phase' = phase
        \/ task' = [r \in Replica |-> Idle] /\ phase' = "error"
    BY <1>3 DEF Again
  <2>2. UNCHANGED <<node, cache, range, buf>>
    BY <1>3 DEF Again
  <2>3. \A r \in Replica : task'[r].at \in {"lookup", "idle"}
    BY <2>1, OutcallsType, IdleType
  <2>. QED
    BY <2>1, <2>2, <2>3 DEF WholeInv
<1>4. ASSUME NEW x \in Responses, Got(x) PROVE WholeInv'
  BY <1>4, GotWhole DEF Got, WholeInv
<1>5. CASE NodeMoves
  BY <1>5 DEF NodeMoves, TypeInv, TypeOK, WholeInv
<1>6. CASE UNCHANGED vars
  BY <1>6 DEF vars, WholeInv
<1>. QED
  BY <1>1, <1>2, <1>3, <1>4, <1>5, <1>6 DEF Next, Answer

LEMMA StepSure == TypeInv /\ WholeInv /\ SureInv /\ [Next]_vars => SureInv'
<1>. SUFFICES ASSUME TypeInv, WholeInv, SureInv, [Next]_vars PROVE SureInv'
  OBVIOUS
<1>1. CASE Call
  BY <1>1, OutcallsType DEF Call, SureInv
<1>2. CASE \E r \in Replica : Outcall(r)
  BY <1>2, OutcallSure
<1>3. CASE Again
  <2>1. /\ phase = "outcall" /\ \A r \in Replica : task[r].at = "answered"
        /\ \A x \in Responses : x.status # 0 => ~ Agreed(x)
        /\ UNCHANGED <<node, lost>>
    BY <1>3 DEF Again, AllAnswered
  <2>2. SUFFICES ASSUME node.version = 1, lost = 0 PROVE FALSE
    BY <2>1 DEF SureInv
  <2>3. \A r \in Replica : task[r].response = Forwarded(node, range)
    BY <2>1, <2>2 DEF SureInv
  <2>4. Forwarded(node, range).status # 0
    BY <2>1, <2>2, NaturalsOfState, ForwardedParts DEF WholeInv
  <2>. QED
    BY <2>1, <2>3, <2>4, Unanimous
<1>4. ASSUME NEW x \in Responses, Got(x) PROVE SureInv'
  BY <1>4, GotWhole DEF Got, SureInv
<1>5. CASE NodeMoves
  BY <1>5 DEF NodeMoves, TypeInv, TypeOK, SureInv
<1>6. CASE UNCHANGED vars
  BY <1>6 DEF vars, SureInv
<1>. QED
  BY <1>1, <1>2, <1>3, <1>4, <1>5, <1>6 DEF Next, Answer

(* Whatever the sizes of the reply, of the first range and of the others,  *)
(* the ranges of a call meet, and a reply that stays the same is received  *)
(* but for its last byte at most (split and the loop of make_rpc).         *)
THEOREM RangesMeet == Spec => []Gapless
<1>1. WholeInv => Gapless
  BY DEF WholeInv, Gapless
<1>. QED
  BY <1>1, InitWhole, StepWhole, TypeInvariant, PTL DEF Spec

(* A reply that stays the same is received whatever its size, when no      *)
(* outcall fails (make_rpc and make_single_request).                       *)
THEOREM UnchangingReplyIsReceived == Spec => []UnchangingReplyReceived
<1>1. SureInv => UnchangingReplyReceived
  BY DEF SureInv, UnchangingReplyReceived
<1>. QED
  BY <1>1, InitWhole, StepWhole, StepSure, TypeInvariant, PTL DEF Spec
=============================================================================
