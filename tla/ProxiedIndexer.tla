--------------------------- MODULE ProxiedIndexer ---------------------------
(***************************************************************************)
(* The indexing loop of Indexer.tla behind the proxy of                    *)
(* src/bitcoin-rpc-proxy.  A getblockhash has the height for its only      *)
(* parameter, its reply fits in one range, and the proxy turns a reply     *)
(* that fits into a 200 whatever status the node gave it.  So the first    *)
(* answer for a height, a hash or "Block height out of range", goes into   *)
(* the cache and is the answer from then on (RpcClient.tla has the ranges  *)
(* and the replicas).  Blocks and transactions are asked for by their hash *)
(* and do not change.                                                      *)
(*                                                                         *)
(* The cache holds a thousand replies, more than are asked for here.  This *)
(* module is for instances in which no call fails (Fallible is empty) and  *)
(* no commitment is looked up (Commits is empty).                          *)
(***************************************************************************)
EXTENDS IndexerProperties

VARIABLE answers  \* the proxy's cache: height -> hash, or NoBlock for the error

proxied == <<vars, answers>>

(***************************************************************************)
(* The proxy's answer for a height: the cached one, or the node's.         *)
(***************************************************************************)
Answer(h) == IF h \in DOMAIN answers THEN answers[h] ELSE NodeBlockHash(h)

Longest == CHOOSE n \in {Len(c) : c \in Chain} : \A c \in Chain : Len(c) <= n

(* The best chain as it looks through the proxy, one height beyond all.    *)
Seen == [i \in 1..Longest + 1 |-> Answer(i - 1)]

Client == INSTANCE Indexer WITH best <- Seen

(***************************************************************************)
(* A step of an index thread; the answer it waited for is in the cache     *)
(* when it arrives.                                                        *)
(***************************************************************************)
ProxiedStep(l) ==
  LET asked == IF loop[l].pc \in {"hash", "detect"} THEN {loop[l].height - loop[l].depth} ELSE {}
  IN
  /\ answers' = [h \in DOMAIN answers \cup asked |-> Answer(h)]
  /\ UNCHANGED best
  /\ Client!Step(l)

Controller ==
  /\ UNCHANGED <<best, answers>>
  /\ (\E l \in Loop : Client!Start(l)) \/ Client!Stop \/ Client!Upgrade

ProxiedInit == Init /\ answers = [h \in {} |-> NoBlock]

ProxiedNext ==
  \/ NodeStep /\ UNCHANGED answers
  \/ \E l \in Loop : ProxiedStep(l)
  \/ Controller

(* As in Indexer.tla; without failures weak fairness is enough.            *)
ProxiedSpec ==
  /\ ProxiedInit /\ [][ProxiedNext]_proxied
  /\ \A l \in Loop : WF_proxied(ProxiedStep(l))

(***************************************************************************)
(* README.md:147: "Data freshness < 3 block confirmations".                *)
(***************************************************************************)
Fresh == ~ NoHeaders /\ Len(best) - (Top(headers) + 1) < 3

StaysFresh == <>(\E l \in Loop : loop[l].pc = "timer") => []<>Fresh
=============================================================================
