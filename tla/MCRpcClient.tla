---------------------------- MODULE MCRpcClient -----------------------------
(***************************************************************************)
(* Instances of RpcClient.tla for TLC.                                     *)
(***************************************************************************)
EXTENDS RpcClient, TLC

(* The replicas are interchangeable, and no property tells them apart.     *)
Replicas == Permutations(Replica)

(* Replies from one range to three, with a last range of one byte or two.  *)
MCSizes == 2..7
=============================================================================
