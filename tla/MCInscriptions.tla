--------------------------- MODULE MCInscriptions ---------------------------
(***************************************************************************)
(* Instances of InscriptionQueries.tla: four heights with a menu of        *)
(* transactions that make inscriptions in every way, and then move, split, *)
(* burn, lose and give them to the fee.  Txids have one byte.              *)
(***************************************************************************)
EXTENDS InscriptionQueries

Pay(n) == [value |-> n, script |-> "alice"]
Bob(n) == [value |-> n, script |-> "bob"]
Burn(n) == [value |-> n, script |-> OpReturn]

TxA == <<1>>
TxB == <<2>>
TxD == <<4>>
TxE == <<5>>
TxF == <<6>>
CoinbaseId(h) == <<10 + h>>

(* Script i, if there is one, is revealed in input i.                      *)
Tx(id, ins, outs, scripts) ==
  [id |-> id, inputs |-> ins, outputs |-> outs,
   witnesses |-> [i \in DOMAIN ins |->
                    IF i \in DOMAIN scripts /\ scripts[i] # <<>> THEN {scripts[i]} ELSE {}]]

Coinbase(h, outs) == Tx(CoinbaseId(h), <<>>, outs, <<>>)

MCMediaTable == <<[type |-> <<7>>, media |-> "image", extensions |-> {"png"}]>>

(* A picture is shown, a child is hidden for its body.                      *)
MCHidden == {<<9>>}

MCConfigs == [sats : {TRUE}, addresses : {TRUE}] \cup [sats : {FALSE}, addresses : {FALSE}]
DefaultConfig == [sats : {FALSE}, addresses : {FALSE}]

Picture ==
  [path |-> TRUE, compress |-> FALSE, delegate |-> {}, metadata |-> {}, metaprotocol |-> {},
   file |-> [bytes |-> <<3>>, brotli |-> <<>>, extension |-> "png", codec |-> TRUE],
   parents |-> <<>>, pointer |-> {}, rune |-> {}]

Plain == RevealScript(New(Picture))
To(n) == RevealScript(New([Picture EXCEPT !.pointer = {n}]))
ChildOf(id) == RevealScript(New([Picture EXCEPT !.parents = <<id>>, !.file.bytes = <<9>>]))
LikeOf(id) == RevealScript(New([Picture EXCEPT !.path = FALSE, !.delegate = {id}]))
Even == <<OpFalse, OpIf, ProtocolId, Push(<<66>>), Push(<<1>>), OpEndIf>>
Odd == <<OpFalse, OpFalse, OpIf, ProtocolId, PushNum(1), OpEndIf>>

FirstOfA == [txid |-> TxA, index |-> 0]

(* One coinbase that takes all but "short" of what it may.                 *)
Paying(h, fees, short) == Coinbase(h, <<Bob(Subsidy + fees - short)>>)

(* Inscriptions made: one, a second in the same input, by pointer, with an *)
(* unrecognized even field; on an output, one without value, one burned,   *)
(* and beyond the outputs, so that they go to the fee.                     *)
First ==
  {<<Paying(1, 0, by[1]), Tx(TxA, <<<<CoinbaseId(0), 0>>>>, by[2], <<script>>)>> :
     by \in {<<0, <<Pay(1), Pay(0), Bob(1)>>>>, <<0, <<Burn(1), Pay(1)>>>>,
             <<0, <<Pay(0)>>>>, <<2, <<Pay(0)>>>>},
     script \in {Plain \o Odd, To(1) \o Even, To(2) \o LikeOf(FirstOfA)}}
  \cup
  {<<Paying(1, 0, 0), Tx(TxA, <<<<CoinbaseId(0), 0>>>>, <<Pay(1), Pay(0), Bob(1)>>, <<Plain>>),
     Tx(TxF, <<<<CoinbaseId(0), 1>>>>, <<Bob(1)>>, <<Plain>>)>>}

(* Moved, with or without a fee, and new ones beside or on top of them.    *)
Second ==
  {<<Paying(2, coins[1], coins[2]), Tx(TxB, ins, to[1], to[2])>> :
     coins \in {<<0, 0>>, <<2, 1>>},
     ins \in {<<<<TxA, 0>>, <<TxA, 2>>>>, <<<<TxA, 1>>, <<CoinbaseId(1), 0>>>>,
              <<<<CoinbaseId(1), 0>>, <<TxA, 0>>>>},
     to \in {<<<<Pay(2)>>, <<Plain, Plain>>>>,
             <<<<Pay(2)>>, <<ChildOf(FirstOfA), To(0) \o LikeOf(FirstOfA)>>>>,
             <<<<Burn(1), Pay(2)>>, <<>>>>,
             <<<<Burn(1), Pay(2)>>, <<<<>>, Plain \o Even>>>>}}
  \cup
  {<<Paying(2, 0, 0), Tx(TxB, <<<<TxA, 0>>>>, <<Burn(1)>>, <<Odd>>),
     Tx(TxF, <<<<CoinbaseId(0), 1>>>>, <<Bob(1)>>, <<>>)>>}

(* Spent in the block that made it, all given to the fee, or left alone.   *)
Third ==
  {<<Paying(3, 2, 4), Tx(TxD, <<<<TxB, 0>>>>, <<Pay(1), Pay(1)>>, <<>>),
     Tx(TxE, <<<<TxD, 1>>, <<TxD, 0>>>>, <<>>, <<<<>>, Plain>>)>>,
   <<Coinbase(3, <<Burn(1), Pay(1)>>), Tx(TxD, <<<<CoinbaseId(2), 0>>>>, <<Bob(2)>>, <<Plain>>)>>}

MCMenu ==
  <<{<<Coinbase(0, outs)>> : outs \in {<<Pay(2)>>, <<Pay(2), Pay(1)>>}},
    First, Second, Third>>
=============================================================================
