---------------------------- MODULE MCRuneLedger ----------------------------
(***************************************************************************)
(* Instances of RuneLedger.tla: chains of up to four blocks with forks     *)
(* everywhere.  Between them their transactions etch with a name, without  *)
(* one and as a cenotaph, mint up to the cap and beyond, split, burn, and  *)
(* spend in the block that created.                                        *)
(***************************************************************************)
EXTENDS RuneLedger

A == <<0, 1>>
B == <<0, 2>>
C == <<0, 3>>
D == <<0, 4>>

NoArtifact == [kind |-> "none", mint |-> {}, etching |-> {}, edicts |-> <<>>, pointer |-> {}]
Stone == [NoArtifact EXCEPT !.kind = "runestone"]
Cenotaph == [NoArtifact EXCEPT !.kind = "cenotaph"]

Etching(name, premine, terms) == {[name |-> name, premine |-> premine, terms |-> terms]}

(* Two mints of 2, from the block after the etching to below height 5.     *)
TermsOfA ==
  {[amount |-> 2, cap |-> 2, offset |-> [from |-> {1}, to |-> {}],
    height |-> [from |-> {}, to |-> {5}]]}

Edict(id, amount, output) == [id |-> id, amount |-> amount, output |-> output]

IdOfA == <<1, 0>>

(***************************************************************************)
(* Per transaction: inputs, outputs, artifact and commitment.              *)
(***************************************************************************)
Transactions ==
  [etchA  |-> [in |-> {}, out |-> <<"pay", "op_return">>, commitment |-> "yes",
               artifact |-> [Stone EXCEPT !.etching = Etching({A}, 5, TermsOfA)]],
   mint1  |-> [in |-> {}, out |-> <<"pay">>, commitment |-> "none",
               artifact |-> [Stone EXCEPT !.mint = {IdOfA}]],
   split  |-> [in |-> {<<"etchA", 0>>}, out |-> <<"pay", "op_return", "pay">>,
               commitment |-> "none",
               artifact |-> [Stone EXCEPT !.edicts = <<Edict(IdOfA, 0, 3)>>]],
   noname |-> [in |-> {}, out |-> <<"pay", "op_return">>, commitment |-> "none",
               artifact |-> [Stone EXCEPT !.etching = Etching({}, 3, {}),
                                          !.edicts = <<Edict(ThisRune, 1, 1)>>]],
   etchC  |-> [in |-> {}, out |-> <<"pay">>, commitment |-> "no",
               artifact |-> [Stone EXCEPT !.etching = Etching({C}, 4, {})]],
   mint2  |-> [in |-> {<<"mint1", 0>>}, out |-> <<"pay", "pay">>, commitment |-> "none",
               artifact |-> [Stone EXCEPT !.mint = {IdOfA}, !.pointer = {1},
                                          !.edicts = <<Edict(IdOfA, 3, 2)>>]],
   burnB  |-> [in |-> {<<"split", 0>>}, out |-> <<"pay">>, commitment |-> "yes",
               artifact |-> [Cenotaph EXCEPT !.etching = Etching({B}, 9, {})]],
   spend  |-> [in |-> {<<"mint2", 0>>}, out |-> <<"op_return", "pay">>, commitment |-> "none",
               artifact |-> NoArtifact],
   mint3  |-> [in |-> {<<"split", 2>>}, out |-> <<"pay">>, commitment |-> "none",
               artifact |-> [Stone EXCEPT !.mint = {IdOfA}]],
   again  |-> [in |-> {}, out |-> <<"pay">>, commitment |-> "yes",
               artifact |-> [Stone EXCEPT !.etching = Etching({A}, 7, {})]],
   etchB  |-> [in |-> {}, out |-> <<"op_return", "pay">>, commitment |-> "yes",
               artifact |-> [Stone EXCEPT !.etching = Etching({B}, 2, {}),
                                          !.edicts = <<Edict(ThisRune, 1, 1),
                                                       Edict(IdOfA, 1, 0)>>]],
   etchD  |-> [in |-> {<<"mint2", 1>>}, out |-> <<"pay", "pay">>, commitment |-> "yes",
               artifact |-> [Stone EXCEPT !.etching = Etching({D}, 5, {}),
                                          !.edicts = <<Edict(ThisRune, 0, 2)>>]],
   lose   |-> [in |-> {<<"noname", 0>>}, out |-> <<"op_return">>, commitment |-> "none",
               artifact |-> NoArtifact]]

MCInputs == [tx \in DOMAIN Transactions |-> Transactions[tx].in]
MCOutputs == [tx \in DOMAIN Transactions |-> Transactions[tx].out]
MCArtifact == [tx \in DOMAIN Transactions |-> Transactions[tx].artifact]
MCCommitment == [tx \in DOMAIN Transactions |-> Transactions[tx].commitment]
MCEtchable == {"etchA", "etchB", "etchC", "etchD", "burnB", "again"}

(***************************************************************************)
(* What a block may hold at each height.  A block is the sequence of       *)
(* choices that leads to it, and all those that make a valid chain exist.  *)
(***************************************************************************)
Menu ==
  <<{<<"etchA">>, <<"etchA", "noname">>, <<"etchA", "split">>},
    {<<"mint1", "split", "noname", "etchC">>, <<"etchB", "split">>, <<"split", "mint1">>,
     <<"mint1", "etchC">>, <<"noname", "etchC">>, <<"split", "noname">>},
    {<<"mint2", "burnB", "spend">>, <<"etchB", "mint2">>, <<"mint1", "noname">>,
     <<"mint3", "etchC", "burnB">>, <<"noname", "etchB">>, <<"split", "again">>,
     <<"mint1", "mint2", "etchD">>},
    {<<"mint3", "again", "lose">>, <<"burnB", "lose", "again">>, <<"mint2", "spend", "etchB">>,
     <<"again", "mint1", "mint2", "spend">>, <<"mint1", "mint2">>,
     <<"etchD", "lose">>, <<"spend", "etchD", "etchB">>}>>

MCNoBlock == <<>>

Paths ==
  LET Grow(S, i) == {Append(p, txs) : p \in S, txs \in Menu[i]}
      One == Grow({<<>>}, 1) Two == Grow(One, 2) Three == Grow(Two, 3)
  IN One \cup Two \cup Three \cup Grow(Three, 4)

Placed(p) == FlattenSeq(p)

(* Each output is spent at most once, after it is created.                 *)
Valid(p) ==
  LET txs == Placed(p) IN
  \A i \in DOMAIN txs :
    /\ \A j \in 1..i - 1 : /\ txs[j] # txs[i]
                           /\ MCInputs[txs[i]] \cap MCInputs[txs[j]] = {}
    /\ \A o \in MCInputs[txs[i]] : \E j \in 1..i - 1 : txs[j] = o[1]

MCBlock == {p \in Paths : Valid(p)}
MCParent == [p \in MCBlock |-> SubSeq(p, 1, Len(p) - 1)]
MCTxs == [p \in MCBlock |-> p[Len(p)]]
=============================================================================
