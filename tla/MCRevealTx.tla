----------------------------- MODULE MCRevealTx -----------------------------
(***************************************************************************)
(* Scripts of a few instructions, with every way an envelope may begin,    *)
(* break off or be nested; fields of every tag and length; and batches of  *)
(* inscriptions.  Txids have one byte, indexes and pointers two, pushes at *)
(* most two.                                                               *)
(***************************************************************************)
EXTENDS RevealTx

MCInstructions ==
  {OpFalse, OpIf, OpEndIf, ProtocolId, OtherOp, DecodeError, PushNum(-1), Push(Tag.Pointer)}

MCFieldMenu ==
  {<<Tag.Pointer, v>> : v \in {<<0, 1>>, <<1, 0, 0>>, <<1, 0, 1>>}}
  \cup {<<Tag.Parent, v>> : v \in {<<9>>, <<9, 0>>, <<9, 1, 0>>, <<9, 1, 0, 0>>}}
  \cup {<<<<66>>, <<1>>>>, <<Tag.Metadata, <<4>>>>, <<Tag.ContentType, <<>>>>}

MCMediaTable ==
  <<[type |-> <<7>>, media |-> "image", extensions |-> {"png", "apng"}],
    [type |-> <<8>>, media |-> "text", extensions |-> {}],
    [type |-> <<8, 8>>, media |-> "text", extensions |-> {"txt"}]>>

NoFile == [bytes |-> <<>>, brotli |-> <<>>, extension |-> "", codec |-> TRUE]

Plain ==
  [path |-> FALSE, file |-> NoFile, compress |-> FALSE, delegate |-> {}, metadata |-> {},
   metaprotocol |-> {}, parents |-> <<>>, pointer |-> {}, rune |-> {}]

File(bytes, brotli, extension) ==
  [bytes |-> bytes, brotli |-> brotli, extension |-> extension, codec |-> TRUE]

Files ==
  {File(<<>>, <<1>>, "png"), File(<<5, 6, 7>>, <<0>>, "txt"), File(<<5, 6, 7, 8, 9>>, <<0, 3>>, "png"),
   File(<<5>>, <<>>, "foo"), [File(<<5>>, <<>>, "png") EXCEPT !.codec = FALSE]}

Id(n) == [txid |-> <<9>>, index |-> n]

MCArgsMenu ==
  {[Plain EXCEPT !.path = TRUE, !.file = f, !.compress = c] : f \in Files, c \in BOOLEAN}
  \cup {[Plain EXCEPT !.pointer = {n}] : n \in {0, 1, 255, 256, 65535}}
  \cup {[Plain EXCEPT !.delegate = {Id(n)}, !.parents = <<Id(0), Id(n)>>] : n \in {0, 256}}
  \cup {[Plain EXCEPT !.metadata = {m}, !.metaprotocol = {<<>>}] : m \in {<<>>, <<1, 2>>, <<1, 2, 3>>}}
  \cup {[Plain EXCEPT !.parents = <<Id(255)>>, !.rune = {0}]}
=============================================================================
