---------------------------- MODULE Inscription -----------------------------
(***************************************************************************)
(* An inscription as its maker gives it, as the script that reveals it and *)
(* as it is read: src/indexer/src/inscriptions/inscription.rs,             *)
(* inscription_id.rs, tag.rs and media.rs, as operators on values.  The    *)
(* widths are constants, so that TLC meets values of every length; bytes   *)
(* are those of the code.                                                  *)
(***************************************************************************)
EXTENDS Envelope

CONSTANTS
  MaxElement,    \* MAX_SCRIPT_ELEMENT_SIZE: 520
  TxidLen,       \* Txid::LEN: 32
  IndexBytes,    \* of the index of an inscription id: 4
  PointerBytes,  \* of a pointer: 8
  MediaTable,    \* Media::TABLE, rows [type, media, extensions]
  HiddenContent, \* the bodies that hidden() knows
  ContentLimit   \* Chain::inscription_content_size_limit

ASSUME InscriptionFormatAssumption ==
  /\ {MaxElement, TxidLen, IndexBytes, PointerBytes} \subseteq Nat \ {0}
  /\ \A r \in DOMAIN MediaTable : DOMAIN MediaTable[r] = {"type", "media", "extensions"}
  /\ Cardinality(ContentLimit) <= 1

-----------------------------------------------------------------------------
(* Numbers as little-endian bytes.                                         *)

ToLe(n, width) == [i \in 1..width |-> (n \div 256^(i - 1)) % 256]

(* Of the first "width" bytes; a byte that is not there is 0.              *)
FromLe(bytes, width) ==
  FoldLeft(LAMBDA sum, i : sum + bytes[i] * 256^(i - 1), 0,
           [i \in 1..Min({width, Len(bytes)}) |-> i])

(* Without the zeros at the end.                                           *)
Trimmed(bytes) == SubSeq(bytes, 1, Max({0} \cup {i \in DOMAIN bytes : bytes[i] # 0}))

PointerValue(pointer) == Trimmed(ToLe(pointer, PointerBytes))

(* InscriptionId::value.                                                   *)
IdValue(id) == id.txid \o Trimmed(ToLe(id.index, IndexBytes))

(* Rune::commitment of the ordinals crate.                                 *)
Commitment(rune) == Trimmed(ToLe(rune, PointerBytes))

-----------------------------------------------------------------------------
(* Inscription::new.  A file is its bytes, what brotli makes of them, its  *)
(* extension and whether its codec is one that check_mp4_codec lets pass.  *)

ContentTypeOf(file) ==
  LET rows == {r \in DOMAIN MediaTable : file.extension \in MediaTable[r].extensions} IN
  IF rows = {} \/ ~ file.codec THEN {} ELSE {MediaTable[Min(rows)].type}

Shrinks(args) == args.compress /\ Len(args.file.brotli) < Len(args.file.bytes)

Content(args) == IF Shrinks(args) THEN args.file.brotli ELSE args.file.bytes

BR == <<98, 114>>

(* No path, or one whose file can be inscribed.                            *)
Inscribable(args) ==
  args.path => /\ ContentTypeOf(args.file) # {}
               /\ \A limit \in ContentLimit : Len(Content(args)) <= limit

(* The inscription of these arguments, if they are Inscribable.            *)
New(args) ==
  [body |-> IF args.path THEN {Content(args)} ELSE {},
   content_encoding |-> IF args.path /\ Shrinks(args) THEN {BR} ELSE {},
   content_type |-> IF args.path THEN ContentTypeOf(args.file) ELSE {},
   delegate |-> {IdValue(id) : id \in args.delegate},
   duplicate_field |-> FALSE,
   incomplete_field |-> FALSE,
   metadata |-> args.metadata,
   metaprotocol |-> args.metaprotocol,
   parents |-> [k \in DOMAIN args.parents |-> IdValue(args.parents[k])],
   pointer |-> {PointerValue(n) : n \in args.pointer},
   rune |-> {Commitment(n) : n \in args.rune},
   unrecognized_even_field |-> FALSE]

-----------------------------------------------------------------------------
(* append_reveal_script_to_builder.                                        *)

(* Bug: the last chunk is left out if it is not full.                      *)
Bug_Chunks(bytes) ==
  [c \in 1..Len(bytes) \div MaxElement |->
     SubSeq(bytes, (c - 1) * MaxElement + 1, c * MaxElement)]

Chunks(bytes) ==
  [c \in 1..(Len(bytes) + MaxElement - 1) \div MaxElement |->
     SubSeq(bytes, (c - 1) * MaxElement + 1, Min({c * MaxElement, Len(bytes)}))]

(* Tag::append_array.                                                      *)
AppendArray(tag, values) ==
  FlattenSeq([k \in DOMAIN values |-> <<Push(tag), Push(values[k])>>])

(* Tag::append.                                                            *)
AppendTag(tag, value) ==
  IF value = {} THEN <<>>
  ELSE LET v == CHOOSE v \in value : TRUE IN
       AppendArray(tag, IF Chunked(tag) THEN Chunks(v) ELSE <<v>>)

BodyPushes(body) ==
  IF body = {} THEN <<>>
  ELSE LET chunks == Chunks(CHOOSE b \in body : TRUE) IN
       <<Push(BODY_TAG)>> \o [c \in DOMAIN chunks |-> Push(chunks[c])]

RevealScript(i) ==
  <<OpFalse, OpIf, ProtocolId>>
    \o AppendTag(Tag.ContentType, i.content_type)
    \o AppendTag(Tag.ContentEncoding, i.content_encoding)
    \o AppendTag(Tag.Metaprotocol, i.metaprotocol)
    \o AppendArray(Tag.Parent, i.parents)
    \o AppendTag(Tag.Delegate, i.delegate)
    \o AppendTag(Tag.Pointer, i.pointer)
    \o AppendTag(Tag.Metadata, i.metadata)
    \o AppendTag(Tag.Rune, i.rune)
    \o BodyPushes(i.body)
    \o <<OpEndIf>>

(* append_batch_reveal_script_to_builder.                                  *)
BatchRevealScript(inscriptions) ==
  FlattenSeq([k \in DOMAIN inscriptions |-> RevealScript(inscriptions[k])])

-----------------------------------------------------------------------------
(* What is read of an inscription.                                         *)

(* Bug: a padded index is read too.                                        *)
Bug_IdField(field) ==
  LET index == SubSeq(field, TxidLen + 1, Len(field)) IN
  IF Len(field) < TxidLen \/ Len(index) > IndexBytes THEN {}
  ELSE {[txid |-> SubSeq(field, 1, TxidLen), index |-> FromLe(index, IndexBytes)]}

(* inscription_id_field: an index without zeros at the end, or of the full *)
(* width.                                                                  *)
IdField(field) ==
  LET index == SubSeq(field, TxidLen + 1, Len(field)) IN
  IF \/ Len(field) < TxidLen
     \/ Len(index) > IndexBytes
     \/ index # <<>> /\ Len(index) # IndexBytes /\ Last(index) = 0
  THEN {}
  ELSE {[txid |-> SubSeq(field, 1, TxidLen), index |-> FromLe(index, IndexBytes)]}

DelegateOf(i) == UNION {IdField(field) : field \in i.delegate}

(* filter_map.                                                             *)
ParentsOf(i) ==
  LET read == SelectSeq(i.parents, LAMBDA field : IdField(field) # {}) IN
  [k \in DOMAIN read |-> CHOOSE id \in IdField(read[k]) : TRUE]

PointerOf(i) ==
  {FromLe(value, PointerBytes) :
     value \in {v \in i.pointer : \A k \in DOMAIN v : k > PointerBytes => v[k] = 0}}

(* media.                                                                  *)
MediaOf(i) ==
  LET rows == {r \in DOMAIN MediaTable : i.body # {} /\ MediaTable[r].type \in i.content_type} IN
  IF rows = {} THEN "unknown" ELSE MediaTable[Min(rows)].media

Hidden(i) ==
  \/ i.body \cap HiddenContent # {}
  \/ i.metaprotocol # {}
  \/ MediaOf(i) \in {"code", "text", "unknown"}
=============================================================================
