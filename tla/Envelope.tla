------------------------------ MODULE Envelope ------------------------------
(***************************************************************************)
(* How inscriptions are read from the tapscripts of a transaction:         *)
(* src/indexer/src/inscriptions/envelope.rs and tag.rs, as operators on    *)
(* values.                                                                 *)
(*                                                                         *)
(* A script is the sequence of what Script::instructions yields.  A push   *)
(* carries its bytes.  An opcode that plays no role in an envelope is      *)
(* OtherOp, and where the script does not decode stands DecodeError, after *)
(* which the iterator yields nothing.  An optional value is a set of at    *)
(* most one element.                                                       *)
(***************************************************************************)
EXTENDS Integers, Sequences, FiniteSets, SequencesExt, Maps

Push(bytes) == [op |-> "push", bytes |-> bytes]
PushNum(n) == [op |-> "pushnum", n |-> n]  \* OP_PUSHNUM_NEG1, 1 to 16
OpIf == [op |-> "if"]
OpEndIf == [op |-> "endif"]
OtherOp == [op |-> "other"]
DecodeError == [op |-> "error"]

PROTOCOL_ID == <<111, 114, 100>>
BODY_TAG == <<>>

OpFalse == Push(<<>>)
ProtocolId == Push(PROTOCOL_ID)

-----------------------------------------------------------------------------
(* RawEnvelope::from_tapscript as what it does with each instruction.  The *)
(* mode is where the code is: in the loop of from_tapscript ("scan"), at   *)
(* the two accepts of from_instructions ("if", "protocol"), in its loop    *)
(* ("payload"), or out of it with an error ("failed").                     *)

ParserStart ==
  [mode |-> "scan", stuttered |-> FALSE, payload |-> <<>>, pushnum |-> FALSE,
   envelopes |-> <<>>]

Scanned(p, ins) == [p EXCEPT !.mode = IF ins = OpFalse THEN "if" ELSE "scan"]

(* Bug: what was not accepted is skipped.                                  *)
Bug_NotAccepted(p, ins) == [p EXCEPT !.mode = "scan", !.stuttered = ins = OpFalse]

(* The instruction was only peeked at: the loop of from_tapscript gets it. *)
NotAccepted(p, ins) == Scanned([p EXCEPT !.stuttered = ins = OpFalse], ins)

EndOfEnvelope(p) ==
  [p EXCEPT !.mode = "scan",
            !.envelopes = Append(@, [offset |-> Len(@), payload |-> p.payload,
                                     pushnum |-> p.pushnum, stutter |-> p.stuttered])]

NumBytes(n) == IF n = -1 THEN <<129>> ELSE <<n>>

(* Bug: what is no push invalidates all of the script.                     *)
Bug_Broken(p) == [p EXCEPT !.mode = "failed", !.envelopes = <<>>]

(* Neither a push nor the end: no envelope.                                *)
Broken(p) == [p EXCEPT !.mode = "scan", !.stuttered = FALSE]

InPayload(p, ins) ==
  CASE ins.op = "push" -> [p EXCEPT !.payload = Append(@, ins.bytes)]
    [] ins.op = "pushnum" -> [p EXCEPT !.payload = Append(@, NumBytes(ins.n)), !.pushnum = TRUE]
    [] ins = OpEndIf -> EndOfEnvelope(p)
    [] OTHER -> Broken(p)

ParserStep(p, ins) ==
  CASE p.mode = "failed" \/ ins = DecodeError -> [p EXCEPT !.mode = "failed"]
    [] p.mode = "scan" -> Scanned(p, ins)
    [] p.mode = "if" ->
         IF ins = OpIf THEN [p EXCEPT !.mode = "protocol"] ELSE NotAccepted(p, ins)
    [] p.mode = "protocol" ->
         IF ins = ProtocolId
         THEN [p EXCEPT !.mode = "payload", !.payload = <<>>, !.pushnum = FALSE]
         ELSE NotAccepted(p, ins)
    [] p.mode = "payload" -> InPayload(p, ins)

Parsed(script) == FoldLeft(ParserStep, ParserStart, script)

(* The envelopes of a script, none if it does not decode.                  *)
FromTapscript(script) ==
  LET p == Parsed(script) IN IF p.mode = "failed" THEN <<>> ELSE p.envelopes

-----------------------------------------------------------------------------
(* Tags.                                                                   *)

Tag ==
  [Pointer |-> <<2>>, ContentType |-> <<1>>, Parent |-> <<3>>, Metadata |-> <<5>>,
   Metaprotocol |-> <<7>>, ContentEncoding |-> <<9>>, Delegate |-> <<11>>, Rune |-> <<13>>]

Chunked(tag) == tag = Tag.Metadata

(* Bug: the last value of a field counts.                                  *)
Bug_Take(fields, tag) ==
  IF tag \notin DOMAIN fields THEN {}
  ELSE IF Chunked(tag) THEN {FlattenSeq(fields[tag])} ELSE {Last(fields[tag])}

(* What take returns, and what it leaves.                                  *)
Take(fields, tag) ==
  IF tag \notin DOMAIN fields THEN {}
  ELSE IF Chunked(tag) THEN {FlattenSeq(fields[tag])} ELSE {Head(fields[tag])}

TakeArray(fields, tag) == IF tag \in DOMAIN fields THEN fields[tag] ELSE <<>>

AfterTakes(fields) ==
  LET gone == {tag \in DOMAIN fields :
                 \/ Chunked(tag) \/ tag = Tag.Parent
                 \/ tag \in {Tag[name] : name \in DOMAIN Tag} /\ Len(fields[tag]) = 1}
  IN Except(fields, gone)

-----------------------------------------------------------------------------
(* The fields of an envelope: pairs of pushes up to an empty tag, after    *)
(* which the body comes.                                                   *)

(* Where the body tag is, or the end.                                      *)
BodyAt(payload) ==
  LET at == {i \in DOMAIN payload : i % 2 = 1 /\ payload[i] = BODY_TAG} IN
  IF at = {} THEN Len(payload) + 1 ELSE Min(at)

AddField(fields, key, value) ==
  Put(fields, key, (IF key \in DOMAIN fields THEN fields[key] ELSE <<>>) \o <<value>>)

FieldsOf(payload) ==
  FoldLeft(LAMBDA fields, i : AddField(fields, payload[2*i - 1], payload[2*i]), EmptyMap,
           [i \in 1..(BodyAt(payload) - 1) \div 2 |-> i])

(* ParsedEnvelope::from.                                                   *)
InscriptionOf(payload) ==
  LET end == BodyAt(payload)
      fields == FieldsOf(payload)
  IN
  [body |-> IF end > Len(payload) THEN {} ELSE {FlattenSeq(SubSeq(payload, end + 1, Len(payload)))},
   content_encoding |-> Take(fields, Tag.ContentEncoding),
   content_type |-> Take(fields, Tag.ContentType),
   delegate |-> Take(fields, Tag.Delegate),
   duplicate_field |-> \E key \in DOMAIN fields : Len(fields[key]) > 1,
   incomplete_field |-> end % 2 = 0,
   metadata |-> Take(fields, Tag.Metadata),
   metaprotocol |-> Take(fields, Tag.Metaprotocol),
   parents |-> TakeArray(fields, Tag.Parent),
   pointer |-> Take(fields, Tag.Pointer),
   rune |-> Take(fields, Tag.Rune),
   unrecognized_even_field |-> \E key \in DOMAIN AfterTakes(fields) : key[1] % 2 = 0]

(* The envelopes of a witness that may have a tapscript.                   *)
EnvelopesOfInput(witness, i) ==
  LET raw == IF witness = {} THEN <<>> ELSE FromTapscript(CHOOSE script \in witness : TRUE) IN
  [k \in DOMAIN raw |->
     [input |-> i - 1, offset |-> raw[k].offset, payload |-> InscriptionOf(raw[k].payload),
      pushnum |-> raw[k].pushnum, stutter |-> raw[k].stutter]]

(* ParsedEnvelope::from_transaction.                                       *)
FromTransaction(witnesses) ==
  FlattenSeq([i \in DOMAIN witnesses |-> EnvelopesOfInput(witnesses[i], i)])

=============================================================================
