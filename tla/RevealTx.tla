------------------------------ MODULE RevealTx ------------------------------
(***************************************************************************)
(* A transaction whose tapscripts grow one instruction, field or revealed  *)
(* inscription at a time, and what the indexer reads in it at each point   *)
(* (Envelope.tla, Inscription.tla).                                        *)
(***************************************************************************)
EXTENDS Inscription

CONSTANTS
  Instructions,  \* what may be put into a script by itself
  FieldMenu,     \* the pairs of tag and value that may be put into an envelope
  ArgsMenu,      \* the arguments of Inscription::new
  MaxSteps,      \* bound on the steps that build a transaction
  MaxInputs,     \* bound on its inputs
  MaxPrefix,     \* bound on what is in a script when inscriptions are revealed in it
  MaxBatch       \* bound on the inscriptions revealed in an input

ASSUME RevealAssumption == {MaxSteps, MaxInputs, MaxPrefix, MaxBatch} \subseteq Nat

VARIABLES
  witnesses,  \* of the inputs, {} or a set of one tapscript
  batch,      \* what was revealed in the last input, and after how much of the script
  steps       \* how much was done to build the transaction

vars == <<witnesses, batch, steps>>

NoBatch == [from |-> 0, args |-> <<>>]

(* The last input's script, and what is inscribed in it.                   *)
Script == IF Last(witnesses) = {} THEN <<>>
          ELSE CHOOSE script \in Last(witnesses) : TRUE

Open == Last(witnesses) # {} /\ DecodeError \notin ToSet(Script)

Extend(more) == witnesses' = [witnesses EXCEPT ![Len(witnesses)] = {Script \o more}]

(* A revealed inscription counts as two.                                   *)
Step(n) == steps + n <= MaxSteps /\ steps' = steps + n

-----------------------------------------------------------------------------
(* An input, spent with a tapscript or without one.                        *)
NewInput(witness) ==
  /\ Step(1)
  /\ Len(witnesses) < MaxInputs
  /\ witnesses' = Append(witnesses, witness)
  /\ batch' = NoBatch

Instruction(ins) ==
  /\ Step(1)
  /\ Open /\ batch = NoBatch
  /\ Extend(<<ins>>)
  /\ UNCHANGED batch

(* The three instructions an envelope starts with.                         *)
Header ==
  /\ Step(1)
  /\ Open /\ batch = NoBatch
  /\ Extend(<<OpFalse, OpIf, ProtocolId>>)
  /\ UNCHANGED batch

Field(field) ==
  /\ Step(1)
  /\ Open /\ batch = NoBatch
  /\ Parsed(Script).mode = "payload"
  /\ Extend(<<Push(field[1]), Push(field[2])>>)
  /\ UNCHANGED batch

(* append_batch_reveal_script_to_builder with one more inscription.        *)
Reveal(args) ==
  /\ Step(2)
  /\ Open /\ Len(batch.args) < MaxBatch
  /\ batch = NoBatch => Len(Script) <= MaxPrefix
  /\ Inscribable(args)
  /\ Extend(BatchRevealScript(<<New(args)>>))
  /\ batch' = [from |-> IF batch = NoBatch THEN Len(Script) ELSE batch.from,
               args |-> Append(batch.args, args)]

(* Nothing is in the first input's script, if it has one.                  *)
Init ==
  /\ witnesses \in {<<{}>>, <<{<<>>}>>}
  /\ batch = NoBatch
  /\ steps = 0

Next ==
  \/ \E witness \in {{}, {<<>>}} : NewInput(witness)
  \/ \E ins \in Instructions : Instruction(ins)
  \/ Header
  \/ \E field \in FieldMenu : Field(field)
  \/ \E args \in ArgsMenu : Reveal(args)

Spec == Init /\ [][Next]_vars

-----------------------------------------------------------------------------
(* Reference definitions: envelopes by position in the script.             *)

Pushes == {"push", "pushnum"}

HeaderAt(s, p) ==
  /\ p + 2 <= Len(s)
  /\ s[p] = OpFalse /\ s[p + 1] = OpIf /\ s[p + 2] = ProtocolId

(* The first instruction from p on that is not a push, or the end.         *)
RunsTo(s, p) ==
  Min({q \in p..Len(s) + 1 : q = Len(s) + 1 \/ s[IF q > Len(s) THEN 1 ELSE q].op \notin Pushes})

(* Whether an OP_FALSE at p is data of an envelope begun before, and the   *)
(* headers that begin one.                                                 *)
Begins(s) ==
  LET begins[p \in 0..Len(s)] ==
        IF p = 0 THEN {}
        ELSE LET before == begins[p - 1]
                 data == \E q \in before : q + 3 <= p /\ p < RunsTo(s, q + 3)
             IN IF HeaderAt(s, p) /\ ~ data THEN before \cup {p} ELSE before
  IN begins[Len(s)]

IsData(s, p) == \E q \in Begins(s) : q + 3 <= p /\ p < RunsTo(s, q + 3)

EnvelopesAt(s) ==
  {p \in Begins(s) : LET e == RunsTo(s, p + 3) IN e <= Len(s) /\ s[e] = OpEndIf}

(* Where the code began to look for an envelope and did not find one.      *)
FailedAt(s) == {p \in DOMAIN s : s[p] = OpFalse /\ ~ IsData(s, p)} \ EnvelopesAt(s)

(* The instruction at which it stopped was another OP_FALSE.               *)
Stutters(s, p) ==
  LET stop == IF p < Len(s) /\ s[p + 1] = OpIf THEN p + 2 ELSE p + 1 IN
  p \notin Begins(s) /\ stop <= Len(s) /\ s[stop] = OpFalse

BytesOf(ins) == IF ins.op = "push" THEN ins.bytes ELSE IF ins.n < 0 THEN <<129>> ELSE <<ins.n>>

EnvelopeAt(s, p) ==
  LET data == SubSeq(s, p + 3, RunsTo(s, p + 3) - 1)
      failed == {q \in FailedAt(s) : q < p}
  IN
  [offset |-> Cardinality({q \in EnvelopesAt(s) : q < p}),
   payload |-> [k \in DOMAIN data |-> BytesOf(data[k])],
   pushnum |-> \E k \in DOMAIN data : data[k].op = "pushnum",
   stutter |-> failed # {} /\ Stutters(s, Max(failed))]

(* The number little-endian bytes stand for.                               *)
Number(bytes) == FoldRight(LAMBDA b, sum : b + 256 * sum, bytes, 0)

-----------------------------------------------------------------------------
(* Properties.                                                             *)

RawEnvelopes == ToSet(FromTapscript(Script))

Inscriptions == {InscriptionOf(e.payload) : e \in RawEnvelopes}

(***************************************************************************)
(* from_tapscript finds exactly the headers that are not themselves data   *)
(* of an envelope and are closed with nothing but pushes in between, with  *)
(* their pushes, order and stutter, although it looks ahead by one         *)
(* instruction only.  A script that does not decode has none.              *)
(***************************************************************************)
EnvelopesFound ==
  FromTapscript(Script) =
    IF DecodeError \in ToSet(Script) THEN <<>>
    ELSE LET at == SetToSortSeq(EnvelopesAt(Script), <) IN
         [k \in DOMAIN at |-> EnvelopeAt(Script, at[k])]

(***************************************************************************)
(* Each field of an inscription is the first value of its tag, the         *)
(* metadata all of them; what comes after the first empty tag is body; and *)
(* an even field is unrecognized if it is not a pointer or is a second     *)
(* one (take, take_array and the order in which ParsedEnvelope::from calls *)
(* them).                                                                  *)
(***************************************************************************)
FieldsByPosition ==
  \A e \in RawEnvelopes :
    LET p == e.payload
        i == InscriptionOf(p)
        tags == {k \in DOMAIN p : k % 2 = 1 /\ \A j \in 1..k : j % 2 = 1 => p[j] # BODY_TAG}
        fields == tags \ {Len(p)}
        first(tag) == {p[k + 1] : k \in {k \in fields : p[k] = tag /\ \A j \in fields : p[j] = tag => k <= j}}
        all(tag) == FlattenSeq([k \in DOMAIN p |-> IF k \in fields /\ p[k] = tag THEN <<p[k + 1]>> ELSE <<>>])
    IN
    /\ i.content_type = first(Tag.ContentType) /\ i.content_encoding = first(Tag.ContentEncoding)
    /\ i.delegate = first(Tag.Delegate) /\ i.pointer = first(Tag.Pointer)
    /\ i.metaprotocol = first(Tag.Metaprotocol) /\ i.rune = first(Tag.Rune)
    /\ i.parents = all(Tag.Parent)
    /\ i.metadata = IF first(Tag.Metadata) = {} THEN {} ELSE {FlattenSeq(all(Tag.Metadata))}
    /\ i.body = {FlattenSeq(SubSeq(p, k + 1, Len(p))) :
                   k \in {k \in DOMAIN p : k % 2 = 1 /\ k \notin tags /\ k - 2 \in tags \cup {-1}}}
    /\ i.unrecognized_even_field <=>
         \E k \in fields : p[k][1] % 2 = 0 /\ (p[k] = Tag.Pointer => Len(all(p[k])) > 1)
    /\ i.duplicate_field <=> \E k \in fields : Len(all(p[k])) > 1
    /\ i.incomplete_field <=> tags # fields

(* What the reader makes of New(args): empty metadata takes no push, and   *)
(* parents and chunks of metadata repeat a tag.                            *)
ReadAs(args) ==
  [New(args) EXCEPT
     !.metadata = @ \ {<<>>},
     !.duplicate_field = \/ Len(args.parents) > 1
                         \/ \E m \in args.metadata : Len(m) > MaxElement]

(***************************************************************************)
(* What is revealed is read back: each inscription of a batch appended to  *)
(* a script, unless that has an open envelope or does not decode, with     *)
(* all its fields, ids, pointer and media, through chunks and trimmed      *)
(* numbers (Inscription::new, append_batch_reveal_script, from_tapscript,  *)
(* pointer, parents, delegate, media).                                     *)
(***************************************************************************)
RevealedIsReadBack ==
  Parsed(SubSeq(Script, 1, batch.from)).mode # "payload" =>
    LET found == FromTapscript(Script)
        n == Len(batch.args)
    IN
    /\ Len(found) >= n
    /\ \A k \in 1..n :
         LET args == batch.args[k]
             e == found[Len(found) - n + k]
             i == InscriptionOf(e.payload)
         IN
         /\ i = ReadAs(args) /\ ~ e.pushnum
         /\ PointerOf(i) = args.pointer
         /\ ParentsOf(i) = args.parents
         /\ DelegateOf(i) = args.delegate
         /\ args.path => \E r \in DOMAIN MediaTable :
              args.file.extension \in MediaTable[r].extensions /\ MediaTable[r].media = MediaOf(i)

(***************************************************************************)
(* A pointer is read as the number its bytes stand for, of whatever length *)
(* they are, and as none if that number does not fit (pointer).  But an    *)
(* inscription id has one short and one full encoding, and no other bytes  *)
(* are read as it: parents cannot be listed twice under different bytes    *)
(* but for the full width (inscription_id_field against value).            *)
(***************************************************************************)
NumbersHaveTheirForms ==
  \A i \in Inscriptions :
    /\ PointerOf(i) = {Number(v) : v \in i.pointer} \cap 0..256^PointerBytes - 1
    /\ \A field \in ToSet(i.parents) \cup i.delegate : \A id \in IdField(field) :
         field \in {IdValue(id), id.txid \o ToLe(id.index, IndexBytes)}

(***************************************************************************)
(* What is inscribed stays inscribed, with the same input and offset,      *)
(* whatever follows in the script or in other inputs; only a script that   *)
(* does not decode loses all its own, and no others (from_transaction).    *)
(***************************************************************************)
CompleteStays ==
  [][LET before == FromTransaction(witnesses)
         after == FromTransaction(witnesses')
     IN
     IF DecodeError \in ToSet(Script')
     THEN after = SelectSeq(before, LAMBDA e : e.input + 1 < Len(witnesses'))
     ELSE IsPrefix(before, after)]_vars
=============================================================================
