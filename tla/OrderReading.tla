----------------------------- MODULE OrderReading -----------------------------
(***************************************************************************)
(* How OrderIngestNode (src/nodes/order_ingest_node.py) finds an order in  *)
(* what a caller sent: the JSON object the message is, else the packet of  *)
(* caller_packet.py, else the patterns of a sentence, completed by one     *)
(* model call (input_intake.py, llm_provider.py, agent_scope.py).          *)
(*                                                                         *)
(* What is sent is [message, context, secrets]: context is the packet in   *)
(* input_context, all Absent when there is none.  A message is             *)
(*   [form, object, masked, sentence, script]                              *)
(* with form "object" (a JSON object), "masked" (one that does not parse   *)
(* because the S-2 gate left a bare [MASKED] in the fields `masked`),      *)
(* "text" (anything else) or "blank"; script is the language its letters   *)
(* are in, or "".  A sentence is what it writes:                           *)
(*   numbers   order numbers, [number, form, around]: form "exact" as the  *)
(*             pattern wants it, "loose" otherwise; around: among others   *)
(*   lines     the SKUs in order, [sku, count, plain]: count Absent, or    *)
(*             readable by a pattern when plain                            *)
(*   total     a count [n, plain] after them, or Absent                    *)
(*   channels  the channels its listed words name                          *)
(*   region    a prefecture, or Absent (also for any other address)        *)
(***************************************************************************)
EXTENDS FulfillmentService

CONSTANT Padded  \* an order number with other words around it

ASSUME PaddedAssumption == Padded \notin {Absent, Null, Junk}

\* What the patterns make of a count, of lines and of a region is never missing.
Totals      == [n : Int, plain : BOOLEAN]
ReadLines   == [kind : {"dict"}, sku : STRING, qty : Int, quantity : {Absent},
                unit_price : {Absent}]
ReadRegions == [form : {"dict"}, region : STRING, prefecture : {Absent}, city : {Absent},
                segments : {<<>>}]

ASSUME ReadAssumption ==
  \A marker \in {Absent, Null} : marker \notin Totals \cup Seq(ReadLines) \cup ReadRegions

PacketFields   == {"order_id", "channel", "items", "quantity"}
EnvelopeFields == PacketFields
Languages      == {"ja", "en"}
DefaultLanguage == "ja"

\* What a sentence may write.
Numbers  == [number : STRING, form : {"exact", "loose"}, around : BOOLEAN]
Mentions == [sku : STRING, count : Int \cup {Absent}, plain : BOOLEAN]
Writings == [numbers : Seq(Numbers), lines : Seq(Mentions), total : Totals \cup {Absent},
             channels : SUBSET {"ec", "store"}, region : STRING \cup {Absent}]

\* A message is whole, and the gate masks only numbers that are there.
IsMessage(m) ==
  /\ m = [form |-> m.form, object |-> m.object, masked |-> m.masked,
          sentence |-> m.sentence, script |-> m.script]
  /\ m.sentence \in Writings
  /\ m.form = "masked" => m.masked \cap MissingFields(m.object) = {}

-----------------------------------------------------------------------------
(* The packet.                                                             *)

\* `bare` fields of a masked object are the string "[MASKED]" once quoted.
Repaired(message) ==
  [f \in RequiredOrderFields |-> IF f \in message.masked THEN Junk ELSE message.object[f]]

CarriesPacket(dict) == \E f \in PacketFields : dict[f] # Absent

Overlay(dict, context) ==
  [f \in RequiredOrderFields |-> IF context[f] # Absent THEN context[f] ELSE dict[f]]

\* Mutant of CallerPacket: the message is not repaired.
CallerPacketUnrepaired(message, context) == context

\* It is asked only about a message that is no JSON object as it stands.
CallerPacket(message, context) ==
  IF ~ CarriesPacket(context) /\ message.form = "masked" /\ CarriesPacket(Repaired(message))
    THEN Overlay(Repaired(message), context)
    ELSE context

-----------------------------------------------------------------------------
(* The patterns.                                                           *)

\* The text the order number's pattern finds, and the counts the quantity's does.
IsExact(text)   == text.form = "exact"
IsCounted(line) == line.count # Absent /\ line.plain

\* re.search: the first place its pattern matches.
NumberRead(sentence) ==
  IF \E text \in ToSet(sentence.numbers) : IsExact(text)
    THEN FirstMatch(sentence.numbers, IsExact).number ELSE Absent

QuantityRead(sentence) ==
  IF \E line \in ToSet(sentence.lines) : IsCounted(line)
    THEN FirstMatch(sentence.lines, IsCounted).count
  ELSE IF sentence.total # Absent /\ sentence.total.plain THEN sentence.total.n ELSE Absent

\* Every SKU takes the one quantity that was read, or 1.
LinesRead(sentence) ==
  [i \in DOMAIN sentence.lines |->
     [kind |-> "dict", sku |-> sentence.lines[i].sku, qty |-> Get(QuantityRead(sentence), 1),
      quantity |-> Absent, unit_price |-> Absent]]

\* The words for "ec" come first in _CHANNELS.
ChannelRead(sentence) ==
  IF "ec" \in sentence.channels THEN "ec"
  ELSE IF "store" \in sentence.channels THEN "store" ELSE Absent

RegionRead(sentence) ==
  IF sentence.region = Absent THEN Absent
  ELSE [form |-> "dict", region |-> sentence.region, prefecture |-> Absent, city |-> Absent,
        segments |-> <<>>]

OrderFromText(sentence) ==
  [order_id         |-> NumberRead(sentence),
   channel          |-> ChannelRead(sentence),
   items            |-> IF sentence.lines = <<>> THEN Absent ELSE LinesRead(sentence),
   quantity         |-> QuantityRead(sentence),
   delivery_address |-> RegionRead(sentence)]

-----------------------------------------------------------------------------
(* The model.  An outcome of one attempt to call it is [kind, language,    *)
(* fields]: "json" (a reply with an object in it), "prose", "raises", or   *)
(* "mismatch" (a TypeError or an AttributeError).  The fields of a reply   *)
(* are [order_id, channel, items, quantity]; a value that is none of the   *)
(* expected type is Junk.                                                  *)

RequiredSecrets == {"AZURE_OPENAI_API_KEY", "AZURE_OPENAI_ENDPOINT", "AZURE_OPENAI_DEPLOYMENT"}

\* Any missing secret, or optional package, leaves the node without a client.
HasClient(secrets) == RequiredSecrets \subseteq secrets

IsAnswer(outcome) == outcome.kind # "mismatch"

NoReply == Absent

\* _ask tries complete and generate with a list and with a text; the first
\* attempt that does not complain of its argument ends it.
Ask(outcomes) ==
  IF \E outcome \in ToSet(outcomes) : IsAnswer(outcome)
    THEN FirstMatch(outcomes, IsAnswer) ELSE Absent

AskJson(secrets, outcomes) ==
  IF HasClient(secrets) /\ Ask(outcomes) # Absent /\ Ask(outcomes).kind = "json"
    THEN Ask(outcomes) ELSE NoReply

ClosedSet == {"ec", "store"}

\* What understand_input keeps: a list becomes its text, which is Junk here.
FieldsKept(reply) ==
  [order_id |-> reply.fields.order_id,
   channel  |-> IF reply.fields.channel \in ClosedSet THEN reply.fields.channel ELSE Absent,
   items    |-> IF Falsy(reply.fields.items) THEN Absent ELSE Junk,
   quantity |-> reply.fields.quantity]

NoFields == [f \in EnvelopeFields |-> Absent]

\* The model outranks the script, the script the default; a source says which.
UnderstandInput(reply, script) ==
  [fields |-> IF reply = NoReply THEN NoFields ELSE FieldsKept(reply),
   answer_language |->
     IF reply # NoReply /\ reply.language \in Languages THEN reply.language
     ELSE IF script \in Languages THEN script ELSE DefaultLanguage,
   language_source |->
     IF reply # NoReply /\ reply.language \in Languages THEN "model"
     ELSE IF script \in Languages THEN "script" ELSE "default"]

\* Mutant of LanguageDecided: the default passes for a decision.
LanguageOrDefault(intake, script) == intake.answer_language

\* _read_message: a default is nobody's decision.
LanguageDecided(intake, script) ==
  IF intake.language_source = "default" THEN script ELSE intake.answer_language

-----------------------------------------------------------------------------
(* The merge.                                                              *)

\* An order number after its separators are made "-": the pattern is
\* searched for in it, so the words around the number stay.
CanonicalOrderId(text) == IF text.around THEN Padded ELSE text.number

\* _MODEL_FIELD_SHAPES.  A quantity the model answers with `true` counts as 1.
HasShape(field, value) ==
  CASE field = "order_id" -> value # Junk /\ value.number # Absent
    [] field = "channel"  -> value \in ClosedSet
    [] field = "quantity" -> value # Junk /\ value > 0
    [] field = "items"    -> value # Junk

Accepts(fields, f) == fields[f] \notin {Absent, Null} /\ HasShape(f, fields[f])

\* _MODEL_FIELD_NORMALISERS.
Normalised(field, value) == IF field = "order_id" THEN CanonicalOrderId(value) ELSE value

\* Mutant of MergeModelFields: what the model says is taken first.
MergeModelFirst(read, fields) ==
  [f \in RequiredOrderFields |->
     IF f \in EnvelopeFields /\ Accepts(fields, f) THEN Normalised(f, fields[f]) ELSE read[f]]

\* Only what the patterns did not read, and only in the right shape.
MergeModelFields(read, fields) ==
  [f \in RequiredOrderFields |->
     IF f \in EnvelopeFields /\ read[f] = Absent /\ Accepts(fields, f)
       THEN Normalised(f, fields[f])
       ELSE read[f]]

-----------------------------------------------------------------------------
(* Where the order is looked for.                                          *)

Packet(s) == CallerPacket(s.message, s.context)

Source(s) ==
  IF s.message.form = "object" THEN "object"
  ELSE IF ~ Falsy(Packet(s).order_id) THEN "packet"
  ELSE IF s.message.form = "blank" THEN "nothing" ELSE "sentence"

\* The order before the model is asked; Absent when there is no dict.
Found(s) ==
  CASE Source(s) = "object"   -> s.message.object
    [] Source(s) = "packet"   -> Packet(s)
    [] Source(s) = "sentence" -> OrderFromText(s.message.sentence)
    [] Source(s) = "nothing"  -> Absent

Asked(s) == Source(s) = "sentence" /\ MissingFields(Found(s)) # {}

Understood(s, o) == UnderstandInput(AskJson(s.secrets, o), s.message.script)

Language(s, o) ==
  IF Asked(s) THEN LanguageDecided(Understood(s, o), s.message.script) ELSE s.message.script

Merged(s, o) == MergeModelFields(Found(s), Understood(s, o).fields)

Completed(s, o) == Asked(s) /\ MissingFields(Merged(s, o)) = {}

\* The order in the end: merged when that completes it, else as it was found.
Payload(s, o) == IF Completed(s, o) THEN Merged(s, o) ELSE Found(s)

\* Mutant of Degraded: the mark stays when the model helped.
DegradedAnyway(s, o) == Source(s) = "sentence"

Degraded(s, o) == Source(s) = "sentence" /\ ~ Completed(s, o)

-----------------------------------------------------------------------------
(* What the node returns.                                                  *)

\* Mutant of Named: what even the model did not find.
NamedAfterMerge(s, o) ==
  IF Source(s) = "nothing" THEN Absent
  ELSE IF Asked(s) THEN MissingFields(Merged(s, o)) ELSE MissingFields(Found(s))

\* The fields the guidance lists, Absent when it lists none.
Named(s, o) == IF Source(s) = "nothing" THEN Absent ELSE MissingFields(Payload(s, o))

Usable(s, o) == Source(s) # "nothing" /\ MissingFields(Payload(s, o)) = {}

Guidance(s, o) ==
  [input_unusable |-> TRUE, named |-> Named(s, o), answer_language |-> Language(s, o),
   order |-> Absent, region |-> Absent, drafting_degraded |-> FALSE]

Ingested(s, o) ==
  [input_unusable |-> FALSE, named |-> Absent, answer_language |-> Language(s, o),
   order  |-> [f \in EnvelopeFields |-> Payload(s, o)[f]],
   region |-> RegionFromAddress(Payload(s, o).delivery_address),
   drafting_degraded |-> Degraded(s, o)]

Execute(s, o) == IF Usable(s, o) THEN Ingested(s, o) ELSE Guidance(s, o)
=============================================================================
