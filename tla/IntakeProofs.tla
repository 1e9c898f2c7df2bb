----------------------------- MODULE IntakeProofs ------------------------------
(***************************************************************************)
(* The intake: what the node returned is what execute() makes of the last  *)
(* message and of the model's outcomes, and what IntakeSafety says of any  *)
(* message and any outcomes follows.                                       *)
(***************************************************************************)
EXTENDS IntakeSafety, WellFoundedInduction, TLAPS

\* The inductive invariant: an answer is never left from another message.
ReadOfTheMessage ==
  /\ rounds \in Nat
  /\ rounds = 0 => sent = Absent /\ intake = Absent /\ ~ amended
  /\ Answered => intake = Execute(sent, outcomes)

LEMMA ReadInit == IntakeInit => ReadOfTheMessage
  BY DEF IntakeInit, ReadOfTheMessage, Answered

LEMMA ReadStep == ReadOfTheMessage /\ [IntakeNext]_intakeVars => ReadOfTheMessage'
<1> SUFFICES ASSUME ReadOfTheMessage, [IntakeNext]_intakeVars PROVE ReadOfTheMessage'
  OBVIOUS
<1>1. CASE Send
  BY <1>1 DEF Send, ReadOfTheMessage, Answered
<1>2. CASE OrderIngest
  BY <1>2 DEF OrderIngest, ReadOfTheMessage, Answered
<1>3. CASE Amend
  BY <1>3 DEF Amend, ReadOfTheMessage, Answered
<1>4. CASE UNCHANGED intakeVars
  BY <1>4 DEF intakeVars, ReadOfTheMessage, Answered
<1> QED BY <1>1, <1>2, <1>3, <1>4 DEF IntakeNext

LEMMA Read == IntakeSpec => []ReadOfTheMessage
  BY ReadInit, ReadStep, PTL DEF IntakeSpec

-----------------------------------------------------------------------------
(* What execute() returns.                                                 *)

\* The fields decide what is missing.
LEMMA SameFieldsSameMissing ==
  ASSUME NEW a, NEW b, \A f \in RequiredOrderFields : a[f] = b[f]
  PROVE  MissingFields(a) = MissingFields(b)
  BY DEF MissingFields

\* An order that is not completed stays as it was found.
LEMMA NotCompleted ==
  ASSUME NEW s, NEW o, ~ Completed(s, o)
  PROVE  Payload(s, o) = Found(s)
  BY DEF Payload

\* Only a sentence is completed, and then its fields are all there.
LEMMA CompletedOrder ==
  ASSUME NEW s, NEW o, Completed(s, o)
  PROVE  /\ Source(s) = "sentence"
         /\ MissingFields(Found(s)) # {}
         /\ Payload(s, o) = Merged(s, o)
         /\ MissingFields(Merged(s, o)) = {}
  BY DEF Payload, Completed, Asked

LEMMA FoundInSentence ==
  ASSUME NEW s, Source(s) = "sentence"
  PROVE  Found(s) = OrderFromText(s.message.sentence)
  BY DEF Found

\* An accepted order the model was asked about is one it completed.
LEMMA AcceptedIfCompleted ==
  ASSUME NEW s, NEW o, Asked(s), Usable(s, o)
  PROVE  Completed(s, o)
  BY NotCompleted DEF Usable, Asked

LEMMA ExecuteFields ==
  ASSUME NEW s, NEW o
  PROVE  /\ Execute(s, o).input_unusable = ~ Usable(s, o)
         /\ Execute(s, o).answer_language = Language(s, o)
         /\ Usable(s, o) => /\ Execute(s, o) = Ingested(s, o)
                            /\ Execute(s, o).drafting_degraded = Degraded(s, o)
                            /\ \A f \in EnvelopeFields : Execute(s, o).order[f] = Payload(s, o)[f]
         /\ ~ Usable(s, o) => Execute(s, o) = Guidance(s, o) /\ Execute(s, o).named = Named(s, o)
<1>1. CASE Usable(s, o)
  BY <1>1 DEF Execute, Ingested
<1>2. CASE ~ Usable(s, o)
  BY <1>2 DEF Execute, Guidance
<1> QED BY <1>1, <1>2

-----------------------------------------------------------------------------
(* The reply's language is the script's or the model's, for every message, *)
(* every set of secrets and everything a model may say                     *)
(* (input_intake.py:165-182, order_ingest_node.py:262-264).                *)
THEOREM LanguageSafe == IntakeSpec => []NoDefaultLanguage
<1>1. ReadOfTheMessage => NoDefaultLanguage
  <2> SUFFICES ASSUME ReadOfTheMessage, Answered
               PROVE  \/ intake.answer_language = sent.message.script
                      \/ /\ Asked(sent) /\ Heard # NoReply
                         /\ intake.answer_language = Heard.language
    BY DEF NoDefaultLanguage
  <2>1. intake.answer_language = Language(sent, outcomes)
    BY ExecuteFields DEF ReadOfTheMessage
  <2>2. CASE ~ Asked(sent)
    BY <2>1, <2>2 DEF Language
  <2>3. CASE Asked(sent)
    <3> DEFINE u == Understood(sent, outcomes)
    <3>1. intake.answer_language = LanguageDecided(u, sent.message.script)
      BY <2>1, <2>3 DEF Language
    <3>2. CASE Heard # NoReply /\ Heard.language \in Languages
      <4>1. u.answer_language = Heard.language /\ u.language_source = "model"
        BY <3>2 DEF Heard, Understood, UnderstandInput
      <4> QED BY <2>3, <3>1, <3>2, <4>1 DEF LanguageDecided
    <3>3. CASE ~ (Heard # NoReply /\ Heard.language \in Languages)
      <4>1. \/ u.language_source = "default"
            \/ u.answer_language = sent.message.script
        BY <3>3 DEF Heard, Understood, UnderstandInput
      <4> QED BY <3>1, <4>1 DEF LanguageDecided
    <3> QED BY <3>2, <3>3
  <2> QED BY <2>2, <2>3
<1> QED BY <1>1, Read, PTL

(* The mark of an order read by patterns alone is on exactly those orders  *)
(* (order_ingest_node.py:187-212).                                         *)
THEOREM DegradedSafe == IntakeSpec => []DegradedMeansPatternsAlone
<1>1. ReadOfTheMessage => DegradedMeansPatternsAlone
  <2> SUFFICES ASSUME ReadOfTheMessage, Accepted
               PROVE  intake.drafting_degraded <=>
                        Source(sent) = "sentence" /\ MissingFields(Patterns) = {}
    BY DEF DegradedMeansPatternsAlone
  <2>1. Usable(sent, outcomes)
    BY ExecuteFields DEF ReadOfTheMessage, Accepted
  <2>2. intake.drafting_degraded = Degraded(sent, outcomes)
    BY <2>1, ExecuteFields DEF ReadOfTheMessage, Accepted
  <2>3. CASE Source(sent) # "sentence"
    BY <2>2, <2>3 DEF Degraded
  <2>4. CASE Source(sent) = "sentence" /\ Completed(sent, outcomes)
    BY <2>2, <2>4, CompletedOrder, FoundInSentence DEF Degraded, Patterns
  <2>5. CASE Source(sent) = "sentence" /\ ~ Completed(sent, outcomes)
    BY <2>1, <2>2, <2>5, NotCompleted, FoundInSentence DEF Degraded, Patterns, Usable
  <2> QED BY <2>3, <2>4, <2>5
<1> QED BY <1>1, Read, PTL

-----------------------------------------------------------------------------
(* What the model adds.                                                    *)

\* A reading that keeps no field changes nothing.
LEMMA NothingMerged ==
  ASSUME NEW read
  PROVE  MissingFields(MergeModelFields(read, NoFields)) = MissingFields(read)
<1>1. \A f \in EnvelopeFields : ~ Accepts(NoFields, f)
  BY DEF Accepts, NoFields
<1>2. \A f \in RequiredOrderFields : MergeModelFields(read, NoFields)[f] = read[f]
  BY <1>1 DEF MergeModelFields
<1> QED BY <1>2, SameFieldsSameMissing

\* A server without secrets has no client, so nothing is completed there.
LEMMA NeverCompletedAlone ==
  ASSUME NEW s, NEW o, s.secrets = {}
  PROVE  ~ Completed(s, o)
<1>1. ~ HasClient(s.secrets)
  BY DEF HasClient, RequiredSecrets
<1>2. Understood(s, o).fields = NoFields
  BY <1>1 DEF Understood, UnderstandInput, AskJson
<1>3. MissingFields(Merged(s, o)) = MissingFields(Found(s))
  BY <1>2, NothingMerged DEF Merged
<1> QED BY <1>3, CompletedOrder

\* The secrets decide nothing before the model is asked.
LEMMA SecretsDoNotMatter ==
  ASSUME NEW s, NEW t, t.message = s.message, t.context = s.context
  PROVE  Source(t) = Source(s) /\ Found(t) = Found(s) /\ Asked(t) = Asked(s)
<1>1. Packet(t) = Packet(s)
  BY DEF Packet
<1>2. Source(t) = Source(s)
  BY <1>1 DEF Source
<1>3. Found(t) = Found(s)
  BY <1>1, <1>2 DEF Found
<1> QED BY <1>2, <1>3 DEF Asked

(* The model costs the sender nothing: what is accepted without it is      *)
(* accepted the same with it, and guidance names the same fields, for      *)
(* every message and everything a model may say                            *)
(* (order_ingest_node.py:199-221).                                         *)
THEOREM ModelHarmless == IntakeSpec => []ModelCostsNothing
<1>1. ReadOfTheMessage => ModelCostsNothing
  <2> SUFFICES ASSUME ReadOfTheMessage, Answered
               PROVE  /\ ~ Alone.input_unusable => intake = Alone
                      /\ Guided => intake.named = Alone.named
    BY DEF ModelCostsNothing
  <2> DEFINE t == [message |-> sent.message, context |-> sent.context, secrets |-> {}]
  <2>1. Alone = Execute(t, outcomes) /\ intake = Execute(sent, outcomes)
    BY DEF Alone, ReadOfTheMessage
  <2>2. ~ Completed(t, outcomes) /\ Payload(t, outcomes) = Found(t)
    BY NeverCompletedAlone, NotCompleted
  <2>3. /\ Source(t) = Source(sent) /\ Found(t) = Found(sent) /\ Asked(t) = Asked(sent)
        /\ t.message = sent.message
    BY SecretsDoNotMatter
  <2> HIDE DEF t
  <2>4. ASSUME ~ Alone.input_unusable PROVE intake = Alone
    <3>1. Usable(t, outcomes)
      BY <2>1, <2>4, ExecuteFields
    <3>2. ~ Asked(sent) /\ ~ Completed(sent, outcomes)
      BY <2>2, <2>3, <3>1 DEF Usable, Asked, Completed
    <3>3. Payload(sent, outcomes) = Payload(t, outcomes)
      BY <2>2, <2>3, <3>2, NotCompleted
    <3>4. Language(sent, outcomes) = Language(t, outcomes)
      BY <2>3, <3>2 DEF Language
    <3>5. Degraded(sent, outcomes) = Degraded(t, outcomes)
      BY <2>2, <2>3, <3>2 DEF Degraded
    <3>6. Usable(sent, outcomes)
      BY <2>3, <3>1, <3>3 DEF Usable
    <3>7. Ingested(sent, outcomes) = Ingested(t, outcomes)
      BY <3>3, <3>4, <3>5 DEF Ingested
    <3> QED BY <2>1, <3>1, <3>6, <3>7, ExecuteFields
  <2>5. ASSUME Guided PROVE intake.named = Alone.named
    <3>1. ~ Usable(sent, outcomes)
      BY <2>1, <2>5, ExecuteFields DEF Guided
    <3>2. Source(sent) # "nothing" => Payload(sent, outcomes) = Found(sent)
      BY <3>1, NotCompleted, CompletedOrder DEF Usable
    <3>3. ~ Usable(t, outcomes)
      BY <2>2, <2>3, <3>1, <3>2 DEF Usable
    <3>4. Named(sent, outcomes) = Named(t, outcomes)
      BY <2>2, <2>3, <3>2 DEF Named
    <3> QED BY <2>1, <3>1, <3>3, <3>4, ExecuteFields
  <2> QED BY <2>4, <2>5
<1> QED BY <1>1, Read, PTL

\* _MODEL_FIELD_SHAPES, field by field.
LEMMA Shapes ==
  ASSUME NEW v
  PROVE  /\ HasShape("order_id", v) = (v # Junk /\ v.number # Absent)
         /\ HasShape("channel", v) = (v \in ClosedSet)
         /\ HasShape("quantity", v) = (v # Junk /\ v > 0)
         /\ HasShape("items", v) = (v # Junk)
  BY DEF HasShape

LEMMA ChannelReadInSet ==
  ASSUME NEW sentence
  PROVE  OrderFromText(sentence).channel \in ClosedSet \cup {Absent}
  BY DEF OrderFromText, ChannelRead, ClosedSet

\* What understand_input keeps of a reply, or of none.
LEMMA Kept ==
  ASSUME NEW reply, NEW script
  PROVE  LET kept == UnderstandInput(reply, script).fields
         IN  /\ kept["items"] \in {Absent, Junk}
             /\ kept["order_id"] = IF reply = NoReply THEN Absent ELSE reply.fields.order_id
  BY DEF UnderstandInput, FieldsKept, NoFields, EnvelopeFields, PacketFields

(* What the patterns read stands, and each field the model adds has the    *)
(* shape _MODEL_FIELD_SHAPES asks for; the lines of the order are never    *)
(* the model's (order_ingest_node.py:93-141, input_intake.py:188-202).     *)
THEOREM CompletionSafe == IntakeSpec => []ModelOnlyCompletes
<1>1. ReadOfTheMessage => ModelOnlyCompletes
  <2> SUFFICES ASSUME ReadOfTheMessage, Accepted, Asked(sent)
               PROVE  /\ \A f \in EnvelopeFields :
                           ~ Falsy(Patterns[f]) => intake.order[f] = Patterns[f]
                      /\ "items" \notin MissingFields(Patterns)
                      /\ intake.order.channel \in ClosedSet
                      /\ Patterns.quantity = Absent => intake.order.quantity > 0
                      /\ Patterns.order_id = Absent => Heard.fields.order_id.number # Absent
    BY DEF ModelOnlyCompletes
  <2> DEFINE kept   == Understood(sent, outcomes).fields
             merged == Merged(sent, outcomes)
  <2>1. Usable(sent, outcomes)
    BY ExecuteFields DEF ReadOfTheMessage, Accepted
  <2>2. Completed(sent, outcomes) /\ Found(sent) = Patterns
    BY <2>1, AcceptedIfCompleted, CompletedOrder, FoundInSentence DEF Patterns
  <2>3. MissingFields(merged) = {} /\ Payload(sent, outcomes) = merged
    BY <2>2, CompletedOrder
  <2>4. \A f \in EnvelopeFields : intake.order[f] = merged[f]
    BY <2>1, <2>3, ExecuteFields DEF ReadOfTheMessage, Accepted
  <2>5. \A f \in EnvelopeFields :
          merged[f] = IF Patterns[f] = Absent /\ Accepts(kept, f)
                        THEN Normalised(f, kept[f]) ELSE Patterns[f]
    BY <2>2 DEF Merged, MergeModelFields, EnvelopeFields, PacketFields, RequiredOrderFields
  <2>6. /\ ~ Falsy(merged["channel"]) /\ ~ Falsy(merged["order_id"])
        /\ ~ FalsyNumber(merged["quantity"]) /\ ~ FalsyList(merged["items"])
    BY <2>3 DEF MissingFields, RequiredOrderFields
  <2> HIDE DEF merged, kept
  <2>7. \A f \in EnvelopeFields :
          ~ Falsy(Patterns[f]) => intake.order[f] = Patterns[f]
    BY <2>4, <2>5 DEF Falsy
  <2>8. "items" \notin MissingFields(Patterns)
    <3>1. kept["items"] \in {Absent, Junk}
      BY Kept DEF Understood, kept
    <3>2. ~ Accepts(kept, "items")
      BY <3>1, Shapes DEF Accepts
    <3>3. ~ FalsyList(Patterns["items"])
      BY <2>5, <2>6, <3>2 DEF EnvelopeFields, PacketFields
    <3> QED BY <3>3 DEF MissingFields
  <2>9. intake.order.channel \in ClosedSet
    <3>1. Patterns["channel"] \in ClosedSet \cup {Absent}
      BY ChannelReadInSet DEF Patterns
    <3>2. Accepts(kept, "channel") => Normalised("channel", kept["channel"]) \in ClosedSet
      BY Shapes DEF Accepts, Normalised
    <3>3. merged["channel"] \in ClosedSet
      BY <2>5, <2>6, <3>1, <3>2 DEF EnvelopeFields, PacketFields, Falsy
    <3> QED BY <2>4, <3>3 DEF EnvelopeFields, PacketFields
  <2>10. ASSUME Patterns.quantity = Absent PROVE intake.order.quantity > 0
    <3>1. Accepts(kept, "quantity") => Normalised("quantity", kept["quantity"]) > 0
      BY Shapes DEF Accepts, Normalised
    <3>2. Accepts(kept, "quantity")
      BY <2>5, <2>6, <2>10 DEF EnvelopeFields, PacketFields, FalsyNumber, Falsy
    <3> QED BY <2>4, <2>5, <2>10, <3>1, <3>2 DEF EnvelopeFields, PacketFields
  <2>11. ASSUME Patterns.order_id = Absent PROVE Heard.fields.order_id.number # Absent
    <3>1. Accepts(kept, "order_id")
      BY <2>5, <2>6, <2>11 DEF EnvelopeFields, PacketFields, Falsy
    <3>2. kept["order_id"] # Absent /\ kept["order_id"].number # Absent
      BY <3>1, Shapes DEF Accepts
    <3> QED BY <3>2, Kept DEF Understood, Heard, kept
  <2> QED BY <2>7, <2>8, <2>9, <2>10, <2>11
<1> QED BY <1>1, Read, PTL

-----------------------------------------------------------------------------
(* What is missing, field by field.                                        *)

LEMMA Lacking ==
  ASSUME NEW p
  PROVE  /\ "order_id" \in MissingFields(p) <=> Falsy(p["order_id"])
         /\ "channel" \in MissingFields(p) <=> Falsy(p["channel"])
         /\ "items" \in MissingFields(p) <=> FalsyList(p["items"])
         /\ "quantity" \in MissingFields(p) <=> FalsyNumber(p["quantity"])
         /\ "delivery_address" \in MissingFields(p) <=> Falsy(p["delivery_address"])
         /\ MissingFields(p) \subseteq RequiredOrderFields
  BY DEF MissingFields, RequiredOrderFields

\* A field is missing in one dict as it is in another that says the same.
LEMMA MissingAlike ==
  ASSUME NEW a, NEW b, NEW f \in RequiredOrderFields, a[f] = b[f]
  PROVE  f \in MissingFields(a) <=> f \in MissingFields(b)
  BY DEF MissingFields

\* The gate's mark counts as a value.
LEMMA JunkIsThere ==
  ASSUME NEW a, NEW f, a[f] = Junk
  PROVE  f \notin MissingFields(a)
<1>1. ~ Falsy(Junk) /\ ~ FalsyNumber(Junk) /\ ~ FalsyList(Junk)
  BY MarkersAssumption DEF Falsy, FalsyNumber, FalsyList
<1> QED BY <1>1 DEF MissingFields

\* Filling what is missing leaves nothing missing.
LEMMA FilledField ==
  ASSUME NEW dict, NEW names, NEW f \in RequiredOrderFields,
         f \in names \/ f \notin MissingFields(dict)
  PROVE  f \notin MissingFields(Filled(dict, names))
<1>1. CASE f \in names
  <2>1. Filled(dict, names)[f] = Wanted[f]
    BY <1>1 DEF Filled
  <2> QED BY <2>1, MissingAlike, WantedAssumption
<1>2. CASE f \notin names
  <2>1. Filled(dict, names)[f] = dict[f]
    BY <1>2 DEF Filled
  <2> QED BY <1>2, <2>1, MissingAlike
<1> QED BY <1>1, <1>2

\* Whole: what is sent has every part, and its message is one.
IsWhole(s) ==
  /\ s = [message |-> s.message, context |-> s.context, secrets |-> s.secrets]
  /\ IsMessage(s.message)

\* The inductive invariant: what was sent is whole.
WholeMessage == rounds # 0 => IsWhole(sent)

\* The sender amends what was found incomplete.
LEMMA AmendedWhat ==
  ASSUME ReadOfTheMessage, Amend
  PROVE  /\ rounds # 0 /\ ~ Usable(sent, outcomes)
         /\ intake.named = Named(sent, outcomes)
         /\ sent' = IF intake.named = Absent THEN AsAsked(sent) ELSE Amended(sent, intake.named)
         /\ amended' = (intake.named # Absent)
         /\ intake.named # Absent =>
              /\ Source(sent) # "nothing"
              /\ intake.named = MissingFields(Found(sent))
<1>1. /\ rounds # 0 /\ Answered /\ intake.input_unusable
      /\ sent' = IF intake.named = Absent THEN AsAsked(sent) ELSE Amended(sent, intake.named)
      /\ amended' = (intake.named # Absent)
  BY DEF Amend, ReadOfTheMessage, Answered
<1>2. intake = Execute(sent, outcomes)
  BY <1>1 DEF ReadOfTheMessage
<1>3. ~ Usable(sent, outcomes) /\ intake.named = Named(sent, outcomes)
  BY <1>1, <1>2, ExecuteFields
<1>4. ASSUME intake.named # Absent
      PROVE  Source(sent) # "nothing" /\ intake.named = MissingFields(Found(sent))
  <2>1. Source(sent) # "nothing"
    BY <1>3, <1>4 DEF Named
  <2>2. ~ Completed(sent, outcomes)
    BY <1>3, <2>1, CompletedOrder DEF Usable
  <2> QED BY <1>3, <2>1, <2>2, NotCompleted DEF Named
<1> QED BY <1>1, <1>3, <1>4

LEMMA Sources ==
  ASSUME NEW s
  PROVE  Source(s) \in {"object", "packet", "sentence", "nothing"}
  BY DEF Source

\* The parts of an amended message, by where its order was read.
LEMMA AmendedParts ==
  ASSUME NEW s, IsWhole(s), NEW names
  PROVE  LET t == Amended(s, names)
             m == s.message
         IN  /\ Source(s) = "object" =>
                  /\ t.context = s.context /\ t.message.form = m.form
                  /\ t.message.object = Filled(m.object, names)
             /\ Source(s) = "packet" /\ CarriesPacket(s.context) =>
                  /\ t.context = Filled(s.context, names) /\ t.message = m
             /\ Source(s) = "packet" /\ ~ CarriesPacket(s.context) =>
                  /\ t.context = Corrected(s.context, names)
                  /\ t.message.form = m.form /\ t.message.masked = m.masked
                  /\ t.message.object = Filled(m.object, names)
             /\ Source(s) = "sentence" =>
                  /\ t.context = s.context /\ t.message.form = m.form
                  /\ t.message.object = m.object /\ t.message.masked = m.masked
                  /\ t.message.sentence = Written(m.sentence, names)
<1> DEFINE m == s.message
<1>1. /\ s = [message |-> m, context |-> s.context, secrets |-> s.secrets]
      /\ m = [form |-> m.form, object |-> m.object, masked |-> m.masked,
              sentence |-> m.sentence, script |-> m.script]
  BY DEF IsWhole, IsMessage
<1>2. CASE Source(s) = "object"
  BY <1>1, <1>2 DEF Amended
<1>3. CASE Source(s) = "packet" /\ CarriesPacket(s.context)
  BY <1>1, <1>3 DEF Amended
<1>4. CASE Source(s) = "packet" /\ ~ CarriesPacket(s.context)
  BY <1>1, <1>4 DEF Amended
<1>5. CASE Source(s) = "sentence"
  BY <1>1, <1>5 DEF Amended
<1> QED BY <1>2, <1>3, <1>4, <1>5

\* What is sent in place of a message that names nothing is a whole object.
LEMMA AsAskedParts ==
  ASSUME NEW s, IsWhole(s)
  PROVE  LET t == AsAsked(s)
             m == s.message
         IN  /\ t = [message |-> t.message, context |-> s.context, secrets |-> s.secrets]
             /\ t.message = [form |-> "object", object |-> t.message.object,
                             masked |-> m.masked, sentence |-> m.sentence,
                             script |-> m.script]
<1> DEFINE m == s.message
           o == Filled(NoFields @@ [delivery_address |-> Absent], PacketFields)
<1>1. /\ s = [message |-> m, context |-> s.context, secrets |-> s.secrets]
      /\ m = [form |-> m.form, object |-> m.object, masked |-> m.masked,
              sentence |-> m.sentence, script |-> m.script]
  BY DEF IsWhole, IsMessage
<1>2. AsAsked(s) = [s EXCEPT !.message = [@ EXCEPT !.form = "object", !.object = o]]
  BY DEF AsAsked
<1> HIDE DEF o
<1> QED BY <1>1, <1>2

LEMMA IsSequence ==
  ASSUME NEW n \in Nat, NEW S, NEW f, f = [i \in 1..n |-> f[i]], \A i \in 1..n : f[i] \in S
  PROVE  f \in Seq(S)
  OBVIOUS

LEMMA LengthAdded ==
  ASSUME NEW S, NEW p \in Seq(S), NEW q \in Seq(S)
  PROVE  Len(p \o q) = Len(p) + Len(q) /\ Len(q) \in Nat
  OBVIOUS

LEMMA NothingAdded ==
  ASSUME NEW S, NEW q \in Seq(S)
  PROVE  q \o <<>> = q
  OBVIOUS

\* The lines of an amended sentence: those there were, and the one added.
Recounted(w, names) ==
  [i \in DOMAIN w.lines |->
     IF "quantity" \in names THEN [w.lines[i] EXCEPT !.count = Absent] ELSE w.lines[i]]

WantedLine   == [sku |-> Wanted.items[1].sku, count |-> Absent, plain |-> FALSE]
Added(names) == IF "items" \in names THEN <<WantedLine>> ELSE <<>>

LEMMA WrittenLines ==
  ASSUME NEW w \in Writings, NEW names
  PROVE  /\ Written(w, names).lines = Recounted(w, names) \o Added(names)
         /\ Recounted(w, names) \in Seq(Mentions) /\ Added(names) \in Seq(Mentions)
         /\ Len(Recounted(w, names)) = Len(w.lines)
         /\ Written(w, names).lines \in Seq(Mentions)
<1> DEFINE l == Recounted(w, names)
<1>1. Written(w, names).lines = l \o Added(names)
  BY DEF Written, Recounted, Added, WantedLine
<1>2. /\ w.lines \in Seq(Mentions) /\ Len(w.lines) \in Nat
      /\ DOMAIN w.lines = 1..Len(w.lines)
  BY DEF Writings
<1>3. \A i \in DOMAIN w.lines : w.lines[i] \in Mentions
  BY <1>2
<1>4. \A i \in DOMAIN w.lines : l[i] \in Mentions
  BY <1>3 DEF Mentions, Recounted
<1>5. l = [i \in 1..Len(w.lines) |-> l[i]]
  BY <1>2 DEF Recounted
<1> HIDE DEF l
<1>6. l \in Seq(Mentions)
  BY <1>2, <1>4, <1>5, IsSequence
<1>7. Len(l) = Len(w.lines)
  BY <1>2, <1>5, <1>6
<1>8. WantedLine \in Mentions
  BY WantedAssumption DEF WantedLine, Mentions
<1>9. Added(names) \in Seq(Mentions)
  BY <1>8 DEF Added
<1>10. Written(w, names).lines \in Seq(Mentions)
  BY <1>1, <1>6, <1>9
<1> QED BY <1>1, <1>6, <1>7, <1>9, <1>10 DEF l

\* What is written stays a sentence.
LEMMA WrittenSentence ==
  ASSUME NEW w \in Writings, NEW names
  PROVE  Written(w, names) \in Writings
<1> DEFINE v == Written(w, names)
           e == [number |-> Wanted.order_id, form |-> "exact", around |-> FALSE]
<1>1. /\ w.numbers \in Seq(Numbers) /\ w.total \in Totals \cup {Absent}
      /\ w.channels \in SUBSET {"ec", "store"} /\ w.region \in STRING \cup {Absent}
  BY DEF Writings
<1>2. e \in Numbers
  BY WantedAssumption DEF Numbers
<1>3. v.numbers \in Seq(Numbers)
  BY <1>1, <1>2 DEF Written
<1>4. v.lines \in Seq(Mentions)
  BY WrittenLines
<1>5. v.total \in Totals \cup {Absent}
  BY <1>1, WantedAssumption DEF Written, Totals
<1>6. v.channels \in SUBSET {"ec", "store"} /\ v.region \in STRING \cup {Absent}
  BY <1>1, WantedAssumption DEF Written
<1>7. v = [numbers |-> v.numbers, lines |-> v.lines, total |-> v.total,
           channels |-> v.channels, region |-> v.region]
  BY DEF Written
<1>8. v \in Writings
  <2> HIDE DEF v
  <2> QED BY <1>3, <1>4, <1>5, <1>6, <1>7 DEF Writings
<1> QED BY <1>8

LEMMA AmendedWhole ==
  ASSUME NEW s, IsWhole(s), NEW names, Source(s) # "nothing"
  PROVE  IsWhole(Amended(s, names))
<1> DEFINE m == s.message
<1>1. /\ s = [message |-> m, context |-> s.context, secrets |-> s.secrets]
      /\ m = [form |-> m.form, object |-> m.object, masked |-> m.masked,
              sentence |-> m.sentence, script |-> m.script]
      /\ m.sentence \in Writings
      /\ m.form = "masked" => m.masked \cap MissingFields(m.object) = {}
  BY DEF IsWhole, IsMessage
<1>2. m.form = "masked" => m.masked \cap MissingFields(Filled(m.object, names)) = {}
  BY <1>1, FilledField, Lacking
<1>3. CASE Source(s) = "object"
  BY <1>1, <1>2, <1>3 DEF Amended, IsWhole, IsMessage
<1>4. CASE Source(s) = "packet" /\ CarriesPacket(s.context)
  BY <1>1, <1>4 DEF Amended, IsWhole, IsMessage
<1>5. CASE Source(s) = "packet" /\ ~ CarriesPacket(s.context)
  BY <1>1, <1>2, <1>5 DEF Amended, IsWhole, IsMessage
<1>6. CASE Source(s) = "sentence"
  <2>1. Written(m.sentence, names) \in Writings
    BY <1>1, WrittenSentence
  <2> QED BY <1>1, <1>6, <2>1 DEF Amended, IsWhole, IsMessage
<1> QED BY <1>3, <1>4, <1>5, <1>6, Sources

LEMMA WholeStep == WholeMessage /\ ReadOfTheMessage /\ [IntakeNext]_intakeVars => WholeMessage'
<1> SUFFICES ASSUME WholeMessage, ReadOfTheMessage, [IntakeNext]_intakeVars PROVE WholeMessage'
  OBVIOUS
<1>1. CASE Send
  BY <1>1, IntakeAssumption DEF Send, WholeMessage, IsWhole
<1>2. CASE OrderIngest
  BY <1>2 DEF OrderIngest, WholeMessage
<1>3. CASE Amend
  <2>1. IsWhole(sent)
    BY <1>3, AmendedWhat DEF WholeMessage
  <2>2. IsWhole(AsAsked(sent))
    <3> DEFINE t == AsAsked(sent)
    <3>1. /\ t = [message |-> t.message, context |-> sent.context, secrets |-> sent.secrets]
          /\ t.message = [form |-> "object", object |-> t.message.object,
                          masked |-> sent.message.masked,
                          sentence |-> sent.message.sentence,
                          script |-> sent.message.script]
      BY <2>1, AsAskedParts
    <3>2. sent.message.sentence \in Writings
      BY <2>1 DEF IsWhole, IsMessage
    <3> HIDE DEF t
    <3>3. IsWhole(t)
      BY <3>1, <3>2 DEF IsWhole, IsMessage
    <3> QED BY <3>3 DEF t
  <2>3. \/ sent' = AsAsked(sent)
        \/ Source(sent) # "nothing" /\ sent' = Amended(sent, intake.named)
    BY <1>3, AmendedWhat
  <2>4. IsWhole(sent')
    BY <2>1, <2>2, <2>3, AmendedWhole
  <2> QED BY <2>4 DEF WholeMessage
<1>4. CASE UNCHANGED intakeVars
  BY <1>4 DEF intakeVars, WholeMessage
<1> QED BY <1>1, <1>2, <1>3, <1>4 DEF IntakeNext

LEMMA Whole == IntakeSpec => []WholeMessage
<1>1. IntakeInit => WholeMessage
  BY DEF IntakeInit, WholeMessage
<1> QED BY <1>1, WholeStep, Read, PTL DEF IntakeSpec

(* A masked number costs that number only: the repaired object has every   *)
(* other field as it was sent, and the mark itself counts as a value, so   *)
(* neither the decision nor what is named can differ                       *)
(* (caller_packet.py:49-72).                                               *)
THEOREM MaskSafe == IntakeSpec => []MaskCostsOneField
<1>1. WholeMessage /\ ReadOfTheMessage => MaskCostsOneField
  <2> DEFINE m == sent.message
             whole == Execute(Unmasked, outcomes)
  <2> SUFFICES ASSUME WholeMessage, ReadOfTheMessage, Answered, m.form = "masked", NoContext,
                      ~ Falsy(m.object.order_id)
               PROVE  /\ intake.input_unusable = whole.input_unusable
                      /\ intake.named = whole.named
                      /\ Accepted => \A f \in EnvelopeFields \ m.masked :
                                       intake.order[f] = whole.order[f]
    BY DEF MaskCostsOneField
  <2> DEFINE p == Packet(sent)
             r == Repaired(m)
  <2>1. /\ intake = Execute(sent, outcomes)
        /\ Unmasked.message.form = "object" /\ Unmasked.message.object = m.object
        /\ m.masked \cap MissingFields(m.object) = {}
    BY DEF ReadOfTheMessage, WholeMessage, IsWhole, IsMessage, Unmasked, Answered
  <2>2. ~ CarriesPacket(sent.context)
    BY DEF NoContext, CarriesPacket, PacketFields, RequiredOrderFields
  <2>3. \A f \in RequiredOrderFields : r[f] = IF f \in m.masked THEN Junk ELSE m.object[f]
    BY DEF Repaired
  <2>4. ~ Falsy(r["order_id"])
    BY <2>3, MarkersAssumption DEF Falsy, RequiredOrderFields
  <2>5. CarriesPacket(r)
    BY <2>4 DEF CarriesPacket, PacketFields, Falsy
  <2>6. p = Overlay(r, sent.context)
    BY <2>2, <2>5 DEF Packet, CallerPacket
  <2>7. \A f \in RequiredOrderFields : p[f] = r[f]
    BY <2>6 DEF Overlay, NoContext
  <2> HIDE DEF p, r
  <2>8. ~ Falsy(p.order_id)
    BY <2>4, <2>7 DEF RequiredOrderFields
  <2>9. Source(sent) = "packet" /\ Found(sent) = p
    BY <2>8 DEF Source, Found, p
  <2>10. Source(Unmasked) = "object" /\ Found(Unmasked) = m.object
    BY <2>1 DEF Source, Found
  <2>11. Payload(sent, outcomes) = p /\ Payload(Unmasked, outcomes) = m.object
    BY <2>9, <2>10, NotCompleted, CompletedOrder
  <2>12. MissingFields(p) = MissingFields(m.object)
    <3>1. ASSUME NEW f \in RequiredOrderFields
          PROVE  f \in MissingFields(p) <=> f \in MissingFields(m.object)
      <4>1. CASE f \in m.masked
        BY <2>1, <2>3, <2>7, <4>1, JunkIsThere
      <4>2. CASE f \notin m.masked
        BY <2>3, <2>7, <4>2, MissingAlike
      <4> QED BY <4>1, <4>2
    <3> QED BY <3>1, Lacking
  <2>13. Usable(sent, outcomes) = Usable(Unmasked, outcomes)
    BY <2>9, <2>10, <2>11, <2>12 DEF Usable
  <2>14. Named(sent, outcomes) = Named(Unmasked, outcomes)
    BY <2>9, <2>10, <2>11, <2>12 DEF Named
  <2>15. CASE ~ Usable(sent, outcomes)
    BY <2>1, <2>13, <2>14, <2>15, ExecuteFields DEF Accepted
  <2>16. CASE Usable(sent, outcomes)
    <3>1. intake = Ingested(sent, outcomes) /\ whole = Ingested(Unmasked, outcomes)
      BY <2>1, <2>13, <2>16, ExecuteFields
    <3>2. intake.named = whole.named /\ intake.input_unusable = whole.input_unusable
      BY <3>1 DEF Ingested
    <3>3. \A f \in EnvelopeFields :
            intake.order[f] = p[f] /\ whole.order[f] = m.object[f]
      BY <2>11, <3>1 DEF Ingested
    <3>4. \A f \in EnvelopeFields \ m.masked : p[f] = m.object[f]
      BY <2>3, <2>7 DEF EnvelopeFields, PacketFields, RequiredOrderFields
    <3> QED BY <3>2, <3>3, <3>4
  <2> QED BY <2>15, <2>16
<1> QED BY <1>1, Whole, Read, PTL

-----------------------------------------------------------------------------
(* What an amended sentence says.                                          *)

\* A set of numbers that is not empty has a least one.
LEMMA LeastIn ==
  ASSUME NEW R, \A x, y \in Nat : x < y => <<x, y>> \in R, IsWellFoundedOn(R, Nat),
         NEW T, T \subseteq Nat, T # {}
  PROVE  \E m \in T : \A k \in T : m <= k
<1>1. \E x \in T : \A y \in T : ~ (<<y, x>> \in R)
  BY WFMin
<1>2. PICK x \in T : \A y \in T : ~ (<<y, x>> \in R)
  BY <1>1
<1>3. ASSUME NEW k \in T PROVE x <= k
  <2>1. x \in Nat /\ k \in Nat
    OBVIOUS
  <2>2. ~ (k < x)
    BY <1>2, <2>1
  <2> QED BY <2>1, <2>2
<1> QED BY <1>3

LEMMA LeastNat ==
  ASSUME NEW T, T \subseteq Nat, T # {}
  PROVE  \E m \in T : \A k \in T : m <= k
<1>1. IsWellFoundedOn(OpToRel(<, Nat), Nat)
  BY NatLessThanWellFounded
<1>2. \A x, y \in Nat : x < y => <<x, y>> \in OpToRel(<, Nat)
  BY Zenon DEF OpToRel
<1> QED BY <1>1, <1>2, LeastIn

\* The first match is a match: of an order number, and of a count.
LEMMA NumberFound ==
  ASSUME NEW w \in Writings, \E text \in ToSet(w.numbers) : IsExact(text)
  PROVE  NumberRead(w) \in STRING
<1> DEFINE T == {i \in DOMAIN w.numbers : IsExact(w.numbers[i])}
           first == CHOOSE i \in T : \A j \in T : i <= j
<1>1. w.numbers \in Seq(Numbers)
  BY DEF Writings
<1>2. T \subseteq Nat /\ T # {}
  BY <1>1 DEF ToSet
<1>3. first \in T
  BY <1>2, LeastNat
<1>4. NumberRead(w) = w.numbers[first].number
  BY DEF NumberRead, FirstMatch, Matches
<1>5. w.numbers[first] \in Numbers
  <2>1. first \in DOMAIN w.numbers
    BY <1>3
  <2> HIDE DEF first
  <2> QED BY <1>1, <2>1
<1> QED BY <1>4, <1>5 DEF Numbers

LEMMA CountFound ==
  ASSUME NEW w \in Writings
  PROVE  QuantityRead(w) \in Int \cup {Absent}
<1>1. CASE \E line \in ToSet(w.lines) : IsCounted(line)
  <2> DEFINE T == {i \in DOMAIN w.lines : IsCounted(w.lines[i])}
             first == CHOOSE i \in T : \A j \in T : i <= j
  <2>1. w.lines \in Seq(Mentions)
    BY DEF Writings
  <2>2. T \subseteq Nat /\ T # {}
    BY <1>1, <2>1 DEF ToSet
  <2>3. first \in T
    BY <2>2, LeastNat
  <2>4. QuantityRead(w) = w.lines[first].count
    BY <1>1 DEF QuantityRead, FirstMatch, Matches
  <2>5. w.lines[first] \in Mentions
    <3>1. first \in DOMAIN w.lines
      BY <2>3
    <3> HIDE DEF first
    <3> QED BY <2>1, <3>1
  <2> QED BY <2>4, <2>5 DEF Mentions
<1>2. CASE ~ \E line \in ToSet(w.lines) : IsCounted(line)
  BY <1>2 DEF QuantityRead, Writings, Totals
<1> QED BY <1>1, <1>2

\* Lines that are written are lines that are read.
LEMMA LinesFound ==
  ASSUME NEW w \in Writings, w.lines # <<>>
  PROVE  ~ FalsyList(OrderFromText(w).items)
<1> DEFINE n == Len(w.lines)
           r == LinesRead(w)
<1>1. w.lines \in Seq(Mentions) /\ n \in Nat /\ n # 0 /\ DOMAIN w.lines = 1..n
  BY DEF Writings
<1>2. Get(QuantityRead(w), 1) \in Int
  BY CountFound DEF Get
<1>3. r = [i \in 1..n |-> r[i]]
  BY <1>1 DEF LinesRead
<1>4. \A i \in 1..n : r[i] \in ReadLines
  <2>1. \A i \in 1..n : w.lines[i] \in Mentions
    BY <1>1
  <2>2. \A i \in 1..n : w.lines[i].sku \in STRING
    BY <2>1 DEF Mentions
  <2> QED BY <1>1, <1>2, <2>2 DEF LinesRead, ReadLines
<1>5. OrderFromText(w).items = r
  BY DEF OrderFromText
<1> HIDE DEF r, n
<1>6. r \in Seq(ReadLines)
  BY <1>1, <1>3, <1>4, IsSequence
<1>7. ~ Falsy(r)
  BY <1>6, ReadAssumption DEF Falsy
<1>8. r # <<>>
  BY <1>1, <1>3
<1> QED BY <1>5, <1>7, <1>8 DEF FalsyList

LEMMA RegionFound ==
  ASSUME NEW w, w.region \in STRING
  PROVE  ~ Falsy(OrderFromText(w).delivery_address)
<1>1. OrderFromText(w).delivery_address \in ReadRegions
  BY MarkersAssumption DEF OrderFromText, RegionRead, ReadRegions
<1> QED BY <1>1, ReadAssumption DEF Falsy

LEMMA WantedThere == \A f \in RequiredOrderFields : ~ Falsy(Wanted[f])
  BY WantedAssumption, Lacking DEF RequiredOrderFields, FalsyNumber, FalsyList

\* A sentence that says plainly what was not read of it is read whole.
LEMMA WrittenComplete ==
  ASSUME NEW w \in Writings
  PROVE  MissingFields(OrderFromText(Written(w, MissingFields(OrderFromText(w))))) = {}
<1> DEFINE q     == OrderFromText(w)
           names == MissingFields(q)
           v     == Written(w, names)
           p     == OrderFromText(v)
           e     == [number |-> Wanted.order_id, form |-> "exact", around |-> FALSE]
           y     == Added(names)
           l     == Recounted(w, names)
<1>1. v \in Writings
  BY WrittenSentence
<1>2. /\ w.numbers \in Seq(Numbers) /\ w.lines \in Seq(Mentions)
      /\ Len(w.lines) \in Nat /\ DOMAIN w.lines = 1..Len(w.lines)
  BY DEF Writings
<1>3. /\ v.numbers = IF "order_id" \in names THEN Append(w.numbers, e) ELSE w.numbers
      /\ v.total = IF "quantity" \in names THEN [n |-> Wanted.quantity, plain |-> TRUE]
                   ELSE w.total
      /\ v.channels = IF "channel" \in names THEN {Wanted.channel} ELSE w.channels
      /\ v.region = IF "delivery_address" \in names THEN Wanted.delivery_address.region
                    ELSE w.region
  BY DEF Written
<1>4. /\ p["order_id"] = NumberRead(v) /\ q["order_id"] = NumberRead(w)
      /\ p["channel"] = ChannelRead(v) /\ q["channel"] = ChannelRead(w)
      /\ p["quantity"] = QuantityRead(v) /\ q["quantity"] = QuantityRead(w)
      /\ p["delivery_address"] = RegionRead(v) /\ q["delivery_address"] = RegionRead(w)
      /\ q["items"] = IF w.lines = <<>> THEN Absent ELSE LinesRead(w)
  BY DEF OrderFromText
<1>5. /\ v.lines = l \o y /\ l \in Seq(Mentions) /\ y \in Seq(Mentions)
      /\ Len(l) = Len(w.lines)
  BY WrittenLines
<1>6. y = IF "items" \in names THEN <<WantedLine>> ELSE <<>>
  BY DEF Added
<1>7. "items" \in names <=> w.lines = <<>>
  <2>1. w.lines # <<>> => ~ FalsyList(q["items"])
    BY LinesFound
  <2>2. w.lines = <<>> => FalsyList(q["items"])
    BY <1>4 DEF FalsyList, Falsy
  <2> QED BY <2>1, <2>2, Lacking
<1> HIDE DEF q, names, v, p, l, y
<1>8. ~ Falsy(p["order_id"])
  <2>1. CASE "order_id" \in names
    <3>1. /\ v.numbers[Len(w.numbers) + 1] = e
          /\ Len(w.numbers) + 1 \in DOMAIN v.numbers
      BY <1>2, <1>3, <2>1
    <3>2. \E text \in ToSet(v.numbers) : IsExact(text)
      BY <3>1 DEF ToSet, IsExact
    <3>3. p["order_id"] \in STRING
      BY <1>1, <1>4, <3>2, NumberFound
    <3> QED BY <3>3, MarkersAssumption DEF Falsy
  <2>2. CASE "order_id" \notin names
    <3>1. ~ Falsy(q["order_id"])
      BY <2>2, Lacking DEF names
    <3>2. NumberRead(v) = NumberRead(w)
      BY <1>3, <2>2 DEF NumberRead
    <3> QED BY <1>4, <3>1, <3>2
  <2> QED BY <2>1, <2>2
<1>9. ~ Falsy(p["channel"])
  <2>1. CASE "channel" \in names
    <3>1. ChannelRead(v) = Wanted.channel
      BY <1>3, <2>1, WantedAssumption DEF ChannelRead
    <3> QED BY <1>4, <3>1, WantedThere DEF RequiredOrderFields
  <2>2. CASE "channel" \notin names
    <3>1. ~ Falsy(q["channel"])
      BY <2>2, Lacking DEF names
    <3>2. ChannelRead(v) = ChannelRead(w)
      BY <1>3, <2>2 DEF ChannelRead
    <3> QED BY <1>4, <3>1, <3>2
  <2> QED BY <2>1, <2>2
<1>10. ~ FalsyList(p["items"])
  <2>1. Len(v.lines) = Len(w.lines) + Len(y) /\ Len(y) \in Nat
    BY <1>5, LengthAdded
  <2>2. w.lines = <<>> => Len(y) = 1
    BY <1>6, <1>7
  <2>3. w.lines # <<>> => Len(w.lines) # 0
    BY <1>2
  <2>4. Len(v.lines) # 0
    <3>1. Len(w.lines) \in Nat
      BY <1>2
    <3>2. Len(y) # 0 \/ Len(w.lines) # 0
      BY <2>2, <2>3
    <3> QED BY <2>1, <3>1, <3>2
  <2>5. v.lines # <<>>
    BY <2>4
  <2> QED BY <1>1, <2>5, LinesFound DEF p
<1>11. ~ FalsyNumber(p["quantity"])
  <2>1. CASE "quantity" \in names
    <3>1. \A i \in DOMAIN v.lines : v.lines[i].count = Absent
      <4>1. \A i \in DOMAIN l : l[i].count = Absent
        <5>1. \A i \in DOMAIN w.lines : w.lines[i] \in Mentions
          BY <1>2
        <5> QED BY <2>1, <5>1 DEF l, Recounted, Mentions
      <4>2. \A i \in DOMAIN y : y[i].count = Absent
        BY <1>6 DEF WantedLine
      <4> QED BY <1>5, <4>1, <4>2
    <3>2. ~ \E line \in ToSet(v.lines) : IsCounted(line)
      BY <3>1 DEF ToSet, IsCounted
    <3>3. v.total \in Totals /\ v.total.plain /\ v.total.n = Wanted.quantity
      BY <1>3, <2>1, WantedAssumption DEF Totals
    <3>4. v.total # Absent
      BY <3>3, ReadAssumption
    <3>5. QuantityRead(v) = Wanted["quantity"]
      BY <3>2, <3>3, <3>4 DEF QuantityRead
    <3>6. ~ FalsyNumber(Wanted["quantity"])
      BY WantedAssumption, Lacking
    <3> QED BY <1>4, <3>5, <3>6
  <2>2. CASE "quantity" \notin names
    <3>1. ~ FalsyNumber(q["quantity"])
      BY <2>2, Lacking DEF names
    <3>2. l = w.lines
      BY <1>2, <2>2 DEF l, Recounted
    <3>3. v.total = w.total
      BY <1>3, <2>2
    <3>4. CASE w.lines # <<>>
      <4>1. v.lines = w.lines
        BY <1>5, <1>6, <1>7, <3>2, <3>4, NothingAdded
      <4> QED BY <1>4, <3>1, <3>3, <4>1 DEF QuantityRead
    <3>5. CASE w.lines = <<>>
      <4>1. v.lines = <<WantedLine>>
        <5>1. l = <<>> /\ y = <<WantedLine>>
          BY <1>6, <1>7, <3>2, <3>5
        <5> QED BY <1>5, <5>1
      <4>2. ~ \E line \in ToSet(v.lines) : IsCounted(line)
        BY <4>1 DEF ToSet, IsCounted, WantedLine
      <4>3. ~ \E line \in ToSet(w.lines) : IsCounted(line)
        BY <3>5 DEF ToSet
      <4> QED BY <1>4, <3>1, <3>3, <4>2, <4>3 DEF QuantityRead
    <3> QED BY <3>4, <3>5
  <2> QED BY <2>1, <2>2
<1>12. ~ Falsy(p["delivery_address"])
  <2>1. CASE "delivery_address" \in names
    BY <1>3, <2>1, RegionFound, WantedAssumption DEF p
  <2>2. CASE "delivery_address" \notin names
    <3>1. ~ Falsy(q["delivery_address"])
      BY <2>2, Lacking DEF names
    <3>2. RegionRead(v) = RegionRead(w)
      BY <1>3, <2>2 DEF RegionRead
    <3> QED BY <1>4, <3>1, <3>2
  <2> QED BY <2>1, <2>2
<1>13. MissingFields(p) = {}
  BY <1>8, <1>9, <1>10, <1>11, <1>12, Lacking DEF RequiredOrderFields
<1> QED BY <1>13 DEF p, v, names, q

-----------------------------------------------------------------------------
(* Guidance.                                                               *)

\* The node finds an order in it, with nothing missing.
Complete(s) == Source(s) # "nothing" /\ MissingFields(Found(s)) = {}

\* What is complete is usable, whatever the model does.
LEMMA CompleteIsUsable ==
  ASSUME NEW s, NEW o, Complete(s)
  PROVE  Usable(s, o)
  BY NotCompleted DEF Complete, Usable, Completed, Asked

\* Writing what is missing where the order was read completes it.
LEMMA AmendedComplete ==
  ASSUME NEW s, IsWhole(s), Source(s) # "nothing"
  PROVE  Complete(Amended(s, MissingFields(Found(s))))
<1> DEFINE names == MissingFields(Found(s))
           t     == Amended(s, names)
           m     == s.message
<1> SUFFICES Complete(t)
  OBVIOUS
<1> HIDE DEF names, t
<1>1. CASE Source(s) = "object"
  <2>1. t.message.form = "object" /\ t.message.object = Filled(m.object, names)
    BY <1>1, AmendedParts DEF t, Source
  <2>2. names = MissingFields(m.object)
    BY <1>1 DEF names, Found
  <2>3. Source(t) = "object" /\ Found(t) = Filled(m.object, names)
    BY <2>1 DEF Source, Found
  <2>4. MissingFields(Filled(m.object, names)) = {}
    BY <2>2, FilledField, Lacking
  <2> QED BY <2>3, <2>4 DEF Complete
<1>2. CASE Source(s) = "packet" /\ CarriesPacket(s.context)
  <2>1. t.context = Filled(s.context, names) /\ t.message = m
    BY <1>2, AmendedParts DEF t
  <2>2. Packet(s) = s.context
    BY <1>2 DEF Packet, CallerPacket
  <2>3. names = MissingFields(s.context) /\ ~ Falsy(s.context["order_id"]) /\ m.form # "object"
    BY <1>2, <2>2 DEF names, Found, Source
  <2>4. t.context["order_id"] = s.context["order_id"]
    BY <2>1, <2>3, Lacking DEF Filled, RequiredOrderFields
  <2>5. CarriesPacket(t.context)
    BY <2>3, <2>4 DEF CarriesPacket, PacketFields, Falsy
  <2>6. Packet(t) = t.context
    BY <2>5 DEF Packet, CallerPacket
  <2>7. Source(t) = "packet" /\ Found(t) = t.context
    BY <2>1, <2>3, <2>4, <2>6 DEF Source, Found
  <2>8. MissingFields(Filled(s.context, names)) = {}
    BY <2>3, FilledField, Lacking
  <2> QED BY <2>1, <2>7, <2>8 DEF Complete
<1>3. CASE Source(s) = "packet" /\ ~ CarriesPacket(s.context)
  <2> DEFINE r == Repaired(m)
             u == Repaired(t.message)
             c == Corrected(s.context, names)
  <2>1. /\ t.context = c /\ t.message.form = m.form /\ t.message.masked = m.masked
        /\ t.message.object = Filled(m.object, names)
    BY <1>3, AmendedParts DEF t
  <2>2. s.context["order_id"] = Absent
    BY <1>3 DEF CarriesPacket, PacketFields
  <2>3. m.form = "masked" /\ Packet(s) = Overlay(r, s.context)
    BY <1>3, <2>2 DEF Source, Packet, CallerPacket, Falsy
  <2>4. Found(s) = Packet(s) /\ ~ Falsy(Packet(s)["order_id"])
    BY <1>3 DEF Source, Found
  <2>5. \A f \in RequiredOrderFields :
          /\ Packet(s)[f] = IF s.context[f] # Absent THEN s.context[f] ELSE r[f]
          /\ r[f] = IF f \in m.masked THEN Junk ELSE m.object[f]
          /\ c[f] = IF f \in names /\ s.context[f] # Absent THEN Wanted[f] ELSE s.context[f]
          /\ u[f] = IF f \in m.masked THEN Junk
                    ELSE IF f \in names THEN Wanted[f] ELSE m.object[f]
    BY <2>1, <2>3 DEF Overlay, Repaired, Corrected, Filled
  <2> HIDE DEF r, u, c
  <2>6. ~ CarriesPacket(c)
    BY <1>3, <2>5 DEF CarriesPacket, PacketFields, RequiredOrderFields
  <2>7. "order_id" \notin names
    BY <2>4, Lacking DEF names
  <2>8. u["order_id"] = Packet(s)["order_id"]
    BY <2>2, <2>5, <2>7 DEF RequiredOrderFields
  <2>9. CarriesPacket(u)
    BY <2>4, <2>8 DEF CarriesPacket, PacketFields, Falsy
  <2>10. Packet(t) = Overlay(u, c)
    BY <2>1, <2>3, <2>6, <2>9 DEF Packet, CallerPacket, u
  <2>11. \A f \in RequiredOrderFields : Packet(t)[f] = IF c[f] # Absent THEN c[f] ELSE u[f]
    BY <2>10 DEF Overlay
  <2>12. Packet(t)["order_id"] = Packet(s)["order_id"]
    BY <2>2, <2>5, <2>8, <2>11 DEF RequiredOrderFields
  <2>13. Source(t) = "packet" /\ Found(t) = Packet(t)
    BY <2>1, <2>3, <2>4, <2>12 DEF Source, Found
  <2>14. ASSUME NEW f \in RequiredOrderFields PROVE f \notin MissingFields(Packet(t))
    <3>1. \/ Packet(t)[f] = Junk
          \/ Packet(t)[f] = Wanted[f]
          \/ Packet(t)[f] = Packet(s)[f] /\ f \notin names
      BY <2>5, <2>11, WantedThere DEF Falsy
    <3>2. f \notin names => f \notin MissingFields(Packet(s))
      BY <2>4 DEF names
    <3> QED BY <3>1, <3>2, JunkIsThere, MissingAlike, WantedAssumption
  <2> QED BY <2>13, <2>14, Lacking DEF Complete
<1>4. CASE Source(s) = "sentence"
  <2>1. /\ t.context = s.context /\ t.message.form = m.form /\ t.message.object = m.object
        /\ t.message.masked = m.masked /\ t.message.sentence = Written(m.sentence, names)
    BY <1>4, AmendedParts DEF t
  <2>2. Packet(t) = Packet(s)
    BY <2>1 DEF Packet, CallerPacket, Repaired
  <2>3. Source(t) = "sentence"
    BY <1>4, <2>1, <2>2 DEF Source
  <2>4. /\ Found(t) = OrderFromText(Written(m.sentence, names))
        /\ names = MissingFields(OrderFromText(m.sentence))
    BY <1>4, <2>1, <2>3, FoundInSentence DEF names
  <2>5. m.sentence \in Writings
    BY DEF IsWhole, IsMessage
  <2> QED BY <2>3, <2>4, <2>5, WrittenComplete DEF Complete
<1> QED BY <1>1, <1>2, <1>3, <1>4, Sources

\* The inductive invariant: a message that follows guidance is complete.
GuidedInv == amended => Complete(sent)

LEMMA GuidedStep ==
  WholeMessage /\ ReadOfTheMessage /\ GuidedInv /\ [IntakeNext]_intakeVars => GuidedInv'
<1> SUFFICES ASSUME WholeMessage, ReadOfTheMessage, GuidedInv, [IntakeNext]_intakeVars
             PROVE  GuidedInv'
  OBVIOUS
<1>1. CASE Send
  BY <1>1 DEF Send, ReadOfTheMessage, GuidedInv
<1>2. CASE OrderIngest
  BY <1>2 DEF OrderIngest, GuidedInv
<1>3. CASE Amend
  <2>1. IsWhole(sent)
    BY <1>3, AmendedWhat DEF WholeMessage
  <2>2. CASE intake.named = Absent
    BY <1>3, <2>2, AmendedWhat DEF GuidedInv
  <2>3. CASE intake.named # Absent
    <3>1. /\ Source(sent) # "nothing"
          /\ sent' = Amended(sent, MissingFields(Found(sent)))
      BY <1>3, <2>3, AmendedWhat
    <3>2. Complete(Amended(sent, MissingFields(Found(sent))))
      BY <2>1, <3>1, AmendedComplete
    <3> QED BY <3>1, <3>2 DEF GuidedInv
  <2> QED BY <2>2, <2>3
<1>4. CASE UNCHANGED intakeVars
  BY <1>4 DEF intakeVars, GuidedInv
<1> QED BY <1>1, <1>2, <1>3, <1>4 DEF IntakeNext

(* Guidance is enough: whatever the sender sent, and whatever the model    *)
(* made of it, once the sender writes what the guidance names, plainly and *)
(* where the order was read, the order is accepted                         *)
(* (order_ingest_node.py:144-160, 214-221).                                *)
THEOREM GuidanceSafe == IntakeSpec => []GuidanceSuffices
<1>1. IntakeInit => GuidedInv
  BY DEF IntakeInit, GuidedInv
<1>2. GuidedInv /\ ReadOfTheMessage => GuidanceSuffices
  <2> SUFFICES ASSUME GuidedInv, ReadOfTheMessage, amended, Answered
               PROVE  ~ intake.input_unusable
    BY DEF GuidanceSuffices
  <2>1. Complete(sent) /\ intake = Execute(sent, outcomes)
    BY DEF GuidedInv, ReadOfTheMessage, Answered
  <2> QED BY <2>1, CompleteIsUsable, ExecuteFields
<1> QED BY <1>1, <1>2, GuidedStep, Read, Whole, PTL DEF IntakeSpec
=============================================================================
