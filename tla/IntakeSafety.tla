----------------------------- MODULE IntakeSafety ------------------------------
(***************************************************************************)
(* What the intake node promises the sender of an order.                   *)
(***************************************************************************)
EXTENDS OrderIntake

\* The node has answered, with an order or with guidance.
Answered  == intake # Absent
Accepted  == Answered /\ ~ intake.input_unusable
Guided    == Answered /\ intake.input_unusable

\* The sentence, when it is what the order was read from.
Patterns == OrderFromText(sent.message.sentence)

\* What the model said, as far as the client understood it.
Heard == AskJson(sent.secrets, outcomes)

(* What the sender wrote is not overridden and what the model adds can be  *)
(* verified: in an order the model helped to complete, each field the      *)
(* patterns read is as they read it, the lines are the sender's, and each  *)
(* other field is one of the channels, a positive count, or text with an   *)
(* order number in it (order_ingest_node.py:93-141).  That lines are never *)
(* the model's is not what agent_scope.py:82-85 says of them: a list       *)
(* becomes a string (input_intake.py:196), which the shape check drops.    *)
ModelOnlyCompletes ==
  Accepted /\ Asked(sent) =>
    /\ \A f \in EnvelopeFields : ~ Falsy(Patterns[f]) => intake.order[f] = Patterns[f]
    /\ "items" \notin MissingFields(Patterns)
    /\ intake.order.channel \in ClosedSet
    /\ Patterns.quantity = Absent => intake.order.quantity > 0
    /\ Patterns.order_id = Absent => Heard.fields.order_id.number # Absent

(* The mark of an order assembled by patterns alone is on exactly those    *)
(* orders: not on one the model helped with, and not on one that was sent  *)
(* as an object or a packet (order_ingest_node.py:187-212, 243).           *)
DegradedMeansPatternsAlone ==
  Accepted =>
    (intake.drafting_degraded <=>
       /\ Source(sent) = "sentence"
       /\ MissingFields(Patterns) = {})

\* The same message, read by an agent that has no model.
Alone ==
  Execute([message |-> sent.message, context |-> sent.context, secrets |-> {}], outcomes)

(* The model can complete an order and do nothing else: an order that is   *)
(* accepted without it is accepted the same, and guidance names the fields *)
(* it names without it, so the sender is never told less for what the      *)
(* model guessed (order_ingest_node.py:207-221).                           *)
ModelCostsNothing ==
  Answered =>
    /\ ~ Alone.input_unusable => intake = Alone
    /\ Guided => intake.named = Alone.named

(* The reply is in a language somebody chose: the model's reading or the   *)
(* script of the message.  The default that understand_input fills in for  *)
(* a message nobody could read never passes for a decision                 *)
(* (input_intake.py:138-182, order_ingest_node.py:249-264).                *)
NoDefaultLanguage ==
  Answered =>
    \/ intake.answer_language = sent.message.script
    \/ Asked(sent) /\ Heard # NoReply /\ intake.answer_language = Heard.language

NoContext == \A f \in RequiredOrderFields : sent.context[f] = Absent

\* The message as it was before the gate masked numbers in it.
Unmasked == [sent EXCEPT !.message.form = "object"]

(* A number the S-2 gate masks costs the sender that number and no more:   *)
(* an order sent as an object with an order id is accepted or guided as    *)
(* it would be unmasked, and its other fields are as they were sent        *)
(* (caller_packet.py:49-72).                                             *)
MaskCostsOneField ==
  /\ Answered /\ sent.message.form = "masked" /\ NoContext
  /\ ~ Falsy(sent.message.object.order_id)
  => LET whole == Execute(Unmasked, outcomes)
     IN  /\ intake.input_unusable = whole.input_unusable /\ intake.named = whole.named
         /\ Accepted => \A f \in EnvelopeFields \ sent.message.masked :
                          intake.order[f] = whole.order[f]

(* Guidance is enough: a sender who writes what it names, plainly and      *)
(* where the order was read, has the order accepted at the next message,   *)
(* whether or not the model helps again (order_ingest_node.py:144-160,     *)
(* 214-221).                                                               *)
GuidanceSuffices == amended /\ Answered => ~ intake.input_unusable
=============================================================================
