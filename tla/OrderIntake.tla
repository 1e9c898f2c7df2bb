------------------------------ MODULE OrderIntake ------------------------------
(***************************************************************************)
(* OrderIngestNode.execute and a sender in dialogue with it: a message is  *)
(* sent, read, and answered with guidance that the sender follows.  Every  *)
(* message is read on its own, by the one action OrderIngest.              *)
(***************************************************************************)
EXTENDS OrderReading, FiniteSets

CONSTANTS
  Sendings,  \* what senders send: [message, context, secrets]
  Outcomes,  \* what the four attempts to call the model may come to
  Wanted,    \* the order the sender wants: a payload that nothing is missing in
  MaxRounds  \* bound on the messages of a dialogue

ASSUME IntakeAssumption ==
  /\ MaxRounds \in Nat /\ Absent \notin Sendings
  /\ \A s \in Sendings : /\ s = [message |-> s.message, context |-> s.context,
                                 secrets |-> s.secrets]
                         /\ IsMessage(s.message)

ASSUME WantedAssumption ==
  /\ MissingFields(Wanted) = {}
  /\ Wanted.order_id \in STRING /\ Wanted.channel \in {"ec", "store"}
  /\ Wanted.quantity \in Int /\ Wanted.items[1].sku \in STRING
  /\ Wanted.delivery_address.region \in STRING

VARIABLES
  sent,      \* what the sender sent last, Absent before
  outcomes,  \* what the model's client did about it, Absent when not called
  intake,    \* what the node returned, Absent while it has not
  amended,   \* the message follows guidance that named what was missing
  rounds

intakeVars == <<sent, outcomes, intake, amended, rounds>>

-----------------------------------------------------------------------------
IntakeInit ==
  sent = Absent /\ outcomes = Absent /\ intake = Absent /\ amended = FALSE /\ rounds = 0

Send ==
  /\ rounds = 0
  /\ sent' \in Sendings
  /\ rounds' = 1
  /\ UNCHANGED <<outcomes, intake, amended>>

OrderIngest ==
  /\ sent # Absent /\ intake = Absent
  /\ IF Asked(sent) THEN outcomes' \in Outcomes ELSE outcomes' = Absent
  /\ intake' = Execute(sent, outcomes')
  /\ UNCHANGED <<sent, amended, rounds>>

\* The sender writes what is named where the order was read, and plainly.
Filled(dict, names) == [f \in RequiredOrderFields |-> IF f \in names THEN Wanted[f] ELSE dict[f]]

Written(sentence, names) ==
  [numbers  |-> IF "order_id" \in names
                  THEN Append(sentence.numbers,
                              [number |-> Wanted.order_id, form |-> "exact", around |-> FALSE])
                  ELSE sentence.numbers,
   lines    |-> [i \in DOMAIN sentence.lines |->
                   IF "quantity" \in names
                     THEN [sentence.lines[i] EXCEPT !.count = Absent] ELSE sentence.lines[i]]
                \o (IF "items" \in names
                      THEN <<[sku |-> Wanted.items[1].sku, count |-> Absent, plain |-> FALSE]>>
                      ELSE <<>>),
   total    |-> IF "quantity" \in names THEN [n |-> Wanted.quantity, plain |-> TRUE]
                ELSE sentence.total,
   channels |-> IF "channel" \in names THEN {Wanted.channel} ELSE sentence.channels,
   region   |-> IF "delivery_address" \in names THEN Wanted.delivery_address.region
                ELSE sentence.region]

\* What a context says outranks the message, so it is corrected there.
Corrected(context, names) ==
  [f \in RequiredOrderFields |->
     IF f \in names /\ context[f] # Absent THEN Wanted[f] ELSE context[f]]

Amended(s, names) ==
  CASE Source(s) = "object" -> [s EXCEPT !.message.object = Filled(@, names)]
    [] Source(s) = "packet" /\ CarriesPacket(s.context) ->
         [s EXCEPT !.context = Filled(@, names)]
    [] Source(s) = "packet" /\ ~ CarriesPacket(s.context) ->
         [s EXCEPT !.message.object = Filled(@, names), !.context = Corrected(@, names)]
    [] Source(s) = "sentence" -> [s EXCEPT !.message.sentence = Written(@, names)]

\* When nothing was named: the JSON object the guidance asks for in words.
AsAsked(s) ==
  [s EXCEPT !.message = [@ EXCEPT !.form = "object",
                                  !.object = Filled(NoFields @@ [delivery_address |-> Absent],
                                                    PacketFields)]]

Amend ==
  /\ intake # Absent /\ intake.input_unusable
  /\ rounds < MaxRounds
  /\ sent' = IF intake.named = Absent THEN AsAsked(sent) ELSE Amended(sent, intake.named)
  /\ amended' = (intake.named # Absent)
  /\ rounds' = rounds + 1
  /\ outcomes' = Absent /\ intake' = Absent

IntakeNext == Send \/ OrderIngest \/ Amend

IntakeSpec == IntakeInit /\ [][IntakeNext]_intakeVars
=============================================================================
