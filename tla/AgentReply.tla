------------------------------ MODULE AgentReply ------------------------------
(***************************************************************************)
(* What the sender receives.  When a run has ended,                        *)
(* FulfillmentOrchestrationGraph.get_output (src/graph/graph.py) turns its *)
(* State into an envelope, and with_disclaimer                             *)
(* (src/services/output_envelope.py) decides which text, trailer, status   *)
(* and refusal_kind it carries.  This module runs the workflow beside the  *)
(* State those two read and the workflow does not: error_log,              *)
(* answer_language and drafting_degraded.                                  *)
(*                                                                         *)
(* A text is the sentence it is, by name.  To the workflow's [raw,         *)
(* readings] a message adds                                                *)
(*   form: a "json" object, a "sentence", or a "packet" sent beside a text *)
(*   text: "en", "ja", "symbols" (not a letter) or "empty"; letters that   *)
(*         are in no language are left out                                 *)
(*   credential: the order id it names is shaped like a credential; what   *)
(*         else the routing text quotes of an order never is.              *)
(***************************************************************************)
EXTENDS FulfillmentSafety

VARIABLES
  error_log,   \* what the failed outer nodes left, over all attempts
  reading,     \* answer_language and drafting_degraded
  reply        \* the envelope, Absent before

replyVars == <<vars, error_log, reading, reply>>

Languages == {"en", "ja"}

ASSUME MessagesAssumption ==
  \A req \in Requests :
    /\ req.message.form \in {"json", "sentence", "packet"}
    /\ req.message.text \in Languages \cup {"symbols", "empty"}
    /\ req.message.credential \in BOOLEAN

\* What BaseNode writes: the S-1 gate, the S-2 gate, the S-3 gate, an exception.
Entries == {"trust", "input", "egress", "raised"}

ReplyInit ==
  /\ Init
  /\ error_log = [r \in Runs |-> {}]
  /\ reading   = [r \in Runs |-> [answer_language |-> "", drafting_degraded |-> FALSE]]
  /\ reply     = [r \in Runs |-> Absent]

-----------------------------------------------------------------------------
(* The State beside the workflow.                                          *)

NewFaults(r) == (faulted'[r] \ faulted[r]) \cap OuterNodes

\* The S-2 gate runs before execute(), the S-3 gate on what it returns.
Leaves(r, node, entry) ==
  \/ entry = "trust"  /\ Denied(r, node)
  \/ entry = "raised" /\ ~ Denied(r, node) /\ node = "main"
  \/ /\ entry = "input" /\ ~ Denied(r, node) /\ node # "main"
     /\ dispatched' = dispatched
  \/ /\ entry = "egress" /\ ~ Denied(r, node) /\ node # "main"
     /\ node = "post_process" /\ outer[r].fulfillment_instruction # Absent =>
          dispatched' # dispatched

LogFaults ==
  IF \A r \in Runs : NewFaults(r) = {} THEN UNCHANGED error_log
  ELSE \E r \in Runs, entry \in Entries :
         /\ \E node \in NewFaults(r) : Leaves(r, node, entry)
         /\ error_log' = [error_log EXCEPT ![r] = @ \cup {entry}]

Text(r) == request[r].message.text

\* _script_language; the model's reading of a sentence may decide otherwise.
ScriptLanguage(r) == IF Text(r) \in Languages THEN Text(r) ELSE ""

ReadAsSentence(r) == request[r].message.form = "sentence" /\ Text(r) # "empty"

LanguagesRead(r) == {ScriptLanguage(r)} \cup (IF ReadAsSentence(r) THEN Languages ELSE {})

Ingests(r) == pc[r] = "pre_process" /\ pc'[r] = "main" /\ NewFaults(r) = {}

\* Guidance writes the language only; an order also says how it was read.  An
\* order the patterns completed was never shown to the model.
WaysOfReading(r) ==
  LET Ways(languages, degraded) ==
        {[answer_language |-> l, drafting_degraded |-> degraded] : l \in languages}
  IN  IF outer'[r].input_unusable
        THEN Ways(LanguagesRead(r), reading[r].drafting_degraded)
      ELSE IF ReadAsSentence(r)
        THEN Ways(LanguagesRead(r), FALSE) \cup Ways({ScriptLanguage(r)}, TRUE)
      ELSE Ways({ScriptLanguage(r)}, FALSE)

ReadMessage ==
  IF \A r \in Runs : ~ Ingests(r) THEN UNCHANGED reading
  ELSE \E r \in Runs : Ingests(r) /\
         \E way \in WaysOfReading(r) : reading' = [reading EXCEPT ![r] = way]

-----------------------------------------------------------------------------
(* output_envelope.py.                                                     *)

\* The first non-empty message: the text, else validated_input, which is JSON.
MessageScript(r) ==
  IF Text(r) = "empty" /\ outer[r].validated_input # Absent THEN "en"
  ELSE IF Text(r) \in Languages THEN Text(r) ELSE Null

CarriesNothing(r) == MessageScript(r) = Null

\* Mutant of DecidedLanguage: the script of the message decides.
ScriptDecides(r) == MessageScript(r)

DecidedLanguage(r) ==
  IF reading[r].answer_language # "" THEN reading[r].answer_language ELSE MessageScript(r)

\* disclaimer(): bilingual when the language is not known.
Trailer(language) == IF language \in Languages THEN language ELSE "both"

RefusedBeforeAnswering(r) == "trust" \in error_log[r]

\* It knows the S-2 gate, not the S-3 gate.
RefusedTheMessage(r) == ~ RefusedBeforeAnswering(r) /\ "input" \in error_log[r]

\* The text itself has no letters; an empty one says nothing.
InputWasTheProblem(r) == Text(r) = "symbols"

\* Mutant of GenuineFaultRecorded: a blocked output is no fault.
RaisedFaultRecorded(r) == error_log[r] \cap {"raised", "trust"} # {}

GenuineFaultRecorded(r) == error_log[r] \cap {"raised", "egress", "trust"} # {}

Reply(output, trailer, status, refusal_kind) ==
  [output |-> output, trailer |-> trailer, status |-> status, refusal_kind |-> refusal_kind]

\* The status of an answer to a message with nothing in it.
StatusOfNothing(r) ==
  IF InputWasTheProblem(r) /\ ~ GenuineFaultRecorded(r) THEN "success" ELSE outer[r].status

\* _with_disclaimer_impl, of a body that reads as prose (both bodies do).
WithTrailer(r, body) ==
  LET trailer == Trailer(DecidedLanguage(r))
  IN  IF RefusedBeforeAnswering(r) THEN Reply("refused_notice", "none", outer[r].status, "trust")
      ELSE IF RefusedTheMessage(r) THEN Reply(body, trailer, "success", "input")
      ELSE IF CarriesNothing(r)    THEN Reply(body, trailer, StatusOfNothing(r), Null)
      ELSE Reply(body, trailer, outer[r].status, Null)

\* The routing text quotes the order's id when a validated order was merged.
QuotesCredential(r, envelope) ==
  /\ envelope.output = "routing" /\ outer[r].validated_order # Absent
  /\ request[r].message.credential

\* with_disclaimer looks at the text once more; a credential here is the sender's.
WithDisclaimer(r, body) ==
  LET envelope == WithTrailer(r, body)
  IN  IF QuotesCredential(r, envelope)
        THEN Reply("credential_notice", Trailer(DecidedLanguage(r)), "success", "input")
        ELSE envelope

-----------------------------------------------------------------------------
(* graph.py.                                                               *)

\* _is_security_refusal knows both gates.
IsSecurityRefusal(entry) == entry \in {"input", "egress"}

\* formatted_output: the guidance, or the line Notify writes of its instruction.
HasFormattedOutput(r) ==
  \/ outer[r].input_unusable
  \/ outer[r].fulfillment_status # Absent /\ outer[r].fulfillment_instruction # Absent

Bodies == {"guidance", "routing", "answer", "degraded_answer"}

\* No body is the marker of a missing one.
ASSUME BodiesAssumption == Absent \notin Bodies

\* Guidance, else the routing text, else formatted_output under its notice.
ReaderBody(r) ==
  IF outer[r].input_unusable THEN "guidance"
  ELSE IF outer[r].fulfillment_status # Absent THEN "routing"
  ELSE IF ~ HasFormattedOutput(r) THEN Absent
  ELSE IF reading[r].drafting_degraded THEN "degraded_answer" ELSE "answer"

\* The language _routing_as_prose writes in.
RoutingLanguage(r) == IF reading[r].answer_language = "en" THEN "en" ELSE "ja"

\* Mutant of RefusalReply: a denied caller is refused like any other.
RefusalForAll(r) ==
  Reply("refusal", Trailer(reading[r].answer_language),
        IF \E entry \in error_log[r] : IsSecurityRefusal(entry) THEN "success" ELSE "error",
        Null)

\* No body and an error: a refusal, in words of its own.
RefusalReply(r) ==
  IF "trust" \in error_log[r] THEN Reply("denied", "none", "error", Null)
  ELSE Reply("refusal", Trailer(reading[r].answer_language),
             IF \E entry \in error_log[r] : IsSecurityRefusal(entry) THEN "success" ELSE "error",
             Null)

\* Mutant of GetOutput: no refusal of its own.
GetOutputUnrefused(r) ==
  IF ReaderBody(r) # Absent THEN WithDisclaimer(r, ReaderBody(r))
  ELSE WithDisclaimer(r, "nothing_produced")

\* With no body, with_disclaimer says that nothing was produced.
GetOutput(r) ==
  IF ReaderBody(r) # Absent THEN WithDisclaimer(r, ReaderBody(r))
  ELSE IF outer[r].status = "error" THEN RefusalReply(r)
  ELSE WithDisclaimer(r, "nothing_produced")

Deliver(r) ==
  /\ pc[r] = "ended" /\ reply[r] = Absent
  /\ reply' = [reply EXCEPT ![r] = GetOutput(r)]
  /\ UNCHANGED <<vars, error_log, reading>>

Work == Next /\ LogFaults /\ ReadMessage /\ UNCHANGED reply

ReplyNext == Work \/ \E r \in Runs : Deliver(r)

ReplySpec == ReplyInit /\ [][ReplyNext]_replyVars
=============================================================================
