------------------------------ MODULE ReplySafety -----------------------------
(***************************************************************************)
(* What the envelope of AgentReply promises its reader.                    *)
(***************************************************************************)
EXTENDS AgentReply

Answered(r) == reply[r] # Absent

(* A caller the trust gate refuses learns nothing: neither an answer nor   *)
(* the scope line of a trailer, whatever the retries in between left in    *)
(* State, and the run stays an error (graph.py:217-224,                    *)
(* output_envelope.py:651-655).                                            *)
DenialTellsNothing ==
  \A r \in Runs :
    Answered(r) /\ ~ request[r].trusted =>
      /\ reply[r].output \in {"denied", "refused_notice"}
      /\ reply[r].trailer = "none"
      /\ reply[r].status = "error"

(* Everyone else is answered with a sentence and a trailer, however the    *)
(* run ended: no path reaches the notice that nothing was produced, and an *)
(* error always has a refusal or an answer under it (graph.py:182-240,     *)
(* output_envelope.py:580-763).                                            *)
NeverBlank ==
  \A r \in Runs :
    Answered(r) /\ request[r].trusted =>
      /\ reply[r].output # "nothing_produced"
      /\ reply[r].trailer # "none"

(* A reader told that a location was selected is told so of an instruction *)
(* the logistics system has, to ship; and when it has one that is not to   *)
(* be reported as an error, the reader gets the routing text or is told of *)
(* the credential in it (graph.py:257-296, notify_logistics_node.py:37-56).*)
RoutedIsTold ==
  \A r \in Runs :
    Answered(r) =>
      /\ reply[r].output = "routing" /\ outer[r].fulfillment_status = "ORDER_ROUTED" =>
           dispatched[r] = 1 /\ Ships(outer[r].fulfillment_instruction)
      /\ dispatched[r] = 1 /\ "egress" \notin error_log[r] =>
           reply[r].output \in {"routing", "credential_notice"} /\ reply[r].status = "success"

\* The S-2 gate refused what a caller the agent serves had sent.
MessageDeclined(r) == request[r].trusted /\ "input" \in error_log[r]

\* The S-3 gate blocked what the agent made of it, and no guidance was left to
\* give: the one case in which the reply is not what the docs say of a blocked
\* output (ReplyClaims!BlockedOutputStaysError).
OutputBlockedUnguided(r) == "egress" \in error_log[r] /\ ~ outer[r].input_unusable

(* A run that failed is delivered as a success exactly when its sender can *)
(* act on the failure: the gate declined the message.  Nothing else hides  *)
(* a failure, not an exception, nor an output blocked under guidance, even *)
(* when the message had nothing in it; and nothing that failed beside it   *)
(* withholds the sentence from a declined sender.  get_output goes beyond  *)
(* this for an output blocked with no guidance to give (graph.py:217-238,  *)
(* output_envelope.py:132-137, 657-734, docs/03_test_spec.md:74-78).       *)
FaultsStayErrors ==
  \A r \in Runs :
    Answered(r) /\ outer[r].status = "error" =>
      (reply[r].status = "success" <=>
         \/ MessageDeclined(r)
         \/ request[r].trusted /\ OutputBlockedUnguided(r))

(* Two rules choose the language of one reply: the routing text is written *)
(* in answer_language, the trailer in decided_language, which also looks   *)
(* at the message.  A sender who wrote in a language the agent has, and    *)
(* whose run met no refusal of a text, gets both in the same one, whatever *)
(* the model read and however often the run was retried (graph.py:263,     *)
(* output_envelope.py:365-397, 755-762).  After such a refusal no node has *)
(* decided, and the routing text is in Japanese.                           *)
OneLanguage ==
  \A r \in Runs :
    /\ Answered(r) /\ reply[r].output = "routing"
    /\ Text(r) \in Languages /\ error_log[r] \cap {"input", "egress"} = {}
    => reply[r].trailer = RoutingLanguage(r)
=============================================================================
