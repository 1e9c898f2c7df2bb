------------------------------ MODULE MCAgentReply ----------------------------
(* Small instances of the reply for TLC.                                   *)
EXTENDS MCFulfillmentWorkflow, ReplySafety

Said(message, form, text, credential) ==
  [raw |-> message.raw, readings |-> message.readings,
   form |-> form, text |-> text, credential |-> credential]

\* Packets, objects and sentences, readable and not, of orders that ship,
\* wait for a reviewer, fail, or cannot be read.
ReplyRequests ==
  {Request(Said(Json(o), "json", "en", c), t, a) :
     o \in {Small, Costly, NoItems}, c \in BOOLEAN, t \in BOOLEAN, a \in BOOLEAN}
  \cup {Request(Said(Prose({Absent, Small, BadCount}), "sentence", text, FALSE), TRUE, TRUE) :
          text \in {"en", "ja", "symbols", "empty"}}
  \cup {Request(Said(Prose({Small, Scarce}), "packet", text, FALSE), TRUE, TRUE) :
          text \in {"empty", "symbols", "ja"}}
=============================================================================
