------------------------- MODULE FulfillmentInvariant -------------------------
(***************************************************************************)
(* The inductive invariant behind ReviewedBeforeShipping and               *)
(* DispatchedOnceAndFresh: one part per stage of a run.  The two           *)
(* properties speak of what has been merged; the parts say what the inner  *)
(* State and the answer hold while the order is on its way there.          *)
(***************************************************************************)
EXTENDS FulfillmentSafety

\* Before a merge the outer State holds no instruction: a retry, a resume
\* and a skipped subgraph start without one.
NoneBeforeMerge(r) ==
  pc[r] \notin {"route", "post_process", "ended", "lost"} =>
    outer[r].fulfillment_instruction = Absent

\* Neither does the inner State before its last node, or across a resume.
NoneBeforeInstruct(r) ==
  \/ pc[r] \in InnerNodes \cup {"awaiting"}
  \/ pc[r] \in {"main", "build", "call"} /\ Resuming(r)
  => inner[r].fulfillment_instruction = Absent

\* An attempt starts unanswered.
UnansweredAtFirst(r) == pc[r] \in {"idle", "pre_process"} => feedback[r] = NoAnswer

\* Past the gate a due review has an answer, and the State holds it.
AnsweredAtGate(r) ==
  pc[r] = "fulfillment_instruct" /\ ReviewDue(r, inner[r].policy_decision) =>
    feedback[r] # NoAnswer /\ inner[r].hitl_review_outcome = OutcomeOf(feedback[r])

\* So has the instruction about to be merged, if it ships.
AnsweredAtMerge(r) ==
  /\ pc[r] = "merge"
  /\ Ships(inner[r].fulfillment_instruction)
  /\ ReviewDue(r, inner[r].policy_decision)
  => /\ Accepted(r)
     /\ inner[r].fulfillment_instruction.hitl_review_outcome = OutcomeOf(feedback[r])

\* What the backbone may retry carries no instruction.
NoneOnError(r) ==
  /\ pc[r] = "merge" /\ inner[r].status = "error" => inner[r].fulfillment_instruction = Absent
  /\ pc[r] = "route" /\ outer[r].status = "error" => outer[r].fulfillment_instruction = Absent

Reviewed(r) ==
  Ships(outer[r].fulfillment_instruction) /\ ReviewDue(r, outer[r].policy_decision) =>
    /\ Accepted(r)
    /\ outer[r].fulfillment_instruction.hitl_review_outcome = OutcomeOf(feedback[r])

\* The inner graph works only on an order pre_process could read.
UsableInside(r) ==
  pc[r] \in InnerNodes \cup {"build", "call", "awaiting", "merge"} => ~ outer[r].input_unusable

\* An instruction in the outer State is the inner one, of a usable order.
Fresh(r) ==
  outer[r].fulfillment_instruction # Absent =>
    /\ outer[r].fulfillment_instruction = inner[r].fulfillment_instruction
    /\ ~ outer[r].input_unusable

\* Logistics is told last, once, about an instruction, for a trusted caller.
ToldLast(r) ==
  /\ dispatched[r] \in {0, 1}
  /\ pc[r] # "ended" => dispatched[r] = 0
  /\ dispatched[r] = 1 => outer[r].fulfillment_instruction # Absent /\ request[r].trusted

RunInv(r) ==
  /\ NoneBeforeMerge(r) /\ NoneBeforeInstruct(r) /\ UnansweredAtFirst(r)
  /\ AnsweredAtGate(r) /\ AnsweredAtMerge(r) /\ NoneOnError(r) /\ Reviewed(r)
  /\ UsableInside(r) /\ Fresh(r) /\ ToldLast(r)

(* Every run keeps the parts of the invariant, whatever the other runs,    *)
(* the reviewers and the gates do (graph.py:69-130,                        *)
(* hitl_gate_node.py:29-68, notify_logistics_node.py:23-56).               *)
RunsInv == \A r \in Runs : RunInv(r)

Inv == TypeOK /\ RunsInv
=============================================================================
