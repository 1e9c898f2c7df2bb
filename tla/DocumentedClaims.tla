--------------------------- MODULE DocumentedClaims ---------------------------
(***************************************************************************)
(* Statements the repository makes about the workflow which the workflow   *)
(* does not keep.  Each is checked by a run that is expected to find it    *)
(* violated; PROJECT.json lists the runs as findings.                      *)
(***************************************************************************)
EXTENDS FulfillmentSafety

(* config/fulfillment_policy.yaml:11-12: "Orders at/above EITHER threshold *)
(* require human review before the fulfillment instruction is emitted."    *)
(* When no human may be asked the gate refers the order, and "referred"    *)
(* is not among the outcomes that hold one (fulfillment_service.py:123).   *)
ReferralHolds ==
  \A r \in Runs :
    outer[r].hitl_review_outcome = "referred_for_human_review" =>
      ~ Ships(outer[r].fulfillment_instruction)

(* The same lines of the policy file: an order over a threshold never      *)
(* leaves as if it had been under both.  When the output gate refuses what *)
(* the review gate returns, the reviewer's answer included, the outcome is *)
(* missing, and a missing one is read as auto_approved                     *)
(* (hitl_gate_node.py:63-68, fulfillment_instruct_node.py:25).             *)
AutoApprovedIsUnderThresholds ==
  \A r \in Runs :
    /\ Ships(outer[r].fulfillment_instruction)
    /\ outer[r].fulfillment_instruction.hitl_review_outcome = "auto_approved"
    => ~ Asks(outer[r].policy_decision)

UnitsNeeded(snapshot) == TotalOf(LAMBDA entry : entry.qty_needed, snapshot)

(* config/fulfillment_policy.yaml:11-14, the volume threshold: an order is *)
(* auto-approved only below it.  The inventory honours a line's "quantity" *)
(* key; the policy counts such a line as one unit                          *)
(* (fulfillment_service.py:68, 88).                                        *)
EveryUnitCounts ==
  \A r \in Runs :
    /\ Ships(outer[r].fulfillment_instruction)
    /\ outer[r].hitl_review_outcome = "auto_approved"
    => UnitsNeeded(outer[r].inventory_snapshot) < VolumeThreshold

(* docs/03_test_spec.md:78: "The agent genuinely broke | unchanged —       *)
(* status: error".  The inner edges go on past a node that raised, the     *)
(* next nodes overwrite its status, and merge_output carries no error_log  *)
(* (fulfillment_workflow_graph.py:57-63, graph.py:116-130).                *)
FaultIsReported ==
  \A r \in Runs :
    pc[r] = "ended" /\ faulted[r] \cap InnerNodes # {} => outer[r].status = "error"
=============================================================================
