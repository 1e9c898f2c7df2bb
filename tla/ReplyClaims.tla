------------------------------ MODULE ReplyClaims -----------------------------
(***************************************************************************)
(* A statement the repository makes about the reply which the reply does   *)
(* not keep.                                                               *)
(***************************************************************************)
EXTENDS ReplySafety

(* docs/03_test_spec.md:77: "S-3 blocked the agent's OWN output |          *)
(* unchanged - status: error"; the sender "must not be invited to retry".  *)
(* output_envelope.py:132-136 tells the S-3 gate from the S-2 gate for     *)
(* this reason.  get_output's own refusal does not: it asks to send the    *)
(* order again, and its status is success (graph.py:145, 236-237).         *)
BlockedOutputStaysError ==
  \A r \in Runs :
    /\ Answered(r) /\ outer[r].status = "error"
    /\ error_log[r] = {"egress"}
    => reply[r].status = "error"
=============================================================================
