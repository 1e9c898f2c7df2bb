----------------------------- MODULE ReadingClaims -----------------------------
(***************************************************************************)
(* The workflow on orders as the intake node reads them: a message also    *)
(* carries the `sending` it was, and its readings are the payloads         *)
(* OrderReading computes.  States what the repository says of such orders  *)
(* and the code does not keep.                                             *)
(***************************************************************************)
EXTENDS FulfillmentSafety, OrderReading

SendingOf(r) == request[r].message.sending

\* The units a sentence writes beside its SKUs.
UnitsWritten(sentence) ==
  TotalOf(LAMBDA line : line.count, SelectSeq(sentence.lines, LAMBDA line : line.count # Absent))

(* order_ingest_node.py:63, _order_from_text: "Whatever of the order is    *)
(* written plainly in the message. Never a guess.", and                    *)
(* config/fulfillment_policy.yaml:11-14, orders at/above the volume        *)
(* threshold require human review.  Every SKU of a sentence takes the      *)
(* first count in it (order_ingest_node.py:68-76), so the count written    *)
(* beside the second SKU is neither sourced nor weighed.                   *)
WrittenUnitsAreReviewed ==
  \A r \in Runs :
    /\ Ships(outer[r].fulfillment_instruction)
    /\ outer[r].hitl_review_outcome = "auto_approved"
    /\ Source(SendingOf(r)) = "sentence"
    => UnitsWritten(SendingOf(r).message.sentence) < VolumeThreshold
=============================================================================
