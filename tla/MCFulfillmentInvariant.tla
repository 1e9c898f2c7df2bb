------------------------ MODULE MCFulfillmentInvariant ------------------------
(* The instances of MCFulfillmentWorkflow, with the inductive invariant.   *)
EXTENDS MCFulfillmentWorkflow, FulfillmentInvariant
=============================================================================
