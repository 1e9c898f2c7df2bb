------------------------ MODULE MCFulfillmentRefinement -----------------------
(* The instances of MCFulfillmentWorkflow, with the refinement mapping.    *)
EXTENDS MCFulfillmentWorkflow, FulfillmentRefinement
=============================================================================
