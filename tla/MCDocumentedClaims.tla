-------------------------- MODULE MCDocumentedClaims --------------------------
(* The instances of MCFulfillmentWorkflow, with the documented claims.     *)
EXTENDS MCFulfillmentWorkflow, DocumentedClaims
=============================================================================
