------------------------ MODULE FulfillmentRefinement -------------------------
(***************************************************************************)
(* The refinement mapping under which the workflow implements              *)
(* OrderLifecycle.                                                         *)
(***************************************************************************)
EXTENDS FulfillmentSafety

PhaseOf(r) ==
  CASE pc[r] = "idle"     -> "new"
    [] pc[r] = "awaiting" -> "review"
    [] pc[r] = "ended"    -> "closed"
    [] pc[r] = "lost"     -> "lost"
    [] OTHER              -> "open"

VerdictOf(r) ==
  IF feedback[r] = NoAnswer THEN "none"
  ELSE IF OutcomeOf(feedback[r]) = "rejected" THEN "rejected" ELSE "accepted"

ToldOf(r) == IF dispatched[r] = 0 THEN Absent ELSE outer[r].fulfillment_instruction.action

Lifecycle == INSTANCE OrderLifecycle WITH
  None    <- Absent,
  phase   <- [r \in Runs |-> PhaseOf(r)],
  asked   <- [r \in Runs |-> shown[r] # Absent],
  verdict <- [r \in Runs |-> VerdictOf(r)],
  result  <- [r \in Runs |-> outer[r].fulfillment_status],
  told    <- [r \in Runs |-> ToldOf(r)]

(* Every behaviour of the two graphs is one the life cycle allows: an      *)
(* order whose review was asked is never shipped on a lost, missing or     *)
(* negative answer, a status is final, and logistics hears of it once      *)
(* (docs/02_design.md, State Definition).                                  *)
ImplementsLifecycle == Lifecycle!Spec
=============================================================================
