---------------------------- MODULE OrderLifecycle ----------------------------
(***************************************************************************)
(* What the agent promises about an order, whatever its graphs do inside:  *)
(* the terminal states and the review of docs/02_design.md (ORDER_ROUTED,  *)
(* HITL_ESCALATION, FAILED; AWAITING_HUMAN) and the crash that may cut a   *)
(* run short.  FulfillmentWorkflow implements it (FulfillmentRefinement).  *)
(***************************************************************************)
EXTENDS Naturals

CONSTANTS Runs, None

VARIABLES
  phase,    \* "new", "open", "review", "closed" or "lost"
  asked,    \* a reviewer has been asked
  verdict,  \* "none", "accepted" or "rejected"
  result,   \* the terminal status, None before
  told      \* what the logistics system was told: None, "ship" or "hold"

vars == <<phase, asked, verdict, result, told>>

Init ==
  /\ phase   = [r \in Runs |-> "new"]
  /\ asked   = [r \in Runs |-> FALSE]
  /\ verdict = [r \in Runs |-> "none"]
  /\ result  = [r \in Runs |-> None]
  /\ told    = [r \in Runs |-> None]

Move(r, from, to) == phase[r] = from /\ phase' = [phase EXCEPT ![r] = to]

Receive(r) == Move(r, "new", "open") /\ UNCHANGED <<asked, verdict, result, told>>

AskReview(r) ==
  /\ Move(r, "open", "review")
  /\ verdict[r] = "none"
  /\ asked' = [asked EXCEPT ![r] = TRUE]
  /\ UNCHANGED <<verdict, result, told>>

Answer(r) ==
  /\ Move(r, "review", "open")
  /\ \E v \in {"accepted", "rejected"} : verdict' = [verdict EXCEPT ![r] = v]
  /\ UNCHANGED <<asked, result, told>>

\* The work starts over: an answer may be lost, and with it the question.
StartOver(r) ==
  /\ phase[r] = "open"
  /\ verdict' = [verdict EXCEPT ![r] = "none"]
  /\ \/ asked' = asked
     \/ asked' = [asked EXCEPT ![r] = FALSE]
  /\ UNCHANGED <<phase, result, told>>

Tell(r, what) == told' = [told EXCEPT ![r] = what]
End(r, status) == result' = [result EXCEPT ![r] = status]

\* A question that was asked must have been answered, and accepted.
Cleared(r) == verdict[r] = "accepted" \/ (verdict[r] = "none" /\ ~ asked[r])

RouteOrder(r) ==
  /\ Move(r, "open", "closed")
  /\ Cleared(r)
  /\ Tell(r, "ship") /\ End(r, "ORDER_ROUTED")
  /\ UNCHANGED <<asked, verdict>>

Escalate(r) ==
  /\ Move(r, "open", "closed")
  /\ verdict[r] = "rejected"
  /\ Tell(r, "hold") /\ End(r, "HITL_ESCALATION")
  /\ UNCHANGED <<asked, verdict>>

Fail(r) ==
  /\ Move(r, "open", "closed")
  /\ \/ UNCHANGED told
     \/ Tell(r, "hold")
  /\ End(r, "FAILED")
  /\ UNCHANGED <<asked, verdict>>

\* The run ends in an error; what it told logistics before stands.
Abandon(r) ==
  /\ Move(r, "open", "closed")
  /\ \/ UNCHANGED told
     \/ Tell(r, "hold")
     \/ Cleared(r) /\ Tell(r, "ship")
  /\ UNCHANGED <<asked, verdict, result>>

Lose ==
  /\ phase' = [r \in Runs |-> IF phase[r] \in {"open", "review"} THEN "lost" ELSE phase[r]]
  /\ UNCHANGED <<asked, verdict, result, told>>

Next ==
  \/ \E r \in Runs :
       \/ Receive(r) \/ AskReview(r) \/ Answer(r) \/ StartOver(r)
       \/ RouteOrder(r) \/ Escalate(r) \/ Fail(r) \/ Abandon(r)
  \/ Lose

Spec == Init /\ [][Next]_vars
=============================================================================
