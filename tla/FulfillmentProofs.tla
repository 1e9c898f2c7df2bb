-------------------------- MODULE FulfillmentProofs ---------------------------
(***************************************************************************)
(* Theorems about FulfillmentWorkflow, for every set of runs and requests, *)
(* every policy and every bound.                                           *)
(***************************************************************************)
EXTENDS FulfillmentSafety, TLAPS

-----------------------------------------------------------------------------
(* Writing one field of a State.                                           *)

LEMMA OuterField ==
  ASSUME NEW s \in OuterStates
  PROVE  /\ \A x \in Optional(Statuses) : [s EXCEPT !.status = x] \in OuterStates
         /\ \A x \in BOOLEAN : [s EXCEPT !.input_unusable = x] \in OuterStates
         /\ \A x \in Optional(InnerOrders) : [s EXCEPT !.validated_order = x] \in OuterStates
         /\ \A x \in Orders : [s EXCEPT !.validated_input = x] \in OuterStates
         /\ \A x \in Ingestible :
              [s EXCEPT !.delivery_region = RegionFromAddress(x.delivery_address)] \in OuterStates
         /\ \A x \in Optional(Snapshots) : [s EXCEPT !.inventory_snapshot = x] \in OuterStates
         /\ \A x \in Optional(PolicyDecisions) : [s EXCEPT !.policy_decision = x] \in OuterStates
         /\ \A x \in Optional(Routes) : [s EXCEPT !.selected_route = x] \in OuterStates
         /\ \A x \in Outcomes : [s EXCEPT !.hitl_review_outcome = x] \in OuterStates
         /\ \A x \in Optional(Instructions) :
              [s EXCEPT !.fulfillment_instruction = x] \in OuterStates
         /\ \A x \in BOOLEAN : [s EXCEPT !.notification_sent = x] \in OuterStates
         /\ \A x \in BOOLEAN : [s EXCEPT !.hitl_escalated = x] \in OuterStates
         /\ \A x \in Terminal : [s EXCEPT !.fulfillment_status = x] \in OuterStates
<1>1. \A x \in BOOLEAN : [s EXCEPT !.input_unusable = x] \in OuterStates
  BY DEF OuterStates
<1>2. \A x \in BOOLEAN : [s EXCEPT !.notification_sent = x] \in OuterStates
  BY DEF OuterStates, Optional
<1>3. \A x \in BOOLEAN : [s EXCEPT !.hitl_escalated = x] \in OuterStates
  BY DEF OuterStates, Optional
<1>4. \A x \in Ingestible :
        [s EXCEPT !.delivery_region = RegionFromAddress(x.delivery_address)] \in OuterStates
  BY DEF OuterStates, Optional
<1>5. /\ \A x \in Optional(Statuses) : [s EXCEPT !.status = x] \in OuterStates
      /\ \A x \in Optional(InnerOrders) : [s EXCEPT !.validated_order = x] \in OuterStates
      /\ \A x \in Orders : [s EXCEPT !.validated_input = x] \in OuterStates
      /\ \A x \in Terminal : [s EXCEPT !.fulfillment_status = x] \in OuterStates
  BY DEF OuterStates, Optional
<1>6. /\ \A x \in Optional(Snapshots) : [s EXCEPT !.inventory_snapshot = x] \in OuterStates
      /\ \A x \in Optional(PolicyDecisions) : [s EXCEPT !.policy_decision = x] \in OuterStates
      /\ \A x \in Optional(Routes) : [s EXCEPT !.selected_route = x] \in OuterStates
      /\ \A x \in Outcomes : [s EXCEPT !.hitl_review_outcome = x] \in OuterStates
      /\ \A x \in Optional(Instructions) : [s EXCEPT !.fulfillment_instruction = x] \in OuterStates
  BY DEF OuterStates, Optional
<1> QED BY <1>1, <1>2, <1>3, <1>4, <1>5, <1>6

LEMMA InnerField ==
  ASSUME NEW s \in InnerStates
  PROVE  /\ \A x \in Statuses : [s EXCEPT !.status = x] \in InnerStates
         /\ \A x \in Workable : [s EXCEPT !.validated_order = x] \in InnerStates
         /\ \A x \in Snapshots : [s EXCEPT !.inventory_snapshot = x] \in InnerStates
         /\ \A x \in PolicyDecisions : [s EXCEPT !.policy_decision = x] \in InnerStates
         /\ \A x \in Routes : [s EXCEPT !.selected_route = x] \in InnerStates
         /\ \A x \in Optional(Drafts) : [s EXCEPT !.hitl_draft = x] \in InnerStates
         /\ \A x \in Outcomes : [s EXCEPT !.hitl_review_outcome = x] \in InnerStates
         /\ \A x \in Instructions : [s EXCEPT !.fulfillment_instruction = x] \in InnerStates
  BY DEF InnerStates, Optional

-----------------------------------------------------------------------------
(* What the nodes that write several fields leave.                         *)

LEMMA Guided ==
  ASSUME NEW s \in OuterStates
  PROVE  [s EXCEPT !.input_unusable = TRUE, !.status = "success"] \in OuterStates
<1> DEFINE a == [s EXCEPT !.input_unusable = TRUE]
           b == [a EXCEPT !.status = "success"]
<1>1. a \in OuterStates BY OuterField
<1> HIDE DEF a
<1>2. b \in OuterStates BY <1>1, OuterField DEF Statuses, Optional
<1> QED BY <1>2, Zenon DEF a, b

LEMMA Ingested ==
  ASSUME NEW s \in OuterStates, NEW payload \in Ingestible
  PROVE  [s EXCEPT !.validated_order = Envelope(payload),
                   !.delivery_region = RegionFromAddress(payload.delivery_address),
                   !.validated_input = Envelope(payload),
                   !.status          = "success"] \in OuterStates
<1> DEFINE a == [s EXCEPT !.validated_order = Envelope(payload)]
           b == [a EXCEPT !.delivery_region = RegionFromAddress(payload.delivery_address)]
           c == [b EXCEPT !.validated_input = Envelope(payload)]
           d == [c EXCEPT !.status = "success"]
<1>0. Envelope(payload) \in Orders BY DEF Orders
<1>1. a \in OuterStates BY <1>0, OuterField DEF InnerOrders, Optional
<1> HIDE DEF a
<1>2. b \in OuterStates BY <1>1, OuterField
<1> HIDE DEF b
<1>3. c \in OuterStates BY <1>0, <1>2, OuterField
<1> HIDE DEF c
<1>4. d \in OuterStates BY <1>3, OuterField DEF Statuses, Optional
<1> QED BY <1>4, Zenon DEF a, b, c, d

LEMMA Merged ==
  ASSUME NEW s \in OuterStates, NEW i \in InnerStates
  PROVE  [s EXCEPT !.validated_order         = i.validated_order,
                   !.inventory_snapshot      = i.inventory_snapshot,
                   !.policy_decision         = i.policy_decision,
                   !.selected_route          = i.selected_route,
                   !.hitl_review_outcome     = Get(i.hitl_review_outcome, Null),
                   !.fulfillment_instruction = i.fulfillment_instruction,
                   !.status                  = i.status] \in OuterStates
<1> DEFINE a == [s EXCEPT !.validated_order = i.validated_order]
           b == [a EXCEPT !.inventory_snapshot = i.inventory_snapshot]
           c == [b EXCEPT !.policy_decision = i.policy_decision]
           d == [c EXCEPT !.selected_route = i.selected_route]
           e == [d EXCEPT !.hitl_review_outcome = Get(i.hitl_review_outcome, Null)]
           f == [e EXCEPT !.fulfillment_instruction = i.fulfillment_instruction]
           g == [f EXCEPT !.status = i.status]
<1>1. /\ i.validated_order \in Optional(InnerOrders)
      /\ i.inventory_snapshot \in Optional(Snapshots)
      /\ i.policy_decision \in Optional(PolicyDecisions)
      /\ i.selected_route \in Optional(Routes)
      /\ i.fulfillment_instruction \in Optional(Instructions)
      /\ i.status \in Optional(Statuses)
  BY DEF InnerStates, Workable, Optional
<1>2. Get(i.hitl_review_outcome, Null) \in Outcomes
  BY DEF Get, InnerStates, Outcomes, Optional
<1>3. a \in OuterStates BY <1>1, OuterField
<1> HIDE DEF a
<1>4. b \in OuterStates BY <1>1, <1>3, OuterField
<1> HIDE DEF b
<1>5. c \in OuterStates BY <1>1, <1>4, OuterField
<1> HIDE DEF c
<1>6. d \in OuterStates BY <1>1, <1>5, OuterField
<1> HIDE DEF d
<1>7. e \in OuterStates BY <1>2, <1>6, OuterField
<1> HIDE DEF e
<1>8. f \in OuterStates BY <1>1, <1>7, OuterField
<1> HIDE DEF f
<1>9. g \in OuterStates BY <1>1, <1>8, OuterField
<1> QED BY <1>9, Zenon DEF a, b, c, d, e, f, g

LEMMA Notified ==
  ASSUME NEW s \in OuterStates, NEW sent \in BOOLEAN, NEW escalated \in BOOLEAN,
         NEW final \in Terminal
  PROVE  [s EXCEPT !.notification_sent  = sent,
                   !.hitl_escalated     = escalated,
                   !.fulfillment_status = final,
                   !.status             = "success"] \in OuterStates
<1> DEFINE a == [s EXCEPT !.notification_sent = sent]
           b == [a EXCEPT !.hitl_escalated = escalated]
           c == [b EXCEPT !.fulfillment_status = final]
           d == [c EXCEPT !.status = "success"]
<1>1. a \in OuterStates BY OuterField
<1> HIDE DEF a
<1>2. b \in OuterStates BY <1>1, OuterField
<1> HIDE DEF b
<1>3. c \in OuterStates BY <1>2, OuterField
<1> HIDE DEF c
<1>4. d \in OuterStates BY <1>3, OuterField DEF Statuses, Optional
<1> QED BY <1>4, Zenon DEF a, b, c, d

LEMMA Checked ==
  ASSUME NEW s \in InnerStates, NEW order \in Workable, NEW snapshot \in Snapshots
  PROVE  [s EXCEPT !.validated_order = order, !.inventory_snapshot = snapshot,
                   !.status = "success"] \in InnerStates
<1> DEFINE a == [s EXCEPT !.validated_order = order]
           b == [a EXCEPT !.inventory_snapshot = snapshot]
           c == [b EXCEPT !.status = "success"]
<1>1. a \in InnerStates BY InnerField
<1> HIDE DEF a
<1>2. b \in InnerStates BY <1>1, InnerField
<1> HIDE DEF b
<1>3. c \in InnerStates BY <1>2, InnerField DEF Statuses
<1> QED BY <1>3, Zenon DEF a, b, c

LEMMA Gated ==
  ASSUME NEW s \in InnerStates, NEW outcome \in Outcomes, NEW draft \in Optional(Drafts)
  PROVE  [s EXCEPT !.hitl_review_outcome = outcome, !.hitl_draft = draft,
                   !.status = "success"] \in InnerStates
<1> DEFINE a == [s EXCEPT !.hitl_review_outcome = outcome]
           b == [a EXCEPT !.hitl_draft = draft]
           c == [b EXCEPT !.status = "success"]
<1>1. a \in InnerStates BY InnerField
<1> HIDE DEF a
<1>2. b \in InnerStates BY <1>1, InnerField
<1> HIDE DEF b
<1>3. c \in InnerStates BY <1>2, InnerField DEF Statuses
<1> QED BY <1>3, Zenon DEF a, b, c

-----------------------------------------------------------------------------
(* Type correctness.                                                       *)

LEMMA TypeInit == Init => TypeOK
  BY WorkflowAssumption DEF Init, TypeOK, NewOuter, NewInner, OuterStates, InnerStates, Optional,
     Locations, Nodes, OuterNodes, InnerNodes, InnerOrders, RawInputs

\* The locations a step may go to.
LEMMA LocationsCovered ==
  /\ Nodes \subseteq Locations
  /\ \A node \in Nodes : NextNode[node] \in Locations
  /\ {"idle", "build", "call", "awaiting", "merge", "route", "ended", "lost"} \subseteq Locations
  /\ OuterNodes \subseteq Nodes /\ InnerNodes \subseteq Nodes
  BY DEF Locations, Nodes, OuterNodes, InnerNodes, NextNode

LEMMA FailNodeType ==
  ASSUME TypeOK, NEW r \in Runs, NEW node \in Nodes, FailNode(r, node)
  PROVE  TypeOK'
<1>1. outer[r] \in OuterStates /\ inner[r] \in InnerStates
  BY DEF TypeOK
<1>2. outer' \in [Runs -> OuterStates]
  <2>1. [outer[r] EXCEPT !.status = "error"] \in OuterStates
    BY <1>1, OuterField DEF Statuses, Optional
  <2> QED BY <2>1 DEF FailNode, TypeOK
<1>3. inner' \in [Runs -> InnerStates]
  <2>1. [inner[r] EXCEPT !.status = "error"] \in InnerStates
    BY <1>1, InnerField DEF Statuses
  <2> QED BY <2>1 DEF FailNode, TypeOK
<1>4. pc' \in [Runs -> Locations] /\ request' = request /\ pc[r] # "idle"
  BY LocationsCovered DEF FailNode, Goto, TypeOK, Nodes, OuterNodes, InnerNodes
<1>5. \A s \in Runs : pc'[s] # "idle" => request'[s] \in Requests
  BY <1>4 DEF FailNode, Goto, TypeOK
<1> QED BY <1>2, <1>3, <1>4, <1>5 DEF FailNode, TypeOK, shared

LEMMA OuterStepType ==
  ASSUME TypeOK, NEW r \in Runs,
         OrderIngest(r) \/ MergeOutput(r) \/ PropagateError(r)
           \/ NotifySkipped(r) \/ Notify(r) \/ NotifyRefused(r)
  PROVE  outer' \in [Runs -> OuterStates]
<1>1. outer[r] \in OuterStates /\ inner[r] \in InnerStates
  BY DEF TypeOK
<1>2. ASSUME NEW s \in OuterStates, outer' = [outer EXCEPT ![r] = s]
      PROVE  outer' \in [Runs -> OuterStates]
  BY <1>2 DEF TypeOK
<1>3. [outer[r] EXCEPT !.status = "error"] \in OuterStates
  BY <1>1, OuterField DEF Statuses, Optional
<1>4. CASE OrderIngest(r)
  <2> PICK payload \in request[r].message.readings :
        IF Unusable(payload) THEN Guide(r) ELSE Ingest(r, payload)
    BY <1>4 DEF OrderIngest
  <2>1. CASE Unusable(payload)
    BY <1>1, <1>2, <2>1, Guided DEF Guide
  <2>2. CASE ~ Unusable(payload)
    <3>1. request[r] \in Requests
      BY <1>4 DEF OrderIngest, MayRun, TypeOK
    <3>2. payload \in Ingestible
      BY <2>2, <3>1 DEF Ingestible, Readable
    <3> QED BY <1>1, <1>2, <2>2, <3>2, Ingested DEF Ingest
  <2> QED BY <2>1, <2>2
<1>5. CASE MergeOutput(r)
  BY <1>1, <1>2, <1>5, Merged DEF MergeOutput
<1>6. CASE PropagateError(r)
  BY <1>2, <1>3, <1>6 DEF PropagateError
<1>7. CASE NotifySkipped(r)
  <2>1. (outer[r].hitl_review_outcome = "rejected") \in BOOLEAN /\ "FAILED" \in Terminal
    BY DEF Terminal
  <2> QED BY <1>1, <1>2, <1>7, <2>1, Notified DEF NotifySkipped
<1>8. CASE Notify(r)
  <2> DEFINE instruction == outer[r].fulfillment_instruction
             escalated   == outer[r].hitl_review_outcome = "rejected"
  <2>1. FinalStatus(instruction, escalated) \in Terminal
    BY DEF FinalStatus, Terminal
  <2>2. NotifyLogistics(instruction) \in BOOLEAN /\ escalated \in BOOLEAN
    BY DEF NotifyLogistics
  <2> QED BY <1>1, <1>2, <1>8, <2>1, <2>2, Notified DEF Notify
<1>9. CASE NotifyRefused(r)
  BY <1>2, <1>3, <1>9 DEF NotifyRefused
<1> QED BY <1>4, <1>5, <1>6, <1>7, <1>8, <1>9

LEMMA InnerStepType ==
  ASSUME TypeOK, NEW r \in Runs,
         StartInner(r) \/ InventoryCheck(r) \/ FulfillmentPolicy(r) \/ RouteSelect(r)
           \/ GateSkipped(r) \/ GateDeferred(r) \/ GateReviewed(r) \/ FulfillmentInstruct(r)
  PROVE  inner' \in [Runs -> InnerStates]
<1>1. inner[r] \in InnerStates /\ outer[r] \in OuterStates
  BY DEF TypeOK
<1>2. ASSUME NEW s \in InnerStates, inner' = [inner EXCEPT ![r] = s]
      PROVE  inner' \in [Runs -> InnerStates]
  BY <1>2 DEF TypeOK
<1>3. CASE StartInner(r)
  <2>1. request[r] \in Requests
    BY <1>3 DEF StartInner, TypeOK
  <2>2. InnerInput(r) \in InnerOrders
    BY <1>1, <2>1 DEF InnerInput, Get, InnerOrders, RawInputs, OuterStates, Optional
  <2>3. NewInner(InnerInput(r)) \in InnerStates
    BY <2>2 DEF NewInner, InnerStates, Optional
  <2> QED BY <1>2, <1>3, <2>3 DEF StartInner
<1>4. CASE InventoryCheck(r)
  <2>1. inner[r].user_input \in {x \in Workable : ~ InventoryRaises(x.items)}
    BY <1>1, <1>4 DEF InventoryCheck, MayRun, Raises, Rejects, Workable, InnerStates
  <2>2. AggregateInventory(inner[r].user_input.items) \in Snapshots
    BY <2>1 DEF Snapshots
  <2> QED BY <1>1, <1>2, <1>4, <2>1, <2>2, Checked DEF InventoryCheck
<1>5. CASE FulfillmentPolicy(r)
  <2>1. inner[r].validated_order \in {x \in Workable : ~ PolicyRaises(x)}
    BY <1>1, <1>5 DEF FulfillmentPolicy, MayRun, Raises, Rejects, InnerStates, Optional
  <2>2. ApplyFulfillmentPolicy(inner[r].validated_order) \in PolicyDecisions
    BY <2>1 DEF PolicyDecisions
  <2>3. [inner[r] EXCEPT !.policy_decision = ApplyFulfillmentPolicy(inner[r].validated_order),
                         !.status = "success"] \in InnerStates
    BY <1>1, <2>2 DEF InnerStates, Statuses, Optional
  <2> QED BY <1>2, <1>5, <2>3 DEF FulfillmentPolicy
<1>6. CASE RouteSelect(r)
  <2> DEFINE route == SelectRoute(Get(inner[r].inventory_snapshot, <<>>),
                                  inner[r].policy_decision)
  <2>1. route \in Routes
    <3>1. Get(inner[r].inventory_snapshot, <<>>) \in Snapshots \cup {<<>>}
      BY <1>1 DEF Get, InnerStates, Optional
    <3>2. inner[r].policy_decision \in PolicyDecisions
      BY <1>1, <1>6 DEF RouteSelect, MayRun, Rejects, InnerStates, Optional
    <3> QED BY <3>1, <3>2 DEF Routes
  <2> HIDE DEF route
  <2>2. [inner[r] EXCEPT !.selected_route = route, !.status = "success"] \in InnerStates
    BY <1>1, <2>1 DEF InnerStates, Statuses, Optional
  <2> QED BY <1>2, <1>6, <2>2 DEF RouteSelect, route
<1>7. RequiresReview(r) => Draft(r) \in Drafts
  BY <1>1 DEF RequiresReview, Draft, Drafts, InnerStates, Optional
<1>8. CASE GateSkipped(r)
  <2>1. "auto_approved" \in Outcomes /\ inner[r].hitl_draft \in Optional(Drafts)
    BY <1>1 DEF Outcomes, InnerStates
  <2> QED BY <1>1, <1>2, <1>8, <2>1, Gated DEF GateSkipped, GateReturns
<1>9. CASE GateDeferred(r)
  <2>1. "referred_for_human_review" \in Outcomes /\ Draft(r) \in Optional(Drafts)
    BY <1>7, <1>9 DEF GateDeferred, Outcomes, Optional
  <2> QED BY <1>1, <1>2, <1>9, <2>1, Gated DEF GateDeferred, GateReturns
<1>10. CASE GateReviewed(r)
  <2>1. OutcomeOf(feedback[r]) \in Outcomes /\ Draft(r) \in Optional(Drafts)
    BY <1>7, <1>10 DEF GateReviewed, OutcomeOf, Feedbacks, Outcomes, Optional, TypeOK
  <2> QED BY <1>1, <1>2, <1>10, <2>1, Gated DEF GateReviewed, GateReturns
<1>11. CASE FulfillmentInstruct(r)
  <2> DEFINE instruction ==
        BuildFulfillmentInstruction(inner[r].validated_order, inner[r].selected_route,
                                    Get(inner[r].hitl_review_outcome, "auto_approved"))
  <2>1. instruction \in Instructions
    <3>1. Get(inner[r].hitl_review_outcome, "auto_approved") \in Outcomes
      BY <1>1 DEF Get, InnerStates, Outcomes, Optional
    <3>2. inner[r].validated_order \in Workable
      BY <1>1, <1>11 DEF FulfillmentInstruct, MayRun, Rejects, InnerStates, Optional
    <3>3. inner[r].selected_route \in Routes \cup {Absent}
      BY <1>1 DEF InnerStates, Optional
    <3> QED BY <3>1, <3>2, <3>3 DEF Instructions
  <2> HIDE DEF instruction
  <2>2. [inner[r] EXCEPT !.fulfillment_instruction = instruction, !.status = "success"]
          \in InnerStates
    BY <1>1, <2>1 DEF InnerStates, Statuses, Optional
  <2> QED BY <1>2, <1>11, <2>2 DEF FulfillmentInstruct, instruction
<1> QED BY <1>3, <1>4, <1>5, <1>6, <1>8, <1>9, <1>10, <1>11

LEMMA TypeStep == TypeOK /\ [Next]_vars => TypeOK'
<1> SUFFICES ASSUME TypeOK, [Next]_vars PROVE TypeOK'
  OBVIOUS
<1>1. ASSUME NEW r \in Runs, Submit(r) PROVE TypeOK'
  BY <1>1, LocationsCovered DEF Submit, Goto, TypeOK, Optional, Nodes, OuterNodes, shared
<1>2. ASSUME NEW r \in Runs, NEW node \in Nodes, FailNode(r, node) PROVE TypeOK'
  BY <1>2, FailNodeType
<1>3. ASSUME NEW r \in Runs, OrderIngest(r) PROVE TypeOK'
  <2>1. outer' \in [Runs -> OuterStates]
    BY <1>3, OuterStepType
  <2> QED
    BY <1>3, <2>1, LocationsCovered DEF OrderIngest, MayRun, Goto, TypeOK, Nodes, OuterNodes, shared
<1>4. ASSUME NEW r \in Runs, NEW location \in Locations \ {"idle"}, Goto(r, location),
             pc[r] # "idle",
             UNCHANGED <<request, outer, inner, feedback, shown, retries, faulted, dispatched,
                         handle, shared>>
      PROVE TypeOK'
  BY <1>4 DEF Goto, TypeOK, shared
<1>5. ASSUME NEW r \in Runs, SkipSubgraph(r) \/ TestCache(r) \/ ResumeInner(r) \/ Proceeds(r)
      PROVE TypeOK'
  <2>1. {"route", "build", "call", "hitl_gate", "post_process", "ended"} \subseteq Locations \ {"idle"}
    BY DEF Locations, Nodes, OuterNodes, InnerNodes
  <2>2. CASE SkipSubgraph(r)
    BY <1>4, <2>1, <2>2 DEF SkipSubgraph, MayRun
  <2>3. CASE TestCache(r)
    BY <1>4, <2>1, <2>3 DEF TestCache, MayRun
  <2>4. CASE ResumeInner(r)
    BY <1>4, <2>1, <2>4 DEF ResumeInner
  <2>5. CASE Proceeds(r)
    BY <1>4, <2>1, <2>5 DEF Proceeds
  <2> QED BY <1>5, <2>2, <2>3, <2>4, <2>5
<1>6. ASSUME NEW r \in Runs, BuildSubgraph(r) PROVE TypeOK'
  BY <1>6, LocationsCovered DEF BuildSubgraph, Goto, TypeOK
<1>7. ASSUME NEW r \in Runs, StartInner(r) PROVE TypeOK'
  <2>1. inner' \in [Runs -> InnerStates]
    BY <1>7, InnerStepType
  <2> QED
    BY <1>7, <2>1, LocationsCovered DEF StartInner, Goto, TypeOK, Nodes, InnerNodes, shared
<1>8. ASSUME NEW r \in Runs, InventoryCheck(r) \/ FulfillmentPolicy(r) \/ RouteSelect(r)
               \/ GateSkipped(r) \/ GateDeferred(r) \/ GateReviewed(r) \/ FulfillmentInstruct(r)
      PROVE TypeOK'
  <2>1. inner' \in [Runs -> InnerStates]
    BY <1>8, InnerStepType
  <2>2. /\ pc[r] # "idle"
        /\ \E location \in {"fulfillment_policy", "route_select", "hitl_gate",
                            "fulfillment_instruct", "merge"} : Goto(r, location)
        /\ UNCHANGED <<innerFrame, shown>>
    BY <1>8 DEF InventoryCheck, FulfillmentPolicy, RouteSelect, GateSkipped, GateDeferred,
                GateReviewed, GateReturns, FulfillmentInstruct, MayRun
  <2> QED
    BY <2>1, <2>2, LocationsCovered DEF Goto, TypeOK, Nodes, InnerNodes, innerFrame, shared
<1>9. ASSUME NEW r \in Runs, GateInterrupts(r) PROVE TypeOK'
  <2>1. Draft(r) \in Drafts
    BY <1>9 DEF GateInterrupts, RequiresReview, Draft, Drafts, InnerStates, Optional, TypeOK
  <2> QED
    BY <1>9, <2>1, LocationsCovered
       DEF GateInterrupts, MayRun, Goto, TypeOK, Optional, innerFrame, shared
<1>10. ASSUME NEW r \in Runs, Resume(r) PROVE TypeOK'
  BY <1>10, LocationsCovered DEF Resume, Goto, TypeOK, Nodes, OuterNodes, shared
<1>11. ASSUME NEW r \in Runs, MergeOutput(r) PROVE TypeOK'
  <2>1. outer' \in [Runs -> OuterStates]
    BY <1>11, OuterStepType
  <2> QED BY <1>11, <2>1, LocationsCovered DEF MergeOutput, Goto, TypeOK, shared
<1>12. ASSUME NEW r \in Runs, PropagateError(r) PROVE TypeOK'
  <2>1. outer' \in [Runs -> OuterStates]
    BY <1>12, OuterStepType
  <2> QED
    BY <1>12, <2>1, LocationsCovered DEF PropagateError, Goto, TypeOK, Nodes, OuterNodes, shared
<1>13. ASSUME NEW r \in Runs, Retry(r) PROVE TypeOK'
  BY <1>13, LocationsCovered, WorkflowAssumption
     DEF Retry, Goto, TypeOK, Optional, Nodes, OuterNodes, shared
<1>14. ASSUME NEW r \in Runs, NotifySkipped(r) PROVE TypeOK'
  <2>1. outer' \in [Runs -> OuterStates]
    BY <1>14, OuterStepType
  <2> QED BY <1>14, <2>1, LocationsCovered DEF NotifySkipped, MayRun, Goto, TypeOK, shared
<1>15. ASSUME NEW r \in Runs, Notify(r) PROVE TypeOK'
  <2>1. outer' \in [Runs -> OuterStates]
    BY <1>15, OuterStepType
  <2> QED BY <1>15, <2>1, LocationsCovered DEF Notify, MayRun, Goto, TypeOK, shared
<1>16. ASSUME NEW r \in Runs, NotifyRefused(r) PROVE TypeOK'
  <2>1. outer' \in [Runs -> OuterStates]
    BY <1>16, OuterStepType
  <2> QED
    BY <1>16, <2>1, LocationsCovered
       DEF NotifyRefused, MayRun, Goto, TypeOK, Nodes, OuterNodes, shared
<1>17. CASE Crash
  BY <1>17, LocationsCovered, WorkflowAssumption DEF Crash, TypeOK
<1>18. CASE UNCHANGED vars
  BY <1>18 DEF vars, TypeOK
<1> QED
  BY <1>1, <1>2, <1>3, <1>5, <1>6, <1>7, <1>8, <1>9, <1>10, <1>11, <1>12, <1>13, <1>14,
     <1>15, <1>16, <1>17, <1>18 DEF Next, RunStep, Gate, AllOver

(* Type correctness, for every instance: the nodes leave in the two States *)
(* only what the helpers of fulfillment_service.py compute from an order   *)
(* of the request.                                                         *)
THEOREM TypeCorrect == Spec => []TypeOK
  BY TypeInit, TypeStep, PTL DEF Spec

-----------------------------------------------------------------------------
(* Every step is progress.                                                 *)

Fewer(r) == StepsLeft(r)' \in 0 .. StepsLeft(r) - 1

LEMMA Counting ==
  ASSUME TypeOK, NEW r \in Runs
  PROVE  /\ MaxRetry \in Nat /\ retries[r] \in 0 .. MaxRetry
         /\ \A n : (retries' = [retries EXCEPT ![r] = n]) => retries'[r] = n
         /\ \A n : (pc' = [pc EXCEPT ![r] = n]) => pc'[r] = n
  BY WorkflowAssumption DEF TypeOK

\* A step forward within an attempt.
LEMMA Forward ==
  ASSUME TypeOK, NEW r \in Runs, NEW to, Goto(r, to), retries' = retries,
         StepsAhead[to] \in Nat, StepsAhead[pc[r]] \in Nat, StepsAhead[to] < StepsAhead[pc[r]]
  PROVE  Fewer(r)
<1> DEFINE ahead == StepsAhead[pc[r]]
           then  == StepsAhead[to]
           more  == MaxRetry - retries[r]
<1>1. more \in Nat
  BY Counting
<1>2. pc'[r] = to
  BY Counting DEF Goto
<1>3. StepsLeft(r)' = then + 12 * more /\ StepsLeft(r) = ahead + 12 * more
  BY <1>2 DEF StepsLeft
<1>4. ahead \in Nat /\ then \in Nat /\ then < ahead
  OBVIOUS
<1> HIDE DEF ahead, then, more
<1>5. then + 12 * more \in 0 .. (ahead + 12 * more) - 1
  BY <1>1, <1>4
<1> QED BY <1>3, <1>5 DEF Fewer

LEMMA ProgressStep ==
  ASSUME TypeOK, NEW r \in Runs, RunStep(r)
  PROVE  Fewer(r)
<1>1. ASSUME NEW node \in Nodes, FailNode(r, node) PROVE Fewer(r)
  <2>1. pc[r] = node /\ Goto(r, NextNode[node]) /\ retries' = retries
    BY <1>1 DEF FailNode
  <2>2. /\ StepsAhead[node] \in Nat /\ StepsAhead[NextNode[node]] \in Nat
        /\ StepsAhead[NextNode[node]] < StepsAhead[node]
    BY DEF Nodes, OuterNodes, InnerNodes, NextNode, StepsAhead
  <2> QED BY <2>1, <2>2, Forward
<1>2. CASE OrderIngest(r)
  BY <1>2, Forward DEF OrderIngest, MayRun, StepsAhead
<1>3. CASE SkipSubgraph(r)
  BY <1>3, Forward DEF SkipSubgraph, MayRun, StepsAhead
<1>4. CASE TestCache(r)
  BY <1>4, Forward DEF TestCache, MayRun, StepsAhead
<1>5. CASE BuildSubgraph(r)
  BY <1>5, Forward DEF BuildSubgraph, StepsAhead
<1>6. CASE StartInner(r)
  BY <1>6, Forward DEF StartInner, StepsAhead
<1>7. CASE ResumeInner(r)
  BY <1>7, Forward DEF ResumeInner, StepsAhead
<1>8. CASE InventoryCheck(r)
  BY <1>8, Forward DEF InventoryCheck, innerFrame, MayRun, StepsAhead
<1>9. CASE FulfillmentPolicy(r)
  BY <1>9, Forward DEF FulfillmentPolicy, innerFrame, MayRun, StepsAhead
<1>10. CASE RouteSelect(r)
  BY <1>10, Forward DEF RouteSelect, innerFrame, MayRun, StepsAhead
<1>11. CASE Gate(r)
  <2>1. pc[r] = "hitl_gate" /\ retries' = retries
    BY <1>11 DEF Gate, GateSkipped, GateDeferred, GateInterrupts, GateReviewed, GateReturns,
                 innerFrame, MayRun
  <2>2. Goto(r, "fulfillment_instruct") \/ Goto(r, "awaiting")
    BY <1>11 DEF Gate, GateSkipped, GateDeferred, GateInterrupts, GateReviewed, GateReturns
  <2> QED BY <2>1, <2>2, Forward DEF StepsAhead
<1>12. CASE FulfillmentInstruct(r)
  BY <1>12, Forward DEF FulfillmentInstruct, innerFrame, MayRun, StepsAhead
<1>13. CASE MergeOutput(r)
  BY <1>13, Forward DEF MergeOutput, StepsAhead
<1>14. CASE PropagateError(r)
  BY <1>14, Forward DEF PropagateError, StepsAhead
<1>15. CASE Retry(r)
  <2> DEFINE taken == retries[r]
  <2>1. /\ pc[r] = "route" /\ taken < MaxRetry
        /\ pc'[r] = "pre_process" /\ retries'[r] = taken + 1
    BY <1>15, Counting DEF Retry, Goto
  <2>2. /\ StepsLeft(r) = 2 + 12 * (MaxRetry - taken)
        /\ StepsLeft(r)' = 12 + 12 * (MaxRetry - (taken + 1))
    BY <2>1 DEF StepsLeft, StepsAhead
  <2>3. MaxRetry \in Nat /\ taken \in 0 .. MaxRetry
    BY Counting
  <2> HIDE DEF taken
  <2> QED BY <2>1, <2>2, <2>3 DEF Fewer
<1>16. CASE Proceeds(r)
  <2>1. /\ pc[r] = "route" /\ retries' = retries
        /\ Goto(r, "post_process") \/ Goto(r, "ended")
    BY <1>16 DEF Proceeds
  <2> QED BY <2>1, Forward DEF StepsAhead
<1>17. CASE NotifySkipped(r)
  BY <1>17, Forward DEF NotifySkipped, MayRun, StepsAhead
<1>18. CASE Notify(r)
  BY <1>18, Forward DEF Notify, MayRun, StepsAhead
<1>19. CASE NotifyRefused(r)
  BY <1>19, Forward DEF NotifyRefused, MayRun, StepsAhead
<1> QED BY <1>1, <1>2, <1>3, <1>4, <1>5, <1>6, <1>7, <1>8, <1>9, <1>10, <1>11, <1>12,
           <1>13, <1>14, <1>15, <1>16, <1>17, <1>18, <1>19 DEF RunStep

(* Whatever fails and however often, no step the process takes for a run   *)
(* leaves it as far from rest as it was: what is left for fairness is that *)
(* the steps are taken (graph.py:69-108, fulfillment_workflow_graph.py:    *)
(* 57-63).                                                                 *)
THEOREM ProgressSafe == Spec => EveryStepIsProgress
<1>1. TypeOK => [\A r \in Runs : RunStep(r) => StepsLeft(r)' \in 0 .. StepsLeft(r) - 1]_vars
  BY ProgressStep DEF Fewer
<1> QED BY <1>1, TypeCorrect, PTL DEF EveryStepIsProgress
=============================================================================
