----------------------------- MODULE OutcomeProofs ----------------------------
(***************************************************************************)
(* How an order ends: the proofs of StatusTellsTheOutcome and              *)
(* ShownIsWhatShips.  Both rest on one fact: whatever the inner graph      *)
(* computes in an attempt, in the cached subgraph or in the one that       *)
(* replaced it, it computes from the same input.                           *)
(***************************************************************************)
EXTENDS ReviewProofs

\* What an undisturbed inner graph computes from the run's input.
Stocks(r)   == AggregateInventory(InnerInput(r).items)
Decision(r) == ApplyFulfillmentPolicy(InnerInput(r))
RouteDue(r) == SelectRoute(Stocks(r), Decision(r))

Computing(r) == AtWork(r) \/ pc[r] = "merge"

OnInput(r) ==
  Computing(r) =>
    /\ inner[r].user_input = InnerInput(r)
    /\ inner[r].validated_order # Absent => inner[r].validated_order = InnerInput(r)
    /\ inner[r].inventory_snapshot # Absent => inner[r].inventory_snapshot = Stocks(r)
    /\ inner[r].policy_decision # Absent => inner[r].policy_decision = Decision(r)
    /\ inner[r].selected_route # Absent => inner[r].selected_route = RouteDue(r)
    /\ Ships(inner[r].fulfillment_instruction) =>
         inner[r].fulfillment_instruction.source_channel = inner[r].selected_route.source_channel

PastPolicy(r) == AtWork(r) /\ pc[r] \notin {"inventory_check", "fulfillment_policy"}

\* A node that did not fail left its output.
Left(r) ==
  /\ PastPolicy(r) /\ "fulfillment_policy" \notin faulted[r] => inner[r].policy_decision # Absent
  /\ /\ PastPolicy(r) /\ pc[r] # "route_select"
     /\ inner[r].policy_decision # Absent /\ "route_select" \notin Refusable
     => inner[r].selected_route # Absent

RejectedBy(r) == feedback[r] # NoAnswer /\ OutcomeOf(feedback[r]) = "rejected"

\* The outcome in the inner State is "rejected" when the reviewer said so,
\* and unless a node failed only then.
Verdict(r) ==
  LET outcome == inner[r].hitl_review_outcome
  IN  /\ AtWork(r) /\ pc[r] # "fulfillment_instruct" => outcome = Absent
      /\ pc[r] \in {"fulfillment_instruct", "merge"} /\ outcome = "rejected" => RejectedBy(r)
      /\ pc[r] \in {"fulfillment_instruct", "merge"} /\ faulted[r] = {} /\ RejectedBy(r) =>
           outcome = "rejected"
      /\ pc[r] = "merge" /\ faulted[r] = {} /\ RejectedBy(r) =>
           /\ inner[r].fulfillment_instruction # Absent
           /\ ~ Ships(inner[r].fulfillment_instruction)

\* A reviewer is asked about what the input calls for, and shown that.
Questioned(r) ==
  pc[r] = "awaiting" \/ Resuming(r) \/ shown[r] # Absent =>
    /\ shown[r] # Absent
    /\ pc[r] \notin {"idle", "pre_process"}
    /\ ~ outer[r].input_unusable
    /\ Decision(r).requires_hitl /\ request[r].hitl_allowed
    /\ shown[r].policy_decision = Decision(r)
    /\ "route_select" \notin Refusable => shown[r].selected_route = RouteDue(r)

RunWork(r) == OnInput(r) /\ Left(r) /\ Verdict(r) /\ Questioned(r)

\* What was merged is what was computed.
AsComputed(r) ==
  Ships(outer[r].fulfillment_instruction) =>
    /\ outer[r].policy_decision = Decision(r)
    /\ outer[r].selected_route = RouteDue(r)
    /\ outer[r].fulfillment_instruction.source_channel = outer[r].selected_route.source_channel

RejectionMerged(r) ==
  /\ outer[r].fulfillment_instruction # Absent /\ outer[r].hitl_review_outcome = "rejected" =>
       RejectedBy(r)
  /\ pc[r] \in {"route", "post_process"} /\ faulted[r] = {} /\ RejectedBy(r) =>
       /\ outer[r].fulfillment_instruction # Absent
       /\ ~ Ships(outer[r].fulfillment_instruction)
       /\ outer[r].hitl_review_outcome = "rejected"

\* The terminal status comes last, and says what logistics was told.
StatusSays(r) ==
  /\ pc[r] # "ended" => outer[r].fulfillment_status = Absent
  /\ outer[r].fulfillment_status = "ORDER_ROUTED" =>
       dispatched[r] = 1 /\ Ships(outer[r].fulfillment_instruction)
  /\ outer[r].fulfillment_status = "HITL_ESCALATION" =>
       /\ dispatched[r] = 1 /\ outer[r].fulfillment_instruction # Absent
       /\ ~ Ships(outer[r].fulfillment_instruction)
       /\ outer[r].hitl_review_outcome = "rejected"
  /\ pc[r] = "ended" /\ faulted[r] = {} /\ RejectedBy(r) =>
       outer[r].fulfillment_status = "HITL_ESCALATION"

RunTold(r) == AsComputed(r) /\ RejectionMerged(r) /\ StatusSays(r)

OutcomeInv == \A r \in Runs : RunWork(r) /\ RunTold(r)

-----------------------------------------------------------------------------
(* The input of a run is what pre_process left, until it runs again.       *)

LEMMA InputStays ==
  ASSUME TypeOK, NEW r \in Runs, RunStep(r) \/ Resume(r), ~ OrderIngest(r)
  PROVE  /\ request' = request
         /\ outer'[r].validated_input = outer[r].validated_input
         /\ outer'[r].input_unusable = outer[r].input_unusable
         /\ InnerInput(r)' = InnerInput(r)
<1>0. outer[r] \in OuterStates
  BY DEF TypeOK
<1> SUFFICES /\ request' = request
             /\ outer'[r].validated_input = outer[r].validated_input
             /\ outer'[r].input_unusable = outer[r].input_unusable
  BY DEF InnerInput
<1>1. ASSUME request' = request, outer' = outer
      PROVE  /\ request' = request
             /\ outer'[r].validated_input = outer[r].validated_input
             /\ outer'[r].input_unusable = outer[r].input_unusable
  BY <1>1
<1>2. ASSUME request' = request, outer' = [outer EXCEPT ![r].status = "error"]
      PROVE  /\ request' = request
             /\ outer'[r].validated_input = outer[r].validated_input
             /\ outer'[r].input_unusable = outer[r].input_unusable
  <2>1. outer'[r] = [outer[r] EXCEPT !.status = "error"]
    BY <1>2 DEF TypeOK
  <2> QED BY <1>0, <1>2, <2>1 DEF OuterStates
<1>3. ASSUME NEW node \in Nodes, FailNode(r, node)
      PROVE  \/ request' = request /\ outer' = outer
             \/ request' = request /\ outer' = [outer EXCEPT ![r].status = "error"]
  BY <1>3 DEF FailNode
<1>4. CASE PropagateError(r) \/ NotifyRefused(r)
  BY <1>2, <1>4 DEF PropagateError, NotifyRefused
<1>5. CASE MergeOutput(r)
  BY <1>0, <1>5 DEF TypeOK, MergeOutput, OuterStates
<1>6. CASE NotifySkipped(r)
  BY <1>0, <1>6 DEF TypeOK, NotifySkipped, OuterStates
<1>7. CASE Notify(r)
  BY <1>0, <1>7 DEF TypeOK, Notify, OuterStates
<1>8. CASE \/ SkipSubgraph(r) \/ TestCache(r) \/ BuildSubgraph(r) \/ StartInner(r)
           \/ ResumeInner(r) \/ Retry(r) \/ Proceeds(r) \/ Resume(r)
  BY <1>1, <1>8 DEF SkipSubgraph, TestCache, BuildSubgraph, StartInner, ResumeInner, Retry,
                    Proceeds, Resume
<1>9. CASE \/ InventoryCheck(r) \/ FulfillmentPolicy(r) \/ RouteSelect(r)
           \/ FulfillmentInstruct(r) \/ Gate(r)
  BY <1>1, <1>9 DEF InventoryCheck, FulfillmentPolicy, RouteSelect, FulfillmentInstruct, Gate,
                    GateSkipped, GateDeferred, GateInterrupts, GateReviewed, GateReturns,
                    innerFrame
<1> QED BY <1>1, <1>2, <1>3, <1>4, <1>5, <1>6, <1>7, <1>8, <1>9 DEF RunStep

-----------------------------------------------------------------------------
(* The work inside: one lemma for each kind of step.                       *)

\* The question stands while the reviewer's run goes on.
LEMMA QuestionStands ==
  ASSUME NEW r \in Runs, Questioned(r), InnerInput(r)' = InnerInput(r),
         request'[r] = request[r], outer'[r].input_unusable = outer[r].input_unusable,
         shown'[r] = shown[r],
         pc'[r] = "awaiting" => pc[r] = "awaiting",
         Resuming(r)' => Resuming(r) \/ pc[r] = "awaiting",
         pc'[r] \notin {"idle", "pre_process"} \/ pc'[r] = pc[r]
  PROVE  Questioned(r)'
BY DEF Questioned, Decision, RouteDue, Stocks

\* What is there stays when nobody computes.
LEMMA OutsideWork ==
  ASSUME NEW r \in Runs, RunWork(r), Questioned(r)', InnerInput(r)' = InnerInput(r),
         inner'[r] = inner[r], faulted[r] \subseteq faulted'[r],
         Computing(r)' => Computing(r), AtWork(r)' => AtWork(r),
         PastPolicy(r)' => PastPolicy(r),
         PastPolicy(r)' /\ pc'[r] # "route_select" => pc[r] # "route_select",
         AtWork(r)' => pc[r] # "fulfillment_instruct",
         pc'[r] \notin {"fulfillment_instruct", "merge"}
  PROVE  RunWork(r)'
<1>1. OnInput(r)'
  BY DEF RunWork, OnInput, Decision, RouteDue, Stocks, Ships
<1>2. Left(r)'
  BY DEF RunWork, Left
<1>3. Verdict(r)'
  BY DEF RunWork, Verdict
<1> QED BY <1>1, <1>2, <1>3 DEF RunWork

LEMMA MovedWork ==
  ASSUME Inv, NEW r \in Runs, RunWork(r),
         \/ SkipSubgraph(r) \/ TestCache(r) \/ BuildSubgraph(r) \/ ResumeInner(r)
         \/ Proceeds(r) \/ Resume(r)
  PROVE  RunWork(r)'
<1>1. UNCHANGED <<inner, outer, request, faulted, shown>>
  BY DEF SkipSubgraph, TestCache, BuildSubgraph, ResumeInner, Proceeds, Resume
<1>2. InnerInput(r)' = InnerInput(r)
  BY <1>1 DEF InnerInput
<1>3. \/ pc[r] = "awaiting" /\ pc'[r] = "main"
      \/ /\ feedback' = feedback
         /\ \/ pc[r] = "main" /\ pc'[r] \in {"route", "build", "call"}
            \/ pc[r] = "build" /\ pc'[r] = "call"
            \/ pc[r] = "call" /\ Resuming(r) /\ pc'[r] = "hitl_gate"
            \/ pc[r] = "route" /\ pc'[r] \in {"post_process", "ended"}
  BY DEF Inv, TypeOK, SkipSubgraph, TestCache, BuildSubgraph, ResumeInner, Proceeds, Resume,
         MayRun, Goto
<1>4. Questioned(r)'
  BY <1>1, <1>2, <1>3, QuestionStands DEF RunWork, Resuming
<1>5. /\ Computing(r)' => Computing(r)
      /\ AtWork(r)' => AtWork(r)
      /\ PastPolicy(r)' => PastPolicy(r)
      /\ pc[r] \notin {"route_select", "fulfillment_instruct"}
      /\ pc'[r] \notin {"fulfillment_instruct", "merge"}
  BY <1>3 DEF Computing, AtWork, PastPolicy, Resuming, InnerNodes
<1> QED BY <1>1, <1>2, <1>4, <1>5, OutsideWork

LEMMA SubmittedWork ==
  ASSUME Inv, NEW r \in Runs, RunWork(r), Submit(r)
  PROVE  RunWork(r)'
<1>1. /\ UNCHANGED <<inner, outer, faulted, shown, feedback>>
      /\ pc[r] = "idle" /\ pc'[r] = "pre_process"
  BY DEF Inv, TypeOK, Submit, Goto
<1>2. ~ Resuming(r) /\ shown[r] = Absent
  BY <1>1 DEF RunWork, Questioned
<1> QED BY <1>1, <1>2 DEF RunWork, OnInput, Left, Verdict, Questioned, Computing, AtWork,
                          PastPolicy, Resuming, InnerNodes

LEMMA IngestedWork ==
  ASSUME Inv, NEW r \in Runs, RunWork(r), OrderIngest(r)
  PROVE  RunWork(r)'
<1>1. /\ UNCHANGED <<inner, faulted, shown, feedback>>
      /\ pc[r] = "pre_process" /\ pc'[r] = "main"
  BY DEF Inv, TypeOK, OrderIngest, MayRun, Goto
<1>2. ~ Resuming(r) /\ shown[r] = Absent
  BY <1>1 DEF RunWork, Questioned
<1> QED BY <1>1, <1>2 DEF RunWork, OnInput, Left, Verdict, Questioned, Computing, AtWork,
                          PastPolicy, Resuming, InnerNodes

LEMMA EndedWork ==
  ASSUME Inv, NEW r \in Runs, RunWork(r),
         MergeOutput(r) \/ PropagateError(r) \/ NotifySkipped(r) \/ Notify(r) \/ NotifyRefused(r)
  PROVE  RunWork(r)'
<1>1. /\ UNCHANGED <<inner, shown, feedback>>
      /\ pc[r] \in {"merge", "post_process"} /\ pc'[r] \in {"route", "ended"}
      /\ faulted[r] \subseteq faulted'[r]
  BY DEF Inv, TypeOK, MergeOutput, PropagateError, NotifySkipped, Notify, NotifyRefused,
         MayRun, Goto
<1>2. /\ request' = request /\ outer'[r].input_unusable = outer[r].input_unusable
      /\ InnerInput(r)' = InnerInput(r)
  BY <1>1, InputStays DEF Inv, RunStep, OrderIngest, MayRun
<1>3. Questioned(r)'
  BY <1>1, <1>2, QuestionStands DEF RunWork, Resuming
<1>4. ~ AtWork(r)' /\ ~ Computing(r)' /\ ~ PastPolicy(r)'
  BY <1>1 DEF AtWork, Computing, PastPolicy, InnerNodes
<1> QED BY <1>1, <1>2, <1>3, <1>4, OutsideWork

LEMMA RetriedWork ==
  ASSUME Inv, NEW r \in Runs, RunWork(r), Retry(r)
  PROVE  RunWork(r)'
<1>1. /\ inner' = inner /\ pc'[r] = "pre_process"
      /\ feedback'[r] = NoAnswer /\ shown'[r] = Absent
  BY DEF Inv, TypeOK, Retry, Goto
<1> QED BY <1>1 DEF RunWork, OnInput, Left, Verdict, Questioned, Computing, AtWork,
                    PastPolicy, Resuming, InnerNodes

LEMMA StartedWork ==
  ASSUME Inv, NEW r \in Runs, RunWork(r), StartInner(r)
  PROVE  RunWork(r)'
<1>1. /\ pc[r] = "call" /\ pc'[r] = "inventory_check"
      /\ UNCHANGED <<outer, request, shown>>
      /\ inner'[r] = NewInner(InnerInput(r))
      /\ feedback'[r] \in {feedback[r], NoAnswer}
  BY DEF Inv, TypeOK, StartInner, Goto
<1>2. InnerInput(r)' = InnerInput(r)
  BY <1>1 DEF InnerInput
<1>3. Questioned(r)'
  BY <1>1, <1>2, QuestionStands DEF RunWork, Resuming
<1>4. OnInput(r)' /\ Left(r)' /\ Verdict(r)'
  BY <1>1, <1>2 DEF OnInput, Left, Verdict, NewInner, Ships, PastPolicy, Computing, AtWork,
                    InnerNodes
<1> QED BY <1>3, <1>4 DEF RunWork

LEMMA FailedOuterWork ==
  ASSUME Inv, NEW r \in Runs, RunWork(r), NEW node \in OuterNodes, FailNode(r, node)
  PROVE  RunWork(r)'
<1>1. /\ pc[r] = node /\ pc'[r] = NextNode[node]
      /\ UNCHANGED <<inner, shown, feedback>>
      /\ faulted[r] \subseteq faulted'[r]
  BY DEF Inv, TypeOK, FailNode, Goto, Nodes
<1>2. /\ request' = request /\ outer'[r].input_unusable = outer[r].input_unusable
      /\ InnerInput(r)' = InnerInput(r)
  <2>1. ~ OrderIngest(r) \/ (outer'[r] = [outer[r] EXCEPT !.status = "error"] /\ request' = request)
    BY DEF Inv, TypeOK, FailNode
  <2>2. CASE ~ OrderIngest(r)
    BY <2>2, InputStays DEF Inv, RunStep, Nodes
  <2>3. CASE outer'[r] = [outer[r] EXCEPT !.status = "error"] /\ request' = request
    BY <2>3 DEF Inv, TypeOK, OuterStates, InnerInput
  <2> QED BY <2>1, <2>2, <2>3
<1>3. pc'[r] \in {"main", "route", "ended"} /\ (pc'[r] = "main" => pc[r] = "pre_process")
  BY <1>1 DEF NextNode, OuterNodes, InnerNodes, Nodes
<1>4. Questioned(r)'
  BY <1>1, <1>2, <1>3, QuestionStands DEF RunWork, Resuming
<1>5. ~ AtWork(r)' /\ ~ Computing(r)' /\ ~ PastPolicy(r)'
  BY <1>1, <1>3 DEF AtWork, Computing, PastPolicy, Resuming, InnerNodes, RunWork, Questioned
<1> QED BY <1>1, <1>2, <1>3, <1>4, <1>5, OutsideWork

\* Between two inner nodes the question stands, and the graph computes on.
LEMMA InnerQuestion ==
  ASSUME Inv, NEW r \in Runs, RunWork(r), pc[r] \in InnerNodes,
         outer' = outer, request' = request, shown' = shown, feedback' = feedback,
         pc'[r] \in InnerNodes \cup {"merge"}
  PROVE  /\ Questioned(r)'
         /\ InnerInput(r)' = InnerInput(r)
         /\ AtWork(r) /\ Computing(r)
         /\ pc'[r] \in InnerNodes => AtWork(r)'
<1>1. InnerInput(r)' = InnerInput(r)
  BY DEF InnerInput
<1>2. Questioned(r)'
  BY <1>1, QuestionStands DEF RunWork, Resuming, InnerNodes
<1> QED BY <1>1, <1>2 DEF AtWork, Computing

LEMMA FailedInnerWork ==
  ASSUME Inv, NEW r \in Runs, RunWork(r), NEW node \in InnerNodes, FailNode(r, node)
  PROVE  RunWork(r)'
<1>1. /\ pc[r] = node /\ pc'[r] = NextNode[node]
      /\ UNCHANGED <<outer, request, shown, feedback>>
      /\ faulted'[r] = faulted[r] \cup {node}
      /\ inner[r] \in InnerStates /\ inner'[r] = [inner[r] EXCEPT !.status = "error"]
  BY DEF Inv, TypeOK, FailNode, Goto, Nodes, OuterNodes, InnerNodes
<1>2. /\ inner'[r].user_input = inner[r].user_input
      /\ inner'[r].validated_order = inner[r].validated_order
      /\ inner'[r].inventory_snapshot = inner[r].inventory_snapshot
      /\ inner'[r].policy_decision = inner[r].policy_decision
      /\ inner'[r].selected_route = inner[r].selected_route
      /\ inner'[r].hitl_review_outcome = inner[r].hitl_review_outcome
      /\ inner'[r].fulfillment_instruction = inner[r].fulfillment_instruction
  BY <1>1 DEF InnerStates
<1>3. /\ pc'[r] \in (InnerNodes \cup {"merge"}) \ {"inventory_check"}
      /\ pc'[r] = "fulfillment_policy" => node = "inventory_check"
      /\ pc'[r] = "route_select" => node = "fulfillment_policy"
      /\ pc'[r] = "hitl_gate" => node = "route_select"
      /\ pc'[r] = "fulfillment_instruct" => node = "hitl_gate"
      /\ pc'[r] = "merge" => node = "fulfillment_instruct"
  BY <1>1 DEF NextNode, OuterNodes, InnerNodes, Nodes
<1>4. Questioned(r)' /\ InnerInput(r)' = InnerInput(r) /\ AtWork(r) /\ Computing(r)
  BY <1>1, <1>3, InnerQuestion
<1>5. OnInput(r)'
  BY <1>2, <1>4 DEF RunWork, OnInput, Decision, RouteDue, Stocks, Ships
<1>6. Left(r)'
  <2>1. node = "route_select" /\ "route_select" \notin Refusable => inner[r].policy_decision = Absent
    BY DEF FailNode, Raises, Rejects, Denied, OuterNodes
  <2> QED BY <1>1, <1>2, <1>3, <1>4, <2>1 DEF RunWork, Left, PastPolicy, AtWork, InnerNodes
<1>7. Verdict(r)'
  BY <1>1, <1>2, <1>3, <1>4, WorkflowAssumption
     DEF RunWork, Verdict, AtWork, RejectedBy, InnerNodes, Outcomes
<1> QED BY <1>4, <1>5, <1>6, <1>7 DEF RunWork

\* A node before the gate: what matters is what it computes, and from what.
LEMMA NodeWork ==
  ASSUME Inv, NEW r \in Runs, RunWork(r), RunEval(r),
         InventoryCheck(r) \/ FulfillmentPolicy(r) \/ RouteSelect(r)
  PROVE  RunWork(r)'
<1>1. /\ UNCHANGED <<outer, request, shown, feedback, faulted>>
      /\ inner[r] \in InnerStates
      /\ pc[r] \in {"inventory_check", "fulfillment_policy", "route_select"}
      /\ pc'[r] \in {"fulfillment_policy", "route_select", "hitl_gate"}
  BY DEF Inv, TypeOK, MayRun, InventoryCheck, FulfillmentPolicy, RouteSelect, innerFrame, Goto
<1>2. /\ Questioned(r)' /\ InnerInput(r)' = InnerInput(r)
      /\ AtWork(r) /\ Computing(r) /\ AtWork(r)'
  BY <1>1, InnerQuestion DEF InnerNodes
<1>3. inner[r].fulfillment_instruction = Absent /\ inner[r].hitl_review_outcome = Absent
  BY <1>1, <1>2 DEF Inv, RunsInv, RunInv, NoneBeforeInstruct, RunWork, Verdict, InnerNodes
<1>4. CASE InventoryCheck(r)
  <2>1. /\ pc[r] = "inventory_check" /\ pc'[r] = "fulfillment_policy"
        /\ inner'[r].user_input = inner[r].user_input
        /\ inner'[r].validated_order = inner[r].user_input
        /\ inner'[r].inventory_snapshot = AggregateInventory(inner[r].user_input.items)
        /\ inner'[r].policy_decision = inner[r].policy_decision
        /\ inner'[r].selected_route = inner[r].selected_route
        /\ inner'[r].hitl_review_outcome = inner[r].hitl_review_outcome
        /\ inner'[r].fulfillment_instruction = inner[r].fulfillment_instruction
    BY <1>1, <1>4 DEF Inv, TypeOK, MayRun, InventoryCheck, Goto, InnerStates
  <2>2. OnInput(r)'
    BY <1>2, <1>3, <2>1 DEF RunWork, OnInput, Decision, RouteDue, Stocks, Ships
  <2>3. Left(r)' /\ Verdict(r)'
    BY <1>2, <1>3, <2>1 DEF Left, Verdict, PastPolicy
  <2> QED BY <1>2, <2>2, <2>3 DEF RunWork
<1>5. CASE FulfillmentPolicy(r)
  <2>1. /\ pc[r] = "fulfillment_policy" /\ pc'[r] = "route_select"
        /\ inner[r].validated_order # Absent /\ ~ PolicyRaises(inner[r].validated_order)
        /\ inner'[r].user_input = inner[r].user_input
        /\ inner'[r].validated_order = inner[r].validated_order
        /\ inner'[r].inventory_snapshot = inner[r].inventory_snapshot
        /\ inner'[r].policy_decision = ApplyFulfillmentPolicy(inner[r].validated_order)
        /\ inner'[r].selected_route = inner[r].selected_route
        /\ inner'[r].hitl_review_outcome = inner[r].hitl_review_outcome
        /\ inner'[r].fulfillment_instruction = inner[r].fulfillment_instruction
    BY <1>1, <1>5 DEF Inv, TypeOK, MayRun, Rejects, Raises, FulfillmentPolicy, Goto, InnerStates
  <2>2. inner[r].validated_order = InnerInput(r)
    BY <1>2, <2>1 DEF RunWork, OnInput
  <2>3. inner'[r].policy_decision # Absent
    <3>1. inner[r].validated_order \in Workable
      BY <1>1, <2>1 DEF InnerStates, Optional
    <3> QED BY <2>1, <3>1, ComputedAssumption DEF PolicyDecisions
  <2>4. OnInput(r)'
    BY <1>2, <1>3, <2>1, <2>2 DEF RunWork, OnInput, Decision, RouteDue, Stocks, Ships
  <2>5. Left(r)' /\ Verdict(r)'
    BY <1>2, <1>3, <2>1, <2>3 DEF Left, Verdict, PastPolicy
  <2> QED BY <1>2, <2>4, <2>5 DEF RunWork
<1>6. CASE RouteSelect(r)
  <2>1. /\ pc[r] = "route_select" /\ pc'[r] = "hitl_gate"
        /\ inner[r].policy_decision # Absent
        /\ inner'[r].user_input = inner[r].user_input
        /\ inner'[r].validated_order = inner[r].validated_order
        /\ inner'[r].inventory_snapshot = inner[r].inventory_snapshot
        /\ inner'[r].policy_decision = inner[r].policy_decision
        /\ inner'[r].selected_route =
             SelectRoute(Get(inner[r].inventory_snapshot, <<>>), inner[r].policy_decision)
        /\ inner'[r].hitl_review_outcome = inner[r].hitl_review_outcome
        /\ inner'[r].fulfillment_instruction = inner[r].fulfillment_instruction
    BY <1>1, <1>6 DEF Inv, TypeOK, MayRun, Rejects, RouteSelect, Goto, InnerStates
  <2>2. inner[r].inventory_snapshot # Absent
    BY <2>1 DEF RunEval, Chain
  <2>3. /\ Get(inner[r].inventory_snapshot, <<>>) = Stocks(r)
        /\ inner[r].policy_decision = Decision(r)
    BY <1>2, <2>1, <2>2 DEF RunWork, OnInput, Get
  <2>4. inner'[r].selected_route # Absent
    <3>1. /\ Get(inner[r].inventory_snapshot, <<>>) \in Snapshots \cup {<<>>}
          /\ inner[r].policy_decision \in PolicyDecisions
      BY <1>1, <2>1, <2>2 DEF Get, InnerStates, Optional
    <3>2. SelectRoute(Get(inner[r].inventory_snapshot, <<>>), inner[r].policy_decision) \in Routes
      BY <3>1 DEF Routes
    <3> QED BY <2>1, <3>2, ComputedAssumption
  <2>5. OnInput(r)'
    BY <1>2, <1>3, <2>1, <2>3 DEF RunWork, OnInput, Decision, RouteDue, Stocks, Ships
  <2>6. Left(r)' /\ Verdict(r)'
    BY <1>1, <1>2, <1>3, <2>1, <2>4 DEF RunWork, Left, Verdict, PastPolicy
  <2> QED BY <1>2, <2>5, <2>6 DEF RunWork
<1> QED BY <1>4, <1>5, <1>6

\* The gate: what it is asked and what it was answered come from the input.
LEMMA DecisionAtGate ==
  ASSUME NEW r \in Runs, RunWork(r), pc[r] = "hitl_gate", RequiresReview(r)
  PROVE  inner[r].policy_decision = Decision(r) /\ Decision(r).requires_hitl
BY DEF RunWork, OnInput, Computing, AtWork, InnerNodes, RequiresReview

LEMMA GatedWork ==
  ASSUME Inv, NEW r \in Runs, RunWork(r), GateSkipped(r) \/ GateDeferred(r) \/ GateReviewed(r)
  PROVE  RunWork(r)'
<1>1. PICK outcome, draft :
        /\ GateReturns(r, outcome, draft)
        /\ \/ GateSkipped(r) /\ outcome = "auto_approved"
           \/ GateDeferred(r) /\ outcome = "referred_for_human_review"
           \/ GateReviewed(r) /\ outcome = OutcomeOf(feedback[r])
  BY DEF GateSkipped, GateDeferred, GateReviewed
<1>2. /\ UNCHANGED <<outer, request, shown, feedback, faulted>>
      /\ inner[r] \in InnerStates
      /\ pc[r] = "hitl_gate" /\ pc'[r] = "fulfillment_instruct"
  BY <1>1 DEF Inv, TypeOK, Goto, MayRun, GateSkipped, GateDeferred, GateReviewed, GateReturns,
              innerFrame
<1>3. /\ inner'[r].user_input = inner[r].user_input
      /\ inner'[r].validated_order = inner[r].validated_order
      /\ inner'[r].inventory_snapshot = inner[r].inventory_snapshot
      /\ inner'[r].policy_decision = inner[r].policy_decision
      /\ inner'[r].selected_route = inner[r].selected_route
      /\ inner'[r].fulfillment_instruction = inner[r].fulfillment_instruction
      /\ inner'[r].hitl_review_outcome = outcome
  BY <1>1, <1>2 DEF GateReturns, Inv, TypeOK, InnerStates
<1>4. Questioned(r)' /\ InnerInput(r)' = InnerInput(r) /\ AtWork(r) /\ Computing(r)
  BY <1>2, InnerQuestion DEF InnerNodes
<1>5. OnInput(r)'
  BY <1>3, <1>4 DEF RunWork, OnInput, Decision, RouteDue, Stocks, Ships
<1>6. Left(r)'
  BY <1>2, <1>3, <1>4 DEF RunWork, Left, PastPolicy
<1>7. outcome = "rejected" => RejectedBy(r)
  BY <1>1 DEF GateReviewed, RejectedBy
<1>8. faulted[r] = {} /\ RejectedBy(r) => outcome = "rejected"
  <2> SUFFICES ASSUME faulted[r] = {}, RejectedBy(r) PROVE outcome = "rejected"
    OBVIOUS
  <2>1. inner[r].policy_decision # Absent
    BY <1>2, <1>4 DEF RunWork, Left, PastPolicy
  <2>2. RequiresReview(r) /\ request[r].hitl_allowed
    BY <1>4, <2>1 DEF RunWork, OnInput, Questioned, RejectedBy, Resuming, RequiresReview
  <2> QED BY <1>1, <2>2 DEF GateSkipped, GateDeferred, RejectedBy
<1>9. Verdict(r)'
  BY <1>2, <1>3, <1>7, <1>8 DEF Verdict, RejectedBy
<1> QED BY <1>4, <1>5, <1>6, <1>9 DEF RunWork

LEMMA InterruptedWork ==
  ASSUME Inv, NEW r \in Runs, RunWork(r), GateInterrupts(r)
  PROVE  RunWork(r)'
<1>1. /\ UNCHANGED <<inner, outer, request, feedback, faulted>>
      /\ inner[r] \in InnerStates
      /\ pc[r] = "hitl_gate" /\ pc'[r] = "awaiting"
      /\ RequiresReview(r) /\ request[r].hitl_allowed
      /\ shown'[r] = Draft(r)
  BY DEF Inv, TypeOK, Goto, MayRun, GateInterrupts, innerFrame
<1>2. InnerInput(r)' = InnerInput(r) /\ AtWork(r) /\ Computing(r) /\ PastPolicy(r)
  BY <1>1 DEF InnerInput, AtWork, Computing, PastPolicy, InnerNodes
<1>3. inner[r].policy_decision = Decision(r) /\ Decision(r).requires_hitl
  BY <1>1, DecisionAtGate
<1>4. inner[r].policy_decision # Absent
  BY <1>1 DEF RequiresReview
<1>5. shown'[r] # Absent
  <2>1. Draft(r) \in Drafts
    BY <1>1, <1>4 DEF Draft, Drafts, InnerStates, Optional
  <2> QED BY <1>1, <2>1, ComputedAssumption
<1>6. "route_select" \notin Refusable => inner[r].selected_route = RouteDue(r)
  BY <1>1, <1>2, <1>4 DEF RunWork, OnInput, Left
<1>7. ~ outer[r].input_unusable
  BY <1>1 DEF Inv, RunsInv, RunInv, UsableInside, InnerNodes
<1>8. Questioned(r)'
  <2>1. shown'[r].policy_decision = Decision(r) /\ shown'[r].selected_route = inner[r].selected_route
    BY <1>1, <1>3 DEF Draft
  <2> QED BY <1>1, <1>2, <1>3, <1>5, <1>6, <1>7, <2>1 DEF Questioned, Decision, RouteDue, Stocks
<1> QED BY <1>1, <1>2, <1>8, OutsideWork

LEMMA InstructedWork ==
  ASSUME Inv, NEW r \in Runs, RunWork(r), FulfillmentInstruct(r)
  PROVE  RunWork(r)'
<1> DEFINE outcome == Get(inner[r].hitl_review_outcome, "auto_approved")
           instruction == BuildFulfillmentInstruction(inner[r].validated_order,
                                                      inner[r].selected_route, outcome)
<1>1. /\ UNCHANGED <<outer, request, shown, feedback, faulted>>
      /\ inner[r] \in InnerStates
      /\ pc[r] = "fulfillment_instruct" /\ pc'[r] = "merge"
      /\ inner[r].validated_order # Absent
  BY DEF Inv, TypeOK, Goto, MayRun, Rejects, FulfillmentInstruct, innerFrame
<1>2. /\ inner'[r].user_input = inner[r].user_input
      /\ inner'[r].validated_order = inner[r].validated_order
      /\ inner'[r].inventory_snapshot = inner[r].inventory_snapshot
      /\ inner'[r].policy_decision = inner[r].policy_decision
      /\ inner'[r].selected_route = inner[r].selected_route
      /\ inner'[r].hitl_review_outcome = inner[r].hitl_review_outcome
      /\ inner'[r].fulfillment_instruction = instruction
  BY <1>1 DEF FulfillmentInstruct, Inv, TypeOK, InnerStates
<1>3. Questioned(r)' /\ InnerInput(r)' = InnerInput(r) /\ AtWork(r) /\ Computing(r)
  BY <1>1, InnerQuestion DEF InnerNodes
<1>4. instruction # Absent
  <2>1. /\ inner[r].validated_order \in Workable
        /\ inner[r].selected_route \in Routes \cup {Absent}
        /\ outcome \in Outcomes
    BY <1>1 DEF InnerStates, Optional, Get, Outcomes
  <2> HIDE DEF outcome
  <2>2. instruction \in Instructions
    BY <2>1 DEF Instructions
  <2> QED BY <2>2, ComputedAssumption
<1>5. Ships(instruction) =>
        /\ outcome # "rejected"
        /\ instruction.source_channel = inner[r].selected_route.source_channel
  BY DEF Ships, BuildFulfillmentInstruction, Proceed, Fulfillable
<1> HIDE DEF instruction
<1>6. OnInput(r)'
  BY <1>2, <1>3, <1>5 DEF RunWork, OnInput, Decision, RouteDue, Stocks, Ships
<1>7. Left(r)'
  BY <1>1 DEF Left, PastPolicy, AtWork, InnerNodes
<1>8. inner[r].hitl_review_outcome = "rejected" => outcome = "rejected"
  BY WorkflowAssumption DEF Get, Outcomes
<1>9. Verdict(r)'
  <2>1. ~ AtWork(r)'
    BY <1>1 DEF AtWork, InnerNodes
  <2>2. faulted[r] = {} /\ RejectedBy(r) => outcome = "rejected"
    BY <1>1, <1>8 DEF RunWork, Verdict
  <2> QED BY <1>1, <1>2, <1>4, <1>5, <2>1, <2>2 DEF RunWork, Verdict, RejectedBy, Ships
<1> QED BY <1>3, <1>6, <1>7, <1>9 DEF RunWork

-----------------------------------------------------------------------------
(* What is merged and told.                                                *)

\* The fields of the outer State that the end of a run speaks of.
SameEnd(r) ==
  /\ outer'[r].fulfillment_instruction = outer[r].fulfillment_instruction
  /\ outer'[r].hitl_review_outcome = outer[r].hitl_review_outcome
  /\ outer'[r].policy_decision = outer[r].policy_decision
  /\ outer'[r].selected_route = outer[r].selected_route
  /\ outer'[r].fulfillment_status = outer[r].fulfillment_status
  /\ dispatched'[r] = dispatched[r]

LEMMA ErrorKeepsEnd ==
  ASSUME TypeOK, NEW r \in Runs, outer' = [outer EXCEPT ![r].status = "error"],
         dispatched'[r] = dispatched[r]
  PROVE  SameEnd(r) /\ outer'[r].validated_input = outer[r].validated_input
<1>1. outer[r] \in OuterStates /\ outer'[r] = [outer[r] EXCEPT !.status = "error"]
  BY DEF TypeOK
<1> QED BY <1>1 DEF OuterStates, SameEnd

\* On the way there is nothing to tell.
LEMMA ToldOnTheWay ==
  ASSUME NEW r \in Runs, RunTold(r), SameEnd(r), pc[r] # "ended",
         pc'[r] \notin {"route", "post_process", "ended"},
         \/ outer[r].fulfillment_instruction = Absent
         \/ InnerInput(r)' = InnerInput(r) /\ feedback'[r] = feedback[r]
  PROVE  RunTold(r)'
<1>1. outer'[r].fulfillment_status = Absent
  BY DEF RunTold, StatusSays, SameEnd
<1>2. StatusSays(r)'
  BY <1>1, TerminalAssumption DEF StatusSays, Terminal
<1>3. AsComputed(r)'
  BY DEF RunTold, AsComputed, SameEnd, Ships, Decision, RouteDue, Stocks
<1>4. RejectionMerged(r)'
  BY DEF RunTold, RejectionMerged, SameEnd, RejectedBy
<1> QED BY <1>2, <1>3, <1>4 DEF RunTold

LEMMA InnerTold ==
  ASSUME Inv, NEW r \in Runs, RunTold(r),
         \/ TestCache(r) \/ BuildSubgraph(r) \/ StartInner(r) \/ ResumeInner(r)
         \/ InventoryCheck(r) \/ FulfillmentPolicy(r) \/ RouteSelect(r) \/ Gate(r)
         \/ FulfillmentInstruct(r) \/ Submit(r) \/ Resume(r)
  PROVE  RunTold(r)'
<1>1. UNCHANGED <<outer, dispatched>>
  BY DEF TestCache, BuildSubgraph, StartInner, ResumeInner, InventoryCheck, FulfillmentPolicy,
         RouteSelect, FulfillmentInstruct, Submit, Resume, Gate, GateSkipped, GateDeferred,
         GateInterrupts, GateReviewed, GateReturns, innerFrame
<1>2. /\ pc[r] \notin {"route", "post_process", "ended", "lost"}
      /\ pc'[r] \notin {"route", "post_process", "ended"}
  BY DEF Inv, TypeOK, TestCache, BuildSubgraph, StartInner, ResumeInner, InventoryCheck,
         FulfillmentPolicy, RouteSelect, FulfillmentInstruct, Submit, Resume, Gate, GateSkipped,
         GateDeferred, GateInterrupts, GateReviewed, GateReturns, MayRun, Goto
<1>3. outer[r].fulfillment_instruction = Absent
  BY <1>2 DEF Inv, RunsInv, RunInv, NoneBeforeMerge
<1> QED BY <1>1, <1>2, <1>3, ToldOnTheWay DEF SameEnd

LEMMA IngestedTold ==
  ASSUME Inv, NEW r \in Runs, RunTold(r), OrderIngest(r) \/ Retry(r)
  PROVE  RunTold(r)'
<1>1. /\ dispatched' = dispatched /\ outer[r] \in OuterStates
      /\ pc[r] # "ended" /\ pc'[r] \in {"main", "pre_process"}
  BY DEF Inv, TypeOK, OrderIngest, Retry, MayRun, Goto
<1>2. outer[r].fulfillment_instruction = Absent
  BY DEF OrderIngest, MayRun, Retry, Inv, RunsInv, RunInv, NoneBeforeMerge, NoneOnError
<1>3. SameEnd(r)
  <2>1. CASE Retry(r)
    BY <2>1 DEF Retry, SameEnd
  <2>2. CASE OrderIngest(r)
    <3> PICK payload \in request[r].message.readings :
          IF Unusable(payload) THEN Guide(r) ELSE Ingest(r, payload)
      BY <2>2 DEF OrderIngest
    <3>1. CASE Guide(r)
      BY <1>1, <3>1 DEF Guide, Inv, TypeOK, OuterStates, SameEnd
    <3>2. CASE Ingest(r, payload)
      BY <1>1, <3>2 DEF Ingest, Inv, TypeOK, OuterStates, SameEnd
    <3> QED BY <3>1, <3>2
  <2> QED BY <2>1, <2>2
<1> QED BY <1>1, <1>2, <1>3, ToldOnTheWay

\* A failed node says nothing, and a run it failed in is not said to be well.
LEMMA FailedTold ==
  ASSUME Inv, NEW r \in Runs, RunTold(r), NEW node \in Nodes, FailNode(r, node)
  PROVE  RunTold(r)'
<1>1. /\ pc[r] = node /\ pc[r] # "ended" /\ pc'[r] = NextNode[node]
      /\ UNCHANGED <<feedback, request, dispatched>>
      /\ faulted'[r] # {}
      /\ outer' = outer \/ outer' = [outer EXCEPT ![r].status = "error"]
  BY DEF Inv, TypeOK, FailNode, Goto, Nodes, OuterNodes, InnerNodes
<1>2. SameEnd(r)
  BY <1>1, ErrorKeepsEnd DEF SameEnd, Inv
<1>3. InnerInput(r)' = InnerInput(r)
  <2>1. outer'[r].validated_input = outer[r].validated_input
    BY <1>1, ErrorKeepsEnd DEF Inv
  <2> QED BY <1>1, <2>1 DEF InnerInput
<1>4. CASE pc'[r] \notin {"route", "post_process", "ended"}
  BY <1>1, <1>2, <1>3, <1>4, ToldOnTheWay
<1>5. CASE pc'[r] \in {"route", "post_process", "ended"}
  <2>1. AsComputed(r)'
    BY <1>2, <1>3 DEF RunTold, AsComputed, SameEnd, Ships, Decision, RouteDue, Stocks
  <2>2. RejectionMerged(r)'
    BY <1>1, <1>2 DEF RunTold, RejectionMerged, SameEnd, RejectedBy
  <2>3. StatusSays(r)'
    BY <1>1, <1>2, TerminalAssumption DEF RunTold, StatusSays, SameEnd, Terminal
  <2> QED BY <2>1, <2>2, <2>3 DEF RunTold
<1> QED BY <1>4, <1>5

LEMMA RoutedTold ==
  ASSUME Inv, NEW r \in Runs, RunWork(r), RunTold(r),
         SkipSubgraph(r) \/ PropagateError(r) \/ Proceeds(r)
  PROVE  RunTold(r)'
<1>1. /\ UNCHANGED <<feedback, request, dispatched>>
      /\ outer' = outer \/ outer' = [outer EXCEPT ![r].status = "error"]
      /\ pc[r] # "ended"
  BY DEF Inv, TypeOK, SkipSubgraph, PropagateError, Proceeds, MayRun
<1>2. SameEnd(r)
  BY <1>1, ErrorKeepsEnd DEF SameEnd, Inv
<1>3. InnerInput(r)' = InnerInput(r)
  <2>1. outer'[r].validated_input = outer[r].validated_input
    BY <1>1, ErrorKeepsEnd DEF Inv
  <2> QED BY <1>1, <2>1 DEF InnerInput
<1>4. AsComputed(r)'
  BY <1>2, <1>3 DEF RunTold, AsComputed, SameEnd, Ships, Decision, RouteDue, Stocks
<1>5. CASE SkipSubgraph(r)
  <2>1. pc'[r] = "route" /\ ~ RejectedBy(r)
    BY <1>5 DEF Inv, TypeOK, SkipSubgraph, Goto, RunWork, Questioned, RejectedBy, Resuming
  <2>2. RejectionMerged(r)'
    BY <1>1, <1>2, <2>1 DEF RunTold, RejectionMerged, SameEnd, RejectedBy
  <2>3. StatusSays(r)'
    BY <1>1, <1>2, <2>1, TerminalAssumption DEF RunTold, StatusSays, SameEnd, Terminal
  <2> QED BY <1>4, <2>2, <2>3 DEF RunTold
<1>6. CASE PropagateError(r)
  <2>1. pc'[r] = "route" /\ faulted'[r] # {}
    BY <1>6 DEF Inv, TypeOK, PropagateError, Goto
  <2>2. RejectionMerged(r)'
    BY <1>1, <1>2, <2>1 DEF RunTold, RejectionMerged, SameEnd, RejectedBy
  <2>3. StatusSays(r)'
    BY <1>1, <1>2, <2>1, TerminalAssumption DEF RunTold, StatusSays, SameEnd, Terminal
  <2> QED BY <1>4, <2>2, <2>3 DEF RunTold
<1>7. CASE Proceeds(r)
  <2>1. /\ pc[r] = "route" /\ faulted' = faulted
        /\ pc'[r] \in {"post_process", "ended"}
        /\ pc'[r] = "ended" => outer[r].status = "error"
    BY <1>7 DEF Inv, TypeOK, Proceeds, Goto
  <2>2. pc'[r] = "ended" => faulted[r] # {} \/ ~ RejectedBy(r)
    BY <2>1 DEF Inv, RunsInv, RunInv, NoneOnError, RunTold, RejectionMerged
  <2>3. RejectionMerged(r)'
    BY <1>1, <1>2, <2>1 DEF RunTold, RejectionMerged, SameEnd, RejectedBy, Ships
  <2>4. StatusSays(r)'
    BY <1>1, <1>2, <2>1, <2>2, TerminalAssumption
       DEF RunTold, StatusSays, SameEnd, Terminal, RejectedBy
  <2> QED BY <1>4, <2>3, <2>4 DEF RunTold
<1> QED BY <1>5, <1>6, <1>7

LEMMA MergedTold ==
  ASSUME Inv, NEW r \in Runs, RunWork(r), RunEval(r), RunTold(r), MergeOutput(r)
  PROVE  RunTold(r)'
<1>1. /\ UNCHANGED <<inner, feedback, request, faulted, dispatched>>
      /\ outer[r] \in OuterStates
      /\ pc[r] = "merge" /\ pc'[r] = "route"
  BY DEF Inv, TypeOK, MergeOutput, Goto
<1>2. /\ outer'[r].fulfillment_instruction = inner[r].fulfillment_instruction
      /\ outer'[r].policy_decision = inner[r].policy_decision
      /\ outer'[r].selected_route = inner[r].selected_route
      /\ outer'[r].hitl_review_outcome = Get(inner[r].hitl_review_outcome, Null)
      /\ outer'[r].fulfillment_status = outer[r].fulfillment_status
      /\ outer'[r].validated_input = outer[r].validated_input
  BY <1>1 DEF MergeOutput, Inv, TypeOK, OuterStates
<1>3. InnerInput(r)' = InnerInput(r)
  BY <1>1, <1>2 DEF InnerInput
<1>4. AsComputed(r)'
  <2>1. Ships(inner[r].fulfillment_instruction) =>
          inner[r].selected_route # Absent /\ inner[r].policy_decision # Absent
    BY DEF RunEval, Chain, Fulfillable
  <2> QED BY <1>1, <1>2, <1>3, <2>1
          DEF RunWork, OnInput, Computing, AsComputed, Ships, Decision, RouteDue, Stocks
<1>5. Get(inner[r].hitl_review_outcome, Null) = "rejected" <=>
        inner[r].hitl_review_outcome = "rejected"
  <2>1. Null # "rejected" /\ Absent # "rejected"
    BY TerminalAssumption, WorkflowAssumption DEF Outcomes
  <2> QED BY <2>1 DEF Get
<1>6. RejectionMerged(r)'
  BY <1>1, <1>2, <1>5 DEF RunWork, Verdict, RejectionMerged, RejectedBy, Ships
<1>7. StatusSays(r)'
  BY <1>1, <1>2, TerminalAssumption DEF RunTold, StatusSays, Terminal
<1> QED BY <1>4, <1>6, <1>7 DEF RunTold

LEMMA NotifiedTold ==
  ASSUME Inv, NEW r \in Runs, RunTold(r), NotifySkipped(r) \/ Notify(r) \/ NotifyRefused(r)
  PROVE  RunTold(r)'
<1>1. /\ UNCHANGED <<feedback, request>>
      /\ outer[r] \in OuterStates
      /\ pc[r] = "post_process" /\ pc'[r] = "ended" /\ dispatched[r] = 0
  BY DEF Inv, TypeOK, NotifySkipped, Notify, NotifyRefused, MayRun, Goto, RunsInv, RunInv, ToldLast
<1>2. /\ outer'[r].fulfillment_instruction = outer[r].fulfillment_instruction
      /\ outer'[r].policy_decision = outer[r].policy_decision
      /\ outer'[r].selected_route = outer[r].selected_route
      /\ outer'[r].hitl_review_outcome = outer[r].hitl_review_outcome
      /\ outer'[r].validated_input = outer[r].validated_input
  <2>1. CASE NotifySkipped(r)
    BY <1>1, <2>1 DEF NotifySkipped, Inv, TypeOK, OuterStates
  <2>2. CASE Notify(r)
    BY <1>1, <2>2 DEF Notify, Inv, TypeOK, OuterStates
  <2>3. CASE NotifyRefused(r)
    <3>1. outer'[r] = [outer[r] EXCEPT !.status = "error"]
      BY <2>3 DEF NotifyRefused, Inv, TypeOK
    <3> QED BY <1>1, <3>1 DEF OuterStates
  <2> QED BY <2>1, <2>2, <2>3
<1>3. AsComputed(r)'
  BY <1>1, <1>2 DEF RunTold, AsComputed, Ships, Decision, RouteDue, Stocks, InnerInput
<1>4. RejectionMerged(r)'
  BY <1>1, <1>2 DEF RunTold, RejectionMerged, RejectedBy
<1>5. CASE NotifySkipped(r)
  <2>1. /\ outer'[r].fulfillment_status = "FAILED" /\ faulted' = faulted
        /\ outer[r].fulfillment_instruction = Absent
    BY <1>1, <1>5 DEF NotifySkipped, Inv, TypeOK, OuterStates
  <2>2. StatusSays(r)'
    BY <1>1, <2>1 DEF StatusSays, RunTold, RejectionMerged, RejectedBy
  <2> QED BY <1>3, <1>4, <2>2 DEF RunTold
<1>6. CASE Notify(r)
  <2>1. /\ outer'[r].fulfillment_status =
             FinalStatus(outer[r].fulfillment_instruction, outer[r].hitl_review_outcome = "rejected")
        /\ faulted' = faulted /\ dispatched'[r] = 1
        /\ outer[r].fulfillment_instruction # Absent
    BY <1>1, <1>6 DEF Notify, Inv, TypeOK, OuterStates
  <2>2. StatusSays(r)'
    BY <1>1, <1>2, <2>1 DEF FinalStatus, StatusSays, RunTold, RejectionMerged, RejectedBy, Ships
  <2> QED BY <1>3, <1>4, <2>2 DEF RunTold
<1>7. CASE NotifyRefused(r)
  <2>1. /\ outer'[r].fulfillment_status = Absent /\ faulted'[r] # {}
    <3>1. outer'[r] = [outer[r] EXCEPT !.status = "error"] /\ faulted'[r] # {}
      BY <1>7 DEF NotifyRefused, Inv, TypeOK
    <3> QED BY <1>1, <3>1 DEF OuterStates, RunTold, StatusSays
  <2>2. StatusSays(r)'
    BY <1>1, <2>1, TerminalAssumption DEF StatusSays, Terminal
  <2> QED BY <1>3, <1>4, <2>2 DEF RunTold
<1> QED BY <1>5, <1>6, <1>7

-----------------------------------------------------------------------------
(* Every step of every run.                                                *)

\* A step of another run leaves all this as it is.
LEMMA KeptOutcome ==
  ASSUME NEW r \in Runs, RunWork(r), RunTold(r), Unmoved(r)
  PROVE  RunWork(r)' /\ RunTold(r)'
<1>1. InnerInput(r)' = InnerInput(r)
  BY DEF Unmoved, InnerInput
<1>2. Resuming(r)' = Resuming(r) /\ AtWork(r)' = AtWork(r)
  BY DEF Unmoved, Resuming, AtWork
<1>3. Computing(r)' = Computing(r) /\ PastPolicy(r)' = PastPolicy(r)
  BY <1>2 DEF Unmoved, Computing, PastPolicy
<1>4. OnInput(r)' /\ Left(r)'
  BY <1>1, <1>3 DEF RunWork, OnInput, Left, Decision, RouteDue, Stocks, Ships, Unmoved
<1>5. Verdict(r)'
  BY <1>2 DEF RunWork, Verdict, RejectedBy, Ships, Unmoved
<1>6. Questioned(r)'
  BY <1>1, <1>2 DEF RunWork, Questioned, Decision, RouteDue, Stocks, Unmoved
<1>7. AsComputed(r)'
  BY <1>1 DEF RunTold, AsComputed, Decision, RouteDue, Stocks, Ships, Unmoved
<1>8. RejectionMerged(r)' /\ StatusSays(r)'
  BY DEF RunTold, RejectionMerged, StatusSays, RejectedBy, Ships, Unmoved
<1> QED BY <1>4, <1>5, <1>6, <1>7, <1>8 DEF RunWork, RunTold

\* A restart loses a run, and says nothing of it.
LEMMA LostOutcome ==
  ASSUME Inv, NEW r \in Runs, RunWork(r), RunTold(r), Crash
  PROVE  RunWork(r)' /\ RunTold(r)'
<1>1. /\ UNCHANGED <<inner, outer, request, feedback, shown, faulted, dispatched>>
      /\ pc'[r] = pc[r] \/ (pc[r] \notin {"idle", "ended"} /\ pc'[r] = "lost")
  BY DEF Crash
<1>2. CASE pc'[r] = pc[r]
  BY <1>1, <1>2, KeptOutcome DEF Unmoved
<1>3. CASE pc[r] \notin {"idle", "ended"} /\ pc'[r] = "lost"
  <2>1. InnerInput(r)' = InnerInput(r) /\ Resuming(r)' = Resuming(r)
    BY <1>1 DEF InnerInput, Resuming
  <2>2. Questioned(r)'
    BY <1>1, <1>3, <2>1, QuestionStands DEF RunWork
  <2>3. ~ AtWork(r)' /\ ~ Computing(r)' /\ ~ PastPolicy(r)'
    BY <1>3 DEF AtWork, Computing, PastPolicy, InnerNodes
  <2>4. RunWork(r)'
    BY <1>1, <1>3, <2>1, <2>2, <2>3, OutsideWork
  <2>5. RunTold(r)'
    BY <1>1, <1>3, <2>1, ToldOnTheWay DEF SameEnd
  <2> QED BY <2>4, <2>5
<1> QED BY <1>1, <1>2, <1>3

LEMMA OutcomeInit == Init => OutcomeInv
<1> SUFFICES ASSUME Init, NEW r \in Runs PROVE RunWork(r) /\ RunTold(r)
  BY DEF OutcomeInv
<1>1. /\ pc[r] = "idle" /\ outer[r] = NewOuter /\ feedback[r] = NoAnswer /\ shown[r] = Absent
  BY DEF Init
<1>2. RunWork(r)
  BY <1>1 DEF RunWork, OnInput, Left, Verdict, Questioned, Computing, AtWork, PastPolicy,
              Resuming, InnerNodes
<1>3. /\ outer[r].fulfillment_instruction = Absent /\ outer[r].fulfillment_status = Absent
  BY <1>1 DEF NewOuter
<1>4. RunTold(r)
  BY <1>1, <1>3, TerminalAssumption
     DEF RunTold, AsComputed, RejectionMerged, StatusSays, Ships, Terminal
<1> QED BY <1>2, <1>4

LEMMA OutcomeStep == Inv /\ EvalInv /\ OutcomeInv /\ [Next]_vars => OutcomeInv'
<1> SUFFICES ASSUME Inv, EvalInv, OutcomeInv, [Next]_vars, NEW q \in Runs
             PROVE  RunWork(q)' /\ RunTold(q)'
  BY DEF OutcomeInv
<1>0. RunWork(q) /\ RunTold(q) /\ RunEval(q)
  BY DEF OutcomeInv, EvalInv
<1>1. CASE UNCHANGED vars \/ AllOver
  BY <1>0, <1>1, KeptOutcome DEF AllOver, vars, Unmoved
<1>2. CASE Crash
  BY <1>0, <1>2, LostOutcome
<1>3. ASSUME NEW r \in Runs, RunStep(r) \/ Submit(r) \/ Resume(r)
      PROVE  RunWork(q)' /\ RunTold(q)'
  <2>1. CASE q # r
    BY <1>0, <1>3, <2>1, StepsAlone, KeptOutcome DEF Inv
  <2>2. CASE q = r /\ \E node \in Nodes : FailNode(r, node)
    <3> PICK node \in Nodes : FailNode(r, node)
      BY <2>2
    <3>1. RunWork(q)'
      BY <1>0, <2>2, FailedOuterWork, FailedInnerWork DEF Nodes
    <3>2. RunTold(q)'
      BY <1>0, <2>2, FailedTold
    <3> QED BY <3>1, <3>2
  <2>3. CASE q = r /\ ~ \E node \in Nodes : FailNode(r, node)
    <3>1. RunWork(q)'
      BY <1>0, <1>3, <2>3, MovedWork, SubmittedWork, IngestedWork, EndedWork, RetriedWork,
         StartedWork, NodeWork, GatedWork, InterruptedWork, InstructedWork DEF RunStep, Gate
    <3>2. RunTold(q)'
      BY <1>0, <1>3, <2>3, InnerTold, IngestedTold, RoutedTold, MergedTold, NotifiedTold
         DEF RunStep
    <3> QED BY <3>1, <3>2
  <2> QED BY <2>1, <2>2, <2>3
<1> QED BY <1>1, <1>2, <1>3 DEF Next

LEMMA Outcome == Spec => []OutcomeInv
  BY OutcomeInit, EvaluatedAlways, OutcomeStep, Invariance, PTL DEF Spec

-----------------------------------------------------------------------------
(* A calling system may branch on the terminal status: routed means that   *)
(* logistics was told to ship, escalated that a reviewer said no and       *)
(* logistics was told to hold, and where no node failed every rejection    *)
(* ends so, for any number of runs, retries and restarts                   *)
(* (notify_logistics_node.py:33-44).                                       *)
THEOREM StatusSafe == Spec => []StatusTellsTheOutcome
<1>1. OutcomeInv => StatusTellsTheOutcome
  BY DEF OutcomeInv, RunTold, StatusSays, RejectionMerged, RejectedBy, StatusTellsTheOutcome
<1> QED BY <1>1, Outcome, PTL

(* Where no inner node is refused, the decision and the source that ship   *)
(* are those of the draft the reviewer answered, also when the resumed run *)
(* lost its checkpoint and computed them again (hitl_gate_node.py:40-57,   *)
(* graph.py:62-66).                                                        *)
THEOREM ShownSafe == Spec => []ShownIsWhatShips
<1>1. OutcomeInv => ShownIsWhatShips
  BY DEF OutcomeInv, RunTold, RunWork, AsComputed, Questioned, Resuming, ShownIsWhatShips,
         InnerNodes
<1> QED BY <1>1, Outcome, PTL
=============================================================================
