--------------------------- MODULE RefinementProofs ---------------------------
(***************************************************************************)
(* The workflow implements OrderLifecycle: the proof that its initial      *)
(* states map to initial states, and every step to a step or a stutter.    *)
(* The one hard step is the dispatch of a ship instruction: it must find   *)
(* the review that was asked answered, and accepted.                       *)
(***************************************************************************)
EXTENDS OutcomeProofs, FulfillmentRefinement

\* What the life cycle sees of a run does not change.
Same(r) ==
  /\ PhaseOf(r)' = PhaseOf(r) /\ (shown'[r] # Absent) = (shown[r] # Absent)
  /\ VerdictOf(r)' = VerdictOf(r) /\ ToldOf(r)' = ToldOf(r)
  /\ outer'[r].fulfillment_status = outer[r].fulfillment_status

\* What an order that ships shows of its review.
ShipsCleared(r) ==
  Ships(outer[r].fulfillment_instruction) => Lifecycle!Cleared(r)

LEMMA ClearedWhenShipped ==
  ASSUME Inv, NEW r \in Runs, RunEval(r), RunWork(r), RunTold(r), "hitl_gate" \notin Refusable
  PROVE  ShipsCleared(r)
<1> SUFFICES ASSUME Ships(outer[r].fulfillment_instruction) PROVE Lifecycle!Cleared(r)
  BY DEF ShipsCleared
<1>1. outer[r].policy_decision = Decision(r) /\ outer[r].policy_decision # Absent
  BY DEF RunTold, AsComputed, RunEval, Evaluated
<1>2. feedback[r] # NoAnswer \/ shown[r] # Absent => ReviewDue(r, outer[r].policy_decision)
  BY <1>1 DEF RunWork, Questioned, Resuming, ReviewDue, Asks
<1>3. feedback[r] # NoAnswer \/ shown[r] # Absent => Accepted(r)
  BY <1>2 DEF Inv, RunsInv, RunInv, Reviewed
<1> QED BY <1>3 DEF Accepted, Lifecycle!Cleared, VerdictOf

-----------------------------------------------------------------------------
(* One lemma for each kind of step.                                        *)

\* The steps that change one run map to a change of that run alone.
LEMMA OthersSame ==
  ASSUME TypeOK, NEW r \in Runs, RunStep(r) \/ Submit(r) \/ Resume(r)
  PROVE  \A s \in Runs \ {r} : Same(s)
<1> SUFFICES ASSUME NEW s \in Runs \ {r} PROVE Same(s)
  OBVIOUS
<1>1. Unmoved(s)
  BY StepsAlone
<1> QED BY <1>1 DEF Unmoved, Same, PhaseOf, VerdictOf, ToldOf

LEMMA Stutters ==
  ASSUME \A r \in Runs : Same(r)
  PROVE  UNCHANGED Lifecycle!vars
BY DEF Same, Lifecycle!vars

\* A step of one run is a step of the life cycle, or none.
LEMMA RunMaps ==
  ASSUME NEW r \in Runs, \A s \in Runs \ {r} : Same(s),
         \/ Same(r)
         \/ Lifecycle!Receive(r) \/ Lifecycle!AskReview(r) \/ Lifecycle!Answer(r)
         \/ Lifecycle!StartOver(r) \/ Lifecycle!RouteOrder(r) \/ Lifecycle!Escalate(r)
         \/ Lifecycle!Fail(r) \/ Lifecycle!Abandon(r)
  PROVE  [Lifecycle!Next]_Lifecycle!vars
<1>1. CASE Same(r)
  BY <1>1, Stutters
<1> QED BY <1>1 DEF Lifecycle!Next

LEMMA ReceiveMaps ==
  ASSUME Inv, NEW r \in Runs, Submit(r), \A s \in Runs \ {r} : Same(s)
  PROVE  Lifecycle!Receive(r)
<1>1. /\ UNCHANGED <<outer, feedback, shown, dispatched>>
      /\ pc[r] = "idle" /\ pc'[r] = "pre_process"
  BY DEF Inv, TypeOK, Submit, Goto
<1> QED BY <1>1 DEF Lifecycle!Receive, Lifecycle!Move, Same, PhaseOf, VerdictOf, ToldOf

LEMMA AskMaps ==
  ASSUME Inv, NEW r \in Runs, GateInterrupts(r), \A s \in Runs \ {r} : Same(s)
  PROVE  Lifecycle!AskReview(r)
<1>1. /\ UNCHANGED <<outer, feedback, dispatched>>
      /\ pc[r] = "hitl_gate" /\ pc'[r] = "awaiting"
      /\ feedback[r] = NoAnswer /\ shown'[r] = Draft(r)
  BY DEF Inv, TypeOK, GateInterrupts, innerFrame, MayRun, Goto
<1>2. shown'[r] # Absent
  <2>1. inner[r] \in InnerStates /\ inner[r].policy_decision # Absent
    BY DEF Inv, TypeOK, GateInterrupts, RequiresReview
  <2>2. Draft(r) \in Drafts
    BY <2>1 DEF Draft, Drafts, InnerStates, Optional
  <2> QED BY <1>1, <2>2, ComputedAssumption
<1> QED BY <1>1, <1>2 DEF Lifecycle!AskReview, Lifecycle!Move, Same, PhaseOf, VerdictOf, ToldOf

LEMMA AnswerMaps ==
  ASSUME Inv, NEW r \in Runs, Resume(r), \A s \in Runs \ {r} : Same(s)
  PROVE  Lifecycle!Answer(r)
<1>1. /\ UNCHANGED <<outer, shown, dispatched>>
      /\ pc[r] = "awaiting" /\ pc'[r] = "main" /\ feedback'[r] \in Feedbacks
  BY DEF Inv, TypeOK, Resume, Goto
<1>2. feedback'[r] # NoAnswer
  BY <1>1, WorkflowAssumption DEF Feedbacks
<1>3. VerdictOf(r)' \in {"accepted", "rejected"}
  BY <1>2 DEF VerdictOf
<1> QED BY <1>1, <1>3 DEF Lifecycle!Answer, Lifecycle!Move, Same, PhaseOf, VerdictOf, ToldOf

\* The restart of the inner graph may drop the answer, the backbone's the question too.
LEMMA StartOverMaps ==
  ASSUME Inv, NEW r \in Runs, StartInner(r) \/ Retry(r), \A s \in Runs \ {r} : Same(s)
  PROVE  Same(r) \/ Lifecycle!StartOver(r)
<1>1. /\ UNCHANGED <<outer, dispatched>>
      /\ PhaseOf(r) = "open" /\ PhaseOf(r)' = "open"
      /\ feedback'[r] \in {feedback[r], NoAnswer}
      /\ shown'[r] = shown[r] \/ shown'[r] = Absent
      /\ feedback'[r] # NoAnswer => shown'[r] = shown[r]
  BY DEF Inv, TypeOK, StartInner, Retry, Goto, PhaseOf
<1>2. CASE feedback'[r] = NoAnswer
  BY <1>1, <1>2 DEF Lifecycle!StartOver, Same, PhaseOf, VerdictOf, ToldOf
<1>3. CASE feedback'[r] # NoAnswer
  BY <1>1, <1>3 DEF Same, VerdictOf, ToldOf
<1> QED BY <1>2, <1>3

\* The work between leaves all of it alone.
LEMMA WorkMaps ==
  ASSUME Inv, NEW r \in Runs,
         \/ OrderIngest(r) \/ SkipSubgraph(r) \/ TestCache(r) \/ BuildSubgraph(r)
         \/ ResumeInner(r) \/ InventoryCheck(r) \/ FulfillmentPolicy(r) \/ RouteSelect(r)
         \/ GateSkipped(r) \/ GateDeferred(r) \/ GateReviewed(r) \/ FulfillmentInstruct(r)
         \/ MergeOutput(r) \/ PropagateError(r)
  PROVE  Same(r)
<1>1. UNCHANGED <<feedback, shown, dispatched>>
  BY DEF OrderIngest, SkipSubgraph, TestCache, BuildSubgraph, ResumeInner, InventoryCheck,
         FulfillmentPolicy, RouteSelect, GateSkipped, GateDeferred, GateReviewed, GateReturns,
         FulfillmentInstruct, MergeOutput, PropagateError, innerFrame
<1>2. PhaseOf(r) = "open" /\ PhaseOf(r)' = "open"
  BY DEF Inv, TypeOK, OrderIngest, SkipSubgraph, TestCache, BuildSubgraph, ResumeInner,
         InventoryCheck, FulfillmentPolicy, RouteSelect, GateSkipped, GateDeferred, GateReviewed,
         GateReturns, FulfillmentInstruct, MergeOutput, PropagateError, MayRun, Goto, PhaseOf
<1>3. dispatched[r] = 0
  BY <1>2 DEF PhaseOf, Inv, RunsInv, RunInv, ToldLast
<1>4. outer'[r].fulfillment_status = outer[r].fulfillment_status
  <2>1. CASE OrderIngest(r)
    <3> PICK payload \in request[r].message.readings :
          IF Unusable(payload) THEN Guide(r) ELSE Ingest(r, payload)
      BY <2>1 DEF OrderIngest
    <3>1. CASE Guide(r)
      BY <3>1 DEF Guide, Inv, TypeOK, OuterStates
    <3>2. CASE Ingest(r, payload)
      BY <3>2 DEF Ingest, Inv, TypeOK, OuterStates
    <3> QED BY <3>1, <3>2
  <2>2. CASE MergeOutput(r)
    BY <2>2 DEF MergeOutput, Inv, TypeOK, OuterStates
  <2>3. CASE PropagateError(r)
    BY <1>1, <2>3, ErrorKeepsEnd DEF PropagateError, Inv, SameEnd
  <2>4. CASE ~ (OrderIngest(r) \/ MergeOutput(r) \/ PropagateError(r))
    BY <2>4 DEF SkipSubgraph, TestCache, BuildSubgraph, ResumeInner, InventoryCheck,
                FulfillmentPolicy, RouteSelect, GateSkipped, GateDeferred, GateReviewed,
                GateReturns, FulfillmentInstruct, innerFrame
  <2> QED BY <2>1, <2>2, <2>3, <2>4
<1> QED BY <1>1, <1>2, <1>3, <1>4 DEF Same, VerdictOf, ToldOf

-----------------------------------------------------------------------------
(* How a run ends.                                                         *)

\* A run that ends with nothing told and no status is abandoned.
LEMMA SilentEnd ==
  ASSUME Inv, NEW r \in Runs, \A s \in Runs \ {r} : Same(s),
         pc[r] \notin {"idle", "awaiting", "ended", "lost"},
         pc'[r] \notin {"idle", "awaiting", "lost"},
         UNCHANGED <<feedback, shown, dispatched>>,
         outer'[r].fulfillment_status = outer[r].fulfillment_status
  PROVE  Same(r) \/ Lifecycle!Abandon(r)
<1>1. dispatched[r] = 0
  BY DEF Inv, RunsInv, RunInv, ToldLast
<1>2. CASE pc'[r] = "ended"
  BY <1>1, <1>2 DEF Lifecycle!Abandon, Lifecycle!Move, Same, PhaseOf, VerdictOf, ToldOf
<1>3. CASE pc'[r] # "ended"
  BY <1>1, <1>3 DEF Same, PhaseOf, VerdictOf, ToldOf
<1> QED BY <1>2, <1>3

LEMMA FailMaps ==
  ASSUME Inv, NEW r \in Runs, \A s \in Runs \ {r} : Same(s),
         Proceeds(r) \/ \E node \in Nodes : FailNode(r, node)
  PROVE  Same(r) \/ Lifecycle!Abandon(r)
<1>1. CASE Proceeds(r)
  <2>1. /\ UNCHANGED <<outer, feedback, shown, dispatched>>
        /\ pc[r] = "route" /\ pc'[r] \in {"post_process", "ended"}
    BY <1>1 DEF Inv, TypeOK, Proceeds, Goto
  <2> QED BY <2>1, SilentEnd
<1>2. ASSUME NEW node \in Nodes, FailNode(r, node) PROVE Same(r) \/ Lifecycle!Abandon(r)
  <2>1. /\ UNCHANGED <<feedback, shown, dispatched>>
        /\ outer' = outer \/ outer' = [outer EXCEPT ![r].status = "error"]
        /\ pc[r] = node /\ pc'[r] = NextNode[node]
    BY <1>2 DEF Inv, TypeOK, FailNode, Goto
  <2>2. outer'[r].fulfillment_status = outer[r].fulfillment_status
    BY <2>1, ErrorKeepsEnd DEF Inv, SameEnd
  <2>3. /\ pc[r] \notin {"idle", "awaiting", "ended", "lost"}
        /\ pc'[r] \notin {"idle", "awaiting", "lost"}
    BY <2>1 DEF NextNode, Nodes, OuterNodes, InnerNodes
  <2> QED BY <2>1, <2>2, <2>3, SilentEnd
<1> QED BY <1>1, <1>2

LEMMA SkippedMaps ==
  ASSUME Inv, NEW r \in Runs, NotifySkipped(r), \A s \in Runs \ {r} : Same(s)
  PROVE  Lifecycle!Fail(r)
<1>1. /\ UNCHANGED <<feedback, shown, dispatched>>
      /\ pc[r] = "post_process" /\ pc'[r] = "ended" /\ dispatched[r] = 0
  BY DEF Inv, TypeOK, NotifySkipped, MayRun, Goto, RunsInv, RunInv, ToldLast
<1>2. outer'[r].fulfillment_status = "FAILED"
  BY DEF NotifySkipped, Inv, TypeOK, OuterStates
<1> QED BY <1>1, <1>2
        DEF Lifecycle!Fail, Lifecycle!Move, Lifecycle!End, Same, PhaseOf, VerdictOf, ToldOf

\* What the logistics system is told of a run is the instruction's action.
LEMMA Tells ==
  ASSUME Inv, NEW r \in Runs, Notify(r) \/ NotifyRefused(r)
  PROVE  /\ UNCHANGED <<feedback, shown>>
         /\ pc[r] = "post_process" /\ pc'[r] = "ended"
         /\ ToldOf(r)' = outer[r].fulfillment_instruction.action
         /\ outer[r].fulfillment_instruction.action =
              IF Ships(outer[r].fulfillment_instruction) THEN "ship" ELSE "hold"
<1>1. /\ UNCHANGED <<feedback, shown>>
      /\ pc[r] = "post_process" /\ pc'[r] = "ended" /\ dispatched'[r] = 1
      /\ outer[r] \in OuterStates /\ outer[r].fulfillment_instruction # Absent
  BY DEF Inv, TypeOK, Notify, NotifyRefused, MayRun, Goto, RunsInv, RunInv, ToldLast
<1>2. outer'[r].fulfillment_instruction = outer[r].fulfillment_instruction
  <2>1. CASE Notify(r)
    BY <1>1, <2>1 DEF Notify, Inv, TypeOK, OuterStates
  <2>2. CASE NotifyRefused(r)
    <3>1. outer'[r] = [outer[r] EXCEPT !.status = "error"]
      BY <2>2 DEF NotifyRefused, Inv, TypeOK
    <3> QED BY <1>1, <3>1 DEF OuterStates
  <2> QED BY <2>1, <2>2
<1>3. outer[r].fulfillment_instruction \in Instructions
  BY <1>1 DEF OuterStates, Optional
<1>4. outer[r].fulfillment_instruction.action \in {"ship", "hold"}
  BY <1>3 DEF Instructions, BuildFulfillmentInstruction
<1> QED BY <1>1, <1>2, <1>4 DEF ToldOf, Ships

LEMMA NotifyMaps ==
  ASSUME Inv, NEW r \in Runs, Notify(r), RunTold(r), ShipsCleared(r),
         \A s \in Runs \ {r} : Same(s)
  PROVE  Lifecycle!RouteOrder(r) \/ Lifecycle!Escalate(r) \/ Lifecycle!Fail(r)
<1> DEFINE instruction == outer[r].fulfillment_instruction
           escalated == outer[r].hitl_review_outcome = "rejected"
<1>1. /\ outer'[r].fulfillment_status = FinalStatus(instruction, escalated)
      /\ instruction # Absent
  BY DEF Notify, Inv, TypeOK, OuterStates
<1>2. escalated => VerdictOf(r) = "rejected"
  BY <1>1 DEF RunTold, RejectionMerged, RejectedBy, VerdictOf
<1>3. /\ UNCHANGED <<feedback, shown>>
      /\ pc[r] = "post_process" /\ pc'[r] = "ended"
      /\ ToldOf(r)' = IF Ships(instruction) THEN "ship" ELSE "hold"
      /\ instruction.action = IF Ships(instruction) THEN "ship" ELSE "hold"
  BY Tells
<1> HIDE DEF instruction, escalated
<1>4. CASE Ships(instruction)
  <2>1. Lifecycle!Cleared(r)
    BY <1>4 DEF ShipsCleared, instruction
  <2>2. outer'[r].fulfillment_status = "ORDER_ROUTED"
    BY <1>1, <1>3, <1>4 DEF FinalStatus
  <2> QED BY <1>3, <1>4, <2>1, <2>2
          DEF Lifecycle!RouteOrder, Lifecycle!Move, Lifecycle!Tell, Lifecycle!End, Same,
              PhaseOf, VerdictOf
<1>5. CASE ~ Ships(instruction) /\ escalated
  <2>1. outer'[r].fulfillment_status = "HITL_ESCALATION"
    BY <1>1, <1>3, <1>5 DEF FinalStatus
  <2> QED BY <1>2, <1>3, <1>5, <2>1
          DEF Lifecycle!Escalate, Lifecycle!Move, Lifecycle!Tell, Lifecycle!End, Same,
              PhaseOf, VerdictOf
<1>6. CASE ~ Ships(instruction) /\ ~ escalated
  <2>1. outer'[r].fulfillment_status = "FAILED"
    BY <1>1, <1>3, <1>6 DEF FinalStatus
  <2> QED BY <1>3, <1>6, <2>1
          DEF Lifecycle!Fail, Lifecycle!Move, Lifecycle!Tell, Lifecycle!End, Same,
              PhaseOf, VerdictOf
<1> QED BY <1>4, <1>5, <1>6

LEMMA NotifyRefusedMaps ==
  ASSUME Inv, NEW r \in Runs, NotifyRefused(r), ShipsCleared(r), \A s \in Runs \ {r} : Same(s)
  PROVE  Lifecycle!Abandon(r)
<1>1. outer'[r].fulfillment_status = outer[r].fulfillment_status
  <2>1. outer'[r] = [outer[r] EXCEPT !.status = "error"] /\ outer[r] \in OuterStates
    BY DEF NotifyRefused, Inv, TypeOK
  <2> QED BY <2>1 DEF OuterStates
<1> DEFINE instruction == outer[r].fulfillment_instruction
<1>2. /\ UNCHANGED <<feedback, shown>>
      /\ pc[r] = "post_process" /\ pc'[r] = "ended"
      /\ ToldOf(r)' = IF Ships(instruction) THEN "ship" ELSE "hold"
  BY Tells
<1>3. Ships(instruction) => Lifecycle!Cleared(r)
  BY DEF ShipsCleared
<1> HIDE DEF instruction
<1> QED BY <1>1, <1>2, <1>3
        DEF Lifecycle!Abandon, Lifecycle!Move, Lifecycle!Tell, Same, PhaseOf, VerdictOf

LEMMA CrashMaps ==
  ASSUME TypeOK, Crash
  PROVE  Lifecycle!Lose
BY DEF TypeOK, Locations, Nodes, OuterNodes, InnerNodes, Crash, Lifecycle!Lose, PhaseOf, VerdictOf, ToldOf

-----------------------------------------------------------------------------
LEMMA StepMaps ==
  Inv /\ EvalInv /\ OutcomeInv /\ "hitl_gate" \notin Refusable /\ [Next]_vars
  => [Lifecycle!Next]_Lifecycle!vars
<1> SUFFICES ASSUME Inv, EvalInv, OutcomeInv, "hitl_gate" \notin Refusable, [Next]_vars
             PROVE  [Lifecycle!Next]_Lifecycle!vars
  OBVIOUS
<1>1. CASE UNCHANGED vars \/ AllOver
  BY <1>1, Stutters DEF AllOver, vars, Same, PhaseOf, VerdictOf, ToldOf
<1>2. CASE Crash
  BY <1>2, CrashMaps DEF Lifecycle!Next, Inv
<1>3. ASSUME NEW r \in Runs, RunStep(r) \/ Submit(r) \/ Resume(r)
      PROVE  [Lifecycle!Next]_Lifecycle!vars
  <2>1. \A s \in Runs \ {r} : Same(s)
    BY <1>3, OthersSame DEF Inv
  <2>2. RunTold(r) /\ ShipsCleared(r)
    BY ClearedWhenShipped DEF OutcomeInv, EvalInv
  <2>3. CASE Proceeds(r) \/ \E node \in Nodes : FailNode(r, node)
    BY <2>1, <2>3, FailMaps, RunMaps
  <2>4. CASE StartInner(r) \/ Retry(r)
    BY <2>1, <2>4, StartOverMaps, RunMaps
  <2>5. CASE NotifySkipped(r) \/ Notify(r) \/ NotifyRefused(r)
    BY <2>1, <2>2, <2>5, SkippedMaps, NotifyMaps, NotifyRefusedMaps, RunMaps
  <2>6. CASE Submit(r) \/ GateInterrupts(r) \/ Resume(r)
    BY <2>1, <2>6, ReceiveMaps, AskMaps, AnswerMaps, RunMaps
  <2>7. CASE \/ OrderIngest(r) \/ SkipSubgraph(r) \/ TestCache(r) \/ BuildSubgraph(r)
             \/ ResumeInner(r) \/ InventoryCheck(r) \/ FulfillmentPolicy(r) \/ RouteSelect(r)
             \/ GateSkipped(r) \/ GateDeferred(r) \/ GateReviewed(r) \/ FulfillmentInstruct(r)
             \/ MergeOutput(r) \/ PropagateError(r)
    BY <2>1, <2>7, WorkMaps, RunMaps
  <2> QED BY <1>3, <2>3, <2>4, <2>5, <2>6, <2>7 DEF RunStep, Gate
<1> QED BY <1>1, <1>2, <1>3 DEF Next

(* Where the review gate is not itself refused, every behaviour of the two *)
(* graphs is one the life cycle allows: an order whose review was asked is *)
(* never shipped on a lost, missing or negative answer, a status is final  *)
(* and logistics hears of an order once, for any number of runs, retries   *)
(* and restarts (graph.py:62-108, hitl_gate_node.py:29-68,                 *)
(* notify_logistics_node.py:23-56).                                        *)
THEOREM LifecycleImplemented ==
  ASSUME "hitl_gate" \notin Refusable
  PROVE  Spec => ImplementsLifecycle
<1>1. Init => Lifecycle!Init
  <2> SUFFICES ASSUME Init PROVE Lifecycle!Init
    OBVIOUS
  <2>1. ASSUME NEW r \in Runs
        PROVE  /\ PhaseOf(r) = "new" /\ shown[r] = Absent /\ VerdictOf(r) = "none"
               /\ outer[r].fulfillment_status = Absent /\ ToldOf(r) = Absent
    BY DEF Init, NewOuter, PhaseOf, VerdictOf, ToldOf
  <2> QED BY <2>1 DEF Lifecycle!Init
<1>2. Inv /\ EvalInv /\ OutcomeInv /\ [Next]_vars => [Lifecycle!Next]_Lifecycle!vars
  BY StepMaps
<1> QED BY <1>1, <1>2, EvaluatedAlways, Outcome, Invariance, PTL
        DEF Spec, ImplementsLifecycle, Lifecycle!Spec
=============================================================================
