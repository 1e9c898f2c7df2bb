----------------------------- MODULE ReviewProofs -----------------------------
(***************************************************************************)
(* Review, dispatch and evaluation: the proofs of ReviewedBeforeShipping   *)
(* and DispatchedOnceAndFresh from the invariant of FulfillmentInvariant,  *)
(* and, in the second part, of ShipsOnlyIfEvaluated.                       *)
(***************************************************************************)
EXTENDS FulfillmentProofs, FulfillmentInvariant

-----------------------------------------------------------------------------
(* A step of one run leaves what is said of the others as it is.           *)

LEMMA OtherRuns ==
  ASSUME NEW s \in Runs, RunInv(s),
         pc'[s] = pc[s], outer'[s] = outer[s], inner'[s] = inner[s],
         feedback'[s] = feedback[s], request'[s] = request[s], dispatched'[s] = dispatched[s]
  PROVE  RunInv(s)'
  BY DEF RunInv, NoneBeforeMerge, NoneBeforeInstruct, UnansweredAtFirst, AnsweredAtGate,
         AnsweredAtMerge, NoneOnError, Reviewed, UsableInside, Fresh, ToldLast, Accepted,
         ReviewDue, Asks, Ships, Resuming

LEMMA OneRun ==
  ASSUME NEW r \in Runs, RunsInv, RunInv(r)',
         \A s \in Runs \ {r} :
           /\ pc'[s] = pc[s] /\ outer'[s] = outer[s] /\ inner'[s] = inner[s]
           /\ feedback'[s] = feedback[s] /\ request'[s] = request[s]
           /\ dispatched'[s] = dispatched[s]
  PROVE  RunsInv'
  BY OtherRuns DEF RunsInv

\* A run that moves, its States as they are.
LEMMA MoveInv ==
  ASSUME Inv, NEW r \in Runs,
         SkipSubgraph(r) \/ TestCache(r) \/ BuildSubgraph(r) \/ ResumeInner(r) \/ Proceeds(r)
           \/ GateInterrupts(r)
  PROVE  RunsInv'
<1>1. /\ UNCHANGED <<outer, inner, feedback, request, dispatched>>
      /\ \A s \in Runs \ {r} : pc'[s] = pc[s]
  BY DEF Inv, TypeOK, Goto, SkipSubgraph, TestCache, BuildSubgraph, ResumeInner, Proceeds,
         GateInterrupts, innerFrame, shared
<1>2. \/ pc[r] = "main" /\ pc'[r] = "route" /\ outer[r].input_unusable
      \/ pc[r] = "main" /\ pc'[r] \in {"build", "call"} /\ ~ outer[r].input_unusable
      \/ pc[r] = "build" /\ pc'[r] = "call"
      \/ pc[r] = "call" /\ pc'[r] = "hitl_gate" /\ Resuming(r)
      \/ pc[r] = "route" /\ pc'[r] \in {"post_process", "ended"}
      \/ pc[r] = "hitl_gate" /\ pc'[r] = "awaiting"
  BY DEF Inv, TypeOK, Goto, MayRun, SkipSubgraph, TestCache, BuildSubgraph, ResumeInner, Proceeds,
         GateInterrupts
<1>3. RunInv(r)'
  BY <1>1, <1>2 DEF Inv, RunsInv, RunInv, NoneBeforeMerge, NoneBeforeInstruct, UnansweredAtFirst, AnsweredAtGate,
         AnsweredAtMerge, NoneOnError, Reviewed, UsableInside, Fresh, ToldLast, Accepted,
         ReviewDue, Asks, Ships, Resuming, InnerNodes
<1> QED BY <1>1, <1>3, OneRun DEF Inv

LEMMA SubmitInv ==
  ASSUME Inv, NEW r \in Runs, Submit(r) PROVE RunsInv'
<1>1. /\ UNCHANGED <<outer, inner, feedback, dispatched>>
      /\ \A s \in Runs \ {r} : pc'[s] = pc[s] /\ request'[s] = request[s]
      /\ pc[r] = "idle" /\ pc'[r] = "pre_process"
  BY DEF Inv, TypeOK, Goto, Submit, shared
<1>2. RunInv(r)'
  BY <1>1 DEF Inv, RunsInv, RunInv, NoneBeforeMerge, NoneBeforeInstruct, UnansweredAtFirst, AnsweredAtGate,
         AnsweredAtMerge, NoneOnError, Reviewed, UsableInside, Fresh, ToldLast,
         Ships, Resuming, InnerNodes
<1> QED BY <1>1, <1>2, OneRun DEF Inv

LEMMA FailNodeInv ==
  ASSUME Inv, NEW r \in Runs, NEW node \in Nodes, FailNode(r, node)
  PROVE  RunsInv'
<1>1. /\ UNCHANGED <<feedback, request, dispatched>>
      /\ \A s \in Runs \ {r} : pc'[s] = pc[s] /\ outer'[s] = outer[s] /\ inner'[s] = inner[s]
      /\ pc[r] = node /\ pc'[r] = NextNode[node]
  BY DEF Inv, TypeOK, Goto, FailNode, shared
<1>2. /\ outer[r] \in OuterStates /\ inner[r] \in InnerStates
      /\ node \in OuterNodes => outer'[r] = [outer[r] EXCEPT !.status = "error"] /\ inner'[r] = inner[r]
      /\ node \in InnerNodes => inner'[r] = [inner[r] EXCEPT !.status = "error"] /\ outer'[r] = outer[r]
  BY DEF Inv, TypeOK, FailNode, OuterNodes, InnerNodes
<1>3. /\ outer'[r].fulfillment_instruction = outer[r].fulfillment_instruction
      /\ outer'[r].policy_decision = outer[r].policy_decision
      /\ outer'[r].input_unusable = outer[r].input_unusable
  BY <1>2 DEF OuterStates, Nodes
<1>4. /\ inner'[r].fulfillment_instruction = inner[r].fulfillment_instruction
      /\ inner'[r].policy_decision = inner[r].policy_decision
      /\ inner'[r].hitl_review_outcome = inner[r].hitl_review_outcome
  BY <1>2 DEF InnerStates, Nodes
<1>5. node = "hitl_gate" => "hitl_gate" \in Refusable
  BY DEF FailNode, Raises, Rejects, Denied, OuterNodes
<1>6. \/ node = "pre_process" /\ pc'[r] = "main"
      \/ node = "main" /\ pc'[r] = "route"
      \/ node = "post_process" /\ pc'[r] = "ended"
      \/ /\ node \in InnerNodes \ {"hitl_gate", "fulfillment_instruct"}
         /\ pc'[r] \in InnerNodes \ {"fulfillment_instruct"}
      \/ node = "hitl_gate" /\ pc'[r] = "fulfillment_instruct"
      \/ node = "fulfillment_instruct" /\ pc'[r] = "merge"
  BY <1>1 DEF Nodes, OuterNodes, InnerNodes, NextNode
<1>7. RunInv(r)'
  BY <1>1, <1>3, <1>4, <1>5, <1>6 DEF Inv, RunsInv, RunInv, NoneBeforeMerge, NoneBeforeInstruct, UnansweredAtFirst, AnsweredAtGate,
         AnsweredAtMerge, NoneOnError, Reviewed, UsableInside, Fresh, ToldLast,
         Accepted, ReviewDue, Asks, Ships, Resuming, InnerNodes
<1> QED BY <1>1, <1>7, OneRun DEF Inv

LEMMA OrderIngestInv ==
  ASSUME Inv, NEW r \in Runs, OrderIngest(r) PROVE RunsInv'
<1>1. /\ UNCHANGED <<inner, feedback, request, dispatched>>
      /\ \A s \in Runs \ {r} : pc'[s] = pc[s] /\ outer'[s] = outer[s]
      /\ pc[r] = "pre_process" /\ pc'[r] = "main" /\ outer[r] \in OuterStates
  BY DEF Inv, TypeOK, Goto, OrderIngest, MayRun, Guide, Ingest, shared
<1>2. outer'[r].fulfillment_instruction = outer[r].fulfillment_instruction
  <2> PICK payload \in request[r].message.readings :
        IF Unusable(payload) THEN Guide(r) ELSE Ingest(r, payload)
    BY DEF OrderIngest
  <2>1. CASE Guide(r)
    BY <1>1, <2>1 DEF Guide, Inv, TypeOK, OuterStates
  <2>2. CASE Ingest(r, payload)
    BY <1>1, <2>2 DEF Ingest, Inv, TypeOK, OuterStates
  <2> QED BY <2>1, <2>2
<1>3. RunInv(r)'
  BY <1>1, <1>2 DEF Inv, RunsInv, RunInv, NoneBeforeMerge, NoneBeforeInstruct, UnansweredAtFirst, AnsweredAtGate,
         AnsweredAtMerge, NoneOnError, Reviewed, UsableInside, Fresh, ToldLast,
         Ships, Resuming, InnerNodes
<1> QED BY <1>1, <1>3, OneRun DEF Inv

LEMMA StartInnerInv ==
  ASSUME Inv, NEW r \in Runs, StartInner(r) PROVE RunsInv'
<1>1. /\ UNCHANGED <<outer, request, dispatched>>
      /\ \A s \in Runs \ {r} : pc'[s] = pc[s] /\ inner'[s] = inner[s] /\ feedback'[s] = feedback[s]
      /\ pc[r] = "call" /\ pc'[r] = "inventory_check"
  BY DEF Inv, TypeOK, Goto, StartInner, shared
<1>2. inner'[r].fulfillment_instruction = Absent
  BY DEF StartInner, NewInner, Inv, TypeOK
<1>3. RunInv(r)'
  BY <1>1, <1>2 DEF Inv, RunsInv, RunInv, NoneBeforeMerge, NoneBeforeInstruct, UnansweredAtFirst, AnsweredAtGate,
         AnsweredAtMerge, NoneOnError, Reviewed, UsableInside, Fresh, ToldLast,
         Ships, Resuming, InnerNodes
<1> QED BY <1>1, <1>3, OneRun DEF Inv

LEMMA InnerNodeInv ==
  ASSUME Inv, NEW r \in Runs, InventoryCheck(r) \/ FulfillmentPolicy(r) \/ RouteSelect(r)
  PROVE  RunsInv'
<1>1. /\ UNCHANGED <<outer, feedback, request, dispatched>>
      /\ \A s \in Runs \ {r} : pc'[s] = pc[s] /\ inner'[s] = inner[s]
      /\ pc[r] \in InnerNodes /\ pc'[r] \in InnerNodes \ {"fulfillment_instruct"}
      /\ inner[r] \in InnerStates
  BY DEF Inv, TypeOK, Goto, MayRun, InventoryCheck, FulfillmentPolicy, RouteSelect, innerFrame, shared,
         InnerNodes
<1>2. inner'[r].fulfillment_instruction = inner[r].fulfillment_instruction
  <2>1. CASE InventoryCheck(r)
    BY <1>1, <2>1 DEF InventoryCheck, Inv, TypeOK, InnerStates
  <2>2. CASE FulfillmentPolicy(r)
    BY <1>1, <2>2 DEF FulfillmentPolicy, Inv, TypeOK, InnerStates
  <2>3. CASE RouteSelect(r)
    BY <1>1, <2>3 DEF RouteSelect, Inv, TypeOK, InnerStates
  <2> QED BY <2>1, <2>2, <2>3
<1>3. RunInv(r)'
  BY <1>1, <1>2 DEF Inv, RunsInv, RunInv, NoneBeforeMerge, NoneBeforeInstruct, UnansweredAtFirst, AnsweredAtGate,
         AnsweredAtMerge, NoneOnError, Reviewed, UsableInside, Fresh, ToldLast,
         Ships, Resuming, InnerNodes
<1> QED BY <1>1, <1>3, OneRun DEF Inv

LEMMA GateInv ==
  ASSUME Inv, NEW r \in Runs, GateSkipped(r) \/ GateDeferred(r) \/ GateReviewed(r)
  PROVE  RunsInv'
<1>1. PICK outcome, draft :
        /\ GateReturns(r, outcome, draft)
        /\ ReviewDue(r, inner[r].policy_decision) =>
             feedback[r] # NoAnswer /\ outcome = OutcomeOf(feedback[r])
  BY DEF GateSkipped, GateDeferred, GateReviewed, RequiresReview, ReviewDue, Asks
<1>2. /\ UNCHANGED <<outer, feedback, request, dispatched>>
      /\ \A s \in Runs \ {r} : pc'[s] = pc[s] /\ inner'[s] = inner[s]
      /\ pc[r] = "hitl_gate" /\ pc'[r] = "fulfillment_instruct"
      /\ inner[r] \in InnerStates
  BY <1>1 DEF Inv, TypeOK, Goto, MayRun, GateSkipped, GateDeferred, GateReviewed, GateReturns, innerFrame, shared
<1>3. /\ inner'[r].fulfillment_instruction = inner[r].fulfillment_instruction
      /\ inner'[r].policy_decision = inner[r].policy_decision
      /\ inner'[r].hitl_review_outcome = outcome
  BY <1>1, <1>2 DEF GateReturns, Inv, TypeOK, InnerStates
<1>4. RunInv(r)'
  BY <1>1, <1>2, <1>3 DEF Inv, RunsInv, RunInv, NoneBeforeMerge, NoneBeforeInstruct, UnansweredAtFirst, AnsweredAtGate,
         AnsweredAtMerge, NoneOnError, Reviewed, UsableInside, Fresh, ToldLast,
         ReviewDue, Asks, Ships, Resuming, InnerNodes
<1> QED BY <1>2, <1>4, OneRun DEF Inv

LEMMA ResumeInv ==
  ASSUME Inv, NEW r \in Runs, Resume(r) PROVE RunsInv'
<1>1. /\ UNCHANGED <<outer, inner, request, dispatched>>
      /\ \A s \in Runs \ {r} : pc'[s] = pc[s] /\ feedback'[s] = feedback[s]
      /\ pc[r] = "awaiting" /\ pc'[r] = "main"
  BY DEF Inv, TypeOK, Goto, Resume, shared
<1>2. RunInv(r)'
  BY <1>1 DEF Inv, RunsInv, RunInv, NoneBeforeMerge, NoneBeforeInstruct, UnansweredAtFirst, AnsweredAtGate,
         AnsweredAtMerge, NoneOnError, Reviewed, UsableInside, Fresh, ToldLast,
         Ships, Resuming, InnerNodes
<1> QED BY <1>1, <1>2, OneRun DEF Inv

LEMMA InstructInv ==
  ASSUME Inv, NEW r \in Runs, FulfillmentInstruct(r) PROVE RunsInv'
<1> DEFINE outcome == Get(inner[r].hitl_review_outcome, "auto_approved")
           instruction == BuildFulfillmentInstruction(inner[r].validated_order,
                                                      inner[r].selected_route, outcome)
<1>1. /\ UNCHANGED <<outer, feedback, request, dispatched>>
      /\ \A s \in Runs \ {r} : pc'[s] = pc[s] /\ inner'[s] = inner[s]
      /\ pc[r] = "fulfillment_instruct" /\ pc'[r] = "merge"
      /\ inner[r] \in InnerStates
  BY DEF Inv, TypeOK, Goto, MayRun, FulfillmentInstruct, innerFrame, shared
<1>2. /\ inner'[r].fulfillment_instruction = instruction
      /\ inner'[r].policy_decision = inner[r].policy_decision
      /\ inner'[r].status = "success"
  BY <1>1 DEF FulfillmentInstruct, Inv, TypeOK, InnerStates
<1>3. /\ instruction.hitl_review_outcome = outcome
      /\ instruction.action = "ship" => outcome # "rejected"
  BY DEF BuildFulfillmentInstruction, Proceed
<1>4. AnsweredAtMerge(r)'
  <2> SUFFICES ASSUME Ships(instruction), ReviewDue(r, inner[r].policy_decision)
               PROVE  Accepted(r) /\ outcome = OutcomeOf(feedback[r])
    BY <1>1, <1>2, <1>3 DEF AnsweredAtMerge, ReviewDue, Asks, Ships, Accepted
  <2>1. feedback[r] # NoAnswer /\ inner[r].hitl_review_outcome = OutcomeOf(feedback[r])
    BY <1>1 DEF Inv, RunsInv, RunInv, AnsweredAtGate
  <2>2. OutcomeOf(feedback[r]) # Absent
    BY WorkflowAssumption DEF OutcomeOf, Outcomes
  <2> QED BY <1>3, <2>1, <2>2 DEF Get, Accepted, Ships
<1>5. RunInv(r)'
  BY <1>1, <1>2, <1>4 DEF Inv, RunsInv, RunInv, NoneBeforeMerge, NoneBeforeInstruct, UnansweredAtFirst, AnsweredAtGate,
         AnsweredAtMerge, NoneOnError, Reviewed, UsableInside, Fresh, ToldLast,
         Ships, InnerNodes
<1> QED BY <1>1, <1>5, OneRun DEF Inv

LEMMA MergeInv ==
  ASSUME Inv, NEW r \in Runs, MergeOutput(r) PROVE RunsInv'
<1>1. /\ UNCHANGED <<inner, feedback, request, dispatched>>
      /\ \A s \in Runs \ {r} : pc'[s] = pc[s] /\ outer'[s] = outer[s]
      /\ pc[r] = "merge" /\ pc'[r] = "route" /\ outer[r] \in OuterStates
  BY DEF Inv, TypeOK, Goto, MergeOutput, shared
<1>2. /\ outer'[r].fulfillment_instruction = inner[r].fulfillment_instruction
      /\ outer'[r].policy_decision = inner[r].policy_decision
      /\ outer'[r].input_unusable = outer[r].input_unusable
      /\ outer'[r].status = inner[r].status
  BY <1>1 DEF MergeOutput, Inv, TypeOK, OuterStates
<1>3. RunInv(r)'
  BY <1>1, <1>2 DEF Inv, RunsInv, RunInv, NoneBeforeMerge, NoneBeforeInstruct, UnansweredAtFirst, AnsweredAtGate,
         AnsweredAtMerge, NoneOnError, Reviewed, UsableInside, Fresh, ToldLast,
         Accepted, ReviewDue, Asks, Ships, InnerNodes
<1> QED BY <1>1, <1>3, OneRun DEF Inv

LEMMA PropagateInv ==
  ASSUME Inv, NEW r \in Runs, PropagateError(r) PROVE RunsInv'
<1>1. /\ UNCHANGED <<inner, feedback, request, dispatched>>
      /\ \A s \in Runs \ {r} : pc'[s] = pc[s] /\ outer'[s] = outer[s]
      /\ pc[r] = "merge" /\ pc'[r] = "route" /\ outer[r] \in OuterStates
  BY DEF Inv, TypeOK, Goto, PropagateError, shared
<1>2. outer'[r].fulfillment_instruction = outer[r].fulfillment_instruction
  BY <1>1 DEF PropagateError, Inv, TypeOK, OuterStates
<1>3. RunInv(r)'
  BY <1>1, <1>2 DEF Inv, RunsInv, RunInv, NoneBeforeMerge, NoneBeforeInstruct, UnansweredAtFirst, AnsweredAtGate,
         AnsweredAtMerge, NoneOnError, Reviewed, UsableInside, Fresh, ToldLast,
         Ships, InnerNodes
<1> QED BY <1>1, <1>3, OneRun DEF Inv

LEMMA RetryInv ==
  ASSUME Inv, NEW r \in Runs, Retry(r) PROVE RunsInv'
<1>1. /\ UNCHANGED <<outer, inner, request, dispatched>>
      /\ \A s \in Runs \ {r} : pc'[s] = pc[s] /\ feedback'[s] = feedback[s]
      /\ pc[r] = "route" /\ pc'[r] = "pre_process" /\ feedback'[r] = NoAnswer
      /\ outer[r].status = "error"
  BY DEF Inv, TypeOK, Goto, Retry, shared
<1>2. RunInv(r)'
  BY <1>1 DEF Inv, RunsInv, RunInv, NoneBeforeMerge, NoneBeforeInstruct, UnansweredAtFirst, AnsweredAtGate,
         AnsweredAtMerge, NoneOnError, Reviewed, UsableInside, Fresh, ToldLast,
         Ships, Resuming, InnerNodes
<1> QED BY <1>1, <1>2, OneRun DEF Inv

LEMMA NotifyInv ==
  ASSUME Inv, NEW r \in Runs, NotifySkipped(r) \/ Notify(r) \/ NotifyRefused(r)
  PROVE  RunsInv'
<1>1. /\ UNCHANGED <<inner, feedback, request>>
      /\ \A s \in Runs \ {r} : pc'[s] = pc[s] /\ outer'[s] = outer[s] /\ dispatched'[s] = dispatched[s]
      /\ pc[r] = "post_process" /\ pc'[r] = "ended" /\ outer[r] \in OuterStates
      /\ request[r].trusted
  BY DEF Inv, TypeOK, Goto, MayRun, Denied, OuterNodes, NotifySkipped, Notify, NotifyRefused, shared
<1>2. dispatched[r] = 0
  BY <1>1 DEF Inv, RunsInv, RunInv, ToldLast
<1>3. \/ dispatched'[r] = 0
      \/ dispatched'[r] = 1 /\ outer[r].fulfillment_instruction # Absent
  BY <1>2 DEF Inv, TypeOK, NotifySkipped, Notify, NotifyRefused
<1>4. /\ outer'[r].fulfillment_instruction = outer[r].fulfillment_instruction
      /\ outer'[r].policy_decision = outer[r].policy_decision
      /\ outer'[r].input_unusable = outer[r].input_unusable
  <2>1. CASE NotifySkipped(r)
    BY <1>1, <2>1 DEF NotifySkipped, Inv, TypeOK, OuterStates
  <2>2. CASE Notify(r)
    BY <1>1, <2>2 DEF Notify, Inv, TypeOK, OuterStates
  <2>3. CASE NotifyRefused(r)
    BY <1>1, <2>3 DEF NotifyRefused, Inv, TypeOK, OuterStates
  <2> QED BY <2>1, <2>2, <2>3
<1>5. RunInv(r)'
  BY <1>1, <1>3, <1>4 DEF Inv, RunsInv, RunInv, NoneBeforeMerge, NoneBeforeInstruct, UnansweredAtFirst, AnsweredAtGate,
         AnsweredAtMerge, NoneOnError, Reviewed, UsableInside, Fresh, ToldLast,
         Accepted, ReviewDue, Asks, Ships, InnerNodes
<1> QED BY <1>1, <1>5, OneRun DEF Inv

-----------------------------------------------------------------------------
(* A crash moves every run that is under way to "lost".                    *)

LEMMA CrashInv ==
  ASSUME Inv, Crash PROVE RunsInv'
<1> SUFFICES ASSUME NEW r \in Runs PROVE RunInv(r)'
  BY DEF RunsInv
<1>1. /\ UNCHANGED <<outer, inner, feedback, request, dispatched>>
      /\ pc'[r] \in {pc[r], "lost"}
      /\ pc[r] = "ended" => pc'[r] = "ended"
  BY DEF Inv, TypeOK, Crash
<1> QED
  BY <1>1 DEF Inv, RunsInv, RunInv, NoneBeforeMerge, NoneBeforeInstruct, UnansweredAtFirst, AnsweredAtGate,
         AnsweredAtMerge, NoneOnError, Reviewed, UsableInside, Fresh, ToldLast,
         Accepted, ReviewDue, Asks, Ships, Resuming, InnerNodes

LEMMA InvInit == Init => Inv
<1> SUFFICES ASSUME Init PROVE RunsInv
  BY TypeInit DEF Inv
<1> SUFFICES ASSUME NEW r \in Runs PROVE RunInv(r)
  BY DEF RunsInv
<1> QED
  BY DEF Init, NewOuter, NewInner, RunInv, NoneBeforeMerge, NoneBeforeInstruct, UnansweredAtFirst, AnsweredAtGate,
         AnsweredAtMerge, NoneOnError, Reviewed, UsableInside, Fresh, ToldLast,
         Ships, InnerNodes

LEMMA InvStep == Inv /\ [Next]_vars => Inv'
<1> SUFFICES ASSUME Inv, [Next]_vars PROVE RunsInv'
  BY TypeStep DEF Inv
<1>1. CASE UNCHANGED vars
  BY <1>1, OtherRuns DEF vars, Inv, RunsInv
<1>2. CASE Crash
  BY <1>2, CrashInv
<1>3. ASSUME NEW r \in Runs, RunStep(r) PROVE RunsInv'
  BY <1>3, FailNodeInv, OrderIngestInv, MoveInv, StartInnerInv, InnerNodeInv, GateInv,
     InstructInv, MergeInv, PropagateInv, RetryInv, NotifyInv DEF RunStep, Gate
<1> QED BY <1>1, <1>2, <1>3, SubmitInv, ResumeInv DEF Next, AllOver

LEMMA Invariance == Spec => []Inv
  BY InvInit, InvStep, PTL DEF Spec

-----------------------------------------------------------------------------
(* Every run keeps the parts of the invariant, for every number of runs,   *)
(* retries and restarts (graph.py:69-130, hitl_gate_node.py:29-68,         *)
(* notify_logistics_node.py:23-56).                                        *)
THEOREM RunsSafe == Spec => []RunsInv
  BY Invariance, PTL DEF Inv

(* An order due for review ships only on the reviewer's own answer, for    *)
(* every number of runs, retries and restarts, every policy and every set  *)
(* of refusable nodes (hitl_gate_node.py:29-68,                            *)
(* fulfillment_service.py:119-129).                                        *)
THEOREM ReviewSafe == Spec => []ReviewedBeforeShipping
<1>1. Inv => ReviewedBeforeShipping
  BY DEF Inv, RunsInv, RunInv, Reviewed, ReviewedBeforeShipping
<1> QED BY <1>1, Invariance, PTL

(* The logistics system hears of a run at most once, at its end, of the    *)
(* instruction built last (notify_logistics_node.py:23-56,                 *)
(* graph.py:96-98).                                                        *)
THEOREM DispatchSafe == Spec => []DispatchedOnceAndFresh
<1>1. Inv => DispatchedOnceAndFresh
  BY DEF Inv, RunsInv, RunInv, Fresh, ToldLast, Over, DispatchedOnceAndFresh
<1> QED BY <1>1, Invariance, PTL

-----------------------------------------------------------------------------
(* What ships was evaluated.  A node that failed left its output missing,  *)
(* and each inner node computes from the output of an earlier one,         *)
(* although the edges between them are unconditional.                      *)

\* An output that is there was computed by a node that did not fail, from
\* the output of an earlier one.
Chain(r) ==
  /\ inner[r].validated_order # Absent =>
       inner[r].inventory_snapshot # Absent /\ "inventory_check" \notin faulted[r]
  /\ inner[r].policy_decision # Absent =>
       inner[r].validated_order # Absent /\ "fulfillment_policy" \notin faulted[r]
  /\ inner[r].selected_route # Absent =>
       inner[r].policy_decision # Absent /\ "route_select" \notin faulted[r]
  /\ inner[r].fulfillment_instruction # Absent => "fulfillment_instruct" \notin faulted[r]
  /\ Ships(inner[r].fulfillment_instruction) => Fulfillable(inner[r].selected_route)

\* The inner graph is on its way, or waits for an answer to go on.
AtWork(r) ==
  \/ pc[r] \in InnerNodes \cup {"awaiting"}
  \/ pc[r] \in {"main", "build", "call"} /\ Resuming(r)

\* A node that is still to run has neither failed nor left an output.
NotYet(r) ==
  /\ pc[r] = "inventory_check" =>
       "inventory_check" \notin faulted[r] /\ inner[r].validated_order = Absent
  /\ pc[r] \in {"inventory_check", "fulfillment_policy"} =>
       "fulfillment_policy" \notin faulted[r] /\ inner[r].policy_decision = Absent
  /\ pc[r] \in {"inventory_check", "fulfillment_policy", "route_select"} =>
       "route_select" \notin faulted[r] /\ inner[r].selected_route = Absent
  /\ AtWork(r) => "fulfillment_instruct" \notin faulted[r]

Evaluated(r) ==
  Ships(outer[r].fulfillment_instruction)
  => /\ faulted[r] \cap (InnerNodes \ {"hitl_gate"}) = {}
     /\ outer[r].inventory_snapshot # Absent
     /\ outer[r].policy_decision # Absent
     /\ Fulfillable(outer[r].selected_route)

RunEval(r) == Chain(r) /\ NotYet(r) /\ Evaluated(r)

EvalInv == \A r \in Runs : RunEval(r)

-----------------------------------------------------------------------------
(* Which runs a step moves.                                                *)

Unmoved(s) ==
  /\ pc'[s] = pc[s] /\ request'[s] = request[s] /\ outer'[s] = outer[s] /\ inner'[s] = inner[s]
  /\ faulted'[s] = faulted[s] /\ feedback'[s] = feedback[s] /\ shown'[s] = shown[s]
  /\ dispatched'[s] = dispatched[s]

LEMMA StepsAlone ==
  ASSUME TypeOK, NEW r \in Runs, RunStep(r) \/ Submit(r) \/ Resume(r),
         NEW s \in Runs \ {r}
  PROVE  Unmoved(s)
<1>1. ASSUME NEW node \in Nodes, FailNode(r, node) PROVE Unmoved(s)
  BY <1>1 DEF TypeOK, FailNode, Unmoved, Goto
<1>2. CASE OrderIngest(r)
  BY <1>2 DEF TypeOK, OrderIngest, Guide, Ingest, Unmoved, Goto
<1>3. CASE SkipSubgraph(r) \/ TestCache(r) \/ BuildSubgraph(r) \/ StartInner(r) \/ ResumeInner(r)
  BY <1>3 DEF TypeOK, SkipSubgraph, TestCache, BuildSubgraph, StartInner, ResumeInner, Unmoved, Goto
<1>4. CASE InventoryCheck(r) \/ FulfillmentPolicy(r) \/ RouteSelect(r) \/ FulfillmentInstruct(r)
  BY <1>4 DEF TypeOK, InventoryCheck, FulfillmentPolicy, RouteSelect, FulfillmentInstruct,
              innerFrame, Unmoved, Goto
<1>5. CASE Gate(r)
  BY <1>5 DEF TypeOK, Gate, GateSkipped, GateDeferred, GateInterrupts, GateReviewed, GateReturns,
              innerFrame, Unmoved, Goto
<1>6. CASE MergeOutput(r) \/ PropagateError(r)
  BY <1>6 DEF TypeOK, MergeOutput, PropagateError, Unmoved, Goto
<1>7. CASE Retry(r) \/ Proceeds(r)
  BY <1>7 DEF TypeOK, Retry, Proceeds, Unmoved, Goto
<1>8. CASE NotifySkipped(r) \/ Notify(r) \/ NotifyRefused(r)
  BY <1>8 DEF TypeOK, NotifySkipped, Notify, NotifyRefused, Unmoved, Goto
<1>9. CASE Submit(r) \/ Resume(r)
  BY <1>9 DEF TypeOK, Submit, Resume, Unmoved, Goto
<1> QED BY <1>1, <1>2, <1>3, <1>4, <1>5, <1>6, <1>7, <1>8, <1>9 DEF RunStep

-----------------------------------------------------------------------------
(* One lemma for each kind of step; r is the run it is a step of.          *)

\* What the inner nodes compute stays, and so does what failed of them.
LEMMA OutsideEval ==
  ASSUME NEW r \in Runs, RunEval(r),
         inner'[r].validated_order = inner[r].validated_order,
         inner'[r].inventory_snapshot = inner[r].inventory_snapshot,
         inner'[r].policy_decision = inner[r].policy_decision,
         inner'[r].selected_route = inner[r].selected_route,
         inner'[r].fulfillment_instruction = inner[r].fulfillment_instruction,
         outer'[r].fulfillment_instruction = outer[r].fulfillment_instruction,
         outer'[r].inventory_snapshot = outer[r].inventory_snapshot,
         outer'[r].policy_decision = outer[r].policy_decision,
         outer'[r].selected_route = outer[r].selected_route,
         \A node \in InnerNodes \ {"hitl_gate"} : node \in faulted'[r] => node \in faulted[r],
         pc'[r] \notin {"inventory_check", "fulfillment_policy", "route_select"},
         AtWork(r)' => AtWork(r)
  PROVE  RunEval(r)'
<1>1. Chain(r)'
  BY DEF RunEval, Chain, Ships, Fulfillable, InnerNodes
<1>2. NotYet(r)'
  BY DEF RunEval, NotYet, InnerNodes
<1>3. Evaluated(r)'
  BY DEF RunEval, Evaluated, Ships, Fulfillable, InnerNodes
<1> QED BY <1>1, <1>2, <1>3 DEF RunEval

\* While the inner graph works there is nothing merged to speak of.
LEMMA InsideEval ==
  ASSUME Inv, NEW r \in Runs, outer' = outer,
         pc[r] \in InnerNodes \cup {"call"}
  PROVE  Evaluated(r)'
BY DEF Inv, RunsInv, RunInv, NoneBeforeMerge, Evaluated, Ships, InnerNodes

LEMMA MovedEval ==
  ASSUME Inv, NEW r \in Runs, RunEval(r),
         \/ SkipSubgraph(r) \/ TestCache(r) \/ BuildSubgraph(r) \/ ResumeInner(r)
         \/ GateInterrupts(r) \/ Proceeds(r) \/ Submit(r) \/ Resume(r)
  PROVE  RunEval(r)'
<1>1. UNCHANGED <<inner, outer, faulted>>
  BY DEF SkipSubgraph, TestCache, BuildSubgraph, ResumeInner, GateInterrupts, Proceeds, Submit,
         Resume, innerFrame, shared
<1>2. pc'[r] \notin {"inventory_check", "fulfillment_policy", "route_select"}
  BY DEF Inv, TypeOK, SkipSubgraph, TestCache, BuildSubgraph, ResumeInner, GateInterrupts,
         Proceeds, Submit, Resume, Goto
<1>3. AtWork(r)' => AtWork(r)
  BY DEF Inv, TypeOK, AtWork, Resuming, InnerNodes, SkipSubgraph, TestCache, BuildSubgraph,
         ResumeInner, GateInterrupts, Proceeds, Submit, Resume, MayRun, innerFrame, Goto
<1> QED BY <1>1, <1>2, <1>3, OutsideEval

LEMMA IngestEval ==
  ASSUME Inv, NEW r \in Runs, RunEval(r), OrderIngest(r)
  PROVE  RunEval(r)'
<1>1. /\ UNCHANGED <<inner, faulted, feedback>>
      /\ outer[r] \in OuterStates /\ pc[r] = "pre_process" /\ pc'[r] = "main"
  BY DEF Inv, TypeOK, OrderIngest, MayRun, Goto
<1>2. /\ outer'[r].fulfillment_instruction = outer[r].fulfillment_instruction
      /\ outer'[r].inventory_snapshot = outer[r].inventory_snapshot
      /\ outer'[r].policy_decision = outer[r].policy_decision
      /\ outer'[r].selected_route = outer[r].selected_route
  <2> PICK payload \in request[r].message.readings :
        IF Unusable(payload) THEN Guide(r) ELSE Ingest(r, payload)
    BY DEF OrderIngest
  <2>1. CASE Guide(r)
    BY <1>1, <2>1 DEF Guide, Inv, TypeOK, OuterStates
  <2>2. CASE Ingest(r, payload)
    BY <1>1, <2>2 DEF Ingest, Inv, TypeOK, OuterStates
  <2> QED BY <2>1, <2>2
<1>3. ~ AtWork(r)'
  BY <1>1 DEF AtWork, Resuming, InnerNodes, Inv, RunsInv, RunInv, UnansweredAtFirst
<1> QED BY <1>1, <1>2, <1>3, OutsideEval

LEMMA EndEval ==
  ASSUME Inv, NEW r \in Runs, RunEval(r),
         NotifySkipped(r) \/ Notify(r) \/ NotifyRefused(r) \/ PropagateError(r) \/ Retry(r)
  PROVE  RunEval(r)'
<1>1. /\ inner' = inner
      /\ outer[r] \in OuterStates
      /\ pc'[r] \in {"ended", "route", "pre_process"}
      /\ faulted'[r] \subseteq faulted[r] \cup {"main", "post_process"}
  BY DEF Inv, TypeOK, NotifySkipped, Notify, NotifyRefused, PropagateError, Retry, Goto
<1>2. /\ outer'[r].fulfillment_instruction = outer[r].fulfillment_instruction
      /\ outer'[r].inventory_snapshot = outer[r].inventory_snapshot
      /\ outer'[r].policy_decision = outer[r].policy_decision
      /\ outer'[r].selected_route = outer[r].selected_route
  <2>1. CASE NotifySkipped(r)
    BY <1>1, <2>1 DEF NotifySkipped, Inv, TypeOK, OuterStates
  <2>2. CASE Notify(r)
    BY <1>1, <2>2 DEF Notify, Inv, TypeOK, OuterStates
  <2>3. CASE NotifyRefused(r) \/ PropagateError(r)
    <3>1. outer'[r] = [outer[r] EXCEPT !.status = "error"]
      BY <2>3 DEF NotifyRefused, PropagateError, Inv, TypeOK
    <3> QED BY <1>1, <3>1 DEF OuterStates
  <2>4. CASE Retry(r)
    BY <2>4 DEF Retry
  <2> QED BY <2>1, <2>2, <2>3, <2>4
<1>3. ~ AtWork(r)'
  BY <1>1 DEF AtWork, InnerNodes
<1> QED BY <1>1, <1>2, <1>3, OutsideEval DEF InnerNodes

\* A failed node: an outer one, the review gate, or one whose output is missing.
LEMMA FailedEval ==
  ASSUME Inv, NEW r \in Runs, RunEval(r), NEW node \in Nodes, FailNode(r, node)
  PROVE  RunEval(r)'
<1>1. /\ pc[r] = node /\ pc'[r] = NextNode[node] /\ feedback' = feedback
      /\ faulted'[r] = faulted[r] \cup {node}
      /\ outer[r] \in OuterStates /\ inner[r] \in InnerStates
  BY DEF Inv, TypeOK, FailNode, Goto
<1>2. CASE node \in OuterNodes
  <2>1. inner' = inner /\ outer'[r] = [outer[r] EXCEPT !.status = "error"]
    BY <1>2 DEF Inv, TypeOK, FailNode
  <2>2. pc'[r] \in {"main", "route", "ended"} /\ (pc'[r] = "main" => node = "pre_process")
    BY <1>1, <1>2 DEF NextNode, OuterNodes, InnerNodes, Nodes
  <2>3. ~ AtWork(r)'
    BY <1>1, <2>2 DEF AtWork, Resuming, InnerNodes, Inv, RunsInv, RunInv, UnansweredAtFirst
  <2>4. /\ outer'[r].fulfillment_instruction = outer[r].fulfillment_instruction
        /\ outer'[r].inventory_snapshot = outer[r].inventory_snapshot
        /\ outer'[r].policy_decision = outer[r].policy_decision
        /\ outer'[r].selected_route = outer[r].selected_route
    BY <1>1, <2>1 DEF OuterStates
  <2> QED BY <1>1, <1>2, <2>1, <2>2, <2>3, <2>4, OutsideEval DEF OuterNodes, InnerNodes
<1>3. CASE node \in InnerNodes
  <2>1. outer' = outer /\ inner'[r] = [inner[r] EXCEPT !.status = "error"]
    BY <1>3 DEF Inv, TypeOK, FailNode, OuterNodes, InnerNodes
  <2>2. /\ inner'[r].validated_order = inner[r].validated_order
        /\ inner'[r].inventory_snapshot = inner[r].inventory_snapshot
        /\ inner'[r].policy_decision = inner[r].policy_decision
        /\ inner'[r].selected_route = inner[r].selected_route
        /\ inner'[r].fulfillment_instruction = inner[r].fulfillment_instruction
    BY <1>1, <2>1 DEF InnerStates
  <2>3. inner[r].fulfillment_instruction = Absent
    BY <1>1, <1>3 DEF Inv, RunsInv, RunInv, NoneBeforeInstruct
  <2>4. Chain(r)'
    BY <1>1, <1>3, <2>2, <2>3 DEF RunEval, Chain, NotYet, Ships, InnerNodes
  <2>5. pc'[r] \in {"fulfillment_policy", "route_select", "hitl_gate", "fulfillment_instruct", "merge"}
        /\ (pc'[r] = "fulfillment_policy" => node = "inventory_check")
        /\ (pc'[r] = "route_select" => node = "fulfillment_policy")
        /\ (node = "fulfillment_instruct" => pc'[r] = "merge")
    BY <1>1, <1>3 DEF NextNode, OuterNodes, InnerNodes, Nodes
  <2>6. NotYet(r)'
    BY <1>1, <1>3, <2>2, <2>5 DEF RunEval, NotYet, AtWork, InnerNodes
  <2> QED BY <1>1, <1>3, <2>1, <2>4, <2>6, InsideEval DEF RunEval
<1> QED BY <1>2, <1>3 DEF Nodes

LEMMA StartedEval ==
  ASSUME Inv, NEW r \in Runs, RunEval(r), StartInner(r)
  PROVE  RunEval(r)'
<1>1. /\ pc[r] = "call" /\ pc'[r] = "inventory_check" /\ outer' = outer
      /\ inner'[r] = NewInner(InnerInput(r))
      /\ faulted'[r] = faulted[r] \ InnerNodes
  BY DEF Inv, TypeOK, StartInner, Goto
<1>2. Chain(r)' /\ NotYet(r)'
  BY <1>1 DEF Chain, NotYet, NewInner, Ships, InnerNodes
<1> QED BY <1>1, <1>2, InsideEval DEF RunEval

LEMMA InnerEval ==
  ASSUME Inv, NEW r \in Runs, RunEval(r),
         InventoryCheck(r) \/ FulfillmentPolicy(r) \/ RouteSelect(r) \/ FulfillmentInstruct(r)
  PROVE  RunEval(r)'
<1>1. /\ outer' = outer /\ faulted' = faulted /\ inner[r] \in InnerStates
      /\ pc[r] \in InnerNodes
  BY DEF Inv, TypeOK, MayRun, InventoryCheck, FulfillmentPolicy, RouteSelect,
         FulfillmentInstruct, innerFrame, InnerNodes
<1>2. inner[r].fulfillment_instruction = Absent
  BY <1>1 DEF Inv, RunsInv, RunInv, NoneBeforeInstruct
<1>3. CASE InventoryCheck(r)
  <2>1. /\ pc[r] = "inventory_check" /\ pc'[r] = "fulfillment_policy"
        /\ inner'[r].validated_order = inner[r].user_input
        /\ inner'[r].inventory_snapshot = AggregateInventory(inner[r].user_input.items)
        /\ inner'[r].policy_decision = inner[r].policy_decision
        /\ inner'[r].selected_route = inner[r].selected_route
        /\ inner'[r].fulfillment_instruction = inner[r].fulfillment_instruction
    BY <1>1, <1>3 DEF Inv, TypeOK, MayRun, InventoryCheck, Goto, InnerStates
  <2>2. AggregateInventory(inner[r].user_input.items) # Absent
    <3>1. /\ inner[r].user_input \in Workable
          /\ ~ InventoryRaises(inner[r].user_input.items)
      BY <1>1, <1>3, <2>1 DEF InventoryCheck, MayRun, Rejects, Raises, Workable, InnerStates
    <3> QED BY <3>1, ComputedAssumption DEF Snapshots
  <2> QED BY <1>1, <1>2, <2>1, <2>2, InsideEval
          DEF RunEval, Chain, NotYet, AtWork, Ships, InnerNodes
<1>4. CASE FulfillmentPolicy(r)
  <2>1. /\ pc[r] = "fulfillment_policy" /\ pc'[r] = "route_select"
        /\ inner[r].validated_order # Absent
        /\ inner'[r].validated_order = inner[r].validated_order
        /\ inner'[r].inventory_snapshot = inner[r].inventory_snapshot
        /\ inner'[r].selected_route = inner[r].selected_route
        /\ inner'[r].fulfillment_instruction = inner[r].fulfillment_instruction
    BY <1>1, <1>4 DEF Inv, TypeOK, MayRun, Rejects, FulfillmentPolicy, Goto, InnerStates
  <2> QED BY <1>1, <1>2, <2>1, InsideEval
          DEF RunEval, Chain, NotYet, AtWork, Ships, InnerNodes
<1>5. CASE RouteSelect(r)
  <2>1. /\ pc[r] = "route_select" /\ pc'[r] = "hitl_gate"
        /\ inner[r].policy_decision # Absent
        /\ inner'[r].validated_order = inner[r].validated_order
        /\ inner'[r].inventory_snapshot = inner[r].inventory_snapshot
        /\ inner'[r].policy_decision = inner[r].policy_decision
        /\ inner'[r].fulfillment_instruction = inner[r].fulfillment_instruction
    BY <1>1, <1>5 DEF Inv, TypeOK, MayRun, Rejects, RouteSelect, Goto, InnerStates
  <2> QED BY <1>1, <1>2, <2>1, InsideEval
          DEF RunEval, Chain, NotYet, AtWork, Ships, InnerNodes
<1>6. CASE FulfillmentInstruct(r)
  <2>1. /\ pc[r] = "fulfillment_instruct" /\ pc'[r] = "merge"
        /\ inner'[r].validated_order = inner[r].validated_order
        /\ inner'[r].inventory_snapshot = inner[r].inventory_snapshot
        /\ inner'[r].policy_decision = inner[r].policy_decision
        /\ inner'[r].selected_route = inner[r].selected_route
        /\ inner'[r].fulfillment_instruction =
             BuildFulfillmentInstruction(inner[r].validated_order, inner[r].selected_route,
                                         Get(inner[r].hitl_review_outcome, "auto_approved"))
    BY <1>1, <1>6 DEF Inv, TypeOK, MayRun, FulfillmentInstruct, Goto, InnerStates
  <2>2. Ships(inner'[r].fulfillment_instruction) => Fulfillable(inner[r].selected_route)
    BY <2>1 DEF Ships, BuildFulfillmentInstruction, Proceed
  <2>3. Chain(r)'
    BY <1>1, <2>1, <2>2 DEF RunEval, Chain, NotYet, AtWork, Ships, Fulfillable, InnerNodes
  <2> QED BY <1>1, <2>1, <2>3, InsideEval DEF RunEval, NotYet, AtWork, InnerNodes
<1> QED BY <1>3, <1>4, <1>5, <1>6

LEMMA GatedEval ==
  ASSUME Inv, NEW r \in Runs, RunEval(r), GateSkipped(r) \/ GateDeferred(r) \/ GateReviewed(r)
  PROVE  RunEval(r)'
<1>1. PICK outcome, draft : GateReturns(r, outcome, draft)
  BY DEF GateSkipped, GateDeferred, GateReviewed
<1>2. /\ UNCHANGED <<outer, faulted>> /\ inner[r] \in InnerStates
      /\ pc[r] = "hitl_gate" /\ pc'[r] = "fulfillment_instruct"
  BY <1>1 DEF Inv, TypeOK, Goto, MayRun, GateSkipped, GateDeferred, GateReviewed, GateReturns,
              innerFrame
<1>3. /\ inner'[r].validated_order = inner[r].validated_order
      /\ inner'[r].inventory_snapshot = inner[r].inventory_snapshot
      /\ inner'[r].policy_decision = inner[r].policy_decision
      /\ inner'[r].selected_route = inner[r].selected_route
      /\ inner'[r].fulfillment_instruction = inner[r].fulfillment_instruction
  BY <1>1, <1>2 DEF GateReturns, Inv, TypeOK, InnerStates
<1>4. AtWork(r)
  BY <1>2 DEF AtWork, InnerNodes
<1> QED BY <1>2, <1>3, <1>4, OutsideEval

LEMMA MergedEval ==
  ASSUME Inv, NEW r \in Runs, RunEval(r), MergeOutput(r)
  PROVE  RunEval(r)'
<1>1. /\ UNCHANGED <<inner, faulted>> /\ outer[r] \in OuterStates
      /\ pc[r] = "merge" /\ pc'[r] = "route"
  BY DEF Inv, TypeOK, Goto, MergeOutput
<1>2. /\ outer'[r].fulfillment_instruction = inner[r].fulfillment_instruction
      /\ outer'[r].inventory_snapshot = inner[r].inventory_snapshot
      /\ outer'[r].policy_decision = inner[r].policy_decision
      /\ outer'[r].selected_route = inner[r].selected_route
  BY <1>1 DEF MergeOutput, Inv, TypeOK, OuterStates
<1>3. Evaluated(r)'
  BY <1>1, <1>2 DEF RunEval, Chain, Evaluated, Ships, Fulfillable, InnerNodes
<1>4. Chain(r)' /\ NotYet(r)'
  BY <1>1 DEF RunEval, Chain, NotYet, AtWork, InnerNodes
<1> QED BY <1>3, <1>4 DEF RunEval

-----------------------------------------------------------------------------
LEMMA EvalStep == Inv /\ EvalInv /\ [Next]_vars => EvalInv'
<1> SUFFICES ASSUME Inv, EvalInv, [Next]_vars, NEW q \in Runs PROVE RunEval(q)'
  BY DEF EvalInv
<1>0. RunEval(q)
  BY DEF EvalInv
<1>1. CASE UNCHANGED vars \/ AllOver
  BY <1>0, <1>1 DEF AllOver, vars, RunEval, Chain, NotYet, Evaluated, AtWork, Resuming
<1>2. CASE Crash
  <2>1. UNCHANGED <<inner, outer, faulted, feedback>> /\ pc'[q] \in {pc[q], "lost"}
    BY <1>2 DEF Crash
  <2> QED BY <1>0, <2>1 DEF RunEval, Chain, NotYet, Evaluated, AtWork, Resuming, InnerNodes
<1>3. ASSUME NEW r \in Runs, RunStep(r) \/ Submit(r) \/ Resume(r) PROVE RunEval(q)'
  <2>1. CASE q = r
    BY <1>0, <1>3, <2>1, MovedEval, IngestEval, EndEval, FailedEval, StartedEval, InnerEval,
       GatedEval, MergedEval DEF RunStep, Gate
  <2>2. CASE q # r
    <3>1. Unmoved(q)
      BY <1>3, <2>2, StepsAlone DEF Inv
    <3> QED BY <1>0, <3>1 DEF Unmoved, RunEval, Chain, NotYet, Evaluated, AtWork, Resuming
  <2> QED BY <2>1, <2>2
<1> QED BY <1>1, <1>2, <1>3 DEF Next

LEMMA EvaluatedAlways == Spec => []EvalInv
<1>1. Init => EvalInv
  BY DEF Init, EvalInv, RunEval, Chain, NotYet, Evaluated, AtWork, Ships, NewOuter, NewInner,
         InnerNodes
<1> QED BY <1>1, EvalStep, Invariance, PTL DEF Spec

(* Whatever nodes fail, in whatever attempt, an order is shipped only when *)
(* inventory, policy and route all completed for it and the route found    *)
(* stock, for any number of runs, retries and restarts                     *)
(* (fulfillment_workflow_graph.py:57-63).                                  *)
THEOREM EvaluatedSafe == Spec => []ShipsOnlyIfEvaluated
<1>1. EvalInv => ShipsOnlyIfEvaluated
  BY DEF EvalInv, RunEval, Evaluated, ShipsOnlyIfEvaluated
<1> QED BY <1>1, EvaluatedAlways, PTL
=============================================================================
