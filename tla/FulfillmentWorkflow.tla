------------------------- MODULE FulfillmentWorkflow --------------------------
(***************************************************************************)
(* One agent process and the messages it works on.  The outer graph of     *)
(* src/graph/graph.py runs                                                 *)
(*   pre_process -> main -> {route: post_process | retry} -> post_process  *)
(* and its `main` slot runs the inner graph of                             *)
(* src/graph/fulfillment_workflow_graph.py, whose edges are unconditional: *)
(*   inventory_check -> fulfillment_policy -> route_select -> hitl_gate    *)
(*     -> fulfillment_instruct.                                            *)
(* A run is the processing of one message.  Every node call is one action; *)
(* the steps of different runs interleave, because one node instance (and  *)
(* so one cached subgraph) serves every run of the process.                *)
(***************************************************************************)
EXTENDS FulfillmentService, FiniteSets

CONSTANTS
  Runs,        \* invocations of the agent
  Requests,    \* what callers send: [message, trusted, hitl_allowed]
  Decisions,   \* what reviewers write under "decision"
  Refusable,   \* nodes one of the framework's gates may refuse
  NoAnswer,    \* no reviewer has answered
  MaxRetry,    \* max_retry of config.yaml
  MaxCrashes   \* bound on process restarts

OuterNodes == {"pre_process", "main", "post_process"}
InnerNodes == {"inventory_check", "fulfillment_policy", "route_select",
               "hitl_gate", "fulfillment_instruct"}
Nodes      == OuterNodes \cup InnerNodes

\* What hitl_review_outcome may hold.
Outcomes == Decisions \cup {"auto_approved", "referred_for_human_review", "rejected", Null}

\* GraphNode's own gates are no-ops, so `main` is never refused by one.
ASSUME WorkflowAssumption ==
  /\ MaxRetry \in Nat /\ MaxCrashes \in Nat
  /\ Refusable \subseteq Nodes \ {"main"}
  /\ NoAnswer \notin Decisions \cup {Absent, Null}
  /\ Absent \notin Outcomes

(* A request is a message, whether the caller's trust level passes the S-1 *)
(* gates, and whether a human may be asked.  A message is [raw, readings]: *)
(* the JSON object the text is, or Absent, and the payloads                *)
(* OrderIngestNode may read in it (Absent when it reads none).             *)
ASSUME RequestsAssumption ==
  \A req \in Requests :
    /\ req # Absent
    /\ req.trusted \in BOOLEAN /\ req.hitl_allowed \in BOOLEAN
    /\ req.message.readings # {}

\* Absent: the answer is no dict, or has no "decision" key.
Feedbacks == Decisions \cup {Absent, Null}

VARIABLES
  request,     \* what each run was invoked with, Absent before
  pc,          \* where each run is
  outer,       \* each run's State in the outer graph
  inner,       \* each run's State in the inner graph
  feedback,    \* the resume value the reviewer supplied
  shown,       \* the draft of the interrupt the reviewer answers
  retries,     \* retries taken by the backbone
  faulted,     \* nodes of the current attempt that left an entry in error_log
  dispatched,  \* calls made to the logistics system
  handle,      \* the subgraph whose saver holds the run's inner checkpoint
  subgraph,    \* FulfillmentOrchestrationGraphNode._subgraph, 0 for None
  built,       \* subgraphs compiled by this process
  crashes

vars == <<request, pc, outer, inner, feedback, shown, retries, faulted, dispatched,
          handle, subgraph, built, crashes>>

shared == <<subgraph, built, crashes>>

NewOuter ==
  [input_unusable |-> FALSE, validated_order |-> Absent, delivery_region |-> Absent,
   validated_input |-> Absent, inventory_snapshot |-> Absent, policy_decision |-> Absent,
   selected_route |-> Absent, hitl_review_outcome |-> Absent,
   fulfillment_instruction |-> Absent, notification_sent |-> Absent,
   hitl_escalated |-> Absent, fulfillment_status |-> Absent, status |-> Absent]

\* The inner graph receives the input string and nothing of the outer State.
NewInner(input) ==
  [user_input |-> input, validated_order |-> Absent, inventory_snapshot |-> Absent,
   policy_decision |-> Absent, selected_route |-> Absent, hitl_draft |-> Absent,
   hitl_review_outcome |-> Absent, fulfillment_instruction |-> Absent, status |-> Absent]

Init ==
  /\ request    = [r \in Runs |-> Absent]
  /\ pc         = [r \in Runs |-> "idle"]
  /\ outer      = [r \in Runs |-> NewOuter]
  /\ inner      = [r \in Runs |-> NewInner(Absent)]
  /\ feedback   = [r \in Runs |-> NoAnswer]
  /\ shown      = [r \in Runs |-> Absent]
  /\ retries    = [r \in Runs |-> 0]
  /\ faulted    = [r \in Runs |-> {}]
  /\ dispatched = [r \in Runs |-> 0]
  /\ handle     = [r \in Runs |-> 0]
  /\ subgraph = 0 /\ built = 0 /\ crashes = 0

Goto(r, location) == pc' = [pc EXCEPT ![r] = location]

-----------------------------------------------------------------------------
(* The caller invokes the agent, with a trust level the S-1 gates accept   *)
(* or not, from a composition in which a human may be asked or not.        *)
Submit(r) ==
  /\ pc[r] = "idle"
  /\ \E req \in Requests : request' = [request EXCEPT ![r] = req]
  /\ Goto(r, "pre_process")
  /\ UNCHANGED <<outer, inner, feedback, shown, retries, faulted, dispatched, handle, shared>>

-----------------------------------------------------------------------------
(* A node call that fails.  BaseNode.__call__ runs the trust gate and the  *)
(* input gate before execute() and the output gate after it; a refusal or  *)
(* an exception becomes {status: error, error_log: [...]} and nothing else *)
(* of the node's result reaches State.  The edge to the next node is       *)
(* followed all the same.                                                  *)

\* Mutant of NextNode: a failed node is called again.
TryAgain == [node \in Nodes |-> node]

NextNode ==
  [inventory_check |-> "fulfillment_policy", fulfillment_policy |-> "route_select",
   route_select |-> "hitl_gate", hitl_gate |-> "fulfillment_instruct",
   fulfillment_instruct |-> "merge", pre_process |-> "main", main |-> "route",
   post_process |-> "ended"]

\* isinstance(validated_order, dict) and validated_order.get("items")
HasItems(order) == order # Absent /\ ~ FalsyList(order.items)

\* execute() raises on what the run's order holds.
Raises(r, node) ==
  \/ /\ node = "inventory_check" /\ HasItems(inner[r].user_input)
     /\ InventoryRaises(inner[r].user_input.items)
  \/ /\ node = "fulfillment_policy" /\ inner[r].validated_order # Absent
     /\ PolicyRaises(inner[r].validated_order)

\* The node returns {status: error} itself: its input is missing.
Rejects(r, node) ==
  \/ node = "inventory_check" /\ ~ HasItems(inner[r].user_input)
  \/ node \in {"fulfillment_policy", "fulfillment_instruct"} /\ inner[r].validated_order = Absent
  \/ node = "route_select" /\ inner[r].policy_decision = Absent

\* Mutant of Denied: the outer nodes let everyone in.
DeniedToNobody(r, node) == FALSE

Denied(r, node) == node \in OuterNodes /\ ~ request[r].trusted

MayRun(r, node) == pc[r] = node /\ ~ Raises(r, node) /\ ~ Rejects(r, node) /\ ~ Denied(r, node)

FailNode(r, node) ==
  /\ pc[r] = node
  /\ Raises(r, node) \/ Rejects(r, node) \/ Denied(r, node) \/ node \in Refusable
  /\ faulted' = [faulted EXCEPT ![r] = @ \cup {node}]
  /\ IF node \in OuterNodes
       THEN outer' = [outer EXCEPT ![r].status = "error"] /\ inner' = inner
       ELSE inner' = [inner EXCEPT ![r].status = "error"] /\ outer' = outer
  /\ Goto(r, NextNode[node])
  /\ UNCHANGED <<request, feedback, shown, retries, dispatched, handle, shared>>

-----------------------------------------------------------------------------
(* pre_process.                                                            *)

\* What OrderIngestNode keeps: the address is reduced to a region.
Envelope(payload) == [order_id |-> payload.order_id, channel |-> payload.channel,
                      items |-> payload.items, quantity |-> payload.quantity]

Unusable(payload) == payload = Absent \/ MissingFields(payload) # {}

\* An unreadable or incomplete order is answered with guidance, as SUCCESS.
Guide(r) ==
  outer' = [outer EXCEPT ![r] = [@ EXCEPT !.input_unusable = TRUE, !.status = "success"]]

\* Mutant of Ingest: the order is kept with the address it came with.
IngestAddressed(r, payload) ==
  outer' = [outer EXCEPT ![r] = [@ EXCEPT
     !.validated_order = payload,
     !.delivery_region = RegionFromAddress(payload.delivery_address),
     !.validated_input = payload,
     !.status          = "success"]]

\* json.dumps and the inner json.loads carry an order over unchanged.
Ingest(r, payload) ==
  outer' = [outer EXCEPT ![r] = [@ EXCEPT
     !.validated_order = Envelope(payload),
     !.delivery_region = RegionFromAddress(payload.delivery_address),
     !.validated_input = Envelope(payload),
     !.status          = "success"]]

OrderIngest(r) ==
  /\ MayRun(r, "pre_process")
  /\ \E payload \in request[r].message.readings :
       IF Unusable(payload) THEN Guide(r) ELSE Ingest(r, payload)
  /\ Goto(r, "main")
  /\ UNCHANGED <<request, inner, feedback, shown, retries, faulted, dispatched, handle, shared>>

-----------------------------------------------------------------------------
(* main: FulfillmentOrchestrationGraphNode.                                *)

SkipSubgraph(r) ==
  /\ MayRun(r, "main")
  /\ outer[r].input_unusable
  /\ Goto(r, "route")
  /\ UNCHANGED <<request, outer, inner, feedback, shown, retries, faulted, dispatched,
                 handle, shared>>

\* Mutant of TestCache: an unusable message is worked on too.
TestCacheAlways(r) ==
  /\ MayRun(r, "main")
  /\ Goto(r, IF subgraph = 0 THEN "build" ELSE "call")
  /\ UNCHANGED <<request, outer, inner, feedback, shown, retries, faulted, dispatched,
                 handle, shared>>

\* get_subgraph tests the cache first; it builds and assigns later.
TestCache(r) ==
  /\ MayRun(r, "main")
  /\ ~ outer[r].input_unusable
  /\ Goto(r, IF subgraph = 0 THEN "build" ELSE "call")
  /\ UNCHANGED <<request, outer, inner, feedback, shown, retries, faulted, dispatched,
                 handle, shared>>

BuildSubgraph(r) ==
  /\ pc[r] = "build"
  /\ built' = built + 1
  /\ subgraph' = built + 1
  /\ Goto(r, "call")
  /\ UNCHANGED <<request, outer, inner, feedback, shown, retries, faulted, dispatched,
                 handle, crashes>>

\* extract_input.
InnerInput(r) == Get(outer[r].validated_input, request[r].message.raw)

Resuming(r) == feedback[r] # NoAnswer

\* The inner graph starts from its input, at every attempt: that a retry does
\* not go on from the checkpoint the one before left in the cached subgraph's
\* saver is assumed of the framework.  When a resumed run finds no checkpoint
\* there the pending answer may or may not survive the restart.
StartInner(r) ==
  /\ pc[r] = "call"
  /\ Resuming(r) => handle[r] # subgraph
  /\ inner' = [inner EXCEPT ![r] = NewInner(InnerInput(r))]
  /\ handle' = [handle EXCEPT ![r] = subgraph]
  /\ \E answer \in {feedback[r], NoAnswer} : feedback' = [feedback EXCEPT ![r] = answer]
  /\ faulted' = [faulted EXCEPT ![r] = @ \ InnerNodes]
  /\ Goto(r, "inventory_check")
  /\ UNCHANGED <<request, outer, shown, retries, dispatched, shared>>

\* A resumed run re-enters the node that interrupted it.
ResumeInner(r) ==
  /\ pc[r] = "call"
  /\ Resuming(r) /\ handle[r] = subgraph
  /\ Goto(r, "hitl_gate")
  /\ UNCHANGED <<request, outer, inner, feedback, shown, retries, faulted, dispatched,
                 handle, shared>>

-----------------------------------------------------------------------------
(* The inner nodes.                                                        *)

innerFrame == <<request, outer, feedback, retries, faulted, dispatched, handle, shared>>

InventoryCheck(r) ==
  /\ MayRun(r, "inventory_check")
  /\ inner' = [inner EXCEPT ![r] = [@ EXCEPT
       !.validated_order    = inner[r].user_input,
       !.inventory_snapshot = AggregateInventory(inner[r].user_input.items),
       !.status             = "success"]]
  /\ Goto(r, "fulfillment_policy")
  /\ UNCHANGED <<innerFrame, shown>>

FulfillmentPolicy(r) ==
  /\ MayRun(r, "fulfillment_policy")
  /\ inner' = [inner EXCEPT ![r] = [@ EXCEPT
       !.policy_decision = ApplyFulfillmentPolicy(inner[r].validated_order),
       !.status          = "success"]]
  /\ Goto(r, "route_select")
  /\ UNCHANGED <<innerFrame, shown>>

RouteSelect(r) ==
  /\ MayRun(r, "route_select")
  /\ inner' = [inner EXCEPT ![r] = [@ EXCEPT
       !.selected_route =
          SelectRoute(Get(inner[r].inventory_snapshot, <<>>), inner[r].policy_decision),
       !.status = "success"]]
  /\ Goto(r, "hitl_gate")
  /\ UNCHANGED <<innerFrame, shown>>

\* bool(policy_decision.get("requires_hitl", False)), on {} as on no key.
RequiresReview(r) ==
  inner[r].policy_decision # Absent /\ inner[r].policy_decision.requires_hitl

\* Mutant of Draft: the route is read from the outer State.
DraftOfOuter(r) == [selected_route |-> outer[r].selected_route,
                    policy_decision |-> inner[r].policy_decision]

Draft(r) == [selected_route |-> inner[r].selected_route,
             policy_decision |-> inner[r].policy_decision]

\* The gate returns an outcome; `draft` is written only by the review paths.
GateReturns(r, outcome, draft) ==
  /\ inner' = [inner EXCEPT ![r] = [@ EXCEPT
       !.hitl_review_outcome = outcome,
       !.hitl_draft          = draft,
       !.status              = "success"]]
  /\ Goto(r, "fulfillment_instruct")
  /\ UNCHANGED <<innerFrame, shown>>

GateSkipped(r) ==
  /\ MayRun(r, "hitl_gate")
  /\ ~ RequiresReview(r)
  /\ GateReturns(r, "auto_approved", inner[r].hitl_draft)

GateDeferred(r) ==
  /\ MayRun(r, "hitl_gate")
  /\ RequiresReview(r) /\ ~ request[r].hitl_allowed
  /\ GateReturns(r, "referred_for_human_review", Draft(r))

\* interrupt(): GraphInterrupt bubbles through both graphs.
GateInterrupts(r) ==
  /\ MayRun(r, "hitl_gate")
  /\ RequiresReview(r) /\ request[r].hitl_allowed
  /\ feedback[r] = NoAnswer
  /\ shown' = [shown EXCEPT ![r] = Draft(r)]
  /\ Goto(r, "awaiting")
  /\ UNCHANGED <<innerFrame, inner>>

OutcomeOf(answer) == IF answer = Absent THEN "rejected" ELSE answer

GateReviewed(r) ==
  /\ MayRun(r, "hitl_gate")
  /\ RequiresReview(r) /\ request[r].hitl_allowed
  /\ feedback[r] # NoAnswer
  /\ GateReturns(r, OutcomeOf(feedback[r]), Draft(r))

\* The reviewer answers: the outer graph re-executes `main`.
Resume(r) ==
  /\ pc[r] = "awaiting"
  /\ \E answer \in Feedbacks : feedback' = [feedback EXCEPT ![r] = answer]
  /\ Goto(r, "main")
  /\ UNCHANGED <<request, outer, inner, shown, retries, faulted, dispatched, handle, shared>>

FulfillmentInstruct(r) ==
  /\ MayRun(r, "fulfillment_instruct")
  /\ inner' = [inner EXCEPT ![r] = [@ EXCEPT
       !.fulfillment_instruction =
          BuildFulfillmentInstruction(inner[r].validated_order, inner[r].selected_route,
                                      Get(inner[r].hitl_review_outcome, "auto_approved")),
       !.status = "success"]]
  /\ Goto(r, "merge")
  /\ UNCHANGED <<innerFrame, shown>>

-----------------------------------------------------------------------------
(* Back in the outer graph.                                                *)

\* merge_output; an outcome the inner graph never set becomes None.
MergeOutput(r) ==
  /\ pc[r] = "merge"
  /\ outer' = [outer EXCEPT ![r] = [@ EXCEPT
       !.validated_order         = inner[r].validated_order,
       !.inventory_snapshot      = inner[r].inventory_snapshot,
       !.policy_decision         = inner[r].policy_decision,
       !.selected_route          = inner[r].selected_route,
       !.hitl_review_outcome     = Get(inner[r].hitl_review_outcome, Null),
       !.fulfillment_instruction = inner[r].fulfillment_instruction,
       !.status                  = inner[r].status]]
  /\ Goto(r, "route")
  /\ UNCHANGED <<request, inner, feedback, shown, retries, faulted, dispatched, handle, shared>>

\* The framework may instead raise SubgraphError on an inner error
\* (error_strategy "propagate"), which leaves nothing merged.
PropagateError(r) ==
  /\ pc[r] = "merge"
  /\ inner[r].status = "error"
  /\ outer' = [outer EXCEPT ![r].status = "error"]
  /\ faulted' = [faulted EXCEPT ![r] = @ \cup {"main"}]
  /\ Goto(r, "route")
  /\ UNCHANGED <<request, inner, feedback, shown, retries, dispatched, handle, shared>>

\* The backbone retries an error from pre_process, State as it is.
Retry(r) ==
  /\ pc[r] = "route"
  /\ outer[r].status = "error" /\ retries[r] < MaxRetry
  /\ retries'  = [retries EXCEPT ![r] = @ + 1]
  /\ feedback' = [feedback EXCEPT ![r] = NoAnswer]
  /\ shown'    = [shown EXCEPT ![r] = Absent]
  /\ faulted'  = [faulted EXCEPT ![r] = {}]
  /\ Goto(r, "pre_process")
  /\ UNCHANGED <<request, outer, inner, dispatched, handle, shared>>

\* With no retry left it ends the run, through post_process or not.
Proceeds(r) ==
  /\ pc[r] = "route"
  /\ \/ outer[r].status # "error" /\ Goto(r, "post_process")
     \/ /\ outer[r].status = "error" /\ retries[r] = MaxRetry
        /\ \E location \in {"post_process", "ended"} : Goto(r, location)
  /\ UNCHANGED <<request, outer, inner, feedback, shown, retries, faulted, dispatched,
                 handle, shared>>

\* post_process with no instruction: nothing to tell the logistics system.
NotifySkipped(r) ==
  /\ MayRun(r, "post_process")
  /\ outer[r].fulfillment_instruction = Absent
  /\ outer' = [outer EXCEPT ![r] = [@ EXCEPT
       !.notification_sent  = FALSE,
       !.hitl_escalated     = outer[r].hitl_review_outcome = "rejected",
       !.fulfillment_status = "FAILED",
       !.status             = "success"]]
  /\ Goto(r, "ended")
  /\ UNCHANGED <<request, inner, feedback, shown, retries, faulted, dispatched, handle, shared>>

\* Mutants of FinalStatus: every hold, or no hold, is told apart.
HoldEscalates(instruction, escalated) ==
  IF instruction.action = "ship" THEN "ORDER_ROUTED" ELSE "HITL_ESCALATION"
RoutedUnlessEscalated(instruction, escalated) ==
  IF escalated THEN "HITL_ESCALATION" ELSE "ORDER_ROUTED"

FinalStatus(instruction, escalated) ==
  IF instruction.action = "ship" THEN "ORDER_ROUTED"
  ELSE IF escalated THEN "HITL_ESCALATION" ELSE "FAILED"

Notify(r) ==
  /\ MayRun(r, "post_process")
  /\ outer[r].fulfillment_instruction # Absent
  /\ LET instruction == outer[r].fulfillment_instruction
         escalated   == outer[r].hitl_review_outcome = "rejected"
     IN  outer' = [outer EXCEPT ![r] = [@ EXCEPT
           !.notification_sent  = NotifyLogistics(instruction),
           !.hitl_escalated     = escalated,
           !.fulfillment_status = FinalStatus(instruction, escalated),
           !.status             = "success"]]
  /\ dispatched' = [dispatched EXCEPT ![r] = @ + 1]
  /\ Goto(r, "ended")
  /\ UNCHANGED <<request, inner, feedback, shown, retries, faulted, handle, shared>>

\* Mutant of NotifyRefused: the backbone may retry it.
NotifyRefusedRetried(r) ==
  /\ MayRun(r, "post_process")
  /\ "post_process" \in Refusable
  /\ outer[r].fulfillment_instruction # Absent
  /\ outer' = [outer EXCEPT ![r].status = "error"]
  /\ faulted' = [faulted EXCEPT ![r] = @ \cup {"post_process"}]
  /\ dispatched' = [dispatched EXCEPT ![r] = @ + 1]
  /\ Goto(r, "route")
  /\ UNCHANGED <<request, inner, feedback, shown, retries, handle, shared>>

\* The output gate refuses the node's result: the call to the logistics
\* system was made, what it returned is dropped.
NotifyRefused(r) ==
  /\ MayRun(r, "post_process")
  /\ "post_process" \in Refusable
  /\ outer[r].fulfillment_instruction # Absent
  /\ outer' = [outer EXCEPT ![r].status = "error"]
  /\ faulted' = [faulted EXCEPT ![r] = @ \cup {"post_process"}]
  /\ dispatched' = [dispatched EXCEPT ![r] = @ + 1]
  /\ Goto(r, "ended")
  /\ UNCHANGED <<request, inner, feedback, shown, retries, handle, shared>>

-----------------------------------------------------------------------------
(* A restart of the process.  Both savers are in memory: every run under   *)
(* way, suspended ones included, is gone, and so is the cached subgraph.   *)
Crash ==
  /\ crashes < MaxCrashes
  /\ crashes' = crashes + 1
  /\ subgraph' = 0 /\ built' = 0
  /\ pc' = [r \in Runs |-> IF pc[r] \in {"idle", "ended"} THEN pc[r] ELSE "lost"]
  /\ UNCHANGED <<request, outer, inner, feedback, shown, retries, faulted, dispatched, handle>>

Over(r) == pc[r] \in {"ended", "lost"}

\* Every message has been dealt with.
AllOver == (\A r \in Runs : Over(r)) /\ UNCHANGED vars

-----------------------------------------------------------------------------
Gate(r) == GateSkipped(r) \/ GateDeferred(r) \/ GateInterrupts(r) \/ GateReviewed(r)

\* What the process does for a run without anyone's help.
RunStep(r) ==
  \/ \E node \in Nodes : FailNode(r, node)
  \/ OrderIngest(r)
  \/ SkipSubgraph(r) \/ TestCache(r) \/ BuildSubgraph(r) \/ StartInner(r) \/ ResumeInner(r)
  \/ InventoryCheck(r) \/ FulfillmentPolicy(r) \/ RouteSelect(r) \/ Gate(r)
  \/ FulfillmentInstruct(r)
  \/ MergeOutput(r) \/ PropagateError(r) \/ Retry(r) \/ Proceeds(r)
  \/ NotifySkipped(r) \/ Notify(r) \/ NotifyRefused(r)

Next ==
  \/ \E r \in Runs : RunStep(r) \/ Submit(r) \/ Resume(r)
  \/ Crash
  \/ AllOver

Spec == Init /\ [][Next]_vars

\* LangGraph keeps calling the next node; callers and reviewers owe nothing.
FairSpec == Spec /\ \A r \in Runs : WF_vars(RunStep(r))
=============================================================================
