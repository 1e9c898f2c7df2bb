-------------------------- MODULE FulfillmentSafety ---------------------------
(***************************************************************************)
(* What the workflow of FulfillmentWorkflow.tla promises about an order.   *)
(***************************************************************************)
EXTENDS FulfillmentWorkflow

Locations == Nodes \cup {"idle", "build", "call", "awaiting", "merge", "route", "ended", "lost"}

-----------------------------------------------------------------------------
(* The values the fields of the two States take.                           *)

Readable  == UNION {req.message.readings : req \in Requests}
Ingestible == {payload \in Readable : ~ Unusable(payload)}
RawInputs == {req.message.raw : req \in Requests} \cup {Absent}

Orders          == {Envelope(payload) : payload \in Ingestible}
InnerOrders     == Orders \cup RawInputs
Workable        == {o \in InnerOrders : HasItems(o)}
Snapshots       == {AggregateInventory(o.items) :
                      o \in {x \in Workable : ~ InventoryRaises(x.items)}}
PolicyDecisions == {ApplyFulfillmentPolicy(o) : o \in {x \in Workable : ~ PolicyRaises(x)}}
Routes          == {SelectRoute(s, d) : s \in Snapshots \cup {<<>>}, d \in PolicyDecisions}
Drafts          == [selected_route : Routes \cup {Absent}, policy_decision : PolicyDecisions]
Instructions    == {BuildFulfillmentInstruction(o, route, outcome) :
                      o \in Workable, route \in Routes \cup {Absent},
                      outcome \in Outcomes}

Optional(S) == S \cup {Absent}
Statuses    == {"success", "error"}
Terminal    == {"ORDER_ROUTED", "HITL_ESCALATION", "FAILED"}

\* A field that is missing, or None, is told from each value a node sets it to.
ASSUME TerminalAssumption == Absent \notin Terminal /\ Null # "rejected"
ASSUME ComputedAssumption ==
  /\ Absent \notin Snapshots /\ Absent \notin PolicyDecisions /\ Absent \notin Routes
  /\ Absent \notin Drafts    /\ Absent \notin Instructions

OuterStates ==
  [input_unusable : BOOLEAN, validated_order : Optional(InnerOrders),
   delivery_region : Optional({RegionFromAddress(p.delivery_address) : p \in Ingestible}),
   validated_input : Optional(Orders), inventory_snapshot : Optional(Snapshots),
   policy_decision : Optional(PolicyDecisions), selected_route : Optional(Routes),
   hitl_review_outcome : Optional(Outcomes), fulfillment_instruction : Optional(Instructions),
   notification_sent : Optional(BOOLEAN), hitl_escalated : Optional(BOOLEAN),
   fulfillment_status : Optional(Terminal), status : Optional(Statuses)]

InnerStates ==
  [user_input : InnerOrders, validated_order : Optional(Workable),
   inventory_snapshot : Optional(Snapshots), policy_decision : Optional(PolicyDecisions),
   selected_route : Optional(Routes), hitl_draft : Optional(Drafts),
   hitl_review_outcome : Optional(Outcomes), fulfillment_instruction : Optional(Instructions),
   status : Optional(Statuses)]

(* Type invariant: where every run is, and what the nodes leave in the two *)
(* States declared by schemas/state.py.                                    *)
TypeOK ==
  /\ pc \in [Runs -> Locations]
  /\ request \in [Runs -> Optional(Requests)]
  /\ \A r \in Runs : pc[r] # "idle" => request[r] \in Requests
  /\ outer \in [Runs -> OuterStates]
  /\ inner \in [Runs -> InnerStates]
  /\ feedback \in [Runs -> Feedbacks \cup {NoAnswer}]
  /\ shown \in [Runs -> Optional(Drafts)]
  /\ retries \in [Runs -> 0 .. MaxRetry]
  /\ faulted \in [Runs -> SUBSET Nodes]
  /\ dispatched \in [Runs -> Nat]
  /\ handle \in [Runs -> Nat]
  /\ built \in Nat /\ subgraph \in 0 .. built
  /\ crashes \in 0 .. MaxCrashes

-----------------------------------------------------------------------------
Ships(instruction) == instruction # Absent /\ instruction.action = "ship"

Asks(decision) == decision # Absent /\ decision.requires_hitl

\* The decision asks for a review, a human can be asked and the gate works.
ReviewDue(r, decision) ==
  Asks(decision) /\ request[r].hitl_allowed /\ "hitl_gate" \notin Refusable

Accepted(r) == feedback[r] # NoAnswer /\ OutcomeOf(feedback[r]) # "rejected"

(* An order the policy wants reviewed, in a composition where a human can  *)
(* be asked, leaves with a ship instruction only if a reviewer answered    *)
(* it, did not reject it, and the instruction carries that very answer:    *)
(* through the interrupt, the resume, a rebuilt subgraph, a retry and any  *)
(* node refused on the way but the gate itself (graph.py:69-108,           *)
(* hitl_gate_node.py:29-68, fulfillment_service.py:119-129).               *)
ReviewedBeforeShipping ==
  \A r \in Runs :
    Ships(outer[r].fulfillment_instruction) /\ ReviewDue(r, outer[r].policy_decision)
    => /\ Accepted(r)
       /\ outer[r].fulfillment_instruction.hitl_review_outcome = OutcomeOf(feedback[r])

(* The inner edges are unconditional, so a failed node is followed by the  *)
(* next one; still, an order is shipped only when inventory, policy and    *)
(* route all completed for it in the attempt that ships it, and the route  *)
(* found stock (fulfillment_workflow_graph.py:57-63).                      *)
ShipsOnlyIfEvaluated ==
  \A r \in Runs :
    Ships(outer[r].fulfillment_instruction)
    => /\ faulted[r] \cap (InnerNodes \ {"hitl_gate"}) = {}
       /\ outer[r].inventory_snapshot # Absent
       /\ outer[r].policy_decision # Absent
       /\ Fulfillable(outer[r].selected_route)

(* Over retries, resumes and refused results the logistics system is told  *)
(* of a run at most once, of the instruction the last attempt built, and   *)
(* never about a message that was answered with guidance or a caller the   *)
(* trust gate refused (notify_logistics_node.py:23-56, graph.py:96-98).    *)
DispatchedOnceAndFresh ==
  \A r \in Runs :
    /\ dispatched[r] <= 1
    /\ dispatched[r] = 1 =>
         /\ Over(r)
         /\ outer[r].fulfillment_instruction # Absent
         /\ outer[r].fulfillment_instruction = inner[r].fulfillment_instruction
         /\ ~ outer[r].input_unusable
         /\ request[r].trusted

(* The terminal status a calling system branches on says what logistics    *)
(* was told: routed means told to ship; escalated means a reviewer said no *)
(* and logistics was told to hold; and a rejection in a run in which no    *)
(* node failed always ends as an escalation, whatever the stock            *)
(* (notify_logistics_node.py:33-44).                                       *)
StatusTellsTheOutcome ==
  \A r \in Runs :
    /\ outer[r].fulfillment_status = "ORDER_ROUTED" =>
         dispatched[r] = 1 /\ Ships(outer[r].fulfillment_instruction)
    /\ outer[r].fulfillment_status = "HITL_ESCALATION" =>
         /\ dispatched[r] = 1 /\ ~ Ships(outer[r].fulfillment_instruction)
         /\ feedback[r] # NoAnswer /\ OutcomeOf(feedback[r]) = "rejected"
    /\ pc[r] = "ended" /\ faulted[r] = {} /\ feedback[r] # NoAnswer
         /\ OutcomeOf(feedback[r]) = "rejected" =>
         outer[r].fulfillment_status = "HITL_ESCALATION"

(* What ships is what the reviewer was shown: the draft of the interrupt   *)
(* carries the same decision and the same source as the instruction, even  *)
(* when the resumed run finds its checkpoint gone and computes everything  *)
(* again (hitl_gate_node.py:40-57, graph.py:62-66).  It needs the          *)
(* recomputation to be undisturbed: no inner node refused.                 *)
ShownIsWhatShips ==
  \A r \in Runs :
    /\ Ships(outer[r].fulfillment_instruction)
    /\ feedback[r] # NoAnswer
    /\ Refusable \cap InnerNodes = {}
    => /\ shown[r] # Absent
       /\ shown[r].policy_decision = outer[r].policy_decision
       /\ shown[r].selected_route = outer[r].selected_route
       /\ shown[r].selected_route.source_channel =
            outer[r].fulfillment_instruction.source_channel

(* A run the process works on always comes to rest: it ends, waits for a   *)
(* reviewer or dies with it.  Retries run out, no run waits on another, a  *)
(* resumed run cannot circle between the gate and the restart              *)
(* (config.yaml max_retry, graph.py:69-108).                               *)
EveryRunSettles ==
  \A r \in Runs :
    pc[r] \notin {"idle", "awaiting"} ~> pc[r] \in {"awaiting", "ended", "lost"}

\* The most steps a run can take before it rests: of the attempt it is in,
\* and of the retries it has left.
StepsAhead ==
  [idle |-> 13, pre_process |-> 12, main |-> 11, build |-> 10, call |-> 9,
   inventory_check |-> 8, fulfillment_policy |-> 7, route_select |-> 6, hitl_gate |-> 5,
   fulfillment_instruct |-> 4, merge |-> 3, route |-> 2, post_process |-> 1,
   awaiting |-> 0, ended |-> 0, lost |-> 0]

StepsLeft(r) == StepsAhead[pc[r]] + 12 * (MaxRetry - retries[r])

(* Why a run settles: every step the process takes for it, failed nodes,   *)
(* rebuilt subgraphs, resumed gates and retries included, leaves it fewer  *)
(* steps to take; only a reviewer's answer gives it more (graph.py:69-108, *)
(* fulfillment_workflow_graph.py:57-63, config.yaml max_retry).            *)
EveryStepIsProgress ==
  [][\A r \in Runs : RunStep(r) => StepsLeft(r)' \in 0 .. StepsLeft(r) - 1]_vars
=============================================================================
