# Formal model of the retail fulfillment agent

TLA+ specifications, TLC configurations and machine-checked proofs about
RET-C2-267, the omnichannel inventory sync and fulfillment orchestration agent
of this repository. `PROJECT.json` maps every definition to the source lines it
models, and lists the runs, findings, hazards and theorems.

## 1. The system

One process holds one compiled agent. A caller comes through a door (the HTTP
adapter `src/api/server.py`, or the Marketplace runner started by `cli.py`) and
sends a message; the *outer graph* (`src/graph/graph.py`) runs `pre_process ->
main -> {route} -> post_process`, where `pre_process` reads an order out of the
message, `main` runs the *inner graph*
(`src/graph/fulfillment_workflow_graph.py`), and `post_process` tells logistics;
`get_output` turns the final State into a reply.

| Component | State it keeps | Operations | What makes it correct | Modelled in |
|---|---|---|---|---|
| Domain logic, `services/fulfillment_service.py` | none | validate, region, stock snapshot, policy, route, instruction, notify | the route is the first that serves; one more line never means less review, except the first line with units where the order's own `quantity` had asked for it | `FulfillmentService`, `OrderLines` |
| Inner graph and nodes, `nodes/*` | inner State, checkpoint in an in-memory saver | inventory, policy, route, gate (skip, defer, interrupt, review), instruct | no unreviewed or unevaluated order ships, whatever node fails | `FulfillmentWorkflow` |
| Subgraph wrapper, `graph.py` | `_subgraph`, the cached inner graph | test and build the cache, extract input, merge output, propagate an interrupt or an error | a reviewer's answer reaches the order it was given for | `FulfillmentWorkflow` |
| Backbone (framework) | outer State, retries, suspended runs | submit, retry, route, resume | a run settles; side effects are not repeated by retries | `FulfillmentWorkflow` (external) |
| Intake node, `order_ingest_node.py` | none of its own | object, packet or sentence to order, or guidance | what the sender wrote stands; guidance is enough to complete the order | `OrderReading`, `OrderIntake` |
| Caller packet, `caller_packet.py` | none | choose context or message, repair masked values | a masked number costs that number and no more | `OrderReading` |
| Message understanding, `input_intake.py`, `llm_provider.py` | none | one call of the model in up to four attempts, language and fields | the model can complete an order and do nothing else | `OrderReading` |
| Notification node | none | notify or skip, terminal status | told once, of the last instruction; the status says what was told | `FulfillmentWorkflow` |
| Reply, `get_output`, `output_envelope.py`, `disclaimer.py` | `error_log`, language, degradation mark in State | body, trailer, status, refusal kind | the reader is told what happened; a denied caller nothing | `AgentReply` |
| HTTP adapter, `api/server.py` | the process's policy and token | authenticate, set the trust level, invoke | only vouched callers are served, and vouched ones never demoted | `EntryPoints`, `DoorPolicies` |
| Marketplace entry point, `cli.py` | the process's configuration | configure | decides like the other door | `DoorPolicies` |
| `kb_port.py`, `utils/audit.py` | none | unused port, logging | | not modelled |

How they interact. The nodes communicate through State only. The inner State
starts from one JSON string, so the outer State is not visible inside.
`interrupt()` in the inner gate raises through both graphs; `Resume` re-executes
`main`, which re-enters the inner graph where its checkpoint is. The node
objects, and so the cached subgraph, are shared by all runs of a process
(`llm_provider.py:22-24` says a node instance is shared across invocations).
The door decides the trust level once; the S-1 gate of each node tests it.

What is hard here. Two runs that both find the cache empty; a resume that finds
its checkpoint gone; unconditional inner edges after a failed node; retries
that start from the State the failed attempt left; a notification that was made
while its result is refused; a restart that loses suspended runs; a reply
composed by predicates that read what several attempts left behind; an order
put together from patterns, a packet, masked text and a model that may answer
anything in any of four attempts; and a policy that reaches the graph through
one door only. The `hazards` of `PROJECT.json` name the lines.

## 2. The modules

| Module | What it is |
|---|---|
| `FulfillmentService` | the domain functions as operators, with their truthiness, defaults and failures |
| `FulfillmentWorkflow` | the state machine of outer and inner graph; extends the above |
| `FulfillmentSafety` | type invariant, safety invariants, progress and liveness |
| `OrderLifecycle` | the abstract specification: an order is received, perhaps reviewed, and closed, and logistics told at most once |
| `FulfillmentRefinement` | the refinement mapping and `ImplementsLifecycle` |
| `AgentReply`, `ReplySafety` | the workflow beside the State the reply reads, `get_output` and `with_disclaimer`; their properties |
| `EntryPoints` | the HTTP door composed with the workflow and the reply; its two properties |
| `OrderReading` | `OrderIngestNode.execute` as operators: packet and repair, patterns, the call of the model, merge, guidance |
| `OrderIntake`, `IntakeSafety` | a sender in dialogue with the intake node; its properties |
| `OrderLines`, `DoorPolicies` | an order that grows line by line, to check the domain functions against references and the two doors against each other |
| `DocumentedClaims`, `ReplyClaims`, `ReadingClaims` | statements of docs, comments and configuration that the code does not keep |
| `FulfillmentInvariant` | the inductive invariant of the workflow, one named part per stage of a run |
| `FulfillmentProofs`, `ReviewProofs`, `OutcomeProofs`, `RefinementProofs` | proofs about the workflow |
| `EntryProofs`, `ReplyProofs` | proofs about the reply and the door |
| `IntakeProofs` | proofs about the intake |
| `LineProofs` | proofs about the domain functions on orders of any length, and about the two doors |
| `MC*` | small instances: orders, messages, requests, callers, answers of the model |

**Workflow.** `outer[r]` and `inner[r]` are the two State dicts of run `r`: a
field per key of `schemas/state.py` the nodes read, `Absent` for a key that is
not set (or `{}`, which the code treats alike). `pc[r]` is the node about to
run; `build` and `call` split `get_subgraph` at its test (`graph.py:104`),
`merge` is the return from the inner graph, `route` the backbone's decision,
`awaiting` a suspended run. `feedback` is the resume value, `shown` the draft of
the interrupt. `handle[r]` names the subgraph that holds the run's inner
checkpoint and `subgraph` the cached one; they differ after `BuildSubgraph` of
another run. `faulted` and `dispatched` record what no State field does: which
nodes of the attempt failed, and the calls to logistics.

**Failures.** `BaseNode.__call__` runs the trust and input gates before
`execute()` and the output gate after it, and turns a refusal or an exception
into `{status: error, error_log}`. `FailNode` does this when the node rejects
its input, raises on what the order holds, the caller is denied, or the node is
in `Refusable` (a gate may refuse it, and need not). `NotifyRefused` is the
output gate of the notification, after the call was made.

**Framework.** What the code leaves to the framework is nondeterministic:
whether a pending answer survives a start without a checkpoint (`StartInner`),
whether an inner error is merged or raised (`MergeOutput`, `PropagateError`),
and whether a run out of retries still passes `post_process` (`Proceeds`). One
thing is assumed of it: a retry of `main` starts the inner State afresh, although
the cached subgraph and its saver live on (`graph.py:62-66`, `104-107`).
`ShipsOnlyIfEvaluated` rests on that, because an inner State left over from a
failed attempt would still hold its outputs.

**Data.** What the properties do not tell apart is left out of the orders: a SKU
is one field (`item_id`, its fallback, is read alike), a count is an integer, a
marker or unreadable (`true`, which the shape check takes for 1, is not among
them), and of what the routing text quotes only the order id can be shaped like
a credential: `RoutedIsTold` says what follows when the text holds one, not
where in it.

**Reply.** `AgentReply` conjoins to each step of the workflow what that step
leaves in `error_log` (by the gate that refused), `answer_language` and
`drafting_degraded`; `Deliver` is `get_output`, which runs once at the end of a
run and reads State only. What there
is to say to the reader (guidance, the routing text, or the plain answer, which
no run reaches) is a member of `Bodies`; the seven returns of `with_disclaimer`
are the alternatives of `WithDisclaimer` and `RefusalReply` in their order. A
message is English, Japanese, symbols or empty; a text with letters in neither
language is not among them (section 5).

**Door.** `EntryPoints` lets a caller `[trust, token]` in or turns it away with
a 401, and conjoins `Admit` to the workflow: a run is submitted only for a
caller who was let in, at the trust level the door decided. `DoorPolicies`
instantiates `FulfillmentService` twice, with the policy each door configures.

**Intake.** In `FulfillmentWorkflow` a message carries the set of orders it may
be read as. `OrderReading` is how it is read: a message is an object, an object
with masked numbers, a sentence or blank; a sentence is the numbers, lines,
total, channels and region a reader finds in it, each with the way it is
written, which decides whether a pattern matches it. `Ask` walks the four
attempts to call the model (`input_intake.py:271-313`), `FieldsKept` and
`HasShape` decide what of its answer may be merged. `Padded` is a text with an
order number in it that is not only that number. `OrderIntake` puts a sender in
front of it: `Send`, `OrderIngest` (the whole of `execute`), and `Amend`, a
sender who follows the guidance and writes plainly what it names.

Names ending in a mutated form and commented *Mutant of* are plausible bugs of
a definition; they show that a property can fail and are used by nothing else.

## 3. What the runs show

Passing runs:

| Run | Instance | Distinct states | Shows |
|---|---|---|---|
| `workflow_safety` | 2 runs, an order over a threshold, a bulk order out of stock, one with an unreadable count, a sentence, a denied caller; route and notification refusable; 1 retry, 1 restart | 801,322 | `TypeOK`, `ReviewedBeforeShipping`, `ShipsOnlyIfEvaluated`, `DispatchedOnceAndFresh`, `StatusTellsTheOutcome` |
| `workflow_faults` | 1 run, 20 requests, every node refusable, 2 retries, 1 restart | 332,301 | what ships was evaluated and is told once under every fault, and the inductive invariant `RunsInv` |
| `workflow_progress` | 2 fair runs, a costly order and one with an unreadable count, a notification refusable at every attempt, 1 retry, 1 restart | 80,470 | `ShownIsWhatShips` across a replaced subgraph, `ImplementsLifecycle`, `EveryStepIsProgress`, `EveryRunSettles` |
| `reply` | 1 run from the door to the envelope: callers of 3 trust levels with 3 headers, a server with and without a token, packets, objects and sentences in 4 kinds of text, every kind of gate entry, 1 retry | 102,177 | `OnlyVouchedCallersAreServed`, `VouchedIsNotDemoted`, `DenialTellsNothing`, `NeverBlank`, `RoutedIsTold`, `FaultsStayErrors`, `OneLanguage` |
| `order_lines` | all orders of up to 3 of 17 lines, a negative count among them, two quantities, the policy file as shipped | 10,440 | `RouteIsFirstThatServes`, `SnapshotKeepsTheLastNeed`, `BothDoorsDecideAlike`, `MoreLinesNoLessReview` |
| `intake` | dialogues of up to 3 messages: 1,116 first messages (objects, masked objects, packets in the context, a context with an empty address, sentences that lack or obscure a field) with and without a model, 100 courses of its attempts | 71,333 | `ModelOnlyCompletes`, `DegradedMeansPatternsAlone`, `ModelCostsNothing`, `NoDefaultLanguage`, `MaskCostsOneField`, `GuidanceSuffices` |

Runs that end in a violation, each a disagreement between code and text (the
`findings` quote both):

| Run | The text | What the code does |
|---|---|---|
| `claim_referral` | orders over a threshold require a review before the instruction | referred for review because no human can be asked, and shipped |
| `claim_gate` | the same | the result of the gate is refused, its outcome is missing, and a missing one is read as `auto_approved` |
| `claim_volume` | orders of 100 units require a review | a count under `quantity` is sourced as it is and weighed as one unit |
| `claim_count` | what is written plainly is read | the first count of a sentence is every line's |
| `claim_fault` | a run that broke stays an error | later nodes overwrite the status |
| `claim_egress` | a blocked output stays an error, and invites no retry | `get_output` answers it as a success and asks to send the order again, after logistics was told to ship it |

In `claim_gate` and `claim_egress` the output gate of a node refuses what the
node returned; which results it refuses is the framework's, and what the code
does then is the code's.

Seen in the models and not kept as runs, because they are smaller, rest on the
framework, or are another face of one above:

* two concurrent first invocations each build the subgraph that is "built once"
  (`graph.py:66`, `104`), if the framework runs them concurrently;
* an answer of the reviewer outside the three documented ones ships
  (`hitl_gate_node.py:66`, `docs/02_design.md:65`);
* the route is decided by the first SKU with stock, so an order ships with
  another of its lines out of stock (`fulfillment_service.py:105`, and `:54-55`,
  which says it fails closed when no channel has sufficient stock);
* `items` is declared as a field that "IS consumed" (`agent_scope.py:82-85`), but
  a list becomes a string (`input_intake.py:196`) that the shape check drops
  (`order_ingest_node.py:128`): `ModelOnlyCompletes` says that no line of an
  order is ever the model's;
* `get_output`'s own two refusals set no `refusal_kind` (`graph.py:209-238`),
  which "names the refusal" by `docs/03_test_spec.md:80-82`;
* the routing text returns before `drafting_degraded` is looked at
  (`graph.py:305-323`), so the sender of prose is never told to check the order
  (`docs/02_design.md:138-140`);
* a packet in `input_context` comes first by `docs/02_design.md:137-138`, and is
  not looked at when the message is a JSON object (`order_ingest_node.py:194`);
* the shape check searches the model's text for an order number, so words
  around it stay in the `order_id` (`order_ingest_node.py:125`, `121-122`);
* the guidance says four fields suffice (`agent_scope.py:39`), and a
  `delivery_address` is required as well (`fulfillment_service.py:12`);
* the notice of a credential says an order was not processed that has been
  routed (`output_envelope.py:180-182`, `805`);
* a message refused before it was read gets both trailers although its language
  can be told (`graph.py:225`), and a Japanese routing text that follows such a
  refusal an English trailer (`graph.py:263`, `output_envelope.py:385-397`).

Bounds, and why they are enough. Two runs share only the cached subgraph, and
one other run is what it takes to replace it; the door and the reply share
nothing between runs, so one run is enough there. `MaxRetry` is 1 or 2 (the
code's is 3): State after a second failed attempt is of the same kind as after
the first, and the proofs hold for every value. `MaxCrashes` is 1: a restart
leaves nothing behind but finished runs. Symmetry on `Runs` is used in
`workflow_safety` only, whose properties are invariants. Orders have one or two
lines in the workflow and three in `order_lines`, where a third is needed for
two entries with a repeated SKU between them. `MaxRounds` is 3: every message
is read on its own, so a dialogue is a first message, one that follows guidance
without names (the object the guidance shows), and one that follows guidance
with names. The courses of the model's attempts are every kind of answer on the
first attempt, which is how the adapter behaves, and a client that fails twice
on the form of the call before it answers or gives up. Stock is the code's
table; thresholds are those of the policy file.

Deadlock is checked in the workflow and reply runs. `order_lines` and `intake`
are bounded enumerations that stop at their bound.

Fairness. `FairSpec` is weak fairness of each run's own steps: LangGraph calls
the next node until the graph ends, without help. Nothing is assumed of callers
and reviewers, so a suspended run may wait for ever, and no single outcome of a
nondeterministic step is favoured. Restarts are possible and not fair; a run
that a restart interrupts is lost, which is where it settles: the in-memory
savers make that a limit of the code.

## 4. What is proved

Checked by TLAPS for every value of the constants: any number of runs, any
requests, orders, stock, thresholds, reviewers' answers, callers, tokens,
messages, answers of the model, set of refusable nodes and bounds.

| Theorem | States | Rests on the invariant |
|---|---|---|
| `TypeCorrect` (`FulfillmentProofs`) | `TypeOK` | itself |
| `ProgressSafe` (`FulfillmentProofs`) | `EveryStepIsProgress` | `TypeOK` |
| `RunsSafe`, `ReviewSafe`, `DispatchSafe` (`ReviewProofs`) | `RunsInv`, `ReviewedBeforeShipping`, `DispatchedOnceAndFresh` | `Inv` |
| `EvaluatedSafe` (`ReviewProofs`) | `ShipsOnlyIfEvaluated` | `EvalInv` |
| `StatusSafe`, `ShownSafe` (`OutcomeProofs`) | `StatusTellsTheOutcome`, `ShownIsWhatShips` | `OutcomeInv` |
| `LifecycleImplemented` (`RefinementProofs`) | `ImplementsLifecycle`, where nothing refuses the gate itself | all of these |
| `DenialSafe`, `AnswerSafe` (`EntryProofs`) | `DenialTellsNothing`, `NeverBlank` | `AccessInv`; `EndInv`, `ToldInv` |
| `DoorSafe`, `VouchedSafe` (`EntryProofs`) | `OnlyVouchedCallersAreServed`, `VouchedIsNotDemoted` | `AccessInv`, `DoorInv` |
| `RoutedSafe`, `OneLanguageSafe` (`ReplyProofs`) | `RoutedIsTold`, `OneLanguage` | `OutcomeInv`, `ReplyRunInv` |
| `FaultsSafe` (`ReplyProofs`) | `FaultsStayErrors`: when a failed run is delivered as a success, and when not | `OutcomeInv`, `ReplyRunInv` |
| `LanguageSafe`, `DegradedSafe`, `ModelHarmless`, `CompletionSafe` (`IntakeProofs`) | `NoDefaultLanguage`, `DegradedMeansPatternsAlone`, `ModelCostsNothing`, `ModelOnlyCompletes` | `ReadOfTheMessage` |
| `MaskSafe` (`IntakeProofs`) | `MaskCostsOneField` | `ReadOfTheMessage`, `WholeMessage` |
| `GuidanceSafe` (`IntakeProofs`) | `GuidanceSuffices` | `ReadOfTheMessage`, `WholeMessage`, `GuidedInv` |
| `SnapshotSafe`, `RouteSafe` (`LineProofs`) | `SnapshotKeepsTheLastNeed`, `RouteIsFirstThatServes` | `LastNeedInv` |
| `MoreLinesReviewed` (`LineProofs`) | `MoreLinesNoLessReview`, for a volume threshold that is not negative | `LastNeedInv` |
| `DoorsAlike` (`LineProofs`) | `BothDoorsDecideAlike`, for a policy file that says what the shipped one says, or less | none |

Assumptions: the named ASSUMEs, which TLC evaluates in the runs. The marker
values differ from each other and from data (`MarkersAssumption`,
`PaddedAssumption`, `BodiesAssumption`, `TerminalAssumption`,
`ComputedAssumption`: a missing field is told from each value a node sets it
to); stock is a count (`StockAssumption`); `main` has no gate of its own to
refuse it, and "no answer" is not an answer (`WorkflowAssumption`); a message
has at least one reading and one of the forms and texts named
(`RequestsAssumption`, `MessagesAssumption`); a caller has one of the
framework's trust levels (`CallersAssumption`); what the policy file configures
is a list of channels and two numbers, where it says anything
(`PolicyAssumption`); the numbers of an order line are integers or markers
(`OrderLinesAssumption`); a message has its five parts, a sentence writes what
`Writings` lists, and the gate masks only numbers that are there
(`IntakeAssumption`); a count, a list of lines or a region that was read is not
a marker (`ReadAssumption`); the sender wants an order that nothing is missing
in (`WantedAssumption`); bounds are numbers.

Three theorems need more, in their statements. `LifecycleImplemented`: a gate
that may itself be refused loses the review it asked for, which the life cycle
forbids. `MoreLinesReviewed`: under a negative volume threshold an order whose
lines come to a negative number would be due for review, and a line that brings
them to zero hands the decision to the order's own `quantity`. `DoorsAlike`: the
Marketplace door has no policy but the defaults in the code, so a file that says
something else would be followed at one door only.

The argument, workflow. `TypeOK` is inductive: each node writes what a domain
function returns on an order from a known set, so its proof is one lemma per
way of writing State. The safety properties speak of merged State and are not
inductive: a retry or a resume could bring an old instruction or a missing
answer along. Three invariants say what holds on the way.

* `Inv`: there is no instruction in the outer State before a merge nor in the
  inner one before its last node, an attempt starts unanswered, past the gate a
  due review has its answer and State holds it, an attempt that may be retried
  carries no instruction, the inner graph only works on a usable order,
  logistics is told last. One lemma per action, reduced to the run that moves
  (`OtherRuns`, `OneRun`), combined in `InvStep`.
* `EvalInv`: the edges between the inner nodes are unconditional, so what
  protects an order is that each output is computed from the one before.
  `Chain` says an output that is there has its predecessor, and its node did
  not fail; `NotYet` that a node still to run has neither failed nor left
  anything; `Evaluated` carries both over the merge.
* `OutcomeInv`: whatever the inner graph computes in an attempt, in the cached
  subgraph or in the one that replaced it, it computes from the same input
  (`OnInput`), so a draft that was shown and an instruction computed again
  agree. `Verdict` ties the outcome in State to the reviewer's answer,
  `Questioned` what was shown to the input, and `StatusSays` the terminal
  status to what was told.

* Progress needs only `TypeOK`: `StepsLeft` counts the places ahead of a run in
  the attempt it is in and twelve for each retry left. Every disjunct of
  `RunStep` lowers it, a failed node (which goes on to the next one) and a retry
  (which starts over, with one retry fewer) included. With it, all that
  `EveryRunSettles` adds is that a step that can be taken is taken.

The refinement maps a run to its phase, whether its review was asked, the
verdict, the status and what was told. Most steps stutter; the one hard step is
the dispatch of a ship instruction, which the life cycle allows only when the
review that was asked is answered and accepted. `ShipsCleared` proves that from
the three invariants together.

Reply and door. A theorem about `Spec` holds of `ReplySpec` and `EntrySpec`,
whose steps are steps of the workflow or leave it unchanged. `AccessInv` ties
`error_log` to the caller's trust, `EndInv` says a run ends in an error or with
a status, and `ReplyRunInv` what `get_output` finds: an outer node still to run
has not failed, what was told has a status unless the output gate refused it, a
status comes with success, the language of a readable message was read unless a
gate refused the text, and a reply is what the State of an ended run gives.
`FaultsSafe` is an equivalence: a failed run is delivered as a success when the
S-2 gate declined a trusted caller's message, or the S-3 gate blocked an output
and there was no guidance to give, and in no other case. The first is what the
docs ask for (`docs/03_test_spec.md:74-78`); the second is what they rule out,
and the finding of `claim_egress`.

Intake. Every message is read on its own, so the invariant is one line,
`ReadOfTheMessage`: an answer is `execute` of the message it answers. The
theorems are then facts about `Execute`, with lemmas about the merge, the
shapes and the calls of the model. Two theorems compare readings of two
messages. `MaskSafe` needs that what was sent is whole (`WholeMessage`): only
then is a masked field one that is there, so that the mark in its place neither
adds to what is missing nor hides it. `GuidanceSafe` needs that a message which
follows guidance is `Complete`: its order is found and nothing is missing in it,
so the model is not asked and nothing it says matters. `AmendedComplete` proves
that by where the order was read. Of a sentence it is `WrittenComplete`, field
by field: the number that was added is the first the pattern matches or another
one before it is; the counts that no pattern read are taken away before the
total is added; lines that are there have one SKU at least. It is false for a
message-borne packet beside a context with an empty address: the context
outranks the message, so the sender has to correct it there (`Corrected`).

Lines. What the snapshot, the amount and the volume are is a fold over the lines
of an order. The community modules define a fold by recursion over the subsets
of its positions; `FoldExists` proves, for any step and any number of lines, that
a function with that recursion exists, and the lemmas after it that what the
first k + 1 lines give is the step applied to what the first k give. The
induction is the absence of a least counterexample (`LeastNat`, `UpTo`), because
the library's induction rules take an operator. `LastNeedInv` relates the snapshot of the order so far
to its lines: an entry for each SKU a readable line names, in the order of first
mention, with the need of the last mention. `AddLine` adds one step to the fold,
which either changes one entry in place or appends one. `MoreLinesReviewed`
also says where the code is not monotone: an order whose lines come to no unit
is weighed by its own `quantity` (`fulfillment_service.py:85-90`), so lines of 0
units with a `quantity` of 200 are due for review, and with a line of 1 unit
they are not. `QuantityGivesWay` is that case, and the theorem that it is the
only one.

Only model-checked: `EveryRunSettles`, because liveness under fairness, and
that a step is ENABLED, are beyond the prover. The six statements of section 3
that the code does not keep have a counterexample instead of a proof.

## 5. Not modelled

* Wording, formatting, logging, prompts and `/health`; fractions of quantities
  and prices; address parsing beyond the choice of region; which characters a
  pattern matches (a sentence holds what is written and how).
* The verdict and the suggestion of `understand_input`: the agent reads
  neither. `build_llm_client_from_provider`: nothing here calls it.
* `kb_port.py`: no module imports it. `utils/audit.py`: no decision depends on
  it.
* In `output_envelope.py`, the machine format, the rendering of structured
  bodies and the sample-data notice: no body of this agent reaches them.
* `language_of_answer` of `disclaimer.py`. It is asked about the answer to a
  message that has letters but is in no language the agent tells
  (`output_envelope.py:91-99`, `455`, `761`). The models have no such message:
  what language its trailer gets is decided by counting characters. `OneLanguage` is about the messages
  whose language can be told.
* A reused `session_id`. What a second invocation of a session finds in the
  checkpointer is decided by the framework, which is not in this repository.
* A repeated delivery of one order by its caller: it is two unrelated runs, as
  nothing in the code relates them. For the same reason there is no property
  about a run suspended at the HTTP door, which has no endpoint to resume it;
  in the model, too, it may wait for ever.
* Inside the framework, what this code does not rely on.

## 6. Plan

Everything planned is done: the workflow, the reply, the intake, the doors,
the refinement, and a proof of every safety and action property the runs check.
What would be next, if the code grows: sessions, once the repository reads
State of an earlier message; an idempotency key for orders, which would give a
repeated delivery something to be checked against; and a resume operation at
the HTTP door, with the matching action in `EntryPoints`.
