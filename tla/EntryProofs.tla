------------------------------ MODULE EntryProofs ------------------------------
(***************************************************************************)
(* The door and the reply: who is refused stays refused, through retries   *)
(* and up to the envelope, and who was vouched for does not.               *)
(***************************************************************************)
EXTENDS EntryPoints, ReviewProofs

Refused(r) == request[r] # Absent /\ ~ request[r].trusted

\* An untrusted run fails at every outer node it visits, and says why.
RefusedInv(r) ==
  Refused(r) =>
    /\ pc[r] \in {"pre_process", "main", "route", "post_process", "ended", "lost"}
    /\ pc[r] \notin {"pre_process", "lost"} =>
         outer[r].status = "error" /\ "trust" \in error_log[r]

\* Nobody else is ever denied.
TrustedInv(r) == ~ Refused(r) => "trust" \notin error_log[r]

\* A new attempt starts with nothing failed.
AttemptInv(r) ==
  /\ pc[r] \in {"idle", "pre_process"} => faulted[r] = {}
  /\ pc[r] = "idle" => request[r] = Absent

\* The reply is written at the end, and tells the refused from the others.
ReplyInv(r) ==
  Answered(r) =>
    /\ pc[r] = "ended"
    /\ Refused(r) => /\ reply[r].output \in {"denied", "refused_notice"}
                     /\ reply[r].trailer = "none" /\ reply[r].status = "error"
    /\ ~ Refused(r) => reply[r].output \notin {"denied", "refused_notice"}

AccessInv ==
  /\ error_log \in [Runs -> SUBSET Entries]
  /\ DOMAIN reply = Runs
  /\ \A r \in Runs : RefusedInv(r) /\ TrustedInv(r) /\ AttemptInv(r) /\ ReplyInv(r)

-----------------------------------------------------------------------------
(* What a step does to the run it is a step of.                            *)

\* A run is worked on between its start and its end.
LEMMA WorkedOn ==
  ASSUME NEW r \in Runs, RunStep(r) \/ Resume(r)
  PROVE  /\ pc[r] \notin {"idle", "ended", "lost"}
         /\ request' = request
<1>1. ASSUME NEW node \in Nodes, FailNode(r, node)
      PROVE  pc[r] \notin {"idle", "ended", "lost"} /\ request' = request
  BY <1>1 DEF FailNode, Nodes, OuterNodes, InnerNodes
<1>2. ASSUME RunStep(r) \/ Resume(r), \A node \in Nodes : ~ FailNode(r, node)
      PROVE  pc[r] \notin {"idle", "ended", "lost"} /\ request' = request
  BY <1>2 DEF RunStep, Resume, MayRun, OrderIngest, SkipSubgraph, TestCache, BuildSubgraph,
              StartInner, ResumeInner, InventoryCheck, FulfillmentPolicy, RouteSelect,
              Gate, GateSkipped, GateDeferred, GateInterrupts, GateReviewed, GateReturns,
              FulfillmentInstruct, MergeOutput, PropagateError, Retry, Proceeds,
              NotifySkipped, Notify, NotifyRefused, innerFrame
<1> QED BY <1>1, <1>2

\* The gates and the backbone are all a refused caller gets to.
LEMMA RefusedMoves ==
  ASSUME NEW r \in Runs, Refused(r), RefusedInv(r), pc[r] # "lost",
         RunStep(r) \/ Submit(r) \/ Resume(r)
  PROVE  \/ \E node \in OuterNodes : FailNode(r, node)
         \/ Retry(r) \/ Proceeds(r)
<1>1. pc[r] \in {"pre_process", "main", "route", "post_process", "ended"}
  BY DEF RefusedInv
<1>2. \A node \in OuterNodes : ~ MayRun(r, node)
  BY DEF MayRun, Denied, Refused
<1>3. ~ Submit(r) /\ ~ Resume(r)
  BY <1>1 DEF Submit, Resume
<1>4. ~ OrderIngest(r) /\ ~ SkipSubgraph(r) /\ ~ TestCache(r)
  BY <1>2 DEF OuterNodes, OrderIngest, SkipSubgraph, TestCache
<1>5. ~ NotifySkipped(r) /\ ~ Notify(r) /\ ~ NotifyRefused(r)
  BY <1>2 DEF OuterNodes, NotifySkipped, Notify, NotifyRefused
<1>6. ~ BuildSubgraph(r) /\ ~ StartInner(r) /\ ~ ResumeInner(r) /\ ~ MergeOutput(r) /\ ~ PropagateError(r)
  BY <1>1 DEF BuildSubgraph, StartInner, ResumeInner, MergeOutput, PropagateError
<1>7. ~ InventoryCheck(r) /\ ~ FulfillmentPolicy(r) /\ ~ RouteSelect(r) /\ ~ Gate(r) /\ ~ FulfillmentInstruct(r)
  BY <1>1 DEF InventoryCheck, FulfillmentPolicy, RouteSelect, Gate, GateSkipped, GateDeferred,
              GateInterrupts, GateReviewed, FulfillmentInstruct, MayRun
<1>8. \A node \in Nodes : FailNode(r, node) => node \in OuterNodes
  BY <1>1 DEF FailNode, Nodes, OuterNodes, InnerNodes
<1> QED BY <1>3, <1>4, <1>5, <1>6, <1>7, <1>8 DEF RunStep

-----------------------------------------------------------------------------
(* What a step writes to error_log.                                        *)

LEMMA LogOf ==
  ASSUME error_log \in [Runs -> SUBSET Entries], LogFaults, NEW r \in Runs
  PROVE  /\ error_log' \in [Runs -> SUBSET Entries]
         /\ \/ error_log'[r] = error_log[r]
            \/ \E entry \in Entries, node \in NewFaults(r) :
                 /\ Leaves(r, node, entry)
                 /\ error_log'[r] = error_log[r] \cup {entry}
<1>1. CASE \A s \in Runs : NewFaults(s) = {}
  BY <1>1 DEF LogFaults
<1>2. CASE ~ \A s \in Runs : NewFaults(s) = {}
  <2>1. PICK s \in Runs, entry \in Entries :
          /\ \E node \in NewFaults(s) : Leaves(s, node, entry)
          /\ error_log' = [error_log EXCEPT ![s] = @ \cup {entry}]
    BY <1>2 DEF LogFaults
  <2>2. error_log' \in [Runs -> SUBSET Entries]
    BY <2>1
  <2>3. CASE r = s
    BY <2>1, <2>2, <2>3
  <2>4. CASE r # s
    BY <2>1, <2>2, <2>4
  <2> QED BY <2>2, <2>3, <2>4
<1> QED BY <1>1, <1>2

\* An outer node of a run that failed anew leaves an entry of its own.
LEMMA LogOfFault ==
  ASSUME error_log \in [Runs -> SUBSET Entries], LogFaults, NEW r \in Runs,
         NewFaults(r) # {}, \A s \in Runs \ {r} : NewFaults(s) = {}
  PROVE  \E entry \in Entries, node \in NewFaults(r) :
           Leaves(r, node, entry) /\ error_log'[r] = error_log[r] \cup {entry}
<1>1. PICK s \in Runs, entry \in Entries :
        /\ \E node \in NewFaults(s) : Leaves(s, node, entry)
        /\ error_log' = [error_log EXCEPT ![s] = @ \cup {entry}]
  BY DEF LogFaults
<1>2. s = r
  BY <1>1
<1> QED BY <1>1, <1>2

\* The trust gate's entry is left by the trust gate, and by nothing else.
LEMMA EntryOfDenied ==
  ASSUME NEW r \in Runs, NEW node \in NewFaults(r), NEW entry, Leaves(r, node, entry)
  PROVE  (entry = "trust") = (~ request[r].trusted)
  BY DEF Leaves, Denied, NewFaults

-----------------------------------------------------------------------------
(* What the envelope says to whom.                                         *)

LEMMA OutputOfRefused ==
  ASSUME NEW r \in Runs, "trust" \in error_log[r], outer[r].status = "error"
  PROVE  /\ GetOutput(r).output \in {"denied", "refused_notice"}
         /\ GetOutput(r).trailer = "none" /\ GetOutput(r).status = "error"
<1>1. CASE ReaderBody(r) # Absent
  <2>1. WithTrailer(r, ReaderBody(r)) = Reply("refused_notice", "none", "error", "trust")
    BY DEF WithTrailer, RefusedBeforeAnswering
  <2>2. WithDisclaimer(r, ReaderBody(r)) = Reply("refused_notice", "none", "error", "trust")
    BY <2>1 DEF WithDisclaimer, QuotesCredential, Reply
  <2> QED BY <1>1, <2>2 DEF GetOutput, Reply
<1>2. CASE ReaderBody(r) = Absent
  BY <1>2 DEF GetOutput, RefusalReply, Reply
<1> QED BY <1>1, <1>2

LEMMA OutputOfOthers ==
  ASSUME NEW r \in Runs, "trust" \notin error_log[r]
  PROVE  GetOutput(r).output \notin {"denied", "refused_notice"}
<1>1. CASE ReaderBody(r) # Absent
  <2>1. ReaderBody(r) \notin {"denied", "refused_notice"}
    BY <1>1 DEF ReaderBody
  <2>2. WithTrailer(r, ReaderBody(r)).output = ReaderBody(r)
    BY DEF WithTrailer, RefusedBeforeAnswering, Reply
  <2>3. WithDisclaimer(r, ReaderBody(r)).output \in {ReaderBody(r), "credential_notice"}
    BY <2>2 DEF WithDisclaimer, Reply
  <2> QED BY <1>1, <2>1, <2>3 DEF GetOutput
<1>2. CASE ReaderBody(r) = Absent
  <2>1. WithTrailer(r, "nothing_produced").output = "nothing_produced"
    BY DEF WithTrailer, RefusedBeforeAnswering, Reply
  <2>2. WithDisclaimer(r, "nothing_produced").output \in {"nothing_produced", "credential_notice"}
    BY <2>1 DEF WithDisclaimer, Reply
  <2> QED BY <1>2, <2>2 DEF GetOutput, RefusalReply, Reply
<1> QED BY <1>1, <1>2

-----------------------------------------------------------------------------
(* The invariant.                                                          *)

RunAccess(r) == RefusedInv(r) /\ TrustedInv(r) /\ AttemptInv(r) /\ ReplyInv(r)

LEMMA AccessInit == ReplyInit => AccessInv
<1> SUFFICES ASSUME ReplyInit PROVE AccessInv
  OBVIOUS
<1>1. error_log \in [Runs -> SUBSET Entries] /\ DOMAIN reply = Runs
  BY DEF ReplyInit
<1>2. ASSUME NEW r \in Runs PROVE RunAccess(r)
  BY DEF ReplyInit, Init, RunAccess, RefusedInv, TrustedInv, AttemptInv, ReplyInv, Refused, Answered
<1> QED BY <1>1, <1>2 DEF AccessInv, RunAccess

\* A run that no one works on keeps its part.
LEMMA KeptRun ==
  ASSUME NEW q \in Runs, RunAccess(q),
         request'[q] = request[q], outer'[q] = outer[q], faulted'[q] = faulted[q],
         error_log'[q] = error_log[q], reply'[q] = reply[q],
         \/ pc'[q] = pc[q]
         \/ pc[q] \notin {"idle", "ended"} /\ pc'[q] = "lost"
  PROVE  RunAccess(q)'
  BY DEF RunAccess, RefusedInv, TrustedInv, AttemptInv, ReplyInv, Refused, Answered

LEMMA SubmittedRun ==
  ASSUME TypeOK, NEW r \in Runs, RunAccess(r), Submit(r),
         error_log'[r] = error_log[r], reply'[r] = reply[r]
  PROVE  RunAccess(r)'
<1>1. pc[r] = "idle" /\ pc'[r] = "pre_process" /\ faulted'[r] = {} /\ request[r] = Absent
  BY DEF TypeOK, Submit, Goto, RunAccess, AttemptInv
<1>2. "trust" \notin error_log'[r] /\ ~ Answered(r)
  BY <1>1 DEF RunAccess, TrustedInv, Refused, ReplyInv
<1> QED BY <1>1, <1>2 DEF RunAccess, RefusedInv, TrustedInv, AttemptInv, ReplyInv, Refused, Answered

\* A refused run stays refused, and its log says so.
LEMMA RefusedRun ==
  ASSUME TypeOK, NEW r \in Runs, RunAccess(r), Refused(r), pc[r] # "lost",
         RunStep(r) \/ Resume(r),
         error_log \in [Runs -> SUBSET Entries], LogFaults,
         \A s \in Runs \ {r} : NewFaults(s) = {}
  PROVE  /\ RefusedInv(r)'
         /\ pc'[r] \in {"idle", "pre_process"} => pc'[r] = "pre_process" /\ faulted'[r] = {}
<1>1. error_log[r] \subseteq error_log'[r]
  BY LogOf
<1>2. request' = request
  BY WorkedOn
<1>3. ASSUME NEW node \in OuterNodes, FailNode(r, node)
      PROVE  /\ RefusedInv(r)'
             /\ pc'[r] \notin {"idle", "pre_process"}
  <2>1. /\ pc[r] = node /\ pc'[r] = NextNode[node]
        /\ faulted'[r] = faulted[r] \cup {node}
        /\ outer[r] \in OuterStates /\ outer'[r] = [outer[r] EXCEPT !.status = "error"]
    BY <1>3 DEF TypeOK, FailNode, Goto
  <2>4. outer'[r].status = "error"
    BY <2>1 DEF OuterStates
  <2>2. pc'[r] \in {"main", "route", "ended"}
    BY <2>1 DEF NextNode, OuterNodes, InnerNodes, Nodes
  <2>3. "trust" \in error_log'[r]
    <3>1. CASE node = "pre_process"
      <4>1. node \in NewFaults(r)
        BY <2>1, <3>1 DEF NewFaults, RunAccess, AttemptInv, OuterNodes
      <4>2. PICK entry \in Entries, n \in NewFaults(r) :
              Leaves(r, n, entry) /\ error_log'[r] = error_log[r] \cup {entry}
        BY <4>1, LogOfFault
      <4> QED BY <4>2, EntryOfDenied DEF Refused
    <3>2. CASE node # "pre_process"
      BY <1>1, <2>1, <3>2 DEF RunAccess, RefusedInv, OuterNodes
    <3> QED BY <3>1, <3>2
  <2> QED BY <2>4, <2>2, <2>3 DEF RefusedInv
<1>4. CASE Retry(r)
  <2>1. pc'[r] = "pre_process" /\ faulted'[r] = {}
    BY <1>4 DEF TypeOK, Retry, Goto
  <2> QED BY <2>1 DEF RefusedInv
<1>5. CASE Proceeds(r)
  <2>1. pc[r] = "route" /\ pc'[r] \in {"post_process", "ended"} /\ outer'[r] = outer[r]
    BY <1>5 DEF TypeOK, Proceeds, Goto
  <2>2. outer[r].status = "error" /\ "trust" \in error_log[r]
    BY <2>1 DEF RunAccess, RefusedInv
  <2> QED BY <1>1, <2>1, <2>2 DEF RefusedInv
<1> QED BY <1>3, <1>4, <1>5, RefusedMoves DEF RunAccess

\* Where a run starts again.
LEMMA StartsClean ==
  ASSUME TypeOK, NEW r \in Runs, RunStep(r) \/ Resume(r),
         pc'[r] \in {"idle", "pre_process"}
  PROVE  Retry(r)
<1>1. ASSUME NEW node \in Nodes, FailNode(r, node) PROVE FALSE
  <2>1. pc'[r] = NextNode[node]
    BY <1>1 DEF TypeOK, FailNode, Goto
  <2> QED BY <2>1 DEF NextNode, Nodes, OuterNodes, InnerNodes
<1>2. ASSUME RunStep(r) \/ Resume(r), ~ Retry(r), \A node \in Nodes : ~ FailNode(r, node)
      PROVE  pc'[r] \notin {"idle", "pre_process"}
  BY <1>2 DEF TypeOK, RunStep, Resume, OrderIngest, SkipSubgraph, TestCache, BuildSubgraph,
              StartInner, ResumeInner, InventoryCheck, FulfillmentPolicy, RouteSelect,
              Gate, GateSkipped, GateDeferred, GateInterrupts, GateReviewed, GateReturns,
              FulfillmentInstruct, MergeOutput, PropagateError, Proceeds,
              NotifySkipped, Notify, NotifyRefused, Goto
<1> QED BY <1>1, <1>2

\* A run someone works on keeps its part.
LEMMA MovedRun ==
  ASSUME TypeOK, NEW r \in Runs, RunAccess(r), RunStep(r) \/ Resume(r),
         error_log \in [Runs -> SUBSET Entries], LogFaults, reply' = reply,
         \A s \in Runs \ {r} : NewFaults(s) = {}
  PROVE  RunAccess(r)'
<1>1. pc[r] \notin {"idle", "ended", "lost"} /\ request' = request
  BY WorkedOn
<1>2. ReplyInv(r)'
  BY <1>1 DEF RunAccess, ReplyInv, Answered
<1>3. AttemptInv(r)'
  <2>1. CASE pc'[r] \in {"idle", "pre_process"}
    <3>1. Retry(r)
      BY <2>1, StartsClean
    <3> QED BY <3>1 DEF TypeOK, Retry, Goto, AttemptInv
  <2>2. CASE pc'[r] \notin {"idle", "pre_process"}
    BY <2>2 DEF AttemptInv
  <2> QED BY <2>1, <2>2
<1>4. CASE Refused(r)
  <2>1. RefusedInv(r)'
    BY <1>1, <1>4, RefusedRun
  <2>2. Refused(r)'
    BY <1>1, <1>4 DEF Refused
  <2> QED BY <1>2, <1>3, <2>1, <2>2 DEF RunAccess, TrustedInv
<1>5. CASE ~ Refused(r)
  <2>1. ~ Refused(r)'
    BY <1>1, <1>5 DEF Refused
  <2>2. request[r].trusted
    BY <1>1, <1>5, RequestsAssumption DEF TypeOK, Refused
  <2>3. "trust" \notin error_log'[r]
    <3>1. "trust" \notin error_log[r]
      BY <1>5 DEF RunAccess, TrustedInv
    <3>2. CASE error_log'[r] = error_log[r]
      BY <3>1, <3>2
    <3>3. CASE error_log'[r] # error_log[r]
      <4>1. PICK entry \in Entries, node \in NewFaults(r) :
              Leaves(r, node, entry) /\ error_log'[r] = error_log[r] \cup {entry}
        BY <3>3, LogOf
      <4>2. entry # "trust"
        BY <2>2, <4>1, EntryOfDenied
      <4> QED BY <3>1, <4>1, <4>2
    <3> QED BY <3>2, <3>3
  <2> QED BY <1>2, <1>3, <2>1, <2>3 DEF RunAccess, RefusedInv, TrustedInv
<1> QED BY <1>4, <1>5

LEMMA DeliveredRun ==
  ASSUME NEW r \in Runs, Deliver(r), DOMAIN reply = Runs, NEW q \in Runs, RunAccess(q)
  PROVE  RunAccess(q)'
<1>1. UNCHANGED <<request, pc, outer, faulted, error_log>>
  BY DEF Deliver, vars
<1>2. CASE q # r
  <2>1. reply'[q] = reply[q]
    BY <1>2 DEF Deliver
  <2> QED BY <1>1, <2>1, KeptRun
<1>3. CASE q = r
  <2>1. pc[r] = "ended" /\ reply'[r] = GetOutput(r)
    BY DEF Deliver
  <2>2. Refused(r) => "trust" \in error_log[r] /\ outer[r].status = "error"
    BY <1>3, <2>1 DEF RunAccess, RefusedInv
  <2>3. ReplyInv(r)'
    <3>1. CASE Refused(r)
      BY <1>1, <2>1, <2>2, <3>1, OutputOfRefused DEF ReplyInv, Refused
    <3>2. CASE ~ Refused(r)
      <4>1. "trust" \notin error_log[r]
        BY <1>3, <3>2 DEF RunAccess, TrustedInv
      <4> QED BY <1>1, <2>1, <3>2, <4>1, OutputOfOthers DEF ReplyInv, Refused
    <3> QED BY <3>1, <3>2
  <2>4. RefusedInv(r)' /\ TrustedInv(r)' /\ AttemptInv(r)'
    BY <1>1, <1>3 DEF RunAccess, RefusedInv, TrustedInv, AttemptInv, Refused
  <2> QED BY <1>3, <2>3, <2>4 DEF RunAccess
<1> QED BY <1>2, <1>3

LEMMA AccessStep == TypeOK /\ AccessInv /\ [ReplyNext]_replyVars => AccessInv'
<1> SUFFICES ASSUME TypeOK, AccessInv, [ReplyNext]_replyVars PROVE AccessInv'
  OBVIOUS
<1>0. \A q \in Runs : RunAccess(q)
  BY DEF AccessInv, RunAccess
<1>1. CASE UNCHANGED replyVars
  <2>1. \A q \in Runs : RunAccess(q)'
    BY <1>0, <1>1, KeptRun DEF replyVars, vars
  <2> QED BY <1>1, <2>1 DEF AccessInv, RunAccess, replyVars
<1>2. ASSUME NEW r \in Runs, Deliver(r) PROVE AccessInv'
  <2>1. \A q \in Runs : RunAccess(q)'
    BY <1>0, <1>2, DeliveredRun DEF AccessInv
  <2>2. error_log' = error_log /\ DOMAIN reply' = Runs
    BY <1>2 DEF Deliver, AccessInv
  <2> QED BY <2>1, <2>2 DEF AccessInv, RunAccess
<1>3. CASE Work
  <2>1. Next /\ LogFaults /\ reply' = reply
    BY <1>3 DEF Work
  <2>2. error_log \in [Runs -> SUBSET Entries] /\ DOMAIN reply = Runs
    BY DEF AccessInv
  <2>3. ASSUME \A s \in Runs : NewFaults(s) = {} PROVE error_log' = error_log
    BY <2>1, <2>3 DEF LogFaults
  <2>4. CASE Crash \/ AllOver
    <3>1. \A q \in Runs : /\ request'[q] = request[q] /\ outer'[q] = outer[q]
                          /\ faulted'[q] = faulted[q]
                          /\ \/ pc'[q] = pc[q]
                             \/ pc[q] \notin {"idle", "ended"} /\ pc'[q] = "lost"
      BY <2>4 DEF Crash, AllOver, vars
    <3>2. error_log' = error_log
      BY <2>3, <3>1 DEF NewFaults
    <3> QED BY <1>0, <2>1, <2>2, <3>1, <3>2, KeptRun DEF AccessInv, RunAccess
  <2>5. ASSUME NEW r \in Runs, RunStep(r) \/ Submit(r) \/ Resume(r) PROVE AccessInv'
    <3>1. \A s \in Runs \ {r} : Unmoved(s)
      BY <2>5, StepsAlone
    <3>2. \A s \in Runs \ {r} : NewFaults(s) = {}
      BY <3>1 DEF Unmoved, NewFaults
    <3>3. \A s \in Runs \ {r} : error_log'[s] = error_log[s]
      BY <2>1, <2>2, <3>2, LogOf
    <3>4. \A s \in Runs \ {r} : RunAccess(s)'
      BY <1>0, <2>1, <3>1, <3>3, KeptRun DEF Unmoved
    <3>5. RunAccess(r)'
      <4>1. CASE Submit(r)
        <5>1. faulted' = faulted
          BY <4>1 DEF Submit
        <5>2. error_log' = error_log
          BY <2>3, <5>1 DEF NewFaults
        <5> QED BY <1>0, <2>1, <4>1, <5>2, SubmittedRun
      <4>2. CASE RunStep(r) \/ Resume(r)
        BY <1>0, <2>1, <2>2, <3>2, <4>2, MovedRun
      <4> QED BY <2>5, <4>1, <4>2
    <3>6. error_log' \in [Runs -> SUBSET Entries]
      BY <2>1, <2>2, LogOf
    <3> QED BY <2>1, <2>2, <3>4, <3>5, <3>6 DEF AccessInv, RunAccess
  <2> QED BY <2>1, <2>4, <2>5 DEF Next
<1> QED BY <1>1, <1>2, <1>3 DEF ReplyNext

\* The workflow under the reply is the workflow.
LEMMA ReplyRunsWorkflow == ReplySpec => Spec
<1>1. ReplyInit => Init
  BY DEF ReplyInit
<1>2. [ReplyNext]_replyVars => [Next]_vars
  BY DEF ReplyNext, Work, Deliver, replyVars
<1> QED BY <1>1, <1>2, PTL DEF ReplySpec, Spec

LEMMA Access == ReplySpec => [](Inv /\ AccessInv)
<1>1. Inv /\ AccessInv /\ [ReplyNext]_replyVars => AccessInv'
  BY AccessStep DEF Inv
<1> QED BY <1>1, AccessInit, ReplyRunsWorkflow, Invariance, PTL DEF ReplySpec

(* Whoever the trust gate refuses learns nothing, for any number of runs,  *)
(* retries and restarts, any requests and any gate that refuses            *)
(* (graph.py:217-224, output_envelope.py:651-655).                         *)
THEOREM DenialSafe == ReplySpec => []DenialTellsNothing
<1>1. Inv /\ AccessInv => DenialTellsNothing
  <2> SUFFICES ASSUME Inv, AccessInv, NEW r \in Runs, Answered(r), ~ request[r].trusted
               PROVE  /\ reply[r].output \in {"denied", "refused_notice"}
                      /\ reply[r].trailer = "none" /\ reply[r].status = "error"
    BY DEF DenialTellsNothing
  <2>1. pc[r] = "ended"
    BY DEF AccessInv, ReplyInv
  <2>2. Refused(r)
    BY <2>1, RequestsAssumption DEF Inv, TypeOK, Refused
  <2> QED BY <2>2 DEF AccessInv, ReplyInv
<1> QED BY <1>1, Access, PTL

-----------------------------------------------------------------------------
(* A run that ended has something to say.                                  *)

\* post_process ran, or an error says why it did not.
EndInv ==
  \A r \in Runs :
    pc[r] = "ended" => outer[r].status = "error" \/ outer[r].fulfillment_status # Absent

\* The steps that end a run.
LEMMA EndsOf ==
  ASSUME TypeOK, NEW r \in Runs, RunStep(r), pc'[r] = "ended"
  PROVE  \/ FailNode(r, "post_process") \/ Proceeds(r)
         \/ NotifySkipped(r) \/ Notify(r) \/ NotifyRefused(r)
<1>1. ASSUME NEW node \in Nodes, FailNode(r, node) PROVE node = "post_process"
  <2>1. pc'[r] = NextNode[node]
    BY <1>1 DEF TypeOK, FailNode, Goto
  <2> QED BY <2>1 DEF NextNode, Nodes, OuterNodes, InnerNodes
<1>2. ASSUME \A node \in Nodes : ~ FailNode(r, node)
      PROVE  Proceeds(r) \/ NotifySkipped(r) \/ Notify(r) \/ NotifyRefused(r)
  BY <1>2 DEF TypeOK, RunStep, OrderIngest, SkipSubgraph, TestCache, BuildSubgraph,
              StartInner, ResumeInner, InventoryCheck, FulfillmentPolicy, RouteSelect,
              Gate, GateSkipped, GateDeferred, GateInterrupts, GateReviewed, GateReturns,
              FulfillmentInstruct, MergeOutput, PropagateError, Retry, Goto
<1> QED BY <1>1, <1>2

LEMMA EndedWell ==
  ASSUME TypeOK, NEW r \in Runs, RunStep(r), pc'[r] = "ended"
  PROVE  outer'[r].status = "error" \/ outer'[r].fulfillment_status # Absent
<1>1. outer[r] \in OuterStates
  BY DEF TypeOK
<1>2. CASE FailNode(r, "post_process")
  <2>1. outer' = [outer EXCEPT ![r].status = "error"]
    BY <1>2 DEF FailNode, OuterNodes
  <2>2. outer'[r] = [outer[r] EXCEPT !.status = "error"]
    BY <2>1 DEF TypeOK
  <2> QED BY <1>1, <2>2 DEF OuterStates
<1>3. CASE NotifyRefused(r)
  <2>1. outer'[r] = [outer[r] EXCEPT !.status = "error"]
    BY <1>3 DEF TypeOK, NotifyRefused
  <2> QED BY <1>1, <2>1 DEF OuterStates
<1>4. CASE Proceeds(r)
  <2>1. outer' = outer /\ outer[r].status = "error"
    BY <1>4 DEF TypeOK, Proceeds, Goto
  <2> QED BY <2>1
<1>5. CASE NotifySkipped(r)
  <2>1. outer'[r].fulfillment_status = "FAILED"
    BY <1>1, <1>5 DEF TypeOK, NotifySkipped, OuterStates
  <2> QED BY <2>1, TerminalAssumption DEF Terminal
<1>6. CASE Notify(r)
  <2>1. \E instruction, escalated :
          outer'[r].fulfillment_status = FinalStatus(instruction, escalated)
    BY <1>1, <1>6 DEF TypeOK, Notify, OuterStates
  <2> QED BY <2>1, TerminalAssumption DEF FinalStatus, Terminal
<1> QED BY <1>2, <1>3, <1>4, <1>5, <1>6, EndsOf

LEMMA EndStep == TypeOK /\ EndInv /\ [Next]_vars => EndInv'
<1> SUFFICES ASSUME TypeOK, EndInv, [Next]_vars, NEW q \in Runs, pc'[q] = "ended"
             PROVE  outer'[q].status = "error" \/ outer'[q].fulfillment_status # Absent
  BY DEF EndInv
<1>1. ASSUME pc[q] = "ended", outer'[q] = outer[q]
      PROVE  outer'[q].status = "error" \/ outer'[q].fulfillment_status # Absent
  BY <1>1 DEF EndInv
<1>2. CASE UNCHANGED vars \/ AllOver \/ Crash
  <2>1. CASE UNCHANGED vars \/ AllOver
    BY <1>1, <2>1 DEF AllOver, vars
  <2>2. CASE Crash
    BY <1>1, <2>2 DEF Crash
  <2> QED BY <1>2, <2>1, <2>2
<1>3. ASSUME NEW r \in Runs, RunStep(r) \/ Submit(r) \/ Resume(r)
      PROVE  outer'[q].status = "error" \/ outer'[q].fulfillment_status # Absent
  <2>1. CASE q # r
    <3>1. Unmoved(q)
      BY <1>3, <2>1, StepsAlone
    <3> QED BY <1>1, <3>1 DEF Unmoved
  <2>2. CASE q = r
    <3>1. ~ Submit(r) /\ ~ Resume(r)
      BY <2>2 DEF TypeOK, Submit, Resume, Goto
    <3> QED BY <1>3, <2>2, <3>1, EndedWell
  <2> QED BY <2>1, <2>2
<1> QED BY <1>2, <1>3 DEF Next

LEMMA Ends == Spec => [](TypeOK /\ EndInv)
<1>1. Init => EndInv
  BY DEF Init, EndInv
<1>2. Inv => TypeOK
  BY DEF Inv
<1> QED BY <1>1, <1>2, EndStep, Invariance, PTL DEF Spec

\* Every reply says something, and has a trailer unless it denies.
ToldInv ==
  /\ DOMAIN reply = Runs
  /\ \A r \in Runs :
       Answered(r) =>
         /\ reply[r].output # "nothing_produced"
         /\ reply[r].trailer = "none" => reply[r].output \in {"denied", "refused_notice"}

LEMMA TrailerIsOne == \A language : Trailer(language) # "none"
  BY DEF Trailer, Languages

LEMMA OutputIsSome ==
  ASSUME NEW r \in Runs,
         outer[r].status = "error" \/ outer[r].fulfillment_status # Absent
  PROVE  /\ GetOutput(r).output # "nothing_produced"
         /\ GetOutput(r).trailer = "none" =>
              GetOutput(r).output \in {"denied", "refused_notice"}
<1>1. CASE ReaderBody(r) # Absent
  <2>1. ReaderBody(r) \in Bodies
    BY <1>1 DEF ReaderBody, Bodies
  <2>2. \/ WithTrailer(r, ReaderBody(r)) = Reply("refused_notice", "none", outer[r].status, "trust")
        \/ \E trailer, status, kind :
             /\ trailer # "none"
             /\ WithTrailer(r, ReaderBody(r)) = Reply(ReaderBody(r), trailer, status, kind)
    BY TrailerIsOne DEF WithTrailer
  <2>3. \/ WithDisclaimer(r, ReaderBody(r)) = WithTrailer(r, ReaderBody(r))
        \/ \E trailer, status, kind :
             /\ trailer # "none"
             /\ WithDisclaimer(r, ReaderBody(r)) = Reply("credential_notice", trailer, status, kind)
    BY TrailerIsOne DEF WithDisclaimer
  <2> QED BY <1>1, <2>1, <2>2, <2>3 DEF GetOutput, Reply, Bodies
<1>2. CASE ReaderBody(r) = Absent
  <2>1. outer[r].fulfillment_status = Absent
    BY <1>2, BodiesAssumption DEF ReaderBody, Bodies
  <2>2. GetOutput(r) = RefusalReply(r)
    BY <1>2, <2>1 DEF GetOutput
  <2> QED BY <2>2, TrailerIsOne DEF RefusalReply, Reply
<1> QED BY <1>1, <1>2

LEMMA ToldStep == EndInv /\ ToldInv /\ [ReplyNext]_replyVars => ToldInv'
<1> SUFFICES ASSUME EndInv, ToldInv, [ReplyNext]_replyVars PROVE ToldInv'
  OBVIOUS
<1>1. CASE reply' = reply
  BY <1>1 DEF ToldInv, Answered
<1>2. ASSUME NEW r \in Runs, Deliver(r) PROVE ToldInv'
  <2>1. pc[r] = "ended" /\ reply' = [reply EXCEPT ![r] = GetOutput(r)]
    BY <1>2 DEF Deliver
  <2>2. /\ GetOutput(r).output # "nothing_produced"
        /\ GetOutput(r).trailer = "none" =>
             GetOutput(r).output \in {"denied", "refused_notice"}
    BY <2>1, OutputIsSome DEF EndInv
  <2> QED BY <2>1, <2>2 DEF ToldInv, Answered
<1> QED BY <1>1, <1>2 DEF ReplyNext, Work, replyVars

(* Nobody else is left without an answer: for any number of runs, retries, *)
(* restarts and gates, a reply that denies nothing says something and has  *)
(* a trailer (graph.py:182-240, output_envelope.py:580-763).               *)
THEOREM AnswerSafe == ReplySpec => []NeverBlank
<1>1. ReplyInit => ToldInv
  BY DEF ReplyInit, ToldInv, Answered
<1>2. ReplySpec => []ToldInv
  BY <1>1, ToldStep, Ends, ReplyRunsWorkflow, PTL DEF ReplySpec
<1>3. Inv /\ AccessInv /\ ToldInv => NeverBlank
  <2> SUFFICES ASSUME Inv, AccessInv, ToldInv, NEW r \in Runs, Answered(r), request[r].trusted
               PROVE  reply[r].output # "nothing_produced" /\ reply[r].trailer # "none"
    BY DEF NeverBlank
  <2>1. reply[r].output \notin {"denied", "refused_notice"}
    BY DEF AccessInv, ReplyInv, Refused
  <2> QED BY <2>1 DEF ToldInv
<1> QED BY <1>2, <1>3, Access, PTL

-----------------------------------------------------------------------------
(* The door.                                                               *)

\* Who was let in is invoked as decided, who was not is still outside.
CallerInv(r) ==
  /\ pc[r] # "idle" =>
       /\ caller[r] \in Callers /\ ~ TurnedAway(caller[r])
       /\ request[r].trusted = (TrustOf(caller[r]) \in Vouched)
  /\ pc[r] = "idle" /\ caller[r] # Absent =>
       caller[r] \in Callers /\ TurnedAway(caller[r])

DoorInv == DOMAIN caller = Runs /\ \A r \in Runs : CallerInv(r)

LEMMA KeptCaller ==
  ASSUME NEW q \in Runs, CallerInv(q), request'[q] = request[q],
         caller'[q] = caller[q], expected' = expected, pc[q] = "idle" <=> pc'[q] = "idle"
  PROVE  CallerInv(q)'
  BY DEF CallerInv, TurnedAway, MustPresentToken, TrustOf

\* A step that submits nothing admits nobody.
LEMMA NobodyAdmitted ==
  ASSUME Admit, \A q \in Runs : ~ Invoked(q) PROVE caller' = caller
  BY DEF Admit

LEMMA SubmittedCaller ==
  ASSUME TypeOK, DoorInv, NEW r \in Runs, Submit(r), Admit, expected' = expected
  PROVE  DoorInv'
<1>1. \A q \in Runs \ {r} : Unmoved(q)
  BY StepsAlone
<1>2. Invoked(r) /\ pc'[r] = "pre_process"
  BY DEF TypeOK, Submit, Goto, Invoked
<1>3. \A q \in Runs \ {r} : ~ Invoked(q)
  BY <1>1 DEF Unmoved, Invoked
<1>4. PICK c \in Callers : /\ ~ TurnedAway(c)
                           /\ request'[r].trusted = (TrustOf(c) \in Vouched)
                           /\ caller' = [caller EXCEPT ![r] = c]
  BY <1>2, <1>3 DEF Admit
<1>5. DOMAIN caller' = Runs /\ caller'[r] = c
  BY <1>4 DEF DoorInv
<1>6. CallerInv(r)'
  BY <1>2, <1>4, <1>5 DEF CallerInv, TurnedAway, MustPresentToken, TrustOf
<1>7. ASSUME NEW q \in Runs \ {r} PROVE CallerInv(q)'
  <2>1. caller'[q] = caller[q]
    BY <1>4 DEF DoorInv
  <2> QED BY <1>1, <2>1, KeptCaller DEF DoorInv, Unmoved
<1> QED BY <1>5, <1>6, <1>7 DEF DoorInv

LEMMA WorkedOnCaller ==
  ASSUME TypeOK, DoorInv, NEW r \in Runs, RunStep(r) \/ Resume(r), Admit, expected' = expected
  PROVE  DoorInv'
<1>1. \A q \in Runs \ {r} : Unmoved(q)
  BY StepsAlone
<1>2. pc[r] # "idle" /\ request' = request
  BY WorkedOn
<1>3. pc'[r] # "idle"
  <2>1. CASE Retry(r)
    BY <2>1 DEF TypeOK, Retry, Goto
  <2>2. CASE ~ Retry(r)
    BY <2>2, StartsClean
  <2> QED BY <2>1, <2>2
<1>4. \A q \in Runs : ~ Invoked(q)
  BY <1>1, <1>2 DEF Unmoved, Invoked
<1>5. caller' = caller
  BY <1>4, NobodyAdmitted
<1>6. ASSUME NEW q \in Runs PROVE CallerInv(q)'
  BY <1>1, <1>2, <1>3, <1>5, KeptCaller DEF DoorInv, Unmoved
<1> QED BY <1>5, <1>6 DEF DoorInv

LEMMA TurnedAwayCaller ==
  ASSUME DoorInv, NEW r \in Runs, Unauthorized(r)
  PROVE  DoorInv'
<1>1. UNCHANGED <<pc, request, expected>>
  BY DEF Unauthorized, replyVars, vars
<1>2. PICK c \in Callers : TurnedAway(c) /\ caller' = [caller EXCEPT ![r] = c]
  BY DEF Unauthorized
<1>3. ASSUME NEW q \in Runs \ {r} PROVE CallerInv(q)'
  <2>1. caller'[q] = caller[q]
    BY <1>2 DEF DoorInv
  <2> QED BY <1>1, <2>1, KeptCaller DEF DoorInv
<1>4. caller'[r] = c /\ pc[r] = "idle"
  BY <1>2 DEF DoorInv, Unauthorized
<1>5. CallerInv(r)'
  BY <1>1, <1>2, <1>4 DEF CallerInv, TurnedAway, MustPresentToken
<1> QED BY <1>2, <1>3, <1>5 DEF DoorInv

LEMMA DoorStep == TypeOK /\ DoorInv /\ [EntryNext]_entryVars => DoorInv'
<1> SUFFICES ASSUME TypeOK, DoorInv, [EntryNext]_entryVars PROVE DoorInv'
  OBVIOUS
<1>1. ASSUME UNCHANGED <<pc, request, caller, expected>> PROVE DoorInv'
  BY <1>1, KeptCaller DEF DoorInv
<1>2. CASE UNCHANGED entryVars \/ DoorClosed \/ \E r \in Runs : Deliver(r) /\ UNCHANGED <<caller, expected>>
  BY <1>1, <1>2 DEF DoorClosed, Deliver, entryVars, replyVars, vars
<1>3. CASE Work /\ Admit /\ UNCHANGED expected
  <2>1. CASE Crash \/ AllOver
    <3>1. /\ request' = request
          /\ \A q \in Runs : pc'[q] = pc[q] \/ (pc[q] # "idle" /\ pc'[q] = "lost")
      <4>1. CASE Crash
        BY <4>1 DEF Crash
      <4>2. CASE AllOver
        BY <4>2 DEF AllOver, vars
      <4> QED BY <2>1, <4>1, <4>2
    <3>2. caller' = caller
      BY <1>3, <3>1, NobodyAdmitted DEF Invoked
    <3> QED BY <1>3, <3>1, <3>2, KeptCaller DEF DoorInv
  <2> QED BY <1>3, <2>1, SubmittedCaller, WorkedOnCaller DEF Work, Next
<1> QED BY <1>2, <1>3, TurnedAwayCaller DEF EntryNext

LEMMA EntryRunsReply == EntrySpec => ReplySpec
<1>1. EntryInit => ReplyInit
  BY DEF EntryInit
<1>2. [EntryNext]_entryVars => [ReplyNext]_replyVars
  BY DEF EntryNext, Unauthorized, DoorClosed, ReplyNext, entryVars
<1> QED BY <1>1, <1>2, PTL DEF EntrySpec, ReplySpec

LEMMA Door == EntrySpec => [](Inv /\ AccessInv /\ DoorInv)
<1>1. EntryInit => DoorInv
  BY DEF EntryInit, ReplyInit, Init, DoorInv, CallerInv
<1>2. Inv /\ DoorInv /\ [EntryNext]_entryVars => DoorInv'
  BY DoorStep DEF Inv
<1> QED BY <1>1, <1>2, EntryRunsReply, Access, PTL DEF EntrySpec

(* Orders are dispatched, and answers given, only for callers a middleware *)
(* vouched for or who hold the server's token, whatever the token and      *)
(* whoever calls (server.py:69-94).                                        *)
THEOREM DoorSafe == EntrySpec => []OnlyVouchedCallersAreServed
<1>1. Inv /\ AccessInv /\ DoorInv => OnlyVouchedCallersAreServed
  <2> SUFFICES ASSUME Inv, AccessInv, DoorInv, NEW r \in Runs,
                      \/ dispatched[r] = 1
                      \/ /\ Answered(r)
                         /\ reply[r].output \in {"routing", "guidance", "answer"}
               PROVE  \/ caller[r].trust \in Vouched
                      \/ /\ caller[r].trust = "ANONYMOUS"
                         /\ expected # Absent /\ caller[r].token = expected
    BY DEF OnlyVouchedCallersAreServed
  <2>1. pc[r] = "ended"
    BY DEF Inv, RunsInv, RunInv, ToldLast, AccessInv, ReplyInv
  <2>2. request[r] # Absent
    BY <2>1, RequestsAssumption DEF Inv, TypeOK
  <2>3. request[r].trusted
    BY <2>2 DEF Inv, RunsInv, RunInv, ToldLast, AccessInv, ReplyInv, Refused
  <2>4. ~ TurnedAway(caller[r]) /\ TrustOf(caller[r]) \in Vouched
    BY <2>1, <2>3 DEF DoorInv, CallerInv
  <2> QED BY <2>4 DEF TurnedAway, TrustOf, MustPresentToken
<1> QED BY <1>1, Door, PTL

(* A caller a middleware vouched for is let in and never denied, whatever  *)
(* its Authorization header holds (server.py:70-87).                       *)
THEOREM VouchedSafe == EntrySpec => []VouchedIsNotDemoted
<1>1. Inv /\ AccessInv /\ DoorInv => VouchedIsNotDemoted
  <2> SUFFICES ASSUME Inv, AccessInv, DoorInv, NEW r \in Runs,
                      caller[r] # Absent, caller[r].trust \in Vouched
               PROVE  /\ ~ IsTurnedAway(r)
                      /\ "trust" \notin error_log[r]
                      /\ Answered(r) => reply[r].output \notin {"denied", "refused_notice"}
    BY DEF VouchedIsNotDemoted
  <2>1. ~ TurnedAway(caller[r]) /\ TrustOf(caller[r]) \in Vouched
    BY DEF TurnedAway, TrustOf, MustPresentToken, Vouched
  <2>2. pc[r] # "idle"
    BY <2>1 DEF DoorInv, CallerInv
  <2>3. ~ Refused(r)
    BY <2>1, <2>2 DEF DoorInv, CallerInv, Refused
  <2> QED BY <2>2, <2>3 DEF IsTurnedAway, AccessInv, TrustedInv, ReplyInv
<1> QED BY <1>1, Door, PTL
=============================================================================
