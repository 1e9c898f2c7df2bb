------------------------------ MODULE ReplyProofs -----------------------------
(***************************************************************************)
(* What the reader is told: the proofs of RoutedIsTold, FaultsStayErrors   *)
(* and OneLanguage.  A reply is what get_output makes of the State a run   *)
(* ended with, and that State does not change any more; so each of the     *)
(* three is a fact about ended runs, and follows from what the nodes leave *)
(* in error_log and answer_language on the way.                            *)
(***************************************************************************)
EXTENDS EntryProofs, OutcomeProofs

\* A node of the outer graph that is still to run has not failed.
NotFailedYet(r) ==
  /\ pc[r] \notin {"ended", "lost"} => "post_process" \notin faulted[r]
  /\ pc[r] \notin {"route", "post_process", "ended", "lost"} => "main" \notin faulted[r]

TextRefused(r) == error_log[r] \cap {"input", "egress"} # {}

\* What is told has a status, and an error has an entry.
Logged(r) ==
  /\ dispatched[r] = 1 /\ "egress" \notin error_log[r] =>
       outer[r].fulfillment_status # Absent
  /\ outer[r].fulfillment_status # Absent => outer[r].status = "success"
  /\ outer[r].input_unusable /\ outer[r].status = "error" => error_log[r] # {}

\* pre_process has read the language of a message in one the agent has.
LanguageRead(r) ==
  /\ pc[r] \notin {"idle", "pre_process", "lost"}
  /\ Text(r) \in Languages /\ ~ TextRefused(r) /\ "trust" \notin error_log[r]
  => reading[r].answer_language \in Languages

\* A reply is what the State of an ended run gives.
RepliesToTheEnd(r) == Answered(r) => pc[r] = "ended" /\ reply[r] = GetOutput(r)

RunReply(r) == NotFailedYet(r) /\ Logged(r) /\ LanguageRead(r) /\ RepliesToTheEnd(r)

ReplyRunInv == DOMAIN reading = Runs /\ \A r \in Runs : RunReply(r)

-----------------------------------------------------------------------------
(* What a step leaves alone.                                               *)

\* What get_output reads of a run.
SameRead(r) ==
  /\ outer'[r] = outer[r] /\ request'[r] = request[r]
  /\ error_log'[r] = error_log[r] /\ reading'[r] = reading[r]

LEMMA SameOutput ==
  ASSUME NEW r \in Runs, SameRead(r)
  PROVE  GetOutput(r)' = GetOutput(r)
<1>1. Text(r)' = Text(r) /\ ReaderBody(r)' = ReaderBody(r)
  BY DEF SameRead, Text, ReaderBody, HasFormattedOutput
<1>2. MessageScript(r)' = MessageScript(r) /\ DecidedLanguage(r)' = DecidedLanguage(r)
  BY <1>1 DEF SameRead, MessageScript, DecidedLanguage
<1>3. StatusOfNothing(r)' = StatusOfNothing(r) /\ CarriesNothing(r)' = CarriesNothing(r)
  BY <1>1, <1>2 DEF SameRead, StatusOfNothing, CarriesNothing, InputWasTheProblem,
                    GenuineFaultRecorded
<1>4. /\ WithTrailer(r, ReaderBody(r))' = WithTrailer(r, ReaderBody(r))
      /\ WithTrailer(r, "nothing_produced")' = WithTrailer(r, "nothing_produced")
  BY <1>1, <1>2, <1>3 DEF SameRead, WithTrailer, RefusedBeforeAnswering, RefusedTheMessage
<1>5. /\ WithDisclaimer(r, ReaderBody(r))' = WithDisclaimer(r, ReaderBody(r))
      /\ WithDisclaimer(r, "nothing_produced")' = WithDisclaimer(r, "nothing_produced")
  BY <1>2, <1>4 DEF SameRead, WithDisclaimer, QuotesCredential
<1>6. RefusalReply(r)' = RefusalReply(r)
  BY DEF SameRead, RefusalReply
<1> QED BY <1>1, <1>2, <1>5, <1>6 DEF SameRead, GetOutput

LEMMA KeptReply ==
  ASSUME NEW r \in Runs, RunReply(r), SameRead(r), reply'[r] = reply[r],
         faulted'[r] = faulted[r], dispatched'[r] = dispatched[r],
         pc'[r] = pc[r] \/ (pc[r] # "ended" /\ pc'[r] = "lost")
  PROVE  RunReply(r)'
<1>1. NotFailedYet(r)'
  BY DEF RunReply, NotFailedYet
<1>2. Logged(r)'
  BY DEF RunReply, Logged, SameRead
<1>3. LanguageRead(r)'
  BY DEF RunReply, LanguageRead, SameRead, Text, TextRefused
<1>4. RepliesToTheEnd(r)'
  BY SameOutput DEF RunReply, RepliesToTheEnd, Answered
<1> QED BY <1>1, <1>2, <1>3, <1>4 DEF RunReply

-----------------------------------------------------------------------------
(* What the step of a run r leaves in the log, and of the message.         *)

\* A step of r, and what AgentReply adds to it.
Steps(r) ==
  /\ RunStep(r) \/ Resume(r)
  /\ error_log \in [Runs -> SUBSET Entries] /\ LogFaults /\ ReadMessage /\ reply' = reply
  /\ \A s \in Runs \ {r} : Unmoved(s)

\* An outer node that fails is in the log.
LEMMA FaultIsLogged ==
  ASSUME TypeOK, NEW r \in Runs, Steps(r), NEW node \in OuterNodes, node \notin faulted[r],
         faulted'[r] = faulted[r] \cup {node}
  PROVE  \E entry \in Entries : Leaves(r, node, entry) /\ entry \in error_log'[r]
<1>1. NewFaults(r) = {node}
  BY DEF NewFaults
<1>2. \A s \in Runs \ {r} : NewFaults(s) = {}
  BY DEF Steps, Unmoved, NewFaults
<1>3. PICK entry \in Entries, n \in NewFaults(r) :
        Leaves(r, n, entry) /\ error_log'[r] = error_log[r] \cup {entry}
  BY <1>1, <1>2, LogOfFault DEF Steps
<1> QED BY <1>1, <1>3

LEMMA LogGrows ==
  ASSUME NEW r \in Runs, Steps(r)
  PROVE  error_log[r] \subseteq error_log'[r]
BY LogOf DEF Steps

\* pre_process alone reads the message.
LEMMA ReadingStays ==
  ASSUME NEW r \in Runs, Steps(r), DOMAIN reading = Runs
  PROVE  /\ DOMAIN reading' = Runs
         /\ \A s \in Runs \ {r} : reading'[s] = reading[s]
         /\ pc[r] # "pre_process" => reading'[r] = reading[r]
<1>1. \A s \in Runs \ {r} : ~ Ingests(s)
  BY DEF Steps, Unmoved, Ingests
<1>2. \/ reading' = reading
      \/ \E way : pc[r] = "pre_process" /\ reading' = [reading EXCEPT ![r] = way]
  BY <1>1 DEF Steps, ReadMessage, Ingests
<1> QED BY <1>2

LEMMA MessageIsRead ==
  ASSUME NEW r \in Runs, Steps(r), DOMAIN reading = Runs, Ingests(r), Text(r) \in Languages
  PROVE  reading'[r].answer_language \in Languages
<1>1. \A s \in Runs \ {r} : ~ Ingests(s)
  BY DEF Steps, Unmoved, Ingests
<1>2. PICK way \in WaysOfReading(r) : reading' = [reading EXCEPT ![r] = way]
  BY <1>1 DEF Steps, ReadMessage
<1>3. ScriptLanguage(r) \in Languages /\ LanguagesRead(r) \subseteq Languages
  BY DEF ScriptLanguage, LanguagesRead
<1>4. way.answer_language \in Languages
  BY <1>3 DEF WaysOfReading
<1> QED BY <1>2, <1>4

-----------------------------------------------------------------------------
(* The step of a run r keeps each part.                                    *)

LEMMA StillToFail ==
  ASSUME TypeOK, NEW r \in Runs, NotFailedYet(r), RunStep(r) \/ Submit(r) \/ Resume(r)
  PROVE  NotFailedYet(r)'
<1>1. ASSUME NEW node \in Nodes, FailNode(r, node) PROVE NotFailedYet(r)'
  <2>1. /\ pc[r] = node /\ pc'[r] = NextNode[node]
        /\ faulted'[r] = faulted[r] \cup {node}
    BY <1>1 DEF TypeOK, FailNode, Goto
  <2>2. CASE node \in InnerNodes
    BY <2>1, <2>2 DEF NotFailedYet, InnerNodes
  <2>3. CASE node \in OuterNodes
    BY <2>1, <2>3 DEF NotFailedYet, NextNode, Nodes, OuterNodes, InnerNodes
  <2> QED BY <2>2, <2>3 DEF Nodes
<1>2. CASE Retry(r) \/ StartInner(r)
  BY <1>2 DEF TypeOK, Retry, StartInner, Goto, NotFailedYet
<1>3. CASE NotifyRefused(r) \/ PropagateError(r)
  BY <1>3 DEF TypeOK, NotifyRefused, PropagateError, MayRun, Goto, NotFailedYet
<1>4. CASE OrderIngest(r) \/ SkipSubgraph(r) \/ TestCache(r) \/ BuildSubgraph(r) \/ ResumeInner(r)
  BY <1>4 DEF TypeOK, OrderIngest, SkipSubgraph, TestCache, BuildSubgraph, ResumeInner, MayRun,
              Goto, NotFailedYet
<1>5. CASE InventoryCheck(r) \/ FulfillmentPolicy(r) \/ RouteSelect(r) \/ FulfillmentInstruct(r)
           \/ Gate(r)
  BY <1>5 DEF TypeOK, InventoryCheck, FulfillmentPolicy, RouteSelect, FulfillmentInstruct, Gate,
              GateSkipped, GateDeferred, GateInterrupts, GateReviewed, GateReturns, innerFrame,
              MayRun, Goto, NotFailedYet
<1>6. CASE MergeOutput(r) \/ Proceeds(r) \/ NotifySkipped(r) \/ Notify(r) \/ Submit(r) \/ Resume(r)
  BY <1>6 DEF TypeOK, MergeOutput, Proceeds, NotifySkipped, Notify, Submit, Resume, MayRun, Goto,
              NotFailedYet
<1> QED BY <1>1, <1>2, <1>3, <1>4, <1>5, <1>6 DEF RunStep

\* What an error adds to the log, where the reader is owed an explanation.
LEMMA ErrorIsLogged ==
  ASSUME Inv, NEW r \in Runs, RunReply(r), AttemptInv(r), Steps(r),
         outer'[r].input_unusable, outer'[r].status = "error"
  PROVE  error_log'[r] # {}
<1>0. outer[r] \in OuterStates /\ outer \in [Runs -> OuterStates]
  BY DEF Inv, TypeOK
<1>1. CASE outer' = outer
  BY <1>1, LogGrows DEF RunReply, Logged
<1>2. ASSUME NEW node \in OuterNodes, FailNode(r, node) PROVE error_log'[r] # {}
  <2>1. pc[r] = node /\ faulted'[r] = faulted[r] \cup {node}
    BY <1>2 DEF Inv, TypeOK, FailNode
  <2>2. node \notin faulted[r]
    BY <2>1 DEF RunReply, NotFailedYet, AttemptInv, OuterNodes
  <2> QED BY <2>1, <2>2, FaultIsLogged DEF Inv
<1>3. CASE NotifyRefused(r)
  <2>1. pc[r] = "post_process" /\ faulted'[r] = faulted[r] \cup {"post_process"}
    BY <1>3 DEF Inv, TypeOK, NotifyRefused, MayRun
  <2> QED BY <2>1, FaultIsLogged DEF Inv, RunReply, NotFailedYet, OuterNodes
<1>4. CASE MergeOutput(r) \/ PropagateError(r)
  <2>1. ~ outer[r].input_unusable
    BY <1>4 DEF Inv, RunsInv, RunInv, UsableInside, MergeOutput, PropagateError
  <2>2. outer'[r].input_unusable = outer[r].input_unusable
    BY <1>4, InputStays DEF Inv, RunStep, OrderIngest, MayRun, MergeOutput, PropagateError
  <2> QED BY <2>1, <2>2
<1>5. CASE NotifySkipped(r)
  <2>1. outer'[r].status = "success"
    BY <1>0, <1>5 DEF NotifySkipped, OuterStates
  <2> QED BY <2>1
<1>6. CASE Notify(r)
  <2>1. outer'[r].status = "success"
    BY <1>0, <1>6 DEF Notify, OuterStates
  <2> QED BY <2>1
<1>7. CASE OrderIngest(r)
  <2> PICK payload \in request[r].message.readings :
        IF Unusable(payload) THEN Guide(r) ELSE Ingest(r, payload)
    BY <1>7 DEF OrderIngest
  <2>1. CASE Guide(r)
    BY <1>0, <2>1 DEF Guide, OuterStates
  <2>2. CASE Ingest(r, payload)
    BY <1>0, <2>2 DEF Ingest, OuterStates
  <2> QED BY <2>1, <2>2
<1>8. ASSUME NEW node \in InnerNodes, FailNode(r, node) PROVE outer' = outer
  BY <1>8 DEF FailNode, OuterNodes, InnerNodes
<1>9. CASE \/ SkipSubgraph(r) \/ TestCache(r) \/ BuildSubgraph(r) \/ StartInner(r)
           \/ ResumeInner(r) \/ InventoryCheck(r) \/ FulfillmentPolicy(r) \/ RouteSelect(r)
           \/ Gate(r) \/ FulfillmentInstruct(r) \/ Retry(r) \/ Proceeds(r) \/ Resume(r)
  <2>1. outer' = outer
    BY <1>9 DEF SkipSubgraph, TestCache, BuildSubgraph, StartInner, ResumeInner, InventoryCheck,
                FulfillmentPolicy, RouteSelect, Gate, GateSkipped, GateDeferred, GateInterrupts,
                GateReviewed, GateReturns, FulfillmentInstruct, Retry, Proceeds, Resume, innerFrame
  <2> QED BY <1>1, <2>1
<1> QED BY <1>1, <1>2, <1>3, <1>4, <1>5, <1>6, <1>7, <1>8, <1>9 DEF Steps, RunStep, Nodes

\* The status comes with the call to the logistics system, or the output gate
\* took it back, and left an entry.
LEMMA StatusIsLogged ==
  ASSUME Inv, Inv', NEW r \in Runs, RunReply(r), RunTold(r), RunTold(r)', AttemptInv(r), Steps(r)
  PROVE  Logged(r)'
<1>1. outer'[r].input_unusable /\ outer'[r].status = "error" => error_log'[r] # {}
  BY ErrorIsLogged
<1>2. CASE pc'[r] # "ended"
  <2>1. outer'[r].fulfillment_status = Absent /\ dispatched'[r] = 0
    BY <1>2 DEF RunTold, StatusSays, Inv, RunsInv, RunInv, ToldLast
  <2> QED BY <1>1, <2>1 DEF Logged
<1>3. CASE pc'[r] = "ended"
  <2>0. RunStep(r) /\ outer[r] \in OuterStates
    BY <1>3 DEF Steps, Inv, TypeOK, Resume, Goto
  <2>1. pc[r] # "ended"
    BY <2>0, WorkedOn
  <2>2. dispatched[r] = 0 /\ outer[r].fulfillment_status = Absent
    BY <2>1 DEF RunTold, StatusSays, Inv, RunsInv, RunInv, ToldLast
  <2>3. CASE FailNode(r, "post_process") \/ Proceeds(r)
    <3>1. /\ dispatched' = dispatched
          /\ outer' = outer \/ outer' = [outer EXCEPT ![r].status = "error"]
      BY <2>3 DEF FailNode, Proceeds, OuterNodes
    <3>2. outer'[r].fulfillment_status = Absent
      BY <2>2, <3>1, ErrorKeepsEnd DEF SameEnd, Inv
    <3> QED BY <1>1, <2>2, <3>1, <3>2 DEF Logged
  <2>4. CASE NotifySkipped(r)
    <3>1. /\ dispatched' = dispatched /\ outer'[r].status = "success"
      BY <2>0, <2>4 DEF NotifySkipped, Inv, TypeOK, OuterStates
    <3> QED BY <1>1, <2>2, <3>1 DEF Logged
  <2>5. CASE Notify(r)
    <3>1. /\ outer'[r].status = "success"
          /\ \E instruction, escalated :
               outer'[r].fulfillment_status = FinalStatus(instruction, escalated)
      BY <2>0, <2>5 DEF Notify, Inv, TypeOK, OuterStates
    <3>2. outer'[r].fulfillment_status # Absent
      BY <3>1, TerminalAssumption DEF FinalStatus, Terminal
    <3> QED BY <3>1, <3>2 DEF Logged
  <2>6. CASE NotifyRefused(r)
    <3>1. /\ ~ Denied(r, "post_process") /\ "post_process" \notin faulted[r]
          /\ faulted'[r] = faulted[r] \cup {"post_process"} /\ dispatched'[r] = 1
          /\ outer' = [outer EXCEPT ![r].status = "error"] /\ pc[r] = "post_process"
      BY <2>2, <2>6 DEF NotifyRefused, MayRun, Inv, TypeOK, RunReply, NotFailedYet
    <3>2. PICK entry \in Entries : Leaves(r, "post_process", entry) /\ entry \in error_log'[r]
      BY <3>1, FaultIsLogged DEF Inv, OuterNodes
    <3>3. entry = "egress"
      BY <2>2, <3>1, <3>2 DEF Leaves, Entries
    <3>4. outer'[r].fulfillment_status = Absent
      <4>1. outer'[r] = [outer[r] EXCEPT !.status = "error"]
        BY <3>1 DEF Inv, TypeOK
      <4> QED BY <2>0, <2>2, <4>1 DEF OuterStates
    <3> QED BY <1>1, <3>2, <3>3, <3>4 DEF Logged
  <2> QED BY <1>3, <2>0, <2>3, <2>4, <2>5, <2>6, EndsOf DEF Inv
<1> QED BY <1>2, <1>3

\* The language is read with the message, unless a gate refused its text.
LEMMA LanguageStays ==
  ASSUME Inv, NEW r \in Runs, RunReply(r), AttemptInv(r), Steps(r), DOMAIN reading = Runs
  PROVE  LanguageRead(r)'
<1>1. request' = request /\ Text(r)' = Text(r) /\ pc[r] # "idle" /\ pc[r] # "lost"
  BY WorkedOn DEF Steps, Text
<1>2. error_log[r] \subseteq error_log'[r]
  BY LogGrows
<1>3. CASE pc[r] # "pre_process"
  BY <1>1, <1>2, <1>3, ReadingStays DEF RunReply, LanguageRead, TextRefused
<1>4. CASE FailNode(r, "pre_process")
  <2>1. "pre_process" \notin faulted[r] /\ faulted'[r] = faulted[r] \cup {"pre_process"}
    BY <1>4 DEF FailNode, AttemptInv, Inv, TypeOK
  <2>2. PICK entry \in Entries : Leaves(r, "pre_process", entry) /\ entry \in error_log'[r]
    BY <2>1, FaultIsLogged DEF Inv, OuterNodes
  <2>3. entry # "raised"
    BY <2>2 DEF Leaves
  <2> QED BY <2>2, <2>3 DEF Entries, LanguageRead, TextRefused
<1>5. CASE pc[r] = "pre_process" /\ ~ FailNode(r, "pre_process")
  <2>1. OrderIngest(r)
    <3>1. \A node \in Nodes : ~ FailNode(r, node)
      BY <1>5 DEF FailNode
    <3> QED BY <1>5, <3>1
            DEF Steps, RunStep, Resume, SkipSubgraph, TestCache, BuildSubgraph, StartInner,
                ResumeInner, InventoryCheck, FulfillmentPolicy, RouteSelect, Gate, GateSkipped,
                GateDeferred, GateInterrupts, GateReviewed, FulfillmentInstruct, MergeOutput,
                PropagateError, Retry, Proceeds, NotifySkipped, Notify, NotifyRefused, MayRun
  <2>2. pc'[r] = "main" /\ faulted' = faulted
    BY <2>1 DEF OrderIngest, Goto, Inv, TypeOK
  <2>3. Ingests(r)
    BY <1>5, <2>2 DEF Ingests, NewFaults
  <2> QED BY <1>1, <2>3, MessageIsRead DEF LanguageRead
<1> QED BY <1>3, <1>4, <1>5

LEMMA MovedReply ==
  ASSUME Inv, Inv', NEW r \in Runs, RunReply(r), RunTold(r), RunTold(r)', AttemptInv(r), Steps(r),
         DOMAIN reading = Runs
  PROVE  RunReply(r)'
<1>1. NotFailedYet(r)' /\ Logged(r)' /\ LanguageRead(r)'
  BY StillToFail, StatusIsLogged, LanguageStays DEF Inv, RunReply, Steps
<1>2. RepliesToTheEnd(r)'
  BY WorkedOn DEF Steps, RunReply, RepliesToTheEnd, Answered
<1> QED BY <1>1, <1>2 DEF RunReply

LEMMA SubmittedReply ==
  ASSUME Inv, NEW r \in Runs, RunReply(r), Submit(r), error_log'[r] = error_log[r],
         reply' = reply
  PROVE  RunReply(r)'
<1>1. /\ UNCHANGED <<outer, dispatched, faulted>>
      /\ pc[r] = "idle" /\ pc'[r] = "pre_process"
  BY DEF Inv, TypeOK, Submit, Goto
<1>2. NotFailedYet(r)' /\ Logged(r)' /\ LanguageRead(r)'
  BY <1>1 DEF RunReply, NotFailedYet, Logged, LanguageRead
<1> QED BY <1>1, <1>2 DEF RunReply, RepliesToTheEnd, Answered

LEMMA DeliveredReply ==
  ASSUME NEW r \in Runs, Deliver(r), DOMAIN reply = Runs, NEW q \in Runs, RunReply(q)
  PROVE  RunReply(q)'
<1>1. SameRead(q) /\ UNCHANGED <<pc, faulted, dispatched>>
  BY DEF Deliver, SameRead, vars
<1>2. CASE q # r
  <2>1. reply'[q] = reply[q]
    BY <1>2 DEF Deliver
  <2> QED BY <1>1, <2>1, KeptReply
<1>3. CASE q = r
  <2>1. pc'[q] = "ended" /\ reply'[q] = GetOutput(q)
    BY <1>1, <1>3 DEF Deliver
  <2>2. RepliesToTheEnd(q)'
    BY <1>1, <2>1, SameOutput DEF RepliesToTheEnd
  <2>3. NotFailedYet(q)' /\ Logged(q)' /\ LanguageRead(q)'
    BY <1>1 DEF RunReply, NotFailedYet, Logged, LanguageRead, SameRead, Text, TextRefused
  <2> QED BY <2>2, <2>3 DEF RunReply
<1> QED BY <1>2, <1>3

-----------------------------------------------------------------------------
LEMMA ReplyStep ==
  /\ Inv /\ Inv' /\ AccessInv /\ OutcomeInv /\ OutcomeInv' /\ ReplyRunInv
  /\ [ReplyNext]_replyVars
  => ReplyRunInv'
<1> SUFFICES ASSUME Inv, Inv', AccessInv, OutcomeInv, OutcomeInv', ReplyRunInv,
                    [ReplyNext]_replyVars
             PROVE  ReplyRunInv'
  OBVIOUS
<1>0. /\ \A q \in Runs : RunReply(q) /\ RunTold(q) /\ RunTold(q)' /\ AttemptInv(q)
      /\ DOMAIN reading = Runs /\ DOMAIN reply = Runs
      /\ error_log \in [Runs -> SUBSET Entries]
  BY DEF ReplyRunInv, AccessInv, OutcomeInv
<1>1. CASE UNCHANGED replyVars
  <2>1. \A q \in Runs : RunReply(q)'
    BY <1>0, <1>1, KeptReply DEF replyVars, vars, SameRead
  <2> QED BY <1>0, <1>1, <2>1 DEF ReplyRunInv, replyVars
<1>2. ASSUME NEW r \in Runs, Deliver(r) PROVE ReplyRunInv'
  BY <1>0, <1>2, DeliveredReply DEF ReplyRunInv, Deliver
<1>3. CASE Work
  <2>1. Next /\ LogFaults /\ ReadMessage /\ reply' = reply
    BY <1>3 DEF Work
  <2>2. ASSUME NEW r \in Runs, Submit(r) PROVE ReplyRunInv'
    <3>1. \A s \in Runs \ {r} : Unmoved(s)
      BY <2>2, StepsAlone DEF Inv
    <3>2. faulted' = faulted /\ pc[r] = "idle"
      BY <2>2 DEF Submit
    <3>3. error_log' = error_log /\ reading' = reading
      BY <2>1, <3>1, <3>2 DEF LogFaults, NewFaults, ReadMessage, Ingests, Unmoved
    <3>4. \A s \in Runs \ {r} : RunReply(s)'
      BY <1>0, <2>1, <3>1, <3>3, KeptReply DEF Unmoved, SameRead
    <3>5. RunReply(r)'
      BY <1>0, <2>1, <2>2, <3>3, SubmittedReply
    <3> QED BY <1>0, <3>3, <3>4, <3>5 DEF ReplyRunInv
  <2>3. ASSUME NEW r \in Runs, RunStep(r) \/ Resume(r) PROVE ReplyRunInv'
    <3>1. \A s \in Runs \ {r} : Unmoved(s)
      BY <2>3, StepsAlone DEF Inv
    <3>2. Steps(r)
      BY <1>0, <2>1, <2>3, <3>1 DEF Steps
    <3>3. DOMAIN reading' = Runs /\ \A s \in Runs \ {r} : reading'[s] = reading[s]
      BY <1>0, <3>2, ReadingStays
    <3>4. \A s \in Runs \ {r} : error_log'[s] = error_log[s]
      <4>1. \A s \in Runs \ {r} : NewFaults(s) = {}
        BY <3>1 DEF Unmoved, NewFaults
      <4> QED BY <1>0, <2>1, <4>1, LogOf
    <3>5. \A s \in Runs \ {r} : RunReply(s)'
      BY <1>0, <2>1, <3>1, <3>3, <3>4, KeptReply DEF Unmoved, SameRead
    <3>6. RunReply(r)'
      BY <1>0, <3>2, MovedReply
    <3> QED BY <3>3, <3>5, <3>6 DEF ReplyRunInv
  <2>4. CASE Crash \/ AllOver
    <3>1. /\ UNCHANGED <<request, outer, faulted, dispatched>>
          /\ \A q \in Runs : pc'[q] = pc[q] \/ (pc[q] # "ended" /\ pc'[q] = "lost")
      BY <2>4 DEF Crash, AllOver, vars
    <3>2. error_log' = error_log /\ reading' = reading
      BY <2>1, <3>1 DEF LogFaults, NewFaults, ReadMessage, Ingests
    <3>3. \A q \in Runs : RunReply(q)'
      BY <1>0, <2>1, <3>1, <3>2, KeptReply DEF SameRead
    <3> QED BY <1>0, <3>2, <3>3 DEF ReplyRunInv
  <2> QED BY <2>1, <2>2, <2>3, <2>4 DEF Next
<1> QED BY <1>1, <1>2, <1>3 DEF ReplyNext

LEMMA ReplyInitially == ReplyInit => ReplyRunInv
<1> SUFFICES ASSUME ReplyInit PROVE ReplyRunInv
  OBVIOUS
<1>1. DOMAIN reading = Runs
  BY DEF ReplyInit
<1>2. ASSUME NEW r \in Runs PROVE RunReply(r)
  <2>1. /\ pc[r] = "idle" /\ outer[r] = NewOuter /\ faulted[r] = {} /\ dispatched[r] = 0
        /\ reply[r] = Absent
    BY DEF ReplyInit, Init
  <2>2. outer[r].fulfillment_status = Absent /\ outer[r].input_unusable = FALSE
    BY <2>1 DEF NewOuter
  <2> QED BY <2>1, <2>2 DEF RunReply, NotFailedYet, Logged, LanguageRead, RepliesToTheEnd, Answered
<1> QED BY <1>1, <1>2 DEF ReplyRunInv

LEMMA Replies == ReplySpec => [](Inv /\ AccessInv /\ OutcomeInv /\ ReplyRunInv)
  BY ReplyInitially, ReplyStep, ReplyRunsWorkflow, Outcome, Access, PTL DEF ReplySpec

-----------------------------------------------------------------------------
(* The three properties.                                                   *)

\* A body under a trailer keeps its text, and its status unless refused.
LEMMA TrailerKeeps ==
  ASSUME NEW r \in Runs, NEW body, "trust" \notin error_log[r]
  PROVE  /\ WithTrailer(r, body).output = body
         /\ WithTrailer(r, body).trailer = Trailer(DecidedLanguage(r))
         /\ WithTrailer(r, body).status \in {outer[r].status, "success"}
BY DEF WithTrailer, RefusedBeforeAnswering, StatusOfNothing, Reply

(* A reader who is told that a location was selected, is told so of an     *)
(* order the logistics system has to ship; and whoever's order it has, is  *)
(* told, for any number of runs, retries and restarts and any gate that    *)
(* refuses (graph.py:257-296, notify_logistics_node.py:37-56).             *)
THEOREM RoutedSafe == ReplySpec => []RoutedIsTold
<1>1. Inv /\ AccessInv /\ OutcomeInv /\ ReplyRunInv => RoutedIsTold
  <2> SUFFICES ASSUME Inv, AccessInv, OutcomeInv, ReplyRunInv, NEW r \in Runs, Answered(r)
               PROVE  /\ reply[r].output = "routing"
                           /\ outer[r].fulfillment_status = "ORDER_ROUTED" =>
                           dispatched[r] = 1 /\ Ships(outer[r].fulfillment_instruction)
                      /\ dispatched[r] = 1 /\ "egress" \notin error_log[r] =>
                           /\ reply[r].output \in {"routing", "credential_notice"}
                           /\ reply[r].status = "success"
    BY DEF RoutedIsTold
  <2>1. outer[r].fulfillment_status = "ORDER_ROUTED" =>
          dispatched[r] = 1 /\ Ships(outer[r].fulfillment_instruction)
    BY DEF OutcomeInv, RunTold, StatusSays
  <2>2. ASSUME dispatched[r] = 1, "egress" \notin error_log[r]
        PROVE  /\ reply[r].output \in {"routing", "credential_notice"}
               /\ reply[r].status = "success"
    <3>1. /\ outer[r].fulfillment_status # Absent /\ outer[r].status = "success"
          /\ reply[r] = GetOutput(r)
      BY <2>2 DEF ReplyRunInv, RunReply, Logged, RepliesToTheEnd
    <3>2. /\ outer[r].fulfillment_instruction # Absent /\ ~ outer[r].input_unusable
          /\ request[r].trusted
      BY <2>2 DEF Inv, RunsInv, RunInv, ToldLast, Fresh
    <3>3. "trust" \notin error_log[r]
      BY <3>2 DEF AccessInv, TrustedInv, Refused
    <3>4. ReaderBody(r) = "routing" /\ "routing" # Absent
      BY <3>1, <3>2, BodiesAssumption DEF ReaderBody, Bodies
    <3>5. reply[r] = WithDisclaimer(r, "routing")
      BY <3>1, <3>4 DEF GetOutput
    <3> QED BY <3>1, <3>3, <3>5, TrailerKeeps DEF WithDisclaimer, Reply
  <2> QED BY <2>1, <2>2
<1> QED BY <1>1, Replies, PTL

(* Whatever failed in whatever attempt: a run that ended in an error is    *)
(* delivered as a success when the S-2 gate declined the message of a      *)
(* caller the agent serves, or when the S-3 gate blocked an output and     *)
(* there was no guidance to give; and in no other case                     *)
(* (graph.py:217-238, output_envelope.py:132-137, 657-734).                *)
THEOREM FaultsSafe == ReplySpec => []FaultsStayErrors
<1>1. Inv /\ AccessInv /\ OutcomeInv /\ ReplyRunInv => FaultsStayErrors
  <2> SUFFICES ASSUME Inv, AccessInv, OutcomeInv, ReplyRunInv, NEW r \in Runs, Answered(r),
                      outer[r].status = "error"
               PROVE  reply[r].status = "success" <=>
                        \/ MessageDeclined(r)
                        \/ request[r].trusted /\ OutputBlockedUnguided(r)
    BY DEF FaultsStayErrors
  <2>1. /\ reply[r] = GetOutput(r) /\ pc[r] = "ended"
        /\ outer[r].fulfillment_status = Absent
    BY DEF ReplyRunInv, RunReply, RepliesToTheEnd, Logged
  <2>2. error_log[r] \subseteq Entries
    BY DEF AccessInv
  <2>3. CASE ~ request[r].trusted
    <3>1. Refused(r)
      BY <2>1, <2>3, RequestsAssumption DEF Inv, TypeOK, Refused
    <3>2. reply[r].status = "error"
      BY <3>1 DEF AccessInv, ReplyInv
    <3> QED BY <2>3, <3>2 DEF MessageDeclined
  <2>4. CASE request[r].trusted
    <3>1. "trust" \notin error_log[r]
      BY <2>4 DEF AccessInv, TrustedInv, Refused
    <3>2. CASE ~ outer[r].input_unusable
      <4>1. ReaderBody(r) = Absent
        BY <2>1, <3>2 DEF ReaderBody, HasFormattedOutput
      <4>2. reply[r] = RefusalReply(r)
        BY <2>1, <4>1 DEF GetOutput
      <4>3. reply[r].status = "success" <=> \E entry \in error_log[r] : IsSecurityRefusal(entry)
        BY <3>1, <4>2 DEF RefusalReply, Reply
      <4> QED BY <2>4, <3>2, <4>3
              DEF IsSecurityRefusal, MessageDeclined, OutputBlockedUnguided
    <3>3. CASE outer[r].input_unusable
      <4>1. ReaderBody(r) = "guidance" /\ ReaderBody(r) # Absent
        BY <3>3, BodiesAssumption DEF ReaderBody, Bodies
      <4>2. reply[r] = WithDisclaimer(r, "guidance")
        BY <2>1, <4>1 DEF GetOutput
      <4>3. reply[r] = WithTrailer(r, "guidance")
        BY <3>1, <4>2, TrailerKeeps DEF WithDisclaimer, QuotesCredential
      <4>4. error_log[r] # {}
        BY <3>3 DEF ReplyRunInv, RunReply, Logged
      <4>5. CASE "input" \in error_log[r]
        BY <2>4, <3>1, <4>3, <4>5
           DEF WithTrailer, RefusedBeforeAnswering, RefusedTheMessage, Reply, MessageDeclined
      <4>6. CASE "input" \notin error_log[r]
        <5>1. StatusOfNothing(r) = "error"
          BY <2>2, <4>4, <4>6 DEF StatusOfNothing, GenuineFaultRecorded, Entries
        <5>2. reply[r].status = "error"
          BY <3>1, <4>3, <4>6, <5>1
             DEF WithTrailer, RefusedBeforeAnswering, RefusedTheMessage, Reply
        <5> QED BY <3>3, <4>6, <5>2 DEF MessageDeclined, OutputBlockedUnguided
      <4> QED BY <4>5, <4>6
    <3> QED BY <3>2, <3>3
  <2> QED BY <2>3, <2>4
<1> QED BY <1>1, Replies, PTL

(* The two rules that choose a language agree: whoever writes in one the   *)
(* agent has reads the routing text and its trailer in the same one,       *)
(* unless a gate refused the text of the run (graph.py:263,                *)
(* output_envelope.py:365-397, 755-762).                                   *)
THEOREM OneLanguageSafe == ReplySpec => []OneLanguage
<1>1. Inv /\ AccessInv /\ OutcomeInv /\ ReplyRunInv => OneLanguage
  <2> SUFFICES ASSUME AccessInv, ReplyRunInv, NEW r \in Runs, Answered(r),
                      reply[r].output = "routing", Text(r) \in Languages, ~ TextRefused(r)
               PROVE  reply[r].trailer = RoutingLanguage(r)
    BY DEF OneLanguage, TextRefused
  <2>1. reply[r] = GetOutput(r) /\ pc[r] = "ended"
    BY DEF ReplyRunInv, RunReply, RepliesToTheEnd
  <2>2. "trust" \notin error_log[r]
    BY DEF AccessInv, ReplyInv, TrustedInv
  <2>3. reading[r].answer_language \in Languages
    BY <2>1, <2>2 DEF ReplyRunInv, RunReply, LanguageRead
  <2>4. DecidedLanguage(r) = reading[r].answer_language
    BY <2>3 DEF DecidedLanguage, Languages
  <2>5. reply[r] \in {WithDisclaimer(r, ReaderBody(r)), WithDisclaimer(r, "nothing_produced")}
    BY <2>1 DEF GetOutput, RefusalReply, Reply
  <2>6. reply[r].trailer = Trailer(DecidedLanguage(r))
    BY <2>2, <2>5, TrailerKeeps DEF WithDisclaimer, Reply
  <2> QED BY <2>3, <2>4, <2>6 DEF Trailer, Languages, RoutingLanguage
<1> QED BY <1>1, Replies, PTL
=============================================================================
