------------------------------ MODULE EntryPoints ------------------------------
(***************************************************************************)
(* The HTTP door of the agent, /invoke of src/api/server.py, before the    *)
(* workflow and the reply of AgentReply: whom it turns away, and at which  *)
(* trust level everyone else is invoked.  A caller is [trust, token]: the  *)
(* level an upstream middleware vouched for (ANONYMOUS when there is none) *)
(* and what the Authorization header holds.                                *)
(***************************************************************************)
EXTENDS ReplySafety

CONSTANTS
  Callers,      \* [trust, token] of those who call
  ServerTokens  \* what INVOKE_AUTH_TOKEN may be on a server, Absent when not set

\* The framework's levels that meet required_trust_level of the outer nodes.
Vouched == {"VERIFIED_EXTERNAL", "INTERNAL"}

ASSUME CallersAssumption ==
  \A c \in Callers : c # Absent /\ c.trust \in Vouched \cup {"ANONYMOUS"}

VARIABLES
  caller,    \* who called for each run, Absent before
  expected   \* INVOKE_AUTH_TOKEN of this server's environment

entryVars == <<replyVars, caller, expected>>

\* Mutant of MustPresentToken: it is asked of everyone.
EveryoneMustPresentToken(c) == expected # Absent

\* The token is asked of callers nobody vouched for, when there is one to ask.
MustPresentToken(c) == expected # Absent /\ c.trust = "ANONYMOUS"

\* Mutant of TurnedAway: only a wrong token is, not a missing one.
TurnedAwayIfWrong(c) == MustPresentToken(c) /\ c.token \notin {expected, Absent}

\* HTTP 401, before there is an invocation.
TurnedAway(c) == MustPresentToken(c) /\ c.token # expected

\* Mutant of TrustOf: whoever gets this far is taken for verified.
TrustVerified(c) == "VERIFIED_EXTERNAL"

TrustOf(c) == IF MustPresentToken(c) THEN "VERIFIED_EXTERNAL" ELSE c.trust

-----------------------------------------------------------------------------
EntryInit == ReplyInit /\ caller = [r \in Runs |-> Absent] /\ expected \in ServerTokens

Invoked(r) == pc[r] = "idle" /\ pc'[r] = "pre_process"

\* Whoever is let in is invoked with the trust level decided at the door.
Admit ==
  IF \A r \in Runs : ~ Invoked(r) THEN UNCHANGED caller
  ELSE \E r \in Runs, c \in Callers :
         /\ Invoked(r) /\ caller[r] = Absent
         /\ ~ TurnedAway(c)
         /\ request'[r].trusted = (TrustOf(c) \in Vouched)
         /\ caller' = [caller EXCEPT ![r] = c]

Unauthorized(r) ==
  /\ pc[r] = "idle" /\ caller[r] = Absent
  /\ \E c \in Callers : TurnedAway(c) /\ caller' = [caller EXCEPT ![r] = c]
  /\ UNCHANGED <<replyVars, expected>>

IsTurnedAway(r) == pc[r] = "idle" /\ caller[r] # Absent

\* Everyone has been dealt with.
DoorClosed == (\A r \in Runs : Over(r) \/ IsTurnedAway(r)) /\ UNCHANGED entryVars

EntryNext ==
  \/ Work /\ Admit /\ UNCHANGED expected
  \/ \E r \in Runs : Deliver(r) /\ UNCHANGED <<caller, expected>>
  \/ \E r \in Runs : Unauthorized(r)
  \/ DoorClosed

EntrySpec == EntryInit /\ [][EntryNext]_entryVars

-----------------------------------------------------------------------------
(* Logistics is told of an order, and a sender given an answer from it,    *)
(* only for a caller somebody vouched for: a middleware at the level the   *)
(* nodes require, or the holder of the server's token.  A server without a *)
(* token serves nobody whom no middleware vouches for, through retries and *)
(* the reply as well (server.py:69-94, order_ingest_node.py:176).          *)
OnlyVouchedCallersAreServed ==
  \A r \in Runs :
    dispatched[r] = 1 \/ (Answered(r) /\ reply[r].output \in {"routing", "guidance", "answer"})
    => \/ caller[r].trust \in Vouched
       \/ /\ caller[r].trust = "ANONYMOUS"
          /\ expected # Absent /\ caller[r].token = expected

(* A trust level a middleware established is never demoted: such a caller  *)
(* is neither turned away nor denied, whatever its header holds, and it    *)
(* gets an answer (server.py:70-87).                                       *)
VouchedIsNotDemoted ==
  \A r \in Runs :
    caller[r] # Absent /\ caller[r].trust \in Vouched =>
      /\ ~ IsTurnedAway(r)
      /\ "trust" \notin error_log[r]
      /\ Answered(r) => reply[r].output \notin {"denied", "refused_notice"}
=============================================================================
