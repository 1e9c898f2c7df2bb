----------------------------- MODULE MCReplyClaims ----------------------------
(* The instance of MCAgentReply, with the documented claims.               *)
EXTENDS MCAgentReply, ReplyClaims
=============================================================================
