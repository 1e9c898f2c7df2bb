----------------------------- MODULE MCEntryPoints -----------------------------
(* Small instances of the HTTP door for TLC.                               *)
EXTENDS MCAgentReply, EntryPoints

\* Every level, with the token, with another one and without.
MCCallers ==
  [trust : Vouched \cup {"ANONYMOUS"}, token : {Absent, "right", "wrong"}]

\* A server that has a token, and one that has none.
MCServerTokens == {Absent, "right"}
=============================================================================
