---------------------------- MODULE MCReadingClaims ----------------------------
(* Small instances of the workflow on sentences for TLC.                   *)
EXTENDS MCFulfillmentWorkflow, ReadingClaims

Nothing == [f \in RequiredOrderFields |-> Absent]

Counted(sku, n) == [sku |-> sku, count |-> n, plain |-> TRUE]

Sentence(lines, region) ==
  [numbers |-> <<[number |-> "EC-1", form |-> "exact", around |-> FALSE]>>, lines |-> lines,
   total |-> Absent, channels |-> {"ec"}, region |-> region]

Sent(sentence) ==
  [context |-> Nothing, secrets |-> {},
   message |-> [form |-> "text", object |-> Nothing, masked |-> {}, sentence |-> sentence,
                script |-> "en"]]

\* One or two SKUs, small and large counts, with and without an address.
ReadRequests ==
  {Request([raw |-> Absent, readings |-> {Payload(s, <<>>)}, sending |-> s], TRUE, TRUE) :
     s \in {Sent(Sentence(lines, region)) :
              lines \in {<<Counted("A", 2)>>, <<Counted("A", 150)>>,
                         <<Counted("A", 2), Counted("B", 150)>>},
              region \in {Absent, "Tokyo"}}}
=============================================================================
