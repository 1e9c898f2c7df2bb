------------------------ MODULE MCFulfillmentWorkflow -------------------------
(* Small instances of the workflow for TLC.                                *)
EXTENDS FulfillmentSafety

MCStock    == [WMS |-> 50, POS |-> 20, EC |-> 10]
MCPriority == <<"WMS", "POS", "EC">>

Line(sku, qty, price) ==
  [kind |-> "dict", sku |-> sku, qty |-> qty, quantity |-> Absent, unit_price |-> price]

\* A line that writes its count under "quantity".
QuantityLine(sku, n) ==
  [kind |-> "dict", sku |-> sku, qty |-> Absent, quantity |-> n, unit_price |-> 1]

BareSku(sku) ==
  [kind |-> "bare", sku |-> sku, qty |-> Absent, quantity |-> Absent, unit_price |-> Absent]

Tokyo == [form |-> "dict", region |-> "Tokyo", prefecture |-> Absent, city |-> Absent,
          segments |-> <<>>]

Order(id, items, n) ==
  [order_id |-> id, channel |-> "ec", items |-> items, quantity |-> n,
   delivery_address |-> Tokyo]

Json(payload)    == [raw |-> payload, readings |-> {payload}]
Prose(readings)  == [raw |-> Absent, readings |-> readings]

Small      == Order("small", <<Line("A", 2, 10)>>, 2)
Costly     == Order("costly", <<Line("A", 5, 600000)>>, 5)
Bulk       == Order("bulk", <<Line("A", 200, 10)>>, 200)
Scarce     == Order("scarce", <<Line("A", 60, 10)>>, 60)
BareItems  == Order("bare", <<BareSku("A")>>, 1)
BadCount   == Order("bad", <<Line("A", Junk, 10)>>, 2)
NoItems    == Order("none", <<>>, 2)
SplitLines == Order("split", <<QuantityLine("A", 50), QuantityLine("B", 50)>>, 100)
PartStock  == Order("part", <<Line("A", 5, 10), Line("B", 60, 10)>>, 65)

Request(message, trusted, allowed) ==
  [message |-> message, trusted |-> trusted, hitl_allowed |-> allowed]

\* Two interleaved runs: orders that ship, wait for a reviewer, are retried
\* or answered with guidance, and a caller the trust gate refuses.
PairRequests ==
  {Request(Json(o), TRUE, a) : o \in {Costly, Bulk, BadCount}, a \in BOOLEAN}
  \cup {Request(Prose({Absent, Small}), TRUE, TRUE), Request(Json(Small), FALSE, TRUE)}

\* One run: every kind of order.
EveryRequest ==
  {Request(Json(o), TRUE, a) :
     o \in {Small, Costly, Bulk, Scarce, BareItems, BadCount, NoItems, SplitLines, PartStock},
     a \in BOOLEAN}
  \cup {Request(Prose({Absent, Small, Costly, BadCount}), t, TRUE) : t \in BOOLEAN}

\* An order that waits for a reviewer and one that is retried.
ProgressRequests == {Request(Json(o), TRUE, TRUE) : o \in {Costly, BadCount}}

RunSymmetry == Permutations(Runs)
=============================================================================
