----------------------------- MODULE MCOrderLines -----------------------------
(* Small orders for TLC.                                                   *)
EXTENDS DoorPolicies

MCStock    == [WMS |-> 50, POS |-> 20, EC |-> 10]
MCPriority == <<"POS", "EC", "WMS">>

LineOf(kind, sku, qty, n, price) ==
  [kind |-> kind, sku |-> sku, qty |-> qty, quantity |-> n, unit_price |-> price]

\* Counts at and beyond each channel's stock, repeated SKUs, missing names,
\* zero, null and negative counts, lines that are bare or no order lines at all.
MCLines ==
  {LineOf("dict", sku, n, Absent, 10) : sku \in {"A", "B"}, n \in {0, 10, 20, 21, 51}}
  \cup {LineOf("dict", "B", 5, Absent, 100000), LineOf("dict", "A", Absent, 15, Absent),
        LineOf("dict", "B", -10, Absent, 10), LineOf("dict", Null, Null, Absent, 10),
        LineOf("dict", "A", Junk, Absent, 10), LineOf("bare", "C", Absent, Absent, Absent),
        LineOf("other", Absent, Absent, Absent, Absent)}
=============================================================================
