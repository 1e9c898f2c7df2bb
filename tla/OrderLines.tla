------------------------------ MODULE OrderLines ------------------------------
(***************************************************************************)
(* The domain logic of FulfillmentService on an order that grows one line  *)
(* at a time: what one more line does to the stock snapshot, the policy    *)
(* decision and the route.                                                 *)
(***************************************************************************)
EXTENDS FulfillmentService

CONSTANTS
  Lines,       \* the lines an order may hold
  Quantities,  \* what its own `quantity` field may say
  MaxLines     \* bound on its length

ASSUME OrderLinesAssumption ==
  /\ MaxLines \in Nat
  /\ \A line \in Lines :
       {line.qty, line.quantity, line.unit_price} \subseteq Int \cup {Absent, Null, Junk}

VARIABLES items, quantity

lineVars == <<items, quantity>>

LinesInit == items = <<>> /\ quantity \in Quantities

AddLine ==
  /\ Len(items) < MaxLines
  /\ \E line \in Lines : items' = Append(items, line)
  /\ UNCHANGED quantity

LinesSpec == LinesInit /\ [][AddLine]_lineVars

-----------------------------------------------------------------------------
TheOrder  == [items |-> items, quantity |-> quantity]
Snapshot  == AggregateInventory(items)
Decision  == ApplyFulfillmentPolicy(TheOrder)
Evaluable == ~ InventoryRaises(items) /\ ~ PolicyRaises(TheOrder)

(* select_route's two loops: the route is the first pair, SKUs in the      *)
(* order they were sent and channels by priority within a SKU, in which    *)
(* the channel covers the need; no pair, no route                          *)
(* (fulfillment_service.py:101-116).                                       *)
RouteIsFirstThatServes ==
  Evaluable =>
    LET route == SelectRoute(Snapshot, Decision)
        Serves(i, j) == CanServe(ChannelPriority[j], Snapshot[i])
    IN  IF route.fulfillable
          THEN \E i \in DOMAIN Snapshot, j \in DOMAIN ChannelPriority :
                 /\ route.sku = Snapshot[i].sku
                 /\ route.source_channel = ChannelPriority[j]
                 /\ Serves(i, j)
                 /\ \A k \in DOMAIN Snapshot, m \in DOMAIN ChannelPriority :
                      k < i \/ (k = i /\ m < j) => ~ Serves(k, m)
          ELSE \A i \in DOMAIN Snapshot, j \in DOMAIN ChannelPriority : ~ Serves(i, j)

\* The readable lines, and those among some lines that name a SKU.
ReadableAt == {k \in DOMAIN items : ReadableLine(items[k])}
Naming(lines, sku) == {k \in DOMAIN lines : ReadableLine(lines[k]) /\ SkuOf(lines[k]) = sku}

Earliest(K) == CHOOSE k \in K : \A m \in K : k <= m
Latest(K)   == CHOOSE k \in K : \A m \in K : m <= k

(* The snapshot has one entry for each SKU of a readable line, at the      *)
(* place the SKU was first named, and needs what the last line naming it   *)
(* needs: repeated lines are not added up (fulfillment_service.py:58-71).  *)
SnapshotKeepsTheLastNeed ==
  ~ InventoryRaises(items) =>
    /\ {SkuOf(items[k]) : k \in ReadableAt} = {e.sku : e \in ToSet(Snapshot)}
    /\ \A i, j \in DOMAIN Snapshot :
         i < j => Earliest(Naming(items, Snapshot[i].sku))
                    < Earliest(Naming(items, Snapshot[j].sku))
    /\ \A i \in DOMAIN Snapshot :
         Snapshot[i].qty_needed =
           NumberOr(RequestedQty(items[Latest(Naming(items, Snapshot[i].sku))]), 1)

NoNegative(line) == UnitPrice(line) >= 0 /\ PolicyQty(line) >= 0

\* The lines came to no unit, so it was the order's own quantity that asked for
\* the review, and not its amount; and the line that is added has units.
QuantityGivesWay ==
  /\ TotalOf(PolicyQty, items) = 0 /\ ~ FalsyNumber(quantity)
  /\ quantity >= VolumeThreshold /\ Decision.total_amount < AmountThreshold
  /\ PolicyQty(Last(items')) > 0

(* What one more line does to the review: a line with no negative number   *)
(* takes an order the policy wants reviewed out of review in one case      *)
(* only, when it is the first with units and it was the order's own        *)
(* `quantity` that asked.  Lines of 0 units under a quantity of 200 are    *)
(* due for review, and with a line of 1 unit they no longer are; an order  *)
(* due for its amount, or for units of its lines, stays due                *)
(* (fulfillment_service.py:85-90).                                         *)
MoreLinesNoLessReview ==
  [][/\ Evaluable /\ Evaluable'
     /\ NoNegative(Last(items'))
     /\ Decision.requires_hitl
     => Decision'.requires_hitl \/ QuantityGivesWay]_lineVars
=============================================================================
