-------------------------- MODULE FulfillmentService --------------------------
(***************************************************************************)
(* The deterministic domain logic of src/services/fulfillment_service.py:  *)
(* the checks and computations the workflow's nodes call.                  *)
(*                                                                         *)
(* An order line is a record                                               *)
(*    [kind, sku, qty, quantity, unit_price]                               *)
(* where kind is "dict" (a JSON object), "bare" (a SKU written as a plain  *)
(* string) or "other" (any other JSON value).  A key the object lacks is   *)
(* Absent, a null or an empty string is Null and text that does not read   *)
(* as a number is Junk; every other quantity or price is an integer.       *)
(***************************************************************************)
EXTENDS Integers, Sequences, SequencesExt

CONSTANTS
  Absent,              \* the key is not in the dict
  Null,                \* Python's None
  Junk,                \* a value float() and int() refuse
  ChannelBaseStock,    \* _CHANNEL_BASE_STOCK: the stock each channel reports
  ConfiguredPriority,  \* routing.channel_priority of the policy file, or Absent
  ConfiguredAmount,    \* hitl.amount_threshold_jpy, or Absent
  ConfiguredVolume     \* hitl.volume_threshold_units, or Absent

ASSUME MarkersAssumption ==
  /\ Absent # Null /\ Absent # Junk /\ Null # Junk
  /\ \A marker \in {Absent, Null, Junk} : marker \notin Int \cup STRING /\ marker # <<>>

ASSUME PolicyAssumption ==
  /\ ConfiguredPriority \in {Absent, Null} \/ ConfiguredPriority \in Seq(STRING)
  /\ ConfiguredAmount \in Int \cup {Absent}
  /\ ConfiguredVolume \in Int \cup {Absent}

ASSUME StockAssumption == \A c \in DOMAIN ChannelBaseStock : ChannelBaseStock[c] \in Nat

-----------------------------------------------------------------------------
(* Orders as they arrive.                                                  *)

RequiredOrderFields == {"order_id", "channel", "items", "quantity", "delivery_address"}

\* The falsy values of Python: of a name or object, of a number, of a list.
Falsy(v)       == v \in {Absent, Null}
FalsyNumber(v) == Falsy(v) \/ v = 0
FalsyList(v)   == Falsy(v) \/ v = <<>>

\* validate_order_payload: the required fields that are missing or falsy.
MissingFields(payload) ==
  {f \in RequiredOrderFields :
     CASE f = "quantity" -> FalsyNumber(payload[f])
       [] f = "items"    -> FalsyList(payload[f])
       [] OTHER          -> Falsy(payload[f])}

\* `a or b`, on names and on numbers.
Or(a, b)       == IF Falsy(a) THEN b ELSE a
NumberOr(a, b) == IF FalsyNumber(a) THEN b ELSE a

(* An address is [form, region, prefecture, city, segments]: a "dict" with *)
(* some of three keys, "text" with its comma-separated segments (a blank   *)
(* one is Absent), or "other".                                             *)
RegionFromAddress(address) ==
  CASE address.form = "dict" ->
         Or(address.region, Or(address.prefecture, Or(address.city, "UNKNOWN_REGION")))
    [] address.form = "text" /\ address.segments # <<>> ->
         Or(Head(address.segments), "UNKNOWN_REGION")
    [] OTHER -> "UNKNOWN_REGION"

-----------------------------------------------------------------------------
(* Inventory.                                                              *)

\* The sku of a line stands for its item_id where it has that instead.
SkuOf(line) == Or(line.sku, "UNKNOWN_SKU")

\* item.get("qty", item.get("quantity", 1)): a "qty" key wins even when null.
RequestedQty(line) ==
  IF line.qty # Absent THEN line.qty ELSE IF line.quantity # Absent THEN line.quantity ELSE 1

\* Values that are neither a bare SKU nor an object are skipped.
ReadableLine(line) == line.kind \in {"bare", "dict"}

\* int() refuses the quantity of some readable line.
InventoryRaises(items) ==
  \E line \in ToSet(items) : ReadableLine(line) /\ RequestedQty(line) = Junk

\* Mutant of PutLine: a repeated SKU keeps its first need.
PutLineOnce(snapshot, line) ==
  IF \E i \in DOMAIN snapshot : snapshot[i].sku = SkuOf(line) THEN snapshot
  ELSE Append(snapshot, [sku |-> SkuOf(line), qty_needed |-> NumberOr(RequestedQty(line), 1),
                         channel_stock |-> ChannelBaseStock])

\* snapshot[sku] = {...}: a repeated SKU keeps its place and takes the new need.
PutLine(snapshot, line) ==
  LET entry == [sku |-> SkuOf(line), qty_needed |-> NumberOr(RequestedQty(line), 1),
                channel_stock |-> ChannelBaseStock]
      Same(i) == snapshot[i].sku = entry.sku
  IN  IF \E i \in DOMAIN snapshot : Same(i)
        THEN [i \in DOMAIN snapshot |-> IF Same(i) THEN entry ELSE snapshot[i]]
        ELSE Append(snapshot, entry)

TakeLine(snapshot, line) == IF ReadableLine(line) THEN PutLine(snapshot, line) ELSE snapshot

AggregateInventory(items) == FoldLeft(TakeLine, <<>>, items)

-----------------------------------------------------------------------------
(* Policy.                                                                 *)

ChannelPriority ==
  IF FalsyList(ConfiguredPriority) THEN <<"WMS", "POS", "EC">> ELSE ConfiguredPriority
\* Mutant of AmountThreshold: a default that is not the policy file's.
AmountThresholdAdrift == IF ConfiguredAmount = Absent THEN 5000000 ELSE ConfiguredAmount
AmountThreshold == IF ConfiguredAmount = Absent THEN 500000 ELSE ConfiguredAmount
VolumeThreshold == IF ConfiguredVolume = Absent THEN 100 ELSE ConfiguredVolume

Get(v, default) == IF v = Absent THEN default ELSE v

UnitPrice(line)  == Get(line.unit_price, 0)
PolicyQty(line)  == Get(line.qty, 1)
Amount(line)     == UnitPrice(line) * PolicyQty(line)

TotalOf(Value(_), items) == FoldLeft(LAMBDA sum, line : sum + Value(line), 0, items)

NotANumber(v) == v = Null \/ v = Junk

\* i.get fails on a line that is no object, float() on a null or on text.
LineRaises(line) ==
  \/ line.kind # "dict"
  \/ NotANumber(UnitPrice(line))
  \/ NotANumber(PolicyQty(line))

PolicyRaises(order) ==
  \/ \E line \in ToSet(order.items) : LineRaises(line)
  \/ TotalOf(PolicyQty, order.items) = 0 /\ order.quantity = Junk

\* Mutant of TotalVolume: it also counts when they sum to less than nothing.
TotalVolumeIfAny(order) ==
  LET summed == TotalOf(PolicyQty, order.items)
  IN  IF summed <= 0 THEN NumberOr(order.quantity, 0) ELSE summed

\* The order's own quantity counts only when the lines sum to nothing.
TotalVolume(order) ==
  LET summed == TotalOf(PolicyQty, order.items)
  IN  IF summed = 0 THEN NumberOr(order.quantity, 0) ELSE summed

ApplyFulfillmentPolicy(order) ==
  LET amount == TotalOf(Amount, order.items)
      volume == TotalVolume(order)
  IN  [channel_priority |-> ChannelPriority,
       requires_hitl    |-> amount >= AmountThreshold \/ volume >= VolumeThreshold,
       total_amount     |-> amount,
       total_volume     |-> volume]

-----------------------------------------------------------------------------
(* Route and instruction.                                                  *)

StockAt(entry, channel) ==
  IF channel \in DOMAIN entry.channel_stock THEN entry.channel_stock[channel] ELSE 0

CanServe(channel, entry) == StockAt(entry, channel) >= entry.qty_needed

\* The indices of a sequence whose element satisfies Test.
Matches(seq, Test(_)) == {i \in DOMAIN seq : Test(seq[i])}

FirstMatch(seq, Test(_)) ==
  seq[CHOOSE i \in Matches(seq, Test) : \A j \in Matches(seq, Test) : i <= j]

\* Mutant of SelectRoute: the loops swapped, channels before SKUs.
SelectChannelFirst(snapshot, decision) ==
  LET Serves(channel) == \E entry \in ToSet(snapshot) : CanServe(channel, entry)
      chosen == FirstMatch(decision.channel_priority, Serves)
  IN  IF \E c \in ToSet(decision.channel_priority) : Serves(c)
        THEN [source_channel |-> chosen,
              sku |-> FirstMatch(snapshot, LAMBDA entry : CanServe(chosen, entry)).sku,
              fulfillable |-> TRUE]
        ELSE [source_channel |-> Null, sku |-> Null, fulfillable |-> FALSE]

\* select_route: it returns at the first SKU that any channel can serve.
SelectRoute(snapshot, decision) ==
  LET Servable(entry) == \E c \in ToSet(decision.channel_priority) : CanServe(c, entry)
      chosen == FirstMatch(snapshot, Servable)
  IN  IF \E entry \in ToSet(snapshot) : Servable(entry)
        THEN [source_channel |-> FirstMatch(decision.channel_priority,
                                            LAMBDA c : CanServe(c, chosen)),
              sku |-> chosen.sku, fulfillable |-> TRUE]
        ELSE [source_channel |-> Null, sku |-> Null, fulfillable |-> FALSE]

\* An empty selected_route ({}) is Absent: it has no fulfillable flag.
Fulfillable(route) == route # Absent /\ route.fulfillable

\* Mutants of Proceed: the outcome, and the route, left out.
ProceedOnStock(route, outcome)       == Fulfillable(route)
ProceedUnlessRejected(route, outcome) == outcome \notin {"rejected"}

Proceed(route, outcome) == Fulfillable(route) /\ outcome \notin {"rejected"}

BuildFulfillmentInstruction(order, route, outcome) ==
  [order_id            |-> order.order_id,
   source_channel      |-> IF route = Absent THEN Null ELSE route.source_channel,
   action              |-> IF Proceed(route, outcome) THEN "ship" ELSE "hold",
   hitl_review_outcome |-> outcome]

NotifyLogistics(instruction) == ~ Falsy(instruction.order_id)
=============================================================================
