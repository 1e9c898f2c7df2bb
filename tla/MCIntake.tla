------------------------------- MODULE MCIntake --------------------------------
(* Small instances of the intake for TLC.                                  *)
EXTENDS IntakeSafety

MCStock    == [WMS |-> 50, POS |-> 20, EC |-> 10]
MCPriority == <<"WMS", "POS", "EC">>

Address(form, region, segments) ==
  [form |-> form, region |-> region, prefecture |-> Absent, city |-> Absent,
   segments |-> segments]

MCWanted ==
  [order_id |-> "EC-1", channel |-> "ec", quantity |-> 2,
   items |-> <<[kind |-> "dict", sku |-> "SKU-A", qty |-> 2, quantity |-> Absent,
                unit_price |-> 10]>>,
   delivery_address |-> Address("dict", "Tokyo", <<>>)]

\* An object, or packet, with only some of the fields.
Part(fields)   == [f \in RequiredOrderFields |-> IF f \in fields THEN MCWanted[f] ELSE Absent]
Nothing        == Part({})
Whole          == Part(RequiredOrderFields)
Parts          == {Whole, Nothing, Part({"order_id"}), Part({"channel"}),
                   Part(PacketFields), Part(RequiredOrderFields \ {"order_id"}),
                   [Whole EXCEPT !.quantity = 0], [Whole EXCEPT !.items = <<>>]}

Number(n, form, around) == [number |-> n, form |-> form, around |-> around]
Line(sku, n, plain)     == [sku |-> sku, count |-> n, plain |-> plain]

Silence == [numbers |-> <<>>, lines |-> <<>>, total |-> Absent, channels |-> {},
            region |-> Absent]

\* Sentences that lack something, or say it so that no pattern reads it.
Sentences ==
  [numbers  : {<<>>, <<Number("EC-1", "exact", FALSE)>>, <<Number("EC-1", "loose", FALSE)>>,
               <<Number("EC-2", "loose", FALSE), Number("EC-1", "exact", FALSE)>>},
   lines    : {<<>>, <<Line("SKU-A", 2, TRUE)>>, <<Line("SKU-A", 0, TRUE)>>,
               <<Line("SKU-A", 120, FALSE)>>, <<Line("SKU-A", 120, FALSE), Line("SKU-B", 3, TRUE)>>},
   total    : {Absent, [n |-> 5, plain |-> TRUE]},
   channels : {{}, {"store"}, {"ec", "store"}},
   region   : {Absent, "Tokyo"}]

Message(form, object, masked, sentence, script) ==
  [form |-> form, object |-> object, masked |-> masked, sentence |-> sentence,
   script |-> script]

Messages ==
  {Message("object", o, {}, Silence, "en") : o \in Parts}
  \cup {Message("masked", o, m, s, "en") :
          o \in {p \in Parts : p.quantity # 0}, m \in {{"order_id"}, {"quantity"}},
          s \in {Silence, [Silence EXCEPT !.channels = {"ec"}]}}
  \cup {Message("text", Nothing, {}, s, "ja") : s \in Sentences}
  \cup {Message("text", Nothing, {}, Silence, ""), Message("blank", Nothing, {}, Silence, "")}

\* A masked field is one the object has.
Sendable == {m \in Messages : \A f \in m.masked : m.object[f] # Absent}

Contexts == {Nothing, Whole, Part({"channel"}), Part({"order_id", "items"}),
             [Nothing EXCEPT !.delivery_address = Null]}

MCSendings ==
  {[message |-> m, context |-> Nothing, secrets |-> s] :
     m \in Sendable, s \in {{}, RequiredSecrets}}
  \cup {[message |-> m, context |-> c, secrets |-> RequiredSecrets] :
          m \in {x \in Sendable : x.form # "text" \/ x.sentence.total = Absent}, c \in Contexts}

Says(language, id, channel, items, n) ==
  [kind |-> "json", language |-> language,
   fields |-> [order_id |-> id, channel |-> channel, items |-> items, quantity |-> n]]

Fails(kind) == [kind |-> kind, language |-> "other", fields |-> NoFields]

Replies ==
  {Says(l, id, c, <<[sku |-> "SKU-A", qty |-> 2]>>, n) :
     l \in {"en", "other"}, c \in {Absent, "ec", "fax"}, n \in {Absent, 150, -1, Junk},
     id \in {Absent, Number("EC-9", "loose", FALSE), Number("EC-9", "exact", TRUE),
             Number(Absent, "exact", TRUE)}}

\* The adapter answers a list of messages at once; another client may not.
MCOutcomes ==
  {<<reply, reply, reply, reply>> : reply \in Replies \cup {Fails("prose"), Fails("raises")}}
  \cup {<<Fails("mismatch"), Fails("mismatch"), last, last>> :
          last \in {Says("ja", Number("EC-9", "exact", FALSE), "store", Absent, 3),
                    Fails("mismatch")}}
=============================================================================
