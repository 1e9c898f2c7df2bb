----------------------------- MODULE DoorPolicies ------------------------------
(***************************************************************************)
(* The two doors of the agent and the policy each of them decides with.    *)
(* src/api/server.py reads config/fulfillment_policy.yaml and hands it to  *)
(* the graph under "policy"; cli.py hands over config/config.yaml, whose   *)
(* domain_config is empty.  What no policy says, apply_fulfillment_policy  *)
(* fills in from defaults of its own.  A policy is [priority, amount,      *)
(* volume], a part of it Absent when it does not say.                      *)
(***************************************************************************)
EXTENDS OrderLines

CONSTANT PolicyFile  \* config/fulfillment_policy.yaml

\* The file as it is shipped.
ShippedPolicy == [priority |-> <<"WMS", "POS", "EC">>, amount |-> 500000, volume |-> 100]

NoPolicy == [priority |-> Absent, amount |-> Absent, volume |-> Absent]

\* A config is [domain, policy]: domain_config.policy and the root's policy.
ServerConfig      == [domain |-> Absent, policy |-> PolicyFile]
MarketplaceConfig == [domain |-> Absent, policy |-> Absent]

\* register_nodes: domain.get("policy", cfg.get("policy", {})).
PolicyOf(config) == Get(config.domain, Get(config.policy, NoPolicy))

Server == INSTANCE FulfillmentService WITH
            ConfiguredPriority <- PolicyOf(ServerConfig).priority,
            ConfiguredAmount   <- PolicyOf(ServerConfig).amount,
            ConfiguredVolume   <- PolicyOf(ServerConfig).volume

Marketplace == INSTANCE FulfillmentService WITH
                 ConfiguredPriority <- PolicyOf(MarketplaceConfig).priority,
                 ConfiguredAmount   <- PolicyOf(MarketplaceConfig).amount,
                 ConfiguredVolume   <- PolicyOf(MarketplaceConfig).volume

(* An order is decided the same at both doors, and its route is the same:  *)
(* the policy file, which only the server reads, and the defaults in the   *)
(* code, which are all the Marketplace has, say the same                   *)
(* (fulfillment_service.py:73-98, server.py:28-43, graph.py:171-175,       *)
(* cli.py:18-25).                                                          *)
BothDoorsDecideAlike ==
  Evaluable =>
    /\ Server!ApplyFulfillmentPolicy(TheOrder) = Marketplace!ApplyFulfillmentPolicy(TheOrder)
    /\ Server!SelectRoute(Snapshot, Server!ApplyFulfillmentPolicy(TheOrder)) =
         Marketplace!SelectRoute(Snapshot, Marketplace!ApplyFulfillmentPolicy(TheOrder))
=============================================================================
