----------------------------- MODULE MCCommands -----------------------------
(* Instances of Commands for TLC.                                          *)
EXTENDS Commands

(* The defaults of the beacon's Kconfig.                                   *)
FactoryDefaults == [rssi_threshold |-> 80, tracking |-> 1, rssi_location |-> 100]

Set(parameter, value) == [parameter |-> parameter, value |-> value]

(* A command of several triples for all tags, one for this tag with a      *)
(* value out of range, and two that are not to be heeded.                  *)
Campaign == [target |-> "all", whole |-> TRUE,
             triples |-> <<Set("P_NETWORK_RESET_PARAMS", 0),
                           Set("P_RSSI_LOCATION", 70)>>]
TurnOff == [target |-> "own", whole |-> TRUE,
            triples |-> <<Set("P_TRACKING_ACTIVE", 0), Set("P_RSSI_NETWORK", 300),
                          Set("other", 1)>>]
Foreign == [target |-> "another", whole |-> TRUE,
            triples |-> <<Set("P_RSSI_NETWORK", 1)>>]
Cut == [target |-> "own", whole |-> FALSE,
        triples |-> <<Set("P_RSSI_NETWORK", 2)>>]
AllMessages == {Campaign, TurnOff, Foreign, Cut}

Stored(f, threshold, on, location) ==
  [format |-> f, params |-> [rssi_threshold |-> threshold, tracking |-> on,
                             rssi_location |-> location]]
EveryFormat ==
  {Stored("current", 60, 0, 90), Stored("v2", 60, 0, 100),
   Stored("rssi_only", 60, 1, 100), Stored("legacy", 60, 1, 100),
   [format |-> "none", params |-> FactoryDefaults],
   [format |-> "bad", params |-> FactoryDefaults]}
=============================================================================
