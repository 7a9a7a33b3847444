---------------------------- MODULE TelemetryMC ----------------------------
(* Instances of Telemetry: two inputs, one of them known to the templates  *)
(* of both groups, as fluentbit-host-gold.yaml:34 and                      *)
(* fluentbit-cluster-gold.yaml:73 both know "opentelemetry".               *)
EXTENDS Telemetry

Item(g, input, setting) == [group |-> g, input |-> input, setting |-> setting]

(* Nothing, one group's input in two settings, both groups' with inputs of *)
(* their own, both with the same input in two settings and in one.         *)
SomeOffers ==
    LET g == CHOOSE x \in Groups : TRUE
        h == CHOOSE x \in Groups : x # g
        shared == Item(g, "opentelemetry", 1)
    IN  { {}, {Item(g, "systemd", 1)}, {Item(g, "systemd", 2)},
          {Item(g, "systemd", 1), Item(h, "kubelet", 1)},
          {shared, Item(h, "opentelemetry", 2)}, {shared, Item(h, "opentelemetry", 1)} }
=============================================================================
