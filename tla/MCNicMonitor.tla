---------------------------- MODULE MCNicMonitor ----------------------------
(* An instance of NicMonitor for TLC: two of the three clients collide in the  *)
(* table, which has room for two.                                             *)
EXTENDS NicMonitor, TLC

MCHash == [c \in Nics \X Ips |-> IF c[2] = "a" THEN 1 ELSE 0]

With(faults, ips, kinds, packets, noise, answers, counter, until) ==
    [faults |-> faults, ips |-> ips, kinds |-> kinds, packets |-> packets, noise |-> noise,
     answers |-> answers, rule |-> counter, until |-> until]

MCScenarios ==
    { With({"clock"}, {"a"}, {1}, 2, 0, 0, 0, 5),           \* the rings
      With({"kill"}, {"a"}, {0, 1}, 2, 0, 0, 0, 5),
      With({"disk"}, {"a"}, {1}, 1, 0, 0, 0, 5),
      With({}, Ips, {1}, 3, 0, 0, 0, 5),                    \* the table of clients
      With({"clock"}, {"a"}, {0}, 1, 0, 1, 1, 4),           \* the responses
      With({"kill", "counters"}, {}, {}, 0, 0, 2, NoRule, 5),
      With({"kill", "counters"}, {}, {}, 0, 0, 3, 1, 4),
      With({"iptables"}, {}, {}, 0, 0, 3, 1, 5),
      With({"clock"}, {}, {}, 0, 2, 0, 0, 10),              \* the pace
      With({"kill"}, {}, {}, 0, 2, 0, 0, 10),
      With({"disk"}, {}, {}, 0, 2, 0, 0, 10) }
=============================================================================
