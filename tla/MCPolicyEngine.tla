--------------------------- MODULE MCPolicyEngine ---------------------------
(* Small instances of PolicyEngine for TLC, cut from config/policies.json. *)
EXTENDS PolicyEngine, TLC

CONSTANTS t1, a1, a2, stranger, e1, e2

OneThread == {t1}
OneAgent == {a1}
TwoAgents == {a1, a2}
OneAddress == {e1}
TwoAddresses == {e1, e2}
NoNames == {}
NothingDenied == [a \in Agent |-> {}]

\* Live changes: two names that share a pool of two endpoints, one name for
\* each reason to refuse it, and a wildcard entry that covers them all.
LiveNames == {"docs.internal", "api.internal", "admin.internal", "payroll.internal", "x7f.internal"}
LivePatterns == {"docs.internal", "*.internal"}
LiveCovers == [p \in Pattern |-> IF p = "*.internal" THEN LiveNames ELSE {p}]
LiveFile == [a \in Agent |-> {"*.internal"}]
LiveRecords == [d \in Domain |-> IF d \in {"docs.internal", "api.internal"} THEN <<e1, e2>> ELSE <<>>]
AdminDenied == {"admin.internal"}
PayrollDenied == [a \in Agent |-> {"payroll.internal"}]
Tunnel == {"x7f.internal"}
Free == [d \in Domain |-> 0]
NoBudget == [a \in Agent |-> 0]
Limit3 == [a \in Agent |-> 3]

\* Metering: two metered names, of which one has no record.
MeteredNames == {"api.anthropic.com", "registry.npmjs.org"}
MeteredFile == [a \in Agent |-> MeteredNames]
MeteredRecords == [d \in Domain |-> IF d = "api.anthropic.com" THEN <<e1>> ELSE <<>>]
MeteredCost == [d \in Domain |-> IF d = "api.anthropic.com" THEN 2 ELSE 1]
Themselves == [p \in Pattern |-> {p}]
Budget3 == [a \in Agent |-> 3]
Warn2 == [a \in Agent |-> 2]
Limit1 == [a \in Agent |-> 1]

\* Agents with the same limits and allowlists are interchangeable.
AgentSymmetry == Permutations(Agent)

\* Queries, the clock and resets while the pool and the allowlists are at rest.
MeteringSpec == Init /\ [][Tick \/ QueryNext \/ BudgetNext \/ Reset]_vars
=============================================================================
