------------------------------- MODULE MCDemo -------------------------------
(* Demo with the policy of config/policies.json, less the names nobody asks. *)
EXTENDS Demo, TLC

CONSTANT t1

OneThread == {t1}
Agents == {"researcher", "deployer", "untrusted", "load-tester", "incident-responder"}
Names ==
  {"docs.internal", "api.internal", "metadata.internal", "admin.internal", "pypi.org",
   "payload.pypi.org", "deep.pypi.org", "invented.pypi.org", "pypi.org.evil.example",
   "notpypi.org", "registry.npmjs.org", "api.anthropic.com"}
Patterns ==
  {"docs.internal", "api.internal", "pypi.org", "*.pypi.org", "*.internal",
   "api.anthropic.com", "registry.npmjs.org"}
CoverTable ==
  [p \in Patterns |->
     CASE p = "*.internal" -> {"docs.internal", "api.internal", "metadata.internal", "admin.internal"}
       [] p = "*.pypi.org" -> {"payload.pypi.org", "deep.pypi.org", "invented.pypi.org"}
       [] OTHER -> {p}]
PolicyFile ==
  "researcher" :> {"docs.internal", "pypi.org", "*.pypi.org"}
  @@ "deployer" :> {"*.internal", "api.anthropic.com", "registry.npmjs.org"}
  @@ "untrusted" :> {} @@ "load-tester" :> {"docs.internal"}
  @@ "incident-responder" :> {"api.internal"}
DeniedDomains == {"metadata.internal", "admin.internal"}
NoneDenied == [a \in Agents |-> {}]
TunnelNames == {"payload.pypi.org", "deep.pypi.org", "invented.pypi.org"}
Addresses == {"172.28.0.21", "172.28.0.22", "172.28.0.23"}
RecordTable ==
  [d \in Names |->
     IF d \in {"docs.internal", "pypi.org", "registry.npmjs.org"} THEN <<"172.28.0.21">>
     ELSE IF d \in {"api.internal", "api.anthropic.com"} THEN <<"172.28.0.22", "172.28.0.23">>
     ELSE <<>>]
EndpointList ==
  <<"172.28.0.21", "172.28.0.22", "172.28.0.23", "172.28.0.21", "172.28.0.21",
    "172.28.0.21", "172.28.0.22", "172.28.0.23">>
Limits ==
  "researcher" :> 5 @@ "deployer" :> 10 @@ "untrusted" :> 2
  @@ "load-tester" :> 3 @@ "incident-responder" :> 4
Costs ==
  [d \in Names |->
     IF d = "api.anthropic.com" THEN 10 ELSE IF d \in {"registry.npmjs.org", "pypi.org"} THEN 1 ELSE 0]
Budgets == [a \in Agents |-> IF a = "researcher" THEN 40 ELSE IF a = "deployer" THEN 50 ELSE 0]
Warnings == [a \in Agents |-> IF a = "researcher" THEN 30 ELSE IF a = "deployer" THEN 40 ELSE 0]

\* "all", acts, capabilities, and some scenarios by name.
Offered ==
  {{"all"}, {"govern"}, {"contain", "failover"}, {"availability"}, {"resources"},
   {"survive"}, {"incident-response", "live-policy"}, {"supply-chain"}}
Touched == {"172.28.0.22", "172.28.0.23"}
=============================================================================
