-------------------------------- MODULE Demo --------------------------------
(***************************************************************************)
(* The demonstration: demo/scenarios.py and demo/runner.py, driven by      *)
(* scripts/demo.py or the dashboard, with the agents of agents/ and the    *)
(* services of mock_service/, against the engine of PolicyEngine.          *)
(*                                                                         *)
(* A scenario is a script of calls and a predicate on what they returned.  *)
(* Each query of an agent is PolicyEngine's Begin, Decide and Reply, so    *)
(* the monitor may move an endpoint in between.  The monitor is reduced to *)
(* Publish: it comes to report what a service answers (how is the subject  *)
(* of HealthMonitor).  A tick is the second run_scenario lets pass before  *)
(* it begins; all queries of a scenario fall within one, which is the      *)
(* hardest case for the quotas.                                            *)
(*                                                                         *)
(* What can go wrong besides, MaxFaults times: a call raises, a repair     *)
(* does not reach its service, the monitor is slower than a scenario waits *)
(* for it, and somebody else takes a service down or brings it back.       *)
(***************************************************************************)
EXTENDS PolicyEngine, SequencesExt

CONSTANTS
  Docs, ApiA, ApiB,  \* the addresses scenarios.py names
  Endpoints,         \* engine.endpoints(): an address for each record it is in
  Burst, Tunnels,    \* queries of rate-limit and of memory-bounds: 20 and 40
  LogKept,           \* rows of the decision log the model keeps, the newest
  Selections,        \* the sets of names a user may ask for
  Meddled,           \* the services somebody else may touch
  MaxCommands, MaxFaults

ASSUME DemoAssumption ==
  /\ {Docs, ApiA, ApiB} \subseteq Address /\ Endpoints \in Seq(Address) /\ "api.internal" \in Domain
  /\ {Burst, Tunnels} \subseteq Nat \ {0} /\ LogKept >= 40
  /\ Meddled \subseteq Address /\ MaxCommands \in Nat /\ MaxFaults \in Nat
  /\ Cardinality(Thread) = 1

VARIABLES
  up,            \* the services' own state: the monitor's probes see it
  log,           \* the newest rows of the decision log, newest first
  throttled,     \* summary()["throttled"]
  queue,         \* the scenarios still to run: a set of places in the catalogue
  current,       \* the place of the scenario that runs, or NoScenario
  todo,          \* the calls it has still to make
  asked,         \* the queries made of the call in progress
  heard,         \* the answers to its calls, in their order
  before,        \* what rate-limit and memory-bounds measure first
  listed, still, \* the responder's `unhealthy` and `still_unhealthy`
  verdicts,      \* the latest verdict of each scenario since the last reset
  commands, faults,
  wanted,        \* history: the scenarios this command was asked for
  judged,        \* history: those of them it has given a verdict
  aborted,       \* history: its reset raised
  clean,         \* history: nothing went wrong since the lab was reset
  taken,         \* history: services somebody else took down in this scenario
  rejoined       \* history: endpoints published healthy since listed was read

engineVars == vars
worldVars  == <<up, log, throttled>>
scriptVars == <<current, todo, asked, heard, before, listed, still>>
runVars    == <<queue, scriptVars, verdicts>>
boundVars  == <<commands, faults>>
requestVars == <<wanted, judged, aborted>>
pastVars   == <<requestVars, clean, taken, rejoined>>
demoVars   == <<engineVars, worldVars, runVars, boundVars, pastVars>>

-----------------------------------------------------------------------------
NoScenario == 0

(* The calls a script is made of. *)

Ask(agent, name, n) == [op |-> "ask", agent |-> agent, name |-> name, count |-> n]
Inject(e, fail) == [op |-> "inject", address |-> e, fail |-> fail]
Await(e, healthy) == [op |-> "await", address |-> e, healthy |-> healthy]
Grant(agent, name, allowed) == [op |-> "grant", agent |-> agent, name |-> name, allowed |-> allowed]
Call(op) == [op |-> op]

\* The responder asks once more than there were failing endpoints.
AskAfterRepair == Ask("incident-responder", "api.internal", 0)
Investigate == << Call("survey"), Ask("incident-responder", "api.internal", 3) >>
Remediate == << Call("survey"), Call("repair"), Call("await all"), AskAfterRepair >>

Baseline ==
  << Ask("researcher", "docs.internal", 1), Ask("deployer", "api.internal", 2),
     Ask("untrusted", "docs.internal", 1), Ask("load-tester", "docs.internal", 1) >> \o Investigate

EgressGovernance ==
  << Ask("untrusted", "docs.internal", 1), Ask("untrusted", "api.internal", 1) >>

Isolation ==
  << Ask("researcher", "api.internal", 1), Ask("deployer", "api.internal", 1) >>

MetadataSsrf ==
  << Ask("deployer", "metadata.internal", 1), Ask("deployer", "admin.internal", 1),
     Ask("deployer", "api.internal", 1) >>

DnsExfiltration ==
  << Ask("researcher", "payload.pypi.org", 1), Ask("researcher", "deep.pypi.org", 1),
     Ask("researcher", "pypi.org", 1) >>

LookalikeDomains ==
  << Ask("researcher", "pypi.org", 1), Ask("researcher", "pypi.org.evil.example", 1),
     Ask("researcher", "notpypi.org", 1) >>

SupplyChain ==
  << Ask("researcher", "pypi.org", 1), Ask("researcher", "registry.npmjs.org", 1),
     Ask("deployer", "registry.npmjs.org", 1), Ask("untrusted", "pypi.org", 1) >>

RateLimit == << Ask("load-tester", "docs.internal", Burst) >>

CostBudget ==
  << Call("reset budgets"), Ask("deployer", "api.anthropic.com", 7),
     Ask("deployer", "api.internal", 1), Call("spend") >>

MemoryBounds == << Ask("researcher", "invented.pypi.org", Tunnels) >>

LoadBalance == << Ask("deployer", "api.internal", 6) >>

Failover ==
  << Inject(ApiA, TRUE), Await(ApiA, FALSE), Ask("deployer", "api.internal", 4) >> \o Investigate

IncidentResponse ==
  << Call("ensure incident") >> \o Remediate
    \o << Await(ApiA, TRUE), Ask("deployer", "api.internal", 4) >>

LivePolicy ==
  << Ask("researcher", "api.internal", 1), Grant("researcher", "api.internal", TRUE),
     Ask("researcher", "api.internal", 1), Grant("researcher", "api.internal", FALSE),
     Ask("researcher", "api.internal", 1) >>

AuditTrail == << Ask("researcher", "docs.internal", 1), Ask("untrusted", "docs.internal", 1) >>

Entry(id, act, proves, script) == [id |-> id, act |-> act, proves |-> proves, script |-> script]

\* SCENARIOS
Catalogue == <<
  Entry("baseline", "govern", {"security", "observability"}, Baseline),
  Entry("egress-governance", "govern", {"security"}, EgressGovernance),
  Entry("isolation", "govern", {"security"}, Isolation),
  Entry("metadata-ssrf", "defend", {"security"}, MetadataSsrf),
  Entry("dns-exfiltration", "defend", {"security", "resources"}, DnsExfiltration),
  Entry("lookalike-domains", "defend", {"security"}, LookalikeDomains),
  Entry("supply-chain", "defend", {"security"}, SupplyChain),
  Entry("rate-limit", "contain", {"availability", "resources"}, RateLimit),
  Entry("cost-budget", "contain", {"resources", "observability"}, CostBudget),
  Entry("memory-bounds", "contain", {"resources", "availability"}, MemoryBounds),
  Entry("load-balance", "contain", {"availability"}, LoadBalance),
  Entry("failover", "survive", {"availability"}, Failover),
  Entry("incident-response", "survive", {"availability", "observability"}, IncidentResponse),
  Entry("live-policy", "operate", {"security", "observability"}, LivePolicy),
  Entry("audit-trail", "operate", {"observability"}, AuditTrail) >>

\* resolve_selection(): they run in the catalogue's order, each once.
Chosen(names, i) == names \intersect ({"all", Catalogue[i].id, Catalogue[i].act} \union Catalogue[i].proves) # {}
Selection(names) == {i \in DOMAIN Catalogue : Chosen(names, i)}

-----------------------------------------------------------------------------
(* The checks. *)

Api == {ApiA, ApiB}
Newest(n) == SubSeq(log, 1, IF Len(log) < n THEN Len(log) ELSE n)
Blocked(agent, n) == SelectSeq(Newest(n), LAMBDA row : row.agent = agent /\ row.action = "BLOCK")
ReasonsFor(agent, name) == {row.reason : row \in {r \in Range(Newest(40)) : r.agent = agent /\ r.name = name}}
AlertKinds(agent) == {alert.kind : alert \in {a \in Range(alerts) : a.agent = agent}}
Exhausted(a) == Total(spend[a]) >= MaxCost[a]
RoundRobinKeys == Cardinality({d \in Domain : rr[d] > 0})
RateWindowEntries == FoldFunction(+, 0, [a \in Agent |-> Len(requests[a])])
FailoverVerified(answers) == answers # <<>> /\ Range(answers) \intersect Range(listed) = {}
Reached(answers, pool) == answers # <<>> /\ answers[1] \in pool

GovernHolds(id) ==
  CASE id = "baseline" ->
         /\ heard[1] = <<Docs>> /\ Len(heard[2]) = 2 /\ Range(heard[2]) \subseteq Api
         /\ heard[3] = <<>> /\ heard[4] = <<Docs>>
         /\ listed = <<>> /\ heard[5] # <<>>
    [] id = "egress-governance" ->
         /\ heard[1] = <<>> /\ heard[2] = <<>>
         /\ LET denials == Blocked("untrusted", 20)
            IN  Len(denials) >= 2 /\ \A i \in 1 .. 2 : denials[i].reason = "domain_not_allowed"
    [] id = "isolation" -> heard[1] = <<>> /\ Reached(heard[2], Api)

DefendHolds(id) ==
  CASE id = "metadata-ssrf" ->
         /\ "*.internal" \in config["deployer"]
         /\ heard[1] = <<>> /\ heard[2] = <<>> /\ Reached(heard[3], Api)
         /\ "domain_denied" \in ReasonsFor("deployer", "metadata.internal")
    [] id = "dns-exfiltration" ->
         /\ heard[1] = <<>> /\ heard[2] = <<>> /\ heard[3] = <<Docs>>
         /\ "tunnelling" \in ReasonsFor("researcher", "payload.pypi.org")
    [] id = "lookalike-domains" -> heard = << <<Docs>>, <<>>, <<>> >>
    [] id = "supply-chain" -> heard = << <<Docs>>, <<>>, <<Docs>>, <<>> >>

ContainHolds(id) ==
  CASE id = "rate-limit" ->
         Len(heard[1]) \in 1 .. Burst - 1 /\ throttled > before.throttled
    [] id = "cost-budget" ->
         /\ Len(heard[1]) \in 1 .. 6 /\ Reached(heard[2], Api)
         /\ "budget_exhausted" \in ReasonsFor("deployer", "api.anthropic.com")
         /\ {"budget_warning", "budget_exhausted"} \subseteq AlertKinds("deployer")
         /\ Exhausted("deployer")
    [] id = "memory-bounds" ->
         /\ heard[1] = <<>> /\ RoundRobinKeys = before.keys /\ RateWindowEntries = before.entries
         /\ Len(alerts) <= AlertCapacity
    [] id = "load-balance" -> Len(heard[1]) = 6 /\ Range(heard[1]) = Api

SurviveHolds(id) ==
  CASE id = "failover" ->
         heard[1] /\ heard[2] # <<>> /\ Range(heard[2]) = {ApiB} /\ FailoverVerified(heard[3])
    [] id = "incident-response" ->
         /\ ApiA \in Range(listed) \ Range(still)
         /\ heard[Len(heard) - 1] /\ Range(Last(heard)) = Api

OperateHolds(id) ==
  CASE id = "live-policy" -> heard[1] = <<>> /\ Reached(heard[2], Api) /\ heard[3] = <<>>
    [] id = "audit-trail" -> {"ALLOW", "BLOCK"} \subseteq {row.action : row \in Range(Newest(25))}

Holds(entry) ==
  CASE entry.act = "govern" -> GovernHolds(entry.id)
    [] entry.act = "defend" -> DefendHolds(entry.id)
    [] entry.act = "contain" -> ContainHolds(entry.id)
    [] entry.act = "survive" -> SurviveHolds(entry.id)
    [] entry.act = "operate" -> OperateHolds(entry.id)

-----------------------------------------------------------------------------
Idle == queue = {} /\ current = NoScenario
WithVerdict(id, v) == [s \in DOMAIN verdicts \union {id} |-> IF s = id THEN v ELSE verdicts[s]]
Measured == [throttled |-> throttled, keys |-> RoundRobinKeys, entries |-> RateWindowEntries]
Quiet == UNCHANGED <<engineVars, worldVars>>
NoFault == UNCHANGED <<faults, clean>>
Fault == faults < MaxFaults /\ faults' = faults + 1 /\ clean' = FALSE

DemoInit ==
  /\ Init
  /\ up = [e \in Address |-> TRUE] /\ log = <<>> /\ throttled = 0
  /\ queue = {} /\ current = NoScenario /\ todo = <<>> /\ asked = 0 /\ heard = <<>>
  /\ before = Measured /\ listed = <<>> /\ still = <<>>
  /\ verdicts = <<>> /\ commands = 0 /\ faults = 0
  /\ wanted = {} /\ judged = {} /\ aborted = FALSE /\ clean = TRUE /\ taken = {} /\ rejoined = {}

-----------------------------------------------------------------------------
(* A command: scripts/demo.py run, or a Run button. *)

Requested(names) ==
  /\ Idle /\ commands < MaxCommands
  /\ commands' = commands + 1
  /\ wanted' = {Catalogue[i].id : i \in Selection(names)} /\ judged' = {}
  /\ UNCHANGED <<scriptVars, taken, rejoined>>

Command(names) ==
  /\ Requested(names) /\ aborted' = FALSE
  /\ queue' = Selection(names)

\* --no-reset, or the Run button of one scenario.
RunAsItIs(names) ==
  /\ Command(names)
  /\ clean' = (clean /\ commands = 0)
  /\ UNCHANGED <<engineVars, worldVars, verdicts, faults>>

\* POST /reset
ResetLab == Reset /\ log' = <<>> /\ throttled' = 0

\* The services are reset first, of which one may not hear of it.
RunAfterReset(names) ==
  /\ Command(names)
  /\ ResetLab
  /\ \/ up' = [e \in Address |-> TRUE] /\ clean' = TRUE /\ UNCHANGED faults
     \/ \E e \in Address : ~up[e] /\ up' = [f \in Address |-> f # e \/ up[f]] /\ Fault
  /\ verdicts' = <<>>

\* The reset raises, before or after it took effect, and nothing is run.
ResetRaises(names) ==
  /\ Requested(names) /\ aborted' = TRUE
  /\ Quiet \/ (ResetLab /\ up' = [e \in Address |-> TRUE])
  /\ Fault /\ UNCHANGED <<queue, verdicts>>

-----------------------------------------------------------------------------
(* run_scenario() *)

\* Mutant: the rate window of the scenario before is not left behind.
SettleAtOnce == UNCHANGED engineVars

Settle == Tick

BeginScenario ==
  /\ current = NoScenario
  /\ \E i \in queue :
       /\ \A j \in queue : i <= j
       /\ current' = i /\ queue' = queue \ {i}
       /\ todo' = Catalogue[i].script
  /\ Settle
  /\ asked' = 0 /\ heard' = <<>> /\ listed' = <<>> /\ still' = <<>>
  /\ before' = Measured
  /\ taken' = {} /\ rejoined' = {}
  /\ NoFault /\ UNCHANGED <<worldVars, verdicts, commands, requestVars>>

Between == current # NoScenario /\ Unlocked /\ \A t \in Thread : pc[t] = "idle"

EndScenario(verdict) ==
  /\ verdicts' = WithVerdict(Catalogue[current].id, verdict)
  /\ judged' = judged \union {Catalogue[current].id}
  /\ current' = NoScenario /\ todo' = <<>> /\ asked' = 0
  /\ Quiet /\ UNCHANGED <<heard, before, listed, still, commands, wanted, aborted, taken, rejoined>>

Judge ==
  /\ Between /\ todo = <<>>
  /\ EndScenario(IF Holds(Catalogue[current]) THEN "PASS" ELSE "FAIL")
  /\ NoFault /\ UNCHANGED queue

\* Mutant: an exception ends the command.
RaisesThrough ==
  /\ Between
  /\ EndScenario("ERROR")
  /\ Fault /\ queue' = {}

\* "a broken scenario must not hide the others"
Raises ==
  /\ Between
  /\ EndScenario("ERROR")
  /\ Fault /\ UNCHANGED queue

-----------------------------------------------------------------------------
(* The calls. *)

Calls(op) == Between /\ todo # <<>> /\ Head(todo).op = op
Returned == todo' = Tail(todo)
Rest == <<queue, current, before, verdicts, boundVars, requestVars, clean, taken>>

\* agents/service.py query(), and the responder's resolve_batch(): one name
\* after the other, each through the resolver.
Count == IF Head(todo).count = 0 THEN Len(listed) + (IF listed = <<>> THEN 2 ELSE 1) ELSE Head(todo).count

AskNext ==
  /\ Calls("ask") /\ asked < Count
  /\ \E t \in Thread : Begin(t, Head(todo).agent, Head(todo).name)
  /\ asked' = asked + 1
  /\ heard' = IF asked = 0 THEN Append(heard, <<>>) ELSE heard
  /\ UNCHANGED <<worldVars, Rest, todo, listed, still, rejoined>>

AskDecide ==
  /\ \E t \in Thread : pc[t] = "decide" /\ DecideQuery(t, query[t][1], query[t][2])
  /\ UNCHANGED <<worldVars, Rest, todo, asked, heard, listed, still, rejoined>>

\* resolve(): the decision is answered and recorded.
RowOf(t) ==
  [agent |-> query[t][1], name |-> query[t][2], action |-> decision[t].action, reason |-> decision[t].reason]

AskReply ==
  /\ \E t \in Thread :
       /\ Reply(t)
       /\ log' = SubSeq(<<RowOf(t)>> \o log, 1, IF Len(log) < LogKept THEN Len(log) + 1 ELSE LogKept)
       /\ throttled' = throttled + (IF decision[t].action = "THROTTLE" THEN 1 ELSE 0)
       /\ heard' = IF decision[t].action = "ALLOW"
                   THEN [heard EXCEPT ![Len(heard)] = Append(@, decision[t].answer)]
                   ELSE heard
  /\ UNCHANGED <<up, Rest, todo, asked, listed, still, rejoined>>

AskReturn ==
  /\ Calls("ask") /\ asked = Count
  /\ Returned /\ asked' = 0
  /\ Quiet /\ UNCHANGED <<Rest, heard, listed, still, rejoined>>

InjectCall ==
  /\ Calls("inject") /\ Returned
  /\ up' = [up EXCEPT ![Head(todo).address] = ~Head(todo).fail]
  /\ UNCHANGED <<engineVars, log, throttled, Rest, asked, heard, listed, still, rejoined>>

\* set_domain_access(); the call returns when the snapshot is compiled.
GrantCall ==
  /\ Calls("grant") /\ Returned
  /\ SetDomainAccess(Head(todo).agent, Head(todo).name, Head(todo).allowed)
  /\ UNCHANGED <<worldVars, Rest, asked, heard, listed, still, rejoined>>

GrantCompiles ==
  /\ Recompile
  /\ UNCHANGED <<worldVars, Rest, todo, asked, heard, listed, still, rejoined>>

ResetBudgetsCall ==
  /\ Calls("reset budgets") /\ Returned
  /\ ResetBudgets
  /\ UNCHANGED <<worldVars, Rest, asked, heard, listed, still, rejoined>>

\* spend_report() prunes every ledger.
SpendCall ==
  /\ Calls("spend") /\ Returned
  /\ spend' = [a \in Agent |-> IF MaxCost[a] > 0 THEN Fresh(spend[a]) ELSE spend[a]]
  /\ UNCHANGED <<now, quotaVars, charged, alerts, lastRaised, poolVars, accessVars, threadVars>>
  /\ UNCHANGED <<worldVars, Rest, asked, heard, listed, still, rejoined>>

\* _incident_response() makes an incident where there is none.
EnsureIncident ==
  /\ Calls("ensure incident")
  /\ todo' = (IF \A e \in Address : EffectiveHealth(e)
              THEN << Inject(ApiA, TRUE), Await(ApiA, FALSE) >> ELSE <<>>) \o Tail(todo)
  /\ Quiet /\ UNCHANGED <<Rest, asked, heard, listed, still, rejoined>>

\* wait_for_health(): it gives up on a service that will not change, or, which
\* is a fault, before the monitor has noticed.
AwaitEnds(seen) ==
  /\ Calls("await") /\ Returned
  /\ heard' = Append(heard, seen)
  /\ Quiet
  /\ UNCHANGED <<queue, current, before, verdicts, commands, requestVars, taken, asked, listed, still, rejoined>>

AwaitCall == AwaitEnds(TRUE) /\ EffectiveHealth(Head(todo).address) = Head(todo).healthy /\ NoFault
AwaitTimesOut ==
  /\ AwaitEnds(FALSE) /\ EffectiveHealth(Head(todo).address) # Head(todo).healthy
  /\ IF probeHealth[Head(todo).address] = up[Head(todo).address] THEN NoFault ELSE Fault

-----------------------------------------------------------------------------
(* agents/incident_responder.py *)

\* The endpoints that are not healthy, in their order.
Failing == {i \in DOMAIN Endpoints : ~EffectiveHealth(Endpoints[i])}
Unhealthy ==
  [k \in 1 .. Cardinality(Failing) |-> Endpoints[CHOOSE i \in Failing : Rank(Failing, i) = k - 1]]

Survey ==
  /\ Calls("survey") /\ Returned
  /\ listed' = Unhealthy /\ still' = Unhealthy
  /\ rejoined' = {}
  /\ Quiet /\ UNCHANGED <<Rest, asked, heard>>

\* Mutant: the responder pins the endpoint healthy instead of repairing it.
RepairPins(e) == SetEndpointHealth(e, TRUE) /\ UNCHANGED worldVars /\ NoFault

\* A repair that does not arrive is swallowed.
RepairOne(e) ==
  /\ \/ up' = [up EXCEPT ![e] = TRUE] /\ NoFault
     \/ up' = up /\ Fault
  /\ UNCHANGED <<engineVars, log, throttled>>

Repair ==
  /\ Calls("repair") /\ asked < Len(listed)
  /\ RepairOne(listed[asked + 1])
  /\ asked' = asked + 1
  /\ UNCHANGED <<queue, current, todo, before, verdicts, commands, requestVars, taken, heard, listed, still, rejoined>>

Repaired ==
  /\ Calls("repair") /\ asked = Len(listed)
  /\ Returned /\ asked' = 0
  /\ Quiet /\ UNCHANGED <<Rest, heard, listed, still, rejoined>>

\* The wait ends when nothing is unhealthy, whatever was listed, or gives up.
AwaitAll ==
  /\ Calls("await all") /\ Returned
  /\ still' = IF listed = <<>> THEN <<>> ELSE Unhealthy
  /\ IF \E e \in Range(still') : up[e] THEN Fault ELSE NoFault
  /\ Quiet
  /\ UNCHANGED <<queue, current, before, verdicts, commands, requestVars, taken, asked, heard, listed, rejoined>>

-----------------------------------------------------------------------------
(* The monitor, and somebody else. *)

Publish(e) ==
  /\ probeHealth[e] # up[e]
  /\ RecordProbe(e, up[e])
  /\ rejoined' = IF up[e] THEN rejoined \union {e} ELSE rejoined
  /\ UNCHANGED <<worldVars, runVars, boundVars, requestVars, clean, taken>>

\* A sweep that began before the reset publishes what it found then.
StaleSweep(e) ==
  /\ current = NoScenario /\ queue # {}
  /\ probeHealth[e] /\ RecordProbe(e, FALSE)
  /\ Fault
  /\ UNCHANGED <<worldVars, runVars, commands, requestVars, taken, rejoined>>

Meddle(e) ==
  /\ Between /\ asked = 0
  /\ Fault
  /\ up' = [up EXCEPT ![e] = ~@]
  /\ taken' = IF up[e] THEN taken \union {e} ELSE taken
  /\ UNCHANGED <<engineVars, log, throttled, runVars, commands, requestVars, rejoined>>

\* The session is over.
Over == Idle /\ commands = MaxCommands /\ UNCHANGED demoVars

-----------------------------------------------------------------------------
CommandNext == (\E names \in Selections : RunAsItIs(names) \/ RunAfterReset(names) \/ ResetRaises(names)) \/ Over
ScenarioNext == BeginScenario \/ Judge \/ Raises
CallNext ==
  \/ AskNext \/ AskDecide \/ AskReply \/ AskReturn
  \/ InjectCall \/ GrantCall \/ GrantCompiles \/ ResetBudgetsCall \/ SpendCall
  \/ EnsureIncident \/ AwaitCall \/ AwaitTimesOut
ResponderNext == Survey \/ Repair \/ Repaired \/ AwaitAll
WorldNext == (\E e \in Address : Publish(e) \/ StaleSweep(e)) \/ (\E e \in Meddled : Meddle(e))

DemoNext == CommandNext \/ ScenarioNext \/ CallNext \/ ResponderNext \/ WorldNext

DemoSpec == DemoInit /\ [][DemoNext]_demoVars

-----------------------------------------------------------------------------
(* Properties. *)

\* docs/demo-runbook.md:33, "lets you run the whole thing again cleanly": with
\* the shipped policy, any selection passes on a lab that is fresh or was reset,
\* whatever was done to it before; no scenario spends another's quota or budget.
ScenariosPass == clean => \A id \in DOMAIN verdicts : verdicts[id] = "PASS"

\* runner.py:276, "a broken scenario must not hide the others": a command that
\* began to run ends with a verdict of its own for every scenario it was asked for
\* and for no other, whatever raises in them.  Only one whose reset raised
\* (scripts/demo.py:131) judges nothing.
EveryScenarioJudged == Idle /\ ~aborted => judged = wanted

\* scenarios.py:729, "repairs the service, not just the health flag": when the
\* scenario passes, the service itself is up, lost repairs and a monitor that is
\* late or wrong notwithstanding, unless somebody took it down meanwhile.
RepairIsReal ==
  [][ /\ current # NoScenario /\ Catalogue[current].id = "incident-response"
      /\ current' = NoScenario /\ verdicts'["incident-response"] = "PASS"
      => up[ApiA] \/ ApiA \in taken ]_demoVars

\* investigate() compares answers with health it read before: it denies a
\* failover only when nothing answered or an endpoint came back in between.
BlameIsFair ==
  current # NoScenario /\ Catalogue[current].id = "failover" /\ todo = <<>> =>
    \/ FailoverVerified(heard[3]) \/ heard[3] = <<>>
    \/ Range(heard[3]) \intersect Range(listed) \subseteq rejoined
=============================================================================
