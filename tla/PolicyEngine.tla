---------------------------- MODULE PolicyEngine ----------------------------
(***************************************************************************)
(* dns_manager/policy.py with the budget ledger and the alert center of    *)
(* dns_manager/budget.py: deciding one query, and everything the control   *)
(* API and the health monitor may do to the engine while it decides.       *)
(*                                                                         *)
(* A query is two steps.  Begin reads the compiled snapshot without the    *)
(* lock and ends there when the query is blocked; Decide holds the lock    *)
(* from the rate limit to the choice of an endpoint.  Every other          *)
(* operation holds the lock throughout, so it is one step, except          *)
(* set_domain_access: its change to the configuration and the new snapshot *)
(* are two, because Begin may run in between.                              *)
(*                                                                         *)
(* Which names a pattern covers is PolicyRules' subject; here it is the    *)
(* constant Covers.  Time is counted in ticks.                             *)
(***************************************************************************)
EXTENDS Integers, Sequences, FiniteSets

CONSTANTS
  Thread,        \* resolver threads
  Agent,         \* the agents of the configuration
  Stranger,      \* a source address of no agent
  Domain,        \* normalized names queried
  Pattern,       \* allowlist entries: the names themselves and wildcards
  Covers,        \* [Pattern -> SUBSET Domain]
  Address,       \* endpoints
  ConfigFile,    \* [Agent -> SUBSET Pattern]: allowed_domains in the file
  DeniedToAll,   \* names the global deny rules cover
  DeniedTo,      \* [Agent -> SUBSET Domain]: names an agent's deny rules cover
  Tunnelling,    \* names the query guard refuses
  Records,       \* [Domain -> Seq(Address)], empty where there is no record
  Limit,         \* [Agent -> Nat]: requests_per_second
  Cost,          \* [Domain -> Nat]: the cost table
  MaxCost,       \* [Agent -> Nat]: the budget, 0 where there is none
  WarnAt,        \* [Agent -> Nat]: warn_threshold
  RateWindow, BudgetWindow, Cooldown, AlertCapacity,
  MaxTime        \* bound on the clock, for TLC

ASSUME PolicyAssumption ==
  /\ Covers \in [Pattern -> SUBSET Domain] /\ \A d \in Domain \intersect Pattern : Covers[d] = {d}
  /\ Stranger \notin Agent
  /\ ConfigFile \in [Agent -> SUBSET Pattern]
  /\ DeniedToAll \subseteq Domain /\ DeniedTo \in [Agent -> SUBSET Domain]
  /\ Tunnelling \subseteq Domain
  /\ Records \in [Domain -> Seq(Address)]
  /\ Limit \in [Agent -> Nat \ {0}]
  /\ Cost \in [Domain -> Nat] /\ MaxCost \in [Agent -> Nat] /\ WarnAt \in [Agent -> Nat]
  /\ {RateWindow, BudgetWindow, Cooldown, AlertCapacity} \subseteq Nat \ {0}
  /\ MaxTime \in Nat

VARIABLES
  now,          \* the monotonic clock
  editing,      \* the access change whose snapshot is still to be compiled, if any
  config,       \* _config: the allowlist of each agent
  compiled,     \* _compiled: the allowlists the resolver reads
  requests,     \* _requests: admission times in the rate window
  spend,        \* budgets._spend: <<time, cost>> entries
  rr,           \* _round_robin
  probeHealth,  \* _probe_health
  overrides,    \* _overrides: a function on the pinned addresses
  alerts,       \* alerts._alerts, newest first
  lastRaised,   \* alerts._last_raised
  pc, query,    \* where each thread stands, and with what query
  decision,     \* the Decision each thread got
  admitted,     \* history: all admission times since the last reset
  charged,      \* history: all charges since the last reset
  served        \* history: answers per endpoint since the pool last changed

quotaVars  == <<requests, admitted>>
budgetVars == <<spend, charged, alerts, lastRaised>>
poolVars   == <<rr, probeHealth, overrides, served>>
accessVars == <<editing, config, compiled>>
threadVars == <<pc, query, decision>>
vars == <<now, quotaVars, budgetVars, poolVars, accessVars, threadVars>>

-----------------------------------------------------------------------------
Nothing == [action |-> "NONE", reason |-> "none"]
NoEdit == <<>>
Unlocked == editing = NoEdit
Nobody == [a \in Agent |-> <<>>]
NotServed == [d \in Domain |-> [e \in Address |-> 0]]
Stamped(action, reason) == [action |-> action, reason |-> reason]
Answered(e) == [action |-> "ALLOW", reason |-> "policy_allowed", answer |-> e]

Source == Agent \union {Stranger}
Grants(allowed, a) == UNION {Covers[p] : p \in allowed[a]}

Init ==
  /\ now = 0 /\ editing = NoEdit
  /\ config = ConfigFile /\ compiled = ConfigFile
  /\ requests = Nobody /\ spend = Nobody
  /\ rr = [d \in Domain |-> 0]
  /\ probeHealth = [e \in Address |-> TRUE] /\ overrides = <<>>
  /\ alerts = <<>> /\ lastRaised = <<>>
  /\ pc = [t \in Thread |-> "idle"]
  /\ query = [t \in Thread |-> <<>>]
  /\ decision = [t \in Thread |-> Nothing]
  /\ admitted = Nobody /\ charged = Nobody /\ served = NotServed

Tick ==
  /\ now < MaxTime
  /\ now' = now + 1
  /\ UNCHANGED <<quotaVars, budgetVars, poolVars, accessVars, threadVars>>

-----------------------------------------------------------------------------
(* evaluate(), before the lock. *)

\* The first rule that blocks the query, in the order of the code.
BlockReasons(src, d) ==
  IF src \notin Agent THEN {"unknown_agent"}
  ELSE IF d \in DeniedToAll THEN {"domain_denied"}
  ELSE IF d \in DeniedTo[src] THEN {"domain_denied_for_agent"}
  ELSE IF d \in Tunnelling THEN {"tunnelling"}
  ELSE IF d \notin Grants(compiled, src) THEN {"domain_not_allowed"}
  ELSE {}

Begin(t, src, d) ==
  /\ pc[t] = "idle"
  /\ query' = [query EXCEPT ![t] = <<src, d>>]
  /\ IF BlockReasons(src, d) = {}
     THEN /\ pc' = [pc EXCEPT ![t] = "decide"]
          /\ UNCHANGED decision
     ELSE /\ pc' = [pc EXCEPT ![t] = "done"]
          /\ \E reason \in BlockReasons(src, d) :
               decision' = [decision EXCEPT ![t] = Stamped("BLOCK", reason)]
  /\ UNCHANGED <<now, quotaVars, budgetVars, poolVars, accessVars>>

\* The resolver has mapped the decision to a reply.
Reply(t) ==
  /\ pc[t] = "done"
  /\ pc' = [pc EXCEPT ![t] = "idle"]
  /\ query' = [query EXCEPT ![t] = <<>>]
  /\ decision' = [decision EXCEPT ![t] = Nothing]
  /\ UNCHANGED <<now, quotaVars, budgetVars, poolVars, accessVars>>

-----------------------------------------------------------------------------
(* The rate limit: _rate_limited(). *)

\* Popping from the left while the head is old stops after n entries.
Stale(at) == now - at >= RateWindow
PrunesAt(s, n) ==
  /\ \A i \in 1 .. n : Stale(s[i])
  /\ n < Len(s) => ~Stale(s[n + 1])

\* Mutant: one admission too many.
FullOffByOne(a, window) == Len(window) > Limit[a]

Full(a, window) == Len(window) >= Limit[a]

\* The window as the pops leave it.
Pruned(a, n) == SubSeq(requests[a], n + 1, Len(requests[a]))

Throttle(a) ==
  \E n \in 0 .. Len(requests[a]) :
    /\ PrunesAt(requests[a], n)
    /\ Full(a, Pruned(a, n))
    /\ requests' = [requests EXCEPT ![a] = Pruned(a, n)]
    /\ UNCHANGED admitted

Admit(a) ==
  \E n \in 0 .. Len(requests[a]) :
    /\ PrunesAt(requests[a], n)
    /\ ~Full(a, Pruned(a, n))
    /\ requests' = [requests EXCEPT ![a] = Append(Pruned(a, n), now)]
    /\ admitted' = [admitted EXCEPT ![a] = Append(admitted[a], now)]

-----------------------------------------------------------------------------
(* The budget: BudgetLedger and AlertCenter. *)

Total(entries) ==
  LET sum[n \in 0 .. Len(entries)] == IF n = 0 THEN 0 ELSE sum[n - 1] + entries[n][2]
  IN  sum[Len(entries)]

\* spent(): entries at or before the cutoff are popped from the left.
Expired(entry) == entry[1] <= now - BudgetWindow
Popped(entries) ==
  CHOOSE n \in 0 .. Len(entries) :
    /\ \A i \in 1 .. n : Expired(entries[i])
    /\ n < Len(entries) => ~Expired(entries[n + 1])
Fresh(entries) == SubSeq(entries, Popped(entries) + 1, Len(entries))

Metered(a, d) == Cost[d] > 0 /\ MaxCost[a] > 0
\* Mutant: only what was spent already is compared with the budget.
WouldExceedBefore(a, d) == Total(Fresh(spend[a])) >= MaxCost[a]

WouldExceed(a, d) == Total(Fresh(spend[a])) + Cost[d] > MaxCost[a]

\* Mutant: alerts are de-duplicated per kind only.
RecentAnyAgent(a, kind) ==
  \E b \in Agent : <<b, kind>> \in DOMAIN lastRaised /\ now - lastRaised[<<b, kind>>] < Cooldown

Recent(a, kind) ==
  <<a, kind>> \in DOMAIN lastRaised /\ now - lastRaised[<<a, kind>>] < Cooldown

\* raise_alert(): the deque keeps the newest AlertCapacity alerts.
RaiseAlert(a, kind) ==
  IF Recent(a, kind)
  THEN UNCHANGED <<alerts, lastRaised>>
  ELSE /\ LET longer == <<[agent |-> a, kind |-> kind, at |-> now]>> \o alerts
          IN  alerts' = SubSeq(longer, 1, IF Len(longer) > AlertCapacity THEN AlertCapacity ELSE Len(longer))
       /\ lastRaised' = [k \in DOMAIN lastRaised \union {<<a, kind>>} |->
                           IF k = <<a, kind>> THEN now ELSE lastRaised[k]]

Refuse(a) ==
  /\ spend' = [spend EXCEPT ![a] = Fresh(spend[a])]
  /\ RaiseAlert(a, "budget_exhausted")
  /\ UNCHANGED charged

\* Mutant: the warning looks at the total before this charge.
ChargeWarnsLate(a, d) ==
  /\ spend' = [spend EXCEPT ![a] = Append(Fresh(spend[a]), <<now, Cost[d]>>)]
  /\ charged' = [charged EXCEPT ![a] = Append(charged[a], <<now, Cost[d]>>)]
  /\ IF Total(Fresh(spend[a])) >= WarnAt[a]
     THEN RaiseAlert(a, "budget_warning")
     ELSE UNCHANGED <<alerts, lastRaised>>

Charge(a, d) ==
  LET entries == Append(Fresh(spend[a]), <<now, Cost[d]>>)
  IN  /\ spend' = [spend EXCEPT ![a] = entries]
      /\ charged' = [charged EXCEPT ![a] = Append(charged[a], <<now, Cost[d]>>)]
      /\ IF Total(entries) >= WarnAt[a]
         THEN RaiseAlert(a, "budget_warning")
         ELSE UNCHANGED <<alerts, lastRaised>>

\* A metered query within budget is charged before its record is looked up.
Pay(a, d) ==
  IF Metered(a, d)
  THEN ~WouldExceed(a, d) /\ Charge(a, d)
  ELSE UNCHANGED budgetVars

-----------------------------------------------------------------------------
(* The endpoint pool. *)

EffectiveHealth(e) == IF e \in DOMAIN overrides THEN overrides[e] ELSE probeHealth[e]

\* Mutant: where nothing is healthy, anything is handed out.
HealthyOrAny(d) ==
  LET healthy == {i \in DOMAIN Records[d] : EffectiveHealth(Records[d][i])}
  IN  IF healthy = {} THEN DOMAIN Records[d] ELSE healthy

\* The places of the healthy endpoints in the record.
Healthy(d) == {i \in DOMAIN Records[d] : EffectiveHealth(Records[d][i])}

\* healthy[index]: the one with as many healthy ones before it as the counter says.
Rank(healthy, i) == Cardinality({j \in healthy : j < i})
Turn(d) == CHOOSE i \in Healthy(d) : Rank(Healthy(d), i) = rr[d] % Cardinality(Healthy(d))
NextEndpoint(d) == Records[d][Turn(d)]

\* Mutant: one counter for all names.
PickShared(d) ==
  /\ rr' = [f \in Domain |-> rr[f] + 1]
  /\ served' = [served EXCEPT ![d][NextEndpoint(d)] = @ + 1]

Pick(d) ==
  /\ rr' = [rr EXCEPT ![d] = rr[d] + 1]
  /\ served' = [served EXCEPT ![d][NextEndpoint(d)] = @ + 1]

-----------------------------------------------------------------------------
(* evaluate(), under the lock. *)

Decide(t, a, d, what) ==
  /\ pc[t] = "decide" /\ query[t] = <<a, d>> /\ Unlocked
  /\ pc' = [pc EXCEPT ![t] = "done"]
  /\ decision' = [decision EXCEPT ![t] = what]
  /\ UNCHANGED <<now, query, accessVars, probeHealth, overrides>>

DecideThrottled(t, a, d) ==
  /\ Decide(t, a, d, Stamped("THROTTLE", "rate_limit_exceeded"))
  /\ Throttle(a)
  /\ UNCHANGED <<budgetVars, rr, served>>

DecideOverBudget(t, a, d) ==
  /\ Decide(t, a, d, Stamped("THROTTLE", "budget_exhausted"))
  /\ Admit(a)
  /\ Metered(a, d) /\ WouldExceed(a, d)
  /\ Refuse(a)
  /\ UNCHANGED <<rr, served>>

DecideNoRecord(t, a, d) ==
  /\ Records[d] = <<>>
  /\ Decide(t, a, d, Stamped("NXDOMAIN", "record_not_found"))
  /\ Admit(a) /\ Pay(a, d)
  /\ UNCHANGED <<rr, served>>

DecideNoEndpoint(t, a, d) ==
  /\ Records[d] # <<>> /\ Healthy(d) = {}
  /\ Decide(t, a, d, Stamped("SERVFAIL", "no_healthy_endpoint"))
  /\ Admit(a) /\ Pay(a, d)
  /\ UNCHANGED <<rr, served>>

DecideAllowed(t, a, d) ==
  /\ Healthy(d) # {}
  /\ Decide(t, a, d, Answered(NextEndpoint(d)))
  /\ Admit(a) /\ Pay(a, d) /\ Pick(d)

-----------------------------------------------------------------------------
(* The control API and the health monitor. *)

\* The pool of a name changed: its answers are counted afresh.
Recount ==
  served' = [d \in Domain |-> IF Healthy(d)' = Healthy(d) THEN served[d] ELSE NotServed[d]]

SetEndpointHealth(e, healthy) ==
  /\ Unlocked
  /\ overrides' = [f \in DOMAIN overrides \union {e} |-> IF f = e THEN healthy ELSE overrides[f]]
  /\ UNCHANGED <<now, quotaVars, budgetVars, rr, probeHealth, accessVars, threadVars>>
  /\ Recount

ClearEndpointOverride(e) ==
  /\ Unlocked
  /\ overrides' = [f \in DOMAIN overrides \ {e} |-> overrides[f]]
  /\ UNCHANGED <<now, quotaVars, budgetVars, rr, probeHealth, accessVars, threadVars>>
  /\ Recount

RecordProbe(e, healthy) ==
  /\ Unlocked
  /\ probeHealth' = [probeHealth EXCEPT ![e] = healthy]
  /\ UNCHANGED <<now, quotaVars, budgetVars, rr, overrides, accessVars, threadVars>>
  /\ Recount

\* set_domain_access(): the configuration changes under the lock ...
SetDomainAccess(a, p, allowed) ==
  /\ Unlocked
  /\ config' = [config EXCEPT ![a] = IF allowed THEN @ \union {p} ELSE @ \ {p}]
  /\ editing' = <<a, p, allowed>>
  /\ UNCHANGED <<now, quotaVars, budgetVars, poolVars, compiled, threadVars>>

\* Mutant: a revocation does not rebuild the snapshot.
RecompileGrantsOnly ==
  /\ ~Unlocked
  /\ compiled' = IF editing[3] THEN config ELSE compiled
  /\ editing' = NoEdit
  /\ UNCHANGED <<now, quotaVars, budgetVars, poolVars, config, threadVars>>

\* ... and the snapshot is replaced before the lock is released.
Recompile ==
  /\ ~Unlocked
  /\ compiled' = config
  /\ editing' = NoEdit
  /\ UNCHANGED <<now, quotaVars, budgetVars, poolVars, config, threadVars>>

SpendReport(a) ==
  /\ Unlocked /\ MaxCost[a] > 0
  /\ spend' = [spend EXCEPT ![a] = Fresh(spend[a])]
  /\ UNCHANGED <<now, quotaVars, charged, alerts, lastRaised, poolVars, accessVars, threadVars>>

ResetBudgets ==
  /\ Unlocked
  /\ spend' = Nobody /\ charged' = Nobody
  /\ alerts' = <<>> /\ lastRaised' = <<>>
  /\ UNCHANGED <<now, quotaVars, poolVars, accessVars, threadVars>>

\* reset(): everything but the queries already past their snapshot, which
\* decide against the state the reset leaves.
Reset ==
  /\ Unlocked
  /\ requests' = Nobody /\ admitted' = Nobody
  /\ spend' = Nobody /\ charged' = Nobody
  /\ alerts' = <<>> /\ lastRaised' = <<>>
  /\ rr' = [d \in Domain |-> 0] /\ served' = NotServed
  /\ probeHealth' = [e \in Address |-> TRUE] /\ overrides' = <<>>
  /\ config' = ConfigFile /\ compiled' = ConfigFile
  /\ UNCHANGED <<now, editing, threadVars>>

-----------------------------------------------------------------------------
DecideQuery(t, a, d) ==
  \/ DecideThrottled(t, a, d) \/ DecideOverBudget(t, a, d)
  \/ DecideNoRecord(t, a, d) \/ DecideNoEndpoint(t, a, d) \/ DecideAllowed(t, a, d)

QueryNext ==
  \E t \in Thread :
    \/ \E src \in Source, d \in Domain : Begin(t, src, d)
    \/ \E a \in Agent, d \in Domain : DecideQuery(t, a, d)
    \/ Reply(t)

PoolNext ==
  \E e \in Address :
    \/ \E healthy \in BOOLEAN : SetEndpointHealth(e, healthy) \/ RecordProbe(e, healthy)
    \/ ClearEndpointOverride(e)

AccessNext ==
  \/ \E a \in Agent, p \in Pattern, allowed \in BOOLEAN : SetDomainAccess(a, p, allowed)
  \/ Recompile

BudgetNext == (\E a \in Agent : SpendReport(a)) \/ ResetBudgets

Next == Tick \/ QueryNext \/ PoolNext \/ AccessNext \/ BudgetNext \/ Reset

Spec == Init /\ [][Next]_vars

-----------------------------------------------------------------------------
(* Properties. *)

\* requests_per_second: an agent's admissions never come closer than the window
\* allows, in any interval and across every interleaving with the other threads,
\* although _requests itself is pruned and forgets them.
RateBound ==
  \A a \in Agent : \A i \in DOMAIN admitted[a] :
    i + Limit[a] \in DOMAIN admitted[a] => admitted[a][i + Limit[a]] - admitted[a][i] >= RateWindow

\* A rolling budget: what an agent is charged in any stretch shorter than the
\* window is within max_cost, although spend_report() prunes the ledger too.
BudgetBound ==
  \A a \in Agent : \A k, i \in DOMAIN charged[a] :
    k <= i /\ charged[a][i][1] - charged[a][k][1] < BudgetWindow => Total(SubSeq(charged[a], k, i)) <= MaxCost[a]

\* While a name's pool of healthy endpoints stays the same, its answers are
\* spread over that pool evenly, whatever other names are asked for.
LoadBalanced ==
  \A d \in Domain : \A i, j \in Healthy(d) : served[d][Records[d][i]] - served[d][Records[d][j]] <= 1

\* policy.py:40, "rebuilt whenever the configuration changes": a query that
\* begins when no change is under way decides on the current configuration.
SnapshotCurrent == Unlocked => compiled = config

\* A query of agent a that this step refused for its budget.
Refused(a) ==
  \E t \in Thread : /\ pc[t] = "decide" /\ query[t][1] = a
                    /\ decision'[t] = Stamped("THROTTLE", "budget_exhausted")

\* README.md:126: every refusal leaves a critical alert no older than the cooldown
\* in the buffer, the de-duplication and the buffer's capacity notwithstanding.
RefusalsAlerted ==
  [][\A a \in Agent : Refused(a) =>
       \E i \in DOMAIN alerts' : /\ alerts'[i].agent = a /\ alerts'[i].kind = "budget_exhausted"
                                 /\ now - alerts'[i].at < Cooldown]_vars

\* README.md:191, "notifies when an agent crosses 80% and then 100%": with prices
\* that cannot jump from below the warning to beyond the budget, a refusal
\* comes after a warning.
WarnedFirst ==
  [][\A a \in Agent : Refused(a) =>
       \E i \in DOMAIN alerts' : /\ alerts'[i].agent = a /\ alerts'[i].kind = "budget_warning"
                                 /\ now - alerts'[i].at < BudgetWindow + Cooldown]_vars

=============================================================================
