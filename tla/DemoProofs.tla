------------------------------ MODULE DemoProofs ------------------------------
(***************************************************************************)
(* What holds of the demonstration for every policy, selection, bound and  *)
(* number of faults: a command whose reset went through ends with a        *)
(* verdict for each scenario it was asked for (EveryScenarioJudged); the   *)
(* responder denies a failover only for a reason (BlameIsFair); and an     *)
(* incident it reports as over is over at the service (RepairIsReal).      *)
(***************************************************************************)
EXTENDS Demo, PolicyEngineProofs, SequenceTheorems

(* Every scenario is judged. *)

\* The scenarios a command has still to judge.
Pending == queue \union ({current} \ {NoScenario})

\* Of a command whose reset did not raise, what was asked for is what is judged
\* and what is pending.  That NoScenario is no place in the catalogue is needed
\* where a command ends: nothing is pending then.
JInv ==
  /\ NoScenario \notin queue
  /\ ~aborted => wanted = judged \union {Catalogue[i].id : i \in Pending}

judgeVars == <<queue, current, verdicts, requestVars>>

-----------------------------------------------------------------------------
\* Every scenario of the catalogue has a place, none of them NoScenario.
LEMMA Places == ASSUME NEW names PROVE NoScenario \notin Selection(names)
<1>1. DOMAIN Catalogue = 1 .. 15
  BY DEF Catalogue
<1>2. QED
  BY <1>1 DEF Selection, NoScenario

\* A command begins with everything it was asked for pending.
LEMMA Commanding ==
  ASSUME NEW names, Command(names)
  PROVE  JInv'
<1>1. NoScenario \notin queue'
  BY Places DEF Command
<1>2. wanted' = {Catalogue[i].id : i \in queue'} /\ judged' = {}
  BY DEF Command, Requested
<1>3. current' = NoScenario
  BY DEF Command, Requested, Idle, scriptVars
<1>4. QED
  BY <1>1, <1>2, <1>3 DEF JInv, Pending

\* A reset that raises runs nothing.
LEMMA NotCommanding ==
  ASSUME JInv, NEW names, ResetRaises(names)
  PROVE  JInv'
  BY DEF JInv, ResetRaises

\* The scenario that begins stays pending.
LEMMA Beginning ==
  ASSUME JInv, BeginScenario
  PROVE  JInv'
<1>1. PICK i \in queue : current' = i /\ queue' = queue \ {i}
  BY DEF BeginScenario
<1>2. i # NoScenario /\ Pending' = Pending
  BY <1>1 DEF JInv, Pending, BeginScenario
<1>3. UNCHANGED requestVars
  BY DEF BeginScenario
<1>4. QED
  BY <1>1, <1>2, <1>3 DEF JInv, requestVars

\* The scenario that ends is judged.
LEMMA Ending ==
  ASSUME JInv, current # NoScenario, NEW v, EndScenario(v), UNCHANGED queue
  PROVE  JInv'
<1>1. judged' = judged \union {Catalogue[current].id}
  BY DEF EndScenario
<1>2. Pending = Pending' \union {current}
  BY DEF EndScenario, Pending
<1>3. wanted' = wanted /\ aborted' = aborted
  BY DEF EndScenario
<1>4. QED
  BY <1>1, <1>2, <1>3 DEF JInv

\* No call of a scenario, and nothing the world does, touches the verdicts.
LEMMA Calling ==
  ASSUME CallNext \/ ResponderNext \/ WorldNext \/ Over \/ UNCHANGED demoVars
  PROVE  UNCHANGED judgeVars
<1>1. ASSUME CallNext PROVE UNCHANGED judgeVars
  <2>1. AskNext \/ AskDecide \/ AskReply \/ AskReturn => UNCHANGED judgeVars
    BY DEF AskNext, AskDecide, AskReply, AskReturn, Rest, judgeVars
  <2>2. InjectCall \/ GrantCall \/ GrantCompiles \/ ResetBudgetsCall \/ SpendCall => UNCHANGED judgeVars
    BY DEF InjectCall, GrantCall, GrantCompiles, ResetBudgetsCall, SpendCall, Rest, judgeVars
  <2>3. EnsureIncident \/ AwaitCall \/ AwaitTimesOut => UNCHANGED judgeVars
    BY DEF EnsureIncident, AwaitCall, AwaitTimesOut, AwaitEnds, Rest, judgeVars
  <2>4. QED
    BY <1>1, <2>1, <2>2, <2>3 DEF CallNext
<1>2. ASSUME ResponderNext PROVE UNCHANGED judgeVars
  BY <1>2 DEF ResponderNext, Survey, Repair, Repaired, AwaitAll, Rest, judgeVars
<1>3. ASSUME WorldNext PROVE UNCHANGED judgeVars
  BY <1>3 DEF WorldNext, Publish, StaleSweep, Meddle, runVars, scriptVars, judgeVars
<1>4. ASSUME Over \/ UNCHANGED demoVars PROVE UNCHANGED judgeVars
  BY <1>4 DEF Over, demoVars, runVars, scriptVars, pastVars, judgeVars
<1>5. QED
  BY <1>1, <1>2, <1>3, <1>4

-----------------------------------------------------------------------------
LEMMA Stepping ==
  ASSUME JInv, [DemoNext]_demoVars
  PROVE  JInv'
<1>1. ASSUME CommandNext, ~Over PROVE JInv'
  <2>1. CASE \E names \in Selections : ResetRaises(names)
    BY <2>1, NotCommanding
  <2>2. CASE \E names \in Selections : RunAsItIs(names) \/ RunAfterReset(names)
    BY <2>2, Commanding DEF RunAsItIs, RunAfterReset
  <2>3. QED
    BY <1>1, <2>1, <2>2 DEF CommandNext
<1>2. ASSUME ScenarioNext PROVE JInv'
  <2>1. CASE BeginScenario
    BY <2>1, Beginning
  <2>2. CASE Judge
    BY <2>2, Ending DEF Judge, Between
  <2>3. CASE Raises
    BY <2>3, Ending DEF Raises, Between
  <2>4. QED
    BY <1>2, <2>1, <2>2, <2>3 DEF ScenarioNext
<1>3. ASSUME UNCHANGED judgeVars PROVE JInv'
  BY <1>3 DEF JInv, Pending, judgeVars, requestVars
<1>4. QED
  BY <1>1, <1>2, <1>3, Calling DEF DemoNext

\* Whatever raises in the scenarios, gets lost or is late, a command that began to
\* run ends with a verdict of its own for each scenario it was asked for, and for no
\* other: run_scenario() lets no exception out.  A command whose reset raises is
\* excepted, as EveryScenarioJudged says.
THEOREM NothingIsSkipped == DemoSpec => []EveryScenarioJudged
<1>1. DemoInit => JInv
  BY DEF DemoInit, JInv, Pending
<1>2. JInv /\ [DemoNext]_demoVars => JInv'
  BY Stepping
<1>3. JInv => EveryScenarioJudged
  BY DEF JInv, Pending, EveryScenarioJudged, Idle
<1>4. QED
  BY <1>1, <1>2, <1>3, PTL DEF DemoSpec

-----------------------------------------------------------------------------
(***************************************************************************)
(* What the responder reads and what it says.  Scripts run one call at a   *)
(* time, so what the properties need to know of them is what may still     *)
(* come: in the failover, the calls left and the answers heard so far; in  *)
(* the incident, that nothing is broken once the responder has looked.     *)
(***************************************************************************)

\* No scenario pins an endpoint, so that the pool believes its probes, and a
\* query is decided or in flight only while a scenario asks.
EngineInv ==
  /\ overrides = <<>> /\ rr \in [Domain -> Nat]
  /\ DOMAIN probeHealth = Address /\ DOMAIN up = Address
  /\ DOMAIN pc = Thread /\ DOMAIN query = Thread /\ DOMAIN decision = Thread
  /\ current \in 0 .. 15 /\ queue \subseteq 1 .. 15 /\ asked \in Nat
  /\ \A t \in Thread : /\ pc[t] = "idle" => decision[t] = Nothing
                       /\ current = NoScenario => pc[t] = "idle"

\* Calls and answers are of several kinds; what is known of all of them is that
\* they come one after the other.
Sequence(s) == Len(s) \in Nat /\ s = [i \in 1 .. Len(s) |-> s[i]]

FailoverAt == 12
IncidentAt == 13

\* The calls of the failover still to be made, and what it has heard by then.
Remaining ==
  /\ Sequence(todo) /\ Len(todo) <= 5
  /\ \A i \in 1 .. Len(todo) : todo[i] = Failover[5 - Len(todo) + i]
Answers ==
  /\ Sequence(heard)
  /\ Len(todo) \in {5, 4} => asked = 0 /\ Len(heard) = 0
  /\ Len(todo) = 3 => Len(heard) = IF asked = 0 THEN 1 ELSE 2
  /\ Len(todo) = 2 => asked = 0 /\ Len(heard) = 2
  /\ Len(todo) = 1 => Len(heard) = IF asked = 0 THEN 2 ELSE 3
  /\ Len(todo) = 0 => asked = 0 /\ Len(heard) = 3

\* An endpoint that was listed and is healthy now has come back since: so has
\* one that an answer in flight names, or one of the answers heard.
BackSince(e) == e \in Range(listed) => e \in rejoined
Fair ==
  /\ listed \in Seq(Address)
  /\ \A e \in Range(listed) : probeHealth[e] => e \in rejoined
  /\ \A t \in Thread : /\ pc[t] = "decide" => query[t][2] \in Domain
                       /\ decision[t].action = "ALLOW" => decision[t].answer \in Address /\ BackSince(decision[t].answer)
  /\ Len(heard) >= 3 => heard[3] \in Seq(Address) /\ \A e \in Range(heard[3]) : BackSince(e)

FailoverInv == current = FailoverAt => Remaining /\ Answers /\ Fair

\* A call that takes a service down, or may lead to one.
Breaks(call) == call.op \in {"inject", "ensure incident"}

\* Nothing is broken after the survey.
Settled ==
  /\ Sequence(todo)
  /\ \A i, j \in 1 .. Len(todo) : todo[i].op = "survey" /\ Breaks(todo[j]) => j < i
  /\ listed # <<>> => \A j \in 1 .. Len(todo) : ~Breaks(todo[j])

\* What was listed and is healthy now, or is no longer listed as unhealthy, is
\* up or was taken down again.
Genuine ==
  /\ listed \in Seq(Range(Endpoints))
  /\ \A e \in Range(listed) : probeHealth[e] => up[e] \/ e \in taken
  /\ \A e \in Range(listed) \ Range(still) : up[e] \/ e \in taken

IncidentInv == current = IncidentAt => Settled /\ Genuine

-----------------------------------------------------------------------------
(* Sequences of calls and answers. *)

LEMMA SequenceIs ==
  ASSUME NEW s, Sequence(s)
  PROVE  s \in Seq({s[i] : i \in 1 .. Len(s)}) /\ DOMAIN s = 1 .. Len(s) /\ Len(s) \in Nat
  BY DEF Sequence

LEMMA TailOf ==
  ASSUME NEW s, Sequence(s), s # <<>>
  PROVE  /\ Sequence(Tail(s)) /\ Len(s) >= 1 /\ Len(Tail(s)) = Len(s) - 1 /\ Head(s) = s[1]
         /\ \A i \in 1 .. Len(s) - 1 : Tail(s)[i] = s[i + 1]
<1> DEFINE S == {s[i] : i \in 1 .. Len(s)}
<1>1. s \in Seq(S) /\ Len(s) \in Nat
  BY SequenceIs
<1> HIDE DEF S
<1>2. Tail(s) \in Seq(S) /\ Len(Tail(s)) = Len(s) - 1 /\ Len(s) >= 1 /\ Head(s) = s[1]
  BY <1>1
<1>3. \A i \in 1 .. Len(s) - 1 : Tail(s)[i] = s[i + 1]
  BY <1>1, <1>2
<1>4. Sequence(Tail(s))
  <2> DEFINE u == Tail(s)
  <2>1. u \in Seq(S)
    BY <1>2
  <2> HIDE DEF u
  <2>2. Sequence(u)
    BY <2>1 DEF Sequence
  <2> QED
    BY <2>2 DEF u
<1> QED
  BY <1>2, <1>3, <1>4

LEMMA AppendTo ==
  ASSUME NEW s, Sequence(s), NEW x
  PROVE  /\ Sequence(Append(s, x)) /\ Len(Append(s, x)) = Len(s) + 1 /\ Append(s, x)[Len(s) + 1] = x
         /\ \A i \in 1 .. Len(s) : Append(s, x)[i] = s[i]
<1> DEFINE S == {s[i] : i \in 1 .. Len(s)}
           T == S \union {x}
           u == Append(s, x)
<1>1. s \in Seq(S) /\ Len(s) \in Nat
  BY SequenceIs
<1>2. s \in Seq(T) /\ x \in T
  <2>1. DOMAIN s = 1 .. Len(s)
    BY SequenceIs
  <2> QED
    BY <1>1, <2>1
<1> HIDE DEF S, T
<1>3. u \in Seq(T) /\ Len(u) = Len(s) + 1 /\ u[Len(s) + 1] = x /\ \A i \in 1 .. Len(s) : u[i] = s[i]
  BY <1>1, <1>2
<1> HIDE DEF u
<1>4. Sequence(u)
  BY <1>1, <1>3 DEF Sequence
<1> QED
  BY <1>3, <1>4 DEF u

\* A function on the same positions is a sequence of the same length.
LEMMA SamePlaces ==
  ASSUME NEW s, Sequence(s), NEW u, DOMAIN u = DOMAIN s, u = [i \in DOMAIN u |-> u[i]]
  PROVE  Sequence(u) /\ Len(u) = Len(s)
<1> DEFINE N == Len(s)
           S == {u[i] : i \in 1 .. N}
<1>1. DOMAIN u = 1 .. N /\ N \in Nat
  BY SequenceIs
<1>2. u = [i \in 1 .. N |-> u[i]] /\ \A i \in 1 .. N : u[i] \in S
  BY <1>1
<1> HIDE DEF N, S
<1>3. u \in Seq(S) /\ Len(u) = N
  BY <1>1, <1>2
<1> QED
  BY <1>1, <1>2, <1>3 DEF Sequence, N

\* Two calls put before the rest.
LEMMA TwoBefore ==
  ASSUME NEW s, Sequence(s), NEW x, NEW y
  PROVE  LET u == <<x, y>> \o s
         IN  /\ Sequence(u) /\ Len(u) = Len(s) + 2 /\ u[1] = x /\ u[2] = y
             /\ \A i \in 3 .. Len(s) + 2 : u[i] = s[i - 2]
<1> DEFINE S == {s[i] : i \in 1 .. Len(s)}
           T == S \union {x, y}
           h == <<x, y>>
           u == h \o s
<1>1. s \in Seq(S) /\ Len(s) \in Nat
  BY SequenceIs
<1>2. s \in Seq(T) /\ h \in Seq(T) /\ Len(h) = 2 /\ h[1] = x /\ h[2] = y
  <2>1. DOMAIN s = 1 .. Len(s)
    BY SequenceIs
  <2> QED
    BY <1>1, <2>1
<1> HIDE DEF S, T, h
<1>c. /\ u \in Seq(T) /\ Len(u) = Len(h) + Len(s)
      /\ \A i \in 1 .. Len(h) + Len(s) : u[i] = IF i <= Len(h) THEN h[i] ELSE s[i - Len(h)]
  BY <1>2, ConcatProperties
<1>d. Len(h) + Len(s) = Len(s) + 2
  BY <1>1, <1>2
<1> HIDE DEF u
<1>a. u \in Seq(T) /\ Len(u) = Len(s) + 2
  BY <1>c, <1>d
<1>b. \A i \in 1 .. Len(s) + 2 : u[i] = IF i <= 2 THEN h[i] ELSE s[i - 2]
  BY <1>2, <1>c, <1>d
<1>3. u \in Seq(T) /\ Len(u) = Len(s) + 2 /\ u[1] = x /\ u[2] = y
  <2>1. 1 \in 1 .. Len(s) + 2 /\ 2 \in 1 .. Len(s) + 2
    BY <1>1
  <2>2. u[1] = h[1] /\ u[2] = h[2]
    BY <1>b, <2>1
  <2> QED
    BY <1>2, <1>a, <2>2
<1>4. \A i \in 3 .. Len(s) + 2 : u[i] = s[i - 2]
  <2> TAKE i \in 3 .. Len(s) + 2
  <2>1. i \in 1 .. Len(s) + 2 /\ ~(i <= 2)
    BY <1>1
  <2> QED
    BY <1>b, <2>1
<1> HIDE DEF u
<1>5. Sequence(u)
  BY <1>1, <1>3 DEF Sequence
<1> QED
  BY <1>3, <1>4, <1>5 DEF u, h

-----------------------------------------------------------------------------
(* The responder's list and the pool's choice. *)

\* Every failing endpoint is in the list, and nothing else.
LEMMA UnhealthyIs ==
  /\ Unhealthy \in Seq(Range(Endpoints))
  /\ \A e \in Range(Unhealthy) : ~EffectiveHealth(e)
  /\ \A e \in Range(Endpoints) : ~EffectiveHealth(e) => e \in Range(Unhealthy)
<1> DEFINE N == Len(Endpoints)
           n == Cardinality(Failing)
           at(k) == CHOOSE i \in Failing : Rank(Failing, i) = k - 1
<1>1. N \in Nat /\ DOMAIN Endpoints = 1 .. N
  BY DemoAssumption DEF DemoAssumption
<1>2. Failing \subseteq 1 .. N
  BY <1>1 DEF Failing
<1>3. /\ n \in Nat /\ \A i \in Failing : Rank(Failing, i) \in 0 .. n - 1
      /\ \A i, j \in Failing : Rank(Failing, i) = Rank(Failing, j) => i = j
      /\ \A k \in 0 .. n - 1 : \E i \in Failing : Rank(Failing, i) = k
  BY <1>1, <1>2, Ranks
<1> HIDE DEF n, N
<1>4. ASSUME NEW k \in 1 .. n PROVE at(k) \in Failing /\ Rank(Failing, at(k)) = k - 1
  <2>1. k - 1 \in 0 .. n - 1
    BY <1>3
  <2>2. \E i \in Failing : Rank(Failing, i) = k - 1
    BY <1>3, <2>1
  <2> QED
    BY <2>2
<1>5. Unhealthy = [k \in 1 .. n |-> Endpoints[at(k)]]
  BY DEF Unhealthy, n
<1> HIDE DEF at
<1>6. ASSUME NEW i \in Failing PROVE Endpoints[i] \in Range(Endpoints) /\ ~EffectiveHealth(Endpoints[i])
  BY <1>1, <1>2 DEF Failing, Range
<1>7. Unhealthy \in Seq(Range(Endpoints)) /\ DOMAIN Unhealthy = 1 .. n
  <2>1. \A k \in 1 .. n : Endpoints[at(k)] \in Range(Endpoints)
    BY <1>4, <1>6
  <2> QED
    BY <1>3, <1>5, <2>1
<1>8. ASSUME NEW e \in Range(Unhealthy) PROVE ~EffectiveHealth(e)
  <2>1. PICK k \in 1 .. n : e = Unhealthy[k]
    BY <1>7 DEF Range
  <2> QED
    BY <1>4, <1>5, <1>6, <2>1
<1>9. ASSUME NEW e \in Range(Endpoints), ~EffectiveHealth(e) PROVE e \in Range(Unhealthy)
  <2>1. PICK i \in 1 .. N : e = Endpoints[i]
    BY <1>1 DEF Range
  <2>2. i \in Failing
    BY <1>1, <1>9, <2>1 DEF Failing
  <2> DEFINE r == Rank(Failing, i)
             k == r + 1
  <2>3. k \in 1 .. n /\ k - 1 = r
    BY <1>3, <2>2
  <2> HIDE DEF k, r
  <2>4. at(k) = i
    BY <1>3, <1>4, <2>2, <2>3 DEF r
  <2>5. Unhealthy[k] = e
    BY <1>5, <2>1, <2>3, <2>4
  <2> QED
    BY <1>7, <2>3, <2>5 DEF Range
<1> QED
  BY <1>7, <1>8, <1>9

\* What an allowed query is answered with is healthy at that moment.
LEMMA AnswerIsHealthy ==
  ASSUME EngineInv, NEW d \in Domain, Healthy(d) # {}
  PROVE  NextEndpoint(d) \in Address /\ probeHealth[NextEndpoint(d)]
<1> DEFINE n == Cardinality(Healthy(d))
<1>1. Records[d] \in Seq(Address) /\ rr[d] \in Nat
  BY PolicyAssumption DEF PolicyAssumption, EngineInv
<1>2. Healthy(d) \subseteq 1 .. Len(Records[d]) /\ Len(Records[d]) \in Nat
  BY <1>1 DEF Healthy
<1>3. n \in Nat /\ n # 0 /\ \A k \in 0 .. n - 1 : \E i \in Healthy(d) : Rank(Healthy(d), i) = k
  BY <1>2, Ranks
<1>4. rr[d] % n \in 0 .. n - 1
  <2> HIDE DEF n
  <2> QED
    BY <1>1, <1>3, ModIs
<1>5. Turn(d) \in Healthy(d)
  <2>1. \E i \in Healthy(d) : Rank(Healthy(d), i) = rr[d] % n
    BY <1>3, <1>4
  <2> QED
    BY <2>1 DEF Turn
<1>6. EffectiveHealth(NextEndpoint(d)) /\ NextEndpoint(d) \in Address
  BY <1>1, <1>2, <1>5 DEF Healthy, NextEndpoint
<1> QED
  BY <1>6 DEF EffectiveHealth, EngineInv

-----------------------------------------------------------------------------
(* The two scripts. *)

LEMMA CatalogueIs ==
  /\ DOMAIN Catalogue = 1 .. 15
  /\ \A i \in 1 .. 15 : /\ Catalogue[i].id = "failover" => i = FailoverAt
                        /\ Catalogue[i].id = "incident-response" => i = IncidentAt
  /\ Catalogue[FailoverAt].script = Failover /\ Catalogue[IncidentAt].script = IncidentResponse
  /\ Catalogue[IncidentAt].id = "incident-response" /\ Catalogue[IncidentAt].act = "survive"
<1>1. DOMAIN Catalogue = 1 .. 15
  BY DEF Catalogue
<1>2. /\ Catalogue[1].id = "baseline" /\ Catalogue[2].id = "egress-governance" /\ Catalogue[3].id = "isolation"
      /\ Catalogue[4].id = "metadata-ssrf" /\ Catalogue[5].id = "dns-exfiltration"
      /\ Catalogue[6].id = "lookalike-domains" /\ Catalogue[7].id = "supply-chain"
      /\ Catalogue[8].id = "rate-limit" /\ Catalogue[9].id = "cost-budget" /\ Catalogue[10].id = "memory-bounds"
      /\ Catalogue[11].id = "load-balance" /\ Catalogue[12].id = "failover"
      /\ Catalogue[13].id = "incident-response" /\ Catalogue[14].id = "live-policy" /\ Catalogue[15].id = "audit-trail"
  BY DEF Catalogue, Entry
<1>3. Catalogue[12].script = Failover /\ Catalogue[13].script = IncidentResponse /\ Catalogue[13].act = "survive"
  BY DEF Catalogue, Entry
<1> HIDE DEF Catalogue
<1>4. \A i \in 1 .. 15 : \/ i = 1 \/ i = 2 \/ i = 3 \/ i = 4 \/ i = 5 \/ i = 6 \/ i = 7 \/ i = 8 \/ i = 9
                         \/ i = 10 \/ i = 11 \/ i = 12 \/ i = 13 \/ i = 14 \/ i = 15
  OBVIOUS
<1>5. ASSUME NEW i \in 1 .. 15
      PROVE  (Catalogue[i].id = "failover" => i = 12) /\ (Catalogue[i].id = "incident-response" => i = 13)
  BY <1>2, <1>4
<1> QED
  BY <1>1, <1>2, <1>3, <1>5 DEF FailoverAt, IncidentAt

LEMMA FailoverIs ==
  /\ Sequence(Failover) /\ Len(Failover) = 5
  /\ Failover[1].op = "inject" /\ Failover[2].op = "await" /\ Failover[4].op = "survey"
  /\ \A i \in {3, 5} : Failover[i].op = "ask" /\ Failover[i].name = "api.internal" /\ Failover[i].count \in Nat \ {0}
<1> DEFINE a == Inject(ApiA, TRUE)
           b == Await(ApiA, FALSE)
           c == Ask("deployer", "api.internal", 4)
           d == Call("survey")
           e == Ask("incident-responder", "api.internal", 3)
           S == {a, b, c, d, e}
           x == <<a, b, c>>
           y == <<d, e>>
<1>1. x \in Seq(S) /\ Len(x) = 3 /\ x[1] = a /\ x[2] = b /\ x[3] = c
  <2> HIDE DEF a, b, c, d, e
  <2> QED
    OBVIOUS
<1>2. y \in Seq(S) /\ Len(y) = 2 /\ y[1] = d /\ y[2] = e
  <2> HIDE DEF a, b, c, d, e
  <2> QED
    OBVIOUS
<1>3. Failover = x \o y
  BY DEF Failover, Investigate
<1>4. /\ a.op = "inject" /\ b.op = "await" /\ d.op = "survey"
      /\ c.op = "ask" /\ c.name = "api.internal" /\ c.count = 4
      /\ e.op = "ask" /\ e.name = "api.internal" /\ e.count = 3
  BY DEF Inject, Await, Ask, Call
<1> HIDE DEF x, y, a, b, c, d, e, S
<1> DEFINE f == x \o y
<1>5. /\ f \in Seq(S) /\ Len(f) = Len(x) + Len(y)
      /\ \A i \in 1 .. Len(x) + Len(y) : f[i] = IF i <= Len(x) THEN x[i] ELSE y[i - Len(x)]
  BY <1>1, <1>2, ConcatProperties
<1> HIDE DEF f
<1>6. f \in Seq(S) /\ Len(f) = 5 /\ f[1] = a /\ f[2] = b /\ f[3] = c /\ f[4] = d /\ f[5] = e
  BY <1>1, <1>2, <1>5
<1>7. Sequence(f)
  BY <1>6 DEF Sequence
<1>8. Failover = f
  BY <1>3 DEF f
<1>9. f[1].op = "inject" /\ f[2].op = "await" /\ f[4].op = "survey"
  BY <1>4, <1>6
<1>10. c.count \in Nat \ {0} /\ e.count \in Nat \ {0}
  BY <1>4
<1>11. ASSUME NEW i \in {3, 5} PROVE f[i].op = "ask" /\ f[i].name = "api.internal" /\ f[i].count \in Nat \ {0}
  <2>1. i = 3 \/ i = 5
    OBVIOUS
  <2>2. f[i] = c \/ f[i] = e
    BY <1>6, <2>1
  <2> QED
    BY <1>4, <1>10, <2>2
<1> QED
  BY <1>6, <1>7, <1>8, <1>9, <1>11

LEMMA IncidentIs ==
  /\ Sequence(IncidentResponse) /\ Len(IncidentResponse) = 7
  /\ IncidentResponse[1].op = "ensure incident"
  /\ \A i \in 2 .. 7 : ~Breaks(IncidentResponse[i])
<1> DEFINE a == Call("ensure incident")
           b == Call("survey")
           c == Call("repair")
           d == Call("await all")
           e == AskAfterRepair
           f == Await(ApiA, TRUE)
           g == Ask("deployer", "api.internal", 4)
           S == {a, b, c, d, e, f, g}
           x == <<a>>
           y == <<b, c, d, e>>
           z == <<f, g>>
<1>1. x \in Seq(S) /\ Len(x) = 1 /\ x[1] = a
  <2> HIDE DEF a, b, c, d, e, f, g
  <2> QED
    OBVIOUS
<1>2. y \in Seq(S) /\ Len(y) = 4 /\ y[1] = b /\ y[2] = c /\ y[3] = d /\ y[4] = e
  <2> HIDE DEF a, b, c, d, e, f, g
  <2> QED
    OBVIOUS
<1>3. z \in Seq(S) /\ Len(z) = 2 /\ z[1] = f /\ z[2] = g
  <2> HIDE DEF a, b, c, d, e, f, g
  <2> QED
    OBVIOUS
<1>4. IncidentResponse = x \o y \o z
  BY DEF IncidentResponse, Remediate
<1>5. /\ a.op = "ensure incident" /\ b.op = "survey" /\ c.op = "repair" /\ d.op = "await all"
      /\ e.op = "ask" /\ f.op = "await" /\ g.op = "ask"
  BY DEF Await, Ask, Call, AskAfterRepair
<1> HIDE DEF x, y, z, a, b, c, d, e, f, g, S
<1> DEFINE v == x \o y
           w == v \o z
<1>6. /\ v \in Seq(S) /\ Len(v) = Len(x) + Len(y)
      /\ \A i \in 1 .. Len(x) + Len(y) : v[i] = IF i <= Len(x) THEN x[i] ELSE y[i - Len(x)]
  BY <1>1, <1>2, ConcatProperties
<1> HIDE DEF v
<1>7. v[1] = a /\ v[2] = b /\ v[3] = c /\ v[4] = d /\ v[5] = e /\ Len(v) = 5
  BY <1>1, <1>2, <1>6
<1>8. /\ w \in Seq(S) /\ Len(w) = Len(v) + Len(z)
      /\ \A i \in 1 .. Len(v) + Len(z) : w[i] = IF i <= Len(v) THEN v[i] ELSE z[i - Len(v)]
  <2>1. v \in Seq(S) /\ z \in Seq(S)
    BY <1>3, <1>6
  <2> QED
    BY <2>1, ConcatProperties
<1> HIDE DEF w
<1>9. w[1] = a /\ w[2] = b /\ w[3] = c /\ w[4] = d /\ w[5] = e /\ w[6] = f /\ w[7] = g /\ Len(w) = 7
  BY <1>3, <1>7, <1>8
<1>10. Sequence(w)
  BY <1>8, <1>9 DEF Sequence
<1>11. \A i \in 2 .. 7 : i = 2 \/ i = 3 \/ i = 4 \/ i = 5 \/ i = 6 \/ i = 7
  OBVIOUS
<1>12. \A i \in 2 .. 7 : ~Breaks(w[i])
  BY <1>5, <1>9, <1>11 DEF Breaks
<1> QED
  BY <1>4, <1>5, <1>9, <1>10, <1>12 DEF v, w

-----------------------------------------------------------------------------
(* EngineInv step by step. *)

LEMMA EngineInit == DemoInit => EngineInv
  BY DEF DemoInit, Init, EngineInv, Nothing, NoScenario

LEMMA SelectionIs == ASSUME NEW names PROVE Selection(names) \subseteq 1 .. 15
  BY CatalogueIs DEF Selection

\* A reset of the lab leaves no pin and no cursor.
LEMMA ResetKeepsEngine ==
  ASSUME EngineInv, ResetLab, DOMAIN up' = Address,
         queue' \subseteq 1 .. 15, current' = current, asked' = asked
  PROVE  EngineInv'
<1>1. overrides' = <<>> /\ rr' = [d \in Domain |-> 0] /\ probeHealth' = [e \in Address |-> TRUE] /\ UNCHANGED threadVars
  BY DEF ResetLab, Reset
<1>2. pc' = pc /\ query' = query /\ decision' = decision
  BY <1>1 DEF threadVars
<1>3. rr' \in [Domain -> Nat] /\ DOMAIN probeHealth' = Address
  BY <1>1
<1> QED
  BY <1>1, <1>2, <1>3 DEF EngineInv

LEMMA QuietKeepsEngine ==
  ASSUME EngineInv, Quiet, queue' \subseteq 1 .. 15, current' = current, asked' = asked
  PROVE  EngineInv'
  BY DEF Quiet, EngineInv, engineVars, vars, worldVars, poolVars, threadVars

LEMMA CommandKeepsEngine ==
  ASSUME EngineInv, NEW names, RunAsItIs(names) \/ RunAfterReset(names) \/ ResetRaises(names)
  PROVE  EngineInv'
<1>1. queue' \subseteq 1 .. 15 /\ current' = current /\ asked' = asked
  BY SelectionIs DEF RunAsItIs, RunAfterReset, ResetRaises, Command, Requested, scriptVars, EngineInv
<1>2. Quiet \/ (ResetLab /\ DOMAIN up' = Address)
  BY DEF RunAsItIs, RunAfterReset, ResetRaises, Quiet
<1> QED
  BY <1>1, <1>2, ResetKeepsEngine, QuietKeepsEngine

LEMMA BeginKeepsEngine ==
  ASSUME EngineInv, BeginScenario
  PROVE  EngineInv' /\ \A t \in Thread : pc[t] = "idle" /\ decision[t] = Nothing
<1>1. current' \in 1 .. 15 /\ queue' \subseteq 1 .. 15 /\ asked' = 0 /\ current = NoScenario
  BY DEF BeginScenario, EngineInv
<1>2. UNCHANGED <<poolVars, threadVars, worldVars>>
  BY DEF BeginScenario, Settle, Tick
<1>3. overrides' = overrides /\ rr' = rr /\ probeHealth' = probeHealth /\ up' = up /\ pc' = pc /\ query' = query /\ decision' = decision
  BY <1>2 DEF poolVars, threadVars, worldVars
<1> QED
  BY <1>1, <1>3 DEF EngineInv, NoScenario

LEMMA EndKeepsEngine ==
  ASSUME EngineInv, Between, NEW v, EndScenario(v), UNCHANGED queue
  PROVE  EngineInv'
<1>1. current' = NoScenario /\ asked' = 0 /\ \A t \in Thread : pc[t] = "idle"
  BY DEF EndScenario, Between
<1>2. UNCHANGED <<poolVars, threadVars, worldVars>>
  BY DEF EndScenario, Quiet, engineVars, vars
<1>3. overrides' = overrides /\ rr' = rr /\ probeHealth' = probeHealth /\ up' = up /\ pc' = pc /\ query' = query /\ decision' = decision
  BY <1>2 DEF poolVars, threadVars, worldVars
<1> QED
  BY <1>1, <1>3 DEF EngineInv, NoScenario

\* The three steps of a query leave the probes and the services alone.
LEMMA QueryKeepsEngine ==
  ASSUME EngineInv, AskNext \/ AskDecide \/ AskReply
  PROVE  EngineInv'
<1>1. UNCHANGED <<current, queue, overrides, probeHealth, up>>
  <2>1. CASE AskNext
    BY <2>1 DEF AskNext, Begin, Rest, worldVars, poolVars
  <2>2. CASE AskDecide
    BY <2>2 DEF AskDecide, DecideQuery, DecideThrottled, DecideOverBudget, DecideNoRecord, DecideNoEndpoint, DecideAllowed,
       Decide, Rest, worldVars
  <2>3. CASE AskReply
    BY <2>3 DEF AskReply, Reply, Rest, poolVars
  <2> QED
    BY <2>1, <2>2, <2>3
<1>2. CASE AskNext
  <2>1. PICK t \in Thread : Begin(t, Head(todo).agent, Head(todo).name)
    BY <1>2 DEF AskNext
  <2>2. current # NoScenario /\ asked' = asked + 1 /\ rr' = rr
    BY <1>2, <2>1 DEF AskNext, Calls, Between, Begin, poolVars
  <2>3. /\ pc' = [pc EXCEPT ![t] = "decide"] \/ pc' = [pc EXCEPT ![t] = "done"]
        /\ DOMAIN query' = Thread /\ DOMAIN decision' = Thread
        /\ \A u \in Thread : u # t => decision'[u] = decision[u]
    BY <2>1 DEF Begin, EngineInv
  <2>4. DOMAIN pc' = Thread /\ pc'[t] # "idle" /\ \A u \in Thread : u # t => pc'[u] = pc[u]
    BY <2>3 DEF EngineInv
  <2> QED
    BY <1>1, <2>2, <2>3, <2>4 DEF EngineInv
<1>3. CASE AskDecide
  <2>1. PICK t \in Thread : pc[t] = "decide" /\ DecideQuery(t, query[t][1], query[t][2])
    BY <1>3 DEF AskDecide
  <2> DEFINE a == query[t][1]
             d == query[t][2]
  <2>2. PICK what : Decide(t, a, d, what)
    BY <2>1 DEF DecideQuery, DecideThrottled, DecideOverBudget, DecideNoRecord, DecideNoEndpoint, DecideAllowed
  <2>3. rr' \in [Domain -> Nat]
    <3>1. rr' = rr \/ rr' = [rr EXCEPT ![d] = rr[d] + 1]
      BY <2>1 DEF DecideQuery, DecideThrottled, DecideOverBudget, DecideNoRecord, DecideNoEndpoint, DecideAllowed, Pick
    <3> HIDE DEF d
    <3>2. CASE rr' = rr
      BY <3>2 DEF EngineInv
    <3>3. CASE rr' = [rr EXCEPT ![d] = rr[d] + 1]
      <4>1. \A f \in Domain : rr[f] \in Nat /\ rr[f] + 1 \in Nat
        BY DEF EngineInv
      <4>2. rr' = [f \in Domain |-> IF f = d THEN rr[d] + 1 ELSE rr[f]]
        BY <3>3 DEF EngineInv
      <4>3. ASSUME NEW f \in Domain PROVE (IF f = d THEN rr[d] + 1 ELSE rr[f]) \in Nat
        <5>1. CASE f = d
          BY <4>1, <5>1
        <5>2. CASE f # d
          BY <4>1, <5>2
        <5> QED
          BY <5>1, <5>2
      <4> QED
        BY <4>2, <4>3
    <3> QED
      BY <3>1, <3>2, <3>3
  <2>4. pc' = [pc EXCEPT ![t] = "done"] /\ decision' = [decision EXCEPT ![t] = what] /\ query' = query /\ asked' = asked
    BY <1>3, <2>2 DEF AskDecide, Decide
  <2>5. DOMAIN pc' = Thread /\ DOMAIN decision' = Thread /\ pc'[t] # "idle"
        /\ \A u \in Thread : u # t => pc'[u] = pc[u] /\ decision'[u] = decision[u]
    BY <2>4 DEF EngineInv
  <2>6. current # NoScenario
    BY <2>1 DEF EngineInv
  <2> QED
    BY <1>1, <2>3, <2>4, <2>5, <2>6 DEF EngineInv
<1>4. CASE AskReply
  <2>1. PICK t \in Thread : Reply(t)
    BY <1>4 DEF AskReply
  <2>2. /\ pc' = [pc EXCEPT ![t] = "idle"] /\ query' = [query EXCEPT ![t] = <<>>]
        /\ decision' = [decision EXCEPT ![t] = Nothing] /\ rr' = rr /\ asked' = asked
    BY <1>4, <2>1 DEF AskReply, Reply, poolVars
  <2>3. /\ DOMAIN pc' = Thread /\ DOMAIN query' = Thread /\ DOMAIN decision' = Thread
        /\ pc'[t] = "idle" /\ decision'[t] = Nothing
        /\ \A u \in Thread : u # t => pc'[u] = pc[u] /\ decision'[u] = decision[u]
    BY <2>2 DEF EngineInv
  <2> QED
    BY <1>1, <2>2, <2>3 DEF EngineInv
<1> QED
  BY <1>2, <1>3, <1>4

\* Nor do the other calls, but for a service an inject or a repair reaches.
LEMMA CallKeepsEngine ==
  ASSUME EngineInv,
         \/ AskReturn \/ InjectCall \/ GrantCall \/ GrantCompiles \/ ResetBudgetsCall \/ SpendCall
         \/ EnsureIncident \/ AwaitCall \/ AwaitTimesOut \/ ResponderNext
  PROVE  EngineInv' /\ UNCHANGED <<overrides, rr, probeHealth, pc, query, decision, current, queue>>
<1>1. UNCHANGED <<overrides, rr, probeHealth, pc, query, decision>>
  <2>1. UNCHANGED engineVars => UNCHANGED <<overrides, rr, probeHealth, pc, query, decision>>
    BY DEF engineVars, vars, poolVars, threadVars
  <2>2. AskReturn \/ InjectCall \/ EnsureIncident \/ AwaitCall \/ AwaitTimesOut \/ ResponderNext => UNCHANGED engineVars
    BY DEF AskReturn, InjectCall, EnsureIncident, AwaitCall, AwaitTimesOut, AwaitEnds, ResponderNext,
       Survey, Repair, RepairOne, Repaired, AwaitAll, Quiet
  <2>3. GrantCall \/ GrantCompiles \/ ResetBudgetsCall \/ SpendCall => UNCHANGED <<poolVars, threadVars>>
    BY DEF GrantCall, SetDomainAccess, GrantCompiles, Recompile, ResetBudgetsCall, ResetBudgets, SpendCall
  <2> QED
    BY <2>1, <2>2, <2>3 DEF poolVars, threadVars
<1>2. UNCHANGED <<current, queue>> /\ asked' \in Nat
  <2>1. UNCHANGED <<current, queue>>
    BY DEF AskReturn, InjectCall, GrantCall, GrantCompiles, ResetBudgetsCall, SpendCall, EnsureIncident,
       AwaitCall, AwaitTimesOut, AwaitEnds, ResponderNext, Survey, Repair, Repaired, AwaitAll, Rest
  <2>2. asked' = asked \/ asked' = 0 \/ asked' = asked + 1
    <3>1. AskReturn \/ Repaired \/ Repair => asked' = 0 \/ asked' = asked + 1
      BY DEF AskReturn, Repaired, Repair
    <3>2. InjectCall \/ GrantCall \/ GrantCompiles \/ ResetBudgetsCall \/ SpendCall => asked' = asked
      BY DEF InjectCall, GrantCall, GrantCompiles, ResetBudgetsCall, SpendCall
    <3>3. EnsureIncident \/ AwaitCall \/ AwaitTimesOut \/ Survey \/ AwaitAll => asked' = asked
      BY DEF EnsureIncident, AwaitCall, AwaitTimesOut, AwaitEnds, Survey, AwaitAll
    <3> QED
      BY <3>1, <3>2, <3>3 DEF ResponderNext
  <2>3. asked \in Nat
    BY DEF EngineInv
  <2> QED
    BY <2>1, <2>2, <2>3
<1>3. DOMAIN up' = Address
  <2>1. up' = up \/ \E e, b : up' = [up EXCEPT ![e] = b]
    <3>1. CASE InjectCall
      BY <3>1 DEF InjectCall
    <3>2. CASE Repair
      BY <3>2 DEF Repair, RepairOne
    <3>3. CASE AskReturn \/ EnsureIncident \/ AwaitCall \/ AwaitTimesOut \/ Survey \/ Repaired \/ AwaitAll
      BY <3>3 DEF AskReturn, EnsureIncident, AwaitCall, AwaitTimesOut, AwaitEnds, Survey, Repaired, AwaitAll, Quiet, worldVars
    <3>4. CASE GrantCall \/ GrantCompiles \/ ResetBudgetsCall \/ SpendCall
      BY <3>4 DEF GrantCall, GrantCompiles, ResetBudgetsCall, SpendCall, worldVars
    <3> QED
      BY <3>1, <3>2, <3>3, <3>4 DEF ResponderNext
  <2> QED
    BY <2>1 DEF EngineInv
<1> QED
  BY <1>1, <1>2, <1>3 DEF EngineInv

LEMMA WorldKeepsEngine ==
  ASSUME EngineInv, WorldNext
  PROVE  EngineInv'
<1>1. UNCHANGED <<overrides, rr, pc, query, decision, current, asked>> /\ queue' = queue
  BY DEF WorldNext, Publish, StaleSweep, Meddle, RecordProbe, engineVars, vars, poolVars, threadVars, runVars, scriptVars
<1>2. DOMAIN probeHealth' = Address
  <2>1. probeHealth' = probeHealth \/ \E e, b : probeHealth' = [probeHealth EXCEPT ![e] = b]
    BY DEF WorldNext, Publish, StaleSweep, Meddle, RecordProbe, engineVars, vars, poolVars
  <2> QED
    BY <2>1 DEF EngineInv
<1>3. DOMAIN up' = Address
  <2>1. up' = up \/ \E e, b : up' = [up EXCEPT ![e] = b]
    BY DEF WorldNext, Publish, StaleSweep, Meddle, worldVars
  <2> QED
    BY <2>1 DEF EngineInv
<1> QED
  BY <1>1, <1>2, <1>3 DEF EngineInv

LEMMA StepKeepsEngine == EngineInv /\ [DemoNext]_demoVars => EngineInv'
<1> SUFFICES ASSUME EngineInv, [DemoNext]_demoVars PROVE EngineInv'
  OBVIOUS
<1>1. ASSUME UNCHANGED demoVars PROVE EngineInv'
  BY <1>1 DEF EngineInv, demoVars, engineVars, vars, poolVars, threadVars, worldVars, runVars, scriptVars
<1>2. CASE CommandNext
  BY <1>1, <1>2, CommandKeepsEngine DEF CommandNext, Over
<1>3. CASE ScenarioNext
  BY <1>3, BeginKeepsEngine, EndKeepsEngine DEF ScenarioNext, Judge, Raises
<1>4. CASE CallNext
  BY <1>4, QueryKeepsEngine, CallKeepsEngine DEF CallNext
<1>5. CASE ResponderNext
  BY <1>5, CallKeepsEngine
<1>6. CASE WorldNext
  BY <1>6, WorldKeepsEngine
<1> QED
  BY <1>1, <1>2, <1>3, <1>4, <1>5, <1>6 DEF DemoNext

-----------------------------------------------------------------------------
(* FailoverInv step by step. *)

failoverVars == <<current, todo, asked, heard, listed, rejoined, probeHealth, pc, query, decision>>

LEMMA FailoverKept == ASSUME FailoverInv, UNCHANGED failoverVars PROVE FailoverInv'
  BY DEF FailoverInv, failoverVars, Remaining, Answers, Fair, BackSince

\* The next call of the failover, read off the number of calls left.
LEMMA NextOfFailover ==
  ASSUME Remaining, todo # <<>>
  PROVE  /\ Len(todo) \in 1 .. 5 /\ Head(todo) = Failover[6 - Len(todo)]
         /\ Len(todo) = 5 => Head(todo).op = "inject"
         /\ Len(todo) = 4 => Head(todo).op = "await"
         /\ Len(todo) = 2 => Head(todo).op = "survey"
         /\ Len(todo) \in {3, 1} => Head(todo).op = "ask" /\ Head(todo).name = "api.internal" /\ Head(todo).count \in Nat \ {0}
<1> DEFINE n == Len(todo)
<1>1. n >= 1 /\ n \in Nat /\ n <= 5 /\ Head(todo) = todo[1] /\ \A i \in 1 .. n : todo[i] = Failover[5 - n + i]
  BY TailOf DEF Remaining, Sequence
<1> HIDE DEF n
<1>2. n \in 1 .. 5 /\ todo[1] = Failover[5 - n + 1] /\ 5 - n + 1 = 6 - n
  BY <1>1
<1>3. Head(todo) = Failover[6 - n]
  BY <1>1, <1>2
<1>4. (n = 5 => 6 - n = 1) /\ (n = 4 => 6 - n = 2) /\ (n = 2 => 6 - n = 4) /\ (n \in {3, 1} => 6 - n \in {3, 5})
  OBVIOUS
<1> QED
  BY <1>2, <1>3, <1>4, FailoverIs DEF n

LEMMA RestOfFailover ==
  ASSUME Remaining, todo # <<>>, todo' = Tail(todo)
  PROVE  Remaining' /\ Len(todo') = Len(todo) - 1
<1> DEFINE n == Len(todo)
           s == Tail(todo)
<1>1. /\ n >= 1 /\ n \in Nat /\ n <= 5 /\ Sequence(s) /\ Len(s) = n - 1
      /\ \A i \in 1 .. n - 1 : s[i] = todo[i + 1]
      /\ \A i \in 1 .. n : todo[i] = Failover[5 - n + i]
  BY TailOf DEF Remaining, Sequence
<1> HIDE DEF n, s
<1>2. ASSUME NEW i \in 1 .. Len(s) PROVE s[i] = Failover[5 - Len(s) + i]
  <2>1. i \in 1 .. n - 1 /\ i + 1 \in 1 .. n /\ 5 - n + (i + 1) = 5 - Len(s) + i
    BY <1>1
  <2>2. s[i] = todo[i + 1] /\ todo[i + 1] = Failover[5 - n + (i + 1)]
    BY <1>1, <2>1
  <2> QED
    BY <2>1, <2>2
<1>3. todo' = s
  BY DEF s
<1>4. Len(s) <= 5
  BY <1>1
<1> QED
  BY <1>1, <1>2, <1>3, <1>4 DEF Remaining, n

\* It begins with the whole script before it, and nothing in flight.
LEMMA BeginsFailover ==
  ASSUME EngineInv, BeginScenario
  PROVE  FailoverInv'
<1> SUFFICES ASSUME current' = FailoverAt PROVE Remaining' /\ Answers' /\ Fair'
  BY DEF FailoverInv
<1>1. /\ todo' = Failover /\ asked' = 0 /\ heard' = <<>> /\ listed' = <<>>
      /\ UNCHANGED threadVars
  BY CatalogueIs DEF BeginScenario, Settle, Tick
<1>2. \A t \in Thread : pc'[t] = "idle" /\ decision'[t] = Nothing
  BY <1>1, BeginKeepsEngine DEF threadVars
<1>3. Remaining'
  <2>1. \A i \in 1 .. 5 : 5 - 5 + i = i
    OBVIOUS
  <2> QED
    BY <1>1, <2>1, FailoverIs DEF Remaining
<1>4. Answers'
  <2>1. Len(<<>>) = 0 /\ Sequence(<<>>)
    BY DEF Sequence
  <2> QED
    BY <1>1, <2>1, FailoverIs DEF Answers
<1>5. Fair'
  <2>1. Len(<<>>) = 0 /\ Range(<<>>) = {} /\ <<>> \in Seq(Address)
    BY DEF Range
  <2> QED
    BY <1>1, <1>2, <2>1 DEF Fair, Nothing
<1> QED
  BY <1>3, <1>4, <1>5

\* A query: what is heard grows by an answer, which the pool had healthy when
\* it chose it.
LEMMA AskNextKeepsFailover ==
  ASSUME EngineInv, FailoverInv, AskNext
  PROVE  FailoverInv'
<1> SUFFICES ASSUME current' = FailoverAt PROVE Remaining' /\ Answers' /\ Fair'
  BY DEF FailoverInv
<1>1. /\ current = FailoverAt /\ todo # <<>> /\ Head(todo).op = "ask" /\ asked' = asked + 1
      /\ todo' = todo /\ listed' = listed /\ rejoined' = rejoined /\ asked \in Nat
      /\ heard' = IF asked = 0 THEN Append(heard, <<>>) ELSE heard
  BY DEF AskNext, Calls, Rest, EngineInv
<1>2. Remaining /\ Answers /\ Fair
  BY <1>1 DEF FailoverInv
<1>3. Len(todo) \in {3, 1} /\ Head(todo).name = "api.internal"
  BY <1>1, <1>2, NextOfFailover
<1>4. Remaining'
  BY <1>1, <1>2 DEF Remaining
<1>5. /\ Sequence(heard) /\ Len(heard) \in Nat /\ Sequence(Append(heard, <<>>))
      /\ Len(Append(heard, <<>>)) = Len(heard) + 1 /\ Append(heard, <<>>)[Len(heard) + 1] = <<>>
      /\ \A i \in 1 .. Len(heard) : Append(heard, <<>>)[i] = heard[i]
  BY <1>2, AppendTo, SequenceIs DEF Answers
<1>6. Answers'
  <2>1. asked' \in Nat /\ asked' # 0
    BY <1>1
  <2>2. Sequence(heard') /\ Len(heard') = IF asked = 0 THEN Len(heard) + 1 ELSE Len(heard)
    BY <1>1, <1>5
  <2> DEFINE n == Len(todo)
             h == Len(heard)
  <2>3. /\ n \in {3, 1}
        /\ n = 3 => h = IF asked = 0 THEN 1 ELSE 2
        /\ n = 1 => h = IF asked = 0 THEN 2 ELSE 3
    BY <1>2, <1>3 DEF Answers
  <2>4. Len(heard') = IF asked = 0 THEN h + 1 ELSE h
    BY <2>2
  <2> HIDE DEF n, h
  <2>5. (n = 3 => Len(heard') = 2) /\ (n = 1 => Len(heard') = 3)
    BY <2>3, <2>4
  <2>6. Len(todo') = n
    BY <1>1 DEF n
  <2>7. /\ ~(Len(todo') \in {5, 4}) /\ Len(todo') # 2 /\ Len(todo') # 0
        /\ Len(todo') = 3 => Len(heard') = IF asked' = 0 THEN 1 ELSE 2
        /\ Len(todo') = 1 => Len(heard') = IF asked' = 0 THEN 2 ELSE 3
    BY <2>1, <2>3, <2>5, <2>6
  <2> QED
    BY <2>2, <2>7 DEF Answers
<1>7. Len(heard') >= 3 => heard'[3] \in Seq(Address) /\ \A e \in Range(heard'[3]) : BackSince(e)
  <2> SUFFICES ASSUME Len(heard') >= 3 PROVE heard'[3] \in Seq(Address) /\ \A e \in Range(heard'[3]) : BackSince(e)
    OBVIOUS
  <2>1. CASE Len(heard) >= 3
    <3>1. heard'[3] = heard[3]
      BY <1>1, <1>5, <2>1
    <3> QED
      BY <1>2, <2>1, <3>1 DEF Fair
  <2>2. CASE ~(Len(heard) >= 3)
    <3>1. heard'[3] = <<>>
      <4>1. Len(heard) + 1 = 3 /\ heard' = Append(heard, <<>>)
        BY <1>1, <1>5, <2>2
      <4> QED
        BY <1>5, <4>1
    <3>2. <<>> \in Seq(Address) /\ Range(<<>>) = {}
      BY DEF Range
    <3> QED
      BY <3>1, <3>2
  <2> QED
    BY <2>1, <2>2
<1>8. /\ probeHealth' = probeHealth
      /\ \A t \in Thread : /\ pc'[t] = "decide" => query'[t][2] \in Domain
                           /\ decision'[t].action = "ALLOW" => decision[t].action = "ALLOW" /\ decision'[t] = decision[t]
  <2>1. PICK t \in Thread : Begin(t, Head(todo).agent, "api.internal")
    BY <1>3 DEF AskNext
  <2>2. probeHealth' = probeHealth
    BY <2>1 DEF Begin, poolVars
  <2>3. /\ query' = [query EXCEPT ![t] = <<Head(todo).agent, "api.internal">>]
        /\ pc' = [pc EXCEPT ![t] = "decide"] \/ pc' = [pc EXCEPT ![t] = "done"]
        /\ decision' = decision \/ \E r : decision' = [decision EXCEPT ![t] = Stamped("BLOCK", r)]
    BY <2>1 DEF Begin
  <2>4. "api.internal" \in Domain
    BY DemoAssumption DEF DemoAssumption
  <2>5. \A u \in Thread : pc'[u] = "decide" => query'[u][2] \in Domain
    BY <1>2, <2>3, <2>4 DEF EngineInv, Fair
  <2>6. \A u \in Thread : decision'[u].action = "ALLOW" => decision'[u] = decision[u]
    BY <2>3 DEF EngineInv, Stamped
  <2> QED
    BY <2>2, <2>5, <2>6
<1>9. Fair'
  BY <1>1, <1>2, <1>7, <1>8 DEF Fair, BackSince
<1> QED
  BY <1>4, <1>6, <1>9

LEMMA AskDecideKeepsFailover ==
  ASSUME EngineInv, FailoverInv, AskDecide
  PROVE  FailoverInv'
<1> SUFFICES ASSUME current' = FailoverAt PROVE Remaining' /\ Answers' /\ Fair'
  BY DEF FailoverInv
<1>1. /\ current = FailoverAt /\ todo' = todo /\ asked' = asked /\ heard' = heard /\ listed' = listed /\ rejoined' = rejoined
  BY DEF AskDecide, Rest
<1>2. Remaining /\ Answers /\ Fair
  BY <1>1 DEF FailoverInv
<1>3. PICK t \in Thread : pc[t] = "decide" /\ DecideQuery(t, query[t][1], query[t][2])
  BY DEF AskDecide
<1> DEFINE a == query[t][1]
           d == query[t][2]
<1>4. PICK what : Decide(t, a, d, what) /\ (what.action = "ALLOW" => what = Answered(NextEndpoint(d)) /\ Healthy(d) # {})
  BY <1>3 DEF DecideQuery, DecideThrottled, DecideOverBudget, DecideNoRecord, DecideNoEndpoint, DecideAllowed,
     Stamped, Answered
<1>5. d \in Domain
  BY <1>2, <1>3 DEF Fair
<1>6. what.action = "ALLOW" => what.answer \in Address /\ BackSince(what.answer)
  <2> SUFFICES ASSUME what.action = "ALLOW" PROVE what.answer \in Address /\ BackSince(what.answer)
    OBVIOUS
  <2> DEFINE e == NextEndpoint(d)
  <2>1. what.answer = e
    BY <1>4 DEF Answered
  <2>2. e \in Address /\ probeHealth[e]
    BY <1>4, <1>5, AnswerIsHealthy
  <2>3. \A f \in Range(listed) : probeHealth[f] => f \in rejoined
    BY <1>2 DEF Fair
  <2> HIDE DEF e
  <2> QED
    BY <2>1, <2>2, <2>3 DEF BackSince
<1>7. /\ pc' = [pc EXCEPT ![t] = "done"] /\ decision' = [decision EXCEPT ![t] = what]
      /\ query' = query /\ probeHealth' = probeHealth
  BY <1>4 DEF Decide
<1>8. \A u \in Thread : /\ pc'[u] = "decide" => pc[u] = "decide"
                        /\ decision'[u] = IF u = t THEN what ELSE decision[u]
  BY <1>7 DEF EngineInv
<1>9. Remaining' /\ Answers'
  BY <1>1, <1>2 DEF Remaining, Answers
<1>10. Fair'
  <2>1. ASSUME NEW u \in Thread
        PROVE  /\ pc'[u] = "decide" => query'[u][2] \in Domain
               /\ decision'[u].action = "ALLOW" => decision'[u].answer \in Address /\ BackSince(decision'[u].answer)
    BY <1>2, <1>6, <1>7, <1>8 DEF Fair
  <2> QED
    BY <1>1, <1>2, <1>7, <2>1 DEF Fair, BackSince
<1> QED
  BY <1>9, <1>10

LEMMA AskReplyKeepsFailover ==
  ASSUME EngineInv, FailoverInv, AskReply
  PROVE  FailoverInv'
<1> SUFFICES ASSUME current' = FailoverAt PROVE Remaining' /\ Answers' /\ Fair'
  BY DEF FailoverInv
<1>1. /\ current = FailoverAt /\ todo' = todo /\ asked' = asked /\ listed' = listed /\ rejoined' = rejoined
  BY DEF AskReply, Rest
<1>2. Remaining /\ Answers /\ Fair
  BY <1>1 DEF FailoverInv
<1>3. PICK t \in Thread :
        /\ Reply(t)
        /\ heard' = IF decision[t].action = "ALLOW"
                    THEN [heard EXCEPT ![Len(heard)] = Append(@, decision[t].answer)]
                    ELSE heard
  BY DEF AskReply
<1> DEFINE e == decision[t].answer
           n == Len(heard)
           x == Append(heard[n], e)
           u == [heard EXCEPT ![n] = x]
<1>4. Sequence(heard) /\ n \in Nat
  BY <1>2, SequenceIs DEF Answers
<1>5. heard' = IF decision[t].action = "ALLOW" THEN u ELSE heard
  <2>1. n \in DOMAIN heard => [heard EXCEPT ![n] = Append(@, e)] = u
    OBVIOUS
  <2>2. n \notin DOMAIN heard => [heard EXCEPT ![n] = Append(@, e)] = heard /\ u = heard
    <3>1. DOMAIN heard = 1 .. n /\ heard = [i \in 1 .. n |-> heard[i]]
      BY <1>4, SequenceIs DEF Sequence
    <3> HIDE DEF n
    <3> QED
      BY <3>1
  <2> QED
    BY <1>3, <2>1, <2>2
<1>6. Sequence(u) /\ Len(u) = n /\ (n \in 1 .. n => u[n] = x) /\ \A i \in 1 .. n : i # n => u[i] = heard[i]
  <2>1. DOMAIN heard = 1 .. n
    BY <1>4, SequenceIs
  <2> HIDE DEF x, n
  <2>2. /\ DOMAIN u = DOMAIN heard /\ u = [i \in DOMAIN u |-> u[i]]
        /\ (n \in DOMAIN heard => u[n] = x) /\ \A i \in DOMAIN heard : i # n => u[i] = heard[i]
    OBVIOUS
  <2> HIDE DEF u
  <2>3. Sequence(u) /\ Len(u) = Len(heard)
    BY <1>4, <2>2, SamePlaces
  <2> QED
    BY <2>1, <2>2, <2>3 DEF n
<1>7. Sequence(heard') /\ Len(heard') = n
  BY <1>4, <1>5, <1>6
<1>8. Remaining' /\ Answers'
  BY <1>1, <1>2, <1>7 DEF Remaining, Answers
<1>9. decision[t].action = "ALLOW" => e \in Address /\ BackSince(e)
  BY <1>2 DEF Fair
<1>10. n >= 3 => heard'[3] \in Seq(Address) /\ \A f \in Range(heard'[3]) : BackSince(f)
  <2> SUFFICES ASSUME n >= 3 PROVE heard'[3] \in Seq(Address) /\ \A f \in Range(heard'[3]) : BackSince(f)
    OBVIOUS
  <2>1. heard[3] \in Seq(Address) /\ \A f \in Range(heard[3]) : BackSince(f)
    BY <1>2 DEF Fair
  <2>2. CASE decision[t].action # "ALLOW"
    BY <1>5, <2>1, <2>2
  <2>3. CASE decision[t].action = "ALLOW" /\ n # 3
    <3>1. heard'[3] = heard[3]
      <4> HIDE DEF n, u
      <4>1. 3 \in 1 .. n /\ 3 # n
        BY <1>4, <2>3
      <4> QED
        BY <1>5, <1>6, <2>3, <4>1
    <3> QED
      BY <2>1, <3>1
  <2>4. CASE decision[t].action = "ALLOW" /\ n = 3
    <3> DEFINE s == heard[3]
    <3>1. heard'[3] = Append(s, e)
      <4>1. u[3] = Append(heard[3], e)
        BY <1>6, <2>4
      <4> QED
        BY <1>5, <2>4, <4>1
    <3>2. s \in Seq(Address) /\ e \in Address
      BY <1>9, <2>1, <2>4
    <3> HIDE DEF s, e
    <3>3. Append(s, e) \in Seq(Address) /\ Range(Append(s, e)) = Range(s) \union {e}
      <4>1. /\ Append(s, e) \in Seq(Address) /\ Len(Append(s, e)) = Len(s) + 1 /\ Len(s) \in Nat
            /\ \A i \in 1 .. Len(s) : Append(s, e)[i] = s[i]
            /\ Append(s, e)[Len(s) + 1] = e
        BY <3>2
      <4> DEFINE w == Append(s, e)
      <4>2. DOMAIN s = 1 .. Len(s) /\ DOMAIN w = 1 .. Len(s) + 1
        BY <3>2, <4>1
      <4> HIDE DEF w
      <4>3. \A i \in 1 .. Len(s) + 1 : i \in 1 .. Len(s) \/ i = Len(s) + 1
        BY <4>1
      <4>4. \A i \in 1 .. Len(s) + 1 : w[i] \in Range(s) \union {e}
        BY <4>1, <4>2, <4>3 DEF Range, w
      <4>5. ASSUME NEW f \in Range(s) PROVE f \in Range(w)
        <5>1. PICK i \in 1 .. Len(s) : f = s[i]
          BY <4>2 DEF Range
        <5>2. i \in 1 .. Len(s) + 1 /\ w[i] = f
          BY <4>1, <5>1 DEF w
        <5> QED
          BY <4>2, <5>2 DEF Range
      <4>6. e \in Range(w)
        <5>1. Len(s) + 1 \in 1 .. Len(s) + 1 /\ w[Len(s) + 1] = e
          BY <4>1 DEF w
        <5> QED
          BY <4>2, <5>1 DEF Range
      <4>7. Range(w) \subseteq Range(s) \union {e}
        BY <4>2, <4>4 DEF Range
      <4> QED
        BY <4>1, <4>5, <4>6, <4>7 DEF w
    <3>4. \A f \in Range(s) : BackSince(f)
      BY <2>1 DEF s
    <3>5. BackSince(e)
      BY <1>9, <2>4 DEF e
    <3> QED
      BY <3>1, <3>3, <3>4, <3>5
  <2> QED
    BY <2>2, <2>3, <2>4
<1>11. /\ pc' = [pc EXCEPT ![t] = "idle"] /\ query' = [query EXCEPT ![t] = <<>>]
       /\ decision' = [decision EXCEPT ![t] = Nothing] /\ probeHealth' = probeHealth
  BY <1>3 DEF Reply, poolVars
<1>12. ASSUME NEW v \in Thread
       PROVE  /\ pc'[v] = "decide" => query'[v][2] \in Domain
              /\ decision'[v].action = "ALLOW" => decision'[v].answer \in Address /\ BackSince(decision'[v].answer)
  <2>1. CASE v = t
    BY <1>11, <2>1 DEF EngineInv, Nothing
  <2>2. CASE v # t
    BY <1>2, <1>11, <2>2 DEF EngineInv, Fair
  <2> QED
    BY <2>1, <2>2
<1>13. Fair'
  <2>1. Len(heard') >= 3 => heard'[3] \in Seq(Address) /\ \A f \in Range(heard'[3]) : BackSince(f)
    BY <1>7, <1>10
  <2> HIDE DEF e, n, x, u
  <2> QED
    BY <1>1, <1>2, <1>11, <1>12, <2>1 DEF Fair, BackSince
<1> QED
  BY <1>8, <1>13

LEMMA FairKept ==
  ASSUME Fair, UNCHANGED <<heard, listed, rejoined, probeHealth, pc, query, decision>>
  PROVE  Fair'
  BY DEF Fair, BackSince

\* What is to be heard between two calls, at each place of the script.
LEMMA AnswersBetween ==
  ASSUME Sequence(heard'), asked' = 0, NEW n \in Nat, NEW h \in Nat, Len(todo') = n, Len(heard') = h,
         (n = 4 /\ h = 0) \/ (n = 3 /\ h = 1) \/ (n = 2 /\ h = 2) \/ (n = 1 /\ h = 2) \/ (n = 0 /\ h = 3)
  PROVE  Answers'
<1>1. /\ n \in {5, 4} => h = 0
      /\ n = 3 => h = 1
      /\ n = 2 => h = 2
      /\ n = 1 => h = 2
      /\ n = 0 => h = 3
  OBVIOUS
<1> QED
  BY <1>1 DEF Answers

\* The calls that return.
LEMMA AskReturnKeepsFailover ==
  ASSUME EngineInv, FailoverInv, AskReturn
  PROVE  FailoverInv'
<1> SUFFICES ASSUME current' = FailoverAt PROVE Remaining' /\ Answers' /\ Fair'
  BY DEF FailoverInv
<1>1. /\ current = FailoverAt /\ todo # <<>> /\ Head(todo).op = "ask" /\ asked = Count
      /\ todo' = Tail(todo) /\ asked' = 0 /\ heard' = heard /\ listed' = listed /\ rejoined' = rejoined
  BY DEF AskReturn, Calls, Returned, Rest
<1>2. Remaining /\ Answers /\ Fair
  BY <1>1 DEF FailoverInv
<1>3. Len(todo) \in {3, 1} /\ asked # 0
  BY <1>1, <1>2, NextOfFailover DEF Count
<1>4. Remaining' /\ Len(todo') = Len(todo) - 1
  BY <1>1, <1>2, RestOfFailover
<1>5. /\ Sequence(heard) /\ (Len(todo) = 3 => Len(heard) = 2) /\ (Len(todo) = 1 => Len(heard) = 3)
  BY <1>2, <1>3 DEF Answers
<1>6. Answers'
  <2> DEFINE n == Len(todo)
             m == Len(todo')
             h == Len(heard)
  <2>1. n \in {3, 1} /\ m = n - 1 /\ (n = 3 => h = 2) /\ (n = 1 => h = 3)
    BY <1>3, <1>4, <1>5
  <2> HIDE DEF n, m, h
  <2>2. (m = 2 /\ h = 2) \/ (m = 0 /\ h = 3)
    BY <2>1
  <2>3. (Len(todo') = 2 /\ Len(heard') = 2) \/ (Len(todo') = 0 /\ Len(heard') = 3)
    BY <1>1, <2>2 DEF m, h
  <2> QED
    BY <1>1, <1>5, <2>3, AnswersBetween
<1>7. Fair'
  BY <1>1, <1>2, CallKeepsEngine, FairKept
<1> QED
  BY <1>4, <1>6, <1>7

LEMMA InjectKeepsFailover ==
  ASSUME EngineInv, FailoverInv, InjectCall
  PROVE  FailoverInv'
<1> SUFFICES ASSUME current' = FailoverAt PROVE Remaining' /\ Answers' /\ Fair'
  BY DEF FailoverInv
<1>1. /\ current = FailoverAt /\ todo # <<>> /\ Head(todo).op = "inject" /\ asked' = asked
      /\ todo' = Tail(todo) /\ heard' = heard /\ listed' = listed /\ rejoined' = rejoined
  BY DEF InjectCall, Calls, Returned, Rest
<1>2. Remaining /\ Answers /\ Fair
  BY <1>1 DEF FailoverInv
<1>3. Len(todo) = 5
  <2>1. \A k \in 1 .. 5 : k = 1 \/ k = 2 \/ k = 3 \/ k = 4 \/ k = 5
    OBVIOUS
  <2> QED
    BY <1>1, <1>2, <2>1, NextOfFailover
<1>4. Remaining' /\ Len(todo') = 4
  BY <1>1, <1>2, <1>3, RestOfFailover
<1>5. Answers'
  <2>1. asked = 0 /\ Len(heard) = 0 /\ Sequence(heard)
    BY <1>2, <1>3 DEF Answers
  <2> QED
    BY <1>1, <1>4, <2>1, AnswersBetween
<1>6. Fair'
  BY <1>1, <1>2, CallKeepsEngine, FairKept
<1> QED
  BY <1>4, <1>5, <1>6

LEMMA AwaitKeepsFailover ==
  ASSUME EngineInv, FailoverInv, AwaitCall \/ AwaitTimesOut
  PROVE  FailoverInv'
<1> SUFFICES ASSUME current' = FailoverAt PROVE Remaining' /\ Answers' /\ Fair'
  BY DEF FailoverInv
<1>1. PICK seen : AwaitEnds(seen)
  BY DEF AwaitCall, AwaitTimesOut
<1>2. /\ current = FailoverAt /\ todo # <<>> /\ Head(todo).op = "await" /\ asked' = asked
      /\ todo' = Tail(todo) /\ heard' = Append(heard, seen) /\ listed' = listed
      /\ rejoined' = rejoined
  BY <1>1 DEF AwaitEnds, AwaitCall, AwaitTimesOut, NoFault, Fault, Calls, Returned
<1>3. Remaining /\ Answers /\ Fair
  BY <1>2 DEF FailoverInv
<1>4. Len(todo) = 4
  <2>1. \A k \in 1 .. 5 : k = 1 \/ k = 2 \/ k = 3 \/ k = 4 \/ k = 5
    OBVIOUS
  <2> QED
    BY <1>2, <1>3, <2>1, NextOfFailover
<1>5. Remaining' /\ Len(todo') = 3
  BY <1>2, <1>3, <1>4, RestOfFailover
<1>6. asked = 0 /\ Len(heard) = 0 /\ Sequence(heard') /\ Len(heard') = 1
  <2>1. asked = 0 /\ Len(heard) = 0 /\ Sequence(heard)
    BY <1>3, <1>4 DEF Answers
  <2>2. Sequence(heard') /\ Len(heard') = Len(heard) + 1
    BY <1>2, <2>1, AppendTo
  <2>3. Len(heard') = 1
    BY <2>1, <2>2
  <2> QED
    BY <2>1, <2>2, <2>3
<1>7. Answers'
  BY <1>2, <1>5, <1>6, AnswersBetween
<1>8. UNCHANGED <<probeHealth, pc, query, decision>>
  BY CallKeepsEngine
<1>9. Fair'
  BY <1>2, <1>3, <1>6, <1>8 DEF Fair, BackSince
<1> QED
  BY <1>5, <1>7, <1>9

\* The responder looks: what it lists is down, and nothing is in flight.
LEMMA SurveyKeepsFailover ==
  ASSUME EngineInv, FailoverInv, Survey
  PROVE  FailoverInv'
<1> SUFFICES ASSUME current' = FailoverAt PROVE Remaining' /\ Answers' /\ Fair'
  BY DEF FailoverInv
<1>1. /\ current = FailoverAt /\ todo # <<>> /\ Head(todo).op = "survey" /\ asked' = asked
      /\ todo' = Tail(todo) /\ heard' = heard /\ listed' = Unhealthy /\ rejoined' = {}
      /\ \A t \in Thread : pc[t] = "idle"
  BY DEF Survey, Calls, Returned, Rest, Between
<1>2. Remaining /\ Answers /\ Fair
  BY <1>1 DEF FailoverInv
<1>3. Len(todo) = 2
  <2>1. \A k \in 1 .. 5 : k = 1 \/ k = 2 \/ k = 3 \/ k = 4 \/ k = 5
    OBVIOUS
  <2> QED
    BY <1>1, <1>2, <2>1, NextOfFailover
<1>4. Remaining' /\ Len(todo') = 1
  BY <1>1, <1>2, <1>3, RestOfFailover
<1>5. asked = 0 /\ Len(heard) = 2 /\ Sequence(heard)
  BY <1>2, <1>3 DEF Answers
<1>6. Answers'
  BY <1>1, <1>4, <1>5, AnswersBetween
<1>7. UNCHANGED <<probeHealth, pc, query, decision>> /\ \A t \in Thread : decision[t] = Nothing
  BY <1>1, CallKeepsEngine DEF ResponderNext, EngineInv
<1>8. listed' \in Seq(Address) /\ \A e \in Range(listed') : ~probeHealth[e]
  <2>1. Range(Endpoints) \subseteq Address
    BY DemoAssumption DEF DemoAssumption, Range
  <2>2. Unhealthy \in Seq(Address)
    BY <2>1, UnhealthyIs
  <2>3. \A e \in Range(Unhealthy) : ~probeHealth[e]
    BY UnhealthyIs DEF EffectiveHealth, EngineInv
  <2> QED
    BY <1>1, <2>2, <2>3
<1>9. Fair'
  BY <1>1, <1>5, <1>7, <1>8 DEF Fair, Nothing
<1> QED
  BY <1>4, <1>6, <1>9

\* No other call is one of the failover's.
LEMMA OtherCallsKeepFailover ==
  ASSUME EngineInv, FailoverInv,
         GrantCall \/ ResetBudgetsCall \/ SpendCall \/ EnsureIncident \/ Repair \/ Repaired \/ AwaitAll
  PROVE  FailoverInv'
<1>1. /\ current' = current /\ todo # <<>>
      /\ Head(todo).op \in {"grant", "reset budgets", "spend", "ensure incident", "repair", "await all"}
  BY DEF GrantCall, ResetBudgetsCall, SpendCall, EnsureIncident, Repair, Repaired, AwaitAll, Calls, Rest
<1>2. ASSUME current = FailoverAt PROVE FALSE
  <2>1. Remaining
    BY <1>2 DEF FailoverInv
  <2>2. \A k \in 1 .. 5 : k = 1 \/ k = 2 \/ k = 3 \/ k = 4 \/ k = 5
    OBVIOUS
  <2>3. Head(todo).op \in {"inject", "await", "survey", "ask"}
    BY <1>1, <2>1, <2>2, NextOfFailover
  <2> QED
    BY <1>1, <2>3
<1> QED
  BY <1>1, <1>2 DEF FailoverInv

\* An endpoint the monitor publishes healthy has come back.
LEMMA PublishKeepsFailover ==
  ASSUME EngineInv, FailoverInv, NEW e \in Address, Publish(e)
  PROVE  FailoverInv'
<1> SUFFICES ASSUME current' = FailoverAt PROVE Remaining' /\ Answers' /\ Fair'
  BY DEF FailoverInv
<1>1. /\ current = FailoverAt
      /\ UNCHANGED <<todo, asked, heard, listed, pc, query, decision>>
      /\ probeHealth' = [probeHealth EXCEPT ![e] = up[e]]
      /\ rejoined' = IF up[e] THEN rejoined \union {e} ELSE rejoined
  BY DEF Publish, RecordProbe, runVars, scriptVars, threadVars
<1>2. Remaining /\ Answers /\ Fair
  BY <1>1 DEF FailoverInv
<1>3. Remaining' /\ Answers'
  BY <1>1, <1>2 DEF Remaining, Answers
<1>4. rejoined \subseteq rejoined'
  BY <1>1
<1>5. ASSUME NEW f \in Range(listed), probeHealth'[f] PROVE f \in rejoined'
  <2>1. f \in Address
    BY <1>2 DEF Fair, Range
  <2>2. CASE f = e
    BY <1>1, <1>5, <2>2 DEF EngineInv
  <2>3. CASE f # e
    BY <1>1, <1>2, <1>4, <1>5, <2>1, <2>3 DEF EngineInv, Fair
  <2> QED
    BY <2>2, <2>3
<1>6. \A f : BackSince(f) => BackSince(f)'
  BY <1>1, <1>4 DEF BackSince
<1>7. Fair'
  BY <1>1, <1>2, <1>5, <1>6 DEF Fair
<1> QED
  BY <1>3, <1>7

LEMMA StepKeepsFailover == EngineInv /\ FailoverInv /\ [DemoNext]_demoVars => FailoverInv'
<1> SUFFICES ASSUME EngineInv, FailoverInv, [DemoNext]_demoVars PROVE FailoverInv'
  OBVIOUS
<1>1. ASSUME UNCHANGED demoVars PROVE FailoverInv'
  <2>1. UNCHANGED failoverVars
    BY <1>1 DEF failoverVars, demoVars, engineVars, vars, poolVars, threadVars, runVars, scriptVars, pastVars
  <2> QED
    BY <2>1, FailoverKept
<1>2. ASSUME current' = NoScenario PROVE FailoverInv'
  BY <1>2 DEF FailoverInv, FailoverAt, NoScenario
<1>3. CASE CommandNext
  <2>1. Over \/ current' = NoScenario
    BY <1>3 DEF CommandNext, RunAsItIs, RunAfterReset, ResetRaises, Command, Requested, Idle, scriptVars
  <2> QED
    BY <1>1, <1>2, <2>1 DEF Over
<1>4. CASE ScenarioNext
  BY <1>2, <1>4, BeginsFailover DEF ScenarioNext, Judge, Raises, EndScenario
<1>5. CASE CallNext
  <2>1. CASE AskNext \/ AskDecide \/ AskReply
    BY <2>1, AskNextKeepsFailover, AskDecideKeepsFailover, AskReplyKeepsFailover
  <2>2. CASE AskReturn \/ InjectCall \/ AwaitCall \/ AwaitTimesOut
    BY <2>2, AskReturnKeepsFailover, InjectKeepsFailover, AwaitKeepsFailover
  <2>3. CASE GrantCompiles
    <3>1. UNCHANGED failoverVars
      BY <2>3 DEF GrantCompiles, Recompile, Rest, poolVars, threadVars, failoverVars
    <3> QED
      BY <3>1, FailoverKept
  <2>4. CASE GrantCall \/ ResetBudgetsCall \/ SpendCall \/ EnsureIncident
    BY <2>4, OtherCallsKeepFailover
  <2> QED
    BY <1>5, <2>1, <2>2, <2>3, <2>4 DEF CallNext
<1>6. CASE ResponderNext
  BY <1>6, SurveyKeepsFailover, OtherCallsKeepFailover DEF ResponderNext
<1>7. CASE WorldNext
  <2>1. CASE \E e \in Address : Publish(e)
    BY <2>1, PublishKeepsFailover
  <2>2. CASE \E e \in Address : StaleSweep(e)
    BY <1>2, <2>2 DEF StaleSweep, runVars, scriptVars
  <2>3. CASE \E e \in Meddled : Meddle(e)
    <3>1. UNCHANGED failoverVars
      BY <2>3 DEF Meddle, failoverVars, engineVars, vars, poolVars, threadVars, runVars, scriptVars
    <3> QED
      BY <3>1, FailoverKept
  <2> QED
    BY <1>7, <2>1, <2>2, <2>3 DEF WorldNext
<1> QED
  BY <1>1, <1>3, <1>4, <1>5, <1>6, <1>7 DEF DemoNext

\* The responder denies a failover only when nothing answered or an endpoint it
\* had listed came back before its answers: investigate() blames nobody unjustly.
THEOREM BlameHasACause == DemoSpec => []BlameIsFair
<1>1. DemoInit => EngineInv /\ FailoverInv
  BY EngineInit DEF DemoInit, FailoverInv, FailoverAt, NoScenario
<1>2. EngineInv /\ FailoverInv /\ [DemoNext]_demoVars => EngineInv' /\ FailoverInv'
  BY StepKeepsEngine, StepKeepsFailover
<1>3. EngineInv /\ FailoverInv => BlameIsFair
  <2> SUFFICES ASSUME EngineInv, FailoverInv, current # NoScenario, Catalogue[current].id = "failover", todo = <<>>
               PROVE  Range(heard[3]) \intersect Range(listed) \subseteq rejoined
    BY DEF BlameIsFair
  <2>1. current = FailoverAt
    <3>1. current \in 1 .. 15
      BY DEF EngineInv, NoScenario
    <3> QED
      BY <3>1, CatalogueIs
  <2>2. Len(heard) >= 3
    <3>1. Len(todo) = 0
      OBVIOUS
    <3>2. Len(heard) = 3
      BY <2>1, <3>1 DEF FailoverInv, Answers
    <3> QED
      BY <3>2
  <2>3. \A e \in Range(heard[3]) : BackSince(e)
    BY <2>1, <2>2 DEF FailoverInv, Fair
  <2> QED
    BY <2>3 DEF BackSince
<1> QED
  BY <1>1, <1>2, <1>3, PTL DEF DemoSpec

-----------------------------------------------------------------------------
(* IncidentInv step by step. *)

genuineVars == <<listed, still, probeHealth, up, taken>>

LEMMA GenuineKept == ASSUME Genuine, UNCHANGED genuineVars PROVE Genuine'
  BY DEF Genuine, genuineVars

LEMMA SettledKept == ASSUME Settled, UNCHANGED <<todo, listed>> PROVE Settled'
  BY DEF Settled

\* Once a call is made, the rest is as settled as before; once the responder has
\* looked, it is settled altogether.
LEMMA RestIsSettled ==
  ASSUME Settled, todo # <<>>, todo' = Tail(todo), listed' = listed \/ Head(todo).op = "survey"
  PROVE  Settled'
<1> DEFINE s == Tail(todo)
           n == Len(todo)
<1>1. /\ Sequence(s) /\ n >= 1 /\ n \in Nat /\ Len(s) = n - 1 /\ Head(todo) = todo[1]
      /\ \A i \in 1 .. n - 1 : s[i] = todo[i + 1]
  BY TailOf DEF Settled, Sequence
<1>2. /\ \A i, j \in 1 .. n : todo[i].op = "survey" /\ Breaks(todo[j]) => j < i
      /\ listed # <<>> => \A j \in 1 .. n : ~Breaks(todo[j])
  BY DEF Settled
<1>3. todo' = s
  OBVIOUS
<1> HIDE DEF s, n
<1>4. \A i \in 1 .. Len(s) : i \in Nat /\ i + 1 \in 1 .. n /\ s[i] = todo[i + 1]
  BY <1>1
<1>5. ASSUME NEW i \in 1 .. Len(s), NEW j \in 1 .. Len(s), s[i].op = "survey", Breaks(s[j]) PROVE j < i
  <2>1. j + 1 < i + 1
    BY <1>2, <1>4, <1>5
  <2> QED
    BY <1>4, <2>1
<1>6. ASSUME listed' # <<>>, NEW j \in 1 .. Len(s), Breaks(s[j]) PROVE FALSE
  <2>1. j + 1 \in 1 .. n /\ Breaks(todo[j + 1]) /\ ~(j + 1 < 1) /\ 1 \in 1 .. n
    BY <1>1, <1>4, <1>6
  <2>2. CASE listed' = listed
    BY <1>2, <1>6, <2>1, <2>2
  <2>3. CASE Head(todo).op = "survey"
    BY <1>1, <1>2, <2>1, <2>3
  <2> QED
    BY <2>2, <2>3
<1> QED
  BY <1>1, <1>3, <1>5, <1>6 DEF Settled

\* An incident is made, where it is, before the responder looks.
LEMMA EnsuringIsSettled ==
  ASSUME Settled, EnsureIncident
  PROVE  Settled'
<1> DEFINE s == Tail(todo)
           n == Len(todo)
           x == Inject(ApiA, TRUE)
           y == Await(ApiA, FALSE)
           u == <<x, y>> \o s
<1>1. todo # <<>> /\ Head(todo).op = "ensure incident" /\ listed' = listed /\ (todo' = u \/ todo' = <<>> \o s)
  BY DEF EnsureIncident, Calls
<1>2. /\ Sequence(s) /\ n >= 1 /\ n \in Nat /\ Len(s) = n - 1 /\ Head(todo) = todo[1]
      /\ \A i \in 1 .. n - 1 : s[i] = todo[i + 1]
  BY <1>1, TailOf DEF Settled, Sequence
<1>3. /\ \A i, j \in 1 .. n : todo[i].op = "survey" /\ Breaks(todo[j]) => j < i
      /\ listed # <<>> => \A j \in 1 .. n : ~Breaks(todo[j])
  BY DEF Settled
<1>4. listed = <<>>
  <2>1. 1 \in 1 .. n /\ Breaks(todo[1])
    <3>1. Breaks(todo[1])
      BY <1>1, <1>2 DEF Breaks
    <3> HIDE DEF n
    <3> QED
      BY <1>2, <3>1
  <2> QED
    BY <1>3, <2>1
<1>5. CASE todo' = <<>> \o s
  <2>1. <<>> \o s = s
    <3>1. s \in Seq({s[i] : i \in 1 .. Len(s)})
      BY <1>2, SequenceIs
    <3> HIDE DEF s
    <3> QED
      BY <3>1, ConcatEmptySeq
  <2> QED
    BY <1>1, <1>5, <2>1, RestIsSettled
<1>6. CASE todo' = u
  <2>1. /\ Sequence(u) /\ Len(u) = Len(s) + 2 /\ u[1] = x /\ u[2] = y
        /\ \A i \in 3 .. Len(s) + 2 : u[i] = s[i - 2]
    BY <1>2, TwoBefore
  <2>2. x.op = "inject" /\ y.op = "await"
    BY DEF Inject, Await
  <2> HIDE DEF u, x, y, s, n
  <2>3. \A i \in 1 .. Len(u) : i = 1 \/ i = 2 \/ (i \in 3 .. Len(s) + 2 /\ i - 2 \in 1 .. n - 1 /\ i - 2 + 1 = i - 1 /\ i - 1 \in 1 .. n)
    BY <1>2, <2>1
  <2>4. \A i \in 1 .. Len(u) : i = 1 \/ i = 2 \/ (i \in Nat /\ i >= 3 /\ i - 1 \in 1 .. n /\ u[i] = todo[i - 1])
    BY <1>2, <2>1, <2>3
  <2>5. ASSUME NEW i \in 1 .. Len(u), NEW j \in 1 .. Len(u), u[i].op = "survey", Breaks(u[j]) PROVE j < i
    <3>1. i \in Nat /\ i >= 3 /\ i - 1 \in 1 .. n /\ todo[i - 1].op = "survey"
      BY <2>1, <2>2, <2>4, <2>5
    <3>2. j = 1 \/ (j \in Nat /\ j - 1 \in 1 .. n /\ Breaks(todo[j - 1]))
      BY <2>1, <2>2, <2>4, <2>5 DEF Breaks
    <3>3. CASE j = 1
      BY <3>1, <3>3
    <3>4. CASE j \in Nat /\ j - 1 \in 1 .. n /\ Breaks(todo[j - 1])
      <4>1. j - 1 < i - 1
        BY <1>3, <3>1, <3>4
      <4> QED
        BY <3>1, <3>4, <4>1
    <3> QED
      BY <3>2, <3>3, <3>4
  <2> QED
    BY <1>1, <1>4, <1>6, <2>1, <2>5 DEF Settled
<1> QED
  BY <1>1, <1>5, <1>6

\* It begins with the whole script, and nothing listed.
LEMMA BeginsIncident ==
  ASSUME EngineInv, BeginScenario
  PROVE  IncidentInv'
<1> SUFFICES ASSUME current' = IncidentAt PROVE Settled' /\ Genuine'
  BY DEF IncidentInv
<1>1. todo' = IncidentResponse /\ listed' = <<>> /\ still' = <<>>
  BY CatalogueIs DEF BeginScenario
<1> DEFINE s == IncidentResponse
<1>2. Sequence(s) /\ Len(s) = 7 /\ s[1].op = "ensure incident" /\ \A i \in 2 .. 7 : ~Breaks(s[i])
  BY IncidentIs
<1>3. todo' = s
  BY <1>1
<1> HIDE DEF s
<1>4. ASSUME NEW i \in 1 .. Len(s), NEW j \in 1 .. Len(s), s[i].op = "survey", Breaks(s[j]) PROVE j < i
  <2>1. i # 1
    BY <1>2, <1>4
  <2>2. j \notin 2 .. 7
    BY <1>2, <1>4
  <2>3. i \in 1 .. 7 /\ j \in 1 .. 7
    BY <1>2
  <2>4. \A k, l \in 1 .. 7 : k # 1 /\ l \notin 2 .. 7 => l < k
    OBVIOUS
  <2> QED
    BY <2>1, <2>2, <2>3, <2>4
<1>5. Settled'
  BY <1>1, <1>2, <1>3, <1>4 DEF Settled
<1>6. Genuine'
  <2>1. Range(<<>>) = {} /\ <<>> \in Seq(Range(Endpoints))
    BY DEF Range
  <2> QED
    BY <1>1, <2>1 DEF Genuine
<1> QED
  BY <1>5, <1>6

\* The calls that take nothing down and look at nothing.
LEMMA PlainCallsKeepIncident ==
  ASSUME EngineInv, IncidentInv, UNCHANGED genuineVars, current' = current,
         todo' = todo \/ (todo # <<>> /\ todo' = Tail(todo))
  PROVE  IncidentInv'
<1> SUFFICES ASSUME current' = IncidentAt PROVE Settled' /\ Genuine'
  BY DEF IncidentInv
<1>1. Settled /\ Genuine /\ listed' = listed
  BY DEF IncidentInv, genuineVars
<1> QED
  BY <1>1, SettledKept, RestIsSettled, GenuineKept

\* A service is broken before the responder looks, if at all.
LEMMA InjectKeepsIncident ==
  ASSUME EngineInv, IncidentInv, InjectCall
  PROVE  IncidentInv'
<1> SUFFICES ASSUME current' = IncidentAt PROVE Settled' /\ Genuine'
  BY DEF IncidentInv
<1>1. /\ current = IncidentAt /\ todo # <<>> /\ Head(todo).op = "inject" /\ todo' = Tail(todo)
      /\ listed' = listed /\ still' = still /\ taken' = taken /\ probeHealth' = probeHealth
  BY CallKeepsEngine DEF InjectCall, Calls, Returned, Rest
<1>2. Settled /\ Genuine
  BY <1>1 DEF IncidentInv
<1>3. listed = <<>>
  <2>1. Head(todo) = todo[1] /\ Len(todo) \in Nat /\ Len(todo) >= 1
    BY <1>1, <1>2, TailOf DEF Settled, Sequence
  <2>2. 1 \in 1 .. Len(todo)
    BY <2>1
  <2> QED
    BY <1>1, <1>2, <2>1, <2>2 DEF Settled, Breaks
<1>4. Settled'
  BY <1>1, <1>2, RestIsSettled
<1>5. Genuine'
  <2>1. Range(<<>>) = {}
    BY DEF Range
  <2> QED
    BY <1>1, <1>2, <1>3, <2>1 DEF Genuine
<1> QED
  BY <1>4, <1>5

\* What the responder lists is down; what it no longer finds unhealthy is up,
\* for no endpoint is pinned.
LEMMA SurveyKeepsIncident ==
  ASSUME EngineInv, IncidentInv, Survey
  PROVE  IncidentInv'
<1> SUFFICES ASSUME current' = IncidentAt PROVE Settled' /\ Genuine'
  BY DEF IncidentInv
<1>1. /\ current = IncidentAt /\ todo # <<>> /\ Head(todo).op = "survey" /\ todo' = Tail(todo)
      /\ listed' = Unhealthy /\ still' = Unhealthy
      /\ UNCHANGED <<up, taken, probeHealth>>
  BY CallKeepsEngine DEF ResponderNext, Survey, Calls, Returned, Rest, Quiet, worldVars
<1>2. Settled'
  BY <1>1, RestIsSettled DEF IncidentInv
<1>3. Unhealthy \in Seq(Range(Endpoints)) /\ \A e \in Range(Unhealthy) : ~probeHealth[e]
  BY UnhealthyIs DEF EffectiveHealth, EngineInv
<1>4. Genuine'
  <2> DEFINE s == Unhealthy
  <2>1. s \in Seq(Range(Endpoints)) /\ \A e \in Range(s) : ~probeHealth[e]
    BY <1>3
  <2>2. listed' = s /\ still' = s /\ probeHealth' = probeHealth
    BY <1>1
  <2> HIDE DEF s
  <2> QED
    BY <2>1, <2>2 DEF Genuine
<1> QED
  BY <1>2, <1>4

LEMMA AwaitAllKeepsIncident ==
  ASSUME EngineInv, IncidentInv, AwaitAll
  PROVE  IncidentInv'
<1> SUFFICES ASSUME current' = IncidentAt PROVE Settled' /\ Genuine'
  BY DEF IncidentInv
<1>1. /\ current = IncidentAt /\ todo # <<>> /\ todo' = Tail(todo) /\ listed' = listed
      /\ still' = IF listed = <<>> THEN <<>> ELSE Unhealthy
      /\ UNCHANGED <<up, taken, probeHealth>>
  BY CallKeepsEngine DEF ResponderNext, AwaitAll, Calls, Returned, Quiet, worldVars
<1>2. Settled /\ Genuine
  BY <1>1 DEF IncidentInv
<1>3. Settled'
  BY <1>1, <1>2, RestIsSettled
<1>4. ASSUME NEW e \in Range(listed) \ Range(still') PROVE up[e] \/ e \in taken
  <2>1. CASE listed = <<>>
    BY <1>4, <2>1 DEF Range
  <2>2. CASE listed # <<>>
    <3>1. e \in Range(Endpoints)
      BY <1>2, <1>4 DEF Genuine, Range
    <3>2. e \notin Range(Unhealthy)
      BY <1>1, <1>4, <2>2
    <3>3. probeHealth[e]
      BY <3>1, <3>2, UnhealthyIs DEF EffectiveHealth, EngineInv
    <3> QED
      BY <1>2, <1>4, <3>3 DEF Genuine
  <2> QED
    BY <2>1, <2>2
<1>5. Genuine'
  BY <1>1, <1>2, <1>4 DEF Genuine
<1> QED
  BY <1>3, <1>5

\* A repair brings a service up, or does not arrive.
LEMMA RepairKeepsIncident ==
  ASSUME EngineInv, IncidentInv, Repair
  PROVE  IncidentInv'
<1> SUFFICES ASSUME current' = IncidentAt PROVE Settled' /\ Genuine'
  BY DEF IncidentInv
<1>1. /\ current = IncidentAt
      /\ UNCHANGED <<todo, listed, still, taken, probeHealth>>
      /\ up' = up \/ \E e : up' = [up EXCEPT ![e] = TRUE]
  BY CallKeepsEngine DEF ResponderNext, Repair, RepairOne
<1>2. Settled /\ Genuine
  BY <1>1 DEF IncidentInv
<1>3. \A e \in Address : up[e] => up'[e]
  BY <1>1 DEF EngineInv
<1>4. \A e \in Range(listed) : e \in Address
  BY <1>2, DemoAssumption DEF Genuine, DemoAssumption, Range
<1>5. Genuine'
  BY <1>1, <1>2, <1>3, <1>4 DEF Genuine
<1> QED
  BY <1>1, <1>2, <1>5, SettledKept

\* The monitor reports what the service answers; who takes one down is noted.
LEMMA WorldKeepsIncident ==
  ASSUME EngineInv, IncidentInv, NEW e \in Address, Publish(e) \/ Meddle(e)
  PROVE  IncidentInv'
<1> SUFFICES ASSUME current' = IncidentAt PROVE Settled' /\ Genuine'
  BY DEF IncidentInv
<1>1. current = IncidentAt /\ UNCHANGED <<todo, listed, still>>
  BY DEF Publish, Meddle, runVars, scriptVars
<1>2. Settled /\ Genuine
  BY <1>1 DEF IncidentInv
<1>3. \A f \in Range(listed) : f \in Address
  BY <1>2, DemoAssumption DEF Genuine, DemoAssumption, Range
<1>4. CASE Publish(e)
  <2>1. UNCHANGED <<up, taken>> /\ probeHealth' = [probeHealth EXCEPT ![e] = up[e]]
    BY <1>4 DEF Publish, RecordProbe, worldVars
  <2>2. \A f \in Address : probeHealth'[f] => probeHealth[f] \/ up[f]
    BY <2>1 DEF EngineInv
  <2>3. Genuine'
    BY <1>1, <1>2, <1>3, <2>1, <2>2 DEF Genuine
  <2> QED
    BY <1>1, <1>2, <2>3, SettledKept
<1>5. CASE Meddle(e)
  <2>1. /\ probeHealth' = probeHealth /\ up' = [up EXCEPT ![e] = ~up[e]]
        /\ taken' = IF up[e] THEN taken \union {e} ELSE taken
    BY <1>5 DEF Meddle, engineVars, vars, poolVars
  <2>2. \A f \in Address : up[f] \/ f \in taken => up'[f] \/ f \in taken'
    BY <2>1 DEF EngineInv
  <2>3. Genuine'
    BY <1>1, <1>2, <1>3, <2>1, <2>2 DEF Genuine
  <2> QED
    BY <1>1, <1>2, <2>3, SettledKept
<1> QED
  BY <1>4, <1>5

LEMMA StepKeepsIncident == EngineInv /\ IncidentInv /\ [DemoNext]_demoVars => IncidentInv'
<1> SUFFICES ASSUME EngineInv, IncidentInv, [DemoNext]_demoVars PROVE IncidentInv'
  OBVIOUS
<1>1. ASSUME UNCHANGED demoVars PROVE IncidentInv'
  <2>1. UNCHANGED genuineVars /\ todo' = todo /\ current' = current
    BY <1>1 DEF genuineVars, demoVars, engineVars, vars, poolVars, worldVars, runVars, scriptVars, pastVars
  <2> QED
    BY <2>1, PlainCallsKeepIncident
<1>2. ASSUME current' = NoScenario PROVE IncidentInv'
  BY <1>2 DEF IncidentInv, IncidentAt, NoScenario
<1>3. CASE CommandNext
  <2>1. Over \/ current' = NoScenario
    BY <1>3 DEF CommandNext, RunAsItIs, RunAfterReset, ResetRaises, Command, Requested, Idle, scriptVars
  <2> QED
    BY <1>1, <1>2, <2>1 DEF Over
<1>4. CASE ScenarioNext
  BY <1>2, <1>4, BeginsIncident DEF ScenarioNext, Judge, Raises, EndScenario
<1>5. CASE CallNext
  <2>1. CASE AskNext \/ AskDecide \/ AskReply
    <3>1. UNCHANGED <<todo, current, listed, still, taken>>
      BY <2>1 DEF AskNext, AskDecide, AskReply, Rest
    <3>2. CASE AskNext
      BY <3>1, <3>2, PlainCallsKeepIncident DEF AskNext, Begin, poolVars, worldVars, genuineVars
    <3>3. CASE AskDecide
      BY <3>1, <3>3, PlainCallsKeepIncident DEF AskDecide, DecideQuery, DecideThrottled, DecideOverBudget, DecideNoRecord,
         DecideNoEndpoint, DecideAllowed, Decide, worldVars, genuineVars
    <3>4. CASE AskReply
      BY <3>1, <3>4, PlainCallsKeepIncident DEF AskReply, Reply, poolVars, genuineVars
    <3> QED
      BY <2>1, <3>2, <3>3, <3>4
  <2>2. CASE AskReturn \/ GrantCall \/ GrantCompiles \/ ResetBudgetsCall \/ SpendCall \/ AwaitCall \/ AwaitTimesOut
    <3>1. UNCHANGED <<listed, still, taken>> /\ (todo' = todo \/ (todo # <<>> /\ todo' = Tail(todo)))
      BY <2>2 DEF AskReturn, GrantCall, GrantCompiles, ResetBudgetsCall, SpendCall, AwaitCall, AwaitTimesOut, AwaitEnds,
         Calls, Returned, Rest
    <3>2. up' = up
      BY <2>2 DEF AskReturn, GrantCall, GrantCompiles, ResetBudgetsCall, SpendCall, AwaitCall, AwaitTimesOut, AwaitEnds,
         Quiet, worldVars
    <3>3. UNCHANGED <<probeHealth, current>>
      BY <2>2, CallKeepsEngine
    <3> QED
      BY <3>1, <3>2, <3>3, PlainCallsKeepIncident DEF genuineVars
  <2>3. CASE EnsureIncident
    <3>1. UNCHANGED genuineVars /\ current' = current
      BY <2>3, CallKeepsEngine DEF EnsureIncident, Quiet, worldVars, Rest, genuineVars
    <3> QED
      BY <2>3, <3>1, EnsuringIsSettled, GenuineKept DEF IncidentInv
  <2> QED
    BY <1>5, <2>1, <2>2, <2>3, InjectKeepsIncident DEF CallNext
<1>6. CASE ResponderNext
  <2>1. CASE Repaired
    <3>1. UNCHANGED <<listed, still, taken, up>> /\ todo # <<>> /\ todo' = Tail(todo)
      BY <2>1 DEF Repaired, Calls, Returned, Rest, Quiet, worldVars
    <3>2. UNCHANGED <<probeHealth, current>>
      BY <1>6, CallKeepsEngine
    <3> QED
      BY <3>1, <3>2, PlainCallsKeepIncident DEF genuineVars
  <2> QED
    BY <1>6, <2>1, SurveyKeepsIncident, RepairKeepsIncident, AwaitAllKeepsIncident DEF ResponderNext
<1>7. CASE WorldNext
  <2>1. CASE \E e \in Address : StaleSweep(e)
    BY <1>2, <2>1 DEF StaleSweep, runVars, scriptVars
  <2>2. Meddled \subseteq Address
    BY DemoAssumption DEF DemoAssumption
  <2> QED
    BY <1>7, <2>1, <2>2, WorldKeepsIncident DEF WorldNext
<1> QED
  BY <1>1, <1>3, <1>4, <1>5, <1>6, <1>7 DEF DemoNext

\* When incident-response passes, the service behind the address is up, or
\* somebody else took it down meanwhile: lost repairs and a monitor that is late
\* or wrong make the scenario fail, never pass.
THEOREM RepairReachesTheService == DemoSpec => RepairIsReal
<1> DEFINE Passes ==
             /\ current # NoScenario /\ Catalogue[current].id = "incident-response"
             /\ current' = NoScenario /\ verdicts'["incident-response"] = "PASS"
           Inv == EngineInv /\ IncidentInv
<1>1. DemoInit => Inv
  BY EngineInit DEF DemoInit, IncidentInv, IncidentAt, NoScenario
<1>2. Inv /\ [DemoNext]_demoVars => Inv'
  BY StepKeepsEngine, StepKeepsIncident
<1>3. Inv /\ [DemoNext]_demoVars => [Passes => up[ApiA] \/ ApiA \in taken]_demoVars
  <2> SUFFICES ASSUME EngineInv, IncidentInv, DemoNext, Passes PROVE up[ApiA] \/ ApiA \in taken
    OBVIOUS
  <2>1. current = IncidentAt
    <3>1. current \in 1 .. 15
      BY DEF EngineInv, NoScenario
    <3> QED
      BY <3>1, CatalogueIs
  <2>2. Judge \/ Raises
    <3>1. current # current'
      OBVIOUS
    <3>2. ~CommandNext
      BY <3>1 DEF CommandNext, RunAsItIs, RunAfterReset, ResetRaises, Over, Command, Requested, Idle
    <3>3. ~BeginScenario
      BY DEF BeginScenario
    <3>4. ~CallNext /\ ~ResponderNext /\ ~WorldNext
      BY <3>1, Calling DEF judgeVars
    <3> QED
      BY <3>2, <3>3, <3>4 DEF DemoNext, ScenarioNext
  <2>3. \A v : EndScenario(v) => verdicts'["incident-response"] = v
    BY <2>1, CatalogueIs DEF EndScenario, WithVerdict
  <2>4. Judge /\ Holds(Catalogue[current])
    <3>1. ~Raises
      BY <2>3 DEF Raises
    <3> QED
      BY <2>2, <2>3, <3>1 DEF Judge
  <2>5. ApiA \in Range(listed) \ Range(still)
    <3>1. SurviveHolds("incident-response")
      BY <2>1, <2>4, CatalogueIs DEF Holds
    <3> QED
      BY <3>1 DEF SurviveHolds
  <2> QED
    BY <2>1, <2>5 DEF IncidentInv, Genuine
<1> QED
  <2>1. Inv /\ [DemoNext]_demoVars => [Passes => up[ApiA] \/ ApiA \in taken]_demoVars
    BY <1>3
  <2> QED
    BY <1>1, <1>2, <2>1, PTL DEF DemoSpec, RepairIsReal
=============================================================================
