---------------------------- MODULE HealthMonitor ----------------------------
(***************************************************************************)
(* dns_manager/health.py and the POST /reset handler of dns_manager/api.py *)
(* that races with it.                                                     *)
(*                                                                         *)
(* The monitor thread sweeps: it probes every endpoint in a thread pool,   *)
(* waits for all the results, and then takes the endpoints one by one,     *)
(* feeding each result to the tracker and the tracker's verdict to the     *)
(* policy engine.  A reset revives the services, gives the engine back its *)
(* first health view and replaces the tracker, without stopping the sweep  *)
(* that may be under way.                                                  *)
(***************************************************************************)
EXTENDS Integers, Sequences

CONSTANTS
  Addresses,         \* the endpoints in the order of engine.addresses()
  FailureThreshold, SuccessThreshold,
  Garbles,           \* whether an endpoint may answer something that is not HTTP
  MayStop,           \* whether the process may shut down
  Watched,           \* the endpoints whose history is kept
  Memory             \* bound on the history: longer ones are forgotten

ASSUME HealthAssumption ==
  /\ Addresses \in Seq(STRING)
  /\ \A i, j \in DOMAIN Addresses : Addresses[i] = Addresses[j] => i = j
  /\ FailureThreshold \in Nat \ {0} /\ SuccessThreshold \in Nat \ {0}
  /\ {Garbles, MayStop} \subseteq BOOLEAN
  /\ Watched \subseteq {Addresses[i] : i \in DOMAIN Addresses}
  /\ Memory \in Nat

Address == {Addresses[i] : i \in DOMAIN Addresses}
Service == {"up", "down"} \union (IF Garbles THEN {"garbled"} ELSE {})

VARIABLES
  service,      \* what each endpoint really is
  probeHealth,  \* the engine's _probe_health
  state, failures, successes,  \* the tracker
  mpc,          \* where the monitor stands: "wait", "probe", "record", "read", "publish", "stopped"
  results,      \* what the probes of this sweep have found so far
  at,           \* the endpoint of this sweep whose turn it is
  verdict,      \* tracker.state() of that endpoint, read and not yet recorded
  stopping,     \* the stop event
  rpc,          \* where POST /reset stands: "idle", "recover", "engine", "tracker"
  reviving,     \* the endpoint a reset revives next
  log,          \* history: the results each endpoint's current tracker has recorded
  disturbed     \* history: a reset interfered since the last sweep began to record

serviceVars == <<service>>
trackerVars == <<state, failures, successes, log>>
sweepVars   == <<mpc, results, at, verdict, stopping>>
resetVars   == <<rpc, reviving>>
vars == <<serviceVars, probeHealth, trackerVars, sweepVars, resetVars, disturbed>>

-----------------------------------------------------------------------------
Everywhere(value) == [e \in Address |-> value]
NoResults == <<>>
Current == Addresses[at]

Init ==
  /\ service = Everywhere("up")
  /\ probeHealth = Everywhere(TRUE)
  /\ state = Everywhere(TRUE) /\ failures = Everywhere(0) /\ successes = Everywhere(0)
  /\ mpc = "wait" /\ results = NoResults /\ at = 1 /\ verdict = TRUE /\ stopping = FALSE
  /\ rpc = "idle" /\ reviving = 1
  /\ log = Everywhere(<<>>)
  /\ disturbed = FALSE

\* An endpoint fails or recovers, by injection or by itself.
Become(e, s) ==
  /\ s # service[e]
  /\ service' = [service EXCEPT ![e] = s]
  /\ UNCHANGED <<probeHealth, trackerVars, sweepVars, resetVars, disturbed>>

-----------------------------------------------------------------------------
(* HealthTracker.record().  The counters matter only up to their thresholds, *)
(* where they saturate.                                                      *)

Raise(count, threshold) == IF count < threshold THEN count + 1 ELSE count

\* Mutant: a success does not break a run of failures.
TrackSuccessKeepsFailures(e) ==
  /\ successes' = [successes EXCEPT ![e] = Raise(@, SuccessThreshold)]
  /\ UNCHANGED failures
  /\ state' = [state EXCEPT ![e] = @ \/ successes'[e] >= SuccessThreshold]

TrackSuccess(e) ==
  /\ failures' = [failures EXCEPT ![e] = 0]
  /\ successes' = [successes EXCEPT ![e] = Raise(@, SuccessThreshold)]
  /\ state' = [state EXCEPT ![e] = @ \/ successes'[e] >= SuccessThreshold]

TrackFailure(e) ==
  /\ successes' = [successes EXCEPT ![e] = 0]
  /\ failures' = [failures EXCEPT ![e] = Raise(@, FailureThreshold)]
  /\ state' = [state EXCEPT ![e] = @ /\ failures'[e] < FailureThreshold]

Forgotten == [i \in 1 .. Memory + 1 |-> TRUE]
Known(e) == e \in Watched /\ Len(log[e]) <= Memory
Remember(e, result) ==
  log' = [log EXCEPT ![e] = IF e \notin Watched THEN @
                            ELSE IF Len(@) < Memory THEN Append(@, result) ELSE Forgotten]

-----------------------------------------------------------------------------
(* The monitor thread: _run() and check_once(). *)

StartSweep ==
  /\ mpc = "wait" /\ ~stopping
  /\ mpc' = "probe" /\ results' = NoResults
  /\ UNCHANGED <<serviceVars, probeHealth, trackerVars, at, verdict, stopping, resetVars, disturbed>>

\* Mutant: urlopen() without a timeout.
ProbeWaits(e) ==
  /\ mpc = "probe" /\ e \notin DOMAIN results
  /\ service[e] = "up"
  /\ results' = [f \in DOMAIN results \union {e} |-> IF f = e THEN TRUE ELSE results[f]]
  /\ UNCHANGED <<serviceVars, probeHealth, trackerVars, mpc, at, verdict, stopping, resetVars, disturbed>>

\* One probe in the thread pool; the probes of a sweep end in any order.
Probe(e) ==
  /\ mpc = "probe" /\ e \notin DOMAIN results
  /\ service[e] # "garbled"
  /\ results' = [f \in DOMAIN results \union {e} |-> IF f = e THEN service[e] = "up" ELSE results[f]]
  /\ UNCHANGED <<serviceVars, probeHealth, trackerVars, mpc, at, verdict, stopping, resetVars, disturbed>>

\* Mutant: the exception ends the monitor thread.
ProbeRaisesForGood(e) ==
  /\ mpc = "probe" /\ e \notin DOMAIN results
  /\ service[e] = "garbled"
  /\ mpc' = "stopped" /\ results' = NoResults
  /\ UNCHANGED <<serviceVars, probeHealth, trackerVars, at, verdict, stopping, resetVars, disturbed>>

\* http.client.HTTPException is no OSError: it passes http_probe() and ends the
\* sweep, whose other results are thrown away.
ProbeRaises(e) ==
  /\ mpc = "probe" /\ e \notin DOMAIN results
  /\ service[e] = "garbled"
  /\ mpc' = "wait" /\ results' = NoResults
  /\ UNCHANGED <<serviceVars, probeHealth, trackerVars, at, verdict, stopping, resetVars, disturbed>>

\* list(pool.map(...)) waits for every probe.
ProbesDone ==
  /\ mpc = "probe" /\ DOMAIN results = Address
  /\ mpc' = (IF Addresses = <<>> THEN "wait" ELSE "record") /\ at' = 1
  /\ UNCHANGED <<serviceVars, probeHealth, trackerVars, results, verdict, stopping, resetVars, disturbed>>

\* tracker.record(address, reachable)
Record ==
  /\ mpc = "record"
  /\ IF results[Current] THEN TrackSuccess(Current) ELSE TrackFailure(Current)
  /\ Remember(Current, results[Current])
  /\ mpc' = "read"
  /\ disturbed' = (at > 1 /\ disturbed)
  /\ UNCHANGED <<serviceVars, probeHealth, results, at, verdict, stopping, resetVars>>

\* tracker.state(address), of the tracker that is there now
ReadVerdict ==
  /\ mpc = "read"
  /\ verdict' = state[Current]
  /\ mpc' = "publish"
  /\ UNCHANGED <<serviceVars, probeHealth, trackerVars, results, at, stopping, resetVars, disturbed>>

\* Mutant: the raw result goes to the engine.
PublishRaw ==
  /\ mpc = "publish"
  /\ probeHealth' = [probeHealth EXCEPT ![Current] = results[Current]]
  /\ IF at < Len(Addresses)
     THEN mpc' = "record" /\ at' = at + 1 /\ UNCHANGED <<results, verdict>>
     ELSE mpc' = "wait" /\ at' = 1 /\ results' = NoResults /\ verdict' = TRUE
  /\ UNCHANGED <<serviceVars, trackerVars, stopping, resetVars, disturbed>>

\* Mutant: the engine hears of evictions only.
PublishEvictions ==
  /\ mpc = "publish"
  /\ probeHealth' = [probeHealth EXCEPT ![Current] = @ /\ verdict]
  /\ IF at < Len(Addresses)
     THEN mpc' = "record" /\ at' = at + 1 /\ UNCHANGED <<results, verdict>>
     ELSE mpc' = "wait" /\ at' = 1 /\ results' = NoResults /\ verdict' = TRUE
  /\ UNCHANGED <<serviceVars, trackerVars, stopping, resetVars, disturbed>>

\* engine.record_probe(address, ...), and on to the next endpoint.
Publish ==
  /\ mpc = "publish"
  /\ probeHealth' = [probeHealth EXCEPT ![Current] = verdict]
  /\ IF at < Len(Addresses)
     THEN mpc' = "record" /\ at' = at + 1 /\ UNCHANGED <<results, verdict>>
     ELSE mpc' = "wait" /\ at' = 1 /\ results' = NoResults /\ verdict' = TRUE
  /\ UNCHANGED <<serviceVars, trackerVars, stopping, resetVars, disturbed>>

\* The loop ends between two sweeps.
MonitorEnds ==
  /\ mpc = "wait" /\ stopping
  /\ mpc' = "stopped"
  /\ UNCHANGED <<serviceVars, probeHealth, trackerVars, results, at, verdict, stopping, resetVars, disturbed>>

Stop ==
  /\ MayStop /\ ~stopping
  /\ stopping' = TRUE
  /\ UNCHANGED <<serviceVars, probeHealth, trackerVars, mpc, results, at, verdict, resetVars, disturbed>>

SweepStep ==
  \/ StartSweep \/ (\E e \in Address : Probe(e) \/ ProbeRaises(e)) \/ ProbesDone
  \/ Record \/ ReadVerdict \/ Publish \/ MonitorEnds

-----------------------------------------------------------------------------
(* POST /reset *)

ResetBegin ==
  /\ rpc = "idle"
  /\ rpc' = "recover" /\ reviving' = 1
  /\ UNCHANGED <<serviceVars, probeHealth, trackerVars, sweepVars, disturbed>>

\* _recover(): the service comes up, or the request fails and it does not.
ResetRevives ==
  /\ rpc = "recover" /\ reviving <= Len(Addresses)
  /\ service[Addresses[reviving]] # "garbled"
  /\ \/ service' = [service EXCEPT ![Addresses[reviving]] = "up"]
     \/ service[Addresses[reviving]] = "down" /\ UNCHANGED service
  /\ reviving' = reviving + 1
  /\ UNCHANGED <<probeHealth, trackerVars, sweepVars, rpc, disturbed>>

\* An answer that is not HTTP ends the handler before it has reset anything.
ResetFails ==
  /\ rpc = "recover" /\ reviving <= Len(Addresses)
  /\ service[Addresses[reviving]] = "garbled"
  /\ rpc' = "idle" /\ reviving' = 1
  /\ UNCHANGED <<serviceVars, probeHealth, trackerVars, sweepVars, disturbed>>

\* engine.reset() makes every endpoint healthy.
ResetEngine ==
  /\ rpc = "recover" /\ reviving > Len(Addresses)
  /\ probeHealth' = Everywhere(TRUE)
  /\ disturbed' = TRUE
  /\ rpc' = "tracker" /\ reviving' = 1
  /\ UNCHANGED <<serviceVars, trackerVars, sweepVars>>

\* The monitor gets a new tracker.
ResetTracker ==
  /\ rpc = "tracker"
  /\ state' = Everywhere(TRUE) /\ failures' = Everywhere(0) /\ successes' = Everywhere(0)
  /\ log' = Everywhere(<<>>)
  /\ disturbed' = TRUE
  /\ rpc' = "idle"
  /\ UNCHANGED <<serviceVars, probeHealth, sweepVars, reviving>>

ResetStep == ResetRevives \/ ResetFails \/ ResetEngine \/ ResetTracker

-----------------------------------------------------------------------------
Next ==
  \/ \E e \in Address, s \in Service : Become(e, s)
  \/ SweepStep
  \/ Stop
  \/ ResetBegin \/ ResetStep

Spec == Init /\ [][Next]_vars

\* Threads are scheduled and every probe has a timeout; nothing is asked of
\* the services.
FairSpec == Spec /\ WF_vars(SweepStep) /\ WF_vars(ResetStep)

-----------------------------------------------------------------------------
(* Properties. *)

\* What "debounced" means, without counters: the results hold a run of
\* FailureThreshold failures that no run of SuccessThreshold successes follows.
AllFrom(s, i, n, result) == i \in Nat /\ \A j \in i .. i + n - 1 : j \in DOMAIN s /\ s[j] = result
Out(s) ==
  \E i \in DOMAIN s :
    /\ AllFrom(s, i, FailureThreshold, FALSE)
    /\ \A j \in i .. Len(s) : ~AllFrom(s, j, SuccessThreshold, TRUE)

\* The tracker's counters compute exactly that, for every order of results.
DebounceExact == \A e \in Address : Known(e) => state[e] = ~Out(log[e])

\* README.md:187, "a single blip never evicts an endpoint": without a reset in
\* between, what the monitor takes out of the DNS pool had its run of failures,
\* and what it puts back its run of successes.
PoolDebounced ==
  [][\A e \in Address : probeHealth'[e] # probeHealth[e] /\ ~disturbed /\ Known(e) =>
       probeHealth'[e] = ~Out(log[e]) \/ rpc' = "tracker"]_vars

\* A reset may race with a sweep and leave a stale verdict in the engine, but
\* not beyond the next sweep: between sweeps the engine agrees with the tracker
\* unless a reset has interfered since the last one began to record.
PoolFollowsTracker == mpc = "wait" /\ ~disturbed => probeHealth = state

Quiet == rpc = "idle" /\ ~stopping
Sweeping == Quiet /\ \A e \in Address : service[e] # "garbled"

\* README.md:263, "the health monitor notices ... and DNS stops handing out that
\* address": an endpoint that is down for good leaves the pool and stays out,
\* as long as every endpoint's answers are HTTP.
DownLeaves ==
  \A e \in Address : <>[](service[e] = "down" /\ Sweeping) => <>[]~probeHealth[e]

\* An endpoint that is up for good comes back, whatever happened before: no
\* reset, race or failed sweep leaves it out for ever.
UpReturns ==
  \A e \in Address : <>[](service[e] = "up" /\ Sweeping) => <>[]probeHealth[e]

\* health.py:52, "A probe succeeds only on a 2xx response": so an endpoint that
\* gives none for good, whatever it answers instead, leaves the pool.
UnhealthyLeaves ==
  \A e \in Address : <>[](service[e] # "up" /\ Quiet) => <>[]~probeHealth[e]

=============================================================================
