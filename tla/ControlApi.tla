------------------------------ MODULE ControlApi ------------------------------
(***************************************************************************)
(* The control API, dns_manager/api.py: the handlers that change           *)
(* something, and the audit trail they write.                              *)
(*                                                                         *)
(* FastAPI runs each handler in a thread of its pool.  A handler takes the *)
(* engine's lock for single reads and writes and the store's for single    *)
(* transactions, never across them, so handlers interleave between any two *)
(* of their steps.  One step of the model is one engine call, one request  *)
(* to a mock service, or one transaction.                                  *)
(*                                                                         *)
(* PolicyEngine has what the engine does with its rules and EventStore     *)
(* what the store does with the decision log; here the engine is what the  *)
(* API can change of it, and the store is the control_events table.        *)
(***************************************************************************)
EXTENDS Naturals, FiniteSets, Sequences

CONSTANTS
  Call,        \* requests to the API, one handler thread each
  Domain,      \* domains of the one agent whose access changes
  Endpoint,    \* addresses of the records
  Unknown,     \* an agent or an address the configuration does not have
  Asked,       \* the requests that may come in
  StartAllow,  \* the agent's domains in policies.json
  Faults       \* what may fail: "disk", "config", "service", "crash"

VARIABLES
  allow,     \* the agent's domains in force
  override,  \* the override of each endpoint, or "none"
  spent,     \* whether budget spend is on the books
  up,        \* whether the service behind each endpoint is up
  audit,     \* the control_events table: the calls that wrote its rows, in id order
  pc,        \* where each handler stands
  req,       \* what each call asks for
  before,    \* what the handler read before its change
  after,     \* what it read, or composed, after it
  revived,   \* reset(): the services still to be asked, and those that said they recovered
  answer,    \* the status of each answer
  prior,     \* history: the calls already answered when each one began
  crashes    \* history: how often the process was restarted

engine == <<allow, override, spent>>
call   == <<req, prior>>
vars   == <<engine, up, audit, pc, call, before, after, revived, answer, crashes>>

-----------------------------------------------------------------------------
Requests ==
  [op : {"access"}, on : Domain \union {Unknown}, value : {"grant", "revoke"}]
    \union [op : {"pin"}, on : Endpoint \union {Unknown}, value : {"up", "down"}]
    \union [op : {"unpin"}, on : Endpoint \union {Unknown}, value : {"none"}]
    \union [op : {"inject"}, on : Endpoint \union {Unknown}, value : {"fail", "recover"}]
    \union [op : {"budgets", "activity", "reset"}, on : {Unknown}, value : {"none"}]

ASSUME ControlAssumption ==
  /\ IsFiniteSet(Call)
  /\ Unknown \notin Domain \union Endpoint
  /\ Asked \subseteq Requests
  /\ StartAllow \subseteq Domain
  /\ Faults \subseteq {"disk", "config", "service", "crash"}

NoRequest == [op |-> "none", on |-> Unknown, value |-> "none"]

Begun(c) == pc[c] # "idle"
Active(c) == Begun(c) /\ pc[c] # "answered"

\* What a handler reads for the before and after columns of its row: the agent's
\* domains, the endpoint's override, or the agents with spend.
Snapshot(r) ==
  CASE r.op = "access" -> allow
    [] r.op \in {"pin", "unpin"} -> {override[e] : e \in {r.on} \ {Unknown}}
    [] r.op = "budgets" -> {x \in {"agent"} : spent}

NotAsked == [todo |-> {}, up |-> {}]

Init ==
  /\ allow = StartAllow
  /\ override = [e \in Endpoint |-> "none"]
  /\ spent = TRUE
  /\ up = [e \in Endpoint |-> TRUE]
  /\ audit = <<>>
  /\ pc = [c \in Call |-> "idle"]
  /\ req = [c \in Call |-> NoRequest]
  /\ before = [c \in Call |-> {}] /\ after = [c \in Call |-> {}]
  /\ revived = [c \in Call |-> NotAsked]
  /\ answer = [c \in Call |-> "none"]
  /\ prior = [c \in Call |-> {}]
  /\ crashes = 0

At(c, op, stage) == req[c].op = op /\ pc[c] = stage

Goto(c, stage) ==
  /\ pc' = [pc EXCEPT ![c] = stage]
  /\ UNCHANGED answer

Answer(c, status) ==
  /\ pc' = [pc EXCEPT ![c] = "answered"]
  /\ answer' = [answer EXCEPT ![c] = status]

FirstStage(op) ==
  CASE op \in {"access", "pin", "unpin", "budgets"} -> "before"
    [] op = "inject" -> "send"
    [] op = "activity" -> "audit"
    [] op = "reset" -> "recover"

Begin(c, r) ==
  /\ pc[c] = "idle"
  /\ Goto(c, FirstStage(r.op))
  /\ req' = [req EXCEPT ![c] = r]
  /\ prior' = [prior EXCEPT ![c] = {b \in Call : pc[b] = "answered"}]
  /\ revived' = [revived EXCEPT ![c].todo = IF r.op = "reset" THEN Endpoint ELSE {}]
  /\ UNCHANGED <<engine, up, audit, before, after, crashes>>

-----------------------------------------------------------------------------
(* update_access(), update_health(), clear_health_override(), reset_budgets() *)

ReadBefore(c) ==
  /\ pc[c] = "before"
  /\ before' = [before EXCEPT ![c] = Snapshot(req[c])]
  /\ Goto(c, "change")
  /\ UNCHANGED <<engine, up, audit, call, after, revived, crashes>>

\* The engine raises KeyError for what it does not know.
RejectUnknown(c) ==
  /\ pc[c] = "change" /\ req[c].op # "budgets" /\ req[c].on = Unknown
  /\ Answer(c, "unknown")
  /\ UNCHANGED <<engine, up, audit, call, before, after, revived, crashes>>

\* Mutant: the new list is built from the one read before.
SetAccessFromBefore(c) ==
  /\ At(c, "access", "change") /\ req[c].on # Unknown
  /\ allow' = IF req[c].value = "grant" THEN before[c] \union {req[c].on} ELSE before[c] \ {req[c].on}
  /\ Goto(c, "after")
  /\ UNCHANGED <<override, spent, up, audit, call, before, after, revived, crashes>>

SetAccess(c) ==
  /\ At(c, "access", "change") /\ req[c].on # Unknown
  /\ allow' = IF req[c].value = "grant" THEN allow \union {req[c].on} ELSE allow \ {req[c].on}
  /\ Goto(c, "after")
  /\ UNCHANGED <<override, spent, up, audit, call, before, after, revived, crashes>>

\* Pinning and unpinning do not read again: the row's after is the request.
SetHealth(c) ==
  /\ pc[c] = "change" /\ req[c].op \in {"pin", "unpin"} /\ req[c].on # Unknown
  /\ override' = [override EXCEPT ![req[c].on] = req[c].value]
  /\ after' = [after EXCEPT ![c] = {req[c].value}]
  /\ Goto(c, "audit")
  /\ UNCHANGED <<allow, spent, up, audit, call, before, revived, crashes>>

ResetBudgets(c) ==
  /\ At(c, "budgets", "change")
  /\ spent' = FALSE
  /\ Goto(c, "after")
  /\ UNCHANGED <<allow, override, up, audit, call, before, after, revived, crashes>>

\* Mutant: the row's after is the snapshot taken before.
ReadAfterTooEarly(c) ==
  /\ pc[c] = "after"
  /\ after' = [after EXCEPT ![c] = before[c]]
  /\ Goto(c, "audit")
  /\ UNCHANGED <<engine, up, audit, call, before, revived, crashes>>

ReadAfter(c) ==
  /\ pc[c] = "after"
  /\ after' = [after EXCEPT ![c] = Snapshot(req[c])]
  /\ Goto(c, "audit")
  /\ UNCHANGED <<engine, up, audit, call, before, revived, crashes>>

-----------------------------------------------------------------------------
(* inject_failure(). *)

InjectUnknown(c) ==
  /\ At(c, "inject", "send") /\ req[c].on = Unknown
  /\ Answer(c, "unknown")
  /\ UNCHANGED <<engine, up, audit, call, before, after, revived, crashes>>

Inject(c) ==
  /\ At(c, "inject", "send") /\ req[c].on # Unknown
  /\ up' = [up EXCEPT ![req[c].on] = req[c].value = "recover"]
  /\ Goto(c, "audit")
  /\ UNCHANGED <<engine, audit, call, before, after, revived, crashes>>

\* URLError and OSError become 502, an answer that cannot be read 500; the
\* service may have changed all the same.
InjectFails(c) ==
  /\ "service" \in Faults
  /\ At(c, "inject", "send") /\ req[c].on # Unknown
  /\ \E reached \in BOOLEAN :
       up' = IF reached THEN [up EXCEPT ![req[c].on] = req[c].value = "recover"] ELSE up
  /\ \E status \in {"bad_gateway", "error"} : Answer(c, status)
  /\ UNCHANGED <<engine, audit, call, before, after, revived, crashes>>

-----------------------------------------------------------------------------
(* control_event(): one transaction, for every handler. *)

Record(c) ==
  /\ pc[c] = "audit"
  /\ audit' = Append(audit, c)
  /\ Answer(c, "ok")
  /\ UNCHANGED <<engine, up, call, before, after, revived, crashes>>

DiskFull(c) ==
  /\ "disk" \in Faults
  /\ pc[c] \in {"audit", "clear"}
  /\ Answer(c, "error")
  /\ UNCHANGED <<engine, up, audit, call, before, after, revived, crashes>>

-----------------------------------------------------------------------------
(* reset(). *)

Recover(c, e) ==
  /\ pc[c] = "recover" /\ e \in revived[c].todo
  /\ up' = [up EXCEPT ![e] = TRUE]
  /\ revived' = [revived EXCEPT ![c] = [todo |-> @.todo \ {e}, up |-> @.up \union {e}]]
  /\ UNCHANGED <<engine, audit, pc, call, before, after, answer, crashes>>

\* _recover() returns False, the service recovered or not.
RecoverFails(c, e) ==
  /\ "service" \in Faults
  /\ pc[c] = "recover" /\ e \in revived[c].todo
  /\ \E reached \in BOOLEAN : up' = IF reached THEN [up EXCEPT ![e] = TRUE] ELSE up
  /\ revived' = [revived EXCEPT ![c].todo = @ \ {e}]
  /\ UNCHANGED <<engine, audit, pc, call, before, after, answer, crashes>>

\* An answer that is not HTTP is not an OSError: the handler ends here.
RecoverRaises(c, e) ==
  /\ "service" \in Faults
  /\ pc[c] = "recover" /\ e \in revived[c].todo
  /\ Answer(c, "error")
  /\ UNCHANGED <<engine, up, audit, call, before, after, revived, crashes>>

\* Mutant: overrides survive a reset.
RestoreKeepsOverrides(c) ==
  /\ pc[c] = "recover" /\ revived[c].todo = {}
  /\ allow' = StartAllow /\ spent' = FALSE
  /\ Goto(c, "clear")
  /\ UNCHANGED <<override, up, audit, call, before, after, revived, crashes>>

\* engine.reset(), and the new HealthTracker that nothing here reads.
Restore(c) ==
  /\ pc[c] = "recover" /\ revived[c].todo = {}
  /\ allow' = StartAllow /\ spent' = FALSE
  /\ override' = [e \in Endpoint |-> "none"]
  /\ Goto(c, "clear")
  /\ UNCHANGED <<up, audit, call, before, after, revived, crashes>>

\* reload() cannot read policies.json: it comes last, after the clears.
RestoreHalf(c) ==
  /\ "config" \in Faults
  /\ pc[c] = "recover" /\ revived[c].todo = {}
  /\ spent' = FALSE
  /\ override' = [e \in Endpoint |-> "none"]
  /\ Answer(c, "error")
  /\ UNCHANGED <<allow, up, audit, call, before, after, revived, crashes>>

\* Mutant: clear() deletes dns_events only.
ClearKeepsAudit(c) ==
  /\ pc[c] = "clear"
  /\ Goto(c, "audit")
  /\ UNCHANGED <<engine, up, audit, call, before, after, revived, crashes>>

Clear(c) ==
  /\ pc[c] = "clear"
  /\ audit' = <<>>
  /\ Goto(c, "audit")
  /\ UNCHANGED <<engine, up, call, before, after, revived, crashes>>

-----------------------------------------------------------------------------
\* The process dies and is started again: the engine is built from
\* policies.json, the table and the services are as they were.
Restart ==
  /\ "crash" \in Faults /\ crashes = 0
  /\ crashes' = 1
  /\ allow' = StartAllow /\ spent' = FALSE
  /\ override' = [e \in Endpoint |-> "none"]
  /\ pc' = [c \in Call |-> IF Active(c) THEN "answered" ELSE pc[c]]
  /\ answer' = [c \in Call |-> IF Active(c) THEN "cut" ELSE answer[c]]
  /\ UNCHANGED <<up, audit, call, before, after, revived>>

Handle(c) ==
  \/ ReadBefore(c) \/ RejectUnknown(c) \/ SetAccess(c) \/ SetHealth(c) \/ ResetBudgets(c)
  \/ ReadAfter(c)
  \/ InjectUnknown(c) \/ Inject(c) \/ InjectFails(c)
  \/ Record(c) \/ DiskFull(c)
  \/ \E e \in Endpoint : Recover(c, e) \/ RecoverFails(c, e) \/ RecoverRaises(c, e)
  \/ Restore(c) \/ RestoreHalf(c) \/ Clear(c)

Next ==
  \/ \E c \in Call : (\E r \in Asked : Begin(c, r)) \/ Handle(c)
  \/ Restart

Spec == Init /\ [][Next]_vars

-----------------------------------------------------------------------------
(* Properties. *)

Rows == {audit[i] : i \in DOMAIN audit}
Quiet == \A c \in Call : ~Active(c)

Overlap(b, c) == Begun(b) /\ Begun(c) /\ b \notin prior[c] /\ c \notin prior[b]
MeetsReset(c) == \E b \in Call \ {c} : req[b].op = "reset" /\ Overlap(b, c)

\* What the engine's state deviates by from its start, as the requests that
\* would have it so.
Deviations ==
  {[op |-> "access", on |-> d, value |-> IF d \in allow THEN "grant" ELSE "revoke"] :
       d \in {f \in Domain : f \in allow <=> f \notin StartAllow}}
    \union {[op |-> "pin", on |-> e, value |-> override[e]] :
       e \in {f \in Endpoint : override[f] # "none"}}

\* README.md:227, the trail of "every policy and health change": what is in
\* force and not in policies.json has a row, unless its handler is still to
\* write it, answered 500 because the row could not be written, or ran at the
\* same time as a reset.  A restart leaves no change in force without one.
ChangesAreTraced ==
  \A r \in Deviations : \E c \in Call :
    /\ req[c] = r
    /\ c \in Rows \/ Active(c) \/ answer[c] = "error" \/ MeetsReset(c)

\* Concurrent handlers write their rows in any order, but never let an older
\* request win: once all is quiet, what is in force is what some row says that
\* no other row's request began after.
RowsOn(op, on) == {c \in Rows : req[c].op \in op /\ req[c].on = on}
LastOf(cs) == {c \in cs : \A b \in cs : c \notin prior[b]}

InForceIsALatestRow ==
  Quiet /\ crashes = 0 /\ (\A c \in Call : answer[c] # "error" /\ ~MeetsReset(c)) =>
    /\ \A d \in Domain : RowsOn({"access"}, d) # {} =>
         \E c \in LastOf(RowsOn({"access"}, d)) : req[c].value = "grant" <=> d \in allow
    /\ \A e \in Endpoint : RowsOn({"pin", "unpin"}, e) # {} =>
         \E c \in LastOf(RowsOn({"pin", "unpin"}, e)) : req[c].value = override[e]

\* README.md:334, "including actor and before/after state": the row of a
\* handler that ran alone shows its own change and nothing else.
Changed(r, value) ==
  CASE r.op = "access" -> IF r.value = "grant" THEN value \union {r.on} ELSE value \ {r.on}
    [] r.op \in {"pin", "unpin"} -> {r.value}
    [] r.op = "budgets" -> {}

RowsShowTheChange ==
  \A c \in Rows :
    req[c].op \in {"access", "pin", "unpin", "budgets"} /\ (\A b \in Call \ {c} : ~Overlap(b, c)) =>
      after[c] = Changed(req[c], before[c])

\* README.md:230, "restores the starting policy, revives every mock service and
\* clears both logs": after a reset that ran alone and last, the engine is as
\* configured, the trail is its own row, and what it reports as recovered is up.
ResetRestores ==
  \A c \in Call :
    /\ req[c].op = "reset" /\ answer[c] = "ok" /\ crashes = 0
    /\ \A b \in Call \ {c} : Begun(b) => b \in prior[c]
    => /\ Deviations = {} /\ ~spent
       /\ audit = <<c>>
       /\ \A e \in revived[c].up : up[e]

=============================================================================
