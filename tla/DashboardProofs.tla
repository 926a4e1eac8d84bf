--------------------------- MODULE DashboardProofs --------------------------
(***************************************************************************)
(* Dashboard.tla: for any number of handlers in progress and any acts, two *)
(* runs overlap only on account of a reset_demo, there is one poller       *)
(* exactly as long as polling says so, and the scoreboard of an act shows  *)
(* what its own run has finished.                                          *)
(***************************************************************************)
EXTENDS Dashboard, TLAPS

Handlers == Runs \union {"idle", "refresh", "poll", "closing"}
Stages == {"idle", "start", "sleep", "leave", "fetch", "apply", "execute", "lab reset", "next", "inject", "finish"}

\* What the steps need to know of the tasks.
TasksOK ==
  /\ handler \in [Task -> Handlers] /\ stage \in [Task -> Stages]
  /\ overrun \subseteq Task

IInv == TasksOK /\ OneRunAtATime

-----------------------------------------------------------------------------
\* A step that keeps the running tasks, busy and the overlaps keeps the invariant.
LEMMA Undisturbed ==
  ASSUME IInv, TasksOK', Working' = Working, busy' = busy, overrun' = overrun
  PROVE  IInv'
  BY DEF IInv, OneRunAtATime

\* A handler that goes on to another stage of its run is still running.
LEMMA GoingOn ==
  ASSUME IInv, NEW t \in Task, NEW s \in Stages \ {"start"},
         Goto(t, s), stage[t] # "start", UNCHANGED <<busy, overrun>>
  PROVE  IInv'
<1>1. TasksOK' BY DEF IInv, TasksOK, Goto
<1>2. Working' = Working BY DEF IInv, TasksOK, Goto, Working
<1> QED BY <1>1, <1>2, Undisturbed

\* A poller or a refresh may change stage and even handler.
LEMMA NotARun ==
  ASSUME IInv, NEW t \in Task, NEW h \in Handlers \ Runs, NEW s \in Stages,
         handler[t] \notin Runs,
         handler' = [handler EXCEPT ![t] = h], stage' = [stage EXCEPT ![t] = s],
         UNCHANGED <<busy, overrun>>
  PROVE  IInv'
<1>1. TasksOK' BY DEF IInv, TasksOK
<1>2. Working' = Working BY DEF IInv, TasksOK, Working
<1> QED BY <1>1, <1>2, Undisturbed

\* A handler returns that has not, or not yet, set busy, or leaves it set.
LEMMA Returning ==
  ASSUME IInv, NEW t \in Task, Return(t), busy' = busy
  PROVE  IInv'
<1>1. TasksOK' BY DEF IInv, TasksOK, Return, Handlers, Stages
<1>2. Working' = Working \ {t} BY DEF IInv, TasksOK, Return, Working, Runs
<1>3. overrun' = overrun \ {t} BY DEF Return
<1>4. OneRunAtATime' BY <1>2, <1>3 DEF IInv, OneRunAtATime
<1> QED BY <1>1, <1>4 DEF IInv

\* A run that clears busy leaves no run behind that relies on it.
LEMMA RunEnds ==
  ASSUME IInv, NEW t \in Working,
         Working' = Working \ {t}, overrun' = overrun \ {t}, TasksOK'
  PROVE  IInv'
<1>1. Working' \ overrun' = {}
  <2> SUFFICES ASSUME NEW u \in Working, u # t, u \notin overrun PROVE FALSE
    OBVIOUS
  <2>1. Working = {u} BY DEF IInv, OneRunAtATime
  <2> QED BY <2>1
<1> QED BY <1>1 DEF IInv, OneRunAtATime

LEMMA ReturningIdle ==
  ASSUME IInv, NEW t \in Working, Return(t)
  PROVE  IInv'
<1>1. t \in Task BY DEF Working
<1>2. TasksOK' BY <1>1 DEF IInv, TasksOK, Return, Handlers, Stages
<1>3. Working' = Working \ {t} BY <1>1 DEF IInv, TasksOK, Return, Working, Runs
<1>4. overrun' = overrun \ {t} BY DEF Return
<1> QED BY <1>2, <1>3, <1>4, RunEnds

\* A handler sets busy: alone, or among runs that overlap already, or as the
\* reset that makes them overlap.
LEMMA Starting ==
  ASSUME IInv, NEW t \in Task, NEW what \in Runs, NEW s \in Stages \ {"start"}, Start(t, what, s)
  PROVE  IInv'
<1>1. TasksOK' BY DEF IInv, TasksOK, Start, Goto, Working
<1>2. Working' = Working \union {t}
  BY DEF IInv, TasksOK, Start, Goto, Ready, Working
<1>3. busy' BY DEF Start
<1>4. CASE Working = {}
  <2>1. Working' = {t} BY <1>2, <1>4
  <2> QED BY <1>1, <1>3, <2>1 DEF IInv, OneRunAtATime
<1>5. CASE Working # {} /\ what = "reset"
  <2>1. overrun' = overrun \union Working \union {t} BY <1>5 DEF Start
  <2> QED BY <1>1, <1>2, <2>1 DEF IInv, OneRunAtATime
<1>6. CASE Working # {} /\ what # "reset"
  <2>1. ~busy BY <1>6 DEF Start, MayStart, Ready
  <2>2. Working \ overrun = {} BY <2>1 DEF IInv, OneRunAtATime
  <2>3. Working \intersect overrun # {} BY <2>2, <1>6
  <2>4. overrun' = overrun \union {t} BY <2>3, <1>6 DEF Start
  <2> QED BY <1>1, <1>2, <2>2, <2>4 DEF IInv, OneRunAtATime
<1> QED BY <1>4, <1>5, <1>6

\* An event reaches the server.
LEMMA Spawning ==
  ASSUME IInv, NEW t \in Task, NEW what \in Handlers, NEW scenarios, Spawn(t, what, scenarios)
  PROVE  IInv'
<1>1. TasksOK' BY DEF IInv, TasksOK, Spawn, flagVars, Stages
<1>2. Working' = Working BY DEF IInv, TasksOK, Spawn, Working, Runs
<1>3. busy' = busy /\ overrun' = overrun BY DEF Spawn, flagVars
<1> QED BY <1>1, <1>2, <1>3, Undisturbed

-----------------------------------------------------------------------------
LEMMA Initially == Init => IInv
<1> SUFFICES ASSUME Init PROVE IInv OBVIOUS
<1>1. TasksOK BY DEF Init, TasksOK, Handlers, Stages, Runs
<1>2. Working = {} BY DEF Init, Working, Runs
<1> QED BY <1>1, <1>2 DEF IInv, OneRunAtATime

LEMMA BrowserKeeps == IInv /\ Browser => IInv'
<1> SUFFICES ASSUME IInv, Browser PROVE IInv' OBVIOUS
<1>1. ASSUME NEW t \in Task, Click(t) \/ LoadPage(t) \/ SwitchOn(t) PROVE IInv'
  <2> USE DEF Handlers, Runs
  <2>1. CASE ClickOne(t) BY <2>1, Spawning DEF ClickOne
  <2>2. CASE ClickAct(t) BY <2>2, Spawning DEF ClickAct
  <2>3. CASE ClickInject(t) BY <2>3, Spawning DEF ClickInject
  <2>4. CASE ClickReset(t) BY <2>4, Spawning DEF ClickReset
  <2>5. CASE LoadPage(t) BY <2>5, Spawning DEF LoadPage
  <2>6. CASE SwitchOn(t) BY <2>6, Spawning DEF SwitchOn
  <2> QED BY <1>1, <2>1, <2>2, <2>3, <2>4, <2>5, <2>6 DEF Click
<1>2. CASE SwitchOff
  BY <1>2, Undisturbed DEF SwitchOff, IInv, TasksOK, Working, flagVars, taskVars
<1> QED BY <1>1, <1>2 DEF Browser

LEMMA PollerKeeps ==
  ASSUME IInv, NEW t \in Task, Refresh(t) \/ Poll(t)
  PROVE  IInv'
<1> USE DEF Handlers, Runs, Stages
<1>0. TasksOK BY DEF IInv
<1>1. CASE RefreshStart(t)
  <2>1. handler' = [handler EXCEPT ![t] = "refresh"]
    BY <1>1, <1>0 DEF RefreshStart, Ready, Goto, TasksOK
  <2> QED BY <1>1, <2>1, NotARun DEF RefreshStart, Ready, Goto, flagVars
<1>2. CASE RefreshApply(t)
  BY <1>2, NotARun DEF RefreshApply, flagVars
<1>3. ASSUME NEW s \in Stages, handler[t] = "poll", Goto(t, s), UNCHANGED <<busy, overrun>>
      PROVE  IInv'
  <2>1. handler' = [handler EXCEPT ![t] = "poll"] BY <1>3, <1>0 DEF Goto, TasksOK
  <2> QED BY <1>3, <2>1, NotARun DEF Goto
<1>4. CASE PollStart(t) BY <1>4, <1>3 DEF PollStart, Ready
<1>5. CASE PollReturns(t) BY <1>5, Returning DEF PollReturns
<1>6. CASE PollWake(t) BY <1>6, <1>3 DEF PollWake, Ready, flagVars
<1>7. CASE PollStops(t) BY <1>7, <1>3 DEF PollStops, Ready, flagVars
<1>8. CASE PollApply(t) BY <1>8, <1>3 DEF PollApply, Ready, flagVars
<1>9. CASE PollLeave(t) BY <1>9, Returning DEF PollLeave
<1> QED BY <1>1, <1>2, <1>4, <1>5, <1>6, <1>7, <1>8, <1>9 DEF Refresh, Poll

LEMMA RunKeeps ==
  ASSUME IInv, NEW t \in Task, One(t) \/ Many(t)
  PROVE  IInv'
<1> USE DEF Handlers, Runs, Stages
<1>0. TasksOK BY DEF IInv
<1>1. CASE OneStart(t) BY <1>1, Starting DEF OneStart
<1>2. CASE OneExecuted(t) BY <1>2, GoingOn DEF OneExecuted, Called, flagVars
<1>3. CASE OneFinish(t)
  <2>1. t \in Working BY <1>3 DEF OneFinish, Ready, Working
  <2>2. TasksOK' BY <1>3, <1>0 DEF OneFinish, TasksOK
  <2>3. Working' = Working \ {t} BY <1>3, <1>0 DEF OneFinish, TasksOK, Working
  <2> QED BY <1>3, <2>1, <2>2, <2>3, RunEnds DEF OneFinish
<1>4. CASE OneApply(t) BY <1>4, Returning DEF OneApply
<1>5. CASE ManyStart(t) BY <1>5, Starting DEF ManyStart
<1>6. CASE ManyReset(t) BY <1>6, GoingOn DEF ManyReset, Called, flagVars
<1>7. CASE ManyNext(t) BY <1>7, GoingOn DEF ManyNext, Ready, flagVars
<1>8. CASE ManyExecuted(t) BY <1>8, GoingOn DEF ManyExecuted, Called, flagVars
<1>9. CASE ManyApply(t) BY <1>9, GoingOn DEF ManyApply, Ready, flagVars
<1>10. CASE ManyFinish(t) BY <1>10, ReturningIdle DEF ManyFinish, Ready, Working
<1> QED BY <1>1, <1>2, <1>3, <1>4, <1>5, <1>6, <1>7, <1>8, <1>9, <1>10 DEF One, Many

LEMMA LabCallKeeps ==
  ASSUME IInv, NEW t \in Task, Inject(t) \/ ResetDemo(t)
  PROVE  IInv'
<1> USE DEF Handlers, Runs, Stages
<1>1. CASE InjectStart(t) BY <1>1, Starting DEF InjectStart
<1>2. CASE Injected(t) BY <1>2, GoingOn DEF Injected, Called, flagVars
<1>3. CASE InjectRaises(t) BY <1>3, GoingOn DEF InjectRaises, Called, flagVars
<1>4. CASE InjectApply(t)
  <2>1. PICK s \in {"finish", "fetch"} : Goto(t, s) BY <1>4 DEF InjectApply
  <2> QED BY <1>4, <2>1, GoingOn DEF InjectApply, Ready, flagVars
<1>5. CASE InjectFinish(t) BY <1>5, ReturningIdle DEF InjectFinish, Ready, Working
<1>6. CASE ResetStart(t) BY <1>6, Starting DEF ResetStart
<1>7. CASE ResetCalled(t) BY <1>7, GoingOn DEF ResetCalled, Called, flagVars
<1>8. CASE ResetApply(t) BY <1>8, ReturningIdle DEF ResetApply, Ready, Working
<1> QED BY <1>1, <1>2, <1>3, <1>4, <1>5, <1>6, <1>7, <1>8 DEF Inject, ResetDemo

LEMMA Stepping == IInv /\ [Next]_vars => IInv'
<1> SUFFICES ASSUME IInv, [Next]_vars PROVE IInv' OBVIOUS
<1>1. CASE Browser BY <1>1, BrowserKeeps
<1>2. CASE Change
  BY <1>2, Undisturbed DEF Change, IInv, TasksOK, Working, flagVars, taskVars
<1>3. ASSUME NEW t \in Task, Step(t) PROVE IInv'
  <2>1. CASE Fetch(t)
    BY <2>1, GoingOn DEF Fetch, FetchAnswered, FetchFails, FetchEnds, Stages, flagVars
  <2>2. CASE Refused(t) \/ Dies(t) BY <2>2, Returning DEF Refused, Dies
  <2> QED BY <1>3, <2>1, <2>2, PollerKeeps, RunKeeps, LabCallKeeps DEF Step
<1>4. CASE UNCHANGED vars
  BY <1>4, Undisturbed DEF vars, IInv, TasksOK, Working, flagVars, taskVars
<1> QED BY <1>1, <1>2, <1>3, <1>4 DEF Next

\* state.py:158, 189, 223: whatever is clicked, two runs overlap only when a
\* reset_demo began beside one of them; every other run is alone, with busy set.
THEOREM RunsAreAlone == Spec => []OneRunAtATime
<1>1. IInv => OneRunAtATime BY DEF IInv
<1> QED BY <1>1, Initially, Stepping, PTL DEF Spec

-----------------------------------------------------------------------------
(* The poller.  That a handler returns or goes on without being the poller  *)
(* takes where a poller can stand.                                          *)

PollerStages == \A t \in Pollers : stage[t] \in {"sleep", "fetch", "apply", "leave"}

PInv == PollerStages /\ OnePoller

\* A step of a task that is no poller before and none after.
LEMMA NoPoller ==
  ASSUME PInv, NEW t \in Task, t \notin Pollers,
         \A u \in Task \ {t} : handler'[u] = handler[u] /\ stage'[u] = stage[u],
         handler'[t] = "poll" => stage'[t] = "start",
         polling' = polling
  PROVE  PInv'
<1>1. Pollers' = Pollers BY DEF Pollers
<1>2. \A u \in Pollers : stage'[u] = stage[u] BY DEF Pollers
<1> QED BY <1>1, <1>2 DEF PInv, PollerStages, OnePoller

\* The poller goes on.
LEMMA PollerGoesOn ==
  ASSUME TasksOK, PInv, NEW t \in Pollers, NEW s \in {"sleep", "fetch", "apply", "leave"},
         Goto(t, s), polling' = polling
  PROVE  PInv'
<1>1. t \in Task BY DEF Pollers
<1>2. Pollers' = Pollers BY <1>1 DEF Pollers, Goto, TasksOK
<1>3. \A u \in Pollers : stage'[u] = IF u = t THEN s ELSE stage[u] BY DEF Pollers, Goto, TasksOK
<1> QED BY <1>2, <1>3 DEF PInv, PollerStages, OnePoller

LEMMA PollerBrowser == TasksOK /\ PInv /\ Browser => PInv'
<1> SUFFICES ASSUME TasksOK, PInv, Browser PROVE PInv' OBVIOUS
<1>1. ASSUME NEW t \in Task, NEW what \in Handlers, NEW scenarios, Spawn(t, what, scenarios) PROVE PInv'
  <2>1. t \notin Pollers BY <1>1 DEF Spawn, Pollers
  <2> QED BY <1>1, <2>1, NoPoller DEF Spawn, TasksOK, flagVars
<1>2. ASSUME NEW t \in Task, Click(t) \/ LoadPage(t) \/ SwitchOn(t) PROVE PInv'
  BY <1>1, <1>2 DEF Click, ClickOne, ClickAct, ClickInject, ClickReset, LoadPage, SwitchOn, Handlers, Runs
<1>3. CASE SwitchOff
  BY <1>3 DEF SwitchOff, flagVars, taskVars, PInv, PollerStages, OnePoller, Pollers
<1> QED BY <1>2, <1>3 DEF Browser

LEMMA PollerPolls ==
  ASSUME TasksOK, PInv, NEW t \in Task, Poll(t)
  PROVE  PInv'
<1>1. CASE PollStart(t)
  <2>1. Pollers = {} BY <1>1 DEF PollStart, PInv, OnePoller
  <2>2. Pollers' = {t} BY <1>1, <2>1 DEF PollStart, Ready, Goto, Pollers, TasksOK
  <2>3. stage'[t] = "sleep" BY <1>1 DEF PollStart, Goto, TasksOK
  <2> QED BY <1>1, <2>2, <2>3 DEF PollStart, PInv, PollerStages, OnePoller
<1>2. CASE PollReturns(t)
  <2>1. t \notin Pollers BY <1>2 DEF PollReturns, Ready, Pollers
  <2> QED BY <1>2, <2>1, NoPoller DEF PollReturns, Return, TasksOK
<1>3. CASE PollWake(t)
  <2>1. t \in Pollers BY <1>3 DEF PollWake, Ready, Pollers
  <2> QED BY <1>3, <2>1, PollerGoesOn DEF PollWake, flagVars
<1>4. CASE PollStops(t)
  <2>1. t \in Pollers BY <1>4 DEF PollStops, Ready, Pollers
  <2> QED BY <1>4, <2>1, PollerGoesOn DEF PollStops, flagVars
<1>5. CASE PollApply(t)
  <2>1. t \in Pollers BY <1>5 DEF PollApply, Ready, Pollers
  <2> QED BY <1>5, <2>1, PollerGoesOn DEF PollApply, flagVars
<1>6. CASE PollLeave(t)
  <2>1. t \in Pollers BY <1>6 DEF PollLeave, Ready, Pollers
  <2>2. Pollers = {t} BY <2>1 DEF PInv, OnePoller
  <2>3. Pollers' = {} BY <1>6, <2>2 DEF PollLeave, Return, Pollers, TasksOK
  <2> QED BY <1>6, <2>3 DEF PollLeave, PInv, PollerStages, OnePoller
<1> QED BY <1>1, <1>2, <1>3, <1>4, <1>5, <1>6 DEF Poll

LEMMA PollerStepping == TasksOK /\ PInv /\ [Next]_vars => PInv'
<1> SUFFICES ASSUME TasksOK, PInv, [Next]_vars PROVE PInv' OBVIOUS
<1>1. CASE Change
  BY <1>1 DEF Change, flagVars, taskVars, PInv, PollerStages, OnePoller, Pollers
<1>2. CASE UNCHANGED vars
  BY <1>2 DEF vars, flagVars, taskVars, PInv, PollerStages, OnePoller, Pollers
<1>3. ASSUME NEW t \in Task, Step(t) PROVE PInv'
  <2>1. CASE Fetch(t)
    <3>1. CASE t \in Pollers
      BY <2>1, <3>1, PollerGoesOn DEF Fetch, FetchAnswered, FetchFails, FetchEnds, flagVars
    <3>2. CASE t \notin Pollers
      <4>1. handler[t] # "poll"
        BY <2>1, <3>2 DEF Fetch, FetchAnswered, FetchFails, FetchEnds, Pollers
      <4> QED BY <2>1, <3>2, <4>1, NoPoller
          DEF Fetch, FetchAnswered, FetchFails, FetchEnds, Goto, TasksOK, flagVars
    <3> QED BY <3>1, <3>2
  <2>2. CASE Poll(t) BY <2>2, PollerPolls
  <2>3. ASSUME t \notin Pollers,
               \A u \in Task \ {t} : handler'[u] = handler[u] /\ stage'[u] = stage[u],
               handler'[t] = "poll" => stage'[t] = "start",
               polling' = polling
        PROVE  PInv'
    BY <2>3, NoPoller
  <2>4. CASE Refresh(t)
    BY <2>3, <2>4 DEF Refresh, RefreshStart, RefreshApply, Ready, Goto, TasksOK, flagVars, Pollers
  <2>5. CASE Refused(t) \/ Dies(t)
    BY <2>3, <2>5 DEF Refused, Dies, Return, TasksOK, Pollers, Runs, PInv, PollerStages
  <2>6. CASE One(t)
    BY <2>3, <2>6 DEF One, OneStart, OneExecuted, OneFinish, OneApply, Start, Called, Ready, Goto,
       Return, TasksOK, flagVars, Pollers
  <2>7. CASE Many(t)
    BY <2>3, <2>7 DEF Many, ManyStart, ManyReset, ManyNext, ManyExecuted, ManyApply, ManyFinish,
       Start, Called, Ready, Goto, Return, TasksOK, flagVars, Pollers
  <2>8. CASE Inject(t)
    BY <2>3, <2>8 DEF Inject, InjectStart, Injected, InjectRaises, InjectApply, InjectFinish,
       Start, Called, Ready, Goto, Return, TasksOK, flagVars, Pollers, PInv, PollerStages
  <2>9. CASE ResetDemo(t)
    BY <2>3, <2>9 DEF ResetDemo, ResetStart, ResetCalled, ResetApply,
       Start, Called, Ready, Goto, Return, TasksOK, flagVars, Pollers
  <2> QED BY <1>3, <2>1, <2>2, <2>4, <2>5, <2>6, <2>7, <2>8, <2>9 DEF Step
<1> QED BY <1>1, <1>2, <1>3, PollerBrowser DEF Next

\* state.py:100: however often the switch is thrown and the page loaded, there
\* is never a second poller, and polling is set exactly while there is one.
THEOREM OnePollerAtMost == Spec => []OnePoller
<1>1. Init => PInv
  BY DEF Init, PInv, PollerStages, OnePoller, Pollers
<1>2. IInv => TasksOK BY DEF IInv
<1>3. PInv => OnePoller BY DEF PInv
<1> QED BY <1>1, <1>2, <1>3, Initially, Stepping, PollerStepping, PTL DEF Spec

-----------------------------------------------------------------------------
(* The scoreboard of an act.  A task changes only its own job and counter,  *)
(* and how far it has got fits its stage.                                   *)

ManyStages == {"start", "lab reset", "next", "execute", "fetch", "apply"}

JobOK(t) ==
  /\ handler[t] \notin {"many", "inject"} => at[t] = 0
  /\ stage[t] \in {"start", "lab reset"} => at[t] = 0
  /\ handler[t] = "many" =>
       /\ job[t] \in Act /\ stage[t] \in ManyStages
       /\ at[t] <= Len(job[t])
       /\ stage[t] \in {"execute", "fetch", "apply"} => at[t] < Len(job[t])

JobsOK ==
  /\ job \in [Task -> Seq(Scenario)] /\ at \in [Task -> Nat]
  /\ \A t \in Task : JobOK(t)

Own(t) ==
  \A u \in Task \ {t} :
    handler'[u] = handler[u] /\ stage'[u] = stage[u] /\ job'[u] = job[u] /\ at'[u] = at[u]

\* A step of one task leaves the others' jobs as they are.
LEMMA OwnJob ==
  ASSUME JobsOK, NEW t \in Task, Own(t), job' \in [Task -> Seq(Scenario)], at' \in [Task -> Nat], JobOK(t)'
  PROVE  JobsOK'
  BY DEF JobsOK, Own, JobOK

\* What a handler that goes on, or returns, does to its slot.
LEMMA SlotGoesOn ==
  ASSUME TasksOK, JobsOK, NEW t \in Task, NEW s, Goto(t, s)
  PROVE  /\ handler' = handler /\ job' = job /\ stage'[t] = s
         /\ UNCHANGED at => Own(t)
  BY DEF TasksOK, JobsOK, Goto, Own

LEMMA SlotReturns ==
  ASSUME TasksOK, JobsOK, NEW t \in Task, Return(t)
  PROVE  Own(t) /\ JobsOK'
<1>1. Own(t) BY DEF TasksOK, JobsOK, Return, Own
<1>2. job' \in [Task -> Seq(Scenario)] /\ at' \in [Task -> Nat] BY DEF JobsOK, Return
<1>3. JobOK(t)' BY DEF TasksOK, JobsOK, Return, JobOK
<1> QED BY <1>1, <1>2, <1>3, OwnJob

LEMMA SlotSpawns ==
  ASSUME TasksOK, JobsOK, NEW t \in Task, NEW what \in Handlers, NEW scenarios \in Seq(Scenario),
         Spawn(t, what, scenarios), what = "many" => scenarios \in Act
  PROVE  Own(t) /\ JobsOK'
<1>1. Own(t) BY DEF TasksOK, JobsOK, Spawn, Own
<1>2. job' \in [Task -> Seq(Scenario)] /\ at' \in [Task -> Nat] BY DEF JobsOK, Spawn
<1>3. JobOK(t)'
  <2>1. at'[t] = 0 BY DEF JobsOK, JobOK, Spawn
  <2>2. scenarios \in Seq(Scenario) => 0 <= Len(scenarios) OBVIOUS
  <2> QED BY <2>1, <2>2 DEF TasksOK, JobsOK, Spawn, JobOK, ManyStages
<1> QED BY <1>1, <1>2, <1>3, OwnJob

LEMMA BrowserJobs ==
  ASSUME TasksOK, JobsOK, NEW t \in Task, Click(t) \/ LoadPage(t) \/ SwitchOn(t)
  PROVE  Own(t) /\ JobsOK' /\ verdicts' = verdicts /\ overrun' = overrun /\ stage'[t] = "start"
<1> USE DEF Handlers, Runs
<1>1. ASSUME NEW what \in Handlers, NEW scenarios \in Seq(Scenario),
             Spawn(t, what, scenarios), what = "many" => scenarios \in Act
      PROVE  Own(t) /\ JobsOK' /\ verdicts' = verdicts /\ overrun' = overrun /\ stage'[t] = "start"
  <2>1. Own(t) /\ JobsOK' BY <1>1, SlotSpawns
  <2> QED BY <1>1, <2>1 DEF Spawn, flagVars, TasksOK
<1>2. CASE ClickOne(t)
  <2>1. PICK s \in Scenario : Spawn(t, "one", <<s>>) BY <1>2 DEF ClickOne
  <2>2. <<s>> \in Seq(Scenario) OBVIOUS
  <2> QED BY <1>1, <2>1, <2>2
<1>3. CASE ClickAct(t)
  <2>1. PICK act \in Act : Spawn(t, "many", act) BY <1>3 DEF ClickAct
  <2>2. act \in Seq(Scenario) BY DashboardAssumption DEF DashboardAssumption
  <2> QED BY <1>1, <2>1, <2>2
<1>4. CASE ClickInject(t) \/ ClickReset(t) \/ LoadPage(t) \/ SwitchOn(t)
  <2>1. PICK what \in {"inject", "reset", "refresh", "poll"} : Spawn(t, what, <<>>)
    BY <1>4 DEF ClickInject, ClickReset, LoadPage, SwitchOn
  <2>2. <<>> \in Seq(Scenario) OBVIOUS
  <2> QED BY <1>1, <2>1, <2>2
<1> QED BY <1>2, <1>3, <1>4 DEF Click

\* The steps of one task, and what they do to its job.
LEMMA StepJobs ==
  ASSUME TasksOK, JobsOK, NEW t \in Task, Step(t)
  PROVE  Own(t) /\ JobsOK'
<1> USE DEF flagVars
<1>0. handler \in [Task -> Handlers] /\ stage \in [Task -> Stages]
      /\ job \in [Task -> Seq(Scenario)] /\ at \in [Task -> Nat] /\ JobOK(t)
  BY DEF TasksOK, JobsOK
<1>1. ASSUME NEW s, Goto(t, s), UNCHANGED at,
             s \in {"start", "lab reset"} => at[t] = 0,
             handler[t] = "many" => s \in ManyStages /\ (s \in {"execute", "fetch", "apply"} => at[t] < Len(job[t]))
      PROVE  Own(t) /\ JobsOK'
  <2>1. handler' = handler /\ job' = job /\ stage'[t] = s /\ Own(t) BY <1>1, SlotGoesOn
  <2>2. JobOK(t)' BY <1>0, <1>1, <2>1 DEF JobOK
  <2> QED BY <1>0, <1>1, <2>1, <2>2, OwnJob
<1>2. ASSUME Return(t) PROVE Own(t) /\ JobsOK' BY <1>2, SlotReturns
<1>3. ASSUME NEW h \in {"poll", "closing"}, NEW s \in {"start", "fetch"}, handler[t] \notin {"many", "inject"},
             handler' = [handler EXCEPT ![t] = h], stage' = [stage EXCEPT ![t] = s], UNCHANGED <<job, at>>
      PROVE  Own(t) /\ JobsOK'
  <2>1. Own(t) BY <1>0, <1>3 DEF Own
  <2>2. JobOK(t)' BY <1>0, <1>3 DEF JobOK
  <2> QED BY <1>0, <1>3, <2>1, <2>2, OwnJob
<1>4. ASSUME NEW what \in {"one", "inject", "reset", "many"}, NEW s, Start(t, what, s),
             what = "many" => s = "lab reset"
      PROVE  Own(t) /\ JobsOK'
  <2>1. at[t] = 0 /\ handler[t] = what /\ Goto(t, s) /\ UNCHANGED at BY <1>0, <1>4 DEF Start, Ready, JobOK
  <2> QED BY <1>1, <1>4, <2>1 DEF ManyStages
<1>5. CASE Fetch(t)
  BY <1>0, <1>1, <1>5 DEF Fetch, FetchAnswered, FetchFails, FetchEnds, JobOK, ManyStages
<1>6. CASE Refresh(t)
  <2>1. CASE RefreshStart(t) BY <1>1, <2>1 DEF RefreshStart, Ready
  <2>2. CASE RefreshApply(t) BY <1>3, <2>2 DEF RefreshApply
  <2> QED BY <1>6, <2>1, <2>2 DEF Refresh
<1>7. CASE Poll(t)
  BY <1>1, <1>2, <1>7 DEF Poll, PollStart, PollReturns, PollWake, PollStops, PollApply, PollLeave, Ready
<1>8. CASE Refused(t) \/ Dies(t) BY <1>2, <1>8 DEF Refused, Dies
<1>9. CASE One(t)
  BY <1>1, <1>2, <1>3, <1>4, <1>9 DEF One, OneStart, OneExecuted, OneFinish, OneApply, Called, Ready
<1>10. CASE Many(t)
  <2>1. CASE ManyStart(t) BY <1>4, <2>1 DEF ManyStart
  <2>2. CASE ManyReset(t) BY <1>1, <2>2 DEF ManyReset, Called, ManyStages
  <2>3. CASE ManyNext(t) BY <1>1, <2>3 DEF ManyNext, ManyStages
  <2>4. CASE ManyExecuted(t)
    BY <1>0, <1>1, <2>4 DEF ManyExecuted, Called, ManyStages, JobOK
  <2>5. CASE ManyApply(t)
    <3>1. handler' = handler /\ job' = job /\ stage'[t] = "next"
      BY <2>5, SlotGoesOn DEF ManyApply
    <3>2. Own(t) /\ at' \in [Task -> Nat] /\ at'[t] = at[t] + 1
      BY <1>0, <2>5 DEF ManyApply, Goto, Own
    <3>3. at[t] < Len(job[t]) /\ Len(job[t]) \in Nat
      BY <1>0, <2>5 DEF ManyApply, Ready, JobOK
    <3>4. JobOK(t)' BY <1>0, <2>5, <3>1, <3>2, <3>3 DEF JobOK, ManyStages, ManyApply, Ready
    <3> QED BY <1>0, <3>1, <3>2, <3>4, OwnJob
  <2>6. CASE ManyFinish(t) BY <1>2, <2>6 DEF ManyFinish
  <2> QED BY <1>10, <2>1, <2>2, <2>3, <2>4, <2>5, <2>6 DEF Many
<1>11. CASE Inject(t)
  <2>1. CASE InjectStart(t) BY <1>4, <2>1 DEF InjectStart
  <2>2. CASE Injected(t) \/ InjectRaises(t)
    BY <1>0, <1>1, <2>2 DEF Injected, InjectRaises, Called, JobOK, ManyStages
  <2>3. CASE InjectApply(t)
    <3>1. PICK s \in {"finish", "fetch"} : Goto(t, s) BY <2>3 DEF InjectApply
    <3>2. handler' = handler /\ job' = job /\ stage'[t] = s BY <3>1, SlotGoesOn
    <3>3. Own(t) /\ at' \in [Task -> Nat]
      BY <1>0, <2>3, <3>1 DEF InjectApply, Goto, Own
    <3>4. JobOK(t)' BY <2>3, <3>1, <3>2 DEF InjectApply, Ready, JobOK
    <3> QED BY <1>0, <3>2, <3>3, <3>4, OwnJob
  <2>4. CASE InjectFinish(t) BY <1>2, <2>4 DEF InjectFinish
  <2> QED BY <1>11, <2>1, <2>2, <2>3, <2>4 DEF Inject
<1>12. CASE ResetDemo(t)
  <2>1. CASE ResetStart(t) BY <1>4, <2>1 DEF ResetStart
  <2>2. CASE ResetCalled(t) BY <1>1, <2>2 DEF ResetCalled, Called
  <2>3. CASE ResetApply(t) BY <1>2, <2>3 DEF ResetApply
  <2> QED BY <1>12, <2>1, <2>2, <2>3 DEF ResetDemo
<1> QED BY <1>5, <1>6, <1>7, <1>8, <1>9, <1>10, <1>11, <1>12 DEF Step

\* A run that is alone sees no other task change a verdict.
LEMMA OthersVerdicts ==
  ASSUME IInv, NEW t \in Working \ overrun, NEW u \in Task, u # t, Step(u)
  PROVE  verdicts' = verdicts
<1>1. busy /\ u \notin Working BY DEF IInv, OneRunAtATime
<1> QED
  BY <1>1 DEF Step, Working, Runs, Ready, Fetch, FetchAnswered, FetchFails, FetchEnds, Refresh, RefreshStart,
     RefreshApply, Poll, PollStart, PollReturns, PollWake, PollStops, PollApply, PollLeave, Refused, Dies,
     One, OneStart, OneExecuted, OneFinish, OneApply, Start, MayStart, Called,
     Many, ManyStart, ManyReset, ManyNext, ManyExecuted, ManyApply, ManyFinish,
     Inject, InjectStart, Injected, InjectRaises, InjectApply, InjectFinish,
     ResetDemo, ResetStart, ResetCalled, ResetApply

ShowsRun(t) ==
  t \in Working \ overrun /\ handler[t] = "many" =>
    \A i \in DOMAIN job[t] : job[t][i] \in verdicts <=> i <= at[t]

\* What a task's own step does to its scoreboard: starting wipes the act's
\* verdicts, and each scenario that ends shows its own.
LEMMA OwnScoreboard ==
  ASSUME TasksOK, JobsOK, NEW t \in Task, ShowsRun(t), Step(t)
  PROVE  ShowsRun(t)'
<1> USE DEF flagVars
<1> SUFFICES ASSUME t \in Working', t \notin overrun', handler'[t] = "many"
             PROVE  \A i \in DOMAIN job'[t] : job'[t][i] \in verdicts' <=> i <= at'[t]
  BY DEF ShowsRun
<1>0. handler \in [Task -> Handlers] /\ stage \in [Task -> Stages]
      /\ job \in [Task -> Seq(Scenario)] /\ at \in [Task -> Nat] /\ JobOK(t)
  BY DEF TasksOK, JobsOK
<1>1. stage'[t] # "start" BY DEF Working
<1>2. ASSUME NEW s, Goto(t, s), UNCHANGED at, verdicts' = verdicts, overrun' = overrun, stage[t] # "start"
      PROVE  \A i \in DOMAIN job'[t] : job'[t][i] \in verdicts' <=> i <= at'[t]
  <2>1. handler' = handler /\ job' = job BY <1>2, SlotGoesOn
  <2>2. t \in Working /\ t \notin overrun /\ handler[t] = "many" BY <1>2, <2>1 DEF Working, Runs
  <2> QED BY <1>2, <2>1, <2>2 DEF ShowsRun
<1>3. ~Return(t) BY <1>0 DEF Return
<1>4. handler[t] = "many"
  BY <1>0, <1>1, <1>3 DEF Step, Fetch, FetchAnswered, FetchFails, FetchEnds, Refresh, RefreshStart, RefreshApply,
     Poll, PollStart, PollReturns, PollWake, PollStops, PollApply, PollLeave, Refused, Dies,
     One, OneStart, OneExecuted, OneFinish, OneApply, Start, Ready, Called, Goto,
     Many, ManyStart, ManyReset, ManyNext, ManyExecuted, ManyApply, ManyFinish,
     Inject, InjectStart, Injected, InjectRaises, InjectApply, InjectFinish,
     ResetDemo, ResetStart, ResetCalled, ResetApply
<1>5. Fetch(t) \/ Many(t)
  BY <1>0, <1>3, <1>4 DEF JobOK, ManyStages, Step, Refresh, RefreshStart, RefreshApply,
     Poll, PollStart, PollReturns, PollWake, PollStops, PollApply, PollLeave, Refused, Dies,
     One, OneStart, OneExecuted, OneFinish, OneApply, Start, Ready, Called,
     Inject, InjectStart, Injected, InjectRaises, InjectApply, InjectFinish,
     ResetDemo, ResetStart, ResetCalled, ResetApply
<1>6. job[t] \in Act /\ (\A i, j \in DOMAIN job[t] : job[t][i] = job[t][j] => i = j)
      /\ Len(job[t]) \in Nat /\ DOMAIN job[t] = 1 .. Len(job[t])
  <2>1. job[t] \in Act BY <1>0, <1>4 DEF JobOK
  <2>2. job[t] \in Seq(Scenario) BY <1>0
  <2>3. Len(job[t]) \in Nat /\ DOMAIN job[t] = 1 .. Len(job[t]) BY <2>2
  <2> QED BY <2>1, <2>3, DashboardAssumption DEF DashboardAssumption
<1>7. CASE Fetch(t) BY <1>2, <1>7 DEF Fetch, FetchAnswered, FetchFails, FetchEnds
<1>8. CASE ManyStart(t)
  <2>1. job' = job /\ at'[t] = 0 /\ verdicts' = verdicts \ Elements(job[t])
    BY <1>0, <1>8 DEF ManyStart, Start, Ready, Goto, JobOK
  <2> QED BY <1>6, <2>1 DEF Elements
<1>9. CASE ManyReset(t) BY <1>2, <1>9 DEF ManyReset, Called
<1>10. CASE ManyNext(t) BY <1>2, <1>10 DEF ManyNext, Ready
<1>11. CASE ManyExecuted(t) BY <1>2, <1>11 DEF ManyExecuted, Called
<1>12. CASE ManyApply(t)
  <2>1. job' = job /\ at'[t] = at[t] + 1 /\ verdicts' = verdicts \union {job[t][at[t] + 1]}
    BY <1>0, <1>12 DEF ManyApply, Goto
  <2>2. at[t] + 1 \in DOMAIN job[t]
    BY <1>0, <1>4, <1>6, <1>12 DEF ManyApply, Ready, JobOK
  <2>3. t \in Working /\ t \notin overrun
    BY <1>0, <1>4, <1>12 DEF ManyApply, Ready, Working, Runs
  <2>4. \A i \in DOMAIN job[t] : job[t][i] \in verdicts <=> i <= at[t]
    BY <1>4, <2>3 DEF ShowsRun
  <2>5. \A i \in DOMAIN job[t] : i <= at[t] + 1 <=> i <= at[t] \/ i = at[t] + 1
    BY <1>0, <1>6
  <2> QED BY <1>6, <2>1, <2>2, <2>4, <2>5
<1>13. ~ManyFinish(t) BY <1>3 DEF ManyFinish
<1> QED BY <1>5, <1>7, <1>8, <1>9, <1>10, <1>11, <1>12, <1>13 DEF Many

\* Every step keeps the scoreboard of every act that runs alone.
LEMMA ScoreboardKept == IInv /\ JobsOK /\ ActShowsItsRun /\ [Next]_vars => ActShowsItsRun' /\ JobsOK'
<1> SUFFICES ASSUME IInv, JobsOK, ActShowsItsRun, [Next]_vars PROVE ActShowsItsRun' /\ JobsOK'
  OBVIOUS
<1>0. TasksOK BY DEF IInv
<1>1. \A t \in Task : ShowsRun(t) BY DEF ActShowsItsRun, ShowsRun
<1>2. ASSUME NEW u \in Task, Own(u), overrun \ {u} \subseteq overrun',
             \A t \in (Working \ overrun) \ {u} : verdicts' = verdicts,
             ShowsRun(u)'
      PROVE  ActShowsItsRun'
  <2>1. ASSUME NEW t \in Task PROVE ShowsRun(t)'
    <3>1. CASE t = u BY <1>2, <3>1
    <3>2. CASE t # u
      <4>1. handler'[t] = handler[t] /\ stage'[t] = stage[t] /\ job'[t] = job[t] /\ at'[t] = at[t]
        BY <1>2, <3>2 DEF Own
      <4>2. t \in Working' \ overrun' => t \in Working \ overrun
        BY <1>2, <3>2, <4>1 DEF Working
      <4>3. ShowsRun(t) BY <1>1
      <4>4. t \in Working \ overrun => verdicts' = verdicts BY <1>2, <3>2
      <4>5. CASE t \in Working' \ overrun'
        BY <4>1, <4>2, <4>3, <4>4, <4>5 DEF ShowsRun
      <4>6. CASE t \notin Working' \ overrun' BY <4>6 DEF ShowsRun
      <4> QED BY <4>5, <4>6
    <3> QED BY <3>1, <3>2
  <2> QED BY <2>1 DEF ActShowsItsRun, ShowsRun, Working
<1>3. ASSUME NEW u \in Task, Step(u) PROVE ActShowsItsRun' /\ JobsOK'
  <2>1. Own(u) /\ JobsOK' BY <1>0, <1>3, StepJobs
  <2>2. overrun \ {u} \subseteq overrun'
    BY <1>3 DEF Step, flagVars, Fetch, FetchAnswered, FetchFails, FetchEnds, Refresh, RefreshStart, RefreshApply,
     Poll, PollStart, PollReturns, PollWake, PollStops, PollApply, PollLeave, Refused, Dies, Return,
     One, OneStart, OneExecuted, OneFinish, OneApply, Start, Called,
     Many, ManyStart, ManyReset, ManyNext, ManyExecuted, ManyApply, ManyFinish,
     Inject, InjectStart, Injected, InjectRaises, InjectApply, InjectFinish,
     ResetDemo, ResetStart, ResetCalled, ResetApply
  <2>3. \A t \in (Working \ overrun) \ {u} : verdicts' = verdicts BY <1>3, OthersVerdicts
  <2>4. ShowsRun(u)' BY <1>0, <1>1, <1>3, OwnScoreboard
  <2> QED BY <1>2, <2>1, <2>2, <2>3, <2>4
<1>4. ASSUME UNCHANGED <<taskVars, verdicts, overrun>> PROVE ActShowsItsRun' /\ JobsOK'
  BY <1>4 DEF taskVars, ActShowsItsRun, Working, JobsOK, JobOK
<1>5. CASE Browser
  <2>1. ASSUME NEW u \in Task, Click(u) \/ LoadPage(u) \/ SwitchOn(u) PROVE ActShowsItsRun' /\ JobsOK'
    <3>1. Own(u) /\ JobsOK' /\ verdicts' = verdicts /\ overrun' = overrun /\ stage'[u] = "start"
      BY <1>0, <2>1, BrowserJobs
    <3>2. ShowsRun(u)' BY <3>1 DEF ShowsRun, Working
    <3> QED BY <1>2, <3>1, <3>2
  <2>2. CASE SwitchOff BY <1>4, <2>2 DEF SwitchOff, flagVars
  <2> QED BY <1>5, <2>1, <2>2 DEF Browser
<1>6. CASE Change BY <1>4, <1>6 DEF Change, flagVars
<1>7. CASE UNCHANGED vars BY <1>4, <1>7 DEF vars, flagVars
<1> QED BY <1>3, <1>5, <1>6, <1>7 DEF Next

\* state.py:188-222: of the scenarios of an act that runs alone, those show a
\* verdict that this run has finished: none is left of an earlier run, none is
\* shown before its time, and none that another handler wrote is among them.
THEOREM ScoreboardIsOfThisRun == Spec => []ActShowsItsRun
<1>1. Init => JobsOK
  <2> SUFFICES ASSUME Init PROVE JobsOK OBVIOUS
  <2>1. job \in [Task -> Seq(Scenario)] /\ at \in [Task -> Nat]
    <3>1. <<>> \in Seq(Scenario) OBVIOUS
    <3> QED BY <3>1 DEF Init
  <2>2. \A t \in Task : at[t] = 0 /\ handler[t] # "many" BY DEF Init
  <2>3. \A t \in Task : JobOK(t) BY <2>2 DEF JobOK
  <2> QED BY <2>1, <2>3 DEF JobsOK
<1>2. Init => ActShowsItsRun
  BY DEF Init, ActShowsItsRun, Working, Runs
<1> QED BY <1>1, <1>2, Initially, Stepping, ScoreboardKept, PTL DEF Spec
=============================================================================
