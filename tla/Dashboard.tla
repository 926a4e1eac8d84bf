----------------------------- MODULE Dashboard ------------------------------
(***************************************************************************)
(* dashboard/state.py: the state behind one browser tab.  Its handlers are *)
(* tasks of one event loop.  A background handler holds the tab's lock     *)
(* only inside "async with self", so the others run at each of its awaits; *)
(* refresh, and the last block of run_scenario, keep it while they fetch.  *)
(*                                                                         *)
(* A task is a slot of Task that returns to "idle" when its handler does.  *)
(* The buttons are disabled by the copy of busy the browser was last sent. *)
(* It may lag behind by any delay, so a click may arrive at any time.      *)
(*                                                                         *)
(* The snapshot behind the page is seven reads at seven moments.  `lab` is *)
(* the version of the table behind any one of them, and `page` the version *)
(* that part of the page shows: what holds of it holds of each part, and   *)
(* nothing relates two parts.  What a handler's own calls do to the lab is *)
(* among the changes of `lab`.                                             *)
(***************************************************************************)
EXTENDS Integers, Sequences

CONSTANTS
  Task,        \* slots for the handlers in progress
  Nobody,      \* no task
  Scenario,    \* the catalogue
  Act,         \* what run_stage and run_all run: sequences of scenarios
  Attempts,    \* set_endpoint_failure's looks at the endpoint: 20
  MaxChanges   \* bound on the changes to the lab, for TLC

ASSUME DashboardAssumption ==
  /\ Nobody \notin Task
  /\ Act \subseteq Seq(Scenario)
  /\ \A act \in Act : \A i, j \in DOMAIN act : act[i] = act[j] => i = j   \* the catalogue has no duplicates
  /\ Attempts \in Nat \ {0} /\ MaxChanges \in Nat

VARIABLES
  lock,          \* the task that holds the state's lock across an await
  auto,          \* auto_refresh
  polling, busy,
  verdicts,      \* the scenarios that show a verdict
  page,          \* the version a part of the page shows
  lab,           \* the version of the table behind it
  handler, stage,
  job,           \* the scenarios a task runs
  at,            \* how many it has finished; or looks at an endpoint
  read,          \* what the fetch of a task has returned, if anything
  overrun,       \* history: tasks that overlap because of a reset_demo
  died,          \* history: lab.reset() raised and nobody has cleared busy since
  missed         \* history: a poll returned on account of one about to leave

flagVars == <<polling, missed, busy, died, overrun>>
taskVars == <<handler, stage, job, at, read>>
vars == <<lock, flagVars, verdicts, page, lab, auto, taskVars>>

-----------------------------------------------------------------------------
Unseen == -1
Runs == {"one", "many", "inject", "reset"}

\* The tasks between setting busy and clearing it.
Working == {t \in Task : handler[t] \in Runs /\ stage[t] # "start"}

Init ==
  /\ lock = Nobody /\ auto = TRUE /\ polling = FALSE /\ busy = FALSE
  /\ verdicts = {}
  /\ page = Unseen /\ lab = 0
  /\ LET first == CHOOSE t \in Task : TRUE   \* the state is made for a page load
     IN  /\ handler = [t \in Task |-> IF t = first THEN "refresh" ELSE "idle"]
         /\ stage = [t \in Task |-> IF t = first THEN "start" ELSE "idle"]
  /\ job = [t \in Task |-> <<>>] /\ at = [t \in Task |-> 0] /\ read = [t \in Task |-> Unseen]
  /\ overrun = {} /\ died = FALSE /\ missed = FALSE

-----------------------------------------------------------------------------
(* The user, the browser and the lab. *)

\* An event reaches the server: the handler is about to start in a free slot.
Spawn(t, what, scenarios) ==
  /\ handler[t] = "idle"
  /\ t = CHOOSE u \in Task : handler[u] = "idle"
  /\ handler' = [handler EXCEPT ![t] = what]
  /\ stage' = [stage EXCEPT ![t] = "start"]
  /\ job' = [job EXCEPT ![t] = scenarios]
  /\ UNCHANGED <<lock, flagVars, verdicts, page, lab, at, read>>

ClickOne(t) == (\E s \in Scenario : Spawn(t, "one", <<s>>)) /\ UNCHANGED auto
ClickAct(t) == (\E act \in Act : Spawn(t, "many", act)) /\ UNCHANGED auto
ClickInject(t) == Spawn(t, "inject", <<>>) /\ UNCHANGED auto
ClickReset(t) == Spawn(t, "reset", <<>>) /\ UNCHANGED auto

\* on_load is refresh, then poll.
LoadPage(t) == Spawn(t, "refresh", <<>>) /\ UNCHANGED auto

\* toggle_auto_refresh()
SwitchOn(t) == ~auto /\ auto' = TRUE /\ Spawn(t, "poll", <<>>)
SwitchOff ==
  /\ auto /\ auto' = FALSE
  /\ UNCHANGED <<lock, flagVars, verdicts, page, lab, taskVars>>

Change ==
  /\ lab < MaxChanges /\ lab' = lab + 1
  /\ UNCHANGED <<lock, flagVars, verdicts, page, auto, taskVars>>

-----------------------------------------------------------------------------
(* What the handlers share. *)

Goto(t, s) ==
  /\ stage' = [stage EXCEPT ![t] = s]
  /\ UNCHANGED <<handler, job>>

Return(t) ==
  /\ handler' = [handler EXCEPT ![t] = "idle"]
  /\ stage' = [stage EXCEPT ![t] = "idle"]
  /\ job' = [job EXCEPT ![t] = <<>>]
  /\ at' = [at EXCEPT ![t] = 0]
  /\ read' = [read EXCEPT ![t] = Unseen]
  /\ overrun' = overrun \ {t}

ClearBusy == busy' = FALSE /\ died' = FALSE

\* _fetch() catches whatever is raised and then has nothing to apply.
FetchEnds(t, version) ==
  /\ stage[t] = "fetch"
  /\ read' = [read EXCEPT ![t] = version]
  /\ Goto(t, "apply")
  /\ UNCHANGED <<lock, flagVars, verdicts, page, lab, auto, at>>

FetchAnswered(t) == FetchEnds(t, lab)
FetchFails(t) == FetchEnds(t, Unseen)

\* _apply_snapshot()
Apply(t) ==
  /\ page' = IF read[t] = Unseen THEN page ELSE read[t]
  /\ read' = [read EXCEPT ![t] = Unseen]

\* A task in this stage takes the lock for its next block.
Ready(t, what, s) == handler[t] = what /\ stage[t] = s /\ lock = Nobody

-----------------------------------------------------------------------------
(* refresh() and poll(). *)

RefreshStart(t) ==
  /\ Ready(t, "refresh", "start")
  /\ lock' = t
  /\ Goto(t, "fetch")
  /\ UNCHANGED <<flagVars, verdicts, page, lab, auto, at, read>>

RefreshApply(t) ==
  /\ handler[t] = "refresh" /\ stage[t] = "apply"
  /\ lock' = Nobody
  /\ Apply(t)
  /\ handler' = [handler EXCEPT ![t] = "poll"]
  /\ stage' = [stage EXCEPT ![t] = "start"]
  /\ UNCHANGED <<flagVars, verdicts, lab, auto, job, at>>

Leaving == \E u \in Task : handler[u] = "poll" /\ stage[u] = "leave"

\* Mutant: poll() does not look whether there is a poller already.
PollStartUnchecked(t) ==
  /\ Ready(t, "poll", "start")
  /\ polling' = TRUE /\ missed' = FALSE
  /\ Goto(t, "sleep")
  /\ UNCHANGED <<lock, busy, died, overrun, verdicts, page, lab, auto, at, read>>

PollStart(t) ==
  /\ Ready(t, "poll", "start") /\ ~polling
  /\ polling' = TRUE /\ missed' = FALSE
  /\ Goto(t, "sleep")
  /\ UNCHANGED <<lock, busy, died, overrun, verdicts, page, lab, auto, at, read>>

PollReturns(t) ==
  /\ Ready(t, "poll", "start") /\ polling
  /\ missed' = (missed \/ Leaving)
  /\ Return(t)
  /\ UNCHANGED <<lock, polling, busy, died, verdicts, page, lab, auto>>

\* While the tab is busy the poller goes back to sleep.
PollWake(t) ==
  /\ Ready(t, "poll", "sleep") /\ auto /\ ~busy
  /\ Goto(t, "fetch")
  /\ UNCHANGED <<lock, flagVars, verdicts, page, lab, auto, at, read>>

PollStops(t) ==
  /\ Ready(t, "poll", "sleep") /\ ~auto
  /\ Goto(t, "leave")
  /\ UNCHANGED <<lock, flagVars, verdicts, page, lab, auto, at, read>>

\* Mutant: a refresh that fails ends the poller.
PollApplyOrStop(t) ==
  /\ Ready(t, "poll", "apply")
  /\ Apply(t)
  /\ Goto(t, IF read[t] = Unseen THEN "leave" ELSE "sleep")
  /\ UNCHANGED <<lock, flagVars, verdicts, lab, auto, at>>

PollApply(t) ==
  /\ Ready(t, "poll", "apply")
  /\ Apply(t)
  /\ Goto(t, "sleep")
  /\ UNCHANGED <<lock, flagVars, verdicts, lab, auto, at>>

PollLeave(t) ==
  /\ Ready(t, "poll", "leave")
  /\ polling' = FALSE
  /\ Return(t)
  /\ UNCHANGED <<lock, missed, busy, died, verdicts, page, lab, auto>>

-----------------------------------------------------------------------------
(* The handlers that set busy. *)

\* Mutant: no handler looks at busy.
MayStartAnyway(t) == TRUE

MayStart(t) == ~busy \/ handler[t] = "reset"   \* reset_demo() does not look

Refused(t) ==
  /\ stage[t] = "start" /\ handler[t] \in Runs /\ lock = Nobody /\ ~MayStart(t)
  /\ Return(t)
  /\ UNCHANGED <<lock, polling, missed, busy, died, verdicts, page, lab, auto>>

Start(t, what, s) ==
  /\ Ready(t, what, "start") /\ MayStart(t)
  /\ busy' = TRUE
  /\ overrun' = IF what = "reset" /\ Working # {} THEN overrun \union Working \union {t}
                ELSE IF Working \intersect overrun # {} THEN overrun \union {t}
                ELSE overrun
  /\ Goto(t, s)
  /\ UNCHANGED <<lock, polling, missed, died, page, lab, auto, at, read>>

\* lab.reset() may raise where nobody catches it.
Dies(t) ==
  /\ stage[t] = "lab reset"
  /\ died' = TRUE
  /\ Return(t)
  /\ UNCHANGED <<lock, polling, missed, busy, verdicts, page, lab, auto>>

\* A call to the lab has returned; nothing of the tab's state changes.
Called(t, from, to) ==
  /\ stage[t] = from
  /\ Goto(t, to)
  /\ UNCHANGED <<lock, flagVars, verdicts, page, lab, auto, at, read>>

\* run_scenario()
OneStart(t) == Start(t, "one", "execute") /\ UNCHANGED verdicts

OneExecuted(t) == handler[t] = "one" /\ Called(t, "execute", "finish")

\* Its last block fetches with the lock held, when busy is clear already.
OneFinish(t) ==
  /\ Ready(t, "one", "finish")
  /\ verdicts' = verdicts \union {job[t][1]}
  /\ ClearBusy
  /\ lock' = t
  /\ overrun' = overrun \ {t}
  /\ handler' = [handler EXCEPT ![t] = "closing"]
  /\ stage' = [stage EXCEPT ![t] = "fetch"]
  /\ UNCHANGED <<polling, missed, page, lab, auto, job, at, read>>

OneApply(t) ==
  /\ handler[t] = "closing" /\ stage[t] = "apply"
  /\ lock' = Nobody
  /\ Apply(t)
  /\ Return(t)
  /\ UNCHANGED <<polling, missed, busy, died, verdicts, lab, auto>>

\* _run_many()
Elements(s) == {s[i] : i \in DOMAIN s}

\* Mutant: the verdicts of an earlier run stay.
ManyStartKeeps(t) == Start(t, "many", "lab reset") /\ UNCHANGED verdicts

ManyStart(t) ==
  /\ Start(t, "many", "lab reset")
  /\ verdicts' = verdicts \ Elements(job[t])

ManyReset(t) == handler[t] = "many" /\ Called(t, "lab reset", "next")

ManyNext(t) ==
  /\ Ready(t, "many", "next") /\ at[t] < Len(job[t])
  /\ Goto(t, "execute")
  /\ UNCHANGED <<lock, flagVars, verdicts, page, lab, auto, at, read>>

ManyExecuted(t) == handler[t] = "many" /\ Called(t, "execute", "fetch")

ManyApply(t) ==
  /\ Ready(t, "many", "apply")
  /\ verdicts' = verdicts \union {job[t][at[t] + 1]}
  /\ Apply(t)
  /\ at' = [at EXCEPT ![t] = @ + 1]
  /\ Goto(t, "next")
  /\ UNCHANGED <<lock, flagVars, lab, auto>>

ManyFinish(t) ==
  /\ Ready(t, "many", "next") /\ at[t] = Len(job[t])
  /\ ClearBusy
  /\ Return(t)
  /\ UNCHANGED <<lock, polling, missed, verdicts, page, lab, auto>>

\* set_endpoint_failure(): a call that raises still reaches `finally`.
InjectStart(t) == Start(t, "inject", "inject") /\ UNCHANGED verdicts
Injected(t) == Called(t, "inject", "fetch")
\* Mutant: busy is not cleared in a `finally`.
InjectRaisesThrough(t) ==
  /\ stage[t] = "inject"
  /\ Return(t)
  /\ UNCHANGED <<lock, polling, missed, busy, died, verdicts, page, lab, auto>>

InjectRaises(t) == Called(t, "inject", "finish")

InjectApply(t) ==
  /\ Ready(t, "inject", "apply")
  /\ Apply(t)
  /\ at' = [at EXCEPT ![t] = @ + 1]
  /\ \E matched \in BOOLEAN :
       Goto(t, IF matched \/ at[t] + 1 = Attempts THEN "finish" ELSE "fetch")
  /\ UNCHANGED <<lock, flagVars, verdicts, lab, auto>>

InjectFinish(t) ==
  /\ Ready(t, "inject", "finish")
  /\ ClearBusy
  /\ Return(t)
  /\ UNCHANGED <<lock, polling, missed, verdicts, page, lab, auto>>

\* reset_demo(): without a snapshot, some parts of the page are left empty.
ResetStart(t) == Start(t, "reset", "lab reset") /\ UNCHANGED verdicts
ResetCalled(t) == handler[t] = "reset" /\ Called(t, "lab reset", "fetch")

ResetApply(t) ==
  /\ Ready(t, "reset", "apply")
  /\ verdicts' = {}
  /\ page' \in IF read[t] = Unseen THEN {page, Unseen} ELSE {read[t]}
  /\ ClearBusy
  /\ Return(t)
  /\ UNCHANGED <<lock, polling, missed, lab, auto>>

-----------------------------------------------------------------------------
Click(t) == ClickOne(t) \/ ClickAct(t) \/ ClickInject(t) \/ ClickReset(t)
Browser == (\E t \in Task : Click(t) \/ LoadPage(t) \/ SwitchOn(t)) \/ SwitchOff

Fetch(t) == FetchAnswered(t) \/ FetchFails(t)
Refresh(t) == RefreshStart(t) \/ RefreshApply(t)
Poll(t) == PollStart(t) \/ PollReturns(t) \/ PollWake(t) \/ PollStops(t) \/ PollApply(t) \/ PollLeave(t)
One(t) == OneStart(t) \/ OneExecuted(t) \/ OneFinish(t) \/ OneApply(t)
Many(t) == ManyStart(t) \/ ManyReset(t) \/ ManyNext(t) \/ ManyExecuted(t) \/ ManyApply(t) \/ ManyFinish(t)
Inject(t) == InjectStart(t) \/ Injected(t) \/ InjectRaises(t) \/ InjectApply(t) \/ InjectFinish(t)
ResetDemo(t) == ResetStart(t) \/ ResetCalled(t) \/ ResetApply(t)

Step(t) ==
  Fetch(t) \/ Refresh(t) \/ Poll(t) \/ Refused(t) \/ Dies(t)
  \/ One(t) \/ Many(t) \/ Inject(t) \/ ResetDemo(t)

Next == Browser \/ Change \/ \E t \in Task : Step(t)

\* Every call has a timeout, and the lock is handed over in the order it was
\* asked for, so no handler waits for ever; the control API answers now and then.
Fairness ==
  /\ \A t \in Task : SF_vars(Step(t))
  /\ SF_vars(\E t \in Task : FetchAnswered(t))

Spec == Init /\ [][Next]_vars /\ Fairness

-----------------------------------------------------------------------------
(* Properties. *)

\* busy keeps runs apart: two overlap only when a reset_demo, which does not
\* look at it, began beside one of them; any other is alone, with busy set.
OneRunAtATime ==
  \A t \in Working \ overrun : busy /\ Working = {t}

\* The scoreboard during an act: of the act's scenarios, those show a verdict
\* that this run has finished, and no verdict of an earlier run is among them.
ActShowsItsRun ==
  \A t \in Working \ overrun :
    handler[t] = "many" =>
      \A i \in DOMAIN job[t] : job[t][i] \in verdicts <=> i <= at[t]

Pollers == {t \in Task : handler[t] = "poll" /\ stage[t] # "start"}

\* polling tells whether there is a poller, and there is never a second one,
\* however often the switch is thrown or the page loaded.
OnePoller ==
  /\ polling <=> Pollers # {}
  /\ \A t, u \in Pollers : t = u

\* A handler that set busy clears it, whatever fails in between, unless
\* lab.reset() raises: there state.py has no `finally`.
BusyEnds == busy ~> (~busy \/ died)

\* state.py:98, "Keep the page live while the switch is on": once the tab is left
\* alone the page comes to show every part of the lab as it is, although one
\* refresh may mix versions and a snapshot may be applied after a newer one.
\* It does not when a poll was missed.
PageCatchesUp == <>[](auto /\ ~missed /\ ~busy) => <>[](page = lab)
=============================================================================
