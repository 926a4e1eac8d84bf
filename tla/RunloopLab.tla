------------------------------ MODULE RunloopLab ------------------------------
(***************************************************************************)
(* The command line of the remote lab: scripts/runloop_lab.py over         *)
(* runloop_lab/lab.py and runloop_lab/state.py.                            *)
(*                                                                         *)
(* An operator runs one command after the other.  Each command loads       *)
(* .runloop/lab.json, calls the provider step by step and saves what it    *)
(* has learned.  A call may raise or be interrupted, before or after it    *)
(* took effect; so may a save, which may leave a broken file; a Devbox may *)
(* shut itself down; the operator goes on editing the working tree.        *)
(*                                                                         *)
(* The provider is modelled by what the commands use of it.  logs and      *)
(* status only read and are left out.                                      *)
(***************************************************************************)
EXTENDS Naturals, Sequences, FiniteSets

CONSTANTS
  Devbox,      \* the ids the provider may give
  NoDevbox,    \* None
  Commands,    \* the command lines to consider
  MaxRevision  \* bound on the revisions of the working tree

Flags == {"no-policy", "no-blueprint", "rebuild", "rebuild-images", "snapshot", "keep", "keep-containers"}
Names == {"policy", "blueprint", "up", "redeploy", "demo", "snapshot", "down", "e2e"}

ASSUME LabAssumption ==
  /\ NoDevbox \notin Devbox
  /\ Commands \subseteq [name : Names, target : Devbox \union {NoDevbox}, flags : SUBSET Flags]
  /\ MaxRevision \in Nat \ {0}

VARIABLES
  tree,       \* the revision of the working tree
  blueprint,  \* the revision the blueprint was built from, 0 where there is none
  policy,     \* whether the network policy exists
  box,        \* what each Devbox is
  file,       \* .runloop/lab.json
  phase,      \* "idle", "run" or "clean", the finally of e2e
  cmd,        \* the command that runs
  state,      \* its LabState
  todo,       \* the steps it has still to make
  at,         \* its local variable devbox
  url,        \* its local variable urls: the Devbox they lead to
  raised,     \* whether a step of this phase has raised
  made,       \* history: the Devbox this command has got from create_devbox()
  asked,      \* history: the working tree's revision when it began
  usual       \* history: nothing has happened that loses sight of a Devbox

provider == <<blueprint, policy, box>>
command  == <<cmd, state, todo, at, url, raised, made, asked>>
vars     == <<tree, provider, file, phase, command, usual>>

-----------------------------------------------------------------------------
NoCommand == [name |-> "none", target |-> NoDevbox, flags |-> {}]

\* LabState, as far as a command reads it back.
Blank == [devbox |-> NoDevbox, tunnels |-> NoDevbox, policy |-> FALSE]

\* source: the revision in its working directory; images, runs: the revisions
\* its images were built from and its containers run, 0 where there are none;
\* url: the Devbox whose address its dashboard was given.
Absent == [life |-> "none", source |-> 0, images |-> 0, runs |-> 0, url |-> NoDevbox]
Gone == [Absent EXCEPT !.life = "gone"]
Running(d) == d \in Devbox /\ box[d].life = "running"

Has(flag) == flag \in cmd.flags

UpSteps(flags) ==
  <<"boundary">> \o (IF "no-blueprint" \in flags THEN <<>> ELSE <<"image">>)
                 \o <<"create", "tunnels", "sync", "start">>
DownSteps(flags) ==
  <<"resolve">> \o (IF "keep-containers" \in flags THEN <<>> ELSE <<"stop">>) \o <<"shutdown">>

Steps(c) ==
  CASE c.name = "policy" -> <<"policy">>
    [] c.name = "blueprint" -> <<"boundary", "build">>
    [] c.name = "up" -> UpSteps(c.flags)
    [] c.name = "redeploy" -> <<"resolve", "urls", "sync", "restart">>
    [] c.name = "demo" -> <<"resolve", "demo">>
    [] c.name = "snapshot" -> <<"resolve", "snapshot">>
    [] c.name = "down" -> DownSteps(c.flags)
    [] c.name = "e2e" ->
         (IF "rebuild" \in c.flags THEN <<"boundary", "build">> ELSE <<>>)
         \o UpSteps(c.flags) \o <<"resolve", "demo">>
         \o (IF "snapshot" \in c.flags THEN <<"resolve", "snapshot">> ELSE <<>>)

Init ==
  /\ tree = 1 /\ blueprint = 0 /\ policy = FALSE
  /\ box = [d \in Devbox |-> Absent]
  /\ file = Blank
  /\ phase = "idle" /\ cmd = NoCommand /\ state = Blank /\ todo = <<>>
  /\ at = NoDevbox /\ url = NoDevbox /\ raised = FALSE
  /\ made = NoDevbox /\ asked = 0
  /\ usual = TRUE

-----------------------------------------------------------------------------
(* What happens around the commands. *)

Edit ==
  /\ tree < MaxRevision
  /\ tree' = tree + 1
  /\ UNCHANGED <<provider, file, phase, command, usual>>

\* The keep-alive time of a Devbox is over.
Expire(d) ==
  /\ Running(d)
  /\ box' = [box EXCEPT ![d] = Gone]
  /\ UNCHANGED <<tree, blueprint, policy, file, phase, command, usual>>

\* LabState.load(): a missing or broken file is a blank state.
Begin(c) ==
  /\ phase = "idle"
  /\ phase' = "run" /\ cmd' = c /\ todo' = Steps(c)
  /\ state' = file
  /\ asked' = tree
  /\ usual' = (usual /\ c.target = NoDevbox /\ (c.name \in {"up", "e2e"} => ~Running(file.devbox)))
  /\ UNCHANGED <<tree, provider, file, at, url, raised, made>>

-----------------------------------------------------------------------------
(* The steps of a command. *)

Now(step) == phase # "idle" /\ todo # <<>> /\ Head(todo) = step

\* The call returned: the command goes on.
Proceed ==
  /\ todo' = Tail(todo)
  /\ UNCHANGED <<tree, phase, cmd, raised, asked>>

\* It raised, or the operator interrupted it: the rest is skipped.
Raise ==
  /\ todo' = <<>> /\ raised' = TRUE
  /\ UNCHANGED <<tree, phase, cmd, asked, state, at, url, made, file>>

\* state.save(), the last thing a step does.  write_text() empties lab.json and
\* fills it: where that raises or is interrupted, the file is the old one, the new
\* one, or broken, which load() takes for a blank one.
Save(new) ==
  /\ state' = new
  /\ \/ Proceed /\ file' = new /\ UNCHANGED usual
     \/ /\ todo' = <<>> /\ raised' = TRUE
        /\ file' \in {file, Blank, new}
        /\ usual' = (usual /\ file'.devbox = new.devbox)
        /\ UNCHANGED <<tree, phase, cmd, asked>>

\* ensure_network_policy(): found, updated or created.
Policy ==
  /\ Now("policy")
  /\ \/ policy' = TRUE /\ Save([state EXCEPT !.policy = TRUE]) /\ UNCHANGED <<at, url, made>>
     \/ Raise /\ policy' \in {policy, TRUE} /\ UNCHANGED usual
  /\ UNCHANGED <<blueprint, box>>

\* A recorded policy is taken as it is; nothing is saved yet.
Boundary ==
  /\ Now("boundary")
  /\ \/ /\ Has("no-policy") \/ state.policy
        /\ Proceed /\ UNCHANGED policy
        /\ state' = [state EXCEPT !.policy = ~Has("no-policy")]
        /\ UNCHANGED <<at, url, made, file>>
     \/ /\ ~Has("no-policy") /\ ~state.policy
        /\ \/ Proceed /\ policy' = TRUE
              /\ state' = [state EXCEPT !.policy = TRUE]
              /\ UNCHANGED <<at, url, made, file>>
           \/ Raise /\ policy' \in {policy, TRUE}
  /\ UNCHANGED <<blueprint, box, usual>>

\* build_blueprint(): a blueprint of the working tree as it is now.
Build ==
  /\ Now("build")
  /\ \/ blueprint' = tree /\ Save(state) /\ UNCHANGED <<at, url, made>>
     \/ Raise /\ blueprint' \in {blueprint, tree} /\ UNCHANGED usual
  /\ UNCHANGED <<policy, box>>

\* ensure_blueprint(): one of that name is taken as it is.
Image ==
  /\ Now("image")
  /\ LET built == IF blueprint = 0 THEN tree ELSE blueprint
     IN  \/ blueprint' = built /\ Save(state) /\ UNCHANGED <<at, url, made>>
         \/ Raise /\ blueprint' \in {blueprint, built} /\ UNCHANGED usual
  /\ UNCHANGED <<policy, box>>

Fresh == [Absent EXCEPT !.life = "running",
                        !.source = IF Has("no-blueprint") THEN 0 ELSE blueprint,
                        !.images = IF Has("no-blueprint") THEN 0 ELSE blueprint]

Creates(d) == box[d] = Absent /\ box' = [box EXCEPT ![d] = Fresh]

\* create_devbox() waits until the Devbox runs.  When that wait fails or is
\* interrupted there may be a Devbox, and its id is not known.
Create ==
  /\ Now("create")
  /\ \/ \E d \in Devbox :
          /\ Creates(d)
          /\ Save([state EXCEPT !.devbox = d])
          /\ at' = d /\ made' = d
          /\ UNCHANGED url
     \/ Raise /\ UNCHANGED box /\ UNCHANGED usual
     \/ (\E d \in Devbox : Creates(d)) /\ Raise /\ usual' = FALSE
  /\ UNCHANGED <<blueprint, policy>>

\* tunnel_urls()
Tunnels ==
  /\ Now("tunnels")
  /\ \/ /\ Running(at)
        /\ Save([state EXCEPT !.tunnels = at])
        /\ url' = at
        /\ UNCHANGED <<at, made>>
     \/ Raise /\ UNCHANGED usual
  /\ UNCHANGED provider

\* resolve_devbox(): --devbox-id, else the recorded one, else SystemExit.
Resolve ==
  /\ Now("resolve")
  /\ LET d == IF cmd.target = NoDevbox THEN state.devbox ELSE cmd.target
     IN  \/ d # NoDevbox /\ Proceed /\ at' = d /\ UNCHANGED <<state, url, made, file>>
         \/ d = NoDevbox /\ Raise
  /\ UNCHANGED <<provider, usual>>

\* redeploy: the recorded tunnels, else those of the Devbox.
Urls ==
  /\ Now("urls")
  /\ \/ /\ state.tunnels # NoDevbox \/ Running(at)
        /\ Proceed
        /\ url' = IF state.tunnels # NoDevbox THEN state.tunnels ELSE at
        /\ UNCHANGED <<state, at, made, file>>
     \/ state.tunnels = NoDevbox /\ Raise
  /\ UNCHANGED <<provider, usual>>

\* sync_code(): the tree is packed now, and in place once it is unpacked.
Sync ==
  /\ Now("sync")
  /\ \/ /\ Running(at)
        /\ box' = [box EXCEPT ![at].source = tree]
        /\ \/ Proceed /\ UNCHANGED <<state, at, url, made, file>>
           \/ Raise
     \/ Raise /\ UNCHANGED box
  /\ UNCHANGED <<blueprint, policy, usual>>

\* docker compose up -d, with --build or without: images that are missing are
\* built in any case, and the containers run what the images hold.
Started(d, build) ==
  LET images == IF build \/ box[d].images = 0 THEN box[d].source ELSE box[d].images
  IN  [box EXCEPT ![d].images = images, ![d].runs = images, ![d].url = url]

\* Mutant: a redeploy starts the images that are there.
StartWithoutBuild ==
  \/ Now("start") /\ box' = Started(at, Has("rebuild-images"))
  \/ Now("restart") /\ box' = Started(at, FALSE)

StartLab ==
  \/ Now("start") /\ box' = Started(at, Has("rebuild-images"))
  \/ Now("restart") /\ box' = Started(at, TRUE)

\* start_lab(); it raises after the start too, if the lab does not get ready.
Start ==
  /\ Now("start") \/ Now("restart")
  /\ \/ /\ Running(at) /\ StartLab
        /\ \/ /\ IF Now("restart")
                 THEN Save([state EXCEPT !.tunnels = url])
                 ELSE Proceed /\ UNCHANGED <<state, file, usual>>
              /\ UNCHANGED <<at, url, made>>
           \/ Raise /\ UNCHANGED usual
     \/ Raise /\ UNCHANGED <<box, usual>>
  /\ UNCHANGED <<blueprint, policy>>

\* run_demo() and collect_evidence() leave the lab as it is.
Demo ==
  /\ Now("demo")
  /\ \/ Running(at) /\ Proceed /\ UNCHANGED <<state, at, url, made, file>>
     \/ Raise
  /\ UNCHANGED <<provider, usual>>

Snapshot ==
  /\ Now("snapshot")
  /\ \/ Running(at) /\ Save(state) /\ UNCHANGED <<at, url, made>>
     \/ Raise /\ UNCHANGED usual
  /\ UNCHANGED provider

\* stop_lab(): the exit code of docker compose down does not matter.
Stop ==
  /\ Now("stop")
  /\ \/ /\ Running(at)
        /\ box' = [box EXCEPT ![at].runs = 0]
        /\ \/ Proceed /\ UNCHANGED <<state, at, url, made, file>>
           \/ Raise
     \/ Raise /\ UNCHANGED box
  /\ UNCHANGED <<blueprint, policy, usual>>

\* Mutant: the file is removed before the Devbox is shut down.
ShutdownClearsFirst ==
  /\ Now("shutdown")
  /\ \/ /\ box[at] # Absent /\ box' = [box EXCEPT ![at] = Gone]
        /\ Proceed
     \/ /\ todo' = <<>> /\ raised' = TRUE
        /\ UNCHANGED <<tree, phase, cmd, asked, box>>
  /\ file' = Blank
  /\ UNCHANGED <<state, at, url, made, blueprint, policy, usual>>

\* shutdown() and state.clear(), which removes the file and leaves the
\* command's own LabState as it is.
Shutdown ==
  /\ Now("shutdown")
  /\ \/ /\ box[at] # Absent /\ box' = [box EXCEPT ![at] = Gone]
        /\ \/ Proceed /\ file' = Blank /\ UNCHANGED <<state, at, url, made>>
           \/ Raise
     \/ Raise /\ UNCHANGED box
  /\ UNCHANGED <<blueprint, policy, usual>>

\* Mutant: e2e cleans up after a success only.
CleansUpAfterSuccess ==
  /\ phase = "run" /\ ~raised
  /\ cmd.name = "e2e" /\ ~Has("keep") /\ state.devbox # NoDevbox

\* The finally of e2e shuts down what its state names, whoever created it.
CleansUp ==
  /\ phase = "run"
  /\ cmd.name = "e2e" /\ ~Has("keep") /\ state.devbox # NoDevbox

\* The command, or its clean-up, is through.
Finish ==
  /\ phase # "idle" /\ todo = <<>>
  /\ IF CleansUp
     THEN /\ phase' = "clean" /\ todo' = DownSteps(cmd.flags) /\ raised' = FALSE
          /\ UNCHANGED <<cmd, state, at, url, made, asked>>
     ELSE /\ phase' = "idle" /\ cmd' = NoCommand /\ state' = Blank /\ todo' = <<>>
          /\ at' = NoDevbox /\ url' = NoDevbox /\ raised' = FALSE
          /\ made' = NoDevbox /\ asked' = 0
  /\ UNCHANGED <<tree, provider, file, usual>>

Next ==
  \/ Edit
  \/ \E d \in Devbox : Expire(d)
  \/ \E c \in Commands : Begin(c)
  \/ Policy \/ Boundary \/ Build \/ Image
  \/ Create \/ Tunnels \/ Resolve \/ Urls \/ Sync \/ Start
  \/ Demo \/ Snapshot \/ Stop \/ Shutdown
  \/ Finish

Spec == Init /\ [][Next]_vars

-----------------------------------------------------------------------------
(* Properties. *)

\* state.py:13, "What the last `up` created, so later commands need no
\* arguments": between commands, whichever calls of them failed or were
\* interrupted, every running Devbox is the one lab.json names and `down` ends.
\* Not so once --devbox-id was used, a second Devbox was brought up beside a
\* running one, creating one failed halfway, or a save that was cut short left a
\* lab.json without the Devbox its command knew of.
RunningIsRecorded ==
  usual /\ phase = "idle" => \A d \in Devbox : Running(d) => file.devbox = d

\* docs/runloop.md:114, "always rebuilds the service images so the containers
\* cannot accidentally keep the Blueprint's old application revision": when a
\* redeploy succeeds, the Devbox runs the tree of its beginning or a later one.
\* So it is with --rebuild-images and with no blueprint to start from.
RunsTheTree ==
  /\ cmd.name = "redeploy" \/ (cmd.name = "up" /\ cmd.flags \intersect {"rebuild-images", "no-blueprint"} # {})
  /\ phase = "run" /\ todo = <<>> /\ ~raised
  /\ Running(at)
  => box[at].runs >= asked

\* scripts/runloop_lab.py:295, e2e "and down in one flow": unless told to keep it, e2e
\* does not end with the Devbox it created still running, whichever of its steps
\* failed, if its clean-up went through and was not sent to another one.
E2eEndsItsDevbox ==
  [][phase # "idle" /\ phase' = "idle" /\ cmd.name = "e2e" /\ ~Has("keep") /\ cmd.target = NoDevbox
     /\ made # NoDevbox /\ ~(phase = "clean" /\ raised)
     => box'[made].life # "running"]_vars

=============================================================================
