--------------------------- MODULE RunloopLabProofs ---------------------------
(***************************************************************************)
(* What holds of the lab's commands for any number of Devboxes and any set *)
(* of command lines, whichever calls and saves raise and whatever they     *)
(* leave behind: lab.json names what runs, unless a save was cut short or  *)
(* RunningIsRecorded excepts it otherwise; a redeploy runs the working     *)
(* tree; and e2e ends the Devbox it made.                                  *)
(***************************************************************************)
EXTENDS RunloopLab, TLAPS

DevboxOrNone == Devbox \union {NoDevbox}
Boxes == [life : {"none", "running", "gone"}, source : Nat, images : Nat, runs : Nat, url : DevboxOrNone]
LabStates == [devbox : DevboxOrNone, tunnels : DevboxOrNone, policy : BOOLEAN]

TypeOK ==
  /\ tree \in Nat /\ blueprint \in Nat /\ policy \in BOOLEAN
  /\ box \in [Devbox -> Boxes]
  /\ file \in LabStates /\ state \in LabStates
  /\ phase \in {"idle", "run", "clean"}
  /\ cmd \in [name : Names \union {"none"}, target : DevboxOrNone, flags : SUBSET Flags]
  /\ at \in DevboxOrNone /\ url \in DevboxOrNone /\ made \in DevboxOrNone
  /\ raised \in BOOLEAN /\ asked \in Nat /\ usual \in BOOLEAN

-----------------------------------------------------------------------------
(***************************************************************************)
(* What a command has still to do.  Each shape is kept when a step is      *)
(* done, because it speaks of where a step stands before the end.          *)
(***************************************************************************)
Holds(s, step) == \E i \in 1 .. Len(s) : s[i] = step

DownLike(s) ==
  /\ s \in Seq({"resolve", "stop", "shutdown"})
  /\ \A i \in 1 .. Len(s) : s[i] = "shutdown" <=> i = Len(s)

UpLike(s) ==
  /\ s \in Seq({"boundary", "image", "create", "tunnels", "sync", "start"})
  /\ \A i \in 1 .. Len(s) : /\ s[i] = "start" <=> i = Len(s)
                            /\ s[i] = "sync" <=> i + 1 = Len(s)
                            /\ s[i] = "create" <=> i + 3 = Len(s)

RedeployLike(s) ==
  /\ s \in Seq({"resolve", "urls", "sync", "restart"})
  /\ \A i \in 1 .. Len(s) : /\ s[i] = "restart" <=> i = Len(s)
                            /\ s[i] = "sync" <=> i + 1 = Len(s)

E2eLike(s) ==
  /\ s \in Seq({"boundary", "build", "image", "create", "tunnels", "sync", "start", "resolve", "demo", "snapshot"})
  /\ \A i, j \in 1 .. Len(s) : s[i] = "create" /\ s[j] = "create" => i = j

OtherLike(s) == s \in Seq({"policy", "boundary", "build", "resolve", "demo", "snapshot"})

Like(name, s) ==
  \/ name = "down" /\ DownLike(s)
  \/ name = "up" /\ UpLike(s)
  \/ name = "redeploy" /\ RedeployLike(s)
  \/ name = "e2e" /\ E2eLike(s)
  \/ name \in {"policy", "blueprint", "demo", "snapshot"} /\ OtherLike(s)

Shape ==
  /\ phase = "idle" => todo = <<>>
  /\ phase = "run" => Like(cmd.name, todo)
  /\ phase = "clean" => cmd.name = "e2e" /\ DownLike(todo)

-----------------------------------------------------------------------------
(***************************************************************************)
(* Neither property about the Devbox is inductive: what a command does     *)
(* next depends on its own LabState and its local variables, and they      *)
(* agree with lab.json only as long as it has something left to do.        *)
(***************************************************************************)

\* The Devbox a clean-up ends, or down, is the one the command's state names.
Resolved ==
  cmd.target = NoDevbox /\ (phase = "clean" \/ (phase = "run" /\ cmd.name = "down")) /\ todo # <<>>
  /\ ~Holds(todo, "resolve") => at = state.devbox

MadeIsNamed ==
  /\ phase = "idle" => made = NoDevbox
  /\ made # NoDevbox => state.devbox = made

CleanupGoesThrough ==
  phase = "clean" /\ ~raised /\ cmd.target = NoDevbox /\ made # NoDevbox => todo # <<>> \/ ~Running(made)

E2eInv == Resolved /\ MadeIsNamed /\ CleanupGoesThrough

OneRunning == \A d \in Devbox : Running(d) => file.devbox = d

Recorded ==
  usual =>
    /\ OneRunning
    /\ phase # "idle" => cmd.target = NoDevbox
    /\ Holds(todo, "create") => \A d \in Devbox : ~Running(d)
    /\ phase # "idle" /\ (todo # <<>> \/ (phase = "run" /\ cmd.name = "e2e")) => state.devbox = file.devbox

\* A redeploy, or an up that builds: once the tree is in place the Devbox has it,
\* and once the containers are started they run it.  Without a blueprint there
\* are no images until then.
Rebuilds == cmd.name = "redeploy" \/ (cmd.name = "up" /\ cmd.flags \intersect {"rebuild-images", "no-blueprint"} # {})

HasTheTree ==
  /\ phase # "idle" => asked <= tree
  /\ phase = "run" /\ ~raised /\ Rebuilds /\ Running(at) =>
       /\ Len(todo) < 2 => box[at].source >= asked
       /\ Len(todo) = 0 => box[at].runs >= asked
       /\ cmd.name = "up" /\ "rebuild-images" \notin cmd.flags /\ Len(todo) \in 1 .. 3 => box[at].images = 0

LabInv == TypeOK /\ Shape /\ E2eInv /\ Recorded /\ HasTheTree

-----------------------------------------------------------------------------
(* Sequences of steps. *)

LEMMA TailOf ==
  ASSUME NEW S, NEW s \in Seq(S), s # <<>>
  PROVE  /\ Tail(s) \in Seq(S)
         /\ Len(s) \in Nat /\ Len(s) >= 1 /\ Len(Tail(s)) = Len(s) - 1
         /\ Head(s) = s[1]
         /\ \A i \in 1 .. Len(Tail(s)) : Tail(s)[i] = s[i + 1] /\ i + 1 \in 1 .. Len(s)
  OBVIOUS

\* The next step is one of the steps.
LEMMA HeadIn == ASSUME NEW S, NEW s \in Seq(S), s # <<>> PROVE Head(s) \in S
<1>1. Len(s) \in Nat /\ Len(s) >= 1 /\ Head(s) = s[1]
  BY TailOf
<1>2. 1 \in 1 .. Len(s)
  BY <1>1
<1> QED
  BY <1>1, <1>2

LEMMA Cat ==
  ASSUME NEW S, NEW s \in Seq(S), NEW t \in Seq(S)
  PROVE  /\ s \o t \in Seq(S)
         /\ Len(s \o t) = Len(s) + Len(t)
         /\ \A i \in 1 .. Len(s) : (s \o t)[i] = s[i]
         /\ \A i \in 1 .. Len(t) : (s \o t)[Len(s) + i] = t[i]
         /\ \A i \in 1 .. Len(s \o t) : i \in 1 .. Len(s) \/ (i - Len(s) \in 1 .. Len(t) /\ (s \o t)[i] = t[i - Len(s)])
  OBVIOUS

\* What is empty has every shape.
LEMMA NothingLeft == ASSUME NEW name \in Names PROVE Like(name, <<>>) /\ DownLike(<<>>)
<1>1. Len(<<>>) = 0 /\ \A S : <<>> \in Seq(S)
  OBVIOUS
<1>2. DownLike(<<>>)
  BY <1>1 DEF DownLike
<1>3. UpLike(<<>>)
  BY <1>1 DEF UpLike
<1>4. RedeployLike(<<>>) /\ E2eLike(<<>>) /\ OtherLike(<<>>)
  BY <1>1 DEF RedeployLike, E2eLike, OtherLike
<1> QED
  BY <1>2, <1>3, <1>4 DEF Like, Names

\* A step less to do.
LEMMA OneStepLess ==
  ASSUME NEW s, s # <<>>
  PROVE  /\ DownLike(s) => DownLike(Tail(s))
         /\ \A name : Like(name, s) => Like(name, Tail(s))
<1>1. ASSUME DownLike(s) PROVE DownLike(Tail(s))
  <2>1. s \in Seq({"resolve", "stop", "shutdown"}) /\ \A i \in 1 .. Len(s) : s[i] = "shutdown" <=> i = Len(s)
    BY <1>1 DEF DownLike
  <2>2. ASSUME NEW i \in 1 .. Len(Tail(s)) PROVE Tail(s)[i] = "shutdown" <=> i = Len(Tail(s))
    BY <2>1, TailOf
  <2> QED
    BY <2>1, <2>2, TailOf DEF DownLike
<1>2. ASSUME UpLike(s) PROVE UpLike(Tail(s))
  <2>1. s \in Seq({"boundary", "image", "create", "tunnels", "sync", "start"})
    BY <1>2 DEF UpLike
  <2>2. ASSUME NEW i \in 1 .. Len(Tail(s))
        PROVE  /\ Tail(s)[i] = "start" <=> i = Len(Tail(s))
               /\ Tail(s)[i] = "sync" <=> i + 1 = Len(Tail(s))
               /\ Tail(s)[i] = "create" <=> i + 3 = Len(Tail(s))
    <3>1. /\ i + 1 \in 1 .. Len(s) /\ Tail(s)[i] = s[i + 1]
          /\ Len(s) \in Nat /\ Len(Tail(s)) = Len(s) - 1
      BY <2>1, TailOf
    <3>2. /\ s[i + 1] = "start" <=> i + 1 = Len(s)
          /\ s[i + 1] = "sync" <=> i + 1 + 1 = Len(s)
          /\ s[i + 1] = "create" <=> i + 1 + 3 = Len(s)
      BY <1>2, <3>1 DEF UpLike
    <3>3. /\ i + 1 = Len(s) <=> i = Len(Tail(s))
          /\ i + 1 + 1 = Len(s) <=> i + 1 = Len(Tail(s))
          /\ i + 1 + 3 = Len(s) <=> i + 3 = Len(Tail(s))
      BY <3>1
    <3> QED
      BY <3>1, <3>2, <3>3, Zenon
  <2> QED
    BY <2>1, <2>2, TailOf DEF UpLike
<1>3. ASSUME RedeployLike(s) PROVE RedeployLike(Tail(s))
  <2>1. s \in Seq({"resolve", "urls", "sync", "restart"})
    BY <1>3 DEF RedeployLike
  <2>2. ASSUME NEW i \in 1 .. Len(Tail(s))
        PROVE  /\ Tail(s)[i] = "restart" <=> i = Len(Tail(s))
               /\ Tail(s)[i] = "sync" <=> i + 1 = Len(Tail(s))
    <3>1. /\ i + 1 \in 1 .. Len(s) /\ Tail(s)[i] = s[i + 1]
          /\ Len(s) \in Nat /\ Len(Tail(s)) = Len(s) - 1
      BY <2>1, TailOf
    <3>2. /\ s[i + 1] = "restart" <=> i + 1 = Len(s)
          /\ s[i + 1] = "sync" <=> i + 1 + 1 = Len(s)
      BY <1>3, <3>1 DEF RedeployLike
    <3>3. /\ i + 1 = Len(s) <=> i = Len(Tail(s))
          /\ i + 1 + 1 = Len(s) <=> i + 1 = Len(Tail(s))
      BY <3>1
    <3> QED
      BY <3>1, <3>2, <3>3, Zenon
  <2> QED
    BY <2>1, <2>2, TailOf DEF RedeployLike
<1>4. ASSUME E2eLike(s) PROVE E2eLike(Tail(s))
  <2>1. s \in Seq({"boundary", "build", "image", "create", "tunnels", "sync", "start", "resolve", "demo", "snapshot"})
    BY <1>4 DEF E2eLike
  <2>2. ASSUME NEW i \in 1 .. Len(Tail(s)), NEW j \in 1 .. Len(Tail(s)),
               Tail(s)[i] = "create", Tail(s)[j] = "create"
        PROVE  i = j
    <3>1. /\ i + 1 \in 1 .. Len(s) /\ s[i + 1] = "create"
          /\ j + 1 \in 1 .. Len(s) /\ s[j + 1] = "create"
      BY <2>1, <2>2, TailOf
    <3>2. i + 1 = j + 1
      BY <1>4, <3>1 DEF E2eLike
    <3> QED
      BY <3>2
  <2> QED
    BY <2>1, <2>2, TailOf DEF E2eLike
<1>5. ASSUME OtherLike(s) PROVE OtherLike(Tail(s))
  BY <1>5, TailOf DEF OtherLike
<1> QED
  BY <1>1, <1>2, <1>3, <1>4, <1>5 DEF Like

-----------------------------------------------------------------------------
(* The commands have the shapes. *)

LEMMA DownSteps1 == ASSUME NEW flags PROVE DownLike(DownSteps(flags)) /\ DownSteps(flags) # <<>> /\ Holds(DownSteps(flags), "resolve")
<1> DEFINE S == {"resolve", "stop", "shutdown"}
           r == <<"resolve">>
           m == IF "keep-containers" \in flags THEN <<>> ELSE <<"stop">>
           e == <<"shutdown">>
           rm == r \o m
           s == rm \o e
<1>1. r \in Seq(S) /\ Len(r) = 1 /\ r[1] = "resolve"
  OBVIOUS
<1>2. e \in Seq(S) /\ Len(e) = 1 /\ e[1] = "shutdown"
  OBVIOUS
<1>3. m \in Seq(S) /\ Len(m) \in Nat /\ \A i \in 1 .. Len(m) : m[i] = "stop"
  <2>1. CASE "keep-containers" \in flags
    <3>1. <<>> \in Seq(S) /\ Len(<<>>) = 0
      OBVIOUS
    <3> QED
      BY <2>1, <3>1
  <2>2. CASE "keep-containers" \notin flags
    <3>1. <<"stop">> \in Seq(S) /\ Len(<<"stop">>) = 1 /\ <<"stop">>[1] = "stop"
      OBVIOUS
    <3> QED
      BY <2>2, <3>1
  <2> QED
    BY <2>1, <2>2
<1> HIDE DEF r, m, e
<1>4. /\ rm \in Seq(S) /\ Len(rm) = 1 + Len(m) /\ rm[1] = "resolve"
      /\ \A i \in 1 .. Len(rm) : rm[i] \in {"resolve", "stop"}
  BY <1>1, <1>3, Cat
<1> HIDE DEF rm
<1>5. s \in Seq(S) /\ Len(s) = Len(rm) + 1
  <2>1. s \in Seq(S) /\ Len(s) = Len(rm) + Len(e)
    <3>1. rm \in Seq(S) /\ e \in Seq(S)
      BY <1>2, <1>4
    <3> HIDE DEF S
    <3> QED
      BY <3>1, Cat
  <2> QED
    BY <1>2, <2>1
<1>6. \A i \in 1 .. Len(rm) : s[i] = rm[i]
  BY <1>2, <1>4, Cat
<1>7. s[Len(s)] = "shutdown"
  BY <1>2, <1>4, <1>5, Cat
<1> HIDE DEF s
<1>8. ASSUME NEW i \in 1 .. Len(s) PROVE s[i] = "shutdown" <=> i = Len(s)
  <2>1. CASE i = Len(s)
    BY <1>7, <2>1
  <2>2. CASE i # Len(s)
    <3>1. i \in 1 .. Len(rm)
      BY <1>3, <1>4, <1>5, <2>2
    <3> QED
      BY <1>4, <1>6, <2>2, <3>1
  <2> QED
    BY <2>1, <2>2
<1>9. 1 \in 1 .. Len(s) /\ s[1] = "resolve" /\ s # <<>>
  <2>1. 1 \in 1 .. Len(rm) /\ 1 \in 1 .. Len(s)
    BY <1>3, <1>4, <1>5
  <2>2. s[1] = "resolve"
    BY <1>4, <1>6, <2>1
  <2>3. s # <<>>
    BY <2>1
  <2> QED
    BY <2>1, <2>2, <2>3
<1>10. DownSteps(flags) = s
  BY DEF DownSteps, r, m, e, rm, s
<1> QED
  BY <1>5, <1>8, <1>9, <1>10 DEF DownLike, Holds

LEMMA UpSteps1 ==
  ASSUME NEW flags
  PROVE  UpLike(UpSteps(flags)) /\ Len(UpSteps(flags)) >= 4
<1> DEFINE S == {"boundary", "image", "create", "tunnels", "sync", "start"}
           b == <<"boundary">>
           m == IF "no-blueprint" \in flags THEN <<>> ELSE <<"image">>
           e == <<"create", "tunnels", "sync", "start">>
           l == b \o m
           s == l \o e
<1>1. b \in Seq(S) /\ Len(b) = 1 /\ b[1] = "boundary"
  OBVIOUS
<1>2. e \in Seq(S) /\ Len(e) = 4 /\ e[1] = "create" /\ e[2] = "tunnels" /\ e[3] = "sync" /\ e[4] = "start"
  OBVIOUS
<1>3. m \in Seq(S) /\ Len(m) \in {0, 1} /\ \A i \in 1 .. Len(m) : m[i] = "image"
  <2>1. CASE "no-blueprint" \in flags
    <3>1. <<>> \in Seq(S) /\ Len(<<>>) = 0
      OBVIOUS
    <3> QED
      BY <2>1, <3>1
  <2>2. CASE "no-blueprint" \notin flags
    <3>1. <<"image">> \in Seq(S) /\ Len(<<"image">>) = 1 /\ <<"image">>[1] = "image"
      OBVIOUS
    <3> QED
      BY <2>2, <3>1
  <2> QED
    BY <2>1, <2>2
<1> HIDE DEF b, m, e
<1>4. l \in Seq(S) /\ Len(l) \in {1, 2} /\ \A i \in 1 .. Len(l) : l[i] \in {"boundary", "image"}
  BY <1>1, <1>3, Cat
<1> HIDE DEF l
<1>5. s \in Seq(S) /\ Len(s) = Len(l) + 4
  <2>1. s \in Seq(S) /\ Len(s) = Len(l) + Len(e)
    <3>1. l \in Seq(S) /\ e \in Seq(S)
      BY <1>2, <1>4
    <3> HIDE DEF S
    <3> QED
      BY <3>1, Cat
  <2> QED
    BY <1>2, <2>1
<1>6. \A i \in 1 .. Len(l) : s[i] = l[i]
  BY <1>2, <1>4, Cat
<1>7. \A i \in 1 .. 4 : s[Len(l) + i] = e[i]
  <2>1. \A i \in 1 .. Len(e) : s[Len(l) + i] = e[i]
    <3>1. l \in Seq(S) /\ e \in Seq(S)
      BY <1>2, <1>4
    <3> HIDE DEF S
    <3> QED
      BY <3>1, Cat
  <2> QED
    BY <1>2, <2>1
<1> HIDE DEF s
<1>8. ASSUME NEW i \in 1 .. Len(s)
      PROVE  /\ s[i] = "start" <=> i = Len(s)
             /\ s[i] = "sync" <=> i + 1 = Len(s)
             /\ s[i] = "create" <=> i + 3 = Len(s)
  <2>1. CASE i \in 1 .. Len(l)
    <3>1. s[i] \in {"boundary", "image"} /\ i # Len(s) /\ i + 1 # Len(s) /\ i + 3 # Len(s)
      BY <1>4, <1>5, <1>6, <2>1
    <3> QED
      BY <3>1
  <2>2. CASE i \notin 1 .. Len(l)
    <3>1. \/ i = Len(l) + 1 \/ i = Len(l) + 2 \/ i = Len(l) + 3 \/ i = Len(l) + 4
      BY <1>4, <1>5, <2>2
    <3>2. /\ s[Len(l) + 1] = "create" /\ s[Len(l) + 2] = "tunnels"
          /\ s[Len(l) + 3] = "sync" /\ s[Len(l) + 4] = "start"
      BY <1>2, <1>7
    <3> QED
      BY <1>4, <1>5, <3>1, <3>2
  <2> QED
    BY <2>1, <2>2
<1>9. Len(s) >= 4
  <2>1. Len(l) \in Nat /\ Len(s) = Len(l) + 4
    BY <1>4, <1>5
  <2> QED
    BY <2>1
<1>10. UpSteps(flags) = s
  BY DEF UpSteps, b, m, e, l, s
<1> QED
  BY <1>5, <1>8, <1>9, <1>10 DEF UpLike

\* Steps that do not create add no creation.
LEMMA OnceBefore ==
  ASSUME NEW S, NEW s \in Seq(S), NEW t \in Seq(S),
         \A i, j \in 1 .. Len(s) : s[i] = "create" /\ s[j] = "create" => i = j,
         \A i \in 1 .. Len(t) : t[i] # "create"
  PROVE  /\ s \o t \in Seq(S)
         /\ \A i, j \in 1 .. Len(s \o t) : (s \o t)[i] = "create" /\ (s \o t)[j] = "create" => i = j
<1>1. ASSUME NEW i \in 1 .. Len(s \o t), (s \o t)[i] = "create"
      PROVE  i \in 1 .. Len(s) /\ s[i] = "create"
  <2>1. i \in 1 .. Len(s) \/ (i - Len(s) \in 1 .. Len(t) /\ (s \o t)[i] = t[i - Len(s)])
    BY Cat
  <2>2. i \in 1 .. Len(s)
    BY <1>1, <2>1
  <2>3. (s \o t)[i] = s[i]
    BY <2>2, Cat
  <2> QED
    BY <1>1, <2>2, <2>3
<1>2. s \o t \in Seq(S)
  BY Cat
<1> QED
  BY <1>1, <1>2

\* One Devbox at most is created by an e2e.
LEMMA E2eSteps ==
  ASSUME NEW c, c.name = "e2e" PROVE E2eLike(Steps(c))
<1> DEFINE S == {"boundary", "build", "image", "create", "tunnels", "sync", "start", "resolve", "demo", "snapshot"}
           Others == S \ {"create"}
           b == IF "rebuild" \in c.flags THEN <<"boundary", "build">> ELSE <<>>
           u == UpSteps(c.flags)
           r == <<"resolve", "demo">>
           e == IF "snapshot" \in c.flags THEN <<"resolve", "snapshot">> ELSE <<>>
           bu == b \o u
           bur == bu \o r
           s == bur \o e
<1>1. b \in Seq(S) /\ Len(b) \in Nat /\ \A i \in 1 .. Len(b) : b[i] # "create"
  <2>1. <<"boundary", "build">> \in Seq(Others) /\ <<>> \in Seq(Others)
    OBVIOUS
  <2>2. b \in Seq(Others)
    BY <2>1
  <2> HIDE DEF b
  <2> QED
    BY <2>2
<1>2. r \in Seq(S) /\ Len(r) \in Nat /\ \A i \in 1 .. Len(r) : r[i] # "create"
  <2>1. r \in Seq(Others)
    OBVIOUS
  <2> HIDE DEF r
  <2> QED
    BY <2>1
<1>3. e \in Seq(S) /\ Len(e) \in Nat /\ \A i \in 1 .. Len(e) : e[i] # "create"
  <2>1. <<"resolve", "snapshot">> \in Seq(Others) /\ <<>> \in Seq(Others)
    OBVIOUS
  <2>2. e \in Seq(Others)
    BY <2>1
  <2> HIDE DEF e
  <2> QED
    BY <2>2
<1>4. u \in Seq(S) /\ Len(u) \in Nat /\ \A i, j \in 1 .. Len(u) : u[i] = "create" /\ u[j] = "create" => i = j
  <2>1. UpLike(u)
    BY UpSteps1
  <2> HIDE DEF u
  <2>2. u \in Seq({"boundary", "image", "create", "tunnels", "sync", "start"})
    BY <2>1 DEF UpLike
  <2>3. u \in Seq(S) /\ Len(u) \in Nat
    BY <2>2
  <2>4. ASSUME NEW i \in 1 .. Len(u), NEW j \in 1 .. Len(u), u[i] = "create", u[j] = "create" PROVE i = j
    <3>1. i + 3 = Len(u) /\ j + 3 = Len(u)
      BY <2>1, <2>4 DEF UpLike
    <3> QED
      BY <3>1
  <2> QED
    BY <2>3, <2>4
<1> HIDE DEF S, b, u, r, e
<1>5. bu \in Seq(S) /\ Len(bu) = Len(b) + Len(u)
  BY <1>1, <1>4, Cat
<1>6. \A i, j \in 1 .. Len(bu) : bu[i] = "create" /\ bu[j] = "create" => i = j
  <2>1. ASSUME NEW i \in 1 .. Len(bu), bu[i] = "create"
        PROVE  i - Len(b) \in 1 .. Len(u) /\ u[i - Len(b)] = "create"
    <3>1. i \in 1 .. Len(b) => bu[i] = b[i]
      BY <1>1, <1>4, Cat
    <3>2. i \in 1 .. Len(b) \/ (i - Len(b) \in 1 .. Len(u) /\ bu[i] = u[i - Len(b)])
      BY <1>1, <1>4, Cat
    <3> QED
      BY <1>1, <2>1, <3>1, <3>2
  <2>2. ASSUME NEW i \in 1 .. Len(bu), NEW j \in 1 .. Len(bu), bu[i] = "create", bu[j] = "create" PROVE i = j
    <3>1. i - Len(b) \in 1 .. Len(u) /\ u[i - Len(b)] = "create" /\ j - Len(b) \in 1 .. Len(u) /\ u[j - Len(b)] = "create"
      BY <2>1, <2>2
    <3>2. i - Len(b) = j - Len(b)
      BY <1>4, <3>1
    <3> QED
      BY <1>1, <3>2
  <2> QED
    BY <2>2
<1> HIDE DEF bu
<1>7. bur \in Seq(S) /\ \A i, j \in 1 .. Len(bur) : bur[i] = "create" /\ bur[j] = "create" => i = j
  BY <1>2, <1>5, <1>6, OnceBefore
<1> HIDE DEF bur
<1>8. s \in Seq(S) /\ \A i, j \in 1 .. Len(s) : s[i] = "create" /\ s[j] = "create" => i = j
  BY <1>3, <1>7, OnceBefore
<1>9. Steps(c) = s
  BY DEF Steps, b, u, r, e, bu, bur
<1> QED
  BY <1>8, <1>9 DEF E2eLike, S

LEMMA CommandSteps == ASSUME NEW c, c.name \in Names PROVE Like(c.name, Steps(c))
<1>1. CASE c.name \in {"policy", "blueprint", "demo", "snapshot"}
  <2>1. /\ OtherLike(<<"policy">>) /\ OtherLike(<<"boundary", "build">>)
        /\ OtherLike(<<"resolve", "demo">>) /\ OtherLike(<<"resolve", "snapshot">>)
    BY DEF OtherLike
  <2>2. \/ c.name = "policy" /\ Steps(c) = <<"policy">>
        \/ c.name = "blueprint" /\ Steps(c) = <<"boundary", "build">>
        \/ c.name = "demo" /\ Steps(c) = <<"resolve", "demo">>
        \/ c.name = "snapshot" /\ Steps(c) = <<"resolve", "snapshot">>
    BY <1>1 DEF Steps
  <2> QED
    BY <1>1, <2>1, <2>2 DEF Like
<1>2. CASE c.name = "up"
  <2>1. Steps(c) = UpSteps(c.flags)
    BY <1>2 DEF Steps
  <2> QED
    BY <1>2, <2>1, UpSteps1 DEF Like
<1>3. CASE c.name = "down"
  <2>1. Steps(c) = DownSteps(c.flags)
    BY <1>3 DEF Steps
  <2> QED
    BY <1>3, <2>1, DownSteps1 DEF Like
<1>4. CASE c.name = "redeploy"
  <2> DEFINE s == <<"resolve", "urls", "sync", "restart">>
  <2>1. Steps(c) = s
    BY <1>4 DEF Steps
  <2>2. s \in Seq({"resolve", "urls", "sync", "restart"}) /\ Len(s) = 4
    OBVIOUS
  <2>3. s[1] = "resolve" /\ s[2] = "urls" /\ s[3] = "sync" /\ s[4] = "restart"
    OBVIOUS
  <2> HIDE DEF s
  <2>4. ASSUME NEW i \in 1 .. 4
        PROVE  /\ s[i] = "restart" <=> i = 4
               /\ s[i] = "sync" <=> i + 1 = 4
    <3>1. i = 1 \/ i = 2 \/ i = 3 \/ i = 4
      OBVIOUS
    <3> QED
      BY <2>3, <3>1
  <2>5. RedeployLike(s)
    BY <2>2, <2>4 DEF RedeployLike
  <2> QED
    BY <1>4, <2>1, <2>5 DEF Like
<1>5. CASE c.name = "e2e"
  BY <1>5, E2eSteps DEF Like
<1> QED
  BY <1>1, <1>2, <1>3, <1>4, <1>5 DEF Names

-----------------------------------------------------------------------------
(* What the calls have in common. *)

\* The calls that neither give nor take a Devbox, nor choose one.
QuietCall ==
  \/ Policy \/ Boundary \/ Build \/ Image \/ Tunnels \/ Urls
  \/ Sync \/ Start \/ Demo \/ Snapshot \/ Stop

Call == QuietCall \/ Create \/ Resolve \/ Shutdown

\* A call is the next step of a command, and takes it one step further or ends it.
LEMMA CallFrame ==
  ASSUME Call
  PROVE  /\ phase # "idle" /\ todo # <<>>
         /\ phase' = phase /\ cmd' = cmd /\ tree' = tree /\ asked' = asked
         /\ \/ todo' = Tail(todo) /\ raised' = raised
            \/ todo' = <<>> /\ raised'
<1>1. ASSUME Policy \/ Boundary \/ Build \/ Image \/ Tunnels \/ Urls
      PROVE  phase # "idle" /\ todo # <<>> /\ (Proceed \/ (todo' = <<>> /\ raised' /\ UNCHANGED <<tree, phase, cmd, asked>>))
  BY <1>1 DEF Policy, Boundary, Build, Image, Tunnels, Urls, Now, Raise, Save
<1>2. ASSUME Sync \/ Start \/ Demo \/ Snapshot \/ Stop \/ Create \/ Resolve \/ Shutdown
      PROVE  phase # "idle" /\ todo # <<>> /\ (Proceed \/ (todo' = <<>> /\ raised' /\ UNCHANGED <<tree, phase, cmd, asked>>))
  BY <1>2 DEF Sync, Start, Demo, Snapshot, Stop, Create, Resolve, Shutdown, Now, Raise, Save
<1> QED
  BY <1>1, <1>2 DEF Call, QuietCall, Proceed

\* The states a command saves.
LEMMA SavedStates ==
  ASSUME TypeOK
  PROVE  /\ state \in LabStates
         /\ [state EXCEPT !.policy = TRUE] \in LabStates
         /\ [state EXCEPT !.policy = TRUE].devbox = state.devbox
         /\ \A d \in DevboxOrNone : /\ [state EXCEPT !.tunnels = d] \in LabStates
                                   /\ [state EXCEPT !.tunnels = d].devbox = state.devbox
                                   /\ [state EXCEPT !.devbox = d] \in LabStates
                                   /\ [state EXCEPT !.devbox = d].devbox = d
  BY DEF TypeOK, LabStates

\* A save, whole or cut short: as long as nothing has been lost sight of, the file
\* names the Devbox of the state that was saved.
LEMMA SaveIs ==
  ASSUME TypeOK, NEW new \in LabStates, Save(new)
  PROVE  /\ state' = new /\ file' \in LabStates
         /\ usual' \in BOOLEAN /\ (usual' => usual /\ file'.devbox = new.devbox)
<1>1. file \in LabStates /\ Blank \in LabStates
  BY DEF TypeOK, Blank, LabStates, DevboxOrNone
<1>2. state' = new /\ file' \in {file, Blank, new}
  BY DEF Save
<1>3. CASE file' = new /\ usual' = usual
  BY <1>2, <1>3 DEF TypeOK
<1>4. CASE usual' = (usual /\ file'.devbox = new.devbox)
  <2>1. usual' \in BOOLEAN /\ (usual' => usual /\ file'.devbox = new.devbox)
    BY <1>4, Zenon
  <2> QED
    BY <1>1, <1>2, <2>1
<1> QED
  BY <1>3, <1>4 DEF Save

\* A quiet call knows the same Devboxes as before, and starts none.
LEMMA QuietFrame ==
  ASSUME TypeOK, QuietCall
  PROVE  /\ Head(todo) \notin {"create", "resolve", "shutdown"}
         /\ at' = at /\ made' = made
         /\ state'.devbox = state.devbox
         /\ usual' => usual /\ (file'.devbox = file.devbox \/ file'.devbox = state.devbox)
         /\ \A d \in Devbox : box'[d].life = box[d].life
<1>1. box \in [Devbox -> Boxes] /\ state \in LabStates /\ file \in LabStates /\ at \in DevboxOrNone /\ url \in DevboxOrNone
  BY DEF TypeOK
<1> DEFINE Sight == /\ state'.devbox = state.devbox
                    /\ usual' => usual /\ (file'.devbox = file.devbox \/ file'.devbox = state.devbox)
<1>s. ASSUME NEW new \in LabStates, new.devbox = state.devbox, Save(new) PROVE Sight
  BY <1>s, SaveIs
<1>r. ASSUME Raise, UNCHANGED usual PROVE Sight
  BY <1>r DEF Raise
<1>2. CASE Policy
  <2>1. Sight
    <3> HIDE DEF Sight
    <3>1. Save([state EXCEPT !.policy = TRUE]) \/ (Raise /\ UNCHANGED usual)
      BY <1>2 DEF Policy
    <3> QED
      BY <1>s, <1>r, <3>1, SavedStates
  <2> QED
    BY <1>2, <2>1 DEF Policy, Now, Raise
<1>3. CASE Boundary
  BY <1>1, <1>3 DEF Boundary, Now, Raise, LabStates
<1>4. CASE Build \/ Image \/ Snapshot
  <2>1. Sight
    <3> HIDE DEF Sight
    <3>1. Save(state) \/ (Raise /\ UNCHANGED usual)
      BY <1>4 DEF Build, Image, Snapshot
    <3> QED
      BY <1>1, <1>s, <1>r, <3>1
  <2> QED
    BY <1>4, <2>1 DEF Build, Image, Snapshot, Now, Raise, provider
<1>6. CASE Tunnels
  <2>1. Sight
    <3> HIDE DEF Sight
    <3>1. Save([state EXCEPT !.tunnels = at]) \/ (Raise /\ UNCHANGED usual)
      BY <1>6 DEF Tunnels
    <3> QED
      BY <1>1, <1>s, <1>r, <3>1, SavedStates
  <2> QED
    BY <1>6, <2>1 DEF Tunnels, Now, Raise, provider
<1>7. CASE Urls
  BY <1>1, <1>7 DEF Urls, Now, Raise, provider
<1>8. CASE Sync
  <2>1. \A d \in Devbox : box'[d].life = box[d].life
    BY <1>1, <1>8 DEF Sync, Boxes
  <2> QED
    BY <1>8, <2>1 DEF Sync, Now, Raise
<1>9. CASE Start
  <2>1. ASSUME NEW b PROVE \A d \in Devbox : Started(at, b)[d].life = box[d].life
    BY <1>1 DEF Started, Boxes
  <2>2. \A d \in Devbox : box'[d].life = box[d].life
    BY <1>9, <2>1 DEF Start, StartLab
  <2>3. Sight
    <3> HIDE DEF Sight
    <3>1. \/ Save([state EXCEPT !.tunnels = url])
          \/ Raise /\ UNCHANGED usual
          \/ UNCHANGED <<state, file, usual>>
      BY <1>9 DEF Start
    <3>2. UNCHANGED <<state, file, usual>> => Sight
      BY DEF Sight
    <3> QED
      BY <1>1, <1>s, <1>r, <3>1, <3>2, SavedStates
  <2>4. at' = at /\ made' = made
    BY <1>9 DEF Start, Raise
  <2>5. Head(todo) \notin {"create", "resolve", "shutdown"}
    BY <1>9 DEF Start, Now
  <2> QED
    BY <2>2, <2>3, <2>4, <2>5
<1>10. CASE Demo
  BY <1>1, <1>10 DEF Demo, Now, Raise, provider
<1>12. CASE Stop
  <2>1. \A d \in Devbox : box'[d].life = box[d].life
    BY <1>1, <1>12 DEF Stop, Boxes
  <2> QED
    BY <1>12, <2>1 DEF Stop, Now, Raise
<1> QED
  BY <1>2, <1>3, <1>4, <1>6, <1>7, <1>8, <1>9, <1>10, <1>12 DEF QuietCall

-----------------------------------------------------------------------------
(* Types and shapes. *)

LEMMA TypesInit == Init => TypeOK /\ Shape
<1> SUFFICES ASSUME Init PROVE TypeOK /\ Shape
  OBVIOUS
<1>1. Absent \in Boxes /\ Blank \in LabStates
  BY DEF Absent, Boxes, Blank, LabStates, DevboxOrNone
<1>2. box = [d \in Devbox |-> Absent] /\ file = Blank /\ state = Blank /\ cmd = NoCommand
  BY DEF Init
<1>3. cmd \in [name : Names \union {"none"}, target : DevboxOrNone, flags : SUBSET Flags]
  BY <1>2 DEF DevboxOrNone, NoCommand
<1>4. box \in [Devbox -> Boxes] /\ file \in LabStates /\ state \in LabStates
  BY <1>1, <1>2
<1>5. TypeOK
  BY <1>3, <1>4 DEF Init, TypeOK, DevboxOrNone
<1>6. Shape
  BY DEF Init, Shape
<1> QED
  BY <1>5, <1>6

LEMMA TypesKept == ASSUME TypeOK, [Next]_vars PROVE TypeOK'
<1>1. /\ tree \in Nat /\ blueprint \in Nat /\ policy \in BOOLEAN
      /\ box \in [Devbox -> Boxes] /\ file \in LabStates /\ state \in LabStates
      /\ at \in DevboxOrNone /\ url \in DevboxOrNone /\ made \in DevboxOrNone
      /\ raised \in BOOLEAN /\ asked \in Nat /\ usual \in BOOLEAN
      /\ phase \in {"idle", "run", "clean"}
      /\ cmd \in [name : Names \union {"none"}, target : DevboxOrNone, flags : SUBSET Flags]
  BY DEF TypeOK
<1> DEFINE Kept == /\ phase' = phase /\ cmd' = cmd /\ tree' = tree /\ asked' = asked
<1>2. Absent \in Boxes /\ Gone \in Boxes /\ Blank \in LabStates /\ Fresh \in Boxes
  <2>1. Absent \in Boxes /\ Blank \in LabStates
    BY DEF Absent, Boxes, Blank, LabStates, DevboxOrNone
  <2>2. Gone \in Boxes /\ Fresh \in Boxes
    BY <1>1, <2>1 DEF Gone, Fresh, Boxes
  <2> QED
    BY <2>1, <2>2
<1>3. ASSUME NEW d, NEW build \in BOOLEAN PROVE Started(d, build) \in [Devbox -> Boxes]
  <2> DEFINE images == IF build \/ box[d].images = 0 THEN box[d].source ELSE box[d].images
  <2>1. CASE d \in Devbox
    <3>1. box[d] \in Boxes
      BY <1>1, <2>1
    <3>2. images \in Nat
      BY <3>1 DEF Boxes
    <3> HIDE DEF images
    <3>3. [[[box EXCEPT ![d].images = images] EXCEPT ![d].runs = images] EXCEPT ![d].url = url] \in [Devbox -> Boxes]
      BY <1>1, <3>2 DEF Boxes
    <3>4. Started(d, build) = [[[box EXCEPT ![d].images = images] EXCEPT ![d].runs = images] EXCEPT ![d].url = url]
      BY DEF Started, images
    <3> QED
      BY <3>3, <3>4
  <2>2. CASE d \notin Devbox
    BY <1>1, <2>2 DEF Started
  <2> QED
    BY <2>1, <2>2
<1>4. ASSUME Call PROVE raised' \in BOOLEAN /\ Kept
  <2>1. /\ phase' = phase /\ cmd' = cmd /\ tree' = tree /\ asked' = asked
    BY <1>4, CallFrame
  <2>2. raised' \in BOOLEAN
    <3>1. ASSUME Policy \/ Boundary \/ Build \/ Image \/ Tunnels \/ Urls PROVE raised' = raised \/ raised' = TRUE
      BY <3>1 DEF Policy, Boundary, Build, Image, Tunnels, Urls, Proceed, Raise, Save
    <3>2. ASSUME Sync \/ Start \/ Demo \/ Snapshot \/ Stop \/ Create \/ Resolve \/ Shutdown PROVE raised' = raised \/ raised' = TRUE
      BY <3>2 DEF Sync, Start, Demo, Snapshot, Stop, Create, Resolve, Shutdown, Proceed, Raise, Save
    <3> QED
      BY <1>1, <1>4, <3>1, <3>2 DEF Call, QuietCall
  <2> QED
    BY <2>1, <2>2
<1>5. ASSUME Call PROVE /\ blueprint' \in Nat /\ policy' \in BOOLEAN
  <2>1. ASSUME Policy \/ Boundary \/ Build \/ Image
        PROVE  blueprint' \in Nat /\ (policy' = policy \/ policy' = TRUE)
    BY <1>1, <2>1 DEF Policy, Boundary, Build, Image
  <2>2. ASSUME Tunnels \/ Urls \/ Sync \/ Start \/ Demo \/ Snapshot \/ Stop \/ Create \/ Resolve \/ Shutdown
        PROVE  blueprint' = blueprint /\ policy' = policy
    BY <2>2 DEF Tunnels, Urls, Sync, Start, Demo, Snapshot, Stop, Create, Resolve, Shutdown, provider
  <2> QED
    BY <1>1, <1>5, <2>1, <2>2 DEF Call, QuietCall
<1>6. ASSUME Call PROVE box' \in [Devbox -> Boxes]
  <2>1. ASSUME Policy \/ Boundary \/ Build \/ Image \/ Tunnels \/ Urls \/ Demo \/ Snapshot \/ Resolve PROVE box' = box
    BY <2>1 DEF Policy, Boundary, Build, Image, Tunnels, Urls, Demo, Snapshot, Resolve, provider
  <2>2. CASE Sync
    BY <1>1, <2>2 DEF Sync, Boxes
  <2>3. CASE Start
    <3>1. box' = Started(at, Has("rebuild-images")) \/ box' = Started(at, TRUE) \/ box' = box
      BY <2>3 DEF Start, StartLab
    <3>2. Has("rebuild-images") \in BOOLEAN
      BY DEF Has
    <3>3. Started(at, Has("rebuild-images")) \in [Devbox -> Boxes] /\ Started(at, TRUE) \in [Devbox -> Boxes]
      BY <1>3, <3>2
    <3> QED
      BY <1>1, <3>1, <3>3
  <2>4. CASE Stop
    BY <1>1, <2>4 DEF Stop, Boxes
  <2>5. CASE Create
    BY <1>1, <1>2, <2>5 DEF Create, Creates
  <2>6. CASE Shutdown
    BY <1>1, <1>2, <2>6 DEF Shutdown
  <2> QED
    BY <1>1, <1>6, <2>1, <2>2, <2>3, <2>4, <2>5, <2>6 DEF Call, QuietCall
<1>s. ASSUME NEW new \in LabStates, Save(new) PROVE state' \in LabStates /\ file' \in LabStates /\ usual' \in BOOLEAN
  BY <1>s, SaveIs
<1> DEFINE Typed == state' \in LabStates /\ file' \in LabStates /\ usual' \in BOOLEAN
<1>7. ASSUME Call PROVE Typed
  <2>k. ASSUME UNCHANGED <<state, file, usual>> PROVE Typed
    BY <1>1, <2>k
  <2>r. ASSUME Raise, UNCHANGED usual PROVE Typed
    BY <1>1, <2>r DEF Raise
  <2>s. ASSUME NEW new \in LabStates, Save(new) PROVE Typed
    BY <1>s, <2>s
  <2> HIDE DEF Typed
  <2>1. CASE Policy \/ Build \/ Image \/ Snapshot
    <3>1. Save(state) \/ Save([state EXCEPT !.policy = TRUE]) \/ (Raise /\ UNCHANGED usual)
      BY <2>1 DEF Policy, Build, Image, Snapshot
    <3> QED
      BY <2>r, <2>s, <3>1, SavedStates
  <2>2. CASE Boundary
    BY <1>1, <2>2 DEF Boundary, Raise, LabStates, Typed
  <2>3. CASE Tunnels
    <3>1. Save([state EXCEPT !.tunnels = at]) \/ (Raise /\ UNCHANGED usual)
      BY <2>3 DEF Tunnels
    <3> QED
      BY <1>1, <2>r, <2>s, <3>1, SavedStates
  <2>4. CASE Urls \/ Sync \/ Demo \/ Stop \/ Resolve
    BY <2>4, <2>k DEF Urls, Sync, Demo, Stop, Resolve, Raise
  <2>5. CASE Start
    <3>1. \/ Save([state EXCEPT !.tunnels = url])
          \/ Raise /\ UNCHANGED usual
          \/ UNCHANGED <<state, file, usual>>
      BY <2>5 DEF Start
    <3> QED
      BY <1>1, <2>k, <2>r, <2>s, <3>1, SavedStates
  <2>6. CASE Create
    <3>1. \/ \E d \in Devbox : Save([state EXCEPT !.devbox = d])
          \/ Raise /\ UNCHANGED usual
          \/ Raise /\ usual' = FALSE
      BY <2>6 DEF Create
    <3>2. Raise /\ usual' = FALSE => Typed
      BY <1>1 DEF Raise, Typed
    <3> QED
      BY <2>r, <2>s, <3>1, <3>2, SavedStates DEF DevboxOrNone
  <2>7. CASE Shutdown
    BY <1>1, <1>2, <2>7 DEF Shutdown, Raise, Typed
  <2> QED
    BY <1>7, <2>1, <2>2, <2>3, <2>4, <2>5, <2>6, <2>7 DEF Call, QuietCall
<1>a. ASSUME Call PROVE at' \in DevboxOrNone /\ url' \in DevboxOrNone /\ made' \in DevboxOrNone
  <2>1. CASE Policy \/ Boundary \/ Build \/ Image \/ Snapshot \/ Sync \/ Start \/ Demo \/ Stop \/ Shutdown
    BY <1>1, <2>1 DEF Policy, Boundary, Build, Image, Snapshot, Sync, Start, Demo, Stop, Shutdown, Raise
  <2>2. CASE Tunnels
    BY <1>1, <2>2 DEF Tunnels, Raise
  <2>3. CASE Urls
    BY <1>1, <2>3 DEF Urls, Raise, LabStates
  <2>4. CASE Create
    BY <1>1, <2>4 DEF Create, Raise, DevboxOrNone
  <2>5. CASE Resolve
    BY <1>1, <2>5 DEF Resolve, Raise, LabStates
  <2> QED
    BY <1>a, <2>1, <2>2, <2>3, <2>4, <2>5 DEF Call, QuietCall
<1>8. CASE Call
  BY <1>1, <1>4, <1>5, <1>6, <1>7, <1>8, <1>a DEF TypeOK
<1>9. CASE Edit
  BY <1>1, <1>9 DEF Edit, TypeOK, provider, command
<1>10. CASE \E d \in Devbox : Expire(d)
  BY <1>1, <1>2, <1>10 DEF Expire, TypeOK, command
<1>11. ASSUME NEW c \in Commands, Begin(c) PROVE TypeOK'
  <2>1. c \in [name : Names, target : DevboxOrNone, flags : SUBSET Flags]
    BY LabAssumption DEF LabAssumption, DevboxOrNone
  <2>2. cmd' \in [name : Names \union {"none"}, target : DevboxOrNone, flags : SUBSET Flags]
    BY <1>11, <2>1 DEF Begin
  <2>3. usual' \in BOOLEAN
    BY <1>11 DEF Begin
  <2> QED
    BY <1>1, <1>11, <2>2, <2>3 DEF Begin, TypeOK, provider
<1>12. CASE Finish
  <2>1. NoCommand \in [name : Names \union {"none"}, target : DevboxOrNone, flags : SUBSET Flags] /\ NoDevbox \in DevboxOrNone
    BY DEF NoCommand, DevboxOrNone
  <2>2. CASE CleansUp
    BY <1>1, <1>12, <2>2 DEF Finish, TypeOK, provider
  <2>3. CASE ~CleansUp
    <3>1. /\ phase' = "idle" /\ cmd' = NoCommand /\ state' = Blank
          /\ at' = NoDevbox /\ url' = NoDevbox /\ made' = NoDevbox
          /\ raised' = FALSE /\ asked' = 0
      BY <1>12, <2>3 DEF Finish
    <3>2. UNCHANGED <<tree, blueprint, policy, box, file, usual>>
      BY <1>12 DEF Finish, provider
    <3>3. cmd' \in [name : Names \union {"none"}, target : DevboxOrNone, flags : SUBSET Flags] /\ state' \in LabStates
      BY <1>2, <2>1, <3>1
    <3> QED
      BY <1>1, <2>1, <3>1, <3>2, <3>3 DEF TypeOK
  <2> QED
    BY <2>2, <2>3
<1>13. CASE UNCHANGED vars
  BY <1>1, <1>13 DEF vars, provider, command, TypeOK
<1> QED
  BY <1>8, <1>9, <1>10, <1>11, <1>12, <1>13 DEF Next, Call, QuietCall

LEMMA ShapeKept == ASSUME TypeOK, Shape, [Next]_vars PROVE Shape'
<1>0. phase \in {"idle", "run", "clean"} /\ cmd.name \in Names \union {"none"}
  BY DEF TypeOK
<1>1. CASE Call
  <2>1. /\ phase # "idle" /\ todo # <<>> /\ phase' = phase /\ cmd' = cmd
        /\ todo' = Tail(todo) \/ todo' = <<>>
    BY <1>1, CallFrame
  <2>2. CASE phase = "run"
    <3>1. Like(cmd.name, todo)
      BY <2>2 DEF Shape
    <3>2. cmd.name \in Names
      BY <3>1 DEF Like, Names
    <3>3. Like(cmd.name, todo')
      BY <2>1, <3>1, <3>2, OneStepLess, NothingLeft
    <3> QED
      BY <2>1, <2>2, <3>3 DEF Shape
  <2>3. CASE phase = "clean"
    <3>1. cmd.name = "e2e" /\ DownLike(todo)
      BY <2>3 DEF Shape
    <3>2. DownLike(todo')
      BY <2>1, <3>1, OneStepLess, NothingLeft DEF Names
    <3> QED
      BY <2>1, <2>3, <3>1, <3>2 DEF Shape
  <2> QED
    BY <1>0, <2>1, <2>2, <2>3
<1>2. ASSUME UNCHANGED <<phase, cmd, todo>> PROVE Shape'
  BY <1>2 DEF Shape
<1>3. CASE Edit
  BY <1>2, <1>3 DEF Edit, command
<1>4. CASE \E d \in Devbox : Expire(d)
  BY <1>2, <1>4 DEF Expire, command
<1>5. ASSUME NEW c \in Commands, Begin(c) PROVE Shape'
  <2>1. c.name \in Names
    BY LabAssumption DEF LabAssumption
  <2>2. Like(c.name, Steps(c))
    BY <2>1, CommandSteps
  <2> QED
    BY <1>5, <2>2 DEF Begin, Shape
<1>6. CASE Finish
  <2>1. CASE CleansUp
    <3>1. phase' = "clean" /\ todo' = DownSteps(cmd.flags) /\ cmd' = cmd /\ cmd.name = "e2e"
      BY <1>6, <2>1 DEF Finish, CleansUp
    <3>2. DownLike(todo')
      BY <3>1, DownSteps1
    <3> QED
      BY <3>1, <3>2 DEF Shape
  <2>2. CASE ~CleansUp
    BY <1>6, <2>2 DEF Finish, Shape
  <2> QED
    BY <2>1, <2>2
<1>7. CASE UNCHANGED vars
  BY <1>2, <1>7 DEF vars, command
<1> QED
  BY <1>1, <1>3, <1>4, <1>5, <1>6, <1>7 DEF Next, Call, QuietCall

-----------------------------------------------------------------------------
(* e2e and its Devbox. *)

LEMMA HoldsTail ==
  ASSUME NEW S, NEW s \in Seq(S), s # <<>>, NEW x
  PROVE  Holds(s, x) <=> Head(s) = x \/ Holds(Tail(s), x)
<1>1. Len(s) \in Nat /\ Len(s) >= 1 /\ Len(Tail(s)) = Len(s) - 1 /\ Head(s) = s[1]
  BY TailOf
<1>2. \A i \in 1 .. Len(Tail(s)) : Tail(s)[i] = s[i + 1] /\ i + 1 \in 1 .. Len(s)
  BY TailOf
<1>3. ASSUME Head(s) = x PROVE Holds(s, x)
  <2>1. 1 \in 1 .. Len(s)
    BY <1>1
  <2> QED
    BY <1>1, <1>3, <2>1 DEF Holds
<1>4. ASSUME Holds(Tail(s), x) PROVE Holds(s, x)
  BY <1>2, <1>4 DEF Holds
<1>5. ASSUME Holds(s, x), Head(s) # x PROVE Holds(Tail(s), x)
  <2>1. PICK i \in 1 .. Len(s) : s[i] = x
    BY <1>5 DEF Holds
  <2>2. i # 1
    BY <1>1, <1>5, <2>1
  <2>3. i - 1 \in 1 .. Len(Tail(s)) /\ i - 1 + 1 = i
    BY <1>1, <2>1, <2>2
  <2>4. Tail(s)[i - 1] = x
    BY <1>2, <2>1, <2>3
  <2> QED
    BY <2>3, <2>4 DEF Holds
<1> QED
  BY <1>3, <1>4, <1>5

LEMMA NothingHeld == ASSUME NEW x PROVE ~Holds(<<>>, x)
  BY DEF Holds

\* The shutdown is the last step of what ends in one.
LEMMA ShutdownIsLast ==
  ASSUME NEW s, DownLike(s), s # <<>>
  PROVE  /\ Head(s) \in {"resolve", "stop", "shutdown"}
         /\ Head(s) = "shutdown" <=> Tail(s) = <<>>
<1>1. s \in Seq({"resolve", "stop", "shutdown"})
  BY DEF DownLike
<1>2. /\ Len(s) \in Nat /\ Len(s) >= 1 /\ Len(Tail(s)) = Len(s) - 1 /\ Head(s) = s[1]
      /\ Tail(s) \in Seq({"resolve", "stop", "shutdown"})
  BY <1>1, TailOf
<1>3. 1 \in 1 .. Len(s)
  BY <1>2
<1>4. Head(s) = "shutdown" <=> 1 = Len(s)
  BY <1>2, <1>3 DEF DownLike
<1>5. Tail(s) = <<>> <=> Len(Tail(s)) = 0
  BY <1>2
<1>6. Head(s) \in {"resolve", "stop", "shutdown"}
  BY <1>1, <1>2, <1>3
<1> QED
  BY <1>2, <1>4, <1>5, <1>6

\* The Devbox of a clean-up, or of down, comes with the steps that are left.
LEMMA DownPhase ==
  ASSUME Shape, phase = "clean" \/ (phase = "run" /\ cmd.name = "down")
  PROVE  DownLike(todo)
  BY DEF Shape, Like

LEMMA E2eInit == Init => E2eInv
<1> SUFFICES ASSUME Init PROVE E2eInv
  OBVIOUS
<1>1. phase = "idle" /\ made = NoDevbox /\ todo = <<>>
  BY DEF Init
<1> QED
  BY <1>1 DEF E2eInv, Resolved, MadeIsNamed, CleanupGoesThrough

LEMMA E2eKept == ASSUME TypeOK, Shape, E2eInv, [Next]_vars PROVE E2eInv'
<1>0. Resolved /\ MadeIsNamed /\ CleanupGoesThrough
  BY DEF E2eInv
<1>1. CASE QuietCall
  <2>1. /\ phase # "idle" /\ todo # <<>> /\ phase' = phase /\ cmd' = cmd
        /\ \/ todo' = Tail(todo) /\ raised' = raised
           \/ todo' = <<>> /\ raised'
    BY <1>1, CallFrame DEF Call
  <2>2. /\ Head(todo) \notin {"create", "resolve", "shutdown"}
        /\ at' = at /\ made' = made /\ state'.devbox = state.devbox
        /\ \A d \in Devbox : box'[d].life = box[d].life
    BY <1>1, QuietFrame
  <2>3. Resolved'
    <3> SUFFICES ASSUME cmd.target = NoDevbox, phase = "clean" \/ (phase = "run" /\ cmd.name = "down"),
                        todo' # <<>>, ~Holds(todo', "resolve")
                 PROVE  at = state.devbox
      BY <2>1, <2>2 DEF Resolved
    <3>1. DownLike(todo)
      BY DownPhase
    <3>2. ~Holds(todo, "resolve")
      BY <2>1, <2>2, <3>1, HoldsTail DEF DownLike
    <3> QED
      BY <1>0, <2>1, <3>2 DEF Resolved
  <2>4. MadeIsNamed'
    BY <1>0, <2>1, <2>2 DEF MadeIsNamed
  <2>5. CleanupGoesThrough'
    <3> SUFFICES ASSUME phase = "clean", ~raised' PROVE todo' # <<>>
      BY <2>1 DEF CleanupGoesThrough
    <3>1. DownLike(todo)
      BY DownPhase
    <3> QED
      BY <2>1, <2>2, <3>1, ShutdownIsLast
  <2> QED
    BY <2>3, <2>4, <2>5 DEF E2eInv
<1>2. CASE Create
  <2>1. /\ phase # "idle" /\ todo # <<>> /\ phase' = phase /\ cmd' = cmd
    BY <1>2, CallFrame DEF Call
  <2>2. Head(todo) = "create"
    BY <1>2 DEF Create, Now
  <2>3. ~(phase = "clean" \/ (phase = "run" /\ cmd.name = "down"))
    BY <2>1, <2>2, DownPhase, ShutdownIsLast
  <2>4. Resolved' /\ CleanupGoesThrough'
    BY <2>1, <2>3 DEF Resolved, CleanupGoesThrough
  <2>5. MadeIsNamed'
    <3>1. CASE \E d \in Devbox : made' = d /\ state' = [state EXCEPT !.devbox = d]
      <4>1. state \in LabStates
        BY DEF TypeOK
      <4> QED
        BY <2>1, <3>1, <4>1 DEF MadeIsNamed, LabStates
    <3>2. CASE made' = made /\ state' = state
      BY <1>0, <2>1, <3>2 DEF MadeIsNamed
    <3> QED
      BY <1>2, <3>1, <3>2 DEF Create, Raise, Save
  <2> QED
    BY <2>4, <2>5 DEF E2eInv
<1>3. CASE Resolve
  <2>1. /\ phase # "idle" /\ todo # <<>> /\ phase' = phase /\ cmd' = cmd
        /\ \/ todo' = Tail(todo) /\ raised' = raised
           \/ todo' = <<>> /\ raised'
    BY <1>3, CallFrame DEF Call
  <2>2. Head(todo) = "resolve" /\ made' = made /\ state' = state /\ box' = box
    BY <1>3 DEF Resolve, Now, Raise, provider
  <2>3. cmd.target = NoDevbox => at' = state.devbox \/ todo' = <<>>
    BY <1>3 DEF Resolve, Raise
  <2>4. Resolved'
    BY <2>1, <2>2, <2>3 DEF Resolved
  <2>5. MadeIsNamed'
    BY <1>0, <2>1, <2>2 DEF MadeIsNamed
  <2>6. CleanupGoesThrough'
    <3> SUFFICES ASSUME phase = "clean", ~raised' PROVE todo' # <<>>
      BY <2>1 DEF CleanupGoesThrough
    <3>1. DownLike(todo)
      BY DownPhase
    <3> QED
      BY <2>1, <2>2, <3>1, ShutdownIsLast
  <2> QED
    BY <2>4, <2>5, <2>6 DEF E2eInv
<1>4. CASE Shutdown
  <2>1. /\ phase # "idle" /\ todo # <<>> /\ phase' = phase /\ cmd' = cmd
        /\ \/ todo' = Tail(todo) /\ raised' = raised
           \/ todo' = <<>> /\ raised'
    BY <1>4, CallFrame DEF Call
  <2>2. Head(todo) = "shutdown" /\ made' = made /\ state' = state /\ at' = at
    BY <1>4 DEF Shutdown, Now, Raise
  <2>3. MadeIsNamed'
    BY <1>0, <2>1, <2>2 DEF MadeIsNamed
  <2>4. phase = "clean" \/ (phase = "run" /\ cmd.name = "down") => todo' = <<>>
    BY <2>1, <2>2, DownPhase, ShutdownIsLast
  <2>5. Resolved'
    BY <2>1, <2>4 DEF Resolved
  <2>6. CleanupGoesThrough'
    <3> SUFFICES ASSUME phase = "clean", ~raised', cmd.target = NoDevbox, made # NoDevbox PROVE ~Running(made)'
      BY <2>1, <2>2 DEF CleanupGoesThrough
    <3>1. DownLike(todo)
      BY DownPhase
    <3>2. ~Holds(todo, "resolve")
      <4>1. Tail(todo) = <<>> /\ todo \in Seq({"resolve", "stop", "shutdown"})
        BY <2>1, <2>2, <3>1, ShutdownIsLast DEF DownLike
      <4>2. Holds(todo, "resolve") <=> Head(todo) = "resolve" \/ Holds(Tail(todo), "resolve")
        BY <2>1, <4>1, HoldsTail
      <4> QED
        BY <2>2, <4>1, <4>2, NothingHeld
    <3>3. at = made
      BY <1>0, <2>1, <3>2 DEF Resolved, MadeIsNamed
    <3>4. box' = [box EXCEPT ![at] = Gone]
      BY <1>4 DEF Shutdown, Raise
    <3>5. box \in [Devbox -> Boxes] /\ made \in Devbox
      BY DEF TypeOK, DevboxOrNone
    <3>6. box'[made] = Gone
      BY <3>3, <3>4, <3>5
    <3> QED
      BY <2>2, <3>6 DEF Running, Gone, Absent
  <2> QED
    BY <2>3, <2>5, <2>6 DEF E2eInv
<1>5. ASSUME NEW d \in Devbox, Expire(d) PROVE E2eInv'
  <2>1. UNCHANGED command /\ phase' = phase
    BY <1>5 DEF Expire
  <2>2. Running(made)' => Running(made)
    <3>1. box \in [Devbox -> Boxes] /\ box' = [box EXCEPT ![d] = Gone]
      BY <1>5 DEF Expire, TypeOK
    <3> QED
      BY <2>1, <3>1 DEF Running, Gone, Absent, command
  <2> QED
    BY <1>0, <2>1, <2>2 DEF E2eInv, Resolved, MadeIsNamed, CleanupGoesThrough, command
<1>6. ASSUME NEW c \in Commands, Begin(c) PROVE E2eInv'
  <2>1. phase' = "run" /\ cmd' = c /\ todo' = Steps(c) /\ made' = NoDevbox
    BY <1>0, <1>6 DEF Begin, MadeIsNamed
  <2>2. c.name = "down" => Holds(Steps(c), "resolve")
    <3> SUFFICES ASSUME c.name = "down" PROVE Holds(Steps(c), "resolve")
      OBVIOUS
    <3>1. Steps(c) = DownSteps(c.flags)
      BY DEF Steps
    <3> QED
      BY <3>1, DownSteps1
  <2> QED
    BY <2>1, <2>2 DEF E2eInv, Resolved, MadeIsNamed, CleanupGoesThrough
<1>7. CASE Finish
  <2>1. CASE CleansUp
    <3>1. /\ phase' = "clean" /\ todo' = DownSteps(cmd.flags) /\ phase = "run"
          /\ made' = made /\ state' = state
      BY <1>7, <2>1 DEF Finish, CleansUp
    <3> QED
      BY <1>0, <3>1, DownSteps1 DEF E2eInv, Resolved, MadeIsNamed, CleanupGoesThrough
  <2>2. CASE ~CleansUp
    <3>1. phase' = "idle" /\ todo' = <<>> /\ made' = NoDevbox
      BY <1>7, <2>2 DEF Finish
    <3> QED
      BY <3>1 DEF E2eInv, Resolved, MadeIsNamed, CleanupGoesThrough
  <2> QED
    BY <2>1, <2>2
<1>8. CASE Edit \/ UNCHANGED vars
  <2>1. UNCHANGED <<phase, box, command>>
    BY <1>8 DEF Edit, vars, provider
  <2> QED
    BY <1>0, <2>1 DEF E2eInv, Resolved, MadeIsNamed, CleanupGoesThrough, Running, command
<1> QED
  BY <1>1, <1>2, <1>3, <1>4, <1>5, <1>6, <1>7, <1>8 DEF Next, QuietCall

-----------------------------------------------------------------------------
(* lab.json and the Devbox that runs. *)

LEMMA RecordedInit == Init => Recorded
<1> SUFFICES ASSUME Init PROVE Recorded
  OBVIOUS
<1>1. phase = "idle" /\ todo = <<>> /\ box = [d \in Devbox |-> Absent]
  BY DEF Init
<1>2. \A d \in Devbox : ~Running(d)
  BY <1>1 DEF Running, Absent
<1> QED
  BY <1>1, <1>2 DEF Recorded, OneRunning

\* The shape of what is left, as far as creating and shutting down go.
LEMMA ShapeFacts ==
  ASSUME Shape, phase # "idle", todo # <<>>, TypeOK
  PROVE  /\ \E S : todo \in Seq(S)
         /\ Head(todo) = "create" => ~Holds(Tail(todo), "create")
         /\ Head(todo) = "shutdown" => Tail(todo) = <<>> /\ (phase = "clean" \/ (phase = "run" /\ cmd.name = "down"))
<1>1. phase = "run" \/ phase = "clean"
  BY DEF TypeOK
<1>2. CASE phase = "clean" \/ (phase = "run" /\ cmd.name = "down")
  <2>1. DownLike(todo)
    BY <1>2, DownPhase
  <2>2. \E S : todo \in Seq(S)
    BY <2>1 DEF DownLike
  <2>3. Head(todo) # "create" /\ (Head(todo) = "shutdown" => Tail(todo) = <<>>)
    BY <2>1, ShutdownIsLast
  <2> QED
    BY <1>2, <2>2, <2>3
<1>3. CASE phase = "run" /\ cmd.name = "up"
  <2>1. UpLike(todo)
    BY <1>3 DEF Shape, Like
  <2>2. todo \in Seq({"boundary", "image", "create", "tunnels", "sync", "start"})
    BY <2>1 DEF UpLike
  <2>3. Head(todo) \in {"boundary", "image", "create", "tunnels", "sync", "start"}
    BY <2>2, HeadIn
  <2>4. \E S : todo \in Seq(S)
    BY <2>2
  <2>5. ASSUME Head(todo) = "create", NEW i \in 1 .. Len(Tail(todo)), Tail(todo)[i] = "create" PROVE FALSE
    <3>1. Len(todo) \in Nat /\ Len(todo) >= 1 /\ Head(todo) = todo[1] /\ Tail(todo)[i] = todo[i + 1] /\ i + 1 \in 1 .. Len(todo)
      BY <2>2, TailOf
    <3>2. \A k \in 1 .. Len(todo) : todo[k] = "create" <=> k + 3 = Len(todo)
      BY <2>1 DEF UpLike
    <3>3. 1 \in 1 .. Len(todo) /\ todo[1] = "create" /\ todo[i + 1] = "create"
      BY <2>5, <3>1
    <3>4. 1 + 3 = Len(todo)
      BY <3>2, <3>3
    <3>5. (i + 1) + 3 = Len(todo)
      BY <3>1, <3>2, <3>3
    <3>6. i \in Nat /\ i >= 1
      <4>1. Len(Tail(todo)) \in Nat
        BY <2>2, TailOf
      <4> QED
        BY <4>1
    <3>7. (i + 1) + 3 # 1 + 3
      BY <3>6
    <3> QED
      BY <3>4, <3>5, <3>7, Zenon
  <2> QED
    BY <2>3, <2>4, <2>5 DEF Holds
<1>4. CASE phase = "run" /\ cmd.name = "e2e"
  <2>1. E2eLike(todo)
    BY <1>4 DEF Shape, Like
  <2>2. todo \in Seq({"boundary", "build", "image", "create", "tunnels", "sync", "start", "resolve", "demo", "snapshot"})
    BY <2>1 DEF E2eLike
  <2>3. Head(todo) \in {"boundary", "build", "image", "create", "tunnels", "sync", "start", "resolve", "demo", "snapshot"}
    BY <2>2, HeadIn
  <2>4. \E S : todo \in Seq(S)
    BY <2>2
  <2>5. ASSUME Head(todo) = "create", NEW i \in 1 .. Len(Tail(todo)), Tail(todo)[i] = "create" PROVE FALSE
    <3>1. Len(todo) \in Nat /\ Len(todo) >= 1 /\ Head(todo) = todo[1] /\ Tail(todo)[i] = todo[i + 1] /\ i + 1 \in 1 .. Len(todo)
      BY <2>2, TailOf
    <3>2. 1 \in 1 .. Len(todo) /\ todo[1] = "create" /\ todo[i + 1] = "create"
      BY <2>5, <3>1
    <3>3. 1 = i + 1
      BY <2>1, <3>1, <3>2 DEF E2eLike
    <3>4. i \in Nat /\ i >= 1
      <4>1. Len(Tail(todo)) \in Nat
        BY <2>2, TailOf
      <4> QED
        BY <4>1
    <3> QED
      BY <3>3, <3>4
  <2> QED
    BY <2>3, <2>4, <2>5 DEF Holds
<1>5. CASE phase = "run" /\ cmd.name \in {"redeploy", "policy", "blueprint", "demo", "snapshot"}
  <2>1. RedeployLike(todo) \/ OtherLike(todo)
    BY <1>5 DEF Shape, Like
  <2>2. CASE RedeployLike(todo)
    <3>1. todo \in Seq({"resolve", "urls", "sync", "restart"})
      BY <2>2 DEF RedeployLike
    <3>2. Head(todo) \in {"resolve", "urls", "sync", "restart"}
      BY <3>1, HeadIn
    <3>3. \E U : todo \in Seq(U)
      BY <3>1
    <3> QED
      BY <3>2, <3>3
  <2>3. CASE OtherLike(todo)
    <3>1. todo \in Seq({"policy", "boundary", "build", "resolve", "demo", "snapshot"})
      BY <2>3 DEF OtherLike
    <3>2. Head(todo) \in {"policy", "boundary", "build", "resolve", "demo", "snapshot"}
      BY <3>1, HeadIn
    <3>3. \E U : todo \in Seq(U)
      BY <3>1
    <3> QED
      BY <3>2, <3>3
  <2> QED
    BY <2>1, <2>2, <2>3
<1>6. phase = "run" => Like(cmd.name, todo)
  BY DEF Shape
<1>7. phase = "run" => \/ cmd.name = "down" \/ cmd.name = "up" \/ cmd.name = "e2e"
                       \/ cmd.name \in {"redeploy", "policy", "blueprint", "demo", "snapshot"}
  BY <1>6 DEF Like
<1> QED
  BY <1>1, <1>2, <1>3, <1>4, <1>5, <1>7

LEMMA RecordedKept ==
  ASSUME TypeOK, Shape, E2eInv, Recorded, [Next]_vars
  PROVE  Recorded'
<1> SUFFICES ASSUME usual'
             PROVE  /\ OneRunning'
                    /\ phase' # "idle" => cmd'.target = NoDevbox
                    /\ Holds(todo', "create") => \A d \in Devbox : ~Running(d)'
                    /\ phase' # "idle" /\ (todo' # <<>> \/ (phase' = "run" /\ cmd'.name = "e2e")) => state'.devbox = file'.devbox
  BY DEF Recorded
<1> DEFINE Goal == /\ OneRunning'
                   /\ phase' # "idle" => cmd'.target = NoDevbox
                   /\ Holds(todo', "create") => \A d \in Devbox : ~Running(d)'
                   /\ phase' # "idle" /\ (todo' # <<>> \/ (phase' = "run" /\ cmd'.name = "e2e")) => state'.devbox = file'.devbox
<1>0. box \in [Devbox -> Boxes] /\ state \in LabStates /\ file \in LabStates /\ NoDevbox \notin Devbox
  BY LabAssumption DEF TypeOK, LabAssumption
<1>1. CASE Call
  <2>1. /\ phase # "idle" /\ todo # <<>> /\ phase' = phase /\ cmd' = cmd
        /\ todo' = Tail(todo) \/ todo' = <<>>
    BY <1>1, CallFrame
  <2>2. /\ \E S : todo \in Seq(S)
        /\ Head(todo) = "create" => ~Holds(Tail(todo), "create")
        /\ Head(todo) = "shutdown" => Tail(todo) = <<>> /\ (phase = "clean" \/ (phase = "run" /\ cmd.name = "down"))
    BY <2>1, ShapeFacts
  <2>3. Holds(todo', "create") => Holds(todo, "create")
    BY <2>1, <2>2, HoldsTail, NothingHeld
  <2>4. CASE QuietCall
    <3>1. /\ usual /\ state'.devbox = state.devbox
          /\ file'.devbox = file.devbox \/ file'.devbox = state.devbox
          /\ \A d \in Devbox : Running(d)' <=> Running(d)
      BY <2>4, QuietFrame DEF Running
    <3>2. cmd.target = NoDevbox /\ state.devbox = file.devbox
      BY <2>1, <3>1 DEF Recorded
    <3> QED
      BY <2>1, <2>3, <3>1, <3>2 DEF Recorded, OneRunning
  <2>5. CASE Create
    <3>1. Head(todo) = "create" /\ todo' # todo
      BY <2>1, <2>2, <2>5, TailOf DEF Create, Now
    <3>s. ASSUME NEW d \in Devbox, Save([state EXCEPT !.devbox = d]) PROVE usual /\ state'.devbox = d /\ file'.devbox = d
      <4> DEFINE new == [state EXCEPT !.devbox = d]
      <4>1. new \in LabStates /\ new.devbox = d
        BY SavedStates DEF DevboxOrNone
      <4> HIDE DEF new
      <4>2. Save(new)
        BY <3>s DEF new
      <4> QED
        BY <4>1, <4>2, SaveIs
    <3>2. Holds(todo, "create")
      BY <2>1, <2>2, <3>1, HoldsTail
    <3>3. usual
      BY <2>5, <3>s DEF Create
    <3>4. cmd.target = NoDevbox /\ state.devbox = file.devbox /\ \A d \in Devbox : ~Running(d)
      BY <2>1, <3>2, <3>3 DEF Recorded
    <3>5. ~Holds(todo', "create")
      BY <2>1, <2>2, <3>1, NothingHeld
    <3>6. CASE \E d \in Devbox : Creates(d) /\ Save([state EXCEPT !.devbox = d])
      <4>1. PICK d \in Devbox : Creates(d) /\ Save([state EXCEPT !.devbox = d])
        BY <3>6
      <4>2. state'.devbox = d /\ file'.devbox = d
        BY <4>1, <3>s
      <4>3. \A f \in Devbox : f # d => ~Running(f)'
        BY <1>0, <3>4, <4>1 DEF Creates, Running
      <4>4. OneRunning'
        BY <4>2, <4>3 DEF OneRunning
      <4> QED
        BY <2>1, <3>4, <3>5, <4>2, <4>4
    <3>7. CASE Raise /\ UNCHANGED box
      <4>1. state' = state /\ file' = file /\ \A d \in Devbox : ~Running(d)'
        BY <3>4, <3>7 DEF Raise, Running
      <4> QED
        BY <2>1, <3>4, <3>5, <4>1 DEF OneRunning
    <3> QED
      BY <2>5, <3>6, <3>7 DEF Create
  <2>6. CASE Resolve
    <3>1. usual /\ state' = state /\ file' = file /\ box' = box
      BY <2>6 DEF Resolve, Raise, provider
    <3>2. cmd.target = NoDevbox /\ state.devbox = file.devbox
      BY <2>1, <3>1 DEF Recorded
    <3> QED
      BY <2>1, <2>3, <3>1, <3>2 DEF Recorded, OneRunning, Running
  <2>7. CASE Shutdown
    <3>1. usual /\ state' = state /\ Head(todo) = "shutdown"
      BY <2>7 DEF Shutdown, Raise, Now
    <3>2. cmd.target = NoDevbox /\ state.devbox = file.devbox /\ OneRunning
      BY <2>1, <3>1 DEF Recorded
    <3>3. todo' = <<>> /\ (phase = "clean" \/ (phase = "run" /\ cmd.name = "down"))
      BY <2>1, <2>2, <3>1
    <3>4. at = file.devbox
      <4>1. ~Holds(todo, "resolve")
        BY <2>1, <2>2, <3>1, HoldsTail, NothingHeld
      <4> QED
        BY <2>1, <3>2, <3>3, <4>1 DEF E2eInv, Resolved
    <3>5. \A d \in Devbox : Running(d)' => Running(d) /\ (file' = file \/ d # at)
      <4>1. CASE box' = box /\ file' = file
        BY <4>1 DEF Running
      <4>2. CASE box' = [box EXCEPT ![at] = Gone]
        BY <1>0, <4>2 DEF Running, Gone, Absent
      <4> QED
        BY <2>7, <4>1, <4>2 DEF Shutdown, Raise
    <3>6. OneRunning'
      BY <3>2, <3>4, <3>5 DEF OneRunning
    <3>7. cmd.name = "e2e" => phase = "clean"
      BY <3>3
    <3> QED
      BY <2>1, <3>2, <3>3, <3>6, <3>7, NothingHeld
  <2> QED
    BY <1>1, <2>4, <2>5, <2>6, <2>7 DEF Call
<1>2. ASSUME NEW d \in Devbox, Expire(d) PROVE Goal
  <2>1. usual /\ file' = file /\ UNCHANGED command /\ phase' = phase
    BY <1>2 DEF Expire
  <2>2. \A f \in Devbox : Running(f)' => Running(f)
    BY <1>0, <1>2 DEF Expire, Running, Gone, Absent
  <2> QED
    BY <2>1, <2>2 DEF Recorded, OneRunning, command
<1>3. ASSUME NEW c \in Commands, Begin(c) PROVE Goal
  <2>1. /\ usual /\ c.target = NoDevbox /\ (c.name \in {"up", "e2e"} => ~Running(file.devbox))
        /\ phase' = "run" /\ cmd' = c /\ todo' = Steps(c) /\ state' = file /\ file' = file /\ box' = box
    BY <1>3 DEF Begin, provider
  <2>2. OneRunning
    BY <2>1 DEF Recorded
  <2>3. ASSUME Holds(Steps(c), "create") PROVE c.name \in {"up", "e2e"}
    <3>1. c.name \in Names
      BY LabAssumption DEF LabAssumption
    <3>2. Like(c.name, Steps(c))
      BY <3>1, CommandSteps
    <3>3. PICK i \in 1 .. Len(Steps(c)) : Steps(c)[i] = "create"
      BY <2>3 DEF Holds
    <3>4. ~DownLike(Steps(c))
      <4> SUFFICES ASSUME Steps(c) \in Seq({"resolve", "stop", "shutdown"}) PROVE FALSE
        BY DEF DownLike
      <4> QED
        BY <3>3
    <3>5. ~RedeployLike(Steps(c))
      <4> SUFFICES ASSUME Steps(c) \in Seq({"resolve", "urls", "sync", "restart"}) PROVE FALSE
        BY DEF RedeployLike
      <4> QED
        BY <3>3
    <3>6. ~OtherLike(Steps(c))
      <4> SUFFICES ASSUME Steps(c) \in Seq({"policy", "boundary", "build", "resolve", "demo", "snapshot"}) PROVE FALSE
        BY DEF OtherLike
      <4> QED
        BY <3>3
    <3> QED
      BY <3>2, <3>4, <3>5, <3>6 DEF Like
  <2>4. Holds(Steps(c), "create") => \A d \in Devbox : ~Running(d)
    BY <2>1, <2>2, <2>3 DEF OneRunning
  <2> QED
    BY <2>1, <2>2, <2>4 DEF OneRunning, Running
<1>4. CASE Finish
  <2>1. usual /\ file' = file /\ box' = box
    BY <1>4 DEF Finish, provider
  <2>2. CASE CleansUp
    <3>1. phase' = "clean" /\ phase = "run" /\ cmd.name = "e2e" /\ todo' = DownSteps(cmd.flags) /\ cmd' = cmd /\ state' = state
      BY <1>4, <2>2 DEF Finish, CleansUp
    <3>2. ~Holds(todo', "create")
      <4> SUFFICES ASSUME todo' \in Seq({"resolve", "stop", "shutdown"}) PROVE ~Holds(todo', "create")
        BY <3>1, DownSteps1 DEF DownLike
      <4> QED
        BY DEF Holds
    <3> QED
      BY <2>1, <3>1, <3>2 DEF Recorded, OneRunning, Running
  <2>3. CASE ~CleansUp
    <3>1. phase' = "idle" /\ todo' = <<>>
      BY <1>4, <2>3 DEF Finish
    <3> QED
      BY <2>1, <3>1, NothingHeld DEF Recorded, OneRunning, Running
  <2> QED
    BY <2>2, <2>3
<1>5. CASE Edit \/ UNCHANGED vars
  <2>1. UNCHANGED <<phase, box, file, usual, command>>
    BY <1>5 DEF Edit, vars, provider
  <2> QED
    BY <2>1 DEF Recorded, OneRunning, Running, command
<1> QED
  BY <1>1, <1>2, <1>3, <1>4, <1>5 DEF Next, Call, QuietCall

-----------------------------------------------------------------------------
(* The tree a Devbox runs. *)

LEMMA TreeInit == Init => HasTheTree
<1> SUFFICES ASSUME Init PROVE HasTheTree
  OBVIOUS
<1>1. phase = "idle"
  BY DEF Init
<1> QED
  BY <1>1 DEF HasTheTree

\* In what is left of a command that rebuilds, the tree comes last but one and
\* the start last.
LEMMA RebuildShape ==
  ASSUME Shape, phase = "run", Rebuilds, todo # <<>>
  PROVE  /\ Len(todo) \in Nat /\ Len(todo) >= 1 /\ Len(Tail(todo)) = Len(todo) - 1
         /\ Len(todo) = 1 <=> Head(todo) \in {"start", "restart"}
         /\ Len(todo) = 2 <=> Head(todo) = "sync"
         /\ cmd.name = "up" => (Len(todo) = 4 <=> Head(todo) = "create")
         /\ cmd.name = "up" => Head(todo) \in {"boundary", "image", "create", "tunnels", "sync", "start"}
         /\ cmd.name = "redeploy" => Head(todo) \in {"resolve", "urls", "sync", "restart"}
<1>1. Like(cmd.name, todo)
  BY DEF Shape
<1>2. CASE cmd.name = "up"
  <2>1. UpLike(todo)
    BY <1>1, <1>2 DEF Like
  <2>2. todo \in Seq({"boundary", "image", "create", "tunnels", "sync", "start"})
    BY <2>1 DEF UpLike
  <2>3. /\ Len(todo) \in Nat /\ Len(todo) >= 1 /\ Len(Tail(todo)) = Len(todo) - 1 /\ Head(todo) = todo[1]
    BY <2>2, TailOf
  <2>4. 1 \in 1 .. Len(todo)
    BY <2>3
  <2>5. /\ Head(todo) = "start" <=> 1 = Len(todo)
        /\ Head(todo) = "sync" <=> 1 + 1 = Len(todo)
        /\ Head(todo) = "create" <=> 1 + 3 = Len(todo)
    BY <2>1, <2>3, <2>4 DEF UpLike
  <2>6. Head(todo) \in {"boundary", "image", "create", "tunnels", "sync", "start"}
    BY <2>2, HeadIn
  <2> QED
    BY <1>2, <2>3, <2>5, <2>6
<1>3. CASE cmd.name = "redeploy"
  <2>1. RedeployLike(todo)
    BY <1>1, <1>3 DEF Like
  <2>2. todo \in Seq({"resolve", "urls", "sync", "restart"})
    BY <2>1 DEF RedeployLike
  <2>3. /\ Len(todo) \in Nat /\ Len(todo) >= 1 /\ Len(Tail(todo)) = Len(todo) - 1 /\ Head(todo) = todo[1]
    BY <2>2, TailOf
  <2>4. 1 \in 1 .. Len(todo)
    BY <2>3
  <2>5. /\ Head(todo) = "restart" <=> 1 = Len(todo)
        /\ Head(todo) = "sync" <=> 1 + 1 = Len(todo)
    BY <2>1, <2>3, <2>4 DEF RedeployLike
  <2>6. Head(todo) \in {"resolve", "urls", "sync", "restart"}
    BY <2>2, HeadIn
  <2> QED
    BY <1>3, <2>3, <2>5, <2>6
<1> QED
  BY <1>2, <1>3 DEF Rebuilds

\* A call that returns, of a command that rebuilds.
LEMMA CallHasTheTree ==
  ASSUME TypeOK, Shape, HasTheTree, Call, phase = "run", ~raised', Rebuilds, Running(at)'
  PROVE  /\ Len(todo') < 2 => box'[at'].source >= asked
         /\ Len(todo') = 0 => box'[at'].runs >= asked
         /\ cmd.name = "up" /\ "rebuild-images" \notin cmd.flags /\ Len(todo') \in 1 .. 3 => box'[at'].images = 0
<1> DEFINE Then == /\ Len(todo') < 2 => box'[at'].source >= asked
                   /\ Len(todo') = 0 => box'[at'].runs >= asked
                   /\ cmd.name = "up" /\ "rebuild-images" \notin cmd.flags /\ Len(todo') \in 1 .. 3 => box'[at'].images = 0
<1>1. todo # <<>> /\ todo' = Tail(todo) /\ ~raised
  BY CallFrame
<1>2. /\ Len(todo) \in Nat /\ Len(todo) >= 1 /\ Len(todo') = Len(todo) - 1
      /\ Len(todo) = 1 <=> Head(todo) \in {"start", "restart"}
      /\ Len(todo) = 2 <=> Head(todo) = "sync"
      /\ cmd.name = "up" => (Len(todo) = 4 <=> Head(todo) = "create")
      /\ cmd.name = "up" => Head(todo) \in {"boundary", "image", "create", "tunnels", "sync", "start"}
      /\ cmd.name = "redeploy" => Head(todo) \in {"resolve", "urls", "sync", "restart"}
  BY <1>1, RebuildShape
<1>3. /\ box \in [Devbox -> Boxes] /\ tree \in Nat /\ asked \in Nat /\ asked <= tree
  BY DEF TypeOK, HasTheTree
<1>4. Running(at) => /\ at \in Devbox
                     /\ Len(todo) < 2 => box[at].source >= asked
                     /\ cmd.name = "up" /\ "rebuild-images" \notin cmd.flags /\ Len(todo) \in 1 .. 3 => box[at].images = 0
  BY <1>1 DEF HasTheTree, Running
<1>5. CASE Head(todo) \in {"start", "restart"} /\ Start
  <2>1. Running(at) /\ StartLab /\ at' = at
    BY <1>1, <1>5, CallFrame DEF Start, Raise
  <2>2. Len(todo) = 1 /\ Len(todo') = 0
    BY <1>2, <1>5
  <2>3. at \in Devbox /\ box[at].source >= asked /\ box[at].source \in Nat
    BY <1>3, <1>4, <2>1, <2>2 DEF Boxes
  <2>4. \/ Head(todo) = "restart" /\ box' = Started(at, TRUE)
        \/ Head(todo) = "start" /\ box' = Started(at, Has("rebuild-images"))
    BY <2>1 DEF StartLab, Now
  <2>5. box'[at].source = box[at].source /\ box'[at].runs = box[at].source
    <3>1. CASE Head(todo) = "restart" /\ box' = Started(at, TRUE)
      BY <1>3, <2>3, <3>1 DEF Started, Boxes
    <3>2. CASE Head(todo) = "start" /\ box' = Started(at, Has("rebuild-images"))
      <4>1. cmd.name = "up"
        BY <1>2, <3>2 DEF Rebuilds
      <4>2. Has("rebuild-images") \/ box[at].images = 0
        BY <1>4, <2>1, <2>2, <4>1 DEF Has
      <4> QED
        BY <1>3, <2>3, <3>2, <4>2 DEF Started, Boxes
    <3> QED
      BY <2>4, <3>1, <3>2
  <2> QED
    BY <2>1, <2>2, <2>3, <2>5
<1>6. CASE Head(todo) = "sync" /\ Sync
  <2>1. Running(at) /\ at' = at /\ box' = [box EXCEPT ![at].source = tree]
    BY <1>1, <1>6 DEF Sync, Raise
  <2>2. Len(todo) = 2 /\ Len(todo') = 1
    BY <1>2, <1>6
  <2>3. box'[at].source = tree /\ box'[at].images = box[at].images
    BY <1>3, <1>4, <2>1 DEF Boxes
  <2>4. cmd.name = "up" /\ "rebuild-images" \notin cmd.flags => box[at].images = 0
    BY <1>4, <2>1, <2>2
  <2> QED
    BY <1>3, <2>1, <2>2, <2>3, <2>4
<1>7. CASE Head(todo) = "create" /\ Create
  <2>1. cmd.name = "up"
    BY <1>2, <1>7 DEF Rebuilds
  <2>2. Len(todo') = 3
    BY <1>2, <1>7, <2>1
  <2>3. PICK d \in Devbox : Creates(d) /\ at' = d
    BY <1>1, <1>7 DEF Create, Raise
  <2>4. box'[at'] = Fresh
    BY <1>3, <2>3 DEF Creates
  <2>5. "rebuild-images" \notin cmd.flags => box'[at'].images = 0
    BY <2>1, <2>4 DEF Fresh, Rebuilds, Has, Absent
  <2> QED
    BY <2>2, <2>5
<1>8. CASE Head(todo) \notin {"start", "restart", "sync", "create", "resolve", "stop", "shutdown"} /\ box' = box /\ at' = at
  <2>1. Len(todo) # 1 /\ Len(todo) # 2 /\ (cmd.name = "up" => Len(todo) # 4)
    BY <1>2, <1>8
  <2>2. Running(at)
    BY <1>8 DEF Running
  <2>3. Len(todo') >= 2 /\ (cmd.name = "up" /\ Len(todo') \in 1 .. 3 => Len(todo) \in 1 .. 3)
    BY <1>2, <2>1
  <2> QED
    BY <1>2, <1>4, <1>8, <2>2, <2>3
<1>9. CASE Head(todo) = "resolve"
  <2>1. cmd.name = "redeploy"
    BY <1>2, <1>9 DEF Rebuilds
  <2>2. Len(todo') >= 2
    BY <1>2, <1>9
  <2> QED
    BY <1>2, <2>1, <2>2
<1>10. Head(todo) \notin {"stop", "shutdown"}
  BY <1>2 DEF Rebuilds
<1>11. \/ Head(todo) \in {"start", "restart"} /\ Start
       \/ Head(todo) = "sync" /\ Sync
       \/ Head(todo) = "create" /\ Create
       \/ Head(todo) \in {"resolve", "stop", "shutdown"}
       \/ Head(todo) \in {"policy", "boundary", "build", "image", "tunnels", "urls", "demo", "snapshot"} /\ box' = box /\ at' = at
  <2>1. CASE Policy \/ Boundary \/ Build \/ Image
    BY <2>1 DEF Policy, Boundary, Build, Image, Now, Raise
  <2>2. CASE Tunnels \/ Urls \/ Demo \/ Snapshot
    BY <2>2 DEF Tunnels, Urls, Demo, Snapshot, Now, Raise, provider
  <2>3. CASE Start \/ Sync \/ Create \/ Resolve \/ Stop \/ Shutdown
    BY <2>3 DEF Start, Sync, Create, Resolve, Stop, Shutdown, Now
  <2> QED
    BY <2>1, <2>2, <2>3 DEF Call, QuietCall
<1> QED
  BY <1>5, <1>6, <1>7, <1>8, <1>9, <1>10, <1>11

LEMMA TreeKept == ASSUME TypeOK, Shape, HasTheTree, [Next]_vars PROVE HasTheTree'
<1>0. box \in [Devbox -> Boxes] /\ tree \in Nat /\ asked \in Nat
  BY DEF TypeOK
<1>1. CASE Call
  <2>1. /\ phase # "idle" /\ phase' = phase /\ cmd' = cmd /\ tree' = tree /\ asked' = asked
    BY <1>1, CallFrame
  <2>2. asked' <= tree'
    BY <2>1 DEF HasTheTree
  <2>3. ASSUME phase' = "run", ~raised', Rebuilds', Running(at)'
        PROVE  /\ Len(todo') < 2 => box'[at'].source >= asked'
               /\ Len(todo') = 0 => box'[at'].runs >= asked'
               /\ cmd'.name = "up" /\ "rebuild-images" \notin cmd'.flags /\ Len(todo') \in 1 .. 3 => box'[at'].images = 0
    <3>1. phase = "run" /\ Rebuilds
      BY <2>1, <2>3 DEF Rebuilds
    <3> QED
      BY <1>1, <2>1, <2>3, <3>1, CallHasTheTree
  <2> QED
    BY <2>2, <2>3 DEF HasTheTree
<1>2. ASSUME NEW d \in Devbox, Expire(d) PROVE HasTheTree'
  <2>1. /\ UNCHANGED <<cmd, todo, at, raised, asked, phase, tree>> /\ box' = [box EXCEPT ![d] = Gone]
    BY <1>2 DEF Expire, command
  <2>2. Running(at)' => Running(at) /\ box'[at] = box[at]
    BY <1>0, <2>1 DEF Running, Gone, Absent
  <2> QED
    BY <2>1, <2>2 DEF HasTheTree, Rebuilds
<1>3. ASSUME NEW c \in Commands, Begin(c) PROVE HasTheTree'
  <2>1. phase' = "run" /\ cmd' = c /\ todo' = Steps(c) /\ asked' = tree /\ tree' = tree
    BY <1>3 DEF Begin
  <2>2. Rebuilds' => Len(todo') >= 4 /\ Len(todo') \in Nat
    <3>1. CASE c.name = "up"
      <4>1. todo' = UpSteps(c.flags)
        BY <2>1, <3>1 DEF Steps
      <4>2. UpLike(todo')
        BY <4>1, UpSteps1
      <4>3. Len(todo') \in Nat
        BY <4>2 DEF UpLike
      <4> QED
        BY <4>1, <4>3, UpSteps1
    <3>2. CASE c.name = "redeploy"
      <4>1. todo' = <<"resolve", "urls", "sync", "restart">>
        BY <2>1, <3>2 DEF Steps
      <4> QED
        BY <4>1
    <3> QED
      BY <2>1, <3>1, <3>2 DEF Rebuilds
  <2>3. Rebuilds' => ~(Len(todo') < 2) /\ Len(todo') # 0
    BY <2>2
  <2>4. Rebuilds' => Len(todo') \notin 1 .. 3
    <3>1. \A n \in Nat : n >= 4 => n \notin 1 .. 3
      OBVIOUS
    <3> QED
      BY <2>2, <3>1, Zenon
  <2>5. asked' <= tree'
    BY <1>0, <2>1
  <2> QED
    BY <2>3, <2>4, <2>5 DEF HasTheTree
<1>4. CASE Finish
  <2>1. phase' # "run" /\ (phase' # "idle" => phase # "idle" /\ asked' = asked) /\ tree' = tree
    BY <1>4 DEF Finish
  <2> QED
    BY <2>1 DEF HasTheTree
<1>5. CASE Edit
  <2>1. tree' = tree + 1 /\ UNCHANGED <<phase, box, cmd, todo, at, raised, asked>>
    BY <1>5 DEF Edit, provider, command
  <2>2. phase # "idle" => asked' <= tree'
    BY <1>0, <2>1 DEF HasTheTree
  <2> QED
    BY <2>1, <2>2 DEF HasTheTree, Rebuilds, Running
<1>6. CASE UNCHANGED vars
  <2>1. UNCHANGED <<tree, phase, box, cmd, todo, at, raised, asked>>
    BY <1>6 DEF vars, provider, command
  <2> QED
    BY <2>1 DEF HasTheTree, Rebuilds, Running
<1> QED
  BY <1>1, <1>2, <1>3, <1>4, <1>5, <1>6 DEF Next, Call, QuietCall

-----------------------------------------------------------------------------
(* The theorems. *)

LEMMA LabInvariant == Spec => []LabInv
<1>1. Init => LabInv
  BY TypesInit, E2eInit, RecordedInit, TreeInit DEF LabInv
<1>2. ASSUME LabInv, [Next]_vars PROVE LabInv'
  <2>1. TypeOK /\ Shape /\ E2eInv /\ Recorded /\ HasTheTree
    BY <1>2 DEF LabInv
  <2>2. TypeOK' /\ Shape' /\ E2eInv' /\ Recorded' /\ HasTheTree'
    BY <1>2, <2>1, TypesKept, ShapeKept, E2eKept, RecordedKept, TreeKept
  <2> QED
    BY <2>2 DEF LabInv
<1> QED
  BY <1>1, <1>2, PTL DEF Spec

\* Every variable keeps its type: lab.json holds ids the provider has given,
\* and a command is one of those the parser knows, or none.
THEOREM TypeCorrect == Spec => []TypeOK
<1>1. LabInv => TypeOK
  BY DEF LabInv
<1> QED
  BY <1>1, LabInvariant, PTL

\* runloop_lab/state.py and scripts/runloop_lab.py: between commands the only
\* Devbox that may run is the one lab.json names, whichever calls raised and
\* whichever saves, as long as no save that raised left a file without the Devbox
\* its command knew of, and none of the other things `usual` excepts has happened.
THEOREM EveryBoxIsRecorded == Spec => []RunningIsRecorded
<1>1. LabInv => RunningIsRecorded
  BY DEF LabInv, Recorded, OneRunning, RunningIsRecorded
<1> QED
  BY <1>1, LabInvariant, PTL

\* cmd_redeploy() and cmd_up(): what a redeploy has started is the tree of its
\* beginning or a later one, whatever was edited meanwhile.
THEOREM RedeployRunsTheTree == Spec => []RunsTheTree
<1>1. ASSUME LabInv PROVE RunsTheTree
  <2>1. HasTheTree
    BY <1>1 DEF LabInv
  <2> SUFFICES ASSUME Rebuilds, phase = "run", todo = <<>>, ~raised, Running(at) PROVE box[at].runs >= asked
    BY DEF RunsTheTree, Rebuilds
  <2>2. Len(todo) = 0
    OBVIOUS
  <2> QED
    BY <2>1, <2>2 DEF HasTheTree
<1> QED
  BY <1>1, LabInvariant, PTL

\* The finally of cmd_e2e(): e2e does not end with its own Devbox running, when
\* its clean-up went through.
THEOREM E2eCleansUp == Spec => E2eEndsItsDevbox
<1> DEFINE Ends ==
      phase # "idle" /\ phase' = "idle" /\ cmd.name = "e2e" /\ ~Has("keep") /\ cmd.target = NoDevbox
      /\ made # NoDevbox /\ ~(phase = "clean" /\ raised)
      => box'[made].life # "running"
<1>1. ASSUME LabInv, [Next]_vars PROVE [Ends]_vars
  <2> SUFFICES ASSUME phase # "idle", phase' = "idle", cmd.name = "e2e", ~Has("keep"), cmd.target = NoDevbox,
                      made # NoDevbox, ~(phase = "clean" /\ raised)
               PROVE  box'[made].life # "running"
    OBVIOUS
  <2>1. TypeOK /\ MadeIsNamed /\ CleanupGoesThrough
    BY <1>1 DEF LabInv, E2eInv
  <2>2. Finish
    <3>1. ~Call
      BY CallFrame
    <3>2. ~Edit /\ (\A d \in Devbox : ~Expire(d)) /\ (\A c \in Commands : ~Begin(c)) /\ ~(UNCHANGED vars)
      BY DEF Edit, Expire, Begin, vars
    <3> QED
      BY <1>1, <3>1, <3>2 DEF Next, Call, QuietCall
  <2>3. todo = <<>> /\ box' = box /\ ~CleansUp
    BY <2>2 DEF Finish, provider
  <2>4. state.devbox # NoDevbox
    BY <2>1 DEF MadeIsNamed
  <2>5. phase = "clean"
    BY <2>1, <2>3, <2>4 DEF CleansUp, TypeOK
  <2>6. ~Running(made) /\ made \in Devbox
    BY <2>1, <2>3, <2>5 DEF CleanupGoesThrough, TypeOK, DevboxOrNone
  <2> QED
    BY <2>3, <2>6 DEF Running
<1>2. Spec => [][Ends]_vars
  BY <1>1, LabInvariant, PTL DEF Spec
<1> QED
  BY <1>2 DEF E2eEndsItsDevbox
=============================================================================
