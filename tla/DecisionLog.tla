----------------------------- MODULE DecisionLog -----------------------------
(***************************************************************************)
(* What the decision log promises, without threads, locks or counters: an  *)
(* ordered log fed by a bounded sequence of pending entries.  An entry may *)
(* be discarded while it is pending, and a block of the oldest entries may *)
(* fail to land, but what lands does so in the order of acceptance, each   *)
(* row at most once, and a reader is answered only when nothing that was   *)
(* pending at its request is pending any more.                             *)
(*                                                                         *)
(* EventStore implements this module (EventStore!ImplementsDecisionLog).   *)
(***************************************************************************)
EXTENDS Naturals, SequencesExt, Functions

CONSTANTS
  Row,       \* the decisions
  Reader,    \* who queries the log
  Mark,      \* the end marker, pending like a row but never logged
  Capacity,  \* how many entries can be pending
  Chunk      \* how many rows land at once

VARIABLES
  new,      \* rows not handed over yet
  pending,  \* accepted entries, oldest first
  log,      \* the rows that landed, oldest first
  gone,     \* rows refused, discarded, lost or erased
  asking,   \* readers that wait for an answer
  awaited   \* what was pending when each of them asked

vars == <<new, pending, log, gone, asking, awaited>>

PendingRows == Range(pending) \ {Mark}

Init ==
  /\ new = Row
  /\ pending = <<>> /\ log = <<>> /\ gone = {}
  /\ asking = {} /\ awaited = [r \in Reader |-> {}]

Accept(q) ==
  /\ q \in new /\ Len(pending) < Capacity
  /\ new' = new \ {q}
  /\ pending' = Append(pending, q)
  /\ UNCHANGED <<log, gone, asking, awaited>>

Refuse(q) ==
  /\ q \in new
  /\ new' = new \ {q}
  /\ gone' = gone \union {q}
  /\ UNCHANGED <<pending, log, asking, awaited>>

\* A row logged at once, when nothing is ever pending.
Through(q) ==
  /\ q \in new /\ pending = <<>>
  /\ new' = new \ {q}
  /\ log' = Append(log, q)
  /\ UNCHANGED <<pending, gone, asking, awaited>>

AcceptMark ==
  /\ Len(pending) < Capacity
  /\ pending' = Append(pending, Mark)
  /\ UNCHANGED <<new, log, gone, asking, awaited>>

Discard(i) ==
  /\ pending' = RemoveAt(pending, i)
  /\ gone' = gone \union ({pending[i]} \ {Mark})
  /\ UNCHANGED <<new, log, asking, awaited>>

\* The n oldest entries, all of them rows, leave together.
Leave(n) ==
  /\ Mark \notin Range(SubSeq(pending, 1, n))
  /\ pending' = SubSeq(pending, n + 1, Len(pending))
  /\ UNCHANGED <<new, asking, awaited>>

Land(n) ==
  /\ Leave(n)
  /\ log' = log \o SubSeq(pending, 1, n)
  /\ UNCHANGED gone

Lose(n) ==
  /\ Leave(n)
  /\ gone' = gone \union Range(SubSeq(pending, 1, n))
  /\ UNCHANGED log

Ask(r) ==
  /\ r \notin asking
  /\ asking' = asking \union {r}
  /\ awaited' = [awaited EXCEPT ![r] = PendingRows]
  /\ UNCHANGED <<new, pending, log, gone>>

Answered(r) ==
  /\ r \in asking
  /\ awaited[r] \intersect PendingRows = {}
  /\ asking' = asking \ {r}
  /\ awaited' = [awaited EXCEPT ![r] = {}]
  /\ UNCHANGED <<new, pending>>

Answer(r) ==
  /\ Answered(r)
  /\ UNCHANGED <<log, gone>>

Erase(r) ==
  /\ Answered(r)
  /\ log' = <<>>
  /\ gone' = gone \union Range(log)

Next ==
  \/ \E q \in Row : Accept(q) \/ Refuse(q) \/ Through(q)
  \/ AcceptMark
  \/ \E i \in DOMAIN pending : Discard(i)
  \/ \E n \in DOMAIN pending : n <= Chunk /\ (Land(n) \/ Lose(n))
  \/ \E r \in Reader : Ask(r) \/ Answer(r) \/ Erase(r)

Spec == Init /\ [][Next]_vars

=============================================================================
