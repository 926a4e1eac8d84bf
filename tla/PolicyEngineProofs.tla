------------------------- MODULE PolicyEngineProofs -------------------------
(***************************************************************************)
(* What holds of the policy engine for every configuration and any number  *)
(* of threads: the rate bound, the budget bound, the even spread over a    *)
(* pool, the alert of every refusal, and that the snapshot is the current  *)
(* configuration.                                                          *)
(***************************************************************************)
EXTENDS PolicyEngine, FiniteSetTheorems, NaturalsInduction, WellFoundedInduction, TLAPS

(***************************************************************************)
(* The rate bound is not inductive: nothing in it ties the times that were *)
(* admitted to those the engine still remembers.  RateInv does.  The       *)
(* remembered window is the tail of the history, and the part that was     *)
(* pruned is older than the window, so a thread that finds room can only   *)
(* be as close as the window allows to the admission Limit places back.    *)
(***************************************************************************)
Forgotten(a) == Len(admitted[a]) - Len(requests[a])

RateTypes ==
  /\ now \in Nat
  /\ requests \in [Agent -> Seq(Nat)]
  /\ admitted \in [Agent -> Seq(Nat)]

Remembered(a) ==
  /\ Forgotten(a) \in Nat
  /\ \A i \in 1 .. Len(requests[a]) : requests[a][i] = admitted[a][Forgotten(a) + i]
  /\ \A i \in 1 .. Forgotten(a) : Stale(admitted[a][i])
  /\ \A i \in 1 .. Len(admitted[a]) : admitted[a][i] <= now

Spaced(a) ==
  \A i \in DOMAIN admitted[a] :
    i + Limit[a] \in DOMAIN admitted[a] => admitted[a][i + Limit[a]] - admitted[a][i] >= RateWindow

RateInv == RateTypes /\ \A a \in Agent : Remembered(a) /\ Spaced(a)

-----------------------------------------------------------------------------
\* Dropping the first n entries of a sequence.
LEMMA SubSeqTail ==
  ASSUME NEW S, NEW s \in Seq(S), NEW n \in 0 .. Len(s)
  PROVE  /\ SubSeq(s, n + 1, Len(s)) \in Seq(S)
         /\ Len(SubSeq(s, n + 1, Len(s))) = Len(s) - n
         /\ \A i \in 1 .. Len(s) - n : SubSeq(s, n + 1, Len(s))[i] = s[n + i]
  OBVIOUS

\* Appending one entry.
LEMMA AppendOne ==
  ASSUME NEW S, NEW s \in Seq(S), NEW x \in S
  PROVE  /\ Append(s, x) \in Seq(S)
         /\ Len(Append(s, x)) = Len(s) + 1
         /\ Append(s, x)[Len(s) + 1] = x
         /\ \A i \in 1 .. Len(s) : Append(s, x)[i] = s[i]
  OBVIOUS

\* The tail of length lr of a sequence of length la, shortened by m.
LEMMA TailLength ==
  ASSUME NEW la \in Nat, NEW lr \in Nat, NEW f \in Nat, f = la - lr, NEW m \in 0 .. lr
  PROVE  f + m \in 0 .. la /\ lr - m = la - (f + m)
<1>1. f + m >= 0 /\ f + m <= la
  OBVIOUS
<1>2. lr - m = la - (f + m)
  OBVIOUS
<1> QED
  BY <1>1, <1>2

\* A sequence is no shorter than what is left of it without a tail.
LEMMA HeadLength ==
  ASSUME NEW la \in Nat, NEW lr \in Nat, NEW f, f = la - lr
  PROVE  f <= la
  OBVIOUS

\* The first state remembers nothing and has forgotten nothing.
LEMMA RateInit == Init => RateInv
<1> SUFFICES ASSUME Init PROVE RateInv
  OBVIOUS
<1>1. <<>> \in Seq(Nat) /\ Len(<<>>) = 0 /\ DOMAIN <<>> = {}
  OBVIOUS
<1>2. now = 0 /\ requests = [a \in Agent |-> <<>>] /\ admitted = [a \in Agent |-> <<>>]
  BY DEF Init, Nobody
<1> QED
  BY <1>1, <1>2 DEF RateInv, RateTypes, Remembered, Spaced, Forgotten

\* An agent whose quota a step leaves alone is remembered as before.
LEMMA RememberedKept ==
  ASSUME NEW b \in Agent, Remembered(b), now' = now,
         requests'[b] = requests[b], admitted'[b] = admitted[b]
  PROVE  Remembered(b)'
<1>1. Forgotten(b)' = Forgotten(b)
  BY DEF Forgotten
<1>2. ASSUME NEW i \in 1 .. Forgotten(b) PROVE Stale(admitted[b][i])'
  BY DEF Remembered, Stale
<1> QED
  BY <1>1, <1>2 DEF Remembered

\* Pruning n entries of agent a's window: the tail that is left, and the n
\* entries as the old part of the history.
LEMMA PruneEffect ==
  ASSUME RateInv, NEW a \in Agent, NEW n \in 0 .. Len(requests[a]), PrunesAt(requests[a], n)
  PROVE  /\ Pruned(a, n) \in Seq(Nat)
         /\ Len(Pruned(a, n)) = Len(requests[a]) - n
         /\ Forgotten(a) + n \in 0 .. Len(admitted[a])
         /\ Len(Pruned(a, n)) = Len(admitted[a]) - (Forgotten(a) + n)
         /\ \A i \in 1 .. Len(Pruned(a, n)) : Pruned(a, n)[i] = admitted[a][Forgotten(a) + n + i]
         /\ \A i \in 1 .. Forgotten(a) + n : Stale(admitted[a][i])
<1>1. requests[a] \in Seq(Nat) /\ admitted[a] \in Seq(Nat)
  BY DEF RateInv, RateTypes
<1>2. Len(requests[a]) \in Nat /\ Len(admitted[a]) \in Nat
  BY <1>1
<1>3. Pruned(a, n) \in Seq(Nat) /\ Len(Pruned(a, n)) = Len(requests[a]) - n
  BY <1>1, SubSeqTail DEF Pruned
<1>4. \A i \in 1 .. Len(requests[a]) - n : Pruned(a, n)[i] = requests[a][n + i]
  BY <1>1, SubSeqTail DEF Pruned
<1>5. Forgotten(a) = Len(admitted[a]) - Len(requests[a])
  BY DEF Forgotten
<1>6. Forgotten(a) \in Nat
  BY DEF RateInv, Remembered
<1>7. \A i \in 1 .. Len(requests[a]) : requests[a][i] = admitted[a][Forgotten(a) + i]
  BY DEF RateInv, Remembered
<1>8. \A i \in 1 .. Forgotten(a) : Stale(admitted[a][i])
  BY DEF RateInv, Remembered
<1>9. /\ Forgotten(a) + n \in 0 .. Len(admitted[a])
      /\ Len(Pruned(a, n)) = Len(admitted[a]) - (Forgotten(a) + n)
  BY <1>2, <1>3, <1>5, <1>6, TailLength
<1>10. ASSUME NEW i \in 1 .. Len(Pruned(a, n))
       PROVE  Pruned(a, n)[i] = admitted[a][Forgotten(a) + n + i]
  <2>1. n + i \in 1 .. Len(requests[a]) /\ i \in 1 .. Len(requests[a]) - n
    BY <1>2, <1>3
  <2>2. Pruned(a, n)[i] = requests[a][n + i]
    BY <1>4, <2>1
  <2>3. requests[a][n + i] = admitted[a][Forgotten(a) + (n + i)]
    BY <1>7, <2>1
  <2>4. Forgotten(a) + (n + i) = Forgotten(a) + n + i
    BY <1>6, <2>1
  <2> QED
    BY <2>2, <2>3, <2>4
<1>11. ASSUME NEW i \in 1 .. Forgotten(a) + n PROVE Stale(admitted[a][i])
  <2>1. CASE i \in 1 .. Forgotten(a)
    BY <1>8, <2>1
  <2>2. CASE i \notin 1 .. Forgotten(a)
    <3>1. i - Forgotten(a) \in 1 .. n /\ i - Forgotten(a) \in 1 .. Len(requests[a])
          /\ Forgotten(a) + (i - Forgotten(a)) = i
      BY <1>2, <1>6, <2>2
    <3>2. Stale(requests[a][i - Forgotten(a)])
      BY <3>1 DEF PrunesAt
    <3>3. requests[a][i - Forgotten(a)] = admitted[a][Forgotten(a) + (i - Forgotten(a))]
      BY <1>7, <3>1
    <3> QED
      BY <3>1, <3>2, <3>3
  <2> QED
    BY <2>1, <2>2
<1> QED
  BY <1>3, <1>9, <1>10, <1>11

\* A throttled query only prunes.
LEMMA ThrottleKeepsRate ==
  ASSUME RateInv, NEW a \in Agent, Throttle(a), now' = now
  PROVE  RateInv'
<1>1. PICK n \in 0 .. Len(requests[a]) :
        /\ PrunesAt(requests[a], n)
        /\ requests' = [requests EXCEPT ![a] = Pruned(a, n)]
        /\ admitted' = admitted
  BY DEF Throttle
<1>2. now \in Nat /\ requests \in [Agent -> Seq(Nat)] /\ admitted \in [Agent -> Seq(Nat)]
  BY DEF RateInv, RateTypes
<1>3. requests'[a] = Pruned(a, n) /\ admitted'[a] = admitted[a]
  BY <1>1, <1>2
<1>4. RateTypes'
  BY <1>1, <1>2, PruneEffect DEF RateTypes
<1>5. Forgotten(a)' = Forgotten(a) + n /\ Forgotten(a) + n \in Nat
  <2>1. /\ Forgotten(a) + n \in 0 .. Len(admitted[a]) /\ Len(admitted[a]) \in Nat
        /\ Len(Pruned(a, n)) = Len(admitted[a]) - (Forgotten(a) + n)
    BY <1>1, <1>2, PruneEffect
  <2>2. Forgotten(a)' = Len(admitted[a]) - Len(Pruned(a, n))
    BY <1>3 DEF Forgotten
  <2> QED
    BY <2>1, <2>2
<1>6. ASSUME NEW i \in 1 .. Len(requests'[a]) PROVE requests'[a][i] = admitted'[a][Forgotten(a)' + i]
  BY <1>1, <1>3, <1>5, PruneEffect
<1>7. ASSUME NEW i \in 1 .. Forgotten(a)' PROVE Stale(admitted[a][i])'
  <2>1. Stale(admitted[a][i])
    BY <1>1, <1>5, PruneEffect
  <2> QED
    BY <1>3, <2>1 DEF Stale
<1>8. ASSUME NEW i \in 1 .. Len(admitted'[a]) PROVE admitted'[a][i] <= now'
  BY <1>3 DEF RateInv, Remembered
<1>9. Remembered(a)'
  BY <1>5, <1>6, <1>7, <1>8 DEF Remembered
<1>10. ASSUME NEW b \in Agent, b # a PROVE Remembered(b)'
  BY <1>1, <1>2, <1>10, RememberedKept DEF RateInv
<1>11. ASSUME NEW b \in Agent PROVE Spaced(b)'
  BY <1>1 DEF Spaced, RateInv
<1> QED
  BY <1>4, <1>9, <1>10, <1>11 DEF RateInv

\* An admitted query finds fewer than Limit admissions left in the window, so the
\* one Limit places before it has been pruned, and is a window old.
LEMMA AdmitKeepsRate ==
  ASSUME RateInv, NEW a \in Agent, Admit(a), now' = now
  PROVE  RateInv'
<1>1. PICK n \in 0 .. Len(requests[a]) :
        /\ PrunesAt(requests[a], n)
        /\ ~Full(a, Pruned(a, n))
        /\ requests' = [requests EXCEPT ![a] = Append(Pruned(a, n), now)]
        /\ admitted' = [admitted EXCEPT ![a] = Append(admitted[a], now)]
  BY DEF Admit
<1> DEFINE N == Len(admitted[a])
           k == Forgotten(a) + n
<1>2. now \in Nat /\ requests \in [Agent -> Seq(Nat)] /\ admitted \in [Agent -> Seq(Nat)]
  BY DEF RateInv, RateTypes
<1>3. N \in Nat /\ Limit[a] \in Nat /\ admitted[a] \in Seq(Nat)
  BY <1>2, PolicyAssumption DEF PolicyAssumption
<1>4. Pruned(a, n) \in Seq(Nat) /\ k \in 0 .. N /\ Len(Pruned(a, n)) = N - k
  BY <1>1, PruneEffect
<1>5. \A i \in 1 .. N - k : Pruned(a, n)[i] = admitted[a][k + i]
  BY <1>1, <1>4, PruneEffect
<1>6. \A i \in 1 .. k : Stale(admitted[a][i])
  BY <1>1, PruneEffect
<1>7. requests'[a] = Append(Pruned(a, n), now) /\ admitted'[a] = Append(admitted[a], now)
  BY <1>1, <1>2
<1> HIDE DEF N, k
<1>8. Len(requests'[a]) = N - k + 1 /\ Len(admitted'[a]) = N + 1
  <2>1. Len(Append(Pruned(a, n), now)) = Len(Pruned(a, n)) + 1
    <3>1. Pruned(a, n) \in Seq(Nat)
      BY <1>4
    <3>2. now \in Nat
      BY <1>2
    <3> QED
      BY <3>1, <3>2, AppendOne
  <2>2. Len(Append(admitted[a], now)) = Len(admitted[a]) + 1
    BY <1>2, <1>3
  <2>3. Len(requests'[a]) = N - k + 1
    BY <1>4, <1>7, <2>1
  <2> QED
    BY <1>7, <2>2, <2>3 DEF N
<1>9. requests'[a][N - k + 1] = now /\ admitted'[a][N + 1] = now
  BY <1>2, <1>3, <1>4, <1>7 DEF N
<1>10. \A i \in 1 .. N - k : requests'[a][i] = Pruned(a, n)[i]
  BY <1>2, <1>3, <1>4, <1>7
<1>11. \A i \in 1 .. N : admitted'[a][i] = admitted[a][i]
  BY <1>2, <1>3, <1>7 DEF N
<1>12. RateTypes'
  BY <1>1, <1>2, <1>3, <1>4 DEF RateTypes
<1>13. Forgotten(a)' = k
  <2>1. Forgotten(a)' = Len(admitted'[a]) - Len(requests'[a])
    BY DEF Forgotten
  <2> QED
    BY <1>3, <1>4, <1>8, <2>1
<1>14. ASSUME NEW i \in 1 .. Len(requests'[a]) PROVE requests'[a][i] = admitted'[a][Forgotten(a)' + i]
  <2>1. CASE i = N - k + 1
    <3>1. k + i = N + 1
      BY <1>3, <1>4, <2>1
    <3> QED
      BY <1>9, <1>13, <2>1, <3>1
  <2>2. CASE i # N - k + 1
    <3>1. i \in 1 .. N - k /\ k + i \in 1 .. N
      BY <1>3, <1>4, <1>8, <2>2
    <3> QED
      BY <1>5, <1>10, <1>11, <1>13, <3>1
  <2> QED
    BY <2>1, <2>2
<1>15. ASSUME NEW i \in 1 .. k PROVE i \in 1 .. N /\ admitted'[a][i] = admitted[a][i] /\ Stale(admitted[a][i])
  BY <1>3, <1>4, <1>6, <1>11
<1>16. ASSUME NEW i \in 1 .. Forgotten(a)' PROVE Stale(admitted[a][i])'
  BY <1>13, <1>15 DEF Stale
<1>17. ASSUME NEW i \in 1 .. Len(admitted'[a]) PROVE admitted'[a][i] <= now'
  <2>1. \A j \in 1 .. N : admitted[a][j] <= now
    BY DEF RateInv, Remembered, N
  <2>2. i = N + 1 \/ i \in 1 .. N
    BY <1>3, <1>8
  <2> QED
    BY <1>2, <1>9, <1>11, <2>1, <2>2
<1>18. Remembered(a)'
  <2>1. Forgotten(a)' \in Nat
    BY <1>3, <1>4, <1>13
  <2> QED
    BY <1>14, <1>16, <1>17, <2>1 DEF Remembered
<1>19. Spaced(a)'
  <2>1. SUFFICES ASSUME NEW i \in 1 .. N + 1, i + Limit[a] \in 1 .. N + 1
                 PROVE  admitted'[a][i + Limit[a]] - admitted'[a][i] >= RateWindow
    <3>1. DOMAIN admitted'[a] = 1 .. N + 1
      BY <1>2, <1>3, <1>7 DEF N
    <3> QED
      BY <3>1 DEF Spaced
  <2>2. CASE i + Limit[a] \in 1 .. N
    <3>1. i \in 1 .. N
      BY <1>3, <2>2
    <3>2. admitted[a][i + Limit[a]] - admitted[a][i] >= RateWindow
      BY <1>3, <2>2, <3>1 DEF RateInv, Spaced, N
    <3> QED
      BY <1>11, <2>2, <3>1, <3>2
  <2>3. CASE i + Limit[a] = N + 1
    <3>1. N - k < Limit[a]
      BY <1>1, <1>3, <1>4 DEF Full
    <3>2. i \in 1 .. k
      BY <1>3, <1>4, <2>3, <3>1
    <3>3. now - admitted[a][i] >= RateWindow /\ admitted'[a][i] = admitted[a][i]
      BY <1>15, <3>2 DEF Stale
    <3> QED
      BY <1>9, <2>3, <3>3
  <2> QED
    BY <1>3, <2>1, <2>2, <2>3
<1>20. ASSUME NEW b \in Agent, b # a PROVE Remembered(b)' /\ Spaced(b)'
  <2>1. Remembered(b) /\ Spaced(b) /\ requests'[b] = requests[b] /\ admitted'[b] = admitted[b]
    BY <1>1, <1>2, <1>20 DEF RateInv
  <2>2. Spaced(b)'
    BY <2>1 DEF Spaced
  <2> QED
    BY <2>1, <2>2, RememberedKept
<1> QED
  BY <1>12, <1>18, <1>19, <1>20 DEF RateInv

\* The passing of time only ages what is remembered.
LEMMA TickKeepsRate ==
  ASSUME RateInv, Tick PROVE RateInv'
<1>1. now \in Nat /\ now' = now + 1 /\ requests' = requests /\ admitted' = admitted
  BY DEF RateInv, RateTypes, Tick, quotaVars
<1>2. RateTypes'
  BY <1>1 DEF RateInv, RateTypes
<1>3. ASSUME NEW a \in Agent PROVE Remembered(a)' /\ Spaced(a)'
  <2>1. Remembered(a) /\ Spaced(a) /\ admitted[a] \in Seq(Nat)
    BY DEF RateInv, RateTypes
  <2>2. Forgotten(a)' = Forgotten(a) /\ Len(admitted[a]) \in Nat /\ Forgotten(a) <= Len(admitted[a])
    <3>1. Len(requests[a]) \in Nat /\ Len(admitted[a]) \in Nat
      BY DEF RateInv, RateTypes
    <3>2. Forgotten(a)' = Forgotten(a)
      BY <1>1 DEF Forgotten
    <3>3. Forgotten(a) = Len(admitted[a]) - Len(requests[a])
      BY DEF Forgotten
    <3>4. Forgotten(a) <= Len(admitted[a])
      BY <3>1, <3>3, HeadLength
    <3> QED
      BY <3>1, <3>2, <3>4
  <2>3. ASSUME NEW i \in 1 .. Len(admitted[a]) PROVE admitted[a][i] \in Nat /\ admitted[a][i] <= now
    BY <2>1 DEF Remembered
  <2>4. ASSUME NEW i \in 1 .. Forgotten(a) PROVE Stale(admitted[a][i])'
    <3>1. i \in 1 .. Len(admitted[a]) /\ Stale(admitted[a][i])
      BY <2>1, <2>2 DEF Remembered
    <3> QED
      BY <1>1, <2>3, <3>1, PolicyAssumption DEF Stale, PolicyAssumption
  <2> QED
    BY <1>1, <2>1, <2>2, <2>3, <2>4 DEF Remembered, Spaced
<1> QED
  BY <1>2, <1>3 DEF RateInv

\* Every other step leaves the quota alone, except a reset, which empties it.
LEMMA StepKeepsRate == RateInv /\ [Next]_vars => RateInv'
<1> SUFFICES ASSUME RateInv, [Next]_vars PROVE RateInv'
  OBVIOUS
<1>1. ASSUME UNCHANGED <<now, quotaVars>> PROVE RateInv'
  BY <1>1 DEF RateInv, RateTypes, Remembered, Forgotten, Spaced, Stale, quotaVars
<1>2. CASE Tick
  BY <1>2, TickKeepsRate
<1>3. CASE QueryNext
  <2>1. CASE \E t \in Thread : (\E src \in Source, d \in Domain : Begin(t, src, d)) \/ Reply(t)
    BY <1>1, <2>1 DEF Begin, Reply
  <2>2. CASE \E t \in Thread, a \in Agent, d \in Domain : DecideQuery(t, a, d)
    <3>1. PICK t \in Thread, a \in Agent, d \in Domain : DecideQuery(t, a, d)
      BY <2>2
    <3>2. now' = now /\ (Throttle(a) \/ Admit(a))
      BY <3>1 DEF DecideQuery, DecideThrottled, DecideOverBudget, DecideNoRecord, DecideNoEndpoint, DecideAllowed, Decide
    <3> QED
      BY <3>2, ThrottleKeepsRate, AdmitKeepsRate
  <2> QED
    BY <1>3, <2>1, <2>2 DEF QueryNext
<1>4. CASE PoolNext
  BY <1>1, <1>4 DEF PoolNext, SetEndpointHealth, RecordProbe, ClearEndpointOverride
<1>5. CASE AccessNext
  BY <1>1, <1>5 DEF AccessNext, SetDomainAccess, Recompile
<1>6. CASE BudgetNext
  BY <1>1, <1>6 DEF BudgetNext, SpendReport, ResetBudgets
<1>7. CASE Reset
  <2>1. <<>> \in Seq(Nat) /\ Len(<<>>) = 0 /\ DOMAIN <<>> = {}
    OBVIOUS
  <2>2. now' = now /\ requests' = [a \in Agent |-> <<>>] /\ admitted' = [a \in Agent |-> <<>>]
    BY <1>7 DEF Reset, Nobody
  <2> QED
    BY <2>1, <2>2 DEF RateInv, RateTypes, Remembered, Spaced, Forgotten
<1>8. CASE UNCHANGED vars
  BY <1>1, <1>8 DEF vars
<1> QED
  BY <1>2, <1>3, <1>4, <1>5, <1>6, <1>7, <1>8 DEF Next

\* The quota of every agent holds over the whole history of admissions, for any
\* number of threads, any limit and any window.
THEOREM RateIsBounded == Spec => []RateBound
<1>1. RateInv => RateBound
  BY DEF RateInv, RateBound, Spaced
<1> QED
  BY <1>1, RateInit, StepKeepsRate, PTL DEF Spec

-----------------------------------------------------------------------------
\* No query that begins between two access changes sees an outdated snapshot.
THEOREM SnapshotIsCurrent == Spec => []SnapshotCurrent
<1>1. Init => SnapshotCurrent
  BY DEF Init, SnapshotCurrent
<1>2. SnapshotCurrent /\ [Next]_vars => SnapshotCurrent'
  <2> SUFFICES ASSUME SnapshotCurrent, [Next]_vars PROVE SnapshotCurrent'
    OBVIOUS
  <2>1. CASE UNCHANGED accessVars
    BY <2>1 DEF SnapshotCurrent, Unlocked, accessVars
  <2>2. CASE \E a \in Agent, p \in Pattern, allowed \in BOOLEAN : SetDomainAccess(a, p, allowed)
    BY <2>2 DEF SetDomainAccess, SnapshotCurrent, Unlocked, NoEdit
  <2>3. CASE Recompile
    BY <2>3 DEF Recompile, SnapshotCurrent
  <2>4. CASE Reset
    BY <2>4 DEF Reset, SnapshotCurrent
  <2>5. CASE Tick \/ BudgetNext
    BY <2>1, <2>5 DEF Tick, BudgetNext, SpendReport, ResetBudgets
  <2>6. CASE PoolNext
    BY <2>1, <2>6 DEF PoolNext, SetEndpointHealth, RecordProbe, ClearEndpointOverride
  <2>7. CASE QueryNext
    <3>1. CASE \E t \in Thread : (\E src \in Source, d \in Domain : Begin(t, src, d)) \/ Reply(t)
      BY <2>1, <3>1 DEF Begin, Reply
    <3>2. CASE \E t \in Thread, a \in Agent, d \in Domain : DecideQuery(t, a, d)
      BY <2>1, <3>2 DEF DecideQuery, DecideThrottled, DecideOverBudget, DecideNoRecord, DecideNoEndpoint,
         DecideAllowed, Decide
    <3> QED
      BY <2>7, <3>1, <3>2 DEF QueryNext
  <2> QED
    BY <2>1, <2>2, <2>3, <2>4, <2>5, <2>6, <2>7 DEF Next, AccessNext, vars
<1> QED
  BY <1>1, <1>2, PTL DEF Spec

-----------------------------------------------------------------------------
(* Sums over the ledger. *)

\* A set of numbers that is not empty has a least one: the form of induction
\* in which the provers can use it.
LEMMA Least ==
  ASSUME NEW T, T \subseteq Nat, T # {}
  PROVE  \E m \in T : \A n \in T : m <= n
<1>1. \E m \in T : \A n \in T : ~(<<n, m>> \in OpToRel(<, Nat))
  BY NatLessThanWellFounded, WFMin, Zenon
<1>2. PICK m \in T : \A n \in T : ~(<<n, m>> \in OpToRel(<, Nat))
  BY <1>1
<1>3. m \in T /\ \A n \in T : ~(n < m)
  BY <1>2, Zenon DEF OpToRel
<1> QED
  BY <1>3

\* A set of numbers that has zero and with each number the next has them all.
LEMMA Induct ==
  ASSUME NEW T, 0 \in T, \A n \in Nat : n \in T => n + 1 \in T
  PROVE  Nat \subseteq T
<1> SUFFICES ASSUME Nat \ T # {} PROVE FALSE
  OBVIOUS
<1>1. PICK m \in Nat \ T : \A n \in Nat \ T : m <= n
  BY Least
<1>2. m # 0 /\ m - 1 \in Nat
  BY <1>1
<1>3. m - 1 \in T
  BY <1>1, <1>2
<1>4. m - 1 + 1 = m
  BY <1>1
<1> QED
  BY <1>1, <1>2, <1>3, <1>4

\* The ledger: what was charged when.
Entries == Seq(Nat \X Nat)

\* The sums of the first entries, as Total defines them.
Sums(s) == CHOOSE f : f = [n \in 0 .. Len(s) |-> IF n = 0 THEN 0 ELSE f[n - 1] + s[n][2]]
Summed(f, s, m) == \A n \in 0 .. m : f[n] \in Nat /\ f[n] = IF n = 0 THEN 0 ELSE f[n - 1] + s[n][2]

LEMMA SumsExist ==
  ASSUME NEW s \in Entries
  PROVE  Summed(Sums(s), s, Len(s)) /\ Total(s) = Sums(s)[Len(s)]
<1>0. Len(s) \in Nat /\ \A n \in 1 .. Len(s) : s[n][2] \in Nat
  BY DEF Entries
<1> DEFINE T == {m \in Nat : m <= Len(s) => \E f : f = [n \in 0 .. m |-> f[n]] /\ Summed(f, s, m)}
<1>1. 0 \in T
  <2> DEFINE g == [n \in 0 .. 0 |-> 0]
  <2>1. g = [n \in 0 .. 0 |-> g[n]] /\ Summed(g, s, 0)
    BY DEF Summed
  <2> QED
    BY <2>1
<1>2. ASSUME NEW m \in Nat, m \in T PROVE m + 1 \in T
  <2> SUFFICES ASSUME m + 1 <= Len(s)
               PROVE  \E f : f = [n \in 0 .. m + 1 |-> f[n]] /\ Summed(f, s, m + 1)
    OBVIOUS
  <2>1. PICK f : f = [n \in 0 .. m |-> f[n]] /\ Summed(f, s, m)
    BY <1>0, <1>2
  <2> DEFINE g == [n \in 0 .. m + 1 |-> IF n = m + 1 THEN f[m] + s[m + 1][2] ELSE f[n]]
  <2>2. f[m] \in Nat /\ s[m + 1][2] \in Nat
    <3>1. m \in 0 .. m /\ m + 1 \in 1 .. Len(s)
      BY <1>0
    <3>2. f[m] \in Nat
      BY <2>1, <3>1 DEF Summed
    <3> QED
      BY <1>0, <3>1, <3>2
  <2>3. \A n \in 0 .. m : g[n] = f[n]
    OBVIOUS
  <2>4. g[m + 1] = f[m] + s[m + 1][2]
    OBVIOUS
  <2>5. g = [n \in 0 .. m + 1 |-> g[n]]
    OBVIOUS
  <2> HIDE DEF g
  <2>6. ASSUME NEW n \in 0 .. m + 1 PROVE g[n] \in Nat /\ g[n] = IF n = 0 THEN 0 ELSE g[n - 1] + s[n][2]
    <3>1. CASE n = m + 1
      <4>1. n - 1 = m /\ m \in 0 .. m
        BY <3>1
      <4>2. g[n - 1] = f[m]
        BY <2>3, <4>1
      <4> QED
        BY <2>2, <2>4, <3>1, <4>2
    <3>2. CASE n # m + 1
      <4>1. n \in 0 .. m /\ (n # 0 => n - 1 \in 0 .. m)
        BY <3>2
      <4> QED
        BY <2>1, <2>3, <4>1 DEF Summed
    <3> QED
      BY <3>1, <3>2
  <2> QED
    BY <2>5, <2>6 DEF Summed
<1>3. Len(s) \in T
  BY <1>0, <1>1, <1>2, Induct
<1>4. PICK f : f = [n \in 0 .. Len(s) |-> f[n]] /\ Summed(f, s, Len(s))
  BY <1>0, <1>3
<1>5. f = [n \in 0 .. Len(s) |-> IF n = 0 THEN 0 ELSE f[n - 1] + s[n][2]]
  <2> DEFINE g == [n \in 0 .. Len(s) |-> IF n = 0 THEN 0 ELSE f[n - 1] + s[n][2]]
  <2>1. \A n \in 0 .. Len(s) : f[n] = g[n]
    BY <1>4 DEF Summed
  <2> QED
    BY <1>4, <2>1
<1>6. Sums(s) = [n \in 0 .. Len(s) |-> IF n = 0 THEN 0 ELSE Sums(s)[n - 1] + s[n][2]]
  BY <1>5 DEF Sums
<1> DEFINE h == Sums(s)
<1>7. h[0] = 0 /\ \A n \in 1 .. Len(s) : h[n] = h[n - 1] + s[n][2] 
  <2> HIDE DEF h
  <2>1. h = [n \in 0 .. Len(s) |-> IF n = 0 THEN 0 ELSE h[n - 1] + s[n][2]]
    BY <1>6 DEF h
  <2> QED
    BY <1>0, <2>1
<1> DEFINE U == {m \in Nat : m <= Len(s) => h[m] \in Nat}
<1> HIDE DEF h
<1>8. 0 \in U
  BY <1>7
<1>9. ASSUME NEW m \in Nat, m \in U PROVE m + 1 \in U
  <2> SUFFICES ASSUME m + 1 <= Len(s) PROVE h[m + 1] \in Nat
    OBVIOUS
  <2>1. h[m] \in Nat /\ m + 1 \in 1 .. Len(s)
    BY <1>0, <1>9
  <2>2. h[m + 1] = h[m + 1 - 1] + s[m + 1][2] /\ s[m + 1][2] \in Nat
    BY <1>0, <1>7, <2>1
  <2> QED
    BY <2>1, <2>2
<1>10. \A m \in 0 .. Len(s) : h[m] \in Nat
  <2>1. Nat \subseteq U
    BY <1>8, <1>9, Induct
  <2> QED
    BY <1>0, <2>1
<1>11. Summed(h, s, Len(s))
  BY <1>0, <1>7, <1>10 DEF Summed
<1>12. Total(s) = h[Len(s)]
  BY DEF Total, h, Sums
<1> QED
  BY <1>11, <1>12 DEF h
\* Sums over a stretch of a sequence, from the sums over all of it.
LEMMA Shifted ==
  ASSUME NEW s \in Entries, NEW t \in Entries, NEW m \in Nat, m + Len(t) <= Len(s),
         \A i \in 1 .. Len(t) : t[i] = s[m + i]
  PROVE  \A n \in 0 .. Len(t) : Sums(t)[n] = Sums(s)[m + n] - Sums(s)[m]
<1>1. Len(s) \in Nat /\ Len(t) \in Nat
  BY DEF Entries
<1>2. Summed(Sums(s), s, Len(s)) /\ Summed(Sums(t), t, Len(t))
  BY SumsExist
<1> DEFINE f == Sums(s)
           g == Sums(t)
           T == {n \in Nat : n <= Len(t) => g[n] = f[m + n] - f[m]}
<1> HIDE DEF f, g
<1>3. \A n \in 0 .. Len(s) : f[n] \in Nat /\ f[n] = IF n = 0 THEN 0 ELSE f[n - 1] + s[n][2]
  BY <1>2 DEF Summed, f
<1>4. \A n \in 0 .. Len(t) : g[n] \in Nat /\ g[n] = IF n = 0 THEN 0 ELSE g[n - 1] + t[n][2]
  BY <1>2 DEF Summed, g
<1>5. 0 \in T
  <2>1. g[0] = 0 /\ m \in 0 .. Len(s) /\ m + 0 = m
    BY <1>1, <1>4
  <2>2. f[m] \in Nat
    BY <1>3, <2>1
  <2> QED
    BY <2>1, <2>2
<1>6. ASSUME NEW n \in Nat, n \in T PROVE n + 1 \in T
  <2> SUFFICES ASSUME n + 1 <= Len(t) PROVE g[n + 1] = f[m + (n + 1)] - f[m]
    OBVIOUS
  <2>1. n + 1 \in 0 .. Len(t) /\ n + 1 # 0 /\ n + 1 - 1 = n /\ n + 1 \in 1 .. Len(t) /\ n <= Len(t)
    BY <1>1
  <2>2. /\ m + (n + 1) \in 0 .. Len(s) /\ m + (n + 1) # 0 /\ m + (n + 1) - 1 = m + n
        /\ m \in 0 .. Len(s) /\ m + n \in 0 .. Len(s)
    BY <1>1
  <2>3. g[n + 1] = g[n] + t[n + 1][2]
    BY <1>4, <2>1
  <2>4. f[m + (n + 1)] = f[m + n] + s[m + (n + 1)][2]
    BY <1>3, <2>2
  <2>5. g[n] = f[m + n] - f[m]
    BY <1>6, <2>1
  <2>6. t[n + 1][2] = s[m + (n + 1)][2]
    BY <2>1
  <2>7. f[m] \in Nat /\ f[m + n] \in Nat /\ s[m + (n + 1)][2] \in Nat
    <3>1. m + (n + 1) \in 1 .. Len(s)
      BY <2>2
    <3>2. s[m + (n + 1)] \in Nat \X Nat
      BY <3>1 DEF Entries
    <3> QED
      BY <1>3, <2>2, <3>2
  <2>8. g[n + 1] = f[m + n] - f[m] + s[m + (n + 1)][2]
    BY <2>3, <2>5, <2>6
  <2> HIDE DEF T
  <2> QED
    BY <2>4, <2>7, <2>8
<1>7. Nat \subseteq T
  BY <1>5, <1>6, Induct
<1> QED
  BY <1>1, <1>7 DEF f, g

\* Sums grow with the stretch they are taken over.
LEMMA SumsGrow ==
  ASSUME NEW s \in Entries, NEW k \in 0 .. Len(s), NEW i \in k .. Len(s)
  PROVE  /\ Sums(s)[k] \in Nat /\ Sums(s)[i] \in Nat
         /\ Sums(s)[k] <= Sums(s)[i]
<1>1. Len(s) \in Nat
  BY DEF Entries
<1>2. Summed(Sums(s), s, Len(s))
  BY SumsExist
<1> DEFINE f == Sums(s)
           T == {n \in Nat : k + n <= Len(s) => f[k] <= f[k + n]}
<1> HIDE DEF f
<1>3. \A n \in 0 .. Len(s) : f[n] \in Nat /\ f[n] = IF n = 0 THEN 0 ELSE f[n - 1] + s[n][2]
  BY <1>2 DEF Summed, f
<1>4. f[k] \in Nat /\ f[i] \in Nat
  BY <1>1, <1>3
<1>5. 0 \in T
  BY <1>4
<1>6. ASSUME NEW n \in Nat, n \in T PROVE n + 1 \in T
  <2> SUFFICES ASSUME k + (n + 1) <= Len(s) PROVE f[k] <= f[k + (n + 1)]
    OBVIOUS
  <2>1. /\ k + (n + 1) \in 1 .. Len(s) /\ k + (n + 1) - 1 = k + n /\ k + n \in 0 .. Len(s)
        /\ k + (n + 1) \in 0 .. Len(s) /\ k + (n + 1) # 0
    BY <1>1
  <2>2. s[k + (n + 1)] \in Nat \X Nat
    BY <2>1 DEF Entries
  <2>3. f[k + (n + 1)] = f[k + n] + s[k + (n + 1)][2]
    BY <1>3, <2>1
  <2>4. f[k] <= f[k + n] /\ f[k + n] \in Nat
    BY <1>1, <1>3, <1>6, <2>1
  <2>5. s[k + (n + 1)][2] \in Nat
    BY <2>2
  <2> QED
    BY <1>4, <2>3, <2>4, <2>5
<1>7. Nat \subseteq T
  BY <1>5, <1>6, Induct
<1>8. i - k \in Nat /\ k + (i - k) = i /\ i <= Len(s)
  BY <1>1
<1>9. i - k \in T
  BY <1>7, <1>8
<1>10. f[k] <= f[i]
  BY <1>8, <1>9
<1> QED
  BY <1>4, <1>10 DEF f

\* The total of a stretch.
LEMMA TotalOfStretch ==
  ASSUME NEW s \in Entries, NEW k \in 1 .. Len(s) + 1, NEW i \in k - 1 .. Len(s)
  PROVE  /\ SubSeq(s, k, i) \in Entries
         /\ Total(SubSeq(s, k, i)) = Sums(s)[i] - Sums(s)[k - 1]
<1>1. Len(s) \in Nat
  BY DEF Entries
<1> DEFINE t == SubSeq(s, k, i)
<1>2. t \in Entries /\ Len(t) = i - k + 1 /\ \A j \in 1 .. i - k + 1 : t[j] = s[k + j - 1]
  <2>1. i - k + 1 \in Nat
    BY <1>1
  <2>2. Len(t) = i - k + 1
    BY <1>1, <2>1
  <2>3. \A j \in 1 .. i - k + 1 : t[j] = s[k + j - 1]
    BY <1>1
  <2>4. t \in Entries
    <3>1. \A j \in k .. i : s[j] \in Nat \X Nat
      <4>1. \A j \in k .. i : j \in 1 .. Len(s)
        BY <1>1
      <4> QED
        BY <4>1 DEF Entries
    <3> QED
      BY <1>1, <3>1 DEF Entries
  <2> QED
    BY <2>2, <2>3, <2>4
<1> HIDE DEF t
<1>3. k - 1 \in Nat /\ k - 1 + Len(t) = i /\ Len(t) \in Nat
  BY <1>1, <1>2
<1>4. \A j \in 1 .. Len(t) : t[j] = s[k - 1 + j]
  <2>1. \A j \in 1 .. Len(t) : k + j - 1 = k - 1 + j
    BY <1>3
  <2> QED
    BY <1>2, <2>1
<1>5. \A n \in 0 .. Len(t) : Sums(t)[n] = Sums(s)[k - 1 + n] - Sums(s)[k - 1]
  <2>1. k - 1 + Len(t) <= Len(s)
    BY <1>1, <1>3
  <2> QED
    BY <1>2, <1>3, <1>4, <2>1, Shifted
<1>6. Total(t) = Sums(t)[Len(t)]
  BY <1>2, SumsExist
<1> QED
  BY <1>2, <1>3, <1>5, <1>6 DEF t

\* One more charge.
LEMMA SumsAppend ==
  ASSUME NEW s \in Entries, NEW x \in Nat \X Nat
  PROVE  /\ Append(s, x) \in Entries
         /\ \A n \in 0 .. Len(s) : Sums(Append(s, x))[n] = Sums(s)[n]
         /\ Sums(Append(s, x))[Len(s) + 1] = Sums(s)[Len(s)] + x[2]
<1> DEFINE t == Append(s, x)
<1>1. Len(s) \in Nat
  BY DEF Entries
<1>2. /\ t \in Entries /\ Len(t) = Len(s) + 1 /\ t[Len(s) + 1] = x
      /\ \A j \in 1 .. Len(s) : t[j] = s[j]
  BY DEF Entries
<1> HIDE DEF t
<1>3. Summed(Sums(t), t, Len(t))
  BY <1>2, SumsExist
<1>4. Sums(t)[0] = 0
  BY <1>1, <1>2, <1>3 DEF Summed
<1>5. \A n \in 0 .. Len(s) : Sums(s)[n] = Sums(t)[0 + n] - Sums(t)[0]
  <2>1. \A j \in 1 .. Len(s) : s[j] = t[0 + j]
    BY <1>1, <1>2
  <2>2. 0 + Len(s) <= Len(t)
    BY <1>1, <1>2
  <2> QED
    BY <1>2, <2>1, <2>2, Shifted
<1>6. \A n \in 0 .. Len(s) : Sums(t)[n] = Sums(s)[n]
  <2> SUFFICES ASSUME NEW n \in 0 .. Len(s) PROVE Sums(t)[n] = Sums(s)[n]
    OBVIOUS
  <2>1. n \in 0 .. Len(t) /\ 0 + n = n
    BY <1>1, <1>2
  <2>2. Sums(t)[n] \in Nat
    BY <1>3, <2>1 DEF Summed
  <2> QED
    BY <1>4, <1>5, <2>1, <2>2
<1>7. Sums(t)[Len(s) + 1] = Sums(t)[Len(s)] + x[2]
  <2>1. Len(s) + 1 \in 0 .. Len(t) /\ Len(s) + 1 # 0 /\ Len(s) + 1 - 1 = Len(s)
    BY <1>1, <1>2
  <2> QED
    BY <1>2, <1>3, <2>1 DEF Summed
<1> QED
  BY <1>1, <1>2, <1>6, <1>7 DEF t

-----------------------------------------------------------------------------
(***************************************************************************)
(* The budget bound is not inductive either: what decides a charge is the  *)
(* ledger, not the history.  The ledger is the tail of the history, and    *)
(* all that was popped from it has left the window, so a stretch that is   *)
(* younger than the window lies in what spent() adds up.                   *)
(***************************************************************************)
Past(a) == Len(charged[a]) - Len(spend[a])

LedgerTypes ==
  /\ now \in Nat
  /\ spend \in [Agent -> Entries]
  /\ charged \in [Agent -> Entries]

InLedger(a) ==
  /\ Past(a) \in Nat
  /\ \A i \in 1 .. Len(spend[a]) : spend[a][i] = charged[a][Past(a) + i]
  /\ \A i \in 1 .. Past(a) : Expired(charged[a][i])

WithinBudget(a) ==
  \A k, i \in DOMAIN charged[a] :
    k <= i /\ charged[a][i][1] - charged[a][k][1] < BudgetWindow => Total(SubSeq(charged[a], k, i)) <= MaxCost[a]

LedgerInv == LedgerTypes /\ \A a \in Agent : InLedger(a) /\ WithinBudget(a)

\* The pops stop at the first entry that has not expired.
LEMMA PoppedIsHead ==
  ASSUME NEW s \in Entries
  PROVE  /\ Popped(s) \in 0 .. Len(s)
         /\ \A i \in 1 .. Popped(s) : Expired(s[i])
         /\ Popped(s) < Len(s) => ~Expired(s[Popped(s) + 1])
<1>1. Len(s) \in Nat
  BY DEF Entries
<1> DEFINE T == {n \in 0 .. Len(s) : n < Len(s) => ~Expired(s[n + 1])}
<1>2. T \subseteq Nat /\ Len(s) \in T
  BY <1>1
<1>3. PICK m \in T : \A n \in T : m <= n
  <2>1. T # {}
    BY <1>2
  <2> HIDE DEF T
  <2> QED
    BY <1>2, <2>1, Least
<1>4. ASSUME NEW i \in 1 .. m PROVE Expired(s[i])
  <2>1. i - 1 \in 0 .. Len(s) /\ i - 1 < Len(s) /\ i - 1 + 1 = i /\ ~(m <= i - 1)
    BY <1>1, <1>3
  <2>2. i - 1 \notin T
    BY <1>3, <2>1
  <2> QED
    BY <2>1, <2>2
<1>5. \E n \in 0 .. Len(s) : (\A i \in 1 .. n : Expired(s[i])) /\ (n < Len(s) => ~Expired(s[n + 1]))
  BY <1>3, <1>4
<1> QED
  BY <1>5 DEF Popped

\* What spent() leaves of an agent's ledger is a tail of its history that has
\* all that has not expired.
LEMMA FreshEffect ==
  ASSUME LedgerInv, NEW a \in Agent
  PROVE  \E f \in 0 .. Len(charged[a]) :
           /\ Fresh(spend[a]) \in Entries
           /\ Len(Fresh(spend[a])) = Len(charged[a]) - f
           /\ \A i \in 1 .. Len(charged[a]) - f : Fresh(spend[a])[i] = charged[a][f + i]
           /\ \A i \in 1 .. f : Expired(charged[a][i])
<1> DEFINE n == Popped(spend[a])
           N == Len(charged[a])
           M == Len(spend[a])
           f == Past(a) + n
           rest == Fresh(spend[a])
<1>1. spend[a] \in Seq(Nat \X Nat) /\ charged[a] \in Seq(Nat \X Nat)
  BY DEF LedgerInv, LedgerTypes, Entries
<1>2. N \in Nat /\ M \in Nat
  BY <1>1
<1>3. n \in 0 .. M /\ \A i \in 1 .. n : Expired(spend[a][i])
  BY <1>1, PoppedIsHead DEF Entries
<1>4. Past(a) \in Nat /\ Past(a) = N - M
  BY DEF LedgerInv, InLedger, Past
<1>5. rest \in Seq(Nat \X Nat) /\ Len(rest) = M - n /\ \A i \in 1 .. M - n : rest[i] = spend[a][n + i]
  <2>1. rest = SubSeq(spend[a], n + 1, Len(spend[a]))
    BY DEF Fresh
  <2> HIDE DEF n, rest
  <2> QED
    BY <1>1, <1>3, <2>1, SubSeqTail
<1>6. \A i \in 1 .. M : spend[a][i] = charged[a][Past(a) + i]
  BY DEF LedgerInv, InLedger
<1>7. \A i \in 1 .. Past(a) : Expired(charged[a][i])
  BY DEF LedgerInv, InLedger
<1> HIDE DEF n, N, M, rest
<1>8. f \in 0 .. N /\ M - n = N - f
  BY <1>2, <1>3, <1>4, TailLength
<1>9. ASSUME NEW i \in 1 .. N - f PROVE rest[i] = charged[a][f + i]
  <2>1. i \in 1 .. M - n /\ n + i \in 1 .. M /\ Past(a) + (n + i) = f + i
    BY <1>2, <1>3, <1>4, <1>8
  <2> QED
    BY <1>5, <1>6, <2>1
<1>10. ASSUME NEW i \in 1 .. f PROVE Expired(charged[a][i])
  <2>1. CASE i \in 1 .. Past(a)
    BY <1>7, <2>1
  <2>2. CASE i \notin 1 .. Past(a)
    <3>1. i - Past(a) \in 1 .. n /\ i - Past(a) \in 1 .. M /\ Past(a) + (i - Past(a)) = i
      BY <1>2, <1>3, <1>4, <2>2
    <3> QED
      BY <1>3, <1>6, <3>1
  <2> QED
    BY <2>1, <2>2
<1>11. rest \in Entries /\ Len(rest) = N - f
  BY <1>5, <1>8 DEF Entries
<1> QED
  BY <1>8, <1>9, <1>10, <1>11 DEF N, rest

\* An agent whose ledger a step leaves alone.
LEMMA LedgerKept ==
  ASSUME NEW b \in Agent, InLedger(b), WithinBudget(b), now' = now,
         spend'[b] = spend[b], charged'[b] = charged[b]
  PROVE  InLedger(b)' /\ WithinBudget(b)'
<1>1. Past(b)' = Past(b)
  BY DEF Past
<1>2. ASSUME NEW i \in 1 .. Past(b) PROVE Expired(charged[b][i])'
  BY DEF InLedger, Expired
<1>3. InLedger(b)'
  BY <1>1, <1>2 DEF InLedger
<1>4. WithinBudget(b)'
  BY DEF WithinBudget
<1> QED
  BY <1>3, <1>4

\* Adding up what an agent spent pops what has expired and nothing else.
LEMMA SpentKeepsLedger ==
  ASSUME LedgerInv, NEW a \in Agent, now' = now, charged' = charged,
         spend' = [spend EXCEPT ![a] = Fresh(spend[a])]
  PROVE  LedgerInv'
<1>1. now \in Nat /\ spend \in [Agent -> Entries] /\ charged \in [Agent -> Entries]
  BY DEF LedgerInv, LedgerTypes
<1>2. PICK f \in 0 .. Len(charged[a]) :
           /\ Fresh(spend[a]) \in Entries
           /\ Len(Fresh(spend[a])) = Len(charged[a]) - f
           /\ \A i \in 1 .. Len(charged[a]) - f : Fresh(spend[a])[i] = charged[a][f + i]
           /\ \A i \in 1 .. f : Expired(charged[a][i])
  BY FreshEffect
<1>3. spend'[a] = Fresh(spend[a]) /\ charged'[a] = charged[a] /\ Len(charged[a]) \in Nat
  BY <1>1 DEF Entries
<1>4. Past(a)' = f /\ f \in Nat
  <2>1. Past(a)' = Len(charged[a]) - Len(Fresh(spend[a]))
    BY <1>3 DEF Past
  <2> QED
    BY <1>2, <1>3, <2>1
<1>5. LedgerTypes'
  BY <1>1, <1>2 DEF LedgerTypes
<1>6. ASSUME NEW i \in 1 .. Past(a)' PROVE Expired(charged[a][i])'
  <2>1. Expired(charged[a][i])
    BY <1>2, <1>4
  <2> QED
    BY <1>3, <2>1 DEF Expired
<1>7. InLedger(a)'
  BY <1>2, <1>3, <1>4, <1>6 DEF InLedger
<1>8. WithinBudget(a)'
  BY DEF LedgerInv, WithinBudget
<1>9. ASSUME NEW b \in Agent, b # a PROVE InLedger(b)' /\ WithinBudget(b)'
  BY <1>1, <1>9, LedgerKept DEF LedgerInv
<1> QED
  BY <1>5, <1>7, <1>8, <1>9 DEF LedgerInv

\* A charge that fits into what spent() adds up fits into every stretch that
\* ends with it and is younger than the window.
LEMMA ChargeKeepsLedger ==
  ASSUME LedgerInv, NEW a \in Agent, NEW d \in Domain, ~WouldExceed(a, d), Charge(a, d), now' = now
  PROVE  LedgerInv'
<1> DEFINE N == Len(charged[a])
           x == <<now, Cost[d]>>
           s == charged[a]
           t == charged'[a]
           rest == Fresh(spend[a])
<1>1. now \in Nat /\ spend \in [Agent -> Entries] /\ charged \in [Agent -> Entries]
  BY DEF LedgerInv, LedgerTypes
<1>2. PICK f \in 0 .. N :
           /\ rest \in Entries
           /\ Len(rest) = N - f
           /\ \A i \in 1 .. N - f : rest[i] = s[f + i]
           /\ \A i \in 1 .. f : Expired(s[i])
  BY FreshEffect
<1>3. x \in Nat \X Nat /\ x[1] = now /\ x[2] = Cost[d] /\ Cost[d] \in Nat /\ MaxCost[a] \in Nat
      /\ BudgetWindow \in Nat
  BY <1>1, PolicyAssumption DEF PolicyAssumption
<1>4. /\ spend' = [spend EXCEPT ![a] = Append(rest, x)]
      /\ charged' = [charged EXCEPT ![a] = Append(s, x)]
  BY DEF Charge
<1>5. spend'[a] = Append(rest, x) /\ t = Append(s, x)
  BY <1>1, <1>4
<1>6. s \in Entries /\ N \in Nat
  BY <1>1 DEF Entries
<1>7. Total(rest) + Cost[d] <= MaxCost[a]
  <2>1. Total(rest) = Sums(rest)[Len(rest)]
    BY <1>2, SumsExist
  <2>2. Len(rest) \in 0 .. Len(rest)
    BY <1>2, <1>6
  <2>3. Sums(rest)[Len(rest)] \in Nat
    BY <1>2, <2>2, SumsGrow
  <2>4. ~(Total(rest) + Cost[d] > MaxCost[a])
    BY DEF WouldExceed
  <2> QED
    BY <1>3, <2>1, <2>3, <2>4
<1> HIDE DEF N, x, rest, s, t
<1>8. /\ Append(rest, x) \in Entries /\ Len(Append(rest, x)) = N - f + 1
      /\ Append(rest, x)[N - f + 1] = x /\ \A i \in 1 .. N - f : Append(rest, x)[i] = rest[i]
  <2>1. rest \in Seq(Nat \X Nat)
    BY <1>2 DEF Entries
  <2> QED
    BY <1>2, <1>3, <2>1, AppendOne DEF Entries
<1>9. /\ t \in Entries /\ Len(t) = N + 1
      /\ t[N + 1] = x /\ \A i \in 1 .. N : t[i] = s[i]
  <2>1. s \in Seq(Nat \X Nat) /\ Len(s) = N
    BY <1>6 DEF Entries, s, N
  <2> QED
    BY <1>3, <1>5, <2>1, AppendOne DEF Entries
<1>10. LedgerTypes'
  BY <1>1, <1>4, <1>5, <1>8, <1>9 DEF LedgerTypes
<1>11. Past(a)' = f /\ f \in Nat
  <2>1. Past(a)' = Len(t) - Len(spend'[a])
    BY DEF Past, t
  <2> QED
    BY <1>5, <1>6, <1>8, <1>9, <2>1
<1>12. ASSUME NEW i \in 1 .. Len(spend'[a]) PROVE spend'[a][i] = t[f + i]
  <2>1. CASE i = N - f + 1
    <3>1. f + i = N + 1
      BY <1>6, <1>11, <2>1
    <3> QED
      BY <1>5, <1>8, <1>9, <2>1, <3>1
  <2>2. CASE i # N - f + 1
    <3>1. i \in 1 .. N - f /\ f + i \in 1 .. N
      BY <1>5, <1>6, <1>8, <2>2
    <3> QED
      BY <1>2, <1>5, <1>8, <1>9, <3>1
  <2> QED
    BY <2>1, <2>2
<1>13. ASSUME NEW i \in 1 .. f PROVE i \in 1 .. N /\ t[i] = s[i] /\ Expired(s[i])
  BY <1>2, <1>6, <1>9
<1>14. ASSUME NEW i \in 1 .. f PROVE Expired(charged[a][i])'
  BY <1>13 DEF Expired, t
<1>15. InLedger(a)'
  BY <1>11, <1>12, <1>14 DEF InLedger, t
<1>16. ASSUME NEW k \in 1 .. N, NEW i \in 1 .. N, k <= i
       PROVE  Total(SubSeq(t, k, i)) = Total(SubSeq(s, k, i)) /\ t[i] = s[i] /\ t[k] = s[k]
  <2>1. Len(s) = N
    BY DEF s, N
  <2>2. /\ k \in 1 .. Len(s) + 1 /\ i \in k - 1 .. Len(s) /\ i \in 0 .. Len(s) /\ k - 1 \in 0 .. Len(s)
        /\ k \in 1 .. Len(t) + 1 /\ i \in k - 1 .. Len(t)
    BY <1>6, <1>9, <1>16, <2>1
  <2>3. Total(SubSeq(s, k, i)) = Sums(s)[i] - Sums(s)[k - 1]
    BY <1>6, <2>2, TotalOfStretch
  <2>4. Total(SubSeq(t, k, i)) = Sums(t)[i] - Sums(t)[k - 1]
    BY <1>9, <2>2, TotalOfStretch
  <2>5. Sums(t)[i] = Sums(s)[i] /\ Sums(t)[k - 1] = Sums(s)[k - 1]
    BY <1>3, <1>5, <1>6, <2>2, SumsAppend
  <2> QED
    BY <1>9, <2>3, <2>4, <2>5
<1>17. ASSUME NEW k \in 1 .. N + 1, now - t[k][1] < BudgetWindow
       PROVE  Total(SubSeq(t, k, N + 1)) <= MaxCost[a]
  <2>0. Len(s) = N
    BY DEF s, N
  <2>1. k \notin 1 .. f
    <3> SUFFICES ASSUME k \in 1 .. f PROVE FALSE
      OBVIOUS
    <3>1. Expired(s[k]) /\ t[k] = s[k]
      BY <1>13
    <3>2. s[k] \in Nat \X Nat
      <4>1. k \in 1 .. Len(s)
        BY <1>13, <2>0
      <4> QED
        BY <1>6, <4>1 DEF Entries
    <3>3. s[k][1] \in Nat /\ s[k][1] <= now - BudgetWindow
      BY <3>1, <3>2 DEF Expired
    <3> QED
      BY <1>1, <1>3, <1>17, <3>1, <3>3
  <2>2. /\ f \in 0 .. N /\ k - 1 \in f .. N /\ k - 1 \in 0 .. N /\ N \in k - 1 .. N /\ N \in 0 .. N
        /\ k \in 1 .. Len(t) + 1 /\ N + 1 \in k - 1 .. Len(t)
        /\ f + 1 \in 1 .. Len(s) + 1 /\ N \in f .. Len(s) /\ f + 1 - 1 = f
    BY <1>2, <1>6, <1>9, <2>0, <2>1
  <2>3. Total(SubSeq(t, k, N + 1)) = Sums(t)[N + 1] - Sums(t)[k - 1]
    BY <1>9, <2>2, TotalOfStretch
  <2>4. Sums(t)[k - 1] = Sums(s)[k - 1] /\ Sums(t)[N + 1] = Sums(s)[N] + Cost[d]
    BY <1>3, <1>5, <1>6, <2>0, <2>2, SumsAppend
  <2>5. Sums(s)[f] \in Nat /\ Sums(s)[k - 1] \in Nat /\ Sums(s)[f] <= Sums(s)[k - 1]
    BY <1>6, <2>0, <2>2, SumsGrow
  <2>6. Sums(s)[N] \in Nat
    BY <1>6, <2>0, <2>2, SumsGrow
  <2>7. Total(rest) = Sums(s)[N] - Sums(s)[f]
    <3>1. N - f \in 0 .. Len(rest) /\ f + (N - f) = N /\ f \in Nat /\ f + Len(rest) <= Len(s)
      BY <1>2, <1>6, <2>0
    <3>2. \A i \in 1 .. Len(rest) : rest[i] = s[f + i]
      BY <1>2
    <3>3. \A n \in 0 .. Len(rest) : Sums(rest)[n] = Sums(s)[f + n] - Sums(s)[f]
      BY <1>2, <1>6, <3>1, <3>2, Shifted
    <3>4. Total(rest) = Sums(rest)[Len(rest)]
      BY <1>2, SumsExist
    <3> QED
      BY <1>2, <3>1, <3>3, <3>4
  <2> QED
    BY <1>3, <1>7, <2>3, <2>4, <2>5, <2>6, <2>7
<1>18. WithinBudget(a)'
  <2>1. DOMAIN t = 1 .. N + 1
    BY <1>9 DEF Entries
  <2>2. \A k, i \in 1 .. N :
          k <= i /\ s[i][1] - s[k][1] < BudgetWindow => Total(SubSeq(s, k, i)) <= MaxCost[a]
    <3>1. DOMAIN s = 1 .. N
      BY <1>6 DEF Entries, s, N
    <3> QED
      BY <3>1 DEF LedgerInv, WithinBudget, s
  <2>3. SUFFICES ASSUME NEW k \in 1 .. N + 1, NEW i \in 1 .. N + 1,
                        k <= i, t[i][1] - t[k][1] < BudgetWindow
                 PROVE  Total(SubSeq(t, k, i)) <= MaxCost[a]
    BY <2>1 DEF WithinBudget, t
  <2>4. CASE i = N + 1
    BY <1>3, <1>9, <1>17, <2>3, <2>4
  <2>5. CASE i # N + 1
    <3>1. k \in 1 .. N /\ i \in 1 .. N
      BY <1>6, <2>3, <2>5
    <3> QED
      BY <1>16, <2>2, <2>3, <3>1
  <2> QED
    BY <2>4, <2>5
<1>19. ASSUME NEW b \in Agent, b # a PROVE InLedger(b)' /\ WithinBudget(b)'
  BY <1>1, <1>4, <1>19, LedgerKept DEF LedgerInv
<1> QED
  BY <1>10, <1>15, <1>18, <1>19 DEF LedgerInv

\* The passing of time only takes entries out of the window.
LEMMA TickKeepsLedger ==
  ASSUME LedgerInv, Tick PROVE LedgerInv'
<1>1. now \in Nat /\ now' = now + 1 /\ spend' = spend /\ charged' = charged
  BY DEF LedgerInv, LedgerTypes, Tick, budgetVars
<1>2. LedgerTypes'
  BY <1>1 DEF LedgerInv, LedgerTypes
<1>3. ASSUME NEW a \in Agent PROVE InLedger(a)' /\ WithinBudget(a)'
  <2>1. InLedger(a) /\ WithinBudget(a) /\ charged[a] \in Entries /\ spend[a] \in Entries
    BY DEF LedgerInv, LedgerTypes
  <2>2. Past(a)' = Past(a)
    BY <1>1 DEF Past
  <2>3. Len(charged[a]) \in Nat /\ Len(spend[a]) \in Nat
    BY <2>1 DEF Entries
  <2>4. Past(a) <= Len(charged[a])
    BY <2>3, HeadLength DEF Past
  <2>5. ASSUME NEW i \in 1 .. Past(a) PROVE Expired(charged[a][i])'
    <3>1. i \in 1 .. Len(charged[a])
      BY <2>1, <2>3, <2>4 DEF InLedger
    <3>2. charged[a][i] \in Nat \X Nat
      BY <2>1, <3>1 DEF Entries
    <3>3. charged[a][i][1] \in Nat /\ charged[a][i][1] <= now - BudgetWindow
      BY <2>1, <3>2 DEF InLedger, Expired
    <3>4. charged[a][i][1] <= now + 1 - BudgetWindow
      BY <1>1, <3>3, PolicyAssumption DEF PolicyAssumption
    <3>5. charged'[a][i][1] <= now' - BudgetWindow
      <4>1. charged'[a][i][1] = charged[a][i][1]
        BY <1>1, Zenon
      <4>2. BudgetWindow \in Nat
        BY PolicyAssumption DEF PolicyAssumption
      <4> QED
        BY <1>1, <3>3, <3>4, <4>1, <4>2
    <3> QED
      BY <3>5 DEF Expired
  <2>6. InLedger(a)'
    BY <1>1, <2>1, <2>2, <2>5 DEF InLedger
  <2>7. WithinBudget(a)'
    BY <1>1, <2>1 DEF WithinBudget
  <2> QED
    BY <2>6, <2>7
<1> QED
  BY <1>2, <1>3 DEF LedgerInv

\* Where nobody was charged, nothing can be out of place.
LEMMA EmptyLedger == now \in Nat /\ spend = Nobody /\ charged = Nobody => LedgerInv
<1> SUFFICES ASSUME now \in Nat, spend = Nobody, charged = Nobody PROVE LedgerInv
  OBVIOUS
<1>1. <<>> \in Entries /\ Len(<<>>) = 0 /\ DOMAIN <<>> = {}
  BY DEF Entries
<1>2. LedgerTypes
  BY <1>1 DEF LedgerTypes, Nobody
<1>3. ASSUME NEW a \in Agent PROVE InLedger(a) /\ WithinBudget(a)
  <2>1. spend[a] = <<>> /\ charged[a] = <<>>
    BY DEF Nobody
  <2> QED
    BY <1>1, <2>1 DEF InLedger, WithinBudget, Past
<1> QED
  BY <1>2, <1>3 DEF LedgerInv

\* The decisions either leave the ledger alone, prune it or charge within budget.
LEMMA StepKeepsLedger == LedgerInv /\ [Next]_vars => LedgerInv'
<1> SUFFICES ASSUME LedgerInv, [Next]_vars PROVE LedgerInv'
  OBVIOUS
<1>0. now \in Nat
  BY DEF LedgerInv, LedgerTypes
<1>1. ASSUME now' = now, spend' = spend, charged' = charged PROVE LedgerInv'
  <2>1. LedgerTypes'
    BY <1>1 DEF LedgerInv, LedgerTypes
  <2>2. ASSUME NEW b \in Agent PROVE InLedger(b)' /\ WithinBudget(b)'
    BY <1>1, LedgerKept DEF LedgerInv
  <2> QED
    BY <2>1, <2>2 DEF LedgerInv
<1>2. ASSUME now' = now, spend' = Nobody, charged' = Nobody PROVE LedgerInv'
  <2>1. (now \in Nat /\ spend = Nobody /\ charged = Nobody)'
    BY <1>0, <1>2 DEF Nobody
  <2> QED
    BY <2>1, EmptyLedger, PTL
<1>3. CASE Tick
  BY <1>3, TickKeepsLedger
<1>4. CASE QueryNext
  <2>1. CASE \E t \in Thread : (\E src \in Source, d \in Domain : Begin(t, src, d)) \/ Reply(t)
    BY <1>1, <2>1 DEF Begin, Reply, budgetVars
  <2>2. CASE \E t \in Thread, a \in Agent, d \in Domain : DecideQuery(t, a, d)
    <3>1. PICK t \in Thread, a \in Agent, d \in Domain : DecideQuery(t, a, d)
      BY <2>2
    <3>2. now' = now
      BY <3>1 DEF DecideQuery, DecideThrottled, DecideOverBudget, DecideNoRecord, DecideNoEndpoint, DecideAllowed, Decide
    <3>3. UNCHANGED budgetVars \/ Refuse(a) \/ Pay(a, d)
      BY <3>1 DEF DecideQuery, DecideThrottled, DecideOverBudget, DecideNoRecord, DecideNoEndpoint, DecideAllowed
    <3>4. CASE UNCHANGED budgetVars
      BY <1>1, <3>2, <3>4 DEF budgetVars
    <3>5. CASE Refuse(a)
      BY <3>2, <3>5, SpentKeepsLedger DEF Refuse
    <3>6. CASE ~WouldExceed(a, d) /\ Charge(a, d)
      BY <3>2, <3>6, ChargeKeepsLedger
    <3> QED
      BY <3>3, <3>4, <3>5, <3>6 DEF Pay
  <2> QED
    BY <1>4, <2>1, <2>2 DEF QueryNext
<1>5. CASE PoolNext
  BY <1>1, <1>5 DEF PoolNext, SetEndpointHealth, RecordProbe, ClearEndpointOverride, budgetVars
<1>6. CASE AccessNext
  BY <1>1, <1>6 DEF AccessNext, SetDomainAccess, Recompile, budgetVars
<1>7. CASE BudgetNext
  BY <1>2, <1>7, SpentKeepsLedger DEF BudgetNext, SpendReport, ResetBudgets
<1>8. CASE Reset
  BY <1>2, <1>8 DEF Reset
<1>9. CASE UNCHANGED vars
  BY <1>1, <1>9 DEF vars, budgetVars
<1> QED
  BY <1>3, <1>4, <1>5, <1>6, <1>7, <1>8, <1>9 DEF Next

\* No stretch younger than the window costs an agent more than its budget, for
\* any prices, budgets and window and any number of threads, although what has
\* expired is popped from the ledger whenever anybody adds it up.
THEOREM BudgetIsBounded == Spec => []BudgetBound
<1>1. Init => LedgerInv
  BY EmptyLedger DEF Init
<1>2. LedgerInv => BudgetBound
  BY DEF LedgerInv, WithinBudget, BudgetBound
<1> QED
  BY <1>1, <1>2, StepKeepsLedger, PTL DEF Spec

-----------------------------------------------------------------------------
(* The remainder of the round-robin counter. *)

\* Division with remainder has one result.
LEMMA UniqueRemainder ==
  ASSUME NEW n \in Nat \ {0}, NEW q \in Int, NEW u \in Int, NEW a \in 0 .. n - 1, NEW b \in 0 .. n - 1,
         n * q + a = n * u + b
  PROVE  a = b
<1>1. n * (q - u) = b - a
  OBVIOUS
<1>2. CASE q - u >= 1
  <2>1. n * (q - u) >= n
    BY <1>2
  <2> QED
    BY <1>1, <2>1
<1>3. CASE q - u <= -1
  <2>1. n * (q - u) <= -n
    BY <1>3
  <2> QED
    BY <1>1, <2>1
<1>4. CASE q - u = 0
  <2>1. n * (q - u) = 0
    BY <1>4
  <2> QED
    BY <1>1, <2>1
<1> QED
  BY <1>2, <1>3, <1>4

\* What the division of the counter by the size of the pool gives.
LEMMA ModIs ==
  ASSUME NEW r \in Nat, NEW n \in Nat \ {0}
  PROVE  /\ r % n \in 0 .. n - 1 
         /\ r \div n \in Int
         /\ r = n * (r \div n) + (r % n)
<1>1. r % n \in 0 .. n - 1
  OBVIOUS
<1>2. r \div n \in Int
  OBVIOUS
<1>3. r = n * (r \div n) + (r % n)
  OBVIOUS
<1> QED
  BY <1>1, <1>2, <1>3

\* The counter's next remainder.
LEMMA ModNext ==
  ASSUME NEW r \in Nat, NEW n \in Nat \ {0}
  PROVE  (r + 1) % n = IF (r % n) + 1 = n THEN 0 ELSE (r % n) + 1
<1> DEFINE q == r \div n
           p == r % n
           u == (r + 1) \div n
           v == (r + 1) % n
<1>1. p \in 0 .. n - 1 /\ q \in Int /\ r = n * q + p
  BY ModIs
<1>2. v \in 0 .. n - 1 /\ u \in Int /\ r + 1 = n * u + v
  BY ModIs
<1> HIDE DEF p, q, u, v
<1>3. CASE p + 1 = n
  <2>1. n * (q + 1) = n * q + n
    BY <1>1
  <2>2. n * q \in Int /\ n * (q + 1) \in Int /\ n * u \in Int
    BY <1>1, <1>2
  <2>3. n * (q + 1) + 0 = n * u + v
    BY <1>1, <1>2, <1>3, <2>1, <2>2
  <2>4. 0 \in 0 .. n - 1 /\ q + 1 \in Int
    BY <1>1
  <2>5. 0 = v
    BY <1>2, <2>3, <2>4, UniqueRemainder
  <2> QED
    BY <1>3, <2>5 DEF p, v
<1>4. CASE p + 1 # n
  <2>1. p + 1 \in 0 .. n - 1
    BY <1>1, <1>4
  <2>2. n * q \in Int /\ n * u \in Int
    BY <1>1, <1>2
  <2>3. n * q + (p + 1) = n * u + v
    BY <1>1, <1>2, <2>2
  <2>4. p + 1 = v
    BY <1>1, <1>2, <2>1, <2>3, UniqueRemainder
  <2> QED
    BY <1>4, <2>4 DEF p, v
<1> QED
  BY <1>3, <1>4

-----------------------------------------------------------------------------
(***************************************************************************)
(* The spread over the pool is not inductive: two endpoints may be one     *)
(* answer apart either way, and nothing says which of them is next.        *)
(* PoolInv does: an endpoint whose turn comes earlier has had as many      *)
(* answers as one whose turn comes later, or one less.                     *)
(***************************************************************************)
Size(d) == Cardinality(Healthy(d))

\* The turns before the one with rank r is served, when p of n is next.
Distance(r, p, n) == IF r >= p THEN r - p ELSE r - p + n
Ahead(d, i) == Distance(Rank(Healthy(d), i), rr[d] % Size(d), Size(d))
Share(d, i) == served[d][Records[d][i]]

PoolTypes == rr \in [Domain -> Nat] /\ served \in [Domain -> [Address -> Nat]]

InTurn(d) ==
  \A i, j \in Healthy(d) : Ahead(d, i) < Ahead(d, j) => Share(d, i) <= Share(d, j) /\ Share(d, j) <= Share(d, i) + 1

PoolInv == PoolTypes /\ \A d \in Domain : InTurn(d)

\* No address is twice in the record of a name: one that is gets twice the share.
DistinctEndpoints ==
  \A d \in Domain : \A i, j \in DOMAIN Records[d] : Records[d][i] = Records[d][j] => i = j

\* One turn: the endpoint that was next is now last, the others move up.
LEMMA OneTurn ==
  ASSUME NEW n \in Nat \ {0}, NEW p \in 0 .. n - 1, NEW r \in 0 .. n - 1
  PROVE  LET q == IF p + 1 = n THEN 0 ELSE p + 1
         IN  /\ Distance(r, p, n) \in 0 .. n - 1
             /\ r = p => Distance(r, p, n) = 0 /\ Distance(r, q, n) = n - 1
             /\ r # p => Distance(r, p, n) > 0 /\ Distance(r, q, n) = Distance(r, p, n) - 1
  BY DEF Distance

\* The ranks of a finite set of positions are all different numbers below its
\* size, so every such number is somebody's rank.
LEMMA Ranks ==
  ASSUME NEW m \in Nat, NEW H, H \subseteq 1 .. m
  PROVE  /\ IsFiniteSet(H) /\ Cardinality(H) \in Nat
         /\ H # {} => Cardinality(H) # 0
         /\ \A i \in H : Rank(H, i) \in 0 .. Cardinality(H) - 1
         /\ \A i, j \in H : Rank(H, i) = Rank(H, j) => i = j
         /\ \A k \in 0 .. Cardinality(H) - 1 : \E i \in H : Rank(H, i) = k
<1> DEFINE Before(i) == {j \in H : j < i}
<1>1. IsFiniteSet(H) /\ Cardinality(H) \in Nat
  <2>1. IsFiniteSet(1 .. m)
    BY FS_Interval
  <2> QED
    BY <2>1, FS_Subset, FS_CardinalityType
<1>2. H # {} => Cardinality(H) # 0
  BY <1>1, FS_EmptySet
<1>3. ASSUME NEW i \in H PROVE IsFiniteSet(Before(i)) /\ Rank(H, i) = Cardinality(Before(i)) /\ Rank(H, i) \in Nat
  <2>1. Before(i) \in SUBSET H
    OBVIOUS
  <2>2. IsFiniteSet(Before(i))
    BY <1>1, <2>1, FS_Subset
  <2>3. Cardinality(Before(i)) \in Nat
    BY <2>2, FS_CardinalityType
  <2> QED
    BY <2>2, <2>3 DEF Rank
<1>4. ASSUME NEW i \in H PROVE Rank(H, i) \in 0 .. Cardinality(H) - 1
  <2>1. Before(i) \in SUBSET H /\ Before(i) # H
    <3>1. i \in H /\ i \notin Before(i)
      OBVIOUS
    <3> QED
      BY <3>1
  <2>2. Cardinality(Before(i)) <= Cardinality(H) /\ Cardinality(Before(i)) # Cardinality(H)
    BY <1>1, <2>1, FS_Subset
  <2> QED
    BY <1>1, <1>3, <2>2
<1>5. ASSUME NEW i \in H, NEW j \in H, i < j PROVE Rank(H, i) # Rank(H, j)
  <2>1. Before(i) \in SUBSET Before(j) /\ i \in Before(j) /\ i \notin Before(i)
    <3>1. \A k \in H : k \in Int
      OBVIOUS
    <3>2. ~(i < i) /\ \A k \in H : k < i => k < j
      BY <1>5, <3>1
    <3> QED
      BY <1>5, <3>2
  <2>2. Before(i) # Before(j)
    BY <2>1
  <2>3. Cardinality(Before(i)) # Cardinality(Before(j))
    BY <1>3, <2>1, <2>2, FS_Subset
  <2> QED
    BY <1>3, <2>3
<1>6. \A i, j \in H : Rank(H, i) = Rank(H, j) => i = j
  <2> SUFFICES ASSUME NEW i \in H, NEW j \in H, Rank(H, i) = Rank(H, j), i # j PROVE FALSE
    OBVIOUS
  <2>1. i < j \/ j < i
    OBVIOUS
  <2> QED
    BY <1>5, <2>1
<1>7. ASSUME NEW k \in 0 .. Cardinality(H) - 1 PROVE \E i \in H : Rank(H, i) = k
  <2> DEFINE T == 0 .. Cardinality(H) - 1
             f == [i \in H |-> Rank(H, i)]
  <2>1. IsFiniteSet(T) /\ Cardinality(T) = Cardinality(H)
    <3>1. 0 \in Int /\ Cardinality(H) - 1 \in Int
      BY <1>1
    <3>2. IsFiniteSet(T) /\ Cardinality(T) = IF 0 > Cardinality(H) - 1 THEN 0 ELSE Cardinality(H) - 1 - 0 + 1
      BY <3>1, FS_Interval
    <3> QED
      BY <1>1, <3>2
  <2>2. f \in [H -> T] /\ \A i, j \in H : f[i] = f[j] => i = j
    BY <1>4, <1>6
  <2> HIDE DEF f, T
  <2>3. f \in Injection(H, T)
    BY <2>2 DEF Injection, IsInjective
  <2>4. f \in Surjection(H, T)
    BY <2>1, <2>3, FS_Injection
  <2>5. \E i \in H : f[i] = k
    BY <2>4 DEF Surjection, T
  <2> QED
    BY <2>5 DEF f
<1> QED
  BY <1>1, <1>2, <1>4, <1>6, <1>7

\* A pool that is not empty: ranks, the remainder of the counter, and the one
\* endpoint whose turn it is.
LEMMA PoolFacts ==
  ASSUME PoolTypes, NEW d \in Domain, Healthy(d) # {}
  PROVE  /\ Size(d) \in Nat \ {0} /\ rr[d] \in Nat /\ rr[d] % Size(d) \in 0 .. Size(d) - 1
         /\ \A i \in Healthy(d) : Rank(Healthy(d), i) \in 0 .. Size(d) - 1
         /\ \A i, j \in Healthy(d) : Rank(Healthy(d), i) = Rank(Healthy(d), j) => i = j
         /\ Turn(d) \in Healthy(d) /\ Rank(Healthy(d), Turn(d)) = rr[d] % Size(d)
         /\ \A i \in Healthy(d) : Records[d][i] \in Address
<1>1. Records[d] \in Seq(Address) /\ rr[d] \in Nat
  BY PolicyAssumption DEF PolicyAssumption, PoolTypes
<1>2. Healthy(d) \subseteq 1 .. Len(Records[d]) /\ Len(Records[d]) \in Nat
  BY <1>1 DEF Healthy
<1>3. \A i \in Healthy(d) : Records[d][i] \in Address
  BY <1>1, <1>2
<1>4. /\ Size(d) \in Nat /\ Size(d) # 0
      /\ \A i \in Healthy(d) : Rank(Healthy(d), i) \in 0 .. Size(d) - 1
      /\ \A i, j \in Healthy(d) : Rank(Healthy(d), i) = Rank(Healthy(d), j) => i = j
      /\ \A k \in 0 .. Size(d) - 1 : \E i \in Healthy(d) : Rank(Healthy(d), i) = k
  BY <1>2, Ranks DEF Size
<1>5. rr[d] % Size(d) \in 0 .. Size(d) - 1
  BY <1>1, <1>4, ModIs
<1>6. \E i \in Healthy(d) : Rank(Healthy(d), i) = rr[d] % Size(d)
  BY <1>4, <1>5
<1>7. Turn(d) \in Healthy(d) /\ Rank(Healthy(d), Turn(d)) = rr[d] % Size(d)
  BY <1>6 DEF Turn, Size
<1> QED
  BY <1>1, <1>3, <1>4, <1>5, <1>7

\* In any two endpoints of a pool one comes before the other.
LEMMA PoolIsEven ==
  ASSUME PoolInv, NEW d \in Domain, NEW i \in Healthy(d), NEW j \in Healthy(d)
  PROVE  Share(d, i) - Share(d, j) <= 1
<1> DEFINE n == Size(d)
           p == rr[d] % Size(d)
           R(k) == Rank(Healthy(d), k)
<1>1. PoolTypes /\ InTurn(d)
  BY DEF PoolInv
<1>2. n \in Nat \ {0} /\ p \in 0 .. n - 1 /\ R(i) \in 0 .. n - 1 /\ R(j) \in 0 .. n - 1 /\ (R(i) = R(j) => i = j)
  BY <1>1, PoolFacts
<1>3. Share(d, i) \in Nat /\ Share(d, j) \in Nat
  <2>1. Records[d][i] \in Address /\ Records[d][j] \in Address
    BY <1>1, PoolFacts
  <2> QED
    BY <1>1, <2>1 DEF PoolTypes, Share
<1>4. Ahead(d, i) = Distance(R(i), p, n) /\ Ahead(d, j) = Distance(R(j), p, n)
  BY DEF Ahead
<1> HIDE DEF n, p, R
<1>5. \/ i = j \/ Ahead(d, i) < Ahead(d, j) \/ Ahead(d, j) < Ahead(d, i)
  BY <1>2, <1>4 DEF Distance
<1> QED
  BY <1>1, <1>3, <1>5 DEF InTurn

\* A name whose pool, counter and answers a step leaves alone.
LEMMA InTurnKept ==
  ASSUME NEW d \in Domain, InTurn(d), Healthy(d)' = Healthy(d), rr'[d] = rr[d], served'[d] = served[d]
  PROVE  InTurn(d)'
<1>1. Size(d)' = Size(d)
  BY DEF Size
<1>2. \A i : Ahead(d, i)' = Ahead(d, i)
  BY <1>1 DEF Ahead
<1>3. \A i : Share(d, i)' = Share(d, i)
  BY DEF Share
<1> QED
  BY <1>2, <1>3 DEF InTurn

\* A name whose answers are counted afresh.
LEMMA InTurnAfresh ==
  ASSUME NEW d \in Domain, served'[d] = NotServed[d], (Healthy(d) \subseteq DOMAIN Records[d])'
  PROVE  InTurn(d)'
<1>1. \A i \in Healthy(d)' : Share(d, i)' = 0
  <2>1. \A i \in DOMAIN Records[d] : Records[d][i] \in Address
    BY PolicyAssumption DEF PolicyAssumption
  <2> QED
    BY <2>1 DEF Share, NotServed
<1> QED
  BY <1>1 DEF InTurn

\* The endpoint whose turn it is gets the answer.
LEMMA PickKeepsTurns ==
  ASSUME DistinctEndpoints, PoolInv, NEW d \in Domain, Healthy(d) # {}, Pick(d),
         probeHealth' = probeHealth, overrides' = overrides
  PROVE  PoolInv'
<1> DEFINE n == Size(d)
           p == rr[d] % Size(d)
           q == IF p + 1 = n THEN 0 ELSE p + 1
           H == Healthy(d)
           R(k) == Rank(Healthy(d), k)
           turn == Turn(d)
<1>1. PoolTypes /\ InTurn(d) /\ rr \in [Domain -> Nat] /\ served \in [Domain -> [Address -> Nat]]
  BY DEF PoolInv, PoolTypes
<1>2. /\ n \in Nat \ {0} /\ p \in 0 .. n - 1 /\ rr[d] \in Nat
      /\ \A i \in H : R(i) \in 0 .. n - 1
      /\ turn \in H /\ R(turn) = p
      /\ \A i \in H : R(i) = p => i = turn
      /\ \A i \in H : Records[d][i] \in Address
  BY <1>1, PoolFacts
<1>3. \A f \in Domain : Healthy(f)' = Healthy(f)
  BY DEF Healthy, EffectiveHealth
<1>4. rr' = [rr EXCEPT ![d] = rr[d] + 1] /\ served' = [served EXCEPT ![d][Records[d][turn]] = @ + 1]
  BY DEF Pick, NextEndpoint
<1>5. PoolTypes'
  BY <1>1, <1>2, <1>4 DEF PoolTypes
<1>6. Size(d)' = n /\ (rr[d] % Size(d))' = q
  <2>1. Size(d)' = n
    BY <1>3 DEF Size
  <2>2. rr'[d] = rr[d] + 1
    BY <1>1, <1>4
  <2> QED
    BY <1>2, <2>1, <2>2, ModNext
<1>7. ASSUME NEW i \in H
      PROVE  /\ Ahead(d, i) = Distance(R(i), p, n) /\ Ahead(d, i)' = Distance(R(i), q, n)
             /\ Ahead(d, i) \in 0 .. n - 1
             /\ i = turn => Ahead(d, i) = 0 /\ Ahead(d, i)' = n - 1
             /\ i # turn => Ahead(d, i) > 0 /\ Ahead(d, i)' = Ahead(d, i) - 1
  <2>1. Ahead(d, i) = Distance(R(i), p, n)
    BY DEF Ahead
  <2>2. Ahead(d, i)' = Distance(R(i), q, n)
    BY <1>3, <1>6 DEF Ahead
  <2>3. /\ Distance(R(i), p, n) \in 0 .. n - 1
        /\ R(i) = p => Distance(R(i), p, n) = 0 /\ Distance(R(i), q, n) = n - 1
        /\ R(i) # p => Distance(R(i), p, n) > 0 /\ Distance(R(i), q, n) = Distance(R(i), p, n) - 1
    BY <1>2, OneTurn
  <2>4. R(i) = p <=> i = turn
    BY <1>2
  <2> QED
    BY <2>1, <2>2, <2>3, <2>4
<1>8. ASSUME NEW i \in H
      PROVE  /\ Share(d, i) \in Nat
             /\ i = turn => Share(d, i)' = Share(d, i) + 1
             /\ i # turn => Share(d, i)' = Share(d, i)
  <2>1. Records[d][i] \in Address /\ Records[d][turn] \in Address
    BY <1>2
  <2>2. i # turn => Records[d][i] # Records[d][turn]
    BY <1>2 DEF DistinctEndpoints, Healthy
  <2> QED
    BY <1>1, <1>4, <2>1, <2>2 DEF Share
<1>9. \A i, j \in H : Ahead(d, i) < Ahead(d, j) => Share(d, i) <= Share(d, j) /\ Share(d, j) <= Share(d, i) + 1
  BY <1>1 DEF InTurn
<1>10. InTurn(d)'
  <2>1. SUFFICES ASSUME NEW i \in H, NEW j \in H, Ahead(d, i)' < Ahead(d, j)'
                 PROVE  Share(d, i)' <= Share(d, j)' /\ Share(d, j)' <= Share(d, i)' + 1
    BY <1>3 DEF InTurn
  <2> HIDE DEF n, p, q, H, R, turn
  <2>2. i # turn
    BY <1>2, <1>7, <2>1
  <2>3. CASE j = turn
    <3>1. Ahead(d, j) < Ahead(d, i)
      BY <1>7, <2>2, <2>3
    <3>2. Share(d, j) <= Share(d, i) /\ Share(d, i) <= Share(d, j) + 1
      BY <1>9, <3>1
    <3> QED
      BY <1>8, <2>2, <2>3, <3>2
  <2>4. CASE j # turn
    <3>1. Ahead(d, i) < Ahead(d, j)
      BY <1>2, <1>7, <2>1, <2>2, <2>4
    <3>2. Share(d, i) <= Share(d, j) /\ Share(d, j) <= Share(d, i) + 1
      BY <1>9, <3>1
    <3> QED
      BY <1>8, <2>2, <2>4, <3>2
  <2> QED
    BY <2>3, <2>4
<1>11. ASSUME NEW f \in Domain, f # d PROVE InTurn(f)'
  <2>1. rr'[f] = rr[f] /\ served'[f] = served[f]
    BY <1>1, <1>4, <1>11
  <2> QED
    BY <1>3, <2>1, InTurnKept DEF PoolInv
<1> QED
  BY <1>5, <1>10, <1>11 DEF PoolInv

\* A change of health: a pool that changed is counted afresh.
LEMMA RecountKeepsTurns ==
  ASSUME PoolInv, Recount, rr' = rr
  PROVE  PoolInv'
<1>1. rr \in [Domain -> Nat] /\ served \in [Domain -> [Address -> Nat]]
  BY DEF PoolInv, PoolTypes
<1>2. served' = [d \in Domain |-> IF Healthy(d)' = Healthy(d) THEN served[d] ELSE NotServed[d]]
  BY DEF Recount
<1>3. NotServed \in [Domain -> [Address -> Nat]]
  BY DEF NotServed
<1>4. PoolTypes'
  BY <1>1, <1>2, <1>3 DEF PoolTypes
<1>5. ASSUME NEW d \in Domain PROVE InTurn(d)'
  <2>1. CASE Healthy(d)' = Healthy(d)
    BY <1>2, <2>1, InTurnKept DEF PoolInv
  <2>2. CASE Healthy(d)' # Healthy(d)
    <3>1. served'[d] = NotServed[d]
      BY <1>2, <2>2
    <3>2. (Healthy(d) \subseteq DOMAIN Records[d])'
      BY DEF Healthy
    <3> QED
      BY <3>1, <3>2, InTurnAfresh
  <2> QED
    BY <2>1, <2>2
<1> QED
  BY <1>4, <1>5 DEF PoolInv

\* Every step leaves the pools alone, answers in turn or counts afresh.
LEMMA StepKeepsTurns ==
  ASSUME DistinctEndpoints, PoolInv, [Next]_vars
  PROVE  PoolInv'
<1>1. ASSUME UNCHANGED poolVars PROVE PoolInv'
  <2>1. PoolTypes'
    BY <1>1 DEF PoolInv, PoolTypes, poolVars
  <2>2. ASSUME NEW d \in Domain PROVE InTurn(d)'
    <3>1. Healthy(d)' = Healthy(d)
      BY <1>1 DEF poolVars, Healthy, EffectiveHealth
    <3> QED
      BY <1>1, <3>1, InTurnKept DEF PoolInv, poolVars
  <2> QED
    BY <2>1, <2>2 DEF PoolInv
<1>2. CASE Tick
  BY <1>1, <1>2 DEF Tick
<1>3. CASE QueryNext
  <2>1. CASE \E t \in Thread : (\E src \in Source, d \in Domain : Begin(t, src, d)) \/ Reply(t)
    BY <1>1, <2>1 DEF Begin, Reply
  <2>2. CASE \E t \in Thread, a \in Agent, d \in Domain : DecideQuery(t, a, d)
    <3>1. PICK t \in Thread, a \in Agent, d \in Domain : DecideQuery(t, a, d)
      BY <2>2
    <3>2. probeHealth' = probeHealth /\ overrides' = overrides
      BY <3>1 DEF DecideQuery, DecideThrottled, DecideOverBudget, DecideNoRecord, DecideNoEndpoint, DecideAllowed, Decide
    <3>3. UNCHANGED <<rr, served>> \/ (Healthy(d) # {} /\ Pick(d))
      BY <3>1 DEF DecideQuery, DecideThrottled, DecideOverBudget, DecideNoRecord, DecideNoEndpoint, DecideAllowed
    <3>4. CASE UNCHANGED <<rr, served>>
      BY <1>1, <3>2, <3>4 DEF poolVars
    <3>5. CASE Healthy(d) # {} /\ Pick(d)
      BY <3>2, <3>5, PickKeepsTurns
    <3> QED
      BY <3>3, <3>4, <3>5
  <2> QED
    BY <1>3, <2>1, <2>2 DEF QueryNext
<1>4. CASE PoolNext
  BY <1>4, RecountKeepsTurns DEF PoolNext, SetEndpointHealth, RecordProbe, ClearEndpointOverride
<1>5. CASE AccessNext
  BY <1>1, <1>5 DEF AccessNext, SetDomainAccess, Recompile
<1>6. CASE BudgetNext
  BY <1>1, <1>6 DEF BudgetNext, SpendReport, ResetBudgets
<1>7. CASE Reset
  <2>1. rr' = [d \in Domain |-> 0] /\ served' = NotServed
    BY <1>7 DEF Reset
  <2>2. PoolTypes'
    BY <2>1 DEF PoolTypes, NotServed
  <2>3. ASSUME NEW d \in Domain PROVE InTurn(d)'
    <3>1. (Healthy(d) \subseteq DOMAIN Records[d])'
      BY DEF Healthy
    <3> QED
      BY <2>1, <3>1, InTurnAfresh
  <2> QED
    BY <2>2, <2>3 DEF PoolInv
<1>8. CASE UNCHANGED vars
  BY <1>1, <1>8 DEF vars
<1> QED
  BY <1>2, <1>3, <1>4, <1>5, <1>6, <1>7, <1>8 DEF Next

\* The answers for a name are spread evenly over its healthy endpoints as long
\* as these stay the same, for pools of any size and any number of names that
\* share them, where no record lists an address twice.
THEOREM LoadIsBalanced == DistinctEndpoints => (Spec => []LoadBalanced)
<1> SUFFICES ASSUME DistinctEndpoints PROVE Spec => []LoadBalanced
  OBVIOUS
<1>1. Init => PoolInv
  <2> SUFFICES ASSUME Init PROVE PoolInv
    OBVIOUS
  <2>1. rr = [d \in Domain |-> 0] /\ served = NotServed
    BY DEF Init
  <2>2. PoolTypes
    BY <2>1 DEF PoolTypes, NotServed
  <2>3. ASSUME NEW d \in Domain, NEW i \in Healthy(d) PROVE Share(d, i) = 0
    <3>1. Records[d][i] \in Address
      BY PolicyAssumption DEF PolicyAssumption, Healthy
    <3> QED
      BY <2>1, <3>1 DEF Share, NotServed
  <2> QED
    BY <2>2, <2>3 DEF PoolInv, InTurn
<1>2. PoolInv /\ [Next]_vars => PoolInv'
  BY StepKeepsTurns
<1>3. PoolInv => LoadBalanced
  BY PoolIsEven DEF LoadBalanced, Share
<1> QED
  BY <1>1, <1>2, <1>3, PTL DEF Spec


-----------------------------------------------------------------------------
(***************************************************************************)
(* That a refusal leaves an alert is not plain: raise_alert() drops one    *)
(* that follows another of its kind too closely, because that one is still *)
(* there to be seen, and the buffer drops its oldest.  AlertInv says that  *)
(* it is still there: alerts of one kind for one agent are a cooldown      *)
(* apart, so only so many of them can be younger than a horizon h, and a   *)
(* buffer with room for as many of each kind for each agent drops none.    *)
(***************************************************************************)
Kinds == {"budget_exhausted", "budget_warning"}
Keys == Agent \X Kinds
Key(alert) == <<alert.agent, alert.kind>>
Alerts == [agent : Agent, kind : Kinds, at : Nat]

\* The buffer has room for n alerts of each kind for each agent, and n
\* cooldowns are as long as h.
Room(n, h) ==
  /\ h <= n * Cooldown
  /\ IsFiniteSet(Agent) /\ (Cardinality(Agent) + Cardinality(Agent)) * n <= AlertCapacity
RoomFor(h) == \E n \in Nat \ {0} : Room(n, h)

AlertTypes ==
  /\ now \in Nat /\ alerts \in Seq(Alerts) /\ Len(alerts) <= AlertCapacity
  /\ DOMAIN lastRaised \subseteq Keys
  /\ \A k \in DOMAIN lastRaised : lastRaised[k] \in Nat /\ lastRaised[k] <= now

\* No alert of its kind is younger than lastRaised says, and that one is held
\* until it is as old as h.
Dated(h) ==
  /\ \A i \in 1 .. Len(alerts) : /\ Key(alerts[i]) \in DOMAIN lastRaised
                                 /\ alerts[i].at <= lastRaised[Key(alerts[i])]
  /\ \A k \in DOMAIN lastRaised : now - lastRaised[k] < h =>
       \E i \in 1 .. Len(alerts) : Key(alerts[i]) = k /\ alerts[i].at = lastRaised[k]

NewestFirst == \A i, j \in 1 .. Len(alerts) : i < j => alerts[j].at <= alerts[i].at

Apart ==
  \A i, j \in 1 .. Len(alerts) :
    i < j /\ Key(alerts[i]) = Key(alerts[j]) => alerts[i].at - alerts[j].at >= Cooldown

AlertInv(h) == AlertTypes /\ Dated(h) /\ NewestFirst /\ Apart

\* The age of an alert falls into one of n stretches of the length of a cooldown.
LEMMA StretchOf ==
  ASSUME NEW c \in Nat \ {0}, NEW n \in Nat \ {0}, NEW g \in Nat, g < n * c
  PROVE  \E q \in 0 .. n - 1 : q * c <= g /\ g < q * c + c
<1> DEFINE T == {q \in Nat : g < (q + 1) * c}
<1>1. n - 1 \in T
  <2>1. n - 1 \in Nat /\ n - 1 + 1 = n
    OBVIOUS
  <2> QED
    BY <2>1
<1>2. PICK q \in T : \A p \in T : q <= p
  <2>1. T \subseteq Nat /\ T # {}
    BY <1>1
  <2> HIDE DEF T
  <2> QED
    BY <2>1, Least
<1>3. q \in Nat /\ g < (q + 1) * c /\ q <= n - 1
  BY <1>1, <1>2
<1>4. q * c \in Nat /\ (q + 1) * c = q * c + c
  BY <1>3
<1>5. q * c <= g
  <2>1. CASE q = 0
    BY <2>1
  <2>2. CASE q # 0
    <3>1. q - 1 \in Nat /\ q - 1 + 1 = q /\ ~(q <= q - 1)
      BY <1>3, <2>2
    <3>2. q - 1 \notin T
      BY <1>2, <3>1
    <3>3. ~(g < q * c)
      BY <3>1, <3>2
    <3> QED
      BY <1>4, <3>3
  <2> QED
    BY <2>1, <2>2
<1>6. q \in 0 .. n - 1
  BY <1>3
<1> QED
  BY <1>3, <1>4, <1>5, <1>6

\* A buffer that is full has in it an alert as old as h, when one of a kind
\* that has none younger than the cooldown is to come.
LEMMA LastIsOld ==
  ASSUME NEW h \in Nat, RoomFor(h), AlertInv(h), Len(alerts) = AlertCapacity,
         NEW a \in Agent, NEW kind \in Kinds, ~Recent(a, kind)
  PROVE  now - alerts[Len(alerts)].at >= h
<1> DEFINE C == AlertCapacity
           D == Cooldown
           key == <<a, kind>>
           Age(i) == now - alerts[i].at
<1>0. PICK n \in Nat \ {0} : Room(n, h)
  BY DEF RoomFor
<1> DEFINE Places == Keys \X (0 .. n - 1)
           Others == Places \ {<<key, 0>>}
           In(i, q) == q * D <= Age(i) /\ Age(i) < q * D + D
<1>1. C \in Nat /\ C >= 1 /\ D \in Nat \ {0} /\ now \in Nat /\ alerts \in Seq(Alerts)
  BY PolicyAssumption DEF PolicyAssumption, AlertInv, AlertTypes
<1>2. \A i \in 1 .. C : alerts[i] \in Alerts /\ Key(alerts[i]) \in Keys /\ alerts[i].at \in Nat
  <2>1. \A i \in 1 .. C : alerts[i] \in Alerts
    BY <1>1
  <2> QED
    BY <2>1 DEF Alerts, Keys, Key
<1> SUFFICES ASSUME now - alerts[C].at < h PROVE FALSE
  <2>1. C \in 1 .. C
    BY <1>1
  <2>2. alerts[C].at \in Nat
    BY <1>2, <2>1
  <2> QED
    BY <1>1, <2>2
<1>3. \A i \in 1 .. C : Age(i) < h /\ alerts[i].at <= now /\ Age(i) \in Nat
  <2> TAKE i \in 1 .. C
  <2>1. C \in 1 .. C /\ (i < C \/ i = C)
    BY <1>1
  <2>2. alerts[C].at <= alerts[i].at
    BY <1>1, <1>2, <2>1 DEF AlertInv, NewestFirst
  <2>3. Key(alerts[i]) \in DOMAIN lastRaised /\ alerts[i].at <= lastRaised[Key(alerts[i])]
    BY DEF AlertInv, Dated
  <2>4. lastRaised[Key(alerts[i])] \in Nat /\ lastRaised[Key(alerts[i])] <= now
    BY <2>3 DEF AlertInv, AlertTypes
  <2>5. alerts[i].at \in Nat /\ alerts[C].at \in Nat
    BY <1>2, <2>1
  <2>6. alerts[i].at <= now
    BY <1>1, <2>3, <2>4, <2>5
  <2> QED
    BY <1>1, <2>2, <2>5, <2>6
<1>4. \A i \in 1 .. C : \E q \in 0 .. n - 1 : In(i, q)
  <2> TAKE i \in 1 .. C
  <2>1. n * D \in Nat /\ h <= n * D
    BY <1>0, <1>1 DEF Room
  <2>2. Age(i) \in Nat /\ Age(i) < n * D
    <3>1. Age(i) \in Nat /\ Age(i) < h
      BY <1>3
    <3> HIDE DEF Age, D
    <3> QED
      BY <2>1, <3>1
  <2> HIDE DEF Age, D
  <2> QED
    BY <1>1, <2>2, StretchOf DEF In
<1> DEFINE Place(i) == <<Key(alerts[i]), CHOOSE q \in 0 .. n - 1 : In(i, q)>>
<1>5. \A i \in 1 .. C : \E q \in 0 .. n - 1 : In(i, q) /\ Place(i) = <<Key(alerts[i]), q>>
  <2> TAKE i \in 1 .. C
  <2> DEFINE q == CHOOSE q \in 0 .. n - 1 : In(i, q)
  <2>1. q \in 0 .. n - 1 /\ In(i, q)
    <3> HIDE DEF In
    <3> QED
      BY <1>4
  <2> QED
    BY <2>1, Zenon
<1> HIDE DEF Place
<1>6. ASSUME NEW i \in 1 .. C PROVE Place(i) \in Others
  <2>1. PICK q \in 0 .. n - 1 : In(i, q) /\ Place(i) = <<Key(alerts[i]), q>>
    BY <1>5, Zenon
  <2>2. Key(alerts[i]) = key => q # 0
    <3> SUFFICES ASSUME Key(alerts[i]) = key, q = 0 PROVE FALSE
      OBVIOUS
    <3>1. key \in DOMAIN lastRaised /\ alerts[i].at <= lastRaised[key]
      BY DEF AlertInv, Dated
    <3>2. lastRaised[key] \in Nat /\ alerts[i].at \in Nat
      BY <1>2, <3>1 DEF AlertInv, AlertTypes
    <3>3. ~(now - lastRaised[key] < D)
      BY <3>1 DEF Recent
    <3>4. Age(i) < 0 * D + D
      BY <2>1, Zenon
    <3>5. now - alerts[i].at < D
      BY <1>1, <3>4
    <3> HIDE DEF D, key
    <3> QED
      BY <1>1, <3>1, <3>2, <3>3, <3>5
  <2>3. Key(alerts[i]) \in Keys
    BY <1>2
  <2>4. Place(i) \in Places /\ Place(i) # <<key, 0>>
    <3> HIDE DEF key, In
    <3> QED
      BY <2>1, <2>2, <2>3
  <2> QED
    BY <2>4, Zenon
<1>7. ASSUME NEW i \in 1 .. C, NEW j \in 1 .. C, Place(i) = Place(j) PROVE i = j
  <2>1. PICK q \in 0 .. n - 1 : In(i, q) /\ Place(i) = <<Key(alerts[i]), q>>
    BY <1>5, Zenon
  <2>2. PICK r \in 0 .. n - 1 : In(j, r) /\ Place(j) = <<Key(alerts[j]), r>>
    BY <1>5, Zenon
  <2>3. q = r /\ Key(alerts[i]) = Key(alerts[j])
    <3>1. <<Key(alerts[i]), q>> = <<Key(alerts[j]), r>>
      BY <1>7, <2>1, <2>2, Zenon
    <3> HIDE DEF In
    <3> QED
      BY <3>1
  <2>4. alerts[i].at \in Nat /\ alerts[j].at \in Nat
    BY <1>2
  <2>5. q * D <= Age(i) /\ Age(i) < q * D + D /\ q * D <= Age(j) /\ Age(j) < q * D + D
    BY <2>1, <2>2, <2>3, Zenon
  <2>6. q * D \in Nat
    BY <1>1
  <2>7. alerts[i].at - alerts[j].at < D /\ alerts[j].at - alerts[i].at < D
    <3> DEFINE m == q * D
    <3>1. m \in Nat /\ m <= Age(i) /\ Age(i) < m + D /\ m <= Age(j) /\ Age(j) < m + D
      BY <2>5, <2>6, Zenon
    <3> DEFINE x == alerts[i].at
               y == alerts[j].at
    <3>2. m <= now - x /\ now - x < m + D /\ m <= now - y /\ now - y < m + D
      BY <3>1, Zenon
    <3>3. m \in Nat /\ x \in Nat /\ y \in Nat /\ D \in Nat /\ now \in Nat
      BY <1>1, <2>4, <3>1
    <3>4. x - y < D /\ y - x < D
      <4> HIDE DEF m, x, y, D
      <4> QED
        BY <3>2, <3>3
    <3> QED
      BY <3>4, Zenon
  <2>8. i < j => alerts[i].at - alerts[j].at >= D
    BY <1>1, <2>3 DEF AlertInv, Apart
  <2>9. j < i => alerts[j].at - alerts[i].at >= D
    BY <1>1, <2>3 DEF AlertInv, Apart
  <2>10. ~(i < j) /\ ~(j < i)
    BY <1>1, <2>4, <2>7, <2>8, <2>9
  <2> QED
    BY <2>10
<1>8. IsFiniteSet(Keys) /\ Cardinality(Keys) = Cardinality(Agent) + Cardinality(Agent) /\ Cardinality(Agent) \in Nat
  <2>1. IsFiniteSet(Kinds) /\ Cardinality(Kinds) = 2
    <3>1. Kinds = {"budget_exhausted"} \union {"budget_warning"} /\ "budget_warning" \notin {"budget_exhausted"}
      BY DEF Kinds
    <3>2. IsFiniteSet({"budget_exhausted"}) /\ Cardinality({"budget_exhausted"}) = 1
      BY FS_Singleton
    <3>3. /\ IsFiniteSet({"budget_exhausted"} \union {"budget_warning"})
          /\ Cardinality({"budget_exhausted"} \union {"budget_warning"}) = 1 + 1
      BY <3>1, <3>2, FS_AddElement
    <3> QED
      BY <3>1, <3>3
  <2>2. IsFiniteSet(Agent)
    BY <1>0 DEF Room
  <2>3. IsFiniteSet(Keys) /\ Cardinality(Keys) = Cardinality(Agent) * Cardinality(Kinds)
    BY <2>1, <2>2, FS_Product DEF Keys
  <2>4. Cardinality(Agent) \in Nat
    BY <2>2, FS_CardinalityType
  <2> QED
    BY <2>1, <2>3, <2>4
<1>9. IsFiniteSet(Places) /\ Cardinality(Places) <= C
  <2>1. IsFiniteSet(0 .. n - 1) /\ Cardinality(0 .. n - 1) = n
    <3>1. 0 \in Int /\ n - 1 \in Int /\ ~(0 > n - 1) /\ (n - 1) - 0 + 1 = n
      OBVIOUS
    <3> QED
      BY <3>1, FS_Interval
  <2>2. IsFiniteSet(Places) /\ Cardinality(Places) = Cardinality(Keys) * Cardinality(0 .. n - 1)
    BY <1>8, <2>1, FS_Product
  <2>3. (Cardinality(Agent) + Cardinality(Agent)) * n <= C
    BY <1>0 DEF Room
  <2> QED
    BY <1>8, <2>1, <2>2, <2>3, Zenon
<1>10. <<key, 0>> \in Places
  <2>1. 0 \in 0 .. n - 1 /\ key \in Keys
    BY DEF Keys
  <2> QED
    BY <2>1
<1>11. IsFiniteSet(Others) /\ Cardinality(Others) = Cardinality(Places) - 1 /\ Cardinality(Places) \in Nat
  <2> HIDE DEF Places
  <2> QED
    BY <1>9, <1>10, FS_RemoveElement, FS_CardinalityType
<1>12. IsFiniteSet(1 .. C) /\ Cardinality(1 .. C) = C
  BY <1>1, FS_Interval
<1>13. Cardinality(Others) < Cardinality(1 .. C)
  BY <1>1, <1>9, <1>11, <1>12
<1> DEFINE f == [i \in 1 .. C |-> Place(i)]
<1> HIDE DEF Others, C
<1>14. f \in [1 .. C -> Others]
  BY <1>6
<1>15. \A i \in 1 .. C : f[i] = Place(i)
  OBVIOUS
<1> HIDE DEF f
<1>16. IsFiniteSet(1 .. C) /\ IsFiniteSet(Others)
  BY <1>11, <1>12
<1>17. \E x, y \in 1 .. C : x # y /\ f[x] = f[y]
  <2> DEFINE S == 1 .. C
  <2>1. IsFiniteSet(S) /\ IsFiniteSet(Others) /\ Cardinality(Others) < Cardinality(S) /\ f \in [S -> Others]
    BY <1>13, <1>14, <1>16, Zenon
  <2> HIDE DEF S
  <2>2. \E x, y \in S : x # y /\ f[x] = f[y]
    BY <2>1, FS_PigeonHole
  <2> QED
    BY <2>2 DEF S
<1> QED
  BY <1>7, <1>15, <1>17

\* The buffer after an alert that is not dropped: it is the first, the others
\* follow as they were, and only the last may have gone.
LEMMA RaiseEffect ==
  ASSUME AlertTypes, NEW a \in Agent, NEW kind \in Kinds, RaiseAlert(a, kind), ~Recent(a, kind)
  PROVE  /\ alerts' \in Seq(Alerts) /\ Len(alerts') <= AlertCapacity /\ Len(alerts') >= 1
         /\ \/ Len(alerts') = Len(alerts) + 1
            \/ Len(alerts') = Len(alerts) /\ Len(alerts) = AlertCapacity
         /\ alerts'[1] = [agent |-> a, kind |-> kind, at |-> now]
         /\ \A i \in 1 .. Len(alerts') : i # 1 => i - 1 \in 1 .. Len(alerts) /\ alerts'[i] = alerts[i - 1]
         /\ \A i \in 1 .. Len(alerts) : i + 1 \in 1 .. Len(alerts') => alerts'[i + 1] = alerts[i]
<1> DEFINE new == [agent |-> a, kind |-> kind, at |-> now]
           longer == <<new>> \o alerts
           m == IF Len(longer) > AlertCapacity THEN AlertCapacity ELSE Len(longer)
<1>1. alerts \in Seq(Alerts) /\ AlertCapacity \in Nat /\ AlertCapacity >= 1 /\ Len(alerts) <= AlertCapacity /\ now \in Nat
  BY PolicyAssumption DEF PolicyAssumption, AlertTypes
<1>2. new \in Alerts
  BY <1>1 DEF Alerts
<1>3. alerts' = SubSeq(longer, 1, m)
  BY DEF RaiseAlert
<1> HIDE DEF new
<1>4. /\ longer \in Seq(Alerts) /\ Len(longer) = Len(alerts) + 1 /\ longer[1] = new
      /\ \A i \in 1 .. Len(alerts) : longer[i + 1] = alerts[i]
  BY <1>1, <1>2
<1>5. m \in 1 .. Len(longer) /\ m <= AlertCapacity /\ (m = Len(alerts) + 1 \/ (m = Len(alerts) /\ Len(alerts) = AlertCapacity))
  BY <1>1, <1>4
<1> HIDE DEF longer, m
<1>6. alerts' \in Seq(Alerts) /\ Len(alerts') = m /\ \A i \in 1 .. m : alerts'[i] = longer[i]
  BY <1>3, <1>4, <1>5
<1>7. ASSUME NEW i \in 1 .. m, i # 1 PROVE i - 1 \in 1 .. Len(alerts) /\ alerts'[i] = alerts[i - 1]
  <2>1. i - 1 \in 1 .. Len(alerts) /\ (i - 1) + 1 = i
    BY <1>1, <1>4, <1>5, <1>7
  <2>2. longer[(i - 1) + 1] = alerts[i - 1]
    BY <1>4, <2>1
  <2> QED
    BY <1>6, <2>1, <2>2
<1>8. alerts'[1] = new
  BY <1>4, <1>5, <1>6
<1> QED
  BY <1>1, <1>4, <1>5, <1>6, <1>7, <1>8 DEF new

LEMMA RaiseKeepsAlerts ==
  ASSUME NEW h \in Nat, RoomFor(h), AlertInv(h), NEW a \in Agent, NEW kind \in Kinds, RaiseAlert(a, kind), now' = now
  PROVE  AlertInv(h)'
<1> DEFINE key == <<a, kind>>
           new == [agent |-> a, kind |-> kind, at |-> now]
<1>1. CASE Recent(a, kind)
  <2>1. alerts' = alerts /\ lastRaised' = lastRaised
    BY <1>1 DEF RaiseAlert
  <2> QED
    BY <2>1 DEF AlertInv, AlertTypes, Dated, NewestFirst, Apart
<1>2. CASE ~Recent(a, kind)
  <2>1. /\ alerts' \in Seq(Alerts) /\ Len(alerts') <= AlertCapacity /\ Len(alerts') >= 1
        /\ \/ Len(alerts') = Len(alerts) + 1
           \/ Len(alerts') = Len(alerts) /\ Len(alerts) = AlertCapacity
        /\ alerts'[1] = new
        /\ \A i \in 1 .. Len(alerts') : i # 1 => i - 1 \in 1 .. Len(alerts) /\ alerts'[i] = alerts[i - 1]
        /\ \A i \in 1 .. Len(alerts) : i + 1 \in 1 .. Len(alerts') => alerts'[i + 1] = alerts[i]
    BY <1>2, RaiseEffect DEF AlertInv
  <2>2. /\ DOMAIN lastRaised' = DOMAIN lastRaised \union {key}
        /\ \A k \in DOMAIN lastRaised' : lastRaised'[k] = IF k = key THEN now ELSE lastRaised[k]
    BY <1>2 DEF RaiseAlert
  <2>3. /\ now \in Nat /\ Cooldown \in Nat /\ Cooldown >= 1 /\ key \in Keys
        /\ DOMAIN lastRaised \subseteq Keys
        /\ \A k \in DOMAIN lastRaised : lastRaised[k] \in Nat /\ lastRaised[k] <= now
        /\ Len(alerts) \in Nat /\ Len(alerts') \in Nat
        /\ \A i \in 1 .. Len(alerts) : alerts[i].at \in Nat
    <3>1. alerts \in Seq(Alerts)
      BY DEF AlertInv, AlertTypes
    <3>2. Len(alerts) \in Nat /\ \A i \in 1 .. Len(alerts) : alerts[i] \in Alerts
      BY <3>1
    <3>3. \A i \in 1 .. Len(alerts) : alerts[i].at \in Nat
      BY <3>2 DEF Alerts
    <3>4. now \in Nat /\ DOMAIN lastRaised \subseteq Keys /\ \A k \in DOMAIN lastRaised : lastRaised[k] \in Nat /\ lastRaised[k] <= now
      BY DEF AlertInv, AlertTypes
    <3>5. Cooldown \in Nat /\ Cooldown >= 1
      BY PolicyAssumption DEF PolicyAssumption
    <3>6. key \in Keys
      BY DEF Keys
    <3>7. Len(alerts') \in Nat
      BY <2>1
    <3> QED
      BY <3>2, <3>3, <3>4, <3>5, <3>6, <3>7
  <2>4. Key(new) = key /\ new.at = now
    BY DEF Key
  <2>5. \A i \in 1 .. Len(alerts) : /\ Key(alerts[i]) \in DOMAIN lastRaised
                                    /\ alerts[i].at <= lastRaised[Key(alerts[i])]
                                    /\ alerts[i].at <= now
    <3> TAKE i \in 1 .. Len(alerts)
    <3>1. Key(alerts[i]) \in DOMAIN lastRaised /\ alerts[i].at <= lastRaised[Key(alerts[i])]
      BY DEF AlertInv, Dated
    <3>2. lastRaised[Key(alerts[i])] \in Nat /\ lastRaised[Key(alerts[i])] <= now
      BY <2>3, <3>1
    <3> QED
      BY <2>3, <3>1, <3>2
  <2>6. \A i \in 1 .. Len(alerts) : Key(alerts[i]) = key => now - alerts[i].at >= Cooldown
    <3> SUFFICES ASSUME NEW i \in 1 .. Len(alerts), Key(alerts[i]) = key PROVE now - alerts[i].at >= Cooldown
      OBVIOUS
    <3>1. key \in DOMAIN lastRaised /\ alerts[i].at <= lastRaised[key]
      BY <2>5
    <3>2. ~(now - lastRaised[key] < Cooldown)
      BY <1>2, <3>1 DEF Recent
    <3> QED
      BY <2>3, <3>1, <3>2
  <2>7. AlertTypes'
    <3>1. now' \in Nat /\ alerts' \in Seq(Alerts) /\ Len(alerts') <= AlertCapacity
      BY <2>1, <2>3
    <3>2. DOMAIN lastRaised' \subseteq Keys
      BY <2>2, <2>3
    <3>3. \A k \in DOMAIN lastRaised' : lastRaised'[k] \in Nat /\ lastRaised'[k] <= now'
      BY <2>2, <2>3
    <3> QED
      BY <3>1, <3>2, <3>3 DEF AlertTypes
  <2>8. ASSUME NEW i \in 1 .. Len(alerts') PROVE Key(alerts'[i]) \in DOMAIN lastRaised' /\ alerts'[i].at <= lastRaised'[Key(alerts'[i])]
    <3>1. CASE i = 1
      BY <2>1, <2>2, <2>3, <2>4, <3>1
    <3>2. CASE i # 1
      <4>1. i - 1 \in 1 .. Len(alerts) /\ alerts'[i] = alerts[i - 1]
        BY <2>1, <3>2
      <4>2. Key(alerts[i - 1]) \in DOMAIN lastRaised /\ alerts[i - 1].at <= lastRaised[Key(alerts[i - 1])] /\ alerts[i - 1].at <= now
        BY <2>5, <4>1
      <4> QED
        BY <2>2, <4>1, <4>2
    <3> QED
      BY <3>1, <3>2
  <2>9. ASSUME NEW k \in DOMAIN lastRaised', now - lastRaised'[k] < h
        PROVE  \E i \in 1 .. Len(alerts') : Key(alerts'[i]) = k /\ alerts'[i].at = lastRaised'[k]
    <3>1. CASE k = key
      <4>1. 1 \in 1 .. Len(alerts') /\ Key(alerts'[1]) = k /\ alerts'[1].at = lastRaised'[k]
        BY <2>1, <2>2, <2>3, <2>4, <3>1
      <4> QED
        BY <4>1
    <3>2. CASE k # key
      <4>1. k \in DOMAIN lastRaised /\ lastRaised'[k] = lastRaised[k]
        BY <2>2, <3>2
      <4>2. PICK i \in 1 .. Len(alerts) : Key(alerts[i]) = k /\ alerts[i].at = lastRaised[k]
        BY <2>9, <4>1 DEF AlertInv, Dated
      <4>3. i + 1 \in 1 .. Len(alerts')
        <5>1. ASSUME i = Len(alerts), Len(alerts) = AlertCapacity PROVE FALSE
          <6>1. now - alerts[i].at >= h
            BY <1>2, <5>1, LastIsOld
          <6>2. lastRaised[k] \in Nat
            BY <2>3, <4>1
          <6> QED
            BY <2>3, <2>9, <4>1, <4>2, <6>1, <6>2
        <5> QED
          BY <2>1, <2>3, <5>1
      <4>4. alerts'[i + 1] = alerts[i]
        BY <2>1, <4>3
      <4> QED
        BY <4>1, <4>2, <4>3, <4>4
    <3> QED
      BY <3>1, <3>2
  <2>10. Dated(h)'
    BY <2>8, <2>9 DEF Dated
  <2>11. ASSUME NEW i \in 1 .. Len(alerts'), NEW j \in 1 .. Len(alerts'), i < j
         PROVE  /\ alerts'[j].at <= alerts'[i].at
                /\ Key(alerts'[i]) = Key(alerts'[j]) => alerts'[i].at - alerts'[j].at >= Cooldown
    <3>1. j - 1 \in 1 .. Len(alerts) /\ alerts'[j] = alerts[j - 1]
      <4>1. j # 1
        BY <2>3, <2>11
      <4> QED
        BY <2>1, <4>1
    <3>2. CASE i = 1
      BY <2>1, <2>4, <2>5, <2>6, <3>1, <3>2
    <3>3. CASE i # 1
      <4>1. i - 1 \in 1 .. Len(alerts) /\ alerts'[i] = alerts[i - 1] /\ i - 1 < j - 1
        BY <2>1, <2>3, <2>11, <3>3
      <4> QED
        BY <3>1, <4>1 DEF AlertInv, NewestFirst, Apart
    <3> QED
      BY <3>2, <3>3
  <2>12. NewestFirst' /\ Apart'
    BY <2>11 DEF NewestFirst, Apart
  <2> QED
    BY <2>7, <2>10, <2>12 DEF AlertInv
<1> QED
  BY <1>1, <1>2

\* Where nothing was raised, nothing is missing.
LEMMA NoAlerts ==
  ASSUME NEW h \in Nat
  PROVE  now \in Nat /\ alerts = <<>> /\ lastRaised = <<>> => AlertInv(h)
<1> SUFFICES ASSUME now \in Nat, alerts = <<>>, lastRaised = <<>> PROVE AlertInv(h)
  OBVIOUS
<1>1. <<>> \in Seq(Alerts) /\ Len(<<>>) = 0 /\ DOMAIN <<>> = {}
  OBVIOUS
<1>2. AlertCapacity \in Nat
  BY PolicyAssumption DEF PolicyAssumption
<1>3. AlertTypes
  BY <1>1, <1>2 DEF AlertTypes
<1> QED
  BY <1>1, <1>3 DEF AlertInv, Dated, NewestFirst, Apart

\* What an admitted query does to the alerts.
LEMMA StepKeepsAlerts ==
  ASSUME NEW h \in Nat, RoomFor(h)
  PROVE  AlertInv(h) /\ [Next]_vars => AlertInv(h)'
<1> SUFFICES ASSUME AlertInv(h), [Next]_vars PROVE AlertInv(h)'
  OBVIOUS
<1>0. now \in Nat
  BY DEF AlertInv, AlertTypes
<1>1. ASSUME now' = now, alerts' = alerts, lastRaised' = lastRaised PROVE AlertInv(h)'
  BY <1>1 DEF AlertInv, AlertTypes, Dated, NewestFirst, Apart
<1>2. ASSUME now' = now, alerts' = <<>>, lastRaised' = <<>> PROVE AlertInv(h)'
  <2>1. (now \in Nat /\ alerts = <<>> /\ lastRaised = <<>>)'
    BY <1>0, <1>2
  <2> QED
    BY <2>1, NoAlerts, PTL
<1>3. CASE Tick
  <2>1. now' = now + 1 /\ alerts' = alerts /\ lastRaised' = lastRaised
    BY <1>3 DEF Tick, budgetVars
  <2>2. \A k \in DOMAIN lastRaised : /\ lastRaised[k] \in Nat /\ lastRaised[k] <= now'
                                     /\ now' - lastRaised[k] < h => now - lastRaised[k] < h
    <3>1. \A k \in DOMAIN lastRaised : lastRaised[k] \in Nat /\ lastRaised[k] <= now
      BY DEF AlertInv, AlertTypes
    <3> QED
      BY <1>0, <2>1, <3>1
  <2>3. AlertTypes'
    BY <1>0, <2>1, <2>2 DEF AlertInv, AlertTypes
  <2>4. Dated(h)'
    BY <2>1, <2>2 DEF AlertInv, Dated
  <2> QED
    BY <2>1, <2>3, <2>4 DEF AlertInv, NewestFirst, Apart
<1>4. CASE QueryNext
  <2>1. CASE \E t \in Thread : (\E src \in Source, d \in Domain : Begin(t, src, d)) \/ Reply(t)
    BY <1>1, <2>1 DEF Begin, Reply, budgetVars
  <2>2. CASE \E t \in Thread, a \in Agent, d \in Domain : DecideQuery(t, a, d)
    <3>1. PICK t \in Thread, a \in Agent, d \in Domain : DecideQuery(t, a, d)
      BY <2>2
    <3>2. now' = now
      BY <3>1 DEF DecideQuery, DecideThrottled, DecideOverBudget, DecideNoRecord, DecideNoEndpoint, DecideAllowed, Decide
    <3>3. UNCHANGED budgetVars \/ Refuse(a) \/ Pay(a, d)
      BY <3>1 DEF DecideQuery, DecideThrottled, DecideOverBudget, DecideNoRecord, DecideNoEndpoint, DecideAllowed
    <3>4. \/ UNCHANGED <<alerts, lastRaised>>
          \/ \E kind \in Kinds : RaiseAlert(a, kind)
      BY <3>3 DEF budgetVars, Refuse, Pay, Charge, Kinds
    <3> QED
      BY <1>1, <3>2, <3>4, RaiseKeepsAlerts
  <2> QED
    BY <1>4, <2>1, <2>2 DEF QueryNext
<1>5. CASE PoolNext
  BY <1>1, <1>5 DEF PoolNext, SetEndpointHealth, RecordProbe, ClearEndpointOverride, budgetVars
<1>6. CASE AccessNext
  BY <1>1, <1>6 DEF AccessNext, SetDomainAccess, Recompile, budgetVars
<1>7. CASE BudgetNext
  BY <1>1, <1>2, <1>7 DEF BudgetNext, SpendReport, ResetBudgets
<1>8. CASE Reset
  BY <1>2, <1>8 DEF Reset
<1>9. CASE UNCHANGED vars
  BY <1>1, <1>9 DEF vars, budgetVars
<1> QED
  BY <1>3, <1>4, <1>5, <1>6, <1>7, <1>8, <1>9 DEF Next

\* A query that is not decided has no decision yet.
Undecided ==
  /\ pc \in [Thread -> {"idle", "decide", "done"}] /\ DOMAIN decision = Thread
  /\ \A t \in Thread : pc[t] # "done" => decision[t] = Nothing

LEMMA StepKeepsUndecided == Undecided /\ [Next]_vars => Undecided'
<1> SUFFICES ASSUME Undecided, [Next]_vars PROVE Undecided'
  OBVIOUS
<1>1. ASSUME UNCHANGED threadVars PROVE Undecided'
  BY <1>1 DEF Undecided, threadVars
<1>2. ASSUME NEW t \in Thread, NEW what, pc' = [pc EXCEPT ![t] = "done"], decision' = [decision EXCEPT ![t] = what]
      PROVE  Undecided'
  BY <1>2 DEF Undecided
<1>3. CASE QueryNext
  <2>1. ASSUME NEW t \in Thread, NEW src \in Source, NEW d \in Domain, Begin(t, src, d) PROVE Undecided'
    <3>1. CASE BlockReasons(src, d) = {}
      <4>1. pc[t] = "idle" /\ pc' = [pc EXCEPT ![t] = "decide"] /\ decision' = decision
        BY <2>1, <3>1 DEF Begin
      <4> QED
        BY <4>1 DEF Undecided
    <3>2. CASE BlockReasons(src, d) # {}
      BY <1>2, <2>1, <3>2 DEF Begin
    <3> QED
      BY <3>1, <3>2
  <2>2. ASSUME NEW t \in Thread, NEW a \in Agent, NEW d \in Domain, DecideQuery(t, a, d) PROVE Undecided'
    BY <1>2, <2>2 DEF DecideQuery, DecideThrottled, DecideOverBudget, DecideNoRecord, DecideNoEndpoint, DecideAllowed, Decide
  <2>3. ASSUME NEW t \in Thread, Reply(t) PROVE Undecided'
    BY <2>3 DEF Reply, Undecided
  <2> QED
    BY <1>3, <2>1, <2>2, <2>3 DEF QueryNext
<1>4. CASE Tick \/ PoolNext
  BY <1>1, <1>4 DEF Tick, PoolNext, SetEndpointHealth, RecordProbe, ClearEndpointOverride
<1>5. CASE AccessNext
  BY <1>1, <1>5 DEF AccessNext, SetDomainAccess, Recompile
<1>6. CASE BudgetNext \/ Reset
  BY <1>1, <1>6 DEF BudgetNext, SpendReport, ResetBudgets, Reset
<1>7. CASE UNCHANGED vars
  BY <1>1, <1>7 DEF vars
<1> QED
  BY <1>3, <1>4, <1>5, <1>6, <1>7 DEF Next

\* The step that refuses an agent for its budget is Refuse, and the query one
\* that the budget has no room for.
LEMMA RefusedIsRefuse ==
  ASSUME Undecided, [Next]_vars, NEW a \in Agent, Refused(a)
  PROVE  Refuse(a) /\ now' = now /\ \E d \in Domain : Metered(a, d) /\ WouldExceed(a, d)
<1> DEFINE stamp == Stamped("THROTTLE", "budget_exhausted")
<1>1. PICK t \in Thread : pc[t] = "decide" /\ query[t][1] = a /\ decision'[t] = stamp
  BY DEF Refused
<1>2. decision[t] = Nothing /\ Nothing # stamp
  <2>1. Nothing.action = "NONE" /\ stamp.action = "THROTTLE"
    BY DEF Nothing, Stamped
  <2> QED
    BY <1>1, <2>1 DEF Undecided
<1>3. decision' # decision
  BY <1>1, <1>2
<1>4. ~(Tick \/ PoolNext \/ AccessNext \/ BudgetNext \/ Reset \/ UNCHANGED vars)
  <2>1. Tick \/ PoolNext => decision' = decision
    BY DEF Tick, PoolNext, SetEndpointHealth, RecordProbe, ClearEndpointOverride, threadVars
  <2>2. AccessNext \/ BudgetNext \/ Reset \/ UNCHANGED vars => decision' = decision
    BY DEF AccessNext, SetDomainAccess, Recompile, BudgetNext, SpendReport, ResetBudgets, Reset, vars, threadVars
  <2> QED
    BY <1>3, <2>1, <2>2
<1>5. QueryNext
  BY <1>4 DEF Next
<1>6. ASSUME NEW u \in Thread, NEW src \in Source, NEW d \in Domain, Begin(u, src, d) PROVE FALSE
  <2>1. u # t
    BY <1>1, <1>6 DEF Begin
  <2>2. CASE BlockReasons(src, d) = {}
    BY <1>1, <1>2, <1>6, <2>2 DEF Begin
  <2>3. CASE BlockReasons(src, d) # {}
    <3>1. PICK what : decision' = [decision EXCEPT ![u] = what]
      BY <1>6, <2>3 DEF Begin
    <3> QED
      BY <1>1, <1>2, <2>1, <3>1
  <2> QED
    BY <2>2, <2>3
<1>7. ASSUME NEW u \in Thread, Reply(u) PROVE FALSE
  <2>1. u # t
    BY <1>1, <1>7 DEF Reply
  <2>2. decision'[t] = decision[t]
    BY <1>7, <2>1 DEF Reply
  <2> QED
    BY <1>1, <1>2, <2>2
<1>8. PICK u \in Thread, b \in Agent, d \in Domain : DecideQuery(u, b, d)
  BY <1>5, <1>6, <1>7 DEF QueryNext
<1>9. PICK what : Decide(u, b, d, what) /\ (what = stamp => Refuse(b) /\ Metered(b, d) /\ WouldExceed(b, d))
  <2>1. /\ Stamped("THROTTLE", "rate_limit_exceeded").reason = "rate_limit_exceeded" /\ stamp.reason = "budget_exhausted"
        /\ Stamped("NXDOMAIN", "record_not_found").action = "NXDOMAIN"
        /\ Stamped("SERVFAIL", "no_healthy_endpoint").action = "SERVFAIL"
        /\ Answered(NextEndpoint(d)).action = "ALLOW" /\ stamp.action = "THROTTLE"
    BY DEF Stamped, Answered
  <2>2. /\ Stamped("THROTTLE", "rate_limit_exceeded") # stamp /\ Stamped("NXDOMAIN", "record_not_found") # stamp
        /\ Stamped("SERVFAIL", "no_healthy_endpoint") # stamp /\ Answered(NextEndpoint(d)) # stamp
    BY <2>1
  <2>3. CASE DecideThrottled(u, b, d)
    BY <2>2, <2>3 DEF DecideThrottled
  <2>4. CASE DecideOverBudget(u, b, d)
    BY <2>4 DEF DecideOverBudget
  <2>5. CASE DecideNoRecord(u, b, d)
    BY <2>2, <2>5 DEF DecideNoRecord
  <2>6. CASE DecideNoEndpoint(u, b, d)
    BY <2>2, <2>6 DEF DecideNoEndpoint
  <2>7. CASE DecideAllowed(u, b, d)
    BY <2>2, <2>7 DEF DecideAllowed
  <2> QED
    BY <1>8, <2>3, <2>4, <2>5, <2>6, <2>7 DEF DecideQuery
<1>10. u = t
  <2> SUFFICES ASSUME u # t PROVE FALSE
    OBVIOUS
  <2>1. decision'[t] = decision[t]
    BY <1>9 DEF Decide
  <2> QED
    BY <1>1, <1>2, <2>1
<1>11. b = a
  BY <1>1, <1>9, <1>10 DEF Decide
<1>12. what = stamp
  BY <1>1, <1>9, <1>10 DEF Decide, Undecided
<1> QED
  BY <1>9, <1>11, <1>12 DEF Decide

\* Every refusal leaves its alert in the buffer: the one it raises, or the one
\* because of which it raises none.  The buffer has room for one alert of each
\* kind for each agent: AlertCenter keeps 100, the configuration has five agents.
RoomForAlerts == Room(1, Cooldown)

THEOREM RefusalsAreAlerted == RoomForAlerts => (Spec => RefusalsAlerted)
<1> SUFFICES ASSUME RoomForAlerts PROVE Spec => RefusalsAlerted
  OBVIOUS
<1>0. Cooldown \in Nat /\ RoomFor(Cooldown)
  BY PolicyAssumption DEF PolicyAssumption, RoomForAlerts, RoomFor
<1> DEFINE Inv == AlertInv(Cooldown)
<1> DEFINE Alerted(a) == \E i \in DOMAIN alerts' : /\ alerts'[i].agent = a /\ alerts'[i].kind = "budget_exhausted"
                                                   /\ now - alerts'[i].at < Cooldown
<1>1. Init => Inv /\ Undecided
  <2> SUFFICES ASSUME Init PROVE Inv /\ Undecided
    OBVIOUS
  <2>1. Inv
    BY <1>0, NoAlerts DEF Init
  <2>2. Undecided
    BY DEF Init, Undecided
  <2> QED
    BY <2>1, <2>2
<1>2. Inv /\ [Next]_vars => Inv'
  BY <1>0, StepKeepsAlerts
<1>3. ASSUME Inv, Undecided, [Next]_vars, NEW a \in Agent, Refused(a) PROVE Alerted(a)
  <2>1. RaiseAlert(a, "budget_exhausted")
    BY <1>3, RefusedIsRefuse DEF Refuse
  <2>2. now \in Nat /\ Cooldown \in Nat /\ Cooldown >= 1 /\ alerts \in Seq(Alerts)
    BY <1>3, PolicyAssumption DEF PolicyAssumption, AlertInv, AlertTypes
  <2>3. CASE Recent(a, "budget_exhausted")
    <3>1. PICK i \in 1 .. Len(alerts) : Key(alerts[i]) = <<a, "budget_exhausted">> /\ alerts[i].at = lastRaised[<<a, "budget_exhausted">>]
      BY <1>3, <2>3 DEF AlertInv, Dated, Recent
    <3>2. alerts[i].agent = a /\ alerts[i].kind = "budget_exhausted" /\ now - alerts[i].at < Cooldown
      BY <2>3, <3>1 DEF Key, Recent
    <3>3. alerts' = alerts /\ i \in DOMAIN alerts
      BY <2>1, <2>2, <2>3 DEF RaiseAlert
    <3> QED
      BY <3>2, <3>3
  <2>4. CASE ~Recent(a, "budget_exhausted")
    <3>1. alerts' \in Seq(Alerts) /\ Len(alerts') >= 1 /\ alerts'[1] = [agent |-> a, kind |-> "budget_exhausted", at |-> now]
      BY <1>3, <2>1, <2>4, RaiseEffect DEF Kinds, AlertInv
    <3>2. 1 \in DOMAIN alerts'
      BY <3>1
    <3>3. now - now < Cooldown
      BY <2>2
    <3> QED
      BY <3>1, <3>2, <3>3
  <2> QED
    BY <2>3, <2>4
<1>4. Inv /\ Undecided /\ [Next]_vars => [\A a \in Agent : Refused(a) => Alerted(a)]_vars
  BY <1>3
<1> HIDE DEF Inv
<1>5. Spec => [][\A a \in Agent : Refused(a) => Alerted(a)]_vars
  BY <1>1, <1>2, <1>4, StepKeepsUndecided, PTL DEF Spec
<1> QED
  BY <1>5 DEF RefusalsAlerted

-----------------------------------------------------------------------------
(***************************************************************************)
(* That a refusal comes after a warning relates the ledger to the alerts.  *)
(* While an agent's ledger adds up to the warning, the last charge in it   *)
(* raised one or came less than a cooldown after one (Warned); what was    *)
(* popped since has only made the sum smaller.  A refused agent has such a *)
(* ledger if no price jumps from below the warning to beyond the budget,   *)
(* and the last charge in it is younger than the window, as charges are in *)
(* the order of time (Ordered).                                            *)
(***************************************************************************)
Warning(a) == <<a, "budget_warning">>
Latest(entries) == entries[Len(entries)][1]

Ordered(a) ==
  /\ \A i \in 1 .. Len(spend[a]) : spend[a][i][1] <= now
  /\ \A i, j \in 1 .. Len(spend[a]) : i < j => spend[a][i][1] <= spend[a][j][1]

Warned(a) ==
  spend[a] # <<>> /\ Total(spend[a]) >= WarnAt[a] =>
    /\ Warning(a) \in DOMAIN lastRaised
    /\ Latest(spend[a]) - lastRaised[Warning(a)] < Cooldown

WarnTypes == now \in Nat /\ spend \in [Agent -> Entries]
WarnInv == WarnTypes /\ \A a \in Agent : Ordered(a) /\ Warned(a)

\* What spent() leaves is a tail: no larger a sum, and the same last entry.
LEMMA FreshIsTail ==
  ASSUME NEW s \in Entries
  PROVE  \E n \in 0 .. Len(s) :
           /\ Fresh(s) \in Entries /\ Len(Fresh(s)) = Len(s) - n
           /\ \A i \in 1 .. Len(s) - n : n + i \in 1 .. Len(s) /\ Fresh(s)[i] = s[n + i]
           /\ Total(Fresh(s)) \in Nat /\ Total(s) \in Nat /\ Total(Fresh(s)) <= Total(s)
           /\ Fresh(s) # <<>> => s # <<>> /\ Latest(Fresh(s)) = Latest(s) /\ ~Expired(Fresh(s)[1])
<1> DEFINE n == Popped(s)
           t == Fresh(s)
           L == Len(s)
<1>1. s \in Seq(Nat \X Nat) /\ L \in Nat
  BY DEF Entries
<1>2. n \in 0 .. L /\ (n < L => ~Expired(s[n + 1]))
  BY PoppedIsHead
<1>3. t = SubSeq(s, n + 1, L)
  BY DEF Fresh
<1>4. t \in Seq(Nat \X Nat) /\ Len(t) = L - n /\ \A i \in 1 .. L - n : t[i] = s[n + i]
  <2> HIDE DEF n, t
  <2> QED
    BY <1>1, <1>2, <1>3, SubSeqTail
<1>5. Total(t) = Sums(s)[L] - Sums(s)[n] /\ Total(s) = Sums(s)[L]
  <2>1. n + 1 \in 1 .. Len(s) + 1 /\ L \in (n + 1) - 1 .. Len(s) /\ (n + 1) - 1 = n
    <3> HIDE DEF n
    <3> QED
      BY <1>1, <1>2
  <2>2. Total(SubSeq(s, n + 1, L)) = Sums(s)[L] - Sums(s)[(n + 1) - 1]
    <3> HIDE DEF n, L
    <3> QED
      BY <2>1, TotalOfStretch
  <2>3. Total(s) = Sums(s)[Len(s)]
    BY SumsExist
  <2> HIDE DEF n, t
  <2> QED
    BY <1>3, <2>1, <2>2, <2>3
<1>6. Sums(s)[n] \in Nat /\ Sums(s)[L] \in Nat /\ Sums(s)[n] <= Sums(s)[L]
  <2>1. n \in 0 .. Len(s) /\ L \in n .. Len(s)
    <3> HIDE DEF n
    <3> QED
      BY <1>1, <1>2
  <2> HIDE DEF n, L
  <2> QED
    BY <2>1, SumsGrow
<1> HIDE DEF n, t, L
<1>7. Total(t) \in Nat /\ Total(s) \in Nat /\ Total(t) <= Total(s)
  BY <1>5, <1>6
<1>8. \A i \in 1 .. L - n : n + i \in 1 .. L
  BY <1>1, <1>2
<1>9. ASSUME t # <<>> PROVE s # <<>> /\ Latest(t) = Latest(s) /\ ~Expired(t[1])
  <2>1. Len(t) # 0
    BY <1>4, <1>9
  <2>2. L - n \in 1 .. L - n /\ n + (L - n) = L /\ 1 \in 1 .. L - n /\ n < L /\ L # 0
    BY <1>1, <1>2, <1>4, <2>1
  <2>3. t[L - n] = s[L] /\ t[1] = s[n + 1]
    BY <1>4, <2>2
  <2>4. s # <<>>
    BY <2>2 DEF L
  <2> QED
    BY <1>2, <1>4, <2>2, <2>3, <2>4 DEF Latest, L
<1>10. t \in Entries
  BY <1>4 DEF Entries
<1> QED
  BY <1>2, <1>4, <1>7, <1>8, <1>9, <1>10 DEF t, L

\* An agent whose ledger and warning a step leaves alone.
LEMMA WarnedKept ==
  ASSUME NEW b \in Agent, Ordered(b), Warned(b), now' = now, spend'[b] = spend[b],
         Warning(b) \in DOMAIN lastRaised => /\ Warning(b) \in DOMAIN lastRaised'
                                             /\ lastRaised'[Warning(b)] = lastRaised[Warning(b)]
  PROVE  Ordered(b)' /\ Warned(b)'
<1>1. Ordered(b)'
  BY DEF Ordered
<1>2. Warned(b)'
  BY DEF Warned, Warning, Latest
<1> QED
  BY <1>1, <1>2

\* Popping keeps both.
LEMMA SpentKeepsWarned ==
  ASSUME WarnTypes, NEW a \in Agent, Ordered(a), Warned(a), now' = now, spend'[a] = Fresh(spend[a]),
         Warning(a) \in DOMAIN lastRaised => /\ Warning(a) \in DOMAIN lastRaised'
                                             /\ lastRaised'[Warning(a)] = lastRaised[Warning(a)]
  PROVE  Ordered(a)' /\ Warned(a)'
<1> DEFINE s == spend[a]
           t == Fresh(s)
<1>0. s \in Entries /\ WarnAt[a] \in Nat
  BY PolicyAssumption DEF WarnTypes, PolicyAssumption
<1>1. PICK n \in 0 .. Len(s) :
           /\ t \in Entries /\ Len(t) = Len(s) - n
           /\ \A i \in 1 .. Len(s) - n : n + i \in 1 .. Len(s) /\ t[i] = s[n + i]
           /\ Total(t) \in Nat /\ Total(s) \in Nat /\ Total(t) <= Total(s)
           /\ t # <<>> => s # <<>> /\ Latest(t) = Latest(s) /\ ~Expired(t[1])
  BY <1>0, FreshIsTail
<1>2. spend'[a] = t
  OBVIOUS
<1>3. Len(s) \in Nat
  BY <1>0 DEF Entries
<1>o. /\ \A i \in 1 .. Len(s) : s[i][1] <= now
      /\ \A i, j \in 1 .. Len(s) : i < j => s[i][1] <= s[j][1]
  BY DEF Ordered
<1> HIDE DEF s, t
<1>4. ASSUME NEW i \in 1 .. Len(t) PROVE t[i][1] <= now
  <2>1. n + i \in 1 .. Len(s) /\ t[i] = s[n + i]
    BY <1>1, <1>3
  <2>2. s[n + i][1] <= now
    BY <1>o, <2>1
  <2> QED
    BY <2>1, <2>2, Zenon
<1>5. ASSUME NEW i \in 1 .. Len(t), NEW j \in 1 .. Len(t), i < j PROVE t[i][1] <= t[j][1]
  <2>1. n + i \in 1 .. Len(s) /\ t[i] = s[n + i] /\ n + j \in 1 .. Len(s) /\ t[j] = s[n + j] /\ n + i < n + j
    BY <1>1, <1>3, <1>5
  <2>2. s[n + i][1] <= s[n + j][1]
    BY <1>o, <2>1
  <2> QED
    BY <2>1, <2>2, Zenon
<1>6. Ordered(a)'
  BY <1>2, <1>4, <1>5 DEF Ordered
<1>7. Warned(a)'
  <2> SUFFICES ASSUME t # <<>>, Total(t) >= WarnAt[a]
               PROVE  Warning(a) \in DOMAIN lastRaised' /\ Latest(t) - lastRaised'[Warning(a)] < Cooldown
    BY <1>2 DEF Warned, Latest, Warning
  <2>1. s # <<>> /\ Latest(t) = Latest(s) /\ Total(s) >= WarnAt[a]
    BY <1>0, <1>1
  <2>2. Warning(a) \in DOMAIN lastRaised /\ Latest(s) - lastRaised[Warning(a)] < Cooldown
    BY <2>1 DEF Warned, s
  <2> QED
    BY <2>1, <2>2
<1> QED
  BY <1>6, <1>7

\* A charge raises a warning, or has one that is younger than the cooldown.
LEMMA ChargeKeepsWarned ==
  ASSUME WarnTypes, NEW a \in Agent, NEW d \in Domain, Ordered(a), Charge(a, d), now' = now
  PROVE  Ordered(a)' /\ Warned(a)' /\ spend'[a] \in Entries
<1> DEFINE s == spend[a]
           t == Fresh(s)
           x == <<now, Cost[d]>>
           u == Append(t, x)
<1>0. s \in Entries /\ WarnAt[a] \in Nat /\ now \in Nat /\ x \in Nat \X Nat /\ Cooldown \in Nat /\ Cooldown >= 1
  BY PolicyAssumption DEF WarnTypes, PolicyAssumption
<1>1. PICK n \in 0 .. Len(s) :
           /\ t \in Entries /\ Len(t) = Len(s) - n
           /\ \A i \in 1 .. Len(s) - n : n + i \in 1 .. Len(s) /\ t[i] = s[n + i]
  BY <1>0, FreshIsTail
<1>2. spend'[a] = u
  BY DEF Charge, WarnTypes
<1>3. Len(s) \in Nat /\ Len(t) \in Nat /\ t \in Seq(Nat \X Nat)
  BY <1>0, <1>1 DEF Entries
<1>o. /\ \A i \in 1 .. Len(s) : s[i][1] <= now
      /\ \A i, j \in 1 .. Len(s) : i < j => s[i][1] <= s[j][1]
      /\ \A i \in 1 .. Len(s) : s[i][1] \in Nat
  <2>1. \A i \in 1 .. Len(s) : s[i] \in Nat \X Nat
    BY <1>0 DEF Entries
  <2> QED
    BY <2>1 DEF Ordered
<1> HIDE DEF s, t, x
<1>4. u \in Entries /\ Len(u) = Len(t) + 1 /\ u[Len(t) + 1] = x /\ \A i \in 1 .. Len(t) : u[i] = t[i]
  BY <1>0, <1>3, AppendOne DEF Entries
<1> HIDE DEF u
<1>5. x[1] = now
  BY DEF x
<1>6. ASSUME NEW i \in 1 .. Len(u) PROVE u[i][1] <= now /\ u[i][1] \in Nat
  <2>1. CASE i = Len(t) + 1
    BY <1>0, <1>4, <1>5, <2>1
  <2>2. CASE i # Len(t) + 1
    <3>1. i \in 1 .. Len(t) /\ i \in 1 .. Len(s) - n
      BY <1>1, <1>3, <1>4, <2>2
    <3>2. n + i \in 1 .. Len(s) /\ u[i] = s[n + i]
      BY <1>1, <1>4, <3>1
    <3>3. s[n + i][1] <= now /\ s[n + i][1] \in Nat
      BY <1>o, <3>2
    <3> QED
      BY <3>2, <3>3, Zenon
  <2> QED
    BY <2>1, <2>2
<1>7. ASSUME NEW i \in 1 .. Len(u), NEW j \in 1 .. Len(u), i < j PROVE u[i][1] <= u[j][1]
  <2>1. CASE j = Len(t) + 1
    BY <1>4, <1>5, <1>6, <2>1
  <2>2. CASE j # Len(t) + 1
    <3>a. Len(t) = Len(s) - n
      BY <1>1
    <3>b. /\ i \in Nat /\ j \in Nat /\ 1 <= i /\ 1 <= j /\ i < j
          /\ j <= Len(t) + 1
      BY <1>3, <1>4, <1>7
    <3>c. i \in 1 .. Len(t) /\ j \in 1 .. Len(t)
      <4>1. ASSUME NEW L \in Nat, j # L + 1, j <= L + 1
            PROVE  i \in 1 .. L /\ j \in 1 .. L
        BY <3>b, <4>1
      <4> QED
        BY <1>3, <2>2, <3>b, <4>1
    <3>1. i \in 1 .. Len(t) /\ i \in 1 .. Len(s) - n /\ j \in 1 .. Len(t) /\ j \in 1 .. Len(s) - n
      BY <3>a, <3>c, Zenon
    <3>2. n + i \in 1 .. Len(s) /\ u[i] = s[n + i] /\ n + j \in 1 .. Len(s) /\ u[j] = s[n + j] /\ n + i < n + j
      BY <1>1, <1>4, <1>7, <3>1
    <3>3. s[n + i][1] <= s[n + j][1]
      BY <1>o, <3>2
    <3> QED
      BY <3>2, <3>3, Zenon
  <2> QED
    BY <2>1, <2>2
<1>8. Ordered(a)'
  BY <1>2, <1>6, <1>7 DEF Ordered
<1>9. Warned(a)'
  <2> SUFFICES ASSUME Total(u) >= WarnAt[a]
               PROVE  Warning(a) \in DOMAIN lastRaised' /\ Latest(u) - lastRaised'[Warning(a)] < Cooldown
    BY <1>2 DEF Warned, Latest, Warning
  <2>1. Latest(u) = now
    BY <1>4, <1>5 DEF Latest
  <2>2. RaiseAlert(a, "budget_warning")
    BY DEF Charge, u, t, s, x
  <2>3. CASE Recent(a, "budget_warning")
    BY <2>1, <2>2, <2>3 DEF RaiseAlert, Recent, Warning
  <2>4. CASE ~Recent(a, "budget_warning")
    <3>1. Warning(a) \in DOMAIN lastRaised' /\ lastRaised'[Warning(a)] = now
      BY <2>2, <2>4 DEF RaiseAlert, Warning
    <3> QED
      BY <1>0, <2>1, <3>1
  <2> QED
    BY <2>3, <2>4
<1> QED
  BY <1>2, <1>4, <1>8, <1>9

\* An alert of another agent or kind leaves the time of the last warning alone.
LEMMA OtherAlert ==
  ASSUME NEW a \in Agent, NEW kind \in Kinds, RaiseAlert(a, kind), NEW b \in Agent, b # a \/ kind # "budget_warning",
         Warning(b) \in DOMAIN lastRaised
  PROVE  Warning(b) \in DOMAIN lastRaised' /\ lastRaised'[Warning(b)] = lastRaised[Warning(b)]
<1>1. CASE Recent(a, kind)
  BY <1>1 DEF RaiseAlert
<1>2. CASE ~Recent(a, kind)
  <2>1. <<a, kind>> # Warning(b)
    BY DEF Warning
  <2> QED
    BY <1>2, <2>1 DEF RaiseAlert
<1> QED
  BY <1>1, <1>2

LEMMA StepKeepsWarned == WarnInv /\ [Next]_vars => WarnInv'
<1> SUFFICES ASSUME WarnInv, [Next]_vars PROVE WarnInv'
  OBVIOUS
<1>0. now \in Nat /\ spend \in [Agent -> Entries] /\ WarnTypes
  BY DEF WarnInv, WarnTypes
<1>1. ASSUME now' = now, spend' = spend, lastRaised' = lastRaised PROVE WarnInv'
  <2>1. \A b \in Agent : Ordered(b)' /\ Warned(b)'
    BY <1>1, WarnedKept DEF WarnInv
  <2> QED
    BY <1>0, <1>1, <2>1 DEF WarnInv, WarnTypes
<1>2. ASSUME now' = now, spend' = Nobody PROVE WarnInv'
  <2>1. <<>> \in Entries
    BY DEF Entries
  <2>2. \A b \in Agent : spend'[b] = <<>>
    BY <1>2 DEF Nobody
  <2>3. WarnTypes'
    BY <1>0, <1>2, <2>1 DEF WarnTypes, Nobody
  <2>4. \A b \in Agent : Ordered(b)' /\ Warned(b)'
    BY <2>2 DEF Ordered, Warned
  <2> QED
    BY <2>3, <2>4 DEF WarnInv
<1>3. ASSUME NEW a \in Agent, now' = now, spend' = [spend EXCEPT ![a] = Fresh(spend[a])],
             \/ lastRaised' = lastRaised
             \/ RaiseAlert(a, "budget_exhausted")
      PROVE  WarnInv'
  <2>1. Fresh(spend[a]) \in Entries /\ spend'[a] = Fresh(spend[a])
    BY <1>0, <1>3, FreshIsTail
  <2>2. ASSUME NEW b \in Agent, Warning(b) \in DOMAIN lastRaised
        PROVE  Warning(b) \in DOMAIN lastRaised' /\ lastRaised'[Warning(b)] = lastRaised[Warning(b)]
    BY <1>3, <2>2, OtherAlert DEF Kinds
  <2>3. Ordered(a)' /\ Warned(a)'
    BY <1>0, <1>3, <2>1, <2>2, SpentKeepsWarned DEF WarnInv
  <2>4. ASSUME NEW b \in Agent, b # a PROVE Ordered(b)' /\ Warned(b)'
    <3>1. spend'[b] = spend[b]
      BY <1>0, <1>3, <2>4
    <3> QED
      BY <1>3, <2>2, <3>1, WarnedKept DEF WarnInv
  <2>5. WarnTypes'
    BY <1>0, <1>3, <2>1 DEF WarnTypes
  <2> QED
    BY <2>3, <2>4, <2>5 DEF WarnInv
<1>4. ASSUME NEW a \in Agent, NEW d \in Domain, now' = now, Charge(a, d) PROVE WarnInv'
  <2>1. Ordered(a)' /\ Warned(a)' /\ spend'[a] \in Entries
    BY <1>0, <1>4, ChargeKeepsWarned DEF WarnInv
  <2>2. spend' = [spend EXCEPT ![a] = spend'[a]]
    BY <1>0, <1>4 DEF Charge
  <2>3. UNCHANGED lastRaised \/ RaiseAlert(a, "budget_warning")
    BY <1>4 DEF Charge
  <2>4. ASSUME NEW b \in Agent, b # a PROVE Ordered(b)' /\ Warned(b)'
    <3>1. spend'[b] = spend[b]
      BY <1>0, <2>2, <2>4
    <3>2. Warning(b) \in DOMAIN lastRaised =>
            Warning(b) \in DOMAIN lastRaised' /\ lastRaised'[Warning(b)] = lastRaised[Warning(b)]
      BY <2>3, <2>4, OtherAlert DEF Kinds
    <3> QED
      BY <1>4, <3>1, <3>2, WarnedKept DEF WarnInv
  <2>5. WarnTypes'
    BY <1>0, <1>4, <2>1, <2>2 DEF WarnTypes
  <2> QED
    BY <2>1, <2>4, <2>5 DEF WarnInv
<1>5. CASE Tick
  <2>1. now' = now + 1 /\ spend' = spend /\ lastRaised' = lastRaised
    BY <1>5 DEF Tick, budgetVars
  <2>2. ASSUME NEW b \in Agent PROVE Ordered(b)' /\ Warned(b)'
    <3>1. \A i \in 1 .. Len(spend[b]) : spend[b][i][1] \in Nat
      <4>1. spend[b] \in Entries
        BY <1>0
      <4>2. \A i \in 1 .. Len(spend[b]) : spend[b][i] \in Nat \X Nat
        BY <4>1 DEF Entries
      <4> QED
        BY <4>2
    <3>2. Ordered(b)'
      BY <1>0, <2>1, <3>1 DEF WarnInv, Ordered
    <3>3. Warned(b)'
      BY <2>1 DEF WarnInv, Warned, Latest, Warning
    <3> QED
      BY <3>2, <3>3
  <2>3. WarnTypes'
    BY <1>0, <2>1 DEF WarnTypes
  <2> QED
    BY <2>2, <2>3 DEF WarnInv
<1>6. CASE QueryNext
  <2>1. CASE \E t \in Thread : (\E src \in Source, d \in Domain : Begin(t, src, d)) \/ Reply(t)
    BY <1>1, <2>1 DEF Begin, Reply, budgetVars
  <2>2. CASE \E t \in Thread, a \in Agent, d \in Domain : DecideQuery(t, a, d)
    <3>1. PICK t \in Thread, a \in Agent, d \in Domain : DecideQuery(t, a, d)
      BY <2>2
    <3>2. now' = now
      BY <3>1 DEF DecideQuery, DecideThrottled, DecideOverBudget, DecideNoRecord, DecideNoEndpoint, DecideAllowed, Decide
    <3>3. UNCHANGED budgetVars \/ Refuse(a) \/ Pay(a, d)
      BY <3>1 DEF DecideQuery, DecideThrottled, DecideOverBudget, DecideNoRecord, DecideNoEndpoint, DecideAllowed
    <3>4. UNCHANGED budgetVars \/ Refuse(a) \/ Charge(a, d)
      BY <3>3 DEF Pay
    <3>5. CASE Refuse(a)
      BY <1>3, <3>2, <3>5 DEF Refuse
    <3> QED
      BY <1>1, <1>4, <3>2, <3>4, <3>5 DEF budgetVars
  <2> QED
    BY <1>6, <2>1, <2>2 DEF QueryNext
<1>7. CASE PoolNext
  BY <1>1, <1>7 DEF PoolNext, SetEndpointHealth, RecordProbe, ClearEndpointOverride, budgetVars
<1>8. CASE AccessNext
  BY <1>1, <1>8 DEF AccessNext, SetDomainAccess, Recompile, budgetVars
<1>9. CASE BudgetNext
  BY <1>2, <1>3, <1>9 DEF BudgetNext, SpendReport, ResetBudgets
<1>10. CASE Reset
  BY <1>2, <1>10 DEF Reset
<1>11. CASE UNCHANGED vars
  BY <1>1, <1>11 DEF vars, budgetVars
<1> QED
  BY <1>5, <1>6, <1>7, <1>8, <1>9, <1>10, <1>11 DEF Next

\* No price takes an agent from below its warning to beyond its budget.  So it
\* is in policies.json: prices of 1 and 10, warnings at 30 of 40 and 40 of 50.
NoJump ==
  \A a \in Agent, d \in Domain : Metered(a, d) => WarnAt[a] > 0 /\ WarnAt[a] + Cost[d] <= MaxCost[a] + 1

\* A warning is held as long as charges it announced may count, and a cooldown
\* more: three alerts of each kind for each agent, with a window of 60 seconds
\* and a cooldown of 30.
RoomForWarnings == RoomFor(BudgetWindow + Cooldown)

\* A refused agent has a ledger that adds up to the warning.
LEMMA RefusedIsWarned ==
  ASSUME WarnInv, NoJump, NEW a \in Agent, NEW d \in Domain, Metered(a, d), WouldExceed(a, d)
  PROVE  Warning(a) \in DOMAIN lastRaised
         /\ (lastRaised[Warning(a)] \in Nat => now - lastRaised[Warning(a)] < BudgetWindow + Cooldown)
<1> DEFINE s == spend[a]
           t == Fresh(s)
<1>0. /\ s \in Entries /\ WarnAt[a] \in Nat /\ MaxCost[a] \in Nat /\ Cost[d] \in Nat /\ now \in Nat
      /\ Cooldown \in Nat /\ BudgetWindow \in Nat
  BY PolicyAssumption DEF WarnInv, WarnTypes, PolicyAssumption
<1>1. PICK n \in 0 .. Len(s) :
           /\ t \in Entries /\ Len(t) = Len(s) - n
           /\ \A i \in 1 .. Len(s) - n : n + i \in 1 .. Len(s) /\ t[i] = s[n + i]
           /\ Total(t) \in Nat /\ Total(s) \in Nat /\ Total(t) <= Total(s)
           /\ t # <<>> => s # <<>> /\ Latest(t) = Latest(s) /\ ~Expired(t[1])
  BY <1>0, FreshIsTail
<1>2. Total(t) >= WarnAt[a] /\ WarnAt[a] > 0
  <2>1. Total(t) + Cost[d] > MaxCost[a]
    BY DEF WouldExceed
  <2>2. WarnAt[a] > 0 /\ WarnAt[a] + Cost[d] <= MaxCost[a] + 1
    BY DEF NoJump
  <2> HIDE DEF t
  <2> QED
    BY <1>0, <1>1, <2>1, <2>2
<1>3. t # <<>>
  <2> SUFFICES ASSUME t = <<>> PROVE FALSE
    OBVIOUS
  <2>1. t \in Entries /\ Len(t) = 0 /\ 0 \in 0 .. 0
    BY DEF Entries
  <2>2. Total(t) = Sums(t)[0] /\ Summed(Sums(t), t, 0)
    BY <2>1, SumsExist
  <2>3. Total(t) = 0
    BY <2>1, <2>2 DEF Summed
  <2> QED
    BY <1>0, <1>2, <2>3
<1>o. /\ \A i, j \in 1 .. Len(s) : i < j => s[i][1] <= s[j][1]
      /\ s # <<>> /\ Total(s) >= WarnAt[a] =>
           Warning(a) \in DOMAIN lastRaised /\ Latest(s) - lastRaised[Warning(a)] < Cooldown
  BY DEF WarnInv, Ordered, Warned
<1> HIDE DEF s, t
<1>4. s # <<>> /\ Total(s) >= WarnAt[a] /\ ~Expired(t[1])
  BY <1>0, <1>1, <1>2, <1>3
<1>5. Warning(a) \in DOMAIN lastRaised /\ Latest(s) - lastRaised[Warning(a)] < Cooldown
  BY <1>4, <1>o
<1>6. now - Latest(s) < BudgetWindow /\ Latest(s) \in Nat
  <2>1. Len(s) \in Nat /\ n \in 0 .. Len(s) /\ Len(t) \in Nat /\ Len(t) # 0
    <3>1. s \in Seq(Nat \X Nat) /\ t \in Seq(Nat \X Nat)
      BY <1>0, <1>1 DEF Entries
    <3>2. Len(s) \in Nat /\ Len(t) \in Nat
      BY <3>1
    <3>3. Len(t) # 0
      BY <1>3, <3>1
    <3>4. n \in 0 .. Len(s)
      OBVIOUS
    <3> QED
      BY <3>2, <3>3, <3>4, Zenon
  <2>2. 1 \in 1 .. Len(s) - n /\ Len(s) \in 1 .. Len(s) /\ (n + 1 = Len(s) \/ n + 1 < Len(s))
    BY <1>1, <2>1
  <2>3. n + 1 \in 1 .. Len(s) /\ t[1] = s[n + 1]
    BY <1>1, <2>2
  <2>4. s[n + 1] \in Nat \X Nat /\ s[Len(s)] \in Nat \X Nat
    BY <1>0, <2>2, <2>3 DEF Entries
  <2>5. s[n + 1][1] \in Nat /\ s[Len(s)][1] \in Nat
    BY <2>4
  <2>6. s[n + 1][1] <= s[Len(s)][1]
    <3>1. CASE n + 1 = Len(s)
      BY <2>5, <3>1
    <3>2. CASE n + 1 < Len(s)
      BY <1>o, <2>2, <2>3, <3>2
    <3> QED
      BY <2>2, <3>1, <3>2
  <2>7. ~(s[n + 1][1] <= now - BudgetWindow)
    BY <1>4, <2>3 DEF Expired
  <2>8. Latest(s) = s[Len(s)][1]
    BY DEF Latest
  <2> DEFINE first == s[n + 1][1]
             last == s[Len(s)][1]
  <2>9. first \in Nat /\ last \in Nat /\ first <= last /\ ~(first <= now - BudgetWindow) /\ Latest(s) = last
    BY <2>5, <2>6, <2>7, <2>8
  <2> HIDE DEF first, last
  <2> QED
    BY <1>0, <2>9
<1> QED
  BY <1>0, <1>5, <1>6

\* budget.py and policy.py:130-150: whoever is refused has been warned, and the
\* warning is still there to be read.
THEOREM RefusalsAreAnnounced == NoJump /\ RoomForWarnings => (Spec => WarnedFirst)
<1> SUFFICES ASSUME NoJump, RoomForWarnings PROVE Spec => WarnedFirst
  OBVIOUS
<1> DEFINE h == BudgetWindow + Cooldown
           Inv == AlertInv(h)
           Announced(a) == \E i \in DOMAIN alerts' : /\ alerts'[i].agent = a /\ alerts'[i].kind = "budget_warning"
                                                     /\ now - alerts'[i].at < h
<1>0. h \in Nat /\ RoomFor(h)
  BY PolicyAssumption DEF PolicyAssumption, RoomForWarnings
<1>1. Init => Inv /\ Undecided /\ WarnInv
  <2> SUFFICES ASSUME Init PROVE Inv /\ Undecided /\ WarnInv
    OBVIOUS
  <2>1. Inv
    BY <1>0, NoAlerts DEF Init
  <2>2. Undecided
    BY DEF Init, Undecided
  <2>3. <<>> \in Entries
    BY DEF Entries
  <2>4. now \in Nat /\ \A b \in Agent : spend[b] = <<>>
    BY DEF Init, Nobody
  <2>5. WarnTypes
    BY <2>3, <2>4 DEF Init, Nobody, WarnTypes
  <2>6. WarnInv
    BY <2>4, <2>5 DEF WarnInv, Ordered, Warned
  <2> QED
    BY <2>1, <2>2, <2>6
<1>2. Inv /\ [Next]_vars => Inv'
  BY <1>0, StepKeepsAlerts
<1>3. ASSUME Inv, Undecided, WarnInv, [Next]_vars, NEW a \in Agent, Refused(a) PROVE Announced(a)
  <2> DEFINE k == Warning(a)
  <2>1. Refuse(a) /\ now' = now /\ \E d \in Domain : Metered(a, d) /\ WouldExceed(a, d)
    BY <1>3, RefusedIsRefuse
  <2>2. k \in DOMAIN lastRaised /\ (lastRaised[k] \in Nat => now - lastRaised[k] < h)
    BY <1>3, <2>1, RefusedIsWarned
  <2>3. k \in DOMAIN lastRaised' /\ lastRaised'[k] = lastRaised[k]
    BY <2>1, <2>2, OtherAlert DEF Refuse, Kinds
  <2>4. lastRaised[k] \in Nat
    BY <1>3, <2>2 DEF AlertInv, AlertTypes
  <2>5. AlertTypes' /\ Dated(h)'
    BY <1>2, <1>3 DEF AlertInv
  <2> HIDE DEF k, h
  <2>6. now' - lastRaised'[k] < h
    BY <2>1, <2>2, <2>3, <2>4
  <2>7. PICK i \in 1 .. Len(alerts') : Key(alerts'[i]) = k /\ alerts'[i].at = lastRaised'[k]
    BY <2>3, <2>5, <2>6 DEF Dated, Key
  <2>8. i \in DOMAIN alerts'
    BY <2>5 DEF AlertTypes
  <2>9. alerts'[i].agent = a /\ alerts'[i].kind = "budget_warning"
    BY <2>7 DEF Key, k, Warning
  <2>10. now - alerts'[i].at < h
    BY <2>1, <2>6, <2>7
  <2> QED
    BY <2>8, <2>9, <2>10
<1>4. Inv /\ Undecided /\ WarnInv /\ [Next]_vars => [\A a \in Agent : Refused(a) => Announced(a)]_vars
  BY <1>3
<1> HIDE DEF Inv
<1>5. Spec => [][\A a \in Agent : Refused(a) => Announced(a)]_vars
  BY <1>1, <1>2, <1>4, StepKeepsUndecided, StepKeepsWarned, PTL DEF Spec
<1> QED
  BY <1>5 DEF WarnedFirst
=============================================================================
