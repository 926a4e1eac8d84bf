------------------------- MODULE HealthMonitorProofs -------------------------
(***************************************************************************)
(* Proofs about HealthMonitor: its types; that the tracker's two counters  *)
(* debounce exactly (DebounceExact); that between sweeps the engine agrees *)
(* with the tracker unless a reset interfered (PoolFollowsTracker); and,   *)
(* from both, what the monitor may do to the DNS pool (PoolDebounced).     *)
(*                                                                         *)
(* DebounceExact is not inductive: the verdict is a matter of the whole    *)
(* history, and the tracker keeps two counters.  What makes it so is that  *)
(* each counter is the length of the run of equal results that the history *)
(* ends with, up to the threshold (CountersExact).                         *)
(*                                                                         *)
(* PoolFollowsTracker is about the moment between two sweeps.  Inside one, *)
(* the engine agrees with the tracker on the endpoints the sweep has had,  *)
(* and the verdict it is about to publish is the tracker's (SweepAgrees).  *)
(***************************************************************************)
EXTENDS HealthMonitor, TLAPS

Stages == {"wait", "probe", "record", "read", "publish", "stopped"}

TypeOK ==
  /\ service \in [Address -> Service]
  /\ probeHealth \in [Address -> BOOLEAN]
  /\ state \in [Address -> BOOLEAN]
  /\ failures \in [Address -> 0 .. FailureThreshold]
  /\ successes \in [Address -> 0 .. SuccessThreshold]
  /\ log \in [Address -> Seq(BOOLEAN)]
  /\ mpc \in Stages /\ verdict \in BOOLEAN /\ disturbed \in BOOLEAN
  /\ \E E \in SUBSET Address : results \in [E -> BOOLEAN]
  /\ at \in Nat \ {0}
  /\ rpc \in {"idle", "recover", "engine", "tracker"}

\* The results of a sweep that is past its probes.
InSweep == mpc \in {"record", "read", "publish"}
SweepOK == InSweep => at \in DOMAIN Addresses /\ results \in [Address -> BOOLEAN]

-----------------------------------------------------------------------------
(* Sequences of results. *)

\* The history s ends with c results r, or with more when c is the threshold.
Counts(s, c, threshold, r) ==
  /\ c \in 0 .. threshold /\ c <= Len(s)
  /\ \A j \in Len(s) - c + 1 .. Len(s) : s[j] = r
  /\ c < threshold => c = Len(s) \/ s[Len(s) - c] # r

EndsWith(s, n, r) == AllFrom(s, Len(s) - n + 1, n, r)

\* health.py:33-48: a counter says whether the history ends with a run as long
\* as its threshold.
LEMMA CountIsRun ==
  ASSUME NEW s \in Seq(BOOLEAN), NEW n \in Nat \ {0}, NEW c, NEW r, Counts(s, c, n, r)
  PROVE  EndsWith(s, n, r) <=> c >= n
<1>0. Len(s) \in Nat /\ DOMAIN s = 1 .. Len(s) /\ c \in Nat /\ c <= n /\ c <= Len(s) /\ n \in Nat /\ n > 0
  BY DEF Counts
<1>1. ASSUME c >= n PROVE EndsWith(s, n, r)
  <2>1. c = n BY <1>0, <1>1
  <2>2. \A j \in Len(s) - n + 1 .. Len(s) : s[j] = r BY <2>1 DEF Counts
  <2>3. Len(s) - n + 1 \in Nat /\ (Len(s) - n + 1) + n - 1 = Len(s) BY <1>0, <2>1
  <2>4. \A j \in Len(s) - n + 1 .. Len(s) : j \in 1 .. Len(s) BY <1>0, <2>1
  <2> QED BY <1>0, <2>2, <2>3, <2>4 DEF EndsWith, AllFrom
<1>2. ASSUME EndsWith(s, n, r), c < n PROVE FALSE
  <2>0. (Len(s) - n + 1) + n - 1 = Len(s) BY <1>0
  <2>1. Len(s) - n + 1 \in Nat /\ \A j \in Len(s) - n + 1 .. Len(s) : j \in DOMAIN s /\ s[j] = r
    BY <1>2, <2>0 DEF EndsWith, AllFrom
  <2>2. 1 <= Len(s) - n + 1
    <3>1. Len(s) - n + 1 \in Len(s) - n + 1 .. Len(s) BY <1>0
    <3> QED BY <1>0, <2>1, <3>1
  <2>3. Len(s) - c \in Len(s) - n + 1 .. Len(s) BY <1>0, <1>2
  <2>4. c # Len(s)
    <3>1. c < n BY <1>2
    <3>2. c \in Nat /\ n \in Nat /\ Len(s) \in Nat BY <1>0
    <3> QED BY <2>2, <3>1, <3>2
  <2>5. s[Len(s) - c] # r BY <1>2, <2>4 DEF Counts
  <2> QED BY <2>1, <2>3, <2>5
<1> QED BY <1>0, <1>1, <1>2

\* One more result r lengthens its run and breaks the other's.
LEMMA CountGrows ==
  ASSUME NEW s \in Seq(BOOLEAN), NEW n \in Nat \ {0}, NEW c, NEW r \in BOOLEAN, Counts(s, c, n, r)
  PROVE  Counts(Append(s, r), Raise(c, n), n, r)
<1> DEFINE t == Append(s, r)
<1>0. Len(s) \in Nat /\ c \in Nat /\ c <= n /\ c <= Len(s) /\ n \in Nat /\ n > 0 BY DEF Counts
<1>1. Len(t) = Len(s) + 1 /\ t[Len(s) + 1] = r /\ \A j \in 1 .. Len(s) : t[j] = s[j] OBVIOUS
<1> HIDE DEF t
<1>2. CASE c < n
  <2>1. Raise(c, n) = c + 1 BY <1>2 DEF Raise
  <2>2. \A j \in Len(t) - (c + 1) + 1 .. Len(t) : t[j] = r
    <3>1. \A j \in Len(s) - c + 1 .. Len(s) : s[j] = r BY DEF Counts
    <3>2. \A j \in Len(t) - (c + 1) + 1 .. Len(t) : j = Len(s) + 1 \/ (j \in Len(s) - c + 1 .. Len(s) /\ j \in 1 .. Len(s))
      BY <1>0, <1>1
    <3> QED BY <1>1, <3>1, <3>2
  <2>3. c + 1 = Len(t) \/ t[Len(t) - (c + 1)] # r
    <3>1. c = Len(s) \/ s[Len(s) - c] # r BY <1>2 DEF Counts
    <3>2. Len(t) - (c + 1) = Len(s) - c BY <1>0, <1>1
    <3>3. c # Len(s) => Len(s) - c \in 1 .. Len(s) BY <1>0
    <3> QED BY <1>0, <1>1, <3>1, <3>2, <3>3
  <2>4. Counts(t, c + 1, n, r) BY <1>0, <1>1, <1>2, <2>2, <2>3 DEF Counts
  <2> QED BY <2>1, <2>4 DEF t
<1>3. CASE c = n
  <2>1. Raise(c, n) = n BY <1>3 DEF Raise
  <2>2. \A j \in Len(s) - n + 1 .. Len(s) : s[j] = r BY <1>3 DEF Counts
  <2>3. \A j \in Len(t) - n + 1 .. Len(t) : j = Len(s) + 1 \/ (j \in Len(s) - n + 1 .. Len(s) /\ j \in 1 .. Len(s))
    BY <1>0, <1>1, <1>3
  <2>4. \A j \in Len(t) - n + 1 .. Len(t) : t[j] = r BY <1>1, <2>2, <2>3
  <2> QED BY <1>0, <1>1, <1>3, <2>1, <2>4 DEF Counts, t
<1> QED BY <1>0, <1>2, <1>3

LEMMA CountRestarts ==
  ASSUME NEW s \in Seq(BOOLEAN), NEW n \in Nat \ {0}, NEW r \in BOOLEAN
  PROVE  Counts(Append(s, ~r), 0, n, r)
<1> DEFINE t == Append(s, ~r)
<1>1. Len(t) = Len(s) + 1 /\ t[Len(s) + 1] = ~r /\ Len(s) \in Nat OBVIOUS
<1> HIDE DEF t
<1>2. t[Len(s) + 1] # r BY <1>1
<1>3. Counts(t, 0, n, r) BY <1>1, <1>2 DEF Counts
<1> QED BY <1>3 DEF t

\* A run inside a longer history either ends with it or was there before.
LEMMA RunInAppend ==
  ASSUME NEW s \in Seq(BOOLEAN), NEW n \in Nat \ {0}, NEW r \in BOOLEAN, NEW q \in BOOLEAN,
         NEW i \in Nat \ {0}
  PROVE  /\ AllFrom(s, i, n, q) => AllFrom(Append(s, r), i, n, q) /\ i + n - 1 <= Len(s)
         /\ AllFrom(Append(s, r), i, n, q) =>
              AllFrom(s, i, n, q) \/ (r = q /\ i = Len(s) + 1 - n + 1)
         /\ AllFrom(Append(s, r), i, n, q) => i <= Len(s) + 1 /\ Append(s, r)[i] = q
<1> DEFINE t == Append(s, r)
<1>1. Len(s) \in Nat /\ DOMAIN s = 1 .. Len(s) OBVIOUS
<1>2. DOMAIN t = 1 .. Len(s) + 1 /\ t[Len(s) + 1] = r /\ \A j \in 1 .. Len(s) : t[j] = s[j] OBVIOUS
<1> HIDE DEF t
<1>3. i \in i .. i + n - 1 /\ i + n - 1 \in i .. i + n - 1 OBVIOUS
<1>4. ASSUME AllFrom(s, i, n, q) PROVE AllFrom(t, i, n, q) /\ i + n - 1 <= Len(s)
  <2>1. i + n - 1 \in DOMAIN s BY <1>3, <1>4 DEF AllFrom
  <2> QED BY <1>1, <1>2, <1>4, <2>1 DEF AllFrom
<1>5. ASSUME AllFrom(t, i, n, q) PROVE AllFrom(s, i, n, q) \/ (r = q /\ i = Len(s) + 1 - n + 1)
  <2>1. i + n - 1 \in DOMAIN t /\ t[i + n - 1] = q BY <1>3, <1>5 DEF AllFrom
  <2>2. CASE i + n - 1 = Len(s) + 1 BY <1>1, <1>2, <2>1, <2>2
  <2>3. CASE i + n - 1 <= Len(s)
    <3>1. \A j \in i .. i + n - 1 : j \in 1 .. Len(s) BY <1>1, <2>3
    <3> QED BY <1>1, <1>2, <1>5, <3>1 DEF AllFrom
  <2> QED BY <1>1, <1>2, <2>1, <2>2, <2>3
<1>6. ASSUME AllFrom(t, i, n, q) PROVE i <= Len(s) + 1 /\ t[i] = q
  BY <1>1, <1>2, <1>3, <1>6 DEF AllFrom
<1> QED BY <1>4, <1>5, <1>6 DEF t

\* An endpoint is out after one more failure if it was, or if that failure
\* completes a run.
LEMMA OutAfterFailure ==
  ASSUME HealthAssumption, NEW s \in Seq(BOOLEAN)
  PROVE  Out(Append(s, FALSE)) <=> Out(s) \/ EndsWith(Append(s, FALSE), FailureThreshold, FALSE)
<1> DEFINE t == Append(s, FALSE)
           F == FailureThreshold
           S == SuccessThreshold
<1>0. F \in Nat \ {0} /\ S \in Nat \ {0} BY DEF HealthAssumption
<1>1. Len(s) \in Nat /\ DOMAIN s = 1 .. Len(s) OBVIOUS
<1>2. t \in Seq(BOOLEAN) /\ Len(t) = Len(s) + 1 /\ DOMAIN t = 1 .. Len(s) + 1 OBVIOUS
<1>3. \A i \in Nat \ {0} :
        /\ AllFrom(s, i, F, FALSE) => AllFrom(t, i, F, FALSE)
        /\ AllFrom(t, i, F, FALSE) => AllFrom(s, i, F, FALSE) \/ i = Len(t) - F + 1
  <2> SUFFICES ASSUME NEW i \in Nat \ {0}
               PROVE  /\ AllFrom(s, i, F, FALSE) => AllFrom(t, i, F, FALSE)
                      /\ AllFrom(t, i, F, FALSE) => AllFrom(s, i, F, FALSE) \/ i = Len(t) - F + 1
    OBVIOUS
  <2> HIDE DEF F
  <2>1. /\ AllFrom(s, i, F, FALSE) => AllFrom(t, i, F, FALSE)
        /\ AllFrom(t, i, F, FALSE) => AllFrom(s, i, F, FALSE) \/ (FALSE = FALSE /\ i = Len(s) + 1 - F + 1)
    BY <1>0, RunInAppend
  <2>2. Len(t) = Len(s) + 1 /\ Len(s) \in Nat BY <1>2
  <2> HIDE DEF t
  <2>3. Len(s) + 1 - F + 1 = Len(t) - F + 1 BY <1>0, <2>2
  <2> QED BY <2>1, <2>3, Zenon
<1>4. \A j \in Nat \ {0} :
        /\ AllFrom(s, j, S, TRUE) => AllFrom(t, j, S, TRUE)
        /\ AllFrom(t, j, S, TRUE) => AllFrom(s, j, S, TRUE) /\ j <= Len(s)
  <2> SUFFICES ASSUME NEW j \in Nat \ {0}
               PROVE  /\ AllFrom(s, j, S, TRUE) => AllFrom(t, j, S, TRUE)
                      /\ AllFrom(t, j, S, TRUE) => AllFrom(s, j, S, TRUE) /\ j <= Len(s)
    OBVIOUS
  <2> HIDE DEF S
  <2>1. /\ AllFrom(s, j, S, TRUE) => AllFrom(t, j, S, TRUE) /\ j + S - 1 <= Len(s)
        /\ AllFrom(t, j, S, TRUE) => AllFrom(s, j, S, TRUE) \/ FALSE = TRUE
    BY <1>0, RunInAppend
  <2>2. j + S - 1 <= Len(s) => j <= Len(s) BY <1>0, <1>1
  <2> QED BY <2>1, <2>2
<1> HIDE DEF t, F, S
<1>5. ASSUME Out(s) PROVE Out(t)
  <2>1. PICK i \in DOMAIN s : AllFrom(s, i, F, FALSE) /\ \A j \in i .. Len(s) : ~AllFrom(s, j, S, TRUE)
    BY <1>5 DEF Out, F, S
  <2>2. i \in DOMAIN t /\ i \in Nat \ {0} BY <1>1, <1>2
  <2>3. \A j \in i .. Len(t) : ~AllFrom(t, j, S, TRUE)
    <3> SUFFICES ASSUME NEW j \in i .. Len(t), AllFrom(t, j, S, TRUE) PROVE FALSE OBVIOUS
    <3>0. j \in Nat \ {0} BY <1>1, <1>2, <2>2
    <3>1. AllFrom(s, j, S, TRUE) /\ j <= Len(s) BY <1>4, <3>0
    <3>2. j \in i .. Len(s) BY <1>1, <1>2, <2>2, <3>1
    <3> QED BY <2>1, <3>1, <3>2
  <2> QED BY <1>3, <2>1, <2>2, <2>3 DEF Out, F, S
<1>6. ASSUME EndsWith(t, F, FALSE) PROVE Out(t)
  <2> DEFINE i == Len(t) - F + 1
  <2>1. AllFrom(t, i, F, FALSE) BY <1>6 DEF EndsWith
  <2>2. i \in i .. i + F - 1 /\ i + F - 1 = Len(t) /\ i \in Int BY <1>0, <1>1, <1>2
  <2>3. \A k \in i .. Len(t) : k \in DOMAIN t /\ t[k] = FALSE BY <2>1, <2>2 DEF AllFrom
  <2>4. i \in DOMAIN t BY <2>2, <2>3
  <2>5. \A j \in i .. Len(t) : ~AllFrom(t, j, S, TRUE)
    <3> SUFFICES ASSUME NEW j \in i .. Len(t), AllFrom(t, j, S, TRUE) PROVE FALSE OBVIOUS
    <3>1. j \in j .. j + S - 1 BY <1>0, <2>2
    <3>2. t[j] = TRUE BY <3>1 DEF AllFrom
    <3> QED BY <2>3, <3>2
  <2> QED BY <2>1, <2>4, <2>5 DEF Out, F, S
<1>7. ASSUME Out(t), ~EndsWith(t, F, FALSE) PROVE Out(s)
  <2>1. PICK i \in DOMAIN t : AllFrom(t, i, F, FALSE) /\ \A j \in i .. Len(t) : ~AllFrom(t, j, S, TRUE)
    BY <1>7 DEF Out, F, S
  <2>2. i \in Nat \ {0} BY <1>2
  <2>3. AllFrom(s, i, F, FALSE) BY <1>3, <1>7, <2>1, <2>2 DEF EndsWith
  <2>4. i \in DOMAIN s
    <3>1. i \in i .. i + F - 1 BY <1>0, <2>2
    <3> QED BY <2>3, <3>1 DEF AllFrom
  <2>5. \A j \in i .. Len(s) : ~AllFrom(s, j, S, TRUE)
    <3> SUFFICES ASSUME NEW j \in i .. Len(s), AllFrom(s, j, S, TRUE) PROVE FALSE OBVIOUS
    <3>1. j \in Nat \ {0} /\ j \in i .. Len(t) BY <1>1, <1>2, <2>2
    <3> QED BY <1>4, <2>1, <3>1
  <2> QED BY <2>3, <2>4, <2>5 DEF Out, F, S
<1> QED BY <1>5, <1>6, <1>7 DEF t, F

\* After one more success it is out if it was, unless that success completes
\* a run.
LEMMA OutAfterSuccess ==
  ASSUME HealthAssumption, NEW s \in Seq(BOOLEAN)
  PROVE  Out(Append(s, TRUE)) <=> Out(s) /\ ~EndsWith(Append(s, TRUE), SuccessThreshold, TRUE)
<1> DEFINE t == Append(s, TRUE)
           F == FailureThreshold
           S == SuccessThreshold
<1>0. F \in Nat \ {0} /\ S \in Nat \ {0} BY DEF HealthAssumption
<1>1. Len(s) \in Nat /\ DOMAIN s = 1 .. Len(s) OBVIOUS
<1>2. t \in Seq(BOOLEAN) /\ Len(t) = Len(s) + 1 /\ DOMAIN t = 1 .. Len(s) + 1 OBVIOUS
<1>3. \A i \in Nat \ {0} :
        /\ AllFrom(s, i, F, FALSE) => AllFrom(t, i, F, FALSE)
        /\ AllFrom(t, i, F, FALSE) => AllFrom(s, i, F, FALSE) /\ t[i] = FALSE
  BY <1>0, <1>2, RunInAppend
<1>4. \A j \in Nat \ {0} :
        /\ AllFrom(s, j, S, TRUE) => AllFrom(t, j, S, TRUE)
        /\ AllFrom(t, j, S, TRUE) => AllFrom(s, j, S, TRUE) \/ j = Len(t) - S + 1
  <2> SUFFICES ASSUME NEW j \in Nat \ {0}
               PROVE  /\ AllFrom(s, j, S, TRUE) => AllFrom(t, j, S, TRUE)
                      /\ AllFrom(t, j, S, TRUE) => AllFrom(s, j, S, TRUE) \/ j = Len(t) - S + 1
    OBVIOUS
  <2> HIDE DEF S
  <2>1. /\ AllFrom(s, j, S, TRUE) => AllFrom(t, j, S, TRUE)
        /\ AllFrom(t, j, S, TRUE) => AllFrom(s, j, S, TRUE) \/ (TRUE = TRUE /\ j = Len(s) + 1 - S + 1)
    BY <1>0, RunInAppend
  <2>2. Len(t) = Len(s) + 1 /\ Len(s) \in Nat BY <1>2
  <2> HIDE DEF t
  <2>3. Len(s) + 1 - S + 1 = Len(t) - S + 1 BY <1>0, <2>2
  <2> QED BY <2>1, <2>3, Zenon
<1> HIDE DEF t, F, S
<1>5. ASSUME Out(t) PROVE Out(s) /\ ~EndsWith(t, S, TRUE)
  <2>1. PICK i \in DOMAIN t : AllFrom(t, i, F, FALSE) /\ \A j \in i .. Len(t) : ~AllFrom(t, j, S, TRUE)
    BY <1>5 DEF Out, F, S
  <2>2. i \in Nat \ {0} BY <1>2
  <2>3. AllFrom(s, i, F, FALSE) /\ t[i] = FALSE BY <1>3, <2>1, <2>2
  <2>4. i \in DOMAIN s
    <3>1. i \in i .. i + F - 1 BY <1>0, <2>2
    <3> QED BY <2>3, <3>1 DEF AllFrom
  <2>5. \A j \in i .. Len(s) : ~AllFrom(s, j, S, TRUE)
    <3> SUFFICES ASSUME NEW j \in i .. Len(s), AllFrom(s, j, S, TRUE) PROVE FALSE OBVIOUS
    <3>1. j \in Nat \ {0} /\ j \in i .. Len(t) BY <1>1, <1>2, <2>2
    <3> QED BY <1>4, <2>1, <3>1
  <2>6. ASSUME EndsWith(t, S, TRUE) PROVE FALSE
    <3> DEFINE k == Len(t) - S + 1
    <3>1. AllFrom(t, k, S, TRUE) BY <2>6 DEF EndsWith
    <3>2. k \in Int /\ k + S - 1 = Len(t) /\ k <= Len(t) BY <1>0, <1>1, <1>2
    <3>3. CASE i <= k
      <4>1. k \in i .. Len(t) BY <1>1, <1>2, <2>2, <3>2, <3>3
      <4> QED BY <2>1, <3>1, <4>1
    <3>4. CASE k < i
      <4>1. i \in k .. k + S - 1 BY <1>1, <1>2, <2>2, <3>2, <3>4
      <4>2. t[i] = TRUE BY <3>1, <4>1 DEF AllFrom
      <4> QED BY <2>3, <4>2
    <3> QED BY <2>2, <3>2, <3>3, <3>4
  <2> QED BY <2>3, <2>4, <2>5, <2>6 DEF Out, F, S
<1>6. ASSUME Out(s), ~EndsWith(t, S, TRUE) PROVE Out(t)
  <2>1. PICK i \in DOMAIN s : AllFrom(s, i, F, FALSE) /\ \A j \in i .. Len(s) : ~AllFrom(s, j, S, TRUE)
    BY <1>6 DEF Out, F, S
  <2>2. i \in DOMAIN t /\ i \in Nat \ {0} BY <1>1, <1>2
  <2>3. \A j \in i .. Len(t) : ~AllFrom(t, j, S, TRUE)
    <3> SUFFICES ASSUME NEW j \in i .. Len(t), AllFrom(t, j, S, TRUE) PROVE FALSE OBVIOUS
    <3>1. j \in Nat \ {0} BY <1>2, <2>2
    <3>2. AllFrom(s, j, S, TRUE) BY <1>4, <1>6, <3>1 DEF EndsWith
    <3>3. j \in DOMAIN s
      <4>1. j \in j .. j + S - 1 BY <1>0, <3>1
      <4> QED BY <3>2, <4>1 DEF AllFrom
    <3>4. j \in i .. Len(s) BY <1>1, <2>2, <3>3
    <3> QED BY <2>1, <3>2, <3>4
  <2> QED BY <1>3, <2>1, <2>2, <2>3 DEF Out, F, S
<1> QED BY <1>5, <1>6 DEF t, S

-----------------------------------------------------------------------------
(* The inductive invariant. *)

\* Each counter is the length of the run that the history ends with.
CountersExact ==
  \A e \in Address : Known(e) =>
    /\ Counts(log[e], failures[e], FailureThreshold, FALSE)
    /\ Counts(log[e], successes[e], SuccessThreshold, TRUE)

\* Unless a reset interferes, the engine has the tracker's verdict on every
\* endpoint the sweep has had, and is about to hear it on the current one.
SweepAgrees ==
  ~disturbed =>
    /\ \A i \in DOMAIN Addresses :
         (InSweep => i < at) => probeHealth[Addresses[i]] = state[Addresses[i]]
    /\ mpc = "publish" => verdict = state[Current]

IInv == TypeOK /\ SweepOK /\ CountersExact /\ DebounceExact /\ SweepAgrees

LEMMA Facts ==
  ASSUME HealthAssumption
  PROVE  /\ FailureThreshold \in Nat \ {0} /\ SuccessThreshold \in Nat \ {0} /\ Memory \in Nat
         /\ Len(Addresses) \in Nat
         /\ \A i \in DOMAIN Addresses : i \in Nat \ {0} /\ Addresses[i] \in Address
         /\ \A i \in Nat \ {0} : i <= Len(Addresses) => i \in DOMAIN Addresses
         /\ \A i \in DOMAIN Addresses : i <= Len(Addresses)
         /\ \A i, j \in DOMAIN Addresses : Addresses[i] = Addresses[j] => i = j
<1>1. Addresses \in Seq(STRING) BY DEF HealthAssumption
<1>2. Len(Addresses) \in Nat BY <1>1
<1>3. \A i \in DOMAIN Addresses : i \in Nat \ {0} /\ i <= Len(Addresses)
  <2>1. ASSUME NEW n \in Nat, NEW i \in 1 .. n PROVE i \in Nat \ {0} /\ i <= n
    <3>1. i \in Nat /\ 1 <= i /\ i <= n OBVIOUS
    <3> QED BY <3>1
  <2>2. DOMAIN Addresses = 1 .. Len(Addresses) BY <1>1
  <2> QED BY <1>2, <2>1, <2>2
<1>4. \A i \in Nat \ {0} : i <= Len(Addresses) => i \in DOMAIN Addresses BY <1>1
<1> QED BY <1>2, <1>3, <1>4 DEF HealthAssumption, Address

LEMMA EmptyHistory ==
  ASSUME HealthAssumption
  PROVE  /\ ~Out(<<>>) /\ <<>> \in Seq(BOOLEAN)
         /\ Counts(<<>>, 0, FailureThreshold, FALSE)
         /\ Counts(<<>>, 0, SuccessThreshold, TRUE)
<1>1. DOMAIN <<>> = {} OBVIOUS
<1>2. Len(<<>>) = 0 OBVIOUS
<1>3. ~Out(<<>>) BY <1>1 DEF Out
<1>4. \A j \in 0 - 0 + 1 .. 0 : FALSE OBVIOUS
<1>5. 0 \in 0 .. FailureThreshold /\ 0 \in 0 .. SuccessThreshold BY Facts
<1> QED BY <1>2, <1>3, <1>4, <1>5 DEF Counts

LEMMA Begins == Init => IInv
<1> SUFFICES ASSUME Init PROVE IInv OBVIOUS
<1> USE HealthAssumption
<1>1. TypeOK
  <2>1. <<>> \in [{} -> BOOLEAN] BY DOMAIN <<>> = {}
  <2>2. \E E \in SUBSET Address : results \in [E -> BOOLEAN] BY <2>1 DEF Init, NoResults
  <2>3. FailureThreshold \in Nat \ {0} /\ SuccessThreshold \in Nat \ {0} BY Facts
  <2>4. service \in [Address -> Service] BY DEF Init, Everywhere, Service
  <2>5. probeHealth \in [Address -> BOOLEAN] /\ state \in [Address -> BOOLEAN] BY DEF Init, Everywhere
  <2>6. failures \in [Address -> 0 .. FailureThreshold] /\ successes \in [Address -> 0 .. SuccessThreshold]
    BY <2>3 DEF Init, Everywhere
  <2>7. log \in [Address -> Seq(BOOLEAN)] BY EmptyHistory DEF Init, Everywhere
  <2>8. mpc \in Stages /\ rpc = "idle" BY DEF Init, Stages
  <2>9. at \in Nat \ {0} BY DEF Init
  <2>10. verdict \in BOOLEAN /\ disturbed \in BOOLEAN BY DEF Init
  <2> QED BY <2>2, <2>4, <2>5, <2>6, <2>7, <2>8, <2>9, <2>10 DEF TypeOK
<1>2. SweepOK BY DEF Init, SweepOK, InSweep
<1>3. CountersExact /\ DebounceExact
  BY EmptyHistory DEF Init, CountersExact, DebounceExact, Everywhere
<1>4. SweepAgrees BY Facts DEF Init, SweepAgrees, Everywhere
<1> QED BY <1>1, <1>2, <1>3, <1>4 DEF IInv

-----------------------------------------------------------------------------
(* Steps of the sweep. *)

\* What one result does to the tracker of its endpoint.
LEMMA RecordTracks ==
  ASSUME HealthAssumption, IInv, Record
  PROVE  /\ Current \in Address /\ results[Current] \in BOOLEAN
         /\ state' \in [Address -> BOOLEAN]
         /\ failures' \in [Address -> 0 .. FailureThreshold]
         /\ successes' \in [Address -> 0 .. SuccessThreshold]
         /\ log' \in [Address -> Seq(BOOLEAN)]
         /\ \A e \in Address : e # Current =>
              /\ state'[e] = state[e] /\ failures'[e] = failures[e]
              /\ successes'[e] = successes[e] /\ log'[e] = log[e]
         /\ results[Current] =>
              /\ failures'[Current] = 0
              /\ successes'[Current] = Raise(successes[Current], SuccessThreshold)
              /\ state'[Current] = (state[Current] \/ successes'[Current] >= SuccessThreshold)
         /\ ~results[Current] =>
              /\ successes'[Current] = 0
              /\ failures'[Current] = Raise(failures[Current], FailureThreshold)
              /\ state'[Current] = (state[Current] /\ failures'[Current] < FailureThreshold)
         /\ Current \in Watched /\ Len(log'[Current]) <= Memory =>
              Known(Current) /\ log'[Current] = Append(log[Current], results[Current])
<1>0. FailureThreshold \in Nat \ {0} /\ SuccessThreshold \in Nat \ {0} /\ Memory \in Nat BY Facts
<1>1. Current \in Address /\ results[Current] \in BOOLEAN
  BY Facts DEF IInv, SweepOK, InSweep, Record, Current
<1> DEFINE e == Current
<1> HIDE DEF e
<1>2. e \in Address /\ results[e] \in BOOLEAN BY <1>1 DEF e
<1>3. TypeOK BY DEF IInv
<1>4. failures[e] \in 0 .. FailureThreshold /\ successes[e] \in 0 .. SuccessThreshold BY <1>2, <1>3 DEF TypeOK
<1>5. /\ Raise(failures[e], FailureThreshold) \in 0 .. FailureThreshold
      /\ Raise(successes[e], SuccessThreshold) \in 0 .. SuccessThreshold
  BY <1>0, <1>4 DEF Raise
<1>6. (IF results[e] THEN TrackSuccess(e) ELSE TrackFailure(e)) /\ Remember(e, results[e])
  BY DEF Record, e
<1>7. /\ state' \in [Address -> BOOLEAN]
      /\ failures' \in [Address -> 0 .. FailureThreshold]
      /\ successes' \in [Address -> 0 .. SuccessThreshold]
      /\ \A f \in Address : f # e => state'[f] = state[f] /\ failures'[f] = failures[f] /\ successes'[f] = successes[f]
  <2>0. 0 \in 0 .. FailureThreshold /\ 0 \in 0 .. SuccessThreshold BY <1>0
  <2>1. PICK s \in BOOLEAN, k \in 0 .. FailureThreshold, c \in 0 .. SuccessThreshold :
          /\ state' = [state EXCEPT ![e] = s] /\ failures' = [failures EXCEPT ![e] = k]
          /\ successes' = [successes EXCEPT ![e] = c]
    <3>1. CASE results[e]
      <4>1. /\ state' = [state EXCEPT ![e] = @ \/ successes'[e] >= SuccessThreshold]
            /\ successes' = [successes EXCEPT ![e] = Raise(successes[e], SuccessThreshold)]
            /\ failures' = [failures EXCEPT ![e] = 0]
        BY <1>6, <3>1 DEF TrackSuccess
      <4>2. state' = [state EXCEPT ![e] = (state[e] \/ successes'[e] >= SuccessThreshold)] BY <4>1
      <4>3. (state[e] \/ successes'[e] >= SuccessThreshold) \in BOOLEAN OBVIOUS
      <4> QED BY <1>5, <2>0, <4>1, <4>2, <4>3
    <3>2. CASE ~results[e]
      <4>1. /\ state' = [state EXCEPT ![e] = @ /\ failures'[e] < FailureThreshold]
            /\ failures' = [failures EXCEPT ![e] = Raise(failures[e], FailureThreshold)]
            /\ successes' = [successes EXCEPT ![e] = 0]
        BY <1>6, <3>2 DEF TrackFailure
      <4>2. state' = [state EXCEPT ![e] = (state[e] /\ failures'[e] < FailureThreshold)] BY <4>1
      <4>3. (state[e] /\ failures'[e] < FailureThreshold) \in BOOLEAN OBVIOUS
      <4> QED BY <1>5, <2>0, <4>1, <4>2, <4>3
    <3> QED BY <3>1, <3>2
  <2>2. state' \in [Address -> BOOLEAN] BY <1>3, <2>1 DEF TypeOK
  <2>3. failures' \in [Address -> 0 .. FailureThreshold] BY <1>3, <2>1 DEF TypeOK
  <2>4. successes' \in [Address -> 0 .. SuccessThreshold] BY <1>3, <2>1 DEF TypeOK
  <2>5. \A f \in Address : f # e => state'[f] = state[f] /\ failures'[f] = failures[f] /\ successes'[f] = successes[f]
    BY <1>3, <2>1 DEF TypeOK
  <2> QED BY <2>2, <2>3, <2>4, <2>5
<1>8. /\ results[e] =>
           /\ failures'[e] = 0
           /\ successes'[e] = Raise(successes[e], SuccessThreshold)
           /\ state'[e] = (state[e] \/ successes'[e] >= SuccessThreshold)
      /\ ~results[e] =>
           /\ successes'[e] = 0
           /\ failures'[e] = Raise(failures[e], FailureThreshold)
           /\ state'[e] = (state[e] /\ failures'[e] < FailureThreshold)
  BY <1>2, <1>3, <1>6 DEF TypeOK, TrackSuccess, TrackFailure
<1> DEFINE L == IF e \notin Watched THEN log[e]
                ELSE IF Len(log[e]) < Memory THEN Append(log[e], results[e]) ELSE Forgotten
<1>9. log' = [log EXCEPT ![e] = L] BY <1>6 DEF Remember
<1>10. log[e] \in Seq(BOOLEAN) BY <1>2, <1>3 DEF TypeOK
<1>11. Forgotten \in Seq(BOOLEAN) /\ Len(Forgotten) = Memory + 1
  BY <1>0 DEF Forgotten
<1>12. L \in Seq(BOOLEAN)
  <2>1. Append(log[e], results[e]) \in Seq(BOOLEAN) BY <1>2, <1>10
  <2> QED BY <1>10, <1>11, <2>1
<1> HIDE DEF L
<1>13. log' \in [Address -> Seq(BOOLEAN)] /\ log'[e] = L /\ \A f \in Address : f # e => log'[f] = log[f]
  BY <1>2, <1>3, <1>9, <1>12 DEF TypeOK
<1>14. ASSUME e \in Watched, Len(L) <= Memory
       PROVE  Len(log[e]) <= Memory /\ L = Append(log[e], results[e])
  <2>1. Len(log[e]) \in Nat BY <1>10
  <2>2. CASE Len(log[e]) < Memory BY <1>0, <1>14, <2>1, <2>2 DEF L
  <2>3. CASE ~(Len(log[e]) < Memory)
    <3>1. L = Forgotten BY <1>14, <2>3 DEF L
    <3>2. Memory + 1 <= Memory BY <1>11, <1>14, <3>1
    <3> QED BY <1>0, <3>2
  <2> QED BY <2>2, <2>3
<1>15. e \in Watched /\ Len(log'[e]) <= Memory =>
         e \in Watched /\ Len(log[e]) <= Memory /\ log'[e] = Append(log[e], results[e])
  BY <1>13, <1>14
<1> QED BY <1>2, <1>7, <1>8, <1>13, <1>15 DEF e, Known

\* health.py:33-48: recording a result keeps the counters and the verdict exact.
LEMMA RecordExact ==
  ASSUME HealthAssumption, IInv, Record
  PROVE  CountersExact' /\ DebounceExact'
<1> DEFINE F == FailureThreshold
           S == SuccessThreshold
<1>0. F \in Nat \ {0} /\ S \in Nat \ {0} BY Facts
<1> HIDE DEF F, S
<1> SUFFICES ASSUME NEW e \in Address, Known(e)'
             PROVE  /\ Counts(log'[e], failures'[e], F, FALSE)
                    /\ Counts(log'[e], successes'[e], S, TRUE)
                    /\ state'[e] = ~Out(log'[e])
  BY DEF CountersExact, DebounceExact, F, S
<1>1. CASE e # Current
  <2>1. log'[e] = log[e] /\ failures'[e] = failures[e] /\ successes'[e] = successes[e] /\ state'[e] = state[e]
    BY <1>1, RecordTracks
  <2>2. Known(e) BY <2>1 DEF Known
  <2> QED BY <2>1, <2>2 DEF IInv, CountersExact, DebounceExact, F, S
<1>2. CASE e = Current
  <2> DEFINE s == log[e]
             r == results[e]
  <2>0. e \in Watched /\ Len(log'[e]) <= Memory BY DEF Known
  <2>1. Known(e) /\ log'[e] = Append(s, r) /\ r \in BOOLEAN BY <1>2, <2>0, RecordTracks
  <2>2. s \in Seq(BOOLEAN) BY DEF IInv, TypeOK
  <2>3. Counts(s, failures[e], F, FALSE) /\ Counts(s, successes[e], S, TRUE) /\ state[e] = ~Out(s)
    BY <2>1 DEF IInv, CountersExact, DebounceExact, F, S
  <2>4. failures'[e] \in Nat /\ successes'[e] \in Nat /\ state'[e] \in BOOLEAN /\ state[e] \in BOOLEAN
    <3>1. failures'[e] \in 0 .. FailureThreshold /\ successes'[e] \in 0 .. SuccessThreshold
      BY RecordTracks
    <3>2. state'[e] \in BOOLEAN BY RecordTracks
    <3>3. state[e] \in BOOLEAN BY DEF IInv, TypeOK
    <3> QED BY <3>1, <3>2, <3>3
  <2> HIDE DEF s, r
  <2>5. CASE r = TRUE
    <3>1. failures'[e] = 0 /\ successes'[e] = Raise(successes[e], S)
          /\ state'[e] = (state[e] \/ successes'[e] >= S)
      BY <1>2, <2>5, RecordTracks DEF r, S
    <3>2. Counts(Append(s, TRUE), 0, F, FALSE)
      <4>1. Counts(Append(s, ~FALSE), 0, F, FALSE) BY <1>0, <2>2, CountRestarts
      <4> QED BY <4>1
    <3>3. Counts(Append(s, TRUE), Raise(successes[e], S), S, TRUE) BY <1>0, <2>2, <2>3, CountGrows
    <3>4. Append(s, TRUE) \in Seq(BOOLEAN) BY <2>2
    <3>5. EndsWith(Append(s, TRUE), S, TRUE) <=> successes'[e] >= S
      BY <1>0, <3>1, <3>3, <3>4, CountIsRun
    <3>6. Out(Append(s, TRUE)) <=> Out(s) /\ ~EndsWith(Append(s, TRUE), S, TRUE)
      BY <2>2, OutAfterSuccess DEF S
    <3>7. state'[e] = ~Out(Append(s, TRUE)) BY <2>3, <2>4, <3>1, <3>5, <3>6, Zenon
    <3> QED BY <2>1, <2>5, <3>1, <3>2, <3>3, <3>7
  <2>6. CASE r = FALSE
    <3>1. successes'[e] = 0 /\ failures'[e] = Raise(failures[e], F)
          /\ state'[e] = (state[e] /\ failures'[e] < F)
      BY <1>2, <2>6, RecordTracks DEF r, F
    <3>2. Counts(Append(s, FALSE), 0, S, TRUE)
      <4>1. Counts(Append(s, ~TRUE), 0, S, TRUE) BY <1>0, <2>2, CountRestarts
      <4> QED BY <4>1
    <3>3. Counts(Append(s, FALSE), Raise(failures[e], F), F, FALSE) BY <1>0, <2>2, <2>3, CountGrows
    <3>4. Append(s, FALSE) \in Seq(BOOLEAN) BY <2>2
    <3>5. EndsWith(Append(s, FALSE), F, FALSE) <=> failures'[e] >= F
      BY <1>0, <3>1, <3>3, <3>4, CountIsRun
    <3>6. Out(Append(s, FALSE)) <=> Out(s) \/ EndsWith(Append(s, FALSE), F, FALSE)
      BY <2>2, OutAfterFailure DEF F
    <3>7. failures'[e] >= F <=> ~(failures'[e] < F) BY <1>0, <2>4
    <3>8. state'[e] = ~Out(Append(s, FALSE)) BY <2>3, <2>4, <3>1, <3>5, <3>6, <3>7, Zenon
    <3> QED BY <2>1, <2>6, <3>1, <3>2, <3>3, <3>8
  <2> QED BY <2>1, <2>5, <2>6
<1> QED BY <1>1, <1>2

LEMMA RecordAgrees ==
  ASSUME HealthAssumption, IInv, Record
  PROVE  SweepAgrees'
<1> SUFFICES ASSUME ~disturbed', NEW i \in DOMAIN Addresses, i < at
             PROVE  probeHealth'[Addresses[i]] = state'[Addresses[i]]
  BY DEF SweepAgrees, InSweep, Record
<1>1. at \in DOMAIN Addresses /\ at \in Nat /\ i \in Nat \ {0}
  BY Facts DEF IInv, SweepOK, InSweep, Record
<1>2. ~disturbed
  <2>1. at > 1 BY <1>1
  <2>2. disturbed' = (at > 1 /\ disturbed) BY DEF Record
  <2> QED BY <2>1, <2>2
<1>3. probeHealth[Addresses[i]] = state[Addresses[i]] BY <1>2 DEF IInv, SweepAgrees
<1>4. Addresses[i] # Current /\ Addresses[i] \in Address BY <1>1, Facts DEF Current
<1> QED BY <1>3, <1>4, RecordTracks DEF Record

LEMMA PublishAgrees ==
  ASSUME HealthAssumption, IInv, Publish
  PROVE  TypeOK' /\ SweepOK' /\ SweepAgrees'
<1>1. at \in DOMAIN Addresses /\ at \in Nat \ {0} /\ at <= Len(Addresses) /\ Current \in Address
      /\ results \in [Address -> BOOLEAN] /\ Len(Addresses) \in Nat
  BY Facts DEF IInv, SweepOK, InSweep, Publish, Current
<1>2. probeHealth \in [Address -> BOOLEAN] /\ verdict \in BOOLEAN BY DEF IInv, TypeOK
<1>3. probeHealth' \in [Address -> BOOLEAN] BY <1>1, <1>2 DEF Publish
<1>4. TypeOK'
  <2>1. <<>> \in [{} -> BOOLEAN] BY DOMAIN <<>> = {}
  <2>2. \E E \in SUBSET Address : results' \in [E -> BOOLEAN] BY <1>1, <2>1 DEF Publish, NoResults
  <2>3. at' \in Nat \ {0} /\ mpc' \in Stages /\ verdict' \in BOOLEAN
    <3>1. CASE at < Len(Addresses)
      <4>1. at' = at + 1 /\ mpc' = "record" /\ verdict' = verdict BY <3>1 DEF Publish
      <4> QED BY <1>1, <1>2, <4>1 DEF Stages
    <3>2. CASE ~(at < Len(Addresses)) BY <3>2 DEF Publish, Stages
    <3> QED BY <3>1, <3>2
  <2> QED BY <1>3, <2>2, <2>3 DEF IInv, TypeOK, Publish, serviceVars, trackerVars, resetVars
<1>5. SweepOK'
  <2>1. at < Len(Addresses) => at + 1 \in DOMAIN Addresses BY <1>1, Facts
  <2> QED BY <1>1, <2>1 DEF SweepOK, InSweep, Publish
<1>6. SweepAgrees'
  <2> SUFFICES ASSUME ~disturbed', NEW i \in DOMAIN Addresses, InSweep' => i < at'
               PROVE  probeHealth'[Addresses[i]] = state'[Addresses[i]]
    BY DEF SweepAgrees, Publish
  <2>1. ~disturbed /\ state' = state BY DEF Publish, trackerVars
  <2>2. i \in Nat /\ i <= Len(Addresses) /\ Addresses[i] \in Address BY Facts
  <2>3. i <= at BY <1>1, <2>2 DEF Publish, InSweep
  <2>4. verdict = state[Current] BY <2>1 DEF IInv, SweepAgrees, Publish
  <2>5. CASE i = at BY <1>1, <1>2, <2>1, <2>4, <2>5 DEF Publish, Current
  <2>6. CASE i < at
    <3>1. Addresses[i] # Current BY <1>1, <2>2, <2>6, Facts DEF Current
    <3>2. probeHealth[Addresses[i]] = state[Addresses[i]] BY <2>1, <2>6 DEF IInv, SweepAgrees
    <3> QED BY <1>2, <2>1, <2>2, <3>1, <3>2 DEF Publish
  <2> QED BY <1>1, <2>2, <2>3, <2>5, <2>6
<1> QED BY <1>4, <1>5, <1>6

\* A step that leaves the tracker and its history alone.
LEMMA TrackerAlone ==
  ASSUME IInv, UNCHANGED trackerVars
  PROVE  CountersExact' /\ DebounceExact'
BY DEF IInv, trackerVars, CountersExact, DebounceExact, Known, Counts

LEMMA Keeps == IInv /\ [Next]_vars => IInv'
<1> SUFFICES ASSUME IInv, [Next]_vars PROVE IInv' OBVIOUS
<1> USE HealthAssumption
<1>0. TypeOK /\ SweepOK BY DEF IInv
<1>1. ASSUME UNCHANGED <<trackerVars, probeHealth, mpc, at, verdict, results, disturbed>>,
             service' \in [Address -> Service], rpc' \in {"idle", "recover", "engine", "tracker"}
      PROVE  IInv'
  <2>1. TypeOK' BY <1>0, <1>1 DEF TypeOK, trackerVars
  <2>2. SweepOK' BY <1>0, <1>1 DEF SweepOK, InSweep
  <2>3. SweepAgrees' BY <1>1 DEF IInv, SweepAgrees, InSweep, Current, trackerVars
  <2> QED BY <1>1, <2>1, <2>2, <2>3, TrackerAlone DEF IInv
<1>2. ASSUME NEW e \in Address, NEW s \in Service, Become(e, s) PROVE IInv'
  BY <1>0, <1>1, <1>2 DEF TypeOK, Become, sweepVars, resetVars
<1>3. CASE Stop BY <1>0, <1>1, <1>3 DEF TypeOK, Stop, serviceVars, resetVars
<1>4. CASE ResetBegin \/ ResetFails
  BY <1>0, <1>1, <1>4 DEF TypeOK, ResetBegin, ResetFails, serviceVars, sweepVars
<1>5. CASE ResetRevives
  <2>1. "up" \in Service BY DEF Service
  <2>2. service' \in [Address -> Service] BY <1>0, <1>5, <2>1 DEF TypeOK, ResetRevives
  <2> QED BY <1>0, <1>1, <1>5, <2>2 DEF TypeOK, ResetRevives, sweepVars
<1>6. CASE ResetEngine
  <2>1. TypeOK' BY <1>0, <1>6 DEF TypeOK, ResetEngine, serviceVars, trackerVars, sweepVars, Everywhere
  <2>2. SweepOK' BY <1>0, <1>6 DEF SweepOK, InSweep, ResetEngine, sweepVars
  <2>3. SweepAgrees' BY <1>6 DEF SweepAgrees, ResetEngine
  <2> QED BY <1>6, <2>1, <2>2, <2>3, TrackerAlone DEF IInv, ResetEngine
<1>7. CASE ResetTracker
  <2>1. FailureThreshold \in Nat \ {0} /\ SuccessThreshold \in Nat \ {0} BY Facts
  <2>2. TypeOK'
    BY <1>0, <1>7, <2>1, EmptyHistory DEF TypeOK, ResetTracker, serviceVars, sweepVars, Everywhere
  <2>3. SweepOK' BY <1>0, <1>7 DEF SweepOK, InSweep, ResetTracker, sweepVars
  <2>4. CountersExact' /\ DebounceExact'
    BY <1>7, EmptyHistory DEF CountersExact, DebounceExact, ResetTracker, Everywhere
  <2>5. SweepAgrees' BY <1>7 DEF SweepAgrees, ResetTracker
  <2> QED BY <2>2, <2>3, <2>4, <2>5 DEF IInv
<1>8. ASSUME UNCHANGED <<serviceVars, probeHealth, trackerVars, verdict, resetVars, disturbed>>,
             mpc' \in Stages, at' \in Nat \ {0}, SweepOK', ~InSweep,
             \E E \in SUBSET Address : results' \in [E -> BOOLEAN], mpc' # "publish"
      PROVE  IInv'
  <2>1. TypeOK' BY <1>0, <1>8 DEF TypeOK, serviceVars, trackerVars, resetVars
  <2>2. SweepAgrees' BY <1>8 DEF IInv, SweepAgrees, trackerVars
  <2> QED BY <1>8, <2>1, <2>2, TrackerAlone DEF IInv
<1>9. <<>> \in [{} -> BOOLEAN] BY DOMAIN <<>> = {}
<1>10. CASE StartSweep
  BY <1>0, <1>8, <1>9, <1>10 DEF TypeOK, StartSweep, SweepOK, InSweep, Stages, NoResults
<1>11. ASSUME NEW e \in Address, Probe(e) PROVE IInv'
  <2>1. PICK E \in SUBSET Address : results \in [E -> BOOLEAN] BY <1>0 DEF TypeOK
  <2>2. DOMAIN results = E BY <2>1
  <2>3. results' \in [E \union {e} -> BOOLEAN] BY <1>11, <2>1, <2>2 DEF Probe
  <2>4. mpc' = "probe" /\ at' = at BY <1>11 DEF Probe
  <2>5. SweepOK' /\ ~InSweep BY <1>11, <2>4 DEF Probe, SweepOK, InSweep
  <2>6. E \union {e} \in SUBSET Address OBVIOUS
  <2>7. \E D \in SUBSET Address : results' \in [D -> BOOLEAN] BY <2>3, <2>6
  <2> QED BY <1>0, <1>8, <1>11, <2>4, <2>5, <2>7 DEF Probe, TypeOK, Stages
<1>12. ASSUME NEW e \in Address, ProbeRaises(e) PROVE IInv'
  BY <1>0, <1>8, <1>9, <1>12 DEF TypeOK, ProbeRaises, SweepOK, InSweep, Stages, NoResults
<1>13. CASE ProbesDone
  <2>1. results \in [Address -> BOOLEAN] BY <1>0, <1>13 DEF TypeOK, ProbesDone
  <2>2. Addresses # <<>> => 1 \in DOMAIN Addresses
    <3>1. Addresses \in Seq(STRING) BY DEF HealthAssumption
    <3> QED BY <3>1
  <2>3. mpc' \in {"wait", "record"} /\ at' = 1 /\ results' = results /\ (mpc' = "record" => Addresses # <<>>)
    BY <1>13 DEF ProbesDone
  <2>4. SweepOK' /\ ~InSweep BY <1>13, <2>1, <2>2, <2>3 DEF SweepOK, InSweep, ProbesDone
  <2>5. mpc' \in Stages /\ mpc' # "publish" BY <2>3 DEF Stages
  <2> QED BY <1>0, <1>8, <1>13, <2>3, <2>4, <2>5 DEF ProbesDone, TypeOK
<1>14. CASE Record
  <2>1. TypeOK'
    BY <1>0, <1>14, RecordTracks DEF TypeOK, Record, serviceVars, resetVars, Stages
  <2>2. SweepOK' BY <1>0, <1>14 DEF SweepOK, InSweep, Record
  <2> QED BY <1>14, <2>1, <2>2, RecordExact, RecordAgrees DEF IInv
<1>15. CASE ReadVerdict
  <2>1. Current \in Address BY <1>0, <1>15, Facts DEF SweepOK, InSweep, ReadVerdict, Current
  <2>2. TypeOK'
    BY <1>0, <1>15, <2>1 DEF TypeOK, ReadVerdict, serviceVars, trackerVars, resetVars, Stages
  <2>3. SweepOK' BY <1>0, <1>15 DEF SweepOK, InSweep, ReadVerdict
  <2>4. SweepAgrees' BY <1>15 DEF IInv, SweepAgrees, InSweep, ReadVerdict, trackerVars, Current
  <2> QED BY <1>15, <2>2, <2>3, <2>4, TrackerAlone DEF IInv, ReadVerdict
<1>16. CASE Publish BY <1>16, PublishAgrees, TrackerAlone DEF IInv, Publish
<1>17. CASE MonitorEnds
  BY <1>0, <1>8, <1>17 DEF TypeOK, MonitorEnds, SweepOK, InSweep, Stages
<1>18. CASE UNCHANGED vars
  BY <1>0, <1>1, <1>18 DEF TypeOK, vars, serviceVars, sweepVars, resetVars
<1> QED
  BY <1>2, <1>3, <1>4, <1>5, <1>6, <1>7, <1>10, <1>11, <1>12, <1>13, <1>14, <1>15, <1>16, <1>17, <1>18
  DEF Next, SweepStep, ResetStep

-----------------------------------------------------------------------------
(* The theorems. *)

\* The types of the monitor's state, the engine's view and a reset under way.
THEOREM TypeCorrect == Spec => []TypeOK
<1>1. IInv => TypeOK BY DEF IInv
<1> QED BY <1>1, Begins, Keeps, PTL DEF Spec

\* health.py:33-48: for every order of results, the tracker's verdict on an
\* endpoint is what its history since the last reset says.
THEOREM TrackerDebounces == Spec => []DebounceExact
<1>1. IInv => DebounceExact BY DEF IInv
<1> QED BY <1>1, Begins, Keeps, PTL DEF Spec

\* health.py:90-116 and api.py:317-352: between two sweeps the engine has the
\* tracker's view of every endpoint, unless a reset interfered with the last.
THEOREM EngineFollows == Spec => []PoolFollowsTracker
<1>1. IInv => PoolFollowsTracker
  <2> SUFFICES ASSUME IInv, mpc = "wait", ~disturbed PROVE probeHealth = state
    BY DEF PoolFollowsTracker
  <2>1. \A e \in Address : probeHealth[e] = state[e]
    BY DEF IInv, SweepAgrees, InSweep, Address
  <2>2. probeHealth \in [Address -> BOOLEAN] /\ state \in [Address -> BOOLEAN] BY DEF IInv, TypeOK
  <2> QED BY <2>1, <2>2
<1> QED BY <1>1, Begins, Keeps, PTL DEF Spec

\* health.py:101-102 and policy.py:252-254: what the monitor takes out of the DNS
\* pool has failed as often as it must, what it puts back has answered as often.
THEOREM PoolIsDebounced == Spec => PoolDebounced
<1> DEFINE A == \A e \in Address : probeHealth'[e] # probeHealth[e] /\ ~disturbed /\ Known(e) =>
                  probeHealth'[e] = ~Out(log[e]) \/ rpc' = "tracker"
<1>1. IInv /\ [Next]_vars => [A]_vars
  <2> SUFFICES ASSUME IInv, Next, NEW e \in Address, probeHealth'[e] # probeHealth[e], ~disturbed, Known(e)
               PROVE  probeHealth'[e] = ~Out(log[e]) \/ rpc' = "tracker"
    OBVIOUS
  <2>1. probeHealth' # probeHealth OBVIOUS
  <2>2. CASE Publish
    <3>1. probeHealth' = [probeHealth EXCEPT ![Current] = verdict] /\ verdict = state[Current]
      BY <2>2 DEF Publish, IInv, SweepAgrees
    <3>2. e = Current /\ probeHealth'[e] = state[e] BY <3>1 DEF IInv, TypeOK
    <3> QED BY <3>2 DEF IInv, DebounceExact
  <2>3. CASE ResetEngine BY <2>3 DEF ResetEngine
  <2> QED BY <2>1, <2>2, <2>3 DEF Next, SweepStep, ResetStep, Become, StartSweep, Probe, ProbeRaises,
         ProbesDone, Record, ReadVerdict, MonitorEnds, Stop, ResetBegin, ResetRevives, ResetFails, ResetTracker
<1> QED BY <1>1, Begins, Keeps, PTL DEF Spec, PoolDebounced
=============================================================================
