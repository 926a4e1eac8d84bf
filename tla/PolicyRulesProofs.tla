-------------------------- MODULE PolicyRulesProofs --------------------------
(***************************************************************************)
(* What holds of the rules for every alphabet, every configuration and any *)
(* number of requests: the last request about a name decides; matching by  *)
(* characters decides as a reader of labels would; and the price of a name *)
(* is the one its most specific pattern sets.                              *)
(***************************************************************************)
EXTENDS PolicyRules, FiniteSetTheorems, NaturalsInduction, WellFoundedInduction, TLAPS

-----------------------------------------------------------------------------
(* Positions. *)

\* A set of numbers that is not empty has a least one.
LEMMA Least ==
  ASSUME NEW T, T \subseteq Nat, T # {}
  PROVE  \E m \in T : \A n \in T : m <= n
<1>1. \E m \in T : \A n \in T : ~(<<n, m>> \in OpToRel(<, Nat))
  BY NatLessThanWellFounded, WFMin, Zenon
<1>2. PICK m \in T : \A n \in T : ~(<<n, m>> \in OpToRel(<, Nat))
  BY <1>1
<1>3. m \in T /\ \A n \in T : ~(n < m)
  BY <1>2, Zenon DEF OpToRel
<1> QED
  BY <1>3

\* The last of a set of positions, 0 where there is none.
LEMMA LastIs ==
  ASSUME NEW m \in Nat, NEW S, S \subseteq 1 .. m
  PROVE  /\ LastOf(S) \in 0 .. m
         /\ \A i \in S : i <= LastOf(S)
         /\ LastOf(S) = 0 \/ LastOf(S) \in S
<1> DEFINE U == {n \in Nat : \A i \in S : i <= n}
           T == S \union {0}
<1>1. PICK u \in U : \A n \in U : u <= n
  <2>1. m \in U /\ U \subseteq Nat
    OBVIOUS
  <2> HIDE DEF U
  <2> QED
    BY <2>1, Least
<1>2. u = 0 \/ u \in S
  <2> SUFFICES ASSUME u # 0, u \notin S PROVE FALSE
    OBVIOUS
  <2>1. u - 1 \in Nat /\ ~(u <= u - 1)
    BY <1>1
  <2>2. \A i \in S : i <= u - 1
    BY <1>1
  <2> QED
    BY <1>1, <2>1, <2>2
<1>3. u \in T /\ \A y \in T : u >= y
  BY <1>1, <1>2
<1>4. Max(T) \in T /\ \A y \in T : Max(T) >= y
  BY <1>3 DEF Max
<1>5. LastOf(S) = Max(T)
  BY DEF LastOf
<1> DEFINE z == Max(T)
<1>6. z \in 0 .. m /\ (\A i \in S : i <= z) /\ (z = 0 \/ z \in S)
  <2>1. (z = 0 \/ z \in S) /\ \A i \in S : z >= i
    BY <1>4
  <2> HIDE DEF z, T
  <2>2. S \subseteq 1 .. m /\ m \in Nat
    OBVIOUS
  <2>3. z \in 0 .. m
    <3>1. 0 \in 0 .. m /\ S \subseteq 0 .. m
      BY <2>2, SMT
    <3> QED
      BY <2>1, <3>1, Zenon
  <2>4. \A i \in S : i <= z
    BY <2>1, <2>2, <2>3
  <2> QED
    BY <2>1, <2>3, <2>4
<1> HIDE DEF z
<1> QED
  BY <1>5, <1>6 DEF z

-----------------------------------------------------------------------------
(* Normalized names. *)

\* Normal: lower case, and no dot at the end.
Normal(name) ==
  /\ name \in Seq(Char)
  /\ \A i \in 1 .. Len(name) : Lower[name[i]] = name[i]
  /\ Len(name) = 0 \/ name[Len(name)] # "."

LEMMA NormalizedIsNormal == ASSUME NEW name \in Seq(Char) PROVE Normal(NormalizeDomain(name))
<1> DEFINE L == Len(name)
           S == {j \in 1 .. L : name[j] # "."}
           m == LastOf(S)
           r == NormalizeDomain(name)
<1>1. L \in Nat /\ DOMAIN name = 1 .. L /\ \A i \in 1 .. L : name[i] \in Char
  OBVIOUS
<1>2. m \in 0 .. L /\ (m = 0 \/ m \in S)
  <2>1. S \subseteq 1 .. L
    OBVIOUS
  <2> HIDE DEF S
  <2> QED
    BY <1>1, <2>1, LastIs
<1>3. r = [i \in 1 .. m |-> Lower[name[i]]]
  BY <1>1 DEF NormalizeDomain
<1>4. Lower \in [Char -> Char] /\ (\A c \in Char : Lower[Lower[c]] = Lower[c]) /\ \A c \in Char : Lower[c] = "." => c = "."
  BY RulesAssumption DEF RulesAssumption
<1>5. m = 0 \/ name[m] # "."
  BY <1>2
<1> HIDE DEF L, S, m, r
<1>6. \A i \in 1 .. m : i \in 1 .. L /\ name[i] \in Char
  BY <1>1, <1>2
<1>7. m \in Nat /\ \A i \in 1 .. m : Lower[name[i]] \in Char
  BY <1>1, <1>2, <1>4, <1>6
<1>8. r \in Seq(Char) /\ Len(r) = m /\ \A i \in 1 .. m : r[i] = Lower[name[i]]
  BY <1>3, <1>7
<1>9. \A i \in 1 .. m : Lower[r[i]] = r[i]
  BY <1>4, <1>6, <1>8
<1>10. m = 0 \/ r[m] # "."
  <2> SUFFICES ASSUME m # 0 PROVE r[m] # "."
    OBVIOUS
  <2>1. m \in 1 .. m
    BY <1>7
  <2> QED
    BY <1>4, <1>5, <1>6, <1>8, <2>1
<1> QED
  BY <1>8, <1>9, <1>10 DEF Normal, r

LEMMA NormalIsKept == ASSUME NEW name, Normal(name) PROVE NormalizeDomain(name) = name
<1> DEFINE L == Len(name)
           S == {j \in 1 .. L : name[j] # "."}
           m == LastOf(S)
<1>1. L \in Nat /\ DOMAIN name = 1 .. L /\ name \in Seq(Char) /\ (\A i \in 1 .. L : Lower[name[i]] = name[i])
  BY DEF Normal
<1>2. L = 0 \/ L \in S
  BY <1>1 DEF Normal
<1>3. m = L
  <2>1. S \subseteq 1 .. L
    OBVIOUS
  <2> HIDE DEF S, L
  <2>2. m \in 0 .. L /\ \A i \in S : i <= m
    BY <1>1, <2>1, LastIs
  <2> QED
    BY <1>1, <1>2, <2>2
<1>4. NormalizeDomain(name) = [i \in 1 .. m |-> Lower[name[i]]]
  BY <1>1 DEF NormalizeDomain
<1> HIDE DEF L, m
<1>5. NormalizeDomain(name) = [i \in 1 .. L |-> name[i]]
  BY <1>1, <1>3, <1>4
<1> QED
  BY <1>1, <1>5

\* NormalizeDomain() is idempotent: it may be applied to what a request
\* names, to what the list holds, and again when the rules are built.
LEMMA NormalizedOnce ==
  ASSUME NEW name \in Seq(Char)
  PROVE  NormalizeDomain(name) \in Seq(Char) /\ NormalizeDomain(NormalizeDomain(name)) = NormalizeDomain(name)
<1>1. Normal(NormalizeDomain(name))
  BY NormalizedIsNormal
<1> QED
  BY <1>1, NormalIsKept DEF Normal

-----------------------------------------------------------------------------
(***************************************************************************)
(* LastWordHolds is inductive once the entries are known to be names: a    *)
(* grant adds a spelling that is normalized already, so that no other name *)
(* is granted by it, and a revocation takes every spelling of its name and *)
(* none of another.                                                        *)
(***************************************************************************)
RulesTypes ==
  /\ allowed \subseteq Seq(Char)
  /\ word \in [Subjects -> {"none", "granted", "revoked"}]

LEMMA RequestedAreNames == \A name \in Requested : name \in Seq(Char) /\ NormalizeDomain(name) \in Subjects
  BY RulesAssumption DEF RulesAssumption, Subjects, Normalized

LEMMA GrantKeeps ==
  ASSUME RulesTypes, LastWordHolds, NEW name \in Requested, Grant(name)
  PROVE  RulesTypes' /\ LastWordHolds'
<1> DEFINE d == NormalizeDomain(name)
<1>1. d \in Seq(Char) /\ d \in Subjects /\ NormalizeDomain(d) = d
  BY RequestedAreNames, NormalizedOnce
<1>2. allowed \subseteq Seq(Char) /\ word' = [word EXCEPT ![d] = "granted"] /\ word \in [Subjects -> {"none", "granted", "revoked"}]
  BY DEF RulesTypes, Grant
<1> HIDE DEF d
<1>3. Normalized(allowed') = Normalized(allowed) \union {d}
  <2>1. CASE Listed(name)
    BY <2>1 DEF Listed, Grant, d
  <2>2. CASE ~Listed(name)
    <3>1. allowed' = allowed \union {d}
      BY <2>2 DEF Grant, d
    <3> QED
      BY <1>1, <3>1 DEF Normalized
  <2> QED
    BY <2>1, <2>2
<1>4. allowed' \subseteq Seq(Char)
  BY <1>1, <1>2 DEF Grant, d
<1>5. \A n \in Subjects : word'[n] = IF n = d THEN "granted" ELSE word[n]
  BY <1>2
<1>6. RulesTypes'
  BY <1>1, <1>2, <1>4 DEF RulesTypes
<1>7. LastWordHolds'
  BY <1>3, <1>5 DEF LastWordHolds
<1> QED
  BY <1>6, <1>7

LEMMA RevokeKeeps ==
  ASSUME RulesTypes, LastWordHolds, NEW name \in Requested, Revoke(name)
  PROVE  RulesTypes' /\ LastWordHolds'
<1> DEFINE d == NormalizeDomain(name)
<1>1. d \in Subjects
  BY RequestedAreNames
<1>2. /\ allowed \subseteq Seq(Char) /\ word \in [Subjects -> {"none", "granted", "revoked"}]
      /\ word' = [word EXCEPT ![d] = "revoked"]
      /\ allowed' = {e \in allowed : NormalizeDomain(e) # d}
  BY DEF RulesTypes, Revoke
<1> HIDE DEF d
<1>3. Normalized(allowed') = Normalized(allowed) \ {d}
  BY <1>2 DEF Normalized
<1>4. \A n \in Subjects : word'[n] = IF n = d THEN "revoked" ELSE word[n]
  BY <1>2
<1>5. RulesTypes'
  BY <1>1, <1>2 DEF RulesTypes
<1>6. LastWordHolds'
  BY <1>3, <1>4 DEF LastWordHolds
<1> QED
  BY <1>5, <1>6

\* What the requests leave alone belongs to it: the table is one of those shipped.
RulesInv == RulesTypes /\ LastWordHolds /\ costs \in CostTables

LEMMA RulesInvHolds == Spec => []RulesInv
<1>1. Init => RulesInv
  <2> SUFFICES ASSUME Init PROVE RulesInv
    OBVIOUS
  <2>1. allowed \subseteq Seq(Char) /\ word = [n \in Subjects |-> "none"] /\ costs \in CostTables
    BY RulesAssumption DEF RulesAssumption, Init
  <2> QED
    BY <2>1 DEF RulesInv, RulesTypes, LastWordHolds
<1>2. RulesInv /\ [Next]_vars => RulesInv'
  <2> SUFFICES ASSUME RulesTypes, LastWordHolds, costs \in CostTables, [Next]_vars PROVE RulesInv'
    BY DEF RulesInv
  <2>1. CASE Next
    <3>1. costs' = costs
      BY <2>1 DEF Next, Grant, Revoke
    <3> QED
      BY <2>1, <3>1, GrantKeeps, RevokeKeeps DEF Next, RulesInv
  <2>2. CASE UNCHANGED vars
    BY <2>2 DEF vars, RulesInv, RulesTypes, LastWordHolds
  <2> QED
    BY <2>1, <2>2
<1> QED
  BY <1>1, <1>2, PTL DEF Spec

\* set_domain_access(): whatever spellings the configuration holds and the
\* requests use, the last of them about a name decides whether the list has it.
THEOREM LastWordDecides == Spec => []LastWordHolds
  BY RulesInvHolds, PTL DEF RulesInv

-----------------------------------------------------------------------------
(***************************************************************************)
(* Labels.  A name is cut at its dots and at both ends; what makes the     *)
(* matching of characters a matching of labels is that two names that end  *)
(* alike are cut alike there, and conversely.                              *)
(***************************************************************************)
Rank(H, i) == Cardinality({j \in H : j < i})
Size(name) == Cardinality(Dots(name)) + 1

\* The ranks of a finite set of positions are in their order, and every number
\* below its size is somebody's rank.
LEMMA Ranks ==
  ASSUME NEW m \in Nat, NEW H, H \subseteq 0 .. m
  PROVE  /\ IsFiniteSet(H) /\ Cardinality(H) \in Nat
         /\ \A i \in H : Rank(H, i) \in 0 .. Cardinality(H) - 1
         /\ \A i, j \in H : i < j => Rank(H, i) < Rank(H, j)
         /\ \A k \in 0 .. Cardinality(H) - 1 : \E i \in H : Rank(H, i) = k
<1> DEFINE Before(i) == {j \in H : j < i}
<1>1. IsFiniteSet(H) /\ Cardinality(H) \in Nat
  <2>1. IsFiniteSet(0 .. m)
    BY FS_Interval
  <2> QED
    BY <2>1, FS_Subset, FS_CardinalityType
<1>2. ASSUME NEW i \in H PROVE IsFiniteSet(Before(i)) /\ Rank(H, i) = Cardinality(Before(i)) /\ Rank(H, i) \in Nat
  <2>1. Before(i) \in SUBSET H
    OBVIOUS
  <2>2. IsFiniteSet(Before(i))
    BY <1>1, <2>1, FS_Subset
  <2>3. Cardinality(Before(i)) \in Nat
    BY <2>2, FS_CardinalityType
  <2> QED
    BY <2>2, <2>3 DEF Rank
<1>3. ASSUME NEW i \in H PROVE Rank(H, i) \in 0 .. Cardinality(H) - 1
  <2>1. Before(i) \in SUBSET H /\ Before(i) # H
    <3>1. i \in H /\ i \notin Before(i)
      OBVIOUS
    <3> QED
      BY <3>1
  <2>2. Cardinality(Before(i)) <= Cardinality(H) /\ Cardinality(Before(i)) # Cardinality(H)
    BY <1>1, <2>1, FS_Subset
  <2> QED
    BY <1>1, <1>2, <2>2
<1>4. ASSUME NEW i \in H, NEW j \in H, i < j PROVE Rank(H, i) < Rank(H, j)
  <2>1. Before(i) \in SUBSET Before(j) /\ i \in Before(j) /\ i \notin Before(i)
    <3>1. \A k \in H : k \in Int
      OBVIOUS
    <3>2. ~(i < i) /\ \A k \in H : k < i => k < j
      BY <1>4, <3>1
    <3> QED
      BY <1>4, <3>2
  <2>2. Before(i) # Before(j)
    BY <2>1
  <2>3. Cardinality(Before(i)) # Cardinality(Before(j)) /\ Cardinality(Before(i)) <= Cardinality(Before(j))
    BY <1>2, <2>1, <2>2, FS_Subset
  <2> QED
    BY <1>2, <2>3
<1>5. ASSUME NEW k \in 0 .. Cardinality(H) - 1 PROVE \E i \in H : Rank(H, i) = k
  <2> DEFINE T == 0 .. Cardinality(H) - 1
             f == [i \in H |-> Rank(H, i)]
  <2>1. IsFiniteSet(T) /\ Cardinality(T) = Cardinality(H)
    <3>1. 0 \in Int /\ Cardinality(H) - 1 \in Int
      BY <1>1
    <3>2. IsFiniteSet(T) /\ Cardinality(T) = IF 0 > Cardinality(H) - 1 THEN 0 ELSE Cardinality(H) - 1 - 0 + 1
      BY <3>1, FS_Interval
    <3> QED
      BY <1>1, <3>2
  <2>2. f \in [H -> T] /\ \A i, j \in H : f[i] = f[j] => i = j
    <3>1. \A i, j \in H : Rank(H, i) = Rank(H, j) => i = j
      <4> SUFFICES ASSUME NEW i \in H, NEW j \in H, Rank(H, i) = Rank(H, j), i # j PROVE FALSE
        OBVIOUS
      <4>1. i < j \/ j < i
        OBVIOUS
      <4>2. Rank(H, i) < Rank(H, j) \/ Rank(H, j) < Rank(H, i)
        BY <1>4, <4>1
      <4>3. Rank(H, i) \in Nat /\ Rank(H, j) \in Nat
        BY <1>2
      <4> QED
        BY <4>2, <4>3
    <3> QED
      BY <1>3, <3>1
  <2> HIDE DEF f, T
  <2>3. f \in Injection(H, T)
    BY <2>2 DEF Injection, IsInjective
  <2>4. f \in Surjection(H, T)
    BY <2>1, <2>3, FS_Injection
  <2>5. \E i \in H : f[i] = k
    BY <2>4 DEF Surjection, T
  <2> QED
    BY <2>5 DEF f
<1> QED
  BY <1>1, <1>3, <1>4, <1>5

\* The cuts of a name in their order.
LEMMA CutsInOrder ==
  ASSUME NEW name \in Seq(Char)
  PROVE  /\ Size(name) \in Nat \ {0} /\ Cut(name, 0) = 0 /\ Cut(name, Size(name)) = Len(name) + 1
         /\ \A k \in 0 .. Size(name) : Cut(name, k) \in Cuts(name)
         /\ \A i \in Cuts(name) : \E k \in 0 .. Size(name) : Cut(name, k) = i
         /\ \A j, k \in 0 .. Size(name) : j < k => Cut(name, j) < Cut(name, k)
<1> DEFINE H == Cuts(name)
           L == Len(name)
           n == Size(name)
           c(k) == Cut(name, k)
<1>1. L \in Nat /\ DOMAIN name = 1 .. L
  OBVIOUS
<1> HIDE DEF L
<1>2. Dots(name) \subseteq 1 .. L
  BY <1>1 DEF Dots
<1>3. IsFiniteSet(Dots(name)) /\ Cardinality(Dots(name)) \in Nat
  <2>1. Dots(name) \subseteq 0 .. L
    BY <1>1, <1>2
  <2> QED
    BY <1>1, <2>1, Ranks
<1>4. H \subseteq 0 .. L + 1 /\ 0 \in H /\ L + 1 \in H
  BY <1>1, <1>2 DEF Cuts, L
<1>5. IsFiniteSet(H) /\ Cardinality(H) = n + 1
  <2>1. 0 \notin Dots(name) /\ L + 1 \notin Dots(name) \union {0}
    BY <1>1, <1>2
  <2>2. IsFiniteSet(Dots(name) \union {0}) /\ Cardinality(Dots(name) \union {0}) = Cardinality(Dots(name)) + 1
    BY <1>3, <2>1, FS_AddElement
  <2>3. IsFiniteSet((Dots(name) \union {0}) \union {L + 1}) /\ Cardinality((Dots(name) \union {0}) \union {L + 1}) = n + 1
    BY <2>1, <2>2, FS_AddElement DEF Size
  <2>4. H = (Dots(name) \union {0}) \union {L + 1}
    BY DEF Cuts, L
  <2> QED
    BY <2>3, <2>4
<1>6. n \in Nat \ {0}
  BY <1>3 DEF Size
<1> HIDE DEF n, H
<1>7. /\ \A i \in H : Rank(H, i) \in 0 .. n
      /\ \A i, j \in H : i < j => Rank(H, i) < Rank(H, j)
      /\ \A k \in 0 .. n : \E i \in H : Rank(H, i) = k
  <2>1. L + 1 \in Nat /\ n + 1 - 1 = n
    BY <1>1, <1>6
  <2>2. /\ \A i \in H : Rank(H, i) \in 0 .. Cardinality(H) - 1
        /\ \A i, j \in H : i < j => Rank(H, i) < Rank(H, j)
        /\ \A k \in 0 .. Cardinality(H) - 1 : \E i \in H : Rank(H, i) = k
    BY <1>4, <2>1, Ranks
  <2>3. Cardinality(H) - 1 = n
    BY <1>5, <1>6
  <2> QED
    BY <2>2, <2>3, Zenon
<1>a. \A i \in H : i \in Nat
  BY <1>1, <1>4
<1>8. \A k \in 0 .. n : c(k) \in H /\ Rank(H, c(k)) = k
  <2> TAKE k \in 0 .. n
  <2>1. \E i \in H : Rank(H, i) = k
    BY <1>7
  <2>2. c(k) = CHOOSE i \in H : Rank(H, i) = k
    BY DEF Cut, Rank, H
  <2> HIDE DEF c
  <2> QED
    BY <2>1, <2>2
<1> HIDE DEF c
<1>9. \A i, j \in H : Rank(H, i) = Rank(H, j) => i = j
  <2> SUFFICES ASSUME NEW i \in H, NEW j \in H, Rank(H, i) = Rank(H, j), i # j PROVE FALSE
    OBVIOUS
  <2>1. i \in Nat /\ j \in Nat /\ Rank(H, i) \in Nat
    BY <1>1, <1>4, <1>6, <1>7
  <2>2. i < j \/ j < i
    BY <2>1
  <2>3. Rank(H, i) < Rank(H, j) \/ Rank(H, j) < Rank(H, i)
    BY <1>7, <2>2
  <2> QED
    BY <2>1, <2>3
<1>10. \A i \in H : \E k \in 0 .. n : c(k) = i
  BY <1>7, <1>8, <1>9
<1>11. \A j, k \in 0 .. n : j < k => c(j) < c(k)
  <2> SUFFICES ASSUME NEW j \in 0 .. n, NEW k \in 0 .. n, j < k, ~(c(j) < c(k)) PROVE FALSE
    OBVIOUS
  <2>1. c(j) \in H /\ c(k) \in H /\ Rank(H, c(j)) = j /\ Rank(H, c(k)) = k
    BY <1>8
  <2>2. c(j) \in Nat /\ c(k) \in Nat
    BY <1>a, <2>1, Zenon
  <2>3. c(k) = c(j) \/ c(k) < c(j)
    BY <2>2
  <2>4. k = j \/ k < j
    BY <1>7, <2>1, <2>3
  <2> QED
    BY <1>6, <2>4
<1>12. c(0) = 0
  <2>1. PICK k \in 0 .. n : c(k) = 0
    BY <1>4, <1>10
  <2>2. k = 0 \/ 0 < k
    BY <1>6
  <2>3. 0 \in 0 .. n
    BY <1>6
  <2>4. ~(0 < k)
    <3> SUFFICES ASSUME 0 < k PROVE FALSE
      OBVIOUS
    <3>1. c(0) < 0
      BY <1>11, <2>1, <2>3
    <3>2. c(0) \in Nat
      BY <1>a, <1>8, <2>3, Zenon
    <3> QED
      BY <3>1, <3>2
  <2> QED
    BY <2>1, <2>2, <2>4
<1>13. c(n) = L + 1
  <2>1. PICK k \in 0 .. n : c(k) = L + 1
    BY <1>4, <1>10
  <2>2. k = n \/ k < n
    BY <1>6
  <2>3. n \in 0 .. n
    BY <1>6
  <2>4. ~(k < n)
    <3> SUFFICES ASSUME k < n PROVE FALSE
      OBVIOUS
    <3>1. L + 1 < c(n)
      BY <1>11, <2>1, <2>3
    <3>2. c(n) \in 0 .. L + 1
      BY <1>4, <1>8, <2>3
    <3> QED
      BY <1>1, <3>1, <3>2
  <2> QED
    BY <2>1, <2>2, <2>4
<1> QED
  BY <1>6, <1>8, <1>10, <1>11, <1>12, <1>13 DEF H, L, n, c

\* What the cuts are, with the letters: a dot at every cut but the first and the
\* last, no dot between two cuts, and every letter between two or at the second.
LEMMA CutsAreDots ==
  ASSUME NEW name \in Seq(Char)
  PROVE  /\ \A k \in 0 .. Size(name) : Cut(name, k) \in 0 .. Len(name) + 1
         /\ \A k \in 1 .. Size(name) - 1 : Cut(name, k) \in 1 .. Len(name) /\ name[Cut(name, k)] = "."
         /\ \A i \in 1 .. Len(name) : name[i] = "." => \E k \in 1 .. Size(name) - 1 : Cut(name, k) = i
         /\ \A i \in 1 .. Len(name) + 1 : \E k \in 1 .. Size(name) : Cut(name, k - 1) < i /\ i <= Cut(name, k)
<1> DEFINE L == Len(name)
           n == Size(name)
           c(k) == Cut(name, k)
<1>1. L \in Nat /\ DOMAIN name = 1 .. L
  OBVIOUS
<1>2. /\ n \in Nat \ {0} /\ c(0) = 0 /\ c(n) = L + 1
      /\ \A k \in 0 .. n : c(k) \in Cuts(name)
      /\ \A i \in Cuts(name) : \E k \in 0 .. n : c(k) = i
      /\ \A j, k \in 0 .. n : j < k => c(j) < c(k)
  BY CutsInOrder
<1> HIDE DEF L, n, c
<1>3. \A i : i \in Cuts(name) <=> i = 0 \/ i = L + 1 \/ (i \in 1 .. L /\ name[i] = ".")
  BY <1>1 DEF Cuts, Dots, L
<1>4. \A k \in 0 .. n : c(k) \in 0 .. L + 1
  <2> TAKE k \in 0 .. n
  <2>1. c(k) = 0 \/ c(k) = L + 1 \/ c(k) \in 1 .. L
    BY <1>2, <1>3
  <2> QED
    BY <1>1, <2>1
<1>5. ASSUME NEW k \in 1 .. n - 1 PROVE c(k) \in 1 .. L /\ name[c(k)] = "."
  <2>1. 0 \in 0 .. n /\ n \in 0 .. n /\ k \in 0 .. n /\ 0 < k /\ k < n
    BY <1>2
  <2>2. c(0) < c(k) /\ c(k) < c(n)
    BY <1>2, <2>1
  <2>3. c(k) # 0 /\ c(k) # L + 1
    BY <1>1, <1>2, <1>4, <2>1, <2>2
  <2> QED
    BY <1>2, <1>3, <2>1, <2>3
<1>6. ASSUME NEW i \in 1 .. L, name[i] = "." PROVE \E k \in 1 .. n - 1 : c(k) = i
  <2>1. PICK k \in 0 .. n : c(k) = i
    BY <1>2, <1>3, <1>6
  <2>2. i # 0 /\ i # L + 1
    BY <1>1
  <2>3. k # 0 /\ k # n
    BY <1>2, <2>1, <2>2
  <2>4. k \in 1 .. n - 1
    BY <1>2, <2>3
  <2> QED
    BY <2>1, <2>4
<1>7. ASSUME NEW i \in 1 .. L + 1 PROVE \E k \in 1 .. n : c(k - 1) < i /\ i <= c(k)
  <2> DEFINE T == {k \in 0 .. n : i <= c(k)}
  <2>1. n \in T /\ T \subseteq Nat
    BY <1>1, <1>2
  <2>2. PICK k \in T : \A j \in T : k <= j
    <3> HIDE DEF T
    <3> QED
      BY <2>1, Least
  <2>3. k \in 0 .. n /\ i <= c(k)
    OBVIOUS
  <2>4. k # 0
    BY <1>1, <1>2, <2>3
  <2>5. k \in 1 .. n /\ k - 1 \in 0 .. n /\ ~(k <= k - 1)
    BY <1>2, <2>3, <2>4
  <2>6. k - 1 \notin T
    BY <2>2, <2>5
  <2>7. ~(i <= c(k - 1))
    BY <2>5, <2>6
  <2>8. c(k - 1) \in Nat
    BY <1>1, <1>4, <2>5
  <2>9. c(k - 1) < i
    BY <1>1, <2>7, <2>8
  <2> QED
    BY <2>3, <2>5, <2>9
<1> QED
  BY <1>4, <1>5, <1>6, <1>7 DEF L, n, c

\* Between two cuts there is none.
LEMMA NoDotBetween ==
  ASSUME NEW name \in Seq(Char), NEW k \in 1 .. Size(name), NEW i \in 1 .. Len(name),
         Cut(name, k - 1) < i, i < Cut(name, k)
  PROVE  name[i] # "."
<1> DEFINE n == Size(name)
           c(j) == Cut(name, j)
<1>1. /\ n \in Nat \ {0}
      /\ \A j, l \in 0 .. n : j < l => c(j) < c(l)
  BY CutsInOrder
<1>2. /\ \A j \in 0 .. n : c(j) \in 0 .. Len(name) + 1
      /\ name[i] = "." => \E j \in 1 .. n - 1 : c(j) = i
  BY CutsAreDots
<1> SUFFICES ASSUME name[i] = "." PROVE FALSE
  OBVIOUS
<1>3. PICK j \in 1 .. n - 1 : c(j) = i
  BY <1>2
<1>4. k \in 1 .. n /\ c(k - 1) < c(j) /\ c(j) < c(k)
  BY <1>3
<1> HIDE DEF n, c
<1>5. j \in 0 .. n /\ k \in 0 .. n /\ k - 1 \in 0 .. n /\ (j < k - 1 \/ j = k - 1 \/ j = k \/ k < j)
  BY <1>1, <1>4
<1>6. c(j) \in Nat /\ c(k) \in Nat /\ c(k - 1) \in Nat
  <2>1. \A l \in 0 .. n : c(l) \in Nat
    BY <1>2
  <2> QED
    BY <1>5, <2>1
<1>7. (j < k - 1 => c(j) < c(k - 1)) /\ (k < j => c(k) < c(j))
  BY <1>1, <1>5
<1> QED
  BY <1>4, <1>5, <1>6, <1>7

\* What is between two positions.
LEMMA Piece ==
  ASSUME NEW s \in Seq(Char), NEW a \in Nat, NEW b \in Nat, a < b, b <= Len(s) + 1
  PROVE  /\ SubSeq(s, a + 1, b - 1) \in Seq(Char)
         /\ Len(SubSeq(s, a + 1, b - 1)) = b - a - 1
         /\ \A i \in 1 .. b - a - 1 : SubSeq(s, a + 1, b - 1)[i] = s[a + i] /\ a + i \in 1 .. Len(s)
<1>1. a + 1 \in Nat /\ b - 1 \in Nat /\ a + 1 >= 1 /\ b - 1 <= Len(s) /\ Len(s) \in Nat /\ b - 1 >= a
  OBVIOUS
<1>2. \A i \in a + 1 .. b - 1 : i \in 1 .. Len(s)
  BY <1>1
<1>3. SubSeq(s, a + 1, b - 1) \in Seq(Char)
  BY <1>1, <1>2
<1>4. Len(SubSeq(s, a + 1, b - 1)) = b - a - 1
  BY <1>1
<1>5. ASSUME NEW i \in 1 .. b - a - 1 PROVE SubSeq(s, a + 1, b - 1)[i] = s[a + i] /\ a + i \in 1 .. Len(s)
  BY <1>1
<1> QED
  BY <1>3, <1>4, <1>5

\* A label is what is between two cuts.
LEMMA LabelsAre ==
  ASSUME NEW name \in Seq(Char)
  PROVE  /\ Labels(name) \in Seq(Seq(Char)) /\ Len(Labels(name)) = Size(name)
         /\ \A k \in 1 .. Size(name) :
              /\ Cut(name, k - 1) \in Nat /\ Cut(name, k) \in Nat
              /\ Len(Labels(name)[k]) = Cut(name, k) - Cut(name, k - 1) - 1
              /\ \A i \in 1 .. Cut(name, k) - Cut(name, k - 1) - 1 :
                   /\ Labels(name)[k][i] = name[Cut(name, k - 1) + i]
                   /\ Cut(name, k - 1) + i \in 1 .. Len(name)
<1> DEFINE n == Size(name)
           c(k) == Cut(name, k)
<1>1. n \in Nat \ {0} /\ \A k \in 0 .. n : c(k) \in 0 .. Len(name) + 1
  BY CutsInOrder, CutsAreDots
<1>2. Labels(name) = [k \in 1 .. n |-> SubSeq(name, c(k - 1) + 1, c(k) - 1)]
  BY DEF Labels, Size
<1>3. \A j, k \in 0 .. n : j < k => c(j) < c(k)
  BY CutsInOrder
<1> HIDE DEF n, c
<1>4. ASSUME NEW k \in 1 .. n
      PROVE  /\ c(k - 1) \in Nat /\ c(k) \in Nat
             /\ SubSeq(name, c(k - 1) + 1, c(k) - 1) \in Seq(Char)
             /\ Len(SubSeq(name, c(k - 1) + 1, c(k) - 1)) = c(k) - c(k - 1) - 1
             /\ \A i \in 1 .. c(k) - c(k - 1) - 1 :
                  /\ SubSeq(name, c(k - 1) + 1, c(k) - 1)[i] = name[c(k - 1) + i]
                  /\ c(k - 1) + i \in 1 .. Len(name)
  <2>1. k - 1 \in 0 .. n /\ k \in 0 .. n /\ k - 1 < k
    BY <1>1
  <2>2. c(k - 1) \in 0 .. Len(name) + 1 /\ c(k) \in 0 .. Len(name) + 1 /\ c(k - 1) < c(k)
    BY <1>1, <1>3, <2>1
  <2>3. c(k - 1) \in Nat /\ c(k) \in Nat /\ c(k) <= Len(name) + 1
    BY <2>2
  <2> QED
    BY <2>2, <2>3, Piece, Zenon
<1>5. Labels(name) \in Seq(Seq(Char)) /\ Len(Labels(name)) = n
  <2>1. \A k \in 1 .. n : SubSeq(name, c(k - 1) + 1, c(k) - 1) \in Seq(Char)
    BY <1>4, Zenon
  <2> DEFINE f(k) == SubSeq(name, c(k - 1) + 1, c(k) - 1)
  <2> HIDE DEF f
  <2>2. Labels(name) = [k \in 1 .. n |-> f(k)] /\ \A k \in 1 .. n : f(k) \in Seq(Char)
    BY <1>2, <2>1 DEF f
  <2> QED
    BY <1>1, <2>2
<1>6. ASSUME NEW k \in 1 .. n PROVE Labels(name)[k] = SubSeq(name, c(k - 1) + 1, c(k) - 1)
  BY <1>2
<1> QED
  BY <1>4, <1>5, <1>6 DEF n, c

\* The cuts of a name as the two lemmas below use them.
Ordered(name) ==
  /\ Len(name) \in Nat /\ Size(name) \in Nat \ {0} /\ Cut(name, 0) = 0 /\ Cut(name, Size(name)) = Len(name) + 1
  /\ \A k \in 0 .. Size(name) : Cut(name, k) \in Nat /\ Cut(name, k) <= Len(name) + 1
  /\ \A j, k \in 0 .. Size(name) : j < k => Cut(name, j) < Cut(name, k)

LEMMA NamesAreOrdered == ASSUME NEW name \in Seq(Char) PROVE Ordered(name)
<1>1. \A k \in 0 .. Size(name) : Cut(name, k) \in 0 .. Len(name) + 1
  BY CutsAreDots
<1>2. Len(name) \in Nat
  OBVIOUS
<1>3. \A k \in 0 .. Size(name) : Cut(name, k) \in Nat /\ Cut(name, k) <= Len(name) + 1
  BY <1>1, <1>2
<1> QED
  BY <1>2, <1>3, CutsInOrder DEF Ordered

\* Labels that agree from one on to the end: so do the cuts from there on, and
\* the letters.
LEMMA LabelsToLetters ==
  ASSUME NEW d \in Seq(Char), NEW p \in Seq(Char), NEW a \in 0 .. Size(p), Size(p) <= Size(d),
         \A k \in a + 1 .. Size(p) : Labels(d)[Size(d) - Size(p) + k] = Labels(p)[k]
  PROVE  /\ \A k \in a .. Size(p) : Cut(d, Size(d) - Size(p) + k) = Len(d) - Len(p) + Cut(p, k)
         /\ \A j \in 1 .. Len(p) : Cut(p, a) < j =>
              Len(d) - Len(p) + j \in 1 .. Len(d) /\ d[Len(d) - Len(p) + j] = p[j]
<1> DEFINE n == Size(d)
           m == Size(p)
           h == Len(d) - Len(p)
           c(k) == Cut(d, k)
           e(k) == Cut(p, k)
<1>1. /\ Len(d) \in Nat /\ n \in Nat \ {0} /\ c(0) = 0 /\ c(n) = Len(d) + 1
      /\ \A k \in 0 .. n : c(k) \in Nat /\ c(k) <= Len(d) + 1
      /\ \A j, k \in 0 .. n : j < k => c(j) < c(k)
  BY NamesAreOrdered DEF Ordered
<1>2. /\ Len(p) \in Nat /\ m \in Nat \ {0} /\ e(0) = 0 /\ e(m) = Len(p) + 1
      /\ \A k \in 0 .. m : e(k) \in Nat /\ e(k) <= Len(p) + 1
      /\ \A j, k \in 0 .. m : j < k => e(j) < e(k)
  BY NamesAreOrdered DEF Ordered
<1>3. h \in Int /\ a \in 0 .. m /\ m <= n /\ Len(d) = h + Len(p)
  BY <1>1, <1>2
<1>l. \A k \in a + 1 .. m : Labels(d)[n - m + k] = Labels(p)[k]
  OBVIOUS
<1> HIDE DEF n, m, h, c, e
<1>n. n \in Nat /\ m \in Nat /\ n >= 1 /\ m >= 1 /\ h \in Int /\ a \in Nat /\ a <= m /\ m <= n
      /\ Len(d) \in Nat /\ Len(p) \in Nat /\ Len(d) = h + Len(p)
  BY <1>1, <1>2, <1>3
<1>4. ASSUME NEW k \in a + 1 .. m
      PROVE  /\ k \in 1 .. m /\ n - m + k \in 1 .. n /\ k - 1 \in 0 .. m /\ k \in 0 .. m
             /\ n - m + (k - 1) \in 0 .. n /\ n - m + k \in 0 .. n
             /\ n - m + (k - 1) = n - m + k - 1
  BY <1>n
<1>5. ASSUME NEW k \in a + 1 .. m
      PROVE  /\ c(n - m + k) - c(n - m + (k - 1)) = e(k) - e(k - 1)
             /\ \A i \in 1 .. e(k) - e(k - 1) - 1 : d[c(n - m + (k - 1)) + i] = p[e(k - 1) + i]
  <2> DEFINE q == n - m + k
  <2>1. k \in 1 .. m /\ q \in 1 .. n /\ n - m + (k - 1) = q - 1 /\ n - m + k = q
    BY <1>n, <1>4
  <2>2. Labels(d)[q] = Labels(p)[k]
    BY <1>l
  <2> HIDE DEF q
  <2>3. /\ c(q - 1) \in Nat /\ c(q) \in Nat
        /\ Len(Labels(d)[q]) = c(q) - c(q - 1) - 1
        /\ \A i \in 1 .. c(q) - c(q - 1) - 1 : Labels(d)[q][i] = d[c(q - 1) + i]
    BY <2>1, LabelsAre DEF n, c
  <2>4. /\ e(k - 1) \in Nat /\ e(k) \in Nat
        /\ Len(Labels(p)[k]) = e(k) - e(k - 1) - 1
        /\ \A i \in 1 .. e(k) - e(k - 1) - 1 : Labels(p)[k][i] = p[e(k - 1) + i]
    BY <2>1, LabelsAre DEF m, e
  <2> DEFINE x == c(q - 1)
             y == c(q)
             z == e(k - 1)
             w == e(k)
             D == Labels(d)[q]
             P == Labels(p)[k]
  <2> HIDE DEF x, y, z, w, D, P
  <2>5. /\ x \in Nat /\ y \in Nat /\ z \in Nat /\ w \in Nat /\ D = P
        /\ Len(D) = y - x - 1 /\ Len(P) = w - z - 1
        /\ \A i \in 1 .. y - x - 1 : D[i] = d[x + i]
        /\ \A i \in 1 .. w - z - 1 : P[i] = p[z + i]
    BY <2>2, <2>3, <2>4 DEF x, y, z, w, D, P
  <2>6. y - x - 1 = w - z - 1
    BY <2>5
  <2>7. y - x = w - z
    BY <2>5, <2>6
  <2>8. \A i \in 1 .. w - z - 1 : d[x + i] = p[z + i]
    BY <2>5, <2>6
  <2>9. c(n - m + (k - 1)) = x /\ c(n - m + k) = y
    BY <2>1 DEF x, y
  <2> QED
    BY <2>7, <2>8, <2>9, Zenon DEF z, w
<1>6. \A k \in a .. m : c(n - m + k) = h + e(k)
  <2> DEFINE T == {q \in 0 .. m - a : c(n - q) # h + e(m - q)}
  <2>1. T = {}
    <3> SUFFICES ASSUME T # {} PROVE FALSE
      OBVIOUS
    <3>1. PICK q \in T : \A r \in T : q <= r
      <4>1. T \subseteq Nat
        BY <1>2, <1>3
      <4> HIDE DEF T
      <4> QED
        BY <4>1, Least
    <3>2. q \in 0 .. m - a /\ c(n - q) # h + e(m - q)
      OBVIOUS
    <3>3. q # 0
      <4> SUFFICES ASSUME q = 0 PROVE FALSE
        OBVIOUS
      <4>1. n - q = n /\ m - q = m
        BY <1>1, <1>2
      <4>2. c(n) # h + e(m)
        BY <3>2, <4>1
      <4> QED
        BY <1>1, <1>2, <1>3, <4>2
    <3>4. q - 1 \in 0 .. m - a /\ ~(q <= q - 1) /\ m - q + 1 \in a + 1 .. m
      BY <1>2, <1>3, <3>2, <3>3
    <3>5. c(n - (q - 1)) = h + e(m - (q - 1))
      BY <3>1, <3>4
    <3> DEFINE k == m - q + 1
    <3>6. k \in a + 1 .. m /\ m - (q - 1) = k /\ m - q = k - 1 /\ n - (q - 1) = n - m + k /\ n - q = n - m + (k - 1)
      BY <1>1, <1>2, <1>3, <3>2, <3>4
    <3> HIDE DEF k
    <3>7. c(n - m + k) - c(n - m + (k - 1)) = e(k) - e(k - 1)
      BY <1>5, <3>6
    <3>8. c(n - m + k) = h + e(k) /\ c(n - m + (k - 1)) # h + e(k - 1)
      BY <3>2, <3>5, <3>6
    <3>9. c(n - m + (k - 1)) \in Nat /\ e(k) \in Nat /\ e(k - 1) \in Nat
      BY <1>1, <1>2, <1>4, <3>6
    <3> DEFINE x == c(n - m + (k - 1))
               y == c(n - m + k)
               z == e(k - 1)
               w == e(k)
    <3> HIDE DEF x, y, z, w
    <3>10. y - x = w - z /\ y = h + w /\ x # h + z /\ x \in Nat /\ w \in Nat /\ z \in Nat
      BY <3>7, <3>8, <3>9 DEF x, y, z, w
    <3> QED
      BY <1>3, <3>10
  <2> TAKE k \in a .. m
  <2>2. m - k \in 0 .. m - a /\ n - (m - k) = n - m + k /\ m - (m - k) = k
    BY <1>1, <1>2, <1>3
  <2>3. ~(c(n - (m - k)) # h + e(m - (m - k)))
    BY <2>1, <2>2
  <2> QED
    BY <2>2, <2>3
<1>7. ASSUME NEW j \in 1 .. Len(p), e(a) < j PROVE h + j \in 1 .. Len(d) /\ d[h + j] = p[j]
  <2>1. PICK k \in 1 .. m : e(k - 1) < j /\ j <= e(k)
    <3>1. j \in 1 .. Len(p) + 1
      BY <1>2
    <3> QED
      BY <3>1, CutsAreDots DEF m, e
  <2>2. k - 1 \in 0 .. m /\ k \in 0 .. m /\ e(k) \in Nat /\ e(k - 1) \in Nat /\ e(a) \in Nat
    BY <1>2, <1>3
  <2>3. a < k
    <3> SUFFICES ASSUME ~(a < k) PROVE FALSE
      OBVIOUS
    <3>1. k = a \/ k < a
      BY <1>3
    <3>2. e(k) <= e(a)
      BY <1>2, <1>3, <2>2, <3>1
    <3> QED
      BY <1>7, <2>1, <2>2, <3>2
  <2>4. k \in a + 1 .. m /\ k \in a .. m /\ k - 1 \in a .. m
    BY <1>n, <2>3
  <2>5. c(n - m + (k - 1)) = h + e(k - 1) /\ c(n - m + k) = h + e(k)
    BY <1>6, <2>4
  <2>6. n - m + k \in 0 .. n /\ n - m + (k - 1) \in 0 .. n /\ n - m + (k - 1) < n - m + k
    BY <1>n
  <2>7. c(n - m + k) \in Nat /\ c(n - m + k) <= Len(d) + 1 /\ c(n - m + (k - 1)) \in Nat
    BY <1>1, <2>6
  <2>8. h + j \in 1 .. Len(d)
    <3> DEFINE y == c(n - m + k)
               x == c(n - m + (k - 1))
               z == e(k - 1)
               w == e(k)
    <3>1. /\ y \in Nat /\ y <= Len(d) + 1 /\ x \in Nat /\ z \in Nat /\ w \in Nat
          /\ z < j /\ j <= w /\ y = h + w /\ x = h + z /\ j <= Len(p)
      BY <1>n, <2>1, <2>2, <2>5, <2>7
    <3> HIDE DEF x, y, z, w
    <3> QED
      BY <1>n, <3>1
  <2>9. CASE j = e(k)
    <3>1. k # m
      BY <1>2, <2>9
    <3>2. k \in 1 .. m - 1 /\ n - m + k \in 1 .. n - 1
      BY <1>1, <1>2, <1>3, <3>1
    <3>3. p[e(k)] = "."
      BY <3>2, CutsAreDots DEF m, e
    <3>4. d[c(n - m + k)] = "."
      BY <3>2, CutsAreDots DEF n, c
    <3> QED
      BY <2>5, <2>8, <2>9, <3>3, <3>4
  <2>10. CASE j # e(k)
    <3> DEFINE i == j - e(k - 1)
    <3>1. i \in 1 .. e(k) - e(k - 1) - 1 /\ e(k - 1) + i = j /\ c(n - m + (k - 1)) + i = h + j
      <4> DEFINE x == c(n - m + (k - 1))
                 z == e(k - 1)
                 w == e(k)
      <4>1. x = h + z /\ z \in Nat /\ w \in Nat /\ z < j /\ j <= w /\ j # w
        BY <2>1, <2>2, <2>5, <2>10
      <4> HIDE DEF x, z, w
      <4>2. j - z \in 1 .. w - z - 1 /\ z + (j - z) = j /\ x + (j - z) = h + j
        BY <1>n, <4>1
      <4> QED
        BY <4>2, Zenon DEF x, z, w
    <3> HIDE DEF i
    <3>2. d[c(n - m + (k - 1)) + i] = p[e(k - 1) + i]
      BY <1>5, <2>4, <3>1
    <3> QED
      BY <2>8, <3>1, <3>2
  <2> QED
    BY <2>9, <2>10
<1> QED
  BY <1>6, <1>7 DEF n, m, h, c, e

\* Letters that agree from a cut on to the end, which is a cut of the longer
\* name as well: so do the cuts from there on, and the labels.
LEMMA LettersToLabels ==
  ASSUME NEW d \in Seq(Char), NEW p \in Seq(Char), NEW a \in 0 .. Size(p),
         Len(d) - Len(p) + Cut(p, a) \in Cuts(d),
         \A j \in 1 .. Len(p) : Cut(p, a) < j =>
              Len(d) - Len(p) + j \in 1 .. Len(d) /\ d[Len(d) - Len(p) + j] = p[j]
  PROVE  /\ \A k \in a .. Size(p) : /\ Size(d) - Size(p) + k \in 0 .. Size(d)
                                    /\ Cut(d, Size(d) - Size(p) + k) = Len(d) - Len(p) + Cut(p, k)
         /\ \A k \in a + 1 .. Size(p) : Labels(d)[Size(d) - Size(p) + k] = Labels(p)[k]
<1> DEFINE n == Size(d)
           m == Size(p)
           h == Len(d) - Len(p)
           c(k) == Cut(d, k)
           e(k) == Cut(p, k)
<1>1. /\ Len(d) \in Nat /\ n \in Nat \ {0} /\ c(0) = 0 /\ c(n) = Len(d) + 1
      /\ \A k \in 0 .. n : c(k) \in Nat /\ c(k) <= Len(d) + 1
      /\ \A j, k \in 0 .. n : j < k => c(j) < c(k)
  BY NamesAreOrdered DEF Ordered
<1>2. /\ Len(p) \in Nat /\ m \in Nat \ {0} /\ e(0) = 0 /\ e(m) = Len(p) + 1
      /\ \A k \in 0 .. m : e(k) \in Nat /\ e(k) <= Len(p) + 1
      /\ \A j, k \in 0 .. m : j < k => e(j) < e(k)
  BY NamesAreOrdered DEF Ordered
<1>3. /\ \A k \in 1 .. n - 1 : c(k) \in 1 .. Len(d) /\ d[c(k)] = "."
      /\ \A i \in Cuts(d) : \E k \in 0 .. n : c(k) = i
  BY CutsInOrder, CutsAreDots
<1>4. \A k \in 1 .. m - 1 : e(k) \in 1 .. Len(p) /\ p[e(k)] = "."
  BY CutsAreDots
<1>5. h + e(a) \in Cuts(d) /\ \A j \in 1 .. Len(p) : e(a) < j => h + j \in 1 .. Len(d) /\ d[h + j] = p[j]
  OBVIOUS
<1>6. \A i \in 1 .. Len(d) : d[i] = "." => i \in Cuts(d)
  BY DEF Cuts, Dots
<1>7. h \in Int /\ a \in 0 .. m /\ Len(d) = h + Len(p)
  BY <1>1, <1>2
<1>8. \A k \in 1 .. m, i \in 1 .. Len(p) : e(k - 1) < i /\ i < e(k) => p[i] # "."
  BY NoDotBetween
<1> HIDE DEF n, m, h, c, e
<1>n. n \in Nat /\ m \in Nat /\ n >= 1 /\ m >= 1 /\ h \in Int /\ a \in Nat /\ a <= m
      /\ Len(d) \in Nat /\ Len(p) \in Nat /\ Len(d) = h + Len(p)
  BY <1>1, <1>2, <1>7
<1>9. \A q \in 0 .. m - a : q <= n /\ c(n - q) = h + e(m - q)
  <2> DEFINE T == {q \in 0 .. m - a : ~(q <= n /\ c(n - q) = h + e(m - q))}
  <2>1. T = {}
    <3> SUFFICES ASSUME T # {} PROVE FALSE
      OBVIOUS
    <3>1. PICK q \in T : \A r \in T : q <= r
      <4>1. T \subseteq Nat
        BY <1>n
      <4> HIDE DEF T
      <4> QED
        BY <4>1, Least
    <3>2. q \in 0 .. m - a /\ ~(q <= n /\ c(n - q) = h + e(m - q))
      OBVIOUS
    <3>3. q # 0
      <4> SUFFICES ASSUME q = 0 PROVE FALSE
        OBVIOUS
      <4>1. n - q = n /\ m - q = m /\ q <= n
        BY <1>n
      <4>2. c(n) # h + e(m)
        BY <3>2, <4>1
      <4> QED
        BY <1>1, <1>2, <1>7, <4>2
    <3>4. q - 1 \in 0 .. m - a /\ ~(q <= q - 1)
      BY <1>n, <3>2, <3>3
    <3>5. q - 1 <= n /\ c(n - (q - 1)) = h + e(m - (q - 1))
      BY <3>1, <3>4
    <3> DEFINE k == m - (q - 1)
               l == n - (q - 1)
               y == e(k - 1)
               w == e(k)
    <3>6. k \in 1 .. m /\ k - 1 \in 0 .. m /\ k \in 0 .. m /\ m - q = k - 1 /\ a <= k - 1 /\ l \in 0 .. n /\ n - q = l - 1
      BY <1>n, <3>2, <3>4, <3>5
    <3> HIDE DEF k, l
    <3>7. c(l) = h + w
      BY <3>5 DEF k, l
    <3>8. y \in Nat /\ w \in Nat /\ y < w /\ w <= Len(p) + 1 /\ e(a) \in Nat /\ e(a) <= y
      <4>1. k - 1 < k /\ (a = k - 1 \/ a < k - 1) /\ a \in 0 .. m
        BY <1>n, <3>6
      <4>2. y \in Nat /\ w \in Nat /\ y < w /\ w <= Len(p) + 1 /\ e(a) \in Nat
        BY <1>2, <3>6, <4>1
      <4>3. a < k - 1 => e(a) < y
        BY <1>2, <3>6, <4>1
      <4> QED
        BY <4>1, <4>2, <4>3
    <3>9. h + y \in Cuts(d)
      <4>1. CASE y = e(a)
        BY <1>5, <4>1
      <4>2. CASE y # e(a)
        <5>1. k - 1 # 0 /\ k - 1 # m
          BY <1>2, <1>n, <3>6, <3>8, <4>2
        <5>2. k - 1 \in 1 .. m - 1
          BY <1>n, <3>6, <5>1
        <5>3. y \in 1 .. Len(p) /\ p[y] = "." /\ e(a) < y
          BY <1>4, <3>8, <4>2, <5>2
        <5> QED
          BY <1>5, <1>6, <5>3
      <4> QED
        BY <4>1, <4>2
    <3> HIDE DEF y, w
    <3>10. PICK i \in 0 .. n : c(i) = h + y
      BY <1>3, <3>9
    <3>11. i < l
      <4> SUFFICES ASSUME ~(i < l) PROVE FALSE
        OBVIOUS
      <4>1. l = i \/ l < i
        BY <1>n, <3>6
      <4>2. c(l) <= c(i)
        BY <1>1, <3>6, <4>1
      <4> QED
        BY <1>n, <3>7, <3>8, <3>10, <4>2
    <3>12. q <= n /\ l - 1 \in 0 .. n
      BY <1>n, <3>2, <3>6, <3>10, <3>11
    <3>13. i = l - 1
      <4> SUFFICES ASSUME i # l - 1 PROVE FALSE
        OBVIOUS
      <4>1. i < l - 1 /\ l - 1 \in 1 .. n - 1 /\ l - 1 < l
        BY <1>n, <3>6, <3>10, <3>11, <3>12
      <4> DEFINE z == c(l - 1)
      <4>2. c(i) < z /\ z < c(l) /\ z \in 1 .. Len(d) /\ d[z] = "."
        BY <1>1, <1>3, <3>6, <3>10, <3>12, <4>1
      <4> HIDE DEF z
      <4>3. h + y < z /\ z < h + w
        BY <3>7, <3>10, <4>2
      <4>4. z - h \in 1 .. Len(p) /\ y < z - h /\ z - h < w /\ h + (z - h) = z /\ e(a) < z - h
        <5> DEFINE b == e(a)
        <5>1. /\ y \in Nat /\ w \in Nat /\ w <= Len(p) + 1 /\ b \in Nat /\ b <= y /\ z \in Nat
              /\ h + y < z /\ z < h + w
          BY <3>8, <4>2, <4>3
        <5> HIDE DEF b
        <5> DEFINE g == z - h
                   u == Len(p)
        <5>2. g \in Int /\ h + g = z /\ u \in Nat /\ w <= u + 1 /\ h \in Int
          BY <1>n, <5>1
        <5> HIDE DEF g, u
        <5>3. y < g /\ g < w
          BY <5>1, <5>2
        <5>4. g \in 1 .. u /\ b < g
          BY <5>1, <5>2, <5>3
        <5>5. g \in 1 .. u /\ y < g /\ g < w /\ h + g = z /\ b < g
          BY <5>2, <5>3, <5>4
        <5> QED
          BY <5>5, Zenon DEF b, g, u
      <4>5. p[z - h] = "."
        <5> DEFINE j == z - h
        <5>1. j \in 1 .. Len(p) /\ e(a) < j /\ h + j = z
          BY <4>4
        <5> HIDE DEF j
        <5>2. d[h + j] = p[j]
          BY <1>5, <5>1
        <5>3. p[j] = "."
          BY <4>2, <5>1, <5>2
        <5> QED
          BY <5>3 DEF j
      <4>6. p[z - h] # "."
        BY <1>8, <3>6, <4>4 DEF y, w
      <4> QED
        BY <4>5, <4>6
    <3>14. c(n - q) = h + e(m - q)
      BY <3>6, <3>10, <3>13 DEF y
    <3> QED
      BY <3>2, <3>12, <3>14
  <2> QED
    BY <2>1
<1>10. ASSUME NEW k \in a .. m PROVE n - m + k \in 0 .. n /\ c(n - m + k) = h + e(k)
  <2>1. m - k \in 0 .. m - a /\ n - (m - k) = n - m + k /\ m - (m - k) = k
    BY <1>n
  <2>2. m - k <= n /\ c(n - (m - k)) = h + e(m - (m - k))
    BY <1>9, <2>1
  <2>3. n - m + k \in 0 .. n
    BY <1>n, <2>2
  <2> QED
    BY <2>1, <2>2, <2>3
<1>11. ASSUME NEW k \in a + 1 .. m PROVE Labels(d)[n - m + k] = Labels(p)[k]
  <2> DEFINE q == n - m + k
  <2>1. /\ k - 1 \in a .. m /\ k \in a .. m /\ n - m + (k - 1) = q - 1 /\ n - m + k = q
        /\ k \in 1 .. m /\ k - 1 \in 0 .. m /\ k \in 0 .. m
    BY <1>n
  <2> HIDE DEF q
  <2>2. q \in 0 .. n /\ c(q) = h + e(k) /\ q - 1 \in 0 .. n /\ c(q - 1) = h + e(k - 1)
    <3>1. n - m + k \in 0 .. n /\ c(n - m + k) = h + e(k)
      BY <1>10, <2>1
    <3>2. n - m + (k - 1) \in 0 .. n /\ c(n - m + (k - 1)) = h + e(k - 1)
      BY <1>10, <2>1
    <3> QED
      BY <2>1, <3>1, <3>2
  <2>3. q \in 1 .. n
    BY <1>n, <2>2
  <2>4. Labels(d) \in Seq(Seq(Char)) /\ Len(Labels(d)) = n /\ Labels(p) \in Seq(Seq(Char)) /\ Len(Labels(p)) = m
    BY LabelsAre DEF n, m
  <2>5. /\ Len(Labels(d)[q]) = c(q) - c(q - 1) - 1
        /\ \A i \in 1 .. c(q) - c(q - 1) - 1 : Labels(d)[q][i] = d[c(q - 1) + i]
    BY <2>3, LabelsAre DEF n, c
  <2>6. /\ e(k - 1) \in Nat /\ e(k) \in Nat
        /\ Len(Labels(p)[k]) = e(k) - e(k - 1) - 1
        /\ \A i \in 1 .. e(k) - e(k - 1) - 1 : Labels(p)[k][i] = p[e(k - 1) + i] /\ e(k - 1) + i \in 1 .. Len(p)
    BY <2>1, LabelsAre DEF m, e
  <2>7. Labels(d)[q] \in Seq(Char) /\ Labels(p)[k] \in Seq(Char)
    BY <2>1, <2>3, <2>4
  <2>8. e(a) \in Nat /\ e(a) <= e(k - 1)
    <3>1. a = k - 1 \/ a < k - 1
      BY <1>n
    <3>2. a < k - 1 => e(a) < e(k - 1)
      BY <1>2, <1>7, <2>1
    <3>3. e(a) \in Nat
      BY <1>2, <1>7
    <3> DEFINE b == e(a)
               z == e(k - 1)
    <3>4. z \in Nat /\ (a = k - 1 => b = z)
      BY <2>6
    <3> HIDE DEF b, z
    <3>5. b \in Nat /\ (a < k - 1 => b < z)
      BY <3>2, <3>3 DEF b, z
    <3>6. b \in Nat /\ b <= z
      BY <3>1, <3>4, <3>5
    <3> QED
      BY <3>6, Zenon DEF b, z
  <2> DEFINE x == c(q - 1)
             y == c(q)
             z == e(k - 1)
             w == e(k)
             D == Labels(d)[q]
             P == Labels(p)[k]
             b == e(a)
  <2> HIDE DEF x, y, z, w, D, P, b
  <2>9. /\ y = h + w /\ x = h + z /\ z \in Nat /\ w \in Nat /\ b \in Nat /\ b <= z
        /\ D \in Seq(Char) /\ P \in Seq(Char) /\ Len(D) = y - x - 1 /\ Len(P) = w - z - 1
        /\ \A i \in 1 .. y - x - 1 : D[i] = d[x + i]
        /\ \A i \in 1 .. w - z - 1 : P[i] = p[z + i] /\ z + i \in 1 .. Len(p)
        /\ \A j \in 1 .. Len(p) : b < j => d[h + j] = p[j]
    BY <1>5, <2>2, <2>5, <2>6, <2>7, <2>8 DEF x, y, z, w, D, P, b
  <2>10. y - x - 1 = w - z - 1 /\ Len(D) = Len(P)
    BY <1>n, <2>9
  <2>11. ASSUME NEW i \in 1 .. Len(P) PROVE D[i] = P[i]
    <3>1. i \in 1 .. w - z - 1 /\ i \in 1 .. y - x - 1
      BY <2>9, <2>10
    <3>2. z + i \in 1 .. Len(p) /\ P[i] = p[z + i] /\ D[i] = d[x + i]
      BY <2>9, <3>1
    <3> DEFINE j == z + i
    <3>3. b < j /\ x + i = h + j
      BY <1>n, <2>9, <3>1
    <3> HIDE DEF j
    <3>4. d[h + j] = p[j]
      BY <2>9, <3>2, <3>3 DEF j
    <3> QED
      BY <3>2, <3>3, <3>4 DEF j
  <2>12. D = P
    <3>1. D \in Seq(Char) /\ P \in Seq(Char) /\ Len(D) = Len(P)
      BY <2>9, <2>10
    <3> QED
      BY <2>11, <3>1
  <2> QED
    BY <2>1, <2>12 DEF D, P
<1> QED
  BY <1>10, <1>11 DEF n, m, h, c, e

-----------------------------------------------------------------------------
(* Wildcards. *)

\* A pattern is a wildcard to the code if it begins "*."; to a reader, if its
\* first label is the star and others follow.
LEMMA WildcardIs ==
  ASSUME NEW p \in Seq(Char)
  PROVE  /\ IsWildcard(p) <=> Size(p) > 1 /\ Labels(p)[1] = <<"*">>
         /\ IsWildcard(p) => Len(p) >= 2 /\ p[2] = "." /\ Cut(p, 1) = 2
<1> DEFINE L == Len(p)
           m == Size(p)
           e(k) == Cut(p, k)
<1>1. /\ L \in Nat /\ m \in Nat \ {0} /\ e(0) = 0
      /\ \A k \in 0 .. m : e(k) \in Nat
      /\ \A j, k \in 0 .. m : j < k => e(j) < e(k)
  BY NamesAreOrdered DEF Ordered
<1>2. /\ \A k \in 1 .. m - 1 : p[e(k)] = "."
      /\ \A i \in 1 .. L : p[i] = "." => \E k \in 1 .. m - 1 : e(k) = i
  BY CutsAreDots
<1>3. IsWildcard(p) <=> L >= 2 /\ p[1] = "*" /\ p[2] = "."
  <2> DEFINE s == <<"*", ".">>
  <2>1. IsWildcard(p) <=> 2 <= L /\ SubSeq(s, 1, 2) = SubSeq(p, 1, 2)
    BY DEF IsWildcard, IsPrefix
  <2>2. s \in Seq(Char) /\ Len(s) = 2 /\ s[1] = "*" /\ s[2] = "."
    BY RulesAssumption DEF RulesAssumption
  <2> DEFINE f == SubSeq(s, 1, 2)
             g == SubSeq(p, 1, 2)
  <2> HIDE DEF s
  <2>3. f \in Seq(Char) /\ Len(f) = 2 /\ f[1] = "*" /\ f[2] = "."
    <3>1. s \in Seq(Char) /\ Len(s) \in Nat /\ Len(s) >= 2
      BY <2>2
    <3>2. f \in Seq(Char) /\ Len(f) = 2 /\ f[1] = s[1] /\ f[2] = s[2]
      BY <3>1
    <3> QED
      BY <2>2, <3>2
  <2>4. L >= 2 => g \in Seq(Char) /\ Len(g) = 2 /\ g[1] = p[1] /\ g[2] = p[2]
    BY <1>1
  <2> HIDE DEF f, g
  <2>5. ASSUME L >= 2, p[1] = "*", p[2] = "." PROVE f = g
    <3>1. \A i \in 1 .. 2 : f[i] = g[i]
      <4>1. f[1] = g[1] /\ f[2] = g[2] /\ \A i \in 1 .. 2 : i = 1 \/ i = 2
        BY <2>3, <2>4, <2>5
      <4> QED
        BY <4>1
    <3> QED
      BY <2>3, <2>4, <2>5, <3>1
  <2> QED
    BY <1>1, <2>1, <2>3, <2>4, <2>5 DEF f, g
<1>4. /\ e(1) \in Nat /\ Labels(p)[1] \in Seq(Char) /\ Len(Labels(p)[1]) = e(1) - 1
      /\ e(1) = 2 => Labels(p)[1][1] = p[1] /\ L >= 1
  <2>1. 1 \in 1 .. m /\ 1 - 1 = 0 /\ 1 \in 0 .. m
    BY <1>1
  <2>2. /\ Labels(p) \in Seq(Seq(Char)) /\ Len(Labels(p)) = m
        /\ Len(Labels(p)[1]) = e(1) - e(0) - 1
        /\ \A i \in 1 .. e(1) - e(0) - 1 : Labels(p)[1][i] = p[e(0) + i] /\ e(0) + i \in 1 .. L
    BY <2>1, LabelsAre
  <2>3. e(1) = 2 => Labels(p)[1][1] = p[1] /\ 1 \in 1 .. L
    <3> HIDE DEF e
    <3> SUFFICES ASSUME e(1) = 2 PROVE Labels(p)[1][1] = p[1] /\ 1 \in 1 .. L
      OBVIOUS
    <3>1. 1 \in 1 .. e(1) - e(0) - 1 /\ e(0) + 1 = 1
      BY <1>1
    <3> QED
      BY <2>2, <3>1
  <2> HIDE DEF e
  <2>4. e(1) \in Nat /\ e(1) - e(0) - 1 = e(1) - 1
    BY <1>1, <2>1
  <2> QED
    BY <1>1, <2>1, <2>2, <2>3, <2>4
<1> HIDE DEF L, m, e
<1>5. ASSUME L >= 2, p[1] = "*", p[2] = "." PROVE m > 1 /\ e(1) = 2 /\ Labels(p)[1] = <<"*">>
  <2>1. PICK k \in 1 .. m - 1 : e(k) = 2
    BY <1>1, <1>2, <1>5
  <2>2. m > 1 /\ 1 \in 1 .. m - 1 /\ 1 \in 0 .. m /\ 0 \in 0 .. m /\ k \in 0 .. m /\ (k = 1 \/ 1 < k)
    BY <1>1, <2>1
  <2>3. e(1) > 0 /\ e(1) <= 2
    BY <1>1, <2>1, <2>2
  <2>4. e(1) # 1
    BY <1>2, <1>5, <2>2
  <2>5. e(1) = 2
    BY <1>4, <2>3, <2>4
  <2>6. Labels(p)[1] \in Seq(Char) /\ Len(Labels(p)[1]) = 1 /\ Labels(p)[1][1] = "*"
    BY <1>4, <1>5, <2>5
  <2>7. Labels(p)[1] = <<"*">>
    <3> DEFINE s == Labels(p)[1]
    <3> HIDE DEF s
    <3>1. s \in Seq(Char) /\ Len(s) = 1 /\ s[1] = "*"
      BY <2>6 DEF s
    <3>2. s = <<"*">>
      BY <3>1
    <3> QED
      BY <3>2 DEF s
  <2> QED
    BY <2>2, <2>5, <2>7
<1>6. ASSUME m > 1, Labels(p)[1] = <<"*">> PROVE L >= 2 /\ p[1] = "*" /\ p[2] = "."
  <2>1. e(1) = 2
    BY <1>4, <1>6
  <2>2. p[1] = "*"
    BY <1>4, <1>6, <2>1
  <2>3. 1 \in 1 .. m - 1
    BY <1>1, <1>6
  <2>4. p[2] = "." /\ 2 \in 1 .. L
    BY <2>1, <2>3, CutsAreDots DEF m, e, L
  <2> QED
    BY <1>1, <2>2, <2>4
<1> QED
  BY <1>3, <1>5, <1>6 DEF L, m, e

\* What IsSuffix says, letter by letter, of a name and a wildcard's suffix.
LEMMA SuffixIs ==
  ASSUME NEW d \in Seq(Char), NEW p \in Seq(Char), IsWildcard(p)
  PROVE  IsSuffix(SuffixOf(p), d) <=>
           /\ Len(d) >= Len(p) - 1
           /\ \A j \in 2 .. Len(p) : d[Len(d) - Len(p) + j] = p[j]
<1> DEFINE t == SuffixOf(p)
           D == Len(d)
           P == Len(p)
           r == Reverse(t)
           s == Reverse(d)
<1>1. P \in Nat /\ P >= 2 /\ D \in Nat
  BY WildcardIs
<1>2. t \in Seq(Char) /\ Len(t) = P - 1 /\ \A i \in 1 .. P - 1 : t[i] = p[i + 1]
  BY <1>1 DEF SuffixOf
<1> HIDE DEF t, D, P
<1>3. r \in Seq(Char) /\ Len(r) = P - 1 /\ \A i \in 1 .. P - 1 : r[i] = p[P - i + 1]
  <2>1. r = [i \in 1 .. P - 1 |-> t[P - 1 - i + 1]]
    BY <1>2 DEF Reverse
  <2>2. ASSUME NEW i \in 1 .. P - 1 PROVE P - 1 - i + 1 \in 1 .. P - 1 /\ P - 1 - i + 1 + 1 = P - i + 1
    BY <1>1
  <2>3. ASSUME NEW i \in 1 .. P - 1 PROVE t[P - 1 - i + 1] = p[P - i + 1] /\ t[P - 1 - i + 1] \in Char
    <3> DEFINE q == P - 1 - i + 1
    <3>1. q \in 1 .. P - 1 /\ q + 1 = P - i + 1
      BY <2>2
    <3> HIDE DEF q
    <3>2. t[q] = p[q + 1] /\ t[q] \in Char
      BY <1>2, <3>1
    <3> QED
      BY <3>1, <3>2 DEF q
  <2> DEFINE x(i) == p[P - i + 1]
  <2>4. r = [i \in 1 .. P - 1 |-> x(i)]
    BY <2>1, <2>3
  <2>5. \A i \in 1 .. P - 1 : x(i) \in Char
    BY <2>3
  <2> HIDE DEF x, r
  <2>6. r \in Seq(Char) /\ Len(r) = P - 1 /\ \A i \in 1 .. P - 1 : r[i] = x(i)
    <3> DEFINE u == P - 1
    <3>1. u \in Nat
      BY <1>1
    <3> HIDE DEF u
    <3>2. r = [i \in 1 .. u |-> x(i)] /\ \A i \in 1 .. u : x(i) \in Char
      BY <2>4, <2>5 DEF u
    <3>3. r \in Seq(Char) /\ Len(r) = u /\ \A i \in 1 .. u : r[i] = x(i)
      BY <3>1, <3>2
    <3> QED
      BY <3>3 DEF u
  <2> QED
    BY <2>6 DEF x
<1>4. s \in Seq(Char) /\ Len(s) = D /\ \A i \in 1 .. D : s[i] = d[D - i + 1]
  <2>1. s = [i \in 1 .. D |-> d[D - i + 1]]
    BY DEF Reverse, D
  <2>2. ASSUME NEW i \in 1 .. D PROVE D - i + 1 \in 1 .. D
    BY <1>1
  <2>3. ASSUME NEW i \in 1 .. D PROVE d[D - i + 1] \in Char
    BY <2>2 DEF D
  <2> HIDE DEF s
  <2> QED
    BY <1>1, <2>1, <2>3
<1>5. IsSuffix(t, d) <=> P - 1 <= D /\ SubSeq(r, 1, P - 1) = SubSeq(s, 1, P - 1)
  BY <1>3, <1>4 DEF IsSuffix, IsPrefix
<1> HIDE DEF r, s
<1>6. ASSUME P - 1 <= D
      PROVE  SubSeq(r, 1, P - 1) = SubSeq(s, 1, P - 1) <=> \A i \in 1 .. P - 1 : r[i] = s[i]
  <2> DEFINE u == P - 1
             f == SubSeq(r, 1, u)
             g == SubSeq(s, 1, u)
  <2>1. u \in Nat /\ u <= Len(r) /\ u <= Len(s)
    BY <1>1, <1>3, <1>4, <1>6
  <2> HIDE DEF u
  <2>2. f \in Seq(Char) /\ Len(f) = u /\ \A i \in 1 .. u : f[i] = r[i]
    BY <1>3, <2>1
  <2>3. g \in Seq(Char) /\ Len(g) = u /\ \A i \in 1 .. u : g[i] = s[i]
    BY <1>4, <2>1
  <2> HIDE DEF f, g
  <2>4. f = g <=> \A i \in 1 .. u : r[i] = s[i]
    <3>1. ASSUME f = g, NEW i \in 1 .. u PROVE r[i] = s[i]
      BY <2>2, <2>3, <3>1
    <3>2. ASSUME \A i \in 1 .. u : r[i] = s[i] PROVE f = g
      <4>1. \A i \in 1 .. u : f[i] = g[i]
        BY <2>2, <2>3, <3>2
      <4> QED
        BY <2>2, <2>3, <4>1
    <3> QED
      BY <3>1, <3>2
  <2> QED
    BY <2>4 DEF f, g, u
<1>7. ASSUME P - 1 <= D
      PROVE  (\A i \in 1 .. P - 1 : r[i] = s[i]) <=> \A j \in 2 .. P : d[D - P + j] = p[j]
  <2>1. ASSUME \A i \in 1 .. P - 1 : r[i] = s[i], NEW j \in 2 .. P PROVE d[D - P + j] = p[j]
    <3> DEFINE i == P - j + 1
    <3>1. i \in 1 .. P - 1 /\ i \in 1 .. D /\ P - i + 1 = j /\ D - i + 1 = D - P + j
      BY <1>1, <1>7
    <3> HIDE DEF i
    <3>2. r[i] = p[P - i + 1] /\ s[i] = d[D - i + 1] /\ r[i] = s[i]
      BY <1>3, <1>4, <2>1, <3>1
    <3> QED
      BY <3>1, <3>2
  <2>2. ASSUME \A j \in 2 .. P : d[D - P + j] = p[j], NEW i \in 1 .. P - 1 PROVE r[i] = s[i]
    <3> DEFINE j == P - i + 1
    <3>1. j \in 2 .. P /\ i \in 1 .. D /\ P - i + 1 = j /\ D - i + 1 = D - P + j
      BY <1>1, <1>7
    <3> HIDE DEF j
    <3>2. r[i] = p[P - i + 1] /\ s[i] = d[D - i + 1] /\ d[D - P + j] = p[j]
      BY <1>3, <1>4, <2>2, <3>1
    <3> QED
      BY <3>1, <3>2
  <2> QED
    BY <2>1, <2>2
<1>8. P - 1 <= D <=> D >= P - 1
  BY <1>1
<1> QED
  BY <1>5, <1>6, <1>7, <1>8 DEF t, D, P

\* A suffix that begins with its dot is found where the labels after the star
\* are, and only there; the name is then at least as long in labels, and the
\* suffix begins at one of its cuts.
LEMMA CoversWild ==
  ASSUME NEW d \in Seq(Char), NEW p \in Seq(Char), IsWildcard(p)
  PROVE  /\ IsSuffix(SuffixOf(p), d) <=> Covers(p, d)
         /\ Covers(p, d) => /\ Size(p) <= Size(d)
                            /\ Cut(d, Size(d) - Size(p) + 1) = Len(d) - Len(p) + 2
<1> DEFINE n == Size(d)
           m == Size(p)
           h == Len(d) - Len(p)
           D == Len(d)
           P == Len(p)
<1>1. n \in Nat \ {0} /\ m \in Nat /\ m >= 2 /\ D \in Nat /\ P \in Nat /\ P >= 2 /\ h \in Int /\ D = h + P
  <2>1. n \in Nat \ {0} /\ m \in Nat \ {0} /\ D \in Nat /\ P \in Nat
    BY NamesAreOrdered DEF Ordered
  <2>2. m > 1 /\ P >= 2
    BY WildcardIs
  <2> HIDE DEF n, m
  <2> QED
    BY <2>1, <2>2
<1>2. Cut(p, 1) = 2 /\ p[2] = "." /\ Labels(p)[1] = <<"*">> /\ Len(Labels(p)) = m /\ Len(Labels(d)) = n
  BY WildcardIs, LabelsAre
<1>3. Covers(p, d) <=> n >= m /\ \A k \in 2 .. m : Labels(d)[n - m + k] = Labels(p)[k]
  <2>1. m > 1
    BY <1>1
  <2> QED
    BY <1>2, <2>1 DEF Covers
<1>4. IsSuffix(SuffixOf(p), d) <=> D >= P - 1 /\ \A j \in 2 .. P : d[h + j] = p[j]
  BY SuffixIs
<1>n. n \in Nat /\ n >= 1 /\ m \in Nat /\ m >= 2 /\ D \in Nat /\ P \in Nat /\ P >= 2 /\ h \in Int /\ D = h + P /\ 1 \in 0 .. m
  BY <1>1
<1>5. ASSUME D >= P - 1, \A j \in 2 .. P : d[h + j] = p[j]
      PROVE  n >= m /\ Cut(d, n - m + 1) = h + 2 /\ \A k \in 2 .. m : Labels(d)[n - m + k] = Labels(p)[k]
  <2> HIDE DEF n, m, h, D, P
  <2>1. \A j \in 2 .. P : h + j \in 1 .. D
    BY <1>n, <1>5
  <2>2. h + 2 \in 1 .. D /\ d[h + 2] = "."
    <3>1. 2 \in 2 .. P
      BY <1>n
    <3> QED
      BY <1>2, <1>5, <2>1, <3>1
  <2>3. h + 2 \in Cuts(d)
    BY <2>2 DEF Cuts, Dots, D
  <2>4. \A j \in 1 .. P : 2 < j => h + j \in 1 .. D /\ d[h + j] = p[j]
    <3> SUFFICES ASSUME NEW j \in 1 .. P, 2 < j PROVE h + j \in 1 .. D /\ d[h + j] = p[j]
      OBVIOUS
    <3>1. j \in 2 .. P
      BY <1>n
    <3> QED
      BY <1>5, <2>1, <3>1
  <2>5. /\ \A k \in 1 .. m : n - m + k \in 0 .. n /\ Cut(d, n - m + k) = h + Cut(p, k)
        /\ \A k \in 2 .. m : Labels(d)[n - m + k] = Labels(p)[k]
    <3>1. \A j \in 1 .. Len(p) : Cut(p, 1) < j => Len(d) - Len(p) + j \in 1 .. Len(d) /\ d[Len(d) - Len(p) + j] = p[j]
      BY <1>2, <2>4, Zenon DEF h, D, P
    <3>2. Len(d) - Len(p) + Cut(p, 1) \in Cuts(d)
      BY <1>2, <2>3, Zenon DEF h
    <3>3. 1 \in 0 .. Size(p)
      BY <1>n DEF m
    <3>4. /\ \A k \in 1 .. Size(p) : /\ Size(d) - Size(p) + k \in 0 .. Size(d)
                                     /\ Cut(d, Size(d) - Size(p) + k) = Len(d) - Len(p) + Cut(p, k)
          /\ \A k \in 1 + 1 .. Size(p) : Labels(d)[Size(d) - Size(p) + k] = Labels(p)[k]
      BY <3>1, <3>2, <3>3, LettersToLabels
    <3>5. 1 + 1 = 2
      OBVIOUS
    <3> QED
      BY <3>4, <3>5, Zenon DEF n, m, h
  <2>6. 1 \in 1 .. m
    BY <1>n
  <2>7. n - m + 1 \in 0 .. n /\ Cut(d, n - m + 1) = h + 2
    BY <1>2, <2>5, <2>6
  <2>8. n - m + 1 # 0
    <3>1. Cut(d, 0) = 0
      BY NamesAreOrdered DEF Ordered
    <3>2. h + 2 # 0
      BY <2>2
    <3> QED
      BY <2>7, <3>1, <3>2
  <2>9. n >= m
    BY <1>n, <2>7, <2>8
  <2> QED
    BY <2>5, <2>7, <2>9
<1>6. ASSUME n >= m, \A k \in 2 .. m : Labels(d)[n - m + k] = Labels(p)[k]
      PROVE  D >= P - 1 /\ \A j \in 2 .. P : d[h + j] = p[j]
  <2>1. /\ \A k \in 1 .. m : Cut(d, n - m + k) = h + Cut(p, k)
        /\ \A j \in 1 .. P : 2 < j => d[h + j] = p[j]
    <3>1. 1 \in 0 .. Size(p) /\ Size(p) <= Size(d)
      BY <1>n, <1>6
    <3>2. \A k \in 1 + 1 .. Size(p) : Labels(d)[Size(d) - Size(p) + k] = Labels(p)[k]
      BY <1>6
    <3>3. /\ \A k \in 1 .. Size(p) : Cut(d, Size(d) - Size(p) + k) = Len(d) - Len(p) + Cut(p, k)
          /\ \A j \in 1 .. Len(p) : Cut(p, 1) < j =>
               Len(d) - Len(p) + j \in 1 .. Len(d) /\ d[Len(d) - Len(p) + j] = p[j]
      BY <3>1, <3>2, LabelsToLetters
    <3> QED
      BY <1>2, <3>3
  <2> HIDE DEF n, m, h, D, P
  <2>2. 1 \in 1 .. m /\ n - m + 1 \in 1 .. n - 1
    BY <1>n, <1>6
  <2>3. Cut(d, n - m + 1) = h + 2
    BY <1>2, <2>1, <2>2
  <2>4. h + 2 \in 1 .. D /\ d[h + 2] = "."
    BY <2>2, <2>3, CutsAreDots DEF n, D
  <2>5. D >= P - 1
    BY <1>n, <2>4
  <2>6. ASSUME NEW j \in 2 .. P PROVE d[h + j] = p[j]
    <3>1. j = 2 \/ (2 < j /\ j \in 1 .. P)
      BY <1>n
    <3> QED
      BY <1>2, <2>1, <2>4, <3>1
  <2> QED
    BY <2>5, <2>6
<1> QED
  <2>1. IsSuffix(SuffixOf(p), d) <=> Covers(p, d)
    BY <1>3, <1>4, <1>5, <1>6
  <2>2. Covers(p, d) => n >= m /\ Cut(d, n - m + 1) = h + 2
    BY <1>3, <1>5, <1>6
  <2>3. n >= m => m <= n
    <3> HIDE DEF n, m
    <3> QED
      BY <1>n
  <2> QED
    BY <2>1, <2>2, <2>3

\* Any other pattern covers the one name that is spelled like it.
LEMMA CoversExact ==
  ASSUME NEW d \in Seq(Char), NEW p \in Seq(Char), ~IsWildcard(p)
  PROVE  Covers(p, d) <=> d = p
<1> DEFINE n == Size(d)
           m == Size(p)
<1>1. Len(Labels(p)) = m /\ Len(Labels(d)) = n
  BY LabelsAre
<1>2. Covers(p, d) <=> Labels(d) = Labels(p)
  BY <1>1, WildcardIs DEF Covers
<1>3. ASSUME Labels(d) = Labels(p) PROVE d = p
  <2>1. n = m /\ m \in Nat \ {0} /\ Len(d) \in Nat /\ Len(p) \in Nat /\ Cut(d, 0) = 0 /\ Cut(p, 0) = 0
    BY <1>1, <1>3, NamesAreOrdered DEF Ordered
  <2>2. n \in Nat /\ m \in Nat /\ m <= n /\ 0 \in 0 .. m /\ n - m + 0 = 0
    <3> HIDE DEF n, m
    <3> QED
      BY <2>1
  <2>3. ASSUME NEW k \in 1 .. m PROVE Labels(d)[n - m + k] = Labels(p)[k]
    <3>1. n - m + k = k
      <4> HIDE DEF n, m
      <4> QED
        BY <2>1
    <3> QED
      BY <1>3, <3>1
  <2>4. /\ \A k \in 0 .. m : Cut(d, n - m + k) = Len(d) - Len(p) + Cut(p, k)
        /\ \A j \in 1 .. Len(p) : Cut(p, 0) < j => d[Len(d) - Len(p) + j] = p[j]
    <3>1. 0 \in 0 .. Size(p) /\ Size(p) <= Size(d)
      BY <2>2
    <3>2. \A k \in 0 + 1 .. Size(p) : Labels(d)[Size(d) - Size(p) + k] = Labels(p)[k]
      BY <2>3
    <3>3. /\ \A k \in 0 .. Size(p) : Cut(d, Size(d) - Size(p) + k) = Len(d) - Len(p) + Cut(p, k)
          /\ \A j \in 1 .. Len(p) : Cut(p, 0) < j =>
               Len(d) - Len(p) + j \in 1 .. Len(d) /\ d[Len(d) - Len(p) + j] = p[j]
      BY <3>1, <3>2, LabelsToLetters
    <3> QED
      BY <3>3
  <2>5. Cut(d, 0) = Len(d) - Len(p) + Cut(p, 0)
    BY <2>2, <2>4
  <2>6. Len(d) = Len(p)
    BY <2>1, <2>5
  <2>7. ASSUME NEW j \in 1 .. Len(p) PROVE d[j] = p[j]
    <3>1. Len(d) - Len(p) + j = j /\ Cut(p, 0) < j
      BY <2>1, <2>6
    <3> QED
      BY <2>4, <3>1
  <2> QED
    BY <2>6, <2>7
<1> QED
  BY <1>2, <1>3

\* Matches() and covering by label are the same.
LEMMA MatchesByLabel ==
  ASSUME NEW d \in Seq(Char), NEW patterns, patterns \subseteq Seq(Char)
  PROVE  Matches(d, patterns) <=> Covered(d, patterns)
<1>1. \A p \in Normalized(patterns) : p \in Seq(Char)
  BY NormalizedOnce DEF Normalized
<1>2. ASSUME NEW p \in Normalized(patterns), IsWildcard(p) PROVE p # <<>>
  <2>1. Len(p) >= 2
    BY <1>1, <1>2, WildcardIs
  <2>2. p = <<>> => Len(p) = 0
    OBVIOUS
  <2> QED
    BY <2>1, <2>2
<1>3. Matches(d, patterns) <=>
        \E p \in Normalized(patterns) :
          \/ p # <<>> /\ ~IsWildcard(p) /\ d = p
          \/ IsWildcard(p) /\ IsSuffix(SuffixOf(p), d)
  BY DEF Matches, Exact, AnchoredSuffixes
<1>4. ASSUME NEW p \in Normalized(patterns)
      PROVE  (p # <<>> /\ ~IsWildcard(p) /\ d = p) \/ (IsWildcard(p) /\ IsSuffix(SuffixOf(p), d))
               <=> p # <<>> /\ Covers(p, d)
  <2>1. CASE IsWildcard(p)
    BY <1>1, <1>2, <2>1, CoversWild
  <2>2. CASE ~IsWildcard(p)
    BY <1>1, <2>2, CoversExact
  <2> QED
    BY <2>1, <2>2
<1> QED
  BY <1>3, <1>4 DEF Covered

\* A label is too long exactly where so many positions in a row hold no dot.
LEMMA ViolationByShape ==
  ASSUME NEW d \in Seq(Char), d # <<>>
  PROVE  Violation(d) <=> ~FitsGuard(d)
<1> DEFINE n == Size(d)
           D == Len(d)
           M == MaxLabelLength
           c(k) == Cut(d, k)
           Window(i) == i + M <= D /\ ~ \E j \in i .. i + M : j \in Dots(d)
<1>1. M \in Nat /\ MaxLabels \in Nat /\ MaxLength \in Nat
  BY RulesAssumption DEF RulesAssumption
<1>2. /\ D \in Nat /\ n \in Nat /\ n >= 1 /\ c(0) = 0 /\ c(n) = D + 1
      /\ \A k \in 0 .. n : c(k) \in Nat /\ c(k) <= D + 1
  <2>1. D \in Nat /\ n \in Nat \ {0}
    BY NamesAreOrdered DEF Ordered
  <2>2. n >= 1
    <3> HIDE DEF n
    <3> QED
      BY <2>1
  <2> QED
    BY <2>1, <2>2, NamesAreOrdered DEF Ordered
<1>3. Len(Labels(d)) = n /\ DOMAIN Labels(d) = 1 .. n /\ Cardinality(Dots(d)) \in Int
  <2>1. Labels(d) \in Seq(Seq(Char)) /\ Len(Labels(d)) = n
    BY LabelsAre
  <2>2. Dots(d) \subseteq 0 .. D
    BY DEF Dots
  <2>3. Cardinality(Dots(d)) \in Nat
    BY <1>2, <2>2, Ranks
  <2> QED
    BY <2>1, <2>3
<1>4. Dots(d) = {i \in 1 .. D : d[i] = "."}
  BY DEF Dots
<1>5. ASSUME NEW k \in 1 .. n, Len(Labels(d)[k]) > M PROVE \E i \in 1 .. D : Window(i)
  <2>1. c(k - 1) \in Nat /\ c(k) \in Nat /\ Len(Labels(d)[k]) = c(k) - c(k - 1) - 1 /\ c(k) <= D + 1
    <3>1. c(k - 1) \in Nat /\ c(k) \in Nat /\ Len(Labels(d)[k]) = c(k) - c(k - 1) - 1
      BY LabelsAre
    <3>2. k \in 0 .. n
      <4> HIDE DEF n
      <4> QED
        BY <1>2
    <3> QED
      BY <1>2, <3>1, <3>2
  <2>2. \A j \in 1 .. D : c(k - 1) < j /\ j < c(k) => d[j] # "."
    BY NoDotBetween
  <2> DEFINE i == c(k - 1) + 1
             y == c(k)
             x == c(k - 1)
  <2>3. x \in Nat /\ y \in Nat /\ y - x - 1 > M /\ y <= D + 1 /\ i = x + 1
    BY <1>5, <2>1
  <2>4. \A j \in 1 .. D : x < j /\ j < y => j \notin Dots(d)
    BY <1>4, <2>2
  <2> HIDE DEF x, y, i, D, M, n
  <2>5. i \in 1 .. D /\ i + M <= D
    BY <1>1, <1>2, <2>3
  <2>6. \A j \in i .. i + M : j \in 1 .. D /\ x < j /\ j < y
    BY <1>1, <1>2, <2>3
  <2>7. Window(i)
    BY <2>4, <2>5, <2>6
  <2> QED
    BY <2>5, <2>7
<1>6. ASSUME NEW i \in 1 .. D, Window(i) PROVE \E k \in 1 .. n : Len(Labels(d)[k]) > M
  <2>1. PICK k \in 1 .. n : c(k - 1) < i /\ i <= c(k)
    <3>1. i \in 1 .. Len(d) + 1
      BY <1>2
    <3> QED
      BY <3>1, CutsAreDots
  <2>2. c(k - 1) \in Nat /\ c(k) \in Nat /\ Len(Labels(d)[k]) = c(k) - c(k - 1) - 1
    BY LabelsAre
  <2>3. k # n => c(k) \in Dots(d)
    <3> SUFFICES ASSUME k # n PROVE c(k) \in Dots(d)
      OBVIOUS
    <3>1. k \in 1 .. n - 1
      <4> HIDE DEF n
      <4> QED
        BY <1>2
    <3>2. c(k) \in 1 .. D /\ d[c(k)] = "."
      BY <3>1, CutsAreDots
    <3> QED
      BY <1>4, <3>2
  <2> DEFINE y == c(k)
             x == c(k - 1)
  <2>4. x \in Nat /\ y \in Nat /\ x < i /\ i <= y /\ i + M <= D
    BY <1>6, <2>1, <2>2
  <2>5. (k = n => y = D + 1) /\ (k # n => y \in Dots(d))
    BY <1>2, <2>3
  <2>6. ~ \E j \in i .. i + M : j \in Dots(d)
    BY <1>6
  <2> HIDE DEF x, y, D, M, n, Window
  <2>7. y > i + M
    <3> SUFFICES ASSUME ~(y > i + M) PROVE FALSE
      OBVIOUS
    <3>1. y \in i .. i + M /\ y # D + 1
      BY <1>1, <1>2, <2>4
    <3> QED
      BY <2>5, <2>6, <3>1
  <2>8. y - x - 1 > M
    BY <1>1, <1>2, <2>4, <2>7
  <2>9. Len(Labels(d)[k]) = y - x - 1
    BY <2>2 DEF x, y
  <2> QED
    BY <2>8, <2>9
<1>7. OverlongLabel(d) <=> \E i \in 1 .. D : Window(i)
  BY <1>3, <1>5, <1>6 DEF OverlongLabel
<1>8. FitsGuard(d) <=> D <= MaxLength /\ Cardinality(Dots(d)) < MaxLabels /\ ~ \E i \in 1 .. D : Window(i)
  BY DEF FitsGuard
<1>9. n = Cardinality(Dots(d)) + 1
  BY DEF Size
<1>10. (D > MaxLength <=> ~(D <= MaxLength)) /\ (n > MaxLabels <=> ~(Cardinality(Dots(d)) < MaxLabels))
  <2> DEFINE u == Cardinality(Dots(d))
  <2>1. u \in Int /\ n = u + 1
    BY <1>3, <1>9
  <2> HIDE DEF u, n, D
  <2> QED
    BY <1>1, <1>2, <2>1 DEF u
<1> QED
  BY <1>3, <1>7, <1>8, <1>10 DEF Violation

-----------------------------------------------------------------------------
(***************************************************************************)
(* The two properties that speak of labels.  Neither depends on what the   *)
(* requests did: they hold of every list and every table of names, and the *)
(* invariant only says that these are what the state holds.                *)
(***************************************************************************)

\* The cost of a name: every pattern that covers it is exact or a wildcard; an
\* exact one has one label more to its credit than any wildcard that covers
\* the name has, and of two wildcards the longer spelled has no fewer labels,
\* because both suffixes begin at a cut of the name.
LEMMA CostBySpecificity ==
  ASSUME NEW d \in Seq(Char), costs \in CostTables,
         NEW covering, covering = {i \in DOMAIN costs : Pattern(i) # <<>> /\ Covers(Pattern(i), d)}
  PROVE  IF covering = {} THEN CostOf(d) = 0
         ELSE \E i \in covering :
                CostOf(d) = costs[i][2] /\ \A j \in covering : Specific(j) <= Specific(i)
<1> DEFINE exact == {i \in DOMAIN costs : Pattern(i) = d /\ d # <<>> /\ ~IsWildcard(d)}
           wild == {i \in DOMAIN costs : IsWildcard(Pattern(i)) /\ IsSuffix(SuffixOf(Pattern(i)), d)}
           N == Len(costs)
           n == Size(d)
           D == Len(d)
           size(i) == Size(Pattern(i))
           len(i) == Len(Pattern(i))
           best == CHOOSE i \in wild : \A j \in wild : TriedBefore(i, j)
<1>1. N \in Nat /\ DOMAIN costs = 1 .. N /\ \A i \in 1 .. N : Pattern(i) \in Seq(Char)
  <2>1. costs \in Seq(Seq(Char) \X Nat)
    BY RulesAssumption DEF RulesAssumption
  <2>2. \A i \in 1 .. N : costs[i] \in Seq(Char) \X Nat
    BY <2>1
  <2>3. \A i \in 1 .. N : costs[i][1] \in Seq(Char)
    BY <2>2
  <2> QED
    BY <2>1, <2>3, NormalizedOnce DEF Pattern
<1>2. CostOf(d) = IF exact # {} THEN costs[Max(exact)][2] ELSE IF wild = {} THEN 0 ELSE costs[best][2]
  BY DEF CostOf
<1>3. covering = exact \union wild
  <2>1. ASSUME NEW i \in 1 .. N PROVE i \in covering <=> i \in exact \/ i \in wild
    <3>1. Pattern(i) \in Seq(Char)
      BY <1>1
    <3>2. CASE IsWildcard(Pattern(i))
      <4>1. Pattern(i) # <<>>
        <5>1. Len(Pattern(i)) >= 2
          BY <3>1, <3>2, WildcardIs
        <5>2. Pattern(i) = <<>> => Len(Pattern(i)) = 0
          OBVIOUS
        <5> QED
          BY <5>1, <5>2
      <4>2. IsSuffix(SuffixOf(Pattern(i)), d) <=> Covers(Pattern(i), d)
        BY <3>1, <3>2, CoversWild
      <4> QED
        BY <1>1, <3>2, <4>1, <4>2
    <3>3. CASE ~IsWildcard(Pattern(i))
      <4>1. Covers(Pattern(i), d) <=> d = Pattern(i)
        BY <3>1, <3>3, CoversExact
      <4> QED
        BY <1>1, <3>3, <4>1
    <3> QED
      BY <3>2, <3>3
  <2>2. covering \subseteq 1 .. N /\ exact \subseteq 1 .. N /\ wild \subseteq 1 .. N
    BY <1>1
  <2> QED
    BY <2>1, <2>2
<1>4. n \in Nat /\ D \in Nat /\ \A j, k \in 0 .. n : j < k => Cut(d, j) < Cut(d, k)
  BY NamesAreOrdered DEF Ordered
<1>5. ASSUME NEW i \in exact PROVE Specific(i) = n + 1
  <2>1. Pattern(i) = d /\ ~IsWildcard(Pattern(i)) /\ Len(Labels(d)) = n
    BY LabelsAre
  <2> QED
    BY <2>1 DEF Specific
<1>6. ASSUME NEW i \in wild
      PROVE  /\ Specific(i) = size(i) /\ size(i) \in Nat /\ size(i) >= 1 /\ size(i) <= n
             /\ len(i) \in Nat /\ len(i) <= D + 1 /\ Cut(d, n - size(i) + 1) = D - len(i) + 2
  <2>1. Pattern(i) \in Seq(Char) /\ IsWildcard(Pattern(i)) /\ IsSuffix(SuffixOf(Pattern(i)), d)
    BY <1>1
  <2>2. size(i) \in Nat \ {0} /\ len(i) \in Nat /\ Len(Labels(Pattern(i))) = size(i)
    BY <2>1, LabelsAre, NamesAreOrdered DEF Ordered
  <2>3. size(i) <= n /\ Cut(d, n - size(i) + 1) = D - len(i) + 2
    BY <2>1, CoversWild
  <2>4. D >= len(i) - 1
    BY <2>1, SuffixIs
  <2>5. Specific(i) = size(i)
    <3>1. Specific(i) = size(i) + 0
      BY <2>1, <2>2 DEF Specific
    <3> HIDE DEF size
    <3> QED
      BY <2>2, <3>1
  <2> HIDE DEF size, len, n, D
  <2>6. size(i) >= 1 /\ len(i) <= D + 1
    BY <1>4, <2>2, <2>4
  <2> QED
    BY <2>2, <2>3, <2>5, <2>6
<1>7. exact \subseteq 1 .. N /\ wild \subseteq 1 .. N
  BY <1>1
<1>8. ASSUME NEW i \in wild, NEW j \in wild PROVE TriedBefore(i, j) <=> len(i) > len(j) \/ (len(i) = len(j) /\ i <= j)
  BY DEF TriedBefore
<1>9. covering = exact \union wild
  BY <1>3
<1> HIDE DEF exact, wild, N, n, D, size, len
<1>10. CASE exact # {}
  <2> DEFINE last == LastOf(exact)
  <2>1. last \in exact /\ \A i \in exact : last >= i
    <3>1. last \in 0 .. N /\ (\A i \in exact : i <= last) /\ (last = 0 \/ last \in exact)
      BY <1>1, <1>7, LastIs
    <3> HIDE DEF last
    <3>2. PICK i \in exact : TRUE
      BY <1>10
    <3>3. last # 0
      BY <1>1, <1>7, <3>1, <3>2
    <3>4. \A k \in exact : k \in Nat
      BY <1>1, <1>7
    <3> QED
      BY <3>1, <3>3, <3>4
  <2>2. Max(exact) \in exact
    <3>1. \E m \in exact : \A i \in exact : m >= i
      BY <2>1
    <3> QED
      BY <3>1, Zenon DEF Max
  <2> DEFINE i == Max(exact)
  <2> HIDE DEF i
  <2>3. i \in exact /\ i \in covering /\ CostOf(d) = costs[i][2]
    BY <1>2, <1>9, <1>10, <2>2 DEF i
  <2>4. ASSUME NEW j \in covering PROVE Specific(j) <= Specific(i)
    <3>1. Specific(i) = n + 1
      BY <1>5, <2>3
    <3>2. CASE j \in exact
      BY <1>4, <1>5, <3>1, <3>2
    <3>3. CASE j \in wild
      <4>1. Specific(j) = size(j) /\ size(j) \in Nat /\ size(j) <= n
        BY <1>6, <3>3
      <4> QED
        BY <1>4, <3>1, <4>1
    <3> QED
      BY <1>9, <3>2, <3>3
  <2> QED
    BY <2>3, <2>4
<1>11. CASE exact = {} /\ wild = {}
  BY <1>2, <1>9, <1>11
<1>12. CASE exact = {} /\ wild # {}
  <2>1. \E i \in wild : \A j \in wild : TriedBefore(i, j)
    <3> DEFINE short(i) == D + 1 - len(i)
               S == {short(i) : i \in wild}
    <3>1. \A i \in wild : short(i) \in Nat
      BY <1>4, <1>6
    <3>2. PICK s \in S : \A t \in S : s <= t
      <4>1. S \subseteq Nat /\ S # {}
        BY <1>12, <3>1
      <4> HIDE DEF S
      <4> QED
        BY <4>1, Least
    <3> DEFINE T == {i \in wild : short(i) = s}
    <3>3. PICK i \in T : \A j \in T : i <= j
      <4>1. PICK k \in wild : short(k) = s
        BY <3>2
      <4>2. k \in T /\ T \subseteq wild
        BY <4>1
      <4>3. wild \subseteq Nat
        BY <1>1, <1>7
      <4>4. T \subseteq Nat /\ T # {}
        BY <4>2, <4>3
      <4> HIDE DEF T
      <4> QED
        BY <4>4, Least
    <3>4. i \in wild /\ short(i) = s
      OBVIOUS
    <3>5. ASSUME NEW j \in wild PROVE TriedBefore(i, j)
      <4>1. short(i) <= short(j)
        BY <3>2, <3>4
      <4>2. short(i) = short(j) => i <= j
        BY <3>3, <3>4
      <4>3. len(i) \in Nat /\ len(j) \in Nat
        BY <1>6, <3>4
      <4> DEFINE x == len(i)
                 y == len(j)
      <4>4. D + 1 - x <= D + 1 - y /\ (D + 1 - x = D + 1 - y => i <= j) /\ x \in Nat /\ y \in Nat
        BY <4>1, <4>2, <4>3
      <4> HIDE DEF x, y
      <4>5. x > y \/ (x = y /\ i <= j)
        BY <1>4, <4>4
      <4> QED
        BY <1>8, <3>4, <4>5 DEF x, y
    <3> QED
      BY <3>4, <3>5
  <2>2. best \in wild /\ \A j \in wild : TriedBefore(best, j)
    BY <2>1, Zenon
  <2> HIDE DEF best
  <2>3. best \in covering /\ CostOf(d) = costs[best][2]
    BY <1>2, <1>9, <1>12, <2>2
  <2>4. ASSUME NEW j \in covering PROVE Specific(j) <= Specific(best)
    <3>1. j \in wild
      BY <1>9, <1>12
    <3> DEFINE p == size(best)
               q == size(j)
               x == len(best)
               y == len(j)
               a == n - p + 1
               b == n - q + 1
               u == Cut(d, a)
               v == Cut(d, b)
    <3>2. /\ Specific(best) = p /\ p \in Nat /\ p >= 1 /\ p <= n /\ x \in Nat /\ u = D - x + 2
          /\ Specific(j) = q /\ q \in Nat /\ q >= 1 /\ q <= n /\ y \in Nat /\ v = D - y + 2
      BY <1>6, <2>2, <3>1
    <3>3. x >= y
      <4>1. x > y \/ x = y
        BY <1>8, <2>2, <3>1
      <4> HIDE DEF x, y
      <4> QED
        BY <3>2, <4>1
    <3>4. b < a /\ b \in 0 .. n /\ a \in 0 .. n => v < u
      BY <1>4
    <3> HIDE DEF p, q, x, y, u, v
    <3>5. q <= p
      <4> SUFFICES ASSUME ~(q <= p) PROVE FALSE
        OBVIOUS
      <4>1. b < a /\ b \in 0 .. n /\ a \in 0 .. n
        BY <1>4, <3>2
      <4> HIDE DEF a, b
      <4>2. v < u
        BY <3>4, <4>1
      <4> QED
        BY <1>4, <3>2, <3>3, <4>2
    <3> QED
      BY <3>2, <3>5
  <2> QED
    BY <2>3, <2>4
<1> QED
  BY <1>10, <1>11, <1>12

\* rules.py and the query guard: matching characters, suffixes anchored at
\* their dot, decides exactly what a reader of labels would decide, for every
\* alphabet, every list the requests can leave and every name asked for.
THEOREM LabelsDecide == Spec => []PassesByLabel
<1>1. RulesInv => PassesByLabel
  <2> SUFFICES ASSUME RulesInv, NEW q \in Query
               PROVE  LET d == NormalizeDomain(q) IN
                        Verdict(q) = "pass" <=> Covered(d, allowed) /\ ~Covered(d, DenyList) /\ (d = <<>> \/ FitsGuard(d))
    BY DEF PassesByLabel
  <2> DEFINE d == NormalizeDomain(q)
  <2>1. q \in Seq(Char) /\ DenyList \subseteq Seq(Char) /\ allowed \subseteq Seq(Char)
    BY RulesAssumption DEF RulesAssumption, RulesInv, RulesTypes
  <2>2. d \in Seq(Char)
    BY <2>1, NormalizedOnce
  <2>3. Verdict(q) = "pass" <=> ~Matches(d, DenyList) /\ ~Violation(d) /\ Matches(d, allowed)
    BY Zenon DEF Verdict
  <2> HIDE DEF d
  <2>4. (Matches(d, DenyList) <=> Covered(d, DenyList)) /\ (Matches(d, allowed) <=> Covered(d, allowed))
    BY <2>1, <2>2, MatchesByLabel
  <2>5. ~Violation(d) <=> d = <<>> \/ FitsGuard(d)
    <3>1. d = <<>> => ~Violation(d)
      BY DEF Violation
    <3>2. d # <<>> => (Violation(d) <=> ~FitsGuard(d))
      BY <2>2, ViolationByShape
    <3> QED
      BY <3>1, <3>2
  <2> QED
    BY <2>3, <2>4, <2>5 DEF d
<1> QED
  BY <1>1, RulesInvHolds, PTL

\* CostTable: in whatever order a table lists its patterns, the price of a
\* name is one that some most specific pattern among those covering it sets.
THEOREM SpecificPriceWins == Spec => []CostIsMostSpecific
<1>1. RulesInv => CostIsMostSpecific
  <2> SUFFICES ASSUME RulesInv, NEW q \in Query
               PROVE  LET d == NormalizeDomain(q)
                          covering == {i \in DOMAIN costs : Pattern(i) # <<>> /\ Covers(Pattern(i), d)}
                      IN  IF covering = {} THEN CostOf(d) = 0
                          ELSE \E i \in covering :
                                 CostOf(d) = costs[i][2] /\ \A j \in covering : Specific(j) <= Specific(i)
    BY DEF CostIsMostSpecific
  <2>1. q \in Seq(Char) /\ costs \in CostTables
    BY RulesAssumption DEF RulesAssumption, RulesInv
  <2>2. NormalizeDomain(q) \in Seq(Char)
    BY <2>1, NormalizedOnce
  <2> QED
    BY <2>1, <2>2, CostBySpecificity
<1> QED
  BY <1>1, RulesInvHolds, PTL
=============================================================================
