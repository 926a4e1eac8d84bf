----------------------------- MODULE PolicyRules -----------------------------
(***************************************************************************)
(* How names match rules: dns_manager/rules.py, and set_domain_access() of *)
(* dns_manager/policy.py, which edits the list the rules are built from.   *)
(*                                                                         *)
(* PolicyEngine takes matching as given; here a name is a sequence of      *)
(* characters, because what can go wrong is in the characters: letter      *)
(* case, the trailing dot, and where a wildcard's suffix begins.  The code *)
(* matches characters; the properties speak of labels.                     *)
(***************************************************************************)
EXTENDS Integers, FiniteSets, SequencesExt

CONSTANTS
  Char,            \* the characters names are made of, "." and "*" among them
  Lower,           \* str.lower() on them
  Configured,      \* spellings the allow list of policies.json may hold
  Requested,       \* spellings set_domain_access() is called with
  Query,           \* names asked for, as they come off the wire
  DenyList,        \* the deny rules that apply to the agent, global or its own
  CostTables,      \* cost tables of policies.json, pattern and cost in file order
  MaxLabelLength, MaxLabels, MaxLength  \* the query guard's limits

ASSUME RulesAssumption ==
  /\ {".", "*"} \subseteq Char
  /\ Lower \in [Char -> Char] /\ \A c \in Char : Lower[Lower[c]] = Lower[c]
  /\ \A c \in {".", "*"} : \A d \in Char : Lower[d] = c <=> d = c
  /\ Configured \union Requested \union Query \union DenyList \subseteq Seq(Char)
  /\ CostTables \subseteq Seq(Seq(Char) \X Nat)
  /\ {MaxLabelLength, MaxLabels, MaxLength} \subseteq Nat

VARIABLES
  allowed,  \* the entries of allowed_domains, as they are spelled
  costs,    \* the cost table
  word      \* history: what the last request said of each name

vars == <<allowed, costs, word>>

-----------------------------------------------------------------------------
(* Names and patterns. *)

LastOf(S) == Max(S \union {0})

\* rstrip(".") and lower().
NormalizeDomain(name) ==
  [i \in 1..LastOf({j \in DOMAIN name : name[j] # "."}) |-> Lower[name[i]]]

Normalized(names) == {NormalizeDomain(n) : n \in names}

\* split("."): the pieces between the dots, empty ones included.
Dots(name) == {i \in DOMAIN name : name[i] = "."}
Cuts(name) == Dots(name) \union {0, Len(name) + 1}
Cut(name, k) == CHOOSE i \in Cuts(name) : Cardinality({j \in Cuts(name) : j < i}) = k
Labels(name) == [k \in 1..Cardinality(Dots(name)) + 1 |-> SubSeq(name, Cut(name, k - 1) + 1, Cut(name, k) - 1)]

IsWildcard(pattern) == IsPrefix(<<"*", ".">>, pattern)

\* Mutant: the suffix loses its dot, and with it the label boundary.
SuffixWithoutDot(pattern) == SubSeq(pattern, 3, Len(pattern))

SuffixOf(pattern) == Tail(pattern)

\* compile_patterns(): exact names, and suffixes that begin with a dot.
Exact(patterns) == {p \in Normalized(patterns) : p # <<>> /\ ~IsWildcard(p)}
AnchoredSuffixes(patterns) == {SuffixOf(p) : p \in {w \in Normalized(patterns) : IsWildcard(w)}}

Matches(domain, patterns) ==
  \/ domain \in Exact(patterns)
  \/ \E suffix \in AnchoredSuffixes(patterns) : IsSuffix(suffix, domain)

-----------------------------------------------------------------------------
(* QueryGuard.violation() and CostTable.cost_of(). *)

OverlongLabel(domain) ==
  \E k \in DOMAIN Labels(domain) : Len(Labels(domain)[k]) > MaxLabelLength

Violation(domain) ==
  /\ domain # <<>>
  /\ \/ Len(domain) > MaxLength
     \/ Len(Labels(domain)) > MaxLabels
     \/ OverlongLabel(domain)

Pattern(i) == NormalizeDomain(costs[i][1])

\* Mutant: the table is left in file order.
TriedInFileOrder(i, j) == i <= j

\* Longest suffix first; the sort is stable.
TriedBefore(i, j) ==
  Len(Pattern(i)) > Len(Pattern(j)) \/ (Len(Pattern(i)) = Len(Pattern(j)) /\ i <= j)

\* An exact price wins, and of two spellings of one name the later entry's.
CostOf(domain) ==
  LET exact == {i \in DOMAIN costs : Pattern(i) = domain /\ domain # <<>> /\ ~IsWildcard(domain)}
      wild  == {i \in DOMAIN costs : IsWildcard(Pattern(i)) /\ IsSuffix(SuffixOf(Pattern(i)), domain)}
  IN  IF exact # {} THEN costs[Max(exact)][2]
      ELSE IF wild = {} THEN 0
      ELSE costs[CHOOSE i \in wild : \A j \in wild : TriedBefore(i, j)][2]

\* The part of evaluate() that reads nothing but the rules.
Verdict(name) ==
  LET domain == NormalizeDomain(name)
  IN  CASE Matches(domain, DenyList) -> "denied"
        [] ~Matches(domain, DenyList) /\ Violation(domain) -> "tunnelling"
        [] ~Matches(domain, DenyList) /\ ~Violation(domain) ->
             IF Matches(domain, allowed) THEN "pass" ELSE "not_allowed"

-----------------------------------------------------------------------------
(* set_domain_access(). *)

Subjects == Normalized(Requested)

Init ==
  /\ allowed \in SUBSET Configured
  /\ costs \in CostTables
  /\ word = [n \in Subjects |-> "none"]

Listed(name) == NormalizeDomain(name) \in Normalized(allowed)

Grant(name) ==
  /\ allowed' = IF Listed(name) THEN allowed ELSE allowed \union {NormalizeDomain(name)}
  /\ word' = [word EXCEPT ![NormalizeDomain(name)] = "granted"]
  /\ UNCHANGED costs

\* Mutant: only the entry spelled like the normalized name goes.
RevokeAsSpelled(name) ==
  /\ allowed' = allowed \ {NormalizeDomain(name)}
  /\ word' = [word EXCEPT ![NormalizeDomain(name)] = "revoked"]
  /\ UNCHANGED costs

Revoke(name) ==
  /\ allowed' = {e \in allowed : NormalizeDomain(e) # NormalizeDomain(name)}
  /\ word' = [word EXCEPT ![NormalizeDomain(name)] = "revoked"]
  /\ UNCHANGED costs

Next == \E name \in Requested : Grant(name) \/ Revoke(name)

Spec == Init /\ [][Next]_vars

-----------------------------------------------------------------------------
(* The reference: patterns cover names label by label. *)

Covers(pattern, domain) ==
  LET P == Labels(pattern)
      D == Labels(domain)
  IN  IF Len(P) > 1 /\ P[1] = <<"*">>
      THEN Len(D) >= Len(P) /\ \A k \in 2..Len(P) : D[Len(D) - Len(P) + k] = P[k]
      ELSE D = P

Covered(domain, patterns) ==
  \E p \in Normalized(patterns) : p # <<>> /\ Covers(p, domain)

\* A tunnelling shape, read off the positions of the dots.
FitsGuard(domain) ==
  /\ Len(domain) <= MaxLength
  /\ Cardinality(Dots(domain)) < MaxLabels
  /\ \A i \in DOMAIN domain :
       i + MaxLabelLength <= Len(domain) => \E j \in i..i + MaxLabelLength : j \in Dots(domain)

-----------------------------------------------------------------------------
(* Properties. *)

\* rules.py:22, the matching "deliberately does not match the apex nor
\* lookalikes": whatever was granted or revoked and however entries are
\* spelled, a name passes exactly if an entry covers it label by label, no
\* deny rule does, and its shape carries no payload.
PassesByLabel ==
  \A q \in Query : LET d == NormalizeDomain(q) IN
    Verdict(q) = "pass" <=> Covered(d, allowed) /\ ~Covered(d, DenyList) /\ (d = <<>> \/ FitsGuard(d))

\* The last request about a name decides, whatever spellings of it the
\* configuration and the earlier requests used: after a grant the list holds
\* it, after a revocation no entry spells it.
LastWordHolds ==
  \A n \in Subjects :
    /\ word[n] = "granted" => n \in Normalized(allowed)
    /\ word[n] = "revoked" => n \notin Normalized(allowed)

\* rules.py:104, "a specific rule beats a broad one": the price of a name is
\* the price some pattern sets that covers it with no more specific one about,
\* in whatever order the table lists them.
Specific(i) == Len(Labels(Pattern(i))) + (IF IsWildcard(Pattern(i)) THEN 0 ELSE 1)

CostIsMostSpecific ==
  \A q \in Query :
    LET d == NormalizeDomain(q)
        covering == {i \in DOMAIN costs : Pattern(i) # <<>> /\ Covers(Pattern(i), d)}
    IN  IF covering = {} THEN CostOf(d) = 0
        ELSE \E i \in covering :
               CostOf(d) = costs[i][2] /\ \A j \in covering : Specific(j) <= Specific(i)

=============================================================================
