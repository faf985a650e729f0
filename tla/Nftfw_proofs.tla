---------------------------- MODULE Nftfw_proofs ----------------------------
(* Proofs about Nftfw, for any number of requests, any rules and addresses,  *)
(* and lists of any length.                                                   *)
EXTENDS Nftfw, SequenceTheorems, WellFoundedInduction, TLAPS

-----------------------------------------------------------------------------
(* Induction                                                                *)

LEMMA Least ==
  ASSUME NEW T \in SUBSET Nat, T # {}
  PROVE  \E m \in T : \A k \in T : m <= k
<1> DEFINE R == OpToRel(<, Nat)
<1>1. IsWellFoundedOn(R, Nat)
  BY NatLessThanWellFounded
<1>2. \A x, y \in Nat : y < x => <<y, x>> \in R
  BY DEF OpToRel
<1> HIDE DEF R
<1>3. PICK m \in T : \A k \in T : ~ (<<k, m>> \in R)
  BY <1>1, WFMin
<1>4. \A k \in T : m <= k
  <2> SUFFICES ASSUME NEW k \in T PROVE m <= k
    OBVIOUS
  <2>1. m \in Nat /\ k \in Nat /\ ~ (k < m)
    BY <1>2, <1>3
  <2> QED BY <2>1
<1> QED BY <1>4

\* A set of numbers that has 0 and with a number the next has them all.
LEMMA Induct ==
  ASSUME NEW T \in SUBSET Nat, 0 \in T, \A n \in T : n + 1 \in T
  PROVE  \A n \in Nat : n \in T
<1> DEFINE U == Nat \ T
<1> SUFFICES ASSUME U # {} PROVE FALSE
  OBVIOUS
<1>1. PICK m \in U : \A k \in U : m <= k
  BY Least
<1>2. m - 1 \in Nat /\ m - 1 \notin U
  BY <1>1
<1>3. m - 1 + 1 \in T
  BY <1>2
<1> QED BY <1>1, <1>2, <1>3

-----------------------------------------------------------------------------
(* Expand                                                                   *)

KernelRule == [proto : Proto, from : From, action : {"allow", "deny"}]

\* The rules of one protocol each that a rule stands for.
OfRule(r) == [i \in DOMAIN protosOf(r.proto) |-> [r EXCEPT !.proto = protosOf(r.proto)[i]]]

LEMMA OfRuleType ==
  ASSUME NEW r \in Rule
  PROVE  OfRule(r) \in Seq(KernelRule)
<1>1. CASE r.proto = "both"
  <2>1. protosOf(r.proto) = <<"tcp", "udp">>
    BY <1>1 DEF protosOf
  <2>2. OfRule(r) = [i \in 1..2 |-> [r EXCEPT !.proto = <<"tcp", "udp">>[i]]]
    BY <2>1 DEF OfRule
  <2>3. \A i \in 1..2 : [r EXCEPT !.proto = <<"tcp", "udp">>[i]] \in KernelRule
    BY DEF Rule, KernelRule, Proto
  <2> QED BY <2>2, <2>3, IsASeq
<1>2. CASE r.proto # "both"
  <2>1. protosOf(r.proto) = <<r.proto>> /\ r.proto \in Proto
    BY <1>2 DEF protosOf, Rule
  <2>2. OfRule(r) = [i \in 1..1 |-> [r EXCEPT !.proto = <<r.proto>>[i]]]
    BY <2>1 DEF OfRule
  <2>3. \A i \in 1..1 : [r EXCEPT !.proto = <<r.proto>>[i]] \in KernelRule
    BY <2>1 DEF Rule, KernelRule
  <2> QED BY <2>2, <2>3, IsASeq
<1> QED BY <1>1, <1>2

\* The recursion of Expand: what it has made of the first n rules.
LEMMA ExpandSteps ==
  ASSUME NEW rs \in Seq(Rule)
  PROVE  \E f : /\ Expand(rs) = f[Len(rs)]
                /\ f[0] = <<>>
                /\ \A n \in 1..Len(rs) : f[n] = f[n - 1] \o OfRule(rs[n])
<1> DEFINE IsF(f, k) == f = [n \in 0..k |-> IF n = 0 THEN <<>> ELSE f[n - 1] \o OfRule(rs[n])]
           T == {k \in Nat : \E f : IsF(f, k)}
<1>0. Len(rs) \in Nat
  OBVIOUS
<1>1. 0 \in T
  <2>1. IsF([n \in 0..0 |-> <<>>], 0)
    OBVIOUS
  <2> QED BY <2>1
<1>2. ASSUME NEW k \in T PROVE k + 1 \in T
  <2>0. k \in Nat /\ k + 1 \in Nat
    OBVIOUS
  <2>1. PICK g : IsF(g, k)
    OBVIOUS
  <2> DEFINE h == [n \in 0..k + 1 |-> IF n = 0 THEN <<>> ELSE g[n - 1] \o OfRule(rs[n])]
  <2>2. \A n \in 0..k : h[n] = g[n]
    <3>1. \A n \in 0..k : g[n] = IF n = 0 THEN <<>> ELSE g[n - 1] \o OfRule(rs[n])
      BY <2>1
    <3>2. \A n \in 0..k : n \in 0..k + 1
      BY <2>0
    <3> QED BY <3>1, <3>2
  <2>3. IsF(h, k + 1)
    <3>1. \A n \in 0..k + 1 : n # 0 => n - 1 \in 0..k
      BY <2>0
    <3>2. \A n \in 0..k + 1 : n # 0 => g[n - 1] = h[n - 1]
      BY <2>2, <3>1
    <3> QED BY <3>2
  <2>4. \E f : IsF(f, k + 1)
    BY <2>3
  <2> QED BY <2>0, <2>4
<1>3. \A k \in Nat : k \in T
  <2> HIDE DEF T
  <2>1. T \in SUBSET Nat
    BY DEF T
  <2> QED BY <1>1, <1>2, <2>1, Induct
<1>4. \E f : IsF(f, Len(rs))
  BY <1>0, <1>3
<1> DEFINE F == CHOOSE f : IsF(f, Len(rs))
<1>5. IsF(F, Len(rs))
  BY <1>4, Zenon
<1>6. Expand(rs) = F[Len(rs)]
  BY DEF Expand, OfRule
<1> HIDE DEF F
<1>7. \A n \in 0..Len(rs) : F[n] = IF n = 0 THEN <<>> ELSE F[n - 1] \o OfRule(rs[n])
  BY <1>5
<1>8. 0 \in 0..Len(rs) /\ \A n \in 1..Len(rs) : n \in 0..Len(rs) /\ n # 0
  BY <1>0
<1>9. F[0] = <<>> /\ \A n \in 1..Len(rs) : F[n] = F[n - 1] \o OfRule(rs[n])
  BY <1>7, <1>8
<1> QED BY <1>6, <1>9

\* Expanded rules are rules the kernel takes.
LEMMA ExpandType ==
  ASSUME NEW rs \in Seq(Rule)
  PROVE  Expand(rs) \in Seq(KernelRule)
<1>0. Len(rs) \in Nat
  OBVIOUS
<1>1. PICK f : /\ Expand(rs) = f[Len(rs)]
               /\ f[0] = <<>>
               /\ \A n \in 1..Len(rs) : f[n] = f[n - 1] \o OfRule(rs[n])
  BY ExpandSteps
<1> DEFINE U == {n \in Nat : n <= Len(rs) => f[n] \in Seq(KernelRule)}
<1>2. 0 \in U
  <2>1. <<>> \in Seq(KernelRule)
    OBVIOUS
  <2> QED BY <1>1, <2>1
<1>3. ASSUME NEW n \in U PROVE n + 1 \in U
  <2> DEFINE m == n + 1
  <2> SUFFICES ASSUME m <= Len(rs) PROVE f[m] \in Seq(KernelRule)
    OBVIOUS
  <2>1. n \in Nat /\ m \in 1..Len(rs) /\ m - 1 = n /\ n <= Len(rs)
    BY <1>0
  <2> HIDE DEF m
  <2>2. f[n] \in Seq(KernelRule) /\ OfRule(rs[m]) \in Seq(KernelRule)
    BY <2>1, OfRuleType
  <2>3. f[m] = f[n] \o OfRule(rs[m])
    BY <1>1, <2>1
  <2> QED BY <2>2, <2>3, ConcatProperties
<1>4. \A n \in Nat : n \in U
  <2> HIDE DEF U
  <2>1. U \in SUBSET Nat
    BY DEF U
  <2> QED BY <1>2, <1>3, <2>1, Induct
<1>5. f[Len(rs)] \in Seq(KernelRule)
  BY <1>0, <1>4
<1> QED BY <1>1, <1>5

\* A rule with another address is a rule.
LEMMA RuleWithFrom ==
  ASSUME NEW r \in KernelRule, NEW a \in From
  PROVE  [r EXCEPT !.from = a] \in KernelRule
BY DEF KernelRule

\* Canonical changes addresses only.
LEMMA CanonicalType ==
  ASSUME NEW ks \in Seq(KernelRule)
  PROVE  /\ Canonical(ks) \in Seq(KernelRule)
         /\ Len(Canonical(ks)) = Len(ks)
<1>1. DOMAIN ks = 1..Len(ks) /\ Len(ks) \in Nat
  OBVIOUS
<1> DEFINE e(i) == [ks[i] EXCEPT !.from = Canon[ks[i].from]]
<1>2. Canonical(ks) = [i \in 1..Len(ks) |-> e(i)]
  BY <1>1 DEF Canonical
<1>3. \A i \in 1..Len(ks) : e(i) \in KernelRule
  <2> SUFFICES ASSUME NEW i \in 1..Len(ks) PROVE e(i) \in KernelRule
    OBVIOUS
  <2>1. ks[i] \in KernelRule
    BY <1>1
  <2>2. ks[i].from \in From
    BY <2>1 DEF KernelRule
  <2>3. Canon[ks[i].from] \in From
    BY <2>2, ConstantsAssumption
  <2> QED BY <2>1, <2>3, RuleWithFrom
<1> HIDE DEF e
<1>4. Canonical(ks) \in Seq(KernelRule)
  BY <1>1, <1>2, <1>3, IsASeq
<1>5. DOMAIN Canonical(ks) = 1..Len(ks)
  BY <1>2
<1> QED BY <1>1, <1>4, <1>5

-----------------------------------------------------------------------------
(* Merge                                                                    *)

\* One step of Merge at rule i, from what f has made of the rules behind it.
MergeStep(ks, hidden, f, i) ==
  IF i > Len(ks) THEN <<>>
  ELSE IF ks[i].from \in hidden THEN f[i + 1]
  ELSE IF i < Len(ks) /\ ks[i + 1].from \notin hidden /\ Twins(ks[i], ks[i + 1])
       THEN <<[ks[i] EXCEPT !.proto = "both"]>> \o f[i + 2]
       ELSE <<ks[i]>> \o f[i + 1]

\* The recursion of Merge: what it makes of the rules from the i-th on.
LEMMA MergeSteps ==
  ASSUME NEW ks, NEW hidden, Len(ks) \in Nat
  PROVE  \E f : /\ Merge(ks, hidden) = f[1]
                /\ \A i \in 1..Len(ks) + 2 : f[i] = MergeStep(ks, hidden, f, i)
<1> DEFINE N == Len(ks)
           IsM(f, m) == f = [i \in m..N + 2 |-> MergeStep(ks, hidden, f, i)]
           T == {k \in Nat : k > N \/ \E f : IsM(f, N + 1 - k)}
<1>0. N \in Nat
  OBVIOUS
<1>1. 0 \in T
  <2> DEFINE h == [i \in N + 1..N + 2 |-> <<>>]
  <2>1. \A i \in N + 1..N + 2 : MergeStep(ks, hidden, h, i) = <<>>
    BY <1>0 DEF MergeStep
  <2>2. IsM(h, N + 1)
    BY <2>1
  <2>3. N + 1 - 0 = N + 1
    BY <1>0
  <2> HIDE DEF IsM, h
  <2>4. \E f : IsM(f, N + 1 - 0)
    BY <2>2, <2>3
  <2> QED BY <2>4
<1>2. ASSUME NEW k \in T PROVE k + 1 \in T
  <2> DEFINE m == N - k
  <2>0. k \in Nat /\ k + 1 \in Nat
    OBVIOUS
  <2>1. CASE k + 1 > N
    BY <2>0, <2>1
  <2>2. CASE k + 1 <= N
    <3>1. /\ ~ (k > N) /\ N + 1 - k = m + 1 /\ N + 1 - (k + 1) = m
          /\ m \in Nat /\ m <= N
      BY <1>0, <2>0, <2>2
    <3>2. PICK g : IsM(g, N + 1 - k)
      BY <3>1
    <3>3. IsM(g, m + 1)
      BY <3>1, <3>2
    <3> HIDE DEF m
    <3> DEFINE h == [i \in m..N + 2 |-> MergeStep(ks, hidden, g, i)]
    <3>4. \A i \in m + 1..N + 2 : i \in m..N + 2 /\ h[i] = g[i]
      BY <1>0, <3>1, <3>3
    <3>5. ASSUME NEW i \in m..N + 2 PROVE MergeStep(ks, hidden, g, i) = MergeStep(ks, hidden, h, i)
      <4>1. CASE i > N
        BY <4>1 DEF MergeStep
      <4>2. CASE ~ (i > N)
        <5>1. i + 1 \in m + 1..N + 2 /\ i + 2 \in m + 1..N + 2
          BY <1>0, <3>1, <4>2
        <5>2. h[i + 1] = g[i + 1] /\ h[i + 2] = g[i + 2]
          BY <3>4, <5>1
        <5> HIDE DEF h
        <5> QED BY <5>2 DEF MergeStep
      <4> QED BY <4>1, <4>2
    <3>6. IsM(h, m)
      BY <3>5
    <3> HIDE DEF IsM, h
    <3>7. \E f : IsM(f, N + 1 - (k + 1))
      BY <3>1, <3>6
    <3> QED BY <2>0, <3>7
  <2> HIDE DEF T
  <2> QED BY <1>0, <2>0, <2>1, <2>2
<1>3. \A k \in Nat : k \in T
  <2> HIDE DEF T
  <2>1. T \in SUBSET Nat
    BY DEF T
  <2> QED BY <1>1, <1>2, <2>1, Induct
<1>4. \E f : IsM(f, 1)
  <2>1. N + 1 - N = 1 /\ ~ (N > N)
    BY <1>0
  <2>2. N \in T
    BY <1>0, <1>3
  <2>3. \E f : IsM(f, N + 1 - N)
    BY <2>1, <2>2
  <2> QED BY <2>1, <2>3
<1> DEFINE F == CHOOSE f : IsM(f, 1)
<1>5. IsM(F, 1)
  BY <1>4, Zenon
<1>6. Merge(ks, hidden) = F[1]
  BY DEF Merge, MergeStep
<1> HIDE DEF F
<1>7. \A i \in 1..Len(ks) + 2 : F[i] = MergeStep(ks, hidden, F, i)
  BY <1>5
<1> QED BY <1>6, <1>7

\* Induction the way Merge goes, from behind the last rule to the first.
LEMMA InductDown ==
  ASSUME NEW N \in Nat, NEW T,
         N + 1 \in T, N + 2 \in T,
         \A i \in 1..N : i + 1 \in T /\ i + 2 \in T => i \in T
  PROVE  \A i \in 1..N + 2 : i \in T
<1> DEFINE U == {k \in Nat : \A i \in 1..N + 2 : i + k >= N + 1 => i \in T}
<1>1. 0 \in U
  <2>1. \A i \in 1..N + 2 : i + 0 >= N + 1 => i = N + 1 \/ i = N + 2
    OBVIOUS
  <2> QED BY <2>1
<1>2. ASSUME NEW k \in U PROVE k + 1 \in U
  <2>0. k \in Nat /\ k + 1 \in Nat
    OBVIOUS
  <2> SUFFICES ASSUME NEW i \in 1..N + 2, i + (k + 1) >= N + 1 PROVE i \in T
    BY <2>0
  <2>1. CASE i > N
    <3>1. i = N + 1 \/ i = N + 2
      BY <2>1
    <3> QED BY <3>1
  <2>2. CASE i <= N
    <3>1. i \in 1..N
      BY <2>2
    <3>2. i + 1 \in 1..N + 2 /\ (i + 1) + k >= N + 1
      BY <2>0, <2>2
    <3>3. i + 2 \in 1..N + 2 /\ (i + 2) + k >= N + 1
      BY <2>0, <2>2
    <3>4. i + 1 \in T /\ i + 2 \in T
      BY <3>2, <3>3
    <3> QED BY <3>1, <3>4
  <2> QED BY <2>1, <2>2
<1>3. \A k \in Nat : k \in U
  <2> HIDE DEF U
  <2>1. U \in SUBSET Nat
    BY DEF U
  <2> QED BY <1>1, <1>2, <2>1, Induct
<1>4. \A i \in 1..N + 2 : i + N >= N + 1
  OBVIOUS
<1> QED BY <1>3, <1>4

LEMMA KernelRuleIsRule ==
  KernelRule \subseteq Rule /\ Seq(KernelRule) \subseteq Seq(Rule)
<1>1. KernelRule \subseteq Rule
  BY DEF KernelRule, Rule
<1> QED BY <1>1, SeqMonotonic

LEMMA RuleForBoth ==
  ASSUME NEW r \in KernelRule
  PROVE  [r EXCEPT !.proto = "both"] \in Rule
BY DEF KernelRule, Rule

\* What the kernel has reads back as a list of rules.
LEMMA MergeType ==
  ASSUME NEW ks \in Seq(KernelRule), NEW hidden
  PROVE  Merge(ks, hidden) \in Seq(Rule)
<1>0. Len(ks) \in Nat
  OBVIOUS
<1>1. PICK f : /\ Merge(ks, hidden) = f[1]
               /\ \A i \in 1..Len(ks) + 2 : f[i] = MergeStep(ks, hidden, f, i)
  BY <1>0, MergeSteps
<1> DEFINE T == {i \in 1..Len(ks) + 2 : f[i] \in Seq(Rule)}
<1>2. \A i \in {Len(ks) + 1, Len(ks) + 2} : i \in T
  <2> SUFFICES ASSUME NEW i \in {Len(ks) + 1, Len(ks) + 2} PROVE i \in T
    OBVIOUS
  <2>1. i \in 1..Len(ks) + 2 /\ i > Len(ks)
    BY <1>0
  <2>2. f[i] = <<>>
    BY <1>1, <2>1 DEF MergeStep
  <2>3. <<>> \in Seq(Rule)
    OBVIOUS
  <2> QED BY <2>1, <2>2, <2>3
<1>3. ASSUME NEW i \in 1..Len(ks), i + 1 \in T, i + 2 \in T PROVE i \in T
  <2>1. i \in 1..Len(ks) + 2 /\ ~ (i > Len(ks))
    BY <1>0
  <2>2. f[i + 1] \in Seq(Rule) /\ f[i + 2] \in Seq(Rule)
    BY <1>3
  <2>3. ks[i] \in KernelRule
    OBVIOUS
  <2>4. <<[ks[i] EXCEPT !.proto = "both"]>> \in Seq(Rule) /\ <<ks[i]>> \in Seq(Rule)
    <3>1. [ks[i] EXCEPT !.proto = "both"] \in Rule /\ ks[i] \in Rule
      BY <2>3, RuleForBoth, KernelRuleIsRule
    <3> QED BY <3>1
  <2>5. \/ f[i] = <<[ks[i] EXCEPT !.proto = "both"]>> \o f[i + 2]
        \/ f[i] = <<ks[i]>> \o f[i + 1]
        \/ f[i] = f[i + 1]
    BY <1>1, <2>1 DEF MergeStep
  <2>6. f[i] \in Seq(Rule)
    BY <2>2, <2>4, <2>5, ConcatProperties
  <2> QED BY <2>1, <2>6
<1>4. \A i \in 1..Len(ks) + 2 : i \in T
  <2> HIDE DEF T
  <2> QED BY <1>0, <1>2, <1>3, InductDown
<1>5. 1 \in 1..Len(ks) + 2
  BY <1>0
<1> QED BY <1>1, <1>4, <1>5

-----------------------------------------------------------------------------
(* Merge undoes Expand                                                      *)

\* The first rule expands in front of the others.
LEMMA ExpandOfCons ==
  ASSUME NEW r \in Rule, NEW rs \in Seq(Rule)
  PROVE  Expand(<<r>> \o rs) = OfRule(r) \o Expand(rs)
<1> DEFINE all == <<r>> \o rs
<1>0. <<r>> \in Seq(Rule) /\ Len(<<r>>) = 1 /\ Len(rs) \in Nat /\ <<r>>[1] = r
  OBVIOUS
<1>1. /\ all \in Seq(Rule) /\ Len(all) = 1 + Len(rs)
      /\ \A i \in 1..1 + Len(rs) : all[i] = IF i <= 1 THEN <<r>>[i] ELSE rs[i - 1]
  BY <1>0, ConcatProperties
<1>2. all[1] = r
  BY <1>0, <1>1
<1>3. \A i \in 1..Len(rs) : all[i + 1] = rs[i]
  <2> SUFFICES ASSUME NEW i \in 1..Len(rs) PROVE all[i + 1] = rs[i]
    OBVIOUS
  <2>1. i + 1 \in 1..1 + Len(rs) /\ ~ (i + 1 <= 1) /\ i + 1 - 1 = i
    BY <1>0
  <2> QED BY <1>1, <2>1
<1> HIDE DEF all
<1>4. PICK g : /\ Expand(all) = g[Len(all)]
               /\ g[0] = <<>>
               /\ \A n \in 1..Len(all) : g[n] = g[n - 1] \o OfRule(all[n])
  BY <1>1, ExpandSteps
<1>5. PICK f : /\ Expand(rs) = f[Len(rs)]
               /\ f[0] = <<>>
               /\ \A n \in 1..Len(rs) : f[n] = f[n - 1] \o OfRule(rs[n])
  BY ExpandSteps
<1>6. OfRule(r) \in Seq(KernelRule)
  BY OfRuleType
<1> DEFINE U == {n \in Nat : n <= Len(rs) =>
                   f[n] \in Seq(KernelRule) /\ g[n + 1] = OfRule(r) \o f[n]}
<1>7. 0 \in U
  <2>1. 1 \in 1..Len(all) /\ 1 - 1 = 0
    BY <1>0, <1>1
  <2>2. g[1] = g[0] \o OfRule(all[1])
    BY <1>4, <2>1
  <2>3. g[1] = <<>> \o OfRule(r)
    BY <1>2, <1>4, <2>2
  <2>4. <<>> \o OfRule(r) = OfRule(r) /\ OfRule(r) \o <<>> = OfRule(r)
    BY <1>6, ConcatEmptySeq
  <2>5. <<>> \in Seq(KernelRule)
    OBVIOUS
  <2>6. 0 + 1 = 1
    OBVIOUS
  <2>7. g[0 + 1] = OfRule(r) \o f[0]
    BY <1>5, <2>3, <2>4, <2>6
  <2> QED BY <1>5, <2>5, <2>7
<1>8. ASSUME NEW n \in U PROVE n + 1 \in U
  <2> DEFINE m == n + 1
             k == m + 1
  <2> SUFFICES ASSUME m <= Len(rs) PROVE f[m] \in Seq(KernelRule) /\ g[k] = OfRule(r) \o f[m]
    OBVIOUS
  <2>1. n \in Nat /\ m \in 1..Len(rs) /\ m - 1 = n /\ n <= Len(rs)
    BY <1>0
  <2>2. k \in 1..Len(all) /\ k - 1 = m
    BY <1>0, <1>1, <2>1
  <2>3. all[k] = rs[m]
    BY <1>3, <2>1
  <2>4. f[n] \in Seq(KernelRule) /\ g[m] = OfRule(r) \o f[n]
    BY <2>1
  <2> HIDE DEF k
  <2> HIDE DEF m
  <2>5. f[m] = f[n] \o OfRule(rs[m])
    BY <1>5, <2>1
  <2>6. OfRule(rs[m]) \in Seq(KernelRule)
    BY <2>1, OfRuleType
  <2>7. f[m] \in Seq(KernelRule)
    BY <2>4, <2>5, <2>6, ConcatProperties
  <2>8. g[k] = (OfRule(r) \o f[n]) \o OfRule(rs[m])
    BY <1>4, <2>2, <2>3, <2>4
  <2>9. (OfRule(r) \o f[n]) \o OfRule(rs[m]) = OfRule(r) \o (f[n] \o OfRule(rs[m]))
    <3> DEFINE x == OfRule(r)
               y == f[n]
               z == OfRule(rs[m])
    <3>1. x \in Seq(KernelRule) /\ y \in Seq(KernelRule) /\ z \in Seq(KernelRule)
      BY <1>6, <2>4, <2>6
    <3> HIDE DEF x, y, z
    <3>2. (x \o y) \o z = x \o (y \o z)
      BY <3>1, ConcatAssociative
    <3> QED BY <3>2 DEF x, y, z
  <2> QED BY <2>5, <2>7, <2>8, <2>9
<1>9. \A n \in Nat : n \in U
  <2> HIDE DEF U
  <2>1. U \in SUBSET Nat
    BY DEF U
  <2> QED BY <1>7, <1>8, <2>1, Induct
<1>10. Len(all) = Len(rs) + 1
  BY <1>0, <1>1
<1>11. g[Len(rs) + 1] = OfRule(r) \o f[Len(rs)]
  BY <1>0, <1>9
<1>12. Expand(all) = OfRule(r) \o Expand(rs)
  BY <1>4, <1>5, <1>10, <1>11
<1> QED BY <1>12 DEF all

\* A rule of one protocol stands for itself.
LEMMA OfOneProto ==
  ASSUME NEW r \in KernelRule
  PROVE  OfRule(r) = <<r>>
<1>1. r.proto \in Proto /\ protosOf(r.proto) = <<r.proto>>
  BY DEF KernelRule, Proto, protosOf
<1>2. OfRule(r) = [i \in 1..1 |-> [r EXCEPT !.proto = <<r.proto>>[i]]]
  BY <1>1 DEF OfRule
<1>3. [r EXCEPT !.proto = r.proto] = r
  BY DEF KernelRule
<1>4. OfRule(r) = [i \in 1..1 |-> r]
  BY <1>2, <1>3
<1> QED BY <1>4

\* A rule for both protocols stands for the twins it was merged from.
LEMMA OfTwins ==
  ASSUME NEW a \in KernelRule, NEW b \in KernelRule, Twins(a, b)
  PROVE  OfRule([a EXCEPT !.proto = "both"]) = <<a, b>>
<1> DEFINE r == [a EXCEPT !.proto = "both"]
<1>1. r.proto = "both"
  BY DEF KernelRule
<1>2. [r EXCEPT !.proto = "tcp"] = a
  BY DEF KernelRule, Twins
<1>3. [r EXCEPT !.proto = "udp"] = b
  BY DEF KernelRule, Twins
<1> HIDE DEF r
<1>4. protosOf(r.proto) = <<"tcp", "udp">>
  BY <1>1 DEF protosOf
<1>5. OfRule(r) = [i \in 1..2 |-> [r EXCEPT !.proto = <<"tcp", "udp">>[i]]]
  BY <1>4 DEF OfRule
<1>6. \A i \in 1..2 : [r EXCEPT !.proto = <<"tcp", "udp">>[i]] = <<a, b>>[i]
  BY <1>2, <1>3
<1>7. OfRule(r) = [i \in 1..2 |-> <<a, b>>[i]]
  BY <1>5, <1>6
<1> QED BY <1>7 DEF r

LEMMA PairOf ==
  ASSUME NEW a, NEW b
  PROVE  <<a>> \o <<b>> = <<a, b>>
<1> DEFINE x == <<a>>
           y == <<b>>
           z == <<a, b>>
<1>1. /\ x \in Seq({a, b}) /\ Len(x) = 1 /\ x[1] = a
      /\ y \in Seq({a, b}) /\ Len(y) = 1 /\ y[1] = b
      /\ z \in Seq({a, b}) /\ Len(z) = 2 /\ z[1] = a /\ z[2] = b
  OBVIOUS
<1> HIDE DEF x, y, z
<1>2. /\ x \o y \in Seq({a, b}) /\ Len(x \o y) = 2
      /\ \A i \in 1..2 : (x \o y)[i] = IF i <= 1 THEN x[i] ELSE y[i - 1]
  BY <1>1, ConcatProperties
<1>3. (x \o y)[1] = a /\ (x \o y)[2] = b
  BY <1>1, <1>2
<1>4. x \o y = z
  BY <1>1, <1>2, <1>3, SeqEqual
<1> QED BY <1>4 DEF x, y, z

\* Merging twins and writing each merged rule for both protocols again gives the
\* rules there were, whatever stands next to what.
LEMMA ExpandOfMerge ==
  ASSUME NEW ks \in Seq(KernelRule)
  PROVE  Expand(Merge(ks, {})) = ks
<1> DEFINE N == Len(ks)
           Rest(i) == SubSeq(ks, i, N)
<1>0. N \in Nat /\ DOMAIN ks = 1..N
  OBVIOUS
<1>1. PICK f : /\ Merge(ks, {}) = f[1]
               /\ \A i \in 1..N + 2 : f[i] = MergeStep(ks, {}, f, i)
  BY <1>0, MergeSteps
<1> DEFINE T == {i \in 1..N + 2 : f[i] \in Seq(Rule) /\ Expand(f[i]) = Rest(i)}
<1>2. \A i \in {N + 1, N + 2} : i \in T
  <2> SUFFICES ASSUME NEW i \in {N + 1, N + 2} PROVE i \in T
    OBVIOUS
  <2>1. i \in 1..N + 2 /\ i > Len(ks) /\ i \in Int /\ N < i
    BY <1>0
  <2>2. f[i] = <<>>
    BY <1>1, <2>1 DEF MergeStep
  <2>3. Rest(i) = <<>>
    BY <1>0, <2>1, SubSeqEmpty
  <2>4. <<>> \in Seq(Rule) /\ Len(<<>>) = 0
    OBVIOUS
  <2>5. Expand(<<>>) = <<>>
    <3>1. PICK g : Expand(<<>>) = g[Len(<<>>)] /\ g[0] = <<>>
      BY <2>4, ExpandSteps
    <3> QED BY <2>4, <3>1
  <2> QED BY <2>1, <2>2, <2>3, <2>4, <2>5
<1>3. \A i \in 1..N + 1 : Rest(i) \in Seq(KernelRule)
  <2> SUFFICES ASSUME NEW i \in 1..N + 1 PROVE Rest(i) \in Seq(KernelRule)
    OBVIOUS
  <2>1. i \in Int /\ N \in Int /\ \A j \in i..N : ks[j] \in KernelRule
    BY <1>0
  <2> QED BY <2>1, SubSeqProperties
<1>4. \A i \in 1..N : Rest(i) = <<ks[i]>> \o Rest(i + 1)
  <2> SUFFICES ASSUME NEW i \in 1..N PROVE Rest(i) = <<ks[i]>> \o Rest(i + 1)
    OBVIOUS
  <2>1. N \in i..N
    BY <1>0
  <2> QED BY <1>0, <2>1, SubSeqRecursiveFirst
<1>5. ASSUME NEW i \in 1..N, i + 1 \in T, i + 2 \in T PROVE i \in T
  <2>0. i \in 1..N + 2 /\ ~ (i > N) /\ i \in Nat /\ ks[i] \in KernelRule
        /\ ks[i].from \notin {}
    BY <1>0
  <2>1. f[i + 1] \in Seq(Rule) /\ Expand(f[i + 1]) = Rest(i + 1)
    BY <1>5
  <2>2. f[i + 2] \in Seq(Rule) /\ Expand(f[i + 2]) = Rest(i + 2)
    BY <1>5
  <2>3. CASE i < N /\ Twins(ks[i], ks[i + 1])
    <3> DEFINE b == [ks[i] EXCEPT !.proto = "both"]
    <3>1. f[i] = <<b>> \o f[i + 2]
      BY <1>1, <2>0, <2>3 DEF MergeStep
    <3>2. b \in Rule /\ <<b>> \in Seq(Rule)
      BY <2>0, RuleForBoth
    <3>3. f[i] \in Seq(Rule)
      BY <2>2, <3>1, <3>2, ConcatProperties
    <3>4. i + 1 \in 1..N /\ i + 1 + 1 = i + 2 /\ i + 2 \in 1..N + 1 /\ ks[i + 1] \in KernelRule
      BY <1>0, <2>0, <2>3
    <3>5. OfRule(b) = <<ks[i], ks[i + 1]>>
      BY <2>0, <2>3, <3>4, OfTwins
    <3>6. Rest(i) = <<ks[i]>> \o (<<ks[i + 1]>> \o Rest(i + 2))
      BY <1>4, <3>4
    <3>7. <<ks[i]>> \in Seq(KernelRule) /\ <<ks[i + 1]>> \in Seq(KernelRule)
      BY <2>0, <3>4
    <3>8. <<ks[i]>> \o <<ks[i + 1]>> = <<ks[i], ks[i + 1]>>
      BY PairOf
    <3>9. Rest(i + 2) \in Seq(KernelRule)
      BY <1>3, <3>4
    <3> HIDE DEF b, Rest
    <3>10. Rest(i) = <<ks[i], ks[i + 1]>> \o Rest(i + 2)
      BY <3>6, <3>7, <3>8, <3>9, ConcatAssociative
    <3>11. Expand(f[i]) = OfRule(b) \o Expand(f[i + 2])
      BY <2>2, <3>1, <3>2, ExpandOfCons
    <3> QED BY <2>0, <2>2, <3>3, <3>5, <3>10, <3>11
  <2>4. CASE ~ (i < N /\ Twins(ks[i], ks[i + 1]))
    <3>1. f[i] = <<ks[i]>> \o f[i + 1]
      BY <1>1, <2>0, <2>4 DEF MergeStep
    <3>2. ks[i] \in Rule /\ <<ks[i]>> \in Seq(Rule)
      BY <2>0, KernelRuleIsRule
    <3>3. f[i] \in Seq(Rule)
      BY <2>1, <3>1, <3>2, ConcatProperties
    <3>4. Expand(f[i]) = OfRule(ks[i]) \o Expand(f[i + 1])
      BY <2>1, <3>1, <3>2, ExpandOfCons
    <3>5. OfRule(ks[i]) = <<ks[i]>>
      BY <2>0, OfOneProto
    <3>6. Rest(i) = <<ks[i]>> \o Rest(i + 1)
      BY <1>4
    <3> HIDE DEF Rest
    <3>7. Expand(f[i]) = Rest(i)
      BY <2>1, <3>4, <3>5, <3>6
    <3> QED BY <2>0, <3>3, <3>7
  <2> QED BY <2>3, <2>4
<1>6. \A i \in 1..N + 2 : i \in T
  <2> HIDE DEF T
  <2> QED BY <1>0, <1>2, <1>5, InductDown
<1>7. 1 \in 1..N + 2
  BY <1>0
<1>8. Rest(1) = ks
  BY <1>0, SubSeqFull
<1> QED BY <1>1, <1>6, <1>7, <1>8

\* An address in the kernel's form stays as it is.
CanonicalList(ks) == \A i \in DOMAIN ks : Canon[ks[i].from] = ks[i].from

LEMMA CanonicalOfCanonical ==
  ASSUME NEW ks \in Seq(KernelRule)
  PROVE  /\ CanonicalList(Canonical(ks))
         /\ CanonicalList(ks) => Canonical(ks) = ks
<1>1. DOMAIN ks = 1..Len(ks) /\ Len(ks) \in Nat /\ \A i \in DOMAIN ks : ks[i] \in KernelRule
  OBVIOUS
<1>2. CanonicalList(Canonical(ks))
  <2> SUFFICES ASSUME NEW i \in DOMAIN ks
      PROVE Canon[Canonical(ks)[i].from] = Canonical(ks)[i].from
    BY DEF CanonicalList, Canonical
  <2>1. ks[i] \in KernelRule /\ ks[i].from \in From
    BY <1>1 DEF KernelRule
  <2>2. Canonical(ks)[i] = [ks[i] EXCEPT !.from = Canon[ks[i].from]]
    BY DEF Canonical
  <2>3. Canonical(ks)[i].from = Canon[ks[i].from]
    BY <2>1, <2>2 DEF KernelRule
  <2> QED BY <2>1, <2>3, ConstantsAssumption
<1>3. ASSUME CanonicalList(ks) PROVE Canonical(ks) = ks
  <2>1. ASSUME NEW i \in DOMAIN ks
        PROVE  [ks[i] EXCEPT !.from = Canon[ks[i].from]] = ks[i]
    <3>1. ks[i] \in KernelRule /\ Canon[ks[i].from] = ks[i].from
      BY <1>1, <1>3 DEF CanonicalList
    <3>2. [ks[i] EXCEPT !.from = ks[i].from] = ks[i]
      BY <3>1 DEF KernelRule
    <3> QED BY <3>1, <3>2
  <2>2. Canonical(ks) = [i \in DOMAIN ks |-> ks[i]]
    BY <2>1 DEF Canonical
  <2>3. ks = [i \in DOMAIN ks |-> ks[i]]
    BY <1>1
  <2> QED BY <2>2, <2>3
<1> QED BY <1>2, <1>3

-----------------------------------------------------------------------------
(* The types of the operators the calls are built from                      *)

LEMMA StateType ==
  /\ \A s \in State : s.on \in BOOLEAN /\ s.rules \in Seq(KernelRule)
  /\ \A b \in BOOLEAN, ks \in Seq(KernelRule) : [on |-> b, rules |-> ks] \in State
  /\ NoTable \notin State /\ Missing \notin State /\ Foreign \notin State /\ Torn \notin State
  /\ Missing # Torn /\ Foreign # Torn
<1>1. State = [on : BOOLEAN, rules : Seq(KernelRule)]
  BY DEF State, KernelRules, KernelRule
<1>2. \A s \in State : DOMAIN s = {"on", "rules"}
  BY <1>1
<1>3. \A x \in {NoTable, Missing, Foreign, Torn} : DOMAIN x = {"none"}
  BY DEF NoTable, Missing, Foreign, Torn
<1>4. {"none"} # {"on", "rules"}
  OBVIOUS
<1>5. Missing.none = "file" /\ Foreign.none = "gopit" /\ Torn.none = "complete"
  BY DEF Missing, Foreign, Torn
<1> QED BY <1>1, <1>2, <1>3, <1>4, <1>5

LEMMA TmpType ==
  /\ \A t \in [file : State, synced : BOOLEAN] : t # NoTmp
  /\ \A f \in State, b \in BOOLEAN : [file |-> f, synced |-> b] \in [file : State, synced : BOOLEAN]
<1>1. \A t \in [file : State, synced : BOOLEAN] : DOMAIN t = {"file", "synced"}
  OBVIOUS
<1>2. DOMAIN NoTmp = {"tmp"} \/ DOMAIN NoTmp = {"none"}
  BY DEF NoTmp
<1>3. {"tmp"} # {"file", "synced"} /\ {"none"} # {"file", "synced"}
  OBVIOUS
<1> QED BY <1>1, <1>2, <1>3

LEMMA EmitType ==
  ASSUME NEW rs \in Seq(Rule)
  PROVE  Expand(rs) \in Seq(KernelRule) /\ emitRules(rs) \in Seq(KernelRule)
BY ExpandType, CanonicalType DEF emitRules

LEMMA LoadType ==
  ASSUME NEW file \in State \union {Missing, Foreign}
  PROVE  loadConf(file).on \in BOOLEAN /\ loadConf(file).rules \in Seq(Rule)
<1>1. CASE file \in {Missing, Foreign}
  <2>1. loadConf(file) = [on |-> FALSE, rules |-> <<>>]
    BY <1>1 DEF loadConf
  <2>2. <<>> \in Seq(Rule)
    OBVIOUS
  <2> QED BY <2>1, <2>2
<1>2. CASE file \notin {Missing, Foreign}
  <2>1. file \in State
    BY <1>2
  <2>2. loadConf(file) = [on |-> file.on, rules |-> Merge(file.rules, {})]
    BY <1>2 DEF loadConf, mergeClumped
  <2> QED BY <2>1, <2>2, StateType, MergeType
<1> QED BY <1>1, <1>2

\* The rules a listing numbers are rules.
LEMMA SeenType ==
  ASSUME table \in State
  PROVE  Seen \in Seq(Rule)
BY StateType, MergeType DEF Seen, kernelRulesToLrules

LEMMA RemoveAtType ==
  ASSUME NEW rs \in Seq(Rule), NEW n \in Nat, 1 <= n, n <= Len(rs)
  PROVE  RemoveAt(rs, n) \in Seq(Rule)
<1>1. Len(rs) \in Nat /\ Len(rs) - 1 \in Nat
  OBVIOUS
<1>2. \A i \in 1..Len(rs) - 1 : (IF i < n THEN rs[i] ELSE rs[i + 1]) \in Rule
  <2> SUFFICES ASSUME NEW i \in 1..Len(rs) - 1
      PROVE (IF i < n THEN rs[i] ELSE rs[i + 1]) \in Rule
    OBVIOUS
  <2>1. i \in 1..Len(rs) /\ i + 1 \in 1..Len(rs)
    BY <1>1
  <2> QED BY <2>1
<1> QED BY <1>1, <1>2, IsASeq DEF RemoveAt

LEMMA OpType ==
  ASSUME NEW op \in Op
  PROVE  /\ op.kind = "add" => op.rule \in Rule
         /\ op.kind = "delete" => op.n \in Nat /\ 1 <= op.n
         /\ op.kind = "toggle" => op.to \in BOOLEAN
<1>1. Offered \subseteq Rule /\ MaxNumber \in Nat
  BY ConstantsAssumption
<1>2. CASE op \in [kind : {"list"}]
  BY <1>2
<1>3. CASE op \in [kind : {"add"}, rule : Offered]
  BY <1>1, <1>3
<1>4. CASE op \in [kind : {"delete"}, n : 1..MaxNumber]
  BY <1>1, <1>4
<1>5. CASE op \in [kind : {"toggle"}, to : BOOLEAN]
  BY <1>5
<1> QED BY <1>2, <1>3, <1>4, <1>5 DEF Op

LEMMA ChangedType ==
  ASSUME NEW op \in Op, Mutates(op), NEW on \in BOOLEAN, NEW rs \in Seq(Rule),
         op.kind = "delete" => op.n <= Len(rs)
  PROVE  /\ Changed(op, on, rs).on \in BOOLEAN
         /\ Changed(op, on, rs).rules \in Seq(Rule)
         /\ Changed(op, on, rs) = [on |-> Changed(op, on, rs).on, rules |-> Changed(op, on, rs).rules]
<1>1. CASE op.kind = "add"
  <2>1. Changed(op, on, rs) = [on |-> on, rules |-> Append(rs, op.rule)]
    BY <1>1 DEF Changed
  <2>2. Append(rs, op.rule) \in Seq(Rule)
    BY <1>1, OpType, AppendProperties
  <2> QED BY <2>1, <2>2
<1>2. CASE op.kind = "delete"
  <2>1. Changed(op, on, rs) = [on |-> on, rules |-> RemoveAt(rs, op.n)]
    BY <1>2 DEF Changed
  <2>2. RemoveAt(rs, op.n) \in Seq(Rule)
    BY <1>2, OpType, RemoveAtType
  <2> QED BY <2>1, <2>2
<1>3. CASE op.kind = "toggle"
  <2>1. Changed(op, on, rs) = [on |-> op.to, rules |-> rs]
    BY <1>3 DEF Changed
  <2>2. op.to \in BOOLEAN
    BY <1>3, OpType
  <2> QED BY <2>1, <2>2
<1> QED BY <1>1, <1>2, <1>3 DEF Mutates

-----------------------------------------------------------------------------
(* The inductive invariant                                                  *)

CallRecord == [at : Steps, op : Op \union {NoOp}, on : BOOLEAN, rules : Seq(Rule)]

\* Past its Lock a call holds the mutex.
Inside(c) == call[c].at \notin {"idle", "lock"}
Exclusive == \A c \in Client : Inside(c) => mu = c

\* While a call writes the file, the table is still what it has applied, or gone.
Writing(c) == At(c, "persist") \/ At(c, "sync") \/ At(c, "rename")
Applied(c) ==
  \/ table = NoTable
  \/ table = [on |-> call[c].on, rules |-> emitRules(call[c].rules)]

\* What each call relies on between two of its steps.
CallInv(c) ==
  /\ Writing(c) => saved = "no" /\ Applied(c)
  /\ At(c, "sync") \/ At(c, "rename") =>
       /\ tmp # NoTmp
       /\ tmp.file = renderConf(call[c].on, call[c].rules)
  /\ At(c, "rename") => tmp.synced
  /\ At(c, "syncdir") => saved # "no"
  /\ At(c, "apply") =>
       /\ Mutates(call[c].op)
       /\ table # NoTable =>
            [on |-> call[c].on, rules |-> call[c].rules] = Changed(call[c].op, table.on, Seen)

\* The file against the table and against the disk.
FileInv ==
  /\ Torn \notin disk
  /\ saved = "synced" => disk = {conf}
  /\ saved # "no" /\ table # NoTable =>
       /\ conf \notin {Missing, Foreign}
       /\ table = [on |-> conf.on, rules |-> Canonical(conf.rules)]

\* The kernel has addresses in its own form.
TableInv == table # NoTable => CanonicalList(table.rules)

Inv ==
  /\ TypeOK
  /\ Exclusive
  /\ \A c \in Client : CallInv(c)
  /\ FileInv

-----------------------------------------------------------------------------
(* How a step moves its call                                                *)

\* Call c goes on to another step with this operation and list, alone.
Moves(c, at, op, on, rs) ==
  /\ call' \in [Client -> CallRecord]
  /\ call'[c].at = at /\ call'[c].op = op /\ call'[c].on = on /\ call'[c].rules = rs
  /\ \A d \in Client \ {c} : call'[d] = call[d]

LEMMA CallTyped ==
  ASSUME TypeOK
  PROVE  call \in [Client -> CallRecord]
BY DEF TypeOK, CallRecord

LEMMA GoMoves ==
  ASSUME TypeOK, NEW c \in Client, NEW at \in Steps, Go(c, at)
  PROVE  Moves(c, at, call[c].op, call[c].on, call[c].rules)
<1>1. call \in [Client -> CallRecord] /\ call[c] \in CallRecord
  BY CallTyped
<1>2. call' = [call EXCEPT ![c] = [call[c] EXCEPT !.at = at]]
  BY DEF Go
<1>3. [call[c] EXCEPT !.at = at] =
        [at |-> at, op |-> call[c].op, on |-> call[c].on, rules |-> call[c].rules]
  BY <1>1 DEF CallRecord
<1>4. [call[c] EXCEPT !.at = at] \in CallRecord
  BY <1>1 DEF CallRecord
<1> QED BY <1>1, <1>2, <1>3, <1>4 DEF Moves

LEMMA GoWithMoves ==
  ASSUME TypeOK, NEW c \in Client, NEW at \in Steps, NEW s, s.on \in BOOLEAN,
         s.rules \in Seq(Rule), GoWith(c, at, s)
  PROVE  Moves(c, at, call[c].op, s.on, s.rules)
<1>1. call \in [Client -> CallRecord] /\ call[c] \in CallRecord
  BY CallTyped
<1> DEFINE e == [call[c] EXCEPT !.at = at, !.on = s.on, !.rules = s.rules]
<1>2. call' = [call EXCEPT ![c] = e]
  BY DEF GoWith
<1>3. e.at = at /\ e.op = call[c].op /\ e.on = s.on /\ e.rules = s.rules
  BY <1>1 DEF CallRecord
<1>4. e \in CallRecord
  BY <1>1 DEF CallRecord
<1> HIDE DEF e
<1> QED BY <1>1, <1>2, <1>3, <1>4 DEF Moves

LEMMA IdleType == Idle \in CallRecord
<1>1. <<>> \in Seq(Rule) /\ "idle" \in Steps
  BY DEF Steps
<1> QED BY <1>1 DEF Idle, CallRecord

LEMMA ReturnMoves ==
  ASSUME TypeOK, NEW c \in Client, Return(c)
  PROVE  mu' = Free /\ Moves(c, "idle", NoOp, FALSE, <<>>)
<1>1. call \in [Client -> CallRecord] /\ call[c] \in CallRecord
  BY CallTyped
<1>2. call' = [call EXCEPT ![c] = Idle] /\ mu' = Free
  BY DEF Return
<1> QED BY <1>1, <1>2, IdleType DEF Moves, Idle

\* What a call inside the mutex does touches no other call, whatever it changes.
LEMMA AloneInside ==
  ASSUME TypeOK, Exclusive, NEW c \in Client, Inside(c),
         NEW at, NEW op, NEW on, NEW rs, Moves(c, at, op, on, rs),
         at = "idle" \/ mu' = c
  PROVE  Exclusive' /\ \A d \in Client \ {c} : CallInv(d)'
<1>1. \A d \in Client \ {c} : call[d].at \in {"idle", "lock"}
  BY DEF Exclusive, Inside
<1>2. \A d \in Client \ {c} : call'[d].at \in {"idle", "lock"}
  BY <1>1 DEF Moves
<1>3. Exclusive'
  BY <1>2 DEF Exclusive, Inside, Moves
<1>4. \A d \in Client \ {c} : CallInv(d)'
  <2> SUFFICES ASSUME NEW d \in Client \ {c} PROVE CallInv(d)'
    OBVIOUS
  <2>1. call'[d].at = "idle" \/ call'[d].at = "lock"
    BY <1>2
  <2> QED BY <2>1 DEF CallInv, Writing, At
<1> QED BY <1>3, <1>4

\* A call that is idle or waits for the mutex relies on nothing.
LEMMA OutsideInv ==
  ASSUME NEW c \in Client, call'[c].at \in {"idle", "lock"}
  PROVE  CallInv(c)'
BY DEF CallInv, Writing, At

\* The calls read nothing but these.
LEMMA CallInvStays ==
  ASSUME NEW c \in Client, CallInv(c), call'[c] = call[c],
         UNCHANGED <<table, byNft, tmp, saved>>
  PROVE  CallInv(c)'
BY DEF CallInv, Writing, Applied, At, Seen, kernelRulesToLrules, Undecodable

LEMMA FileInvStays ==
  ASSUME FileInv, UNCHANGED <<table, byNft, conf, disk, saved>>
  PROVE  FileInv'
BY DEF FileInv

-----------------------------------------------------------------------------
(* The steps keep the invariant                                             *)

\* A call inside the mutex moves on and changes nothing that others see.
LEMMA QuietStep ==
  ASSUME Inv, NEW c \in Client, Inside(c),
         NEW at, NEW op, NEW on, NEW rs, Moves(c, at, op, on, rs),
         (at = "idle" /\ mu' = Free) \/ mu' = c, CallInv(c)',
         UNCHANGED <<table, byNft, shadowed, fileVars, calls, saved>>
  PROVE  Inv'
<1>1. TypeOK'
  BY DEF Inv, TypeOK, Moves, CallRecord, fileVars
<1>2. Exclusive' /\ \A d \in Client \ {c} : CallInv(d)'
  BY AloneInside DEF Inv
<1>3. FileInv'
  BY FileInvStays DEF Inv, fileVars
<1> QED BY <1>1, <1>2, <1>3 DEF Inv

LEMMA ReturnStep ==
  ASSUME Inv, NEW c \in Client, Inside(c), Return(c),
         UNCHANGED <<table, byNft, shadowed, fileVars, calls, saved>>
  PROVE  Inv'
<1>1. mu' = Free /\ Moves(c, "idle", NoOp, FALSE, <<>>)
  BY ReturnMoves DEF Inv
<1>2. CallInv(c)'
  BY <1>1, OutsideInv DEF Moves
<1> QED BY <1>1, <1>2, QuietStep

\* After the file is written a call returns or goes on to read.
LEMMA PersistedMoves ==
  ASSUME Inv, NEW c \in Client, Inside(c), Persisted(c)
  PROVE  \/ mu' = Free /\ Moves(c, "idle", NoOp, FALSE, <<>>)
         \/ mu' = c /\ Moves(c, "read", call[c].op, FALSE, <<>>)
<1>1. CASE call[c].op = NoOp
  BY <1>1, ReturnMoves DEF Inv, Persisted
<1>2. CASE call[c].op # NoOp
  <2> DEFINE s == [on |-> FALSE, rules |-> <<>>]
  <2>1. GoWith(c, "read", s) /\ mu' = mu
    BY <1>2 DEF Persisted
  <2>2. mu = c
    BY DEF Inv, Exclusive
  <2>3. s.on \in BOOLEAN /\ s.rules \in Seq(Rule)
    <3>1. <<>> \in Seq(Rule)
      OBVIOUS
    <3> QED BY <3>1
  <2>4. "read" \in Steps /\ TypeOK
    BY DEF Steps, Inv
  <2>5. s.on = FALSE /\ s.rules = <<>>
    OBVIOUS
  <2> HIDE DEF s
  <2>6. Moves(c, "read", call[c].op, s.on, s.rules)
    BY <2>1, <2>3, <2>4, GoWithMoves
  <2> QED BY <2>1, <2>2, <2>5, <2>6
<1> QED BY <1>1, <1>2

LEMMA ReadingInv ==
  ASSUME NEW c \in Client, call'[c].at = "read"
  PROVE  CallInv(c)'
BY DEF CallInv, Writing, At

LEMMA BeginKeeps ==
  ASSUME Inv, NEW c \in Client, Begin(c)
  PROVE  Inv'
<1>1. call \in [Client -> CallRecord] /\ call[c] \in CallRecord
  BY CallTyped DEF Inv
<1>2. PICK op \in Op : call' = [call EXCEPT ![c] = [call[c] EXCEPT !.at = "lock", !.op = op]]
  BY DEF Begin
<1> DEFINE e == [call[c] EXCEPT !.at = "lock", !.op = op]
<1>3. e \in CallRecord /\ e.at = "lock"
  BY <1>1 DEF CallRecord, Steps
<1>4. call' = [call EXCEPT ![c] = e]
  BY <1>2
<1> HIDE DEF e
<1>5. /\ call' \in [Client -> CallRecord] /\ call'[c].at = "lock"
      /\ \A d \in Client \ {c} : call'[d] = call[d]
  BY <1>1, <1>3, <1>4
<1>6. UNCHANGED <<table, byNft, shadowed, conf, disk, tmp, mu, saved>>
  BY DEF Begin, fileVars
<1>7. TypeOK'
  <2>1. calls' \in 0..MaxCalls
    BY ConstantsAssumption DEF Begin, Inv, TypeOK
  <2> QED BY <1>5, <1>6, <2>1 DEF Inv, TypeOK, CallRecord
<1>8. Exclusive'
  BY <1>5, <1>6 DEF Inv, Exclusive, Inside
<1>9. \A d \in Client : CallInv(d)'
  <2>1. CallInv(c)'
    BY <1>5, OutsideInv
  <2>2. \A d \in Client \ {c} : CallInv(d)'
    BY <1>5, <1>6, CallInvStays DEF Inv
  <2> QED BY <2>1, <2>2
<1>10. FileInv'
  BY <1>6, FileInvStays DEF Inv
<1> QED BY <1>7, <1>8, <1>9, <1>10 DEF Inv

LEMMA LockKeeps ==
  ASSUME Inv, NEW c \in Client, Lock(c)
  PROVE  Inv'
<1>1. Moves(c, "ensure", call[c].op, call[c].on, call[c].rules)
  <2>1. "ensure" \in Steps
    BY DEF Steps
  <2> QED BY <2>1, GoMoves DEF Inv, Lock
<1>2. UNCHANGED <<table, byNft, shadowed, conf, disk, tmp, calls, saved>> /\ mu' = c /\ mu = Free
  BY DEF Lock, fileVars
<1>3. TypeOK'
  BY <1>1, <1>2 DEF Inv, TypeOK, Moves, CallRecord
<1>4. \A d \in Client : ~ Inside(d)
  BY <1>2, ConstantsAssumption DEF Inv, Exclusive
<1>5. Exclusive'
  BY <1>1, <1>2, <1>4 DEF Exclusive, Inside, Moves
<1>6. \A d \in Client : CallInv(d)'
  <2>1. CallInv(c)'
    BY <1>1 DEF CallInv, Writing, At, Moves
  <2>2. \A d \in Client \ {c} : CallInv(d)'
    BY <1>1, <1>2, CallInvStays DEF Inv, Moves
  <2> QED BY <2>1, <2>2
<1>7. FileInv'
  BY <1>2, FileInvStays DEF Inv
<1> QED BY <1>3, <1>5, <1>6, <1>7 DEF Inv

LEMMA EnsureKeeps ==
  ASSUME Inv, NEW c \in Client, Ensure(c)
  PROVE  Inv'
<1>1. Inside(c) /\ mu = c
  BY DEF Inv, Exclusive, Inside, Ensure, At
<1>2. UNCHANGED <<table, byNft, shadowed, fileVars, calls, saved>>
  BY DEF Ensure
<1>3. CASE Go(c, "read") /\ mu' = mu
  <2>1. Moves(c, "read", call[c].op, call[c].on, call[c].rules)
    BY <1>3, GoMoves DEF Inv, Steps
  <2>2. CallInv(c)'
    BY <2>1, ReadingInv DEF Moves
  <2> QED BY <1>1, <1>2, <1>3, <2>1, <2>2, QuietStep
<1>4. CASE Return(c)
  BY <1>1, <1>2, <1>4, ReturnStep
<1>5. CASE GoWith(c, "recover", loadConf(conf)) /\ mu' = mu
  <2>1. loadConf(conf).on \in BOOLEAN /\ loadConf(conf).rules \in Seq(Rule)
    BY LoadType DEF Inv, TypeOK
  <2>2. "recover" \in Steps /\ TypeOK
    BY DEF Steps, Inv
  <2>3. Moves(c, "recover", call[c].op, loadConf(conf).on, loadConf(conf).rules)
    BY <1>5, <2>1, <2>2, GoWithMoves
  <2>4. CallInv(c)'
    BY <2>3 DEF Moves, CallInv, Writing, At
  <2> QED BY <1>1, <1>2, <1>5, <2>3, <2>4, QuietStep
<1> QED BY <1>3, <1>4, <1>5 DEF Ensure

LEMMA EndKeeps ==
  ASSUME Inv, NEW c \in Client, Refused(c) \/ List(c) \/ Fails(c)
  PROVE  Inv'
<1>1. Inside(c)
  BY DEF Inside, Refused, List, Fails, At
<1>2. Return(c) /\ UNCHANGED <<table, byNft, shadowed, fileVars, calls, saved>>
  BY DEF Refused, List, Fails
<1> QED BY <1>1, <1>2, ReturnStep

LEMMA ChangeKeeps ==
  ASSUME Inv, NEW c \in Client, Change(c)
  PROVE  Inv'
<1> DEFINE op == call[c].op
           new == Changed(op, table.on, Seen)
<1>1. Inside(c) /\ mu = c
  BY DEF Inv, Exclusive, Inside, Change, At
<1>2. /\ UNCHANGED <<table, byNft, shadowed, fileVars, calls, saved>> /\ mu' = mu
      /\ GoWith(c, "apply", new)
  BY DEF Change
<1>3. table \in State /\ op \in Op /\ Mutates(op) /\ (op.kind = "delete" => op.n <= Len(Seen))
  <2>1. op \in Op \union {NoOp} /\ table \in State \union {NoTable}
    BY DEF Inv, TypeOK
  <2>2. ~ Mutates(NoOp)
    BY DEF Mutates, NoOp
  <2> QED BY <2>1, <2>2 DEF Change
<1>4. table.on \in BOOLEAN /\ Seen \in Seq(Rule)
  BY <1>3, StateType, SeenType
<1>5. /\ new.on \in BOOLEAN /\ new.rules \in Seq(Rule)
      /\ new = [on |-> new.on, rules |-> new.rules]
  BY <1>3, <1>4, ChangedType
<1>6. "apply" \in Steps /\ TypeOK
  BY DEF Steps, Inv
<1>7. Moves(c, "apply", call[c].op, new.on, new.rules)
  <2> HIDE DEF new
  <2> QED BY <1>2, <1>5, <1>6, GoWithMoves
<1>8. CallInv(c)'
  <2>1. call'[c].at = "apply" /\ call'[c].op = op
    BY <1>7 DEF Moves
  <2>2. [on |-> call'[c].on, rules |-> call'[c].rules] = new
    BY <1>5, <1>7 DEF Moves
  <2>3. new' = new
    BY <1>2, <2>1 DEF Seen, kernelRulesToLrules, Undecodable
  <2>4. [on |-> call'[c].on, rules |-> call'[c].rules] = Changed(call'[c].op, table'.on, Seen')
    BY <2>2, <2>3
  <2>5. Mutates(call'[c].op)
    BY <1>3, <2>1
  <2> HIDE DEF new, op
  <2> QED BY <2>1, <2>4, <2>5 DEF CallInv, Writing, At
<1> HIDE DEF new, op
<1> QED BY <1>1, <1>2, <1>7, <1>8, QuietStep

LEMMA ApplyKeeps ==
  ASSUME Inv, NEW c \in Client, Apply(c)
  PROVE  Inv'
<1>1. Inside(c) /\ mu = c
  BY DEF Inv, Exclusive, Inside, Apply, At
<1>2. /\ UNCHANGED <<shadowed, conf, disk, tmp, calls, mu>> /\ saved' = "no" /\ byNft' = FALSE
      /\ table' = [on |-> call[c].on, rules |-> emitRules(call[c].rules)]
  BY DEF Apply, fileVars
<1>3. call \in [Client -> CallRecord] /\ call[c] \in CallRecord
  BY CallTyped DEF Inv
<1>4. Moves(c, "persist", call[c].op, call[c].on, call[c].rules)
      \/ Moves(c, "persist", NoOp, call[c].on, call[c].rules)
  <2>0. "persist" \in Steps
    BY DEF Steps
  <2>1. CASE call' = [call EXCEPT ![c].at = "persist"]
    <3>1. Go(c, "persist")
      BY <2>1 DEF Go
    <3> QED BY <2>0, <3>1, GoMoves DEF Inv
  <2>2. CASE call' = [call EXCEPT ![c] = [@ EXCEPT !.at = "persist", !.op = NoOp]]
    <3> DEFINE e == [call[c] EXCEPT !.at = "persist", !.op = NoOp]
    <3>1. e \in CallRecord /\ e.at = "persist" /\ e.op = NoOp
          /\ e.on = call[c].on /\ e.rules = call[c].rules
      BY <1>3, <2>0 DEF CallRecord
    <3>2. call' = [call EXCEPT ![c] = e]
      BY <2>2
    <3> HIDE DEF e
    <3> QED BY <1>3, <3>1, <3>2 DEF Moves
  <2> QED BY <2>1, <2>2 DEF Apply
<1>5. table' \in State
  <2>1. call[c].on \in BOOLEAN /\ call[c].rules \in Seq(Rule)
    BY <1>3 DEF CallRecord
  <2>2. emitRules(call[c].rules) \in Seq(KernelRule)
    BY <2>1, EmitType
  <2> QED BY <1>2, <2>1, <2>2, StateType
<1>6. TypeOK'
  BY <1>2, <1>4, <1>5 DEF Inv, TypeOK, Moves, CallRecord
<1>7. Exclusive' /\ \A d \in Client \ {c} : CallInv(d)'
  BY <1>1, <1>2, <1>4, AloneInside DEF Inv
<1>8. CallInv(c)'
  <2>1. /\ call'[c].at = "persist"
        /\ table' = [on |-> call'[c].on, rules |-> emitRules(call'[c].rules)]
    BY <1>2, <1>4 DEF Moves
  <2> QED BY <1>2, <2>1 DEF CallInv, Writing, Applied, At
<1>9. FileInv'
  BY <1>2 DEF Inv, FileInv
<1> QED BY <1>6, <1>7, <1>8, <1>9 DEF Inv

LEMMA PersistEndsKeeps ==
  ASSUME Inv, NEW c \in Client, PersistEnds(c)
  PROVE  Inv'
<1>1. Inside(c)
  BY DEF Inside, PersistEnds, At
<1>2. Persisted(c) /\ UNCHANGED <<table, byNft, shadowed, fileVars, calls, saved>>
  BY DEF PersistEnds
<1>3. CASE mu' = Free /\ Moves(c, "idle", NoOp, FALSE, <<>>)
  <2>1. CallInv(c)'
    BY <1>3, OutsideInv DEF Moves
  <2> QED BY <1>1, <1>2, <1>3, <2>1, QuietStep
<1>4. CASE mu' = c /\ Moves(c, "read", call[c].op, FALSE, <<>>)
  <2>1. CallInv(c)'
    BY <1>4, ReadingInv DEF Moves
  <2> QED BY <1>1, <1>2, <1>4, <2>1, QuietStep
<1> QED BY <1>1, <1>2, <1>3, <1>4, PersistedMoves

LEMMA WriteTmpKeeps ==
  ASSUME Inv, NEW c \in Client, WriteTmp(c)
  PROVE  Inv'
<1>1. Inside(c) /\ mu = c /\ call[c].at = "persist"
  BY DEF Inv, Exclusive, Inside, WriteTmp, At
<1>2. /\ UNCHANGED <<table, byNft, shadowed, conf, disk, mu, calls, saved>>
      /\ tmp' = [file |-> renderConf(call[c].on, call[c].rules), synced |-> FALSE]
  BY DEF WriteTmp
<1>3. Moves(c, "sync", call[c].op, call[c].on, call[c].rules)
  BY GoMoves DEF Inv, Steps, WriteTmp
<1>4. renderConf(call[c].on, call[c].rules) \in State
  <2>1. call[c].on \in BOOLEAN /\ call[c].rules \in Seq(Rule)
    BY CallTyped DEF Inv, CallRecord
  <2>2. Expand(call[c].rules) \in Seq(KernelRule)
    BY <2>1, EmitType
  <2> QED BY <2>1, <2>2, StateType DEF renderConf
<1>5. tmp' \in [file : State, synced : BOOLEAN] /\ tmp' # NoTmp
  BY <1>2, <1>4, TmpType
<1>6. TypeOK'
  BY <1>2, <1>3, <1>5 DEF Inv, TypeOK, Moves, CallRecord
<1>7. Exclusive' /\ \A d \in Client \ {c} : CallInv(d)'
  BY <1>1, <1>2, <1>3, AloneInside DEF Inv
<1>8. CallInv(c)'
  <2>1. saved = "no" /\ Applied(c)
    BY <1>1 DEF Inv, CallInv, Writing, At
  <2>2. /\ call'[c].at = "sync"
        /\ call'[c].on = call[c].on /\ call'[c].rules = call[c].rules
    BY <1>3 DEF Moves
  <2>3. saved' = "no" /\ Applied(c)'
    BY <1>2, <2>1, <2>2 DEF Applied
  <2>4. tmp'.file = renderConf(call'[c].on, call'[c].rules)
    BY <1>2, <2>2
  <2> QED BY <1>5, <2>2, <2>3, <2>4 DEF CallInv, Writing, At
<1>9. FileInv'
  BY <1>2, FileInvStays DEF Inv
<1> QED BY <1>6, <1>7, <1>8, <1>9 DEF Inv

LEMMA SyncTmpKeeps ==
  ASSUME Inv, NEW c \in Client, SyncTmp(c)
  PROVE  Inv'
<1>1. Inside(c) /\ mu = c /\ call[c].at = "sync"
  BY DEF Inv, Exclusive, Inside, SyncTmp, At
<1>2. /\ UNCHANGED <<table, byNft, shadowed, conf, disk, mu, calls, saved>>
      /\ tmp' = [tmp EXCEPT !.synced = TRUE]
  BY DEF SyncTmp
<1>3. Moves(c, "rename", call[c].op, call[c].on, call[c].rules)
  BY GoMoves DEF Inv, Steps, SyncTmp
<1>4. /\ saved = "no" /\ Applied(c)
      /\ tmp # NoTmp
      /\ tmp.file = renderConf(call[c].on, call[c].rules)
  BY <1>1 DEF Inv, CallInv, Writing, At
<1>5. tmp \in [file : State, synced : BOOLEAN]
  BY <1>4 DEF Inv, TypeOK
<1>6. tmp' \in [file : State, synced : BOOLEAN] /\ tmp'.file = tmp.file /\ tmp'.synced
  BY <1>2, <1>5
<1>7. TypeOK'
  BY <1>2, <1>3, <1>6 DEF Inv, TypeOK, Moves, CallRecord
<1>8. Exclusive' /\ \A d \in Client \ {c} : CallInv(d)'
  BY <1>1, <1>2, <1>3, AloneInside DEF Inv
<1>9. CallInv(c)'
  <2>1. /\ call'[c].at = "rename"
        /\ call'[c].on = call[c].on /\ call'[c].rules = call[c].rules
    BY <1>3 DEF Moves
  <2>2. saved' = "no" /\ Applied(c)'
    BY <1>2, <1>4, <2>1 DEF Applied
  <2>3. tmp'.file = renderConf(call'[c].on, call'[c].rules) /\ tmp' # NoTmp
    BY <1>4, <1>6, <2>1, TmpType
  <2> QED BY <1>6, <2>1, <2>2, <2>3 DEF CallInv, Writing, At
<1>10. FileInv'
  BY <1>2, FileInvStays DEF Inv
<1> QED BY <1>7, <1>8, <1>9, <1>10 DEF Inv

LEMMA RenameKeeps ==
  ASSUME Inv, NEW c \in Client, Rename(c)
  PROVE  Inv'
<1>1. Inside(c) /\ mu = c /\ call[c].at = "rename"
  BY DEF Inv, Exclusive, Inside, Rename, At
<1>2. /\ Applied(c) /\ tmp.synced /\ tmp # NoTmp
      /\ tmp.file = renderConf(call[c].on, call[c].rules)
  BY <1>1 DEF Inv, CallInv, Writing, At
<1>3. /\ UNCHANGED <<table, byNft, shadowed, mu, calls>>
      /\ conf' = tmp.file /\ disk' = disk \union {tmp.file} /\ tmp' = NoTmp
      /\ saved' = "renamed"
  BY <1>2 DEF Rename
<1>4. Moves(c, "syncdir", call[c].op, call[c].on, call[c].rules)
  BY GoMoves DEF Inv, Steps, Rename
<1>5. tmp.file \in State
  BY <1>2 DEF Inv, TypeOK
<1>6. TypeOK'
  BY <1>3, <1>4, <1>5 DEF Inv, TypeOK, Moves, CallRecord
<1>7. Exclusive' /\ \A d \in Client \ {c} : CallInv(d)'
  BY <1>1, <1>3, <1>4, AloneInside DEF Inv
<1>8. CallInv(c)'
  BY <1>3, <1>4 DEF CallInv, Writing, At, Moves
<1>9. FileInv'
  <2>1. Torn \notin disk' /\ conf' \notin {Missing, Foreign}
    BY <1>3, <1>5, StateType DEF Inv, FileInv
  <2>2. table # NoTable => table = [on |-> conf'.on, rules |-> Canonical(conf'.rules)]
    <3>1. conf'.on = call[c].on /\ conf'.rules = Expand(call[c].rules)
      BY <1>2, <1>3 DEF renderConf
    <3> QED BY <1>2, <3>1 DEF Applied, emitRules
  <2> QED BY <1>3, <2>1, <2>2 DEF FileInv
<1> QED BY <1>6, <1>7, <1>8, <1>9 DEF Inv

LEMMA SyncDirKeeps ==
  ASSUME Inv, NEW c \in Client, SyncDir(c)
  PROVE  Inv'
<1>1. Inside(c) /\ mu = c /\ call[c].at = "syncdir" /\ Persisted(c)
  BY DEF Inv, Exclusive, Inside, SyncDir, At
<1>2. /\ UNCHANGED <<table, byNft, shadowed, conf, tmp, calls>>
      /\ disk' = {conf} /\ saved' = "synced"
  BY DEF SyncDir
<1>3. saved # "no"
  BY <1>1 DEF Inv, CallInv, At
<1>4. FileInv'
  <2>1. Torn # conf
    BY StateType DEF Inv, TypeOK
  <2> QED BY <1>2, <1>3, <2>1 DEF Inv, FileInv
<1>5. conf' \in State \union {Missing, Foreign} /\ disk' \subseteq State \union {Missing, Foreign, Torn}
  BY <1>2 DEF Inv, TypeOK
<1>6. CASE mu' = Free /\ Moves(c, "idle", NoOp, FALSE, <<>>)
  <2>1. TypeOK'
    BY <1>2, <1>5, <1>6 DEF Inv, TypeOK, Moves, CallRecord
  <2>2. Exclusive' /\ \A d \in Client \ {c} : CallInv(d)'
    BY <1>1, <1>6, AloneInside DEF Inv
  <2>3. CallInv(c)'
    BY <1>6, OutsideInv DEF Moves
  <2> QED BY <1>4, <2>1, <2>2, <2>3 DEF Inv
<1>7. CASE mu' = c /\ Moves(c, "read", call[c].op, FALSE, <<>>)
  <2>1. TypeOK'
    BY <1>2, <1>5, <1>7 DEF Inv, TypeOK, Moves, CallRecord
  <2>2. Exclusive' /\ \A d \in Client \ {c} : CallInv(d)'
    BY <1>1, <1>7, AloneInside DEF Inv
  <2>3. CallInv(c)'
    BY <1>7, ReadingInv DEF Moves
  <2> QED BY <1>4, <2>1, <2>2, <2>3 DEF Inv
<1> QED BY <1>1, <1>6, <1>7, PersistedMoves

LEMMA FlushKeeps ==
  ASSUME Inv, Flush
  PROVE  Inv'
<1>1. table' = NoTable /\ byNft' = FALSE /\ shadowed' = FALSE /\ UNCHANGED <<conf, disk, tmp, mu, call, calls, saved>>
  BY DEF Flush, fileVars
<1>2. TypeOK' /\ Exclusive' /\ FileInv'
  BY <1>1 DEF Inv, TypeOK, Exclusive, Inside, FileInv
<1>3. \A c \in Client : CallInv(c)'
  BY <1>1 DEF Inv, CallInv, Writing, Applied, At
<1> QED BY <1>2, <1>3 DEF Inv

LEMMA ShadowKeeps ==
  ASSUME Inv, Shadow
  PROVE  Inv'
<1>1. shadowed' = ~shadowed /\ UNCHANGED <<table, byNft, conf, disk, tmp, mu, call, calls, saved>>
  BY DEF Shadow, fileVars
<1>2. shadowed' \in BOOLEAN
  BY <1>1 DEF Inv, TypeOK
<1>3. TypeOK' /\ Exclusive' /\ FileInv'
  BY <1>1, <1>2 DEF Inv, TypeOK, Exclusive, Inside, FileInv
<1>4. \A c \in Client : CallInv(c)'
  BY <1>1, CallInvStays DEF Inv
<1> QED BY <1>3, <1>4 DEF Inv

\* With every call back to idle nothing is relied on.
LEMMA AllIdle ==
  ASSUME call' = [c \in Client |-> Idle]
  PROVE  Exclusive' /\ call' \in [Client -> CallRecord] /\ \A c \in Client : CallInv(c)'
<1>1. \A c \in Client : call'[c].at = "idle"
  BY DEF Idle
<1>2. \A c \in Client : CallInv(c)'
  BY <1>1, OutsideInv
<1> QED BY <1>1, <1>2, IdleType DEF Exclusive, Inside

LEMMA KilledKeeps ==
  ASSUME Inv, Killed
  PROVE  Inv'
<1>1. /\ call' = [c \in Client |-> Idle] /\ mu' = Free
      /\ UNCHANGED <<table, byNft, shadowed, conf, disk, tmp, calls, saved>>
  BY DEF Killed, fileVars
<1>2. TypeOK'
  BY <1>1, AllIdle DEF Inv, TypeOK, CallRecord
<1>3. FileInv'
  BY <1>1, FileInvStays DEF Inv
<1> QED BY <1>1, <1>2, <1>3, AllIdle DEF Inv

LEMMA PowerLossKeeps ==
  ASSUME Inv, PowerLoss
  PROVE  Inv'
<1>1. PICK file \in disk :
        /\ conf' = IF file = Torn THEN Missing ELSE file
        /\ disk' = {file}
        /\ table' = Boot(file)
  BY DEF PowerLoss
<1>2. /\ call' = [c \in Client |-> Idle] /\ mu' = Free /\ tmp' = NoTmp /\ shadowed' = FALSE
      /\ saved' = IF table' = NoTable THEN "no" ELSE "synced"
      /\ calls' = calls /\ byNft' \in BOOLEAN
  BY DEF PowerLoss
<1>3. file # Torn /\ file \in State \union {Missing, Foreign} /\ conf' = file
  BY <1>1 DEF Inv, FileInv, TypeOK
<1>4. \/ table' = NoTable
      \/ /\ table' = [on |-> file.on, rules |-> Canonical(file.rules)]
         /\ file \in State
  BY <1>1, <1>3 DEF Boot
<1>5. table' \in State \union {NoTable}
  BY <1>4, StateType, CanonicalType
<1>6. TypeOK'
  BY <1>1, <1>2, <1>3, <1>5, AllIdle DEF Inv, TypeOK, CallRecord
<1>7. FileInv'
  <2>1. Torn \notin disk' /\ disk' = {conf'}
    BY <1>1, <1>3
  <2>2. CASE table' = NoTable
    BY <2>1, <2>2 DEF FileInv
  <2>3. CASE table' # NoTable
    <3>1. /\ table' = [on |-> conf'.on, rules |-> Canonical(conf'.rules)]
          /\ conf' \notin {Missing, Foreign}
      BY <1>3, <1>4, <2>3, StateType
    <3> QED BY <2>1, <3>1 DEF FileInv
  <2> QED BY <2>2, <2>3
<1> QED BY <1>2, <1>6, <1>7, AllIdle DEF Inv

-----------------------------------------------------------------------------
(* Theorems                                                                 *)

\* The firewall's state has its types, and the invariant holds of every state
\* the calls and the host can reach.
THEOREM InvariantAlways == Spec => []Inv
<1>1. Init => Inv
  <2> SUFFICES ASSUME Init PROVE Inv
    OBVIOUS
  <2>1. call = [c \in Client |-> Idle] /\ mu = Free /\ table = NoTable /\ saved = "no"
        /\ disk = {conf} /\ conf \in {Missing, Foreign} /\ tmp = NoTmp
        /\ calls = 0 /\ shadowed = FALSE /\ byNft = FALSE
    BY DEF Init
  <2>2. \A c \in Client : call[c].at = "idle"
    BY <2>1 DEF Idle
  <2>3. call \in [Client -> CallRecord]
    BY <2>1, IdleType
  <2>4. TypeOK
    <3>1. 0 \in 0..MaxCalls
      BY ConstantsAssumption
    <3> QED BY <2>1, <2>3, <3>1 DEF TypeOK, CallRecord
  <2>5. Exclusive /\ \A c \in Client : CallInv(c)
    BY <2>2 DEF Exclusive, Inside, CallInv, Writing, At
  <2>6. FileInv
    BY <2>1, StateType DEF FileInv
  <2> QED BY <2>4, <2>5, <2>6 DEF Inv
<1>2. Inv /\ [Next]_vars => Inv'
  <2> SUFFICES ASSUME Inv, [Next]_vars PROVE Inv'
    OBVIOUS
  <2>1. ASSUME NEW c \in Client, Begin(c) PROVE Inv'
    BY <2>1, BeginKeeps
  <2>2. ASSUME NEW c \in Client, Step(c) PROVE Inv'
    <3>1. CASE Lock(c)
      BY <3>1, LockKeeps
    <3>2. CASE Ensure(c)
      BY <3>2, EnsureKeeps
    <3>3. CASE Apply(c)
      BY <3>3, ApplyKeeps
    <3>4. CASE Refused(c) \/ List(c) \/ Fails(c)
      BY <3>4, EndKeeps
    <3>5. CASE Change(c)
      BY <3>5, ChangeKeeps
    <3>6. CASE WriteTmp(c)
      BY <3>6, WriteTmpKeeps
    <3>7. CASE SyncTmp(c)
      BY <3>7, SyncTmpKeeps
    <3>8. CASE Rename(c)
      BY <3>8, RenameKeeps
    <3>9. CASE SyncDir(c)
      BY <3>9, SyncDirKeeps
    <3>10. CASE PersistEnds(c)
      BY <3>10, PersistEndsKeeps
    <3> QED BY <2>2, <3>1, <3>2, <3>3, <3>4, <3>5, <3>6, <3>7, <3>8, <3>9, <3>10 DEF Step
  <2>3. CASE Flush
    BY <2>3, FlushKeeps
  <2>4. CASE Shadow
    BY <2>4, ShadowKeeps
  <2>5. CASE Killed
    BY <2>5, KilledKeeps
  <2>6. CASE PowerLoss
    BY <2>6, PowerLossKeeps
  <2>7. CASE UNCHANGED vars
    <3>1. UNCHANGED <<table, byNft, shadowed, conf, disk, tmp, mu, call, calls, saved>>
      BY <2>7 DEF vars, fileVars
    <3>2. TypeOK' /\ Exclusive' /\ FileInv'
      BY <3>1 DEF Inv, TypeOK, Exclusive, Inside, FileInv
    <3>3. \A c \in Client : CallInv(c)'
      BY <3>1, CallInvStays DEF Inv
    <3> QED BY <3>2, <3>3 DEF Inv
  <2> QED BY <2>1, <2>2, <2>3, <2>4, <2>5, <2>6, <2>7 DEF Next
<1> QED BY <1>1, <1>2, PTL DEF Spec

\* The kernel's table, the boot file and what the calls hold have their types: no
\* step takes the list of a file that is none, or renames a file nobody wrote.
THEOREM TypeCorrect == Spec => []TypeOK
<1>1. Inv => TypeOK
  BY DEF Inv
<1> QED BY <1>1, InvariantAlways, PTL

\* No power loss leaves a partial boot file, and a table that has been written to
\* the file says what the file says until the next change (writeConf, mutate).
THEOREM BootFileIsTableAlways == Spec => []BootFileIsTable
<1>1. Inv => BootFileIsTable
  BY DEF Inv, FileInv, BootFileIsTable
<1> QED BY <1>1, InvariantAlways, PTL

\* The kernel's addresses are in its own form, whoever wrote the table.
LEMMA KernelAddresses == Spec => []TableInv
<1>1. Init => TableInv
  BY DEF Init, TableInv
<1>2. Inv /\ TableInv /\ [Next]_vars => TableInv'
  <2> SUFFICES ASSUME Inv, TableInv, [Next]_vars PROVE TableInv'
    OBVIOUS
  <2>1. ASSUME NEW c \in Client, Apply(c) PROVE TableInv'
    <3>1. Expand(call[c].rules) \in Seq(KernelRule)
      BY CallTyped, EmitType DEF Inv, CallRecord
    <3>2. table'.rules = Canonical(Expand(call[c].rules))
      BY <2>1 DEF Apply, emitRules
    <3> QED BY <3>1, <3>2, CanonicalOfCanonical DEF TableInv
  <2>2. CASE PowerLoss
    <3>1. PICK file \in disk : table' = Boot(file)
      BY <2>2 DEF PowerLoss
    <3>2. CASE table' = NoTable
      BY <3>2 DEF TableInv
    <3>3. CASE table' # NoTable
      <4>1. file \notin {Missing, Foreign, Torn} /\ table'.rules = Canonical(file.rules)
        BY <3>1, <3>3 DEF Boot
      <4>2. file.rules \in Seq(KernelRule)
        BY <4>1, StateType DEF Inv, TypeOK
      <4> QED BY <4>1, <4>2, CanonicalOfCanonical DEF TableInv
    <3> QED BY <3>2, <3>3
  <2>3. CASE Flush
    BY <2>3 DEF Flush, TableInv
  <2>4. CASE table' = table
    BY <2>4 DEF TableInv
  <2>5. ASSUME NEW c \in Client, Step(c), ~ Apply(c) PROVE table' = table
    BY <2>5 DEF Step, Lock, Ensure, Refused, List, Change, Fails, WriteTmp, SyncTmp,
       Rename, SyncDir, PersistEnds
  <2>6. ASSUME NEW c \in Client, Begin(c) PROVE table' = table
    BY <2>6 DEF Begin
  <2>7. CASE Shadow \/ Killed \/ UNCHANGED vars
    BY <2>4, <2>7 DEF Shadow, Killed, vars
  <2> QED BY <2>1, <2>2, <2>3, <2>4, <2>5, <2>6, <2>7 DEF Next
<1> QED BY <1>1, <1>2, InvariantAlways, PTL DEF Spec

\* The table the agent has applied reads back rule for rule, for tables of any
\* length: every rule of the kernel is in the list, and stands for those rules only
\* (emitRule against kernelRulesToLrules). A table loaded at boot is not covered:
\* TLC finds for ListShowsTheTable a rule of one that the list leaves out.
THEOREM AppliedTableIsListedAlways == Spec => []AppliedTableIsListed
<1>1. Inv /\ TableInv => AppliedTableIsListed
  <2> SUFFICES ASSUME Inv, TableInv, table # NoTable, ~ byNft
      PROVE emitRules(Seen) = table.rules
    BY DEF AppliedTableIsListed, ListedInFull
  <2>1. table.rules \in Seq(KernelRule)
    BY StateType DEF Inv, TypeOK
  <2>2. Seen = Merge(table.rules, {})
    BY DEF Seen, kernelRulesToLrules, Undecodable
  <2>3. Expand(Seen) = table.rules
    BY <2>1, <2>2, ExpandOfMerge
  <2>4. Canonical(table.rules) = table.rules
    BY <2>1, CanonicalOfCanonical DEF TableInv
  <2> QED BY <2>3, <2>4 DEF emitRules
<1> QED BY <1>1, InvariantAlways, KernelAddresses, PTL

\* A change that has been written to the end is the table the boot loader makes
\* after a power loss, as long as it takes the addresses of the file.
THEOREM SavedChangeSurvivesAlways == Spec => SavedChangeSurvives
<1> DEFINE A == PowerLoss /\ saved = "synced" /\ table # NoTable /\ Canonically(conf)
                  => table' = table
<1>1. Inv /\ [Next]_vars => [A]_vars
  <2> SUFFICES ASSUME Inv, PowerLoss, saved = "synced", table # NoTable, Canonically(conf)
      PROVE table' = table
    OBVIOUS
  <2>1. table' = Boot(conf)
    BY DEF Inv, FileInv, PowerLoss
  <2>2. conf \in State /\ conf \notin {Missing, Foreign, Torn}
    BY StateType DEF Inv, FileInv, TypeOK
  <2> QED BY <2>1, <2>2 DEF Inv, FileInv, Boot
<1> HIDE DEF A
<1>2. Spec => [][A]_vars
  BY <1>1, InvariantAlways, PTL DEF Spec
<1> QED BY <1>2 DEF SavedChangeSurvives, A

\* However many calls run at once, what one of them writes is the list of the table
\* it replaces, as it reads back then, with the one change of its own (mutate under
\* API.mu). With AppliedTableIsListedAlways: of a table the agent has applied, no
\* rule is lost but the one that is deleted.
THEOREM NoLostUpdateAlways == Spec => NoLostUpdate
<1> DEFINE A == \A c \in Client :
                  call[c].at = "apply" /\ Apply(c) /\ table # NoTable =>
                    LET new == Changed(call[c].op, table.on, Seen) IN
                    table' = [on |-> new.on, rules |-> emitRules(new.rules)]
<1>1. Inv /\ [Next]_vars => [A]_vars
  <2> SUFFICES ASSUME Inv, NEW c \in Client, call[c].at = "apply", Apply(c), table # NoTable
      PROVE LET new == Changed(call[c].op, table.on, Seen) IN
            table' = [on |-> new.on, rules |-> emitRules(new.rules)]
    OBVIOUS
  <2> DEFINE new == Changed(call[c].op, table.on, Seen)
  <2>1. [on |-> call[c].on, rules |-> call[c].rules] = new
    BY DEF Inv, CallInv, At
  <2>2. table' = [on |-> call[c].on, rules |-> emitRules(call[c].rules)]
    BY DEF Apply
  <2> HIDE DEF new
  <2>3. call[c].on = new.on /\ call[c].rules = new.rules
    BY <2>1
  <2>4. table' = [on |-> new.on, rules |-> emitRules(new.rules)]
    BY <2>2, <2>3
  <2> QED BY <2>4 DEF new
<1> HIDE DEF A
<1>2. Spec => [][A]_vars
  BY <1>1, InvariantAlways, PTL DEF Spec
<1> QED BY <1>2 DEF NoLostUpdate, A

=============================================================================
