----------------------------- MODULE WalkLemmas -----------------------------
(***************************************************************************)
(* What the operators of the validation walk compute, for any sequences,   *)
(* rules and names: what is kept of a sequence, a finite set in some       *)
(* order, a flattened sequence, the assignment that the engine reports,    *)
(* and what is said of a sequence of nodes.                                *)
(***************************************************************************)
EXTENDS Validator, FiniteSetTheorems, SequenceTheorems, WellFoundedInduction, TLAPS

(* A set of naturals with 0 that is closed under the successor has them all. *)
LEMMA Counting ==
    ASSUME NEW P, 0 \in P, \A n \in Nat : n \in P => n + 1 \in P
    PROVE  \A n \in Nat : n \in P
<1> DEFINE Others == Nat \ P
<1>1. SUFFICES ASSUME Others # {} PROVE FALSE
  OBVIOUS
<1>2. PICK m \in Others : \A n \in Others : ~(<<n, m>> \in OpToRel(<, Nat))
  BY <1>1, NatLessThanWellFounded, WFMin
<1>3. m \in Nat /\ m # 0 /\ m - 1 \in Nat /\ m - 1 < m
  OBVIOUS
<1>4. m - 1 \in P
  BY <1>2, <1>3 DEF OpToRel
<1>5. m - 1 + 1 = m
  BY <1>3
<1>6. QED
  BY <1>3, <1>4, <1>5

Distinct(s) == \A i, j \in DOMAIN s : s[i] = s[j] => i = j

KeptFrom(s, S, f, n) ==
    /\ f[0] = <<>>
    /\ \A i \in 1 .. n : f[i] = IF s[i] \in S THEN Append(f[i - 1], s[i]) ELSE f[i - 1]

(* What `Only` keeps of a sequence is defined place by place.               *)
LEMMA OnlyRecursion ==
    ASSUME NEW T, NEW s \in Seq(T), NEW S
    PROVE  \E f \in [0 .. Len(s) -> Seq(T)] : KeptFrom(s, S, f, Len(s)) /\ Only(s, S) = f[Len(s)]
<1> DEFINE step(f, i) == IF i = 0 THEN <<>> ELSE IF s[i] \in S THEN Append(f[i - 1], s[i]) ELSE f[i - 1]
           N == Len(s)
           P == {n \in Nat : n <= N => \E f \in [0 .. n -> Seq(T)] : KeptFrom(s, S, f, n)}
<1>0. N \in Nat /\ DOMAIN s = 1 .. N /\ \A i \in 1 .. N : s[i] \in T
  OBVIOUS
<1>1. 0 \in P
  <2>1. [i \in 0 .. 0 |-> <<>>] \in [0 .. 0 -> Seq(T)]
    OBVIOUS
  <2>2. KeptFrom(s, S, [i \in 0 .. 0 |-> <<>>], 0)
    BY DEF KeptFrom
  <2>3. QED
    BY <2>1, <2>2
<1>2. ASSUME NEW n \in Nat, n \in P PROVE n + 1 \in P
  <2>1. SUFFICES ASSUME n + 1 <= N PROVE \E f \in [0 .. n + 1 -> Seq(T)] : KeptFrom(s, S, f, n + 1)
    OBVIOUS
  <2>2. PICK f \in [0 .. n -> Seq(T)] : KeptFrom(s, S, f, n)
    BY <1>0, <1>2, <2>1
  <2> DEFINE g == [i \in 0 .. n + 1 |-> IF i <= n THEN f[i]
                                        ELSE IF s[n + 1] \in S THEN Append(f[n], s[n + 1]) ELSE f[n]]
  <2>3. f[n] \in Seq(T) /\ s[n + 1] \in T
    BY <1>0, <2>1
  <2>4. g \in [0 .. n + 1 -> Seq(T)]
    BY <2>3
  <2>5. KeptFrom(s, S, g, n + 1)
    <3>1. g[0] = <<>>
      BY <2>2 DEF KeptFrom
    <3>2. ASSUME NEW i \in 1 .. n + 1
          PROVE  g[i] = IF s[i] \in S THEN Append(g[i - 1], s[i]) ELSE g[i - 1]
      <4>1. i - 1 \in 0 .. n /\ g[i - 1] = f[i - 1]
        OBVIOUS
      <4>2. CASE i <= n
        <5>1. i \in 1 .. n /\ g[i] = f[i]
          BY <4>2
        <5>2. QED
          BY <2>2, <4>1, <5>1 DEF KeptFrom
      <4>3. CASE i = n + 1
        <5>1. g[i] = IF s[i] \in S THEN Append(f[n], s[i]) ELSE f[n]
          BY <4>3
        <5>2. i - 1 = n
          BY <4>3
        <5>3. QED
          BY <4>1, <5>1, <5>2
      <4>4. QED
        BY <4>2, <4>3
    <3> HIDE DEF g
    <3>3. QED
      BY <3>1, <3>2 DEF KeptFrom
  <2>6. QED
    BY <2>4, <2>5
<1>3. \A n \in Nat : n \in P
  <2> HIDE DEF P
  <2>1. QED
    BY <1>1, <1>2, Counting
<1>4. PICK f \in [0 .. N -> Seq(T)] : KeptFrom(s, S, f, N)
  BY <1>0, <1>3
<1>5. f = [i \in 0 .. N |-> step(f, i)]
  <2>1. ASSUME NEW i \in 0 .. N PROVE f[i] = step(f, i)
    <3>1. i = 0 \/ i \in 1 .. N
      BY <1>0
    <3>2. QED
      BY <1>4, <3>1 DEF KeptFrom
  <2>2. f = [i \in 0 .. N |-> f[i]]
    OBVIOUS
  <2> HIDE DEF step
  <2>3. QED
    BY <2>1, <2>2
<1> DEFINE kept == CHOOSE g : g = [i \in 0 .. N |-> step(g, i)]
<1>6. kept = [i \in 0 .. N |-> step(kept, i)]
  BY <1>5
<1>7. \A i \in 0 .. N : kept[i] = step(kept, i)
  <2> HIDE DEF step, kept
  <2>1. QED
    BY <1>6
<1>8. Only(s, S) = kept[N]
  BY DEF Only
<1> HIDE DEF kept
<1>9. kept \in [0 .. N -> Seq(T)] /\ KeptFrom(s, S, kept, N)
  <2> DEFINE Q == {n \in Nat : n <= N => kept[n] \in Seq(T)}
  <2>1. 0 \in Q
    <3>1. 0 \in 0 .. N
      BY <1>0
    <3>2. kept[0] = <<>>
      BY <1>7, <3>1
    <3>3. kept[0] \in Seq(T)
      BY <3>2, EmptySeq
    <3>4. QED
      BY <3>3
  <2>2. ASSUME NEW n \in Nat, n \in Q PROVE n + 1 \in Q
    <3>1. SUFFICES ASSUME n + 1 <= N PROVE kept[n + 1] \in Seq(T)
      OBVIOUS
    <3>2. kept[n] \in Seq(T) /\ s[n + 1] \in T
      BY <1>0, <2>2, <3>1
    <3>3. kept[n + 1] = IF s[n + 1] \in S THEN Append(kept[n], s[n + 1]) ELSE kept[n]
      <4>1. n + 1 \in 0 .. N /\ n + 1 # 0 /\ n + 1 - 1 = n
        BY <1>0, <3>1
      <4>2. QED
        BY <1>7, <4>1
    <3>4. QED
      BY <3>2, <3>3
  <2>3. \A n \in Nat : n \in Q
    <3> HIDE DEF Q
    <3>1. QED
      BY <2>1, <2>2, Counting
  <2>4. \A i \in 0 .. N : kept[i] \in Seq(T)
    BY <1>0, <2>3
  <2>5. KeptFrom(s, S, kept, N)
    <3>1. \A i \in 1 .. N : i \in 0 .. N /\ i # 0
      BY <1>0
    <3>2. 0 \in 0 .. N
      BY <1>0
    <3>3. QED
      BY <1>7, <3>1, <3>2 DEF KeptFrom
  <2>6. QED
    BY <1>6, <2>4, <2>5
<1>10. QED
  BY <1>8, <1>9

(* `Only` keeps the elements that are in the set, and repeats none.         *)
LEMMA OnlyFacts ==
    ASSUME NEW T, NEW s \in Seq(T), NEW S
    PROVE  /\ Only(s, S) \in Seq(T)
           /\ Lists!ToSet(Only(s, S)) = Lists!ToSet(s) \cap S
           /\ Distinct(s) => Distinct(Only(s, S))
<1> DEFINE N == Len(s)
<1>0. N \in Nat /\ DOMAIN s = 1 .. N /\ \A i \in 1 .. N : s[i] \in T
  OBVIOUS
<1>1. PICK f \in [0 .. N -> Seq(T)] : KeptFrom(s, S, f, N) /\ Only(s, S) = f[N]
  BY OnlyRecursion
<1> DEFINE Good(n) ==
             /\ \A k \in DOMAIN f[n] : \E j \in 1 .. n : s[j] \in S /\ f[n][k] = s[j]
             /\ \A j \in 1 .. n : s[j] \in S => \E k \in DOMAIN f[n] : f[n][k] = s[j]
             /\ Distinct(s) => Distinct(f[n])
           P == {n \in Nat : n <= N => Good(n)}
<1>2. 0 \in P
  <2>1. f[0] = <<>> /\ DOMAIN f[0] = {}
    BY <1>1 DEF KeptFrom
  <2>2. QED
    BY <2>1 DEF Distinct
<1>3. ASSUME NEW n \in Nat, n \in P PROVE n + 1 \in P
  <2>1. SUFFICES ASSUME n + 1 <= N PROVE Good(n + 1)
    OBVIOUS
  <2>2. n + 1 \in 1 .. N /\ n + 1 - 1 = n /\ n <= N /\ n \in 0 .. N /\ n + 1 \in 0 .. N
    BY <1>0, <2>1
  <2>3. f[n + 1] = IF s[n + 1] \in S THEN Append(f[n], s[n + 1]) ELSE f[n]
    BY <1>1, <2>2 DEF KeptFrom
  <2>4. Good(n)
    BY <1>3, <2>2
  <2>5. f[n] \in Seq(T) /\ s[n + 1] \in T
    BY <1>0, <2>2
  <2>6. CASE s[n + 1] \notin S
    <3>1. f[n + 1] = f[n]
      BY <2>3, <2>6
    <3>2. \A j \in 1 .. n + 1 : s[j] \in S => j \in 1 .. n
      BY <2>6
    <3>3. QED
      BY <2>4, <3>1, <3>2
  <2>7. CASE s[n + 1] \in S
    <3>1. f[n + 1] = Append(f[n], s[n + 1])
      BY <2>3, <2>7
    <3> DEFINE g == f[n]  L == Len(f[n])  h == f[n + 1]
    <3>2. /\ L \in Nat /\ DOMAIN g = 1 .. L /\ DOMAIN h = 1 .. L + 1
          /\ \A k \in 1 .. L : h[k] = g[k]
          /\ h[L + 1] = s[n + 1]
      BY <2>5, <3>1
    <3> HIDE DEF g, h, L
    <3>3. \A k \in 1 .. L + 1 : k \in 1 .. L \/ k = L + 1
      BY <3>2
    <3>4. \A j \in 1 .. n + 1 : j \in 1 .. n \/ j = n + 1
      OBVIOUS
    <3>5. \A k \in DOMAIN h : \E j \in 1 .. n + 1 : s[j] \in S /\ h[k] = s[j]
      <4>1. \A k \in 1 .. L : \E j \in 1 .. n : s[j] \in S /\ g[k] = s[j]
        BY <2>4, <3>2 DEF g
      <4>2. QED
        BY <2>7, <3>2, <3>3, <4>1
    <3>6. \A j \in 1 .. n + 1 : s[j] \in S => \E k \in DOMAIN h : h[k] = s[j]
      <4>1. \A j \in 1 .. n : s[j] \in S => \E k \in 1 .. L : g[k] = s[j]
        BY <2>4, <3>2 DEF g
      <4>2. L + 1 \in DOMAIN h
        BY <3>2
      <4>3. \A k \in 1 .. L : k \in DOMAIN h /\ h[k] = g[k]
        BY <3>2
      <4>4. ASSUME NEW j \in 1 .. n + 1, s[j] \in S PROVE \E k \in DOMAIN h : h[k] = s[j]
        <5>1. CASE j \in 1 .. n
          BY <4>1, <4>3, <4>4, <5>1
        <5>2. CASE j = n + 1
          BY <3>2, <4>2, <5>2
        <5>3. QED
          BY <3>4, <5>1, <5>2
      <4>5. QED
        BY <4>4
    <3>7. Distinct(s) => Distinct(h)
      <4>1. SUFFICES ASSUME Distinct(s), NEW k \in DOMAIN h, NEW l \in DOMAIN h, h[k] = h[l] PROVE k = l
        BY DEF Distinct
      <4>2. \A m \in 1 .. L : g[m] # s[n + 1]
        <5>1. \A m \in 1 .. L : \E j \in 1 .. n : g[m] = s[j]
          BY <2>4, <3>2 DEF g
        <5>2. \A j \in 1 .. n : j \in DOMAIN s /\ n + 1 \in DOMAIN s /\ j # n + 1
          BY <1>0, <2>2
        <5>3. QED
          BY <4>1, <5>1, <5>2 DEF Distinct
      <4>3. Distinct(g)
        BY <2>4, <4>1 DEF g
      <4>4. QED
        BY <3>2, <3>3, <4>1, <4>2, <4>3 DEF Distinct
    <3>8. QED
      BY <3>5, <3>6, <3>7 DEF h
  <2>8. QED
    BY <2>6, <2>7
<1>4. Good(N)
  <2> HIDE DEF P
  <2>1. N \in P
    BY <1>0, <1>2, <1>3, Counting
  <2>2. QED
    BY <1>0, <2>1 DEF P
<1>5. f[N] \in Seq(T)
  BY <1>0, <1>1
<1>6. Lists!ToSet(f[N]) = Lists!ToSet(s) \cap S
  <2>1. ASSUME NEW x \in Lists!ToSet(f[N]) PROVE x \in Lists!ToSet(s) \cap S
    BY <1>0, <1>4 DEF Lists!ToSet
  <2>2. ASSUME NEW x \in Lists!ToSet(s), x \in S PROVE x \in Lists!ToSet(f[N])
    BY <1>0, <1>4, <2>2 DEF Lists!ToSet
  <2>3. QED
    BY <2>1, <2>2
<1>7. QED
  BY <1>1, <1>4, <1>5, <1>6

(* Named, so that the provers see one term.                                 *)
Joined(s, t) == s \o t
FlatFrom(ss, f, n) ==
    f[1] = ss[1] /\ \A i \in 2 .. n : f[i] = Joined(f[i - 1], ss[i])

(* A flattened sequence is defined part by part.                            *)
LEMMA FlattenRecursion ==
    ASSUME NEW T, NEW ss \in Seq(Seq(T)), Len(ss) # 0
    PROVE  \E f \in [1 .. Len(ss) -> Seq(T)] : FlatFrom(ss, f, Len(ss)) /\ Lists!FlattenSeq(ss) = f[Len(ss)]
<1> DEFINE step(f, i) == IF i = 1 THEN ss[i] ELSE Joined(f[i - 1], ss[i])
           N == Len(ss)
           P == {n \in Nat : n + 1 <= N => \E f \in [1 .. n + 1 -> Seq(T)] : FlatFrom(ss, f, n + 1)}
<1>0. N \in Nat /\ N >= 1 /\ DOMAIN ss = 1 .. N /\ \A i \in 1 .. N : ss[i] \in Seq(T)
  OBVIOUS
<1>1. 0 \in P
  <2> DEFINE g == [i \in 1 .. 1 |-> ss[1]]
  <2>1. g \in [1 .. 1 -> Seq(T)]
    BY <1>0
  <2>2. FlatFrom(ss, g, 1)
    BY DEF FlatFrom
  <2>3. QED
    BY <2>1, <2>2
<1>2. ASSUME NEW n \in Nat, n \in P PROVE n + 1 \in P
  <2>1. SUFFICES ASSUME n + 2 <= N PROVE \E f \in [1 .. n + 2 -> Seq(T)] : FlatFrom(ss, f, n + 2)
    OBVIOUS
  <2>2. PICK f \in [1 .. n + 1 -> Seq(T)] : FlatFrom(ss, f, n + 1)
    BY <1>0, <1>2, <2>1
  <2> DEFINE last == Joined(f[n + 1], ss[n + 2])
             g == [i \in 1 .. n + 2 |-> IF i <= n + 1 THEN f[i] ELSE last]
  <2>3. f[n + 1] \in Seq(T) /\ ss[n + 2] \in Seq(T)
    BY <1>0, <2>1
  <2>4. g \in [1 .. n + 2 -> Seq(T)]
    <3>1. last \in Seq(T)
      BY <2>3 DEF Joined
    <3>2. QED
      BY <3>1
  <2>5. FlatFrom(ss, g, n + 2)
    <3>1. g[1] = ss[1]
      BY <2>2 DEF FlatFrom
    <3> HIDE DEF last
    <3>2. ASSUME NEW i \in 2 .. n + 2 PROVE g[i] = Joined(g[i - 1], ss[i])
      <4>1. i - 1 \in 1 .. n + 1 /\ g[i - 1] = f[i - 1]
        OBVIOUS
      <4>2. CASE i <= n + 1
        <5>1. i \in 2 .. n + 1 /\ g[i] = f[i]
          BY <4>2
        <5>2. QED
          BY <2>2, <4>1, <5>1 DEF FlatFrom
      <4>3. CASE i = n + 2
        <5>1. g[n + 2] = last /\ g[n + 2 - 1] = f[n + 1]
          OBVIOUS
        <5> HIDE DEF g
        <5>2. g[n + 2] = Joined(g[n + 2 - 1], ss[n + 2])
          BY <5>1 DEF last
        <5>3. QED
          BY <4>3, <5>2
      <4>4. QED
        BY <4>2, <4>3
    <3> HIDE DEF g
    <3>3. QED
      BY <3>1, <3>2 DEF FlatFrom
  <2>6. QED
    BY <2>4, <2>5
<1>3. \A n \in Nat : n \in P
  <2> HIDE DEF P
  <2>1. QED
    BY <1>1, <1>2, Counting
<1>4. PICK f \in [1 .. N -> Seq(T)] : FlatFrom(ss, f, N)
  <2>1. N - 1 \in Nat /\ N - 1 + 1 = N
    BY <1>0
  <2>2. N - 1 \in P
    <3> HIDE DEF P
    <3>1. QED
      BY <1>3, <2>1
  <2>3. QED
    BY <1>0, <2>1, <2>2
<1>5. f = [i \in 1 .. N |-> step(f, i)]
  <2>1. ASSUME NEW i \in 1 .. N PROVE f[i] = step(f, i)
    <3>1. i = 1 \/ i \in 2 .. N
      BY <1>0
    <3>2. QED
      BY <1>4, <3>1 DEF FlatFrom
  <2>2. f = [i \in 1 .. N |-> f[i]]
    OBVIOUS
  <2> HIDE DEF step
  <2>3. QED
    BY <2>1, <2>2
<1> DEFINE flat == CHOOSE g : g = [i \in 1 .. N |-> step(g, i)]
<1>6. flat = [i \in 1 .. N |-> step(flat, i)]
  BY <1>5
<1>7. \A i \in 1 .. N : flat[i] = step(flat, i)
  <2> HIDE DEF step, flat
  <2>1. QED
    BY <1>6
<1>8. Lists!FlattenSeq(ss) = flat[N]
  BY <1>0 DEF Lists!FlattenSeq, Joined
<1> HIDE DEF flat
<1>9. flat \in [1 .. N -> Seq(T)] /\ FlatFrom(ss, flat, N)
  <2> DEFINE Q == {n \in Nat : n + 1 <= N => flat[n + 1] \in Seq(T)}
  <2>1. 0 \in Q
    <3>1. 1 \in 1 .. N
      BY <1>0
    <3>2. flat[1] = ss[1]
      BY <1>7, <3>1
    <3>3. flat[1] \in Seq(T)
      BY <1>0, <3>1, <3>2
    <3>4. QED
      BY <3>3
  <2>2. ASSUME NEW n \in Nat, n \in Q PROVE n + 1 \in Q
    <3>1. SUFFICES ASSUME n + 2 <= N PROVE flat[n + 2] \in Seq(T)
      OBVIOUS
    <3>2. flat[n + 1] \in Seq(T) /\ ss[n + 2] \in Seq(T)
      BY <1>0, <2>2, <3>1
    <3>3. flat[n + 2] = Joined(flat[n + 1], ss[n + 2])
      <4>1. n + 2 \in 1 .. N /\ n + 2 # 1 /\ n + 2 - 1 = n + 1
        BY <1>0, <3>1
      <4>2. flat[n + 2] = step(flat, n + 2)
        <5> HIDE DEF step
        <5>1. QED
          BY <1>7, <4>1
      <4>3. QED
        BY <4>1, <4>2
    <3>4. QED
      BY <3>2, <3>3 DEF Joined
  <2>3. \A n \in Nat : n \in Q
    <3> HIDE DEF Q
    <3>1. QED
      BY <2>1, <2>2, Counting
  <2>4. \A i \in 1 .. N : flat[i] \in Seq(T)
    <3>1. ASSUME NEW i \in 1 .. N PROVE flat[i] \in Seq(T)
      <4>1. i - 1 \in Nat /\ i - 1 + 1 = i /\ i <= N
        BY <1>0
      <4>2. i - 1 \in Q
        <5> HIDE DEF Q
        <5>1. QED
          BY <2>3, <4>1
      <4>3. QED
        BY <4>1, <4>2
    <3>2. QED
      BY <3>1
  <2>5. FlatFrom(ss, flat, N)
    <3>1. \A i \in 2 .. N : i \in 1 .. N /\ i # 1
      BY <1>0
    <3>2. 1 \in 1 .. N
      BY <1>0
    <3>3. QED
      BY <1>7, <3>1, <3>2 DEF FlatFrom
  <2>6. QED
    BY <1>6, <2>4, <2>5
<1>10. QED
  BY <1>8, <1>9

(* A finite set in some order: its elements, each once.                     *)
LEMMA SetToSeqFacts ==
    ASSUME NEW S, IsFiniteSet(S)
    PROVE  /\ Lists!SetToSeq(S) \in Seq(S)
           /\ Distinct(Lists!SetToSeq(S))
<1> DEFINE N == Cardinality(S)
<1>0. Lists!Cardinality(S) = N
  BY DEF Lists!Cardinality, Cardinality
<1>1. N \in Nat
  BY FS_CardinalityType
<1>2. PICK f : f \in Bijection(1 .. N, S)
  BY FS_CardinalityType DEF ExistsBijection
<1>3. f \in [1 .. N -> S] /\ Lists!IsInjective(f)
  BY <1>2 DEF Bijection, Injection, Surjection, IsInjective, Lists!IsInjective
<1>4. Lists!SetToSeq(S) = CHOOSE g \in [1 .. N -> S] : Lists!IsInjective(g)
  BY <1>0 DEF Lists!SetToSeq
<1>5. Lists!SetToSeq(S) \in [1 .. N -> S] /\ Lists!IsInjective(Lists!SetToSeq(S))
  BY <1>3, <1>4
<1>6. QED
  BY <1>1, <1>5 DEF Distinct, Lists!IsInjective

(* Where each element of a flattened sequence is from: place at[p] of part  *)
(* from[p], one of the first n parts.                                       *)
Traces(ss, flat, n, from, at) ==
    /\ from \in [DOMAIN flat -> Nat] /\ at \in [DOMAIN flat -> Nat]
    /\ \A p \in DOMAIN flat :
          from[p] \in 1 .. n /\ at[p] \in DOMAIN ss[from[p]] /\ flat[p] = ss[from[p]][at[p]]
    /\ \A p, q \in DOMAIN flat : from[p] = from[q] /\ at[p] = at[q] => p = q
Traced(ss, flat, n) == \E from, at : Traces(ss, flat, n, from, at)

(* One more part keeps every element traced.                                *)
LEMMA TracedTogether ==
    ASSUME NEW T, NEW ss, NEW n \in Nat, NEW g \in Seq(T), ss[n + 1] \in Seq(T), Traced(ss, g, n)
    PROVE  Traced(ss, Joined(g, ss[n + 1]), n + 1)
<1> DEFINE s == ss[n + 1]  h == Joined(g, s)  L == Len(g)  M == Len(s)
<1>1. /\ L \in Nat /\ M \in Nat /\ DOMAIN g = 1 .. L /\ DOMAIN s = 1 .. M /\ DOMAIN h = 1 .. L + M
      /\ \A p \in 1 .. L : h[p] = g[p]
      /\ \A p \in 1 .. M : h[L + p] = s[p]
  <2> HIDE DEF s
  <2>1. s \in Seq(T)
    BY DEF s
  <2>2. QED
    BY <2>1 DEF Joined
<1> HIDE DEF h, L, M
<1>2. PICK from, at : Traces(ss, g, n, from, at)
  BY DEF Traced
<1>3. /\ from \in [1 .. L -> Nat] /\ at \in [1 .. L -> Nat]
      /\ \A p \in 1 .. L : from[p] \in 1 .. n /\ at[p] \in DOMAIN ss[from[p]] /\ g[p] = ss[from[p]][at[p]]
      /\ \A p, q \in 1 .. L : from[p] = from[q] /\ at[p] = at[q] => p = q
  BY <1>1, <1>2 DEF Traces
<1> DEFINE from2 == [p \in 1 .. L + M |-> IF p <= L THEN from[p] ELSE n + 1]
           at2 == [p \in 1 .. L + M |-> IF p <= L THEN at[p] ELSE p - L]
<1>4. from2 \in [1 .. L + M -> Nat] /\ at2 \in [1 .. L + M -> Nat]
  BY <1>1, <1>3
<1>5. /\ \A p \in 1 .. L : from2[p] = from[p] /\ at2[p] = at[p]
      /\ \A p \in L + 1 .. L + M : from2[p] = n + 1 /\ at2[p] = p - L
  BY <1>1
<1>6. \A p \in 1 .. L + M : p \in 1 .. L \/ p \in L + 1 .. L + M
  BY <1>1
<1> HIDE DEF from2, at2
<1>7. ASSUME NEW p \in 1 .. L + M
      PROVE  from2[p] \in 1 .. n + 1 /\ at2[p] \in DOMAIN ss[from2[p]] /\ h[p] = ss[from2[p]][at2[p]]
  <2>1. CASE p \in 1 .. L
    <3>1. \A i \in 1 .. n : i \in 1 .. n + 1
      OBVIOUS
    <3> HIDE DEF s
    <3>2. QED
      BY <1>1, <1>3, <1>5, <2>1, <3>1
  <2>2. CASE p \in L + 1 .. L + M
    <3>1. p - L \in 1 .. M /\ L + (p - L) = p /\ n + 1 \in 1 .. n + 1
      BY <1>1, <2>2
    <3>2. from2[p] = n + 1 /\ at2[p] = p - L
      BY <1>5, <2>2
    <3>3. h[L + (p - L)] = s[p - L]
      BY <1>1, <3>1
    <3>4. h[p] = s[p - L] /\ p - L \in DOMAIN s
      BY <1>1, <3>1, <3>3
    <3>5. QED
      BY <3>1, <3>2, <3>4
  <2>3. QED
    BY <1>6, <2>1, <2>2
<1>8. ASSUME NEW p \in 1 .. L + M, NEW q \in 1 .. L + M, from2[p] = from2[q], at2[p] = at2[q] PROVE p = q
  <2>1. \A r \in 1 .. L : from[r] # n + 1
    BY <1>3
  <2>2. CASE p \in 1 .. L /\ q \in 1 .. L
    BY <1>3, <1>5, <1>8, <2>2
  <2>3. CASE p \in L + 1 .. L + M /\ q \in L + 1 .. L + M
    <3>1. p - L = q - L
      BY <1>5, <1>8, <2>3
    <3>2. QED
      BY <1>1, <3>1
  <2>4. QED
    BY <1>5, <1>6, <1>8, <2>1, <2>2, <2>3
<1>9. Traces(ss, h, n + 1, from2, at2)
  BY <1>1, <1>4, <1>7, <1>8 DEF Traces
<1>10. QED
  BY <1>9 DEF Traced, h

(* A flattened sequence has the elements of its parts, each traced to its   *)
(* own place.                                                               *)
LEMMA FlattenFacts ==
    ASSUME NEW T, NEW ss \in Seq(Seq(T))
    PROVE  Lists!FlattenSeq(ss) \in Seq(T) /\ Traced(ss, Lists!FlattenSeq(ss), Len(ss))
<1> DEFINE N == Len(ss)
<1>0. N \in Nat /\ DOMAIN ss = 1 .. N /\ \A i \in 1 .. N : ss[i] \in Seq(T)
  OBVIOUS
<1>1. CASE N = 0
  <2>1. Lists!FlattenSeq(ss) = ss /\ ss = <<>> /\ DOMAIN ss = {}
    BY <1>0, <1>1 DEF Lists!FlattenSeq
  <2>2. [p \in {} |-> 0] \in [{} -> Nat]
    OBVIOUS
  <2>3. ss \in Seq(T)
    BY <2>1, EmptySeq
  <2>4. Traces(ss, ss, N, [p \in {} |-> 0], [p \in {} |-> 0])
    BY <2>1, <2>2 DEF Traces
  <2>5. QED
    BY <2>1, <2>3, <2>4 DEF Traced
<1>2. CASE N # 0
  <2>1. PICK f \in [1 .. N -> Seq(T)] : FlatFrom(ss, f, N) /\ Lists!FlattenSeq(ss) = f[N]
    BY <1>2, FlattenRecursion
  <2> DEFINE P == {n \in Nat : n + 1 <= N => Traced(ss, f[n + 1], n + 1)}
  <2>2. 0 \in P
    <3>1. 1 \in 1 .. N /\ f[1] = ss[1] /\ ss[1] \in Seq(T)
      BY <1>0, <1>2, <2>1 DEF FlatFrom
    <3> DEFINE from == [p \in DOMAIN f[1] |-> 1]  at == [p \in DOMAIN f[1] |-> p]
    <3>2. DOMAIN f[1] \subseteq Nat
      BY <3>1
    <3>3. from \in [DOMAIN f[1] -> Nat] /\ at \in [DOMAIN f[1] -> Nat]
      BY <3>2
    <3>4. \A p \in DOMAIN f[1] : from[p] = 1 /\ at[p] = p /\ from[p] \in 1 .. 1
      OBVIOUS
    <3> HIDE DEF from, at
    <3>5. Traces(ss, f[1], 1, from, at)
      BY <3>1, <3>3, <3>4 DEF Traces
    <3>6. QED
      BY <3>5 DEF Traced
  <2>3. ASSUME NEW n \in Nat, n \in P PROVE n + 1 \in P
    <3>1. SUFFICES ASSUME n + 2 <= N PROVE Traced(ss, f[n + 2], n + 2)
      OBVIOUS
    <3>2. n + 2 \in 2 .. N /\ n + 2 \in 1 .. N /\ n + 1 \in 1 .. N /\ n + 2 - 1 = n + 1 /\ n + 1 <= N
      BY <1>0, <3>1
    <3>3. f[n + 2] = Joined(f[n + 1], ss[n + 2])
      BY <2>1, <3>2 DEF FlatFrom
    <3>4. f[n + 1] \in Seq(T) /\ ss[n + 2] \in Seq(T)
      BY <1>0, <3>2
    <3>5. Traced(ss, f[n + 1], n + 1)
      BY <2>3, <3>2
    <3>6. n + 1 \in Nat /\ n + 1 + 1 = n + 2
      OBVIOUS
    <3>7. Traced(ss, Joined(f[n + 1], ss[n + 1 + 1]), n + 1 + 1)
      <4>1. ss[n + 1 + 1] \in Seq(T)
        BY <3>4, <3>6
      <4> HIDE DEF P
      <4>2. QED
        BY <3>4, <3>5, <3>6, <4>1, TracedTogether
    <3>8. QED
      BY <3>3, <3>6, <3>7
  <2>4. N - 1 \in Nat /\ N - 1 + 1 = N
    BY <1>0, <1>2
  <2>5. N - 1 \in P
    <3> HIDE DEF P
    <3>1. QED
      BY <2>2, <2>3, <2>4, Counting
  <2>6. Traced(ss, f[N], N)
    BY <1>0, <2>4, <2>5
  <2>7. f[N] \in Seq(T)
    <3>1. N \in 1 .. N
      BY <1>0, <1>2
    <3> HIDE DEF P
    <3>2. QED
      BY <2>1, <3>1
  <2>8. QED
    BY <2>1, <2>6, <2>7
<1>3. QED
  BY <1>1, <1>2

(* A strict order on a finite set that tells all its members apart has one  *)
(* that comes before every other.                                           *)
LEMMA FirstExists ==
    ASSUME NEW S, NEW R, IsFiniteSet(S), S # {},
           \A x, y \in S : x # y => <<x, y>> \in R \/ <<y, x>> \in R,
           \A x, y, z \in S : <<x, y>> \in R /\ <<y, z>> \in R => <<x, z>> \in R
    PROVE  \E x \in S : \A y \in S \ {x} : <<x, y>> \in R
<1> DEFINE first(T) == \E x \in T : \A y \in T \ {x} : <<x, y>> \in R
           P == {n \in Nat : \A T \in SUBSET S : Cardinality(T) = n /\ T # {} => first(T)}
<1>1. \A T \in SUBSET S : IsFiniteSet(T) /\ Cardinality(T) \in Nat
  BY FS_Subset, FS_CardinalityType
<1>2. 0 \in P
  BY <1>1, FS_EmptySet
<1>3. ASSUME NEW n \in Nat, n \in P PROVE n + 1 \in P
  <2>1. SUFFICES ASSUME NEW T \in SUBSET S, Cardinality(T) = n + 1, T # {} PROVE first(T)
    BY <1>3
  <2>2. PICK x \in T : TRUE
    BY <2>1
  <2>3. Cardinality(T \ {x}) = n /\ T \ {x} \in SUBSET S
    <3>1. IsFiniteSet(T) /\ x \in T
      BY <1>1, <2>1, <2>2
    <3>2. Cardinality(T \ {x}) = Cardinality(T) - 1
      BY <3>1, FS_RemoveElement
    <3>3. QED
      BY <2>1, <3>2
  <2>4. CASE T \ {x} = {}
    BY <2>2, <2>4
  <2>5. CASE T \ {x} # {}
    <3>1. PICK y \in T \ {x} : \A z \in (T \ {x}) \ {y} : <<y, z>> \in R
      BY <1>3, <2>3, <2>5
    <3>2. CASE <<y, x>> \in R
      BY <3>1, <3>2
    <3>3. CASE <<x, y>> \in R
      <4>1. \A z \in T \ {x} : <<x, z>> \in R
        BY <3>1, <3>3, <2>1, <2>2
      <4>2. QED
        BY <2>2, <4>1
    <3>4. QED
      BY <2>1, <2>2, <3>1, <3>2, <3>3
  <2>6. QED
    BY <2>4, <2>5
<1> HIDE DEF P
<1>4. \A n \in Nat : n \in P
  BY <1>2, <1>3, Counting
<1>5. Cardinality(S) \in P
  BY <1>1, <1>4
<1>6. QED
  BY <1>5 DEF P

(* There are finitely many functions between finite sets.                   *)
LEMMA FunctionsAreFinite ==
    ASSUME NEW S, NEW T, IsFiniteSet(S), IsFiniteSet(T)
    PROVE  IsFiniteSet([S -> T])
<1> DEFINE graph == [f \in [S -> T] |-> {<<x, f[x]>> : x \in S}]
<1>1. IsFiniteSet(SUBSET (S \X T))
  BY FS_Product, FS_SUBSET
<1>2. graph \in [[S -> T] -> SUBSET (S \X T)]
  OBVIOUS
<1>3. ASSUME NEW f \in [S -> T], NEW g \in [S -> T], graph[f] = graph[g] PROVE f = g
  <2>1. ASSUME NEW x \in S PROVE f[x] = g[x]
    <3>1. <<x, f[x]>> \in graph[g]
      BY <1>3
    <3>2. PICK y \in S : <<x, f[x]>> = <<y, g[y]>>
      BY <3>1
    <3>3. QED
      BY <3>2
  <2>2. QED
    BY <2>1
<1> HIDE DEF graph
<1>4. graph \in Injection([S -> T], SUBSET (S \X T))
  BY <1>2, <1>3 DEF Injection, IsInjective
<1>5. QED
  BY <1>1, <1>4, FS_Injection

(* A problem as large as numbers can be.                                    *)
Sized(m) == m.nodes \in Nat /\ m.columns \in Nat

(* There are finitely many ordered assignments, and one at least.           *)
LEMMA OrderedAreSome ==
    ASSUME NEW m, Sized(m), None \notin Int
    PROVE  /\ IsFiniteSet(Engine!Ordered(m)) /\ Engine!Ordered(m) # {}
           /\ Engine!Partitions(m) \subseteq Engine!Ordered(m)
<1>1. Engine!Partitions(m) \subseteq Engine!Ordered(m)
  BY DEF Engine!Partitions
<1> DEFINE nodes == Engine!NodesOf(m)  targets == Engine!ColumnsOf(m) \union {None}
           nothing == [i \in nodes |-> None]
<1>2. nothing \in Engine!Ordered(m)
  BY DEF Engine!Ordered
<1>3. IsFiniteSet(nodes) /\ IsFiniteSet(targets)
  <2>1. m.nodes - 1 \in Int /\ m.columns - 1 \in Int
    BY DEF Sized
  <2>2. IsFiniteSet(0 .. m.nodes - 1) /\ IsFiniteSet(0 .. m.columns - 1)
    BY <2>1, FS_Interval
  <2>3. QED
    BY <2>2, FS_AddElement DEF Engine!NodesOf, Engine!ColumnsOf
<1>4. IsFiniteSet([nodes -> targets])
  BY <1>3, FunctionsAreFinite
<1>5. Engine!Ordered(m) \in SUBSET [nodes -> targets]
  BY DEF Engine!Ordered
<1>6. IsFiniteSet(Engine!Ordered(m))
  BY <1>4, <1>5, FS_Subset
<1>7. QED
  BY <1>1, <1>2, <1>6

(* Every instance counts alike.                                             *)
LEMMA SameCardinality ==
    \A S : Engine!Cardinality(S) = Cardinality(S) /\ Lists!Cardinality(S) = Cardinality(S)
BY DEF Engine!Cardinality, Lists!Cardinality, Cardinality

(* A set of naturals has a least member.                                    *)
LEMMA LeastOf ==
    ASSUME NEW S, S \subseteq Nat, S # {}
    PROVE  \E n \in S : \A k \in S : n <= k
<1>1. PICK n \in S : \A k \in S : ~(<<k, n>> \in OpToRel(<, Nat))
  BY NatLessThanWellFounded, WFMin
<1>2. \A k \in S : ~(k < n)
  BY <1>1 DEF OpToRel
<1>3. QED
  BY <1>2

(* Shares of the nodes are counted by naturals,                             *)
LEMMA CountsAreNatural ==
    ASSUME NEW m, Sized(m), NEW f
    PROVE  /\ \A c : IsFiniteSet(Engine!Taken(m, f, c)) /\ Engine!CountOf(m, f, c) \in Nat
           /\ Engine!LeftOut(m, f) \in Nat /\ Engine!EdgeTotal(m, f) \in Nat
<1> DEFINE nodes == 0 .. m.nodes - 1
           edged == {i \in nodes : f[i] # None /\ m.edges[f[i]][i] = 1}
<1>1. IsFiniteSet(nodes)
  <2>1. m.nodes - 1 \in Int
    BY DEF Sized
  <2>2. QED
    BY <2>1, FS_Interval
<1>2. \A S \in SUBSET nodes : IsFiniteSet(S) /\ Cardinality(S) \in Nat
  BY <1>1, FS_Subset, FS_CardinalityType
<1>3. ASSUME NEW c PROVE IsFiniteSet(Engine!Taken(m, f, c)) /\ Engine!CountOf(m, f, c) \in Nat
  <2>1. Engine!Taken(m, f, c) \in SUBSET nodes
    BY DEF Engine!Taken, Engine!NodesOf
  <2>2. QED
    BY <1>2, <2>1, SameCardinality DEF Engine!CountOf
<1>4. Engine!EdgeTotal(m, f) \in Nat
  <2>1. edged \in SUBSET nodes
    OBVIOUS
  <2>2. Engine!EdgeTotal(m, f) = Cardinality(edged)
    BY SameCardinality DEF Engine!EdgeTotal, Engine!NodesOf
  <2>3. QED
    BY <1>2, <2>1, <2>2
<1>5. QED
  BY <1>3, <1>4 DEF Engine!LeftOut

(* of two partitions one is preferred: with equal shares they are equal,    *)
LEMMA PartitionsDiffer ==
    ASSUME NEW m, Sized(m), None \notin Int,
           NEW f \in Engine!Partitions(m), NEW g \in Engine!Partitions(m), f # g
    PROVE  Engine!PreferredPartition(m, f, g) \/ Engine!PreferredPartition(m, g, f)
<1> USE DEF Engine!NodesOf, Engine!ColumnsOf
<1>1. ASSUME NEW h \in Engine!Partitions(m)
      PROVE  /\ h \in [0 .. m.nodes - 1 -> 0 .. m.columns - 1]
             /\ \A i, j \in 0 .. m.nodes - 1 : i < j => h[i] <= h[j]
  <2>1. h \in Engine!Ordered(m) /\ Engine!LeftOut(m, h) = 0
    BY DEF Engine!Partitions
  <2>2. IsFiniteSet(Engine!Taken(m, h, None)) /\ Cardinality(Engine!Taken(m, h, None)) = 0
    BY <2>1, CountsAreNatural, SameCardinality DEF Engine!LeftOut, Engine!CountOf
  <2>3. Engine!Taken(m, h, None) = {}
    BY <2>2, FS_EmptySet
  <2>4. \A i \in 0 .. m.nodes - 1 : h[i] # None
    BY <2>3 DEF Engine!Taken
  <2>5. h \in [0 .. m.nodes - 1 -> (0 .. m.columns - 1) \union {None}]
    BY <2>1 DEF Engine!Ordered
  <2>6. QED
    BY <2>1, <2>4, <2>5 DEF Engine!Ordered
<1>12. \A h \in Engine!Partitions(m), i \in 0 .. m.nodes - 1 : h[i] \in Int
  <2>1. 0 .. m.columns - 1 \subseteq Int
    BY DEF Sized
  <2>2. QED
    BY <1>1, <2>1
<1> DEFINE node == 0 .. m.nodes - 1
           differ == {i \in node : f[i] # g[i]}
<1>2. node \subseteq Nat /\ differ \subseteq Nat /\ differ # {}
  BY <1>1 DEF Sized
<1>3. PICK i \in differ : \A j \in differ : i <= j
  BY <1>2, LeastOf
<1>4. ASSUME NEW a \in Engine!Partitions(m), NEW b \in Engine!Partitions(m),
             \A j \in 0 .. i - 1 : a[j] = b[j], a[i] < b[i]
      PROVE  Engine!CountOf(m, b, a[i]) < Engine!CountOf(m, a, a[i])
  <2> DEFINE c == a[i]  A == Engine!Taken(m, a, c)  B == Engine!Taken(m, b, c)
  <2>1. A = {j \in node : a[j] = c} /\ B = {j \in node : b[j] = c}
    BY DEF Engine!Taken
  <2>2. ASSUME NEW j \in B PROVE j \in A
    <3>1. j < i
      <4>1. j \in node /\ i \in node /\ b[j] = c /\ b[i] \in Int /\ b[j] \in Int /\ c \in Int
        BY <1>12, <1>3, <2>1
      <4>2. i < j => b[i] <= b[j]
        BY <1>1, <4>1
      <4>3. i # j
        BY <1>4, <4>1
      <4>4. QED
        BY <1>2, <1>4, <4>1, <4>2, <4>3
    <3>2. j \in 0 .. i - 1
      BY <1>2, <2>1, <3>1
    <3>3. QED
      BY <1>4, <2>1, <3>2
  <2>3. i \in A /\ i \notin B
    <3>1. i \in node /\ b[i] \in Int /\ a[i] \in Int
      BY <1>12, <1>3
    <3>2. QED
      BY <1>4, <2>1, <3>1
  <2>4. IsFiniteSet(A) /\ Cardinality(A) \in Nat
    BY CountsAreNatural, FS_CardinalityType
  <2>5. B \in SUBSET A /\ A # B
    BY <2>2, <2>3
  <2> HIDE DEF A, B, c
  <2>6. Cardinality(B) <= Cardinality(A) /\ Cardinality(A) # Cardinality(B)
    BY <2>4, <2>5, FS_Subset
  <2>7. IsFiniteSet(B) /\ Cardinality(B) \in Nat
    BY <2>4, <2>5, FS_Subset, FS_CardinalityType
  <2>8. Cardinality(B) < Cardinality(A)
    BY <2>4, <2>6, <2>7
  <2>9. QED
    BY <2>8, SameCardinality DEF Engine!CountOf, A, B, c
<1>5. PICK c \in 0 .. m.columns - 1 : Engine!CountOf(m, f, c) # Engine!CountOf(m, g, c)
  <2>1. \A j \in 0 .. i - 1 : f[j] = g[j]
    <3>1. \A j \in 0 .. i - 1 : j \in node /\ ~(i <= j)
      BY <1>2, <1>3 DEF Sized
    <3>2. QED
      BY <1>3, <3>1
  <2>2. f[i] \in 0 .. m.columns - 1 /\ g[i] \in 0 .. m.columns - 1 /\ f[i] # g[i]
    BY <1>1, <1>3
  <2>3. CASE f[i] < g[i]
    <3>1. Engine!CountOf(m, g, f[i]) < Engine!CountOf(m, f, f[i])
      BY <1>4, <2>1, <2>3
    <3>2. QED
      BY <2>2, <3>1, CountsAreNatural
  <2>4. CASE g[i] < f[i]
    <3>1. Engine!CountOf(m, f, g[i]) < Engine!CountOf(m, g, g[i])
      BY <1>4, <2>1, <2>4
    <3>2. QED
      BY <2>2, <3>1, CountsAreNatural
  <2>5. QED
    BY <2>2, <2>3, <2>4 DEF Sized
<1> DEFINE unlike == {d \in 0 .. m.columns - 1 : Engine!CountOf(m, f, d) # Engine!CountOf(m, g, d)}
<1>6. unlike \subseteq Nat /\ unlike # {}
  BY <1>5 DEF Sized
<1>7. PICK d \in unlike : \A e \in unlike : d <= e
  BY <1>6, LeastOf
<1>8. \A e \in 0 .. d - 1 : Engine!CountOf(m, f, e) = Engine!CountOf(m, g, e)
  <2>1. \A e \in 0 .. d - 1 : e \in 0 .. m.columns - 1 /\ ~(d <= e)
    BY <1>6, <1>7 DEF Sized
  <2>2. QED
    BY <1>7, <2>1
<1>9. /\ Engine!CountOf(m, f, d) \in Nat /\ Engine!CountOf(m, g, d) \in Nat
      /\ Engine!EdgeTotal(m, f) \in Nat /\ Engine!EdgeTotal(m, g) \in Nat
  BY CountsAreNatural
<1>10. d \in 0 .. m.columns - 1 /\ Engine!CountOf(m, f, d) # Engine!CountOf(m, g, d)
  BY <1>7
<1>11. QED
  BY <1>8, <1>9, <1>10 DEF Engine!PreferredPartition

(* and the preference extends along a chain.                                *)
LEMMA PartitionsChain ==
    ASSUME NEW m, Sized(m), NEW f, NEW g, NEW h,
           Engine!PreferredPartition(m, f, g), Engine!PreferredPartition(m, g, h)
    PROVE  Engine!PreferredPartition(m, f, h)
<1> DEFINE E(x) == Engine!EdgeTotal(m, x)
           C(x, c) == Engine!CountOf(m, x, c)
           better(x, y, c) == /\ \A d \in 0 .. c - 1 : C(x, d) = C(y, d)
                              /\ IF m.kinds[c] = "wildcard" THEN C(x, c) < C(y, c) ELSE C(x, c) > C(y, c)
           column == 0 .. m.columns - 1
<1>1. \A x, y : Engine!PreferredPartition(m, x, y) <=>
                  E(x) < E(y) \/ (E(x) = E(y) /\ \E c \in column : better(x, y, c))
  BY DEF Engine!PreferredPartition, Engine!ColumnsOf
<1>2. E(f) \in Nat /\ E(g) \in Nat /\ E(h) \in Nat
  BY CountsAreNatural
<1>3. \A c : C(f, c) \in Nat /\ C(g, c) \in Nat /\ C(h, c) \in Nat
  BY CountsAreNatural
<1>4. column \subseteq Nat
  BY DEF Sized
<1> HIDE DEF E, C, column
<1>5. CASE E(f) = E(g) /\ E(g) = E(h)
  <2>1. PICK c \in column : better(f, g, c)
    BY <1>1, <1>2, <1>5
  <2>2. PICK d \in column : better(g, h, d)
    BY <1>1, <1>2, <1>5
  <2>3. c \in Nat /\ d \in Nat
    BY <1>4
  <2>4. CASE c < d
    <3>1. C(g, c) = C(h, c) /\ \A e \in 0 .. c - 1 : e \in 0 .. d - 1
      BY <2>2, <2>3, <2>4
    <3>2. better(f, h, c)
      BY <2>1, <2>2, <3>1
    <3>3. QED
      BY <1>1, <1>5, <3>2
  <2>5. CASE d < c
    <3>1. C(f, d) = C(g, d) /\ \A e \in 0 .. d - 1 : e \in 0 .. c - 1
      BY <2>1, <2>3, <2>5
    <3>2. better(f, h, d)
      BY <2>1, <2>2, <3>1
    <3>3. QED
      BY <1>1, <1>5, <3>2
  <2>6. CASE c = d
    <3>1. better(f, h, c)
      BY <1>3, <2>1, <2>2, <2>6
    <3>2. QED
      BY <1>1, <1>5, <3>1
  <2>7. QED
    BY <2>3, <2>4, <2>5, <2>6
<1>6. CASE ~(E(f) = E(g) /\ E(g) = E(h))
  <2>1. E(f) <= E(g) /\ E(g) <= E(h)
    BY <1>1, <1>2
  <2>2. E(f) < E(h)
    BY <1>2, <1>6, <2>1
  <2>3. QED
    BY <1>1, <2>2
<1>7. QED
  BY <1>5, <1>6

(* Where recovery stands at a node depends on the nodes before it, and is   *)
(* no later than the rule of the node.                                      *)
LEMMA StandsFacts ==
    ASSUME NEW m, Sized(m), None \notin Int, NEW f \in Engine!Ordered(m), NEW i \in Engine!NodesOf(m)
    PROVE  /\ Engine!StandsAt(f, i) \in Nat
           /\ f[i] # None => f[i] \in Nat /\ Engine!StandsAt(f, i) <= f[i]
           /\ Engine!Rank(f, i) \in Nat
           /\ \A g : (\A j \in 0 .. i - 1 : f[j] = g[j]) => Engine!StandsAt(f, i) = Engine!StandsAt(g, i)
<1> DEFINE before == {f[j] : j \in 0 .. i - 1} \ {None}
           latest(b) == IF b = {} THEN 0 ELSE CHOOSE c \in b : \A d \in b : d <= c
<1>1. Engine!StandsAt(f, i) = latest(before)
  BY DEF Engine!StandsAt
<1>2. ASSUME NEW g, \A j \in 0 .. i - 1 : f[j] = g[j] PROVE Engine!StandsAt(f, i) = Engine!StandsAt(g, i)
  <2>1. {f[j] : j \in 0 .. i - 1} \ {None} = {g[j] : j \in 0 .. i - 1} \ {None}
    BY <1>2
  <2>2. Engine!StandsAt(g, i) = latest({g[j] : j \in 0 .. i - 1} \ {None})
    BY DEF Engine!StandsAt
  <2> HIDE DEF latest
  <2>3. QED
    BY <1>1, <2>1, <2>2
<1>3. /\ i \in Nat /\ i \in 0 .. m.nodes - 1 /\ \A j \in 0 .. i - 1 : j \in 0 .. m.nodes - 1 /\ j < i
  BY DEF Engine!NodesOf, Sized
<1>4. /\ \A j \in 0 .. m.nodes - 1 : f[j] # None => f[j] \in 0 .. m.columns - 1
      /\ \A j, k \in 0 .. m.nodes - 1 : j < k /\ f[j] # None /\ f[k] # None => f[j] <= f[k]
  BY DEF Engine!Ordered, Engine!NodesOf, Engine!ColumnsOf
<1>5. before \subseteq 0 .. m.columns - 1 /\ before \subseteq Nat
  <2>1. before \subseteq 0 .. m.columns - 1
    BY <1>3, <1>4
  <2>2. QED
    BY <2>1 DEF Sized
<1>6. CASE before = {}
  <2>1. Engine!StandsAt(f, i) = 0
    BY <1>1, <1>6
  <2>2. f[i] # None => f[i] \in Nat
    BY <1>3, <1>4 DEF Sized
  <2>3. QED
    BY <1>2, <2>1, <2>2 DEF Engine!Rank
<1>7. CASE before # {}
  <2> DEFINE gaps == {n \in Nat : \E c \in before : n = m.columns - c}
  <2>1. gaps # {} /\ gaps \subseteq Nat
    <3>1. PICK c \in before : c \in 0 .. m.columns - 1
      BY <1>5, <1>7
    <3>2. m.columns - c \in gaps
      BY <3>1 DEF Sized
    <3>3. QED
      BY <3>2
  <2>2. PICK n \in gaps : \A k \in gaps : n <= k
    BY <2>1, LeastOf
  <2>3. PICK c \in before : n = m.columns - c
    BY <2>2
  <2>4. ASSUME NEW d \in before PROVE d <= c
    <3>1. d \in 0 .. m.columns - 1 /\ c \in 0 .. m.columns - 1
      BY <1>5
    <3>2. m.columns - d \in gaps
      BY <3>1 DEF Sized
    <3>3. m.columns - c <= m.columns - d
      BY <2>2, <2>3, <3>2
    <3>4. QED
      BY <3>1, <3>3 DEF Sized
  <2> HIDE DEF before
  <2>5. latest(before) \in before
    <3>1. latest(before) = CHOOSE b \in before : \A d \in before : d <= b
      BY <1>7
    <3>2. QED
      BY <2>4, <3>1
  <2>6. Engine!StandsAt(f, i) \in before
    BY <1>1, <2>5
  <2>7. PICK j \in 0 .. i - 1 : Engine!StandsAt(f, i) = f[j] /\ f[j] # None
    BY <2>6 DEF before
  <2>8. Engine!StandsAt(f, i) \in Nat
    BY <1>5, <2>6
  <2>9. f[i] # None => f[i] \in Nat /\ Engine!StandsAt(f, i) <= f[i]
    BY <1>3, <1>4, <2>7 DEF Sized
  <2>10. QED
    BY <1>2, <2>8, <2>9 DEF Engine!Rank
<1>8. QED
  BY <1>6, <1>7

(* Of two orderings one is preferred in recovery,                           *)
LEMMA RecoveriesDiffer ==
    ASSUME NEW m, Sized(m), None \notin Int,
           NEW f \in Engine!Ordered(m), NEW g \in Engine!Ordered(m), f # g
    PROVE  Engine!PreferredRecovery(m, f, g) \/ Engine!PreferredRecovery(m, g, f)
<1> DEFINE node == Engine!NodesOf(m)  differ == {i \in node : f[i] # g[i]}
<1>1. node \subseteq Nat /\ node = 0 .. m.nodes - 1
  BY DEF Engine!NodesOf, Sized
<1>2. differ \subseteq Nat /\ differ # {}
  <2>1. f = [i \in node |-> f[i]] /\ g = [i \in node |-> g[i]]
    BY DEF Engine!Ordered
  <2>2. QED
    BY <1>1, <2>1
<1>3. PICK i \in differ : \A j \in differ : i <= j
  BY <1>2, LeastOf
<1>4. \A j \in 0 .. i - 1 : f[j] = g[j]
  <2>1. \A j \in 0 .. i - 1 : j \in node /\ ~(i <= j)
    BY <1>1, <1>3 DEF Sized
  <2>2. QED
    BY <1>3, <2>1
<1>5. Engine!StandsAt(f, i) = Engine!StandsAt(g, i)
  BY <1>3, <1>4, StandsFacts
<1>6. Engine!Rank(f, i) # Engine!Rank(g, i)
  <2>1. /\ Engine!StandsAt(f, i) \in Nat
        /\ f[i] # None => f[i] \in Nat /\ Engine!StandsAt(f, i) <= f[i]
        /\ g[i] # None => g[i] \in Nat /\ Engine!StandsAt(f, i) <= g[i]
    BY <1>3, <1>5, StandsFacts
  <2>2. f[i] # g[i]
    BY <1>3
  <2>3. QED
    BY <1>5, <2>1, <2>2 DEF Engine!Rank
<1>7. /\ Engine!Rank(f, i) \in Nat /\ Engine!Rank(g, i) \in Nat
      /\ Engine!EdgeTotal(m, f) \in Nat /\ Engine!EdgeTotal(m, g) \in Nat
      /\ Engine!LeftOut(m, f) \in Nat /\ Engine!LeftOut(m, g) \in Nat
  BY <1>3, StandsFacts, CountsAreNatural
<1>8. QED
  BY <1>3, <1>4, <1>6, <1>7 DEF Engine!PreferredRecovery

(* and this extends along a chain.                                          *)
LEMMA RecoveriesChain ==
    ASSUME NEW m, Sized(m), None \notin Int,
           NEW f \in Engine!Ordered(m), NEW g \in Engine!Ordered(m), NEW h \in Engine!Ordered(m),
           Engine!PreferredRecovery(m, f, g), Engine!PreferredRecovery(m, g, h)
    PROVE  Engine!PreferredRecovery(m, f, h)
<1> DEFINE E(x) == Engine!EdgeTotal(m, x)
           L(x) == Engine!LeftOut(m, x)
           R(x, i) == Engine!Rank(x, i)
           node == Engine!NodesOf(m)
           better(x, y, i) == (\A j \in 0 .. i - 1 : x[j] = y[j]) /\ R(x, i) < R(y, i)
<1>1. \A x, y : Engine!PreferredRecovery(m, x, y) <=>
                  L(x) < L(y) \/ (L(x) = L(y) /\ (E(x) < E(y) \/ (E(x) = E(y) /\ \E i \in node : better(x, y, i))))
  BY DEF Engine!PreferredRecovery
<1>2. /\ E(f) \in Nat /\ E(g) \in Nat /\ E(h) \in Nat
      /\ L(f) \in Nat /\ L(g) \in Nat /\ L(h) \in Nat
  BY CountsAreNatural
<1>3. \A i \in node : R(f, i) \in Nat /\ R(g, i) \in Nat /\ R(h, i) \in Nat
  BY StandsFacts
<1>4. node \subseteq Nat
  BY DEF Engine!NodesOf, Sized
<1>5. ASSUME NEW x \in Engine!Ordered(m), NEW y \in Engine!Ordered(m), NEW i \in node,
             \A j \in 0 .. i - 1 : x[j] = y[j], x[i] = y[i]
      PROVE  R(x, i) = R(y, i)
  BY <1>5, StandsFacts DEF Engine!Rank
<1> HIDE DEF E, L, R, node
<1>6. CASE E(f) = E(g) /\ E(g) = E(h) /\ L(f) = L(g) /\ L(g) = L(h)
  <2>1. PICK c \in node : better(f, g, c)
    BY <1>1, <1>2, <1>6
  <2>2. PICK d \in node : better(g, h, d)
    BY <1>1, <1>2, <1>6
  <2>3. c \in Nat /\ d \in Nat
    BY <1>4
  <2>4. CASE c < d
    <3>1. g[c] = h[c] /\ \A e \in 0 .. c - 1 : e \in 0 .. d - 1
      BY <2>2, <2>3, <2>4
    <3>2. R(g, c) = R(h, c)
      BY <1>5, <2>2, <3>1
    <3>3. better(f, h, c)
      BY <2>1, <2>2, <3>1, <3>2
    <3>4. QED
      BY <1>1, <1>6, <3>3
  <2>5. CASE d < c
    <3>1. f[d] = g[d] /\ \A e \in 0 .. d - 1 : e \in 0 .. c - 1
      BY <2>1, <2>3, <2>5
    <3>2. R(f, d) = R(g, d)
      BY <1>5, <2>1, <3>1
    <3>3. better(f, h, d)
      BY <2>1, <2>2, <3>1, <3>2
    <3>4. QED
      BY <1>1, <1>6, <3>3
  <2>6. CASE c = d
    <3>1. better(f, h, c)
      BY <1>3, <2>1, <2>2, <2>6
    <3>2. QED
      BY <1>1, <1>6, <3>1
  <2>7. QED
    BY <2>3, <2>4, <2>5, <2>6
<1>7. CASE ~(E(f) = E(g) /\ E(g) = E(h) /\ L(f) = L(g) /\ L(g) = L(h))
  <2>1. /\ L(f) < L(g) \/ (L(f) = L(g) /\ E(f) <= E(g))
        /\ L(g) < L(h) \/ (L(g) = L(h) /\ E(g) <= E(h))
    BY <1>1, <1>2
  <2>2. L(f) < L(h) \/ (L(f) = L(h) /\ E(f) < E(h))
    BY <1>2, <1>7, <2>1
  <2>3. QED
    BY <1>1, <2>2
<1>8. QED
  BY <1>6, <1>7

(* The engine reports an ordering.                                          *)
LEMMA VerdictIsOrdered ==
    ASSUME NEW m, Sized(m), None \notin Int
    PROVE  Engine!Verdict(m).assigned \in Engine!Ordered(m)
<1> DEFINE partitions == Engine!Partitions(m)
           possible == IF partitions # {} THEN partitions ELSE Engine!Ordered(m)
           preferred(f, g) == IF partitions # {} THEN Engine!PreferredPartition(m, f, g)
                                                 ELSE Engine!PreferredRecovery(m, f, g)
           R == {r \in possible \X possible : preferred(r[1], r[2])}
<1>1. /\ IsFiniteSet(Engine!Ordered(m)) /\ Engine!Ordered(m) # {} /\ partitions \subseteq Engine!Ordered(m)
  BY OrderedAreSome
<1>2. IsFiniteSet(possible) /\ possible # {} /\ possible \subseteq Engine!Ordered(m)
  <2>1. possible \in SUBSET Engine!Ordered(m) /\ possible # {}
    BY <1>1
  <2>2. QED
    BY <1>1, <2>1, FS_Subset
<1>3. \A x, y \in possible : x # y => preferred(x, y) \/ preferred(y, x)
  BY PartitionsDiffer, RecoveriesDiffer
<1>4. \A x, y, z \in possible : preferred(x, y) /\ preferred(y, z) => preferred(x, z)
  BY PartitionsChain, RecoveriesChain
<1>5. Engine!Verdict(m).assigned = CHOOSE f \in possible : \A g \in possible \ {f} : preferred(f, g)
  BY DEF Engine!Verdict
<1> HIDE DEF partitions, possible, preferred
<1>6. \A x, y \in possible : <<x, y>> \in R <=> preferred(x, y)
  OBVIOUS
<1> HIDE DEF R
<1>7. \E x \in possible : \A y \in possible \ {x} : <<x, y>> \in R
  <2>1. \A x, y \in possible : x # y => <<x, y>> \in R \/ <<y, x>> \in R
    BY <1>3, <1>6
  <2>2. \A x, y, z \in possible : <<x, y>> \in R /\ <<y, z>> \in R => <<x, z>> \in R
    BY <1>4, <1>6
  <2>3. QED
    BY <1>2, <2>1, <2>2, FirstExists
<1>8. \E x \in possible : \A y \in possible \ {x} : preferred(x, y)
  BY <1>6, <1>7
<1>9. Engine!Verdict(m).assigned \in possible
  BY <1>5, <1>8
<1>10. QED
  BY <1>2, <1>9

(* A sequence has a length, and its elements at the numbers up to it.       *)
LEMMA SeqFacts ==
    ASSUME NEW s, IsSeq(s)
    PROVE  /\ Len(s) \in Nat /\ DOMAIN s = 1 .. Len(s) /\ s \in Seq(Lists!ToSet(s))
           /\ \A i \in DOMAIN s : s[i] \in Lists!ToSet(s)
BY DEF IsSeq, Lists!ToSet

(* Any sequence is one of its own elements.                                 *)
LEMMA SeqIsSeq ==
    ASSUME NEW T, NEW s \in Seq(T)
    PROVE  IsSeq(s) /\ Lists!ToSet(s) \subseteq T
BY DEF IsSeq, Lists!ToSet

(* A function on a finite set has finitely many values.                     *)
LEMMA ValuesAreFinite ==
    ASSUME NEW f, IsFiniteSet(DOMAIN f)
    PROVE  IsFiniteSet({f[x] : x \in DOMAIN f})
<1> DEFINE D == DOMAIN f  V == {f[x] : x \in D}  back == [v \in V |-> CHOOSE x \in D : f[x] = v]
<1>1. \A v \in V : back[v] \in D /\ f[back[v]] = v
  OBVIOUS
<1>2. back \in [V -> D]
  OBVIOUS
<1> HIDE DEF back
<1>3. \A v, w \in V : back[v] = back[w] => v = w
  BY <1>1
<1>4. back \in Injection(V, D)
  BY <1>2, <1>3 DEF Injection, IsInjective
<1> HIDE DEF D
<1>5. IsFiniteSet(D)
  BY DEF D
<1>6. IsFiniteSet(V)
  BY <1>4, <1>5, FS_Injection
<1>7. QED
  BY <1>6 DEF D

(* A finite family of finite sets has finitely many members.                *)
LEMMA FamilyIsFinite ==
    ASSUME NEW f, IsFiniteSet(DOMAIN f), \A x \in DOMAIN f : IsFiniteSet(f[x])
    PROVE  IsFiniteSet(UNION {f[x] : x \in DOMAIN f})
<1>1. IsFiniteSet({f[x] : x \in DOMAIN f})
  BY ValuesAreFinite
<1>2. \A T \in {f[x] : x \in DOMAIN f} : IsFiniteSet(T)
  OBVIOUS
<1>3. QED
  BY <1>1, <1>2, FS_UNION

(* A sequence has finitely many elements.                                   *)
LEMMA ToSetIsFinite ==
    ASSUME NEW s, IsSeq(s)
    PROVE  IsFiniteSet(DOMAIN s) /\ IsFiniteSet(Lists!ToSet(s))
<1>1. DOMAIN s = 1 .. Len(s) /\ Len(s) \in Nat
  BY SeqFacts
<1>2. IsFiniteSet(DOMAIN s)
  BY <1>1, FS_Interval
<1>3. Lists!ToSet(s) = {s[x] : x \in DOMAIN s}
  BY DEF Lists!ToSet
<1>4. QED
  BY <1>2, <1>3, ValuesAreFinite

-----------------------------------------------------------------------------
(* Rules are numbered from 1.                                               *)
RuleOf(rules) == 1 .. Len(rules)

(* Each of n nodes has a rule or none.                                      *)
Assigns(assigned, rules, n) ==
    DOMAIN assigned = 1 .. n /\ \A i \in 1 .. n : assigned[i] = None \/ assigned[i] \in RuleOf(rules)

(* An ordered sequence assigns each node a rule or none: the engine does,   *)
LEMMA AssignInOrderFacts ==
    ASSUME NEW rules, IsSeq(rules), NEW names, Len(names) \in Nat
    PROVE  Assigns(AssignInOrder(rules, names), rules, Len(names))
<1> DEFINE m == Problem(rules, names)  f == Engine!Verdict(m).assigned  n == Len(names)  k == Len(rules)
<1>1. m.nodes = n /\ m.columns = k /\ n \in Nat /\ k \in Nat
  BY SeqFacts DEF Problem
<1>2. None \notin Int
  BY NoneIsApart
<1>3. f \in Engine!Ordered(m)
  <2> HIDE DEF m
  <2>1. Sized(m)
    BY <1>1 DEF Sized
  <2>2. QED
    BY <1>2, <2>1, VerdictIsOrdered
<1> HIDE DEF f, m
<1>4. \A i \in 0 .. n - 1 : f[i] \in (0 .. k - 1) \union {None}
  BY <1>1, <1>3 DEF Engine!Ordered, Engine!NodesOf, Engine!ColumnsOf
<1>5. \A i \in 1 .. n : f[i - 1] = None \/ f[i - 1] + 1 \in 1 .. k
  <2>1. \A i \in 1 .. n : i - 1 \in 0 .. n - 1
    BY <1>1
  <2>2. \A c \in 0 .. k - 1 : c + 1 \in 1 .. k
    BY <1>1
  <2>3. QED
    BY <1>4, <2>1, <2>2
<1>6. AssignInOrder(rules, names) = [i \in 1 .. n |-> IF f[i - 1] = None THEN None ELSE f[i - 1] + 1]
  BY DEF AssignInOrder, f, m
<1>7. QED
  BY <1>5, <1>6 DEF Assigns, RuleOf

(* and so does a sequence that takes the first rule.                        *)
LEMMA AssignFirstFacts ==
    ASSUME NEW rules, IsSeq(rules), NEW names
    PROVE  Assigns(AssignFirst(rules, names), rules, Len(names))
<1>1. ASSUME NEW name PROVE FirstAccepting(rules, name) = None \/ FirstAccepting(rules, name) \in RuleOf(rules)
  <2> DEFINE accepting == {c \in 1 .. Len(rules) : Accepts(rules[c], name)}
  <2>1. FirstAccepting(rules, name) = IF accepting = {} THEN None ELSE CHOOSE c \in accepting : \A d \in accepting : c <= d
    BY DEF FirstAccepting
  <2>2. accepting \subseteq Nat /\ accepting \subseteq RuleOf(rules)
    BY SeqFacts DEF RuleOf
  <2> HIDE DEF accepting
  <2>3. accepting # {} => \E c \in accepting : \A d \in accepting : c <= d
    BY <2>2, LeastOf
  <2>4. QED
    BY <2>1, <2>2, <2>3
<1>2. QED
  BY <1>1 DEF AssignFirst, Assigns

-----------------------------------------------------------------------------
(* What a sequence is reported for.                                         *)

(* What is said of a node that no rule takes: one thing, at the node.       *)
LEMMA LeftOverFacts ==
    ASSUME NEW kind, NEW rules, NEW names, NEW n \in Nat, NEW assigned, DOMAIN assigned = 1 .. n,
           NEW anchors, NEW by
    PROVE  /\ IsFiniteSet(LeftOver(kind, rules, names, assigned, anchors, by))
           /\ \A d \in LeftOver(kind, rules, names, assigned, anchors, by) :
                 \E i \in 1 .. n : /\ assigned[i] = None /\ d.at = anchors[i]
                                   /\ d.id \in {<<"unexpected", kind>>, <<"misplaced", kind>>}
           /\ \A d, e \in LeftOver(kind, rules, names, assigned, anchors, by) :
                 (\A i, j \in 1 .. n : anchors[i] = anchors[j] => i = j) /\ d.at = e.at => d = e
<1> DEFINE S == Taking(assigned, None)
           f == [i \in S |-> Diagnostic(IF FirstAccepting(rules, names[i]) = None THEN "unexpected" ELSE "misplaced",
                                        kind, anchors[i], by)]
<1>1. S \in SUBSET (1 .. n) /\ \A i \in S : assigned[i] = None
  BY DEF Taking
<1>2. IsFiniteSet(S)
  BY <1>1, FS_Interval, FS_Subset
<1>3. LeftOver(kind, rules, names, assigned, anchors, by) = {f[i] : i \in DOMAIN f}
  BY DEF LeftOver
<1>4. \A i \in S : f[i].at = anchors[i] /\ f[i].id \in {<<"unexpected", kind>>, <<"misplaced", kind>>}
  BY DEF Diagnostic
<1>5. DOMAIN f = S
  OBVIOUS
<1> DEFINE L == LeftOver(kind, rules, names, assigned, anchors, by)
<1> HIDE DEF f, S
<1>6. \A d \in L : \E i \in 1 .. n : /\ i \in S /\ d = f[i] /\ assigned[i] = None /\ d.at = anchors[i]
                                     /\ d.id \in {<<"unexpected", kind>>, <<"misplaced", kind>>}
  <2>1. ASSUME NEW d \in L PROVE \E i \in S : d = f[i]
    BY <1>3, <1>5
  <2>2. QED
    BY <1>1, <1>4, <2>1
<1>7. IsFiniteSet(L)
  BY <1>2, <1>3, <1>5, ValuesAreFinite
<1> HIDE DEF L
<1>8. ASSUME NEW d \in L, NEW e \in L, \A i, j \in 1 .. n : anchors[i] = anchors[j] => i = j, d.at = e.at
      PROVE  d = e
  BY <1>6, <1>8
<1>9. \A d \in L : \E i \in 1 .. n : /\ assigned[i] = None /\ d.at = anchors[i]
                                     /\ d.id \in {<<"unexpected", kind>>, <<"misplaced", kind>>}
  BY <1>6
<1>10. QED
  BY <1>7, <1>8, <1>9 DEF L

(* What is said of a count: absence at the parent, excess at a node.        *)
OfCount(d, kind, parent, anchors, n) ==
    \/ d.at = parent /\ d.id \in {<<"missing", kind>>, <<"too-few", kind>>}
    \/ d.id = <<"too-many", kind>> /\ \E i \in 1 .. n : d.at = anchors[i]

(* What is said of all counts is finite.                                    *)
LEMMA CardinalityOfFacts ==
    ASSUME NEW kind, NEW rules, IsSeq(rules), NEW n \in Nat, NEW assigned, DOMAIN assigned = 1 .. n,
           NEW anchors, NEW parent, NEW node, NEW path
    PROVE  /\ IsFiniteSet(CardinalityOf(kind, rules, assigned, anchors, parent, node, path))
           /\ \A d \in CardinalityOf(kind, rules, assigned, anchors, parent, node, path) :
                 OfCount(d, kind, parent, anchors, n)
<1> DEFINE absent(c) ==
             IF Cardinality(Taking(assigned, c)) < rules[c].min
             THEN {Diagnostic(IF Cardinality(Taking(assigned, c)) = 0 THEN "missing" ELSE "too-few", kind, parent,
                              By(node, Append(path, c)))}
             ELSE {}
           beyond(c) == [i \in Surplus(rules, assigned, c) |->
                           Diagnostic("too-many", kind, anchors[i], By(node, Append(path, c)))]
           excess(c) == IF rules[c].max = Unbounded THEN {} ELSE {beyond(c)[i] : i \in DOMAIN beyond(c)}
           f == [c \in 1 .. Len(rules) |-> absent(c) \union excess(c)]
<1>1. CardinalityOf(kind, rules, assigned, anchors, parent, node, path) = UNION {f[c] : c \in DOMAIN f}
  BY DEF CardinalityOf
<1>2. IsFiniteSet(DOMAIN f) /\ DOMAIN f = 1 .. Len(rules)
  BY SeqFacts, FS_Interval
<1>3. ASSUME NEW c \in 1 .. Len(rules)
      PROVE  /\ IsFiniteSet(f[c])
             /\ \A d \in f[c] : OfCount(d, kind, parent, anchors, n)
  <2>1. Surplus(rules, assigned, c) \in SUBSET (1 .. n)
    BY DEF Surplus, Taking
  <2>2. IsFiniteSet(Surplus(rules, assigned, c))
    <3>1. IsFiniteSet(1 .. n)
      BY FS_Interval
    <3>2. QED
      BY <2>1, <3>1, FS_Subset
  <2>3. DOMAIN beyond(c) = Surplus(rules, assigned, c)
    OBVIOUS
  <2>4. IsFiniteSet({beyond(c)[i] : i \in DOMAIN beyond(c)})
    <3> HIDE DEF beyond
    <3>1. QED
      BY <2>2, <2>3, ValuesAreFinite
  <2>5. IsFiniteSet(excess(c))
    BY <2>4, FS_EmptySet
  <2>6. IsFiniteSet(absent(c))
    BY FS_EmptySet, FS_Singleton
  <2>7. \A d \in absent(c) : d.at = parent /\ d.id \in {<<"missing", kind>>, <<"too-few", kind>>}
    BY DEF Diagnostic
  <2>8. \A d \in excess(c) : d.id = <<"too-many", kind>> /\ \E i \in 1 .. n : d.at = anchors[i]
    BY <2>1 DEF Diagnostic
  <2>9. f[c] = absent(c) \union excess(c)
    OBVIOUS
  <2> HIDE DEF f, absent, excess
  <2>10. IsFiniteSet(f[c])
    BY <2>5, <2>6, <2>9, FS_Union
  <2>11. ASSUME NEW d \in f[c] PROVE OfCount(d, kind, parent, anchors, n)
    <3>1. CASE d \in absent(c)
      BY <2>7, <3>1 DEF OfCount
    <3>2. CASE d \in excess(c)
      BY <2>8, <3>2 DEF OfCount
    <3>3. QED
      BY <2>9, <3>1, <3>2
  <2>12. QED
    BY <2>10, <2>11
<1> HIDE DEF f
<1>4. \A c \in DOMAIN f : IsFiniteSet(f[c])
  BY <1>2, <1>3
<1>5. QED
  BY <1>1, <1>2, <1>3, <1>4, FamilyIsFinite

(* A guard refuses each heading it denies, and says so once.                *)
LEMMA RefusedByGuardFacts ==
    ASSUME NEW scope, NEW sections, IsSeq(sections), NEW path
    PROVE  /\ IsFiniteSet(RefusedByGuard(scope, sections, path))
           /\ \A d \in RefusedByGuard(scope, sections, path) :
                 \E h \in Lists!ToSet(sections) : /\ Guarded(scope, h) /\ d.at = <<h>>
                                                  /\ d.id = <<"not-allowed", "section">>
           /\ \A d, e \in RefusedByGuard(scope, sections, path) : d.at = e.at => d = e
<1> DEFINE S == {k \in Lists!ToSet(sections) : Guarded(scope, k)}
           f == [h \in S |-> Diagnostic("not-allowed", "section", <<h>>,
                    By("guard", Append(path, CHOOSE g \in Guards(scope, h) : \A k \in Guards(scope, h) : g <= k)))]
<1>1. RefusedByGuard(scope, sections, path) = {f[h] : h \in DOMAIN f}
  BY DEF RefusedByGuard
<1>2. IsFiniteSet(S)
  BY ToSetIsFinite, FS_Subset
<1>3. DOMAIN f = S /\ S \subseteq Lists!ToSet(sections) /\ \A h \in S : Guarded(scope, h)
  OBVIOUS
<1>4. \A h \in S : f[h].at = <<h>> /\ f[h].id = <<"not-allowed", "section">>
  BY DEF Diagnostic
<1>5. \A g, h : <<g>> = <<h>> => g = h
  OBVIOUS
<1> HIDE DEF f, S
<1>6. QED
  BY <1>1, <1>2, <1>3, <1>4, <1>5, ValuesAreFinite
=============================================================================
