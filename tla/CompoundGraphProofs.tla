------------------------- MODULE CompoundGraphProofs ---------------------------
(***************************************************************************)
(* Lemmas about lists and trees, and what the operators of CompoundGraph   *)
(* keep: the form of a manager that its methods build on.                  *)
(***************************************************************************)
EXTENDS CompoundGraph, FiniteSetsExt, SequencesExt, FiniteSetTheorems, SequenceTheorems,
        WellFoundedInduction, TLAPS

(***************************************************************************)
(* Induction: over the natural numbers and along a list.                   *)
(***************************************************************************)
Less == {p \in Nat \X Nat : p[1] < p[2]}

LEMMA LessIsWellFounded == IsWellFoundedOn(Less, Nat)
<1>1. Less = OpToRel(<, Nat)
  BY DEF Less, OpToRel
<1>2. QED
  BY <1>1, NatLessThanWellFounded

\* A set of natural numbers has a least one.
LEMMA LeastNatural ==
  ASSUME NEW S, S \subseteq Nat, S # {}
  PROVE  \E m \in S : \A n \in S : m <= n
<1>1. PICK m \in S : \A n \in S : ~(<<n, m>> \in Less)
  BY LessIsWellFounded, WFMin
<1>2. \A n \in S : ~(n < m)
  <2>1. TAKE n \in S
  <2>2. n \in Nat /\ m \in Nat
    OBVIOUS
  <2>3. n < m => <<n, m>> \in Less
    BY <2>2 DEF Less
  <2>4. QED
    BY <1>1, <2>3
<1>3. QED
  BY <1>2

\* What holds of 0 and goes from each number to the next holds up to n.
LEMMA Climb ==
  ASSUME NEW n, n \in Nat, NEW P, 0 \in P, \A k \in 1..n : k - 1 \in P => k \in P
  PROVE  \A k \in 0..n : k \in P
<1> DEFINE S == {k \in 0..n : k \notin P}
<1>1. SUFFICES ASSUME S # {} PROVE FALSE
  OBVIOUS
<1>2. S \subseteq Nat
  OBVIOUS
<1>3. PICK k \in S : \A j \in S : k <= j
  BY <1>1, <1>2, LeastNatural
<1>4. k \in 1..n /\ k - 1 \in 0..n /\ ~(k <= k - 1)
  BY <1>3
<1>5. k - 1 \notin S
  BY <1>3, <1>4
<1> HIDE DEF S
<1>6. k - 1 \in P
  BY <1>4, <1>5 DEF S
<1>7. k \in P
  BY <1>4, <1>6
<1> QED
  BY <1>3, <1>7 DEF S

\* A state, and a next state for each member of a list of length n, give the
\* states after each member.  I[k] is what is known of the one after k.
IsRun(g, n, b, F, I) ==
  /\ g = [k \in 0..n |-> g[k]] /\ g[0] = b
  /\ \A k \in 1..n : g[k] = F[<<g[k - 1], k>>]
  /\ \A k \in 0..n : g[k] \in I[k]

LEMMA RunExists ==
  ASSUME NEW n, n \in Nat, NEW b, NEW F, NEW I, b \in I[0],
         \A k \in 1..n : \A x \in I[k - 1] : F[<<x, k>>] \in I[k]
  PROVE  \E g : IsRun(g, n, b, F, I)
<1> DEFINE P == {k \in 0..n : \E g : IsRun(g, k, b, F, I)}
<1>1. 0 \in P
  <2> DEFINE g == [k \in 0..0 |-> b]
  <2>1. IsRun(g, 0, b, F, I)
    BY DEF IsRun
  <2> QED
    BY <2>1
<1>2. ASSUME NEW k \in 1..n, k - 1 \in P PROVE k \in P
  <2>1. PICK g : IsRun(g, k - 1, b, F, I)
    BY <1>2
  <2> DEFINE h == [j \in 0..k |-> IF j = k THEN F[<<g[k - 1], k>>] ELSE g[j]]
  <2>2. k \in Nat /\ k >= 1 /\ k - 1 \in 0..(k - 1) /\ 0 # k /\ 0 \in 0..k /\ k - 1 # k /\ k - 1 \in 0..k
    OBVIOUS
  <2>3. h[0] = b /\ h[k] = F[<<g[k - 1], k>>] /\ h[k - 1] = g[k - 1]
    BY <2>1, <2>2 DEF IsRun
  <2>4. ASSUME NEW j \in 0..k, j # k PROVE h[j] = g[j] /\ j \in 0..(k - 1)
    BY <2>2, <2>4
  <2>5. ASSUME NEW j \in 1..k PROVE h[j] = F[<<h[j - 1], j>>]
    <3>1. CASE j = k
      BY <3>1, <2>3
    <3>2. CASE j # k
      <4>1. j \in 0..k /\ j - 1 \in 0..k /\ j - 1 # k /\ j \in 1..(k - 1)
        BY <3>2, <2>2
      <4>2. h[j] = g[j] /\ h[j - 1] = g[j - 1]
        BY ONLY <4>1, <3>2, <2>4
      <4> QED
        BY <4>1, <4>2, <2>1 DEF IsRun
    <3> QED
      BY <3>1, <3>2
  <2>6. ASSUME NEW j \in 0..k PROVE h[j] \in I[j]
    <3>1. CASE j = k
      <4>1. g[k - 1] \in I[k - 1]
        BY <2>1, <2>2 DEF IsRun
      <4> QED
        BY <3>1, <4>1, <2>3
    <3>2. CASE j # k
      BY <3>2, <2>4, <2>1 DEF IsRun
    <3> QED
      BY <3>1, <3>2
  <2>7. h = [j \in 0..k |-> h[j]]
    OBVIOUS
  <2> HIDE DEF h
  <2>8. IsRun(h, k, b, F, I)
    BY <2>3, <2>5, <2>6, <2>7 DEF IsRun
  <2> QED
    BY <2>8
<1>3. n \in P
  <2> HIDE DEF P
  <2>1. \A k \in 0..n : k \in P
    BY <1>1, <1>2, Climb
  <2> QED
    BY <2>1
<1> QED
  BY <1>3

\* One turn after the other: what is known of the state after each.
LEMMA Turns ==
  ASSUME NEW n, n \in Nat, NEW f, NEW I, f[0] \in I[0],
         \A k \in 1..n : f[k - 1] \in I[k - 1] => f[k] \in I[k]
  PROVE  f[n] \in I[n]
<1> DEFINE P == {k \in 0..n : f[k] \in I[k]}
<1>1. 0 \in P /\ \A k \in 1..n : k - 1 \in P => k \in P
  OBVIOUS
<1>2. \A k \in 0..n : k \in P
  <2> HIDE DEF P
  <2> QED
    BY <1>1, Climb
<1> QED
  BY <1>2

(***************************************************************************)
(* The members of a list.                                                  *)
(***************************************************************************)
LEMMA Members ==
  ASSUME NEW S, NEW s, s \in Seq(S)
  PROVE  /\ Len(s) \in Nat /\ DOMAIN s = 1..Len(s) /\ ToSet(s) \subseteq S
         /\ s \in Seq(ToSet(s))
         /\ \A e : Contains(s, e) <=> e \in ToSet(s)
         /\ s = <<>> <=> Len(s) = 0
         /\ s = <<>> <=> ToSet(s) = {}
<1>1. Len(s) \in Nat /\ DOMAIN s = 1..Len(s) /\ \A i \in 1..Len(s) : s[i] \in S
  BY LenProperties, ElementOfSeq
<1>2. \A e : Contains(s, e) <=> e \in ToSet(s)
  BY <1>1 DEF Contains, ToSet
<1>3. s = <<>> <=> Len(s) = 0
  BY EmptySeq
<1>4. s = <<>> <=> ToSet(s) = {}
  BY <1>1, <1>3 DEF ToSet
<1>5. s \in Seq(ToSet(s))
  BY <1>1, LenProperties, SeqDef DEF ToSet
<1> QED
  BY <1>1, <1>2, <1>3, <1>4, <1>5 DEF ToSet

LEMMA NoMembers == ToSet(<<>>) = {} /\ IsInjective(<<>>) /\ Len(<<>>) = 0
BY EmptySeq DEF ToSet, IsInjective

LEMMA AppendMembers ==
  ASSUME NEW S, NEW s, s \in Seq(S), NEW x, x \in S
  PROVE  /\ Append(s, x) \in Seq(S) /\ Len(Append(s, x)) = Len(s) + 1
         /\ Append(s, x)[Len(s) + 1] = x /\ \A i \in 1..Len(s) : Append(s, x)[i] = s[i]
         /\ ToSet(Append(s, x)) = ToSet(s) \cup {x}
         /\ IsInjective(s) /\ x \notin ToSet(s) => IsInjective(Append(s, x))
<1> DEFINE t == Append(s, x)
<1>1. /\ t \in Seq(S) /\ Len(t) = Len(s) + 1 /\ t[Len(s) + 1] = x
      /\ \A i \in 1..Len(s) : t[i] = s[i]
  BY AppendProperties
<1>2. Len(s) \in Nat /\ DOMAIN s = 1..Len(s) /\ DOMAIN t = 1..(Len(s) + 1)
  BY <1>1, Members
<1> HIDE DEF t
<1>3. ToSet(t) = ToSet(s) \cup {x}
  <2>1. ToSet(t) \subseteq ToSet(s) \cup {x}
    BY <1>1, <1>2 DEF ToSet
  <2>2. x \in ToSet(t)
    BY <1>1, <1>2 DEF ToSet
  <2>3. ToSet(s) \subseteq ToSet(t)
    BY <1>1, <1>2 DEF ToSet
  <2> QED
    BY <2>1, <2>2, <2>3
<1>4. ASSUME IsInjective(s), x \notin ToSet(s) PROVE IsInjective(t)
  <2>1. \A i \in 1..Len(s) : s[i] # x
    BY <1>2, <1>4 DEF ToSet
  <2>2. \A i, j \in 1..Len(s) : s[i] = s[j] => i = j
    BY <1>2, <1>4 DEF IsInjective
  <2> QED
    BY <1>1, <1>2, <2>1, <2>2 DEF IsInjective
<1> QED
  BY <1>1, <1>3, <1>4 DEF t

LEMMA ConcatMembers ==
  ASSUME NEW S, NEW s, s \in Seq(S), NEW t, t \in Seq(S)
  PROVE  /\ s \o t \in Seq(S) /\ ToSet(s \o t) = ToSet(s) \cup ToSet(t)
         /\ IsInjective(s) /\ IsInjective(t) /\ ToSet(s) \cap ToSet(t) = {} => IsInjective(s \o t)
<1> DEFINE u == s \o t
<1>1. /\ u \in Seq(S) /\ Len(u) = Len(s) + Len(t)
      /\ \A i \in 1..(Len(s) + Len(t)) : u[i] = IF i <= Len(s) THEN s[i] ELSE t[i - Len(s)]
  BY ConcatProperties
<1>2. /\ Len(s) \in Nat /\ DOMAIN s = 1..Len(s) /\ Len(t) \in Nat /\ DOMAIN t = 1..Len(t)
      /\ DOMAIN u = 1..(Len(s) + Len(t))
  BY <1>1, Members
<1> HIDE DEF u
<1>3. ToSet(u) = ToSet(s) \cup ToSet(t)
  <2>1. ToSet(u) \subseteq ToSet(s) \cup ToSet(t)
    <3>1. SUFFICES ASSUME NEW i \in 1..(Len(s) + Len(t)) PROVE u[i] \in ToSet(s) \cup ToSet(t)
      BY <1>2 DEF ToSet
    <3>2. CASE i <= Len(s)
      <4>1. i \in DOMAIN s /\ u[i] = s[i]
        BY <3>2, <1>1, <1>2
      <4> QED
        BY <4>1 DEF ToSet
    <3>3. CASE ~(i <= Len(s))
      <4>1. i - Len(s) \in DOMAIN t /\ u[i] = t[i - Len(s)]
        BY <3>3, <1>1, <1>2
      <4> QED
        BY <4>1 DEF ToSet
    <3> QED
      BY <3>2, <3>3
  <2>2. ToSet(s) \subseteq ToSet(u)
    BY <1>1, <1>2 DEF ToSet
  <2>3. ToSet(t) \subseteq ToSet(u)
    <3>1. SUFFICES ASSUME NEW i \in 1..Len(t) PROVE t[i] \in ToSet(u)
      BY <1>2 DEF ToSet
    <3>2. i + Len(s) \in DOMAIN u /\ u[i + Len(s)] = t[i]
      BY <1>1, <1>2
    <3> QED
      BY <3>2 DEF ToSet
  <2> QED
    BY <2>1, <2>2, <2>3
<1>4. ASSUME IsInjective(s), IsInjective(t), ToSet(s) \cap ToSet(t) = {} PROVE IsInjective(u)
  <2>1. \A i \in 1..Len(s), j \in 1..Len(t) : s[i] # t[j]
    BY <1>2, <1>4 DEF ToSet
  <2>2. \A i, j \in 1..Len(s) : s[i] = s[j] => i = j
    BY <1>2, <1>4 DEF IsInjective
  <2>3. \A i, j \in 1..Len(t) : t[i] = t[j] => i = j
    BY <1>2, <1>4 DEF IsInjective
  <2> SUFFICES ASSUME NEW i \in DOMAIN u, NEW j \in DOMAIN u, u[i] = u[j] PROVE i = j
    BY DEF IsInjective
  <2>4. CASE i <= Len(s) /\ j <= Len(s)
    BY <2>4, <2>2, <1>1, <1>2
  <2>5. CASE i <= Len(s) /\ ~(j <= Len(s))
    BY <2>5, <2>1, <1>1, <1>2
  <2>6. CASE ~(i <= Len(s)) /\ j <= Len(s)
    BY <2>6, <2>1, <1>1, <1>2
  <2>7. CASE ~(i <= Len(s)) /\ ~(j <= Len(s))
    <3>1. /\ i - Len(s) \in 1..Len(t) /\ j - Len(s) \in 1..Len(t)
          /\ t[i - Len(s)] = t[j - Len(s)]
      BY <2>7, <1>1, <1>2
    <3>2. i - Len(s) = j - Len(s)
      BY <3>1, <2>3
    <3> QED
      BY <3>2, <1>2
  <2> QED
    BY <2>4, <2>5, <2>6, <2>7
<1> QED
  BY <1>1, <1>3, <1>4 DEF u

\* What the first k turns of a loop over a list have dealt with.
Seen(list, k) == {list[i] : i \in 1..k}

LEMMA SeenTurns ==
  ASSUME NEW S, NEW list, list \in Seq(S)
  PROVE  /\ Seen(list, 0) = {} /\ Seen(list, Len(list)) = ToSet(list)
         /\ \A k \in 1..Len(list) : /\ Seen(list, k) = Seen(list, k - 1) \cup {list[k]}
                                    /\ list[k] \in ToSet(list)
                                    /\ IsInjective(list) => list[k] \notin Seen(list, k - 1)
         /\ \A k \in 0..Len(list) : Seen(list, k) \subseteq ToSet(list)
<1>1. Len(list) \in Nat /\ DOMAIN list = 1..Len(list)
  BY Members
<1>2. Seen(list, 0) = {}
  BY DEF Seen
<1>3. Seen(list, Len(list)) = ToSet(list)
  BY <1>1 DEF Seen, ToSet
<1>4. ASSUME NEW k \in 1..Len(list)
      PROVE  /\ Seen(list, k) = Seen(list, k - 1) \cup {list[k]}
             /\ list[k] \in ToSet(list)
             /\ IsInjective(list) => list[k] \notin Seen(list, k - 1)
  <2>1. 1..k = (1..(k - 1)) \cup {k} /\ k \notin 1..(k - 1) /\ 1..(k - 1) \subseteq DOMAIN list
    BY <1>1
  <2>2. Seen(list, k) = Seen(list, k - 1) \cup {list[k]}
    BY <2>1 DEF Seen
  <2>3. list[k] \in ToSet(list)
    BY <1>1 DEF ToSet
  <2>4. IsInjective(list) => list[k] \notin Seen(list, k - 1)
    BY <1>1, <2>1 DEF Seen, IsInjective
  <2> QED
    BY <2>2, <2>3, <2>4
<1>5. \A k \in 0..Len(list) : Seen(list, k) \subseteq ToSet(list)
  BY <1>1 DEF Seen, ToSet
<1> QED
  BY <1>2, <1>3, <1>4, <1>5

LEMMA Singleton ==
  ASSUME NEW S, NEW x, x \in S
  PROVE  <<x>> \in Seq(S) /\ ToSet(<<x>>) = {x} /\ IsInjective(<<x>>) /\ Len(<<x>>) = 1 /\ <<x>>[1] = x
BY DEF ToSet, IsInjective

\* The first occurrence of a member is taken out.
LEMMA RemoveFirstMembers ==
  ASSUME NEW S, NEW s, s \in Seq(S), NEW e
  PROVE  /\ RemoveFirst(s, e) \in Seq(S)
         /\ e \notin ToSet(s) => RemoveFirst(s, e) = s
         /\ IsInjective(s) => /\ IsInjective(RemoveFirst(s, e))
                              /\ ToSet(RemoveFirst(s, e)) = ToSet(s) \ {e}
                              /\ e \in ToSet(s) => Len(RemoveFirst(s, e)) = Len(s) - 1
<1>1. Len(s) \in Nat /\ DOMAIN s = 1..Len(s)
  BY Members
<1>2. CASE e \notin ToSet(s)
  <2>1. RemoveFirst(s, e) = s
    BY <1>1, <1>2 DEF RemoveFirst, ToSet
  <2> QED
    BY <2>1, <1>2
<1>3. CASE e \in ToSet(s)
  <2> DEFINE I == {i \in 1..Len(s) : s[i] = e}
             p == SelectInSeq(s, LAMBDA v : v = e)
             u == SubSeq(s, 1, p - 1)
             v == SubSeq(s, p + 1, Len(s))
  <2>1. I # {} /\ I \subseteq Nat
    BY <1>1, <1>3 DEF ToSet
  <2>2. \E i \in I : \A j \in I : i <= j
    <3> HIDE DEF I
    <3> QED
      BY <2>1, LeastNatural
  <2>3. p = Min(I)
    BY <2>1 DEF SelectInSeq
  <2>4. p \in I
    <3> HIDE DEF I, p
    <3> QED
      BY <2>2, <2>3 DEF Min
  <2>5. p \in 1..Len(s) /\ s[p] = e
    <3> HIDE DEF p
    <3> QED
      BY <2>4
  <2>6. RemoveFirst(s, e) = u \o v
    BY <1>1, <1>3 DEF RemoveFirst, RemoveAt, ToSet
  <2> HIDE DEF I, p
  <2>7. /\ u \in Seq(S) /\ Len(u) = p - 1 /\ \A i \in 1..(p - 1) : u[i] = s[i]
        /\ v \in Seq(S) /\ Len(v) = Len(s) - p /\ \A i \in 1..(Len(s) - p) : v[i] = s[p + i]
    <3>1. \A i \in 1..Len(s) : s[i] \in S
      BY <1>1, ElementOfSeq
    <3>2. \A i \in 1..(p - 1) : s[i] \in S
      BY <3>1, <2>5, <1>1
    <3>3. /\ u \in Seq(S) /\ Len(u) = IF 1 <= p - 1 THEN p - 1 - 1 + 1 ELSE 0
          /\ \A i \in 1..(p - 1 - 1 + 1) : u[i] = s[1 + i - 1]
      BY <3>2, <2>5, <1>1, SubSeqProperties
    <3>4. \A i \in (p + 1)..Len(s) : s[i] \in S
      BY <3>1, <2>5, <1>1
    <3>5. /\ v \in Seq(S) /\ Len(v) = IF p + 1 <= Len(s) THEN Len(s) - (p + 1) + 1 ELSE 0
          /\ \A i \in 1..(Len(s) - (p + 1) + 1) : v[i] = s[p + 1 + i - 1]
      BY <3>4, <2>5, <1>1, SubSeqProperties
    <3> HIDE DEF u, v
    <3>6. Len(u) = p - 1 /\ \A i \in 1..(p - 1) : i \in 1..(p - 1 - 1 + 1) /\ 1 + i - 1 = i
      BY ONLY <3>3, <2>5, <1>1
    <3>7. /\ Len(v) = Len(s) - p
          /\ \A i \in 1..(Len(s) - p) : i \in 1..(Len(s) - (p + 1) + 1) /\ p + 1 + i - 1 = p + i
      <4> DEFINE n == Len(s)
      <4>1. Len(v) = IF p + 1 <= n THEN n - (p + 1) + 1 ELSE 0
        BY ONLY <3>5
      <4>2. n \in Nat /\ p \in 1..n
        BY ONLY <2>5, <1>1
      <4> HIDE DEF n
      <4>3. Len(v) = n - p
        BY ONLY <4>1, <4>2
      <4>4. \A i \in 1..(n - p) : i \in 1..(n - (p + 1) + 1) /\ p + 1 + i - 1 = p + i
        BY ONLY <4>2
      <4> QED
        BY ONLY <4>3, <4>4 DEF n
    <3>8. \A i \in 1..(p - 1) : u[i] = s[i]
      BY ONLY <3>3, <3>6
    <3>9. \A i \in 1..(Len(s) - p) : v[i] = s[p + i]
      BY ONLY <3>5, <3>7
    <3> QED
      BY <3>3, <3>5, <3>6, <3>7, <3>8, <3>9
  <2> HIDE DEF u, v
  <2>8. u \o v \in Seq(S) /\ Len(u \o v) = Len(s) - 1
    <3>1. u \o v \in Seq(S) /\ Len(u \o v) = Len(u) + Len(v)
      BY <2>7, ConcatProperties
    <3>2. p - 1 + (Len(s) - p) = Len(s) - 1
      BY <2>5, <1>1
    <3> QED
      BY ONLY <3>1, <3>2, <2>7
  <2>9. ASSUME IsInjective(s)
        PROVE  IsInjective(u \o v) /\ ToSet(u \o v) = ToSet(s) \ {e}
    <3>1. \A i, j \in 1..Len(s) : s[i] = s[j] => i = j
      BY <2>9, <1>1 DEF IsInjective
    <3>2. DOMAIN u = 1..(p - 1) /\ DOMAIN v = 1..(Len(s) - p)
      BY <2>7, Members
    <3>3. IsInjective(u)
      BY <3>1, <3>2, <2>5, <2>7, <1>1 DEF IsInjective
    <3>4. IsInjective(v)
      <4> SUFFICES ASSUME NEW i \in 1..(Len(s) - p), NEW j \in 1..(Len(s) - p), v[i] = v[j]
                   PROVE  i = j
        BY <3>2 DEF IsInjective
      <4>1. s[p + i] = s[p + j] /\ p + i \in 1..Len(s) /\ p + j \in 1..Len(s)
        BY <2>5, <2>7, <1>1
      <4>2. p + i = p + j
        BY <4>1, <3>1
      <4> QED
        BY <4>2, <2>5, <1>1
    <3>5. ToSet(u) = {s[i] : i \in 1..(p - 1)}
      BY <3>2, <2>7 DEF ToSet
    <3>6. ToSet(v) = {s[i] : i \in (p + 1)..Len(s)}
      <4>1. \A i \in 1..(Len(s) - p) : p + i \in (p + 1)..Len(s)
        BY <2>5, <1>1
      <4>2. \A i \in (p + 1)..Len(s) : i - p \in 1..(Len(s) - p) /\ p + (i - p) = i
        BY <2>5, <1>1
      <4>3. ToSet(v) = {v[i] : i \in 1..(Len(s) - p)}
        BY <3>2 DEF ToSet
      <4>4. ToSet(v) = {s[p + i] : i \in 1..(Len(s) - p)}
        BY <4>3, <2>7
      <4>5. {s[p + i] : i \in 1..(Len(s) - p)} = {s[i] : i \in (p + 1)..Len(s)}
        BY <4>1, <4>2
      <4> QED
        BY <4>4, <4>5
    <3>7. \A i \in 1..Len(s) : i \in 1..(p - 1) \/ i = p \/ i \in (p + 1)..Len(s)
      BY <2>5, <1>1
    <3>8. \A i \in 1..(p - 1) : i \in 1..Len(s) /\ i # p
      BY <2>5, <1>1
    <3>9. \A i \in (p + 1)..Len(s) : i \in 1..Len(s) /\ i # p /\ i \notin 1..(p - 1)
      BY <2>5, <1>1
    <3>10. ToSet(s) = {s[i] : i \in 1..Len(s)}
      BY <1>1 DEF ToSet
    <3>11. ToSet(u) \cup ToSet(v) = ToSet(s) \ {e}
      BY <3>1, <3>5, <3>6, <3>7, <3>8, <3>9, <3>10, <2>5
    <3>12. ToSet(u) \cap ToSet(v) = {}
      BY <3>1, <3>5, <3>6, <3>8, <3>9
    <3> QED
      BY <3>3, <3>4, <3>11, <3>12, <2>7, ConcatMembers
  <2> QED
    BY <2>6, <2>8, <2>9, <1>3
<1> QED
  BY <1>2, <1>3

\* Those: the walk along the list for the test of being in T.  Each use of
\* Those is an instance of it.
IsSieve(f, list, T) ==
  f = [k \in 0..Len(list) |->
         IF k = 0 THEN <<>> ELSE IF list[k] \in T THEN Append(f[k - 1], list[k]) ELSE f[k - 1]]

LEMMA SieveMembers ==
  ASSUME NEW S, NEW list, list \in Seq(S), NEW T, NEW f, IsSieve(f, list, T)
  PROVE  /\ f[Len(list)] \in Seq(S) /\ ToSet(f[Len(list)]) = ToSet(list) \cap T
         /\ IsInjective(list) => IsInjective(f[Len(list)])
<1> DEFINE n == Len(list)
           Had(k) == {list[i] : i \in 1..k}
           I == [k \in 0..n |-> {s \in Seq(S) : /\ ToSet(s) = Had(k) \cap T
                                                /\ IsInjective(list) => IsInjective(s)}]
<1>1. n \in Nat /\ DOMAIN list = 1..n /\ \A k \in 1..n : list[k] \in S
  BY Members, ElementOfSeq
<1>2. /\ f[0] = <<>>
      /\ \A k \in 1..n : f[k] = IF list[k] \in T THEN Append(f[k - 1], list[k]) ELSE f[k - 1]
  <2>1. \A k \in 0..n : f[k] = IF k = 0 THEN <<>>
                              ELSE IF list[k] \in T THEN Append(f[k - 1], list[k]) ELSE f[k - 1]
    BY DEF IsSieve
  <2>2. 0 \in 0..n /\ \A k \in 1..n : k \in 0..n /\ k # 0
    BY <1>1
  <2> HIDE DEF n
  <2> QED
    BY <2>1, <2>2
<1> HIDE DEF n
<1>3. f[0] \in I[0]
  BY <1>1, <1>2, NoMembers, EmptySeq
<1>4. ASSUME NEW k \in 1..n, f[k - 1] \in I[k - 1] PROVE f[k] \in I[k]
  <2>1. k - 1 \in 0..n /\ k \in 0..n
    BY <1>1
  <2>2. /\ f[k - 1] \in Seq(S) /\ ToSet(f[k - 1]) = Had(k - 1) \cap T
        /\ IsInjective(list) => IsInjective(f[k - 1])
    BY <1>4, <2>1
  <2>3. Had(k) = Had(k - 1) \cup {list[k]}
    <3>1. \A i \in 1..k : i \in 1..(k - 1) \/ i = k
      BY <1>1
    <3>2. k \in 1..k /\ \A i \in 1..(k - 1) : i \in 1..k
      BY <1>1
    <3> QED
      BY <3>1, <3>2
  <2>4. CASE list[k] \in T
    <3>1. f[k] = Append(f[k - 1], list[k])
      BY <2>4, <1>2
    <3>2. f[k] \in Seq(S) /\ ToSet(f[k]) = ToSet(f[k - 1]) \cup {list[k]}
      BY <3>1, <2>2, <1>1, AppendMembers
    <3>3. ASSUME IsInjective(list) PROVE IsInjective(f[k])
      <4>1. \A i, j \in 1..n : list[i] = list[j] => i = j
        BY <3>3, <1>1 DEF IsInjective
      <4>2. \A i \in 1..(k - 1) : i \in 1..n /\ i # k
        BY <1>1
      <4>3. list[k] \notin Had(k - 1)
        BY <4>1, <4>2
      <4>4. list[k] \notin ToSet(f[k - 1])
        BY <4>3, <2>2
      <4> QED
        BY <3>1, <3>3, <4>4, <2>2, <1>1, AppendMembers
    <3>4. ToSet(f[k]) = Had(k) \cap T
      BY <3>2, <2>2, <2>3, <2>4
    <3> QED
      BY <3>2, <3>3, <3>4, <2>1
  <2>5. CASE list[k] \notin T
    <3>1. f[k] = f[k - 1]
      BY <2>5, <1>2
    <3>2. Had(k) \cap T = Had(k - 1) \cap T
      BY <2>3, <2>5
    <3> QED
      BY <3>1, <3>2, <2>2, <2>1
  <2> QED
    BY <2>4, <2>5
<1>5. f[n] \in I[n]
  <2> HIDE DEF I
  <2> QED
    BY <1>1, <1>3, <1>4, Turns
<1>6. Had(n) = ToSet(list)
  BY <1>1 DEF ToSet
<1>7. n \in 0..n
  BY <1>1
<1> QED
  BY <1>5, <1>6, <1>7 DEF n

LEMMA SieveExists ==
  ASSUME NEW S, NEW list, list \in Seq(S), NEW T
  PROVE  \E f : IsSieve(f, list, T)
<1> DEFINE n == Len(list)
           I == [k \in 0..n |-> Seq(S)]
           F == [p \in Seq(S) \X (1..n) |->
                   IF list[p[2]] \in T THEN Append(p[1], list[p[2]]) ELSE p[1]]
<1>1. n \in Nat /\ \A k \in 1..n : list[k] \in S
  BY Members, ElementOfSeq
<1> HIDE DEF n
<1>2. <<>> \in I[0]
  BY <1>1, EmptySeq
<1>3. ASSUME NEW k \in 1..n, NEW x \in I[k - 1] PROVE F[<<x, k>>] \in I[k]
  <2>1. k \in 0..n /\ k - 1 \in 0..n
    BY <1>1
  <2>2. x \in Seq(S)
    BY <1>3, <2>1
  <2>3. F[<<x, k>>] = IF list[k] \in T THEN Append(x, list[k]) ELSE x
    BY <2>2
  <2>4. Append(x, list[k]) \in Seq(S)
    BY <2>2, <1>1, AppendMembers
  <2> QED
    BY <2>1, <2>2, <2>3, <2>4
<1>4. PICK g : IsRun(g, n, <<>>, F, I)
  <2> HIDE DEF I, F
  <2> QED
    BY <1>1, <1>2, <1>3, RunExists
<1>5. \A k \in 1..n : g[k] = IF list[k] \in T THEN Append(g[k - 1], list[k]) ELSE g[k - 1]
  <2> SUFFICES ASSUME NEW k \in 1..n
               PROVE  g[k] = IF list[k] \in T THEN Append(g[k - 1], list[k]) ELSE g[k - 1]
    OBVIOUS
  <2>1. k - 1 \in 0..n
    BY <1>1
  <2>2. g[k - 1] \in Seq(S)
    <3>1. g[k - 1] \in I[k - 1]
      BY <1>4, <2>1 DEF IsRun
    <3> QED
      BY <3>1, <2>1
  <2>3. g[k] = F[<<g[k - 1], k>>]
    BY <1>4 DEF IsRun
  <2> QED
    BY <2>2, <2>3
<1>6. g = [k \in 0..n |-> g[k]] /\ g[0] = <<>>
  BY <1>4 DEF IsRun
<1>7. IsSieve(g, list, T)
  <2> DEFINE G(k) == IF k = 0 THEN <<>>
                     ELSE IF list[k] \in T THEN Append(g[k - 1], list[k]) ELSE g[k - 1]
  <2>1. \A k \in 0..n : k = 0 \/ k \in 1..n
    BY <1>1
  <2>2. \A k \in 0..n : g[k] = G(k)
    BY <2>1, <1>5, <1>6
  <2>3. g = [k \in 0..n |-> G(k)]
    <3> HIDE DEF G
    <3> QED
      BY <2>2, <1>6
  <2> QED
    BY <2>3 DEF IsSieve, n
<1> QED
  BY <1>7

\* A list, and the set of the members of another that it consists of.
Sublist(t, list, T) ==
  t \in Seq(T) /\ ToSet(t) = T /\ (IsInjective(list) => IsInjective(t))

LEMMA SieveIsSublist ==
  ASSUME NEW S, NEW list, list \in Seq(S), NEW T, T \subseteq ToSet(list), NEW f, IsSieve(f, list, T)
  PROVE  Sublist(f[Len(list)], list, T)
<1> DEFINE t == f[Len(list)]
<1>1. /\ t \in Seq(S) /\ ToSet(t) = ToSet(list) \cap T
      /\ IsInjective(list) => IsInjective(t)
  BY SieveMembers
<1> HIDE DEF t
<1>2. ToSet(t) = T
  BY <1>1
<1>3. t \in Seq(ToSet(t))
  BY <1>1, Members
<1> QED
  BY <1>1, <1>2, <1>3 DEF Sublist, t

(***************************************************************************)
(* FlattenSeq: one list after the other.                                   *)
(***************************************************************************)
LEMMA FlattenTurns ==
  ASSUME NEW S, NEW ss, ss \in Seq(Seq(S)), NEW n, n = Len(ss), NEW I, <<>> \in I[0],
         \A k \in 1..n : \A x \in I[k - 1] : x \in Seq(S) /\ x \o ss[k] \in I[k]
  PROVE  FlattenSeq(ss) \in I[n]
<1>1. n \in Nat /\ DOMAIN ss = 1..n /\ (\A k \in 1..n : ss[k] \in Seq(S)) /\ (ss = <<>> <=> n = 0)
  BY Members, ElementOfSeq
<1>2. CASE n = 0
  BY <1>1, <1>2 DEF FlattenSeq
<1>3. CASE n # 0
  <2> DEFINE F == [p \in Seq(S) \X (1..n) |-> p[1] \o ss[p[2]]]
             Q(f) == f = [i \in 1..n |-> IF i = 1 THEN ss[i] ELSE f[i - 1] \o ss[i]]
             w == CHOOSE f : Q(f)
  <2>1. FlattenSeq(ss) = w[n]
    BY <1>3 DEF FlattenSeq
  <2>2. ASSUME NEW k \in 1..n, NEW x \in I[k - 1] PROVE F[<<x, k>>] \in I[k]
    BY <2>2
  <2>3. \E g : IsRun(g, n, <<>>, F, I)
    <3> HIDE DEF F
    <3> QED
      BY <1>1, <2>2, RunExists
  <2>4. PICK g : IsRun(g, n, <<>>, F, I)
    BY <2>3
  <2>5. ASSUME NEW k \in 1..n PROVE g[k] = g[k - 1] \o ss[k]
    <3>1. k - 1 \in 0..n
      BY <1>1
    <3>2. g[k - 1] \in I[k - 1] /\ g[k] = F[<<g[k - 1], k>>]
      BY <2>4, <3>1 DEF IsRun
    <3>3. g[k - 1] \in Seq(S)
      BY <3>2
    <3> QED
      BY <3>2, <3>3
  <2>6. g[0] = <<>>
    BY <2>4 DEF IsRun
  <2>7. 1 \in 1..n /\ g[1] = ss[1]
    <3>1. 1 \in 1..n /\ 1 - 1 = 0
      BY <1>1, <1>3
    <3>2. g[1] = <<>> \o ss[1]
      BY <3>1, <2>5, <2>6
    <3>3. ss[1] \in Seq(S)
      BY <3>1, <1>1
    <3> QED
      BY <3>1, <3>2, <3>3, ConcatEmptySeq
  <2> DEFINE f == [i \in 1..n |-> g[i]]
  <2>8. \A i \in 1..n : i # 1 => i - 1 \in 1..n
    BY <1>1
  <2>9. Q(f)
    <3>1. ASSUME NEW i \in 1..n PROVE f[i] = IF i = 1 THEN ss[i] ELSE f[i - 1] \o ss[i]
      BY <2>5, <2>7, <2>8
    <3> QED
      BY <3>1
  <2>10. Q(w)
    BY <2>9
  <2> HIDE DEF w, f
  <2>11. \A i \in 1..n : w[i] = IF i = 1 THEN ss[i] ELSE w[i - 1] \o ss[i]
    BY <2>10
  <2> DEFINE v == [i \in 0..n |-> IF i = 0 THEN <<>> ELSE w[i]]
  <2>12. v[0] \in I[0]
    BY <1>1
  <2>13. ASSUME NEW k \in 1..n, v[k - 1] \in I[k - 1] PROVE v[k] \in I[k]
    <3>1. k \in 0..n /\ k # 0 /\ k - 1 \in 0..n
      BY <1>1
    <3>2. v[k] = w[k]
      BY <3>1
    <3>3. v[k - 1] \o ss[k] \in I[k] /\ v[k - 1] \in Seq(S)
      BY <2>13
    <3>4. w[k] = v[k - 1] \o ss[k]
      <4>1. CASE k = 1
        <5>1. v[k - 1] = <<>> /\ w[k] = ss[k] /\ ss[k] \in Seq(S)
          BY <4>1, <3>1, <2>11, <1>1
        <5> QED
          BY <5>1, ConcatEmptySeq
      <4>2. CASE k # 1
        <5>1. k - 1 # 0 /\ v[k - 1] = w[k - 1]
          BY <4>2, <3>1
        <5>2. w[k] = IF k = 1 THEN ss[k] ELSE w[k - 1] \o ss[k]
          BY <2>11
        <5> HIDE DEF v
        <5> QED
          BY ONLY <4>2, <5>1, <5>2
      <4> QED
        BY <4>1, <4>2
    <3> QED
      BY <3>2, <3>3, <3>4
  <2>14. v[n] \in I[n]
    <3> HIDE DEF v
    <3> QED
      BY <1>1, <2>12, <2>13, Turns
  <2>15. v[n] = w[n]
    BY <1>1, <1>3
  <2> QED
    BY <2>1, <2>14, <2>15
<1> QED
  BY <1>2, <1>3

\* The lists have nothing in common and no list has anything twice.
AllApart(ss) ==
  /\ \A i \in DOMAIN ss : IsInjective(ss[i])
  /\ \A i, j \in DOMAIN ss : i # j => ToSet(ss[i]) \cap ToSet(ss[j]) = {}

LEMMA FlattenMembers ==
  ASSUME NEW S, NEW ss, ss \in Seq(Seq(S))
  PROVE  /\ FlattenSeq(ss) \in Seq(S)
         /\ ToSet(FlattenSeq(ss)) = UNION {ToSet(ss[i]) : i \in DOMAIN ss}
         /\ AllApart(ss) => IsInjective(FlattenSeq(ss))
<1> DEFINE n == Len(ss)
           Had(k) == UNION {ToSet(ss[i]) : i \in 1..k}
           I == [k \in 0..n |-> {s \in Seq(S) : /\ ToSet(s) = Had(k)
                                                /\ AllApart(ss) => IsInjective(s)}]
<1>1. n \in Nat /\ DOMAIN ss = 1..n /\ \A k \in 1..n : ss[k] \in Seq(S)
  BY Members, ElementOfSeq
<1> HIDE DEF n
<1>2. <<>> \in I[0]
  <2>1. Had(0) = {} /\ 0 \in 0..n
    BY <1>1
  <2> QED
    BY <2>1, NoMembers, EmptySeq
<1>3. ASSUME NEW k \in 1..n, NEW x \in I[k - 1] PROVE x \in Seq(S) /\ x \o ss[k] \in I[k]
  <2>1. k - 1 \in 0..n /\ k \in 0..n
    BY <1>1
  <2>2. x \in Seq(S) /\ ToSet(x) = Had(k - 1) /\ (AllApart(ss) => IsInjective(x))
    BY <2>1, <1>3
  <2>3. Had(k) = Had(k - 1) \cup ToSet(ss[k])
    <3>1. \A i \in 1..k : i \in 1..(k - 1) \/ i = k
      BY <1>1
    <3>2. k \in 1..k /\ \A i \in 1..(k - 1) : i \in 1..k
      BY <1>1
    <3> QED
      BY <3>1, <3>2
  <2>4. x \o ss[k] \in Seq(S) /\ ToSet(x \o ss[k]) = Had(k)
    <3> HIDE DEF Had
    <3>1. ss[k] \in Seq(S)
      BY <1>1
    <3>2. x \o ss[k] \in Seq(S) /\ ToSet(x \o ss[k]) = ToSet(x) \cup ToSet(ss[k])
      BY <3>1, <2>2, ConcatMembers
    <3> QED
      BY <3>2, <2>2, <2>3
  <2>5. ASSUME AllApart(ss) PROVE IsInjective(x \o ss[k])
    <3>1. IsInjective(ss[k]) /\ \A i \in 1..n : i # k => ToSet(ss[i]) \cap ToSet(ss[k]) = {}
      BY <2>5, <1>1 DEF AllApart
    <3>2. \A i \in 1..(k - 1) : i \in 1..n /\ i # k
      BY <1>1
    <3>3. Had(k - 1) \cap ToSet(ss[k]) = {}
      BY <3>1, <3>2
    <3> HIDE DEF Had
    <3> QED
      BY <3>1, <3>3, <2>2, <2>5, <1>1, ConcatMembers
  <2> QED
    BY <2>1, <2>2, <2>4, <2>5
<1>4. FlattenSeq(ss) \in I[n]
  <2> HIDE DEF I
  <2>1. n = Len(ss)
    BY DEF n
  <2> QED
    BY <1>2, <1>3, <2>1, FlattenTurns
<1>5. n \in 0..n
  BY <1>1
<1> QED
  BY <1>1, <1>4, <1>5

\* Each member comes after the one that up names, if that is not in B.
UpFirst(s, up, B) ==
  \A j \in DOMAIN s : up[s[j]] \in B \/ \E i \in 1..(j - 1) : s[i] = up[s[j]]

LEMMA ConcatUpFirst ==
  ASSUME NEW S, NEW s, s \in Seq(S), NEW t, t \in Seq(S), NEW up, NEW B,
         UpFirst(s, up, B), UpFirst(t, up, B \cup ToSet(s))
  PROVE  UpFirst(s \o t, up, B)
<1> DEFINE u == s \o t
<1>1. /\ u \in Seq(S) /\ Len(u) = Len(s) + Len(t)
      /\ \A i \in 1..(Len(s) + Len(t)) : u[i] = IF i <= Len(s) THEN s[i] ELSE t[i - Len(s)]
  BY ConcatProperties
<1>2. /\ Len(s) \in Nat /\ DOMAIN s = 1..Len(s) /\ Len(t) \in Nat /\ DOMAIN t = 1..Len(t)
      /\ DOMAIN u = 1..(Len(s) + Len(t))
  BY <1>1, Members
<1> HIDE DEF u
<1> SUFFICES ASSUME NEW j \in 1..(Len(s) + Len(t)), up[u[j]] \notin B
             PROVE  \E i \in 1..(j - 1) : u[i] = up[u[j]]
  BY <1>2 DEF UpFirst, u
<1>3. CASE j <= Len(s)
  <2>1. j \in DOMAIN s /\ u[j] = s[j]
    BY <1>1, <1>2, <1>3
  <2>2. PICK i \in 1..(j - 1) : s[i] = up[s[j]]
    BY <2>1 DEF UpFirst
  <2>3. i \in 1..(Len(s) + Len(t)) /\ i <= Len(s)
    BY <1>2, <1>3
  <2>4. u[i] = s[i]
    BY <2>3, <1>1
  <2> QED
    BY <2>1, <2>2, <2>4
<1>4. CASE ~(j <= Len(s))
  <2> DEFINE m == j - Len(s)
  <2>1. m \in DOMAIN t /\ u[j] = t[m]
    BY <1>1, <1>2, <1>4
  <2>2. CASE up[t[m]] \in ToSet(s)
    <3>1. PICK i \in 1..Len(s) : s[i] = up[t[m]]
      BY <2>2, <1>2 DEF ToSet
    <3>2. i \in 1..(j - 1) /\ i \in 1..(Len(s) + Len(t)) /\ i <= Len(s)
      BY <1>2, <1>4
    <3>3. u[i] = s[i]
      BY <3>2, <1>1
    <3> QED
      BY <2>1, <3>1, <3>2, <3>3
  <2>3. CASE up[t[m]] \notin ToSet(s)
    <3>1. PICK i \in 1..(m - 1) : t[i] = up[t[m]]
      BY <2>1, <2>3 DEF UpFirst
    <3>2. i + Len(s) \in 1..(j - 1) /\ i + Len(s) \in 1..(Len(s) + Len(t)) /\ ~(i + Len(s) <= Len(s))
          /\ i + Len(s) - Len(s) = i
      BY <1>2, <1>4, <2>1
    <3>3. u[i + Len(s)] = t[i]
      BY <3>2, <1>1
    <3> QED
      BY <2>1, <3>1, <3>2, <3>3
  <2> QED
    BY <2>2, <2>3
<1> QED
  BY <1>3, <1>4

LEMMA FlattenUpFirst ==
  ASSUME NEW S, NEW ss, ss \in Seq(Seq(S)), NEW up, NEW B,
         \A i \in DOMAIN ss : UpFirst(ss[i], up, B)
  PROVE  UpFirst(FlattenSeq(ss), up, B)
<1> DEFINE n == Len(ss)
           I == [k \in 0..n |-> {s \in Seq(S) : UpFirst(s, up, B)}]
<1>1. n \in Nat /\ DOMAIN ss = 1..n /\ \A k \in 1..n : ss[k] \in Seq(S)
  BY Members, ElementOfSeq
<1> HIDE DEF n
<1>2. <<>> \in I[0]
  BY <1>1, EmptySeq DEF UpFirst
<1>3. ASSUME NEW k \in 1..n, NEW x \in I[k - 1] PROVE x \in Seq(S) /\ x \o ss[k] \in I[k]
  <2>1. k - 1 \in 0..n /\ k \in 0..n
    BY <1>1
  <2>2. x \in Seq(S) /\ UpFirst(x, up, B) /\ UpFirst(ss[k], up, B)
    BY <2>1, <1>1, <1>3
  <2>3. UpFirst(ss[k], up, B \cup ToSet(x))
    BY <2>2 DEF UpFirst
  <2>4. UpFirst(x \o ss[k], up, B)
    BY <2>2, <2>3, <1>1, ConcatUpFirst
  <2>5. x \o ss[k] \in Seq(S)
    BY <2>2, <1>1, ConcatMembers
  <2> QED
    BY <2>1, <2>2, <2>4, <2>5
<1>4. FlattenSeq(ss) \in I[n]
  <2> HIDE DEF I
  <2>1. n = Len(ss)
    BY DEF n
  <2> QED
    BY <1>2, <1>3, <2>1, FlattenTurns
<1>5. n \in 0..n
  BY <1>1
<1> QED
  BY <1>4, <1>5

(***************************************************************************)
(* Trees.  up names what is around a node; nothing is around itself, in    *)
(* any number of steps.                                                    *)
(***************************************************************************)
WellFounded(D, up) == \A S \in SUBSET D : S # {} => \E n \in S : up[n] \notin S

IsHeight(h, D, up) == h \in [D -> Nat] /\ \A n \in D : up[n] \in D => h[n] < h[up[n]]

\* The height of a node: how many nodes there are in it.
LEMMA HeightExists ==
  ASSUME NEW D, IsFiniteSet(D), NEW up, WellFounded(D, up)
  PROVE  \E h : IsHeight(h, D, up) /\ \A n \in D : h[n] <= Cardinality(D)
<1> DEFINE Closed(S) == \A x \in D : up[x] \in S => x \in S
           Inside(n) == {k \in D : \A S \in SUBSET D : n \in S /\ Closed(S) => k \in S}
           h == [n \in D |-> Cardinality(Inside(n))]
<1>1. ASSUME NEW n \in D PROVE n \in Inside(n) /\ Inside(n) \subseteq D /\ Closed(Inside(n))
  OBVIOUS
<1>2. ASSUME NEW n \in D, NEW k \in Inside(n) PROVE Inside(k) \subseteq Inside(n)
  <2> DEFINE V == Inside(n)
  <2>1. V \in SUBSET D /\ k \in V /\ Closed(V)
    BY <1>1, <1>2
  <2> HIDE DEF V
  <2>2. \A x \in Inside(k) : x \in V
    BY <2>1
  <2> QED
    BY <2>2 DEF V
<1>3. ASSUME NEW n \in D, up[n] \in D PROVE up[n] \notin Inside(n)
  <2> DEFINE V == Inside(n)
  <2> SUFFICES ASSUME up[n] \in V PROVE FALSE
    OBVIOUS
  <2>1. V \in SUBSET D /\ n \in V /\ Closed(V)
    BY <1>1
  <2>2. ASSUME NEW k \in V PROVE up[k] \in V
    <3>1. CASE k = n
      BY <3>1
    <3>2. CASE k # n
      <4> SUFFICES ASSUME up[k] \notin V PROVE FALSE
        OBVIOUS
      <4> DEFINE U == V \ {k}
      <4>1. U \in SUBSET D /\ n \in U
        BY <2>1, <3>2
      <4>2. Closed(U)
        BY <2>1
      <4>3. k \in U
        <5> HIDE DEF U, Closed
        <5>1. \A S \in SUBSET D : n \in S /\ Closed(S) => k \in S
          BY <2>2
        <5> QED
          BY <5>1, <4>1, <4>2
      <4> QED
        BY <4>3
    <3> QED
      BY <3>1, <3>2
  <2> HIDE DEF V
  <2>3. V # {}
    BY <2>1
  <2> QED
    BY <2>1, <2>2, <2>3 DEF WellFounded
<1>4. ASSUME NEW n \in D, up[n] \in D PROVE h[n] < h[up[n]]
  <2> DEFINE V == Inside(n)
             W == Inside(up[n])
  <2>1. n \in W
    <3>1. up[n] \in W /\ Closed(W)
      BY <1>1, <1>4
    <3> QED
      BY <3>1
  <2>2. V \subseteq W
    BY <1>2, <1>4, <2>1
  <2>3. up[n] \in W /\ up[n] \notin V
    BY <1>1, <1>3, <1>4
  <2>4. V \subseteq D /\ W \subseteq D
    OBVIOUS
  <2> HIDE DEF V, W
  <2>5. IsFiniteSet(W) /\ IsFiniteSet(V)
    BY <2>4, FS_Subset
  <2>6. Cardinality(V) \in Nat /\ Cardinality(W) \in Nat /\ Cardinality(V) <= Cardinality(W)
        /\ (Cardinality(V) = Cardinality(W) => V = W)
    BY <2>2, <2>5, FS_Subset, FS_CardinalityType
  <2>7. Cardinality(V) < Cardinality(W)
    BY <2>3, <2>6
  <2>8. h[n] = Cardinality(V) /\ h[up[n]] = Cardinality(W)
    BY <1>4 DEF V, W
  <2> QED
    BY <2>7, <2>8
<1>5. h \in [D -> Nat]
  <2>1. ASSUME NEW n \in D PROVE Cardinality(Inside(n)) \in Nat
    <3>1. Inside(n) \subseteq D
      OBVIOUS
    <3> HIDE DEF Inside
    <3> QED
      BY <3>1, FS_Subset, FS_CardinalityType
  <2> HIDE DEF Inside
  <2> QED
    BY <2>1
<1>6. ASSUME NEW n \in D PROVE h[n] <= Cardinality(D)
  <2>1. Inside(n) \subseteq D
    OBVIOUS
  <2> HIDE DEF Inside
  <2> QED
    BY <2>1, FS_Subset
<1> HIDE DEF h
<1>7. IsHeight(h, D, up)
  BY <1>4, <1>5 DEF IsHeight
<1> QED
  BY <1>6, <1>7

\* The depth of a node: how far in it is.
IsDepth(d, D, up) == d \in [D -> Nat] /\ \A n \in D : up[n] \in D => d[up[n]] < d[n]

LEMMA DepthExists ==
  ASSUME NEW D, IsFiniteSet(D), NEW up, WellFounded(D, up)
  PROVE  \E d : IsDepth(d, D, up)
<1>1. PICK h : IsHeight(h, D, up) /\ \A n \in D : h[n] <= Cardinality(D)
  BY HeightExists
<1> DEFINE c == Cardinality(D)
           d == [n \in D |-> c - h[n]]
<1>2. c \in Nat
  BY FS_CardinalityType
<1>3. h \in [D -> Nat] /\ \A n \in D : h[n] <= c /\ (up[n] \in D => h[n] < h[up[n]])
  BY <1>1 DEF IsHeight
<1> HIDE DEF c
<1>4. d \in [D -> Nat]
  BY <1>2, <1>3
<1>5. ASSUME NEW n \in D, up[n] \in D PROVE d[up[n]] < d[n]
  <2>1. h[n] \in Nat /\ h[up[n]] \in Nat /\ h[n] < h[up[n]]
    BY <1>3, <1>5
  <2> QED
    BY <2>1, <1>2, <1>5
<1>6. IsDepth(d, D, up)
  BY <1>4, <1>5 DEF IsDepth
<1> QED
  BY <1>6

\* What holds of a node whenever it holds of all lower ones holds of all.
LEMMA FromBelow ==
  ASSUME NEW D, NEW h, h \in [D -> Nat], NEW P,
         \A n \in D : (\A k \in D : h[k] < h[n] => k \in P) => n \in P
  PROVE  D \subseteq P
<1> DEFINE S == {h[n] : n \in {x \in D : x \notin P}}
<1> SUFFICES ASSUME NEW d \in D, d \notin P PROVE FALSE
  OBVIOUS
<1>1. S # {} /\ S \subseteq Nat
  OBVIOUS
<1>2. PICK m \in S : \A k \in S : m <= k
  <2> HIDE DEF S
  <2> QED
    BY <1>1, LeastNatural
<1>3. PICK n \in D : n \notin P /\ h[n] = m
  BY <1>2
<1>4. ASSUME NEW k \in D, h[k] < h[n] PROVE k \in P
  <2>1. h[k] \in Nat /\ h[n] \in Nat
    OBVIOUS
  <2>2. ~(h[n] <= h[k])
    BY <2>1, <1>4
  <2>3. h[k] \notin S
    <3> HIDE DEF S
    <3> QED
      BY <2>2, <1>2, <1>3
  <2> QED
    BY <2>3
<1> QED
  BY <1>3, <1>4

\* A function whose value at a node depends on its values at lower nodes.
OnLower(F, D, V, h) ==
  /\ h \in [D -> Nat] /\ V # {} /\ F \in [[D -> V] -> [D -> V]]
  /\ \A f, g \in [D -> V] : \A n \in D :
        (\A k \in D : h[k] < h[n] => f[k] = g[k]) => F[f][n] = F[g][n]

LEMMA TreeRecursion ==
  ASSUME NEW D, NEW V, NEW h, NEW F, OnLower(F, D, V, h)
  PROVE  \E f : f \in [D -> V] /\ f = F[f]
<1>0. h \in [D -> Nat] /\ F \in [[D -> V] -> [D -> V]]
  BY DEF OnLower
<1> USE <1>0
<1> PICK v \in V : TRUE
  BY DEF OnLower
<1> DEFINE z == [n \in D |-> v]
           X == [D -> V]
           GS(N) == \E g : g \in [0..N -> X] /\ g[0] = z /\ \A k \in 1..N : g[k] = F[g[k - 1]]
<1>1. z \in X
  OBVIOUS
<1>2. ASSUME NEW N \in Nat PROVE GS(N)
  <2> DEFINE I == [k \in 0..N |-> X]
             G == [p \in X \X (1..N) |-> F[p[1]]]
  <2>1. z \in I[0]
    BY <1>1
  <2>2. ASSUME NEW k \in 1..N, NEW x \in I[k - 1] PROVE G[<<x, k>>] \in I[k]
    <3>1. k \in 0..N /\ k - 1 \in 0..N
      OBVIOUS
    <3> HIDE DEF X
    <3>2. x \in X
      BY <3>1
    <3>3. G[<<x, k>>] = F[x]
      BY <3>2
    <3> QED
      BY <3>1, <3>2, <3>3 DEF X
  <2>3. PICK g : IsRun(g, N, z, G, I)
    <3> HIDE DEF I, G, X, z
    <3> QED
      BY <2>1, <2>2, RunExists
  <2>4. \A k \in 0..N : g[k] \in X
    BY <2>3 DEF IsRun
  <2>5. g \in [0..N -> X]
    <3> HIDE DEF X
    <3>1. g = [k \in 0..N |-> g[k]]
      BY <2>3 DEF IsRun
    <3> QED
      BY <2>4, <3>1
  <2>6. ASSUME NEW k \in 1..N PROVE g[k] = F[g[k - 1]]
    <3>0. k - 1 \in 0..N
      OBVIOUS
    <3>1. g[k] = G[<<g[k - 1], k>>]
      <4> HIDE DEF G, I, X, z
      <4>1. \A j \in 1..N : g[j] = G[<<g[j - 1], j>>]
        BY ONLY <2>3 DEF IsRun
      <4> QED
        BY ONLY <4>1, k \in 1..N
    <3> HIDE DEF X
    <3>2. g[k - 1] \in X
      BY <2>4, <3>0
    <3> QED
      BY <3>1, <3>2
  <2>7. g[0] = z
    BY <2>3 DEF IsRun
  <2> QED
    BY <2>5, <2>6, <2>7
<1> DEFINE run == [N \in Nat |-> CHOOSE g : g \in [0..N -> X] /\ g[0] = z /\ \A k \in 1..N : g[k] = F[g[k - 1]]]
<1>3. ASSUME NEW N \in Nat
      PROVE  run[N] \in [0..N -> X] /\ run[N][0] = z /\ \A k \in 1..N : run[N][k] = F[run[N][k - 1]]
  <2>1. GS(N)
    BY <1>2
  <2> HIDE DEF X, z
  <2> QED
    BY <2>1
<1> HIDE DEF run, GS
\* Two runs agree as far as both go.
<1>4. ASSUME NEW N \in Nat, NEW M \in Nat, N <= M PROVE \A k \in 0..N : run[N][k] = run[M][k]
  <2> DEFINE P == {k \in 0..N : run[N][k] = run[M][k]}
  <2> HIDE DEF X, z
  <2>1. 0 \in P
    BY <1>3
  <2>2. ASSUME NEW k \in 1..N, k - 1 \in P PROVE k \in P
    <3>1. k \in 1..M /\ k \in 0..N
      BY <1>4
    <3>2. run[N][k] = F[run[N][k - 1]] /\ run[M][k] = F[run[M][k - 1]]
      BY <3>1, <1>3
    <3> QED
      BY <3>1, <3>2, <2>2
  <2> HIDE DEF P
  <2>3. \A k \in 0..N : k \in P
    BY <2>1, <2>2, Climb
  <2> QED
    BY <2>3 DEF P
<1> DEFINE it(N) == run[N][N]
<1>5. ASSUME NEW N \in Nat PROVE it(N) \in X /\ it(N + 1) = F[it(N)]
  <2>1. N \in 0..N /\ N + 1 \in Nat /\ N <= N + 1 /\ N + 1 \in 1..(N + 1) /\ N + 1 - 1 = N
    OBVIOUS
  <2> HIDE DEF X, z
  <2>2. it(N) \in X
    BY <2>1, <1>3
  <2>3. run[N + 1][N + 1] = F[run[N + 1][N]]
    BY <2>1, <1>3
  <2>4. run[N][N] = run[N + 1][N]
    BY <2>1, <1>4
  <2> QED
    BY <2>2, <2>3, <2>4
<1> HIDE DEF it
\* A node of height less than N has its value after N rounds.
<1>6. ASSUME NEW N \in Nat PROVE \A n \in D : h[n] < N => it(N)[n] = it(N + 1)[n]
  <2> DEFINE P == {k \in 0..N : \A n \in D : h[n] < k => it(k)[n] = it(k + 1)[n]}
  <2>1. 0 \in P
    OBVIOUS
  <2>2. ASSUME NEW k \in 1..N, k - 1 \in P PROVE k \in P
    <3>1. k \in 0..N /\ k - 1 \in Nat /\ k \in Nat /\ k - 1 + 1 = k
      OBVIOUS
    <3>2. \A n \in D : h[n] < k - 1 => it(k - 1)[n] = it(k)[n]
      BY <2>2, <3>1
    <3>3. it(k - 1) \in X /\ it(k) \in X /\ it(k) = F[it(k - 1)] /\ it(k + 1) = F[it(k)]
      BY <3>1, <1>5
    <3>4. ASSUME NEW n \in D, h[n] < k PROVE it(k)[n] = it(k + 1)[n]
      <4>1. \A j \in D : h[j] < h[n] => h[j] < k - 1
        <5>1. \A j \in D : h[j] \in Nat
          OBVIOUS
        <5> QED
          BY <5>1, <3>1, <3>4
      <4>2. \A j \in D : h[j] < h[n] => it(k - 1)[j] = it(k)[j]
        BY <4>1, <3>2
      <4>3. F[it(k - 1)][n] = F[it(k)][n]
        BY <4>2, <3>3 DEF OnLower
      <4> QED
        BY <4>3, <3>3
    <3> QED
      BY <3>1, <3>4
  <2> HIDE DEF P
  <2>3. \A k \in 0..N : k \in P
    BY <2>1, <2>2, Climb
  <2> QED
    BY <2>3 DEF P
<1>7. ASSUME NEW N \in Nat, NEW M \in Nat, N <= M
      PROVE  \A n \in D : h[n] < N => it(N)[n] = it(M)[n]
  <2> DEFINE P == {k \in 0..(M - N) : \A n \in D : h[n] < N => it(N)[n] = it(N + k)[n]}
             d == M - N
  <2>1. 0 \in P
    BY <1>7
  <2>2. ASSUME NEW k \in 1..d, k - 1 \in P PROVE k \in P
    <3>1. k \in 0..(M - N) /\ N + (k - 1) \in Nat /\ N + (k - 1) + 1 = N + k
      BY <1>7
    <3>2. \A n \in D : h[n] < N => h[n] < N + (k - 1)
      <4>1. \A j \in D : h[j] \in Nat
        OBVIOUS
      <4> QED
        BY <4>1, <3>1
    <3>3. \A n \in D : h[n] < N => it(N + (k - 1))[n] = it(N + k)[n]
      BY <3>1, <3>2, <1>6
    <3> QED
      BY <3>1, <3>3, <2>2
  <2>3. d \in Nat /\ d \in 0..d /\ N + d = M
    BY <1>7
  <2> HIDE DEF P, d
  <2>4. \A k \in 0..d : k \in P
    BY <2>1, <2>2, <2>3, Climb
  <2> QED
    BY <2>3, <2>4 DEF P
<1> DEFINE f == [n \in D |-> it(h[n] + 1)[n]]
<1>8. \A n \in D : h[n] \in Nat /\ h[n] + 1 \in Nat
  OBVIOUS
<1>9. f \in [D -> V]
  BY <1>5, <1>8
<1>10. ASSUME NEW n \in D PROVE f[n] = F[f][n]
  <2>1. it(h[n]) \in X /\ it(h[n] + 1) = F[it(h[n])]
    BY <1>5, <1>8
  <2>2. ASSUME NEW k \in D, h[k] < h[n] PROVE f[k] = it(h[n])[k]
    <3>1. h[k] + 1 <= h[n] /\ h[k] < h[k] + 1
      BY <1>8, <2>2
    <3> QED
      BY <3>1, <1>7, <1>8
  <2> HIDE DEF f
  <2>3. F[f][n] = F[it(h[n])][n]
    BY <2>1, <2>2, <1>9 DEF OnLower
  <2> QED
    BY <2>1, <2>3 DEF f
<1> HIDE DEF f
<1>11. f = F[f]
  BY <1>9, <1>10
<1> QED
  BY <1>9, <1>11

(***************************************************************************)
(* Forests: the list of what is in each node, and what is around a node.   *)
(***************************************************************************)
Forest(D, kids, up, h) ==
  /\ kids \in [D -> Seq(D)] /\ h \in [D -> Nat] /\ WellFounded(D, up)
  /\ \A n \in D : /\ IsInjective(kids[n])
                  /\ \A k \in ToSet(kids[n]) : up[k] = n /\ h[k] < h[n]

\* b[n]: the node and all that is in it.
IsBelow(b, D, kids) == b = [n \in D |-> {n} \cup UNION {b[k] : k \in ToSet(kids[n])}]

LEMMA KidsAreNodes ==
  ASSUME NEW D, NEW kids, NEW up, NEW h, Forest(D, kids, up, h)
  PROVE  \A n \in D : ToSet(kids[n]) \subseteq D /\ kids[n] \in Seq(D)
<1> SUFFICES ASSUME NEW n, n \in D PROVE ToSet(kids[n]) \subseteq D /\ kids[n] \in Seq(D)
  OBVIOUS
<1>1. kids[n] \in Seq(D)
  BY DEF Forest
<1> QED
  BY <1>1, Members

LEMMA BelowExists ==
  ASSUME NEW D, NEW kids, NEW up, NEW h, Forest(D, kids, up, h)
  PROVE  \E b : IsBelow(b, D, kids)
<1> DEFINE V == SUBSET D
           F == [f \in [D -> V] |-> [n \in D |-> {n} \cup UNION {f[k] : k \in ToSet(kids[n])}]]
<1>1. ASSUME NEW n \in D PROVE ToSet(kids[n]) \subseteq D /\ \A k \in ToSet(kids[n]) : h[k] < h[n]
  <2>1. ToSet(kids[n]) \subseteq D
    BY KidsAreNodes
  <2> QED
    BY <2>1 DEF Forest
<1>2. F \in [[D -> V] -> [D -> V]]
  <2> SUFFICES ASSUME NEW f \in [D -> V], NEW n \in D
               PROVE  {n} \cup UNION {f[k] : k \in ToSet(kids[n])} \in V
    OBVIOUS
  <2> QED
    BY <1>1
<1>3. OnLower(F, D, V, h)
  <2>0. {} \in V /\ h \in [D -> Nat]
    BY DEF Forest
  <2> SUFFICES ASSUME NEW f \in [D -> V], NEW g \in [D -> V], NEW n \in D,
                      \A k \in D : h[k] < h[n] => f[k] = g[k]
               PROVE  F[f][n] = F[g][n]
    <3> HIDE DEF F, V
    <3> QED
      BY <1>2, <2>0 DEF OnLower
  <2>1. \A k \in ToSet(kids[n]) : f[k] = g[k]
    BY <1>1
  <2> QED
    BY <2>1
<1>4. \E f : f \in [D -> V] /\ f = F[f]
  <2> HIDE DEF F, V
  <2> QED
    BY <1>3, TreeRecursion
<1>5. PICK f : f \in [D -> V] /\ f = F[f]
  BY <1>4
<1>6. F[f] = [n \in D |-> {n} \cup UNION {f[k] : k \in ToSet(kids[n])}]
  BY <1>5
<1> QED
  BY <1>5, <1>6 DEF IsBelow

LEMMA BelowFacts ==
  ASSUME NEW D, NEW kids, NEW up, NEW h, Forest(D, kids, up, h), NEW b, IsBelow(b, D, kids),
         NEW n, n \in D
  PROVE  /\ b[n] = {n} \cup UNION {b[k] : k \in ToSet(kids[n])}
         /\ b[n] \subseteq D /\ n \in b[n]
         /\ \A x \in b[n] : /\ x = n \/ up[x] \in b[n]
                            /\ h[x] <= h[n]
                            /\ ToSet(kids[x]) \subseteq b[n]
<1>1. \A m \in D : b[m] = {m} \cup UNION {b[k] : k \in ToSet(kids[m])}
  BY DEF IsBelow
<1>2. ASSUME NEW m \in D PROVE ToSet(kids[m]) \subseteq D /\ \A k \in ToSet(kids[m]) : h[k] < h[m] /\ up[k] = m
  <2>1. ToSet(kids[m]) \subseteq D
    BY KidsAreNodes
  <2> QED
    BY <2>1 DEF Forest
<1>3. h \in [D -> Nat]
  BY DEF Forest
<1> DEFINE Good(m) == /\ b[m] \subseteq D
                      /\ \A x \in b[m] : /\ x = m \/ up[x] \in b[m]
                                         /\ h[x] <= h[m]
                                         /\ ToSet(kids[x]) \subseteq b[m]
           P == {m \in D : Good(m)}
<1>4. ASSUME NEW m \in D, \A k \in D : h[k] < h[m] => k \in P PROVE m \in P
  <2>1. \A k \in ToSet(kids[m]) : k \in D /\ Good(k) /\ h[k] < h[m] /\ up[k] = m
    BY <1>2, <1>4
  <2>2. b[m] \subseteq D
    BY <2>1, <1>1
  <2>3. ASSUME NEW x \in b[m] PROVE (x = m \/ up[x] \in b[m]) /\ h[x] <= h[m] /\ ToSet(kids[x]) \subseteq b[m]
    <3>1. CASE x = m
      <4>1. \A k \in ToSet(kids[m]) : k \in b[k]
        BY <2>1, <1>1
      <4>2. ToSet(kids[m]) \subseteq b[m]
        BY <4>1, <1>1
      <4> QED
        BY <3>1, <4>2, <1>3
    <3>2. CASE x # m
      <4>1. PICK k \in ToSet(kids[m]) : x \in b[k]
        BY <3>2, <2>3, <1>1
      <4>2. b[k] \subseteq b[m] /\ m \in b[m]
        BY <1>1
      <4>3. x = k \/ up[x] \in b[k]
        BY <4>1, <2>1
      <4>4. h[x] <= h[k] /\ h[k] < h[m]
        BY <4>1, <2>1
      <4>5. h[x] \in Nat /\ h[k] \in Nat /\ h[m] \in Nat
        BY <1>3, <2>1, <2>2, <4>1
      <4>6. ToSet(kids[x]) \subseteq b[k]
        BY <4>1, <2>1
      <4> HIDE DEF P
      <4> QED
        BY <4>2, <4>3, <4>4, <4>5, <4>6, <2>1, <4>1
    <3> QED
      BY <3>1, <3>2
  <2> QED
    BY <2>2, <2>3
<1>5. D \subseteq P
  <2> HIDE DEF P
  <2> QED
    BY <1>3, <1>4, FromBelow
<1> QED
  BY <1>1, <1>5

\* Two nodes neither of which lies around the other have nothing in common.
LEMMA BelowApart ==
  ASSUME NEW D, NEW kids, NEW up, NEW h, Forest(D, kids, up, h), NEW b, IsBelow(b, D, kids),
         NEW k, k \in D, NEW j, j \in D, k # j, up[k] \notin b[j], up[j] \notin b[k]
  PROVE  b[k] \cap b[j] = {}
<1> DEFINE S == b[k] \cap b[j]
<1> SUFFICES ASSUME S # {} PROVE FALSE
  OBVIOUS
<1>1. /\ S \subseteq D
      /\ \A x \in S : (x = k \/ up[x] \in b[k]) /\ (x = j \/ up[x] \in b[j])
  BY BelowFacts
<1>2. PICK x \in S : up[x] \notin S
  BY <1>1 DEF Forest, WellFounded
<1> QED
  BY <1>1, <1>2

(***************************************************************************)
(* Walks of a forest: at each node what is noted before its children, what *)
(* the walk of each child notes, and what is noted after them.             *)
(***************************************************************************)
IsWalk(f, D, kids, pre, post) ==
  f = [n \in D |-> (pre[n] \o FlattenSeq([i \in DOMAIN kids[n] |-> f[kids[n][i]]])) \o post[n]]

\* A node is noted once or not at all.
Notes(D, pre, post) ==
  \A n \in D : \/ pre[n] = <<n>> /\ post[n] = <<>>
               \/ pre[n] = <<>> /\ post[n] \in {<<>>, <<n>>}

Noted(D, pre, post) == {n \in D : <<n>> \in {pre[n], post[n]}}

\* The lists f has for the members of s, one after the other.
ListsOf(ss, f, s, D) ==
  ss = [i \in DOMAIN s |-> f[s[i]]] /\ \A k \in ToSet(s) : f[k] \in Seq(D)

LEMMA KidLists ==
  ASSUME NEW D, NEW s, s \in Seq(D), NEW f, NEW ss, ListsOf(ss, f, s, D)
  PROVE  /\ ss \in Seq(Seq(D)) /\ DOMAIN ss = DOMAIN s
         /\ \A i \in DOMAIN ss : ss[i] = f[s[i]] /\ s[i] \in ToSet(s)
<1>1. ss = [i \in DOMAIN s |-> f[s[i]]] /\ \A k \in ToSet(s) : f[k] \in Seq(D)
  BY DEF ListsOf
<1>2. Len(s) \in Nat /\ DOMAIN s = 1..Len(s)
  BY Members
<1>3. \A i \in DOMAIN s : s[i] \in ToSet(s)
  BY DEF ToSet
<1>4. ss \in [1..Len(s) -> Seq(D)]
  BY <1>1, <1>2, <1>3
<1>5. ss \in Seq(Seq(D))
  <2> DEFINE V == Seq(D)
             N == Len(s)
  <2>1. N \in Nat /\ ss \in [1..N -> V]
    BY <1>2, <1>4
  <2> HIDE DEF V, N
  <2>2. ss \in Seq(V)
    BY <2>1, SeqDef
  <2> QED
    BY <2>2 DEF V
<1> QED
  BY <1>1, <1>3, <1>5

LEMMA WalkExists ==
  ASSUME NEW D, NEW kids, NEW up, NEW h, Forest(D, kids, up, h), NEW pre, NEW post, Notes(D, pre, post)
  PROVE  \E f : IsWalk(f, D, kids, pre, post)
<1> DEFINE V == Seq(D)
           L(f, n) == [i \in DOMAIN kids[n] |-> f[kids[n][i]]]
           G(f, n) == (pre[n] \o FlattenSeq(L(f, n))) \o post[n]
           F == [f \in [D -> V] |-> [n \in D |-> G(f, n)]]
<1>1. ASSUME NEW n \in D PROVE ToSet(kids[n]) \subseteq D /\ \A k \in ToSet(kids[n]) : h[k] < h[n]
  <2>1. ToSet(kids[n]) \subseteq D
    BY KidsAreNodes
  <2> QED
    BY <2>1 DEF Forest
<1>2. ASSUME NEW n \in D PROVE pre[n] \in V /\ post[n] \in V
  <2>1. <<>> \in V /\ <<n>> \in V
    BY EmptySeq, Singleton
  <2> HIDE DEF V
  <2> QED
    BY <2>1 DEF Notes
<1>3. F \in [[D -> V] -> [D -> V]]
  <2> SUFFICES ASSUME NEW f \in [D -> V], NEW n \in D PROVE G(f, n) \in V
    <3> HIDE DEF G, V
    <3> QED
      OBVIOUS
  <2>1. \A k \in ToSet(kids[n]) : f[k] \in Seq(D)
    BY <1>1
  <2>2. L(f, n) \in Seq(Seq(D))
    <3>1. ListsOf(L(f, n), f, kids[n], D) /\ kids[n] \in Seq(D)
      BY <2>1, KidsAreNodes DEF ListsOf
    <3> HIDE DEF L
    <3> QED
      BY <3>1, KidLists
  <2> HIDE DEF L
  <2>3. FlattenSeq(L(f, n)) \in V
    BY <2>2, FlattenMembers
  <2> QED
    BY <2>3, <1>2, ConcatMembers
<1>4. OnLower(F, D, V, h)
  <2>0. <<>> \in V /\ h \in [D -> Nat]
    BY EmptySeq DEF Forest
  <2> SUFFICES ASSUME NEW f \in [D -> V], NEW g \in [D -> V], NEW n \in D,
                      \A k \in D : h[k] < h[n] => f[k] = g[k]
               PROVE  F[f][n] = F[g][n]
    <3> HIDE DEF F, V, G, L
    <3> QED
      BY <1>3, <2>0 DEF OnLower
  <2>1. \A i \in DOMAIN kids[n] : f[kids[n][i]] = g[kids[n][i]]
    BY <1>1 DEF ToSet
  <2>2. L(f, n) = L(g, n)
    BY <2>1
  <2> HIDE DEF L, V
  <2>3. G(f, n) = G(g, n)
    BY <2>2
  <2> HIDE DEF G
  <2> QED
    BY <2>3
<1>5. \E f : f \in [D -> V] /\ f = F[f]
  <2> HIDE DEF F, V, G, L
  <2> QED
    BY <1>4, TreeRecursion
<1>6. PICK f : f \in [D -> V] /\ f = F[f]
  BY <1>5
<1>7. F[f] = [n \in D |-> G(f, n)]
  <2> HIDE DEF G, V
  <2> QED
    BY <1>6
<1> QED
  BY <1>6, <1>7 DEF IsWalk

\* A walk notes each node that is to be noted once.
LEMMA WalkMembers ==
  ASSUME NEW D, NEW kids, NEW up, NEW h, Forest(D, kids, up, h), NEW b, IsBelow(b, D, kids),
         NEW pre, NEW post, Notes(D, pre, post), NEW f, IsWalk(f, D, kids, pre, post)
  PROVE  \A n \in D : /\ f[n] \in Seq(D) /\ IsInjective(f[n])
                      /\ ToSet(f[n]) = b[n] \cap Noted(D, pre, post)
<1> DEFINE N == Noted(D, pre, post)
           Good(n) == f[n] \in Seq(D) /\ IsInjective(f[n]) /\ ToSet(f[n]) = b[n] \cap N
           P == {n \in D : Good(n)}
<1>1. ASSUME NEW n \in D, \A k \in D : h[k] < h[n] => k \in P PROVE Good(n)
  <2> DEFINE ss == [i \in DOMAIN kids[n] |-> f[kids[n][i]]]
             mid == FlattenSeq(ss)
  <2>1. ToSet(kids[n]) \subseteq D /\ \A k \in ToSet(kids[n]) : h[k] < h[n] /\ up[k] = n
    <3>1. ToSet(kids[n]) \subseteq D
      BY KidsAreNodes
    <3> QED
      BY <3>1 DEF Forest
  <2>2. \A k \in ToSet(kids[n]) : Good(k) /\ k \in D
    BY <2>1, <1>1
  <2>3. /\ ss \in Seq(Seq(D)) /\ DOMAIN ss = DOMAIN kids[n]
        /\ \A i \in DOMAIN ss : ss[i] = f[kids[n][i]] /\ kids[n][i] \in ToSet(kids[n])
    <3>1. ListsOf(ss, f, kids[n], D) /\ kids[n] \in Seq(D)
      <4> HIDE DEF N
      <4> QED
        BY <2>2, KidsAreNodes DEF ListsOf
    <3> HIDE DEF ss
    <3> QED
      BY <3>1, KidLists
  <2>4. \A k \in D : b[k] \subseteq D /\ k \in b[k] /\ \A x \in b[k] : h[x] <= h[k]
    BY BelowFacts
  <2>5. b[n] = {n} \cup UNION {b[k] : k \in ToSet(kids[n])}
    BY BelowFacts
  <2>6. \A k \in ToSet(kids[n]) : n \notin b[k]
    <3>1. \A k \in ToSet(kids[n]) : h[k] \in Nat /\ h[n] \in Nat /\ h[k] < h[n] /\ k \in D
      BY <2>1 DEF Forest
    <3> QED
      BY <3>1, <2>4
  <2>7. \A k, j \in ToSet(kids[n]) : k # j => b[k] \cap b[j] = {}
    BY <2>1, <2>6, BelowApart
  <2>8. AllApart(ss)
    <3>1. \A i \in DOMAIN ss : IsInjective(ss[i]) /\ ToSet(ss[i]) \subseteq b[kids[n][i]]
      BY <2>2, <2>3
    <3>2. \A i, j \in DOMAIN ss : i # j => kids[n][i] # kids[n][j]
      BY <2>3 DEF Forest, IsInjective
    <3>3. \A i, j \in DOMAIN ss : i # j => ToSet(ss[i]) \cap ToSet(ss[j]) = {}
      <4> HIDE DEF ss
      <4> SUFFICES ASSUME NEW i \in DOMAIN ss, NEW j \in DOMAIN ss, i # j
                   PROVE  ToSet(ss[i]) \cap ToSet(ss[j]) = {}
        OBVIOUS
      <4>1. b[kids[n][i]] \cap b[kids[n][j]] = {}
        BY <3>2, <2>3, <2>7
      <4> QED
        BY <4>1, <3>1
    <3> QED
      BY <3>1, <3>3 DEF AllApart
  <2> DEFINE below == UNION {b[k] : k \in ToSet(kids[n])}
             all == UNION {ToSet(ss[i]) : i \in DOMAIN ss}
  <2>9. all = below \cap N
    <3>2. \A i \in DOMAIN ss : ToSet(ss[i]) = b[kids[n][i]] \cap N
      BY <2>2, <2>3
    <3> HIDE DEF ss, N
    <3>3. ASSUME NEW x \in all PROVE x \in below \cap N
      BY <3>2, <2>3
    <3>4. ASSUME NEW x \in below \cap N PROVE x \in all
      <4>1. PICK k \in ToSet(kids[n]) : x \in b[k]
        OBVIOUS
      <4>2. PICK i \in DOMAIN ss : kids[n][i] = k
        BY <2>3 DEF ToSet
      <4>3. x \in ToSet(ss[i])
        BY <3>2, <4>1, <4>2
      <4> QED
        BY <4>3
    <3> HIDE DEF all, below
    <3> QED
      BY <3>3, <3>4
  <2>10. f[n] = (pre[n] \o mid) \o post[n]
    BY DEF IsWalk
  <2>11. mid \in Seq(D) /\ IsInjective(mid) /\ ToSet(mid) = below \cap N
    <3>1. /\ mid \in Seq(D) /\ ToSet(mid) = all
          /\ AllApart(ss) => IsInjective(mid)
      <4> HIDE DEF ss
      <4> QED
        BY <2>3, FlattenMembers
    <3> HIDE DEF ss, N, below, all, mid
    <3> QED
      BY <3>1, <2>8, <2>9
  <2>12. n \notin below /\ b[n] = {n} \cup below
    BY <2>5, <2>6
  <2>13. n \notin ToSet(mid)
    BY <2>11, <2>12
  <2> HIDE DEF mid, below, ss
  <2>14. <<>> \in Seq(D) /\ <<n>> \in Seq(D) /\ ToSet(<<n>>) = {n} /\ IsInjective(<<n>>)
    BY EmptySeq, Singleton
  <2>15. CASE pre[n] = <<n>> /\ post[n] = <<>>
    <3>1. f[n] = <<n>> \o mid
      <4>1. <<n>> \o mid \in Seq(D)
        BY <2>11, <2>14, ConcatMembers
      <4> QED
        BY <4>1, <2>10, <2>15, ConcatEmptySeq
    <3>2. f[n] \in Seq(D) /\ ToSet(f[n]) = {n} \cup ToSet(mid) /\ IsInjective(f[n])
      <4> HIDE DEF N
      <4>1. ToSet(<<n>>) \cap ToSet(mid) = {} /\ ToSet(mid) \cap ToSet(<<n>>) = {}
        BY <2>13, <2>14
      <4>2. mid \in Seq(D) /\ <<n>> \in Seq(D) /\ IsInjective(mid) /\ IsInjective(<<n>>)
        BY <2>11, <2>14
      <4>3. ToSet(<<n>>) = {n}
        BY <2>14
      <4> QED
        <5> DEFINE one == <<n>>
        <5> HIDE DEF one
        <5>0. /\ one \in Seq(D) /\ IsInjective(one) /\ mid \in Seq(D) /\ IsInjective(mid)
              /\ ToSet(one) \cap ToSet(mid) = {} /\ ToSet(mid) \cap ToSet(one) = {}
          BY <4>1, <4>2 DEF one
        <5>1. /\ one \o mid \in Seq(D) /\ ToSet(one \o mid) = ToSet(one) \cup ToSet(mid)
              /\ IsInjective(one \o mid)
          BY <5>0, ConcatMembers
        <5>2. /\ mid \o one \in Seq(D) /\ ToSet(mid \o one) = ToSet(mid) \cup ToSet(one)
              /\ IsInjective(mid \o one)
          BY <5>0, ConcatMembers
        <5> QED
          BY <3>1, <4>3, <5>1, <5>2 DEF one
    <3>3. n \in N
      BY <2>15 DEF Noted
    <3> QED
      BY <3>2, <3>3, <2>11, <2>12
  <2>16. CASE pre[n] = <<>> /\ post[n] = <<n>>
    <3>1. f[n] = mid \o <<n>>
      BY <2>10, <2>16, <2>11, ConcatEmptySeq
    <3>2. f[n] \in Seq(D) /\ ToSet(f[n]) = {n} \cup ToSet(mid) /\ IsInjective(f[n])
      <4> HIDE DEF N
      <4>1. ToSet(<<n>>) \cap ToSet(mid) = {} /\ ToSet(mid) \cap ToSet(<<n>>) = {}
        BY <2>13, <2>14
      <4>2. mid \in Seq(D) /\ <<n>> \in Seq(D) /\ IsInjective(mid) /\ IsInjective(<<n>>)
        BY <2>11, <2>14
      <4>3. ToSet(<<n>>) = {n}
        BY <2>14
      <4> QED
        <5> DEFINE one == <<n>>
        <5> HIDE DEF one
        <5>0. /\ one \in Seq(D) /\ IsInjective(one) /\ mid \in Seq(D) /\ IsInjective(mid)
              /\ ToSet(one) \cap ToSet(mid) = {} /\ ToSet(mid) \cap ToSet(one) = {}
          BY <4>1, <4>2 DEF one
        <5>1. /\ one \o mid \in Seq(D) /\ ToSet(one \o mid) = ToSet(one) \cup ToSet(mid)
              /\ IsInjective(one \o mid)
          BY <5>0, ConcatMembers
        <5>2. /\ mid \o one \in Seq(D) /\ ToSet(mid \o one) = ToSet(mid) \cup ToSet(one)
              /\ IsInjective(mid \o one)
          BY <5>0, ConcatMembers
        <5> QED
          BY <3>1, <4>3, <5>1, <5>2 DEF one
    <3>3. n \in N
      BY <2>16 DEF Noted
    <3> QED
      BY <3>2, <3>3, <2>11, <2>12
  <2>17. CASE pre[n] = <<>> /\ post[n] = <<>>
    <3>1. f[n] = mid
      BY <2>10, <2>17, <2>11, ConcatEmptySeq
    <3>2. n \notin N
      <4>1. <<n>> # <<>>
        BY Singleton, EmptySeq
      <4> QED
        BY <4>1, <2>17 DEF Noted
    <3> QED
      BY <3>1, <3>2, <2>11, <2>12
  <2> QED
    BY <2>15, <2>16, <2>17 DEF Notes
<1>2. h \in [D -> Nat]
  BY DEF Forest
<1>3. D \subseteq P
  <2>1. \A n \in D : (\A k \in D : h[k] < h[n] => k \in P) => n \in P
    BY <1>1
  <2> HIDE DEF P
  <2> QED
    BY <1>2, <2>1, FromBelow
<1> QED
  BY <1>3

(***************************************************************************)
(* The two walks of the layout: each node before, and some nodes after     *)
(* what is in them.                                                        *)
(***************************************************************************)
IsPreWalk(f, D, kids) ==
  f = [n \in D |-> <<n>> \o FlattenSeq([i \in DOMAIN kids[n] |-> f[kids[n][i]]])]

IsPostWalk(f, D, kids, post) ==
  f = [n \in D |-> FlattenSeq([i \in DOMAIN kids[n] |-> f[kids[n][i]]]) \o post[n]]

\* The lists of the children, once each of them is a list.
LEMMA ChildrenLists ==
  ASSUME NEW D, NEW kids, NEW up, NEW h, Forest(D, kids, up, h), NEW n, n \in D, NEW f,
         \A k \in D : h[k] < h[n] => f[k] \in Seq(D),
         NEW ss, ss = [i \in DOMAIN kids[n] |-> f[kids[n][i]]]
  PROVE  /\ ss \in Seq(Seq(D)) /\ FlattenSeq(ss) \in Seq(D) /\ DOMAIN ss = DOMAIN kids[n]
         /\ \A i \in DOMAIN ss : /\ ss[i] = f[kids[n][i]] /\ kids[n][i] \in D
                                 /\ up[kids[n][i]] = n /\ h[kids[n][i]] < h[n]
<1>1. kids[n] \in Seq(D) /\ \A k \in ToSet(kids[n]) : k \in D /\ up[k] = n /\ h[k] < h[n]
  <2>1. kids[n] \in Seq(D) /\ ToSet(kids[n]) \subseteq D
    BY KidsAreNodes
  <2> QED
    BY <2>1 DEF Forest
<1>2. ListsOf(ss, f, kids[n], D)
  BY <1>1 DEF ListsOf
<1>3. ss \in Seq(Seq(D)) /\ DOMAIN ss = DOMAIN kids[n]
      /\ \A i \in DOMAIN ss : ss[i] = f[kids[n][i]] /\ kids[n][i] \in ToSet(kids[n])
  BY <1>1, <1>2, KidLists
<1>4. FlattenSeq(ss) \in Seq(D)
  BY <1>3, FlattenMembers
<1> QED
  BY <1>1, <1>3, <1>4

LEMMA PreWalkExists ==
  ASSUME NEW D, NEW kids, NEW up, NEW h, Forest(D, kids, up, h)
  PROVE  \E f : IsPreWalk(f, D, kids)
<1> DEFINE pre == [n \in D |-> <<n>>]
           post == [n \in D |-> <<>>]
           L(f, n) == [i \in DOMAIN kids[n] |-> f[kids[n][i]]]
<1>1. Notes(D, pre, post)
  BY DEF Notes
<1> HIDE DEF pre, post
<1>2. PICK f : IsWalk(f, D, kids, pre, post)
  BY <1>1, WalkExists
<1>3. PICK b : IsBelow(b, D, kids)
  BY BelowExists
<1>4. \A n \in D : f[n] \in Seq(D)
  BY <1>1, <1>2, <1>3, WalkMembers
<1>5. f = [n \in D |-> (pre[n] \o FlattenSeq(L(f, n))) \o post[n]]
  BY <1>2 DEF IsWalk
<1>6. ASSUME NEW n \in D
      PROVE  (pre[n] \o FlattenSeq(L(f, n))) \o post[n] = <<n>> \o FlattenSeq(L(f, n))
  <2>1. FlattenSeq(L(f, n)) \in Seq(D)
    <3> DEFINE ss == L(f, n)
    <3>1. ss = [i \in DOMAIN kids[n] |-> f[kids[n][i]]]
      OBVIOUS
    <3> HIDE DEF ss
    <3>2. FlattenSeq(ss) \in Seq(D)
      BY <3>1, <1>4, ChildrenLists
    <3> QED
      BY <3>2 DEF ss
  <2> HIDE DEF L
  <2>2. pre[n] = <<n>> /\ post[n] = <<>>
    BY DEF pre, post
  <2>3. <<n>> \o FlattenSeq(L(f, n)) \in Seq(D)
    BY <2>1, ConcatMembers, Singleton
  <2> QED
    BY <2>2, <2>3, ConcatEmptySeq
<1>7. f = [n \in D |-> <<n>> \o FlattenSeq(L(f, n))]
  <2> HIDE DEF L
  <2> QED
    BY <1>5, <1>6
<1> QED
  BY <1>7 DEF IsPreWalk

LEMMA PreWalkMembers ==
  ASSUME NEW D, NEW kids, NEW up, NEW h, Forest(D, kids, up, h), NEW b, IsBelow(b, D, kids),
         NEW f, IsPreWalk(f, D, kids)
  PROVE  \A n \in D : /\ f[n] \in Seq(D) /\ IsInjective(f[n]) /\ ToSet(f[n]) = b[n]
                      /\ UpFirst(f[n], up, {up[n]})
<1> DEFINE L(n) == [i \in DOMAIN kids[n] |-> f[kids[n][i]]]
           pre == [n \in D |-> <<n>>]
           post == [n \in D |-> <<>>]
<1>0. ASSUME NEW n \in D PROVE f[n] = <<n>> \o FlattenSeq(L(n))
  BY DEF IsPreWalk
<1>1. h \in [D -> Nat]
  BY DEF Forest
<1>2. \A n \in D : f[n] \in Seq(D)
  <2> DEFINE P == {n \in D : f[n] \in Seq(D)}
  <2>1. ASSUME NEW n \in D, \A k \in D : h[k] < h[n] => k \in P PROVE n \in P
    <3> DEFINE ss == L(n)
    <3>1. ss = [i \in DOMAIN kids[n] |-> f[kids[n][i]]]
      OBVIOUS
    <3>2. \A k \in D : h[k] < h[n] => f[k] \in Seq(D)
      BY <2>1
    <3> HIDE DEF ss
    <3>3. FlattenSeq(ss) \in Seq(D)
      BY <3>1, <3>2, ChildrenLists
    <3>4. <<n>> \o FlattenSeq(ss) \in Seq(D)
      BY <3>3, ConcatMembers, Singleton
    <3> QED
      BY <3>4, <1>0 DEF ss
  <2> HIDE DEF P
  <2>2. D \subseteq P
    BY <2>1, <1>1, FromBelow
  <2> QED
    BY <2>2 DEF P
<1>3. \A n \in D : FlattenSeq(L(n)) \in Seq(D)
  <2> SUFFICES ASSUME NEW n \in D PROVE FlattenSeq(L(n)) \in Seq(D)
    OBVIOUS
  <2> DEFINE ss == L(n)
  <2>1. ss = [i \in DOMAIN kids[n] |-> f[kids[n][i]]]
    OBVIOUS
  <2> HIDE DEF ss
  <2>2. FlattenSeq(ss) \in Seq(D)
    BY <2>1, <1>2, ChildrenLists
  <2> QED
    BY <2>2 DEF ss
<1>4. IsWalk(f, D, kids, pre, post)
  <2>1. ASSUME NEW n \in D PROVE <<n>> \o FlattenSeq(L(n)) = (pre[n] \o FlattenSeq(L(n))) \o post[n]
    <3> HIDE DEF L
    <3>1. <<n>> \o FlattenSeq(L(n)) \in Seq(D)
      BY <1>3, ConcatMembers, Singleton
    <3> QED
      BY <3>1, ConcatEmptySeq
  <2>2. f = [n \in D |-> <<n>> \o FlattenSeq(L(n))]
    BY DEF IsPreWalk
  <2>3. f = [n \in D |-> (pre[n] \o FlattenSeq(L(n))) \o post[n]]
    <3> HIDE DEF L, pre, post
    <3> QED
      BY <2>1, <2>2
  <2> QED
    BY <2>3 DEF IsWalk
<1>5. Notes(D, pre, post) /\ Noted(D, pre, post) = D
  BY DEF Notes, Noted
<1> HIDE DEF pre, post
<1>6. \A n \in D : f[n] \in Seq(D) /\ IsInjective(f[n]) /\ ToSet(f[n]) = b[n]
  <2>1. \A n \in D : b[n] \subseteq D
    BY BelowFacts
  <2>2. \A n \in D : /\ f[n] \in Seq(D) /\ IsInjective(f[n])
                     /\ ToSet(f[n]) = b[n] \cap Noted(D, pre, post)
    BY <1>4, <1>5, WalkMembers
  <2> QED
    BY <2>1, <2>2, <1>5
<1>7. \A n \in D : UpFirst(f[n], up, {up[n]})
  <2> DEFINE P == {n \in D : UpFirst(f[n], up, {up[n]})}
  <2>1. ASSUME NEW n \in D, \A k \in D : h[k] < h[n] => k \in P PROVE UpFirst(f[n], up, {up[n]})
    <3> DEFINE ss == L(n)
               B == {up[n]} \cup {n}
    <3>1. ss = [i \in DOMAIN kids[n] |-> f[kids[n][i]]]
      OBVIOUS
    <3> HIDE DEF ss
    <3>2. /\ ss \in Seq(Seq(D)) /\ FlattenSeq(ss) \in Seq(D)
          /\ \A i \in DOMAIN ss : /\ ss[i] = f[kids[n][i]] /\ kids[n][i] \in D
                                  /\ up[kids[n][i]] = n /\ h[kids[n][i]] < h[n]
      BY <3>1, <1>2, ChildrenLists
    <3>3. ASSUME NEW i \in DOMAIN ss PROVE UpFirst(ss[i], up, B)
      <4>1. UpFirst(ss[i], up, {n})
        BY <3>2, <2>1
      <4> QED
        BY <4>1 DEF UpFirst
    <3> HIDE DEF B, P
    <3>4. UpFirst(FlattenSeq(ss), up, B)
      BY <3>2, <3>3, FlattenUpFirst
    <3>5. <<n>> \in Seq(D) /\ ToSet(<<n>>) = {n} /\ UpFirst(<<n>>, up, {up[n]})
      <4>1. <<n>> \in Seq(D) /\ ToSet(<<n>>) = {n}
        BY Singleton
      <4>2. UpFirst(<<n>>, up, {up[n]})
        BY DEF UpFirst
      <4> QED
        BY <4>1, <4>2
    <3> DEFINE one == <<n>>
    <3>6. one \in Seq(D) /\ UpFirst(one, up, {up[n]}) /\ UpFirst(FlattenSeq(ss), up, {up[n]} \cup ToSet(one))
      BY <3>4, <3>5 DEF B
    <3> HIDE DEF one
    <3>7. UpFirst(one \o FlattenSeq(ss), up, {up[n]})
      BY <3>2, <3>6, ConcatUpFirst
    <3> QED
      BY <3>7, <1>0 DEF one, ss
  <2>2. \A n \in D : (\A k \in D : h[k] < h[n] => k \in P) => n \in P
    BY <2>1
  <2> HIDE DEF P
  <2>3. D \subseteq P
    BY <2>2, <1>1, FromBelow
  <2> QED
    BY <2>3 DEF P
<1> QED
  BY <1>6, <1>7

\* A walk of a forest from its tops meets each node once.
Tops(tops, D, up) == tops \in Seq(D) /\ IsInjective(tops) /\ ToSet(tops) = {n \in D : up[n] \notin D}

LEMMA TopsCover ==
  ASSUME NEW D, NEW kids, NEW up, NEW h, Forest(D, kids, up, h), NEW b, IsBelow(b, D, kids),
         \A n \in D : up[n] \in D => n \in ToSet(kids[up[n]])
  PROVE  \A n \in D : \E t \in D : up[t] \notin D /\ n \in b[t]
<1> DEFINE T == {t \in D : up[t] \notin D}
           S == {n \in D : \A t \in T : n \notin b[t]}
<1>1. ASSUME NEW n \in S PROVE up[n] \in S
  <2>1. n \in b[n]
    BY BelowFacts
  <2>2. up[n] \in D
    BY <2>1
  <2>3. ASSUME NEW t \in T, up[n] \in b[t] PROVE FALSE
    <3>1. t \in D
      OBVIOUS
    <3>2. ToSet(kids[up[n]]) \subseteq b[t]
      <4> HIDE DEF S, T
      <4> QED
        BY <3>1, <2>3, BelowFacts
    <3> QED
      BY <3>2, <2>2
  <2> QED
    BY <2>2, <2>3
<1>2. S = {}
  <2>1. S \in SUBSET D /\ WellFounded(D, up)
    BY DEF Forest
  <2> HIDE DEF S, T
  <2> QED
    BY <2>1, <1>1 DEF WellFounded
<1> QED
  BY <1>2

\* The lists of the tops have nothing in common.
Spread(ss, f, tops, D) ==
  /\ ss \in Seq(Seq(D)) /\ AllApart(ss) /\ DOMAIN ss = DOMAIN tops
  /\ \A i \in DOMAIN ss : ss[i] = f[tops[i]] /\ tops[i] \in ToSet(tops) /\ tops[i] \in D

Within(f, b, D) == \A n \in D : f[n] \in Seq(D) /\ IsInjective(f[n]) /\ ToSet(f[n]) \subseteq b[n]

LEMMA TopsApart ==
  ASSUME NEW D, NEW kids, NEW up, NEW h, Forest(D, kids, up, h), NEW b, IsBelow(b, D, kids),
         NEW tops, tops \in Seq(D), IsInjective(tops), \A t \in ToSet(tops) : up[t] \notin D,
         NEW f, Within(f, b, D),
         NEW ss, ss = [i \in DOMAIN tops |-> f[tops[i]]]
  PROVE  Spread(ss, f, tops, D)
<1>0. \A n \in D : f[n] \in Seq(D) /\ IsInjective(f[n]) /\ ToSet(f[n]) \subseteq b[n]
  BY DEF Within
<1>1. ToSet(tops) \subseteq D
  BY Members
<1>2. ListsOf(ss, f, tops, D)
  BY <1>0, <1>1 DEF ListsOf
<1>3. /\ ss \in Seq(Seq(D)) /\ DOMAIN ss = DOMAIN tops
      /\ \A i \in DOMAIN ss : ss[i] = f[tops[i]] /\ tops[i] \in ToSet(tops)
  BY <1>2, KidLists
<1>4. \A i \in DOMAIN ss : tops[i] \in D
  BY <1>1, <1>3
<1>5. \A i, j \in DOMAIN ss : i # j => tops[i] # tops[j]
  BY <1>3 DEF IsInjective
<1>6. \A n \in D : b[n] \subseteq D
  BY BelowFacts
<1>7. ASSUME NEW i \in DOMAIN ss, NEW j \in DOMAIN ss, i # j PROVE ToSet(ss[i]) \cap ToSet(ss[j]) = {}
  <2>1. /\ tops[i] \in D /\ tops[j] \in D /\ tops[i] # tops[j]
        /\ up[tops[i]] \notin b[tops[j]] /\ up[tops[j]] \notin b[tops[i]]
    BY <1>3, <1>4, <1>5, <1>6, <1>7
  <2>2. b[tops[i]] \cap b[tops[j]] = {}
    BY <2>1, BelowApart
  <2> QED
    BY <2>1, <2>2, <1>0, <1>3
<1>8. \A i \in DOMAIN ss : IsInjective(ss[i])
  BY <1>0, <1>3, <1>4
<1> QED
  BY <1>3, <1>4, <1>7, <1>8 DEF AllApart, Spread

\* The walk of a whole forest.
Whole(t, D, up, B) == t \in Seq(D) /\ IsInjective(t) /\ ToSet(t) = D /\ UpFirst(t, up, B)

LEMMA WholeWalk ==
  ASSUME NEW D, NEW kids, NEW up, NEW h, Forest(D, kids, up, h),
         \A n \in D : up[n] \in D => n \in ToSet(kids[up[n]]),
         NEW f, IsPreWalk(f, D, kids), NEW tops, Tops(tops, D, up), NEW B,
         \A t \in ToSet(tops) : up[t] \in B,
         NEW ss, ss = [i \in DOMAIN tops |-> f[tops[i]]]
  PROVE  Whole(FlattenSeq(ss), D, up, B)
<1>1. PICK b : IsBelow(b, D, kids)
  BY BelowExists
<1>2. \A n \in D : /\ f[n] \in Seq(D) /\ IsInjective(f[n]) /\ ToSet(f[n]) = b[n]
                   /\ UpFirst(f[n], up, {up[n]})
  BY <1>1, PreWalkMembers
<1>3. tops \in Seq(D) /\ IsInjective(tops) /\ \A t \in ToSet(tops) : up[t] \notin D
  BY DEF Tops
<1>4. /\ ss \in Seq(Seq(D)) /\ AllApart(ss) /\ DOMAIN ss = DOMAIN tops
      /\ \A i \in DOMAIN ss : ss[i] = f[tops[i]] /\ tops[i] \in ToSet(tops) /\ tops[i] \in D
  <2>1. Within(f, b, D)
    BY <1>2 DEF Within
  <2>2. Spread(ss, f, tops, D)
    BY <1>1, <1>3, <2>1, TopsApart
  <2> QED
    BY <2>2 DEF Spread
<1>5. /\ FlattenSeq(ss) \in Seq(D) /\ IsInjective(FlattenSeq(ss))
      /\ ToSet(FlattenSeq(ss)) = UNION {ToSet(ss[i]) : i \in DOMAIN ss}
  BY ONLY <1>4, FlattenMembers
<1>6. ASSUME NEW i \in DOMAIN ss PROVE UpFirst(ss[i], up, B)
  <2>1. UpFirst(ss[i], up, {up[tops[i]]}) /\ up[tops[i]] \in B
    BY <1>2, <1>4
  <2> QED
    BY <2>1 DEF UpFirst
<1>7. UpFirst(FlattenSeq(ss), up, B)
  BY <1>4, <1>6, FlattenUpFirst
<1>8. ASSUME NEW n \in D PROVE \E i \in DOMAIN ss : n \in ToSet(ss[i])
  <2>1. PICK t \in D : up[t] \notin D /\ n \in b[t]
    BY <1>1, TopsCover
  <2>2. t \in ToSet(tops)
    BY <2>1 DEF Tops
  <2>3. PICK i \in DOMAIN tops : tops[i] = t
    BY <2>2 DEF ToSet
  <2>4. i \in DOMAIN ss /\ ss[i] = f[t] /\ ToSet(f[t]) = b[t]
    BY <2>1, <2>3, <1>2, <1>4
  <2> QED
    BY <2>1, <2>4
<1>9. ToSet(FlattenSeq(ss)) \subseteq D
  BY <1>5, Members
<1>10. D \subseteq ToSet(FlattenSeq(ss))
  BY <1>5, <1>8
<1> QED
  BY <1>5, <1>7, <1>9, <1>10 DEF Whole

(***************************************************************************)
(* The manager of the compound graph.                                      *)
(***************************************************************************)
Maybe(S) == S \cup {Null}

NodeLists == Seq(Node)
EdgeLists == Seq(Edge)

Managers ==
  [graphs : NodeLists, root : Maybe(Node), inter : EdgeLists,
   nodes : [Node -> NodeLists], edges : [Node -> EdgeLists],
   parent : [Node -> Maybe(Node)], owner : [Node -> Maybe(Node)], child : [Node -> Maybe(Node)],
   inc : [Node -> EdgeLists],
   source : [Edge -> Maybe(Node)], target : [Edge -> Maybe(Node)], isInter : [Edge -> BOOLEAN],
   allNodes : Maybe(NodeLists), allEdges : Maybe(EdgeLists), gravity : Maybe(NodeLists),
   thrown : BOOLEAN]

\* The nodes and the edges that are in some list, and the graphs.
Live(m)   == UNION {ToSet(m.nodes[G]) : G \in Node}
Known(m)  == ToSet(m.inter) \cup UNION {ToSet(m.edges[G]) : G \in Node}
Graphs(m) == ToSet(m.graphs)

\* A graph belongs to the node it is named for, and what is in it knows so.
GraphOK(m, G) ==
  /\ m.parent[G] = IF G \in Graphs(m) THEN G ELSE Null
  /\ m.child[G] = IF G \in Graphs(m) THEN G ELSE Null
  /\ IsInjective(m.nodes[G])
  /\ \A n \in ToSet(m.nodes[G]) : m.owner[n] = G /\ G \in Graphs(m) /\ n # RootNode

TreeOK(m) ==
  /\ m.root = RootNode /\ RootNode \in Graphs(m) /\ IsInjective(m.graphs)
  /\ \A G \in Node : GraphOK(m, G)

OwnOK(m, G) ==
  /\ IsInjective(m.edges[G])
  /\ \A e \in ToSet(m.edges[G]) :
        /\ ~m.isInter[e] /\ m.source[e] # m.target[e]
        /\ m.source[e] \in ToSet(m.nodes[G]) /\ m.target[e] \in ToSet(m.nodes[G])

InterOK(m) ==
  /\ IsInjective(m.inter)
  /\ \A e \in ToSet(m.inter) :
        /\ m.isInter[e] /\ m.owner[m.source[e]] # m.owner[m.target[e]]
        /\ m.source[e] \in Live(m) /\ m.target[e] \in Live(m)

IncOK(m, n) ==
  /\ IsInjective(m.inc[n])
  /\ \A e \in Edge : e \in ToSet(m.inc[n]) <=> e \in Known(m) /\ n \in Ends(m, e)

EdgesOK(m) == InterOK(m) /\ \A n \in Node : OwnOK(m, n) /\ IncOK(m, n)

Good(m) == m \in Managers /\ ~m.thrown /\ TreeOK(m) /\ EdgesOK(m)

\* Nodes and graphs are one tree.
Up(m) == [n \in Node |-> ParentOf(m, n)]
Ranked(m) == WellFounded(Node, Up(m))
Rooted(m) == Graphs(m) \subseteq Live(m) \cup {RootNode}
Filled(m) == m.nodes[RootNode] # <<>>

(***************************************************************************)
(* The leaves that have been taken out, layer by layer.                    *)
(***************************************************************************)
Entries == [node : Node, edge : Edge, graph : Node]

Other(m, x) == OtherEnd(m, x.edge, x.node)

\* An entry can go back when the other end of its edge is in the graph.
EntryOK(m, x) ==
  /\ x.node \notin Live(m) /\ x.node # RootNode /\ m.owner[x.node] = x.graph /\ x.graph \in Graphs(m)
  /\ x.node \notin Graphs(m)
  /\ x.edge \notin Known(m) /\ ~m.isInter[x.edge]
  /\ x.node \in Ends(m, x.edge) /\ m.source[x.edge] # m.target[x.edge]
  /\ Other(m, x) \in Node /\ m.owner[Other(m, x)] = x.graph

\* The nodes of the layers after the i-th.
Later(layers, i) == UNION {{x.node : x \in ToSet(layers[j])} : j \in {k \in DOMAIN layers : k > i}}

Out(layers) == UNION {ToSet(layers[i]) : i \in DOMAIN layers}

ApartOK(X) == \A x, y \in X : x.node = y.node \/ x.edge = y.edge => x = y

LayersOK(m, layers) ==
  /\ layers \in Seq(Seq(Entries))
  /\ \A x \in Out(layers) : EntryOK(m, x)
  /\ ApartOK(Out(layers))
  /\ AllApart(layers)
  /\ \A i \in DOMAIN layers : \A x \in ToSet(layers[i]) : Other(m, x) \in Live(m) \cup Later(layers, i)

(***************************************************************************)
(* What a method leaves alone.                                             *)
(***************************************************************************)
SameGraphs(m, r) ==
  r.graphs = m.graphs /\ r.root = m.root /\ r.parent = m.parent /\ r.child = m.child

SameTree(m, r) == SameGraphs(m, r) /\ r.nodes = m.nodes /\ r.owner = m.owner

SameEnds(m, r) == r.source = m.source /\ r.target = m.target /\ r.isInter = m.isInter

SameEdges(m, r) == SameEnds(m, r) /\ r.inter = m.inter /\ r.edges = m.edges /\ r.inc = m.inc

SameCaches(m, r) ==
  r.allNodes = m.allNodes /\ r.allEdges = m.allEdges /\ r.gravity = m.gravity

(***************************************************************************)
(* A manager is what has the fields of one, each of its type.              *)
(***************************************************************************)
Fields ==
  {"graphs", "root", "inter", "nodes", "edges", "parent", "owner", "child", "inc", "source",
   "target", "isInter", "allNodes", "allEdges", "gravity", "thrown"}

IsRecord(r) == r = [f \in Fields |-> r[f]]

FieldsOK(m) ==
  /\ m.graphs \in NodeLists /\ m.root \in Maybe(Node) /\ m.inter \in EdgeLists
  /\ m.nodes \in [Node -> NodeLists] /\ m.edges \in [Node -> EdgeLists]
  /\ m.parent \in [Node -> Maybe(Node)] /\ m.owner \in [Node -> Maybe(Node)]
  /\ m.child \in [Node -> Maybe(Node)] /\ m.inc \in [Node -> EdgeLists]
  /\ m.source \in [Edge -> Maybe(Node)] /\ m.target \in [Edge -> Maybe(Node)]
  /\ m.isInter \in [Edge -> BOOLEAN]
  /\ m.allNodes \in Maybe(NodeLists) /\ m.allEdges \in Maybe(EdgeLists)
  /\ m.gravity \in Maybe(NodeLists) /\ m.thrown \in BOOLEAN

LEMMA ManagerFields ==
  ASSUME NEW m, m \in Managers
  PROVE  FieldsOK(m) /\ IsRecord(m) /\ DOMAIN m = Fields
<1>1. FieldsOK(m)
  BY DEF Managers, FieldsOK
<1>2. IsRecord(m) /\ DOMAIN m = Fields
  BY DEF Managers, Fields, IsRecord
<1> QED
  BY <1>1, <1>2

LEMMA IsManager ==
  ASSUME NEW r, IsRecord(r), FieldsOK(r)
  PROVE  r \in Managers
<1>1. r = [graphs |-> r.graphs, root |-> r.root, inter |-> r.inter, nodes |-> r.nodes,
           edges |-> r.edges, parent |-> r.parent, owner |-> r.owner, child |-> r.child,
           inc |-> r.inc, source |-> r.source, target |-> r.target, isInter |-> r.isInter,
           allNodes |-> r.allNodes, allEdges |-> r.allEdges, gravity |-> r.gravity,
           thrown |-> r.thrown]
  BY DEF Fields, IsRecord
<1> QED
  BY <1>1 DEF Managers, FieldsOK

\* The fields of a manager have their types.
LEMMA FieldTypes ==
  ASSUME NEW m, m \in Managers
  PROVE  /\ m.graphs \in Seq(Node) /\ m.root \in Maybe(Node) /\ m.inter \in Seq(Edge)
         /\ m.nodes \in [Node -> Seq(Node)] /\ m.edges \in [Node -> Seq(Edge)]
         /\ m.parent \in [Node -> Maybe(Node)] /\ m.owner \in [Node -> Maybe(Node)]
         /\ m.child \in [Node -> Maybe(Node)] /\ m.inc \in [Node -> Seq(Edge)]
         /\ m.source \in [Edge -> Maybe(Node)] /\ m.target \in [Edge -> Maybe(Node)]
         /\ m.isInter \in [Edge -> BOOLEAN] /\ m.thrown \in BOOLEAN
BY ManagerFields DEF FieldsOK, NodeLists, EdgeLists

\* r is m with node n in graph G.
NodeAdded(m, r, G, n) ==
  /\ r \in Managers /\ ~r.thrown
  /\ r.nodes[G] = Append(m.nodes[G], n) /\ \A H \in Node : H # G => r.nodes[H] = m.nodes[H]
  /\ r.owner = [m.owner EXCEPT ![n] = G]
  /\ SameGraphs(m, r) /\ SameEdges(m, r) /\ SameCaches(m, r)

\* A node is appended to the list of a graph.
LEMMA AddNodeFields ==
  ASSUME NEW m, m \in Managers, ~m.thrown, NEW G, G \in Node, NEW n, n \in Node,
         ~Contains(m.nodes[G], n), NEW r, r = AddNode(m, G, n)
  PROVE  NodeAdded(m, r, G, n)
<1> DEFINE longer == Append(m.nodes[G], n)
<1>1. r = [m EXCEPT !.owner[n] = G, !.nodes[G] = longer]
  BY DEF AddNode, Guarded
<1>2. longer \in NodeLists
  BY FieldTypes, AppendMembers DEF NodeLists
<1>3. DOMAIN m = Fields
  BY ManagerFields
<1> HIDE DEF longer
<1>4. /\ r.thrown = m.thrown
      /\ r.nodes = [m.nodes EXCEPT ![G] = longer]
      /\ r.owner = [m.owner EXCEPT ![n] = G]
      /\ SameGraphs(m, r) /\ SameEdges(m, r) /\ SameCaches(m, r)
  BY <1>1, <1>3 DEF Fields, SameGraphs, SameEdges, SameEnds, SameCaches
<1>5. IsRecord(r)
  BY <1>1, <1>3 DEF IsRecord
<1>6. FieldsOK(r)
  BY <1>2, <1>4, ManagerFields DEF FieldsOK, Maybe, SameGraphs, SameEdges, SameEnds, SameCaches
<1>7. \A H \in Node : r.nodes[H] = IF H = G THEN longer ELSE m.nodes[H]
  BY <1>4, ManagerFields DEF FieldsOK
<1> QED
  BY <1>4, <1>5, <1>6, <1>7, IsManager DEF NodeAdded, longer

\* A graph for a node is created.
LEMMA AddGraphFields ==
  ASSUME NEW m, m \in Managers, ~m.thrown, NEW p, p \in Node, ~Contains(m.graphs, p),
         m.parent[p] = Null, m.child[p] = Null, NEW r, r = AddGraph(m, p)
  PROVE  /\ r \in Managers /\ ~r.thrown
         /\ r.graphs = Append(m.graphs, p) /\ r.root = m.root
         /\ r.parent = [m.parent EXCEPT ![p] = p] /\ r.child = [m.child EXCEPT ![p] = p]
         /\ r.nodes = m.nodes /\ r.owner = m.owner /\ SameEdges(m, r) /\ SameCaches(m, r)
<1> DEFINE longer == Append(m.graphs, p)
<1>1. r = [m EXCEPT !.graphs = longer, !.parent[p] = p, !.child[p] = p]
  BY DEF AddGraph, Guarded
<1>2. longer \in NodeLists
  BY FieldTypes, AppendMembers DEF NodeLists
<1>3. DOMAIN m = Fields
  BY ManagerFields
<1> HIDE DEF longer
<1>4. /\ r.thrown = m.thrown
      /\ r.graphs = longer /\ r.root = m.root
      /\ r.parent = [m.parent EXCEPT ![p] = p] /\ r.child = [m.child EXCEPT ![p] = p]
      /\ r.nodes = m.nodes /\ r.owner = m.owner /\ SameEdges(m, r) /\ SameCaches(m, r)
  BY <1>1, <1>3 DEF Fields, SameEdges, SameEnds, SameCaches
<1>5. IsRecord(r)
  BY <1>1, <1>3 DEF IsRecord
<1>6. FieldsOK(r)
  BY <1>2, <1>4, ManagerFields DEF FieldsOK, Maybe, SameEdges, SameEnds, SameCaches
<1> QED
  BY <1>4, <1>5, <1>6, IsManager DEF longer

\* The incident edges of all nodes, with and without an edge.
LEMMA IncidentLists ==
  ASSUME NEW m, m \in Managers, NEW e, e \in Edge, NEW E
  PROVE  Incident(m.inc, E, e) \in [Node -> EdgeLists] /\ Detached(m.inc, E, e) \in [Node -> EdgeLists]
<1>1. ASSUME NEW n \in Node
      PROVE  m.inc[n] \in EdgeLists /\ Append(m.inc[n], e) \in EdgeLists /\ RemoveFirst(m.inc[n], e) \in EdgeLists
  <2>1. m.inc[n] \in Seq(Edge)
    BY FieldTypes
  <2> QED
    BY <2>1, AppendMembers, RemoveFirstMembers DEF EdgeLists
<1>2. Incident(m.inc, E, e) \in [Node -> EdgeLists]
  BY <1>1 DEF Incident
<1>3. Detached(m.inc, E, e) \in [Node -> EdgeLists]
  BY <1>1 DEF Detached
<1> QED
  BY <1>2, <1>3

\* r is m with edge e from s to t in graph G.
OwnEdgeAdded(m, r, G, e, s, t) ==
  /\ r \in Managers /\ ~r.thrown
  /\ r.source = [m.source EXCEPT ![e] = s] /\ r.target = [m.target EXCEPT ![e] = t]
  /\ r.isInter = [m.isInter EXCEPT ![e] = FALSE]
  /\ r.inter = m.inter
  /\ r.edges[G] = Append(m.edges[G], e) /\ \A H \in Node : H # G => r.edges[H] = m.edges[H]
  /\ r.inc = Incident(m.inc, {s, t}, e)
  /\ SameTree(m, r) /\ SameCaches(m, r)

LEMMA AddOwnEdgeFields ==
  ASSUME NEW m, m \in Managers, ~m.thrown, NEW G, G \in Node, NEW e, e \in Edge,
         NEW s, s \in ToSet(m.nodes[G]), NEW t, t \in ToSet(m.nodes[G]), m.owner[s] = G, m.owner[t] = G,
         NEW r, r = AddOwnEdge(m, G, e, s, t)
  PROVE  OwnEdgeAdded(m, r, G, e, s, t)
<1> DEFINE longer == Append(m.edges[G], e)
           inc == Incident(m.inc, {s, t}, e)
<1>1. r = [m EXCEPT !.source[e] = s, !.target[e] = t, !.isInter[e] = FALSE,
                    !.edges[G] = longer, !.inc = inc]
  BY DEF AddOwnEdge, Guarded
<1>2. longer \in EdgeLists /\ inc \in [Node -> EdgeLists] /\ s \in Node /\ t \in Node
  <2>1. m.edges[G] \in Seq(Edge) /\ m.nodes[G] \in Seq(Node)
    BY FieldTypes
  <2> QED
    BY <2>1, AppendMembers, Members, IncidentLists DEF EdgeLists
<1>3. DOMAIN m = Fields
  BY ManagerFields
<1> HIDE DEF longer, inc
<1>4. /\ r.thrown = m.thrown
      /\ r.source = [m.source EXCEPT ![e] = s] /\ r.target = [m.target EXCEPT ![e] = t]
      /\ r.isInter = [m.isInter EXCEPT ![e] = FALSE]
      /\ r.edges = [m.edges EXCEPT ![G] = longer] /\ r.inter = m.inter /\ r.inc = inc
      /\ SameTree(m, r) /\ SameCaches(m, r)
  BY <1>1, <1>3 DEF Fields, SameTree, SameGraphs, SameCaches
<1>5. IsRecord(r)
  BY <1>1, <1>3 DEF IsRecord
<1>6. FieldsOK(r)
  BY <1>2, <1>4, ManagerFields DEF FieldsOK, Maybe, SameTree, SameGraphs, SameCaches
<1>7. \A H \in Node : r.edges[H] = IF H = G THEN longer ELSE m.edges[H]
  BY <1>4, ManagerFields DEF FieldsOK
<1> QED
  BY <1>4, <1>5, <1>6, <1>7, IsManager DEF OwnEdgeAdded, longer, inc

\* r is m with edge e from s to t between two graphs.
InterEdgeAdded(m, r, e, s, t) ==
  /\ r \in Managers /\ ~r.thrown
  /\ r.source = [m.source EXCEPT ![e] = s] /\ r.target = [m.target EXCEPT ![e] = t]
  /\ r.isInter = [m.isInter EXCEPT ![e] = TRUE]
  /\ r.inter = Append(m.inter, e) /\ r.edges = m.edges
  /\ r.inc = Incident(m.inc, {s, t}, e)
  /\ SameTree(m, r) /\ SameCaches(m, r)

LEMMA AddInterEdgeFields ==
  ASSUME NEW m, m \in Managers, ~m.thrown, NEW e, e \in Edge, NEW s, s \in Node, NEW t, t \in Node,
         ~Contains(m.inter, e), ~Contains(m.inc[s], e), ~Contains(m.inc[t], e),
         NEW r, r = AddInterEdge(m, e, s, t)
  PROVE  InterEdgeAdded(m, r, e, s, t)
<1> DEFINE longer == Append(m.inter, e)
           inc == Incident(m.inc, {s, t}, e)
<1>1. r = [m EXCEPT !.source[e] = s, !.target[e] = t, !.isInter[e] = TRUE,
                    !.inter = longer, !.inc = inc]
  BY DEF AddInterEdge, Guarded
<1>2. longer \in EdgeLists /\ inc \in [Node -> EdgeLists]
  BY FieldTypes, AppendMembers, IncidentLists DEF EdgeLists
<1>3. DOMAIN m = Fields
  BY ManagerFields
<1> HIDE DEF longer, inc
<1>4. /\ r.thrown = m.thrown
      /\ r.source = [m.source EXCEPT ![e] = s] /\ r.target = [m.target EXCEPT ![e] = t]
      /\ r.isInter = [m.isInter EXCEPT ![e] = TRUE]
      /\ r.inter = longer /\ r.edges = m.edges /\ r.inc = inc
      /\ SameTree(m, r) /\ SameCaches(m, r)
  BY <1>1, <1>3 DEF Fields, SameTree, SameGraphs, SameCaches
<1>5. IsRecord(r)
  BY <1>1, <1>3 DEF IsRecord
<1>6. FieldsOK(r)
  BY <1>2, <1>4, ManagerFields DEF FieldsOK, Maybe, SameTree, SameGraphs, SameCaches
<1> QED
  BY <1>4, <1>5, <1>6, IsManager DEF InterEdgeAdded, longer, inc

\* r is m without edge e of graph G.
OwnEdgeRemoved(m, r, G, e) ==
  /\ r \in Managers /\ ~r.thrown
  /\ r.inter = m.inter
  /\ r.edges[G] = RemoveFirst(m.edges[G], e) /\ \A H \in Node : H # G => r.edges[H] = m.edges[H]
  /\ r.inc = Detached(m.inc, Ends(m, e), e)
  /\ SameEnds(m, r) /\ SameTree(m, r) /\ SameCaches(m, r)

LEMMA RemoveOwnEdgeFields ==
  ASSUME NEW m, m \in Managers, ~m.thrown, NEW G, G \in Node, NEW e, e \in Edge,
         KnownAtBothEnds(m, e), m.owner[m.source[e]] = G, m.owner[m.target[e]] = G,
         Contains(m.edges[G], e), NEW r, r = RemoveOwnEdge(m, G, e)
  PROVE  OwnEdgeRemoved(m, r, G, e)
<1> DEFINE shorter == RemoveFirst(m.edges[G], e)
           inc == Detached(m.inc, Ends(m, e), e)
<1>1. r = [m EXCEPT !.inc = inc, !.edges[G] = shorter]
  <2>1. \A n \in Ends(m, e) : m.owner[n] = G
    BY DEF Ends
  <2> HIDE DEF inc, shorter
  <2> QED
    BY <2>1 DEF RemoveOwnEdge, Guarded, inc, shorter
<1>2. shorter \in EdgeLists /\ inc \in [Node -> EdgeLists]
  <2>1. m.edges[G] \in Seq(Edge)
    BY FieldTypes
  <2> QED
    BY <2>1, RemoveFirstMembers, IncidentLists DEF EdgeLists
<1>3. DOMAIN m = Fields
  BY ManagerFields
<1> HIDE DEF shorter, inc
<1>4. /\ r.thrown = m.thrown
      /\ r.edges = [m.edges EXCEPT ![G] = shorter] /\ r.inter = m.inter /\ r.inc = inc
      /\ SameEnds(m, r) /\ SameTree(m, r) /\ SameCaches(m, r)
  BY <1>1, <1>3 DEF Fields, SameTree, SameGraphs, SameCaches, SameEnds
<1>5. IsRecord(r)
  BY <1>1, <1>3 DEF IsRecord
<1>6. FieldsOK(r)
  BY <1>2, <1>4, ManagerFields DEF FieldsOK, Maybe, SameTree, SameGraphs, SameCaches, SameEnds
<1>7. \A H \in Node : r.edges[H] = IF H = G THEN shorter ELSE m.edges[H]
  BY <1>4, ManagerFields DEF FieldsOK
<1> QED
  BY <1>4, <1>5, <1>6, <1>7, IsManager DEF OwnEdgeRemoved, shorter, inc

LEMMA RemoveInterEdgeFields ==
  ASSUME NEW m, m \in Managers, ~m.thrown, NEW e, e \in Edge,
         m.isInter[e], KnownAtBothEnds(m, e), Contains(m.inter, e), NEW r, r = RemoveInterEdge(m, e)
  PROVE  /\ r \in Managers /\ ~r.thrown
         /\ r.inter = RemoveFirst(m.inter, e) /\ r.edges = m.edges
         /\ r.inc = Detached(m.inc, Ends(m, e), e)
         /\ SameEnds(m, r) /\ SameTree(m, r) /\ SameCaches(m, r)
<1> DEFINE shorter == RemoveFirst(m.inter, e)
           inc == Detached(m.inc, Ends(m, e), e)
<1>1. r = [m EXCEPT !.inc = inc, !.inter = shorter]
  BY DEF RemoveInterEdge, Guarded
<1>2. shorter \in EdgeLists /\ inc \in [Node -> EdgeLists]
  BY FieldTypes, RemoveFirstMembers, IncidentLists DEF EdgeLists
<1>3. DOMAIN m = Fields
  BY ManagerFields
<1> HIDE DEF shorter, inc
<1>4. /\ r.thrown = m.thrown /\ r.inter = shorter /\ r.edges = m.edges /\ r.inc = inc
      /\ SameEnds(m, r) /\ SameTree(m, r) /\ SameCaches(m, r)
  BY <1>1, <1>3 DEF Fields, SameTree, SameGraphs, SameCaches, SameEnds
<1>5. IsRecord(r)
  BY <1>1, <1>3 DEF IsRecord
<1>6. FieldsOK(r)
  BY <1>2, <1>4, ManagerFields DEF FieldsOK, Maybe, SameTree, SameGraphs, SameCaches, SameEnds
<1> QED
  BY <1>4, <1>5, <1>6, IsManager DEF shorter, inc

\* r is m with n taken out of the list of graph G.
TakenOut(m, r, G, n) ==
  /\ r \in Managers /\ r.thrown = m.thrown
  /\ r.owner = m.owner
  /\ r.nodes[G] = RemoveFirst(m.nodes[G], n) /\ \A H \in Node : H # G => r.nodes[H] = m.nodes[H]
  /\ SameGraphs(m, r) /\ SameEdges(m, r) /\ SameCaches(m, r)

\* The last part of RemoveNode, of RemoveGraph and of ClearCompound.
LEMMA TakeOutFields ==
  ASSUME NEW m, m \in Managers, NEW G, G \in Node, NEW n,
         NEW r, r = [m EXCEPT !.nodes[G] = RemoveFirst(@, n)]
  PROVE  TakenOut(m, r, G, n)
<1> DEFINE shorter == RemoveFirst(m.nodes[G], n)
<1>1. r = [m EXCEPT !.nodes[G] = shorter]
  OBVIOUS
<1>2. shorter \in NodeLists
  <2>1. m.nodes[G] \in Seq(Node)
    BY FieldTypes
  <2> QED
    BY <2>1, RemoveFirstMembers DEF NodeLists
<1>3. DOMAIN m = Fields
  BY ManagerFields
<1> HIDE DEF shorter
<1>4. /\ r.thrown = m.thrown /\ r.owner = m.owner
      /\ r.nodes = [m.nodes EXCEPT ![G] = shorter]
      /\ SameGraphs(m, r) /\ SameEdges(m, r) /\ SameCaches(m, r)
  BY <1>1, <1>3 DEF Fields, SameGraphs, SameEdges, SameEnds, SameCaches
<1>5. IsRecord(r)
  BY <1>1, <1>3 DEF IsRecord
<1>6. FieldsOK(r)
  BY <1>2, <1>4, ManagerFields DEF FieldsOK, Maybe, SameGraphs, SameEdges, SameEnds, SameCaches
<1>7. \A H \in Node : r.nodes[H] = IF H = G THEN shorter ELSE m.nodes[H]
  BY <1>4, ManagerFields DEF FieldsOK
<1> QED
  BY <1>4, <1>5, <1>6, <1>7, IsManager DEF TakenOut, shorter

\* r is m without graph G.
GraphDropped(m, r, G) ==
  /\ r \in Managers /\ r.thrown = m.thrown
  /\ r.graphs = RemoveFirst(m.graphs, G) /\ r.root = m.root
  /\ r.parent = [m.parent EXCEPT ![G] = Null] /\ r.child = [m.child EXCEPT ![G] = Null]
  /\ r.nodes = m.nodes /\ r.owner = m.owner /\ SameEdges(m, r) /\ SameCaches(m, r)

Dropped(m, G) == [[m EXCEPT !.graphs = RemoveFirst(@, G), !.parent[G] = Null] EXCEPT !.child[G] = Null]

LEMMA DropGraphFields ==
  ASSUME NEW m, m \in Managers, NEW G, G \in Node, NEW r, r = Dropped(m, G)
  PROVE  GraphDropped(m, r, G)
<1> DEFINE shorter == RemoveFirst(m.graphs, G)
<1>1. r = [[m EXCEPT !.graphs = shorter, !.parent[G] = Null] EXCEPT !.child[G] = Null]
  BY DEF Dropped
<1>2. shorter \in NodeLists
  BY FieldTypes, RemoveFirstMembers DEF NodeLists
<1>3. DOMAIN m = Fields
  BY ManagerFields
<1> HIDE DEF shorter
<1>4. /\ r.thrown = m.thrown /\ r.graphs = shorter /\ r.root = m.root
      /\ r.parent = [m.parent EXCEPT ![G] = Null] /\ r.child = [m.child EXCEPT ![G] = Null]
      /\ r.nodes = m.nodes /\ r.owner = m.owner /\ SameEdges(m, r) /\ SameCaches(m, r)
  BY <1>1, <1>3 DEF Fields, SameEdges, SameEnds, SameCaches
<1>5. IsRecord(r)
  BY <1>1, <1>3 DEF IsRecord
<1>6. FieldsOK(r)
  BY <1>2, <1>4, ManagerFields DEF FieldsOK, Maybe, SameEdges, SameEnds, SameCaches
<1> QED
  BY <1>4, <1>5, <1>6, IsManager DEF GraphDropped, shorter

\* A step that renews caches changes nothing else.
LEMMA CacheFields ==
  ASSUME NEW m, m \in Managers, NEW x, x \in Maybe(NodeLists), NEW y, y \in Maybe(EdgeLists),
         NEW z, z \in Maybe(NodeLists),
         NEW r, r = [m EXCEPT !.allNodes = x, !.allEdges = y, !.gravity = z]
  PROVE  /\ r \in Managers /\ r.thrown = m.thrown /\ SameTree(m, r) /\ SameEdges(m, r)
         /\ r.allNodes = x /\ r.allEdges = y /\ r.gravity = z
<1>3. DOMAIN m = Fields
  BY ManagerFields
<1>4. /\ r.thrown = m.thrown /\ SameTree(m, r) /\ SameEdges(m, r)
      /\ r.allNodes = x /\ r.allEdges = y /\ r.gravity = z
  BY <1>3 DEF Fields, SameTree, SameGraphs, SameEdges, SameEnds
<1>5. IsRecord(r)
  BY <1>3 DEF IsRecord
<1>6. FieldsOK(r)
  BY <1>4, ManagerFields DEF FieldsOK, Maybe, SameTree, SameGraphs, SameEdges, SameEnds
<1> QED
  BY <1>4, <1>5, <1>6, IsManager

(***************************************************************************)
(* What Good says of single nodes and edges.                               *)
(***************************************************************************)
LEMMA GoodLists ==
  ASSUME NEW m, m \in Managers
  PROVE  /\ m.graphs \in Seq(Node) /\ Graphs(m) \subseteq Node
         /\ m.inter \in Seq(Edge) /\ ToSet(m.inter) \subseteq Edge
         /\ \A n \in Node : /\ m.nodes[n] \in Seq(Node) /\ ToSet(m.nodes[n]) \subseteq Node
                            /\ m.edges[n] \in Seq(Edge) /\ ToSet(m.edges[n]) \subseteq Edge
                            /\ m.inc[n] \in Seq(Edge) /\ ToSet(m.inc[n]) \subseteq Edge
         /\ Live(m) \subseteq Node /\ Known(m) \subseteq Edge
<1>1. m.graphs \in Seq(Node) /\ Graphs(m) \subseteq Node
  BY FieldTypes, Members DEF Graphs
<1>2. m.inter \in Seq(Edge) /\ ToSet(m.inter) \subseteq Edge
  BY FieldTypes, Members
<1>3. ASSUME NEW n \in Node
      PROVE  /\ m.nodes[n] \in Seq(Node) /\ m.edges[n] \in Seq(Edge) /\ m.inc[n] \in Seq(Edge)
             /\ ToSet(m.nodes[n]) \subseteq Node /\ ToSet(m.edges[n]) \subseteq Edge
             /\ ToSet(m.inc[n]) \subseteq Edge
  <2>1. m.nodes[n] \in Seq(Node) /\ m.edges[n] \in Seq(Edge) /\ m.inc[n] \in Seq(Edge)
    BY FieldTypes
  <2> QED
    BY <2>1, Members
<1>4. Live(m) \subseteq Node
  BY <1>3 DEF Live
<1>5. Known(m) \subseteq Edge
  BY <1>2, <1>3 DEF Known
<1> QED
  BY <1>1, <1>2, <1>3, <1>4, <1>5

LEMMA LiveFacts ==
  ASSUME NEW m, Good(m)
  PROVE  /\ \A n \in Live(m) : /\ n \in Node /\ n # RootNode
                               /\ m.owner[n] \in Node /\ m.owner[n] \in Graphs(m)
                               /\ n \in ToSet(m.nodes[m.owner[n]])
                               /\ ParentOf(m, n) = m.owner[n]
         /\ \A G \in Node : ToSet(m.nodes[G]) \subseteq {n \in Live(m) : m.owner[n] = G}
         /\ \A G \in Node : m.parent[G] = (IF G \in Graphs(m) THEN G ELSE Null)
         /\ \A G \in Node : m.child[G] = (IF G \in Graphs(m) THEN G ELSE Null)
         /\ m.root = RootNode /\ RootNode \in Graphs(m) /\ RootNode \in Node
<1>1. m \in Managers /\ \A G \in Node : GraphOK(m, G)
  BY DEF Good, TreeOK
<1>2. ASSUME NEW n \in Live(m)
      PROVE  /\ n \in Node /\ n # RootNode
             /\ m.owner[n] \in Node /\ m.owner[n] \in Graphs(m)
             /\ n \in ToSet(m.nodes[m.owner[n]])
             /\ ParentOf(m, n) = m.owner[n]
  <2>1. PICK G \in Node : n \in ToSet(m.nodes[G])
    BY DEF Live
  <2>2. n # RootNode /\ m.owner[n] = G /\ G \in Graphs(m) /\ m.parent[G] = G
    BY <2>1, <1>1 DEF GraphOK
  <2>3. ParentOf(m, n) = G
    BY <2>2, NodeAssumption DEF ParentOf
  <2> QED
    BY <2>1, <2>2, <2>3, <1>1, GoodLists
<1>3. ASSUME NEW G \in Node PROVE ToSet(m.nodes[G]) \subseteq {n \in Live(m) : m.owner[n] = G}
  BY <1>1 DEF GraphOK, Live
<1>4. m.root = RootNode /\ RootNode \in Graphs(m) /\ RootNode \in Node
  BY NodeAssumption DEF Good, TreeOK
<1>5. \A G \in Node : /\ m.parent[G] = IF G \in Graphs(m) THEN G ELSE Null
                      /\ m.child[G] = IF G \in Graphs(m) THEN G ELSE Null
  BY <1>1 DEF GraphOK
<1> QED
  BY <1>2, <1>3, <1>4, <1>5

LEMMA EdgeFacts ==
  ASSUME NEW m, Good(m), NEW e, e \in Known(m)
  PROVE  /\ e \in Edge /\ m.source[e] \in Live(m) /\ m.target[e] \in Live(m)
         /\ m.source[e] # m.target[e] /\ Ends(m, e) \subseteq Node
         /\ \A n \in Ends(m, e) : e \in ToSet(m.inc[n])
         /\ m.isInter[e] <=> e \in ToSet(m.inter)
         /\ m.isInter[e] <=> m.owner[m.source[e]] # m.owner[m.target[e]]
         /\ ~m.isInter[e] => e \in ToSet(m.edges[m.owner[m.source[e]]])
<1>1. m \in Managers /\ EdgesOK(m) /\ \A G \in Node : OwnOK(m, G) /\ IncOK(m, G)
  BY DEF Good, EdgesOK
<1>2. e \in Edge
  BY <1>1, GoodLists
<1>3. CASE e \in ToSet(m.inter)
  <2>1. m.isInter[e] /\ m.owner[m.source[e]] # m.owner[m.target[e]]
        /\ m.source[e] \in Live(m) /\ m.target[e] \in Live(m)
    BY <1>1, <1>3 DEF EdgesOK, InterOK
  <2>2. Ends(m, e) \subseteq Node
    BY <2>1, <1>1, GoodLists DEF Ends
  <2>3. \A n \in Ends(m, e) : e \in ToSet(m.inc[n])
    BY <2>2, <1>1, <1>2 DEF IncOK
  <2> QED
    BY <1>2, <1>3, <2>1, <2>2, <2>3
<1>4. CASE e \notin ToSet(m.inter)
  <2>1. PICK G \in Node : e \in ToSet(m.edges[G])
    BY <1>4 DEF Known
  <2>2. /\ ~m.isInter[e] /\ m.source[e] # m.target[e]
        /\ m.source[e] \in ToSet(m.nodes[G]) /\ m.target[e] \in ToSet(m.nodes[G])
    BY <2>1, <1>1 DEF OwnOK
  <2>3. /\ m.source[e] \in Live(m) /\ m.target[e] \in Live(m)
        /\ m.owner[m.source[e]] = G /\ m.owner[m.target[e]] = G
    BY <2>2, LiveFacts
  <2>4. Ends(m, e) \subseteq Node
    BY <2>3, <1>1, GoodLists DEF Ends
  <2>5. \A n \in Ends(m, e) : e \in ToSet(m.inc[n])
    BY <2>4, <1>1, <1>2 DEF IncOK
  <2> QED
    BY <1>2, <1>4, <2>1, <2>2, <2>3, <2>4, <2>5
<1> QED
  BY <1>3, <1>4

\* A node is the end of exactly the edges of its list.
LEMMA IncFacts ==
  ASSUME NEW m, Good(m)
  PROVE  /\ \A n \in Node : \A e \in ToSet(m.inc[n]) : e \in Known(m) /\ n \in Ends(m, e)
         /\ \A n \in Node : IsInjective(m.inc[n])
         /\ \A n \in Node : n \notin Live(m) => m.inc[n] = <<>> /\ ToSet(m.inc[n]) = {}
<1>1. m \in Managers /\ \A n \in Node : IncOK(m, n)
  BY DEF Good, EdgesOK
<1>2. ASSUME NEW n \in Node, NEW e \in ToSet(m.inc[n]) PROVE e \in Known(m) /\ n \in Ends(m, e)
  BY <1>1, GoodLists DEF IncOK
<1>3. ASSUME NEW n \in Node, n \notin Live(m) PROVE m.inc[n] = <<>> /\ ToSet(m.inc[n]) = {}
  <2>1. \A e \in ToSet(m.inc[n]) : FALSE
    BY <1>2, <1>3, EdgeFacts DEF Ends
  <2>2. m.inc[n] \in Seq(Edge)
    BY <1>1, GoodLists
  <2> QED
    BY <2>1, <2>2, Members
<1> QED
  BY <1>1, <1>2, <1>3 DEF IncOK

(***************************************************************************)
(* The methods keep the form.                                              *)
(***************************************************************************)
\* r is m with node n in graph G.
Entered(m, r, G, n) ==
  /\ Good(r) /\ Live(r) = Live(m) \cup {n} /\ Known(r) = Known(m)
  /\ r.owner = [m.owner EXCEPT ![n] = G]
  /\ \A H \in Node : ToSet(r.nodes[H]) = IF H = G THEN ToSet(m.nodes[G]) \cup {n} ELSE ToSet(m.nodes[H])
  /\ Graphs(r) = Graphs(m) /\ SameGraphs(m, r) /\ SameEdges(m, r) /\ SameCaches(m, r)

LEMMA AddNodeGood ==
  ASSUME NEW m, Good(m), NEW G, G \in Graphs(m), NEW n, n \in Node, n \notin Live(m), n # RootNode,
         NEW r, r = AddNode(m, G, n)
  PROVE  Entered(m, r, G, n)
<1>1. m \in Managers /\ ~m.thrown /\ TreeOK(m) /\ EdgesOK(m)
  BY DEF Good
<1>2. G \in Node
  BY <1>1, GoodLists
<1>3. n \notin ToSet(m.nodes[G]) /\ m.nodes[G] \in Seq(Node)
  BY <1>1, <1>2, GoodLists DEF Live
<1>4. ~Contains(m.nodes[G], n)
  BY <1>3, Members
<1>5. /\ r \in Managers /\ ~r.thrown
      /\ r.nodes[G] = Append(m.nodes[G], n) /\ \A H \in Node : H # G => r.nodes[H] = m.nodes[H]
      /\ r.owner = [m.owner EXCEPT ![n] = G]
      /\ SameGraphs(m, r) /\ SameEdges(m, r) /\ SameCaches(m, r)
  <2>1. NodeAdded(m, r, G, n)
    BY <1>1, <1>2, <1>4, AddNodeFields
  <2> QED
    BY <2>1 DEF NodeAdded
<1>6. m.owner \in [Node -> Maybe(Node)]
  BY <1>1, FieldTypes
<1>7. ASSUME NEW H \in Node
      PROVE  ToSet(r.nodes[H]) = IF H = G THEN ToSet(m.nodes[G]) \cup {n} ELSE ToSet(m.nodes[H])
  <2>1. CASE H = G
    <3>1. r.nodes[H] = Append(m.nodes[G], n)
      BY <2>1, <1>5
    <3> QED
      BY <2>1, <3>1, <1>3, AppendMembers
  <2>2. CASE H # G
    BY <2>2, <1>5
  <2> QED
    BY <2>1, <2>2
<1>8. \A k \in Node : r.owner[k] = IF k = n THEN G ELSE m.owner[k]
  BY <1>5, <1>6
<1>9. Graphs(r) = Graphs(m) /\ r.root = m.root /\ r.graphs = m.graphs
  BY <1>5 DEF SameGraphs, Graphs
<1>10. Live(r) = Live(m) \cup {n}
  <2>1. ASSUME NEW x \in Live(r) PROVE x \in Live(m) \cup {n}
    <3>1. PICK H \in Node : x \in ToSet(r.nodes[H])
      BY DEF Live
    <3> QED
      BY <3>1, <1>7, <1>2 DEF Live
  <2>2. ASSUME NEW x \in Live(m) PROVE x \in Live(r)
    <3>1. PICK H \in Node : x \in ToSet(m.nodes[H])
      BY DEF Live
    <3> QED
      BY <3>1, <1>7 DEF Live
  <2>3. n \in Live(r)
    BY <1>2, <1>7 DEF Live
  <2> QED
    BY <2>1, <2>2, <2>3
<1>11. Known(r) = Known(m)
  BY <1>5 DEF SameEdges, Known
<1>12. ASSUME NEW H \in Node PROVE GraphOK(r, H)
  <2>1. GraphOK(m, H)
    BY <1>1 DEF TreeOK
  <2>2. r.parent[H] = (IF H \in Graphs(r) THEN H ELSE Null) /\ r.child[H] = (IF H \in Graphs(r) THEN H ELSE Null)
    BY <2>1, <1>5, <1>9 DEF GraphOK, SameGraphs
  <2>3. IsInjective(r.nodes[H])
    <3>1. CASE H = G
      <4>1. IsInjective(Append(m.nodes[G], n))
        BY <2>1, <3>1, <1>3, AppendMembers DEF GraphOK
      <4>2. r.nodes[H] = Append(m.nodes[G], n)
        BY <3>1, <1>5
      <4> QED
        BY <4>1, <4>2
    <3>2. CASE H # G
      <4>1. r.nodes[H] = m.nodes[H]
        BY <3>2, <1>5
      <4> QED
        BY <4>1, <2>1 DEF GraphOK
    <3> QED
      BY <3>1, <3>2
  <2>4. ASSUME NEW k \in ToSet(r.nodes[H]) PROVE r.owner[k] = H /\ H \in Graphs(r) /\ k # RootNode
    <3>1. CASE k = n
      <4>1. H = G
        BY <3>1, <2>4, <1>7 DEF Live
      <4> QED
        BY <4>1, <3>1, <1>8, <1>9
    <3>2. CASE k # n
      <4>1. k \in ToSet(m.nodes[H])
        BY <3>2, <2>4, <1>7
      <4>2. k \in Node
        BY <4>1, <1>1, GoodLists
      <4> QED
        BY <4>1, <4>2, <3>2, <2>1, <1>8, <1>9 DEF GraphOK
    <3> QED
      BY <3>1, <3>2
  <2> QED
    BY <2>2, <2>3, <2>4 DEF GraphOK
<1>13. TreeOK(r)
  BY <1>1, <1>9, <1>12 DEF TreeOK
<1>14. ASSUME NEW H \in Node PROVE OwnOK(r, H) /\ IncOK(r, H)
  <2>1. OwnOK(m, H) /\ IncOK(m, H)
    BY <1>1 DEF EdgesOK
  <2>2. OwnOK(r, H)
    <3>1. /\ r.edges = m.edges /\ r.isInter = m.isInter /\ r.source = m.source /\ r.target = m.target
      BY <1>5 DEF SameEdges, SameEnds
    <3>2. ToSet(m.nodes[H]) \subseteq ToSet(r.nodes[H])
      BY <1>7
    <3> QED
      BY <2>1, <3>1, <3>2 DEF OwnOK
  <2>3. IncOK(r, H)
    BY <2>1, <1>5, <1>11 DEF IncOK, SameEdges, SameEnds, Ends
  <2> QED
    BY <2>2, <2>3
<1>15. InterOK(r)
  <2>1. InterOK(m)
    BY <1>1 DEF EdgesOK
  <2>2. \A k \in Live(m) : r.owner[k] = m.owner[k]
    BY <1>1, <1>8, GoodLists
  <2>3. /\ r.inter = m.inter /\ r.isInter = m.isInter /\ r.source = m.source /\ r.target = m.target
    BY <1>5 DEF SameEdges, SameEnds
  <2> QED
    BY <2>1, <2>2, <2>3, <1>10 DEF InterOK
<1>16. Good(r)
  BY <1>5, <1>13, <1>14, <1>15 DEF Good, EdgesOK
<1>17. Graphs(r) = Graphs(m)
  BY <1>5 DEF SameGraphs, Graphs
<1> QED
  BY <1>5, <1>7, <1>10, <1>11, <1>16, <1>17 DEF Entered

\* r is m with a graph for node p.
Opened(m, r, p) ==
  /\ Good(r) /\ Graphs(r) = Graphs(m) \cup {p} /\ Live(r) = Live(m) /\ Known(r) = Known(m)
  /\ r.root = m.root /\ r.nodes = m.nodes /\ r.owner = m.owner
  /\ SameEdges(m, r) /\ SameCaches(m, r)

LEMMA AddGraphGood ==
  ASSUME NEW m, Good(m), NEW p, p \in Node, p \notin Graphs(m), NEW r, r = AddGraph(m, p)
  PROVE  Opened(m, r, p)
<1>1. m \in Managers /\ ~m.thrown /\ TreeOK(m) /\ EdgesOK(m)
  BY DEF Good
<1>2. m.graphs \in Seq(Node) /\ ~Contains(m.graphs, p)
  BY <1>1, FieldTypes, Members DEF Graphs
<1>3. m.parent[p] = Null /\ m.child[p] = Null
  BY LiveFacts
<1>4. /\ r \in Managers /\ ~r.thrown
      /\ r.graphs = Append(m.graphs, p) /\ r.root = m.root
      /\ r.parent = [m.parent EXCEPT ![p] = p] /\ r.child = [m.child EXCEPT ![p] = p]
      /\ r.nodes = m.nodes /\ r.owner = m.owner /\ SameEdges(m, r) /\ SameCaches(m, r)
  BY <1>1, <1>2, <1>3, AddGraphFields
<1>5. Graphs(r) = Graphs(m) \cup {p} /\ IsInjective(r.graphs)
  <2>1. IsInjective(m.graphs) /\ p \notin ToSet(m.graphs)
    BY <1>1 DEF TreeOK, Graphs
  <2> QED
    BY <2>1, <1>2, <1>4, AppendMembers DEF Graphs
<1>6. Live(r) = Live(m) /\ Known(r) = Known(m)
  BY <1>4 DEF Live, Known, SameEdges
<1>7. ASSUME NEW H \in Node PROVE GraphOK(r, H)
  <2>1. GraphOK(m, H)
    BY <1>1 DEF TreeOK
  <2>2. m.parent \in [Node -> Maybe(Node)] /\ m.child \in [Node -> Maybe(Node)]
    BY <1>1, FieldTypes
  <2>3. r.parent[H] = (IF H \in Graphs(r) THEN H ELSE Null) /\ r.child[H] = (IF H \in Graphs(r) THEN H ELSE Null)
    BY <2>1, <2>2, <1>4, <1>5 DEF GraphOK
  <2> QED
    BY <2>1, <2>3, <1>4, <1>5 DEF GraphOK
<1>8. TreeOK(r)
  BY <1>1, <1>4, <1>5, <1>7 DEF TreeOK
<1>9. EdgesOK(r)
  <2>1. InterOK(r)
    BY <1>1, <1>4, <1>6 DEF EdgesOK, InterOK, SameEdges, SameEnds
  <2>2. ASSUME NEW H \in Node PROVE OwnOK(r, H) /\ IncOK(r, H)
    <3>1. OwnOK(m, H) /\ IncOK(m, H)
      BY <1>1 DEF EdgesOK
    <3> QED
      BY <3>1, <1>4, <1>6 DEF OwnOK, IncOK, SameEdges, SameEnds, Ends
  <2> QED
    BY <2>1, <2>2 DEF EdgesOK
<1> QED
  BY <1>4, <1>5, <1>6, <1>8, <1>9 DEF Good, Opened

\* The lists of incident edges after an edge was added, and after one was
\* removed.
Joined(m, r, e, s, t) ==
  /\ Known(r) = Known(m) \cup {e} /\ r.inc = Incident(m.inc, {s, t}, e)
  /\ r.source = [m.source EXCEPT ![e] = s] /\ r.target = [m.target EXCEPT ![e] = t]

LEMMA IncidentOK ==
  ASSUME NEW m, Good(m), NEW e, e \in Edge, e \notin Known(m), NEW s, s \in Node, NEW t, t \in Node,
         NEW r, Joined(m, r, e, s, t)
  PROVE  \A n \in Node : IncOK(r, n)
<1> SUFFICES ASSUME NEW n, n \in Node PROVE IncOK(r, n)
  OBVIOUS
<1>1. m \in Managers /\ IncOK(m, n)
  BY DEF Good, EdgesOK
<1>2. m.inc[n] \in Seq(Edge) /\ m.source \in [Edge -> Maybe(Node)] /\ m.target \in [Edge -> Maybe(Node)]
  BY <1>1, FieldTypes
<1>3. /\ \A x \in Edge : x # e => Ends(r, x) = Ends(m, x)
      /\ Ends(r, e) = {s, t}
  BY <1>2 DEF Ends, Joined
<1>4. r.inc[n] = IF n \in {s, t} THEN Append(m.inc[n], e) ELSE m.inc[n]
  BY DEF Incident, Joined
<1>5. e \notin ToSet(m.inc[n])
  BY <1>1 DEF IncOK
<1>6. IsInjective(r.inc[n]) /\ ToSet(r.inc[n]) = ToSet(m.inc[n]) \cup (IF n \in {s, t} THEN {e} ELSE {})
  <2>1. IsInjective(m.inc[n])
    BY <1>1 DEF IncOK
  <2>2. IsInjective(Append(m.inc[n], e)) /\ ToSet(Append(m.inc[n], e)) = ToSet(m.inc[n]) \cup {e}
    BY <2>1, <1>2, <1>5, AppendMembers
  <2>3. CASE n \in {s, t}
    BY <2>2, <2>3, <1>4
  <2>4. CASE n \notin {s, t}
    BY <2>1, <2>4, <1>4
  <2> QED
    BY <2>3, <2>4
<1>7. ASSUME NEW x \in Edge PROVE x \in ToSet(r.inc[n]) <=> x \in Known(r) /\ n \in Ends(r, x)
  <2>1. x \in ToSet(m.inc[n]) <=> x \in Known(m) /\ n \in Ends(m, x)
    BY <1>1 DEF IncOK
  <2>2. CASE x = e
    BY <2>2, <1>3, <1>5, <1>6 DEF Joined
  <2>3. CASE x # e
    BY <2>1, <2>3, <1>3, <1>6 DEF Joined
  <2> QED
    BY <2>2, <2>3
<1> QED
  BY <1>6, <1>7 DEF IncOK

LEMMA DetachedOK ==
  ASSUME NEW m, Good(m), NEW e, e \in Known(m),
         NEW r, Known(r) = Known(m) \ {e}, r.inc = Detached(m.inc, Ends(m, e), e), SameEnds(m, r)
  PROVE  \A n \in Node : IncOK(r, n)
<1> SUFFICES ASSUME NEW n, n \in Node PROVE IncOK(r, n)
  OBVIOUS
<1>1. m \in Managers /\ IncOK(m, n)
  BY DEF Good, EdgesOK
<1>2. m.inc[n] \in Seq(Edge)
  BY <1>1, FieldTypes
<1>3. \A x \in Edge : Ends(r, x) = Ends(m, x)
  BY DEF Ends, SameEnds
<1>4. r.inc[n] = IF n \in Ends(m, e) THEN RemoveFirst(m.inc[n], e) ELSE m.inc[n]
  BY DEF Detached
<1>5. e \in ToSet(m.inc[n]) <=> n \in Ends(m, e)
  BY <1>1, EdgeFacts DEF IncOK
<1>6. IsInjective(r.inc[n]) /\ ToSet(r.inc[n]) = ToSet(m.inc[n]) \ {e}
  <2>1. IsInjective(m.inc[n])
    BY <1>1 DEF IncOK
  <2>2. IsInjective(RemoveFirst(m.inc[n], e)) /\ ToSet(RemoveFirst(m.inc[n], e)) = ToSet(m.inc[n]) \ {e}
    BY <2>1, <1>2, RemoveFirstMembers
  <2>3. CASE n \in Ends(m, e)
    BY <2>2, <2>3, <1>4
  <2>4. CASE n \notin Ends(m, e)
    BY <2>1, <2>4, <1>4, <1>5
  <2> QED
    BY <2>3, <2>4
<1>7. ASSUME NEW x \in Edge PROVE x \in ToSet(r.inc[n]) <=> x \in Known(r) /\ n \in Ends(r, x)
  BY <1>1, <1>3, <1>6 DEF IncOK
<1> QED
  BY <1>6, <1>7 DEF IncOK

\* r is m with edge e from s to t.
EdgeAdded(m, r, e, s, t) ==
  /\ Good(r) /\ Known(r) = Known(m) \cup {e} /\ SameTree(m, r) /\ SameCaches(m, r)
  /\ r.source = [m.source EXCEPT ![e] = s] /\ r.target = [m.target EXCEPT ![e] = t]
  /\ \A x \in Edge : x # e => r.isInter[x] = m.isInter[x]

\* The tree is of the same form when it is the same.
LEMMA SameTreeOK ==
  ASSUME NEW m, TreeOK(m), NEW r, SameTree(m, r)
  PROVE  TreeOK(r) /\ Live(r) = Live(m) /\ Graphs(r) = Graphs(m)
<1>1. Graphs(r) = Graphs(m)
  BY DEF SameTree, SameGraphs, Graphs
<1>2. Live(r) = Live(m)
  BY DEF SameTree, Live
<1>3. \A G \in Node : GraphOK(r, G)
  BY <1>1 DEF TreeOK, GraphOK, SameTree, SameGraphs
<1> QED
  BY <1>1, <1>2, <1>3 DEF TreeOK, SameTree, SameGraphs

LEMMA AddOwnEdgeGood ==
  ASSUME NEW m, Good(m), NEW G, G \in Node, NEW e, e \in Edge, e \notin Known(m),
         NEW s, s \in ToSet(m.nodes[G]), NEW t, t \in ToSet(m.nodes[G]), s # t,
         NEW r, r = AddOwnEdge(m, G, e, s, t)
  PROVE  EdgeAdded(m, r, e, s, t)
<1>1. m \in Managers /\ ~m.thrown /\ TreeOK(m) /\ EdgesOK(m)
  BY DEF Good
<1>2. m.owner[s] = G /\ m.owner[t] = G /\ s \in Node /\ t \in Node
  BY <1>1, LiveFacts, GoodLists
<1>3. OwnEdgeAdded(m, r, G, e, s, t)
  BY <1>1, <1>2, AddOwnEdgeFields
<1>4. /\ r \in Managers /\ ~r.thrown /\ r.inter = m.inter
      /\ r.edges[G] = Append(m.edges[G], e) /\ \A H \in Node : H # G => r.edges[H] = m.edges[H]
      /\ r.inc = Incident(m.inc, {s, t}, e) /\ SameTree(m, r) /\ SameCaches(m, r)
      /\ r.source = [m.source EXCEPT ![e] = s] /\ r.target = [m.target EXCEPT ![e] = t]
      /\ r.isInter = [m.isInter EXCEPT ![e] = FALSE]
  BY <1>3 DEF OwnEdgeAdded
<1>5. /\ m.source \in [Edge -> Maybe(Node)] /\ m.target \in [Edge -> Maybe(Node)]
      /\ m.isInter \in [Edge -> BOOLEAN] /\ m.edges[G] \in Seq(Edge)
  BY <1>1, FieldTypes
<1>6. /\ \A x \in Edge : x # e => /\ r.source[x] = m.source[x] /\ r.target[x] = m.target[x]
                                  /\ r.isInter[x] = m.isInter[x]
      /\ r.source[e] = s /\ r.target[e] = t /\ ~r.isInter[e]
  BY <1>4, <1>5
<1>7. \A H \in Node : ToSet(r.edges[H]) = IF H = G THEN ToSet(m.edges[H]) \cup {e} ELSE ToSet(m.edges[H])
  <2>1. ToSet(Append(m.edges[G], e)) = ToSet(m.edges[G]) \cup {e}
    BY <1>5, AppendMembers
  <2> QED
    BY <2>1, <1>4
<1>8. Known(r) = Known(m) \cup {e}
  <2>0. ToSet(r.inter) = ToSet(m.inter)
    BY <1>4
  <2>1. ASSUME NEW x \in Known(r) PROVE x \in Known(m) \cup {e}
    <3>1. CASE x \in ToSet(r.inter)
      BY <3>1, <2>0 DEF Known
    <3>2. CASE x \notin ToSet(r.inter)
      <4>1. PICK H \in Node : x \in ToSet(r.edges[H])
        BY <3>2, <2>1 DEF Known
      <4>2. x \in ToSet(m.edges[H]) \cup {e}
        BY <4>1, <1>7
      <4> QED
        BY <4>2 DEF Known
    <3> QED
      BY <3>1, <3>2
  <2>2. ASSUME NEW x \in Known(m) PROVE x \in Known(r)
    <3>1. CASE x \in ToSet(m.inter)
      BY <3>1, <2>0 DEF Known
    <3>2. CASE x \notin ToSet(m.inter)
      <4>1. PICK H \in Node : x \in ToSet(m.edges[H])
        BY <3>2, <2>2 DEF Known
      <4>2. x \in ToSet(r.edges[H])
        BY <4>1, <1>7
      <4> QED
        BY <4>2 DEF Known
    <3> QED
      BY <3>1, <3>2
  <2>3. e \in Known(r)
    BY <1>7 DEF Known
  <2> QED
    BY <2>1, <2>2, <2>3
<1>9. TreeOK(r) /\ Live(r) = Live(m)
  BY <1>1, <1>4, SameTreeOK
<1>10. ASSUME NEW H \in Node PROVE OwnOK(r, H)
  <2>1. OwnOK(m, H)
    BY <1>1 DEF EdgesOK
  <2>2. e \notin ToSet(m.edges[H]) /\ ToSet(m.edges[H]) \subseteq Edge
    BY <1>1, GoodLists DEF Known
  <2>3. IsInjective(r.edges[H])
    <3>1. CASE H = G
      BY <3>1, <2>1, <2>2, <1>4, <1>5, AppendMembers DEF OwnOK
    <3>2. CASE H # G
      BY <3>2, <2>1, <1>4 DEF OwnOK
    <3> QED
      BY <3>1, <3>2
  <2>4. r.nodes = m.nodes
    BY <1>4 DEF SameTree
  <2>5. ASSUME NEW x \in ToSet(r.edges[H])
        PROVE  /\ ~r.isInter[x] /\ r.source[x] # r.target[x]
               /\ r.source[x] \in ToSet(r.nodes[H]) /\ r.target[x] \in ToSet(r.nodes[H])
    <3>1. CASE x = e
      <4>1. H = G
        BY <3>1, <2>2, <2>5, <1>7
      <4> QED
        BY <3>1, <4>1, <2>4, <1>6
    <3>2. CASE x # e
      <4>1. x \in ToSet(m.edges[H]) /\ x \in Edge
        BY <3>2, <2>2, <2>5, <1>7
      <4> QED
        BY <3>2, <4>1, <2>1, <2>4, <1>6 DEF OwnOK
    <3> QED
      BY <3>1, <3>2
  <2> QED
    BY <2>3, <2>5 DEF OwnOK
<1>11. InterOK(r)
  <2>1. InterOK(m)
    BY <1>1 DEF EdgesOK
  <2>2. \A x \in ToSet(m.inter) : x \in Edge /\ x # e
    BY <1>1, GoodLists DEF Known
  <2>3. r.owner = m.owner
    BY <1>4 DEF SameTree
  <2> QED
    BY <2>1, <2>2, <2>3, <1>4, <1>6, <1>9 DEF InterOK
<1>12. \A n \in Node : IncOK(r, n)
  <2>1. Joined(m, r, e, s, t)
    BY <1>4, <1>8 DEF Joined
  <2> QED
    BY <1>2, <2>1, IncidentOK
<1>13. Good(r)
  BY <1>4, <1>9, <1>10, <1>11, <1>12 DEF Good, EdgesOK
<1> QED
  BY <1>4, <1>6, <1>8, <1>13 DEF EdgeAdded

LEMMA AddInterEdgeGood ==
  ASSUME NEW m, Good(m), NEW e, e \in Edge, e \notin Known(m),
         NEW s, s \in Live(m), NEW t, t \in Live(m), m.owner[s] # m.owner[t],
         NEW r, r = AddInterEdge(m, e, s, t)
  PROVE  EdgeAdded(m, r, e, s, t)
<1>1. m \in Managers /\ ~m.thrown /\ TreeOK(m) /\ EdgesOK(m)
  BY DEF Good
<1>2. s \in Node /\ t \in Node
  BY <1>1, GoodLists
<1>3. ~Contains(m.inter, e) /\ ~Contains(m.inc[s], e) /\ ~Contains(m.inc[t], e)
  <2>1. m.inter \in Seq(Edge) /\ m.inc[s] \in Seq(Edge) /\ m.inc[t] \in Seq(Edge)
    BY <1>1, <1>2, FieldTypes
  <2>2. e \notin ToSet(m.inter)
    BY DEF Known
  <2>3. e \notin ToSet(m.inc[s]) /\ e \notin ToSet(m.inc[t])
    BY <1>2, IncFacts
  <2> QED
    BY <2>1, <2>2, <2>3, Members
<1>4. /\ r \in Managers /\ ~r.thrown /\ r.inter = Append(m.inter, e) /\ r.edges = m.edges
      /\ r.inc = Incident(m.inc, {s, t}, e) /\ SameTree(m, r) /\ SameCaches(m, r)
      /\ r.source = [m.source EXCEPT ![e] = s] /\ r.target = [m.target EXCEPT ![e] = t]
      /\ r.isInter = [m.isInter EXCEPT ![e] = TRUE]
  <2>1. InterEdgeAdded(m, r, e, s, t)
    BY <1>1, <1>2, <1>3, AddInterEdgeFields
  <2> QED
    BY <2>1 DEF InterEdgeAdded
<1>5. /\ m.source \in [Edge -> Maybe(Node)] /\ m.target \in [Edge -> Maybe(Node)]
      /\ m.isInter \in [Edge -> BOOLEAN] /\ m.inter \in Seq(Edge)
  BY <1>1, FieldTypes
<1>6. /\ \A x \in Edge : x # e => /\ r.source[x] = m.source[x] /\ r.target[x] = m.target[x]
                                  /\ r.isInter[x] = m.isInter[x]
      /\ r.source[e] = s /\ r.target[e] = t /\ r.isInter[e]
  BY <1>4, <1>5
<1>7. ToSet(r.inter) = ToSet(m.inter) \cup {e} /\ (IsInjective(m.inter) => IsInjective(r.inter))
  <2>1. e \notin ToSet(m.inter)
    BY DEF Known
  <2> QED
    BY <2>1, <1>4, <1>5, AppendMembers
<1>8. Known(r) = Known(m) \cup {e}
  BY <1>4, <1>7 DEF Known
<1>9. TreeOK(r) /\ Live(r) = Live(m)
  BY <1>1, <1>4, SameTreeOK
<1>10. ASSUME NEW H \in Node PROVE OwnOK(r, H)
  <2>1. OwnOK(m, H)
    BY <1>1 DEF EdgesOK
  <2>2. e \notin ToSet(m.edges[H]) /\ ToSet(m.edges[H]) \subseteq Edge
    BY <1>1, GoodLists DEF Known
  <2>3. r.nodes = m.nodes
    BY <1>4 DEF SameTree
  <2> QED
    BY <2>1, <2>2, <2>3, <1>4, <1>6 DEF OwnOK
<1>11. InterOK(r)
  <2>1. InterOK(m)
    BY <1>1 DEF EdgesOK
  <2>2. \A x \in ToSet(m.inter) : x \in Edge /\ x # e
    BY <1>1, GoodLists DEF Known
  <2>3. r.owner = m.owner
    BY <1>4 DEF SameTree
  <2>4. ASSUME NEW x \in ToSet(r.inter)
        PROVE  /\ r.isInter[x] /\ r.owner[r.source[x]] # r.owner[r.target[x]]
               /\ r.source[x] \in Live(r) /\ r.target[x] \in Live(r)
    <3>1. CASE x = e
      BY <3>1, <2>3, <1>6, <1>9
    <3>2. CASE x # e
      <4>1. x \in ToSet(m.inter)
        BY <3>2, <2>4, <1>7
      <4> QED
        BY <3>2, <4>1, <2>1, <2>2, <2>3, <1>6, <1>9 DEF InterOK
    <3> QED
      BY <3>1, <3>2
  <2> QED
    BY <2>1, <2>4, <1>7 DEF InterOK
<1>12. \A n \in Node : IncOK(r, n)
  <2>1. Joined(m, r, e, s, t)
    BY <1>4, <1>8 DEF Joined
  <2> QED
    BY <1>2, <2>1, IncidentOK
<1>13. Good(r)
  BY <1>4, <1>9, <1>10, <1>11, <1>12 DEF Good, EdgesOK
<1> QED
  BY <1>4, <1>6, <1>8, <1>13 DEF EdgeAdded

LEMMA AddEdgeGood ==
  ASSUME NEW m, Good(m), NEW e, e \in Edge, e \notin Known(m),
         NEW s, s \in Live(m), NEW t, t \in Live(m), s # t, NEW r, r = AddEdge(m, e, s, t)
  PROVE  EdgeAdded(m, r, e, s, t)
<1>1. m \in Managers /\ ~m.thrown
  BY DEF Good
<1>2. /\ m.owner[s] \in Node /\ s \in ToSet(m.nodes[m.owner[s]])
      /\ m.owner[t] \in Node /\ t \in ToSet(m.nodes[m.owner[t]])
  BY LiveFacts
<1>3. Null \notin {m.owner[s], m.owner[t]}
  BY <1>2, NodeAssumption
<1>4. r = IF m.owner[s] = m.owner[t] THEN AddOwnEdge(m, m.owner[s], e, s, t) ELSE AddInterEdge(m, e, s, t)
  BY <1>1, <1>3 DEF AddEdge, Guarded
<1>5. CASE m.owner[s] = m.owner[t]
  <2>1. r = AddOwnEdge(m, m.owner[s], e, s, t)
    BY <1>4, <1>5
  <2>2. t \in ToSet(m.nodes[m.owner[s]])
    BY <1>2, <1>5
  <2> QED
    BY <1>2, <2>1, <2>2, AddOwnEdgeGood
<1>6. CASE m.owner[s] # m.owner[t]
  BY <1>4, <1>6, AddInterEdgeGood
<1> QED
  BY <1>5, <1>6

\* r is m without edge e.
EdgeRemoved(m, r, e) ==
  /\ Good(r) /\ Known(r) = Known(m) \ {e} /\ SameTree(m, r) /\ SameEnds(m, r) /\ SameCaches(m, r)

LEMMA EdgeIsKnown ==
  ASSUME NEW m, Good(m), NEW e, e \in Known(m)
  PROVE  KnownAtBothEnds(m, e)
<1> SUFFICES ASSUME NEW n \in Ends(m, e) PROVE n # Null /\ Contains(m.inc[n], e)
  BY DEF KnownAtBothEnds
<1>1. n \in Node /\ e \in ToSet(m.inc[n]) /\ m \in Managers
  BY EdgeFacts DEF Good
<1>2. m.inc[n] \in Seq(Edge)
  BY <1>1, FieldTypes
<1> QED
  BY <1>1, <1>2, Members, NodeAssumption

LEMMA RemoveOwnEdgeGood ==
  ASSUME NEW m, Good(m), NEW G, G \in Node, NEW e, e \in ToSet(m.edges[G]),
         NEW r, r = RemoveOwnEdge(m, G, e)
  PROVE  EdgeRemoved(m, r, e)
<1>1. m \in Managers /\ ~m.thrown /\ TreeOK(m) /\ EdgesOK(m) /\ \A H \in Node : OwnOK(m, H)
  BY DEF Good, EdgesOK
<1>2. e \in Known(m) /\ e \in Edge
  BY <1>1, GoodLists DEF Known
<1>3. m.source[e] \in ToSet(m.nodes[G]) /\ m.target[e] \in ToSet(m.nodes[G]) /\ ~m.isInter[e]
  BY <1>1 DEF OwnOK
<1>4. m.owner[m.source[e]] = G /\ m.owner[m.target[e]] = G
  BY <1>3, LiveFacts
<1>5. m.edges[G] \in Seq(Edge) /\ Contains(m.edges[G], e)
  <2>1. m.edges[G] \in Seq(Edge)
    BY <1>1, FieldTypes
  <2> QED
    BY <2>1, Members
<1>6. OwnEdgeRemoved(m, r, G, e)
  BY <1>1, <1>2, <1>4, <1>5, EdgeIsKnown, RemoveOwnEdgeFields
<1>7. /\ r \in Managers /\ ~r.thrown /\ r.inter = m.inter
      /\ r.edges[G] = RemoveFirst(m.edges[G], e) /\ \A H \in Node : H # G => r.edges[H] = m.edges[H]
      /\ r.inc = Detached(m.inc, Ends(m, e), e)
      /\ SameEnds(m, r) /\ SameTree(m, r) /\ SameCaches(m, r)
  BY <1>6 DEF OwnEdgeRemoved
<1>8. ASSUME NEW H \in Node PROVE IsInjective(r.edges[H]) /\ ToSet(r.edges[H]) = ToSet(m.edges[H]) \ {e}
  <2>1. IsInjective(m.edges[H])
    BY <1>1 DEF OwnOK
  <2>2. CASE H = G
    BY <2>1, <2>2, <1>5, <1>7, RemoveFirstMembers
  <2>3. CASE H # G
    <3>1. e \notin ToSet(m.edges[H])
      <4> SUFFICES ASSUME e \in ToSet(m.edges[H]) PROVE FALSE
        OBVIOUS
      <4>1. m.source[e] \in ToSet(m.nodes[H])
        BY <1>1 DEF OwnOK
      <4> QED
        BY <4>1, <2>3, <1>4, LiveFacts
    <3> QED
      BY <3>1, <2>1, <2>3, <1>7
  <2> QED
    BY <2>2, <2>3
<1>9. e \notin ToSet(m.inter)
  BY <1>1, <1>3 DEF EdgesOK, InterOK
<1>10. Known(r) = Known(m) \ {e}
  <2>1. ASSUME NEW x PROVE x \in Known(r) <=> x \in Known(m) \ {e}
    <3>1. x \in ToSet(r.inter) <=> x \in ToSet(m.inter) \ {e}
      BY <1>7, <1>9
    <3>2. (\E H \in Node : x \in ToSet(r.edges[H])) <=> \E H \in Node : x \in ToSet(m.edges[H]) \ {e}
      BY <1>8
    <3>3. /\ x \in Known(r) <=> x \in ToSet(r.inter) \/ \E H \in Node : x \in ToSet(r.edges[H])
          /\ x \in Known(m) <=> x \in ToSet(m.inter) \/ \E H \in Node : x \in ToSet(m.edges[H])
      BY DEF Known
    <3> QED
      BY <3>1, <3>2, <3>3
  <2> QED
    BY <2>1
<1>11. TreeOK(r) /\ Live(r) = Live(m)
  BY <1>1, <1>7, SameTreeOK
<1>12. ASSUME NEW H \in Node PROVE OwnOK(r, H)
  <2>1. OwnOK(m, H)
    BY <1>1
  <2> QED
    BY <2>1, <1>7, <1>8 DEF OwnOK, SameEnds, SameTree
<1>13. InterOK(r)
  BY <1>1, <1>7, <1>11 DEF EdgesOK, InterOK, SameEnds, SameTree
<1>14. \A n \in Node : IncOK(r, n)
  BY <1>2, <1>7, <1>10, DetachedOK
<1>15. Good(r)
  BY <1>7, <1>11, <1>12, <1>13, <1>14 DEF Good, EdgesOK
<1> QED
  BY <1>7, <1>10, <1>15 DEF EdgeRemoved

LEMMA RemoveInterEdgeGood ==
  ASSUME NEW m, Good(m), NEW e, e \in ToSet(m.inter), NEW r, r = RemoveInterEdge(m, e)
  PROVE  EdgeRemoved(m, r, e)
<1>1. m \in Managers /\ ~m.thrown /\ TreeOK(m) /\ EdgesOK(m) /\ \A H \in Node : OwnOK(m, H)
  BY DEF Good, EdgesOK
<1>2. e \in Known(m) /\ e \in Edge
  BY <1>1, GoodLists DEF Known
<1>3. m.isInter[e] /\ IsInjective(m.inter)
  BY <1>1 DEF EdgesOK, InterOK
<1>4. m.inter \in Seq(Edge) /\ Contains(m.inter, e)
  BY <1>1, FieldTypes, Members
<1>5. /\ r \in Managers /\ ~r.thrown /\ r.inter = RemoveFirst(m.inter, e) /\ r.edges = m.edges
      /\ r.inc = Detached(m.inc, Ends(m, e), e)
      /\ SameEnds(m, r) /\ SameTree(m, r) /\ SameCaches(m, r)
  BY <1>1, <1>2, <1>3, <1>4, EdgeIsKnown, RemoveInterEdgeFields
<1>6. IsInjective(r.inter) /\ ToSet(r.inter) = ToSet(m.inter) \ {e}
  BY <1>3, <1>4, <1>5, RemoveFirstMembers
<1>7. \A H \in Node : e \notin ToSet(m.edges[H])
  BY <1>1, <1>3 DEF OwnOK
<1>8. Known(r) = Known(m) \ {e}
  BY <1>5, <1>6, <1>7 DEF Known
<1>9. TreeOK(r) /\ Live(r) = Live(m)
  BY <1>1, <1>5, SameTreeOK
<1>10. ASSUME NEW H \in Node PROVE OwnOK(r, H)
  <2>1. OwnOK(m, H)
    BY <1>1
  <2> QED
    BY <2>1, <1>5 DEF OwnOK, SameEnds, SameTree
<1>11. InterOK(r)
  BY <1>1, <1>5, <1>6, <1>9 DEF EdgesOK, InterOK, SameEnds, SameTree
<1>12. \A n \in Node : IncOK(r, n)
  BY <1>2, <1>5, <1>8, DetachedOK
<1>13. Good(r)
  BY <1>5, <1>9, <1>10, <1>11, <1>12 DEF Good, EdgesOK
<1> QED
  BY <1>5, <1>8, <1>13 DEF EdgeRemoved

LEMMA RemoveEdgeGood ==
  ASSUME NEW m, Good(m), NEW e, e \in Known(m), NEW r, r = RemoveEdge(m, e)
  PROVE  EdgeRemoved(m, r, e)
<1>1. /\ m.isInter[e] <=> e \in ToSet(m.inter)
      /\ ~m.isInter[e] => e \in ToSet(m.edges[m.owner[m.source[e]]])
      /\ m.owner[m.source[e]] \in Node
  BY EdgeFacts, LiveFacts
<1>2. CASE m.isInter[e]
  <2>1. r = RemoveInterEdge(m, e)
    BY <1>2 DEF RemoveEdge
  <2> QED
    BY <2>1, <1>1, <1>2, RemoveInterEdgeGood
<1>3. CASE ~m.isInter[e]
  <2> DEFINE G == m.owner[m.source[e]]
  <2>1. r = RemoveOwnEdge(m, G, e)
    BY <1>3 DEF RemoveEdge
  <2>2. G \in Node /\ e \in ToSet(m.edges[G])
    BY <1>1, <1>3
  <2> HIDE DEF G
  <2> QED
    BY <2>1, <2>2, RemoveOwnEdgeGood
<1> QED
  BY <1>2, <1>3

\* r is m without node n and the edges of set E.
NodeRemoved(m, r, n, E) ==
  /\ Good(r) /\ Live(r) = Live(m) \ {n} /\ Known(r) = Known(m) \ E
  /\ \A H \in Node : ToSet(r.nodes[H]) = ToSet(m.nodes[H]) \ {n}
  /\ r.owner = m.owner /\ SameGraphs(m, r) /\ SameEnds(m, r) /\ SameCaches(m, r)

\* A node without edges can be taken out.
LEMMA TakeOutGood ==
  ASSUME NEW m, Good(m), NEW n, n \in Live(m), ToSet(m.inc[n]) = {}, NEW G, G = m.owner[n],
         NEW r, r = [m EXCEPT !.nodes[G] = RemoveFirst(@, n)]
  PROVE  NodeRemoved(m, r, n, {})
<1>1. m \in Managers /\ ~m.thrown /\ TreeOK(m) /\ EdgesOK(m)
  BY DEF Good
<1>2. n \in Node /\ G \in Node /\ n \in ToSet(m.nodes[G])
  BY LiveFacts
<1>3. TakenOut(m, r, G, n)
  BY <1>1, <1>2, TakeOutFields
<1>4. /\ r \in Managers /\ ~r.thrown /\ r.owner = m.owner
      /\ r.nodes[G] = RemoveFirst(m.nodes[G], n) /\ \A H \in Node : H # G => r.nodes[H] = m.nodes[H]
      /\ SameGraphs(m, r) /\ SameEdges(m, r) /\ SameCaches(m, r)
  BY <1>1, <1>3 DEF TakenOut
<1>5. ASSUME NEW H \in Node PROVE IsInjective(r.nodes[H]) /\ ToSet(r.nodes[H]) = ToSet(m.nodes[H]) \ {n}
  <2>1. IsInjective(m.nodes[H]) /\ m.nodes[H] \in Seq(Node)
    BY <1>1, FieldTypes DEF TreeOK, GraphOK
  <2>2. CASE H = G
    BY <2>1, <2>2, <1>4, RemoveFirstMembers
  <2>3. CASE H # G
    BY <2>1, <2>3, <1>4, LiveFacts
  <2> QED
    BY <2>2, <2>3
<1>6. Live(r) = Live(m) \ {n}
  BY <1>5 DEF Live
<1>7. Graphs(r) = Graphs(m) /\ Known(r) = Known(m)
  BY <1>4 DEF SameGraphs, SameEdges, Graphs, Known
<1>8. ASSUME NEW H \in Node PROVE GraphOK(r, H)
  <2>1. GraphOK(m, H)
    BY <1>1 DEF TreeOK
  <2> QED
    BY <2>1, <1>4, <1>5, <1>7 DEF GraphOK, SameGraphs
<1>9. TreeOK(r)
  BY <1>1, <1>4, <1>7, <1>8 DEF TreeOK, SameGraphs
<1>10. \A e \in Known(m) : m.source[e] # n /\ m.target[e] # n
  BY EdgeFacts DEF Ends
<1>11. ASSUME NEW H \in Node PROVE OwnOK(r, H) /\ IncOK(r, H)
  <2>1. OwnOK(m, H) /\ IncOK(m, H)
    BY <1>1 DEF EdgesOK
  <2>2. IncOK(r, H)
    BY <2>1, <1>4, <1>7 DEF IncOK, SameEdges, SameEnds, Ends
  <2>3. \A e \in ToSet(m.edges[H]) : e \in Known(m)
    BY DEF Known
  <2>4. OwnOK(r, H)
    <3>1. r.edges[H] = m.edges[H] /\ SameEnds(m, r)
      BY <1>4 DEF SameEdges
    <3>2. ToSet(r.nodes[H]) = ToSet(m.nodes[H]) \ {n}
      BY <1>5
    <3> QED
      BY <2>1, <2>3, <3>1, <3>2, <1>10 DEF OwnOK, SameEnds
  <2> QED
    BY <2>2, <2>4
<1>12. InterOK(r)
  <2>1. InterOK(m)
    BY <1>1 DEF EdgesOK
  <2>2. \A e \in ToSet(m.inter) : e \in Known(m)
    BY DEF Known
  <2> QED
    BY <2>1, <2>2, <1>4, <1>6, <1>10 DEF InterOK, SameEdges, SameEnds
<1>13. Good(r)
  BY <1>4, <1>9, <1>11, <1>12 DEF Good, EdgesOK
<1> QED
  BY <1>4, <1>5, <1>6, <1>7, <1>13 DEF NodeRemoved, SameEdges

\* RemoveNode takes the edges of the node out first.
LEMMA RemoveNodeGood ==
  ASSUME NEW m, Good(m), NEW n, n \in Live(m), NEW G, G = m.owner[n], NEW r, r = RemoveNode(m, G, n)
  PROVE  NodeRemoved(m, r, n, ToSet(m.inc[n]))
<1> DEFINE list == m.inc[n]
           N == Len(list)
           I == [k \in 0..N |->
                   {a \in Managers : /\ Good(a) /\ Known(a) = Known(m) \ Seen(list, k)
                                     /\ SameTree(m, a) /\ SameEnds(m, a) /\ SameCaches(m, a)}]
           Q(f) == f = [k \in 0..N |-> IF k = 0 THEN m ELSE RemoveEdge(f[k - 1], list[k])]
           w == CHOOSE f : Q(f)
<1>1. m \in Managers /\ n \in Node /\ G \in Node
  BY LiveFacts DEF Good
<1>2. list \in Seq(Edge) /\ IsInjective(list) /\ N \in Nat
  <2>1. list \in Seq(Edge)
    BY <1>1, FieldTypes
  <2> QED
    BY <1>1, <2>1, IncFacts, Members
<1>3. \A k \in 1..N : list[k] \in Known(m)
  <2>1. \A k \in 1..N : list[k] \in ToSet(list)
    BY <1>2, Members DEF ToSet
  <2> QED
    BY <2>1, <1>1, IncFacts
<1> HIDE DEF list
<1>4. m \in I[0]
  <2>1. Seen(list, 0) = {}
    BY SeenTurns, <1>2
  <2> QED
    BY <1>1, <1>2, <2>1 DEF SameTree, SameGraphs, SameEnds, SameCaches
<1>5. ASSUME NEW k \in 1..N, NEW a \in I[k - 1] PROVE RemoveEdge(a, list[k]) \in I[k]
  <2>1. k \in 0..N /\ k - 1 \in 0..N
    BY <1>2
  <2>2. /\ Good(a) /\ Known(a) = Known(m) \ Seen(list, k - 1)
        /\ SameTree(m, a) /\ SameEnds(m, a) /\ SameCaches(m, a)
    BY <2>1
  <2>3. Seen(list, k) = Seen(list, k - 1) \cup {list[k]} /\ list[k] \notin Seen(list, k - 1)
    <3> HIDE DEF I, Q, w
    <3> QED
      BY <1>2, SeenTurns
  <2> DEFINE b == RemoveEdge(a, list[k])
  <2>4. EdgeRemoved(a, b, list[k])
    BY <2>2, <2>3, <1>3, RemoveEdgeGood
  <2> HIDE DEF b
  <2>5. /\ b \in Managers /\ Good(b) /\ Known(b) = Known(m) \ Seen(list, k)
        /\ SameTree(m, b) /\ SameEnds(m, b) /\ SameCaches(m, b)
    BY <2>2, <2>3, <2>4 DEF EdgeRemoved, Good, SameTree, SameGraphs, SameEnds, SameCaches
  <2>6. b \in I[k]
    BY <2>1, <2>5
  <2> QED
    BY <2>6 DEF b
<1>6. \E f : Q(f)
  <2> DEFINE X == UNION {I[k] : k \in 0..N}
             F == [p \in X \X (1..N) |-> RemoveEdge(p[1], list[p[2]])]
  <2>1. \A k \in 1..N : \A a \in I[k - 1] : F[<<a, k>>] = RemoveEdge(a, list[k])
    <3> SUFFICES ASSUME NEW k \in 1..N, NEW a \in I[k - 1] PROVE F[<<a, k>>] = RemoveEdge(a, list[k])
      OBVIOUS
    <3>1. k - 1 \in 0..N
      BY <1>2
    <3> HIDE DEF I
    <3>2. a \in X
      BY <3>1
    <3> HIDE DEF X
    <3> QED
      BY <3>2
  <2> HIDE DEF I, F
  <2>2. \A k \in 1..N : \A a \in I[k - 1] : F[<<a, k>>] \in I[k]
    BY <2>1, <1>5
  <2>3. PICK g : IsRun(g, N, m, F, I)
    BY <1>2, <1>4, <2>2, RunExists
  <2>4. /\ g = [k \in 0..N |-> g[k]] /\ g[0] = m
        /\ \A k \in 1..N : g[k] = F[<<g[k - 1], k>>]
        /\ \A k \in 0..N : g[k] \in I[k]
    BY <2>3 DEF IsRun
  <2>5. \A k \in 1..N : g[k] = RemoveEdge(g[k - 1], list[k])
    <3> SUFFICES ASSUME NEW k \in 1..N PROVE g[k] = RemoveEdge(g[k - 1], list[k])
      OBVIOUS
    <3>1. k - 1 \in 0..N
      BY <1>2
    <3> QED
      BY <3>1, <2>1, <2>4
  <2>6. \A k \in 0..N : g[k] = IF k = 0 THEN m ELSE RemoveEdge(g[k - 1], list[k])
    <3> SUFFICES ASSUME NEW k \in 0..N PROVE g[k] = IF k = 0 THEN m ELSE RemoveEdge(g[k - 1], list[k])
      OBVIOUS
    <3>1. k = 0 \/ k \in 1..N
      BY <1>2
    <3> QED
      BY <2>4, <2>5, <3>1
  <2>7. Q(g)
    <3> HIDE DEF N
    <3> QED
      BY <2>4, <2>6
  <2> QED
    BY <2>7
<1>7. Q(w)
  <2> HIDE DEF Q
  <2> QED
    BY <1>6
<1>8. w[N] \in I[N]
  <2> HIDE DEF w
  <2>1. w[0] = m /\ \A k \in 1..N : w[k] = RemoveEdge(w[k - 1], list[k])
    BY <1>2, <1>7
  <2> HIDE DEF I, Q
  <2> QED
    BY <1>2, <1>4, <1>5, <2>1, Turns
<1>9. InTurn(RemoveEdge, m, list) = w[N]
  BY DEF InTurn
<1> DEFINE bare == InTurn(RemoveEdge, m, list)
<1>10. /\ Good(bare) /\ Known(bare) = Known(m) \ ToSet(list)
       /\ SameTree(m, bare) /\ SameEnds(m, bare) /\ SameCaches(m, bare)
  <2>1. N \in 0..N /\ Seen(list, N) = ToSet(list)
    BY <1>2, SeenTurns
  <2> HIDE DEF w
  <2> QED
    BY <2>1, <1>8, <1>9
<1> HIDE DEF bare, I, Q, w
<1>11. n \in Live(bare) /\ bare.owner[n] = G /\ bare \in Managers /\ ~bare.thrown
  BY <1>10, SameTreeOK DEF Good, SameTree
<1>12. ToSet(bare.inc[n]) = {}
  <2>1. \A e \in ToSet(bare.inc[n]) : e \in Known(bare) /\ n \in Ends(bare, e)
    BY <1>1, <1>10, IncFacts
  <2>2. \A e \in Edge : Ends(bare, e) = Ends(m, e)
    BY <1>10 DEF SameEnds, Ends
  <2>3. \A e \in Known(m) : n \in Ends(m, e) => e \in ToSet(list)
    BY <1>1, GoodLists DEF Good, EdgesOK, IncOK, list
  <2>4. Known(bare) \subseteq Edge
    BY <1>11, GoodLists
  <2> QED
    BY <2>1, <2>2, <2>3, <2>4, <1>10
<1>13. Contains(bare.nodes[G], n)
  <2>1. bare.nodes[G] \in Seq(Node) /\ n \in ToSet(bare.nodes[G])
    BY <1>1, <1>10, <1>11, FieldTypes, LiveFacts
  <2> QED
    BY <2>1, Members
<1>14. r = [bare EXCEPT !.nodes[G] = RemoveFirst(@, n)]
  <2>1. r = Guarded(m, m.owner[n] = G,
             Guarded(bare, Contains(bare.nodes[G], n), [bare EXCEPT !.nodes[G] = RemoveFirst(@, n)]))
    BY DEF RemoveNode, bare, list
  <2>2. ~m.thrown
    BY DEF Good
  <2> QED
    BY <2>1, <2>2, <1>11, <1>13 DEF Guarded
<1>15. NodeRemoved(bare, r, n, {})
  BY <1>10, <1>11, <1>12, <1>14, TakeOutGood
<1> QED
  <2>1. Live(bare) = Live(m)
    BY <1>10, SameTreeOK DEF Good
  <2> QED
    BY <2>1, <1>10, <1>15 DEF NodeRemoved, SameTree, SameGraphs, SameEnds, SameCaches, list

\* r is m without graph G and what is in it.
GraphRemoved(m, r, G) ==
  /\ Good(r) /\ Graphs(r) = Graphs(m) \ {G} /\ Live(r) = Live(m) \ ToSet(m.nodes[G])
  /\ Known(r) = Known(m) /\ SameEnds(m, r) /\ SameCaches(m, r)
  /\ \A H \in Node : ToSet(r.nodes[H]) = IF H = G THEN {} ELSE ToSet(m.nodes[H])
  /\ r.owner = m.owner /\ r.root = m.root

LEMMA DropGraphGood ==
  ASSUME NEW m, Good(m), NEW G, G \in Graphs(m), G # RootNode, ToSet(m.nodes[G]) = {},
         NEW r, r = Dropped(m, G)
  PROVE  GraphRemoved(m, r, G)
<1>1. m \in Managers /\ ~m.thrown /\ TreeOK(m) /\ EdgesOK(m)
  BY DEF Good
<1>2. G \in Node /\ m.graphs \in Seq(Node)
  BY <1>1, GoodLists
<1>3. /\ r \in Managers /\ r.thrown = m.thrown
      /\ r.graphs = RemoveFirst(m.graphs, G) /\ r.root = m.root
      /\ r.parent = [m.parent EXCEPT ![G] = Null] /\ r.child = [m.child EXCEPT ![G] = Null]
      /\ r.nodes = m.nodes /\ r.owner = m.owner /\ SameEdges(m, r) /\ SameCaches(m, r)
  <2>1. GraphDropped(m, r, G)
    BY <1>1, <1>2, DropGraphFields
  <2> QED
    BY <2>1 DEF GraphDropped
<1>4. IsInjective(r.graphs) /\ Graphs(r) = Graphs(m) \ {G}
  <2>1. IsInjective(m.graphs)
    BY <1>1 DEF TreeOK
  <2> QED
    BY <2>1, <1>2, <1>3, RemoveFirstMembers DEF Graphs
<1>5. Live(r) = Live(m) /\ Known(r) = Known(m)
  BY <1>3 DEF Live, Known, SameEdges
<1>6. ASSUME NEW H \in Node PROVE GraphOK(r, H)
  <2>1. GraphOK(m, H)
    BY <1>1 DEF TreeOK
  <2>2. m.parent \in [Node -> Maybe(Node)] /\ m.child \in [Node -> Maybe(Node)]
    BY <1>1, FieldTypes
  <2>3. r.parent[H] = (IF H \in Graphs(r) THEN H ELSE Null) /\ r.child[H] = (IF H \in Graphs(r) THEN H ELSE Null)
    BY <2>1, <2>2, <1>3, <1>4 DEF GraphOK
  <2>4. \A n \in ToSet(r.nodes[H]) : r.owner[n] = H /\ H \in Graphs(r) /\ n # RootNode
    BY <2>1, <1>3, <1>4 DEF GraphOK
  <2> QED
    BY <2>1, <2>3, <2>4, <1>3 DEF GraphOK
<1>7. TreeOK(r)
  BY <1>1, <1>3, <1>4, <1>6, NodeAssumption DEF TreeOK
<1>8. EdgesOK(r)
  <2>1. InterOK(r)
    BY <1>1, <1>3, <1>5 DEF EdgesOK, InterOK, SameEdges, SameEnds
  <2>2. ASSUME NEW H \in Node PROVE OwnOK(r, H) /\ IncOK(r, H)
    <3>1. OwnOK(m, H) /\ IncOK(m, H)
      BY <1>1 DEF EdgesOK
    <3> QED
      BY <3>1, <1>3, <1>5 DEF OwnOK, IncOK, SameEdges, SameEnds, Ends
  <2> QED
    BY <2>1, <2>2 DEF EdgesOK
<1>9. Good(r)
  BY <1>1, <1>3, <1>7, <1>8 DEF Good
<1>10. \A H \in Node : ToSet(r.nodes[H]) = IF H = G THEN {} ELSE ToSet(m.nodes[H])
  BY <1>3
<1> QED
  BY <1>3, <1>4, <1>5, <1>9, <1>10 DEF GraphRemoved, SameEdges

\* The nodes between which the edges of a graph run have edges.
LEMMA LooseGraph ==
  ASSUME NEW m, Good(m), NEW G, G \in Node, \A n \in ToSet(m.nodes[G]) : ToSet(m.inc[n]) = {}
  PROVE  m.edges[G] = <<>>
<1>1. m \in Managers /\ OwnOK(m, G)
  BY DEF Good, EdgesOK
<1>2. ASSUME NEW e \in ToSet(m.edges[G]) PROVE FALSE
  <2>1. m.source[e] \in ToSet(m.nodes[G])
    BY <1>1 DEF OwnOK
  <2>2. e \in Known(m)
    BY DEF Known
  <2>3. e \in ToSet(m.inc[m.source[e]])
    BY <2>2, EdgeFacts DEF Ends
  <2> QED
    BY <2>1, <2>3
<1>3. m.edges[G] \in Seq(Edge)
  BY <1>1, FieldTypes
<1> QED
  BY <1>2, <1>3, Members

\* A graph whose nodes have no edges is emptied and taken out.
LEMMA RemoveGraphGood ==
  ASSUME NEW m, Good(m), NEW G, G \in Graphs(m), G # RootNode,
         \A n \in ToSet(m.nodes[G]) : ToSet(m.inc[n]) = {},
         NEW r, r = [RemoveGraph(m, G) EXCEPT !.child[G] = Null]
  PROVE  GraphRemoved(m, r, G)
<1> DEFINE list == m.nodes[G]
           N == Len(list)
           I == [k \in 0..N |->
                   {a \in Managers : /\ Good(a) /\ Known(a) = Known(m) /\ Live(a) = Live(m) \ Seen(list, k)
                                     /\ \A H \in Node : ToSet(a.nodes[H]) = ToSet(m.nodes[H]) \ Seen(list, k)
                                     /\ a.owner = m.owner /\ SameGraphs(m, a)
                                     /\ SameEnds(m, a) /\ SameCaches(m, a)}]
           Q(f) == f = [k \in 0..N |-> IF k = 0 THEN m ELSE RemoveNode(f[k - 1], G, list[k])]
           w == CHOOSE f : Q(f)
<1>1. m \in Managers /\ G \in Node
  BY GoodLists DEF Good
<1>2. list \in Seq(Node) /\ IsInjective(list) /\ N \in Nat
  <2>1. list \in Seq(Node)
    BY <1>1, FieldTypes
  <2>2. IsInjective(list)
    BY <1>1 DEF Good, TreeOK, GraphOK
  <2> QED
    BY <2>1, <2>2, Members
<1>3. \A k \in 1..N : list[k] \in Live(m) /\ m.owner[list[k]] = G /\ ToSet(m.inc[list[k]]) = {}
  <2>1. \A k \in 1..N : list[k] \in ToSet(list)
    BY <1>2, Members DEF ToSet
  <2>2. ToSet(list) \subseteq {n \in Live(m) : m.owner[n] = G}
    BY <1>1, LiveFacts
  <2> HIDE DEF list
  <2>3. \A n \in ToSet(list) : ToSet(m.inc[n]) = {}
    BY DEF list
  <2> QED
    BY ONLY <2>1, <2>2, <2>3
<1>4. ToSet(list) \subseteq Live(m) /\ \A H \in Node : H # G => ToSet(m.nodes[H]) \cap ToSet(list) = {}
  BY <1>1, LiveFacts
<1>5. m.edges[G] = <<>>
  BY <1>1, LooseGraph
<1> HIDE DEF list
<1>6. m \in I[0]
  <2>1. Seen(list, 0) = {}
    BY SeenTurns, <1>2
  <2> QED
    BY <1>1, <1>2, <2>1 DEF SameGraphs, SameEnds, SameCaches
<1>7. ASSUME NEW k \in 1..N, NEW a \in I[k - 1] PROVE RemoveNode(a, G, list[k]) \in I[k]
  <2> DEFINE n == list[k]
  <2>1. k \in 0..N /\ k - 1 \in 0..N
    BY <1>2
  <2>2. /\ Good(a) /\ Known(a) = Known(m) /\ Live(a) = Live(m) \ Seen(list, k - 1)
        /\ \A H \in Node : ToSet(a.nodes[H]) = ToSet(m.nodes[H]) \ Seen(list, k - 1)
        /\ a.owner = m.owner /\ SameGraphs(m, a)
        /\ SameEnds(m, a) /\ SameCaches(m, a)
    BY <2>1
  <2>3. Seen(list, k) = Seen(list, k - 1) \cup {n} /\ n \notin Seen(list, k - 1)
    <3> HIDE DEF I, Q, w
    <3> QED
      BY <1>2, SeenTurns
  <2>4. n \in Live(a) /\ a.owner[n] = G /\ n \in Node
    BY <1>3, <2>2, <2>3, LiveFacts
  <2>5. ToSet(a.inc[n]) = {}
    <3>1. \A e \in ToSet(a.inc[n]) : e \in Known(m) /\ n \in Ends(a, e)
      BY <2>2, <2>4, IncFacts
    <3>2. \A e \in ToSet(a.inc[n]) : n \in Ends(m, e)
      BY <3>1, <2>2 DEF SameEnds, Ends
    <3>3. \A e \in ToSet(a.inc[n]) : e \in ToSet(m.inc[n])
      BY <3>1, <3>2, EdgeFacts
    <3> QED
      BY <3>3, <1>3
  <2> DEFINE b == RemoveNode(a, G, n)
  <2>6. NodeRemoved(a, b, n, ToSet(a.inc[n]))
    <3> HIDE DEF I, Q, w, n
    <3> QED
      BY <2>2, <2>4, RemoveNodeGood
  <2> HIDE DEF b, n
  <2>7. /\ b \in Managers /\ Good(b) /\ Known(b) = Known(m) /\ Live(b) = Live(m) \ Seen(list, k)
        /\ \A H \in Node : ToSet(b.nodes[H]) = ToSet(m.nodes[H]) \ Seen(list, k)
        /\ b.owner = m.owner
    BY <2>2, <2>3, <2>5, <2>6 DEF NodeRemoved, Good
  <2>8. SameGraphs(m, b) /\ SameEnds(m, b) /\ SameCaches(m, b)
    BY <2>2, <2>6 DEF NodeRemoved, SameGraphs, SameEnds, SameCaches
  <2>9. b \in I[k]
    BY <2>1, <2>7, <2>8
  <2> QED
    BY <2>9 DEF b, n
<1>8. \E f : Q(f)
  <2> DEFINE X == UNION {I[k] : k \in 0..N}
             F == [p \in X \X (1..N) |-> RemoveNode(p[1], G, list[p[2]])]
  <2>1. \A k \in 1..N : \A a \in I[k - 1] : F[<<a, k>>] = RemoveNode(a, G, list[k])
    <3> SUFFICES ASSUME NEW k \in 1..N, NEW a \in I[k - 1] PROVE F[<<a, k>>] = RemoveNode(a, G, list[k])
      OBVIOUS
    <3>1. k - 1 \in 0..N
      BY <1>2
    <3> HIDE DEF I
    <3>2. a \in X
      BY <3>1
    <3> HIDE DEF X
    <3> QED
      BY <3>2
  <2> HIDE DEF I, F
  <2>2. \A k \in 1..N : \A a \in I[k - 1] : F[<<a, k>>] \in I[k]
    BY <2>1, <1>7
  <2>3. PICK g : IsRun(g, N, m, F, I)
    BY <1>2, <1>6, <2>2, RunExists
  <2>4. /\ g = [k \in 0..N |-> g[k]] /\ g[0] = m
        /\ \A k \in 1..N : g[k] = F[<<g[k - 1], k>>]
        /\ \A k \in 0..N : g[k] \in I[k]
    BY <2>3 DEF IsRun
  <2>5. ASSUME NEW k \in 1..N PROVE g[k] = RemoveNode(g[k - 1], G, list[k])
    <3>1. k - 1 \in 0..N
      BY <1>2
    <3> QED
      BY <3>1, <2>1, <2>4
  <2>6. ASSUME NEW k \in 0..N PROVE g[k] = IF k = 0 THEN m ELSE RemoveNode(g[k - 1], G, list[k])
    <3>1. k = 0 \/ k \in 1..N
      BY <1>2
    <3> QED
      BY <2>4, <2>5, <3>1
  <2>7. Q(g)
    <3> HIDE DEF N
    <3> QED
      BY <2>4, <2>6
  <2> QED
    BY <2>7
<1>9. Q(w)
  <2> HIDE DEF Q
  <2> QED
    BY <1>8
<1>10. w[N] \in I[N]
  <2> HIDE DEF w
  <2>1. w[0] = m /\ \A k \in 1..N : w[k] = RemoveNode(w[k - 1], G, list[k])
    BY <1>2, <1>9
  <2> HIDE DEF I, Q
  <2> QED
    BY <1>2, <1>6, <1>7, <2>1, Turns

<1>11. InTurn(LAMBDA a, n : RemoveNode(a, G, n), m, list) = w[N]
  BY DEF InTurn
<1>12. InTurn(LAMBDA a, e : RemoveOwnEdge(a, G, e), m, m.edges[G]) = m
  <2> DEFINE R(f) == f = [k \in 0..Len(<<>>) |-> IF k = 0 THEN m ELSE RemoveOwnEdge(f[k - 1], G, (<<>>)[k])]
             z == [k \in 0..0 |-> m]
             v == CHOOSE f : R(f)
  <2>1. Len(<<>>) = 0
    BY NoMembers
  <2>2. R(z)
    BY <2>1
  <2>3. R(v)
    <3> HIDE DEF R
    <3> QED
      BY <2>2
  <2>4. v[Len(<<>>)] = m
    <3> HIDE DEF v
    <3> QED
      BY <2>1, <2>3
  <2>5. InTurn(LAMBDA a, e : RemoveOwnEdge(a, G, e), m, <<>>) = v[Len(<<>>)]
    BY DEF InTurn
  <2> QED
    BY <2>4, <2>5, <1>5
<1> DEFINE empty == InTurn(LAMBDA a, n : RemoveNode(a, G, n), m, list)
<1>13. /\ Good(empty) /\ Known(empty) = Known(m) /\ Live(empty) = Live(m) \ ToSet(list)
       /\ \A H \in Node : ToSet(empty.nodes[H]) = ToSet(m.nodes[H]) \ ToSet(list)
       /\ empty.owner = m.owner /\ SameGraphs(m, empty)
       /\ SameEnds(m, empty) /\ SameCaches(m, empty)
  <2>1. N \in 0..N /\ Seen(list, N) = ToSet(list)
    BY <1>2, SeenTurns
  <2> HIDE DEF w
  <2> QED
    BY <2>1, <1>10, <1>11
<1>14. RemoveGraph(m, G) = Guarded(m, m.parent[G] # Null,
             Guarded(empty, G # m.root, [empty EXCEPT !.graphs = RemoveFirst(@, G), !.parent[G] = Null]))
  BY <1>12 DEF RemoveGraph, list
<1> HIDE DEF empty, I, Q, w
<1>15. r = Dropped(empty, G)
  <2>1. ~m.thrown /\ ~empty.thrown
    BY <1>13 DEF Good
  <2>2. m.parent[G] # Null /\ G # m.root
    BY <1>1, LiveFacts, NodeAssumption
  <2> QED
    BY <2>1, <2>2, <1>14 DEF Guarded, Dropped
<1>16. G \in Graphs(empty) /\ ToSet(empty.nodes[G]) = {} /\ Graphs(empty) = Graphs(m)
  BY <1>1, <1>13 DEF SameGraphs, Graphs, list
<1>17. GraphRemoved(empty, r, G)
  BY <1>13, <1>15, <1>16, DropGraphGood
<1>18. \A H \in Node : ToSet(r.nodes[H]) = IF H = G THEN {} ELSE ToSet(m.nodes[H])
  BY <1>4, <1>13, <1>17 DEF GraphRemoved
<1> QED
  BY <1>13, <1>16, <1>17, <1>18 DEF GraphRemoved, SameGraphs, SameEnds, SameCaches, list

(***************************************************************************)
(* The lists of all nodes and of all edges.                                *)
(***************************************************************************)
\* For each name one list of things, and no thing in two places.
Listing(f, D, S) ==
  /\ f \in [D -> Seq(S)] /\ \A G \in D : IsInjective(f[G])
  /\ \A G, H \in D : G # H => ToSet(f[G]) \cap ToSet(f[H]) = {}

Joint(t, f, s, S) ==
  t \in Seq(S) /\ IsInjective(t) /\ ToSet(t) = UNION {ToSet(f[G]) : G \in ToSet(s)}

LEMMA ListPerMember ==
  ASSUME NEW D, NEW S, NEW s, s \in Seq(D), IsInjective(s), NEW f, Listing(f, D, S),
         NEW ss, ss = [i \in DOMAIN s |-> f[s[i]]]
  PROVE  Joint(FlattenSeq(ss), f, s, S)
<1>0. /\ f \in [D -> Seq(S)] /\ \A G \in D : IsInjective(f[G])
      /\ \A G, H \in D : G # H => ToSet(f[G]) \cap ToSet(f[H]) = {}
  BY DEF Listing
<1>1. Len(s) \in Nat /\ DOMAIN s = 1..Len(s) /\ \A i \in DOMAIN s : s[i] \in D /\ s[i] \in ToSet(s)
  BY Members DEF ToSet
<1>2. ss \in Seq(Seq(S)) /\ DOMAIN ss = DOMAIN s /\ \A i \in DOMAIN s : ss[i] = f[s[i]]
  BY <1>0, <1>1
<1>3. \A i, j \in DOMAIN s : i # j => s[i] # s[j]
  BY DEF IsInjective
<1>4. AllApart(ss)
  BY <1>0, <1>1, <1>2, <1>3 DEF AllApart
<1>5. FlattenSeq(ss) \in Seq(S) /\ IsInjective(FlattenSeq(ss))
      /\ ToSet(FlattenSeq(ss)) = UNION {ToSet(ss[i]) : i \in DOMAIN ss}
  BY ONLY <1>2, <1>4, FlattenMembers
<1>6. UNION {ToSet(ss[i]) : i \in DOMAIN ss} = UNION {ToSet(f[G]) : G \in ToSet(s)}
  <2>1. ASSUME NEW i \in DOMAIN ss PROVE ToSet(ss[i]) \subseteq UNION {ToSet(f[G]) : G \in ToSet(s)}
    <3>1. s[i] \in ToSet(s) /\ ToSet(ss[i]) = ToSet(f[s[i]])
      BY <1>1, <1>2
    <3> QED
      BY ONLY <3>1
  <2>2. ASSUME NEW G \in ToSet(s) PROVE ToSet(f[G]) \subseteq UNION {ToSet(ss[i]) : i \in DOMAIN ss}
    <3>1. PICK i \in DOMAIN s : s[i] = G
      BY DEF ToSet
    <3>2. i \in DOMAIN ss /\ ToSet(ss[i]) = ToSet(f[G])
      BY <3>1, <1>2
    <3> QED
      BY ONLY <3>2
  <2>3. UNION {ToSet(ss[i]) : i \in DOMAIN ss} \subseteq UNION {ToSet(f[G]) : G \in ToSet(s)}
    BY ONLY <2>1
  <2>4. UNION {ToSet(f[G]) : G \in ToSet(s)} \subseteq UNION {ToSet(ss[i]) : i \in DOMAIN ss}
    BY ONLY <2>2
  <2> QED
    BY ONLY <2>3, <2>4
<1> QED
  BY <1>5, <1>6 DEF Joint

LEMMA LiveLists ==
  ASSUME NEW m, Good(m)
  PROVE  /\ LiveNodes(m) \in Seq(Node) /\ IsInjective(LiveNodes(m)) /\ ToSet(LiveNodes(m)) = Live(m)
         /\ LiveEdges(m) \in Seq(Edge) /\ IsInjective(LiveEdges(m)) /\ ToSet(LiveEdges(m)) = Known(m)
<1>1. m \in Managers /\ TreeOK(m) /\ EdgesOK(m)
  BY DEF Good
<1>2. /\ m.graphs \in Seq(Node) /\ IsInjective(m.graphs) /\ ToSet(m.graphs) \subseteq Node
      /\ m.nodes \in [Node -> Seq(Node)] /\ m.edges \in [Node -> Seq(Edge)] /\ m.inter \in Seq(Edge)
  BY <1>1, FieldTypes, Members DEF TreeOK
<1>3. /\ \A G \in Node : IsInjective(m.nodes[G]) /\ IsInjective(m.edges[G])
      /\ IsInjective(m.inter)
  BY <1>1 DEF TreeOK, GraphOK, EdgesOK, OwnOK, InterOK
<1>4. ASSUME NEW G \in Node, NEW H \in Node, G # H PROVE ToSet(m.nodes[G]) \cap ToSet(m.nodes[H]) = {}
  BY <1>1, <1>4 DEF TreeOK, GraphOK
<1>5. ASSUME NEW G \in Node, NEW e \in ToSet(m.edges[G])
      PROVE  e \notin ToSet(m.inter) /\ m.source[e] \in ToSet(m.nodes[G]) /\ G \in ToSet(m.graphs)
  <2>1. ~m.isInter[e] /\ m.source[e] \in ToSet(m.nodes[G])
    BY <1>1 DEF EdgesOK, OwnOK
  <2>2. e \notin ToSet(m.inter)
    BY <1>1, <2>1 DEF EdgesOK, InterOK
  <2>3. G \in ToSet(m.graphs)
    BY <1>1, <2>1 DEF TreeOK, GraphOK, Graphs
  <2> QED
    BY <2>1, <2>2, <2>3
<1>6. ASSUME NEW G \in Node, NEW H \in Node, G # H PROVE ToSet(m.edges[G]) \cap ToSet(m.edges[H]) = {}
  BY <1>4, <1>5, <1>6
<1>7. \A G \in Node : ToSet(m.nodes[G]) # {} => G \in ToSet(m.graphs)
  BY <1>1 DEF TreeOK, GraphOK, Graphs
<1>8. LiveNodes(m) \in Seq(Node) /\ IsInjective(LiveNodes(m))
      /\ ToSet(LiveNodes(m)) = UNION {ToSet(m.nodes[G]) : G \in ToSet(m.graphs)}
  <2> DEFINE ss == [i \in DOMAIN m.graphs |-> m.nodes[m.graphs[i]]]
  <2>1. Listing(m.nodes, Node, Node)
    BY <1>2, <1>3, <1>4 DEF Listing
  <2>2. ss = [i \in DOMAIN m.graphs |-> m.nodes[m.graphs[i]]] /\ LiveNodes(m) = FlattenSeq(ss)
    BY DEF LiveNodes
  <2> HIDE DEF ss
  <2>3. Joint(FlattenSeq(ss), m.nodes, m.graphs, Node)
    BY <1>2, <2>1, <2>2, ListPerMember
  <2> QED
    BY <2>2, <2>3 DEF Joint
<1>9. ToSet(LiveNodes(m)) = Live(m)
  <2>1. Live(m) \subseteq UNION {ToSet(m.nodes[G]) : G \in ToSet(m.graphs)}
    BY <1>7 DEF Live
  <2>2. UNION {ToSet(m.nodes[G]) : G \in ToSet(m.graphs)} \subseteq Live(m)
    BY <1>2 DEF Live
  <2> QED
    BY <1>8, <2>1, <2>2
<1> DEFINE own == FlattenSeq([i \in DOMAIN m.graphs |-> m.edges[m.graphs[i]]])
<1>10. own \in Seq(Edge) /\ IsInjective(own)
       /\ ToSet(own) = UNION {ToSet(m.edges[G]) : G \in ToSet(m.graphs)}
  <2> DEFINE ss == [i \in DOMAIN m.graphs |-> m.edges[m.graphs[i]]]
  <2>1. Listing(m.edges, Node, Edge)
    BY <1>2, <1>3, <1>6 DEF Listing
  <2>2. ss = [i \in DOMAIN m.graphs |-> m.edges[m.graphs[i]]] /\ own = FlattenSeq(ss)
    OBVIOUS
  <2> HIDE DEF ss, own
  <2>3. Joint(FlattenSeq(ss), m.edges, m.graphs, Edge)
    BY <1>2, <2>1, <2>2, ListPerMember
  <2> QED
    BY <2>2, <2>3 DEF Joint
<1>11. LiveEdges(m) = own \o m.inter
  BY DEF LiveEdges
<1> HIDE DEF own
<1>12. ToSet(own) = UNION {ToSet(m.edges[G]) : G \in Node}
  <2>1. UNION {ToSet(m.edges[G]) : G \in Node} \subseteq UNION {ToSet(m.edges[G]) : G \in ToSet(m.graphs)}
    BY <1>5
  <2>2. UNION {ToSet(m.edges[G]) : G \in ToSet(m.graphs)} \subseteq UNION {ToSet(m.edges[G]) : G \in Node}
    BY <1>2
  <2> QED
    BY <1>10, <2>1, <2>2
<1>13. ToSet(own) \cap ToSet(m.inter) = {}
  BY <1>5, <1>12
<1>14. LiveEdges(m) \in Seq(Edge) /\ IsInjective(LiveEdges(m)) /\ ToSet(LiveEdges(m)) = Known(m)
  <2>1. /\ own \o m.inter \in Seq(Edge) /\ ToSet(own \o m.inter) = ToSet(own) \cup ToSet(m.inter)
        /\ IsInjective(own \o m.inter)
    BY <1>2, <1>3, <1>10, <1>13, ConcatMembers
  <2> QED
    BY <2>1, <1>11, <1>12 DEF Known
<1> QED
  BY <1>8, <1>9, <1>14

\* The form the proofs carry along gives the one that is checked.
LEMMA GoodIsWellFormed ==
  ASSUME NEW m, Good(m)
  PROVE  ~m.thrown /\ TreeOfGraphs(m) /\ EdgesInPlace(m)
<1>1. m \in Managers /\ TreeOK(m) /\ EdgesOK(m) /\ ~m.thrown
  BY DEF Good
<1>2. /\ m.graphs \in Seq(Node) /\ ToSet(m.graphs) \subseteq Node /\ m.inter \in Seq(Edge)
      /\ \A n \in Node : m.edges[n] \in Seq(Edge)
  BY <1>1, GoodLists DEF Graphs
<1>3. TreeOfGraphs(m)
  <2>1. IsInjective(m.graphs) /\ Contains(m.graphs, m.root)
    BY <1>1, <1>2, Members DEF TreeOK, Graphs
  <2>2. ASSUME NEW G \in ToSet(m.graphs)
        PROVE  /\ IsInjective(m.nodes[G]) /\ m.parent[G] # Null /\ m.child[m.parent[G]] = G
               /\ \A n \in ToSet(m.nodes[G]) : m.owner[n] = G
    <3>1. GraphOK(m, G) /\ G \in Node /\ G \in Graphs(m)
      BY <1>1, <1>2 DEF TreeOK, Graphs
    <3> QED
      BY <3>1, NodeAssumption DEF GraphOK
  <2>3. ASSUME NEW n \in Node, m.child[n] # Null PROVE Contains(m.graphs, m.child[n])
    <3>1. GraphOK(m, n)
      BY <1>1 DEF TreeOK
    <3>2. m.child[n] = n /\ n \in ToSet(m.graphs)
      BY <3>1, <2>3 DEF GraphOK, Graphs
    <3> QED
      BY <3>2, <1>2, Members
  <2> QED
    BY <2>1, <2>2, <2>3 DEF TreeOfGraphs
<1>4. EdgesInPlace(m)
  <2>1. /\ IsInjective(LiveEdges(m)) /\ ToSet(LiveEdges(m)) = Known(m) /\ ToSet(LiveNodes(m)) = Live(m)
    BY LiveLists
  <2>2. ASSUME NEW e \in Known(m)
        PROVE  /\ Ends(m, e) \subseteq Live(m)
               /\ m.isInter[e] <=> Contains(m.inter, e)
               /\ m.isInter[e] <=> m.owner[m.source[e]] # m.owner[m.target[e]]
               /\ ~m.isInter[e] => Contains(m.edges[m.owner[m.source[e]]], e)
    <3>1. /\ m.source[e] \in Live(m) /\ m.target[e] \in Live(m)
          /\ m.isInter[e] <=> e \in ToSet(m.inter)
          /\ m.isInter[e] <=> m.owner[m.source[e]] # m.owner[m.target[e]]
          /\ ~m.isInter[e] => e \in ToSet(m.edges[m.owner[m.source[e]]])
      BY EdgeFacts
    <3>2. m.owner[m.source[e]] \in Node
      BY <3>1, LiveFacts
    <3>3. m.edges[m.owner[m.source[e]]] \in Seq(Edge)
      BY <3>2, <1>2
    <3>4. Contains(m.inter, e) <=> e \in ToSet(m.inter)
      BY <1>2, Members
    <3>5. Contains(m.edges[m.owner[m.source[e]]], e) <=> e \in ToSet(m.edges[m.owner[m.source[e]]])
      BY <3>3, Members
    <3> QED
      BY <3>1, <3>4, <3>5 DEF Ends
  <2>3. ASSUME NEW n \in Live(m)
        PROVE  IsInjective(m.inc[n]) /\ ToSet(m.inc[n]) = {e \in Known(m) : n \in Ends(m, e)}
    <3>1. n \in Node
      BY LiveFacts
    <3>2. IncOK(m, n) /\ ToSet(m.inc[n]) \subseteq Edge /\ Known(m) \subseteq Edge
      BY <3>1, <1>1, GoodLists DEF EdgesOK
    <3> QED
      BY <3>2 DEF IncOK
  <2> QED
    BY <2>1, <2>2, <2>3 DEF EdgesInPlace
<1> QED
  BY <1>1, <1>3, <1>4

(***************************************************************************)
(* The nodes in a node, and the tree below it.                             *)
(***************************************************************************)
LEMMA WiderSeq ==
  ASSUME NEW T, NEW S, T \subseteq S, NEW s, s \in Seq(T)
  PROVE  s \in Seq(S)
OBVIOUS

NoCaches(a) == a.allNodes = Null /\ a.allEdges = Null /\ a.gravity = Null

LEMMA NewManagerFields ==
  /\ NewManager \in Managers /\ ~NewManager.thrown /\ NoCaches(NewManager)
  /\ NewManager.graphs = <<>> /\ NewManager.inter = <<>> /\ NewManager.root = Null
  /\ \A n \in Node : /\ NewManager.nodes[n] = <<>> /\ NewManager.edges[n] = <<>>
                     /\ NewManager.inc[n] = <<>> /\ NewManager.parent[n] = Null
                     /\ NewManager.owner[n] = Null /\ NewManager.child[n] = Null
<1> DEFINE a == NewManager
<1>1. /\ a.graphs = <<>> /\ a.root = Null /\ a.inter = <<>>
      /\ a.nodes = [n \in Node |-> <<>>] /\ a.edges = [n \in Node |-> <<>>]
      /\ a.parent = [n \in Node |-> Null] /\ a.owner = [n \in Node |-> Null]
      /\ a.child = [n \in Node |-> Null] /\ a.inc = [n \in Node |-> <<>>]
      /\ a.source = [e \in Edge |-> Null] /\ a.target = [e \in Edge |-> Null]
      /\ a.isInter = [e \in Edge |-> FALSE]
      /\ a.allNodes = Null /\ a.allEdges = Null /\ a.gravity = Null /\ a.thrown = FALSE
  BY DEF NewManager
<1>2. IsRecord(a)
  BY DEF NewManager, IsRecord, Fields
<1> HIDE DEF a
<1>3. <<>> \in NodeLists /\ <<>> \in EdgeLists
  BY EmptySeq DEF NodeLists, EdgeLists
<1>4. FieldsOK(a)
  BY <1>1, <1>3 DEF FieldsOK, Maybe
<1>5. a \in Managers
  BY <1>2, <1>4, IsManager
<1> QED
  BY <1>1, <1>5 DEF a, NoCaches

\* What a manager knows once the nodes of the set V have been dealt with.
Root(r) ==
  /\ Good(r) /\ Graphs(r) = {RootNode} /\ Live(r) = {} /\ Known(r) = {} /\ NoCaches(r)
  /\ \A n \in Node : r.owner[n] = Null

LEMMA AddRootGood == Root(AddRoot(NewManager))
<1> DEFINE a == NewManager
           b == AddGraph(a, RootNode)
           r == AddRoot(NewManager)
<1>1. a \in Managers /\ ~a.thrown /\ a.parent[RootNode] = Null /\ a.child[RootNode] = Null
      /\ ~Contains(a.graphs, RootNode) /\ RootNode \in Node
  <2>1. a.graphs = <<>> /\ a.graphs \in Seq(Node)
    BY NewManagerFields, FieldTypes
  <2> QED
    BY <2>1, NewManagerFields, NodeAssumption, Members
<1>2. r = [b EXCEPT !.root = RootNode]
  BY DEF AddRoot
<1> HIDE DEF a, b, r
<1>3. /\ b \in Managers /\ ~b.thrown
      /\ b.graphs = Append(a.graphs, RootNode) /\ b.root = a.root
      /\ b.parent = [a.parent EXCEPT ![RootNode] = RootNode]
      /\ b.child = [a.child EXCEPT ![RootNode] = RootNode]
      /\ b.nodes = a.nodes /\ b.owner = a.owner /\ SameEdges(a, b) /\ SameCaches(a, b)
  <2>1. b = AddGraph(a, RootNode)
    BY DEF b
  <2> QED
    BY <2>1, <1>1, AddGraphFields
<1>4. /\ r.thrown = b.thrown /\ r.graphs = b.graphs /\ r.root = RootNode /\ r.parent = b.parent
      /\ r.child = b.child /\ r.nodes = b.nodes /\ r.owner = b.owner
      /\ SameEdges(b, r) /\ SameCaches(b, r) /\ IsRecord(r)
  <2>1. DOMAIN b = Fields
    BY <1>3, ManagerFields
  <2> QED
    BY <2>1, <1>2 DEF Fields, IsRecord, SameEdges, SameEnds, SameCaches
<1>5. r \in Managers
  <2>1. FieldsOK(b)
    BY <1>3, ManagerFields
  <2>2. FieldsOK(r)
    BY <2>1, <1>1, <1>4 DEF FieldsOK, Maybe, SameEdges, SameEnds, SameCaches
  <2> QED
    BY <2>2, <1>4, IsManager
<1>6. \A n \in Node : /\ r.nodes[n] = <<>> /\ r.edges[n] = <<>> /\ r.inc[n] = <<>> /\ r.owner[n] = Null
                      /\ r.parent[n] = (IF n = RootNode THEN RootNode ELSE Null)
                      /\ r.child[n] = (IF n = RootNode THEN RootNode ELSE Null)
  <2>1. /\ r.nodes = a.nodes /\ r.edges = a.edges /\ r.inc = a.inc /\ r.owner = a.owner
        /\ r.parent = [a.parent EXCEPT ![RootNode] = RootNode]
        /\ r.child = [a.child EXCEPT ![RootNode] = RootNode]
    BY <1>3, <1>4 DEF SameEdges
  <2>2. \A n \in Node : /\ a.nodes[n] = <<>> /\ a.edges[n] = <<>> /\ a.inc[n] = <<>>
                        /\ a.parent[n] = Null /\ a.owner[n] = Null /\ a.child[n] = Null
    BY NewManagerFields DEF a
  <2>3. a.parent \in [Node -> Maybe(Node)] /\ a.child \in [Node -> Maybe(Node)]
    BY <1>1, FieldTypes
  <2> QED
    BY <2>1, <2>2, <2>3
<1>7. r.inter = <<>> /\ NoCaches(r) /\ ~r.thrown
  <2>1. a.inter = <<>> /\ NoCaches(a)
    BY NewManagerFields DEF a
  <2> QED
    BY <2>1, <1>3, <1>4 DEF SameEdges, NoCaches, SameCaches
<1>8. Graphs(r) = {RootNode} /\ IsInjective(r.graphs)
  <2>1. r.graphs = Append(<<>>, RootNode) /\ <<>> \in Seq(Node) /\ ToSet(<<>>) = {} /\ IsInjective(<<>>)
    <3>1. a.graphs = <<>>
      BY NewManagerFields DEF a
    <3> QED
      BY <3>1, <1>3, <1>4, NoMembers, EmptySeq
  <2>2. ToSet(r.graphs) = {RootNode} /\ IsInjective(r.graphs)
    <3> DEFINE none == <<>>
    <3>1. /\ none \in Seq(Node) /\ IsInjective(none) /\ ToSet(none) = {} /\ RootNode \in Node
          /\ r.graphs = Append(none, RootNode)
      BY <2>1, <1>1
    <3> HIDE DEF none
    <3> QED
      BY <3>1, AppendMembers
  <2> QED
    BY <2>2 DEF Graphs
<1>9. ToSet(<<>>) = {} /\ IsInjective(<<>>)
  BY NoMembers
<1>10. Live(r) = {} /\ Known(r) = {}
  <2>1. \A n \in Node : ToSet(r.nodes[n]) = {} /\ ToSet(r.edges[n]) = {}
    BY <1>6, <1>9
  <2>2. ToSet(r.inter) = {}
    BY <1>7, <1>9
  <2> QED
    BY <2>1, <2>2 DEF Live, Known
<1>11. TreeOK(r)
  <2>1. ASSUME NEW G \in Node PROVE GraphOK(r, G)
    BY <1>6, <1>8, <1>9 DEF GraphOK
  <2> QED
    BY <2>1, <1>4, <1>8 DEF TreeOK
<1>12. EdgesOK(r)
  <2>1. InterOK(r)
    BY <1>7, <1>9 DEF InterOK
  <2>2. \A n \in Node : OwnOK(r, n)
    BY <1>6, <1>9 DEF OwnOK
  <2>3. \A n \in Node : IncOK(r, n)
    BY <1>6, <1>9, <1>10 DEF IncOK
  <2> QED
    BY <2>1, <2>2, <2>3 DEF EdgesOK
<1>13. Good(r)
  BY <1>5, <1>7, <1>11, <1>12 DEF Good
<1>14. Root(r)
  BY <1>6, <1>7, <1>8, <1>10, <1>13 DEF Root
<1> QED
  BY <1>14 DEF r

KidsOf(a) == [n \in Node |-> Children(a, n)]

LEMMA ChildrenFacts ==
  ASSUME NEW a, Good(a), NEW n, n \in Node
  PROVE  /\ Children(a, n) = IF n \in Graphs(a) THEN a.nodes[n] ELSE <<>>
         /\ Children(a, n) \in Seq(Node) /\ IsInjective(Children(a, n))
         /\ \A k : k \in ToSet(Children(a, n)) <=> k \in Live(a) /\ ParentOf(a, k) = n
<1>1. a \in Managers /\ GraphOK(a, n)
  BY DEF Good, TreeOK
<1>2. Children(a, n) = IF n \in Graphs(a) THEN a.nodes[n] ELSE <<>>
  BY <1>1, NodeAssumption DEF Children, GraphOK
<1>3. a.nodes[n] \in Seq(Node) /\ IsInjective(a.nodes[n])
  BY <1>1, FieldTypes DEF GraphOK
<1>4. ASSUME NEW k PROVE k \in ToSet(a.nodes[n]) <=> k \in Live(a) /\ ParentOf(a, k) = n
  <2>1. k \in ToSet(a.nodes[n]) => k \in Live(a) /\ a.owner[k] = n
    BY LiveFacts
  <2>2. k \in Live(a) => ParentOf(a, k) = a.owner[k] /\ k \in ToSet(a.nodes[a.owner[k]])
    BY LiveFacts
  <2> QED
    BY <2>1, <2>2
<1>5. \A k \in ToSet(a.nodes[n]) : n \in Graphs(a)
  BY <1>1 DEF GraphOK
<1>6. CASE n \in Graphs(a)
  BY <1>2, <1>3, <1>4, <1>6
<1>7. CASE n \notin Graphs(a)
  <2>1. ToSet(a.nodes[n]) = {} /\ Children(a, n) = <<>>
    BY <1>2, <1>5, <1>7
  <2>2. <<>> \in Seq(Node) /\ IsInjective(<<>>) /\ ToSet(<<>>) = {}
    BY NoMembers, EmptySeq
  <2> QED
    BY <2>1, <2>2, <1>2, <1>4, <1>7
<1> QED
  BY <1>6, <1>7

LEMMA TreeForest ==
  ASSUME NEW a, Good(a), Ranked(a)
  PROVE  \E h : Forest(Node, KidsOf(a), Up(a), h)
<1>1. PICK h : IsHeight(h, Node, Up(a))
  BY HeightExists, NodeAssumption DEF Ranked
<1>2. ASSUME NEW n \in Node
      PROVE  /\ KidsOf(a)[n] \in Seq(Node) /\ IsInjective(KidsOf(a)[n])
             /\ \A k \in ToSet(KidsOf(a)[n]) : Up(a)[k] = n /\ h[k] < h[n]
  <2>1. KidsOf(a)[n] = Children(a, n)
    BY DEF KidsOf
  <2>2. ASSUME NEW k \in ToSet(Children(a, n)) PROVE Up(a)[k] = n /\ h[k] < h[n]
    <3>1. k \in Live(a) /\ ParentOf(a, k) = n
      BY ChildrenFacts
    <3>2. k \in Node
      BY <3>1, LiveFacts
    <3>3. Up(a)[k] = n
      BY <3>1, <3>2 DEF Up
    <3> QED
      BY <3>2, <3>3, <1>1 DEF IsHeight
  <2> QED
    BY <2>1, <2>2, ChildrenFacts
<1>3. KidsOf(a) \in [Node -> Seq(Node)] /\ h \in [Node -> Nat] /\ WellFounded(Node, Up(a))
  <2>1. KidsOf(a) = [n \in Node |-> KidsOf(a)[n]]
    BY DEF KidsOf
  <2> QED
    BY <1>1, <1>2, <2>1 DEF IsHeight, Ranked
<1> QED
  BY <1>2, <1>3 DEF Forest

\* A node is among what withChildren() returns.
LEMMA WithChildrenBelow ==
  ASSUME NEW a, Good(a), Ranked(a)
  PROVE  \E b : IsBelow(b, Node, KidsOf(a)) /\ \A n \in Node : WithChildren(a, n) = b[n]
<1> DEFINE Q(b) == b = [k \in Node |-> {k} \cup UNION {b[c] : c \in ToSet(Children(a, k))}]
           w == CHOOSE b : Q(b)
<1>1. \A b : Q(b) <=> IsBelow(b, Node, KidsOf(a))
  <2>1. \A k \in Node : KidsOf(a)[k] = Children(a, k)
    BY DEF KidsOf
  <2> QED
    BY <2>1 DEF IsBelow
<1>2. \E b : Q(b)
  <2>1. PICK h : Forest(Node, KidsOf(a), Up(a), h)
    BY TreeForest
  <2>2. \E b : IsBelow(b, Node, KidsOf(a))
    BY <2>1, BelowExists
  <2> HIDE DEF Q
  <2> QED
    BY <2>2, <1>1
<1>3. Q(w)
  <2> HIDE DEF Q
  <2> QED
    BY <1>2
<1>4. \A n \in Node : WithChildren(a, n) = w[n]
  BY DEF WithChildren
<1>5. IsBelow(w, Node, KidsOf(a))
  <2> HIDE DEF Q, w
  <2> QED
    BY <1>1, <1>3
<1> HIDE DEF w
<1> QED
  BY <1>4, <1>5

\* As long as the edges are the same, the lists of incident edges are.
LEMMA SameIncident ==
  ASSUME NEW a, Good(a), NEW b, Good(b), Known(b) = Known(a), SameEnds(a, b)
  PROVE  \A n \in Node : ToSet(b.inc[n]) = ToSet(a.inc[n])
<1> SUFFICES ASSUME NEW n \in Node PROVE ToSet(b.inc[n]) = ToSet(a.inc[n])
  OBVIOUS
<1>1. IncOK(a, n) /\ IncOK(b, n) /\ ToSet(a.inc[n]) \subseteq Edge /\ ToSet(b.inc[n]) \subseteq Edge
  BY GoodLists DEF Good, EdgesOK
<1>2. \A e \in Edge : Ends(b, e) = Ends(a, e)
  BY DEF SameEnds, Ends
<1> QED
  BY <1>1, <1>2 DEF IncOK

(***************************************************************************)
(* What renews a cache changes nothing else. The walk through the tree     *)
(* that lists what is inside a node before the node.                       *)
(***************************************************************************)
Alike(a, b) == b \in Managers /\ b.thrown = a.thrown /\ SameTree(a, b) /\ SameEdges(a, b)

\* b is a with these caches.
Cached(a, b, x, y, z) == Alike(a, b) /\ b.allNodes = x /\ b.allEdges = y /\ b.gravity = z

LEMMA CacheForms ==
  ASSUME NEW a, a \in Managers, NEW x, x \in Maybe(NodeLists), NEW y, y \in Maybe(EdgeLists)
  PROVE  /\ Cached(a, [a EXCEPT !.allNodes = x], x, a.allEdges, a.gravity)
         /\ Cached(a, [a EXCEPT !.allEdges = y], a.allNodes, y, a.gravity)
         /\ Cached(a, [a EXCEPT !.gravity = x], a.allNodes, a.allEdges, x)
         /\ Cached(a, [a EXCEPT !.allNodes = x, !.allEdges = y], x, y, a.gravity)
<1>1. DOMAIN a = Fields /\ FieldsOK(a)
  BY ManagerFields
<1> DEFINE r1 == [a EXCEPT !.allNodes = x]
           r2 == [a EXCEPT !.allEdges = y]
           r3 == [a EXCEPT !.gravity = x]
           r4 == [a EXCEPT !.allNodes = x, !.allEdges = y]
<1>2. Cached(a, r1, x, a.allEdges, a.gravity)
  <2>1. /\ r1.thrown = a.thrown /\ SameTree(a, r1) /\ SameEdges(a, r1)
        /\ r1.allNodes = x /\ r1.allEdges = a.allEdges /\ r1.gravity = a.gravity
    BY <1>1 DEF Fields, SameTree, SameGraphs, SameEdges, SameEnds
  <2>2. IsRecord(r1)
    BY <1>1 DEF IsRecord
  <2>3. FieldsOK(r1)
    BY <2>1, <1>1 DEF FieldsOK, Maybe, SameTree, SameGraphs, SameEdges, SameEnds
  <2> HIDE DEF r1
  <2> QED
    BY <2>1, <2>2, <2>3, IsManager DEF Cached, Alike
<1>3. Cached(a, r2, a.allNodes, y, a.gravity)
  <2>1. /\ r2.thrown = a.thrown /\ SameTree(a, r2) /\ SameEdges(a, r2)
        /\ r2.allNodes = a.allNodes /\ r2.allEdges = y /\ r2.gravity = a.gravity
    BY <1>1 DEF Fields, SameTree, SameGraphs, SameEdges, SameEnds
  <2>2. IsRecord(r2)
    BY <1>1 DEF IsRecord
  <2>3. FieldsOK(r2)
    BY <2>1, <1>1 DEF FieldsOK, Maybe, SameTree, SameGraphs, SameEdges, SameEnds
  <2> HIDE DEF r2
  <2> QED
    BY <2>1, <2>2, <2>3, IsManager DEF Cached, Alike
<1>4. Cached(a, r3, a.allNodes, a.allEdges, x)
  <2>1. /\ r3.thrown = a.thrown /\ SameTree(a, r3) /\ SameEdges(a, r3)
        /\ r3.allNodes = a.allNodes /\ r3.allEdges = a.allEdges /\ r3.gravity = x
    BY <1>1 DEF Fields, SameTree, SameGraphs, SameEdges, SameEnds
  <2>2. IsRecord(r3)
    BY <1>1 DEF IsRecord
  <2>3. FieldsOK(r3)
    BY <2>1, <1>1 DEF FieldsOK, Maybe, SameTree, SameGraphs, SameEdges, SameEnds
  <2> HIDE DEF r3
  <2> QED
    BY <2>1, <2>2, <2>3, IsManager DEF Cached, Alike
<1>5. Cached(a, r4, x, y, a.gravity)
  <2>1. /\ r4.thrown = a.thrown /\ SameTree(a, r4) /\ SameEdges(a, r4)
        /\ r4.allNodes = x /\ r4.allEdges = y /\ r4.gravity = a.gravity
    BY <1>1 DEF Fields, SameTree, SameGraphs, SameEdges, SameEnds
  <2>2. IsRecord(r4)
    BY <1>1 DEF IsRecord
  <2>3. FieldsOK(r4)
    BY <2>1, <1>1 DEF FieldsOK, Maybe, SameTree, SameGraphs, SameEdges, SameEnds
  <2> HIDE DEF r4
  <2> QED
    BY <2>1, <2>2, <2>3, IsManager DEF Cached, Alike
<1> QED
  BY <1>2, <1>3, <1>4, <1>5

LEMMA AlikeGood ==
  ASSUME NEW a, Good(a), NEW b, Alike(a, b)
  PROVE  /\ Good(b) /\ Live(b) = Live(a) /\ Known(b) = Known(a) /\ Graphs(b) = Graphs(a)
         /\ Up(b) = Up(a) /\ LiveNodes(b) = LiveNodes(a) /\ LiveEdges(b) = LiveEdges(a)
         /\ Ranked(a) => Ranked(b)
         /\ Rooted(a) => Rooted(b)
         /\ Filled(a) => Filled(b)
<1>1. b \in Managers /\ ~b.thrown /\ SameTree(a, b) /\ SameEdges(a, b) /\ TreeOK(a) /\ EdgesOK(a)
  BY DEF Alike, Good
<1>2. TreeOK(b) /\ Live(b) = Live(a) /\ Graphs(b) = Graphs(a)
  BY <1>1, SameTreeOK
<1>3. /\ b.nodes = a.nodes /\ b.owner = a.owner /\ b.parent = a.parent /\ b.graphs = a.graphs
      /\ b.source = a.source /\ b.target = a.target /\ b.isInter = a.isInter
      /\ b.inter = a.inter /\ b.edges = a.edges /\ b.inc = a.inc
  BY <1>1 DEF SameTree, SameGraphs, SameEdges, SameEnds
<1>4. Known(b) = Known(a)
  BY <1>3 DEF Known
<1>5. InterOK(b)
  BY <1>1, <1>2, <1>3 DEF EdgesOK, InterOK
<1>6. \A n \in Node : OwnOK(b, n) /\ IncOK(b, n)
  BY <1>1, <1>3, <1>4 DEF EdgesOK, OwnOK, IncOK, Ends
<1>7. Good(b)
  BY <1>1, <1>2, <1>5, <1>6 DEF Good, EdgesOK
<1>8. Up(b) = Up(a)
  BY <1>3 DEF Up, ParentOf
<1>9. LiveNodes(b) = LiveNodes(a) /\ LiveEdges(b) = LiveEdges(a)
  BY <1>3 DEF LiveNodes, LiveEdges
<1> QED
  BY <1>2, <1>3, <1>4, <1>7, <1>8, <1>9 DEF Ranked, Rooted, Filled

\* A cache that is not out of date.
Fresh(a) == a.allNodes \in {Null, LiveNodes(a)} /\ a.allEdges \in {Null, LiveEdges(a)}

LEMMA FreshLists ==
  ASSUME NEW a, Good(a), Fresh(a)
  PROVE  /\ AllNodes(a) = LiveNodes(a) /\ AllEdges(a) = LiveEdges(a)
         /\ AllNodes(a) \in NodeLists /\ AllEdges(a) \in EdgeLists
<1>1. AllNodes(a) = LiveNodes(a) /\ AllEdges(a) = LiveEdges(a)
  BY DEF Fresh, AllNodes, AllEdges
<1> QED
  BY <1>1, LiveLists DEF NodeLists, EdgeLists

\* getAllNodes and getAllEdges.
LEMMA GetAll ==
  ASSUME NEW a, Good(a), Fresh(a)
  PROVE  /\ Alike(a, GetAllNodes(a)) /\ Fresh(GetAllNodes(a)) /\ GetAllNodes(a).gravity = a.gravity
         /\ GetAllNodes(a).allNodes = LiveNodes(a) /\ GetAllNodes(a).allEdges = a.allEdges
         /\ Alike(a, GetAllEdges(a)) /\ Fresh(GetAllEdges(a)) /\ GetAllEdges(a).gravity = a.gravity
         /\ GetAllEdges(a).allEdges = LiveEdges(a) /\ GetAllEdges(a).allNodes = a.allNodes
<1> DEFINE b == GetAllNodes(a)
           d == GetAllEdges(a)
<1>1. /\ AllNodes(a) = LiveNodes(a) /\ AllEdges(a) = LiveEdges(a)
      /\ AllNodes(a) \in Maybe(NodeLists) /\ AllEdges(a) \in Maybe(EdgeLists)
  BY FreshLists DEF Maybe
<1>2. a \in Managers
  BY DEF Good
<1>3. Cached(a, b, AllNodes(a), a.allEdges, a.gravity)
  BY <1>1, <1>2, CacheForms DEF GetAllNodes
<1>4. Cached(a, d, a.allNodes, AllEdges(a), a.gravity)
  BY <1>1, <1>2, CacheForms DEF GetAllEdges
<1> HIDE DEF b, d
<1>5. Alike(a, b) /\ b.allNodes = LiveNodes(a) /\ b.allEdges = a.allEdges /\ b.gravity = a.gravity
  BY <1>1, <1>3 DEF Cached
<1>6. Alike(a, d) /\ d.allNodes = a.allNodes /\ d.allEdges = LiveEdges(a) /\ d.gravity = a.gravity
  BY <1>1, <1>4 DEF Cached
<1>7. LiveNodes(b) = LiveNodes(a) /\ LiveEdges(b) = LiveEdges(a)
  BY <1>5, AlikeGood
<1>8. LiveNodes(d) = LiveNodes(a) /\ LiveEdges(d) = LiveEdges(a)
  BY <1>6, AlikeGood
<1>9. Fresh(b)
  BY <1>5, <1>7 DEF Fresh
<1>10. Fresh(d)
  BY <1>6, <1>8 DEF Fresh
<1> QED
  BY <1>5, <1>6, <1>9, <1>10 DEF b, d

PostNotes(post, D) == \A n \in D : post[n] \in {<<>>, <<n>>}

LEMMA PostNoted ==
  ASSUME NEW D, NEW post, PostNotes(post, D), NEW pre, pre = [n \in D |-> <<>>]
  PROVE  /\ Notes(D, pre, post) /\ Noted(D, pre, post) = {n \in D : post[n] = <<n>>}
         /\ \A n \in D : post[n] \in Seq(D)
<1>1. \A n \in D : pre[n] = <<>>
  OBVIOUS
<1>2. \A n \in D : <<n>> # <<>> /\ <<n>> \in Seq(D) /\ <<>> \in Seq(D)
  OBVIOUS
<1>3. Notes(D, pre, post)
  BY <1>1 DEF Notes, PostNotes
<1>4. \A n \in D : <<n>> \in {pre[n], post[n]} <=> post[n] = <<n>>
  BY <1>1, <1>2
<1>5. Noted(D, pre, post) = {n \in D : post[n] = <<n>>}
  BY <1>4 DEF Noted
<1> QED
  BY <1>2, <1>3, <1>5 DEF PostNotes

LEMMA PostWalkExists ==
  ASSUME NEW D, NEW kids, NEW up, NEW h, Forest(D, kids, up, h), NEW post, PostNotes(post, D)
  PROVE  \E f : IsPostWalk(f, D, kids, post)
<1> DEFINE pre == [n \in D |-> <<>>]
           L(f, n) == [i \in DOMAIN kids[n] |-> f[kids[n][i]]]
<1>1. Notes(D, pre, post) /\ \A n \in D : post[n] \in Seq(D) /\ pre[n] = <<>>
  BY PostNoted
<1> HIDE DEF pre
<1>2. PICK f : IsWalk(f, D, kids, pre, post)
  BY <1>1, WalkExists
<1>3. PICK b : IsBelow(b, D, kids)
  BY BelowExists
<1>4. \A n \in D : f[n] \in Seq(D)
  BY <1>1, <1>2, <1>3, WalkMembers
<1>5. f = [n \in D |-> (pre[n] \o FlattenSeq(L(f, n))) \o post[n]]
  BY <1>2 DEF IsWalk
<1>6. ASSUME NEW n \in D
      PROVE  (pre[n] \o FlattenSeq(L(f, n))) \o post[n] = FlattenSeq(L(f, n)) \o post[n]
  <2>1. FlattenSeq(L(f, n)) \in Seq(D)
    <3> DEFINE ss == L(f, n)
    <3>1. ss = [i \in DOMAIN kids[n] |-> f[kids[n][i]]]
      OBVIOUS
    <3> HIDE DEF ss
    <3>2. FlattenSeq(ss) \in Seq(D)
      BY <3>1, <1>4, ChildrenLists
    <3> QED
      BY <3>2 DEF ss
  <2> HIDE DEF L
  <2>2. pre[n] \o FlattenSeq(L(f, n)) = FlattenSeq(L(f, n))
    BY <1>1, <2>1, ConcatEmptySeq
  <2> QED
    BY <2>2
<1>7. f = [n \in D |-> FlattenSeq(L(f, n)) \o post[n]]
  <2> HIDE DEF L
  <2> QED
    BY <1>5, <1>6
<1> QED
  BY <1>7 DEF IsPostWalk

LEMMA PostWalkMembers ==
  ASSUME NEW D, NEW kids, NEW up, NEW h, Forest(D, kids, up, h), NEW b, IsBelow(b, D, kids),
         NEW post, PostNotes(post, D), NEW f, IsPostWalk(f, D, kids, post)
  PROVE  \A n \in D : /\ f[n] \in Seq(D) /\ IsInjective(f[n])
                      /\ ToSet(f[n]) = b[n] \cap {k \in D : post[k] = <<k>>}
<1> DEFINE L(n) == [i \in DOMAIN kids[n] |-> f[kids[n][i]]]
           pre == [n \in D |-> <<>>]
<1>0. ASSUME NEW n \in D PROVE f[n] = FlattenSeq(L(n)) \o post[n]
  BY DEF IsPostWalk
<1>1. /\ Notes(D, pre, post) /\ Noted(D, pre, post) = {n \in D : post[n] = <<n>>}
      /\ \A n \in D : post[n] \in Seq(D) /\ pre[n] = <<>>
  BY PostNoted
<1>2. h \in [D -> Nat]
  BY DEF Forest
<1>3. \A n \in D : f[n] \in Seq(D)
  <2> DEFINE P == {n \in D : f[n] \in Seq(D)}
  <2>1. ASSUME NEW n \in D, \A k \in D : h[k] < h[n] => k \in P PROVE n \in P
    <3> DEFINE ss == L(n)
    <3>1. ss = [i \in DOMAIN kids[n] |-> f[kids[n][i]]]
      OBVIOUS
    <3>2. \A k \in D : h[k] < h[n] => f[k] \in Seq(D)
      BY <2>1
    <3> HIDE DEF ss
    <3>3. FlattenSeq(ss) \in Seq(D)
      BY <3>1, <3>2, ChildrenLists
    <3>4. FlattenSeq(ss) \o post[n] \in Seq(D)
      BY <3>3, <1>1, ConcatMembers
    <3> QED
      BY <3>4, <1>0 DEF ss
  <2> HIDE DEF P
  <2>2. D \subseteq P
    BY <2>1, <1>2, FromBelow
  <2> QED
    BY <2>2 DEF P
<1>4. \A n \in D : FlattenSeq(L(n)) \in Seq(D)
  <2> SUFFICES ASSUME NEW n \in D PROVE FlattenSeq(L(n)) \in Seq(D)
    OBVIOUS
  <2> DEFINE ss == L(n)
  <2>1. ss = [i \in DOMAIN kids[n] |-> f[kids[n][i]]]
    OBVIOUS
  <2> HIDE DEF ss
  <2>2. FlattenSeq(ss) \in Seq(D)
    BY <2>1, <1>3, ChildrenLists
  <2> QED
    BY <2>2 DEF ss
<1>5. IsWalk(f, D, kids, pre, post)
  <2>1. ASSUME NEW n \in D PROVE FlattenSeq(L(n)) \o post[n] = (pre[n] \o FlattenSeq(L(n))) \o post[n]
    <3> HIDE DEF L
    <3>1. pre[n] \o FlattenSeq(L(n)) = FlattenSeq(L(n))
      BY <1>1, <1>4, ConcatEmptySeq
    <3> QED
      BY <3>1
  <2>2. f = [n \in D |-> FlattenSeq(L(n)) \o post[n]]
    BY DEF IsPostWalk
  <2>3. f = [n \in D |-> (pre[n] \o FlattenSeq(L(n))) \o post[n]]
    <3> HIDE DEF L, pre
    <3> QED
      BY <2>1, <2>2
  <2> QED
    BY <2>3 DEF IsWalk
<1> HIDE DEF pre
<1>6. \A n \in D : f[n] \in Seq(D) /\ IsInjective(f[n]) /\ ToSet(f[n]) = b[n] \cap Noted(D, pre, post)
  BY <1>1, <1>5, WalkMembers
<1> QED
  BY <1>1, <1>6

\* Nothing is listed after what is around it.
KidFirst(s, up) == \A i, j \in DOMAIN s : up[s[j]] = s[i] => j < i

LEMMA ConcatKidFirst ==
  ASSUME NEW S, NEW s, s \in Seq(S), NEW t, t \in Seq(S), NEW up, KidFirst(s, up), KidFirst(t, up),
         \A x \in ToSet(t) : up[x] \notin ToSet(s)
  PROVE  KidFirst(s \o t, up)
<1> DEFINE u == s \o t
<1>1. /\ u \in Seq(S) /\ Len(u) = Len(s) + Len(t)
      /\ \A i \in 1..(Len(s) + Len(t)) : u[i] = IF i <= Len(s) THEN s[i] ELSE t[i - Len(s)]
  BY ConcatProperties
<1>2. /\ Len(s) \in Nat /\ DOMAIN s = 1..Len(s) /\ Len(t) \in Nat /\ DOMAIN t = 1..Len(t)
      /\ DOMAIN u = 1..(Len(s) + Len(t))
  BY <1>1, Members
<1> HIDE DEF u
<1> SUFFICES ASSUME NEW i \in 1..(Len(s) + Len(t)), NEW j \in 1..(Len(s) + Len(t)), up[u[j]] = u[i], i <= j
             PROVE  FALSE
  <2>1. \A i, j \in 1..(Len(s) + Len(t)) : ~(j < i) => i <= j
    BY <1>2
  <2> QED
    BY <1>2, <2>1 DEF KidFirst, u
<1>3. CASE j <= Len(s)
  <2>1. i \in DOMAIN s /\ j \in DOMAIN s /\ u[i] = s[i] /\ u[j] = s[j]
    BY <1>1, <1>2, <1>3
  <2>2. j < i
    BY <2>1 DEF KidFirst
  <2> QED
    BY <2>2, <1>2
<1>4. CASE ~(j <= Len(s)) /\ i <= Len(s)
  <2> DEFINE k == j - Len(s)
  <2>1. i \in DOMAIN s /\ k \in DOMAIN t /\ u[i] = s[i] /\ u[j] = t[k]
    BY <1>1, <1>2, <1>4
  <2> HIDE DEF k
  <2>2. t[k] \in ToSet(t) /\ s[i] \in ToSet(s)
    BY <2>1 DEF ToSet
  <2> QED
    BY <2>1, <2>2
<1>5. CASE ~(j <= Len(s)) /\ ~(i <= Len(s))
  <2> DEFINE k == j - Len(s)
             l == i - Len(s)
  <2>1. l \in DOMAIN t /\ k \in DOMAIN t /\ u[i] = t[l] /\ u[j] = t[k] /\ l <= k
    BY <1>1, <1>2, <1>5
  <2> HIDE DEF k, l
  <2>2. k < l
    BY <2>1 DEF KidFirst
  <2> QED
    BY <2>1, <2>2, <1>2
<1> QED
  BY <1>3, <1>4, <1>5

LEMMA KidFirstPart ==
  ASSUME NEW S, NEW s, s \in Seq(S), NEW t, t \in Seq(S), NEW up, KidFirst(s \o t, up)
  PROVE  KidFirst(s, up)
<1>1. /\ Len(s) \in Nat /\ Len(t) \in Nat
      /\ DOMAIN s = 1..Len(s) /\ DOMAIN (s \o t) = 1..(Len(s) + Len(t))
      /\ \A i \in 1..Len(s) : (s \o t)[i] = s[i]
  OBVIOUS
<1>2. \A i, j \in DOMAIN (s \o t) : up[(s \o t)[j]] = (s \o t)[i] => j < i
  BY DEF KidFirst
<1> DEFINE u == s \o t
<1> HIDE DEF u
<1>3. SUFFICES ASSUME NEW i \in DOMAIN s, NEW j \in DOMAIN s, up[s[j]] = s[i] PROVE j < i
  BY DEF KidFirst
<1>4. i \in 1..(Len(s) + Len(t)) /\ j \in 1..(Len(s) + Len(t)) /\ i \in 1..Len(s) /\ j \in 1..Len(s)
  BY <1>1
<1> QED
  BY <1>1, <1>2, <1>3, <1>4

LEMMA FlattenKidFirst ==
  ASSUME NEW S, NEW ss, ss \in Seq(Seq(S)), NEW up, \A i \in DOMAIN ss : KidFirst(ss[i], up),
         \A i, j \in DOMAIN ss : i # j => \A x \in ToSet(ss[j]) : up[x] \notin ToSet(ss[i])
  PROVE  KidFirst(FlattenSeq(ss), up)
<1> DEFINE n == Len(ss)
           Had(k) == UNION {ToSet(ss[i]) : i \in 1..k}
           I == [k \in 0..n |-> {s \in Seq(S) : KidFirst(s, up) /\ ToSet(s) \subseteq Had(k)}]
<1>1. n \in Nat /\ DOMAIN ss = 1..n /\ \A k \in 1..n : ss[k] \in Seq(S)
  BY Members, ElementOfSeq
<1> HIDE DEF n
<1>2. <<>> \in I[0]
  BY <1>1, EmptySeq, NoMembers DEF KidFirst
<1>3. ASSUME NEW k \in 1..n, NEW x \in I[k - 1] PROVE x \in Seq(S) /\ x \o ss[k] \in I[k]
  <2>1. k - 1 \in 0..n /\ k \in 0..n
    BY <1>1
  <2>2. x \in Seq(S) /\ KidFirst(x, up) /\ ToSet(x) \subseteq Had(k - 1) /\ KidFirst(ss[k], up)
    BY <2>1, <1>1, <1>3
  <2>3. ASSUME NEW y \in ToSet(ss[k]), up[y] \in ToSet(x) PROVE FALSE
    <3>1. PICK i \in 1..(k - 1) : up[y] \in ToSet(ss[i])
      BY <2>2, <2>3
    <3>2. i \in DOMAIN ss /\ k \in DOMAIN ss /\ i # k
      BY <1>1
    <3> QED
      BY <3>1, <3>2
  <2>4. KidFirst(x \o ss[k], up)
    BY <2>2, <2>3, <1>1, ConcatKidFirst
  <2>5. x \o ss[k] \in Seq(S) /\ ToSet(x \o ss[k]) = ToSet(x) \cup ToSet(ss[k])
    BY <2>2, <1>1, ConcatMembers
  <2>6. Had(k - 1) \subseteq Had(k) /\ ToSet(ss[k]) \subseteq Had(k)
    <3>1. 1..(k - 1) \subseteq 1..k /\ k \in 1..k
      BY <1>1
    <3> QED
      BY <3>1
  <2> HIDE DEF Had
  <2> QED
    BY <2>1, <2>2, <2>4, <2>5, <2>6
<1>4. FlattenSeq(ss) \in I[n]
  <2> HIDE DEF I
  <2>1. n = Len(ss)
    BY DEF n
  <2> QED
    BY <1>2, <1>3, <2>1, FlattenTurns
<1>5. n \in 0..n
  BY <1>1
<1> QED
  BY <1>4, <1>5

LEMMA NotAroundItself ==
  ASSUME NEW D, NEW kids, NEW up, NEW h, Forest(D, kids, up, h), NEW b, IsBelow(b, D, kids), NEW n, n \in D
  PROVE  up[n] \notin b[n]
<1>1. b[n] \subseteq D /\ n \in b[n] /\ \A x \in b[n] : x = n \/ up[x] \in b[n]
  BY BelowFacts
<1>2. PICK x \in b[n] : up[x] \notin b[n]
  <2>1. b[n] \in SUBSET D /\ b[n] # {}
    BY <1>1
  <2> QED
    BY <2>1 DEF Forest, WellFounded
<1> QED
  BY <1>1, <1>2

LEMMA PostWalkKidFirst ==
  ASSUME NEW D, NEW kids, NEW up, NEW h, Forest(D, kids, up, h), NEW b, IsBelow(b, D, kids),
         NEW post, PostNotes(post, D), NEW f, IsPostWalk(f, D, kids, post)
  PROVE  \A n \in D : KidFirst(f[n], up)
<1> DEFINE L(n) == [i \in DOMAIN kids[n] |-> f[kids[n][i]]]
           P == {n \in D : KidFirst(f[n], up)}
<1>1. \A n \in D : f[n] \in Seq(D) /\ ToSet(f[n]) \subseteq b[n]
  <2>1. \A n \in D : ToSet(f[n]) = b[n] \cap {k \in D : post[k] = <<k>>}
    BY PostWalkMembers
  <2>2. \A n \in D : f[n] \in Seq(D)
    BY PostWalkMembers
  <2> HIDE DEF L, P
  <2>3. ASSUME NEW n \in D PROVE ToSet(f[n]) \subseteq b[n]
    BY <2>1
  <2> QED
    BY <2>2, <2>3
<1>2. h \in [D -> Nat]
  BY DEF Forest
<1>3. ASSUME NEW n \in D, \A k \in D : h[k] < h[n] => k \in P PROVE n \in P
  <2> DEFINE ss == L(n)
             t == FlattenSeq(ss)
             p == post[n]
  <2>1. ss = [i \in DOMAIN kids[n] |-> f[kids[n][i]]]
    OBVIOUS
  <2>2. f[n] = t \o p
    BY DEF IsPostWalk
  <2>3. \A k \in D : h[k] < h[n] => f[k] \in Seq(D)
    BY <1>1
  <2> HIDE DEF ss
  <2>4. /\ ss \in Seq(Seq(D)) /\ t \in Seq(D) /\ DOMAIN ss = DOMAIN kids[n]
        /\ \A i \in DOMAIN ss : /\ ss[i] = f[kids[n][i]] /\ kids[n][i] \in D
                                /\ up[kids[n][i]] = n /\ h[kids[n][i]] < h[n]
    BY <2>1, <2>3, ChildrenLists
  <2>5. IsInjective(kids[n])
    BY DEF Forest
  <2>6. \A i \in DOMAIN ss : KidFirst(ss[i], up)
    BY <2>4, <1>3
  <2>7. ASSUME NEW i \in DOMAIN ss PROVE n \notin b[kids[n][i]] /\ b[kids[n][i]] \subseteq b[n]
    <3>1. kids[n][i] \in ToSet(kids[n]) /\ kids[n][i] \in D
      BY <2>4 DEF ToSet
    <3>2. \A x \in b[kids[n][i]] : h[x] <= h[kids[n][i]]
      BY <3>1, BelowFacts
    <3>3. n \notin b[kids[n][i]]
      <4>1. h[n] \in Nat /\ h[kids[n][i]] \in Nat /\ h[kids[n][i]] < h[n]
        BY <2>4, <3>1, <1>2
      <4> QED
        BY <4>1, <3>2
    <3>4. b[n] = {n} \cup UNION {b[k] : k \in ToSet(kids[n])}
      BY BelowFacts
    <3> QED
      BY <3>1, <3>3, <3>4
  <2>8. ASSUME NEW i \in DOMAIN ss, NEW j \in DOMAIN ss, i # j, NEW x \in ToSet(ss[j])
        PROVE  up[x] \notin ToSet(ss[i])
    <3> DEFINE k == kids[n][i]
               l == kids[n][j]
    <3>1. k \in D /\ l \in D /\ up[k] = n /\ up[l] = n /\ ss[i] = f[k] /\ ss[j] = f[l]
      BY <2>4
    <3>2. k # l
      BY <2>4, <2>5, <2>8 DEF IsInjective
    <3>3. n \notin b[k] /\ n \notin b[l]
      BY <2>7
    <3> HIDE DEF k, l
    <3>4. b[k] \cap b[l] = {}
      BY <3>1, <3>2, <3>3, BelowApart
    <3>5. x \in b[l] /\ ToSet(ss[i]) \subseteq b[k]
      BY <3>1, <1>1, <2>8
    <3>6. x = l \/ up[x] \in b[l]
      BY <3>1, <3>5, BelowFacts
    <3> QED
      BY <3>1, <3>3, <3>4, <3>5, <3>6
  <2>9. KidFirst(t, up)
    BY <2>4, <2>6, <2>8, FlattenKidFirst
  <2>10. ToSet(t) \subseteq b[n]
    <3>1. ToSet(t) = UNION {ToSet(ss[i]) : i \in DOMAIN ss}
      BY <2>4, FlattenMembers
    <3>2. \A i \in DOMAIN ss : ToSet(ss[i]) \subseteq b[n]
      BY <2>4, <2>7, <1>1
    <3> HIDE DEF t
    <3> QED
      BY <3>1, <3>2
  <2>11. up[n] \notin b[n] /\ n \in b[n]
    BY NotAroundItself, BelowFacts
  <2>12. p \in Seq(D) /\ ToSet(p) \subseteq {n} /\ KidFirst(p, up)
    <3>1. CASE p = <<>>
      BY <3>1, NoMembers DEF KidFirst
    <3>2. CASE p = <<n>>
      <4>1. p \in Seq(D) /\ ToSet(p) = {n} /\ DOMAIN p = {1} /\ p[1] = n
        BY <3>2, Singleton
      <4> QED
        BY <4>1, <2>11 DEF KidFirst
    <3> QED
      BY <3>1, <3>2 DEF PostNotes
  <2> HIDE DEF t, p
  <2>13. \A x \in ToSet(p) : up[x] \notin ToSet(t)
    BY <2>10, <2>11, <2>12
  <2>14. KidFirst(t \o p, up)
    BY <2>4, <2>9, <2>12, <2>13, ConcatKidFirst
  <2> QED
    BY <2>2, <2>14
<1>4. D \subseteq P
  <2> HIDE DEF P
  <2> QED
    BY <1>2, <1>3, FromBelow
<1> QED
  BY <1>4

LEMMA InjectivePart ==
  ASSUME NEW S, NEW s, s \in Seq(S), NEW t, t \in Seq(S), IsInjective(s \o t)
  PROVE  IsInjective(s)
<1>1. /\ Len(s \o t) = Len(s) + Len(t) /\ Len(s) \in Nat /\ Len(t) \in Nat
      /\ DOMAIN s = 1..Len(s) /\ DOMAIN (s \o t) = 1..(Len(s) + Len(t))
      /\ \A i \in 1..Len(s) : (s \o t)[i] = s[i]
  OBVIOUS
<1>2. \A i, j \in DOMAIN (s \o t) : (s \o t)[i] = (s \o t)[j] => i = j
  BY DEF IsInjective
<1> DEFINE u == s \o t
<1> HIDE DEF u
<1>3. SUFFICES ASSUME NEW i \in DOMAIN s, NEW j \in DOMAIN s, s[i] = s[j] PROVE i = j
  BY DEF IsInjective
<1>4. i \in 1..(Len(s) + Len(t)) /\ j \in 1..(Len(s) + Len(t)) /\ i \in 1..Len(s) /\ j \in 1..Len(s)
  BY <1>1
<1> QED
  BY <1>1, <1>2, <1>3, <1>4

(***************************************************************************)
(* Edges that are dropped. The lowest common ancestor of two ends.         *)
(***************************************************************************)
\* b is a without the edges of E.
Fewer(a, b, E) ==
  Good(b) /\ Known(b) = Known(a) \ E /\ SameTree(a, b) /\ SameEnds(a, b) /\ SameCaches(a, b)

LEMMA FewerStep ==
  ASSUME NEW a, Good(a), NEW E, NEW b, Fewer(a, b, E), NEW e, e \in ToSet(a.inter), e \notin E
  PROVE  Fewer(a, RemoveInterEdge(b, e), E \cup {e})
<1> DEFINE r == RemoveInterEdge(b, e)
<1>1. Good(b) /\ Known(b) = Known(a) \ E /\ SameTree(a, b) /\ SameEnds(a, b) /\ SameCaches(a, b)
  BY DEF Fewer
<1>2. e \in Known(a) /\ e \in Known(b)
  BY <1>1 DEF Known
<1>3. e \in ToSet(b.inter)
  <2>1. a.isInter[e]
    BY <1>2, EdgeFacts
  <2>2. b.isInter[e]
    BY <2>1, <1>1 DEF SameEnds
  <2> QED
    BY <2>2, <1>1, <1>2, EdgeFacts
<1> HIDE DEF r
<1>4. EdgeRemoved(b, RemoveInterEdge(b, e), e)
  BY <1>1, <1>3, RemoveInterEdgeGood
<1>5. Good(r) /\ Known(r) = Known(b) \ {e} /\ SameTree(b, r) /\ SameEnds(b, r) /\ SameCaches(b, r)
  BY <1>4 DEF EdgeRemoved, r
<1>6. SameTree(a, r) /\ SameEnds(a, r) /\ SameCaches(a, r)
  BY <1>1, <1>5 DEF SameTree, SameGraphs, SameEnds, SameCaches
<1>7. Fewer(a, r, E \cup {e})
  BY <1>1, <1>5, <1>6 DEF Fewer
<1> QED
  BY <1>7 DEF r

LEMMA FewerAll ==
  ASSUME NEW a, Good(a), NEW list, list \in Seq(Edge), IsInjective(list), ToSet(list) \subseteq ToSet(a.inter)
  PROVE  Fewer(a, InTurn(RemoveInterEdge, a, list), ToSet(list))
<1> DEFINE N == Len(list)
           I == [k \in 0..N |-> {b \in Managers : Fewer(a, b, Seen(list, k))}]
           Q(f) == f = [k \in 0..N |-> IF k = 0 THEN a ELSE RemoveInterEdge(f[k - 1], list[k])]
           w == CHOOSE f : Q(f)
<1>2. N \in Nat
  BY Members
<1>3. a \in I[0]
  <2>1. Seen(list, 0) = {} /\ 0 \in 0..N
    BY <1>2, SeenTurns
  <2>2. Fewer(a, a, {})
    BY DEF Fewer, SameTree, SameGraphs, SameEnds, SameCaches
  <2>3. a \in Managers
    BY DEF Good
  <2> QED
    BY <2>1, <2>2, <2>3
<1>4. ASSUME NEW k \in 1..N, NEW st \in I[k - 1] PROVE RemoveInterEdge(st, list[k]) \in I[k]
  <2>1. k \in 0..N /\ k - 1 \in 0..N
    BY <1>2
  <2>2. Fewer(a, st, Seen(list, k - 1))
    BY <2>1
  <2> HIDE DEF I, Q, w
  <2>3. /\ Seen(list, k) = Seen(list, k - 1) \cup {list[k]} /\ list[k] \notin Seen(list, k - 1)
        /\ list[k] \in ToSet(a.inter)
    BY <1>2, <2>1, SeenTurns
  <2>4. Fewer(a, RemoveInterEdge(st, list[k]), Seen(list, k - 1) \cup {list[k]})
    BY <2>2, <2>3, FewerStep
  <2>5. Fewer(a, RemoveInterEdge(st, list[k]), Seen(list, k))
    BY <2>3, <2>4
  <2>6. RemoveInterEdge(st, list[k]) \in Managers
    BY <2>5 DEF Fewer, Good
  <2> QED
    BY <2>1, <2>5, <2>6 DEF I
<1>5. \E f : Q(f)
  <2> DEFINE X == UNION {I[k] : k \in 0..N}
             F == [pr \in X \X (1..N) |-> RemoveInterEdge(pr[1], list[pr[2]])]
  <2>1. \A k \in 1..N : \A st \in I[k - 1] : F[<<st, k>>] = RemoveInterEdge(st, list[k])
    <3> SUFFICES ASSUME NEW k \in 1..N, NEW st \in I[k - 1] PROVE F[<<st, k>>] = RemoveInterEdge(st, list[k])
      OBVIOUS
    <3>1. k - 1 \in 0..N
      BY <1>2
    <3> HIDE DEF I
    <3>2. st \in X
      BY <3>1
    <3> HIDE DEF X
    <3> QED
      BY <3>2
  <2> HIDE DEF I, F
  <2>2. \A k \in 1..N : \A st \in I[k - 1] : F[<<st, k>>] \in I[k]
    BY <2>1, <1>4
  <2>3. PICK g : IsRun(g, N, a, F, I)
    BY <1>2, <1>3, <2>2, RunExists
  <2>4. /\ g = [k \in 0..N |-> g[k]] /\ g[0] = a
        /\ \A k \in 1..N : g[k] = F[<<g[k - 1], k>>]
        /\ \A k \in 0..N : g[k] \in I[k]
    BY <2>3 DEF IsRun
  <2>5. ASSUME NEW k \in 1..N PROVE g[k] = RemoveInterEdge(g[k - 1], list[k])
    <3>1. k - 1 \in 0..N
      BY <1>2
    <3> QED
      BY <3>1, <2>1, <2>4
  <2>6. ASSUME NEW k \in 0..N PROVE g[k] = IF k = 0 THEN a ELSE RemoveInterEdge(g[k - 1], list[k])
    <3>1. k = 0 \/ k \in 1..N
      BY <1>2
    <3> QED
      BY <2>4, <2>5, <3>1
  <2>7. Q(g)
    <3> HIDE DEF N
    <3> QED
      BY <2>4, <2>6
  <2> QED
    BY <2>7
<1>6. Q(w)
  <2> HIDE DEF Q
  <2> QED
    BY <1>5
<1>7. w[N] \in I[N]
  <2> HIDE DEF w
  <2>1. w[0] = a /\ \A k \in 1..N : w[k] = RemoveInterEdge(w[k - 1], list[k])
    BY <1>2, <1>6
  <2> HIDE DEF I, Q
  <2> QED
    BY <1>2, <1>3, <1>4, <2>1, Turns

<1>8. InTurn(RemoveInterEdge, a, list) = w[N]
  BY DEF InTurn
<1>9. N \in 0..N /\ Seen(list, N) = ToSet(list)
  BY <1>2, SeenTurns
<1> HIDE DEF w
<1> QED
  BY <1>7, <1>8, <1>9

\* The edges between a node and its own compound.
Invalid(a) == Those(a.inter, LAMBDA e : IsOneAncestorOfOther(a, a.source[e], a.target[e]))

InvalidEdges(a) == {e \in ToSet(a.inter) : IsOneAncestorOfOther(a, a.source[e], a.target[e])}

LEMMA InvalidIsSublist ==
  ASSUME NEW a, a.inter \in Seq(Edge)
  PROVE  Sublist(Invalid(a), a.inter, {x \in ToSet(a.inter) : IsOneAncestorOfOther(a, a.source[x], a.target[x])})
<1>0. a.inter \in Seq(Edge)
  OBVIOUS
<1> DEFINE list == a.inter
           T == {x \in ToSet(list) : IsOneAncestorOfOther(a, a.source[x], a.target[x])}
           Q(f) == f = [k \in 0..Len(list) |-> IF k = 0 THEN <<>> ELSE
                          IF IsOneAncestorOfOther(a, a.source[list[k]], a.target[list[k]]) THEN Append(f[k - 1], list[k]) ELSE f[k - 1]]
           w == CHOOSE f : Q(f)
<1>1. list \in Seq(Edge) /\ T \subseteq ToSet(list)
  BY <1>0
<1>2. \A f : IsSieve(f, list, T) <=> Q(f)
  <2>0. list \in Seq(Edge)
    BY <1>1
  <2> HIDE DEF list
  <2>1. \A k \in 0..Len(list) : k # 0 => (list[k] \in T <=> (IsOneAncestorOfOther(a, a.source[list[k]], a.target[list[k]])))
    BY <2>0, SeenTurns
  <2> HIDE DEF T
  <2> QED
    BY <2>1 DEF IsSieve
<1>3. \E f : Q(f)
  <2> HIDE DEF Q, T, list
  <2> QED
    BY <1>1, <1>2, SieveExists
<1>4. IsSieve(w, list, T)
  <2> HIDE DEF Q
  <2> QED
    BY <1>2, <1>3
<1>5. Invalid(a) = w[Len(list)]
  BY DEF Invalid, Those, InTurn
<1> HIDE DEF w, list, T
<1> QED
  <2>1. Sublist(w[Len(list)], list, T)
    BY <1>1, <1>4, SieveIsSublist
  <2> QED
    BY <2>1, <1>5 DEF list, T

LEMMA DropInvalidGood ==
  ASSUME NEW a, Good(a)
  PROVE  Fewer(a, DropInvalidEdges(a), InvalidEdges(a))
<1> DEFINE l == Invalid(a)
           T == InvalidEdges(a)
<1>1. a.inter \in Seq(Edge) /\ IsInjective(a.inter) /\ ToSet(a.inter) \subseteq Edge
  BY GoodLists DEF Good, EdgesOK, InterOK
<1>2. Sublist(l, a.inter, T)
  BY <1>1, InvalidIsSublist DEF InvalidEdges
<1>3. T \subseteq ToSet(a.inter) /\ T \subseteq Edge
  BY <1>1 DEF InvalidEdges
<1>4. DropInvalidEdges(a) = InTurn(RemoveInterEdge, a, l)
  BY DEF DropInvalidEdges, Invalid
<1> HIDE DEF l, T
<1>5. l \in Seq(T) /\ ToSet(l) = T /\ IsInjective(l)
  BY <1>1, <1>2 DEF Sublist
<1>6. l \in Seq(Edge)
  BY <1>3, <1>5, WiderSeq
<1>7. Fewer(a, InTurn(RemoveInterEdge, a, l), ToSet(l))
  BY <1>3, <1>5, <1>6, FewerAll
<1> QED
  BY <1>4, <1>5, <1>7 DEF T

\* The tree is the same tree, also when the edges are not the same.
LEMMA SameTreeShape ==
  ASSUME NEW a, NEW b, SameTree(a, b)
  PROVE  /\ Live(b) = Live(a) /\ Graphs(b) = Graphs(a) /\ Up(b) = Up(a) /\ LiveNodes(b) = LiveNodes(a)
         /\ Ranked(a) => Ranked(b)
         /\ Rooted(a) => Rooted(b)
         /\ Filled(a) => Filled(b)
<1>1. b.nodes = a.nodes /\ b.owner = a.owner /\ b.parent = a.parent /\ b.graphs = a.graphs
  BY DEF SameTree, SameGraphs
<1>2. Live(b) = Live(a) /\ Graphs(b) = Graphs(a)
  BY <1>1 DEF Live, Graphs
<1>3. Up(b) = Up(a) /\ LiveNodes(b) = LiveNodes(a)
  BY <1>1 DEF Up, ParentOf, LiveNodes
<1> QED
  BY <1>1, <1>2, <1>3 DEF Ranked, Rooted, Filled

\* The chain of a node is the node and the chain of what is around it.
LEMMA ChainRule ==
  ASSUME NEW a, Good(a), Ranked(a)
  PROVE  /\ \A n \in Node : Chain(a, n) \in Seq(Node)
         /\ \A n \in Node : Chain(a, n) = IF Around(a, n) = Null THEN <<n>> ELSE <<n>> \o Chain(a, Around(a, n))
         /\ \A n \in Node : Around(a, n) \in Node \cup {Null}
<1> DEFINE T(f, k) == IF Around(a, k) = Null THEN <<k>> ELSE <<k>> \o f[Around(a, k)]
           Q(f) == f = [k \in Node |-> T(f, k)]
           w == CHOOSE f : Q(f)
           V == Seq(Node)
           F == [f \in [Node -> V] |-> [k \in Node |-> T(f, k)]]
<1>1. PICK d : IsDepth(d, Node, Up(a))
  BY DepthExists, NodeAssumption DEF Ranked
<1>2. \A n \in Node : Around(a, n) = Null \/ (Around(a, n) \in Node /\ d[Around(a, n)] < d[n])
  <2> SUFFICES ASSUME NEW n \in Node PROVE Around(a, n) = Null \/ (Around(a, n) \in Node /\ d[Around(a, n)] < d[n])
    OBVIOUS
  <2>1. a.owner[n] \in Node \cup {Null} /\ \A G \in Node : a.parent[G] \in Node \cup {Null}
    BY FieldTypes DEF Good, Maybe
  <2>2. Around(a, n) = Null \/ Around(a, n) = Up(a)[n]
    BY DEF Around, Up
  <2>3. Up(a)[n] \in Node \cup {Null}
    BY <2>1 DEF Up, ParentOf
  <2> QED
    BY <2>2, <2>3, <1>1 DEF IsDepth
<1>3. F \in [[Node -> V] -> [Node -> V]]
  <2> SUFFICES ASSUME NEW f \in [Node -> V], NEW n \in Node PROVE T(f, n) \in V
    OBVIOUS
  <2>1. <<n>> \in Seq(Node)
    BY Singleton
  <2>2. CASE Around(a, n) = Null
    BY <2>1, <2>2
  <2>3. CASE Around(a, n) # Null
    <3>1. f[Around(a, n)] \in Seq(Node)
      BY <2>3, <1>2
    <3>2. <<n>> \o f[Around(a, n)] \in Seq(Node)
      BY <2>1, <3>1, ConcatMembers
    <3> QED
      BY <2>3, <3>2
  <2> QED
    BY <2>2, <2>3
<1>4. OnLower(F, Node, V, d)
  <2>1. d \in [Node -> Nat] /\ V # {}
    BY <1>1, EmptySeq DEF IsDepth
  <2> SUFFICES ASSUME NEW f \in [Node -> V], NEW g \in [Node -> V], NEW n \in Node,
                      \A k \in Node : d[k] < d[n] => f[k] = g[k]
               PROVE  F[f][n] = F[g][n]
    <3> HIDE DEF F, V
    <3> QED
      BY <1>3, <2>1 DEF OnLower
  <2>2. T(f, n) = T(g, n)
    BY <1>2
  <2> HIDE DEF T
  <2> QED
    BY <2>2
<1>5. \E f : f \in [Node -> V] /\ Q(f)
  <2>1. PICK f : f \in [Node -> V] /\ f = F[f]
    <3> HIDE DEF F, V
    <3> QED
      BY <1>4, TreeRecursion
  <2>2. F[f] = [k \in Node |-> T(f, k)]
    <3> HIDE DEF T, V
    <3> QED
      BY <2>1
  <2> HIDE DEF T, F, V
  <2> QED
    BY <2>1, <2>2
<1>6. Q(w)
  <2> HIDE DEF Q
  <2> QED
    BY <1>5
<1>7. \A n \in Node : Chain(a, n) = w[n]
  BY DEF Chain
<1> HIDE DEF w
<1>8. \A n \in Node : w[n] = T(w, n)
  <2> HIDE DEF T
  <2> QED
    BY <1>6
<1>9. \A n \in Node : Chain(a, n) = IF Around(a, n) = Null THEN <<n>> ELSE <<n>> \o Chain(a, Around(a, n))
  BY <1>2, <1>7, <1>8
<1> HIDE DEF T, Q, F, V
<1>10. \A n \in Node : Chain(a, n) \in Seq(Node)
  <2> DEFINE P == {n \in Node : Chain(a, n) \in Seq(Node)}
  <2>1. ASSUME NEW n \in Node, \A k \in Node : d[k] < d[n] => k \in P PROVE n \in P
    <3>1. <<n>> \in Seq(Node)
      BY Singleton
    <3>2. CASE Around(a, n) = Null
      BY <3>1, <3>2, <1>9
    <3>3. CASE Around(a, n) # Null
      <4>1. Around(a, n) \in P
        BY <3>3, <2>1, <1>2
      <4>2. <<n>> \o Chain(a, Around(a, n)) \in Seq(Node)
        BY <4>1, <3>1, ConcatMembers
      <4> QED
        BY <3>3, <4>2, <1>9
    <3> QED
      BY <3>2, <3>3
  <2>2. d \in [Node -> Nat]
    BY <1>1 DEF IsDepth
  <2> HIDE DEF P
  <2>3. Node \subseteq P
    BY <2>1, <2>2, FromBelow
  <2> QED
    BY <2>3 DEF P
<1> QED
  BY <1>2, <1>9, <1>10

\* A chain goes from graph to graph up to the root graph.
Linked(a, h, S, n) ==
  /\ S \in Seq(Live(a)) /\ S # <<>> /\ S[1] = n
  /\ \E i \in DOMAIN S : a.owner[S[i]] = RootNode
  /\ \A i, j \in DOMAIN S : i < j => h[a.owner[S[i]]] < h[a.owner[S[j]]]

LEMMA ChainIsLinked ==
  ASSUME NEW a, Good(a), Ranked(a), Rooted(a), NEW h, IsHeight(h, Node, Up(a))
  PROVE  \A n \in Live(a) : Linked(a, h, Chain(a, n), n)
<1>1. PICK d : IsDepth(d, Node, Up(a))
  BY DepthExists, NodeAssumption DEF Ranked
<1>2. d \in [Node -> Nat] /\ h \in [Node -> Nat]
  BY <1>1 DEF IsDepth, IsHeight
<1> DEFINE P == {n \in Node : n \in Live(a) => Linked(a, h, Chain(a, n), n)}
<1>3. ASSUME NEW n \in Node, \A k \in Node : d[k] < d[n] => k \in P PROVE n \in P
  <2> SUFFICES ASSUME n \in Live(a) PROVE Linked(a, h, Chain(a, n), n)
    OBVIOUS
  <2>1. /\ a.owner[n] \in Graphs(a) /\ ParentOf(a, n) = a.owner[n] /\ a.owner[n] \in Node
        /\ a.root = RootNode /\ RootNode \in Node /\ Null \notin Node
    BY LiveFacts, NodeAssumption
  <2>2. CASE a.owner[n] = RootNode
    <3>1. Chain(a, n) = <<n>>
      BY <2>1, <2>2, ChainRule DEF Around
    <3> DEFINE S == <<n>>
    <3>2. S \in Seq(Live(a)) /\ S # <<>> /\ S[1] = n /\ DOMAIN S = {1}
      OBVIOUS
    <3> HIDE DEF S
    <3>3. Linked(a, h, S, n)
      BY <3>2, <2>2 DEF Linked
    <3> QED
      BY <3>1, <3>3 DEF S
  <2>3. CASE a.owner[n] # RootNode
    <3> DEFINE p == a.owner[n]
               S == Chain(a, p)
               T == <<n>> \o S
    <3>1. Around(a, n) = p /\ p # Null
      BY <2>1, <2>3 DEF Around
    <3>2. Chain(a, n) = T
      BY <3>1, ChainRule
    <3>3. p \in Live(a) /\ p \in Node
      BY <2>1, <2>3 DEF Rooted
    <3>4. Up(a)[n] = p /\ Up(a)[p] = a.owner[p] /\ a.owner[p] \in Node
      BY <2>1, <3>3, LiveFacts DEF Up
    <3>5. d[p] < d[n] /\ h[p] < h[a.owner[p]]
      BY <3>3, <3>4, <1>1 DEF IsDepth, IsHeight
    <3>6. Linked(a, h, S, p)
      BY <3>3, <3>5, <1>3
    <3> HIDE DEF p, S
    <3>7. /\ S \in Seq(Live(a)) /\ S # <<>> /\ S[1] = p /\ Len(S) \in Nat /\ DOMAIN S = 1..Len(S)
          /\ \A i, j \in DOMAIN S : i < j => h[a.owner[S[i]]] < h[a.owner[S[j]]]
      BY <3>6 DEF Linked
    <3>8. PICK i0 \in DOMAIN S : a.owner[S[i0]] = RootNode
      BY <3>6 DEF Linked
    <3>9. /\ T \in Seq(Live(a)) /\ T # <<>> /\ T[1] = n /\ DOMAIN T = 1..(Len(S) + 1)
          /\ \A j \in 2..(Len(S) + 1) : T[j] = S[j - 1]
      BY <3>7
    <3> HIDE DEF T
    <3>10. \A j \in DOMAIN S : a.owner[S[j]] \in Node
      <4>1. \A j \in DOMAIN S : S[j] \in Live(a)
        BY <3>7
      <4> QED
        BY <4>1, LiveFacts
    <3>11. ASSUME NEW j \in 2..(Len(S) + 1) PROVE h[a.owner[n]] < h[a.owner[T[j]]]
      <4>1. T[j] = S[j - 1] /\ j - 1 \in DOMAIN S /\ 1 \in DOMAIN S
        BY <3>7, <3>9
      <4>2. h[p] < h[a.owner[S[1]]] /\ h[p] \in Nat /\ h[a.owner[S[1]]] \in Nat /\ h[a.owner[S[j - 1]]] \in Nat
        BY <3>3, <3>4, <3>5, <3>7, <3>10, <4>1, <1>2
      <4>3. j - 1 = 1 \/ h[a.owner[S[1]]] < h[a.owner[S[j - 1]]]
        BY <3>7, <4>1
      <4> QED
        BY <4>1, <4>2, <4>3 DEF p
    <3>12. ASSUME NEW i \in DOMAIN T, NEW j \in DOMAIN T, i < j PROVE h[a.owner[T[i]]] < h[a.owner[T[j]]]
      <4>1. j \in 2..(Len(S) + 1)
        BY <3>7, <3>9, <3>12
      <4>2. CASE i = 1
        BY <4>1, <4>2, <3>9, <3>11
      <4>3. CASE i # 1
        <5>1. i \in 2..(Len(S) + 1) /\ i - 1 \in DOMAIN S /\ j - 1 \in DOMAIN S /\ i - 1 < j - 1
          BY <4>1, <4>3, <3>7, <3>9, <3>12
        <5> QED
          BY <5>1, <4>1, <3>7, <3>9
      <4> QED
        BY <4>2, <4>3
    <3>13. i0 + 1 \in DOMAIN T /\ a.owner[T[i0 + 1]] = RootNode
      <4>1. i0 + 1 \in 2..(Len(S) + 1) /\ (i0 + 1) - 1 = i0
        BY <3>7, <3>8
      <4> QED
        BY <4>1, <3>8, <3>9
    <3>14. Linked(a, h, T, n)
      BY <3>9, <3>12, <3>13 DEF Linked
    <3> QED
      BY <3>2, <3>14
  <2> QED
    BY <2>2, <2>3
<1> HIDE DEF P
<1>4. Node \subseteq P
  BY <1>2, <1>3, FromBelow
<1> QED
  BY <1>4, LiveFacts DEF P

\* Two chains that meet do so in one place before all others.
Meets(a, S, T) == {p \in (DOMAIN S) \X (DOMAIN T) : a.owner[S[p[1]]] = a.owner[T[p[2]]]}

LEMMA FirstMeeting ==
  ASSUME NEW a, Good(a), NEW h, h \in [Node -> Nat], NEW S, NEW s, Linked(a, h, S, s), NEW T, NEW t, Linked(a, h, T, t)
  PROVE  \E p \in Meets(a, S, T) : \A q \in Meets(a, S, T) : p[1] <= q[1] /\ p[2] <= q[2]
<1>1. /\ S \in Seq(Live(a)) /\ T \in Seq(Live(a))
      /\ \A i, j \in DOMAIN S : i < j => h[a.owner[S[i]]] < h[a.owner[S[j]]]
      /\ \A i, j \in DOMAIN T : i < j => h[a.owner[T[i]]] < h[a.owner[T[j]]]
      /\ \E i \in DOMAIN S : a.owner[S[i]] = RootNode
      /\ \E i \in DOMAIN T : a.owner[T[i]] = RootNode
  BY DEF Linked
<1>2. DOMAIN S \subseteq Nat /\ DOMAIN T \subseteq Nat
  BY <1>1
<1>3. /\ \A i \in DOMAIN S : S[i] \in Live(a)
      /\ \A i \in DOMAIN T : T[i] \in Live(a)
  BY <1>1
<1>4. /\ \A i \in DOMAIN S : h[a.owner[S[i]]] \in Nat
      /\ \A i \in DOMAIN T : h[a.owner[T[i]]] \in Nat
  BY <1>3, LiveFacts
<1> DEFINE M == Meets(a, S, T)
           H == {h[a.owner[S[p[1]]]] : p \in M}
<1>5. M # {}
  <2>1. PICK i \in DOMAIN S : a.owner[S[i]] = RootNode
    BY <1>1
  <2>2. PICK j \in DOMAIN T : a.owner[T[j]] = RootNode
    BY <1>1
  <2>3. <<i, j>> \in M
    BY <2>1, <2>2 DEF Meets
  <2> QED
    BY <2>3
<1>6. \A p \in M : /\ p[1] \in DOMAIN S /\ p[2] \in DOMAIN T
                   /\ h[a.owner[S[p[1]]]] = h[a.owner[T[p[2]]]]
  BY DEF Meets
<1> HIDE DEF M
<1>7. H \subseteq Nat /\ H # {}
  BY <1>4, <1>5, <1>6
<1>8. PICK x \in H : \A y \in H : x <= y
  <2> HIDE DEF H
  <2> QED
    BY <1>7, LeastNatural
<1>9. PICK p \in M : x = h[a.owner[S[p[1]]]]
  BY <1>8
<1>10. ASSUME NEW q \in M PROVE p[1] <= q[1] /\ p[2] <= q[2]
  <2>1. h[a.owner[S[p[1]]]] <= h[a.owner[S[q[1]]]]
    BY <1>8, <1>9
  <2>2. h[a.owner[T[p[2]]]] <= h[a.owner[T[q[2]]]]
    BY <2>1, <1>6
  <2>3. p[1] \in DOMAIN S /\ q[1] \in DOMAIN S /\ p[2] \in DOMAIN T /\ q[2] \in DOMAIN T
    BY <1>6
  <2>4. ~(q[1] < p[1])
    <3>1. q[1] < p[1] => h[a.owner[S[q[1]]]] < h[a.owner[S[p[1]]]]
      BY ONLY <2>3, <1>1
    <3>2. h[a.owner[S[q[1]]]] \in Nat /\ h[a.owner[S[p[1]]]] \in Nat
      BY ONLY <2>3, <1>4
    <3> QED
      BY ONLY <3>1, <3>2, <2>1
  <2>5. ~(q[2] < p[2])
    <3>1. q[2] < p[2] => h[a.owner[T[q[2]]]] < h[a.owner[T[p[2]]]]
      BY ONLY <2>3, <1>1
    <3>2. h[a.owner[T[q[2]]]] \in Nat /\ h[a.owner[T[p[2]]]] \in Nat
      BY ONLY <2>3, <1>4
    <3> QED
      BY ONLY <3>1, <3>2, <2>2
  <2> QED
    BY <2>3, <2>4, <2>5, <1>2
<1> QED
  BY <1>9, <1>10 DEF M

\* calcLowestCommonAncestors finds a graph around both ends of every edge, so
\* that the layout never starts with an ancestor that is undefined.
THEOREM LcaExists ==
  ASSUME NEW a, Good(a), Ranked(a), Rooted(a), NEW e, e \in Known(a)
  PROVE  Lca(a, e).graph # Null
<1> DEFINE S == Chain(a, a.source[e])
           T == Chain(a, a.target[e])
           M == Meets(a, S, T)
           inner == CHOOSE p \in M : \A q \in M : p[1] <= q[1] /\ p[2] <= q[2]
<1>1. PICK h : IsHeight(h, Node, Up(a))
  BY HeightExists, NodeAssumption DEF Ranked
<1>2. a.source[e] \in Live(a) /\ a.target[e] \in Live(a)
  BY EdgeFacts
<1>3. Linked(a, h, S, a.source[e]) /\ Linked(a, h, T, a.target[e])
  BY <1>1, <1>2, ChainIsLinked
<1>4. Lca(a, e) = IF M = {} THEN [graph |-> Null, source |-> Null, target |-> Null]
                  ELSE [graph |-> a.owner[S[inner[1]]], source |-> S[inner[1]], target |-> T[inner[2]]]
  BY DEF Lca, Meets
<1> HIDE DEF S, T
<1>5. h \in [Node -> Nat]
  BY <1>1 DEF IsHeight
<1>6. \E p \in M : \A q \in M : p[1] <= q[1] /\ p[2] <= q[2]
  BY <1>3, <1>5, FirstMeeting
<1>7. inner \in M
  <2> HIDE DEF M
  <2> QED
    BY <1>6
<1>8. S[inner[1]] \in Live(a)
  <2>1. inner[1] \in DOMAIN S /\ S \in Seq(Live(a))
    <3> HIDE DEF inner
    <3>1. S \in Seq(Live(a))
      BY <1>3 DEF Linked
    <3> QED
      BY <3>1, <1>7 DEF Meets
  <2> HIDE DEF inner, M
  <2> QED
    BY <2>1
<1>9. a.owner[S[inner[1]]] # Null
  BY <1>8, LiveFacts, NodeAssumption
<1> HIDE DEF inner, M
<1> QED
  BY <1>4, <1>7, <1>9

(***************************************************************************)
(* Layers of leaves that are out of the graph and can go back into it.     *)
(***************************************************************************)
LEMMA OnlyMember ==
  ASSUME NEW S, NEW s, s \in Seq(S), Len(s) = 1
  PROVE  ToSet(s) = {s[1]}
<1>1. DOMAIN s = {1}
  OBVIOUS
<1> QED
  BY <1>1 DEF ToSet

\* With fewer edges, the lists of incident edges are shorter.
LEMMA IncShrinks ==
  ASSUME NEW a, Good(a), NEW b, Good(b), Known(b) \subseteq Known(a), SameEnds(a, b)
  PROVE  \A n \in Node : ToSet(b.inc[n]) \subseteq ToSet(a.inc[n])
<1> SUFFICES ASSUME NEW n \in Node PROVE ToSet(b.inc[n]) \subseteq ToSet(a.inc[n])
  OBVIOUS
<1>1. IncOK(a, n) /\ IncOK(b, n) /\ ToSet(b.inc[n]) \subseteq Edge
  BY GoodLists DEF Good, EdgesOK
<1>2. \A e \in Edge : Ends(b, e) = Ends(a, e)
  BY DEF SameEnds, Ends
<1> QED
  BY <1>1, <1>2 DEF IncOK

\* What has been taken out can still go back when more has been taken out.
LEMMA EntryKept ==
  ASSUME NEW a, NEW b, SameEnds(a, b), b.owner = a.owner, Graphs(b) = Graphs(a),
         NEW x, EntryOK(a, x), x.node \notin Live(b), x.edge \notin Known(b)
  PROVE  EntryOK(b, x) /\ Other(b, x) = Other(a, x)
<1>1. b.source = a.source /\ b.target = a.target /\ b.isInter = a.isInter
  BY DEF SameEnds
<1>2. Other(b, x) = Other(a, x) /\ Ends(b, x.edge) = Ends(a, x.edge)
  BY <1>1 DEF Other, OtherEnd, Ends
<1> QED
  BY <1>1, <1>2 DEF EntryOK

NodesIn(X) == {x.node : x \in X}

EdgesIn(X) == {x.edge : x \in X}

\* a is b when the first k leaves of the list have been looked at, and those
\* of them that are in the layer taken out.
PeeledTo(b, a, X) ==
  /\ Good(a) /\ a.owner = b.owner /\ SameGraphs(b, a) /\ SameEnds(b, a) /\ SameCaches(b, a) /\ Filled(a)
  /\ Live(a) = Live(b) \ NodesIn(X) /\ Known(a) = Known(b) \ EdgesIn(X) /\ ApartOK(X)
  /\ NodesIn(X) \subseteq Live(b) /\ EdgesIn(X) \subseteq Known(b)

Peeled(b, list, k, a, layer) ==
  /\ PeeledTo(b, a, ToSet(layer))
  /\ layer \in Seq(Entries) /\ IsInjective(layer)
  /\ \A x \in ToSet(layer) :
        /\ EntryOK(a, x) /\ x.node \in Seen(list, k) /\ Other(a, x) \in Live(a)
        /\ \A j \in (k + 1)..Len(list) : list[j] = Other(a, x) => ToSet(a.inc[list[j]]) = {}

Leafing(a, b, n, e, x) ==
  /\ ToSet(a.inc[n]) = {e} /\ e \in Known(a) /\ n \in Ends(a, e) /\ ToSet(b.inc[n]) = {e}
  /\ ~a.isInter[e] /\ n \notin Graphs(a) /\ x \in Entries /\ a.source[e] # a.target[e]
  /\ Other(a, x) \in Live(a) /\ Other(a, x) # n /\ Ends(a, e) = {n, Other(a, x)}
  /\ a.owner[Other(a, x)] = a.owner[n]

LEMMA LaterMember ==
  ASSUME NEW layers, NEW i
  PROVE  \A y : y \in Later(layers, i) <=> \E j \in DOMAIN layers : \E x \in ToSet(layers[j]) : j > i /\ y = x.node
BY DEF Later

LayerAdded(layers, L, l2) ==
  /\ l2 \in Seq(Seq(Entries)) /\ Len(layers) \in Nat
  /\ DOMAIN layers = 1..Len(layers) /\ DOMAIN l2 = 1..(Len(layers) + 1)
  /\ l2[Len(layers) + 1] = L
  /\ \A i \in DOMAIN layers : l2[i] = layers[i]
  /\ Out(l2) = Out(layers) \cup ToSet(L)
  /\ \A i \in DOMAIN layers : Later(l2, i) = Later(layers, i) \cup NodesIn(ToSet(L))
  /\ Later(l2, Len(layers) + 1) = {}

\* A layer more.
LEMMA AppendLayer ==
  ASSUME NEW layers, layers \in Seq(Seq(Entries)), NEW L, L \in Seq(Entries), NEW l2, l2 = Append(layers, L)
  PROVE  LayerAdded(layers, L, l2)
<1>1. /\ l2 \in Seq(Seq(Entries)) /\ Len(layers) \in Nat /\ DOMAIN layers = 1..Len(layers)
      /\ DOMAIN l2 = 1..(Len(layers) + 1) /\ l2[Len(layers) + 1] = L
      /\ \A i \in DOMAIN layers : l2[i] = layers[i]
  OBVIOUS
<1>2. Out(l2) = Out(layers) \cup ToSet(L)
  <2>1. Out(l2) \subseteq Out(layers) \cup ToSet(L)
    <3> SUFFICES ASSUME NEW i \in DOMAIN l2, NEW x \in ToSet(l2[i]) PROVE x \in Out(layers) \cup ToSet(L)
      BY DEF Out
    <3>1. i \in DOMAIN layers \/ i = Len(layers) + 1
      BY <1>1
    <3> QED
      BY <3>1, <1>1 DEF Out
  <2>2. Out(layers) \subseteq Out(l2)
    <3> SUFFICES ASSUME NEW i \in DOMAIN layers, NEW x \in ToSet(layers[i]) PROVE x \in Out(l2)
      BY DEF Out
    <3>1. i \in DOMAIN l2 /\ l2[i] = layers[i]
      BY <1>1
    <3> QED
      BY <3>1 DEF Out
  <2>3. ToSet(L) \subseteq Out(l2)
    <3>1. Len(layers) + 1 \in DOMAIN l2
      BY <1>1
    <3> QED
      BY <3>1, <1>1 DEF Out
  <2> QED
    BY <2>1, <2>2, <2>3
<1>3. ASSUME NEW i \in DOMAIN layers PROVE Later(l2, i) = Later(layers, i) \cup NodesIn(ToSet(L))
  <2>1. Later(l2, i) \subseteq Later(layers, i) \cup NodesIn(ToSet(L))
    <3> SUFFICES ASSUME NEW y \in Later(l2, i) PROVE y \in Later(layers, i) \cup NodesIn(ToSet(L))
      OBVIOUS
    <3>b. \A z : z \in Later(l2, i) <=> \E j \in DOMAIN l2 : \E x \in ToSet(l2[j]) : j > i /\ z = x.node
      BY ONLY LaterMember
    <3>a. PICK j \in DOMAIN l2 : \E x \in ToSet(l2[j]) : j > i /\ y = x.node
      BY ONLY <3>b, y \in Later(l2, i)
    <3>0. PICK x \in ToSet(l2[j]) : j > i /\ y = x.node
      BY <3>a
    <3>1. j \in DOMAIN layers \/ j = Len(layers) + 1
      BY <1>1, <3>0
    <3>2. CASE j \in DOMAIN layers
      <4>1. x \in ToSet(layers[j])
        BY <3>0, <3>2, <1>1
      <4> QED
        BY <3>0, <3>2, <4>1, LaterMember
    <3>3. CASE j = Len(layers) + 1
      <4>1. l2[j] = L
        BY <3>3, <1>1
      <4>2. x \in ToSet(L)
        BY ONLY <4>1, <3>0
      <4> QED
        BY <3>0, <4>2 DEF NodesIn
    <3> QED
      BY <3>1, <3>2, <3>3
  <2>2. Later(layers, i) \subseteq Later(l2, i)
    <3> SUFFICES ASSUME NEW y \in Later(layers, i) PROVE y \in Later(l2, i)
      OBVIOUS
    <3>a. PICK j \in DOMAIN layers : \E x \in ToSet(layers[j]) : j > i /\ y = x.node
      BY LaterMember
    <3>0. PICK x \in ToSet(layers[j]) : j > i /\ y = x.node
      BY <3>a
    <3>1. j \in DOMAIN l2 /\ l2[j] = layers[j]
      BY <1>1, <3>0
    <3> QED
      BY <3>0, <3>1, LaterMember
  <2>3. NodesIn(ToSet(L)) \subseteq Later(l2, i)
    <3> SUFFICES ASSUME NEW x \in ToSet(L) PROVE x.node \in Later(l2, i)
      BY DEF NodesIn
    <3> DEFINE j == Len(layers) + 1
    <3>2. j \in DOMAIN l2 /\ j > i /\ l2[j] = L
      BY <1>1
    <3> HIDE DEF j
    <3>1. j \in DOMAIN l2 /\ j > i /\ x \in ToSet(l2[j])
      BY ONLY <3>2, x \in ToSet(L)
    <3> QED
      BY <3>1, LaterMember
  <2> QED
    BY <2>1, <2>2, <2>3
<1>4. Later(l2, Len(layers) + 1) = {}
  <2>1. {k \in DOMAIN l2 : k > Len(layers) + 1} = {}
    BY <1>1
  <2> QED
    BY <2>1 DEF Later
<1> QED
  BY <1>1, <1>2, <1>3, <1>4 DEF LayerAdded

\* What is out can stay out in any graph that has the same nodes and edges.
LEMMA LayersKept ==
  ASSUME NEW a, NEW layers, LayersOK(a, layers), NEW b, SameEnds(a, b), b.owner = a.owner,
         Live(b) = Live(a), Known(b) = Known(a), Graphs(b) = Graphs(a)
  PROVE  LayersOK(b, layers)
<1>1. \A x \in Out(layers) : EntryOK(b, x) /\ Other(b, x) = Other(a, x)
  <2> SUFFICES ASSUME NEW x \in Out(layers) PROVE EntryOK(b, x) /\ Other(b, x) = Other(a, x)
    OBVIOUS
  <2>1. EntryOK(a, x)
    BY DEF LayersOK
  <2>2. x.node \notin Live(b) /\ x.edge \notin Known(b)
    BY <2>1 DEF EntryOK
  <2> QED
    BY <2>1, <2>2, EntryKept
<1>2. \A i \in DOMAIN layers : \A x \in ToSet(layers[i]) : x \in Out(layers)
  BY DEF Out
<1> QED
  BY <1>1, <1>2 DEF LayersOK

\* a is the graph b0 without what is in the layers, which can go back.
Reduced(b0, a, layers) ==
  /\ Good(a) /\ SameGraphs(b0, a) /\ a.owner = b0.owner /\ SameEnds(b0, a) /\ Filled(a)
  /\ LayersOK(a, layers)
  /\ Live(b0) = Live(a) \cup NodesIn(Out(layers)) /\ Known(b0) = Known(a) \cup EdgesIn(Out(layers))

LEMMA AlikeReduced ==
  ASSUME NEW b0, NEW a, NEW layers, Reduced(b0, a, layers), NEW b, Alike(a, b)
  PROVE  Reduced(b0, b, layers)
<1>1. /\ Good(a) /\ SameGraphs(b0, a) /\ a.owner = b0.owner /\ SameEnds(b0, a) /\ Filled(a)
      /\ LayersOK(a, layers)
      /\ Live(b0) = Live(a) \cup NodesIn(Out(layers)) /\ Known(b0) = Known(a) \cup EdgesIn(Out(layers))
  BY DEF Reduced
<1>2. Good(b) /\ Live(b) = Live(a) /\ Known(b) = Known(a) /\ Graphs(b) = Graphs(a) /\ Filled(b)
  BY <1>1, AlikeGood
<1>3. SameGraphs(a, b) /\ b.owner = a.owner /\ SameEnds(a, b)
  BY DEF Alike, SameTree, SameEdges
<1>4. LayersOK(b, layers)
  BY <1>1, <1>2, <1>3, LayersKept
<1>5. SameGraphs(b0, b) /\ SameEnds(b0, b)
  BY <1>1, <1>3 DEF SameGraphs, SameEnds
<1> QED
  BY <1>1, <1>2, <1>3, <1>4, <1>5 DEF Reduced

LEMMA PeelReduced ==
  ASSUME NEW b0, NEW a, NEW layers, Reduced(b0, a, layers), NEW list, NEW k, NEW d, NEW L,
         Peeled(a, list, k, d, L), NEW l2, l2 = Append(layers, L)
  PROVE  Reduced(b0, d, l2)
<1>1. /\ Good(a) /\ SameGraphs(b0, a) /\ a.owner = b0.owner /\ SameEnds(b0, a)
      /\ LayersOK(a, layers)
      /\ Live(b0) = Live(a) \cup NodesIn(Out(layers)) /\ Known(b0) = Known(a) \cup EdgesIn(Out(layers))
  BY DEF Reduced
<1>2. /\ Good(d) /\ d.owner = a.owner /\ SameGraphs(a, d) /\ SameEnds(a, d) /\ Filled(d)
      /\ Live(d) = Live(a) \ NodesIn(ToSet(L)) /\ Known(d) = Known(a) \ EdgesIn(ToSet(L)) /\ ApartOK(ToSet(L))
      /\ NodesIn(ToSet(L)) \subseteq Live(a) /\ EdgesIn(ToSet(L)) \subseteq Known(a)
  BY DEF Peeled, PeeledTo
<1>3. /\ L \in Seq(Entries) /\ IsInjective(L)
      /\ \A x \in ToSet(L) : EntryOK(d, x) /\ Other(d, x) \in Live(d)
  BY DEF Peeled
<1>4. /\ layers \in Seq(Seq(Entries)) /\ \A x \in Out(layers) : EntryOK(a, x)
      /\ ApartOK(Out(layers)) /\ AllApart(layers)
      /\ \A i \in DOMAIN layers : \A x \in ToSet(layers[i]) : Other(a, x) \in Live(a) \cup Later(layers, i)
  BY <1>1 DEF LayersOK
<1> DEFINE N == Len(layers)
<1>5. /\ l2 \in Seq(Seq(Entries)) /\ N \in Nat
      /\ DOMAIN layers = 1..N /\ DOMAIN l2 = 1..(N + 1)
      /\ l2[N + 1] = L
      /\ \A i \in DOMAIN layers : l2[i] = layers[i]
      /\ Out(l2) = Out(layers) \cup ToSet(L)
      /\ \A i \in DOMAIN layers : Later(l2, i) = Later(layers, i) \cup NodesIn(ToSet(L))
  <2>1. LayerAdded(layers, L, l2)
    BY ONLY <1>3, <1>4, l2 = Append(layers, L), AppendLayer
  <2> QED
    BY <2>1 DEF LayerAdded
<1> HIDE DEF N
<1>6. Graphs(d) = Graphs(a)
  BY <1>2 DEF SameGraphs, Graphs
<1>7. \A x \in Out(layers) : EntryOK(d, x) /\ Other(d, x) = Other(a, x)
  <2> SUFFICES ASSUME NEW x \in Out(layers) PROVE EntryOK(d, x) /\ Other(d, x) = Other(a, x)
    OBVIOUS
  <2>1. EntryOK(a, x)
    BY <1>4
  <2>2. x.node \notin Live(d) /\ x.edge \notin Known(d)
    BY <2>1, <1>2 DEF EntryOK
  <2> QED
    BY <2>1, <2>2, <1>2, <1>6, EntryKept
<1>8. \A x \in Out(layers) : \A y \in ToSet(L) : x.node # y.node /\ x.edge # y.edge /\ x # y
  <2> SUFFICES ASSUME NEW x \in Out(layers), NEW y \in ToSet(L) PROVE x.node # y.node /\ x.edge # y.edge /\ x # y
    OBVIOUS
  <2>1. x.node \notin Live(a) /\ x.edge \notin Known(a)
    BY <1>4 DEF EntryOK
  <2>2. y.node \in Live(a) /\ y.edge \in Known(a)
    BY <1>2 DEF NodesIn, EdgesIn
  <2> QED
    BY <2>1, <2>2
<1>9. ApartOK(Out(l2))
  <2> SUFFICES ASSUME NEW x \in Out(layers) \cup ToSet(L), NEW y \in Out(layers) \cup ToSet(L),
                      x.node = y.node \/ x.edge = y.edge
               PROVE  x = y
    BY <1>5 DEF ApartOK
  <2> QED
    BY <1>2, <1>4, <1>8 DEF ApartOK
<1>10. AllApart(l2)
  <2>1. \A i \in DOMAIN l2 : i \in DOMAIN layers \/ i = N + 1
    BY <1>5
  <2>2. \A i \in DOMAIN layers : ToSet(layers[i]) \subseteq Out(layers)
    BY DEF Out
  <2>3. \A i \in DOMAIN layers : ToSet(layers[i]) \cap ToSet(L) = {}
    BY <2>2, <1>8
  <2>4. \A i \in DOMAIN l2 : IsInjective(l2[i])
    BY <2>1, <1>3, <1>4, <1>5 DEF AllApart
  <2>5. ASSUME NEW i \in DOMAIN l2, NEW j \in DOMAIN l2, i # j PROVE ToSet(l2[i]) \cap ToSet(l2[j]) = {}
    <3>1. CASE i \in DOMAIN layers /\ j \in DOMAIN layers
      BY <3>1, <2>5, <1>4, <1>5 DEF AllApart
    <3>2. CASE i \in DOMAIN layers /\ j = N + 1
      BY <3>2, <2>3, <1>5
    <3>3. CASE i = N + 1 /\ j \in DOMAIN layers
      BY <3>3, <2>3, <1>5
    <3> QED
      BY <3>1, <3>2, <3>3, <2>1, <2>5
  <2> QED
    BY <2>4, <2>5 DEF AllApart
<1>11. ASSUME NEW i \in DOMAIN l2, NEW x \in ToSet(l2[i]) PROVE Other(d, x) \in Live(d) \cup Later(l2, i)
  <2>1. CASE i \in DOMAIN layers
    <3>1. l2[i] = layers[i] /\ Later(l2, i) = Later(layers, i) \cup NodesIn(ToSet(L))
      BY <2>1, <1>5
    <3>2. x \in ToSet(layers[i])
      BY <3>1
    <3>3. x \in Out(layers)
      BY <2>1, <3>2 DEF Out
    <3>4. Other(a, x) \in Live(a) \cup Later(layers, i)
      BY <2>1, <3>2, <1>4
    <3>5. Live(a) = Live(d) \cup NodesIn(ToSet(L))
      BY <1>2
    <3> QED
      BY <3>1, <3>3, <3>4, <3>5, <1>7
  <2>2. CASE i = N + 1
    <3>1. l2[i] = L
      BY <2>2, <1>5
    <3>2. x \in ToSet(L)
      BY ONLY <3>1, x \in ToSet(l2[i])
    <3> QED
      BY <3>2, <1>3
  <2> QED
    BY <2>1, <2>2, <1>5
<1>12. LayersOK(d, l2)
  BY <1>3, <1>5, <1>7, <1>9, <1>10, <1>11 DEF LayersOK
<1>13. SameGraphs(b0, d) /\ SameEnds(b0, d) /\ d.owner = b0.owner
  BY <1>1, <1>2 DEF SameGraphs, SameEnds
<1>14. NodesIn(Out(l2)) = NodesIn(Out(layers)) \cup NodesIn(ToSet(L))
       /\ EdgesIn(Out(l2)) = EdgesIn(Out(layers)) \cup EdgesIn(ToSet(L))
  BY <1>5 DEF NodesIn, EdgesIn
<1>15. Live(b0) = Live(d) \cup NodesIn(Out(l2)) /\ Known(b0) = Known(d) \cup EdgesIn(Out(l2))
  BY <1>1, <1>2, <1>14
<1> QED
  BY <1>2, <1>12, <1>13, <1>15 DEF Reduced

LEMMA NothingOut ==
  ASSUME NEW s, s = <<>>, NEW a
  PROVE  LayersOK(a, s) /\ Out(s) = {} /\ NodesIn(Out(s)) = {} /\ EdgesIn(Out(s)) = {}
<1>1. DOMAIN s = {} /\ s \in Seq(Seq(Entries))
  OBVIOUS
<1>2. Out(s) = {} /\ AllApart(s) /\ ApartOK({})
  BY <1>1 DEF Out, AllApart, ApartOK
<1> QED
  BY <1>1, <1>2 DEF LayersOK, NodesIn, EdgesIn

(***************************************************************************)
(* The gravity list, and the graph as the spring embedder finds it.        *)
(***************************************************************************)
InGraph(list, X) == Those(list, LAMBDA n : Contains(X, n))

LEMMA InGraphIsSublist ==
  ASSUME NEW s, s \in Seq(Node), NEW X
  PROVE  Sublist(InGraph(s, X), s, {x \in ToSet(s) : Contains(X, x)})
<1>0. s \in Seq(Node)
  OBVIOUS
<1> DEFINE list == s
           T == {x \in ToSet(list) : Contains(X, x)}
           Q(f) == f = [k \in 0..Len(list) |-> IF k = 0 THEN <<>> ELSE
                          IF Contains(X, list[k]) THEN Append(f[k - 1], list[k]) ELSE f[k - 1]]
           w == CHOOSE f : Q(f)
<1>1. list \in Seq(Node) /\ T \subseteq ToSet(list)
  BY <1>0
<1>2. \A f : IsSieve(f, list, T) <=> Q(f)
  <2>0. list \in Seq(Node)
    BY <1>1
  <2> HIDE DEF list
  <2>1. \A k \in 0..Len(list) : k # 0 => (list[k] \in T <=> (Contains(X, list[k])))
    BY <2>0, SeenTurns
  <2> HIDE DEF T
  <2> QED
    BY <2>1 DEF IsSieve
<1>3. \E f : Q(f)
  <2> HIDE DEF Q, T, list
  <2> QED
    BY <1>1, <1>2, SieveExists
<1>4. IsSieve(w, list, T)
  <2> HIDE DEF Q
  <2> QED
    BY <1>2, <1>3
<1>5. InGraph(s, X) = w[Len(list)]
  BY DEF InGraph, Those, InTurn
<1> HIDE DEF w, list, T
<1> QED
  <2>1. Sublist(w[Len(list)], list, T)
    BY <1>1, <1>4, SieveIsSublist
  <2> QED
    BY <2>1, <1>5 DEF list, T

LEMMA InGraphList ==
  ASSUME NEW s, s \in Seq(Node), NEW X
  PROVE  InGraph(s, X) \in Seq(Node) /\ ToSet(InGraph(s, X)) = {x \in ToSet(s) : Contains(X, x)}
<1> DEFINE T == {x \in ToSet(s) : Contains(X, x)}
           t == InGraph(s, X)
<1>1. Sublist(t, s, T)
  BY InGraphIsSublist
<1>2. T \subseteq Node
  BY Members
<1> HIDE DEF t, T
<1>3. t \in Seq(T) /\ ToSet(t) = T
  BY <1>1 DEF Sublist
<1>4. t \in Seq(Node)
  BY <1>2, <1>3, WiderSeq
<1> QED
  BY <1>3, <1>4 DEF t, T

Gravitated(a, b, list) ==
  /\ Alike(a, b) /\ Fresh(b) /\ b.gravity = InGraph(list, LiveNodes(b))
  /\ b.allNodes = LiveNodes(b) /\ b.allEdges = a.allEdges

\* Setting the gravity list, which is null before.
LEMMA SetGravityGood ==
  ASSUME NEW a, Good(a), a.gravity = Null, NEW list, list \in Seq(Node), NEW b, b = SetGravity(a, list)
  PROVE  Cached(a, b, a.allNodes, a.allEdges, list)
<1>1. a \in Managers /\ ~a.thrown
  BY DEF Good
<1>2. b = [a EXCEPT !.gravity = list]
  BY <1>1 DEF SetGravity, Guarded
<1>3. list \in Maybe(NodeLists) /\ Null \in Maybe(EdgeLists)
  BY DEF Maybe, NodeLists
<1> QED
  BY <1>1, <1>2, <1>3, CacheForms

\* What the spring embedder works on, and what is out.
Springy(B, list, a, layers) ==
  Reduced(B, a, layers) /\ Fresh(a) /\ a.gravity = InGraph(list, LiveNodes(a))

LEMMA ReducedFrom ==
  ASSUME NEW B, Good(B), NEW b, Alike(B, b), NEW a, NEW layers, Reduced(b, a, layers)
  PROVE  Reduced(B, a, layers)
<1>1. Live(b) = Live(B) /\ Known(b) = Known(B)
  BY AlikeGood
<1>2. SameGraphs(B, b) /\ b.owner = B.owner /\ SameEnds(B, b)
  BY DEF Alike, SameTree, SameEdges
<1>3. /\ Good(a) /\ SameGraphs(b, a) /\ a.owner = b.owner /\ SameEnds(b, a) /\ Filled(a)
      /\ LayersOK(a, layers)
      /\ Live(b) = Live(a) \cup NodesIn(Out(layers)) /\ Known(b) = Known(a) \cup EdgesIn(Out(layers))
  BY DEF Reduced
<1>4. SameGraphs(B, a) /\ SameEnds(B, a)
  BY <1>2, <1>3 DEF SameGraphs, SameEnds
<1> QED
  BY <1>1, <1>2, <1>3, <1>4 DEF Reduced

\* With the lists of all nodes and of all edges, and the lowest common
\* ancestors, none of which is missing.
Listed(B, list) == GetAllEdges(GetAllNodes(SetGravity(B, list)))

Ancestors(b) == {Lca(b, e).graph : e \in ToSet(AllEdges(b))}

LEMMA ListedGood ==
  ASSUME NEW B, Good(B), Ranked(B), Rooted(B), NoCaches(B), NEW list, list \in Seq(Node),
         NEW b, b = Listed(B, list)
  PROVE  /\ Alike(B, b) /\ Fresh(b) /\ b.gravity = list /\ Good(b)
         /\ Guarded(b, Null \notin Ancestors(b), b) = b
<1> DEFINE b1 == SetGravity(B, list)
           b2 == GetAllNodes(b1)
<1>1. B.allNodes = Null /\ B.allEdges = Null /\ B.gravity = Null
  BY DEF NoCaches
<1>2. Cached(B, b1, B.allNodes, B.allEdges, list)
  BY <1>1, SetGravityGood
<1>3. b = GetAllEdges(b2)
  BY DEF Listed
<1> HIDE DEF b1
<1>4. Alike(B, b1) /\ b1.allNodes = Null /\ b1.allEdges = Null /\ b1.gravity = list
  BY <1>1, <1>2 DEF Cached
<1>5. Good(b1) /\ Fresh(b1)
  BY <1>4, AlikeGood DEF Fresh
<1>6. Alike(b1, b2) /\ Fresh(b2) /\ b2.gravity = list
  BY <1>4, <1>5, GetAll
<1> HIDE DEF b2
<1>7. Good(b2)
  BY <1>5, <1>6, AlikeGood
<1>8. Alike(b2, b) /\ Fresh(b) /\ b.gravity = list
  BY <1>3, <1>6, <1>7, GetAll
<1>9. Alike(B, b)
  BY <1>4, <1>6, <1>8 DEF Alike, SameTree, SameGraphs, SameEdges, SameEnds
<1>10. Good(b) /\ Ranked(b) /\ Rooted(b)
  BY <1>9, AlikeGood
<1>11. AllEdges(b) = LiveEdges(b) /\ ToSet(LiveEdges(b)) = Known(b)
  BY <1>8, <1>10, FreshLists, LiveLists
<1>12. \A e \in ToSet(AllEdges(b)) : Lca(b, e).graph # Null
  BY <1>10, <1>11, LcaExists
<1>13. Null \notin Ancestors(b)
  BY <1>12 DEF Ancestors
<1>14. Guarded(b, Null \notin Ancestors(b), b) = b
  BY <1>13 DEF Guarded
<1> QED
  BY <1>8, <1>9, <1>10, <1>14

(***************************************************************************)
(* Leaves that go back.                                                    *)
(***************************************************************************)
\* What can go back into b: each leaf beside a node that is there.
BackOK(b, list) ==
  /\ list \in Seq(Entries) /\ IsInjective(list) /\ ApartOK(ToSet(list))
  /\ \A x \in ToSet(list) : EntryOK(b, x) /\ Other(b, x) \in Live(b)

Regrown(b, a, X) ==
  /\ Good(a) /\ a.owner = b.owner /\ SameGraphs(b, a) /\ SameEnds(b, a) /\ SameCaches(b, a) /\ Filled(a)
  /\ Live(a) = Live(b) \cup NodesIn(X) /\ Known(a) = Known(b) \cup EdgesIn(X)

\* The last of several layers and those before it.
LEMMA FrontAndLast ==
  ASSUME NEW layers, layers \in Seq(Seq(Entries)), layers # <<>>
  PROVE  /\ Front(layers) \in Seq(Seq(Entries)) /\ Last(layers) \in Seq(Entries)
         /\ LayerAdded(Front(layers), Last(layers), layers)
<1> DEFINE N == Len(layers)
           F == Front(layers)
           L == Last(layers)
<1>1. N \in Nat /\ N >= 1 /\ DOMAIN layers = 1..N
  BY Members
<1>2. F = [i \in 1..(N - 1) |-> layers[i]] /\ L = layers[N]
  BY <1>1 DEF Front, Last
<1>3. F \in Seq(Seq(Entries)) /\ L \in Seq(Entries) /\ Len(F) = N - 1
  BY <1>1 DEF Front, Last
<1> DEFINE T == Seq(Entries)
<1>4. F \in Seq(T) /\ L \in T /\ layers \in Seq(T) /\ L = layers[N] /\ \A i \in 1..(N - 1) : F[i] = layers[i]
  <2>1. \A i \in 1..(N - 1) : F[i] = layers[i]
    <3> HIDE DEF F
    <3> QED
      BY <1>1, <1>2
  <2> QED
    BY <2>1, <1>2, <1>3
<1>7. N \in Nat /\ N >= 1 /\ N = Len(layers) /\ Len(F) = N - 1
  BY <1>1, <1>3
<1> HIDE DEF T, F, L, N
<1>5. layers = Append(F, L)
  <2> DEFINE A == Append(F, L)
  <2>1. /\ A \in Seq(T) /\ Len(A) = (N - 1) + 1 /\ A[(N - 1) + 1] = L /\ \A i \in 1..(N - 1) : A[i] = F[i]
    <3>1. /\ Append(F, L) \in Seq(T) /\ Len(Append(F, L)) = Len(F) + 1
          /\ Append(F, L)[Len(F) + 1] = L /\ \A i \in 1..Len(F) : Append(F, L)[i] = F[i]
      BY ONLY <1>4, AppendMembers
    <3> QED
      BY <3>1, <1>7
  <2> HIDE DEF A
  <2>2. (N - 1) + 1 = N /\ Len(layers) = N /\ \A i \in 1..N : i \in 1..(N - 1) \/ i = N
    BY ONLY <1>7
  <2>5. Len(A) = N /\ A[N] = L
    BY ONLY <2>1, <2>2
  <2>6. ASSUME NEW i \in 1..N PROVE A[i] = layers[i]
    <3>1. CASE i = N
      BY ONLY <3>1, <2>5, <1>4
    <3>2. CASE i \in 1..(N - 1)
      BY ONLY <3>2, <2>1, <1>4
    <3> QED
      BY <3>1, <3>2, <2>2
  <2>3. Len(A) = Len(layers) /\ \A i \in 1..Len(A) : A[i] = layers[i]
    BY ONLY <2>2, <2>5, <2>6
  <2>4. A = layers
    BY ONLY <2>1, <2>3, <1>4, SeqEqual
  <2> QED
    BY <2>4 DEF A
<1> HIDE DEF F, L
<1>6. LayerAdded(F, L, layers)
  BY ONLY <1>3, <1>5, AppendLayer
<1> QED
  BY <1>3, <1>6 DEF F, L

(***************************************************************************)
(* What a tick does before it looks for forces.                            *)
(***************************************************************************)
Bare(a) == Good(a) /\ Ranked(a) /\ Rooted(a) /\ Filled(a) /\ NoCaches(a)

LEMMA BoundsStay ==
  ASSUME NEW a, Good(a), Filled(a)
  PROVE  UpdateBounds(a) = a
<1>1. ~a.thrown /\ a.root = RootNode
  BY DEF Good, TreeOK
<1> QED
  BY <1>1 DEF UpdateBounds, Guarded, Filled

LEMMA SpringyFacts ==
  ASSUME NEW B, NEW list, NEW a, NEW layers, Springy(B, list, a, layers)
  PROVE  Reduced(B, a, layers) /\ Good(a) /\ Filled(a) /\ Fresh(a) /\ UpdateBounds(a) = a
<1>1. Reduced(B, a, layers) /\ Fresh(a) /\ Good(a) /\ Filled(a)
  BY DEF Springy, Reduced
<1> QED
  BY <1>1, BoundsStay

LEMMA AlikeSpringy ==
  ASSUME NEW B, NEW list, NEW a, NEW layers, Springy(B, list, a, layers),
         NEW b, Alike(a, b), Fresh(b), b.gravity = a.gravity
  PROVE  Springy(B, list, b, layers)
<1>1. Reduced(B, a, layers) /\ Good(a) /\ a.gravity = InGraph(list, LiveNodes(a))
  BY DEF Springy, Reduced
<1>2. Reduced(B, b, layers) /\ LiveNodes(b) = LiveNodes(a)
  BY <1>1, AlikeReduced, AlikeGood
<1> QED
  BY <1>1, <1>2 DEF Springy

\* The lists that are asked for at the beginning of a tick.
Ready(a) == GetAllEdges(GetAllNodes(UpdateBounds(a)))

LEMMA ReadySpringy ==
  ASSUME NEW B, NEW list, NEW a, NEW layers, Springy(B, list, a, layers)
  PROVE  /\ Springy(B, list, Ready(a), layers) /\ Alike(a, Ready(a))
         /\ Springy(B, list, GetAllNodes(UpdateBounds(a)), layers)
<1> DEFINE b == GetAllNodes(a)
           d == GetAllEdges(b)
<1>1. Good(a) /\ Fresh(a) /\ UpdateBounds(a) = a
  BY SpringyFacts
<1>2. Alike(a, b) /\ Fresh(b) /\ b.gravity = a.gravity
  BY <1>1, GetAll
<1>3. Ready(a) = d /\ GetAllNodes(UpdateBounds(a)) = b
  BY <1>1 DEF Ready
<1> HIDE DEF b
<1>4. Good(b) /\ Springy(B, list, b, layers)
  BY <1>1, <1>2, AlikeGood, AlikeSpringy
<1>5. Alike(b, d) /\ Fresh(d) /\ d.gravity = b.gravity
  BY <1>2, <1>4, GetAll
<1> HIDE DEF d
<1>6. Springy(B, list, d, layers)
  BY <1>4, <1>5, AlikeSpringy
<1>7. Alike(a, d)
  BY <1>2, <1>5 DEF Alike, SameTree, SameGraphs, SameEdges, SameEnds
<1> QED
  BY <1>3, <1>4, <1>6, <1>7

(***************************************************************************)
(* Widening a set until it stays as it is.                                 *)
(***************************************************************************)
Widening(s, D) == s \in [SUBSET D -> SUBSET D] /\ \A V \in SUBSET D : V \subseteq s[V]

IsReach(r, D, s) == r = [V \in SUBSET D |-> IF s[V] = V THEN V ELSE r[s[V]]]

Missing(D) == [V \in SUBSET D |-> Cardinality(D \ V)]

LEMMA WideningClimbs ==
  ASSUME NEW D, IsFiniteSet(D), NEW s, Widening(s, D)
  PROVE  /\ Missing(D) \in [SUBSET D -> Nat]
         /\ \A V \in SUBSET D : s[V] # V => Missing(D)[s[V]] < Missing(D)[V]
<1>1. \A V \in SUBSET D : IsFiniteSet(D \ V) /\ Cardinality(D \ V) \in Nat
  <2> SUFFICES ASSUME NEW V \in SUBSET D PROVE IsFiniteSet(D \ V) /\ Cardinality(D \ V) \in Nat
    OBVIOUS
  <2>1. IsFiniteSet(D \ V)
    BY FS_Subset
  <2> QED
    BY <2>1, FS_CardinalityType
<1>2. Missing(D) \in [SUBSET D -> Nat]
  BY <1>1 DEF Missing
<1>3. ASSUME NEW V \in SUBSET D, s[V] # V
      PROVE  Missing(D)[s[V]] < Missing(D)[V]
  <2>1. s[V] \in SUBSET D /\ V \subseteq s[V]
    BY DEF Widening
  <2>2. D \ s[V] \subseteq D \ V /\ D \ s[V] # D \ V
    BY <2>1, <1>3
  <2>3. Cardinality(D \ s[V]) < Cardinality(D \ V)
    <3> DEFINE T == D \ s[V]
               S == D \ V
    <3>1. T \in SUBSET S /\ T # S /\ IsFiniteSet(S)
      BY <2>2, <1>1
    <3> HIDE DEF T, S
    <3>2. Cardinality(T) \in Nat /\ Cardinality(S) \in Nat /\ Cardinality(T) <= Cardinality(S) /\ Cardinality(T) # Cardinality(S)
      BY <3>1, FS_Subset, FS_CardinalityType
    <3>3. Cardinality(T) < Cardinality(S)
      BY <3>2
    <3> QED
      BY <3>3 DEF T, S
  <2> QED
    BY <2>1, <2>3 DEF Missing
<1> QED
  BY <1>2, <1>3

LEMMA ReachExists ==
  ASSUME NEW D, IsFiniteSet(D), NEW s, Widening(s, D)
  PROVE  \E r : IsReach(r, D, s)
<1> DEFINE E == SUBSET D
           h == Missing(D)
           F == [f \in [E -> E] |-> [V \in E |-> IF s[V] = V THEN V ELSE f[s[V]]]]
<1>1. h \in [E -> Nat] /\ \A V \in E : s[V] # V => h[s[V]] < h[V]
  BY WideningClimbs
<1>2. s \in [E -> E]
  BY DEF Widening
<1> HIDE DEF h, E
<1>3. F \in [[E -> E] -> [E -> E]]
  BY <1>2
<1>4. OnLower(F, E, E, h)
  <2>1. E # {}
    BY DEF E
  <2> SUFFICES ASSUME NEW f \in [E -> E], NEW g \in [E -> E], NEW n \in E,
                      \A k \in E : h[k] < h[n] => f[k] = g[k]
               PROVE  F[f][n] = F[g][n]
    <3> HIDE DEF F
    <3> QED
      BY <1>1, <1>3, <2>1 DEF OnLower
  <2>2. s[n] # n => f[s[n]] = g[s[n]]
    BY <1>1, <1>2
  <2> QED
    BY <2>2
<1>5. PICK f : f \in [E -> E] /\ f = F[f]
  <2> HIDE DEF F
  <2> QED
    BY <1>4, TreeRecursion
<1>6. F[f] = [V \in E |-> IF s[V] = V THEN V ELSE f[s[V]]]
  BY <1>5
<1> QED
  BY <1>5, <1>6 DEF IsReach, E

\* The least set that contains V and stays as it is.
Closed(X, V, s) == V \subseteq X /\ \A U \in SUBSET X : s[U] \subseteq X

LEMMA ReachFacts ==
  ASSUME NEW D, IsFiniteSet(D), NEW s, Widening(s, D), NEW r, IsReach(r, D, s), NEW V, V \in SUBSET D
  PROVE  /\ r[V] \in SUBSET D /\ V \subseteq r[V] /\ s[r[V]] = r[V]
         /\ \A X \in SUBSET D : Closed(X, V, s) => r[V] \subseteq X
<1> DEFINE E == SUBSET D
           h == Missing(D)
           P == {U \in E : /\ r[U] \in E /\ U \subseteq r[U] /\ s[r[U]] = r[U]
                           /\ \A X \in E : Closed(X, U, s) => r[U] \subseteq X}
<1>1. h \in [E -> Nat] /\ \A U \in E : s[U] # U => h[s[U]] < h[U]
  BY WideningClimbs
<1>2. s \in [E -> E] /\ \A U \in E : U \subseteq s[U]
  BY DEF Widening
<1>3. \A U \in E : r[U] = IF s[U] = U THEN U ELSE r[s[U]]
  BY DEF IsReach
<1>4. \A U \in E : (\A k \in E : h[k] < h[U] => k \in P) => U \in P
  <2> SUFFICES ASSUME NEW U \in E, \A k \in E : h[k] < h[U] => k \in P PROVE U \in P
    OBVIOUS
  <2> HIDE DEF h
  <2>1. CASE s[U] = U
    <3>1. r[U] = U
      BY <2>1, <1>3
    <3>2. \A X \in E : Closed(X, U, s) => U \subseteq X
      BY DEF Closed
    <3> QED
      BY <2>1, <3>1, <3>2
  <2>2. CASE s[U] # U
    <3>1. r[U] = r[s[U]] /\ s[U] \in E
      BY <2>2, <1>2, <1>3
    <3>2. s[U] \in P
      BY <2>2, <3>1, <1>1
    <3>3. \A X \in E : Closed(X, U, s) => Closed(X, s[U], s)
      BY DEF Closed
    <3>4. U \subseteq s[U]
      BY <1>2
    <3> QED
      BY <3>1, <3>2, <3>3, <3>4
  <2> QED
    BY <2>1, <2>2
<1>5. E \subseteq P
  <2> HIDE DEF E, P, h
  <2> QED
    BY <1>1, <1>4, FromBelow
<1> QED
  BY <1>5

(***************************************************************************)
(* The way up from a node: who is on it, and once at most in each graph.   *)
(***************************************************************************)
Tree(a) == Good(a) /\ Ranked(a) /\ Rooted(a)

LEMMA AroundLive ==
  ASSUME NEW a, Tree(a), NEW n, n \in Live(a)
  PROVE  /\ Around(a, n) = IF a.owner[n] = RootNode THEN Null ELSE a.owner[n]
         /\ Around(a, n) # Null => Around(a, n) \in Live(a) /\ Around(a, n) = a.owner[n] /\ Around(a, n) \in Graphs(a)
<1>1. /\ a.owner[n] \in Node /\ a.owner[n] \in Graphs(a) /\ ParentOf(a, n) = a.owner[n]
      /\ a.root = RootNode
  BY LiveFacts DEF Tree
<1>2. a.owner[n] # RootNode => a.owner[n] \in Live(a)
  BY <1>1 DEF Tree, Rooted
<1> QED
  BY <1>1, <1>2 DEF Around

LEMMA ChainMembers ==
  ASSUME NEW a, Tree(a), NEW n, n \in Live(a)
  PROVE  /\ Chain(a, n) \in Seq(Node) /\ ToSet(Chain(a, n)) \subseteq Live(a) /\ n \in ToSet(Chain(a, n))
         /\ \A j, k \in ToSet(Chain(a, n)) : a.owner[j] = a.owner[k] => j = k
         /\ ToSet(Chain(a, n)) = IF Around(a, n) = Null THEN {n} ELSE {n} \cup ToSet(Chain(a, Around(a, n)))
<1>1. PICK h : IsHeight(h, Node, Up(a))
  BY HeightExists, NodeAssumption DEF Tree, Ranked
<1>2. Linked(a, h, Chain(a, n), n)
  BY <1>1, ChainIsLinked DEF Tree
<1>3. n \in Node /\ Chain(a, n) \in Seq(Node)
  BY LiveFacts, ChainRule DEF Tree
<1> DEFINE S == Chain(a, n)
<1>4. /\ ToSet(S) \subseteq Live(a) /\ n \in ToSet(S)
      /\ \A j, k \in ToSet(S) : a.owner[j] = a.owner[k] => j = k
  <2> HIDE DEF S
  <2>1. S \in Seq(Live(a)) /\ S # <<>> /\ S[1] = n
    BY <1>2 DEF Linked, S
  <2>2. ToSet(S) \subseteq Live(a) /\ DOMAIN S = 1..Len(S) /\ Len(S) \in Nat /\ Len(S) # 0
    BY ONLY <2>1, Members
  <2>3. 1 \in DOMAIN S
    BY <2>2
  <2>4. n \in ToSet(S)
    BY <2>1, <2>3 DEF ToSet
  <2>5. ASSUME NEW j \in ToSet(S), NEW k \in ToSet(S), a.owner[j] = a.owner[k]
        PROVE  j = k
    <3>1. PICK x \in DOMAIN S : S[x] = j
      BY DEF ToSet
    <3>2. PICK y \in DOMAIN S : S[y] = k
      BY DEF ToSet
    <3>3. h[a.owner[S[x]]] = h[a.owner[S[y]]]
      BY <3>1, <3>2, <2>5
    <3>4. h[a.owner[S[x]]] \in Nat
      <4>1. a.owner[S[x]] \in Node
        BY <3>1, <2>2, LiveFacts DEF Tree
      <4> QED
        BY <4>1, <1>1 DEF IsHeight
    <3>5. /\ x < y => h[a.owner[S[x]]] < h[a.owner[S[y]]]
          /\ y < x => h[a.owner[S[y]]] < h[a.owner[S[x]]]
      BY <1>2 DEF Linked, S
    <3>6. ~(x < y) /\ ~(y < x)
      BY ONLY <3>3, <3>4, <3>5
    <3>7. x = y
      BY <3>6, <2>2
    <3> QED
      BY <3>1, <3>2, <3>7
  <2> QED
    BY <2>2, <2>4, <2>5
<1>5. ToSet(S) = IF Around(a, n) = Null THEN {n} ELSE {n} \cup ToSet(Chain(a, Around(a, n)))
  <2>1. <<n>> \in Seq(Node) /\ ToSet(<<n>>) = {n}
    BY <1>3, Singleton
  <2>2. CASE Around(a, n) = Null
    BY <2>1, <2>2, <1>3, ChainRule DEF Tree
  <2>3. CASE Around(a, n) # Null
    <3>1. Around(a, n) \in Node
      BY <2>3, <1>3, ChainRule DEF Tree
    <3> DEFINE T == Chain(a, Around(a, n))
    <3>2. S = <<n>> \o T /\ T \in Seq(Node)
      BY <3>1, <2>3, <1>3, ChainRule DEF Tree
    <3> HIDE DEF S, T
    <3>3. ToSet(S) = {n} \cup ToSet(T)
      <4> DEFINE u == <<n>>
      <4>1. u \in Seq(Node) /\ ToSet(u) = {n} /\ S = u \o T /\ T \in Seq(Node)
        BY <2>1, <3>2
      <4> HIDE DEF u
      <4>2. ToSet(u \o T) = ToSet(u) \cup ToSet(T)
        BY ONLY <4>1, ConcatMembers
      <4> QED
        BY ONLY <4>1, <4>2
    <3> QED
      BY <3>3, <2>3 DEF T
  <2> QED
    BY <2>2, <2>3
<1> QED
  BY <1>3, <1>4, <1>5

LEMMA ChainBelow ==
  ASSUME NEW a, Tree(a), NEW k, k \in Live(a)
  PROVE  /\ \A n \in Live(a) : k \in ToSet(Chain(a, n)) <=> n \in WithChildren(a, k)
         /\ WithChildren(a, k) \subseteq Live(a)
<1>1. PICK d : IsDepth(d, Node, Up(a))
  BY DepthExists, NodeAssumption DEF Tree, Ranked
<1>2. PICK b : IsBelow(b, Node, KidsOf(a)) /\ \A n \in Node : WithChildren(a, n) = b[n]
  BY WithChildrenBelow DEF Tree
<1>3. PICK h : Forest(Node, KidsOf(a), Up(a), h)
  BY TreeForest DEF Tree
<1>4. k \in Node /\ k # RootNode /\ Live(a) \subseteq Node
  BY LiveFacts DEF Tree
<1>5. /\ b[k] = {k} \cup UNION {b[x] : x \in ToSet(KidsOf(a)[k])}
      /\ b[k] \subseteq Node /\ k \in b[k]
      /\ \A x \in b[k] : x = k \/ Up(a)[x] \in b[k]
      /\ \A x \in b[k] : ToSet(KidsOf(a)[x]) \subseteq b[k]
  BY <1>2, <1>3, <1>4, BelowFacts
<1>6. \A x \in Node : \A y : y \in ToSet(KidsOf(a)[x]) <=> y \in Live(a) /\ ParentOf(a, y) = x
  <2> SUFFICES ASSUME NEW x \in Node, NEW y PROVE y \in ToSet(KidsOf(a)[x]) <=> y \in Live(a) /\ ParentOf(a, y) = x
    OBVIOUS
  <2>1. KidsOf(a)[x] = Children(a, x)
    BY DEF KidsOf
  <2> QED
    BY <2>1, ChildrenFacts DEF Tree
<1> DEFINE W == {x \in Node : b[x] \subseteq {x} \cup Live(a)}
<1>9. \A x \in Node : (\A y \in Node : h[y] < h[x] => y \in W) => x \in W
  <2> SUFFICES ASSUME NEW x \in Node, \A y \in Node : h[y] < h[x] => y \in W
               PROVE  b[x] \subseteq {x} \cup Live(a)
    OBVIOUS
  <2>1. b[x] = {x} \cup UNION {b[y] : y \in ToSet(KidsOf(a)[x])}
    BY <1>2, <1>3, BelowFacts
  <2>2. \A y \in ToSet(KidsOf(a)[x]) : y \in Live(a) /\ y \in Node /\ h[y] < h[x]
    BY <1>3, <1>4, <1>6 DEF Forest
  <2>3. \A y \in ToSet(KidsOf(a)[x]) : b[y] \subseteq Live(a)
    BY <2>2
  <2> QED
    BY <2>1, <2>3
<1>10. Node \subseteq W
  <2>1. h \in [Node -> Nat]
    BY <1>3 DEF Forest
  <2> HIDE DEF W
  <2> QED
    BY <2>1, <1>9, FromBelow
<1> DEFINE P == {n \in Node : n \in Live(a) => (k \in ToSet(Chain(a, n)) <=> n \in b[k])}
<1>7. \A n \in Node : (\A x \in Node : d[x] < d[n] => x \in P) => n \in P
  <2> SUFFICES ASSUME NEW n \in Node, \A x \in Node : d[x] < d[n] => x \in P, n \in Live(a)
               PROVE  k \in ToSet(Chain(a, n)) <=> n \in b[k]
    OBVIOUS
  <2>1. CASE n = k
    BY <2>1, <1>5, ChainMembers
  <2>2. CASE n # k /\ Around(a, n) = Null
    <3>1. ToSet(Chain(a, n)) = {n}
      BY <2>2, ChainMembers
    <3>2. a.owner[n] = RootNode
      BY <2>2, AroundLive, LiveFacts, NodeAssumption DEF Tree
    <3>3. Up(a)[n] = RootNode
      BY <3>2, LiveFacts DEF Up, Tree
    <3>4. ASSUME n \in b[k] PROVE FALSE
      <4>1. RootNode \in b[k]
        BY <3>3, <3>4, <2>2, <1>5
      <4>2. RootNode \in Live(a)
        BY <4>1, <1>4, <1>10
      <4> QED
        BY <4>2, LiveFacts DEF Tree
    <3> QED
      BY <3>1, <3>4, <2>2
  <2>3. CASE n # k /\ Around(a, n) # Null
    <3> DEFINE p == Around(a, n)
    <3>1. p \in Live(a) /\ p = a.owner[n] /\ p \in Node
      BY <2>3, <1>4, AroundLive
    <3>2. ParentOf(a, n) = p /\ Up(a)[n] = p
      BY <3>1, LiveFacts DEF Up, Tree
    <3>3. d[p] < d[n]
      BY <3>1, <3>2, <1>1 DEF IsDepth
    <3>4. k \in ToSet(Chain(a, p)) <=> p \in b[k]
      BY <3>1, <3>3
    <3>5. k \in ToSet(Chain(a, n)) <=> k \in ToSet(Chain(a, p))
      BY <2>3, ChainMembers
    <3>6. n \in ToSet(KidsOf(a)[p])
      BY <3>1, <3>2, <1>6
    <3>7. n \in b[k] <=> p \in b[k]
      BY <3>2, <3>6, <1>5, <2>3
    <3> QED
      BY <3>4, <3>5, <3>7
  <2> QED
    BY <2>1, <2>2, <2>3
<1>8. Node \subseteq P
  <2>1. d \in [Node -> Nat]
    BY <1>1 DEF IsDepth
  <2> HIDE DEF P
  <2> QED
    BY <2>1, <1>7, FromBelow
<1>11. WithChildren(a, k) \subseteq Live(a)
  BY <1>2, <1>4, <1>10
<1> QED
  BY <1>8, <1>2, <1>4, <1>11

(***************************************************************************)
(* What lies near a node, as updateConnected looks for it.                 *)
(***************************************************************************)
WayUp(owner, root, parent, k) ==
  IF owner[k] = root THEN Null ELSE IF owner[k] = Null THEN Null ELSE parent[owner[k]]

ChainBy(owner, root, parent, n) ==
  LET up[k \in Node] == IF WayUp(owner, root, parent, k) = Null THEN <<k>>
                        ELSE <<k>> \o up[WayUp(owner, root, parent, k)]
  IN up[n]

LEMMA SameChains ==
  ASSUME NEW a, NEW b, SameGraphs(a, b), b.owner = a.owner
  PROVE  \A n : Chain(b, n) = Chain(a, n) /\ Around(b, n) = Around(a, n)
<1>1. b.root = a.root /\ b.parent = a.parent /\ b.owner = a.owner
  BY DEF SameGraphs
<1>2. \A n : Chain(a, n) = ChainBy(a.owner, a.root, a.parent, n)
  BY DEF Chain, Around, ParentOf, ChainBy, WayUp
<1>3. \A n : Chain(b, n) = ChainBy(b.owner, b.root, b.parent, n)
  BY DEF Chain, Around, ParentOf, ChainBy, WayUp
<1>4. \A n : Around(b, n) = Around(a, n)
  BY <1>1 DEF Around, ParentOf
<1> QED
  BY <1>1, <1>2, <1>3, <1>4

OnChain(a, x, G) == {k \in ToSet(Chain(a, x)) : a.owner[k] = G}

InLine(a, x, G) == Those(Chain(a, x), LAMBDA k : a.owner[k] = G)

LEMMA InLineIsSublist ==
  ASSUME NEW a, NEW n, Chain(a, n) \in Seq(Node), NEW G
  PROVE  Sublist(InLine(a, n, G), Chain(a, n), {x \in ToSet(Chain(a, n)) : a.owner[x] = G})
<1>0. Chain(a, n) \in Seq(Node)
  OBVIOUS
<1> DEFINE list == Chain(a, n)
           T == {x \in ToSet(list) : a.owner[x] = G}
           Q(f) == f = [k \in 0..Len(list) |-> IF k = 0 THEN <<>> ELSE
                          IF a.owner[list[k]] = G THEN Append(f[k - 1], list[k]) ELSE f[k - 1]]
           w == CHOOSE f : Q(f)
<1>1. list \in Seq(Node) /\ T \subseteq ToSet(list)
  BY <1>0
<1>2. \A f : IsSieve(f, list, T) <=> Q(f)
  <2>0. list \in Seq(Node)
    BY <1>1
  <2> HIDE DEF list
  <2>1. \A k \in 0..Len(list) : k # 0 => (list[k] \in T <=> (a.owner[list[k]] = G))
    BY <2>0, SeenTurns
  <2> HIDE DEF T
  <2> QED
    BY <2>1 DEF IsSieve
<1>3. \E f : Q(f)
  <2> HIDE DEF Q, T, list
  <2> QED
    BY <1>1, <1>2, SieveExists
<1>4. IsSieve(w, list, T)
  <2> HIDE DEF Q
  <2> QED
    BY <1>2, <1>3
<1>5. InLine(a, n, G) = w[Len(list)]
  BY DEF InLine, Those, InTurn
<1> HIDE DEF w, list, T
<1> QED
  <2>1. Sublist(w[Len(list)], list, T)
    BY <1>1, <1>4, SieveIsSublist
  <2> QED
    BY <2>1, <1>5 DEF list, T

\* The node of a graph an edge leads to is the one its end lies in, if any.
LEMMA OtherEndFacts ==
  ASSUME NEW a, Tree(a), NEW e, NEW n, OtherEnd(a, e, n) \in Live(a), NEW G
  PROVE  \A k : k # Null => (OtherEndInGraph(a, e, n, G) = k <=> k \in OnChain(a, OtherEnd(a, e, n), G))
<1> DEFINE x == OtherEnd(a, e, n)
           on == InLine(a, x, G)
           T == OnChain(a, x, G)
<1>1. /\ Chain(a, x) \in Seq(Node) /\ ToSet(Chain(a, x)) \subseteq Live(a)
      /\ \A j, k \in ToSet(Chain(a, x)) : a.owner[j] = a.owner[k] => j = k
  BY ChainMembers
<1>2. Sublist(on, Chain(a, x), T)
  BY <1>1, InLineIsSublist DEF OnChain
<1>3. OtherEndInGraph(a, e, n, G) = IF on = <<>> THEN Null ELSE on[1]
  BY DEF OtherEndInGraph, InLine
<1>4. \A j, k \in T : j = k
  BY <1>1 DEF OnChain
<1>5. Null \notin T
  BY <1>1, LiveFacts, NodeAssumption DEF OnChain, Tree
<1> HIDE DEF on, T, x
<1>6. on \in Seq(T) /\ ToSet(on) = T
  BY <1>2 DEF Sublist
<1>7. on = <<>> <=> T = {}
  BY ONLY <1>6, Members
<1>8. on # <<>> => on[1] \in T
  <2>1. on # <<>> => 1 \in DOMAIN on
    BY ONLY <1>6, Members
  <2> QED
    BY <2>1, <1>6
<1>9. \A k : k # Null => (OtherEndInGraph(a, e, n, G) = k <=> k \in T)
  BY <1>3, <1>4, <1>5, <1>7, <1>8
<1> QED
  BY <1>9 DEF T, x

Near(a, G, n) == {OtherEndInGraph(a, e, n, G) : e \in ToSet(a.inc[n])} \ {Null}

Nearer(a, G, V) == V \cup UNION {WithChildren(a, k) : k \in UNION {Near(a, G, n) : n \in V}}

StepOf(a, G) == [V \in SUBSET Node |-> Nearer(a, G, V)]

HangsFrom(a, G, r) == ToSet(a.nodes[G]) \subseteq r[WithChildren(a, a.nodes[G][1])]

LEMMA WithChildrenNodes ==
  ASSUME NEW a, Tree(a), NEW n, n \in Node
  PROVE  WithChildren(a, n) \in SUBSET Node /\ n \in WithChildren(a, n)
<1>1. PICK b : IsBelow(b, Node, KidsOf(a)) /\ \A k \in Node : WithChildren(a, k) = b[k]
  BY WithChildrenBelow DEF Tree
<1>2. PICK h : Forest(Node, KidsOf(a), Up(a), h)
  BY TreeForest DEF Tree
<1> QED
  BY <1>1, <1>2, BelowFacts

LEMMA NearNodes ==
  ASSUME NEW a, Tree(a), NEW G, NEW n, n \in Node
  PROVE  /\ n \notin Live(a) => Near(a, G, n) = {}
         /\ \A k : k \in Near(a, G, n) <=> \E e \in ToSet(a.inc[n]) : k \in OnChain(a, OtherEnd(a, e, n), G)
         /\ \A e \in ToSet(a.inc[n]) : /\ e \in Known(a) /\ n \in Ends(a, e) /\ OtherEnd(a, e, n) \in Live(a)
         /\ Near(a, G, n) \subseteq Live(a)
<1>1. n \notin Live(a) => ToSet(a.inc[n]) = {}
  BY IncFacts DEF Tree
<1>2. ASSUME NEW e \in ToSet(a.inc[n]) PROVE e \in Known(a) /\ n \in Ends(a, e) /\ OtherEnd(a, e, n) \in Live(a)
  <2>1. e \in Known(a) /\ n \in Ends(a, e)
    BY IncFacts DEF Tree
  <2> QED
    BY <2>1, EdgeFacts DEF Tree, OtherEnd
<1>3. \A e \in ToSet(a.inc[n]) : Null \notin OnChain(a, OtherEnd(a, e, n), G) /\ OnChain(a, OtherEnd(a, e, n), G) \subseteq Live(a)
  BY <1>2, ChainMembers, LiveFacts, NodeAssumption DEF OnChain, Tree
<1>4. \A k : k \in Near(a, G, n) <=> \E e \in ToSet(a.inc[n]) : k \in OnChain(a, OtherEnd(a, e, n), G)
  <2> SUFFICES ASSUME NEW k PROVE k \in Near(a, G, n) <=> \E e \in ToSet(a.inc[n]) : k \in OnChain(a, OtherEnd(a, e, n), G)
    OBVIOUS
  <2>1. k \in Near(a, G, n) <=> k # Null /\ \E e \in ToSet(a.inc[n]) : OtherEndInGraph(a, e, n, G) = k
    BY DEF Near
  <2>2. ASSUME k # Null, NEW e \in ToSet(a.inc[n])
        PROVE OtherEndInGraph(a, e, n, G) = k <=> k \in OnChain(a, OtherEnd(a, e, n), G)
    BY <1>2, <2>2, OtherEndFacts
  <2> QED
    BY <2>1, <2>2, <1>3
<1>5. n \notin Live(a) => Near(a, G, n) = {}
  BY <1>1, <1>4
<1>6. Near(a, G, n) \subseteq Live(a)
  BY <1>3, <1>4
<1> QED
  BY <1>2, <1>4, <1>5, <1>6

LEMMA NearerWidens ==
  ASSUME NEW a, Tree(a), NEW G
  PROVE  Widening(StepOf(a, G), Node) /\ \A V \in SUBSET Node : StepOf(a, G)[V] = Nearer(a, G, V)
<1>1. ASSUME NEW V \in SUBSET Node PROVE Nearer(a, G, V) \in SUBSET Node /\ V \subseteq Nearer(a, G, V)
  <2>1. \A n \in V : Near(a, G, n) \subseteq Node
    <3> SUFFICES ASSUME NEW n \in V PROVE Near(a, G, n) \subseteq Node
      OBVIOUS
    <3>1. Near(a, G, n) \subseteq Live(a) /\ Live(a) \subseteq Node
      BY NearNodes, LiveFacts DEF Tree
    <3> QED
      BY <3>1
  <2>2. \A n \in V : \A k \in Near(a, G, n) : WithChildren(a, k) \subseteq Node
    BY <2>1, WithChildrenNodes
  <2> QED
    BY <2>2 DEF Nearer
<1> QED
  BY <1>1 DEF Widening, StepOf

LEMMA ConnectedForm ==
  ASSUME NEW a, Tree(a), NEW G
  PROVE  \E r : /\ IsReach(r, Node, StepOf(a, G))
                /\ IsConnectedGraph(a, G) <=> a.nodes[G] = <<>> \/ HangsFrom(a, G, r)
<1> DEFINE N(V) == V \cup UNION {WithChildren(a, k) : k \in UNION {({OtherEndInGraph(a, e, n, G) : e \in ToSet(a.inc[n])} \ {Null}) : n \in V}}
           Q(r) == r = [V \in SUBSET Node |-> IF N(V) = V THEN V ELSE r[N(V)]]
           w == CHOOSE r : Q(r)
<1>1. \A V \in SUBSET Node : N(V) = StepOf(a, G)[V]
  BY DEF StepOf, Nearer, Near
<1>2. \A r : Q(r) <=> IsReach(r, Node, StepOf(a, G))
  <2> HIDE DEF N
  <2> QED
    BY <1>1 DEF IsReach
<1>3. \E r : Q(r)
  <2>1. \E r : IsReach(r, Node, StepOf(a, G))
    BY NearerWidens, ReachExists, NodeAssumption
  <2> HIDE DEF Q
  <2> QED
    BY <2>1, <1>2
<1>4. Q(w)
  <2> HIDE DEF Q
  <2> QED
    BY <1>3
<1>5. IsConnectedGraph(a, G) <=> a.nodes[G] = <<>> \/ ToSet(a.nodes[G]) \subseteq w[WithChildren(a, a.nodes[G][1])]
  BY DEF IsConnectedGraph
<1> HIDE DEF w, Q
<1> QED
  BY <1>2, <1>4, <1>5 DEF HangsFrom

(***************************************************************************)
(* A graph that hangs together: no part of it is cut off from the rest.    *)
(***************************************************************************)
\* No edge leads from the nodes in S to the other nodes of graph G.
Uncut(a, G, S) ==
  \A e \in Known(a) : \A j \in OnChain(a, a.source[e], G) : \A k \in OnChain(a, a.target[e], G) :
     j \in S <=> k \in S

Hangs(a, G) ==
  \A S \in SUBSET ToSet(a.nodes[G]) : Uncut(a, G, S) => S = {} \/ S = ToSet(a.nodes[G])

LEMMA OnChainNodes ==
  ASSUME NEW a, Tree(a), NEW G, G \in Node
  PROVE  /\ \A n \in Live(a) : OnChain(a, n, G) \subseteq ToSet(a.nodes[G])
         /\ \A n \in Live(a) : \A j, k \in OnChain(a, n, G) : j = k
         /\ \A n \in Live(a) : \A k \in ToSet(a.nodes[G]) : n \in WithChildren(a, k) <=> k \in OnChain(a, n, G)
         /\ \A k \in ToSet(a.nodes[G]) : k \in Live(a) /\ k \in Node /\ k \in OnChain(a, k, G)
<1>1. \A k \in ToSet(a.nodes[G]) : k \in Live(a) /\ k \in Node /\ a.owner[k] = G
  BY LiveFacts DEF Tree
<1>2. ASSUME NEW n \in Live(a) PROVE OnChain(a, n, G) \subseteq ToSet(a.nodes[G])
  <2> SUFFICES ASSUME NEW k \in ToSet(Chain(a, n)), a.owner[k] = G PROVE k \in ToSet(a.nodes[G])
    BY DEF OnChain
  <2>1. k \in Live(a)
    BY ChainMembers
  <2> QED
    BY <2>1, LiveFacts DEF Tree
<1>3. \A n \in Live(a) : \A j, k \in OnChain(a, n, G) : j = k
  BY ChainMembers DEF OnChain
<1>4. ASSUME NEW n \in Live(a), NEW k \in ToSet(a.nodes[G])
      PROVE  n \in WithChildren(a, k) <=> k \in OnChain(a, n, G)
  BY <1>1, ChainBelow DEF OnChain
<1>5. \A k \in ToSet(a.nodes[G]) : k \in OnChain(a, k, G)
  BY <1>1, ChainMembers DEF OnChain
<1> QED
  BY <1>1, <1>2, <1>3, <1>4, <1>5

LEMMA UncutEitherWay ==
  ASSUME NEW a, Tree(a), NEW G, NEW S, Uncut(a, G, S), NEW n, n \in Node, NEW e, e \in ToSet(a.inc[n]),
         NEW j, j \in OnChain(a, n, G), NEW k, k \in OnChain(a, OtherEnd(a, e, n), G)
  PROVE  j \in S <=> k \in S
<1>1. e \in Known(a) /\ n \in Ends(a, e)
  BY NearNodes
<1>2. CASE a.source[e] = n
  BY <1>1, <1>2 DEF Uncut, OtherEnd
<1>3. CASE a.source[e] # n
  <2>1. a.target[e] = n
    BY <1>1, <1>3 DEF Ends
  <2> QED
    BY <1>1, <1>3, <2>1 DEF Uncut, OtherEnd
<1> QED
  BY <1>2, <1>3

LEMMA UncutOthers ==
  ASSUME NEW a, Tree(a), NEW G, G \in Node, NEW S, Uncut(a, G, S)
  PROVE  Uncut(a, G, ToSet(a.nodes[G]) \ S)
<1>1. \A e \in Known(a) : a.source[e] \in Live(a) /\ a.target[e] \in Live(a)
  BY EdgeFacts DEF Tree
<1>2. \A n \in Live(a) : OnChain(a, n, G) \subseteq ToSet(a.nodes[G])
  BY OnChainNodes
<1> QED
  BY <1>1, <1>2 DEF Uncut

Lumped(a, S) == UNION {WithChildren(a, k) : k \in S}

LEMMA GripHolds ==
  ASSUME NEW a, Tree(a), NEW G, G \in Node, NEW S, S \subseteq ToSet(a.nodes[G]), Uncut(a, G, S),
         NEW f, f \in S
  PROVE  /\ Closed(Lumped(a, S), WithChildren(a, f), StepOf(a, G)) /\ Lumped(a, S) \in SUBSET Node
         /\ ToSet(a.nodes[G]) \cap Lumped(a, S) \subseteq S
<1> DEFINE X == Lumped(a, S)
<1>1. \A k \in S : k \in Node /\ WithChildren(a, k) \subseteq Node
  BY OnChainNodes, WithChildrenNodes
<1>2. X \in SUBSET Node
  BY <1>1 DEF Lumped
<1>3. ASSUME NEW U \in SUBSET X, NEW n \in U, NEW k \in Near(a, G, n)
      PROVE  WithChildren(a, k) \subseteq X
  <2>1. n \in Node /\ n \in X
    BY <1>2
  <2>2. n \in Live(a)
    BY <2>1, <1>3, NearNodes
  <2>3. PICK k0 \in S : n \in WithChildren(a, k0)
    BY <2>1 DEF Lumped
  <2>4. k0 \in OnChain(a, n, G)
    BY <2>2, <2>3, OnChainNodes
  <2>5. PICK e \in ToSet(a.inc[n]) : k \in OnChain(a, OtherEnd(a, e, n), G)
    BY <2>1, <1>3, NearNodes
  <2>6. k \in S
    BY <2>1, <2>4, <2>5, UncutEitherWay
  <2> QED
    BY <2>6 DEF Lumped
<1>4. ASSUME NEW U \in SUBSET X PROVE StepOf(a, G)[U] \subseteq X
  <2>1. U \in SUBSET Node
    BY <1>2
  <2>2. StepOf(a, G)[U] = Nearer(a, G, U)
    BY <2>1, NearerWidens
  <2> HIDE DEF X
  <2> QED
    BY <2>2, <1>3 DEF Nearer
<1>5. WithChildren(a, f) \subseteq X
  BY DEF Lumped
<1>6. ASSUME NEW n \in ToSet(a.nodes[G]), n \in X PROVE n \in S
  <2>1. PICK k \in S : n \in WithChildren(a, k)
    BY <1>6 DEF Lumped
  <2>2. n \in Live(a) /\ n \in OnChain(a, n, G)
    BY OnChainNodes
  <2>3. k \in OnChain(a, n, G)
    BY <2>1, <2>2, OnChainNodes
  <2>4. n = k
    BY <2>2, <2>3, OnChainNodes
  <2> QED
    BY <2>4
<1> QED
  BY <1>2, <1>4, <1>5, <1>6 DEF Closed

LEMMA ReachedTogether ==
  ASSUME NEW a, Tree(a), NEW G, G \in Node, NEW R, R \in SUBSET Node, StepOf(a, G)[R] = R
  PROVE  Uncut(a, G, {k \in ToSet(a.nodes[G]) : WithChildren(a, k) \subseteq R})
<1>1. ASSUME NEW n \in R, NEW k \in Near(a, G, n) PROVE WithChildren(a, k) \subseteq R
  <2>1. Nearer(a, G, R) = R
    BY NearerWidens
  <2> QED
    BY <2>1, <1>1 DEF Nearer
<1>2. ASSUME NEW n \in Live(a), NEW e \in ToSet(a.inc[n]), NEW j \in OnChain(a, n, G),
             NEW k \in OnChain(a, OtherEnd(a, e, n), G), WithChildren(a, j) \subseteq R
      PROVE  WithChildren(a, k) \subseteq R /\ k \in ToSet(a.nodes[G])
  <2>1. n \in Node /\ OtherEnd(a, e, n) \in Live(a)
    BY LiveFacts, NearNodes DEF Tree
  <2>2. k \in Near(a, G, n)
    BY <2>1, NearNodes
  <2>3. j \in ToSet(a.nodes[G])
    BY OnChainNodes
  <2>4. n \in R
    BY <1>2, <2>3, OnChainNodes
  <2>5. k \in ToSet(a.nodes[G])
    BY <2>1, OnChainNodes
  <2> QED
    BY <2>2, <2>4, <2>5, <1>1
<1> SUFFICES ASSUME NEW e \in Known(a), NEW j \in OnChain(a, a.source[e], G), NEW k \in OnChain(a, a.target[e], G)
             PROVE  /\ j \in ToSet(a.nodes[G]) /\ k \in ToSet(a.nodes[G])
                    /\ WithChildren(a, j) \subseteq R <=> WithChildren(a, k) \subseteq R
  BY DEF Uncut
<1>3. /\ a.source[e] \in Live(a) /\ a.target[e] \in Live(a) /\ a.source[e] # a.target[e]
      /\ e \in ToSet(a.inc[a.source[e]]) /\ e \in ToSet(a.inc[a.target[e]])
  BY EdgeFacts DEF Tree, Ends
<1>4. OtherEnd(a, e, a.source[e]) = a.target[e] /\ OtherEnd(a, e, a.target[e]) = a.source[e]
  BY <1>3 DEF OtherEnd
<1>5. j \in ToSet(a.nodes[G]) /\ k \in ToSet(a.nodes[G])
  BY <1>3, OnChainNodes
<1>6. WithChildren(a, j) \subseteq R => WithChildren(a, k) \subseteq R
  BY <1>2, <1>3, <1>4
<1>7. WithChildren(a, k) \subseteq R => WithChildren(a, j) \subseteq R
  BY <1>2, <1>3, <1>4
<1> QED
  BY <1>5, <1>6, <1>7

\* updateConnected, which follows edges from the first node of a graph, finds
\* out whether the graph falls apart: it says no just if the nodes can be
\* split into two parts that no edge of anything inside them joins.
THEOREM ConnectedHangs ==
  ASSUME NEW a, Tree(a), NEW G, G \in Node
  PROVE  IsConnectedGraph(a, G) <=> Hangs(a, G)
<1> DEFINE N == ToSet(a.nodes[G])
           f == a.nodes[G][1]
           V0 == WithChildren(a, f)
           s == StepOf(a, G)
<1>1. PICK r : /\ IsReach(r, Node, s)
               /\ IsConnectedGraph(a, G) <=> a.nodes[G] = <<>> \/ HangsFrom(a, G, r)
  BY ConnectedForm
<1>2. CASE a.nodes[G] = <<>>
  <2>1. N = {}
    BY <1>2, NoMembers
  <2>2. Hangs(a, G)
    BY <2>1 DEF Hangs
  <2> QED
    BY <1>1, <1>2, <2>2
<1>3. CASE a.nodes[G] # <<>>
  <2> DEFINE R == r[V0]
  <2>1. f \in N
    <3>1. a.nodes[G] \in Seq(Node)
      BY GoodLists DEF Tree, Good
    <3>2. 1 \in DOMAIN a.nodes[G]
      BY ONLY <3>1, <1>3, Members
    <3> QED
      BY <3>2 DEF ToSet
  <2>2. V0 \in SUBSET Node /\ f \in Node
    BY <2>1, OnChainNodes, WithChildrenNodes
  <2>3. Widening(s, Node)
    BY NearerWidens
  <2> HIDE DEF s, V0, N, f
  <2>4. /\ R \in SUBSET Node /\ V0 \subseteq R /\ s[R] = R
        /\ \A X \in SUBSET Node : Closed(X, V0, s) => R \subseteq X
    BY <2>2, <2>3, <1>1, ReachFacts, NodeAssumption
  <2>5. HangsFrom(a, G, r) <=> N \subseteq R
    BY DEF HangsFrom, N, V0, f
  <2> HIDE DEF R
  <2>6. ASSUME N \subseteq R, NEW S \in SUBSET N, Uncut(a, G, S), f \in S
        PROVE  S = N
    <3>1. Closed(Lumped(a, S), V0, s) /\ Lumped(a, S) \in SUBSET Node /\ N \cap Lumped(a, S) \subseteq S
      BY <2>6, GripHolds DEF N, V0, s
    <3>2. R \subseteq Lumped(a, S)
      BY <3>1, <2>4
    <3> QED
      BY <3>1, <3>2, <2>6
  <2>7. ASSUME N \subseteq R PROVE Hangs(a, G)
    <3> SUFFICES ASSUME NEW S \in SUBSET N, Uncut(a, G, S) PROVE S = {} \/ S = N
      BY DEF Hangs, N
    <3>1. CASE f \in S
      BY <3>1, <2>6, <2>7
    <3>2. CASE f \notin S
      <4>1. Uncut(a, G, N \ S)
        BY UncutOthers DEF N
      <4>2. N \ S = N
        BY <4>1, <3>2, <2>1, <2>6, <2>7
      <4> QED
        BY <4>2
    <3> QED
      BY <3>1, <3>2
  <2>8. ASSUME Hangs(a, G) PROVE N \subseteq R
    <3> DEFINE S == {k \in N : WithChildren(a, k) \subseteq R}
    <3>1. Uncut(a, G, S)
      BY <2>4, ReachedTogether DEF N, s
    <3>2. f \in S
      BY <2>1, <2>4 DEF V0
    <3>3. S \in SUBSET N
      OBVIOUS
    <3> HIDE DEF S
    <3>4. S = N
      BY <3>1, <3>2, <3>3, <2>8 DEF Hangs, N
    <3>5. \A k \in N : k \in WithChildren(a, k)
      BY OnChainNodes, WithChildrenNodes DEF N
    <3> QED
      BY <3>4, <3>5 DEF S
  <2> QED
    BY <1>1, <1>3, <2>5, <2>7, <2>8
<1> QED
  BY <1>2, <1>3

(***************************************************************************)
(* The graph without its leaves hangs together where the full one does.    *)
(***************************************************************************)
LEMMA ReducedTree ==
  ASSUME NEW B, Tree(B), NEW a, NEW layers, Reduced(B, a, layers)
  PROVE  /\ Tree(a) /\ \A n : Chain(a, n) = Chain(B, n)
         /\ \A n : Around(a, n) = Around(B, n)
         /\ \A x \in Out(layers) : EntryOK(a, x)
         /\ \A G \in Node : ToSet(a.nodes[G]) = ToSet(B.nodes[G]) \cap Live(a)
<1>1. /\ Good(a) /\ SameGraphs(B, a) /\ a.owner = B.owner
      /\ Live(B) = Live(a) \cup NodesIn(Out(layers)) /\ LayersOK(a, layers)
  BY DEF Reduced
<1>2. Up(a) = Up(B) /\ Graphs(a) = Graphs(B)
  BY <1>1 DEF Up, ParentOf, SameGraphs, Graphs
<1>3. \A x \in Out(layers) : EntryOK(a, x) /\ x.node \notin Graphs(a)
  BY <1>1 DEF LayersOK, EntryOK
<1>4. Graphs(a) \cap NodesIn(Out(layers)) = {}
  BY <1>3 DEF NodesIn
<1>5. Tree(a)
  BY <1>1, <1>2, <1>4 DEF Tree, Ranked, Rooted
<1>6. ASSUME NEW G \in Node PROVE ToSet(a.nodes[G]) = ToSet(B.nodes[G]) \cap Live(a)
  <2>1. \A n \in Live(a) : n \in ToSet(a.nodes[a.owner[n]]) /\ n \in Live(B)
    BY <1>1, LiveFacts
  <2>2. \A n \in Live(B) : n \in ToSet(B.nodes[B.owner[n]])
    BY LiveFacts DEF Tree
  <2>3. /\ \A n \in ToSet(a.nodes[G]) : n \in Live(a) /\ a.owner[n] = G
        /\ \A n \in ToSet(B.nodes[G]) : n \in Live(B) /\ B.owner[n] = G
    BY <1>1, LiveFacts DEF Tree
  <2> QED
    BY <2>1, <2>2, <2>3, <1>1
<1> QED
  BY <1>1, <1>3, <1>5, <1>6, SameChains

\* A set of nodes and the leaves that hang on it, directly or by others.
HangingOn(a, X, S) ==
  {n \in Node : \A T \in SUBSET Node :
     S \subseteq T /\ (\A x \in X : Other(a, x) \in T => x.node \in T) => n \in T}

LEMMA HangingFacts ==
  ASSUME NEW a, NEW X, X \subseteq Entries, ApartOK(X), NEW S, S \subseteq Node,
         \A x \in X : x.node \notin S
  PROVE  /\ S \subseteq HangingOn(a, X, S) /\ HangingOn(a, X, S) \subseteq S \cup NodesIn(X)
         /\ \A x \in X : x.node \in HangingOn(a, X, S) <=> Other(a, x) \in HangingOn(a, X, S)
<1> DEFINE Fits(T) == S \subseteq T /\ (\A x \in X : Other(a, x) \in T => x.node \in T)
           H == HangingOn(a, X, S)
<1>1. \A x \in X : x.node \in Node
  BY DEF Entries
<1>2. \A n : n \in H <=> n \in Node /\ \A T \in SUBSET Node : Fits(T) => n \in T
  BY DEF HangingOn
<1> HIDE DEF H
<1>3. H \in SUBSET Node /\ S \subseteq H
  BY <1>2
<1>4. ASSUME NEW x \in X, Other(a, x) \in H PROVE x.node \in H
  <2>1. \A T \in SUBSET Node : Fits(T) => x.node \in T
    BY <1>2, <1>4
  <2> QED
    BY <2>1, <1>1, <1>2
<1>5. H \subseteq S \cup NodesIn(X)
  <2>1. S \cup NodesIn(X) \in SUBSET Node
    BY <1>1 DEF NodesIn
  <2>2. Fits(S \cup NodesIn(X))
    BY DEF NodesIn
  <2> HIDE DEF Fits
  <2> QED
    BY <2>1, <2>2, <1>2
<1>6. ASSUME NEW x \in X, x.node \in H PROVE Other(a, x) \in H
  <2> SUFFICES ASSUME Other(a, x) \notin H PROVE FALSE
    OBVIOUS
  <2> DEFINE T == H \ {x.node}
  <2>1. ASSUME NEW y \in X, Other(a, y) \in T PROVE y.node \in T
    <3>1. y.node \in H
      BY <2>1, <1>4
    <3>2. ASSUME y.node = x.node PROVE FALSE
      <4>1. y = x
        BY <3>2 DEF ApartOK
      <4> QED
        BY <4>1, <2>1
    <3> QED
      BY <3>1, <3>2
  <2>2. S \subseteq T /\ T \in SUBSET Node
    BY <1>3
  <2>3. Fits(T)
    BY <2>1, <2>2
  <2> HIDE DEF Fits
  <2>4. x.node \in T
    BY <2>2, <2>3, <1>2, <1>6
  <2> QED
    BY <2>4
<1> QED
  BY <1>3, <1>4, <1>5, <1>6 DEF H

LEMMA NoLongerHanging ==
  ASSUME NEW B, Tree(B), NEW a, NEW layers, Reduced(B, a, layers), NEW G, G \in Node,
         NEW S, S \subseteq ToSet(a.nodes[G]), Uncut(a, G, S),
         NEW H, H = HangingOn(a, Out(layers), S)
  PROVE  Uncut(B, G, H) /\ H \cap Live(a) = S
<1> DEFINE X == Out(layers)
<1>1. /\ Good(a) /\ SameGraphs(B, a) /\ a.owner = B.owner /\ SameEnds(B, a)
      /\ Live(B) = Live(a) \cup NodesIn(X) /\ LayersOK(a, layers) /\ Known(B) = Known(a) \cup EdgesIn(X)
  BY DEF Reduced
<1>2. /\ Tree(a) /\ \A n : Chain(a, n) = Chain(B, n)
      /\ \A n : Around(a, n) = Around(B, n)
      /\ \A x \in X : EntryOK(a, x)
  BY ReducedTree
<1>3. ApartOK(X) /\ X \subseteq Entries
  <2>1. ApartOK(X) /\ layers \in Seq(Seq(Entries))
    BY <1>1 DEF LayersOK
  <2>2. \A i \in DOMAIN layers : layers[i] \in Seq(Entries)
    BY <2>1
  <2>3. \A i \in DOMAIN layers : ToSet(layers[i]) \subseteq Entries
    BY <2>2, Members
  <2> QED
    BY <2>1, <2>3 DEF Out
<1>4. S \subseteq Live(a) /\ S \subseteq Node
  BY <1>2, OnChainNodes
<1> HIDE DEF X
<1>5. \A x \in X : x.node \notin Live(a)
  BY <1>2 DEF EntryOK
<1>6. /\ S \subseteq H /\ H \subseteq S \cup NodesIn(X)
      /\ \A x \in X : x.node \in H <=> Other(a, x) \in H
  <2>1. \A x \in X : x.node \notin S
    BY <1>4, <1>5
  <2>2. H = HangingOn(a, X, S)
    BY DEF X
  <2> QED
    BY <2>1, <2>2, <1>3, <1>4, HangingFacts
<1>7. H \cap Live(a) = S
  BY <1>4, <1>5, <1>6 DEF NodesIn
<1>8. \A n : OnChain(B, n, G) = OnChain(a, n, G)
  BY <1>1, <1>2 DEF OnChain
<1>9. ASSUME NEW e \in Known(a), NEW j \in OnChain(B, B.source[e], G), NEW k \in OnChain(B, B.target[e], G)
      PROVE  j \in H <=> k \in H
  <2>1. /\ a.source[e] = B.source[e] /\ a.target[e] = B.target[e]
        /\ a.source[e] \in Live(a) /\ a.target[e] \in Live(a)
    BY <1>1, EdgeFacts DEF SameEnds
  <2>2. j \in OnChain(a, a.source[e], G) /\ k \in OnChain(a, a.target[e], G)
    BY <2>1, <1>8
  <2>3. j \in Live(a) /\ k \in Live(a)
    BY <2>1, <2>2, <1>2, OnChainNodes
  <2>4. j \in S <=> k \in S
    BY <2>2 DEF Uncut
  <2> QED
    BY <2>3, <2>4, <1>7
<1>10. ASSUME NEW x \in X, NEW j \in OnChain(B, x.node, G), NEW k \in OnChain(B, Other(a, x), G)
       PROVE  j \in H <=> k \in H
  <2>1. /\ a.owner[x.node] = a.owner[Other(a, x)]
        /\ x.node \in NodesIn(X) /\ x.edge \in EdgesIn(X)
    BY <1>2 DEF EntryOK, NodesIn, EdgesIn
  <2>2. x.edge \in Known(B) /\ x.node \in Live(B)
    BY <2>1, <1>1
  <2>3. Other(a, x) \in Live(B)
    <3>1. Other(a, x) \in {B.source[x.edge], B.target[x.edge]}
      BY <1>1 DEF Other, OtherEnd, SameEnds
    <3> QED
      BY <3>1, <2>2, EdgeFacts DEF Tree
  <2>4. /\ x.node \in ToSet(Chain(B, x.node)) /\ Other(a, x) \in ToSet(Chain(B, Other(a, x)))
    BY <2>2, <2>3, ChainMembers
  <2>5. B.owner[x.node] = B.owner[Other(a, x)]
    BY <2>1, <1>1
  <2>6. CASE B.owner[x.node] = G
    <3>1. x.node \in OnChain(B, x.node, G) /\ Other(a, x) \in OnChain(B, Other(a, x), G)
      BY <2>4, <2>5, <2>6 DEF OnChain
    <3>2. j = x.node /\ k = Other(a, x)
      BY <3>1, <2>2, <2>3, OnChainNodes
    <3> QED
      BY <3>2, <1>6
  <2>7. CASE B.owner[x.node] # G
    <3>1. Around(B, x.node) = Around(B, Other(a, x))
      BY <2>2, <2>3, <2>5, AroundLive
    <3>2. j # x.node /\ k # Other(a, x)
      BY <2>5, <2>7 DEF OnChain
    <3>3. Around(B, x.node) # Null
      BY <2>2, <3>2, ChainMembers DEF OnChain
    <3>4. Around(B, x.node) \in Live(B)
      BY <3>3, <2>2, AroundLive
    <3>5. j \in ToSet(Chain(B, Around(B, x.node)))
      BY <3>2, <3>3, <2>2, ChainMembers DEF OnChain
    <3>6. k \in ToSet(Chain(B, Around(B, x.node)))
      BY <3>1, <3>2, <3>3, <2>3, ChainMembers DEF OnChain
    <3>7. j = k
      <4>1. B.owner[j] = G /\ B.owner[k] = G
        BY DEF OnChain
      <4> QED
        BY <4>1, <3>4, <3>5, <3>6, ChainMembers
    <3> QED
      BY <3>7
  <2> QED
    BY <2>6, <2>7
<1>11. ASSUME NEW x \in X, NEW j \in OnChain(B, B.source[x.edge], G), NEW k \in OnChain(B, B.target[x.edge], G)
       PROVE  j \in H <=> k \in H
  <2>1. x.node \in Ends(a, x.edge)
    BY <1>2 DEF EntryOK
  <2>2. a.source[x.edge] = B.source[x.edge] /\ a.target[x.edge] = B.target[x.edge]
    BY <1>1 DEF SameEnds
  <2>3. CASE x.node = a.source[x.edge]
    <3>1. Other(a, x) = a.target[x.edge]
      BY <2>3 DEF Other, OtherEnd
    <3> QED
      BY <2>2, <2>3, <3>1, <1>10
  <2>4. CASE x.node # a.source[x.edge]
    <3>1. Other(a, x) = a.source[x.edge] /\ x.node = a.target[x.edge]
      BY <2>1, <2>4 DEF Other, OtherEnd, Ends
    <3> QED
      BY <2>2, <3>1, <1>10
  <2> QED
    BY <2>3, <2>4
<1>12. Uncut(B, G, H)
  BY <1>1, <1>9, <1>11 DEF Uncut, EdgesIn
<1> QED
  BY <1>7, <1>12

\* Taking leaves out of a graph that hangs together leaves it hanging together.
LEMMA LeavesHang ==
  ASSUME NEW B, Tree(B), NEW a, NEW layers, Reduced(B, a, layers), NEW G, G \in Node, IsConnectedGraph(B, G)
  PROVE  IsConnectedGraph(a, G)
<1>1. Hangs(B, G)
  BY ConnectedHangs
<1>2. Tree(a) /\ ToSet(a.nodes[G]) = ToSet(B.nodes[G]) \cap Live(a)
  BY ReducedTree
<1>3. ASSUME NEW S \in SUBSET ToSet(a.nodes[G]), Uncut(a, G, S) PROVE S = {} \/ S = ToSet(a.nodes[G])
  <2> DEFINE H == HangingOn(a, Out(layers), S)
             N == ToSet(B.nodes[G])
             H2 == H \cap N
  <2>1. Uncut(B, G, H) /\ H \cap Live(a) = S
    BY <1>3, NoLongerHanging
  <2> HIDE DEF H
  <2>2. Uncut(B, G, H2)
    <3>1. \A n \in Live(B) : OnChain(B, n, G) \subseteq N
      BY OnChainNodes
    <3>2. \A e \in Known(B) : B.source[e] \in Live(B) /\ B.target[e] \in Live(B)
      BY EdgeFacts DEF Tree
    <3> QED
      BY <3>1, <3>2, <2>1 DEF Uncut
  <2>3. H2 = {} \/ H2 = N
    BY <2>2, <1>1 DEF Hangs
  <2>4. H2 \cap Live(a) = S
    BY <2>1, <1>2
  <2> QED
    BY <2>3, <2>4, <1>2
<1>4. Hangs(a, G)
  BY <1>3 DEF Hangs
<1> QED
  BY <1>2, <1>4, ConnectedHangs

\* An edge within a graph joins no node to its own compound.
LEMMA OwnEdgeIsValid ==
  ASSUME NEW a, Tree(a), NEW e, e \in Known(a), ~a.isInter[e]
  PROVE  ~IsOneAncestorOfOther(a, a.source[e], a.target[e])
<1> DEFINE s == a.source[e]
           t == a.target[e]
<1>1. s \in Live(a) /\ t \in Live(a) /\ s # t /\ a.owner[s] = a.owner[t]
  BY EdgeFacts DEF Tree
<1>2. s # RootNode /\ t # RootNode
  BY <1>1, LiveFacts DEF Tree
<1> HIDE DEF s, t
<1>3. s \in ToSet(Chain(a, s)) /\ t \in ToSet(Chain(a, t))
  BY <1>1, ChainMembers
<1>4. s \notin ToSet(Chain(a, t)) /\ t \notin ToSet(Chain(a, s))
  BY <1>1, <1>3, ChainMembers
<1> QED
  BY <1>2, <1>4 DEF IsOneAncestorOfOther, s, t

(***************************************************************************)
(* Lists taken from the end.                                               *)
(***************************************************************************)
LEMMA ReverseFacts ==
  ASSUME NEW S, NEW s, s \in Seq(S)
  PROVE  /\ Reverse(s) \in Seq(S) /\ ToSet(Reverse(s)) = ToSet(s) /\ Len(Reverse(s)) = Len(s)
         /\ \A i \in DOMAIN Reverse(s) : Reverse(s)[i] = s[Len(s) - i + 1] /\ Len(s) - i + 1 \in DOMAIN s
<1> DEFINE N == Len(s)
           r == Reverse(s)
<1>1. N \in Nat /\ DOMAIN s = 1..N /\ \A i \in 1..N : s[i] \in S
  BY Members
<1>2. r = [i \in 1..N |-> s[(N - i) + 1]]
  BY DEF Reverse
<1> HIDE DEF r, N
<1>3. \A i \in 1..N : (N - i) + 1 \in 1..N /\ r[i] = s[(N - i) + 1] /\ (N - ((N - i) + 1)) + 1 = i
  BY <1>1, <1>2
<1>4. r \in [1..N -> S]
  BY <1>1, <1>2, <1>3
<1>5. r \in Seq(S) /\ Len(r) = N /\ DOMAIN r = 1..N
  BY <1>1, <1>4
<1>6. ToSet(r) = ToSet(s)
  <2>1. ASSUME NEW x \in ToSet(r) PROVE x \in ToSet(s)
    <3>1. PICK i \in 1..N : x = r[i]
      BY <1>5 DEF ToSet
    <3> QED
      BY <1>1, <1>3, <3>1 DEF ToSet
  <2>2. ASSUME NEW x \in ToSet(s) PROVE x \in ToSet(r)
    <3>1. PICK i \in 1..N : x = s[i]
      BY <1>1 DEF ToSet
    <3>2. r[(N - i) + 1] = s[i] /\ (N - i) + 1 \in 1..N
      BY <1>1, <1>3
    <3> QED
      BY <1>5, <3>1, <3>2 DEF ToSet
  <2> QED
    BY <2>1, <2>2
<1> QED
  BY <1>1, <1>3, <1>5, <1>6 DEF r, N

Stocked(a) == \A G \in Graphs(a) : ToSet(a.nodes[G]) # {}

LEMMA StockedOwners ==
  ASSUME NEW a, Good(a), \A G \in Graphs(a) : \E n \in Live(a) : a.owner[n] = G
  PROVE  Stocked(a)
<1> SUFFICES ASSUME NEW G \in Graphs(a) PROVE ToSet(a.nodes[G]) # {}
  BY DEF Stocked
<1>1. PICK n \in Live(a) : a.owner[n] = G
  OBVIOUS
<1> QED
  BY <1>1, LiveFacts

(***************************************************************************)
(* Adding up along a list.                                                 *)
(***************************************************************************)
Total(count, list) == InTurn(LAMBDA d, c : d + count[c], 0, list)

IsSum(f, count, list) ==
  f = [k \in 0..Len(list) |-> IF k = 0 THEN 0 ELSE f[k - 1] + count[list[k]]]

LEMMA SumExists ==
  ASSUME NEW S, NEW list, list \in Seq(S), NEW count, \A x \in ToSet(list) : count[x] \in Nat
  PROVE  \E f : IsSum(f, count, list)
<1> DEFINE N == Len(list)
           I == [k \in 0..N |-> Nat]
           F == [pr \in Nat \X (1..N) |-> pr[1] + count[list[pr[2]]]]
<1>1. N \in Nat /\ \A k \in 1..N : count[list[k]] \in Nat
  <2>1. N \in Nat
    BY Members
  <2>2. \A k \in 1..N : list[k] \in ToSet(list)
    BY <2>1, SeenTurns
  <2> QED
    BY <2>1, <2>2
<1> HIDE DEF N
<1>2. \A k \in 1..N : k - 1 \in 0..N /\ k \in 0..N
  BY <1>1
<1>3. \A k \in 1..N : \A x \in Nat : F[<<x, k>>] = x + count[list[k]]
  OBVIOUS
<1> HIDE DEF F
<1>11. \A k \in 0..N : I[k] = Nat
  OBVIOUS
<1> HIDE DEF I
<1>12. \A x, y \in Nat : x + y \in Nat
  OBVIOUS
<1>4. ASSUME NEW k \in 1..N, NEW x \in I[k - 1] PROVE F[<<x, k>>] \in I[k]
  <2>1. x \in Nat
    BY <1>2, <1>11
  <2>2. F[<<x, k>>] = x + count[list[k]]
    BY <1>3, <2>1
  <2>3. F[<<x, k>>] \in Nat
    BY <1>1, <1>12, <2>1, <2>2
  <2> QED
    BY <1>2, <1>11, <2>3
<1>5. 0 \in I[0]
  BY <1>1, <1>11
<1>6. PICK g : IsRun(g, N, 0, F, I)
  BY <1>1, <1>4, <1>5, RunExists
<1>7. /\ g = [k \in 0..N |-> g[k]] /\ g[0] = 0
      /\ \A k \in 1..N : g[k] = F[<<g[k - 1], k>>]
      /\ \A k \in 0..N : g[k] \in I[k]
  BY <1>6 DEF IsRun
<1>8. \A k \in 0..N : g[k] \in Nat
  BY <1>7, <1>11
<1>9. \A k \in 1..N : g[k] = g[k - 1] + count[list[k]]
  BY <1>2, <1>3, <1>7, <1>8
<1>10. \A k \in 0..N : g[k] = IF k = 0 THEN 0 ELSE g[k - 1] + count[list[k]]
  <2>1. \A k \in 0..N : k = 0 \/ k \in 1..N
    BY <1>1
  <2> QED
    BY <2>1, <1>7, <1>9
<1>13. g = [k \in 0..N |-> IF k = 0 THEN 0 ELSE g[k - 1] + count[list[k]]]
  <2> DEFINE h == [k \in 0..N |-> IF k = 0 THEN 0 ELSE g[k - 1] + count[list[k]]]
  <2>1. \A k \in 0..N : g[k] = h[k]
    BY <1>10
  <2>2. g = [k \in 0..N |-> h[k]]
    BY ONLY <1>7, <2>1
  <2> QED
    BY <2>2
<1> QED
  BY <1>13 DEF IsSum, N

\* The total is what is reached in the end, step by step.
SumSteps(f, count, list) ==
  f[0] = 0 /\ \A k \in 1..Len(list) : f[k] = f[k - 1] + count[list[k]]

LEMMA TotalIsSum ==
  ASSUME NEW S, NEW list, list \in Seq(S), NEW count, \A x \in ToSet(list) : count[x] \in Nat
  PROVE  \E f : SumSteps(f, count, list) /\ Total(count, list) = f[Len(list)]
<1> DEFINE Q(f) == f = [k \in 0..Len(list) |-> IF k = 0 THEN 0 ELSE f[k - 1] + count[list[k]]]
           w == CHOOSE f : Q(f)
<1>1. \E f : Q(f)
  BY SumExists DEF IsSum
<1>2. Q(w)
  <2> HIDE DEF Q
  <2> QED
    BY <1>1
<1>3. Total(count, list) = w[Len(list)]
  BY DEF Total, InTurn, Q, w
<1> HIDE DEF w
<1>4. Len(list) \in Nat
  BY Members
<1>5. SumSteps(w, count, list)
  BY <1>2, <1>4 DEF SumSteps
<1> QED
  BY <1>3, <1>5

\* The parts the members of the list stand for, all apart within D.
PartsOK(part, T, D) ==
  /\ IsFiniteSet(D)
  /\ \A x \in T : part[x] \in SUBSET D
  /\ \A x, y \in T : x # y => part[x] \cap part[y] = {}

Together(part, T) == UNION {part[x] : x \in T}

LEMMA OnePartMore ==
  ASSUME NEW D, NEW part, NEW T, PartsOK(part, T, D), NEW U, U \subseteq T, NEW x, x \in T, x \notin U
  PROVE  /\ Cardinality(Together(part, U \cup {x})) = Cardinality(Together(part, U)) + Cardinality(part[x])
         /\ Cardinality(Together(part, U)) \in Nat
<1>1. Together(part, U \cup {x}) = Together(part, U) \cup part[x]
  BY DEF Together
<1>2. Together(part, U) \cap part[x] = {}
  BY DEF Together, PartsOK
<1>3. IsFiniteSet(D) /\ Together(part, U) \in SUBSET D /\ part[x] \in SUBSET D
  BY DEF Together, PartsOK
<1>4. IsFiniteSet(Together(part, U)) /\ IsFiniteSet(part[x])
  BY <1>3, FS_Subset
<1> DEFINE X == Together(part, U)
           Y == part[x]
<1>5. Cardinality(X) \in Nat /\ Cardinality(Y) \in Nat
  BY <1>4, FS_CardinalityType
<1>6. Cardinality(X \cup Y) = Cardinality(X) + Cardinality(Y) - Cardinality(X \cap Y)
  BY <1>4, FS_Union
<1>7. Cardinality(X \cap Y) = 0
  BY <1>2, FS_EmptySet
<1> HIDE DEF X, Y
<1>8. Cardinality(X \cup Y) = Cardinality(X) + Cardinality(Y)
  BY <1>5, <1>6, <1>7
<1> QED
  BY <1>1, <1>5, <1>8 DEF X, Y

LEMMA TotalOfParts ==
  ASSUME NEW S, NEW list, list \in Seq(S), IsInjective(list), NEW part, NEW D, PartsOK(part, ToSet(list), D),
         NEW count, \A x \in ToSet(list) : count[x] \in Nat /\ count[x] = Cardinality(part[x])
  PROVE  Total(count, list) = Cardinality(Together(part, ToSet(list)))
<1> DEFINE N == Len(list)
<1>1. PICK f : SumSteps(f, count, list) /\ Total(count, list) = f[N]
  BY TotalIsSum
<1>2. N \in Nat
  BY Members
<1>3. f[0] = 0 /\ \A k \in 1..N : f[k] = f[k - 1] + count[list[k]]
  BY <1>1 DEF SumSteps
<1> DEFINE P == {k \in 0..N : f[k] = Cardinality(Together(part, Seen(list, k)))}
<1>4. 0 \in P
  <2>1. Seen(list, 0) = {}
    BY SeenTurns
  <2>2. Together(part, {}) = {}
    BY DEF Together
  <2>3. f[0] = Cardinality(Together(part, Seen(list, 0)))
    <3>1. Cardinality({}) = 0
      BY FS_EmptySet
    <3> QED
      BY ONLY <3>1, <1>3, <2>1, <2>2
  <2>4. 0 \in 0..N
    BY ONLY <1>2
  <2> QED
    BY ONLY <2>3, <2>4 DEF P
<1>5. ASSUME NEW k \in 1..N, k - 1 \in P PROVE k \in P
  <2>1. /\ Seen(list, k) = Seen(list, k - 1) \cup {list[k]} /\ list[k] \in ToSet(list)
        /\ list[k] \notin Seen(list, k - 1)
    BY SeenTurns
  <2>2. Seen(list, k - 1) \subseteq ToSet(list)
    <3>1. k - 1 \in 0..N
      BY <1>2
    <3> QED
      BY <3>1, SeenTurns
  <2>3. Cardinality(Together(part, Seen(list, k - 1) \cup {list[k]})) =
          Cardinality(Together(part, Seen(list, k - 1))) + Cardinality(part[list[k]])
    BY <2>1, <2>2, OnePartMore
  <2>4. f[k - 1] = Cardinality(Together(part, Seen(list, k - 1)))
    BY <1>5
  <2>5. f[k] = Cardinality(Together(part, Seen(list, k)))
    BY <1>3, <2>1, <2>3, <2>4
  <2>6. k \in 0..N
    BY <1>2
  <2> QED
    BY <2>5, <2>6
<1> HIDE DEF P
<1>6. \A k \in 0..N : k \in P
  BY <1>2, <1>4, <1>5, Climb
<1>7. N \in P /\ Seen(list, N) = ToSet(list)
  BY <1>2, <1>6, SeenTurns
<1> QED
  BY <1>1, <1>7 DEF P

LEMMA TotalFacts ==
  ASSUME NEW S, NEW list, list \in Seq(S), NEW c1, NEW c2, \A x \in ToSet(list) : c1[x] \in Nat /\ c1[x] = c2[x]
  PROVE  Total(c1, list) \in Nat /\ Total(c1, list) = Total(c2, list)
<1> DEFINE N == Len(list)
<1>0. \A x \in ToSet(list) : c1[x] \in Nat /\ c2[x] \in Nat
  OBVIOUS
<1>1. PICK f : SumSteps(f, c1, list) /\ Total(c1, list) = f[N]
  BY <1>0, TotalIsSum
<1>2. PICK g : SumSteps(g, c2, list) /\ Total(c2, list) = g[N]
  BY <1>0, TotalIsSum
<1>3. N \in Nat
  BY Members
<1>4. \A k \in 1..N : f[k] = f[k - 1] + c1[list[k]] /\ g[k] = g[k - 1] + c2[list[k]]
  BY <1>1, <1>2 DEF SumSteps
<1>5. \A k \in 1..N : c1[list[k]] \in Nat /\ c1[list[k]] = c2[list[k]]
  BY SeenTurns
<1> DEFINE P == {k \in 0..N : f[k] = g[k] /\ f[k] \in Nat}
<1>6. 0 \in P
  BY <1>1, <1>2, <1>3 DEF SumSteps
<1>7. \A k \in 1..N : k - 1 \in P => k \in P
  BY <1>3, <1>4, <1>5
<1> HIDE DEF P
<1>8. N \in P
  <2>1. \A k \in 0..N : k \in P
    BY <1>3, <1>6, <1>7, Climb
  <2> QED
    BY <2>1, <1>3
<1> QED
  BY <1>1, <1>2, <1>8 DEF P

IsCount(f, a) ==
  f = [k \in Node |-> IF Children(a, k) = <<>> THEN 1 ELSE Total(f, Children(a, k))]

LEMMA CountExists ==
  ASSUME NEW a, Good(a), Ranked(a)
  PROVE  \E f : IsCount(f, a)
<1> DEFINE D == Node
           V == Nat
           kids == KidsOf(a)
           F == [f \in [D -> V] |-> [n \in D |-> IF kids[n] = <<>> THEN 1 ELSE Total(f, kids[n])]]
<1>0. PICK h : Forest(Node, KidsOf(a), Up(a), h)
  BY TreeForest
<1>1. ASSUME NEW n \in D
      PROVE  /\ kids[n] \in Seq(D) /\ ToSet(kids[n]) \subseteq D
             /\ \A k \in ToSet(kids[n]) : h[k] < h[n]
  <2>1. ToSet(kids[n]) \subseteq D /\ kids[n] \in Seq(D)
    BY <1>0, KidsAreNodes
  <2> QED
    BY <1>0, <2>1 DEF Forest
<1> HIDE DEF kids
<1>2. F \in [[D -> V] -> [D -> V]]
  <2> SUFFICES ASSUME NEW f \in [D -> V], NEW n \in D PROVE Total(f, kids[n]) \in Nat
    OBVIOUS
  <2>1. \A x \in ToSet(kids[n]) : f[x] \in Nat /\ f[x] = f[x]
    BY <1>1
  <2> QED
    BY <1>1, <2>1, TotalFacts
<1>3. OnLower(F, D, V, h)
  <2>0. V # {} /\ h \in [D -> Nat]
    BY <1>0 DEF Forest
  <2> SUFFICES ASSUME NEW f \in [D -> V], NEW g \in [D -> V], NEW n \in D,
                      \A k \in D : h[k] < h[n] => f[k] = g[k]
               PROVE  F[f][n] = F[g][n]
    <3> HIDE DEF F, V
    <3> QED
      BY <1>2, <2>0 DEF OnLower
  <2>1. \A k \in ToSet(kids[n]) : f[k] \in Nat /\ f[k] = g[k]
    BY <1>1
  <2>2. Total(f, kids[n]) = Total(g, kids[n])
    BY <1>1, <2>1, TotalFacts
  <2> QED
    BY <2>2
<1>4. \E f : f \in [D -> V] /\ f = F[f]
  <2> HIDE DEF F, V
  <2> QED
    BY <1>3, TreeRecursion
<1>5. PICK f : f \in [D -> V] /\ f = F[f]
  BY <1>4
<1>6. F[f] = [n \in D |-> IF kids[n] = <<>> THEN 1 ELSE Total(f, kids[n])]
  BY <1>5
<1>7. \A n \in D : kids[n] = Children(a, n)
  BY DEF kids, KidsOf
<1>8. [n \in D |-> IF kids[n] = <<>> THEN 1 ELSE Total(f, kids[n])] =
        [n \in D |-> IF Children(a, n) = <<>> THEN 1 ELSE Total(f, Children(a, n))]
  BY ONLY <1>7
<1>9. f = [n \in D |-> IF Children(a, n) = <<>> THEN 1 ELSE Total(f, Children(a, n))]
  BY ONLY <1>5, <1>6, <1>8
<1> QED
  BY <1>9 DEF IsCount

Simple(a) == {k \in Node : a.child[k] = Null}

(***************************************************************************)
(* Counting turns. The place of a member in a list.                        *)
(***************************************************************************)
LEMMA NextTurn ==
  ASSUME NEW p, p \in Nat \ {0, 1}, NEW k, k \in Nat
  PROVE  (k + 1) % p = 1 <=> k % p = 0
<1> DEFINE q == k \div p
           d == (k + 1) \div p
           r == (k + 1) % p
<1>1. q \in Int /\ d \in Int /\ r \in 0..(p - 1) /\ k % p \in 0..(p - 1)
  OBVIOUS
<1>2. k % p = k - p * q /\ r = (k + 1) - p * d
  OBVIOUS
<1>5. p * q \in Int /\ p * d \in Int
  BY <1>1
<1>3. ASSUME r = 1 PROVE k % p = 0
  BY <1>3
<1>4. ASSUME k % p = 0 PROVE r = 1
  <2> HIDE DEF q, d, r
  <2>1. p * q + 1 = p * d + r
    BY <1>1, <1>2, <1>4, <1>5
  <2>2. CASE d > q
    <3>1. PICK x \in Nat : d = q + 1 + x
      <4>1. d - q - 1 \in Nat /\ d = q + 1 + (d - q - 1)
        BY <1>1, <2>2
      <4> QED
        BY <4>1
    <3>2. p * d = p * q + p + p * x
      BY <1>1, <3>1
    <3>3. p * x \in Nat /\ p * q \in Int
      BY <1>1
    <3> QED
      BY <1>1, <2>1, <3>2, <3>3
  <2>3. CASE d < q
    <3>1. PICK x \in Nat : q = d + 1 + x
      <4>1. q - d - 1 \in Nat /\ q = d + 1 + (q - d - 1)
        BY <1>1, <2>3
      <4> QED
        BY <4>1
    <3>2. p * q = p * d + p + p * x
      BY <1>1, <3>1
    <3>3. p * x \in Nat /\ p * d \in Int
      BY <1>1
    <3> QED
      BY <1>1, <2>1, <3>2, <3>3
  <2>4. CASE d = q
    <3>1. p * q \in Int
      BY <1>1
    <3> QED
      BY <1>1, <2>1, <2>4, <3>1
  <2> QED
    BY <1>1, <2>2, <2>3, <2>4
<1> QED
  BY <1>3, <1>4

LEMMA FirstTurn ==
  ASSUME NEW p, p \in Nat \ {0, 1}
  PROVE  1 % p = 1 /\ 0 % p = 0
<1> QED
  OBVIOUS

Place(list, n) == SelectInSeq(list, LAMBDA x : x = n)

LEMMA PlaceFacts ==
  ASSUME NEW S, NEW list, list \in Seq(S), NEW n, n \in ToSet(list)
  PROVE  Place(list, n) \in DOMAIN list /\ list[Place(list, n)] = n
<1> DEFINE I == {i \in 1..Len(list) : list[i] = n}
<1>1. Place(list, n) = IF I # {} THEN Min(I) ELSE 0
  BY DEF Place, SelectInSeq
<1>2. DOMAIN list = 1..Len(list) /\ Len(list) \in Nat
  BY Members
<1>3. I # {} /\ I \subseteq Nat
  BY <1>2 DEF ToSet
<1>4. \E x \in I : \A y \in I : x <= y
  <2> HIDE DEF I
  <2> QED
    BY <1>3, LeastNatural
<1>5. Min(I) \in I
  <2> HIDE DEF I
  <2> QED
    BY <1>4 DEF Min
<1>6. Place(list, n) \in I
  <2> HIDE DEF I
  <2> QED
    BY <1>1, <1>3, <1>5
<1> QED
  BY <1>2, <1>6

================================================================================
