------------------------ MODULE AgentInputQueueFacts ------------------------
(***************************************************************************)
(* Facts about the operators of AgentInputQueue: sequences, the filter,    *)
(* what each method of the queue does to the fields of a lane, and the shape*)
(* of a lane that those methods keep.                                      *)
(***************************************************************************)
EXTENDS AgentInputQueue, SequenceTheorems, FiniteSetTheorems, WellFoundedInduction, TLAPS
-----------------------------------------------------------------------------

(* Induction: a set of naturals has a least member *)
LEMMA Least ==
  ASSUME NEW S \in SUBSET Nat, S # {}
  PROVE  \E m \in S : \A n \in S : m <= n
<1> DEFINE R == OpToRel(<, Nat)
<1>1. IsWellFoundedOn(R, Nat)
  BY NatLessThanWellFounded
<1> HIDE DEF R
<1>2. PICK m \in S : \A n \in S : ~(<<n, m>> \in R)
  BY <1>1, WFMin
<1>3. ASSUME NEW n \in S, n < m PROVE FALSE
  BY <1>2, <1>3 DEF R, OpToRel
<1> QED BY <1>2, <1>3

\* The first n steps of Only(s, S), for every n.
Steps(g, s, S, n) ==
  g = [k \in 0..n |-> IF k = 0 THEN <<>>
                      ELSE IF s[k] \in S THEN Append(g[k - 1], s[k]) ELSE g[k - 1]]

\* The filter's recursion has a solution, up to the length of its sequence.
LEMMA StepsExist ==
  ASSUME NEW X, NEW s \in Seq(X), NEW S
  PROVE  \E g : Steps(g, s, S, Len(s))
<1> DEFINE None == {n \in 0..Len(s) : ~ \E g : Steps(g, s, S, n)}
<1>1. SUFFICES ASSUME None # {} PROVE FALSE
  BY LenProperties
<1>2. PICK n \in None : \A k \in None : n <= k
  <2>1. None \in SUBSET Nat
    BY LenProperties
  <2> HIDE DEF None
  <2> QED BY <1>1, <2>1, Least
<1>3. Len(s) \in Nat /\ n \in 0..Len(s)
  BY LenProperties
<1>4. CASE n = 0
  <2> DEFINE g == [k \in 0..0 |-> <<>>]
  <2>1. Steps(g, s, S, 0)
    BY DEF Steps
  <2> QED BY <1>4, <2>1
<1>5. CASE n # 0
  <2>1. n - 1 \in 0..Len(s) /\ n - 1 \notin None
    BY <1>2, <1>3, <1>5
  <2>2. PICK g : Steps(g, s, S, n - 1)
    BY <2>1
  <2> DEFINE next == IF s[n] \in S THEN Append(g[n - 1], s[n]) ELSE g[n - 1]
             h == [k \in 0..n |-> IF k = n THEN next ELSE g[k]]
  <2>3. ASSUME NEW k \in 0..n
        PROVE  h[k] = IF k = 0 THEN <<>>
                      ELSE IF s[k] \in S THEN Append(h[k - 1], s[k]) ELSE h[k - 1]
    <3>1. CASE k = n
      <4>1. k # 0 /\ k - 1 \in 0..n /\ k - 1 # n
        BY <1>3, <1>5, <3>1
      <4> QED BY <3>1, <4>1
    <3>2. CASE k # n
      <4>1. k \in 0..(n - 1) /\ (k # 0 => k - 1 \in 0..n /\ k - 1 # n)
        BY <1>3, <3>2
      <4>2. g[k] = IF k = 0 THEN <<>>
                   ELSE IF s[k] \in S THEN Append(g[k - 1], s[k]) ELSE g[k - 1]
        BY <2>2, <4>1 DEF Steps
      <4> QED BY <3>2, <4>1, <4>2
    <3> QED BY <3>1, <3>2
  <2>4. Steps(h, s, S, n)
    BY <2>3 DEF Steps
  <2> QED BY <2>4
<1> QED BY <1>4, <1>5

\* And Only(s, S) is where it ends.
LEMMA OnlySteps ==
  ASSUME NEW X, NEW s \in Seq(X), NEW S
  PROVE  \E g : Steps(g, s, S, Len(s)) /\ Only(s, S) = g[Len(s)]
<1> DEFINE f == CHOOSE g : Steps(g, s, S, Len(s))
<1>1. Steps(f, s, S, Len(s))
  BY StepsExist
<1>2. Only(s, S) = f[Len(s)]
  BY DEF Only, Steps
<1> HIDE DEF f
<1> QED BY <1>1, <1>2

\* What a filter keeps, where it comes from, and in which order.
LEMMA OnlyProperties ==
  ASSUME NEW X, NEW s \in Seq(X), NEW S
  PROVE  /\ Only(s, S) \in Seq(X)
         /\ \A k \in 1..Len(Only(s, S)) : Only(s, S)[k] \in S
         /\ \A a \in 1..Len(s) : s[a] \in S =>
              \E k \in 1..Len(Only(s, S)) : Only(s, S)[k] = s[a]
         /\ \A k \in 1..Len(Only(s, S)) : \E a \in 1..Len(s) : Only(s, S)[k] = s[a]
         /\ \A k, m \in 1..Len(Only(s, S)) : k < m =>
              \E a, b \in 1..Len(s) : a < b /\ Only(s, S)[k] = s[a] /\ Only(s, S)[m] = s[b]
<1>1. PICK g : Steps(g, s, S, Len(s)) /\ Only(s, S) = g[Len(s)]
  BY OnlySteps
<1>2. Len(s) \in Nat /\ \A a \in 1..Len(s) : s[a] \in X
  BY LenProperties, ElementOfSeq
<1> DEFINE From(n) ==
             /\ g[n] \in Seq(X)
             /\ \A k \in 1..Len(g[n]) : g[n][k] \in S
             /\ \A a \in 1..n : s[a] \in S => \E k \in 1..Len(g[n]) : g[n][k] = s[a]
             /\ \A k \in 1..Len(g[n]) : \E a \in 1..n : g[n][k] = s[a]
             /\ \A k, m \in 1..Len(g[n]) : k < m =>
                  \E a, b \in 1..n : a < b /\ g[n][k] = s[a] /\ g[n][m] = s[b]
           Bad == {n \in 0..Len(s) : ~From(n)}
<1>3. From(0)
  <2>1. g[0] = <<>>
    BY <1>1, <1>2 DEF Steps
  <2> QED BY <2>1
<1>4. ASSUME NEW n \in 1..Len(s), From(n - 1) PROVE From(n)
  <2>1. /\ n - 1 \in Nat /\ n \in 1..n /\ s[n] \in X
        /\ \A a \in 1..n : a \in 1..(n - 1) \/ a = n
        /\ 1..(n - 1) \subseteq 1..n /\ n \notin 1..(n - 1)
        /\ \A a \in 1..(n - 1) : a < n
    BY <1>2
  <2>0. g[n] = IF s[n] \in S THEN Append(g[n - 1], s[n]) ELSE g[n - 1]
    <3>1. n \in 0..Len(s) /\ n # 0
      BY <1>2
    <3> QED BY <1>1, <3>1 DEF Steps
  <2> DEFINE p == g[n - 1]
  <2>2. p \in Seq(X)
    BY <1>4
  <2>3. CASE s[n] \in S
    <3>1. g[n] = Append(p, s[n])
      BY <2>0, <2>3
    <3> HIDE DEF p
    <3>2. /\ g[n] \in Seq(X) /\ Len(g[n]) = Len(p) + 1 /\ Len(p) \in Nat
          /\ g[n][Len(p) + 1] = s[n]
          /\ \A k \in 1..Len(p) : g[n][k] = p[k]
      BY <2>1, <2>2, <3>1
    <3>3. /\ \A k \in 1..Len(g[n]) : k \in 1..Len(p) \/ k = Len(p) + 1
          /\ 1..Len(p) \subseteq 1..Len(g[n]) /\ Len(p) + 1 \in 1..Len(g[n])
      BY <3>2
    <3>4. \A k \in 1..Len(g[n]) : g[n][k] \in S
      BY <1>4, <2>3, <3>2, <3>3 DEF p
    <3>5. \A a \in 1..n : s[a] \in S => \E k \in 1..Len(g[n]) : g[n][k] = s[a]
      BY <1>4, <2>1, <3>2, <3>3 DEF p
    <3>6. ASSUME NEW k \in 1..Len(g[n]) PROVE \E a \in 1..n : g[n][k] = s[a]
      <4>1. CASE k = Len(p) + 1
        BY <2>1, <3>2, <4>1
      <4>2. CASE k \in 1..Len(p)
        <5>1. PICK a \in 1..(n - 1) : p[k] = s[a]
          BY <1>4, <4>2 DEF p
        <5> QED BY <2>1, <3>2, <4>2, <5>1
      <4> QED BY <3>3, <4>1, <4>2
    <3>7. ASSUME NEW k \in 1..Len(g[n]), NEW m \in 1..Len(g[n]), k < m
          PROVE  \E a, b \in 1..n : a < b /\ g[n][k] = s[a] /\ g[n][m] = s[b]
      <4>1. k \in 1..Len(p)
        BY <3>2, <3>7
      <4>2. CASE m \in 1..Len(p)
        <5>1. PICK a \in 1..(n - 1), b \in 1..(n - 1) : a < b /\ p[k] = s[a] /\ p[m] = s[b]
          BY <1>4, <3>7, <4>1, <4>2 DEF p
        <5> QED BY <2>1, <3>2, <4>1, <4>2, <5>1
      <4>3. CASE m = Len(p) + 1
        <5>1. PICK a \in 1..(n - 1) : p[k] = s[a]
          BY <1>4, <4>1 DEF p
        <5> QED BY <2>1, <3>2, <4>1, <4>3, <5>1
      <4> QED BY <3>3, <4>2, <4>3
    <3> QED BY <3>2, <3>4, <3>5, <3>6, <3>7
  <2>4. CASE s[n] \notin S
    <3>1. g[n] = p
      BY <2>0, <2>4
    <3> HIDE DEF p
    <3>2. \A a \in 1..n : s[a] \in S => \E k \in 1..Len(g[n]) : g[n][k] = s[a]
      BY <1>4, <2>1, <2>4, <3>1 DEF p
    <3>3. \A k \in 1..Len(g[n]) : \E a \in 1..n : g[n][k] = s[a]
      BY <1>4, <2>1, <3>1 DEF p
    <3>4. \A k, m \in 1..Len(g[n]) : k < m =>
            \E a, b \in 1..n : a < b /\ g[n][k] = s[a] /\ g[n][m] = s[b]
      BY <1>4, <2>1, <3>1 DEF p
    <3> QED BY <1>4, <2>2, <3>1, <3>2, <3>3, <3>4 DEF p
  <2> QED BY <2>3, <2>4
<1>5. Bad = {}
  <2> SUFFICES ASSUME Bad # {} PROVE FALSE
    OBVIOUS
  <2>1. Bad \in SUBSET Nat
    BY <1>2
  <2>2. PICK n \in Bad : \A k \in Bad : n <= k
    <3> HIDE DEF Bad
    <3> QED BY <2>1, Least
  <2> HIDE DEF From
  <2>3. n \in 1..Len(s)
    BY <1>2, <1>3, <2>2
  <2>4. From(n - 1)
    BY <1>2, <2>2, <2>3
  <2> QED BY <1>4, <2>2, <2>3, <2>4
<1>6. From(Len(s))
  <2> HIDE DEF From
  <2> QED BY <1>2, <1>5
<1> QED BY <1>1, <1>6
-----------------------------------------------------------------------------
(* Sequences as sets *)

\* No value occurs twice in s.
Distinct(s) == \A a, b \in 1..Len(s) : s[a] = s[b] => a = b

\* ToSet of a sequence has its elements, and no other.
LEMMA InSet ==
  ASSUME NEW X, NEW s \in Seq(X)
  PROVE  /\ \A x : x \in ToSet(s) <=> \E a \in 1..Len(s) : s[a] = x
         /\ ToSet(s) \subseteq X /\ Len(s) \in Nat
         /\ s = <<>> <=> ToSet(s) = {}
<1>1. DOMAIN s = 1..Len(s) /\ Len(s) \in Nat /\ \A a \in 1..Len(s) : s[a] \in X
  BY LenProperties, ElementOfSeq
<1>2. \A x : x \in ToSet(s) <=> \E a \in 1..Len(s) : s[a] = x
  BY <1>1 DEF ToSet
<1>3. ToSet(s) \subseteq X
  BY <1>1 DEF ToSet
<1>4. s = <<>> => ToSet(s) = {}
  BY <1>1 DEF ToSet
<1>5. s # <<>> => ToSet(s) # {}
  <2>1. s # <<>> => 1 \in 1..Len(s)
    BY <1>1, EmptySeq
  <2> QED BY <1>1, <2>1 DEF ToSet
<1> QED BY <1>1, <1>2, <1>3, <1>4, <1>5

\* A sequence of one element.
LEMMA OneIs ==
  ASSUME NEW X, NEW x \in X
  PROVE  <<x>> \in Seq(X) /\ ToSet(<<x>>) = {x} /\ Distinct(<<x>>) /\ <<x>> # <<>>
<1>1. <<x>> \in Seq(X) /\ Len(<<x>>) = 1 /\ <<x>>[1] = x
  OBVIOUS
<1>2. \A a \in 1..1 : a = 1
  OBVIOUS
<1>3. ASSUME NEW y PROVE y \in ToSet(<<x>>) <=> y = x
  <2>1. y \in ToSet(<<x>>) <=> \E a \in 1..Len(<<x>>) : <<x>>[a] = y
    BY <1>1, InSet
  <2> QED BY <1>1, <1>2, <2>1
<1>4. Distinct(<<x>>)
  BY <1>1, <1>2 DEF Distinct
<1>5. ToSet(<<x>>) = {x}
  BY <1>3
<1> QED BY <1>1, <1>4, <1>5

\* The empty sequence.
LEMMA NoneIs == /\ ToSet(<<>>) = {} /\ Distinct(<<>>) /\ \A X : <<>> \in Seq(X)
<1>1. \A X : <<>> \in Seq(X)
  OBVIOUS
<1>2. ToSet(<<>>) = {}
  BY <1>1, InSet
<1>3. Distinct(<<>>)
  BY DEF Distinct
<1> QED BY <1>1, <1>2, <1>3

\* Two sequences one after the other.
LEMMA JoinIs ==
  ASSUME NEW X, NEW s \in Seq(X), NEW t \in Seq(X)
  PROVE  /\ s \o t \in Seq(X) /\ ToSet(s \o t) = ToSet(s) \union ToSet(t)
         /\ Distinct(s) /\ Distinct(t) /\ ToSet(s) \intersect ToSet(t) = {} => Distinct(s \o t)
         /\ Len(s \o t) = Len(s) + Len(t) /\ Len(s) \in Nat /\ Len(t) \in Nat
         /\ \A a \in 1..Len(s) : (s \o t)[a] = s[a]
         /\ \A a \in 1..Len(t) : (s \o t)[Len(s) + a] = t[a]
<1> DEFINE j == s \o t
<1>1. /\ j \in Seq(X) /\ Len(j) = Len(s) + Len(t) /\ Len(s) \in Nat /\ Len(t) \in Nat
      /\ \A a \in 1..Len(s) : j[a] = s[a]
      /\ \A a \in 1..Len(t) : j[Len(s) + a] = t[a]
  OBVIOUS
<1> HIDE DEF j
<1>2. /\ \A a \in 1..Len(j) : a \in 1..Len(s) \/ (a - Len(s) \in 1..Len(t) /\ Len(s) + (a - Len(s)) = a)
      /\ \A a \in 1..Len(s) : a \in 1..Len(j)
      /\ \A a \in 1..Len(t) : Len(s) + a \in 1..Len(j)
  BY <1>1
<1>3. ToSet(j) = ToSet(s) \union ToSet(t)
  <2>1. ASSUME NEW x \in ToSet(j) PROVE x \in ToSet(s) \union ToSet(t)
    <3>0. x \in ToSet(j) <=> \E a \in 1..Len(j) : j[a] = x
      BY <1>1, InSet
    <3>1. PICK a \in 1..Len(j) : j[a] = x
      BY <2>1, <3>0
    <3>2. CASE a \in 1..Len(s)
      BY <1>1, <3>1, <3>2, InSet
    <3>3. CASE a - Len(s) \in 1..Len(t) /\ Len(s) + (a - Len(s)) = a
      <4>1. t[a - Len(s)] = x
        BY <1>1, <3>1, <3>3
      <4> QED BY <3>3, <4>1, InSet
    <3> QED BY <1>2, <3>2, <3>3
  <2>2. ASSUME NEW x \in ToSet(s) PROVE x \in ToSet(j)
    BY <1>1, <1>2, InSet
  <2>3. ASSUME NEW x \in ToSet(t) PROVE x \in ToSet(j)
    <3>1. PICK a \in 1..Len(t) : t[a] = x
      BY InSet
    <3>2. Len(s) + a \in 1..Len(j) /\ j[Len(s) + a] = x
      BY <1>1, <1>2, <3>1
    <3> QED BY <1>1, <3>2, InSet
  <2> QED BY <2>1, <2>2, <2>3
<1>4. ASSUME Distinct(s), Distinct(t), ToSet(s) \intersect ToSet(t) = {},
             NEW a \in 1..Len(j), NEW b \in 1..Len(j), j[a] = j[b]
      PROVE  a = b
  <2> DEFINE in(c) == c \in 1..Len(s) /\ j[c] = s[c] /\ j[c] \in ToSet(s)
             out(c) == /\ c - Len(s) \in 1..Len(t) /\ j[c] = t[c - Len(s)]
                       /\ j[c] \in ToSet(t) /\ Len(s) + (c - Len(s)) = c
  <2>1. ASSUME NEW c \in 1..Len(j) PROVE in(c) \/ out(c)
    <3>1. CASE c \in 1..Len(s)
      BY <1>1, <3>1, InSet
    <3>2. CASE c - Len(s) \in 1..Len(t) /\ Len(s) + (c - Len(s)) = c
      <4>1. j[c] = t[c - Len(s)]
        BY <1>1, <3>2
      <4> QED BY <3>2, <4>1, InSet
    <3> QED BY <1>2, <3>1, <3>2
  <2>2. CASE in(a) /\ in(b)
    BY <1>4, <2>2 DEF Distinct
  <2>3. CASE out(a) /\ out(b)
    <3>1. a - Len(s) = b - Len(s)
      BY <1>4, <2>3 DEF Distinct
    <3> QED BY <1>1, <2>3, <3>1
  <2>4. ~(in(a) /\ out(b)) /\ ~(out(a) /\ in(b))
    BY <1>4
  <2> QED BY <2>1, <2>2, <2>3, <2>4
<1>5. Distinct(s) /\ Distinct(t) /\ ToSet(s) \intersect ToSet(t) = {} => Distinct(j)
  BY <1>4 DEF Distinct
<1> QED BY <1>1, <1>3, <1>5 DEF j

\* A sequence with one more at its end.
LEMMA AppendIs ==
  ASSUME NEW X, NEW s \in Seq(X), NEW x \in X
  PROVE  /\ Append(s, x) \in Seq(X) /\ Append(s, x) # <<>>
         /\ ToSet(Append(s, x)) = ToSet(s) \union {x}
         /\ Distinct(s) /\ x \notin ToSet(s) => Distinct(Append(s, x))
<1> DEFINE a == Append(s, x)
           one == <<x>>
<1>1. a = s \o one /\ a \in Seq(X) /\ a # <<>>
  OBVIOUS
<1>2. one \in Seq(X) /\ ToSet(one) = {x} /\ Distinct(one)
  BY OneIs
<1> HIDE DEF a, one
<1>3. /\ ToSet(s \o one) = ToSet(s) \union ToSet(one)
      /\ Distinct(s) /\ Distinct(one) /\ ToSet(s) \intersect ToSet(one) = {} => Distinct(s \o one)
  BY <1>2, JoinIs
<1>4. /\ ToSet(a) = ToSet(s) \union {x}
      /\ Distinct(s) /\ x \notin ToSet(s) => Distinct(a)
  BY <1>1, <1>2, <1>3
<1> QED BY <1>1, <1>4 DEF a

\* A sequence is its head and its tail.
LEMMA TailIs ==
  ASSUME NEW X, NEW s \in Seq(X), s # <<>>
  PROVE  /\ Head(s) \in X /\ Tail(s) \in Seq(X) /\ s = <<Head(s)>> \o Tail(s)
         /\ ToSet(s) = {Head(s)} \union ToSet(Tail(s))
         /\ Distinct(s) => Distinct(Tail(s)) /\ Head(s) \notin ToSet(Tail(s))
         /\ Len(Tail(s)) = Len(s) - 1 /\ Len(s) \in Nat \ {0} /\ Head(s) = s[1]
         /\ \A a \in 1..Len(Tail(s)) : Tail(s)[a] = s[a + 1]
<1> DEFINE h == Head(s)
           t == Tail(s)
<1>1. /\ h \in X /\ t \in Seq(X) /\ h = s[1] /\ Len(t) = Len(s) - 1 /\ Len(s) \in Nat \ {0}
      /\ \A a \in 1..Len(t) : t[a] = s[a + 1]
  OBVIOUS
<1>2. s = <<h>> \o t
  BY <1>1
<1> HIDE DEF h, t
<1>3. ToSet(s) = {h} \union ToSet(t)
  <2> DEFINE one == <<h>>
  <2>1. one \in Seq(X) /\ ToSet(one) = {h} /\ s = one \o t
    BY <1>1, <1>2, OneIs
  <2> HIDE DEF one
  <2> QED BY <1>1, <2>1, JoinIs
<1>4. ASSUME Distinct(s) PROVE Distinct(t) /\ h \notin ToSet(t)
  <2>1. \A a \in 1..Len(t) : a + 1 \in 1..Len(s) /\ a + 1 # 1
    BY <1>1
  <2>2. Distinct(t)
    BY <1>1, <1>4, <2>1 DEF Distinct
  <2>3. \A a \in 1..Len(t) : t[a] # h
    BY <1>1, <1>4, <2>1 DEF Distinct
  <2> QED BY <1>1, <2>2, <2>3, InSet
<1> QED BY <1>1, <1>2, <1>3, <1>4 DEF h, t

\* The filter keeps the wanted elements, and no duplicate.
LEMMA OnlyIs ==
  ASSUME NEW X, NEW s \in Seq(X), NEW S
  PROVE  /\ Only(s, S) \in Seq(X) /\ ToSet(Only(s, S)) = ToSet(s) \intersect S
         /\ Distinct(s) => Distinct(Only(s, S))
<1> DEFINE o == Only(s, S)
<1>1. /\ o \in Seq(X)
      /\ \A k \in 1..Len(o) : o[k] \in S
      /\ \A a \in 1..Len(s) : s[a] \in S => \E k \in 1..Len(o) : o[k] = s[a]
      /\ \A k \in 1..Len(o) : \E a \in 1..Len(s) : o[k] = s[a]
      /\ \A k, m \in 1..Len(o) : k < m => \E a, b \in 1..Len(s) : a < b /\ o[k] = s[a] /\ o[m] = s[b]
  BY OnlyProperties
<1> HIDE DEF o
<1>2. ASSUME NEW x \in ToSet(o) PROVE x \in ToSet(s) \intersect S
  <2>1. PICK k \in 1..Len(o) : o[k] = x
    BY <1>1, InSet
  <2> QED BY <1>1, <2>1, InSet
<1>3. ASSUME NEW x \in ToSet(s) \intersect S PROVE x \in ToSet(o)
  <2>1. PICK a \in 1..Len(s) : s[a] = x
    BY InSet
  <2> QED BY <1>1, <2>1, InSet
<1>4. ASSUME Distinct(s), NEW k \in 1..Len(o), NEW m \in 1..Len(o), o[k] = o[m], k < m
      PROVE  FALSE
  <2>1. PICK a \in 1..Len(s), b \in 1..Len(s) : a < b /\ o[k] = s[a] /\ o[m] = s[b]
    BY <1>1, <1>4
  <2>2. Len(s) \in Nat
    BY InSet
  <2>3. a = b
    BY <1>4, <2>1 DEF Distinct
  <2> QED BY <2>1, <2>2, <2>3
<1>5. Distinct(s) => Distinct(o)
  <2>1. Len(o) \in Nat
    BY <1>1, InSet
  <2>2. \A k, m \in 1..Len(o) : k = m \/ k < m \/ m < k
    BY <2>1
  <2> QED BY <1>4, <2>2 DEF Distinct
<1> QED BY <1>1, <1>2, <1>3, <1>5 DEF o
-----------------------------------------------------------------------------
(* The lane and its turn *)

Stages == {"waiting", "current", "binding", "sending", "sent", "running",
           "answering", "answered"}
Dispatches == {"none", "saving", "steering", "delivered", "requeued", "deferred"}
Turn == [id : Nat, first : Inputs, prompted : Seq(Inputs), steered : Seq(Inputs),
         ready : BOOLEAN, pending : Inputs \union {NoInput},
         last : Inputs \union {NoInput}, sealed : BOOLEAN, superseded : BOOLEAN,
         stage : Stages, interrupted : BOOLEAN, stopped : BOOLEAN]
Lane == [provider : {"local", "remote"}, active : Turn \union {NoTurn},
         queued : Seq(Inputs), carried : Seq(Inputs), closed : BOOLEAN, turns : Nat,
         state : [Inputs -> States], priority : [Inputs -> {"next", "now"}],
         dispatch : [Inputs -> Dispatches], owner : [Inputs -> Nat],
         durable : SUBSET Inputs, broken : SUBSET Inputs, answered : SUBSET Inputs,
         doubtful : SUBSET Inputs, stopped : SUBSET Inputs]

\* No turn is not a turn.
LEMMA NoTurnIsNone == ASSUME NEW t \in Turn PROVE t # NoTurn
BY DEF Turn, NoTurn

\* The fields of a lane have their types.
LEMMA LaneIs ==
  ASSUME NEW L \in Lane
  PROVE  /\ L.queued \in Seq(Inputs) /\ L.carried \in Seq(Inputs)
         /\ L.closed \in BOOLEAN /\ L.turns \in Nat
         /\ L.state \in [Inputs -> States] /\ L.priority \in [Inputs -> {"next", "now"}]
         /\ L.dispatch \in [Inputs -> Dispatches] /\ L.owner \in [Inputs -> Nat]
         /\ L.durable \subseteq Inputs /\ L.broken \subseteq Inputs
         /\ L.answered \subseteq Inputs /\ L.doubtful \subseteq Inputs
         /\ L.stopped \subseteq Inputs
         /\ HasTurn(L) => /\ L.active \in Turn
                          /\ L.active.id \in Nat /\ L.active.first \in Inputs
                          /\ L.active.prompted \in Seq(Inputs) /\ L.active.steered \in Seq(Inputs)
                          /\ L.active.pending \in Inputs \union {NoInput}
                          /\ L.active.last \in Inputs \union {NoInput}
                          /\ L.active.stage \in Stages
BY DEF Lane, Turn, HasTurn

\* update() changes a status and what is remembered of it, and nothing else.
Updated(L, S, st, U) ==
  /\ U \in Lane
  /\ U.active = L.active /\ U.queued = L.queued /\ U.carried = L.carried
  /\ U.closed = L.closed /\ U.turns = L.turns /\ U.priority = L.priority
  /\ U.dispatch = L.dispatch /\ U.owner = L.owner /\ U.broken = L.broken
  /\ U.answered = L.answered /\ U.stopped = L.stopped /\ U.provider = L.provider
  /\ \A i \in Inputs : U.state[i] = IF i \in S THEN st ELSE L.state[i]
  /\ U.durable = IF st = "queued" THEN L.durable \ S ELSE L.durable
  /\ U.doubtful = IF st = "unknown" THEN L.doubtful \union S ELSE L.doubtful

\* update() sets the statuses and no more.
LEMMA UpdateIs ==
  ASSUME NEW L \in Lane, NEW S \in SUBSET Inputs, NEW st \in States
  PROVE  Updated(L, S, st, Update(L, S, st))
BY DEF Updated, Update, Lane

\* What a started turn carries, and what it leaves in the queue.
LEMMA PromptIs ==
  ASSUME NEW L \in Lane, NEW e \in Inputs
  PROVE  /\ Prompt(L, e) \in Seq(Inputs) /\ Rest(L, e) \in Seq(Inputs)
         /\ Absorbed(L, e) \in Seq(Inputs)
         /\ ToSet(Prompt(L, e)) = ToSet(L.carried) \union {e} \union ToSet(Absorbed(L, e))
         /\ ToSet(Absorbed(L, e)) \subseteq ToSet(L.queued)
         /\ ToSet(Rest(L, e)) = ToSet(L.queued) \ ToSet(Absorbed(L, e))
         /\ Distinct(L.queued) => Distinct(Rest(L, e))
         /\ /\ Distinct(L.queued) /\ Distinct(L.carried)
            /\ ToSet(L.queued) \intersect ToSet(L.carried) = {}
            /\ e \notin ToSet(L.queued) \union ToSet(L.carried)
            => Distinct(Prompt(L, e))
<1> DEFINE a == Absorbed(L, e)
           c == L.carried
<1>1. L.queued \in Seq(Inputs) /\ c \in Seq(Inputs)
  BY LaneIs
<1>2. /\ a \in Seq(Inputs) /\ ToSet(a) \subseteq ToSet(L.queued)
      /\ Distinct(L.queued) => Distinct(a)
  BY <1>1, OnlyIs, NoneIs DEF Absorbed
<1>3. /\ Rest(L, e) \in Seq(Inputs) /\ ToSet(Rest(L, e)) = ToSet(L.queued) \ ToSet(a)
      /\ Distinct(L.queued) => Distinct(Rest(L, e))
  <2>1. ToSet(L.queued) \subseteq Inputs
    BY <1>1, InSet
  <2> QED BY <1>1, <2>1, OnlyIs DEF Rest
<1> DEFINE one == <<e>>
           ce == c \o one
<1>4. one \in Seq(Inputs) /\ ToSet(one) = {e} /\ Distinct(one) /\ Prompt(L, e) = ce \o a
  <2>1. Prompt(L, e) = c \o one \o a
    BY DEF Prompt
  <2> QED BY <1>1, <1>2, <2>1, OneIs
<1> HIDE DEF one, a, c
<1>5. /\ ce \in Seq(Inputs) /\ ToSet(ce) = ToSet(c) \union {e}
      /\ Distinct(c) /\ e \notin ToSet(c) => Distinct(ce)
  BY <1>1, <1>4, JoinIs
<1> HIDE DEF ce
<1>6. /\ ce \o a \in Seq(Inputs) /\ ToSet(ce \o a) = ToSet(ce) \union ToSet(a)
      /\ Distinct(ce) /\ Distinct(a) /\ ToSet(ce) \intersect ToSet(a) = {} => Distinct(ce \o a)
  BY <1>2, <1>5, JoinIs
<1> QED BY <1>2, <1>3, <1>4, <1>5, <1>6 DEF a, c

\* start(e) makes the carried inputs, e and what it absorbs a new turn.
Started(L, e, S) ==
  /\ S \in Lane /\ HasTurn(S)
  /\ S.active.id = L.turns + 1 /\ S.active.first = e
  /\ S.active.prompted = Prompt(L, e) /\ S.active.steered = <<>>
  /\ S.active.ready = FALSE /\ S.active.pending = NoInput /\ S.active.last = NoInput
  /\ S.active.sealed = FALSE /\ S.active.superseded = FALSE /\ S.active.stage = "waiting"
  /\ S.active.interrupted = FALSE /\ S.active.stopped = FALSE
  /\ S.queued = Rest(L, e) /\ S.carried = <<>> /\ S.turns = L.turns + 1
  /\ S.closed = L.closed /\ S.priority = L.priority /\ S.dispatch = L.dispatch
  /\ S.owner = L.owner /\ S.broken = L.broken /\ S.answered = L.answered
  /\ S.stopped = L.stopped /\ S.provider = L.provider
  /\ S.durable = L.durable \ ToSet(Prompt(L, e)) /\ S.doubtful = L.doubtful
  /\ \A i \in Inputs : S.state[i] = IF i \in ToSet(Prompt(L, e)) THEN "queued" ELSE L.state[i]

\* start(): the fields of the lane it returns.
LEMMA StartIs ==
  ASSUME NEW L \in Lane, NEW e \in Inputs
  PROVE  Started(L, e, Start(L, e))
<1> DEFINE p == Prompt(L, e)
           r == Rest(L, e)
           P == ToSet(p)
           turn == [id |-> L.turns + 1, first |-> e, prompted |-> p,
                    steered |-> <<>>, ready |-> FALSE, pending |-> NoInput,
                    last |-> NoInput, sealed |-> FALSE, superseded |-> FALSE,
                    stage |-> "waiting", interrupted |-> FALSE, stopped |-> FALSE]
           M == [L EXCEPT !.active = turn, !.turns = @ + 1, !.carried = <<>>, !.queued = r]
           S == Start(L, e)
<1>1. S = Update(M, P, "queued")
  BY DEF Start
<1>2. p \in Seq(Inputs) /\ r \in Seq(Inputs) /\ P \subseteq Inputs
  BY PromptIs, InSet
<1> HIDE DEF p, r, P
<1>3. turn \in Turn
  BY <1>2 DEF Turn, Stages, Lane
<1>4. M \in Lane
  <2> HIDE DEF turn
  <2>1. <<>> \in Seq(Inputs) /\ L.turns + 1 \in Nat
    BY LaneIs
  <2> DEFINE none == <<>>
             n == L.turns + 1
             K == [L EXCEPT !.active = turn, !.turns = n, !.carried = none, !.queued = r]
  <2>2. none \in Seq(Inputs) /\ n \in Nat
    BY <2>1
  <2> HIDE DEF none, n
  <2>3. K \in Lane
    BY <1>2, <1>3, <2>2 DEF Lane
  <2> QED BY <2>3 DEF none, n
<1>5. /\ M.active = turn /\ M.queued = r /\ M.carried = <<>> /\ M.turns = L.turns + 1
      /\ M.closed = L.closed /\ M.priority = L.priority /\ M.dispatch = L.dispatch
      /\ M.owner = L.owner /\ M.broken = L.broken /\ M.answered = L.answered
      /\ M.stopped = L.stopped /\ M.provider = L.provider /\ M.state = L.state
      /\ M.durable = L.durable /\ M.doubtful = L.doubtful
  BY DEF Lane
<1> HIDE DEF M, S
<1>6. Updated(M, P, "queued", S)
  <2>1. "queued" \in States
    BY DEF States
  <2> QED BY <1>1, <1>2, <1>4, <2>1, UpdateIs
<1>7. HasTurn(S)
  <2> HIDE DEF turn
  <2> QED BY <1>3, <1>5, <1>6, NoTurnIsNone DEF HasTurn, Updated
<1> QED BY <1>5, <1>6, <1>7 DEF Started, Updated, S, p, r, P

\* flush() dispatches the head of the queue, if the turn takes input.
Flushed(L, F) ==
  /\ F \in Lane /\ HasTurn(F)
  /\ F.queued = Tail(L.queued) /\ F.carried = L.carried
  /\ F.closed = L.closed /\ F.turns = L.turns /\ F.priority = L.priority
  /\ F.broken = L.broken /\ F.answered = L.answered /\ F.stopped = L.stopped
  /\ F.provider = L.provider /\ F.durable = L.durable /\ F.doubtful = L.doubtful
  /\ F.active.id = L.active.id /\ F.active.first = L.active.first
  /\ F.active.prompted = L.active.prompted
  /\ F.active.steered = Append(L.active.steered, Head(L.queued))
  /\ F.active.ready = L.active.ready /\ F.active.sealed = L.active.sealed
  /\ F.active.pending = Head(L.queued) /\ F.active.last = Head(L.queued)
  /\ F.active.superseded = L.active.superseded /\ F.active.stage = L.active.stage
  /\ F.active.interrupted = L.active.interrupted /\ F.active.stopped = L.active.stopped
  /\ \A i \in Inputs :
       /\ F.state[i] = IF i = Head(L.queued) THEN "submitted" ELSE L.state[i]
       /\ F.dispatch[i] = IF i = Head(L.queued) THEN "saving" ELSE L.dispatch[i]
       /\ F.owner[i] = IF i = Head(L.queued) THEN L.active.id ELSE L.owner[i]

\* flush(): the fields of the lane it returns.
LEMMA FlushIs ==
  ASSUME NEW L \in Lane
  PROVE  /\ MaySteer(L) => Flushed(L, Flush(L))
         /\ ~MaySteer(L) => Flush(L) = L
<1>1. ~MaySteer(L) => Flush(L) = L
  BY DEF Flush
<1>2. ASSUME MaySteer(L) PROVE Flushed(L, Flush(L))
  <2> DEFINE e == Head(L.queued)
             q == Tail(L.queued)
             s == Append(L.active.steered, e)
             turn == [L.active EXCEPT !.pending = e, !.steered = s, !.last = e]
             M == [L EXCEPT !.queued = q, !.active = turn,
                            !.dispatch[e] = "saving", !.owner[e] = turn.id]
  <2>1. L.active \in Turn /\ L.queued \in Seq(Inputs) /\ L.queued # <<>>
    BY <1>2, LaneIs DEF MaySteer
  <2>2. e \in Inputs /\ q \in Seq(Inputs) /\ s \in Seq(Inputs)
    BY <2>1 DEF Turn
  <2>3. Flush(L) = Update(M, {e}, "submitted")
    BY <1>2 DEF Flush
  <2> HIDE DEF e, q, s
  <2>4. /\ turn \in Turn /\ turn.id = L.active.id /\ turn.first = L.active.first
        /\ turn.prompted = L.active.prompted /\ turn.steered = s /\ turn.ready = L.active.ready
        /\ turn.pending = e /\ turn.last = e /\ turn.sealed = L.active.sealed
        /\ turn.superseded = L.active.superseded /\ turn.stage = L.active.stage
        /\ turn.interrupted = L.active.interrupted /\ turn.stopped = L.active.stopped
        /\ turn.id \in Nat
    BY <2>1, <2>2 DEF Turn
  <2> HIDE DEF turn
  <2>5. /\ M \in Lane /\ M.queued = q /\ M.active = turn /\ M.carried = L.carried
        /\ M.closed = L.closed /\ M.turns = L.turns /\ M.priority = L.priority
        /\ M.broken = L.broken /\ M.answered = L.answered /\ M.stopped = L.stopped
        /\ M.provider = L.provider /\ M.durable = L.durable /\ M.doubtful = L.doubtful
        /\ M.state = L.state
        /\ \A i \in Inputs : /\ M.dispatch[i] = IF i = e THEN "saving" ELSE L.dispatch[i]
                             /\ M.owner[i] = IF i = e THEN turn.id ELSE L.owner[i]
    BY <2>2, <2>4 DEF Lane, Dispatches
  <2> HIDE DEF M
  <2>6. Updated(M, {e}, "submitted", Flush(L))
    <3>1. "submitted" \in States
      BY DEF States
    <3> QED BY <2>2, <2>3, <2>5, <3>1, UpdateIs
  <2>7. HasTurn(Flush(L))
    BY <2>4, <2>5, <2>6, NoTurnIsNone DEF HasTurn, Updated
  <2> QED BY <2>4, <2>5, <2>6, <2>7 DEF Flushed, Updated, e, q, s
<1> QED BY <1>1, <1>2

\* The inputs a superseded turn hands on are those it did not read.
LEMMA RemainingIs ==
  ASSUME NEW L \in Lane, HasTurn(L)
  PROVE  /\ Remaining(L) \in Seq(Inputs)
         /\ ToSet(Remaining(L)) = {i \in ToSet(L.active.prompted) \union ToSet(L.active.steered) :
                                     Unread(L, i)}
         /\ ToSet(All(L)) = ToSet(L.active.prompted) \union ToSet(L.active.steered)
         /\ ToSet(All(L)) \subseteq Inputs
         /\ /\ Distinct(L.active.prompted) /\ Distinct(L.active.steered)
            /\ ToSet(L.active.prompted) \intersect ToSet(L.active.steered) = {}
            => Distinct(Remaining(L))
<1> DEFINE p == L.active.prompted
           s == L.active.steered
           a == All(L)
           U == {i \in Inputs : Unread(L, i)}
<1>1. p \in Seq(Inputs) /\ s \in Seq(Inputs)
  BY LaneIs
<1>2. a = p \o s /\ Remaining(L) = Only(a, U)
  BY DEF All, Remaining
<1> HIDE DEF p, s, a, U
<1>3. /\ a \in Seq(Inputs) /\ ToSet(a) = ToSet(p) \union ToSet(s)
      /\ Distinct(p) /\ Distinct(s) /\ ToSet(p) \intersect ToSet(s) = {} => Distinct(a)
  BY <1>1, <1>2, JoinIs
<1>4. /\ Only(a, U) \in Seq(Inputs) /\ ToSet(Only(a, U)) = ToSet(a) \intersect U
      /\ Distinct(a) => Distinct(Only(a, U))
  BY <1>3, OnlyIs
<1>5. ToSet(a) \subseteq Inputs
  BY <1>3, InSet
<1> QED BY <1>2, <1>3, <1>4, <1>5 DEF p, s, a, U

\* finish() up to startNext(): the turn is gone, its inputs handed on or settled.
Ended(L) ==
  LET dropped == {i \in ToSet(All(L)) : L.active.stopped /\ Unread(L, i)}
      ended == [L EXCEPT !.active = NoTurn, !.stopped = @ \union dropped]
  IN IF HandsOn(L) THEN [ended EXCEPT !.carried = Remaining(L)]
     ELSE Update(Update(ended, Unsure(L), "unknown"), Unsent(L), "failed")

EndedAs(L, E) ==
  /\ E \in Lane /\ ~HasTurn(E)
  /\ E.queued = L.queued /\ E.closed = L.closed /\ E.turns = L.turns
  /\ E.priority = L.priority /\ E.dispatch = L.dispatch /\ E.owner = L.owner
  /\ E.broken = L.broken /\ E.answered = L.answered /\ E.provider = L.provider
  /\ E.durable = L.durable
  /\ E.stopped = L.stopped \union {i \in ToSet(All(L)) : L.active.stopped /\ Unread(L, i)}
  /\ L.active.superseded =>
       /\ E.carried = Remaining(L) /\ E.doubtful = L.doubtful
       /\ \A i \in Inputs : E.state[i] = L.state[i]
  /\ ~L.active.superseded =>
       /\ E.carried = L.carried /\ E.doubtful = L.doubtful \union Unsure(L)
       /\ \A i \in Inputs : E.state[i] = IF i \in Unsent(L) THEN "failed"
                                         ELSE IF i \in Unsure(L) THEN "unknown"
                                         ELSE L.state[i]

\* finish() is that and startNext().
LEMMA EndedIs ==
  ASSUME NEW L \in Lane, HasTurn(L)
  PROVE  EndedAs(L, Ended(L)) /\ Finish(L) = StartNext(Ended(L))
<1> DEFINE dropped == {i \in ToSet(All(L)) : L.active.stopped /\ Unread(L, i)}
           ended == [L EXCEPT !.active = NoTurn, !.stopped = @ \union dropped]
<1>1. Finish(L) = StartNext(Ended(L))
  BY DEF Finish, Ended
<1>2. /\ dropped \subseteq Inputs /\ Unsure(L) \subseteq Inputs /\ Unsent(L) \subseteq Inputs
  <2>1. ToSet(L.active.prompted) \subseteq Inputs /\ L.active.pending \in Inputs \union {NoInput}
    BY LaneIs, InSet
  <2> QED BY <2>1, RemainingIs DEF Unsure, Unsent
<1>3. Ended(L) = IF L.active.superseded THEN [ended EXCEPT !.carried = Remaining(L)]
                 ELSE Update(Update(ended, Unsure(L), "unknown"), Unsent(L), "failed")
  BY DEF Ended, HandsOn
<1>4. /\ ended \in Lane /\ ended.active = NoTurn /\ ended.queued = L.queued
      /\ ended.closed = L.closed /\ ended.turns = L.turns /\ ended.priority = L.priority
      /\ ended.dispatch = L.dispatch /\ ended.owner = L.owner /\ ended.broken = L.broken
      /\ ended.answered = L.answered /\ ended.provider = L.provider
      /\ ended.durable = L.durable /\ ended.doubtful = L.doubtful
      /\ ended.stopped = L.stopped \union dropped /\ ended.carried = L.carried
      /\ ended.state = L.state
  <2> HIDE DEF dropped
  <2> QED BY <1>2 DEF Lane
<1> HIDE DEF ended
<1>5. CASE L.active.superseded
  <2> DEFINE r == Remaining(L)
             E == [ended EXCEPT !.carried = r]
  <2>1. r \in Seq(Inputs)
    BY RemainingIs
  <2> HIDE DEF r, dropped
  <2>2. /\ E \in Lane /\ E.active = NoTurn /\ E.queued = L.queued
        /\ E.closed = L.closed /\ E.turns = L.turns /\ E.priority = L.priority
        /\ E.dispatch = L.dispatch /\ E.owner = L.owner /\ E.broken = L.broken
        /\ E.answered = L.answered /\ E.provider = L.provider
        /\ E.durable = L.durable /\ E.doubtful = L.doubtful
        /\ E.stopped = L.stopped \union dropped /\ E.carried = r
        /\ E.state = L.state
    BY <1>4, <2>1 DEF Lane
  <2>3. Ended(L) = E
    BY <1>3, <1>5 DEF r
  <2> HIDE DEF E
  <2> QED BY <1>1, <1>5, <2>2, <2>3 DEF EndedAs, HasTurn, r, dropped
<1>6. CASE ~L.active.superseded
  <2> DEFINE U == Update(ended, Unsure(L), "unknown")
             E == Update(U, Unsent(L), "failed")
  <2>1. Ended(L) = E
    BY <1>3, <1>6
  <2>2. Updated(ended, Unsure(L), "unknown", U)
    <3>1. "unknown" \in States
      BY DEF States, Settled
    <3> QED BY <1>2, <1>4, <3>1, UpdateIs
  <2> HIDE DEF U
  <2>3. Updated(U, Unsent(L), "failed", E)
    <3>1. "failed" \in States
      BY DEF States, Settled
    <3>2. U \in Lane
      BY <2>2 DEF Updated
    <3> QED BY <1>2, <3>1, <3>2, UpdateIs
  <2> HIDE DEF E, dropped
  <2> QED BY <1>1, <1>4, <1>6, <2>1, <2>2, <2>3 DEF Updated, EndedAs, HasTurn, dropped
<1> QED BY <1>5, <1>6

\* startNext() with no turn: start the head of the queue, or of the carried inputs.
LEMMA StartNextIs ==
  ASSUME NEW L \in Lane
  PROVE  /\ HasTurn(L) \/ L.closed \/ (L.queued = <<>> /\ L.carried = <<>>) => StartNext(L) = L
         /\ ~HasTurn(L) /\ ~L.closed /\ L.queued # <<>> =>
              \E M \in Lane :
                 /\ Started(M, Head(L.queued), StartNext(L))
                 /\ M.queued = Tail(L.queued) /\ M.carried = L.carried
                 /\ M.closed = L.closed /\ M.turns = L.turns /\ M.priority = L.priority
                 /\ M.dispatch = L.dispatch /\ M.owner = L.owner /\ M.broken = L.broken
                 /\ M.answered = L.answered /\ M.stopped = L.stopped
                 /\ M.provider = L.provider /\ M.durable = L.durable
                 /\ M.doubtful = L.doubtful /\ M.state = L.state
<1>1. HasTurn(L) \/ L.closed \/ (L.queued = <<>> /\ L.carried = <<>>) => StartNext(L) = L
  BY DEF StartNext
<1>2. ASSUME ~HasTurn(L), ~L.closed, L.queued # <<>>
      PROVE  LET M == [L EXCEPT !.queued = Tail(@)] IN
             /\ StartNext(L) = Start(M, Head(L.queued))
             /\ M \in Lane /\ Head(L.queued) \in Inputs
             /\ M.queued = Tail(L.queued) /\ M.carried = L.carried
             /\ M.closed = L.closed /\ M.turns = L.turns /\ M.priority = L.priority
             /\ M.dispatch = L.dispatch /\ M.owner = L.owner /\ M.broken = L.broken
             /\ M.answered = L.answered /\ M.stopped = L.stopped
             /\ M.provider = L.provider /\ M.durable = L.durable
             /\ M.doubtful = L.doubtful /\ M.state = L.state
  <2> DEFINE q == Tail(L.queued)
  <2>1. q \in Seq(Inputs) /\ Head(L.queued) \in Inputs
    BY <1>2, LaneIs
  <2>2. StartNext(L) = Start([L EXCEPT !.queued = Tail(@)], Head(L.queued))
    BY <1>2 DEF StartNext
  <2> HIDE DEF q
  <2> DEFINE M == [L EXCEPT !.queued = q]
  <2>3. /\ M \in Lane /\ M.queued = q /\ M.carried = L.carried
        /\ M.closed = L.closed /\ M.turns = L.turns /\ M.priority = L.priority
        /\ M.dispatch = L.dispatch /\ M.owner = L.owner /\ M.broken = L.broken
        /\ M.answered = L.answered /\ M.stopped = L.stopped
        /\ M.provider = L.provider /\ M.durable = L.durable
        /\ M.doubtful = L.doubtful /\ M.state = L.state
    BY <2>1 DEF Lane
  <2> QED BY <2>1, <2>2, <2>3 DEF q
<1> QED BY <1>1, <1>2, StartIs
-----------------------------------------------------------------------------
(* What is true of a lane between any two steps *)

\* The inputs of the turn, and all that the lane still holds.
Ridden(L) == IF HasTurn(L) THEN ToSet(L.active.prompted) \union ToSet(L.active.steered) ELSE {}
Live(L) == ToSet(L.queued) \union ToSet(L.carried) \union Ridden(L)

TurnShape(L) ==
  HasTurn(L) =>
    /\ L.active.id = L.turns
    /\ First(L) \in ToSet(L.active.prompted)
    /\ Distinct(L.active.prompted) /\ Distinct(L.active.steered)
    /\ ToSet(L.active.prompted) \intersect ToSet(L.active.steered) = {}
    /\ L.active.ready <=> L.active.stage = "running"
    /\ L.active.steered # <<>> => L.active.stage = "running"
    /\ L.active.last = NoInput <=> L.active.steered = <<>>
    /\ L.active.last # NoInput => L.active.last \in ToSet(L.active.steered)
    /\ L.active.pending # NoInput => L.active.pending = L.active.last
    /\ L.active.superseded => L.active.sealed /\ L.active.interrupted
    /\ L.active.stopped => L.active.interrupted
    /\ L.closed => L.active.sealed

QueueShape(L) ==
  /\ \A i \in Inputs : L.owner[i] <= L.turns
  /\ L.carried # <<>> => L.closed /\ ~HasTurn(L)
  /\ ~HasTurn(L) /\ ~L.closed => L.queued = <<>>
  /\ Distinct(L.queued) /\ Distinct(L.carried)
  /\ ToSet(L.queued) \intersect ToSet(L.carried) = {}
  /\ HasTurn(L) =>
       /\ ToSet(L.queued) \intersect ToSet(L.active.prompted) = {}
       /\ ~L.active.sealed => ToSet(L.queued) \intersect ToSet(L.active.steered) = {}
       /\ L.active.superseded /\ ~L.closed => L.queued # <<>>
  /\ \A i \in Live(L) : L.state[i] # "new"

DispatchShape(L) ==
  \A i \in Inputs :
    /\ L.dispatch[i] # "none" =>
         /\ L.state[i] # "new"
         /\ \/ L.closed
            \/ HasTurn(L) /\ L.owner[i] = L.active.id /\ i = L.active.last
            \/ L.dispatch[i] = "delivered" /\ L.state[i] = "consumed"
    /\ L.dispatch[i] \in {"saving", "steering"} =>
         /\ IF HasTurn(L) THEN L.owner[i] = L.active.id /\ i = L.active.last ELSE L.closed
         /\ IF L.closed THEN L.state[i] = "cancelled"
            ELSE /\ L.active.pending = i /\ i \notin ToSet(L.queued)
                 /\ L.state[i] = "submitted"
    /\ L.dispatch[i] \in {"requeued", "deferred"} =>
         L.closed \/ (L.active.sealed /\ i \in ToSet(L.queued))
    /\ L.dispatch[i] = "delivered" /\ ~L.closed =>
         /\ L.state[i] # "unknown"
         /\ \/ L.state[i] = "consumed" \/ ~HasTurn(L)
            \/ L.active.sealed \/ L.active.pending = i

StatusShape(L) ==
  ~L.closed =>
    /\ \A i \in ToSet(L.queued) : L.state[i] \in {"queued", "unknown"}
    /\ HasTurn(L) =>
         /\ L.active.stage \in {"waiting", "current"} =>
              \A i \in ToSet(L.active.prompted) : L.state[i] = "queued"
         /\ L.active.stage \in {"binding", "sending"} =>
              \A i \in ToSet(L.active.prompted) : L.state[i] = "submitted"
         /\ L.active.stage = "answering" => \A i \in Bound(L) : L.state[i] = "queued"

Shape(L) == L \in Lane /\ TurnShape(L) /\ QueueShape(L) /\ DispatchShape(L) /\ StatusShape(L)

\* Starting a turn from a queue and carried inputs that are in order.
LEMMA StartShape ==
  ASSUME NEW L \in Lane, NEW e \in Inputs, NEW F, Started(L, e, F), ~L.closed,
         Distinct(L.queued), Distinct(L.carried),
         ToSet(L.queued) \intersect ToSet(L.carried) = {},
         e \notin ToSet(L.queued) \union ToSet(L.carried),
         \A i \in ToSet(L.queued) : L.state[i] \in {"queued", "unknown"},
         \A i \in ToSet(L.carried) \union {e} : L.state[i] \notin {"new", "consumed"},
         \A i \in Inputs : L.owner[i] <= L.turns,
         \A i \in Inputs : L.dispatch[i] = "none"
                             \/ (L.dispatch[i] = "delivered" /\ L.state[i] = "consumed")
  PROVE  Shape(F)
<1> DEFINE p == Prompt(L, e)
<1>1. /\ p \in Seq(Inputs) /\ ToSet(p) \subseteq Inputs /\ e \in ToSet(p) /\ Distinct(p)
      /\ ToSet(p) \subseteq ToSet(L.carried) \union {e} \union ToSet(L.queued)
      /\ Distinct(Rest(L, e)) /\ ToSet(Rest(L, e)) \subseteq ToSet(L.queued)
      /\ ToSet(Rest(L, e)) \intersect ToSet(p) = {}
  <2>1. /\ p \in Seq(Inputs) /\ ToSet(p) = ToSet(L.carried) \union {e} \union ToSet(Absorbed(L, e))
        /\ ToSet(Absorbed(L, e)) \subseteq ToSet(L.queued)
        /\ ToSet(Rest(L, e)) = ToSet(L.queued) \ ToSet(Absorbed(L, e))
        /\ Distinct(Rest(L, e)) /\ Distinct(p)
    BY PromptIs
  <2>2. ToSet(p) \subseteq Inputs
    BY <2>1, InSet
  <2> QED BY <2>1, <2>2
<1>2. L.turns \in Nat /\ ToSet(L.queued) \subseteq Inputs /\ L.owner \in [Inputs -> Nat]
  BY LaneIs, InSet
<1> HIDE DEF p
<1>3. TurnShape(F)
  BY <1>1, NoneIs DEF Started, TurnShape, First, p
<1>4. QueueShape(F)
  <2>1. \A i \in Inputs : F.owner[i] <= F.turns
    BY <1>2 DEF Started
  <2>2. \A i \in Live(F) : F.state[i] # "new"
    BY <1>1, <1>2, NoneIs DEF Started, Live, Ridden, p
  <2> QED BY <1>1, <2>1, <2>2, NoneIs DEF Started, QueueShape, p
<1>5. DispatchShape(F)
  BY <1>1 DEF Started, DispatchShape, p
<1>6. StatusShape(F)
  BY <1>1, <1>2 DEF Started, StatusShape, p
<1> QED BY <1>3, <1>4, <1>5, <1>6 DEF Shape, Started

\* Nothing of the lane's dispatches is still to come but the end of calls for
\* inputs that were read meanwhile.
Quiet(L) == \A i \in Inputs : L.dispatch[i] = "none"
                                \/ (L.dispatch[i] = "delivered" /\ L.state[i] = "consumed")

\* finish(): the lane is idle, or its next turn is the head of the queue with
\* what a superseded turn left unread.
Finished(L, F) ==
  /\ F.closed = L.closed /\ F.priority = L.priority /\ F.dispatch = L.dispatch
  /\ F.provider = L.provider /\ F.answered = L.answered /\ F.broken = L.broken
  /\ L.closed => ~HasTurn(F)
  /\ ~L.closed /\ ~HasTurn(F) => L.queued = <<>> /\ F.queued = <<>> /\ F.carried = <<>>
  /\ HasTurn(F) =>
       /\ ~L.closed /\ L.queued # <<>> /\ First(F) = Head(L.queued)
       /\ F.active.stage = "waiting" /\ F.active.interrupted = FALSE
       /\ F.active.steered = <<>>
  /\ Live(F) \subseteq ToSet(L.queued) \union
       {i \in Ridden(L) : (L.active.superseded \/ L.closed) /\ Unread(L, i)}
  /\ \A i \in Inputs : /\ L.state[i] = "consumed" => F.state[i] = "consumed"
                       /\ L.state[i] # "new" => F.state[i] # "new"

\* finish() keeps the shape of a lane whose last dispatch is over.
LEMMA FinishShape ==
  ASSUME NEW L, Shape(L), HasTurn(L), L.closed \/ Quiet(L)
  PROVE  Shape(Finish(L)) /\ Finished(L, Finish(L))
<1> DEFINE E == Ended(L)
           t == L.active
           q == L.queued
<1>1. /\ L \in Lane /\ TurnShape(L) /\ QueueShape(L) /\ DispatchShape(L) /\ StatusShape(L)
  BY DEF Shape
<1>2. EndedAs(L, E) /\ Finish(L) = StartNext(E)
  BY <1>1, EndedIs
<1> HIDE DEF E
<1>3. /\ q \in Seq(Inputs) /\ ToSet(q) \subseteq Inputs /\ L.carried = <<>> /\ Distinct(q)
      /\ ToSet(t.prompted) \subseteq Inputs /\ ToSet(t.steered) \subseteq Inputs
      /\ q = <<>> <=> ToSet(q) = {}
  <2>1. q \in Seq(Inputs) /\ t.prompted \in Seq(Inputs) /\ t.steered \in Seq(Inputs)
    BY <1>1, LaneIs
  <2> QED BY <1>1, <2>1, InSet DEF QueueShape
<1>4. /\ Remaining(L) \in Seq(Inputs) /\ Distinct(Remaining(L))
      /\ ToSet(Remaining(L)) = {i \in ToSet(t.prompted) \union ToSet(t.steered) : Unread(L, i)}
      /\ ToSet(Remaining(L)) \intersect ToSet(q) = {}
  BY <1>1, RemainingIs DEF TurnShape, Unread
<1>5. /\ Unsure(L) \subseteq {i \in Inputs : L.state[i] \in {"accepted", "submitted"}}
      /\ Unsent(L) \subseteq {i \in Inputs : L.state[i] = "queued"}
      /\ Unsure(L) \subseteq ToSet(t.prompted) \union {t.pending}
      /\ Unsent(L) \subseteq ToSet(t.prompted)
  <2>1. t.pending \in Inputs \union {NoInput}
    BY <1>1, LaneIs
  <2> QED BY <1>3, <2>1 DEF Unsure, Unsent
<1>6. /\ E \in Lane /\ ~HasTurn(E) /\ E.queued = q /\ E.closed = L.closed
      /\ E.carried = IF t.superseded THEN Remaining(L) ELSE <<>>
      /\ E.turns = L.turns /\ E.owner = L.owner /\ E.dispatch = L.dispatch
      /\ E.priority = L.priority /\ E.provider = L.provider
      /\ E.answered = L.answered /\ E.broken = L.broken
      /\ \A i \in Inputs :
           /\ L.state[i] = "consumed" => E.state[i] = "consumed"
           /\ L.state[i] # "new" => E.state[i] # "new"
           /\ L.state[i] = "cancelled" => E.state[i] = "cancelled"
           /\ t.superseded => E.state[i] = L.state[i]
           /\ ~t.superseded /\ i \notin ToSet(t.prompted) /\ i # t.pending =>
                E.state[i] = L.state[i]
  BY <1>2, <1>3, <1>5 DEF EndedAs
<1>7. /\ Distinct(E.carried) /\ ToSet(E.carried) \intersect ToSet(q) = {}
      /\ ToSet(E.carried) \subseteq
           {i \in ToSet(t.prompted) \union ToSet(t.steered) : t.superseded /\ Unread(L, i)}
  BY <1>4, <1>6, NoneIs
<1>8. CASE L.closed
  <2>1. Finish(L) = E
    BY <1>2, <1>6, <1>8, StartNextIs
  <2>2. TurnShape(E) /\ StatusShape(E)
    BY <1>6, <1>8 DEF TurnShape, StatusShape
  <2>3. QueueShape(E)
    <3>1. Live(E) \subseteq Live(L)
      BY <1>6, <1>7 DEF Live, Ridden
    <3>2. Live(E) \subseteq Inputs
      BY <1>3, <1>6, <1>7 DEF Live, Ridden
    <3> QED BY <1>1, <1>3, <1>6, <1>7, <1>8, <3>1, <3>2 DEF QueueShape
  <2>4. DispatchShape(E)
    BY <1>1, <1>6, <1>8 DEF DispatchShape
  <2>5. Finished(L, E)
    BY <1>6, <1>7, <1>8 DEF Finished, Live, Ridden
  <2> QED BY <1>6, <2>1, <2>2, <2>3, <2>4, <2>5 DEF Shape
<1>9. CASE ~L.closed /\ q = <<>>
  <2>1. ~t.superseded
    BY <1>1, <1>9 DEF QueueShape
  <2>2. Finish(L) = E
    BY <1>2, <1>6, <1>9, <2>1, StartNextIs
  <2>3. TurnShape(E) /\ StatusShape(E) /\ DispatchShape(E)
    BY <1>1, <1>6, <1>9, <2>1, NoneIs DEF TurnShape, StatusShape, DispatchShape, Quiet
  <2>4. Live(E) = {}
    BY <1>6, <1>9, <2>1, NoneIs DEF Live, Ridden
  <2>5. QueueShape(E)
    BY <1>1, <1>6, <1>7, <1>9, <2>1, <2>4, NoneIs DEF QueueShape
  <2>6. Finished(L, E)
    BY <1>6, <1>9, <2>1, <2>4 DEF Finished
  <2> QED BY <1>6, <2>2, <2>3, <2>5, <2>6 DEF Shape
<1>10. CASE ~L.closed /\ q # <<>>
  <2> DEFINE e == Head(q)
             F == Finish(L)
  <2>1. PICK M \in Lane :
          /\ Started(M, e, F)
          /\ M.queued = Tail(q) /\ M.carried = E.carried
          /\ M.closed = E.closed /\ M.turns = E.turns /\ M.priority = E.priority
          /\ M.dispatch = E.dispatch /\ M.owner = E.owner /\ M.broken = E.broken
          /\ M.answered = E.answered /\ M.stopped = E.stopped
          /\ M.provider = E.provider /\ M.durable = E.durable
          /\ M.doubtful = E.doubtful /\ M.state = E.state
    BY <1>2, <1>6, <1>10, StartNextIs
  <2> HIDE DEF F
  <2>2. /\ e \in Inputs /\ ToSet(q) = {e} \union ToSet(Tail(q)) /\ e \notin ToSet(Tail(q))
        /\ Distinct(Tail(q)) /\ Tail(q) \in Seq(Inputs)
    BY <1>3, <1>10, TailIs
  <2> HIDE DEF e, q
  <2>3. /\ \A i \in ToSet(q) : E.state[i] \in {"queued", "unknown"}
        /\ \A i \in ToSet(E.carried) : E.state[i] \notin {"new", "consumed"}
    <3>1. ASSUME NEW i \in ToSet(q) PROVE E.state[i] \in {"queued", "unknown"}
      <4>1. L.state[i] \in {"queued", "unknown"} /\ i \in Inputs /\ i \notin ToSet(t.prompted)
        BY <1>1, <1>3, <1>10, <3>1 DEF StatusShape, QueueShape, q
      <4> QED BY <1>2, <1>5, <1>6, <4>1 DEF EndedAs
    <3>2. ASSUME NEW i \in ToSet(E.carried) PROVE E.state[i] \notin {"new", "consumed"}
      <4>1. /\ t.superseded /\ Unread(L, i) /\ i \in Live(L) /\ i \in Inputs
        BY <1>3, <1>7 DEF Live, Ridden
      <4> QED BY <1>1, <1>6, <4>1 DEF QueueShape, Unread
    <3> QED BY <3>1, <3>2
  <2>4. Shape(F)
    <3>1. /\ ~M.closed /\ Distinct(M.queued) /\ Distinct(M.carried)
          /\ ToSet(M.queued) \intersect ToSet(M.carried) = {}
          /\ e \notin ToSet(M.queued) \union ToSet(M.carried)
      BY <1>6, <1>7, <1>10, <2>1, <2>2
    <3>2. /\ \A i \in ToSet(M.queued) : M.state[i] \in {"queued", "unknown"}
          /\ \A i \in ToSet(M.carried) \union {e} : M.state[i] \notin {"new", "consumed"}
          /\ \A i \in Inputs : M.owner[i] <= M.turns
      BY <1>1, <1>6, <2>1, <2>2, <2>3 DEF QueueShape
    <3>3. \A i \in Inputs : M.dispatch[i] = "none"
                              \/ (M.dispatch[i] = "delivered" /\ M.state[i] = "consumed")
      BY <1>6, <1>10, <2>1 DEF Quiet
    <3> QED BY <2>1, <2>2, <3>1, <3>2, <3>3, StartShape
  <2>5. /\ ToSet(Prompt(M, e)) \union ToSet(Rest(M, e))
               = ToSet(M.carried) \union {e} \union ToSet(M.queued)
        /\ ToSet(Prompt(M, e)) \subseteq Inputs
    <3>1. ToSet(M.carried) \subseteq Inputs /\ ToSet(M.queued) \subseteq Inputs
      BY LaneIs, InSet
    <3>2. /\ ToSet(Prompt(M, e)) = ToSet(M.carried) \union {e} \union ToSet(Absorbed(M, e))
          /\ ToSet(Absorbed(M, e)) \subseteq ToSet(M.queued)
          /\ ToSet(Rest(M, e)) = ToSet(M.queued) \ ToSet(Absorbed(M, e))
      BY <2>2, PromptIs
    <3> QED BY <2>2, <3>1, <3>2
  <2>6. Live(F) = ToSet(q) \union ToSet(E.carried)
    BY <2>1, <2>2, <2>5, NoneIs DEF Started, Live, Ridden
  <2>7. \A i \in Inputs : /\ L.state[i] = "consumed" => F.state[i] = "consumed"
                          /\ L.state[i] # "new" => F.state[i] # "new"
    <3> SUFFICES ASSUME NEW i \in Inputs
                 PROVE  /\ L.state[i] = "consumed" => F.state[i] = "consumed"
                        /\ L.state[i] # "new" => F.state[i] # "new"
      OBVIOUS
    <3>1. i \in ToSet(Prompt(M, e)) => E.state[i] # "consumed"
      BY <2>1, <2>2, <2>3, <2>5
    <3> QED BY <1>6, <2>1, <3>1 DEF Started
  <2>8. Finished(L, F)
    BY <1>6, <1>7, <1>10, <2>1, <2>6, <2>7 DEF Finished, Started, First, Ridden, e, q
  <2> QED BY <2>4, <2>8 DEF F
<1> QED BY <1>8, <1>9, <1>10

\* flush() keeps the lane in shape; what it dispatches was waiting.
LEMMA FlushShape ==
  ASSUME NEW L, Shape(L)
  PROVE  Shape(Flush(L))
<1>1. /\ L \in Lane /\ TurnShape(L) /\ QueueShape(L) /\ DispatchShape(L) /\ StatusShape(L)
  BY DEF Shape
<1>2. CASE ~MaySteer(L)
  BY <1>2, FlushIs, <1>1 DEF Shape
<1>3. CASE MaySteer(L)
  <2> DEFINE e == Head(L.queued)
             F == Flush(L)
             t == L.active
  <2>1. Flushed(L, F)
    BY <1>1, <1>3, FlushIs
  <2> HIDE DEF F
  <2>2. /\ HasTurn(L) /\ t.ready /\ t.pending = NoInput /\ ~t.sealed /\ L.queued # <<>>
        /\ ~L.closed
    BY <1>1, <1>3 DEF MaySteer, TurnShape
  <2>3. /\ L.queued \in Seq(Inputs) /\ t.steered \in Seq(Inputs) /\ ToSet(t.steered) \subseteq Inputs
        /\ ToSet(L.queued) \subseteq Inputs /\ ToSet(t.prompted) \subseteq Inputs
        /\ t.id \in Nat /\ L.turns \in Nat /\ L.owner \in [Inputs -> Nat]
    <3>1. L.queued \in Seq(Inputs) /\ t.steered \in Seq(Inputs) /\ t.prompted \in Seq(Inputs)
      BY <1>1, <2>2, LaneIs
    <3> QED BY <1>1, <2>2, <3>1, LaneIs, InSet
  <2>4. /\ e \in Inputs /\ ToSet(L.queued) = {e} \union ToSet(Tail(L.queued))
        /\ e \notin ToSet(Tail(L.queued)) /\ Distinct(Tail(L.queued))
        /\ Tail(L.queued) \in Seq(Inputs)
    BY <1>1, <2>2, <2>3, TailIs DEF QueueShape
  <2> HIDE DEF e
  <2>5. /\ F.active.steered = Append(t.steered, e) /\ F.active.steered # <<>>
        /\ ToSet(F.active.steered) = ToSet(t.steered) \union {e}
        /\ Distinct(t.steered) /\ e \notin ToSet(t.steered) => Distinct(F.active.steered)
    <3> DEFINE s == t.steered
    <3>1. F.active.steered = Append(s, e)
      BY <2>1 DEF Flushed, e
    <3>2. s \in Seq(Inputs)
      BY <2>3
    <3> HIDE DEF s
    <3>3. /\ ToSet(Append(s, e)) = ToSet(s) \union {e} /\ Append(s, e) # <<>>
          /\ Distinct(s) /\ e \notin ToSet(s) => Distinct(Append(s, e))
      BY <2>4, <3>2, AppendIs
    <3> QED BY <3>1, <3>3 DEF s
  <2>6. e \notin ToSet(t.steered) /\ e \notin ToSet(t.prompted) /\ e # NoInput
    BY <1>1, <2>2, <2>4, LaneAssumption DEF QueueShape
  <2>7. TurnShape(F)
    BY <1>1, <2>1, <2>2, <2>4, <2>5, <2>6 DEF Flushed, TurnShape, First, e
  <2>8. QueueShape(F)
    <3>1. \A i \in Inputs : F.owner[i] <= F.turns
      BY <1>1, <2>1, <2>2, <2>3 DEF Flushed, QueueShape, TurnShape
    <3>2. Live(F) \subseteq Live(L) /\ Live(L) \subseteq Inputs
      <4>1. ToSet(L.carried) \subseteq Inputs
        <5>1. L.carried \in Seq(Inputs)
          BY <1>1, LaneIs
        <5> QED BY <5>1, InSet
      <4> QED BY <2>1, <2>2, <2>3, <2>4, <2>5, <4>1 DEF Flushed, Live, Ridden
    <3>3. \A i \in Live(F) : F.state[i] # "new"
      BY <1>1, <2>1, <3>2 DEF Flushed, QueueShape
    <3>4. /\ F.carried = L.carried /\ F.queued = Tail(L.queued) /\ HasTurn(F)
          /\ F.active.prompted = t.prompted /\ F.active.superseded = t.superseded
          /\ F.active.sealed = t.sealed /\ ~t.superseded
      BY <1>1, <2>1, <2>2 DEF Flushed, TurnShape
    <3> QED BY <1>1, <2>2, <2>4, <2>5, <3>1, <3>3, <3>4 DEF QueueShape
  <2>9. DispatchShape(F)
    <3> SUFFICES ASSUME NEW i \in Inputs
                 PROVE  DispatchShape(F)!(i)
      BY DEF DispatchShape
    <3>1. CASE i = e
      BY <2>1, <2>2, <2>4, <3>1 DEF Flushed, e
    <3>2. CASE i # e
      <4>1. L.dispatch[i] \in Dispatches
        BY <1>1, LaneIs
      <4>2. L.dispatch[i] = "none" \/ (L.dispatch[i] = "delivered" /\ L.state[i] = "consumed")
        BY <1>1, <2>2, <4>1, LaneAssumption DEF DispatchShape, Dispatches
      <4>3. L.state[i] # "new" \/ L.dispatch[i] = "none"
        BY <1>1 DEF DispatchShape
      <4> QED BY <2>1, <3>2, <4>2, <4>3 DEF Flushed, e
    <3> QED BY <3>1, <3>2
  <2>10. StatusShape(F)
    BY <1>1, <2>1, <2>2, <2>3, <2>4, <2>6 DEF Flushed, StatusShape, TurnShape, Bound, First, e
  <2> QED BY <2>1, <2>7, <2>8, <2>9, <2>10 DEF Shape, F, Flushed
<1> QED BY <1>2, <1>3
=============================================================================
