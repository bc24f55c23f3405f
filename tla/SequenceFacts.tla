---------------------------- MODULE SequenceFacts ----------------------------
(***************************************************************************)
(* What FlattenSeq of the community modules returns: the elements of the   *)
(* sequences it is given, in a sequence that repeats none if they do not.  *)
(* It is a recursive function, so that each fact is one about all natural  *)
(* numbers, which follows from the well-foundedness of <.                  *)
(***************************************************************************)
EXTENDS Naturals, Sequences, SequencesExt, WellFoundedInduction, TLAPS

-----------------------------------------------------------------------------
(* Induction, with a set in the place of a predicate.                       *)

\* A set of natural numbers has a least one.
LEMMA Least ==
  ASSUME NEW T, T \subseteq Nat, T # {}
  PROVE  \E m \in T : \A k \in T : ~(k < m)
<1> DEFINE R == OpToRel(<, Nat)
<1>1. \E m \in T : \A k \in T : <<k, m>> \notin R
  <2>1. IsWellFoundedOn(R, Nat)
    BY NatLessThanWellFounded
  <2> HIDE DEF R
  <2> QED
    BY <2>1, WFMin
<1>2. \A k, m \in Nat : k < m => <<k, m>> \in R
  BY DEF OpToRel
<1> HIDE DEF R
<1> QED
  BY <1>1, <1>2

\* A set that has 0, and with each number the next, has them all.
LEMMA Upwards ==
  ASSUME NEW T, 0 \in T, \A n \in Nat : n \in T => n + 1 \in T
  PROVE  Nat \subseteq T
<1> SUFFICES ASSUME Nat \ T # {} PROVE FALSE
  OBVIOUS
<1>1. PICK m \in Nat \ T : \A k \in Nat \ T : ~(k < m)
  BY Least
<1>2. m # 0 /\ m - 1 \in Nat /\ m - 1 < m
  BY <1>1
<1>3. m - 1 \in T
  BY <1>1, <1>2
<1> QED
  BY <1>1, <1>2, <1>3

-----------------------------------------------------------------------------
(* FlattenSeq.                                                              *)

\* Concatenation, which the proofs of recursion need not look into.
Cat(s, t) == s \o t

\* g is the recursive function of FlattenSeq, up to n.
Fits(g, s, n) == g = [i \in 1 .. n |-> IF i = 1 THEN s[i] ELSE Cat(g[i - 1], s[i])]

LEMMA FitsAt ==
  ASSUME NEW g, NEW s, NEW n, Fits(g, s, n), NEW i \in 1 .. n
  PROVE  g[i] = IF i = 1 THEN s[i] ELSE Cat(g[i - 1], s[i])
<1> DEFINE h(j) == IF j = 1 THEN s[j] ELSE Cat(g[j - 1], s[j])
<1>1. g = [j \in 1 .. n |-> h(j)]
  BY DEF Fits
<1> HIDE DEF h
<1>2. g[i] = h(i)
  BY <1>1
<1> QED
  BY <1>2 DEF h

\* There is such a function.
LEMMA FitsExists ==
  ASSUME NEW s, NEW m \in Nat
  PROVE  \E g : Fits(g, s, m)
<1> DEFINE T == {n \in Nat : \E g : Fits(g, s, n)}
<1>1. 0 \in T
  <2> DEFINE g == [i \in 1 .. 0 |-> s[1]]
  <2>1. Fits(g, s, 0)
    BY DEF Fits
  <2> QED
    BY <2>1
<1>2. ASSUME NEW n \in Nat, n \in T
      PROVE  n + 1 \in T
  <2>1. PICK g : Fits(g, s, n)
    BY <1>2
  <2> DEFINE h == [i \in 1 .. n + 1 |->
                      IF i = 1 THEN s[i] ELSE IF i = n + 1 THEN Cat(g[n], s[i]) ELSE g[i]]
  <2>2. ASSUME NEW i \in 1 .. n + 1
        PROVE  h[i] = IF i = 1 THEN s[i] ELSE Cat(h[i - 1], s[i])
    <3>1. CASE i = 1
      BY <3>1
    <3>2. CASE i # 1
      <4>1. i - 1 \in 1 .. n /\ i - 1 # n + 1
        BY <3>2
      <4>2. h[i - 1] = g[i - 1]
        <5>1. g[1] = s[1]
          BY <2>1, <4>1, FitsAt
        <5> QED
          BY <4>1, <5>1
      <4>3. CASE i = n + 1
        <5>1. h[i] = Cat(g[n], s[i]) /\ i - 1 = n
          BY <3>2, <4>3
        <5> QED
          BY <3>2, <4>2, <5>1
      <4>4. CASE i # n + 1
        <5>1. i \in 1 .. n /\ h[i] = g[i]
          BY <3>2, <4>4
        <5>2. g[i] = Cat(g[i - 1], s[i])
          BY <2>1, <3>2, <5>1, FitsAt
        <5> QED
          BY <3>2, <4>2, <5>1, <5>2
      <4> QED
        BY <4>3, <4>4
    <3> QED
      BY <3>1, <3>2
  <2>3. h = [i \in 1 .. n + 1 |-> h[i]]
    OBVIOUS
  <2> HIDE DEF h
  <2>4. Fits(h, s, n + 1)
    BY <2>2, <2>3 DEF Fits
  <2> QED
    BY <2>4
<1> HIDE DEF T
<1>3. Nat \subseteq T
  BY <1>1, <1>2, Upwards
<1> QED
  BY <1>3 DEF T

LEMMA FlattenFits ==
  ASSUME NEW s, Len(s) \in Nat \ {0}
  PROVE  \E g : Fits(g, s, Len(s)) /\ FlattenSeq(s) = g[Len(s)]
<1> DEFINE g == CHOOSE f : f = [i \in 1 .. Len(s) |-> IF i = 1 THEN s[i] ELSE f[i - 1] \o s[i]]
<1>1. \E f : f = [i \in 1 .. Len(s) |-> IF i = 1 THEN s[i] ELSE f[i - 1] \o s[i]]
  BY FitsExists DEF Fits, Cat
<1>2. FlattenSeq(s) = g[Len(s)]
  BY DEF FlattenSeq
<1>3. g = [i \in 1 .. Len(s) |-> IF i = 1 THEN s[i] ELSE g[i - 1] \o s[i]]
  BY <1>1
<1> HIDE DEF g
<1> QED
  BY <1>2, <1>3 DEF Fits, Cat

\* The sequence t has exactly the elements of the first n sequences of s.
Holds(t, s, n) ==
    /\ \A k \in DOMAIN t : \E i \in 1 .. n : \E j \in DOMAIN s[i] : t[k] = s[i][j]
    /\ \A i \in 1 .. n : \A j \in DOMAIN s[i] : \E k \in DOMAIN t : t[k] = s[i][j]

\* No element is twice in the sequences of s.
NoRepeats(s) ==
    /\ \A i \in DOMAIN s : IsInjective(s[i])
    /\ \A i, h \in DOMAIN s : \A j \in DOMAIN s[i] : \A k \in DOMAIN s[h] :
          s[i][j] = s[h][k] => i = h

LEMMA ConcatElements ==
  ASSUME NEW S, NEW t \in Seq(S), NEW u \in Seq(S)
  PROVE  /\ Cat(t, u) \in Seq(S) /\ Len(t) \in Nat
         /\ \A k \in DOMAIN t : k \in DOMAIN Cat(t, u) /\ Cat(t, u)[k] = t[k]
         /\ \A k \in DOMAIN u : k + Len(t) \in DOMAIN Cat(t, u) /\ Cat(t, u)[k + Len(t)] = u[k]
         /\ \A k \in DOMAIN Cat(t, u) :
               k \in DOMAIN t \/ (k - Len(t) \in DOMAIN u /\ k \notin DOMAIN t
                                  /\ Cat(t, u)[k] = u[k - Len(t)])
<1>1. /\ t \o u \in Seq(S) /\ Len(t \o u) = Len(t) + Len(u) /\ Len(t) \in Nat /\ Len(u) \in Nat
      /\ DOMAIN t = 1 .. Len(t) /\ DOMAIN u = 1 .. Len(u)
      /\ DOMAIN (t \o u) = 1 .. Len(t) + Len(u)
  OBVIOUS
<1>2. \A k \in 1 .. Len(t) + Len(u) :
         (t \o u)[k] = IF k <= Len(t) THEN t[k] ELSE u[k - Len(t)]
  OBVIOUS
<1> QED
  BY <1>1, <1>2 DEF Cat

LEMMA ConcatHolds ==
  ASSUME NEW S, NEW s \in Seq(Seq(S)), NEW n \in Nat, n + 1 \in DOMAIN s,
         NEW t \in Seq(S), Holds(t, s, n)
  PROVE  Holds(Cat(t, s[n + 1]), s, n + 1)
<1> DEFINE u == s[n + 1]
           c == Cat(t, u)
<1>1. u \in Seq(S)
  OBVIOUS
<1> HIDE DEF u
<1>2. c = Cat(t, u)
  OBVIOUS
<1> HIDE DEF c
<1>3. ASSUME NEW k \in DOMAIN c
      PROVE  \E i \in 1 .. n + 1 : \E j \in DOMAIN s[i] : c[k] = s[i][j]
  <2>1. CASE k \in DOMAIN t
    <3>1. PICK i \in 1 .. n : \E j \in DOMAIN s[i] : t[k] = s[i][j]
      BY <2>1 DEF Holds
    <3>2. c[k] = t[k]
      BY <1>1, <1>2, <2>1, ConcatElements
    <3> QED
      BY <3>1, <3>2
  <2>2. CASE k \notin DOMAIN t
    <3>1. k - Len(t) \in DOMAIN u /\ c[k] = u[k - Len(t)]
      BY <1>1, <1>2, <2>2, ConcatElements
    <3>2. k - Len(t) \in DOMAIN s[n + 1] /\ c[k] = s[n + 1][k - Len(t)]
      BY <3>1 DEF u
    <3>3. n + 1 \in 1 .. n + 1
      OBVIOUS
    <3> QED
      BY <3>2, <3>3
  <2> QED
    BY <2>1, <2>2
<1>4. ASSUME NEW i \in 1 .. n + 1, NEW j \in DOMAIN s[i]
      PROVE  \E k \in DOMAIN c : c[k] = s[i][j]
  <2>1. CASE i \in 1 .. n
    <3>1. PICK k \in DOMAIN t : t[k] = s[i][j]
      BY <2>1 DEF Holds
    <3> QED
      BY <1>1, <1>2, <3>1, ConcatElements
  <2>2. CASE i = n + 1
    <3>1. j \in DOMAIN u /\ s[i][j] = u[j]
      BY <2>2 DEF u
    <3> QED
      BY <1>1, <1>2, <3>1, ConcatElements
  <2> QED
    BY <2>1, <2>2
<1>5. Holds(c, s, n + 1)
  BY <1>3, <1>4 DEF Holds
<1> QED
  BY <1>5 DEF c, u

LEMMA ConcatInjective ==
  ASSUME NEW S, NEW t \in Seq(S), NEW u \in Seq(S), IsInjective(t), IsInjective(u),
         \A k \in DOMAIN t : \A j \in DOMAIN u : t[k] # u[j]
  PROVE  IsInjective(Cat(t, u))
<1> DEFINE c == Cat(t, u)
<1>1. \A k \in DOMAIN c :
         \/ k \in DOMAIN t /\ c[k] = t[k]
         \/ k - Len(t) \in DOMAIN u /\ c[k] = u[k - Len(t)]
  BY ConcatElements
<1>2. DOMAIN c \subseteq Int /\ Len(t) \in Int
  BY ConcatElements
<1> HIDE DEF c
<1>3. ASSUME NEW a \in DOMAIN c, NEW b \in DOMAIN c, c[a] = c[b]
      PROVE  a = b
  <2>1. a \in Int /\ b \in Int
    BY <1>2
  <2> QED
    BY <1>1, <1>2, <1>3, <2>1 DEF IsInjective
<1>4. IsInjective(c)
  BY <1>3 DEF IsInjective
<1> QED
  BY <1>4 DEF c

\* FlattenSeq returns a sequence of the elements of the sequences that it gets; it
\* repeats none if they do not.
LEMMA FlattenElements ==
  ASSUME NEW S, NEW s \in Seq(Seq(S))
  PROVE  /\ FlattenSeq(s) \in Seq(S)
         /\ Holds(FlattenSeq(s), s, Len(s))
         /\ NoRepeats(s) => IsInjective(FlattenSeq(s))
<1>0. Len(s) \in Nat /\ DOMAIN s = 1 .. Len(s)
  OBVIOUS
<1>1. CASE Len(s) = 0
  <2>1. FlattenSeq(s) = s
    BY <1>1 DEF FlattenSeq
  <2>2. s = <<>>
    BY <1>1
  <2>3. <<>> \in Seq(S) /\ DOMAIN <<>> = {}
    OBVIOUS
  <2> QED
    BY <1>1, <2>1, <2>2, <2>3 DEF Holds, IsInjective
<1>2. CASE Len(s) # 0
  <2>1. PICK g : Fits(g, s, Len(s)) /\ FlattenSeq(s) = g[Len(s)]
    BY <1>0, <1>2, FlattenFits
  <2> DEFINE Good(n) == g[n] \in Seq(S) /\ Holds(g[n], s, n) /\ (NoRepeats(s) => IsInjective(g[n]))
             T == {n \in Nat : n \in 1 .. Len(s) => Good(n)}
  <2>2. 0 \in T
    OBVIOUS
  <2>3. ASSUME NEW n \in Nat, n \in T
        PROVE  n + 1 \in T
    <3> SUFFICES ASSUME n + 1 \in 1 .. Len(s)
                 PROVE  Good(n + 1)
      OBVIOUS
    <3>1. s[n + 1] \in Seq(S) /\ (NoRepeats(s) => IsInjective(s[n + 1]))
      BY <1>0 DEF NoRepeats
    <3>2. CASE n = 0
      <4>1. g[1] = s[1]
        BY <1>0, <1>2, <2>1, FitsAt
      <4>2. Holds(s[1], s, 1)
        BY DEF Holds
      <4> QED
        BY <3>1, <3>2, <4>1, <4>2
    <3>3. CASE n # 0
      <4>1. n \in 1 .. Len(s) /\ Good(n)
        BY <1>0, <2>3, <3>3
      <4>2. g[n + 1] = Cat(g[n], s[n + 1])
        <5>1. g[n + 1] = IF n + 1 = 1 THEN s[n + 1] ELSE Cat(g[n + 1 - 1], s[n + 1])
          BY <2>1, FitsAt
        <5>2. n + 1 # 1 /\ n + 1 - 1 = n
          BY <3>3
        <5> QED
          BY <5>1, <5>2
      <4>3. g[n + 1] \in Seq(S)
        BY <3>1, <4>1, <4>2, ConcatElements
      <4>4. Holds(g[n + 1], s, n + 1)
        BY <1>0, <4>1, <4>2, ConcatHolds
      <4>5. ASSUME NoRepeats(s)
            PROVE  IsInjective(g[n + 1])
        <5>1. ASSUME NEW k \in DOMAIN g[n], NEW j \in DOMAIN s[n + 1]
              PROVE  g[n][k] # s[n + 1][j]
          <6>1. PICK i \in 1 .. n : \E h \in DOMAIN s[i] : g[n][k] = s[i][h]
            BY <4>1 DEF Holds
          <6>2. PICK h \in DOMAIN s[i] : g[n][k] = s[i][h]
            BY <6>1
          <6>3. i \in DOMAIN s /\ n + 1 \in DOMAIN s /\ i # n + 1
            BY <1>0, <4>1
          <6>4. s[i][h] # s[n + 1][j]
            BY <4>5, <6>3 DEF NoRepeats
          <6> QED
            BY <6>2, <6>4
        <5> QED
          BY <3>1, <4>1, <4>2, <4>5, <5>1, ConcatInjective
      <4> QED
        BY <4>3, <4>4, <4>5
    <3> QED
      BY <3>2, <3>3
  <2> HIDE DEF T
  <2>4. Nat \subseteq T
    BY <2>2, <2>3, Upwards
  <2>5. Good(Len(s))
    BY <1>0, <1>2, <2>4 DEF T
  <2> QED
    BY <2>1, <2>5
<1> QED
  BY <1>0, <1>1, <1>2

\* Nothing is lost.
LEMMA FlattenNonempty ==
  ASSUME NEW S, NEW s \in Seq(Seq(S)), NEW i \in DOMAIN s, s[i] # <<>>
  PROVE  FlattenSeq(s) # <<>>
<1>1. i \in 1 .. Len(s) /\ s[i] \in Seq(S)
  OBVIOUS
<1>2. 1 \in DOMAIN s[i]
  BY <1>1
<1>3. \E k \in DOMAIN FlattenSeq(s) : FlattenSeq(s)[k] = s[i][1]
  BY <1>1, <1>2, FlattenElements DEF Holds
<1> QED
  BY <1>3

\* The elements of all of them.
LEMMA FlattenToSet ==
  ASSUME NEW S, NEW s \in Seq(Seq(S))
  PROVE  ToSet(FlattenSeq(s)) = UNION {ToSet(s[i]) : i \in DOMAIN s}
<1>1. /\ Holds(FlattenSeq(s), s, Len(s)) /\ DOMAIN s = 1 .. Len(s)
      /\ DOMAIN FlattenSeq(s) = 1 .. Len(FlattenSeq(s))
  <2>1. FlattenSeq(s) \in Seq(S) /\ Holds(FlattenSeq(s), s, Len(s))
    BY FlattenElements
  <2> QED
    BY <2>1
<1> DEFINE t == FlattenSeq(s)
<1> HIDE DEF t
<1>2. ASSUME NEW x \in ToSet(t)
      PROVE  \E i \in DOMAIN s : x \in ToSet(s[i])
  <2>1. PICK k \in DOMAIN t : x = t[k]
    BY DEF ToSet
  <2>2. PICK i \in 1 .. Len(s) : \E j \in DOMAIN s[i] : t[k] = s[i][j]
    BY <1>1 DEF Holds, t
  <2> QED
    BY <1>1, <2>1, <2>2 DEF ToSet
<1>3. ASSUME NEW i \in DOMAIN s, NEW x \in ToSet(s[i])
      PROVE  x \in ToSet(t)
  <2>1. PICK j \in DOMAIN s[i] : x = s[i][j]
    BY DEF ToSet
  <2>2. PICK k \in DOMAIN t : t[k] = s[i][j]
    BY <1>1 DEF Holds, t
  <2> QED
    BY <2>1, <2>2 DEF ToSet
<1>4. ToSet(t) = UNION {ToSet(s[i]) : i \in DOMAIN s}
  BY <1>2, <1>3
<1> QED
  BY <1>4 DEF t

\* It begins with the first of them, when these have one element each.
LEMMA FlattenBegins ==
  ASSUME NEW S, NEW s \in Seq(Seq(S)), NEW n \in 1 .. Len(s), \A i \in 1 .. n : Len(s[i]) = 1
  PROVE  /\ n <= Len(FlattenSeq(s))
         /\ \A i \in 1 .. n : FlattenSeq(s)[i] = s[i][1]
<1>0. Len(s) \in Nat \ {0} /\ n \in Nat \ {0} /\ n <= Len(s)
  OBVIOUS
<1>1. PICK g : Fits(g, s, Len(s)) /\ FlattenSeq(s) = g[Len(s)]
  BY <1>0, FlattenFits
<1> DEFINE Good(k) == /\ g[k] \in Seq(S)
                      /\ k < n => Len(g[k]) = k
                      /\ n <= k => n <= Len(g[k])
                      /\ \A i \in 1 .. n : i <= k => g[k][i] = s[i][1]
           T == {k \in Nat : k \in 1 .. Len(s) => Good(k)}
<1>2. 0 \in T
  OBVIOUS
<1>3. ASSUME NEW k \in Nat, k \in T
      PROVE  k + 1 \in T
  <2> SUFFICES ASSUME k + 1 \in 1 .. Len(s)
               PROVE  Good(k + 1)
    OBVIOUS
  <2>1. s[k + 1] \in Seq(S)
    OBVIOUS
  <2>2. CASE k = 0
    <3>1. g[1] = s[1]
      BY <1>0, <1>1, FitsAt
    <3>2. Len(s[1]) = 1
      BY <1>0
    <3> QED
      <4>1. \A i \in 1 .. n : i <= 1 => g[1][i] = s[i][1]
        <5> SUFFICES ASSUME NEW i \in 1 .. n, i <= 1 PROVE g[1][i] = s[i][1]
          OBVIOUS
        <5>1. i = 1
          BY <1>0
        <5> QED
          BY <3>1, <5>1
      <4>2. g[1] \in Seq(S) /\ Len(g[1]) = 1
        BY <2>1, <2>2, <3>1, <3>2
      <4> QED
        BY <1>0, <2>2, <4>1, <4>2
  <2>3. CASE k # 0
    <3>1. k \in 1 .. Len(s) /\ Good(k)
      BY <1>0, <1>3, <2>3
    <3>2. g[k + 1] = Cat(g[k], s[k + 1])
      <4>1. g[k + 1] = IF k + 1 = 1 THEN s[k + 1] ELSE Cat(g[k + 1 - 1], s[k + 1])
        BY <1>1, FitsAt
      <4>2. k + 1 # 1 /\ k + 1 - 1 = k
        BY <2>3
      <4> QED
        BY <4>1, <4>2
    <3> DEFINE t == g[k]
               u == s[k + 1]
    <3>3. t \in Seq(S) /\ u \in Seq(S) /\ g[k + 1] = t \o u
      BY <2>1, <3>1, <3>2 DEF Cat
    <3>4. /\ k < n => Len(t) = k /\ Len(u) = 1
          /\ n <= k => n <= Len(t)
          /\ \A i \in 1 .. n : i <= k => t[i] = s[i][1]
      <4>1. k < n => Len(u) = 1
        <5>1. k < n => k + 1 \in 1 .. n
          BY <1>0
        <5> QED
          BY <5>1
      <4> QED
        BY <3>1, <4>1
    <3>5. k < n => u[1] = s[k + 1][1]
      OBVIOUS
    <3> HIDE DEF t, u
    <3>6. /\ t \o u \in Seq(S) /\ Len(t \o u) = Len(t) + Len(u) /\ Len(t) \in Nat /\ Len(u) \in Nat
          /\ \A i \in 1 .. Len(t) : (t \o u)[i] = t[i]
          /\ \A i \in 1 .. Len(u) : (t \o u)[Len(t) + i] = u[i]
      BY <3>3
    <3>7. ASSUME NEW i \in 1 .. n, i <= k + 1
          PROVE  (t \o u)[i] = s[i][1]
      <4>1. CASE i <= k
        <5>1. i \in 1 .. Len(t)
          BY <3>4, <3>6, <4>1
        <5> QED
          BY <3>4, <3>6, <4>1, <5>1
      <4>2. CASE i = k + 1
        <5>1. k < n /\ 1 \in 1 .. Len(u) /\ Len(t) + 1 = i
          BY <1>0, <3>4, <3>6, <4>2
        <5> QED
          BY <3>5, <3>6, <4>2, <5>1
      <4> QED
        <5>1. i \in Nat
          BY <1>0
        <5>2. i <= k \/ i = k + 1
          BY <3>7, <5>1
        <5> QED
          BY <4>1, <4>2, <5>2
    <3>8. /\ k + 1 < n => Len(t \o u) = k + 1
          /\ n <= k + 1 => n <= Len(t \o u)
      BY <3>4, <3>6
    <3> QED
      BY <3>3, <3>6, <3>7, <3>8
  <2> QED
    BY <2>2, <2>3
<1> HIDE DEF T
<1>4. Nat \subseteq T
  BY <1>2, <1>3, Upwards
<1>5. Good(Len(s))
  BY <1>0, <1>4 DEF T
<1> QED
  BY <1>0, <1>1, <1>5

-----------------------------------------------------------------------------
(* Loops: a recursive function of the number of turns.  R is one turn.      *)

\* g has n turns in T.
Loops(g, T, n, first, R) ==
    g \in [0 .. n -> T] /\ g[0] = first /\ \A i \in 1 .. n : g[i] = R[<<g[i - 1], i>>]

LEMMA LoopExists ==
  ASSUME NEW T, NEW n \in Nat, NEW first \in T, NEW R \in [T \X (1 .. n) -> T]
  PROVE  \E g : Loops(g, T, n, first, R)
<1> DEFINE Turns(m) == \E g \in [0 .. m -> T] :
                          g[0] = first /\ \A i \in 1 .. m : g[i] = R[<<g[i - 1], i>>]
           M == {m \in Nat : m <= n => Turns(m)}
<1>1. 0 \in M
  <2> DEFINE g == [i \in 0 .. 0 |-> first]
  <2>1. g \in [0 .. 0 -> T] /\ g[0] = first
    OBVIOUS
  <2> HIDE DEF g
  <2>2. Turns(0)
    BY <2>1
  <2> QED
    BY <2>2
<1>2. ASSUME NEW m \in Nat, m \in M
      PROVE  m + 1 \in M
  <2> SUFFICES ASSUME m + 1 <= n PROVE Turns(m + 1)
    OBVIOUS
  <2>1. PICK g \in [0 .. m -> T] : g[0] = first /\ \A i \in 1 .. m : g[i] = R[<<g[i - 1], i>>]
    BY <1>2
  <2> DEFINE x == R[<<g[m], m + 1>>]
             h == [i \in 0 .. m + 1 |-> IF i = m + 1 THEN x ELSE g[i]]
  <2>2. x \in T
    <3>1. g[m] \in T /\ m + 1 \in 1 .. n
      OBVIOUS
    <3> QED
      BY <3>1
  <2>3. h \in [0 .. m + 1 -> T] /\ h[0] = first /\ h[m + 1] = x /\ \A i \in 0 .. m : h[i] = g[i]
    BY <2>1, <2>2
  <2> HIDE DEF h
  <2>4. ASSUME NEW i \in 1 .. m + 1
        PROVE  h[i] = R[<<h[i - 1], i>>]
    <3>1. CASE i = m + 1
      <4>1. h[i - 1] = g[m]
        BY <2>3, <3>1
      <4> QED
        BY <2>3, <3>1, <4>1
    <3>2. CASE i # m + 1
      <4>1. i \in 1 .. m /\ i - 1 \in 0 .. m
        BY <3>2
      <4>2. h[i] = g[i] /\ h[i - 1] = g[i - 1] /\ g[i] = R[<<g[i - 1], i>>]
        BY <2>1, <2>3, <4>1
      <4> QED
        BY <4>2
    <3> QED
      BY <3>1, <3>2
  <2> QED
    BY <2>3, <2>4
<1> HIDE DEF M
<1>3. Nat \subseteq M
  BY <1>1, <1>2, Upwards
<1> QED
  BY <1>3 DEF M, Loops

\* What holds before the first turn and is kept by every turn holds after the last.
LEMMA LoopStays ==
  ASSUME NEW T, NEW n \in Nat, NEW g, g[0] \in T,
         \A i \in 1 .. n : g[i - 1] \in T => g[i] \in T
  PROVE  \A i \in 0 .. n : g[i] \in T
<1> DEFINE M == {m \in Nat : m <= n => g[m] \in T}
<1>1. 0 \in M
  OBVIOUS
<1>2. ASSUME NEW m \in Nat, m \in M
      PROVE  m + 1 \in M
  <2> SUFFICES ASSUME m + 1 <= n PROVE g[m + 1] \in T
    OBVIOUS
  <2>1. m + 1 \in 1 .. n /\ m + 1 - 1 = m /\ g[m] \in T
    BY <1>2
  <2> QED
    BY <2>1
<1> HIDE DEF M
<1>3. Nat \subseteq M
  BY <1>1, <1>2, Upwards
<1> QED
  BY <1>3 DEF M

-----------------------------------------------------------------------------
(* Sequences that list what a set labels, once each and in any order.       *)

\* The elements of t are the values in V of those of b.
Labels(b, t, V) == Len(t) = Len(b) /\ DOMAIN t = DOMAIN b /\ \A k \in DOMAIN t : t[k] = V[b[k]]

LEMMA ConcatLabels ==
  ASSUME NEW X, NEW Y, NEW V, NEW t \in Seq(X), NEW u \in Seq(X), NEW b \in Seq(Y), NEW c \in Seq(Y),
         Labels(b, t, V), Labels(c, u, V)
  PROVE  Labels(Cat(b, c), Cat(t, u), V)
<1>1. /\ Len(t) = Len(b) /\ Len(u) = Len(c) /\ Len(t) \in Nat /\ Len(u) \in Nat
      /\ DOMAIN t = 1 .. Len(t) /\ DOMAIN u = 1 .. Len(u)
  BY DEF Labels
<1>2. /\ Len(t \o u) = Len(t) + Len(u) /\ DOMAIN (t \o u) = 1 .. Len(t) + Len(u)
      /\ Len(b \o c) = Len(t) + Len(u) /\ DOMAIN (b \o c) = 1 .. Len(t) + Len(u)
  BY <1>1
<1>4. /\ \A k \in 1 .. Len(t) + Len(u) : (t \o u)[k] = IF k <= Len(t) THEN t[k] ELSE u[k - Len(t)]
      /\ \A k \in 1 .. Len(t) + Len(u) : (b \o c)[k] = IF k <= Len(t) THEN b[k] ELSE c[k - Len(t)]
  <2>1. \A k \in 1 .. Len(t) + Len(u) : (t \o u)[k] = IF k <= Len(t) THEN t[k] ELSE u[k - Len(t)]
    OBVIOUS
  <2>2. \A k \in 1 .. Len(b) + Len(c) : (b \o c)[k] = IF k <= Len(b) THEN b[k] ELSE c[k - Len(b)]
    OBVIOUS
  <2> QED
    BY <1>1, <2>1, <2>2
<1>3. ASSUME NEW k \in 1 .. Len(t) + Len(u)
      PROVE  (t \o u)[k] = V[(b \o c)[k]]
  <2>1. CASE k <= Len(t)
    <3>1. (t \o u)[k] = t[k] /\ (b \o c)[k] = b[k] /\ k \in DOMAIN t
      BY <1>1, <1>4, <2>1
    <3> QED
      BY <3>1 DEF Labels
  <2>2. CASE ~(k <= Len(t))
    <3>1. /\ (t \o u)[k] = u[k - Len(t)] /\ (b \o c)[k] = c[k - Len(t)]
          /\ k - Len(t) \in DOMAIN u
      BY <1>1, <1>4, <2>2
    <3> QED
      BY <3>1 DEF Labels
  <2> QED
    BY <2>1, <2>2
<1> QED
  BY <1>2, <1>3 DEF Labels, Cat

\* FlattenSeq does the same to labels as to what they stand for.
LEMMA FlattenLabels ==
  ASSUME NEW X, NEW Y, NEW V, NEW s \in Seq(Seq(X)), NEW b \in Seq(Seq(Y)), Len(b) = Len(s),
         \A i \in DOMAIN s : Labels(b[i], s[i], V)
  PROVE  Labels(FlattenSeq(b), FlattenSeq(s), V)
<1>0. Len(s) \in Nat /\ DOMAIN s = 1 .. Len(s) /\ DOMAIN b = 1 .. Len(s)
  OBVIOUS
<1>1. CASE Len(s) = 0
  <2>1. FlattenSeq(s) = s /\ FlattenSeq(b) = b
    BY <1>1 DEF FlattenSeq
  <2>2. DOMAIN s = {} /\ DOMAIN b = {}
    BY <1>0, <1>1
  <2> QED
    BY <2>1, <2>2 DEF Labels
<1>2. CASE Len(s) # 0
  <2>1. PICK g : Fits(g, s, Len(s)) /\ FlattenSeq(s) = g[Len(s)]
    BY <1>0, <1>2, FlattenFits
  <2>2. PICK h : Fits(h, b, Len(s)) /\ FlattenSeq(b) = h[Len(s)]
    BY <1>0, <1>2, FlattenFits
  <2> DEFINE Good(n) == g[n] \in Seq(X) /\ h[n] \in Seq(Y) /\ Labels(h[n], g[n], V)
             T == {n \in Nat : n \in 1 .. Len(s) => Good(n)}
  <2>3. 0 \in T
    OBVIOUS
  <2>4. ASSUME NEW n \in Nat, n \in T
        PROVE  n + 1 \in T
    <3> SUFFICES ASSUME n + 1 \in 1 .. Len(s)
                 PROVE  Good(n + 1)
      OBVIOUS
    <3>1. s[n + 1] \in Seq(X) /\ b[n + 1] \in Seq(Y) /\ Labels(b[n + 1], s[n + 1], V)
      <4>1. n + 1 \in DOMAIN s /\ n + 1 \in DOMAIN b
        BY <1>0
      <4>2. s[n + 1] \in Seq(X) /\ b[n + 1] \in Seq(Y)
        BY <4>1
      <4> QED
        BY <4>1, <4>2
    <3>2. CASE n = 0
      <4>1. g[1] = s[1] /\ h[1] = b[1]
        BY <1>0, <1>2, <2>1, <2>2, FitsAt
      <4> QED
        BY <3>1, <3>2, <4>1
    <3>3. CASE n # 0
      <4>1. n \in 1 .. Len(s) /\ Good(n)
        BY <1>0, <2>4, <3>3
      <4>2. g[n + 1] = Cat(g[n], s[n + 1]) /\ h[n + 1] = Cat(h[n], b[n + 1])
        <5>1. /\ g[n + 1] = IF n + 1 = 1 THEN s[n + 1] ELSE Cat(g[n + 1 - 1], s[n + 1])
              /\ h[n + 1] = IF n + 1 = 1 THEN b[n + 1] ELSE Cat(h[n + 1 - 1], b[n + 1])
          BY <2>1, <2>2, FitsAt
        <5>2. n + 1 # 1 /\ n + 1 - 1 = n
          BY <3>3
        <5> QED
          BY <5>1, <5>2
      <4>3. Labels(h[n + 1], g[n + 1], V)
        BY <3>1, <4>1, <4>2, ConcatLabels
      <4> QED
        BY <3>1, <4>1, <4>2, <4>3, ConcatElements
    <3> QED
      BY <3>2, <3>3
  <2> HIDE DEF T
  <2>5. Nat \subseteq T
    BY <2>3, <2>4, Upwards
  <2>6. Good(Len(s))
    BY <1>0, <1>2, <2>5 DEF T
  <2> QED
    BY <2>1, <2>2, <2>6
<1> QED
  BY <1>1, <1>2

\* q has V[x] for each x of S once, in some order.
ListsAll(q, S, V) == \E b \in Seq(S) : IsInjective(b) /\ ToSet(b) = S /\ Labels(b, q, V)

LEMMA ListsNothing ==
  ASSUME NEW V
  PROVE  ListsAll(<<>>, {}, V)
<1>1. <<>> \in Seq({}) /\ DOMAIN <<>> = {} /\ Len(<<>>) = 0
  OBVIOUS
<1>2. IsInjective(<<>>) /\ ToSet(<<>>) = {}
  BY <1>1 DEF IsInjective, ToSet
<1> QED
  BY <1>1, <1>2 DEF ListsAll, Labels

LEMMA ListsOne ==
  ASSUME NEW V, NEW x
  PROVE  ListsAll(<<V[x]>>, {x}, V)
<1> DEFINE b == <<x>>
<1>1. b \in Seq({x}) /\ DOMAIN b = {1} /\ Len(b) = 1 /\ b[1] = x
  OBVIOUS
<1>2. Len(<<V[x]>>) = 1 /\ DOMAIN <<V[x]>> = {1} /\ <<V[x]>>[1] = V[x]
  OBVIOUS
<1> HIDE DEF b
<1>3. IsInjective(b) /\ ToSet(b) = {x}
  BY <1>1 DEF IsInjective, ToSet
<1> QED
  BY <1>1, <1>2, <1>3 DEF ListsAll, Labels

\* One after the other.
LEMMA FlattenLists ==
  ASSUME NEW X, NEW s \in Seq(Seq(X)), NEW V, NEW S,
         \A i \in DOMAIN s : ListsAll(s[i], S[i], V),
         \A i, j \in DOMAIN s : i # j => S[i] \cap S[j] = {}
  PROVE  ListsAll(FlattenSeq(s), UNION {S[i] : i \in DOMAIN s}, V)
<1> DEFINE Y == UNION {S[i] : i \in DOMAIN s}
           Is(i, c) == c \in Seq(S[i]) /\ IsInjective(c) /\ ToSet(c) = S[i] /\ Labels(c, s[i], V)
           b == [i \in DOMAIN s |-> CHOOSE c : Is(i, c)]
<1>1. DOMAIN s = 1 .. Len(s) /\ Len(s) \in Nat
  OBVIOUS
<1>2. ASSUME NEW i \in DOMAIN s
      PROVE  Is(i, b[i]) /\ b[i] \in Seq(Y)
  <2>1. \E c : Is(i, c)
    BY DEF ListsAll
  <2> HIDE DEF Is
  <2>2. Is(i, b[i])
    BY <2>1
  <2>3. S[i] \subseteq Y
    OBVIOUS
  <2> HIDE DEF Y, b
  <2>4. b[i] \in Seq(S[i])
    BY <2>2 DEF Is
  <2>5. b[i] \in Seq(Y)
    BY <2>3, <2>4
  <2> QED
    BY <2>2, <2>5
<1>3. DOMAIN b = DOMAIN s /\ b = [i \in 1 .. Len(s) |-> b[i]]
  BY <1>1
<1> HIDE DEF b
<1>4. b \in Seq(Seq(Y)) /\ Len(b) = Len(s)
  <2> HIDE DEF Y
  <2>1. b \in [1 .. Len(s) -> Seq(Y)]
    BY <1>1, <1>2, <1>3
  <2>2. b \in Seq(Seq(Y))
    <3> DEFINE Z == Seq(Y)
               n == Len(s)
    <3>1. b \in [1 .. n -> Z] /\ n \in Nat
      BY <1>1, <2>1
    <3> HIDE DEF Z, n
    <3>2. b \in Seq(Z)
      BY <3>1
    <3> QED
      BY <3>2 DEF Z
  <2>3. DOMAIN b = 1 .. Len(b) /\ Len(b) \in Nat
    BY <2>2
  <2> QED
    BY <1>1, <1>3, <2>2, <2>3
<1>5. NoRepeats(b)
  <2>1. \A i \in DOMAIN b : IsInjective(b[i]) /\ \A j \in DOMAIN b[i] : b[i][j] \in S[i]
    <3> SUFFICES ASSUME NEW i \in DOMAIN b
                 PROVE  IsInjective(b[i]) /\ \A j \in DOMAIN b[i] : b[i][j] \in S[i]
      OBVIOUS
    <3>1. IsInjective(b[i]) /\ ToSet(b[i]) = S[i]
      BY <1>2, <1>3
    <3>2. \A j \in DOMAIN b[i] : b[i][j] \in ToSet(b[i])
      BY DEF ToSet
    <3> QED
      BY <3>1, <3>2
  <2>2. \A i, h \in DOMAIN b : i # h => S[i] \cap S[h] = {}
    BY <1>3
  <2> QED
    BY <2>1, <2>2 DEF NoRepeats
<1>6. ToSet(FlattenSeq(b)) = Y
  <2>1. ToSet(FlattenSeq(b)) = UNION {ToSet(b[i]) : i \in DOMAIN b}
    BY <1>4, FlattenToSet
  <2>2. UNION {ToSet(b[i]) : i \in DOMAIN b} = UNION {S[i] : i \in DOMAIN s}
    BY <1>2, <1>3
  <2> QED
    BY <2>1, <2>2
<1>7. Labels(FlattenSeq(b), FlattenSeq(s), V)
  <2> HIDE DEF Y
  <2>1. \A i \in DOMAIN s : Labels(b[i], s[i], V)
    BY <1>2
  <2> QED
    BY <1>4, <2>1, FlattenLabels
<1> HIDE DEF Y
<1>8. FlattenSeq(b) \in Seq(Y) /\ IsInjective(FlattenSeq(b))
  BY <1>4, <1>5, FlattenElements
<1> QED
  BY <1>6, <1>7, <1>8 DEF ListsAll, Y

\* With one more.
LEMMA AppendLists ==
  ASSUME NEW X, NEW q \in Seq(X), NEW S, NEW V, ListsAll(q, S, V), NEW x, x \notin S
  PROVE  ListsAll(Append(q, V[x]), S \cup {x}, V)
<1>1. PICK b \in Seq(S) : IsInjective(b) /\ ToSet(b) = S /\ Labels(b, q, V)
  BY DEF ListsAll
<1> DEFINE c == Append(b, x)
           n == Len(b)
<1>2. /\ n \in Nat /\ DOMAIN b = 1 .. n /\ DOMAIN q = 1 .. n /\ Len(q) = n
      /\ c \in Seq(S \cup {x}) /\ Len(c) = n + 1 /\ DOMAIN c = 1 .. n + 1
      /\ c[n + 1] = x /\ \A k \in 1 .. n : c[k] = b[k] /\ c[k] \in S
  BY <1>1 DEF Labels
<1>3. /\ Len(Append(q, V[x])) = n + 1 /\ DOMAIN Append(q, V[x]) = 1 .. n + 1
      /\ Append(q, V[x])[n + 1] = V[x] /\ \A k \in 1 .. n : Append(q, V[x])[k] = q[k]
  BY <1>2
<1> HIDE DEF c, n
<1>4. \A k \in 1 .. n + 1 : k \in 1 .. n \/ k = n + 1
  BY <1>2
<1>5. IsInjective(c)
  <2>1. \A i, j \in 1 .. n : c[i] = c[j] => i = j
    BY <1>1, <1>2 DEF IsInjective
  <2>2. \A i \in 1 .. n : c[i] # c[n + 1]
    BY <1>2
  <2> QED
    BY <1>2, <1>4, <2>1, <2>2 DEF IsInjective
<1>6. ToSet(c) = S \cup {x}
  <2>1. \A y \in S : \E k \in 1 .. n : y = c[k]
    BY <1>1, <1>2 DEF ToSet
  <2>2. 1 .. n \subseteq 1 .. n + 1 /\ n + 1 \in 1 .. n + 1
    BY <1>2
  <2>3. \A y \in S \cup {x} : \E k \in DOMAIN c : y = c[k]
    BY <1>2, <2>1, <2>2
  <2>4. \A k \in DOMAIN c : c[k] \in S \cup {x}
    BY <1>2, <1>4
  <2> QED
    BY <2>3, <2>4 DEF ToSet
<1>7. Labels(c, Append(q, V[x]), V)
  <2>1. \A k \in 1 .. n : q[k] = V[b[k]]
    BY <1>1, <1>2 DEF Labels
  <2> QED
    BY <1>2, <1>3, <1>4, <2>1 DEF Labels
<1> QED
  BY <1>2, <1>5, <1>6, <1>7 DEF ListsAll

\* What is made of each element, by W of the labels that M gives those of V.
LEMMA MapLists ==
  ASSUME NEW q, NEW S, NEW V, ListsAll(q, S, V), NEW p, Len(p) = Len(q), DOMAIN p = DOMAIN q,
         NEW R, NEW W, NEW M \in [S -> R],
         \A x, y \in S : M[x] = M[y] => x = y, \A z \in R : \E x \in S : M[x] = z,
         \A k \in DOMAIN q : \A x \in S : q[k] = V[x] => p[k] = W[M[x]]
  PROVE  ListsAll(p, R, W)
<1>1. PICK b \in Seq(S) : IsInjective(b) /\ ToSet(b) = S /\ Labels(b, q, V)
  BY DEF ListsAll
<1> DEFINE c == [k \in 1 .. Len(b) |-> M[b[k]]]
<1>2. Len(b) \in Nat /\ DOMAIN b = 1 .. Len(b) /\ \A k \in DOMAIN b : b[k] \in S
  BY <1>1
<1>3. c \in Seq(R) /\ Len(c) = Len(b) /\ DOMAIN c = DOMAIN b /\ \A k \in DOMAIN b : c[k] = M[b[k]]
  BY <1>2
<1> HIDE DEF c
<1>4. IsInjective(c)
  BY <1>1, <1>2, <1>3 DEF IsInjective
<1>5. ToSet(c) = R
  <2>1. ASSUME NEW z \in R
        PROVE  \E k \in DOMAIN c : z = c[k]
    <3>1. PICK x \in S : M[x] = z
      OBVIOUS
    <3>2. PICK k \in DOMAIN b : x = b[k]
      BY <1>1 DEF ToSet
    <3> QED
      BY <1>3, <3>1, <3>2
  <2>2. \A k \in DOMAIN c : c[k] \in R
    BY <1>2, <1>3
  <2> QED
    BY <2>1, <2>2 DEF ToSet
<1>6. Labels(c, p, W)
  <2>1. Len(q) = Len(b) /\ DOMAIN q = DOMAIN b /\ \A k \in DOMAIN q : q[k] = V[b[k]]
    BY <1>1 DEF Labels
  <2> QED
    BY <1>2, <1>3, <2>1 DEF Labels
<1> QED
  BY <1>3, <1>4, <1>5, <1>6 DEF ListsAll

LEMMA FlattenNothing == FlattenSeq(<<>>) = <<>>
<1>1. Len(<<>>) = 0
  OBVIOUS
<1> QED
  BY <1>1 DEF FlattenSeq

LEMMA ListsElements ==
  ASSUME NEW q, NEW S, NEW V, ListsAll(q, S, V)
  PROVE  /\ \A k \in DOMAIN q : \E x \in S : q[k] = V[x]
         /\ \A x \in S : \E k \in DOMAIN q : q[k] = V[x]
         /\ q = <<>> \/ S # {}
<1>1. PICK b \in Seq(S) : IsInjective(b) /\ ToSet(b) = S /\ Labels(b, q, V)
  BY DEF ListsAll
<1>2. \A k \in DOMAIN b : b[k] \in S
  BY <1>1 DEF ToSet
<1>3. \A x \in S : \E k \in DOMAIN b : x = b[k]
  BY <1>1 DEF ToSet
<1> QED
  BY <1>1, <1>2, <1>3 DEF Labels

\* What is listed without repetition.
LEMMA ListsInjective ==
  ASSUME NEW q, NEW S, NEW V, ListsAll(q, S, V), \A x, y \in S : V[x] = V[y] => x = y
  PROVE  \A i, j \in DOMAIN q : q[i] = q[j] => i = j
<1>1. PICK b \in Seq(S) : IsInjective(b) /\ ToSet(b) = S /\ Labels(b, q, V)
  BY DEF ListsAll
<1>2. DOMAIN q = DOMAIN b /\ \A k \in DOMAIN q : q[k] = V[b[k]] /\ b[k] \in S
  BY <1>1 DEF Labels
<1> QED
  BY <1>1, <1>2 DEF IsInjective

\* A sequence lists its positions.
LEMMA ListsItself ==
  ASSUME NEW X, NEW s \in Seq(X)
  PROVE  ListsAll(s, DOMAIN s, s)
<1> DEFINE b == [k \in 1 .. Len(s) |-> k]
<1>1. Len(s) \in Nat /\ DOMAIN s = 1 .. Len(s)
  OBVIOUS
<1>2. b \in Seq(DOMAIN s) /\ Len(b) = Len(s) /\ DOMAIN b = DOMAIN s /\ \A k \in DOMAIN s : b[k] = k
  BY <1>1
<1> HIDE DEF b
<1>3. IsInjective(b) /\ ToSet(b) = DOMAIN s
  BY <1>2 DEF IsInjective, ToSet
<1> QED
  BY <1>2, <1>3 DEF ListsAll, Labels
=============================================================================
