------------------------- MODULE ModuleExpansionProofs -------------------------
(***************************************************************************)
(* What holds of the expansion of modules for every set of module files.   *)
(***************************************************************************)
EXTENDS ModuleExpansion, SequenceFacts, SequenceTheorems, FiniteSetTheorems

-----------------------------------------------------------------------------
(* Sequences and sets.                                                      *)

LEMMA ElementsAre ==
  ASSUME NEW S, NEW s \in Seq(S)
  PROVE  \A i \in DOMAIN s : s[i] \in S
OBVIOUS

\* Those returns the elements of a sequence that are in a set.
LEMMA ThoseElements ==
  ASSUME NEW S, NEW s \in Seq(S), NEW T
  PROVE  /\ Those(s, T) \in Seq(S)
         /\ ToSet(Those(s, T)) = ToSet(s) \cap T
<1> DEFINE q == [i \in DOMAIN s |-> IF s[i] \in T THEN <<s[i]>> ELSE <<>>]
<1>1. q \in Seq(Seq(S)) /\ DOMAIN q = DOMAIN s
  <2>1. \A i \in DOMAIN s : s[i] \in S /\ <<s[i]>> \in Seq(S) /\ <<>> \in Seq(S)
    OBVIOUS
  <2>2. DOMAIN s = 1 .. Len(s) /\ Len(s) \in Nat
    OBVIOUS
  <2> QED
    BY <2>1, <2>2
<1>2. Those(s, T) = FlattenSeq(q)
  BY DEF Those
<1>3. \A i \in DOMAIN s : ToSet(q[i]) = {s[i]} \cap T
  BY DEF ToSet
<1> HIDE DEF q
<1>4. Those(s, T) \in Seq(S)
  BY <1>1, <1>2, FlattenElements
<1>5. ToSet(Those(s, T)) = UNION {ToSet(q[i]) : i \in DOMAIN q}
  BY <1>1, <1>2, FlattenToSet
<1>6. UNION {ToSet(q[i]) : i \in DOMAIN q} = UNION {{s[i]} \cap T : i \in DOMAIN s}
  BY <1>1, <1>3
<1>7. UNION {{s[i]} \cap T : i \in DOMAIN s} = ToSet(s) \cap T
  BY DEF ToSet
<1> QED
  BY <1>4, <1>5, <1>6, <1>7

\* It begins with the elements that s begins with, as long as these are in the set.
LEMMA ThoseBegins ==
  ASSUME NEW S, NEW s \in Seq(S), NEW T, NEW n \in 1 .. Len(s), \A i \in 1 .. n : s[i] \in T
  PROVE  /\ n <= Len(Those(s, T))
         /\ \A i \in 1 .. n : Those(s, T)[i] = s[i]
<1> DEFINE q == [i \in DOMAIN s |-> IF s[i] \in T THEN <<s[i]>> ELSE <<>>]
<1>1. q \in Seq(Seq(S)) /\ Len(q) = Len(s)
  <2>1. \A i \in DOMAIN s : s[i] \in S /\ <<s[i]>> \in Seq(S) /\ <<>> \in Seq(S)
    OBVIOUS
  <2>2. DOMAIN s = 1 .. Len(s) /\ Len(s) \in Nat
    OBVIOUS
  <2> QED
    BY <2>1, <2>2
<1>2. Those(s, T) = FlattenSeq(q)
  BY DEF Those
<1>3. \A i \in 1 .. n : Len(q[i]) = 1 /\ q[i][1] = s[i]
  OBVIOUS
<1> HIDE DEF q
<1> QED
  BY <1>1, <1>2, <1>3, FlattenBegins

\* SetToSeq lists the elements of a finite set.
LEMMA Listed ==
  ASSUME NEW S, IsFiniteSet(S)
  PROVE  /\ SetToSeq(S) \in Seq(S)
         /\ Len(SetToSeq(S)) = Cardinality(S)
<1>1. Cardinality(S) \in Nat /\ \E f \in Bijection(1 .. Cardinality(S), S) : TRUE
  <2>1. PICK n \in Nat : ExistsBijection(1 .. n, S)
    BY FS_NatBijection
  <2>2. Cardinality(S) = n
    BY <2>1, FS_CountingElements
  <2> QED
    BY <2>1, <2>2 DEF ExistsBijection
<1>2. PICK f \in Bijection(1 .. Cardinality(S), S) : TRUE
  BY <1>1
<1>3. f \in [1 .. Cardinality(S) -> S] /\ IsInjective(f)
  BY <1>2 DEF Bijection, Injection, IsInjective
<1>4. SetToSeq(S) \in [1 .. Cardinality(S) -> S]
  BY <1>3 DEF SetToSeq
<1> QED
  BY <1>1, <1>4

\* SetToSeq lists each element of a finite set, and each of them once.
LEMMA ListedOnce ==
  ASSUME NEW S, IsFiniteSet(S)
  PROVE  /\ SetToSeq(S) \in Seq(S) /\ DOMAIN SetToSeq(S) = 1 .. Len(SetToSeq(S))
         /\ \A i, j \in DOMAIN SetToSeq(S) : SetToSeq(S)[i] = SetToSeq(S)[j] => i = j
         /\ \A x \in S : \E i \in DOMAIN SetToSeq(S) : SetToSeq(S)[i] = x
<1> DEFINE n == Cardinality(S)
           q == SetToSeq(S)
<1>1. n \in Nat /\ \E f \in [1 .. n -> S] : IsInjective(f)
  <2>1. n \in Nat /\ ExistsBijection(1 .. n, S)
    BY FS_CardinalityType
  <2> QED
    BY <2>1 DEF ExistsBijection, Bijection, Injection, IsInjective
<1>2. q \in [1 .. n -> S] /\ IsInjective(q)
  BY <1>1 DEF SetToSeq
<1>3. Cardinality(1 .. n) = n
  BY <1>1, FS_Interval
<1>0. n = Cardinality(S)
  OBVIOUS
<1> HIDE DEF n, q
<1>4. q \in Injection(1 .. n, S)
  BY <1>2 DEF Injection, IsInjective
<1>5. q \in Surjection(1 .. n, S)
  BY <1>0, <1>3, <1>4, FS_Injection
<1>6. q \in Seq(S)
  BY <1>1, <1>2
<1>7. DOMAIN q = 1 .. n /\ DOMAIN q = 1 .. Len(q)
  BY <1>2, <1>6
<1>8. \A x \in S : \E i \in DOMAIN q : q[i] = x
  BY <1>5, <1>7 DEF Surjection
<1>9. \A i, j \in DOMAIN q : q[i] = q[j] => i = j
  BY <1>2 DEF IsInjective
<1> QED
  BY <1>6, <1>7, <1>8, <1>9 DEF q

\* A union of finitely many finite sets.
LEMMA FiniteUnion ==
  ASSUME NEW S, IsFiniteSet(S), NEW F, \A x \in S : IsFiniteSet(F[x])
  PROVE  IsFiniteSet(UNION {F[x] : x \in S})
<1> DEFINE T == {F[x] : x \in S}
           f == [x \in S |-> F[x]]
<1>1. f \in Surjection(S, T)
  BY DEF Surjection
<1>2. \A X \in T : IsFiniteSet(X)
  OBVIOUS
<1> HIDE DEF T, f
<1>3. IsFiniteSet(T)
  BY <1>1, FS_Surjection
<1>4. IsFiniteSet(UNION T)
  BY <1>2, <1>3, FS_UNION
<1> QED
  BY <1>4 DEF T

\* A set of at most one element has no two.
LEMMA AtMostOne ==
  ASSUME NEW S, IsFiniteSet(S), Cardinality(S) <= 1
  PROVE  \A x, y \in S : x = y
<1> SUFFICES ASSUME NEW x \in S, NEW y \in S PROVE x = y
  OBVIOUS
<1>1. Cardinality(S) \in Nat /\ Cardinality({x}) = 1
  BY FS_CardinalityType, FS_Singleton
<1>2. {x} \in SUBSET S /\ Cardinality({x}) <= Cardinality(S)
  BY FS_Subset
<1>3. {x} = S
  BY <1>1, <1>2, FS_Subset
<1> QED
  BY <1>3

\* A list of the values of the members of S has as many positions with a
\* property of the value as S has members with it.
LEMMA ListsCount ==
  ASSUME NEW q, NEW S, NEW V, ListsAll(q, S, V), NEW K \in SUBSET DOMAIN q, NEW C \in SUBSET S,
         \A k \in DOMAIN q : \A x \in S : q[k] = V[x] => (k \in K <=> x \in C)
  PROVE  Cardinality(K) = Cardinality(C)
<1>1. PICK b \in Seq(S) : IsInjective(b) /\ ToSet(b) = S /\ Labels(b, q, V)
  BY DEF ListsAll
<1>2. DOMAIN q = DOMAIN b /\ DOMAIN b = 1 .. Len(b) /\ Len(b) \in Nat /\ \A k \in DOMAIN q : q[k] = V[b[k]]
  BY <1>1 DEF Labels
<1> DEFINE f == [k \in K |-> b[k]]
<1>3. /\ \A k \in DOMAIN b : b[k] \in S
      /\ \A x \in S : \E k \in DOMAIN b : x = b[k]
      /\ \A j, k \in DOMAIN b : b[j] = b[k] => j = k
  BY <1>1 DEF ToSet, IsInjective
<1>4. f \in [K -> C]
  BY <1>2, <1>3
<1>5. \A j, k \in K : f[j] = f[k] => j = k
  BY <1>2, <1>3
<1>6. \A x \in C : \E k \in K : f[k] = x
  BY <1>2, <1>3
<1>7. IsFiniteSet(K)
  <2>1. IsFiniteSet(1 .. Len(b)) /\ K \subseteq 1 .. Len(b)
    BY <1>2, FS_Interval
  <2> QED
    BY <2>1, FS_Subset
<1> HIDE DEF f
<1>8. f \in Bijection(K, C)
  BY <1>4, <1>5, <1>6 DEF Bijection, Injection, Surjection, IsInjective
<1>9. Cardinality(C) = Cardinality(K)
  BY <1>7, <1>8, FS_Bijection DEF ExistsBijection
<1> QED
  BY <1>9

\* Those keeps what lists the elements that are in the set.
LEMMA ThoseLists ==
  ASSUME NEW X, NEW s \in Seq(X), NEW S, NEW V, ListsAll(s, S, V), NEW T
  PROVE  ListsAll(Those(s, T), {x \in S : V[x] \in T}, V)
<1>1. PICK b \in Seq(S) : IsInjective(b) /\ ToSet(b) = S /\ Labels(b, s, V)
  BY DEF ListsAll
<1> DEFINE q == [i \in DOMAIN s |-> IF s[i] \in T THEN <<s[i]>> ELSE <<>>]
           C == [i \in DOMAIN s |-> IF s[i] \in T THEN {b[i]} ELSE {}]
<1>2. /\ DOMAIN b = DOMAIN s /\ \A i \in DOMAIN s : b[i] \in S /\ s[i] = V[b[i]]
      /\ \A i, j \in DOMAIN s : b[i] = b[j] => i = j
      /\ \A x \in S : \E i \in DOMAIN s : x = b[i]
  BY <1>1 DEF Labels, IsInjective, ToSet
<1>3. q \in Seq(Seq(X)) /\ DOMAIN q = DOMAIN s
  <2>1. \A i \in DOMAIN s : s[i] \in X /\ <<s[i]>> \in Seq(X) /\ <<>> \in Seq(X)
    OBVIOUS
  <2>2. DOMAIN s = 1 .. Len(s) /\ Len(s) \in Nat
    OBVIOUS
  <2> QED
    BY <2>1, <2>2
<1>4. ASSUME NEW i \in DOMAIN s
      PROVE  ListsAll(q[i], C[i], V)
  <2>1. CASE s[i] \in T
    <3>1. q[i] = <<V[b[i]]>> /\ C[i] = {b[i]}
      BY <1>2, <2>1
    <3> QED
      BY <3>1, ListsOne
  <2>2. CASE s[i] \notin T
    BY <2>2, ListsNothing
  <2> QED
    BY <2>1, <2>2
<1>5. \A i, j \in DOMAIN s : i # j => C[i] \cap C[j] = {}
  BY <1>2
<1>6. UNION {C[i] : i \in DOMAIN s} = {x \in S : V[x] \in T}
  <2>1. ASSUME NEW x \in S, V[x] \in T
        PROVE  \E i \in DOMAIN s : x \in C[i]
    BY <1>2, <2>1
  <2>2. ASSUME NEW i \in DOMAIN s, NEW x \in C[i]
        PROVE  x \in S /\ V[x] \in T
    BY <1>2, <2>2
  <2> HIDE DEF C
  <2> QED
    BY <2>1, <2>2
<1>7. Those(s, T) = FlattenSeq(q)
  BY DEF Those
<1> HIDE DEF q, C
<1>8. ListsAll(FlattenSeq(q), UNION {C[i] : i \in DOMAIN q}, V)
  BY <1>3, <1>4, <1>5, FlattenLists
<1> QED
  BY <1>3, <1>6, <1>7, <1>8

-----------------------------------------------------------------------------
(* Paths.                                                                   *)

LEMMA BeginsOne ==
  ASSUME NEW p \in Paths, NEW x \in Words
  PROVE  Begins(p, <<x>>) <=> Len(p) >= 1 /\ p[1] = x
<1>1. p \in Seq(Words) /\ Len(<<x>>) = 1 /\ Len(p) \in Nat
  BY DEF Paths
<1>2. CASE Len(p) >= 1
  <2>1. Len(SubSeq(p, 1, 1)) = 1 /\ SubSeq(p, 1, 1)[1] = p[1] /\ SubSeq(p, 1, 1) \in Seq(Words)
    BY <1>1, <1>2
  <2>2. SubSeq(p, 1, 1) = <<x>> <=> p[1] = x
    <3> DEFINE q == SubSeq(p, 1, 1)
    <3>1. q \in Seq(Words) /\ Len(q) = 1 /\ q[1] = p[1]
      BY <2>1
    <3> HIDE DEF q
    <3>2. q = <<q[1]>>
      BY <3>1
    <3>3. q = <<x>> <=> q[1] = x
      BY <3>2
    <3> QED
      BY <3>1, <3>3 DEF q
  <2> QED
    BY <1>1, <1>2, <2>2 DEF Begins
<1>3. CASE ~(Len(p) >= 1)
  BY <1>1, <1>3 DEF Begins
<1> QED
  BY <1>2, <1>3

LEMMA RootNames ==
  /\ WS \in Paths /\ WS = <<"ws">> /\ HOME \in Paths /\ HOME = <<"home">>
  /\ {"ws", "home", ".", "url", "selefra", "app"} \subseteq Words
<1>1. {"ws", "home", ".", "url", "selefra", "app"} \subseteq Words
  BY DEF Words
<1>2. <<"ws">> \in Seq(Words) /\ <<"home">> \in Seq(Words)
  BY <1>1
<1> QED
  BY <1>1, <1>2 DEF WS, HOME, Paths

\* A joined path is a path, and begins with the directory that it is joined to.
LEMMA Joined ==
  ASSUME NEW d \in Paths, NEW p \in Paths
  PROVE  /\ Join(d, p) \in Paths
         /\ \A n \in 1 .. Len(d) : (\A i \in 1 .. n : d[i] # ".") =>
               /\ n <= Len(Join(d, p))
               /\ \A i \in 1 .. n : Join(d, p)[i] = d[i]
<1> DEFINE s == d \o p
           T == ToSet(s) \ {"."}
<1>1. /\ s \in Seq(Words) /\ Len(d) \in Nat /\ Len(s) >= Len(d) /\ Len(s) \in Nat
      /\ DOMAIN s = 1 .. Len(s) /\ \A i \in 1 .. Len(d) : s[i] = d[i]
  BY DEF Paths
<1> HIDE DEF s
<1>2. Join(d, p) = Those(s, T)
  BY DEF Join, s
<1>3. ASSUME NEW n \in 1 .. Len(d), \A i \in 1 .. n : d[i] # "."
      PROVE  n <= Len(Join(d, p)) /\ \A i \in 1 .. n : Join(d, p)[i] = d[i]
  <2>1. n \in 1 .. Len(s) /\ \A i \in 1 .. n : i \in 1 .. Len(d) /\ i \in DOMAIN s
    BY <1>1
  <2>2. \A i \in 1 .. n : s[i] = d[i] /\ s[i] \in T
    BY <1>1, <1>3, <2>1 DEF ToSet
  <2> HIDE DEF T
  <2> QED
    BY <1>1, <1>2, <2>1, <2>2, ThoseBegins
<1> HIDE DEF T
<1>4. Join(d, p) \in Paths
  BY <1>1, <1>2, ThoseElements DEF Paths
<1> QED
  BY <1>3, <1>4

LEMMA PathParts ==
  ASSUME NEW p \in Paths
  PROVE  /\ Rest(p, 1) \in Paths /\ Rest(p, 2) \in Paths
         /\ InHome(p) \in Paths
         /\ p # <<>> => Dir(p) \in Paths
         /\ \A x \in Words : HOME \o <<x>> \in Paths
<1>1. p \in Seq(Words) /\ Len(p) \in Nat
  BY DEF Paths
<1>2. SubSeq(p, 2, Len(p)) \in Seq(Words) /\ SubSeq(p, 3, Len(p)) \in Seq(Words)
  BY <1>1
<1>3. Rest(p, 1) \in Paths /\ Rest(p, 2) \in Paths
  BY <1>2 DEF Rest, Paths
<1>4. InHome(p) \in Paths
  <2>1. HOME \o Rest(p, 1) \in Paths /\ HOME \o Rest(p, 2) \in Paths
    BY <1>3, RootNames DEF Paths
  <2> QED
    BY <2>1 DEF InHome
<1>5. p # <<>> => Dir(p) \in Paths
  BY <1>1 DEF Dir, Front, Paths
<1>6. \A x \in Words : HOME \o <<x>> \in Paths
  BY RootNames DEF Paths
<1> QED
  BY <1>3, <1>4, <1>5, <1>6

\* A rule is read from a path that begins with the workspace or is absolute.
LEMMA ReadPaths ==
  ASSUME NEW u \in Paths
  PROVE  ReadAs(u) \in Paths /\ ~IsDotted(ReadAs(u))
<1>1. CASE IsAbs(u) \/ IsURL(u)
  <2>1. ReadAs(u) = u
    BY <1>1 DEF ReadAs
  <2>2. Len(u) >= 1 /\ u[1] \in {"ws", "home", "url"}
    BY <1>1, BeginsOne, RootNames DEF IsAbs, IsURL
  <2>3. ~IsDotted(u)
    BY <2>2, BeginsOne, RootNames DEF IsDotted
  <2> QED
    BY <2>1, <2>3
<1>2. CASE ~(IsAbs(u) \/ IsURL(u))
  <2>1. ReadAs(u) = Join(WS, u)
    BY <1>2 DEF ReadAs
  <2>2. 1 \in 1 .. Len(WS) /\ WS[1] = "ws" /\ \A i \in 1 .. 1 : WS[i] # "."
    BY RootNames
  <2>3. Join(WS, u) \in Paths /\ Len(Join(WS, u)) >= 1 /\ Join(WS, u)[1] = "ws"
    BY <2>2, Joined, RootNames
  <2>4. ~IsDotted(Join(WS, u))
    BY <2>3, BeginsOne, RootNames DEF IsDotted
  <2> QED
    BY <2>1, <2>3, <2>4
<1> QED
  BY <1>1, <1>2

-----------------------------------------------------------------------------
(* The files.                                                               *)

\* The uses of the modules of a list.
UsesOf(list) == UNION {ToSet(list[i].uses) : i \in DOMAIN list}

LEMMA FileFacts ==
  ASSUME files \in Contents
  PROVE  /\ IsFiniteSet(DOMAIN files) /\ DOMAIN files \subseteq Paths \ {<<>>}
         /\ \A f \in DOMAIN files : files[f] \in Seq([name : STRING, uses : Seq(Paths)])
BY ModAssumption

LEMMA DiskFacts ==
  ASSUME files \in Contents, NEW s
  PROVE  IsFiniteSet(OnDisk(s)) /\ OnDisk(s) \subseteq Paths \ {<<>>}
<1>1. IsFiniteSet(DOMAIN files \cup RuleFiles)
  BY FileFacts, ModAssumption, FS_Union
<1>2. DOMAIN files \cup RuleFiles \subseteq Paths \ {<<>>}
  BY FileFacts, ModAssumption
<1>3. OnDisk(s) \subseteq DOMAIN files \cup RuleFiles
  BY DEF OnDisk
<1> QED
  BY <1>1, <1>2, <1>3, FS_Subset

\* The uses of a list of modules, one after the other.
LEMMA UsesListed ==
  ASSUME NEW M, NEW list \in Seq(M), \A m \in M : m.uses \in Seq(Paths)
  PROVE  /\ FlattenSeq([i \in DOMAIN list |-> list[i].uses]) \in Seq(Paths)
         /\ ToSet(FlattenSeq([i \in DOMAIN list |-> list[i].uses])) = UsesOf(list)
<1> DEFINE q == [i \in DOMAIN list |-> list[i].uses]
<1>1. q \in Seq(Seq(Paths)) /\ DOMAIN q = DOMAIN list
  <2>1. DOMAIN list = 1 .. Len(list) /\ Len(list) \in Nat
    OBVIOUS
  <2> QED
    BY <2>1
<1>2. \A i \in DOMAIN list : q[i] = list[i].uses
  OBVIOUS
<1> HIDE DEF q
<1>3. UNION {ToSet(q[i]) : i \in DOMAIN q} = UNION {ToSet(list[i].uses) : i \in DOMAIN list}
  BY <1>1, <1>2
<1>4. FlattenSeq(q) \in Seq(Paths) /\ ToSet(FlattenSeq(q)) = UNION {ToSet(q[i]) : i \in DOMAIN q}
  BY <1>1, FlattenElements, FlattenToSet
<1>5. FlattenSeq(q) \in Seq(Paths) /\ ToSet(FlattenSeq(q)) = UsesOf(list)
  BY <1>3, <1>4 DEF UsesOf
<1> QED
  BY <1>5 DEF q

LEMMA FileUses ==
  ASSUME files \in Contents, NEW f \in DOMAIN files
  PROVE  Uses(f) \in Seq(Paths) /\ ToSet(Uses(f)) = UsesOf(files[f])
<1>1. files[f] \in Seq([name : STRING, uses : Seq(Paths)])
  BY FileFacts
<1>2. \A m \in [name : STRING, uses : Seq(Paths)] : m.uses \in Seq(Paths)
  OBVIOUS
<1> QED
  BY <1>1, <1>2, UsesListed DEF Uses

-----------------------------------------------------------------------------
(* The types, of the state and of what it holds.                            *)

\* A module and a listed module, with uses from U.
ModuleOf(U) == [name : Seq(STRING), uses : Seq(U), value : Paths, children : Seq(known)]
FlatOf(U)   == [name : Seq(STRING), uses : Seq(U)]

Module == ModuleOf(Paths)
Frame  == [at : Paths, ws : Paths, left : Seq(Paths)]
Turns  == [at : known, left : Seq(known)]
Flat   == FlatOf(Paths)

FileInv ==
    /\ files \in Contents
    /\ known \subseteq DOMAIN files /\ todo \subseteq known /\ used \subseteq known
    /\ base \in known \cup {<<>>}
    /\ mods \in [known -> Seq(Module)]
    /\ mpc = "discover" => mods = [f \in known |-> <<>>]

ListInv ==
    /\ stack \in Seq(Frame)
    /\ walk \in Seq(Turns) /\ cycle \in Seq(known)
    /\ loaded \in Seq(Flat)
    /\ \A r \in ToSet(rules) : ~IsDotted(r.path)

PlaceInv ==
    /\ mpc \in Reads \cup {"loaded", "overflow", "refused", "ended", "panicked"}
    /\ mpc \notin {"discover", "overflow"} => stack = <<>>
    /\ mpc \in {"discover", "deep", "uses", "load", "loaded"} => walk = <<>>

PkgInv == pkgs \in [latest : Versions \cup {None}, recorded : Shelf, installed : Shelf, readable : BOOLEAN]

TypeInv == FileInv /\ ListInv /\ PlaceInv /\ PkgInv

LEMMA CallType ==
  ASSUME files \in Contents, NEW at \in Paths, NEW ws \in Paths, NEW s
  PROVE  Call(at, ws, OnDisk(s)) \in Frame
<1> DEFINE D == {f \in OnDisk(s) : Dir(f) = at}
<1>1. SetToSeq(D) \in Seq(Paths)
  <2>1. D \subseteq OnDisk(s)
    OBVIOUS
  <2>2. IsFiniteSet(D) /\ D \subseteq Paths
    BY <2>1, DiskFacts, FS_Subset
  <2> HIDE DEF D
  <2>3. SetToSeq(D) \in Seq(D)
    BY <2>2, Listed
  <2> QED
    BY <2>2, <2>3
<1> HIDE DEF D
<1>2. at \in DOMAIN files => Uses(at) \in Seq(Paths)
  BY FileUses
<1>3. Call(at, ws, OnDisk(s)) = [at |-> at, ws |-> ws, left |-> IF at \in DOMAIN files THEN Uses(at) ELSE SetToSeq(D)]
  BY DEF Call, D
<1> QED
  BY <1>1, <1>2, <1>3 DEF Frame

LEMMA SkippedFrames ==
  ASSUME stack \in Seq(Frame), stack # <<>>, Top.left # <<>>
  PROVE  /\ Skipped \in Seq(Frame) /\ Len(Skipped) = Len(stack)
         /\ \A i \in DOMAIN stack : Skipped[i].at = stack[i].at /\ Skipped[i].ws = stack[i].ws
<1> DEFINE n == Len(stack)
           x == [stack[n] EXCEPT !.left = Tail(@)]
<1>1. n \in DOMAIN stack /\ n \in Nat /\ stack[n] \in Frame /\ Top = stack[n]
  BY DEF Top, Last
<1>2. Tail(stack[n].left) \in Seq(Paths)
  BY <1>1 DEF Frame
<1>3. x \in Frame /\ x.at = stack[n].at /\ x.ws = stack[n].ws
  BY <1>1, <1>2 DEF Frame
<1>4. Skipped = [stack EXCEPT ![n] = x]
  BY DEF Skipped
<1> HIDE DEF x
<1> QED
  BY <1>1, <1>3, <1>4

\* A call that is made is a call, and what it discovers is a module file.
LEMMA EnterTypes ==
  ASSUME TypeInv, Pending, NEW at \in Paths, NEW ws \in Paths, NEW s, Enter(at, ws, OnDisk(s))
  PROVE  /\ stack' \in Seq(Frame)
         /\ known \subseteq known' /\ known' \subseteq DOMAIN files
         /\ mods' = [f \in known' |-> <<>>]
         /\ mpc' \in {"discover", "overflow"}
<1>1. /\ files \in Contents /\ known \subseteq DOMAIN files /\ mpc = "discover"
      /\ mods = [f \in known |-> <<>>] /\ stack \in Seq(Frame) /\ stack # <<>> /\ Top.left # <<>>
  BY DEF TypeInv, FileInv, ListInv, Pending
<1>2. CASE \E i \in DOMAIN stack : stack[i].at = at
  <2>1. mpc' = "overflow" /\ stack' = stack /\ mods' = mods
    BY <1>2 DEF Enter
  <2> QED
    BY <1>1, <2>1 DEF known
<1>3. CASE ~\E i \in DOMAIN stack : stack[i].at = at
  <2> DEFINE more == {at} \cap OnDisk(s) \cap DOMAIN files
  <2>1. /\ stack' \in {Append(Skipped, Call(at, ws, OnDisk(s))), Skipped}
        /\ mods' = [f \in known \cup more |-> <<>>]
        /\ mpc' = mpc
    BY <1>3 DEF Enter
  <2>2. Skipped \in Seq(Frame)
    BY <1>1, SkippedFrames
  <2>3. Append(Skipped, Call(at, ws, OnDisk(s))) \in Seq(Frame)
    BY <1>1, <2>2, CallType
  <2>4. known' = known \cup more /\ more \subseteq DOMAIN files
    BY <2>1 DEF known
  <2> HIDE DEF more
  <2> QED
    BY <1>1, <2>1, <2>2, <2>3, <2>4
<1> QED
  BY <1>2, <1>3

-----------------------------------------------------------------------------
(* deepPathModules.                                                         *)

LEMMA Joining ==
  ASSUME NEW S, NEW t \in Seq(S), NEW u \in Seq(S)
  PROVE  /\ Cat(t, u) \in Seq(S) /\ Len(Cat(t, u)) = Len(t) + Len(u)
         /\ Len(t) \in Nat /\ Len(u) \in Nat
         /\ \A i \in 1 .. Len(t) + Len(u) :
               Cat(t, u)[i] = IF i <= Len(t) THEN t[i] ELSE u[i - Len(t)]
<1>1. t \o u \in Seq(S) /\ Len(t \o u) = Len(t) + Len(u) /\ Len(t) \in Nat /\ Len(u) \in Nat
  OBVIOUS
<1>2. \A i \in 1 .. Len(t) + Len(u) : (t \o u)[i] = IF i <= Len(t) THEN t[i] ELSE u[i - Len(t)]
  OBVIOUS
<1> QED
  BY <1>1, <1>2 DEF Cat

LEMMA Removed ==
  ASSUME NEW S, NEW s \in Seq(S), NEW i \in 1 .. Len(s), NEW c \in Seq(S)
  PROVE  /\ Cat(RemoveAt(s, i), c) \in Seq(S)
         /\ Len(Cat(RemoveAt(s, i), c)) = (Len(s) - 1) + Len(c)
         /\ ToSet(Cat(RemoveAt(s, i), c)) = {s[k] : k \in DOMAIN s \ {i}} \cup ToSet(c)
<1> DEFINE a == SubSeq(s, 1, i - 1)
           b == SubSeq(s, i + 1, Len(s))
           d == Cat(a, b)
           r == Cat(d, c)
           n == Len(s)
           m == Len(c)
<1>1. n \in Nat /\ m \in Nat /\ i \in Nat /\ 1 <= i /\ i <= n /\ DOMAIN s = 1 .. n /\ DOMAIN c = 1 .. m
  OBVIOUS
<1>2. /\ a \in Seq(S) /\ Len(a) = i - 1 /\ \A k \in 1 .. i - 1 : a[k] = s[k]
      /\ b \in Seq(S) /\ Len(b) = n - i /\ \A k \in 1 .. n - i : b[k] = s[k + i]
  <2>1. /\ i - 1 \in Nat /\ \A k \in 1 .. i - 1 : k \in 1 .. n
        /\ n - i \in Nat /\ \A k \in 1 .. n - i : k + i \in 1 .. n
    BY <1>1
  <2>2. a = [k \in 1 .. i - 1 |-> s[k]]
    BY <1>1, <2>1
  <2>3. b = [k \in 1 .. n - i |-> s[k + i]]
    BY <1>1, <2>1
  <2>4. \A k \in 1 .. n : s[k] \in S
    BY <1>1
  <2> HIDE DEF a, b, n
  <2>5. a \in Seq(S) /\ Len(a) = i - 1 /\ \A k \in 1 .. i - 1 : a[k] = s[k]
    <3>1. a \in [1 .. i - 1 -> S] /\ \A k \in 1 .. i - 1 : a[k] = s[k]
      BY <2>1, <2>2, <2>4
    <3> QED
      BY <2>1, <3>1
  <2>6. b \in Seq(S) /\ Len(b) = n - i /\ \A k \in 1 .. n - i : b[k] = s[k + i]
    <3>1. b \in [1 .. n - i -> S] /\ \A k \in 1 .. n - i : b[k] = s[k + i]
      BY <2>1, <2>3, <2>4
    <3> QED
      BY <2>1, <3>1
  <2> QED
    BY <2>5, <2>6
<1> HIDE DEF a, b, n, m
<1>3. /\ d \in Seq(S) /\ Len(d) = n - 1
      /\ \A j \in 1 .. n - 1 : d[j] = IF j < i THEN s[j] ELSE s[j + 1]
  <2>1. /\ d \in Seq(S) /\ Len(d) = n - 1
        /\ \A j \in 1 .. n - 1 : d[j] = IF j <= i - 1 THEN a[j] ELSE b[j - (i - 1)]
    <3>1. /\ d \in Seq(S) /\ Len(d) = Len(a) + Len(b)
          /\ \A j \in 1 .. Len(a) + Len(b) : d[j] = IF j <= Len(a) THEN a[j] ELSE b[j - Len(a)]
      BY <1>2, Joining
    <3>2. (i - 1) + (n - i) = n - 1
      BY <1>1
    <3> HIDE DEF d
    <3> QED
      BY <1>2, <3>1, <3>2
  <2> HIDE DEF d
  <2>2. ASSUME NEW j \in 1 .. n - 1
        PROVE  d[j] = IF j < i THEN s[j] ELSE s[j + 1]
    <3>1. CASE j < i
      BY <1>1, <1>2, <2>1, <3>1
    <3>2. CASE ~(j < i)
      <4>1. j - (i - 1) \in 1 .. n - i /\ (j - (i - 1)) + i = j + 1 /\ ~(j <= i - 1)
        BY <1>1, <3>2
      <4>2. d[j] = b[j - (i - 1)]
        BY <2>1, <4>1
      <4> QED
        BY <1>2, <3>2, <4>1, <4>2
    <3> QED
      BY <3>1, <3>2
  <2> QED
    BY <2>1, <2>2
<1> HIDE DEF d
<1>4. /\ r \in Seq(S) /\ Len(r) = (n - 1) + m /\ DOMAIN r = 1 .. (n - 1) + m
      /\ \A j \in 1 .. (n - 1) + m : r[j] = IF j <= n - 1 THEN d[j] ELSE c[j - (n - 1)]
  <2>1. /\ r \in Seq(S) /\ Len(r) = Len(d) + Len(c)
        /\ \A j \in 1 .. Len(d) + Len(c) : r[j] = IF j <= Len(d) THEN d[j] ELSE c[j - Len(d)]
    BY <1>3, Joining
  <2> HIDE DEF r
  <2> QED
    BY <1>3, <2>1 DEF m
<1> HIDE DEF r
<1>5. ASSUME NEW x \in ToSet(r)
      PROVE  x \in {s[k] : k \in DOMAIN s \ {i}} \cup ToSet(c)
  <2>1. PICK j \in 1 .. (n - 1) + m : x = r[j]
    BY <1>4 DEF ToSet
  <2>2. CASE j <= n - 1
    <3>1. j \in 1 .. n - 1 /\ j \in DOMAIN s /\ j + 1 \in DOMAIN s
      BY <1>1, <2>2
    <3>2. x = IF j < i THEN s[j] ELSE s[j + 1]
      BY <1>3, <1>4, <2>1, <2>2, <3>1
    <3>3. (j < i => j # i) /\ (~(j < i) => j + 1 # i)
      BY <1>1, <3>1
    <3> QED
      BY <3>1, <3>2, <3>3
  <2>3. CASE ~(j <= n - 1)
    <3>1. j - (n - 1) \in DOMAIN c
      BY <1>1, <2>3
    <3>2. x = c[j - (n - 1)]
      BY <1>4, <2>1, <2>3
    <3> QED
      BY <3>1, <3>2 DEF ToSet
  <2> QED
    BY <2>2, <2>3
<1>6. ASSUME NEW k \in DOMAIN s \ {i}
      PROVE  s[k] \in ToSet(r)
  <2>1. CASE k < i
    <3>1. k \in 1 .. n - 1 /\ k \in DOMAIN r /\ k <= n - 1
      BY <1>1, <1>4, <2>1
    <3>2. s[k] = r[k]
      BY <1>3, <1>4, <2>1, <3>1
    <3> QED
      BY <3>1, <3>2 DEF ToSet
  <2>2. CASE i < k
    <3>1. k - 1 \in 1 .. n - 1 /\ k - 1 \in DOMAIN r /\ ~(k - 1 < i) /\ (k - 1) + 1 = k /\ k - 1 <= n - 1
      BY <1>1, <1>4, <2>2
    <3>2. s[k] = r[k - 1]
      BY <1>3, <1>4, <3>1
    <3> QED
      BY <3>1, <3>2 DEF ToSet
  <2> QED
    BY <1>1, <2>1, <2>2
<1>7. ASSUME NEW k \in DOMAIN c
      PROVE  c[k] \in ToSet(r)
  <2>1. k + (n - 1) \in DOMAIN r /\ ~(k + (n - 1) <= n - 1) /\ (k + (n - 1)) - (n - 1) = k
    BY <1>1, <1>4
  <2>2. c[k] = r[k + (n - 1)]
    BY <1>4, <2>1
  <2> QED
    BY <2>1, <2>2 DEF ToSet
<1>8. ToSet(r) = {s[k] : k \in DOMAIN s \ {i}} \cup ToSet(c)
  <2>1. \A x \in ToSet(c) : x \in ToSet(r)
    BY <1>7 DEF ToSet
  <2> QED
    BY <1>5, <1>6, <2>1
<1> QED
  BY <1>4, <1>8 DEF r, d, a, b, n, m, RemoveAt, Cat

\* A turn of the loop leaves no use out and adds none, and the list never shrinks.
LEMMA DeepPathTurn ==
  ASSUME TypeInv, NEW f \in known, NEW s \in [list : Seq(Module), stop : BOOLEAN],
         NEW i \in 1 .. Len(s.list)
  PROVE  /\ DeepPathModule(f, s, i) \in [list : Seq(Module), stop : BOOLEAN]
         /\ Len(DeepPathModule(f, s, i).list) >= Len(s.list)
         /\ UsesOf(DeepPathModule(f, s, i).list) = UsesOf(s.list)
<1> DEFINE m == s.list[i]
           others == FilesIn(m.value) \ {f}
           n == Cardinality(others)
           copies == [j \in 1 .. n |-> [m EXCEPT !.value = SetToSeq(others)[j]]]
           more == RemoveAt(s.list, i) \o copies
           r == DeepPathModule(f, s, i)
<1>1. m \in Module /\ s.list \in Seq(Module) /\ s.stop \in BOOLEAN
  OBVIOUS
<1>2. r \in {s, [s EXCEPT !.stop = TRUE]} \/ (others # {} /\ r = [s EXCEPT !.list = more])
  BY DEF DeepPathModule
<1>3. CASE r \in {s, [s EXCEPT !.stop = TRUE]}
  <2>1. r \in [list : Seq(Module), stop : BOOLEAN] /\ r.list = s.list
    BY <1>1, <1>3
  <2>2. Len(s.list) \in Nat
    BY <1>1
  <2> HIDE DEF r
  <2>3. Len(r.list) >= Len(s.list) /\ UsesOf(r.list) = UsesOf(s.list)
    BY <2>1, <2>2
  <2> QED
    BY <2>1, <2>3 DEF r
<1>4. CASE others # {} /\ r = [s EXCEPT !.list = more]
  <2>1. IsFiniteSet(others) /\ others \subseteq Paths
    <3>1. others \subseteq AllFiles
      BY DEF FilesIn
    <3>2. IsFiniteSet(AllFiles) /\ AllFiles \subseteq Paths
      BY DiskFacts DEF AllFiles, TypeInv, FileInv
    <3> QED
      BY <3>1, <3>2, FS_Subset
  <2>2. n \in Nat \ {0}
    <3> HIDE DEF others
    <3> QED
      BY <1>4, <2>1, FS_CardinalityType, FS_EmptySet
  <2>3. \A j \in 1 .. n : SetToSeq(others)[j] \in Paths
    <3> HIDE DEF others
    <3> QED
      BY <2>1, <2>2, Listed DEF n
  <2> HIDE DEF others, n
  <2>4. /\ copies \in Seq(Module) /\ Len(copies) = n
        /\ DOMAIN copies = 1 .. n /\ \A j \in 1 .. n : copies[j].uses = m.uses
    <3>1. \A v \in Paths : [m EXCEPT !.value = v] \in Module /\ [m EXCEPT !.value = v].uses = m.uses
      BY <1>1 DEF Module, ModuleOf
    <3>2. \A j \in 1 .. n : copies[j] \in Module /\ copies[j].uses = m.uses
      BY <2>3, <3>1
    <3>3. copies = [j \in 1 .. n |-> copies[j]]
      OBVIOUS
    <3> HIDE DEF copies
    <3>4. copies \in [1 .. n -> Module]
      BY <3>2, <3>3
    <3> QED
      BY <2>2, <3>2, <3>4
  <2> HIDE DEF copies, m
  <2>5. /\ more \in Seq(Module) /\ Len(more) = (Len(s.list) - 1) + n
        /\ ToSet(more) = {s.list[k] : k \in DOMAIN s.list \ {i}} \cup ToSet(copies)
    <3> DEFINE l == s.list
    <3>1. l \in Seq(Module) /\ i \in 1 .. Len(l)
      BY <1>1
    <3> HIDE DEF l
    <3>2. /\ Cat(RemoveAt(l, i), copies) \in Seq(Module)
          /\ Len(Cat(RemoveAt(l, i), copies)) = (Len(l) - 1) + Len(copies)
          /\ ToSet(Cat(RemoveAt(l, i), copies)) = {l[k] : k \in DOMAIN l \ {i}} \cup ToSet(copies)
      BY <2>4, <3>1, Removed
    <3> QED
      BY <2>4, <3>2 DEF l, Cat
  <2>6. Len(more) >= Len(s.list)
    <3>1. Len(s.list) \in Nat
      BY <1>1
    <3> QED
      BY <2>2, <2>5, <3>1
  <2> HIDE DEF more
  <2>7. UsesOf(more) = UsesOf(s.list)
    <3>1. UsesOf(more) = UNION {ToSet(x.uses) : x \in ToSet(more)}
      BY DEF UsesOf, ToSet
    <3>2. UsesOf(s.list) = UNION {ToSet(x.uses) : x \in ToSet(s.list)}
      BY DEF UsesOf, ToSet
    <3>3. ToSet(s.list) = {s.list[k] : k \in DOMAIN s.list \ {i}} \cup {m}
      <4>1. i \in DOMAIN s.list
        BY <1>1
      <4> QED
        BY <4>1 DEF ToSet, m
    <3>4. \A x \in ToSet(copies) : x.uses = m.uses
      BY <2>4 DEF ToSet
    <3>5. \E x \in ToSet(copies) : x.uses = m.uses
      <4>1. 1 \in DOMAIN copies
        BY <2>2, <2>4
      <4> QED
        BY <2>4, <4>1 DEF ToSet
    <3> QED
      BY <2>5, <3>1, <3>2, <3>3, <3>4, <3>5
  <2>8. r \in [list : Seq(Module), stop : BOOLEAN] /\ r.list = more
    BY <1>1, <1>4, <2>5
  <2> HIDE DEF r
  <2> QED
    BY <2>6, <2>7, <2>8 DEF r
<1> QED
  BY <1>2, <1>3, <1>4

\* The loop ends with a list that has the uses of the list it began with.
LEMMA DeepPathResult ==
  ASSUME TypeInv, NEW f \in known
  PROVE  /\ DeepPathLoop(f)[Len(mods[f])] \in [list : Seq(Module), stop : BOOLEAN]
         /\ UsesOf(DeepPathLoop(f)[Len(mods[f])].list) = UsesOf(mods[f])
         /\ DeepPathLoop(f)[0] = [list |-> mods[f], stop |-> FALSE]
         /\ \A i \in 1 .. Len(mods[f]) : DeepPathLoop(f)[i] = DeepPathModule(f, DeepPathLoop(f)[i - 1], i)
<1> DEFINE n == Len(mods[f])
           first == [list |-> mods[f], stop |-> FALSE]
           T == {s \in [list : Seq(Module), stop : BOOLEAN] :
                    Len(s.list) >= n /\ UsesOf(s.list) = UsesOf(mods[f])}
           R == [z \in T \X (1 .. n) |-> DeepPathModule(f, z[1], z[2])]
           Is(s) == s = [i \in 0 .. n |-> IF i = 0 THEN first ELSE DeepPathModule(f, s[i - 1], i)]
           loop == DeepPathLoop(f)
<1>1. mods[f] \in Seq(Module) /\ n \in Nat
  BY DEF TypeInv, FileInv
<1>2. first \in T
  <2>1. first \in [list : Seq(Module), stop : BOOLEAN] /\ first.list = mods[f]
    BY <1>1
  <2> HIDE DEF first
  <2> QED
    BY <1>1, <2>1
<1>3. \A x \in T : \A i \in 1 .. n : DeepPathModule(f, x, i) \in T
  <2> SUFFICES ASSUME NEW x \in T, NEW i \in 1 .. n
               PROVE  DeepPathModule(f, x, i) \in T
    OBVIOUS
  <2>1. x \in [list : Seq(Module), stop : BOOLEAN] /\ i \in 1 .. Len(x.list) /\ Len(x.list) \in Nat
    BY <1>1
  <2> DEFINE y == DeepPathModule(f, x, i)
  <2>2. y \in [list : Seq(Module), stop : BOOLEAN] /\ Len(y.list) >= Len(x.list) /\ UsesOf(y.list) = UsesOf(x.list)
    BY <2>1, DeepPathTurn
  <2> HIDE DEF y
  <2>3. Len(y.list) \in Nat /\ Len(x.list) >= n /\ UsesOf(x.list) = UsesOf(mods[f])
    BY <2>2
  <2>4. y \in T
    BY <1>1, <2>1, <2>2, <2>3
  <2> QED
    BY <2>4 DEF y
<1> HIDE DEF first, T, n
<1>4. PICK g : Loops(g, T, n, first, R)
  <2>1. R \in [T \X (1 .. n) -> T]
    BY <1>3
  <2> HIDE DEF R
  <2> QED
    BY <1>1, <1>2, <2>1, LoopExists
<1>5. Is(g)
  <2>1. ASSUME NEW i \in 0 .. n
        PROVE  g[i] = IF i = 0 THEN first ELSE DeepPathModule(f, g[i - 1], i)
    <3>1. CASE i = 0
      BY <1>4, <3>1 DEF Loops
    <3>2. CASE i # 0
      <4>1. i \in 1 .. n /\ g[i - 1] \in T
        BY <1>1, <1>4, <3>2 DEF Loops
      <4> QED
        BY <1>4, <3>2, <4>1 DEF Loops
    <3> QED
      BY <3>1, <3>2
  <2> QED
    BY <1>4, <2>1 DEF Loops
<1> HIDE DEF R
<1>6. loop = CHOOSE s : Is(s)
  BY DEF DeepPathLoop, n, first
<1>7. Is(loop)
  <2>1. \E s : Is(s)
    BY <1>5
  <2> HIDE DEF Is, loop
  <2> QED
    BY <1>6, <2>1
<1> HIDE DEF loop
<1>8. loop[0] = first /\ \A i \in 1 .. n : loop[i] = DeepPathModule(f, loop[i - 1], i)
  <2>1. \A i \in 0 .. n : loop[i] = IF i = 0 THEN first ELSE DeepPathModule(f, loop[i - 1], i)
    BY <1>7
  <2>2. 0 \in 0 .. n /\ \A i \in 1 .. n : i \in 0 .. n /\ i # 0
    BY <1>1
  <2> QED
    BY <2>1, <2>2
<1>9. loop[n] \in T
  <2>1. \A i \in 0 .. n : loop[i] \in T
    BY <1>1, <1>2, <1>3, <1>8, LoopStays
  <2>2. n \in 0 .. n
    BY <1>1
  <2> QED
    BY <2>1, <2>2
<1> QED
  BY <1>8, <1>9 DEF loop, n, T, first

-----------------------------------------------------------------------------
(* The types, step by step.                                                 *)

PkgStates == [latest : Versions \cup {None}, recorded : Shelf, installed : Shelf, readable : BOOLEAN]

LEMMA LatestIsVersion ==
  ASSUME NEW p \in Packages
  PROVE  Latest[p] \in Versions
<1>1. Latest[p] \in {Latest[q] : q \in Packages}
  OBVIOUS
<1> HIDE DEF Packages
<1> QED
  BY <1>1 DEF Versions

\* What is left of a package that is removed, downloaded or recorded.
LEMMA LeftTypes ==
  ASSUME NEW s \in PkgStates, NEW p \in Packages, NEW v \in Versions \cup {None, Other}
  PROVE  Left(s, p, v) \in PkgStates
BY DEF PkgStates, Shelf, Left

LEMMA TornTypes ==
  ASSUME NEW s \in PkgStates, NEW p \in Packages, NEW r \in Torn(s, p)
  PROVE  r.pkgs \in PkgStates /\ r.ok = FALSE /\ r.pkgs.latest = s.latest /\ r.pkgs.recorded = s.recorded
         /\ r.pkgs.installed[p] \in {s.installed[p], None, Other}
<1>1. PICK v \in {s.installed[p], None, Other} : r = [ok |-> FALSE, pkgs |-> Left(s, p, v)]
  BY DEF Torn
<1>2. v \in Versions \cup {None, Other}
  BY DEF PkgStates, Shelf
<1>3. /\ Left(s, p, v).latest = s.latest /\ Left(s, p, v).recorded = s.recorded
      /\ Left(s, p, v).installed[p] = v
  BY DEF Left, PkgStates, Shelf
<1> QED
  BY <1>1, <1>2, <1>3, LeftTypes

LEMMA RecordedTypes ==
  ASSUME NEW s \in PkgStates, NEW p \in Packages, NEW v \in Versions \cup {None}, NEW r \in Recorded(s, p, v)
  PROVE  r.pkgs \in PkgStates /\ r.ok \in BOOLEAN /\ r.pkgs.latest = s.latest
         /\ r.pkgs.installed = s.installed
<1> DEFINE a == [s EXCEPT !.recorded[p] = v]
           b == [s EXCEPT !.recorded = [q \in Packages |-> None]]
           c == [s EXCEPT !.readable = FALSE]
<1>1. \A t \in {s, a, b, c} : t \in PkgStates /\ t.latest = s.latest /\ t.installed = s.installed
  <2>1. a \in PkgStates /\ a.latest = s.latest /\ a.installed = s.installed
    BY DEF PkgStates, Shelf
  <2>2. b \in PkgStates /\ b.latest = s.latest /\ b.installed = s.installed
    BY DEF PkgStates, Shelf
  <2>3. c \in PkgStates /\ c.latest = s.latest /\ c.installed = s.installed
    BY DEF PkgStates
  <2> QED
    BY <2>1, <2>2, <2>3
<1>2. \/ r = [ok |-> FALSE, pkgs |-> s]
      \/ \E t \in {a, b, c} : r = [ok |-> TRUE, pkgs |-> t]
  BY DEF Recorded
<1>3. /\ \A t : /\ [ok |-> FALSE, pkgs |-> t].pkgs = t /\ [ok |-> FALSE, pkgs |-> t].ok = FALSE
              /\ [ok |-> TRUE, pkgs |-> t].pkgs = t /\ [ok |-> TRUE, pkgs |-> t].ok = TRUE
  OBVIOUS
<1> HIDE DEF a, b, c
<1>4. r.pkgs \in {s, a, b, c} /\ r.ok \in BOOLEAN
  BY <1>2, <1>3, Zenon
<1> QED
  BY <1>1, <1>4

\* An update leaves what is recorded and installed of a package that the registry has.
LEMMA UpdateTypes ==
  ASSUME NEW s \in PkgStates, NEW u, NEW r \in ModulesUpdate(s, u)
  PROVE  r.pkgs \in PkgStates /\ r.ok \in BOOLEAN /\ (r.ok => PackageOf(u) \in Packages)
<1> DEFINE p == PackageOf(u)
<1>0. \/ r = [ok |-> FALSE, pkgs |-> s]
      \/ p \in Packages /\ IsOrg(u) /\ r \in UpdateOrg(s, p)
      \/ p \in Packages /\ r \in UpdatePackage(s, p)
  BY DEF ModulesUpdate
<1> HIDE DEF p
<1>1. CASE r = [ok |-> FALSE, pkgs |-> s]
  <2>1. r.ok = FALSE /\ r.pkgs = s
    BY <1>1
  <2> QED
    BY <2>1
<1>2. CASE p \in Packages /\ IsOrg(u) /\ r \in UpdateOrg(s, p)
  <2>1. r \in Torn(s, p) \/ r = [ok |-> TRUE, pkgs |-> Left(s, p, Other)]
    BY <1>2 DEF UpdateOrg
  <2>2. Left(s, p, Other) \in PkgStates
    BY <1>2, LeftTypes
  <2>3. CASE r \in Torn(s, p)
    BY <1>2, <2>3, TornTypes DEF p
  <2>4. CASE r = [ok |-> TRUE, pkgs |-> Left(s, p, Other)]
    <3>1. r.pkgs = Left(s, p, Other) /\ r.ok = TRUE
      BY <2>4
    <3> QED
      BY <1>2, <2>2, <3>1 DEF p
  <2> QED
    BY <2>1, <2>3, <2>4
<1>3. CASE p \in Packages /\ r \in UpdatePackage(s, p)
  <2> DEFINE v == IF s.latest = None THEN Latest[p] ELSE s.latest
             t == [s EXCEPT !.latest = v]
  <2>1. v \in Versions \cup {None}
    <3>1. Latest[p] \in Versions
      BY <1>3, LatestIsVersion
    <3>2. s.latest \in Versions \cup {None}
      BY DEF PkgStates
    <3> QED
      BY <3>1, <3>2
  <2>2. t \in PkgStates
    <3> HIDE DEF v
    <3> QED
      BY <2>1 DEF PkgStates
  <2>3. \/ r = [ok |-> TRUE, pkgs |-> t]
        \/ r \in Torn(t, p)
        \/ r \in Recorded(Left(t, p, v), p, v)
    BY <1>3 DEF UpdatePackage
  <2> HIDE DEF t, v
  <2>4. Left(t, p, v) \in PkgStates
    BY <1>3, <2>1, <2>2, LeftTypes
  <2>5. r.pkgs \in PkgStates /\ r.ok \in BOOLEAN
    <3>1. CASE r = [ok |-> TRUE, pkgs |-> t]
      BY <2>2, <3>1
    <3>2. CASE r \in Torn(t, p)
      BY <1>3, <2>2, <3>2, TornTypes
    <3>3. CASE r \in Recorded(Left(t, p, v), p, v)
      BY <1>3, <2>1, <2>4, <3>3, RecordedTypes
    <3> QED
      BY <2>3, <3>1, <3>2, <3>3
  <2> QED
    BY <1>3, <2>5 DEF p
<1> QED
  BY <1>0, <1>1, <1>2, <1>3

LEMMA InitTypes == ModInit => TypeInv
<1> SUFFICES ASSUME ModInit PROVE TypeInv
  OBVIOUS
<1> DEFINE K == {g \in DOMAIN files : Begins(g, WS)}
<1>1. mods = [f \in K |-> <<>>] /\ K \subseteq DOMAIN files /\ todo = K /\ files \in Contents
  BY DEF ModInit
<1> HIDE DEF K
<1>2. known = K
  BY <1>1 DEF known
<1>3. FileInv
  BY <1>1, <1>2 DEF FileInv, ModInit
<1>4. ListInv
  BY DEF ListInv, ModInit, ToSet
<1>5. PlaceInv
  BY DEF PlaceInv, ModInit, Reads
<1>6. PkgInv
  <2>1. PICK h \in Shelves : pkgs = [latest |-> None, recorded |-> h.recorded, installed |-> h.installed, readable |-> TRUE]
    BY DEF ModInit
  <2>2. h \in [recorded : Shelf, installed : Shelf]
    BY PackageAssumption
  <2> QED
    BY <2>1, <2>2 DEF PkgInv
<1> QED
  BY <1>3, <1>4, <1>5, <1>6 DEF TypeInv

\* The steps of getAllModules and checkModuleFile that follow a use.
LEMMA FollowTypes ==
  ASSUME TypeInv, FollowPath \/ FollowPackage
  PROVE  TypeInv'
<1> DEFINE u == Head(Top.left)
<1>1. /\ Pending /\ stack \in Seq(Frame) /\ stack # <<>> /\ Top \in Frame /\ u \in Paths
      /\ mpc = "discover" /\ walk = <<>>
  <2>1. Pending /\ stack \in Seq(Frame) /\ stack # <<>> /\ Top.left # <<>> /\ mpc = "discover" /\ walk = <<>>
    BY DEF TypeInv, ListInv, PlaceInv, Pending, FollowPath, FollowPackage
  <2>2. Top \in Frame
    <3>1. Len(stack) \in DOMAIN stack
      BY <2>1
    <3> QED
      BY <2>1, <3>1 DEF Top, Last
  <2>3. u \in Paths
    BY <2>1, <2>2 DEF Frame
  <2> QED
    BY <2>1, <2>2, <2>3
<1> HIDE DEF u
<1>2. UNCHANGED <<files, todo, base, walk, cycle, used, loaded, rules>>
  BY DEF FollowPath, FollowPackage
<1>3. /\ stack' \in Seq(Frame)
      /\ known \subseteq known' /\ known' \subseteq DOMAIN files
      /\ mods' = [f \in known' |-> <<>>]
      /\ mpc' \in {"discover", "overflow"}
      /\ PkgInv'
  <2>1. CASE FollowPath
    <3>1. PICK at \in Paths : Enter(at, Top.ws, OnDisk(pkgs))
      <4>1. Enter(IF Top.at \in DOMAIN files THEN Join(Top.ws, u) ELSE u, Top.ws, OnDisk(pkgs))
        BY <2>1 DEF FollowPath, AllFiles, u
      <4>2. Join(Top.ws, u) \in Paths
        BY <1>1, Joined DEF Frame
      <4> QED
        BY <1>1, <4>1, <4>2
    <3>2. Top.ws \in Paths
      BY <1>1 DEF Frame
    <3>3. PkgInv'
      BY <2>1 DEF FollowPath, PkgInv, TypeInv
    <3> QED
      BY <1>1, <3>1, <3>2, <3>3, EnterTypes
  <2>2. CASE FollowPackage
    <3>1. PICK r \in ModulesUpdate(pkgs, u) :
             /\ pkgs' = r.pkgs
             /\ IF r.ok THEN Enter(InHome(u), HOME \o <<PackageOf(u)>>, OnDisk(r.pkgs))
                ELSE stack' = Skipped /\ UNCHANGED <<mpc, mods>>
      BY <2>2 DEF FollowPackage, u
    <3>2. r.pkgs \in PkgStates /\ r.ok \in BOOLEAN /\ (r.ok => PackageOf(u) \in Packages)
      BY UpdateTypes DEF TypeInv, PkgInv, PkgStates
    <3>3. PkgInv'
      BY <3>1, <3>2 DEF PkgInv, PkgStates
    <3>4. CASE r.ok
      <4>1. InHome(u) \in Paths /\ HOME \o <<PackageOf(u)>> \in Paths
        <5>1. PackageOf(u) \in Words
          BY <3>2, <3>4, PackageAssumption DEF Words
        <5> QED
          BY <1>1, <5>1, PathParts
      <4>2. Enter(InHome(u), HOME \o <<PackageOf(u)>>, OnDisk(r.pkgs))
        BY <3>1, <3>4
      <4> HIDE DEF u
      <4> QED
        BY <1>1, <3>3, <4>1, <4>2, EnterTypes
    <3>5. CASE ~r.ok
      <4>1. stack' = Skipped /\ mpc' = mpc /\ mods' = mods
        BY <3>1, <3>5
      <4>2. Skipped \in Seq(Frame)
        BY <1>1, SkippedFrames DEF Pending
      <4>3. mods = [f \in known |-> <<>>] /\ known \subseteq DOMAIN files /\ known' = known
        BY <1>1, <4>1 DEF TypeInv, FileInv, known
      <4> QED
        BY <1>1, <3>3, <4>1, <4>2, <4>3
    <3> QED
      BY <3>4, <3>5
  <2> QED
    BY <2>1, <2>2
<1>4. FileInv'
  <2>1. /\ files \in Contents /\ todo \subseteq known /\ used \subseteq known /\ base \in known \cup {<<>>}
    BY DEF TypeInv, FileInv
  <2>2. mods' \in [known' -> Seq(Module')]
    BY <1>3
  <2> QED
    BY <1>2, <1>3, <2>1, <2>2 DEF FileInv
<1>5. ListInv'
  <2>1. walk' = <<>> /\ cycle' = cycle /\ cycle \in Seq(known) /\ loaded \in Seq(Flat) /\ \A r \in ToSet(rules) : ~IsDotted(r.path)
    BY <1>1, <1>2 DEF TypeInv, ListInv
  <2>2. cycle \in Seq(known')
    BY <1>3, <2>1
  <2> QED
    BY <1>2, <1>3, <2>1, <2>2 DEF ListInv, Turns
<1>6. PlaceInv'
  BY <1>1, <1>2, <1>3 DEF PlaceInv, Reads
<1> QED
  BY <1>3, <1>4, <1>5, <1>6 DEF TypeInv

LEMMA DiscoverTypes ==
  ASSUME TypeInv, (\E f \in todo : DiscoverFile(f)) \/ DiscoverReturns
  PROVE  TypeInv'
<1>1. UNCHANGED <<files, pkgs, mpc, mods, base, walk, cycle, used, loaded, rules>> /\ mpc = "discover"
  BY DEF DiscoverFile, DiscoverReturns
<1>2. known' = known /\ known \subseteq Paths
  BY <1>1, FileFacts DEF TypeInv, FileInv, known
<1>3. todo' \subseteq todo /\ stack' \in Seq(Frame)
  <2>1. CASE \E f \in todo : DiscoverFile(f)
    <3>1. PICK f \in todo : DiscoverFile(f)
      BY <2>1
    <3>2. Call(f, WS, OnDisk(pkgs)) \in Frame
      BY <1>2, CallType, RootNames DEF TypeInv, FileInv
    <3> QED
      BY <3>1, <3>2 DEF DiscoverFile, AllFiles
  <2>2. CASE DiscoverReturns
    <3>1. stack \in Seq(Frame) /\ stack # <<>> /\ stack' = Front(stack) /\ todo' = todo
      BY <2>2 DEF DiscoverReturns, TypeInv, ListInv
    <3> QED
      BY <3>1 DEF Front
  <2> QED
    BY <2>1, <2>2
<1>4. FileInv'
  BY <1>1, <1>2, <1>3 DEF TypeInv, FileInv, Module, ModuleOf
<1>5. ListInv'
  BY <1>1, <1>2, <1>3 DEF TypeInv, ListInv, Turns
<1>6. PlaceInv' /\ PkgInv'
  BY <1>1 DEF TypeInv, PlaceInv, PkgInv
<1> QED
  BY <1>4, <1>5, <1>6 DEF TypeInv

\* The modules of a file, as they are assembled.
LEMMA AssembledFile ==
  ASSUME TypeInv, NEW b, NEW f \in known
  PROVE  LET m == [i \in DOMAIN files[f] |->
                       [name |-> <<files[f][i].name>>, uses |-> files[f][i].uses,
                        value |-> UsesValue(f, files[f][i], b), children |-> <<>>]]
         IN  m \in Seq(Module) /\ UsesOf(m) = UsesOf(files[f])
<1> DEFINE D == DOMAIN files[f]
           m == [i \in D |-> [name |-> <<files[f][i].name>>, uses |-> files[f][i].uses,
                              value |-> UsesValue(f, files[f][i], b), children |-> <<>>]]
<1>1. files[f] \in Seq([name : STRING, uses : Seq(Paths)]) /\ Dir(f) \in Paths
  <2>1. f \in DOMAIN files /\ files \in Contents
    BY DEF TypeInv, FileInv
  <2> QED
    BY <2>1, FileFacts, PathParts
<1>2. \A i \in D : files[f][i].name \in STRING /\ files[f][i].uses \in Seq(Paths)
  <2>1. \A i \in D : files[f][i] \in [name : STRING, uses : Seq(Paths)]
    BY <1>1, ElementsAre
  <2> HIDE DEF D
  <2> QED
    BY <2>1
<1>3. D = 1 .. Len(files[f]) /\ Len(files[f]) \in Nat
  BY <1>1
<1> HIDE DEF D
<1>4. ASSUME NEW i \in D
      PROVE  UsesValue(f, files[f][i], b) \in Paths
  <2> DEFINE us == files[f][i].uses
             q == [k \in DOMAIN us |-> IF IsDotted(us[k]) THEN Dir(f) ELSE <<>>]
  <2>1. us \in Seq(Paths)
    BY <1>2
  <2> HIDE DEF us
  <2>2. q \in Seq(Seq(Words))
    <3>1. DOMAIN us = 1 .. Len(us) /\ Len(us) \in Nat
      BY <2>1
    <3>2. Dir(f) \in Seq(Words) /\ <<>> \in Seq(Words)
      BY <1>1 DEF Paths
    <3> QED
      BY <3>1, <3>2
  <2> HIDE DEF q
  <2>3. FlattenSeq(q) \in Paths
    BY <2>2, FlattenElements DEF Paths
  <2>4. <<>> \in Paths
    BY DEF Paths
  <2> QED
    BY <2>3, <2>4 DEF UsesValue, q, us
<1>5. \A i \in D : m[i] \in Module /\ m[i].uses = files[f][i].uses
  BY <1>2, <1>4 DEF Module, ModuleOf
<1>6. m \in [D -> Module]
  BY <1>5
<1> HIDE DEF m
<1>7. m \in Seq(Module) /\ DOMAIN m = D
  BY <1>3, <1>6
<1>8. UsesOf(m) = UsesOf(files[f])
  <2>1. {ToSet(m[i].uses) : i \in D} = {ToSet(files[f][i].uses) : i \in D}
    BY <1>5
  <2> QED
    BY <1>7, <2>1 DEF UsesOf, D
<1> QED
  BY <1>7, <1>8 DEF m, D

LEMMA AssembleTypes ==
  ASSUME TypeInv, Assemble
  PROVE  TypeInv' /\ \A f \in known' : UsesOf(mods'[f]) = UsesOf(files'[f])
<1>1. PICK b \in IF known = {} THEN {<<>>} ELSE known :
         /\ base' = b
         /\ mods' = [f \in known |-> [i \in DOMAIN files[f] |->
                        [name |-> <<files[f][i].name>>, uses |-> files[f][i].uses,
                         value |-> UsesValue(f, files[f][i], b), children |-> <<>>]]]
  BY DEF Assemble
<1>2. /\ UNCHANGED <<files, pkgs, stack, walk, cycle, used, loaded, rules>>
      /\ mpc = "discover" /\ mpc' = "deep" /\ todo' = known /\ stack = <<>>
  BY DEF Assemble
<1>3. known' = known /\ base' \in known \cup {<<>>}
  BY <1>1 DEF known
<1>4. \A f \in known : mods'[f] \in Seq(Module) /\ UsesOf(mods'[f]) = UsesOf(files[f])
  BY <1>1, AssembledFile
<1>5. mods' \in [known -> Seq(Module)]
  <2>1. mods' = [f \in known |-> mods'[f]]
    BY <1>1
  <2> QED
    BY <1>4, <2>1
<1>6. FileInv'
  BY <1>2, <1>3, <1>5 DEF TypeInv, FileInv, Module, ModuleOf
<1>7. ListInv'
  BY <1>2, <1>3 DEF TypeInv, ListInv, Turns
<1>8. PlaceInv' /\ PkgInv'
  BY <1>2 DEF TypeInv, PlaceInv, PkgInv, Reads
<1> QED
  BY <1>2, <1>3, <1>4, <1>6, <1>7, <1>8 DEF TypeInv

LEMMA DeepPathTypes ==
  ASSUME TypeInv, NEW f \in todo, DeepPathModules(f)
  PROVE  /\ TypeInv' /\ known' = known
         /\ \A g \in known : UsesOf(mods'[g]) = UsesOf(mods[g])
<1> DEFINE s == DeepPathLoop(f)[Len(mods[f])]
<1>1. /\ f \in known /\ mods \in [known -> Seq(Module)] /\ mpc = "deep"
      /\ UNCHANGED <<files, pkgs, mpc, stack, base, walk, cycle, used, loaded, rules>>
      /\ mods' = [mods EXCEPT ![f] = s.list] /\ todo' \subseteq todo
  BY DEF TypeInv, FileInv, DeepPathModules
<1>2. s.list \in Seq(Module) /\ UsesOf(s.list) = UsesOf(mods[f])
  <2>1. s \in [list : Seq(Module), stop : BOOLEAN] /\ UsesOf(s.list) = UsesOf(mods[f])
    BY <1>1, DeepPathResult
  <2> HIDE DEF s
  <2> QED
    BY <2>1
<1> HIDE DEF s
<1>3. known' = known
  BY <1>1 DEF known
<1>4. mods' \in [known -> Seq(Module)] /\ \A g \in known : mods'[g] = IF g = f THEN s.list ELSE mods[g]
  BY <1>1, <1>2
<1>5. FileInv'
  BY <1>1, <1>3, <1>4 DEF TypeInv, FileInv, Module, ModuleOf
<1>6. ListInv'
  BY <1>1, <1>3 DEF TypeInv, ListInv, Turns
<1>7. PlaceInv' /\ PkgInv'
  BY <1>1 DEF TypeInv, PlaceInv, PkgInv, Reads
<1> QED
  BY <1>2, <1>3, <1>4, <1>5, <1>6, <1>7 DEF TypeInv

\* The edges of a file are its uses that are known files.
LEMMA EdgesOfFile ==
  ASSUME TypeInv, NEW f \in known
  PROVE  Edges(f) \in Seq(known) /\ ToSet(Edges(f)) = UsesOf(mods[f]) \cap known
<1> DEFINE list == mods[f]
           q == [i \in DOMAIN list |-> Those(list[i].uses, known)]
<1>1. list \in Seq(Module) /\ DOMAIN list = 1 .. Len(list) /\ Len(list) \in Nat
  BY DEF TypeInv, FileInv
<1>2. \A i \in DOMAIN list : list[i].uses \in Seq(Paths)
  <2>1. \A i \in DOMAIN list : list[i] \in Module
    BY <1>1, ElementsAre
  <2> HIDE DEF list
  <2> QED
    BY <2>1 DEF Module, ModuleOf
<1>3. Edges(f) = FlattenSeq(q)
  BY DEF Edges
<1> HIDE DEF list
<1>4. \A i \in DOMAIN list : /\ Those(list[i].uses, known) \in Seq(Paths)
                             /\ ToSet(Those(list[i].uses, known)) = ToSet(list[i].uses) \cap known
  BY <1>2, ThoseElements
<1>5. /\ q \in Seq(Seq(Paths)) /\ DOMAIN q = DOMAIN list
      /\ \A i \in DOMAIN list : ToSet(q[i]) = ToSet(list[i].uses) \cap known
  BY <1>1, <1>4
<1> HIDE DEF q
<1>6. FlattenSeq(q) \in Seq(Paths) /\ ToSet(FlattenSeq(q)) = UNION {ToSet(q[i]) : i \in DOMAIN q}
  BY <1>5, FlattenElements, FlattenToSet
<1>7. UNION {ToSet(q[i]) : i \in DOMAIN q} = UsesOf(list) \cap known
  <2>1. ASSUME NEW x
        PROVE  x \in UNION {ToSet(q[i]) : i \in DOMAIN q} <=> x \in UsesOf(list) \cap known
    <3>1. x \in UNION {ToSet(q[i]) : i \in DOMAIN q} <=> \E i \in DOMAIN list : x \in ToSet(list[i].uses) /\ x \in known
      BY <1>5
    <3>2. x \in UsesOf(list) <=> \E i \in DOMAIN list : x \in ToSet(list[i].uses)
      BY DEF UsesOf
    <3> QED
      BY <3>1, <3>2
  <2> QED
    BY <2>1
<1>8. ToSet(Edges(f)) = UsesOf(list) \cap known
  BY <1>3, <1>6, <1>7
<1>9. Edges(f) \in Seq(known)
  <2> DEFINE e == Edges(f)
  <2>1. e \in Seq(Paths) /\ \A x \in ToSet(e) : x \in known
    BY <1>3, <1>6, <1>8
  <2> HIDE DEF e
  <2>2. \A i \in 1 .. Len(e) : e[i] \in known
    BY <2>1 DEF ToSet
  <2>3. e \in [1 .. Len(e) -> known] /\ Len(e) \in Nat
    BY <2>1, <2>2
  <2>4. e \in Seq(known)
    BY <2>3
  <2> QED
    BY <2>4 DEF e
<1> QED
  BY <1>8, <1>9 DEF list

LEMMA WalkTypes ==
  ASSUME TypeInv,
         (\E f \in todo : CheckFile(f)) \/ CheckPath \/ CheckReturns \/ CheckEnds \/ DeepPathEnds
  PROVE  TypeInv' /\ known' = known /\ mods' = mods
<1>1. UNCHANGED <<files, pkgs, stack, mods, base, used, loaded, rules>>
  BY DEF CheckFile, CheckPath, CheckReturns, CheckEnds, DeepPathEnds
<1>2. known' = known /\ todo \subseteq known /\ walk \in Seq(Turns) /\ cycle \in Seq(known)
  BY <1>1 DEF TypeInv, FileInv, ListInv, known
<1>3. /\ todo' \subseteq known /\ walk' \in Seq(Turns) /\ cycle' \in Seq(known)
      /\ mpc # "discover" /\ mpc' \in {"cycle", "refused", "overflow", "uses"}
      /\ mpc' = "uses" => walk' = <<>>
      /\ stack = <<>>
  <2>0. mpc \in {"cycle", "deep"} /\ stack = <<>>
    BY DEF CheckFile, CheckPath, CheckReturns, CheckEnds, DeepPathEnds, TypeInv, PlaceInv
  <2>1. ASSUME NEW f \in todo, CheckFile(f)
        PROVE  todo' \subseteq known /\ walk' \in Seq(Turns) /\ cycle' \in Seq(known) /\ mpc' = "cycle"
    <3>1. [at |-> f, left |-> Edges(f)] \in Turns
      BY <1>2, EdgesOfFile DEF Turns
    <3> QED
      BY <1>2, <2>1, <3>1 DEF CheckFile
  <2>2. ASSUME CheckPath
        PROVE  /\ todo' \subseteq known /\ walk' \in Seq(Turns) /\ cycle' \in Seq(known)
               /\ mpc' \in {"cycle", "refused", "overflow"}
    <3> DEFINE n == Len(walk)
               p == Head(Turn.left)
               x == [walk[n] EXCEPT !.left = Tail(@)]
    <3>1. walk # <<>> /\ Turn.left # <<>> /\ mpc = "cycle"
      BY <2>2 DEF CheckPath
    <3>2. n \in DOMAIN walk /\ n \in Nat /\ walk[n] \in Turns /\ Turn = walk[n]
      BY <1>2, <3>1 DEF Turn, Last
    <3>3. p \in known /\ Tail(walk[n].left) \in Seq(known)
      BY <3>1, <3>2 DEF Turns
    <3>4. x \in Turns
      BY <3>2, <3>3 DEF Turns
    <3>5. CallFor(p) \in Turns
      BY <3>3, EdgesOfFile DEF CallFor, Turns
    <3>6. walk' = Append([walk EXCEPT ![n] = x], CallFor(p)) /\ cycle' = Append(cycle, p)
      BY <2>2, <3>2 DEF CheckPath
    <3> HIDE DEF p, x
    <3>7. walk' \in Seq(Turns) /\ cycle' \in Seq(known)
      BY <1>2, <3>2, <3>3, <3>4, <3>5, <3>6
    <3>8. todo' = todo /\ mpc' \in {"cycle", "refused", "overflow"}
      BY <2>2, <3>1 DEF CheckPath
    <3> QED
      BY <1>2, <3>7, <3>8
  <2>3. ASSUME CheckReturns
        PROVE  todo' \subseteq known /\ walk' \in Seq(Turns) /\ cycle' \in Seq(known) /\ mpc' = "cycle"
    <3>1. Front(walk) \in Seq(Turns)
      BY <1>2, <2>3 DEF CheckReturns, Front
    <3>2. Front(cycle) \in Seq(known)
      BY <1>2, <2>3 DEF Front
    <3> QED
      BY <1>2, <2>3, <3>1, <3>2 DEF CheckReturns
  <2>4. ASSUME CheckEnds \/ DeepPathEnds
        PROVE  /\ todo' \subseteq known /\ walk' \in Seq(Turns) /\ cycle' \in Seq(known)
               /\ mpc' \in {"uses", "cycle"} /\ walk' = <<>>
    BY <1>2, <2>4 DEF CheckEnds, DeepPathEnds, TypeInv, PlaceInv
  <2> QED
    BY <2>0, <2>1, <2>2, <2>3, <2>4
<1>4. FileInv'
  BY <1>1, <1>2, <1>3 DEF TypeInv, FileInv, Module, ModuleOf
<1>5. ListInv'
  BY <1>1, <1>2, <1>3 DEF TypeInv, ListInv, Turns
<1>6. PlaceInv' /\ PkgInv'
  BY <1>1, <1>3 DEF TypeInv, PlaceInv, PkgInv, Reads
<1> QED
  BY <1>1, <1>2, <1>4, <1>5, <1>6 DEF TypeInv

-----------------------------------------------------------------------------
(* makeUsesModule.                                                          *)

Outcomes == [ok : BOOLEAN, pkgs : PkgStates, lost : SUBSET (Nat \X Nat)]

LEMMA RewritingTypes ==
  ASSUME NEW S \in SUBSET Outcomes, NEW u \in Paths, NEW at \in Nat \X Nat
  PROVE  Rewriting(S, u, at) \in SUBSET Outcomes
<1> SUFFICES ASSUME NEW x \in Rewriting(S, u, at) PROVE x \in Outcomes
  OBVIOUS
<1>1. PICK s \in S : x \in IF ~s.ok THEN {s}
                           ELSE {[ok |-> r.ok \/ IsOrg(u), pkgs |-> r.pkgs,
                                  lost |-> IF r.ok THEN s.lost ELSE s.lost \cup {at}] :
                                     r \in ModulesUpdate(s.pkgs, u)}
  BY DEF Rewriting
<1>2. s \in Outcomes
  OBVIOUS
<1>3. CASE ~s.ok
  BY <1>1, <1>2, <1>3
<1>4. CASE s.ok
  <2>1. PICK r \in ModulesUpdate(s.pkgs, u) :
           x = [ok |-> r.ok \/ IsOrg(u), pkgs |-> r.pkgs, lost |-> IF r.ok THEN s.lost ELSE s.lost \cup {at}]
    BY <1>1, <1>4
  <2>2. s.pkgs \in PkgStates /\ s.lost \in SUBSET (Nat \X Nat)
    BY <1>2 DEF Outcomes
  <2>3. r.pkgs \in PkgStates /\ r.ok \in BOOLEAN
    BY <2>2, UpdateTypes
  <2>4. (r.ok \/ IsOrg(u)) \in BOOLEAN
    BY <2>3, Zenon DEF IsOrg, Begins
  <2> QED
    BY <2>1, <2>2, <2>3, <2>4 DEF Outcomes
<1> QED
  BY <1>3, <1>4

\* What holds before the uses of a module file are rewritten, and is kept by rewriting a
\* use of a package, holds afterwards; when there is such a use, one is the last.
Unwritten == [ok |-> TRUE, pkgs |-> pkgs, lost |-> {}]

\* The positions of the uses of a list of modules.
Spots(m) == UNION {{<<i, k>> : k \in DOMAIN m[i].uses} : i \in DOMAIN m}

LEMMA SpotFacts ==
  ASSUME TypeInv, NEW f \in known
  PROVE  /\ Spots(mods[f]) \subseteq Nat \X Nat
         /\ \A at \in Spots(mods[f]) : UseAt(f, at) \in UsesOf(mods[f]) /\ UseAt(f, at) \in Paths
         /\ \A u \in UsesOf(mods[f]) : \E at \in Spots(mods[f]) : u = UseAt(f, at)
<1>1. mods[f] \in Seq(Module) /\ DOMAIN mods[f] \subseteq Nat
  BY DEF TypeInv, FileInv
<1>2. \A i \in DOMAIN mods[f] : mods[f][i].uses \in Seq(Paths)
  <2>1. \A i \in DOMAIN mods[f] : mods[f][i] \in Module
    BY <1>1, ElementsAre
  <2> QED
    BY <2>1 DEF Module, ModuleOf
<1>3. ASSUME NEW i \in DOMAIN mods[f]
      PROVE  /\ DOMAIN mods[f][i].uses \subseteq Nat
             /\ \A k \in DOMAIN mods[f][i].uses : mods[f][i].uses[k] \in Paths
             /\ ToSet(mods[f][i].uses) = {mods[f][i].uses[k] : k \in DOMAIN mods[f][i].uses}
  <2> DEFINE us == mods[f][i].uses
  <2>1. us \in Seq(Paths)
    BY <1>2, <1>3
  <2> HIDE DEF us
  <2>2. DOMAIN us \subseteq Nat /\ (\A k \in DOMAIN us : us[k] \in Paths) /\ ToSet(us) = {us[k] : k \in DOMAIN us}
    BY <2>1, ElementsAre DEF ToSet
  <2> QED
    BY <2>2 DEF us
<1>4. Spots(mods[f]) \subseteq Nat \X Nat
  BY <1>1, <1>3 DEF Spots
<1>5. ASSUME NEW at \in Spots(mods[f])
      PROVE  UseAt(f, at) \in UsesOf(mods[f]) /\ UseAt(f, at) \in Paths
  <2>1. PICK i \in DOMAIN mods[f] : at \in {<<i, k>> : k \in DOMAIN mods[f][i].uses}
    BY <1>5 DEF Spots
  <2>2. PICK k \in DOMAIN mods[f][i].uses : at = <<i, k>>
    BY <2>1
  <2>3. UseAt(f, at) = mods[f][i].uses[k]
    BY <2>2 DEF UseAt
  <2> QED
    BY <1>3, <2>3 DEF UsesOf
<1>6. ASSUME NEW u \in UsesOf(mods[f])
      PROVE  \E at \in Spots(mods[f]) : u = UseAt(f, at)
  <2>1. PICK i \in DOMAIN mods[f] : u \in ToSet(mods[f][i].uses)
    BY <1>6 DEF UsesOf
  <2>2. PICK k \in DOMAIN mods[f][i].uses : u = mods[f][i].uses[k]
    BY <1>3, <2>1
  <2>3. <<i, k>> \in Spots(mods[f]) /\ u = UseAt(f, <<i, k>>)
    BY <2>2 DEF Spots, UseAt
  <2> QED
    BY <2>3
<1> QED
  BY <1>4, <1>5, <1>6

\* They are listed, module by module.
LEMMA SpotsListed ==
  ASSUME TypeInv, NEW f \in known
  PROVE  LET all == FlattenSeq([i \in DOMAIN mods[f] |-> [k \in DOMAIN mods[f][i].uses |-> <<i, k>>]])
         IN  all \in Seq(Nat \X Nat) /\ ToSet(all) = Spots(mods[f])
<1> DEFINE q == [i \in DOMAIN mods[f] |-> [k \in DOMAIN mods[f][i].uses |-> <<i, k>>]]
<1>1. mods[f] \in Seq(Module)
  BY DEF TypeInv, FileInv
<1>2. DOMAIN mods[f] = 1 .. Len(mods[f]) /\ Len(mods[f]) \in Nat
  BY <1>1
<1>3. ASSUME NEW i \in DOMAIN mods[f]
      PROVE  q[i] \in Seq(Nat \X Nat) /\ ToSet(q[i]) = {<<i, k>> : k \in DOMAIN mods[f][i].uses}
  <2> DEFINE us == mods[f][i].uses
             p == [k \in DOMAIN us |-> <<i, k>>]
  <2>1. us \in Seq(Paths) /\ i \in Nat
    <3>1. mods[f][i] \in Module
      BY <1>1, <1>3, ElementsAre
    <3> QED
      BY <1>2, <1>3, <3>1 DEF Module, ModuleOf
  <2> HIDE DEF us
  <2>2. DOMAIN us = 1 .. Len(us) /\ Len(us) \in Nat
    BY <2>1
  <2>3. p \in Seq(Nat \X Nat) /\ DOMAIN p = DOMAIN us /\ \A k \in DOMAIN us : p[k] = <<i, k>>
    BY <2>1, <2>2
  <2> HIDE DEF p
  <2>4. ToSet(p) = {<<i, k>> : k \in DOMAIN us}
    BY <2>3 DEF ToSet
  <2> QED
    BY <2>3, <2>4 DEF p, us
<1>4. DOMAIN q = DOMAIN mods[f]
  OBVIOUS
<1> HIDE DEF q
<1>5. q \in Seq(Seq(Nat \X Nat))
  <2>1. q \in [1 .. Len(mods[f]) -> Seq(Nat \X Nat)]
    <3>1. q = [i \in DOMAIN q |-> q[i]]
      BY DEF q
    <3> QED
      BY <1>2, <1>3, <1>4, <3>1
  <2> QED
    BY <1>2, <2>1
<1>6. FlattenSeq(q) \in Seq(Nat \X Nat) /\ ToSet(FlattenSeq(q)) = UNION {ToSet(q[i]) : i \in DOMAIN q}
  BY <1>5, FlattenElements, FlattenToSet
<1>7. UNION {ToSet(q[i]) : i \in DOMAIN q} = Spots(mods[f])
  BY <1>3, <1>4 DEF Spots
<1> QED
  BY <1>6, <1>7 DEF q

LEMMA RewritingsKeep ==
  ASSUME TypeInv, NEW f \in known, NEW G, Unwritten \in G,
         \A S \in SUBSET G : \A at \in Spots(mods[f]) :
             IsHome(UseAt(f, at)) => Rewriting(S, UseAt(f, at), at) \in SUBSET G
  PROVE  /\ Rewritings(f) \in SUBSET G
         /\ (\E u \in UsesOf(mods[f]) : IsHome(u)) =>
               \E S \in SUBSET G : \E at \in Spots(mods[f]) :
                   IsHome(UseAt(f, at)) /\ Rewritings(f) = Rewriting(S, UseAt(f, at), at)
<1> DEFINE all == FlattenSeq([i \in DOMAIN mods[f] |-> [k \in DOMAIN mods[f][i].uses |-> <<i, k>>]])
           homes == Those(all, {at \in ToSet(all) : IsHome(UseAt(f, at))})
           n == Len(homes)
           first == {[ok |-> TRUE, pkgs |-> pkgs, lost |-> {}]}
           T == SUBSET G
           H == {at \in Spots(mods[f]) : IsHome(UseAt(f, at))}
           R == [z \in T \X (1 .. n) |-> Rewriting(z[1], UseAt(f, homes[z[2]]), homes[z[2]])]
           Is(s) == s = [k \in 0 .. n |-> IF k = 0 THEN first
                                          ELSE Rewriting(s[k - 1], UseAt(f, homes[k]), homes[k])]
           loop == CHOOSE s : Is(s)
<1>1. Rewritings(f) = loop[n]
  BY DEF Rewritings
<1>2. homes \in Seq(Nat \X Nat) /\ n \in Nat /\ ToSet(homes) = H
  <2>1. all \in Seq(Nat \X Nat) /\ ToSet(all) = Spots(mods[f])
    BY SpotsListed
  <2> HIDE DEF all
  <2>2. homes \in Seq(Nat \X Nat) /\ ToSet(homes) = ToSet(all) \cap {at \in ToSet(all) : IsHome(UseAt(f, at))}
    BY <2>1, ThoseElements
  <2> HIDE DEF homes
  <2> QED
    BY <2>1, <2>2
<1> HIDE DEF homes
<1>3. \A k \in 1 .. n : homes[k] \in H
  BY <1>2 DEF ToSet
<1>12. H # {} => n >= 1
  BY <1>2 DEF ToSet
<1>14. (\E u \in UsesOf(mods[f]) : IsHome(u)) => H # {}
  BY SpotFacts
<1> HIDE DEF n
<1>4. first \in T
  BY DEF Unwritten
<1>5. \A x \in T : \A k \in 1 .. n : Rewriting(x, UseAt(f, homes[k]), homes[k]) \in T
  BY <1>3
<1> HIDE DEF first, T
<1>6. PICK g : Loops(g, T, n, first, R)
  <2>1. R \in [T \X (1 .. n) -> T]
    BY <1>5
  <2> HIDE DEF R
  <2> QED
    BY <1>2, <1>4, <2>1, LoopExists
<1>7. Is(g)
  <2>1. ASSUME NEW k \in 0 .. n
        PROVE  g[k] = IF k = 0 THEN first ELSE Rewriting(g[k - 1], UseAt(f, homes[k]), homes[k])
    <3>1. CASE k = 0
      BY <1>6, <3>1 DEF Loops
    <3>2. CASE k # 0
      <4>1. k \in 1 .. n /\ g[k - 1] \in T
        BY <1>2, <1>6, <3>2 DEF Loops
      <4> QED
        BY <1>6, <3>2, <4>1 DEF Loops
    <3> QED
      BY <3>1, <3>2
  <2> QED
    BY <1>6, <2>1 DEF Loops
<1> HIDE DEF R
<1>8. Is(loop)
  <2>1. \E s : Is(s)
    BY <1>7
  <2> HIDE DEF Is
  <2> QED
    BY <2>1
<1> HIDE DEF loop
<1>15. \A k \in 0 .. n : loop[k] = IF k = 0 THEN first ELSE Rewriting(loop[k - 1], UseAt(f, homes[k]), homes[k])
  BY <1>8
<1>9. loop[0] \in T /\ \A k \in 1 .. n : loop[k - 1] \in T => loop[k] \in T
  <2>1. 0 \in 0 .. n /\ \A k \in 1 .. n : k \in 0 .. n /\ k # 0
    BY <1>2
  <2>2. loop[0] = first
    BY <1>15, <2>1
  <2>3. ASSUME NEW k \in 1 .. n, loop[k - 1] \in T
        PROVE  loop[k] \in T
    <3>1. loop[k] = Rewriting(loop[k - 1], UseAt(f, homes[k]), homes[k])
      BY <1>15, <2>1
    <3> QED
      BY <1>5, <2>3, <3>1
  <2> QED
    BY <1>4, <2>2, <2>3
<1>10. \A k \in 0 .. n : loop[k] \in T
  BY <1>2, <1>9, LoopStays
<1>11. n \in 0 .. n
  BY <1>2
<1>13. ASSUME H # {}
       PROVE  \E S \in SUBSET G : \E at \in H : Rewritings(f) = Rewriting(S, UseAt(f, at), at)
  <2>1. n \in 1 .. n /\ n - 1 \in 0 .. n /\ n # 0
    BY <1>2, <1>12, <1>13
  <2>2. loop[n] = Rewriting(loop[n - 1], UseAt(f, homes[n]), homes[n])
    BY <1>8, <1>11, <2>1
  <2>3. loop[n - 1] \in SUBSET G /\ homes[n] \in H
    BY <1>3, <1>10, <2>1 DEF T
  <2> QED
    BY <1>1, <2>2, <2>3
<1> QED
  BY <1>1, <1>10, <1>11, <1>13, <1>14 DEF T

LEMMA RewritingsTypes ==
  ASSUME TypeInv, NEW f \in known
  PROVE  Rewritings(f) \in SUBSET Outcomes
<1>1. Unwritten \in Outcomes
  BY DEF Unwritten, Outcomes, PkgStates, TypeInv, PkgInv
<1>2. \A S \in SUBSET Outcomes : \A at \in Spots(mods[f]) : Rewriting(S, UseAt(f, at), at) \in SUBSET Outcomes
  BY SpotFacts, RewritingTypes
<1> QED
  BY <1>1, <1>2, RewritingsKeep

MapsOf(U) == [known -> Seq(ModuleOf(U))]
Maps == MapsOf(Paths)

\* The uses of a set stay in it when they are joined to the directory of a file of it.
Closed(U) ==
    U \subseteq Paths /\ \A d \in known \cap U : \A x \in U : Join(Dir(d), x) \in U

LEMMA PathsClosed ==
  ASSUME TypeInv
  PROVE  Closed(Paths)
<1> SUFFICES ASSUME NEW d \in known, NEW x \in Paths PROVE Join(Dir(d), x) \in Paths
  BY DEF Closed
<1>1. Dir(d) \in Paths
  BY FileFacts, PathParts DEF TypeInv, FileInv
<1> QED
  BY <1>1, Joined

\* A link leaves as many modules in every file, and the uses in every closed set.
LEMMA LinkUseTypes ==
  ASSUME TypeInv, NEW U, Closed(U), NEW f \in known, NEW s \in MapsOf(U),
         NEW i \in 1 .. Len(s[f]), NEW k \in 1 .. Len(s[f][i].uses)
  PROVE  /\ LinkUse(f, i, s, k) \in MapsOf(U)
         /\ Len(LinkUse(f, i, s, k)[f]) = Len(s[f])
         /\ Len(LinkUse(f, i, s, k)[f][i].uses) = Len(s[f][i].uses)
<1> DEFINE u == s[f][i].uses[k]
           m == Rebased(s[u], Dir(u))
           t == [s EXCEPT ![u] = m]
           r == [t EXCEPT ![f][i].children = Append(@, u)]
<1>0. LinkUse(f, i, s, k) = IF u \notin known THEN s ELSE r
  BY DEF LinkUse
<1>3. u \in U
  <2>1. s[f] \in Seq(ModuleOf(U)) /\ i \in DOMAIN s[f]
    BY DEF MapsOf
  <2>2. s[f][i] \in ModuleOf(U)
    BY <2>1
  <2>3. s[f][i].uses \in Seq(U)
    BY <2>2 DEF ModuleOf
  <2> QED
    BY <2>3
<1> HIDE DEF u
<1>1. CASE u \notin known
  BY <1>0, <1>1
<1>2. CASE u \in known
  <2>1. \A x \in U : Join(Dir(u), x) \in U
    BY <1>2, <1>3 DEF Closed
  <2>2. s[u] \in Seq(ModuleOf(U)) /\ s[f] \in Seq(ModuleOf(U))
    BY <1>2 DEF MapsOf
  <2>3. ASSUME NEW x \in ModuleOf(U)
        PROVE  LET y == [x EXCEPT !.uses = [n \in DOMAIN @ |-> Join(Dir(u), @[n])]]
               IN  y \in ModuleOf(U) /\ Len(y.uses) = Len(x.uses)
    <3> DEFINE us == x.uses
               ws == [n \in DOMAIN us |-> Join(Dir(u), us[n])]
    <3>1. us \in Seq(U) /\ DOMAIN us = 1 .. Len(us) /\ Len(us) \in Nat
      BY DEF ModuleOf
    <3> HIDE DEF us
    <3>2. \A n \in 1 .. Len(us) : Join(Dir(u), us[n]) \in U
      BY <2>1, <3>1
    <3>3. ws \in Seq(U) /\ Len(ws) = Len(us)
      BY <3>1, <3>2
    <3> HIDE DEF ws
    <3>4. [x EXCEPT !.uses = ws] \in ModuleOf(U) /\ [x EXCEPT !.uses = ws].uses = ws
      BY <3>3 DEF ModuleOf
    <3> QED
      BY <3>3, <3>4 DEF us, ws
  <2>4. /\ m \in Seq(ModuleOf(U)) /\ Len(m) = Len(s[u])
        /\ \A j \in DOMAIN s[u] : Len(m[j].uses) = Len(s[u][j].uses)
    <3>1. \A j \in DOMAIN s[u] : s[u][j] \in ModuleOf(U)
      BY <2>2, ElementsAre
    <3>2. DOMAIN s[u] = 1 .. Len(s[u]) /\ Len(s[u]) \in Nat
      BY <2>2
    <3>3. \A j \in DOMAIN s[u] : m[j] \in ModuleOf(U) /\ Len(m[j].uses) = Len(s[u][j].uses)
      BY <2>3, <3>1 DEF Rebased
    <3>4. m \in [DOMAIN s[u] -> ModuleOf(U)]
      BY <3>3 DEF Rebased
    <3> HIDE DEF m
    <3> QED
      BY <3>2, <3>3, <3>4
  <2> HIDE DEF m
  <2>5. /\ t \in MapsOf(U) /\ t[f] \in Seq(ModuleOf(U)) /\ Len(t[f]) = Len(s[f])
        /\ Len(t[f][i].uses) = Len(s[f][i].uses)
    <3>1. t \in MapsOf(U) /\ t[f] = IF f = u THEN m ELSE s[f]
      BY <1>2, <2>2, <2>4 DEF MapsOf
    <3>2. i \in DOMAIN s[f]
      BY <2>2
    <3> QED
      BY <2>2, <2>4, <3>1, <3>2
  <2> HIDE DEF t
  <2> DEFINE y == [t[f][i] EXCEPT !.children = Append(@, u)]
             l == [t[f] EXCEPT ![i] = y]
  <2>6. i \in DOMAIN t[f] /\ t[f][i] \in ModuleOf(U)
    BY <2>2, <2>5
  <2>7. y \in ModuleOf(U) /\ y.uses = t[f][i].uses
    <3>1. Append(t[f][i].children, u) \in Seq(known)
      BY <1>2, <2>6 DEF ModuleOf
    <3> QED
      BY <2>6, <3>1 DEF ModuleOf
  <2>8. r = [t EXCEPT ![f] = l]
    OBVIOUS
  <2> HIDE DEF y, r
  <2>9. l \in Seq(ModuleOf(U)) /\ Len(l) = Len(t[f]) /\ l[i] = y
    BY <2>5, <2>6, <2>7
  <2> HIDE DEF l
  <2>10. r \in MapsOf(U) /\ Len(r[f]) = Len(s[f]) /\ r[f] = l
    BY <2>5, <2>8, <2>9 DEF MapsOf
  <2> QED
    BY <1>0, <1>2, <2>5, <2>7, <2>9, <2>10
<1> QED
  BY <1>1, <1>2

\* The uses of a module are linked one after the other.
LEMMA LinkModuleLoop ==
  ASSUME TypeInv, NEW U, Closed(U), NEW f \in known, NEW s \in MapsOf(U), NEW i \in 1 .. Len(s[f])
  PROVE  LET n == Len(s[f][i].uses)
         IN  /\ n \in Nat
             /\ \E t : /\ t[0] = s /\ t[n] = LinkModule(f, s, i)
                       /\ \A k \in 1 .. n : t[k] = LinkUse(f, i, t[k - 1], k)
                       /\ \A k \in 0 .. n : t[k] \in MapsOf(U) /\ Len(t[k][f]) = Len(s[f])
<1> DEFINE n == Len(s[f][i].uses)
           T == {t \in MapsOf(U) : Len(t[f]) = Len(s[f]) /\ Len(t[f][i].uses) = n}
           R == [z \in T \X (1 .. n) |-> LinkUse(f, i, z[1], z[2])]
           Is(t) == t = [k \in 0 .. n |-> IF k = 0 THEN s ELSE LinkUse(f, i, t[k - 1], k)]
           loop == CHOOSE t : Is(t)
<1>1. LinkModule(f, s, i) = loop[n]
  BY DEF LinkModule
<1>2. n \in Nat
  <2>1. s[f] \in Seq(ModuleOf(U)) /\ i \in DOMAIN s[f]
    BY DEF MapsOf
  <2>2. s[f][i] \in ModuleOf(U)
    BY <2>1
  <2> QED
    BY <2>2 DEF ModuleOf
<1>3. s \in T
  OBVIOUS
<1> HIDE DEF n
<1>4. \A t \in T : \A k \in 1 .. n : LinkUse(f, i, t, k) \in T
  <2> SUFFICES ASSUME NEW t \in T, NEW k \in 1 .. n PROVE LinkUse(f, i, t, k) \in T
    OBVIOUS
  <2>1. t \in MapsOf(U) /\ Len(t[f]) = Len(s[f]) /\ i \in 1 .. Len(t[f]) /\ Len(t[f][i].uses) = n
    OBVIOUS
  <2>2. /\ LinkUse(f, i, t, k) \in MapsOf(U) /\ Len(LinkUse(f, i, t, k)[f]) = Len(t[f])
        /\ Len(LinkUse(f, i, t, k)[f][i].uses) = Len(t[f][i].uses)
    BY <2>1, LinkUseTypes
  <2> QED
    BY <2>1, <2>2
<1>5. \A t \in T : t \in MapsOf(U) /\ Len(t[f]) = Len(s[f])
  OBVIOUS
<1> HIDE DEF T
<1>6. PICK g : Loops(g, T, n, s, R)
  <2>1. R \in [T \X (1 .. n) -> T]
    BY <1>4
  <2> HIDE DEF R
  <2> QED
    BY <1>2, <1>3, <2>1, LoopExists
<1>7. Is(g)
  <2>1. ASSUME NEW k \in 0 .. n
        PROVE  g[k] = IF k = 0 THEN s ELSE LinkUse(f, i, g[k - 1], k)
    <3>1. CASE k = 0
      BY <1>6, <3>1 DEF Loops
    <3>2. CASE k # 0
      <4>1. k \in 1 .. n /\ g[k - 1] \in T
        BY <1>2, <1>6, <3>2 DEF Loops
      <4> QED
        BY <1>6, <3>2, <4>1 DEF Loops
    <3> QED
      BY <3>1, <3>2
  <2> QED
    BY <1>6, <2>1 DEF Loops
<1> HIDE DEF R
<1>8. Is(loop)
  <2>1. \E t : Is(t)
    BY <1>7
  <2> HIDE DEF Is
  <2> QED
    BY <2>1
<1> HIDE DEF loop
<1>9. \A k \in 0 .. n : loop[k] = IF k = 0 THEN s ELSE LinkUse(f, i, loop[k - 1], k)
  BY <1>8
<1>10. loop[0] = s /\ \A k \in 1 .. n : loop[k] = LinkUse(f, i, loop[k - 1], k)
  <2>1. 0 \in 0 .. n /\ \A k \in 1 .. n : k \in 0 .. n /\ k # 0
    BY <1>2
  <2> QED
    BY <1>9, <2>1
<1>11. \A k \in 1 .. n : loop[k - 1] \in T => loop[k] \in T
  BY <1>4, <1>10
<1>12. \A k \in 0 .. n : loop[k] \in T
  BY <1>2, <1>3, <1>10, <1>11, LoopStays
<1>13. \A k \in 0 .. n : loop[k] \in MapsOf(U) /\ Len(loop[k][f]) = Len(s[f])
  BY <1>5, <1>12
<1> QED
  BY <1>1, <1>2, <1>10, <1>13 DEF n

LEMMA LinkModuleTypes ==
  ASSUME TypeInv, NEW U, Closed(U), NEW f \in known, NEW s \in MapsOf(U), NEW i \in 1 .. Len(s[f])
  PROVE  LinkModule(f, s, i) \in MapsOf(U) /\ Len(LinkModule(f, s, i)[f]) = Len(s[f])
BY LinkModuleLoop

\* And so are the modules of a file.
LEMMA LinkModulesLoop ==
  ASSUME TypeInv, NEW U, Closed(U), mods \in MapsOf(U), NEW f \in known, NEW m \in Seq(ModuleOf(U))
  PROVE  LET n == Len(m)
         IN  /\ n \in Nat
             /\ \E t : /\ t[0] = [mods EXCEPT ![f] = m] /\ t[n] = LinkModules(f, m)
                       /\ \A i \in 1 .. n : t[i] = LinkModule(f, t[i - 1], i)
                       /\ \A i \in 0 .. n : t[i] \in MapsOf(U) /\ Len(t[i][f]) = n
<1> DEFINE n == Len(m)
           first == [mods EXCEPT ![f] = m]
           T == {t \in MapsOf(U) : Len(t[f]) = n}
           R == [z \in T \X (1 .. n) |-> LinkModule(f, z[1], z[2])]
           Is(t) == t = [i \in 0 .. n |-> IF i = 0 THEN first ELSE LinkModule(f, t[i - 1], i)]
           loop == CHOOSE t : Is(t)
<1>1. LinkModules(f, m) = loop[n]
  BY DEF LinkModules
<1>2. n \in Nat
  OBVIOUS
<1>3. first \in T
  BY DEF MapsOf
<1> HIDE DEF n, first
<1>4. \A t \in T : \A i \in 1 .. n : LinkModule(f, t, i) \in T
  <2> SUFFICES ASSUME NEW t \in T, NEW i \in 1 .. n PROVE LinkModule(f, t, i) \in T
    OBVIOUS
  <2>1. t \in MapsOf(U) /\ Len(t[f]) = n /\ i \in 1 .. Len(t[f])
    OBVIOUS
  <2>2. LinkModule(f, t, i) \in MapsOf(U) /\ Len(LinkModule(f, t, i)[f]) = Len(t[f])
    BY <2>1, LinkModuleTypes
  <2> QED
    BY <2>1, <2>2
<1>5. \A t \in T : t \in MapsOf(U) /\ Len(t[f]) = n
  OBVIOUS
<1> HIDE DEF T
<1>6. PICK g : Loops(g, T, n, first, R)
  <2>1. R \in [T \X (1 .. n) -> T]
    BY <1>4
  <2> HIDE DEF R
  <2> QED
    BY <1>2, <1>3, <2>1, LoopExists
<1>7. Is(g)
  <2>1. ASSUME NEW i \in 0 .. n
        PROVE  g[i] = IF i = 0 THEN first ELSE LinkModule(f, g[i - 1], i)
    <3>1. CASE i = 0
      BY <1>6, <3>1 DEF Loops
    <3>2. CASE i # 0
      <4>1. i \in 1 .. n /\ g[i - 1] \in T
        BY <1>2, <1>6, <3>2 DEF Loops
      <4> QED
        BY <1>6, <3>2, <4>1 DEF Loops
    <3> QED
      BY <3>1, <3>2
  <2> QED
    BY <1>6, <2>1 DEF Loops
<1> HIDE DEF R
<1>8. Is(loop)
  <2>1. \E t : Is(t)
    BY <1>7
  <2> HIDE DEF Is
  <2> QED
    BY <2>1
<1> HIDE DEF loop
<1>9. \A i \in 0 .. n : loop[i] = IF i = 0 THEN first ELSE LinkModule(f, loop[i - 1], i)
  BY <1>8
<1>10. loop[0] = first /\ \A i \in 1 .. n : loop[i] = LinkModule(f, loop[i - 1], i)
  <2>1. 0 \in 0 .. n /\ \A i \in 1 .. n : i \in 0 .. n /\ i # 0
    BY <1>2
  <2> QED
    BY <1>9, <2>1
<1>11. \A i \in 1 .. n : loop[i - 1] \in T => loop[i] \in T
  BY <1>4, <1>10
<1>12. \A i \in 0 .. n : loop[i] \in T
  BY <1>2, <1>3, <1>10, <1>11, LoopStays
<1>13. \A i \in 0 .. n : loop[i] \in MapsOf(U) /\ Len(loop[i][f]) = n
  BY <1>5, <1>12
<1> QED
  BY <1>1, <1>2, <1>10, <1>13 DEF n, first

LEMMA LinkModulesTypes ==
  ASSUME TypeInv, NEW U, Closed(U), mods \in MapsOf(U), NEW f \in known, NEW m \in Seq(ModuleOf(U))
  PROVE  LinkModules(f, m) \in MapsOf(U)
<1>1. Len(m) \in Nat /\ Len(m) \in 0 .. Len(m)
  OBVIOUS
<1>2. PICK t : t[Len(m)] = LinkModules(f, m) /\ \A i \in 0 .. Len(m) : t[i] \in MapsOf(U)
  BY LinkModulesLoop
<1> QED
  BY <1>1, <1>2

LEMMA RewrittenPath ==
  ASSUME NEW u \in Paths, NEW lost
  PROVE  Rewritten(u, lost) \in Paths
<1>1. <<"/">> \in Paths
  BY DEF Paths, Words
<1>2. Rest(u, 2) \in Paths /\ (IsHome(u) => InHome(u) \in Paths)
  BY PathParts
<1>3. <<"/">> \o Rest(u, 2) \in Paths
  BY <1>1, <1>2 DEF Paths
<1> QED
  BY <1>2, <1>3 DEF Rewritten

\* The modules of a file whose uses are rewritten, those at the positions lost in vain.
Relinked(f, lost) ==
    [i \in DOMAIN mods[f] |->
        [mods[f][i] EXCEPT !.uses = [k \in DOMAIN @ |-> Rewritten(@[k], <<i, k>> \in lost)]]]

LEMMA RelinkedTypes ==
  ASSUME TypeInv, NEW f \in known, NEW lost
  PROVE  /\ Relinked(f, lost) \in Seq(Module) /\ DOMAIN Relinked(f, lost) = DOMAIN mods[f]
         /\ \A i \in DOMAIN mods[f] : LET m == Relinked(f, lost)[i]
               IN  /\ m.name = mods[f][i].name /\ m.children = mods[f][i].children
                   /\ DOMAIN m.uses = DOMAIN mods[f][i].uses
                   /\ \A k \in DOMAIN m.uses : m.uses[k] = Rewritten(mods[f][i].uses[k], <<i, k>> \in lost)
<1> DEFINE m == Relinked(f, lost)
<1>1. mods[f] \in Seq(Module) /\ DOMAIN mods[f] = 1 .. Len(mods[f]) /\ Len(mods[f]) \in Nat
  <2>1. mods[f] \in Seq(Module)
    BY DEF TypeInv, FileInv
  <2> QED
    BY <2>1
<1>2. ASSUME NEW i \in DOMAIN mods[f]
      PROVE  /\ m[i] \in Module
             /\ m[i].name = mods[f][i].name /\ m[i].children = mods[f][i].children
             /\ DOMAIN m[i].uses = DOMAIN mods[f][i].uses
             /\ \A k \in DOMAIN m[i].uses : m[i].uses[k] = Rewritten(mods[f][i].uses[k], <<i, k>> \in lost)
  <2> DEFINE x == mods[f][i]
             us == x.uses
             ws == [k \in DOMAIN us |-> Rewritten(us[k], <<i, k>> \in lost)]
  <2>1. x \in Module
    BY <1>1, ElementsAre
  <2>2. m[i] = [x EXCEPT !.uses = ws]
    BY DEF Relinked
  <2> HIDE DEF x, m
  <2>3. us \in Seq(Paths)
    BY <2>1 DEF Module, ModuleOf
  <2> HIDE DEF us
  <2>4. \A k \in DOMAIN us : Rewritten(us[k], <<i, k>> \in lost) \in Paths
    BY <2>3, RewrittenPath
  <2>5. DOMAIN us = 1 .. Len(us) /\ Len(us) \in Nat
    BY <2>3
  <2>6. ws \in Seq(Paths) /\ DOMAIN ws = DOMAIN us /\ \A k \in DOMAIN us : ws[k] = Rewritten(us[k], <<i, k>> \in lost)
    BY <2>4, <2>5
  <2> HIDE DEF ws
  <2>7. /\ [x EXCEPT !.uses = ws] \in Module /\ [x EXCEPT !.uses = ws].uses = ws
        /\ [x EXCEPT !.uses = ws].name = x.name /\ [x EXCEPT !.uses = ws].children = x.children
    BY <2>1, <2>6 DEF Module, ModuleOf
  <2> QED
    BY <2>2, <2>6, <2>7 DEF us, x
<1>3. DOMAIN m = DOMAIN mods[f] /\ m = [i \in DOMAIN mods[f] |-> m[i]]
  BY DEF Relinked
<1> HIDE DEF m
<1>4. m \in Seq(Module)
  <2>1. m \in [DOMAIN mods[f] -> Module]
    BY <1>2, <1>3
  <2> QED
    BY <1>1, <2>1
<1> QED
  BY <1>2, <1>3, <1>4 DEF m

LEMMA LinkTypes ==
  ASSUME TypeInv, NEW f \in todo, LinkFile(f)
  PROVE  TypeInv' /\ known' = known
<1>1. f \in known /\ mods \in Maps
  BY DEF TypeInv, FileInv, Maps, MapsOf, Module
<1>2. PICK r \in Rewritings(f) :
         /\ pkgs' = r.pkgs
         /\ IF r.ok
            THEN /\ mods' = LinkModules(f, Relinked(f, r.lost))
                 /\ used' = used \cup LinkedFrom(f, LinkModules(f, Relinked(f, r.lost)))
                 /\ todo' = todo \ {f}
                 /\ UNCHANGED mpc
            ELSE mpc' = "refused" /\ UNCHANGED <<mods, used, todo>>
  BY DEF LinkFile, Relinked
<1>3. UNCHANGED <<files, stack, base, walk, cycle, loaded, rules>> /\ mpc = "uses"
  BY DEF LinkFile
<1>4. PkgInv'
  <2>1. r \in Outcomes
    BY <1>1, RewritingsTypes
  <2> QED
    BY <1>2, <2>1 DEF Outcomes, PkgStates, PkgInv
<1>5. /\ known' = known /\ mods' \in Maps /\ used' \subseteq known /\ todo' \subseteq known
      /\ mpc' \in {"uses", "refused"}
  <2>1. CASE r.ok
    <3>1. Relinked(f, r.lost) \in Seq(Module)
      BY <1>1, RelinkedTypes
    <3>2. LinkModules(f, Relinked(f, r.lost)) \in Maps
      BY <1>1, <3>1, LinkModulesTypes, PathsClosed DEF Module, Maps
    <3>3. mods' \in Maps /\ known' = known
      BY <1>2, <2>1, <3>2 DEF Maps, MapsOf, known
    <3>4. LinkedFrom(f, mods') \subseteq known
      <4>1. \A i \in DOMAIN mods'[f] : mods'[f][i].children \in Seq(known)
        <5>1. mods'[f] \in Seq(Module)
          BY <1>1, <3>3 DEF Maps, MapsOf, Module
        <5>2. \A i \in DOMAIN mods'[f] : mods'[f][i] \in Module
          BY <5>1, ElementsAre
        <5> QED
          BY <5>2 DEF Module, ModuleOf
      <4>2. \A i \in DOMAIN mods'[f] : ToSet(mods'[f][i].children) \subseteq known
        BY <4>1 DEF ToSet
      <4> QED
        BY <4>2 DEF LinkedFrom
    <3> QED
      BY <1>2, <1>3, <2>1, <3>3, <3>4 DEF TypeInv, FileInv
  <2>2. CASE ~r.ok
    BY <1>1, <1>2, <2>2 DEF TypeInv, FileInv, known
  <2> QED
    BY <2>1, <2>2
<1>6. FileInv'
  BY <1>3, <1>5 DEF TypeInv, FileInv, Module, ModuleOf, Maps, MapsOf
<1>7. ListInv'
  BY <1>3, <1>5 DEF TypeInv, ListInv, Turns
<1>8. PlaceInv'
  BY <1>3, <1>5 DEF TypeInv, PlaceInv, Reads
<1> QED
  BY <1>4, <1>5, <1>6, <1>7, <1>8 DEF TypeInv

\* The modules that are listed for a file, however deep its links go.
Below(m, d) == IF d = 0 THEN <<>>
               ELSE FlattenSeq([k \in DOMAIN m.children |-> Under(m.name, DeepFmt[d - 1][m.children[k]])])
Bare(m) == [name |-> m.name, uses |-> Those(m.uses, ToSet(m.uses) \ used)]

LEMMA UnderTypes ==
  ASSUME NEW U, NEW user \in Seq(STRING), NEW l \in Seq(FlatOf(U))
  PROVE  /\ Under(user, l) \in Seq(FlatOf(U))
         /\ Len(Under(user, l)) = Len(l) /\ DOMAIN Under(user, l) = DOMAIN l
         /\ \A j \in DOMAIN l : Under(user, l)[j] = [name |-> user \o l[j].name, uses |-> l[j].uses]
<1> DEFINE y == [j \in DOMAIN l |-> [l[j] EXCEPT !.name = user \o @]]
<1>1. DOMAIN l = 1 .. Len(l) /\ Len(l) \in Nat
  OBVIOUS
<1>2. ASSUME NEW j \in DOMAIN l
      PROVE  /\ [l[j] EXCEPT !.name = user \o @] \in FlatOf(U)
             /\ [l[j] EXCEPT !.name = user \o @] = [name |-> user \o l[j].name, uses |-> l[j].uses]
  <2>1. l[j] \in FlatOf(U)
    OBVIOUS
  <2>2. user \o l[j].name \in Seq(STRING)
    BY <2>1 DEF FlatOf
  <2>3. l[j] = [name |-> l[j].name, uses |-> l[j].uses] /\ l[j].uses \in Seq(U)
    BY <2>1 DEF FlatOf
  <2>4. [l[j] EXCEPT !.name = user \o @] = [name |-> user \o l[j].name, uses |-> l[j].uses]
    <3> DEFINE x == l[j]
               n == user \o x.name
    <3>1. x = [name |-> x.name, uses |-> x.uses] /\ [x EXCEPT !.name = user \o @] = [x EXCEPT !.name = n]
      BY <2>3
    <3> HIDE DEF n, x
    <3>2. [x EXCEPT !.name = n] = [name |-> n, uses |-> x.uses]
      BY <3>1
    <3> QED
      BY <3>1, <3>2 DEF n, x
  <2> QED
    BY <2>2, <2>3, <2>4 DEF FlatOf
<1>3. y \in [DOMAIN l -> FlatOf(U)] /\ \A j \in DOMAIN l : y[j] = [name |-> user \o l[j].name, uses |-> l[j].uses]
  BY <1>2
<1> HIDE DEF y
<1>4. y \in Seq(FlatOf(U)) /\ DOMAIN y = DOMAIN l
  BY <1>1, <1>3
<1>5. DOMAIN y = 1 .. Len(y) /\ Len(y) \in Nat
  BY <1>4
<1>6. Len(y) = Len(l)
  BY <1>1, <1>4, <1>5
<1>7. Under(user, l) = y
  BY DEF Under, y
<1> QED
  BY <1>3, <1>4, <1>6, <1>7

LEMMA DeepFmtTypes ==
  ASSUME TypeInv, NEW U, mods \in MapsOf(U)
  PROVE  /\ Cardinality(known) \in Nat
         /\ \A d \in 0 .. Cardinality(known) : \A f \in known :
               /\ DeepFmt[d][f] \in Seq(FlatOf(U))
               /\ DeepFmt[d][f] = FlattenSeq([i \in DOMAIN mods[f] |->
                                      Append(Below(mods[f][i], d), Bare(mods[f][i]))])
<1> DEFINE n == Cardinality(known)
           T == [known -> Seq(FlatOf(U))]
           below(m, d, x) == IF d = 0 THEN <<>>
                             ELSE FlattenSeq([k \in DOMAIN m.children |-> Under(m.name, x[m.children[k]])])
           own(m) == [name |-> m.name, uses |-> Those(m.uses, ToSet(m.uses) \ used)]
           Body(d, x) == [f \in known |->
                             FlattenSeq([i \in DOMAIN mods[f] |->
                                 Append(below(mods[f][i], d, x), own(mods[f][i]))])]
           Is(s) == s = [d \in 0 .. n |-> Body(d, s[d - 1])]
<1>1. DeepFmt = CHOOSE s : Is(s)
  BY DEF DeepFmt
<1>2. n \in Nat
  BY FileFacts, FS_Subset, FS_CardinalityType DEF TypeInv, FileInv
<1>3. ASSUME NEW d, NEW x, d = 0 \/ x \in T
      PROVE  Body(d, x) \in T
  <2>1. ASSUME NEW f \in known
        PROVE  FlattenSeq([i \in DOMAIN mods[f] |->
                               Append(below(mods[f][i], d, x), own(mods[f][i]))]) \in Seq(FlatOf(U))
    <3> DEFINE q == [i \in DOMAIN mods[f] |-> Append(below(mods[f][i], d, x), own(mods[f][i]))]
    <3>1. ASSUME NEW m \in ModuleOf(U)
          PROVE  Append(below(m, d, x), own(m)) \in Seq(FlatOf(U))
      <4>1. own(m) \in FlatOf(U)
        <5>1. Those(m.uses, ToSet(m.uses) \ used) \in Seq(U)
          BY ThoseElements DEF ModuleOf
        <5> QED
          BY <5>1 DEF ModuleOf, FlatOf
      <4>2. below(m, d, x) \in Seq(FlatOf(U))
        <5>1. CASE d = 0
          BY <5>1
        <5>2. CASE d # 0
          <6> DEFINE c == m.children
                     p == [k \in DOMAIN c |-> Under(m.name, x[c[k]])]
          <6>1. c \in Seq(known) /\ m.name \in Seq(STRING) /\ x \in T
            BY <1>3, <5>2 DEF ModuleOf
          <6> HIDE DEF c
          <6>2. ASSUME NEW k \in DOMAIN c
                PROVE  Under(m.name, x[c[k]]) \in Seq(FlatOf(U))
            <7> DEFINE l == x[c[k]]
                       a == m.name
            <7>1. l \in Seq(FlatOf(U)) /\ a \in Seq(STRING)
              BY <6>1
            <7> HIDE DEF l, a
            <7>2. Under(a, l) \in Seq(FlatOf(U))
              BY <7>1, UnderTypes
            <7> QED
              BY <7>2 DEF l, a
          <6>3. DOMAIN c = 1 .. Len(c) /\ Len(c) \in Nat
            BY <6>1
          <6>4. p \in Seq(Seq(FlatOf(U)))
            BY <6>2, <6>3
          <6> HIDE DEF p
          <6>5. FlattenSeq(p) \in Seq(FlatOf(U))
            BY <6>4, FlattenElements
          <6> QED
            BY <5>2, <6>5 DEF p, c
        <5> QED
          BY <5>1, <5>2
      <4> HIDE DEF own, below
      <4> QED
        BY <4>1, <4>2
    <3>2. mods[f] \in Seq(ModuleOf(U))
      BY DEF MapsOf
    <3>3. \A i \in DOMAIN mods[f] : mods[f][i] \in ModuleOf(U)
      BY <3>2, ElementsAre
    <3>4. DOMAIN mods[f] = 1 .. Len(mods[f]) /\ Len(mods[f]) \in Nat
      BY <3>2
    <3> HIDE DEF own, below
    <3>5. q \in Seq(Seq(FlatOf(U)))
      BY <3>1, <3>3, <3>4
    <3> HIDE DEF q
    <3>6. FlattenSeq(q) \in Seq(FlatOf(U))
      BY <3>5, FlattenElements
    <3> QED
      BY <3>6 DEF q
  <2> HIDE DEF own, below
  <2> QED
    BY <2>1
<1> HIDE DEF n, T
<1> DEFINE first == Body(0, <<>>)
           R == [z \in T \X (1 .. n) |-> Body(z[2], z[1])]
<1>4. first \in T
  BY <1>3
<1>5. \A x : Body(0, x) = first
  OBVIOUS
<1> HIDE DEF Body, first
<1>6. PICK g : Loops(g, T, n, first, R)
  <2>1. R \in [T \X (1 .. n) -> T]
    BY <1>3
  <2> HIDE DEF R
  <2> QED
    BY <1>2, <1>4, <2>1, LoopExists
<1>7. Is(g)
  <2>1. ASSUME NEW d \in 0 .. n
        PROVE  g[d] = Body(d, g[d - 1])
    <3>1. CASE d = 0
      BY <1>5, <1>6, <3>1 DEF Loops
    <3>2. CASE d # 0
      <4>1. d \in 1 .. n /\ g[d - 1] \in T
        BY <1>2, <1>6, <3>2 DEF Loops
      <4> QED
        BY <1>6, <3>2, <4>1 DEF Loops
    <3> QED
      BY <3>1, <3>2
  <2>2. g = [d \in 0 .. n |-> g[d]]
    BY <1>6 DEF Loops
  <2> QED
    BY <2>1, <2>2
<1> HIDE DEF R
<1> DEFINE loop == DeepFmt
<1>8. Is(loop)
  <2>1. \E s : Is(s)
    BY <1>7
  <2> HIDE DEF Is
  <2> QED
    BY <1>1, <2>1
<1> HIDE DEF loop
<1>9. loop[0] \in T /\ \A d \in 1 .. n : loop[d - 1] \in T => loop[d] \in T
  <2>1. \A d \in 0 .. n : loop[d] = Body(d, loop[d - 1])
    BY <1>8
  <2>2. 0 \in 0 .. n /\ \A d \in 1 .. n : d \in 0 .. n
    BY <1>2
  <2> QED
    BY <1>3, <2>1, <2>2
<1>10. \A d \in 0 .. n : loop[d] \in T
  BY <1>2, <1>9, LoopStays
<1>11. \A d \in 0 .. n : DeepFmt[d] = Body(d, DeepFmt[d - 1])
  BY <1>8 DEF loop
<1>12. \A d \in 0 .. n : \A f \in known :
          DeepFmt[d][f] = FlattenSeq([i \in DOMAIN mods[f] |->
                              Append(Below(mods[f][i], d), Bare(mods[f][i]))])
  BY <1>11 DEF Body, Below, Bare
<1>13. \A d \in 0 .. n : \A f \in known : DeepFmt[d][f] \in Seq(FlatOf(U))
  BY <1>10 DEF T, loop
<1> QED
  BY <1>2, <1>12, <1>13 DEF n

\* What is loaded uses nothing that the modules do not use.
LEMMA FlattenedUses ==
  ASSUME TypeInv, NEW U, mods \in MapsOf(U), Flatten, mpc' = "load"
  PROVE  loaded' \in Seq(FlatOf(U))
<1> DEFINE roots == SetToSeq(Roots)
           q == [i \in DOMAIN roots |-> DeepFmt[Cardinality(known)][roots[i]]]
<1>1. loaded' = FlattenSeq(q)
  BY DEF Flatten
<1>2. roots \in Seq(known)
  <2>1. Roots \subseteq known /\ IsFiniteSet(Roots)
    BY FileFacts, FS_Subset DEF Roots, TypeInv, FileInv
  <2>2. roots \in Seq(Roots)
    BY <2>1, Listed
  <2> HIDE DEF roots
  <2> QED
    BY <2>1, <2>2
<1> HIDE DEF roots
<1>3. \A i \in DOMAIN roots : DeepFmt[Cardinality(known)][roots[i]] \in Seq(FlatOf(U))
  <2>1. Cardinality(known) \in 0 .. Cardinality(known)
    BY DeepFmtTypes
  <2>2. \A f \in known : DeepFmt[Cardinality(known)][f] \in Seq(FlatOf(U))
    BY <2>1, DeepFmtTypes
  <2> QED
    BY <1>2, <2>2
<1>4. DOMAIN roots = 1 .. Len(roots) /\ Len(roots) \in Nat
  BY <1>2
<1>5. q \in Seq(Seq(FlatOf(U)))
  BY <1>3, <1>4
<1> HIDE DEF q
<1> QED
  BY <1>1, <1>5, FlattenElements

LEMMA FlattenTypes ==
  ASSUME TypeInv, Flatten
  PROVE  TypeInv'
<1>1. /\ UNCHANGED <<files, pkgs, todo, stack, mods, base, walk, cycle, used, rules>>
      /\ mpc = "uses" /\ mpc' \in {"refused", "load"}
      /\ mpc' # "load" => loaded' = loaded
  BY DEF Flatten
<1>2. loaded' \in Seq(Flat)
  <2>1. CASE mpc' = "load"
    <3>1. mods \in MapsOf(Paths)
      BY DEF TypeInv, FileInv, MapsOf, Module
    <3> QED
      BY <2>1, <3>1, FlattenedUses DEF Flat
  <2>2. CASE mpc' # "load"
    BY <1>1, <2>2 DEF TypeInv, ListInv
  <2> QED
    BY <2>1, <2>2
<1>3. known' = known
  BY <1>1 DEF known
<1>4. FileInv'
  BY <1>1, <1>3 DEF TypeInv, FileInv, Module, ModuleOf
<1>5. ListInv'
  BY <1>1, <1>2, <1>3 DEF TypeInv, ListInv, Turns
<1>6. PlaceInv' /\ PkgInv'
  BY <1>1 DEF TypeInv, PlaceInv, PkgInv, Reads
<1> QED
  BY <1>4, <1>5, <1>6 DEF TypeInv

\* Rules, from paths of P.
RuleOf(P) == [module : Seq(STRING), path : P]

LEMMA ModuleRulesTypes ==
  ASSUME NEW U \in SUBSET Paths, NEW P, \A u \in U : ReadAs(u) \in P, NEW m \in FlatOf(U), NEW net
  PROVE  ModuleRules(m, net) \in Seq(RuleOf(P))
<1> DEFINE us == m.uses
           paths == [k \in DOMAIN us |-> ReadAs(us[k])]
           found == Those(paths, ToSet(paths) \ DOMAIN files)
           list == [k \in DOMAIN found |-> [module |-> m.name, path |-> found[k]]]
<1>1. us \in Seq(U) /\ DOMAIN us = 1 .. Len(us) /\ Len(us) \in Nat /\ m.name \in Seq(STRING)
  BY DEF FlatOf
<1>2. ModuleRules(m, net) \in {list, <<>>}
  BY DEF ModuleRules
<1> HIDE DEF us
<1>3. \A k \in DOMAIN us : ReadAs(us[k]) \in P
  BY <1>1
<1>4. paths \in Seq(P)
  BY <1>1, <1>3
<1> HIDE DEF paths
<1>5. found \in Seq(P)
  BY <1>4, ThoseElements
<1> HIDE DEF found
<1>6. \A k \in DOMAIN found : [module |-> m.name, path |-> found[k]] \in RuleOf(P)
  BY <1>1, <1>5 DEF RuleOf
<1>7. DOMAIN found = 1 .. Len(found) /\ Len(found) \in Nat
  BY <1>5
<1>8. list \in Seq(RuleOf(P))
  BY <1>6, <1>7
<1> HIDE DEF list
<1> QED
  <2>1. <<>> \in Seq(RuleOf(P))
    OBVIOUS
  <2> QED
    BY <1>2, <1>8, <2>1

LEMMA WorkspaceRulesTypes ==
  ASSUME NEW P, \A p \in Paths : Begins(p, WS) => p \in P
  PROVE  WorkspaceRules \in Seq(RuleOf(P))
<1> DEFINE all == {p \in RuleFiles : Begins(p, WS)}
           s == SetToSeq(all)
           n == Cardinality(all)
           list == [k \in 1 .. n |-> [module |-> <<>>, path |-> s[k]]]
<1>1. WorkspaceRules \in {list, <<>>}
  BY DEF WorkspaceRules
<1>2. IsFiniteSet(all)
  BY ModAssumption, FS_Subset
<1>3. all \subseteq P
  BY ModAssumption
<1>4. s \in Seq(all) /\ Len(s) = n
  BY <1>2, Listed
<1> HIDE DEF s, all
<1>5. s \in Seq(P) /\ DOMAIN s = 1 .. n /\ n \in Nat
  BY <1>3, <1>4
<1> HIDE DEF n
<1>6. \A k \in 1 .. n : [module |-> <<>>, path |-> s[k]] \in RuleOf(P)
  <2>1. \A k \in 1 .. n : s[k] \in P
    BY <1>5
  <2>2. <<>> \in Seq(STRING)
    OBVIOUS
  <2> QED
    BY <2>1, <2>2 DEF RuleOf
<1>7. list \in Seq(RuleOf(P))
  BY <1>5, <1>6
<1> HIDE DEF list
<1> QED
  <2>1. <<>> \in Seq(RuleOf(P))
    OBVIOUS
  <2> QED
    BY <1>1, <1>7, <2>1

\* The rules that run are read from the uses of what is loaded, or from the workspace.
LEMMA RulesRead ==
  ASSUME NEW U \in SUBSET Paths, loaded \in Seq(FlatOf(U)), NEW P, \A u \in U : ReadAs(u) \in P,
         \A p \in Paths : Begins(p, WS) => p \in P, GetRules
  PROVE  \A r \in ToSet(rules') : r.path \in P
<1>1. PICK net \in BOOLEAN :
         rules' = IF loaded = <<>> THEN WorkspaceRules
                  ELSE FlattenSeq([i \in DOMAIN loaded |-> ModuleRules(loaded[i], net)])
  BY DEF GetRules
<1> DEFINE q == [i \in DOMAIN loaded |-> ModuleRules(loaded[i], net)]
<1>2. q \in Seq(Seq(RuleOf(P)))
  <2>1. DOMAIN loaded = 1 .. Len(loaded) /\ Len(loaded) \in Nat
    OBVIOUS
  <2>2. \A i \in DOMAIN loaded : ModuleRules(loaded[i], net) \in Seq(RuleOf(P))
    BY <2>1, ModuleRulesTypes
  <2> QED
    BY <2>1, <2>2
<1> HIDE DEF q
<1>3. FlattenSeq(q) \in Seq(RuleOf(P))
  BY <1>2, FlattenElements
<1>4. rules' \in Seq(RuleOf(P))
  BY <1>1, <1>3, WorkspaceRulesTypes DEF q
<1>5. \A i \in DOMAIN rules' : rules'[i] \in RuleOf(P)
  BY <1>4, ElementsAre
<1>6. \A i \in DOMAIN rules' : rules'[i].path \in P
  BY <1>5 DEF RuleOf
<1> QED
  BY <1>6 DEF ToSet

LEMMA EndTypes ==
  ASSUME TypeInv, GetRules \/ ReportRefusal
  PROVE  TypeInv'
<1>1. /\ UNCHANGED <<files, pkgs, todo, stack, mods, base, walk, cycle, used, loaded>>
      /\ \/ mpc = "load" /\ mpc' = "loaded"
         \/ mpc = "refused" /\ mpc' \in {"ended", "panicked"}
  BY DEF GetRules, ReportRefusal
<1>2. \A r \in ToSet(rules') : ~IsDotted(r.path)
  <2>1. CASE GetRules
    <3> DEFINE P == {p \in Paths : ~IsDotted(p)}
    <3>1. loaded \in Seq(FlatOf(Paths))
      BY DEF TypeInv, ListInv, Flat
    <3>2. \A u \in Paths : ReadAs(u) \in P
      BY ReadPaths
    <3>3. \A p \in Paths : Begins(p, WS) => p \in P
      BY BeginsOne, RootNames DEF IsDotted
    <3> HIDE DEF P
    <3>4. \A r \in ToSet(rules') : r.path \in P
      BY <2>1, <3>1, <3>2, <3>3, RulesRead
    <3> QED
      BY <3>4 DEF P
  <2>2. CASE ReportRefusal
    BY <2>2 DEF ReportRefusal, TypeInv, ListInv
  <2> QED
    BY <2>1, <2>2
<1>3. known' = known
  BY <1>1 DEF known
<1>4. FileInv'
  BY <1>1, <1>3 DEF TypeInv, FileInv, Module, ModuleOf
<1>5. ListInv'
  BY <1>1, <1>2, <1>3 DEF TypeInv, ListInv, Turns
<1>6. PlaceInv' /\ PkgInv'
  BY <1>1 DEF TypeInv, PlaceInv, PkgInv, Reads
<1> QED
  BY <1>4, <1>5, <1>6 DEF TypeInv

LEMMA StutterTypes ==
  ASSUME TypeInv, UNCHANGED modVars
  PROVE  TypeInv' /\ known' = known
<1>1. known' = known
  BY DEF modVars, known
<1> QED
  BY <1>1 DEF modVars, TypeInv, FileInv, ListInv, PlaceInv, PkgInv, Module, ModuleOf, Turns

LEMMA NextTypes ==
  ASSUME TypeInv, [ModNext]_modVars
  PROVE  TypeInv'
<1>1. CASE UNCHANGED modVars
  BY <1>1, StutterTypes
<1>2. CASE (\E f \in todo : DiscoverFile(f)) \/ DiscoverReturns
  BY <1>2, DiscoverTypes
<1>3. CASE FollowPath \/ FollowPackage
  BY <1>3, FollowTypes
<1>4. CASE Assemble
  BY <1>4, AssembleTypes
<1>5. CASE \E f \in todo : DeepPathModules(f)
  BY <1>5, DeepPathTypes
<1>6. CASE (\E f \in todo : CheckFile(f)) \/ CheckPath \/ CheckReturns \/ CheckEnds \/ DeepPathEnds
  BY <1>6, WalkTypes
<1>7. CASE \E f \in todo : LinkFile(f)
  BY <1>7, LinkTypes
<1>8. CASE Flatten
  BY <1>8, FlattenTypes
<1>9. CASE GetRules \/ ReportRefusal
  BY <1>9, EndTypes
<1> QED
  BY <1>1, <1>2, <1>3, <1>4, <1>5, <1>6, <1>7, <1>8, <1>9 DEF ModNext

LEMMA TypeInvariant == ModSpec => []TypeInv
<1>1. TypeInv /\ [ModNext]_modVars => TypeInv'
  BY NextTypes
<1> QED
  BY InitTypes, <1>1, PTL DEF ModSpec

\* Nothing that is read, linked or listed leaves the known module files: the children of
\* a module and the files that others use are files which the discovery found, whatever
\* the uses are rewritten to (config.go:619-672), and no rule is read from a path that
\* begins with a dot (apply.go:418-424).
THEOREM ExpansionTypeCorrect == ModSpec => []ModTypeOK
<1>1. TypeInv => ModTypeOK
  <2> SUFFICES ASSUME TypeInv PROVE ModTypeOK
    OBVIOUS
  <2>1. ASSUME NEW f \in known
        PROVE  LinkedFrom(f, mods) \subseteq known
    <3>1. mods[f] \in Seq(Module)
      BY DEF TypeInv, FileInv
    <3>2. \A i \in DOMAIN mods[f] : mods[f][i] \in Module
      BY <3>1, ElementsAre
    <3>3. \A i \in DOMAIN mods[f] : ToSet(mods[f][i].children) \subseteq known
      BY <3>2 DEF Module, ModuleOf, ToSet
    <3> QED
      BY <3>3 DEF LinkedFrom
  <2> QED
    BY <2>1 DEF TypeInv, FileInv, ListInv, PlaceInv, PkgInv, ModTypeOK
<1> QED
  BY TypeInvariant, <1>1, PTL

-----------------------------------------------------------------------------
(* The uses of the known files, before they are rewritten.                  *)

\* Until they are linked, modules use what their files say.
UsesInv == mpc \in {"deep", "cycle"} => \A f \in known : UsesOf(mods[f]) = UsesOf(files[f])

LEMMA UsesKept ==
  ASSUME TypeInv, UsesInv, [ModNext]_modVars
  PROVE  UsesInv'
<1>1. CASE UNCHANGED modVars
  BY <1>1, StutterTypes DEF modVars, UsesInv, UsesOf
<1>2. CASE Assemble
  BY <1>2, AssembleTypes DEF UsesInv, UsesOf
<1>3. ASSUME NEW f \in todo, DeepPathModules(f)
      PROVE  UsesInv'
  <2>1. UNCHANGED <<files, mpc>> /\ mpc = "deep"
    BY <1>3 DEF DeepPathModules
  <2>2. known' = known /\ \A g \in known : UsesOf(mods'[g]) = UsesOf(mods[g])
    BY <1>3, DeepPathTypes
  <2> QED
    BY <2>1, <2>2 DEF UsesInv, UsesOf
<1>4. CASE (\E f \in todo : CheckFile(f)) \/ CheckPath \/ CheckReturns \/ CheckEnds \/ DeepPathEnds
  <2>1. known' = known /\ mods' = mods
    BY <1>4, WalkTypes
  <2>2. files' = files /\ mpc \in {"deep", "cycle"}
    BY <1>4 DEF CheckFile, CheckPath, CheckReturns, CheckEnds, DeepPathEnds
  <2> QED
    BY <2>1, <2>2 DEF UsesInv, UsesOf
<1>5. CASE \/ (\E f \in todo : DiscoverFile(f)) \/ DiscoverReturns \/ FollowPath \/ FollowPackage
           \/ (\E f \in todo : LinkFile(f)) \/ Flatten \/ GetRules \/ ReportRefusal
  <2>1. mpc' \notin {"deep", "cycle"}
    BY <1>5 DEF DiscoverFile, DiscoverReturns, FollowPath, FollowPackage, Enter, Pending,
                LinkFile, Flatten, GetRules, ReportRefusal
  <2> QED
    BY <2>1 DEF UsesInv
<1> QED
  BY <1>1, <1>2, <1>3, <1>4, <1>5 DEF ModNext

\* The edges that the check follows are the uses of known files by known files.
LEMMA EdgesAreUses ==
  ASSUME TypeInv, UsesInv, mpc \in {"deep", "cycle"}, NEW f \in known, NEW g \in DOMAIN files
  PROVE  /\ NamesKnown[<<f, g>>] <=> g \in ToSet(Edges(f))
         /\ g \in ToSet(Edges(f)) => Names[<<f, g>>]
<1>1. f \in DOMAIN files /\ files \in Contents
  BY DEF TypeInv, FileInv
<1>2. ToSet(Edges(f)) = ToSet(Uses(f)) \cap known
  BY <1>1, EdgesOfFile, FileUses DEF UsesInv
<1>3. Names[<<f, g>>] <=> g \in ToSet(Uses(f))
  BY <1>1 DEF Names
<1>4. NamesKnown[<<f, g>>] <=> Names[<<f, g>>] /\ g \in known
  BY <1>1 DEF NamesKnown
<1> QED
  BY <1>2, <1>3, <1>4

-----------------------------------------------------------------------------
(* The check for cycles.                                                    *)

\* The calls w of a check with the list c: their files are linked by uses, and none
\* but the first is the start.
Checks(w, c) ==
    /\ Len(c) = Len(w)
    /\ \A i \in DOMAIN w : c[i] = w[i].at
    /\ \A i \in 1 .. Len(w) - 1 : Names[<<w[i].at, w[i + 1].at>>]
    /\ \A i \in 2 .. Len(w) : w[i].at # w[1].at
    /\ \A i \in DOMAIN w : \A g \in ToSet(w[i].left) : Names[<<w[i].at, g>>]

WalkInv ==
    /\ mpc \in {"discover", "deep"} => cycle = <<>>
    /\ mpc = "cycle" => Checks(walk, cycle)
    /\ CycleIsReal

\* The files from which no use leads to x.
Safe(x) == UNION {S \in SUBSET (DOMAIN files \ {x}) : Onward(NamesKnown, S) \subseteq S}

\* What the files of the calls use is safe, or the check has it before it, or is there.
SafeOf(w) ==
    \A i \in DOMAIN w : \A g \in DOMAIN files : NamesKnown[<<w[i].at, g>>] =>
        \/ g \in Safe(w[1].at)
        \/ g \in ToSet(w[i].left)
        \/ i < Len(w) /\ g = w[i + 1].at

SafeInv == mpc = "cycle" => SafeOf(walk)

\* No file that the check is done with is on a cycle.
DoneInv ==
    /\ mpc = "cycle" => \A f \in known \ todo : (walk = <<>> \/ f # Start) => f \notin OnCycle(NamesKnown)
    /\ mpc \in {"uses", "load"} => OnCycle(NamesKnown) = {}

LEMMA SafeFacts ==
  ASSUME NEW x \in DOMAIN files
  PROVE  /\ Safe(x) \subseteq DOMAIN files \ {x}
         /\ Onward(NamesKnown, Safe(x)) \subseteq Safe(x)
         /\ \A f \in DOMAIN files \ {x} : Onward(NamesKnown, {f}) \subseteq Safe(x) => f \in Safe(x)
         /\ Onward(NamesKnown, {x}) \subseteq Safe(x) => x \notin OnCycle(NamesKnown)
<1>1. Safe(x) \subseteq DOMAIN files \ {x}
  BY DEF Safe
<1>2. Onward(NamesKnown, Safe(x)) \subseteq Safe(x)
  <2> SUFFICES ASSUME NEW g \in DOMAIN files, NEW f \in Safe(x), NamesKnown[<<f, g>>]
               PROVE  g \in Safe(x)
    BY DEF Onward
  <2>1. PICK S \in SUBSET (DOMAIN files \ {x}) : f \in S /\ Onward(NamesKnown, S) \subseteq S
    BY DEF Safe
  <2>2. g \in S
    BY <2>1 DEF Onward
  <2> QED
    BY <2>1, <2>2 DEF Safe
<1>3. ASSUME NEW f \in DOMAIN files \ {x}, Onward(NamesKnown, {f}) \subseteq Safe(x)
      PROVE  f \in Safe(x)
  <2> DEFINE S == Safe(x) \cup {f}
  <2>1. S \in SUBSET (DOMAIN files \ {x})
    BY <1>1
  <2>2. Onward(NamesKnown, S) \subseteq S
    BY <1>2, <1>3 DEF Onward
  <2> HIDE DEF S
  <2>3. S \subseteq Safe(x)
    BY <2>1, <2>2 DEF Safe
  <2> QED
    BY <2>3 DEF S
<1>4. Onward(NamesKnown, {x}) \subseteq Safe(x) => x \notin OnCycle(NamesKnown)
  BY <1>1, <1>2 DEF OnCycle
<1> QED
  BY <1>1, <1>2, <1>3, <1>4

\* An undiscovered file is on no cycle.
LEMMA OnlyKnownCycles ==
  ASSUME TypeInv
  PROVE  OnCycle(NamesKnown) \subseteq known
<1> SUFFICES ASSUME NEW f \in OnCycle(NamesKnown), f \notin known PROVE FALSE
  OBVIOUS
<1>1. f \in DOMAIN files
  BY DEF OnCycle
<1>2. Onward(NamesKnown, {f}) = {}
  BY <1>1 DEF Onward, NamesKnown
<1>3. Onward(NamesKnown, {}) = {}
  BY DEF Onward
<1> QED
  BY <1>2, <1>3 DEF OnCycle

\* What the steps of the check leave alone.
LEMMA GraphKept ==
  ASSUME files' = files, known' = known
  PROVE  /\ Names' = Names /\ NamesKnown' = NamesKnown
         /\ OnCycle(NamesKnown)' = OnCycle(NamesKnown)
         /\ \A w, c : Checks(w, c)' = Checks(w, c) /\ SafeOf(w)' = SafeOf(w)
<1>1. Names' = Names /\ NamesKnown' = NamesKnown
  BY DEF Names, NamesKnown, Uses
<1>2. OnCycle(NamesKnown)' = OnCycle(NamesKnown)
  BY <1>1 DEF OnCycle, Onward
<1>3. \A x : Safe(x)' = Safe(x)
  BY <1>1 DEF Safe, Onward
<1> QED
  BY <1>1, <1>2, <1>3 DEF Checks, SafeOf

LEMMA CheckFileKept ==
  ASSUME TypeInv, UsesInv, WalkInv, SafeInv, DoneInv, NEW f \in todo, CheckFile(f)
  PROVE  WalkInv' /\ SafeInv' /\ DoneInv'
<1>1. /\ mpc = "cycle" /\ mpc' = "cycle" /\ walk = <<>> /\ f \in known
      /\ walk' = <<[at |-> f, left |-> Edges(f)]>> /\ cycle' = <<f>> /\ todo' = todo \ {f}
      /\ files' = files /\ known' = known
  BY DEF CheckFile, TypeInv, FileInv, known
<1>2. Len(walk') = 1 /\ walk'[1].at = f /\ walk'[1].left = Edges(f) /\ DOMAIN walk' = {1} /\ Start' = f
  BY <1>1 DEF Start
<1>3. Edges(f) \in Seq(known) /\ \A g \in ToSet(Edges(f)) : g \in DOMAIN files
  BY <1>1, EdgesOfFile DEF ToSet, TypeInv, FileInv
<1>4. Checks(walk', cycle')
  <2>1. Len(cycle') = 1 /\ cycle'[1] = f
    BY <1>1
  <2>2. \A g \in ToSet(Edges(f)) : Names[<<f, g>>]
    BY <1>1, <1>3, EdgesAreUses
  <2> QED
    BY <1>2, <2>1, <2>2 DEF Checks
<1>5. SafeOf(walk')
  BY <1>1, <1>2, EdgesAreUses DEF SafeOf
<1>6. WalkInv' /\ SafeInv'
  <2>1. CycleIsReal'
    BY <1>1 DEF CycleIsReal
  <2> QED
    BY <1>1, <1>4, <1>5, <2>1, GraphKept DEF WalkInv, SafeInv
<1>7. DoneInv'
  BY <1>1, <1>2, GraphKept DEF DoneInv
<1> QED
  BY <1>6, <1>7

LEMMA TailElements ==
  ASSUME NEW S, NEW l \in Seq(S), l # <<>>
  PROVE  /\ Head(l) \in S /\ Head(l) \in ToSet(l)
         /\ \A g \in ToSet(l) : g = Head(l) \/ g \in ToSet(Tail(l))
         /\ ToSet(Tail(l)) \subseteq ToSet(l)
<1>1. /\ Len(l) \in Nat \ {0} /\ DOMAIN l = 1 .. Len(l) /\ Head(l) = l[1] /\ l[1] \in S
      /\ DOMAIN Tail(l) = 1 .. Len(l) - 1 /\ \A i \in 1 .. Len(l) - 1 : Tail(l)[i] = l[i + 1]
  OBVIOUS
<1>2. \A i \in 1 .. Len(l) : i = 1 \/ (i - 1 \in 1 .. Len(l) - 1 /\ Tail(l)[i - 1] = l[i])
  BY <1>1
<1>3. Head(l) \in S /\ Head(l) \in ToSet(l)
  BY <1>1 DEF ToSet
<1>4. ASSUME NEW g \in ToSet(l), g # Head(l)
      PROVE  g \in ToSet(Tail(l))
  <2>1. PICK i \in 1 .. Len(l) : g = l[i]
    BY <1>1 DEF ToSet
  <2>2. i - 1 \in DOMAIN Tail(l) /\ Tail(l)[i - 1] = g
    BY <1>1, <1>2, <1>4, <2>1
  <2> QED
    BY <2>2 DEF ToSet
<1>5. ToSet(Tail(l)) \subseteq ToSet(l)
  BY <1>1 DEF ToSet
<1> QED
  BY <1>3, <1>4, <1>5

LEMMA CheckPathKept ==
  ASSUME TypeInv, UsesInv, WalkInv, SafeInv, DoneInv, CheckPath
  PROVE  WalkInv' /\ SafeInv' /\ DoneInv'
<1>0. PICK p : p = Head(Turn.left)
  OBVIOUS
<1> DEFINE n == Len(walk)
           x == [walk[n] EXCEPT !.left = Tail(@)]
           y == CallFor(p)
<1>1. /\ mpc = "cycle" /\ mpc' \in {"cycle", "refused", "overflow"} /\ walk # <<>> /\ Turn.left # <<>>
      /\ mpc' = "refused" <=> p = Start
      /\ files' = files /\ todo' = todo /\ mods' = mods /\ known' = known
  BY <1>0 DEF CheckPath, known
<1>2. walk \in Seq(Turns) /\ cycle \in Seq(known) /\ Checks(walk, cycle) /\ SafeOf(walk) /\ known \subseteq DOMAIN files
  BY <1>1 DEF TypeInv, FileInv, ListInv, WalkInv, SafeInv
<1>3. n \in Nat \ {0} /\ DOMAIN walk = 1 .. n /\ Turn = walk[n] /\ walk[n] \in Turns /\ Len(cycle) = n /\ Start = walk[1].at
  BY <1>1, <1>2 DEF Turn, Last, Start, Checks
<1>4. /\ p \in known /\ p \in ToSet(walk[n].left)
      /\ \A g \in ToSet(walk[n].left) : g = p \/ g \in ToSet(Tail(walk[n].left))
      /\ ToSet(Tail(walk[n].left)) \subseteq ToSet(walk[n].left)
  <2>1. walk[n].left \in Seq(known) /\ walk[n].left # <<>> /\ p = Head(walk[n].left)
    BY <1>0, <1>1, <1>3 DEF Turns
  <2> QED
    BY <2>1, TailElements
<1>5. /\ x.at = walk[n].at /\ x.left = Tail(walk[n].left) /\ y.at = p /\ y.left = Edges(p)
      /\ x \in Turns /\ y \in Turns
  <2>1. x.at = walk[n].at /\ x.left = Tail(walk[n].left) /\ y.at = p /\ y.left = Edges(p)
    BY <1>3 DEF Turns, CallFor
  <2>2. x \in Turns
    <3>1. walk[n].left # <<>> /\ walk[n].left \in Seq(known) /\ walk[n] \in Turns
      BY <1>1, <1>3 DEF Turns
    <3>2. Tail(walk[n].left) \in Seq(known)
      BY <3>1
    <3> QED
      BY <3>1, <3>2 DEF Turns
  <2>3. y \in Turns
    BY <1>4, EdgesOfFile DEF CallFor, Turns
  <2> QED
    BY <2>1, <2>2, <2>3
<1>6. walk' = Append([walk EXCEPT ![n] = x], y) /\ cycle' = Append(cycle, p)
  BY <1>0, <1>3 DEF CheckPath
<1>7. Names[<<walk[n].at, p>>]
  BY <1>2, <1>3, <1>4 DEF Checks
<1>8. \A g \in DOMAIN files : NamesKnown[<<p, g>>] => g \in ToSet(Edges(p))
  BY <1>1, <1>4, EdgesAreUses
<1>9. \A g \in ToSet(Edges(p)) : Names[<<p, g>>]
  <2>1. ToSet(Edges(p)) \subseteq DOMAIN files
    BY <1>2, <1>4, EdgesOfFile DEF ToSet
  <2> QED
    BY <1>1, <1>4, <2>1, EdgesAreUses
<1> HIDE DEF n, x, y
<1>10. /\ Len(walk') = n + 1 /\ Len(cycle') = n + 1 /\ walk' # <<>>
       /\ \A i \in 1 .. n - 1 : walk'[i] = walk[i]
       /\ walk'[n] = x /\ walk'[n + 1] = y
       /\ \A i \in 1 .. n : walk'[i].at = walk[i].at
       /\ \A i \in 1 .. n : cycle'[i] = cycle[i]
       /\ cycle'[n + 1] = p
       /\ DOMAIN walk' = 1 .. n + 1
  <2> DEFINE w == [walk EXCEPT ![n] = x]
  <2>1. w \in Seq(Turns) /\ Len(w) = n
    BY <1>2, <1>3, <1>5
  <2> HIDE DEF w
  <2>2. /\ Len(walk') = n + 1 /\ Len(cycle') = n + 1
        /\ \A i \in 1 .. n : walk'[i] = w[i]
        /\ walk'[n + 1] = y /\ DOMAIN walk' = 1 .. n + 1
    BY <1>2, <1>3, <1>5, <1>6, <2>1 DEF w
  <2>3. \A i \in 1 .. n : w[i] = IF i = n THEN x ELSE walk[i]
    BY <1>3 DEF w
  <2>4. \A i \in 1 .. n : cycle'[i] = cycle[i] /\ cycle'[n + 1] = p
    BY <1>2, <1>3, <1>4, <1>6
  <2>5. /\ \A i \in 1 .. n - 1 : walk'[i] = walk[i]
        /\ walk'[n] = x
        /\ \A i \in 1 .. n : walk'[i].at = walk[i].at
    BY <1>3, <1>5, <2>2, <2>3
  <2>6. walk' # <<>> /\ cycle'[n + 1] = p
    BY <1>3, <2>2, <2>4
  <2> QED
    BY <2>2, <2>4, <2>5, <2>6
<1>11. \A i \in 1 .. n : Names[<<walk'[i].at, walk'[i + 1].at>>]
  <2> SUFFICES ASSUME NEW i \in 1 .. n PROVE Names[<<walk'[i].at, walk'[i + 1].at>>]
    OBVIOUS
  <2>1. CASE i = n
    BY <1>5, <1>7, <1>10, <2>1
  <2>2. CASE i # n
    <3>1. i \in 1 .. n - 1 /\ i + 1 \in 1 .. n /\ Names[<<walk[i].at, walk[i + 1].at>>]
      BY <1>2, <1>3, <2>2 DEF Checks, n
    <3> QED
      BY <1>10, <3>1
  <2> QED
    BY <2>1, <2>2
<1>12. \A i \in 1 .. n + 1 : cycle'[i] = walk'[i].at
  <2>1. \A i \in 1 .. n : cycle[i] = walk[i].at
    BY <1>2, <1>3 DEF Checks
  <2> QED
    BY <1>3, <1>5, <1>10, <2>1
<1>13. ASSUME p # Start PROVE Checks(walk', cycle')
  <2>1. \A i \in 2 .. n + 1 : walk'[i].at # walk'[1].at
    <3>1. \A i \in 2 .. n : walk[i].at # walk[1].at
      BY <1>2 DEF Checks, n
    <3> QED
      BY <1>3, <1>5, <1>10, <1>13, <3>1
  <2>2. \A i \in 1 .. n + 1 : \A g \in ToSet(walk'[i].left) : Names[<<walk'[i].at, g>>]
    <3>1. \A i \in 1 .. n : \A g \in ToSet(walk[i].left) : Names[<<walk[i].at, g>>]
      BY <1>2, <1>3 DEF Checks
    <3>2. \A i \in 1 .. n : ToSet(walk'[i].left) \subseteq ToSet(walk[i].left)
      BY <1>3, <1>4, <1>5, <1>10
    <3>3. \A g \in ToSet(y.left) : Names[<<y.at, g>>]
      BY <1>5, <1>9
    <3>4. \A g \in ToSet(walk'[n + 1].left) : Names[<<walk'[n + 1].at, g>>]
      BY <1>10, <3>3
    <3>5. \A i \in 1 .. n + 1 : i \in 1 .. n \/ i = n + 1
      BY <1>3
    <3> QED
      BY <1>10, <3>1, <3>2, <3>4, <3>5
  <2> QED
    BY <1>3, <1>10, <1>11, <1>12, <2>1, <2>2 DEF Checks
<1>14. SafeOf(walk')
  <2> SUFFICES ASSUME NEW i \in 1 .. n + 1, NEW g \in DOMAIN files, NamesKnown[<<walk'[i].at, g>>]
               PROVE  \/ g \in Safe(walk'[1].at)
                      \/ g \in ToSet(walk'[i].left)
                      \/ i < Len(walk') /\ g = walk'[i + 1].at
    BY <1>10 DEF SafeOf
  <2>1. CASE i = n + 1
    <3>1. walk'[i].at = p /\ walk'[i].left = Edges(p)
      BY <1>5, <1>10, <2>1
    <3>2. g \in ToSet(Edges(p))
      BY <1>8, <3>1
    <3> QED
      BY <3>1, <3>2
  <2>2. CASE i = n
    <3>1. NamesKnown[<<walk[n].at, g>>]
      BY <1>3, <1>10, <2>2
    <3>2. g \in Safe(walk[1].at) \/ g \in ToSet(walk[n].left)
      BY <1>2, <1>3, <3>1 DEF SafeOf, n
    <3>3. g \in Safe(walk'[1].at) \/ g = p \/ g \in ToSet(walk'[n].left)
      BY <1>3, <1>4, <1>5, <1>10, <3>2
    <3> QED
      BY <1>3, <1>5, <1>10, <2>2, <3>3
  <2>3. CASE i \in 1 .. n - 1
    <3>1. i \in 1 .. n /\ i + 1 \in 1 .. n /\ i < n /\ walk'[i] = walk[i]
      BY <1>3, <1>10, <2>3
    <3>2. g \in Safe(walk[1].at) \/ g \in ToSet(walk[i].left) \/ g = walk[i + 1].at
      BY <1>2, <1>3, <3>1 DEF SafeOf, n
    <3> QED
      BY <1>3, <1>10, <3>1, <3>2
  <2> QED
    BY <1>3, <2>1, <2>2, <2>3
<1>15. CycleIsReal'
  <2>1. CASE p = Start
    <3>1. /\ Len(cycle') > 1 /\ cycle'[1] = cycle'[n + 1] /\ Last(cycle') = cycle'[n + 1]
      BY <1>3, <1>5, <1>10, <1>12, <2>1 DEF Last
    <3>2. \A i \in 1 .. Len(cycle') - 1 : Names[<<cycle'[i], cycle'[i + 1]>>]
      BY <1>3, <1>10, <1>11, <1>12
    <3>3. Names' = Names
      BY <1>1, GraphKept
    <3> QED
      BY <3>1, <3>2, <3>3 DEF CycleIsReal
  <2>2. CASE p # Start
    BY <1>1, <2>2 DEF CycleIsReal
  <2> QED
    BY <2>1, <2>2
<1>16. WalkInv' /\ SafeInv'
  BY <1>1, <1>13, <1>14, <1>15, GraphKept DEF WalkInv, SafeInv
<1>17. DoneInv'
  <2>1. Start' = Start
    BY <1>3, <1>10 DEF Start
  <2> QED
    BY <1>1, <1>10, <2>1, GraphKept DEF DoneInv
<1> QED
  BY <1>16, <1>17

LEMMA CheckReturnsKept ==
  ASSUME TypeInv, UsesInv, WalkInv, SafeInv, DoneInv, CheckReturns
  PROVE  WalkInv' /\ SafeInv' /\ DoneInv'
<1> DEFINE n == Len(walk)
<1>1. /\ mpc = "cycle" /\ mpc' = "cycle" /\ walk # <<>> /\ Turn.left = <<>>
      /\ files' = files /\ todo' = todo /\ known' = known
      /\ walk' = Front(walk) /\ cycle' = Front(cycle)
  BY DEF CheckReturns, known
<1>2. walk \in Seq(Turns) /\ cycle \in Seq(known) /\ Checks(walk, cycle) /\ SafeOf(walk) /\ known \subseteq DOMAIN files
  BY <1>1 DEF TypeInv, FileInv, ListInv, WalkInv, SafeInv
<1>3. n \in Nat \ {0} /\ DOMAIN walk = 1 .. n /\ Turn = walk[n] /\ Len(cycle) = n /\ Start = walk[1].at
  BY <1>1, <1>2 DEF Turn, Last, Start, Checks
<1>4. \A i \in 1 .. n : walk[i] \in Turns /\ walk[i].at \in DOMAIN files
  <2>1. \A i \in 1 .. n : walk[i] \in Turns
    BY <1>2, <1>3
  <2> QED
    BY <1>2, <2>1 DEF Turns
<1>5. /\ Len(walk') = n - 1 /\ Len(cycle') = n - 1 /\ DOMAIN walk' = 1 .. n - 1
      /\ \A i \in 1 .. n - 1 : walk'[i] = walk[i] /\ cycle'[i] = cycle[i]
  BY <1>1, <1>2, <1>3 DEF Front
<1>6. Onward(NamesKnown, {walk[n].at}) \subseteq Safe(Start)
  <2> SUFFICES ASSUME NEW g \in DOMAIN files, NamesKnown[<<walk[n].at, g>>] PROVE g \in Safe(Start)
    BY DEF Onward
  <2>1. ToSet(walk[n].left) = {}
    BY <1>1, <1>3 DEF ToSet
  <2>2. g \in Safe(walk[1].at) \/ g \in ToSet(walk[n].left)
    BY <1>2, <1>3 DEF SafeOf
  <2> QED
    BY <1>3, <2>1, <2>2
<1> HIDE DEF n
<1>7. Checks(walk', cycle')
  <2>1. /\ \A i \in 1 .. n : cycle[i] = walk[i].at
        /\ \A i \in 1 .. n - 1 : Names[<<walk[i].at, walk[i + 1].at>>]
        /\ \A i \in 2 .. n : walk[i].at # walk[1].at
        /\ \A i \in 1 .. n : \A g \in ToSet(walk[i].left) : Names[<<walk[i].at, g>>]
    BY <1>2, <1>3 DEF Checks, n
  <2>2. \A i \in 1 .. Len(walk') - 1 : i \in 1 .. n - 1 /\ i + 1 \in 1 .. n - 1
    BY <1>3, <1>5
  <2>3. \A i \in 1 .. Len(walk') - 1 : Names[<<walk'[i].at, walk'[i + 1].at>>]
    BY <1>5, <2>1, <2>2
  <2>4. \A i \in 2 .. Len(walk') : walk'[i].at # walk'[1].at
    BY <1>3, <1>5, <2>1
  <2>5. \A i \in 1 .. n - 1 : i \in 1 .. n
    BY <1>3
  <2>6. \A i \in DOMAIN walk' : cycle'[i] = walk'[i].at
    BY <1>5, <2>1, <2>5
  <2>7. \A i \in DOMAIN walk' : \A g \in ToSet(walk'[i].left) : Names[<<walk'[i].at, g>>]
    BY <1>5, <2>1, <2>5
  <2> QED
    BY <1>5, <2>3, <2>4, <2>6, <2>7 DEF Checks
<1>8. SafeOf(walk')
  <2> SUFFICES ASSUME NEW i \in 1 .. n - 1, NEW g \in DOMAIN files, NamesKnown[<<walk'[i].at, g>>]
               PROVE  \/ g \in Safe(walk'[1].at)
                      \/ g \in ToSet(walk'[i].left)
                      \/ i < Len(walk') /\ g = walk'[i + 1].at
    BY <1>5 DEF SafeOf
  <2>1. i \in 1 .. n /\ i + 1 \in 1 .. n /\ i < n /\ 1 \in 1 .. n - 1 /\ walk'[i] = walk[i] /\ walk'[1] = walk[1]
    BY <1>3, <1>5
  <2>2. g \in Safe(walk[1].at) \/ g \in ToSet(walk[i].left) \/ g = walk[i + 1].at
    BY <1>2, <1>3, <2>1 DEF SafeOf, n
  <2>3. CASE i + 1 = n
    <3>1. walk[n].at \in DOMAIN files \ {walk[1].at}
      BY <1>2, <1>3, <1>4, <2>1, <2>3 DEF Checks, n
    <3>2. walk[n].at \in Safe(walk[1].at)
      <4>1. 1 \in 1 .. n
        BY <1>3
      <4>2. walk[1].at \in DOMAIN files /\ Onward(NamesKnown, {walk[n].at}) \subseteq Safe(walk[1].at)
        BY <1>3, <1>4, <1>6, <4>1
      <4> HIDE DEF n
      <4> QED
        BY <3>1, <4>2, SafeFacts
    <3> QED
      BY <2>1, <2>2, <2>3, <3>2
  <2>4. CASE i + 1 # n
    <3>1. i + 1 \in 1 .. n - 1 /\ i < Len(walk')
      BY <1>3, <1>5, <2>4
    <3>2. walk'[i + 1] = walk[i + 1]
      BY <1>5, <3>1
    <3> QED
      BY <2>1, <2>2, <3>1, <3>2
  <2> QED
    BY <2>3, <2>4
<1>9. WalkInv' /\ SafeInv'
  <2>1. CycleIsReal'
    BY <1>1 DEF CycleIsReal
  <2> QED
    BY <1>1, <1>7, <1>8, <2>1, GraphKept DEF WalkInv, SafeInv
<1>10. DoneInv'
  <2>1. \A f \in known \ todo : f # Start => f \notin OnCycle(NamesKnown)
    BY <1>1 DEF DoneInv
  <2>2. CASE n = 1
    <3>1. Start \notin OnCycle(NamesKnown)
      BY <1>3, <1>4, <1>6, <2>2, SafeFacts
    <3> QED
      BY <1>1, <2>1, <3>1, GraphKept DEF DoneInv
  <2>3. CASE n # 1
    <3>1. walk' # <<>> /\ Start' = Start
      <4>1. walk' # <<>> /\ walk'[1] = walk[1]
        BY <1>3, <1>5, <2>3
      <4> QED
        BY <1>3, <4>1 DEF Start
    <3> QED
      BY <1>1, <2>1, <3>1, GraphKept DEF DoneInv
  <2> QED
    BY <2>2, <2>3
<1> QED
  BY <1>9, <1>10

CycleInv == UsesInv /\ WalkInv /\ SafeInv /\ DoneInv

LEMMA CycleInit == ModInit => CycleInv
BY DEF ModInit, CycleInv, UsesInv, WalkInv, SafeInv, DoneInv, CycleIsReal

LEMMA CycleNext ==
  ASSUME TypeInv, CycleInv, [ModNext]_modVars
  PROVE  CycleInv'
<1>1. UsesInv'
  BY UsesKept DEF CycleInv
<1>2. UsesInv /\ WalkInv /\ SafeInv /\ DoneInv
  BY DEF CycleInv
<1>3. CASE UNCHANGED modVars
  <2>1. files' = files /\ known' = known /\ UNCHANGED <<mpc, todo, walk, cycle>>
    BY <1>3, StutterTypes DEF modVars
  <2>2. Start' = Start
    BY <2>1 DEF Start
  <2> QED
    BY <1>1, <1>2, <2>1, <2>2, GraphKept DEF CycleInv, WalkInv, SafeInv, DoneInv, CycleIsReal
<1>4. CASE \E f \in todo : CheckFile(f)
  BY <1>1, <1>2, <1>4, CheckFileKept DEF CycleInv
<1>5. CASE CheckPath
  BY <1>1, <1>2, <1>5, CheckPathKept DEF CycleInv
<1>6. CASE CheckReturns
  BY <1>1, <1>2, <1>6, CheckReturnsKept DEF CycleInv
<1>7. CASE CheckEnds \/ DeepPathEnds
  <2>1. files' = files /\ known' = known /\ walk = <<>> /\ walk' = <<>> /\ cycle' = cycle
    BY <1>7 DEF CheckEnds, DeepPathEnds, known, TypeInv, PlaceInv
  <2>2. CASE CheckEnds
    <3>1. mpc = "cycle" /\ mpc' = "uses" /\ todo = {}
      BY <2>2 DEF CheckEnds
    <3>2. OnCycle(NamesKnown) = {}
      BY <1>2, <2>1, <3>1, OnlyKnownCycles DEF DoneInv
    <3> QED
      BY <1>1, <2>1, <3>1, <3>2, GraphKept DEF CycleInv, WalkInv, SafeInv, DoneInv, CycleIsReal
  <2>3. CASE DeepPathEnds
    <3>1. mpc' = "cycle" /\ todo' = known /\ cycle = <<>>
      BY <1>2, <2>1, <2>3 DEF DeepPathEnds, WalkInv
    <3> QED
      BY <1>1, <2>1, <3>1, GraphKept DEF CycleInv, WalkInv, SafeInv, DoneInv, CycleIsReal, Checks, SafeOf
  <2> QED
    BY <1>7, <2>2, <2>3
<1>8. CASE (\E f \in todo : LinkFile(f)) \/ Flatten \/ GetRules \/ ReportRefusal
  <2>1. files' = files /\ known' = known /\ UNCHANGED <<walk, cycle>>
    BY <1>8, LinkTypes DEF LinkFile, Flatten, GetRules, ReportRefusal, known
  <2>2. /\ mpc \in {"uses", "load"} \/ mpc' \notin {"uses", "load"}
        /\ mpc' \notin {"discover", "deep", "cycle"}
        /\ mpc' \in {"refused", "ended", "panicked"} => walk = <<>> \/ mpc = "refused"
    BY <1>8 DEF LinkFile, Flatten, GetRules, ReportRefusal, TypeInv, PlaceInv
  <2> QED
    BY <1>1, <1>2, <2>1, <2>2, GraphKept DEF CycleInv, WalkInv, SafeInv, DoneInv, CycleIsReal
<1>9. CASE \/ (\E f \in todo : DiscoverFile(f)) \/ DiscoverReturns \/ FollowPath \/ FollowPackage
           \/ Assemble \/ (\E f \in todo : DeepPathModules(f))
  <2>1. /\ mpc' \in {"discover", "overflow", "deep"} /\ mpc \in {"discover", "deep"}
        /\ cycle' = cycle
    BY <1>9 DEF DiscoverFile, DiscoverReturns, FollowPath, FollowPackage, Enter, Pending,
                Assemble, DeepPathModules
  <2> QED
    BY <1>1, <1>2, <2>1 DEF CycleInv, WalkInv, SafeInv, DoneInv, CycleIsReal
<1> QED
  BY <1>3, <1>4, <1>5, <1>6, <1>7, <1>8, <1>9 DEF ModNext

LEMMA CycleInvariant == ModSpec => []CycleInv
<1>1. TypeInv /\ CycleInv /\ [ModNext]_modVars => CycleInv'
  BY CycleNext
<1> QED
  BY CycleInit, TypeInvariant, <1>1, PTL DEF ModSpec

\* A reported cycle is one (config.go:461-466): its files use one another, from the file
\* that the check started at back to it, and the list has no files of dead ends.
THEOREM ReportedCyclesAreReal == ModSpec => []CycleIsReal
<1>1. CycleInv => CycleIsReal
  BY DEF CycleInv, WalkInv
<1> QED
  BY CycleInvariant, <1>1, PTL

\* No list of modules is made while known files use one another in a circle, at whichever
\* file the check starts and in whichever order it goes on (config.go:460, 743-757).
THEOREM CyclesAreRefused == ModSpec => []CycleIsRefused
<1>1. CycleInv => CycleIsRefused
  BY DEF CycleInv, DoneInv, CycleIsRefused
<1> QED
  BY CycleInvariant, <1>1, PTL

-----------------------------------------------------------------------------
(* The recursions without a visited set.                                    *)

\* Along R a way leads from f to g: through every set that nothing leads out of.
Leads(R, f, g) ==
    \A S \in SUBSET DOMAIN files : Onward(R, {f}) \subseteq S /\ Onward(R, S) \subseteq S => g \in S

LEMMA LeadsOn ==
  ASSUME NEW R, NEW f, NEW g, NEW h \in DOMAIN files, R[<<g, h>>], g = f \/ Leads(R, f, g)
  PROVE  Leads(R, f, h)
BY DEF Leads, Onward

LEMMA LeadsBack ==
  ASSUME NEW R, NEW f \in DOMAIN files, Leads(R, f, f)
  PROVE  f \in OnCycle(R)
BY DEF Leads, OnCycle

\* A call for at has the root ws that the uses of at are joined to.
Based(at, ws) ==
    \/ ws = WS /\ Len(at) >= 1 /\ at[1] = "ws"
    \/ ws = <<"home", at[2]>> /\ Len(at) >= 2 /\ at[1] = "home" /\ at[2] # "."

\* A call for a file goes on with its uses, one for a directory with the files in it.
FrameFits(c) ==
    /\ Based(c.at, c.ws)
    /\ IF c.at \in DOMAIN files THEN ToSet(c.left) \subseteq ToSet(Uses(c.at))
       ELSE \A g \in ToSet(c.left) : g \in DOMAIN files \cup RuleFiles /\ Dir(g) = c.at

\* The module files that a path leads to.
Reached(at) == IF at \in DOMAIN files THEN {at} ELSE {g \in DOMAIN files : Dir(g) = at}

\* Every open call is on the way from the files of the calls that it was made by.
Opened(s) ==
    /\ \A i \in DOMAIN s : FrameFits(s[i])
    /\ \A i \in 1 .. Len(s) - 1 : s[i].at \notin DOMAIN files =>
           s[i + 1].at \in DOMAIN files /\ Dir(s[i + 1].at) = s[i].at
    /\ \A i, j \in 1 .. Len(s) : i < j /\ s[i].at \in DOMAIN files =>
           \A h \in Reached(s[j].at) : Leads(Follows, s[i].at, h)

\* The same of the calls of checkCycle.
Checked(w) == \A i, j \in 1 .. Len(w) : i < j => Leads(Names, w[i].at, w[j].at)

OverflowInv ==
    /\ mpc = "discover" => Opened(stack)
    /\ mpc = "discover" => \A f \in todo : Begins(f, WS)
    /\ mpc = "cycle" => Checked(walk)
    /\ OverflowHasCycle

LEMMA RootsOfPaths ==
  ASSUME NEW p \in Paths
  PROVE  /\ Begins(p, WS) <=> Len(p) >= 1 /\ p[1] = "ws"
         /\ Begins(p, HOME) <=> Len(p) >= 1 /\ p[1] = "home"
         /\ IsHome(p) <=> Len(p) >= 1 /\ p[1] \in {"selefra", "app"}
         /\ IsOrg(p) <=> Len(p) >= 1 /\ p[1] = "app"
BY BeginsOne, RootNames DEF IsHome, IsOrg

LEMMA TwoWords ==
  ASSUME NEW s \in Seq(Words), Len(s) = 2
  PROVE  s = <<s[1], s[2]>>
OBVIOUS

\* The directory of a package.
LEMMA PackageRoot ==
  ASSUME NEW x \in Words
  PROVE  HOME \o <<x>> = <<"home", x>>
<1> DEFINE h == <<"home">>
           y == <<x>>
           s == h \o y
<1>1. h \in Seq(Words) /\ Len(h) = 1 /\ h[1] = "home" /\ y \in Seq(Words) /\ Len(y) = 1 /\ y[1] = x
  BY RootNames DEF Paths
<1> HIDE DEF h, y
<1>2. PICK u : u = s
  OBVIOUS
<1> HIDE DEF s
<1>3. /\ u \in Seq(Words) /\ Len(u) = Len(h) + Len(y)
      /\ \A i \in 1 .. Len(h) + Len(y) : u[i] = IF i <= Len(h) THEN h[i] ELSE y[i - Len(h)]
  BY <1>1, <1>2, ConcatProperties DEF s
<1>4. Len(u) = 2 /\ u[1] = "home" /\ u[2] = x
  BY <1>1, <1>3
<1>5. u = <<u[1], u[2]>>
  BY <1>3, <1>4, TwoWords
<1> QED
  BY <1>2, <1>4, <1>5, RootNames DEF s, h, y

LEMMA BaseOfFile ==
  ASSUME NEW p \in Paths, NEW ws, Based(p, ws)
  PROVE  BaseOf(p) = ws /\ ~IsHome(p)
<1>1. ~IsHome(p)
  BY RootsOfPaths DEF Based
<1>2. CASE ws = WS /\ Len(p) >= 1 /\ p[1] = "ws"
  BY <1>1, <1>2, RootsOfPaths DEF BaseOf
<1>3. CASE ws = <<"home", p[2]>> /\ Len(p) >= 2 /\ p[1] = "home" /\ p[2] # "."
  <2>1. p \in Seq(Words) /\ Len(p) >= 2
    BY <1>3 DEF Paths
  <2>2. SubSeq(p, 1, 2) = <<p[1], p[2]>>
    <3> DEFINE s == SubSeq(p, 1, 2)
    <3>1. s \in Seq(Words) /\ Len(s) = 2 /\ s[1] = p[1] /\ s[2] = p[2]
      BY <2>1
    <3> HIDE DEF s
    <3>2. s = <<s[1], s[2]>>
      BY <3>1, TwoWords
    <3> QED
      BY <3>1, <3>2 DEF s
  <2>4. Begins(p, HOME)
    BY <1>3, RootsOfPaths
  <2> QED
    BY <1>1, <1>3, <2>2, <2>4 DEF BaseOf
<1> QED
  BY <1>1, <1>2, <1>3 DEF Based

\* A path joined to a root, a path in a package and a file in a directory have a root.
LEMMA JoinedBased ==
  ASSUME NEW p \in Paths, NEW ws \in Paths, Based(p, ws), NEW u \in Paths
  PROVE  Based(Join(ws, u), ws)
<1>1. CASE ws = WS /\ Len(p) >= 1 /\ p[1] = "ws"
  <2>1. 1 \in 1 .. Len(ws) /\ ws[1] = "ws" /\ \A i \in 1 .. 1 : ws[i] # "."
    BY <1>1, RootNames
  <2>2. 1 <= Len(Join(ws, u)) /\ Join(ws, u)[1] = ws[1]
    BY <2>1, Joined
  <2> QED
    BY <1>1, <2>1, <2>2 DEF Based
<1>2. CASE ws = <<"home", p[2]>> /\ Len(p) >= 2 /\ p[1] = "home" /\ p[2] # "."
  <2>1. Len(ws) = 2 /\ ws[1] = "home" /\ ws[2] = p[2]
    BY <1>2
  <2>2. 2 \in 1 .. Len(ws) /\ \A i \in 1 .. 2 : ws[i] # "."
    BY <1>2, <2>1
  <2>3. 2 <= Len(Join(ws, u)) /\ \A i \in 1 .. 2 : Join(ws, u)[i] = ws[i]
    BY <2>2, Joined
  <2>4. Join(ws, u)[1] = "home" /\ Join(ws, u)[2] = p[2]
    BY <2>1, <2>3
  <2> QED
    BY <1>2, <2>3, <2>4 DEF Based
<1> QED
  BY <1>1, <1>2 DEF Based

LEMMA PackageBased ==
  ASSUME NEW u \in Paths, IsHome(u), Len(u) >= IF IsOrg(u) THEN 3 ELSE 2, PackageOf(u) \in Packages
  PROVE  Based(InHome(u), HOME \o <<PackageOf(u)>>)
<1> DEFINE n == IF IsOrg(u) THEN 2 ELSE 1
           h == InHome(u)
<1>1. u \in Seq(Words) /\ Len(u) \in Nat /\ n \in {1, 2} /\ Len(u) >= n + 1 /\ PackageOf(u) = u[n + 1]
  BY DEF Paths, PackageOf
<1>2. h = HOME \o SubSeq(u, n + 1, Len(u))
  BY DEF InHome, Rest
<1> HIDE DEF n
<1>3. SubSeq(u, n + 1, Len(u)) \in Seq(Words) /\ Len(SubSeq(u, n + 1, Len(u))) >= 1 /\ SubSeq(u, n + 1, Len(u))[1] = u[n + 1]
  BY <1>1
<1>4. Len(h) >= 2 /\ h[1] = "home" /\ h[2] = u[n + 1]
  BY <1>2, <1>3, RootNames
<1> HIDE DEF h
<1>5. h[2] = PackageOf(u) /\ PackageOf(u) # "."
  BY <1>1, <1>4, UseAssumption
<1>6. HOME \o <<PackageOf(u)>> = <<"home", PackageOf(u)>>
  BY PackageRoot, PackageAssumption DEF Words
<1> QED
  BY <1>4, <1>5, <1>6 DEF Based, h

LEMMA FrontOf ==
  ASSUME NEW S, NEW s \in Seq(S), s # <<>>
  PROVE  Len(Front(s)) = Len(s) - 1 /\ Len(s) \in Nat /\ \A i \in 1 .. Len(s) - 1 : Front(s)[i] = s[i]
<1>1. Len(s) \in Nat \ {0} /\ \A i \in 1 .. Len(s) : s[i] \in S
  OBVIOUS
<1>2. Front(s) = SubSeq(s, 1, Len(s) - 1)
  BY DEF Front
<1>3. PICK n : n = Len(s) - 1
  OBVIOUS
<1>4. n \in Nat /\ \A i \in 1 .. n : s[i] \in S
  BY <1>1, <1>3
<1>5. PICK f : f = SubSeq(s, 1, n)
  OBVIOUS
<1>6. Len(f) = (IF 1 <= n THEN n - 1 + 1 ELSE 0) /\ \A i \in 1 .. n - 1 + 1 : f[i] = s[1 + i - 1]
  BY <1>4, <1>5, SubSeqProperties
<1>7. Len(f) = n /\ \A i \in 1 .. n : f[i] = s[i]
  BY <1>4, <1>6
<1> QED
  BY <1>1, <1>2, <1>3, <1>5, <1>7

LEMMA ListedBased ==
  ASSUME NEW p \in Paths, NEW ws, Based(p, ws), NEW g \in Paths \ {<<>>}, Dir(g) = p
  PROVE  Based(g, ws)
<1>1. g \in Seq(Words) /\ g # <<>> /\ p = Front(g)
  BY DEF Paths, Dir
<1>2. Len(p) = Len(g) - 1 /\ Len(g) \in Nat /\ \A i \in 1 .. Len(g) - 1 : p[i] = g[i]
  BY <1>1, FrontOf
<1>3. Len(p) >= 1 => g[1] = p[1]
  BY <1>1, <1>2
<1>4. Len(p) >= 2 => g[2] = p[2]
  BY <1>1, <1>2
<1> QED
  BY <1>1, <1>2, <1>3, <1>4 DEF Based

LEMMA CallFits ==
  ASSUME files \in Contents, NEW at, NEW ws, NEW s, Based(at, ws)
  PROVE  FrameFits(Call(at, ws, OnDisk(s)))
<1> DEFINE D == {f \in OnDisk(s) : Dir(f) = at}
           c == Call(at, ws, OnDisk(s))
<1>1. c.at = at /\ c.ws = ws /\ c.left = IF at \in DOMAIN files THEN Uses(at) ELSE SetToSeq(D)
  BY DEF Call
<1>2. \A g \in ToSet(SetToSeq(D)) : g \in DOMAIN files \cup RuleFiles /\ Dir(g) = at
  <2>1. D \subseteq OnDisk(s) /\ D \subseteq DOMAIN files \cup RuleFiles /\ \A g \in D : Dir(g) = at
    BY DEF OnDisk
  <2>2. IsFiniteSet(D)
    BY <2>1, DiskFacts, FS_Subset
  <2> HIDE DEF D
  <2>3. SetToSeq(D) \in Seq(D)
    BY <2>2, Listed
  <2>4. \A i \in DOMAIN SetToSeq(D) : SetToSeq(D)[i] \in D
    BY <2>3, ElementsAre
  <2> QED
    BY <2>1, <2>4 DEF ToSet
<1> HIDE DEF D, c
<1> QED
  BY <1>1, <1>2 DEF FrameFits, c

\* What the top call leads to next, with the root that its uses are joined to.
NextAt(at, ws) ==
    /\ Based(at, ws)
    /\ Top.at \in DOMAIN files => \A h \in Reached(at) : Follows[<<Top.at, h>>]
    /\ Top.at \notin DOMAIN files => at \in DOMAIN files \cup RuleFiles /\ Dir(at) = Top.at

\* A module file follows what its uses lead to.
LEMMA UseFollows ==
  ASSUME files \in Contents, NEW f \in DOMAIN files, NEW u \in ToSet(Uses(f)),
         NEW h \in Reached(Target(f, u))
  PROVE  Follows[<<f, h>>]
<1>1. h \in DOMAIN files /\ (h = Target(f, u) \/ Dir(h) = Target(f, u))
  BY DEF Reached
<1> QED
  BY <1>1 DEF Follows

\* The uses of a file are paths; that of a package names it.
LEMMA UseFacts ==
  ASSUME files \in Contents, NEW f \in DOMAIN files, NEW u \in ToSet(Uses(f))
  PROVE  u \in Paths /\ (IsHome(u) => Len(u) >= IF IsOrg(u) THEN 3 ELSE 2)
<1>1. u \in UsesOf(files[f]) /\ Uses(f) \in Seq(Paths)
  BY FileUses
<1>2. u \in Paths
  BY <1>1 DEF ToSet
<1>3. PICK i \in DOMAIN files[f] : u \in ToSet(files[f][i].uses)
  BY <1>1 DEF UsesOf
<1>4. PICK k \in DOMAIN files[f][i].uses : u = files[f][i].uses[k]
  BY <1>3 DEF ToSet
<1> QED
  BY <1>2, <1>4, UseAssumption

LEMMA NextOfPath ==
  ASSUME TypeInv, Pending, FrameFits(Top), Top \in Frame, NEW u \in ToSet(Top.left), u \in Paths, ~IsHome(u)
  PROVE  NextAt(IF Top.at \in DOMAIN files THEN Join(Top.ws, u) ELSE u, Top.ws)
<1>1. files \in Contents /\ Top.at \in Paths /\ Top.ws \in Paths /\ Based(Top.at, Top.ws)
  BY DEF TypeInv, FileInv, Frame, FrameFits
<1>2. CASE Top.at \in DOMAIN files
  <2>1. u \in ToSet(Uses(Top.at))
    BY <1>2 DEF FrameFits
  <2>2. Target(Top.at, u) = Join(Top.ws, u)
    BY <1>1, BaseOfFile DEF Target
  <2>3. \A h \in Reached(Join(Top.ws, u)) : Follows[<<Top.at, h>>]
    BY <1>1, <1>2, <2>1, <2>2, UseFollows
  <2>4. Based(Join(Top.ws, u), Top.ws)
    BY <1>1, JoinedBased
  <2> QED
    BY <1>2, <2>3, <2>4 DEF NextAt
<1>3. CASE Top.at \notin DOMAIN files
  <2>1. u \in DOMAIN files \cup RuleFiles /\ Dir(u) = Top.at
    BY <1>3 DEF FrameFits
  <2>2. u \in Paths \ {<<>>}
    BY <1>1, <2>1, FileFacts, ModAssumption
  <2>3. Based(u, Top.ws)
    BY <1>1, <2>1, <2>2, ListedBased
  <2> QED
    BY <1>3, <2>1, <2>3 DEF NextAt
<1> QED
  BY <1>2, <1>3

LEMMA NextOfPackage ==
  ASSUME TypeInv, Pending, FrameFits(Top), Top \in Frame, NEW u \in ToSet(Top.left), IsHome(u), PackageOf(u) \in Packages
  PROVE  NextAt(InHome(u), HOME \o <<PackageOf(u)>>)
<1>1. files \in Contents /\ Top.at \in Paths /\ Top.ws \in Paths /\ Based(Top.at, Top.ws)
  BY DEF TypeInv, FileInv, Frame, FrameFits
<1>2. Top.at \in DOMAIN files
  <2> SUFFICES ASSUME Top.at \notin DOMAIN files PROVE FALSE
    OBVIOUS
  <2>1. u \in DOMAIN files \cup RuleFiles /\ Dir(u) = Top.at
    BY DEF FrameFits
  <2>2. u \in Paths \ {<<>>}
    BY <1>1, <2>1, FileFacts, ModAssumption
  <2>3. Based(u, Top.ws)
    BY <1>1, <2>1, <2>2, ListedBased
  <2> QED
    BY <2>2, <2>3, BaseOfFile
<1>3. u \in ToSet(Uses(Top.at))
  BY <1>2 DEF FrameFits
<1>4. u \in Paths /\ Len(u) >= IF IsOrg(u) THEN 3 ELSE 2
  BY <1>1, <1>2, <1>3, UseFacts
<1>5. Target(Top.at, u) = InHome(u)
  BY DEF Target
<1>6. \A h \in Reached(InHome(u)) : Follows[<<Top.at, h>>]
  BY <1>1, <1>2, <1>3, <1>5, UseFollows
<1>7. Based(InHome(u), HOME \o <<PackageOf(u)>>)
  BY <1>4, PackageBased
<1> QED
  BY <1>2, <1>6, <1>7 DEF NextAt

LEMMA SkippedOpened ==
  ASSUME TypeInv, Pending, Opened(stack)
  PROVE  Opened(Skipped)
<1> DEFINE n == Len(stack)
<1>1. stack \in Seq(Frame) /\ stack # <<>> /\ Top.left # <<>>
  BY DEF TypeInv, ListInv, Pending
<1>2. n \in DOMAIN stack /\ DOMAIN stack = 1 .. n /\ n \in Nat /\ stack[n] \in Frame /\ Top = stack[n]
  BY <1>1 DEF Top, Last
<1>3. /\ Skipped \in Seq(Frame) /\ Len(Skipped) = n /\ DOMAIN Skipped = 1 .. n
      /\ \A i \in 1 .. n : Skipped[i].at = stack[i].at /\ Skipped[i].ws = stack[i].ws
  BY <1>1, <1>2, SkippedFrames
<1>4. \A i \in 1 .. n : ToSet(Skipped[i].left) \subseteq ToSet(stack[i].left)
  <2>1. \A i \in 1 .. n : i # n => Skipped[i].left = stack[i].left
    BY <1>2 DEF Skipped
  <2>2. Skipped[n].left = Tail(stack[n].left)
    BY <1>2 DEF Skipped
  <2>3. stack[n].left \in Seq(Paths) /\ stack[n].left # <<>>
    BY <1>1, <1>2 DEF Frame
  <2>4. ToSet(Tail(stack[n].left)) \subseteq ToSet(stack[n].left)
    BY <2>3, TailElements
  <2> QED
    BY <2>1, <2>2, <2>4
<1>5. \A i \in 1 .. n : FrameFits(Skipped[i])
  <2> SUFFICES ASSUME NEW i \in 1 .. n PROVE FrameFits(Skipped[i])
    OBVIOUS
  <2>1. FrameFits(stack[i])
    BY <1>2 DEF Opened
  <2> QED
    BY <1>3, <1>4, <2>1 DEF FrameFits
<1> HIDE DEF n
<1>6. /\ \A i \in 1 .. n - 1 : stack[i].at \notin DOMAIN files =>
             stack[i + 1].at \in DOMAIN files /\ Dir(stack[i + 1].at) = stack[i].at
      /\ \A i, j \in 1 .. n : i < j /\ stack[i].at \in DOMAIN files =>
             \A h \in Reached(stack[j].at) : Leads(Follows, stack[i].at, h)
  BY DEF Opened, n
<1>7. \A i \in 1 .. n - 1 : i \in 1 .. n /\ i + 1 \in 1 .. n
  BY <1>2
<1>8. \A i \in 1 .. n - 1 : Skipped[i].at \notin DOMAIN files =>
          Skipped[i + 1].at \in DOMAIN files /\ Dir(Skipped[i + 1].at) = Skipped[i].at
  BY <1>3, <1>6, <1>7
<1>9. \A i, j \in 1 .. n : i < j /\ Skipped[i].at \in DOMAIN files =>
          \A h \in Reached(Skipped[j].at) : Leads(Follows, Skipped[i].at, h)
  BY <1>3, <1>6
<1> QED
  BY <1>3, <1>5, <1>8, <1>9 DEF Opened

\* From the file of every open call a way leads to the files that are next.
LEMMA NextIsLed ==
  ASSUME TypeInv, Pending, Opened(stack), NEW at, NEW ws, NextAt(at, ws),
         NEW i \in 1 .. Len(stack), stack[i].at \in DOMAIN files, NEW h \in Reached(at)
  PROVE  Leads(Follows, stack[i].at, h)
<1> DEFINE n == Len(stack)
<1>1. stack \in Seq(Frame) /\ stack # <<>> /\ files \in Contents
  BY DEF TypeInv, FileInv, ListInv, Pending
<1>2. n \in 1 .. n /\ n \in Nat /\ Top = stack[n]
  BY <1>1 DEF Top, Last
<1>3. ASSUME i # n, NEW g \in Reached(Top.at)
      PROVE  Leads(Follows, stack[i].at, g)
  <2>1. i < n /\ i \in 1 .. n /\ g \in Reached(stack[n].at)
    BY <1>2, <1>3
  <2>2. \A k, j \in 1 .. n : k < j /\ stack[k].at \in DOMAIN files =>
            \A x \in Reached(stack[j].at) : Leads(Follows, stack[k].at, x)
    BY DEF Opened
  <2> HIDE DEF n
  <2> QED
    BY <1>2, <2>1, <2>2
<1>4. h \in DOMAIN files
  BY DEF Reached
<1>5. CASE Top.at \in DOMAIN files
  <2>1. Follows[<<Top.at, h>>]
    BY <1>5 DEF NextAt
  <2>2. Top.at \in Reached(Top.at)
    BY <1>5 DEF Reached
  <2>3. Top.at = stack[i].at \/ Leads(Follows, stack[i].at, Top.at)
    BY <1>2, <1>3, <2>2
  <2> QED
    BY <1>4, <2>1, <2>3, LeadsOn
<1>6. CASE Top.at \notin DOMAIN files
  <2>1. i # n
    BY <1>2, <1>6
  <2>2. at \in DOMAIN files \cup RuleFiles /\ Dir(at) = Top.at
    BY <1>6 DEF NextAt
  <2>3. CASE at \in DOMAIN files
    <3>1. h = at /\ at \in Reached(Top.at)
      BY <1>6, <2>2, <2>3 DEF Reached
    <3> QED
      BY <1>3, <2>1, <3>1
  <2>4. CASE at \notin DOMAIN files
    <3>1. Dir(h) = at /\ at \in DOMAIN files \cup RuleFiles
      BY <2>2, <2>4 DEF Reached
    <3> QED
      BY <1>1, <1>4, <3>1, UseAssumption
  <2> QED
    BY <2>3, <2>4
<1> QED
  BY <1>5, <1>6

\* A recursion into an open call has found a cycle.
LEMMA ReentryIsCycle ==
  ASSUME TypeInv, Pending, Opened(stack), NEW at, NEW ws, NextAt(at, ws),
         NEW i \in DOMAIN stack, stack[i].at = at
  PROVE  OnCycle(Follows) # {}
<1> DEFINE n == Len(stack)
<1>1. stack \in Seq(Frame) /\ stack # <<>> /\ files \in Contents /\ DOMAIN stack = 1 .. n
  BY DEF TypeInv, FileInv, ListInv, Pending
<1>2. n \in 1 .. n /\ n \in Nat /\ Top = stack[n]
  BY <1>1 DEF Top, Last
<1>3. CASE at \in DOMAIN files
  <2>1. at \in Reached(at)
    BY <1>3 DEF Reached
  <2>2. Leads(Follows, at, at)
    BY <1>1, <1>3, <2>1, NextIsLed
  <2> QED
    BY <1>3, <2>2, LeadsBack
<1>4. CASE at \notin DOMAIN files
  <2>1. i # n
    <3> SUFFICES ASSUME i = n PROVE FALSE
      OBVIOUS
    <3>1. at \in DOMAIN files \cup RuleFiles /\ Dir(at) = at
      BY <1>2, <1>4 DEF NextAt
    <3> QED
      BY <1>1, <3>1, UseAssumption
  <2>2. i \in 1 .. n - 1 /\ i + 1 \in 1 .. n
    BY <1>1, <1>2, <2>1
  <2>3. stack[i + 1].at \in DOMAIN files /\ Dir(stack[i + 1].at) = at
    BY <1>4, <2>2 DEF Opened
  <2>4. stack[i + 1].at \in Reached(at)
    BY <1>4, <2>3 DEF Reached
  <2>5. Leads(Follows, stack[i + 1].at, stack[i + 1].at)
    BY <2>2, <2>3, <2>4, NextIsLed
  <2> QED
    BY <2>3, <2>5, LeadsBack
<1> QED
  BY <1>3, <1>4

LEMMA AppendedOpened ==
  ASSUME TypeInv, Pending, Opened(stack), NEW at \in Paths, NEW ws \in Paths, NEW s, NextAt(at, ws),
         at \in (OnDisk(s) \cap DOMAIN files) \cup {Dir(f) : f \in OnDisk(s)}
  PROVE  Opened(Append(Skipped, Call(at, ws, OnDisk(s))))
<1> DEFINE n == Len(stack)
           c == Call(at, ws, OnDisk(s))
           t == Append(Skipped, c)
<1>1. stack \in Seq(Frame) /\ stack # <<>> /\ Top.left # <<>> /\ files \in Contents
  BY DEF TypeInv, FileInv, ListInv, Pending
<1>2. n \in 1 .. n /\ n \in Nat /\ Top = stack[n]
  BY <1>1 DEF Top, Last
<1>3. /\ Skipped \in Seq(Frame) /\ Len(Skipped) = n
      /\ \A i \in 1 .. n : Skipped[i].at = stack[i].at
  BY <1>1, <1>2, SkippedFrames
<1>4. Opened(Skipped)
  BY SkippedOpened
<1>5. c \in Frame /\ c.at = at /\ FrameFits(c)
  <2>1. c.at = at
    BY DEF Call
  <2> QED
    BY <1>1, <2>1, CallType, CallFits DEF NextAt
<1>6. Top.at \notin DOMAIN files => at \in DOMAIN files /\ Dir(at) = Top.at
  <2> SUFFICES ASSUME Top.at \notin DOMAIN files PROVE at \in DOMAIN files /\ Dir(at) = Top.at
    OBVIOUS
  <2>1. at \in DOMAIN files \cup RuleFiles /\ Dir(at) = Top.at
    BY DEF NextAt
  <2>2. at \in DOMAIN files \/ \E f \in DOMAIN files \cup RuleFiles : at = Dir(f)
    BY DEF OnDisk
  <2> QED
    BY <1>1, <2>1, <2>2, UseAssumption
<1>7. \A i \in 1 .. n : stack[i].at \in DOMAIN files =>
          \A h \in Reached(at) : Leads(Follows, stack[i].at, h)
  BY NextIsLed
<1> HIDE DEF n, c
<1>8. /\ t \in Seq(Frame) /\ Len(t) = n + 1 /\ DOMAIN t = 1 .. n + 1
      /\ \A i \in 1 .. n : t[i] = Skipped[i]
      /\ t[n + 1] = c
  BY <1>2, <1>3, <1>5
<1> HIDE DEF t
<1>9. \A i \in 1 .. n + 1 : i \in 1 .. n \/ i = n + 1
  BY <1>2
<1>10. \A i \in DOMAIN t : FrameFits(t[i])
  <2>1. \A i \in 1 .. n : FrameFits(Skipped[i])
    BY <1>3, <1>4 DEF Opened
  <2> QED
    BY <1>5, <1>8, <1>9, <2>1
<1>11. \A i \in 1 .. n : t[i].at \notin DOMAIN files =>
           t[i + 1].at \in DOMAIN files /\ Dir(t[i + 1].at) = t[i].at
  <2> SUFFICES ASSUME NEW i \in 1 .. n, t[i].at \notin DOMAIN files
               PROVE  t[i + 1].at \in DOMAIN files /\ Dir(t[i + 1].at) = t[i].at
    OBVIOUS
  <2>1. CASE i = n
    BY <1>2, <1>3, <1>5, <1>6, <1>8, <2>1
  <2>2. CASE i # n
    <3>1. i \in 1 .. n - 1 /\ i + 1 \in 1 .. n
      BY <1>2, <2>2
    <3>2. Skipped[i].at \notin DOMAIN files =>
              Skipped[i + 1].at \in DOMAIN files /\ Dir(Skipped[i + 1].at) = Skipped[i].at
      BY <1>3, <1>4, <3>1 DEF Opened
    <3> QED
      BY <1>8, <3>1, <3>2
  <2> QED
    BY <2>1, <2>2
<1>12. ASSUME NEW i \in 1 .. n + 1, NEW j \in 1 .. n + 1, i < j, t[i].at \in DOMAIN files,
              NEW h \in Reached(t[j].at)
       PROVE  Leads(Follows, t[i].at, h)
  <2>1. i \in 1 .. n
    BY <1>2, <1>12
  <2>2. CASE j = n + 1
    BY <1>3, <1>5, <1>7, <1>8, <1>12, <2>1, <2>2
  <2>3. CASE j \in 1 .. n
    <3>1. Skipped[i].at \in DOMAIN files /\ h \in Reached(Skipped[j].at)
      BY <1>8, <1>12, <2>1, <2>3
    <3>2. \A k, l \in 1 .. n : k < l /\ Skipped[k].at \in DOMAIN files =>
              \A x \in Reached(Skipped[l].at) : Leads(Follows, Skipped[k].at, x)
      BY <1>3, <1>4 DEF Opened
    <3>3. Leads(Follows, Skipped[i].at, h)
      BY <1>12, <2>1, <2>3, <3>1, <3>2
    <3> QED
      BY <1>8, <2>1, <3>3
  <2> QED
    BY <1>9, <2>2, <2>3
<1>13. \A i \in 1 .. Len(t) - 1 : i \in 1 .. n
  BY <1>2, <1>8
<1>14. Opened(t)
  BY <1>8, <1>10, <1>11, <1>12, <1>13 DEF Opened
<1> QED
  BY <1>14 DEF t, c

LEMMA EnterOpened ==
  ASSUME TypeInv, Pending, Opened(stack), NEW at \in Paths, NEW ws \in Paths, NEW s, NextAt(at, ws),
         Enter(at, ws, OnDisk(s))
  PROVE  /\ mpc' = "overflow" => OnCycle(Follows) # {}
         /\ mpc' = "discover" => Opened(stack')
<1>1. CASE \E i \in DOMAIN stack : stack[i].at = at
  <2>1. mpc' = "overflow"
    BY <1>1 DEF Enter
  <2> QED
    BY <1>1, <2>1, ReentryIsCycle
<1>2. CASE ~\E i \in DOMAIN stack : stack[i].at = at
  <2>1. mpc' = mpc /\ mpc = "discover"
    BY <1>2 DEF Enter, Pending
  <2>2. \/ stack' = Skipped
        \/ /\ stack' = Append(Skipped, Call(at, ws, OnDisk(s)))
           /\ at \in (OnDisk(s) \cap DOMAIN files) \cup {Dir(f) : f \in OnDisk(s)}
    BY <1>2 DEF Enter
  <2>3. Opened(stack')
    <3>1. CASE stack' = Skipped
      BY <3>1, SkippedOpened
    <3>2. CASE /\ stack' = Append(Skipped, Call(at, ws, OnDisk(s)))
               /\ at \in (OnDisk(s) \cap DOMAIN files) \cup {Dir(f) : f \in OnDisk(s)}
      <4>1. Opened(Append(Skipped, Call(at, ws, OnDisk(s))))
        BY <3>2, AppendedOpened
      <4> QED
        BY <3>2, <4>1
    <3> QED
      BY <2>2, <3>1, <3>2
  <2> QED
    BY <2>1, <2>3
<1> QED
  BY <1>1, <1>2

LEMMA FollowOpened ==
  ASSUME TypeInv, Opened(stack), FollowPath \/ FollowPackage
  PROVE  /\ mpc' = "overflow" => OnCycle(Follows) # {}
         /\ mpc' = "discover" => Opened(stack')
<1> DEFINE n == Len(stack)
<1>1. /\ Pending /\ stack \in Seq(Frame) /\ stack # <<>> /\ Top.left # <<>>
      /\ n \in DOMAIN stack /\ Top = stack[n]
  BY DEF TypeInv, ListInv, Pending, FollowPath, FollowPackage, Top, Last
<1>2. Top \in Frame /\ FrameFits(Top)
  BY <1>1 DEF Opened
<1>3. PICK u : u = Head(Top.left)
  OBVIOUS
<1>4. u \in Paths /\ u \in ToSet(Top.left)
  <2>1. Top.left \in Seq(Paths)
    BY <1>2 DEF Frame
  <2> QED
    BY <1>1, <1>3, <2>1, TailElements
<1>5. CASE FollowPath
  <2>1. ~IsHome(u) /\ Enter(IF Top.at \in DOMAIN files THEN Join(Top.ws, u) ELSE u, Top.ws, OnDisk(pkgs))
    BY <1>3, <1>5 DEF FollowPath, AllFiles
  <2>2. PICK at : at = IF Top.at \in DOMAIN files THEN Join(Top.ws, u) ELSE u
    OBVIOUS
  <2>3. at \in Paths /\ Top.ws \in Paths
    BY <1>2, <1>4, <2>2, Joined DEF Frame
  <2>4. NextAt(at, Top.ws)
    BY <1>1, <1>2, <1>4, <2>1, <2>2, NextOfPath
  <2>5. Enter(at, Top.ws, OnDisk(pkgs))
    BY <2>1, <2>2
  <2> QED
    BY <1>1, <2>3, <2>4, <2>5, EnterOpened
<1>6. CASE FollowPackage
  <2>1. IsHome(u)
    BY <1>3, <1>6 DEF FollowPackage
  <2>2. PICK r \in ModulesUpdate(pkgs, u) :
           IF r.ok THEN Enter(InHome(u), HOME \o <<PackageOf(u)>>, OnDisk(r.pkgs))
           ELSE stack' = Skipped /\ UNCHANGED <<mpc, mods>>
    BY <1>3, <1>6 DEF FollowPackage
  <2>3. r.ok \in BOOLEAN /\ (r.ok => PackageOf(u) \in Packages)
    BY UpdateTypes DEF TypeInv, PkgInv, PkgStates
  <2>4. CASE r.ok
    <3>1. InHome(u) \in Paths /\ HOME \o <<PackageOf(u)>> \in Paths
      BY <1>4, <2>3, <2>4, PackageAssumption, PathParts DEF Words
    <3>2. NextAt(InHome(u), HOME \o <<PackageOf(u)>>)
      BY <1>1, <1>2, <1>4, <2>1, <2>3, <2>4, NextOfPackage
    <3>3. Enter(InHome(u), HOME \o <<PackageOf(u)>>, OnDisk(r.pkgs))
      BY <2>2, <2>4
    <3> QED
      BY <1>1, <3>1, <3>2, <3>3, EnterOpened
  <2>5. CASE ~r.ok
    <3>1. stack' = Skipped /\ mpc' = mpc /\ mpc = "discover"
      BY <1>1, <2>2, <2>5 DEF Pending
    <3> QED
      BY <1>1, <3>1, SkippedOpened
  <2> QED
    BY <2>3, <2>4, <2>5
<1> QED
  BY <1>5, <1>6

LEMMA ReturnOpened ==
  ASSUME TypeInv, Opened(stack), stack # <<>>
  PROVE  Opened(Front(stack))
<1> DEFINE n == Len(stack)
           t == Front(stack)
<1>1. stack \in Seq(Frame) /\ n \in Nat \ {0} /\ DOMAIN stack = 1 .. n
  BY DEF TypeInv, ListInv
<1>2. Len(t) = n - 1 /\ \A i \in 1 .. n - 1 : t[i] = stack[i]
  BY <1>1, FrontOf
<1>3. DOMAIN t = 1 .. n - 1
  <2>1. t \in Seq(Frame)
    BY <1>1 DEF Front
  <2> QED
    BY <1>2, <2>1
<1> HIDE DEF t
<1>4. \A i \in DOMAIN t : FrameFits(t[i])
  <2>1. \A i \in 1 .. n : FrameFits(stack[i])
    BY <1>1 DEF Opened
  <2> QED
    BY <1>1, <1>2, <1>3, <2>1
<1>5. \A i \in 1 .. Len(t) - 1 : t[i].at \notin DOMAIN files =>
          t[i + 1].at \in DOMAIN files /\ Dir(t[i + 1].at) = t[i].at
  <2> SUFFICES ASSUME NEW i \in 1 .. Len(t) - 1, t[i].at \notin DOMAIN files
               PROVE  t[i + 1].at \in DOMAIN files /\ Dir(t[i + 1].at) = t[i].at
    OBVIOUS
  <2>1. i \in 1 .. n - 1 /\ i + 1 \in 1 .. n - 1
    BY <1>1, <1>2
  <2>2. stack[i].at \notin DOMAIN files => stack[i + 1].at \in DOMAIN files /\ Dir(stack[i + 1].at) = stack[i].at
    BY <2>1 DEF Opened
  <2> QED
    BY <1>2, <2>1, <2>2
<1>6. \A i, j \in 1 .. Len(t) : i < j /\ t[i].at \in DOMAIN files =>
          \A h \in Reached(t[j].at) : Leads(Follows, t[i].at, h)
  <2>1. \A i, j \in 1 .. n : i < j /\ stack[i].at \in DOMAIN files =>
            \A h \in Reached(stack[j].at) : Leads(Follows, stack[i].at, h)
    BY DEF Opened
  <2> HIDE DEF n
  <2>2. \A i \in 1 .. Len(t) : i \in 1 .. n /\ t[i] = stack[i]
    BY <1>1, <1>2
  <2> QED
    BY <2>1, <2>2
<1>7. Opened(t)
  BY <1>4, <1>5, <1>6 DEF Opened
<1> QED
  BY <1>7 DEF t

LEMMA DiscoverOpened ==
  ASSUME TypeInv, NEW f \in todo, Begins(f, WS)
  PROVE  Opened(<<Call(f, WS, AllFiles)>>)
<1>1. f \in Paths /\ files \in Contents
  BY FileFacts DEF TypeInv, FileInv
<1>2. Based(f, WS)
  BY <1>1, RootsOfPaths DEF Based
<1>3. FrameFits(Call(f, WS, OnDisk(pkgs)))
  BY <1>1, <1>2, CallFits
<1> DEFINE c == Call(f, WS, OnDisk(pkgs))
<1> HIDE DEF c
<1>4. Opened(<<c>>)
  <2>1. Len(<<c>>) = 1 /\ DOMAIN <<c>> = {1} /\ <<c>>[1] = c
    OBVIOUS
  <2>2. FrameFits(c)
    BY <1>3 DEF c
  <2>3. \A i, j \in 1 .. 1 : ~(i < j)
    OBVIOUS
  <2> QED
    BY <2>1, <2>2, <2>3 DEF Opened
<1> QED
  BY <1>4 DEF c, AllFiles

\* What does not change when the files do not.
LEMMA WaysKept ==
  ASSUME files' = files
  PROVE  /\ OnCycle(Follows)' = OnCycle(Follows) /\ OnCycle(Names)' = OnCycle(Names)
         /\ \A s : (Opened(s)' <=> Opened(s)) /\ (Checked(s)' <=> Checked(s))
<1>1. Names' = Names /\ Follows' = Follows
  BY DEF Names, Follows, Uses
<1>2. OnCycle(Follows)' = OnCycle(Follows) /\ OnCycle(Names)' = OnCycle(Names)
  BY <1>1 DEF OnCycle, Onward
<1>3. \A c : (FrameFits(c)' <=> FrameFits(c)) /\ Reached(c)' = Reached(c)
  BY DEF FrameFits, Reached, Uses
<1>4. \A s : Opened(s)' <=> Opened(s)
  BY <1>1, <1>3 DEF Opened, Leads, Onward
<1>5. \A s : Checked(s)' <=> Checked(s)
  BY <1>1 DEF Checked, Leads, Onward
<1> QED
  BY <1>2, <1>4, <1>5

LEMMA DiscoverNext ==
  ASSUME TypeInv, OverflowInv,
         (\E f \in todo : DiscoverFile(f)) \/ FollowPath \/ FollowPackage \/ DiscoverReturns
  PROVE  OverflowInv'
<1>1. /\ mpc = "discover" /\ mpc' \in {"discover", "overflow"} /\ files' = files /\ todo' \subseteq todo
  BY DEF DiscoverFile, FollowPath, FollowPackage, DiscoverReturns, Enter, Pending
<1>2. Opened(stack)
  BY <1>1 DEF OverflowInv
<1>3. /\ mpc' = "overflow" => OnCycle(Follows) # {}
      /\ mpc' = "discover" => Opened(stack')
  <2>1. CASE \E f \in todo : DiscoverFile(f)
    <3>1. PICK f \in todo : DiscoverFile(f)
      BY <2>1
    <3>2. stack' = <<Call(f, WS, AllFiles)>> /\ mpc' = "discover" /\ Begins(f, WS)
      BY <3>1, <1>1 DEF DiscoverFile, OverflowInv
    <3>3. Opened(<<Call(f, WS, AllFiles)>>)
      BY <3>2, DiscoverOpened
    <3> QED
      BY <3>2, <3>3
  <2>2. CASE FollowPath \/ FollowPackage
    BY <1>2, <2>2, FollowOpened
  <2>3. CASE DiscoverReturns
    <3>1. stack' = Front(stack) /\ stack # <<>> /\ mpc' = "discover"
      BY <2>3 DEF DiscoverReturns
    <3>2. Opened(Front(stack))
      BY <1>2, <3>1, ReturnOpened
    <3> QED
      BY <3>1, <3>2
  <2> QED
    BY <2>1, <2>2, <2>3
<1> QED
  BY <1>1, <1>3, WaysKept DEF OverflowInv, OverflowHasCycle

LEMMA CheckNext ==
  ASSUME TypeInv, CycleInv, OverflowInv, (\E f \in todo : CheckFile(f)) \/ CheckPath \/ CheckReturns
  PROVE  OverflowInv'
<1> DEFINE n == Len(walk)
<1>1. /\ mpc = "cycle" /\ mpc' \in {"cycle", "refused", "overflow"} /\ files' = files
      /\ walk \in Seq(Turns) /\ Checked(walk) /\ n \in Nat
  BY DEF CheckFile, CheckPath, CheckReturns, TypeInv, ListInv, OverflowInv
<1>2. CASE \E f \in todo : CheckFile(f)
  <2>1. Len(walk') = 1 /\ mpc' = "cycle"
    BY <1>2 DEF CheckFile
  <2>2. Checked(walk')
    BY <2>1 DEF Checked
  <2> QED
    BY <1>1, <2>1, <2>2, WaysKept DEF OverflowInv, OverflowHasCycle
<1>3. CASE CheckReturns
  <2>1. walk # <<>> /\ walk' = Front(walk) /\ mpc' = "cycle"
    BY <1>3 DEF CheckReturns
  <2>2. Len(walk') = n - 1 /\ \A i \in 1 .. n - 1 : walk'[i] = walk[i]
    BY <1>1, <2>1, FrontOf
  <2>3. \A i \in 1 .. n - 1 : i \in 1 .. n
    BY <1>1
  <2>4. \A i, j \in 1 .. n : i < j => Leads(Names, walk[i].at, walk[j].at)
    BY <1>1 DEF Checked
  <2> HIDE DEF n
  <2>5. Checked(walk')
    BY <2>2, <2>3, <2>4 DEF Checked
  <2> QED
    BY <1>1, <2>1, <2>5, WaysKept DEF OverflowInv, OverflowHasCycle
<1>4. CASE CheckPath
  <2>1. PICK p : p = Head(Turn.left)
    OBVIOUS
  <2> DEFINE x == [walk[n] EXCEPT !.left = Tail(@)]
             y == CallFor(p)
  <2>2. /\ walk # <<>> /\ Turn.left # <<>> /\ walk' = Append([walk EXCEPT ![n] = x], y)
        /\ mpc' = "overflow" => \E i \in DOMAIN walk : walk[i].at = p
    BY <1>4, <2>1 DEF CheckPath
  <2>3. n \in 1 .. n /\ DOMAIN walk = 1 .. n /\ walk[n] \in Turns /\ Turn = walk[n] /\ n \in Nat
    BY <1>1, <2>2 DEF Turn, Last
  <2>4. walk[n].left \in Seq(known) /\ walk[n].left # <<>> /\ p = Head(walk[n].left)
    BY <2>1, <2>2, <2>3 DEF Turns
  <2>5. p \in known /\ p \in ToSet(walk[n].left) /\ Tail(walk[n].left) \in Seq(known)
    BY <2>4, TailElements
  <2>6. p \in DOMAIN files /\ Names[<<walk[n].at, p>>]
    <3>1. Checks(walk, cycle)
      BY <1>1 DEF CycleInv, WalkInv
    <3> QED
      BY <2>3, <2>5, <3>1 DEF Checks, TypeInv, FileInv
  <2>7. \A i \in 1 .. n : i = n \/ Leads(Names, walk[i].at, walk[n].at)
    <3>1. \A i \in 1 .. n : i = n \/ i < n
      <4> HIDE DEF n
      <4> QED
        BY <2>3
    <3> QED
      BY <1>1, <2>3, <3>1 DEF Checked
  <2>8. \A i \in 1 .. n : Leads(Names, walk[i].at, p)
    BY <2>6, <2>7, LeadsOn
  <2>9. x.at = walk[n].at /\ x \in Turns /\ y.at = p /\ y \in Turns
    BY <2>3, <2>5, EdgesOfFile DEF Turns, CallFor
  <2> HIDE DEF n, x, y
  <2>10. Len(walk') = n + 1 /\ walk'[n + 1].at = p /\ \A i \in 1 .. n : walk'[i].at = walk[i].at
    <3> DEFINE w == [walk EXCEPT ![n] = x]
    <3>1. w \in Seq(Turns) /\ Len(w) = n /\ \A i \in 1 .. n : w[i].at = walk[i].at
      BY <1>1, <2>3, <2>9 DEF n
    <3> HIDE DEF w
    <3>2. Len(walk') = n + 1 /\ walk'[n + 1] = y /\ \A i \in 1 .. n : walk'[i] = w[i]
      BY <2>2, <2>3, <2>9, <3>1 DEF w
    <3> QED
      BY <2>9, <3>1, <3>2
  <2>11. Checked(walk')
    <3> SUFFICES ASSUME NEW i \in 1 .. n + 1, NEW j \in 1 .. n + 1, i < j
                 PROVE  Leads(Names, walk'[i].at, walk'[j].at)
      BY <2>10 DEF Checked
    <3>1. i \in 1 .. n /\ (j = n + 1 \/ j \in 1 .. n)
      BY <2>3
    <3>2. CASE j = n + 1
      BY <2>8, <2>10, <3>1, <3>2
    <3>3. CASE j \in 1 .. n
      <4>1. Leads(Names, walk[i].at, walk[j].at)
        BY <1>1, <3>1, <3>3 DEF Checked, n
      <4> QED
        BY <2>10, <3>1, <3>3, <4>1
    <3> QED
      BY <3>1, <3>2, <3>3
  <2>12. mpc' = "overflow" => OnCycle(Names) # {}
    <3> SUFFICES ASSUME mpc' = "overflow" PROVE OnCycle(Names) # {}
      OBVIOUS
    <3>1. PICK i \in 1 .. n : walk[i].at = p
      BY <2>2, <2>3
    <3>2. Leads(Names, p, p)
      BY <2>8, <3>1
    <3> QED
      BY <2>6, <3>2, LeadsBack
  <2> QED
    BY <1>1, <2>11, <2>12, WaysKept DEF OverflowInv, OverflowHasCycle
<1> QED
  BY <1>2, <1>3, <1>4

LEMMA OverflowNext ==
  ASSUME TypeInv, CycleInv, OverflowInv, [ModNext]_modVars
  PROVE  OverflowInv'
<1>1. CASE (\E f \in todo : DiscoverFile(f)) \/ FollowPath \/ FollowPackage \/ DiscoverReturns
  BY <1>1, DiscoverNext
<1>2. CASE (\E f \in todo : CheckFile(f)) \/ CheckPath \/ CheckReturns
  BY <1>2, CheckNext
<1>3. CASE UNCHANGED modVars
  BY <1>3, WaysKept DEF modVars, OverflowInv, OverflowHasCycle
<1>4. CASE \/ Assemble \/ (\E f \in todo : DeepPathModules(f)) \/ DeepPathEnds \/ CheckEnds
           \/ (\E f \in todo : LinkFile(f)) \/ Flatten \/ GetRules \/ ReportRefusal
  <2>1. mpc' \notin {"discover", "overflow"} /\ (mpc' = "cycle" => mpc = "deep" /\ walk' = walk)
    BY <1>4 DEF Assemble, DeepPathModules, DeepPathEnds, CheckEnds, LinkFile, Flatten, GetRules, ReportRefusal
  <2>2. mpc' = "cycle" => Len(walk') = 0
    BY <2>1 DEF TypeInv, PlaceInv
  <2>3. mpc' = "cycle" => Checked(walk)'
    BY <2>2 DEF Checked
  <2> QED
    BY <2>1, <2>3 DEF OverflowInv, OverflowHasCycle
<1> QED
  BY <1>1, <1>2, <1>3, <1>4 DEF ModNext

LEMMA OverflowInit == ModInit => OverflowInv
<1> SUFFICES ASSUME ModInit PROVE OverflowInv
  OBVIOUS
<1>1. stack = <<>> /\ walk = <<>> /\ mpc = "discover" /\ \A f \in todo : Begins(f, WS)
  BY DEF ModInit
<1>2. Opened(stack)
  BY <1>1 DEF Opened
<1> QED
  BY <1>1, <1>2 DEF OverflowInv, OverflowHasCycle

\* The discovery and the check, which recurse without a visited set (config.go:504, 743),
\* exhaust the stack only when a module file uses itself, directly or through others: for
\* the discovery along uses of files, of directories and of packages.
THEOREM OverflowsAreCycles == ModSpec => []OverflowHasCycle
<1>1. TypeInv /\ CycleInv /\ OverflowInv /\ [ModNext]_modVars => OverflowInv'
  BY OverflowNext
<1>2. OverflowInv => OverflowHasCycle
  BY DEF OverflowInv
<1> QED
  BY OverflowInit, TypeInvariant, CycleInvariant, <1>1, <1>2, PTL DEF ModSpec


-----------------------------------------------------------------------------
(* The version of a package.                                                *)

\* The known files name no package but p, by the name that updates it.
Own(p) ==
    \A f \in known : \A u \in UsesOf(files[f]) :
        ~IsOrg(u) /\ ~Begins(u, HOME) /\ (IsHome(u) => PackageOf(u) = p)

\* What updates of p alone leave: the latest version that was fetched is that of p, and
\* where it is recorded no older one is installed.
Consistent(p, s) ==
    p \in Packages => /\ s.latest \in {None, Latest[p]}
                      /\ s.recorded[p] = Latest[p] => s.installed[p] \in {Latest[p], None, Other}

Fresh(p, s) == p \in Packages /\ s.installed[p] \in {Latest[p], Other}

\* The uses from which no rule of an older version of p is read.
Sound(p, s) ==
    {x \in Paths : /\ IsHome(x) => ~IsOrg(x) /\ PackageOf(x) = p
                   /\ Begins(x, HOME) => Fresh(p, s)}

LatestInv ==
    /\ mpc = "discover" =>
          \A i \in DOMAIN stack : stack[i].at \in DOMAIN files => stack[i].at \in known
    /\ \A p : Own(p) =>
          /\ Consistent(p, pkgs)
          /\ mpc = "uses" => mods \in MapsOf(Sound(p, pkgs))
          /\ mpc = "load" => loaded \in Seq(FlatOf(Sound(p, pkgs)))
          /\ mpc = "loaded" => \A r \in ToSet(rules) : Begins(r.path, HOME) => Fresh(p, pkgs)

\* An update of p that succeeds leaves no older version of it.
LEMMA UpdateFresh ==
  ASSUME NEW s \in PkgStates, NEW u, ~IsOrg(u), NEW p, p = PackageOf(u), Consistent(p, s),
         NEW r \in ModulesUpdate(s, u)
  PROVE  Consistent(p, r.pkgs) /\ (r.ok => Fresh(p, r.pkgs))
<1>0. r = [ok |-> FALSE, pkgs |-> s] \/ (p \in Packages /\ r \in UpdatePackage(s, p))
  BY DEF ModulesUpdate
<1>1. CASE r = [ok |-> FALSE, pkgs |-> s]
  BY <1>1 DEF Consistent
<1>2. CASE p \in Packages /\ r \in UpdatePackage(s, p)
  <2> DEFINE v == IF s.latest = None THEN Latest[p] ELSE s.latest
             t == [s EXCEPT !.latest = v]
             d == Left(t, p, v)
  <2>1. v = Latest[p] /\ s.latest \in {None, Latest[p]}
    BY <1>2 DEF Consistent
  <2>2. s.recorded[p] = Latest[p] => s.installed[p] \in {Latest[p], None, Other}
    BY <1>2 DEF Consistent
  <2>3. \/ UpToDate(s, p, v) /\ r = [ok |-> TRUE, pkgs |-> t]
        \/ r \in Torn(t, p)
        \/ r \in Recorded(d, p, v)
    BY <1>2 DEF UpdatePackage
  <2> HIDE DEF v
  <2>4. v \in Versions
    BY <1>2, <2>1, LatestIsVersion
  <2>5. t \in PkgStates /\ t.latest = Latest[p] /\ t.recorded = s.recorded /\ t.installed = s.installed
    BY <2>1, <2>4 DEF PkgStates
  <2> HIDE DEF t
  <2>6. d \in PkgStates /\ d.latest = Latest[p] /\ d.installed[p] = Latest[p]
    <3>1. d \in PkgStates
      BY <1>2, <2>4, <2>5, LeftTypes
    <3> QED
      BY <1>2, <2>1, <2>5, <3>1 DEF Left, PkgStates, Shelf
  <2> HIDE DEF d
  <2>7. CASE UpToDate(s, p, v) /\ r = [ok |-> TRUE, pkgs |-> t]
    BY <1>2, <2>1, <2>2, <2>5, <2>7 DEF UpToDate, Consistent, Fresh
  <2>8. CASE r \in Torn(t, p)
    <3>1. /\ r.ok = FALSE /\ r.pkgs.latest = t.latest /\ r.pkgs.recorded = t.recorded
          /\ r.pkgs.installed[p] \in {t.installed[p], None, Other}
      BY <1>2, <2>5, <2>8, TornTypes
    <3> QED
      BY <2>2, <2>5, <3>1 DEF Consistent
  <2>9. CASE r \in Recorded(d, p, v)
    <3>1. r.pkgs.latest = d.latest /\ r.pkgs.installed = d.installed
      BY <1>2, <2>4, <2>6, <2>9, RecordedTypes
    <3> QED
      BY <1>2, <2>6, <3>1 DEF Consistent, Fresh
  <2> QED
    BY <2>3, <2>7, <2>8, <2>9
<1> QED
  BY <1>0, <1>1, <1>2

LEMMA SoundPaths ==
  ASSUME NEW p, NEW s
  PROVE  /\ Sound(p, s) \in SUBSET Paths
         /\ \A t : (Fresh(p, s) => Fresh(p, t)) => Sound(p, s) \subseteq Sound(p, t)
BY DEF Sound

\* Uses that are joined to the directory of a sound file are sound.
LEMMA SoundClosed ==
  ASSUME TypeInv, NEW p, NEW s
  PROVE  Closed(Sound(p, s))
<1> SUFFICES ASSUME NEW d \in known, d \in Sound(p, s), NEW x \in Sound(p, s)
             PROVE  Join(Dir(d), x) \in Sound(p, s)
  BY SoundPaths DEF Closed
<1>1. d \in Paths \ {<<>>} /\ x \in Paths /\ IsAbs(d) /\ Len(d) > 1
  BY FileFacts, UseAssumption DEF TypeInv, FileInv, Sound
<1>2. d[1] \in {"ws", "home"} /\ (d[1] = "home" => Fresh(p, s))
  BY <1>1, RootsOfPaths DEF IsAbs, Sound
<1>3. Dir(d) \in Paths /\ Len(Dir(d)) >= 1 /\ Dir(d)[1] = d[1]
  <2>1. d \in Seq(Words) /\ d # <<>>
    BY <1>1 DEF Paths
  <2>2. Len(Front(d)) = Len(d) - 1 /\ \A i \in 1 .. Len(d) - 1 : Front(d)[i] = d[i]
    BY <2>1, FrontOf
  <2>3. Len(d) - 1 >= 1 /\ 1 \in 1 .. Len(d) - 1
    BY <1>1, <2>1
  <2> QED
    BY <1>1, <2>2, <2>3, PathParts DEF Dir
<1>4. 1 \in 1 .. Len(Dir(d)) /\ \A i \in 1 .. 1 : Dir(d)[i] # "."
  BY <1>2, <1>3, RootNames DEF Paths
<1>5. /\ Join(Dir(d), x) \in Paths /\ Len(Join(Dir(d), x)) >= 1
      /\ Join(Dir(d), x)[1] = d[1]
  BY <1>1, <1>3, <1>4, Joined
<1> QED
  BY <1>2, <1>5, RootsOfPaths DEF Sound

\* No rule of an older version of p is read from a sound use.
LEMMA SoundRead ==
  ASSUME NEW p, NEW s, NEW u \in Sound(p, s)
  PROVE  ReadAs(u) \in Paths /\ (Begins(ReadAs(u), HOME) => Fresh(p, s))
<1>1. u \in Paths
  BY DEF Sound
<1>2. ReadAs(u) \in Paths
  BY <1>1, ReadPaths
<1>3. CASE IsAbs(u) \/ IsURL(u)
  BY <1>2, <1>3 DEF ReadAs, Sound
<1>4. CASE ~(IsAbs(u) \/ IsURL(u))
  <2>1. ReadAs(u) = Join(WS, u)
    BY <1>4 DEF ReadAs
  <2>2. 1 \in 1 .. Len(WS) /\ WS[1] = "ws" /\ \A i \in 1 .. 1 : WS[i] # "."
    BY RootNames
  <2>3. Join(WS, u) \in Paths /\ Len(Join(WS, u)) >= 1 /\ Join(WS, u)[1] = "ws"
    BY <1>1, <2>2, Joined, RootNames
  <2> QED
    BY <2>1, <2>3, RootsOfPaths
<1> QED
  BY <1>3, <1>4

LEMMA LatestInit == ModInit => LatestInv
<1> SUFFICES ASSUME ModInit PROVE LatestInv
  OBVIOUS
<1>1. stack = <<>> /\ mpc = "discover"
  BY DEF ModInit
<1>2. \A p : Consistent(p, pkgs)
  <2>1. PICK s \in Shelves :
           pkgs = [latest |-> None, recorded |-> s.recorded, installed |-> s.installed, readable |-> TRUE]
    BY DEF ModInit
  <2>2. pkgs.latest = None /\ pkgs.recorded = s.recorded /\ pkgs.installed = s.installed
    BY <2>1
  <2> QED
    BY <2>2, PackageAssumption DEF Consistent
<1> QED
  BY <1>1, <1>2 DEF LatestInv

\* What is known of fewer files.
LEMMA OwnKept ==
  ASSUME files' = files, known \subseteq known', NEW p, Own(p)'
  PROVE  Own(p)
BY DEF Own, UsesOf

\* A call that is open for a module file is open for a known one.
LEMMA EnterKnown ==
  ASSUME TypeInv, Pending, NEW at \in Paths, NEW ws \in Paths, NEW s, Enter(at, ws, OnDisk(s)),
         \A i \in DOMAIN stack : stack[i].at \in DOMAIN files => stack[i].at \in known
  PROVE  mpc' = "discover" =>
            \A i \in DOMAIN stack' : stack'[i].at \in DOMAIN files => stack'[i].at \in known'
<1> SUFFICES ASSUME mpc' = "discover"
             PROVE  \A i \in DOMAIN stack' : stack'[i].at \in DOMAIN files => stack'[i].at \in known'
  OBVIOUS
<1>1. known \subseteq known'
  BY EnterTypes
<1>2. /\ Skipped \in Seq(Frame) /\ Len(Skipped) = Len(stack)
      /\ \A i \in DOMAIN stack : Skipped[i].at = stack[i].at
  <2>1. stack \in Seq(Frame) /\ stack # <<>> /\ Top.left # <<>>
    BY DEF TypeInv, ListInv, Pending
  <2> QED
    BY <2>1, SkippedFrames
<1>3. DOMAIN Skipped = DOMAIN stack
  BY <1>2 DEF TypeInv, ListInv
<1> DEFINE c == Call(at, ws, OnDisk(s))
<1>4. /\ stack' = IF at \in (OnDisk(s) \cap DOMAIN files) \cup {Dir(f) : f \in OnDisk(s)}
                  THEN Append(Skipped, c) ELSE Skipped
      /\ mods' = [f \in known \cup ({at} \cap OnDisk(s) \cap DOMAIN files) |-> <<>>]
  BY DEF Enter
<1>5. c.at = at
  BY DEF Call
<1> HIDE DEF c
<1>6. CASE stack' = Skipped
  BY <1>1, <1>2, <1>3, <1>6
<1>7. CASE stack' # Skipped
  <2>1. at \in (OnDisk(s) \cap DOMAIN files) \cup {Dir(f) : f \in OnDisk(s)} /\ stack' = Append(Skipped, c)
    BY <1>4, <1>7
  <2>2. at \in DOMAIN files => at \in known'
    <3> SUFFICES ASSUME at \in DOMAIN files PROVE at \in known'
      OBVIOUS
    <3>1. OnDisk(s) \subseteq DOMAIN files \cup RuleFiles /\ files \in Contents
      BY DEF OnDisk, TypeInv, FileInv
    <3>2. \A f \in OnDisk(s) : Dir(f) # at
      BY <3>1, UseAssumption
    <3>3. at \in OnDisk(s)
      BY <2>1, <3>2
    <3> QED
      BY <1>4, <3>3 DEF known
  <2>3. ASSUME NEW i \in DOMAIN stack'
        PROVE  stack'[i].at = at \/ (i \in DOMAIN stack /\ stack'[i].at = stack[i].at)
    <3>1. CASE i = Len(Skipped) + 1
      BY <1>2, <1>5, <2>1, <3>1
    <3>2. CASE i # Len(Skipped) + 1
      <4>1. i \in DOMAIN Skipped /\ stack'[i] = Skipped[i]
        BY <1>2, <2>1, <3>2
      <4> QED
        BY <1>2, <1>3, <4>1
    <3> QED
      BY <3>1, <3>2
  <2> QED
    BY <1>1, <2>2, <2>3
<1> QED
  BY <1>6, <1>7

\* A use of a package is followed for a known file that has it.
LEMMA PackageUser ==
  ASSUME TypeInv, OverflowInv, LatestInv, FollowPackage
  PROVE  LET u == Head(Top.left)
         IN  u \in Paths /\ IsHome(u) /\ \E f \in known : u \in UsesOf(files[f])
<1> DEFINE u == Head(Top.left)
           n == Len(stack)
<1>1. /\ Pending /\ stack \in Seq(Frame) /\ stack # <<>> /\ Top.left # <<>> /\ IsHome(u)
      /\ n \in DOMAIN stack /\ Top = stack[n] /\ mpc = "discover"
  BY DEF TypeInv, ListInv, Pending, FollowPackage, Top, Last
<1>2. Top \in Frame /\ FrameFits(Top) /\ files \in Contents
  BY <1>1 DEF OverflowInv, Opened, TypeInv, FileInv
<1>3. u \in Paths /\ u \in ToSet(Top.left)
  <2>1. Top.left \in Seq(Paths)
    BY <1>2 DEF Frame
  <2> QED
    BY <1>1, <2>1, TailElements
<1> HIDE DEF u
<1>4. Top.at \in DOMAIN files
  <2> SUFFICES ASSUME Top.at \notin DOMAIN files PROVE FALSE
    OBVIOUS
  <2>1. u \in DOMAIN files \cup RuleFiles
    BY <1>2, <1>3 DEF FrameFits
  <2>2. IsAbs(u)
    BY <1>2, <2>1, UseAssumption
  <2> QED
    BY <1>1, <1>3, <2>2, RootsOfPaths DEF IsAbs
<1>5. Top.at \in known
  BY <1>1, <1>4 DEF LatestInv
<1>6. u \in UsesOf(files[Top.at])
  BY <1>2, <1>3, <1>4, FileUses DEF FrameFits
<1> QED
  BY <1>1, <1>3, <1>5, <1>6 DEF u

LEMMA FollowLatest ==
  ASSUME TypeInv, OverflowInv, LatestInv, FollowPath \/ FollowPackage
  PROVE  LatestInv'
<1> DEFINE u == Head(Top.left)
<1>1. /\ Pending /\ stack \in Seq(Frame) /\ stack # <<>> /\ Top.left # <<>>
      /\ Top \in Frame /\ mpc = "discover" /\ files' = files
      /\ \A i \in DOMAIN stack : stack[i].at \in DOMAIN files => stack[i].at \in known
  BY DEF TypeInv, ListInv, Pending, FollowPath, FollowPackage, Top, Last, LatestInv
<1>2. u \in Paths
  <2>1. Top.left \in Seq(Paths)
    BY <1>1 DEF Frame
  <2> QED
    BY <1>1, <2>1, TailElements
<1>3. /\ known \subseteq known' /\ mpc' \in {"discover", "overflow"}
      /\ mpc' = "discover" =>
            \A i \in DOMAIN stack' : stack'[i].at \in DOMAIN files' => stack'[i].at \in known'
  <2>1. CASE FollowPath
    <3>1. Enter(IF Top.at \in DOMAIN files THEN Join(Top.ws, u) ELSE u, Top.ws, OnDisk(pkgs))
      BY <2>1 DEF FollowPath, AllFiles
    <3>2. PICK at : at = IF Top.at \in DOMAIN files THEN Join(Top.ws, u) ELSE u
      OBVIOUS
    <3>3. at \in Paths /\ Top.ws \in Paths
      BY <1>1, <1>2, <3>2, Joined DEF Frame
    <3>4. Enter(at, Top.ws, OnDisk(pkgs))
      BY <3>1, <3>2
    <3> QED
      BY <1>1, <3>3, <3>4, EnterTypes, EnterKnown
  <2>2. CASE FollowPackage
    <3>1. PICK r \in ModulesUpdate(pkgs, u) :
             IF r.ok THEN Enter(InHome(u), HOME \o <<PackageOf(u)>>, OnDisk(r.pkgs))
             ELSE stack' = Skipped /\ UNCHANGED <<mpc, mods>>
      BY <2>2 DEF FollowPackage
    <3>2. r.ok \in BOOLEAN /\ (r.ok => PackageOf(u) \in Packages)
      BY UpdateTypes DEF TypeInv, PkgInv, PkgStates
    <3>3. CASE r.ok
      <4>1. InHome(u) \in Paths /\ HOME \o <<PackageOf(u)>> \in Paths
        BY <1>2, <3>2, <3>3, PackageAssumption, PathParts DEF Words
      <4>2. Enter(InHome(u), HOME \o <<PackageOf(u)>>, OnDisk(r.pkgs))
        BY <3>1, <3>3
      <4> QED
        BY <1>1, <4>1, <4>2, EnterTypes, EnterKnown
    <3>4. CASE ~r.ok
      <4>1. stack' = Skipped /\ mpc' = mpc /\ known' = known
        BY <3>1, <3>4 DEF known
      <4>2. /\ Skipped \in Seq(Frame) /\ Len(Skipped) = Len(stack)
            /\ \A i \in DOMAIN stack : Skipped[i].at = stack[i].at
        BY <1>1, SkippedFrames
      <4>3. DOMAIN Skipped = DOMAIN stack
        BY <1>1, <4>2
      <4> QED
        BY <1>1, <4>1, <4>2, <4>3
    <3> QED
      BY <3>2, <3>3, <3>4
  <2> QED
    BY <2>1, <2>2
<1>4. ASSUME NEW p, Own(p)'
      PROVE  Consistent(p, pkgs')
  <2>1. Own(p)
    BY <1>1, <1>3, <1>4, OwnKept
  <2>2. Consistent(p, pkgs)
    BY <2>1 DEF LatestInv
  <2>3. CASE FollowPath
    <3>1. pkgs' = pkgs
      BY <2>3 DEF FollowPath
    <3> QED
      BY <2>2, <3>1
  <2>4. CASE FollowPackage
    <3>1. PICK r \in ModulesUpdate(pkgs, u) : pkgs' = r.pkgs
      BY <2>4 DEF FollowPackage
    <3>2. ~IsOrg(u) /\ PackageOf(u) = p
      BY <2>1, <2>4, PackageUser DEF Own
    <3>3. pkgs \in PkgStates
      BY DEF TypeInv, PkgInv, PkgStates
    <3> HIDE DEF u
    <3>4. Consistent(p, r.pkgs)
      BY <2>2, <3>2, <3>3, UpdateFresh
    <3> QED
      BY <3>1, <3>4
  <2> QED
    BY <2>3, <2>4
<1> QED
  BY <1>3, <1>4 DEF LatestInv, Consistent

\* The steps that neither install nor rewrite anything.
LEMMA QuietLatest ==
  ASSUME TypeInv, LatestInv,
         \/ (\E f \in todo : DiscoverFile(f)) \/ DiscoverReturns \/ Assemble
         \/ (\E f \in todo : DeepPathModules(f)) \/ DeepPathEnds
         \/ (\E f \in todo : CheckFile(f)) \/ CheckPath \/ CheckReturns \/ ReportRefusal
  PROVE  LatestInv'
<1>1. /\ files' = files /\ pkgs' = pkgs
      /\ mpc' \in {"discover", "deep", "cycle", "overflow", "refused", "ended", "panicked"}
      /\ mpc' = "discover" => mods' = mods /\ mpc = "discover"
  BY DEF DiscoverFile, DiscoverReturns, Assemble, DeepPathModules, DeepPathEnds, CheckFile,
         CheckPath, CheckReturns, ReportRefusal
<1>2. known' = known
  <2>1. CASE Assemble
    BY <2>1 DEF Assemble, known
  <2>2. CASE \E f \in todo : DeepPathModules(f)
    BY <2>2, DeepPathTypes
  <2>3. CASE ~Assemble /\ ~\E f \in todo : DeepPathModules(f)
    BY <2>3 DEF DiscoverFile, DiscoverReturns, DeepPathEnds, CheckFile,
                CheckPath, CheckReturns, ReportRefusal, known
  <2> QED
    BY <2>1, <2>2, <2>3
<1>3. mpc' = "discover" =>
         \A i \in DOMAIN stack' : stack'[i].at \in DOMAIN files' => stack'[i].at \in known'
  <2> SUFFICES ASSUME mpc' = "discover", NEW i \in DOMAIN stack', stack'[i].at \in DOMAIN files
               PROVE  stack'[i].at \in known
    BY <1>1, <1>2
  <2>1. (\E f \in todo : DiscoverFile(f)) \/ DiscoverReturns
    BY <1>1 DEF Assemble, DeepPathModules, DeepPathEnds, CheckFile, CheckPath, CheckReturns, ReportRefusal
  <2>2. CASE \E f \in todo : DiscoverFile(f)
    <3>1. PICK f \in todo : stack' = <<Call(f, WS, AllFiles)>>
      BY <2>2 DEF DiscoverFile
    <3>2. stack'[i].at = f
      BY <3>1 DEF Call
    <3> QED
      BY <3>2 DEF TypeInv, FileInv
  <2>3. CASE DiscoverReturns
    <3>1. stack \in Seq(Frame) /\ stack # <<>> /\ stack' = Front(stack)
      BY <2>3 DEF DiscoverReturns, TypeInv, ListInv
    <3>2. Len(stack') = Len(stack) - 1 /\ Len(stack) \in Nat
          /\ \A j \in 1 .. Len(stack) - 1 : stack'[j] = stack[j]
      BY <3>1, FrontOf
    <3>3. DOMAIN stack' = 1 .. Len(stack')
      BY <3>1 DEF Front
    <3>4. i \in DOMAIN stack /\ stack'[i] = stack[i]
      BY <3>1, <3>2, <3>3
    <3> QED
      BY <1>1, <3>4 DEF LatestInv
  <2> QED
    BY <2>1, <2>2, <2>3
<1>4. \A p : Own(p)' => Own(p)
  BY <1>1, <1>2, OwnKept
<1> QED
  BY <1>1, <1>3, <1>4 DEF LatestInv, Consistent

\* The uses of the known files are sound when they are about to be linked.
LEMMA CheckedLatest ==
  ASSUME TypeInv, UsesInv, LatestInv, CheckEnds
  PROVE  LatestInv'
<1>1. files' = files /\ pkgs' = pkgs /\ mods' = mods /\ known' = known /\ mpc = "cycle" /\ mpc' = "uses"
  BY DEF CheckEnds, known
<1>2. ASSUME NEW p, Own(p)
      PROVE  mods \in MapsOf(Sound(p, pkgs))
  <2>1. mods \in [known -> Seq(Module)]
    BY DEF TypeInv, FileInv
  <2>2. ASSUME NEW f \in known
        PROVE  mods[f] \in Seq(ModuleOf(Sound(p, pkgs)))
    <3>1. mods[f] \in Seq(Module)
      BY <2>1
    <3>2. ASSUME NEW i \in DOMAIN mods[f]
          PROVE  mods[f][i] \in ModuleOf(Sound(p, pkgs))
      <4>1. mods[f][i] \in Module
        BY <3>1, <3>2, ElementsAre
      <4>2. mods[f][i].uses \in Seq(Paths)
        BY <4>1 DEF Module, ModuleOf
      <4>3. \A k \in DOMAIN mods[f][i].uses : mods[f][i].uses[k] \in UsesOf(files[f])
        <5>1. \A k \in DOMAIN mods[f][i].uses : mods[f][i].uses[k] \in UsesOf(mods[f])
          BY <3>2 DEF UsesOf, ToSet
        <5> QED
          BY <1>1, <5>1 DEF UsesInv
      <4>4. \A k \in DOMAIN mods[f][i].uses : mods[f][i].uses[k] \in Sound(p, pkgs)
        BY <1>2, <4>2, <4>3 DEF Own, Sound
      <4>5. mods[f][i].uses \in Seq(Sound(p, pkgs))
        BY <4>2, <4>4
      <4> QED
        BY <4>1, <4>5 DEF Module, ModuleOf
    <3> QED
      BY <3>1, <3>2
  <2> QED
    BY <2>1, <2>2 DEF MapsOf
<1>3. \A p : Own(p)' <=> Own(p)
  BY <1>1 DEF Own, UsesOf
<1>4. \A p : MapsOf(Sound(p, pkgs))' = MapsOf(Sound(p, pkgs))
  BY <1>1 DEF MapsOf, ModuleOf, Sound, Fresh
<1> QED
  BY <1>1, <1>2, <1>3, <1>4 DEF LatestInv, Consistent

LEMMA FlattenLatest ==
  ASSUME TypeInv, LatestInv, Flatten
  PROVE  LatestInv'
<1>1. /\ files' = files /\ pkgs' = pkgs /\ mods' = mods /\ known' = known
      /\ mpc = "uses" /\ mpc' \in {"refused", "load"}
  BY DEF Flatten, known
<1>2. ASSUME NEW p, Own(p), mpc' = "load"
      PROVE  loaded' \in Seq(FlatOf(Sound(p, pkgs)))
  BY <1>1, <1>2, FlattenedUses DEF LatestInv
<1>3. \A p : Own(p)' <=> Own(p)
  BY <1>1 DEF Own, UsesOf
<1>4. \A p : Seq(FlatOf(Sound(p, pkgs)))' = Seq(FlatOf(Sound(p, pkgs)))
  BY <1>1 DEF FlatOf, Sound, Fresh
<1> QED
  BY <1>1, <1>2, <1>3, <1>4 DEF LatestInv, Consistent

LEMMA ReadLatest ==
  ASSUME TypeInv, LatestInv, GetRules
  PROVE  LatestInv'
<1>1. /\ files' = files /\ pkgs' = pkgs /\ known' = known /\ mpc = "load" /\ mpc' = "loaded"
  BY DEF GetRules, known
<1>2. ASSUME NEW p, Own(p)
      PROVE  \A r \in ToSet(rules') : Begins(r.path, HOME) => Fresh(p, pkgs)
  <2> DEFINE P == {x \in Paths : Begins(x, HOME) => Fresh(p, pkgs)}
  <2>1. loaded \in Seq(FlatOf(Sound(p, pkgs))) /\ Sound(p, pkgs) \in SUBSET Paths
    BY <1>1, <1>2, SoundPaths DEF LatestInv
  <2>2. \A u \in Sound(p, pkgs) : ReadAs(u) \in P
    BY SoundRead
  <2>3. \A x \in Paths : Begins(x, WS) => x \in P
    BY RootsOfPaths
  <2> HIDE DEF P
  <2>4. \A r \in ToSet(rules') : r.path \in P
    BY <2>1, <2>2, <2>3, RulesRead
  <2> QED
    BY <2>4 DEF P
<1>3. \A p : Own(p)' <=> Own(p)
  BY <1>1 DEF Own, UsesOf
<1> QED
  BY <1>1, <1>2, <1>3 DEF LatestInv, Consistent, Fresh

\* Rewriting the uses of packages leaves p as fresh as it was, and makes it fresh.
LEMMA RewritingLatest ==
  ASSUME TypeInv, NEW p, Consistent(p, pkgs), mods \in MapsOf(Sound(p, pkgs)), NEW f \in known,
         NEW x \in Rewritings(f)
  PROVE  /\ x \in Outcomes /\ Consistent(p, x.pkgs)
         /\ x.ok => /\ x.lost = {} /\ (Fresh(p, pkgs) => Fresh(p, x.pkgs))
                    /\ (\E u \in UsesOf(mods[f]) : IsHome(u)) => Fresh(p, x.pkgs)
<1> DEFINE G == {o \in Outcomes : /\ Consistent(p, o.pkgs)
                                  /\ o.ok => o.lost = {} /\ (Fresh(p, pkgs) => Fresh(p, o.pkgs))}
<1>1. \A u \in UsesOf(mods[f]) : u \in Sound(p, pkgs)
  <2>1. mods[f] \in Seq(ModuleOf(Sound(p, pkgs)))
    BY DEF MapsOf
  <2>2. \A i \in DOMAIN mods[f] : mods[f][i] \in ModuleOf(Sound(p, pkgs))
    BY <2>1, ElementsAre
  <2>3. \A i \in DOMAIN mods[f] : mods[f][i].uses \in Seq(Sound(p, pkgs))
    BY <2>2 DEF ModuleOf
  <2> QED
    BY <2>3, ElementsAre DEF UsesOf, ToSet
<1>2. ASSUME NEW S \in SUBSET G, NEW u \in UsesOf(mods[f]), IsHome(u), NEW at \in Nat \X Nat,
             NEW y \in Rewriting(S, u, at)
      PROVE  y \in G /\ (y.ok => Fresh(p, y.pkgs))
  <2>1. PICK s \in S : y \in IF ~s.ok THEN {s}
                             ELSE {[ok |-> r.ok \/ IsOrg(u), pkgs |-> r.pkgs,
                                    lost |-> IF r.ok THEN s.lost ELSE s.lost \cup {at}] :
                                       r \in ModulesUpdate(s.pkgs, u)}
    BY <1>2 DEF Rewriting
  <2>2. ~IsOrg(u) /\ PackageOf(u) = p /\ u \in Paths
    BY <1>1, <1>2 DEF Sound
  <2>3. s \in G /\ s \in Outcomes
    OBVIOUS
  <2>4. CASE ~s.ok
    BY <2>1, <2>3, <2>4
  <2>5. CASE s.ok
    <3>1. PICK r \in ModulesUpdate(s.pkgs, u) :
             y = [ok |-> r.ok \/ IsOrg(u), pkgs |-> r.pkgs, lost |-> IF r.ok THEN s.lost ELSE s.lost \cup {at}]
      BY <2>1, <2>5
    <3>2. s.pkgs \in PkgStates /\ Consistent(p, s.pkgs) /\ s.lost = {}
      BY <2>3, <2>5 DEF Outcomes
    <3>3. Consistent(p, r.pkgs) /\ (r.ok => Fresh(p, r.pkgs)) /\ r.ok \in BOOLEAN
      BY <2>2, <3>2, UpdateFresh, UpdateTypes
    <3>4. y.pkgs = r.pkgs /\ (y.ok <=> r.ok) /\ (r.ok => y.lost = {})
      BY <2>2, <3>1, <3>2, <3>3
    <3>5. y \in Outcomes
      <4>1. S \in SUBSET Outcomes
        OBVIOUS
      <4> QED
        BY <1>2, <2>2, <4>1, RewritingTypes
    <3> QED
      BY <3>3, <3>4, <3>5
  <2> QED
    BY <2>4, <2>5
<1>3. Unwritten \in G
  BY DEF Unwritten, Outcomes, PkgStates, TypeInv, PkgInv
<1>4. \A S \in SUBSET G : \A at \in Spots(mods[f]) :
          IsHome(UseAt(f, at)) => Rewriting(S, UseAt(f, at), at) \in SUBSET G
  BY <1>2, SpotFacts
<1>5. \A o \in G : /\ o \in Outcomes /\ Consistent(p, o.pkgs)
                   /\ o.ok => o.lost = {} /\ (Fresh(p, pkgs) => Fresh(p, o.pkgs))
  OBVIOUS
<1> HIDE DEF G
<1>6. x \in G
  BY <1>3, <1>4, RewritingsKeep
<1>7. ASSUME \E u \in UsesOf(mods[f]) : IsHome(u), x.ok
      PROVE  Fresh(p, x.pkgs)
  <2>1. PICK S \in SUBSET G, at \in Spots(mods[f]) :
           IsHome(UseAt(f, at)) /\ Rewritings(f) = Rewriting(S, UseAt(f, at), at)
    BY <1>3, <1>4, <1>7, RewritingsKeep
  <2> QED
    BY <1>2, <1>7, <2>1, SpotFacts
<1> QED
  BY <1>5, <1>6, <1>7

\* A sound use is rewritten to one.
LEMMA RewrittenSound ==
  ASSUME NEW p, NEW s, NEW t, Fresh(p, s) => Fresh(p, t), NEW u \in Sound(p, s),
         IsHome(u) => Fresh(p, t), NEW at, NEW lost, at \notin lost
  PROVE  Rewritten(u, at \in lost) \in Sound(p, t)
<1>1. u \in Paths /\ u \in Sound(p, t)
  BY DEF Sound
<1>2. CASE IsHome(u)
  <2> DEFINE h == InHome(u)
             n == IF IsOrg(u) THEN 2 ELSE 1
  <2>1. h \in Paths /\ Rewritten(u, at \in lost) = h
    BY <1>1, <1>2, PathParts DEF Rewritten
  <2>2. Rest(u, n) \in Paths /\ h = HOME \o Rest(u, n)
    BY <1>1, PathParts DEF InHome
  <2> HIDE DEF n
  <2>3. Len(h) >= 1 /\ h[1] = "home"
    BY <2>2, RootNames DEF Paths
  <2> HIDE DEF h
  <2> QED
    BY <1>2, <2>1, <2>3, RootsOfPaths DEF Sound
<1>3. CASE ~IsHome(u)
  BY <1>1, <1>3 DEF Rewritten
<1> QED
  BY <1>2, <1>3

LEMMA LinkLatest ==
  ASSUME TypeInv, LatestInv, NEW f \in todo, LinkFile(f)
  PROVE  LatestInv'
<1> DEFINE m(lost) == [i \in DOMAIN mods[f] |->
                [mods[f][i] EXCEPT !.uses = [k \in DOMAIN @ |-> Rewritten(@[k], <<i, k>> \in lost)]]]
<1>1. PICK r \in Rewritings(f) :
         /\ pkgs' = r.pkgs
         /\ IF r.ok THEN mods' = LinkModules(f, m(r.lost)) /\ UNCHANGED mpc ELSE mpc' = "refused"
  BY DEF LinkFile
<1>2. files' = files /\ known' = known /\ mpc = "uses" /\ f \in known
  BY LinkTypes DEF LinkFile, TypeInv, FileInv
<1>3. ASSUME NEW p, Own(p)
      PROVE  Consistent(p, r.pkgs) /\ (r.ok => mods' \in MapsOf(Sound(p, r.pkgs)))
  <2>1. Consistent(p, pkgs) /\ mods \in MapsOf(Sound(p, pkgs))
    BY <1>2, <1>3 DEF LatestInv
  <2>2. /\ Consistent(p, r.pkgs)
        /\ r.ok => /\ r.lost = {} /\ (Fresh(p, pkgs) => Fresh(p, r.pkgs))
                   /\ (\E u \in UsesOf(mods[f]) : IsHome(u)) => Fresh(p, r.pkgs)
    BY <1>2, <2>1, RewritingLatest
  <2>3. ASSUME r.ok
        PROVE  mods' \in MapsOf(Sound(p, r.pkgs))
    <3> DEFINE U == Sound(p, r.pkgs)
               x == m({})
    <3>1. mods \in MapsOf(U)
      <4>1. Sound(p, pkgs) \subseteq U
        BY <2>2, <2>3, SoundPaths
      <4> HIDE DEF U
      <4>2. Seq(ModuleOf(Sound(p, pkgs))) \subseteq Seq(ModuleOf(U))
        <5>1. ModuleOf(Sound(p, pkgs)) \subseteq ModuleOf(U)
          BY <4>1 DEF ModuleOf
        <5> QED
          BY <5>1
      <4> QED
        BY <2>1, <4>2 DEF MapsOf
    <3>2. x \in Seq(ModuleOf(U))
      <4>1. mods[f] \in Seq(ModuleOf(Sound(p, pkgs))) /\ DOMAIN mods[f] = 1 .. Len(mods[f]) /\ Len(mods[f]) \in Nat
        BY <1>2, <2>1 DEF MapsOf
      <4>2. ASSUME NEW i \in DOMAIN mods[f]
            PROVE  x[i] \in ModuleOf(U)
        <5> DEFINE y == mods[f][i]
                   us == y.uses
                   ws == [k \in DOMAIN us |-> Rewritten(us[k], <<i, k>> \in {})]
        <5>1. y \in ModuleOf(Sound(p, pkgs))
          BY <4>1, <4>2, ElementsAre
        <5>2. us \in Seq(Sound(p, pkgs)) /\ ToSet(us) \subseteq UsesOf(mods[f])
          BY <4>2, <5>1 DEF ModuleOf, UsesOf
        <5> HIDE DEF y
        <5>3. DOMAIN us = 1 .. Len(us) /\ Len(us) \in Nat /\ \A k \in DOMAIN us : us[k] \in ToSet(us)
          BY <5>2 DEF ToSet
        <5> HIDE DEF us
        <5>4. \A k \in DOMAIN us : Rewritten(us[k], <<i, k>> \in {}) \in U
          BY <2>2, <2>3, <5>2, <5>3, RewrittenSound
        <5> HIDE DEF U
        <5>5. ws \in Seq(U)
          BY <5>3, <5>4
        <5> HIDE DEF ws
        <5>6. [y EXCEPT !.uses = ws] \in ModuleOf(U)
          BY <5>1, <5>5 DEF ModuleOf
        <5> QED
          BY <4>2, <5>6 DEF ws, us, y
      <4>3. x \in [DOMAIN mods[f] -> ModuleOf(U)]
        BY <4>2
      <4> HIDE DEF x, U
      <4> QED
        BY <4>1, <4>3
    <3>3. Closed(U)
      BY SoundClosed
    <3> HIDE DEF U
    <3>4. mods' = LinkModules(f, x)
      <4> HIDE DEF x
      <4>1. mods' = LinkModules(f, m(r.lost)) /\ r.lost = {}
        BY <1>1, <2>2, <2>3
      <4> HIDE DEF m
      <4>2. x = m(r.lost)
        BY <4>1 DEF x
      <4> QED
        BY <4>1, <4>2
    <3> HIDE DEF x
    <3>5. mods' \in MapsOf(U)
      BY <1>2, <3>1, <3>2, <3>3, <3>4, LinkModulesTypes
    <3> QED
      BY <3>5 DEF U
  <2> QED
    BY <2>2, <2>3
<1> HIDE DEF m
<1>4. \A p : Own(p)' <=> Own(p)
  BY <1>2 DEF Own, UsesOf
<1>5. mpc' \in {"uses", "refused"} /\ (mpc' = "uses" => r.ok)
  BY <1>1, <1>2
<1>6. \A p : MapsOf(Sound(p, pkgs))' = MapsOf(Sound(p, r.pkgs)) /\ (Consistent(p, pkgs)' <=> Consistent(p, r.pkgs))
  BY <1>1, <1>2 DEF MapsOf, ModuleOf, Sound, Fresh, Consistent
<1> QED
  BY <1>3, <1>4, <1>5, <1>6 DEF LatestInv

LEMMA LatestNext ==
  ASSUME TypeInv, UsesInv, OverflowInv, LatestInv, [ModNext]_modVars
  PROVE  LatestInv'
<1>1. CASE UNCHANGED modVars
  <2>1. /\ files' = files /\ pkgs' = pkgs /\ mods' = mods /\ mpc' = mpc /\ stack' = stack
        /\ loaded' = loaded /\ rules' = rules /\ known' = known
    BY <1>1, StutterTypes DEF modVars
  <2>2. \A p : (Own(p)' <=> Own(p)) /\ (Consistent(p, pkgs)' <=> Consistent(p, pkgs)) /\ (Fresh(p, pkgs)' <=> Fresh(p, pkgs))
    BY <2>1 DEF Own, UsesOf, Consistent, Fresh
  <2>3. \A p : Sound(p, pkgs)' = Sound(p, pkgs)
    BY <2>2 DEF Sound
  <2>4. \A p : /\ MapsOf(Sound(p, pkgs))' = MapsOf(Sound(p, pkgs))
               /\ Seq(FlatOf(Sound(p, pkgs)))' = Seq(FlatOf(Sound(p, pkgs)))
    BY <2>1, <2>3 DEF MapsOf, ModuleOf, FlatOf
  <2> QED
    BY <2>1, <2>2, <2>4 DEF LatestInv
<1>2. CASE FollowPath \/ FollowPackage
  BY <1>2, FollowLatest
<1>3. CASE CheckEnds
  BY <1>3, CheckedLatest
<1>4. CASE \E f \in todo : LinkFile(f)
  BY <1>4, LinkLatest
<1>5. CASE Flatten
  BY <1>5, FlattenLatest
<1>6. CASE GetRules
  BY <1>6, ReadLatest
<1> QED
  BY <1>1, <1>2, <1>3, <1>4, <1>5, <1>6, QuietLatest DEF ModNext

\* A workspace whose modules name one package of the registry, as selefra/<package> (not
\* as app.selefra.io/<org>/<package>, and not by its path in the home), runs no rule of an
\* older version of that package (home.go:252-297): one that is installed is replaced, or
\* the expansion is refused.  What stands in the directory of the package may be an
\* organization's module of its name, or a part of one of them, when the latest version
\* is recorded: the code takes that for the latest version.
THEOREM OnePackageIsLatest == ModSpec => []RulesAreLatest
<1>1. TypeInv /\ UsesInv /\ OverflowInv /\ LatestInv /\ [ModNext]_modVars => LatestInv'
  BY LatestNext
<1>2. LatestInv => RulesAreLatest
  <2> DEFINE uses == {Site(t) : t \in UseSites}
             pkg == {PackageOf(u) : u \in {w \in uses : IsHome(w)}}
  <2> SUFFICES ASSUME LatestInv, mpc = "loaded", NEW p, pkg = {p},
                      \A u \in uses : ~IsOrg(u) /\ ~Begins(u, HOME),
                      NEW r \in ToSet(rules), Begins(r.path, HOME)
               PROVE  pkgs.installed[p] \in {Latest[p], Other}
    BY DEF RulesAreLatest
  <2>1. ASSUME NEW f \in known, NEW u \in UsesOf(files[f])
        PROVE  u \in uses
    <3>1. PICK i \in DOMAIN files[f] : u \in ToSet(files[f][i].uses)
      BY <2>1 DEF UsesOf
    <3>2. PICK k \in DOMAIN files[f][i].uses : u = files[f][i].uses[k]
      BY <3>1 DEF ToSet
    <3>3. <<f, i, k>> \in UseSites
      BY <2>1, <3>1, <3>2 DEF UseSites
    <3>4. Site(<<f, i, k>>) = u
      BY <3>2 DEF Site
    <3> QED
      BY <3>3, <3>4
  <2>2. \A u \in uses : IsHome(u) => PackageOf(u) = p
    OBVIOUS
  <2> HIDE DEF uses, pkg
  <2>3. Own(p)
    BY <2>1, <2>2 DEF Own
  <2> QED
    BY <2>3 DEF LatestInv, Fresh
<1>3. CycleInv => UsesInv
  BY DEF CycleInv
<1>4. TypeInv /\ CycleInv /\ OverflowInv /\ [ModNext]_modVars => OverflowInv'
  BY OverflowNext
<1> QED
  BY LatestInit, OverflowInit, TypeInvariant, CycleInvariant, <1>1, <1>2, <1>3, <1>4, PTL DEF ModSpec

-----------------------------------------------------------------------------
(* Where the uses of the modules of a file lead.                            *)

\* A use, and where a module of an organization leads that could not be fetched.
Value(t) == mods[t[1]][t[2]].uses[t[3]]
Lost(t)  == <<"/">> \o Rest(Site(t), 2)

\* The modules of a file as it declares them.
Unlinked(f) == [i \in DOMAIN files[f] |-> [name |-> <<files[f][i].name>>, uses |-> files[f][i].uses,
                                           value |-> <<>>, children |-> <<>>]]

LEMMA SiteFacts ==
  ASSUME TypeInv, NEW t \in UseSites
  PROVE  /\ t = <<t[1], t[2], t[3]>> /\ t[1] \in known /\ t[2] \in DOMAIN files[t[1]]
         /\ t[3] \in DOMAIN files[t[1]][t[2]].uses
         /\ Site(t) \in Paths
<1>1. PICK f \in known : t \in UNION {{<<f, i, k>> : k \in DOMAIN files[f][i].uses} : i \in DOMAIN files[f]}
  BY DEF UseSites
<1>2. PICK i \in DOMAIN files[f] : t \in {<<f, i, k>> : k \in DOMAIN files[f][i].uses}
  BY <1>1
<1>3. PICK k \in DOMAIN files[f][i].uses : t = <<f, i, k>>
  BY <1>2
<1>4. files[f] \in Seq([name : STRING, uses : Seq(Paths)])
  BY FileFacts DEF TypeInv, FileInv
<1>5. files[f][i] \in [name : STRING, uses : Seq(Paths)]
  BY <1>4, ElementsAre
<1>6. files[f][i].uses[k] \in Paths
  BY <1>5, ElementsAre
<1> QED
  BY <1>3, <1>6 DEF Site

LEMMA SitesAre ==
  ASSUME NEW f \in known, NEW i \in DOMAIN files[f], NEW k \in DOMAIN files[f][i].uses
  PROVE  <<f, i, k>> \in UseSites /\ Site(<<f, i, k>>) = files[f][i].uses[k]
BY DEF UseSites, Site

\* A file begins with the workspace or the home, and has a directory.
LEMMA FileRoot ==
  ASSUME files \in Contents, NEW f \in DOMAIN files \cup RuleFiles
  PROVE  f \in Paths /\ Len(f) > 1 /\ IsAbs(f) /\ f[1] \in {"ws", "home"} /\ Dir(f) # <<>>
<1>1. f \in Paths /\ Len(f) > 1 /\ IsAbs(f)
  <2>1. Len(f) > 1 /\ IsAbs(f)
    BY UseAssumption
  <2>2. f \in Paths
    BY ModAssumption
  <2> QED
    BY <2>1, <2>2
<1>2. f[1] \in {"ws", "home"}
  BY <1>1, BeginsOne, RootNames DEF IsAbs
<1>3. Dir(f) # <<>>
  <2>1. Len(f) \in Nat /\ Len(Front(f)) = Len(f) - 1
    BY <1>1 DEF Front, Paths
  <2>2. Len(Front(f)) # 0 /\ Len(<<>>) = 0
    BY <1>1, <2>1
  <2> QED
    BY <2>2 DEF Dir
<1> QED
  BY <1>1, <1>2, <1>3

LEMMA NothingThere ==
  ASSUME files \in Contents
  PROVE  FilesIn(<<>>) = {} /\ <<>> \notin AllFiles
<1>1. \A p \in AllFiles : Dir(p) # <<>> /\ Len(p) > 1
  BY FileRoot DEF AllFiles, OnDisk
<1>2. Len(<<>>) = 0
  OBVIOUS
<1> QED
  BY <1>1, <1>2 DEF FilesIn

\* Without dotted uses the value of `uses` stays empty, and nothing is multiplied.
LEMMA PlainValue ==
  ASSUME NEW f, NEW m, m.uses \in Seq(Paths), \A k \in DOMAIN m.uses : ~IsDotted(m.uses[k]), NEW b
  PROVE  UsesValue(f, m, b) = <<>>
<1> DEFINE q == [i \in DOMAIN m.uses |-> IF IsDotted(m.uses[i]) THEN Dir(f) ELSE <<>>]
<1>1. q \in Seq(Seq({}))
  <2>1. q = [i \in 1 .. Len(m.uses) |-> <<>>] /\ Len(m.uses) \in Nat
    <3>1. DOMAIN m.uses = 1 .. Len(m.uses) /\ Len(m.uses) \in Nat
      OBVIOUS
    <3> QED
      BY <3>1
  <2>2. <<>> \in Seq({})
    OBVIOUS
  <2> HIDE DEF q
  <2>3. q \in [1 .. Len(m.uses) -> Seq({})]
    BY <2>1, <2>2
  <2> QED
    BY <2>1, <2>3
<1> HIDE DEF q
<1>2. FlattenSeq(q) \in Seq({})
  BY <1>1, FlattenElements
<1>3. FlattenSeq(q) = <<>>
  BY <1>2
<1> QED
  BY <1>3 DEF UsesValue, q

LEMMA PlainLoop ==
  ASSUME TypeInv, NEW f \in known, mods[f] = Unlinked(f)
  PROVE  DeepPathLoop(f)[Len(mods[f])].list = mods[f]
<1> DEFINE n == Len(mods[f])
           L == [list : Seq(Module), stop : BOOLEAN]
           T == {s \in L : s.list = mods[f]}
<1>1. n \in Nat /\ DOMAIN mods[f] = 1 .. n /\ mods[f] \in Seq(Module)
  <2>1. mods[f] \in Seq(Module)
    BY DEF TypeInv, FileInv
  <2> QED
    BY <2>1
<1>2. DeepPathLoop(f)[0] \in T
  <2>1. [list |-> mods[f], stop |-> FALSE] \in L
    BY <1>1
  <2>2. DeepPathLoop(f)[0] = [list |-> mods[f], stop |-> FALSE]
    BY DeepPathResult
  <2> QED
    BY <2>1, <2>2
<1>3. \A i \in 1 .. n : DeepPathLoop(f)[i - 1] \in T => DeepPathLoop(f)[i] \in T
  <2> SUFFICES ASSUME NEW i \in 1 .. n, DeepPathLoop(f)[i - 1] \in T
               PROVE  DeepPathLoop(f)[i] \in T
    OBVIOUS
  <2> DEFINE s == DeepPathLoop(f)[i - 1]
  <2>1. DeepPathLoop(f)[i] = DeepPathModule(f, s, i)
    BY DeepPathResult
  <2>2. s.list = mods[f] /\ s \in L
    OBVIOUS
  <2> HIDE DEF s
  <2>3. i \in DOMAIN files[f] /\ mods[f][i].value = <<>>
    BY <1>1 DEF Unlinked
  <2>4. DeepPathModule(f, s, i) \in {s, [s EXCEPT !.stop = TRUE]}
    BY <2>2, <2>3, NothingThere DEF DeepPathModule, TypeInv, FileInv
  <2>5. [s EXCEPT !.stop = TRUE] \in L /\ [s EXCEPT !.stop = TRUE].list = s.list
    BY <2>2
  <2> QED
    BY <2>1, <2>2, <2>4, <2>5
<1>4. \A s \in T : s.list = mods[f]
  OBVIOUS
<1> HIDE DEF T, n
<1>5. \A i \in 0 .. n : DeepPathLoop(f)[i] \in T
  BY <1>1, <1>2, <1>3, LoopStays
<1>6. n \in 0 .. n
  BY <1>1
<1> QED
  BY <1>4, <1>5, <1>6 DEF n

LEMMA SitesFinite ==
  ASSUME TypeInv
  PROVE  IsFiniteSet(UseSites)
<1> DEFINE At(f, i) == {<<f, i, k>> : k \in DOMAIN files[f][i].uses}
           In(f) == [i \in DOMAIN files[f] |-> At(f, i)]
           All == [f \in known |-> UNION {In(f)[i] : i \in DOMAIN files[f]}]
<1>1. ASSUME NEW f \in known, NEW i \in DOMAIN files[f]
      PROVE  IsFiniteSet(At(f, i))
  <2> DEFINE us == files[f][i].uses
             g == [k \in DOMAIN us |-> <<f, i, k>>]
  <2>1. us \in Seq(Paths)
    <3>1. files[f] \in Seq([name : STRING, uses : Seq(Paths)])
      BY FileFacts DEF TypeInv, FileInv
    <3>2. files[f][i] \in [name : STRING, uses : Seq(Paths)]
      BY <3>1, ElementsAre
    <3> QED
      BY <3>2
  <2> HIDE DEF us
  <2>2. IsFiniteSet(DOMAIN us)
    <3>1. DOMAIN us = 1 .. Len(us) /\ Len(us) \in Int /\ 1 \in Int
      BY <2>1
    <3> QED
      BY <3>1, FS_Interval
  <2>3. g \in Surjection(DOMAIN us, {<<f, i, k>> : k \in DOMAIN us})
    BY DEF Surjection
  <2>4. IsFiniteSet({<<f, i, k>> : k \in DOMAIN us})
    BY <2>2, <2>3, FS_Surjection
  <2> QED
    BY <2>4 DEF us
<1>2. ASSUME NEW f \in known
      PROVE  IsFiniteSet(All[f])
  <2>1. IsFiniteSet(DOMAIN files[f])
    <3>1. files[f] \in Seq([name : STRING, uses : Seq(Paths)])
      BY FileFacts DEF TypeInv, FileInv
    <3>2. DOMAIN files[f] = 1 .. Len(files[f]) /\ Len(files[f]) \in Int /\ 1 \in Int
      BY <3>1
    <3> QED
      BY <3>2, FS_Interval
  <2>2. \A i \in DOMAIN files[f] : IsFiniteSet(In(f)[i])
    BY <1>1
  <2>3. All[f] = UNION {In(f)[i] : i \in DOMAIN files[f]}
    OBVIOUS
  <2> HIDE DEF In, All
  <2> QED
    BY <2>1, <2>2, <2>3, FiniteUnion
<1>3. IsFiniteSet(known)
  BY FileFacts, FS_Subset DEF TypeInv, FileInv
<1>4. UNION {All[f] : f \in known} = UseSites
  <2> DEFINE V(f) == UNION {{<<f, i, k>> : k \in DOMAIN files[f][i].uses} : i \in DOMAIN files[f]}
  <2>1. \A f \in known : All[f] = V(f)
    <3> SUFFICES ASSUME NEW f \in known PROVE All[f] = V(f)
      OBVIOUS
    <3>1. V(f) = UNION {At(f, i) : i \in DOMAIN files[f]}
      OBVIOUS
    <3> HIDE DEF At, V
    <3>2. \A i \in DOMAIN files[f] : In(f)[i] = At(f, i)
      OBVIOUS
    <3>3. All[f] = UNION {In(f)[i] : i \in DOMAIN files[f]}
      OBVIOUS
    <3> HIDE DEF All, In
    <3> QED
      BY <3>1, <3>2, <3>3
  <2>2. UseSites = UNION {V(f) : f \in known}
    BY DEF UseSites
  <2> HIDE DEF All, V
  <2> QED
    BY <2>1, <2>2
<1> HIDE DEF All
<1> QED
  BY <1>2, <1>3, <1>4, FiniteUnion

LEMMA OneUser ==
  ASSUME TypeInv, Tame, NEW s \in LinkSites, NEW t \in LinkSites, Linked(s) = Linked(t)
  PROVE  s = t
<1> DEFINE S == LinksTo(Linked(t))
<1>1. s \in S /\ t \in S /\ Linked(t) \in known /\ S \subseteq UseSites
  BY DEF LinksTo, LinkSites
<1>2. IsFiniteSet(S)
  <2> HIDE DEF S
  <2> QED
    BY <1>1, SitesFinite, FS_Subset
<1>3. Cardinality(S) <= 1
  BY <1>1 DEF Tame
<1> HIDE DEF S
<1> QED
  BY <1>1, <1>2, <1>3, AtMostOne

\* The paths that lead to no module file.
LEMMA LostNowhere ==
  ASSUME TypeInv, NEW t \in UseSites
  PROVE  Lost(t) \notin known
<1>1. \A f \in known : f[1] \in {"ws", "home"}
  BY FileRoot DEF TypeInv, FileInv
<1>2. Rest(Site(t), 2) \in Seq(Words) /\ <<"/">> \in Seq(Words) /\ Len(<<"/">>) = 1 /\ <<"/">>[1] = "/"
  BY SiteFacts, PathParts DEF Paths, Words
<1>3. Lost(t)[1] = "/"
  BY <1>2 DEF Lost
<1> QED
  BY <1>1, <1>3

\* What a used file uses.
LEMMA UsedSite ==
  ASSUME TypeInv, Tame, NEW t \in UseSites, LinksTo(t[1]) # {}
  PROVE  /\ t \notin LinkSites /\ Linked(t) = Site(t) /\ Site(t) \notin known /\ ~IsHome(Site(t))
         /\ LET j == Join(Dir(t[1]), Site(t)) IN j \notin known /\ ~IsHome(j) /\ IsAbs(j)
<1> DEFINE d == Dir(t[1])
           j == Join(d, Site(t))
<1>1. t \notin LinkSites /\ ~IsHome(Site(t)) /\ j \notin known
  BY DEF Tame
<1>2. Linked(t) = Site(t) /\ Site(t) \notin known
  BY <1>1 DEF Linked, LinkSites
<1>3. d \in Paths /\ Len(d) >= 1 /\ d[1] \in {"ws", "home"}
  <2>1. t[1] \in DOMAIN files /\ files \in Contents
    BY SiteFacts DEF TypeInv, FileInv
  <2>2. t[1] \in Seq(Words) /\ Len(t[1]) > 1 /\ t[1][1] \in {"ws", "home"}
    BY <2>1, FileRoot DEF Paths
  <2> DEFINE f == t[1]
  <2> HIDE DEF f
  <2>3. f \in Seq(Words) /\ Len(f) > 1 /\ f[1] \in {"ws", "home"}
    BY <2>2 DEF f
  <2>4. Front(f) \in Seq(Words) /\ Len(Front(f)) >= 1 /\ Front(f)[1] = f[1]
    BY <2>3 DEF Front
  <2> QED
    BY <2>3, <2>4 DEF f, Dir, Paths
<1>4. j \in Paths /\ Len(j) >= 1 /\ j[1] = d[1]
  <2>1. 1 \in 1 .. Len(d) /\ \A i \in 1 .. 1 : d[i] # "."
    BY <1>3 DEF Paths
  <2>2. Site(t) \in Paths
    BY SiteFacts
  <2> HIDE DEF d
  <2> QED
    BY <1>3, <2>1, <2>2, Joined
<1> HIDE DEF j, d
<1>5. ~IsHome(j) /\ IsAbs(j)
  BY <1>3, <1>4, BeginsOne, RootNames DEF IsHome, IsOrg, IsAbs
<1> QED
  BY <1>1, <1>2, <1>5 DEF j, d

\* The sites are about the files only, and what is known of them.
LEMMA SitesKept ==
  ASSUME files' = files, known' = known
  PROVE  /\ UseSites' = UseSites /\ LinkSites' = LinkSites
         /\ \A t : Site(t)' = Site(t) /\ Linked(t)' = Linked(t) /\ Lost(t)' = Lost(t) /\ Declared(t)' = Declared(t)
         /\ \A f : LinksTo(f)' = LinksTo(f)
         /\ Tame' <=> Tame
<1>1. UseSites' = UseSites /\ \A t : Site(t)' = Site(t)
  BY DEF UseSites, Site
<1>2. \A t : Linked(t)' = Linked(t) /\ Lost(t)' = Lost(t)
  BY <1>1 DEF Linked, Lost
<1>3. LinkSites' = LinkSites /\ \A f : LinksTo(f)' = LinksTo(f)
  BY <1>1, <1>2 DEF LinkSites, LinksTo
<1>4. \A t : Declared(t)' = Declared(t)
  BY <1>1, <1>2, <1>3 DEF Declared
<1>5. Tame' <=> Tame
  BY <1>1, <1>2, <1>3 DEF Tame
<1> QED
  BY <1>1, <1>2, <1>3, <1>4, <1>5

-----------------------------------------------------------------------------
(* Linking one file.                                                        *)

\* What the loop has done when it has been at the positions P: a file that it met there is
\* rebased, and a child of the module that uses it.
Linking(f, m, P, s) ==
    /\ s \in Maps
    /\ \A g \in known \ {f} : s[g] = IF \E at \in P : m[at[1]].uses[at[2]] = g
                                     THEN Rebased(mods[g], Dir(g)) ELSE mods[g]
    /\ Len(s[f]) = Len(m)
    /\ \A i \in DOMAIN m :
           /\ s[f][i].name = m[i].name /\ s[f][i].uses = m[i].uses
           /\ ListsAll(s[f][i].children, {k \in DOMAIN m[i].uses : <<i, k>> \in P /\ m[i].uses[k] \in known},
                       m[i].uses)

\* Nothing that is used is the file itself, or used twice.
Apart(f, m) ==
    \A at, by \in Spots(m) : m[at[1]].uses[at[2]] \in known =>
        /\ m[at[1]].uses[at[2]] # f
        /\ m[at[1]].uses[at[2]] = m[by[1]].uses[by[2]] => at = by

LEMMA LinkUseDoes ==
  ASSUME TypeInv, NEW f \in known, NEW m \in Seq(Module), Apart(f, m), NEW P \in SUBSET Spots(m),
         NEW s, Linking(f, m, P, s),
         NEW i \in DOMAIN m, NEW k \in DOMAIN m[i].uses, <<i, k>> \notin P
  PROVE  Linking(f, m, P \cup {<<i, k>>}, LinkUse(f, i, s, k))
<1> DEFINE u == m[i].uses[k]
           x == LinkUse(f, i, s, k)
           Q == P \cup {<<i, k>>}
           K(R, j) == {n \in DOMAIN m[j].uses : <<j, n>> \in R /\ m[j].uses[n] \in known}
           t == [s EXCEPT ![u] = Rebased(s[u], Dir(u))]
           r == [t EXCEPT ![f][i].children = Append(@, u)]
<1>1. /\ s \in Maps /\ s[f] \in Seq(Module) /\ Len(s[f]) = Len(m) /\ DOMAIN m = 1 .. Len(m)
      /\ i \in DOMAIN s[f] /\ DOMAIN s[f] = 1 .. Len(m) /\ s[f][i] \in Module /\ s[f][i].uses = m[i].uses
  <2>1. s \in Maps /\ Len(s[f]) = Len(m) /\ s[f][i].uses = m[i].uses
    BY DEF Linking
  <2>2. s[f] \in Seq(Module)
    BY <2>1 DEF Maps, MapsOf, Module
  <2> QED
    BY <2>1, <2>2
<1>2. i \in 1 .. Len(s[f]) /\ k \in 1 .. Len(s[f][i].uses)
  <2>1. m[i] \in Module
    OBVIOUS
  <2>2. m[i].uses \in Seq(Paths)
    BY <2>1 DEF Module, ModuleOf
  <2> QED
    BY <1>1, <2>2
<1>3. x \in Maps /\ Len(x[f]) = Len(m)
  <2>1. /\ LinkUse(f, i, s, k) \in MapsOf(Paths)
        /\ Len(LinkUse(f, i, s, k)[f]) = Len(s[f])
    BY <1>1, <1>2, PathsClosed, LinkUseTypes DEF Maps
  <2> QED
    BY <1>1, <2>1 DEF Maps
<1>4. x = IF u \notin known THEN s ELSE r
  BY <1>1 DEF LinkUse
<1>5. <<i, k>> \in Spots(m)
  BY DEF Spots
<1>6. CASE u \notin known
  <2>1. x = s
    BY <1>4, <1>6
  <2>2. \A g \in known : (\E at \in Q : m[at[1]].uses[at[2]] = g) <=> (\E at \in P : m[at[1]].uses[at[2]] = g)
    BY <1>6
  <2>3. \A j \in DOMAIN m : K(Q, j) = K(P, j)
    BY <1>6
  <2> HIDE DEF Q
  <2>4. Linking(f, m, Q, s)
    BY <2>2, <2>3 DEF Linking
  <2> QED
    BY <2>1, <2>4 DEF Q, x
<1>7. CASE u \in known
  <2>1. u # f /\ ~\E at \in P : m[at[1]].uses[at[2]] = u
    BY <1>5, <1>7 DEF Apart
  <2>2. s[u] = mods[u]
    BY <1>7, <2>1 DEF Linking
  <2>3. DOMAIN s = known
    BY <1>1 DEF Maps, MapsOf
  <2>4. x = r
    BY <1>4, <1>7
  <2>5. /\ \A g \in known : g # f /\ g # u => x[g] = s[g]
        /\ x[u] = Rebased(mods[u], Dir(u))
        /\ x[f] = [s[f] EXCEPT ![i].children = Append(@, u)]
    BY <1>7, <2>1, <2>2, <2>3, <2>4
  <2> HIDE DEF t, r, x
  <2>6. ASSUME NEW g \in known \ {f}
        PROVE  x[g] = IF \E at \in Q : m[at[1]].uses[at[2]] = g
                      THEN Rebased(mods[g], Dir(g)) ELSE mods[g]
    <3>1. CASE g = u
      <4>1. \E at \in Q : m[at[1]].uses[at[2]] = g
        BY <3>1
      <4> QED
        BY <2>5, <3>1, <4>1
    <3>2. CASE g # u
      <4>1. (\E at \in Q : m[at[1]].uses[at[2]] = g) <=> (\E at \in P : m[at[1]].uses[at[2]] = g)
        BY <3>2
      <4>2. s[g] = IF \E at \in P : m[at[1]].uses[at[2]] = g THEN Rebased(mods[g], Dir(g)) ELSE mods[g]
        BY DEF Linking
      <4> HIDE DEF Q, u
      <4> QED
        BY <2>5, <3>2, <4>1, <4>2
    <3> QED
      BY <3>1, <3>2
  <2>7. ASSUME NEW j \in DOMAIN m
        PROVE  /\ x[f][j].name = m[j].name /\ x[f][j].uses = m[j].uses
               /\ ListsAll(x[f][j].children, K(Q, j), m[j].uses)
    <3>1. s[f][j].name = m[j].name /\ s[f][j].uses = m[j].uses /\ ListsAll(s[f][j].children, K(P, j), m[j].uses)
      BY DEF Linking
    <3>2. CASE j # i
      <4>1. x[f][j] = s[f][j]
        BY <1>1, <2>5, <3>2
      <4>2. K(Q, j) = K(P, j)
        BY <3>2
      <4> QED
        BY <3>1, <4>1, <4>2
    <3>3. CASE j = i
      <4> DEFINE q == s[f][i].children
      <4>1. /\ x[f][i].name = s[f][i].name /\ x[f][i].uses = s[f][i].uses
            /\ x[f][i].children = Append(q, m[i].uses[k])
        BY <1>1, <2>5 DEF Module, ModuleOf
      <4>2. K(Q, i) = K(P, i) \cup {k} /\ k \notin K(P, i)
        BY <1>7
      <4>3. q \in Seq(known)
        BY <1>1 DEF Module, ModuleOf
      <4> HIDE DEF q, K, Q, u
      <4>4. ListsAll(Append(q, m[i].uses[k]), K(P, i) \cup {k}, m[i].uses)
        <5>1. ListsAll(q, K(P, i), m[i].uses)
          BY <3>1, <3>3 DEF q
        <5> QED
          BY <4>2, <4>3, <5>1, AppendLists
      <4> QED
        BY <3>1, <3>3, <4>1, <4>2, <4>4
    <3> QED
      BY <3>2, <3>3
  <2> HIDE DEF Q
  <2>8. Linking(f, m, Q, x)
    BY <1>3, <2>6, <2>7 DEF Linking, x
  <2> QED
    BY <2>8 DEF Q, x
<1> QED
  BY <1>6, <1>7

LEMMA LinkModuleDoes ==
  ASSUME TypeInv, NEW f \in known, NEW m \in Seq(Module), Apart(f, m), NEW P \in SUBSET Spots(m),
         NEW s, Linking(f, m, P, s), NEW i \in DOMAIN m, \A k \in DOMAIN m[i].uses : <<i, k>> \notin P
  PROVE  Linking(f, m, P \cup {<<i, k>> : k \in DOMAIN m[i].uses}, LinkModule(f, s, i))
<1> DEFINE n == Len(m[i].uses)
           Q(k) == P \cup {<<i, j>> : j \in 1 .. k}
<1>1. s \in Maps /\ i \in 1 .. Len(s[f]) /\ s[f][i].uses = m[i].uses
  <2>1. DOMAIN m = 1 .. Len(m)
    OBVIOUS
  <2> QED
    BY <2>1 DEF Linking
<1>2. DOMAIN m[i].uses = 1 .. n /\ n \in Nat
  <2>1. m[i] \in Module
    OBVIOUS
  <2> QED
    BY <2>1 DEF Module, ModuleOf
<1>3. PICK t : /\ t[0] = s /\ t[n] = LinkModule(f, s, i)
               /\ \A k \in 1 .. n : t[k] = LinkUse(f, i, t[k - 1], k)
  BY <1>1, PathsClosed, LinkModuleLoop DEF Maps
<1> DEFINE M == {k \in Nat : k <= n => Linking(f, m, Q(k), t[k])}
<1> HIDE DEF n
<1>4. 0 \in M
  <2>1. Q(0) = P
    OBVIOUS
  <2> HIDE DEF Q
  <2> QED
    BY <1>3, <2>1
<1>5. ASSUME NEW k \in Nat, k \in M
      PROVE  k + 1 \in M
  <2> SUFFICES ASSUME k + 1 <= n PROVE Linking(f, m, Q(k + 1), t[k + 1])
    OBVIOUS
  <2>1. k <= n /\ k + 1 \in 1 .. n /\ k + 1 \in DOMAIN m[i].uses /\ k + 1 - 1 = k
    BY <1>2
  <2>2. Linking(f, m, Q(k), t[k]) /\ t[k + 1] = LinkUse(f, i, t[k], k + 1)
    BY <1>3, <1>5, <2>1
  <2>3. <<i, k + 1>> \notin Q(k)
    BY <2>1
  <2>4. Q(k + 1) = Q(k) \cup {<<i, k + 1>>}
    <3>1. 1 .. k + 1 = (1 .. k) \cup {k + 1}
      OBVIOUS
    <3> QED
      BY <3>1
  <2>5. Q(k) \in SUBSET Spots(m)
    <3>1. \A j \in 1 .. k : j \in DOMAIN m[i].uses
      BY <1>2, <2>1
    <3> QED
      BY <3>1 DEF Spots
  <2> HIDE DEF Q
  <2> QED
    BY <2>1, <2>2, <2>3, <2>4, <2>5, LinkUseDoes
<1>6. Q(n) = P \cup {<<i, k>> : k \in DOMAIN m[i].uses}
  BY <1>2
<1> HIDE DEF M, Q
<1>7. Nat \subseteq M
  BY <1>4, <1>5, Upwards
<1>8. Linking(f, m, Q(n), t[n])
  BY <1>2, <1>7 DEF M
<1> QED
  BY <1>3, <1>6, <1>8

LEMMA LinkModulesDoes ==
  ASSUME TypeInv, NEW f \in known, NEW m \in Seq(Module), Apart(f, m),
         \A i \in DOMAIN m : m[i].children = <<>>
  PROVE  Linking(f, m, Spots(m), LinkModules(f, m))
<1> DEFINE n == Len(m)
           first == [mods EXCEPT ![f] = m]
           P(i) == {at \in Spots(m) : at[1] <= i}
<1>1. mods \in MapsOf(Paths) /\ DOMAIN m = 1 .. n /\ n \in Nat
  BY DEF TypeInv, FileInv, MapsOf, Module
<1>2. PICK t : /\ t[0] = first /\ t[n] = LinkModules(f, m)
               /\ \A i \in 1 .. n : t[i] = LinkModule(f, t[i - 1], i)
  BY <1>1, PathsClosed, LinkModulesLoop DEF Module
<1>3. \A at \in Spots(m) : at[1] \in 1 .. n /\ at = <<at[1], at[2]>>
  BY <1>1 DEF Spots
<1>4. Linking(f, m, {}, first)
  <2>1. first \in Maps /\ first[f] = m /\ \A g \in known \ {f} : first[g] = mods[g]
    BY <1>1 DEF Maps, MapsOf, Module
  <2> HIDE DEF first
  <2>2. ASSUME NEW i \in DOMAIN m
        PROVE  ListsAll(first[f][i].children,
                        {k \in DOMAIN m[i].uses : <<i, k>> \in {} /\ m[i].uses[k] \in known}, m[i].uses)
    <3>1. first[f][i].children = <<>>
      BY <2>1
    <3>2. {k \in DOMAIN m[i].uses : <<i, k>> \in {} /\ m[i].uses[k] \in known} = {}
      OBVIOUS
    <3> QED
      BY <3>1, <3>2, ListsNothing
  <2> QED
    BY <2>1, <2>2 DEF Linking
<1> DEFINE M == {i \in Nat : i <= n => Linking(f, m, P(i), t[i])}
<1> HIDE DEF first, n, P
<1>5. 0 \in M
  <2>1. P(0) = {}
    BY <1>3 DEF P
  <2> QED
    BY <1>2, <1>4, <2>1
<1>6. ASSUME NEW i \in Nat, i \in M
      PROVE  i + 1 \in M
  <2> SUFFICES ASSUME i + 1 <= n PROVE Linking(f, m, P(i + 1), t[i + 1])
    OBVIOUS
  <2>1. i <= n /\ i + 1 \in 1 .. n /\ i + 1 \in DOMAIN m /\ i + 1 - 1 = i
    BY <1>1
  <2>2. Linking(f, m, P(i), t[i]) /\ t[i + 1] = LinkModule(f, t[i], i + 1)
    BY <1>2, <1>6, <2>1
  <2>3. \A k \in DOMAIN m[i + 1].uses : <<i + 1, k>> \notin P(i)
    <3>1. \A k : <<i + 1, k>>[1] = i + 1
      OBVIOUS
    <3>2. ~(i + 1 <= i)
      OBVIOUS
    <3> QED
      BY <3>1, <3>2 DEF P
  <2>4. P(i + 1) = P(i) \cup {<<i + 1, k>> : k \in DOMAIN m[i + 1].uses}
    <3>1. ASSUME NEW at \in P(i + 1), at \notin P(i)
          PROVE  at \in {<<i + 1, k>> : k \in DOMAIN m[i + 1].uses}
      <4>1. at \in Spots(m) /\ at[1] = i + 1
        BY <1>3, <3>1 DEF P
      <4> QED
        BY <4>1 DEF Spots
    <3>2. ASSUME NEW k \in DOMAIN m[i + 1].uses
          PROVE  <<i + 1, k>> \in P(i + 1)
      BY <2>1 DEF Spots, P
    <3>3. P(i) \subseteq P(i + 1)
      BY <1>3 DEF P
    <3> QED
      BY <3>1, <3>2, <3>3
  <2>5. P(i) \in SUBSET Spots(m)
    BY DEF P
  <2> QED
    BY <2>1, <2>2, <2>3, <2>4, <2>5, LinkModuleDoes
<1>7. P(n) = Spots(m)
  BY <1>3 DEF P
<1> HIDE DEF M
<1>8. Nat \subseteq M
  BY <1>5, <1>6, Upwards
<1>9. Linking(f, m, P(n), t[n])
  BY <1>1, <1>8 DEF M
<1> QED
  BY <1>2, <1>7, <1>9

-----------------------------------------------------------------------------
(* Linking keeps to the declarations, of whatever file and in whatever order. *)

\* The modules of a file: as many as it declares, by their names, with the files that
\* they were linked to.
Placed(f) ==
    /\ DOMAIN mods[f] = DOMAIN files[f]
    /\ \A i \in DOMAIN files[f] : LET m == mods[f][i]
           IN  /\ m.name = <<files[f][i].name>> /\ DOMAIN m.uses = DOMAIN files[f][i].uses
               /\ IF f \in todo THEN m.children = <<>>
                  ELSE ListsAll(m.children, {k \in DOMAIN m.uses : m.uses[k] \in known}, m.uses)

\* A use is rewritten when its file is linked, and joined to the directory of its file
\* when that one is used.
Fits1(t) ==
    IF LinksTo(t[1]) = {}
    THEN IF t[1] \in todo THEN Value(t) = Site(t)
         ELSE Value(t) = Linked(t) \/ (IsOrg(Site(t)) /\ Value(t) = Lost(t))
    ELSE Value(t) = IF t[1] \in used THEN Join(Dir(t[1]), Site(t)) ELSE Site(t)

UsedFits == used = {Value(t) : t \in {s \in UseSites : s[1] \notin todo}} \cap known

LinkedInv ==
    mpc \in {"uses", "load", "loaded"} /\ Tame =>
        (\A f \in known : Placed(f)) /\ (\A t \in UseSites : Fits1(t)) /\ UsedFits

\* Only uses of modules of organizations are lost.
LEMMA LostAreOrgs ==
  ASSUME TypeInv, NEW f \in known, NEW r \in Rewritings(f), r.ok
  PROVE  \A at \in r.lost : IsOrg(UseAt(f, at))
<1> DEFINE G == {o \in Outcomes : o.ok => \A at \in o.lost : IsOrg(UseAt(f, at))}
<1>1. Unwritten \in G
  BY DEF Unwritten, Outcomes, PkgStates, TypeInv, PkgInv
<1>2. ASSUME NEW S \in SUBSET G, NEW at \in Spots(mods[f])
      PROVE  Rewriting(S, UseAt(f, at), at) \in SUBSET G
  <2> DEFINE u == UseAt(f, at)
  <2>1. S \in SUBSET Outcomes
    OBVIOUS
  <2>2. Rewriting(S, u, at) \in SUBSET Outcomes
    <3>1. u \in Paths /\ at \in Nat \X Nat
      BY SpotFacts
    <3> HIDE DEF u
    <3> QED
      BY <2>1, <3>1, RewritingTypes
  <2>3. ASSUME NEW x \in Rewriting(S, u, at), x.ok
        PROVE  \A by \in x.lost : IsOrg(UseAt(f, by))
    <3>1. PICK s \in S : x \in IF ~s.ok THEN {s}
                               ELSE {[ok |-> o.ok \/ IsOrg(u), pkgs |-> o.pkgs,
                                      lost |-> IF o.ok THEN s.lost ELSE s.lost \cup {at}] :
                                         o \in ModulesUpdate(s.pkgs, u)}
      BY DEF Rewriting
    <3>2. s.ok => \A by \in s.lost : IsOrg(UseAt(f, by))
      OBVIOUS
    <3>3. CASE ~s.ok
      BY <2>3, <3>1, <3>3
    <3>4. CASE s.ok
      <4>1. PICK o \in ModulesUpdate(s.pkgs, u) :
               x = [ok |-> o.ok \/ IsOrg(u), pkgs |-> o.pkgs, lost |-> IF o.ok THEN s.lost ELSE s.lost \cup {at}]
        BY <3>1, <3>4
      <4>2. (o.ok \/ IsOrg(u)) /\ x.lost = IF o.ok THEN s.lost ELSE s.lost \cup {at}
        BY <2>3, <4>1, Zenon
      <4> QED
        BY <3>2, <3>4, <4>2
    <3> QED
      BY <3>3, <3>4
  <2> HIDE DEF u
  <2> QED
    BY <2>2, <2>3 DEF u
<1> HIDE DEF G
<1>3. r \in G
  BY <1>1, <1>2, RewritingsKeep
<1> QED
  BY <1>3 DEF G

\* What the uses of a file become when it is linked.
LEMMA RelinkedUses ==
  ASSUME TypeInv, LinkedInv, Tame, mpc = "uses", NEW f \in todo, NEW r \in Rewritings(f), r.ok,
         NEW t \in UseSites, t[1] = f
  PROVE  LET u == Relinked(f, r.lost)[t[2]].uses[t[3]]
         IN  /\ LinksTo(f) = {} => u = Linked(t) \/ (IsOrg(Site(t)) /\ u = Lost(t))
             /\ LinksTo(f) # {} => u = Value(t) /\ u \notin known
             /\ u \in known => t \in LinkSites /\ u = Linked(t) /\ LinksTo(f) = {}
<1> DEFINE at == <<t[2], t[3]>>
           u == Relinked(f, r.lost)[t[2]].uses[t[3]]
<1>1. f \in known /\ t[2] \in DOMAIN files[f] /\ t[3] \in DOMAIN files[f][t[2]].uses /\ Site(t) \in Paths
  BY SiteFacts
<1>2. t[2] \in DOMAIN mods[f] /\ t[3] \in DOMAIN mods[f][t[2]].uses
  BY <1>1 DEF LinkedInv, Placed
<1>3. u = Rewritten(Value(t), at \in r.lost)
  BY <1>1, <1>2, RelinkedTypes DEF Value
<1>4. at \in r.lost => IsOrg(Value(t))
  <2>1. UseAt(f, at) = Value(t)
    BY DEF UseAt, Value
  <2> HIDE DEF at
  <2> QED
    BY <1>1, <2>1, LostAreOrgs
<1>5. Fits1(t)
  BY DEF LinkedInv
<1> HIDE DEF u, at
<1>6. CASE LinksTo(f) = {}
  <2>1. Value(t) = Site(t)
    BY <1>5, <1>6 DEF Fits1
  <2>2. u = Linked(t) \/ (IsOrg(Site(t)) /\ u = Lost(t))
    BY <1>3, <1>4, <2>1 DEF Rewritten, Linked, Lost
  <2>3. u \in known => u = Linked(t) /\ t \in LinkSites
    BY <2>2, LostNowhere DEF LinkSites
  <2> QED
    BY <1>6, <2>2, <2>3 DEF u
<1>7. CASE LinksTo(f) # {}
  <2>1. ~IsHome(Value(t)) /\ Value(t) \notin known
    BY <1>5, <1>7, UsedSite DEF Fits1
  <2>2. u = Value(t)
    BY <1>3, <1>4, <2>1 DEF Rewritten, IsHome
  <2> QED
    BY <1>7, <2>1, <2>2 DEF u
<1> QED
  BY <1>6, <1>7

\* What linking a file does in a tame workspace: m are its modules with their uses
\* rewritten, and met the known files that these use.
LEMMA LinkFileDoes ==
  ASSUME TypeInv, LinkedInv, Tame, NEW f \in todo, LinkFile(f), mpc' = "uses"
  PROVE  \E m \in Seq(Module), met \in SUBSET known :
            /\ f \notin met /\ met \cap used = {} /\ \A g \in met : LinksTo(g) # {}
            /\ DOMAIN m = DOMAIN files[f] /\ DOMAIN mods'[f] = DOMAIN m
            /\ \A i \in DOMAIN m :
                  /\ mods'[f][i].name = <<files[f][i].name>>
                  /\ DOMAIN m[i].uses = DOMAIN files[f][i].uses /\ mods'[f][i].uses = m[i].uses
                  /\ ListsAll(mods'[f][i].children, {k \in DOMAIN m[i].uses : m[i].uses[k] \in known}, m[i].uses)
            /\ \A g \in known \ {f} : mods'[g] = IF g \in met THEN Rebased(mods[g], Dir(g)) ELSE mods[g]
            /\ met = {m[t[2]].uses[t[3]] : t \in {s \in UseSites : s[1] = f}} \cap known
            /\ \A t \in UseSites : t[1] = f =>
                  LET u == m[t[2]].uses[t[3]]
                  IN  /\ LinksTo(f) = {} => u = Linked(t) \/ (IsOrg(Site(t)) /\ u = Lost(t))
                      /\ LinksTo(f) # {} => u = Value(t) /\ u \notin known
            /\ used' = used \cup met
<1>1. f \in known /\ mpc = "uses"
  BY DEF TypeInv, FileInv, LinkFile
<1>2. PICK r \in Rewritings(f) :
         r.ok /\ mods' = LinkModules(f, Relinked(f, r.lost)) /\ used' = used \cup LinkedFrom(f, mods')
  BY <1>1 DEF LinkFile, Relinked
<1> DEFINE m == Relinked(f, r.lost)
           U(t) == m[t[2]].uses[t[3]]
           met == {U(t) : t \in {s \in UseSites : s[1] = f}} \cap known
<1>3. /\ m \in Seq(Module) /\ DOMAIN m = DOMAIN files[f]
      /\ \A i \in DOMAIN m : /\ m[i].name = <<files[f][i].name>> /\ m[i].children = <<>>
                             /\ DOMAIN m[i].uses = DOMAIN files[f][i].uses
  <2>1. m \in Seq(Module) /\ DOMAIN m = DOMAIN mods[f]
    BY <1>1, RelinkedTypes
  <2>2. \A i \in DOMAIN mods[f] :
           m[i].name = mods[f][i].name /\ m[i].children = mods[f][i].children /\ DOMAIN m[i].uses = DOMAIN mods[f][i].uses
    BY <1>1, RelinkedTypes
  <2>3. Placed(f)
    BY <1>1 DEF LinkedInv
  <2>4. /\ DOMAIN mods[f] = DOMAIN files[f]
        /\ \A i \in DOMAIN files[f] :
              /\ mods[f][i].name = <<files[f][i].name>> /\ mods[f][i].children = <<>>
              /\ DOMAIN mods[f][i].uses = DOMAIN files[f][i].uses
    BY <2>3 DEF Placed
  <2> HIDE DEF m
  <2> QED
    BY <2>1, <2>2, <2>4
<1>4. \A t \in UseSites : t[1] = f =>
         /\ LinksTo(f) = {} => U(t) = Linked(t) \/ (IsOrg(Site(t)) /\ U(t) = Lost(t))
         /\ LinksTo(f) # {} => U(t) = Value(t) /\ U(t) \notin known
         /\ U(t) \in known => t \in LinkSites /\ U(t) = Linked(t) /\ LinksTo(f) = {}
  BY <1>1, <1>2, RelinkedUses
<1> HIDE DEF m
<1>5. ASSUME NEW at \in Spots(m)
      PROVE  LET t == <<f, at[1], at[2]>>
             IN  /\ t \in UseSites /\ t[1] = f /\ U(t) = m[at[1]].uses[at[2]] /\ at = <<at[1], at[2]>>
                 /\ at[1] \in DOMAIN m /\ at[2] \in DOMAIN m[at[1]].uses
  <2>1. PICK i \in DOMAIN m : at \in {<<i, k>> : k \in DOMAIN m[i].uses}
    BY <1>5 DEF Spots
  <2>2. PICK k \in DOMAIN m[i].uses : at = <<i, k>>
    BY <2>1
  <2>3. <<f, i, k>> \in UseSites
    BY <1>1, <1>3, SitesAre
  <2> QED
    BY <2>2, <2>3
<1>6. ASSUME NEW t \in UseSites, t[1] = f
      PROVE  <<t[2], t[3]>> \in Spots(m)
  <2>1. t[2] \in DOMAIN files[f] /\ t[3] \in DOMAIN files[f][t[2]].uses
    BY <1>6, SiteFacts
  <2>2. t[2] \in DOMAIN m /\ t[3] \in DOMAIN m[t[2]].uses
    BY <1>3, <2>1
  <2> QED
    BY <2>2 DEF Spots
<1>7. Apart(f, m)
  <2> SUFFICES ASSUME NEW at \in Spots(m), NEW by \in Spots(m), m[at[1]].uses[at[2]] \in known
               PROVE  /\ m[at[1]].uses[at[2]] # f
                      /\ m[at[1]].uses[at[2]] = m[by[1]].uses[by[2]] => at = by
    BY DEF Apart
  <2> DEFINE s == <<f, at[1], at[2]>>
             t == <<f, by[1], by[2]>>
  <2>1. s \in UseSites /\ s[1] = f /\ U(s) \in known /\ U(s) = m[at[1]].uses[at[2]]
    BY <1>5
  <2>2. s \in LinkSites /\ U(s) = Linked(s) /\ LinksTo(f) = {}
    BY <1>4, <2>1
  <2>3. U(s) # f
    BY <2>2 DEF LinksTo
  <2>4. ASSUME U(s) = U(t)
        PROVE  at = by
    <3>1. t \in UseSites /\ t[1] = f
      BY <1>5
    <3>2. t \in LinkSites /\ U(t) = Linked(t)
      BY <1>4, <2>1, <2>4, <3>1
    <3>3. s = t
      BY <2>2, <2>4, <3>2, OneUser
    <3> QED
      BY <1>5, <3>3
  <2> QED
    BY <1>5, <2>1, <2>3, <2>4
<1>8. Linking(f, m, Spots(m), mods')
  BY <1>1, <1>2, <1>3, <1>7, LinkModulesDoes DEF m
<1>9. f \notin met
  BY <1>4 DEF LinksTo
<1>10. ASSUME NEW g \in met
       PROVE  g \notin used /\ LinksTo(g) # {}
  <2>1. PICK t \in UseSites : t[1] = f /\ g = U(t) /\ g \in known
    BY <1>10
  <2>2. t \in LinkSites /\ g = Linked(t)
    BY <1>4, <2>1
  <2>3. LinksTo(g) # {}
    BY <2>2 DEF LinksTo
  <2>4. ASSUME g \in used
        PROVE  FALSE
    <3>1. PICK s \in UseSites : s[1] \notin todo /\ g = Value(s)
      BY <1>1, <2>4 DEF LinkedInv, UsedFits
    <3>2. Fits1(s)
      BY <1>1 DEF LinkedInv
    <3>3. LinksTo(s[1]) = {}
      BY <2>1, <3>1, <3>2, UsedSite DEF Fits1
    <3>4. Value(s) = Linked(s)
      BY <2>1, <3>1, <3>2, <3>3, LostNowhere DEF Fits1
    <3>5. s \in LinkSites
      BY <2>1, <3>1, <3>4 DEF LinkSites
    <3>6. s = t
      BY <2>2, <3>1, <3>4, <3>5, OneUser
    <3> QED
      BY <2>1, <3>1, <3>6
  <2> QED
    BY <2>3, <2>4
<1>11. \A g \in known : g \in met <=> \E at \in Spots(m) : m[at[1]].uses[at[2]] = g
  <2>1. ASSUME NEW at \in Spots(m), m[at[1]].uses[at[2]] \in known
        PROVE  m[at[1]].uses[at[2]] \in met
    <3>1. <<f, at[1], at[2]>> \in UseSites /\ <<f, at[1], at[2]>>[1] = f /\ U(<<f, at[1], at[2]>>) = m[at[1]].uses[at[2]]
      BY <1>5
    <3> HIDE DEF U
    <3>2. U(<<f, at[1], at[2]>>) \in met
      BY <2>1, <3>1
    <3> QED
      BY <3>1, <3>2
  <2>2. ASSUME NEW g \in met
        PROVE  \E at \in Spots(m) : m[at[1]].uses[at[2]] = g
    <3>1. PICK t \in UseSites : t[1] = f /\ g = U(t)
      BY <2>2
    <3>2. <<t[2], t[3]>> \in Spots(m)
      BY <1>6, <3>1
    <3> QED
      BY <3>1, <3>2
  <2> HIDE DEF met
  <2> QED
    BY <2>1, <2>2
<1>12. \A g \in known \ {f} : mods'[g] = IF g \in met THEN Rebased(mods[g], Dir(g)) ELSE mods[g]
  <2> HIDE DEF met
  <2> QED
    BY <1>8, <1>11 DEF Linking
<1>13. DOMAIN mods'[f] = DOMAIN m
  <2>1. mods' \in Maps /\ Len(mods'[f]) = Len(m)
    BY <1>8 DEF Linking
  <2>2. mods'[f] \in Seq(Module)
    BY <1>1, <2>1 DEF Maps, MapsOf, Module
  <2> QED
    BY <1>3, <2>1, <2>2
<1>14. ASSUME NEW i \in DOMAIN m
       PROVE  /\ mods'[f][i].name = m[i].name /\ mods'[f][i].uses = m[i].uses
              /\ ListsAll(mods'[f][i].children, {k \in DOMAIN m[i].uses : m[i].uses[k] \in known}, m[i].uses)
  <2>1. {k \in DOMAIN m[i].uses : <<i, k>> \in Spots(m) /\ m[i].uses[k] \in known}
        = {k \in DOMAIN m[i].uses : m[i].uses[k] \in known}
    BY DEF Spots
  <2> QED
    BY <1>8, <2>1 DEF Linking
<1>15. LinkedFrom(f, mods') = met
  <2>1. ASSUME NEW i \in DOMAIN m
        PROVE  ToSet(mods'[f][i].children) = {m[i].uses[k] : k \in DOMAIN m[i].uses} \cap known
    <3> DEFINE c == mods'[f][i].children
               K == {k \in DOMAIN m[i].uses : m[i].uses[k] \in known}
    <3>1. ListsAll(c, K, m[i].uses)
      BY <1>14
    <3>2. /\ \A j \in DOMAIN c : \E k \in K : c[j] = m[i].uses[k]
          /\ \A k \in K : \E j \in DOMAIN c : c[j] = m[i].uses[k]
      <4> HIDE DEF c, K
      <4> QED
        BY <3>1, ListsElements
    <3> HIDE DEF c
    <3> QED
      BY <3>2 DEF ToSet, c
  <2>2. LinkedFrom(f, mods') = UNION {{m[i].uses[k] : k \in DOMAIN m[i].uses} \cap known : i \in DOMAIN m}
    BY <1>13, <2>1 DEF LinkedFrom
  <2>3. ASSUME NEW g
        PROVE  g \in LinkedFrom(f, mods') <=> g \in known /\ \E at \in Spots(m) : m[at[1]].uses[at[2]] = g
    <3>1. ASSUME NEW i \in DOMAIN m, NEW k \in DOMAIN m[i].uses
          PROVE  <<i, k>> \in Spots(m)
      BY DEF Spots
    <3>2. ASSUME g \in LinkedFrom(f, mods')
          PROVE  g \in known /\ \E at \in Spots(m) : m[at[1]].uses[at[2]] = g
      <4>1. PICK i \in DOMAIN m : g \in {m[i].uses[k] : k \in DOMAIN m[i].uses} \cap known
        BY <2>2, <3>2
      <4>2. PICK k \in DOMAIN m[i].uses : g = m[i].uses[k]
        BY <4>1
      <4>3. <<i, k>> \in Spots(m) /\ m[<<i, k>>[1]].uses[<<i, k>>[2]] = g
        BY <3>1, <4>2
      <4> QED
        BY <4>1, <4>3
    <3>3. ASSUME g \in known, NEW at \in Spots(m), m[at[1]].uses[at[2]] = g
          PROVE  g \in LinkedFrom(f, mods')
      <4>1. at[1] \in DOMAIN m /\ at[2] \in DOMAIN m[at[1]].uses
        BY <1>5
      <4>2. g \in {m[at[1]].uses[k] : k \in DOMAIN m[at[1]].uses} \cap known
        BY <3>3, <4>1
      <4> QED
        BY <2>2, <4>1, <4>2
    <3> QED
      BY <3>2, <3>3
  <2> HIDE DEF met
  <2>4. met \subseteq known
    BY DEF met
  <2> QED
    BY <1>11, <2>3, <2>4
<1>16. /\ met \in SUBSET known /\ used' = used \cup met
       /\ \A i \in DOMAIN m : mods'[f][i].name = <<files[f][i].name>>
  BY <1>2, <1>3, <1>14, <1>15
<1>17. met = {m[t[2]].uses[t[3]] : t \in {s \in UseSites : s[1] = f}} \cap known
  OBVIOUS
<1>18. met \cap used = {} /\ \A g \in met : LinksTo(g) # {}
  BY <1>10
<1>19. \A t \in UseSites : t[1] = f =>
          LET u == m[t[2]].uses[t[3]]
          IN  /\ LinksTo(f) = {} => u = Linked(t) \/ (IsOrg(Site(t)) /\ u = Lost(t))
              /\ LinksTo(f) # {} => u = Value(t) /\ u \notin known
  BY <1>4
<1> HIDE DEF met
<1> QED
  BY <1>3, <1>9, <1>12, <1>13, <1>14, <1>16, <1>17, <1>18, <1>19

\* Linking a file keeps to the declarations.
LEMMA LinkKeeps ==
  ASSUME TypeInv, LinkedInv, NEW f \in todo, LinkFile(f)
  PROVE  LinkedInv'
<1>1. files' = files /\ known' = known /\ mpc = "uses" /\ f \in known
  BY LinkTypes DEF TypeInv, FileInv, LinkFile
<1>2. /\ UseSites' = UseSites /\ (Tame' <=> Tame)
      /\ \A t : Site(t)' = Site(t) /\ Linked(t)' = Linked(t) /\ Lost(t)' = Lost(t)
      /\ \A g : LinksTo(g)' = LinksTo(g)
  BY <1>1, SitesKept
<1>3. SUFFICES ASSUME mpc' = "uses", Tame
               PROVE  (\A g \in known : Placed(g)') /\ (\A t \in UseSites : Fits1(t)') /\ UsedFits'
  BY <1>1, <1>2 DEF LinkedInv, LinkFile
<1>4. todo' = todo \ {f}
  BY <1>3 DEF LinkFile
<1>5. /\ \A g \in known : Placed(g)
      /\ \A t \in UseSites : Fits1(t)
      /\ UsedFits
  BY <1>1, <1>3 DEF LinkedInv
<1>6. PICK m \in Seq(Module), met \in SUBSET known :
            /\ f \notin met /\ met \cap used = {} /\ \A g \in met : LinksTo(g) # {}
            /\ DOMAIN m = DOMAIN files[f] /\ DOMAIN mods'[f] = DOMAIN m
            /\ \A i \in DOMAIN m :
                  /\ mods'[f][i].name = <<files[f][i].name>>
                  /\ DOMAIN m[i].uses = DOMAIN files[f][i].uses /\ mods'[f][i].uses = m[i].uses
                  /\ ListsAll(mods'[f][i].children, {k \in DOMAIN m[i].uses : m[i].uses[k] \in known}, m[i].uses)
            /\ \A g \in known \ {f} : mods'[g] = IF g \in met THEN Rebased(mods[g], Dir(g)) ELSE mods[g]
            /\ met = {m[t[2]].uses[t[3]] : t \in {s \in UseSites : s[1] = f}} \cap known
            /\ \A t \in UseSites : t[1] = f =>
                  LET u == m[t[2]].uses[t[3]]
                  IN  /\ LinksTo(f) = {} => u = Linked(t) \/ (IsOrg(Site(t)) /\ u = Lost(t))
                      /\ LinksTo(f) # {} => u = Value(t) /\ u \notin known
            /\ used' = used \cup met
  BY <1>3, LinkFileDoes
<1>7. ASSUME NEW g \in met
      PROVE  /\ g # f /\ g \in known /\ LinksTo(g) # {} /\ g \notin used
             /\ DOMAIN mods'[g] = DOMAIN mods[g]
             /\ \A i \in DOMAIN mods[g] :
                   /\ mods'[g][i].name = mods[g][i].name /\ mods'[g][i].children = mods[g][i].children
                   /\ DOMAIN mods'[g][i].uses = DOMAIN mods[g][i].uses
                   /\ \A k \in DOMAIN mods[g][i].uses : mods'[g][i].uses[k] = Join(Dir(g), mods[g][i].uses[k])
  <2>1. g # f /\ g \in known /\ LinksTo(g) # {} /\ g \notin used
    BY <1>6, <1>7
  <2>2. mods'[g] = Rebased(mods[g], Dir(g))
    BY <1>6, <2>1
  <2>3. \A i \in DOMAIN mods[g] : mods[g][i] \in Module
    BY <2>1 DEF TypeInv, FileInv
  <2> QED
    BY <2>1, <2>2, <2>3 DEF Rebased, Module, ModuleOf
<1>8. ASSUME NEW t \in UseSites, t[1] \in met
      PROVE  /\ Value(t) = Site(t) /\ Value(t)' = Join(Dir(t[1]), Site(t))
             /\ Value(t) \notin known /\ Value(t)' \notin known
  <2>1. LinksTo(t[1]) # {} /\ t[1] \notin used /\ t[1] \in known
    BY <1>7, <1>8
  <2>2. Value(t) = Site(t)
    BY <1>5, <2>1 DEF Fits1
  <2>3. t[2] \in DOMAIN mods[t[1]] /\ t[3] \in DOMAIN mods[t[1]][t[2]].uses
    BY <1>5, <2>1, SiteFacts DEF Placed
  <2>4. Value(t)' = Join(Dir(t[1]), Site(t))
    BY <1>7, <1>8, <2>2, <2>3 DEF Value
  <2> QED
    BY <1>3, <2>1, <2>2, <2>4, UsedSite
<1>9. ASSUME NEW t \in UseSites, t[1] = f
      PROVE  Value(t)' = m[t[2]].uses[t[3]]
  BY <1>6, <1>9, SiteFacts DEF Value
<1>10. ASSUME NEW t \in UseSites, t[1] # f, t[1] \notin met
       PROVE  Value(t)' = Value(t)
  BY <1>6, <1>10, SiteFacts DEF Value
<1>11. ASSUME NEW g \in known
       PROVE  Placed(g)'
  <2>1. CASE g = f
    <3>1. ASSUME NEW i \in DOMAIN files[f]
          PROVE  /\ mods'[f][i].name = <<files[f][i].name>> /\ DOMAIN mods'[f][i].uses = DOMAIN files[f][i].uses
                 /\ ListsAll(mods'[f][i].children, {k \in DOMAIN mods'[f][i].uses : mods'[f][i].uses[k] \in known},
                             mods'[f][i].uses)
      <4>1. i \in DOMAIN m
        BY <1>6
      <4>2. mods'[f][i].uses = m[i].uses
        BY <1>6, <4>1
      <4> QED
        BY <1>6, <4>1, <4>2
    <3>2. DOMAIN mods'[f] = DOMAIN files[f] /\ f \notin todo'
      BY <1>4, <1>6
    <3> QED
      <4>1. ASSUME NEW i \in DOMAIN files[f]
            PROVE  LET x == mods'[f][i]
                   IN  /\ x.name = <<files[f][i].name>> /\ DOMAIN x.uses = DOMAIN files[f][i].uses
                       /\ ListsAll(x.children, {k \in DOMAIN x.uses : x.uses[k] \in known'}, x.uses)
        BY <1>1, <3>1
      <4>2. Placed(f)'
        BY <1>1, <3>2, <4>1 DEF Placed
      <4> QED
        BY <2>1, <4>2
  <2>2. CASE g \in met
    <3> SUFFICES ASSUME NEW i \in DOMAIN files[g]
                 PROVE  mods'[g][i].children = <<>> /\ {k \in DOMAIN mods'[g][i].uses : mods'[g][i].uses[k] \in known} = {}
      <4>2. \A i \in DOMAIN files[g] :
               mods'[g][i].children = <<>> /\ {k \in DOMAIN mods'[g][i].uses : mods'[g][i].uses[k] \in known} = {}
        OBVIOUS
      <4>3. \A i \in DOMAIN files[g] : ListsAll(<<>>, {}, mods'[g][i].uses)
        BY ListsNothing
      <4>4. ASSUME NEW i \in DOMAIN files[g]
            PROVE  LET x == mods'[g][i]
                   IN  /\ x.name = <<files[g][i].name>> /\ DOMAIN x.uses = DOMAIN files[g][i].uses
                       /\ x.children = <<>>
                       /\ ListsAll(x.children, {k \in DOMAIN x.uses : x.uses[k] \in known'}, x.uses)
        <5>1. /\ mods'[g][i].name = <<files[g][i].name>>
              /\ DOMAIN mods'[g][i].uses = DOMAIN files[g][i].uses
          <6>1. /\ mods[g][i].name = <<files[g][i].name>> /\ i \in DOMAIN mods[g]
                /\ DOMAIN mods[g][i].uses = DOMAIN files[g][i].uses
            BY <1>5, <2>2 DEF Placed
          <6>2. mods'[g][i].name = mods[g][i].name /\ DOMAIN mods'[g][i].uses = DOMAIN mods[g][i].uses
            BY <1>7, <2>2, <6>1
          <6> QED
            BY <6>1, <6>2
        <5>2. mods'[g][i].children = <<>> /\ {k \in DOMAIN mods'[g][i].uses : mods'[g][i].uses[k] \in known'} = {}
          BY <1>1, <4>2
        <5> DEFINE x == mods'[g][i]
        <5>3. ListsAll(x.children, {k \in DOMAIN x.uses : x.uses[k] \in known'}, x.uses)
          <6> DEFINE K == {k \in DOMAIN x.uses : x.uses[k] \in known'}
          <6>1. x.children = <<>> /\ K = {} /\ ListsAll(<<>>, {}, x.uses)
            BY <4>3, <5>2
          <6> HIDE DEF x, K
          <6>2. ListsAll(x.children, K, x.uses)
            BY <6>1
          <6> QED
            BY <6>2 DEF K
        <5> QED
          BY <5>1, <5>2, <5>3
      <4>5. DOMAIN mods'[g] = DOMAIN files[g]
        BY <1>5, <1>7, <2>2 DEF Placed
      <4> QED
        BY <1>1, <4>4, <4>5 DEF Placed
    <3>1. /\ i \in DOMAIN mods[g] /\ DOMAIN mods[g][i].uses = DOMAIN files[g][i].uses
          /\ DOMAIN mods'[g][i].uses = DOMAIN mods[g][i].uses /\ mods'[g][i].children = mods[g][i].children
      BY <1>5, <1>7, <2>2 DEF Placed
    <3>2. \A k \in DOMAIN mods[g][i].uses : mods[g][i].uses[k] \notin known /\ mods'[g][i].uses[k] \notin known
      <4> SUFFICES ASSUME NEW k \in DOMAIN mods[g][i].uses
                   PROVE  mods[g][i].uses[k] \notin known /\ mods'[g][i].uses[k] \notin known
        OBVIOUS
      <4>1. <<g, i, k>> \in UseSites
        BY <3>1, SitesAre
      <4>2. Value(<<g, i, k>>) = mods[g][i].uses[k] /\ Value(<<g, i, k>>)' = mods'[g][i].uses[k]
        BY DEF Value
      <4> QED
        BY <1>8, <2>2, <4>1, <4>2
    <3>3. mods[g][i].children = <<>>
      <4>1. IF g \in todo THEN mods[g][i].children = <<>>
            ELSE ListsAll(mods[g][i].children, {k \in DOMAIN mods[g][i].uses : mods[g][i].uses[k] \in known}, mods[g][i].uses)
        BY <1>5 DEF Placed
      <4>2. {k \in DOMAIN mods[g][i].uses : mods[g][i].uses[k] \in known} = {}
        BY <3>2
      <4> QED
        BY <4>1, <4>2, ListsElements
    <3> QED
      BY <3>1, <3>2, <3>3
  <2>3. CASE g # f /\ g \notin met
    <3>1. mods'[g] = mods[g] /\ (g \in todo' <=> g \in todo) /\ Placed(g)
      BY <1>4, <1>5, <1>6, <2>3
    <3> QED
      BY <1>1, <3>1 DEF Placed
  <2> QED
    BY <2>1, <2>2, <2>3
<1>12. ASSUME NEW t \in UseSites
       PROVE  Fits1(t)'
  <2>1. Fits1(t)
    BY <1>5
  <2>2. CASE t[1] = f
    BY <1>2, <1>4, <1>6, <1>9, <2>1, <2>2 DEF Fits1
  <2>3. CASE t[1] \in met
    <3>1. LinksTo(t[1]) # {} /\ t[1] \in used'
      BY <1>6, <2>3
    <3> QED
      BY <1>2, <1>8, <2>3, <3>1 DEF Fits1
  <2>4. CASE t[1] # f /\ t[1] \notin met
    BY <1>2, <1>4, <1>6, <1>10, <2>1, <2>4 DEF Fits1
  <2> QED
    BY <2>2, <2>3, <2>4
<1>13. UsedFits'
  <2>1. ASSUME NEW x \in used'
        PROVE  x \in known /\ \E t \in UseSites : t[1] \notin todo' /\ x = Value(t)'
    <3>1. CASE x \in used
      <4>1. PICK t \in UseSites : t[1] \notin todo /\ x = Value(t) /\ x \in known
        BY <1>5, <3>1 DEF UsedFits
      <4>2. t[1] # f /\ t[1] \notin met
        BY <1>8, <4>1
      <4> QED
        BY <1>4, <1>10, <4>1, <4>2
    <3>2. CASE x \in met
      <4>1. PICK t \in UseSites : t[1] = f /\ x = m[t[2]].uses[t[3]] /\ x \in known
        BY <1>6, <3>2
      <4> QED
        BY <1>4, <1>9, <4>1
    <3> QED
      BY <1>6, <3>1, <3>2
  <2>2. ASSUME NEW t \in UseSites, t[1] \notin todo', Value(t)' \in known
        PROVE  Value(t)' \in used'
    <3>1. CASE t[1] = f
      BY <1>6, <1>9, <2>2, <3>1
    <3>2. CASE t[1] \in met
      BY <1>8, <2>2, <3>2
    <3>3. CASE t[1] # f /\ t[1] \notin met
      BY <1>4, <1>5, <1>6, <1>10, <2>2, <3>3 DEF UsedFits
    <3> QED
      BY <3>1, <3>2, <3>3
  <2> QED
    BY <1>1, <1>2, <2>1, <2>2 DEF UsedFits
<1> QED
  BY <1>11, <1>12, <1>13

\* Until they are linked, the modules of a tame workspace are as they are declared.
PlainInv ==
    /\ mpc \in {"discover", "deep", "cycle"} => used = {}
    /\ mpc \in {"deep", "cycle"} /\ Tame => \A f \in known : mods[f] = Unlinked(f)

LEMMA PlainInit == ModInit => PlainInv /\ LinkedInv
BY DEF ModInit, PlainInv, LinkedInv

LEMMA PlainNext ==
  ASSUME TypeInv, PlainInv, [ModNext]_modVars
  PROVE  PlainInv'
<1>1. CASE UNCHANGED modVars
  <2>1. files' = files /\ known' = known /\ UNCHANGED <<mpc, mods, used>>
    BY <1>1, StutterTypes DEF modVars
  <2> QED
    BY <2>1, SitesKept DEF PlainInv, Unlinked
<1>2. CASE (\E f \in todo : DiscoverFile(f)) \/ DiscoverReturns \/ FollowPath \/ FollowPackage
  <2>1. mpc = "discover" /\ used' = used /\ mpc' \in {"discover", "overflow"}
    BY <1>2 DEF DiscoverFile, DiscoverReturns, FollowPath, FollowPackage, Enter, Pending
  <2> QED
    BY <2>1 DEF PlainInv
<1>3. CASE Assemble
  <2>1. PICK b : mods' = [f \in known |-> [i \in DOMAIN files[f] |->
                        [name |-> <<files[f][i].name>>, uses |-> files[f][i].uses,
                         value |-> UsesValue(f, files[f][i], b), children |-> <<>>]]]
    BY <1>3 DEF Assemble
  <2>2. files' = files /\ known' = known /\ used' = used /\ mpc = "discover" /\ mpc' = "deep"
    BY <1>3, <2>1 DEF Assemble, known
  <2>3. ASSUME Tame, NEW f \in known
        PROVE  mods'[f] = Unlinked(f)
    <3>1. ASSUME NEW i \in DOMAIN files[f]
          PROVE  UsesValue(f, files[f][i], b) = <<>>
      <4>1. files[f][i].uses \in Seq(Paths)
        <5>1. f \in DOMAIN files /\ files[f] \in Seq([name : STRING, uses : Seq(Paths)])
          BY FileFacts DEF TypeInv, FileInv
        <5>2. files[f][i] \in [name : STRING, uses : Seq(Paths)]
          BY <5>1, ElementsAre
        <5> QED
          BY <5>2
      <4>2. \A k \in DOMAIN files[f][i].uses : ~IsDotted(files[f][i].uses[k])
        <5> SUFFICES ASSUME NEW k \in DOMAIN files[f][i].uses
                     PROVE  ~IsDotted(files[f][i].uses[k])
          OBVIOUS
        <5>1. <<f, i, k>> \in UseSites /\ Site(<<f, i, k>>) = files[f][i].uses[k]
          BY SitesAre
        <5> QED
          BY <2>3, <5>1 DEF Tame
      <4> QED
        BY <4>1, <4>2, PlainValue
    <3> QED
      BY <2>1, <3>1 DEF Unlinked
  <2>4. Tame' => \A f \in known : mods'[f] = Unlinked(f)
    BY <2>2, <2>3, SitesKept
  <2> QED
    BY <2>2, <2>4 DEF PlainInv, Unlinked
<1>4. CASE \E f \in todo : DeepPathModules(f)
  <2>1. PICK f \in todo : DeepPathModules(f)
    BY <1>4
  <2>2. /\ files' = files /\ used' = used /\ mpc = "deep" /\ mpc' = "deep" /\ f \in known
        /\ mods' = [mods EXCEPT ![f] = DeepPathLoop(f)[Len(mods[f])].list]
    BY <2>1 DEF DeepPathModules, TypeInv, FileInv
  <2>3. known' = known
    BY <2>2 DEF known
  <2>4. mods[f] = Unlinked(f) => mods' = mods
    BY <2>2, PlainLoop DEF TypeInv, FileInv
  <2>5. Tame' <=> Tame
    BY <2>2, <2>3, SitesKept
  <2> QED
    BY <2>2, <2>3, <2>4, <2>5 DEF PlainInv, Unlinked
<1>5. CASE (\E f \in todo : CheckFile(f)) \/ CheckPath \/ CheckReturns \/ CheckEnds \/ DeepPathEnds
  <2>1. /\ files' = files /\ UNCHANGED <<mods, used>> /\ known' = known
        /\ mpc \in {"deep", "cycle"} /\ mpc' # "discover"
    BY <1>5 DEF CheckFile, CheckPath, CheckReturns, CheckEnds, DeepPathEnds, known
  <2> QED
    BY <2>1, SitesKept DEF PlainInv, Unlinked
<1>6. CASE (\E f \in todo : LinkFile(f)) \/ Flatten \/ GetRules \/ ReportRefusal
  <2>1. mpc' \notin {"discover", "deep", "cycle"}
    BY <1>6 DEF LinkFile, Flatten, GetRules, ReportRefusal
  <2> QED
    BY <2>1 DEF PlainInv
<1> QED
  BY <1>1, <1>2, <1>3, <1>4, <1>5, <1>6 DEF ModNext

LEMMA LinkedStays ==
  ASSUME LinkedInv, UNCHANGED <<files, mods, todo, used>>, mpc \in {"uses", "load", "loaded"}
  PROVE  LinkedInv'
<1>1. known' = known
  BY DEF known
<1>2. /\ UseSites' = UseSites /\ (Tame' <=> Tame)
      /\ \A t : Site(t)' = Site(t) /\ Linked(t)' = Linked(t) /\ Lost(t)' = Lost(t) /\ Value(t)' = Value(t)
      /\ \A g : LinksTo(g)' = LinksTo(g)
  BY <1>1, SitesKept DEF Value
<1>3. \A f : Placed(f)' <=> Placed(f)
  BY <1>1 DEF Placed
<1>4. \A t : Fits1(t)' <=> Fits1(t)
  BY <1>2 DEF Fits1
<1>5. UsedFits' <=> UsedFits
  BY <1>1, <1>2 DEF UsedFits
<1> QED
  BY <1>1, <1>2, <1>3, <1>4, <1>5 DEF LinkedInv

LEMMA LinkedNext ==
  ASSUME TypeInv, PlainInv, LinkedInv, [ModNext]_modVars
  PROVE  LinkedInv'
<1>1. CASE mpc' \notin {"uses", "load", "loaded"}
  BY <1>1 DEF LinkedInv
<1>2. CASE CheckEnds
  <2>1. files' = files /\ known' = known /\ mods' = mods /\ todo' = known /\ used' = {} /\ used = {}
    BY <1>2 DEF CheckEnds, known, PlainInv
  <2>2. /\ UseSites' = UseSites /\ (Tame' <=> Tame)
        /\ \A t : Site(t)' = Site(t) /\ Linked(t)' = Linked(t) /\ Lost(t)' = Lost(t) /\ Value(t)' = Value(t)
        /\ \A g : LinksTo(g)' = LinksTo(g)
    BY <2>1, SitesKept DEF Value
  <2> SUFFICES ASSUME Tame
               PROVE  (\A g \in known : Placed(g)') /\ (\A t \in UseSites : Fits1(t)') /\ UsedFits'
    BY <2>1, <2>2 DEF LinkedInv
  <2>3. \A f \in known : mods[f] = Unlinked(f)
    BY <1>2 DEF CheckEnds, PlainInv
  <2>4. \A f \in known : Placed(f)'
    <3>1. ASSUME NEW f \in known
          PROVE  /\ DOMAIN mods'[f] = DOMAIN files[f] /\ f \in todo'
                 /\ \A i \in DOMAIN files[f] : /\ mods'[f][i].name = <<files[f][i].name>> /\ mods'[f][i].children = <<>>
                                               /\ DOMAIN mods'[f][i].uses = DOMAIN files[f][i].uses
      <4>1. mods[f] = Unlinked(f) /\ mods'[f] = mods[f]
        BY <2>1, <2>3
      <4>2. DOMAIN mods'[f] = DOMAIN files[f]
        BY <4>1 DEF Unlinked
      <4>3. \A i \in DOMAIN files[f] :
               mods'[f][i] = [name |-> <<files[f][i].name>>, uses |-> files[f][i].uses, value |-> <<>>, children |-> <<>>]
        BY <4>1 DEF Unlinked
      <4>4. \A i \in DOMAIN files[f] : /\ mods'[f][i].name = <<files[f][i].name>> /\ mods'[f][i].children = <<>>
                                       /\ mods'[f][i].uses = files[f][i].uses
        <5> SUFFICES ASSUME NEW i \in DOMAIN files[f]
                     PROVE  /\ mods'[f][i].name = <<files[f][i].name>> /\ mods'[f][i].children = <<>>
                            /\ mods'[f][i].uses = files[f][i].uses
          OBVIOUS
        <5> DEFINE x == mods'[f][i]
        <5>1. x = [name |-> <<files[f][i].name>>, uses |-> files[f][i].uses, value |-> <<>>, children |-> <<>>]
          BY <4>3
        <5> HIDE DEF x
        <5>2. x.name = <<files[f][i].name>> /\ x.children = <<>> /\ x.uses = files[f][i].uses
          BY <5>1
        <5> QED
          BY <5>2 DEF x
      <4> QED
        BY <2>1, <4>2, <4>4
    <3> QED
      BY <2>1, <3>1 DEF Placed
  <2>5. ASSUME NEW t \in UseSites
        PROVE  t[1] \in todo' /\ Value(t) = Site(t)
    <3>1. t[1] \in known /\ t[2] \in DOMAIN files[t[1]]
      BY SiteFacts
    <3> QED
      <4>1. mods[t[1]] = Unlinked(t[1])
        BY <2>3, <3>1
      <4>2. mods[t[1]][t[2]].uses = files[t[1]][t[2]].uses
        BY <3>1, <4>1 DEF Unlinked
      <4> QED
        BY <2>1, <3>1, <4>2 DEF Value, Site
  <2>6. \A t \in UseSites : Fits1(t)'
    BY <2>1, <2>2, <2>5 DEF Fits1
  <2>7. UsedFits'
    BY <2>1, <2>2, <2>5 DEF UsedFits
  <2> QED
    BY <2>4, <2>6, <2>7
<1>3. CASE \E f \in todo : LinkFile(f)
  BY <1>3, LinkKeeps
<1>4. CASE mpc' \in {"uses", "load", "loaded"} /\ (UNCHANGED modVars \/ Flatten \/ GetRules)
  <2>1. UNCHANGED <<files, mods, todo, used>> /\ mpc \in {"uses", "load", "loaded"}
    BY <1>4 DEF modVars, Flatten, GetRules
  <2> QED
    BY <2>1, LinkedStays
<1>5. CASE \/ (\E f \in todo : DiscoverFile(f) \/ DeepPathModules(f) \/ CheckFile(f))
           \/ FollowPath \/ FollowPackage \/ DiscoverReturns \/ Assemble \/ DeepPathEnds
           \/ CheckPath \/ CheckReturns \/ ReportRefusal
  <2>1. mpc' \notin {"uses", "load", "loaded"}
    BY <1>5 DEF DiscoverFile, DiscoverReturns, FollowPath, FollowPackage, Enter, Pending, Assemble,
                DeepPathModules, DeepPathEnds, CheckFile, CheckPath, CheckReturns, ReportRefusal
  <2> QED
    BY <1>1, <2>1
<1> QED
  BY <1>1, <1>2, <1>3, <1>4, <1>5 DEF ModNext

\* When every file is linked and nothing was lost: the files in use are those that a use
\* links to, and every use is rewritten as it is declared.
LEMMA AllLinked ==
  ASSUME TypeInv, LinkedInv, Tame, Fetched, todo = {}, mpc \in {"uses", "load", "loaded"}
  PROVE  /\ used = {g \in known : LinksTo(g) # {}}
         /\ \A t \in UseSites :
               /\ Value(t) = IF LinksTo(t[1]) = {} THEN Linked(t) ELSE Join(Dir(t[1]), Site(t))
               /\ Value(t) \in known <=> t \in LinkSites
               /\ Value(t) \in used <=> t \in LinkSites
               /\ t \in LinkSites => LinksTo(t[1]) = {} /\ Value(t) = Linked(t)
<1>1. (\A t \in UseSites : Fits1(t)) /\ UsedFits
  BY DEF LinkedInv
<1>2. ASSUME NEW t \in UseSites, LinksTo(t[1]) = {}
      PROVE  Value(t) = Linked(t) /\ (Value(t) \in known <=> t \in LinkSites)
  <2>1. Value(t) = Linked(t) \/ (IsOrg(Site(t)) /\ Value(t) = Lost(t))
    BY <1>1, <1>2 DEF Fits1
  <2>2. IsOrg(Site(t)) => Value(t) = Linked(t)
    BY DEF Fetched, UseAt, Value
  <2> QED
    BY <2>1, <2>2 DEF LinkSites
<1>3. ASSUME NEW t \in UseSites, LinksTo(t[1]) # {}
      PROVE  Value(t) \notin known /\ t \notin LinkSites
             /\ Value(t) = IF t[1] \in used THEN Join(Dir(t[1]), Site(t)) ELSE Site(t)
  <2>1. Value(t) = IF t[1] \in used THEN Join(Dir(t[1]), Site(t)) ELSE Site(t)
    BY <1>1, <1>3 DEF Fits1
  <2> QED
    BY <1>3, <2>1, UsedSite
<1>4. used = {Value(t) : t \in UseSites} \cap known
  BY <1>1 DEF UsedFits
<1>5. ASSUME NEW g \in known
      PROVE  g \in used <=> LinksTo(g) # {}
  <2>1. ASSUME g \in used
        PROVE  LinksTo(g) # {}
    <3>1. PICK t \in UseSites : g = Value(t)
      BY <1>4, <2>1
    <3>2. LinksTo(t[1]) = {}
      BY <1>3, <3>1
    <3>3. t \in LinkSites /\ Linked(t) = g
      BY <1>2, <3>1, <3>2
    <3> QED
      BY <3>3 DEF LinksTo
  <2>2. ASSUME NEW t \in LinksTo(g)
        PROVE  g \in used
    <3>1. t \in UseSites /\ t \in LinkSites /\ Linked(t) = g
      BY DEF LinksTo, LinkSites
    <3>2. LinksTo(t[1]) = {}
      BY <1>3, <3>1
    <3>3. Value(t) = g
      BY <1>2, <3>1, <3>2
    <3> QED
      BY <1>4, <3>1, <3>3
  <2> QED
    BY <2>1, <2>2
<1>6. used = {g \in known : LinksTo(g) # {}}
  BY <1>4, <1>5
<1>7. ASSUME NEW t \in UseSites
      PROVE  /\ Value(t) = IF LinksTo(t[1]) = {} THEN Linked(t) ELSE Join(Dir(t[1]), Site(t))
             /\ Value(t) \in known <=> t \in LinkSites
             /\ Value(t) \in used <=> t \in LinkSites
             /\ t \in LinkSites => LinksTo(t[1]) = {} /\ Value(t) = Linked(t)
  <2>1. CASE LinksTo(t[1]) = {}
    BY <1>2, <1>4, <2>1
  <2>2. CASE LinksTo(t[1]) # {}
    <3>1. t[1] \in used
      BY <1>6, <2>2, SiteFacts
    <3> QED
      BY <1>3, <1>4, <2>2, <3>1
  <2> QED
    BY <2>1, <2>2
<1> QED
  BY <1>6, <1>7

-----------------------------------------------------------------------------
(* What is loaded, and the rules of it.                                     *)

\* The modules of the known files, what they are called when they are flattened, and
\* what of them is listed.
ModuleSites == UNION {{<<f, i>> : i \in DOMAIN files[f]} : f \in known}
Of(f) == {<<f, i>> : i \in DOMAIN files[f]}
NamesOf(x) ==
    LET m == files[x[1]][x[2]].name
    IN  IF LinksTo(x[1]) = {} THEN <<m>>
        ELSE LET l == CHOOSE l \in LinksTo(x[1]) : TRUE IN <<files[l[1]][l[2]].name, m>>
BareUses(x) == LET u == mods[x[1]][x[2]].uses IN Those(u, ToSet(u) \ used)
Bares == [x \in ModuleSites |-> Bare(mods[x[1]][x[2]])]
Flats == [x \in ModuleSites |-> [name |-> NamesOf(x), uses |-> BareUses(x)]]

Ready == /\ TypeInv /\ LinkedInv /\ Tame /\ Fetched
         /\ todo = {} /\ mpc \in {"uses", "load", "loaded"}

LEMMA ModuleFacts ==
  ASSUME Ready, NEW f \in known, NEW i \in DOMAIN files[f]
  PROVE  /\ <<f, i>> \in ModuleSites
         /\ mods[f][i] \in Module /\ mods[f][i].name = <<files[f][i].name>> /\ files[f][i].name \in STRING
         /\ DOMAIN mods[f][i].uses = DOMAIN files[f][i].uses
         /\ \A k \in DOMAIN mods[f][i].uses :
               <<f, i, k>> \in UseSites /\ mods[f][i].uses[k] = Value(<<f, i, k>>)
         /\ ListsAll(mods[f][i].children, {k \in DOMAIN mods[f][i].uses : mods[f][i].uses[k] \in known}, mods[f][i].uses)
         /\ Bares[<<f, i>>] = Bare(mods[f][i])
         /\ Bares[<<f, i>>] = [name |-> <<files[f][i].name>>, uses |-> BareUses(<<f, i>>)]
         /\ Flats[<<f, i>>] = [name |-> NamesOf(<<f, i>>), uses |-> BareUses(<<f, i>>)]
         /\ Bare(mods[f][i]) \in Flat
<1>1. <<f, i>> \in ModuleSites
  BY DEF ModuleSites
<1>2. Placed(f) /\ f \notin todo
  BY DEF Ready, LinkedInv
<1>3. /\ mods[f][i].name = <<files[f][i].name>> /\ i \in DOMAIN mods[f]
      /\ DOMAIN mods[f][i].uses = DOMAIN files[f][i].uses
      /\ ListsAll(mods[f][i].children, {k \in DOMAIN mods[f][i].uses : mods[f][i].uses[k] \in known}, mods[f][i].uses)
  BY <1>2 DEF Placed
<1>4. mods[f] \in Seq(Module) /\ files[f] \in Seq([name : STRING, uses : Seq(Paths)])
  BY FileFacts DEF Ready, TypeInv, FileInv
<1>5. mods[f][i] \in Module /\ files[f][i] \in [name : STRING, uses : Seq(Paths)]
  BY <1>3, <1>4, ElementsAre
<1>6. \A k \in DOMAIN mods[f][i].uses :
               <<f, i, k>> \in UseSites /\ mods[f][i].uses[k] = Value(<<f, i, k>>)
  <2> SUFFICES ASSUME NEW k \in DOMAIN files[f][i].uses
               PROVE  <<f, i, k>> \in UseSites /\ mods[f][i].uses[k] = Value(<<f, i, k>>)
    BY <1>3
  <2> QED
    BY SitesAre DEF Value
<1>7. Bares[<<f, i>>] = Bare(mods[f][i])
  BY <1>1 DEF Bares
<1>8. Bare(mods[f][i]) = [name |-> <<files[f][i].name>>, uses |-> BareUses(<<f, i>>)]
  BY <1>3 DEF Bare, BareUses
<1>9. Flats[<<f, i>>] = [name |-> NamesOf(<<f, i>>), uses |-> BareUses(<<f, i>>)]
  BY <1>1 DEF Flats
<1>10. Bare(mods[f][i]) \in Flat
  <2>1. mods[f][i].uses \in Seq(Paths) /\ mods[f][i].name \in Seq(STRING)
    BY <1>5 DEF Module, ModuleOf
  <2>2. Those(mods[f][i].uses, ToSet(mods[f][i].uses) \ used) \in Seq(Paths)
    BY <2>1, ThoseElements
  <2> QED
    BY <2>1, <2>2 DEF Bare, Flat, FlatOf
<1> QED
  BY <1>1, <1>3, <1>5, <1>6, <1>7, <1>8, <1>9, <1>10

\* Under a file that is used come its own modules only.
LEMMA UsedFormat ==
  ASSUME Ready, NEW c \in known, LinksTo(c) # {}, NEW d \in 0 .. Cardinality(known)
  PROVE  ListsAll(DeepFmt[d][c], Of(c), Bares)
<1> DEFINE s == [i \in DOMAIN mods[c] |-> Append(Below(mods[c][i], d), Bare(mods[c][i]))]
           S == [i \in DOMAIN mods[c] |-> {<<c, i>>}]
<1>1. DeepFmt[d][c] = FlattenSeq(s)
  <2>1. mods \in MapsOf(Paths)
    BY DEF Ready, TypeInv, FileInv, MapsOf, Module
  <2> QED
    BY <2>1, DeepFmtTypes DEF Ready
<1>2. mods[c] \in Seq(Module) /\ DOMAIN mods[c] = DOMAIN files[c]
  BY DEF Ready, TypeInv, FileInv, LinkedInv, Placed
<1>3. ASSUME NEW i \in DOMAIN mods[c]
      PROVE  s[i] = <<Bares[<<c, i>>]>> /\ s[i] \in Seq(Flat)
  <2> DEFINE m == mods[c][i]
  <2>1. \A k \in DOMAIN m.uses : m.uses[k] \notin known
    <3> SUFFICES ASSUME NEW k \in DOMAIN m.uses PROVE m.uses[k] \notin known
      OBVIOUS
    <3>1. <<c, i, k>> \in UseSites /\ m.uses[k] = Value(<<c, i, k>>)
      BY <1>2, ModuleFacts
    <3> QED
      BY <3>1, AllLinked DEF Ready
  <2>2. {k \in DOMAIN m.uses : m.uses[k] \in known} = {}
    BY <2>1
  <2>3. ListsAll(m.children, {}, m.uses)
    BY <1>2, <2>2, ModuleFacts
  <2>4. m.children = <<>>
    BY <2>3, ListsElements
  <2>5. Below(m, d) = <<>>
    <3>1. [k \in DOMAIN m.children |-> Under(m.name, DeepFmt[d - 1][m.children[k]])] = <<>>
      BY <2>4
    <3> QED
      BY <3>1, FlattenNothing DEF Below
  <2>6. Bare(m) = Bares[<<c, i>>] /\ Bare(m) \in Flat
    BY <1>2, ModuleFacts
  <2> HIDE DEF m
  <2>7. s[i] = Append(<<>>, Bares[<<c, i>>])
    BY <2>5, <2>6 DEF m
  <2> DEFINE b == Bares[<<c, i>>]
  <2>8. b \in Flat /\ s[i] = Append(<<>>, b)
    BY <2>6, <2>7
  <2> HIDE DEF s, b
  <2>9. Append(<<>>, b) = <<b>> /\ <<b>> \in Seq(Flat)
    BY <2>8
  <2> QED
    BY <2>8, <2>9 DEF b
<1>4. DOMAIN s = DOMAIN mods[c] /\ DOMAIN s = 1 .. Len(mods[c]) /\ Len(mods[c]) \in Nat
  BY <1>2
<1> HIDE DEF s
<1>5. s \in Seq(Seq(Flat))
  <2>1. s \in [1 .. Len(mods[c]) -> Seq(Flat)]
    <3>1. s = [i \in DOMAIN mods[c] |-> s[i]]
      BY DEF s
    <3> QED
      BY <1>3, <1>4, <3>1
  <2> DEFINE Z == Seq(Flat)
             n == Len(mods[c])
  <2>2. s \in [1 .. n -> Z] /\ n \in Nat
    BY <1>4, <2>1
  <2> HIDE DEF Z, n
  <2>3. s \in Seq(Z)
    BY <2>2
  <2> QED
    BY <2>3 DEF Z
<1>6. \A i \in DOMAIN s : ListsAll(s[i], S[i], Bares)
  BY <1>3, <1>4, ListsOne
<1>7. \A i, j \in DOMAIN s : i # j => S[i] \cap S[j] = {}
  BY <1>4
<1>8. UNION {S[i] : i \in DOMAIN s} = Of(c)
  BY <1>2, <1>4 DEF Of
<1> HIDE DEF S
<1>9. ListsAll(FlattenSeq(s), UNION {S[i] : i \in DOMAIN s}, Bares)
  BY <1>5, <1>6, <1>7, FlattenLists
<1> QED
  BY <1>1, <1>8, <1>9

\* The modules of the files that module i of r uses.
Kin(r, i) == {x \in ModuleSites : \E l \in LinksTo(x[1]) : l[1] = r /\ l[2] = i}

LEMMA ModuleSiteFacts ==
  ASSUME NEW x \in ModuleSites
  PROVE  x = <<x[1], x[2]>> /\ x[1] \in known /\ x[2] \in DOMAIN files[x[1]]
<1>1. PICK f \in known : x \in {<<f, i>> : i \in DOMAIN files[f]}
  BY DEF ModuleSites
<1>2. PICK i \in DOMAIN files[f] : x = <<f, i>>
  BY <1>1
<1> QED
  BY <1>2

LEMMA ChildFormat ==
  ASSUME Ready, NEW r \in known, NEW i \in DOMAIN files[r], NEW k \in DOMAIN mods[r][i].children
  PROVE  LET c == mods[r][i].children[k]
             u == Under(mods[r][i].name, DeepFmt[Cardinality(known) - 1][c])
         IN  /\ c \in known /\ (\E t \in LinksTo(c) : t[1] = r /\ t[2] = i)
             /\ u \in Seq(Flat) /\ ListsAll(u, Of(c), Flats)
<1> DEFINE m == mods[r][i]
           c == m.children[k]
           d == Cardinality(known) - 1
           q == DeepFmt[d][c]
           u == Under(m.name, q)
<1>1. /\ m \in Module /\ m.name = <<files[r][i].name>> /\ files[r][i].name \in STRING
      /\ ListsAll(m.children, {j \in DOMAIN m.uses : m.uses[j] \in known}, m.uses)
      /\ \A j \in DOMAIN m.uses : <<r, i, j>> \in UseSites /\ m.uses[j] = Value(<<r, i, j>>)
  BY ModuleFacts
<1>2. PICK j \in DOMAIN m.uses : c = m.uses[j] /\ m.uses[j] \in known
  <2> DEFINE K == {j \in DOMAIN m.uses : m.uses[j] \in known}
  <2>1. ListsAll(m.children, K, m.uses)
    BY <1>1
  <2> HIDE DEF K, m
  <2>2. \E j \in K : m.children[k] = m.uses[j]
    BY <2>1, ListsElements DEF m
  <2> QED
    BY <2>2 DEF K
<1> DEFINE t == <<r, i, j>>
<1>3. t \in UseSites /\ Value(t) = c /\ c \in known
  BY <1>1, <1>2
<1>4. t \in LinkSites /\ Linked(t) = c
  BY <1>3, AllLinked DEF Ready
<1>5. t \in LinksTo(c) /\ t[1] = r /\ t[2] = i
  BY <1>4 DEF LinksTo
<1>6. (CHOOSE l \in LinksTo(c) : TRUE) = t
  <2>1. \A l \in LinksTo(c) : l = t
    BY <1>4, OneUser DEF LinksTo, Ready
  <2> HIDE DEF t
  <2> QED
    BY <1>5, <2>1
<1>7. d \in 0 .. Cardinality(known)
  <2>1. IsFiniteSet(known)
    BY FileFacts, FS_Subset DEF Ready, TypeInv, FileInv
  <2>2. Cardinality(known) \in Nat /\ Cardinality(known) # 0
    BY <2>1, FS_CardinalityType, FS_EmptySet
  <2> QED
    BY <2>2
<1>8. q \in Seq(Flat)
  <2>1. mods \in MapsOf(Paths)
    BY DEF Ready, TypeInv, FileInv, MapsOf, Module
  <2> QED
    BY <1>3, <1>7, <2>1, DeepFmtTypes DEF Ready, Flat
<1>9. ListsAll(q, Of(c), Bares)
  BY <1>3, <1>5, <1>7, UsedFormat
<1> HIDE DEF q, d, t
<1>10. /\ u \in Seq(Flat) /\ Len(u) = Len(q) /\ DOMAIN u = DOMAIN q
       /\ \A n \in DOMAIN q : u[n] = [name |-> m.name \o q[n].name, uses |-> q[n].uses]
  <2>1. m.name \in Seq(STRING)
    BY <1>1
  <2>2. q \in Seq(FlatOf(Paths))
    BY <1>8 DEF Flat
  <2>3. /\ u \in Seq(FlatOf(Paths)) /\ Len(u) = Len(q) /\ DOMAIN u = DOMAIN q
        /\ \A n \in DOMAIN q : u[n] = [name |-> m.name \o q[n].name, uses |-> q[n].uses]
    <3> DEFINE a == m.name
    <3>1. a \in Seq(STRING)
      BY <2>1
    <3> HIDE DEF a
    <3>2. /\ Under(a, q) \in Seq(FlatOf(Paths)) /\ Len(Under(a, q)) = Len(q) /\ DOMAIN Under(a, q) = DOMAIN q
          /\ \A n \in DOMAIN q : Under(a, q)[n] = [name |-> a \o q[n].name, uses |-> q[n].uses]
      BY <2>2, <3>1, UnderTypes
    <3> QED
      BY <3>2 DEF a
  <2> QED
    BY <2>3 DEF Flat
<1>11. ASSUME NEW x \in Of(c), NEW n \in DOMAIN q, q[n] = Bares[x]
       PROVE  u[n] = Flats[x]
  <2>1. PICK y \in DOMAIN files[c] : x = <<c, y>>
    BY DEF Of
  <2>2. /\ q[n] = [name |-> <<files[c][y].name>>, uses |-> BareUses(x)]
        /\ Flats[x] = [name |-> NamesOf(x), uses |-> BareUses(x)]
    BY <1>3, <1>11, <2>1, ModuleFacts
  <2>3. NamesOf(x) = <<files[r][i].name, files[c][y].name>>
    <3>1. x[1] = c /\ x[2] = y /\ LinksTo(x[1]) # {}
      BY <1>5, <2>1
    <3>2. (CHOOSE l \in LinksTo(x[1]) : TRUE) = t
      BY <1>6, <3>1
    <3> DEFINE h == CHOOSE l \in LinksTo(x[1]) : TRUE
    <3>3. NamesOf(x) = <<files[h[1]][h[2]].name, files[x[1]][x[2]].name>>
      BY <3>1 DEF NamesOf
    <3>4. h[1] = r /\ h[2] = i
      BY <1>5, <3>2
    <3> HIDE DEF h
    <3> QED
      BY <3>1, <3>3, <3>4
  <2>4. m.name \o <<files[c][y].name>> = <<files[r][i].name, files[c][y].name>>
    <3> DEFINE a == files[r][i].name
               b == files[c][y].name
    <3>1. m.name = <<a>> /\ a \in STRING /\ b \in STRING
      BY <1>1, <1>3, <2>1, ModuleFacts
    <3> HIDE DEF a, b
    <3>2. <<a>> \o <<b>> = <<a, b>>
      <4> DEFINE ab == <<a>> \o <<b>>
      <4>1. <<a>> \in Seq(STRING) /\ <<b>> \in Seq(STRING) /\ Len(<<a>>) = 1 /\ Len(<<b>>) = 1
        BY <3>1
      <4>2. ab \in Seq(STRING) /\ Len(ab) = 2 /\ ab[1] = a /\ ab[2] = b
        BY <4>1
      <4> HIDE DEF ab
      <4>3. ab = <<a, b>>
        BY <4>2
      <4> QED
        BY <4>3 DEF ab
    <3> QED
      BY <3>1, <3>2 DEF a, b
  <2> HIDE DEF u
  <2>5. u[n] = [name |-> m.name \o q[n].name, uses |-> q[n].uses]
    BY <1>10
  <2>6. q[n].name = <<files[c][y].name>> /\ q[n].uses = BareUses(x)
    BY <2>2
  <2> QED
    BY <2>2, <2>3, <2>4, <2>5, <2>6
<1> DEFINE M == [x \in Of(c) |-> x]
<1>12. M \in [Of(c) -> Of(c)] /\ (\A x \in Of(c) : M[x] = x)
  OBVIOUS
<1> HIDE DEF M, u
<1>13. ListsAll(u, Of(c), Flats)
  BY <1>9, <1>10, <1>11, <1>12, MapLists
<1> QED
  BY <1>3, <1>5, <1>10, <1>13 DEF u, q, d

\* Under a module come those of the files that it uses, and then the module itself.
LEMMA BelowLists ==
  ASSUME Ready, NEW r \in known, NEW i \in DOMAIN files[r]
  PROVE  /\ Below(mods[r][i], Cardinality(known)) \in Seq(Flat)
         /\ ListsAll(Below(mods[r][i], Cardinality(known)), Kin(r, i), Flats)
<1> DEFINE m == mods[r][i]
           C == m.children
           s == [k \in DOMAIN C |-> Under(m.name, DeepFmt[Cardinality(known) - 1][C[k]])]
           S == [k \in DOMAIN C |-> Of(C[k])]
<1>1. /\ m \in Module
      /\ ListsAll(m.children, {j \in DOMAIN m.uses : m.uses[j] \in known}, m.uses)
      /\ \A j \in DOMAIN m.uses : <<r, i, j>> \in UseSites /\ m.uses[j] = Value(<<r, i, j>>)
  BY ModuleFacts
<1>2. C \in Seq(known) /\ DOMAIN C = 1 .. Len(C) /\ Len(C) \in Nat
  BY <1>1 DEF Module, ModuleOf
<1>3. \A k \in DOMAIN C : /\ C[k] \in known /\ \E t \in LinksTo(C[k]) : t[1] = r /\ t[2] = i
                          /\ s[k] \in Seq(Flat) /\ ListsAll(s[k], S[k], Flats)
  BY ChildFormat
<1>4. Below(m, Cardinality(known)) = FlattenSeq(s)
  <2>1. Cardinality(known) # 0
    <3>1. IsFiniteSet(known)
      BY FileFacts, FS_Subset DEF Ready, TypeInv, FileInv
    <3> QED
      BY <3>1, FS_EmptySet
  <2> QED
    BY <2>1 DEF Below
<1>5. \A j, k \in DOMAIN C : C[j] = C[k] => j = k
  <2> DEFINE K == {j \in DOMAIN m.uses : m.uses[j] \in known}
  <2>1. ASSUME NEW x \in K, NEW y \in K, m.uses[x] = m.uses[y]
        PROVE  x = y
    <3>1. /\ <<r, i, x>> \in LinkSites /\ Linked(<<r, i, x>>) = m.uses[x]
          /\ <<r, i, y>> \in LinkSites /\ Linked(<<r, i, y>>) = m.uses[y]
      BY <1>1, AllLinked DEF Ready
    <3>2. <<r, i, x>> = <<r, i, y>>
      BY <2>1, <3>1, OneUser DEF Ready
    <3> QED
      BY <3>2
  <2>2. ListsAll(C, K, m.uses)
    BY <1>1
  <2> HIDE DEF K, C
  <2> QED
    BY <2>1, <2>2, ListsInjective
<1>6. DOMAIN s = DOMAIN C /\ s \in Seq(Seq(Flat))
  <2> DEFINE Z == Seq(Flat)
             n == Len(C)
  <2>1. s \in [1 .. n -> Z] /\ n \in Nat
    BY <1>2, <1>3
  <2> HIDE DEF Z, n, s
  <2>2. s \in Seq(Z)
    BY <2>1
  <2> QED
    BY <1>2, <2>1, <2>2 DEF Z, n
<1>7. \A j, k \in DOMAIN C : j # k => S[j] \cap S[k] = {}
  BY <1>5 DEF Of
<1>8. UNION {S[k] : k \in DOMAIN C} = Kin(r, i)
  <2>1. ASSUME NEW k \in DOMAIN C, NEW x \in S[k]
        PROVE  x \in Kin(r, i)
    <3>1. PICK j \in DOMAIN files[C[k]] : x = <<C[k], j>>
      BY DEF Of
    <3>2. x \in ModuleSites /\ x[1] = C[k]
      <4>1. C[k] \in known
        BY <1>3
      <4> HIDE DEF C
      <4> QED
        BY <3>1, <4>1, ModuleFacts
    <3> QED
      BY <1>3, <3>2 DEF Kin
  <2>2. ASSUME NEW x \in Kin(r, i)
        PROVE  \E k \in DOMAIN C : x \in S[k]
    <3>1. PICK l \in LinksTo(x[1]) : l[1] = r /\ l[2] = i
      BY DEF Kin
    <3>2. l \in UseSites /\ l \in LinkSites /\ Linked(l) = x[1] /\ Value(l) = x[1]
      BY AllLinked DEF LinksTo, LinkSites, Ready
    <3>3. l[3] \in DOMAIN m.uses /\ m.uses[l[3]] = x[1]
      <4>1. l[3] \in DOMAIN files[r][i].uses
        BY <3>1, <3>2, SiteFacts DEF Ready
      <4> QED
        BY <3>1, <3>2, <4>1, ModuleFacts DEF Value
    <3>4. x \in ModuleSites
      BY DEF Kin
    <3>5. x = <<x[1], x[2]>> /\ x[1] \in known /\ x[2] \in DOMAIN files[x[1]]
      BY <3>4, ModuleSiteFacts
    <3> DEFINE K == {j \in DOMAIN m.uses : m.uses[j] \in known}
    <3>6. ListsAll(C, K, m.uses) /\ l[3] \in K
      BY <1>1, <3>3, <3>5
    <3>7. PICK k \in DOMAIN C : C[k] = x[1]
      <4> HIDE DEF K, C, m
      <4>1. \E k \in DOMAIN C : C[k] = m.uses[l[3]]
        BY <3>6, ListsElements
      <4> QED
        BY <3>3, <4>1
    <3>8. x \in Of(C[k])
      BY <3>5, <3>7 DEF Of
    <3> QED
      BY <3>8
  <2> HIDE DEF S
  <2> QED
    BY <2>1, <2>2
<1> HIDE DEF s, S, C
<1>9. \A k \in DOMAIN s : ListsAll(s[k], S[k], Flats)
  BY <1>3, <1>6
<1>10. ListsAll(FlattenSeq(s), UNION {S[k] : k \in DOMAIN s}, Flats)
  BY <1>6, <1>7, <1>9, FlattenLists
<1>11. FlattenSeq(s) \in Seq(Flat)
  BY <1>6, FlattenElements
<1> QED
  BY <1>4, <1>6, <1>8, <1>10, <1>11

\* The modules of a file that nobody uses, and of the files that it uses.
Family(r) == {x \in ModuleSites : x[1] = r \/ \E l \in LinksTo(x[1]) : l[1] = r}

LEMMA RootFormat ==
  ASSUME Ready, NEW r \in known, LinksTo(r) = {}
  PROVE  /\ DeepFmt[Cardinality(known)][r] \in Seq(Flat)
         /\ ListsAll(DeepFmt[Cardinality(known)][r], Family(r), Flats)
<1> DEFINE n == Cardinality(known)
           s == [i \in DOMAIN mods[r] |-> Append(Below(mods[r][i], n), Bare(mods[r][i]))]
           S == [i \in DOMAIN mods[r] |-> Kin(r, i) \cup {<<r, i>>}]
<1>1. DeepFmt[n][r] = FlattenSeq(s)
  <2>1. mods \in MapsOf(Paths)
    BY DEF Ready, TypeInv, FileInv, MapsOf, Module
  <2>2. n \in 0 .. n
    BY <2>1, DeepFmtTypes DEF Ready
  <2> QED
    BY <2>1, <2>2, DeepFmtTypes DEF Ready
<1>2. mods[r] \in Seq(Module) /\ DOMAIN mods[r] = DOMAIN files[r]
  BY DEF Ready, TypeInv, FileInv, LinkedInv, Placed
<1>3. ASSUME NEW i \in DOMAIN mods[r]
      PROVE  s[i] \in Seq(Flat) /\ ListsAll(s[i], S[i], Flats)
  <2> DEFINE b == Below(mods[r][i], n)
             x == <<r, i>>
  <2>1. b \in Seq(Flat) /\ ListsAll(b, Kin(r, i), Flats)
    BY <1>2, BelowLists
  <2>2. Bare(mods[r][i]) = Flats[x] /\ Flats[x] \in Flat
    <3>1. /\ Bare(mods[r][i]) = [name |-> <<files[r][i].name>>, uses |-> BareUses(x)]
          /\ Flats[x] = [name |-> NamesOf(x), uses |-> BareUses(x)] /\ Bare(mods[r][i]) \in Flat
      BY <1>2, ModuleFacts
    <3>2. NamesOf(x) = <<files[r][i].name>>
      BY DEF NamesOf
    <3> QED
      BY <3>1, <3>2
  <2>3. x \notin Kin(r, i)
    BY DEF Kin
  <2>4. s[i] = Append(b, Flats[x]) /\ S[i] = Kin(r, i) \cup {x}
    BY <2>2
  <2> HIDE DEF b, x, s, S
  <2>5. ListsAll(Append(b, Flats[x]), Kin(r, i) \cup {x}, Flats)
    BY <2>1, <2>3, AppendLists
  <2>6. Append(b, Flats[x]) \in Seq(Flat)
    BY <2>1, <2>2
  <2> QED
    BY <2>4, <2>5, <2>6
<1>4. DOMAIN s = DOMAIN mods[r] /\ s \in Seq(Seq(Flat))
  <2> DEFINE Z == Seq(Flat)
             m == Len(mods[r])
  <2>1. s \in [1 .. m -> Z] /\ m \in Nat
    <3>1. DOMAIN s = DOMAIN mods[r] /\ DOMAIN mods[r] = 1 .. m /\ m \in Nat
      BY <1>2
    <3>2. s = [i \in DOMAIN mods[r] |-> s[i]]
      OBVIOUS
    <3> HIDE DEF s
    <3> QED
      BY <1>3, <3>1, <3>2
  <2> HIDE DEF Z, m, s
  <2>2. s \in Seq(Z)
    BY <2>1
  <2> QED
    BY <1>2, <2>1, <2>2 DEF Z, m, s
<1>5. ASSUME NEW i \in DOMAIN mods[r], NEW j \in DOMAIN mods[r], i # j
      PROVE  S[i] \cap S[j] = {}
  <2>1. ASSUME NEW x \in Kin(r, i), x \in Kin(r, j)
        PROVE  FALSE
    <3>1. PICK l \in LinksTo(x[1]) : l[2] = i
      BY DEF Kin
    <3>2. PICK h \in LinksTo(x[1]) : h[2] = j
      BY <2>1 DEF Kin
    <3>3. l = h
      BY OneUser DEF LinksTo, Ready
    <3> QED
      BY <1>5, <3>1, <3>2, <3>3
  <2>2. <<r, i>> \notin Kin(r, j) /\ <<r, j>> \notin Kin(r, i)
    BY DEF Kin
  <2> QED
    BY <1>5, <2>1, <2>2
<1>6. UNION {S[i] : i \in DOMAIN mods[r]} = Family(r)
  <2>1. ASSUME NEW i \in DOMAIN mods[r], NEW x \in S[i]
        PROVE  x \in Family(r)
    <3>1. <<r, i>> \in ModuleSites
      BY <1>2, ModuleFacts
    <3> QED
      BY <3>1 DEF Family, Kin
  <2>2. ASSUME NEW x \in Family(r)
        PROVE  \E i \in DOMAIN mods[r] : x \in S[i]
    <3>1. x \in ModuleSites
      BY DEF Family
    <3>2. x = <<x[1], x[2]>> /\ x[2] \in DOMAIN files[x[1]]
      BY <3>1, ModuleSiteFacts
    <3>3. CASE x[1] = r
      BY <1>2, <3>2, <3>3
    <3>4. CASE \E l \in LinksTo(x[1]) : l[1] = r
      <4>1. PICK l \in LinksTo(x[1]) : l[1] = r
        BY <3>4
      <4>2. l[2] \in DOMAIN files[r]
        BY <4>1, SiteFacts DEF LinksTo, LinkSites, Ready
      <4>3. x \in Kin(r, l[2])
        BY <3>1, <4>1 DEF Kin
      <4> QED
        BY <1>2, <4>2, <4>3
    <3> QED
      BY <3>3, <3>4 DEF Family
  <2> HIDE DEF S
  <2> QED
    BY <2>1, <2>2
<1> HIDE DEF s, S
<1>7. ListsAll(FlattenSeq(s), UNION {S[i] : i \in DOMAIN s}, Flats)
  BY <1>3, <1>4, <1>5, FlattenLists
<1>8. FlattenSeq(s) \in Seq(Flat)
  BY <1>4, FlattenElements
<1> QED
  BY <1>1, <1>4, <1>6, <1>7, <1>8

\* Every module of a known file is listed once.
LEMMA FlattenLoads ==
  ASSUME Ready, Flatten, mpc' = "load"
  PROVE  ListsAll(loaded', ModuleSites, Flats)
<1> DEFINE roots == SetToSeq(Roots)
           s == [i \in DOMAIN roots |-> DeepFmt[Cardinality(known)][roots[i]]]
           S == [i \in DOMAIN roots |-> Family(roots[i])]
<1>1. loaded' = FlattenSeq(s)
  BY DEF Flatten
<1>2. Roots = {g \in known : LinksTo(g) = {}}
  <2>1. used = {g \in known : LinksTo(g) # {}}
    BY AllLinked DEF Ready
  <2> QED
    BY <2>1 DEF Roots
<1>3. /\ roots \in Seq(Roots) /\ DOMAIN roots = 1 .. Len(roots)
      /\ \A i, j \in DOMAIN roots : roots[i] = roots[j] => i = j
      /\ \A x \in Roots : \E i \in DOMAIN roots : roots[i] = x
  <2>1. IsFiniteSet(Roots)
    BY FileFacts, FS_Subset DEF Roots, Ready, TypeInv, FileInv
  <2> QED
    BY <2>1, ListedOnce
<1> HIDE DEF roots
<1>4. \A i \in DOMAIN roots : roots[i] \in known /\ LinksTo(roots[i]) = {}
  BY <1>2, <1>3
<1>5. \A i \in DOMAIN roots : s[i] \in Seq(Flat) /\ ListsAll(s[i], S[i], Flats)
  BY <1>4, RootFormat
<1>6. DOMAIN s = DOMAIN roots /\ s \in Seq(Seq(Flat))
  <2> DEFINE Z == Seq(Flat)
             m == Len(roots)
  <2>1. s \in [1 .. m -> Z] /\ m \in Nat
    BY <1>3, <1>5
  <2> HIDE DEF Z, m, s
  <2>2. s \in Seq(Z)
    BY <2>1
  <2> QED
    BY <1>3, <2>1, <2>2 DEF Z, m, s
<1>7. ASSUME NEW i \in DOMAIN roots, NEW j \in DOMAIN roots, i # j
      PROVE  S[i] \cap S[j] = {}
  <2> SUFFICES ASSUME NEW x \in S[i], x \in S[j] PROVE FALSE
    OBVIOUS
  <2>1. roots[i] # roots[j]
    BY <1>3, <1>7
  <2>2. x \in Family(roots[i]) /\ x \in Family(roots[j])
    OBVIOUS
  <2>3. PICK l \in LinksTo(x[1]) : l[1] = roots[i] \/ l[1] = roots[j]
    BY <2>1, <2>2 DEF Family
  <2>4. PICK h \in LinksTo(x[1]) : {l[1], h[1]} = {roots[i], roots[j]}
    BY <1>4, <2>1, <2>2, <2>3 DEF Family
  <2>5. l = h
    BY OneUser DEF LinksTo, Ready
  <2> QED
    BY <2>1, <2>4, <2>5
<1>8. UNION {S[i] : i \in DOMAIN roots} = ModuleSites
  <2>1. ASSUME NEW x \in ModuleSites
        PROVE  \E i \in DOMAIN roots : x \in S[i]
    <3>1. x[1] \in known
      BY ModuleSiteFacts
    <3>2. CASE LinksTo(x[1]) = {}
      <4>1. PICK i \in DOMAIN roots : roots[i] = x[1]
        BY <1>2, <1>3, <3>1, <3>2
      <4> QED
        BY <4>1 DEF Family
    <3>3. CASE LinksTo(x[1]) # {}
      <4>1. PICK l \in LinksTo(x[1]) : TRUE
        BY <3>3
      <4>2. l \in UseSites /\ l \in LinkSites
        BY DEF LinksTo, LinkSites
      <4>3. l[1] \in known /\ LinksTo(l[1]) = {}
        BY <4>2, AllLinked, SiteFacts DEF Ready
      <4>4. PICK i \in DOMAIN roots : roots[i] = l[1]
        BY <1>2, <1>3, <4>3
      <4> QED
        BY <4>1, <4>4 DEF Family
    <3> QED
      BY <3>2, <3>3
  <2>2. \A i \in DOMAIN roots : S[i] \subseteq ModuleSites
    BY DEF Family
  <2> HIDE DEF S
  <2> QED
    BY <2>1, <2>2
<1> HIDE DEF s, S
<1>9. ListsAll(FlattenSeq(s), UNION {S[i] : i \in DOMAIN s}, Flats)
  BY <1>5, <1>6, <1>7, FlattenLists
<1> QED
  BY <1>1, <1>6, <1>8, <1>9

\* The uses of a module that are rules, and what they declare.
RuleSitesOf(x) == {t \in UseSites \ LinkSites : t[1] = x[1] /\ t[2] = x[2]}
Declares == [t \in UseSites |-> Declared(t)]

LEMMA DeclaredIs ==
  ASSUME Ready, NEW t \in UseSites, t \notin LinkSites
  PROVE  Declared(t) = [module |-> NamesOf(<<t[1], t[2]>>), path |-> ReadAs(Value(t))]
<1> DEFINE f == t[1]
           l == CHOOSE l \in LinksTo(f) : TRUE
<1>1. CASE LinksTo(f) = {}
  <2>1. Value(t) = Linked(t)
    BY <1>1, AllLinked DEF Ready
  <2> QED
    BY <1>1, <2>1 DEF Declared, NamesOf
<1>2. CASE LinksTo(f) # {}
  <2>1. Value(t) = Join(Dir(f), Site(t))
    BY <1>2, AllLinked DEF Ready
  <2>2. ReadAs(Value(t)) = Join(Dir(f), Site(t))
    BY <1>2, <2>1, UsedSite DEF ReadAs, Ready
  <2> QED
    BY <1>2, <2>2 DEF Declared, NamesOf
<1> QED
  BY <1>1, <1>2

\* A loaded module gives the rules that it declares, when they are there.
LEMMA ModuleRulesList ==
  ASSUME Ready, RulesThere, NEW x \in ModuleSites, NEW net
  PROVE  /\ ModuleRules(Flats[x], net) \in Seq(RuleOf(Paths))
         /\ ListsAll(ModuleRules(Flats[x], net), RuleSitesOf(x), Declares)
<1> DEFINE f == x[1]
           i == x[2]
           us == mods[f][i].uses
           m == Flats[x]
           K == {k \in DOMAIN us : us[k] \in ToSet(us) \ used}
           P == [t \in UseSites |-> Declared(t).path]
           paths == [k \in DOMAIN m.uses |-> ReadAs(m.uses[k])]
           T == ToSet(paths) \ DOMAIN files
           found == Those(paths, T)
           list == [k \in DOMAIN found |-> [module |-> m.name, path |-> found[k]]]
           R == RuleSitesOf(x)
<1>1. x = <<f, i>> /\ f \in known /\ i \in DOMAIN files[f]
  BY ModuleSiteFacts
<1>2. /\ us \in Seq(Paths) /\ m.uses = Those(us, ToSet(us) \ used) /\ m.name = NamesOf(x)
      /\ m \in FlatOf(Paths)
      /\ DOMAIN us = DOMAIN files[f][i].uses
      /\ \A k \in DOMAIN us : <<f, i, k>> \in UseSites /\ us[k] = Value(<<f, i, k>>)
  <2>1. /\ us \in Seq(Paths) /\ DOMAIN us = DOMAIN files[f][i].uses
        /\ m = [name |-> NamesOf(x), uses |-> BareUses(x)] /\ BareUses(x) = Those(us, ToSet(us) \ used)
        /\ \A k \in DOMAIN us : <<f, i, k>> \in UseSites /\ us[k] = Value(<<f, i, k>>)
    <3>1. /\ mods[f][i] \in Module /\ DOMAIN us = DOMAIN files[f][i].uses
          /\ Flats[<<f, i>>] = [name |-> NamesOf(<<f, i>>), uses |-> BareUses(<<f, i>>)]
          /\ \A k \in DOMAIN us : <<f, i, k>> \in UseSites /\ us[k] = Value(<<f, i, k>>)
      BY <1>1, ModuleFacts
    <3>2. us \in Seq(Paths)
      BY <3>1 DEF Module, ModuleOf
    <3>3. BareUses(x) = Those(us, ToSet(us) \ used)
      BY DEF BareUses
    <3> QED
      BY <1>1, <3>1, <3>2, <3>3
  <2>2. BareUses(x) \in Seq(Paths)
    BY <2>1, ThoseElements
  <2>3. NamesOf(x) \in Seq(STRING)
    <3>1. files[f][i].name \in STRING
      BY <1>1, ModuleFacts
    <3>2. ASSUME NEW l \in LinksTo(f)
          PROVE  files[l[1]][l[2]].name \in STRING
      <4>1. l \in UseSites
        BY DEF LinksTo, LinkSites
      <4> QED
        BY <4>1, SiteFacts, ModuleFacts DEF Ready
    <3> DEFINE h == CHOOSE l \in LinksTo(f) : TRUE
    <3>3. LinksTo(f) # {} => files[h[1]][h[2]].name \in STRING
      BY <3>2
    <3>4. NamesOf(x) = IF LinksTo(f) = {} THEN <<files[f][i].name>> ELSE <<files[h[1]][h[2]].name, files[f][i].name>>
      BY DEF NamesOf
    <3> HIDE DEF h
    <3> QED
      BY <3>1, <3>3, <3>4
  <2> HIDE DEF m
  <2>4. m.uses = BareUses(x) /\ m.name = NamesOf(x)
    BY <2>1
  <2>5. m \in FlatOf(Paths)
    BY <2>1, <2>2, <2>3 DEF FlatOf
  <2> QED
    BY <2>1, <2>4, <2>5
<1>3. ListsAll(m.uses, K, us)
  <2>1. ListsAll(us, DOMAIN us, us)
    BY <1>2, ListsItself
  <2> HIDE DEF us, m
  <2> QED
    BY <1>2, <2>1, ThoseLists
<1>4. ASSUME NEW k \in DOMAIN us
      PROVE  /\ k \in K <=> <<f, i, k>> \notin LinkSites
             /\ k \in K => ReadAs(us[k]) = P[<<f, i, k>>]
  <2>1. <<f, i, k>> \in UseSites /\ us[k] = Value(<<f, i, k>>) /\ us[k] \in ToSet(us)
    BY <1>2 DEF ToSet
  <2>2. k \in K <=> <<f, i, k>> \notin LinkSites
    BY <2>1, AllLinked DEF Ready
  <2>3. <<f, i, k>> \notin LinkSites => Declared(<<f, i, k>>).path = ReadAs(us[k])
    <3> DEFINE t == <<f, i, k>>
    <3>1. t \in UseSites /\ us[k] = Value(t)
      BY <2>1
    <3> HIDE DEF t
    <3>2. t \notin LinkSites => Declared(t).path = ReadAs(Value(t))
      <4> DEFINE a == NamesOf(<<t[1], t[2]>>)
                 p == ReadAs(Value(t))
      <4>1. t \notin LinkSites => Declared(t) = [module |-> a, path |-> p]
        BY <3>1, DeclaredIs
      <4> HIDE DEF a, p
      <4>2. t \notin LinkSites => Declared(t).path = p
        BY <4>1
      <4> QED
        BY <4>2 DEF p
    <3> QED
      BY <3>1, <3>2 DEF t
  <2> QED
    BY <2>1, <2>2, <2>3
<1> DEFINE M == [k \in K |-> <<f, i, k>>]
<1>5. /\ M \in [K -> R] /\ (\A j, k \in K : M[j] = M[k] => j = k) /\ \A t \in R : \E k \in K : M[k] = t
  <2>1. ASSUME NEW k \in K
        PROVE  M[k] \in R
    <3>1. k \in DOMAIN us
      OBVIOUS
    <3> QED
      BY <1>1, <1>2, <1>4, <3>1 DEF RuleSitesOf
  <2>2. ASSUME NEW t \in R
        PROVE  \E k \in K : M[k] = t
    <3>1. t \in UseSites /\ t \notin LinkSites /\ t[1] = f /\ t[2] = i
      BY DEF RuleSitesOf
    <3>2. t = <<f, i, t[3]>> /\ t[3] \in DOMAIN us
      BY <1>2, <3>1, SiteFacts DEF Ready
    <3>3. t[3] \in K
      BY <1>4, <3>1, <3>2
    <3> QED
      BY <3>2, <3>3
  <2> QED
    BY <2>1, <2>2
<1>6. Len(paths) = Len(m.uses) /\ paths \in Seq(Paths) /\ DOMAIN paths = DOMAIN m.uses
  <2> DEFINE w == m.uses
             n == Len(w)
  <2>1. w \in Seq(Paths) /\ n \in Nat /\ DOMAIN w = 1 .. n
    BY <1>2 DEF FlatOf
  <2> HIDE DEF m
  <2>2. \A k \in DOMAIN w : ReadAs(w[k]) \in Paths
    BY <2>1, ReadPaths
  <2>3. paths = [k \in 1 .. n |-> ReadAs(w[k])]
    BY <2>1
  <2> HIDE DEF paths, w
  <2>4. paths \in [1 .. n -> Paths]
    BY <2>1, <2>2, <2>3
  <2> HIDE DEF n
  <2>5. paths \in Seq(Paths) /\ Len(paths) = n /\ DOMAIN paths = 1 .. n
    BY <2>1, <2>4
  <2> QED
    BY <2>1, <2>5 DEF w, n
<1>7. ListsAll(paths, R, P)
  <2>1. \A k \in DOMAIN m.uses : \A j \in K : m.uses[k] = us[j] => paths[k] = P[M[j]]
    BY <1>4
  <2> HIDE DEF m, K, M, paths, P, R, us
  <2> QED
    BY <1>3, <1>5, <1>6, <2>1, MapLists
<1>8. \A t \in R : P[t] \in AllFiles \cap RuleFiles
  BY DEF RuleSitesOf, RulesThere
<1>9. ToSet(paths) \subseteq AllFiles \cap RuleFiles /\ \A t \in R : P[t] \in ToSet(paths)
  <2> HIDE DEF paths, P, R
  <2> QED
    BY <1>7, <1>8, ListsElements DEF ToSet
<1>10. \A t \in R : P[t] \in T
  <2>1. RuleFiles \cap DOMAIN files = {}
    BY ModAssumption DEF Ready, TypeInv, FileInv
  <2> HIDE DEF paths, P, R
  <2> QED
    BY <1>8, <1>9, <2>1
<1>11. found \in Seq(Paths) /\ ListsAll(found, R, P)
  <2> HIDE DEF paths, P, R, T
  <2>1. ListsAll(found, {t \in R : P[t] \in T}, P)
    BY <1>6, <1>7, ThoseLists
  <2>2. {t \in R : P[t] \in T} = R
    BY <1>10
  <2> QED
    BY <1>6, <2>1, <2>2, ThoseElements
<1>12. ModuleRules(m, net) = list
  BY <1>9 DEF ModuleRules
<1>13. ModuleRules(m, net) \in Seq(RuleOf(Paths))
  <2>1. Paths \in SUBSET Paths /\ \A u \in Paths : ReadAs(u) \in Paths
    BY ReadPaths
  <2> HIDE DEF m
  <2> QED
    BY <1>2, <2>1, ModuleRulesTypes
<1>14. ListsAll(list, R, Declares)
  <2>1. DOMAIN found = 1 .. Len(found) /\ Len(found) \in Nat
    BY <1>11
  <2>2. DOMAIN list = DOMAIN found /\ Len(list) = Len(found)
    BY <2>1
  <2>3. ASSUME NEW k \in DOMAIN found, NEW t \in R, found[k] = P[t]
        PROVE  list[k] = Declares[t]
    <3>1. t \in UseSites /\ t \notin LinkSites /\ <<t[1], t[2]>> = x
      BY <1>1 DEF RuleSitesOf
    <3>2. Declared(t) = [module |-> NamesOf(x), path |-> ReadAs(Value(t))]
      BY <3>1, DeclaredIs
    <3>3. found[k] = ReadAs(Value(t))
      BY <2>3, <3>1, <3>2
    <3> QED
      BY <1>2, <3>1, <3>2, <3>3 DEF Declares
  <2> DEFINE I == [t \in R |-> t]
  <2>4. I \in [R -> R] /\ \A t \in R : I[t] = t
    OBVIOUS
  <2> HIDE DEF I, R, found, list, P
  <2> QED
    BY <1>11, <2>2, <2>3, <2>4, MapLists
<1> QED
  BY <1>12, <1>13, <1>14

LEMMA RulesList ==
  ASSUME Ready, RulesThere, ListsAll(loaded, ModuleSites, Flats), loaded # <<>>, GetRules
  PROVE  ListsAll(rules', UseSites \ LinkSites, Declares)
<1>1. PICK net \in BOOLEAN : rules' = FlattenSeq([i \in DOMAIN loaded |-> ModuleRules(loaded[i], net)])
  BY DEF GetRules
<1>2. PICK b \in Seq(ModuleSites) : IsInjective(b) /\ ToSet(b) = ModuleSites /\ Labels(b, loaded, Flats)
  BY DEF ListsAll
<1> DEFINE s == [i \in DOMAIN loaded |-> ModuleRules(loaded[i], net)]
           S == [i \in DOMAIN loaded |-> RuleSitesOf(b[i])]
<1>3. /\ DOMAIN b = DOMAIN loaded /\ \A i \in DOMAIN loaded : b[i] \in ModuleSites /\ loaded[i] = Flats[b[i]]
      /\ \A i, j \in DOMAIN loaded : b[i] = b[j] => i = j
      /\ \A x \in ModuleSites : \E i \in DOMAIN loaded : x = b[i]
  BY <1>2 DEF Labels, IsInjective, ToSet
<1>4. DOMAIN loaded = 1 .. Len(loaded) /\ Len(loaded) \in Nat
  BY DEF Ready, TypeInv, ListInv
<1>5. \A i \in DOMAIN loaded : s[i] \in Seq(RuleOf(Paths)) /\ ListsAll(s[i], S[i], Declares)
  BY <1>3, ModuleRulesList
<1>6. DOMAIN s = DOMAIN loaded /\ s \in Seq(Seq(RuleOf(Paths)))
  <2> DEFINE Z == Seq(RuleOf(Paths))
             n == Len(loaded)
  <2>1. s \in [1 .. n -> Z] /\ n \in Nat
    BY <1>4, <1>5
  <2> HIDE DEF Z, n, s
  <2>2. s \in Seq(Z)
    BY <2>1
  <2> QED
    BY <1>4, <2>1, <2>2 DEF Z, n, s
<1>7. ASSUME NEW i \in DOMAIN loaded, NEW j \in DOMAIN loaded, i # j
      PROVE  S[i] \cap S[j] = {}
  <2> SUFFICES ASSUME NEW t \in S[i], t \in S[j] PROVE FALSE
    OBVIOUS
  <2>1. <<t[1], t[2]>> = b[i] /\ <<t[1], t[2]>> = b[j]
    BY <1>3, ModuleSiteFacts DEF RuleSitesOf
  <2> QED
    BY <1>3, <1>7, <2>1
<1>8. UNION {S[i] : i \in DOMAIN loaded} = UseSites \ LinkSites
  <2>1. ASSUME NEW t \in UseSites \ LinkSites
        PROVE  \E i \in DOMAIN loaded : t \in S[i]
    <3>1. <<t[1], t[2]>> \in ModuleSites
      BY SiteFacts, ModuleFacts DEF Ready
    <3>2. PICK i \in DOMAIN loaded : <<t[1], t[2]>> = b[i]
      BY <1>3, <3>1
    <3>3. b[i][1] = t[1] /\ b[i][2] = t[2]
      BY <3>2
    <3> QED
      BY <3>3 DEF RuleSitesOf
  <2>2. \A i \in DOMAIN loaded : S[i] \subseteq UseSites \ LinkSites
    BY DEF RuleSitesOf
  <2> HIDE DEF S
  <2> QED
    BY <2>1, <2>2
<1> HIDE DEF s, S
<1>9. ListsAll(FlattenSeq(s), UNION {S[i] : i \in DOMAIN s}, Declares)
  BY <1>5, <1>6, <1>7, FlattenLists
<1> QED
  BY <1>1, <1>6, <1>8, <1>9 DEF s

\* What is loaded are the modules of the known files, and the rules are those that they
\* declare.
RulesInv ==
    /\ mpc \in {"load", "loaded"} => todo = {}
    /\ mpc \in {"load", "loaded"} /\ Tame /\ Fetched => ListsAll(loaded, ModuleSites, Flats)
    /\ mpc = "loaded" /\ loaded # <<>> /\ Tame /\ RulesThere /\ Fetched =>
           ListsAll(rules, UseSites \ LinkSites, Declares)

LEMMA RulesKept ==
  ASSUME UNCHANGED <<files, mods, used, pkgs>>
  PROVE  /\ known' = known /\ UseSites' = UseSites /\ LinkSites' = LinkSites /\ ModuleSites' = ModuleSites
         /\ Flats' = Flats /\ Declares' = Declares
         /\ (Tame' <=> Tame) /\ (Fetched' <=> Fetched) /\ (RulesThere' <=> RulesThere)
<1>1. known' = known
  BY DEF known
<1>2. /\ UseSites' = UseSites /\ LinkSites' = LinkSites /\ (Tame' <=> Tame)
      /\ \A t : Site(t)' = Site(t) /\ Linked(t)' = Linked(t) /\ Declared(t)' = Declared(t)
      /\ \A g : LinksTo(g)' = LinksTo(g)
  BY <1>1, SitesKept
<1>3. ModuleSites' = ModuleSites
  BY <1>1 DEF ModuleSites
<1>4. \A x : NamesOf(x)' = NamesOf(x) /\ BareUses(x)' = BareUses(x)
  <2> SUFFICES ASSUME NEW x
               PROVE  NamesOf(x)' = NamesOf(x) /\ BareUses(x)' = BareUses(x)
    OBVIOUS
  <2>1. LinksTo(x[1])' = LinksTo(x[1])
    BY <1>2
  <2>2. NamesOf(x)' = NamesOf(x)
    BY <2>1 DEF NamesOf
  <2>3. BareUses(x)' = BareUses(x)
    BY DEF BareUses
  <2> QED
    BY <2>2, <2>3
<1>5. Flats' = Flats
  BY <1>3, <1>4 DEF Flats
<1>6. Declares' = Declares
  BY <1>2 DEF Declares
<1>7. Fetched' <=> Fetched
  BY <1>2 DEF Fetched, UseAt
<1>8. RulesThere' <=> RulesThere
  BY <1>2 DEF RulesThere, AllFiles, OnDisk
<1> QED
  BY <1>1, <1>2, <1>3, <1>5, <1>6, <1>7, <1>8

LEMMA RulesNext ==
  ASSUME TypeInv, LinkedInv, RulesInv, [ModNext]_modVars
  PROVE  RulesInv'
<1>1. CASE UNCHANGED modVars
  BY <1>1, RulesKept DEF modVars, RulesInv
<1>2. CASE Flatten
  <2>1. /\ UNCHANGED <<files, mods, used, pkgs, todo>> /\ todo = {} /\ mpc = "uses"
        /\ mpc' \in {"load", "refused"}
    BY <1>2 DEF Flatten
  <2>2. ASSUME mpc' = "load", Tame, Fetched
        PROVE  ListsAll(loaded', ModuleSites, Flats)
    BY <1>2, <2>1, <2>2, FlattenLoads DEF Ready
  <2> QED
    BY <2>1, <2>2, RulesKept DEF RulesInv
<1>3. CASE GetRules
  <2>1. UNCHANGED <<files, mods, used, pkgs, todo, loaded>> /\ mpc = "load" /\ mpc' = "loaded"
    BY <1>3 DEF GetRules
  <2>2. todo = {} /\ (Tame /\ Fetched => ListsAll(loaded, ModuleSites, Flats))
    BY <2>1 DEF RulesInv
  <2>3. ASSUME loaded # <<>>, Tame, RulesThere, Fetched
        PROVE  ListsAll(rules', UseSites \ LinkSites, Declares)
    BY <1>3, <2>1, <2>2, <2>3, RulesList DEF Ready
  <2> QED
    BY <2>1, <2>2, <2>3, RulesKept DEF RulesInv
<1>4. CASE \/ (\E f \in todo : DiscoverFile(f) \/ DeepPathModules(f) \/ CheckFile(f) \/ LinkFile(f))
           \/ FollowPath \/ FollowPackage \/ DiscoverReturns \/ Assemble \/ DeepPathEnds
           \/ CheckPath \/ CheckReturns \/ CheckEnds \/ ReportRefusal
  <2>1. mpc' \notin {"load", "loaded"}
    BY <1>4 DEF DiscoverFile, DiscoverReturns, FollowPath, FollowPackage, Enter, Pending, Assemble, LinkFile,
                DeepPathModules, DeepPathEnds, CheckFile, CheckPath, CheckReturns, CheckEnds, ReportRefusal
  <2> QED
    BY <2>1 DEF RulesInv
<1> QED
  BY <1>1, <1>2, <1>3, <1>4 DEF ModNext

\* In a tame workspace every rule that a module declares is loaded once, from where it is,
\* under the names of its users and its module, in whatever order the maps of the code are
\* iterated and whatever the files are (config.go:619-702, apply.go:413-459).
THEOREM EveryRuleIsLoaded == ModSpec => []LoadedAsDeclared
<1>1. ModInit => PlainInv /\ LinkedInv /\ RulesInv
  BY PlainInit DEF ModInit, RulesInv
<1>2. TypeInv /\ PlainInv /\ LinkedInv /\ RulesInv /\ [ModNext]_modVars => (PlainInv /\ LinkedInv /\ RulesInv)'
  BY PlainNext, LinkedNext, RulesNext
<1>3. RulesInv => LoadedAsDeclared
  <2> SUFFICES ASSUME RulesInv, mpc = "loaded", loaded # <<>>, Tame, RulesThere, Fetched, NEW e
               PROVE  Cardinality({k \in DOMAIN rules : rules[k] = e})
                      = Cardinality({t \in UseSites \ LinkSites : Declared(t) = e})
    BY DEF LoadedAsDeclared
  <2>1. ListsAll(rules, UseSites \ LinkSites, Declares)
    BY DEF RulesInv
  <2> DEFINE S == UseSites \ LinkSites
             K == {k \in DOMAIN rules : rules[k] = e}
             C == {t \in S : Declared(t) = e}
  <2>2. K \in SUBSET DOMAIN rules /\ C \in SUBSET S
    OBVIOUS
  <2>3. \A k \in DOMAIN rules : \A t \in S : rules[k] = Declares[t] => (k \in K <=> t \in C)
    BY DEF Declares
  <2>4. ListsAll(rules, S, Declares)
    BY <2>1
  <2> HIDE DEF S, K, C
  <2>5. Cardinality(K) = Cardinality(C)
    BY <2>2, <2>3, <2>4, ListsCount
  <2> QED
    BY <2>5 DEF S, K, C
<1> QED
  BY TypeInvariant, <1>1, <1>2, <1>3, PTL DEF ModSpec
=============================================================================
