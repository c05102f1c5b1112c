-------------------------- MODULE StateEmitterProofs ---------------------------
(***************************************************************************)
(* Proofs about StateEmitter, for trees of any depth, any inputs, and any  *)
(* number of updates, from outside and from within subscribers: what       *)
(* deepMerge() computes, and that who listens knows the state.             *)
(***************************************************************************)
EXTENDS StateEmitter, WellFoundedInduction, TLAPS

-----------------------------------------------------------------------------
(* Induction, from the least number a set misses. *)

LEMMA Least ==
  ASSUME NEW S, S \subseteq Nat, S # {}
  PROVE  \E n \in S : \A m \in S : n <= m
<1> DEFINE R == OpToRel(<, Nat)
<1>1. IsWellFoundedOn(R, Nat)
  BY NatLessThanWellFounded
<1>2. \A x, y \in Nat : <<x, y>> \in R <=> x < y
  BY DEF OpToRel
<1> HIDE DEF R
<1>3. PICK n \in S : \A m \in S : ~ (<<m, n>> \in R)
  BY <1>1, WFMin
<1>4. ASSUME NEW m \in S PROVE n <= m
  <2>1. m \in Nat /\ n \in Nat
    OBVIOUS
  <2>2. ~(m < n)
    BY <1>2, <1>3, <2>1
  <2> QED BY <2>1, <2>2
<1> QED BY <1>4

LEMMA UpTo ==
  ASSUME NEW N \in Nat, NEW S, 0 \in S, \A n \in Nat : n < N /\ n \in S => n + 1 \in S
  PROVE  \A n \in 0..N : n \in S
<1> SUFFICES ASSUME (0..N) \ S # {} PROVE FALSE
  OBVIOUS
<1> DEFINE T == (0..N) \ S
<1>0. T \subseteq Nat /\ T # {}
  OBVIOUS
<1> HIDE DEF T
<1>1. PICK n \in T : \A m \in T : n <= m
  BY <1>0, Least
<1> USE DEF T
<1>2. n # 0 /\ n - 1 \in Nat /\ n - 1 < N /\ n - 1 \in 0..N
  BY <1>1
<1>3. n - 1 \in S
  BY <1>1, <1>2
<1> QED BY <1>2, <1>3

-----------------------------------------------------------------------------
(* Paths. *)

LEMMA PathsAre ==
  \A path : path \in Paths <=> path \in Seq(Names) /\ Len(path) <= Depth
<1>1. ASSUME NEW path \in Paths PROVE path \in Seq(Names) /\ Len(path) <= Depth
  BY BoundsAssumption DEF Paths
<1>2. ASSUME NEW path \in Seq(Names), Len(path) <= Depth PROVE path \in Paths
  <2>1. path \in [1..Len(path) -> Names] /\ Len(path) \in 0..Depth
    BY <1>2, BoundsAssumption
  <2> QED BY <2>1 DEF Paths
<1> QED BY <1>1, <1>2

LEMMA PrefixOf ==
  ASSUME NEW path \in Seq(Names), NEW n \in 0..Len(path)
  PROVE  /\ Prefix(path, n) \in Seq(Names) /\ Len(Prefix(path, n)) = n
         /\ \A i \in 1..n : Prefix(path, n)[i] = path[i]
         /\ \A i \in 0..n : Prefix(Prefix(path, n), i) = Prefix(path, i)
         /\ path \in Paths => Prefix(path, n) \in Paths
<1>1. /\ Prefix(path, n) \in Seq(Names) /\ Len(Prefix(path, n)) = n
      /\ \A i \in 1..n : Prefix(path, n)[i] = path[i]
  BY DEF Prefix
<1>2. ASSUME NEW i \in 0..n PROVE Prefix(Prefix(path, n), i) = Prefix(path, i)
  BY <1>1 DEF Prefix
<1>3. path \in Paths => Prefix(path, n) \in Paths
  BY <1>1, PathsAre, BoundsAssumption
<1> QED BY <1>1, <1>2, <1>3

LEMMA PrefixEnds ==
  ASSUME NEW path \in Seq(Names)
  PROVE  Prefix(path, 0) = <<>> /\ Prefix(path, Len(path)) = path
BY DEF Prefix

LEMMA PrefixStep ==
  ASSUME NEW path \in Seq(Names), NEW n \in 1..Len(path)
  PROVE  /\ n - 1 \in 0..Len(path) /\ path[n] \in Names
         /\ Prefix(path, n - 1) \in Seq(Names)
         /\ Prefix(path, n) = Append(Prefix(path, n - 1), path[n])
<1> DEFINE a == Prefix(path, n)
           b == Append(Prefix(path, n - 1), path[n])
<1>1. n - 1 \in 0..Len(path) /\ n \in 0..Len(path) /\ path[n] \in Names /\ n \in Nat
  OBVIOUS
<1>2. /\ a \in Seq(Names) /\ Len(a) = n /\ \A i \in 1..n : a[i] = path[i]
      /\ Prefix(path, n - 1) \in Seq(Names) /\ Len(Prefix(path, n - 1)) = n - 1
      /\ \A i \in 1..(n - 1) : Prefix(path, n - 1)[i] = path[i]
  BY <1>1, PrefixOf
<1>3. b \in Seq(Names) /\ Len(b) = n /\ \A i \in 1..n : b[i] = path[i]
  BY <1>1, <1>2
<1> HIDE DEF a, b
<1>4. a = b
  BY <1>2, <1>3
<1> QED BY <1>1, <1>2, <1>4 DEF a, b

LEMMA Appended ==
  ASSUME NEW path \in Seq(Names), NEW k \in Names
  PROVE  /\ Append(path, k) \in Seq(Names) /\ Len(Append(path, k)) = Len(path) + 1
         /\ Len(path) \in Nat /\ Append(path, k)[Len(path) + 1] = k
         /\ \A n \in 1..Len(path) : Append(path, k)[n] = path[n]
         /\ \A n \in 0..Len(path) : Prefix(Append(path, k), n) = Prefix(path, n)
<1>1. /\ Append(path, k) \in Seq(Names) /\ Len(Append(path, k)) = Len(path) + 1
      /\ Len(path) \in Nat /\ Append(path, k)[Len(path) + 1] = k
      /\ \A n \in 1..Len(path) : Append(path, k)[n] = path[n]
  OBVIOUS
<1>2. ASSUME NEW n \in 0..Len(path) PROVE Prefix(Append(path, k), n) = Prefix(path, n)
  <2> DEFINE a == Prefix(Append(path, k), n)
             b == Prefix(path, n)
  <2>1. n \in 0..Len(Append(path, k))
    BY <1>1
  <2>2. /\ a \in Seq(Names) /\ Len(a) = n /\ \A i \in 1..n : a[i] = Append(path, k)[i]
        /\ b \in Seq(Names) /\ Len(b) = n /\ \A i \in 1..n : b[i] = path[i]
    BY <1>1, <2>1, PrefixOf
  <2>3. \A i \in 1..n : i \in 1..Len(path)
    BY <1>1
  <2> HIDE DEF a, b
  <2>4. \A i \in 1..n : a[i] = b[i]
    BY <1>1, <2>2, <2>3
  <2>5. a = b
    BY <2>2, <2>4
  <2> QED BY <2>5 DEF a, b
<1> QED BY <1>1, <1>2

-----------------------------------------------------------------------------
(* The loop of getNestedValue(). *)

Walk(at, v, path, n) ==
  at = [i \in 0..n |-> IF i = 0 THEN v ELSE At(at[i - 1], path[i])]

LEMMA WalkExists ==
  ASSUME NEW v, NEW path, NEW n \in Nat
  PROVE  \E at : Walk(at, v, path, n)
<1> DEFINE T == {k \in Nat : \E at : Walk(at, v, path, k)}
<1>1. 0 \in T
  <2> DEFINE at == [i \in 0..0 |-> v]
  <2>1. \A i \in 0..0 : i = 0
    OBVIOUS
  <2>2. Walk(at, v, path, 0)
    BY <2>1 DEF Walk
  <2> QED BY <2>2
<1>2. ASSUME NEW k \in Nat, k < n, k \in T PROVE k + 1 \in T
  <2>1. PICK at : Walk(at, v, path, k)
    BY <1>2
  <2> DEFINE u == [i \in 0..(k + 1) |-> IF i = k + 1 THEN At(at[k], path[k + 1]) ELSE at[i]]
             step(w, i) == IF i = 0 THEN v ELSE At(w[i - 1], path[i])
  <2>2. \A i \in 0..k : at[i] = step(at, i)
    BY <2>1 DEF Walk
  <2>3. \A i \in 0..k : i \in 0..(k + 1) /\ i # k + 1 /\ u[i] = at[i]
    OBVIOUS
  <2>4. k + 1 \in 0..(k + 1) /\ u[k + 1] = At(at[k], path[k + 1])
    OBVIOUS
  <2>5. u = [i \in 0..(k + 1) |-> u[i]]
    OBVIOUS
  <2> HIDE DEF u
  <2>6. ASSUME NEW i \in 0..(k + 1) PROVE u[i] = step(u, i)
    <3>1. CASE i = k + 1
      <4>1. i # 0 /\ i - 1 = k /\ u[k] = at[k]
        BY <2>3, <3>1
      <4> QED BY <2>4, <3>1, <4>1
    <3>2. CASE i = 0
      BY <2>2, <2>3, <3>2
    <3>3. CASE i # 0 /\ i # k + 1
      <4>1. i \in 0..k /\ i - 1 \in 0..k
        BY <3>3
      <4>2. u[i - 1] = at[i - 1] /\ u[i] = at[i]
        BY <2>3, <4>1
      <4>3. at[i] = step(at, i)
        BY <2>2, <4>1
      <4> QED BY <4>2, <4>3
    <3> QED BY <3>1, <3>2, <3>3
  <2>7. Walk(u, v, path, k + 1)
    BY <2>5, <2>6 DEF Walk
  <2> QED BY <2>7
<1> HIDE DEF T
<1>3. n \in T
  BY <1>1, <1>2, UpTo
<1> QED BY <1>3 DEF T

LEMMA GetIsWalk ==
  ASSUME NEW v, NEW path \in Seq(Names)
  PROVE  \E at : /\ getNestedValue(v, path) = at[Len(path)] /\ at[0] = v
                 /\ \A i \in 1..Len(path) : at[i] = At(at[i - 1], path[i])
<1> DEFINE n == Len(path)
           at == CHOOSE at : Walk(at, v, path, n)
<1>1. n \in Nat /\ 0 \in 0..n /\ \A i \in 1..n : i \in 0..n /\ i # 0
  OBVIOUS
<1>2. getNestedValue(v, path) = at[n]
  BY DEF getNestedValue, Walk
<1>3. Walk(at, v, path, n)
  BY <1>1, WalkExists
<1> HIDE DEF at, n
<1>4. \A i \in 0..n : at[i] = IF i = 0 THEN v ELSE At(at[i - 1], path[i])
  BY <1>3 DEF Walk
<1>5. at[0] = v /\ \A i \in 1..n : at[i] = At(at[i - 1], path[i])
  BY <1>1, <1>4
<1> QED BY <1>2, <1>5 DEF n

LEMMA GetNoKey ==
  ASSUME NEW v, NEW path \in Seq(Names)
  PROVE  Len(path) = 0 => getNestedValue(v, path) = v
<1>1. PICK at : /\ getNestedValue(v, path) = at[Len(path)] /\ at[0] = v
                /\ \A i \in 1..Len(path) : at[i] = At(at[i - 1], path[i])
  BY GetIsWalk
<1> QED BY <1>1

LEMMA GetEmpty ==
  ASSUME NEW v PROVE getNestedValue(v, <<>>) = v
<1>1. <<>> \in Seq(Names) /\ Len(<<>>) = 0
  OBVIOUS
<1> QED BY <1>1, GetNoKey, Zenon

LEMMA GetAppend ==
  ASSUME NEW v, NEW path \in Seq(Names), NEW k \in Names
  PROVE  getNestedValue(v, Append(path, k)) = At(getNestedValue(v, path), k)
<1> DEFINE p == Append(path, k)
           n == Len(path)
<1>1. p \in Seq(Names) /\ Len(p) = n + 1 /\ n \in Nat /\ p[n + 1] = k
      /\ \A i \in 1..n : p[i] = path[i]
  BY Appended
<1> HIDE DEF p
<1>2. PICK a : /\ getNestedValue(v, path) = a[n] /\ a[0] = v
               /\ \A i \in 1..n : a[i] = At(a[i - 1], path[i])
  BY GetIsWalk
<1> HIDE DEF n
<1>3. PICK b : /\ getNestedValue(v, p) = b[n + 1] /\ b[0] = v
               /\ \A i \in 1..(n + 1) : b[i] = At(b[i - 1], p[i])
  <2>1. PICK b : /\ getNestedValue(v, p) = b[Len(p)] /\ b[0] = v
                 /\ \A i \in 1..Len(p) : b[i] = At(b[i - 1], p[i])
    BY <1>1, GetIsWalk, SMTT(30)
  <2> QED BY <1>1, <2>1
<1> DEFINE S == {i \in Nat : a[i] = b[i]}
<1>4. 0 \in S
  BY <1>2, <1>3
<1>5. ASSUME NEW i \in Nat, i < n, i \in S PROVE i + 1 \in S
  <2>1. i + 1 \in 1..n /\ i + 1 \in 1..(n + 1) /\ (i + 1) - 1 = i
    BY <1>1, <1>5
  <2>2. a[i + 1] = At(a[i], path[i + 1]) /\ b[i + 1] = At(b[i], p[i + 1])
    BY <1>2, <1>3, <2>1
  <2> QED BY <1>1, <1>5, <2>1, <2>2
<1> HIDE DEF S
<1>6. n \in S
  <2>1. n \in Nat /\ n \in 0..n
    BY <1>1
  <2>2. \A i \in Nat : i < n /\ i \in S => i + 1 \in S
    BY <1>5
  <2>3. \A i \in 0..n : i \in S
    BY <1>4, <2>1, <2>2, UpTo
  <2> QED BY <2>1, <2>3
<1>7. a[n] = b[n]
  BY <1>6 DEF S
<1>8. n + 1 \in 1..(n + 1) /\ (n + 1) - 1 = n
  BY <1>1
<1>9. b[n + 1] = At(b[n], k)
  BY <1>1, <1>3, <1>8
<1> QED BY <1>2, <1>3, <1>7, <1>9 DEF p

LEMMA GetStep ==
  ASSUME NEW v, NEW path \in Seq(Names), NEW n \in 1..Len(path)
  PROVE  getNestedValue(v, Prefix(path, n))
           = At(getNestedValue(v, Prefix(path, n - 1)), path[n])
BY PrefixStep, GetAppend, ZenonT(40)

LEMMA PrefixGets ==
  ASSUME NEW v, NEW path \in Seq(Names)
  PROVE  /\ getNestedValue(v, Prefix(path, 0)) = v
         /\ getNestedValue(v, Prefix(path, Len(path))) = getNestedValue(v, path)
         /\ \A n \in 1..Len(path) : getNestedValue(v, Prefix(path, n))
                                      = At(getNestedValue(v, Prefix(path, n - 1)), path[n])
BY PrefixEnds, GetEmpty, GetStep

(* What is at a path is found in what is at the beginning of the path. *)
LEMMA GetRest ==
  ASSUME NEW v, NEW path \in Seq(Names), NEW m \in 0..Len(path)
  PROVE  getNestedValue(getNestedValue(v, Prefix(path, m)), SubSeq(path, m + 1, Len(path)))
           = getNestedValue(v, path)
<1> DEFINE rest == SubSeq(path, m + 1, Len(path))
           w == getNestedValue(v, Prefix(path, m))
           N == Len(path) - m
<1>1. N \in Nat /\ m \in Nat /\ m + N = Len(path) /\ rest \in Seq(Names) /\ Len(rest) = N
  OBVIOUS
<1>2. \A i \in 1..N : rest[i] = path[m + i]
  OBVIOUS
<1> HIDE DEF rest, N
<1> DEFINE S == {i \in Nat : getNestedValue(w, Prefix(rest, i)) = getNestedValue(v, Prefix(path, m + i))}
<1>3. 0 \in S
  BY <1>1, PrefixGets
<1>4. ASSUME NEW i \in Nat, i < N, i \in S PROVE i + 1 \in S
  <2>1. i + 1 \in 1..Len(rest) /\ m + (i + 1) \in 1..Len(path)
        /\ (i + 1) - 1 = i /\ (m + (i + 1)) - 1 = m + i /\ i + 1 \in 1..N
    BY <1>1, <1>4
  <2> HIDE DEF w
  <2>2. getNestedValue(w, Prefix(rest, i + 1)) = At(getNestedValue(w, Prefix(rest, i)), rest[i + 1])
    BY <1>1, <2>1, GetStep
  <2>3. getNestedValue(v, Prefix(path, m + (i + 1)))
          = At(getNestedValue(v, Prefix(path, m + i)), path[m + (i + 1)])
    BY <2>1, GetStep
  <2>4. getNestedValue(w, Prefix(rest, i)) = getNestedValue(v, Prefix(path, m + i))
    BY <1>4
  <2>5. rest[i + 1] = path[m + (i + 1)]
    BY <1>2, <2>1
  <2> QED BY <2>2, <2>3, <2>4, <2>5
<1> HIDE DEF S
<1>5. N \in S
  <2>1. N \in 0..N
    BY <1>1
  <2> QED BY <1>1, <1>3, <1>4, <2>1, UpTo
<1>6. getNestedValue(w, Prefix(rest, N)) = getNestedValue(v, Prefix(path, Len(path)))
  BY <1>1, <1>5 DEF S
<1> HIDE DEF w
<1> QED BY <1>1, <1>6, PrefixEnds DEF rest, w

-----------------------------------------------------------------------------
(* Trees. *)

Treed(f, n) ==
  f = [i \in 0..n |-> IF i = 0 THEN Primitives
                      ELSE Primitives \cup UNION {[K -> f[i - 1]] : K \in SUBSET Names}]

LEMMA TreedExists ==
  ASSUME NEW n \in Nat
  PROVE  \E f : Treed(f, n)
<1> DEFINE T == {k \in Nat : \E f : Treed(f, k)}
           over(S) == Primitives \cup UNION {[K -> S] : K \in SUBSET Names}
<1>1. 0 \in T
  <2> DEFINE f == [i \in 0..0 |-> Primitives]
  <2>1. \A i \in 0..0 : i = 0
    OBVIOUS
  <2>2. Treed(f, 0)
    BY <2>1 DEF Treed
  <2> QED BY <2>2
<1>2. ASSUME NEW k \in Nat, k < n, k \in T PROVE k + 1 \in T
  <2>1. PICK f : Treed(f, k)
    BY <1>2
  <2> DEFINE u == [i \in 0..(k + 1) |-> IF i = k + 1 THEN over(f[k]) ELSE f[i]]
             step(w, i) == IF i = 0 THEN Primitives ELSE over(w[i - 1])
  <2>2. \A i \in 0..k : f[i] = step(f, i)
    BY <2>1 DEF Treed
  <2>3. \A i \in 0..k : i \in 0..(k + 1) /\ i # k + 1 /\ u[i] = f[i]
    OBVIOUS
  <2>4. k + 1 \in 0..(k + 1) /\ u[k + 1] = over(f[k])
    OBVIOUS
  <2>5. u = [i \in 0..(k + 1) |-> u[i]]
    OBVIOUS
  <2> HIDE DEF u, over
  <2>6. ASSUME NEW i \in 0..(k + 1) PROVE u[i] = step(u, i)
    <3>1. CASE i = k + 1
      <4>1. i # 0 /\ i - 1 = k /\ u[k] = f[k]
        BY <2>3, <3>1
      <4> QED BY <2>4, <3>1, <4>1
    <3>2. CASE i = 0
      BY <2>2, <2>3, <3>2
    <3>3. CASE i # 0 /\ i # k + 1
      <4>1. i \in 0..k /\ i - 1 \in 0..k
        BY <3>3
      <4>2. u[i - 1] = f[i - 1] /\ u[i] = f[i]
        BY <2>3, <4>1
      <4>3. f[i] = step(f, i)
        BY <2>2, <4>1
      <4> QED BY <4>2, <4>3
    <3> QED BY <3>1, <3>2, <3>3
  <2>7. Treed(u, k + 1)
    BY <2>5, <2>6 DEF Treed, over
  <2> QED BY <2>7
<1> HIDE DEF T
<1>3. n \in T
  BY <1>1, <1>2, UpTo
<1> QED BY <1>3 DEF T

LEMMA TreesAre ==
  /\ Trees[0] = Primitives
  /\ \A n \in 1..Depth :
       Trees[n] = Primitives \cup UNION {[K -> Trees[n - 1]] : K \in SUBSET Names}
<1>1. Trees = CHOOSE f : Treed(f, Depth)
  BY DEF Trees, Treed
<1>2. Depth \in Nat
  BY BoundsAssumption
<1>3. Treed(Trees, Depth)
  BY <1>1, <1>2, TreedExists
<1>4. \A i \in 0..Depth :
        Trees[i] = IF i = 0 THEN Primitives
                   ELSE Primitives \cup UNION {[K -> Trees[i - 1]] : K \in SUBSET Names}
  BY <1>3 DEF Treed
<1>5. 0 \in 0..Depth /\ \A n \in 1..Depth : n \in 0..Depth /\ n # 0
  BY <1>2
<1> QED BY <1>4, <1>5

(* An object is a function, and no primitive is one. *)
LEMMA Objects ==
  ASSUME NEW n \in 1..Depth
  PROVE  /\ \A v \in Trees[n] : isObject(v) =>
              DOMAIN v \subseteq Names /\ v \in [DOMAIN v -> Trees[n - 1]]
         /\ \A K \in SUBSET Names : \A v \in [K -> Trees[n - 1]] :
              v \in Trees[n] /\ isObject(v)
<1>1. Trees[n] = Primitives \cup UNION {[K -> Trees[n - 1]] : K \in SUBSET Names}
  BY TreesAre
<1>2. ASSUME NEW v \in Trees[n], isObject(v)
      PROVE  DOMAIN v \subseteq Names /\ v \in [DOMAIN v -> Trees[n - 1]]
  <2>1. PICK K \in SUBSET Names : v \in [K -> Trees[n - 1]]
    BY <1>1, <1>2 DEF isObject
  <2> QED BY <2>1
<1>3. ASSUME NEW K \in SUBSET Names, NEW v \in [K -> Trees[n - 1]]
      PROVE  v \in Trees[n] /\ isObject(v)
  <2>1. v \notin Primitives
    BY PrimitivesAssumption
  <2> QED BY <1>1, <2>1 DEF isObject
<1> QED BY <1>2, <1>3

LEMMA PrimitivesAreTrees ==
  ASSUME NEW n \in 0..Depth
  PROVE  Primitives \subseteq Trees[n] /\ Undefined \in Trees[n]
<1>1. n = 0 \/ n \in 1..Depth
  BY BoundsAssumption
<1> QED BY <1>1, TreesAre, PrimitivesAssumption

LEMMA AtOfTree ==
  ASSUME NEW n \in 1..Depth, NEW v \in Trees[n], NEW k
  PROVE  At(v, k) \in Trees[n - 1]
<1>1. n - 1 \in 0..Depth
  BY BoundsAssumption
<1>2. CASE k \in Keys(v)
  BY <1>2, Objects DEF At, Keys
<1>3. CASE k \notin Keys(v)
  BY <1>1, <1>3, PrimitivesAreTrees DEF At
<1> QED BY <1>2, <1>3

LEMMA GetOfTree ==
  ASSUME NEW v \in Trees[Depth], NEW path \in Paths
  PROVE  getNestedValue(v, path) \in Trees[Depth - Len(path)]
<1> DEFINE N == Len(path)
           S == {i \in Nat : getNestedValue(v, Prefix(path, i)) \in Trees[Depth - i]}
<1>1. path \in Seq(Names) /\ N \in Nat /\ N <= Depth /\ Depth \in Nat
  BY PathsAre, BoundsAssumption
<1>2. 0 \in S
  BY <1>1, PrefixGets
<1>3. ASSUME NEW i \in Nat, i < N, i \in S PROVE i + 1 \in S
  <2>1. i + 1 \in 1..N /\ (i + 1) - 1 = i /\ Depth - i \in 1..Depth
        /\ (Depth - i) - 1 = Depth - (i + 1)
    BY <1>1, <1>3
  <2>2. getNestedValue(v, Prefix(path, i + 1)) = At(getNestedValue(v, Prefix(path, i)), path[i + 1])
    BY <1>1, <2>1, GetStep
  <2>3. getNestedValue(v, Prefix(path, i)) \in Trees[Depth - i]
    BY <1>3
  <2>4. At(getNestedValue(v, Prefix(path, i)), path[i + 1]) \in Trees[(Depth - i) - 1]
    BY <2>1, <2>3, AtOfTree
  <2> QED BY <2>1, <2>2, <2>4
<1> HIDE DEF S, N
<1>4. N \in S
  <2>1. N \in 0..N
    BY <1>1
  <2> QED BY <1>1, <1>2, <1>3, <2>1, UpTo
<1> QED BY <1>1, <1>4, PrefixGets DEF S, N

(* There is nothing below a primitive. *)
LEMMA AtPrimitive ==
  ASSUME NEW v, NEW k, ~isObject(v)
  PROVE  k \notin Keys(v) /\ At(v, k) = Undefined /\ ~isObject(At(v, k))
BY PrimitivesAssumption DEF Keys, At, isObject

LEMMA BelowPrimitive ==
  ASSUME NEW v, NEW path \in Seq(Names), NEW m \in 0..Len(path),
         ~isObject(getNestedValue(v, Prefix(path, m)))
  PROVE  m < Len(path) => ~HasPath(v, path) /\ getNestedValue(v, path) = Undefined
<1> DEFINE N == Len(path) - m
           S == {i \in Nat : /\ ~isObject(getNestedValue(v, Prefix(path, m + i)))
                             /\ i > 0 => getNestedValue(v, Prefix(path, m + i)) = Undefined}
<1>1. N \in Nat /\ m \in Nat /\ m + N = Len(path) /\ Len(path) \in Nat
  OBVIOUS
<1> HIDE DEF N
<1>2. 0 \in S
  BY <1>1
<1>3. ASSUME NEW i \in Nat, i < N, i \in S PROVE i + 1 \in S
  <2>1. m + (i + 1) \in 1..Len(path) /\ (m + (i + 1)) - 1 = m + i /\ i + 1 > 0
    BY <1>1, <1>3
  <2>2. getNestedValue(v, Prefix(path, m + (i + 1)))
          = At(getNestedValue(v, Prefix(path, m + i)), path[m + (i + 1)])
    BY <2>1, GetStep
  <2>3. ~isObject(getNestedValue(v, Prefix(path, m + i)))
    BY <1>3
  <2> QED BY <2>2, <2>3, AtPrimitive
<1> HIDE DEF S
<1>4. N \in S
  <2>1. N \in 0..N
    BY <1>1
  <2> QED BY <1>1, <1>2, <1>3, <2>1, UpTo
<1>5. m < Len(path) => getNestedValue(v, path) = Undefined
  BY <1>1, <1>4, PrefixGets DEF S
<1>6. m < Len(path) => ~HasPath(v, path)
  <2> SUFFICES ASSUME m < Len(path) PROVE ~HasPath(v, path)
    OBVIOUS
  <2>1. m + 1 \in 1..Len(path) /\ (m + 1) - 1 = m
    BY <1>1
  <2>2. path[m + 1] \notin Keys(getNestedValue(v, Prefix(path, (m + 1) - 1)))
    BY <2>1, AtPrimitive
  <2> QED BY <2>1, <2>2 DEF HasPath
<1> QED BY <1>5, <1>6

LEMMA MissingIsUndefined ==
  ASSUME NEW v, NEW path \in Seq(Names), ~HasPath(v, path)
  PROVE  getNestedValue(v, path) = Undefined
<1>1. PICK n \in 1..Len(path) : path[n] \notin Keys(getNestedValue(v, Prefix(path, n - 1)))
  BY DEF HasPath
<1>2. getNestedValue(v, Prefix(path, n)) = Undefined
  BY <1>1, GetStep DEF At
<1>3. n \in 0..Len(path) /\ (n = Len(path) \/ n < Len(path)) /\ ~isObject(Undefined)
  BY PrimitivesAssumption DEF isObject
<1> QED BY <1>2, <1>3, BelowPrimitive, PrefixGets

(* A path is there when its last key is. *)
LEMMA HasLastKey ==
  ASSUME NEW v, NEW path \in Seq(Names), NEW n \in 1..Len(path)
  PROVE  HasPath(v, Prefix(path, n)) <=> path[n] \in Keys(getNestedValue(v, Prefix(path, n - 1)))
<1> DEFINE p == Prefix(path, n)
           q == Prefix(path, n - 1)
<1>1. /\ n \in 0..Len(path) /\ n - 1 \in 0..Len(path) /\ n \in 1..n /\ n - 1 \in 0..n
      /\ \A i \in 1..n : i \in 1..Len(path) /\ i - 1 \in 0..n
      /\ \A i \in 1..(n - 1) : i \in 1..n /\ i - 1 \in 0..(n - 1)
  OBVIOUS
<1>2. /\ p \in Seq(Names) /\ Len(p) = n /\ \A i \in 1..n : p[i] = path[i]
      /\ \A i \in 0..n : Prefix(p, i) = Prefix(path, i)
  BY <1>1, PrefixOf
<1>3. /\ q \in Seq(Names) /\ Len(q) = n - 1 /\ \A i \in 1..(n - 1) : q[i] = path[i]
      /\ \A i \in 0..(n - 1) : Prefix(q, i) = Prefix(path, i)
  BY <1>1, PrefixOf
<1> HIDE DEF p, q
<1>4. HasPath(v, p) <=> \A i \in 1..n : path[i] \in Keys(getNestedValue(v, Prefix(path, i - 1)))
  BY <1>1, <1>2 DEF HasPath
<1>5. HasPath(v, q) <=> \A i \in 1..(n - 1) : path[i] \in Keys(getNestedValue(v, Prefix(path, i - 1)))
  BY <1>1, <1>3 DEF HasPath
<1>6. ASSUME path[n] \in Keys(getNestedValue(v, q)) PROVE HasPath(v, p)
  <2>1. getNestedValue(v, q) # Undefined
    BY <1>6, PrimitivesAssumption DEF Keys, isObject
  <2>2. HasPath(v, q)
    BY <1>3, <2>1, MissingIsUndefined
  <2>3. \A i \in 1..n : i = n \/ i \in 1..(n - 1)
    OBVIOUS
  <2> QED BY <1>4, <1>5, <1>6, <2>2, <2>3 DEF q
<1>7. HasPath(v, p) => path[n] \in Keys(getNestedValue(v, q))
  BY <1>1, <1>4 DEF q
<1> QED BY <1>6, <1>7 DEF p, q

LEMMA HasNoKey ==
  ASSUME NEW v, NEW path \in Seq(Names)
  PROVE  HasPath(v, Prefix(path, 0))
<1>1. Prefix(path, 0) \in Seq(Names) /\ Len(Prefix(path, 0)) = 0
  BY PrefixOf
<1> QED BY <1>1 DEF HasPath

(* The keys of an object in a tree lead to paths. *)
LEMMA Children ==
  ASSUME NEW v \in Trees[Depth], NEW path \in Paths, isObject(getNestedValue(v, path))
  PROVE  /\ Len(path) < Depth
         /\ \A k \in Keys(getNestedValue(v, path)) :
              k \in Names /\ Append(path, k) \in Paths /\ Len(Append(path, k)) = Len(path) + 1
<1> DEFINE w == getNestedValue(v, path)
           n == Depth - Len(path)
<1>1. path \in Seq(Names) /\ Len(path) \in 0..Depth /\ Depth \in Nat
  BY PathsAre, BoundsAssumption
<1>2. w \in Trees[n]
  BY GetOfTree
<1>3. n # 0
  BY <1>2, TreesAre DEF isObject
<1>4. n \in 1..Depth /\ Len(path) < Depth
  BY <1>1, <1>3
<1>5. Keys(w) \subseteq Names
  BY <1>2, <1>4, Objects DEF Keys
<1> HIDE DEF w, n
<1>6. ASSUME NEW k \in Keys(w)
      PROVE  k \in Names /\ Append(path, k) \in Paths /\ Len(Append(path, k)) = Len(path) + 1
  <2> DEFINE p == Append(path, k)
  <2>1. k \in Names
    BY <1>5
  <2>2. p \in Seq(Names) /\ Len(p) = Len(path) + 1
    BY <1>1, <2>1, Appended
  <2> HIDE DEF p
  <2>3. Len(p) <= Depth
    BY <1>1, <1>4, <2>2
  <2>4. p \in Paths
    BY <2>2, <2>3, PathsAre
  <2> QED BY <2>1, <2>2, <2>4 DEF p
<1> QED BY <1>4, <1>6 DEF w

-----------------------------------------------------------------------------
(* deepMerge(). *)

MergeStep(merged, target, source, path) ==
  LET t == getNestedValue(target, path)
      s == getNestedValue(source, path)
  IN IF ~isObject(s) THEN s
     ELSE [k \in Keys(t) \cup Keys(s) |-> IF k \in Keys(s) THEN merged[Append(path, k)] ELSE t[k]]

Merging(merged, target, source) ==
  merged = [path \in Paths |-> MergeStep(merged, target, source, path)]

LEMMA SameStep ==
  ASSUME NEW a, NEW b, NEW target, NEW source, NEW path,
         \A k \in Keys(getNestedValue(source, path)) : a[Append(path, k)] = b[Append(path, k)]
  PROVE  MergeStep(a, target, source, path) = MergeStep(b, target, source, path)
BY DEF MergeStep

Level(j) == {path \in Paths : Len(path) >= Depth - j}

LEMMA MergingExists ==
  ASSUME NEW target, NEW source \in Trees[Depth]
  PROVE  \E merged : Merging(merged, target, source)
<1> DEFINE step(m, path) == MergeStep(m, target, source, path)
           T == {j \in Nat : \E m : m = [path \in Level(j) |-> step(m, path)]}
<1>0. Depth \in Nat /\ \A path \in Paths : Len(path) \in 0..Depth
  BY PathsAre, BoundsAssumption
<1>1. 0 \in T
  <2> DEFINE m == [path \in Level(0) |-> getNestedValue(source, path)]
  <2>1. ASSUME NEW path \in Level(0) PROVE m[path] = step(m, path)
    <3>1. path \in Paths /\ ~(Len(path) < Depth)
      BY <1>0 DEF Level
    <3>2. ~isObject(getNestedValue(source, path))
      BY <3>1, Children
    <3> QED BY <3>2 DEF MergeStep
  <2>2. m = [path \in Level(0) |-> m[path]]
    OBVIOUS
  <2> HIDE DEF m
  <2>3. m = [path \in Level(0) |-> step(m, path)]
    BY <2>1, <2>2
  <2> QED BY <2>3
<1>2. ASSUME NEW j \in Nat, j < Depth, j \in T PROVE j + 1 \in T
  <2>1. PICK m : m = [path \in Level(j) |-> step(m, path)]
    BY <1>2
  <2> DEFINE u == [path \in Level(j + 1) |-> IF path \in Level(j) THEN m[path] ELSE step(m, path)]
  <2> HIDE DEF step
  <2>2. \A path \in Level(j) : m[path] = step(m, path)
    BY <2>1
  <2>3. Level(j) \subseteq Level(j + 1)
    BY <1>0 DEF Level
  <2>4. \A path \in Level(j) : u[path] = m[path]
    BY <2>3
  <2>5. \A path \in Level(j + 1) : path \notin Level(j) => u[path] = step(m, path)
    OBVIOUS
  <2>6. u = [path \in Level(j + 1) |-> u[path]]
    OBVIOUS
  <2> HIDE DEF u
  <2>7. ASSUME NEW path \in Level(j + 1) PROVE u[path] = step(u, path)
    <3>1. path \in Paths /\ Len(path) >= Depth - (j + 1) /\ Len(path) \in Nat
      BY <1>0 DEF Level
    <3>2. ASSUME NEW k \in Keys(getNestedValue(source, path))
          PROVE  u[Append(path, k)] = m[Append(path, k)]
      <4>1. isObject(getNestedValue(source, path))
        BY DEF Keys
      <4>2. Append(path, k) \in Paths /\ Len(Append(path, k)) = Len(path) + 1
        BY <3>1, <4>1, Children
      <4>3. Append(path, k) \in Level(j)
        BY <1>0, <3>1, <4>2 DEF Level
      <4> QED BY <2>4, <4>3
    <3>3. step(u, path) = step(m, path)
      BY <3>2, SameStep DEF step
    <3> QED BY <2>2, <2>4, <2>5, <3>3
  <2>8. u = [path \in Level(j + 1) |-> step(u, path)]
    BY <2>6, <2>7
  <2> QED BY <2>8 DEF step
<1> HIDE DEF T
<1>3. Depth \in T
  <2>1. Depth \in 0..Depth
    BY <1>0
  <2> QED BY <1>0, <1>1, <1>2, <2>1, UpTo
<1>4. Level(Depth) = Paths
  BY <1>0 DEF Level
<1> QED BY <1>3, <1>4 DEF T, Merging

LEMMA MergeIsMerging ==
  ASSUME NEW target, NEW source \in Trees[Depth]
  PROVE  \E merged : /\ DeepMerge(target, source) = merged[<<>>]
                     /\ \A path \in Paths : merged[path] = MergeStep(merged, target, source, path)
<1> DEFINE m == CHOOSE merged : Merging(merged, target, source)
<1>1. DeepMerge(target, source) = m[<<>>]
  BY DEF DeepMerge, Merging, MergeStep
<1>2. Merging(m, target, source)
  BY MergingExists
<1> HIDE DEF m
<1>3. \A path \in Paths : m[path] = MergeStep(m, target, source, path)
  BY <1>2 DEF Merging
<1> QED BY <1>1, <1>3

(* What the calls of deepMerge() return. *)
Merged(merged, target, source) ==
  /\ target \in Trees[Depth] /\ source \in Trees[Depth]
  /\ DeepMerge(target, source) = merged[<<>>]
  /\ \A path \in Paths : merged[path] = MergeStep(merged, target, source, path)

LEMMA MergedType ==
  ASSUME NEW target, NEW source, NEW m, Merged(m, target, source), NEW path \in Paths
  PROVE  m[path] \in Trees[Depth - Len(path)]
<1> DEFINE S == {j \in Nat : \A p \in Paths : Len(p) >= Depth - j => m[p] \in Trees[Depth - Len(p)]}
<1>0. Depth \in Nat /\ \A p \in Paths : Len(p) \in 0..Depth
  BY PathsAre, BoundsAssumption
<1>1. ASSUME NEW p \in Paths,
             \A k \in Keys(getNestedValue(source, p)) :
               m[Append(p, k)] \in Trees[Depth - Len(Append(p, k))]
      PROVE  m[p] \in Trees[Depth - Len(p)]
  <2> DEFINE t == getNestedValue(target, p)
             s == getNestedValue(source, p)
             n == Depth - Len(p)
  <2>1. t \in Trees[n] /\ s \in Trees[n]
    BY GetOfTree DEF Merged
  <2>2. CASE ~isObject(s)
    BY <2>1, <2>2 DEF Merged, MergeStep
  <2>3. CASE isObject(s)
    <3>1. Len(p) < Depth /\ \A k \in Keys(s) : Len(Append(p, k)) = Len(p) + 1
      BY <2>3, Children DEF Merged
    <3>2. n \in 1..Depth /\ \A k \in Keys(s) : Depth - Len(Append(p, k)) = n - 1
      BY <1>0, <3>1
    <3> DEFINE w == [k \in Keys(t) \cup Keys(s) |-> IF k \in Keys(s) THEN m[Append(p, k)] ELSE t[k]]
    <3>3. m[p] = w
      BY <2>3 DEF Merged, MergeStep
    <3>4. Keys(t) \subseteq Names /\ Keys(s) \subseteq Names
      BY <2>1, <3>2, Objects DEF Keys
    <3>5. \A k \in Keys(t) : t[k] \in Trees[n - 1]
      BY <2>1, <3>2, Objects DEF Keys
    <3>6. \A k \in Keys(s) : m[Append(p, k)] \in Trees[n - 1]
      BY <1>1, <3>2
    <3> HIDE DEF t, s, n
    <3>7. w \in [Keys(t) \cup Keys(s) -> Trees[n - 1]] /\ Keys(t) \cup Keys(s) \in SUBSET Names
      BY <3>4, <3>5, <3>6
    <3> HIDE DEF w
    <3>8. w \in Trees[n]
      BY <3>2, <3>7, Objects
    <3> QED BY <3>3, <3>8 DEF n
  <2> QED BY <2>2, <2>3
<1>2. 0 \in S
  <2> SUFFICES ASSUME NEW p \in Paths, Len(p) >= Depth - 0 PROVE m[p] \in Trees[Depth - Len(p)]
    OBVIOUS
  <2>1. ~isObject(getNestedValue(source, p))
    BY <1>0, Children DEF Merged
  <2> QED BY <1>1, <2>1 DEF Keys
<1>3. ASSUME NEW j \in Nat, j < Depth, j \in S PROVE j + 1 \in S
  <2> SUFFICES ASSUME NEW p \in Paths, Len(p) >= Depth - (j + 1)
               PROVE  m[p] \in Trees[Depth - Len(p)]
    BY <1>0
  <2>1. ASSUME NEW k \in Keys(getNestedValue(source, p))
        PROVE  m[Append(p, k)] \in Trees[Depth - Len(Append(p, k))]
    <3>1. isObject(getNestedValue(source, p))
      BY DEF Keys
    <3>2. Append(p, k) \in Paths /\ Len(Append(p, k)) = Len(p) + 1
      BY <3>1, Children DEF Merged
    <3>3. Len(Append(p, k)) >= Depth - j
      BY <1>0, <3>2
    <3> QED BY <1>3, <3>2, <3>3
  <2> QED BY <1>1, <2>1
<1> HIDE DEF S
<1>4. Depth \in S
  <2>1. Depth \in 0..Depth
    BY <1>0
  <2> QED BY <1>0, <1>2, <1>3, <2>1, UpTo
<1>5. Len(path) >= Depth - Depth
  BY <1>0
<1> QED BY <1>4, <1>5 DEF S

LEMMA MergedObject ==
  ASSUME NEW target, NEW source, NEW m, Merged(m, target, source), NEW path \in Paths,
         isObject(getNestedValue(source, path)), NEW k
  PROVE  LET t == getNestedValue(target, path)
             s == getNestedValue(source, path)
         IN /\ k \in Keys(m[path]) <=> k \in Keys(t) \cup Keys(s)
            /\ At(m[path], k) = IF k \in Keys(s) THEN m[Append(path, k)] ELSE At(t, k)
<1> DEFINE t == getNestedValue(target, path)
           s == getNestedValue(source, path)
           n == Depth - Len(path)
           w == [j \in Keys(t) \cup Keys(s) |-> IF j \in Keys(s) THEN m[Append(path, j)] ELSE t[j]]
<1>0. Depth \in Nat /\ Len(path) \in 0..Depth
  BY PathsAre, BoundsAssumption
<1>1. Len(path) < Depth /\ \A j \in Keys(s) : Append(path, j) \in Paths /\ Len(Append(path, j)) = Len(path) + 1
  BY Children DEF Merged
<1>2. n \in 1..Depth /\ \A j \in Keys(s) : Depth - Len(Append(path, j)) = n - 1
  BY <1>0, <1>1
<1>3. m[path] = w
  BY DEF Merged, MergeStep
<1>4. t \in Trees[n] /\ s \in Trees[n]
  BY GetOfTree DEF Merged
<1>5. Keys(t) \cup Keys(s) \in SUBSET Names
  BY <1>2, <1>4, Objects DEF Keys
<1>6. \A j \in Keys(t) : t[j] \in Trees[n - 1]
  BY <1>2, <1>4, Objects DEF Keys
<1>7. \A j \in Keys(s) : m[Append(path, j)] \in Trees[n - 1]
  BY <1>1, <1>2, MergedType
<1> HIDE DEF t, s, n
<1>8. w \in [Keys(t) \cup Keys(s) -> Trees[n - 1]]
  BY <1>6, <1>7
<1>9. isObject(w) /\ DOMAIN w = Keys(t) \cup Keys(s)
  BY <1>2, <1>5, <1>8, Objects
<1>10. Keys(w) = Keys(t) \cup Keys(s)
  BY <1>9 DEF Keys
<1>11. At(w, k) = IF k \in Keys(s) THEN m[Append(path, k)] ELSE At(t, k)
  BY <1>10 DEF At
<1> QED BY <1>3, <1>10, <1>11 DEF t, s

(* The result has at a path of the source what the call for it returned.    *)
LEMMA MergedGet ==
  ASSUME NEW target, NEW source, NEW m, Merged(m, target, source),
         NEW path \in Paths, HasPath(source, path)
  PROVE  /\ getNestedValue(DeepMerge(target, source), path) = m[path]
         /\ HasPath(DeepMerge(target, source), path)
<1> DEFINE d == DeepMerge(target, source)
           N == Len(path)
           S == {i \in Nat : getNestedValue(d, Prefix(path, i)) = m[Prefix(path, i)]
                               /\ HasPath(d, Prefix(path, i))}
<1> HIDE DEF d
<1>0. path \in Seq(Names) /\ N \in Nat
  BY PathsAre
<1>1. 0 \in S
  BY <1>0, PrefixEnds, GetEmpty, HasNoKey DEF Merged, d
<1>2. ASSUME NEW i \in Nat, i < N, i \in S PROVE i + 1 \in S
  <2> DEFINE q == Prefix(path, i)
             k == path[i + 1]
  <2>1. i + 1 \in 1..N /\ (i + 1) - 1 = i /\ i \in 0..N
    BY <1>0, <1>2
  <2>2. Prefix(path, i + 1) = Append(q, k) /\ q \in Paths
    BY <1>0, <2>1, PrefixStep, PrefixOf
  <2>3. k \in Keys(getNestedValue(source, q))
    BY <2>1 DEF HasPath
  <2>4. isObject(getNestedValue(source, q))
    BY <2>3 DEF Keys
  <2>5. getNestedValue(d, q) = m[q]
    BY <1>2
  <2>6. getNestedValue(d, Prefix(path, i + 1)) = At(m[q], k)
    BY <1>0, <2>1, <2>5, GetStep
  <2>7. k \in Keys(m[q]) /\ At(m[q], k) = m[Append(q, k)]
    BY <2>2, <2>3, <2>4, MergedObject
  <2>8. HasPath(d, Prefix(path, i + 1))
    BY <1>0, <2>1, <2>5, <2>7, HasLastKey
  <2>9. getNestedValue(d, Prefix(path, i + 1)) = m[Prefix(path, i + 1)]
    <3> HIDE DEF q, k
    <3> QED BY <2>2, <2>6, <2>7
  <2>10. i + 1 \in Nat
    OBVIOUS
  <2> QED BY <2>8, <2>9, <2>10
<1> HIDE DEF S, N
<1>3. N \in S
  <2>1. N \in 0..N
    BY <1>0
  <2> QED BY <1>0, <1>1, <1>2, <2>1, UpTo
<1>4. Prefix(path, N) = path
  BY <1>0, PrefixEnds DEF N
<1> QED BY <1>3, <1>4 DEF S, d

LEMMA MergeIsPathwise ==
  ASSUME NEW target \in Trees[Depth], NEW source \in Trees[Depth], NEW path \in Paths
  PROVE  LET m == DeepMerge(target, source) IN
         /\ HasPath(source, path) /\ ~isObject(getNestedValue(source, path)) =>
              HasPath(m, path) /\ getNestedValue(m, path) = getNestedValue(source, path)
         /\ ~Says(source, path) =>
              /\ HasPath(m, path) <=> HasPath(target, path)
              /\ getNestedValue(m, path) = getNestedValue(target, path)
<1> DEFINE d == DeepMerge(target, source)
           N == Len(path)
<1>0. PICK m : Merged(m, target, source)
  BY MergeIsMerging DEF Merged
<1> HIDE DEF d
<1>1. path \in Seq(Names) /\ N \in Nat /\ Prefix(path, N) = path
  BY PathsAre, PrefixEnds
<1>2. ASSUME HasPath(source, path), ~isObject(getNestedValue(source, path))
      PROVE  HasPath(d, path) /\ getNestedValue(d, path) = getNestedValue(source, path)
  <2>1. m[path] = getNestedValue(source, path)
    BY <1>0, <1>2 DEF Merged, MergeStep
  <2> QED BY <1>0, <1>2, <2>1, MergedGet DEF d
<1>3. ASSUME ~Says(source, path)
      PROVE  /\ HasPath(d, path) <=> HasPath(target, path)
             /\ getNestedValue(d, path) = getNestedValue(target, path)
  <2> DEFINE missing(i) == ~HasPath(source, Prefix(path, i))
             S == {i \in 0..N : missing(i)}
  <2>1. missing(N)
    <3>1. N \in 0..N /\ N = Len(path)
      BY <1>1
    <3> QED BY <1>3, <3>1 DEF Says
  <2>2. S # {} /\ S \subseteq Nat
    BY <1>1, <2>1
  <2>3. PICK i \in S : \A j \in S : i <= j
    <3> HIDE DEF S
    <3> QED BY <2>2, Least
  <2>4. ~missing(0)
    BY <1>1, HasNoKey
  <2>5. i \in 1..N /\ i - 1 \in 0..N /\ i - 1 < N /\ ~(i <= i - 1)
    BY <1>1, <2>3, <2>4
  <2>6. HasPath(source, Prefix(path, i - 1)) /\ ~HasPath(source, Prefix(path, i))
    BY <2>3, <2>5
  <2> DEFINE q == Prefix(path, i - 1)
             k == path[i]
  <2>7. isObject(getNestedValue(source, q))
    BY <1>3, <2>5, <2>6 DEF Says
  <2>8. q \in Paths /\ q \in Seq(Names)
    BY <1>1, <2>5, PrefixOf
  <2>9. k \notin Keys(getNestedValue(source, q))
    BY <1>1, <2>5, <2>6, HasLastKey
  <2> HIDE DEF q
  <2>10. getNestedValue(d, q) = m[q] /\ HasPath(d, q)
    BY <1>0, <2>6, <2>8, MergedGet DEF d, q
  <2>11. /\ k \in Keys(getNestedValue(d, q)) <=> k \in Keys(getNestedValue(target, q))
         /\ At(getNestedValue(d, q), k) = At(getNestedValue(target, q), k)
    BY <1>0, <2>7, <2>8, <2>9, <2>10, MergedObject
  <2>12. getNestedValue(d, Prefix(path, i)) = getNestedValue(target, Prefix(path, i))
    BY <1>1, <2>5, <2>11, GetStep DEF q
  <2>13. ASSUME NEW n \in i..N
         PROVE  getNestedValue(d, Prefix(path, n)) = getNestedValue(target, Prefix(path, n))
    <3> DEFINE p == Prefix(path, n)
    <3>1. n \in 0..N /\ i \in 0..n
      BY <1>1, <2>5
    <3>2. p \in Seq(Names) /\ Len(p) = n /\ Prefix(p, i) = Prefix(path, i)
      BY <1>1, <3>1, PrefixOf
    <3> HIDE DEF p
    <3>3. /\ getNestedValue(getNestedValue(d, Prefix(p, i)), SubSeq(p, i + 1, Len(p))) = getNestedValue(d, p)
          /\ getNestedValue(getNestedValue(target, Prefix(p, i)), SubSeq(p, i + 1, Len(p)))
               = getNestedValue(target, p)
      BY <3>1, <3>2, GetRest
    <3>4. getNestedValue(d, p) = getNestedValue(target, p)
      BY <2>12, <3>2, <3>3
    <3> QED BY <3>4 DEF p
  <2>14. getNestedValue(d, path) = getNestedValue(target, path)
    BY <1>1, <2>5, <2>13
  <2>15. HasPath(d, path) <=> path[N] \in Keys(getNestedValue(d, Prefix(path, N - 1)))
    BY <1>1, <2>5, HasLastKey
  <2>16. HasPath(target, path) <=> path[N] \in Keys(getNestedValue(target, Prefix(path, N - 1)))
    BY <1>1, <2>5, HasLastKey
  <2>17. path[N] \in Keys(getNestedValue(d, Prefix(path, N - 1)))
           <=> path[N] \in Keys(getNestedValue(target, Prefix(path, N - 1)))
    <3>1. CASE i = N
      BY <2>11, <3>1 DEF q
    <3>2. CASE i # N
      <4>1. N - 1 \in i..N
        BY <1>1, <2>5, <3>2
      <4> QED BY <2>13, <4>1
    <3> QED BY <3>1, <3>2
  <2> QED BY <2>14, <2>15, <2>16, <2>17
<1> QED BY <1>2, <1>3 DEF d

LEMMA MergeOfTrees ==
  ASSUME NEW target \in Trees[Depth], NEW source \in Trees[Depth], isObject(source)
  PROVE  DeepMerge(target, source) \in Trees[Depth] /\ isObject(DeepMerge(target, source))
<1>0. PICK m : Merged(m, target, source)
  BY MergeIsMerging DEF Merged
<1> DEFINE p == <<>>
<1>1. p \in Seq(Names) /\ Len(p) = 0 /\ Depth \in Nat
  BY BoundsAssumption
<1>8. p \in Seq(Names) /\ Len(p) <= Depth
  BY <1>1
<1>2. DeepMerge(target, source) = m[p]
  BY <1>0, Zenon DEF Merged
<1> HIDE DEF p
<1>3. getNestedValue(target, p) = target /\ getNestedValue(source, p) = source
  BY <1>1, GetNoKey
<1>4. p \in Paths
  BY <1>8, PathsAre
<1>5. m[p] \in Trees[Depth]
  BY <1>0, <1>1, <1>4, MergedType
<1>6. m[p] = [k \in Keys(target) \cup Keys(source) |->
                IF k \in Keys(source) THEN m[Append(p, k)] ELSE target[k]]
  BY <1>0, <1>3, <1>4 DEF Merged, MergeStep
<1>7. isObject(m[p])
  <2>1. CASE Keys(target) \cup Keys(source) = {}
    <3>1. m[p] \in [{} -> Trees[Depth - 1]]
      BY <1>6, <2>1
    <3>2. {} \in SUBSET Names /\ Depth \in 1..Depth
      BY BoundsAssumption
    <3> QED BY <3>1, <3>2, Objects
  <2>2. ASSUME NEW k \in Keys(target) \cup Keys(source) PROVE isObject(m[p])
    <3>1. k \in Keys(m[p])
      BY <1>0, <1>3, <1>4, MergedObject
    <3> QED BY <3>1 DEF Keys
  <2> QED BY <2>1, <2>2
<1> QED BY <1>2, <1>5, <1>7

-----------------------------------------------------------------------------
(* Texts of paths. *)

Texted(t, path, n) ==
  t = [i \in 0..n |-> IF i = 0 THEN <<Empty>>
                      ELSE IF t[i - 1] = <<Empty>> THEN split[path[i]]
                      ELSE t[i - 1] \o split[path[i]]]

LEMMA TextedExists ==
  ASSUME NEW path, NEW n \in Nat
  PROVE  \E t : Texted(t, path, n)
<1> DEFINE T == {k \in Nat : \E t : Texted(t, path, k)}
           step(w, i) == IF i = 0 THEN <<Empty>>
                         ELSE IF w[i - 1] = <<Empty>> THEN split[path[i]]
                         ELSE w[i - 1] \o split[path[i]]
<1>1. 0 \in T
  <2> DEFINE t == [i \in 0..0 |-> <<Empty>>]
  <2>1. \A i \in 0..0 : i = 0
    OBVIOUS
  <2>2. Texted(t, path, 0)
    BY <2>1 DEF Texted
  <2> QED BY <2>2
<1>2. ASSUME NEW k \in Nat, k < n, k \in T PROVE k + 1 \in T
  <2>1. PICK t : Texted(t, path, k)
    BY <1>2
  <2> DEFINE u == [i \in 0..(k + 1) |-> IF i = k + 1 THEN step(t, i) ELSE t[i]]
  <2>2. \A i \in 0..k : t[i] = step(t, i)
    BY <2>1 DEF Texted
  <2>3. \A i \in 0..k : i \in 0..(k + 1) /\ i # k + 1 /\ u[i] = t[i]
    OBVIOUS
  <2>4. k + 1 \in 0..(k + 1) /\ u[k + 1] = step(t, k + 1)
    OBVIOUS
  <2>5. u = [i \in 0..(k + 1) |-> u[i]]
    OBVIOUS
  <2> HIDE DEF u
  <2>6. ASSUME NEW i \in 0..(k + 1) PROVE u[i] = step(u, i)
    <3>1. CASE i = 0
      BY <2>2, <2>3, <3>1
    <3>2. CASE i # 0
      <4>1. i - 1 \in 0..k /\ (i = k + 1 \/ i \in 0..k)
        BY <3>2
      <4>2. u[i - 1] = t[i - 1]
        BY <2>3, <4>1
      <4>3. step(u, i) = step(t, i)
        BY <4>2
      <4>4. u[i] = step(t, i)
        BY <2>2, <2>3, <2>4, <4>1
      <4> QED BY <4>3, <4>4
    <3> QED BY <3>1, <3>2
  <2>7. Texted(u, path, k + 1)
    BY <2>5, <2>6 DEF Texted
  <2> QED BY <2>7
<1> HIDE DEF T
<1>3. n \in T
  BY <1>1, <1>2, UpTo
<1> QED BY <1>3 DEF T

LEMMA TextIs ==
  ASSUME NEW path \in Seq(Names)
  PROVE  \E t : /\ Text(path) = t[Len(path)] /\ t[0] = <<Empty>>
                /\ \A i \in 1..Len(path) :
                     t[i] = IF t[i - 1] = <<Empty>> THEN split[path[i]]
                            ELSE t[i - 1] \o split[path[i]]
<1> DEFINE n == Len(path)
           t == CHOOSE t : Texted(t, path, n)
<1>1. n \in Nat /\ 0 \in 0..n /\ \A i \in 1..n : i \in 0..n /\ i # 0
  OBVIOUS
<1>2. Text(path) = t[n]
  BY DEF Text, Texted
<1>3. Texted(t, path, n)
  BY <1>1, TextedExists
<1> HIDE DEF t, n
<1>4. \A i \in 0..n : t[i] = IF i = 0 THEN <<Empty>>
                             ELSE IF t[i - 1] = <<Empty>> THEN split[path[i]]
                             ELSE t[i - 1] \o split[path[i]]
  BY <1>3 DEF Texted
<1>5. t[0] = <<Empty>> /\ \A i \in 1..n : t[i] = IF t[i - 1] = <<Empty>> THEN split[path[i]]
                                                 ELSE t[i - 1] \o split[path[i]]
  BY <1>1, <1>4
<1> QED BY <1>2, <1>5 DEF n

LEMMA TextType ==
  ASSUME NEW path \in Seq(Names)
  PROVE  Text(path) \in Seq(Names) /\ Text(path) # <<>>
<1> DEFINE n == Len(path)
<1>1. PICK t : /\ Text(path) = t[n] /\ t[0] = <<Empty>>
               /\ \A i \in 1..n : t[i] = IF t[i - 1] = <<Empty>> THEN split[path[i]]
                                         ELSE t[i - 1] \o split[path[i]]
  BY TextIs
<1>2. n \in Nat /\ \A i \in 1..n : path[i] \in Names
  OBVIOUS
<1> HIDE DEF n
<1> DEFINE Texts == {s \in Seq(Names) : s # <<>>}
           S == {i \in Nat : t[i] \in Texts}
<1>3. 0 \in S
  <2>1. <<Empty>> \in Seq(Names) /\ <<Empty>> # <<>>
    BY KeysAssumption
  <2> QED BY <1>1, <2>1
<1>4. ASSUME NEW i \in Nat, i < n, i \in S PROVE i + 1 \in S
  <2>1. i + 1 \in 1..n /\ (i + 1) - 1 = i
    BY <1>2, <1>4
  <2>2. split[path[i + 1]] \in Texts
    BY <1>2, <2>1, KeysAssumption
  <2>3. t[i] \in Texts
    BY <1>4
  <2>4. \A a, b \in Texts : a \o b \in Texts
    OBVIOUS
  <2>5. t[i + 1] = IF t[i] = <<Empty>> THEN split[path[i + 1]] ELSE t[i] \o split[path[i + 1]]
    BY <1>1, <2>1
  <2> HIDE DEF Texts
  <2>6. t[i + 1] \in Texts
    BY <2>2, <2>3, <2>4, <2>5
  <2> QED BY <2>6
<1> HIDE DEF S
<1>5. n \in S
  <2>1. n \in 0..n
    BY <1>2
  <2> QED BY <1>2, <1>3, <1>4, <2>1, UpTo
<1> QED BY <1>1, <1>5 DEF S

(* Without a dot in a key, and with neither '' nor '*' first, a path can be *)
(* read back.                                                               *)
LEMMA PlainIsReadable ==
  ASSUME NEW path \in Paths, path # <<>>, path[1] \notin {Empty, Star},
         \A n \in 1..Len(path) : split[path[n]] = <<path[n]>>
  PROVE  path \in Readable
<1>1. path \in Seq(Names) /\ Len(path) \in Nat
  BY PathsAre
<1> SUFFICES ASSUME NEW n \in 1..Len(path)
             PROVE  Text(Prefix(path, n)) = Prefix(path, n) /\ Prefix(path, n) # <<Star>>
  BY DEF Readable
<1> DEFINE q == Prefix(path, n)
<1>2. /\ q \in Seq(Names) /\ Len(q) = n /\ \A i \in 1..n : q[i] = path[i]
      /\ n \in Nat \ {0} /\ 1 \in 1..n
  BY <1>1, PrefixOf
<1> HIDE DEF q
<1>3. q[1] # Empty /\ q[1] # Star
  BY <1>2
<1>4. PICK t : /\ Text(q) = t[n] /\ t[0] = <<Empty>>
               /\ \A i \in 1..n : t[i] = IF t[i - 1] = <<Empty>> THEN split[q[i]]
                                         ELSE t[i - 1] \o split[q[i]]
  <2>1. Len(q) = n /\ q \in Seq(Names)
    BY <1>2
  <2>2. PICK t : /\ Text(q) = t[Len(q)] /\ t[0] = <<Empty>>
                 /\ \A i \in 1..Len(q) : t[i] = IF t[i - 1] = <<Empty>> THEN split[q[i]]
                                                ELSE t[i - 1] \o split[q[i]]
    BY <2>1, TextIs, Zenon
  <2> QED BY <2>1, <2>2
<1>5. \A i \in 1..n : split[q[i]] = <<q[i]>>
  <2>1. \A i \in 1..n : i \in 1..Len(path)
    BY <1>1
  <2> QED BY <1>2, <2>1
<1> DEFINE S == {i \in Nat : i = 0 \/ t[i] = Prefix(q, i)}
<1>6. 0 \in S
  OBVIOUS
<1>7. ASSUME NEW i \in Nat, i < n, i \in S PROVE i + 1 \in S
  <2>1. i + 1 \in 1..n /\ (i + 1) - 1 = i /\ i \in 0..n
    BY <1>2, <1>7
  <2>2. t[i + 1] = IF t[i] = <<Empty>> THEN <<q[i + 1]>> ELSE t[i] \o <<q[i + 1]>>
    BY <1>4, <1>5, <2>1
  <2>3. Prefix(q, i + 1) = Append(Prefix(q, i), q[i + 1]) /\ Prefix(q, i) \in Seq(Names)
        /\ q[i + 1] \in Names
    BY <1>2, <2>1, PrefixStep
  <2>4. CASE i = 0
    <3>1. Prefix(q, 0) = <<>>
      BY <1>2, PrefixEnds
    <3>2. Prefix(q, i + 1) = Append(<<>>, q[i + 1])
      BY <2>3, <2>4, <3>1
    <3>3. Append(<<>>, q[i + 1]) = <<q[i + 1]>>
      BY <2>3
    <3>4. t[i + 1] = <<q[i + 1]>>
      BY <1>4, <2>2, <2>4
    <3> QED BY <3>2, <3>3, <3>4
  <2>5. CASE i # 0
    <3>1. t[i] = Prefix(q, i)
      BY <1>7, <2>5
    <3>2. Prefix(q, i)[1] = q[1]
      <4>1. 1 \in 1..i
        BY <2>5
      <4> QED BY <1>2, <2>1, <4>1, PrefixOf
    <3>3. t[i] # <<Empty>>
      BY <1>3, <3>1, <3>2
    <3>4. Prefix(q, i) \o <<q[i + 1]>> = Append(Prefix(q, i), q[i + 1])
      BY <2>3
    <3>5. t[i + 1] = t[i] \o <<q[i + 1]>>
      BY <2>2, <3>3
    <3>6. t[i + 1] = Prefix(q, i + 1)
      BY <2>3, <3>1, <3>4, <3>5, Zenon
    <3> QED BY <3>6
  <2> QED BY <2>4, <2>5
<1> HIDE DEF S
<1>8. n \in S
  <2>1. n \in 0..n
    BY <1>2
  <2> QED BY <1>2, <1>6, <1>7, <2>1, UpTo
<1>9. Text(q) = q
  BY <1>2, <1>4, <1>8, PrefixEnds DEF S
<1>10. q # <<Star>>
  BY <1>3
<1> QED BY <1>9, <1>10 DEF q

-----------------------------------------------------------------------------
(* What changed, and what a subscriber learns. *)

LEMMA LeafType == \A v : Leaf(v) \in Primitives
BY PrimitivesAssumption DEF Leaf, isObject

(* Whatever primitive is new is at a changed path, or below one. *)
LEMMA ChangesAreSeen ==
  ASSUME NEW old, NEW new, isObject(old), isObject(new), NEW path \in Paths
  PROVE  \/ Leaf(getNestedValue(new, path)) \in {Undefined, Leaf(getNestedValue(old, path))}
         \/ \E q \in ChangedPaths(old, new) : IsPrefix(q, path)
<1> DEFINE was == getNestedValue(old, path)
           is == getNestedValue(new, path)
           N == Len(path)
<1>0. path \in Seq(Names) /\ N \in Nat /\ Prefix(path, N) = path
  BY PathsAre, PrefixEnds
<1> SUFFICES ASSUME Leaf(is) # Undefined, Leaf(is) # Leaf(was)
             PROVE  \E q \in ChangedPaths(old, new) : IsPrefix(q, path)
  OBVIOUS
<1>1. ~isObject(is) /\ is # Undefined /\ is # was
  BY DEF Leaf
<1>2. HasPath(new, path)
  BY <1>0, <1>1, MissingIsUndefined
<1> HIDE DEF was, is
<1> DEFINE S == {i \in 0..N : ~BothObjects(old, new, Prefix(path, i))}
<1>3. N \in S
  BY <1>0, <1>1 DEF BothObjects, is
<1>4. 0 \notin S
  BY <1>0, PrefixGets DEF BothObjects
<1>5. PICK i \in S : \A j \in S : i <= j
  <2>1. S # {} /\ S \subseteq Nat
    BY <1>3
  <2> HIDE DEF S
  <2> QED BY <2>1, Least
<1>6. i \in 1..N /\ i \in 0..N /\ \A n \in 1..(i - 1) : n \in 0..N /\ ~(i <= n) /\ n \in 0..i
  BY <1>0, <1>4, <1>5
<1> DEFINE q == Prefix(path, i)
<1>7. /\ q \in Seq(Names) /\ q \in Paths /\ Len(q) = i /\ \A n \in 0..i : Prefix(q, n) = Prefix(path, n)
      /\ \A n \in 1..i : q[n] = path[n]
  BY <1>0, <1>6, PrefixOf
<1>8. ~BothObjects(old, new, q) /\ \A n \in 1..(i - 1) : BothObjects(old, new, Prefix(q, n))
  BY <1>5, <1>6, <1>7
<1>9. HasPath(new, q)
  <2>1. \A n \in 1..i : n \in 1..N /\ n - 1 \in 0..i
    BY <1>6
  <2> HIDE DEF q
  <2> QED BY <1>2, <1>7, <2>1 DEF HasPath
<1>10. getNestedValue(new, q) # getNestedValue(old, q)
  <2>1. CASE i = N
    BY <1>0, <1>1, <2>1 DEF is, was
  <2>2. CASE i # N
    <3>1. i \in 0..N /\ i < N
      BY <1>6, <2>2
    <3>2. isObject(getNestedValue(new, q))
      BY <1>0, <1>2, <3>1, BelowPrimitive
    <3> QED BY <1>8, <3>2 DEF BothObjects
  <2> QED BY <2>1, <2>2
<1>11. q # <<>>
  BY <1>6, <1>7
<1>12. IsPrefix(q, path)
  <2>1. SubSeq(q, 1, i) = SubSeq(path, 1, i)
    BY <1>6, <1>7 DEF Prefix
  <2> HIDE DEF q
  <2> QED BY <1>6, <1>7, <2>1 DEF IsPrefix
<1> HIDE DEF q
<1> QED BY <1>7, <1>8, <1>9, <1>10, <1>11, <1>12 DEF ChangedPaths

LEMMA ChangedPathsType ==
  ASSUME NEW old, NEW new
  PROVE  ChangedPaths(old, new) \subseteq Paths \ {<<>>}
BY DEF ChangedPaths

(* What is below a path follows from what is there. *)
LEMMA ValueTells ==
  ASSUME NEW v, NEW path \in Paths, NEW q \in Paths, IsPrefix(q, path)
  PROVE  getNestedValue(getNestedValue(v, q), SubSeq(path, Len(q) + 1, Len(path)))
           = getNestedValue(v, path)
<1>1. path \in Seq(Names) /\ q \in Seq(Names)
  BY PathsAre
<1>2. Len(q) \in 0..Len(path) /\ q = Prefix(path, Len(q))
  <2>1. SubSeq(q, 1, Len(q)) = q
    BY <1>1
  <2> QED BY <1>1, <2>1 DEF IsPrefix, Prefix
<1> DEFINE m == Len(q)
<1>3. getNestedValue(getNestedValue(v, Prefix(path, m)), SubSeq(path, m + 1, Len(path)))
        = getNestedValue(v, path)
  BY <1>1, <1>2, GetRest
<1> QED BY <1>2, <1>3

(* A value told of what is on the way to a readable path tells what is there. *)
LEMMA ReadableTold ==
  ASSUME NEW v, NEW path \in Readable, NEW text \in Seq(Names), text # <<>>, IsPrefix(text, path)
  PROVE  Told(text, get(v, text), path) = Primitive(v, path)
<1>1. path \in Paths /\ path \in Seq(Names) /\ Len(path) <= Depth
  BY PathsAre DEF Readable
<1>2. /\ Len(text) \in 1..Len(path) /\ text = Prefix(path, Len(text))
  <2>1. SubSeq(text, 1, Len(text)) = text
    OBVIOUS
  <2>2. Len(text) # 0
    OBVIOUS
  <2> QED BY <1>1, <2>1, <2>2 DEF IsPrefix, Prefix
<1>3. text # <<Star>>
  BY <1>2 DEF Readable
<1>4. text \in Paths
  BY <1>1, <1>2, PathsAre, BoundsAssumption
<1>5. getNestedValue(getNestedValue(v, text), SubSeq(path, Len(text) + 1, Len(path)))
        = getNestedValue(v, path)
  BY <1>1, <1>4, ValueTells
<1> QED BY <1>3, <1>5 DEF Told, Primitive, get

(* What begins a readable path is its own text. *)
LEMMA ReadablePrefix ==
  ASSUME NEW path \in Readable, NEW q \in Paths, q # <<>>, IsPrefix(q, path)
  PROVE  Text(q) = q
<1>1. path \in Seq(Names) /\ q \in Seq(Names)
  BY PathsAre DEF Readable
<1>2. Len(q) \in 1..Len(path) /\ q = Prefix(path, Len(q))
  <2>1. SubSeq(q, 1, Len(q)) = q
    BY <1>1
  <2>2. Len(q) # 0
    BY <1>1
  <2> QED BY <1>1, <2>1, <2>2 DEF IsPrefix, Prefix
<1> QED BY <1>2 DEF Readable

-----------------------------------------------------------------------------
(* The inductive invariant. *)

Frame == [paths : SUBSET (Paths \ {<<>>}), event : Seq(Names),
          value : UNION {Trees[n] : n \in 0..Depth}, called : 0..2]

Types ==
  /\ state \in Trees[Depth] /\ isObject(state)
  /\ stack \in Seq(Frame)
  /\ known \in [Paths -> Primitives]
  /\ whole \in Trees[Depth]
  /\ heard \subseteq Paths
  /\ updates \in Nat /\ thrown \in BOOLEAN

(* Subscribers are called, or have been, with the state as a whole. *)
Finishing(f) == f.called > 0 /\ f.event = StateChange

KnowsPath(path) == Primitive(state, path) \in {Undefined, known[path]}

HeardPath(path) == Primitive(state, path) = Undefined \/ path \in heard

(* The path, or what is above it, is still to be emitted. *)
ToCome(f, path) == \E q \in f.paths : IsPrefix(q, path)

(* What is there has been told to the first, and will be to the second. *)
HalfWay(f, path) ==
  /\ f.called = 1 /\ f.event # StateChange /\ IsPrefix(f.event, path)
  /\ Told(f.event, f.value, path) = Primitive(state, path)

(* The second will be told the state as a whole. *)
WholeToCome(f) == Finishing(f) => f.called = 1 /\ f.value = state

Frames == 1..Len(stack)

(* The state as a whole comes last. *)
LastIsLast ==
  \A n \in Frames : Finishing(stack[n]) => stack[n].paths = {} /\ stack[n].value \in Trees[Depth]

FirstWillKnow ==
  /\ \A path \in Readable : KnowsPath(path) \/ \E n \in Frames : ToCome(stack[n], path)
  /\ whole = state \/ \E n \in Frames : ~Finishing(stack[n])

SecondWillHear ==
  /\ \A path \in Readable :
       HeardPath(path) \/ \E n \in Frames : ToCome(stack[n], path) \/ HalfWay(stack[n], path)
  /\ StateChange \in heard \/ \E n \in Frames : WholeToCome(stack[n])

IInv ==
  /\ Types /\ LastIsLast
  /\ ~thrown => FirstWillKnow /\ SecondWillHear

LEMMA ObjectsAreTrees ==
  \A v \in Inputs \cup {Initial} : v \in Trees[Depth] /\ isObject(v)
<1>1. Depth \in 1..Depth
  BY BoundsAssumption
<1> QED BY <1>1, Objects, ObjectsAssumption

LEMMA Constants ==
  /\ Depth \in Nat \ {0} /\ <<>> \in Paths /\ Undefined \in UNION {Trees[n] : n \in 0..Depth}
  /\ Trees[Depth] \subseteq UNION {Trees[n] : n \in 0..Depth}
  /\ Readable \subseteq Paths
<1>1. Depth \in Nat \ {0} /\ 0 \in 0..Depth /\ Depth \in 0..Depth
  BY BoundsAssumption
<1>2. <<>> \in [1..0 -> Names]
  OBVIOUS
<1>3. <<>> \in Paths
  BY <1>1, <1>2 DEF Paths
<1>4. Undefined \in Trees[0]
  BY <1>1, PrimitivesAreTrees
<1> QED BY <1>1, <1>3, <1>4 DEF Readable

(* What get() returns, whatever it is asked for. *)
LEMMA GetType ==
  ASSUME NEW v \in Trees[Depth], NEW text \in Seq(Names)
  PROVE  get(v, text) \in UNION {Trees[n] : n \in 0..Depth}
<1>0. Depth \in Nat /\ Len(text) \in Nat
  BY BoundsAssumption
<1>1. CASE Len(text) <= Depth
  <2>1. text \in Paths /\ Depth - Len(text) \in 0..Depth
    BY <1>0, <1>1, PathsAre
  <2>2. getNestedValue(v, text) \in Trees[Depth - Len(text)]
    BY <2>1, GetOfTree
  <2> QED BY <2>1, <2>2, Constants DEF get
<1>2. CASE Depth < Len(text)
  <2> DEFINE q == Prefix(text, Depth)
  <2>1. Depth \in 0..Len(text)
    BY <1>0, <1>2
  <2>2. q \in Seq(Names) /\ Len(q) = Depth
    BY <2>1, PrefixOf
  <2> HIDE DEF q
  <2>3. q \in Paths /\ Depth - Len(q) = 0
    BY <1>0, <2>2, PathsAre
  <2>4. getNestedValue(v, q) \in Trees[Depth - Len(q)]
    BY <2>3, GetOfTree
  <2>5. ~isObject(getNestedValue(v, q))
    BY <2>3, <2>4, TreesAre DEF isObject
  <2>6. getNestedValue(v, text) = Undefined
    BY <1>2, <2>1, <2>5, BelowPrimitive DEF q
  <2> QED BY <2>6, Constants DEF get
<1> QED BY <1>0, <1>1, <1>2

LEMMA InitIInv == Init => IInv
<1> SUFFICES ASSUME Init PROVE IInv
  OBVIOUS
<1>1. Initial \in Trees[Depth] /\ isObject(Initial)
  BY ObjectsAreTrees
<1>2. Types
  <2>1. state \in Trees[Depth] /\ isObject(state) /\ whole \in Trees[Depth]
    BY <1>1 DEF Init
  <2>2. known \in [Paths -> Primitives]
    BY LeafType DEF Init, Primitive
  <2>3. stack \in Seq(Frame)
    BY DEF Init
  <2> QED BY <2>1, <2>2, <2>3 DEF Init, Types
<1>3. Frames = {}
  BY DEF Init, Frames
<1>4. \A path \in Readable : KnowsPath(path) /\ HeardPath(path)
  BY Constants DEF Init, KnowsPath, HeardPath
<1>5. whole = state /\ StateChange \in heard
  BY Constants DEF Init, StateChange
<1> QED BY <1>2, <1>3, <1>4, <1>5 DEF IInv, LastIsLast, FirstWillKnow, SecondWillHear

LEMMA Popped ==
  ASSUME NEW S, NEW q \in Seq(S), NEW n \in 0..Len(q)
  PROVE  /\ SubSeq(q, 1, n) \in Seq(S) /\ Len(SubSeq(q, 1, n)) = n
         /\ \A i \in 1..n : SubSeq(q, 1, n)[i] = q[i]
OBVIOUS

(* The frame on top is replaced. *)
LEMMA Replaced ==
  ASSUME NEW S, NEW q \in Seq(S), q # <<>>, NEW f \in S
  PROVE  LET p == Append(Front(q), f) IN
         /\ p \in Seq(S) /\ Len(p) = Len(q) /\ Len(q) \in 1..Len(q) /\ Len(q) \in Nat
         /\ p[Len(q)] = f /\ \A n \in 1..Len(q) : n # Len(q) => p[n] = q[n]
         /\ Last(q) = q[Len(q)] /\ Last(q) \in S
<1> DEFINE r == Front(q)
           N == Len(q)
<1>0. Head(q) \in S /\ Len(q) \in Nat \ {0} /\ Len(Tail(q)) = Len(q) - 1
  OBVIOUS
<1>1. N \in Nat \ {0} /\ N \in 1..N
  BY <1>0
<1>2. r \in Seq(S) /\ Len(r) = N - 1 /\ \A n \in 1..(N - 1) : r[n] = q[n]
  <2>1. N - 1 \in 0..Len(q)
    BY <1>1
  <2> QED BY <2>1, Popped DEF Front
<1> HIDE DEF r
<1>3. Append(r, f) \in Seq(S) /\ Len(Append(r, f)) = N /\ Append(r, f)[N] = f
      /\ \A n \in 1..(N - 1) : Append(r, f)[n] = r[n]
  BY <1>1, <1>2
<1>4. \A n \in 1..N : n # N => n \in 1..(N - 1)
  BY <1>1
<1>5. Last(q) = q[N] /\ q[N] \in S
  BY <1>1 DEF Last
<1> QED BY <1>1, <1>2, <1>3, <1>4, <1>5 DEF r

LEMMA ChangeKeeps ==
  ASSUME IInv, NEW new \in Trees[Depth], isObject(new), Change(new)
  PROVE  IInv'
<1> DEFINE f == [paths |-> ChangedPaths(state, new), event |-> StateChange,
                 value |-> Undefined, called |-> 0]
           N == Len(stack)
<1>0. Types /\ LastIsLast
  BY DEF IInv
<1>1. f \in Frame
  BY ChangedPathsType, Constants DEF Frame, StateChange
<1>2. /\ stack' = Append(stack, f) /\ state' = new /\ known' = known /\ whole' = whole
      /\ thrown' = thrown /\ updates' = updates + 1
      /\ heard' = {path \in heard : path # StateChange /\ Primitive(new, path) = Primitive(state, path)}
  BY DEF Change
<1>3. f.paths = ChangedPaths(state, new) /\ f.called = 0
  OBVIOUS
<1> HIDE DEF f
<1>4. /\ N \in Nat /\ stack' \in Seq(Frame) /\ Len(stack') = N + 1 /\ stack'[N + 1] = f
      /\ \A n \in 1..N : stack'[n] = stack[n]
  BY <1>0, <1>1, <1>2 DEF Types
<1>5. /\ \A n \in 1..(N + 1) : n = N + 1 \/ n \in 1..N
      /\ N + 1 \in 1..(N + 1) /\ \A n \in 1..N : n \in 1..(N + 1)
  BY <1>4
<1>6. Frames' = 1..(N + 1) /\ Frames = 1..N
  BY <1>4 DEF Frames
<1> HIDE DEF N
<1>7. Types'
  <2>1. heard' \subseteq Paths
    BY <1>0, <1>2 DEF Types
  <2> QED BY <1>0, <1>2, <1>4, <2>1 DEF Types
<1>8. ~Finishing(f)
  BY <1>3 DEF Finishing
<1>9. LastIsLast'
  <2>1. \A n \in Frames' : Finishing(stack'[n]) => stack'[n].paths = {} /\ stack'[n].value \in Trees[Depth]
    BY <1>0, <1>4, <1>5, <1>6, <1>8 DEF LastIsLast
  <2> QED BY <2>1 DEF LastIsLast, Finishing
<1>10. ASSUME NEW path \in Readable
       PROVE  \/ Primitive(new, path) \in {Undefined, Primitive(state, path)}
              \/ ToCome(f, path)
  BY <1>0, <1>3, ChangesAreSeen, Constants DEF Types, ToCome, Primitive
<1>11. ASSUME NEW path, \E n \in Frames : ToCome(stack[n], path)
       PROVE  \E n \in Frames' : ToCome(stack'[n], path)
  BY <1>4, <1>5, <1>6, <1>11
<1>12. N + 1 \in Frames' /\ stack'[N + 1] = f
  BY <1>4, <1>5, <1>6
<1>13. ASSUME FirstWillKnow PROVE FirstWillKnow'
  <2>1. ASSUME NEW path \in Readable
        PROVE  KnowsPath(path)' \/ \E n \in Frames' : ToCome(stack'[n], path)
    <3>1. KnowsPath(path) \/ \E n \in Frames : ToCome(stack[n], path)
      BY <1>13 DEF FirstWillKnow
    <3>2. KnowsPath(path) => KnowsPath(path)' \/ ToCome(f, path)
      BY <1>2, <1>10 DEF KnowsPath
    <3> QED BY <1>11, <1>12, <3>1, <3>2
  <2> QED BY <1>8, <1>12, <2>1 DEF FirstWillKnow, ToCome, Finishing
<1>14. ASSUME SecondWillHear PROVE SecondWillHear'
  <2>1. ASSUME NEW path \in Readable
        PROVE  HeardPath(path)' \/ \E n \in Frames' : ToCome(stack'[n], path) \/ HalfWay(stack[n], path)'
    <3>1. HeardPath(path) \/ \E n \in Frames : ToCome(stack[n], path) \/ HalfWay(stack[n], path)
      BY <1>14 DEF SecondWillHear
    <3>2. CASE ToCome(f, path) \/ \E n \in Frames : ToCome(stack[n], path)
      BY <1>11, <1>12, <3>2
    <3>3. CASE Primitive(new, path) = Undefined
      BY <1>2, <3>3 DEF HeardPath
    <3>4. CASE Primitive(new, path) = Primitive(state, path) /\ Primitive(new, path) # Undefined
      <4>1. ASSUME path \in heard, path # StateChange PROVE HeardPath(path)'
        BY <1>2, <3>4, <4>1 DEF HeardPath
      <4>2. path # StateChange
        <5>1. isObject(getNestedValue(new, <<>>))
          BY GetEmpty, Zenon
        <5> QED BY <3>4, <5>1 DEF StateChange, Primitive, Leaf
      <4>3. ASSUME NEW n \in Frames, HalfWay(stack[n], path)
            PROVE  n \in Frames' /\ HalfWay(stack[n], path)'
        <5>1. n \in Frames' /\ stack'[n] = stack[n]
          BY <1>4, <1>5, <1>6
        <5>2. Primitive(state, path)' = Primitive(state, path)
          BY <1>2, <3>4 DEF Primitive
        <5>3. HalfWay(stack[n], path)'
          BY <4>3, <5>1, <5>2 DEF HalfWay, Told, Primitive
        <5> QED BY <5>1, <5>3
      <4>4. HeardPath(path) => path \in heard
        BY <3>4 DEF HeardPath
      <4>5. CASE HeardPath(path)
        BY <4>1, <4>2, <4>4, <4>5
      <4>6. CASE \E n \in Frames : HalfWay(stack[n], path)
        BY <4>3, <4>6
      <4> QED BY <3>1, <3>2, <4>5, <4>6
    <3> QED BY <1>10, <3>2, <3>3, <3>4
  <2>2. PICK k \in Frames' : stack'[k] = f
    BY <1>12
  <2>3. \A path : \A n \in Frames' : ToCome(stack[n], path)' <=> ToCome(stack'[n], path)
    BY DEF ToCome
  <2>4. WholeToCome(stack[k])'
    BY <1>8, <2>2 DEF WholeToCome, Finishing
  <2> QED BY <2>1, <2>2, <2>3, <2>4 DEF SecondWillHear
<1> QED BY <1>2, <1>7, <1>9, <1>13, <1>14 DEF IInv

(* A subscriber is called.                                                  *)
Hearing(f, i) ==
  /\ stack # <<>> /\ f \in Frame /\ f.called = i
  /\ f.event = StateChange => f.value \in Trees[Depth]
  /\ stack' = Append(Front(stack), f)
  /\ state' = state /\ thrown' = thrown /\ updates' = updates
  /\ Call(i, f.event, f.value)

LEMMA EmitsIsHearing ==
  ASSUME NEW g, NEW i \in Subscribers, stack # <<>>, g \in Frame, Emits(g, i),
         g.event = StateChange => g.value \in Trees[Depth]
  PROVE  Hearing([g EXCEPT !.called = i], i)
<1> DEFINE f == [g EXCEPT !.called = i]
<1>1. f \in Frame /\ f.called = i /\ f.event = g.event /\ f.value = g.value
  BY DEF Frame, Subscribers
<1>2. stack' = Append(Front(stack), f)
  BY DEF Emits
<1> HIDE DEF f
<1> QED BY <1>1, <1>2 DEF Emits, Hearing, f

LEMMA HearingTop ==
  ASSUME Types, NEW f, NEW i \in Subscribers, Hearing(f, i)
  PROVE  LET N == Len(stack) IN
         /\ N \in Nat /\ N \in Frames /\ top = stack[N] /\ top \in Frame
         /\ Frames' = Frames /\ Len(stack') = N /\ stack' \in Seq(Frame)
         /\ stack'[N] = f /\ \A n \in Frames : n # N => stack'[n] = stack[n]
<1> DEFINE N == Len(stack)
<1>1. stack \in Seq(Frame) /\ stack # <<>> /\ f \in Frame /\ stack' = Append(Front(stack), f)
  BY DEF Types, Hearing
<1>2. /\ stack' \in Seq(Frame) /\ Len(stack') = N /\ N \in 1..N /\ N \in Nat
      /\ stack'[N] = f /\ \A n \in 1..N : n # N => stack'[n] = stack[n]
      /\ Last(stack) = stack[N] /\ Last(stack) \in Frame
  <2> DEFINE p == Append(Front(stack), f)
  <2>1. /\ p \in Seq(Frame) /\ Len(p) = N /\ N \in 1..N /\ N \in Nat
        /\ p[N] = f /\ \A n \in 1..N : n # N => p[n] = stack[n]
        /\ Last(stack) = stack[N] /\ Last(stack) \in Frame
    BY <1>1, Replaced
  <2> HIDE DEF p
  <2>2. stack' = p
    BY <1>1 DEF p
  <2> QED BY <2>1, <2>2
<1> HIDE DEF N
<1>3. Frames' = 1..N /\ Frames = 1..N
  BY <1>2 DEF Frames, N
<1> QED BY <1>2, <1>3 DEF top, N

(* The first subscriber is called with what is there now. *)
LEMMA FirstHears ==
  ASSUME IInv, NEW f, Hearing(f, 1), EventIsOver,
         f.event = StateChange => f.value = state /\ f.paths = {},
         \A path \in Readable : f.event # StateChange /\ IsPrefix(f.event, path) =>
           Told(f.event, f.value, path) = Primitive(state, path),
         \A path \in Readable : ToCome(top, path) =>
           ToCome(f, path) \/ (f.event # StateChange /\ IsPrefix(f.event, path))
  PROVE  IInv'
<1> DEFINE N == Len(stack)
<1>0. Types /\ LastIsLast /\ 1 \in Subscribers /\ Readable \subseteq Paths
  BY Constants DEF IInv, Subscribers
<1>1. /\ N \in Nat /\ N \in Frames /\ top = stack[N] /\ top \in Frame
      /\ Frames' = Frames /\ Len(stack') = N /\ stack' \in Seq(Frame)
      /\ stack'[N] = f /\ \A n \in Frames : n # N => stack'[n] = stack[n]
  BY <1>0, HearingTop
<1> HIDE DEF N
<1>2. /\ f.called = 1 /\ state' = state /\ thrown' = thrown /\ updates' = updates
      /\ f.event = StateChange => f.value \in Trees[Depth]
      /\ Call(1, f.event, f.value)
  BY DEF Hearing
<1>3. /\ heard' = heard
      /\ f.event = StateChange => whole' = state /\ known' = known
      /\ f.event # StateChange => whole' = whole /\ known' = Learn(known, f.event, f.value)
  BY <1>2 DEF Call
<1>4. Types'
  <2>1. Learn(known, f.event, f.value) \in [Paths -> Primitives]
    BY <1>0, LeafType DEF Types, Learn, Told, Primitive
  <2>2. known' \in [Paths -> Primitives] /\ whole' \in Trees[Depth]
    BY <1>0, <1>3, <2>1 DEF Types
  <2> QED BY <1>0, <1>1, <1>2, <1>3, <2>2 DEF Types
<1>5. ~Finishing(stack[N]) /\ stack[N].called # 1 /\ (Finishing(f) <=> f.event = StateChange)
  BY <1>1, <1>2 DEF EventIsOver, Finishing
<1>6. LastIsLast'
  <2>1. \A n \in Frames : Finishing(stack'[n]) => stack'[n].paths = {} /\ stack'[n].value \in Trees[Depth]
    BY <1>0, <1>1, <1>2, <1>5 DEF LastIsLast
  <2> QED BY <1>1, <2>1 DEF LastIsLast, Finishing
<1>7. ASSUME NEW path \in Readable, KnowsPath(path) \/ (f.event # StateChange /\ IsPrefix(f.event, path))
      PROVE  KnowsPath(path)'
  <2>1. CASE f.event = StateChange
    BY <1>2, <1>3, <1>7, <2>1 DEF KnowsPath
  <2>2. CASE f.event # StateChange /\ IsPrefix(f.event, path)
    <3>1. known'[path] = Primitive(state, path)
      BY <1>0, <1>3, <2>2 DEF Learn
    <3> QED BY <1>2, <3>1 DEF KnowsPath
  <2>3. CASE f.event # StateChange /\ ~IsPrefix(f.event, path)
    <3>1. known'[path] = known[path]
      BY <1>0, <1>3, <2>3 DEF Learn
    <3> QED BY <1>2, <1>7, <2>3, <3>1 DEF KnowsPath
  <2> QED BY <2>1, <2>2, <2>3
<1>8. ASSUME NEW path \in Readable, NEW n \in Frames, ToCome(stack[n], path)
      PROVE  \/ \E k \in Frames : ToCome(stack'[k], path)
             \/ f.event # StateChange /\ IsPrefix(f.event, path)
  BY <1>1, <1>8
<1>9. ASSUME FirstWillKnow PROVE FirstWillKnow'
  <2>1. \A path \in Readable : KnowsPath(path)' \/ \E n \in Frames : ToCome(stack'[n], path)
    BY <1>7, <1>8, <1>9 DEF FirstWillKnow
  <2>2. whole' = state \/ ~Finishing(stack'[N])
    BY <1>1, <1>3, <1>5
  <2> QED BY <1>1, <1>2, <2>1, <2>2 DEF FirstWillKnow, ToCome, Finishing
<1>10. ASSUME SecondWillHear PROVE SecondWillHear'
  <2>1. ASSUME NEW path \in Readable
        PROVE  HeardPath(path)' \/ \E n \in Frames : ToCome(stack'[n], path) \/ HalfWay(stack'[n], path)
    <3>1. CASE HeardPath(path)
      BY <1>2, <1>3, <3>1 DEF HeardPath
    <3>2. ASSUME f.event # StateChange, IsPrefix(f.event, path) PROVE HalfWay(stack'[N], path)
      BY <1>1, <1>2, <3>2 DEF HalfWay
    <3>3. ASSUME NEW n \in Frames, HalfWay(stack[n], path) PROVE HalfWay(stack'[n], path)
      <4>1. n # N
        BY <1>5, <3>3 DEF HalfWay
      <4> QED BY <1>1, <3>3, <4>1
    <3> QED BY <1>1, <1>8, <1>10, <3>1, <3>2, <3>3 DEF SecondWillHear
  <2>2. WholeToCome(stack'[N])
    BY <1>1, <1>2, <1>5 DEF WholeToCome
  <2> QED BY <1>1, <1>2, <2>1, <2>2 DEF SecondWillHear, ToCome, HalfWay, WholeToCome, Finishing
<1> QED BY <1>2, <1>4, <1>6, <1>9, <1>10 DEF IInv

(* The second is called with what the first was called with. *)
LEMMA SecondHears ==
  ASSUME IInv, NEW f, Hearing(f, 2), top.called = 1,
         f.paths = top.paths, f.event = top.event, f.value = top.value
  PROVE  IInv'
<1> DEFINE N == Len(stack)
<1>0. Types /\ LastIsLast /\ 2 \in Subscribers /\ Readable \subseteq Paths /\ StateChange \in Paths
  BY Constants DEF IInv, Subscribers, StateChange
<1>1. /\ N \in Nat /\ N \in Frames /\ top = stack[N] /\ top \in Frame
      /\ Frames' = Frames /\ Len(stack') = N /\ stack' \in Seq(Frame)
      /\ stack'[N] = f /\ \A n \in Frames : n # N => stack'[n] = stack[n]
  BY <1>0, HearingTop
<1> HIDE DEF N
<1>2. /\ f.called = 2 /\ state' = state /\ thrown' = thrown /\ updates' = updates
      /\ Call(2, f.event, f.value)
  BY DEF Hearing
<1>3. known' = known /\ whole' = whole /\ heard' = heard \cup Truths(f.event, f.value)
  BY <1>2 DEF Call
<1>4. Truths(f.event, f.value) \subseteq Paths
  BY <1>0 DEF Truths
<1>5. Types'
  BY <1>0, <1>1, <1>2, <1>3, <1>4 DEF Types
<1>6. Finishing(f) <=> Finishing(stack[N])
  BY <1>1, <1>2 DEF Finishing
<1>7. ASSUME NEW n \in Frames
      PROVE  /\ stack'[n].paths = stack[n].paths /\ stack'[n].value = stack[n].value
             /\ Finishing(stack'[n]) <=> Finishing(stack[n])
  BY <1>1, <1>6
<1>8. LastIsLast'
  <2>1. \A n \in Frames : Finishing(stack'[n]) => stack'[n].paths = {} /\ stack'[n].value \in Trees[Depth]
    BY <1>0, <1>7 DEF LastIsLast
  <2> QED BY <1>1, <2>1 DEF LastIsLast, Finishing
<1>9. \A path : \A n \in Frames : ToCome(stack'[n], path) <=> ToCome(stack[n], path)
  BY <1>7 DEF ToCome
<1>10. ASSUME FirstWillKnow PROVE FirstWillKnow'
  <2>1. \A path \in Readable : KnowsPath(path)' \/ \E n \in Frames : ToCome(stack'[n], path)
    <3>1. \A path : KnowsPath(path)' <=> KnowsPath(path)
      BY <1>2, <1>3 DEF KnowsPath
    <3> QED BY <1>9, <1>10, <3>1 DEF FirstWillKnow
  <2>2. whole' = state \/ \E n \in Frames : ~Finishing(stack'[n])
    BY <1>3, <1>7, <1>10 DEF FirstWillKnow
  <2> QED BY <1>1, <1>2, <2>1, <2>2 DEF FirstWillKnow, ToCome, Finishing
<1>11. ASSUME SecondWillHear PROVE SecondWillHear'
  <2>1. ASSUME NEW path \in Readable
        PROVE  HeardPath(path)' \/ \E n \in Frames : ToCome(stack'[n], path) \/ HalfWay(stack'[n], path)
    <3>1. CASE HeardPath(path)
      BY <1>2, <1>3, <3>1 DEF HeardPath
    <3>2. ASSUME HalfWay(stack[N], path) PROVE HeardPath(path)'
      <4>1. path \in Truths(f.event, f.value)
        BY <1>0, <1>1, <3>2 DEF HalfWay, Truths
      <4> QED BY <1>3, <4>1 DEF HeardPath
    <3>3. ASSUME NEW n \in Frames, n # N, HalfWay(stack[n], path) PROVE HalfWay(stack'[n], path)
      BY <1>1, <3>3
    <3>4. CASE \E n \in Frames : ToCome(stack[n], path)
      BY <1>9, <3>4
    <3>5. CASE \E n \in Frames : HalfWay(stack[n], path)
      BY <3>2, <3>3, <3>5
    <3> QED BY <1>11, <3>1, <3>4, <3>5 DEF SecondWillHear
  <2>2. StateChange \in heard' \/ \E n \in Frames : WholeToCome(stack'[n])
    <3>1. CASE StateChange \in heard
      BY <1>3, <3>1
    <3>2. ASSUME WholeToCome(stack[N]) PROVE StateChange \in heard' \/ WholeToCome(stack'[N])
      <4>1. CASE Finishing(stack[N])
        <5>1. f.event = StateChange /\ f.value = state
          BY <1>1, <3>2, <4>1 DEF WholeToCome, Finishing
        <5> QED BY <1>3, <5>1 DEF Truths
      <4>2. CASE ~Finishing(stack[N])
        BY <1>1, <1>6, <4>2 DEF WholeToCome
      <4> QED BY <4>1, <4>2
    <3>3. ASSUME NEW n \in Frames, n # N, WholeToCome(stack[n]) PROVE WholeToCome(stack'[n])
      BY <1>1, <3>3
    <3> QED BY <1>1, <1>11, <3>1, <3>2, <3>3 DEF SecondWillHear
  <2> QED BY <1>1, <1>2, <2>1, <2>2 DEF SecondWillHear, ToCome, HalfWay, WholeToCome, Finishing
<1> QED BY <1>2, <1>5, <1>8, <1>10, <1>11 DEF IInv

(* A notification ends. *)
LEMMA ReturnKeeps ==
  ASSUME IInv, emitReturns
  PROVE  IInv'
<1> DEFINE N == Len(stack)
           M == N - 1
<1>0. /\ Types /\ LastIsLast /\ stack # <<>> /\ stack \in Seq(Frame)
      /\ stack' = SubSeq(stack, 1, M)
      /\ state' = state /\ known' = known /\ whole' = whole /\ updates' = updates
      /\ heard' = heard /\ thrown' = thrown
  BY DEF IInv, Types, emitReturns, Front
<1>1. N \in Nat \ {0} /\ top = stack[N]
  <2>1. Head(stack) \in Frame /\ Len(stack) \in Nat \ {0} /\ Len(Tail(stack)) = Len(stack) - 1
    BY <1>0
  <2> QED BY <2>1 DEF top, Last
<1>2. top.called = 2 /\ top.event = StateChange
  BY DEF emitReturns
<1>3. M \in 0..Len(stack) /\ M \in Nat
  BY <1>1
<1>4. stack' \in Seq(Frame) /\ Len(stack') = M /\ \A n \in 1..M : stack'[n] = stack[n]
  <2> DEFINE p == SubSeq(stack, 1, M)
  <2> HIDE DEF M
  <2>1. p \in Seq(Frame) /\ Len(p) = M /\ \A n \in 1..M : p[n] = stack[n]
    BY <1>0, <1>3, Popped
  <2> HIDE DEF p
  <2>2. stack' = p
    BY <1>0 DEF p
  <2> QED BY <2>1, <2>2
<1>5. /\ Frames = 1..N /\ Frames' = 1..M
      /\ \A n \in 1..M : n \in 1..N
      /\ \A n \in 1..N : n = N \/ n \in 1..M
      /\ N \in 1..N
  BY <1>1, <1>4 DEF Frames
<1> HIDE DEF N, M
<1>6. Types'
  BY <1>0, <1>4 DEF Types
<1>7. LastIsLast'
  <2>1. \A n \in 1..M : Finishing(stack'[n]) => stack'[n].paths = {} /\ stack'[n].value \in Trees[Depth]
    BY <1>0, <1>4, <1>5 DEF LastIsLast
  <2> QED BY <1>5, <2>1 DEF LastIsLast, Finishing
<1>8. Finishing(stack[N]) /\ stack[N].called = 2 /\ stack[N].event = StateChange
  BY <1>1, <1>2 DEF Finishing
<1>9. stack[N].paths = {}
  BY <1>0, <1>5, <1>8 DEF LastIsLast
<1>10. ~WholeToCome(stack[N]) /\ \A path : ~ToCome(stack[N], path) /\ ~HalfWay(stack[N], path)
  BY <1>8, <1>9 DEF ToCome, HalfWay, WholeToCome
<1>11. ASSUME FirstWillKnow PROVE FirstWillKnow'
  <2>1. \A path \in Readable : KnowsPath(path) \/ \E n \in 1..M : ToCome(stack'[n], path)
    BY <1>4, <1>5, <1>10, <1>11 DEF FirstWillKnow
  <2>2. whole = state \/ \E n \in 1..M : ~Finishing(stack'[n])
    BY <1>4, <1>5, <1>8, <1>11 DEF FirstWillKnow
  <2> QED BY <1>0, <1>5, <2>1, <2>2 DEF FirstWillKnow, ToCome, Finishing, KnowsPath
<1>12. ASSUME SecondWillHear PROVE SecondWillHear'
  <2>1. \A path \in Readable :
          HeardPath(path) \/ \E n \in 1..M : ToCome(stack'[n], path) \/ HalfWay(stack'[n], path)
    BY <1>4, <1>5, <1>10, <1>12 DEF SecondWillHear
  <2>2. StateChange \in heard \/ \E n \in 1..M : WholeToCome(stack'[n])
    BY <1>4, <1>5, <1>10, <1>12 DEF SecondWillHear
  <2> QED BY <1>0, <1>5, <2>1, <2>2
          DEF SecondWillHear, ToCome, HalfWay, WholeToCome, Finishing, HeardPath
<1> QED BY <1>0, <1>6, <1>7, <1>11, <1>12 DEF IInv

LEMMA ThrowKeeps ==
  ASSUME IInv, NEW frames \in 1..Len(stack), Throws(frames)
  PROVE  IInv'
<1> DEFINE M == Len(stack) - frames
<1>0. /\ Types /\ LastIsLast /\ stack \in Seq(Frame)
      /\ stack' = SubSeq(stack, 1, M)
      /\ state' = state /\ known' = known /\ whole' = whole /\ updates' = updates
      /\ heard' = heard /\ thrown' = TRUE
  BY DEF IInv, Types, Throws
<1>1. M \in 0..Len(stack)
  BY <1>0
<1>2. stack' \in Seq(Frame) /\ Len(stack') = M /\ \A n \in 1..M : stack'[n] = stack[n]
  <2> DEFINE p == SubSeq(stack, 1, M)
  <2> HIDE DEF M
  <2>1. p \in Seq(Frame) /\ Len(p) = M /\ \A n \in 1..M : p[n] = stack[n]
    BY <1>0, <1>1, Popped
  <2> HIDE DEF p
  <2>2. stack' = p
    BY <1>0 DEF p
  <2> QED BY <2>1, <2>2
<1>3. Frames' = 1..M /\ \A n \in 1..M : n \in Frames
  BY <1>0, <1>1, <1>2 DEF Frames
<1> HIDE DEF M
<1>4. Types'
  BY <1>0, <1>2 DEF Types
<1>5. LastIsLast'
  <2>1. \A n \in 1..M : Finishing(stack'[n]) => stack'[n].paths = {} /\ stack'[n].value \in Trees[Depth]
    BY <1>0, <1>2, <1>3 DEF LastIsLast
  <2> QED BY <1>3, <2>1 DEF LastIsLast, Finishing
<1> QED BY <1>0, <1>4, <1>5 DEF IInv

-----------------------------------------------------------------------------
LEMMA TopFrame ==
  ASSUME Types, stack # <<>>
  PROVE  top \in Frame /\ Len(stack) \in Frames /\ top = stack[Len(stack)]
<1>1. stack \in Seq(Frame)
  BY DEF Types
<1>2. Head(stack) \in Frame /\ Len(stack) \in Nat \ {0} /\ Len(Tail(stack)) = Len(stack) - 1
  BY <1>1
<1> QED BY <1>1, <1>2 DEF top, Last, Frames

LEMMA EmitPathKeeps ==
  ASSUME IInv, stack # <<>>, NEW path \in top.paths, emitPath(path)
  PROVE  IInv'
<1> DEFINE text == Text(path)
           v == get(state, text)
           g == [top EXCEPT !.paths = @ \ {path}, !.event = text, !.value = v]
           f == [g EXCEPT !.called = 1]
<1>1. Types /\ top \in Frame /\ EventIsOver /\ Emits(g, 1) /\ 1 \in Subscribers
  BY TopFrame DEF IInv, emitPath, Subscribers
<1>2. top.paths \subseteq Paths \ {<<>>} /\ path \in Seq(Names)
  BY <1>1, PathsAre DEF Frame
<1>3. text \in Seq(Names) /\ text # StateChange
  BY <1>2, TextType DEF StateChange
<1>4. v \in UNION {Trees[n] : n \in 0..Depth}
  BY <1>1, <1>3, GetType DEF Types
<1>5. \A p \in Readable : IsPrefix(text, p) => Told(text, v, p) = Primitive(state, p)
  BY <1>3, ReadableTold DEF StateChange
<1>6. \A p \in Readable : IsPrefix(path, p) => text = path
  BY <1>2, ReadablePrefix
<1> HIDE DEF v, text
<1>7. g \in Frame /\ g.event = text /\ g.value = v /\ g.paths = top.paths \ {path}
  BY <1>1, <1>3, <1>4 DEF Frame
<1> HIDE DEF g
<1>8. Hearing(f, 1)
  BY <1>1, <1>3, <1>7, EmitsIsHearing
<1>9. f.event = text /\ f.value = v /\ f.paths = top.paths \ {path}
  BY <1>7 DEF Frame
<1> HIDE DEF f
<1>10. ASSUME NEW p \in Readable, ToCome(top, p)
       PROVE  ToCome(f, p) \/ (f.event # StateChange /\ IsPrefix(f.event, p))
  <2>1. PICK q \in top.paths : IsPrefix(q, p)
    BY <1>10 DEF ToCome
  <2>2. CASE q = path
    BY <1>3, <1>6, <1>9, <2>1, <2>2
  <2>3. CASE q # path
    BY <1>9, <2>1, <2>3 DEF ToCome
  <2> QED BY <2>2, <2>3
<1>11. \A p \in Readable : f.event # StateChange /\ IsPrefix(f.event, p) =>
         Told(f.event, f.value, p) = Primitive(state, p)
  BY <1>5, <1>9
<1> QED BY <1>1, <1>3, <1>8, <1>9, <1>10, <1>11, FirstHears

LEMMA EmitStateChangeKeeps ==
  ASSUME IInv, emitStateChange
  PROVE  IInv'
<1> DEFINE g == [top EXCEPT !.event = StateChange, !.value = state]
           f == [g EXCEPT !.called = 1]
<1>1. Types /\ stack # <<>> /\ EventIsOver /\ top.paths = {} /\ Emits(g, 1) /\ 1 \in Subscribers
  BY DEF IInv, emitStateChange, EventIsOver, Subscribers
<1>2. top \in Frame
  BY <1>1, TopFrame
<1>3. /\ StateChange \in Seq(Names) /\ state \in Trees[Depth]
      /\ state \in UNION {Trees[n] : n \in 0..Depth}
  BY <1>1, Constants DEF Types, StateChange
<1>4. g \in Frame /\ g.event = StateChange /\ g.value = state /\ g.paths = {}
  BY <1>1, <1>2, <1>3 DEF Frame
<1> HIDE DEF g
<1>5. Hearing(f, 1)
  BY <1>1, <1>3, <1>4, EmitsIsHearing
<1>6. f.event = StateChange /\ f.value = state /\ f.paths = {}
  BY <1>4 DEF Frame
<1> HIDE DEF f
<1>7. \A path : ~ToCome(top, path)
  BY <1>1 DEF ToCome
<1> QED BY <1>1, <1>5, <1>6, <1>7, FirstHears

LEMMA CallNextKeeps ==
  ASSUME IInv, CallNext
  PROVE  IInv'
<1> DEFINE f == [top EXCEPT !.called = 2]
<1>1. Types /\ LastIsLast /\ stack # <<>> /\ top.called = 1 /\ Emits(top, 2) /\ 2 \in Subscribers
  BY DEF IInv, CallNext, Subscribers
<1>2. top \in Frame /\ Len(stack) \in Frames /\ top = stack[Len(stack)]
  BY <1>1, TopFrame
<1>3. top.event = StateChange => top.value \in Trees[Depth]
  <2>1. top.event = StateChange => Finishing(top)
    BY <1>1 DEF Finishing
  <2> QED BY <1>1, <1>2, <2>1 DEF LastIsLast
<1>4. Hearing(f, 2)
  BY <1>1, <1>2, <1>3, EmitsIsHearing
<1>5. f.paths = top.paths /\ f.event = top.event /\ f.value = top.value
  BY <1>2 DEF Frame
<1> HIDE DEF f
<1> QED BY <1>1, <1>4, <1>5, SecondHears

LEMMA StepIInv == IInv /\ [Next]_vars => IInv'
<1> SUFFICES ASSUME IInv, [Next]_vars PROVE IInv'
  OBVIOUS
<1>0. Types
  BY DEF IInv
<1>1. ASSUME NEW t \in Inputs, update(t) PROVE IInv'
  <2>1. t \in Trees[Depth] /\ isObject(t) /\ state \in Trees[Depth]
    BY <1>0, ObjectsAreTrees DEF Types
  <2>2. DeepMerge(state, t) \in Trees[Depth] /\ isObject(DeepMerge(state, t))
    BY <2>1, MergeOfTrees
  <2> QED BY <1>1, <2>2, ChangeKeeps DEF update
<1>2. ASSUME NEW t \in Inputs, set(t) PROVE IInv'
  BY <1>2, ObjectsAreTrees, ChangeKeeps DEF set
<1>3. ASSUME stack # <<>>, NEW path \in top.paths, emitPath(path) PROVE IInv'
  BY <1>3, EmitPathKeeps
<1>4. CASE emitStateChange
  BY <1>4, EmitStateChangeKeeps
<1>5. CASE CallNext
  BY <1>5, CallNextKeeps
<1>6. CASE emitReturns
  BY <1>6, ReturnKeeps
<1>7. ASSUME NEW frames \in 1..Len(stack), Throws(frames) PROVE IInv'
  BY <1>7, ThrowKeeps
<1>8. CASE UNCHANGED vars
  BY <1>8 DEF vars, IInv, Types, LastIsLast, FirstWillKnow, SecondWillHear, Frames, KnowsPath,
              HeardPath, ToCome, HalfWay, WholeToCome, Finishing
<1> QED BY <1>1, <1>2, <1>3, <1>4, <1>5, <1>6, <1>7, <1>8 DEF Next

(* Notifications run to their end and subscribers hear what they are owed.  *)
THEOREM EmitterInvariant == Spec => []IInv
BY InitIInv, StepIInv, PTL DEF Spec

(* update() changes a tree at the paths of the partial state and nowhere    *)
(* else, whatever the depth of the two.                                     *)
THEOREM EmitterUpdate == Spec => UpdateIsPathwise
<1>1. ASSUME IInv, NEW t \in Inputs, update(t) PROVE Pathwise(state, t, state')
  <2>1. state \in Trees[Depth] /\ t \in Trees[Depth]
    BY <1>1, ObjectsAreTrees DEF IInv, Types
  <2>2. state' = DeepMerge(state, t)
    BY <1>1 DEF update, Change
  <2> QED BY <2>1, <2>2, MergeIsPathwise DEF Pathwise
<1>2. IInv /\ [Next]_vars => [\A t \in Inputs : update(t) => Pathwise(state, t, state')]_vars
  BY <1>1
<1> QED BY <1>2, EmitterInvariant, PTL DEF Spec, UpdateIsPathwise

(* Once nothing is emitted, the first subscriber knows the state, at every  *)
(* path whose text reads back, whatever was updated while it was told.      *)
THEOREM EmitterFirstKnows == Spec => []FirstKnowsTheState
<1>1. IInv => FirstKnowsTheState
  <2> SUFFICES ASSUME IInv, Settled
               PROVE  /\ \A path \in Readable : Primitive(state, path) \in {Undefined, known[path]}
                      /\ whole = state
    BY DEF FirstKnowsTheState
  <2>1. Frames = {} /\ FirstWillKnow
    BY DEF Settled, Frames, IInv
  <2> QED BY <2>1 DEF FirstWillKnow, KnowsPath
<1> QED BY <1>1, EmitterInvariant, PTL

(* The second was told everything that is there, at the same paths and as a *)
(* whole, since it is there, also when the first made changes.              *)
THEOREM EmitterSecondHears == Spec => []SecondHearsTheState
<1>1. IInv => SecondHearsTheState
  <2> SUFFICES ASSUME IInv, Settled
               PROVE  /\ \A path \in Readable : Primitive(state, path) = Undefined \/ path \in heard
                      /\ StateChange \in heard
    BY DEF SecondHearsTheState
  <2>1. Frames = {} /\ SecondWillHear
    BY DEF Settled, Frames, IInv
  <2> QED BY <2>1 DEF SecondWillHear, HeardPath
<1> QED BY <1>1, EmitterInvariant, PTL
=============================================================================
