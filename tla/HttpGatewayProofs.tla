--------------------------- MODULE HttpGatewayProofs ---------------------------
(***************************************************************************)
(* Proofs about the readers of a data source, for any streams, readers,    *)
(* batches, changes and lost connections, and about a route of the Fastify *)
(* gateway, for any number of routes, calls and responses to others: what  *)
(* holds of the readers holds of the route's, the newest of them lives,    *)
(* and the gateway implements request and reply; and about the keys of the *)
(* streams that gateways and consumers use.                                *)
(*                                                                         *)
(* The theorems on readers alone are about Spec of StreamReader, and none  *)
(* of their lemmas uses what HttpGateway assumes of its constants.         *)
(***************************************************************************)
EXTENDS HttpGateway, WellFoundedInduction, TLAPS

-----------------------------------------------------------------------------
(* Induction over the naturals, stated of sets instead of predicates: from  *)
(* the least-number principle, and that from the well-foundedness of <.     *)

LEMMA Least ==
  ASSUME NEW S, S \subseteq Nat, S # {}
  PROVE  \E n \in S : \A m \in S : n <= m
<1> DEFINE R == OpToRel(<, Nat)
<1>1. IsWellFoundedOn(R, Nat)
  BY NatLessThanWellFounded
<1>2. \A x, y \in Nat : <<x, y>> \in R <=> x < y
  BY DEF OpToRel
<1> HIDE DEF R
<1>3. PICK n \in S : \A m \in S : ~ (<<m, n>> \in R)
  BY <1>1, WFMin
<1>4. ASSUME NEW m \in S PROVE n <= m
  <2>1. m \in Nat /\ n \in Nat
    OBVIOUS
  <2>2. ~(m < n)
    BY <1>2, <1>3, <2>1
  <2> QED BY <2>1, <2>2
<1> QED BY <1>4

LEMMA Induction ==
  ASSUME NEW S, 0 \in S, \A n \in Nat : n \in S => n + 1 \in S
  PROVE  Nat \subseteq S
<1> SUFFICES ASSUME Nat \ S # {} PROVE FALSE
  OBVIOUS
<1>1. PICK n \in Nat \ S : \A m \in Nat \ S : n <= m
  BY Least
<1>2. n # 0 /\ n - 1 \in Nat
  BY <1>1
<1>3. n - 1 \in S
  BY <1>1, <1>2
<1> QED BY <1>2, <1>3

(* A set of integers with an upper bound has a maximum. *)
LEMMA MaxOf ==
  ASSUME NEW S, S \subseteq Int, S # {}, NEW b \in Int, \A n \in S : n <= b
  PROVE  Max(S) \in S /\ \A n \in S : n <= Max(S)
<1> DEFINE D == {b - n : n \in S}
<1>1. D # {}
  OBVIOUS
<1>2. PICK d \in D : \A c \in D : d <= c
  <2>1. D \subseteq Nat
    <3>1. \A n \in S : b - n \in Nat
      <4> TAKE n \in S
      <4>1. n \in Int /\ n <= b
        OBVIOUS
      <4> QED BY <4>1
    <3> QED BY <3>1
  <2> HIDE DEF D
  <2> QED BY <1>1, <2>1, Least
<1>3. PICK m \in S : d = b - m
  OBVIOUS
<1>4. \A n \in S : m >= n
  BY <1>2, <1>3
<1>5. Max(S) \in S /\ \A n \in S : Max(S) >= n
  BY <1>4 DEF Max
<1>6. Max(S) \in Int
  BY <1>5
<1> QED BY <1>5, <1>6

LEMMA MinOfTwo ==
  ASSUME NEW a \in Int, NEW b \in Int
  PROVE  Min({a, b}) = IF a <= b THEN a ELSE b
BY DEF Min

-----------------------------------------------------------------------------
(* Sequences. *)

LEMMA ConcatOf ==
  ASSUME NEW S, NEW s \in Seq(S), NEW t \in Seq(S)
  PROVE  /\ s \o t \in Seq(S) /\ Len(s \o t) = Len(s) + Len(t) /\ Len(s) \in Nat /\ Len(t) \in Nat
         /\ \A i \in 1..Len(s) : (s \o t)[i] = s[i]
         /\ \A i \in 1..Len(t) : (s \o t)[Len(s) + i] = t[i]
OBVIOUS

LEMMA TailOf ==
  ASSUME NEW S, NEW s \in Seq(S), s # <<>>
  PROVE  /\ Head(s) \in S /\ Head(s) = s[1] /\ Tail(s) \in Seq(S)
         /\ Len(s) \in Nat \ {0} /\ Len(Tail(s)) = Len(s) - 1
         /\ \A i \in 1..(Len(s) - 1) : Tail(s)[i] = s[i + 1]
OBVIOUS

LEMMA AppendTo ==
  ASSUME NEW S, NEW s \in Seq(S), NEW x \in S
  PROVE  /\ Append(s, x) \in Seq(S) /\ Len(Append(s, x)) = Len(s) + 1 /\ Len(s) \in Nat
         /\ \A i \in 1..Len(s) : Append(s, x)[i] = s[i]
         /\ Append(s, x)[Len(s) + 1] = x
OBVIOUS

(* An element handed on from the front of one sequence to the end of the    *)
(* other.                                                                   *)
LEMMA HandOn ==
  ASSUME NEW S, NEW s \in Seq(S), NEW t \in Seq(S), t # <<>>
  PROVE  Append(s, Head(t)) \o Tail(t) = s \o t
OBVIOUS

(* FlattenSeq is defined by recursion: the function it is defined with      *)
(* exists, so it has the value that its definition says.                    *)
Flattening(f, seqs, n) ==
  f = [i \in 1..n |-> IF i = 1 THEN seqs[i] ELSE f[i - 1] \o seqs[i]]

LEMMA FlatteningExists ==
  ASSUME NEW seqs, NEW n \in Nat
  PROVE  \E f : Flattening(f, seqs, n)
<1> DEFINE T == {m \in Nat : \E f : Flattening(f, seqs, m)}
<1>1. 0 \in T
  <2>1. Flattening([i \in 1..0 |-> 0], seqs, 0)
    BY DEF Flattening
  <2> QED BY <2>1
<1>2. ASSUME NEW m \in Nat, m \in T PROVE m + 1 \in T
  <2>1. PICK f : Flattening(f, seqs, m)
    BY <1>2
  <2> DEFINE next(i) == IF i = 1 THEN seqs[i] ELSE f[i - 1] \o seqs[i]
             g == [i \in 1..(m + 1) |-> next(i)]
  <2>2. /\ \A i \in 1..m : f[i] = next(i)
        /\ \A i \in 1..(m + 1) : g[i] = next(i)
    <3>1. f = [i \in 1..m |-> next(i)]
      BY <2>1 DEF Flattening
    <3> HIDE DEF next
    <3> QED BY <3>1
  <2>3. ASSUME NEW i \in 1..(m + 1)
        PROVE  g[i] = IF i = 1 THEN seqs[i] ELSE g[i - 1] \o seqs[i]
    <3>1. CASE i = 1
      BY <2>2, <3>1
    <3>2. CASE i # 1
      <4>1. i - 1 \in 1..m
        BY <3>2
      <4>2. i - 1 \in 1..(m + 1)
        BY <4>1
      <4>3. g[i - 1] = f[i - 1]
        BY <2>2, <4>1, <4>2
      <4> HIDE DEF g
      <4> QED BY <2>2, <3>2, <4>3
    <3> QED BY <3>1, <3>2
  <2>4. Flattening(g, seqs, m + 1)
    <3>1. g = [i \in 1..(m + 1) |-> g[i]]
      OBVIOUS
    <3> HIDE DEF g
    <3> QED BY <2>3, <3>1 DEF Flattening
  <2> QED BY <2>4
<1> HIDE DEF T
<1>3. Nat \subseteq T
  BY <1>1, <1>2, Induction
<1> QED BY <1>3 DEF T

LEMMA FlattenOf ==
  ASSUME NEW seqs, Len(seqs) \in Nat \ {0}
  PROVE  \E f : Flattening(f, seqs, Len(seqs)) /\ FlattenSeq(seqs) = f[Len(seqs)]
<1>1. PICK h : Flattening(h, seqs, Len(seqs))
  BY FlatteningExists
<1> QED BY <1>1 DEF Flattening, FlattenSeq

(* RemoveFirst takes one element out of a sequence. *)
LEMMA RemoveFirstOf ==
  ASSUME NEW S, NEW s \in Seq(S), IsInjective(s), NEW e
  PROVE  RemoveFirst(s, e) \in Seq(S) /\ IsInjective(RemoveFirst(s, e))
<1>1. CASE ~\E i \in 1..Len(s) : s[i] = e
  BY <1>1 DEF RemoveFirst
<1>2. CASE \E i \in 1..Len(s) : s[i] = e
  <2> DEFINE I == {i \in 1..Len(s) : s[i] = e}
             at == Min(I)
             r == SubSeq(s, 1, at - 1) \o SubSeq(s, at + 1, Len(s))
  <2>1. RemoveFirst(s, e) = r
    BY <1>2 DEF RemoveFirst, RemoveAt, SelectInSeq
  <2>2. at \in 1..Len(s)
    <3>1. I \subseteq 1..Len(s) /\ I \subseteq Nat /\ I # {}
      BY <1>2
    <3> HIDE DEF I
    <3>2. \E n \in I : \A m \in I : n <= m
      BY <3>1, Least
    <3>3. Min(I) \in I
      BY <3>2 DEF Min
    <3> QED BY <3>1, <3>3
  <2> HIDE DEF I, at
  <2>3. /\ SubSeq(s, 1, at - 1) \in Seq(S) /\ Len(SubSeq(s, 1, at - 1)) = at - 1
        /\ \A i \in 1..(at - 1) : SubSeq(s, 1, at - 1)[i] = s[i]
    BY <2>2
  <2>4. /\ SubSeq(s, at + 1, Len(s)) \in Seq(S) /\ Len(SubSeq(s, at + 1, Len(s))) = Len(s) - at
        /\ \A i \in 1..(Len(s) - at) : SubSeq(s, at + 1, Len(s))[i] = s[at + i]
    BY <2>2
  <2>5. /\ r \in Seq(S) /\ Len(r) = Len(s) - 1
        /\ \A i \in 1..(at - 1) : r[i] = s[i]
        /\ \A i \in at..Len(r) : r[i] = s[i + 1]
    <3> DEFINE p == SubSeq(s, 1, at - 1)
               q == SubSeq(s, at + 1, Len(s))
    <3>0. p \in Seq(S) /\ q \in Seq(S) /\ r = p \o q
      BY <2>3, <2>4
    <3> HIDE DEF p, q, r
    <3>1. /\ p \o q \in Seq(S) /\ Len(p \o q) = Len(p) + Len(q)
          /\ \A i \in 1..Len(p) : (p \o q)[i] = p[i]
          /\ \A i \in 1..Len(q) : (p \o q)[Len(p) + i] = q[i]
      BY <3>0, ConcatOf
    <3>2. Len(p) = at - 1 /\ Len(q) = Len(s) - at /\ Len(s) \in Nat
      BY <2>3, <2>4 DEF p, q
    <3>3. \A i \in 1..(at - 1) : (p \o q)[i] = s[i]
      BY <2>3, <3>1, <3>2 DEF p
    <3>4. ASSUME NEW i \in at..(Len(s) - 1) PROVE (p \o q)[i] = s[i + 1]
      <4>1. i - (at - 1) \in 1..Len(q) /\ Len(p) + (i - (at - 1)) = i /\ at + (i - (at - 1)) = i + 1
        BY <2>2, <3>2
      <4>2. (p \o q)[Len(p) + (i - (at - 1))] = q[i - (at - 1)]
        BY <3>1, <4>1
      <4>3. q[i - (at - 1)] = s[at + (i - (at - 1))]
        BY <2>4, <3>2, <4>1 DEF q
      <4> QED BY <4>1, <4>2, <4>3
    <3>5. Len(r) = Len(s) - 1
      BY <2>2, <3>0, <3>1, <3>2
    <3> QED BY <2>2, <3>0, <3>1, <3>3, <3>4, <3>5
  <2> HIDE DEF r
  <2>6. ASSUME NEW i \in 1..Len(r), NEW j \in 1..Len(r), r[i] = r[j] PROVE i = j
    <3>1. \A n \in 1..Len(r) : \/ n < at /\ r[n] = s[n] /\ n \in 1..Len(s)
                               \/ n >= at /\ r[n] = s[n + 1] /\ n + 1 \in 1..Len(s)
      BY <2>2, <2>5
    <3>2. \A m, n \in 1..Len(s) : s[m] = s[n] => m = n
      BY DEF IsInjective
    <3> QED BY <2>2, <2>6, <3>1, <3>2
  <2>7. DOMAIN r = 1..Len(r)
    BY <2>5
  <2> QED BY <2>1, <2>5, <2>6, <2>7 DEF IsInjective
<1> QED BY <1>1, <1>2

-----------------------------------------------------------------------------
(* The inductive invariant.  OneXreadPerReader needs to know where a reader *)
(* is that has an XREAD under way; NoGaps, how its cursors and those of its *)
(* XREAD go with what it has had.                                           *)

EntriesInv ==
  /\ entries \in [Streams -> Seq(EntryKinds)]
  /\ \A s \in Streams : Len(entries[s]) <= MaxEntries

StreamIdsInv == streamIds \in Seq(Streams) /\ IsInjective(streamIds)

CountersInv == changes \in 0..MaxChanges /\ losses \in 0..MaxLosses

(* A cursor is the last position that came of its stream. *)
LastOf(q, last) ==
  \A a \in 1..Len(q) :
    (\A c \in (a + 1)..Len(q) : q[c][1] # q[a][1]) => q[a][2] = last[q[a][1]]

(* What a reader has yielded, and is going to without another XREAD. *)
Pulled(i) == seen[i] \o reader[i].batch

ReaderOK(i) ==
  /\ reader[i].stage = "yielding" <=> reader[i].batch # <<>>
  /\ \A s \in Streams : reader[i].last[s] <= Len(entries[s])
  /\ Consecutive(Pulled(i)) /\ LastOf(Pulled(i), reader[i].last)
  /\ reader[i].stage = "absent" =>
       seen[i] = <<>> /\ reader[i].last = [s \in Streams |-> Latest]

ReaderInv ==
  /\ reader \in [Readers -> Generator] /\ seen \in [Readers -> Seq(Positions)]
  /\ \A i \in Readers : ReaderOK(i)

(* A reader whose XREAD is under way waits for it, or will not issue        *)
(* another before it ends.                                                  *)
Busy(g) ==
  g.stage \in {"blocked", "updated", "ended"} \/ (g.stage = "deciding" /\ ~g.active)

XreadType ==
  [reader : Readers, started : BOOLEAN, keys : Seq(Streams),
   from : [Streams -> Cursors], count : Nat]

XreadOK(x, g) ==
  /\ IsInjective(x.keys)
  /\ \A s \in Streams : /\ x.from[s] <= Len(entries[s])
                        /\ x.started => x.from[s] # Latest
                        /\ g.stage = "blocked" /\ g.last[s] # Latest => x.from[s] = g.last[s]
  /\ Busy(g)

ServerInv ==
  /\ conn \in Seq(XreadType)
  /\ \A k \in 1..Len(conn) : XreadOK(conn[k], reader[conn[k].reader])
  /\ OneXreadPerReader

IInv ==
  EntriesInv /\ StreamIdsInv /\ CountersInv /\ ReaderInv /\ ServerInv

-----------------------------------------------------------------------------
(* What an XREAD returns. *)

(* Of each of the streams K, what x asks for from its cursor on, the        *)
(* positions of a stream next to each other.                                *)
Batch(B, x, K) ==
  /\ B \in Seq(Positions)
  /\ \A b \in 1..Len(B) :
       /\ B[b][1] \in K
       /\ x.from[B[b][1]] < B[b][2] /\ B[b][2] <= Len(entries[B[b][1]])
       /\ B[b][2] = x.from[B[b][1]] + 1 \/ (b > 1 /\ B[b - 1] = <<B[b][1], B[b][2] - 1>>)
  /\ \A a, b \in 1..Len(B) : a < b /\ B[a][1] = B[b][1] => B[b][2] = B[a][2] + (b - a)

(* An XREAD that the server has executed, or is about to. *)
Asks(x) ==
  /\ x \in XreadType /\ IsInjective(x.keys)
  /\ \A s \in Streams : x.from[s] \in 0..Len(entries[s]) /\ Len(entries[s]) \in 0..MaxEntries

LEMMA AfterBatch ==
  ASSUME NEW x, Asks(x), NEW s \in Streams
  PROVE  Batch(After(x, s), x, {s})
<1> DEFINE f == x.from[s]
           m == Min({x.count, Len(entries[s]) - f})
           B == After(x, s)
<1>1. f \in Nat /\ Len(entries[s]) \in 0..MaxEntries /\ f <= Len(entries[s]) /\ x.count \in Nat
  BY DEF Asks, XreadType
<1>2. m \in Nat /\ f + m <= Len(entries[s])
  <2>1. m = IF x.count <= Len(entries[s]) - f THEN x.count ELSE Len(entries[s]) - f
    BY <1>1, MinOfTwo
  <2> HIDE DEF m, f
  <2> QED BY <1>1, <2>1
<1>3. B = [n \in 1..m |-> <<s, f + n>>]
  BY DEF After
<1> HIDE DEF f, m, B
<1>4. \A n \in 1..m : <<s, f + n>> \in Positions
  BY <1>1, <1>2, BoundsAssumption DEF Positions
<1>5. B \in Seq(Positions) /\ Len(B) = m /\ \A n \in 1..m : B[n] = <<s, f + n>>
  BY <1>2, <1>3, <1>4
<1>6. ASSUME NEW b \in 1..m
      PROVE  /\ B[b][1] = s /\ B[b][2] = f + b /\ f < f + b /\ f + b <= Len(entries[s])
             /\ b = 1 \/ (b > 1 /\ B[b - 1] = <<s, (f + b) - 1>>)
  <2>1. B[b][1] = s /\ B[b][2] = f + b
    BY <1>5
  <2>2. f < f + b /\ f + b <= Len(entries[s])
    BY <1>1, <1>2
  <2>3. CASE b # 1
    <3>1. b - 1 \in 1..m /\ f + (b - 1) = (f + b) - 1
      BY <1>1, <1>2, <2>3
    <3> QED BY <1>5, <2>1, <2>2, <3>1
  <2> QED BY <2>1, <2>2, <2>3
<1>7. ASSUME NEW a \in 1..m, NEW b \in 1..m PROVE B[b][2] = B[a][2] + (b - a)
  <2>1. B[a][2] = f + a /\ B[b][2] = f + b
    BY <1>6
  <2> QED BY <1>1, <1>2, <2>1
<1>8. \A b \in 1..m : /\ B[b][1] = s /\ x.from[B[b][1]] = f
                      /\ Len(entries[B[b][1]]) = Len(entries[s])
  BY <1>6 DEF f
<1>9. \A b \in 1..m : /\ B[b][1] \in {s} /\ x.from[B[b][1]] < B[b][2]
                      /\ B[b][2] <= Len(entries[B[b][1]])
                      /\ \/ B[b][2] = x.from[B[b][1]] + 1
                         \/ (b > 1 /\ B[b - 1] = <<B[b][1], B[b][2] - 1>>)
  BY <1>6, <1>8
<1> QED BY <1>5, <1>7, <1>9 DEF Batch, B

LEMMA ConcatBatch ==
  ASSUME NEW x, NEW B, NEW C, NEW K, NEW s, Batch(B, x, K), Batch(C, x, {s}), s \notin K
  PROVE  Batch(B \o C, x, K \cup {s})
<1> DEFINE D == B \o C
           l == Len(B)
<1>1. /\ B \in Seq(Positions) /\ C \in Seq(Positions)
  BY DEF Batch
<1>2. /\ D \in Seq(Positions) /\ Len(D) = l + Len(C) /\ l \in Nat /\ Len(C) \in Nat
      /\ \A b \in 1..l : D[b] = B[b]
      /\ \A b \in 1..Len(C) : D[l + b] = C[b]
  BY <1>1, ConcatOf
<1> HIDE DEF D, l
<1>3. \A b \in 1..Len(D) : \/ b \in 1..l /\ D[b] = B[b]
                           \/ b > l /\ b - l \in 1..Len(C) /\ D[b] = C[b - l]
  <2> SUFFICES ASSUME NEW b \in 1..Len(D), b \notin 1..l
               PROVE  b > l /\ b - l \in 1..Len(C) /\ D[b] = C[b - l]
    BY <1>2
  <2>1. b > l /\ b - l \in 1..Len(C) /\ l + (b - l) = b
    BY <1>2
  <2> QED BY <1>2, <2>1
<1>4. ASSUME NEW b \in 1..Len(D)
      PROVE  /\ D[b][1] \in K \cup {s} /\ (b \in 1..l <=> D[b][1] \in K)
             /\ x.from[D[b][1]] < D[b][2] /\ D[b][2] <= Len(entries[D[b][1]])
             /\ \/ D[b][2] = x.from[D[b][1]] + 1
                \/ (b > 1 /\ D[b - 1] = <<D[b][1], D[b][2] - 1>>)
  <2>1. CASE b \in 1..l /\ D[b] = B[b]
    <3>1. b > 1 => b - 1 \in 1..l /\ D[b - 1] = B[b - 1]
      BY <1>2, <2>1
    <3> QED BY <1>2, <2>1, <3>1 DEF Batch, l
  <2>2. CASE b > l /\ b - l \in 1..Len(C) /\ D[b] = C[b - l]
    <3>1. b - l > 1 => b > 1 /\ D[b - 1] = C[(b - l) - 1]
      <4> SUFFICES ASSUME b - l > 1 PROVE b > 1 /\ D[b - 1] = C[(b - l) - 1]
        OBVIOUS
      <4>1. (b - l) - 1 \in 1..Len(C) /\ l + ((b - l) - 1) = b - 1 /\ b > 1
        BY <1>2, <2>2
      <4> QED BY <1>2, <4>1
    <3>2. /\ C[b - l][1] = s /\ x.from[C[b - l][1]] < C[b - l][2]
          /\ C[b - l][2] <= Len(entries[C[b - l][1]])
          /\ \/ C[b - l][2] = x.from[C[b - l][1]] + 1
             \/ (b - l > 1 /\ C[(b - l) - 1] = <<C[b - l][1], C[b - l][2] - 1>>)
      BY <2>2 DEF Batch
    <3>3. b \notin 1..l
      BY <1>2, <2>2
    <3> QED BY <2>2, <3>1, <3>2, <3>3
  <2> QED BY <1>3, <2>1, <2>2
<1>5. ASSUME NEW a \in 1..Len(D), NEW b \in 1..Len(D), a < b, D[a][1] = D[b][1]
      PROVE  D[b][2] = D[a][2] + (b - a)
  <2>1. CASE a \in 1..l
    <3>1. b \in 1..l
      BY <1>4, <1>5, <2>1
    <3> QED BY <1>2, <1>5, <2>1, <3>1, SMTT(30) DEF Batch, l
  <2>2. CASE a \notin 1..l
    <3>1. /\ a - l \in 1..Len(C) /\ D[a] = C[a - l]
          /\ b - l \in 1..Len(C) /\ D[b] = C[b - l]
      <4>1. b \notin 1..l
        BY <1>4, <1>5, <2>2
      <4> QED BY <1>3, <2>2, <4>1
    <3>2. a - l < b - l /\ (b - l) - (a - l) = b - a
      BY <1>2, <1>5
    <3>3. C[b - l][2] = C[a - l][2] + ((b - l) - (a - l))
      BY <1>5, <3>1, <3>2 DEF Batch
    <3> QED BY <3>1, <3>2, <3>3
  <2> QED BY <2>1, <2>2
<1> QED BY <1>2, <1>4, <1>5 DEF Batch, D

(* The streams that x names. *)
Named(x) == {x.keys[k] : k \in 1..Len(x.keys)}

LEMMA ReplyBatch ==
  ASSUME NEW x, Asks(x)
  PROVE  Batch(Reply(x), x, Named(x))
<1> DEFINE n == Len(x.keys)
           seqs == [k \in 1..n |-> After(x, x.keys[k])]
           K(m) == {x.keys[k] : k \in 1..m}
<1>1. /\ n \in Nat /\ Len(seqs) = n /\ \A k \in 1..n : x.keys[k] \in Streams
      /\ \A j, k \in 1..n : x.keys[j] = x.keys[k] => j = k
  BY DEF Asks, XreadType, IsInjective
<1>2. \A k \in 1..n : seqs[k] = After(x, x.keys[k])
  OBVIOUS
<1>3. Reply(x) = FlattenSeq(seqs)
  BY DEF Reply
<1> HIDE DEF seqs, n
<1>4. CASE n = 0
  <2>1. FlattenSeq(seqs) = seqs /\ seqs = <<>>
    BY <1>1, <1>4 DEF FlattenSeq, seqs
  <2> QED BY <1>3, <2>1 DEF Batch
<1>5. CASE n # 0
  <2>1. PICK f : Flattening(f, seqs, n) /\ Reply(x) = f[n]
    BY <1>1, <1>3, <1>5, FlattenOf
  <2>2. \A k \in 1..n : f[k] = IF k = 1 THEN seqs[k] ELSE f[k - 1] \o seqs[k]
    <3> DEFINE next(k) == IF k = 1 THEN seqs[k] ELSE f[k - 1] \o seqs[k]
    <3>1. f = [k \in 1..n |-> next(k)]
      BY <2>1 DEF Flattening
    <3> HIDE DEF next
    <3>2. \A k \in 1..n : f[k] = next(k)
      BY <3>1
    <3> QED BY <3>2 DEF next
  <2> DEFINE T == {m \in Nat : m \in 1..n => Batch(f[m], x, K(m))}
  <2>3. 0 \in T
    OBVIOUS
  <2>4. ASSUME NEW m \in Nat, m \in T PROVE m + 1 \in T
    <3> SUFFICES ASSUME m + 1 \in 1..n PROVE Batch(f[m + 1], x, K(m + 1))
      OBVIOUS
    <3> DEFINE s == x.keys[m + 1]
    <3>1. s \in Streams /\ Batch(seqs[m + 1], x, {s})
      BY <1>1, <1>2, AfterBatch
    <3>2. CASE m = 0
      <4>1. f[m + 1] = seqs[m + 1] /\ K(m + 1) = {s}
        BY <2>2, <3>2
      <4> QED BY <3>1, <4>1
    <3>3. CASE m # 0
      <4>1. m \in 1..n /\ m + 1 # 1 /\ (m + 1) - 1 = m
        BY <1>1, <3>3
      <4>2. f[m + 1] = f[m] \o seqs[m + 1]
        BY <2>2, <4>1
      <4>3. K(m + 1) = K(m) \cup {s} /\ s \notin K(m)
        BY <1>1, <4>1
      <4>4. Batch(f[m], x, K(m))
        BY <2>4, <4>1
      <4> HIDE DEF K, s
      <4> QED BY <3>1, <4>2, <4>3, <4>4, ConcatBatch
    <3> QED BY <3>2, <3>3
  <2>5. n \in T
    <3> HIDE DEF T
    <3>1. Nat \subseteq T
      BY <2>3, <2>4, Induction
    <3> QED BY <1>1, <3>1
  <2>6. Batch(f[n], x, K(n))
    BY <1>1, <1>5, <2>5
  <2> QED BY <2>1, <2>6 DEF Named, n
<1> QED BY <1>4, <1>5

-----------------------------------------------------------------------------
(* A batch joined to what a reader has had before. *)

(* The cursors after a batch. *)
Moved(last, B) ==
  [s \in Streams |-> Max({last[s]} \cup {n \in 1..MaxEntries : Contains(B, <<s, n>>)})]

LEMMA MovedTo ==
  ASSUME NEW x, NEW B, NEW K, Asks(x), Batch(B, x, K),
         NEW last \in [Streams -> Cursors],
         \A s \in Streams : last[s] # Latest => x.from[s] = last[s],
         NEW s \in Streams
  PROVE  /\ Moved(last, B)[s] \in Cursors
         /\ last[s] <= Len(entries[s]) => Moved(last, B)[s] <= Len(entries[s])
         /\ (\A b \in 1..Len(B) : B[b][1] # s) => Moved(last, B)[s] = last[s]
         /\ \A b \in 1..Len(B) :
              B[b][1] = s /\ (\A c \in (b + 1)..Len(B) : B[c][1] # s)
                => Moved(last, B)[s] = B[b][2]
<1> DEFINE S == {last[s]} \cup {n \in 1..MaxEntries : Contains(B, <<s, n>>)}
           top == Moved(last, B)[s]
<1>1. /\ last[s] \in Cursors /\ MaxEntries \in Nat /\ Cursors \subseteq Int
      /\ x.from[s] \in Nat /\ Len(entries[s]) \in Nat
      /\ \A n \in Cursors : n <= MaxEntries
  BY BoundsAssumption DEF Cursors, Latest, Asks
<1>2. top = Max(S)
  BY DEF Moved
<1>3. S \subseteq Cursors /\ last[s] \in S
  BY <1>1 DEF Cursors
<1>4. \A n \in S : n # last[s] => \E b \in 1..Len(B) : B[b][1] = s /\ B[b][2] = n
  BY DEF Contains
<1>5. \A b \in 1..Len(B) : /\ B[b][2] \in 1..MaxEntries /\ B[b] = <<B[b][1], B[b][2]>>
                           /\ B[b][1] = s => B[b][2] \in S /\ B[b][2] <= Len(entries[s])
                                             /\ x.from[s] < B[b][2]
  <2>1. B \in Seq(Positions)
    BY DEF Batch
  <2>2. \A b \in 1..Len(B) : B[b][2] \in 1..MaxEntries /\ B[b] = <<B[b][1], B[b][2]>>
    BY <2>1 DEF Positions
  <2> QED BY <2>2 DEF Contains, Batch
<1> HIDE DEF S, top
<1>6. top \in S /\ \A n \in S : n <= top
  <2>1. S \subseteq Int /\ S # {} /\ MaxEntries \in Int /\ \A n \in S : n <= MaxEntries
    BY <1>1, <1>3
  <2>2. Max(S) \in S /\ \A n \in S : n <= Max(S)
    BY <2>1, MaxOf
  <2> QED BY <1>2, <2>2
<1>7. top \in Cursors
  BY <1>3, <1>6
<1>8. last[s] <= Len(entries[s]) => top <= Len(entries[s])
  BY <1>4, <1>5, <1>6
<1>9. (\A b \in 1..Len(B) : B[b][1] # s) => top = last[s]
  BY <1>4, <1>6
<1>10. ASSUME NEW b \in 1..Len(B), B[b][1] = s, \A c \in (b + 1)..Len(B) : B[c][1] # s
       PROVE  top = B[b][2]
  <2>0. Len(B) \in Nat
    BY DEF Batch
  <2>1. B[b][2] \in S /\ B[b][2] \in Nat /\ x.from[s] < B[b][2]
    BY <1>5, <1>10
  <2>2. ASSUME NEW n \in S PROVE n <= B[b][2]
    <3>1. CASE n = last[s]
      BY <1>1, <2>1, <3>1 DEF Cursors, Latest
    <3>2. CASE n # last[s]
      <4>1. PICK c \in 1..Len(B) : B[c][1] = s /\ B[c][2] = n
        BY <1>4, <3>2
      <4>2. c <= b
        BY <1>10, <2>0, <4>1
      <4>3. c < b => B[b][2] = B[c][2] + (b - c)
        BY <1>10, <4>1 DEF Batch
      <4> QED BY <1>5, <2>0, <4>1, <4>2, <4>3
    <3> QED BY <3>1, <3>2
  <2>3. top <= B[b][2] /\ B[b][2] <= top /\ top \in Int
    BY <1>1, <1>6, <1>7, <2>1, <2>2
  <2> QED BY <2>1, <2>3
<1> QED BY <1>7, <1>8, <1>9, <1>10 DEF top

LEMMA Joined ==
  ASSUME NEW x, NEW B, NEW K, Asks(x), Batch(B, x, K),
         NEW last \in [Streams -> Cursors],
         \A s \in Streams : last[s] # Latest => x.from[s] = last[s],
         NEW p \in Seq(Positions), Consecutive(p), LastOf(p, last)
  PROVE  Consecutive(p \o B) /\ LastOf(p \o B, Moved(last, B))
<1> DEFINE q == p \o B
           l == Len(p)
           next == Moved(last, B)
<1>1. /\ q \in Seq(Positions) /\ Len(q) = l + Len(B) /\ l \in Nat /\ Len(B) \in Nat
      /\ \A b \in 1..l : q[b] = p[b]
      /\ \A b \in 1..Len(B) : q[l + b] = B[b]
  BY ConcatOf DEF Batch
<1> HIDE DEF q, l, next
<1>2. \A b \in 1..Len(q) : \/ b \in 1..l /\ q[b] = p[b]
                           \/ b > l /\ b - l \in 1..Len(B) /\ q[b] = B[b - l]
  <2> SUFFICES ASSUME NEW b \in 1..Len(q), b \notin 1..l
               PROVE  b > l /\ b - l \in 1..Len(B) /\ q[b] = B[b - l]
    BY <1>1
  <2>1. b > l /\ b - l \in 1..Len(B) /\ l + (b - l) = b
    BY <1>1
  <2> QED BY <1>1, <2>1
<1>3. \A b \in 1..Len(q) : q[b][1] \in Streams /\ q[b][2] \in 1..MaxEntries
  BY <1>1 DEF Positions
<1>4. ASSUME NEW a \in 1..Len(q), NEW b \in 1..Len(q), a < b, q[a][1] = q[b][1],
             \A c \in (a + 1)..(b - 1) : q[c][1] # q[a][1]
      PROVE  q[b][2] = q[a][2] + 1
  <2>1. CASE b \in 1..l
    <3>1. a \in 1..l /\ \A c \in (a + 1)..(b - 1) : c \in 1..l
      BY <1>1, <1>4, <2>1
    <3>2. p[a][1] = p[b][1] /\ \A c \in (a + 1)..(b - 1) : p[c][1] # p[a][1]
      BY <1>1, <1>4, <2>1, <3>1
    <3>3. p[b][2] = p[a][2] + 1
      BY <1>4, <2>1, <3>1, <3>2 DEF Consecutive, l
    <3> QED BY <1>1, <2>1, <3>1, <3>3
  <2>2. CASE b > l /\ b - l \in 1..Len(B) /\ q[b] = B[b - l]
    <3> DEFINE d == b - l
               s == q[b][1]
    <3>1. /\ d \in 1..Len(B) /\ B[d][1] = s /\ x.from[s] < B[d][2]
          /\ B[d][2] = x.from[s] + 1 \/ (d > 1 /\ B[d - 1] = <<s, B[d][2] - 1>>)
          /\ B[d][2] \in Nat
      BY <1>3, <2>2, SMTT(30) DEF Batch
    <3>2. d > 1 => b - 1 \in 1..Len(q) /\ q[b - 1] = B[d - 1]
      <4> SUFFICES ASSUME d > 1 PROVE b - 1 \in 1..Len(q) /\ q[b - 1] = B[d - 1]
        OBVIOUS
      <4>1. d - 1 \in 1..Len(B) /\ l + (d - 1) = b - 1 /\ b - 1 \in 1..Len(q)
        <5>1. l \in Nat /\ Len(B) \in Nat /\ Len(q) \in Nat /\ b \in Int
          BY <1>1
        <5>2. 1 < b - l /\ b - l \in 1..Len(B) /\ b \in 1..Len(q)
          BY <2>2
        <5> QED BY <5>1, <5>2
      <4> QED BY <1>1, <4>1
    <3>3. CASE d > 1 /\ B[d - 1] = <<s, B[d][2] - 1>>
      <4>1. a = b - 1
        <5>1. q[b - 1][1] = q[a][1]
          BY <1>4, <3>2, <3>3
        <5>2. b - 1 \notin (a + 1)..(b - 1)
          BY <1>4, <5>1
        <5> QED BY <1>4, <5>2
      <4>2. q[a][2] = B[d][2] - 1
        BY <3>2, <3>3, <4>1
      <4> DEFINE n == B[d][2]
      <4>3. q[b][2] = n /\ q[a][2] = n - 1 /\ n \in Nat
        BY <2>2, <3>1, <4>2
      <4> HIDE DEF n
      <4> QED BY <4>3
    <3>4. CASE B[d][2] = x.from[s] + 1
      <4>1. a \in 1..l
        <5> SUFFICES ASSUME a \notin 1..l PROVE FALSE
          OBVIOUS
        <5>1. a - l \in 1..Len(B) /\ q[a] = B[a - l]
          BY <1>2
        <5>2. a - l < d /\ B[a - l][1] = B[d][1]
          BY <1>1, <1>4, <2>2, <3>1, <5>1
        <5>3. B[d][2] = B[a - l][2] + (d - (a - l)) /\ x.from[s] < B[a - l][2]
          BY <1>4, <3>1, <5>1, <5>2 DEF Batch
        <5>4. x.from[s] \in Nat /\ B[a - l][2] \in Nat /\ s \in Streams
          BY <1>3, <5>1 DEF Asks
        <5> HIDE DEF d, s
        <5>5. d - (a - l) >= 1 /\ d \in Int /\ a - l \in Int
          BY <3>1, <5>1, <5>2
        <5> DEFINE f == x.from[s]
                   m == B[a - l][2]
                   k == d - (a - l)
        <5>6. m + k = f + 1 /\ f < m /\ f \in Nat /\ m \in Nat /\ k \in Int /\ k >= 1
          BY <3>4, <5>3, <5>4, <5>5
        <5> HIDE DEF f, m, k
        <5> QED BY <5>6
      <4>2. \A c \in (a + 1)..l : p[c][1] # p[a][1]
        BY <1>1, <1>4, <2>2, <4>1
      <4>3. p[a][2] = last[p[a][1]]
        BY <4>1, <4>2 DEF LastOf, l
      <4>4. q[a] = p[a] /\ q[a][2] \in 1..MaxEntries
        BY <1>1, <1>3, <4>1
      <4>5. last[s] = q[a][2] /\ last[s] # Latest /\ s \in Streams
        BY <1>3, <1>4, <4>3, <4>4 DEF Latest
      <4> QED BY <2>2, <3>4, <4>5
    <3> QED BY <3>1, <3>3, <3>4
  <2> QED BY <1>2, <2>1, <2>2
<1>5. ASSUME NEW a \in 1..Len(q), \A c \in (a + 1)..Len(q) : q[c][1] # q[a][1]
      PROVE  q[a][2] = next[q[a][1]]
  <2> DEFINE s == q[a][1]
  <2>0. s \in Streams
    BY <1>3
  <2>1. CASE a \in 1..l /\ q[a] = p[a]
    <3>1. \A c \in (a + 1)..l : p[c][1] # p[a][1]
      BY <1>1, <1>5, <2>1
    <3>2. p[a][2] = last[p[a][1]]
      BY <2>1, <3>1 DEF LastOf, l
    <3>3. \A b \in 1..Len(B) : B[b][1] # s
      <4> TAKE b \in 1..Len(B)
      <4>1. l + b \in (a + 1)..Len(q) /\ q[l + b] = B[b]
        BY <1>1, <2>1
      <4> QED BY <1>5, <4>1
    <3>4. next[s] = last[s]
      BY <2>0, <3>3, MovedTo DEF next
    <3> QED BY <2>1, <3>2, <3>4
  <2>2. CASE a > l /\ a - l \in 1..Len(B) /\ q[a] = B[a - l]
    <3>1. \A c \in ((a - l) + 1)..Len(B) : B[c][1] # s
      <4> TAKE c \in ((a - l) + 1)..Len(B)
      <4>1. l + c \in (a + 1)..Len(q) /\ c \in 1..Len(B)
        BY <1>1, <2>2
      <4>2. q[l + c] = B[c]
        BY <1>1, <4>1
      <4> QED BY <1>5, <4>1, <4>2
    <3>2. next[s] = B[a - l][2]
      <4>1. B[a - l][1] = s
        BY <2>2
      <4> HIDE DEF s
      <4>2. \A b \in 1..Len(B) :
              B[b][1] = s /\ (\A c \in (b + 1)..Len(B) : B[c][1] # s) => next[s] = B[b][2]
        BY <2>0, MovedTo DEF next
      <4> QED BY <2>2, <3>1, <4>1, <4>2
    <3> QED BY <2>2, <3>2
  <2> QED BY <1>2, <2>1, <2>2
<1> QED BY <1>4, <1>5 DEF Consecutive, LastOf, q, next

-----------------------------------------------------------------------------
LEMMA InitIInv == Init => IInv
<1> SUFFICES ASSUME Init PROVE IInv
  OBVIOUS
<1> DEFINE g == Generated(CHOOSE s \in Streams : TRUE, FALSE, "absent")
<1>1. /\ g \in Generator /\ g.stage = "absent" /\ g.batch = <<>> /\ g.active
      /\ g.last = [s \in Streams |-> Latest]
  <2>1. (CHOOSE s \in Streams : TRUE) \in Streams
    BY StreamsExist
  <2> QED BY <2>1 DEF Generated, Generator, Stages, Cursors, Latest
<1>2. reader = [i \in Readers |-> g] /\ seen = [i \in Readers |-> <<>>]
  BY DEF Init
<1> HIDE DEF g
<1>3. EntriesInv /\ StreamIdsInv /\ CountersInv
  BY BoundsAssumption DEF Init, EntriesInv, StreamIdsInv, CountersInv, IsInjective
<1>4. ReaderInv
  <2>1. \A i \in Readers : Pulled(i) = <<>>
    BY <1>1, <1>2 DEF Pulled
  <2>2. \A i \in Readers : Consecutive(Pulled(i)) /\ LastOf(Pulled(i), reader[i].last)
    BY <2>1 DEF Consecutive, LastOf
  <2>3. ASSUME NEW i \in Readers, NEW s \in Streams PROVE reader[i].last[s] <= Len(entries[s])
    <3>1. entries[s] = <<>> /\ reader[i] = g
      BY <1>2 DEF Init
    <3>2. g.last[s] = Latest /\ Len(<<>>) = 0
      BY <1>1
    <3> QED BY <3>1, <3>2 DEF Latest
  <2> QED BY <1>1, <1>2, <2>2, <2>3 DEF ReaderInv, ReaderOK
<1>6. ServerInv
  BY DEF Init, ServerInv, OneXreadPerReader
<1> QED BY <1>3, <1>4, <1>6 DEF IInv

LEMMA IInvImplies == IInv => TypeOK /\ OneXreadPerReader /\ NoGaps
<1> SUFFICES ASSUME IInv PROVE TypeOK /\ OneXreadPerReader /\ NoGaps
  OBVIOUS
<1>1. TypeOK
  BY DEF IInv, EntriesInv, StreamIdsInv, CountersInv, ReaderInv, ReaderOK, TypeOK
<1>2. OneXreadPerReader
  BY DEF IInv, ServerInv
<1>3. ASSUME NEW i \in Readers PROVE Consecutive(seen[i])
  <2> DEFINE p == seen[i]
             b == reader[i].batch
             q == p \o b
  <2>1. p \in Seq(Positions) /\ b \in Seq(Positions) /\ Consecutive(q)
    BY DEF IInv, ReaderInv, ReaderOK, Generator, Pulled
  <2> HIDE DEF p, b
  <2>2. /\ Len(p) \in Nat /\ Len(q) \in Nat /\ Len(p) <= Len(q)
        /\ \A a \in 1..Len(p) : q[a] = p[a]
    <3>1. /\ Len(q) = Len(p) + Len(b) /\ Len(p) \in Nat /\ Len(b) \in Nat
          /\ \A a \in 1..Len(p) : q[a] = p[a]
      BY <2>1, ConcatOf
    <3> HIDE DEF q
    <3> QED BY <3>1
  <2> HIDE DEF q
  <2>3. ASSUME NEW a \in 1..Len(p), NEW e \in 1..Len(p), a < e, p[a][1] = p[e][1],
               \A c \in (a + 1)..(e - 1) : p[c][1] # p[a][1]
        PROVE  p[e][2] = p[a][2] + 1
    <3>1. a \in 1..Len(q) /\ e \in 1..Len(q) /\ \A c \in (a + 1)..(e - 1) : c \in 1..Len(p)
      BY <2>2, <2>3
    <3>2. q[a][1] = q[e][1] /\ \A c \in (a + 1)..(e - 1) : q[c][1] # q[a][1]
      BY <2>2, <2>3, <3>1
    <3>3. q[e][2] = q[a][2] + 1
      BY <2>1, <2>3, <3>1, <3>2 DEF Consecutive
    <3> QED BY <2>2, <3>3
  <2> QED BY <2>3 DEF Consecutive, p
<1> QED BY <1>1, <1>2, <1>3 DEF NoGaps

-----------------------------------------------------------------------------
(* What most steps do to a reader: it keeps its cursors and its batch, and  *)
(* if an XREAD of its is under way it goes on being held up by it.          *)

Keeps(g, h) ==
  /\ h \in Generator /\ h.batch = g.batch /\ h.last = g.last
  /\ h.stage = "yielding" <=> g.stage = "yielding"
  /\ h.stage = "absent" => g.stage = "absent"

Waits(g, h) ==
  /\ h.last = g.last
  /\ h.stage = "blocked" => g.stage = "blocked"
  /\ Busy(g) => Busy(h)

(* Streams only grow. *)
Grown == \A s \in Streams : /\ Len(entries[s]) \in Nat /\ Len(entries[s])' \in Nat
                            /\ Len(entries[s]) <= Len(entries[s])'

LEMMA SameEntries ==
  ASSUME EntriesInv, UNCHANGED entries
  PROVE  Grown
BY DEF EntriesInv, Grown

LEMMA KeptReader ==
  ASSUME NEW i \in Readers, ReaderInv, Grown, seen'[i] = seen[i], Keeps(reader[i], reader'[i])
  PROVE  ReaderOK(i)'
<1> DEFINE g == reader[i]
           h == reader'[i]
<1>1. ReaderOK(i) /\ g \in Generator /\ h.batch = g.batch /\ h.last = g.last
  BY DEF ReaderInv, Keeps
<1>2. Pulled(i)' = Pulled(i)
  BY <1>1 DEF Pulled
<1>3. \A s \in Streams : h.last[s] <= Len(entries[s])'
  <2> TAKE s \in Streams
  <2>1. g.last[s] \in Int /\ g.last[s] <= Len(entries[s])
    BY <1>1, BoundsAssumption DEF Generator, Cursors, Latest, ReaderOK
  <2> QED BY <1>1, <2>1 DEF Grown
<1>4. Consecutive(Pulled(i)') /\ LastOf(Pulled(i)', h.last)
  BY <1>1, <1>2 DEF ReaderOK
<1>5. h.stage = "yielding" <=> h.batch # <<>>
  BY <1>1 DEF ReaderOK, Keeps
<1>6. h.stage = "absent" => seen'[i] = <<>> /\ h.last = [s \in Streams |-> Latest]
  BY <1>1 DEF ReaderOK, Keeps
<1> QED BY <1>3, <1>4, <1>5, <1>6 DEF ReaderOK

LEMMA KeptReaders ==
  ASSUME ReaderInv, Grown, UNCHANGED seen,
         reader' \in [Readers -> Generator], \A i \in Readers : Keeps(reader[i], reader'[i])
  PROVE  ReaderInv'
<1>1. \A i \in Readers : ReaderOK(i)'
  BY KeptReader
<1> QED BY <1>1 DEF ReaderInv

LEMMA StillOK ==
  ASSUME NEW x \in XreadType, NEW g, NEW h, Grown, XreadOK(x, g), Waits(g, h)
  PROVE  /\ IsInjective(x.keys)
         /\ \A s \in Streams : /\ x.from[s] <= Len(entries[s])'
                               /\ x.started => x.from[s] # Latest
                               /\ h.stage = "blocked" /\ h.last[s] # Latest
                                    => x.from[s] = h.last[s]
         /\ Busy(h)
<1>1. ASSUME NEW s \in Streams PROVE x.from[s] <= Len(entries[s])'
  <2>1. x.from[s] \in Int /\ x.from[s] <= Len(entries[s])
    BY BoundsAssumption DEF XreadType, Cursors, Latest, XreadOK
  <2> QED BY <2>1 DEF Grown
<1> QED BY <1>1 DEF XreadOK, Waits

LEMMA WaitingReaders ==
  ASSUME ServerInv, Grown, UNCHANGED conn, \A i \in Readers : Waits(reader[i], reader'[i])
  PROVE  ServerInv'
<1>1. OneXreadPerReader' /\ conn' \in Seq(XreadType)
  BY DEF ServerInv, OneXreadPerReader
<1>2. ASSUME NEW k \in 1..Len(conn)
      PROVE  XreadOK(conn[k], reader[conn[k].reader])'
  <2>1. conn[k] \in XreadType /\ conn[k].reader \in Readers
    <3>1. conn[k] \in XreadType
      BY DEF ServerInv
    <3> DEFINE y == conn[k]
    <3>2. y \in XreadType
      BY <3>1
    <3> HIDE DEF y
    <3>3. y.reader \in Readers
      BY <3>2 DEF XreadType
    <3> QED BY <3>1, <3>3 DEF y
  <2>2. XreadOK(conn[k], reader[conn[k].reader])
    BY DEF ServerInv
  <2>3. Waits(reader[conn[k].reader], reader'[conn[k].reader])
    BY <2>1
  <2> DEFINE x == conn[k]
             g == reader[x.reader]
             h == reader'[x.reader]
  <2>4. x' = x
    OBVIOUS
  <2> HIDE DEF x
  <2>5. /\ IsInjective(x.keys)
        /\ \A s \in Streams : /\ x.from[s] <= Len(entries[s])'
                              /\ x.started => x.from[s] # Latest
                              /\ h.stage = "blocked" /\ h.last[s] # Latest
                                   => x.from[s] = h.last[s]
        /\ Busy(h)
    <3> HIDE DEF g, h
    <3> QED BY <2>1, <2>2, <2>3, StillOK DEF g, h, x
  <2>6. XreadOK(x, reader[x.reader])'
    BY <2>4, <2>5 DEF XreadOK, Busy
  <2> QED BY <2>6 DEF x
<1> QED BY <1>1, <1>2 DEF ServerInv

-----------------------------------------------------------------------------
(* keyEvents. *)

LEMMA UpdatedOf ==
  ASSUME NEW g \in Generator
  PROVE  /\ Keeps(g, Updated(g)) /\ Waits(g, Updated(g))
         /\ g.stage # "absent" => Updated(g).stage # "absent"
<1>1. CASE g.stage = "blocked"
  <2> DEFINE h == [g EXCEPT !.fresh = TRUE, !.stage = "updated"]
  <2>1. Updated(g) = h
    BY <1>1 DEF Updated
  <2>2. h \in Generator /\ h.batch = g.batch /\ h.last = g.last /\ h.stage = "updated"
    BY DEF Generator, Stages
  <2> HIDE DEF h
  <2> QED BY <1>1, <2>1, <2>2 DEF Keeps, Waits, Busy
<1>2. CASE g.stage \in {"deciding", "updated", "yielding"}
  <2> DEFINE h == [g EXCEPT !.fresh = TRUE]
  <2>1. Updated(g) = h
    BY <1>2 DEF Updated
  <2>2. /\ h \in Generator /\ h.batch = g.batch /\ h.last = g.last
        /\ h.stage = g.stage /\ h.active = g.active
    BY DEF Generator
  <2> HIDE DEF h
  <2> QED BY <1>2, <2>1, <2>2 DEF Keeps, Waits, Busy
<1>3. CASE g.stage \notin {"blocked", "deciding", "updated", "yielding"}
  <2>1. Updated(g) = g
    BY <1>3 DEF Updated
  <2> QED BY <2>1 DEF Keeps, Waits
<1> QED BY <1>1, <1>2, <1>3

LEMMA CancelledOf ==
  ASSUME NEW g \in Generator
  PROVE  /\ Keeps(g, Cancelled(g)) /\ Waits(g, Cancelled(g)) /\ Cancelled(g).stage = g.stage
         /\ g.stage = "updated" => ~Cancelled(g).active
<1>1. CASE g.stage \in {"deciding", "blocked", "updated", "yielding"}
  <2> DEFINE h == [g EXCEPT !.active = FALSE]
  <2>1. Cancelled(g) = h
    BY <1>1 DEF Cancelled
  <2>2. /\ h \in Generator /\ h.batch = g.batch /\ h.last = g.last
        /\ h.stage = g.stage /\ h.active = FALSE
    BY DEF Generator
  <2> HIDE DEF h
  <2> QED BY <2>1, <2>2 DEF Keeps, Waits, Busy
<1>2. CASE g.stage \notin {"deciding", "blocked", "updated", "yielding"}
  <2>1. Cancelled(g) = g
    BY <1>2 DEF Cancelled
  <2> QED BY <1>2, <2>1 DEF Keeps, Waits
<1> QED BY <1>1, <1>2

LEMMA AddKeyOf ==
  ASSUME NEW s \in Streams, StreamIdsInv, AddKey(s)
  PROVE  StreamIdsInv'
<1>1. CASE Contains(streamIds, s)
  BY <1>1 DEF StreamIdsInv, AddKey
<1>2. CASE ~Contains(streamIds, s)
  <2> DEFINE t == Append(streamIds, s)
  <2>1. streamIds' = t /\ \A k \in 1..Len(streamIds) : streamIds[k] # s
    BY <1>2 DEF AddKey, Contains
  <2>2. /\ t \in Seq(Streams) /\ Len(t) = Len(streamIds) + 1 /\ Len(streamIds) \in Nat
        /\ \A k \in 1..Len(streamIds) : t[k] = streamIds[k]
        /\ t[Len(streamIds) + 1] = s
    BY AppendTo DEF StreamIdsInv
  <2> HIDE DEF t
  <2>3. \A j, k \in 1..Len(t) : t[j] = t[k] => j = k
    <3>1. \A j, k \in 1..Len(streamIds) : streamIds[j] = streamIds[k] => j = k
      BY DEF StreamIdsInv, IsInjective
    <3>2. \A k \in 1..Len(t) : k \in 1..Len(streamIds) \/ k = Len(streamIds) + 1
      BY <2>2
    <3> QED BY <2>1, <2>2, <3>1, <3>2
  <2>4. IsInjective(t)
    BY <2>2, <2>3 DEF IsInjective
  <2> QED BY <2>1, <2>2, <2>4 DEF StreamIdsInv
<1> QED BY <1>1, <1>2

(* What every reader is told, counted as a change. *)
LEMMA ToldOfChange ==
  ASSUME IInv, Change, UNCHANGED <<server, seen, losses>>, StreamIdsInv',
         reader' \in [Readers -> Generator],
         \A i \in Readers : /\ Keeps(reader[i], reader'[i]) /\ Waits(reader[i], reader'[i])
                            /\ reader[i].stage # "absent" => reader'[i].stage # "absent"
  PROVE  IInv'
<1> USE DEF IInv
<1>1. changes \in Nat /\ changes' \in Nat /\ changes' > 0 /\ changes' >= changes
      /\ changes' \in 0..MaxChanges
  BY BoundsAssumption DEF CountersInv, Change
<1>2. Grown
  BY SameEntries DEF server
<1>3. EntriesInv' /\ CountersInv'
  BY <1>1 DEF EntriesInv, CountersInv, server
<1>4. ReaderInv' /\ ServerInv'
  BY <1>2, KeptReaders, WaitingReaders DEF server
<1> QED BY <1>3, <1>4

LEMMA AddStreamIdStep ==
  ASSUME NEW s \in Streams, IInv, AddStreamId(s)
  PROVE  IInv'
<1>1. \A i \in Readers : reader[i] \in Generator /\ reader'[i] = Updated(reader[i])
  BY DEF AddStreamId, IInv, ReaderInv
<1>2. \A i \in Readers : /\ Keeps(reader[i], reader'[i]) /\ Waits(reader[i], reader'[i])
                         /\ reader[i].stage # "absent" => reader'[i].stage # "absent"
  BY <1>1, UpdatedOf
<1>3. reader' \in [Readers -> Generator]
  BY <1>2 DEF AddStreamId, Keeps
<1>4. StreamIdsInv'
  BY AddKeyOf DEF AddStreamId, IInv
<1> QED BY <1>2, <1>3, <1>4, ToldOfChange DEF AddStreamId

LEMMA RemoveStreamIdStep ==
  ASSUME NEW s \in Streams, IInv, RemoveStreamId(s)
  PROVE  IInv'
<1>1. \A i \in Readers : reader[i] \in Generator /\ reader'[i] = Updated(reader[i])
  BY DEF RemoveStreamId, IInv, ReaderInv
<1>2. \A i \in Readers : /\ Keeps(reader[i], reader'[i]) /\ Waits(reader[i], reader'[i])
                         /\ reader[i].stage # "absent" => reader'[i].stage # "absent"
  BY <1>1, UpdatedOf
<1>3. reader' \in [Readers -> Generator]
  BY <1>2 DEF RemoveStreamId, Keeps
<1>4. StreamIdsInv'
  BY RemoveFirstOf DEF RemoveStreamId, IInv, StreamIdsInv
<1> QED BY <1>2, <1>3, <1>4, ToldOfChange DEF RemoveStreamId

LEMMA AbortStep ==
  ASSUME IInv, Abort
  PROVE  IInv'
<1>1. \A i \in Readers : reader[i] \in Generator /\ reader'[i] = Cancelled(reader[i])
  BY DEF Abort, IInv, ReaderInv
<1>2. \A i \in Readers : /\ Keeps(reader[i], reader'[i]) /\ Waits(reader[i], reader'[i])
                         /\ reader[i].stage # "absent" => reader'[i].stage # "absent"
  BY <1>1, CancelledOf
<1>3. reader' \in [Readers -> Generator]
  BY <1>2 DEF Abort, Keeps
<1>4. StreamIdsInv'
  BY DEF Abort, IInv, StreamIdsInv
<1> QED BY <1>2, <1>3, <1>4, ToldOfChange DEF Abort

LEMMA GetReadStreamStep ==
  ASSUME NEW i \in Readers, NEW s \in Streams, NEW single \in BOOLEAN,
         IInv, GetReadStream(i, s, single)
  PROVE  IInv'
<1> DEFINE g == Generated(s, single, "created")
<1>1. /\ g \in Generator /\ g.stage = "created" /\ g.batch = <<>> /\ g.active
      /\ g.last = [k \in Streams |-> Latest]
  BY DEF Generated, Generator, Stages, Cursors
<1>2. /\ reader \in [Readers -> Generator] /\ reader[i].stage = "absent"
      /\ reader'[i] = g /\ \A j \in Readers \ {i} : reader'[j] = Updated(reader[j])
      /\ reader' = [j \in Readers |-> reader'[j]]
  BY DEF GetReadStream, IInv, ReaderInv
<1> HIDE DEF g
<1>3. Keeps(reader[i], g) /\ Waits(reader[i], g)
  <2>1. reader[i].batch = <<>> /\ reader[i].last = [k \in Streams |-> Latest]
    BY <1>2 DEF IInv, ReaderInv, ReaderOK
  <2> QED BY <1>1, <1>2, <2>1 DEF Keeps, Waits, Busy
<1>4. \A j \in Readers \ {i} :
        /\ Keeps(reader[j], reader'[j]) /\ Waits(reader[j], reader'[j])
        /\ reader[j].stage # "absent" => reader'[j].stage # "absent"
  BY <1>2, UpdatedOf
<1>5. reader' \in [Readers -> Generator]
  <2>1. \A j \in Readers : reader'[j] \in Generator
    BY <1>1, <1>2, <1>4 DEF Keeps
  <2> QED BY <1>2, <2>1
<1>6. Grown /\ EntriesInv' /\ CountersInv' /\ StreamIdsInv'
  BY SameEntries, AddKeyOf
     DEF GetReadStream, IInv, server, counters, EntriesInv, CountersInv
<1>7. ReaderInv' /\ ServerInv'
  BY <1>2, <1>3, <1>4, <1>5, <1>6, KeptReaders, WaitingReaders DEF GetReadStream, IInv, server
<1> QED BY <1>6, <1>7 DEF IInv

-----------------------------------------------------------------------------
(* iterateStream. *)

(* A step of reader i that moves nothing but its stage. *)
LEMMA OneReaderMoves ==
  ASSUME NEW i \in Readers, IInv, UNCHANGED <<server, streamIds, seen, counters>>,
         NEW h, reader' = [reader EXCEPT ![i] = h], Keeps(reader[i], h), Waits(reader[i], h),
         reader[i].stage # "absent", h.stage # "absent"
  PROVE  IInv'
<1>1. /\ reader \in [Readers -> Generator] /\ h \in Generator
      /\ reader'[i] = h /\ \A j \in Readers \ {i} : reader'[j] = reader[j]
  BY DEF IInv, ReaderInv, Keeps
<1>2. \A j \in Readers : Keeps(reader[j], reader'[j]) /\ Waits(reader[j], reader'[j])
  BY <1>1 DEF Keeps, Waits
<1>3. reader' \in [Readers -> Generator]
  BY <1>1
<1>4. Grown /\ EntriesInv' /\ CountersInv' /\ StreamIdsInv'
  BY SameEntries DEF IInv, server, counters, EntriesInv, CountersInv, StreamIdsInv
<1>5. ReaderInv' /\ ServerInv'
  BY <1>2, <1>3, <1>4, KeptReaders, WaitingReaders DEF IInv, server
<1> QED BY <1>4, <1>5 DEF IInv

LEMMA StagedAs ==
  ASSUME NEW g \in Generator, NEW stage \in Stages
  PROVE  LET h == [g EXCEPT !.stage = stage]
         IN  /\ h \in Generator /\ h.batch = g.batch /\ h.last = g.last
             /\ h.stage = stage /\ h.active = g.active
BY DEF Generator

LEMMA StartStep ==
  ASSUME NEW i \in Readers, IInv, Start(i)
  PROVE  IInv'
<1> DEFINE g == reader[i]
           h == [g EXCEPT !.stage = "deciding"]
<1>1. g \in Generator /\ g.stage = "created" /\ reader' = [reader EXCEPT ![i] = h]
  BY DEF Start, IInv, ReaderInv
<1>2. /\ h \in Generator /\ h.batch = g.batch /\ h.last = g.last
      /\ h.stage = "deciding" /\ h.active = g.active
  BY <1>1, StagedAs DEF Stages
<1> HIDE DEF h
<1>3. Keeps(g, h) /\ Waits(g, h)
  BY <1>1, <1>2 DEF Keeps, Waits, Busy
<1> QED BY <1>1, <1>2, <1>3, OneReaderMoves DEF Start

LEMMA LeaveStep ==
  ASSUME NEW i \in Readers, IInv, Leave(i)
  PROVE  IInv'
<1> DEFINE g == reader[i]
           h == [g EXCEPT !.stage = "ended"]
<1>1. /\ g \in Generator /\ g.stage = "deciding" /\ ~g.active
      /\ reader' = [reader EXCEPT ![i] = h]
  BY DEF Leave, IInv, ReaderInv
<1>2. /\ h \in Generator /\ h.batch = g.batch /\ h.last = g.last
      /\ h.stage = "ended" /\ h.active = g.active
  BY <1>1, StagedAs DEF Stages
<1> HIDE DEF h
<1>3. Keeps(g, h) /\ Waits(g, h)
  BY <1>1, <1>2 DEF Keeps, Waits, Busy
<1> QED BY <1>1, <1>2, <1>3, OneReaderMoves DEF Leave

LEMMA InterruptStep ==
  ASSUME NEW i \in Readers, IInv, Interrupt(i)
  PROVE  IInv'
<1> DEFINE c == Cancelled(reader[i])
           h == [c EXCEPT !.stage = "deciding"]
<1>1. /\ reader[i].stage = "updated" /\ \A j \in Readers : reader[j] \in Generator
      /\ reader'[i] = h /\ \A j \in Readers \ {i} : reader'[j] = Cancelled(reader[j])
      /\ reader' = [j \in Readers |-> reader'[j]]
  BY DEF Interrupt, IInv, ReaderInv
<1>2. c \in Generator /\ c.batch = reader[i].batch /\ c.last = reader[i].last /\ ~c.active
  BY <1>1, CancelledOf DEF Keeps
<1> HIDE DEF c
<1>3. /\ h \in Generator /\ h.batch = c.batch /\ h.last = c.last
      /\ h.stage = "deciding" /\ h.active = c.active
  BY <1>2, StagedAs DEF Stages
<1> HIDE DEF h
<1>4. Keeps(reader[i], h) /\ Waits(reader[i], h)
  BY <1>1, <1>2, <1>3 DEF Keeps, Waits, Busy
<1>5. \A j \in Readers :
        /\ Keeps(reader[j], reader'[j]) /\ Waits(reader[j], reader'[j])
        /\ reader[j].stage # "absent" => reader'[j].stage # "absent"
  BY <1>1, <1>3, <1>4, CancelledOf
<1>6. reader' \in [Readers -> Generator]
  <2>1. \A j \in Readers : reader'[j] \in Generator
    BY <1>5 DEF Keeps
  <2> QED BY <1>1, <2>1
<1>7. Grown /\ EntriesInv' /\ CountersInv' /\ StreamIdsInv'
  BY SameEntries
     DEF Interrupt, IInv, server, counters, EntriesInv, CountersInv, StreamIdsInv
<1>8. ReaderInv' /\ ServerInv'
  BY <1>5, <1>6, <1>7, KeptReaders, WaitingReaders DEF Interrupt, IInv, server
<1> QED BY <1>7, <1>8 DEF IInv

LEMMA SwitchedOf ==
  ASSUME NEW g \in Generator, NEW stage \in Stages
  PROVE  LET h == [Switched(g) EXCEPT !.stage = stage]
         IN  /\ h \in Generator /\ h.batch = g.batch /\ h.last = g.last
             /\ h.stage = stage /\ h.active = g.active
             /\ Switched(g) \in Generator /\ Switched(g).last = g.last
<1> DEFINE f == Switched(g)
<1>1. f \in Generator /\ f.batch = g.batch /\ f.last = g.last /\ f.active = g.active
  BY DEF Switched, Generator
<1> HIDE DEF f
<1>2. LET h == [f EXCEPT !.stage = stage]
      IN  /\ h \in Generator /\ h.batch = f.batch /\ h.last = f.last
          /\ h.stage = stage /\ h.active = f.active
  BY <1>1, StagedAs
<1> QED BY <1>1, <1>2 DEF f

LEMMA XreadOf ==
  ASSUME NEW i \in Readers, NEW g \in Generator, StreamIdsInv
  PROVE  LET x == Xread(i, g)
         IN  /\ x \in XreadType /\ IsInjective(x.keys)
             /\ x.reader = i /\ ~x.started /\ x.from = g.last
<1> DEFINE keys == IF g.single THEN <<g.stream>> ELSE streamIds
           count == IF g.single THEN MaxBatch ELSE MaxEntries
<1>1. keys \in Seq(Streams) /\ IsInjective(keys)
  BY DEF StreamIdsInv, IsInjective, Generator
<1>2. count \in Nat
  BY BatchAssumption, BoundsAssumption
<1>3. Xread(i, g) = [reader |-> i, started |-> FALSE, keys |-> keys, from |-> g.last, count |-> count]
  BY DEF Xread
<1> HIDE DEF keys, count
<1>4. g.last \in [Streams -> Cursors]
  BY DEF Generator
<1> QED BY <1>1, <1>2, <1>3, <1>4 DEF XreadType

LEMMA IssueXreadStep ==
  ASSUME NEW i \in Readers, IInv, IssueXread(i)
  PROVE  IInv'
<1> DEFINE g == reader[i]
           f == Switched(g)
<1>1. g \in Generator /\ g.stage = "deciding" /\ g.active /\ ~Busy(g)
  BY DEF IssueXread, IInv, ReaderInv, Busy
<1>2. CASE ~f.single /\ streamIds = <<>>
  <2> DEFINE h == [f EXCEPT !.stage = "failed"]
  <2>1. reader' = [reader EXCEPT ![i] = h] /\ UNCHANGED <<server, streamIds, seen, counters>>
    BY <1>2 DEF IssueXread, server
  <2>2. /\ h \in Generator /\ h.batch = g.batch /\ h.last = g.last
        /\ h.stage = "failed" /\ h.active = g.active
    BY <1>1, SwitchedOf DEF Stages
  <2> HIDE DEF h, f
  <2>3. Keeps(g, h) /\ Waits(g, h)
    BY <1>1, <2>2 DEF Keeps, Waits
  <2> QED BY <1>1, <2>1, <2>2, <2>3, OneReaderMoves
<1>3. CASE ~(~f.single /\ streamIds = <<>>)
  <2> DEFINE h == [f EXCEPT !.stage = "blocked"]
             x == Xread(i, f)
  <2>1. /\ reader' = [reader EXCEPT ![i] = h] /\ conn' = Append(conn, x)
        /\ UNCHANGED <<entries, streamIds, seen, counters>>
    BY <1>3 DEF IssueXread
  <2>2. /\ h \in Generator /\ h.batch = g.batch /\ h.last = g.last
        /\ h.stage = "blocked" /\ h.active = g.active
        /\ f \in Generator /\ f.last = g.last
    BY <1>1, SwitchedOf DEF Stages
  <2> HIDE DEF h, f
  <2>3. /\ x \in XreadType /\ IsInjective(x.keys)
        /\ x.reader = i /\ ~x.started /\ x.from = g.last
    BY <2>2, XreadOf DEF IInv
  <2> HIDE DEF x
  <2>4. /\ reader'[i] = h /\ \A j \in Readers \ {i} : reader'[j] = reader[j]
        /\ reader' \in [Readers -> Generator]
    BY <2>1, <2>2 DEF IInv, ReaderInv
  <2>5. Grown /\ EntriesInv' /\ CountersInv' /\ StreamIdsInv'
    BY <2>1, SameEntries DEF IInv, counters, EntriesInv, CountersInv, StreamIdsInv
  <2>6. ReaderInv'
    <3>1. \A j \in Readers : Keeps(reader[j], reader'[j])
      BY <1>1, <2>2, <2>4 DEF Keeps, IInv, ReaderInv
    <3> QED BY <2>1, <2>4, <2>5, <3>1, KeptReaders DEF IInv
  <2>8. ServerInv'
    <3> DEFINE n == Len(conn)
               c == Append(conn, x)
    <3>1. /\ c \in Seq(XreadType) /\ Len(c) = n + 1 /\ n \in Nat
          /\ \A k \in 1..n : c[k] = conn[k] /\ conn[k] \in XreadType
          /\ c[n + 1] = x
      <4>1. conn \in Seq(XreadType)
        BY DEF IInv, ServerInv
      <4> QED BY <2>3, <4>1, AppendTo
    <3>0. conn' = c
      BY <2>1
    <3> HIDE DEF c, n
    <3>2. ASSUME NEW k \in 1..n
          PROVE  conn[k].reader \in Readers \ {i} /\ XreadOK(conn[k], reader[conn[k].reader])
      <4> DEFINE y == conn[k]
      <4>1. y \in XreadType /\ XreadOK(y, reader[y.reader])
        BY <3>1 DEF IInv, ServerInv, n
      <4> HIDE DEF y
      <4>2. y.reader \in Readers /\ Busy(reader[y.reader])
        BY <4>1 DEF XreadType, XreadOK
      <4> QED BY <1>1, <4>1, <4>2 DEF y
    <3>3. ASSUME NEW k \in 1..(n + 1) PROVE XreadOK(conn[k], reader[conn[k].reader])'
      <4>1. CASE k = n + 1
        <5>1. \A s \in Streams : h.last[s] <= Len(entries[s])
          BY <2>2 DEF IInv, ReaderInv, ReaderOK
        <5>2. XreadOK(x, h)
          BY <2>2, <2>3, <5>1 DEF XreadOK, Busy
        <5>3. c[k] = x /\ reader'[x.reader] = h /\ entries' = entries
          BY <2>1, <2>3, <2>4, <3>1, <4>1
        <5> QED BY <3>0, <5>2, <5>3 DEF XreadOK, Busy
      <4>2. CASE k \in 1..n
        <5>1. c[k] = conn[k] /\ reader'[c[k].reader] = reader[conn[k].reader]
              /\ entries' = entries
          BY <2>1, <2>4, <3>1, <3>2, <4>2
        <5> QED BY <3>0, <3>2, <4>2, <5>1 DEF XreadOK, Busy
      <4> QED BY <3>1, <4>1, <4>2
    <3>4. ASSUME NEW j \in 1..(n + 1), NEW k \in 1..(n + 1), c[j].reader = c[k].reader
          PROVE  j = k
      <4>1. \A a \in 1..n : c[a].reader = conn[a].reader /\ c[a].reader # i
        BY <3>1, <3>2
      <4>2. c[n + 1].reader = i
        BY <2>3, <3>1
      <4>3. \A a, b \in 1..n : conn[a].reader = conn[b].reader => a = b
        BY DEF IInv, ServerInv, OneXreadPerReader, n
      <4>4. \A a \in 1..(n + 1) : a \in 1..n \/ a = n + 1
        BY <3>1
      <4> QED BY <3>4, <4>1, <4>2, <4>3, <4>4
    <3> QED BY <3>0, <3>1, <3>3, <3>4 DEF ServerInv, OneXreadPerReader
  <2> QED BY <2>5, <2>6, <2>8 DEF IInv
<1> QED BY <1>2, <1>3

(* A step that changes what reader i has, and nothing of the others. *)
LEMMA OneReaderChanges ==
  ASSUME NEW i \in Readers, ReaderInv, Grown,
         NEW h \in Generator, reader' = [reader EXCEPT ![i] = h],
         seen' \in [Readers -> Seq(Positions)],
         \A j \in Readers \ {i} : seen'[j] = seen[j],
         ReaderOK(i)'
  PROVE  ReaderInv'
<1>1. /\ reader' \in [Readers -> Generator] /\ reader'[i] = h
      /\ \A j \in Readers \ {i} : reader'[j] = reader[j] /\ reader[j] \in Generator
  BY DEF ReaderInv
<1>2. ASSUME NEW j \in Readers \ {i} PROVE ReaderOK(j)'
  <2>1. Keeps(reader[j], reader'[j])
    BY <1>1 DEF Keeps
  <2> QED BY <2>1, KeptReader
<1> QED BY <1>1, <1>2 DEF ReaderInv

LEMMA YieldStep ==
  ASSUME NEW i \in Readers, IInv, Yield(i)
  PROVE  IInv'
<1> DEFINE g == reader[i]
           B == g.batch
           stage == IF Len(B) = 1 THEN "deciding" ELSE g.stage
           h == [g EXCEPT !.batch = Tail(B), !.stage = stage]
<1>1. /\ g \in Generator /\ g.stage = "yielding" /\ B # <<>> /\ B \in Seq(Positions)
      /\ seen[i] \in Seq(Positions)
  BY DEF Yield, IInv, ReaderInv, ReaderOK, Generator
<1>2. /\ Head(B) \in Positions /\ Tail(B) \in Seq(Positions)
      /\ Len(B) \in Nat \ {0} /\ Len(Tail(B)) = Len(B) - 1
  BY <1>1, TailOf
<1>3. /\ reader' = [reader EXCEPT ![i] = h]
      /\ seen' = [seen EXCEPT ![i] = Append(@, Head(B))]
      /\ UNCHANGED <<server, streamIds, counters>>
  BY DEF Yield
<1>4. /\ h \in Generator /\ h.batch = Tail(B) /\ h.last = g.last /\ h.active = g.active
      /\ h.stage = stage /\ stage \in {"deciding", "yielding"}
      /\ h.stage = "yielding" <=> Tail(B) # <<>>
  <2>1. stage \in {"deciding", "yielding"}
    BY <1>1
  <2>2. stage = "yielding" <=> Tail(B) # <<>>
    <3> DEFINE t == Tail(B)
    <3>1. t \in Seq(Positions) /\ Len(t) = Len(B) - 1 /\ Len(B) \in Nat \ {0}
      BY <1>2
    <3> HIDE DEF t
    <3>2. t = <<>> <=> Len(t) = 0
      <4>1. t = <<>> => Len(t) = 0
        OBVIOUS
      <4>2. t # <<>> => Len(t) \in Nat \ {0}
        BY <3>1, TailOf
      <4> QED BY <4>1, <4>2
    <3>3. stage = "yielding" <=> t # <<>>
      BY <1>1, <3>1, <3>2
    <3> QED BY <3>3 DEF t
  <2> HIDE DEF stage
  <2>3. /\ h \in Generator /\ h.batch = Tail(B) /\ h.last = g.last
        /\ h.active = g.active /\ h.stage = stage
    BY <1>1, <1>2, <2>1 DEF Generator, Stages
  <2> QED BY <2>1, <2>2, <2>3
<1> HIDE DEF h, stage
<1>5. /\ reader'[i] = h /\ seen'[i] = Append(seen[i], Head(B))
      /\ seen' \in [Readers -> Seq(Positions)]
      /\ \A j \in Readers \ {i} : seen'[j] = seen[j] /\ reader'[j] = reader[j]
  BY <1>2, <1>3 DEF IInv, ReaderInv
<1>6. Grown /\ EntriesInv' /\ CountersInv' /\ StreamIdsInv'
  BY <1>3, SameEntries
     DEF IInv, server, counters, EntriesInv, CountersInv, StreamIdsInv
<1>7. ReaderOK(i)'
  <2>1. Pulled(i)' = Pulled(i)
    <3>1. Append(seen[i], Head(B)) \o Tail(B) = seen[i] \o B
      BY <1>1, HandOn
    <3> QED BY <1>4, <1>5, <3>1 DEF Pulled
  <2>2. ReaderOK(i) /\ entries' = entries
    BY <1>3 DEF IInv, ReaderInv, server
  <2>3. Consecutive(Pulled(i)') /\ LastOf(Pulled(i)', h.last)
    BY <1>4, <2>1, <2>2 DEF ReaderOK
  <2>4. \A s \in Streams : h.last[s] <= Len(entries[s])'
    BY <1>4, <2>2 DEF ReaderOK
  <2>5. h.stage # "absent"
    BY <1>4
  <2> QED BY <1>4, <1>5, <2>3, <2>4, <2>5 DEF ReaderOK
<1>8. ReaderInv'
  BY <1>3, <1>4, <1>5, <1>6, <1>7, OneReaderChanges DEF IInv
<1>9. ServerInv'
  <2>1. \A j \in Readers : Waits(reader[j], reader'[j])
    BY <1>1, <1>4, <1>5 DEF Waits, Busy
  <2> QED BY <1>3, <1>6, <2>1, WaitingReaders DEF IInv, server
<1> QED BY <1>6, <1>8, <1>9 DEF IInv

-----------------------------------------------------------------------------
(* The server. *)

LEMMA XaddStep ==
  ASSUME NEW s \in Streams, NEW kind \in EntryKinds, IInv, Xadd(s, kind)
  PROVE  IInv'
<1>1. /\ entries' = [entries EXCEPT ![s] = Append(@, kind)] /\ Len(entries[s]) < MaxEntries
      /\ entries \in [Streams -> Seq(EntryKinds)] /\ entries[s] \in Seq(EntryKinds)
      /\ UNCHANGED <<conn, streamIds, reader, seen, changes, losses>>
  BY DEF Xadd, IInv, EntriesInv, counters
<1>2. /\ Append(entries[s], kind) \in Seq(EntryKinds)
      /\ Len(Append(entries[s], kind)) = Len(entries[s]) + 1 /\ Len(entries[s]) \in Nat
  BY <1>1, AppendTo
<1>3. /\ entries' \in [Streams -> Seq(EntryKinds)]
      /\ entries'[s] = Append(entries[s], kind)
      /\ \A t \in Streams \ {s} : entries'[t] = entries[t]
  BY <1>1, <1>2
<1>4. \A t \in Streams : Len(entries[t]) \in Nat /\ Len(entries[t]) <= MaxEntries
  BY DEF IInv, EntriesInv
<1>5. ASSUME NEW t \in Streams
      PROVE  /\ Len(entries'[t]) \in Nat /\ Len(entries[t]) <= Len(entries'[t])
             /\ Len(entries'[t]) <= MaxEntries
  <2>1. CASE t = s
    <3> DEFINE n == Len(entries[s])
    <3>1. n \in Nat /\ n < MaxEntries /\ MaxEntries \in Nat /\ Len(entries'[t]) = n + 1
      BY <1>1, <1>2, <1>3, <2>1, BoundsAssumption
    <3> HIDE DEF n
    <3>2. Len(entries'[t]) \in Nat /\ n <= Len(entries'[t]) /\ Len(entries'[t]) <= MaxEntries
      BY <3>1
    <3> QED BY <2>1, <3>2 DEF n
  <2>2. CASE t # s
    BY <1>3, <1>4, <2>2
  <2> QED BY <2>1, <2>2
<1>6. Grown
  BY <1>4, <1>5 DEF Grown
<1>7. EntriesInv' /\ CountersInv' /\ StreamIdsInv'
  BY <1>1, <1>3, <1>5 DEF IInv, EntriesInv, CountersInv, StreamIdsInv
<1>8. ReaderInv' /\ ServerInv'
  <2>1. \A i \in Readers : Keeps(reader[i], reader'[i]) /\ Waits(reader[i], reader'[i])
    BY <1>1 DEF Keeps, Waits, IInv, ReaderInv
  <2>2. reader' \in [Readers -> Generator]
    BY <1>1 DEF IInv, ReaderInv
  <2> QED BY <1>1, <1>6, <2>1, <2>2, KeptReaders, WaitingReaders DEF IInv
<1> QED BY <1>7, <1>8 DEF IInv

(* The XREAD whose turn it is, and what is left when it has had it. *)
LEMMA HeadOf ==
  ASSUME ServerInv, conn # <<>>
  PROVE  /\ Head(conn) = conn[1] /\ Head(conn) \in XreadType /\ Head(conn).reader \in Readers
         /\ XreadOK(Head(conn), reader[Head(conn).reader])
         /\ Len(conn) \in Nat \ {0} /\ conn \in Seq(XreadType)
<1>1. /\ conn \in Seq(XreadType) /\ Head(conn) = conn[1] /\ Head(conn) \in XreadType
      /\ Len(conn) \in Nat \ {0}
  BY TailOf DEF ServerInv
<1>2. XreadOK(conn[1], reader[conn[1].reader])
  BY <1>1 DEF ServerInv
<1> DEFINE x == Head(conn)
<1>3. x \in XreadType
  BY <1>1
<1> HIDE DEF x
<1>4. x.reader \in Readers
  BY <1>3 DEF XreadType
<1> QED BY <1>1, <1>2, <1>4 DEF x

LEMMA TailKept ==
  ASSUME ServerInv, conn # <<>>, conn' = Tail(conn), UNCHANGED entries,
         \A j \in Readers \ {Head(conn).reader} : reader'[j] = reader[j]
  PROVE  ServerInv'
<1> DEFINE n == Len(conn)
           c == Tail(conn)
<1>1. /\ conn' = c /\ c \in Seq(XreadType) /\ n \in Nat \ {0} /\ Len(c) = n - 1
      /\ \A k \in 1..(n - 1) : c[k] = conn[k + 1]
      /\ Head(conn) = conn[1] /\ conn \in Seq(XreadType)
  BY TailOf DEF ServerInv
<1> HIDE DEF c, n
<1>2. \A j, k \in 1..n : conn[j].reader = conn[k].reader => j = k
  BY DEF ServerInv, OneXreadPerReader, n
<1>3. ASSUME NEW k \in 1..(n - 1) PROVE XreadOK(conn[k], reader[conn[k].reader])'
  <2> DEFINE y == conn[k + 1]
  <2>1. k + 1 \in 1..n /\ 1 \in 1..n /\ k + 1 # 1
    BY <1>1
  <2>2. y \in XreadType /\ XreadOK(y, reader[y.reader]) /\ y.reader # Head(conn).reader
    BY <1>1, <1>2, <2>1 DEF ServerInv, n
  <2>3. c[k] = y
    BY <1>1
  <2> HIDE DEF y
  <2>4. y.reader \in Readers \ {Head(conn).reader}
    BY <2>2 DEF XreadType
  <2>5. conn'[k] = y /\ reader'[y.reader] = reader[y.reader]
    BY <1>1, <2>3, <2>4
  <2> QED BY <2>2, <2>5 DEF XreadOK, Busy
<1>4. ASSUME NEW j \in 1..(n - 1), NEW k \in 1..(n - 1), c[j].reader = c[k].reader
      PROVE  j = k
  <2>1. j + 1 \in 1..n /\ k + 1 \in 1..n
    BY <1>1
  <2>2. conn[j + 1].reader = conn[k + 1].reader
    BY <1>1, <1>4
  <2>3. j + 1 = k + 1
    BY <1>2, <2>1, <2>2
  <2> QED BY <1>1, <2>3
<1> QED BY <1>1, <1>3, <1>4 DEF ServerInv, OneXreadPerReader

LEMMA XreadStartsStep ==
  ASSUME IInv, XreadStarts
  PROVE  IInv'
<1> DEFINE x == Head(conn)
           from == [s \in Streams |-> IF x.from[s] = Latest THEN Len(entries[s]) ELSE x.from[s]]
           y == [x EXCEPT !.started = TRUE, !.from = from]
           n == Len(conn)
<1>1. /\ conn # <<>> /\ conn' = [conn EXCEPT ![1] = y]
      /\ UNCHANGED <<entries, streamIds, reader, seen, changes, losses>>
  BY DEF XreadStarts, counters
<1>2. /\ x = conn[1] /\ x \in XreadType /\ XreadOK(x, reader[x.reader])
      /\ n \in Nat \ {0} /\ conn \in Seq(XreadType)
  BY <1>1, HeadOf DEF IInv
<1> HIDE DEF x, n
<1>3. ASSUME NEW s \in Streams
      PROVE  /\ from[s] \in 0..Len(entries[s]) /\ from[s] \in Cursors
             /\ x.from[s] # Latest => from[s] = x.from[s]
  <2>1. Len(entries[s]) \in Nat /\ Len(entries[s]) <= MaxEntries /\ MaxEntries \in Nat
    BY BoundsAssumption DEF IInv, EntriesInv
  <2>2. x.from[s] \in Cursors /\ x.from[s] <= Len(entries[s])
    BY <1>2 DEF XreadType, XreadOK
  <2>3. from[s] = IF x.from[s] = Latest THEN Len(entries[s]) ELSE x.from[s]
    OBVIOUS
  <2> HIDE DEF from
  <2> QED BY <2>1, <2>2, <2>3 DEF Cursors, Latest
<1>4. from \in [Streams -> Cursors]
  BY <1>3
<1> HIDE DEF from
<1>5. /\ y \in XreadType /\ y.reader = x.reader /\ y.keys = x.keys /\ y.from = from
  BY <1>2, <1>4 DEF XreadType
<1> HIDE DEF y
<1>6. XreadOK(y, reader[x.reader])
  <2> DEFINE g == reader[x.reader]
  <2>1. IsInjective(y.keys) /\ Busy(g)
    BY <1>2, <1>5 DEF XreadOK
  <2>2. ASSUME NEW s \in Streams
        PROVE  /\ y.from[s] <= Len(entries[s]) /\ y.from[s] # Latest
               /\ g.stage = "blocked" /\ g.last[s] # Latest => y.from[s] = g.last[s]
    <3>1. from[s] <= Len(entries[s]) /\ from[s] # Latest
      BY <1>3 DEF Latest
    <3>2. g.stage = "blocked" /\ g.last[s] # Latest => x.from[s] = g.last[s]
      BY <1>2 DEF XreadOK
    <3> QED BY <1>3, <1>5, <3>1, <3>2
  <2> QED BY <2>1, <2>2 DEF XreadOK
<1>7. /\ conn' \in Seq(XreadType) /\ Len(conn') = n /\ conn'[1] = y
      /\ \A k \in 1..n : k # 1 => conn'[k] = conn[k]
      /\ \A k \in 1..n : conn'[k].reader = conn[k].reader
  <2> DEFINE c == [conn EXCEPT ![1] = y]
  <2>1. /\ c \in Seq(XreadType) /\ Len(c) = n /\ c[1] = y
        /\ \A k \in 1..n : k # 1 => c[k] = conn[k]
    BY <1>2, <1>5 DEF n
  <2> HIDE DEF c
  <2>2. \A k \in 1..n : c[k].reader = conn[k].reader
    BY <1>2, <1>5, <2>1
  <2> QED BY <1>1, <2>1, <2>2 DEF c
<1>8. ServerInv'
  <2>1. ASSUME NEW k \in 1..n PROVE XreadOK(conn[k], reader[conn[k].reader])'
    <3>1. CASE k = 1
      <4>1. conn'[k] = y /\ reader'[y.reader] = reader[x.reader] /\ entries' = entries
        BY <1>1, <1>5, <1>7, <3>1
      <4> QED BY <1>6, <4>1 DEF XreadOK, Busy
    <3>2. CASE k # 1
      <4>1. conn'[k] = conn[k] /\ reader' = reader /\ entries' = entries
        BY <1>1, <1>7, <3>2
      <4>2. XreadOK(conn[k], reader[conn[k].reader])
        BY DEF IInv, ServerInv, n
      <4> QED BY <4>1, <4>2 DEF XreadOK, Busy
    <3> QED BY <3>1, <3>2
  <2>2. \A j, k \in 1..n : conn[j].reader = conn[k].reader => j = k
    BY DEF IInv, ServerInv, OneXreadPerReader, n
  <2> QED BY <1>7, <2>1, <2>2 DEF ServerInv, OneXreadPerReader
<1>9. EntriesInv' /\ CountersInv' /\ StreamIdsInv' /\ Grown
  BY <1>1, SameEntries DEF IInv, EntriesInv, CountersInv, StreamIdsInv
<1>10. ReaderInv'
  <2>1. /\ \A i \in Readers : Keeps(reader[i], reader'[i])
        /\ reader' \in [Readers -> Generator]
    BY <1>1 DEF Keeps, IInv, ReaderInv
  <2> QED BY <1>1, <1>9, <2>1, KeptReaders DEF IInv
<1> QED BY <1>8, <1>9, <1>10 DEF IInv

(* The reply ends the wait of reader i, which has h instead, or nobody's. *)
LEMMA Answered ==
  ASSUME NEW i \in Readers,
         IInv, conn # <<>>, conn' = Tail(conn), i = Head(conn).reader,
         UNCHANGED <<entries, streamIds, seen, counters>>,
         NEW h,
         reader' = IF reader[i].stage = "blocked" THEN [reader EXCEPT ![i] = h] ELSE reader,
         reader[i].stage = "blocked" =>
           /\ h \in Generator /\ h.active = reader[i].active
           /\ h.stage \in {"deciding", "yielding", "failed"}
           /\ ReaderOK(i)'
  PROVE  IInv'
<1>1. i \in Readers /\ reader \in [Readers -> Generator]
  BY DEF IInv, ReaderInv
<1>2. EntriesInv' /\ CountersInv' /\ StreamIdsInv' /\ Grown
  BY SameEntries DEF IInv, EntriesInv, CountersInv, StreamIdsInv, counters
<1>3. ServerInv'
  <2>1. \A j \in Readers \ {i} : reader'[j] = reader[j]
    BY <1>1
  <2> QED BY <2>1, TailKept DEF IInv
<1>4. CASE reader[i].stage # "blocked"
  <2>1. reader' = reader
    BY <1>4
  <2>2. \A j \in Readers : Keeps(reader[j], reader'[j])
    BY <2>1 DEF Keeps, IInv, ReaderInv
  <2>3. ReaderInv'
    BY <1>1, <1>2, <2>1, <2>2, KeptReaders DEF IInv
  <2> QED BY <1>2, <1>3, <2>3 DEF IInv
<1>5. CASE reader[i].stage = "blocked"
  <2>1. /\ reader' = [reader EXCEPT ![i] = h] /\ h \in Generator
        /\ h.active = reader[i].active /\ h.stage \in {"deciding", "yielding", "failed"}
        /\ ReaderOK(i)'
    BY <1>5
  <2>2. ReaderInv'
    <3>1. /\ seen' \in [Readers -> Seq(Positions)]
          /\ \A j \in Readers \ {i} : seen'[j] = seen[j]
      BY DEF IInv, ReaderInv
    <3> QED BY <1>1, <1>2, <2>1, <3>1, OneReaderChanges DEF IInv
  <2> QED BY <1>2, <1>3, <2>2 DEF IInv
<1> QED BY <1>4, <1>5

(* A reader that goes on, or fails, with what it has had. *)
LEMMA NothingCame ==
  ASSUME NEW i \in Readers, IInv, UNCHANGED <<entries, seen>>, NEW h,
         reader'[i] = h, h \in Generator, h.batch = reader[i].batch, h.last = reader[i].last,
         reader[i].stage = "blocked", h.stage \in {"deciding", "failed"}
  PROVE  ReaderOK(i)'
<1>1. Keeps(reader[i], h)
  BY DEF Keeps
<1> QED BY <1>1, SameEntries, KeptReader DEF IInv

LEMMA XreadTimesOutStep ==
  ASSUME IInv, XreadTimesOut
  PROVE  IInv'
<1>0. conn # <<>>
  BY DEF XreadTimesOut
<1> PICK i \in Readers : i = Head(conn).reader
  BY <1>0, HeadOf DEF IInv
<1> DEFINE h == [reader[i] EXCEPT !.stage = "deciding"]
<1>1. /\ conn # <<>> /\ conn' = Tail(conn) /\ UNCHANGED <<entries, streamIds, seen, counters>>
      /\ reader' = IF reader[i].stage = "blocked"
                     THEN [reader EXCEPT ![i] = h] ELSE reader
  BY DEF XreadTimesOut
<1>2. reader[i] \in Generator /\ reader \in [Readers -> Generator]
  BY DEF IInv, ReaderInv
<1>3. /\ h \in Generator /\ h.batch = reader[i].batch /\ h.last = reader[i].last
      /\ h.stage = "deciding" /\ h.active = reader[i].active
  BY <1>2, StagedAs DEF Stages
<1> HIDE DEF h
<1>4. reader[i].stage = "blocked" => ReaderOK(i)'
  <2> SUFFICES ASSUME reader[i].stage = "blocked" PROVE ReaderOK(i)'
    OBVIOUS
  <2>1. reader'[i] = h
    BY <1>1, <1>2
  <2> QED BY <1>1, <1>2, <1>3, <2>1, NothingCame
<1> QED BY <1>1, <1>3, <1>4, Answered

(* What the XREAD that the server has executed returns. *)
LEMMA HeadReply ==
  ASSUME IInv, conn # <<>>, Head(conn).started
  PROVE  Asks(Head(conn)) /\ Batch(Reply(Head(conn)), Head(conn), Named(Head(conn)))
<1> DEFINE x == Head(conn)
<1>1. x \in XreadType /\ XreadOK(x, reader[x.reader])
  BY HeadOf DEF IInv
<1>2. ASSUME NEW s \in Streams
      PROVE  x.from[s] \in 0..Len(entries[s]) /\ Len(entries[s]) \in 0..MaxEntries
  <2>1. Len(entries[s]) \in Nat /\ Len(entries[s]) <= MaxEntries
    BY DEF IInv, EntriesInv
  <2>2. x.from[s] \in Cursors /\ x.from[s] # Latest /\ x.from[s] <= Len(entries[s])
    BY <1>1 DEF XreadType, XreadOK
  <2> QED BY <2>1, <2>2, BoundsAssumption DEF Cursors, Latest
<1>3. Asks(x)
  BY <1>1, <1>2 DEF Asks, XreadOK
<1> QED BY <1>3, ReplyBatch

LEMMA XreadRepliesStep ==
  ASSUME IInv, XreadReplies
  PROVE  IInv'
<1>0. conn # <<>>
  BY DEF XreadReplies
<1> PICK i \in Readers : i = Head(conn).reader
  BY <1>0, HeadOf DEF IInv
<1> DEFINE x == Head(conn)
           g == reader[i]
           B == Reply(x)
           h == Received(g, B)
<1>1. /\ conn # <<>> /\ conn' = Tail(conn) /\ UNCHANGED <<entries, streamIds, seen, counters>>
      /\ x.started /\ B # <<>>
      /\ reader' = IF g.stage = "blocked" THEN [reader EXCEPT ![i] = h] ELSE reader
  BY DEF XreadReplies
<1>2. /\ g \in Generator /\ reader \in [Readers -> Generator]
      /\ x \in XreadType /\ XreadOK(x, g)
  BY <1>1, HeadOf DEF IInv, ReaderInv
<1>3. g.stage = "blocked" =>
        /\ h \in Generator /\ h.active = g.active /\ h.stage \in {"deciding", "yielding", "failed"}
        /\ ReaderOK(i)'
  <2> SUFFICES ASSUME g.stage = "blocked"
               PROVE  /\ h \in Generator /\ h.active = g.active
                      /\ h.stage \in {"deciding", "yielding", "failed"}
                      /\ ReaderOK(i)'
    OBVIOUS
  <2>1. reader'[i] = h
    BY <1>1, <1>2
  <2>2. CASE Malformed(B)
    <3>1. h = [g EXCEPT !.stage = "failed"]
      BY <2>2 DEF Received
    <3> HIDE DEF h
    <3>2. /\ h \in Generator /\ h.batch = g.batch /\ h.last = g.last
          /\ h.stage = "failed" /\ h.active = g.active
      BY <1>2, <3>1, StagedAs DEF Stages
    <3>3. ReaderOK(i)'
      BY <1>1, <1>2, <2>1, <3>2, NothingCame
    <3> QED BY <3>2, <3>3
  <2>3. CASE ~Malformed(B)
    <3> DEFINE last == Moved(g.last, B)
               p == seen[i]
    <3>1. h = [g EXCEPT !.stage = "yielding", !.batch = B, !.last = last]
      BY <2>3 DEF Received, Moved
    <3>2. Asks(x)
      BY <1>1, HeadReply
    <3>3. Batch(B, x, Named(x)) /\ B \in Seq(Positions)
      BY <1>1, HeadReply DEF Batch
    <3>4. /\ g.last \in [Streams -> Cursors]
          /\ \A s \in Streams : g.last[s] # Latest => x.from[s] = g.last[s]
      BY <1>2 DEF Generator, XreadOK
    <3>5. /\ \A s \in Streams : g.last[s] <= Len(entries[s])
          /\ g.batch = <<>> /\ Pulled(i) = p \o g.batch
          /\ Consecutive(Pulled(i)) /\ LastOf(Pulled(i), g.last)
          /\ p \in Seq(Positions)
      BY <1>2 DEF IInv, ReaderInv, ReaderOK, Pulled
    <3>6. Pulled(i) = p
      BY <3>5
    <3> HIDE DEF h, x, g, B
    <3>7. /\ \A s \in Streams : last[s] \in Cursors /\ last[s] <= Len(entries[s])
          /\ last \in [Streams -> Cursors]
      <4>1. \A s \in Streams : last[s] \in Cursors /\ last[s] <= Len(entries[s])
        BY <3>2, <3>3, <3>4, <3>5, MovedTo
      <4>2. last = [s \in Streams |-> last[s]]
        BY DEF Moved
      <4> HIDE DEF last
      <4> QED BY <4>1, <4>2
    <3>8. Consecutive(p \o B) /\ LastOf(p \o B, last)
      BY <3>2, <3>3, <3>4, <3>5, <3>6, Joined
    <3> HIDE DEF last
    <3>9. /\ h \in Generator /\ h.active = g.active /\ h.stage = "yielding"
          /\ h.batch = B /\ h.last = last
      BY <1>2, <3>1, <3>3, <3>7 DEF Generator, Stages
    <3>10. ReaderOK(i)'
      <4>1. Pulled(i)' = p \o B
        BY <1>1, <2>1, <3>9 DEF Pulled, p
      <4> QED BY <1>1, <2>1, <3>7, <3>8, <3>9, <4>1 DEF ReaderOK
    <3> QED BY <3>9, <3>10
  <2> QED BY <2>2, <2>3
<1> HIDE DEF h
<1> QED BY <1>1, <1>3, Answered

LEMMA ConnectionLostStep ==
  ASSUME IInv, ConnectionLost
  PROVE  IInv'
<1>1. /\ conn' = <<>> /\ losses' = losses + 1 /\ losses < MaxLosses
      /\ UNCHANGED <<entries, streamIds, seen, changes>>
      /\ reader \in [Readers -> Generator]
  BY DEF ConnectionLost, IInv, ReaderInv
<1>2. ASSUME NEW i \in Readers
      PROVE  /\ Keeps(reader[i], reader'[i])
             /\ reader[i].stage # "absent" => reader'[i].stage # "absent"
  <2> DEFINE g == reader[i]
             h == [g EXCEPT !.stage = "failed"]
  <2>1. g \in Generator /\ reader'[i] = IF g.stage = "blocked" THEN h ELSE g
    BY <1>1 DEF ConnectionLost
  <2>2. /\ h \in Generator /\ h.batch = g.batch /\ h.last = g.last
        /\ h.stage = "failed" /\ h.active = g.active
    BY <2>1, StagedAs DEF Stages
  <2> HIDE DEF h
  <2>3. CASE g.stage = "blocked"
    BY <2>1, <2>2, <2>3 DEF Keeps
  <2>4. CASE g.stage # "blocked"
    BY <2>1, <2>4 DEF Keeps
  <2> QED BY <2>3, <2>4
<1>3. reader' \in [Readers -> Generator]
  <2>1. reader' = [i \in Readers |-> reader'[i]]
    BY DEF ConnectionLost
  <2>2. \A i \in Readers : reader'[i] \in Generator
    BY <1>2 DEF Keeps
  <2> QED BY <2>1, <2>2
<1>4. EntriesInv' /\ CountersInv' /\ StreamIdsInv' /\ Grown
  BY <1>1, SameEntries, BoundsAssumption DEF IInv, EntriesInv, CountersInv, StreamIdsInv
<1>5. ReaderInv'
  BY <1>1, <1>2, <1>3, <1>4, KeptReaders DEF IInv
<1>6. ServerInv'
  BY <1>1 DEF ServerInv, OneXreadPerReader
<1> QED BY <1>4, <1>5, <1>6 DEF IInv

-----------------------------------------------------------------------------
LEMMA StutterIInv == IInv /\ UNCHANGED vars => IInv'
<1> SUFFICES ASSUME IInv, UNCHANGED vars PROVE IInv'
  OBVIOUS
<1> USE DEF vars
<1>1. EntriesInv' /\ CountersInv' /\ StreamIdsInv'
  BY DEF IInv, EntriesInv, CountersInv, StreamIdsInv
<1>2. ReaderInv'
  BY DEF IInv, ReaderInv, ReaderOK, Pulled
<1>4. ServerInv'
  BY DEF IInv, ServerInv, XreadOK, Busy, OneXreadPerReader
<1> QED BY <1>1, <1>2, <1>4 DEF IInv

LEMMA NextIInv == IInv /\ [Next]_vars => IInv'
<1> SUFFICES ASSUME IInv, [Next]_vars PROVE IInv'
  OBVIOUS
<1>1. CASE \E s \in Streams : AddStreamId(s)
  BY <1>1, AddStreamIdStep
<1>2. CASE \E s \in Streams : RemoveStreamId(s)
  BY <1>2, RemoveStreamIdStep
<1>3. CASE \E s \in Streams, kind \in EntryKinds : Xadd(s, kind)
  BY <1>3, XaddStep
<1>4. CASE \E s \in Streams, i \in Readers, single \in BOOLEAN : GetReadStream(i, s, single)
  BY <1>4, GetReadStreamStep
<1>5. ASSUME NEW i \in Readers,
             Start(i) \/ Leave(i) \/ IssueXread(i) \/ Interrupt(i) \/ Yield(i)
      PROVE  IInv'
  BY <1>5, StartStep, LeaveStep, IssueXreadStep, InterruptStep, YieldStep
<1>6. CASE Abort
  BY <1>6, AbortStep
<1>7. CASE XreadStarts
  BY <1>7, XreadStartsStep
<1>8. CASE XreadReplies
  BY <1>8, XreadRepliesStep
<1>9. CASE XreadTimesOut
  BY <1>9, XreadTimesOutStep
<1>10. CASE ConnectionLost
  BY <1>10, ConnectionLostStep
<1>11. CASE UNCHANGED vars
  BY <1>11, StutterIInv
<1> QED
  BY <1>1, <1>2, <1>3, <1>4, <1>5, <1>6, <1>7, <1>8, <1>9, <1>10, <1>11 DEF Next

LEMMA Invariance == Spec => []IInv
<1> QED BY InitIInv, NextIInv, PTL DEF Spec

(* In every state of the data source's connection, its keys and its readers *)
(* have the shapes that streamable.ts gives them: the keys of the map are   *)
(* different, a generator holds a batch exactly while it yields, and no     *)
(* cursor is beyond the end of its stream.                                  *)
THEOREM ReaderTypeOK == Spec => []TypeOK
<1>1. IInv => TypeOK
  BY IInvImplies
<1> QED BY <1>1, Invariance, PTL

(* From the first entry on, what a reader yields of a stream is every       *)
(* entry, once and in order: across batches of any size, replies of XREADs  *)
(* of several streams, timeouts, interrupted reads, and the switch from one *)
(* stream to the set.                                                       *)
THEOREM ReaderNoGaps == Spec => []NoGaps
<1>1. IInv => NoGaps
  BY IInvImplies
<1> QED BY <1>1, Invariance, PTL

(* However many readers share the connection, each has at most one XREAD    *)
(* among the commands under way: one that lost the race to an update never  *)
(* issues another.                                                          *)
THEOREM ReaderOneXread == Spec => []OneXreadPerReader
<1>1. IInv => OneXreadPerReader
  BY IInvImplies
<1> QED BY <1>1, Invariance, PTL

-----------------------------------------------------------------------------
(* The inductive invariant.  An update ends the readers it reaches, and the *)
(* reader made by a registration is out of its reach until they have ended. *)

RegistryInv ==
  /\ registered \in 0..Routes
  /\ \A i \in Readers : reader[i].stage = "absent" <=> i > registered
  /\ registered > 0 => streamIds # <<>>

LivesInv ==
  /\ \A i \in Readers : reader[i].stage # "failed"
  /\ \A i \in Readers : reader[i].stage = "updated" => reader[registered].stage = "created"
  /\ registered > 0 =>
       reader[registered].active /\ reader[registered].stage \notin {"ended", "updated"}

(* Nothing is malformed, and what a reader is to yield has been written.    *)
OnlyOk == \A s \in Streams : \A n \in 1..Len(entries[s]) : entries[s][n] = "ok"
Written(B) == \A b \in 1..Len(B) : B[b][2] <= Len(entries[responseStream])
WrittenInv == OnlyOk /\ \A i \in Readers : Written(reader[i].batch)

(* Requests and responses follow their calls. *)
RequestsInv ==
  /\ call \in [Calls -> {"idle", "pending", "answered", "failed"}]
  /\ requests \in Seq(Request)
  /\ \A n \in 1..Len(requests) : call[requests[n].call] # "idle"

ResponsesInv ==
  /\ responses \in Seq(Calls \cup {Foreign}) /\ Len(responses) = Len(entries[responseStream])
  /\ \A n \in 1..Len(responses) : responses[n] \in Calls => call[responses[n]] # "idle"

WorkerInv ==
  /\ worker \in [taken : 0..Len(requests), stage : {"reading", "stuck"}, handles : EventTypes]
  /\ unhandled \subseteq Calls

GInv ==
  /\ IInv
  /\ RegistryInv /\ LivesInv /\ WrittenInv
  /\ RequestsInv /\ ResponsesInv /\ WorkerInv

LEMMA TheStream == responseStream \in Streams /\ \A s \in Streams : s = responseStream
BY StreamsAssumption

LEMMA TheReaders == Routes \in Nat \ {0} /\ Readers = 1..Routes
BY RoutesAssumption

LEMMA GInvImplies == GInv => GatewayTypeOK /\ OneXreadPerReader /\ NewestReaderLives
<1> SUFFICES ASSUME GInv PROVE GatewayTypeOK /\ OneXreadPerReader /\ NewestReaderLives
  OBVIOUS
<1>1. TypeOK /\ OneXreadPerReader
  BY IInvImplies DEF GInv
<1>2. GatewayTypeOK
  BY <1>1 DEF GInv, RegistryInv, RequestsInv, ResponsesInv, WorkerInv, GatewayTypeOK
<1>3. NewestReaderLives
  <2> SUFFICES ASSUME registered > 0
               PROVE  /\ reader[registered].active
                      /\ reader[registered].stage \notin {"ended", "failed"}
    BY DEF NewestReaderLives
  <2>1. registered \in Readers
    BY TheReaders DEF GInv, RegistryInv
  <2> QED BY <2>1 DEF GInv, LivesInv
<1> QED BY <1>1, <1>2, <1>3

LEMMA InitGInv == GatewayInit => GInv
<1> SUFFICES ASSUME GatewayInit PROVE GInv
  OBVIOUS
<1>1. IInv
  BY InitIInv DEF GatewayInit
<1>2. /\ \A i \in Readers : /\ reader[i].stage = "absent" /\ reader[i].batch = <<>>
      /\ \A s \in Streams : entries[s] = <<>>
      /\ registered = 0
  BY DEF GatewayInit, Init, Generated
<1>3. RegistryInv /\ LivesInv
  <2>1. \A i \in Readers : i > 0
    BY TheReaders
  <2> QED BY <1>2, <2>1, TheReaders DEF RegistryInv, LivesInv
<1>4. WrittenInv
  BY <1>2 DEF WrittenInv, OnlyOk, Written
<1>5. RequestsInv /\ ResponsesInv
  <2>1. Len(entries[responseStream]) = 0
    BY <1>2, TheStream
  <2> QED BY <2>1 DEF GatewayInit, RequestsInv, ResponsesInv
<1>6. WorkerInv
  BY DEF GatewayInit, WorkerInv
<1> QED BY <1>1, <1>3, <1>4, <1>5, <1>6 DEF GInv

-----------------------------------------------------------------------------
(* Every step of the gateway is one of its data source. *)

LEMMA NextIsReaderNext ==
  ASSUME GInv, [GatewayNext]_gVars
  PROVE  [Next]_vars
<1>1. CASE Register
  <2>1. registered + 1 \in Readers
    BY <1>1, TheReaders DEF Register, GInv, RegistryInv
  <2>2. GetReadStream(registered + 1, responseStream, TRUE)
    BY <1>1 DEF Register
  <2> QED BY <2>1, <2>2, TheStream DEF Next
<1>2. ASSUME NEW i \in Readers, Resume(i) \/ ReaderStep(i) \/ Hear(i) PROVE Next
  BY <1>2 DEF Resume, ReaderStep, Hear, Next
<1>3. ASSUME NEW c \in Calls, Dispatch(c) \/ TimesOut(c) PROVE UNCHANGED vars
  BY <1>3 DEF Dispatch, TimesOut
<1>4. CASE WorkerHandles \/ AnotherIsAnswered
  BY <1>4, TheStream, KindAssumption DEF WorkerHandles, AnotherIsAnswered, Responds, Next
<1>5. CASE WorkerHasNoHandler
  BY <1>5 DEF WorkerHasNoHandler
<1>6. CASE RedisStep
  BY <1>6 DEF RedisStep, Next
<1>7. CASE UNCHANGED gVars
  BY <1>7 DEF gVars
<1> QED BY <1>1, <1>2, <1>3, <1>4, <1>5, <1>6, <1>7 DEF GatewayNext

-----------------------------------------------------------------------------
(* What a step of one reader may do. *)

(* Reader i, which existed, moves on to h. *)
Moves(i, h) ==
  /\ reader' = [reader EXCEPT ![i] = h]
  /\ reader[i].stage \notin {"absent", "updated"}
  /\ h.stage \notin {"absent", "failed", "updated", "created"}
  /\ i = registered => h.active /\ h.stage # "ended"
  /\ reader[i].stage = "created" => \A j \in Readers : reader[j].stage # "updated"

LEMMA MovesLive ==
  ASSUME NEW i \in Readers, NEW h, GInv, Moves(i, h), UNCHANGED <<registered, streamIds>>
  PROVE  RegistryInv' /\ LivesInv'
<1>1. /\ reader'[i] = h /\ \A j \in Readers \ {i} : reader'[j] = reader[j]
  BY DEF GInv, IInv, ReaderInv, Moves
<1>2. RegistryInv'
  BY <1>1 DEF GInv, RegistryInv, Moves
<1>3. registered > 0 => registered \in Readers
  BY TheReaders DEF GInv, RegistryInv
<1>4. \A j \in Readers : reader'[j].stage # "failed"
  BY <1>1 DEF GInv, LivesInv, Moves
<1>5. ASSUME NEW j \in Readers, reader'[j].stage = "updated"
      PROVE  reader'[registered].stage = "created"
  <2>1. j # i /\ reader[j].stage = "updated"
    BY <1>1, <1>5 DEF Moves
  <2>2. reader[registered].stage = "created" /\ registered # i
    BY <2>1 DEF GInv, LivesInv, Moves
  <2>3. registered \in Readers
    BY <2>1, <1>3, TheReaders DEF GInv, RegistryInv
  <2> QED BY <1>1, <2>2, <2>3
<1>6. registered > 0 =>
        reader'[registered].active /\ reader'[registered].stage \notin {"ended", "updated"}
  BY <1>1, <1>3 DEF GInv, LivesInv, Moves
<1> QED BY <1>2, <1>4, <1>5, <1>6 DEF LivesInv

LEMMA ReadersStand ==
  ASSUME GInv, UNCHANGED <<registered, streamIds, reader>>
  PROVE  RegistryInv' /\ LivesInv'
BY DEF GInv, RegistryInv, LivesInv

(* What has been written stays written. *)
LEMMA StaysWritten ==
  ASSUME GInv, UNCHANGED entries,
         \A i \in Readers : \/ reader'[i].batch = reader[i].batch
                            \/ Written(reader'[i].batch)
  PROVE  WrittenInv'
<1>1. OnlyOk'
  BY DEF GInv, WrittenInv, OnlyOk
<1>2. responseStream' = responseStream
  BY DEF responseStream, producerKey
<1>3. \A i \in Readers : Written(reader[i].batch)'
  BY <1>2 DEF GInv, WrittenInv, Written
<1> QED BY <1>1, <1>3 DEF WrittenInv

LEMMA MovesWritten ==
  ASSUME NEW i \in Readers, NEW h, GInv, reader' = [reader EXCEPT ![i] = h], UNCHANGED entries,
         h.batch = reader[i].batch \/ Written(h.batch)
  PROVE  WrittenInv'
<1>1. reader'[i] = h /\ \A j \in Readers \ {i} : reader'[j] = reader[j]
  BY DEF GInv, IInv, ReaderInv
<1>2. \A j \in Readers : reader'[j].batch = reader[j].batch \/ Written(reader'[j].batch)
  BY <1>1
<1> QED BY <1>2, StaysWritten

LEMMA RouteStands ==
  ASSUME GInv, UNCHANGED <<entries, call, requests, responses, worker, unhandled>>
  PROVE  RequestsInv' /\ ResponsesInv' /\ WorkerInv'
<1>1. responseStream' = responseStream
  BY DEF responseStream, producerKey
<1>2. RequestsInv'
  BY DEF GInv, RequestsInv
<1>3. ResponsesInv'
  BY <1>1 DEF GInv, ResponsesInv
<1>4. WorkerInv'
  BY DEF GInv, WorkerInv
<1> QED BY <1>2, <1>3, <1>4

-----------------------------------------------------------------------------
(* The steps of the readers. *)

LEMMA ReaderFacts ==
  ASSUME GInv
  PROVE  /\ reader \in [Readers -> Generator]
         /\ \A i \in Readers : reader[i].stage # "absent" => registered > 0
         /\ registered > 0 => registered \in Readers
BY TheReaders DEF GInv, IInv, ReaderInv, RegistryInv

LEMMA ResumeStep ==
  ASSUME NEW i \in Readers, GInv, Resume(i)
  PROVE  RegistryInv' /\ LivesInv' /\ WrittenInv'
<1> DEFINE g == reader[i]
           h == [g EXCEPT !.stage = "deciding"]
<1>1. /\ g \in Generator /\ g.stage = "created" /\ reader' = [reader EXCEPT ![i] = h]
      /\ \A j \in Readers : reader[j].stage # "updated"
      /\ UNCHANGED <<entries, streamIds, registered>>
  BY ReaderFacts DEF Resume, Start, server, gatewayVars
<1>2. h.batch = g.batch /\ h.stage = "deciding" /\ h.active = g.active
  BY <1>1, StagedAs DEF Stages
<1> HIDE DEF h
<1>3. i = registered => g.active
  BY <1>1, ReaderFacts DEF GInv, LivesInv
<1>4. Moves(i, h)
  BY <1>1, <1>2, <1>3 DEF Moves
<1> QED BY <1>1, <1>2, <1>4, MovesLive, MovesWritten

LEMMA LeaveMoves ==
  ASSUME NEW i \in Readers, GInv, Leave(i), UNCHANGED registered
  PROVE  RegistryInv' /\ LivesInv' /\ WrittenInv'
<1> DEFINE g == reader[i]
           h == [g EXCEPT !.stage = "ended"]
<1>1. /\ g \in Generator /\ g.stage = "deciding" /\ ~g.active
      /\ reader' = [reader EXCEPT ![i] = h] /\ UNCHANGED <<entries, streamIds>>
  BY ReaderFacts DEF Leave, server
<1>2. h.batch = g.batch /\ h.stage = "ended"
  BY <1>1, StagedAs DEF Stages
<1> HIDE DEF h
<1>3. i # registered
  BY <1>1, ReaderFacts DEF GInv, LivesInv
<1>4. Moves(i, h)
  BY <1>1, <1>2, <1>3 DEF Moves
<1> QED BY <1>1, <1>2, <1>4, MovesLive, MovesWritten

LEMMA IssueXreadMoves ==
  ASSUME NEW i \in Readers, GInv, IssueXread(i), UNCHANGED registered
  PROVE  RegistryInv' /\ LivesInv' /\ WrittenInv'
<1> DEFINE g == reader[i]
           h == [Switched(g) EXCEPT !.stage = "blocked"]
<1>1. g \in Generator /\ g.stage = "deciding" /\ g.active /\ streamIds # <<>>
  BY ReaderFacts DEF IssueXread, GInv, RegistryInv
<1>2. reader' = [reader EXCEPT ![i] = h] /\ UNCHANGED <<entries, streamIds>>
  BY <1>1 DEF IssueXread
<1>3. h.batch = g.batch /\ h.stage = "blocked" /\ h.active = g.active
  BY <1>1, SwitchedOf DEF Stages
<1> HIDE DEF h
<1>4. Moves(i, h)
  BY <1>1, <1>2, <1>3 DEF Moves
<1> QED BY <1>2, <1>3, <1>4, MovesLive, MovesWritten

LEMMA InterruptMoves ==
  ASSUME NEW i \in Readers, GInv, Interrupt(i), UNCHANGED registered
  PROVE  RegistryInv' /\ LivesInv' /\ WrittenInv'
<1> DEFINE c == Cancelled(reader[i])
           h == [c EXCEPT !.stage = "deciding"]
<1>1. /\ reader[i].stage = "updated" /\ \A j \in Readers : reader[j] \in Generator
      /\ reader'[i] = h /\ \A j \in Readers \ {i} : reader'[j] = Cancelled(reader[j])
      /\ UNCHANGED <<entries, streamIds>>
  BY ReaderFacts DEF Interrupt, server
<1>2. c \in Generator /\ c.batch = reader[i].batch
  BY <1>1, CancelledOf DEF Keeps
<1> HIDE DEF c
<1>3. h.batch = reader[i].batch /\ h.stage = "deciding"
  BY <1>2, StagedAs DEF Stages
<1> HIDE DEF h
<1>4. \A j \in Readers \ {i} : /\ reader'[j].batch = reader[j].batch
                               /\ reader'[j].stage = reader[j].stage
  BY <1>1, CancelledOf DEF Keeps
<1>5. /\ registered \in Readers \ {i} /\ reader[registered].stage = "created"
      /\ reader'[registered] = reader[registered]
  <2>1. registered \in Readers \ {i} /\ reader[registered].stage = "created"
    BY <1>1, ReaderFacts DEF GInv, LivesInv
  <2>2. Cancelled(reader[registered]) = reader[registered]
    BY <2>1 DEF Cancelled
  <2> QED BY <1>1, <2>1, <2>2
<1>6. RegistryInv'
  BY <1>1, <1>3, <1>4 DEF GInv, RegistryInv
<1>7. LivesInv'
  BY <1>1, <1>3, <1>4, <1>5 DEF GInv, LivesInv
<1>8. WrittenInv'
  <2>1. \A j \in Readers : reader'[j].batch = reader[j].batch
    BY <1>1, <1>3, <1>4
  <2> QED BY <1>1, <2>1, StaysWritten
<1> QED BY <1>6, <1>7, <1>8

LEMMA YieldMoves ==
  ASSUME NEW i \in Readers, GInv, Yield(i), UNCHANGED registered
  PROVE  /\ RegistryInv' /\ LivesInv' /\ WrittenInv'
         /\ Head(reader[i].batch)[2] \in 1..Len(entries[responseStream])
<1> DEFINE g == reader[i]
           B == g.batch
           stage == IF Len(B) = 1 THEN "deciding" ELSE g.stage
           h == [g EXCEPT !.batch = Tail(B), !.stage = stage]
<1>1. /\ g \in Generator /\ g.stage = "yielding" /\ B # <<>> /\ B \in Seq(Positions)
      /\ reader' = [reader EXCEPT ![i] = h] /\ UNCHANGED <<entries, streamIds>>
  BY ReaderFacts DEF Yield, server, GInv, IInv, ReaderInv, ReaderOK, Generator
<1>2. /\ Head(B) = B[1] /\ Head(B) \in Positions /\ Tail(B) \in Seq(Positions)
      /\ Len(B) \in Nat \ {0} /\ Len(Tail(B)) = Len(B) - 1
      /\ \A b \in 1..(Len(B) - 1) : Tail(B)[b] = B[b + 1]
  BY <1>1, TailOf
<1>3. /\ h.batch = Tail(B) /\ h.active = g.active /\ h.stage \in {"deciding", "yielding"}
  BY <1>1 DEF Generator
<1>4. Written(B)
  BY DEF GInv, WrittenInv
<1> HIDE DEF h
<1>5. Written(h.batch)
  <2> DEFINE t == Tail(B)
             n == Len(B)
  <2>1. n \in Nat \ {0} /\ Len(t) = n - 1 /\ \A b \in 1..(n - 1) : t[b] = B[b + 1]
    BY <1>2
  <2>2. \A b \in 1..n : B[b][2] <= Len(entries[responseStream])
    BY <1>4 DEF Written
  <2> HIDE DEF t, n
  <2>3. ASSUME NEW b \in 1..Len(t) PROVE t[b][2] <= Len(entries[responseStream])
    <3>1. b + 1 \in 1..n /\ t[b] = B[b + 1]
      BY <2>1
    <3> QED BY <2>2, <3>1
  <2> QED BY <1>3, <2>3 DEF Written, t
<1>6. i = registered => g.active
  BY <1>1, ReaderFacts DEF GInv, LivesInv
<1>7. Moves(i, h)
  BY <1>1, <1>3, <1>6 DEF Moves
<1>8. Head(B)[2] \in 1..Len(entries[responseStream])
  <2>1. Head(B)[2] \in 1..MaxEntries /\ Head(B)[2] <= Len(entries[responseStream])
    BY <1>2, <1>4 DEF Positions, Written
  <2>2. Len(entries[responseStream]) \in Nat
    BY TheStream DEF GInv, IInv, EntriesInv
  <2> QED BY <2>1, <2>2
<1> QED BY <1>1, <1>5, <1>7, <1>8, MovesLive, MovesWritten

-----------------------------------------------------------------------------
(* The steps of the server. *)

LEMMA XreadTimesOutMoves ==
  ASSUME GInv, XreadTimesOut, UNCHANGED registered
  PROVE  RegistryInv' /\ LivesInv' /\ WrittenInv'
<1>0. conn # <<>>
  BY DEF XreadTimesOut
<1> PICK i \in Readers : i = Head(conn).reader
  BY <1>0, HeadOf DEF GInv, IInv
<1> DEFINE g == reader[i]
           h == [g EXCEPT !.stage = "deciding"]
<1>1. /\ g \in Generator /\ UNCHANGED <<entries, streamIds>>
      /\ reader' = IF g.stage = "blocked" THEN [reader EXCEPT ![i] = h] ELSE reader
  BY ReaderFacts DEF XreadTimesOut
<1>2. h.batch = g.batch /\ h.stage = "deciding" /\ h.active = g.active
  BY <1>1, StagedAs DEF Stages
<1> HIDE DEF h
<1>3. CASE g.stage = "blocked"
  <2>1. i = registered => g.active
    BY <1>3, ReaderFacts DEF GInv, LivesInv
  <2>2. Moves(i, h)
    BY <1>1, <1>2, <1>3, <2>1 DEF Moves
  <2> QED BY <1>1, <1>2, <1>3, <2>2, MovesLive, MovesWritten
<1>4. CASE g.stage # "blocked"
  <2>1. reader' = reader
    BY <1>1, <1>4
  <2> QED BY <1>1, <2>1, ReadersStand, StaysWritten
<1> QED BY <1>3, <1>4

LEMMA XreadRepliesMoves ==
  ASSUME GInv, XreadReplies, UNCHANGED registered
  PROVE  RegistryInv' /\ LivesInv' /\ WrittenInv'
<1>0. conn # <<>> /\ Head(conn).started
  BY DEF XreadReplies
<1> PICK i \in Readers : i = Head(conn).reader
  BY <1>0, HeadOf DEF GInv, IInv
<1> DEFINE g == reader[i]
           B == Reply(Head(conn))
           h == Received(g, B)
<1>1. /\ g \in Generator /\ UNCHANGED <<entries, streamIds>>
      /\ reader' = IF g.stage = "blocked" THEN [reader EXCEPT ![i] = h] ELSE reader
  BY ReaderFacts DEF XreadReplies
<1>2. Batch(B, Head(conn), Named(Head(conn)))
  BY <1>0, HeadReply DEF GInv
<1> HIDE DEF B
<1>3. \A b \in 1..Len(B) : /\ B[b][1] \in Streams /\ B[b][2] \in 1..Len(entries[B[b][1]])
  <2>1. B \in Seq(Positions) /\ \A b \in 1..Len(B) : B[b][2] <= Len(entries[B[b][1]])
    BY <1>2 DEF Batch
  <2>2. \A b \in 1..Len(B) : B[b][1] \in Streams /\ B[b][2] \in 1..MaxEntries
    BY <2>1 DEF Positions
  <2>3. \A s \in Streams : Len(entries[s]) \in Nat
    BY DEF GInv, IInv, EntriesInv
  <2> QED BY <2>1, <2>2, <2>3
<1>4. Written(B)
  <2>1. \A b \in 1..Len(B) : B[b][1] = responseStream
    BY <1>3, TheStream
  <2> QED BY <1>3, <2>1 DEF Written
<1>5. ~Malformed(B)
  BY <1>3 DEF Malformed, GInv, WrittenInv, OnlyOk
<1>6. h.batch = B /\ h.stage = "yielding" /\ h.active = g.active
  BY <1>1, <1>5 DEF Received, Generator
<1> HIDE DEF h
<1>7. CASE g.stage = "blocked"
  <2>1. i = registered => g.active
    BY <1>7, ReaderFacts DEF GInv, LivesInv
  <2>2. Moves(i, h)
    BY <1>1, <1>6, <1>7, <2>1 DEF Moves
  <2> QED BY <1>1, <1>4, <1>6, <1>7, <2>2, MovesLive, MovesWritten
<1>8. CASE g.stage # "blocked"
  <2>1. reader' = reader
    BY <1>1, <1>8
  <2> QED BY <1>1, <2>1, ReadersStand, StaysWritten
<1> QED BY <1>7, <1>8

-----------------------------------------------------------------------------
(* The steps of the route and of the worker. *)

LEMMA RegisterStep ==
  ASSUME GInv, Register
  PROVE  RegistryInv' /\ LivesInv' /\ WrittenInv'
<1> DEFINE r == registered + 1
           g == Generated(responseStream, TRUE, "created")
<1>1. /\ registered < Routes /\ registered' = r
      /\ \A i \in Readers : reader[i].stage \notin {"created", "deciding", "updated"}
      /\ reader[r].stage = "absent" /\ AddKey(responseStream) /\ UNCHANGED entries
      /\ reader' = [j \in Readers |-> IF j = r THEN g ELSE Updated(reader[j])]
  BY DEF Register, GetReadStream, server
<1>2. /\ r \in 1..Routes /\ r \in Readers /\ registered \in Nat
      /\ \A i \in Readers : i > r <=> (i > registered /\ i # r)
  BY <1>1, TheReaders DEF GInv, RegistryInv
<1>3. g.stage = "created" /\ g.active /\ g.batch = <<>>
  BY DEF Generated
<1> HIDE DEF r, g
<1>4. /\ reader'[r] = g
      /\ \A j \in Readers \ {r} : /\ reader'[j] = Updated(reader[j])
                                  /\ reader[j] \in Generator
  BY <1>1, <1>2, ReaderFacts
<1>5. ASSUME NEW j \in Readers \ {r}
      PROVE  /\ reader'[j].stage = "absent" <=> reader[j].stage = "absent"
             /\ reader'[j].stage # "failed"
             /\ reader'[j].batch = reader[j].batch
  <2>1. Keeps(reader[j], reader'[j]) /\ (reader[j].stage # "absent" => reader'[j].stage # "absent")
    BY <1>4, UpdatedOf
  <2>2. reader[j].stage # "failed"
    BY DEF GInv, LivesInv
  <2> DEFINE f == reader[j]
             u == [f EXCEPT !.fresh = TRUE]
             v == [f EXCEPT !.fresh = TRUE, !.stage = "updated"]
  <2>3. u.stage = f.stage /\ v.stage = "updated"
    BY <1>4 DEF Generator
  <2>4. reader'[j] \in {u, v, f}
    BY <1>4 DEF Updated
  <2> HIDE DEF u, v
  <2>5. reader'[j].stage \in {f.stage, "updated"}
    BY <2>3, <2>4
  <2>6. /\ reader'[j].stage = "absent" => f.stage = "absent"
        /\ f.stage = "absent" => reader'[j].stage = "absent"
        /\ reader'[j].batch = f.batch
    <3>1. reader'[j] = Updated(f)
      BY <1>4
    <3>2. f.stage = "absent" => Updated(f) = f
      BY DEF Updated
    <3> QED BY <2>1, <3>1, <3>2 DEF Keeps
  <2> QED BY <2>2, <2>5, <2>6
<1>6. streamIds' # <<>>
  <2>1. streamIds \in Seq(Streams)
    BY DEF GInv, IInv, StreamIdsInv
  <2>2. CASE Contains(streamIds, responseStream)
    BY <1>1, <2>2 DEF AddKey, Contains
  <2>3. CASE ~Contains(streamIds, responseStream)
    <3>1. streamIds' = Append(streamIds, responseStream)
      BY <1>1, <2>3 DEF AddKey
    <3>2. Len(Append(streamIds, responseStream)) = Len(streamIds) + 1 /\ Len(streamIds) \in Nat
      BY <2>1, TheStream, AppendTo
    <3>3. Len(<<>>) = 0
      OBVIOUS
    <3> QED BY <3>1, <3>2, <3>3
  <2> QED BY <2>2, <2>3
<1>7. RegistryInv'
  <2>1. \A j \in Readers \ {r} : reader[j].stage = "absent" <=> j > registered
    BY DEF GInv, RegistryInv
  <2>2. \A j \in Readers : reader'[j].stage = "absent" <=> j > r
    BY <1>2, <1>3, <1>4, <1>5, <2>1
  <2>3. registered' \in 0..Routes
    BY <1>1, <1>2
  <2> QED BY <1>1, <1>6, <2>2, <2>3 DEF RegistryInv
<1>8. LivesInv'
  BY <1>1, <1>3, <1>4, <1>5 DEF LivesInv
<1>9. WrittenInv'
  <2>1. Written(g.batch)
    BY <1>3 DEF Written
  <2>2. \A j \in Readers : reader'[j].batch = reader[j].batch \/ Written(reader'[j].batch)
    BY <1>4, <1>5, <2>1
  <2> QED BY <1>1, <2>2, StaysWritten
<1> QED BY <1>7, <1>8, <1>9

LEMMA RespondsStep ==
  ASSUME NEW to \in Calls \cup {Foreign}, GInv, Responds(to),
         to \in Calls => call[to] # "idle", UNCHANGED <<registered, call>>
  PROVE  /\ RegistryInv' /\ LivesInv' /\ WrittenInv' /\ ResponsesInv'
         /\ replied' = replied \cup ({to} \cap Calls)
<1>1. /\ entries' = [entries EXCEPT ![responseStream] = Append(@, "ok")]
      /\ UNCHANGED <<streamIds, reader>> /\ responses' = Append(responses, to)
      /\ responseStream' = responseStream
  BY DEF Responds, Xadd, responseStream, producerKey
<1> DEFINE q == entries[responseStream]
           r == Append(q, "ok")
           a == responses
           b == Append(a, to)
<1>2. q \in Seq(EntryKinds) /\ a \in Seq(Calls \cup {Foreign}) /\ Len(a) = Len(q)
  BY TheStream DEF GInv, IInv, EntriesInv, ResponsesInv
<1> HIDE DEF q, a
<1>3. /\ Len(r) = Len(q) + 1 /\ Len(q) \in Nat
      /\ \A n \in 1..Len(q) : r[n] = q[n]
      /\ r[Len(q) + 1] = "ok"
  BY <1>2, KindAssumption, AppendTo
<1>4. /\ b \in Seq(Calls \cup {Foreign}) /\ Len(b) = Len(a) + 1
      /\ \A n \in 1..Len(a) : b[n] = a[n]
      /\ b[Len(a) + 1] = to
  BY <1>2, AppendTo
<1> HIDE DEF r, b
<1>5. entries'[responseStream] = r /\ \A s \in Streams : entries'[s] = r
  BY <1>1, TheStream DEF GInv, IInv, EntriesInv, q, r
<1>6. RegistryInv' /\ LivesInv'
  BY <1>1, ReadersStand
<1>7. WrittenInv'
  <2>1. \A n \in 1..Len(r) : r[n] = "ok"
    <3>1. \A n \in 1..Len(q) : q[n] = "ok"
      BY TheStream DEF GInv, WrittenInv, OnlyOk, q
    <3>2. \A n \in 1..Len(r) : n \in 1..Len(q) \/ n = Len(q) + 1
      BY <1>3
    <3> QED BY <1>3, <3>1, <3>2
  <2>2. ASSUME NEW i \in Readers, NEW e \in 1..Len(reader[i].batch)
        PROVE  reader[i].batch[e][2] <= Len(r)
    <3> DEFINE B == reader[i].batch
    <3>1. B \in Seq(Positions)
      BY ReaderFacts DEF Generator
    <3>2. B[e][2] \in Int
      BY <3>1 DEF Positions
    <3>3. B[e][2] <= Len(q)
      BY DEF GInv, WrittenInv, Written, q
    <3> HIDE DEF B
    <3>4. B[e][2] <= Len(r)
      BY <1>3, <3>2, <3>3
    <3> QED BY <3>4 DEF B
  <2> QED BY <1>1, <1>5, <2>1, <2>2 DEF WrittenInv, OnlyOk, Written
<1>8. \A n \in 1..Len(b) : (n \in 1..Len(a) /\ b[n] = a[n]) \/ (n = Len(a) + 1 /\ b[n] = to)
  BY <1>2, <1>3, <1>4
<1>9. ResponsesInv'
  <2>1. \A n \in 1..Len(b) : b[n] \in Calls => call[b[n]] # "idle"
    BY <1>8 DEF GInv, ResponsesInv, a
  <2>2. Len(b) = Len(r)
    BY <1>2, <1>3, <1>4
  <2> QED BY <1>1, <1>4, <1>5, <2>1, <2>2 DEF ResponsesInv, a, b
<1>10. replied' = replied \cup ({to} \cap Calls)
  <2>1. ASSUME NEW c \in Calls
        PROVE  (\E n \in 1..Len(b) : b[n] = c) <=> ((\E n \in 1..Len(a) : a[n] = c) \/ c = to)
    <3>1. Len(a) + 1 \in 1..Len(b) /\ \A n \in 1..Len(a) : n \in 1..Len(b)
      BY <1>2, <1>3, <1>4
    <3> QED BY <1>4, <1>8, <3>1
  <2>2. responses' = b /\ responses = a
    BY <1>1 DEF a, b
  <2>3. replied' = {c \in Calls : \E n \in 1..Len(b) : b[n] = c}
    BY <2>2 DEF replied, Contains
  <2>4. replied = {c \in Calls : \E n \in 1..Len(a) : a[n] = c}
    BY <2>2 DEF replied, Contains
  <2> QED BY <2>1, <2>3, <2>4
<1> QED BY <1>6, <1>7, <1>9, <1>10

(* The request that the worker takes. *)
LEMMA NextRequestOf ==
  ASSUME GInv, worker.taken < Len(requests)
  PROVE  /\ NextRequest.call \in Calls /\ call[NextRequest.call] # "idle"
         /\ worker.taken + 1 \in 1..Len(requests)
<1> DEFINE n == worker.taken + 1
           q == NextRequest
<1>1. worker.taken \in Nat /\ Len(requests) \in Nat
  BY DEF GInv, WorkerInv, RequestsInv
<1>2. n \in 1..Len(requests)
  BY <1>1
<1>3. q \in Request /\ call[q.call] # "idle"
  BY <1>2 DEF GInv, RequestsInv, NextRequest
<1> HIDE DEF q
<1>4. q.call \in Calls
  BY <1>3 DEF Request
<1> QED BY <1>2, <1>3, <1>4 DEF q

LEMMA TakesOf ==
  ASSUME GInv, NEW stage \in {"reading", "stuck"}, Takes(stage), UNCHANGED requests
  PROVE  worker' \in [taken : 0..Len(requests'), stage : {"reading", "stuck"}, handles : EventTypes]
<1>1. worker.taken + 1 \in 0..Len(requests)
  BY NextRequestOf DEF Takes
<1> QED BY <1>1 DEF Takes, GInv, WorkerInv

LEMMA DispatchStep ==
  ASSUME NEW c \in Calls, GInv, Dispatch(c)
  PROVE  RequestsInv' /\ ResponsesInv' /\ WorkerInv'
<1> DEFINE r == [call |-> c, type |-> WireType("resp", messageType)]
           a == requests
           b == Append(a, r)
<1>1. /\ call' = [call EXCEPT ![c] = "pending"] /\ call[c] = "idle" /\ requests' = b
      /\ UNCHANGED <<entries, responses, worker, unhandled>>
  BY DEF Dispatch, vars
<1>2. r \in Request /\ r.call = c
  BY DEF Request, WireType
<1> HIDE DEF r
<1>3. /\ b \in Seq(Request) /\ Len(b) = Len(a) + 1 /\ Len(a) \in Nat
      /\ \A n \in 1..Len(a) : b[n] = a[n]
      /\ b[Len(a) + 1] = r
  BY <1>2, AppendTo DEF GInv, RequestsInv
<1>4. /\ call' \in [Calls -> {"idle", "pending", "answered", "failed"}]
      /\ call'[c] = "pending" /\ \A d \in Calls : d # c => call'[d] = call[d]
  BY <1>1 DEF GInv, RequestsInv
<1>5. RequestsInv'
  <2>1. \A n \in 1..Len(a) : a[n] \in Request /\ call[a[n].call] # "idle"
    BY DEF GInv, RequestsInv
  <2> HIDE DEF a, b
  <2>2. ASSUME NEW n \in 1..Len(b) PROVE call'[b[n].call] # "idle"
    <3>1. CASE n \in 1..Len(a)
      <4>1. b[n] = a[n] /\ a[n].call \in Calls
        BY <1>3, <2>1, <3>1 DEF Request
      <4> QED BY <1>4, <2>1, <3>1, <4>1
    <3>2. CASE n \notin 1..Len(a)
      <4>1. n = Len(a) + 1
        BY <1>3, <3>2
      <4> QED BY <1>2, <1>3, <1>4, <4>1
    <3> QED BY <3>1, <3>2
  <2> QED BY <1>1, <1>3, <1>4, <2>2 DEF RequestsInv
<1>6. ResponsesInv'
  <2>1. responseStream' = responseStream
    BY DEF responseStream, producerKey
  <2> QED BY <1>1, <1>4, <2>1 DEF GInv, ResponsesInv
<1>7. WorkerInv'
  <2>1. \A n \in 0..Len(a) : n \in 0..Len(b)
    BY <1>3
  <2> QED BY <1>1, <2>1 DEF GInv, WorkerInv
<1> QED BY <1>5, <1>6, <1>7

(* A call that has been made gets its outcome. *)
LEMMA OutcomeStep ==
  ASSUME NEW c \in Calls, NEW stage \in {"answered", "failed"}, GInv,
         call[c] # "idle", call' = [call EXCEPT ![c] = stage],
         UNCHANGED <<entries, requests, responses, worker, unhandled>>
  PROVE  RequestsInv' /\ ResponsesInv' /\ WorkerInv'
<1>1. /\ call' \in [Calls -> {"idle", "pending", "answered", "failed"}]
      /\ \A d \in Calls : call[d] # "idle" => call'[d] # "idle"
  BY DEF GInv, RequestsInv
<1>2. responseStream' = responseStream
  BY DEF responseStream, producerKey
<1>3. RequestsInv'
  <2>1. \A n \in 1..Len(requests) : requests[n].call \in Calls
    <3> TAKE n \in 1..Len(requests)
    <3> DEFINE q == requests[n]
    <3>1. q \in Request
      BY DEF GInv, RequestsInv
    <3> HIDE DEF q
    <3>2. q.call \in Calls
      BY <3>1 DEF Request
    <3> QED BY <3>2 DEF q
  <2> QED BY <1>1, <2>1 DEF GInv, RequestsInv
<1>4. ResponsesInv'
  BY <1>1, <1>2 DEF GInv, ResponsesInv
<1>5. WorkerInv'
  BY DEF GInv, WorkerInv
<1> QED BY <1>3, <1>4, <1>5

-----------------------------------------------------------------------------
LEMMA NextGInv == GInv /\ [GatewayNext]_gVars => GInv'
<1> SUFFICES ASSUME GInv, [GatewayNext]_gVars PROVE GInv'
  OBVIOUS
<1>1. IInv'
  BY NextIsReaderNext, NextIInv DEF GInv
<1>2. CASE Register
  BY <1>1, <1>2, RegisterStep, RouteStands DEF GInv, Register, GetReadStream, server
<1>3. ASSUME NEW i \in Readers, Resume(i) \/ ReaderStep(i) PROVE GInv'
  <2>1. UNCHANGED <<entries, registered, call, requests, responses, worker, unhandled>>
    BY <1>3 DEF Resume, ReaderStep, Start, Leave, IssueXread, Interrupt, gatewayVars, server
  <2>2. RegistryInv' /\ LivesInv' /\ WrittenInv'
    BY <1>3, <2>1, ResumeStep, LeaveMoves, IssueXreadMoves, InterruptMoves DEF ReaderStep
  <2> QED BY <1>1, <2>1, <2>2, RouteStands DEF GInv
<1>4. ASSUME NEW i \in Readers, Hear(i) PROVE GInv'
  <2> DEFINE c == responses[Head(reader[i].batch)[2]]
  <2>1. /\ UNCHANGED <<entries, registered, requests, responses, worker, unhandled>>
        /\ Yield(i)
        /\ call' = IF c \in Calls /\ call[c] = "pending"
                     THEN [call EXCEPT ![c] = "answered"] ELSE call
    BY <1>4 DEF Hear, Yield, server
  <2>2. RegistryInv' /\ LivesInv' /\ WrittenInv'
    BY <2>1, YieldMoves
  <2> HIDE DEF c
  <2>3. RequestsInv' /\ ResponsesInv' /\ WorkerInv'
    <3>1. CASE c \in Calls /\ call[c] = "pending"
      <4>1. PICK d \in Calls : d = c
        BY <3>1
      <4> QED BY <2>1, <3>1, <4>1, OutcomeStep
    <3>2. CASE ~(c \in Calls /\ call[c] = "pending")
      BY <2>1, <3>2, RouteStands
    <3> QED BY <3>1, <3>2
  <2> QED BY <1>1, <2>2, <2>3 DEF GInv
<1>5. ASSUME NEW c \in Calls, Dispatch(c) \/ TimesOut(c) PROVE GInv'
  <2>1. UNCHANGED <<vars, registered>>
    BY <1>5 DEF Dispatch, TimesOut
  <2>2. RegistryInv' /\ LivesInv' /\ WrittenInv'
    BY <2>1, ReadersStand, StaysWritten DEF vars
  <2>3. RequestsInv' /\ ResponsesInv' /\ WorkerInv'
    BY <1>5, DispatchStep, OutcomeStep DEF TimesOut, vars
  <2> QED BY <1>1, <2>2, <2>3 DEF GInv
<1>6. CASE WorkerHandles
  <2>1. PICK to \in Calls : to = NextRequest.call /\ call[to] # "idle"
    BY <1>6, NextRequestOf DEF WorkerHandles, Takes
  <2>2. Responds(to) /\ UNCHANGED <<registered, call, requests, unhandled>>
    BY <1>6, <2>1 DEF WorkerHandles
  <2>3. RegistryInv' /\ LivesInv' /\ WrittenInv' /\ ResponsesInv'
    BY <2>1, <2>2, RespondsStep
  <2>4. RequestsInv'
    BY <2>2 DEF GInv, RequestsInv
  <2>5. WorkerInv'
    BY <1>6, <2>2, TakesOf DEF WorkerHandles, GInv, WorkerInv
  <2> QED BY <1>1, <2>3, <2>4, <2>5 DEF GInv
<1>7. CASE WorkerHasNoHandler
  <2>1. UNCHANGED <<vars, registered, call, requests, responses>>
    BY <1>7 DEF WorkerHasNoHandler
  <2>2. RegistryInv' /\ LivesInv' /\ WrittenInv'
    BY <2>1, ReadersStand, StaysWritten DEF vars
  <2>3. RequestsInv'
    BY <2>1 DEF GInv, RequestsInv
  <2>4. ResponsesInv'
    <3>1. responseStream' = responseStream
      BY DEF responseStream, producerKey
    <3> QED BY <2>1, <3>1 DEF vars, GInv, ResponsesInv
  <2>5. WorkerInv'
    <3>1. unhandled' \subseteq Calls
      BY <1>7, NextRequestOf DEF WorkerHasNoHandler, Takes, GInv, WorkerInv
    <3> QED BY <1>7, <2>1, <3>1, TakesOf DEF WorkerHasNoHandler, WorkerInv
  <2> QED BY <1>1, <2>2, <2>3, <2>4, <2>5 DEF GInv
<1>8. CASE AnotherIsAnswered
  <2>1. Responds(Foreign) /\ UNCHANGED <<registered, call, requests, worker, unhandled>>
    BY <1>8 DEF AnotherIsAnswered
  <2>2. RegistryInv' /\ LivesInv' /\ WrittenInv' /\ ResponsesInv'
    BY <2>1, ForeignAssumption, RespondsStep
  <2>3. RequestsInv' /\ WorkerInv'
    BY <2>1 DEF GInv, RequestsInv, WorkerInv
  <2> QED BY <1>1, <2>2, <2>3 DEF GInv
<1>9. CASE RedisStep
  <2>1. UNCHANGED <<entries, registered, call, requests, responses, worker, unhandled>>
    BY <1>9 DEF RedisStep, XreadStarts, XreadReplies, XreadTimesOut, gatewayVars
  <2>2. CASE XreadStarts
    <3>1. UNCHANGED <<reader, streamIds>>
      BY <2>2 DEF XreadStarts
    <3> QED BY <1>1, <2>1, <3>1, ReadersStand, StaysWritten, RouteStands DEF GInv
  <2>3. CASE XreadReplies
    BY <1>1, <2>1, <2>3, XreadRepliesMoves, RouteStands DEF GInv
  <2>4. CASE XreadTimesOut
    BY <1>1, <2>1, <2>4, XreadTimesOutMoves, RouteStands DEF GInv
  <2> QED BY <1>9, <2>2, <2>3, <2>4 DEF RedisStep
<1>10. CASE UNCHANGED gVars
  BY <1>1, <1>10, ReadersStand, StaysWritten, RouteStands DEF GInv, gVars, vars, gatewayVars
<1> QED
  BY <1>2, <1>3, <1>4, <1>5, <1>6, <1>7, <1>8, <1>9, <1>10 DEF GatewayNext

LEMMA GatewayInvariance == GatewaySpec => []GInv
<1> QED BY InitGInv, NextGInv, PTL DEF GatewaySpec

(* The parts of a route have the shapes the plugin and the worker give      *)
(* them, and there is a response for each entry of the response stream.     *)
THEOREM RouteTypeOK == GatewaySpec => []GatewayTypeOK
<1>1. GInv => GatewayTypeOK
  BY GInvImplies
<1> QED BY <1>1, GatewayInvariance, PTL

(* On the connection that the readers of a route share, each has at most    *)
(* one XREAD under way, however many routes are registered.                 *)
THEOREM RouteOneXread == GatewaySpec => []OneXreadPerReader
<1>1. GInv => OneXreadPerReader
  BY GInvImplies
<1> QED BY <1>1, GatewayInvariance, PTL

(* However many routes are registered, and at whatever moments, the reader  *)
(* made last for the route is neither aborted nor failed: the abort meant   *)
(* for those before it finds it not yet started.                            *)
THEOREM RouteIsServed == GatewaySpec => []NewestReaderLives
<1>1. GInv => NewestReaderLives
  BY GInvImplies
<1> QED BY <1>1, GatewayInvariance, PTL

-----------------------------------------------------------------------------
(* The refinement: every step of the gateway is a step of RequestReply, or  *)
(* changes nothing that it speaks of.                                       *)

LEMMA GatewayNextIsAbstractNext ==
  ASSUME GInv, [GatewayNext]_gVars
  PROVE  [RR!Next]_(RR!rrVars)
<1> SUFFICES ASSUME ~UNCHANGED <<call, replied>>
             PROVE  \E c \in Calls : RR!Call(c) \/ RR!Reply(c) \/ RR!Answer(c) \/ RR!Fail(c)
  BY DEF RR!Next, RR!rrVars
<1>1. UNCHANGED responses => UNCHANGED replied
  BY DEF replied, Contains
<1>2. CASE \/ Register \/ WorkerHasNoHandler \/ RedisStep \/ UNCHANGED gVars
           \/ \E i \in Readers : Resume(i) \/ ReaderStep(i)
  <2>1. UNCHANGED <<call, responses>>
    BY <1>2 DEF Register, WorkerHasNoHandler, RedisStep, Resume, ReaderStep, gVars, gatewayVars
  <2> QED BY <1>1, <2>1
<1>3. ASSUME NEW i \in Readers, Hear(i)
      PROVE  \E c \in Calls : RR!Answer(c)
  <2> DEFINE n == Head(reader[i].batch)[2]
             c == responses[n]
  <2>1. /\ Yield(i) /\ UNCHANGED <<registered, responses>>
        /\ call' = IF c \in Calls /\ call[c] = "pending"
                     THEN [call EXCEPT ![c] = "answered"] ELSE call
    BY <1>3 DEF Hear
  <2>2. n \in 1..Len(responses)
    BY <2>1, YieldMoves DEF GInv, ResponsesInv
  <2> HIDE DEF n
  <2>3. c \in Calls /\ call[c] = "pending" /\ UNCHANGED replied
    BY <1>1, <2>1
  <2>4. c \in replied
    BY <2>2, <2>3 DEF replied, Contains
  <2> QED BY <2>1, <2>3, <2>4 DEF RR!Answer, RR!Becomes
<1>4. ASSUME NEW c \in Calls, Dispatch(c) PROVE RR!Call(c)
  BY <1>1, <1>4 DEF Dispatch, RR!Call, RR!Becomes
<1>5. ASSUME NEW c \in Calls, TimesOut(c) PROVE RR!Fail(c)
  BY <1>1, <1>5 DEF TimesOut, RR!Fail, RR!Becomes
<1>6. CASE WorkerHandles
  <2>1. PICK to \in Calls : to = NextRequest.call /\ call[to] # "idle"
    BY <1>6, NextRequestOf DEF WorkerHandles, Takes
  <2>2. Responds(to) /\ UNCHANGED <<registered, call>>
    BY <1>6, <2>1 DEF WorkerHandles
  <2>3. replied' = replied \cup {to}
    BY <2>1, <2>2, RespondsStep
  <2> QED BY <2>1, <2>2, <2>3 DEF RR!Reply
<1>7. CASE AnotherIsAnswered
  <2>1. Responds(Foreign) /\ UNCHANGED <<registered, call>>
    BY <1>7 DEF AnotherIsAnswered
  <2>2. UNCHANGED replied
    BY <2>1, ForeignAssumption, RespondsStep
  <2> QED BY <2>1, <2>2
<1> QED BY <1>2, <1>3, <1>4, <1>5, <1>6, <1>7 DEF GatewayNext

(* Every behaviour of a route, with readers that come and go, responses to  *)
(* others on its stream, late and missing answers, is one of RequestReply.  *)
THEOREM RouteImplements == GatewaySpec => ImplementsRequestReply
<1>1. GatewayInit => RR!Init
  BY DEF GatewayInit, RR!Init, replied, Contains
<1>2. GInv /\ [GatewayNext]_gVars => [RR!Next]_(RR!rrVars)
  BY GatewayNextIsAbstractNext
<1> QED BY <1>1, <1>2, GatewayInvariance, PTL DEF GatewaySpec, ImplementsRequestReply, RR!Spec

-----------------------------------------------------------------------------
(* What the scheme of keys guarantees, and what it does not.  Names are     *)
(* any sequences of tokens, separators included.                            *)

LEMMA Concatenated ==
  ASSUME NEW a \in Names, NEW b \in Names
  PROVE  a \o b \in Names /\ Len(a \o b) = Len(a) + Len(b) /\ Len(a) \in Nat
BY DEF Names

LEMMA Token ==
  ASSUME NEW x \in Tokens
  PROVE  <<x>> \in Names /\ Len(<<x>>) = 1
BY DEF Names

LEMMA LastToken ==
  ASSUME NEW a \in Names, NEW x \in Tokens
  PROVE  (a \o <<x>>)[Len(a \o <<x>>)] = x
BY DEF Names

LEMMA ShardDecoratorType ==
  ASSUME NEW key \in Names, NEW shard \in Names
  PROVE  /\ shardDecorator(key, shard) \in Names
         /\ shard = NoShard => shardDecorator(key, shard) = key
         /\ shard # NoShard => Len(shardDecorator(key, shard)) = Len(key) + 1 + Len(shard)
<1>1. <<"#">> \in Names /\ Len(<<"#">>) = 1
  BY TokensAssumption, Token
<1>2. key \o <<"#">> \in Names /\ Len(key \o <<"#">>) = Len(key) + 1
  BY <1>1, Concatenated
<1> QED
  BY <1>2, Concatenated DEF shardDecorator

(* The keys of a topic are strings that end with their direction. *)
LEMMA DecoratedType ==
  ASSUME NEW t \in TopicOptions, NEW shard \in Names,
         NEW who \in {"CONSUMER_INCOMING", "PRODUCER_OUTGOING"}
  PROVE  /\ Decorated(t, shard, who) \in Names
         /\ Len(Decorated(t, shard, who)) =
              Len(t.namespace) + 1 + Len(shardDecorator(t.topic, shard)) + 1 + 1
         /\ Decorated(t, shard, who)[Len(Decorated(t, shard, who))] = who
<1> DEFINE key == shardDecorator(t.topic, shard)
           prefix == t.namespace \o <<"::">>
           body == prefix \o key
           ended == body \o <<"::">>
<1>1. t.namespace \in Names /\ t.topic \in Names
  BY DEF TopicOptions
<1>2. key \in Names
  BY <1>1, ShardDecoratorType
<1>3. /\ <<"::">> \in Names /\ Len(<<"::">>) = 1
      /\ who \in Tokens /\ <<who>> \in Names /\ Len(<<who>>) = 1
  BY TokensAssumption, Token
<1>4. prefix \in Names /\ Len(prefix) = Len(t.namespace) + 1
  BY <1>1, <1>3, Concatenated
<1>5. body \in Names /\ Len(body) = Len(prefix) + Len(key)
  BY <1>2, <1>4, Concatenated
<1>6. ended \in Names /\ Len(ended) = Len(body) + 1
  BY <1>3, <1>5, Concatenated
<1>7. Decorated(t, shard, who) = ended \o <<who>>
  BY DEF Decorated, consumerProducerDecorator, keyGenerator
<1>8. /\ ended \o <<who>> \in Names /\ Len(ended \o <<who>>) = Len(ended) + 1
      /\ (ended \o <<who>>)[Len(ended \o <<who>>)] = who
  BY <1>3, <1>6, Concatenated, LastToken
<1> HIDE DEF prefix, body, ended
<1> QED
  BY <1>4, <1>5, <1>6, <1>7, <1>8

(* A topic's incoming and outgoing streams are never the same, nor is the   *)
(* incoming stream of one topic the outgoing stream of another: a consumer  *)
(* cannot read its own output.                                              *)
THEOREM DirectionsDiffer ==
  ASSUME NEW t \in TopicOptions, NEW u \in TopicOptions,
         NEW shard \in Names, NEW other \in Names
  PROVE  consumerKey(t, shard) # producerKey(u, other)
BY DecoratedType DEF consumerKey, producerKey

(* Without a shard, what a gateway dispatches is what a consumer reads, and *)
(* what the consumer writes is what the gateway waits for.                  *)
THEOREM UnshardedMeet ==
  ASSUME NEW t \in TopicOptions
  PROVE  /\ consumerReads(t, NoShard) = dispatched(t, NoShard)
         /\ consumerWrites(t, NoShard) = awaited(t, NoShard)
BY DEF consumerReads, dispatched, consumerWrites, awaited, shardDecorator

(* With a shard the two never meet: the consumer's keys name it twice.      *)
THEOREM ShardedMiss ==
  ASSUME NEW t \in TopicOptions, NEW shard \in Names, shard # NoShard
  PROVE  /\ consumerReads(t, shard) # dispatched(t, shard)
         /\ consumerWrites(t, shard) # awaited(t, shard)
<1>1. NoShard \in Names
  BY DEF NoShard, Names
<1>2. t.topic \in Names /\ t.namespace \in Names
  BY DEF TopicOptions
<1>3. /\ Len(shard) \in Nat /\ Len(t.namespace) \in Nat /\ Len(t.topic) \in Nat
  BY <1>2 DEF Names
<1>4. ASSUME NEW who \in {"CONSUMER_INCOMING", "PRODUCER_OUTGOING"}
      PROVE  Len(Decorated(t, shard, who)) # Len(Decorated(t, NoShard, who))
  <2>1. Len(shardDecorator(t.topic, shard)) = Len(t.topic) + 1 + Len(shard)
    BY <1>2, ShardDecoratorType
  <2>2. shardDecorator(t.topic, NoShard) = t.topic
    BY <1>1, <1>2, ShardDecoratorType
  <2>3. Len(Decorated(t, shard, who)) =
          Len(t.namespace) + 1 + Len(shardDecorator(t.topic, shard)) + 1 + 1
    BY DecoratedType
  <2>4. Len(Decorated(t, NoShard, who)) =
          Len(t.namespace) + 1 + Len(shardDecorator(t.topic, NoShard)) + 1 + 1
    BY <1>1, DecoratedType
  <2> DEFINE n == Len(t.namespace)
             m == Len(t.topic)
             k == Len(shard)
  <2>5. n \in Nat /\ m \in Nat /\ k \in Nat
    BY <1>3
  <2>6. Len(Decorated(t, shard, who)) = n + 1 + (m + 1 + k) + 1 + 1
    BY <2>1, <2>3, Zenon
  <2>7. Len(Decorated(t, NoShard, who)) = n + 1 + m + 1 + 1
    BY <2>2, <2>4, Zenon
  <2> HIDE DEF n, m, k
  <2> QED
    BY <2>5, <2>6, <2>7
<1>5. ASSUME NEW who \in {"CONSUMER_INCOMING", "PRODUCER_OUTGOING"}
      PROVE  shardDecorator(Decorated(t, shard, who), shard)
               # shardDecorator(Decorated(t, NoShard, who), shard)
  <2>1. Decorated(t, shard, who) \in Names /\ Decorated(t, NoShard, who) \in Names
    BY <1>1, DecoratedType
  <2>2. /\ Len(shardDecorator(Decorated(t, shard, who), shard))
             = Len(Decorated(t, shard, who)) + 1 + Len(shard)
        /\ Len(shardDecorator(Decorated(t, NoShard, who), shard))
             = Len(Decorated(t, NoShard, who)) + 1 + Len(shard)
    BY <2>1, ShardDecoratorType
  <2>3. Len(Decorated(t, shard, who)) \in Nat /\ Len(Decorated(t, NoShard, who)) \in Nat
    BY <2>1 DEF Names
  <2> QED
    BY <1>3, <1>4, <2>2, <2>3
<1> QED
  BY <1>5 DEF consumerReads, dispatched, consumerWrites, awaited, consumerKey, producerKey
===============================================================================
