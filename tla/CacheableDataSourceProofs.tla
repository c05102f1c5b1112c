----------------------- MODULE CacheableDataSourceProofs -----------------------
(***************************************************************************)
(* Proofs about the caches over Redis, for any processes, owners, keys,    *)
(* fields, values and broken connections: types, and that a cache without  *)
(* commands under way agrees with Redis unless it has been raced.          *)
(***************************************************************************)
EXTENDS CacheableDataSource, TLAPS

-----------------------------------------------------------------------------
(* What the commands under way on a cachedChannel are about to do.  q is    *)
(* the sequence sent, r the replies to fills, h what is cached, k a key and  *)
(* v its value in Redis.                                                    *)

NoneFor(q, k) == \A i \in 1..Len(q) : q[i].key # k
Fills(c, k) == c.op = "get" /\ c.key = k
Asked(q, k) == \E i \in 1..Len(q) : Fills(q[i], k)

(* At most one fill of a key is under way, and then there is an entry.      *)
FillOK(q, r, k, h) ==
  /\ Asked(q, k) => k \in DOMAIN h /\ NoneFor(r, k)
  /\ ~NoneFor(r, k) => k \in DOMAIN h
  /\ \A i, j \in 1..Len(q) : Fills(q[i], k) /\ Fills(q[j], k) => i = j
  /\ \A i, j \in 1..Len(r) : r[i].key = k /\ r[j].key = k => i = j

(* When q has been executed the value of k is w: t[i] is its value after    *)
(* the first i commands, from a set() on if there is one whose effect does  *)
(* not depend on what was there.                                            *)
Trace(t, s, q, k, v, w) ==
  /\ t[s] = IF s = 0 THEN v ELSE q[s].value
  /\ s # 0 => q[s].op = "set" /\ q[s].key = k
  /\ \A b \in (s + 1)..Len(q) : q[b].key = k => t[b] = Applied(t[b - 1], q[b])
  /\ \A a, b \in s..Len(q) : a <= b /\ (\A i \in (a + 1)..b : q[i].key # k) => t[b] = t[a]
  /\ t[Len(q)] = w

Replays(q, k, v, w) == \E t : \E s \in 0..Len(q) : Trace(t, s, q, k, v, w)

(* The entry of a process that nobody has raced is what Redis will have     *)
(* when it has executed what the process sent.  No write follows a fill,    *)
(* whose reply is the value in Redis.                                       *)
Unraced(q, r, k, h, v) ==
  /\ \A i \in 1..Len(q) : Fills(q[i], k) => \A j \in (i + 1)..Len(q) : q[j].key # k
  /\ \A i \in 1..Len(r) : r[i].key = k => r[i].value = v /\ NoneFor(q, k)
  /\ k \in DOMAIN h /\ ~Asked(q, k) /\ NoneFor(r, k) => Replays(q, k, v, h[k])

-----------------------------------------------------------------------------
LEMMA AppendTo ==
  ASSUME NEW S, NEW s \in Seq(S), NEW x \in S
  PROVE  /\ Append(s, x) \in Seq(S) /\ Len(Append(s, x)) = Len(s) + 1 /\ Len(s) \in Nat
         /\ \A i \in 1..Len(s) : Append(s, x)[i] = s[i]
         /\ Append(s, x)[Len(s) + 1] = x
         /\ \A i \in 1..(Len(s) + 1) : i \in 1..Len(s) \/ i = Len(s) + 1
OBVIOUS

LEMMA TailOf ==
  ASSUME NEW S, NEW s \in Seq(S), s # <<>>
  PROVE  /\ Head(s) \in S /\ Head(s) = s[1] /\ Tail(s) \in Seq(S)
         /\ Len(s) \in Nat \ {0} /\ Len(Tail(s)) = Len(s) - 1
         /\ \A i \in 1..(Len(s) - 1) : Tail(s)[i] = s[i + 1]
OBVIOUS

(* Nothing for k: Redis keeps what it has. *)
LEMMA ReplaysNothing ==
  ASSUME NEW S, NEW q \in Seq(S), NEW k, NEW v, NoneFor(q, k)
  PROVE  Replays(q, k, v, v)
<1> DEFINE t == [i \in 0..Len(q) |-> v]
<1>1. Len(q) \in Nat /\ \A i \in 0..Len(q) : t[i] = v
  OBVIOUS
<1> HIDE DEF t
<1>2. \A b \in 1..Len(q) : q[b].key # k
  BY DEF NoneFor
<1>3. 0 \in 0..Len(q) /\ Len(q) \in 0..Len(q)
  BY <1>1
<1>4. Trace(t, 0, q, k, v, v)
  BY <1>1, <1>2, <1>3 DEF Trace
<1> QED BY <1>3, <1>4 DEF Replays

LEMMA ReplayedNothing ==
  ASSUME NEW S, NEW q \in Seq(S), NEW k, NEW v, NEW w, NoneFor(q, k), Replays(q, k, v, w)
  PROVE  w = v
<1>1. PICK t : \E s \in 0..Len(q) : Trace(t, s, q, k, v, w)
  BY DEF Replays
<1>2. PICK s \in 0..Len(q) : Trace(t, s, q, k, v, w)
  BY <1>1
<1>3. Len(q) \in Nat /\ \A i \in 1..Len(q) : q[i].key # k
  BY DEF NoneFor
<1>4. s = 0
  BY <1>2, <1>3 DEF Trace
<1>5. t[Len(q)] = t[0]
  BY <1>2, <1>3, <1>4 DEF Trace
<1> QED BY <1>2, <1>4, <1>5 DEF Trace

(* One more command: it applies to what was there before. *)
LEMMA ReplaysAppend ==
  ASSUME NEW S, NEW q \in Seq(S), NEW c \in S, NEW k, NEW v, NEW w, Replays(q, k, v, w)
  PROVE  Replays(Append(q, c), k, v, IF c.key = k THEN Applied(w, c) ELSE w)
<1> DEFINE n == Len(q)
           p == Append(q, c)
           z == IF c.key = k THEN Applied(w, c) ELSE w
<1>1. /\ Len(p) = n + 1 /\ n \in Nat /\ \A i \in 1..n : p[i] = q[i]
      /\ p[n + 1] = c
  BY AppendTo
<1>2. PICK t : \E s \in 0..n : Trace(t, s, q, k, v, w)
  BY DEF Replays
<1> HIDE DEF p, n, z
<1>20. PICK s \in 0..n : Trace(t, s, q, k, v, w)
  BY <1>2
<1>3. /\ t[s] = IF s = 0 THEN v ELSE q[s].value
      /\ s # 0 => q[s].op = "set" /\ q[s].key = k
      /\ \A b \in (s + 1)..n : q[b].key = k => t[b] = Applied(t[b - 1], q[b])
      /\ \A a, b \in s..n : a <= b /\ (\A i \in (a + 1)..b : q[i].key # k) => t[b] = t[a]
      /\ t[n] = w
  BY <1>20 DEF Trace, n
<1> DEFINE u == [i \in 0..(n + 1) |-> IF i = n + 1 THEN z ELSE t[i]]
<1>4. /\ \A i \in 0..n : u[i] = t[i]
      /\ u[n + 1] = z
  BY <1>1
<1> HIDE DEF u
<1>5. s \in 0..(n + 1) /\ u[s] = IF s = 0 THEN v ELSE p[s].value
  BY <1>1, <1>3, <1>4
<1>6. s # 0 => p[s].op = "set" /\ p[s].key = k
  BY <1>1, <1>3
<1>7. ASSUME NEW b \in (s + 1)..(n + 1), p[b].key = k
      PROVE  u[b] = Applied(u[b - 1], p[b])
  <2>1. CASE b = n + 1
    <3>1. u[b - 1] = w
      BY <1>1, <1>3, <1>4, <2>1
    <3> QED BY <1>1, <1>4, <1>7, <2>1, <3>1 DEF z
  <2>2. CASE b # n + 1
    <3>1. b \in (s + 1)..n /\ b - 1 \in 0..n /\ b \in 0..n /\ b \in 1..n
      BY <1>1, <1>3, <2>2
    <3> QED BY <1>1, <1>3, <1>4, <1>7, <3>1
  <2> QED BY <2>1, <2>2
<1>8. ASSUME NEW a \in s..(n + 1), NEW b \in s..(n + 1), a <= b,
             \A i \in (a + 1)..b : p[i].key # k
      PROVE  u[b] = u[a]
  <2>1. CASE b # n + 1
    <3>1. a \in s..n /\ b \in s..n /\ a \in 0..n /\ b \in 0..n
      BY <1>1, <1>3, <1>8, <2>1
    <3>2. \A i \in (a + 1)..b : q[i].key # k
      BY <1>1, <1>8, <3>1
    <3> QED BY <1>3, <1>4, <1>8, <3>1, <3>2
  <2>2. CASE b = n + 1 /\ a # n + 1
    <3>1. a \in s..n /\ n \in s..n /\ a <= n /\ a \in 0..n
      BY <1>1, <1>3, <1>8, <2>2
    <3>2. \A i \in (a + 1)..n : q[i].key # k
      BY <1>1, <1>8, <2>2, <3>1
    <3>3. t[n] = t[a]
      BY <1>3, <3>1, <3>2
    <3>4. n + 1 \in (a + 1)..b
      BY <1>1, <2>2, <3>1
    <3>5. c.key # k
      BY <1>1, <1>8, <3>4
    <3> QED BY <1>3, <1>4, <2>2, <3>1, <3>3, <3>5 DEF z
  <2>3. CASE b = n + 1 /\ a = n + 1
    BY <2>3
  <2> QED BY <2>1, <2>2, <2>3
<1>9. Trace(u, s, p, k, v, z)
  BY <1>1, <1>4, <1>5, <1>6, <1>7, <1>8 DEF Trace
<1>10. Replays(p, k, v, z)
  BY <1>1, <1>5, <1>9 DEF Replays
<1> QED BY <1>10 DEF p, z

(* A set() forgets what was there before. *)
LEMMA ReplaysSet ==
  ASSUME NEW S, NEW q \in Seq(S), NEW c \in S, NEW v, c.op = "set"
  PROVE  Replays(Append(q, c), c.key, v, c.value)
<1> DEFINE n == Len(q)
           p == Append(q, c)
           t == [i \in {n + 1} |-> c.value]
<1>1. Len(p) = n + 1 /\ n \in Nat /\ p[n + 1] = c /\ t[n + 1] = c.value
  BY AppendTo
<1> HIDE DEF p, n, t
<1>2. /\ n + 1 \in 0..Len(p) /\ n + 1 # 0 /\ \A b \in (n + 1)..Len(p) : b = n + 1
      /\ \A b \in ((n + 1) + 1)..Len(p) : FALSE
  BY <1>1
<1>3. Trace(t, n + 1, p, c.key, v, c.value)
  BY <1>1, <1>2 DEF Trace
<1> QED BY <1>2, <1>3 DEF Replays, p

(* The first command is executed. *)
LEMMA ReplaysTail ==
  ASSUME NEW S, NEW q \in Seq(S), q # <<>>, NEW k, NEW v, NEW w, Replays(q, k, v, w)
  PROVE  Replays(Tail(q), k, IF Head(q).key = k THEN Applied(v, Head(q)) ELSE v, w)
<1> DEFINE n == Len(q)
           p == Tail(q)
           c == Head(q)
           x == IF c.key = k THEN Applied(v, c) ELSE v
<1>1. /\ c = q[1] /\ n \in Nat \ {0} /\ Len(p) = n - 1
      /\ \A i \in 1..(n - 1) : p[i] = q[i + 1]
  BY TailOf
<1>2. PICK t : \E s \in 0..n : Trace(t, s, q, k, v, w)
  BY DEF Replays
<1> HIDE DEF p, n, c, x
<1>20. PICK s \in 0..n : Trace(t, s, q, k, v, w)
  BY <1>2
<1>3. /\ t[s] = IF s = 0 THEN v ELSE q[s].value
      /\ s # 0 => q[s].op = "set" /\ q[s].key = k
      /\ \A b \in (s + 1)..n : q[b].key = k => t[b] = Applied(t[b - 1], q[b])
      /\ \A a, b \in s..n : a <= b /\ (\A i \in (a + 1)..b : q[i].key # k) => t[b] = t[a]
      /\ t[n] = w
  BY <1>20 DEF Trace, n
<1> DEFINE u == [i \in 0..(n - 1) |-> t[i + 1]]
           s1 == IF s = 0 THEN 0 ELSE s - 1
<1>4. /\ \A i \in 0..(n - 1) : u[i] = t[i + 1]
      /\ s1 \in 0..(n - 1) /\ (s = 0 => s1 = 0) /\ (s # 0 => s1 = s - 1)
      /\ s <= s1 + 1 /\ s1 + 1 <= n
  BY <1>1
<1> HIDE DEF u, s1
<1>5. u[s1] = IF s1 = 0 THEN x ELSE p[s1].value
  <2>1. CASE s = 0
    <3>1. t[1] = x
      <4>1. CASE c.key = k
        <5>1. 1 \in (s + 1)..n /\ q[1].key = k /\ t[1 - 1] = v
          BY <1>1, <1>3, <2>1, <4>1
        <5>2. t[1] = Applied(t[1 - 1], q[1])
          BY <1>3, <5>1
        <5> QED BY <1>1, <4>1, <5>1, <5>2 DEF x
      <4>2. CASE c.key # k
        <5>1. 0 \in s..n /\ 1 \in s..n /\ \A i \in (0 + 1)..1 : q[i].key # k
          BY <1>1, <2>1, <4>2
        <5>2. t[1] = t[0]
          BY <1>3, <5>1
        <5> QED BY <1>3, <2>1, <4>2, <5>2 DEF x
      <4> QED BY <4>1, <4>2
    <3> QED BY <1>4, <2>1, <3>1
  <2>2. CASE s = 1
    <3>1. c.op = "set" /\ c.key = k /\ t[1] = c.value
      BY <1>1, <1>3, <2>2
    <3>2. x = c.value
      BY <3>1 DEF x, Applied
    <3> QED BY <1>4, <2>2, <3>1, <3>2
  <2>3. CASE s # 0 /\ s # 1
    <3>1. s1 \in 1..(n - 1) /\ s1 + 1 = s
      BY <1>4, <2>3
    <3> QED BY <1>1, <1>3, <1>4, <2>3, <3>1
  <2> QED BY <2>1, <2>2, <2>3
<1>6. s1 # 0 => p[s1].op = "set" /\ p[s1].key = k
  <2> SUFFICES ASSUME s1 # 0 PROVE p[s1].op = "set" /\ p[s1].key = k
    OBVIOUS
  <2>1. s1 \in 1..(n - 1) /\ s1 + 1 = s /\ s # 0
    BY <1>4
  <2> QED BY <1>1, <1>3, <2>1
<1>7. ASSUME NEW b \in (s1 + 1)..(n - 1), p[b].key = k
      PROVE  u[b] = Applied(u[b - 1], p[b])
  <2>1. /\ b \in 1..(n - 1) /\ b - 1 \in 0..(n - 1) /\ b \in 0..(n - 1)
        /\ b + 1 \in (s + 1)..n /\ (b + 1) - 1 = b /\ (b - 1) + 1 = b
    BY <1>1, <1>4
  <2>2. u[b] = t[b + 1] /\ u[b - 1] = t[b] /\ p[b] = q[b + 1]
    BY <1>1, <1>4, <2>1
  <2>3. t[b + 1] = Applied(t[(b + 1) - 1], q[b + 1])
    BY <1>3, <1>7, <2>1, <2>2
  <2> QED BY <2>1, <2>2, <2>3
<1>8. ASSUME NEW a \in s1..(n - 1), NEW b \in s1..(n - 1), a <= b,
             \A i \in (a + 1)..b : p[i].key # k
      PROVE  u[b] = u[a]
  <2>1. /\ a + 1 \in s..n /\ b + 1 \in s..n /\ a + 1 <= b + 1
        /\ a \in 0..(n - 1) /\ b \in 0..(n - 1)
    BY <1>1, <1>4, <1>8, SMTT(30)
  <2>2. ASSUME NEW i \in ((a + 1) + 1)..(b + 1) PROVE q[i].key # k
    <3>1. i - 1 \in (a + 1)..b /\ i - 1 \in 1..(n - 1) /\ (i - 1) + 1 = i
      BY <1>1, <2>1
    <3> QED BY <1>1, <1>8, <3>1
  <2> QED BY <1>3, <1>4, <2>1, <2>2
<1>9. u[n - 1] = w
  BY <1>1, <1>3, <1>4
<1>10. Trace(u, s1, p, k, x, w)
  BY <1>1, <1>4, <1>5, <1>6, <1>7, <1>8, <1>9 DEF Trace
<1>11. Replays(p, k, x, w)
  BY <1>1, <1>4, <1>10 DEF Replays
<1> QED BY <1>11 DEF p, x, c

-----------------------------------------------------------------------------
(* What the steps do to FillOK and Unraced, of the key k that they are      *)
(* about and of any other.  C is the set of commands, R that of replies.    *)

(* A command is sent for another key. *)
LEMMA OtherSent ==
  ASSUME NEW C, NEW q \in Seq(C), NEW r, NEW k, NEW h, NEW v, NEW c \in C, c.key # k
  PROVE  /\ FillOK(q, r, k, h) => FillOK(Append(q, c), r, k, h)
         /\ Unraced(q, r, k, h, v) => Unraced(Append(q, c), r, k, h, v)
<1> DEFINE n == Len(q)
           p == Append(q, c)
<1>1. /\ Len(p) = n + 1 /\ n \in Nat /\ p[n + 1] = c /\ \A i \in 1..n : p[i] = q[i]
      /\ \A i \in 1..(n + 1) : i \in 1..n \/ i = n + 1
  BY AppendTo
<1>2. Replays(q, k, v, h[k]) => Replays(p, k, v, h[k])
  BY ReplaysAppend
<1> HIDE DEF p
<1>3. Asked(p, k) <=> Asked(q, k)
  BY <1>1 DEF Asked, Fills
<1>4. NoneFor(p, k) <=> NoneFor(q, k)
  BY <1>1 DEF NoneFor
<1>5. \A i \in 1..(n + 1) : p[i].key = k => i \in 1..n /\ p[i] = q[i]
  BY <1>1
<1>6. FillOK(q, r, k, h) => FillOK(p, r, k, h)
  BY <1>1, <1>3, <1>5 DEF FillOK, Fills
<1>7. Unraced(q, r, k, h, v) => Unraced(p, r, k, h, v)
  <2> SUFFICES ASSUME Unraced(q, r, k, h, v) PROVE Unraced(p, r, k, h, v)
    OBVIOUS
  <2>1. ASSUME NEW i \in 1..(n + 1), Fills(p[i], k), NEW j \in (i + 1)..(n + 1)
        PROVE  p[j].key # k
    <3>1. i \in 1..n /\ p[i] = q[i] /\ j \in 1..(n + 1)
      BY <1>1, <1>5, <2>1 DEF Fills
    <3>2. CASE j = n + 1
      BY <1>1, <3>2
    <3>3. CASE j # n + 1
      <4>1. j \in (i + 1)..n /\ p[j] = q[j]
        BY <1>1, <3>1, <3>3
      <4> QED BY <2>1, <3>1, <4>1 DEF Unraced
    <3> QED BY <3>2, <3>3
  <2> QED BY <1>1, <1>2, <1>3, <1>4, <2>1 DEF Unraced
<1> QED BY <1>6, <1>7 DEF p

(* The entry is filled by a command sent for it. *)
LEMMA FillSent ==
  ASSUME NEW C, NEW q \in Seq(C), NEW r, NEW k, NEW h, NEW g, NEW v, NEW c \in C,
         Fills(c, k), FillOK(q, r, k, h), k \notin DOMAIN h, k \in DOMAIN g
  PROVE  FillOK(Append(q, c), r, k, g) /\ Unraced(Append(q, c), r, k, g, v)
<1> DEFINE n == Len(q)
           p == Append(q, c)
<1>1. /\ Len(p) = n + 1 /\ n \in Nat /\ p[n + 1] = c /\ \A i \in 1..n : p[i] = q[i]
      /\ \A i \in 1..(n + 1) : i \in 1..n \/ i = n + 1
  BY AppendTo
<1> HIDE DEF p
<1>2. ~Asked(q, k) /\ NoneFor(r, k)
  BY DEF FillOK
<1>3. Asked(p, k) /\ \A i \in 1..(n + 1) : Fills(p[i], k) => i = n + 1
  BY <1>1, <1>2 DEF Asked
<1>4. FillOK(p, r, k, g)
  BY <1>1, <1>2, <1>3 DEF FillOK, NoneFor
<1>5. Unraced(p, r, k, g, v)
  <2>1. ASSUME NEW i \in 1..(n + 1), Fills(p[i], k), NEW j \in (i + 1)..(n + 1)
        PROVE  FALSE
    BY <1>1, <1>3, <2>1
  <2> QED BY <1>1, <1>2, <1>3, <2>1 DEF Unraced, NoneFor
<1> QED BY <1>4, <1>5 DEF p

(* An owner's write is sent. *)
LEMMA WriteSent ==
  ASSUME NEW C, NEW q \in Seq(C), NEW r, NEW k, NEW h, NEW g, NEW c \in C, c.key = k,
         c.op # "get", FillOK(q, r, k, h), k \in DOMAIN g
  PROVE  /\ FillOK(Append(q, c), r, k, g)
         /\ ~Asked(q, k) => ~Asked(Append(q, c), k)
<1> DEFINE n == Len(q)
           p == Append(q, c)
<1>1. /\ Len(p) = n + 1 /\ n \in Nat /\ p[n + 1] = c /\ \A i \in 1..n : p[i] = q[i]
      /\ \A i \in 1..(n + 1) : i \in 1..n \/ i = n + 1
  BY AppendTo
<1> HIDE DEF p
<1>2. \A i \in 1..(n + 1) : Fills(p[i], k) => i \in 1..n /\ p[i] = q[i]
  BY <1>1 DEF Fills
<1>3. Asked(p, k) => Asked(q, k)
  BY <1>1, <1>2 DEF Asked
<1>4. FillOK(p, r, k, g)
  BY <1>1, <1>2, <1>3 DEF FillOK
<1> QED BY <1>3, <1>4 DEF p

(* Nothing but writes is under way, and what they come to is known. *)
LEMMA UnracedWrites ==
  ASSUME NEW q, NEW r, NEW k, NEW h, NEW v, ~Asked(q, k), NoneFor(r, k),
         k \in DOMAIN h => Replays(q, k, v, h[k])
  PROVE  Unraced(q, r, k, h, v)
BY DEF Unraced, Asked, NoneFor

(* The first command is executed: it is for another key, *)
LEMMA OtherExecuted ==
  ASSUME NEW C, NEW q \in Seq(C), q # <<>>, NEW r, NEW k, NEW h, NEW v, Head(q).key # k
  PROVE  /\ FillOK(q, r, k, h) => FillOK(Tail(q), r, k, h)
         /\ Unraced(q, r, k, h, v) => Unraced(Tail(q), r, k, h, v)
<1> DEFINE n == Len(q)
           p == Tail(q)
<1>1. /\ Head(q) = q[1] /\ n \in Nat \ {0} /\ Len(p) = n - 1
      /\ \A i \in 1..(n - 1) : p[i] = q[i + 1]
  BY TailOf
<1>2. Replays(q, k, v, h[k]) => Replays(p, k, v, h[k])
  BY ReplaysTail
<1> HIDE DEF p, n
<1>3. \A i \in 1..n : q[i].key = k => i - 1 \in 1..(n - 1) /\ p[i - 1] = q[i]
  <2> SUFFICES ASSUME NEW i \in 1..n, q[i].key = k PROVE i - 1 \in 1..(n - 1) /\ p[i - 1] = q[i]
    OBVIOUS
  <2>1. i - 1 \in 1..(n - 1) /\ (i - 1) + 1 = i
    BY <1>1
  <2> QED BY <1>1, <2>1
<1>4. \A i \in 1..(n - 1) : p[i] = q[i + 1] /\ i + 1 \in 1..n
  BY <1>1
<1>5. Asked(p, k) <=> Asked(q, k)
  BY <1>1, <1>3, <1>4 DEF Asked, Fills, n
<1>6. NoneFor(p, k) <=> NoneFor(q, k)
  BY <1>1, <1>3, <1>4 DEF NoneFor, n
<1>7. FillOK(q, r, k, h) => FillOK(p, r, k, h)
  <2> SUFFICES ASSUME FillOK(q, r, k, h) PROVE FillOK(p, r, k, h)
    OBVIOUS
  <2>1. ASSUME NEW i \in 1..(n - 1), NEW j \in 1..(n - 1), Fills(p[i], k), Fills(p[j], k)
        PROVE  i = j
    <3>1. i + 1 = j + 1
      BY <1>4, <2>1 DEF FillOK, n
    <3> QED BY <1>1, <3>1
  <2> QED BY <1>1, <1>5, <2>1 DEF FillOK
<1>8. Unraced(q, r, k, h, v) => Unraced(p, r, k, h, v)
  <2> SUFFICES ASSUME Unraced(q, r, k, h, v) PROVE Unraced(p, r, k, h, v)
    OBVIOUS
  <2>1. ASSUME NEW i \in 1..(n - 1), Fills(p[i], k), NEW j \in (i + 1)..(n - 1)
        PROVE  p[j].key # k
    <3>1. i + 1 \in 1..n /\ j + 1 \in ((i + 1) + 1)..n /\ j \in 1..(n - 1)
      BY <1>1
    <3> QED BY <1>4, <2>1, <3>1 DEF Unraced, n
  <2> QED BY <1>1, <1>2, <1>5, <1>6, <2>1 DEF Unraced
<1> QED BY <1>7, <1>8 DEF p

(* or a write of this key, *)
LEMMA WriteExecuted ==
  ASSUME NEW C, NEW q \in Seq(C), q # <<>>, NEW r, NEW k, NEW h, NEW v,
         Head(q).key = k, Head(q).op # "get"
  PROVE  /\ FillOK(q, r, k, h) => FillOK(Tail(q), r, k, h)
         /\ Unraced(q, r, k, h, v) => Unraced(Tail(q), r, k, h, Applied(v, Head(q)))
<1> DEFINE n == Len(q)
           p == Tail(q)
           x == Applied(v, Head(q))
<1>1. /\ Head(q) = q[1] /\ n \in Nat \ {0} /\ Len(p) = n - 1
      /\ \A i \in 1..(n - 1) : p[i] = q[i + 1]
  BY TailOf
<1>2. Replays(q, k, v, h[k]) => Replays(p, k, x, h[k])
  BY ReplaysTail
<1> HIDE DEF p, n, x
<1>3. \A i \in 1..n : Fills(q[i], k) => i - 1 \in 1..(n - 1) /\ p[i - 1] = q[i]
  <2> SUFFICES ASSUME NEW i \in 1..n, Fills(q[i], k) PROVE i - 1 \in 1..(n - 1) /\ p[i - 1] = q[i]
    OBVIOUS
  <2>1. i - 1 \in 1..(n - 1) /\ (i - 1) + 1 = i
    BY <1>1 DEF Fills
  <2> QED BY <1>1, <2>1
<1>4. \A i \in 1..(n - 1) : p[i] = q[i + 1] /\ i + 1 \in 1..n
  BY <1>1
<1>5. Asked(p, k) <=> Asked(q, k)
  BY <1>1, <1>3, <1>4 DEF Asked, n
<1>6. ~NoneFor(q, k)
  BY <1>1 DEF NoneFor, n
<1>7. FillOK(q, r, k, h) => FillOK(p, r, k, h)
  <2> SUFFICES ASSUME FillOK(q, r, k, h) PROVE FillOK(p, r, k, h)
    OBVIOUS
  <2>1. ASSUME NEW i \in 1..(n - 1), NEW j \in 1..(n - 1), Fills(p[i], k), Fills(p[j], k)
        PROVE  i = j
    <3>1. i + 1 = j + 1
      BY <1>4, <2>1 DEF FillOK, n
    <3> QED BY <1>1, <3>1
  <2> QED BY <1>1, <1>5, <2>1 DEF FillOK
<1>8. Unraced(q, r, k, h, v) => Unraced(p, r, k, h, x)
  <2> SUFFICES ASSUME Unraced(q, r, k, h, v) PROVE Unraced(p, r, k, h, x)
    OBVIOUS
  <2>1. ASSUME NEW i \in 1..(n - 1), Fills(p[i], k), NEW j \in (i + 1)..(n - 1)
        PROVE  p[j].key # k
    <3>1. i + 1 \in 1..n /\ j + 1 \in ((i + 1) + 1)..n /\ j \in 1..(n - 1)
      BY <1>1
    <3> QED BY <1>4, <2>1, <3>1 DEF Unraced, n
  <2>2. \A i \in 1..Len(r) : r[i].key # k
    BY <1>6 DEF Unraced
  <2> QED BY <1>1, <1>2, <1>5, <2>1, <2>2 DEF Unraced
<1> QED BY <1>7, <1>8 DEF p, x

(* or its fill, whose reply is on its way then. *)
LEMMA FillExecuted ==
  ASSUME NEW C, NEW q \in Seq(C), q # <<>>, NEW R, NEW r \in Seq(R), NEW y \in R,
         NEW k, NEW h, NEW v,
         Fills(Head(q), k), y.key = k, y.value = v, FillOK(q, r, k, h)
  PROVE  /\ FillOK(Tail(q), Append(r, y), k, h)
         /\ Unraced(q, r, k, h, v) => Unraced(Tail(q), Append(r, y), k, h, v)
<1> DEFINE n == Len(q)
           p == Tail(q)
           m == Len(r)
           e == Append(r, y)
<1>1. /\ Head(q) = q[1] /\ n \in Nat \ {0} /\ Len(p) = n - 1
      /\ \A i \in 1..(n - 1) : p[i] = q[i + 1]
  BY TailOf
<1>2. /\ Len(e) = m + 1 /\ m \in Nat /\ e[m + 1] = y /\ \A i \in 1..m : e[i] = r[i]
      /\ \A i \in 1..(m + 1) : i \in 1..m \/ i = m + 1
  BY AppendTo
<1> HIDE DEF p, n, e
<1>3. Asked(q, k) /\ NoneFor(r, k) /\ k \in DOMAIN h
  BY <1>1 DEF Asked, FillOK, n
<1>4. \A i \in 1..(n - 1) : p[i] = q[i + 1] /\ i + 1 \in 1..n /\ i + 1 # 1 /\ 1 \in 1..n
  BY <1>1
<1>5. ~Asked(p, k)
  BY <1>1, <1>4 DEF Asked, FillOK, n
<1>6. \A i \in 1..(m + 1) : e[i].key = k => i = m + 1 /\ e[i] = y
  BY <1>2, <1>3 DEF NoneFor
<1>7. ~NoneFor(e, k)
  BY <1>2 DEF NoneFor
<1>8. FillOK(p, e, k, h)
  <2>1. \A i \in 1..(n - 1) : ~Fills(p[i], k)
    BY <1>1, <1>5 DEF Asked
  <2> QED BY <1>1, <1>2, <1>3, <1>5, <1>6, <2>1 DEF FillOK
<1>9. Unraced(q, r, k, h, v) => Unraced(p, e, k, h, v)
  <2> SUFFICES ASSUME Unraced(q, r, k, h, v) PROVE Unraced(p, e, k, h, v)
    OBVIOUS
  <2>1. NoneFor(p, k)
    <3>1. \A j \in 2..n : q[j].key # k
      BY <1>1 DEF Unraced, n
    <3>2. \A i \in 1..(n - 1) : i + 1 \in 2..n
      BY <1>1
    <3> QED BY <1>1, <3>1, <3>2 DEF NoneFor
  <2>2. \A i \in 1..(n - 1) : ~Fills(p[i], k)
    BY <1>1, <1>5 DEF Asked
  <2> QED BY <1>1, <1>2, <1>6, <1>7, <2>1, <2>2 DEF Unraced
<1> QED BY <1>8, <1>9 DEF p, e

(* A reply is on its way for another key, *)
LEMMA OtherReply ==
  ASSUME NEW R, NEW r \in Seq(R), NEW y \in R, NEW q, NEW k, NEW h, NEW v, y.key # k
  PROVE  /\ FillOK(q, r, k, h) => FillOK(q, Append(r, y), k, h)
         /\ Unraced(q, r, k, h, v) => Unraced(q, Append(r, y), k, h, v)
<1> DEFINE m == Len(r)
           e == Append(r, y)
<1>1. /\ Len(e) = m + 1 /\ m \in Nat /\ e[m + 1] = y /\ \A i \in 1..m : e[i] = r[i]
      /\ \A i \in 1..(m + 1) : i \in 1..m \/ i = m + 1
  BY AppendTo
<1> HIDE DEF e
<1>2. \A i \in 1..(m + 1) : e[i].key = k => i \in 1..m /\ e[i] = r[i]
  BY <1>1
<1>3. NoneFor(e, k) <=> NoneFor(r, k)
  BY <1>1 DEF NoneFor
<1>4. FillOK(q, r, k, h) => FillOK(q, e, k, h)
  BY <1>1, <1>2, <1>3 DEF FillOK
<1>5. Unraced(q, r, k, h, v) => Unraced(q, e, k, h, v)
  BY <1>1, <1>2, <1>3 DEF Unraced
<1> QED BY <1>4, <1>5 DEF e

(* and comes, *)
LEMMA OtherReturned ==
  ASSUME NEW R, NEW r \in Seq(R), r # <<>>, NEW q, NEW k, NEW h, NEW v, Head(r).key # k
  PROVE  /\ FillOK(q, r, k, h) => FillOK(q, Tail(r), k, h)
         /\ Unraced(q, r, k, h, v) => Unraced(q, Tail(r), k, h, v)
<1> DEFINE m == Len(r)
           e == Tail(r)
<1>1. /\ Head(r) = r[1] /\ m \in Nat \ {0} /\ Len(e) = m - 1
      /\ \A i \in 1..(m - 1) : e[i] = r[i + 1] /\ i + 1 \in 1..m
  BY TailOf
<1> HIDE DEF e
<1>2. NoneFor(e, k) <=> NoneFor(r, k)
  <2>1. \A i \in 1..m : r[i].key = k => i - 1 \in 1..(m - 1) /\ r[i] = e[i - 1]
    <3> SUFFICES ASSUME NEW i \in 1..m, r[i].key = k PROVE i - 1 \in 1..(m - 1) /\ r[i] = e[i - 1]
      OBVIOUS
    <3>1. i - 1 \in 1..(m - 1) /\ (i - 1) + 1 = i
      BY <1>1
    <3> QED BY <1>1, <3>1
  <2> QED BY <1>1, <2>1 DEF NoneFor
<1>3. FillOK(q, r, k, h) => FillOK(q, e, k, h)
  <2> SUFFICES ASSUME FillOK(q, r, k, h) PROVE FillOK(q, e, k, h)
    OBVIOUS
  <2>1. ASSUME NEW i \in 1..(m - 1), NEW j \in 1..(m - 1), e[i].key = k, e[j].key = k
        PROVE  i = j
    <3>1. i + 1 = j + 1
      BY <1>1, <2>1 DEF FillOK
    <3> QED BY <1>1, <3>1
  <2> QED BY <1>1, <1>2, <2>1 DEF FillOK
<1>4. Unraced(q, r, k, h, v) => Unraced(q, e, k, h, v)
  BY <1>1, <1>2 DEF Unraced
<1> QED BY <1>3, <1>4 DEF e

(* or the reply for this key comes: the value in Redis. *)
LEMMA FillReturned ==
  ASSUME NEW C, NEW q \in Seq(C), NEW R, NEW r \in Seq(R), r # <<>>, NEW k, NEW h, NEW v,
         Head(r).key = k, FillOK(q, r, k, h), NEW g
  PROVE  /\ FillOK(q, Tail(r), k, g)
         /\ Unraced(q, r, k, h, v) /\ (k \in DOMAIN g => g[k] = Head(r).value)
              => Unraced(q, Tail(r), k, g, v)
<1> DEFINE m == Len(r)
           e == Tail(r)
<1>1. /\ Head(r) = r[1] /\ m \in Nat \ {0} /\ Len(e) = m - 1
      /\ \A i \in 1..(m - 1) : e[i] = r[i + 1] /\ i + 1 \in 1..m /\ i + 1 # 1 /\ 1 \in 1..m
  BY TailOf
<1> HIDE DEF e
<1>2. NoneFor(e, k)
  BY <1>1 DEF NoneFor, FillOK
<1>3. ~Asked(q, k)
  BY <1>1 DEF NoneFor, FillOK
<1>4. FillOK(q, e, k, g)
  BY <1>2, <1>3 DEF FillOK, NoneFor, Asked
<1>5. ASSUME Unraced(q, r, k, h, v), k \in DOMAIN g => g[k] = Head(r).value
      PROVE  Unraced(q, e, k, g, v)
  <2>1. r[1].value = v /\ NoneFor(q, k)
    BY <1>1, <1>5 DEF Unraced
  <2>2. k \in DOMAIN g => Replays(q, k, v, g[k])
    BY <1>1, <1>5, <2>1, ReplaysNothing
  <2> QED BY <1>2, <1>3, <2>2, UnracedWrites
<1> QED BY <1>4, <1>5 DEF e

(* Another process writes the key, and this one has no entry, or a fill     *)
(* that Redis has yet to execute.                                           *)
LEMMA WrittenByAnother ==
  ASSUME NEW q, NEW r, NEW k, NEW h, NEW v, NEW x,
         FillOK(q, r, k, h), k \notin DOMAIN h \/ Asked(q, k), Unraced(q, r, k, h, v)
  PROVE  Unraced(q, r, k, h, x)
<1>1. NoneFor(r, k)
  BY DEF FillOK
<1> QED BY <1>1 DEF Unraced, NoneFor

(* What is under way for the key and what Redis has for it stay; so does    *)
(* the entry.                                                               *)
LEMMA SameEntry ==
  ASSUME NEW q, NEW r, NEW k, NEW h, NEW g, NEW v,
         k \in DOMAIN g <=> k \in DOMAIN h, k \in DOMAIN h => g[k] = h[k]
  PROVE  /\ FillOK(q, r, k, h) => FillOK(q, r, k, g)
         /\ Unraced(q, r, k, h, v) => Unraced(q, r, k, g, v)
BY DEF FillOK, Unraced

-----------------------------------------------------------------------------
(* Types.                                                                   *)

Shape ==
  /\ TypeOK
  /\ DOMAIN cache = Processes /\ DOMAIN sent = Processes
  /\ DOMAIN replies = Processes /\ DOMAIN own = Processes
  /\ DOMAIN counting = Processes

LEMMA Numbers ==
  /\ Absent \in Int /\ NaN \in Int
  /\ \A n \in Int : Str(n) \in Value
  /\ Missing \in Value /\ Placeholder \in Value
  /\ \A v \in Value : AsNumber(v) \in Int
  /\ \A n \in Int : \A op : Counted(n, op) \in Int
<1>1. Absent \in Int /\ NaN \in Int
  BY DEF Absent, NaN
<1>2. ASSUME NEW n \in Int PROVE Str(n) \in Value
  BY <1>1 DEF Str, Value
<1>3. Missing \in Value
  BY <1>1, <1>2 DEF Missing
<1>4. Placeholder \in Value
  <2> DEFINE m == Missing
  <2>1. m \in [Fields -> Int]
    BY <1>3 DEF Value
  <2> HIDE DEF m
  <2>2. [m EXCEPT ![Index] = 1] = [f \in Fields |-> IF f = Index THEN 1 ELSE m[f]]
    BY <2>1
  <2>3. [f \in Fields |-> IF f = Index THEN 1 ELSE m[f]] \in [Fields -> Int]
    BY <2>1
  <2> QED BY <2>2, <2>3 DEF Placeholder, Value, m
<1>5. ASSUME NEW v \in Value PROVE AsNumber(v) \in Int
  <2> DEFINE f == CHOOSE f \in Fields : f # Index
  <2>1. f \in Fields
    BY FieldsAssumption
  <2> HIDE DEF f
  <2>2. v[f] \in Int
    BY <2>1 DEF Value
  <2> QED BY <1>1, <2>2 DEF AsNumber, f
<1>6. ASSUME NEW n \in Int, NEW op PROVE Counted(n, op) \in Int
  BY <1>1 DEF Counted
<1> QED BY <1>1, <1>2, <1>3, <1>4, <1>5, <1>6

LEMMA AppliedType ==
  ASSUME NEW v \in Value, NEW c \in Command
  PROVE  Applied(v, c) \in Value
<1>1. c.value \in Value
  BY DEF Command, Value
<1>2. [f \in Fields |-> IF c.value[f] # Absent THEN c.value[f] ELSE v[f]] \in Value
  BY <1>1 DEF Value
<1>3. Str(Counted(AsNumber(v), "incr")) \in Value /\ Str(Counted(AsNumber(v), "decr")) \in Value
  BY Numbers
<1> QED BY <1>1, <1>2, <1>3 DEF Applied

LEMMA CmdType ==
  ASSUME NEW op \in Writing \cup {"get"}, NEW k \in Keys, NEW v \in Value
  PROVE  Cmd(op, k, v) \in Command /\ Cmd(op, k, v).op = op /\ Cmd(op, k, v).key = k
         /\ Cmd(op, k, v).value = v
BY DEF Cmd, Command, Value

(* The cache with one entry more or changed, and with one less. *)
LEMMA StoredAt ==
  ASSUME NEW p \in Processes, NEW k, NEW v, DOMAIN cache = Processes
  PROVE  /\ DOMAIN Stored(p, k, v) = Processes
         /\ \A x \in Processes : x # p => Stored(p, k, v)[x] = cache[x]
         /\ DOMAIN (Stored(p, k, v)[p]) = DOMAIN cache[p] \cup {k}
         /\ Stored(p, k, v)[p][k] = v
         /\ \A j \in DOMAIN cache[p] : j # k => Stored(p, k, v)[p][j] = cache[p][j]
<1> DEFINE h == [j \in DOMAIN cache[p] \cup {k} |-> IF j = k THEN v ELSE cache[p][j]]
<1>1. /\ DOMAIN h = DOMAIN cache[p] \cup {k} /\ h[k] = v
      /\ \A j \in DOMAIN cache[p] : j # k => h[j] = cache[p][j]
  OBVIOUS
<1> HIDE DEF h
<1>2. Stored(p, k, v) = [cache EXCEPT ![p] = h]
  BY DEF Stored, h
<1>3. /\ DOMAIN Stored(p, k, v) = Processes /\ Stored(p, k, v)[p] = h
      /\ \A x \in Processes : x # p => Stored(p, k, v)[x] = cache[x]
  BY <1>2
<1> QED BY <1>1, <1>3

LEMMA DeletedAt ==
  ASSUME NEW p \in Processes, NEW k, DOMAIN cache = Processes
  PROVE  /\ DOMAIN Deleted(p, k) = Processes
         /\ \A x \in Processes : x # p => Deleted(p, k)[x] = cache[x]
         /\ DOMAIN (Deleted(p, k)[p]) = DOMAIN cache[p] \ {k}
         /\ \A j \in DOMAIN cache[p] : j # k => Deleted(p, k)[p][j] = cache[p][j]
<1> DEFINE h == [j \in DOMAIN cache[p] \ {k} |-> cache[p][j]]
<1>1. Deleted(p, k) = [cache EXCEPT ![p] = h]
  BY DEF Deleted
<1>2. /\ DOMAIN h = DOMAIN cache[p] \ {k}
      /\ \A j \in DOMAIN cache[p] : j # k => h[j] = cache[p][j]
  OBVIOUS
<1> HIDE DEF h
<1> QED BY <1>1, <1>2

LEMMA SentAt ==
  ASSUME NEW p \in Processes, NEW c \in Command, Shape, Send(p, c)
  PROVE  /\ DOMAIN sent' = Processes
         /\ \A x \in Processes : x # p => sent'[x] = sent[x]
         /\ sent'[p] = IF "cachedChannel" \in link[p] THEN Append(sent[p], c) ELSE sent[p]
         /\ \A x \in Processes : sent'[x] \in Seq(Command)
         /\ \A x \in Processes : "cachedChannel" \notin link[x] => sent'[x] = <<>>
<1>1. /\ DOMAIN sent' = Processes
      /\ \A x \in Processes : x # p => sent'[x] = sent[x]
      /\ sent'[p] = IF "cachedChannel" \in link[p] THEN Append(sent[p], c) ELSE sent[p]
  BY DEF Send, Shape
<1>2. sent[p] \in Seq(Command) /\ Append(sent[p], c) \in Seq(Command)
  BY DEF Shape, TypeOK
<1> QED BY <1>1, <1>2 DEF Shape, TypeOK

LEMMA SentOwnAt ==
  ASSUME NEW p \in Processes, NEW c \in Command, Shape, SendOwn(p, c)
  PROVE  /\ DOMAIN own' = Processes
         /\ \A x \in Processes : own'[x] \in Seq(Command)
         /\ \A x \in Processes : "client" \notin link[x] => own'[x] = <<>>
<1>1. /\ DOMAIN own' = Processes
      /\ \A x \in Processes : x # p => own'[x] = own[x]
      /\ own'[p] = IF "client" \in link[p] THEN Append(own[p], c) ELSE own[p]
  BY DEF SendOwn, Shape
<1>2. own[p] \in Seq(Command) /\ Append(own[p], c) \in Seq(Command)
  BY DEF Shape, TypeOK
<1> QED BY <1>1, <1>2 DEF Shape, TypeOK

CacheType(h) ==
  /\ DOMAIN h = Processes
  /\ \A x \in Processes : DOMAIN h[x] \subseteq Keys /\ \A j \in DOMAIN h[x] : h[x][j] \in Value

LEMMA CacheTypes ==
  ASSUME Shape, NEW p \in Processes, NEW k \in Keys
  PROVE  CacheType(cache) /\ CacheType(Deleted(p, k)) /\ \A v \in Value : CacheType(Stored(p, k, v))
<1>1. CacheType(cache)
  BY DEF Shape, TypeOK, CacheType
<1>2. CacheType(Deleted(p, k))
  <2>1. ASSUME NEW x \in Processes
        PROVE  /\ DOMAIN (Deleted(p, k)[x]) \subseteq Keys
               /\ \A j \in DOMAIN (Deleted(p, k)[x]) : Deleted(p, k)[x][j] \in Value
    BY <1>1, DeletedAt DEF CacheType
  <2> QED BY <1>1, <2>1, DeletedAt DEF CacheType
<1>3. ASSUME NEW v \in Value PROVE CacheType(Stored(p, k, v))
  <2>1. ASSUME NEW x \in Processes
        PROVE  /\ DOMAIN (Stored(p, k, v)[x]) \subseteq Keys
               /\ \A j \in DOMAIN (Stored(p, k, v)[x]) : Stored(p, k, v)[x][j] \in Value
    BY <1>1, StoredAt DEF CacheType
  <2> QED BY <1>1, <2>1, StoredAt DEF CacheType
<1> QED BY <1>1, <1>2, <1>3

LEMMA Bounds == MaxValue \in 0..49 /\ MaxWrites \in 0..49 /\ MaxBreaks \in 0..49
BY BoundsAssumption

LEMMA ShapeInit == Init => Shape
<1> SUFFICES ASSUME Init PROVE Shape
  OBVIOUS
<1>1. cache = [x \in Processes |-> << >>] /\ \A x \in Processes : cache[x] = << >>
  BY DEF Init
<1>2. redis \in [Keys -> Value]
  BY Numbers DEF Init
<1>3. writes \in 0..MaxWrites /\ breaks \in 0..MaxBreaks
  BY Bounds DEF Init
<1>4. DOMAIN << >> = {}
  OBVIOUS
<1>5. \A x \in Processes : DOMAIN cache[x] \subseteq Keys /\ \A j \in DOMAIN cache[x] : cache[x][j] \in Value
  BY <1>1, <1>4
<1>6. /\ DOMAIN sent = Processes /\ DOMAIN replies = Processes /\ DOMAIN own = Processes
      /\ \A x \in Processes : sent[x] = <<>> /\ replies[x] = <<>> /\ own[x] = <<>>
      /\ DOMAIN counting = Processes /\ \A x \in Processes : counting[x] = <<>>
      /\ link \in [Processes -> SUBSET {"cachedChannel", "client"}]
      /\ raced = {} /\ type \in [Keys -> {"string", "hash"}]
  BY DEF Init
<1>7. \A S : <<>> \in Seq(S)
  OBVIOUS
<1> QED BY <1>1, <1>2, <1>3, <1>5, <1>6, <1>7 DEF Shape, TypeOK

LEMMA ShapeStep == Shape /\ [Next]_vars => Shape'
<1> SUFFICES ASSUME Shape, [Next]_vars PROVE Shape'
  OBVIOUS
<1>t. /\ type \in [Keys -> {"string", "hash"}]
      /\ redis \in [Keys -> Value]
      /\ CacheType(cache)
      /\ DOMAIN sent = Processes /\ DOMAIN replies = Processes /\ DOMAIN own = Processes
      /\ DOMAIN counting = Processes
      /\ \A x \in Processes :
           /\ sent[x] \in Seq(Command) /\ own[x] \in Seq(Command)
           /\ counting[x] \in Seq(Count)
           /\ replies[x] \in Seq([key : Keys, value : Value])
           /\ "cachedChannel" \notin link[x] => sent[x] = <<>> /\ replies[x] = <<>>
           /\ "client" \notin link[x] => own[x] = <<>>
      /\ link \in [Processes -> SUBSET {"cachedChannel", "client"}]
      /\ raced \subseteq Processes \X Keys
      /\ writes \in 0..MaxWrites /\ breaks \in 0..MaxBreaks
  BY DEF Shape, TypeOK, CacheType
<1> DEFINE Rest ==
      /\ type' \in [Keys -> {"string", "hash"}]
      /\ redis' \in [Keys -> Value]
      /\ CacheType(cache')
      /\ DOMAIN sent' = Processes /\ DOMAIN replies' = Processes /\ DOMAIN own' = Processes
      /\ DOMAIN counting' = Processes
      /\ \A x \in Processes :
           /\ sent'[x] \in Seq(Command) /\ own'[x] \in Seq(Command)
           /\ counting'[x] \in Seq(Count)
           /\ replies'[x] \in Seq([key : Keys, value : Value])
           /\ "cachedChannel" \notin link'[x] => sent'[x] = <<>> /\ replies'[x] = <<>>
           /\ "client" \notin link'[x] => own'[x] = <<>>
      /\ link' \in [Processes -> SUBSET {"cachedChannel", "client"}]
      /\ raced' \subseteq Processes \X Keys
      /\ writes' \in 0..MaxWrites /\ breaks' \in 0..MaxBreaks
<1>g. Rest => Shape'
  BY DEF Shape, TypeOK, CacheType
<1>w. Write => writes' \in 0..MaxWrites
  BY <1>t, Bounds DEF Write
<1>b. Break => breaks' \in 0..MaxBreaks
  BY <1>t, Bounds DEF Break
<1>s. \A k \in Strings \cup Hashes : k \in Keys
  BY DEF Strings, Hashes
<1>e. \A S : <<>> \in Seq(S)
  OBVIOUS
<1>1. CASE UNCHANGED vars
  <2>1. Rest
    BY <1>1, <1>t DEF vars
  <2> QED BY <2>1, <1>g
<1>2. ASSUME NEW p \in Processes, BeginCacheListener(p) \/ Connect(p) PROVE Shape'
  <2>1. PICK l \in {"cachedChannel", "client"} : link' = [link EXCEPT ![p] = @ \cup {l}]
    BY <1>2 DEF BeginCacheListener, Connect
  <2>2. /\ link' \in [Processes -> SUBSET {"cachedChannel", "client"}]
        /\ \A x \in Processes : link[x] \subseteq link'[x]
    BY <2>1, <1>t
  <2>3. UNCHANGED <<type, redis, cache, counting, sent, replies, own, raced, writes, breaks>>
    BY <1>2 DEF BeginCacheListener, Connect
  <2>4. Rest
    BY <1>t, <2>2, <2>3
  <2> QED BY <2>4, <1>g
<1>3. ASSUME NEW p \in Processes, EndCacheListener(p) PROVE Shape'
  <2>1. raced' \subseteq Processes \X Keys
    BY <1>3, <1>t DEF EndCacheListener, Race
  <2>2. /\ DOMAIN sent' = Processes /\ DOMAIN replies' = Processes
        /\ sent'[p] = <<>> /\ replies'[p] = <<>>
        /\ \A x \in Processes : x # p => sent'[x] = sent[x] /\ replies'[x] = replies[x]
    BY <1>3, <1>t DEF EndCacheListener
  <2>3. Rest
    BY <1>3, <1>t, <1>b, <1>e, <2>1, <2>2 DEF EndCacheListener
  <2> QED BY <2>3, <1>g
<1>4. ASSUME NEW p \in Processes, ClientEnds(p) PROVE Shape'
  <2>1. /\ DOMAIN own' = Processes /\ own'[p] = <<>>
        /\ \A x \in Processes : x # p => own'[x] = own[x]
    BY <1>4, <1>t DEF ClientEnds
  <2>2. Rest
    BY <1>4, <1>t, <1>b, <1>e, <2>1 DEF ClientEnds
  <2> QED BY <2>2, <1>g
<1>5. ASSUME NEW p \in Processes, FillReturns(p) PROVE Shape'
  <2>1. replies[p] # <<>> /\ replies' = [replies EXCEPT ![p] = Tail(@)]
    BY <1>5 DEF FillReturns
  <2>2. Head(replies[p]) \in [key : Keys, value : Value] /\ Tail(replies[p]) \in Seq([key : Keys, value : Value])
    BY <1>t, <2>1, TailOf
  <2>3. Head(replies[p]).key \in Keys /\ Head(replies[p]).value \in Value
    BY <2>2
  <2>4. CacheType(cache')
    BY <1>5, <2>3, CacheTypes DEF FillReturns
  <2>5. /\ DOMAIN replies' = Processes /\ replies'[p] = Tail(replies[p])
        /\ \A x \in Processes : x # p => replies'[x] = replies[x]
    BY <2>1, <1>t
  <2>6. Rest
    BY <1>5, <1>t, <2>1, <2>2, <2>4, <2>5 DEF FillReturns
  <2> QED BY <2>6, <1>g
<1>6. ASSUME NEW p \in Processes, ExecuteCached(p) PROVE Shape'
  <2> DEFINE c == Head(sent[p])
             y == [key |-> c.key, value |-> redis[c.key]]
  <2>1. sent[p] # <<>> /\ sent' = [sent EXCEPT ![p] = Tail(@)]
    BY <1>6 DEF ExecuteCached
  <2>2. c \in Command /\ Tail(sent[p]) \in Seq(Command)
    BY <1>t, <2>1, TailOf
  <2>3. /\ redis' = [redis EXCEPT ![c.key] = Applied(redis[c.key], c)]
        /\ replies' = IF c.op = "get" THEN [replies EXCEPT ![p] = Append(replies[p], y)] ELSE replies
        /\ raced' = raced \cup (IF c.op = "get" THEN {} ELSE MissedBy(Processes \ {p}, c.key))
    BY <1>6 DEF ExecuteCached, Race
  <2> HIDE DEF c
  <2>4. c.key \in Keys /\ redis[c.key] \in Value
    BY <1>t, <2>2 DEF Command
  <2>5. redis' \in [Keys -> Value]
    BY <1>t, <2>2, <2>3, <2>4, AppliedType
  <2>6. y \in [key : Keys, value : Value]
    BY <2>4
  <2> HIDE DEF y
  <2>7. raced' \subseteq Processes \X Keys
    BY <1>t, <2>3, <2>4 DEF MissedBy
  <2>8. /\ DOMAIN replies' = Processes
        /\ \A x \in Processes : x # p => replies'[x] = replies[x]
        /\ replies'[p] = Append(replies[p], y) \/ replies'[p] = replies[p]
    BY <1>t, <2>3
  <2>9. \A x \in Processes : replies'[x] \in Seq([key : Keys, value : Value])
    <3>1. replies[p] \in Seq([key : Keys, value : Value])
      BY <1>t
    <3>2. Append(replies[p], y) \in Seq([key : Keys, value : Value])
      BY <2>6, <3>1, AppendTo
    <3> QED BY <1>t, <2>8, <3>2
  <2>10. /\ DOMAIN sent' = Processes /\ sent'[p] = Tail(sent[p])
         /\ \A x \in Processes : x # p => sent'[x] = sent[x]
    BY <1>t, <2>1
  <2>11. "cachedChannel" \in link[p]
    BY <1>t, <2>1
  <2>12. UNCHANGED <<type, cache, counting, own, link, writes, breaks>>
    BY <1>6 DEF ExecuteCached
  <2>13. Rest
    BY <1>t, <2>2, <2>5, <2>7, <2>8, <2>9, <2>10, <2>11, <2>12
  <2> QED BY <2>13, <1>g
<1>7. ASSUME NEW p \in Processes, ExecuteOwn(p) PROVE Shape'
  <2> DEFINE c == Head(own[p])
  <2>1. own[p] # <<>> /\ own' = [own EXCEPT ![p] = Tail(@)]
    BY <1>7 DEF ExecuteOwn
  <2>2. c \in Command /\ Tail(own[p]) \in Seq(Command)
    BY <1>t, <2>1, TailOf
  <2>3. /\ redis' = [redis EXCEPT ![c.key] = Applied(redis[c.key], c)]
        /\ raced' = raced \cup MissedBy(Processes, c.key)
    BY <1>7 DEF ExecuteOwn, Race
  <2> HIDE DEF c
  <2>4. c.key \in Keys /\ redis[c.key] \in Value
    BY <1>t, <2>2 DEF Command
  <2>5. redis' \in [Keys -> Value]
    BY <1>t, <2>2, <2>3, <2>4, AppliedType
  <2>6. raced' \subseteq Processes \X Keys
    BY <1>t, <2>3, <2>4 DEF MissedBy
  <2>7. /\ DOMAIN own' = Processes /\ own'[p] = Tail(own[p])
        /\ \A x \in Processes : x # p => own'[x] = own[x]
    BY <1>t, <2>1
  <2>8. "client" \in link[p]
    BY <1>t, <2>1
  <2>9. Rest
    BY <1>7, <1>t, <2>2, <2>5, <2>6, <2>7, <2>8 DEF ExecuteOwn
  <2> QED BY <2>9, <1>g
<1>8. ASSUME NEW p \in Processes, NEW k \in Keys, Get(p, k) PROVE Shape'
  <2>1. Cmd("get", k, Missing) \in Command
    BY CmdType, Numbers
  <2>2. CacheType(cache')
    BY <1>8, CacheTypes, Numbers DEF Get
  <2>3. /\ DOMAIN sent' = Processes /\ \A x \in Processes : sent'[x] \in Seq(Command)
        /\ \A x \in Processes : "cachedChannel" \notin link[x] => sent'[x] = <<>>
    BY <1>8, <2>1, SentAt DEF Get
  <2>4. raced' \subseteq Processes \X Keys
    BY <1>8, <1>t DEF Get
  <2>5. UNCHANGED <<type, redis, counting, replies, own, link, writes, breaks>>
    BY <1>8 DEF Get
  <2>6. Rest
    BY <1>t, <2>2, <2>3, <2>4, <2>5
  <2> QED BY <2>6, <1>g
<1>9. ASSUME NEW p \in Processes, NEW k \in Keys, Expire(p, k) PROVE Shape'
  <2>1. CacheType(cache')
    BY <1>9, CacheTypes DEF Expire
  <2>2. Rest
    BY <1>9, <1>t, <2>1 DEF Expire
  <2> QED BY <2>2, <1>g
<1>o. ASSUME NEW p \in Processes, NEW k \in Keys, NEW v \in Value, NEW c \in Command,
             OwnerWrites(p, k, v, c), UNCHANGED <<type, redis, replies, link, breaks>>,
             writes' \in 0..MaxWrites, raced' \subseteq Processes \X Keys, DOMAIN counting' = Processes,
             \A x \in Processes : counting'[x] \in Seq(Count)
      PROVE  Shape'
  <2>1. CacheType(cache')
    BY <1>o, CacheTypes DEF OwnerWrites
  <2>2. /\ DOMAIN sent' = Processes /\ \A x \in Processes : sent'[x] \in Seq(Command)
        /\ \A x \in Processes : "cachedChannel" \notin link[x] => sent'[x] = <<>>
    BY <1>o, SentAt DEF OwnerWrites
  <2>3. Rest
    BY <1>o, <1>t, <2>1, <2>2 DEF OwnerWrites
  <2> QED BY <2>3, <1>g
<1>r. ASSUME NEW p \in Processes, NEW c \in Command, SendOwn(p, c), CacheType(cache'), Write,
             UNCHANGED <<type, redis, counting, replies, link, breaks, sent>>, raced' \subseteq Processes \X Keys
      PROVE  Shape'
  <2>1. /\ DOMAIN own' = Processes /\ \A x \in Processes : own'[x] \in Seq(Command)
        /\ \A x \in Processes : "client" \notin link[x] => own'[x] = <<>>
    BY <1>r, SentOwnAt
  <2>2. Rest
    BY <1>r, <1>t, <1>w, <2>1
  <2> QED BY <2>2, <1>g
<1>10. ASSUME NEW p \in Processes, NEW k \in Strings, NEW n \in 1..MaxValue, Set(p, k, n)
       PROVE  Shape'
  <2>1. k \in Keys /\ Str(n) \in Value
    BY <1>s, Bounds, Numbers
  <2>2. Cmd("set", k, Str(n)) \in Command
    BY <2>1, CmdType DEF Writing
  <2>3. CASE p \in Owners
    <3>1. raced' \subseteq Processes \X Keys
      BY <1>10, <1>t, <2>1, <2>3 DEF Set
    <3>2. OwnerWrites(p, k, Str(n), Cmd("set", k, Str(n))) /\ Write
          /\ UNCHANGED <<type, redis, counting, replies, link, breaks>>
      BY <1>10, <2>3 DEF Set
    <3> QED BY <1>o, <1>t, <1>w, <2>1, <2>2, <3>1, <3>2
  <2>4. CASE p \notin Owners
    <3>1. /\ SendOwn(p, Cmd("set", k, Str(n))) /\ Write /\ cache' = cache
          /\ UNCHANGED <<type, redis, counting, replies, link, breaks, sent, raced>>
      BY <1>10, <2>4 DEF Set, RenterWrites, InvalidateCache
    <3> QED BY <1>r, <1>t, <2>2, <3>1
  <2> QED BY <2>3, <2>4
<1>11. ASSUME NEW p \in Processes, NEW k \in Strings, NEW op \in {"incr", "decr"}, IncrOrDecr(p, k, op)
       PROVE  Shape'
  <2> DEFINE c == Cmd(op, k, Missing)
             z == [op |-> op, key |-> k, value |-> Read(p, k)]
  <2>1. k \in Keys
    BY <1>s
  <2>2. Read(p, k) \in Int
    BY <1>t, <2>1, Numbers DEF Read, Has, CacheType
  <2>3. z \in Count
    BY <2>1, <2>2 DEF Count
  <2>4. c \in Command
    BY <2>1, CmdType, Numbers DEF Writing
  <2> HIDE DEF z
  <2>5. CASE p \in Owners
    <3>1. /\ counting' = [counting EXCEPT ![p] = Append(@, z)] /\ Write
          /\ UNCHANGED <<type, redis, cache, sent, replies, own, link, raced, breaks>>
      BY <1>11, <2>5 DEF IncrOrDecr, z
    <3>2. Append(counting[p], z) \in Seq(Count)
      BY <1>t, <2>3, AppendTo
    <3>3. /\ DOMAIN counting' = Processes /\ counting'[p] = Append(counting[p], z)
          /\ \A x \in Processes : x # p => counting'[x] = counting[x]
      BY <1>t, <3>1
    <3>4. Rest
      BY <1>t, <1>w, <3>1, <3>2, <3>3
    <3> QED BY <3>4, <1>g
  <2>6. CASE p \notin Owners
    <3>1. /\ SendOwn(p, c) /\ Write /\ cache' = cache
          /\ UNCHANGED <<type, redis, counting, replies, link, breaks, sent, raced>>
      BY <1>11, <2>6 DEF IncrOrDecr, RenterWrites, InvalidateCache
    <3> QED BY <1>r, <1>t, <2>4, <3>1
  <2> QED BY <2>5, <2>6
<1>13. ASSUME NEW p \in Processes, CountWritten(p) PROVE Shape'
  <2> DEFINE z == Head(counting[p])
             v == Str(Counted(z.value, z.op))
             c == Cmd(z.op, z.key, Missing)
  <2>1. counting[p] # <<>> /\ counting' = [counting EXCEPT ![p] = Tail(@)]
    BY <1>13 DEF CountWritten
  <2>2. z \in Count /\ Tail(counting[p]) \in Seq(Count)
    BY <1>t, <2>1, TailOf
  <2>3. /\ OwnerWrites(p, z.key, v, c) /\ UNCHANGED <<type, redis, replies, link, writes, breaks>>
        /\ RaceIf(p, z.key, Unreplicated(p, z.key) \/ FromNothing(p, z.key) \/ Outdated(p, z))
    BY <1>13 DEF CountWritten
  <2> HIDE DEF z
  <2>4. z.key \in Keys /\ z.op \in {"incr", "decr"} /\ z.value \in Int
    BY <2>2 DEF Count
  <2>5. v \in Value /\ c \in Command
    BY <2>4, CmdType, Numbers DEF Writing
  <2>6. raced' \subseteq Processes \X Keys
    BY <1>t, <2>3, <2>4 DEF RaceIf, Race
  <2>7. DOMAIN counting' = Processes /\ \A x \in Processes : counting'[x] \in Seq(Count)
    BY <1>t, <2>1, <2>2
  <2>8. writes' \in 0..MaxWrites
    BY <1>t, <2>3
  <2> HIDE DEF v, c
  <2> QED BY <1>o, <2>3, <2>4, <2>5, <2>6, <2>7, <2>8
<1>12. ASSUME NEW p \in Processes, NEW k \in Hashes, NEW f \in Fields \ {Index},
              NEW n \in 1..MaxValue, SetHash(p, k, f, n)
       PROVE  Shape'
  <2> DEFINE h == IF Has(p, k) THEN cache[p][k] ELSE Missing
             v == [h EXCEPT ![f] = n]
             c == Cmd("hset", k, v)
             aliased == Has(p, k) /\ h # Placeholder
  <2>1. k \in Keys
    BY <1>s
  <2>2. h \in Value
    BY <1>t, <2>1, Numbers DEF Has, CacheType
  <2>3. n \in Int /\ f \in Fields
    BY Bounds
  <2> HIDE DEF h
  <2>4. v \in Value
    BY <2>2, <2>3 DEF Value
  <2>5. c \in Command
    BY <2>1, <2>4, CmdType DEF Writing
  <2>6. CASE p \in Owners
    <3>1. /\ OwnerWrites(p, k, v, c) /\ Write
          /\ RaceIf(p, k, Unreplicated(p, k) \/ FromNothing(p, k))
          /\ UNCHANGED <<type, redis, counting, replies, link, breaks>>
      BY <1>12, <2>6 DEF SetHash, h
    <3>2. raced' \subseteq Processes \X Keys
      BY <1>t, <2>1, <3>1 DEF RaceIf, Race
    <3> QED BY <1>o, <1>t, <1>w, <2>1, <2>4, <2>5, <3>1, <3>2
  <2>7. CASE p \notin Owners
    <3>1. /\ SendOwn(p, c) /\ Write /\ cache' = IF aliased THEN Stored(p, k, v) ELSE cache
          /\ RaceIf(p, k, aliased)
          /\ UNCHANGED <<type, redis, counting, replies, link, breaks, sent>>
      BY <1>12, <2>7 DEF SetHash, h
    <3>2. raced' \subseteq Processes \X Keys
      BY <1>t, <2>1, <3>1 DEF RaceIf, Race
    <3>3. CacheType(cache')
      BY <2>1, <2>4, <3>1, CacheTypes
    <3> QED BY <1>r, <2>5, <3>1, <3>2, <3>3
  <2> QED BY <2>6, <2>7
<1> QED
  BY <1>1, <1>2, <1>3, <1>4, <1>5, <1>6, <1>7, <1>8, <1>9, <1>10, <1>11, <1>12, <1>13 DEF Next

-----------------------------------------------------------------------------
(* The entries.                                                             *)

EntryOK(x, j) ==
  /\ FillOK(sent[x], replies[x], j, cache[x])
  /\ <<x, j>> \notin raced => Unraced(sent[x], replies[x], j, cache[x], redis[j])

CInv == Shape /\ \A x \in Processes, j \in Keys : EntryOK(x, j)

LEMMA Underway ==
  ASSUME NEW p, NEW k
  PROVE  /\ Pending(p, k, {"get"}) <=> Asked(sent[p], k)
         /\ Filling(p, k) <=> Asked(sent[p], k) \/ ~NoneFor(replies[p], k)
BY DEF Pending, Filling, Asked, Fills, NoneFor

LEMMA NothingUnderway ==
  ASSUME Shape, NEW p \in Processes, NEW k, ~Filling(p, k), ~Replicating(p, k)
  PROVE  NoneFor(sent[p], k)
<1>1. sent[p] \in Seq(Command)
  BY DEF Shape, TypeOK
<1>2. \A c \in Command : c.op \in Writing \cup {"get"}
  BY DEF Command
<1>3. \A i \in 1..Len(sent[p]) : sent[p][i].op \in Writing \cup {"get"}
  BY <1>1, <1>2
<1> QED BY <1>3 DEF Filling, Replicating, Pending, NoneFor

(* An entry that a step has nothing to do with, *)
LEMMA Untouched ==
  ASSUME NEW x, NEW j, EntryOK(x, j), sent'[x] = sent[x], replies'[x] = replies[x],
         redis'[j] = redis[j], j \in DOMAIN cache'[x] <=> j \in DOMAIN cache[x],
         j \in DOMAIN cache[x] => cache'[x][j] = cache[x][j], <<x, j>> \in raced => <<x, j>> \in raced'
  PROVE  EntryOK(x, j)'
BY SameEntry DEF EntryOK

(* or that sends a command for another key. *)
LEMMA SentForAnother ==
  ASSUME NEW x, NEW j, NEW c \in Command, EntryOK(x, j), c.key # j, sent[x] \in Seq(Command),
         sent'[x] = Append(sent[x], c), replies'[x] = replies[x],
         redis'[j] = redis[j], j \in DOMAIN cache'[x] <=> j \in DOMAIN cache[x],
         j \in DOMAIN cache[x] => cache'[x][j] = cache[x][j], <<x, j>> \in raced => <<x, j>> \in raced'
  PROVE  EntryOK(x, j)'
<1>1. /\ FillOK(Append(sent[x], c), replies[x], j, cache[x])
      /\ <<x, j>> \notin raced => Unraced(Append(sent[x], c), replies[x], j, cache[x], redis[j])
  BY OtherSent DEF EntryOK
<1> QED BY <1>1, SameEntry, ZenonT(40) DEF EntryOK

LEMMA EntriesInit == Init => \A x \in Processes, j \in Keys : EntryOK(x, j)
<1> SUFFICES ASSUME Init, NEW x \in Processes, NEW j \in Keys PROVE EntryOK(x, j)
  OBVIOUS
<1>1. sent[x] = <<>> /\ replies[x] = <<>> /\ DOMAIN cache[x] = {}
  BY DEF Init
<1>2. NoneFor(<<>>, j) /\ ~Asked(<<>>, j)
  BY DEF NoneFor, Asked
<1> QED BY <1>1, <1>2 DEF EntryOK, FillOK, Unraced, Asked, NoneFor

LEMMA EntriesLinked ==
  ASSUME CInv, NEW p \in Processes, NEW x \in Processes, NEW j \in Keys,
         BeginCacheListener(p) \/ Connect(p) \/ ClientEnds(p) \/ UNCHANGED vars
  PROVE  EntryOK(x, j)'
<1>1. UNCHANGED <<redis, cache, sent, replies, raced>>
  BY DEF BeginCacheListener, Connect, ClientEnds, vars
<1>2. EntryOK(x, j)
  BY DEF CInv
<1>3. sent'[x] = sent[x] /\ replies'[x] = replies[x] /\ redis'[j] = redis[j] /\ cache'[x] = cache[x]
  BY <1>1
<1> QED BY <1>1, <1>2, <1>3, Untouched

LEMMA EntriesEnd ==
  ASSUME CInv, NEW p \in Processes, NEW x \in Processes, NEW j \in Keys, EndCacheListener(p)
  PROVE  EntryOK(x, j)'
<1>1. /\ DOMAIN sent = Processes /\ DOMAIN replies = Processes /\ EntryOK(x, j) /\ Shape
      /\ sent[x] \in Seq(Command)
  BY DEF CInv, Shape, TypeOK
<1>2. /\ sent' = [sent EXCEPT ![p] = <<>>] /\ replies' = [replies EXCEPT ![p] = <<>>]
      /\ raced' = raced \cup {<<p, k>> : k \in {k \in Keys : Filling(p, k) \/ Replicating(p, k)}}
      /\ redis' = redis /\ cache' = cache
  BY DEF EndCacheListener, Race
<1>3. CASE x # p
  <2>1. sent'[x] = sent[x] /\ replies'[x] = replies[x] /\ raced \subseteq raced'
    BY <1>1, <1>2, <1>3
  <2> QED BY <1>1, <1>2, <2>1, Untouched
<1>4. CASE x = p
  <2>1. sent'[x] = <<>> /\ replies'[x] = <<>>
    BY <1>1, <1>2, <1>4
  <2>2. NoneFor(<<>>, j) /\ ~Asked(<<>>, j)
    BY DEF NoneFor, Asked
  <2>3. FillOK(<<>>, <<>>, j, cache[x])
    BY <2>2 DEF FillOK
  <2>4. ASSUME <<x, j>> \notin raced' PROVE Unraced(<<>>, <<>>, j, cache[x], redis[j])
    <3>1. <<x, j>> \notin raced /\ ~Filling(x, j) /\ ~Replicating(x, j)
      BY <1>2, <1>4, <2>4
    <3>2. NoneFor(sent[x], j) /\ ~Asked(sent[x], j) /\ NoneFor(replies[x], j)
      BY <1>1, <3>1, NothingUnderway, Underway
    <3>3. j \in DOMAIN cache[x] => Replays(sent[x], j, redis[j], cache[x][j])
      BY <1>1, <3>1, <3>2 DEF EntryOK, Unraced
    <3>4. j \in DOMAIN cache[x] => cache[x][j] = redis[j]
      BY <1>1, <3>2, <3>3, ReplayedNothing
    <3>5. <<>> \in Seq(Command)
      OBVIOUS
    <3>6. Replays(<<>>, j, redis[j], redis[j])
      BY <2>2, <3>5, ReplaysNothing
    <3> QED BY <2>2, <3>4, <3>6, UnracedWrites
  <2> QED BY <1>2, <2>1, <2>3, <2>4 DEF EntryOK
<1> QED BY <1>3, <1>4

LEMMA EntriesExpire ==
  ASSUME CInv, NEW p \in Processes, NEW k \in Keys, NEW x \in Processes, NEW j \in Keys, Expire(p, k)
  PROVE  EntryOK(x, j)'
<1>1. /\ DOMAIN cache = Processes /\ EntryOK(x, j) /\ ~Filling(p, k) /\ cache' = Deleted(p, k)
      /\ UNCHANGED <<redis, sent, replies, raced>>
  BY DEF CInv, Shape, Expire
<1>2. CASE x # p \/ j # k
  <2>1. /\ j \in DOMAIN cache'[x] <=> j \in DOMAIN cache[x]
        /\ j \in DOMAIN cache[x] => cache'[x][j] = cache[x][j]
    BY <1>1, <1>2, DeletedAt
  <2> QED BY <1>1, <2>1, Untouched
<1>3. CASE x = p /\ j = k
  <2>1. j \notin DOMAIN cache'[x]
    BY <1>1, <1>3, DeletedAt
  <2>2. ~Asked(sent[x], j) /\ NoneFor(replies[x], j)
    BY <1>1, <1>3, Underway
  <2> QED BY <1>1, <2>1, <2>2 DEF EntryOK, FillOK, Unraced, Asked, NoneFor
<1> QED BY <1>2, <1>3

LEMMA EntriesGet ==
  ASSUME CInv, NEW p \in Processes, NEW k \in Keys, NEW x \in Processes, NEW j \in Keys, Get(p, k)
  PROVE  EntryOK(x, j)'
<1> DEFINE c == Cmd("get", k, Missing)
           linked == "cachedChannel" \in link[p]
<1>1. /\ DOMAIN cache = Processes /\ EntryOK(x, j) /\ Shape /\ k \notin DOMAIN cache[p]
      /\ cache' = Stored(p, k, Placeholder) /\ Send(p, c)
      /\ raced' = IF linked THEN raced \ {<<p, k>>} ELSE raced \cup {<<p, k>>}
      /\ UNCHANGED <<redis, replies>> /\ sent[x] \in Seq(Command)
  BY DEF CInv, Shape, TypeOK, Get, Has
<1>2. c \in Command /\ c.key = k /\ c.op = "get"
  BY CmdType, Numbers DEF Writing
<1> HIDE DEF c
<1>3. /\ x # p => sent'[x] = sent[x]
      /\ sent'[p] = IF linked THEN Append(sent[p], c) ELSE sent[p]
  BY <1>1, <1>2, SentAt
<1>4. CASE x # p \/ j # k
  <2>1. /\ j \in DOMAIN cache'[x] <=> j \in DOMAIN cache[x]
        /\ j \in DOMAIN cache[x] => cache'[x][j] = cache[x][j]
    BY <1>1, <1>4, StoredAt
  <2>2. <<x, j>> \in raced => <<x, j>> \in raced'
    BY <1>1, <1>4
  <2>3. CASE x = p /\ linked
    BY <1>1, <1>2, <1>3, <1>4, <2>1, <2>2, <2>3, SentForAnother
  <2>4. CASE ~(x = p /\ linked)
    BY <1>1, <1>3, <2>1, <2>2, <2>4, Untouched
  <2> QED BY <2>3, <2>4
<1>5. CASE x = p /\ j = k
  <2>1. k \in DOMAIN cache'[p]
    BY <1>1, StoredAt
  <2>2. FillOK(sent[p], replies[p], k, cache[p])
    BY <1>1, <1>5 DEF EntryOK
  <2>3. CASE linked
    <3>1. /\ FillOK(Append(sent[p], c), replies[p], k, cache'[p])
          /\ Unraced(Append(sent[p], c), replies[p], k, cache'[p], redis[k])
      BY <1>1, <1>2, <1>5, <2>1, <2>2, FillSent DEF Fills
    <3> QED BY <1>1, <1>3, <1>5, <2>3, <3>1 DEF EntryOK
  <2>4. CASE ~linked
    <3>1. FillOK(sent[p], replies[p], k, cache'[p])
      BY <2>1, <2>2 DEF FillOK
    <3>2. <<p, k>> \in raced'
      BY <1>1, <2>4
    <3> QED BY <1>1, <1>3, <1>5, <2>4, <3>1, <3>2 DEF EntryOK
  <2> QED BY <2>3, <2>4
<1> QED BY <1>4, <1>5

LEMMA EntriesFilled ==
  ASSUME CInv, NEW p \in Processes, NEW x \in Processes, NEW j \in Keys, FillReturns(p)
  PROVE  EntryOK(x, j)'
<1> DEFINE r == Head(replies[p])
           R == [key : Keys, value : Value]
<1>1. /\ DOMAIN cache = Processes /\ DOMAIN replies = Processes /\ EntryOK(x, j)
      /\ replies[p] # <<>> /\ replies' = [replies EXCEPT ![p] = Tail(@)]
      /\ UNCHANGED <<redis, sent, raced>>
      /\ sent[x] \in Seq(Command) /\ replies[p] \in Seq(R)
  BY DEF CInv, Shape, TypeOK, FillReturns
<1>2. cache' = Deleted(p, r.key) \/ cache' = Stored(p, r.key, r.value)
  BY DEF FillReturns
<1>3. /\ x # p => replies'[x] = replies[x]
      /\ replies'[p] = Tail(replies[p])
  BY <1>1
<1> HIDE DEF r, R
<1>4. CASE x # p \/ j # r.key
  <2>1. /\ j \in DOMAIN cache'[x] <=> j \in DOMAIN cache[x]
        /\ j \in DOMAIN cache[x] => cache'[x][j] = cache[x][j]
    BY <1>1, <1>2, <1>4, StoredAt, DeletedAt
  <2>2. CASE x = p
    <3>1. j # Head(replies[p]).key
      BY <1>4, <2>2 DEF r
    <3>2. /\ FillOK(sent[p], Tail(replies[p]), j, cache[p])
          /\ <<p, j>> \notin raced => Unraced(sent[p], Tail(replies[p]), j, cache[p], redis[j])
      BY <1>1, <2>2, <3>1, OtherReturned DEF EntryOK
    <3> QED BY <1>1, <1>3, <2>1, <2>2, <3>2, SameEntry DEF EntryOK
  <2>3. CASE x # p
    BY <1>1, <1>3, <2>1, <2>3, Untouched
  <2> QED BY <2>2, <2>3
<1>5. CASE x = p /\ j = r.key
  <2>1. j \in DOMAIN cache'[p] => cache'[p][j] = Head(replies[p]).value
    BY <1>1, <1>2, <1>5, StoredAt, DeletedAt DEF r
  <2>2. Head(replies[p]).key = j
    BY <1>5 DEF r
  <2>3. /\ FillOK(sent[p], Tail(replies[p]), j, cache'[p])
        /\ <<p, j>> \notin raced => Unraced(sent[p], Tail(replies[p]), j, cache'[p], redis[j])
    BY <1>1, <1>5, <2>1, <2>2, FillReturned DEF EntryOK
  <2> QED BY <1>1, <1>3, <1>5, <2>3 DEF EntryOK
<1> QED BY <1>4, <1>5

(* An owner's write: what it stores is what its command will come to. *)
LEMMA EntriesWritten ==
  ASSUME CInv, NEW p \in Processes, NEW k \in Keys, NEW v, NEW c \in Command,
         NEW x \in Processes, NEW j \in Keys,
         OwnerWrites(p, k, v, c), c.key = k, c.op # "get", UNCHANGED <<redis, replies>>,
         raced \ {<<p, k>>} \subseteq raced',
         <<p, k>> \notin raced' =>
           ~Unreplicated(p, k) /\ Replays(Append(sent[p], c), k, redis[k], v)
  PROVE  EntryOK(x, j)'
<1> DEFINE linked == "cachedChannel" \in link[p]
<1>1. /\ DOMAIN cache = Processes /\ EntryOK(x, j) /\ Shape
      /\ cache' = Stored(p, k, v) /\ Send(p, c) /\ sent[x] \in Seq(Command)
  BY DEF CInv, Shape, TypeOK, OwnerWrites
<1>2. /\ x # p => sent'[x] = sent[x]
      /\ sent'[p] = IF linked THEN Append(sent[p], c) ELSE sent[p]
  BY <1>1, SentAt
<1>3. CASE x # p \/ j # k
  <2>1. /\ j \in DOMAIN cache'[x] <=> j \in DOMAIN cache[x]
        /\ j \in DOMAIN cache[x] => cache'[x][j] = cache[x][j]
    BY <1>1, <1>3, StoredAt
  <2>2. <<x, j>> \in raced => <<x, j>> \in raced'
    BY <1>3
  <2>3. CASE x = p /\ linked
    BY <1>1, <1>2, <1>3, <2>1, <2>2, <2>3, SentForAnother
  <2>4. CASE ~(x = p /\ linked)
    BY <1>1, <1>2, <2>1, <2>2, <2>4, Untouched
  <2> QED BY <2>3, <2>4
<1>4. CASE x = p /\ j = k
  <2>1. k \in DOMAIN cache'[p] /\ cache'[p][k] = v
    BY <1>1, StoredAt
  <2>2. FillOK(sent[p], replies[p], k, cache[p])
    BY <1>1, <1>4 DEF EntryOK
  <2>3. /\ FillOK(Append(sent[p], c), replies[p], k, cache'[p])
        /\ ~Asked(sent[p], k) => ~Asked(Append(sent[p], c), k)
    <3>1. sent[p] \in Seq(Command)
      BY <1>1, <1>4
    <3>2. \A g : k \in DOMAIN g => /\ FillOK(Append(sent[p], c), replies[p], k, g)
                                   /\ ~Asked(sent[p], k) => ~Asked(Append(sent[p], c), k)
      BY <2>2, <3>1, WriteSent
    <3> QED BY <2>1, <3>2
  <2>4. FillOK(sent'[p], replies[p], k, cache'[p])
    <3>1. CASE linked
      BY <1>2, <2>3, <3>1
    <3>2. CASE ~linked
      BY <1>2, <2>1, <2>2, <3>2 DEF FillOK
    <3> QED BY <3>1, <3>2
  <2>5. ASSUME <<p, k>> \notin raced'
        PROVE  Unraced(sent'[p], replies[p], k, cache'[p], redis[k])
    <3>1. linked /\ ~Filling(p, k) /\ Replays(sent'[p], k, redis[k], v)
      BY <1>2, <2>5 DEF Unreplicated
    <3>2. ~Asked(sent[p], k) /\ NoneFor(replies[p], k)
      BY <3>1, Underway
    <3>3. ~Asked(sent'[p], k)
      BY <1>2, <2>3, <3>1, <3>2
    <3> QED BY <2>1, <3>1, <3>2, <3>3, UnracedWrites
  <2> QED BY <1>1, <1>4, <2>4, <2>5 DEF EntryOK
<1> QED BY <1>3, <1>4

(* Before the write an owner had what Redis would come to, or both have    *)
(* nothing.                                                                *)
LEMMA OwnerReplays ==
  ASSUME CInv, NEW p \in Processes, NEW k \in Keys, NEW c \in Command, c.key = k,
         ~Unreplicated(p, k), ~FromNothing(p, k), <<p, k>> \notin raced
  PROVE  Replays(Append(sent[p], c), k, redis[k],
                 Applied(IF Has(p, k) THEN cache[p][k] ELSE Missing, c))
<1> DEFINE w == IF Has(p, k) THEN cache[p][k] ELSE Missing
<1>1. /\ EntryOK(p, k) /\ Shape /\ sent[p] \in Seq(Command) /\ ~Filling(p, k)
  BY DEF CInv, Shape, TypeOK, Unreplicated
<1>2. ~Asked(sent[p], k) /\ NoneFor(replies[p], k)
  BY <1>1, Underway
<1>3. Replays(sent[p], k, redis[k], w)
  <2>1. CASE Has(p, k)
    BY <1>1, <1>2, <2>1 DEF EntryOK, Unraced, Has
  <2>2. CASE ~Has(p, k)
    <3>1. redis[k] = Missing /\ ~Replicating(p, k)
      BY <2>2 DEF FromNothing
    <3>2. NoneFor(sent[p], k)
      BY <1>1, <3>1, NothingUnderway
    <3> QED BY <1>1, <2>2, <3>1, <3>2, ReplaysNothing
  <2> QED BY <2>1, <2>2
<1> HIDE DEF w
<1>4. Replays(Append(sent[p], c), k, redis[k], IF c.key = k THEN Applied(w, c) ELSE w)
  BY <1>1, <1>3, ReplaysAppend
<1> QED BY <1>4 DEF w

(* A renter's write leaves its entry alone, or races it. *)
LEMMA EntriesRented ==
  ASSUME CInv, NEW x \in Processes, NEW j \in Keys, UNCHANGED <<redis, sent, replies>>,
         raced \subseteq raced', j \in DOMAIN cache'[x] <=> j \in DOMAIN cache[x],
         j \in DOMAIN cache[x] => cache'[x][j] = cache[x][j] \/ <<x, j>> \in raced'
  PROVE  EntryOK(x, j)'
<1>1. EntryOK(x, j)
  BY DEF CInv
<1>2. sent'[x] = sent[x] /\ replies'[x] = replies[x] /\ redis'[j] = redis[j]
  OBVIOUS
<1>3. CASE <<x, j>> \in raced'
  BY <1>1, <1>2, <1>3 DEF EntryOK, FillOK
<1>4. CASE <<x, j>> \notin raced'
  BY <1>1, <1>2, <1>4, Untouched
<1> QED BY <1>3, <1>4

LEMMA EntriesSet ==
  ASSUME CInv, NEW p \in Processes, NEW k \in Keys, NEW n \in 1..MaxValue,
         NEW x \in Processes, NEW j \in Keys, Set(p, k, n)
  PROVE  EntryOK(x, j)'
<1> DEFINE c == Cmd("set", k, Str(n))
<1>1. c \in Command /\ c.key = k /\ c.op = "set" /\ c.value = Str(n)
  BY Bounds, CmdType, Numbers DEF Writing
<1> HIDE DEF c
<1>2. UNCHANGED <<redis, replies>>
  BY DEF Set
<1>3. CASE p \in Owners
  <2>1. /\ OwnerWrites(p, k, Str(n), c)
        /\ raced' = IF Unreplicated(p, k) THEN raced \cup {<<p, k>>} ELSE raced \ {<<p, k>>}
    BY <1>3 DEF Set, c
  <2>2. sent[p] \in Seq(Command)
    BY DEF CInv, Shape, TypeOK
  <2>3. Replays(Append(sent[p], c), k, redis[k], Str(n))
    BY <1>1, <2>2, ReplaysSet
  <2> QED BY <1>1, <1>2, <2>1, <2>3, EntriesWritten
<1>4. CASE p \notin Owners
  <2>1. cache' = cache /\ UNCHANGED <<sent, raced>>
    BY <1>4 DEF Set, RenterWrites, InvalidateCache
  <2> QED BY <1>2, <2>1, EntriesRented
<1> QED BY <1>3, <1>4

(* A string that is not there counts as 0 in Redis. *)
LEMMA MissingNumber == AsNumber(Missing) = Absent
<1> DEFINE f == CHOOSE f \in Fields : f # Index
<1>1. f \in Fields /\ f # Index /\ Index \in Fields
  BY FieldsAssumption
<1> HIDE DEF f
<1>2. Missing[Index] = -99 /\ Missing[f] = -99
  BY <1>1 DEF Missing, Str, Absent
<1>3. Placeholder[Index] = 1
  BY <1>1 DEF Placeholder, Missing, Str
<1>4. Missing # Placeholder
  BY <1>2, <1>3
<1> QED BY <1>2, <1>4 DEF AsNumber, f, Absent

(* incr() and decr() have only read, or are a renter's; *)
LEMMA EntriesRead ==
  ASSUME CInv, NEW p \in Processes, NEW k \in Keys, NEW op \in {"incr", "decr"},
         NEW x \in Processes, NEW j \in Keys, IncrOrDecr(p, k, op)
  PROVE  EntryOK(x, j)'
<1>1. UNCHANGED <<redis, replies, cache, sent, raced>>
  BY DEF IncrOrDecr, RenterWrites, InvalidateCache
<1>2. /\ raced \subseteq raced' /\ cache'[x] = cache[x]
      /\ UNCHANGED <<redis, sent, replies>>
  BY <1>1
<1> QED BY <1>2, EntriesRented

(* the await has ended, and the owner writes. *)
LEMMA EntriesCounted ==
  ASSUME CInv, NEW p \in Processes, NEW x \in Processes, NEW j \in Keys, CountWritten(p)
  PROVE  EntryOK(x, j)'
<1> DEFINE z == Head(counting[p])
           k == z.key
           op == z.op
           v == Str(Counted(z.value, op))
           w == IF Has(p, k) THEN cache[p][k] ELSE Missing
           c == Cmd(op, k, Missing)
<1>1. /\ UNCHANGED <<redis, replies>> /\ OwnerWrites(p, k, v, c)
      /\ RaceIf(p, k, Unreplicated(p, k) \/ FromNothing(p, k) \/ Outdated(p, z))
  BY DEF CountWritten
<1>2. z \in Count
  <2>1. counting[p] # <<>> /\ counting[p] \in Seq(Count)
    BY DEF CountWritten, CInv, Shape, TypeOK
  <2> QED BY <2>1, TailOf
<1> HIDE DEF z
<1>3. k \in Keys /\ op \in {"incr", "decr"}
  BY <1>2 DEF Count
<1>4. c \in Command /\ c.key = k /\ c.op = op /\ c.op # "get"
  <2> HIDE DEF k, op
  <2>1. op \in Writing \cup {"get"} /\ op # "get" /\ Missing \in Value
    BY <1>3, Numbers DEF Writing
  <2> QED BY <1>3, <2>1, CmdType
<1>5. Counted(Absent, op) = Counted(0, op)
  BY DEF Counted, Absent, NaN
<1>6. ~Outdated(p, z) => Counted(AsNumber(w), op) = Counted(z.value, op)
  BY <1>5, MissingNumber DEF Outdated, Read
<1> HIDE DEF c, k, op
<1>7. ~Outdated(p, z) => Applied(w, c) = v
  <2>1. CASE op = "incr"
    BY <1>4, <1>6, <2>1 DEF Applied
  <2>2. CASE op = "decr"
    BY <1>4, <1>6, <2>2 DEF Applied
  <2> QED BY <1>3, <2>1, <2>2
<1>8. /\ raced \subseteq raced'
      /\ Unreplicated(p, k) \/ FromNothing(p, k) \/ Outdated(p, z) => <<p, k>> \in raced'
  BY <1>1 DEF RaceIf, Race
<1>9. <<p, k>> \notin raced' => Replays(Append(sent[p], c), k, redis[k], Applied(w, c))
  BY <1>3, <1>4, <1>8, OwnerReplays
<1> HIDE DEF v, w
<1>10. <<p, k>> \notin raced' => ~Unreplicated(p, k) /\ Replays(Append(sent[p], c), k, redis[k], v)
  BY <1>7, <1>8, <1>9
<1>11. raced \ {<<p, k>>} \subseteq raced'
  BY <1>8
<1> QED BY <1>1, <1>3, <1>4, <1>10, <1>11, EntriesWritten

LEMMA EntriesAssigned ==
  ASSUME CInv, NEW p \in Processes, NEW k \in Keys, NEW f \in Fields, NEW n \in 1..MaxValue,
         NEW x \in Processes, NEW j \in Keys, SetHash(p, k, f, n)
  PROVE  EntryOK(x, j)'
<1> DEFINE w == IF Has(p, k) THEN cache[p][k] ELSE Missing
           v == [w EXCEPT ![f] = n]
           c == Cmd("hset", k, v)
           aliased == Has(p, k) /\ w # Placeholder
<1>1. w \in Value
  <2>1. Has(p, k) => cache[p][k] \in Value
    BY DEF CInv, Shape, TypeOK, Has
  <2> QED BY <2>1, Numbers
<1>2. n \in Int /\ n # Absent
  BY Bounds DEF Absent
<1>3. UNCHANGED <<redis, replies>>
  BY DEF SetHash
<1>4. /\ p \in Owners => /\ OwnerWrites(p, k, v, c)
                         /\ RaceIf(p, k, Unreplicated(p, k) \/ FromNothing(p, k))
      /\ p \notin Owners => /\ cache' = IF aliased THEN Stored(p, k, v) ELSE cache
                            /\ RaceIf(p, k, aliased)
                            /\ UNCHANGED sent
  BY DEF SetHash
<1>5. Replays(Append(sent[p], c), k, redis[k], Applied(w, c))
        \/ c \notin Command \/ c.key # k
        \/ Unreplicated(p, k) \/ FromNothing(p, k) \/ <<p, k>> \in raced
  BY OwnerReplays
<1> HIDE DEF w
<1>6. v \in Value
  BY <1>1, <1>2 DEF Value
<1>7. c \in Command /\ c.key = k /\ c.op = "hset" /\ c.value = v
  BY <1>6, CmdType DEF Writing
<1>8. [g \in Fields |-> IF v[g] # Absent THEN v[g] ELSE w[g]] = v
  <2>1. \A g \in Fields : (IF v[g] # Absent THEN v[g] ELSE w[g]) = v[g]
    BY <1>1, <1>2 DEF Value
  <2>2. v = [g \in Fields |-> v[g]]
    BY <1>6 DEF Value
  <2> HIDE DEF v
  <2>3. [g \in Fields |-> IF v[g] # Absent THEN v[g] ELSE w[g]] = [g \in Fields |-> v[g]]
    BY <2>1
  <2> QED BY <2>2, <2>3
<1> HIDE DEF v, c
<1>9. Applied(w, c) = v
  BY <1>7, <1>8 DEF Applied
<1>10. CASE p \in Owners
  <2>1. raced \subseteq raced' /\ (Unreplicated(p, k) \/ FromNothing(p, k) => <<p, k>> \in raced')
    BY <1>4, <1>10 DEF RaceIf, Race
  <2>2. raced \ {<<p, k>>} \subseteq raced'
    BY <2>1
  <2>3. <<p, k>> \notin raced' => ~Unreplicated(p, k) /\ Replays(Append(sent[p], c), k, redis[k], v)
    BY <1>5, <1>7, <1>9, <2>1
  <2> QED BY <1>3, <1>4, <1>7, <1>10, <2>2, <2>3, EntriesWritten
<1>11. CASE p \notin Owners
  <2>1. raced \subseteq raced' /\ UNCHANGED <<redis, sent, replies>>
    BY <1>3, <1>4, <1>11 DEF RaceIf, Race
  <2>2. CASE aliased /\ x = p
    <3>1. /\ DOMAIN cache = Processes /\ k \in DOMAIN cache[p] /\ <<p, k>> \in raced'
          /\ cache' = Stored(p, k, v)
      BY <1>4, <1>11, <2>2 DEF RaceIf, Race, Has, CInv, Shape
    <3>2. /\ j \in DOMAIN cache'[x] <=> j \in DOMAIN cache[x]
          /\ j \in DOMAIN cache[x] => cache'[x][j] = cache[x][j] \/ <<x, j>> \in raced'
      BY <2>2, <3>1, StoredAt
    <3> QED BY <2>1, <3>2, EntriesRented
  <2>3. CASE ~(aliased /\ x = p)
    <3>1. cache'[x] = cache[x]
      BY <1>4, <1>11, <2>3, StoredAt DEF CInv, Shape
    <3> QED BY <2>1, <3>1, EntriesRented
  <2> QED BY <2>2, <2>3
<1> QED BY <1>10, <1>11

LEMMA EntriesExecuted ==
  ASSUME CInv, NEW p \in Processes, NEW x \in Processes, NEW j \in Keys, ExecuteCached(p)
  PROVE  EntryOK(x, j)'
<1> DEFINE c == Head(sent[p])
           y == [key |-> c.key, value |-> redis[c.key]]
           R == [key : Keys, value : Value]
<1>1. /\ EntryOK(x, j) /\ DOMAIN sent = Processes /\ DOMAIN replies = Processes
      /\ redis \in [Keys -> Value] /\ cache' = cache
      /\ sent[p] \in Seq(Command) /\ replies[p] \in Seq(R) /\ sent[p] # <<>>
      /\ sent' = [sent EXCEPT ![p] = Tail(@)]
  BY DEF CInv, Shape, TypeOK, ExecuteCached
<1>2. /\ redis' = [redis EXCEPT ![c.key] = Applied(redis[c.key], c)]
      /\ replies' = IF c.op = "get" THEN [replies EXCEPT ![p] = Append(replies[p], y)] ELSE replies
      /\ raced' = raced \cup (IF c.op = "get" THEN {} ELSE MissedBy(Processes \ {p}, c.key))
  BY DEF ExecuteCached, Race
<1>3. c \in Command /\ c = Head(sent[p])
  BY <1>1, TailOf
<1> HIDE DEF c
<1>4. c.key \in Keys /\ redis[c.key] \in Value
  BY <1>1, <1>3 DEF Command
<1>5. y \in R /\ y.key = c.key /\ y.value = redis[c.key]
  BY <1>4
<1> HIDE DEF y, R
<1>6. /\ sent'[p] = Tail(sent[p]) /\ (x # p => sent'[x] = sent[x] /\ replies'[x] = replies[x])
      /\ replies'[p] = IF c.op = "get" THEN Append(replies[p], y) ELSE replies[p]
  BY <1>1, <1>2
<1>7. redis'[j] = IF j = c.key /\ c.op # "get" THEN Applied(redis[j], c) ELSE redis[j]
  <2>1. c.op = "get" => Applied(redis[c.key], c) = redis[c.key]
    BY DEF Applied
  <2> QED BY <1>1, <1>2, <1>4, <2>1
<1>8. raced \subseteq raced'
  BY <1>2
<1>9. CASE x = p
  <2> DEFINE h == cache[p]
             v == redis[j]
             v1 == redis'[j]
  <2>0. FillOK(sent[p], replies[p], j, h) /\ (<<p, j>> \notin raced => Unraced(sent[p], replies[p], j, h, v))
    BY <1>1, <1>9 DEF EntryOK
  <2> SUFFICES /\ FillOK(Tail(sent[p]), replies'[p], j, h)
               /\ <<p, j>> \notin raced => Unraced(Tail(sent[p]), replies'[p], j, h, v1)
    BY <1>1, <1>6, <1>8, <1>9 DEF EntryOK
  <2> HIDE DEF h
  <2>1. CASE j # c.key
    <3>1. /\ FillOK(Tail(sent[p]), replies[p], j, h)
          /\ <<p, j>> \notin raced => Unraced(Tail(sent[p]), replies[p], j, h, v)
      BY <1>1, <1>3, <2>0, <2>1, OtherExecuted
    <3>2. /\ FillOK(Tail(sent[p]), Append(replies[p], y), j, h)
          /\ <<p, j>> \notin raced => Unraced(Tail(sent[p]), Append(replies[p], y), j, h, v)
      BY <1>1, <1>5, <2>1, <3>1, OtherReply
    <3> QED BY <1>6, <1>7, <2>1, <3>1, <3>2
  <2>2. CASE j = c.key /\ c.op = "get"
    <3>1. Fills(Head(sent[p]), j) /\ y.key = j /\ y.value = v
      BY <1>3, <1>5, <2>2 DEF Fills
    <3>2. /\ FillOK(Tail(sent[p]), Append(replies[p], y), j, h)
          /\ <<p, j>> \notin raced => Unraced(Tail(sent[p]), Append(replies[p], y), j, h, v)
      BY <1>1, <1>5, <2>0, <3>1, FillExecuted
    <3> QED BY <1>6, <1>7, <2>2, <3>2
  <2>3. CASE j = c.key /\ c.op # "get"
    <3>1. /\ FillOK(Tail(sent[p]), replies[p], j, h)
          /\ <<p, j>> \notin raced => Unraced(Tail(sent[p]), replies[p], j, h, Applied(v, c))
      BY <1>1, <1>3, <2>0, <2>3, WriteExecuted
    <3> QED BY <1>6, <1>7, <2>3, <3>1
  <2> QED BY <2>1, <2>2, <2>3
<1>10. CASE x # p
  <2>1. CASE j # c.key \/ c.op = "get"
    BY <1>1, <1>6, <1>7, <1>8, <1>10, <2>1, Untouched
  <2>2. CASE j = c.key /\ c.op # "get"
    <3>1. <<x, j>> \notin raced' => j \notin DOMAIN cache[x] \/ Asked(sent[x], j)
      BY <1>2, <1>10, <2>2, Underway DEF MissedBy, Missed, Has
    <3>2. ASSUME <<x, j>> \notin raced'
          PROVE  Unraced(sent[x], replies[x], j, cache[x], redis'[j])
      BY <1>1, <1>8, <3>1, <3>2, WrittenByAnother DEF EntryOK
    <3> QED BY <1>1, <1>6, <1>10, <3>2 DEF EntryOK
  <2> QED BY <2>1, <2>2
<1> QED BY <1>9, <1>10

LEMMA EntriesExecutedOwn ==
  ASSUME CInv, NEW p \in Processes, NEW x \in Processes, NEW j \in Keys, ExecuteOwn(p)
  PROVE  EntryOK(x, j)'
<1> DEFINE c == Head(own[p])
<1>1. /\ EntryOK(x, j) /\ redis \in [Keys -> Value]
      /\ UNCHANGED <<cache, sent, replies>>
  BY DEF CInv, Shape, TypeOK, ExecuteOwn
<1>2. /\ redis' = [redis EXCEPT ![c.key] = Applied(redis[c.key], c)]
      /\ raced' = raced \cup MissedBy(Processes, c.key)
  BY DEF ExecuteOwn, Race
<1> HIDE DEF c
<1>3. CASE j # c.key
  BY <1>1, <1>2, <1>3, Untouched
<1>4. CASE j = c.key
  <2>1. <<x, j>> \notin raced' => j \notin DOMAIN cache[x] \/ Asked(sent[x], j)
    BY <1>2, <1>4, Underway DEF MissedBy, Missed, Has
  <2>2. ASSUME <<x, j>> \notin raced'
        PROVE  Unraced(sent[x], replies[x], j, cache[x], redis'[j])
    BY <1>1, <1>2, <2>1, <2>2, WrittenByAnother DEF EntryOK
  <2> QED BY <1>1, <2>2 DEF EntryOK
<1> QED BY <1>3, <1>4

-----------------------------------------------------------------------------
LEMMA CInvStep == CInv /\ [Next]_vars => CInv'
<1> SUFFICES ASSUME CInv, [Next]_vars PROVE CInv'
  OBVIOUS
<1>1. Shape'
  BY ShapeStep DEF CInv
<1>2. ASSUME NEW x \in Processes, NEW j \in Keys PROVE EntryOK(x, j)'
  <2>s. \A k \in Strings \cup Hashes : k \in Keys
    BY DEF Strings, Hashes
  <2>1. ASSUME NEW p \in Processes, BeginCacheListener(p) \/ Connect(p) \/ ClientEnds(p)
        PROVE  EntryOK(x, j)'
    BY <2>1, EntriesLinked
  <2>2. CASE UNCHANGED vars
    BY <2>2, EntriesLinked
  <2>3. ASSUME NEW p \in Processes, EndCacheListener(p) PROVE EntryOK(x, j)'
    BY <2>3, EntriesEnd
  <2>4. ASSUME NEW p \in Processes, FillReturns(p) PROVE EntryOK(x, j)'
    BY <2>4, EntriesFilled
  <2>5. ASSUME NEW p \in Processes, ExecuteCached(p) PROVE EntryOK(x, j)'
    BY <2>5, EntriesExecuted
  <2>6. ASSUME NEW p \in Processes, ExecuteOwn(p) PROVE EntryOK(x, j)'
    BY <2>6, EntriesExecutedOwn
  <2>7. ASSUME NEW p \in Processes, NEW k \in Keys, Get(p, k) PROVE EntryOK(x, j)'
    BY <2>7, EntriesGet
  <2>8. ASSUME NEW p \in Processes, NEW k \in Keys, Expire(p, k) PROVE EntryOK(x, j)'
    BY <2>8, EntriesExpire
  <2>9. ASSUME NEW p \in Processes, NEW k \in Strings, NEW n \in 1..MaxValue, Set(p, k, n)
        PROVE  EntryOK(x, j)'
    BY <2>s, <2>9, EntriesSet
  <2>10. ASSUME NEW p \in Processes, NEW k \in Strings, NEW op \in {"incr", "decr"}, IncrOrDecr(p, k, op)
         PROVE  EntryOK(x, j)'
    BY <2>s, <2>10, EntriesRead
  <2>12. ASSUME NEW p \in Processes, CountWritten(p) PROVE EntryOK(x, j)'
    BY <2>12, EntriesCounted
  <2>11. ASSUME NEW p \in Processes, NEW k \in Hashes, NEW f \in Fields \ {Index},
                NEW n \in 1..MaxValue, SetHash(p, k, f, n)
         PROVE  EntryOK(x, j)'
    BY <2>s, <2>11, EntriesAssigned
  <2> QED
    BY <2>1, <2>2, <2>3, <2>4, <2>5, <2>6, <2>7, <2>8, <2>9, <2>10, <2>11, <2>12 DEF Next
<1> QED BY <1>1, <1>2 DEF CInv

LEMMA CInvAgrees == CInv => AgreeUnlessRaced
<1> SUFFICES ASSUME CInv, NEW p \in Processes, NEW k \in Keys,
                    ~Filling(p, k), ~Replicating(p, k), <<p, k>> \notin raced, Has(p, k)
             PROVE  cache[p][k] = redis[k]
  BY DEF AgreeUnlessRaced, Agrees
<1>1. Shape /\ EntryOK(p, k) /\ sent[p] \in Seq(Command)
  BY DEF CInv, Shape, TypeOK
<1>2. NoneFor(sent[p], k) /\ ~Asked(sent[p], k) /\ NoneFor(replies[p], k)
  BY <1>1, NothingUnderway, Underway
<1>3. Replays(sent[p], k, redis[k], cache[p][k])
  BY <1>1, <1>2 DEF EntryOK, Unraced, Has
<1> QED BY <1>1, <1>2, <1>3, ReplayedNothing

(* Types: what is cached, under way and in Redis are values, whatever is   *)
(* written, counted, assigned and merged; and a connection that has ended  *)
(* has nothing under way.                                                  *)
THEOREM CacheTypeOK == Spec => []TypeOK
<1>1. Init => Shape
  BY ShapeInit
<1>2. Shape /\ [Next]_vars => Shape'
  BY ShapeStep
<1>3. Shape => TypeOK
  BY DEF Shape
<1> QED BY <1>1, <1>2, <1>3, PTL DEF Spec, SafetySpec

(* A process with no command under way for a key that nothing has raced    *)
(* caches what Redis holds, however many processes, keys and writes there  *)
(* are: get(), set(), getHash() and setHash() of an owner, incr() and      *)
(* decr() that await between reading the entry and writing it, the fills   *)
(* and replicated writes on cachedChannel, and the connections that end    *)
(* with commands under way.                                                *)
THEOREM CacheAgrees == Spec => []AgreeUnlessRaced
<1>1. Init => CInv
  BY ShapeInit, EntriesInit DEF CInv
<1>2. CInv /\ [Next]_vars => CInv'
  BY CInvStep
<1>3. CInv => AgreeUnlessRaced
  BY CInvAgrees
<1> QED BY <1>1, <1>2, <1>3, PTL DEF Spec, SafetySpec

===============================================================================
