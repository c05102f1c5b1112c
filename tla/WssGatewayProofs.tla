---------------------------- MODULE WssGatewayProofs ----------------------------
(***************************************************************************)
(* Proofs about the routes of a WebSocket server, for any routes, marks,   *)
(* messages, other producers and failures: what is held back will be       *)
(* written, and messages are written and echoed in order.                  *)
(***************************************************************************)
EXTENDS WssGateway, FiniteSetTheorems, WellFoundedInduction, TLAPS

-----------------------------------------------------------------------------
(* The inductive invariant. *)

Ids == Nat \ {0}
Command == [op : {"xread", "xadd"}, m : Nat, from : Int, started : BOOLEAN]

Types ==
  /\ onMessage \in BOOLEAN /\ subscribed \subseteq Routes
  /\ arrived \in [Routes -> Seq(Ids)] /\ parked \in Seq(Ids)
  /\ drained \in Routes \cup {None}
  /\ buffer \in [Routes -> Seq(Ids)] /\ needDrain \in [Routes -> BOOLEAN]
  /\ conn \in [Routes -> Seq(Command)]
  /\ entries \in [Routes -> Seq(Nat)] /\ cursor \in [Routes -> Int]
  /\ sent \in [Routes -> Seq(Ids)]

In(x, q) == \E i \in 1..Len(q) : q[i] = x

(* Messages are numbered without gaps, and each came on one route. *)
Numbered ==
  /\ \E n \in Nat : Messages = 1..n
  /\ \A r, q \in Routes : \A x : In(x, arrived[r]) /\ In(x, arrived[q]) => r = q

(* Each is where a message of its route may be. *)
Arrived ==
  /\ handling \subseteq Messages
  /\ \A x : In(x, parked) => x \in Messages
  /\ \A r \in Routes : \A x :
       /\ In(x, buffer[r]) => In(x, arrived[r])
       /\ In(x, entries[r]) /\ x # Foreign => In(x, arrived[r])

(* Only a Writable with a write under way owes a 'drain', and it has one     *)
(* XADD on the connection.                                                  *)
OneXadd(c, b) ==
  \A i \in 1..Len(c) : c[i].op = "xadd" =>
    b # <<>> /\ c[i].m = b[1] /\ \A j \in 1..Len(c) : c[j].op = "xadd" => i = j
Draining == \A r \in Routes : (needDrain[r] => buffer[r] # <<>>) /\ OneXadd(conn[r], buffer[r])

(* An XREAD begins where the last one that was answered ended.              *)
OneXread(c, e, at) ==
  \A i \in 1..Len(c) : c[i].op = "xread" =>
    /\ \A j \in 1..Len(c) : c[j].op = "xread" => i = j
    /\ c[i].started => c[i].from \in 0..Len(e) /\ (at # Latest => c[i].from = at)
Reading ==
  \A r \in Routes :
    /\ OneXread(conn[r], entries[r], cursor[r])
    /\ cursor[r] # Latest => cursor[r] \in 0..Len(entries[r])
    /\ \A i \in 1..Len(sent[r]) :
         cursor[r] # Latest /\ \E k \in 1..cursor[r] : entries[r][k] = sent[r][i]

(* In the order of arrival; what q holds came before what p holds from i on. *)
Asc(q) ==
  \A i, j \in 1..Len(q) : i < j /\ q[i] # Foreign /\ q[j] # Foreign => q[i] < q[j]
Below(q, p, i) ==
  \A a \in 1..Len(q), j \in i..Len(p) : q[a] # Foreign => q[a] < p[j]

(* What came to a route, in the order a, is written in e, in the buffer b,   *)
(* or in p, from i on.                                                       *)
Placed(a, e, b, p, i) ==
  /\ Asc(e) /\ Asc(b) /\ Below(e, b, 1) /\ Below(e, p, i) /\ Below(b, p, i)
  /\ \A x : In(x, a) => In(x, e) \/ In(x, b) \/ \E j \in i..Len(p) : p[j] = x

Order ==
  ~onMessage =>
    /\ handling = {} /\ Asc(parked)
    /\ \A r \in Routes : Placed(arrived[r], entries[r], buffer[r], parked, 1) /\ Asc(sent[r])

WInv == Types /\ Numbered /\ Arrived /\ DrainIsOwed /\ Draining /\ Reading /\ Order

-----------------------------------------------------------------------------
(* Induction, from the least number a set misses. *)

LEMMA Least ==
  ASSUME NEW S, S \subseteq Nat, S # {}
  PROVE  \E n \in S : \A m \in S : n <= m
<1> DEFINE R == OpToRel(<, Nat)
<1>1. IsWellFoundedOn(R, Nat)
  BY NatLessThanWellFounded
<1>2. \A x, y \in Nat : <<x, y>> \in R <=> x < y
  BY DEF OpToRel
<1> HIDE DEF R
<1>3. PICK n \in S : \A m \in S : ~ (<<m, n>> \in R)
  BY <1>1, WFMin
<1>4. ASSUME NEW m \in S PROVE n <= m
  <2>1. m \in Nat /\ n \in Nat
    OBVIOUS
  <2>2. ~(m < n)
    BY <1>2, <1>3, <2>1
  <2> QED BY <2>1, <2>2
<1> QED BY <1>4

LEMMA Induction ==
  ASSUME NEW S, 0 \in S, \A n \in Nat : n \in S => n + 1 \in S
  PROVE  Nat \subseteq S
<1> SUFFICES ASSUME Nat \ S # {} PROVE FALSE
  OBVIOUS
<1>1. PICK n \in Nat \ S : \A m \in Nat \ S : n <= m
  BY Least
<1>2. n # 0 /\ n - 1 \in Nat
  BY <1>1
<1>3. n - 1 \in S
  BY <1>1, <1>2
<1> QED BY <1>2, <1>3


-----------------------------------------------------------------------------
(* Sequences. *)

LEMMA AppendTo ==
  ASSUME NEW S, NEW q \in Seq(S), NEW m \in S
  PROVE  /\ Append(q, m) \in Seq(S) /\ Len(Append(q, m)) = Len(q) + 1 /\ Len(q) \in Nat
         /\ Append(q, m)[Len(q) + 1] = m
         /\ \A i \in 1..Len(q) : Append(q, m)[i] = q[i]
         /\ Append(q, m) # <<>>
OBVIOUS

LEMMA TailOf ==
  ASSUME NEW S, NEW q \in Seq(S), q # <<>>
  PROVE  /\ Head(q) \in S /\ Head(q) = q[1] /\ Tail(q) \in Seq(S)
         /\ Len(q) \in Nat \ {0} /\ Len(Tail(q)) = Len(q) - 1
         /\ \A i \in 1..(Len(q) - 1) : Tail(q)[i] = q[i + 1]
         /\ Tail(q) = <<>> <=> Len(q) = 1
<1>1. /\ Head(q) \in S /\ Head(q) = q[1] /\ Tail(q) \in Seq(S)
      /\ Len(q) \in Nat \ {0} /\ Len(Tail(q)) = Len(q) - 1
      /\ \A i \in 1..(Len(q) - 1) : Tail(q)[i] = q[i + 1]
  OBVIOUS
<1>2. \A p \in Seq(S) : p = <<>> <=> Len(p) = 0
  OBVIOUS
<1>3. Tail(q) = <<>> <=> Len(q) - 1 = 0
  BY <1>1, <1>2
<1> QED BY <1>1, <1>3

LEMMA InAppend ==
  ASSUME NEW S, NEW q \in Seq(S), NEW m \in S, NEW x
  PROVE  In(x, Append(q, m)) <=> In(x, q) \/ x = m
<1> DEFINE n == Len(q)
           p == Append(q, m)
<1>1. /\ Len(p) = n + 1 /\ n \in Nat /\ p[n + 1] = m
      /\ \A i \in 1..n : p[i] = q[i]
  BY AppendTo
<1> HIDE DEF p
<1>2. \A i \in 1..(n + 1) : i \in 1..n \/ i = n + 1
  BY <1>1
<1>3. n + 1 \in 1..(n + 1) /\ \A i \in 1..n : i \in 1..(n + 1)
  BY <1>1
<1> QED BY <1>1, <1>2, <1>3 DEF In, p

LEMMA InTail ==
  ASSUME NEW S, NEW q \in Seq(S), q # <<>>, NEW x
  PROVE  In(x, q) <=> x = q[1] \/ In(x, Tail(q))
<1> DEFINE n == Len(q)
           p == Tail(q)
<1>1. /\ n \in Nat \ {0} /\ Len(p) = n - 1
      /\ \A i \in 1..(n - 1) : p[i] = q[i + 1]
  BY TailOf
<1> HIDE DEF p
<1>2. /\ 1 \in 1..n /\ \A i \in 1..(n - 1) : i + 1 \in 1..n
      /\ \A i \in 1..n : i = 1 \/ (i - 1 \in 1..(n - 1) /\ (i - 1) + 1 = i)
  BY <1>1
<1>3. \A i \in 1..n : i = 1 \/ p[i - 1] = q[i]
  BY <1>1, <1>2
<1> QED BY <1>1, <1>2, <1>3 DEF In, p

LEMMA AscAppend ==
  ASSUME NEW q \in Seq(Nat), NEW m \in Nat, Asc(q),
         m = Foreign \/ \A i \in 1..Len(q) : q[i] # Foreign => q[i] < m
  PROVE  Asc(Append(q, m))
<1> DEFINE n == Len(q)
           p == Append(q, m)
<1>1. /\ Len(p) = n + 1 /\ n \in Nat /\ p[n + 1] = m
      /\ \A i \in 1..n : p[i] = q[i]
  BY AppendTo
<1> HIDE DEF p
<1>2. ASSUME NEW i \in 1..(n + 1), NEW j \in 1..(n + 1), i < j, p[i] # Foreign, p[j] # Foreign
      PROVE  p[i] < p[j]
  <2>1. i \in 1..n
    BY <1>1, <1>2
  <2>2. CASE j = n + 1
    BY <1>1, <1>2, <2>1, <2>2
  <2>3. CASE j # n + 1
    <3>1. j \in 1..n
      BY <1>1, <2>3
    <3> QED BY <1>1, <1>2, <2>1, <3>1 DEF Asc
  <2> QED BY <2>2, <2>3
<1> QED BY <1>1, <1>2 DEF Asc, p

LEMMA AscTail ==
  ASSUME NEW q \in Seq(Nat), q # <<>>, Asc(q), q[1] # Foreign
  PROVE  Asc(Tail(q)) /\ \A i \in 1..Len(Tail(q)) : Tail(q)[i] # Foreign => q[1] < Tail(q)[i]
<1> DEFINE n == Len(q)
           p == Tail(q)
<1>1. /\ n \in Nat \ {0} /\ Len(p) = n - 1
      /\ \A i \in 1..(n - 1) : p[i] = q[i + 1]
  BY TailOf
<1> HIDE DEF p
<1>2. \A i \in 1..(n - 1) : i + 1 \in 1..n /\ 1 < i + 1 /\ \A j \in 1..(n - 1) : i < j => i + 1 < j + 1
  BY <1>1
<1>3. 1 \in 1..n
  BY <1>1
<1> QED BY <1>1, <1>2, <1>3 DEF Asc, p

LEMMA BelowAppend ==
  ASSUME NEW q \in Seq(Nat), NEW p \in Seq(Nat), NEW m \in Nat, NEW i \in Nat \ {0}, Below(q, p, i)
  PROVE  /\ m = Foreign \/ (\A j \in i..Len(p) : m < p[j]) => Below(Append(q, m), p, i)
         /\ (\A a \in 1..Len(q) : q[a] # Foreign => q[a] < m) => Below(q, Append(p, m), i)
<1> DEFINE n == Len(q)
           u == Append(q, m)
           k == Len(p)
           w == Append(p, m)
<1>1. /\ Len(u) = n + 1 /\ n \in Nat /\ u[n + 1] = m
      /\ \A a \in 1..n : u[a] = q[a]
  BY AppendTo
<1>2. /\ Len(w) = k + 1 /\ k \in Nat /\ w[k + 1] = m
      /\ \A a \in 1..k : w[a] = p[a]
  BY AppendTo
<1> HIDE DEF u, w
<1>3. ASSUME m = Foreign \/ \A j \in i..k : m < p[j] PROVE Below(u, p, i)
  <2>1. \A a \in 1..(n + 1) : a \in 1..n \/ a = n + 1
    BY <1>1
  <2> QED BY <1>1, <1>3, <2>1 DEF Below
<1>4. ASSUME \A a \in 1..n : q[a] # Foreign => q[a] < m PROVE Below(q, w, i)
  <2>1. \A j \in i..(k + 1) : (j \in i..k /\ j \in 1..k) \/ j = k + 1
    BY <1>2
  <2> QED BY <1>2, <1>4, <2>1 DEF Below
<1> QED BY <1>3, <1>4 DEF u, w

LEMMA BelowTail ==
  ASSUME NEW q \in Seq(Nat), NEW p \in Seq(Nat), NEW i \in Nat \ {0}, Below(q, p, i)
  PROVE  /\ q # <<>> => Below(Tail(q), p, i)
         /\ p # <<>> /\ i = 1 => Below(q, Tail(p), 1)
<1>1. ASSUME q # <<>> PROVE Below(Tail(q), p, i)
  <2> DEFINE n == Len(q)
             u == Tail(q)
  <2>1. /\ n \in Nat \ {0} /\ Len(u) = n - 1
        /\ \A a \in 1..(n - 1) : u[a] = q[a + 1]
    BY <1>1, TailOf
  <2> HIDE DEF u
  <2>2. \A a \in 1..(n - 1) : a + 1 \in 1..n
    BY <2>1
  <2> QED BY <2>1, <2>2 DEF Below, u
<1>2. ASSUME p # <<>>, i = 1 PROVE Below(q, Tail(p), 1)
  <2> DEFINE n == Len(p)
             u == Tail(p)
  <2>1. /\ n \in Nat \ {0} /\ Len(u) = n - 1
        /\ \A a \in 1..(n - 1) : u[a] = p[a + 1]
    BY <1>2, TailOf
  <2> HIDE DEF u
  <2>2. \A a \in 1..(n - 1) : a + 1 \in 1..n
    BY <2>1
  <2> QED BY <1>2, <2>1, <2>2 DEF Below, u
<1> QED BY <1>1, <1>2

LEMMA AscConcat ==
  ASSUME NEW q \in Seq(Nat), NEW p \in Seq(Nat), Asc(q), Asc(p), Below(q, p, 1)
  PROVE  q \o p \in Seq(Nat) /\ Asc(q \o p) /\ \A x : In(x, q \o p) <=> In(x, q) \/ In(x, p)
<1> DEFINE n == Len(q)
           k == Len(p)
           u == q \o p
<1>1. /\ u \in Seq(Nat) /\ Len(u) = n + k /\ n \in Nat /\ k \in Nat
      /\ \A i \in 1..n : u[i] = q[i]
      /\ \A i \in (n + 1)..(n + k) : u[i] = p[i - n]
  OBVIOUS
<1> HIDE DEF u, n, k
<1>2. \A i \in 1..(n + k) : i \in 1..n \/ (i \in (n + 1)..(n + k) /\ i - n \in 1..k)
  BY <1>1
<1>3. ASSUME NEW i \in 1..(n + k), NEW j \in 1..(n + k), i < j, u[i] # Foreign, u[j] # Foreign
      PROVE  u[i] < u[j]
  <2>1. CASE j \in 1..n
    <3>1. i \in 1..n
      BY <1>1, <1>3, <2>1
    <3> QED BY <1>1, <1>3, <2>1, <3>1 DEF Asc, n
  <2>2. CASE j \in (n + 1)..(n + k) /\ j - n \in 1..k
    <3>1. CASE i \in 1..n
      BY <1>1, <1>3, <2>2, <3>1 DEF Below, n, k
    <3>2. CASE i \in (n + 1)..(n + k) /\ i - n \in 1..k
      <4>1. i - n < j - n
        BY <1>1, <1>3
      <4> QED BY <1>1, <1>3, <2>2, <3>2, <4>1 DEF Asc, k
    <3> QED BY <1>2, <3>1, <3>2
  <2> QED BY <1>2, <2>1, <2>2
<1>4. \A x : In(x, u) <=> In(x, q) \/ In(x, p)
  <2>1. /\ \A i \in 1..n : i \in 1..(n + k)
        /\ \A i \in 1..k : i + n \in (n + 1)..(n + k) /\ i + n \in 1..(n + k) /\ (i + n) - n = i
    BY <1>1
  <2>2. \A i \in 1..k : u[i + n] = p[i]
    BY <1>1, <2>1
  <2> QED BY <1>1, <1>2, <2>1, <2>2, ZenonT(40) DEF In, n, k
<1> QED BY <1>1, <1>3, <1>4 DEF Asc, u

-----------------------------------------------------------------------------
(* Writables.  The record g of all of them is sound beside the streams e and *)
(* the cursors at.                                                          *)

Gates == [drained : Routes \cup {None}, buffer : [Routes -> Seq(Ids)],
          needDrain : [Routes -> BOOLEAN], conn : [Routes -> Seq(Command)]]

GateOK(g, e, at) ==
  /\ g \in Gates
  /\ g.drained # None => g.needDrain[g.drained]
  /\ \A r \in Routes :
       /\ g.needDrain[r] => g.buffer[r] # <<>>
       /\ OneXadd(g.conn[r], g.buffer[r]) /\ OneXread(g.conn[r], e[r], at[r])

LEMMA XaddType ==
  ASSUME NEW m \in Nat
  PROVE  Xadd(m) \in Command /\ Xadd(m).op = "xadd" /\ Xadd(m).m = m
<1>1. Xadd(m) = [op |-> "xadd", m |-> m, from |-> -1, started |-> FALSE]
  <2>1. Xread = [op |-> "xread", m |-> Foreign, from |-> -1, started |-> FALSE]
    BY DEF Xread, Latest
  <2>2. Xadd(m) = [[Xread EXCEPT !.op = "xadd"] EXCEPT !.m = m]
    BY <2>1 DEF Xadd
  <2> QED BY <2>1, <2>2
<1>2. -1 \in Int /\ FALSE \in BOOLEAN /\ "xadd" \in {"xread", "xadd"}
  OBVIOUS
<1> QED BY <1>1, <1>2 DEF Command

LEMMA XreadType ==
  Xread \in Command /\ Xread.op = "xread" /\ ~Xread.started
BY DEF Xread, Command, Foreign, Latest

(* An XADD joins a connection; *)
LEMMA XaddJoins ==
  ASSUME NEW c \in Seq(Command), NEW e, NEW at, NEW b \in Seq(Ids), NEW m \in Ids,
         OneXadd(c, <<>>), OneXread(c, e, at), b # <<>>, b[1] = m
  PROVE  OneXadd(Append(c, Xadd(m)), b) /\ OneXread(Append(c, Xadd(m)), e, at)
<1> DEFINE n == Len(c)
           d == Append(c, Xadd(m))
<1>1. Xadd(m) \in Command /\ Xadd(m).op = "xadd" /\ Xadd(m).m = m
  BY XaddType DEF Ids
<1>2. /\ Len(d) = n + 1 /\ n \in Nat /\ d[n + 1] = Xadd(m)
      /\ \A i \in 1..n : d[i] = c[i]
  BY <1>1, AppendTo
<1> HIDE DEF d
<1>3. \A i \in 1..(n + 1) : i \in 1..n \/ i = n + 1
  BY <1>2
<1>4. \A i \in 1..n : c[i].op # "xadd"
  BY DEF OneXadd
<1>5. \A i \in 1..(n + 1) : d[i].op = "xadd" => i = n + 1
  BY <1>2, <1>3, <1>4
<1>6. OneXadd(d, b)
  BY <1>1, <1>2, <1>5 DEF OneXadd
<1>7. \A i \in 1..(n + 1) : d[i].op = "xread" => i \in 1..n /\ d[i] = c[i]
  BY <1>1, <1>2, <1>3
<1>8. OneXread(d, e, at)
  BY <1>2, <1>7 DEF OneXread
<1> QED BY <1>6, <1>8 DEF d

(* The write of a message starts, when none is under way. *)
LEMMA Starts ==
  ASSUME NEW c \in Seq(Command), NEW e, NEW at, NEW b \in Seq(Ids), NEW m \in Ids,
         OneXadd(c, <<>>), OneXread(c, e, at), b # <<>>, b[1] = m
  PROVE  /\ Started(c, m) \in Seq(Command)
         /\ OneXadd(Started(c, m), b) /\ OneXread(Started(c, m), e, at)
<1>1. CASE m \in falsy
  <2>1. Started(c, m) = c
    BY <1>1 DEF Started
  <2>2. OneXadd(c, b)
    BY DEF OneXadd
  <2> QED BY <2>1, <2>2
<1>2. CASE m \notin falsy
  <2>1. Started(c, m) = Append(c, Xadd(m))
    BY <1>2 DEF Started
  <2>2. Xadd(m) \in Command
    BY XaddType DEF Ids
  <2>3. Append(c, Xadd(m)) \in Seq(Command)
    BY <2>2, AppendTo
  <2>4. OneXadd(Append(c, Xadd(m)), b) /\ OneXread(Append(c, Xadd(m)), e, at)
    BY XaddJoins
  <2> QED BY <2>1, <2>3, <2>4
<1> QED BY <1>1, <1>2

LEMMA XreadJoins ==
  ASSUME NEW c \in Seq(Command), NEW e, NEW at, NEW b,
         OneXadd(c, b), \A i \in 1..Len(c) : c[i].op # "xread"
  PROVE  OneXadd(Append(c, Xread), b) /\ OneXread(Append(c, Xread), e, at)
<1> DEFINE n == Len(c)
           d == Append(c, Xread)
<1>1. Xread \in Command /\ Xread.op = "xread" /\ ~Xread.started
  BY XreadType
<1>2. /\ Len(d) = n + 1 /\ n \in Nat /\ d[n + 1] = Xread
      /\ \A i \in 1..n : d[i] = c[i]
  BY <1>1, AppendTo
<1> HIDE DEF d
<1>3. \A i \in 1..(n + 1) : i \in 1..n \/ i = n + 1
  BY <1>2
<1>4. \A i \in 1..(n + 1) : d[i].op = "xread" => i = n + 1
  BY <1>2, <1>3
<1>5. OneXread(d, e, at)
  BY <1>1, <1>2, <1>4 DEF OneXread
<1>6. \A i \in 1..(n + 1) : d[i].op = "xadd" => i \in 1..n /\ d[i] = c[i]
  BY <1>1, <1>2, <1>3
<1>7. OneXadd(d, b)
  BY <1>2, <1>6 DEF OneXadd
<1> QED BY <1>5, <1>7 DEF d

(* A command leaves a connection, and no other of its kind stays. *)
LEMMA Leaves ==
  ASSUME NEW c \in Seq(Command), NEW e, NEW at, NEW b, c # <<>>,
         OneXadd(c, b), OneXread(c, e, at)
  PROVE  /\ OneXadd(Tail(c), b) /\ OneXread(Tail(c), e, at) /\ Tail(c) \in Seq(Command)
         /\ Head(c).op = "xadd" => OneXadd(Tail(c), <<>>) /\ Head(c).m = b[1] /\ b # <<>>
         /\ Head(c).op = "xread" => \A i \in 1..Len(Tail(c)) : Tail(c)[i].op # "xread"
<1> DEFINE n == Len(c)
           d == Tail(c)
<1>1. /\ Head(c) = c[1] /\ d \in Seq(Command) /\ n \in Nat \ {0} /\ Len(d) = n - 1
      /\ \A i \in 1..(n - 1) : d[i] = c[i + 1]
  BY TailOf
<1> HIDE DEF d
<1>2. /\ 1 \in 1..n
      /\ \A i \in 1..(n - 1) : i + 1 \in 1..n /\ i + 1 # 1
      /\ \A i, j \in 1..(n - 1) : i + 1 = j + 1 => i = j
  BY <1>1
<1>3. OneXadd(d, b)
  <2>1. ASSUME NEW i \in 1..(n - 1), d[i].op = "xadd"
        PROVE  b # <<>> /\ d[i].m = b[1] /\ \A j \in 1..(n - 1) : d[j].op = "xadd" => i = j
    <3>1. /\ b # <<>> /\ c[i + 1].m = b[1]
          /\ \A j \in 1..n : c[j].op = "xadd" => i + 1 = j
      BY <1>1, <1>2, <2>1 DEF OneXadd
    <3> QED BY <1>1, <1>2, <3>1
  <2> QED BY <1>1, <2>1 DEF OneXadd
<1>4. OneXread(d, e, at)
  <2>1. ASSUME NEW i \in 1..(n - 1), d[i].op = "xread"
        PROVE  /\ \A j \in 1..(n - 1) : d[j].op = "xread" => i = j
               /\ d[i].started => d[i].from \in 0..Len(e) /\ (at # Latest => d[i].from = at)
    <3>1. /\ \A j \in 1..n : c[j].op = "xread" => i + 1 = j
          /\ c[i + 1].started =>
               c[i + 1].from \in 0..Len(e) /\ (at # Latest => c[i + 1].from = at)
      BY <1>1, <1>2, <2>1 DEF OneXread
    <3> QED BY <1>1, <1>2, <3>1
  <2> QED BY <1>1, <2>1 DEF OneXread
<1>5. c[1].op = "xadd" => OneXadd(d, <<>>) /\ c[1].m = b[1] /\ b # <<>>
  BY <1>1, <1>2 DEF OneXadd
<1>6. c[1].op = "xread" => \A i \in 1..(n - 1) : d[i].op # "xread"
  BY <1>1, <1>2 DEF OneXread
<1> QED BY <1>1, <1>3, <1>4, <1>5, <1>6 DEF d

(* A Writable refuses a message only with it in the buffer. *)
LEMMA WriteOK ==
  ASSUME NEW g, NEW e, NEW at, GateOK(g, e, at), NEW r \in Routes, NEW m \in Ids
  PROVE  /\ GateOK(Write(g, r, m), e, at)
         /\ Write(g, r, m).buffer[r] = Append(g.buffer[r], m)
         /\ \A q \in Routes : q # r => Write(g, r, m).buffer[q] = g.buffer[q]
<1> DEFINE h == Write(g, r, m)
           full == Len(g.buffer[r]) + 1 >= HighWaterMark
           b == Append(g.buffer[r], m)
           c == IF g.buffer[r] = <<>> THEN Started(g.conn[r], m) ELSE g.conn[r]
<1>1. /\ g.drained \in Routes \cup {None} /\ g.buffer \in [Routes -> Seq(Ids)]
      /\ g.needDrain \in [Routes -> BOOLEAN] /\ g.conn \in [Routes -> Seq(Command)]
      /\ g.buffer[r] \in Seq(Ids) /\ g.conn[r] \in Seq(Command)
  BY DEF GateOK, Gates
<1>2. h = [g EXCEPT !.drained = IF g.drained = None /\ full THEN r ELSE g.drained,
                    !.buffer = [g.buffer EXCEPT ![r] = b],
                    !.needDrain = [g.needDrain EXCEPT ![r] = g.needDrain[r] \/ full],
                    !.conn = [g.conn EXCEPT ![r] = c]]
  BY DEF Write
<1>3. /\ b \in Seq(Ids) /\ b # <<>> /\ (g.buffer[r] = <<>> => b[1] = m)
      /\ (g.buffer[r] # <<>> => b[1] = g.buffer[r][1])
  <2>1. g.buffer[r] # <<>> => 1 \in 1..Len(g.buffer[r])
    BY <1>1, TailOf
  <2>2. /\ b \in Seq(Ids) /\ b # <<>> /\ b[Len(g.buffer[r]) + 1] = m
        /\ \A i \in 1..Len(g.buffer[r]) : b[i] = g.buffer[r][i]
    BY <1>1, AppendTo, SMTT(30)
  <2>3. g.buffer[r] = <<>> => Len(g.buffer[r]) + 1 = 1
    OBVIOUS
  <2> HIDE DEF b
  <2> QED BY <2>1, <2>2, <2>3
<1>5. c \in Seq(Command) /\ OneXadd(c, b) /\ OneXread(c, e[r], at[r])
  <2>1. OneXadd(g.conn[r], g.buffer[r]) /\ OneXread(g.conn[r], e[r], at[r])
    BY DEF GateOK
  <2>2. CASE g.buffer[r] = <<>>
    BY <1>1, <1>3, <2>1, <2>2, Starts
  <2>3. CASE g.buffer[r] # <<>>
    BY <1>1, <1>3, <2>1, <2>3 DEF OneXadd
  <2> QED BY <2>2, <2>3
<1> HIDE DEF h, b, c, full
<1>6. /\ h.drained = IF g.drained = None /\ full THEN r ELSE g.drained
      /\ h.buffer = [g.buffer EXCEPT ![r] = b]
      /\ h.needDrain = [g.needDrain EXCEPT ![r] = g.needDrain[r] \/ full]
      /\ h.conn = [g.conn EXCEPT ![r] = c]
      /\ DOMAIN h = DOMAIN g
  BY <1>2 DEF GateOK, Gates
<1>7. full \in BOOLEAN
  BY DEF full
<1>8. h \in Gates
  <2>1. /\ h.drained \in Routes \cup {None} /\ h.buffer \in [Routes -> Seq(Ids)]
        /\ h.needDrain \in [Routes -> BOOLEAN] /\ h.conn \in [Routes -> Seq(Command)]
    BY <1>1, <1>3, <1>5, <1>6, <1>7
  <2>2. h = [drained |-> h.drained, buffer |-> h.buffer, needDrain |-> h.needDrain, conn |-> h.conn]
    BY <1>2 DEF GateOK, Gates
  <2> QED BY <2>1, <2>2 DEF Gates
<1>9. /\ h.buffer[r] = b /\ h.needDrain[r] = (g.needDrain[r] \/ full) /\ h.conn[r] = c
      /\ \A q \in Routes : q # r => /\ h.buffer[q] = g.buffer[q] /\ h.conn[q] = g.conn[q]
                                    /\ h.needDrain[q] = g.needDrain[q]
  BY <1>1, <1>6
<1>10. h.drained # None => h.needDrain[h.drained]
  BY <1>1, <1>6, <1>9 DEF GateOK
<1>11. GateOK(h, e, at)
  BY <1>3, <1>5, <1>8, <1>9, <1>10 DEF GateOK
<1> QED BY <1>9, <1>11 DEF h, b

(* The callback of a write takes it off the buffer; if that drains the      *)
(* Writable, its refusal is over, and so is `drained` when it was armed by   *)
(* this route.                                                               *)
LEMMA CallBackOK ==
  ASSUME NEW g, NEW e, NEW at, GateOK(g, e, at), NEW r \in Routes,
         g.conn[r] # <<>>, Head(g.conn[r]).op = "xadd"
  PROVE  /\ GateOK(CallBack(g, r), e, at)
         /\ CallBack(g, r).buffer[r] = Tail(g.buffer[r])
         /\ \A q \in Routes : q # r => CallBack(g, r).buffer[q] = g.buffer[q]
         /\ g.buffer[r] # <<>> /\ Head(g.conn[r]).m = g.buffer[r][1]
         /\ \/ CallBack(g, r).drained = g.drained
            \/ g.drained = r /\ CallBack(g, r).drained = None
<1> DEFINE h == CallBack(g, r)
           b == Tail(g.buffer[r])
           c == IF b = <<>> THEN Tail(g.conn[r]) ELSE Started(Tail(g.conn[r]), Head(b))
           drains == Drains(g, r)
<1>1. /\ g.drained \in Routes \cup {None} /\ g.buffer \in [Routes -> Seq(Ids)]
      /\ g.needDrain \in [Routes -> BOOLEAN] /\ g.conn \in [Routes -> Seq(Command)]
      /\ g.buffer[r] \in Seq(Ids) /\ g.conn[r] \in Seq(Command)
      /\ OneXadd(g.conn[r], g.buffer[r]) /\ OneXread(g.conn[r], e[r], at[r])
      /\ r # None
  BY RoutesAssumption DEF GateOK, Gates, None
<1>2. /\ OneXadd(Tail(g.conn[r]), <<>>) /\ OneXread(Tail(g.conn[r]), e[r], at[r])
      /\ Tail(g.conn[r]) \in Seq(Command)
      /\ Head(g.conn[r]).m = g.buffer[r][1] /\ g.buffer[r] # <<>>
  BY <1>1, Leaves
<1>3. /\ b \in Seq(Ids) /\ (b = <<>> <=> Len(g.buffer[r]) = 1)
  BY <1>1, <1>2, TailOf
<1>4. b # <<>> => Head(b) \in Ids /\ Head(b) = b[1]
  BY <1>3, TailOf
<1> HIDE DEF b
<1>5. c \in Seq(Command) /\ OneXadd(c, b) /\ OneXread(c, e[r], at[r])
  <2>1. CASE b = <<>>
    BY <1>2, <2>1
  <2>2. CASE b # <<>>
    BY <1>2, <1>3, <1>4, <2>2, Starts
  <2> QED BY <2>1, <2>2
<1>6. Called(g, r) = [g EXCEPT !.buffer = [g.buffer EXCEPT ![r] = b], !.conn = [g.conn EXCEPT ![r] = c]]
  BY DEF Called, b
<1>7. h = [drained |-> IF drains /\ g.drained = r THEN None ELSE g.drained,
           buffer |-> [g.buffer EXCEPT ![r] = b],
           needDrain |-> IF drains THEN [g.needDrain EXCEPT ![r] = FALSE] ELSE g.needDrain,
           conn |-> [g.conn EXCEPT ![r] = c]]
  <2>1. g = [drained |-> g.drained, buffer |-> g.buffer, needDrain |-> g.needDrain, conn |-> g.conn]
    BY DEF GateOK, Gates
  <2>2. Called(g, r) = [drained |-> g.drained, buffer |-> [g.buffer EXCEPT ![r] = b],
                        needDrain |-> g.needDrain, conn |-> [g.conn EXCEPT ![r] = c]]
    BY <1>6, <2>1
  <2>3. CASE drains
    <3>1. h = [Called(g, r) EXCEPT
                 !.needDrain = [Called(g, r).needDrain EXCEPT ![r] = FALSE],
                 !.drained = IF Called(g, r).drained = r THEN None ELSE Called(g, r).drained]
      BY <2>3 DEF CallBack
    <3> DEFINE k == Called(g, r)
    <3>2. k.drained = g.drained /\ k.needDrain = g.needDrain
      BY <2>2
    <3>3. h = [k EXCEPT !.needDrain = [g.needDrain EXCEPT ![r] = FALSE],
                        !.drained = IF g.drained = r THEN None ELSE g.drained]
      BY <3>1, <3>2
    <3> DEFINE f == [g.needDrain EXCEPT ![r] = FALSE]
               o == IF g.drained = r THEN None ELSE g.drained
               u == [g.buffer EXCEPT ![r] = b]
               w == [g.conn EXCEPT ![r] = c]
    <3> HIDE DEF h, drains, c, f, o, u, w
    <3>4. k = [drained |-> g.drained, buffer |-> u, needDrain |-> g.needDrain, conn |-> w]
      BY <2>2 DEF u, w
    <3>5. h = [[k EXCEPT !.needDrain = f] EXCEPT !.drained = o]
      BY <3>3 DEF f, o
    <3> HIDE DEF k
    <3>6. h = [drained |-> o, buffer |-> u, needDrain |-> f, conn |-> w]
      BY <3>4, <3>5
    <3> QED BY <2>3, <3>6 DEF f, o, u, w
  <2>4. CASE ~drains
    BY <2>2, <2>4 DEF CallBack
  <2> QED BY <2>3, <2>4
<1>8. drains <=> b = <<>> /\ g.needDrain[r]
  BY <1>3 DEF Drains
<1> HIDE DEF h, c, drains
<1>9. /\ h.drained = IF drains /\ g.drained = r THEN None ELSE g.drained
      /\ h.buffer = [g.buffer EXCEPT ![r] = b]
      /\ h.needDrain = IF drains THEN [g.needDrain EXCEPT ![r] = FALSE] ELSE g.needDrain
      /\ h.conn = [g.conn EXCEPT ![r] = c]
  BY <1>7
<1>10. h \in Gates
  <2>1. /\ h.drained \in Routes \cup {None} /\ h.buffer \in [Routes -> Seq(Ids)]
        /\ h.needDrain \in [Routes -> BOOLEAN] /\ h.conn \in [Routes -> Seq(Command)]
    BY <1>1, <1>3, <1>5, <1>9
  <2>2. h = [drained |-> h.drained, buffer |-> h.buffer, needDrain |-> h.needDrain, conn |-> h.conn]
    BY <1>7
  <2> QED BY <2>1, <2>2 DEF Gates
<1>11. /\ h.buffer[r] = b /\ h.conn[r] = c /\ h.needDrain[r] = (~drains /\ g.needDrain[r])
       /\ \A q \in Routes : q # r => /\ h.buffer[q] = g.buffer[q] /\ h.conn[q] = g.conn[q]
                                     /\ h.needDrain[q] = g.needDrain[q]
  BY <1>1, <1>9, ZenonT(40)
<1>12. h.drained # None => h.needDrain[h.drained]
  <2>1. g.drained # None => g.needDrain[g.drained]
    BY DEF GateOK
  <2>2. h.drained # None => h.drained = g.drained /\ ~(drains /\ g.drained = r)
    BY <1>9
  <2> QED BY <1>1, <1>11, <2>1, <2>2
<1>13. GateOK(h, e, at)
  <2>1. h.needDrain[r] => h.buffer[r] # <<>>
    BY <1>8, <1>11
  <2> QED BY <1>5, <1>10, <1>11, <1>12, <2>1 DEF GateOK
<1> QED BY <1>2, <1>9, <1>11, <1>13 DEF h, b

(* A stream only grows. *)
LEMMA StreamGrows ==
  ASSUME NEW c, NEW q \in Seq(Nat), NEW m \in Nat, NEW at, OneXread(c, q, at)
  PROVE  OneXread(c, Append(q, m), at)
<1>1. Len(Append(q, m)) = Len(q) + 1 /\ Len(q) \in Nat
  BY AppendTo
<1>2. \A x \in 0..Len(q) : x \in 0..Len(Append(q, m))
  BY <1>1
<1> QED BY <1>2 DEF OneXread

-----------------------------------------------------------------------------
(* Messages on their way. *)

LEMMA IdsAreNats == \A q \in Seq(Ids) : q \in Seq(Nat) /\ ~In(Foreign, q)
<1> SUFFICES ASSUME NEW q \in Seq(Ids) PROVE q \in Seq(Nat) /\ ~In(Foreign, q)
  OBVIOUS
<1>1. \A i \in 1..Len(q) : q[i] \in Nat \ {0}
  BY DEF Ids
<1>2. q \in Seq(Nat)
  BY <1>1
<1> QED BY <1>1, <1>2 DEF In, Foreign

(* The oldest message of a buffer is appended to the stream. *)
LEMMA Appended ==
  ASSUME NEW a, NEW e \in Seq(Nat), NEW b \in Seq(Ids), b # <<>>, NEW p \in Seq(Ids),
         NEW i \in Nat \ {0}, Placed(a, e, b, p, i)
  PROVE  Placed(a, Append(e, b[1]), Tail(b), p, i)
<1> DEFINE m == b[1]
           u == Append(e, m)
           t == Tail(b)
<1>1. m \in Ids /\ m \in Nat /\ m # Foreign /\ 1 \in 1..Len(b)
  BY TailOf DEF Ids, Foreign
<1>2. b \in Seq(Nat) /\ p \in Seq(Nat) /\ t \in Seq(Nat)
  BY IdsAreNats, TailOf
<1>3. Asc(e) /\ Asc(b) /\ Below(e, b, 1) /\ Below(e, p, i) /\ Below(b, p, i)
  BY DEF Placed
<1>4. \A k \in 1..Len(e) : e[k] # Foreign => e[k] < m
  BY <1>1, <1>3 DEF Below
<1>5. Asc(t) /\ \A k \in 1..Len(t) : t[k] # Foreign => m < t[k]
  BY <1>1, <1>2, <1>3, AscTail
<1>6. \A k \in 1..Len(t) : m < t[k]
  <2>1. t \in Seq(Ids)
    BY TailOf
  <2> QED BY <1>5, <2>1, IdsAreNats DEF In
<1>7. \A j \in i..Len(p) : m < p[j]
  BY <1>1, <1>3 DEF Below
<1>8. Asc(u)
  BY <1>1, <1>3, <1>4, AscAppend
<1>9. Below(e, t, 1) /\ Below(t, p, i)
  BY <1>2, <1>3, BelowTail
<1>10. Below(u, t, 1)
  <2>1. 1 \in Nat \ {0} /\ (m = Foreign \/ \A k \in 1..Len(t) : m < t[k])
    BY <1>6
  <2> HIDE DEF m, t
  <2> QED BY <1>1, <1>2, <1>9, <2>1, BelowAppend
<1>11. Below(u, p, i)
  BY <1>1, <1>2, <1>3, <1>7, BelowAppend
<1>12. ASSUME NEW x, In(x, a) PROVE In(x, u) \/ In(x, t) \/ \E j \in i..Len(p) : p[j] = x
  <2>1. In(x, e) \/ In(x, b) \/ \E j \in i..Len(p) : p[j] = x
    BY <1>12 DEF Placed
  <2>2. In(x, u) <=> In(x, e) \/ x = m
    <3> HIDE DEF m
    <3> QED BY <1>1, InAppend
  <2>3. In(x, b) <=> x = m \/ In(x, t)
    BY InTail
  <2> QED BY <2>1, <2>2, <2>3
<1> QED BY <1>5, <1>8, <1>9, <1>10, <1>11, <1>12 DEF Placed

LEMMA InMessages ==
  ASSUME Types
  PROVE  \A x : x \in Messages <=> \E r \in Routes : In(x, arrived[r])
<1>1. \A r \in Routes : DOMAIN arrived[r] = 1..Len(arrived[r])
  BY DEF Types
<1> QED BY <1>1 DEF Messages, ToSet, In

LEMMA RouteOfOK ==
  ASSUME Types, NEW m \in Messages
  PROVE  RouteOf(m) \in Routes /\ In(m, arrived[RouteOf(m)])
<1>1. \E r \in Routes : Contains(arrived[r], m)
  BY InMessages DEF In, Contains
<1> QED BY <1>1 DEF RouteOf, Contains, In

(* Message i of p, which came on route r, joins that route's buffer.        *)
LEMMA Joined ==
  ASSUME NEW a, NEW e \in Seq(Nat), NEW b \in Seq(Ids), NEW p \in Seq(Ids), NEW i \in 1..Len(p),
         Asc(p), Placed(a, e, b, p, i)
  PROVE  Placed(a, e, Append(b, p[i]), p, i + 1)
<1> DEFINE m == p[i]
           t == Append(b, m)
<1>1. m \in Ids /\ m \in Nat /\ m # Foreign /\ i \in Nat \ {0} /\ i + 1 \in Nat \ {0}
      /\ 1 \in Nat \ {0} /\ i \in i..Len(p)
  BY DEF Ids, Foreign
<1>2. b \in Seq(Nat) /\ p \in Seq(Nat)
  BY IdsAreNats
<1>3. Asc(e) /\ Asc(b) /\ Below(e, b, 1) /\ Below(e, p, i) /\ Below(b, p, i)
  BY DEF Placed
<1>4. /\ \A k \in 1..Len(e) : e[k] # Foreign => e[k] < m
      /\ \A k \in 1..Len(b) : b[k] # Foreign => b[k] < m
  BY <1>1, <1>3 DEF Below
<1>5. \A j \in (i + 1)..Len(p) : j \in i..Len(p) /\ m < p[j]
  <2> TAKE j \in (i + 1)..Len(p)
  <2>1. j \in i..Len(p) /\ i < j /\ j \in 1..Len(p)
    BY <1>1
  <2>2. p[j] # Foreign
    BY <2>1, IdsAreNats DEF In
  <2> QED BY <1>1, <2>1, <2>2 DEF Asc
<1>6. Below(e, p, i + 1) /\ Below(b, p, i + 1)
  BY <1>3, <1>5 DEF Below
<1>7. Asc(t)
  BY <1>1, <1>2, <1>3, <1>4, AscAppend
<1>8. Below(e, t, 1)
  BY <1>1, <1>2, <1>3, <1>4, BelowAppend
<1>9. Below(t, p, i + 1)
  <2> HIDE DEF m
  <2> QED BY <1>1, <1>2, <1>5, <1>6, BelowAppend
<1>10. ASSUME NEW x, In(x, a)
       PROVE  In(x, e) \/ In(x, t) \/ \E j \in (i + 1)..Len(p) : p[j] = x
  <2>1. In(x, e) \/ In(x, b) \/ \E j \in i..Len(p) : p[j] = x
    BY <1>10 DEF Placed
  <2>2. In(x, t) <=> In(x, b) \/ x = m
    BY <1>1, InAppend
  <2>3. \A j \in i..Len(p) : j = i \/ j \in (i + 1)..Len(p)
    BY <1>1
  <2> QED BY <2>1, <2>2, <2>3
<1> QED BY <1>3, <1>6, <1>7, <1>8, <1>9, <1>10 DEF Placed

(* Message i of p came on another route. *)
LEMMA Passed ==
  ASSUME NEW a, NEW e, NEW b, NEW p \in Seq(Ids), NEW i \in 1..Len(p),
         ~In(p[i], a), Placed(a, e, b, p, i)
  PROVE  Placed(a, e, b, p, i + 1)
<1>1. /\ \A j \in (i + 1)..Len(p) : j \in i..Len(p)
      /\ \A j \in i..Len(p) : j = i \/ j \in (i + 1)..Len(p)
  OBVIOUS
<1>2. Below(e, p, i + 1) /\ Below(b, p, i + 1)
  BY <1>1 DEF Below, Placed
<1>3. ASSUME NEW x, In(x, a)
      PROVE  In(x, e) \/ In(x, b) \/ \E j \in (i + 1)..Len(p) : p[j] = x
  BY <1>1, <1>3 DEF Placed
<1> QED BY <1>2, <1>3 DEF Placed

-----------------------------------------------------------------------------
(* What was held back is written in a row: in h are the Writables before     *)
(* message i of them is, beside the streams e and the cursors at.            *)

Flushed(h, e, at, i) ==
  /\ GateOK(h, e, at)
  /\ \A r \in Routes : \A x : In(x, h.buffer[r]) => In(x, arrived[r])
  /\ ~onMessage => \A r \in Routes : Placed(arrived[r], e[r], h.buffer[r], parked, i)

LEMMA WriteNext ==
  ASSUME Types, Numbered, Arrived, ~onMessage => Asc(parked),
         NEW h, NEW e \in [Routes -> Seq(Nat)], NEW at, NEW i \in 1..Len(parked),
         Flushed(h, e, at, i)
  PROVE  Flushed(Write(h, RouteOf(parked[i]), parked[i]), e, at, i + 1)
<1> DEFINE m == parked[i]
           r == RouteOf(m)
           g == Write(h, r, m)
<1>1. parked \in Seq(Ids) /\ m \in Ids /\ i \in 1..Len(parked)
  BY DEF Types
<1>2. m \in Messages
  BY <1>1 DEF Arrived, In
<1>3. r \in Routes /\ In(m, arrived[r])
  BY <1>2, RouteOfOK
<1>4. h.buffer \in [Routes -> Seq(Ids)] /\ \A q \in Routes : h.buffer[q] \in Seq(Ids) /\ e[q] \in Seq(Nat)
  BY DEF Flushed, GateOK, Gates
<1> HIDE DEF m, r, g
<1>5. GateOK(g, e, at)
  <2>1. GateOK(h, e, at)
    BY DEF Flushed
  <2> QED BY <1>1, <1>3, <2>1, WriteOK DEF g
<1>6. /\ g.buffer[r] = Append(h.buffer[r], m)
      /\ \A q \in Routes : q # r => g.buffer[q] = h.buffer[q]
  <2>1. GateOK(h, e, at)
    BY DEF Flushed
  <2> QED BY <1>1, <1>3, <2>1, WriteOK DEF g
<1>7. ASSUME NEW q \in Routes, NEW x, In(x, g.buffer[q]) PROVE In(x, arrived[q])
  <2>1. CASE q = r
    <3>1. h.buffer[r] \in Seq(Ids) /\ In(x, Append(h.buffer[r], m))
      BY <1>3, <1>4, <1>6, <1>7, <2>1
    <3>2. In(x, h.buffer[r]) \/ x = m
      BY <1>1, <3>1, InAppend
    <3> QED BY <1>3, <2>1, <3>2 DEF Flushed
  <2>2. CASE q # r
    BY <1>6, <1>7, <2>2 DEF Flushed
  <2> QED BY <2>1, <2>2
<1>8. ASSUME ~onMessage, NEW q \in Routes
      PROVE  Placed(arrived[q], e[q], g.buffer[q], parked, i + 1)
  <2>1. Placed(arrived[q], e[q], h.buffer[q], parked, i) /\ Asc(parked)
    BY <1>8 DEF Flushed
  <2>2. CASE q = r
    BY <1>1, <1>4, <1>6, <2>1, <2>2, Joined DEF m
  <2>3. CASE q # r
    <3>1. ~In(m, arrived[q])
      BY <1>3, <2>3 DEF Numbered
    <3> QED BY <1>1, <1>6, <2>1, <2>3, <3>1, Passed DEF m
  <2> QED BY <2>2, <2>3
<1> QED BY <1>5, <1>7, <1>8 DEF Flushed, m, r, g

Writing(w, g, q, n) ==
  w = [i \in 0..n |-> IF i = 0 THEN g ELSE Write(w[i - 1], RouteOf(q[i]), q[i])]

LEMMA WritingExists ==
  ASSUME NEW g, NEW q, NEW n \in Nat
  PROVE  \E w : Writing(w, g, q, n)
<1> DEFINE T == {k \in Nat : \E w : Writing(w, g, q, k)}
<1>1. 0 \in T
  <2> DEFINE w == [i \in 0..0 |-> g]
  <2>1. Writing(w, g, q, 0)
    <3>1. \A i \in 0..0 : i = 0
      OBVIOUS
    <3> QED BY <3>1 DEF Writing
  <2> QED BY <2>1
<1>2. ASSUME NEW k \in Nat, k \in T PROVE k + 1 \in T
  <2>1. PICK w : Writing(w, g, q, k)
    BY <1>2
  <2> DEFINE u == [i \in 0..(k + 1) |->
                     IF i = k + 1 THEN Write(w[k], RouteOf(q[k + 1]), q[k + 1]) ELSE w[i]]
             next(v, i) == IF i = 0 THEN g ELSE Write(v[i - 1], RouteOf(q[i]), q[i])
  <2>2. \A i \in 0..k : w[i] = next(w, i)
    BY <2>1 DEF Writing
  <2>3. \A i \in 0..k : i \in 0..(k + 1) /\ i # k + 1 /\ u[i] = w[i]
    OBVIOUS
  <2>4. k + 1 \in 0..(k + 1) /\ u[k + 1] = Write(w[k], RouteOf(q[k + 1]), q[k + 1])
    OBVIOUS
  <2> HIDE DEF u
  <2>5. ASSUME NEW i \in 0..(k + 1) PROVE u[i] = next(u, i)
    <3>1. CASE i = k + 1
      <4>1. i # 0 /\ i - 1 = k /\ u[k] = w[k]
        BY <2>3, <3>1
      <4> QED BY <2>4, <3>1, <4>1
    <3>2. CASE i = 0
      BY <2>2, <2>3, <3>2
    <3>3. CASE i # 0 /\ i # k + 1
      <4>1. i \in 0..k /\ i - 1 \in 0..k
        BY <3>3
      <4>2. u[i - 1] = w[i - 1] /\ u[i] = w[i]
        BY <2>3, <4>1
      <4>3. w[i] = next(w, i)
        BY <2>2, <4>1
      <4> QED BY <4>2, <4>3
    <3> QED BY <3>1, <3>2, <3>3
  <2>6. u = [i \in 0..(k + 1) |-> u[i]]
    BY DEF u
  <2>7. Writing(u, g, q, k + 1)
    BY <2>5, <2>6 DEF Writing
  <2> QED BY <2>7
<1> HIDE DEF T
<1>3. n \in T
  BY <1>1, <1>2, Induction
<1> QED BY <1>3 DEF T

LEMMA WriteAllOK ==
  ASSUME Types, Numbered, Arrived, ~onMessage => Asc(parked),
         NEW g, NEW e \in [Routes -> Seq(Nat)], NEW at, Flushed(g, e, at, 1)
  PROVE  Flushed(WriteAll(g, parked), e, at, Len(parked) + 1)
<1> DEFINE n == Len(parked)
           w == CHOOSE w : Writing(w, g, parked, n)
           T == {i \in Nat : i <= n => Flushed(w[i], e, at, i + 1)}
<1>1. n \in Nat
  BY DEF Types
<1>2. WriteAll(g, parked) = w[n]
  BY DEF WriteAll, Writing
<1>3. Writing(w, g, parked, n)
  BY <1>1, WritingExists
<1> HIDE DEF w, n
<1>4. \A i \in 0..n : w[i] = IF i = 0 THEN g ELSE Write(w[i - 1], RouteOf(parked[i]), parked[i])
  BY <1>3 DEF Writing
<1>5. 0 \in T
  <2>1. w[0] = g
    BY <1>1, <1>4
  <2> QED BY <2>1
<1>6. ASSUME NEW i \in Nat, i \in T PROVE i + 1 \in T
  <2> SUFFICES ASSUME i + 1 <= n PROVE Flushed(w[i + 1], e, at, (i + 1) + 1)
    OBVIOUS
  <2>1. i + 1 \in 1..n /\ i + 1 \in 0..n /\ i + 1 # 0 /\ (i + 1) - 1 = i
    BY <1>1
  <2>2. w[i + 1] = Write(w[i], RouteOf(parked[i + 1]), parked[i + 1])
    BY <1>4, <2>1
  <2>3. Flushed(w[i], e, at, i + 1)
    BY <1>1, <1>6
  <2> QED BY <2>1, <2>2, <2>3, WriteNext DEF n
<1> HIDE DEF T
<1>7. n \in T
  BY <1>1, <1>5, <1>6, Induction
<1> QED BY <1>1, <1>2, <1>7 DEF T, n

(* Message m, later than all others, is held back. *)
LEMMA HeldBack ==
  ASSUME NEW a \in Seq(Ids), NEW e \in Seq(Nat), NEW b \in Seq(Ids), NEW p \in Seq(Ids),
         NEW m \in Ids, Placed(a, e, b, p, 1),
         \A x \in Nat \ {Foreign} : In(x, e) \/ In(x, b) => x < m
  PROVE  /\ Placed(a, e, b, Append(p, m), 1)
         /\ Placed(Append(a, m), e, b, Append(p, m), 1)
<1> DEFINE u == Append(p, m)
           n == Len(p)
<1>1. m \in Nat /\ 1 \in Nat \ {0} /\ e \in Seq(Nat) /\ b \in Seq(Nat) /\ p \in Seq(Nat)
  BY IdsAreNats DEF Ids
<1>2. /\ \A k \in 1..Len(e) : e[k] # Foreign => e[k] < m
      /\ \A k \in 1..Len(b) : b[k] # Foreign => b[k] < m
  <2>1. \A k \in 1..Len(e) : e[k] \in Nat /\ In(e[k], e)
    BY DEF In
  <2>2. \A k \in 1..Len(b) : b[k] \in Nat /\ In(b[k], b)
    BY <1>1 DEF In
  <2> QED BY <2>1, <2>2
<1>3. /\ Len(u) = n + 1 /\ n \in Nat /\ u[n + 1] = m
      /\ \A i \in 1..n : u[i] = p[i]
  BY AppendTo
<1>4. Below(e, u, 1) /\ Below(b, u, 1)
  BY <1>1, <1>2, BelowAppend DEF Placed
<1> HIDE DEF u
<1>5. (\A i \in 1..n : i \in 1..(n + 1)) /\ n + 1 \in 1..(n + 1)
  BY <1>3
<1>6. ASSUME NEW x, In(x, a) \/ x = m
      PROVE  In(x, e) \/ In(x, b) \/ \E j \in 1..Len(u) : u[j] = x
  BY <1>3, <1>5, <1>6 DEF Placed
<1>7. \A x : In(x, Append(a, m)) <=> In(x, a) \/ x = m
  BY InAppend
<1> QED BY <1>4, <1>6, <1>7 DEF Placed, u

(* Nothing is held back any more. *)
LEMMA Emptied ==
  ASSUME NEW a, NEW e, NEW b, NEW p \in Seq(Ids), Placed(a, e, b, p, Len(p) + 1)
  PROVE  Placed(a, e, b, <<>>, 1)
<1>1. ~(\E j \in (Len(p) + 1)..Len(p) : TRUE) /\ 1..Len(<<>>) = {}
  OBVIOUS
<1>2. Below(e, <<>>, 1) /\ Below(b, <<>>, 1)
  BY <1>1 DEF Below
<1>3. \A x : In(x, a) => In(x, e) \/ In(x, b)
  BY <1>1 DEF Placed
<1> QED BY <1>2, <1>3 DEF Placed

(* Another producer writes to the stream. *)
LEMMA Interspersed ==
  ASSUME NEW a, NEW e \in Seq(Nat), NEW b \in Seq(Ids), NEW p \in Seq(Ids), Placed(a, e, b, p, 1)
  PROVE  Placed(a, Append(e, Foreign), b, p, 1)
<1>1. /\ Foreign \in Nat /\ 1 \in Nat \ {0} /\ b \in Seq(Nat) /\ p \in Seq(Nat)
  BY IdsAreNats DEF Foreign
<1>2. Asc(Append(e, Foreign))
  BY <1>1, AscAppend DEF Placed
<1>3. Below(Append(e, Foreign), b, 1) /\ Below(Append(e, Foreign), p, 1)
  BY <1>1, BelowAppend DEF Placed
<1>4. \A x : In(x, e) => In(x, Append(e, Foreign))
  BY <1>1, InAppend
<1> QED BY <1>2, <1>3, <1>4 DEF Placed

-----------------------------------------------------------------------------
(* What a route publishes of a batch. *)

Hearing(h, batch, n) ==
  h = [i \in 0..n |->
        CASE i = 0 -> <<>>
          [] i > 0 /\ batch[i] = Foreign -> h[i - 1]
          [] OTHER -> Append(h[i - 1], batch[i])]

LEMMA HearingExists ==
  ASSUME NEW batch, NEW n \in Nat
  PROVE  \E h : Hearing(h, batch, n)
<1> DEFINE T == {k \in Nat : \E h : Hearing(h, batch, k)}
           next(h, i) == CASE i = 0 -> <<>>
                           [] i > 0 /\ batch[i] = Foreign -> h[i - 1]
                           [] OTHER -> Append(h[i - 1], batch[i])
<1>1. 0 \in T
  <2> DEFINE h == [i \in 0..0 |-> <<>>]
  <2>1. \A i \in 0..0 : i = 0 /\ next(h, i) = <<>>
    OBVIOUS
  <2>2. h = [i \in 0..0 |-> next(h, i)]
    <3> HIDE DEF next
    <3> QED BY <2>1
  <2>3. Hearing(h, batch, 0)
    BY <2>2 DEF Hearing
  <2> QED BY <2>3
<1>2. ASSUME NEW k \in Nat, k \in T PROVE k + 1 \in T
  <2>1. PICK h : Hearing(h, batch, k)
    BY <1>2
  <2> DEFINE u == [i \in 0..(k + 1) |-> IF i = k + 1 THEN next(h, k + 1) ELSE h[i]]
  <2>2. \A i \in 0..k : h[i] = next(h, i)
    <3>1. h = [i \in 0..k |-> next(h, i)]
      BY <2>1 DEF Hearing
    <3> HIDE DEF next
    <3> QED BY <3>1
  <2> HIDE DEF next
  <2>3. \A i \in 0..k : i \in 0..(k + 1) /\ i # k + 1 /\ u[i] = h[i]
    OBVIOUS
  <2>4. k + 1 \in 0..(k + 1) /\ u[k + 1] = next(h, k + 1)
    OBVIOUS
  <2> HIDE DEF u
  <2>5. ASSUME NEW i \in 0..(k + 1) PROVE u[i] = next(u, i)
    <3>1. ASSUME i # 0 PROVE u[i - 1] = h[i - 1]
      <4>1. i - 1 \in 0..k
        BY <3>1
      <4> QED BY <2>3, <4>1
    <3>2. next(u, i) = next(h, i)
      BY <3>1 DEF next
    <3>3. i \in 0..k \/ i = k + 1
      OBVIOUS
    <3> QED BY <2>2, <2>3, <2>4, <3>2, <3>3
  <2>6. u = [i \in 0..(k + 1) |-> next(u, i)]
    <3>1. u = [i \in 0..(k + 1) |-> u[i]]
      BY DEF u
    <3> QED BY <2>5, <3>1
  <2>7. Hearing(u, batch, k + 1)
    BY <2>6 DEF Hearing, next
  <2> QED BY <2>7
<1> HIDE DEF T
<1>3. n \in T
  BY <1>1, <1>2, Induction
<1> QED BY <1>3 DEF T

(* It is messages of the batch, in their order. *)
LEMMA HeardOK ==
  ASSUME NEW batch \in Seq(Nat)
  PROVE  /\ Heard(batch) \in Seq(Ids)
         /\ \A x : In(x, Heard(batch)) => In(x, batch)
         /\ Asc(batch) => Asc(Heard(batch))
<1> DEFINE n == Len(batch)
           h == CHOOSE h : Hearing(h, batch, n)
           From(i) == /\ h[i] \in Seq(Ids)
                      /\ \A x : In(x, h[i]) => \E k \in 1..i : batch[k] = x
                      /\ Asc(batch) => Asc(h[i])
           T == {i \in Nat : i <= n => From(i)}
<1>1. n \in Nat /\ \A i \in 1..n : batch[i] \in Nat
  OBVIOUS
<1>2. Heard(batch) = h[n]
  BY DEF Heard, Hearing
<1>3. Hearing(h, batch, n)
  BY <1>1, HearingExists
<1> HIDE DEF h, n
<1>4. \A i \in 0..n : h[i] = CASE i = 0 -> <<>>
                               [] i > 0 /\ batch[i] = Foreign -> h[i - 1]
                               [] OTHER -> Append(h[i - 1], batch[i])
  BY <1>3 DEF Hearing
<1>5. 0 \in T
  <2>1. h[0] = <<>>
    BY <1>1, <1>4
  <2>2. <<>> \in Seq(Ids) /\ 1..Len(<<>>) = {}
    OBVIOUS
  <2> QED BY <2>1, <2>2 DEF In, Asc
<1>6. ASSUME NEW i \in Nat, i \in T PROVE i + 1 \in T
  <2> SUFFICES ASSUME i + 1 <= n PROVE From(i + 1)
    OBVIOUS
  <2> DEFINE m == batch[i + 1]
  <2>1. From(i)
    BY <1>1, <1>6
  <2>2. i + 1 \in 1..n /\ i + 1 \in 0..n /\ i + 1 > 0 /\ (i + 1) - 1 = i
    BY <1>1
  <2>3. \A k \in 1..i : k \in 1..n /\ k \in 1..(i + 1) /\ k < i + 1
    BY <1>1, <2>2
  <2>4. CASE m = Foreign
    <3>1. h[i + 1] = h[i]
      BY <1>4, <2>2, <2>4
    <3> QED BY <2>1, <2>3, <3>1
  <2>5. CASE m # Foreign
    <3>1. h[i + 1] = Append(h[i], m)
      <4> DEFINE j == i + 1
      <4>1. j \in 0..n /\ j # 0 /\ batch[j] # Foreign /\ j - 1 = i
        BY <2>2, <2>5
      <4> HIDE DEF j
      <4>2. h[j] = Append(h[j - 1], batch[j])
        BY <1>4, <4>1
      <4> QED BY <4>1, <4>2 DEF j
    <3>2. m \in Ids /\ m \in Nat /\ h[i] \in Seq(Ids)
      BY <1>1, <2>1, <2>2, <2>5 DEF Ids, Foreign
    <3>3. h[i + 1] \in Seq(Ids)
      BY <3>1, <3>2, AppendTo
    <3>4. ASSUME NEW x, In(x, h[i + 1]) PROVE \E k \in 1..(i + 1) : batch[k] = x
      <4>1. In(x, h[i]) \/ x = m
        BY <3>1, <3>2, <3>4, InAppend
      <4>2. i + 1 \in 1..(i + 1)
        OBVIOUS
      <4> QED BY <2>1, <2>3, <4>1, <4>2
    <3>5. ASSUME Asc(batch) PROVE Asc(h[i + 1])
      <4>1. ASSUME NEW j \in 1..Len(h[i]), h[i][j] # Foreign PROVE h[i][j] < m
        <5>1. In(h[i][j], h[i])
          BY DEF In
        <5>2. PICK k \in 1..i : batch[k] = h[i][j]
          BY <2>1, <5>1
        <5>3. k \in 1..n /\ i + 1 \in 1..n /\ k < i + 1
          BY <2>2, <2>3
        <5> HIDE DEF From
        <5> QED BY <2>5, <3>5, <4>1, <5>2, <5>3 DEF Asc, n
      <4>2. Asc(h[i]) /\ h[i] \in Seq(Nat)
        BY <2>1, <3>2, <3>5, IdsAreNats
      <4> HIDE DEF m
      <4> QED BY <3>1, <3>2, <4>1, <4>2, AscAppend
    <3> QED BY <3>3, <3>4, <3>5
  <2> QED BY <2>4, <2>5
<1> HIDE DEF T
<1>7. n \in T
  BY <1>1, <1>5, <1>6, Induction
<1>8. From(n)
  BY <1>1, <1>7 DEF T
<1> QED BY <1>2, <1>8 DEF In, n

-----------------------------------------------------------------------------
(* The Writables in a state, and after they are set. *)

LEMMA GateHere ==
  ASSUME WInv
  PROVE  /\ GateOK(Gate, entries, cursor)
         /\ Gate.drained = drained /\ Gate.buffer = buffer
         /\ Gate.needDrain = needDrain /\ Gate.conn = conn
<1>1. /\ Gate.drained = drained /\ Gate.buffer = buffer
      /\ Gate.needDrain = needDrain /\ Gate.conn = conn
  BY DEF Gate
<1>2. Gate \in Gates
  BY DEF WInv, Types, Gate, Gates
<1>3. drained # None => needDrain[drained]
  BY DEF WInv, DrainIsOwed
<1>4. \A r \in Routes : /\ needDrain[r] => buffer[r] # <<>>
                        /\ OneXadd(conn[r], buffer[r]) /\ OneXread(conn[r], entries[r], cursor[r])
  BY DEF WInv, Draining, Reading
<1> QED BY <1>1, <1>2, <1>3, <1>4 DEF GateOK

LEMMA GateSet ==
  ASSUME NEW g, Set(g), GateOK(g, entries', cursor')
  PROVE  /\ drained' \in Routes \cup {None} /\ buffer' \in [Routes -> Seq(Ids)]
         /\ needDrain' \in [Routes -> BOOLEAN] /\ conn' \in [Routes -> Seq(Command)]
         /\ drained' # None => needDrain'[drained'] /\ buffer'[drained'] # <<>>
         /\ Draining'
         /\ \A r \in Routes : OneXread(conn'[r], entries'[r], cursor'[r])
<1>1. /\ drained' = g.drained /\ buffer' = g.buffer /\ needDrain' = g.needDrain /\ conn' = g.conn
  BY DEF Set
<1>2. g \in Gates
  BY DEF GateOK
<1>3. /\ drained' \in Routes \cup {None} /\ buffer' \in [Routes -> Seq(Ids)]
      /\ needDrain' \in [Routes -> BOOLEAN] /\ conn' \in [Routes -> Seq(Command)]
  BY <1>1, <1>2 DEF Gates
<1>4. /\ drained' # None => needDrain'[drained']
      /\ \A r \in Routes :
           /\ needDrain'[r] => buffer'[r] # <<>>
           /\ OneXadd(conn'[r], buffer'[r]) /\ OneXread(conn'[r], entries'[r], cursor'[r])
  BY <1>1 DEF GateOK
<1>5. drained' # None => buffer'[drained'] # <<>>
  BY <1>3, <1>4
<1> QED BY <1>3, <1>4, <1>5 DEF Draining

(* `await this.drained`, then write. *)
LEMMA Awaited ==
  ASSUME WInv, NEW r \in Routes, NEW m \in Ids, AwaitDrained(r, m), UNCHANGED <<entries, cursor>>
  PROVE  /\ parked' \in Seq(Ids) /\ drained' \in Routes \cup {None}
         /\ buffer' \in [Routes -> Seq(Ids)]
         /\ needDrain' \in [Routes -> BOOLEAN] /\ conn' \in [Routes -> Seq(Command)]
         /\ DrainIsOwed' /\ Draining'
         /\ \A q \in Routes : OneXread(conn'[q], entries'[q], cursor'[q])
         /\ \/ /\ parked = <<>> /\ parked' = parked
               /\ buffer'[r] = Append(buffer[r], m)
               /\ \A q \in Routes : q # r => buffer'[q] = buffer[q]
            \/ parked' = Append(parked, m) /\ buffer' = buffer
<1>1. /\ parked \in Seq(Ids) /\ drained \in Routes \cup {None} /\ buffer \in [Routes -> Seq(Ids)]
      /\ needDrain \in [Routes -> BOOLEAN] /\ conn \in [Routes -> Seq(Command)]
  BY DEF WInv, Types
<1>2. /\ drained # None => needDrain[drained] /\ buffer[drained] # <<>>
      /\ parked # <<>> => drained # None
  BY DEF WInv, DrainIsOwed
<1>3. CASE drained = None
  <2> DEFINE g == Write(Gate, r, m)
  <2>1. Set(g) /\ parked' = parked /\ parked = <<>>
    BY <1>2, <1>3 DEF AwaitDrained
  <2>2. GateOK(Gate, entries, cursor) /\ Gate.buffer = buffer
    BY GateHere
  <2>3. /\ GateOK(g, entries, cursor) /\ g.buffer[r] = Append(buffer[r], m)
        /\ \A q \in Routes : q # r => g.buffer[q] = buffer[q]
    BY <2>2, WriteOK
  <2> HIDE DEF g
  <2>4. GateOK(g, entries', cursor') /\ buffer' = g.buffer
    BY <2>1, <2>3 DEF Set
  <2>5. /\ drained' \in Routes \cup {None} /\ buffer' \in [Routes -> Seq(Ids)]
        /\ needDrain' \in [Routes -> BOOLEAN] /\ conn' \in [Routes -> Seq(Command)]
        /\ drained' # None => needDrain'[drained'] /\ buffer'[drained'] # <<>>
        /\ Draining'
        /\ \A q \in Routes : OneXread(conn'[q], entries'[q], cursor'[q])
    BY <2>1, <2>4, GateSet
  <2>6. DrainIsOwed'
    BY <2>1, <2>5 DEF DrainIsOwed
  <2> QED BY <1>1, <2>1, <2>3, <2>4, <2>5, <2>6
<1>4. CASE drained # None
  <2>1. /\ parked' = Append(parked, m) /\ drained' = drained /\ buffer' = buffer
        /\ needDrain' = needDrain /\ conn' = conn
    BY <1>4 DEF AwaitDrained
  <2>2. parked' \in Seq(Ids)
    BY <1>1, <2>1, AppendTo
  <2>3. DrainIsOwed'
    BY <1>2, <1>4, <2>1 DEF DrainIsOwed
  <2>4. Draining' /\ \A q \in Routes : OneXread(conn'[q], entries'[q], cursor'[q])
    BY <2>1 DEF WInv, Draining, Reading
  <2> QED BY <1>1, <2>1, <2>2, <2>3, <2>4
<1> QED BY <1>3, <1>4

(* Messages, and where they are, beside what a step leaves as it is. *)
LEMMA SameMessages ==
  ASSUME Numbered, UNCHANGED arrived
  PROVE  Numbered' /\ Messages' = Messages
BY DEF Numbered, Messages

LEMMA SameReading ==
  ASSUME Reading, UNCHANGED <<entries, cursor, sent>>,
         \A r \in Routes : OneXread(conn'[r], entries'[r], cursor'[r])
  PROVE  Reading'
BY DEF Reading

(* What was sent is still where it was in a longer stream. *)
LEMMA SentInLonger ==
  ASSUME Reading, UNCHANGED <<cursor, sent>>,
         \A r \in Routes : OneXread(conn'[r], entries'[r], cursor'[r]),
         \A r \in Routes : /\ Len(entries[r]) \in Nat /\ Len(entries'[r]) \in Nat
                           /\ Len(entries[r]) <= Len(entries'[r])
                           /\ \A k \in 1..Len(entries[r]) : entries'[r][k] = entries[r][k]
  PROVE  Reading'
<1> SUFFICES ASSUME NEW r \in Routes
             PROVE  /\ cursor[r] # Latest => cursor[r] \in 0..Len(entries'[r])
                    /\ \A i \in 1..Len(sent[r]) :
                         cursor[r] # Latest /\ \E k \in 1..cursor[r] : entries'[r][k] = sent[r][i]
  BY DEF Reading
<1>1. cursor[r] # Latest => cursor[r] \in 0..Len(entries[r])
  BY DEF Reading
<1>2. cursor[r] # Latest => cursor[r] \in 0..Len(entries'[r])
  BY <1>1
<1>3. ASSUME NEW i \in 1..Len(sent[r])
      PROVE  cursor[r] # Latest /\ \E k \in 1..cursor[r] : entries'[r][k] = sent[r][i]
  <2>1. cursor[r] # Latest /\ \E k \in 1..cursor[r] : entries[r][k] = sent[r][i]
    BY DEF Reading
  <2>2. \A k \in 1..cursor[r] : k \in 1..Len(entries[r])
    BY <1>1, <2>1
  <2> QED BY <2>1, <2>2
<1> QED BY <1>2, <1>3

-----------------------------------------------------------------------------
(* The steps. *)

LEMMA InitOK ==
  ASSUME Init
  PROVE  WInv
<1>1. \A r \in Routes : /\ arrived[r] = <<>> /\ buffer[r] = <<>> /\ needDrain[r] = FALSE
                        /\ conn[r] = <<>> /\ entries[r] = <<>> /\ cursor[r] = Latest
                        /\ sent[r] = <<>>
  BY DEF Init
<1>2. \A x : ~In(x, <<>>)
  BY DEF In
<1>3. Types
  <2>1. \A S : <<>> \in Seq(S)
    OBVIOUS
  <2>2. Latest \in Int
    BY DEF Latest
  <2> QED BY <2>1, <2>2 DEF Init, Types
<1>4. Numbered
  <2>1. Messages = {}
    BY <1>1 DEF Messages, ToSet
  <2>2. 0 \in Nat /\ 1..0 = {}
    OBVIOUS
  <2> QED BY <1>1, <1>2, <2>1, <2>2 DEF Numbered
<1>5. Arrived
  BY <1>1, <1>2 DEF Init, Arrived
<1>6. DrainIsOwed
  BY DEF Init, DrainIsOwed
<1>7. Draining
  BY <1>1 DEF Draining, OneXadd
<1>8. Reading
  BY <1>1 DEF Reading, OneXread
<1>9. Order
  <2>1. Asc(<<>>) /\ Placed(<<>>, <<>>, <<>>, <<>>, 1)
    BY <1>2 DEF Asc, Below, Placed
  <2>2. handling = {} /\ parked = <<>>
    BY DEF Init
  <2> QED BY <1>1, <2>1, <2>2 DEF Order
<1> QED BY <1>3, <1>4, <1>5, <1>6, <1>7, <1>8, <1>9 DEF WInv

(* Only commands come and go. *)
LEMMA CommandsChange ==
  ASSUME WInv,
         UNCHANGED <<onMessage, arrived, handling, parked, drained, buffer, needDrain,
                     entries, cursor, sent>>,
         subscribed' \subseteq Routes, conn' \in [Routes -> Seq(Command)],
         \A r \in Routes : /\ OneXadd(conn'[r], buffer[r])
                           /\ OneXread(conn'[r], entries[r], cursor[r])
  PROVE  WInv'
<1>1. Types'
  BY DEF WInv, Types
<1>2. Numbered' /\ Messages' = Messages
  BY SameMessages DEF WInv
<1>3. Arrived'
  BY <1>2 DEF WInv, Arrived
<1>4. DrainIsOwed'
  BY DEF WInv, DrainIsOwed
<1>5. Draining'
  BY DEF WInv, Draining
<1>6. Reading'
  BY DEF WInv, Reading
<1>7. Order'
  BY DEF WInv, Order
<1> QED BY <1>1, <1>2, <1>3, <1>4, <1>5, <1>6, <1>7 DEF WInv

LEMMA CommandsHere ==
  ASSUME WInv
  PROVE  /\ conn \in [Routes -> Seq(Command)] /\ subscribed \subseteq Routes
         /\ \A r \in Routes : OneXadd(conn[r], buffer[r]) /\ OneXread(conn[r], entries[r], cursor[r])
BY DEF WInv, Types, Draining, Reading

LEMMA CloseOK ==
  ASSUME WInv, NEW r \in Routes, Close(r)
  PROVE  WInv'
<1>1. conn' = conn /\ subscribed' \subseteq Routes
  BY CommandsHere DEF Close, server
<1> QED BY <1>1, CommandsHere, CommandsChange DEF Close, server

LEMMA XaddFailsOK ==
  ASSUME WInv, NEW r \in Routes, XaddFails(r)
  PROVE  WInv'
<1>1. conn' = conn /\ subscribed' \subseteq Routes
  BY CommandsHere DEF XaddFails, server
<1> QED BY <1>1, CommandsHere, CommandsChange DEF XaddFails, server

(* One connection changes. *)
LEMMA ConnectionChanges ==
  ASSUME WInv, NEW r \in Routes, NEW c \in Seq(Command), conn' = [conn EXCEPT ![r] = c],
         OneXadd(c, buffer[r]), OneXread(c, entries[r], cursor[r]),
         UNCHANGED <<onMessage, subscribed, arrived, handling, parked, drained, buffer, needDrain,
                     entries, cursor, sent>>
  PROVE  WInv'
<1>1. conn \in [Routes -> Seq(Command)] /\ subscribed' \subseteq Routes
  BY CommandsHere
<1>2. conn' \in [Routes -> Seq(Command)]
  BY <1>1
<1>3. conn'[r] = c /\ \A q \in Routes : q # r => conn'[q] = conn[q]
  BY <1>1
<1>4. \A q \in Routes : /\ OneXadd(conn'[q], buffer[q])
                        /\ OneXread(conn'[q], entries[q], cursor[q])
  BY <1>3, CommandsHere
<1> QED BY <1>1, <1>2, <1>4, CommandsChange

LEMMA IssueXreadOK ==
  ASSUME WInv, NEW r \in Routes, IssueXread(r)
  PROVE  WInv'
<1>1. conn[r] \in Seq(Command) /\ OneXadd(conn[r], buffer[r])
  BY CommandsHere
<1>2. \A k \in 1..Len(conn[r]) : conn[r][k].op # "xread"
  BY DEF IssueXread
<1>3. /\ OneXadd(Append(conn[r], Xread), buffer[r])
      /\ OneXread(Append(conn[r], Xread), entries[r], cursor[r])
  BY <1>1, <1>2, XreadJoins
<1>4. Append(conn[r], Xread) \in Seq(Command)
  BY <1>1, XreadType, AppendTo
<1> QED BY <1>3, <1>4, ConnectionChanges DEF IssueXread

LEMMA XreadTimesOutOK ==
  ASSUME WInv, NEW r \in Routes, XreadTimesOut(r)
  PROVE  WInv'
<1>1. conn[r] \in Seq(Command) /\ conn[r] # <<>>
      /\ OneXadd(conn[r], buffer[r]) /\ OneXread(conn[r], entries[r], cursor[r])
  BY CommandsHere DEF XreadTimesOut, Executes
<1>2. /\ OneXadd(Tail(conn[r]), buffer[r]) /\ OneXread(Tail(conn[r]), entries[r], cursor[r])
      /\ Tail(conn[r]) \in Seq(Command)
  BY <1>1, Leaves
<1> QED BY <1>2, ConnectionChanges DEF XreadTimesOut

LEMMA XreadStartsOK ==
  ASSUME WInv, NEW r \in Routes, XreadStarts(r)
  PROVE  WInv'
<1> DEFINE c == conn[r]
           x == IF cursor[r] = Latest THEN Len(entries[r]) ELSE cursor[r]
           k == [c[1] EXCEPT !.started = TRUE, !.from = x]
           d == [c EXCEPT ![1] = k]
<1>1. /\ c \in Seq(Command) /\ c # <<>> /\ c[1].op = "xread"
      /\ OneXadd(c, buffer[r]) /\ OneXread(c, entries[r], cursor[r])
  <2>1. /\ c \in Seq(Command) /\ c # <<>> /\ Head(c).op = "xread"
        /\ OneXadd(c, buffer[r]) /\ OneXread(c, entries[r], cursor[r])
    BY CommandsHere DEF XreadStarts, Executes
  <2> HIDE DEF c
  <2>2. Head(c) = c[1]
    BY <2>1
  <2> QED BY <2>1, <2>2
<1>2. x \in 0..Len(entries[r]) /\ x \in Int /\ (cursor[r] # Latest => x = cursor[r])
  <2>1. Len(entries[r]) \in Nat
    BY DEF WInv, Types
  <2>2. cursor[r] # Latest => cursor[r] \in 0..Len(entries[r])
    BY DEF WInv, Reading
  <2> QED BY <2>1, <2>2
<1>3. conn \in [Routes -> Seq(Command)]
  BY CommandsHere
<1>4. conn' = [conn EXCEPT ![r] = d]
  BY DEF XreadStarts
<1>5. 1 \in 1..Len(c) /\ c[1] \in Command
  BY <1>1
<1> HIDE DEF x, c
<1>6. k \in Command /\ k.op = "xread" /\ k.started /\ k.from = x
  <2>1. c[1] = [op |-> c[1].op, m |-> c[1].m, from |-> c[1].from, started |-> c[1].started]
    BY <1>5 DEF Command
  <2>2. k = [op |-> c[1].op, m |-> c[1].m, from |-> x, started |-> TRUE]
    <3> DEFINE o == c[1]
               y == TRUE
    <3>1. k = [[o EXCEPT !.started = y] EXCEPT !.from = x]
      OBVIOUS
    <3>2. PICK a, m, f, t : o = [op |-> a, m |-> m, from |-> f, started |-> t]
      BY <2>1
    <3> HIDE DEF o, k, y
    <3>3. k = [op |-> a, m |-> m, from |-> x, started |-> y] /\ o.op = a /\ o.m = m
      BY <3>1, <3>2
    <3> QED BY <3>3 DEF o, y
  <2>3. c[1].op \in {"xread", "xadd"} /\ c[1].m \in Nat
    BY <1>5 DEF Command
  <2> QED BY <1>1, <1>2, <2>2, <2>3 DEF Command
<1> HIDE DEF k
<1>7. /\ d \in Seq(Command) /\ Len(d) = Len(c) /\ d[1] = k
      /\ \A i \in 1..Len(c) : i # 1 => d[i] = c[i]
  BY <1>1, <1>5, <1>6
<1> HIDE DEF d
<1>8. \A i \in 1..Len(c) : d[i].op = c[i].op
  BY <1>1, <1>6, <1>7
<1>9. \A i \in 1..Len(c) : c[i].op = "xread" => i = 1
  BY <1>1, <1>5 DEF OneXread
<1>10. OneXread(d, entries[r], cursor[r])
  BY <1>2, <1>6, <1>7, <1>8, <1>9 DEF OneXread
<1>11. OneXadd(d, buffer[r])
  <2>1. \A i \in 1..Len(c) : c[i].op = "xadd" => i # 1
    BY <1>1
  <2> QED BY <1>1, <1>7, <1>8, <2>1 DEF OneXadd
<1> QED BY <1>4, <1>7, <1>10, <1>11, ConnectionChanges DEF XreadStarts

(* What others wrote does not matter to the messages of the route. *)
LEMMA AnotherWritesOK ==
  ASSUME WInv, NEW r \in Routes, AnotherWrites(r)
  PROVE  WInv'
<1>1. /\ UNCHANGED <<onMessage, subscribed, arrived, handling, parked, drained, buffer, needDrain,
                     conn, cursor, sent>>
      /\ entries' = [entries EXCEPT ![r] = Append(@, Foreign)]
  BY DEF AnotherWrites
<1>2. entries \in [Routes -> Seq(Nat)] /\ Foreign \in Nat /\ Types
  BY DEF WInv, Types, Foreign
<1>3. /\ entries'[r] = Append(entries[r], Foreign)
      /\ \A q \in Routes : q # r => entries'[q] = entries[q]
  BY <1>1, <1>2
<1>4. entries' \in [Routes -> Seq(Nat)] /\ entries[r] \in Seq(Nat)
  <2>1. Append(entries[r], Foreign) \in Seq(Nat)
    BY <1>2, AppendTo
  <2> QED BY <1>1, <1>2, <2>1
<1>5. Types'
  BY <1>1, <1>2, <1>4 DEF Types
<1>6. Numbered' /\ Messages' = Messages
  BY <1>1, SameMessages DEF WInv
<1>7. Arrived'
  <2>1. \A q \in Routes : \A x : In(x, entries'[q]) /\ x # Foreign => In(x, entries[q])
    <3>1. \A x : In(x, entries'[r]) <=> In(x, entries[r]) \/ x = Foreign
      BY <1>2, <1>3, <1>4, InAppend
    <3> QED BY <1>3, <3>1
  <2> QED BY <1>1, <1>6, <2>1 DEF WInv, Arrived
<1>8. DrainIsOwed' /\ Draining'
  BY <1>1 DEF WInv, DrainIsOwed, Draining
<1>9. Reading'
  <2>1. \A q \in Routes : /\ Len(entries[q]) \in Nat /\ Len(entries'[q]) \in Nat
                          /\ Len(entries[q]) <= Len(entries'[q])
                          /\ \A k \in 1..Len(entries[q]) : entries'[q][k] = entries[q][k]
    <3>1. /\ Len(entries'[r]) = Len(entries[r]) + 1 /\ Len(entries[r]) \in Nat
          /\ \A k \in 1..Len(entries[r]) : entries'[r][k] = entries[r][k]
      BY <1>2, <1>3, <1>4, AppendTo
    <3>2. \A q \in Routes : Len(entries[q]) \in Nat
      BY <1>2
    <3> QED BY <1>3, <3>1, <3>2
  <2>2. \A q \in Routes : OneXread(conn[q], entries[q], cursor[q])
    BY DEF WInv, Reading
  <2>3. OneXread(conn[r], entries'[r], cursor[r])
    BY <1>2, <1>3, <1>4, <2>2, StreamGrows
  <2>4. \A q \in Routes : OneXread(conn'[q], entries'[q], cursor'[q])
    BY <1>1, <1>3, <2>2, <2>3
  <2> QED BY <1>1, <2>1, <2>4, SentInLonger DEF WInv
<1>10. Order'
  <2> SUFFICES ASSUME ~onMessage
               PROVE  /\ handling = {} /\ Asc(parked)
                      /\ \A q \in Routes : /\ Placed(arrived[q], entries'[q], buffer[q], parked, 1)
                                           /\ Asc(sent[q])
    BY <1>1 DEF Order
  <2>1. /\ handling = {} /\ Asc(parked)
        /\ \A q \in Routes : Placed(arrived[q], entries[q], buffer[q], parked, 1) /\ Asc(sent[q])
    BY DEF WInv, Order
  <2>2. buffer[r] \in Seq(Ids) /\ parked \in Seq(Ids)
    BY <1>2 DEF Types
  <2>3. Placed(arrived[r], entries'[r], buffer[r], parked, 1)
    BY <1>3, <1>4, <2>1, <2>2, Interspersed
  <2> QED BY <1>3, <2>1, <2>3
<1> QED BY <1>5, <1>6, <1>7, <1>8, <1>9, <1>10 DEF WInv

(* A message comes: the last of all, it goes behind those of its route. *)
LEMMA MessageOK ==
  ASSUME WInv, NEW r \in Routes, Message(r)
  PROVE  WInv'
<1> DEFINE m == Total + 1
<1>1. /\ UNCHANGED <<onMessage, entries, cursor, sent>> /\ subscribed' = subscribed \cup {r}
      /\ arrived' = [arrived EXCEPT ![r] = Append(@, m)]
      /\ onMessage => /\ handling' = handling \cup {m}
                      /\ UNCHANGED <<parked, drained, buffer, needDrain, conn>>
      /\ ~onMessage => AwaitDrained(r, m) /\ handling' = handling
  BY DEF Message
<1>2. /\ Types /\ onMessage \in BOOLEAN /\ subscribed \subseteq Routes
      /\ arrived \in [Routes -> Seq(Ids)] /\ parked \in Seq(Ids)
      /\ buffer \in [Routes -> Seq(Ids)] /\ entries \in [Routes -> Seq(Nat)]
  BY DEF WInv, Types
<1>3. PICK n \in Nat : Messages = 1..n /\ m = n + 1
  <2>1. PICK n \in Nat : Messages = 1..n
    BY DEF WInv, Numbered
  <2>2. Cardinality(1..n) = n
    BY FS_Interval
  <2> QED BY <2>1, <2>2 DEF Total
<1>4. m \in Ids /\ m \notin Messages
  BY <1>3 DEF Ids
<1> HIDE DEF m
<1>5. arrived' \in [Routes -> Seq(Ids)]
  <2>1. arrived[r] \in Seq(Ids)
    BY <1>2
  <2>2. Append(arrived[r], m) \in Seq(Ids)
    BY <1>4, <2>1, AppendTo
  <2> QED BY <1>1, <1>2, <2>2
<1>6. /\ arrived'[r] = Append(arrived[r], m)
      /\ \A q \in Routes : q # r => arrived'[q] = arrived[q]
  BY <1>1, <1>2
<1>7. \A q \in Routes : \A x : In(x, arrived'[q]) <=> In(x, arrived[q]) \/ (q = r /\ x = m)
  <2>1. \A x : In(x, arrived'[r]) <=> In(x, arrived[r]) \/ x = m
    BY <1>2, <1>4, <1>6, InAppend
  <2> QED BY <1>6, <2>1
<1>8. \A x : x \in Messages <=> \E q \in Routes : In(x, arrived[q])
  BY <1>2, InMessages
<1>9. Messages' = Messages \cup {m}
  <2>1. \A x : x \in Messages' <=> \E q \in Routes : In(x, arrived'[q])
    <3>1. \A q \in Routes : DOMAIN arrived'[q] = 1..Len(arrived'[q])
      BY <1>5
    <3> QED BY <3>1 DEF Messages, ToSet, In
  <2> QED BY <1>7, <1>8, <2>1
<1>10. Numbered'
  <2>1. Messages' = 1..(n + 1) /\ n + 1 \in Nat
    <3>1. 1..(n + 1) = (1..n) \cup {n + 1}
      OBVIOUS
    <3> QED BY <1>3, <1>9, <3>1
  <2>2. \A q \in Routes : ~In(m, arrived[q])
    BY <1>4, <1>8
  <2>3. \A p, q \in Routes : \A x : In(x, arrived'[p]) /\ In(x, arrived'[q]) => p = q
    <3> SUFFICES ASSUME NEW p \in Routes, NEW q \in Routes, NEW x,
                        In(x, arrived'[p]), In(x, arrived'[q])
                 PROVE  p = q
      OBVIOUS
    <3>1. /\ In(x, arrived[p]) \/ (p = r /\ x = m)
          /\ In(x, arrived[q]) \/ (q = r /\ x = m)
      BY <1>7
    <3>2. In(x, arrived[p]) /\ In(x, arrived[q]) => p = q
      BY DEF WInv, Numbered
    <3> QED BY <2>2, <3>1, <3>2
  <2> QED BY <2>1, <2>3 DEF Numbered
<1>11. CASE onMessage
  <2>1. /\ UNCHANGED <<parked, drained, buffer, needDrain, conn>> /\ handling' = handling \cup {m}
    BY <1>1, <1>11
  <2>2. Types'
    BY <1>1, <1>2, <1>5, <2>1 DEF Types
  <2>3. Arrived'
    BY <1>1, <1>7, <1>9, <2>1 DEF WInv, Arrived
  <2>4. DrainIsOwed' /\ Draining' /\ Reading'
    BY <1>1, <2>1 DEF WInv, DrainIsOwed, Draining, Reading
  <2>5. Order'
    BY <1>1, <1>11 DEF Order
  <2> QED BY <1>10, <2>2, <2>3, <2>4, <2>5 DEF WInv
<1>12. CASE ~onMessage
  <2>1. AwaitDrained(r, m) /\ handling' = handling /\ ~onMessage'
    BY <1>1, <1>12
  <2>2. /\ parked' \in Seq(Ids) /\ drained' \in Routes \cup {None}
        /\ buffer' \in [Routes -> Seq(Ids)]
        /\ needDrain' \in [Routes -> BOOLEAN] /\ conn' \in [Routes -> Seq(Command)]
        /\ DrainIsOwed' /\ Draining'
        /\ \A q \in Routes : OneXread(conn'[q], entries'[q], cursor'[q])
        /\ \/ /\ parked = <<>> /\ parked' = parked
              /\ buffer'[r] = Append(buffer[r], m)
              /\ \A q \in Routes : q # r => buffer'[q] = buffer[q]
           \/ parked' = Append(parked, m) /\ buffer' = buffer
    BY <1>1, <1>4, <2>1, Awaited
  <2>3. Types'
    BY <1>1, <1>2, <1>5, <2>1, <2>2 DEF Types, WInv
  <2>4. Reading'
    BY <1>1, <2>2, SameReading DEF WInv
  <2>5. /\ \A x : In(x, parked') => In(x, parked) \/ x = m
        /\ \A q \in Routes : \A x : In(x, buffer'[q]) => In(x, buffer[q]) \/ (q = r /\ x = m)
    <3>1. \A x : In(x, Append(parked, m)) <=> In(x, parked) \/ x = m
      BY <1>2, <1>4, InAppend
    <3>2. \A x : In(x, Append(buffer[r], m)) <=> In(x, buffer[r]) \/ x = m
      BY <1>2, <1>4, InAppend
    <3> QED BY <2>2, <3>1, <3>2
  <2>6. Arrived'
    <3>1. handling' \subseteq Messages' /\ \A x : In(x, parked') => x \in Messages'
      BY <1>9, <2>1, <2>5 DEF WInv, Arrived
    <3>2. \A q \in Routes : \A x : In(x, buffer'[q]) => In(x, arrived'[q])
      BY <1>7, <2>5 DEF WInv, Arrived
    <3>3. \A q \in Routes : \A x : In(x, entries'[q]) /\ x # Foreign => In(x, arrived'[q])
      BY <1>1, <1>7 DEF WInv, Arrived
    <3> QED BY <3>1, <3>2, <3>3 DEF Arrived
  <2>7. /\ handling = {} /\ Asc(parked)
        /\ \A q \in Routes : Placed(arrived[q], entries[q], buffer[q], parked, 1) /\ Asc(sent[q])
    BY <1>12 DEF WInv, Order
  <2>8. \A q \in Routes, x \in Nat \ {Foreign} : In(x, entries[q]) \/ In(x, buffer[q]) => x < m
    <3>1. \A q \in Routes, x \in Nat \ {Foreign} :
            In(x, entries[q]) \/ In(x, buffer[q]) => x \in Messages
      BY <1>8 DEF WInv, Arrived
    <3> QED BY <1>3, <3>1
  <2>9. \A i \in 1..Len(parked) : parked[i] < m
    <3>1. \A i \in 1..Len(parked) : parked[i] \in Messages
      BY DEF WInv, Arrived, In
    <3> QED BY <1>3, <3>1
  <2>10. \A q \in Routes :
           /\ Placed(arrived[q], entries[q], buffer[q], Append(parked, m), 1)
           /\ Placed(Append(arrived[q], m), entries[q], buffer[q], Append(parked, m), 1)
    BY <1>2, <1>4, <2>7, <2>8, HeldBack
  <2>11. Asc(Append(parked, m))
    BY <1>2, <1>4, <2>7, <2>9, AscAppend, IdsAreNats DEF Ids
  <2>12. CASE parked' = Append(parked, m) /\ buffer' = buffer
    <3>1. \A q \in Routes : Placed(arrived'[q], entries'[q], buffer'[q], parked', 1)
      BY <1>1, <1>6, <2>10, <2>12
    <3>2. Order'
      BY <1>1, <2>1, <2>7, <2>11, <2>12, <3>1 DEF Order
    <3> QED BY <1>10, <2>2, <2>3, <2>4, <2>6, <3>2 DEF WInv
  <2>13. CASE /\ parked = <<>> /\ parked' = parked
              /\ buffer'[r] = Append(buffer[r], m)
              /\ \A q \in Routes : q # r => buffer'[q] = buffer[q]
    <3> DEFINE p == Append(parked, m)
    <3>1. p \in Seq(Ids) /\ 1 \in 1..Len(p) /\ p[1] = m /\ Len(p) = 1
      <4>1. p \in Seq(Ids) /\ Len(p) = Len(parked) + 1 /\ p[Len(parked) + 1] = m
        BY <1>2, <1>4, AppendTo
      <4>2. Len(parked) = 0
        BY <2>13
      <4> HIDE DEF p
      <4> QED BY <4>1, <4>2
    <3>2. Placed(arrived'[r], entries[r], buffer[r], p, 1) /\ Asc(p)
      BY <1>6, <2>10, <2>11
    <3> HIDE DEF p
    <3>3. Placed(arrived'[r], entries[r], Append(buffer[r], p[1]), p, 1 + 1)
      BY <1>2, <3>1, <3>2, Joined
    <3>4. Placed(arrived'[r], entries[r], Append(buffer[r], m), p, Len(p) + 1)
      BY <3>1, <3>3
    <3>5. Placed(arrived'[r], entries[r], Append(buffer[r], m), <<>>, 1)
      BY <3>1, <3>4, Emptied
    <3>6. \A q \in Routes : Placed(arrived'[q], entries'[q], buffer'[q], parked', 1)
      BY <1>1, <1>6, <2>7, <2>13, <3>5
    <3>7. Order'
      BY <1>1, <2>1, <2>7, <2>13, <3>6 DEF Order
    <3> QED BY <1>10, <2>2, <2>3, <2>4, <2>6, <3>7 DEF WInv
  <2> QED BY <2>2, <2>12, <2>13
<1> QED BY <1>11, <1>12

(* A message whose onMessage returns is handled on the route it came on. *)
LEMMA OnMessageReturnsOK ==
  ASSUME WInv, NEW m \in handling, OnMessageReturns(m)
  PROVE  WInv'
<1> DEFINE r == RouteOf(m)
<1>1. /\ UNCHANGED <<onMessage, subscribed, arrived, entries, cursor, sent>>
      /\ handling' = handling \ {m} /\ AwaitDrained(r, m)
  BY DEF OnMessageReturns
<1>2. Types /\ parked \in Seq(Ids) /\ buffer \in [Routes -> Seq(Ids)]
  BY DEF WInv, Types
<1>3. m \in Messages
  BY DEF WInv, Arrived
<1>4. m \in Ids
  BY <1>3 DEF WInv, Numbered, Ids
<1>5. r \in Routes /\ In(m, arrived[r])
  BY <1>2, <1>3, RouteOfOK
<1> HIDE DEF r
<1>6. onMessage
  BY DEF WInv, Order
<1>7. /\ parked' \in Seq(Ids) /\ drained' \in Routes \cup {None}
      /\ buffer' \in [Routes -> Seq(Ids)]
      /\ needDrain' \in [Routes -> BOOLEAN] /\ conn' \in [Routes -> Seq(Command)]
      /\ DrainIsOwed' /\ Draining'
      /\ \A q \in Routes : OneXread(conn'[q], entries'[q], cursor'[q])
      /\ \/ /\ parked = <<>> /\ parked' = parked
            /\ buffer'[r] = Append(buffer[r], m)
            /\ \A q \in Routes : q # r => buffer'[q] = buffer[q]
         \/ parked' = Append(parked, m) /\ buffer' = buffer
  BY <1>1, <1>4, <1>5, Awaited
<1>8. Types'
  BY <1>1, <1>2, <1>7 DEF Types
<1>9. Numbered' /\ Messages' = Messages
  BY <1>1, SameMessages DEF WInv
<1>10. Reading'
  BY <1>1, <1>7, SameReading DEF WInv
<1>11. Arrived'
  <2>1. \A x : In(x, Append(parked, m)) <=> In(x, parked) \/ x = m
    BY <1>2, <1>4, InAppend
  <2>2. \A x : In(x, Append(buffer[r], m)) <=> In(x, buffer[r]) \/ x = m
    BY <1>2, <1>4, <1>5, InAppend
  <2>3. /\ \A x : In(x, parked') => In(x, parked) \/ x = m
        /\ \A q \in Routes : \A x : In(x, buffer'[q]) => In(x, buffer[q]) \/ (q = r /\ x = m)
    BY <1>7, <2>1, <2>2
  <2>4. handling' \subseteq Messages' /\ \A x : In(x, parked') => x \in Messages'
    BY <1>1, <1>3, <1>9, <2>3 DEF WInv, Arrived
  <2>5. \A q \in Routes : \A x : In(x, buffer'[q]) => In(x, arrived'[q])
    BY <1>1, <1>5, <2>3 DEF WInv, Arrived
  <2>6. \A q \in Routes : \A x : In(x, entries'[q]) /\ x # Foreign => In(x, arrived'[q])
    BY <1>1 DEF WInv, Arrived
  <2> QED BY <2>4, <2>5, <2>6 DEF Arrived
<1>12. Order'
  BY <1>1, <1>6 DEF Order
<1> QED BY <1>7, <1>8, <1>9, <1>10, <1>11, <1>12 DEF WInv

(* A written message is in the stream, and the next one is under way; what   *)
(* waited for the Writable to drain is written in a row.                     *)
LEMMA XaddRepliesOK ==
  ASSUME WInv, NEW r \in Routes, XaddReplies(r)
  PROVE  WInv'
<1> DEFINE g == CallBack(Gate, r)
           resolved == drained = r /\ g.drained = None
           h == IF resolved THEN WriteAll(g, parked) ELSE g
           m == Head(conn[r]).m
<1>1. /\ UNCHANGED <<onMessage, subscribed, arrived, handling, cursor, sent>>
      /\ entries' = [entries EXCEPT ![r] = Append(@, m)]
      /\ Set(h) /\ parked' = IF resolved THEN <<>> ELSE parked
      /\ conn[r] # <<>> /\ Head(conn[r]).op = "xadd"
  BY DEF XaddReplies, Executes
<1>2. /\ Types /\ parked \in Seq(Ids) /\ arrived \in [Routes -> Seq(Ids)]
      /\ buffer \in [Routes -> Seq(Ids)] /\ entries \in [Routes -> Seq(Nat)]
      /\ drained \in Routes \cup {None} /\ r # None
  BY RoutesAssumption DEF WInv, Types, None
<1>3. GateOK(Gate, entries, cursor) /\ Gate.buffer = buffer /\ Gate.conn = conn /\ Gate.drained = drained
  BY GateHere
<1>4. /\ GateOK(g, entries, cursor)
      /\ g.buffer[r] = Tail(buffer[r]) /\ \A q \in Routes : q # r => g.buffer[q] = buffer[q]
      /\ buffer[r] # <<>> /\ m = buffer[r][1]
      /\ g.drained = drained \/ (drained = r /\ g.drained = None)
  BY <1>1, <1>3, CallBackOK
<1> HIDE DEF g, h, m
<1>5. m \in Ids /\ m \in Nat /\ In(m, buffer[r])
  <2>1. 1 \in 1..Len(buffer[r]) /\ buffer[r][1] \in Ids
    BY <1>2, <1>4
  <2> QED BY <1>4, <2>1 DEF In, Ids
<1>6. /\ entries'[r] = Append(entries[r], m)
      /\ \A q \in Routes : q # r => entries'[q] = entries[q]
  BY <1>1, <1>2
<1>7. entries' \in [Routes -> Seq(Nat)]
  <2>1. Append(entries[r], m) \in Seq(Nat)
    BY <1>2, <1>5, AppendTo
  <2> QED BY <1>1, <1>2, <2>1
<1>8. GateOK(g, entries', cursor')
  <2>1. \A q \in Routes : OneXread(g.conn[q], entries[q], cursor[q])
    BY <1>4 DEF GateOK
  <2>2. OneXread(g.conn[r], entries'[r], cursor[r])
    BY <1>2, <1>5, <1>6, <2>1, StreamGrows
  <2>3. \A q \in Routes : OneXread(g.conn[q], entries'[q], cursor'[q])
    BY <1>1, <1>6, <2>1, <2>2
  <2> QED BY <1>4, <2>3 DEF GateOK
<1>9. \A q \in Routes : \A x : In(x, g.buffer[q]) => In(x, arrived[q])
  <2>1. \A x : In(x, Tail(buffer[r])) => In(x, buffer[r])
    BY <1>2, <1>4, InTail
  <2>2. \A q \in Routes : \A x : In(x, buffer[q]) => In(x, arrived[q])
    BY DEF WInv, Arrived
  <2> QED BY <1>4, <2>1, <2>2
<1>10. ASSUME ~onMessage PROVE \A q \in Routes : Placed(arrived[q], entries'[q], g.buffer[q], parked, 1)
  <2>1. \A q \in Routes : Placed(arrived[q], entries[q], buffer[q], parked, 1)
    BY <1>10 DEF WInv, Order
  <2>2. entries[r] \in Seq(Nat) /\ buffer[r] \in Seq(Ids) /\ 1 \in Nat \ {0}
    BY <1>2
  <2>3. Placed(arrived[r], Append(entries[r], buffer[r][1]), Tail(buffer[r]), parked, 1)
    BY <1>2, <1>4, <2>1, <2>2, Appended
  <2> QED BY <1>4, <1>6, <2>1, <2>3
<1>11. Flushed(g, entries', cursor', 1)
  BY <1>8, <1>9, <1>10 DEF Flushed
<1>12. resolved => Flushed(h, entries', cursor', Len(parked) + 1)
  <2>1. Numbered /\ Arrived /\ (~onMessage => Asc(parked))
    BY DEF WInv, Order
  <2> QED BY <1>2, <1>7, <1>11, <2>1, WriteAllOK DEF h
<1>13. ~resolved => Flushed(h, entries', cursor', 1)
  BY <1>11 DEF h
<1>14. GateOK(h, entries', cursor') /\ buffer' = h.buffer /\ drained' = h.drained
  BY <1>1, <1>12, <1>13 DEF Flushed, Set
<1>15. /\ drained' \in Routes \cup {None} /\ buffer' \in [Routes -> Seq(Ids)]
       /\ needDrain' \in [Routes -> BOOLEAN] /\ conn' \in [Routes -> Seq(Command)]
       /\ drained' # None => needDrain'[drained'] /\ buffer'[drained'] # <<>>
       /\ Draining'
       /\ \A q \in Routes : OneXread(conn'[q], entries'[q], cursor'[q])
  BY <1>1, <1>14, GateSet
<1>16. parked' \in Seq(Ids) /\ Types'
  <2>1. parked' \in Seq(Ids)
    BY <1>1, <1>2
  <2> QED BY <1>1, <1>2, <1>7, <1>15, <2>1 DEF Types
<1>17. Numbered' /\ Messages' = Messages
  BY <1>1, SameMessages DEF WInv
<1>18. Arrived'
  <2>1. \A q \in Routes : \A x : In(x, buffer'[q]) => In(x, arrived'[q])
    BY <1>1, <1>12, <1>13, <1>14 DEF Flushed
  <2>2. \A q \in Routes : \A x : In(x, entries'[q]) => In(x, entries[q]) \/ (q = r /\ x = m)
    <3>1. entries[r] \in Seq(Nat) /\ m \in Nat
      BY <1>2, <1>5
    <3>2. \A x : In(x, Append(entries[r], m)) <=> In(x, entries[r]) \/ x = m
      BY <3>1, InAppend
    <3> QED BY <1>6, <3>2
  <2>3. \A q \in Routes : \A x : In(x, entries'[q]) /\ x # Foreign => In(x, arrived'[q])
    BY <1>1, <1>5, <2>2 DEF WInv, Arrived
  <2>4. handling' \subseteq Messages' /\ \A x : In(x, parked') => x \in Messages'
    <3>1. \A x : ~In(x, <<>>)
      BY DEF In
    <3>2. \A x : In(x, parked') => In(x, parked)
      BY <1>1, <3>1
    <3> QED BY <1>1, <1>17, <3>2 DEF WInv, Arrived
  <2> QED BY <2>1, <2>3, <2>4 DEF Arrived
<1>19. DrainIsOwed'
  <2>1. parked # <<>> => drained # None
    BY DEF WInv, DrainIsOwed
  <2>2. ~resolved => drained' = g.drained
    BY <1>14 DEF h
  <2>3. parked' # <<>> => drained' # None
    BY <1>1, <1>2, <1>4, <2>1, <2>2
  <2> QED BY <1>15, <2>3 DEF DrainIsOwed
<1>20. Reading'
  <2>1. \A q \in Routes : /\ Len(entries[q]) \in Nat /\ Len(entries'[q]) \in Nat
                          /\ Len(entries[q]) <= Len(entries'[q])
                          /\ \A k \in 1..Len(entries[q]) : entries'[q][k] = entries[q][k]
    <3>1. /\ Len(entries'[r]) = Len(entries[r]) + 1 /\ Len(entries[r]) \in Nat
          /\ \A k \in 1..Len(entries[r]) : entries'[r][k] = entries[r][k]
      BY <1>2, <1>5, <1>6, AppendTo
    <3>2. \A q \in Routes : Len(entries[q]) \in Nat
      BY <1>2
    <3> QED BY <1>6, <3>1, <3>2
  <2> QED BY <1>1, <1>15, <2>1, SentInLonger DEF WInv
<1>21. Order'
  <2> SUFFICES ASSUME ~onMessage
               PROVE  /\ handling = {} /\ Asc(parked')
                      /\ \A q \in Routes : /\ Placed(arrived[q], entries'[q], buffer'[q], parked', 1)
                                           /\ Asc(sent[q])
    BY <1>1 DEF Order
  <2>1. handling = {} /\ Asc(parked) /\ \A q \in Routes : Asc(sent[q])
    BY DEF WInv, Order
  <2>2. CASE resolved
    <3>1. \A q \in Routes : Placed(arrived[q], entries'[q], h.buffer[q], parked, Len(parked) + 1)
      BY <1>12, <2>2 DEF Flushed
    <3>2. \A q \in Routes : Placed(arrived[q], entries'[q], h.buffer[q], <<>>, 1)
      BY <1>2, <3>1, Emptied
    <3>3. Asc(<<>>)
      BY DEF Asc
    <3> QED BY <1>1, <1>14, <2>1, <2>2, <3>2, <3>3
  <2>3. CASE ~resolved
    <3>1. \A q \in Routes : Placed(arrived[q], entries'[q], h.buffer[q], parked, 1)
      BY <1>13, <2>3 DEF Flushed
    <3> QED BY <1>1, <1>14, <2>1, <2>3, <3>1
  <2> QED BY <2>2, <2>3
<1> QED BY <1>15, <1>16, <1>17, <1>18, <1>19, <1>20, <1>21 DEF WInv

(* The batch goes to the socket, if it is there, behind what it got before.  *)
LEMMA XreadRepliesOK ==
  ASSUME WInv, NEW r \in Routes, XreadReplies(r)
  PROVE  WInv'
<1> DEFINE e == entries[r]
           n == Len(e)
           f == Head(conn[r]).from
           batch == Unread(r)
           t == Heard(batch)
<1>1. /\ UNCHANGED <<onMessage, subscribed, arrived, handling, parked, drained, buffer, needDrain,
                     entries>>
      /\ cursor' = [cursor EXCEPT ![r] = n]
      /\ sent' = [sent EXCEPT ![r] = IF r \in subscribed THEN sent[r] \o t ELSE sent[r]]
      /\ conn' = [conn EXCEPT ![r] = Tail(conn[r])]
      /\ conn[r] # <<>> /\ Head(conn[r]).op = "xread" /\ Head(conn[r]).started
  BY DEF XreadReplies, Executes, Publish
<1>2. /\ Types /\ e \in Seq(Nat) /\ sent \in [Routes -> Seq(Ids)] /\ cursor \in [Routes -> Int]
      /\ conn \in [Routes -> Seq(Command)] /\ sent[r] \in Seq(Ids) /\ conn[r] \in Seq(Command)
      /\ n \in Nat
  BY SMTT(30) DEF WInv, Types
<1>3. f \in 0..n /\ (cursor[r] # Latest => f = cursor[r])
  <2>1. OneXread(conn[r], entries[r], cursor[r])
    BY DEF WInv, Reading
  <2>2. Head(conn[r]) = conn[r][1] /\ 1 \in 1..Len(conn[r])
    BY <1>1, <1>2
  <2> QED BY <1>1, <2>1, <2>2 DEF OneXread
<1>4. /\ batch \in Seq(Nat) /\ Len(batch) = n - f
      /\ \A i \in 1..(n - f) : batch[i] = e[f + i]
  <2>1. f + 1 \in 1..(n + 1)
    BY <1>2, <1>3
  <2>2. batch = SubSeq(e, f + 1, n)
    BY DEF Unread
  <2> HIDE DEF batch, f, e
  <2> QED BY <1>2, <1>3, <2>1, <2>2, SMTT(30)
<1> HIDE DEF batch, f
<1>5. /\ t \in Seq(Ids) /\ (\A x : In(x, t) => In(x, batch)) /\ (Asc(batch) => Asc(t))
  BY <1>4, HeardOK
<1> HIDE DEF t, n, e
<1>6. \A i \in 1..Len(t) : \E k \in (f + 1)..n : e[k] = t[i]
  <2> TAKE i \in 1..Len(t)
  <2>1. In(t[i], batch)
    BY <1>5 DEF In
  <2>2. PICK j \in 1..(n - f) : batch[j] = t[i]
    BY <1>4, <2>1 DEF In
  <2>3. f + j \in (f + 1)..n
    BY <1>2, <1>3
  <2> QED BY <1>4, <2>2, <2>3
<1>7. /\ Len(sent[r] \o t) = Len(sent[r]) + Len(t) /\ sent[r] \o t \in Seq(Ids)
      /\ \A i \in 1..Len(sent[r]) : (sent[r] \o t)[i] = sent[r][i]
      /\ \A i \in (Len(sent[r]) + 1)..(Len(sent[r]) + Len(t)) :
           (sent[r] \o t)[i] = t[i - Len(sent[r])]
      /\ Len(sent[r]) \in Nat /\ Len(t) \in Nat
  BY <1>2, <1>5
<1>8. \A i \in 1..Len(sent[r]) : \E k \in 1..n : e[k] = sent[r][i] /\ k <= f
  <2> TAKE i \in 1..Len(sent[r])
  <2>1. cursor[r] # Latest /\ \E k \in 1..cursor[r] : e[k] = sent[r][i]
    BY DEF WInv, Reading, e
  <2> QED BY <1>2, <1>3, <2>1
<1>9. /\ cursor'[r] = n /\ sent'[r] = (IF r \in subscribed THEN sent[r] \o t ELSE sent[r])
      /\ conn'[r] = Tail(conn[r])
      /\ \A q \in Routes : q # r => /\ cursor'[q] = cursor[q] /\ sent'[q] = sent[q]
                                    /\ conn'[q] = conn[q]
  BY <1>1, <1>2
<1>10. /\ OneXadd(Tail(conn[r]), buffer[r]) /\ Tail(conn[r]) \in Seq(Command)
       /\ \A i \in 1..Len(Tail(conn[r])) : Tail(conn[r])[i].op # "xread"
  <2>1. OneXadd(conn[r], buffer[r]) /\ OneXread(conn[r], entries[r], cursor[r])
    BY DEF WInv, Draining, Reading
  <2> QED BY <1>1, <1>2, <2>1, Leaves
<1>11. Types'
  <2>1. conn' \in [Routes -> Seq(Command)]
    BY <1>1, <1>2, <1>10
  <2>2. sent' \in [Routes -> Seq(Ids)]
    BY <1>1, <1>2, <1>7
  <2>3. cursor' \in [Routes -> Int]
    BY <1>1, <1>2
  <2> QED BY <1>1, <1>2, <2>1, <2>2, <2>3 DEF Types
<1>12. Numbered' /\ Messages' = Messages
  BY <1>1, SameMessages DEF WInv
<1>13. Arrived'
  BY <1>1, <1>12 DEF WInv, Arrived
<1>14. DrainIsOwed'
  BY <1>1 DEF WInv, DrainIsOwed
<1>15. Draining'
  <2>1. \A q \in Routes : OneXadd(conn'[q], buffer[q])
    BY <1>9, <1>10 DEF WInv, Draining
  <2> QED BY <1>1, <2>1 DEF WInv, Draining
<1>16. n # Latest /\ n \in 0..n
  BY <1>2 DEF Latest
<1>17. \A i \in 1..Len(sent'[r]) : \E k \in 1..n : e[k] = sent'[r][i]
  <2>1. CASE r \in subscribed
    <3> TAKE i \in 1..Len(sent'[r])
    <3>1. sent'[r] = sent[r] \o t /\ i \in 1..(Len(sent[r]) + Len(t))
      BY <1>7, <1>9, <2>1
    <3>2. CASE i \in 1..Len(sent[r])
      BY <1>7, <1>8, <3>1, <3>2
    <3>3. CASE i \notin 1..Len(sent[r])
      <4>1. i \in (Len(sent[r]) + 1)..(Len(sent[r]) + Len(t)) /\ i - Len(sent[r]) \in 1..Len(t)
        BY <1>7, <3>1, <3>3
      <4>2. PICK k \in (f + 1)..n : e[k] = t[i - Len(sent[r])]
        BY <1>6, <4>1
      <4>3. k \in 1..n
        BY <1>2, <1>3
      <4> QED BY <1>7, <3>1, <4>1, <4>2, <4>3
    <3> QED BY <3>2, <3>3
  <2>2. CASE r \notin subscribed
    BY <1>8, <1>9, <2>2
  <2> QED BY <2>1, <2>2
<1>18. Reading'
  <2> SUFFICES ASSUME NEW q \in Routes
               PROVE  /\ OneXread(conn'[q], entries'[q], cursor'[q])
                      /\ cursor'[q] # Latest => cursor'[q] \in 0..Len(entries'[q])
                      /\ \A i \in 1..Len(sent'[q]) :
                           cursor'[q] # Latest /\ \E k \in 1..cursor'[q] : entries'[q][k] = sent'[q][i]
    BY DEF Reading
  <2>1. CASE q = r
    <3>1. OneXread(conn'[r], entries'[r], cursor'[r])
      BY <1>9, <1>10 DEF OneXread
    <3>2. cursor'[r] = n /\ entries'[r] = e /\ Len(entries'[r]) = n
      BY <1>1, <1>9 DEF e, n
    <3> QED BY <1>16, <1>17, <2>1, <3>1, <3>2
  <2>2. CASE q # r
    BY <1>1, <1>9, <2>2 DEF WInv, Reading
  <2> QED BY <2>1, <2>2
<1>19. Order'
  <2> SUFFICES ASSUME ~onMessage PROVE \A q \in Routes : Asc(sent'[q])
    BY <1>1 DEF WInv, Order
  <2>1. Asc(e) /\ \A q \in Routes : Asc(sent[q])
    BY DEF WInv, Order, Placed, e
  <2>2. Asc(batch)
    <3>1. \A i \in 1..(n - f) : f + i \in 1..n /\ \A j \in 1..(n - f) : i < j => f + i < f + j
      BY <1>2, <1>3
    <3>2. ASSUME NEW i \in 1..(n - f), NEW j \in 1..(n - f), i < j,
                 batch[i] # Foreign, batch[j] # Foreign
          PROVE  batch[i] < batch[j]
      <4>1. batch[i] = e[f + i] /\ batch[j] = e[f + j]
        BY <1>4
      <4> QED BY <2>1, <3>1, <3>2, <4>1 DEF Asc, n
    <3> QED BY <1>4, <3>2 DEF Asc
  <2>3. Below(sent[r], t, 1)
    <3> SUFFICES ASSUME NEW i \in 1..Len(sent[r]), NEW j \in 1..Len(t), sent[r][i] # Foreign
                 PROVE  sent[r][i] < t[j]
      BY DEF Below
    <3>1. PICK k \in 1..n : e[k] = sent[r][i] /\ k <= f
      BY <1>8
    <3>2. PICK l \in (f + 1)..n : e[l] = t[j]
      BY <1>6
    <3>3. l \in 1..n /\ k < l
      BY <1>2, <1>3, <3>1
    <3>4. t[j] # Foreign
      BY <1>5 DEF Ids, Foreign
    <3> QED BY <2>1, <3>1, <3>2, <3>3, <3>4 DEF Asc, n
  <2>4. Asc(sent[r] \o t)
    BY <1>2, <1>5, <2>1, <2>2, <2>3, AscConcat, IdsAreNats
  <2> QED BY <1>9, <2>1, <2>4
<1> QED BY <1>11, <1>12, <1>13, <1>14, <1>15, <1>18, <1>19 DEF WInv

LEMMA StutterOK ==
  ASSUME WInv, UNCHANGED vars
  PROVE  WInv'
BY CommandsHere, CommandsChange DEF vars

LEMMA Inductive ==
  ASSUME WInv, [Next]_vars
  PROVE  WInv'
<1>1. ASSUME NEW r \in Routes, Message(r) PROVE WInv'
  BY <1>1, MessageOK
<1>2. ASSUME NEW r \in Routes, Close(r) PROVE WInv'
  BY <1>2, CloseOK
<1>3. ASSUME NEW r \in Routes, IssueXread(r) PROVE WInv'
  BY <1>3, IssueXreadOK
<1>4. ASSUME NEW r \in Routes, XaddReplies(r) PROVE WInv'
  BY <1>4, XaddRepliesOK
<1>5. ASSUME NEW r \in Routes, XaddFails(r) PROVE WInv'
  BY <1>5, XaddFailsOK
<1>6. ASSUME NEW r \in Routes, XreadStarts(r) PROVE WInv'
  BY <1>6, XreadStartsOK
<1>7. ASSUME NEW r \in Routes, XreadReplies(r) PROVE WInv'
  BY <1>7, XreadRepliesOK
<1>8. ASSUME NEW r \in Routes, XreadTimesOut(r) PROVE WInv'
  BY <1>8, XreadTimesOutOK
<1>9. ASSUME NEW r \in Routes, AnotherWrites(r) PROVE WInv'
  BY <1>9, AnotherWritesOK
<1>10. ASSUME NEW m \in handling, OnMessageReturns(m) PROVE WInv'
  BY <1>10, OnMessageReturnsOK
<1>11. ASSUME UNCHANGED vars PROVE WInv'
  BY <1>11, StutterOK
<1> QED BY <1>1, <1>2, <1>3, <1>4, <1>5, <1>6, <1>7, <1>8, <1>9, <1>10, <1>11 DEF Next

THEOREM WsInvariant == Spec => []WInv
<1>1. Init => WInv
  BY InitOK
<1>2. WInv /\ [Next]_vars => WInv'
  BY Inductive
<1> QED BY <1>1, <1>2, PTL DEF Spec

-----------------------------------------------------------------------------
(* The properties. *)

(* `drained` is armed for no Writable but one that owes a 'drain', and       *)
(* nothing is held back without it, whatever the routes and their marks.     *)
THEOREM WsDrainIsOwed == Spec => []DrainIsOwed
<1>1. WInv => DrainIsOwed
  BY DEF WInv
<1> QED BY <1>1, WsInvariant, PTL

LEMMA OrderIsInOrder ==
  ASSUME WInv
  PROVE  InOrder
<1> SUFFICES ASSUME ~onMessage, NEW r \in Routes
             PROVE  LET own == ToSet(arrived[r])
                        written == entries[r] \o buffer[r]
                    IN /\ Ascending(written \o parked, own) /\ own \subseteq ToSet(written \o parked)
                       /\ ToSet(written) \subseteq own \cup {Foreign}
                       /\ Ascending(sent[r], own) /\ ToSet(sent[r]) \subseteq own
  BY DEF InOrder
<1> DEFINE own == ToSet(arrived[r])
           e == entries[r]
           b == buffer[r]
           written == e \o b
           q == written \o parked
<1>1. /\ arrived[r] \in Seq(Ids) /\ e \in Seq(Nat) /\ b \in Seq(Ids) /\ b \in Seq(Nat)
      /\ parked \in Seq(Ids) /\ parked \in Seq(Nat) /\ sent[r] \in Seq(Ids)
  BY IdsAreNats DEF WInv, Types
<1>2. /\ Asc(parked) /\ Asc(sent[r]) /\ Placed(arrived[r], e, b, parked, 1)
  BY DEF WInv, Order
<1>3. \A S : \A s \in Seq(S) : \A x : x \in ToSet(s) <=> In(x, s)
  <2> SUFFICES ASSUME NEW S, NEW s \in Seq(S), NEW x PROVE x \in ToSet(s) <=> In(x, s)
    OBVIOUS
  <2>1. DOMAIN s = 1..Len(s)
    OBVIOUS
  <2> QED BY <2>1 DEF ToSet, In
<1>4. /\ \A x : x \in own <=> In(x, arrived[r])
      /\ Foreign \notin own
  BY <1>1, <1>3, IdsAreNats
<1> HIDE DEF own, e, b
<1>5. written \in Seq(Nat) /\ Asc(written) /\ \A x : In(x, written) <=> In(x, e) \/ In(x, b)
  BY <1>1, <1>2, AscConcat DEF Placed
<1>6. Below(written, parked, 1)
  <2> SUFFICES ASSUME NEW i \in 1..Len(written), NEW j \in 1..Len(parked), written[i] # Foreign
               PROVE  written[i] < parked[j]
    BY DEF Below
  <2>1. In(written[i], e) \/ In(written[i], b)
    BY <1>5 DEF In
  <2>2. Below(e, parked, 1) /\ Below(b, parked, 1)
    BY <1>2 DEF Placed
  <2> QED BY <2>1, <2>2 DEF Below, In
<1> HIDE DEF written
<1>7. q \in Seq(Nat) /\ Asc(q) /\ \A x : In(x, q) <=> In(x, written) \/ In(x, parked)
  BY <1>1, <1>2, <1>5, <1>6, AscConcat
<1> HIDE DEF q
<1>8. Ascending(q, own) /\ Ascending(sent[r], own)
  BY <1>2, <1>4, <1>7 DEF Ascending, Asc
<1>9. own \subseteq ToSet(q)
  <2>1. \A x : In(x, arrived[r]) => In(x, e) \/ In(x, b) \/ In(x, parked)
    BY <1>2 DEF Placed, In
  <2>2. \A x \in own : In(x, q)
    BY <1>4, <1>5, <1>7, <2>1
  <2> QED BY <1>3, <1>7, <2>2
<1>10. ToSet(written) \subseteq own \cup {Foreign}
  <2>1. \A x : In(x, written) /\ x # Foreign => In(x, arrived[r])
    BY <1>5 DEF WInv, Arrived, e, b
  <2> QED BY <1>3, <1>4, <1>5, <2>1
<1>11. ToSet(sent[r]) \subseteq own
  <2>1. ASSUME NEW x, In(x, sent[r]) PROVE In(x, arrived[r])
    <3>1. PICK i \in 1..Len(sent[r]) : sent[r][i] = x
      BY <2>1 DEF In
    <3>2. cursor[r] # Latest /\ \E k \in 1..cursor[r] : e[k] = x
      BY <3>1 DEF WInv, Reading, e
    <3>3. cursor[r] \in 0..Len(e)
      BY <3>2 DEF WInv, Reading, e
    <3>4. In(x, e)
      BY <1>1, <3>2, <3>3 DEF In
    <3>5. x # Foreign
      BY <1>1, <2>1, IdsAreNats
    <3> QED BY <3>4, <3>5 DEF WInv, Arrived, e
  <2> QED BY <1>1, <1>3, <1>4, <2>1
<1> QED BY <1>8, <1>9, <1>10, <1>11 DEF own, e, b, written, q

(* Without an onMessage nothing overtakes: what a route writes, holds in its *)
(* Writable, holds back and echoes to its socket is in the order in which    *)
(* streamRoute() got it, and none of it is lost or doubled while it waits on *)
(* the `drained` of another route.                                           *)
THEOREM WsInOrder == Spec => []InOrder
<1>1. WInv => InOrder
  BY OrderIsInOrder
<1> QED BY <1>1, WsInvariant, PTL

===============================================================================
