-------------------------- MODULE ConsumerGroupProofs --------------------------
(***************************************************************************)
(* Proofs about a consumer group, for any members, number of entries,      *)
(* number of crashes and highWaterMark: no handler is called twice for an  *)
(* entry, what is acknowledged has a result, what is pending is held, and  *)
(* the group implements WorkQueue.                                         *)
(***************************************************************************)
EXTENDS ConsumerGroup, TLAPS

-----------------------------------------------------------------------------
(* Sequences. *)

LEMMA TailOf ==
  ASSUME NEW S, NEW s \in Seq(S), s # <<>>
  PROVE  /\ Head(s) \in S /\ Head(s) = s[1] /\ Tail(s) \in Seq(S)
         /\ Len(s) \in Nat \ {0} /\ Len(Tail(s)) = Len(s) - 1
         /\ \A i \in 1..(Len(s) - 1) : Tail(s)[i] = s[i + 1]
OBVIOUS

LEMMA AppendTo ==
  ASSUME NEW S, NEW s \in Seq(S), NEW x \in S
  PROVE  /\ Append(s, x) \in Seq(S) /\ Len(Append(s, x)) = Len(s) + 1 /\ Len(s) \in Nat
         /\ \A i \in 1..Len(s) : Append(s, x)[i] = s[i]
         /\ Append(s, x)[Len(s) + 1] = x /\ Append(s, x) # <<>>
OBVIOUS

LEMMA ConcatOf ==
  ASSUME NEW S, NEW s \in Seq(S), NEW t \in Seq(S)
  PROVE  /\ s \o t \in Seq(S) /\ Len(s \o t) = Len(s) + Len(t) /\ Len(s) \in Nat /\ Len(t) \in Nat
         /\ \A i \in 1..Len(s) : (s \o t)[i] = s[i]
         /\ \A i \in 1..Len(t) : (s \o t)[Len(s) + i] = t[i]
OBVIOUS

LEMMA PrependTo ==
  ASSUME NEW S, NEW s \in Seq(S), NEW x \in S
  PROVE  /\ <<x>> \o s \in Seq(S) /\ Len(s) \in Nat /\ Len(<<x>> \o s) = Len(s) + 1
         /\ (<<x>> \o s)[1] = x
         /\ \A i \in 1..Len(s) : (<<x>> \o s)[1 + i] = s[i]
OBVIOUS

LEMMA SameSequence ==
  ASSUME NEW S, NEW s \in Seq(S), NEW t \in Seq(S),
         Len(s) = Len(t), \A i \in 1..Len(s) : s[i] = t[i]
  PROVE  s = t
OBVIOUS

(* An element handed on from the front of one sequence to the end of the    *)
(* other.                                                                   *)
LEMMA HandOn ==
  ASSUME NEW S, NEW s \in Seq(S), NEW t \in Seq(S), t # <<>>
  PROVE  Append(s, Head(t)) \o Tail(t) = s \o t
OBVIOUS

LEMMA TailOfConcat ==
  ASSUME NEW S, NEW s \in Seq(S), NEW t \in Seq(S), s # <<>>
  PROVE  Tail(s) \o t = Tail(s \o t)
OBVIOUS

(* What is in either of two sequences. *)
LEMMA InEither ==
  ASSUME NEW S, NEW s \in Seq(S), NEW t \in Seq(S)
  PROVE  ToSet(t) \cup ToSet(s) = ToSet(s \o t)
<1>1. /\ Len(s \o t) = Len(s) + Len(t) /\ Len(s) \in Nat /\ Len(t) \in Nat
      /\ \A i \in 1..Len(s) : (s \o t)[i] = s[i]
      /\ \A i \in 1..Len(t) : (s \o t)[Len(s) + i] = t[i]
      /\ DOMAIN s = 1..Len(s) /\ DOMAIN t = 1..Len(t) /\ DOMAIN (s \o t) = 1..Len(s \o t)
  BY ConcatOf
<1>2. ASSUME NEW x \in ToSet(s) PROVE x \in ToSet(s \o t)
  <2>1. PICK i \in 1..Len(s) : s[i] = x
    BY <1>1, <1>2 DEF ToSet
  <2>2. i \in 1..Len(s \o t) /\ (s \o t)[i] = x
    BY <1>1, <2>1
  <2> QED BY <1>1, <2>2 DEF ToSet
<1>3. ASSUME NEW x \in ToSet(t) PROVE x \in ToSet(s \o t)
  <2>1. PICK i \in 1..Len(t) : t[i] = x
    BY <1>1, <1>3 DEF ToSet
  <2>2. Len(s) + i \in 1..Len(s \o t) /\ (s \o t)[Len(s) + i] = x
    BY <1>1, <2>1
  <2> QED BY <1>1, <2>2 DEF ToSet
<1>4. ASSUME NEW x \in ToSet(s \o t) PROVE x \in ToSet(t) \cup ToSet(s)
  <2>1. PICK i \in 1..Len(s \o t) : (s \o t)[i] = x
    BY <1>1, <1>4 DEF ToSet
  <2>2. CASE i <= Len(s)
    BY <1>1, <2>1, <2>2 DEF ToSet
  <2>3. CASE i > Len(s)
    <3>1. i - Len(s) \in 1..Len(t) /\ Len(s) + (i - Len(s)) = i
      BY <1>1, <2>3
    <3> QED BY <1>1, <2>1, <3>1 DEF ToSet
  <2> QED BY <1>1, <2>2, <2>3
<1> QED BY <1>2, <1>3, <1>4

LEMMA InTail ==
  ASSUME NEW S, NEW s \in Seq(S), s # <<>>, NEW x \in ToSet(s)
  PROVE  x = Head(s) \/ x \in ToSet(Tail(s))
<1>1. /\ Tail(s) \in Seq(S) /\ Len(s) \in Nat \ {0} /\ Len(Tail(s)) = Len(s) - 1
      /\ Head(s) = s[1] /\ \A i \in 1..(Len(s) - 1) : Tail(s)[i] = s[i + 1]
  BY TailOf
<1>2. PICK i \in 1..Len(s) : s[i] = x
  BY DEF ToSet
<1>3. CASE i = 1
  BY <1>1, <1>2, <1>3
<1>4. CASE i # 1
  <2>1. i - 1 \in 1..Len(Tail(s)) /\ Tail(s)[i - 1] = s[(i - 1) + 1] /\ (i - 1) + 1 = i
    BY <1>1, <1>4
  <2>2. DOMAIN Tail(s) = 1..Len(Tail(s))
    BY <1>1
  <2> QED BY <1>2, <2>1, <2>2 DEF ToSet
<1> QED BY <1>3, <1>4

-----------------------------------------------------------------------------
(* The inductive invariant. *)

(* What a member has been given and not finished, in order. *)
Queue(m) == member[m].input \o member[m].batch

(* The first of these for which its handler has not been called. *)
FirstWaiting(m) == IF member[m].stage = "idle" THEN 1 ELSE 2

Increasing(q) == \A i, j \in 1..Len(q) : i < j => q[i] < q[j]
Disjoint(q, r) == \A i \in 1..Len(q), j \in 1..Len(r) : q[i] # r[j]
HandledNone(q, from) == \A i \in 1..Len(q) : from <= i => handled[q[i]] = 0

(* A member never has two XREADGROUPs under way, and none while it has      *)
(* something to yield.                                                      *)
OneXreadgroup ==
  \A m \in Members :
    /\ \A i, j \in 1..Len(conn[m]) :
         conn[m][i] = Xreadgroup /\ conn[m][j] = Xreadgroup => i = j
    /\ \A i \in 1..Len(conn[m]) : conn[m][i] = Xreadgroup => member[m].batch = <<>>

(* A reply on its way brings something. *)
ReplyHasEntries == \A m \in Members : member[m].arrived \/ member[m].batch # <<>>

(* A process that has ended has nothing, and the server nothing of it. *)
DownIsEmpty ==
  \A m \in Members :
    member[m].stage = "down" =>
      member[m].batch = <<>> /\ member[m].input = <<>> /\ conn[m] = <<>> /\ ~member[m].running

(* Every entry that was delivered is in one queue at most, once. *)
DeliveredOnce ==
  /\ \A m \in Members : /\ Increasing(Queue(m))
                        /\ \A i \in 1..Len(Queue(m)) : Queue(m)[i] <= delivered
  /\ \A m, n \in Members : m # n => Disjoint(Queue(m), Queue(n))

(* The handler has not been called for what waits to be handled, nor for    *)
(* what waits on the server.                                                *)
WaitingIsUnhandled ==
  /\ handled \in [Positions -> Nat]
  /\ \A m \in Members : HandledNone(Queue(m), FirstWaiting(m))
  /\ \A e \in Positions : delivered < e => handled[e] = 0

(* An XACK is sent for what has a result. *)
XackIsProcessed ==
  \A m \in Members : \A i \in 1..Len(conn[m]) :
    conn[m][i] # Xreadgroup => result[conn[m][i]] # "none"

(* What is pending for a living process and was not lost, it has or has     *)
(* processed.                                                               *)
HeldUnlessLost ==
  \A e \in Positions, m \in Members :
    pending[e] = m /\ e \notin orphaned \cup lost => e \in Local(m) \/ Contains(conn[m], e)

IInv ==
  /\ TypeOK /\ OneXreadgroup /\ ReplyHasEntries /\ DownIsEmpty
  /\ DeliveredOnce /\ WaitingIsUnhandled /\ HandledAtMostOnce
  /\ XackIsProcessed /\ AckedIsProcessed /\ HeldUnlessLost

-----------------------------------------------------------------------------
(* What TypeOK says of one member. *)
LEMMA OneMember ==
  ASSUME TypeOK, NEW m \in Members
  PROVE  /\ member[m] \in ConsumerGroupMember
         /\ member[m].input \in Seq(Positions) /\ member[m].batch \in Seq(Positions)
         /\ member[m].outbox \in Seq(Positions) /\ member[m].arrived \in BOOLEAN
         /\ Queue(m) \in Seq(Positions)
         /\ Len(Queue(m)) = Len(member[m].input) + Len(member[m].batch)
         /\ Len(member[m].input) \in Nat /\ Len(member[m].batch) \in Nat
         /\ conn[m] \in Seq({Xreadgroup} \cup Positions)
<1>1. /\ member[m] \in ConsumerGroupMember
      /\ conn[m] \in Seq({Xreadgroup} \cup Positions)
  BY DEF TypeOK
<1>2. member[m].input \in Seq(Positions) /\ member[m].batch \in Seq(Positions)
      /\ member[m].outbox \in Seq(Positions) /\ member[m].arrived \in BOOLEAN
  BY <1>1 DEF ConsumerGroupMember
<1> QED BY <1>1, <1>2, ConcatOf DEF Queue

LEMMA PositionsAreNumbers ==
  /\ Positions \subseteq Nat \ {0} /\ Xreadgroup \notin Positions /\ Absent \in Int
  /\ Absent < 0 /\ MaxEntries \in Nat /\ HighWaterMark \in Nat \ {0} /\ MaxCrashes \in Nat /\ MaxLosses \in Nat
BY BoundsAssumption DEF Positions, Xreadgroup, Absent

LEMMA InitIInv == Init => IInv
<1> SUFFICES ASSUME Init PROVE IInv
  OBVIOUS
<1>1. \A m \in Members : /\ conn[m] = <<>> /\ member[m] = Down
                         /\ member[m].batch = <<>> /\ member[m].input = <<>>
                         /\ member[m].stage = "down" /\ member[m].arrived
  BY DEF Init, Down, Started
<1>2. Down \in ConsumerGroupMember
  <2>1. <<>> \in Seq(Positions)
    OBVIOUS
  <2> QED BY <2>1 DEF Down, Started, ConsumerGroupMember
<1>3. TypeOK
  <2>1. conn \in [Members -> Seq({Xreadgroup} \cup Positions)]
    BY DEF Init
  <2>2. member \in [Members -> ConsumerGroupMember]
    BY <1>2 DEF Init
  <2>3. \A m \in Members :
          member[m].stage \in {"handling", "refusing", "stuck"} => member[m].input # <<>>
    BY <1>1
  <2> QED BY <2>1, <2>2, <2>3, PositionsAreNumbers DEF Init, TypeOK
<1>4. \A m \in Members : Queue(m) = <<>>
  BY <1>1 DEF Queue
<1>5. OneXreadgroup /\ XackIsProcessed /\ ReplyHasEntries
  BY <1>1 DEF OneXreadgroup, XackIsProcessed, ReplyHasEntries
<1>10. DownIsEmpty
  BY <1>1 DEF DownIsEmpty, Down, Started
<1>6. DeliveredOnce
  BY <1>4 DEF DeliveredOnce, Increasing, Disjoint
<1>7. WaitingIsUnhandled /\ HandledAtMostOnce
  BY <1>4 DEF WaitingIsUnhandled, HandledNone, HandledAtMostOnce, Init
<1>8. AckedIsProcessed
  BY DEF AckedIsProcessed, Init
<1>9. HeldUnlessLost
  BY MembersAssumption DEF HeldUnlessLost, Init
<1> QED BY <1>3, <1>5, <1>6, <1>7, <1>8, <1>9, <1>10 DEF IInv

-----------------------------------------------------------------------------
(* Steps that change little. *)

(* The queues, and whose handler was called, stay as they are. *)
LEMMA QueuesKept ==
  ASSUME IInv, UNCHANGED <<delivered, handled>>,
         \A m \in Members : Queue(m)' = Queue(m) /\ FirstWaiting(m) <= FirstWaiting(m)'
  PROVE  DeliveredOnce' /\ WaitingIsUnhandled' /\ HandledAtMostOnce'
<1>1. DeliveredOnce'
  BY DEF IInv, DeliveredOnce, Increasing, Disjoint
<1>2. WaitingIsUnhandled'
  <2>1. ASSUME NEW m \in Members, NEW i \in 1..Len(Queue(m)), FirstWaiting(m)' <= i
        PROVE  handled[Queue(m)[i]] = 0
    <3>1. FirstWaiting(m) <= i
      <4>1. FirstWaiting(m) \in Nat /\ FirstWaiting(m)' \in Nat /\ i \in Int
        BY DEF FirstWaiting
      <4> QED BY <2>1, <4>1
    <3> QED BY <3>1 DEF IInv, WaitingIsUnhandled, HandledNone
  <2> QED BY <2>1 DEF IInv, WaitingIsUnhandled, HandledNone
<1>3. HandledAtMostOnce'
  BY DEF IInv, HandledAtMostOnce
<1> QED BY <1>1, <1>2, <1>3

(* Nothing new is sent on the connection of n. *)
Shrinks(n) ==
  /\ \A i, j \in 1..Len(conn'[n]) :
       conn'[n][i] = Xreadgroup /\ conn'[n][j] = Xreadgroup => i = j
  /\ \A i \in 1..Len(conn'[n]) : \E j \in 1..Len(conn[n]) : conn'[n][i] = conn[n][j]
  /\ conn[n] = <<>> => conn'[n] = <<>>

(* The server takes the first command of m away. *)
LEMMA ExecutedKeeps ==
  ASSUME IInv, NEW m \in Members, conn[m] # <<>>, Executed(m), result' = result
  PROVE  /\ conn' \in [Members -> Seq({Xreadgroup} \cup Positions)]
         /\ XackIsProcessed'
         /\ \A n \in Members : Shrinks(n)
         /\ Head(conn[m]) = Xreadgroup => \A i \in 1..Len(conn'[m]) : conn'[m][i] # Xreadgroup
         /\ \A x : Contains(conn[m], x) => x = Head(conn[m]) \/ Contains(conn'[m], x)
<1> DEFINE S == {Xreadgroup} \cup Positions
<1>1. conn \in [Members -> Seq(S)] /\ conn[m] \in Seq(S)
  BY DEF IInv, TypeOK
<1> HIDE DEF S
<1>2. /\ Tail(conn[m]) \in Seq(S) /\ Len(conn[m]) \in Nat \ {0} /\ Head(conn[m]) = conn[m][1]
      /\ Len(Tail(conn[m])) = Len(conn[m]) - 1
      /\ \A i \in 1..(Len(conn[m]) - 1) : Tail(conn[m])[i] = conn[m][i + 1]
  BY <1>1, TailOf
<1>3. /\ conn' \in [Members -> Seq(S)]
      /\ conn'[m] = Tail(conn[m])
      /\ \A n \in Members : n # m => conn'[n] = conn[n]
  BY <1>1, <1>2 DEF Executed
<1>4. /\ Len(conn'[m]) = Len(conn[m]) - 1
      /\ \A i \in 1..Len(conn'[m]) : conn'[m][i] = conn[m][i + 1] /\ i + 1 \in 1..Len(conn[m])
  BY <1>2, <1>3
<1>5. XackIsProcessed'
  <2>1. ASSUME NEW n \in Members, NEW i \in 1..Len(conn'[n]), conn'[n][i] # Xreadgroup
        PROVE  result[conn'[n][i]] # "none"
    <3>1. CASE n = m
      BY <1>4, <2>1, <3>1 DEF IInv, XackIsProcessed
    <3>2. CASE n # m
      BY <1>3, <2>1, <3>2 DEF IInv, XackIsProcessed
    <3> QED BY <3>1, <3>2
  <2> QED BY <2>1 DEF XackIsProcessed
<1>6. ASSUME NEW n \in Members
      PROVE  Shrinks(n)
  <2>1. Shrinks(m)
    <3>1. ASSUME NEW i \in 1..Len(conn'[m]), NEW j \in 1..Len(conn'[m]),
                 conn'[m][i] = Xreadgroup, conn'[m][j] = Xreadgroup
          PROVE  i = j
      <4>1. i + 1 = j + 1
        BY <1>4, <3>1 DEF IInv, OneXreadgroup
      <4> QED BY <4>1
    <3>2. ASSUME NEW i \in 1..Len(conn'[m])
          PROVE  \E j \in 1..Len(conn[m]) : conn'[m][i] = conn[m][j]
      BY <1>4
    <3> QED BY <3>1, <3>2 DEF Shrinks
  <2>2. CASE n # m
    <3>1. conn'[n] = conn[n]
      BY <1>3, <2>2
    <3>2. \A i, j \in 1..Len(conn[n]) :
            conn[n][i] = Xreadgroup /\ conn[n][j] = Xreadgroup => i = j
      BY DEF IInv, OneXreadgroup
    <3> QED BY <3>1, <3>2 DEF Shrinks
  <2> QED BY <2>1, <2>2
<1>7. Head(conn[m]) = Xreadgroup => \A i \in 1..Len(conn'[m]) : conn'[m][i] # Xreadgroup
  <2>1. ASSUME Head(conn[m]) = Xreadgroup, NEW i \in 1..Len(conn'[m]), conn'[m][i] = Xreadgroup
        PROVE  FALSE
    <3>1. conn[m][1] = Xreadgroup /\ conn[m][i + 1] = Xreadgroup
          /\ 1 \in 1..Len(conn[m]) /\ i + 1 \in 1..Len(conn[m])
      BY <1>2, <1>4, <2>1
    <3>2. i + 1 = 1
      BY <3>1 DEF IInv, OneXreadgroup
    <3> QED BY <3>2
  <2> QED BY <2>1
<1>8. ASSUME NEW x, Contains(conn[m], x)
      PROVE  x = Head(conn[m]) \/ Contains(conn'[m], x)
  <2>1. PICK i \in 1..Len(conn[m]) : conn[m][i] = x
    BY <1>8 DEF Contains
  <2>2. CASE i = 1
    BY <1>2, <2>1, <2>2
  <2>3. CASE i # 1
    <3>1. i - 1 \in 1..Len(conn'[m]) /\ conn'[m][i - 1] = conn[m][(i - 1) + 1] /\ (i - 1) + 1 = i
      BY <1>2, <1>4, <2>3
    <3> QED BY <2>1, <3>1 DEF Contains
  <2> QED BY <2>2, <2>3
<1> QED BY <1>3, <1>5, <1>6, <1>7, <1>8 DEF S

-----------------------------------------------------------------------------
(* Every step preserves the invariant. *)

LEMMA XaddKeeps ==
  ASSUME IInv, Xadd
  PROVE  IInv'
<1> USE DEF history
<1>1. TypeOK'
  BY PositionsAreNumbers DEF Xadd, IInv, TypeOK, Absent
<1>2. DeliveredOnce' /\ WaitingIsUnhandled' /\ HandledAtMostOnce'
  BY QueuesKept DEF Xadd, Queue, FirstWaiting
<1>3. OneXreadgroup' /\ DownIsEmpty' /\ XackIsProcessed' /\ AckedIsProcessed' /\ HeldUnlessLost'
  BY DEF Xadd, IInv, OneXreadgroup, DownIsEmpty, XackIsProcessed, AckedIsProcessed, HeldUnlessLost,
         Local
<1>4. ReplyHasEntries'
  BY DEF Xadd, IInv, ReplyHasEntries
<1> QED BY <1>1, <1>2, <1>3, <1>4 DEF IInv

(* A new group starts at or behind what has never been delivered. *)
LEMMA CreateKeeps ==
  ASSUME IInv, NEW cursor \in {0, entries}, Create(cursor)
  PROVE  IInv'
<1> USE DEF history
<1>1. /\ delivered = Absent /\ delivered' = cursor /\ delivered' \in 0..entries /\ entries \in Nat
      /\ UNCHANGED <<entries, pending, acked, conn, member, handled, result, answered,
                     orphaned, lost, crashes, losses>>
  BY PositionsAreNumbers DEF Create, createConsumerGroup, IInv, TypeOK
<1>2. TypeOK'
  BY <1>1 DEF IInv, TypeOK
<1>3. \A m \in Members : Queue(m)' = Queue(m) /\ FirstWaiting(m)' = FirstWaiting(m)
  BY <1>1 DEF Queue, FirstWaiting
<1>4. DeliveredOnce'
  <2>1. ASSUME NEW m \in Members, NEW i \in 1..Len(Queue(m))
        PROVE  Queue(m)[i] <= delivered'
    <3>1. Queue(m)[i] <= delivered
      BY DEF IInv, DeliveredOnce
    <3>2. Queue(m)[i] \in Nat
      <4>1. Queue(m) \in Seq(Positions)
        BY OneMember DEF IInv
      <4>2. Queue(m)[i] \in Positions
        BY <4>1
      <4> QED BY <4>2, PositionsAreNumbers
    <3>3. ~(Queue(m)[i] <= Absent)
      BY <3>2, PositionsAreNumbers
    <3> QED BY <1>1, <3>1, <3>3
  <2> QED BY <1>3, <2>1 DEF IInv, DeliveredOnce, Increasing, Disjoint
<1>5. WaitingIsUnhandled' /\ HandledAtMostOnce'
  BY <1>1, <1>3, PositionsAreNumbers
  DEF IInv, WaitingIsUnhandled, HandledAtMostOnce, HandledNone, Absent
<1>6. OneXreadgroup' /\ DownIsEmpty' /\ XackIsProcessed' /\ AckedIsProcessed' /\ HeldUnlessLost'
  BY <1>1 DEF IInv, OneXreadgroup, DownIsEmpty, XackIsProcessed, AckedIsProcessed, HeldUnlessLost,
              Local
<1>7. ReplyHasEntries'
  BY <1>1 DEF IInv, ReplyHasEntries
<1> QED BY <1>2, <1>4, <1>5, <1>6, <1>7 DEF IInv

LEMMA StartedIsMember ==
  ASSUME NEW configured \in BOOLEAN
  PROVE  /\ Started(configured) \in ConsumerGroupMember /\ Down \in ConsumerGroupMember
         /\ Started(configured).stage = "idle" /\ Down.stage = "down" /\ ~Down.running
         /\ Started(configured).input = <<>> /\ Started(configured).batch = <<>>
         /\ Down.input = <<>> /\ Down.batch = <<>>
         /\ Started(configured).arrived /\ Down.arrived
<1>1. <<>> \in Seq(Positions)
  OBVIOUS
<1> QED BY <1>1 DEF Started, Down, ConsumerGroupMember

(* A process starts with nothing, where there was nothing. *)
LEMMA ConnectKeeps ==
  ASSUME IInv, NEW m \in Members, NEW configured \in Configs, ConnectAndListen(m, configured)
  PROVE  IInv'
<1> USE DEF history, server
<1>0. configured \in BOOLEAN
  BY ChoicesAssumption
<1>1. /\ member[m].stage = "down" /\ member' = [member EXCEPT ![m] = Started(configured)]
      /\ UNCHANGED <<entries, delivered, pending, acked, conn, handled, result, answered,
                     orphaned, lost, crashes, losses>>
      /\ member \in [Members -> ConsumerGroupMember]
  BY DEF ConnectAndListen, IInv, TypeOK
<1>2. /\ member'[m] = Started(configured) /\ member' \in [Members -> ConsumerGroupMember]
      /\ member'[m].stage = "idle" /\ member'[m].input = <<>> /\ member'[m].batch = <<>>
      /\ member[m].input = <<>> /\ member[m].batch = <<>> /\ conn[m] = <<>>
      /\ member'[m].arrived
      /\ \A n \in Members : n # m => member'[n] = member[n]
  BY <1>0, <1>1, StartedIsMember DEF IInv, DownIsEmpty
<1>3. TypeOK'
  <2>1. ASSUME NEW n \in Members, member'[n].stage \in {"handling", "refusing", "stuck"}
        PROVE  member'[n].input # <<>>
    BY <1>2, <2>1 DEF IInv, TypeOK
  <2> QED BY <1>1, <1>2, <2>1 DEF IInv, TypeOK
<1>4. \A n \in Members : n # m => Queue(n)' = Queue(n) /\ FirstWaiting(n)' = FirstWaiting(n)
  BY <1>2 DEF Queue, FirstWaiting
<1>5. Queue(m)' = <<>> /\ Queue(m) = <<>>
  BY <1>2 DEF Queue
<1>6. DeliveredOnce'
  BY <1>1, <1>4, <1>5 DEF IInv, DeliveredOnce, Increasing, Disjoint
<1>7. WaitingIsUnhandled' /\ HandledAtMostOnce'
  BY <1>1, <1>4, <1>5 DEF IInv, WaitingIsUnhandled, HandledAtMostOnce, HandledNone
<1>8. OneXreadgroup' /\ DownIsEmpty' /\ XackIsProcessed' /\ AckedIsProcessed'
  BY <1>1, <1>2 DEF IInv, OneXreadgroup, DownIsEmpty, XackIsProcessed, AckedIsProcessed
<1>9. HeldUnlessLost'
  <2>1. \A n \in Members : Local(n)' = Local(n)
    BY <1>2 DEF Local
  <2> QED BY <1>1, <2>1 DEF IInv, HeldUnlessLost
<1>10. ReplyHasEntries'
  BY <1>2 DEF IInv, ReplyHasEntries
<1> QED BY <1>3, <1>6, <1>7, <1>8, <1>9, <1>10 DEF IInv

(* It asks for more when it has yielded everything, and not twice. *)
LEMMA ReadAsGroupKeeps ==
  ASSUME IInv, NEW m \in Members, ReadAsGroup(m)
  PROVE  IInv'
<1> USE DEF history, server
<1> DEFINE S == {Xreadgroup} \cup Positions
<1>1. /\ member[m].running /\ member[m].batch = <<>> /\ ~Contains(conn[m], Xreadgroup)
      /\ conn' = [conn EXCEPT ![m] = Append(@, Xreadgroup)]
      /\ UNCHANGED <<entries, delivered, pending, acked, member, handled, result, answered,
                     orphaned, lost, crashes, losses>>
      /\ conn \in [Members -> Seq(S)]
  BY DEF ReadAsGroup, IInv, TypeOK
<1>2. /\ Append(conn[m], Xreadgroup) \in Seq(S) /\ Len(conn[m]) \in Nat
      /\ Len(Append(conn[m], Xreadgroup)) = Len(conn[m]) + 1
      /\ \A i \in 1..Len(conn[m]) : Append(conn[m], Xreadgroup)[i] = conn[m][i]
      /\ Append(conn[m], Xreadgroup)[Len(conn[m]) + 1] = Xreadgroup
  BY <1>1, AppendTo
<1>3. /\ conn' \in [Members -> Seq(S)] /\ conn'[m] = Append(conn[m], Xreadgroup)
      /\ \A n \in Members : n # m => conn'[n] = conn[n]
  BY <1>1, <1>2
<1>4. \A i \in 1..Len(conn[m]) : conn[m][i] # Xreadgroup
  BY <1>1 DEF Contains
<1>5. TypeOK'
  BY <1>1, <1>3 DEF IInv, TypeOK
<1>6. DeliveredOnce' /\ WaitingIsUnhandled' /\ HandledAtMostOnce'
  BY <1>1, QueuesKept DEF Queue, FirstWaiting
<1>7. OneXreadgroup'
  <2>1. ASSUME NEW i \in 1..Len(conn'[m]), conn'[m][i] = Xreadgroup
        PROVE  i = Len(conn[m]) + 1
    BY <1>2, <1>3, <1>4, <2>1
  <2>2. ASSUME NEW n \in Members, n # m
        PROVE  /\ \A i, j \in 1..Len(conn'[n]) :
                    conn'[n][i] = Xreadgroup /\ conn'[n][j] = Xreadgroup => i = j
               /\ \A i \in 1..Len(conn'[n]) : conn'[n][i] = Xreadgroup => member'[n].batch = <<>>
    BY <1>1, <1>3, <2>2 DEF IInv, OneXreadgroup
  <2> QED BY <1>1, <2>1, <2>2 DEF OneXreadgroup
<1>8. DownIsEmpty'
  BY <1>1, <1>3 DEF IInv, DownIsEmpty
<1>9. XackIsProcessed'
  <2>1. ASSUME NEW n \in Members, NEW i \in 1..Len(conn'[n]), conn'[n][i] # Xreadgroup
        PROVE  result[conn'[n][i]] # "none"
    <3>1. i \in 1..Len(conn[n]) /\ conn'[n][i] = conn[n][i]
      <4>1. CASE n # m
        BY <1>3, <4>1
      <4>2. CASE n = m
        <5>1. i \in 1..(Len(conn[m]) + 1) /\ i # Len(conn[m]) + 1
          BY <1>2, <1>3, <2>1, <4>2
        <5>2. i \in 1..Len(conn[m])
          BY <1>2, <5>1
        <5> QED BY <1>2, <1>3, <4>2, <5>2
      <4> QED BY <4>1, <4>2
    <3> QED BY <2>1, <3>1 DEF IInv, XackIsProcessed
  <2> QED BY <1>1, <2>1 DEF XackIsProcessed
<1>10. AckedIsProcessed'
  BY <1>1 DEF IInv, AckedIsProcessed
<1>11. HeldUnlessLost'
  <2>1. ASSUME NEW n \in Members, NEW e, Contains(conn[n], e)
        PROVE  Contains(conn'[n], e)
    <3>1. PICK i \in 1..Len(conn[n]) : conn[n][i] = e
      BY <2>1 DEF Contains
    <3>2. CASE n # m
      BY <1>3, <2>1, <3>2
    <3>3. CASE n = m
      <4>1. i \in 1..(Len(conn[m]) + 1) /\ conn'[m][i] = e
        BY <1>2, <1>3, <3>1, <3>3
      <4> QED BY <1>2, <1>3, <3>3, <4>1 DEF Contains
    <3> QED BY <3>2, <3>3
  <2>2. \A n \in Members : Local(n)' = Local(n)
    BY <1>1 DEF Local
  <2> QED BY <1>1, <2>1, <2>2 DEF IInv, HeldUnlessLost
<1>12. ReplyHasEntries'
  BY <1>1 DEF IInv, ReplyHasEntries
<1> QED BY <1>5, <1>6, <1>7, <1>8, <1>9, <1>10, <1>11, <1>12 DEF IInv

(* Steps of a member that send nothing, and keep what it has and the order  *)
(* of it.                                                                   *)
LEMMA MemberKeeps ==
  ASSUME IInv, NEW m \in Members, NEW g \in ConsumerGroupMember,
         member' = [member EXCEPT ![m] = g],
         UNCHANGED <<entries, delivered, pending, acked, conn, handled, result, orphaned, lost,
                     crashes, losses>>,
         answered' \subseteq Positions, \A e \in answered' : result[e] # "none",
         g.input \o g.batch = Queue(m),
         g.stage = member[m].stage \/ (member[m].stage # "down" /\ g.stage = "stuck"),
         g.stage \in {"handling", "refusing", "stuck"} => g.input # <<>>,
         member[m].batch = <<>> => g.batch = <<>>,
         g.running = member[m].running, g.arrived \/ g.batch # <<>>
  PROVE  IInv'
<1>1. /\ member \in [Members -> ConsumerGroupMember] /\ member'[m] = g
      /\ member' \in [Members -> ConsumerGroupMember]
      /\ \A n \in Members : n # m => member'[n] = member[n]
  BY DEF IInv, TypeOK
<1>2. \A n \in Members : Queue(n)' = Queue(n)
  BY <1>1 DEF Queue
<1>3. \A n \in Members : FirstWaiting(n) <= FirstWaiting(n)'
  BY <1>1 DEF FirstWaiting
<1>4. TypeOK'
  <2>1. ASSUME NEW n \in Members, member'[n].stage \in {"handling", "refusing", "stuck"}
        PROVE  member'[n].input # <<>>
    BY <1>1, <2>1 DEF IInv, TypeOK
  <2> QED BY <1>1, <2>1 DEF IInv, TypeOK
<1>5. DeliveredOnce' /\ WaitingIsUnhandled' /\ HandledAtMostOnce'
  BY <1>2, <1>3, QueuesKept
<1>6. OneXreadgroup' /\ XackIsProcessed' /\ AckedIsProcessed'
  <2>1. OneXreadgroup'
    BY <1>1 DEF IInv, OneXreadgroup
  <2>2. XackIsProcessed' /\ AckedIsProcessed'
    BY DEF IInv, XackIsProcessed, AckedIsProcessed
  <2> QED BY <2>1, <2>2
<1>7. DownIsEmpty'
  <2>1. ASSUME g.stage = "down"
        PROVE  g.input = <<>> /\ g.batch = <<>> /\ conn[m] = <<>> /\ ~g.running
    <3>1. /\ member[m].batch = <<>> /\ member[m].input = <<>> /\ conn[m] = <<>>
          /\ ~member[m].running
      BY <2>1 DEF IInv, DownIsEmpty
    <3>2. Queue(m) = <<>> /\ g.batch = <<>>
      BY <3>1 DEF Queue
    <3>3. g.input \in Seq(Positions)
      BY DEF ConsumerGroupMember
    <3>4. g.input = <<>>
      BY <3>2, <3>3
    <3> QED BY <3>1, <3>2, <3>4
  <2> QED BY <1>1, <2>1 DEF IInv, DownIsEmpty
<1>8. HeldUnlessLost'
  <2>1. \A n \in Members : Local(n)' = Local(n)
    <3>1. Local(m)' = ToSet(Queue(m)')
      <4>1. g.input \in Seq(Positions) /\ g.batch \in Seq(Positions)
        BY DEF ConsumerGroupMember
      <4> QED BY <1>1, <4>1, InEither DEF Local, Queue
    <3>2. Local(m) = ToSet(Queue(m))
      BY OneMember, InEither DEF IInv, Local, Queue
    <3>3. \A n \in Members : n # m => Local(n)' = Local(n)
      BY <1>1 DEF Local
    <3> QED BY <1>2, <3>1, <3>2, <3>3
  <2> QED BY <2>1 DEF IInv, HeldUnlessLost
<1>9. ReplyHasEntries'
  BY <1>1 DEF IInv, ReplyHasEntries
<1> QED BY <1>4, <1>5, <1>6, <1>7, <1>8, <1>9 DEF IInv

LEMMA ReceiveKeeps ==
  ASSUME IInv, NEW m \in Members, Receive(m)
  PROVE  IInv'
<1> USE DEF history, server
<1> DEFINE g == [member[m] EXCEPT !.arrived = TRUE]
<1>1. /\ member' = [member EXCEPT ![m] = g]
      /\ UNCHANGED <<entries, delivered, pending, acked, conn, handled, result, answered,
                     orphaned, lost, crashes, losses>>
  BY DEF Receive
<1>2. /\ g \in ConsumerGroupMember /\ g.stage = member[m].stage /\ g.running = member[m].running
      /\ g.input = member[m].input /\ g.batch = member[m].batch /\ g.arrived
  BY OneMember DEF IInv, ConsumerGroupMember
<1>3. g.input \o g.batch = Queue(m)
  BY <1>2 DEF Queue
<1>4. answered' \subseteq Positions /\ \A e \in answered' : result[e] # "none"
  BY <1>1 DEF IInv, TypeOK, AckedIsProcessed
<1>5. /\ g.stage \in {"handling", "refusing", "stuck"} => g.input # <<>>
      /\ member[m].batch = <<>> => g.batch = <<>>
  BY <1>2 DEF IInv, TypeOK
<1> HIDE DEF g
<1> QED BY <1>1, <1>2, <1>3, <1>4, <1>5, MemberKeeps

LEMMA YieldKeeps ==
  ASSUME IInv, NEW m \in Members, Yield(m)
  PROVE  IInv'
<1> USE DEF history, server
<1> DEFINE g == [member[m] EXCEPT !.input = Append(@, Head(member[m].batch)), !.batch = Tail(@)]
<1>1. /\ member[m].batch # <<>> /\ member' = [member EXCEPT ![m] = g] /\ member[m].arrived
      /\ UNCHANGED <<entries, delivered, pending, acked, conn, handled, result, answered,
                     orphaned, lost, crashes, losses>>
  BY DEF Yield
<1>2. /\ member[m] \in ConsumerGroupMember
      /\ member[m].input \in Seq(Positions) /\ member[m].batch \in Seq(Positions)
  BY OneMember DEF IInv
<1>3. /\ Head(member[m].batch) \in Positions /\ Tail(member[m].batch) \in Seq(Positions)
      /\ Append(member[m].input, Head(member[m].batch)) \in Seq(Positions)
      /\ Append(member[m].input, Head(member[m].batch)) # <<>>
  BY <1>1, <1>2, TailOf, AppendTo
<1>4. g \in ConsumerGroupMember /\ g.stage = member[m].stage /\ g.running = member[m].running
      /\ g.input = Append(member[m].input, Head(member[m].batch)) /\ g.batch = Tail(member[m].batch)
      /\ g.arrived
  BY <1>1, <1>2, <1>3 DEF ConsumerGroupMember
<1>5. g.input \o g.batch = Queue(m)
  <2>1. Append(member[m].input, Head(member[m].batch)) \o Tail(member[m].batch)
          = member[m].input \o member[m].batch
    BY <1>1, <1>2, HandOn, ZenonT(40)
  <2> QED BY <1>4, <2>1 DEF Queue
<1>6. answered' \subseteq Positions /\ \A e \in answered' : result[e] # "none"
  BY <1>1 DEF IInv, TypeOK, AckedIsProcessed
<1>7. g.input # <<>> /\ (member[m].batch = <<>> => g.batch = <<>>)
  BY <1>1, <1>3, <1>4
<1> HIDE DEF g
<1> QED BY <1>1, <1>4, <1>5, <1>6, <1>7, MemberKeeps

LEMMA HandlerThrowsKeeps ==
  ASSUME IInv, NEW m \in Members, HandlerThrows(m)
  PROVE  IInv'
<1> USE DEF history, server
<1> DEFINE g == [member[m] EXCEPT !.stage = "stuck"]
<1>1. /\ member[m].stage = "handling" /\ member' = [member EXCEPT ![m] = g]
      /\ UNCHANGED <<entries, delivered, pending, acked, conn, handled, result, answered,
                     orphaned, lost, crashes, losses>>
  BY DEF HandlerThrows
<1>2. g \in ConsumerGroupMember /\ g.stage = "stuck" /\ g.running = member[m].running
      /\ g.input = member[m].input /\ g.batch = member[m].batch
      /\ g.arrived = member[m].arrived
  BY OneMember DEF IInv, ConsumerGroupMember
<1>3. g.input \o g.batch = Queue(m)
  BY <1>2 DEF Queue
<1>5. g.input # <<>>
  BY <1>1, <1>2 DEF IInv, TypeOK
<1>6. g.arrived \/ g.batch # <<>>
  BY <1>2 DEF IInv, ReplyHasEntries
<1>4. answered' \subseteq Positions /\ \A e \in answered' : result[e] # "none"
  BY <1>1 DEF IInv, TypeOK, AckedIsProcessed
<1> HIDE DEF g
<1> QED BY <1>1, <1>2, <1>3, <1>4, <1>5, <1>6, MemberKeeps

(* A response is written for a result. *)
LEMMA RespondKeeps ==
  ASSUME IInv, NEW m \in Members, Respond(m)
  PROVE  IInv'
<1> USE DEF history, server
<1> DEFINE g == [member[m] EXCEPT !.outbox = Tail(@)]
           e == Head(member[m].outbox)
<1>1. /\ member[m].outbox # <<>> /\ member' = [member EXCEPT ![m] = g]
      /\ result[e] = "value" /\ answered' = answered \cup {e}
      /\ UNCHANGED <<entries, delivered, pending, acked, conn, handled, result, orphaned, lost,
                     crashes, losses>>
  BY DEF Respond
<1>2. member[m] \in ConsumerGroupMember /\ member[m].outbox \in Seq(Positions)
  BY OneMember DEF IInv
<1>3. e \in Positions /\ Tail(member[m].outbox) \in Seq(Positions)
  BY <1>1, <1>2, TailOf
<1>4. g \in ConsumerGroupMember /\ g.stage = member[m].stage /\ g.running = member[m].running
      /\ g.input = member[m].input /\ g.batch = member[m].batch
      /\ g.arrived = member[m].arrived
  BY <1>2, <1>3 DEF ConsumerGroupMember
<1>5. g.input \o g.batch = Queue(m)
  BY <1>4 DEF Queue
<1>6. answered' \subseteq Positions /\ \A x \in answered' : result[x] # "none"
  BY <1>1, <1>3 DEF IInv, TypeOK, AckedIsProcessed
<1>7. g.stage \in {"handling", "refusing", "stuck"} => g.input # <<>>
  BY <1>4 DEF IInv, TypeOK
<1>8. member[m].batch = <<>> => g.batch = <<>>
  BY <1>4
<1>10. g.arrived \/ g.batch # <<>>
  BY <1>4 DEF IInv, ReplyHasEntries
<1>9. /\ member' = [member EXCEPT ![m] = g]
      /\ UNCHANGED <<entries, delivered, pending, acked, conn, handled, result, orphaned, lost,
                     crashes, losses>>
  BY <1>1
<1> HIDE DEF g, e
<1> QED BY <1>4, <1>5, <1>6, <1>7, <1>8, <1>9, <1>10, MemberKeeps

(* The handler of the first entry is called, or not found, or process()     *)
(* throws for want of a group id.                                           *)
LEMMA ProcessKeeps ==
  ASSUME IInv, NEW m \in Members, NEW known \in BOOLEAN, Process(m, known)
  PROVE  IInv'
<1> USE DEF history, server
<1> DEFINE e == Head(member[m].input)
           s == IF member[m].configured THEN IF known THEN "handling" ELSE "refusing" ELSE "stuck"
           g == [member[m] EXCEPT !.stage = s]
           called == member[m].configured /\ known
<1>1. /\ member[m].stage = "idle" /\ member[m].input # <<>>
      /\ member' = [member EXCEPT ![m] = g]
      /\ handled' = IF called THEN [handled EXCEPT ![e] = @ + 1] ELSE handled
      /\ UNCHANGED <<entries, delivered, pending, acked, conn, result, answered,
                     orphaned, lost, crashes, losses>>
  BY DEF Process
<1>2. /\ member \in [Members -> ConsumerGroupMember] /\ member[m] \in ConsumerGroupMember
      /\ member[m].input \in Seq(Positions) /\ member[m].batch \in Seq(Positions)
  <2>1. member \in [Members -> ConsumerGroupMember] /\ TypeOK
    BY DEF IInv, TypeOK
  <2> QED BY <2>1, OneMember
<1>3. s \in {"handling", "refusing", "stuck"}
  OBVIOUS
<1>4. /\ g \in ConsumerGroupMember /\ g.stage = s /\ g.input = member[m].input
      /\ g.batch = member[m].batch /\ g.running = member[m].running
      /\ g.arrived = member[m].arrived
  BY <1>2 DEF ConsumerGroupMember
<1> HIDE DEF g, s
<1>5. /\ member'[m] = g /\ member' \in [Members -> ConsumerGroupMember]
      /\ \A n \in Members : n # m => member'[n] = member[n]
  BY <1>1, <1>2, <1>4
<1>6. \A n \in Members : Queue(n)' = Queue(n) /\ Local(n)' = Local(n)
  BY <1>4, <1>5 DEF Queue, Local
<1>7. /\ FirstWaiting(m) = 1 /\ FirstWaiting(m)' = 2
      /\ \A n \in Members : n # m => FirstWaiting(n)' = FirstWaiting(n)
  BY <1>1, <1>3, <1>4, <1>5 DEF FirstWaiting
<1>8. e \in Positions /\ e = Queue(m)[1] /\ 1 \in 1..Len(Queue(m))
  <2>1. /\ Len(member[m].input) \in Nat \ {0} /\ e \in Positions /\ e = member[m].input[1]
    BY <1>1, <1>2, TailOf
  <2>2. /\ Len(Queue(m)) = Len(member[m].input) + Len(member[m].batch)
        /\ Len(member[m].batch) \in Nat
    BY OneMember DEF IInv
  <2>3. \A i \in 1..Len(member[m].input) : Queue(m)[i] = member[m].input[i]
    BY <1>2, ConcatOf, ZenonT(40) DEF Queue
  <2>4. 1 \in 1..Len(member[m].input)
    BY <2>1
  <2>5. Queue(m)[1] = member[m].input[1]
    BY <2>3, <2>4
  <2> HIDE DEF e
  <2>6. 1 \in 1..Len(Queue(m))
    <3>1. \A x, y, z : x \in Nat \ {0} /\ y \in Nat /\ z = x + y => 1 \in 1..z
      OBVIOUS
    <3> QED BY <2>1, <2>2, <3>1, Zenon
  <2> QED BY <2>1, <2>5, <2>6
<1> HIDE DEF e
<1>9. handled[e] = 0 /\ handled \in [Positions -> Nat]
  BY <1>7, <1>8 DEF IInv, WaitingIsUnhandled, HandledNone
<1>10. /\ handled' \in [Positions -> Nat] /\ handled'[e] <= 1
       /\ \A x \in Positions : x # e => handled'[x] = handled[x]
  BY <1>1, <1>8, <1>9
<1>11. TypeOK'
  <2>1. ASSUME NEW n \in Members, member'[n].stage \in {"handling", "refusing", "stuck"}
        PROVE  member'[n].input # <<>>
    BY <1>1, <1>4, <1>5, <2>1 DEF IInv, TypeOK
  <2> QED BY <1>1, <1>5, <2>1 DEF IInv, TypeOK
<1>12. DeliveredOnce'
  BY <1>1, <1>6 DEF IInv, DeliveredOnce, Increasing, Disjoint
<1>13. WaitingIsUnhandled'
  <2>1. ASSUME NEW n \in Members, NEW i \in 1..Len(Queue(n)), FirstWaiting(n)' <= i
        PROVE  handled'[Queue(n)[i]] = 0
    <3>0. Queue(n)[i] \in Positions /\ i \in Nat
      <4>1. Queue(n) \in Seq(Positions)
        BY OneMember DEF IInv
      <4> QED BY <4>1
    <3>1. FirstWaiting(n) <= i
      BY <1>7, <2>1, <3>0
    <3>2. handled[Queue(n)[i]] = 0
      BY <3>1 DEF IInv, WaitingIsUnhandled, HandledNone
    <3>3. Queue(n)[i] # e
      <4>1. CASE n = m
        <5>1. 1 < i /\ i \in 1..Len(Queue(m))
          BY <1>7, <2>1, <3>0, <4>1
        <5>2. Queue(m)[1] < Queue(m)[i]
          BY <1>8, <5>1 DEF IInv, DeliveredOnce, Increasing
        <5> QED BY <1>8, <3>0, <4>1, <5>2, PositionsAreNumbers
      <4>2. CASE n # m
        BY <1>8, <4>2 DEF IInv, DeliveredOnce, Disjoint
      <4> QED BY <4>1, <4>2
    <3> QED BY <1>10, <3>0, <3>2, <3>3
  <2>2. ASSUME NEW x \in Positions, delivered < x PROVE handled'[x] = 0
    <3>1. e <= delivered
      BY <1>8 DEF IInv, DeliveredOnce
    <3>2. delivered \in Int /\ x \in Int /\ e \in Int
      BY <1>8, PositionsAreNumbers DEF IInv, TypeOK
    <3>3. x # e
      BY <2>2, <3>1, <3>2
    <3> QED BY <1>10, <2>2, <3>3 DEF IInv, WaitingIsUnhandled
  <2> QED BY <1>1, <1>6, <1>10, <2>1, <2>2 DEF WaitingIsUnhandled, HandledNone
<1>14. HandledAtMostOnce'
  BY <1>10 DEF IInv, HandledAtMostOnce
<1>15. OneXreadgroup' /\ ReplyHasEntries' /\ DownIsEmpty'
  BY <1>1, <1>3, <1>4, <1>5 DEF IInv, OneXreadgroup, ReplyHasEntries, DownIsEmpty
<1>16. XackIsProcessed' /\ AckedIsProcessed' /\ HeldUnlessLost'
  BY <1>1, <1>6 DEF IInv, XackIsProcessed, AckedIsProcessed, HeldUnlessLost
<1> QED BY <1>11, <1>12, <1>13, <1>14, <1>15, <1>16 DEF IInv

(* A command is executed that delivers nothing. *)
LEMMA ServedKeeps ==
  ASSUME IInv, NEW m \in Members, conn[m] # <<>>, Executed(m),
         NEW g \in ConsumerGroupMember, member' = [member EXCEPT ![m] = g],
         g.input = member[m].input, g.batch = member[m].batch, g.stage = member[m].stage,
         g.arrived = member[m].arrived,
         g.running = member[m].running \/ ~g.running,
         UNCHANGED <<entries, delivered, handled, result, answered, orphaned, lost, crashes, losses>>,
         pending' \in [Positions -> Members \cup {None}],
         acked' \subseteq Positions, \A e \in acked' : result[e] # "none",
         \A e \in Positions, n \in Members :
           pending'[e] = n => /\ pending[e] = n
                              /\ n = m => e # Head(conn[m])
  PROVE  IInv'
<1>1. /\ member \in [Members -> ConsumerGroupMember] /\ member'[m] = g
      /\ member' \in [Members -> ConsumerGroupMember]
      /\ \A n \in Members : n # m => member'[n] = member[n]
      /\ conn \in [Members -> Seq({Xreadgroup} \cup Positions)]
  BY DEF IInv, TypeOK
<1>2. /\ conn' \in [Members -> Seq({Xreadgroup} \cup Positions)] /\ XackIsProcessed'
      /\ \A n \in Members : Shrinks(n)
      /\ \A x : Contains(conn[m], x) => x = Head(conn[m]) \/ Contains(conn'[m], x)
  BY ExecutedKeeps
<1>3. \A n \in Members : n # m => conn'[n] = conn[n]
  BY <1>1 DEF Executed
<1>4. TypeOK'
  <2>1. ASSUME NEW n \in Members, member'[n].stage \in {"handling", "refusing", "stuck"}
        PROVE  member'[n].input # <<>>
    BY <1>1, <2>1 DEF IInv, TypeOK
  <2> QED BY <1>1, <1>2, <2>1 DEF IInv, TypeOK
<1>5. DeliveredOnce' /\ WaitingIsUnhandled' /\ HandledAtMostOnce'
  <2>1. \A n \in Members : Queue(n)' = Queue(n)
    BY <1>1 DEF Queue
  <2>2. \A n \in Members : FirstWaiting(n) <= FirstWaiting(n)'
    BY <1>1 DEF FirstWaiting
  <2> QED BY <2>1, <2>2, QueuesKept
<1>6. OneXreadgroup'
  <2>1. ASSUME NEW n \in Members, NEW i \in 1..Len(conn'[n]), conn'[n][i] = Xreadgroup
        PROVE  member'[n].batch = <<>>
    <3>1. PICK j \in 1..Len(conn[n]) : conn'[n][i] = conn[n][j]
      BY <1>2 DEF Shrinks
    <3>2. member[n].batch = <<>>
      BY <2>1, <3>1 DEF IInv, OneXreadgroup
    <3> QED BY <1>1, <3>2
  <2> QED BY <1>2, <2>1 DEF OneXreadgroup, Shrinks
<1>7. DownIsEmpty'
  BY <1>1, <1>2 DEF IInv, DownIsEmpty, Shrinks
<1>8. AckedIsProcessed'
  BY DEF IInv, AckedIsProcessed
<1>9. HeldUnlessLost'
  <2>1. ASSUME NEW e \in Positions, NEW n \in Members, pending'[e] = n, e \notin orphaned \cup lost
        PROVE  e \in Local(n)' \/ Contains(conn'[n], e)
    <3>1. pending[e] = n /\ (n = m => e # Head(conn[m]))
      BY <2>1
    <3>2. e \in Local(n) \/ Contains(conn[n], e)
      BY <2>1, <3>1 DEF IInv, HeldUnlessLost
    <3>3. Local(n)' = Local(n)
      BY <1>1 DEF Local
    <3>4. Contains(conn[n], e) => Contains(conn'[n], e)
      BY <1>2, <1>3, <3>1
    <3> QED BY <3>2, <3>3, <3>4
  <2> QED BY <2>1 DEF HeldUnlessLost
<1>10. ReplyHasEntries'
  BY <1>1 DEF IInv, ReplyHasEntries
<1> QED BY <1>2, <1>4, <1>5, <1>6, <1>7, <1>8, <1>9, <1>10 DEF IInv

LEMMA TimesOutKeeps ==
  ASSUME IInv, NEW m \in Members, XreadgroupTimesOut(m)
  PROVE  IInv'
<1> USE DEF history, server
<1>1. /\ conn[m] # <<>> /\ Head(conn[m]) = Xreadgroup /\ Executed(m)
      /\ UNCHANGED <<entries, delivered, pending, acked, member, handled, result, answered,
                     orphaned, lost, crashes, losses>>
  BY DEF XreadgroupTimesOut, NextIs
<1>2. member' = [member EXCEPT ![m] = member[m]] /\ member[m] \in ConsumerGroupMember
  BY <1>1 DEF IInv, TypeOK
<1>3. /\ pending' \in [Positions -> Members \cup {None}] /\ acked' \subseteq Positions
      /\ \A e \in acked' : result[e] # "none"
  BY <1>1 DEF IInv, TypeOK, AckedIsProcessed
<1>4. \A e \in Positions : e # Head(conn[m])
  BY <1>1, PositionsAreNumbers
<1> QED BY <1>1, <1>2, <1>3, <1>4, ServedKeeps

LEMMA FailsKeeps ==
  ASSUME IInv, NEW m \in Members, XreadgroupFails(m)
  PROVE  IInv'
<1> USE DEF history, server
<1> DEFINE g == [member[m] EXCEPT !.running = FALSE]
<1>1. /\ conn[m] # <<>> /\ Head(conn[m]) = Xreadgroup /\ Executed(m)
      /\ member' = [member EXCEPT ![m] = g]
      /\ UNCHANGED <<entries, delivered, pending, acked, handled, result, answered,
                     orphaned, lost, crashes, losses>>
  BY DEF XreadgroupFails, NextIs
<1>2. /\ g \in ConsumerGroupMember /\ g.input = member[m].input /\ g.batch = member[m].batch
      /\ g.stage = member[m].stage /\ ~g.running /\ g.arrived = member[m].arrived
  BY OneMember DEF IInv, ConsumerGroupMember
<1>3. /\ pending' \in [Positions -> Members \cup {None}] /\ acked' \subseteq Positions
      /\ \A e \in acked' : result[e] # "none"
  BY <1>1 DEF IInv, TypeOK, AckedIsProcessed
<1>4. \A e \in Positions : e # Head(conn[m])
  BY <1>1, PositionsAreNumbers
<1> HIDE DEF g
<1> QED BY <1>1, <1>2, <1>3, <1>4, ServedKeeps

(* An XACK takes the entry from the pending list. *)
LEMMA XackKeeps ==
  ASSUME IInv, NEW m \in Members, NEW e \in Positions, Xack(m, e)
  PROVE  IInv'
<1> USE DEF history, server
<1>1. /\ conn[m] # <<>> /\ Head(conn[m]) = e /\ Executed(m)
      /\ acked' = acked \cup {e} /\ pending' = [pending EXCEPT ![e] = None]
      /\ UNCHANGED <<entries, delivered, member, handled, result, answered, orphaned, lost,
                     crashes, losses>>
  BY DEF Xack, NextIs
<1>2. member' = [member EXCEPT ![m] = member[m]] /\ member[m] \in ConsumerGroupMember
  BY <1>1 DEF IInv, TypeOK
<1>3. result[e] # "none"
  <2>1. conn[m] \in Seq({Xreadgroup} \cup Positions)
    BY DEF IInv, TypeOK
  <2>2. conn[m][1] = e /\ 1 \in 1..Len(conn[m])
    BY <1>1, <2>1, TailOf
  <2>3. e # Xreadgroup
    BY PositionsAreNumbers
  <2> QED BY <2>2, <2>3 DEF IInv, XackIsProcessed
<1>4. /\ pending' \in [Positions -> Members \cup {None}] /\ acked' \subseteq Positions
      /\ \A x \in acked' : result[x] # "none"
  BY <1>1, <1>3 DEF IInv, TypeOK, AckedIsProcessed
<1>5. \A x \in Positions, n \in Members :
        pending'[x] = n => pending[x] = n /\ (n = m => x # Head(conn[m]))
  BY <1>1, MembersAssumption DEF IInv, TypeOK
<1> QED BY <1>1, <1>2, <1>4, <1>5, ServedKeeps

(* The XACK of the first entry is sent, behind whatever is under way. *)
LEMMA MarkProcessedKeeps ==
  ASSUME IInv, NEW m \in Members, NEW outcome \in Outcomes \cup {"error"},
         MarkProcessed(m, outcome)
  PROVE  IInv'
<1> USE DEF history, server
<1> DEFINE S == {Xreadgroup} \cup Positions
           e == Head(member[m].input)
           g == [member[m] EXCEPT !.stage = "idle", !.input = Tail(@), !.outbox = Append(@, e)]
<1>1. /\ member[m].stage \in {"handling", "refusing"} /\ outcome \in {"value", "void", "error"}
      /\ result' = [result EXCEPT ![e] = outcome]
      /\ conn' = [conn EXCEPT ![m] = Append(@, e)]
      /\ member' = [member EXCEPT ![m] = g]
      /\ UNCHANGED <<entries, delivered, pending, acked, handled, answered, orphaned, lost,
                     crashes, losses>>
  BY ChoicesAssumption DEF MarkProcessed
<1>2. /\ member \in [Members -> ConsumerGroupMember] /\ member[m] \in ConsumerGroupMember
      /\ member[m].input \in Seq(Positions) /\ member[m].batch \in Seq(Positions)
      /\ member[m].outbox \in Seq(Positions) /\ member[m].input # <<>>
      /\ Queue(m) \in Seq(Positions)
      /\ conn \in [Members -> Seq(S)] /\ conn[m] \in Seq(S)
      /\ result \in [Positions -> {"none", "value", "void", "error"}]
  <2>1. TypeOK
    BY DEF IInv
  <2>2. member[m].input # <<>>
    BY <1>1, <2>1 DEF TypeOK
  <2>3. /\ member \in [Members -> ConsumerGroupMember] /\ conn \in [Members -> Seq(S)]
        /\ result \in [Positions -> {"none", "value", "void", "error"}]
    BY <2>1 DEF TypeOK
  <2> QED BY <2>1, <2>2, <2>3, OneMember
<1>3. /\ e \in Positions /\ e = member[m].input[1] /\ Tail(member[m].input) \in Seq(Positions)
      /\ Append(member[m].outbox, e) \in Seq(Positions)
  BY <1>2, TailOf, AppendTo
<1>4. /\ g \in ConsumerGroupMember /\ g.stage = "idle" /\ g.input = Tail(member[m].input)
      /\ g.batch = member[m].batch /\ g.running = member[m].running
      /\ g.arrived = member[m].arrived
  <2> HIDE DEF e
  <2> QED BY <1>2, <1>3 DEF ConsumerGroupMember
<1> HIDE DEF g
<1>5. /\ member'[m] = g /\ member' \in [Members -> ConsumerGroupMember]
      /\ \A n \in Members : n # m => member'[n] = member[n]
  BY <1>1, <1>2, <1>4
<1>6. /\ Append(conn[m], e) \in Seq(S) /\ Len(Append(conn[m], e)) = Len(conn[m]) + 1
      /\ Len(conn[m]) \in Nat
      /\ \A i \in 1..Len(conn[m]) : Append(conn[m], e)[i] = conn[m][i]
      /\ Append(conn[m], e)[Len(conn[m]) + 1] = e
  <2> HIDE DEF e
  <2> QED BY <1>2, <1>3, AppendTo
<1>7. /\ conn' \in [Members -> Seq(S)] /\ conn'[m] = Append(conn[m], e)
      /\ \A n \in Members : n # m => conn'[n] = conn[n]
  BY <1>1, <1>2, <1>6
<1>8. /\ Queue(m)' = Tail(Queue(m)) /\ Queue(m) # <<>>
      /\ Len(Tail(Queue(m))) = Len(Queue(m)) - 1 /\ Len(Queue(m)) \in Nat \ {0}
      /\ \A i \in 1..(Len(Queue(m)) - 1) : Tail(Queue(m))[i] = Queue(m)[i + 1]
  <2>1. Tail(member[m].input) \o member[m].batch = Tail(Queue(m))
    BY <1>2, TailOfConcat DEF Queue
  <2>2. Queue(m) # <<>>
    BY <1>2 DEF Queue
  <2>3. Queue(m)' = Tail(Queue(m))
    BY <1>4, <1>5, <2>1 DEF Queue
  <2> QED BY <1>2, <2>2, <2>3, TailOf
<1>9. \A n \in Members : n # m => /\ Queue(n)' = Queue(n) /\ FirstWaiting(n)' = FirstWaiting(n)
                                 /\ Local(n)' = Local(n)
  BY <1>5 DEF Queue, FirstWaiting, Local
<1>10. FirstWaiting(m) = 2 /\ FirstWaiting(m)' = 1
  BY <1>1, <1>4, <1>5 DEF FirstWaiting
<1> HIDE DEF e
<1>11. /\ result' \in [Positions -> {"none", "value", "void", "error"}]
       /\ \A x \in Positions : x = e \/ result'[x] = result[x]
       /\ \A x \in Positions : result[x] # "none" => result'[x] # "none"
       /\ result'[e] # "none"
  BY <1>1, <1>2, <1>3
<1>12. TypeOK'
  <2>1. ASSUME NEW n \in Members, member'[n].stage \in {"handling", "refusing", "stuck"}
        PROVE  member'[n].input # <<>>
    BY <1>4, <1>5, <2>1 DEF IInv, TypeOK
  <2>2. TypeOK
    BY DEF IInv
  <2> QED BY <1>1, <1>5, <1>7, <1>11, <2>1, <2>2 DEF TypeOK
<1>13. \A i \in 1..Len(Queue(m)') : /\ i + 1 \in 1..Len(Queue(m)) /\ i \in Nat
                                   /\ Queue(m)'[i] = Queue(m)[i + 1]
  BY <1>8
<1>14. DeliveredOnce'
  <2>1. Increasing(Queue(m))'
    <3>1. ASSUME NEW i \in 1..Len(Queue(m)'), NEW j \in 1..Len(Queue(m)'), i < j
          PROVE  Queue(m)'[i] < Queue(m)'[j]
      <4>1. i + 1 < j + 1
        BY <3>1
      <4>2. Queue(m)[i + 1] < Queue(m)[j + 1]
        BY <1>13, <4>1 DEF IInv, DeliveredOnce, Increasing
      <4> QED BY <1>13, <4>2
    <3> QED BY <3>1 DEF Increasing
  <2>2. \A i \in 1..Len(Queue(m)') : Queue(m)'[i] <= delivered'
    BY <1>1, <1>13 DEF IInv, DeliveredOnce
  <2>3. \A n \in Members : n # m => Disjoint(Queue(m), Queue(n))' /\ Disjoint(Queue(n), Queue(m))'
    BY <1>9, <1>13 DEF IInv, DeliveredOnce, Disjoint
  <2>4. \A n \in Members : n # m =>
          /\ Increasing(Queue(n))' /\ \A i \in 1..Len(Queue(n)') : Queue(n)'[i] <= delivered'
    BY <1>1, <1>9 DEF IInv, DeliveredOnce, Increasing
  <2>5. \A n, k \in Members : n # m /\ k # m /\ n # k => Disjoint(Queue(n), Queue(k))'
    BY <1>9 DEF IInv, DeliveredOnce, Disjoint
  <2> QED BY <2>1, <2>2, <2>3, <2>4, <2>5 DEF DeliveredOnce
<1>15. WaitingIsUnhandled'
  <2>1. HandledNone(Queue(m), FirstWaiting(m))'
    <3>1. ASSUME NEW i \in 1..Len(Queue(m)')
          PROVE  handled[Queue(m)'[i]] = 0
      <4>1. 2 <= i + 1 /\ i + 1 \in 1..Len(Queue(m)) /\ Queue(m)'[i] = Queue(m)[i + 1]
        BY <1>13
      <4>2. handled[Queue(m)[i + 1]] = 0
        BY <1>10, <4>1 DEF IInv, WaitingIsUnhandled, HandledNone
      <4> QED BY <4>1, <4>2
    <3> QED BY <1>1, <3>1 DEF HandledNone
  <2>2. \A n \in Members : n # m => HandledNone(Queue(n), FirstWaiting(n))'
    BY <1>1, <1>9 DEF IInv, WaitingIsUnhandled, HandledNone
  <2> QED BY <1>1, <2>1, <2>2 DEF IInv, WaitingIsUnhandled
<1>16. HandledAtMostOnce' /\ AckedIsProcessed'
  <2>1. HandledAtMostOnce'
    BY <1>1 DEF IInv, HandledAtMostOnce
  <2>2. acked \subseteq Positions /\ answered \subseteq Positions
    BY DEF IInv, TypeOK
  <2> QED BY <1>1, <1>11, <2>1, <2>2 DEF IInv, AckedIsProcessed
<1>17. OneXreadgroup'
  <2>1. ASSUME NEW i \in 1..Len(conn'[m]), conn'[m][i] = Xreadgroup
        PROVE  i \in 1..Len(conn[m]) /\ conn[m][i] = Xreadgroup
    <3>1. e # Xreadgroup
      BY <1>3, PositionsAreNumbers
    <3>2. i \in 1..(Len(conn[m]) + 1) /\ i # Len(conn[m]) + 1
      BY <1>6, <1>7, <2>1, <3>1
    <3>3. i \in 1..Len(conn[m])
      BY <1>6, <3>2
    <3> QED BY <1>6, <1>7, <2>1, <3>3
  <2>2. /\ \A i, j \in 1..Len(conn'[m]) :
              conn'[m][i] = Xreadgroup /\ conn'[m][j] = Xreadgroup => i = j
        /\ \A i \in 1..Len(conn'[m]) : conn'[m][i] = Xreadgroup => member'[m].batch = <<>>
    BY <1>4, <1>5, <2>1 DEF IInv, OneXreadgroup
  <2>3. ASSUME NEW n \in Members, n # m
        PROVE  /\ \A i, j \in 1..Len(conn'[n]) :
                    conn'[n][i] = Xreadgroup /\ conn'[n][j] = Xreadgroup => i = j
               /\ \A i \in 1..Len(conn'[n]) : conn'[n][i] = Xreadgroup => member'[n].batch = <<>>
    <3>1. conn'[n] = conn[n] /\ member'[n] = member[n]
      BY <1>5, <1>7, <2>3
    <3> QED BY <3>1 DEF IInv, OneXreadgroup
  <2> QED BY <2>2, <2>3 DEF OneXreadgroup
<1>18. DownIsEmpty'
  BY <1>4, <1>5, <1>7 DEF IInv, DownIsEmpty
<1>19. XackIsProcessed'
  <2>1. ASSUME NEW n \in Members, NEW i \in 1..Len(conn'[n]), conn'[n][i] # Xreadgroup
        PROVE  result'[conn'[n][i]] # "none"
    <3>1. CASE conn'[n][i] = e
      BY <1>11, <3>1
    <3>2. CASE conn'[n][i] # e
      <4>1. i \in 1..Len(conn[n]) /\ conn'[n][i] = conn[n][i]
        <5>1. CASE n # m
          BY <1>7, <5>1
        <5>2. CASE n = m
          <6>1. i \in 1..(Len(conn[m]) + 1) /\ i # Len(conn[m]) + 1
            BY <1>6, <1>7, <3>2, <5>2
          <6>2. i \in 1..Len(conn[m])
            BY <1>6, <6>1
          <6> QED BY <1>6, <1>7, <5>2, <6>2
        <5> QED BY <5>1, <5>2
      <4>2. result[conn[n][i]] # "none"
        BY <2>1, <4>1 DEF IInv, XackIsProcessed
      <4>3. conn[n][i] \in Positions
        <5>1. conn[n] \in Seq(S)
          BY <1>2
        <5>2. conn[n][i] \in S
          BY <4>1, <5>1
        <5> QED BY <2>1, <4>1, <5>2
      <4> QED BY <1>11, <4>1, <4>2, <4>3
    <3> QED BY <3>1, <3>2
  <2> QED BY <2>1 DEF XackIsProcessed
<1>20. HeldUnlessLost'
  <2>1. ASSUME NEW x \in Positions, NEW n \in Members, pending'[x] = n, x \notin orphaned' \cup lost'
        PROVE  x \in Local(n)' \/ Contains(conn'[n], x)
    <3>1. x \in Local(n) \/ Contains(conn[n], x)
      BY <1>1, <2>1 DEF IInv, HeldUnlessLost
    <3>2. CASE n # m
      BY <1>7, <1>9, <3>1, <3>2
    <3>3. CASE n = m
      <4>1. Contains(conn[m], x) => Contains(conn'[m], x)
        BY <1>6, <1>7 DEF Contains
      <4>2. Contains(conn'[m], e)
        <5>1. Len(conn[m]) + 1 \in 1..Len(conn'[m]) /\ conn'[m][Len(conn[m]) + 1] = e
          BY <1>6, <1>7
        <5> QED BY <5>1 DEF Contains
      <4>3. x \in ToSet(member[m].input) => x = e \/ x \in ToSet(Tail(member[m].input))
        BY <1>2, InTail DEF e
      <4>4. x \in Local(m) => x = e \/ x \in Local(m)'
        BY <1>4, <1>5, <4>3 DEF Local
      <4> QED BY <3>1, <3>3, <4>1, <4>2, <4>4
    <3> QED BY <3>2, <3>3
  <2> QED BY <2>1 DEF HeldUnlessLost
<1>21. ReplyHasEntries'
  BY <1>4, <1>5 DEF IInv, ReplyHasEntries
<1> QED BY <1>12, <1>14, <1>15, <1>16, <1>17, <1>18, <1>19, <1>20, <1>21 DEF IInv

(* What a process had is gone; what was pending for it stays pending. *)
LEMMA CrashKeeps ==
  ASSUME IInv, NEW m \in Members, Crash(m)
  PROVE  IInv'
<1> USE DEF history, server
<1>1. /\ crashes < MaxCrashes /\ crashes' = crashes + 1
      /\ member' = [member EXCEPT ![m] = Down] /\ conn' = [conn EXCEPT ![m] = <<>>]
      /\ orphaned' = orphaned \cup {e \in Positions : pending[e] = m}
      /\ UNCHANGED <<entries, delivered, pending, acked, handled, result, answered, lost, losses>>
  BY DEF Crash
<1>2. /\ member' \in [Members -> ConsumerGroupMember] /\ member'[m] = Down
      /\ conn' \in [Members -> Seq({Xreadgroup} \cup Positions)] /\ conn'[m] = <<>>
      /\ \A n \in Members : n # m => member'[n] = member[n] /\ conn'[n] = conn[n]
      /\ Down.stage = "down" /\ Down.input = <<>> /\ Down.batch = <<>> /\ ~Down.running
      /\ Down.arrived
  <2>1. /\ Down \in ConsumerGroupMember /\ Down.stage = "down" /\ ~Down.running /\ Down.arrived
        /\ Down.input = <<>> /\ Down.batch = <<>>
    BY StartedIsMember
  <2>2. <<>> \in Seq({Xreadgroup} \cup Positions)
    OBVIOUS
  <2> QED BY <1>1, <2>1, <2>2 DEF IInv, TypeOK
<1>3. TypeOK'
  <2>1. ASSUME NEW n \in Members, member'[n].stage \in {"handling", "refusing", "stuck"}
        PROVE  member'[n].input # <<>>
    BY <1>2, <2>1 DEF IInv, TypeOK
  <2>2. crashes' \in 0..MaxCrashes /\ orphaned' \subseteq Positions
    <3>1. crashes \in 0..MaxCrashes /\ MaxCrashes \in Nat
      BY PositionsAreNumbers DEF IInv, TypeOK
    <3>2. crashes' \in 0..MaxCrashes
      BY <1>1, <3>1
    <3>3. orphaned' \subseteq Positions
      BY <1>1 DEF IInv, TypeOK
    <3> QED BY <3>2, <3>3
  <2> QED BY <1>1, <1>2, <2>1, <2>2 DEF IInv, TypeOK
<1>4. Queue(m)' = <<>>
  BY <1>2 DEF Queue
<1>5. \A n \in Members : n # m => /\ Queue(n)' = Queue(n) /\ FirstWaiting(n)' = FirstWaiting(n)
                                /\ Local(n)' = Local(n)
  BY <1>2 DEF Queue, FirstWaiting, Local
<1>6. DeliveredOnce'
  BY <1>1, <1>4, <1>5 DEF IInv, DeliveredOnce, Increasing, Disjoint
<1>7. WaitingIsUnhandled' /\ HandledAtMostOnce'
  BY <1>1, <1>4, <1>5 DEF IInv, WaitingIsUnhandled, HandledAtMostOnce, HandledNone
<1>8. OneXreadgroup' /\ DownIsEmpty' /\ XackIsProcessed' /\ AckedIsProcessed'
  <2>1. OneXreadgroup'
    BY <1>2 DEF IInv, OneXreadgroup
  <2>2. DownIsEmpty'
    BY <1>2 DEF IInv, DownIsEmpty
  <2>3. XackIsProcessed'
    BY <1>1, <1>2 DEF IInv, XackIsProcessed
  <2> QED BY <1>1, <2>1, <2>2, <2>3 DEF IInv, AckedIsProcessed
<1>9. HeldUnlessLost'
  <2>1. ASSUME NEW e \in Positions, NEW n \in Members, pending'[e] = n, e \notin orphaned' \cup lost'
        PROVE  e \in Local(n)' \/ Contains(conn'[n], e)
    <3>1. n # m /\ pending[e] = n /\ e \notin orphaned \cup lost
      BY <1>1, <2>1
    <3> QED BY <1>2, <1>5, <3>1 DEF IInv, HeldUnlessLost
  <2> QED BY <2>1 DEF HeldUnlessLost
<1>10. ReplyHasEntries'
  BY <1>2 DEF IInv, ReplyHasEntries
<1> QED BY <1>3, <1>6, <1>7, <1>8, <1>9, <1>10 DEF IInv

(* The reply is gone with its connection, and the XREADGROUP comes first    *)
(* again.                                                                   *)
LEMMA ReplyLostKeeps ==
  ASSUME IInv, NEW m \in Members, ReplyLost(m)
  PROVE  IInv'
<1> USE DEF server
<1> DEFINE S == {Xreadgroup} \cup Positions
           g == [member[m] EXCEPT !.batch = <<>>, !.arrived = TRUE]
           c == conn[m]
<1>1. /\ ~member[m].arrived /\ losses < MaxLosses /\ losses' = losses + 1
      /\ conn' = [conn EXCEPT ![m] = <<Xreadgroup>> \o @]
      /\ member' = [member EXCEPT ![m] = g]
      /\ lost' = lost \cup ToSet(member[m].batch)
      /\ UNCHANGED <<entries, delivered, pending, acked, handled, result, answered, orphaned,
                     crashes>>
  BY DEF ReplyLost
<1>2. /\ TypeOK /\ member \in [Members -> ConsumerGroupMember]
      /\ conn \in [Members -> Seq(S)] /\ c \in Seq(S)
  BY DEF IInv, TypeOK
<1>3. /\ member[m] \in ConsumerGroupMember
      /\ member[m].input \in Seq(Positions) /\ member[m].batch \in Seq(Positions)
      /\ Queue(m) \in Seq(Positions)
  BY <1>2, OneMember
<1>4. /\ g \in ConsumerGroupMember /\ g.stage = member[m].stage /\ g.running = member[m].running
      /\ g.input = member[m].input /\ g.batch = <<>> /\ g.arrived
  <2>1. <<>> \in Seq(Positions)
    OBVIOUS
  <2> QED BY <1>3, <2>1 DEF ConsumerGroupMember
<1> HIDE DEF g
<1>5. /\ member'[m] = g /\ member' \in [Members -> ConsumerGroupMember]
      /\ \A n \in Members : n # m => member'[n] = member[n]
  BY <1>1, <1>2, <1>4
<1>6. member[m].batch # <<>> /\ member[m].stage # "down"
  BY <1>1 DEF IInv, ReplyHasEntries, DownIsEmpty
<1>7. /\ <<Xreadgroup>> \o c \in Seq(S) /\ Len(c) \in Nat
      /\ Len(<<Xreadgroup>> \o c) = Len(c) + 1
      /\ (<<Xreadgroup>> \o c)[1] = Xreadgroup
      /\ \A i \in 1..Len(c) : (<<Xreadgroup>> \o c)[1 + i] = c[i]
  BY <1>2, PrependTo
<1>8. /\ conn' \in [Members -> Seq(S)] /\ conn'[m] = <<Xreadgroup>> \o c
      /\ \A n \in Members : n # m => conn'[n] = conn[n]
  BY <1>1, <1>2, <1>7
<1>9. \A i \in 1..Len(conn'[m]) :
        \/ i = 1 /\ conn'[m][i] = Xreadgroup
        \/ i - 1 \in 1..Len(c) /\ conn'[m][i] = c[i - 1]
  <2>1. ASSUME NEW i \in 1..Len(conn'[m]), i # 1
        PROVE  i - 1 \in 1..Len(c) /\ conn'[m][i] = c[i - 1]
    <3>1. i - 1 \in 1..Len(c) /\ 1 + (i - 1) = i
      BY <1>7, <1>8, <2>1
    <3>2. (<<Xreadgroup>> \o c)[1 + (i - 1)] = c[i - 1]
      BY <1>7, <3>1
    <3> QED BY <1>8, <3>1, <3>2
  <2> QED BY <1>7, <1>8, <2>1
<1>10. \A i \in 1..Len(c) : c[i] # Xreadgroup
  BY <1>6 DEF IInv, OneXreadgroup
<1> HIDE DEF c
<1>11. TypeOK'
  <2>1. ASSUME NEW n \in Members, member'[n].stage \in {"handling", "refusing", "stuck"}
        PROVE  member'[n].input # <<>>
    BY <1>4, <1>5, <2>1 DEF IInv, TypeOK
  <2>2. losses' \in 0..MaxLosses
    <3>1. losses \in 0..MaxLosses /\ MaxLosses \in Nat
      BY <1>2, PositionsAreNumbers DEF TypeOK
    <3> QED BY <1>1, <3>1
  <2>3. lost' \subseteq Positions
    <3>1. ToSet(member[m].batch) \subseteq Positions
      BY <1>3 DEF ToSet
    <3> QED BY <1>1, <1>2, <3>1 DEF TypeOK
  <2> QED BY <1>1, <1>2, <1>5, <1>8, <2>1, <2>2, <2>3 DEF TypeOK
<1>12. /\ Queue(m)' = member[m].input /\ Len(Queue(m)') \in Nat /\ Len(Queue(m)) \in Nat
       /\ Len(Queue(m)') <= Len(Queue(m))
       /\ \A i \in 1..Len(Queue(m)') : i \in 1..Len(Queue(m)) /\ Queue(m)'[i] = Queue(m)[i]
  <2>1. Queue(m)' = member[m].input
    <3>1. member[m].input \o <<>> = member[m].input
      BY <1>3
    <3> QED BY <1>4, <1>5, <3>1 DEF Queue
  <2>2. /\ Len(Queue(m)) = Len(member[m].input) + Len(member[m].batch)
        /\ Len(member[m].input) \in Nat /\ Len(member[m].batch) \in Nat
    BY <1>2, OneMember
  <2>3. \A i \in 1..Len(member[m].input) : Queue(m)[i] = member[m].input[i]
    BY <1>3, ConcatOf, ZenonT(40) DEF Queue
  <2>4. ASSUME NEW x \in Nat, NEW y \in Nat, NEW z, z = x + y
        PROVE  x <= z /\ \A i \in 1..x : i \in 1..z
    BY <2>4
  <2>5. Len(Queue(m)) \in Nat
    <3>1. \A q \in Seq(Positions) : Len(q) \in Nat
      OBVIOUS
    <3> QED BY <1>3, <3>1
  <2>6. /\ Len(member[m].input) <= Len(Queue(m))
        /\ \A i \in 1..Len(member[m].input) : i \in 1..Len(Queue(m))
    <3> DEFINE p == Len(member[m].input)
               q == Len(member[m].batch)
               r == Len(Queue(m))
    <3>1. p \in Nat /\ q \in Nat /\ r = p + q
      BY <2>2
    <3> HIDE DEF p, q, r
    <3>2. p <= r /\ \A i \in 1..p : i \in 1..r
      BY <2>4, <3>1
    <3> QED BY <3>2 DEF p, r
  <2> QED BY <2>1, <2>2, <2>3, <2>5, <2>6
<1>13. \A n \in Members : n # m => Queue(n)' = Queue(n) /\ Local(n)' = Local(n)
  BY <1>5 DEF Queue, Local
<1>14. \A n \in Members : FirstWaiting(n)' = FirstWaiting(n)
  BY <1>4, <1>5 DEF FirstWaiting
<1>15. DeliveredOnce'
  <2>1. ASSUME NEW n \in Members
        PROVE  Increasing(Queue(n))' /\ \A i \in 1..Len(Queue(n)') : Queue(n)'[i] <= delivered'
    <3>1. CASE n = m
      <4>1. Increasing(Queue(m)) /\ \A i \in 1..Len(Queue(m)) : Queue(m)[i] <= delivered
        BY DEF IInv, DeliveredOnce
      <4>2. Increasing(Queue(m))'
        BY <1>12, <4>1 DEF Increasing
      <4>3. \A i \in 1..Len(Queue(m)') : Queue(m)'[i] <= delivered'
        BY <1>1, <1>12, <4>1
      <4> QED BY <3>1, <4>2, <4>3
    <3>2. CASE n # m
      BY <1>1, <1>13, <3>2 DEF IInv, DeliveredOnce, Increasing
    <3> QED BY <3>1, <3>2
  <2>2. ASSUME NEW n \in Members, NEW k \in Members, n # k
        PROVE  Disjoint(Queue(n), Queue(k))'
    <3>1. Disjoint(Queue(n), Queue(k))
      BY <2>2 DEF IInv, DeliveredOnce
    <3>2. CASE n = m
      <4>1. Queue(k)' = Queue(k)
        BY <1>13, <2>2, <3>2
      <4> QED BY <1>12, <3>1, <3>2, <4>1 DEF Disjoint
    <3>3. CASE k = m
      <4>1. Queue(n)' = Queue(n)
        BY <1>13, <2>2, <3>3
      <4> QED BY <1>12, <3>1, <3>3, <4>1 DEF Disjoint
    <3>4. CASE n # m /\ k # m
      BY <1>13, <3>1, <3>4 DEF Disjoint
    <3> QED BY <3>2, <3>3, <3>4
  <2> QED BY <2>1, <2>2 DEF DeliveredOnce
<1>16. WaitingIsUnhandled' /\ HandledAtMostOnce'
  <2>1. ASSUME NEW n \in Members PROVE HandledNone(Queue(n), FirstWaiting(n))'
    <3>1. HandledNone(Queue(n), FirstWaiting(n))
      BY DEF IInv, WaitingIsUnhandled
    <3>2. CASE n = m
      BY <1>1, <1>12, <1>14, <3>1, <3>2 DEF HandledNone
    <3>3. CASE n # m
      BY <1>1, <1>13, <1>14, <3>1, <3>3 DEF HandledNone
    <3> QED BY <3>2, <3>3
  <2> QED BY <1>1, <2>1 DEF IInv, WaitingIsUnhandled, HandledAtMostOnce
<1>17. OneXreadgroup' /\ ReplyHasEntries' /\ DownIsEmpty' /\ XackIsProcessed' /\ AckedIsProcessed'
  <2>1. OneXreadgroup'
    <3>1. ASSUME NEW n \in Members, n # m
          PROVE  /\ \A i, j \in 1..Len(conn'[n]) :
                      conn'[n][i] = Xreadgroup /\ conn'[n][j] = Xreadgroup => i = j
                 /\ \A i \in 1..Len(conn'[n]) :
                      conn'[n][i] = Xreadgroup => member'[n].batch = <<>>
      BY <1>5, <1>8, <3>1 DEF IInv, OneXreadgroup
    <3>2. \A i \in 1..Len(conn'[m]) : conn'[m][i] = Xreadgroup => i = 1
      BY <1>9, <1>10
    <3>3. member'[m].batch = <<>>
      BY <1>4, <1>5
    <3> QED BY <3>1, <3>2, <3>3 DEF OneXreadgroup
  <2>2. ReplyHasEntries' /\ DownIsEmpty'
    <3>1. ReplyHasEntries'
      BY <1>4, <1>5 DEF IInv, ReplyHasEntries
    <3>2. DownIsEmpty'
      <4>1. member'[m].stage # "down"
        BY <1>4, <1>5, <1>6
      <4> QED BY <1>5, <1>8, <4>1 DEF IInv, DownIsEmpty
    <3> QED BY <3>1, <3>2
  <2>3. XackIsProcessed'
    <3>1. ASSUME NEW n \in Members, n # m, NEW i \in 1..Len(conn'[n]), conn'[n][i] # Xreadgroup
          PROVE  result'[conn'[n][i]] # "none"
      BY <1>1, <1>8, <3>1 DEF IInv, XackIsProcessed
    <3>2. ASSUME NEW i \in 1..Len(conn'[m]), conn'[m][i] # Xreadgroup
          PROVE  result'[conn'[m][i]] # "none"
      BY <1>1, <1>9, <3>2 DEF IInv, XackIsProcessed, c
    <3> QED BY <3>1, <3>2 DEF XackIsProcessed
  <2>4. AckedIsProcessed'
    BY <1>1 DEF IInv, AckedIsProcessed
  <2> QED BY <2>1, <2>2, <2>3, <2>4
<1>18. HeldUnlessLost'
  <2>1. ASSUME NEW x \in Positions, NEW n \in Members, pending'[x] = n,
               x \notin orphaned' \cup lost'
        PROVE  x \in Local(n)' \/ Contains(conn'[n], x)
    <3>1. /\ x \in Local(n) \/ Contains(conn[n], x)
          /\ x \notin ToSet(member[m].batch)
      BY <1>1, <2>1 DEF IInv, HeldUnlessLost
    <3>2. CASE n # m
      BY <1>8, <1>13, <3>1, <3>2
    <3>3. CASE n = m
      <4>1. x \in Local(m) => x \in Local(m)'
        BY <1>4, <1>5, <3>1 DEF Local
      <4>2. Contains(conn[m], x) => Contains(conn'[m], x)
        <5>1. ASSUME NEW i \in 1..Len(c), c[i] = x
              PROVE  1 + i \in 1..Len(conn'[m]) /\ conn'[m][1 + i] = x
          BY <1>7, <1>8, <5>1
        <5> QED BY <5>1 DEF Contains, c
      <4> QED BY <3>1, <3>3, <4>1, <4>2
    <3> QED BY <3>2, <3>3
  <2> QED BY <2>1 DEF HeldUnlessLost
<1> QED BY <1>11, <1>15, <1>16, <1>17, <1>18 DEF IInv

(* What was never delivered to the group comes behind all that was. *)
LEMMA DeliverKeeps ==
  ASSUME IInv, NEW m \in Members, Deliver(m)
  PROVE  IInv'
<1> USE DEF history, server
<1> DEFINE new == [n \in 1..(entries - delivered) |-> delivered + n]
           g == [member[m] EXCEPT !.arrived = FALSE, !.batch = new]
<1>1. /\ conn[m] # <<>> /\ Head(conn[m]) = Xreadgroup /\ Executed(m)
      /\ delivered # Absent /\ delivered < entries /\ delivered' = entries
      /\ pending' = [e \in Positions |-> IF delivered < e /\ e <= entries THEN m ELSE pending[e]]
      /\ member' = [member EXCEPT ![m] = g]
      /\ UNCHANGED <<entries, acked, handled, result, answered, orphaned, lost, crashes, losses>>
  BY DEF Deliver, NextIs
<1>2. /\ delivered \in Nat /\ entries \in Nat /\ entries <= MaxEntries
      /\ entries - delivered \in Nat /\ MaxEntries \in Nat
  BY <1>1, PositionsAreNumbers DEF IInv, TypeOK
<1>3. /\ new \in Seq(Positions) /\ Len(new) = entries - delivered
      /\ \A i \in 1..Len(new) : new[i] = delivered + i /\ i \in Nat
  <2>1. \A i \in 1..(entries - delivered) : delivered + i \in Positions
    BY <1>2 DEF Positions
  <2> QED BY <1>2, <2>1
<1>4. \A x \in Positions : delivered < x /\ x <= entries => x \in ToSet(new)
  <2>1. ASSUME NEW x \in Positions, delivered < x, x <= entries
        PROVE  x \in ToSet(new)
    <3>1. x - delivered \in 1..Len(new) /\ delivered + (x - delivered) = x
      BY <1>2, <1>3, <2>1, PositionsAreNumbers
    <3>2. new[x - delivered] = x /\ DOMAIN new = 1..Len(new)
      BY <1>3, <3>1
    <3> QED BY <3>1, <3>2 DEF ToSet
  <2> QED BY <2>1
<1> HIDE DEF new
<1>5. /\ member \in [Members -> ConsumerGroupMember] /\ member[m] \in ConsumerGroupMember
      /\ member[m].input \in Seq(Positions) /\ member[m].batch = <<>> /\ Queue(m) = member[m].input
      /\ conn[m] \in Seq({Xreadgroup} \cup Positions)
      /\ conn \in [Members -> Seq({Xreadgroup} \cup Positions)]
  <2>1. TypeOK /\ member \in [Members -> ConsumerGroupMember]
        /\ conn \in [Members -> Seq({Xreadgroup} \cup Positions)]
    BY DEF IInv, TypeOK
  <2>2. member[m] \in ConsumerGroupMember /\ member[m].input \in Seq(Positions)
        /\ conn[m] \in Seq({Xreadgroup} \cup Positions)
    BY <2>1, OneMember
  <2>3. 1 \in 1..Len(conn[m]) /\ conn[m][1] = Xreadgroup
    BY <1>1, <2>2, TailOf
  <2>4. member[m].batch = <<>>
    BY <2>3 DEF IInv, OneXreadgroup
  <2>5. member[m].input \o <<>> = member[m].input
    BY <2>2
  <2> QED BY <2>1, <2>2, <2>4, <2>5 DEF Queue
<1>6. /\ g \in ConsumerGroupMember /\ g.stage = member[m].stage /\ g.input = member[m].input
      /\ g.batch = new /\ g.running = member[m].running
  BY <1>3, <1>5 DEF ConsumerGroupMember
<1> HIDE DEF g
<1>7. /\ member' \in [Members -> ConsumerGroupMember] /\ member'[m] = g
      /\ \A n \in Members : n # m => member'[n] = member[n] /\ conn'[n] = conn[n]
  BY <1>1, <1>5, <1>6 DEF Executed
<1>8. /\ conn' \in [Members -> Seq({Xreadgroup} \cup Positions)] /\ XackIsProcessed'
      /\ \A n \in Members : Shrinks(n)
      /\ \A i \in 1..Len(conn'[m]) : conn'[m][i] # Xreadgroup
      /\ \A x : Contains(conn[m], x) => x = Head(conn[m]) \/ Contains(conn'[m], x)
  BY <1>1, ExecutedKeeps
<1>9. /\ Queue(m)' = Queue(m) \o new /\ Queue(m) \in Seq(Positions)
      /\ Len(Queue(m)') = Len(Queue(m)) + Len(new) /\ Len(Queue(m)) \in Nat
      /\ \A i \in 1..Len(Queue(m)) : Queue(m)'[i] = Queue(m)[i]
      /\ \A i \in 1..Len(new) : Queue(m)'[Len(Queue(m)) + i] = new[i]
  <2>1. Queue(m)' = Queue(m) \o new
    BY <1>5, <1>6, <1>7 DEF Queue
  <2>2. Queue(m) \in Seq(Positions) /\ new \in Seq(Positions)
    BY <1>3, <1>5
  <2>3. /\ Len(Queue(m) \o new) = Len(Queue(m)) + Len(new) /\ Len(Queue(m)) \in Nat
        /\ \A i \in 1..Len(Queue(m)) : (Queue(m) \o new)[i] = Queue(m)[i]
        /\ \A i \in 1..Len(new) : (Queue(m) \o new)[Len(Queue(m)) + i] = new[i]
    BY <2>2, ConcatOf
  <2> QED BY <2>1, <2>2, <2>3
<1>10. \A n \in Members : FirstWaiting(n)' = FirstWaiting(n)
  BY <1>6, <1>7 DEF FirstWaiting
<1>11. \A n \in Members : n # m => Queue(n)' = Queue(n) /\ Local(n)' = Local(n)
  BY <1>7 DEF Queue, Local
(* What was in the queue is up to delivered, what is new is behind.         *)
<1>12. ASSUME NEW i \in 1..Len(Queue(m)')
       PROVE  \/ /\ i \in 1..Len(Queue(m)) /\ Queue(m)'[i] = Queue(m)[i]
                 /\ Queue(m)[i] <= delivered /\ Queue(m)[i] \in Positions
              \/ /\ i > Len(Queue(m)) /\ Queue(m)'[i] = delivered + (i - Len(Queue(m)))
                 /\ Queue(m)'[i] \in Positions /\ delivered < Queue(m)'[i]
                 /\ Queue(m)'[i] <= entries
  <2>1. CASE i <= Len(Queue(m))
    <3>1. i \in 1..Len(Queue(m))
      BY <1>9, <2>1
    <3>2. Queue(m)[i] \in Positions
      BY <1>9, <3>1
    <3> QED BY <1>9, <3>1, <3>2 DEF IInv, DeliveredOnce
  <2>2. CASE i > Len(Queue(m))
    <3> DEFINE k == i - Len(Queue(m))
    <3>1. k \in 1..Len(new) /\ Len(Queue(m)) + k = i
      BY <1>3, <1>9, <2>2
    <3>2. Queue(m)'[i] = new[k] /\ new[k] = delivered + k
      BY <1>3, <1>9, <3>1
    <3>3. delivered + k \in Positions /\ delivered < delivered + k /\ delivered + k <= entries
      <4>1. k \in Nat \ {0} /\ k <= entries - delivered
        BY <1>2, <1>3, <3>1
      <4> HIDE DEF k
      <4> QED BY <1>2, <4>1 DEF Positions
    <3> QED BY <2>2, <3>2, <3>3
  <2> QED BY <1>9, <2>1, <2>2
<1>13. TypeOK'
  <2>1. ASSUME NEW n \in Members, member'[n].stage \in {"handling", "refusing", "stuck"}
        PROVE  member'[n].input # <<>>
    BY <1>6, <1>7, <2>1 DEF IInv, TypeOK
  <2>2. pending' \in [Positions -> Members \cup {None}] /\ delivered' \in {Absent} \cup 0..entries'
    BY <1>1, <1>2 DEF IInv, TypeOK
  <2>3. TypeOK
    BY DEF IInv
  <2> QED BY <1>1, <1>7, <1>8, <2>1, <2>2, <2>3 DEF TypeOK
<1>14. DeliveredOnce'
  <2>1. ASSUME NEW i \in 1..Len(Queue(m)'), NEW j \in 1..Len(Queue(m)'), i < j
        PROVE  Queue(m)'[i] < Queue(m)'[j]
    <3> DEFINE q == Len(Queue(m))
    <3>0. q \in Nat /\ i \in Int /\ j \in Int
      BY <1>9
    <3>1. CASE j <= q
      <4>1. i \in 1..q /\ j \in 1..q
        BY <2>1, <3>0, <3>1
      <4>2. Queue(m)[i] < Queue(m)[j]
        BY <2>1, <4>1 DEF IInv, DeliveredOnce, Increasing
      <4> QED BY <1>9, <4>1, <4>2
    <3>2. CASE i <= q /\ j > q
      <4>1. Queue(m)'[i] <= delivered /\ delivered < Queue(m)'[j]
            /\ Queue(m)'[i] \in Positions /\ Queue(m)'[j] \in Positions
        BY <1>12, <3>0, <3>2
      <4> DEFINE x == Queue(m)'[i]
                 y == Queue(m)'[j]
      <4>2. x \in Nat /\ y \in Nat /\ x <= delivered /\ delivered < y
        BY <4>1, PositionsAreNumbers
      <4> HIDE DEF x, y
      <4>3. x < y
        BY <1>2, <4>2
      <4> QED BY <4>3 DEF x, y
    <3>3. CASE i > q
      <4>1. Queue(m)'[i] = delivered + (i - q) /\ Queue(m)'[j] = delivered + (j - q)
        BY <1>12, <2>1, <3>0, <3>3
      <4> HIDE DEF q
      <4> QED BY <1>2, <2>1, <3>0, <4>1
    <3> QED BY <2>1, <3>0, <3>1, <3>2, <3>3
  <2>2. ASSUME NEW i \in 1..Len(Queue(m)')
        PROVE  Queue(m)'[i] <= entries
    <3> DEFINE x == Queue(m)'[i]
    <3>1. x \in Positions /\ (x <= delivered \/ x <= entries)
      BY <1>12
    <3>2. x \in Nat
      BY <3>1, PositionsAreNumbers
    <3> HIDE DEF x
    <3>3. x <= entries
      BY <1>1, <1>2, <3>1, <3>2
    <3> QED BY <3>3 DEF x
  <2>3. ASSUME NEW n \in Members, n # m, NEW j \in 1..Len(Queue(n))
        PROVE  Queue(n)[j] <= delivered /\ Queue(n)[j] \in Positions
    <3>1. Queue(n) \in Seq(Positions)
      BY OneMember DEF IInv
    <3> QED BY <3>1 DEF IInv, DeliveredOnce
  <2>4. ASSUME NEW n \in Members, n # m
        PROVE  Disjoint(Queue(m), Queue(n))' /\ Disjoint(Queue(n), Queue(m))'
    <3>1. ASSUME NEW i \in 1..Len(Queue(m)'), NEW j \in 1..Len(Queue(n))
          PROVE  Queue(m)'[i] # Queue(n)[j]
      <4>1. Queue(n)[j] <= delivered /\ Queue(n)[j] \in Nat /\ delivered \in Nat
        BY <1>2, <2>3, <2>4, PositionsAreNumbers
      <4>2. CASE i \in 1..Len(Queue(m)) /\ Queue(m)'[i] = Queue(m)[i]
        BY <2>4, <4>2 DEF IInv, DeliveredOnce, Disjoint
      <4>3. CASE Queue(m)'[i] \in Positions /\ delivered < Queue(m)'[i]
        <5>1. Queue(m)'[i] \in Nat
          BY <4>3, PositionsAreNumbers
        <5> QED BY <4>1, <4>3, <5>1
      <4> QED BY <1>12, <4>2, <4>3
    <3> QED BY <1>11, <2>4, <3>1 DEF Disjoint
  <2>5. ASSUME NEW n \in Members, n # m
        PROVE  Increasing(Queue(n))' /\ \A j \in 1..Len(Queue(n)') : Queue(n)'[j] <= delivered'
    <3>1. \A j \in 1..Len(Queue(n)) : Queue(n)[j] <= entries
      <4>1. ASSUME NEW j \in 1..Len(Queue(n)) PROVE Queue(n)[j] <= entries
        <5>1. Queue(n)[j] <= delivered /\ Queue(n)[j] \in Nat
          BY <2>3, <2>5, PositionsAreNumbers
        <5> QED BY <1>1, <1>2, <5>1
      <4> QED BY <4>1
    <3> QED BY <1>1, <1>11, <2>5, <3>1 DEF IInv, DeliveredOnce, Increasing
  <2>6. \A n, k \in Members : n # m /\ k # m /\ n # k => Disjoint(Queue(n), Queue(k))'
    BY <1>11 DEF IInv, DeliveredOnce, Disjoint
  <2>7. Increasing(Queue(m))' /\ \A i \in 1..Len(Queue(m)') : Queue(m)'[i] <= delivered'
    BY <1>1, <2>1, <2>2 DEF Increasing
  <2> QED BY <2>4, <2>5, <2>6, <2>7 DEF DeliveredOnce
<1>15. WaitingIsUnhandled'
  <2>1. ASSUME NEW i \in 1..Len(Queue(m)'), FirstWaiting(m) <= i
        PROVE  handled[Queue(m)'[i]] = 0
    <3>1. CASE i \in 1..Len(Queue(m)) /\ Queue(m)'[i] = Queue(m)[i]
      BY <2>1, <3>1 DEF IInv, WaitingIsUnhandled, HandledNone
    <3>2. CASE Queue(m)'[i] \in Positions /\ delivered < Queue(m)'[i]
      BY <3>2 DEF IInv, WaitingIsUnhandled
    <3> QED BY <1>12, <3>1, <3>2
  <2>2. HandledNone(Queue(m), FirstWaiting(m))'
    BY <1>1, <1>10, <2>1 DEF HandledNone
  <2>3. \A n \in Members : n # m => HandledNone(Queue(n), FirstWaiting(n))'
    BY <1>1, <1>10, <1>11 DEF IInv, WaitingIsUnhandled, HandledNone
  <2>4. ASSUME NEW x \in Positions, entries < x PROVE handled[x] = 0
    <3>1. delivered < x
      BY <1>1, <1>2, <2>4, PositionsAreNumbers
    <3> QED BY <3>1 DEF IInv, WaitingIsUnhandled
  <2> QED BY <1>1, <2>2, <2>3, <2>4 DEF IInv, WaitingIsUnhandled
<1>16. HandledAtMostOnce' /\ AckedIsProcessed'
  BY <1>1 DEF IInv, HandledAtMostOnce, AckedIsProcessed
<1>17. OneXreadgroup'
  <2>1. ASSUME NEW n \in Members, n # m, NEW i \in 1..Len(conn'[n]), conn'[n][i] = Xreadgroup
        PROVE  member'[n].batch = <<>>
    BY <1>7, <2>1 DEF IInv, OneXreadgroup
  <2> QED BY <1>8, <2>1 DEF OneXreadgroup, Shrinks
<1>18. DownIsEmpty'
  <2>1. g.stage # "down"
    BY <1>1, <1>6 DEF IInv, DownIsEmpty
  <2> QED BY <1>7, <2>1 DEF IInv, DownIsEmpty
<1>19. HeldUnlessLost'
  <2>1. ASSUME NEW x \in Positions, NEW n \in Members, pending'[x] = n, x \notin orphaned \cup lost
        PROVE  x \in Local(n)' \/ Contains(conn'[n], x)
    <3>1. CASE delivered < x /\ x <= entries
      <4>1. n = m
        BY <1>1, <2>1, <3>1
      <4>2. x \in ToSet(new)
        BY <1>4, <3>1
      <4> QED BY <1>6, <1>7, <4>1, <4>2 DEF Local
    <3>2. CASE ~(delivered < x /\ x <= entries)
      <4>1. pending[x] = n
        BY <1>1, <2>1, <3>2
      <4>2. x \in Local(n) \/ Contains(conn[n], x)
        BY <2>1, <4>1 DEF IInv, HeldUnlessLost
      <4>3. x # Xreadgroup
        BY PositionsAreNumbers
      <4>4. CASE n = m
        <5>1. x \in Local(m) => x \in Local(m)'
          <6>1. ToSet(<<>>) = {}
            BY DEF ToSet
          <6> QED BY <1>5, <1>6, <1>7, <6>1 DEF Local
        <5> QED BY <1>1, <1>8, <4>2, <4>3, <4>4, <5>1
      <4>5. CASE n # m
        BY <1>7, <1>11, <4>2, <4>5
      <4> QED BY <4>4, <4>5
    <3> QED BY <3>1, <3>2
  <2> QED BY <1>1, <2>1 DEF HeldUnlessLost
<1>20. ReplyHasEntries'
  <2>1. new # <<>>
    <3>1. Len(new) # 0
      BY <1>1, <1>2, <1>3
    <3> QED BY <3>1
  <2> QED BY <1>6, <1>7, <2>1 DEF IInv, ReplyHasEntries
<1> QED BY <1>8, <1>13, <1>14, <1>15, <1>16, <1>17, <1>18, <1>19, <1>20 DEF IInv

-----------------------------------------------------------------------------
LEMMA NextIInv == IInv /\ [Next]_vars => IInv'
<1> SUFFICES ASSUME IInv, [Next]_vars PROVE IInv'
  OBVIOUS
<1>1. CASE Xadd
  BY <1>1, XaddKeeps
<1>2. CASE \E cursor \in {0, entries} : Create(cursor)
  BY <1>2, CreateKeeps
<1>3. ASSUME NEW m \in Members, \E configured \in Configs : ConnectAndListen(m, configured)
      PROVE  IInv'
  BY <1>3, ConnectKeeps
<1>4. ASSUME NEW m \in Members, Run(m)
      PROVE  IInv'
  <2>1. CASE ReadAsGroup(m)
    BY <2>1, ReadAsGroupKeeps
  <2>2. CASE Yield(m)
    BY <2>2, YieldKeeps
  <2>3. CASE \E known \in BOOLEAN : Process(m, known)
    BY <2>3, ProcessKeeps
  <2>4. CASE \E outcome \in Outcomes \cup {"error"} : MarkProcessed(m, outcome)
    BY <2>4, MarkProcessedKeeps
  <2>5. CASE HandlerThrows(m)
    BY <2>5, HandlerThrowsKeeps
  <2>6. CASE Respond(m)
    BY <2>6, RespondKeeps
  <2>7. CASE Receive(m)
    BY <2>7, ReceiveKeeps
  <2> QED BY <1>4, <2>1, <2>2, <2>3, <2>4, <2>5, <2>6, <2>7 DEF Run
<1>5. ASSUME NEW m \in Members, Serve(m)
      PROVE  IInv'
  <2>1. CASE Deliver(m)
    BY <2>1, DeliverKeeps
  <2>2. CASE XreadgroupTimesOut(m)
    BY <2>2, TimesOutKeeps
  <2>3. CASE XreadgroupFails(m)
    BY <2>3, FailsKeeps
  <2>4. CASE \E e \in Positions : Xack(m, e)
    BY <2>4, XackKeeps
  <2> QED BY <1>5, <2>1, <2>2, <2>3, <2>4 DEF Serve
<1>6. ASSUME NEW m \in Members, Crash(m)
      PROVE  IInv'
  BY <1>6, CrashKeeps
<1>7. CASE UNCHANGED vars
  <2>1. \A m \in Members : /\ Queue(m)' = Queue(m) /\ FirstWaiting(m)' = FirstWaiting(m)
                            /\ Local(m)' = Local(m)
    BY <1>7 DEF vars, Queue, FirstWaiting, Local
  <2>2. DeliveredOnce' /\ WaitingIsUnhandled' /\ HandledAtMostOnce'
    BY <1>7, <2>1 DEF vars, IInv, DeliveredOnce, WaitingIsUnhandled, HandledAtMostOnce, Increasing,
                      Disjoint, HandledNone
  <2>3. TypeOK' /\ OneXreadgroup' /\ ReplyHasEntries' /\ DownIsEmpty'
    BY <1>7 DEF vars, IInv, TypeOK, OneXreadgroup, ReplyHasEntries, DownIsEmpty
  <2>4. XackIsProcessed' /\ AckedIsProcessed' /\ HeldUnlessLost'
    BY <1>7, <2>1 DEF vars, IInv, XackIsProcessed, AckedIsProcessed, HeldUnlessLost
  <2> QED BY <2>2, <2>3, <2>4 DEF IInv
<1>8. ASSUME NEW m \in Members, ReplyLost(m)
      PROVE  IInv'
  BY <1>8, ReplyLostKeeps
<1> QED BY <1>1, <1>2, <1>3, <1>4, <1>5, <1>6, <1>7, <1>8 DEF Next

(* The facts below hold together, with what they rest on: a member never    *)
(* has two XREADGROUPs under way, and its queue is what was delivered to    *)
(* it, in order, once.                                                      *)
THEOREM SpecIInv == SafetySpec => []IInv
<1> QED BY InitIInv, NextIInv, PTL DEF SafetySpec

(* Everything the members and the server keep has the shape the code gives. *)
THEOREM GroupTypeOK == SafetySpec => []TypeOK
<1>1. IInv => TypeOK
  BY DEF IInv
<1> QED BY <1>1, SpecIInv, PTL

(* No handler is called twice for an entry, whatever members read, crash    *)
(* and start again.                                                         *)
THEOREM GroupHandlesOnce == SafetySpec => []HandledAtMostOnce
<1>1. IInv => HandledAtMostOnce
  BY DEF IInv
<1> QED BY <1>1, SpecIInv, PTL

(* Nothing leaves the pending list, and no response is written, before the  *)
(* handling of the entry has come to a result.                              *)
THEOREM GroupAcksWhatIsProcessed == SafetySpec => []AckedIsProcessed
<1>1. IInv => AckedIsProcessed
  BY DEF IInv
<1> QED BY <1>1, SpecIInv, PTL

-----------------------------------------------------------------------------
(* What the server has on record agrees with what the members have. *)

NothingBeyondDelivered ==
  \A e \in Positions :
    delivered < e =>
      pending[e] = None /\ result[e] = "none" /\ e \notin acked /\ e \notin orphaned \cup lost

(* An entry with a result is pending until it is acknowledged, and no       *)
(* longer.                                                                  *)
PendingUntilAcked ==
  /\ \A e \in acked : pending[e] = None
  /\ \A e \in Positions : result[e] # "none" => pending[e] # None \/ e \in acked

LocalIsPending ==
  \A m \in Members : \A e \in Local(m) :
    e \in Positions /\ pending[e] = m /\ result[e] = "none" /\ e \notin orphaned \cup lost

(* What was lost with a reply stays on the list, and nothing comes of it.   *)
LostStaysPending ==
  \A e \in lost : e \in Positions /\ pending[e] # None /\ result[e] = "none"

Recorded == NothingBeyondDelivered /\ PendingUntilAcked /\ LocalIsPending /\ LostStaysPending

WInv == IInv /\ Recorded

-----------------------------------------------------------------------------
(* The order and the holder of what is open. *)

LEMMA LocalIsQueue ==
  ASSUME TypeOK, NEW m \in Members
  PROVE  Local(m) = ToSet(Queue(m))
BY OneMember, InEither DEF Local, Queue

LEMMA QueuePlaces ==
  ASSUME TypeOK, NEW m \in Members, NEW x \in Local(m)
  PROVE  \E i \in 1..Len(Queue(m)) : Queue(m)[i] = x
BY LocalIsQueue, OneMember DEF ToSet

LEMMA HeadOfQueue ==
  ASSUME TypeOK, NEW m \in Members, member[m].input # <<>>
  PROVE  /\ Head(member[m].input) = Queue(m)[1] /\ Head(member[m].input) \in Positions
         /\ 1 \in 1..Len(Queue(m)) /\ Len(Queue(m)) \in Nat
         /\ Queue(m) \in Seq(Positions)
<1> DEFINE s == member[m].input
           t == member[m].batch
<1>1. s \in Seq(Positions) /\ t \in Seq(Positions) /\ s # <<>>
  BY OneMember
<1> HIDE DEF s, t
<1>2. Head(s) \in Positions /\ Head(s) = s[1] /\ Len(s) \in Nat \ {0}
  BY <1>1, TailOf
<1>3. /\ s \o t \in Seq(Positions) /\ Len(s \o t) = Len(s) + Len(t) /\ Len(t) \in Nat
      /\ \A i \in 1..Len(s) : (s \o t)[i] = s[i]
  BY <1>1, ConcatOf
<1>4. Head(s) = (s \o t)[1] /\ 1 \in 1..Len(s \o t) /\ Len(s \o t) \in Nat
  BY <1>2, <1>3
<1> QED BY <1>2, <1>3, <1>4 DEF Queue, s, t

(* The first message in the Transform is the least of what its member has,  *)
(* and no other member has it.                                              *)
LEMMA HeadIsFirst ==
  ASSUME IInv, NEW m \in Members, member[m].input # <<>>
  PROVE  /\ Head(member[m].input) \in Positions /\ Head(member[m].input) \in Local(m)
         /\ \A x \in Local(m) : Head(member[m].input) <= x
         /\ \A n \in Members : n # m => Head(member[m].input) \notin Local(n)
<1> DEFINE e == Head(member[m].input)
<1>0. TypeOK
  BY DEF IInv
<1>1. /\ e = Queue(m)[1] /\ e \in Positions /\ 1 \in 1..Len(Queue(m))
      /\ Len(Queue(m)) \in Nat /\ Queue(m) \in Seq(Positions)
  BY <1>0, HeadOfQueue
<1> HIDE DEF e
<1>4. e \in Local(m)
  BY <1>0, <1>1, LocalIsQueue DEF ToSet
<1>5. ASSUME NEW x \in Local(m) PROVE e <= x
  <2>1. PICK i \in 1..Len(Queue(m)) : Queue(m)[i] = x
    BY <1>0, QueuePlaces
  <2>2. x \in Positions
    BY <1>1, <2>1
  <2>3. CASE i = 1
    <3>1. e = x /\ e \in Nat
      BY <1>1, <2>1, <2>3, PositionsAreNumbers
    <3> QED BY <3>1
  <2>4. CASE i # 1
    <3>1. 1 < i
      BY <1>1, <2>4
    <3>2. Queue(m)[1] < Queue(m)[i]
      BY <1>1, <3>1 DEF IInv, DeliveredOnce, Increasing
    <3>3. e \in Nat /\ x \in Nat /\ e < x
      BY <1>1, <2>1, <2>2, <3>2, PositionsAreNumbers
    <3> QED BY <3>3
  <2> QED BY <2>3, <2>4
<1>6. ASSUME NEW n \in Members, n # m, e \in Local(n) PROVE FALSE
  <2>1. PICK i \in 1..Len(Queue(n)) : Queue(n)[i] = e
    BY <1>0, <1>6, QueuePlaces
  <2> QED BY <1>1, <1>6, <2>1 DEF IInv, DeliveredOnce, Disjoint
<1> QED BY <1>1, <1>4, <1>5, <1>6 DEF e

LEMMA OpenIsLocal ==
  ASSUME WInv, NEW m \in Members, NEW e \in Positions,
         pending[e] = m, result[e] = "none", e \notin orphaned \cup lost
  PROVE  e \in Local(m)
<1>1. e \in Local(m) \/ Contains(conn[m], e)
  BY DEF WInv, IInv, HeldUnlessLost
<1>2. ~Contains(conn[m], e)
  BY PositionsAreNumbers DEF WInv, IInv, XackIsProcessed, Contains
<1> QED BY <1>1, <1>2

(* What a member's next step is about is first in the abstract queue. *)
LEMMA HeadIsOpen ==
  ASSUME WInv, NEW m \in Members, member[m].input # <<>>
  PROVE  LET e == Head(member[m].input)
         IN /\ e \in Positions /\ e \in Local(m) /\ pending[e] = m /\ result[e] = "none"
            /\ e \notin orphaned \cup lost /\ e \notin acked /\ m # None
            /\ WQ!Open(e) /\ WQ!IsFirst(e)
<1> DEFINE e == Head(member[m].input)
<1>1. /\ e \in Positions /\ e \in Local(m)
      /\ \A x \in Local(m) : e <= x
  BY HeadIsFirst DEF WInv
<1> HIDE DEF e
<1>2. pending[e] = m /\ result[e] = "none" /\ e \notin orphaned \cup lost /\ m # None
  BY <1>1, MembersAssumption DEF WInv, Recorded, LocalIsPending
<1>3. e \notin acked
  BY <1>1, <1>2 DEF WInv, Recorded, PendingUntilAcked
<1>4. WQ!Open(e)
  BY <1>1, <1>2, <1>3 DEF WQ!Open, status
<1>5. WQ!IsFirst(e)
  <2>1. ASSUME NEW j \in Positions, WQ!Open(j), pending[j] = pending[e]
        PROVE  e <= j
    <3>1. result[j] = "none" /\ j \notin orphaned \cup lost
      BY <2>1 DEF WQ!Open, status
    <3>2. j \in Local(m)
      BY <1>2, <2>1, <3>1, OpenIsLocal
    <3> QED BY <1>1, <3>2
  <2> QED BY <2>1 DEF WQ!IsFirst
<1> QED BY <1>1, <1>2, <1>3, <1>4, <1>5 DEF e

-----------------------------------------------------------------------------
(* Steps that the abstract queue does not see, or sees only as a start. *)

(* The record stands while members come to have no more than they had. *)
LEMMA RecordStands ==
  ASSUME WInv, UNCHANGED <<pending, acked, result, orphaned, lost>>,
         \A e \in Positions : delivered' < e => delivered < e,
         \A m \in Members : Local(m)' \subseteq Local(m)
  PROVE  Recorded'
<1>1. NothingBeyondDelivered' /\ PendingUntilAcked'
  BY DEF WInv, Recorded, NothingBeyondDelivered, PendingUntilAcked
<1>2. LocalIsPending' /\ LostStaysPending'
  BY DEF WInv, Recorded, LocalIsPending, LostStaysPending
<1> QED BY <1>1, <1>2 DEF Recorded

LEMMA StatusStands ==
  ASSUME UNCHANGED <<pending, acked, result, orphaned, lost, handled>>
  PROVE  UNCHANGED <<status, pending>>
BY DEF status

(* One member's step leaves what the others have. *)
LEMMA OthersKeep ==
  ASSUME TypeOK, NEW m \in Members, NEW g, member' = [member EXCEPT ![m] = g],
         ToSet(g.batch) \cup ToSet(g.input) \subseteq Local(m)
  PROVE  \A n \in Members : Local(n)' \subseteq Local(n)
<1>1. member'[m] = g /\ \A n \in Members : n # m => member'[n] = member[n]
  BY DEF TypeOK
<1> QED BY <1>1 DEF Local

LEMMA HidesXadd ==
  ASSUME WInv, Xadd \/ \E cursor \in {0, entries} : Create(cursor)
  PROVE  Recorded' /\ UNCHANGED <<status, pending>>
<1> USE DEF history
<1>1. UNCHANGED <<pending, acked, member, handled, result, orphaned, lost>>
  BY DEF Xadd, Create
<1>2. \A e \in Positions : delivered' < e => delivered < e
  <2>1. CASE delivered' = delivered
    BY <2>1
  <2>2. CASE delivered = Absent
    BY <2>2, PositionsAreNumbers
  <2> QED BY <2>1, <2>2 DEF Xadd, Create, createConsumerGroup
<1>3. \A m \in Members : Local(m)' \subseteq Local(m)
  BY <1>1 DEF Local
<1> QED BY <1>1, <1>2, <1>3, RecordStands, StatusStands

LEMMA HidesConnect ==
  ASSUME WInv, NEW m \in Members, NEW configured \in Configs, ConnectAndListen(m, configured)
  PROVE  Recorded' /\ UNCHANGED <<status, pending>>
<1> USE DEF history, server
<1>1. /\ member' = [member EXCEPT ![m] = Started(configured)]
      /\ UNCHANGED <<delivered, pending, acked, handled, result, orphaned, lost>>
  BY DEF ConnectAndListen
<1>2. Started(configured).batch = <<>> /\ Started(configured).input = <<>> /\ ToSet(<<>>) = {}
  BY DEF Started, ToSet
<1>3. \A n \in Members : Local(n)' \subseteq Local(n)
  <2>1. ToSet(Started(configured).batch) \cup ToSet(Started(configured).input) \subseteq Local(m)
    BY <1>2
  <2>2. TypeOK
    BY DEF WInv, IInv
  <2> QED BY <1>1, <2>1, <2>2, OthersKeep
<1> QED BY <1>1, <1>3, RecordStands, StatusStands

LEMMA HidesMemberStep ==
  ASSUME WInv, NEW m \in Members,
         ReadAsGroup(m) \/ Receive(m) \/ HandlerThrows(m) \/ Respond(m)
           \/ XreadgroupTimesOut(m) \/ XreadgroupFails(m)
  PROVE  Recorded' /\ UNCHANGED <<status, pending>>
<1> USE DEF history, server
<1>1. /\ UNCHANGED <<delivered, pending, acked, handled, result, orphaned, lost>>
      /\ \/ member' = member
         \/ member' = [member EXCEPT ![m] = [member[m] EXCEPT !.arrived = TRUE]]
         \/ member' = [member EXCEPT ![m] = [member[m] EXCEPT !.stage = "stuck"]]
         \/ member' = [member EXCEPT ![m] = [member[m] EXCEPT !.outbox = Tail(@)]]
         \/ member' = [member EXCEPT ![m] = [member[m] EXCEPT !.running = FALSE]]
  BY DEF ReadAsGroup, Receive, HandlerThrows, Respond, XreadgroupTimesOut, XreadgroupFails
<1>2. TypeOK /\ member[m] \in ConsumerGroupMember
  BY OneMember DEF WInv, IInv
<1>3. \A n \in Members : Local(n)' \subseteq Local(n)
  <2>1. CASE member' = member
    BY <2>1 DEF Local
  <2>2. ASSUME NEW g, member' = [member EXCEPT ![m] = g],
               g.batch = member[m].batch, g.input = member[m].input
        PROVE  \A n \in Members : Local(n)' \subseteq Local(n)
    BY <1>2, <2>2, OthersKeep DEF Local
  <2>3. /\ [member[m] EXCEPT !.arrived = TRUE].batch = member[m].batch
        /\ [member[m] EXCEPT !.arrived = TRUE].input = member[m].input
        /\ [member[m] EXCEPT !.stage = "stuck"].batch = member[m].batch
        /\ [member[m] EXCEPT !.stage = "stuck"].input = member[m].input
        /\ [member[m] EXCEPT !.outbox = Tail(@)].batch = member[m].batch
        /\ [member[m] EXCEPT !.outbox = Tail(@)].input = member[m].input
        /\ [member[m] EXCEPT !.running = FALSE].batch = member[m].batch
        /\ [member[m] EXCEPT !.running = FALSE].input = member[m].input
    BY <1>2 DEF ConsumerGroupMember
  <2> QED BY <1>1, <2>1, <2>2, <2>3
<1> QED BY <1>1, <1>3, RecordStands, StatusStands

LEMMA HidesYield ==
  ASSUME WInv, NEW m \in Members, Yield(m)
  PROVE  Recorded' /\ UNCHANGED <<status, pending>>
<1> USE DEF history, server
<1> DEFINE g == [member[m] EXCEPT !.input = Append(@, Head(member[m].batch)), !.batch = Tail(@)]
<1>1. /\ member[m].batch # <<>> /\ member' = [member EXCEPT ![m] = g]
      /\ UNCHANGED <<delivered, pending, acked, handled, result, orphaned, lost>>
  BY DEF Yield
<1>2. /\ TypeOK /\ member[m] \in ConsumerGroupMember
      /\ member[m].input \in Seq(Positions) /\ member[m].batch \in Seq(Positions)
  BY OneMember DEF WInv, IInv
<1>3. /\ g.input = Append(member[m].input, Head(member[m].batch))
      /\ g.batch = Tail(member[m].batch)
  BY <1>2 DEF ConsumerGroupMember
<1> HIDE DEF g
<1>4. /\ g.input \in Seq(Positions) /\ g.batch \in Seq(Positions)
      /\ g.input \o g.batch = Queue(m)
  <2>1. Head(member[m].batch) \in Positions /\ Tail(member[m].batch) \in Seq(Positions)
    BY <1>1, <1>2, TailOf
  <2>2. Append(member[m].input, Head(member[m].batch)) \in Seq(Positions)
    BY <1>2, <2>1, AppendTo
  <2> QED BY <1>1, <1>2, <1>3, <2>1, <2>2, HandOn DEF Queue
<1>5. ToSet(g.batch) \cup ToSet(g.input) = Local(m)
  <2>1. ToSet(g.batch) \cup ToSet(g.input) = ToSet(g.input \o g.batch)
    BY <1>4, InEither
  <2> QED BY <1>2, <1>4, <2>1, LocalIsQueue
<1>6. \A n \in Members : Local(n)' \subseteq Local(n)
  BY <1>1, <1>2, <1>5, OthersKeep
<1> QED BY <1>1, <1>6, RecordStands, StatusStands

(* Calling the handler starts the entry. *)
LEMMA ProcessStarts ==
  ASSUME WInv, NEW m \in Members, NEW known \in BOOLEAN, Process(m, known)
  PROVE  Recorded' /\ (UNCHANGED <<status, pending>> \/ \E e \in Positions : WQ!Start(e))
<1> USE DEF history, server
<1> DEFINE e == Head(member[m].input)
<1>1. /\ member[m].stage = "idle" /\ member[m].input # <<>>
      /\ UNCHANGED <<delivered, pending, acked, result, orphaned, lost>>
      /\ \E s : member' = [member EXCEPT ![m] = [member[m] EXCEPT !.stage = s]]
      /\ handled' = handled \/ handled' = [handled EXCEPT ![e] = @ + 1]
  BY DEF Process
<1>2. TypeOK /\ member[m] \in ConsumerGroupMember
  BY OneMember DEF WInv, IInv
<1>3. \A n \in Members : Local(n)' \subseteq Local(n)
  <2>1. PICK s : member' = [member EXCEPT ![m] = [member[m] EXCEPT !.stage = s]]
    BY <1>1
  <2> DEFINE g == [member[m] EXCEPT !.stage = s]
  <2>2. g.batch = member[m].batch /\ g.input = member[m].input
    BY <1>2 DEF ConsumerGroupMember
  <2> HIDE DEF g
  <2>3. ToSet(g.batch) \cup ToSet(g.input) \subseteq Local(m)
    BY <2>2 DEF Local
  <2>4. member' = [member EXCEPT ![m] = g]
    BY <2>1 DEF g
  <2> QED BY <1>2, <2>3, <2>4, OthersKeep
<1>4. Recorded'
  BY <1>1, <1>3, RecordStands
<1>5. CASE handled' = handled
  BY <1>1, <1>4, <1>5, StatusStands
<1>6. CASE handled' = [handled EXCEPT ![e] = @ + 1]
  <2>1. /\ e \in Positions /\ e \in Local(m) /\ pending[e] = m /\ result[e] = "none"
        /\ e \notin orphaned \cup lost /\ e \notin acked /\ m # None
        /\ WQ!Open(e) /\ WQ!IsFirst(e)
    BY <1>1, HeadIsOpen
  <2>2. handled[e] = 0 /\ handled \in [Positions -> Nat]
    <3>1. e = Queue(m)[1] /\ 1 \in 1..Len(Queue(m))
      BY <1>1, <1>2, HeadOfQueue
    <3>2. FirstWaiting(m) = 1
      BY <1>1 DEF FirstWaiting
    <3> HIDE DEF e
    <3>3. handled[e] = 0
      BY <3>1, <3>2 DEF WInv, IInv, WaitingIsUnhandled, HandledNone
    <3> QED BY <3>3 DEF WInv, IInv, WaitingIsUnhandled
  <2> HIDE DEF e
  <2>3. handled'[e] # 0 /\ \A x \in Positions : x # e => handled'[x] = handled[x]
    BY <1>6, <2>1, <2>2
  <2>4. status[e] = "taken" /\ status'[e] = "started"
    BY <1>1, <2>1, <2>2, <2>3 DEF status
  <2>5. \A x \in Positions : x # e => status'[x] = status[x]
    BY <1>1, <2>3 DEF status
  <2>6. status' = [status EXCEPT ![e] = "started"]
    BY <2>1, <2>4, <2>5 DEF status
  <2>7. WQ!Start(e)
    BY <1>1, <2>1, <2>4, <2>6 DEF WQ!Start, WQ!Becomes
  <2> QED BY <1>4, <2>1, <2>7
<1> QED BY <1>1, <1>5, <1>6

-----------------------------------------------------------------------------
(* The result of an entry finishes it. *)
LEMMA MarkProcessedFinishes ==
  ASSUME WInv, NEW m \in Members, NEW outcome \in Outcomes \cup {"error"},
         MarkProcessed(m, outcome)
  PROVE  Recorded' /\ \E e \in Positions : WQ!Finish(e)
<1> USE DEF history, server
<1> DEFINE e == Head(member[m].input)
           g == [member[m] EXCEPT !.stage = "idle", !.input = Tail(@), !.outbox = Append(@, e)]
<1>1. /\ member[m].stage \in {"handling", "refusing"} /\ outcome \in {"value", "void", "error"}
      /\ result' = [result EXCEPT ![e] = outcome]
      /\ member' = [member EXCEPT ![m] = g]
      /\ UNCHANGED <<delivered, pending, acked, handled, orphaned, lost>>
  BY ChoicesAssumption DEF MarkProcessed
<1>2. /\ TypeOK /\ member \in [Members -> ConsumerGroupMember]
      /\ member[m] \in ConsumerGroupMember /\ member[m].input # <<>>
      /\ member[m].input \in Seq(Positions) /\ member[m].batch \in Seq(Positions)
      /\ result \in [Positions -> {"none", "value", "void", "error"}]
  <2>1. TypeOK
    BY DEF WInv, IInv
  <2>2. member[m].input # <<>> /\ member \in [Members -> ConsumerGroupMember]
        /\ result \in [Positions -> {"none", "value", "void", "error"}]
    BY <1>1, <2>1 DEF TypeOK
  <2> QED BY <2>1, <2>2, OneMember
<1>3. /\ e \in Positions /\ e \in Local(m) /\ pending[e] = m /\ result[e] = "none"
      /\ e \notin orphaned \cup lost /\ e \notin acked /\ m # None
      /\ WQ!Open(e) /\ WQ!IsFirst(e)
  BY <1>2, HeadIsOpen
<1>4. /\ g.input = Tail(member[m].input) /\ g.batch = member[m].batch
  BY <1>2 DEF ConsumerGroupMember
<1>5. /\ e = Queue(m)[1] /\ 1 \in 1..Len(Queue(m)) /\ Len(Queue(m)) \in Nat
      /\ Queue(m) \in Seq(Positions) /\ Queue(m) # <<>>
  BY <1>2, HeadOfQueue
<1>6. \A n \in Members : n # m => e \notin Local(n)
  BY <1>2, HeadIsFirst DEF WInv
<1> HIDE DEF e, g
<1>7. member'[m] = g /\ \A n \in Members : n # m => member'[n] = member[n]
  BY <1>1, <1>2
<1>8. ASSUME NEW x \in Local(m)' PROVE x \in Local(m) /\ x # e
  <2>1. g.input \o g.batch = Tail(Queue(m)) /\ g.input \in Seq(Positions)
        /\ g.batch \in Seq(Positions)
    BY <1>2, <1>4, TailOf, TailOfConcat, ZenonT(40) DEF Queue
  <2>2. Local(m)' = ToSet(g.input \o g.batch)
    <3>1. Local(m)' = ToSet(g.batch) \cup ToSet(g.input)
      BY <1>7 DEF Local
    <3> QED BY <2>1, <3>1, InEither
  <2>3. x \in ToSet(Tail(Queue(m)))
    BY <2>1, <2>2
  <2>4. /\ Tail(Queue(m)) \in Seq(Positions) /\ Len(Tail(Queue(m))) = Len(Queue(m)) - 1
        /\ \A i \in 1..(Len(Queue(m)) - 1) : Tail(Queue(m))[i] = Queue(m)[i + 1]
    BY <1>5, TailOf
  <2>5. PICK i \in 1..(Len(Queue(m)) - 1) : x = Queue(m)[i + 1]
    BY <2>3, <2>4 DEF ToSet
  <2>6. 1 < i + 1 /\ i + 1 \in 1..Len(Queue(m))
    BY <1>5, <2>5
  <2>7. e < x
    BY <1>5, <2>5, <2>6 DEF WInv, IInv, DeliveredOnce, Increasing
  <2>8. x \in Local(m)
    BY <1>2, <1>5, <2>5, <2>6, LocalIsQueue DEF ToSet
  <2>9. e \in Nat
    BY <1>3, PositionsAreNumbers
  <2> QED BY <2>7, <2>8, <2>9
<1>9. ASSUME NEW n \in Members, NEW x \in Local(n)' PROVE x \in Local(n) /\ x # e
  <2>1. CASE n = m
    BY <1>8, <1>9, <2>1
  <2>2. CASE n # m
    BY <1>6, <1>7, <1>9, <2>2 DEF Local
  <2> QED BY <2>1, <2>2
<1>10. result'[e] # "none" /\ \A x \in Positions : x # e => result'[x] = result[x]
  BY <1>1, <1>2, <1>3
<1>11. Recorded'
  <2>1. NothingBeyondDelivered'
    BY <1>1, <1>3, <1>10 DEF WInv, Recorded, NothingBeyondDelivered
  <2>2. PendingUntilAcked'
    BY <1>1, <1>3, <1>10 DEF WInv, Recorded, PendingUntilAcked
  <2>3. LocalIsPending'
    BY <1>1, <1>9, <1>10 DEF WInv, Recorded, LocalIsPending
  <2>4. LostStaysPending'
    BY <1>1, <1>3, <1>10 DEF WInv, Recorded, LostStaysPending
  <2> QED BY <2>1, <2>2, <2>3, <2>4 DEF Recorded
<1>12. status'[e] = "finished"
  BY <1>1, <1>3, <1>10 DEF status
<1>13. \A x \in Positions : x # e => status'[x] = status[x]
  BY <1>1, <1>10 DEF status
<1>14. status' = [status EXCEPT ![e] = "finished"]
  BY <1>3, <1>12, <1>13 DEF status
<1>15. WQ!Finish(e)
  BY <1>1, <1>3, <1>14 DEF WQ!Finish, WQ!Becomes
<1> QED BY <1>3, <1>11, <1>15

(* An XACK closes its entry; a second one would change nothing. *)
LEMMA XackCloses ==
  ASSUME WInv, NEW m \in Members, NEW e \in Positions, Xack(m, e)
  PROVE  Recorded' /\ (UNCHANGED <<status, pending>> \/ WQ!Close(e))
<1> USE DEF history
<1>1. /\ conn[m] # <<>> /\ Head(conn[m]) = e
      /\ acked' = acked \cup {e} /\ pending' = [pending EXCEPT ![e] = None]
      /\ UNCHANGED <<delivered, member, handled, result, orphaned, lost>>
  BY DEF Xack, NextIs
<1>2. result[e] # "none"
  <2>1. conn[m] \in Seq({Xreadgroup} \cup Positions)
    BY DEF WInv, IInv, TypeOK
  <2>2. conn[m][1] = e /\ 1 \in 1..Len(conn[m])
    BY <1>1, <2>1, TailOf
  <2>3. e # Xreadgroup
    BY PositionsAreNumbers
  <2> QED BY <2>2, <2>3 DEF WInv, IInv, XackIsProcessed
<1>3. pending \in [Positions -> Members \cup {None}] /\ acked \subseteq Positions
  BY DEF WInv, IInv, TypeOK
<1>4. pending'[e] = None /\ \A x \in Positions : x # e => pending'[x] = pending[x]
  BY <1>1, <1>3
<1>5. Recorded'
  <2>1. NothingBeyondDelivered'
    BY <1>1, <1>2, <1>4 DEF WInv, Recorded, NothingBeyondDelivered
  <2>2. PendingUntilAcked'
    BY <1>1, <1>3, <1>4 DEF WInv, Recorded, PendingUntilAcked
  <2>3. LocalIsPending'
    <3>1. \A n \in Members : Local(n)' = Local(n)
      BY <1>1 DEF Local
    <3> QED BY <1>1, <1>2, <1>4, <3>1 DEF WInv, Recorded, LocalIsPending
  <2>4. LostStaysPending'
    BY <1>1, <1>2, <1>4 DEF WInv, Recorded, LostStaysPending
  <2> QED BY <2>1, <2>2, <2>3, <2>4 DEF Recorded
<1>6. CASE e \in acked
  <2>1. acked' = acked
    BY <1>1, <1>6
  <2>2. pending[e] = None
    BY <1>6 DEF WInv, Recorded, PendingUntilAcked
  <2>3. pending' = pending
    BY <1>1, <1>3, <2>2
  <2> QED BY <1>1, <1>5, <2>1, <2>3, StatusStands
<1>7. CASE e \notin acked
  <2>1. pending[e] # None
    BY <1>2, <1>7 DEF WInv, Recorded, PendingUntilAcked
  <2>2. status[e] = "finished"
    BY <1>2, <1>7, <2>1 DEF status
  <2>3. status'[e] = "closed" /\ \A x \in Positions : x # e => status'[x] = status[x]
    BY <1>1, <1>4 DEF status
  <2>4. status' = [status EXCEPT ![e] = "closed"]
    BY <2>3 DEF status
  <2> QED BY <1>1, <1>5, <2>2, <2>4 DEF WQ!Close
<1> QED BY <1>6, <1>7

(* A process that ends loses what it had open, and nothing else. *)
LEMMA CrashLoses ==
  ASSUME WInv, NEW m \in Members, Crash(m)
  PROVE  Recorded' /\ WQ!Lose(m)
<1> USE DEF server
<1>1. /\ member' = [member EXCEPT ![m] = Down]
      /\ orphaned' = orphaned \cup {e \in Positions : pending[e] = m}
      /\ UNCHANGED <<delivered, pending, acked, handled, result, lost>>
  BY DEF Crash
<1>2. m # None
  BY MembersAssumption
<1>3. Local(m)' = {} /\ \A n \in Members : n # m => Local(n)' = Local(n)
  <2>1. member \in [Members -> ConsumerGroupMember]
    BY DEF WInv, IInv, TypeOK
  <2>2. member'[m] = Down /\ \A n \in Members : n # m => member'[n] = member[n]
    BY <1>1, <2>1
  <2>3. Down.batch = <<>> /\ Down.input = <<>> /\ ToSet(<<>>) = {}
    BY DEF Down, Started, ToSet
  <2> QED BY <2>2, <2>3 DEF Local
<1>4. Recorded'
  <2>1. NothingBeyondDelivered'
    BY <1>1, <1>2 DEF WInv, Recorded, NothingBeyondDelivered
  <2>2. PendingUntilAcked'
    BY <1>1 DEF WInv, Recorded, PendingUntilAcked
  <2>3. LocalIsPending'
    BY <1>1, <1>3 DEF WInv, Recorded, LocalIsPending
  <2>4. LostStaysPending'
    BY <1>1 DEF WInv, Recorded, LostStaysPending
  <2> QED BY <2>1, <2>2, <2>3, <2>4 DEF Recorded
<1>5. ASSUME NEW x \in Positions
      PROVE  status'[x] = IF WQ!Open(x) /\ pending[x] = m THEN "lost" ELSE status[x]
  <2>1. CASE WQ!Open(x) /\ pending[x] = m
    BY <1>1, <1>2, <2>1 DEF status, WQ!Open
  <2>2. CASE WQ!Open(x) /\ pending[x] # m
    BY <1>1, <2>2 DEF status, WQ!Open
  <2>3. CASE ~WQ!Open(x)
    BY <1>1, <2>3 DEF status, WQ!Open
  <2> QED BY <2>1, <2>2, <2>3
<1>6. status' = [x \in Positions |-> IF WQ!Open(x) /\ pending[x] = m THEN "lost" ELSE status[x]]
  BY <1>5 DEF status
<1> QED BY <1>1, <1>4, <1>6 DEF WQ!Lose

(* A reply that is lost is what its member was given last. *)
LEMMA ReplyLostMisses ==
  ASSUME WInv, NEW m \in Members, ReplyLost(m)
  PROVE  Recorded' /\ \E w \in Members, k \in Positions : WQ!Miss(w, k)
<1> USE DEF server
<1> DEFINE s == member[m].input
           b == member[m].batch
           k == Head(member[m].batch)
           Missed == {i \in Positions : WQ!Open(i) /\ pending[i] = m /\ k <= i}
<1>1. /\ ~member[m].arrived
      /\ member' = [member EXCEPT ![m] = [member[m] EXCEPT !.batch = <<>>, !.arrived = TRUE]]
      /\ lost' = lost \cup ToSet(b)
      /\ UNCHANGED <<delivered, pending, acked, handled, result, orphaned>>
  BY DEF ReplyLost
<1>2. /\ TypeOK /\ member \in [Members -> ConsumerGroupMember]
      /\ member[m] \in ConsumerGroupMember /\ s \in Seq(Positions) /\ b \in Seq(Positions)
      /\ Queue(m) = s \o b /\ Queue(m) \in Seq(Positions)
  BY OneMember DEF WInv, IInv, TypeOK, Queue
<1>3. b # <<>> /\ m # None
  BY <1>1, MembersAssumption DEF WInv, IInv, ReplyHasEntries
<1>4. member[m].stage # "idle" => s # <<>>
  <2>1. member[m].stage # "down"
    BY <1>3 DEF WInv, IInv, DownIsEmpty
  <2> QED BY <1>2, <2>1 DEF TypeOK, ConsumerGroupMember
<1>5. /\ member'[m].input = s /\ member'[m].batch = <<>>
      /\ \A n \in Members : n # m => member'[n] = member[n]
  BY <1>1, <1>2 DEF ConsumerGroupMember
<1> HIDE DEF s, b, k
<1>6. /\ Len(s) \in Nat /\ Len(b) \in Nat \ {0} /\ Len(Queue(m)) = Len(s) + Len(b)
      /\ \A i \in 1..Len(s) : Queue(m)[i] = s[i]
      /\ \A i \in 1..Len(b) : Queue(m)[Len(s) + i] = b[i]
      /\ k \in Positions /\ k = b[1]
  BY <1>2, <1>3, ConcatOf, TailOf DEF k, b
(* The batch comes behind the input, from its first entry on.               *)
<1>7. ASSUME NEW x \in ToSet(s) PROVE x \in Positions /\ x < k
  <2>1. PICK i \in 1..Len(s) : s[i] = x
    BY DEF ToSet
  <2>2. /\ i \in 1..Len(Queue(m)) /\ Len(s) + 1 \in 1..Len(Queue(m)) /\ i < Len(s) + 1
        /\ 1 \in 1..Len(b)
    BY <1>6, <2>1
  <2>3. Queue(m)[i] < Queue(m)[Len(s) + 1]
    BY <2>2 DEF WInv, IInv, DeliveredOnce, Increasing
  <2>4. x \in Positions
    BY <1>2, <2>1
  <2> QED BY <1>6, <2>1, <2>2, <2>3, <2>4
<1>8. ASSUME NEW x \in ToSet(b) PROVE x \in Positions /\ k <= x /\ handled[x] = 0
  <2>1. PICK i \in 1..Len(b) : b[i] = x
    BY DEF ToSet
  <2>2. /\ Len(s) + i \in 1..Len(Queue(m)) /\ Len(s) + 1 \in 1..Len(Queue(m))
        /\ 1 \in 1..Len(b) /\ Len(s) + i \in Nat /\ i \in Nat \ {0}
    <3> DEFINE p == Len(s)
               q == Len(b)
               r == Len(Queue(m))
    <3>1. p \in Nat /\ q \in Nat \ {0} /\ r = p + q /\ i \in 1..q
      BY <1>6, <2>1
    <3> HIDE DEF p, q, r
    <3>2. /\ p + i \in 1..r /\ p + 1 \in 1..r /\ 1 \in 1..q
          /\ p + i \in Nat /\ i \in Nat \ {0}
      BY <3>1
    <3> QED BY <3>2 DEF p, q, r
  <2>3. x \in Positions /\ x \in Nat /\ k \in Nat
    <3>1. x \in Positions
      BY <1>2, <2>1
    <3> QED BY <1>6, <3>1, PositionsAreNumbers
  <2>4. k <= x
    <3>1. CASE i = 1
      BY <1>6, <2>1, <2>3, <3>1
    <3>2. CASE i # 1
      <4>1. Len(s) + 1 < Len(s) + i
        BY <1>6, <2>2, <3>2
      <4>2. Queue(m)[Len(s) + 1] < Queue(m)[Len(s) + i]
        BY <2>2, <4>1 DEF WInv, IInv, DeliveredOnce, Increasing
      <4> QED BY <1>6, <2>1, <2>2, <2>3, <4>2
    <3> QED BY <3>1, <3>2
  <2>5. FirstWaiting(m) <= Len(s) + i
    <3>1. CASE member[m].stage = "idle"
      BY <1>6, <2>2, <3>1 DEF FirstWaiting
    <3>2. CASE member[m].stage # "idle"
      <4>1. Len(s) # 0
        BY <1>2, <1>4, <3>2
      <4> QED BY <1>6, <2>2, <3>2, <4>1 DEF FirstWaiting
    <3> QED BY <3>1, <3>2
  <2>6. handled[Queue(m)[Len(s) + i]] = 0
    BY <2>2, <2>5 DEF WInv, IInv, WaitingIsUnhandled, HandledNone
  <2> QED BY <1>6, <2>1, <2>3, <2>4, <2>6
<1>9. Local(m) = ToSet(b) \cup ToSet(s)
  BY DEF Local, b, s
<1>10. /\ Local(m)' = ToSet(s)
       /\ \A n \in Members : n # m => Local(n)' = Local(n)
  <2>1. ToSet(<<>>) = {}
    BY DEF ToSet
  <2> QED BY <1>5, <2>1 DEF Local
<1>11. \A x \in ToSet(b) : /\ pending[x] = m /\ result[x] = "none" /\ x \notin acked
                           /\ x \notin orphaned \cup lost
  BY <1>3, <1>9 DEF WInv, Recorded, LocalIsPending, PendingUntilAcked
<1>12. \A x \in ToSet(b) : status[x] = "taken"
  BY <1>3, <1>8, <1>11 DEF status
<1>13. Missed = ToSet(b)
  <2>1. ASSUME NEW x \in ToSet(b) PROVE x \in Missed
    BY <1>8, <1>11, <1>12 DEF WQ!Open
  <2>2. ASSUME NEW x \in Missed PROVE x \in ToSet(b)
    <3>1. result[x] = "none" /\ x \notin orphaned \cup lost
      BY DEF WQ!Open, status
    <3>2. x \in Local(m)
      BY <3>1, OpenIsLocal
    <3>3. x \in Nat /\ k \in Nat /\ k <= x
      BY <1>6, PositionsAreNumbers
    <3>4. ~(x < k)
      BY <3>3
    <3> QED BY <1>7, <1>9, <3>2, <3>4
  <2> QED BY <2>1, <2>2
<1>14. \A n \in Members : \A x \in Local(n)' : x \in Local(n) /\ x \notin ToSet(b)
  <2>1. \A x \in ToSet(s) : x \notin ToSet(b)
    <3>1. ASSUME NEW x \in ToSet(s), x \in ToSet(b) PROVE FALSE
      <4>1. x < k /\ k <= x /\ x \in Nat /\ k \in Nat
        BY <1>6, <1>7, <1>8, <3>1, PositionsAreNumbers
      <4> QED BY <4>1
    <3> QED BY <3>1
  <2>2. ASSUME NEW n \in Members, n # m, NEW x \in Local(n) PROVE x \notin ToSet(b)
    BY <1>11, <2>2 DEF WInv, Recorded, LocalIsPending
  <2> QED BY <1>9, <1>10, <2>1, <2>2
<1>15. Recorded'
  <2>1. NothingBeyondDelivered'
    BY <1>1, <1>3, <1>11 DEF WInv, Recorded, NothingBeyondDelivered
  <2>2. PendingUntilAcked'
    BY <1>1 DEF WInv, Recorded, PendingUntilAcked
  <2>3. LocalIsPending'
    BY <1>1, <1>14 DEF WInv, Recorded, LocalIsPending
  <2>4. LostStaysPending'
    BY <1>1, <1>3, <1>8, <1>11 DEF WInv, Recorded, LostStaysPending
  <2> QED BY <2>1, <2>2, <2>3, <2>4 DEF Recorded
<1>16. status' = [x \in Positions |-> IF x \in Missed THEN "lost" ELSE status[x]]
  <2>1. \A x \in Positions : x \in ToSet(b) => status'[x] = "lost"
    BY <1>1, <1>3, <1>11 DEF status
  <2>2. \A x \in Positions : x \notin ToSet(b) => status'[x] = status[x]
    BY <1>1 DEF status
  <2> HIDE DEF Missed
  <2> QED BY <1>13, <2>1, <2>2 DEF status
<1>17. WQ!Miss(m, k)
  <2>1. \A x \in Missed : status[x] = "taken"
    BY <1>12, <1>13
  <2>2. pending' = pending
    BY <1>1
  <2> QED BY <1>16, <2>1, <2>2 DEF WQ!Miss
<1> QED BY <1>6, <1>15, <1>17

(* A delivery takes everything behind what was delivered before. *)
LEMMA DeliverTakes ==
  ASSUME WInv, NEW m \in Members, Deliver(m)
  PROVE  Recorded' /\ \E S \in SUBSET Positions : WQ!Take(m, S)
<1> USE DEF history
<1> DEFINE new == [n \in 1..(entries - delivered) |-> delivered + n]
           g == [member[m] EXCEPT !.arrived = FALSE, !.batch = new]
           S == {x \in Positions : delivered < x /\ x <= entries}
<1>1. /\ conn[m] # <<>> /\ Head(conn[m]) = Xreadgroup
      /\ delivered # Absent /\ delivered < entries /\ delivered' = entries
      /\ pending' = [x \in Positions |-> IF delivered < x /\ x <= entries THEN m ELSE pending[x]]
      /\ member' = [member EXCEPT ![m] = g]
      /\ UNCHANGED <<acked, handled, result, orphaned, lost>>
  BY DEF Deliver, NextIs
<1>2. /\ delivered \in Nat /\ entries \in Nat /\ entries <= MaxEntries /\ MaxEntries \in Nat
      /\ entries - delivered \in Nat
  BY <1>1, PositionsAreNumbers DEF WInv, IInv, TypeOK
<1>3. \A x \in ToSet(new) : x \in S
  <2>1. DOMAIN new = 1..(entries - delivered)
    OBVIOUS
  <2>2. \A n \in 1..(entries - delivered) : new[n] = delivered + n
    OBVIOUS
  <2> HIDE DEF new
  <2>3. ASSUME NEW n \in 1..(entries - delivered) PROVE delivered + n \in S
    BY <1>2 DEF Positions
  <2> QED BY <2>1, <2>2, <2>3 DEF ToSet
<1> HIDE DEF new
<1>4. /\ member \in [Members -> ConsumerGroupMember] /\ member[m] \in ConsumerGroupMember
      /\ TypeOK /\ acked \subseteq Positions
  BY DEF WInv, IInv, TypeOK
<1>5. g.batch = new /\ g.input = member[m].input
  BY <1>4 DEF ConsumerGroupMember
<1> HIDE DEF g
<1>6. member'[m] = g /\ \A n \in Members : n # m => member'[n] = member[n]
  BY <1>1, <1>4
<1>7. \A n \in Members : \A x \in Local(n)' : x \in Local(n) \/ (n = m /\ x \in S)
  BY <1>3, <1>5, <1>6 DEF Local
<1>8. ASSUME NEW n \in Members, NEW x \in Local(n) PROVE x \notin S
  <2>1. PICK i \in 1..Len(Queue(n)) : Queue(n)[i] = x
    BY <1>4, QueuePlaces
  <2>2. x <= delivered
    BY <2>1 DEF WInv, IInv, DeliveredOnce
  <2>3. \A y \in Positions : y \in Nat
    BY PositionsAreNumbers
  <2> QED BY <1>2, <2>2, <2>3
<1>9. \A x \in S : pending[x] = None /\ result[x] = "none" /\ x \notin acked /\ x \notin orphaned \cup lost
  BY DEF WInv, Recorded, NothingBeyondDelivered
<1>10. \A x \in Positions : pending'[x] = IF x \in S THEN m ELSE pending[x]
  BY <1>1
<1>11. \A x \in Positions : entries < x => delivered < x /\ x \notin S
  BY <1>1, <1>2, PositionsAreNumbers
<1>12. \A x \in Positions : status[x] # "waiting" => ~(delivered < x)
  BY DEF WInv, Recorded, NothingBeyondDelivered, status
<1>13. \A i \in S : \A j \in Positions : status[j] # "waiting" => j < i
  <2>1. \A y \in Positions : y \in Nat
    BY PositionsAreNumbers
  <2>2. \A i \in S : i \in Nat /\ delivered < i
    BY <2>1
  <2> HIDE DEF S
  <2>3. \A i \in S, j \in Positions : ~(delivered < j) => j < i
    BY <1>2, <2>1, <2>2
  <2> QED BY <1>12, <2>3
<1>14. \A x \in S : handled[x] = 0
  BY DEF WInv, IInv, WaitingIsUnhandled
<1>15. S \in SUBSET Positions /\ m # None
  BY MembersAssumption
<1> HIDE DEF S
<1>16. Recorded'
  <2>1. NothingBeyondDelivered'
    BY <1>1, <1>10, <1>11 DEF WInv, Recorded, NothingBeyondDelivered
  <2>2. PendingUntilAcked'
    BY <1>1, <1>4, <1>9, <1>10, <1>15 DEF WInv, Recorded, PendingUntilAcked
  <2>3. LocalIsPending'
    <3>1. ASSUME NEW n \in Members, NEW x \in Local(n)'
          PROVE  x \in Positions /\ pending'[x] = n /\ result[x] = "none" /\ x \notin orphaned \cup lost
      <4>1. CASE x \in Local(n)
        BY <1>8, <1>10, <4>1 DEF WInv, Recorded, LocalIsPending
      <4>2. CASE n = m /\ x \in S
        BY <1>9, <1>10, <1>15, <4>2
      <4> QED BY <1>7, <4>1, <4>2
    <3> QED BY <1>1, <3>1 DEF LocalIsPending
  <2>4. LostStaysPending'
    BY <1>1, <1>10, <1>15 DEF WInv, Recorded, LostStaysPending
  <2> QED BY <2>1, <2>2, <2>3, <2>4 DEF Recorded
<1>17. status' = [x \in Positions |-> IF x \in S THEN "taken" ELSE status[x]]
  <2>1. ASSUME NEW x \in Positions, x \in S PROVE status'[x] = "taken"
    BY <1>1, <1>9, <1>10, <1>14, <1>15, <2>1 DEF status
  <2>2. ASSUME NEW x \in Positions, x \notin S PROVE status'[x] = status[x]
    BY <1>1, <1>10, <2>2 DEF status
  <2> QED BY <2>1, <2>2 DEF status
<1>18. pending' = [x \in Positions |-> IF x \in S THEN m ELSE pending[x]]
  BY <1>1 DEF S
<1>19. WQ!Take(m, S)
  BY <1>13, <1>17, <1>18 DEF WQ!Take
<1> QED BY <1>15, <1>16, <1>19

-----------------------------------------------------------------------------
(* Every step is one of the work queue, or none. *)
LEMMA StepMaps ==
  ASSUME WInv, [Next]_vars
  PROVE  Recorded' /\ (WQ!Next \/ UNCHANGED <<status, pending>>)
<1>1. CASE Xadd \/ \E cursor \in {0, entries} : Create(cursor)
  BY <1>1, HidesXadd
<1>2. ASSUME NEW m \in Members, \E configured \in Configs : ConnectAndListen(m, configured)
      PROVE  Recorded' /\ UNCHANGED <<status, pending>>
  BY <1>2, HidesConnect
<1>3. ASSUME NEW m \in Members, Run(m)
      PROVE  Recorded' /\ (WQ!Next \/ UNCHANGED <<status, pending>>)
  <2>1. CASE ReadAsGroup(m) \/ Receive(m) \/ HandlerThrows(m) \/ Respond(m)
    BY <2>1, HidesMemberStep
  <2>2. CASE Yield(m)
    BY <2>2, HidesYield
  <2>3. CASE \E known \in BOOLEAN : Process(m, known)
    BY <2>3, ProcessStarts DEF WQ!Next
  <2>4. CASE \E outcome \in Outcomes \cup {"error"} : MarkProcessed(m, outcome)
    BY <2>4, MarkProcessedFinishes DEF WQ!Next
  <2> QED BY <1>3, <2>1, <2>2, <2>3, <2>4 DEF Run
<1>4. ASSUME NEW m \in Members, Serve(m)
      PROVE  Recorded' /\ (WQ!Next \/ UNCHANGED <<status, pending>>)
  <2>1. CASE Deliver(m)
    BY <2>1, DeliverTakes DEF WQ!Next
  <2>2. CASE XreadgroupTimesOut(m) \/ XreadgroupFails(m)
    BY <2>2, HidesMemberStep
  <2>3. CASE \E e \in Positions : Xack(m, e)
    BY <2>3, XackCloses DEF WQ!Next
  <2> QED BY <1>4, <2>1, <2>2, <2>3 DEF Serve
<1>5. ASSUME NEW m \in Members, Crash(m)
      PROVE  Recorded' /\ WQ!Next
  BY <1>5, CrashLoses DEF WQ!Next
<1>7. ASSUME NEW m \in Members, ReplyLost(m)
      PROVE  Recorded' /\ WQ!Next
  BY <1>7, ReplyLostMisses DEF WQ!Next
<1>6. CASE UNCHANGED vars
  <2>1. UNCHANGED <<delivered, pending, acked, result, orphaned, lost, handled, member>>
    BY <1>6 DEF vars
  <2>2. \A m \in Members : Local(m)' \subseteq Local(m)
    BY <2>1 DEF Local
  <2> QED BY <2>1, <2>2, RecordStands, StatusStands
<1> QED BY <1>1, <1>2, <1>3, <1>4, <1>5, <1>6, <1>7 DEF Next

LEMMA InitMaps == Init => Recorded /\ WQ!Init
<1> SUFFICES ASSUME Init PROVE Recorded /\ WQ!Init
  OBVIOUS
<1>1. \A m \in Members : Local(m) = {}
  <2>1. Down.batch = <<>> /\ Down.input = <<>> /\ ToSet(<<>>) = {}
    BY DEF Down, Started, ToSet
  <2> QED BY <2>1 DEF Init, Local
<1>2. Recorded
  BY <1>1 DEF Init, Recorded, NothingBeyondDelivered, PendingUntilAcked, LocalIsPending,
                   LostStaysPending
<1>3. WQ!Init
  BY DEF Init, WQ!Init, status
<1> QED BY <1>2, <1>3

(* The server's record of entries, and what members hold of them, agree in  *)
(* every reachable state.                                                   *)
THEOREM GroupIsRecorded == SafetySpec => []WInv
<1>1. Init => WInv
  BY InitIInv, InitMaps DEF WInv
<1>2. WInv /\ [Next]_vars => WInv'
  BY NextIInv, StepMaps DEF WInv
<1> QED BY <1>1, <1>2, PTL DEF SafetySpec

(* What is pending for a living process is in it or on its way to it, or    *)
(* its XACK is under way, unless the process lost it with a reply; and what *)
(* was lost stays on the list while no member has it.                       *)
THEOREM GroupHoldsWhatIsPending == SafetySpec => []PendingIsHeld
<1>1. WInv => PendingIsHeld
  <2> SUFFICES ASSUME WInv PROVE PendingIsHeld
    OBVIOUS
  <2>1. \A e \in lost : pending[e] # None /\ \A m \in Members : e \notin Local(m)
    BY DEF WInv, Recorded, LostStaysPending, LocalIsPending
  <2> QED BY <2>1 DEF WInv, IInv, HeldUnlessLost, PendingIsHeld
<1> QED BY <1>1, GroupIsRecorded, PTL

(* Whatever members read, answer, throw at, crash with and start again, the *)
(* group is a work queue.                                                   *)
THEOREM GroupIsAWorkQueue == SafetySpec => ImplementsWorkQueue
<1>1. Init => WQ!Init
  BY InitMaps
<1>2. WInv /\ [Next]_vars => [WQ!Next]_<<status, pending>>
  BY StepMaps
<1>3. [WQ!Next]_<<status, pending>> <=> [WQ!Next]_(WQ!wqVars)
  BY DEF WQ!wqVars
<1> QED BY <1>1, <1>2, <1>3, GroupIsRecorded, PTL
    DEF SafetySpec, ImplementsWorkQueue, WQ!Spec
=============================================================================
