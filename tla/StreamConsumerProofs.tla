------------------------- MODULE StreamConsumerProofs --------------------------
(***************************************************************************)
(* Proofs about the pipeline of a StreamConsumer, for any number of        *)
(* messages, any highWaterMark and any handlers: types, that nothing is    *)
(* lost or reordered, that every stage pushes back, and that every pause   *)
(* has a reason.                                                           *)
(***************************************************************************)
EXTENDS StreamConsumer, TLAPS

-----------------------------------------------------------------------------
(* Sequences. *)

LEMMA ConcatType ==
  ASSUME NEW s \in Seq(Chunks), NEW t \in Seq(Chunks)
  PROVE  s \o t \in Seq(Chunks) /\ Len(s \o t) = Len(s) + Len(t)
OBVIOUS

LEMMA ConcatAssoc ==
  ASSUME NEW s \in Seq(Chunks), NEW t \in Seq(Chunks), NEW u \in Seq(Chunks)
  PROVE  (s \o t) \o u = s \o (t \o u)
OBVIOUS

LEMMA ConcatEmpty ==
  ASSUME NEW s \in Seq(Chunks)
  PROVE  s \o <<>> = s /\ <<>> \o s = s /\ <<>> \in Seq(Chunks)
OBVIOUS

LEMMA AppendIsConcat ==
  ASSUME NEW s \in Seq(Chunks), NEW x \in Chunks
  PROVE  Append(s, x) = s \o <<x>> /\ Append(s, x) \in Seq(Chunks) /\ <<x>> \in Seq(Chunks)
         /\ Len(Append(s, x)) = Len(s) + 1 /\ Append(s, x) # <<>>
OBVIOUS

LEMMA HeadAndTail ==
  ASSUME NEW s \in Seq(Chunks), s # <<>>
  PROVE  /\ Head(s) \in Chunks /\ Tail(s) \in Seq(Chunks) /\ Len(Tail(s)) = Len(s) - 1
         /\ s = <<Head(s)>> \o Tail(s) /\ Len(s) \in Nat \ {0}
OBVIOUS

LEMMA TailOfConcat ==
  ASSUME NEW s \in Seq(Chunks), s # <<>>, NEW x \in Chunks
  PROVE  Tail(s \o <<x>>) = Tail(s) \o <<x>>
OBVIOUS

LEMMA EmptyIff ==
  ASSUME NEW s \in Seq(Chunks)
  PROVE  (s = <<>> <=> Len(s) = 0) /\ Len(s) \in Nat
OBVIOUS

LEMMA TailOfOne ==
  ASSUME NEW s \in Seq(Chunks), Len(s) = 1
  PROVE  Tail(s) = <<>>
<1>1. Tail(s) \in Seq(Chunks) /\ Len(Tail(s)) = 0
  <2>1. s # <<>>
    BY EmptyIff
  <2> QED BY <2>1, HeadAndTail
<1> QED
  BY <1>1, EmptyIff

LEMMA SameElements ==
  ASSUME NEW s \in Seq(Chunks), NEW t \in Seq(Chunks),
         Len(s) = Len(t), \A i \in 1..Len(s) : s[i] = t[i]
  PROVE  s = t
OBVIOUS

LEMMA Cut ==
  ASSUME NEW s \in Seq(Chunks), NEW n \in 0..Len(s)
  PROVE  /\ SubSeq(s, 1, n) \in Seq(Chunks) /\ SubSeq(s, n + 1, Len(s)) \in Seq(Chunks)
         /\ SubSeq(s, 1, n) \o SubSeq(s, n + 1, Len(s)) = s
         /\ Len(SubSeq(s, 1, n)) = n /\ Len(SubSeq(s, n + 1, Len(s))) = Len(s) - n
<1> DEFINE a == SubSeq(s, 1, n)
           b == SubSeq(s, n + 1, Len(s))
<1>1. a \in Seq(Chunks) /\ Len(a) = n /\ \A i \in 1..n : a[i] = s[i]
  OBVIOUS
<1>2. b \in Seq(Chunks) /\ Len(b) = Len(s) - n /\ \A i \in 1..(Len(s) - n) : b[i] = s[n + i]
  OBVIOUS
<1>3. a \o b = s
  <2> HIDE DEF a, b
  <2>1. a \o b \in Seq(Chunks) /\ Len(a \o b) = Len(s)
    BY <1>1, <1>2, SMTT(30)
  <2>2. ASSUME NEW i \in 1..Len(s) PROVE (a \o b)[i] = s[i]
    <3>0. i \in Int /\ n \in Int
      OBVIOUS
    <3>1. CASE i <= n
      BY <1>1, <1>2, <3>1, SMTT(30)
    <3>2. CASE i > n
      <4>1. (a \o b)[i] = b[i - n]
        BY <1>1, <1>2, <3>2
      <4>2. i - n \in 1..(Len(s) - n)
        BY <3>2
      <4>3. b[i - n] = s[n + (i - n)]
        BY <1>2, <4>2
      <4>4. n + (i - n) = i
        OBVIOUS
      <4> QED BY <4>1, <4>3, <4>4
    <3>3. i <= n \/ i > n
      BY <3>0
    <3> QED BY <3>1, <3>2, <3>3, Zenon
  <2> QED BY <2>1, <2>2, SameElements
<1> QED
  BY <1>1, <1>2, <1>3

LEMMA Counting ==
  ASSUME NEW n \in Nat
  PROVE  [k \in 1..(n + 1) |-> k] = [k \in 1..n |-> k] \o <<n + 1>>
OBVIOUS

(* A variable that holds what a comparison gave. *)
LEMMA Comparison ==
  ASSUME NEW p, NEW a \in Nat, NEW b \in Nat, p = (a >= b)
  PROVE  p \in BOOLEAN /\ (p => a >= b) /\ (~p => a < b)
<1>1. (a >= b) \in BOOLEAN
  OBVIOUS
<1>2. p \in BOOLEAN
  BY <1>1, Zenon
<1>3. p => a >= b
  BY Zenon
<1>4. ~p => ~(a >= b)
  BY Zenon
<1>5. ~(a >= b) => a < b
  OBVIOUS
<1> QED BY <1>2, <1>3, <1>4, <1>5, Zenon

-----------------------------------------------------------------------------
(* The inductive invariant. *)

(* A stage that has not asked to pause has room for one more, and nothing   *)
(* is in the pipeline before it listens.                                    *)
Slack ==
  /\ ~readPaused => readBuffer = <<>> /\ Len(input) < HighWaterMark
  /\ stage # "held" => Len(output) < HighWaterMark
  /\ ~outputPaused => Len(writes) < HighWaterMark
  /\ ~listening => input = <<>> /\ output = <<>>

IInv == TypeOK /\ NothingLostOrReordered /\ PushesBack /\ PausedForAReason /\ Slack

(* Everything taken: what has left the Transform, and what has not. *)
Left == (written \o writes) \o output
Within == InTransform \o readBuffer

(* The pipeline in two parts. *)
Parted ==
  /\ Left \in Seq(Chunks) /\ Within \in Seq(Chunks) /\ InTransform \in Seq(Chunks)
  /\ NothingLostOrReordered <=> Left \o Within = [k \in 1..taken |-> k]

LEMMA TwoParts == TypeOK => Parted
<1> SUFFICES ASSUME TypeOK PROVE Parted
  OBVIOUS
<1>1. /\ written \in Seq(Chunks) /\ writes \in Seq(Chunks) /\ output \in Seq(Chunks)
      /\ input \in Seq(Chunks) /\ readBuffer \in Seq(Chunks)
  BY DEF TypeOK
<1>2. InTransform \in Seq(Chunks)
  <2>1. CASE stage = "held"
    BY <1>1, <2>1, HeadAndTail DEF InTransform, TypeOK
  <2>2. CASE stage # "held"
    BY <1>1, <2>2 DEF InTransform
  <2> QED BY <2>1, <2>2
<1>3. written \o writes \in Seq(Chunks) /\ Left \in Seq(Chunks) /\ Within \in Seq(Chunks)
  BY <1>1, <1>2, ConcatType DEF Left, Within
<1>4. Left \o Within = (Left \o InTransform) \o readBuffer
  <2>1. Left \in Seq(Chunks) /\ InTransform \in Seq(Chunks) /\ readBuffer \in Seq(Chunks)
    BY <1>1, <1>2, <1>3
  <2>2. (Left \o InTransform) \o readBuffer = Left \o (InTransform \o readBuffer)
    BY <2>1, ConcatAssoc
  <2> QED BY <2>2 DEF Within
<1>5. (Left \o InTransform) \o readBuffer
        = written \o writes \o output \o InTransform \o readBuffer
  BY DEF Left
<1> QED
  BY <1>2, <1>3, <1>4, <1>5 DEF NothingLostOrReordered, Parted

LEMMA TwoPartsNext == TypeOK' => Parted'
BY TwoParts, PTL

LEMMA InitIInv == Init => IInv
<1> SUFFICES ASSUME Init PROVE IInv
  OBVIOUS
<1>1. TypeOK
  <2>1. MaxMessages \in Nat /\ MaxSwitches \in Nat
    BY BoundsAssumption
  <2>2. <<>> \in Seq(Chunks)
    OBVIOUS
  <2>3. result \in [Chunks -> Results]
    BY DEF Init, Chunks, Results
  <2>4. outgoingChannel \in Outgoing \cup {None}
    BY ModesAssumption DEF Init, Outgoing
  <2>5. {listening, piped, readPaused, outputPaused, crashed} \subseteq BOOLEAN
    BY DEF Init
  <2>6. /\ arrived \in 0..MaxMessages /\ taken \in 0..arrived /\ switches \in 0..MaxSwitches
        /\ limit \in taken..MaxMessages
    BY <2>1 DEF Init
  <2>7. connected \subseteq Channels /\ streamEvents \subseteq Types /\ outgoingStream = outgoingChannel
    BY TypesAssumption DEF Init
  <2>8. stage \in TransformStages /\ (stage # "idle" => input # <<>>)
    BY DEF Init, TransformStages
  <2>9. \A q \in {readBuffer, input, output, writes, written} : q \in Seq(Chunks)
    BY <2>2 DEF Init
  <2> QED
    BY <2>3, <2>4, <2>5, <2>6, <2>7, <2>8, <2>9 DEF TypeOK
<1>2. NothingLostOrReordered
  BY DEF Init, NothingLostOrReordered, InTransform
<1>3. PushesBack /\ PausedForAReason /\ Slack
  BY BoundsAssumption DEF Init, PushesBack, PausedForAReason, Slack
<1> QED BY <1>1, <1>2, <1>3 DEF IInv

(* What is left of the first half of the pipeline when its first chunk has   *)
(* been pushed.                                                             *)
InputKept ==
  /\ stage' \in {"idle", "held"} /\ (stage' # "idle" => input' # <<>>)
  /\ readPaused' \in BOOLEAN
  /\ input' \in Seq(Chunks) /\ readBuffer' \in Seq(Chunks)
  /\ InTransform' \o readBuffer' = Tail(input) \o readBuffer
  /\ Len(readBuffer') <= 1 /\ Len(input') <= HighWaterMark
  /\ readPaused' => input' # <<>>
  /\ ~readPaused' => readBuffer' = <<>> /\ Len(input') < HighWaterMark

(* The second half, when it has been pushed. *)
Pushed ==
  /\ writes' \in Seq(Chunks) /\ output' \in Seq(Chunks) /\ outputPaused' \in BOOLEAN
  /\ writes' \o output' = (writes \o output) \o <<Head(input)>>
  /\ Len(writes') <= HighWaterMark /\ Len(output') <= HighWaterMark
  /\ outputPaused' => writes' # <<>>
  /\ ~outputPaused' => Len(writes') < HighWaterMark
  /\ piped /\ output' # <<>> => outputPaused'
  /\ stage' = "held" => Len(output') = HighWaterMark
  /\ stage' # "held" => Len(output') < HighWaterMark

(* The write callback of the Transform takes its first chunk away and lets  *)
(* what was read ahead come in, if that was the last.                       *)
LEMMA CallBackKeeps ==
  ASSUME IInv, input # <<>>, CallBack
  PROVE  stage' = "idle" /\ InputKept
<1> HighWaterMark \in Nat \ {0}
  BY BoundsAssumption
<1>1. /\ input \in Seq(Chunks) /\ readBuffer \in Seq(Chunks) /\ readPaused \in BOOLEAN
      /\ Len(readBuffer) <= 1 /\ Len(input) <= HighWaterMark
      /\ ~readPaused => readBuffer = <<>> /\ Len(input) < HighWaterMark
  BY DEF IInv, TypeOK, PushesBack, Slack
<1>2. /\ Tail(input) \in Seq(Chunks) /\ Len(Tail(input)) = Len(input) - 1
      /\ Len(input) \in Nat \ {0} /\ Len(readBuffer) \in Nat
  BY <1>1, HeadAndTail, EmptyIff
<1>3. CASE Len(input) = 1 /\ readPaused
  <2>0. /\ input' = readBuffer /\ readBuffer' = <<>> /\ stage' = "idle"
        /\ readPaused' = (Len(readBuffer) >= HighWaterMark)
    BY <1>3, Zenon DEF CallBack
  <2>1. /\ readPaused' \in BOOLEAN
        /\ readPaused' => Len(readBuffer) >= HighWaterMark
        /\ ~readPaused' => Len(readBuffer) < HighWaterMark
    BY <1>2, <2>0, Comparison
  <2>2. Tail(input) = <<>>
    BY <1>1, <1>3, TailOfOne
  <2>3. input' \o readBuffer' = Tail(input) \o readBuffer
    BY <1>1, <2>0, <2>2, ConcatEmpty
  <2>4. ~readPaused' => readBuffer' = <<>> /\ Len(input') < HighWaterMark
    BY <1>2, <2>0, <2>1
  <2>5. readPaused' => input' # <<>>
    BY <1>1, <1>2, <2>0, <2>1, EmptyIff
  <2>6. /\ input' \in Seq(Chunks) /\ readBuffer' \in Seq(Chunks)
        /\ Len(readBuffer') <= 1 /\ Len(input') <= HighWaterMark
    BY <1>1, <1>2, <2>0, EmptyIff
  <2> QED
    BY <2>0, <2>1, <2>3, <2>4, <2>5, <2>6 DEF InputKept, InTransform
<1>4. CASE ~(Len(input) = 1 /\ readPaused)
  <2>1. input' = Tail(input) /\ readBuffer' = readBuffer /\ readPaused' = readPaused
        /\ stage' = "idle"
    BY <1>4 DEF CallBack
  <2>2. readPaused => Tail(input) # <<>>
    <3>1. Tail(input) = <<>> => Len(Tail(input)) = 0
      BY <1>2, EmptyIff
    <3>2. readPaused => Len(input) # 1
      BY <1>4
    <3> QED BY <1>2, <3>1, <3>2
  <2> QED
    BY <1>1, <1>2, <2>1, <2>2 DEF InputKept, InTransform
<1> QED BY <1>3, <1>4

(* What is pushed is behind everything that has left the Transform. *)
LEMMA PushKeeps ==
  ASSUME IInv, stage \in {"handling", "refusing"}, PushAndCallBack
  PROVE  InputKept /\ Pushed
<1> HighWaterMark \in Nat \ {0}
  BY BoundsAssumption
<1>1. /\ input \in Seq(Chunks) /\ readBuffer \in Seq(Chunks) /\ output \in Seq(Chunks)
      /\ writes \in Seq(Chunks) /\ readPaused \in BOOLEAN /\ outputPaused \in BOOLEAN
      /\ piped \in BOOLEAN /\ input # <<>>
  BY DEF IInv, TypeOK
<1>2. /\ Len(readBuffer) <= 1 /\ Len(input) <= HighWaterMark /\ Len(output) < HighWaterMark
      /\ Len(writes) <= HighWaterMark
      /\ ~readPaused => readBuffer = <<>> /\ Len(input) < HighWaterMark
      /\ ~outputPaused => Len(writes) < HighWaterMark
      /\ readPaused => input # <<>>
      /\ outputPaused => writes # <<>>
      /\ piped /\ output # <<>> => outputPaused
  BY DEF IInv, PushesBack, PausedForAReason, Slack
<1>3. Head(input) \in Chunks /\ Tail(input) \in Seq(Chunks)
  BY <1>1, HeadAndTail
<1> DEFINE m == Head(input)
<1>4. /\ Append(writes, m) \in Seq(Chunks) /\ Append(writes, m) = writes \o <<m>>
      /\ Len(Append(writes, m)) = Len(writes) + 1 /\ Append(writes, m) # <<>>
      /\ Append(output, m) \in Seq(Chunks) /\ Append(output, m) = output \o <<m>>
      /\ Len(Append(output, m)) = Len(output) + 1 /\ <<m>> \in Seq(Chunks)
      /\ Len(writes) \in Nat /\ Len(output) \in Nat
  BY <1>1, <1>3, AppendIsConcat, EmptyIff
<1>5. CASE piped /\ ~outputPaused
  <2>0. /\ writes' = Append(writes, m) /\ output' = output /\ CallBack
        /\ outputPaused' = (Len(writes) + 1 >= HighWaterMark)
    BY <1>5, Zenon DEF PushAndCallBack
  <2>1. /\ outputPaused' \in BOOLEAN
        /\ ~outputPaused' => Len(writes) + 1 < HighWaterMark
    BY <1>4, <2>0, Comparison
  <2>2. output = <<>> /\ Len(output) = 0
    BY <1>1, <1>2, <1>5, EmptyIff
  <2>3. writes' \o output' = (writes \o output) \o <<m>>
    BY <1>1, <1>4, <2>0, <2>2, ConcatEmpty
  <2>4. stage' = "idle" /\ InputKept
    BY <1>1, <2>0, CallBackKeeps
  <2>5. /\ writes' \in Seq(Chunks) /\ output' \in Seq(Chunks)
        /\ Len(writes') <= HighWaterMark /\ Len(output') < HighWaterMark
        /\ writes' # <<>> /\ output' = <<>>
        /\ ~outputPaused' => Len(writes') < HighWaterMark
    BY <1>1, <1>2, <1>4, <1>5, <2>0, <2>1, <2>2
  <2>6. Pushed
    BY <2>1, <2>3, <2>4, <2>5 DEF Pushed
  <2> QED BY <2>4, <2>6
<1>6. CASE ~(piped /\ ~outputPaused)
  <2>1. output' = Append(output, m) /\ writes' = writes /\ outputPaused' = outputPaused
    BY <1>6 DEF PushAndCallBack
  <2>2. writes' \o output' = (writes \o output) \o <<m>>
    BY <1>1, <1>4, <2>1, ConcatAssoc
  <2>3. /\ writes' \in Seq(Chunks) /\ output' \in Seq(Chunks) /\ outputPaused' \in BOOLEAN
        /\ Len(writes') <= HighWaterMark /\ Len(output') <= HighWaterMark
        /\ outputPaused' => writes' # <<>>
        /\ ~outputPaused' => Len(writes') < HighWaterMark
        /\ piped => outputPaused'
    BY <1>1, <1>2, <1>4, <1>6, <2>1
  <2>4. CASE Len(output) + 1 < HighWaterMark
    <3>1. CallBack
      BY <1>6, <2>4 DEF PushAndCallBack
    <3>2. stage' = "idle" /\ InputKept
      BY <1>1, <3>1, CallBackKeeps
    <3>3. Len(output') < HighWaterMark
      BY <1>4, <2>1, <2>4
    <3>4. Pushed
      BY <2>2, <2>3, <3>2, <3>3 DEF Pushed
    <3> QED BY <3>2, <3>4
  <2>5. CASE ~(Len(output) + 1 < HighWaterMark)
    <3>1. stage' = "held" /\ input' = input /\ readBuffer' = readBuffer
          /\ readPaused' = readPaused
      BY <1>6, <2>5 DEF PushAndCallBack
    <3>2. Len(output') = HighWaterMark
      BY <1>2, <1>4, <2>1, <2>5
    <3>3. Pushed
      BY <2>2, <2>3, <3>1, <3>2 DEF Pushed
    <3>4. InputKept
      BY <1>1, <1>2, <3>1 DEF InputKept, InTransform
    <3> QED BY <3>3, <3>4
  <2> QED BY <2>4, <2>5
<1> QED BY <1>5, <1>6

-----------------------------------------------------------------------------
(* Every step preserves the invariant. *)

(* What the invariant says of the second half of the pipeline. *)
LEMMA InQueue ==
  ASSUME IInv
  PROVE  /\ written \in Seq(Chunks) /\ writes \in Seq(Chunks) /\ output \in Seq(Chunks)
         /\ input \in Seq(Chunks) /\ readBuffer \in Seq(Chunks)
         /\ Left \in Seq(Chunks) /\ Within \in Seq(Chunks)
         /\ Left \o Within = [k \in 1..taken |-> k]
BY TwoParts DEF IInv, TypeOK, Parted

(* The response, nothing or Error of the first chunk is pushed. *)
LEMMA HandledKeeps ==
  ASSUME IInv, stage \in {"handling", "refusing"}, PushAndCallBack,
         NEW r \in Results, result' = [result EXCEPT ![Head(input)] = r],
         UNCHANGED <<channels, arrived, handling, taken, written, crashed>>
  PROVE  IInv'
<1> USE DEF channels, handling
<1>1. InputKept /\ Pushed
  BY PushKeeps
<1>2. /\ written \in Seq(Chunks) /\ writes \in Seq(Chunks) /\ output \in Seq(Chunks)
      /\ input \in Seq(Chunks) /\ readBuffer \in Seq(Chunks) /\ input # <<>>
      /\ Left \in Seq(Chunks)
      /\ Left \o Within = [k \in 1..taken |-> k]
  BY InQueue DEF IInv, TypeOK
<1>3. /\ Head(input) \in Chunks /\ Tail(input) \in Seq(Chunks) /\ <<Head(input)>> \in Seq(Chunks)
      /\ input = <<Head(input)>> \o Tail(input)
  BY <1>2, HeadAndTail
<1>4. TypeOK'
  <2>1. result' \in [Chunks -> Results]
    BY DEF IInv, TypeOK
  <2>2. /\ stage' \in TransformStages /\ (stage' # "idle" => input' # <<>>)
        /\ readPaused' \in BOOLEAN /\ outputPaused' \in BOOLEAN
        /\ readBuffer' \in Seq(Chunks) /\ input' \in Seq(Chunks) /\ output' \in Seq(Chunks)
        /\ writes' \in Seq(Chunks) /\ written' \in Seq(Chunks)
    BY <1>1, <1>2 DEF InputKept, Pushed, TransformStages
  <2>3. TypeOK
    BY DEF IInv
  <2> QED
    BY <2>1, <2>2, <2>3 DEF TypeOK, Chunks
<1>5. NothingLostOrReordered'
  <2>1. Left' = Left \o <<Head(input)>>
    <3> DEFINE w == writes' \o output'
               q == writes \o output
               h == <<Head(input)>>
    <3>1. /\ writes' \in Seq(Chunks) /\ output' \in Seq(Chunks) /\ q \in Seq(Chunks)
          /\ w = q \o h
      BY <1>1, <1>2, ConcatType DEF Pushed
    <3>6. /\ written \in Seq(Chunks) /\ writes' \in Seq(Chunks) /\ output' \in Seq(Chunks)
          /\ writes \in Seq(Chunks) /\ output \in Seq(Chunks) /\ q \in Seq(Chunks)
          /\ h \in Seq(Chunks)
      BY <1>2, <1>3, <3>1
    <3>2. (written \o writes') \o output' = written \o w
      BY <3>6, ConcatAssoc, SMTT(30)
    <3>3. (written \o writes) \o output = written \o q
      <4>1. written \in Seq(Chunks) /\ writes \in Seq(Chunks) /\ output \in Seq(Chunks)
        BY <3>6
      <4> QED BY <4>1, ConcatAssoc
    <3>4. written \o (q \o h) = (written \o q) \o h
      <4> HIDE DEF q, h
      <4>1. written \in Seq(Chunks) /\ q \in Seq(Chunks) /\ h \in Seq(Chunks)
        BY <3>6
      <4> QED BY <4>1, ConcatAssoc
    <3>5. Left' = (written \o writes') \o output'
      BY DEF Left
    <3> QED BY <3>1, <3>2, <3>3, <3>4, <3>5 DEF Left
  <2>2. Within = <<Head(input)>> \o Within'
    <3>1. Within = input \o readBuffer
      BY DEF Within, InTransform
    <3>2. Within' = Tail(input) \o readBuffer
      BY <1>1 DEF Within, InputKept
    <3>3. (<<Head(input)>> \o Tail(input)) \o readBuffer
            = <<Head(input)>> \o (Tail(input) \o readBuffer)
      BY <1>2, <1>3, ConcatAssoc, SMTT(30)
    <3> QED BY <1>3, <3>1, <3>2, <3>3
  <2>3. Within' \in Seq(Chunks)
    BY <1>4, TwoPartsNext DEF Parted
  <2>4. Left' \o Within' = Left \o Within
    <3> DEFINE h == <<Head(input)>>
    <3>0. Left \in Seq(Chunks) /\ h \in Seq(Chunks) /\ Within' \in Seq(Chunks)
      BY <1>2, <1>3, <2>3
    <3>1. (Left \o h) \o Within' = Left \o (h \o Within')
      <4> HIDE DEF h
      <4> QED BY <3>0, ConcatAssoc
    <3> QED BY <2>1, <2>2, <3>1
  <2>5. Left' \o Within' = [k \in 1..taken' |-> k]
    BY <1>2, <2>4
  <2> QED BY <1>4, <2>5, TwoPartsNext DEF Parted
<1>6. PushesBack' /\ PausedForAReason' /\ Slack'
  <2>1. PushesBack'
    BY <1>1 DEF InputKept, Pushed, PushesBack
  <2>2. PausedForAReason'
    BY <1>1 DEF InputKept, Pushed, PausedForAReason
  <2>3. Slack'
    <3>1. listening
      BY <1>2 DEF IInv, Slack
    <3> QED BY <1>1, <3>1 DEF InputKept, Pushed, Slack
  <2> QED BY <2>1, <2>2, <2>3
<1> QED BY <1>4, <1>5, <1>6 DEF IInv

(* A step that moves no chunk. *)
LEMMA NothingMoves ==
  ASSUME IInv, TypeOK',
         UNCHANGED <<taken, readBuffer, readPaused, input, output, outputPaused, writes, written>>,
         stage' = "held" <=> stage = "held",
         piped' = piped \/ output = <<>>,
         listening' = listening \/ listening' = TRUE
  PROVE  IInv'
<1>1. NothingLostOrReordered'
  BY DEF IInv, NothingLostOrReordered, InTransform
<1>2. PushesBack' /\ PausedForAReason'
  BY DEF IInv, PushesBack, PausedForAReason
<1>3. Slack'
  BY DEF IInv, Slack
<1> QED BY <1>1, <1>2, <1>3 DEF IInv

(* A message comes in, and goes where there is room for it. *)
LEMMA TakeKeeps ==
  ASSUME IInv, Take
  PROVE  IInv'
<1> HighWaterMark \in Nat \ {0}
  BY BoundsAssumption
<1>1. /\ written \in Seq(Chunks) /\ writes \in Seq(Chunks) /\ output \in Seq(Chunks)
      /\ input \in Seq(Chunks) /\ readBuffer \in Seq(Chunks)
      /\ Left \in Seq(Chunks) /\ Within \in Seq(Chunks) /\ InTransform \in Seq(Chunks)
      /\ Left \o Within = [k \in 1..taken |-> k]
  BY InQueue, TwoParts DEF IInv, Parted
<1>2. /\ taken' = taken + 1 /\ taken \in Nat /\ taken' \in Chunks
      /\ taken' <= arrived /\ taken' <= limit /\ limit \in 0..MaxMessages /\ listening
  <2>1. /\ taken \in 0..arrived /\ arrived \in 0..MaxMessages /\ limit \in taken..MaxMessages
        /\ taken < arrived /\ taken < limit /\ taken' = taken + 1 /\ listening
    BY DEF Take, IInv, TypeOK
  <2>2. MaxMessages \in Nat
    BY BoundsAssumption
  <2> QED BY <2>1, <2>2 DEF Chunks
<1> DEFINE t == taken'
<1>3. /\ UNCHANGED <<output, outputPaused, writes, written, stage, piped, listening, limit, arrived>>
      /\ UNCHANGED <<channels, handling, result, crashed>>
  BY DEF Take, channels, handling
<1>4. \/ /\ readPaused /\ readBuffer = <<>> /\ readBuffer' = <<t>>
         /\ input' = input /\ readPaused' = readPaused
      \/ /\ ~readPaused /\ input' = Append(input, t) /\ readBuffer' = readBuffer
         /\ readPaused' = (Len(input) + 1 >= HighWaterMark)
  BY DEF Take
<1>5. /\ Append(input, t) = input \o <<t>> /\ Append(input, t) \in Seq(Chunks)
      /\ <<t>> \in Seq(Chunks) /\ Len(Append(input, t)) = Len(input) + 1
      /\ Append(input, t) # <<>> /\ Len(<<t>>) = 1 /\ Len(input) \in Nat
  BY <1>1, <1>2, AppendIsConcat, EmptyIff
<1>6. /\ ~readPaused => readBuffer = <<>> /\ Len(input) < HighWaterMark
      /\ Len(readBuffer) <= 1 /\ Len(input) <= HighWaterMark
      /\ readPaused => input # <<>>
      /\ stage # "idle" => input # <<>>
      /\ readPaused \in BOOLEAN
  BY DEF IInv, Slack, PushesBack, PausedForAReason, TypeOK
(* The first half of the pipeline. *)
<1>7. /\ readPaused' \in BOOLEAN
      /\ input' \in Seq(Chunks) /\ readBuffer' \in Seq(Chunks)
      /\ Len(readBuffer') <= 1 /\ Len(input') <= HighWaterMark
      /\ readPaused' => input' # <<>>
      /\ ~readPaused' => readBuffer' = <<>> /\ Len(input') < HighWaterMark
      /\ stage # "idle" => input' # <<>>
      /\ Within' = Within \o <<t>>
  <2>1. CASE readPaused
    <3>1. readBuffer = <<>> /\ readBuffer' = <<t>> /\ input' = input /\ readPaused' = readPaused
      BY <1>4, <2>1
    <3>2. InTransform' = InTransform
      BY <1>3, <3>1 DEF InTransform
    <3>3. Within' = Within \o <<t>>
      BY <1>1, <3>1, <3>2, ConcatEmpty DEF Within
    <3> HIDE DEF t
    <3> QED BY <1>1, <1>5, <1>6, <2>1, <3>1, <3>3
  <2>2. CASE ~readPaused
    <3>1. /\ input' = Append(input, t) /\ readBuffer' = readBuffer /\ readBuffer = <<>>
          /\ readPaused' = (Len(input) + 1 >= HighWaterMark)
      BY <1>4, <1>6, <2>2, Zenon
    <3>2. readPaused' \in BOOLEAN /\ (~readPaused' => Len(input) + 1 < HighWaterMark)
      <4>1. Len(input) + 1 \in Nat
        BY <1>5
      <4> QED BY <3>1, <4>1, Comparison
    <3>3. InTransform' = InTransform \o <<t>>
      <4>1. CASE stage = "held"
        BY <1>1, <1>2, <1>3, <1>5, <1>6, <3>1, <4>1, TailOfConcat DEF InTransform
      <4>2. CASE stage # "held"
        BY <1>3, <1>5, <3>1, <4>2 DEF InTransform
      <4> QED BY <4>1, <4>2
    <3>4. Within' = Within \o <<t>>
      <4> HIDE DEF t
      <4>1. InTransform \o <<t>> \in Seq(Chunks)
        BY <1>1, <1>5, ConcatType
      <4> QED BY <1>1, <3>1, <3>3, <4>1, ConcatEmpty DEF Within
    <3>5. /\ Len(input') <= HighWaterMark /\ input' # <<>>
          /\ ~readPaused' => Len(input') < HighWaterMark
      <4>1. Len(input') = Len(input) + 1 /\ Len(input) < HighWaterMark /\ input' # <<>>
        BY <1>5, <1>6, <2>2, <3>1
      <4> QED BY <1>5, <3>2, <4>1
    <3>6. input' \in Seq(Chunks) /\ readBuffer' \in Seq(Chunks) /\ Len(readBuffer') <= 1
      BY <1>1, <1>5, <1>6, <3>1
    <3> HIDE DEF t
    <3> QED BY <3>1, <3>2, <3>4, <3>5, <3>6
  <2> QED BY <1>6, <2>1, <2>2
<1>8. TypeOK'
  <2>1. /\ taken' \in 0..arrived' /\ limit' \in taken'..MaxMessages
    BY <1>2, <1>3
  <2>2. TypeOK
    BY DEF IInv
  <2> QED BY <1>3, <1>7, <2>1, <2>2 DEF TypeOK, channels, handling, Chunks
<1>9. NothingLostOrReordered'
  <2>1. Left' = Left
    BY <1>3 DEF Left
  <2>2. Left \o (Within \o <<t>>) = (Left \o Within) \o <<t>>
    <3> HIDE DEF t
    <3>1. Left \in Seq(Chunks) /\ Within \in Seq(Chunks) /\ <<t>> \in Seq(Chunks)
      BY <1>1, <1>5
    <3> QED BY <3>1, ConcatAssoc
  <2>3. [k \in 1..t |-> k] = [k \in 1..taken |-> k] \o <<t>>
    BY <1>2, Counting
  <2>4. Left' \o Within' = [k \in 1..taken' |-> k]
    BY <1>1, <1>7, <2>1, <2>2, <2>3
  <2> QED BY <1>8, <2>4, TwoPartsNext DEF Parted
<1>10. PushesBack' /\ PausedForAReason' /\ Slack'
  <2>1. PushesBack'
    BY <1>3, <1>7 DEF IInv, PushesBack
  <2>2. PausedForAReason'
    BY <1>3, <1>7 DEF IInv, PausedForAReason
  <2>3. Slack'
    BY <1>2, <1>3, <1>7 DEF IInv, Slack
  <2> QED BY <2>1, <2>2, <2>3
<1> QED BY <1>8, <1>9, <1>10 DEF IInv

(* A response is on its stream, and the Transform goes on if that was the   *)
(* last of what was being written.                                          *)
LEMMA XaddKeeps ==
  ASSUME IInv, XaddReturns
  PROVE  IInv'
<1> HighWaterMark \in Nat \ {0}
  BY BoundsAssumption
<1> DEFINE w == Head(writes)
           n == IF Len(output) < HighWaterMark THEN Len(output) ELSE HighWaterMark
           drained == Len(writes) = 1 /\ outputPaused
<1>1. /\ written \in Seq(Chunks) /\ writes \in Seq(Chunks) /\ output \in Seq(Chunks)
      /\ input \in Seq(Chunks) /\ readBuffer \in Seq(Chunks) /\ writes # <<>>
      /\ Left \in Seq(Chunks) /\ Within \in Seq(Chunks) /\ InTransform \in Seq(Chunks)
      /\ Left \o Within = [k \in 1..taken |-> k]
  BY InQueue, TwoParts DEF IInv, Parted, XaddReturns
<1>2. /\ w \in Chunks /\ Tail(writes) \in Seq(Chunks) /\ Len(Tail(writes)) = Len(writes) - 1
      /\ writes = <<w>> \o Tail(writes) /\ Len(writes) \in Nat \ {0}
      /\ Append(written, w) = written \o <<w>> /\ Append(written, w) \in Seq(Chunks)
      /\ <<w>> \in Seq(Chunks) /\ Len(output) \in Nat
  BY <1>1, HeadAndTail, AppendIsConcat, EmptyIff
<1>3. /\ written' = Append(written, w)
      /\ UNCHANGED <<channels, arrived, handling, taken, result, crashed>>
      /\ UNCHANGED <<piped, listening, taken>>
  BY DEF XaddReturns, channels
<1>4. /\ Len(readBuffer) <= 1 /\ Len(input) <= HighWaterMark
      /\ Len(output) <= HighWaterMark /\ Len(writes) <= HighWaterMark
      /\ ~readPaused => readBuffer = <<>> /\ Len(input) < HighWaterMark
      /\ stage # "held" => Len(output) < HighWaterMark
      /\ ~outputPaused => Len(writes) < HighWaterMark
      /\ readPaused => input # <<>>
      /\ stage = "held" => Len(output) = HighWaterMark
      /\ piped /\ output # <<>> => outputPaused
      /\ outputPaused \in BOOLEAN /\ readPaused \in BOOLEAN
      /\ stage \in TransformStages /\ (stage # "idle" => input # <<>>)
  BY DEF IInv, PushesBack, PausedForAReason, Slack, TypeOK
<1>5. n = Len(output) /\ SubSeq(output, 1, n) = output /\ SubSeq(output, n + 1, Len(output)) = <<>>
  <2>1. n = Len(output)
    BY <1>2, <1>4
  <2>2. SubSeq(output, 1, Len(output)) = output
    BY <1>1
  <2>3. SubSeq(output, Len(output) + 1, Len(output)) \in Seq(Chunks)
        /\ Len(SubSeq(output, Len(output) + 1, Len(output))) = 0
    BY <1>1, <1>2, Cut
  <2> QED BY <2>1, <2>2, <2>3, EmptyIff
(* The second half of the pipeline. *)
<1>6. /\ writes' \in Seq(Chunks) /\ output' \in Seq(Chunks) /\ outputPaused' \in BOOLEAN
      /\ writes' \o output' = Tail(writes) \o output
      /\ Len(writes') <= HighWaterMark /\ Len(output') <= HighWaterMark
      /\ outputPaused' => writes' # <<>>
      /\ ~outputPaused' => Len(writes') < HighWaterMark
      /\ piped /\ output' # <<>> => outputPaused'
      /\ drained => output' = <<>>
      /\ ~drained => output' = output
  <2>1. CASE drained
    <3>0. /\ writes' = SubSeq(output, 1, n) /\ output' = SubSeq(output, n + 1, Len(output))
          /\ outputPaused' = (n >= HighWaterMark)
      BY <2>1, Zenon DEF XaddReturns
    <3> HIDE DEF n
    <3>1. writes' = output /\ output' = <<>> /\ outputPaused' = (Len(output) >= HighWaterMark)
      BY <1>5, <3>0, Zenon
    <3>2. /\ outputPaused' \in BOOLEAN
          /\ outputPaused' => Len(output) >= HighWaterMark
          /\ ~outputPaused' => Len(output) < HighWaterMark
      BY <1>2, <3>1, Comparison
    <3>3. Tail(writes) = <<>>
      BY <1>1, <2>1, TailOfOne
    <3>4. writes' \o output' = Tail(writes) \o output
      BY <1>1, <3>1, <3>3, ConcatEmpty
    <3>5. outputPaused' => writes' # <<>>
      BY <1>1, <3>1, <3>2, EmptyIff
    <3>6. /\ writes' \in Seq(Chunks) /\ output' \in Seq(Chunks)
          /\ Len(writes') <= HighWaterMark /\ Len(output') <= HighWaterMark
      BY <1>1, <1>4, <3>1
    <3> QED BY <2>1, <3>1, <3>2, <3>4, <3>5, <3>6
  <2>2. CASE ~drained
    <3>1. writes' = Tail(writes) /\ output' = output /\ outputPaused' = outputPaused
      BY <2>2 DEF XaddReturns
    <3>2. outputPaused => Tail(writes) # <<>>
      <4>1. Tail(writes) = <<>> => Len(Tail(writes)) = 0
        BY <1>2, EmptyIff
      <4>2. outputPaused => Len(writes) # 1
        BY <2>2
      <4> QED BY <1>2, <4>1, <4>2
    <3> QED BY <1>1, <1>2, <1>4, <2>2, <3>1, <3>2, SMTT(30)
  <2> QED BY <2>1, <2>2
(* The first half. *)
<1>7. /\ stage' \in TransformStages /\ (stage' # "idle" => input' # <<>>)
      /\ readPaused' \in BOOLEAN
      /\ input' \in Seq(Chunks) /\ readBuffer' \in Seq(Chunks)
      /\ Within' = Within
      /\ Len(readBuffer') <= 1 /\ Len(input') <= HighWaterMark
      /\ readPaused' => input' # <<>>
      /\ ~readPaused' => readBuffer' = <<>> /\ Len(input') < HighWaterMark
      /\ stage' = "held" => stage = "held" /\ ~drained
      /\ stage' # "held" => stage # "held" \/ drained
      /\ input = <<>> => input' = <<>>
  <2>1. CASE drained /\ stage = "held"
    <3>1. CallBack /\ input # <<>>
      BY <1>4, <2>1 DEF XaddReturns
    <3>2. stage' = "idle" /\ InputKept
      BY <3>1, CallBackKeeps
    <3>3. Within' = Within
      BY <2>1, <3>2 DEF Within, InTransform, InputKept
    <3> QED BY <2>1, <3>1, <3>2, <3>3 DEF InputKept, TransformStages
  <2>2. CASE ~(drained /\ stage = "held")
    <3>1. UNCHANGED <<stage, input, readBuffer, readPaused>>
      BY <2>2 DEF XaddReturns
    <3>2. Within' = Within
      BY <3>1 DEF Within, InTransform
    <3> QED BY <1>1, <1>4, <2>2, <3>1, <3>2
  <2> QED BY <2>1, <2>2
<1>8. TypeOK'
  <2>1. TypeOK
    BY DEF IInv
  <2>2. written' \in Seq(Chunks)
    BY <1>2, <1>3
  <2> QED BY <1>3, <1>6, <1>7, <2>1, <2>2 DEF TypeOK, channels, handling, Chunks
<1>9. NothingLostOrReordered'
  <2>1. Left' = Left
    <3> DEFINE v == Tail(writes)
               h == <<w>>
    <3>0. /\ written \in Seq(Chunks) /\ v \in Seq(Chunks) /\ h \in Seq(Chunks)
          /\ output \in Seq(Chunks) /\ writes' \in Seq(Chunks) /\ output' \in Seq(Chunks)
          /\ written \o h \in Seq(Chunks)
      BY <1>1, <1>2, <1>6
    <3>1. ((written \o h) \o writes') \o output' = (written \o h) \o (writes' \o output')
      <4> HIDE DEF h
      <4> QED BY <3>0, ConcatAssoc, ZenonT(40)
    <3>2. ((written \o h) \o v) \o output = (written \o h) \o (v \o output)
      <4> HIDE DEF h, v
      <4>1. written \o h \in Seq(Chunks) /\ v \in Seq(Chunks) /\ output \in Seq(Chunks)
        BY <3>0
      <4> QED BY <4>1, ConcatAssoc
    <3>3. (written \o h) \o v = written \o (h \o v)
      <4> HIDE DEF h, v
      <4>1. written \in Seq(Chunks) /\ h \in Seq(Chunks) /\ v \in Seq(Chunks)
        BY <3>0
      <4> QED BY <4>1, ConcatAssoc
    <3>4. h \o v = writes
      BY <1>2
    <3>5. written' = written \o h
      BY <1>2, <1>3
    <3>6. Left' = ((written \o h) \o writes') \o output'
      BY <3>5 DEF Left
    <3>7. writes' \o output' = v \o output
      BY <1>6
    <3> QED BY <3>1, <3>2, <3>3, <3>4, <3>6, <3>7 DEF Left
  <2>2. Left' \o Within' = [k \in 1..taken' |-> k]
    BY <1>1, <1>3, <1>7, <2>1
  <2> QED BY <1>8, <2>2, TwoPartsNext DEF Parted
<1>10. PushesBack' /\ PausedForAReason' /\ Slack'
  <2>1. PushesBack'
    BY <1>6, <1>7 DEF PushesBack
  <2>2. PausedForAReason'
    BY <1>3, <1>4, <1>6, <1>7 DEF PausedForAReason
  <2>3. Slack'
    <3>1. ~listening => input = <<>> /\ output = <<>>
      BY DEF IInv, Slack
    <3>2. stage' # "held" => Len(output') < HighWaterMark
      <4>1. Len(<<>>) = 0
        OBVIOUS
      <4> QED BY <1>4, <1>6, <1>7, <4>1
    <3>3. output = <<>> => output' = <<>>
      BY <1>6
    <3> QED BY <1>3, <1>6, <1>7, <3>1, <3>2, <3>3 DEF Slack
  <2> QED BY <2>1, <2>2, <2>3
<1> QED BY <1>8, <1>9, <1>10 DEF IInv

-----------------------------------------------------------------------------
LEMMA NextIInv == IInv /\ [Next]_vars => IInv'
<1> SUFFICES ASSUME IInv, [Next]_vars PROVE IInv'
  OBVIOUS
<1> USE DEF channels, handling
<1>0. TypeOK /\ HighWaterMark \in Nat \ {0} /\ MaxMessages \in Nat /\ MaxSwitches \in Nat
  BY BoundsAssumption DEF IInv
<1>1. CASE Arrive
  <2>1. TypeOK'
    BY <1>0, <1>1 DEF Arrive, TypeOK, Chunks
  <2> QED BY <1>1, <2>1, NothingMoves DEF Arrive
<1>2. ASSUME NEW type \in Types, RegisterStreamEvent(type) \/ DeregisterStreamEvent(type)
      PROVE  IInv'
  <2>0. streamEvents' \subseteq Types /\ switches' \in 0..MaxSwitches
    BY <1>0, <1>2 DEF RegisterStreamEvent, DeregisterStreamEvent, Switch, TypeOK
  <2>2. /\ UNCHANGED channels
        /\ UNCHANGED <<arrived, taken, readBuffer, readPaused, input, stage, result,
                       output, outputPaused, writes, written, crashed>>
    BY <1>2 DEF RegisterStreamEvent, DeregisterStreamEvent, Switch
  <2>1. TypeOK'
    BY <1>0, <2>0, <2>2 DEF TypeOK, Chunks
  <2> QED
    BY <1>2, <2>1, NothingMoves DEF RegisterStreamEvent, DeregisterStreamEvent, Switch
<1>3. CASE SetOutgoingChannel
  <2>1. outgoingChannel' \in Outgoing \cup {None} /\ outgoingStream' \in Outgoing \cup {None}
    BY <1>0, <1>3 DEF SetOutgoingChannel, TypeOK, Outgoing
  <2>2. streamEvents' \subseteq Types /\ switches' \in 0..MaxSwitches
    BY <1>0, <1>3, TypesAssumption DEF SetOutgoingChannel, Switch, TypeOK
  <2>3. TypeOK'
    BY <1>0, <1>3, <2>1, <2>2 DEF SetOutgoingChannel, Switch, TypeOK, Chunks
  <2> QED BY <1>3, <2>3, NothingMoves DEF SetOutgoingChannel, Switch
<1>4. CASE ConnectAndListen
  <2>1. TypeOK'
    BY <1>0, <1>4 DEF ConnectAndListen, pipeline, TypeOK, Chunks
  <2>2. output = <<>>
    BY <1>4 DEF ConnectAndListen, IInv, Slack
  <2> QED BY <1>4, <2>1, <2>2, NothingMoves DEF ConnectAndListen, pipeline
<1>5. CASE Disconnect
  <2>1. limit' \in taken..MaxMessages
    BY <1>0, <1>5 DEF Disconnect, TypeOK
  <2>2. connected' \subseteq Channels /\ crashed' \in BOOLEAN
    BY <1>0, <1>5 DEF Disconnect, TypeOK
  <2>3. TypeOK'
    BY <1>0, <1>5, <2>1, <2>2 DEF Disconnect, pipeline, TypeOK, Chunks
  <2> QED BY <1>5, <2>3, NothingMoves DEF Disconnect, pipeline
<1>6. CASE Take
  BY <1>6, TakeKeeps
<1>7. ASSUME NEW type \in Types, Process(type)
      PROVE  IInv'
  <2>1. TypeOK'
    BY <1>0, <1>7 DEF Process, TypeOK, Chunks, TransformStages
  <2>2. stage' # "held" /\ stage # "held"
    BY <1>7 DEF Process
  <2> QED BY <1>7, <2>1, <2>2, NothingMoves DEF Process
<1>8. ASSUME NEW outcome \in Outcomes, HandlerReturns(outcome)
      PROVE  IInv'
  <2>1. PICK r \in Results : result' = [result EXCEPT ![Head(input)] = r]
    <3>1. (IF outcome = "value" THEN "response" ELSE "nothing") \in Results
      BY DEF Results
    <3> QED BY <1>8, <3>1 DEF HandlerReturns
  <2> QED BY <1>8, <2>1, HandledKeeps DEF HandlerReturns
<1>9. CASE NoHandler
  <2>1. "error" \in Results
    BY DEF Results
  <2> QED BY <1>9, <2>1, HandledKeeps DEF NoHandler
<1>10. CASE HandlerThrows
  <2>0. input # <<>>
    BY <1>0, <1>10 DEF HandlerThrows, TypeOK
  <2>1. TypeOK'
    BY <1>0, <1>10, <2>0 DEF HandlerThrows, TypeOK, Chunks, TransformStages
  <2>2. stage' # "held" /\ stage # "held"
    BY <1>10 DEF HandlerThrows
  <2> QED BY <1>10, <2>1, <2>2, NothingMoves DEF HandlerThrows
<1>11. CASE XaddReturns
  BY <1>11, XaddKeeps
<1>12. CASE XaddFails
  <2>1. TypeOK'
    BY <1>0, <1>12 DEF XaddFails, pipeline, TypeOK, Chunks
  <2> QED BY <1>12, <2>1, NothingMoves DEF XaddFails, pipeline
<1>13. CASE UNCHANGED vars
  <2>1. TypeOK'
    BY <1>0, <1>13 DEF vars, TypeOK, Chunks
  <2> QED BY <1>13, <2>1, NothingMoves DEF vars
<1> QED
  BY <1>1, <1>2, <1>3, <1>4, <1>5, <1>6, <1>7, <1>8, <1>9, <1>10, <1>11, <1>12, <1>13 DEF Next

(* The four facts below hold together, and with them the room a stage has    *)
(* that has not asked to pause.                                             *)
THEOREM SpecIInv == Spec => []IInv
<1> QED BY InitIInv, NextIInv, PTL DEF Spec

(* Everything the pipeline keeps has the shape the code gives it. *)
THEOREM ConsumerTypeOK == Spec => []TypeOK
<1>1. IInv => TypeOK
  BY DEF IInv
<1> QED BY <1>1, SpecIInv, PTL

(* However the stages pause and drain, and whenever the channels are set,   *)
(* connected or disconnected, every message taken is at one place of the    *)
(* pipeline, in the order of arrival.                                       *)
THEOREM PipelineKeepsOrder == Spec => []NothingLostOrReordered
<1>1. IInv => NothingLostOrReordered
  BY DEF IInv
<1> QED BY <1>1, SpecIInv, PTL

(* No stage holds more than its highWaterMark, however many messages wait. *)
THEOREM PipelineIsBounded == Spec => []PushesBack
<1>1. IInv => PushesBack
  BY DEF IInv
<1> QED BY <1>1, SpecIInv, PTL

(* No stage pauses without something ahead of it that will resume it. *)
THEOREM PausesEnd == Spec => []PausedForAReason
<1>1. IInv => PausedForAReason
  BY DEF IInv
<1> QED BY <1>1, SpecIInv, PTL
=============================================================================
