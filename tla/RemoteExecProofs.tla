--------------------------- MODULE RemoteExecProofs ---------------------------
(***************************************************************************)
(* Proofs about RemoteExec, for any configurations, processes and buffer.  *)
(***************************************************************************)
EXTENDS RemoteExec, NaturalsFacts, SequenceTheorems, FiniteSetTheorems

-----------------------------------------------------------------------------
(* The invariant.                                                          *)

(* What may be sent with EXEC. *)
Payload == {Data(x) : x \in {y \in Program : Encodable(y)}}

(* The packets to the agent, and from it; the calls of posix_spawn. *)
Sent     == {p \in [kind: {"PROC", "EXEC"}, data: Seq(Byte)] : p.kind = "EXEC" => p.data \in Payload}
Complete == {a \in Answer : a.whole <= Len(a.list)}
Call     == [path: Text, argv: Seq(Text), envp: Seq(Text), ok: BOOLEAN]

FactoryType ==
  /\ script \in Scripts
  /\ main \in Ended \union {"next", "subscribe", "ask", "wait processes", "find", "send", "wait status"}
  /\ current \in 0..Len(script)
  /\ info \in [program: 0..Len(script), status: Status, set: BOOLEAN]
  /\ processes \in [known: BOOLEAN, garbled: BOOLEAN, list: Seq(Process)]
  /\ pid \in 0..MaxPid

QueueType ==
  /\ toAgent \in Seq(Sent) /\ toClient \in Seq(Complete)
  /\ handler \in Answer \union {NoAnswer}

DeviceType ==
  /\ alive \in BOOLEAN
  /\ DOMAIN table \subseteq Pid /\ \A p \in DOMAIN table : table[p] \in Text
  /\ spawned \in Seq(Call) /\ recent \subseteq Process

TypeInv == FactoryType /\ QueueType /\ DeviceType

Preparing == {"subscribe", "ask", "wait processes", "find", "send"}
Sending   == {"ask", "wait processes", "find", "send", "wait status"}

Idle == toAgent = <<>> /\ toClient = <<>> /\ handler = NoAnswer

(* The call for a program, whether or not it succeeded. *)
CalledAs(x, call) ==
  /\ call.path = x.path /\ call.envp = x.env
  /\ Len(call.argv) = Len(x.args) + 1 /\ call.argv[1] = x.path
  /\ \A i \in DOMAIN x.args :
       \/ call.argv[i + 1] = x.args[i]
       \/ x.args[i] = PidArg /\ \E p \in 0..MaxPid : call.argv[i + 1] = <<p>>

(* Where the question for the processes is. *)
ListStage ==
  /\ handler = NoAnswer
  /\ \/ /\ toAgent = <<[kind |-> "PROC", data |-> <<>>]>> /\ toClient = <<>>
        /\ ~processes.known
     \/ /\ toAgent = <<>> /\ Len(toClient) = 1 /\ toClient[1].kind = "RPRC"
        /\ ~processes.known
        /\ \A i \in DOMAIN toClient[1].list : toClient[1].list[i] \in recent
     \/ /\ toAgent = <<>> /\ toClient = <<>> /\ processes.known

(* Where the EXEC of the current program is. *)
Pending ==
  /\ toAgent = <<[kind |-> "EXEC", data |-> Data(Formatted(script[current]))]>>
  /\ toClient = <<>> /\ handler = NoAnswer /\ ~info.set
  /\ Len(spawned) = current - 1

Handled ==
  /\ toAgent = <<>> /\ Len(spawned) = current
  /\ CalledAs(script[current], spawned[current])
  /\ \/ /\ Len(toClient) = 1 /\ handler = NoAnswer /\ ~info.set
        /\ toClient[1].kind = "REXS" /\ toClient[1].name = script[current].name
        /\ toClient[1].status = 0 => spawned[current].ok
     \/ /\ toClient = <<>> /\ (info.set <=> handler = NoAnswer)
        /\ info.status = "Success" => spawned[current].ok

StageInv ==
  /\ main \in {"next", "subscribe", "ask", "find", "send", "done"} => Idle
  /\ main \in {"next", "done"} => Len(spawned) = current
  /\ main \in Preparing => Len(spawned) = current - 1 /\ ~info.set
  /\ main \in Preparing \union {"wait status"} => current >= 1 /\ info.program = current
  /\ main = "ask" => ~processes.known
  /\ main = "wait processes" => ListStage
  /\ main = "wait status" => Pending \/ Handled

StartedInv ==
  main \notin Ended \ {"done"} =>
    \A i \in 1..(IF main \in {"next", "done"} THEN current ELSE current - 1) :
      StartedAs(script[i], spawned[i])

PidInv ==
  main \in Sending =>
    /\ Running \subseteq recent
    /\ ~processes.garbled => \A i \in DOMAIN processes.list : processes.list[i] \in recent
    /\ main \in {"send", "wait status"} /\ NeedsPid(script[current]) /\ ~processes.garbled =>
         \E r \in recent : r.pid = pid /\ Contains(r.cmd, script[current].search)

Inv == TypeInv /\ StageInv /\ StartedInv /\ PidInv

-----------------------------------------------------------------------------
(* The encoding: what Data makes is parsed to what it was made from.       *)

(* s stands in d behind the first o bytes. *)
Has(d, o, s) == o + Len(s) <= Len(d) /\ \A i \in 1..Len(s) : d[o + i] = s[i]

(* A length is its two bytes. *)
LEMMA Int16Bytes ==
  ASSUME NEW n \in Nat, n < 32768
  PROVE  /\ Int16(n) \in Seq(Byte) /\ Len(Int16(n)) = 2
         /\ Int16(n)[1] + 256 * Int16(n)[2] = n
<1>1. n % 256 \in 0..255
  OBVIOUS
<1>2. n \div 256 \in 0..127
  OBVIOUS
<1>3. (n \div 256) % 256 = n \div 256
  BY <1>2
<1>4. n = 256 * (n \div 256) + (n % 256)
  OBVIOUS
<1>5. n % 256 \in Byte /\ (n \div 256) % 256 \in Byte
  BY <1>1, <1>2, <1>3 DEF Byte
<1> DEFINE a == n % 256
           b == (n \div 256) % 256
<1>6. a + 256 * b = n
  BY <1>1, <1>2, <1>3, <1>4
<1>7. Int16(n) = <<a, b>>
  BY DEF Int16
<1>8. a \in Byte /\ b \in Byte
  BY <1>5
<1> HIDE DEF a, b
<1> QED BY <1>6, <1>7, <1>8

(* An encoded text is two bytes longer. *)
LEMMA PutTextIs ==
  ASSUME NEW s \in Text, Short(s)
  PROVE  /\ PutText(s) \in Seq(Byte) /\ Len(PutText(s)) = Len(s) + 2
         /\ PutText(s)[1] + 256 * PutText(s)[2] = Len(s)
         /\ \A i \in 1..Len(s) : PutText(s)[i + 2] = s[i]
<1>1. Len(s) \in Nat /\ Len(s) < 32768 /\ s \in Seq(Byte)
  BY DEF Short, Text
<1> DEFINE h == Int16(Len(s))
<1>2. h \in Seq(Byte) /\ Len(h) = 2 /\ h[1] + 256 * h[2] = Len(s)
  BY <1>1, Int16Bytes
<1>3. PutText(s) = h \o s
  BY DEF PutText
<1> HIDE DEF h
<1>4. /\ Len(h \o s) = 2 + Len(s)
      /\ \A i \in 1..Len(h) + Len(s) : (h \o s)[i] = IF i <= Len(h) THEN h[i] ELSE s[i - Len(h)]
      /\ h \o s \in Seq(Byte)
  <2>1. /\ Len(h \o s) = Len(h) + Len(s) /\ h \o s \in Seq(Byte)
        /\ \A i \in 1..Len(h) + Len(s) : (h \o s)[i] = IF i <= Len(h) THEN h[i] ELSE s[i - Len(h)]
    <3>1. h \in Seq(Byte) /\ s \in Seq(Byte)
      BY <1>1, <1>2
    <3> QED BY ONLY <3>1, ConcatProperties
  <2> QED BY <1>1, <1>2, <2>1
<1>5. (h \o s)[1] = h[1] /\ (h \o s)[2] = h[2]
  BY <1>1, <1>2, <1>4
<1>6. ASSUME NEW i \in 1..Len(s) PROVE (h \o s)[i + 2] = s[i]
  BY <1>1, <1>2, <1>4
<1> QED BY <1>1, <1>2, <1>3, <1>4, <1>5, <1>6

(* The parts of a concatenation stand one behind the other. *)
LEMMA HasParts ==
  ASSUME NEW d \in Seq(Byte), NEW o \in Nat, NEW s \in Seq(Byte), NEW t \in Seq(Byte),
         Has(d, o, s \o t)
  PROVE  Has(d, o, s) /\ Has(d, o + Len(s), t) /\ Len(s \o t) = Len(s) + Len(t)
<1>1. /\ Len(s \o t) = Len(s) + Len(t)
      /\ \A i \in 1..Len(s \o t) : (s \o t)[i] = IF i <= Len(s) THEN s[i] ELSE t[i - Len(s)]
  BY ConcatProperties
<1>2. Len(s) \in Nat /\ Len(t) \in Nat /\ Len(d) \in Nat
  OBVIOUS
<1>3. Has(d, o, s)
  BY <1>1, <1>2 DEF Has
<1>4. o + Len(s) + Len(t) <= Len(d)
  BY <1>1, <1>2 DEF Has
<1>5. ASSUME NEW i \in 1..Len(t) PROVE d[o + Len(s) + i] = t[i]
  <2>1. Len(s) + i \in 1..Len(s \o t) /\ ~(Len(s) + i <= Len(s)) /\ (Len(s) + i) - Len(s) = i
    BY <1>1, <1>2
  <2>2. d[o + (Len(s) + i)] = (s \o t)[Len(s) + i]
    BY <2>1 DEF Has
  <2>3. o + (Len(s) + i) = o + Len(s) + i
    BY <1>2
  <2> QED BY <1>1, <2>1, <2>2, <2>3
<1> QED BY <1>1, <1>3, <1>4, <1>5 DEF Has

(* read_string_malloc returns the text, and goes on behind it. *)
LEMMA ReadText ==
  ASSUME NEW d \in Seq(Byte), NEW o \in Nat, NEW s \in Text, Short(s), Has(d, o, PutText(s))
  PROVE  TextAt(d, o) = s /\ Behind(d, o) = o + Len(PutText(s)) /\ Behind(d, o) \in Nat
<1> DEFINE p == PutText(s)
<1>1. /\ p \in Seq(Byte) /\ Len(p) = Len(s) + 2
      /\ p[1] + 256 * p[2] = Len(s)
      /\ \A i \in 1..Len(s) : p[i + 2] = s[i]
  BY PutTextIs
<1>2. o + Len(p) <= Len(d) /\ \A i \in 1..Len(p) : d[o + i] = p[i]
  BY DEF Has
<1>3. s \in Seq(Byte) /\ Len(s) \in Nat /\ Len(d) \in Nat
  BY DEF Text
<1> HIDE DEF p
<1>4. Int16At(d, o) = Len(s)
  <2>1. d[o + 1] = p[1] /\ d[o + 2] = p[2]
    BY <1>1, <1>2, <1>3
  <2> QED BY <1>1, <2>1 DEF Int16At
<1>5. Behind(d, o) = o + 2 + Len(s)
  BY <1>4 DEF Behind
<1> DEFINE t == SubSeq(d, o + 3, o + 2 + Len(s))
<1>6. TextAt(d, o) = t
  BY <1>4 DEF TextAt
<1>7. /\ t \in Seq(Byte) /\ Len(t) = Len(s)
      /\ \A i \in 1..Len(s) : t[i] = d[o + 2 + i]
  <2>1. o + 3 \in 1..Len(d) + 1 /\ o + 2 + Len(s) \in (o + 3) - 1..Len(d)
    BY <1>1, <1>2, <1>3
  <2>2. /\ t \in Seq(Byte)
        /\ Len(t) = IF o + 3 <= o + 2 + Len(s) THEN (o + 2 + Len(s)) - (o + 3) + 1 ELSE 0
        /\ \A i \in 1..(o + 2 + Len(s)) - (o + 3) + 1 : t[i] = d[o + 3 + i - 1]
    BY <2>1, <1>3, SubSeqProperties
  <2> HIDE DEF t
  <2>3. (o + 2 + Len(s)) - (o + 3) + 1 = Len(s)
    BY <1>3
  <2>4. ASSUME NEW i \in 1..Len(s) PROVE o + 3 + i - 1 = o + 2 + i
    BY <1>3
  <2> QED BY <1>3, <2>2, <2>3, <2>4
<1>8. ASSUME NEW i \in 1..Len(s) PROVE t[i] = s[i]
  <2> HIDE DEF t
  <2>1. i + 2 \in 1..Len(p) /\ o + (i + 2) = o + 2 + i
    BY <1>1, <1>3
  <2> QED BY <1>1, <1>2, <1>7, <2>1
<1>9. t = s
  <2> HIDE DEF t
  <2> QED BY <1>3, <1>7, <1>8, SeqEqual
<1> QED BY <1>1, <1>3, <1>5, <1>6, <1>9 DEF p

(* A list whose length and texts fit. *)
Fits(l) == l \in Seq(Text) /\ Short(l) /\ \A i \in 1..Len(l) : Short(l[i])

(* The bytes of a list grow with every text. *)
Grows(l, f) == f[0] = Int16(Len(l)) /\ \A i \in 1..Len(l) : f[i] = f[i - 1] \o PutText(l[i])

(* Each text of such a list has an encoding. *)
LEMMA TextFits ==
  ASSUME NEW l, Fits(l), NEW i \in 1..Len(l)
  PROVE  l[i] \in Text /\ Short(l[i]) /\ PutText(l[i]) \in Seq(Byte)
<1>1. l[i] \in Text
  BY ElementOfSeq DEF Fits
<1>2. Short(l[i])
  BY DEF Fits
<1> QED BY <1>1, <1>2, PutTextIs

(* There are such bytes. *)
LEMMA GrowsExists ==
  ASSUME NEW l, Fits(l)
  PROVE  \E f \in [0..Len(l) -> Seq(Byte)] : Grows(l, f)
<1> DEFINE N == Len(l)
           T(i) == PutText(l[i])
           I == Int16(N)
           Good(n, f) == f[0] = I /\ \A i \in 1..n : f[i] = f[i - 1] \o T(i)
           S == {n \in Nat : n <= N => \E f \in [0..n -> Seq(Byte)] : Good(n, f)}
<1>1. N \in Nat /\ I \in Seq(Byte)
  BY Int16Bytes DEF Fits, Short
<1>2. \A i \in 1..N : T(i) \in Seq(Byte)
  BY TextFits
<1> HIDE DEF N, T, I
<1>3. 0 \in S
  <2>1. Good(0, [i \in 0..0 |-> I]) /\ [i \in 0..0 |-> I] \in [0..0 -> Seq(Byte)]
    BY <1>1
  <2> QED BY <1>1, <2>1
<1>4. ASSUME NEW n \in Nat, n \in S PROVE n + 1 \in S
  <2> SUFFICES ASSUME n + 1 <= N PROVE \E f \in [0..n + 1 -> Seq(Byte)] : Good(n + 1, f)
    <3> HIDE DEF Good
    <3> QED BY <1>4
  <2>1. PICK f \in [0..n -> Seq(Byte)] : Good(n, f)
    <3> HIDE DEF Good
    <3>1. n <= N
      BY <1>1
    <3> QED BY <3>1, <1>4
  <2> DEFINE v == f[n] \o T(n + 1)
             h == [i \in 0..n + 1 |-> IF i = n + 1 THEN v ELSE f[i]]
  <2>2. v \in Seq(Byte)
    <3>1. f[n] \in Seq(Byte) /\ T(n + 1) \in Seq(Byte)
      BY <1>1, <1>2, <2>1
    <3> QED BY <3>1, ConcatProperties
  <2>3. v = f[n] \o T(n + 1)
    OBVIOUS
  <2> HIDE DEF v
  <2>4. h \in [0..n + 1 -> Seq(Byte)]
    BY <2>2
  <2>5. Good(n + 1, h)
    <3>1. h[0] = I
      BY <2>1
    <3>2. ASSUME NEW i \in 1..n + 1 PROVE h[i] = h[i - 1] \o T(i)
      <4>1. CASE i = n + 1
        <5>1. h[i] = v /\ h[i - 1] = f[n]
          BY <4>1
        <5> HIDE DEF h
        <5> QED BY <2>3, <4>1, <5>1
      <4>2. CASE i # n + 1
        <5>1. h[i] = f[i] /\ h[i - 1] = f[i - 1] /\ i \in 1..n
          BY <4>2
        <5> HIDE DEF h
        <5> QED BY <2>1, <5>1
      <4> QED BY <4>1, <4>2
    <3> HIDE DEF h
    <3> QED BY <3>1, <3>2
  <2> HIDE DEF h, Good
  <2> QED BY <2>4, <2>5
<1>5. Nat \subseteq S
  <2> HIDE DEF S
  <2> QED BY <1>3, <1>4, NatSetInduction
<1>6. N \in S
  BY <1>1, <1>5
<1>7. PICK f \in [0..N -> Seq(Byte)] : Good(N, f)
  <2> HIDE DEF Good
  <2> QED BY <1>1, <1>6
<1>8. Grows(l, f)
  BY <1>7 DEF Grows, N, T, I
<1> QED BY <1>7, <1>8 DEF N

(* PutList makes them. *)
LEMMA PutListIs ==
  ASSUME NEW l, Fits(l)
  PROVE  \E f \in [0..Len(l) -> Seq(Byte)] : Grows(l, f) /\ PutList(l) = f[Len(l)]
<1> DEFINE N == Len(l)
           I == Int16(N)
           Step(a, i) == a \o PutText(l[i])
           E(f) == [i \in 0..N |-> IF i = 0 THEN I ELSE Step(f[i - 1], i)]
           put == CHOOSE f : f = E(f)
<1>1. PutList(l) = put[N]
  BY DEF PutList
<1>2. PICK f \in [0..N -> Seq(Byte)] : Grows(l, f)
  BY GrowsExists
<1>3. N \in Nat
  BY DEF Fits
<1>0. f[0] = I /\ \A i \in 1..N : f[i] = Step(f[i - 1], i)
  BY <1>2 DEF Grows
<1> HIDE DEF N, I, Step
<1>4. f = E(f)
  BY <1>0, <1>2, <1>3
<1>5. put = E(put)
  BY <1>4
<1> HIDE DEF put
<1>6. DOMAIN put = 0..N /\ put[0] = I /\ \A i \in 1..N : put[i] = Step(put[i - 1], i)
  BY <1>3, <1>5
<1>7. Grows(l, put)
  BY <1>6 DEF Grows, N, I, Step
<1> DEFINE S == {n \in Nat : n <= N => put[n] \in Seq(Byte)}
<1>8. 0 \in S
  BY <1>3, <1>6, Int16Bytes DEF Fits, Short, N, I
<1>9. ASSUME NEW n \in Nat, n \in S PROVE n + 1 \in S
  <2> SUFFICES ASSUME n + 1 <= N PROVE put[n + 1] \in Seq(Byte)
    OBVIOUS
  <2>1. put[n] \in Seq(Byte)
    BY <1>3, <1>9
  <2>2. n + 1 \in 1..N /\ (n + 1) - 1 = n
    BY <1>3
  <2>3. put[n + 1] = put[n] \o PutText(l[n + 1])
    BY <1>6, <2>2 DEF Step
  <2>4. PutText(l[n + 1]) \in Seq(Byte)
    BY <2>2, TextFits DEF N
  <2> QED BY <2>1, <2>3, <2>4, ConcatProperties
<1>10. Nat \subseteq S
  <2> HIDE DEF S
  <2> QED BY <1>8, <1>9, NatSetInduction
<1>11. \A n \in 0..N : put[n] \in Seq(Byte)
  BY <1>3, <1>10
<1>12. put \in [0..N -> Seq(Byte)]
  <2>1. put = [i \in 0..N |-> put[i]]
    BY <1>5, <1>6
  <2> QED BY <1>11, <2>1
<1> QED BY <1>1, <1>7, <1>12 DEF N

(* Where the bytes of a list stand, those of each text stand behind the    *)
(* ones before it.                                                         *)
LEMMA TextsInList ==
  ASSUME NEW d \in Seq(Byte), NEW o \in Nat, NEW l, Fits(l),
         NEW f \in [0..Len(l) -> Seq(Byte)], Grows(l, f), Has(d, o, f[Len(l)])
  PROVE  /\ \A i \in 0..Len(l) : Has(d, o, f[i])
         /\ \A i \in 1..Len(l) : /\ Has(d, o + Len(f[i - 1]), PutText(l[i]))
                                 /\ Len(f[i]) = Len(f[i - 1]) + Len(PutText(l[i]))
<1> DEFINE N == Len(l)
<1>1. N \in Nat
  BY DEF Fits
<1>2. ASSUME NEW i \in 1..N, Has(d, o, f[i])
      PROVE  /\ Has(d, o, f[i - 1]) /\ Has(d, o + Len(f[i - 1]), PutText(l[i]))
             /\ Len(f[i]) = Len(f[i - 1]) + Len(PutText(l[i]))
  <2>1. f[i] = f[i - 1] \o PutText(l[i])
    BY DEF Grows
  <2>2. i - 1 \in 0..N
    BY <1>1
  <2>3. f[i - 1] \in Seq(Byte)
    BY <2>2
  <2>4. PutText(l[i]) \in Seq(Byte)
    BY TextFits
  <2>5. Has(d, o, f[i - 1] \o PutText(l[i]))
    BY <1>2, <2>1
  <2> DEFINE u == f[i - 1]
             t == PutText(l[i])
  <2>6. u \in Seq(Byte) /\ t \in Seq(Byte) /\ Has(d, o, u \o t)
    BY <2>3, <2>4, <2>5
  <2> HIDE DEF u, t
  <2>7. Has(d, o, u) /\ Has(d, o + Len(u), t) /\ Len(u \o t) = Len(u) + Len(t)
    BY <2>6, HasParts
  <2> QED BY <2>1, <2>7 DEF u, t
<1> DEFINE S == {n \in Nat : n <= N => Has(d, o, f[N - n])}
<1>3. Has(d, o, f[N])
  OBVIOUS
<1> HIDE DEF N
<1>4. 0 \in S
  BY <1>1, <1>3
<1>5. ASSUME NEW n \in Nat, n \in S PROVE n + 1 \in S
  <2> SUFFICES ASSUME n + 1 <= N PROVE Has(d, o, f[N - (n + 1)])
    OBVIOUS
  <2>1. Has(d, o, f[N - n]) /\ N - n \in 1..N /\ (N - n) - 1 = N - (n + 1)
    BY <1>1, <1>5
  <2> QED BY <1>2, <2>1
<1>6. Nat \subseteq S
  <2> HIDE DEF S
  <2> QED BY <1>4, <1>5, NatSetInduction
<1>7. ASSUME NEW i \in 0..N PROVE Has(d, o, f[i])
  <2>1. N - i \in Nat /\ N - i <= N /\ N - (N - i) = i
    BY <1>1
  <2>2. N - i \in S
    BY <1>6, <2>1
  <2>3. Has(d, o, f[N - (N - i)])
    BY <2>1, <2>2
  <2> QED BY <2>1, <2>3
<1>8. ASSUME NEW i \in 1..N PROVE Has(d, o, f[i])
  BY <1>1, <1>7
<1> QED BY <1>2, <1>7, <1>8 DEF N

(* read_string_list finds the texts there. *)
LEMMA ItemIs ==
  ASSUME NEW d \in Seq(Byte), NEW o \in Nat, NEW l, Fits(l),
         NEW f \in [0..Len(l) -> Seq(Byte)], Grows(l, f), Has(d, o, f[Len(l)]),
         NEW n \in 1..Len(l)
  PROVE  ItemAt(d, o, n) = o + Len(f[n - 1])
<1> DEFINE B(a) == Behind(d, a)
           L(i) == o + Len(f[i - 1])
           E(g) == [i \in 1..n |-> IF i = 1 THEN o + 2 ELSE B(g[i - 1])]
           at == CHOOSE g : g = E(g)
           w == [i \in 1..n |-> L(i)]
<1>1. ItemAt(d, o, n) = at[n]
  BY DEF ItemAt
<1>2. n \in Nat /\ n >= 1 /\ Len(l) \in Nat /\ \A i \in 1..n : i \in 1..Len(l)
  BY DEF Fits
<1>3. L(1) = o + 2
  <2>1. f[0] = Int16(Len(l)) /\ Len(l) < 32768
    BY DEF Grows, Fits, Short
  <2>2. Len(f[0]) = 2
    BY <1>2, <2>1, Int16Bytes
  <2>3. 1 - 1 = 0
    OBVIOUS
  <2> QED BY <2>2, <2>3
<1>4. ASSUME NEW i \in 1..n, i # 1 PROVE L(i) = B(L(i - 1))
  <2> DEFINE j == i - 1
  <2>1. j \in 1..Len(l) /\ j - 1 \in 0..Len(l)
    BY <1>2, <1>4
  <2>2. /\ Has(d, o + Len(f[j - 1]), PutText(l[j]))
        /\ Len(f[j]) = Len(f[j - 1]) + Len(PutText(l[j]))
    BY <2>1, TextsInList, ZenonT(60)
  <2>3. l[j] \in Text /\ Short(l[j]) /\ PutText(l[j]) \in Seq(Byte)
    BY <2>1, TextFits
  <2>4. f[j - 1] \in Seq(Byte)
    BY <2>1
  <2>5. Len(f[j - 1]) \in Nat /\ Len(PutText(l[j])) \in Nat
    BY <2>3, <2>4
  <2>6. L(j) \in Nat
    BY <2>5
  <2>7. B(L(j)) = L(j) + Len(PutText(l[j]))
    BY <2>2, <2>3, <2>6, ReadText
  <2>8. L(i) = o + Len(f[j])
    OBVIOUS
  <2> DEFINE u == Len(f[j - 1])
             v == Len(f[j])
             t == Len(PutText(l[j]))
  <2>9. L(j) = o + u /\ B(L(j)) = L(j) + t /\ v = u + t /\ L(i) = o + v /\ u \in Nat /\ t \in Nat
    BY <2>2, <2>5, <2>7, <2>8
  <2> HIDE DEF u, v, t, L, B
  <2>10. L(i) = B(L(j))
    BY <2>9
  <2> QED BY <2>10 DEF j
<1> HIDE DEF B, L
<1>5. w = E(w)
  BY <1>2, <1>3, <1>4
<1>6. at = E(at)
  BY <1>5
<1> HIDE DEF at
<1>7. at[1] = o + 2 /\ \A i \in 1..n : i # 1 => at[i] = B(at[i - 1])
  BY <1>2, <1>6
<1> DEFINE S == {k \in Nat : k + 1 <= n => at[k + 1] = L(k + 1)}
<1>8. 0 \in S
  BY <1>2, <1>3, <1>7
<1>9. ASSUME NEW k \in Nat, k \in S PROVE k + 1 \in S
  <2> SUFFICES ASSUME (k + 1) + 1 <= n PROVE at[(k + 1) + 1] = L((k + 1) + 1)
    OBVIOUS
  <2>1. at[k + 1] = L(k + 1)
    BY <1>2, <1>9
  <2>2. (k + 1) + 1 \in 1..n /\ (k + 1) + 1 # 1 /\ ((k + 1) + 1) - 1 = k + 1
    BY <1>2
  <2> QED BY <1>4, <1>7, <2>1, <2>2
<1>10. Nat \subseteq S
  <2> HIDE DEF S
  <2> QED BY <1>8, <1>9, NatSetInduction
<1>11. n - 1 \in S /\ (n - 1) + 1 = n
  <2>1. n - 1 \in Nat /\ (n - 1) + 1 = n
    BY <1>2
  <2> HIDE DEF S
  <2> QED BY <1>10, <2>1
<1>12. at[n] = L(n)
  BY <1>2, <1>11
<1> QED BY <1>1, <1>12 DEF L

(* And so returns the list, and goes on behind it. *)
LEMMA ReadList ==
  ASSUME NEW d \in Seq(Byte), NEW o \in Nat, NEW l, Fits(l), Has(d, o, PutList(l))
  PROVE  ListAt(d, o) = l /\ BehindList(d, o) = o + Len(PutList(l)) /\ BehindList(d, o) \in Nat
<1> DEFINE N == Len(l)
<1>1. PICK f \in [0..N -> Seq(Byte)] : Grows(l, f) /\ PutList(l) = f[N]
  BY PutListIs
<1>2. N \in Nat /\ N < 32768 /\ l \in Seq(Text)
  BY DEF Fits, Short
<1>3. Has(d, o, f[N])
  BY <1>1
<1>4. /\ \A i \in 0..N : Has(d, o, f[i])
      /\ \A i \in 1..N : /\ Has(d, o + Len(f[i - 1]), PutText(l[i]))
                         /\ Len(f[i]) = Len(f[i - 1]) + Len(PutText(l[i]))
  BY <1>1, <1>3, TextsInList
<1>5. \A n \in 1..N : ItemAt(d, o, n) = o + Len(f[n - 1])
  BY <1>1, <1>3, ItemIs, ZenonT(60)
<1>6. f[0] = Int16(N) /\ Int16(N) \in Seq(Byte) /\ Len(Int16(N)) = 2 /\ Int16(N)[1] + 256 * Int16(N)[2] = N
  BY <1>1, <1>2, Int16Bytes DEF Grows
<1>7. Int16At(d, o) = N
  <2>1. 0 \in 0..N
    BY <1>2
  <2>2. Has(d, o, f[0])
    BY <1>4, <2>1
  <2>3. d[o + 1] = f[0][1] /\ d[o + 2] = f[0][2]
    <3> DEFINE z == f[0]
    <3>1. Len(z) = 2 /\ Has(d, o, z)
      BY <1>6, <2>2
    <3> HIDE DEF z
    <3>2. d[o + 1] = z[1] /\ d[o + 2] = z[2]
      BY <3>1 DEF Has
    <3> QED BY <3>2 DEF z
  <2> QED BY <1>6, <2>3 DEF Int16At
<1>8. ASSUME NEW n \in 1..N
      PROVE  TextAt(d, ItemAt(d, o, n)) = l[n] /\ Behind(d, ItemAt(d, o, n)) = o + Len(f[n])
  <2>1. n - 1 \in 0..N
    BY <1>2
  <2>2. f[n - 1] \in Seq(Byte)
    BY <2>1
  <2>3. Len(f[n - 1]) \in Nat
    BY <2>2
  <2> DEFINE a == o + Len(f[n - 1])
  <2>4. a \in Nat /\ ItemAt(d, o, n) = a
    BY <2>3, <1>5
  <2>5. l[n] \in Text /\ Short(l[n]) /\ PutText(l[n]) \in Seq(Byte)
    BY TextFits
  <2>6. Has(d, a, PutText(l[n])) /\ Len(f[n]) = Len(f[n - 1]) + Len(PutText(l[n]))
    BY <1>4
  <2>7. TextAt(d, a) = l[n] /\ Behind(d, a) = a + Len(PutText(l[n]))
    <3> HIDE DEF a
    <3> QED BY <2>4, <2>5, <2>6, ReadText
  <2>8. Len(PutText(l[n])) \in Nat
    BY <2>5
  <2>9. a + Len(PutText(l[n])) = o + Len(f[n])
    <3> DEFINE u == Len(f[n - 1])
               v == Len(f[n])
               t == Len(PutText(l[n]))
    <3>1. u \in Nat /\ t \in Nat /\ v = u + t
      BY <2>3, <2>6, <2>8
    <3> HIDE DEF u, v, t
    <3>2. o + u + t = o + v
      BY <3>1
    <3> QED BY <3>2 DEF u, v, t
  <2> QED BY <2>4, <2>7, <2>9
<1>9. ListAt(d, o) = l
  <2>1. ListAt(d, o) = [n \in 1..N |-> l[n]]
    BY <1>7, <1>8 DEF ListAt
  <2>2. l = [n \in 1..N |-> l[n]]
    BY <1>2
  <2> QED BY <2>1, <2>2
<1>10. f[N] \in Seq(Byte) /\ Len(f[N]) \in Nat
  BY <1>2
<1>11. BehindList(d, o) = o + Len(f[N])
  <2>1. CASE N = 0
    BY <1>6, <1>7, <2>1 DEF BehindList
  <2>2. CASE N # 0
    <3>1. N \in 1..N
      BY <1>2, <2>2
    <3> QED BY <1>7, <1>8, <2>2, <3>1 DEF BehindList
  <2> QED BY <2>1, <2>2
<1> QED BY <1>1, <1>9, <1>10, <1>11

(* handler_exec gets what SendCommand was given: its parser returns, from  *)
(* the bytes RemoteExecCommand makes of a program, the program's name,     *)
(* path, environment, and its arguments behind the path, whatever their    *)
(* number and length that fit 16 bits.                                     *)
THEOREM ArgumentsArrive ==
  ASSUME NEW x \in Program, Encodable(x)
  PROVE  /\ Data(x) \in Seq(Byte)
         /\ Parsed(Data(x)) = [name |-> x.name, path |-> x.path,
                               argv |-> <<x.path>> \o x.args, envp |-> x.env]
<1> DEFINE a == PutText(x.name)
           b == PutText(x.path)
           c == PutList(x.args)
           e == PutList(x.env)
           d == Data(x)
<1>1. x.name \in Text /\ x.path \in Text /\ x.args \in Seq(Text) /\ x.env \in Seq(Text)
  BY DEF Program
<1>2. Short(x.name) /\ Short(x.path) /\ Fits(x.args) /\ Fits(x.env)
  BY <1>1 DEF Encodable, Fits
<1>3. a \in Seq(Byte) /\ b \in Seq(Byte)
  BY <1>1, <1>2, PutTextIs
<1>4. c \in Seq(Byte) /\ e \in Seq(Byte)
  <2>1. ASSUME NEW l, Fits(l) PROVE PutList(l) \in Seq(Byte)
    <3>1. PICK f \in [0..Len(l) -> Seq(Byte)] : PutList(l) = f[Len(l)]
      BY <2>1, PutListIs
    <3>2. Len(l) \in 0..Len(l)
      BY <2>1 DEF Fits
    <3> QED BY <3>1, <3>2
  <2> QED BY <1>2, <2>1
<1>5. d = ((a \o b) \o c) \o e
  BY DEF Data
<1> HIDE DEF a, b, c, e, d
<1>6. a \o b \in Seq(Byte) /\ (a \o b) \o c \in Seq(Byte) /\ ((a \o b) \o c) \o e \in Seq(Byte)
  BY <1>3, <1>4, ConcatProperties
<1>7. d \in Seq(Byte)
  BY <1>5, <1>6
<1>8. Has(d, 0, ((a \o b) \o c) \o e)
  BY <1>5, <1>7 DEF Has
<1>9. /\ Has(d, 0, (a \o b) \o c) /\ Has(d, Len((a \o b) \o c), e)
      /\ Len((a \o b) \o c) \in Nat
  <2>1. /\ Has(d, 0, (a \o b) \o c) /\ Has(d, 0 + Len((a \o b) \o c), e)
    BY <1>4, <1>6, <1>7, <1>8, HasParts
  <2>2. Len((a \o b) \o c) \in Nat
    BY <1>6
  <2> QED BY <2>1, <2>2
<1>10. /\ Has(d, 0, a \o b) /\ Has(d, Len(a \o b), c)
       /\ Len((a \o b) \o c) = Len(a \o b) + Len(c) /\ Len(a \o b) \in Nat
  <2>1. /\ Has(d, 0, a \o b) /\ Has(d, 0 + Len(a \o b), c)
        /\ Len((a \o b) \o c) = Len(a \o b) + Len(c)
    <3> DEFINE m == a \o b
    <3>1. m \in Seq(Byte) /\ Has(d, 0, m \o c)
      BY <1>6, <1>9
    <3> HIDE DEF m
    <3>2. Has(d, 0, m) /\ Has(d, 0 + Len(m), c) /\ Len(m \o c) = Len(m) + Len(c)
      BY <1>4, <1>7, <3>1, HasParts
    <3> QED BY <3>2 DEF m
  <2>2. Len(a \o b) \in Nat
    BY <1>6
  <2> QED BY <2>1, <2>2
<1>11. /\ Has(d, 0, a) /\ Has(d, Len(a), b) /\ Len(a \o b) = Len(a) + Len(b) /\ Len(a) \in Nat
  <2>1. /\ Has(d, 0, a) /\ Has(d, 0 + Len(a), b) /\ Len(a \o b) = Len(a) + Len(b)
    BY <1>3, <1>7, <1>10, HasParts
  <2>2. Len(a) \in Nat
    BY <1>3
  <2> QED BY <2>1, <2>2
<1>12. TextAt(d, 0) = x.name /\ Behind(d, 0) = Len(a)
  <2>1. Has(d, 0, PutText(x.name))
    BY <1>11 DEF a
  <2>2. TextAt(d, 0) = x.name /\ Behind(d, 0) = 0 + Len(PutText(x.name))
    BY <1>1, <1>2, <1>7, <2>1, ReadText
  <2>3. 0 + Len(a) = Len(a)
    BY <1>11
  <2> QED BY <2>2, <2>3 DEF a
<1>13. TextAt(d, Len(a)) = x.path /\ Behind(d, Len(a)) = Len(a \o b)
  <2>1. Has(d, Len(a), PutText(x.path))
    BY <1>11 DEF b
  <2>2. TextAt(d, Len(a)) = x.path /\ Behind(d, Len(a)) = Len(a) + Len(PutText(x.path))
    BY <1>1, <1>2, <1>7, <1>11, <2>1, ReadText
  <2> QED BY <1>11, <2>2 DEF b
<1>14. ListAt(d, Len(a \o b)) = x.args /\ BehindList(d, Len(a \o b)) = Len((a \o b) \o c)
  <2>1. Has(d, Len(a \o b), PutList(x.args))
    BY <1>10 DEF c
  <2>2. ListAt(d, Len(a \o b)) = x.args /\ BehindList(d, Len(a \o b)) = Len(a \o b) + Len(PutList(x.args))
    BY <1>2, <1>7, <1>10, <2>1, ReadList
  <2> QED BY <1>10, <2>2 DEF c
<1>15. ListAt(d, Len((a \o b) \o c)) = x.env
  <2>1. Has(d, Len((a \o b) \o c), PutList(x.env))
    BY <1>9 DEF e
  <2> QED BY <1>2, <1>7, <1>9, <2>1, ReadList
<1>16. Parsed(d) = [name |-> x.name, path |-> x.path,
                    argv |-> <<x.path>> \o x.args, envp |-> x.env]
  BY <1>12, <1>13, <1>14, <1>15, Zenon DEF Parsed, SpawnArgs
<1> QED BY <1>7, <1>16 DEF d

-----------------------------------------------------------------------------
(* What the steps put into the queues.                                     *)

(* The programs of a configuration. *)
LEMMA ProgramAt ==
  ASSUME script \in Scripts, NEW i \in 1..Len(script)
  PROVE  script[i] \in Program /\ Encodable(script[i])
<1>1. script \in Seq(Program)
  BY ExecAssumption
<1>2. i \in DOMAIN script
  BY <1>1
<1> QED BY <1>1, <1>2, ElementOfSeq, ExecAssumption

(* A process id in place of {remote-pid|...} changes nothing else, and the *)
(* program can still be sent.                                              *)
LEMMA FormattedIs ==
  ASSUME NEW x \in Program, Encodable(x), pid \in 0..MaxPid
  PROVE  /\ Formatted(x) \in Program /\ Encodable(Formatted(x))
         /\ Formatted(x).name = x.name /\ Formatted(x).path = x.path /\ Formatted(x).env = x.env
         /\ Len(Formatted(x).args) = Len(x.args)
         /\ \A i \in 1..Len(x.args) :
              Formatted(x).args[i] = IF x.args[i] = PidArg THEN <<pid>> ELSE x.args[i]
<1> DEFINE A == [i \in DOMAIN x.args |-> IF x.args[i] = PidArg THEN <<pid>> ELSE x.args[i]]
           y == Formatted(x)
<1>1. x.args \in Seq(Text) /\ Len(x.args) \in Nat /\ DOMAIN x.args = 1..Len(x.args)
  BY DEF Program
<1>2. MaxPid \in 1..255
  BY ExecAssumption
<1>3. <<pid>> \in Text /\ Short(<<pid>>)
  <2>1. pid \in Byte
    BY <1>2 DEF Byte
  <2> QED BY <2>1 DEF Text, Short
<1>4. \A i \in 1..Len(x.args) : x.args[i] \in Text /\ Short(x.args[i])
  <2> SUFFICES ASSUME NEW i \in 1..Len(x.args) PROVE x.args[i] \in Text /\ Short(x.args[i])
    OBVIOUS
  <2>1. x.args[i] \in Text
    BY <1>1, ElementOfSeq
  <2> QED BY <1>1, <2>1 DEF Encodable
<1>5. /\ A \in Seq(Text) /\ Len(A) = Len(x.args) /\ DOMAIN A = 1..Len(x.args)
      /\ \A i \in 1..Len(x.args) : A[i] = IF x.args[i] = PidArg THEN <<pid>> ELSE x.args[i]
      /\ \A i \in 1..Len(x.args) : Short(A[i])
  <2> DEFINE a == x.args
             v == <<pid>>
             B == [i \in 1..Len(a) |-> IF a[i] = PidArg THEN v ELSE a[i]]
  <2>1. A = B
    BY <1>1
  <2>2. v \in Text /\ Short(v) /\ Len(a) \in Nat /\ \A i \in 1..Len(a) : a[i] \in Text /\ Short(a[i])
    BY <1>1, <1>3, <1>4
  <2> HIDE DEF a, v
  <2>3. B \in [1..Len(a) -> Text]
    BY <2>2
  <2>4. B \in Seq(Text) /\ Len(B) = Len(a) /\ DOMAIN B = 1..Len(a)
    BY <2>2, <2>3
  <2>5. \A i \in 1..Len(a) : B[i] = (IF a[i] = PidArg THEN v ELSE a[i]) /\ Short(B[i])
    BY <2>2
  <2> HIDE DEF A, B
  <2> QED BY <2>1, <2>4, <2>5 DEF a, v
<1>6. y = [x EXCEPT !.args = A]
  BY DEF Formatted
<1> HIDE DEF A
<1>7. y = [name |-> x.name, path |-> x.path, args |-> A, env |-> x.env, search |-> x.search]
  BY <1>6 DEF Program
<1>8. /\ y.name = x.name /\ y.path = x.path /\ y.env = x.env /\ y.args = A
      /\ y \in Program
  <2>1. x.name \in Text /\ x.path \in Text /\ x.env \in Seq(Text) /\ x.search \in Text
    BY DEF Program
  <2> HIDE DEF y
  <2> QED BY <1>5, <1>7, <2>1 DEF Program
<1> HIDE DEF y
<1>9. Encodable(y)
  <2>1. Short(A)
    BY <1>5 DEF Encodable, Short
  <2> QED BY <1>5, <1>8, <2>1 DEF Encodable
<1>10. /\ Len(y.args) = Len(x.args)
       /\ \A i \in 1..Len(x.args) : y.args[i] = IF x.args[i] = PidArg THEN <<pid>> ELSE x.args[i]
  BY <1>5, <1>8
<1> QED BY <1>8, <1>9, <1>10 DEF y

(* The list of processes is of those that run. *)
LEMMA ListingIs ==
  ASSUME DeviceType, NEW l \in Listings
  PROVE  /\ l \in Seq(Process) /\ \A i \in DOMAIN l : l[i] \in Running
         /\ Cardinality(Fitting(l)) \in 0..Len(l)
<1> DEFINE n == Cardinality(DOMAIN table)
<1>0. MaxPid \in Nat /\ \A p \in DOMAIN table : table[p] \in Text
  <2>1. MaxPid \in 1..255
    BY ExecAssumption
  <2>2. \A p \in DOMAIN table : table[p] \in Text
    BY Zenon DEF DeviceType
  <2>3. MaxPid \in Nat
    BY <2>1
  <2> QED BY <2>2, <2>3
<1>1. DOMAIN table \subseteq 1..MaxPid
  BY DEF DeviceType, Pid
<1>2. IsFiniteSet(DOMAIN table)
  <2>1. IsFiniteSet(1..MaxPid)
    BY <1>0, FS_Interval
  <2>2. DOMAIN table \in SUBSET (1..MaxPid)
    BY <1>1
  <2> QED BY <2>1, <2>2, FS_Subset, Zenon
<1>3. n \in Nat
  BY <1>2, FS_CardinalityType
<1> HIDE DEF n
<1>4. PICK ids \in [1..n -> DOMAIN table] : l = [i \in 1..n |-> [pid |-> ids[i], cmd |-> table[ids[i]]]]
  BY DEF Listings, n
<1>5. ASSUME NEW i \in 1..n
      PROVE  [pid |-> ids[i], cmd |-> table[ids[i]]] \in Process
  <2>1. ids[i] \in 0..MaxPid
    BY <1>0, <1>1
  <2>2. table[ids[i]] \in Text
    BY <1>0
  <2> QED BY <2>1, <2>2 DEF Process
<1>6. l \in [1..n -> Process] /\ DOMAIN l = 1..n
  BY <1>4, <1>5
<1>7. l \in Seq(Process) /\ Len(l) = n
  BY <1>3, <1>6
<1>8. ASSUME NEW i \in DOMAIN l PROVE l[i] \in Running
  BY <1>4, <1>6 DEF Running
<1>9. Fitting(l) \subseteq 1..n
  BY <1>6 DEF Fitting
<1>10. IsFiniteSet(1..n) /\ Cardinality(1..n) = n
  <2>1. IsFiniteSet(1..n) /\ Cardinality(1..n) = IF 1 > n THEN 0 ELSE n - 1 + 1
    BY <1>3, FS_Interval
  <2> QED BY <1>3, <2>1
<1>11. IsFiniteSet(Fitting(l)) /\ Cardinality(Fitting(l)) <= n
  <2>1. Fitting(l) \in SUBSET (1..n)
    BY <1>9
  <2>2. IsFiniteSet(Fitting(l)) /\ Cardinality(Fitting(l)) <= Cardinality(1..n)
    BY <2>1, <1>10, FS_Subset, Zenon
  <2> QED BY <1>10, <2>2
<1>12. Cardinality(Fitting(l)) \in Nat
  BY <1>11, FS_CardinalityType
<1> QED BY <1>3, <1>7, <1>8, <1>11, <1>12

(* The type invariant of the module follows. *)
LEMMA TypeInvIsOK == TypeInv => TypeOK
<1> SUFFICES ASSUME TypeInv PROVE TypeOK
  OBVIOUS
<1>1. toAgent \in Seq([kind: {"PROC", "EXEC"}, data: Seq(Byte)])
  <2>1. toAgent \in Seq(Sent)
    BY DEF TypeInv, QueueType
  <2>2. Sent \subseteq [kind: {"PROC", "EXEC"}, data: Seq(Byte)]
    BY DEF Sent
  <2> QED BY <2>1, <2>2, SeqMonotonic
<1>2. toClient \in Seq(Answer)
  <2>1. toClient \in Seq(Complete)
    BY DEF TypeInv, QueueType
  <2>2. Complete \subseteq Answer
    BY DEF Complete
  <2> QED BY <2>1, <2>2, SeqMonotonic
<1>3. \A i \in DOMAIN spawned :
        spawned[i] \in [path: Text, argv: Seq(Text), envp: Seq(Text), ok: BOOLEAN]
  <2>1. spawned \in Seq(Call)
    BY DEF TypeInv, DeviceType
  <2>2. \A i \in 1..Len(spawned) : spawned[i] \in Call
    BY <2>1, ElementOfSeq
  <2>3. DOMAIN spawned = 1..Len(spawned)
    BY <2>1
  <2> QED BY <2>2, <2>3, Zenon DEF Call
<1> QED BY <1>1, <1>2, <1>3, Zenon DEF TypeInv, TypeOK, FactoryType, QueueType, DeviceType

(* What HandlerRemoteProcesses stores of an answer: all of a complete one. *)
LEMMA StoredList ==
  ASSUME NEW a \in Complete, NEW n \in 0..Len(a.list) - a.whole, n <= 1, NEW p \in 0..MaxPid
  PROVE  LET l == SubSeq(a.list, 1, a.whole)
                  \o [i \in 1..n |-> [pid |-> p, cmd |-> a.list[a.whole + 1].cmd]] IN
         l \in Seq(Process) /\ (~(a.whole < Len(a.list)) => l = a.list)
<1>1. a.list \in Seq(Process) /\ a.whole \in Nat /\ a.whole <= Len(a.list)
  BY DEF Complete, Answer
<1> DEFINE m == a.list
           w == a.whole
           u == SubSeq(m, 1, w)
           e == [pid |-> p, cmd |-> m[w + 1].cmd]
           v == [i \in 1..n |-> e]
<1>2. m \in Seq(Process) /\ w \in Nat /\ w <= Len(m) /\ n \in 0..Len(m) - w /\ Len(m) \in Nat
  BY <1>1
<1> HIDE DEF m, w
<1>3. u \in Seq(Process) /\ Len(u) = w /\ \A i \in 1..w : u[i] = m[i]
  BY <1>2
<1>4. v \in Seq(Process) /\ Len(v) = n
  <2>1. CASE n = 0
    <3>1. v \in [1..0 -> Process]
      BY <2>1
    <3> HIDE DEF v
    <3> QED BY <2>1, <3>1
  <2>2. CASE n = 1
    <3>1. w + 1 \in 1..Len(m)
      BY <1>2, <2>2
    <3>2. m[w + 1] \in Process
      BY <1>2, <3>1, ElementOfSeq
    <3>3. e \in Process
      BY <3>2 DEF Process
    <3> HIDE DEF e
    <3>4. v \in [1..n -> Process] /\ DOMAIN v = 1..n /\ n \in Nat
      BY <2>2, <3>3
    <3> HIDE DEF v
    <3>5. v \in Seq(Process)
      BY ONLY <3>4
    <3>6. Len(v) = n
      BY ONLY <3>4
    <3> QED BY <3>5, <3>6
  <2> QED BY <2>1, <2>2, <1>2
<1> HIDE DEF u, v
<1>5. u \o v \in Seq(Process)
  BY <1>3, <1>4, ConcatProperties
<1>6. ASSUME ~(w < Len(m)) PROVE u \o v = m
  <2>1. w = Len(m) /\ n = 0
    BY <1>2, <1>6
  <2>2. v = <<>>
    BY <1>4, <2>1
  <2>3. u = m
    BY <1>2, <1>3, <2>1, SeqEqual
  <2> QED BY <1>2, <2>2, <2>3
<1> QED BY <1>5, <1>6 DEF m, w, u, v

(* FindProcess takes one of those whose command contains the text. *)
LEMMA FoundIs ==
  ASSUME NEW l \in Seq(Process), NEW t,
         NEW found, found = {i \in DOMAIN l : Contains(l[i].cmd, t)}, found # {}
  PROVE  (CHOOSE i \in found : \A j \in found : i <= j) \in found
<1>1. DOMAIN l \subseteq Nat
  OBVIOUS
<1>2. found \subseteq Nat
  BY <1>1
<1>3. \E i \in found : \A j \in found : i <= j
  BY <1>2, LeastNat
<1> QED BY ONLY <1>3, Zenon

-----------------------------------------------------------------------------
(* The types are kept.                                                     *)

(* A step is one of these. *)
LEMMA NextIs ==
  ASSUME Next
  PROVE  \/ NewInfo \/ AllStarted \/ BeginSend \/ AskProcesses \/ HaveProcesses
         \/ FindProcess \/ SendExec \/ HaveStatus \/ Timeout
         \/ StoreStatus \/ SetEvent \/ HandlerRemoteProcesses \/ UnreadableProcesses
         \/ HandlerExec \/ HandlerProc \/ BufferOverrun
         \/ \E p \in Pid : ProcessEnds(p)
BY DEF Next, Factory, Connection, Agent

(* The answer a handler takes has its form. *)
LEMMA ReceivedIs ==
  ASSUME QueueType, NEW kind, Receive(kind)
  PROVE  /\ Head(toClient) \in Complete /\ Head(toClient) = toClient[1]
         /\ Tail(toClient) \in Seq(Complete) /\ Len(Tail(toClient)) = Len(toClient) - 1
         /\ Head(toClient).kind = kind /\ toClient' = Tail(toClient)
         /\ handler = NoAnswer /\ main \notin Ended
<1>1. toClient \in Seq(Complete) /\ toClient # <<>>
  BY DEF QueueType, Receive
<1>2. /\ Head(toClient) \in Complete /\ Head(toClient) = toClient[1]
      /\ Tail(toClient) \in Seq(Complete) /\ Len(Tail(toClient)) = Len(toClient) - 1
  BY <1>1, HeadTailProperties
<1> QED BY <1>2 DEF Receive

(* The command the agent takes has its form. *)
LEMMA CommandIs ==
  ASSUME QueueType, NEW kind, Command(kind)
  PROVE  /\ Head(toAgent) \in Sent /\ Head(toAgent) = toAgent[1]
         /\ Tail(toAgent) \in Seq(Sent) /\ Len(Tail(toAgent)) = Len(toAgent) - 1
         /\ Head(toAgent).kind = kind /\ toAgent # <<>>
<1>1. toAgent \in Seq(Sent) /\ toAgent # <<>>
  BY DEF QueueType, Command
<1>2. /\ Head(toAgent) \in Sent /\ Head(toAgent) = toAgent[1]
      /\ Tail(toAgent) \in Seq(Sent) /\ Len(Tail(toAgent)) = Len(toAgent) - 1
  BY <1>1, HeadTailProperties
<1> QED BY <1>1, <1>2 DEF Command

(* What handler_exec parses is a program of the client. *)
LEMMA ExecParsed ==
  ASSUME QueueType, Command("EXEC")
  PROVE  \E x \in Program :
           /\ Head(toAgent).data = Data(x)
           /\ Parsed(Head(toAgent).data) = [name |-> x.name, path |-> x.path,
                                            argv |-> <<x.path>> \o x.args, envp |-> x.env]
<1>1. Head(toAgent) \in Sent /\ Head(toAgent).kind = "EXEC"
  BY CommandIs
<1>2. Head(toAgent).data \in Payload
  BY <1>1 DEF Sent
<1>3. PICK x \in Program : Encodable(x) /\ Head(toAgent).data = Data(x)
  BY <1>2 DEF Payload
<1>4. Parsed(Data(x)) = [name |-> x.name, path |-> x.path,
                         argv |-> <<x.path>> \o x.args, envp |-> x.env]
  BY <1>3, ArgumentsArrive
<1> QED BY <1>3, <1>4

(* The factory's variables. *)
LEMMA FactoryTypeStep ==
  ASSUME FactoryType, QueueType, StageInv, Next
  PROVE  FactoryType'
<1> USE DEF At
<1>0. script \in Seq(Program) /\ Len(script) \in Nat
  <2>1. script \in Seq(Program)
    BY ExecAssumption DEF FactoryType
  <2> QED BY <2>1
<1>1. CASE NewInfo
  BY <1>0, <1>1 DEF NewInfo, Turn, FactoryType, Status
<1>2. CASE AllStarted
  BY <1>2 DEF AllStarted, FactoryType, Ended
<1>3. CASE BeginSend
  <2>1. NoList \in [known: BOOLEAN, garbled: BOOLEAN, list: Seq(Process)]
    BY DEF NoList
  <2>2. NoPid \in 0..MaxPid
    BY ExecAssumption DEF NoPid
  <2>3. main' \in {"send", "ask", "find"}
    BY <1>3 DEF BeginSend, Subscribe
  <2> QED BY <1>3, <2>1, <2>2, <2>3 DEF BeginSend, Subscribe, FactoryType
<1>4. CASE AskProcesses
  BY <1>4 DEF AskProcesses, FactoryType
<1>5. CASE HaveProcesses
  BY <1>5 DEF HaveProcesses, FactoryType
<1>6. CASE FindProcess
  <2> DEFINE l == processes.list
             found == {i \in DOMAIN l : Contains(l[i].cmd, script[current].search)}
             c == CHOOSE i \in found : \A j \in found : i <= j
  <2>1. l \in Seq(Process)
    BY DEF FactoryType
  <2>2. UNCHANGED <<script, current, info, processes>> /\ main' \in {"send", "not found"}
    BY <1>6 DEF FindProcess
  <2>3. pid' \in 0..MaxPid
    <3>1. CASE found = {}
      BY <1>6, <3>1 DEF FindProcess, FactoryType
    <3>2. CASE found # {}
      <4>1. c \in found
        <5> HIDE DEF l
        <5> QED BY <2>1, <3>2, FoundIs
      <4>2. c \in 1..Len(l)
        BY <2>1, <4>1
      <4>3. l[c] \in Process
        <5> HIDE DEF l, c
        <5> QED BY <2>1, <4>2, ElementOfSeq
      <4>4. pid' = l[c].pid
        BY <1>6, <3>2 DEF FindProcess
      <4> HIDE DEF l, c
      <4> QED BY <4>3, <4>4 DEF Process
    <3> QED BY <3>1, <3>2
  <2> QED BY <2>2, <2>3 DEF FactoryType, Ended
<1>7. CASE SendExec
  BY <1>7 DEF SendExec, FactoryType
<1>8. CASE HaveStatus
  BY <1>8 DEF HaveStatus, FactoryType, Ended
<1>9. CASE Timeout
  BY <1>9 DEF Timeout, FactoryType, Ended
<1>10. CASE StoreStatus
  BY <1>10 DEF StoreStatus, FactoryType, Status
<1>11. CASE SetEvent
  BY <1>11 DEF SetEvent, FactoryType
<1>12. CASE HandlerRemoteProcesses
  <2> DEFINE a == Head(toClient)
             L(n, p) == SubSeq(a.list, 1, a.whole)
                        \o [i \in 1..n |-> [pid |-> p, cmd |-> a.list[a.whole + 1].cmd]]
  <2>1. Receive("RPRC")
    BY <1>12 DEF HandlerRemoteProcesses
  <2>2. a \in Complete
    BY <2>1, ReceivedIs
  <2>3. PICK n \in 0..Len(a.list) - a.whole, p \in 0..MaxPid :
          /\ n <= 1
          /\ processes' = [known |-> TRUE, garbled |-> a.whole < Len(a.list), list |-> L(n, p)]
    BY <1>12, Zenon DEF HandlerRemoteProcesses
  <2>4. L(n, p) \in Seq(Process)
    <3> HIDE DEF a
    <3> QED BY <2>2, <2>3, StoredList
  <2>5. (a.whole < Len(a.list)) \in BOOLEAN
    OBVIOUS
  <2> HIDE DEF L, a
  <2>6. processes' \in [known: BOOLEAN, garbled: BOOLEAN, list: Seq(Process)]
    BY <2>3, <2>4, <2>5
  <2> QED BY <1>12, <2>6 DEF HandlerRemoteProcesses, FactoryType
<1>13. CASE UnreadableProcesses
  BY <1>13 DEF UnreadableProcesses, FactoryType, Ended
<1>14. CASE HandlerExec
  BY <1>14 DEF HandlerExec, FactoryType, factory
<1>15. CASE HandlerProc
  BY <1>15 DEF HandlerProc, ProcPacket, FactoryType, factory
<1>16. CASE BufferOverrun
  BY <1>16 DEF BufferOverrun, FactoryType, factory
<1>17. CASE \E p \in Pid : ProcessEnds(p)
  BY <1>17 DEF ProcessEnds, FactoryType, factory
<1> QED BY <1>1, <1>2, <1>3, <1>4, <1>5, <1>6, <1>7, <1>8, <1>9, <1>10, <1>11, <1>12, <1>13,
           <1>14, <1>15, <1>16, <1>17, NextIs

(* The queues. *)
LEMMA QueueTypeStep ==
  ASSUME FactoryType, QueueType, DeviceType, StageInv, Next
  PROVE  QueueType'
<1> USE DEF At
<1>1. CASE NewInfo \/ AllStarted \/ BeginSend \/ HaveProcesses \/ FindProcess \/ HaveStatus \/ Timeout
  <2>1. UNCHANGED <<toAgent, toClient, handler>>
    BY <1>1 DEF NewInfo, Turn, AllStarted, BeginSend, Subscribe, HaveProcesses, FindProcess,
                HaveStatus, Timeout
  <2> QED BY <2>1 DEF QueueType
<1>2. CASE AskProcesses
  <2> DEFINE m == [kind |-> "PROC", data |-> <<>>]
  <2>1. m \in Sent
    BY DEF Sent
  <2> HIDE DEF m
  <2>2. Append(toAgent, m) \in Seq(Sent)
    BY <2>1 DEF QueueType
  <2> QED BY <1>2, <2>2 DEF AskProcesses, QueueType, m
<1>3. CASE SendExec
  <2> DEFINE x == Formatted(script[current])
             m == [kind |-> "EXEC", data |-> Data(x)]
  <2>1. current \in 1..Len(script)
    <3>1. current \in 0..Len(script) /\ current >= 1
      BY <1>3 DEF SendExec, StageInv, Preparing, FactoryType
    <3>2. script \in Seq(Program)
      BY ExecAssumption DEF FactoryType
    <3> QED BY <3>1, <3>2
  <2>2. script[current] \in Program /\ Encodable(script[current])
    BY <2>1, ProgramAt DEF FactoryType
  <2>3. x \in Program /\ Encodable(x)
    BY <2>2, FormattedIs DEF FactoryType
  <2> HIDE DEF x
  <2>4. Data(x) \in Seq(Byte)
    BY <2>3, ArgumentsArrive
  <2>5. Data(x) \in Payload
    BY <2>3 DEF Payload
  <2>6. m \in Sent
    BY <2>4, <2>5 DEF Sent
  <2> HIDE DEF m
  <2>7. Append(toAgent, m) \in Seq(Sent)
    BY <2>6 DEF QueueType
  <2> QED BY <1>3, <2>7 DEF SendExec, QueueType, m, x
<1>4. CASE StoreStatus
  <2>1. Receive("REXS")
    BY <1>4 DEF StoreStatus
  <2>2. Head(toClient) \in Complete /\ Tail(toClient) \in Seq(Complete) /\ toClient' = Tail(toClient)
    BY <2>1, ReceivedIs
  <2>3. handler' \in {handler, Head(toClient)} /\ toAgent' = toAgent
    BY <1>4, Zenon DEF StoreStatus
  <2>4. Head(toClient) \in Answer
    BY <2>2 DEF Complete
  <2> QED BY <2>2, <2>3, <2>4 DEF QueueType
<1>5. CASE SetEvent
  BY <1>5 DEF SetEvent, QueueType
<1>6. CASE HandlerRemoteProcesses \/ UnreadableProcesses
  <2>1. Receive("RPRC") /\ UNCHANGED <<toAgent, handler>>
    BY <1>6 DEF HandlerRemoteProcesses, UnreadableProcesses
  <2>2. Tail(toClient) \in Seq(Complete) /\ toClient' = Tail(toClient)
    BY <2>1, ReceivedIs
  <2> QED BY <2>1, <2>2, SMTT(30) DEF QueueType
<1>7. CASE HandlerExec
  <2>1. Command("EXEC") /\ toAgent' = Tail(toAgent) /\ handler' = handler
    BY <1>7 DEF HandlerExec
  <2>2. Tail(toAgent) \in Seq(Sent)
    BY <2>1, CommandIs
  <2>3. PICK x \in Program :
          Parsed(Head(toAgent).data) = [name |-> x.name, path |-> x.path,
                                        argv |-> <<x.path>> \o x.args, envp |-> x.env]
    BY <2>1, ExecParsed
  <2> DEFINE n == Parsed(Head(toAgent).data).name
             m(s) == [kind |-> "REXS", name |-> n, status |-> s, list |-> <<>>, whole |-> 0]
  <2>4. n = x.name
    BY <2>3
  <2>5. n \in Text
    BY <2>4 DEF Program
  <2>6. toClient' = Append(toClient, m(0)) \/ toClient' = Append(toClient, m(2))
    BY <1>7, Zenon DEF HandlerExec
  <2> HIDE DEF n
  <2>7. ASSUME NEW s \in {0, 2} PROVE m(s) \in Complete
    BY <2>5 DEF Complete, Answer
  <2> HIDE DEF m
  <2>8. toClient' \in Seq(Complete)
    BY <2>6, <2>7, SMTT(30) DEF QueueType
  <2> QED BY <2>1, <2>2, <2>8 DEF QueueType
<1>8. CASE HandlerProc
  <2>1. PICK l \in Listings : ProcPacket(<<Listed(l)>>)
    BY <1>8 DEF HandlerProc
  <2>2. Command("PROC") /\ toAgent' = Tail(toAgent) /\ toClient' = toClient \o <<Listed(l)>>
        /\ handler' = handler
    BY <2>1 DEF ProcPacket
  <2>3. Tail(toAgent) \in Seq(Sent)
    BY <2>2, CommandIs
  <2>4. l \in Seq(Process) /\ Cardinality(Fitting(l)) \in 0..Len(l)
    BY ListingIs
  <2>5. Listed(l) \in Complete
    BY <2>4 DEF Listed, Complete, Answer, Text
  <2>6. toClient \o <<Listed(l)>> \in Seq(Complete)
    BY <2>5 DEF QueueType
  <2> QED BY <2>2, <2>3, <2>6 DEF QueueType
<1>9. CASE BufferOverrun
  BY <1>9 DEF BufferOverrun, QueueType
<1>10. CASE \E p \in Pid : ProcessEnds(p)
  BY <1>10 DEF ProcessEnds, QueueType
<1> QED BY <1>1, <1>2, <1>3, <1>4, <1>5, <1>6, <1>7, <1>8, <1>9, <1>10, NextIs

(* The device. *)
LEMMA DeviceTypeStep ==
  ASSUME QueueType, DeviceType, Next
  PROVE  DeviceType'
<1> USE DEF device
<1>1. CASE NewInfo \/ AllStarted \/ AskProcesses \/ HaveProcesses \/ FindProcess \/ SendExec
           \/ HaveStatus \/ Timeout \/ StoreStatus \/ SetEvent \/ HandlerRemoteProcesses
           \/ UnreadableProcesses
  <2>1. UNCHANGED <<alive, table, spawned, recent>>
    BY <1>1 DEF NewInfo, Turn, AllStarted, AskProcesses, HaveProcesses, FindProcess, SendExec,
                HaveStatus, Timeout, StoreStatus, SetEvent, HandlerRemoteProcesses,
                UnreadableProcesses
  <2> QED BY <2>1 DEF DeviceType
<1>2. CASE BeginSend
  <2>1. ASSUME NEW p \in DOMAIN table PROVE [pid |-> p, cmd |-> table[p]] \in Process
    <3>1. p \in 0..MaxPid /\ table[p] \in Text
      BY ExecAssumption DEF DeviceType, Pid
    <3> QED BY <3>1 DEF Process
  <2>2. Running \subseteq Process
    BY <2>1 DEF Running
  <2> QED BY <1>2, <2>2 DEF BeginSend, Subscribe, DeviceType
<1>3. CASE HandlerExec
  <2>1. Command("EXEC") /\ alive' = alive
    BY <1>3 DEF HandlerExec
  <2>2. PICK x \in Program :
          Parsed(Head(toAgent).data) = [name |-> x.name, path |-> x.path,
                                        argv |-> <<x.path>> \o x.args, envp |-> x.env]
    BY <2>1, ExecParsed
  <2> DEFINE y == Parsed(Head(toAgent).data)
             c(ok) == [path |-> y.path, argv |-> y.argv, envp |-> y.envp, ok |-> ok]
  <2>3. y.path = x.path /\ y.argv = <<x.path>> \o x.args /\ y.envp = x.env
    BY <2>2
  <2>4. y.path \in Text /\ y.argv \in Seq(Text) /\ y.envp \in Seq(Text)
    <3>1. x.path \in Text /\ x.args \in Seq(Text) /\ x.env \in Seq(Text)
      BY DEF Program
    <3>2. <<x.path>> \in Seq(Text)
      BY <3>1
    <3>3. <<x.path>> \o x.args \in Seq(Text)
      BY <3>1, <3>2, ConcatProperties
    <3> HIDE DEF y
    <3> QED BY <2>3, <3>1, <3>3
  <2>5. \/ /\ spawned' = Append(spawned, c(TRUE))
           /\ \E p \in FreePids :
                /\ table' = [r \in DOMAIN table \union {p} |-> IF r = p THEN y.path ELSE table[r]]
                /\ recent' = recent \union {[pid |-> p, cmd |-> y.path]}
        \/ spawned' = Append(spawned, c(FALSE)) /\ UNCHANGED <<table, recent>>
    BY <1>3, Zenon DEF HandlerExec
  <2> HIDE DEF y
  <2>6. ASSUME NEW ok \in BOOLEAN PROVE c(ok) \in Call
    BY <2>4 DEF Call
  <2>7. spawned' \in Seq(Call)
    <3> DEFINE u == c(TRUE)
               v == c(FALSE)
    <3>1. u \in Call /\ v \in Call
      <4> HIDE DEF c
      <4> QED BY <2>6
    <3>2. spawned' = Append(spawned, u) \/ spawned' = Append(spawned, v)
      <4> HIDE DEF c
      <4> QED BY <2>5, Zenon
    <3>3. spawned \in Seq(Call)
      BY DEF DeviceType
    <3> HIDE DEF c, u, v
    <3> QED BY ONLY <3>1, <3>2, <3>3
  <2> HIDE DEF c
  <2>8. ASSUME NEW p \in FreePids,
               table' = [r \in DOMAIN table \union {p} |-> IF r = p THEN y.path ELSE table[r]],
               recent' = recent \union {[pid |-> p, cmd |-> y.path]}
        PROVE  /\ DOMAIN table' \subseteq Pid /\ \A q \in DOMAIN table' : table'[q] \in Text
               /\ recent' \subseteq Process
    <3>1. p \in Pid
      BY DEF FreePids
    <3>2. DOMAIN table' = DOMAIN table \union {p}
      BY <2>8
    <3>3. p \in 0..MaxPid
      BY <3>1, ExecAssumption DEF Pid
    <3>4. [pid |-> p, cmd |-> y.path] \in Process
      BY <2>4, <3>3 DEF Process
    <3>5. ASSUME NEW q \in DOMAIN table' PROVE table'[q] \in Text
      BY <2>4, <2>8, <3>2 DEF DeviceType
    <3>6. recent' \subseteq Process
      BY <2>8, <3>4 DEF DeviceType
    <3> QED BY <3>1, <3>2, <3>5, <3>6 DEF DeviceType
  <2> QED BY <2>1, <2>5, <2>7, <2>8 DEF DeviceType
<1>4. CASE HandlerProc
  BY <1>4 DEF HandlerProc, ProcPacket, DeviceType
<1>5. CASE BufferOverrun
  BY <1>5 DEF BufferOverrun, DeviceType
<1>6. CASE \E p \in Pid : ProcessEnds(p)
  BY <1>6 DEF ProcessEnds, DeviceType
<1> QED BY <1>1, <1>2, <1>3, <1>4, <1>5, <1>6, NextIs

-----------------------------------------------------------------------------
(* One question at a time: which message can be where.                     *)

(* An EXEC at the agent is that of the program the factory waits for, *)
(* unless it has given up.                                            *)
LEMMA ExecIsPending ==
  ASSUME TypeInv, StageInv, Command("EXEC"), main \notin Ended \ {"done"}
  PROVE  main = "wait status" /\ Pending
<1>1. toAgent # <<>> /\ Head(toAgent).kind = "EXEC" /\ Head(toAgent) = toAgent[1]
  BY CommandIs DEF TypeInv
<1>2. main \notin {"next", "subscribe", "ask", "find", "send", "done"}
  BY <1>1 DEF StageInv, Idle
<1>3. main # "wait processes"
  <2> SUFFICES ASSUME main = "wait processes" PROVE FALSE
    OBVIOUS
  <2>1. ListStage
    BY DEF StageInv
  <2> DEFINE p == [kind |-> "PROC", data |-> <<>>]
  <2>2. toAgent = <<p>>
    BY <1>1, <2>1 DEF ListStage
  <2>3. p.kind = "PROC"
    OBVIOUS
  <2> HIDE DEF p
  <2>4. toAgent[1] = p
    BY <2>2
  <2> QED BY <1>1, <2>3, <2>4
<1>4. main = "wait status"
  BY <1>2, <1>3 DEF TypeInv, FactoryType, Ended
<1> QED BY <1>1, <1>4 DEF StageInv, Handled

(* A PROC is the one it waits for. *)
LEMMA ProcIsAsked ==
  ASSUME TypeInv, StageInv, Command("PROC"), main \notin Ended \ {"done"}
  PROVE  /\ main = "wait processes" /\ handler = NoAnswer /\ toClient = <<>> /\ Len(toAgent) = 1
         /\ ~processes.known
<1>1. toAgent # <<>> /\ Head(toAgent).kind = "PROC" /\ Head(toAgent) = toAgent[1]
  BY CommandIs DEF TypeInv
<1>2. main \notin {"next", "subscribe", "ask", "find", "send", "done"}
  BY <1>1 DEF StageInv, Idle
<1>3. main # "wait status"
  <2> SUFFICES ASSUME main = "wait status" PROVE FALSE
    OBVIOUS
  <2>1. Pending
    BY <1>1 DEF StageInv, Handled
  <2> DEFINE e == Data(Formatted(script[current]))
  <2>2. toAgent = <<[kind |-> "EXEC", data |-> e]>>
    BY <2>1 DEF Pending
  <2> HIDE DEF e
  <2>3. toAgent[1].kind = "EXEC"
    BY <2>2
  <2> QED BY <1>1, <2>3
<1>4. main = "wait processes"
  BY <1>2, <1>3 DEF TypeInv, FactoryType, Ended
<1>5. ListStage
  BY <1>4 DEF StageInv
<1>6. toAgent = <<[kind |-> "PROC", data |-> <<>>]>> /\ toClient = <<>> /\ ~processes.known
  BY <1>1, <1>5 DEF ListStage
<1> QED BY <1>4, <1>5, <1>6 DEF ListStage

(* A status that is received is the one it waits for. *)
LEMMA StatusIsAwaited ==
  ASSUME TypeInv, StageInv, Receive("REXS")
  PROVE  /\ main = "wait status" /\ Handled /\ Len(toClient) = 1 /\ ~info.set
         /\ toClient[1].name = script[current].name
         /\ toClient[1].status = 0 => spawned[current].ok
         /\ info.program = current /\ current \in 1..Len(script)
<1>1. toClient # <<>> /\ Head(toClient).kind = "REXS" /\ Head(toClient) = toClient[1] /\ main \notin Ended
  BY ReceivedIs DEF TypeInv, Receive
<1>2. main \notin {"next", "subscribe", "ask", "find", "send", "done"}
  BY <1>1 DEF StageInv, Idle
<1>3. main # "wait processes"
  <2> SUFFICES ASSUME main = "wait processes" PROVE FALSE
    OBVIOUS
  <2>1. ListStage
    BY DEF StageInv
  <2> QED BY <1>1, <2>1 DEF ListStage
<1>4. main = "wait status"
  BY <1>1, <1>2, <1>3 DEF TypeInv, FactoryType
<1>5. Handled /\ info.program = current /\ current >= 1
  BY <1>1, <1>4 DEF StageInv, Pending
<1>6. current \in 1..Len(script)
  <2>1. current \in 0..Len(script) /\ script \in Seq(Program)
    BY ExecAssumption DEF TypeInv, FactoryType
  <2> QED BY <1>5, <2>1
<1> QED BY <1>1, <1>4, <1>5, <1>6 DEF Handled

(* And so is a list. *)
LEMMA ListIsAwaited ==
  ASSUME TypeInv, StageInv, Receive("RPRC")
  PROVE  /\ main = "wait processes" /\ toAgent = <<>> /\ Len(toClient) = 1 /\ handler = NoAnswer
         /\ \A i \in DOMAIN toClient[1].list : toClient[1].list[i] \in recent
<1>1. toClient # <<>> /\ Head(toClient).kind = "RPRC" /\ Head(toClient) = toClient[1] /\ main \notin Ended
  BY ReceivedIs DEF TypeInv, Receive
<1>2. main \notin {"next", "subscribe", "ask", "find", "send", "done"}
  BY <1>1 DEF StageInv, Idle
<1>3. main # "wait status"
  BY <1>1 DEF StageInv, Pending, Handled
<1>4. main = "wait processes"
  BY <1>1, <1>2, <1>3 DEF TypeInv, FactoryType
<1>5. ListStage
  BY <1>4 DEF StageInv
<1> QED BY <1>1, <1>4, <1>5 DEF ListStage

(* A program is started as configured when its call was, and succeeded. *)
LEMMA StartedIsCalled ==
  ASSUME NEW x, NEW call
  PROVE  StartedAs(x, call) <=> call.ok /\ CalledAs(x, call)
BY DEF StartedAs, CalledAs

(* The EXEC of the current program becomes a call of posix_spawn for it,   *)
(* and its answer tells the result.                                        *)
LEMMA ExecCalls ==
  ASSUME TypeInv, StageInv, HandlerExec, main \notin Ended \ {"done"}
  PROVE  \E call \in Call, a \in Complete :
           /\ spawned' = Append(spawned, call) /\ toClient' = <<a>>
           /\ toAgent' = <<>>
           /\ CalledAs(script[current], call)
           /\ a.kind = "REXS" /\ a.name = script[current].name /\ (a.status = 0 => call.ok)
<1>1. Command("EXEC") /\ toAgent' = Tail(toAgent)
  BY DEF HandlerExec
<1>2. main = "wait status" /\ Pending
  BY <1>1, ExecIsPending
<1>3. current \in 1..Len(script) /\ pid \in 0..MaxPid /\ script \in Scripts
  <2>1. current \in 0..Len(script) /\ script \in Seq(Program) /\ current >= 1
    BY <1>2, ExecAssumption DEF TypeInv, FactoryType, StageInv
  <2>2. current \in 1..Len(script)
    BY <2>1
  <2>3. pid \in 0..MaxPid /\ script \in Scripts
    BY Zenon DEF TypeInv, FactoryType
  <2> QED BY <2>2, <2>3
<1> DEFINE x == script[current]
           z == Formatted(x)
           y == Parsed(Head(toAgent).data)
<1>4. x \in Program /\ Encodable(x)
  BY <1>3, ProgramAt
<1>5. /\ z \in Program /\ Encodable(z)
      /\ z.name = x.name /\ z.path = x.path /\ z.env = x.env
      /\ Len(z.args) = Len(x.args)
      /\ \A i \in 1..Len(x.args) : z.args[i] = IF x.args[i] = PidArg THEN <<pid>> ELSE x.args[i]
  <2> HIDE DEF x
  <2> QED BY <1>3, <1>4, FormattedIs
<1>6. Head(toAgent).data = Data(z) /\ Tail(toAgent) = <<>> /\ toClient = <<>>
  <2> DEFINE e == Data(z)
             p == [kind |-> "EXEC", data |-> e]
  <2>1. toAgent = <<p>> /\ toClient = <<>>
    BY <1>2 DEF Pending
  <2>2. p.data = e
    <3> HIDE DEF e
    <3> QED OBVIOUS
  <2> HIDE DEF p
  <2>3. Head(toAgent) = p /\ Tail(toAgent) = <<>>
    BY <2>1
  <2> HIDE DEF e
  <2>4. Head(toAgent).data = e
    BY <2>2, <2>3
  <2> QED BY <2>1, <2>3, <2>4 DEF e
<1>7. y = [name |-> z.name, path |-> z.path, argv |-> <<z.path>> \o z.args, envp |-> z.env]
  <2> HIDE DEF x, z
  <2> QED BY <1>5, <1>6, ArgumentsArrive
<1> DEFINE c(ok) == [path |-> y.path, argv |-> y.argv, envp |-> y.envp, ok |-> ok]
           m(s) == [kind |-> "REXS", name |-> y.name, status |-> s, list |-> <<>>, whole |-> 0]
<1>8. \/ spawned' = Append(spawned, c(TRUE)) /\ toClient' = Append(toClient, m(0))
      \/ spawned' = Append(spawned, c(FALSE)) /\ toClient' = Append(toClient, m(2))
  BY Zenon DEF HandlerExec
<1> HIDE DEF x, z, y
<1>9. x.path \in Text /\ x.name \in Text /\ x.env \in Seq(Text) /\ x.args \in Seq(Text)
  BY <1>4 DEF Program
<1>10. z.args \in Seq(Text)
  BY <1>5 DEF Program
<1>11. y.name = x.name /\ y.path = x.path /\ y.envp = x.env /\ y.argv = <<x.path>> \o z.args
  BY <1>5, <1>7
<1>12. /\ y.argv \in Seq(Text) /\ Len(y.argv) = Len(x.args) + 1 /\ y.argv[1] = x.path
       /\ \A i \in 1..Len(x.args) : y.argv[i + 1] = z.args[i]
  <2> DEFINE u == x.path
             v == z.args
             w == y.argv
             k == Len(x.args)
  <2>1. u \in Text /\ v \in Seq(Text) /\ w = <<u>> \o v /\ Len(v) = k /\ k \in Nat
    BY <1>5, <1>9, <1>10, <1>11
  <2> HIDE DEF u, v, w, k
  <2>2. /\ w \in Seq(Text) /\ Len(w) = k + 1 /\ w[1] = u
        /\ \A i \in 1..k : w[i + 1] = v[i]
    BY ONLY <2>1
  <2> QED BY <2>2 DEF u, v, w, k
<1>13. ASSUME NEW ok \in BOOLEAN PROVE c(ok) \in Call /\ CalledAs(x, c(ok)) /\ c(ok).ok = ok
  <2> DEFINE q == c(ok)
  <2>1. q.path = x.path /\ q.envp = x.env /\ q.argv = y.argv /\ q.ok = ok
    BY <1>11
  <2>2. q \in Call
    BY <1>9, <1>11, <1>12 DEF Call
  <2> HIDE DEF c, q
  <2>3. ASSUME NEW i \in DOMAIN x.args
        PROVE  \/ q.argv[i + 1] = x.args[i]
               \/ x.args[i] = PidArg /\ \E p \in 0..MaxPid : q.argv[i + 1] = <<p>>
    <3>1. i \in 1..Len(x.args)
      BY <1>9
    <3>2. q.argv[i + 1] = IF x.args[i] = PidArg THEN <<pid>> ELSE x.args[i]
      BY <1>5, <1>12, <2>1, <3>1
    <3> QED BY <1>3, <3>2
  <2>4. CalledAs(x, q)
    BY <1>12, <2>1, <2>3 DEF CalledAs
  <2> QED BY <2>1, <2>2, <2>4 DEF q
<1>14. ASSUME NEW s \in {0, 2}
       PROVE  m(s) \in Complete /\ m(s).kind = "REXS" /\ m(s).name = x.name /\ m(s).status = s
  BY <1>9, <1>11 DEF Complete, Answer
<1> DEFINE t == c(TRUE)
           f == c(FALSE)
           b == m(0)
           e == m(2)
<1>15. /\ t \in Call /\ f \in Call /\ CalledAs(x, t) /\ CalledAs(x, f) /\ t.ok
       /\ b \in Complete /\ b.kind = "REXS" /\ b.name = x.name
       /\ e \in Complete /\ e.kind = "REXS" /\ e.name = x.name /\ e.status # 0
  <2>1. t \in Call /\ CalledAs(x, t) /\ t.ok = TRUE
    <3> HIDE DEF c
    <3> QED BY <1>13
  <2>2. f \in Call /\ CalledAs(x, f)
    <3> HIDE DEF c
    <3> QED BY <1>13
  <2>3. b \in Complete /\ b.kind = "REXS" /\ b.name = x.name
    <3> HIDE DEF m
    <3> QED BY <1>14
  <2>4. e \in Complete /\ e.kind = "REXS" /\ e.name = x.name /\ e.status = 2
    <3> HIDE DEF m
    <3> QED BY <1>14
  <2> HIDE DEF c, m, t, f, b, e
  <2> QED BY <2>1, <2>2, <2>3, <2>4
<1>16. \/ spawned' = Append(spawned, t) /\ toClient' = <<b>>
       \/ spawned' = Append(spawned, f) /\ toClient' = <<e>>
  <2>1. \/ spawned' = Append(spawned, t) /\ toClient' = Append(toClient, b)
        \/ spawned' = Append(spawned, f) /\ toClient' = Append(toClient, e)
    <3> HIDE DEF c, m
    <3> QED BY <1>8, Zenon
  <2> HIDE DEF c, m, t, f, b, e
  <2> QED BY <1>6, <2>1
<1> HIDE DEF c, m, t, f, b, e
<1>17. toAgent' = <<>>
  BY <1>1, <1>6
<1> QED BY <1>15, <1>16, <1>17 DEF x

-----------------------------------------------------------------------------
(* The stages are kept, and with them the calls.                           *)

(* A call at the end leaves the ones before it. *)
LEMMA CallsKept ==
  ASSUME NEW s \in Seq(Call), NEW call \in Call
  PROVE  /\ Len(Append(s, call)) = Len(s) + 1 /\ Append(s, call)[Len(s) + 1] = call
         /\ \A i \in 1..Len(s) : Append(s, call)[i] = s[i]
OBVIOUS

(* The factory's steps. *)
LEMMA FactoryStage ==
  ASSUME TypeInv, StageInv, StartedInv, Factory \/ Timeout
  PROVE  StageInv' /\ StartedInv'
<1> USE DEF At, Ended, Preparing
<1>0. current \in Nat /\ Len(spawned) \in Nat
  <2>1. script \in Seq(Program) /\ current \in 0..Len(script)
    BY ExecAssumption DEF TypeInv, FactoryType
  <2>2. spawned \in Seq(Call)
    BY DEF TypeInv, DeviceType
  <2> QED BY <2>1, <2>2
<1>1. CASE NewInfo
  <2>1. /\ main = "next" /\ main' = "subscribe" /\ current' = current + 1
        /\ info' = [program |-> current + 1, status |-> "Success", set |-> FALSE]
        /\ UNCHANGED <<script, processes, pid, toAgent, toClient, handler, device>>
    BY <1>1 DEF NewInfo, Turn
  <2>2. Idle /\ Len(spawned) = current
    BY <2>1 DEF StageInv
  <2>3. StageInv'
    BY <1>0, <2>1, <2>2 DEF StageInv, Idle, device
  <2>4. StartedInv'
    <3>1. current' - 1 = current
      BY <1>0, <2>1
    <3> QED BY <2>1, <3>1 DEF StartedInv, device
  <2> QED BY <2>3, <2>4
<1>2. CASE AllStarted
  <2>1. /\ main = "next" /\ main' = "done"
        /\ UNCHANGED <<script, current, info, processes, pid, toAgent, toClient, handler, device>>
    BY <1>2 DEF AllStarted
  <2>2. Idle /\ Len(spawned) = current
    BY <2>1 DEF StageInv
  <2> QED BY <2>1, <2>2 DEF StageInv, Idle, device, StartedInv
<1>3. CASE BeginSend
  <2>1. /\ main = "subscribe" /\ main' \in {"send", "ask"} /\ ~processes'.known
        /\ UNCHANGED <<script, current, info, toAgent, toClient, handler, spawned>>
    BY <1>3 DEF BeginSend, Subscribe, NoList
  <2>2. Idle /\ Len(spawned) = current - 1 /\ ~info.set /\ current >= 1 /\ info.program = current
    BY <2>1 DEF StageInv
  <2>3. StageInv'
    BY <2>1, <2>2 DEF StageInv, Idle
  <2>4. StartedInv'
    BY <2>1 DEF StartedInv
  <2> QED BY <2>3, <2>4
<1>4. CASE AskProcesses
  <2> DEFINE p == [kind |-> "PROC", data |-> <<>>]
  <2>1. /\ main = "ask" /\ main' = "wait processes" /\ toAgent' = Append(toAgent, p)
        /\ UNCHANGED <<script, current, info, processes, pid, toClient, handler, device>>
    BY <1>4 DEF AskProcesses
  <2>2. Idle /\ Len(spawned) = current - 1 /\ ~info.set /\ current >= 1 /\ info.program = current
        /\ ~processes.known
    BY <2>1 DEF StageInv
  <2>3. toAgent' = <<p>>
    <3>1. toAgent = <<>> /\ toAgent' = Append(toAgent, p)
      BY <2>1, <2>2, Zenon DEF Idle
    <3> HIDE DEF p
    <3>2. Append(<<>>, p) = <<p>>
      OBVIOUS
    <3> QED BY <3>1, <3>2
  <2>4. ListStage'
    BY <2>1, <2>2, <2>3 DEF ListStage, Idle
  <2>5. StageInv'
    BY <2>1, <2>2, <2>4 DEF StageInv, device
  <2>6. StartedInv'
    BY <2>1 DEF StartedInv, device
  <2> QED BY <2>5, <2>6
<1>5. CASE HaveProcesses
  <2>1. /\ main = "wait processes" /\ main' = "find" /\ processes.known
        /\ UNCHANGED <<script, current, info, processes, pid, toAgent, toClient, handler, device>>
    BY <1>5 DEF HaveProcesses
  <2>2. ListStage /\ Len(spawned) = current - 1 /\ ~info.set /\ current >= 1 /\ info.program = current
    BY <2>1 DEF StageInv
  <2>3. Idle
    BY <2>1, <2>2 DEF ListStage, Idle
  <2>4. StageInv'
    BY <2>1, <2>2, <2>3 DEF StageInv, Idle, device
  <2>5. StartedInv'
    BY <2>1 DEF StartedInv, device
  <2> QED BY <2>4, <2>5
<1>6. CASE FindProcess
  <2>1. /\ main = "find" /\ main' \in {"send", "not found"}
        /\ UNCHANGED <<script, current, info, processes, toAgent, toClient, handler, device>>
    BY <1>6 DEF FindProcess
  <2>2. Idle /\ Len(spawned) = current - 1 /\ ~info.set /\ current >= 1 /\ info.program = current
    BY <2>1 DEF StageInv
  <2>3. StageInv'
    BY <2>1, <2>2 DEF StageInv, Idle, device
  <2>4. StartedInv'
    BY <2>1 DEF StartedInv, device
  <2> QED BY <2>3, <2>4
<1>7. CASE SendExec
  <2> DEFINE e == Data(Formatted(script[current]))
             p == [kind |-> "EXEC", data |-> e]
  <2>1. /\ main = "send" /\ main' = "wait status" /\ toAgent' = Append(toAgent, p)
        /\ UNCHANGED <<script, current, info, processes, pid, toClient, handler, device>>
    BY <1>7 DEF SendExec
  <2>2. Idle /\ Len(spawned) = current - 1 /\ ~info.set /\ current >= 1 /\ info.program = current
    BY <2>1 DEF StageInv
  <2>3. toAgent' = <<p>>
    <3>1. toAgent = <<>> /\ toAgent' = Append(toAgent, p)
      BY <2>1, <2>2, Zenon DEF Idle
    <3> HIDE DEF p
    <3>2. Append(<<>>, p) = <<p>>
      OBVIOUS
    <3> QED BY <3>1, <3>2
  <2>4. Formatted(script[current])' = Formatted(script[current])
    BY <2>1 DEF Formatted
  <2>5. Data(Formatted(script[current]))' = e
    BY <2>4, Zenon DEF Data, PutText, PutList
  <2>6. Pending'
    BY <2>1, <2>2, <2>3, <2>5 DEF Pending, Idle, device
  <2>7. StageInv'
    BY <2>1, <2>2, <2>6 DEF StageInv
  <2>8. StartedInv'
    BY <2>1 DEF StartedInv, device
  <2> QED BY <2>7, <2>8
<1>8. CASE HaveStatus
  <2>1. /\ main = "wait status" /\ main' = (IF info.status = "Success" THEN "next" ELSE "failed")
        /\ info.set
        /\ UNCHANGED <<script, current, info, processes, pid, toAgent, toClient, handler, device>>
    BY <1>8 DEF HaveStatus
  <2>2. Handled
    BY <2>1 DEF StageInv, Pending
  <2>3. /\ Idle /\ Len(spawned) = current /\ CalledAs(script[current], spawned[current])
        /\ info.status = "Success" => spawned[current].ok
    BY <2>1, <2>2 DEF Handled, Idle
  <2>4. StageInv'
    BY <2>1, <2>3 DEF StageInv, Idle, device
  <2>5. StartedInv'
    <3> SUFFICES ASSUME info.status = "Success", NEW i \in 1..current
                 PROVE  StartedAs(script[i], spawned[i])
      BY <2>1 DEF StartedInv, device
    <3>1. CASE i = current
      BY <2>3, <3>1, StartedIsCalled
    <3>2. CASE i # current
      <4>1. i \in 1..current - 1
        BY <1>0, <3>2
      <4> QED BY <2>1, <4>1 DEF StartedInv
    <3> QED BY <3>1, <3>2
  <2> QED BY <2>4, <2>5
<1>9. CASE Timeout
  BY <1>9 DEF Timeout, StageInv, StartedInv
<1> QED BY <1>1, <1>2, <1>3, <1>4, <1>5, <1>6, <1>7, <1>8, <1>9 DEF Factory

(* The connection's. *)
LEMMA ConnectionStage ==
  ASSUME TypeInv, StageInv, StartedInv, Connection
  PROVE  StageInv' /\ StartedInv'
<1> USE DEF Ended, Preparing
<1>1. CASE StoreStatus
  <2> DEFINE a == Head(toClient)
  <2>1. Receive("REXS") /\ UNCHANGED <<script, main, current, processes, pid, toAgent, device>>
    BY <1>1 DEF StoreStatus
  <2>2. /\ main = "wait status" /\ Handled /\ Len(toClient) = 1 /\ ~info.set
        /\ toClient[1].name = script[current].name
        /\ toClient[1].status = 0 => spawned[current].ok
        /\ info.program = current /\ current \in 1..Len(script)
    BY <2>1, StatusIsAwaited
  <2>3. /\ a \in Complete /\ a = toClient[1] /\ a.kind = "REXS"
        /\ Len(Tail(toClient)) = 0 /\ Tail(toClient) \in Seq(Complete) /\ toClient' = Tail(toClient)
    <3>1. /\ a \in Complete /\ a = toClient[1] /\ a.kind = "REXS"
          /\ Len(Tail(toClient)) = Len(toClient) - 1 /\ Tail(toClient) \in Seq(Complete)
          /\ toClient' = Tail(toClient)
      BY <2>1, ReceivedIs, Zenon DEF TypeInv
    <3>2. Len(toClient) - 1 = 0
      <4> DEFINE k == Len(toClient)
      <4>1. k = 1
        BY <2>2
      <4> HIDE DEF k
      <4>2. k - 1 = 0
        BY <4>1
      <4> QED BY <4>2 DEF k
    <3> QED BY <3>1, <3>2, Zenon
  <2>4. info.program # 0 /\ script[info.program].name = a.name
    <3>1. current \in 1..Len(script)
      BY <2>2, Zenon
    <3>2. current # 0
      BY ONLY <3>1
    <3> QED BY <2>2, <2>3, <3>2
  <2>5. /\ info' = [info EXCEPT !.status = IF a.status = 0 THEN "Success" ELSE "Error"]
        /\ handler' = a
    BY <1>1, <2>4, Zenon DEF StoreStatus
  <2>6. info \in [program: 0..Len(script), status: Status, set: BOOLEAN]
    BY DEF TypeInv, FactoryType
  <2> HIDE DEF a
  <2>7. /\ info'.program = current /\ info'.set = info.set
        /\ info'.status = IF a.status = 0 THEN "Success" ELSE "Error"
    BY <2>2, <2>5, <2>6
  <2>8. handler' # NoAnswer
    <3>1. NoAnswer.kind = "none"
      BY DEF NoAnswer
    <3> QED BY <2>3, <2>5, <3>1
  <2>9. toClient' = <<>>
    BY <2>3
  <2>10. Handled'
    <3>1. info'.status = "Success" => spawned[current].ok
      BY <2>2, <2>3, <2>7
    <3>2. /\ toAgent = <<>> /\ Len(spawned) = current
          /\ CalledAs(script[current], spawned[current])
      BY <2>2 DEF Handled
    <3> QED BY <2>1, <2>2, <2>7, <2>8, <2>9, <3>1, <3>2 DEF Handled, device
  <2>11. StageInv'
    BY <2>1, <2>2, <2>7, <2>10 DEF StageInv
  <2>12. StartedInv'
    BY <2>1 DEF StartedInv, device
  <2> QED BY <2>11, <2>12
<1>2. CASE SetEvent
  <2>1. /\ main \notin Ended /\ handler # NoAnswer /\ info' = [info EXCEPT !.set = TRUE]
        /\ handler' = NoAnswer
        /\ UNCHANGED <<script, main, current, processes, pid, toAgent, toClient, device>>
    BY <1>2 DEF SetEvent
  <2>2. main = "wait status"
    <3>1. main \notin {"next", "subscribe", "ask", "find", "send", "done"}
      BY <2>1 DEF StageInv, Idle
    <3>2. main # "wait processes"
      BY <2>1 DEF StageInv, ListStage
    <3> QED BY <2>1, <3>1, <3>2 DEF TypeInv, FactoryType
  <2>3. Handled /\ current >= 1 /\ info.program = current
    BY <2>1, <2>2 DEF StageInv, Pending
  <2>4. info \in [program: 0..Len(script), status: Status, set: BOOLEAN]
    BY DEF TypeInv, FactoryType
  <2>5. info'.program = current /\ info'.set /\ info'.status = info.status
    BY <2>1, <2>3, <2>4
  <2>6. Handled'
    <3>1. /\ toAgent = <<>> /\ Len(spawned) = current
          /\ CalledAs(script[current], spawned[current]) /\ toClient = <<>>
          /\ info.status = "Success" => spawned[current].ok
      BY <2>1, <2>3 DEF Handled
    <3> QED BY <2>1, <2>5, <3>1 DEF Handled, device
  <2>7. StageInv'
    BY <2>1, <2>2, <2>3, <2>5, <2>6 DEF StageInv
  <2>8. StartedInv'
    BY <2>1 DEF StartedInv, device
  <2> QED BY <2>7, <2>8
<1>3. CASE HandlerRemoteProcesses
  <2>1. Receive("RPRC") /\ UNCHANGED <<script, main, current, info, pid, toAgent, handler, device>>
    BY <1>3 DEF HandlerRemoteProcesses
  <2>2. main = "wait processes" /\ toAgent = <<>> /\ Len(toClient) = 1 /\ handler = NoAnswer
    BY <2>1, ListIsAwaited
  <2>3. Len(Tail(toClient)) = 0 /\ Tail(toClient) \in Seq(Complete) /\ toClient' = Tail(toClient)
    <3>1. /\ Len(Tail(toClient)) = Len(toClient) - 1 /\ Tail(toClient) \in Seq(Complete)
          /\ toClient' = Tail(toClient)
      BY <2>1, ReceivedIs, Zenon DEF TypeInv
    <3>2. Len(toClient) - 1 = 0
      <4> DEFINE k == Len(toClient)
      <4>1. k = 1
        BY <2>2
      <4> HIDE DEF k
      <4>2. k - 1 = 0
        BY <4>1
      <4> QED BY <4>2 DEF k
    <3> QED BY <3>1, <3>2, Zenon
  <2>4. toClient' = <<>>
    BY <2>3
  <2>5. processes'.known
    <3>1. \E g, l : processes' = [known |-> TRUE, garbled |-> g, list |-> l]
      BY <1>3, Zenon DEF HandlerRemoteProcesses
    <3> QED BY <3>1
  <2>6. ListStage'
    BY <2>1, <2>2, <2>4, <2>5 DEF ListStage
  <2>7. StageInv'
    BY <2>1, <2>2, <2>6 DEF StageInv, device
  <2>8. StartedInv'
    BY <2>1 DEF StartedInv, device
  <2> QED BY <2>7, <2>8
<1>4. CASE UnreadableProcesses
  BY <1>4 DEF UnreadableProcesses, StageInv, StartedInv
<1> QED BY <1>1, <1>2, <1>3, <1>4 DEF Connection

(* A step that leaves these variables leaves the stage. *)
LEMMA StageKept ==
  ASSUME StageInv, StartedInv,
         UNCHANGED <<script, main, current, info, processes, pid, toAgent, toClient, handler, spawned, recent>>
  PROVE  StageInv' /\ StartedInv'
<1>1. Idle' = Idle /\ ListStage' = ListStage /\ Handled' = Handled
  BY DEF Idle, ListStage, Handled
<1>2. Pending' = Pending
  <2>1. Formatted(script[current])' = Formatted(script[current])
    BY DEF Formatted
  <2>2. Data(Formatted(script[current]))' = Data(Formatted(script[current]))
    <3> DEFINE z == Formatted(script[current])
    <3>1. z' = z
      BY <2>1
    <3> HIDE DEF z
    <3>2. Data(z)' = Data(z)
      BY <3>1, Zenon
    <3> QED BY <3>2 DEF z
  <2> QED BY <2>2 DEF Pending
<1>3. StageInv'
  BY <1>1, <1>2 DEF StageInv
<1>4. StartedInv'
  BY DEF StartedInv
<1> QED BY <1>3, <1>4

(* When SendCommand goes on, and processes only start or end, it keeps     *)
(* what it knows of them.                                                  *)
LEMMA PidGrows ==
  ASSUME PidInv, main' \in {main, "wait status"}, main' # main => main = "send",
         UNCHANGED <<script, current, processes, pid>>, recent \subseteq recent',
         Running \subseteq recent => Running' \subseteq recent'
  PROVE  PidInv'
<1> SUFFICES ASSUME main' \in Sending PROVE PidInv'
  BY DEF PidInv
<1>1. main \in Sending
  BY DEF Sending
<1>2. /\ Running \subseteq recent
      /\ ~processes.garbled => \A i \in DOMAIN processes.list : processes.list[i] \in recent
      /\ main \in {"send", "wait status"} /\ NeedsPid(script[current]) /\ ~processes.garbled =>
           \E r \in recent : r.pid = pid /\ Contains(r.cmd, script[current].search)
  BY <1>1 DEF PidInv
<1>3. main' \in {"send", "wait status"} => main \in {"send", "wait status"}
  OBVIOUS
<1>4. /\ NeedsPid(script[current])' = NeedsPid(script[current])
      /\ \A r : Contains(r.cmd, script[current].search)' <=> Contains(r.cmd, script[current].search)
  BY DEF NeedsPid, Contains
<1> QED BY <1>2, <1>3, <1>4 DEF PidInv

(* Or nothing happens to them. *)
LEMMA PidKept ==
  ASSUME PidInv, main' \in {main, "wait status"}, main' # main => main = "send",
         UNCHANGED <<script, current, processes, pid, table, recent>>
  PROVE  PidInv'
<1>1. Running' = Running
  BY DEF Running
<1> QED BY <1>1, PidGrows

(* The agent's, and the end of a process. *)
LEMMA AgentStage ==
  ASSUME TypeInv, StageInv, StartedInv, PidInv, Agent \/ \E p \in Pid : ProcessEnds(p)
  PROVE  StageInv' /\ StartedInv'
<1> USE DEF Ended, Preparing
<1>0. spawned \in Seq(Call) /\ current \in Nat /\ Len(spawned) \in Nat
  <2>1. script \in Seq(Program) /\ current \in 0..Len(script)
    BY ExecAssumption DEF TypeInv, FactoryType
  <2>2. spawned \in Seq(Call)
    BY DEF TypeInv, DeviceType
  <2> QED BY <2>1, <2>2
<1>1. CASE HandlerExec /\ main \in Ended \ {"done"}
  BY <1>1 DEF HandlerExec, factory, StageInv, StartedInv
<1>2. CASE HandlerExec /\ main \notin Ended \ {"done"}
  <2>1. main = "wait status" /\ Pending
    BY <1>2, ExecIsPending DEF HandlerExec
  <2>2. PICK call \in Call, a \in Complete :
           /\ spawned' = Append(spawned, call) /\ toClient' = <<a>>
           /\ toAgent' = <<>>
           /\ CalledAs(script[current], call)
           /\ a.kind = "REXS" /\ a.name = script[current].name /\ (a.status = 0 => call.ok)
    BY <1>2, ExecCalls, Zenon
  <2>3. UNCHANGED <<script, main, current, info, processes, pid, handler>>
    BY <1>2 DEF HandlerExec, factory
  <2>4. /\ Len(spawned) = current - 1 /\ handler = NoAnswer /\ ~info.set
        /\ current >= 1 /\ info.program = current
    BY <2>1 DEF Pending, StageInv
  <2>5. Len(spawned) + 1 = current
    BY <1>0, <2>4
  <2>6. /\ Len(spawned') = current /\ spawned'[current] = call
        /\ \A i \in 1..Len(spawned) : spawned'[i] = spawned[i]
    BY <1>0, <2>2, <2>5, CallsKept
  <2>7. Len(toClient') = 1 /\ toClient'[1] = a
    BY <2>2
  <2>8. Handled'
    BY <2>2, <2>3, <2>4, <2>6, <2>7 DEF Handled
  <2>9. StageInv'
    BY <2>1, <2>3, <2>4, <2>8 DEF StageInv
  <2>10. StartedInv'
    <3> SUFFICES ASSUME NEW i \in 1..current - 1 PROVE StartedAs(script[i], spawned'[i])
      BY <2>1, <2>3 DEF StartedInv
    <3>1. spawned'[i] = spawned[i]
      BY <2>4, <2>6
    <3>2. StartedAs(script[i], spawned[i])
      BY <2>1 DEF StartedInv
    <3> QED BY <3>1, <3>2
  <2> QED BY <2>9, <2>10
<1>3. CASE HandlerProc /\ main \in Ended \ {"done"}
  BY <1>3 DEF HandlerProc, ProcPacket, factory, StageInv, StartedInv
<1>4. CASE HandlerProc /\ main \notin Ended \ {"done"}
  <2>1. PICK l \in Listings : ProcPacket(<<Listed(l)>>)
    BY <1>4 DEF HandlerProc
  <2>2. /\ Command("PROC") /\ toAgent' = Tail(toAgent) /\ toClient' = toClient \o <<Listed(l)>>
        /\ UNCHANGED <<script, main, current, info, processes, pid, handler, alive, table, spawned, recent>>
    BY <2>1 DEF ProcPacket, factory, device
  <2>3. /\ main = "wait processes" /\ handler = NoAnswer /\ toClient = <<>> /\ Len(toAgent) = 1
        /\ ~processes.known
    BY <1>4, <2>2, ProcIsAsked
  <2>4. toAgent' = <<>>
    <3>1. Tail(toAgent) \in Seq(Sent) /\ Len(Tail(toAgent)) = Len(toAgent) - 1 /\ Len(toAgent) = 1
      BY <2>2, <2>3, CommandIs, Zenon DEF TypeInv
    <3>2. Tail(toAgent) = <<>>
      <4> DEFINE r == Tail(toAgent)
                 k == Len(toAgent)
      <4>1. r \in Seq(Sent) /\ Len(r) = k - 1 /\ k = 1
        BY <3>1
      <4> HIDE DEF r, k
      <4>2. r = <<>>
        BY <4>1
      <4> QED BY <4>2 DEF r
    <3> QED BY <2>2, <3>2
  <2>5. l \in Seq(Process) /\ \A i \in DOMAIN l : l[i] \in Running
    BY ListingIs DEF TypeInv
  <2>6. Listed(l).kind = "RPRC" /\ Listed(l).list = l
    BY DEF Listed
  <2> DEFINE m == Listed(l)
  <2>7. toClient' = <<>> \o <<m>>
    BY <2>2, <2>3
  <2> HIDE DEF m
  <2>8. Len(toClient') = 1 /\ toClient'[1] = m
    BY <2>7
  <2>9. Running \subseteq recent
    BY <2>3 DEF PidInv, Sending
  <2>10. ASSUME NEW i \in DOMAIN toClient'[1].list PROVE toClient'[1].list[i] \in recent'
    BY <2>2, <2>5, <2>6, <2>8, <2>9 DEF m
  <2>11. toClient'[1].kind = "RPRC"
    BY <2>6, <2>8 DEF m
  <2>12. ListStage'
    BY <2>2, <2>3, <2>4, <2>8, <2>10, <2>11 DEF ListStage
  <2>13. StageInv'
    BY <2>2, <2>3, <2>12 DEF StageInv
  <2>14. StartedInv'
    BY <2>2 DEF StartedInv
  <2> QED BY <2>13, <2>14
<1>5. CASE BufferOverrun
  <2>1. UNCHANGED <<script, main, current, info, processes, pid, toAgent, toClient, handler, spawned, recent>>
    BY <1>5 DEF BufferOverrun, factory
  <2> QED BY <2>1, StageKept
<1>6. CASE \E p \in Pid : ProcessEnds(p)
  <2>1. UNCHANGED <<script, main, current, info, processes, pid, toAgent, toClient, handler, spawned, recent>>
    BY <1>6 DEF ProcessEnds, factory
  <2> QED BY <2>1, StageKept
<1> QED BY <1>1, <1>2, <1>3, <1>4, <1>5, <1>6 DEF Agent

(* PidFresh's part: what is known of the processes was running since       *)
(* SendCommand began.                                                      *)
LEMMA PidStep ==
  ASSUME TypeInv, StageInv, PidInv, Next
  PROVE  PidInv'
<1> USE DEF At, Sending
<1>1. CASE NewInfo \/ AllStarted \/ Timeout \/ UnreadableProcesses \/ HaveStatus
  <2>1. main' \notin Sending
    BY <1>1 DEF NewInfo, Turn, AllStarted, Timeout, UnreadableProcesses, HaveStatus
  <2> QED BY <2>1 DEF PidInv
<1>2. CASE BeginSend
  <2>1. /\ processes' = NoList /\ recent' = Running
        /\ main' = (IF ~NeedsPid(script[current]) THEN "send" ELSE "ask")
        /\ UNCHANGED <<script, current, table>>
    BY <1>2 DEF BeginSend, Subscribe, NoList
  <2>2. Running' = Running
    BY <2>1 DEF Running
  <2>3. NeedsPid(script[current])' = NeedsPid(script[current])
    BY <2>1 DEF NeedsPid
  <2>4. processes'.list = <<>>
    BY <2>1 DEF NoList
  <2>5. main' \in {"send", "wait status"} => ~NeedsPid(script[current])
    BY <2>1
  <2>6. (Running \subseteq recent)'
    BY <2>1, <2>2
  <2>7. \A i \in DOMAIN processes'.list : processes'.list[i] \in recent'
    BY <2>4
  <2>8. ~(main' \in {"send", "wait status"} /\ NeedsPid(script[current])')
    BY <2>3, <2>5
  <2> QED BY <2>6, <2>7, <2>8, Zenon DEF PidInv
<1>3. CASE AskProcesses \/ HaveProcesses
  <2>1. /\ main \in {"ask", "wait processes"} /\ main' \in {"wait processes", "find"}
        /\ UNCHANGED <<script, current, processes, pid, table, recent>>
    BY <1>3 DEF AskProcesses, HaveProcesses, device
  <2>2. Running' = Running
    BY <2>1 DEF Running
  <2> QED BY <2>1, <2>2 DEF PidInv
<1>4. CASE FindProcess
  <2> DEFINE l == processes.list
             t == script[current].search
             found == {i \in DOMAIN l : Contains(l[i].cmd, t)}
             c == CHOOSE i \in found : \A j \in found : i <= j
  <2>1. /\ main = "find" /\ main' \in {"send", "not found"}
        /\ UNCHANGED <<script, current, processes, table, recent>>
    BY <1>4 DEF FindProcess, device
  <2>2. Running' = Running
    BY <2>1 DEF Running
  <2>3. ASSUME main' = "send", ~processes.garbled
        PROVE  \E r \in recent : r.pid = pid' /\ Contains(r.cmd, t)
    <3>1. found # {}
      BY <1>4, <2>3 DEF FindProcess
    <3>2. pid' = l[c].pid
      BY <1>4, <3>1 DEF FindProcess
    <3>3. l \in Seq(Process)
      BY DEF TypeInv, FactoryType
    <3>4. c \in found
      <4> HIDE DEF l, t
      <4> QED BY <3>1, <3>3, FoundIs
    <3>5. \A i \in DOMAIN l : l[i] \in recent
      BY <2>1, <2>3 DEF PidInv
    <3> HIDE DEF c, l, t
    <3>6. c \in DOMAIN l /\ Contains(l[c].cmd, t)
      BY <3>4
    <3> QED BY <3>2, <3>5, <3>6
  <2> HIDE DEF l, found, c
  <2>4. \A r : Contains(r.cmd, script[current].search)' <=> Contains(r.cmd, t)
    BY <2>1 DEF Contains
  <2> QED BY <2>1, <2>2, <2>3, <2>4 DEF PidInv, t
<1>5. CASE SendExec \/ StoreStatus \/ SetEvent
  <2>1. /\ main' \in {main, "wait status"} /\ (main' # main => main = "send")
        /\ UNCHANGED <<script, current, processes, pid, table, recent>>
    BY <1>5 DEF SendExec, StoreStatus, SetEvent, device
  <2> QED BY <2>1, PidKept
<1>6. CASE HandlerRemoteProcesses
  <2> DEFINE a == Head(toClient)
             L(n, p) == SubSeq(a.list, 1, a.whole)
                        \o [i \in 1..n |-> [pid |-> p, cmd |-> a.list[a.whole + 1].cmd]]
  <2>1. Receive("RPRC") /\ UNCHANGED <<script, main, current, pid, table, recent>>
    BY <1>6 DEF HandlerRemoteProcesses, device
  <2>2. a \in Complete /\ a = toClient[1]
    BY <2>1, ReceivedIs DEF TypeInv
  <2>3. /\ main = "wait processes"
        /\ \A i \in DOMAIN a.list : a.list[i] \in recent
    BY <2>1, <2>2, ListIsAwaited
  <2>4. PICK n \in 0..Len(a.list) - a.whole, p \in 0..MaxPid :
          /\ n <= 1
          /\ processes' = [known |-> TRUE, garbled |-> a.whole < Len(a.list), list |-> L(n, p)]
    BY <1>6, Zenon DEF HandlerRemoteProcesses
  <2>5. ~(a.whole < Len(a.list)) => L(n, p) = a.list
    <3> HIDE DEF a
    <3> QED BY <2>2, <2>4, StoredList
  <2> DEFINE v == L(n, p)
             g == a.whole < Len(a.list)
  <2>6. processes' = [known |-> TRUE, garbled |-> g, list |-> v] /\ (~g => v = a.list)
    BY <2>4, <2>5
  <2> HIDE DEF v, g, L, a
  <2>7. ~processes'.garbled => processes'.list = a.list
    BY <2>6
  <2>8. Running' = Running /\ Running \subseteq recent
    BY <2>1, <2>3 DEF Running, PidInv
  <2> QED BY <2>1, <2>3, <2>7, <2>8 DEF PidInv
<1>7. CASE HandlerExec
  <2> DEFINE y == Parsed(Head(toAgent).data)
  <2>1. UNCHANGED <<script, main, current, processes, pid>>
    BY <1>7 DEF HandlerExec, factory
  <2>2. \/ \E p \in FreePids :
             /\ table' = [r \in DOMAIN table \union {p} |-> IF r = p THEN y.path ELSE table[r]]
             /\ recent' = recent \union {[pid |-> p, cmd |-> y.path]}
        \/ UNCHANGED <<table, recent>>
    BY <1>7, Zenon DEF HandlerExec
  <2> HIDE DEF y
  <2>3. CASE UNCHANGED <<table, recent>>
    BY <2>1, <2>3, PidKept
  <2>4. ASSUME NEW p \in FreePids,
               table' = [r \in DOMAIN table \union {p} |-> IF r = p THEN y.path ELSE table[r]],
               recent' = recent \union {[pid |-> p, cmd |-> y.path]}
        PROVE  PidInv'
    <3>1. ASSUME Running \subseteq recent PROVE Running' \subseteq recent'
      <4> SUFFICES ASSUME NEW q \in DOMAIN table' PROVE [pid |-> q, cmd |-> table'[q]] \in recent'
        BY DEF Running
      <4>1. CASE q = p
        BY <2>4, <4>1
      <4>2. CASE q # p
        <5>1. q \in DOMAIN table /\ table'[q] = table[q]
          BY <2>4, <4>2
        <5>2. [pid |-> q, cmd |-> table[q]] \in Running
          BY <5>1 DEF Running
        <5> QED BY <2>4, <3>1, <5>1, <5>2
      <4> QED BY <4>1, <4>2
    <3> QED BY <2>1, <2>4, <3>1, PidGrows
  <2> QED BY <2>2, <2>3, <2>4
<1>8. CASE HandlerProc \/ BufferOverrun
  <2>1. UNCHANGED <<script, main, current, processes, pid, table, recent>>
    BY <1>8 DEF HandlerProc, ProcPacket, BufferOverrun, factory, device
  <2> QED BY <2>1, PidKept
<1>9. CASE \E p \in Pid : ProcessEnds(p)
  <2>1. PICK p \in Pid : ProcessEnds(p)
    BY <1>9
  <2>2. /\ table' = [q \in DOMAIN table \ {p} |-> table[q]]
        /\ UNCHANGED <<script, main, current, processes, pid, recent>>
    BY <2>1 DEF ProcessEnds, factory
  <2>3. Running' \subseteq Running
    BY <2>2 DEF Running
  <2> QED BY <2>2, <2>3, PidGrows
<1> QED BY <1>1, <1>2, <1>3, <1>4, <1>5, <1>6, <1>7, <1>8, <1>9, NextIs

-----------------------------------------------------------------------------
(* The theorems.                                                           *)

(* The invariant holds at the beginning. *)
LEMMA InitInv == Init => Inv
<1> SUFFICES ASSUME Init PROVE Inv
  OBVIOUS
<1> USE DEF Init
<1>1. script \in Seq(Program) /\ Len(script) \in Nat /\ MaxPid \in Nat
  <2>1. script \in Seq(Program) /\ MaxPid \in 1..255
    BY ExecAssumption
  <2> QED BY <2>1
<1>2. FactoryType
  <2>1. 0 \in 0..Len(script) /\ 0 \in 0..MaxPid
    BY <1>1
  <2>2. info \in [program: 0..Len(script), status: Status, set: BOOLEAN]
    BY <2>1 DEF Status
  <2>3. processes \in [known: BOOLEAN, garbled: BOOLEAN, list: Seq(Process)]
    BY DEF NoList
  <2> QED BY <2>1, <2>2, <2>3 DEF FactoryType, NoPid
<1>3. QueueType
  BY DEF QueueType
<1>4. DeviceType
  <2>1. PICK t \in Tables : table = [p \in 1..Len(t) |-> t[p]]
    OBVIOUS
  <2>2. t \in Seq(Text) /\ Len(t) <= MaxPid
    BY ExecAssumption
  <2>3. DOMAIN table = 1..Len(t) /\ \A p \in 1..Len(t) : table[p] \in Text
    <3>1. \A p \in 1..Len(t) : t[p] \in Text
      BY <2>2, ElementOfSeq
    <3> QED BY <2>1, <3>1
  <2>4. DOMAIN table \subseteq Pid
    BY <1>1, <2>2, <2>3 DEF Pid
  <2>5. \A p \in DOMAIN table : table[p] \in Text
    BY <2>3, Zenon
  <2>6. alive \in BOOLEAN /\ spawned \in Seq(Call) /\ recent \subseteq Process
    OBVIOUS
  <2> QED BY <2>4, <2>5, <2>6, Zenon DEF DeviceType
<1>5. StageInv
  BY DEF StageInv, Idle, Preparing
<1>6. StartedInv
  BY DEF StartedInv
<1>7. PidInv
  BY DEF PidInv, Sending
<1> QED BY <1>2, <1>3, <1>4, <1>5, <1>6, <1>7 DEF Inv, TypeInv

(* And every step keeps it. *)
LEMMA StepInv == Inv /\ [Next]_vars => Inv'
<1> SUFFICES ASSUME Inv, [Next]_vars PROVE Inv'
  OBVIOUS
<1>1. CASE Next
  <2>1. FactoryType' /\ QueueType' /\ DeviceType'
    BY <1>1, FactoryTypeStep, QueueTypeStep, DeviceTypeStep DEF Inv, TypeInv
  <2>2. StageInv' /\ StartedInv'
    BY <1>1, FactoryStage, ConnectionStage, AgentStage DEF Inv, Next
  <2>3. PidInv'
    BY <1>1, PidStep DEF Inv
  <2> QED BY <2>1, <2>2, <2>3 DEF Inv, TypeInv
<1>2. CASE UNCHANGED vars
  <2>1. UNCHANGED <<script, main, current, info, processes, pid, toAgent, toClient, handler,
                    alive, table, spawned, recent>>
    BY <1>2 DEF vars, factory, device
  <2>2. StageInv' /\ StartedInv'
    BY <2>1, StageKept DEF Inv
  <2>3. PidInv'
    BY <2>1, PidKept DEF Inv
  <2>4. FactoryType' /\ QueueType' /\ DeviceType'
    BY <2>1 DEF Inv, TypeInv, FactoryType, QueueType, DeviceType
  <2> QED BY <2>2, <2>3, <2>4 DEF Inv, TypeInv
<1> QED BY <1>1, <1>2

(* The invariant holds always. *)
LEMMA InvHolds == Spec => []Inv
BY InitInv, StepInv, PTL DEF Spec

(* TypeOK: whatever the programs and the processes are, packets are bytes, *)
(* ids stay in their range, and the agent's parser only returns texts.     *)
THEOREM TypeCorrect == Spec => []TypeOK
<1>1. Inv => TypeOK
  BY TypeInvIsOK DEF Inv
<1> QED BY <1>1, InvHolds, PTL

(* When XmlFuzzFactory.RemoteExec goes on from a program, posix_spawn was  *)
(* called for it, in its turn, with its path, arguments and environment,   *)
(* and succeeded: the answer it waited for was not that of another one.    *)
THEOREM ProgramsAreStarted == Spec => []SuccessMeansStarted
<1>1. Inv => SuccessMeansStarted
  <2> SUFFICES ASSUME Inv, main \notin Ended \ {"done"}
               PROVE  SuccessMeansStarted
    BY DEF SuccessMeansStarted
  <2>1. current \in Nat /\ Len(spawned) \in Nat
    <3>1. script \in Seq(Program) /\ current \in 0..Len(script)
      BY ExecAssumption DEF Inv, TypeInv, FactoryType
    <3>2. spawned \in Seq(Call)
      BY DEF Inv, TypeInv, DeviceType
    <3> QED BY <3>1, <3>2
  <2> DEFINE behind == IF main \in {"next", "done"} THEN current ELSE current - 1
  <2>2. \A i \in 1..behind : StartedAs(script[i], spawned[i])
    BY DEF Inv, StartedInv
  <2>3. CASE main \in {"next", "done"}
    <3>1. Len(spawned) = current
      BY <2>3 DEF Inv, StageInv
    <3>2. Len(spawned) \in behind..current
      BY <2>1, <2>3, <3>1
    <3> QED BY <2>2, <3>2 DEF SuccessMeansStarted
  <2>4. CASE main \notin {"next", "done"}
    <3>1. main \in Preparing \union {"wait status"}
      BY <2>4 DEF Inv, TypeInv, FactoryType, Preparing
    <3>2. Len(spawned) = current - 1 \/ Len(spawned) = current
      BY <3>1 DEF Inv, StageInv, Pending, Handled
    <3>3. Len(spawned) \in behind..current
      BY <2>1, <2>4, <3>2
    <3> QED BY <2>2, <3>3 DEF SuccessMeansStarted
  <2> QED BY <2>3, <2>4
<1> QED BY <1>1, InvHolds, PTL

(* The id SendCommand puts in place of {remote-pid|...} is that of a       *)
(* process with the text in its command that ran since it began, unless    *)
(* the agent's buffer was too small for the list.                          *)
THEOREM PidIsFresh == Spec => []PidFresh
<1>1. Inv => PidFresh
  BY DEF Inv, PidInv, PidFresh, At, Sending
<1> QED BY <1>1, InvHolds, PTL
===============================================================================
