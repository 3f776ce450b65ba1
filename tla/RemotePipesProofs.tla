--------------------------- MODULE RemotePipesProofs --------------------------
(***************************************************************************)
(* Proofs about RemotePipes, for any number of pipes whose ids do not wrap *)
(* and any number of chunks and runs, when Enqueue and Dequeue do not      *)
(* overlap.  The n-th request gets the id n - 1 from the agent and the     *)
(* n-th name from the queue; on the connection a registration is before    *)
(* the data of its pipe and RPIC is behind it.                             *)
(***************************************************************************)
EXTENDS RemotePipes, SequenceTheorems, TLAPS

(* The ids are the numbers from 0 to the largest one. *)
LEMMA IdsAre == Ids \subseteq Nat /\ 0 \in Ids /\ \A n \in Nat : n <= MaxId => n \in Ids
<1>1. MaxId \in Nat
  BY DEF MaxId
<1> QED BY <1>1 DEF Ids

(* The places of a sequence with one element more. *)
LEMMA AppendAt ==
  ASSUME NEW S, NEW s \in Seq(S), NEW x \in S
  PROVE  /\ Append(s, x) \in Seq(S) /\ Len(s) \in Nat /\ Len(Append(s, x)) = Len(s) + 1
         /\ \A i \in 1..Len(s) : Append(s, x)[i] = s[i]
         /\ Append(s, x)[Len(s) + 1] = x
BY AppendProperties, LenProperties

(* The places of a sequence without its first element. *)
LEMMA TailAt ==
  ASSUME NEW S, NEW s \in Seq(S), s # <<>>
  PROVE  /\ Tail(s) \in Seq(S) /\ Len(s) \in Nat /\ Len(s) >= 1 /\ Len(Tail(s)) = Len(s) - 1
         /\ Head(s) \in S /\ Head(s) = s[1]
         /\ \A i \in 1..Len(s) - 1 : Tail(s)[i] = s[i + 1]
<1>1. Len(s) \in Nat /\ Len(s) >= 1
  BY LenProperties, EmptySeq
<1>2. Head(s) \in S /\ Tail(s) \in Seq(S) /\ Len(Tail(s)) = Len(s) - 1
  BY HeadTailProperties
<1>3. ASSUME NEW i \in 1..Len(s) - 1 PROVE Tail(s)[i] = s[i + 1]
  BY <1>1, <1>2, HeadTailProperties
<1> QED BY <1>1, <1>2, <1>3

-----------------------------------------------------------------------------
(* What is under way to the client, in w, when the next registration is    *)
(* the one of the id base and the agent has given out the ids below n.     *)

Registers(k) == k.type = "RPIR"

InRange(w, base, n) ==
  \A i \in 1..Len(w) : w[i].id < n /\ (Registers(w[i]) => base <= w[i].id)

Increasing(w) ==
  \A i, j \in 1..Len(w) : Registers(w[i]) /\ Registers(w[j]) /\ i < j => w[i].id < w[j].id

NoneMissing(w, base, n) ==
  \A x \in base..n - 1 : \E i \in 1..Len(w) : Registers(w[i]) /\ w[i].id = x

(* No data before the registration, nothing behind RPIC. *)
NoneBefore(w) ==
  \A i, j \in 1..Len(w) : Registers(w[i]) /\ ~Registers(w[j]) /\ w[i].id = w[j].id => i < j

NoneBehind(w) ==
  \A i, j \in 1..Len(w) :
    w[i].type = "RPIC" /\ ~Registers(w[j]) /\ w[i].id = w[j].id => j <= i

OwnData(k) == k.type = "RPIP" => k.data[1] \in Chunk /\ k.data[1].pipe = k.id + 1

Wire(w, base, n) ==
  /\ InRange(w, base, n) /\ Increasing(w) /\ NoneMissing(w, base, n)
  /\ NoneBefore(w) /\ NoneBehind(w)
  /\ \A i \in 1..Len(w) : OwnData(w[i])

(* The id of a packet is a number. *)
LEMMA PacketIds == \A k \in Packet : k.id \in Nat
<1>1. \A k \in Packet : k.id \in Ids
  BY DEF Packet
<1> QED BY <1>1, IdsAre

(* The agent sends the data or the end of a pipe that has not ended. *)
LEMMA WireSend ==
  ASSUME NEW w \in Seq(Packet), NEW base \in Nat, NEW n \in Nat, Wire(w, base, n),
         NEW k \in Packet, ~Registers(k), k.id < n, OwnData(k),
         \A i \in 1..Len(w) : w[i].type = "RPIC" => w[i].id # k.id
  PROVE  Wire(Append(w, k), base, n)
<1> DEFINE m == Len(w)
           v == Append(w, k)
<1>1. m \in Nat /\ Len(v) = m + 1 /\ v[m + 1] = k /\ \A i \in 1..m : v[i] = w[i]
  BY AppendAt
<1>2. \A i \in 1..m + 1 : i \in 1..m \/ i = m + 1
  BY <1>1
<1>w. /\ InRange(w, base, n) /\ Increasing(w) /\ NoneMissing(w, base, n)
      /\ NoneBefore(w) /\ NoneBehind(w) /\ \A i \in 1..m : OwnData(w[i])
  BY DEF Wire
<1>k. /\ k.id < n /\ ~Registers(k) /\ OwnData(k) 
      /\ \A i \in 1..m : w[i].type = "RPIC" => w[i].id # k.id
  OBVIOUS
<1> HIDE DEF v
<1>3. InRange(v, base, n)
  BY <1>1, <1>2, <1>w DEF InRange, m
<1>4. Increasing(v)
  BY <1>1, <1>2, <1>w DEF Increasing, m
<1>5. NoneMissing(v, base, n)
  <2> SUFFICES ASSUME NEW x \in base..n - 1
               PROVE  \E i \in 1..Len(v) : Registers(v[i]) /\ v[i].id = x
    BY DEF NoneMissing
  <2>1. PICK i \in 1..m : Registers(w[i]) /\ w[i].id = x
    BY <1>w DEF NoneMissing
  <2>2. i \in 1..Len(v) /\ v[i] = w[i]
    BY <1>1
  <2> QED BY <2>1, <2>2
<1>6. NoneBefore(v)
  <2> SUFFICES ASSUME NEW i \in 1..Len(v), NEW j \in 1..Len(v),
                      Registers(v[i]), ~Registers(v[j]), v[i].id = v[j].id
               PROVE  i < j
    BY DEF NoneBefore
  <2>1. i \in 1..m
    BY <1>1, <1>2
  <2>2. CASE j \in 1..m
    BY <1>1, <1>w, <2>1, <2>2 DEF NoneBefore, m
  <2>3. CASE j = m + 1
    BY <1>1, <2>1, <2>3
  <2> QED BY <1>1, <1>2, <2>2, <2>3
<1>7. NoneBehind(v)
  <2> SUFFICES ASSUME NEW i \in 1..Len(v), NEW j \in 1..Len(v),
                      v[i].type = "RPIC", ~Registers(v[j]), v[i].id = v[j].id
               PROVE  j <= i
    BY DEF NoneBehind
  <2>1. CASE i = m + 1
    BY <1>1, <2>1
  <2>2. CASE i \in 1..m
    <3>1. v[i] = w[i] /\ j # m + 1
      BY <1>1, <1>k, <2>2
    <3>2. j \in 1..m
      BY <1>1, <1>2, <3>1
    <3> QED BY <1>1, <1>w, <2>2, <3>1, <3>2 DEF NoneBehind, m
  <2> QED BY <1>1, <1>2, <2>1, <2>2
<1>8. \A i \in 1..Len(v) : OwnData(v[i])
  BY <1>1, <1>2, <1>w
<1> QED BY <1>3, <1>4, <1>5, <1>6, <1>7, <1>8 DEF Wire, v

(* The agent registers the next pipe. *)
LEMMA WireRegister ==
  ASSUME NEW w \in Seq(Packet), NEW base \in Nat, NEW n \in Nat, base <= n, Wire(w, base, n),
         NEW k \in Packet, Registers(k), k.id = n
  PROVE  Wire(Append(w, k), base, n + 1)
<1> DEFINE m == Len(w)
           v == Append(w, k)
<1>1. m \in Nat /\ Len(v) = m + 1 /\ v[m + 1] = k /\ \A i \in 1..m : v[i] = w[i]
  BY AppendAt
<1>2. \A i \in 1..m + 1 : i \in 1..m \/ i = m + 1
  BY <1>1
<1>w. /\ InRange(w, base, n) /\ Increasing(w) /\ NoneMissing(w, base, n)
      /\ NoneBefore(w) /\ NoneBehind(w) /\ \A i \in 1..m : OwnData(w[i])
  BY DEF Wire
<1>i. \A i \in 1..m : w[i].id \in Nat /\ w[i].id < n
  BY <1>w, PacketIds, ElementOfSeq DEF InRange
<1> HIDE DEF v
<1>3. InRange(v, base, n + 1)
  <2> SUFFICES ASSUME NEW i \in 1..Len(v)
               PROVE  v[i].id < n + 1 /\ (Registers(v[i]) => base <= v[i].id)
    BY DEF InRange
  <2>1. CASE i \in 1..m
    BY <1>1, <1>w, <1>i, <2>1 DEF InRange, m
  <2>2. CASE i = m + 1
    BY <1>1, <2>2
  <2> QED BY <1>1, <1>2, <2>1, <2>2
<1>4. Increasing(v)
  <2> SUFFICES ASSUME NEW i \in 1..Len(v), NEW j \in 1..Len(v), i < j, Registers(v[i]), Registers(v[j])
               PROVE  v[i].id < v[j].id
    BY DEF Increasing
  <2>1. i \in 1..m
    BY <1>1
  <2>2. CASE j \in 1..m
    BY <1>1, <1>w, <2>1, <2>2 DEF Increasing, m
  <2>3. CASE j = m + 1
    BY <1>1, <1>i, <2>1, <2>3
  <2> QED BY <1>1, <1>2, <2>2, <2>3
<1>5. NoneMissing(v, base, n + 1)
  <2> SUFFICES ASSUME NEW x \in base..n + 1 - 1
               PROVE  \E i \in 1..Len(v) : Registers(v[i]) /\ v[i].id = x
    BY DEF NoneMissing
  <2>1. CASE x = n
    <3>1. m + 1 \in 1..Len(v)
      BY <1>1
    <3> QED BY <1>1, <2>1, <3>1
  <2>2. CASE x # n
    <3>1. x \in base..n - 1
      BY <2>2
    <3>2. PICK i \in 1..m : Registers(w[i]) /\ w[i].id = x
      BY <1>w, <3>1 DEF NoneMissing
    <3>3. i \in 1..Len(v) /\ v[i] = w[i]
      BY <1>1
    <3> QED BY <3>2, <3>3
  <2> QED BY <2>1, <2>2
<1>6. NoneBefore(v)
  <2> SUFFICES ASSUME NEW i \in 1..Len(v), NEW j \in 1..Len(v),
                      Registers(v[i]), ~Registers(v[j]), v[i].id = v[j].id
               PROVE  i < j
    BY DEF NoneBefore
  <2>1. j \in 1..m
    BY <1>1, <1>2
  <2>2. i # m + 1
    BY <1>1, <1>i, <2>1
  <2>3. i \in 1..m
    BY <1>1, <1>2, <2>2
  <2> QED BY <1>1, <1>w, <2>1, <2>3 DEF NoneBefore, m
<1>7. NoneBehind(v)
  <2> SUFFICES ASSUME NEW i \in 1..Len(v), NEW j \in 1..Len(v),
                      v[i].type = "RPIC", ~Registers(v[j]), v[i].id = v[j].id
               PROVE  j <= i
    BY DEF NoneBehind
  <2>1. i \in 1..m /\ j \in 1..m
    BY <1>1, <1>2 DEF Registers
  <2> QED BY <1>1, <1>w, <2>1 DEF NoneBehind, m
<1>8. \A i \in 1..Len(v) : OwnData(v[i])
  <2>1. OwnData(k)
    BY DEF OwnData, Registers
  <2> QED BY <1>1, <1>2, <1>w, <2>1
<1> QED BY <1>3, <1>4, <1>5, <1>6, <1>7, <1>8 DEF Wire, v

(* The client takes the first packet: data and ends are of pipes that have *)
(* been registered.                                                        *)
LEMMA WireTake ==
  ASSUME NEW w \in Seq(Packet), NEW base \in Nat, NEW n \in Nat, Wire(w, base, n),
         w # <<>>, ~Registers(Head(w))
  PROVE  /\ Wire(Tail(w), base, n) /\ Head(w).id < base /\ OwnData(Head(w))
         /\ Head(w).type = "RPIC" =>
              \A i \in 1..Len(Tail(w)) : Tail(w)[i].id # Head(w).id
<1> DEFINE m == Len(w)
           v == Tail(w)
<1>1. /\ m \in Nat /\ m >= 1 /\ Len(v) = m - 1 /\ Head(w) = w[1] /\ Head(w) \in Packet
      /\ \A i \in 1..m - 1 : v[i] = w[i + 1]
  BY TailAt
<1>2. \A i \in 1..m - 1 : i + 1 \in 1..m
  BY <1>1
<1>w. /\ InRange(w, base, n) /\ Increasing(w) /\ NoneMissing(w, base, n)
      /\ NoneBefore(w) /\ NoneBehind(w) /\ \A i \in 1..m : OwnData(w[i])
  BY DEF Wire
<1>k. 1 \in 1..m /\ ~Registers(w[1])
  BY <1>1
<1> HIDE DEF v
<1>3. InRange(v, base, n)
  BY <1>1, <1>2, <1>w DEF InRange, m
<1>4. Increasing(v)
  BY <1>1, <1>2, <1>w DEF Increasing, m
<1>5. NoneMissing(v, base, n)
  <2> SUFFICES ASSUME NEW x \in base..n - 1
               PROVE  \E i \in 1..Len(v) : Registers(v[i]) /\ v[i].id = x
    BY DEF NoneMissing
  <2>1. PICK i \in 1..m : Registers(w[i]) /\ w[i].id = x
    BY <1>w DEF NoneMissing
  <2>2. i # 1
    BY <1>k, <2>1
  <2>3. i - 1 \in 1..Len(v) /\ (i - 1) + 1 = i
    BY <1>1, <2>2
  <2>4. v[i - 1] = w[i]
    BY <1>1, <2>3
  <2> QED BY <2>1, <2>3, <2>4
<1>6. NoneBefore(v)
  BY <1>1, <1>2, <1>w, SMTT(30) DEF NoneBefore, m
<1>7. NoneBehind(v)
  BY <1>1, <1>2, <1>w DEF NoneBehind, m
<1>8. \A i \in 1..Len(v) : OwnData(v[i])
  BY <1>1, <1>2, <1>w
<1>9. w[1].id < base
  <2>1. w[1].id \in Nat /\ w[1].id < n
    BY <1>1, <1>k, <1>w, PacketIds DEF InRange, m
  <2> SUFFICES ASSUME w[1].id \in base..n - 1 PROVE FALSE
    BY <2>1
  <2>2. PICK i \in 1..m : Registers(w[i]) /\ w[i].id = w[1].id
    BY <1>w DEF NoneMissing
  <2>3. i < 1
    BY <1>k, <1>w, <2>2 DEF NoneBefore, m
  <2> QED BY <1>1, <2>3
<1>10. ASSUME w[1].type = "RPIC", NEW i \in 1..m - 1 PROVE v[i].id # w[1].id
  <2>1. v[i] = w[i + 1] /\ i + 1 \in 1..m
    BY <1>1, <1>2
  <2> SUFFICES ASSUME w[i + 1].id = w[1].id PROVE FALSE
    BY <2>1
  <2>2. CASE Registers(w[i + 1])
    <3>1. i + 1 < 1
      BY <1>k, <1>w, <2>1, <2>2 DEF NoneBefore, m
    <3> QED BY <1>1, <3>1
  <2>3. CASE ~Registers(w[i + 1])
    <3>1. i + 1 <= 1
      BY <1>k, <1>w, <1>10, <2>1, <2>3 DEF NoneBehind, m
    <3> QED BY <1>1, <3>1
  <2> QED BY <2>2, <2>3
<1>11. Wire(v, base, n)
  BY <1>3, <1>4, <1>5, <1>6, <1>7, <1>8 DEF Wire
<1> QED BY <1>1, <1>k, <1>w, <1>9, <1>10, <1>11 DEF v

(* A registration is the next one. *)
LEMMA WireTakeRegistration ==
  ASSUME NEW w \in Seq(Packet), NEW base \in Nat, NEW n \in Nat, Wire(w, base, n),
         w # <<>>, Registers(Head(w))
  PROVE  Head(w).id = base /\ base < n /\ Wire(Tail(w), base + 1, n)
<1> DEFINE m == Len(w)
           v == Tail(w)
<1>1. /\ m \in Nat /\ m >= 1 /\ Len(v) = m - 1 /\ Head(w) = w[1] /\ Head(w) \in Packet
      /\ \A i \in 1..m - 1 : v[i] = w[i + 1]
  BY TailAt
<1>2. \A i \in 1..m - 1 : i + 1 \in 1..m
  BY <1>1
<1>w. /\ InRange(w, base, n) /\ Increasing(w) /\ NoneMissing(w, base, n)
      /\ NoneBefore(w) /\ NoneBehind(w) /\ \A i \in 1..m : OwnData(w[i])
  BY DEF Wire
<1>k. 1 \in 1..m /\ Registers(w[1])
  BY <1>1
<1>i. \A i \in 1..m : w[i].id \in Nat
  BY PacketIds, ElementOfSeq
<1> HIDE DEF v
<1>3. w[1].id = base /\ base < n
  <2>1. w[1].id \in Nat /\ w[1].id < n /\ base <= w[1].id
    BY <1>i, <1>k, <1>w DEF InRange, m
  <2>2. base \in base..n - 1
    BY <2>1
  <2>3. PICK i \in 1..m : Registers(w[i]) /\ w[i].id = base
    BY <1>w, <2>2 DEF NoneMissing
  <2>4. CASE i = 1
    BY <2>1, <2>3, <2>4
  <2>5. CASE i # 1
    <3>1. 1 < i
      BY <2>5
    <3>2. w[1].id < w[i].id
      BY <1>k, <1>w, <2>3, <3>1 DEF Increasing, m
    <3> QED BY <2>1, <2>3, <3>2
  <2> QED BY <2>4, <2>5
<1>4. InRange(v, base + 1, n)
  <2> SUFFICES ASSUME NEW i \in 1..Len(v)
               PROVE  v[i].id < n /\ (Registers(v[i]) => base + 1 <= v[i].id)
    BY DEF InRange
  <2>1. v[i] = w[i + 1] /\ i + 1 \in 1..m /\ 1 < i + 1
    BY <1>1, <1>2
  <2>2. w[i + 1].id < n
    BY <1>w, <2>1 DEF InRange, m
  <2>3. Registers(w[i + 1]) => w[1].id < w[i + 1].id
    BY <1>k, <1>w, <2>1 DEF Increasing, m
  <2>4. w[i + 1].id \in Nat
    BY <1>i, <2>1
  <2> QED BY <1>3, <2>1, <2>2, <2>3, <2>4
<1>5. Increasing(v)
  BY <1>1, <1>2, <1>w DEF Increasing, m
<1>6. NoneMissing(v, base + 1, n)
  <2> SUFFICES ASSUME NEW x \in base + 1..n - 1
               PROVE  \E i \in 1..Len(v) : Registers(v[i]) /\ v[i].id = x
    BY DEF NoneMissing
  <2>0. x \in base..n - 1 /\ x # base
    OBVIOUS
  <2>1. PICK i \in 1..m : Registers(w[i]) /\ w[i].id = x
    BY <1>w, <2>0 DEF NoneMissing
  <2>2. i # 1
    BY <1>3, <2>0, <2>1
  <2>3. i - 1 \in 1..Len(v) /\ (i - 1) + 1 = i
    BY <1>1, <2>2
  <2>4. v[i - 1] = w[i]
    BY <1>1, <2>3
  <2> QED BY <2>1, <2>3, <2>4
<1>7. NoneBefore(v)
  BY <1>1, <1>2, <1>w, SMTT(30) DEF NoneBefore, m
<1>8. NoneBehind(v)
  BY <1>1, <1>2, <1>w DEF NoneBehind, m
<1>9. \A i \in 1..Len(v) : OwnData(v[i])
  BY <1>1, <1>2, <1>w
<1> QED BY <1>1, <1>3, <1>4, <1>5, <1>6, <1>7, <1>8, <1>9 DEF Wire, v

-----------------------------------------------------------------------------
(* Requests, registrations and pipes.                                      *)

(* The id of the next registration the client takes off the connection,    *)
(* and the number of requests the fuzzing thread has sent.                 *)
Base == IF reader.pc = "dequeue" THEN queue.taken + 1 ELSE queue.taken
SentRequests == IF main \in {"count", "send"} THEN requests - 1 ELSE requests

PipesType ==
  /\ main \in {"request", "count", "send", "idle", "running", "closed"}
  /\ requests \in 0..NumPipes
  /\ queue \in [count: Int, taken: Nat, added: Nat] /\ counted \in [{1, 2} -> Int]
  /\ reader \in [pc: {"idle", "dequeue", "write", "dead"}, packet: Packet]
  /\ toAgent \in Seq(Pipe) /\ toClient \in Seq(Packet)
  /\ nextId \in Nat /\ nextId <= NumPipes
  /\ thread \in [Pipe -> [pc: {"none", "opening", "reading", "ended", "failed"}, id: Ids]]
  /\ fifo \in [Pipe -> Seq(Chunk)]

(* Dequeue and Enqueue keep the count right, since they do not overlap. *)
QueueInv ==
  /\ queue.count = IF main = "count" THEN requests - queue.taken - 1 ELSE requests - queue.taken
  /\ main = "count" => counted[1] = queue.count /\ reader.pc # "dequeue"
  /\ reader.pc = "dequeue" => counted[2] = queue.count /\ reader.packet.id = queue.taken
  /\ main \in {"count", "send"} => requests > 0

(* The agent has the requests that were sent, in order. *)
RequestInv ==
  /\ Base <= nextId /\ nextId + Len(toAgent) = SentRequests
  /\ \A i \in 1..Len(toAgent) : toAgent[i] = nextId + i

(* The n-th pipe has the id n - 1. *)
PipeIds ==
  \A p \in Pipe : IF p <= nextId THEN thread[p].pc # "none" /\ thread[p].id = p - 1
                                 ELSE thread[p].pc = "none"

(* RPIC is sent by a thread that has ended. *)
EndsInv ==
  \A i \in 1..Len(toClient) :
    toClient[i].type = "RPIC" => thread[toClient[i].id + 1].pc = "ended"

ThreadInv == PipeIds /\ EndsInv

FifoInv == \A p \in Pipe : \A i \in 1..Len(fifo[p]) : fifo[p][i].pipe = p

(* A pipe is registered under its name until its end was received. *)
RegisteredInv ==
  /\ \A id \in DOMAIN registered : id \in Nat /\ id < queue.taken /\ registered[id] = id + 1
  /\ \A id \in 0..queue.taken - 1 :
       \/ id \in DOMAIN registered
       \/ /\ thread[id + 1].pc = "ended"
          /\ \A i \in 1..Len(toClient) : toClient[i].id # id

PipesInv ==
  /\ PipesType /\ QueueInv /\ RequestInv /\ ThreadInv /\ FifoInv /\ RegisteredInv
  /\ Wire(toClient, Base, nextId)

(* Nothing has been requested at the start. *)
LEMMA PipesInit == Init => PipesInv
<1> SUFFICES ASSUME Init PROVE PipesInv
  OBVIOUS
<1>1. Len(<<>>) = 0 /\ \A i \in 1..0 : FALSE
  OBVIOUS
<1>2. NoThread \in [pc: {"none", "opening", "reading", "ended", "failed"}, id: Ids]
      /\ Idle \in [pc: {"idle", "dequeue", "write", "dead"}, packet: Packet]
  <2>1. 0 \in Ids
    BY IdsAre
  <2>2. NoPacket \in Packet
    BY <2>1 DEF NoPacket, Packet
  <2> QED BY <2>1, <2>2 DEF NoThread, Idle
<1>3. PipesType
  BY <1>2, PipesAssumption DEF Init, PipesType
<1>4. Base = 0 /\ nextId = 0 /\ SentRequests = 0
  BY DEF Init, Base, SentRequests, Idle
<1>5. QueueInv
  BY DEF Init, QueueInv, Idle
<1>6. RequestInv
  BY <1>1, <1>4 DEF Init, RequestInv
<1>7. ThreadInv /\ FifoInv
  BY <1>1, PipesAssumption DEF Init, ThreadInv, PipeIds, EndsInv, FifoInv, NoThread, Pipe
<1>8. RegisteredInv
  <2>1. DOMAIN registered = {} /\ queue.taken = 0
    BY DEF Init
  <2> QED BY <2>1 DEF RegisteredInv
<1>9. Wire(toClient, Base, nextId)
  BY <1>1, <1>4 DEF Init, Wire, InRange, Increasing, NoneMissing, NoneBefore, NoneBehind
<1> QED BY <1>3, <1>5, <1>6, <1>7, <1>8, <1>9 DEF PipesInv

(* Numbers. *)
LEMMA PipesFacts ==
  ASSUME PipesInv
  PROVE  /\ NumPipes \in Nat /\ nextId \in Nat /\ nextId <= NumPipes /\ requests \in 0..NumPipes
         /\ queue.taken \in Nat /\ queue.count \in Int /\ Base \in Nat /\ Base <= nextId
         /\ Len(toAgent) \in Nat /\ Len(toClient) \in Nat
         /\ \A i \in 1..Len(toClient) : /\ toClient[i] \in Packet /\ toClient[i].id \in Nat
                                        /\ toClient[i].id < nextId /\ toClient[i].id + 1 \in Pipe
<1>1. /\ NumPipes \in Nat /\ nextId \in Nat /\ nextId <= NumPipes /\ requests \in 0..NumPipes
      /\ queue.taken \in Nat /\ queue.count \in Int /\ Base \in Nat /\ Base <= nextId
  BY PipesAssumption DEF PipesInv, PipesType, RequestInv, Base
<1>2. Len(toAgent) \in Nat /\ Len(toClient) \in Nat
  BY LenProperties DEF PipesInv, PipesType
<1>3. ASSUME NEW i \in 1..Len(toClient)
      PROVE  /\ toClient[i] \in Packet /\ toClient[i].id \in Nat
             /\ toClient[i].id < nextId /\ toClient[i].id + 1 \in Pipe
  <2>1. toClient[i] \in Packet
    BY ElementOfSeq DEF PipesInv, PipesType
  <2>2. toClient[i].id \in Nat
    BY <2>1, PacketIds
  <2>3. toClient[i].id < nextId
    BY DEF PipesInv, Wire, InRange
  <2> QED BY <1>1, <2>1, <2>2, <2>3 DEF Pipe
<1> QED BY <1>1, <1>2, <1>3

(* Steps that change none of this. *)
LEMMA PipesQuiet ==
  ASSUME PipesInv,
         UNCHANGED <<requests, queue, counted, registered, toAgent, toClient, nextId, thread, fifo>>,
         main' \in {"request", "count", "send", "idle", "running", "closed"},
         reader' \in [pc: {"idle", "dequeue", "write", "dead"}, packet: Packet],
         main \in {"count", "send"} \/ main' \in {"count", "send"} => main' = main,
         reader.pc = "dequeue" \/ reader'.pc = "dequeue" => reader' = reader
  PROVE  PipesInv'
<1>1. Base' = Base /\ SentRequests' = SentRequests
  BY DEF Base, SentRequests
<1>2. PipesType'
  BY DEF PipesInv, PipesType
<1>3. QueueInv'
  BY DEF PipesInv, QueueInv
<1>4. RequestInv' /\ ThreadInv' /\ FifoInv' /\ RegisteredInv'
  BY <1>1 DEF PipesInv, RequestInv, ThreadInv, PipeIds, EndsInv, FifoInv, RegisteredInv
<1>5. Wire(toClient, Base, nextId)'
  BY <1>1 DEF PipesInv
<1> QED BY <1>2, <1>3, <1>4, <1>5 DEF PipesInv

(* The fields of the queue. *)
LEMMA QueueFields ==
  ASSUME NEW q \in [count: Int, taken: Nat, added: Nat], NEW c \in Int, NEW t \in Nat, NEW a \in Nat
  PROVE  /\ [q EXCEPT !.added = a] \in [count: Int, taken: Nat, added: Nat]
         /\ [q EXCEPT !.added = a].taken = q.taken /\ [q EXCEPT !.added = a].count = q.count
         /\ [q EXCEPT !.count = c] \in [count: Int, taken: Nat, added: Nat]
         /\ [q EXCEPT !.count = c].taken = q.taken /\ [q EXCEPT !.count = c].count = c
         /\ [q EXCEPT !.count = c, !.taken = t] \in [count: Int, taken: Nat, added: Nat]
         /\ [q EXCEPT !.count = c, !.taken = t].taken = t
         /\ [q EXCEPT !.count = c, !.taken = t].count = c
OBVIOUS

(* RemoteRequestPipe. *)
LEMMA PipesRequest ==
  ASSUME PipesInv, ~MayOverlap, RequestPipe
  PROVE  PipesInv'
<1>1. /\ main = "request" /\ main' = "count" /\ requests < NumPipes /\ reader.pc # "dequeue"
      /\ requests' = requests + 1 /\ queue' = [queue EXCEPT !.added = queue.added + 1]
      /\ counted' = [counted EXCEPT ![1] = queue.count]
      /\ UNCHANGED <<registered, reader, toAgent, toClient, nextId, thread, fifo>>
  BY DEF RequestPipe, At, clientVars, agentVars
<1>2. /\ queue' \in [count: Int, taken: Nat, added: Nat]
      /\ queue'.taken = queue.taken /\ queue'.count = queue.count
  <2>1. queue \in [count: Int, taken: Nat, added: Nat] /\ queue.added + 1 \in Nat
    BY DEF PipesInv, PipesType
  <2> QED BY <1>1, <2>1, QueueFields
<1>3. Base' = Base
  BY <1>1, <1>2 DEF Base
<1>4. SentRequests' = SentRequests
  BY <1>1, PipesFacts DEF SentRequests
<1>5. PipesType'
  <2>1. requests' \in 0..NumPipes /\ counted' \in [{1, 2} -> Int]
    BY <1>1, PipesFacts DEF PipesInv, PipesType
  <2> QED BY <1>1, <1>2, <2>1 DEF PipesInv, PipesType
<1>6. QueueInv'
  <2>1. queue.count = requests - queue.taken
    BY <1>1 DEF PipesInv, QueueInv
  <2>2. queue'.count = requests' - queue'.taken - 1 /\ requests' > 0
    BY <1>1, <1>2, <2>1, PipesFacts
  <2>3. counted'[1] = queue'.count
    BY <1>1, <1>2 DEF PipesInv, PipesType
  <2> QED BY <1>1, <2>2, <2>3 DEF QueueInv
<1>7. RequestInv' /\ ThreadInv' /\ FifoInv' /\ RegisteredInv'
  BY <1>1, <1>2, <1>3, <1>4 DEF PipesInv, RequestInv, ThreadInv, PipeIds, EndsInv, FifoInv, RegisteredInv
<1>8. Wire(toClient, Base, nextId)'
  BY <1>1, <1>3 DEF PipesInv
<1> QED BY <1>5, <1>6, <1>7, <1>8 DEF PipesInv

(* The request is counted when it is in the queue. *)
LEMMA PipesCount ==
  ASSUME PipesInv, CountRequest
  PROVE  PipesInv'
<1>1. /\ main = "count" /\ main' = "send" /\ queue' = [queue EXCEPT !.count = counted[1] + 1]
      /\ UNCHANGED <<requests, counted, registered, reader, toAgent, toClient, nextId, thread, fifo>>
  BY DEF CountRequest, At, clientVars, agentVars
<1>2. counted[1] = queue.count /\ reader.pc # "dequeue" /\ counted[1] \in Int
  BY <1>1, PipesFacts DEF PipesInv, QueueInv
<1>3. /\ queue' \in [count: Int, taken: Nat, added: Nat]
      /\ queue'.taken = queue.taken /\ queue'.count = queue.count + 1
  <2>1. queue \in [count: Int, taken: Nat, added: Nat] /\ counted[1] + 1 \in Int
    BY <1>2 DEF PipesInv, PipesType
  <2> QED BY <1>1, <1>2, <2>1, QueueFields
<1>4. Base' = Base /\ SentRequests' = SentRequests
  BY <1>1, <1>3 DEF Base, SentRequests
<1>5. PipesType'
  BY <1>1, <1>3 DEF PipesInv, PipesType
<1>6. QueueInv'
  <2>1. queue.count = requests - queue.taken - 1 /\ requests > 0
    BY <1>1 DEF PipesInv, QueueInv
  <2>2. queue'.count = requests' - queue'.taken
    BY <1>1, <1>3, <2>1, PipesFacts
  <2> QED BY <1>1, <1>2, <2>1, <2>2 DEF QueueInv
<1>7. RequestInv' /\ ThreadInv' /\ FifoInv' /\ RegisteredInv'
  BY <1>1, <1>3, <1>4 DEF PipesInv, RequestInv, ThreadInv, PipeIds, EndsInv, FifoInv, RegisteredInv
<1>8. Wire(toClient, Base, nextId)'
  BY <1>1, <1>4 DEF PipesInv
<1> QED BY <1>5, <1>6, <1>7, <1>8 DEF PipesInv

(* The request is sent when it is counted. *)
LEMMA PipesSend ==
  ASSUME PipesInv, SendRequest
  PROVE  PipesInv'
<1>1. /\ main = "send" /\ main' \in {"idle", "request"} /\ toAgent' = Append(toAgent, requests)
      /\ UNCHANGED <<requests, queue, counted, registered, reader, toClient, nextId, thread, fifo>>
  BY DEF SendRequest, At, clientVars, agentVars, queueVars
<1>2. requests > 0 /\ requests \in Pipe
  BY <1>1, PipesFacts DEF PipesInv, QueueInv, Pipe
<1>3. /\ toAgent' \in Seq(Pipe) /\ Len(toAgent') = Len(toAgent) + 1
      /\ toAgent'[Len(toAgent) + 1] = requests
      /\ \A i \in 1..Len(toAgent) : toAgent'[i] = toAgent[i]
  BY <1>1, <1>2, AppendAt DEF PipesInv, PipesType
<1>4. Base' = Base
  BY <1>1 DEF Base
<1>5. PipesType'
  BY <1>1, <1>3 DEF PipesInv, PipesType
<1>6. QueueInv'
  BY <1>1 DEF PipesInv, QueueInv
<1>7. RequestInv'
  <2>1. nextId + Len(toAgent) = requests - 1
    BY <1>1 DEF PipesInv, RequestInv, SentRequests
  <2>2. nextId' + Len(toAgent') = SentRequests'
    <3>1. SentRequests' = requests
      BY <1>1 DEF SentRequests
    <3>2. nextId \in Nat /\ Len(toAgent) \in Nat /\ requests \in Nat
      BY PipesFacts
    <3>3. nextId' = nextId /\ Len(toAgent') = Len(toAgent) + 1
      BY <1>1, <1>3
    <3> QED BY <2>1, <3>1, <3>2, <3>3
  <2>3. ASSUME NEW i \in 1..Len(toAgent') PROVE toAgent'[i] = nextId + i
    <3>1. CASE i = Len(toAgent) + 1
      BY <1>3, <2>1, <3>1, PipesFacts
    <3>2. CASE i # Len(toAgent) + 1
      <4>1. i \in 1..Len(toAgent)
        BY <1>3, <3>2, PipesFacts
      <4> QED BY <1>3, <4>1 DEF PipesInv, RequestInv
    <3> QED BY <3>1, <3>2
  <2>4. Base' <= nextId'
    BY <1>1, <1>4, PipesFacts
  <2> QED BY <1>1, <2>2, <2>3, <2>4 DEF RequestInv
<1>8. ThreadInv' /\ FifoInv' /\ RegisteredInv'
  BY <1>1 DEF PipesInv, ThreadInv, PipeIds, EndsInv, FifoInv, RegisteredInv
<1>9. Wire(toClient, Base, nextId)'
  BY <1>1, <1>4 DEF PipesInv
<1> QED BY <1>5, <1>6, <1>7, <1>8, <1>9 DEF PipesInv

(* RPIR: it is the registration of the oldest request in the queue. *)
LEMMA PipesRegistered ==
  ASSUME PipesInv, ~MayOverlap, HandlerRegisteredPipe
  PROVE  PipesInv' /\ reader'.pc = "dequeue"
<1>1. /\ reader.pc = "idle" /\ toClient # <<>> /\ Registers(Head(toClient))
      /\ toClient' = Tail(toClient) /\ main # "count"
      /\ counted' = [counted EXCEPT ![2] = queue.count]
      /\ UNCHANGED <<main, requests, queue, registered, toAgent, nextId, thread, fifo>>
  BY DEF HandlerRegisteredPipe, Receive, Registers, mainVars, agentVars
<1>2. toClient \in Seq(Packet) /\ Wire(toClient, Base, nextId) /\ Base \in Nat /\ nextId \in Nat
  BY PipesFacts DEF PipesInv, PipesType
<1>3. Head(toClient).id = Base /\ Base < nextId /\ Wire(Tail(toClient), Base + 1, nextId)
  BY <1>1, <1>2, WireTakeRegistration
<1>4. Base = queue.taken
  BY <1>1 DEF Base
<1>5. queue.count = requests - queue.taken /\ queue.count # 0 /\ queue.taken \notin DOMAIN registered
  <2>1. queue.count = requests - queue.taken
    BY <1>1 DEF PipesInv, QueueInv
  <2>2. nextId <= requests
    BY PipesFacts DEF PipesInv, RequestInv, SentRequests
  <2> QED BY <1>3, <1>4, <2>1, <2>2, PipesFacts DEF PipesInv, RegisteredInv
<1>6. reader' = [pc |-> "dequeue", packet |-> Head(toClient)]
  BY <1>3, <1>4, <1>5 DEF HandlerRegisteredPipe
<1>7. /\ toClient' \in Seq(Packet) /\ Head(toClient) \in Packet /\ Len(toClient') = Len(toClient) - 1
      /\ \A i \in 1..Len(toClient') : toClient'[i] = toClient[i + 1] /\ i + 1 \in 1..Len(toClient)
  <2>1. /\ Tail(toClient) \in Seq(Packet) /\ Head(toClient) \in Packet
        /\ Len(Tail(toClient)) = Len(toClient) - 1 /\ Len(toClient) \in Nat
        /\ \A i \in 1..Len(toClient) - 1 : Tail(toClient)[i] = toClient[i + 1]
    BY <1>1, <1>2, TailAt
  <2> QED BY <1>1, <2>1
<1>8. Base' = Base + 1 /\ SentRequests' = SentRequests
  BY <1>1, <1>4, <1>6 DEF Base, SentRequests
<1>9. PipesType'
  <2>1. counted' \in [{1, 2} -> Int] /\ reader' \in [pc: {"idle", "dequeue", "write", "dead"}, packet: Packet]
    BY <1>1, <1>6, <1>7, PipesFacts DEF PipesInv, PipesType
  <2> QED BY <1>1, <1>7, <2>1 DEF PipesInv, PipesType
<1>10. QueueInv'
  <2>1. counted'[2] = queue.count
    BY <1>1 DEF PipesInv, PipesType
  <2> QED BY <1>1, <1>3, <1>4, <1>5, <1>6, <2>1 DEF PipesInv, QueueInv
<1>11. RequestInv'
  BY <1>1, <1>3, <1>8, PipesFacts DEF PipesInv, RequestInv
<1>12. ThreadInv' /\ FifoInv' /\ RegisteredInv'
  BY <1>1, <1>7 DEF PipesInv, ThreadInv, PipeIds, EndsInv, FifoInv, RegisteredInv
<1>13. Wire(toClient, Base, nextId)'
  BY <1>1, <1>3, <1>8
<1> QED BY <1>6, <1>9, <1>10, <1>11, <1>12, <1>13 DEF PipesInv

(* RPIR takes the name of its own request from the queue. *)
LEMMA PipesDequeue ==
  ASSUME PipesInv, DequeueRequest
  PROVE  PipesInv'
<1>1. /\ reader.pc = "dequeue" /\ reader' = Idle
      /\ registered' = Register(reader.packet.id, queue.taken + 1)
      /\ queue' = [queue EXCEPT !.count = counted[2] - 1, !.taken = queue.taken + 1]
      /\ UNCHANGED <<main, requests, counted, toAgent, toClient, nextId, thread, fifo>>
  BY DEF DequeueRequest, mainVars, agentVars
<1>2. reader.packet.id = queue.taken /\ counted[2] = queue.count /\ main # "count"
  BY <1>1 DEF PipesInv, QueueInv
<1>3. /\ queue' \in [count: Int, taken: Nat, added: Nat]
      /\ queue'.taken = queue.taken + 1 /\ queue'.count = queue.count - 1
  <2>1. queue \in [count: Int, taken: Nat, added: Nat] /\ counted[2] - 1 \in Int /\ queue.taken + 1 \in Nat
    BY <1>2, PipesFacts DEF PipesInv, PipesType
  <2> QED BY <1>1, <1>2, <2>1, QueueFields
<1>4. /\ DOMAIN registered' = DOMAIN registered \union {queue.taken}
      /\ registered'[queue.taken] = queue.taken + 1
      /\ \A id \in DOMAIN registered : id # queue.taken => registered'[id] = registered[id]
  BY <1>1, <1>2 DEF Register
<1>5. reader'.pc = "idle" /\ reader' \in [pc: {"idle", "dequeue", "write", "dead"}, packet: Packet]
  <2>1. NoPacket \in Packet
    BY IdsAre DEF NoPacket, Packet
  <2> QED BY <1>1, <2>1 DEF Idle
<1>6. Base' = Base /\ SentRequests' = SentRequests
  BY <1>1, <1>3, <1>5 DEF Base, SentRequests
<1>7. PipesType'
  BY <1>1, <1>3, <1>5 DEF PipesInv, PipesType
<1>8. QueueInv'
  <2>1. queue.count = requests - queue.taken
    BY <1>2 DEF PipesInv, QueueInv
  <2>2. queue'.count = requests' - queue'.taken
    BY <1>1, <1>3, <2>1, PipesFacts
  <2> QED BY <1>1, <1>2, <1>5, <2>2 DEF PipesInv, QueueInv
<1>9. RequestInv' /\ ThreadInv' /\ FifoInv'
  BY <1>1, <1>6 DEF PipesInv, RequestInv, ThreadInv, PipeIds, EndsInv, FifoInv
<1>10. RegisteredInv'
  <2>1. ASSUME NEW id \in DOMAIN registered'
        PROVE  id \in Nat /\ id < queue'.taken /\ registered'[id] = id + 1
    <3>1. CASE id = queue.taken
      BY <1>3, <1>4, <3>1, PipesFacts
    <3>2. CASE id # queue.taken
      BY <1>3, <1>4, <3>2, PipesFacts, SMTT(30) DEF PipesInv, RegisteredInv
    <3> QED BY <3>1, <3>2
  <2>2. ASSUME NEW id \in 0..queue'.taken - 1, id \notin DOMAIN registered'
        PROVE  /\ thread'[id + 1].pc = "ended"
               /\ \A i \in 1..Len(toClient') : toClient'[i].id # id
    <3>1. id \in 0..queue.taken - 1 /\ id \notin DOMAIN registered
      BY <1>3, <1>4, <2>2, PipesFacts, SMTT(30)
    <3> QED BY <1>1, <3>1 DEF PipesInv, RegisteredInv
  <2> QED BY <2>1, <2>2 DEF RegisteredInv
<1>11. Wire(toClient, Base, nextId)'
  BY <1>1, <1>6 DEF PipesInv
<1> QED BY <1>7, <1>8, <1>9, <1>10, <1>11 DEF PipesInv

(* RPIP and RPIC: the pipe is registered, and only RPIC is its last. *)
LEMMA PipesTake ==
  ASSUME PipesInv, reader.pc = "idle", toClient # <<>>, ~Registers(Head(toClient))
  PROVE  /\ Wire(Tail(toClient), Base, nextId) /\ Base = queue.taken
         /\ Head(toClient) \in Packet /\ OwnData(Head(toClient))
         /\ Head(toClient).id \in DOMAIN registered
         /\ registered[Head(toClient).id] = Head(toClient).id + 1
         /\ Head(toClient).type = "RPIC" =>
              /\ thread[Head(toClient).id + 1].pc = "ended"
              /\ \A i \in 1..Len(Tail(toClient)) : Tail(toClient)[i].id # Head(toClient).id
         /\ Tail(toClient) \in Seq(Packet)
         /\ \A i \in 1..Len(Tail(toClient)) :
              Tail(toClient)[i] = toClient[i + 1] /\ i + 1 \in 1..Len(toClient)
<1>1. toClient \in Seq(Packet) /\ Wire(toClient, Base, nextId) /\ Base \in Nat /\ nextId \in Nat
  BY PipesFacts DEF PipesInv, PipesType
<1>2. /\ Wire(Tail(toClient), Base, nextId) /\ Head(toClient).id < Base /\ OwnData(Head(toClient))
      /\ Head(toClient).type = "RPIC" =>
           \A i \in 1..Len(Tail(toClient)) : Tail(toClient)[i].id # Head(toClient).id
  BY <1>1, WireTake
<1>3. /\ Tail(toClient) \in Seq(Packet) /\ Head(toClient) \in Packet /\ Head(toClient) = toClient[1]
      /\ Len(Tail(toClient)) = Len(toClient) - 1 /\ Len(toClient) \in Nat /\ Len(toClient) >= 1
      /\ \A i \in 1..Len(toClient) - 1 : Tail(toClient)[i] = toClient[i + 1]
  BY <1>1, TailAt
<1>4. Base = queue.taken
  BY DEF Base
<1>5. 1 \in 1..Len(toClient)
  BY <1>3
<1>6. Head(toClient).id \in DOMAIN registered
  <2>1. Head(toClient).id \in 0..queue.taken - 1
    BY <1>2, <1>3, <1>4, PacketIds, PipesFacts
  <2> QED BY <1>3, <1>5, <2>1 DEF PipesInv, RegisteredInv
<1>7. registered[Head(toClient).id] = Head(toClient).id + 1
  BY <1>6 DEF PipesInv, RegisteredInv
<1>8. Head(toClient).type = "RPIC" => thread[Head(toClient).id + 1].pc = "ended"
  BY <1>3, <1>5 DEF PipesInv, ThreadInv, PipeIds, EndsInv
<1>9. ASSUME NEW i \in 1..Len(Tail(toClient))
      PROVE  Tail(toClient)[i] = toClient[i + 1] /\ i + 1 \in 1..Len(toClient)
  <2>1. i \in 1..Len(toClient) - 1 /\ i + 1 \in 1..Len(toClient)
    BY <1>3
  <2> QED BY <1>3, <2>1
<1> QED BY <1>2, <1>3, <1>4, <1>6, <1>7, <1>8, <1>9

(* RPIP is given to the name that is registered for its id. *)
LEMMA PipesData ==
  ASSUME PipesInv, HandlerPipeData
  PROVE  PipesInv'
<1>1. /\ reader.pc = "idle" /\ toClient # <<>> /\ ~Registers(Head(toClient))
      /\ toClient' = Tail(toClient)
      /\ UNCHANGED <<main, requests, queue, counted, registered, toAgent, nextId, thread, fifo>>
  BY DEF HandlerPipeData, Receive, Registers, mainVars, queueVars, agentVars
<1>2. /\ Wire(Tail(toClient), Base, nextId) /\ Head(toClient) \in Packet /\ toClient' \in Seq(Packet)
      /\ \A i \in 1..Len(toClient') : toClient'[i] = toClient[i + 1] /\ i + 1 \in 1..Len(toClient)
  BY <1>1, PipesTake
<1>3. /\ reader' \in [pc: {"idle", "dequeue", "write", "dead"}, packet: Packet]
      /\ reader'.pc # "dequeue"
  BY <1>1, <1>2 DEF HandlerPipeData, PipesInv, PipesType
<1>4. Base' = Base /\ SentRequests' = SentRequests
  BY <1>1, <1>3 DEF Base, SentRequests
<1>5. PipesType'
  BY <1>1, <1>2, <1>3 DEF PipesInv, PipesType
<1>6. QueueInv' /\ RequestInv' /\ FifoInv'
  BY <1>1, <1>3, <1>4 DEF PipesInv, QueueInv, RequestInv, FifoInv
<1>7. ThreadInv' /\ RegisteredInv'
  BY <1>1, <1>2 DEF PipesInv, ThreadInv, PipeIds, EndsInv, RegisteredInv
<1>8. Wire(toClient, Base, nextId)'
  BY <1>1, <1>2, <1>4
<1> QED BY <1>5, <1>6, <1>7, <1>8 DEF PipesInv

(* RPIC ends the registration of a pipe whose packets have all arrived. *)
LEMMA PipesClosed ==
  ASSUME PipesInv, HandlerPipeClosed
  PROVE  PipesInv'
<1>1. /\ reader.pc = "idle" /\ toClient # <<>> /\ Head(toClient).type = "RPIC"
      /\ toClient' = Tail(toClient)
      /\ registered' = [i \in DOMAIN registered \ {Head(toClient).id} |-> registered[i]]
      /\ UNCHANGED <<main, requests, queue, counted, reader, toAgent, nextId, thread, fifo>>
  BY DEF HandlerPipeClosed, Receive, mainVars, queueVars, agentVars
<1>2. /\ Wire(Tail(toClient), Base, nextId) /\ toClient' \in Seq(Packet)
      /\ thread[Head(toClient).id + 1].pc = "ended"
      /\ \A i \in 1..Len(toClient') : toClient'[i].id # Head(toClient).id
      /\ \A i \in 1..Len(toClient') : toClient'[i] = toClient[i + 1] /\ i + 1 \in 1..Len(toClient)
  <2>1. ~Registers(Head(toClient))
    BY <1>1 DEF Registers
  <2> QED BY <1>1, <2>1, PipesTake
<1>3. Base' = Base /\ SentRequests' = SentRequests
  BY <1>1 DEF Base, SentRequests
<1>4. PipesType'
  BY <1>1, <1>2 DEF PipesInv, PipesType
<1>5. QueueInv' /\ RequestInv' /\ FifoInv'
  BY <1>1, <1>3 DEF PipesInv, QueueInv, RequestInv, FifoInv
<1>6. ThreadInv'
  BY <1>1, <1>2 DEF PipesInv, ThreadInv, PipeIds, EndsInv
<1>7. RegisteredInv'
  <2>1. ASSUME NEW id \in DOMAIN registered'
        PROVE  id \in Nat /\ id < queue'.taken /\ registered'[id] = id + 1
    BY <1>1 DEF PipesInv, RegisteredInv
  <2>2. ASSUME NEW id \in 0..queue'.taken - 1, id \notin DOMAIN registered'
        PROVE  /\ thread'[id + 1].pc = "ended"
               /\ \A i \in 1..Len(toClient') : toClient'[i].id # id
    <3>1. CASE id = Head(toClient).id
      BY <1>1, <1>2, <3>1
    <3>2. CASE id # Head(toClient).id
      <4>1. id \notin DOMAIN registered /\ id \in 0..queue.taken - 1
        BY <1>1, <2>2, <3>2
      <4> QED BY <1>1, <1>2, <4>1 DEF PipesInv, RegisteredInv
    <3> QED BY <3>1, <3>2
  <2> QED BY <2>1, <2>2 DEF RegisteredInv
<1>8. Wire(toClient, Base, nextId)'
  BY <1>1, <1>2, <1>3
<1> QED BY <1>4, <1>5, <1>6, <1>7, <1>8 DEF PipesInv

(* handler_request_pipe: the next pipe gets the next id. *)
LEMMA PipesHandleRequest ==
  ASSUME PipesInv, NumPipes <= MaxId, HandlerRequestPipe
  PROVE  PipesInv'
<1> DEFINE k == [type |-> "RPIR", id |-> nextId, data |-> <<>>]
           p == nextId + 1
<1>0. toAgent # <<>> /\ toAgent \in Seq(Pipe)
  BY DEF HandlerRequestPipe, PipesInv, PipesType
<1>1. /\ toAgent' \in Seq(Pipe) /\ Len(toAgent') = Len(toAgent) - 1 /\ Len(toAgent) >= 1
      /\ Head(toAgent) = toAgent[1] /\ Head(toAgent) \in Pipe
      /\ \A i \in 1..Len(toAgent') : toAgent'[i] = toAgent[i + 1]
  <2>1. toAgent' = Tail(toAgent)
    BY DEF HandlerRequestPipe
  <2> QED BY <1>0, <2>1, TailAt
<1>2. NumPipes \in Nat /\ nextId \in Nat /\ Len(toAgent) \in Nat /\ requests \in 0..NumPipes /\ Base \in Nat
  BY PipesFacts
<1>3. nextId < NumPipes
  <2>1. nextId + Len(toAgent) <= requests
    BY <1>2 DEF PipesInv, RequestInv, SentRequests
  <2> QED BY <1>1, <1>2, <2>1
<1>4. Head(toAgent) = p /\ p \in Pipe
  <2>1. 1 \in 1..Len(toAgent)
    BY <1>1, <1>2
  <2>2. toAgent[1] = nextId + 1
    BY <2>1 DEF PipesInv, RequestInv
  <2> QED BY <1>1, <2>2
<1>5. nextId' = p /\ nextId \in Ids
  <2>1. nextId' = (nextId + 1) % 65536 /\ nextId + 1 < 65536
    BY <1>2, <1>3 DEF HandlerRequestPipe, MaxId
  <2>2. nextId' = p
    BY <1>2, <2>1
  <2>3. nextId <= MaxId
    BY <1>2, <2>1 DEF MaxId
  <2> QED BY <1>2, <2>2, <2>3, IdsAre
<1>6. k \in Packet /\ Registers(k) /\ k.id = nextId
  BY <1>5, EmptySeq DEF Packet, Registers
<1>7. /\ toClient' = Append(toClient, k)
      /\ thread' = [thread EXCEPT ![p] = [pc |-> "opening", id |-> nextId]]
      /\ UNCHANGED <<main, requests, queue, counted, registered, reader, fifo>>
  <2>1. toClient' = Append(toClient, k)
    BY DEF HandlerRequestPipe, SendPacket
  <2>2. thread' = [thread EXCEPT ![p] = [pc |-> "opening", id |-> nextId]]
    <3>1. thread' = [thread EXCEPT ![Head(toAgent)] = [pc |-> "opening", id |-> nextId]]
      BY DEF HandlerRequestPipe
    <3>2. Head(toAgent) = p
      BY <1>4
    <3> HIDE DEF p
    <3> QED BY <3>1, <3>2
  <2>3. UNCHANGED <<main, requests, queue, counted, registered, reader, fifo>>
    BY DEF HandlerRequestPipe, mainVars, queueVars, clientVars
  <2> QED BY <2>1, <2>2, <2>3
<1> HIDE DEF k, p
<1>8. /\ toClient' \in Seq(Packet) /\ Len(toClient') = Len(toClient) + 1 /\ Len(toClient) \in Nat
      /\ toClient'[Len(toClient) + 1] = k
      /\ \A i \in 1..Len(toClient) : toClient'[i] = toClient[i]
  BY <1>6, <1>7, AppendAt DEF PipesInv, PipesType
<1>9. p = nextId + 1
  BY DEF p
<1>10. Base' = Base /\ SentRequests' = SentRequests
  BY <1>7 DEF Base, SentRequests
<1>11. PipesType'
  <2>1. [pc |-> "opening", id |-> nextId] \in [pc: {"none", "opening", "reading", "ended", "failed"}, id: Ids]
    BY <1>5
  <2>2. thread' \in [Pipe -> [pc: {"none", "opening", "reading", "ended", "failed"}, id: Ids]]
    BY <1>4, <1>7, <2>1 DEF PipesInv, PipesType
  <2>3. nextId' \in Nat /\ nextId' <= NumPipes
    BY <1>2, <1>3, <1>5, <1>9
  <2> QED BY <1>1, <1>7, <1>8, <2>2, <2>3 DEF PipesInv, PipesType
<1>12. QueueInv' /\ FifoInv'
  BY <1>7 DEF PipesInv, QueueInv, FifoInv
<1>13. RequestInv'
  <2>1. Base' <= nextId'
    <3>1. Base <= nextId
      BY PipesFacts
    <3> QED BY <1>2, <1>5, <1>9, <1>10, <3>1
  <2>2. nextId' + Len(toAgent') = SentRequests'
    <3>1. nextId + Len(toAgent) = SentRequests
      BY DEF PipesInv, RequestInv
    <3> QED BY <1>1, <1>2, <1>5, <1>9, <1>10, <3>1
  <2>3. ASSUME NEW i \in 1..Len(toAgent') PROVE toAgent'[i] = nextId' + i
    <3>1. i + 1 \in 1..Len(toAgent) /\ nextId + (i + 1) = nextId' + i
      BY <1>1, <1>2, <1>5, <1>9
    <3>2. toAgent[i + 1] = nextId + (i + 1)
      BY <3>1 DEF PipesInv, RequestInv
    <3> QED BY <1>1, <3>1, <3>2
  <2> QED BY <2>1, <2>2, <2>3 DEF RequestInv
<1>14. \A q \in Pipe : thread'[q] = IF q = p THEN [pc |-> "opening", id |-> nextId] ELSE thread[q]
  BY <1>7 DEF PipesInv, PipesType
<1>15. \A id \in Nat : id + 1 \in Pipe /\ thread[id + 1].pc = "ended" => thread'[id + 1].pc = "ended"
  <2>1. ~(p <= nextId)
    BY <1>2, <1>9
  <2>2. thread[p].pc = "none"
    BY <1>4, <2>1 DEF PipesInv, ThreadInv, PipeIds
  <2> QED BY <1>14, <2>2
<1>16. ThreadInv'
  <2>1. ASSUME NEW q \in Pipe
        PROVE  IF q <= nextId' THEN thread'[q].pc # "none" /\ thread'[q].id = q - 1
                                ELSE thread'[q].pc = "none"
    <3>0. q \in Nat
      BY DEF Pipe
    <3>1. IF q <= nextId THEN thread[q].pc # "none" /\ thread[q].id = q - 1
                         ELSE thread[q].pc = "none"
      BY DEF PipesInv, ThreadInv, PipeIds
    <3>2. CASE q = p
      <4>1. thread'[q].pc = "opening" /\ thread'[q].id = nextId
        BY <1>14, <3>2
      <4> QED BY <1>2, <1>5, <1>9, <3>2, <4>1
    <3>3. CASE q # p
      <4>1. thread'[q] = thread[q]
        BY <1>14, <3>3
      <4>2. q <= nextId <=> q <= nextId'
        BY <1>2, <1>5, <1>9, <3>0, <3>3
      <4> QED BY <3>1, <4>1, <4>2
    <3> QED BY <3>2, <3>3
  <2>2. ASSUME NEW i \in 1..Len(toClient'), toClient'[i].type = "RPIC"
        PROVE  thread'[toClient'[i].id + 1].pc = "ended"
    <3>1. i # Len(toClient) + 1
      BY <1>6, <1>8, <2>2 DEF Registers
    <3>2. i \in 1..Len(toClient) /\ toClient'[i] = toClient[i]
      BY <1>8, <3>1
    <3>3. toClient[i].id \in Nat /\ toClient[i].id + 1 \in Pipe
      BY <3>2, PipesFacts
    <3>4. thread[toClient[i].id + 1].pc = "ended"
      BY <2>2, <3>2 DEF PipesInv, ThreadInv, PipeIds, EndsInv
    <3> QED BY <1>15, <3>2, <3>3, <3>4
  <2> QED BY <2>1, <2>2 DEF ThreadInv, PipeIds, EndsInv
<1>17. RegisteredInv'
  <2>1. \A id \in DOMAIN registered' : id \in Nat /\ id < queue'.taken /\ registered'[id] = id + 1
    BY <1>7 DEF PipesInv, RegisteredInv
  <2>2. ASSUME NEW id \in 0..queue'.taken - 1, id \notin DOMAIN registered'
        PROVE  /\ thread'[id + 1].pc = "ended"
               /\ \A i \in 1..Len(toClient') : toClient'[i].id # id
    <3>1. id \in 0..queue.taken - 1 /\ id \notin DOMAIN registered
      BY <1>7, <2>2
    <3>2. thread[id + 1].pc = "ended" /\ \A i \in 1..Len(toClient) : toClient[i].id # id
      BY <3>1 DEF PipesInv, RegisteredInv
    <3>3. id \in Nat /\ id < nextId /\ id + 1 \in Pipe
      <4>1. queue.taken \in Nat /\ queue.taken <= nextId
        BY PipesFacts DEF Base
      <4> QED BY <1>2, <1>3, <3>1, <4>1 DEF Pipe
    <3>4. k.id # id
      BY <1>2, <1>6, <3>3
    <3>5. ASSUME NEW i \in 1..Len(toClient') PROVE toClient'[i].id # id
      <4>1. i \in 1..Len(toClient) \/ i = Len(toClient) + 1
        BY <1>8
      <4> QED BY <1>8, <3>2, <3>4, <4>1
    <3> QED BY <1>15, <3>2, <3>3, <3>5
  <2> QED BY <2>1, <2>2 DEF RegisteredInv
<1>18. Wire(toClient, Base, nextId)'
  <2>1. Wire(Append(toClient, k), Base, nextId + 1)
    <3>1. toClient \in Seq(Packet) /\ Wire(toClient, Base, nextId) /\ Base <= nextId
      BY DEF PipesInv, PipesType, RequestInv
    <3> QED BY <1>2, <1>6, <3>1, WireRegister
  <2> QED BY <1>5, <1>7, <1>9, <1>10, <2>1
<1> QED BY <1>11, <1>12, <1>13, <1>16, <1>17, <1>18 DEF PipesInv

(* A thread goes on; it was not and is not at its end. *)
LEMMA PipesOpen ==
  ASSUME PipesInv, NEW p \in Pipe, OpenPipe(p) \/ OpenFails(p)
  PROVE  PipesInv'
<1>1. PICK pc \in {"reading", "failed"} :
        thread[p].pc = "opening" /\ thread' = [thread EXCEPT ![p].pc = pc]
  BY DEF OpenPipe, OpenFails
<1>2. UNCHANGED <<main, requests, queue, counted, registered, reader, toAgent, toClient, nextId, fifo>>
  BY DEF OpenPipe, OpenFails, mainVars, queueVars, clientVars
<1>3. /\ thread' \in [Pipe -> [pc: {"none", "opening", "reading", "ended", "failed"}, id: Ids]]
      /\ \A q \in Pipe : /\ thread'[q].id = thread[q].id
                          /\ thread'[q].pc = IF q = p THEN pc ELSE thread[q].pc
  BY <1>1 DEF PipesInv, PipesType
<1>4. Base' = Base /\ SentRequests' = SentRequests
  BY <1>2 DEF Base, SentRequests
<1>5. PipesType'
  BY <1>2, <1>3 DEF PipesInv, PipesType
<1>6. QueueInv' /\ RequestInv' /\ FifoInv'
  BY <1>2, <1>4 DEF PipesInv, QueueInv, RequestInv, FifoInv
<1>7. ThreadInv'
  <2>1. ASSUME NEW q \in Pipe
        PROVE  IF q <= nextId' THEN thread'[q].pc # "none" /\ thread'[q].id = q - 1
                                ELSE thread'[q].pc = "none"
    BY <1>1, <1>2, <1>3 DEF PipesInv, ThreadInv, PipeIds, EndsInv
  <2>2. ASSUME NEW i \in 1..Len(toClient), toClient[i].type = "RPIC"
        PROVE  thread'[toClient[i].id + 1].pc = "ended"
    <3>1. toClient[i].id + 1 \in Pipe
      BY PipesFacts
    <3>2. thread[toClient[i].id + 1].pc = "ended"
      BY <2>2 DEF PipesInv, ThreadInv, PipeIds, EndsInv
    <3> QED BY <1>1, <1>3, <3>1, <3>2
  <2> QED BY <1>2, <2>1, <2>2 DEF ThreadInv, PipeIds, EndsInv
<1>8. RegisteredInv'
  <2>1. ASSUME NEW id \in 0..queue.taken - 1 PROVE id + 1 \in Pipe
    <3>1. queue.taken \in Nat /\ queue.taken <= nextId /\ nextId <= NumPipes /\ NumPipes \in Nat /\ nextId \in Nat
      BY PipesFacts DEF Base
    <3> QED BY <3>1 DEF Pipe
  <2> QED BY <1>1, <1>2, <1>3, <2>1 DEF PipesInv, RegisteredInv
<1>9. Wire(toClient, Base, nextId)'
  BY <1>2, <1>4 DEF PipesInv
<1> QED BY <1>5, <1>6, <1>7, <1>8, <1>9 DEF PipesInv

(* A thread that has not ended sends a packet under the id of its pipe. *)
LEMMA PipesThreadSends ==
  ASSUME PipesInv, NEW p \in Pipe, NEW k \in Packet, NEW pc \in {"reading", "ended"},
         thread[p].pc = "reading", ~Registers(k), k.id = thread[p].id, OwnData(k),
         k.type = "RPIC" => pc = "ended",
         toClient' = Append(toClient, k), thread' = [thread EXCEPT ![p].pc = pc],
         fifo' \in [Pipe -> Seq(Chunk)], FifoInv',
         UNCHANGED <<main, requests, queue, counted, registered, reader, toAgent, nextId>>
  PROVE  PipesInv'
<1>1. /\ toClient' \in Seq(Packet) /\ Len(toClient') = Len(toClient) + 1 /\ Len(toClient) \in Nat
      /\ toClient'[Len(toClient) + 1] = k
      /\ \A i \in 1..Len(toClient) : toClient'[i] = toClient[i]
  BY AppendAt DEF PipesInv, PipesType
<1>2. /\ thread' \in [Pipe -> [pc: {"none", "opening", "reading", "ended", "failed"}, id: Ids]]
      /\ \A q \in Pipe : /\ thread'[q].id = thread[q].id
                          /\ thread'[q].pc = IF q = p THEN pc ELSE thread[q].pc
  BY DEF PipesInv, PipesType
<1>3. /\ NumPipes \in Nat /\ nextId \in Nat /\ nextId <= NumPipes /\ p \in Nat
      /\ Base \in Nat /\ queue.taken \in Nat /\ queue.taken <= nextId
  BY PipesFacts DEF Base, Pipe
<1>4. p <= nextId /\ k.id = p - 1
  <2>1. p <= nextId
    BY DEF PipesInv, ThreadInv, PipeIds
  <2>2. thread[p].id = p - 1
    BY <2>1 DEF PipesInv, ThreadInv, PipeIds
  <2> QED BY <2>1, <2>2
<1>5. k.id \in Nat /\ k.id < nextId /\ k.id + 1 = p
  BY <1>3, <1>4, PacketIds
<1>6. \A i \in 1..Len(toClient) : i \in 1..Len(toClient') /\ toClient'[i] = toClient[i]
  BY <1>1
<1>7. \A i \in 1..Len(toClient') : i \in 1..Len(toClient) \/ (i = Len(toClient) + 1 /\ toClient'[i] = k)
  BY <1>1
<1>8. Base' = Base /\ SentRequests' = SentRequests
  BY DEF Base, SentRequests
<1>9. PipesType'
  BY <1>1, <1>2 DEF PipesInv, PipesType
<1>10. QueueInv' /\ RequestInv'
  BY <1>8 DEF PipesInv, QueueInv, RequestInv
<1>11. ThreadInv'
  <2>1. PipeIds'
    <3> SUFFICES ASSUME NEW q \in Pipe
                 PROVE  IF q <= nextId THEN thread'[q].pc # "none" /\ thread'[q].id = q - 1
                                       ELSE thread'[q].pc = "none"
      BY DEF PipeIds
    <3>1. IF q <= nextId THEN thread[q].pc # "none" /\ thread[q].id = q - 1
                         ELSE thread[q].pc = "none"
      BY DEF PipesInv, ThreadInv, PipeIds
    <3> QED BY <1>2, <3>1
  <2>2. EndsInv'
    <3> SUFFICES ASSUME NEW i \in 1..Len(toClient'), toClient'[i].type = "RPIC"
                 PROVE  thread'[toClient'[i].id + 1].pc = "ended"
      BY DEF EndsInv
    <3>1. CASE i = Len(toClient) + 1
      BY <1>1, <1>2, <1>5, <3>1
    <3>2. CASE i \in 1..Len(toClient)
      <4>1. toClient[i].id + 1 \in Pipe /\ toClient'[i] = toClient[i]
        BY <1>1, <3>2, PipesFacts
      <4>2. thread[toClient[i].id + 1].pc = "ended"
        BY <3>2, <4>1 DEF PipesInv, ThreadInv, EndsInv
      <4> QED BY <1>2, <4>1, <4>2
    <3> QED BY <1>7, <3>1, <3>2
  <2> QED BY <2>1, <2>2 DEF ThreadInv
<1>12. RegisteredInv'
  <2>1. \A id \in DOMAIN registered' : id \in Nat /\ id < queue'.taken /\ registered'[id] = id + 1
    BY DEF PipesInv, RegisteredInv
  <2>2. ASSUME NEW id \in 0..queue'.taken - 1, id \notin DOMAIN registered'
        PROVE  /\ thread'[id + 1].pc = "ended"
               /\ \A i \in 1..Len(toClient') : toClient'[i].id # id
    <3>1. thread[id + 1].pc = "ended" /\ \A i \in 1..Len(toClient) : toClient[i].id # id
      BY <2>2 DEF PipesInv, RegisteredInv
    <3>2. id \in Nat /\ id + 1 \in Pipe /\ id + 1 # p
      BY <1>3, <3>1 DEF Pipe
    <3>3. k.id # id
      BY <1>5, <3>2
    <3> QED BY <1>2, <1>6, <1>7, <3>1, <3>2, <3>3
  <2> QED BY <2>1, <2>2 DEF RegisteredInv
<1>13. Wire(toClient, Base, nextId)'
  <2>1. toClient \in Seq(Packet) /\ Wire(toClient, Base, nextId)
    BY DEF PipesInv, PipesType
  <2>2. ASSUME NEW i \in 1..Len(toClient), toClient[i].type = "RPIC" PROVE toClient[i].id # k.id
    <3>1. thread[toClient[i].id + 1].pc = "ended"
      BY <2>2 DEF PipesInv, ThreadInv, EndsInv
    <3> QED BY <1>5, <3>1
  <2>3. Wire(Append(toClient, k), Base, nextId)
    BY <1>3, <1>5, <2>1, <2>2, WireSend
  <2> QED BY <1>8, <2>3
<1> QED BY <1>9, <1>10, <1>11, <1>12, <1>13 DEF PipesInv, PipesType

(* A thread sends what it read from its own pipe. *)
LEMMA PipesRead ==
  ASSUME PipesInv, NEW p \in Pipe, ReadPipe(p)
  PROVE  PipesInv'
<1>1. /\ thread[p].pc = "reading" /\ fifo[p] # <<>> /\ fifo[p] \in Seq(Chunk)
      /\ fifo' = [fifo EXCEPT ![p] = Tail(fifo[p])] /\ thread' = thread
      /\ UNCHANGED <<main, requests, queue, counted, registered, reader, toAgent, nextId>>
  BY DEF ReadPipe, mainVars, queueVars, clientVars, agentVars, PipesInv, PipesType
<1>2. PICK c \in Chunk : c = Head(fifo[p]) /\ c.pipe = p
  <2>1. Head(fifo[p]) \in Chunk /\ Head(fifo[p]) = fifo[p][1] /\ 1 \in 1..Len(fifo[p])
    <3>1. Head(fifo[p]) \in Chunk /\ Head(fifo[p]) = fifo[p][1] /\ Len(fifo[p]) \in Nat /\ Len(fifo[p]) >= 1
      BY <1>1, TailAt
    <3> QED BY <3>1
  <2>2. fifo[p][1].pipe = p
    BY <2>1 DEF PipesInv, FifoInv
  <2> QED BY <2>1, <2>2
<1>3. PICK k : k = [type |-> "RPIP", id |-> thread[p].id, data |-> <<c>>]
  OBVIOUS
<1>4. toClient' = Append(toClient, k)
  BY <1>2, <1>3 DEF ReadPipe, SendPacket
<1>5. thread[p].id \in Ids /\ thread[p].id = p - 1 /\ p \in Nat
  <2>1. p \in Nat /\ nextId \in Nat
    BY PipesFacts DEF Pipe
  <2>2. p <= nextId
    BY <1>1 DEF PipesInv, ThreadInv, PipeIds
  <2>3. thread[p].id = p - 1
    BY <2>2 DEF PipesInv, ThreadInv, PipeIds
  <2> QED BY <2>1, <2>3 DEF PipesInv, PipesType
<1>6. k \in Packet /\ ~Registers(k) /\ k.id = thread[p].id /\ k.type # "RPIC"
  <2>1. <<c>> \in Seq(Chunk)
    OBVIOUS
  <2> QED BY <1>3, <1>5, <2>1 DEF Packet, Registers
<1>7. OwnData(k)
  <2>1. k.data[1] = c /\ k.id + 1 = p
    BY <1>3, <1>5
  <2> QED BY <1>2, <2>1 DEF OwnData
<1>8. Tail(fifo[p]) \in Seq(Chunk) /\ \A i \in 1..Len(Tail(fifo[p])) : Tail(fifo[p])[i].pipe = p
  <2>1. /\ Tail(fifo[p]) \in Seq(Chunk) /\ Len(fifo[p]) \in Nat /\ Len(Tail(fifo[p])) = Len(fifo[p]) - 1
        /\ \A i \in 1..Len(fifo[p]) - 1 : Tail(fifo[p])[i] = fifo[p][i + 1]
    BY <1>1, TailAt
  <2>2. ASSUME NEW i \in 1..Len(Tail(fifo[p])) PROVE Tail(fifo[p])[i].pipe = p
    <3>1. i \in 1..Len(fifo[p]) - 1 /\ i + 1 \in 1..Len(fifo[p])
      BY <2>1
    <3>2. fifo[p][i + 1].pipe = p
      BY <3>1 DEF PipesInv, FifoInv
    <3> QED BY <2>1, <3>1, <3>2
  <2> QED BY <2>1, <2>2
<1>9. fifo' \in [Pipe -> Seq(Chunk)] /\ FifoInv'
  <2>1. fifo \in [Pipe -> Seq(Chunk)]
    BY DEF PipesInv, PipesType
  <2>2. fifo' \in [Pipe -> Seq(Chunk)] /\ fifo'[p] = Tail(fifo[p]) /\ \A q \in Pipe : q # p => fifo'[q] = fifo[q]
    BY <1>1, <1>8, <2>1
  <2>3. FifoInv'
    BY <1>8, <2>2 DEF PipesInv, FifoInv
  <2> QED BY <2>2, <2>3
<1>10. thread' = [thread EXCEPT ![p].pc = "reading"]
  BY <1>1 DEF PipesInv, PipesType
<1> QED BY <1>1, <1>4, <1>6, <1>7, <1>9, <1>10, PipesThreadSends

(* A thread sends RPIC as its last packet. *)
LEMMA PipesEnd ==
  ASSUME PipesInv, NEW p \in Pipe, EndOfPipe(p)
  PROVE  PipesInv'
<1>1. /\ thread[p].pc = "reading" /\ fifo' = fifo /\ thread' = [thread EXCEPT ![p].pc = "ended"]
      /\ UNCHANGED <<main, requests, queue, counted, registered, reader, toAgent, nextId>>
  BY DEF EndOfPipe, mainVars, queueVars, clientVars
<1>2. PICK k : k = [type |-> "RPIC", id |-> thread[p].id, data |-> <<>>]
  OBVIOUS
<1>3. toClient' = Append(toClient, k)
  BY <1>2 DEF EndOfPipe, SendPacket
<1>4. k \in Packet /\ ~Registers(k) /\ k.id = thread[p].id /\ OwnData(k)
  <2>1. thread[p].id \in Ids
    BY DEF PipesInv, PipesType
  <2> QED BY <1>2, <2>1, EmptySeq DEF Packet, Registers, OwnData
<1>5. fifo' \in [Pipe -> Seq(Chunk)] /\ FifoInv'
  BY <1>1 DEF PipesInv, PipesType, FifoInv
<1> QED BY <1>1, <1>3, <1>4, <1>5, PipesThreadSends

(* The target writes to a pipe of its own choice. *)
LEMMA PipesWritten ==
  ASSUME PipesInv, NEW p \in Pipe, TargetWrites(p), written \in [Pipe -> Nat]
  PROVE  PipesInv'
<1>1. PICK c \in Chunk : c.pipe = p /\ fifo' = [fifo EXCEPT ![p] = Append(fifo[p], c)]
  <2>1. [pipe |-> p, nr |-> written[p] + 1] \in Chunk
    BY DEF Chunk
  <2> QED BY <2>1 DEF TargetWrites
<1>2. UNCHANGED <<main, requests, queue, counted, registered, reader, toAgent, toClient, nextId, thread>>
  BY DEF TargetWrites, mainVars, queueVars, clientVars, agentVars
<1>3. fifo \in [Pipe -> Seq(Chunk)] /\ fifo[p] \in Seq(Chunk)
  BY DEF PipesInv, PipesType
<1>4. /\ Append(fifo[p], c) \in Seq(Chunk) /\ Len(Append(fifo[p], c)) = Len(fifo[p]) + 1
      /\ Len(fifo[p]) \in Nat /\ Append(fifo[p], c)[Len(fifo[p]) + 1] = c
      /\ \A i \in 1..Len(fifo[p]) : Append(fifo[p], c)[i] = fifo[p][i]
  BY <1>3, AppendAt
<1>5. \A i \in 1..Len(Append(fifo[p], c)) : Append(fifo[p], c)[i].pipe = p
  <2> SUFFICES ASSUME NEW i \in 1..Len(Append(fifo[p], c)) PROVE Append(fifo[p], c)[i].pipe = p
    OBVIOUS
  <2>1. i \in 1..Len(fifo[p]) \/ i = Len(fifo[p]) + 1
    BY <1>4
  <2>2. CASE i \in 1..Len(fifo[p])
    BY <1>4, <2>2 DEF PipesInv, FifoInv
  <2>3. CASE i = Len(fifo[p]) + 1
    BY <1>1, <1>4, <2>3
  <2> QED BY <2>1, <2>2, <2>3
<1>6. /\ fifo' \in [Pipe -> Seq(Chunk)] /\ fifo'[p] = Append(fifo[p], c)
      /\ \A q \in Pipe : q # p => fifo'[q] = fifo[q]
  BY <1>1, <1>3, <1>4
<1>7. FifoInv'
  BY <1>5, <1>6 DEF PipesInv, FifoInv
<1>8. Base' = Base /\ SentRequests' = SentRequests
  BY <1>2 DEF Base, SentRequests
<1>9. PipesType'
  BY <1>2, <1>6 DEF PipesInv, PipesType
<1>10. QueueInv' /\ RequestInv' /\ ThreadInv' /\ RegisteredInv'
  BY <1>2, <1>8 DEF PipesInv, QueueInv, RequestInv, ThreadInv, PipeIds, EndsInv, RegisteredInv
<1>11. Wire(toClient, Base, nextId)'
  BY <1>2, <1>8 DEF PipesInv
<1> QED BY <1>7, <1>9, <1>10, <1>11 DEF PipesInv

(* Every step keeps names, ids and threads in agreement. *)
LEMMA PipesNext ==
  ASSUME PipesInv, written \in [Pipe -> Nat], NumPipes <= MaxId, ~MayOverlap, [Next]_vars
  PROVE  PipesInv'
<1> USE DEF mainVars, queueVars, clientVars, agentVars
<1>1. CASE RequestPipe \/ CountRequest \/ SendRequest
  BY <1>1, PipesRequest, PipesCount, PipesSend
<1>2. CASE StartingFuzzRun \/ FinishedFuzzRun \/ ForgetSink
  <2>1. /\ UNCHANGED <<requests, queue, counted, registered, reader, toAgent, toClient, nextId, thread, fifo>>
        /\ main \in {"idle", "running", "closed"} /\ main' \in {"idle", "running", "closed"}
    BY <1>2 DEF StartingFuzzRun, OpenFile, FinishedFuzzRun, ForgetSink, At
  <2>2. reader' \in [pc: {"idle", "dequeue", "write", "dead"}, packet: Packet]
    BY <2>1 DEF PipesInv, PipesType
  <2> QED BY <2>1, <2>2, PipesQuiet
<1>3. CASE HandlerRegisteredPipe \/ DequeueRequest \/ HandlerPipeData \/ HandlerPipeClosed
  BY <1>3, PipesRegistered, PipesDequeue, PipesData, PipesClosed
<1>4. CASE WriteSink
  <2>1. /\ UNCHANGED <<main, requests, queue, counted, registered, toAgent, toClient, nextId, thread, fifo>>
        /\ reader.pc = "write" /\ (reader' = Idle \/ reader' = [reader EXCEPT !.pc = "dead"])
    BY <1>4 DEF WriteSink
  <2>2. /\ reader' \in [pc: {"idle", "dequeue", "write", "dead"}, packet: Packet]
        /\ reader'.pc # "dequeue"
    <3>1. NoPacket \in Packet
      BY IdsAre DEF NoPacket, Packet
    <3>2. CASE reader' = Idle
      BY <3>1, <3>2 DEF Idle
    <3>3. CASE reader' = [reader EXCEPT !.pc = "dead"]
      BY <3>3 DEF PipesInv, PipesType
    <3> QED BY <2>1, <3>2, <3>3
  <2>3. main \in {"request", "count", "send", "idle", "running", "closed"}
    BY DEF PipesInv, PipesType
  <2> QED BY <2>1, <2>2, <2>3, PipesQuiet
<1>5. CASE HandlerRequestPipe
  BY <1>5, PipesHandleRequest
<1>6. ASSUME NEW p \in Pipe, PipeThread(p) \/ TargetWrites(p) PROVE PipesInv'
  BY <1>6, PipesOpen, PipesRead, PipesEnd, PipesWritten DEF PipeThread
<1>7. CASE (\E p \in Pipe : TargetCloses(p)) \/ UNCHANGED vars
  <2>1. UNCHANGED <<main, requests, queue, counted, registered, reader, toAgent, toClient, nextId, thread, fifo>>
    BY <1>7 DEF TargetCloses, vars
  <2>2. /\ reader' \in [pc: {"idle", "dequeue", "write", "dead"}, packet: Packet]
        /\ main' \in {"request", "count", "send", "idle", "running", "closed"}
    BY <2>1 DEF PipesInv, PipesType
  <2> QED BY <2>1, <2>2, PipesQuiet
<1> QED BY <1>1, <1>2, <1>3, <1>4, <1>5, <1>6, <1>7 DEF Next, Main, Reader

-----------------------------------------------------------------------------
(* The files of the runs.                                                  *)

Event == [name: Pipe \union {NotAvailable}, chunk: Chunk, sink: Run \union {NoSink}]

LogType ==
  /\ run \in 0..MaxRuns /\ sink \in Run \union {NoSink} /\ sinkOpen \in BOOLEAN
  /\ files \in [Run -> Seq(Chunk)] /\ events \in Seq(Event)
  /\ written \in [Pipe -> Nat] /\ eof \in [Pipe -> BOOLEAN]

(* Only the file of the current run is written: those of later runs are    *)
(* empty, and opening one loses nothing.                                   *)
LogInv ==
  /\ LogType
  /\ sink \in {NoSink, run}
  /\ \A r \in Run : r > run => files[r] = <<>>
  /\ reader.pc = "write" => reader.packet.data[1] \in Chunk
  /\ DataAttributed /\ LoggedUnlessDead

(* What is logged is in the file of some run. *)
LEMMA InLogged ==
  ASSUME files \in [Run -> Seq(Chunk)], NEW c
  PROVE  c \in Logged <=> \E r \in Run : \E i \in 1..Len(files[r]) : files[r][i] = c
<1>1. \A r \in Run : DOMAIN files[r] = 1..Len(files[r])
  BY LenProperties
<1> QED BY <1>1 DEF Logged

(* Nothing is logged at the start. *)
LEMMA LogInit == Init => LogInv
<1> SUFFICES ASSUME Init PROVE LogInv
  OBVIOUS
<1>1. LogType
  <2>0. run = 0 /\ sink = NoSink /\ sinkOpen = FALSE /\ MaxRuns \in Nat
    BY PipesAssumption DEF Init
  <2>1. run \in 0..MaxRuns
    BY <2>0
  <2>5. sink \in Run \union {NoSink} /\ sinkOpen \in BOOLEAN
    BY <2>0, Zenon
  <2>2. <<>> \in Seq(Chunk) /\ <<>> \in Seq(Event)
    BY EmptySeq
  <2>3. files \in [Run -> Seq(Chunk)] /\ events \in Seq(Event)
    BY <2>2, Zenon DEF Init
  <2>4. written \in [Pipe -> Nat] /\ eof \in [Pipe -> BOOLEAN]
    BY DEF Init
  <2> QED BY <2>1, <2>3, <2>4, <2>5 DEF LogType
<1>2. DOMAIN events = {}
  BY DEF Init
<1>3. DataAttributed /\ LoggedUnlessDead
  BY <1>2 DEF DataAttributed, LoggedUnlessDead
<1>4. sink \in {NoSink, run} /\ reader.pc # "write" /\ \A r \in Run : files[r] = <<>>
  BY DEF Init, Idle
<1> QED BY <1>1, <1>3, <1>4 DEF LogInv

(* Steps that log nothing. *)
LEMMA LogQuiet ==
  ASSUME LogInv, UNCHANGED <<run, sink, sinkOpen, files, events>>,
         written' \in [Pipe -> Nat], eof' \in [Pipe -> BOOLEAN],
         reader' = reader \/ (reader.pc \in {"idle", "dequeue"} /\ reader'.pc # "write")
  PROVE  LogInv'
<1>1. Logged' = Logged
  BY DEF Logged
<1>2. DataAttributed' /\ LogType'
  BY DEF LogInv, LogType, DataAttributed
<1>3. LoggedUnlessDead'
  <2>1. CASE reader' = reader
    BY <1>1, <2>1 DEF LogInv, LoggedUnlessDead
  <2>2. CASE reader.pc \in {"idle", "dequeue"}
    <3>1. \A i \in DOMAIN events : events[i].sink = NoSink \/ events[i].chunk \in Logged
      BY <2>2 DEF LogInv, LoggedUnlessDead
    <3> QED BY <1>1, <3>1 DEF LoggedUnlessDead
  <2> QED BY <2>1, <2>2
<1> QED BY <1>2, <1>3 DEF LogInv

(* _sink changes, and with it the file that is open. *)
LEMMA LogRuns ==
  ASSUME LogInv, StartingFuzzRun \/ FinishedFuzzRun \/ ForgetSink
  PROVE  LogInv'
<1>1. UNCHANGED <<reader, events, written, eof>>
  BY DEF StartingFuzzRun, OpenFile, FinishedFuzzRun, ForgetSink, clientVars, targetVars
<1>2. MaxRuns \in Nat /\ run \in 0..MaxRuns /\ files \in [Run -> Seq(Chunk)]
  BY PipesAssumption DEF LogInv, LogType
<1>3. /\ run' \in 0..MaxRuns /\ sink' \in Run \union {NoSink} /\ sink' \in {NoSink, run'}
      /\ sinkOpen' \in BOOLEAN /\ files' = files
      /\ \A r \in Run : r > run' => files[r] = <<>>
  <2>1. CASE StartingFuzzRun
    <3>1. /\ run < MaxRuns /\ run' = run + 1 /\ sink' = run + 1 /\ sinkOpen' = TRUE
          /\ files' = [files EXCEPT ![run + 1] = <<>>]
      BY <2>1 DEF StartingFuzzRun, OpenFile
    <3>2. run + 1 \in Run
      BY <1>2, <3>1 DEF Run
    <3>3. files[run + 1] = <<>>
      <4>1. run + 1 > run
        BY <1>2
      <4> QED BY <3>2, <4>1 DEF LogInv
    <3>4. files' = files
      BY <1>2, <3>1, <3>2, <3>3
    <3>5. \A r \in Run : r > run' => files[r] = <<>>
      <4>1. \A r \in Run : r > run + 1 => r > run
        BY <1>2 DEF Run
      <4> QED BY <3>1, <4>1 DEF LogInv
    <3>6. run' \in 0..MaxRuns
      BY <1>2, <3>1
    <3> QED BY <3>1, <3>2, <3>4, <3>5, <3>6
  <2>2. CASE FinishedFuzzRun \/ ForgetSink
    BY <2>2 DEF FinishedFuzzRun, ForgetSink, clientVars, LogInv, LogType
  <2> QED BY <2>1, <2>2
<1>4. Logged' = Logged
  BY <1>3 DEF Logged
<1>5. DataAttributed' /\ LoggedUnlessDead'
  BY <1>1, <1>4 DEF LogInv, DataAttributed, LoggedUnlessDead
<1>6. LogType'
  BY <1>1, <1>3 DEF LogInv, LogType
<1> QED BY <1>1, <1>3, <1>5, <1>6 DEF LogInv

(* PipeData: the pipe is registered under the name the data belongs to. *)
LEMMA LogData ==
  ASSUME PipesInv, LogInv, HandlerPipeData
  PROVE  LogInv'
<1>1. /\ reader.pc = "idle" /\ toClient # <<>> /\ Head(toClient).type = "RPIP"
      /\ UNCHANGED <<run, sink, sinkOpen, files, written, eof>>
  BY DEF HandlerPipeData, Receive, mainVars, sinkVars, targetVars
<1>2. PICK k \in Packet : /\ k = Head(toClient) /\ OwnData(k) /\ k.type = "RPIP"
                          /\ k.id \in DOMAIN registered /\ registered[k.id] = k.id + 1
  <2>1. ~Registers(Head(toClient))
    BY <1>1 DEF Registers
  <2> QED BY <1>1, <2>1, PipesTake
<1>3. PICK c \in Chunk : c = k.data[1] /\ c.pipe = k.id + 1
  BY <1>2 DEF OwnData
<1>4. GetPipeName(k.id) = c.pipe /\ c.pipe \in Pipe /\ c.pipe # NotAvailable
  <2>1. c.pipe \in Pipe
    BY DEF Chunk
  <2>2. GetPipeName(k.id) = c.pipe
    BY <1>2, <1>3 DEF GetPipeName
  <2> QED BY <2>1, <2>2 DEF Pipe, NotAvailable
<1>5. PICK e : e = [name |-> c.pipe, chunk |-> c, sink |-> sink]
  OBVIOUS
<1>6. /\ events' = Append(events, e)
      /\ reader' = IF sink # NoSink THEN [pc |-> "write", packet |-> k] ELSE reader
  BY <1>2, <1>3, <1>4, <1>5 DEF HandlerPipeData
<1>7. e \in Event /\ e.name = c.pipe /\ e.chunk = c /\ e.sink = sink
  BY <1>4, <1>5 DEF Event, LogInv, LogType
<1>8. /\ events' \in Seq(Event) /\ Len(events) \in Nat /\ events'[Len(events) + 1] = e
      /\ DOMAIN events = 1..Len(events) /\ DOMAIN events' = 1..Len(events) + 1
      /\ \A i \in 1..Len(events) : events'[i] = events[i]
  <2>1. events \in Seq(Event)
    BY DEF LogInv, LogType
  <2>2. /\ Append(events, e) \in Seq(Event) /\ Len(events) \in Nat /\ Len(Append(events, e)) = Len(events) + 1
        /\ \A i \in 1..Len(events) : Append(events, e)[i] = events[i]
        /\ Append(events, e)[Len(events) + 1] = e
    BY <1>7, <2>1, AppendAt
  <2>3. DOMAIN events = 1..Len(events) /\ DOMAIN Append(events, e) = 1..Len(Append(events, e))
    BY <2>1, <2>2, LenProperties
  <2> QED BY <1>6, <2>2, <2>3
<1>9. \A i \in DOMAIN events' : (i \in DOMAIN events /\ events'[i] = events[i]) \/ events'[i] = e
  BY <1>8
<1>10. DataAttributed'
  BY <1>7, <1>9 DEF LogInv, DataAttributed
<1>11. Logged' = Logged
  BY <1>1 DEF Logged
<1>12. LoggedUnlessDead'
  <2> SUFFICES ASSUME NEW i \in DOMAIN events'
               PROVE  \/ events'[i].sink = NoSink
                      \/ events'[i].chunk \in Logged
                      \/ reader'.pc \in {"write", "dead"} /\ reader'.packet.data[1] = events'[i].chunk
    BY <1>11 DEF LoggedUnlessDead
  <2>1. CASE i \in DOMAIN events /\ events'[i] = events[i]
    BY <1>1, <2>1 DEF LogInv, LoggedUnlessDead
  <2>2. CASE events'[i] = e /\ sink # NoSink
    <3>1. reader' = [pc |-> "write", packet |-> k]
      BY <1>6, <2>2
    <3> QED BY <1>3, <1>7, <2>2, <3>1
  <2>3. CASE events'[i] = e /\ sink = NoSink
    BY <1>7, <2>3
  <2> QED BY <1>9, <2>1, <2>2, <2>3
<1>13. reader'.pc = "write" => reader'.packet.data[1] \in Chunk
  BY <1>1, <1>3, <1>6
<1>14. LogType'
  BY <1>1, <1>8 DEF LogInv, LogType
<1> QED BY <1>1, <1>10, <1>12, <1>13, <1>14 DEF LogInv

(* The message is written to the file of the run, or the process ends. *)
LEMMA LogWrite ==
  ASSUME PipesInv, LogInv, WriteSink
  PROVE  LogInv'
<1>1. /\ reader.pc = "write"
      /\ UNCHANGED <<run, sink, sinkOpen, events, written, eof>>
  BY DEF WriteSink, mainVars, sinkVars, targetVars
<1>2. PICK c \in Chunk : c = reader.packet.data[1]
  BY <1>1 DEF LogInv
<1>3. \A i \in DOMAIN events :
        events[i].sink = NoSink \/ events[i].chunk \in Logged \/ events[i].chunk = c
  BY <1>2 DEF LogInv, LoggedUnlessDead
<1>4. DataAttributed'
  BY <1>1 DEF LogInv, DataAttributed
<1>5. CASE sink # NoSink /\ sinkOpen
  <2>1. files' = [files EXCEPT ![sink] = Append(files[sink], c)] /\ reader' = Idle
    BY <1>2, <1>5 DEF WriteSink
  <2>2. sink \in Run /\ sink = run /\ files \in [Run -> Seq(Chunk)] /\ files[sink] \in Seq(Chunk)
    BY <1>5 DEF LogInv, LogType
  <2>3. /\ Append(files[sink], c) \in Seq(Chunk) /\ Len(files[sink]) \in Nat
        /\ Len(Append(files[sink], c)) = Len(files[sink]) + 1
        /\ \A i \in 1..Len(files[sink]) : Append(files[sink], c)[i] = files[sink][i]
        /\ Append(files[sink], c)[Len(files[sink]) + 1] = c
    BY <2>2, AppendAt
  <2>4. /\ files' \in [Run -> Seq(Chunk)] /\ files'[sink] = Append(files[sink], c)
        /\ \A r \in Run : r # sink => files'[r] = files[r]
    BY <2>1, <2>2, <2>3
  <2>5. c \in Logged'
    <3>1. Len(files[sink]) + 1 \in 1..Len(files'[sink]) /\ files'[sink][Len(files[sink]) + 1] = c
      BY <2>3, <2>4
    <3>2. \A x : x \in Logged' <=> \E r \in Run : \E i \in 1..Len(files'[r]) : files'[r][i] = x
      <4>1. \A r \in Run : DOMAIN files'[r] = 1..Len(files'[r])
        BY <2>4, LenProperties
      <4> QED BY <4>1 DEF Logged
    <3> QED BY <2>2, <3>1, <3>2
  <2>6. ASSUME NEW x \in Logged PROVE x \in Logged'
    <3>1. PICK r \in Run : \E i \in 1..Len(files[r]) : files[r][i] = x
      BY <2>2, InLogged
    <3>2. PICK i \in 1..Len(files[r]) : files[r][i] = x
      BY <3>1
    <3>3. i \in 1..Len(files'[r]) /\ files'[r][i] = x
      <4>1. CASE r = sink
        BY <2>3, <2>4, <3>2, <4>1
      <4>2. CASE r # sink
        BY <2>4, <3>2, <4>2
      <4> QED BY <4>1, <4>2
    <3>4. DOMAIN files'[r] = 1..Len(files'[r])
      BY <2>4, LenProperties
    <3> QED BY <3>3, <3>4 DEF Logged
  <2>7. LoggedUnlessDead'
    BY <1>1, <1>3, <2>5, <2>6 DEF LoggedUnlessDead
  <2>8. \A r \in Run : r > run' => files'[r] = <<>>
    <3>1. run \in Int /\ \A r \in Run : r > run => r # run
      BY DEF LogInv, LogType, Run
    <3> QED BY <1>1, <2>2, <2>4, <3>1 DEF LogInv
  <2>9. LogType' /\ reader'.pc # "write"
    BY <1>1, <2>1, <2>4 DEF LogInv, LogType, Idle
  <2> QED BY <1>1, <1>4, <2>7, <2>8, <2>9 DEF LogInv
<1>6. CASE ~(sink # NoSink /\ sinkOpen)
  <2>1. files' = files /\ reader' = [reader EXCEPT !.pc = "dead"]
    BY <1>6 DEF WriteSink
  <2>2. reader'.pc = "dead" /\ reader'.packet = reader.packet
    BY <2>1 DEF PipesInv, PipesType
  <2>3. Logged' = Logged
    BY <2>1 DEF Logged
  <2>4. LoggedUnlessDead'
    BY <1>1, <1>2, <1>3, <2>2, <2>3 DEF LoggedUnlessDead
  <2> QED BY <1>1, <1>4, <2>1, <2>2, <2>4 DEF LogInv, LogType
<1> QED BY <1>5, <1>6

(* Every step keeps what was logged. *)
LEMMA LogNext ==
  ASSUME PipesInv, LogInv, NumPipes <= MaxId, ~MayOverlap, [Next]_vars
  PROVE  LogInv'
<1> USE DEF mainVars, queueVars, sinkVars, clientVars, agentVars, targetVars
<1>0. written \in [Pipe -> Nat] /\ eof \in [Pipe -> BOOLEAN]
  BY DEF LogInv, LogType
<1>1. CASE RequestPipe \/ CountRequest \/ SendRequest \/ HandlerPipeClosed \/ HandlerRequestPipe
           \/ (\E p \in Pipe : PipeThread(p)) \/ UNCHANGED vars
  <2>1. UNCHANGED <<run, sink, sinkOpen, files, events, written, eof, reader>>
    <3>1. CASE RequestPipe \/ CountRequest \/ SendRequest \/ HandlerRequestPipe
      BY <3>1 DEF RequestPipe, CountRequest, SendRequest, HandlerRequestPipe
    <3>2. CASE HandlerPipeClosed \/ UNCHANGED vars
      BY <3>2 DEF HandlerPipeClosed, vars
    <3>3. ASSUME NEW p \in Pipe, PipeThread(p)
          PROVE  UNCHANGED <<run, sink, sinkOpen, files, events, written, eof, reader>>
      BY <3>3 DEF PipeThread, OpenPipe, OpenFails, ReadPipe, EndOfPipe
    <3> QED BY <1>1, <3>1, <3>2, <3>3
  <2> QED BY <1>0, <2>1, LogQuiet
<1>2. CASE StartingFuzzRun \/ FinishedFuzzRun \/ ForgetSink
  BY <1>2, LogRuns
<1>3. CASE HandlerRegisteredPipe
  <2>1. UNCHANGED <<run, sink, sinkOpen, files, events, written, eof>> /\ reader.pc = "idle"
    BY <1>3 DEF HandlerRegisteredPipe, Receive
  <2>2. reader'.pc = "dequeue"
    BY <1>3, PipesRegistered
  <2> QED BY <1>0, <2>1, <2>2, LogQuiet
<1>4. CASE DequeueRequest
  <2>1. /\ UNCHANGED <<run, sink, sinkOpen, files, events, written, eof>>
        /\ reader.pc = "dequeue" /\ reader'.pc = "idle"
    BY <1>4 DEF DequeueRequest, Idle
  <2> QED BY <1>0, <2>1, LogQuiet
<1>5. CASE HandlerPipeData \/ WriteSink
  BY <1>5, LogData, LogWrite
<1>6. ASSUME NEW p \in Pipe, TargetWrites(p) \/ TargetCloses(p) PROVE LogInv'
  <2>1. UNCHANGED <<run, sink, sinkOpen, files, events, reader>>
    BY <1>6 DEF TargetWrites, TargetCloses
  <2>2. written' \in [Pipe -> Nat]
    BY <1>0, <1>6 DEF TargetWrites, TargetCloses
  <2>3. eof' \in [Pipe -> BOOLEAN]
    BY <1>0, <1>6 DEF TargetWrites, TargetCloses
  <2> QED BY <2>1, <2>2, <2>3, LogQuiet
<1> QED BY <1>1, <1>2, <1>3, <1>4, <1>5, <1>6 DEF Next, Main, Reader

-----------------------------------------------------------------------------
(* The theorems, for pipes whose ids next_pipe_id can tell apart and when  *)
(* Enqueue and Dequeue, which no lock protects, do not overlap.            *)

LEMMA PipesInvariant ==
  ASSUME NumPipes < 65536, ~MayOverlap
  PROVE  Spec => [](PipesInv /\ LogInv)
<1>1. NumPipes <= MaxId
  BY PipesAssumption DEF MaxId
<1>2. Init => PipesInv /\ LogInv
  BY PipesInit, LogInit
<1>3. PipesInv /\ LogInv /\ [Next]_vars => (PipesInv /\ LogInv)'
  <2>1. LogInv => written \in [Pipe -> Nat]
    BY DEF LogInv, LogType
  <2> QED BY <1>1, <2>1, PipesNext, LogNext
<1> QED BY <1>2, <1>3, PTL DEF Spec

(* Every variable keeps its type: the count of _requestedPipes never       *)
(* leaves it, and only names of pipes are registered.                      *)
THEOREM PipesTypeCorrect ==
  ASSUME NumPipes < 65536, ~MayOverlap
  PROVE  Spec => []TypeOK
<1>1. PipesInv /\ LogInv => TypeOK
  <2> SUFFICES ASSUME PipesInv, LogInv PROVE TypeOK
    OBVIOUS
  <2>1. nextId \in Ids
    <3>1. nextId \in Nat /\ nextId <= MaxId
      BY PipesFacts DEF MaxId
    <3> QED BY <3>1, IdsAre
  <2>2. ASSUME NEW id \in DOMAIN registered PROVE id \in Ids /\ registered[id] \in Pipe
    <3>1. id \in Nat /\ id < queue.taken /\ registered[id] = id + 1
      BY DEF PipesInv, RegisteredInv
    <3>2. queue.taken \in Nat /\ queue.taken <= nextId /\ nextId <= NumPipes /\ NumPipes \in Nat /\ nextId \in Nat
      BY PipesFacts DEF Base
    <3>3. id <= MaxId /\ id + 1 \in Pipe
      BY <3>1, <3>2 DEF MaxId, Pipe
    <3> QED BY <3>1, <3>3, IdsAre
  <2> QED BY <2>1, <2>2 DEF TypeOK, PipesInv, PipesType, LogInv, LogType, Event
<1> QED BY <1>1, PipesInvariant, PTL

(* PipeData names the pipe its data was read from, for any number of pipes *)
(* that are requested, registered and closed while others are read         *)
(* (HandlerRegisteredPipe, HandlerPipeData, thread_request_pipe).          *)
THEOREM DataIsAttributed ==
  ASSUME NumPipes < 65536, ~MayOverlap
  PROVE  Spec => []DataAttributed
<1>1. LogInv => DataAttributed
  BY DEF LogInv
<1> QED BY <1>1, PipesInvariant, PTL

(* A message received with a file open is written to it, or the process    *)
(* ends over it (RemotePipeLogger.HandlePipeData, FinishedFuzzRun).        *)
THEOREM DataIsLogged ==
  ASSUME NumPipes < 65536, ~MayOverlap
  PROVE  Spec => []LoggedUnlessDead
<1>1. LogInv => LoggedUnlessDead
  BY DEF LogInv
<1> QED BY <1>1, PipesInvariant, PTL
===============================================================================
