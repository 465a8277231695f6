--------------------------- MODULE DeliveryProofs ---------------------------
(* The lock, the acknowledged ids and the order of delivery, for any kinds,  *)
(* buffer size and bounds.                                                   *)
EXTENDS Delivery, TLAPS

USE DeliveryAssumption

------------------------------------------------------------------------------
(* Sequences                                                                 *)

Increasing(s) == \A i, j \in DOMAIN s : i < j => s[i] < s[j]

\* A sequence over 1 .. m is one over 1 .. n if n is larger.
LEMMA WidenSeq ==
  ASSUME NEW m \in Nat, NEW n \in Nat, m <= n, NEW s \in Seq(1 .. m)
  PROVE  s \in Seq(1 .. n)
OBVIOUS

\* Moving the head of one sequence to the end of another keeps their concatenation.
LEMMA MoveHead ==
  ASSUME NEW T, NEW d \in Seq(T), NEW c \in Seq(T), c # <<>>
  PROVE  /\ Append(d, Head(c)) \in Seq(T) /\ Tail(c) \in Seq(T)
         /\ Append(d, Head(c)) \o Tail(c) = d \o c
<1> DEFINE a == Append(d, Head(c))
           l == a \o Tail(c)
           r == d \o c
<1>1. /\ a \in Seq(T) /\ Tail(c) \in Seq(T) /\ Head(c) = c[1]
      /\ Len(a) = Len(d) + 1 /\ Len(Tail(c)) = Len(c) - 1
      /\ Len(d) \in Nat /\ Len(c) \in Nat \ {0}
      /\ \A i \in 1 .. Len(d) : a[i] = d[i]
      /\ a[Len(d) + 1] = c[1]
      /\ \A i \in 1 .. Len(c) - 1 : Tail(c)[i] = c[i + 1]
  OBVIOUS
<1>2. l \in Seq(T) /\ r \in Seq(T) /\ Len(l) = Len(r) /\ Len(r) = Len(d) + Len(c)
  BY <1>1
<1>3. \A i \in 1 .. Len(r) : l[i] = r[i]
  <2> SUFFICES ASSUME NEW i \in 1 .. Len(r) PROVE l[i] = r[i]
    OBVIOUS
  <2>1. CASE i <= Len(d)
    BY <1>1, <1>2, <2>1
  <2>2. CASE i = Len(d) + 1
    BY <1>1, <1>2, <2>2
  <2>3. CASE i > Len(d) + 1
    <3>1. l[i] = Tail(c)[i - (Len(d) + 1)] /\ i - (Len(d) + 1) \in 1 .. Len(c) - 1
      BY <1>1, <1>2, <2>3
    <3>2. r[i] = c[i - Len(d)]
      BY <1>1, <1>2, <2>3
    <3> QED  BY <1>1, <3>1, <3>2, <2>3
  <2> QED  BY <1>1, <1>2, <2>1, <2>2, <2>3
<1>4. l = r
  BY <1>2, <1>3
<1> QED  BY <1>1, <1>4

\* Appending to the second of two sequences is appending to both.
LEMMA AppendToBoth ==
  ASSUME NEW m \in Nat, NEW d \in Seq(1 .. m), NEW c \in Seq(1 .. m), NEW e \in 1 .. m
  PROVE  Append(c, e) \in Seq(1 .. m) /\ d \o Append(c, e) = Append(d \o c, e)
<1> DEFINE T == 1 .. m
<1>1. d \in Seq(T) /\ c \in Seq(T) /\ e \in T
  OBVIOUS
<1> HIDE DEF T
<1>2. Append(c, e) \in Seq(T) /\ d \o Append(c, e) = Append(d \o c, e)
  BY <1>1
<1> QED  BY <1>2 DEF T

\* What appending adds.
LEMMA AppendFacts ==
  ASSUME NEW T, NEW s \in Seq(T), NEW e \in T
  PROVE  Elements(Append(s, e)) = Elements(s) \cup {e}
<1>1. /\ Append(s, e) \in Seq(T)
      /\ Len(Append(s, e)) = Len(s) + 1
      /\ \A i \in 1 .. Len(s) : Append(s, e)[i] = s[i]
      /\ Append(s, e)[Len(s) + 1] = e
  OBVIOUS
<1>2. DOMAIN Append(s, e) = 1 .. Len(s) + 1 /\ DOMAIN s = 1 .. Len(s) /\ Len(s) \in Nat
  BY <1>1
<1>3. 1 .. Len(s) + 1 = (1 .. Len(s)) \cup {Len(s) + 1}
  BY <1>2
<1> QED  BY <1>1, <1>2, <1>3 DEF Elements

\* A larger element keeps a sequence increasing.
LEMMA AppendIncreasing ==
  ASSUME NEW s \in Seq(Nat), NEW e \in Nat, Increasing(s), \A n \in Elements(s) : n < e
  PROVE  Increasing(Append(s, e))
<1>1. /\ Append(s, e) \in Seq(Nat)
      /\ DOMAIN Append(s, e) = 1 .. Len(s) + 1 /\ DOMAIN s = 1 .. Len(s) /\ Len(s) \in Nat
      /\ \A i \in 1 .. Len(s) : Append(s, e)[i] = s[i]
      /\ Append(s, e)[Len(s) + 1] = e
  OBVIOUS
<1>2. \A i \in 1 .. Len(s) : s[i] < e
  BY <1>1 DEF Elements
<1> SUFFICES ASSUME NEW i \in DOMAIN Append(s, e), NEW j \in DOMAIN Append(s, e), i < j
             PROVE  Append(s, e)[i] < Append(s, e)[j]
  BY DEF Increasing
<1>3. i \in 1 .. Len(s)
  BY <1>1
<1>4. CASE j = Len(s) + 1
  BY <1>1, <1>2, <1>3, <1>4
<1>5. CASE j \in 1 .. Len(s)
  BY <1>1, <1>3, <1>5 DEF Increasing
<1> QED  BY <1>1, <1>4, <1>5

\* The first part of an increasing sequence is increasing.
LEMMA PrefixIncreasing ==
  ASSUME NEW d \in Seq(Nat), NEW c \in Seq(Nat), Increasing(d \o c)
  PROVE  Increasing(d)
<1>1. /\ DOMAIN d = 1 .. Len(d) /\ Len(d) \in Nat /\ Len(c) \in Nat
      /\ DOMAIN (d \o c) = 1 .. Len(d) + Len(c)
      /\ \A i \in 1 .. Len(d) : (d \o c)[i] = d[i]
  OBVIOUS
<1>2. \A i \in DOMAIN d : i \in DOMAIN (d \o c)
  BY <1>1
<1> QED  BY <1>1, <1>2 DEF Increasing

\* What is in a concatenation is in one of its parts.
LEMMA ConcatElements ==
  ASSUME NEW T, NEW d \in Seq(T), NEW c \in Seq(T)
  PROVE  Elements(d \o c) \subseteq Elements(d) \cup Elements(c)
<1> SUFFICES ASSUME NEW i \in DOMAIN (d \o c)
             PROVE  (d \o c)[i] \in Elements(d) \cup Elements(c)
  BY DEF Elements
<1>1. /\ DOMAIN d = 1 .. Len(d) /\ DOMAIN c = 1 .. Len(c) /\ Len(d) \in Nat /\ Len(c) \in Nat
      /\ DOMAIN (d \o c) = 1 .. Len(d) + Len(c)
  OBVIOUS
<1>2. CASE i <= Len(d)
  BY <1>1, <1>2 DEF Elements
<1>3. CASE i > Len(d)
  <2>1. i - Len(d) \in DOMAIN c /\ (d \o c)[i] = c[i - Len(d)]
    BY <1>1, <1>3
  <2> QED  BY <2>1 DEF Elements
<1> QED  BY <1>1, <1>2, <1>3

------------------------------------------------------------------------------
(* The inductive invariant                                                   *)

MessagePC == {"ended", "reading", "locking", "holding", "released", "queueing"}
SequencePC == {"ended", "delaying", "locking", "holding", "writing"}

\* The queue of the lock and the program counters agree: nobody, the loop that holds it, or
\* also the one that waits; one that held it may have ended.
Outside == PC \ {"locking", "holding"}

LockInv ==
  /\ pc["message"] \in MessagePC /\ pc["sequence"] \in SequencePC
  /\ \/ lock = <<>> /\ \A l \in Loop : pc[l] \in Outside
     \/ \E l \in Loop : /\ lock = <<l>> /\ pc[l] \in {"holding", "ended"}
                        /\ \A m \in Loop \ {l} : pc[m] \in Outside
     \/ \E l, m \in Loop : /\ l # m /\ lock = <<l, m>>
                           /\ pc[l] \in {"holding", "ended"} /\ pc[m] = "locking"

\* The service is at most one message ahead of the id, and that is the one being read; what is
\* acknowledged, and what is about to be, is not above the id.
IdInv ==
  /\ base + seqId <= Sent
  /\ pc["message"] \in {"reading", "released", "queueing"} => Sent = base + seqId
  /\ pc["message"] \in {"locking", "holding"} =>
       /\ base < msg
       /\ Sent = base + seqId \/ (Sent = base + seqId + 1 /\ msg = Sent)
  /\ pc["message"] \in {"released", "queueing"} => msg = base + seqId /\ base < msg
  /\ acked <= seqId
  /\ pc["sequence"] = "writing" => acked <= ackId /\ ackId <= seqId

InHand == pc["message"] \in {"released", "queueing"}

\* What the callbacks of a kind have been given and will be given is increasing; it has all
\* messages of the session up to the id, but for one in hand or lost at the end of the loop.
Queued(k) == delivered[k] \o channel[k]

PlaceInv ==
  /\ \A k \in Kind : Increasing(Queued(k))
  /\ \A k \in Kind : \A n \in Elements(Queued(k)) :
       n <= base + seqId /\ (InHand => n < msg)
  /\ \A n \in base + 1 .. base + seqId :
       \/ n = msg /\ pc["message"] \in {"released", "queueing", "ended"}
       \/ \E k \in Kind : n \in Elements(Queued(k))

IInv == TypeOK /\ LockInv /\ IdInv /\ PlaceInv

\* The initial states satisfy the invariant.
LEMMA InitInv == Init => IInv
<1> SUFFICES ASSUME Init PROVE IInv
  OBVIOUS
<1>a. /\ pc \in [Loop -> PC] /\ pc["message"] = "ended" /\ pc["sequence"] = "ended"
      /\ lock = <<>> /\ kinds = <<>> /\ Sent = 0
      /\ \A l \in Loop : pc[l] = "ended"
  BY DEF Init, Loop, PC, Sent
<1>b. TypeOK
  <2>1. /\ channel \in [Kind -> Seq(1 .. Sent)] /\ delivered \in [Kind -> Seq(1 .. Sent)]
        /\ lock \in Seq(Loop) /\ kinds \in Seq(Kind)
    BY <1>a DEF Init
  <2>2. /\ base \in Nat /\ base <= Sent /\ acked \in Nat /\ sessions \in Nat /\ seqId \in Nat
        /\ msg \in 0 .. Sent /\ ackId \in Nat
    BY <1>a DEF Init
  <2>3. updated \in BOOLEAN /\ handling \in BOOLEAN
    BY Zenon DEF Init
  <2> QED  BY <1>a, <2>1, <2>2, <2>3 DEF TypeOK
<1>c. LockInv
  <2>1. \A l \in Loop : pc[l] \in Outside
    BY <1>a DEF Outside, PC
  <2> QED  BY <1>a, <2>1 DEF LockInv, MessagePC, SequencePC
<1>1. TypeOK /\ LockInv /\ IdInv
  BY <1>a, <1>b, <1>c DEF Init, IdInv
<1>2. \A k \in Kind : Queued(k) = <<>>
  <2>1. <<>> \o <<>> = <<>>
    OBVIOUS
  <2> QED  BY <2>1 DEF Init, Queued
<1>3. Elements(<<>>) = {} /\ Increasing(<<>>)
  BY DEF Elements, Increasing
<1>4. PlaceInv
  BY <1>2, <1>3 DEF Init, PlaceInv
<1> QED  BY <1>1, <1>4 DEF IInv

\* Queues of one and of two.
LEMMA TupleFacts ==
  ASSUME NEW a \in Loop, NEW b \in Loop
  PROVE  /\ <<a>> # <<>> /\ <<a, b>> # <<>> /\ <<a>> # <<a, b>>
         /\ Head(<<a>>) = a /\ Head(<<a, b>>) = a
         /\ Tail(<<a>>) = <<>> /\ Tail(<<a, b>>) = <<b>>
         /\ Append(<<>>, a) = <<a>> /\ Append(<<a>>, b) = <<a, b>>
         /\ SubSeq(<<a, b>>, 1, 1) = <<a>>
<1>1. <<a>> # <<>> /\ <<a, b>> # <<>> /\ <<a>> # <<a, b>>
  OBVIOUS
<1>2. Head(<<a>>) = a /\ Head(<<a, b>>) = a
  OBVIOUS
<1>3. Tail(<<a>>) = <<>> /\ Tail(<<a, b>>) = <<b>>
  OBVIOUS
<1>e. \A s, t \in Seq(Loop) :
        Len(s) = Len(t) /\ (\A i \in 1 .. Len(s) : s[i] = t[i]) => s = t
  OBVIOUS
<1>f. /\ <<>> \in Seq(Loop) /\ <<a>> \in Seq(Loop) /\ <<a, b>> \in Seq(Loop)
      /\ Len(<<>>) = 0 /\ Len(<<a>>) = 1 /\ Len(<<a, b>>) = 2
  OBVIOUS
<1>g. 1 .. 1 = {1} /\ 1 .. 2 = {1, 2}
  OBVIOUS
<1>4. Append(<<>>, a) = <<a>> /\ Append(<<a>>, b) = <<a, b>>
  <2>1. Append(<<>>, a) = <<a>>
    <3>1. /\ Append(<<>>, a) \in Seq(Loop) /\ Len(Append(<<>>, a)) = 1
          /\ Append(<<>>, a)[1] = a
      BY <1>f
    <3> QED  BY <1>e, <1>f, <1>g, <3>1
  <2>2. Append(<<a>>, b) = <<a, b>>
    <3>1. /\ Append(<<a>>, b) \in Seq(Loop) /\ Len(Append(<<a>>, b)) = 2
          /\ Append(<<a>>, b)[1] = a /\ Append(<<a>>, b)[2] = b
      BY <1>f
    <3>2. <<a, b>>[1] = a /\ <<a, b>>[2] = b
      OBVIOUS
    <3>3. \A i \in 1 .. 2 : Append(<<a>>, b)[i] = <<a, b>>[i]
      BY <1>g, <3>1, <3>2
    <3> QED  BY <1>e, <1>f, <3>1, <3>3
  <2> QED  BY <2>1, <2>2
<1>5. SubSeq(<<a, b>>, 1, 1) = <<a>>
  <2>1. /\ SubSeq(<<a, b>>, 1, 1) \in Seq(Loop) /\ Len(SubSeq(<<a, b>>, 1, 1)) = 1
        /\ SubSeq(<<a, b>>, 1, 1)[1] = a
    BY <1>f
  <2>2. \A i \in 1 .. 1 : SubSeq(<<a, b>>, 1, 1)[i] = <<a>>[i]
    BY <1>g, <2>1
  <2> QED  BY <1>e, <1>f, <2>1, <2>2
<1> QED  BY <1>1, <1>2, <1>3, <1>4, <1>5

\* Who holds the lock is at its head, and who waits is behind it.
LEMMA HolderIsHead ==
  ASSUME TypeOK, LockInv, NEW l \in Loop, pc[l] = "holding"
  PROVE  /\ lock = <<l>> \/ \E m \in Loop : m # l /\ lock = <<l, m>> /\ pc[m] = "locking"
         /\ lock # <<>>
<1> USE DEF Outside
<1>1. CASE lock = <<>> /\ \A k \in Loop : pc[k] \in Outside
  BY <1>1
<1>2. ASSUME NEW k \in Loop, lock = <<k>>, \A m \in Loop \ {k} : pc[m] \in Outside
      PROVE  lock = <<l>>
  BY <1>2
<1>3. ASSUME NEW k \in Loop, NEW m \in Loop, k # m, lock = <<k, m>>, pc[m] = "locking"
      PROVE  l # m /\ (Loop = {k, m} => l = k)
  BY <1>3
<1>4. ASSUME NEW k \in Loop, NEW m \in Loop, k # m PROVE Loop = {k, m}
  BY <1>4 DEF Loop
<1>5. lock = <<l>> \/ \E m \in Loop : m # l /\ lock = <<l, m>> /\ pc[m] = "locking"
  BY <1>1, <1>2, <1>3, <1>4 DEF LockInv
<1>6. lock # <<>>
  BY <1>5
<1> QED  BY <1>5, <1>6

\* Who waits for the lock is behind its head.
LEMMA WaiterIsSecond ==
  ASSUME TypeOK, LockInv, NEW l \in Loop, pc[l] = "locking"
  PROVE  \E m \in Loop : m # l /\ lock = <<m, l>> /\ pc[m] \in {"holding", "ended"}
<1> USE DEF Outside
<1>1. PICK k \in Loop, m \in Loop :
        k # m /\ lock = <<k, m>> /\ pc[k] \in {"holding", "ended"} /\ pc[m] = "locking"
  BY DEF LockInv
<1>2. m = l
  <2>1. pc[k] # pc[l]
    BY <1>1
  <2> QED  BY <1>1, <2>1 DEF Loop
<1> QED  BY <1>1, <1>2

\* Every step keeps the types.
LEMMA StepTypes == TypeOK /\ LockInv /\ IdInv /\ [Next]_vars => TypeOK'
<1> SUFFICES ASSUME TypeOK, LockInv, IdInv, [Next]_vars PROVE TypeOK'
  OBVIOUS
<1> USE DEF TypeOK, Sent, service, data
<1>a. "message" \in Loop /\ "sequence" \in Loop
  BY DEF Loop
<1>l. ASSUME NEW l \in Loop, Lock(l) PROVE lock' \in Seq(Loop) /\ pc' \in [Loop -> PC]
  BY <1>l DEF Lock, PC
<1>r. ASSUME NEW l \in Loop, NEW p \in PC, lock # <<>>, Release(l, p)
      PROVE  lock' \in Seq(Loop) /\ pc' \in [Loop -> PC]
  BY <1>r DEF Release, PC
<1>1. CASE Open
  <2>1. pc' \in [Loop -> PC]
    BY <1>1 DEF Open, Loop, PC
  <2>2. /\ kinds' = kinds /\ base' = Len(kinds) /\ acked' = 0 /\ sessions' = sessions + 1
        /\ lock' = <<>> /\ seqId' = 0 /\ updated' = FALSE /\ handling' = TRUE
        /\ UNCHANGED <<msg, ackId, channel, delivered>>
    BY <1>1 DEF Open
  <2>3. base' \in Nat /\ base' <= Sent' /\ lock' \in Seq(Loop) /\ kinds' \in Seq(Kind)
    BY <2>2
  <2>4. /\ msg' \in 0 .. Sent'
        /\ channel' \in [Kind -> Seq(1 .. Sent')] /\ delivered' \in [Kind -> Seq(1 .. Sent')]
    BY <2>2
  <2>5. acked' \in Nat /\ sessions' \in Nat /\ seqId' \in Nat /\ ackId' \in Nat
    BY <2>2
  <2>6. updated' \in BOOLEAN /\ handling' \in BOOLEAN
    BY <2>2, Zenon
  <2> QED  BY <2>1, <2>3, <2>4, <2>5, <2>6
<1>2. ASSUME NEW k \in Kind, ReadNew(k) PROVE TypeOK'
  <2>1. kinds' \in Seq(Kind) /\ Len(kinds') = Len(kinds) + 1 /\ Len(kinds) \in Nat
    BY <1>2 DEF ReadNew
  <2>2. channel' \in [Kind -> Seq(1 .. Sent')] /\ delivered' \in [Kind -> Seq(1 .. Sent')]
    BY <1>2, <2>1, WidenSeq DEF ReadNew
  <2>3. lock' \in Seq(Loop) /\ pc' \in [Loop -> PC]
    BY <1>2, <1>a, <1>l DEF ReadNew
  <2>4. msg' \in 0 .. Sent' /\ base' <= Sent'
    BY <1>2, <2>1 DEF ReadNew
  <2> QED  BY <1>2, <2>1, <2>2, <2>3, <2>4 DEF ReadNew
<1>3. ASSUME NEW n \in 1 .. Sent, ReadAgain(n) PROVE TypeOK'
  <2>1. lock' \in Seq(Loop) /\ pc' \in [Loop -> PC]
    BY <1>3, <1>a, <1>l DEF ReadAgain
  <2> QED  BY <1>3, <2>1 DEF ReadAgain
<1>4. CASE Update
  <2>1. lock # <<>>
    <3>1. pc["message"] = "holding"
      BY <1>4 DEF Update
    <3> QED  BY <1>a, <3>1, HolderIsHead
  <2>2. lock' \in Seq(Loop) /\ pc' \in [Loop -> PC]
    BY <1>4, <1>a, <1>r, <2>1 DEF Update, PC
  <2>3. seqId' \in Nat
    BY <1>4 DEF Update, IsNew
  <2> QED  BY <1>4, <2>2, <2>3 DEF Update
<1>5. CASE Queue
  <2>1. msg \in 1 .. Sent /\ kinds[msg] \in Kind
    BY <1>5 DEF Queue, IdInv
  <2>2. channel' \in [Kind -> Seq(1 .. Sent)]
    <3>1. CASE Len(channel[kinds[msg]]) < BufferSize
      <4>1. channel' = [channel EXCEPT ![kinds[msg]] = Append(@, msg)]
        BY <1>5, <3>1 DEF Queue
      <4>2. Append(channel[kinds[msg]], msg) \in Seq(1 .. Sent)
        BY <2>1
      <4> QED  BY <2>1, <4>1, <4>2
    <3>2. CASE ~(Len(channel[kinds[msg]]) < BufferSize)
      BY <1>5, <3>2 DEF Queue
    <3> QED  BY <3>1, <3>2
  <2>3. pc' \in [Loop -> PC]
    BY <1>5 DEF Queue, PC
  <2> QED  BY <1>5, <2>2, <2>3 DEF Queue
<1>6. ASSUME NEW k \in Kind, Handle(k) PROVE TypeOK'
  <2>1. Append(delivered[k], Head(channel[k])) \in Seq(1 .. Sent) /\ Tail(channel[k]) \in Seq(1 .. Sent)
    BY <1>6, MoveHead DEF Handle
  <2>2. pc["message"] = "queueing" => msg \in 1 .. Sent
    BY DEF IdInv
  <2>3. channel' \in [Kind -> Seq(1 .. Sent)]
    <3>1. CASE pc["message"] = "queueing" /\ kinds[msg] = k
      <4>1. Append(Tail(channel[k]), msg) \in Seq(1 .. Sent)
        BY <2>1, <2>2, <3>1
      <4> QED  BY <1>6, <3>1, <4>1 DEF Handle
    <3>2. CASE ~(pc["message"] = "queueing" /\ kinds[msg] = k)
      BY <1>6, <2>1, <3>2 DEF Handle
    <3> QED  BY <3>1, <3>2
  <2>4. delivered' \in [Kind -> Seq(1 .. Sent)] /\ pc' \in [Loop -> PC]
    BY <1>6, <2>1 DEF Handle, PC
  <2> QED  BY <1>6, <2>3, <2>4 DEF Handle
<1>7. CASE Tick
  <2>1. lock' \in Seq(Loop) /\ pc' \in [Loop -> PC]
    BY <1>7, <1>a, <1>l DEF Tick
  <2> QED  BY <1>7, <2>1 DEF Tick
<1>8. CASE Get
  <2>1. lock # <<>>
    <3>1. pc["sequence"] = "holding"
      BY <1>8 DEF Get
    <3> QED  BY <1>a, <3>1, HolderIsHead
  <2>2. lock' \in Seq(Loop) /\ pc' \in [Loop -> PC]
    BY <1>8, <1>a, <1>r, <2>1 DEF Get, PC
  <2> QED  BY <1>8, <2>2 DEF Get
<1>9. CASE WriteAck
  BY <1>9 DEF WriteAck, PC
<1>10. ASSUME NEW l \in Loop, End(l) PROVE TypeOK'
  <2>1. pc[l] = "locking" => SubSeq(lock, 1, 1) \in Seq(Loop)
    <3>1. \A m \in Loop : SubSeq(<<m, l>>, 1, 1) = <<m>> /\ <<m>> \in Seq(Loop)
      <4>1. \A m \in Loop : <<m>> \in Seq(Loop)
        OBVIOUS
      <4> QED  BY <4>1, TupleFacts
    <3> QED  BY <3>1, WaiterIsSecond
  <2>2. lock' \in Seq(Loop) /\ pc' \in [Loop -> PC]
    BY <1>10, <2>1 DEF End, PC
  <2>3. seqId' \in Nat /\ updated' \in BOOLEAN
    <3>1. CASE l = "message" /\ pc[l] = "holding"
      BY <1>10, <3>1 DEF End, IdInv
    <3>2. CASE ~(l = "message" /\ pc[l] = "holding")
      <4>1. seqId' = seqId /\ updated' = updated
        BY <1>10, <3>2, Zenon DEF End
      <4> QED  BY <4>1
    <3> QED  BY <3>1, <3>2
  <2> QED  BY <1>10, <2>2, <2>3 DEF End
<1>11. CASE EndHandling
  BY <1>11 DEF EndHandling
<1>12. CASE UNCHANGED vars
  BY <1>12 DEF vars
<1> QED  BY <1>1, <1>2, <1>3, <1>4, <1>5, <1>6, <1>7, <1>8, <1>9, <1>10, <1>11, <1>12 DEF Next

\* A coroutine that neither holds the lock nor waits may ask for it.
LEMMA LockStep ==
  ASSUME TypeOK, LockInv, NEW l \in Loop, Live(l), pc[l] \in Outside, Lock(l)
  PROVE  LockInv'
<1> USE DEF TypeOK, Loop, Outside, PC
<1>r. pc'["message"] \in MessagePC /\ pc'["sequence"] \in SequencePC
  BY DEF LockInv, Lock, MessagePC, SequencePC
<1>1. CASE lock = <<>>
  <2>1. lock' = <<l>> /\ pc' = [pc EXCEPT ![l] = "holding"]
    BY <1>1 DEF Lock
  <2>2. \A m \in Loop \ {l} : pc'[m] \in Outside
    BY <1>1, <2>1 DEF LockInv
  <2> QED  BY <1>r, <2>1, <2>2 DEF LockInv
<1>2. CASE lock # <<>>
  <2>1. lock' = Append(lock, l) /\ pc' = [pc EXCEPT ![l] = "locking"]
    BY <1>2 DEF Lock
  <2>2. PICK m \in Loop : lock = <<m>> /\ pc[m] \in {"holding", "ended"} /\ m # l
    BY <1>2 DEF LockInv, Live
  <2>3. lock' = <<m, l>>
    BY <2>1, <2>2, TupleFacts
  <2> QED  BY <1>r, <2>1, <2>2, <2>3 DEF LockInv
<1> QED  BY <1>1, <1>2

\* Its holder may release it, if it goes on outside.
LEMMA ReleaseStep ==
  ASSUME TypeOK, LockInv, NEW l \in Loop, pc[l] = "holding",
         NEW p \in Outside, p \in IF l = "message" THEN MessagePC ELSE SequencePC, Release(l, p)
  PROVE  LockInv'
<1> USE DEF TypeOK, Loop, Outside, PC
<1>r. pc'["message"] \in MessagePC /\ pc'["sequence"] \in SequencePC
  BY DEF LockInv, Release, MessagePC, SequencePC
<1>1. CASE lock = <<l>>
  <2>1. lock' = <<>> /\ \A m \in Loop \ {l} : pc[m] \in Outside
    <3>1. \A m \in Loop : <<l>> = <<m>> => m = l
      OBVIOUS
    <3> QED  BY <1>1, <3>1, TupleFacts DEF LockInv, Release
  <2>2. \A m \in Loop : pc'[m] \in Outside
    BY <2>1 DEF Release
  <2> QED  BY <1>r, <2>1, <2>2 DEF LockInv
<1>2. ASSUME NEW m \in Loop, m # l, lock = <<l, m>>, pc[m] = "locking" PROVE LockInv'
  <2>1. lock' = <<m>> /\ pc'[m] = "holding" /\ pc'[l] = p
    BY <1>2, TupleFacts DEF Release
  <2> QED  BY <1>r, <1>2, <2>1 DEF LockInv
<1> QED  BY <1>1, <1>2, HolderIsHead

\* A coroutine that has nothing to do with the lock may go on outside.
LEMMA OutsideStep ==
  ASSUME TypeOK, LockInv, NEW l \in Loop, Live(l), pc[l] \in Outside,
         NEW p \in Outside, p \in IF l = "message" THEN MessagePC ELSE SequencePC,
         pc' = [pc EXCEPT ![l] = p], lock' = lock
  PROVE  LockInv'
<1> USE DEF TypeOK, Outside, PC, Live
<1>r. pc'["message"] \in MessagePC /\ pc'["sequence"] \in SequencePC
  BY DEF LockInv, Loop
<1>2. \A m \in Loop : pc[m] \in {"holding", "ended", "locking"} => pc'[m] = pc[m]
  OBVIOUS
<1>3. \A m \in Loop : pc[m] \in Outside => pc'[m] \in Outside
  OBVIOUS
<1> QED  BY <1>r, <1>2, <1>3 DEF LockInv

\* The end of a loop: one that waits leaves the queue, one that holds the lock leaves it taken.
LEMMA EndStep ==
  ASSUME TypeOK, LockInv, NEW l \in Loop, End(l)
  PROVE  LockInv'
<1> USE DEF TypeOK, PC, Live
<1>0. pc' = [pc EXCEPT ![l] = "ended"] /\ pc[l] # "ended"
  BY DEF End
<1>r. pc'["message"] \in MessagePC /\ pc'["sequence"] \in SequencePC
  BY <1>0 DEF LockInv, Loop, MessagePC, SequencePC
<1>1. CASE pc[l] = "locking"
  <2>1. PICK m \in Loop : m # l /\ lock = <<m, l>> /\ pc[m] \in {"holding", "ended"}
    BY <1>1, WaiterIsSecond
  <2>2. lock' = <<m>>
    BY <1>1, <2>1, TupleFacts DEF End
  <2>3. pc'[m] = pc[m] /\ pc'[l] = "ended" /\ Loop = {l, m}
    BY <1>0, <2>1 DEF Loop
  <2> QED  BY <1>r, <2>1, <2>2, <2>3 DEF LockInv, Outside
<1>2. CASE pc[l] = "holding"
  <2>1. lock' = lock
    BY <1>2 DEF End
  <2>2. CASE lock = <<l>>
    <3>1. \A m \in Loop : <<l>> = <<m>> => m = l
      OBVIOUS
    <3>2. \A m \in Loop \ {l} : pc[m] \in Outside
      BY <2>2, <3>1, TupleFacts DEF LockInv
    <3>3. \A m \in Loop \ {l} : pc'[m] \in Outside
      BY <1>0, <3>2
    <3> QED  BY <1>r, <1>0, <2>1, <2>2, <3>3 DEF LockInv
  <2>3. ASSUME NEW m \in Loop, m # l, lock = <<l, m>>, pc[m] = "locking" PROVE LockInv'
    <3>1. pc'[m] = "locking" /\ pc'[l] = "ended"
      BY <1>0, <2>3
    <3> QED  BY <1>r, <2>1, <2>3, <3>1 DEF LockInv
  <2> QED  BY <1>2, <2>2, <2>3, HolderIsHead
<1>3. CASE pc[l] \notin {"locking", "holding"}
  <2>1. lock' = lock /\ pc[l] \in Outside /\ "ended" \in Outside
    BY <1>3 DEF End, Outside
  <2>2. "ended" \in IF l = "message" THEN MessagePC ELSE SequencePC
    BY DEF MessagePC, SequencePC
  <2> QED  BY <1>0, <2>1, <2>2, OutsideStep
<1> QED  BY <1>1, <1>2, <1>3

\* Every step keeps the lock's invariant.
LEMMA StepLock == TypeOK /\ LockInv /\ [Next]_vars => LockInv'
<1> SUFFICES ASSUME TypeOK, LockInv, [Next]_vars PROVE LockInv'
  OBVIOUS
<1> USE DEF MessagePC, SequencePC
<1>a. "message" \in Loop /\ "sequence" \in Loop /\ "message" # "sequence"
  BY DEF Loop
<1>o. /\ "reading" \in Outside /\ "released" \in Outside /\ "queueing" \in Outside
      /\ "delaying" \in Outside /\ "writing" \in Outside
  BY DEF Outside, PC
<1>1. CASE Open
  <2>1. lock' = <<>> /\ \A l \in Loop : pc'[l] \in Outside
    BY <1>1, <1>o DEF Open, Loop
  <2> QED  BY <1>1, <2>1 DEF LockInv, Open
<1>2. ASSUME pc["message"] = "reading", Lock("message") PROVE LockInv'
  BY <1>2, <1>a, <1>o, LockStep DEF Live
<1>3. ASSUME NEW k \in Kind, ReadNew(k) PROVE LockInv'
  BY <1>2, <1>3 DEF ReadNew
<1>4. ASSUME NEW n \in 1 .. Sent, ReadAgain(n) PROVE LockInv'
  BY <1>2, <1>4 DEF ReadAgain
<1>5. CASE Update
  <2>1. PICK p \in {"released", "reading"} : pc["message"] = "holding" /\ Release("message", p)
    BY <1>5 DEF Update
  <2> QED  BY <2>1, <1>a, <1>o, ReleaseStep
<1>6. CASE Queue
  <2>1. PICK p \in {"queueing", "reading"} :
          pc["message"] = "released" /\ pc' = [pc EXCEPT !["message"] = p] /\ lock' = lock
    BY <1>6 DEF Queue
  <2> QED  BY <2>1, <1>a, <1>o, OutsideStep DEF Live
<1>7. ASSUME NEW k \in Kind, Handle(k) PROVE LockInv'
  <2>1. CASE pc["message"] = "queueing" /\ kinds[msg] = k
    <3>1. pc' = [pc EXCEPT !["message"] = "reading"] /\ lock' = lock
      BY <1>7, <2>1 DEF Handle
    <3> QED  BY <2>1, <3>1, <1>a, <1>o, OutsideStep DEF Live
  <2>2. CASE ~(pc["message"] = "queueing" /\ kinds[msg] = k)
    BY <1>7, <2>2 DEF Handle, LockInv
  <2> QED  BY <2>1, <2>2
<1>8. CASE Tick
  BY <1>8, <1>a, <1>o, LockStep DEF Tick, Live
<1>9. CASE Get
  <2>1. PICK p \in {"writing", "delaying"} : pc["sequence"] = "holding" /\ Release("sequence", p)
    BY <1>9 DEF Get
  <2> QED  BY <2>1, <1>a, <1>o, ReleaseStep
<1>10. CASE WriteAck
  BY <1>10, <1>a, <1>o, OutsideStep DEF WriteAck, Live
<1>11. ASSUME NEW l \in Loop, End(l) PROVE LockInv'
  BY <1>11, EndStep
<1>12. CASE EndHandling
  BY <1>12 DEF EndHandling, LockInv
<1>13. CASE UNCHANGED vars
  BY <1>13 DEF vars, LockInv
<1> QED  BY <1>1, <1>3, <1>4, <1>5, <1>6, <1>7, <1>8, <1>9, <1>10, <1>11, <1>12, <1>13 DEF Next

\* Every step keeps the id between what is acknowledged and what is sent.
LEMMA StepId == TypeOK /\ LockInv /\ IdInv /\ [Next]_vars => IdInv'
<1> SUFFICES ASSUME TypeOK, LockInv, IdInv, [Next]_vars PROVE IdInv'
  OBVIOUS
<1> USE DEF TypeOK, Sent, service, data
<1>a. "message" \in Loop /\ "sequence" \in Loop /\ "message" # "sequence"
  BY DEF Loop
<1>l. Len(kinds) \in Nat
  OBVIOUS
<1>1. CASE Open
  <2>1. /\ base' = Len(kinds) /\ seqId' = 0 /\ acked' = 0 /\ kinds' = kinds
        /\ pc'["message"] = "reading" /\ pc'["sequence"] = "delaying"
    BY <1>1 DEF Open
  <2> QED  BY <1>l, <2>1 DEF IdInv
<1>2. ASSUME NEW l \in Loop, Lock(l), pc[l] \in {"reading", "delaying"}
      PROVE  /\ pc'[l] \in {"locking", "holding"}
             /\ \A m \in Loop \ {l} : pc'[m] = pc[m]
  BY <1>2 DEF Lock
<1>3. ASSUME NEW k \in Kind, ReadNew(k) PROVE IdInv'
  <2>1. /\ Len(kinds') = Len(kinds) + 1 /\ msg' = Len(kinds) + 1
        /\ UNCHANGED <<base, acked, seqId, ackId>>
        /\ Len(kinds) = base + seqId
        /\ pc'["message"] \in {"locking", "holding"} /\ pc'["sequence"] = pc["sequence"]
    BY <1>2, <1>3, <1>a DEF ReadNew, IdInv
  <2> QED  BY <1>l, <2>1 DEF IdInv
<1>4. ASSUME NEW n \in 1 .. Sent, ReadAgain(n) PROVE IdInv'
  <2>1. /\ msg' = n /\ n > base + acked
        /\ UNCHANGED <<kinds, base, acked, seqId, ackId>>
        /\ Len(kinds) = base + seqId
        /\ pc'["message"] \in {"locking", "holding"} /\ pc'["sequence"] = pc["sequence"]
    BY <1>2, <1>4, <1>a DEF ReadAgain, IdInv
  <2>2. base < msg'
    BY <2>1
  <2>3. acked' <= seqId' /\ (pc'["sequence"] = "writing" => acked' <= ackId' /\ ackId' <= seqId')
    BY <2>1 DEF IdInv
  <2>4. base' + seqId' = Len(kinds')
    BY <2>1
  <2> QED  BY <1>l, <2>1, <2>2, <2>3, <2>4 DEF IdInv
<1>r. ASSUME NEW l \in Loop, NEW p, Release(l, p)
      PROVE  /\ pc'[l] = p
             /\ \A m \in Loop \ {l} : pc'[m] = pc[m] \/ (pc[m] = "locking" /\ pc'[m] = "holding")
  BY <1>r DEF Release
<1>5. CASE Update
  <2>1. /\ pc["message"] = "holding" /\ UNCHANGED <<kinds, base, acked, msg, ackId>>
        /\ pc'["message"] = IF IsNew THEN "released" ELSE "reading"
        /\ pc'["sequence"] = "writing" => pc["sequence"] = "writing"
        /\ seqId' = IF IsNew THEN msg - base ELSE seqId
    BY <1>5, <1>r, <1>a DEF Update
  <2> QED  BY <1>l, <2>1 DEF IdInv, IsNew
<1>6. CASE Queue
  <2>1. /\ pc["message"] = "released" /\ pc'["message"] \in {"reading", "queueing"}
        /\ pc'["sequence"] = pc["sequence"]
        /\ UNCHANGED <<kinds, base, acked, seqId, msg, ackId>>
    BY <1>6, <1>a DEF Queue
  <2> QED  BY <2>1 DEF IdInv
<1>7. ASSUME NEW k \in Kind, Handle(k) PROVE IdInv'
  <2>1. /\ pc'["message"] = pc["message"] \/ (pc["message"] = "queueing" /\ pc'["message"] = "reading")
        /\ pc'["sequence"] = pc["sequence"]
        /\ UNCHANGED <<kinds, base, acked, seqId, msg, ackId>>
    BY <1>7, <1>a DEF Handle
  <2> QED  BY <2>1 DEF IdInv
<1>8. CASE Tick
  <2>1. /\ pc'["sequence"] \in {"locking", "holding"} /\ pc'["message"] = pc["message"]
        /\ UNCHANGED <<kinds, base, acked, seqId, msg, ackId>>
    BY <1>2, <1>8, <1>a DEF Tick
  <2> QED  BY <2>1 DEF IdInv
<1>9. CASE Get
  <2>1. /\ pc'["sequence"] = IF updated THEN "writing" ELSE "delaying"
        /\ pc'["message"] = pc["message"] \/ (pc["message"] = "locking" /\ pc'["message"] = "holding")
        /\ UNCHANGED <<kinds, base, acked, seqId, msg>>
        /\ updated => ackId' = seqId
    BY <1>9, <1>r, <1>a DEF Get
  <2>2. pc'["sequence"] = "writing" => ackId' = seqId
    BY <2>1
  <2>3. acked <= seqId
    BY DEF IdInv
  <2>4. pc'["sequence"] = "writing" => acked' <= ackId' /\ ackId' <= seqId'
    BY <2>1, <2>2, <2>3
  <2>5. /\ pc'["message"] \in {"reading", "released", "queueing"} => pc["message"] = pc'["message"]
        /\ pc'["message"] \in {"locking", "holding"} => pc["message"] \in {"locking", "holding"}
    BY <2>1
  <2> QED  BY <2>1, <2>3, <2>4, <2>5 DEF IdInv
<1>10. CASE WriteAck
  <2>1. /\ pc["sequence"] = "writing" /\ pc'["sequence"] = "delaying" /\ pc'["message"] = pc["message"]
        /\ acked' \in {acked, ackId} /\ UNCHANGED <<kinds, base, seqId, msg, ackId>>
    BY <1>10, <1>a DEF WriteAck
  <2> QED  BY <2>1 DEF IdInv
<1>11. ASSUME NEW l \in Loop, End(l) PROVE IdInv'
  <2>1. /\ pc'[l] = "ended" /\ \A m \in Loop \ {l} : pc'[m] = pc[m]
        /\ UNCHANGED <<kinds, base, acked, msg, ackId>>
    BY <1>11 DEF End
  <2>2. \/ seqId' = seqId
        \/ pc["message"] = "holding" /\ l = "message" /\ IsNew /\ seqId' = msg - base
    <3>1. CASE l = "message" /\ pc[l] = "holding"
      BY <1>11, <3>1 DEF End
    <3>2. CASE ~(l = "message" /\ pc[l] = "holding")
      <4>1. seqId' = seqId
        BY <1>11, <3>2, Zenon DEF End
      <4> QED  BY <4>1
    <3> QED  BY <3>1, <3>2
  <2>3. pc'["message"] \in {pc["message"], "ended"} /\ pc'["sequence"] \in {pc["sequence"], "ended"}
    BY <2>1, <1>a
  <2>4. CASE seqId' = seqId
    BY <1>l, <2>1, <2>3, <2>4 DEF IdInv
  <2>5. CASE pc["message"] = "holding" /\ l = "message" /\ IsNew /\ seqId' = msg - base
    BY <1>l, <2>1, <2>3, <2>5 DEF IdInv, IsNew
  <2> QED  BY <2>2, <2>4, <2>5
<1>12. CASE EndHandling
  BY <1>12 DEF EndHandling, IdInv
<1>13. CASE UNCHANGED vars
  BY <1>13 DEF vars, IdInv
<1> QED  BY <1>1, <1>3, <1>4, <1>5, <1>6, <1>7, <1>8, <1>9, <1>10, <1>11, <1>12, <1>13 DEF Next

Unqueued == {"released", "queueing", "ended"}

\* A step that leaves callbacks and channels alone keeps the places, if the id does not shrink
\* and every number up to it has a place.
LEMMA KeepPlace ==
  ASSUME TypeOK, IdInv, PlaceInv, TypeOK',
         UNCHANGED <<delivered, channel>>,
         base + seqId <= base' + seqId',
         InHand' => (base + seqId < msg' \/ (InHand /\ msg' = msg)),
         \A n \in base' + 1 .. base' + seqId' :
           \/ n = msg' /\ pc'["message"] \in Unqueued
           \/ \E k \in Kind : n \in Elements(Queued(k))
  PROVE  PlaceInv'
<1>1. \A k \in Kind : Queued(k)' = Queued(k)
  BY DEF Queued
<1>2. \A k \in Kind : Elements(Queued(k)) \subseteq Nat
  <2> TAKE k \in Kind
  <2>1. Queued(k) \in Seq(1 .. Sent)
    BY DEF Queued, TypeOK
  <2>2. Len(kinds) \in Nat
    BY DEF TypeOK
  <2> QED  BY <2>1, <2>2 DEF Elements, Sent
<1>3. \A k \in Kind : Increasing(Queued(k)')
  BY <1>1 DEF PlaceInv
<1>4. ASSUME NEW k \in Kind, NEW n \in Elements(Queued(k)')
      PROVE  n <= base' + seqId' /\ (InHand' => n < msg')
  <2>1. n \in Elements(Queued(k)) /\ n \in Nat
    BY <1>1, <1>2, <1>4
  <2>2. n <= base + seqId
    BY <2>1 DEF PlaceInv
  <2>6. InHand => n < msg
    BY <2>1 DEF PlaceInv
  <2>3. base \in Nat /\ seqId \in Nat /\ base' \in Nat /\ seqId' \in Nat /\ msg' \in Nat
    <3>1. msg' \in 0 .. Len(kinds') /\ Len(kinds') \in Nat
      BY DEF TypeOK, Sent
    <3> QED  BY <3>1 DEF TypeOK
  <2>4. n <= base' + seqId'
    <3>1. \A a, b, c \in Nat : a <= b /\ b <= c => a <= c
      OBVIOUS
    <3>s. \A a, b \in Nat : a + b \in Nat
      OBVIOUS
    <3>2. base + seqId \in Nat /\ base' + seqId' \in Nat
      BY <2>3, <3>s, Zenon
    <3> QED  BY <2>1, <2>2, <3>1, <3>2, Zenon
  <2>5. ASSUME InHand' PROVE n < msg'
    <3>1. CASE base + seqId < msg'
      BY <2>1, <2>2, <2>3, <3>1
    <3>2. CASE InHand /\ msg' = msg
      BY <2>6, <3>2
    <3> QED  BY <2>5, <3>1, <3>2
  <2> QED  BY <2>4, <2>5
<1>5. \A n \in base' + 1 .. base' + seqId' :
        \/ n = msg' /\ pc'["message"] \in Unqueued
        \/ \E k \in Kind : n \in Elements(Queued(k)')
  BY <1>1
<1> QED  BY <1>3, <1>4, <1>5 DEF PlaceInv, Unqueued

\* A step that queues the message in hand keeps the places, and the loop may read again.
LEMMA QueuePlace ==
  ASSUME TypeOK, IdInv, PlaceInv, InHand, NEW m \in Kind, m = kinds[msg],
         UNCHANGED <<base, seqId, msg>>, pc'["message"] = "reading",
         Queued(m)' = Append(Queued(m), msg),
         \A k \in Kind \ {m} : Queued(k)' = Queued(k)
  PROVE  PlaceInv'
<1>1. msg \in 1 .. Sent /\ msg = base + seqId /\ msg \in Nat
      /\ base \in Nat /\ seqId \in Nat
  BY DEF TypeOK, IdInv, InHand, Sent
<1>2. \A k \in Kind : Queued(k) \in Seq(1 .. Sent) /\ Queued(k) \in Seq(Nat)
  <2> TAKE k \in Kind
  <2>1. Queued(k) \in Seq(1 .. Sent) /\ Len(kinds) \in Nat
    BY DEF Queued, TypeOK
  <2> QED  BY <2>1 DEF Sent
<1>3. Elements(Append(Queued(m), msg)) = Elements(Queued(m)) \cup {msg}
  BY <1>1, <1>2, AppendFacts
<1>4. Increasing(Append(Queued(m), msg))
  <2>1. \A n \in Elements(Queued(m)) : n < msg
    BY <1>1 DEF PlaceInv
  <2>2. Increasing(Queued(m))
    BY <1>1 DEF PlaceInv
  <2> QED  BY <1>1, <1>2, <2>1, <2>2, AppendIncreasing
<1>5. \A k \in Kind : Increasing(Queued(k)')
  BY <1>4 DEF PlaceInv
<1>6. ~InHand'
  BY DEF InHand
<1>7. ASSUME NEW k \in Kind, NEW n \in Elements(Queued(k)') PROVE n <= base' + seqId'
  <2>1. n = msg \/ n \in Elements(Queued(k))
    BY <1>3, <1>7
  <2> QED  BY <1>1, <2>1 DEF PlaceInv
<1>8. ASSUME NEW n \in base' + 1 .. base' + seqId'
      PROVE  \E k \in Kind : n \in Elements(Queued(k)')
  <2>1. CASE n = msg
    BY <1>1, <1>3, <2>1
  <2>2. CASE n # msg
    <3>1. PICK k \in Kind : n \in Elements(Queued(k))
      BY <1>8, <2>2 DEF PlaceInv
    <3>2. n \in Elements(Queued(k)')
      BY <1>3, <3>1
    <3> QED  BY <3>2
  <2> QED  BY <2>1, <2>2
<1> QED  BY <1>5, <1>6, <1>7, <1>8 DEF PlaceInv

\* Every step keeps every number in its place.
LEMMA StepPlace == IInv /\ TypeOK' /\ IdInv' /\ [Next]_vars => PlaceInv'
<1> SUFFICES ASSUME IInv, TypeOK', IdInv', [Next]_vars PROVE PlaceInv'
  OBVIOUS
<1>a. TypeOK /\ LockInv /\ IdInv /\ PlaceInv
  BY DEF IInv
<1>b. /\ base \in Nat /\ seqId \in Nat /\ Sent \in Nat /\ msg \in Nat
      /\ msg <= Sent /\ "message" \in Loop /\ "sequence" \in Loop /\ "message" # "sequence"
  BY <1>a DEF TypeOK, Loop, Sent
<1>c. \A n \in base + 1 .. base + seqId :
        \/ n = msg /\ pc["message"] \in Unqueued
        \/ \E k \in Kind : n \in Elements(Queued(k))
  BY <1>a DEF PlaceInv, Unqueued
<1>1. CASE Open
  <2>1. base' = Sent /\ seqId' = 0 /\ UNCHANGED <<delivered, channel>> /\ pc'["message"] = "reading"
    BY <1>1 DEF Open
  <2>2. base' + 1 .. base' + seqId' = {} /\ base + seqId <= base' + seqId'
    BY <1>a, <1>b, <2>1 DEF IdInv
  <2>3. ~InHand'
    BY <2>1 DEF InHand
  <2> QED  BY <1>a, <2>1, <2>2, <2>3, KeepPlace
<1>2. ASSUME UNCHANGED <<base, seqId, delivered, channel>>, pc["message"] \notin Unqueued,
             pc'["message"] \notin Unqueued
      PROVE  PlaceInv'
  <2>1. ~InHand' /\ base + seqId <= base' + seqId'
    BY <1>2, <1>b DEF InHand, Unqueued
  <2> QED  BY <1>a, <1>c, <1>2, <2>1, KeepPlace
<1>3. ASSUME UNCHANGED <<base, seqId, msg, delivered, channel>>,
             \/ pc'["message"] = pc["message"]
             \/ pc["message"] \notin Unqueued /\ pc'["message"] \notin Unqueued
             \/ pc'["message"] = "ended"
             \/ pc["message"] = "released" /\ pc'["message"] = "queueing"
      PROVE  PlaceInv'
  <2>1. InHand' => InHand
    BY <1>3 DEF InHand, Unqueued
  <2>2. pc["message"] \in Unqueued => pc'["message"] \in Unqueued
    BY <1>3 DEF Unqueued
  <2>3. base + seqId <= base' + seqId'
    BY <1>3, <1>b
  <2> QED  BY <1>a, <1>c, <1>3, <2>1, <2>2, <2>3, KeepPlace
<1>4. ASSUME NEW k \in Kind, ReadNew(k) PROVE PlaceInv'
  <2>1. pc'["message"] \in {"locking", "holding"} /\ pc["message"] = "reading"
    BY <1>4, <1>a, <1>b DEF ReadNew, Lock, TypeOK
  <2> QED  BY <1>2, <1>4, <2>1 DEF ReadNew, data, Unqueued
<1>5. ASSUME NEW n \in 1 .. Sent, ReadAgain(n) PROVE PlaceInv'
  <2>1. pc'["message"] \in {"locking", "holding"} /\ pc["message"] = "reading"
    BY <1>5, <1>a, <1>b DEF ReadAgain, Lock, TypeOK
  <2> QED  BY <1>2, <1>5, <2>1 DEF ReadAgain, data, service, Unqueued
<1>6. CASE Update
  <2>1. /\ UNCHANGED <<base, msg, delivered, channel>> /\ pc["message"] = "holding"
        /\ pc'["message"] = IF IsNew THEN "released" ELSE "reading"
        /\ seqId' = IF IsNew THEN msg - base ELSE seqId
    BY <1>6, <1>a, <1>b DEF Update, Release, TypeOK, data, service
  <2>2. CASE IsNew
    <3>1. /\ seqId' = msg - base /\ base + seqId < msg /\ msg = base + seqId + 1
          /\ pc'["message"] = "released"
      BY <1>a, <1>b, <2>1, <2>2 DEF IsNew, IdInv
    <3>2. \A n \in base' + 1 .. base' + seqId' : n = msg \/ n \in base + 1 .. base + seqId
      BY <1>b, <2>1, <3>1
    <3>3. \A n \in base' + 1 .. base' + seqId' :
            \/ n = msg' /\ pc'["message"] \in Unqueued
            \/ \E k \in Kind : n \in Elements(Queued(k))
      BY <1>c, <2>1, <3>1, <3>2 DEF Unqueued
    <3>4. base + seqId <= base' + seqId' /\ base + seqId < msg'
      BY <1>b, <2>1, <3>1
    <3> QED  BY <1>a, <2>1, <3>3, <3>4, KeepPlace
  <2>3. CASE ~IsNew
    BY <1>2, <2>1, <2>3 DEF Unqueued
  <2> QED  BY <2>2, <2>3
<1>q. ASSUME NEW k \in Kind, channel' = [channel EXCEPT ![k] = Append(@, msg)], UNCHANGED delivered,
             k = kinds[msg], InHand
      PROVE  Queued(k)' = Append(Queued(k), msg) /\ \A j \in Kind \ {k} : Queued(j)' = Queued(j)
  <2>1. msg \in 1 .. Sent
    BY <1>a, <1>b, <1>q DEF InHand, IdInv, TypeOK
  <2>2. delivered[k] \in Seq(1 .. Sent) /\ channel[k] \in Seq(1 .. Sent)
    BY <1>a DEF TypeOK
  <2>3. delivered[k] \o Append(channel[k], msg) = Append(delivered[k] \o channel[k], msg)
    <3> DEFINE d == delivered[k]
               c == channel[k]
    <3>1. d \in Seq(1 .. Sent) /\ c \in Seq(1 .. Sent) /\ msg \in 1 .. Sent /\ Sent \in Nat
      BY <1>b, <2>1, <2>2
    <3> HIDE DEF d, c
    <3>2. d \o Append(c, msg) = Append(d \o c, msg)
      BY <3>1, AppendToBoth
    <3> QED  BY <3>2 DEF d, c
  <2>4. channel'[k] = Append(channel[k], msg) /\ \A j \in Kind \ {k} : channel'[j] = channel[j]
    BY <1>a, <1>q DEF TypeOK
  <2> QED  BY <1>q, <2>3, <2>4 DEF Queued
<1>7. CASE Queue
  <2>1. InHand /\ UNCHANGED <<base, seqId, msg, delivered>> /\ pc["message"] = "released"
    BY <1>7 DEF Queue, InHand, service
  <2>k. kinds[msg] \in Kind /\ channel \in [Kind -> Seq(1 .. Sent)] /\ pc \in [Loop -> PC]
    <3>1. msg \in 1 .. Len(kinds)
      BY <1>a, <1>b, <2>1 DEF IdInv, Sent
    <3>2. /\ kinds \in Seq(Kind)
          /\ channel \in [Kind -> Seq(1 .. Sent)] /\ pc \in [Loop -> PC]
      BY <1>a DEF TypeOK
    <3>3. kinds[msg] \in Kind
      BY <3>1, <3>2
    <3> QED  BY <3>2, <3>3
  <2>2. CASE Len(channel[kinds[msg]]) < BufferSize
    <3>1. PICK k \in Kind : k = kinds[msg]
      BY <2>k
    <3>2. channel' = [channel EXCEPT ![k] = Append(@, msg)] /\ pc'["message"] = "reading"
      BY <1>7, <1>b, <2>k, <2>2, <3>1 DEF Queue
    <3> QED  BY <1>a, <1>q, <2>1, <3>1, <3>2, QueuePlace
  <2>3. CASE ~(Len(channel[kinds[msg]]) < BufferSize)
    <3>1. channel' = channel /\ pc'["message"] = "queueing"
      BY <1>7, <1>b, <2>k, <2>3 DEF Queue
    <3> QED  BY <1>3, <2>1, <3>1
  <2> QED  BY <2>2, <2>3
<1>8. ASSUME NEW k \in Kind, Handle(k) PROVE PlaceInv'
  <2>1. /\ channel[k] # <<>> /\ channel[k] \in Seq(1 .. Sent) /\ delivered[k] \in Seq(1 .. Sent)
        /\ UNCHANGED <<base, seqId, msg>>
    BY <1>8, <1>a DEF Handle, TypeOK, service
  <2>2. /\ Append(delivered[k], Head(channel[k])) \in Seq(1 .. Sent)
        /\ Tail(channel[k]) \in Seq(1 .. Sent)
        /\ Append(delivered[k], Head(channel[k])) \o Tail(channel[k]) = Queued(k)
    <3>1. channel[k] # <<>> /\ channel[k] \in Seq(1 .. Sent) /\ delivered[k] \in Seq(1 .. Sent)
      BY <2>1
    <3> QED  BY <3>1, MoveHead, ZenonT(20) DEF Queued
  <2>3. /\ delivered'[k] = Append(delivered[k], Head(channel[k]))
        /\ \A j \in Kind \ {k} : delivered'[j] = delivered[j]
    BY <1>8, <1>a DEF Handle, TypeOK
  <2>4. CASE pc["message"] = "queueing" /\ kinds[msg] = k
    <3>1. InHand /\ msg \in 1 .. Sent
      BY <1>a, <1>b, <2>4 DEF InHand, IdInv, TypeOK
    <3>2. /\ channel'[k] = Append(Tail(channel[k]), msg)
          /\ \A j \in Kind \ {k} : channel'[j] = channel[j]
          /\ pc'["message"] = "reading"
      BY <1>8, <1>a, <1>b, <2>4 DEF Handle, TypeOK
    <3>3. Queued(k)' = Append(Queued(k), msg)
      <4>1. Append(delivered[k], Head(channel[k])) \o Append(Tail(channel[k]), msg)
              = Append(Append(delivered[k], Head(channel[k])) \o Tail(channel[k]), msg)
        <5> DEFINE d == Append(delivered[k], Head(channel[k]))
                   c == Tail(channel[k])
        <5>1. d \in Seq(1 .. Sent) /\ c \in Seq(1 .. Sent) /\ msg \in 1 .. Sent /\ Sent \in Nat
          BY <1>b, <2>2, <3>1
        <5> HIDE DEF d, c
        <5>2. d \o Append(c, msg) = Append(d \o c, msg)
          BY <5>1, AppendToBoth
        <5> QED  BY <5>2 DEF d, c
      <4> QED  BY <2>2, <2>3, <3>2, <4>1 DEF Queued
    <3>4. \A j \in Kind \ {k} : Queued(j)' = Queued(j)
      BY <2>3, <3>2 DEF Queued
    <3> QED  BY <1>a, <2>1, <2>4, <3>1, <3>2, <3>3, <3>4, QueuePlace
  <2>5. CASE ~(pc["message"] = "queueing" /\ kinds[msg] = k)
    <3>1. /\ channel'[k] = Tail(channel[k]) /\ \A j \in Kind \ {k} : channel'[j] = channel[j]
          /\ pc' = pc
      BY <1>8, <1>a, <2>5 DEF Handle, TypeOK
    <3>2. \A j \in Kind : Queued(j)' = Queued(j)
      BY <2>2, <2>3, <3>1 DEF Queued
    <3> QED  BY <1>a, <2>1, <3>1, <3>2 DEF PlaceInv, InHand
  <2> QED  BY <2>4, <2>5
<1>9. CASE Tick
  <2>1. pc'["message"] = pc["message"]
    BY <1>9, <1>a, <1>b DEF Tick, Lock, TypeOK
  <2> QED  BY <1>3, <1>9, <2>1 DEF Tick, data, service
<1>10. CASE Get
  <2>1. pc'["message"] = pc["message"] \/ (pc["message"] = "locking" /\ pc'["message"] = "holding")
    BY <1>10, <1>a, <1>b DEF Get, Release, TypeOK
  <2> QED  BY <1>3, <1>10, <2>1 DEF Get, data, service, Unqueued
<1>11. CASE WriteAck
  <2>1. pc'["message"] = pc["message"]
    BY <1>11, <1>a, <1>b DEF WriteAck, TypeOK
  <2> QED  BY <1>3, <1>11, <2>1 DEF WriteAck, data
<1>12. ASSUME NEW l \in Loop, End(l) PROVE PlaceInv'
  <2>1. /\ UNCHANGED <<base, msg, delivered, channel>>
        /\ pc'["message"] = IF l = "message" THEN "ended" ELSE pc["message"]
    BY <1>12, <1>a, <1>b DEF End, TypeOK, data, service
  <2>2. CASE l = "message" /\ pc[l] = "holding"
    <3>1. seqId' = (IF IsNew THEN msg - base ELSE seqId) /\ pc'["message"] = "ended"
      BY <1>12, <2>1, <2>2 DEF End
    <3>2. IsNew => msg = base + seqId + 1
      BY <1>a, <1>b, <2>2 DEF IsNew, IdInv
    <3>3. \A n \in base' + 1 .. base' + seqId' : n = msg \/ n \in base + 1 .. base + seqId
      BY <1>b, <2>1, <3>1, <3>2
    <3>4. \A n \in base' + 1 .. base' + seqId' :
            \/ n = msg' /\ pc'["message"] \in Unqueued
            \/ \E k \in Kind : n \in Elements(Queued(k))
      BY <1>c, <2>1, <3>1, <3>3 DEF Unqueued
    <3>5. base + seqId <= base' + seqId' /\ ~InHand'
      BY <1>b, <2>1, <3>1, <3>2 DEF InHand
    <3> QED  BY <1>a, <2>1, <3>4, <3>5, KeepPlace
  <2>3. CASE ~(l = "message" /\ pc[l] = "holding")
    <3>1. seqId' = seqId
      BY <1>12, <2>3, Zenon DEF End
    <3> QED  BY <1>3, <2>1, <3>1
  <2> QED  BY <2>2, <2>3
<1>13. CASE EndHandling
  BY <1>3, <1>13 DEF EndHandling, service
<1>14. CASE UNCHANGED vars
  BY <1>3, <1>14 DEF vars, data, service
<1> QED  BY <1>1, <1>4, <1>5, <1>6, <1>7, <1>8, <1>9, <1>10, <1>11, <1>12, <1>13, <1>14 DEF Next

------------------------------------------------------------------------------
(* The theorems                                                              *)

\* Every step keeps the inductive invariant.
LEMMA StepInv == IInv /\ [Next]_vars => IInv'
BY StepTypes, StepLock, StepId, StepPlace DEF IInv

LEMMA Invariance == Spec => []IInv
BY InitInv, StepInv, PTL DEF Spec

\* Types: queues, ids and messages stay in their sets (the fields and channels of the code).
THEOREM TypeCorrect == Spec => []TypeOK
<1>1. IInv => TypeOK
  BY DEF IInv
<1> QED  BY <1>1, Invariance, PTL

\* The lock comes back: sequence_id's exclusion_lock is held by a loop that runs and will release
\* it whenever both loops run, although a cancellation can leave it taken.
THEOREM LockComesBack == Spec => []LockIsHeldByRunner
<1>1. ASSUME IInv PROVE LockIsHeldByRunner
  <2> SUFFICES ASSUME \A l \in Loop : Live(l), lock # <<>> PROVE pc[Head(lock)] = "holding"
    BY DEF LockIsHeldByRunner
  <2>1. CASE \E l \in Loop : lock = <<l>> /\ pc[l] \in {"holding", "ended"}
    BY <2>1, TupleFacts DEF Live
  <2>2. CASE \E l, m \in Loop : lock = <<l, m>> /\ pc[l] \in {"holding", "ended"}
    BY <2>2, TupleFacts DEF Live
  <2> QED  BY <1>1, <2>1, <2>2 DEF IInv, LockInv
<1> QED  BY <1>1, Invariance, PTL

\* Order: the callbacks of a kind (async_start_server_data_loop, async_start_group_data_loop) see
\* its messages once and in the order of their ids, over all sessions.
THEOREM DeliveryInOrder == Spec => []DeliveredInOrder
<1>1. ASSUME IInv PROVE DeliveredInOrder
  <2> SUFFICES ASSUME NEW k \in Kind PROVE Increasing(delivered[k])
    BY DEF DeliveredInOrder, Increasing
  <2>1. Len(kinds) \in Nat /\ delivered[k] \in Seq(1 .. Len(kinds)) /\ channel[k] \in Seq(1 .. Len(kinds))
    BY <1>1 DEF IInv, TypeOK, Sent
  <2>2. delivered[k] \in Seq(Nat) /\ channel[k] \in Seq(Nat)
    BY <2>1
  <2> QED  BY <1>1, <2>2, PrefixIncreasing DEF IInv, PlaceInv, Queued
<1> QED  BY <1>1, Invariance, PTL

\* No loss: a message whose sequence id the sequence loop has acknowledged was given to the
\* callbacks, is in its channel or is the one that the message loop works on.
THEOREM AcknowledgedIsSafe == Spec => []AckedIsSafe
<1>1. ASSUME IInv PROVE AckedIsSafe
  <2> SUFFICES ASSUME NEW n \in base + 1 .. base + acked, n # msg
               PROVE  \E k \in Kind : n \in Elements(delivered[k]) \cup Elements(channel[k])
    BY DEF AckedIsSafe
  <2>1. n \in base + 1 .. base + seqId
    BY <1>1 DEF IInv, IdInv, TypeOK
  <2>2. PICK k \in Kind : n \in Elements(Queued(k))
    BY <1>1, <2>1 DEF IInv, PlaceInv
  <2>3. Elements(Queued(k)) \subseteq Elements(delivered[k]) \cup Elements(channel[k])
    BY <1>1, ConcatElements DEF IInv, TypeOK, Queued
  <2> QED  BY <2>2, <2>3
<1> QED  BY <1>1, Invariance, PTL

\* Acknowledgements: within a session the service never sees an id smaller than an earlier one.
THEOREM AcknowledgementsGrow == Spec => AcksGrow
<1>1. ASSUME IInv, [Next]_vars PROVE [sessions' = sessions => acked' >= acked]_vars
  <2> USE DEF IInv, TypeOK
  <2> SUFFICES ASSUME sessions' = sessions PROVE acked' >= acked
    OBVIOUS
  <2>1. CASE Open
    BY <1>1, <2>1 DEF Open
  <2>2. CASE WriteAck
    BY <1>1, <2>2 DEF WriteAck, IdInv
  <2>3. CASE UNCHANGED acked
    BY <1>1, <2>3
  <2>4. UNCHANGED acked \/ Open \/ WriteAck
    BY <1>1 DEF Next, vars, service, ReadNew, ReadAgain, Update, Queue, Handle, Tick, Get, End, EndHandling
  <2> QED  BY <2>1, <2>2, <2>3, <2>4
<1> QED  BY <1>1, Invariance, PTL DEF Spec, AcksGrow
=============================================================================
