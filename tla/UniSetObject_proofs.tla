------------------------ MODULE UniSetObject_proofs ------------------------
(***************************************************************************)
(* Proofs about UniSetObject: its queues lose no message uncounted, keep   *)
(* their order and their bound; a message of the highest priority is       *)
(* overtaken once at most; deactivate() leaves no thread behind.           *)
(***************************************************************************)
EXTENDS UniSetObject, TLAPS

USE LimitsAssumption

\* In the beginning.
LEMMA InitHolds == Init => ObjectInv
  <1> SUFFICES ASSUME Init PROVE ObjectInv
    OBVIOUS
  <1>1. QueueTypeOK
    BY DEF Init, QueueTypeOK
  <1>2. ThreadTypeOK
    BY DEF Init, ThreadTypeOK, Times, SleepFor, ThreadPC, ActivatorPC
  <1>3. MessagesAccounted
    BY DEF Init, MessagesAccounted
  <1>4. InOrder
    BY DEF Init, InOrder, Ordered
  <1>5. LatestKept
    BY DEF Init, LatestKept, Latest
  <1>6. QueueBounded
    <2>1. Len(<<>>) <= InitialLimit
      OBVIOUS
    <2>2. QED
      BY <2>1 DEF Init, QueueBounded
  <1>7. Overtaking
    BY DEF Init, Overtaking, OvertakenOnce
  <1>8. Working
    BY DEF Init, Working
  <1>9. QED
    BY <1>1, <1>2, <1>3, <1>4, <1>5, <1>6, <1>7, <1>8 DEF ObjectInv, TypeOK, QueueInv

\* Appending the next number keeps the order and the absence of gaps.
LEMMA AppendNext ==
  ASSUME NEW q \in Seq(Nat), NEW c \in Nat
  PROVE  /\ Append(q, c + 1) \in Seq(Nat)
         /\ Append(q, c + 1) # <<>>
         /\ Len(Append(q, c + 1)) = Len(q) + 1
         /\ \A l \in Nat : Ordered(q, l, c) => Ordered(Append(q, c + 1), l, c + 1)
         /\ Latest(q, c) => Latest(Append(q, c + 1), c + 1)
  <1> DEFINE a == Append(q, c + 1)
  <1>1. /\ a \in Seq(Nat) /\ Len(a) = Len(q) + 1
        /\ \A i \in 1..Len(q) : a[i] = q[i]
        /\ a[Len(q) + 1] = c + 1
    OBVIOUS
  <1>2. a # <<>>
    BY <1>1
  <1>3. \A i \in 1..Len(a) : i \in 1..Len(q) \/ i = Len(q) + 1
    BY <1>1
  <1>4. \A i \in 1..Len(q) : q[i] \in Nat
    OBVIOUS
  <1> HIDE DEF a
  <1>5. ASSUME NEW l \in Nat, Ordered(q, l, c) PROVE Ordered(a, l, c + 1)
    <2>1. ASSUME NEW i \in 1..Len(a) PROVE l < a[i] /\ a[i] <= c + 1
      <3>1. CASE i \in 1..Len(q)
        <4>1. l < q[i] /\ q[i] <= c
          BY <1>5, <3>1 DEF Ordered
        <4>2. a[i] = q[i] /\ q[i] \in Nat
          BY <1>1, <1>4, <3>1
        <4>3. QED
          BY <4>1, <4>2
      <3>2. CASE i = Len(q) + 1
        BY <1>1, <1>5, <3>2 DEF Ordered
      <3>3. QED
        BY <1>3, <3>1, <3>2
    <2>2. ASSUME NEW i \in 1..Len(a), NEW j \in 1..Len(a), i < j PROVE a[i] < a[j]
      <3>1. i \in 1..Len(q)
        BY <1>1, <2>2
      <3>2. a[i] = q[i] /\ q[i] <= c /\ q[i] \in Nat
        BY <1>1, <1>4, <1>5, <3>1 DEF Ordered
      <3>3. CASE j \in 1..Len(q)
        BY <1>1, <1>5, <2>2, <3>1, <3>2, <3>3 DEF Ordered
      <3>4. CASE j = Len(q) + 1
        BY <1>1, <3>2, <3>4
      <3>5. QED
        BY <1>3, <3>3, <3>4
    <2>3. l <= c + 1
      BY <1>5 DEF Ordered
    <2>4. QED
      BY <2>1, <2>2, <2>3 DEF Ordered
  <1>6. ASSUME Latest(q, c) PROVE Latest(a, c + 1)
    <2> SUFFICES ASSUME NEW i \in 1..Len(a) PROVE a[i] = (c + 1) - Len(a) + i
      BY DEF Latest
    <2>1. Len(q) \in Nat /\ Len(a) = Len(q) + 1 /\ i \in Int
      BY <1>1
    <2>2. CASE i \in 1..Len(q)
      <3>1. a[i] = q[i]
        BY <1>1, <2>2
      <3>2. q[i] = c - Len(q) + i
        BY <1>6, <2>2 DEF Latest
      <3>3. QED
        BY <2>1, <3>1, <3>2
    <2>3. CASE i = Len(q) + 1
      <3>1. a[i] = c + 1
        BY <1>1, <2>3
      <3>2. QED
        BY <2>1, <2>3, <3>1
    <2>4. QED
      BY <1>3, <2>2, <2>3
  <1>7. QED
    BY <1>1, <1>2, <1>5, <1>6 DEF a

\* Dropping the first message keeps them too.
LEMMA TailKeeps ==
  ASSUME NEW q \in Seq(Nat), q # <<>>, NEW c \in Nat
  PROVE  /\ Tail(q) \in Seq(Nat)
         /\ Len(Tail(q)) = Len(q) - 1
         /\ q[1] \in Nat
         /\ \A l \in Nat : Ordered(q, l, c) => Ordered(Tail(q), l, c)
                                            /\ Ordered(Tail(q), q[1], c)
         /\ Latest(q, c) => Latest(Tail(q), c)
  <1> DEFINE b == Tail(q)
  <1>1. /\ b \in Seq(Nat) /\ Len(b) = Len(q) - 1 /\ Len(q) \in Nat /\ Len(q) >= 1
        /\ \A i \in 1..Len(b) : b[i] = q[i + 1]
    OBVIOUS
  <1>2. \A i \in 1..Len(q) : q[i] \in Nat
    OBVIOUS
  <1>3. \A i \in 1..Len(b) : i + 1 \in 1..Len(q) /\ 1 < i + 1
    BY <1>1
  <1>4. 1 \in 1..Len(q)
    BY <1>1
  <1> HIDE DEF b
  <1>5. ASSUME NEW l \in Nat, Ordered(q, l, c)
        PROVE  Ordered(b, l, c) /\ Ordered(b, q[1], c)
    <2>1. ASSUME NEW i \in 1..Len(b)
          PROVE  l < b[i] /\ q[1] < b[i] /\ b[i] <= c
      BY <1>1, <1>2, <1>3, <1>4, <1>5 DEF Ordered
    <2>2. ASSUME NEW i \in 1..Len(b), NEW j \in 1..Len(b), i < j PROVE b[i] < b[j]
      <3>1. b[i] = q[i + 1] /\ b[j] = q[j + 1] /\ i + 1 < j + 1
        BY <1>1, <2>2
      <3>2. i + 1 \in 1..Len(q) /\ j + 1 \in 1..Len(q)
        BY <1>3
      <3>3. QED
        BY <1>5, <3>1, <3>2 DEF Ordered
    <2>3. l <= c /\ q[1] <= c
      BY <1>4, <1>5 DEF Ordered
    <2>4. QED
      BY <2>1, <2>2, <2>3 DEF Ordered
  <1>6. ASSUME Latest(q, c) PROVE Latest(b, c)
    BY <1>1, <1>2, <1>3, <1>6 DEF Latest
  <1>7. QED
    BY <1>1, <1>2, <1>4, <1>5, <1>6 DEF b

\* What MQMutex::push makes of one queue.
LEMMA PushedKeeps ==
  ASSUME NEW p \in Priorities, NEW q \in Seq(Nat), NEW c \in Nat
  PROVE  /\ Pushed(p, q, c + 1) \in Seq(Nat)
         /\ q # <<>> => Pushed(p, q, c + 1) # <<>>
         /\ Len(Pushed(p, q, c + 1)) = IF Full(q) THEN Len(q) ELSE Len(q) + 1
         /\ \A l \in Nat : Ordered(q, l, c) => Ordered(Pushed(p, q, c + 1), l, c + 1)
         /\ LostStrategy[p] = "lostOldData" /\ Latest(q, c)
               => Latest(Pushed(p, q, c + 1), c + 1)
  <1>1. CASE ~Full(q)
    BY <1>1, AppendNext DEF Pushed
  <1>2. CASE Full(q)
    <2>1. CASE LostStrategy[p] = "lostNewData" \/ q = <<>>
      <3>1. \A i \in 1..Len(q) : q[i] \in Nat
        OBVIOUS
      <3>2. ASSUME NEW l \in Nat, Ordered(q, l, c) PROVE Ordered(q, l, c + 1)
        BY <3>1, <3>2 DEF Ordered
      <3>3. q = <<>> => Latest(q, c + 1)
        BY DEF Latest
      <3>4. Pushed(p, q, c + 1) = q
        BY <1>2, <2>1 DEF Pushed
      <3>5. QED
        BY <1>2, <2>1, <3>2, <3>3, <3>4
    <2>2. CASE LostStrategy[p] # "lostNewData" /\ q # <<>>
      <3>1. Pushed(p, q, c + 1) = Append(Tail(q), c + 1)
        BY <1>2, <2>2 DEF Pushed
      <3>2. Tail(q) \in Seq(Nat) /\ Len(Tail(q)) = Len(q) - 1 /\ Len(q) \in Nat
        BY <2>2, TailKeeps
      <3>3. Len(Append(Tail(q), c + 1)) = Len(q)
        BY <3>2, AppendNext
      <3>4. ASSUME NEW l \in Nat, Ordered(q, l, c)
            PROVE  Ordered(Append(Tail(q), c + 1), l, c + 1)
        BY <2>2, <3>2, <3>4, TailKeeps, AppendNext
      <3>5. ASSUME Latest(q, c) PROVE Latest(Append(Tail(q), c + 1), c + 1)
        BY <2>2, <3>2, <3>5, TailKeeps, AppendNext
      <3>6. QED
        BY <1>2, <3>1, <3>2, <3>3, <3>4, <3>5, AppendNext
    <2>3. QED
      BY <2>1, <2>2
  <1>3. QED
    BY <1>1, <1>2

\* MQMutex::push, one queue at a time.
LEMMA PushEffect ==
  ASSUME QueueTypeOK, NEW p \in Priorities, QueuePush(p), NEW o \in Priorities
  PROVE  /\ o # p => mq'[o] = mq[o] /\ cnt'[o] = cnt[o] /\ stLost'[o] = stLost[o]
         /\ o = p => /\ mq'[o] = Pushed(o, mq[o], cnt[o] + 1)
                     /\ cnt'[o] = cnt[o] + 1
                     /\ stLost'[o] = IF Full(mq[o]) THEN stLost[o] + 1 ELSE stLost[o]
         /\ limit' = limit /\ last' = last /\ taken' = taken
  BY DEF QueueTypeOK, QueuePush

\* A push keeps the types of the queues.
LEMMA PushTypes ==
  ASSUME QueueTypeOK, NEW p \in Priorities, QueuePush(p)
  PROVE  QueueTypeOK'
  <1>1. mq[p] \in Seq(Nat) /\ cnt[p] \in Nat /\ stLost[p] \in Nat
    BY DEF QueueTypeOK
  <1>2. mq' \in [Priorities -> Seq(Nat)]
    <2>1. Pushed(p, mq[p], cnt[p] + 1) \in Seq(Nat)
      BY <1>1, PushedKeeps
    <2>2. QED
      BY <2>1 DEF QueueTypeOK, QueuePush
  <1>3. cnt' \in [Priorities -> Nat] /\ stLost' \in [Priorities -> Nat]
    BY <1>1 DEF QueueTypeOK, QueuePush
  <1>4. QED
    BY <1>2, <1>3 DEF QueueTypeOK, QueuePush

\* A push keeps what the queues promise.
LEMMA PushKeeps ==
  ASSUME QueueTypeOK, QueueInv, NEW p \in Priorities, QueuePush(p)
  PROVE  QueueInv'
  <1>1. \A o \in Priorities : /\ mq[o] \in Seq(Nat) /\ Len(mq[o]) \in Nat
                              /\ cnt[o] \in Nat /\ last[o] \in Nat
                              /\ taken[o] \in Nat /\ stLost[o] \in Nat
    BY DEF QueueTypeOK
  <1> DEFINE new == Pushed(p, mq[p], cnt[p] + 1)
  <1>p. /\ Len(new) = IF Full(mq[p]) THEN Len(mq[p]) ELSE Len(mq[p]) + 1
        /\ Ordered(mq[p], last[p], cnt[p]) => Ordered(new, last[p], cnt[p] + 1)
        /\ LostStrategy[p] = "lostOldData" /\ Latest(mq[p], cnt[p])
              => Latest(new, cnt[p] + 1)
    BY <1>1, PushedKeeps
  <1>q. /\ mq'[p] = new /\ cnt'[p] = cnt[p] + 1
        /\ stLost'[p] = IF Full(mq[p]) THEN stLost[p] + 1 ELSE stLost[p]
        /\ last' = last /\ taken' = taken
    BY PushEffect
  <1>o. \A o \in Priorities : o # p =>
           mq'[o] = mq[o] /\ cnt'[o] = cnt[o] /\ stLost'[o] = stLost[o]
    BY PushEffect
  <1> HIDE DEF new
  <1>2. MessagesAccounted'
    <2> SUFFICES ASSUME NEW o \in Priorities
                 PROVE  cnt'[o] = Len(mq'[o]) + taken'[o] + stLost'[o]
      BY DEF MessagesAccounted
    <2>1. cnt[o] = Len(mq[o]) + taken[o] + stLost[o]
      BY DEF QueueInv, MessagesAccounted
    <2>2. CASE o = p
      <3>1. Len(mq[p]) \in Nat /\ taken[p] \in Nat /\ stLost[p] \in Nat
        BY <1>1
      <3>2. /\ taken'[p] = taken[p] /\ Len(mq'[p]) = Len(new)
            /\ cnt'[p] = cnt[p] + 1
        BY <1>q
      <3>3. CASE Full(mq[p])
        <4>1. Len(mq'[p]) = Len(mq[p]) /\ stLost'[p] = stLost[p] + 1
          BY <1>p, <1>q, <3>2, <3>3
        <4>2. ASSUME NEW n \in Nat, NEW k \in Nat, NEW z \in Nat
              PROVE  n + k + z + 1 = n + k + (z + 1)
          OBVIOUS
        <4>3. cnt'[p] = Len(mq[p]) + taken[p] + stLost[p] + 1
          BY <2>1, <2>2, <3>2
        <4>4. cnt'[p] = Len(mq[p]) + taken[p] + (stLost[p] + 1)
          BY <3>1, <4>2, <4>3
        <4>5. QED
          BY <2>2, <3>2, <4>1, <4>4
      <3>4. CASE ~Full(mq[p])
        <4>1. Len(mq'[p]) = Len(mq[p]) + 1 /\ stLost'[p] = stLost[p]
          BY <1>p, <1>q, <3>2, <3>4
        <4>2. QED
          BY <2>1, <2>2, <3>1, <3>2, <4>1
      <3>5. QED
        BY <3>3, <3>4
    <2>3. CASE o # p
      BY <1>o, <1>q, <2>1, <2>3
    <2>4. QED
      BY <2>2, <2>3
  <1>3. InOrder'
    <2> SUFFICES ASSUME NEW o \in Priorities
                 PROVE  Ordered(mq'[o], last'[o], cnt'[o])
      BY DEF InOrder, Ordered
    <2>1. Ordered(mq[o], last[o], cnt[o])
      BY DEF QueueInv, InOrder
    <2>2. QED
      BY <1>p, <1>q, <1>o, <2>1
  <1>4. LatestKept'
    <2> SUFFICES ASSUME NEW o \in Priorities, LostStrategy[o] = "lostOldData"
                 PROVE  Latest(mq'[o], cnt'[o])
      BY DEF LatestKept, Latest
    <2>1. Latest(mq[o], cnt[o])
      BY DEF QueueInv, LatestKept
    <2>2. QED
      BY <1>p, <1>q, <1>o, <2>1
  <1>5. QueueBounded'
    <2> SUFFICES ASSUME NEW o \in Priorities
                 PROVE  \E n \in Limits \cup {InitialLimit} : Len(mq'[o]) <= n
      BY DEF QueueBounded
    <2>1. CASE o # p \/ Full(mq[o])
      <3>1. Len(mq'[o]) = Len(mq[o])
        BY <1>p, <1>q, <1>o, <2>1
      <3>2. QED
        BY <3>1 DEF QueueInv, QueueBounded
    <2>2. CASE o = p /\ ~Full(mq[o])
      <3>1. Len(mq'[o]) = Len(mq[o]) + 1
        BY <1>p, <1>q, <2>2
      <3>2. limit \in Limits \cup {InitialLimit} /\ limit \in Nat
        BY DEF QueueTypeOK
      <3>3. QED
        BY <1>1, <2>2, <3>1, <3>2 DEF Full
    <2>3. QED
      BY <2>1, <2>2
  <1>6. QED
    BY <1>2, <1>3, <1>4, <1>5 DEF QueueInv

\* A push empties no queue.
LEMMA PushFills ==
  ASSUME QueueTypeOK, NEW p \in Priorities, QueuePush(p), NEW o \in Priorities,
         mq[o] # <<>>
  PROVE  mq'[o] # <<>>
  <1>1. mq[o] \in Seq(Nat) /\ cnt[o] \in Nat
    BY DEF QueueTypeOK
  <1>2. CASE o = p
    <2>1. Pushed(o, mq[o], cnt[o] + 1) # <<>>
      BY <1>1, PushedKeeps
    <2>2. QED
      BY <1>2, <2>1, PushEffect
  <1>3. CASE o # p
    BY <1>3, PushEffect
  <1>4. QED
    BY <1>2, <1>3

\* Taking a message keeps the types and what the queues promise.
LEMMA TopKeeps ==
  ASSUME QueueTypeOK, QueueInv, NEW p \in Priorities, mq[p] # <<>>, QueueTop(p)
  PROVE  QueueTypeOK' /\ QueueInv'
  <1>1. \A o \in Priorities : /\ mq[o] \in Seq(Nat) /\ Len(mq[o]) \in Nat
                              /\ cnt[o] \in Nat /\ last[o] \in Nat
                              /\ taken[o] \in Nat /\ stLost[o] \in Nat
    BY DEF QueueTypeOK
  <1>2. ASSUME NEW o \in Priorities
        PROVE  /\ o # p => /\ mq'[o] = mq[o] /\ last'[o] = last[o]
                           /\ taken'[o] = taken[o]
               /\ o = p => /\ mq'[o] = Tail(mq[o]) /\ last'[o] = mq[o][1]
                           /\ taken'[o] = taken[o] + 1
               /\ limit' = limit /\ stLost' = stLost /\ cnt' = cnt
    BY DEF QueueTop, QueueTypeOK
  <1>3. /\ Tail(mq[p]) \in Seq(Nat) /\ mq[p][1] \in Nat
        /\ Len(Tail(mq[p])) = Len(mq[p]) - 1
        /\ Ordered(mq[p], last[p], cnt[p]) => Ordered(Tail(mq[p]), mq[p][1], cnt[p])
        /\ Latest(mq[p], cnt[p]) => Latest(Tail(mq[p]), cnt[p])
    BY <1>1, TailKeeps
  <1>4. QueueTypeOK'
    <2>1. mq' \in [Priorities -> Seq(Nat)] /\ last' \in [Priorities -> Nat]
      BY <1>3 DEF QueueTop, QueueTypeOK
    <2>2. taken' \in [Priorities -> Nat] /\ overtaken' \in Nat
      BY DEF QueueTop, QueueTypeOK
    <2>3. QED
      BY <2>1, <2>2 DEF QueueTop, QueueTypeOK
  <1>5. MessagesAccounted'
    <2> SUFFICES ASSUME NEW o \in Priorities
                 PROVE  cnt'[o] = Len(mq'[o]) + taken'[o] + stLost'[o]
      BY DEF MessagesAccounted
    <2>1. cnt[o] = Len(mq[o]) + taken[o] + stLost[o]
      BY DEF QueueInv, MessagesAccounted
    <2>2. CASE o = p
      <3>1. Len(mq'[o]) = Len(mq[o]) - 1 /\ taken'[o] = taken[o] + 1
        BY <1>2, <1>3, <2>2
      <3>2. cnt'[o] = cnt[o] /\ stLost'[o] = stLost[o]
        BY <1>2
      <3>3. Len(mq[o]) \in Nat /\ taken[o] \in Nat /\ stLost[o] \in Nat
        BY <1>1
      <3>4. QED
        BY <2>1, <3>1, <3>2, <3>3
    <2>3. CASE o # p
      BY <1>2, <2>1, <2>3
    <2>4. QED
      BY <2>2, <2>3
  <1>6. InOrder'
    <2> SUFFICES ASSUME NEW o \in Priorities
                 PROVE  Ordered(mq'[o], last'[o], cnt'[o])
      BY DEF InOrder, Ordered
    <2>1. Ordered(mq[o], last[o], cnt[o])
      BY DEF QueueInv, InOrder
    <2>2. QED
      BY <1>2, <1>3, <2>1
  <1>7. LatestKept'
    <2> SUFFICES ASSUME NEW o \in Priorities, LostStrategy[o] = "lostOldData"
                 PROVE  Latest(mq'[o], cnt'[o])
      BY DEF LatestKept, Latest
    <2>1. Latest(mq[o], cnt[o])
      BY DEF QueueInv, LatestKept
    <2>2. QED
      BY <1>2, <1>3, <2>1
  <1>8. QueueBounded'
    <2> SUFFICES ASSUME NEW o \in Priorities
                 PROVE  \E n \in Limits \cup {InitialLimit} : Len(mq'[o]) <= n
      BY DEF QueueBounded
    <2>1. Len(mq'[o]) <= Len(mq[o]) /\ Len(mq'[o]) \in Nat
      <3>1. CASE o = p
        <4>1. Len(mq'[o]) = Len(mq[o]) - 1
          BY <1>2, <1>3, <3>1
        <4>2. mq'[o] \in Seq(Nat)
          BY <1>4 DEF QueueTypeOK
        <4>3. QED
          BY <1>1, <4>1, <4>2
      <3>2. CASE o # p
        BY <1>1, <1>2, <3>2
      <3>3. QED
        BY <3>1, <3>2
    <2>2. PICK n \in Limits \cup {InitialLimit} : Len(mq[o]) <= n
      BY DEF QueueInv, QueueBounded
    <2>3. n \in Nat
      OBVIOUS
    <2>4. QED
      BY <1>1, <2>1, <2>2, <2>3
  <1>9. QED
    BY <1>4, <1>5, <1>6, <1>7, <1>8 DEF QueueInv

\* Nothing happens to the queues.
LEMMA QueuesUnchanged ==
  ASSUME QueueTypeOK, QueueInv, UNCHANGED queueVars
  PROVE  QueueTypeOK' /\ QueueInv'
  BY DEF queueVars, QueueTypeOK, QueueInv, MessagesAccounted, InOrder,
         LatestKept, QueueBounded, Ordered, Latest

\* Every step keeps the types and promises of the queues.
LEMMA QueueStep ==
  ASSUME QueueTypeOK, QueueInv, [Next]_vars
  PROVE  QueueTypeOK' /\ QueueInv'
  <1>1. ASSUME NEW r \in Producers, NEW p \in Priorities, Push(r, p)
        PROVE  QueueTypeOK' /\ QueueInv'
    BY <1>1, PushTypes, PushKeeps DEF Push
  <1>2. CASE CheckTimers
    BY <1>2, PushTypes, PushKeeps, QueuesUnchanged DEF CheckTimers
  <1>3. ASSUME NEW p \in Priorities, Receive(p)
        PROVE  QueueTypeOK' /\ QueueInv'
    BY <1>3, TopKeeps DEF Receive
  <1>4. ASSUME NEW n \in Limits, SetMaxSize(n)
        PROVE  QueueTypeOK' /\ QueueInv'
    BY <1>4 DEF SetMaxSize, QueueTypeOK, QueueInv, MessagesAccounted, InOrder,
                LatestKept, QueueBounded, Ordered, Latest
  <1>5. CASE UNCHANGED queueVars
    BY <1>5, QueuesUnchanged
  <1>6. \/ \E r \in Producers, p \in Priorities : Push(r, p)
        \/ CheckTimers
        \/ \E p \in Priorities : Receive(p)
        \/ \E n \in Limits : SetMaxSize(n)
        \/ UNCHANGED queueVars
    BY DEF Next, vars, ThreadStep, DeactivateStep, AskTimer, TermWaiting,
           ThreadStart, Loop, WaitEnter, WaitLeave, Process, SkipTimers,
           AssignSleepTime, ThreadExit, ThreadEnd, ReceiveNothing, Activate,
           Deactivate, DeactivateTerminate, WaitFinish, Join
  <1>7. QED
    BY <1>1, <1>2, <1>3, <1>4, <1>5, <1>6

\* Every step keeps the types of the threads.
LEMMA ThreadTypes ==
  ASSUME QueueTypeOK, ThreadTypeOK, [Next]_vars
  PROVE  ThreadTypeOK'
  <1> USE DEF ThreadTypeOK, ThreadPC, ActivatorPC, Times
  <1>1. ASSUME NEW r \in Producers, NEW p \in Priorities, Push(r, p)
        PROVE  ThreadTypeOK'
    BY <1>1 DEF Push, threadVars, timerVars, lifeVars
  <1>2. ASSUME NEW r \in Producers, NEW on \in BOOLEAN, AskTimer(r, on)
        PROVE  ThreadTypeOK'
    BY <1>2 DEF AskTimer, OrderTimer, SleepFor, threadVars, lifeVars
  <1>3. ASSUME NEW r \in Producers, TermWaiting(r)
        PROVE  ThreadTypeOK'
    BY <1>3 DEF TermWaiting, threadVars, timerVars, lifeVars
  <1>4. ASSUME NEW n \in Limits, SetMaxSize(n)
        PROVE  ThreadTypeOK'
    BY <1>4 DEF SetMaxSize, threadVars, timerVars, lifeVars
  <1>5. CASE ThreadStart \/ Loop \/ WaitEnter \/ WaitLeave
    BY <1>5 DEF ThreadStart, Loop, WaitEnter, WaitLeave, FirstQueue, timerVars, lifeVars
  <1>6. CASE Process \/ SkipTimers
    BY <1>6 DEF Process, SkipTimers, OrderTimer, SleepFor, timerVars, lifeVars
  <1>7. CASE CheckTimers
    BY <1>7 DEF CheckTimers, SleepFor, timerVars, lifeVars
  <1>8. CASE AssignSleepTime \/ ThreadExit \/ ThreadEnd
    BY <1>8 DEF AssignSleepTime, ThreadExit, ThreadEnd, timerVars, lifeVars
  <1>9. ASSUME NEW p \in Priorities, Receive(p) \/ ReceiveNothing(p)
        PROVE  ThreadTypeOK'
    BY <1>9 DEF Receive, ReceiveNothing, Following, timerVars, lifeVars
  <1>10. CASE Activate \/ Deactivate \/ DeactivateStep
    <2>1. CASE Activate
      BY <2>1 DEF Activate, timerVars
    <2>2. CASE Deactivate
      BY <2>2 DEF Deactivate, threadVars, timerVars
    <2>3. CASE DeactivateTerminate
      BY <2>3 DEF DeactivateTerminate, threadVars, timerVars
    <2>4. CASE WaitFinish \/ Join
      BY <2>4 DEF WaitFinish, Join, threadVars, timerVars
    <2>5. QED
      BY <1>10, <2>1, <2>2, <2>3, <2>4 DEF DeactivateStep
  <1>11. CASE UNCHANGED vars
    BY <1>11 DEF vars, threadVars, timerVars, lifeVars
  <1>12. QED
    BY <1>1, <1>2, <1>3, <1>4, <1>5, <1>6, <1>7, <1>8, <1>9, <1>10, <1>11
    DEF Next, ThreadStep

\* A message of the highest priority is overtaken once at most.
LEMMA OvertakingStep ==
  ASSUME QueueTypeOK, Overtaking, [Next]_vars
  PROVE  Overtaking'
  <1> USE DEF Overtaking, OvertakenOnce
  <1>0. "Hi" \in Priorities
    BY DEF Priorities
  <1>1. ASSUME NEW r \in Producers, NEW p \in Priorities, Push(r, p)
        PROVE  Overtaking'
    <2>1. overtaken' = overtaken /\ pc' = pc
      BY <1>1 DEF Push, QueuePush, threadVars
    <2>2. mq["Hi"] # <<>> => mq'["Hi"] # <<>>
      BY <1>0, <1>1, PushFills DEF Push
    <2>3. QED
      BY <2>1, <2>2
  <1>2. CASE CheckTimers
    <2>1. overtaken' = overtaken /\ pc' = "assign"
      BY <1>2 DEF CheckTimers, QueuePush, queueVars
    <2>2. mq["Hi"] # <<>> => mq'["Hi"] # <<>>
      <3>1. CASE UNCHANGED queueVars
        BY <3>1 DEF queueVars
      <3>2. ASSUME NEW p \in Priorities, QueuePush(p)
            PROVE  mq["Hi"] # <<>> => mq'["Hi"] # <<>>
        BY <1>0, <3>2, PushFills
      <3>3. QED
        BY <1>2, <3>1, <3>2 DEF CheckTimers
    <2>3. QED
      BY <2>1, <2>2
  <1>3. ASSUME NEW p \in Priorities, Receive(p)
        PROVE  Overtaking'
    <2>0. pc = p /\ mq[p] # <<>> /\ QueueTop(p) /\ pc' = "process"
      BY <1>3 DEF Receive
    <2>1. CASE p = "Hi"
      BY <2>0, <2>1 DEF QueueTop
    <2>2. CASE p # "Hi"
      <3>1. overtaken = 0
        BY <2>0, <2>2 DEF Priorities
      <3>2. mq'["Hi"] = mq["Hi"]
        BY <1>0, <2>0, <2>2 DEF QueueTop, QueueTypeOK
      <3>3. overtaken' = IF mq["Hi"] # <<>> THEN 1 ELSE 0
        BY <2>0, <2>2, <3>1 DEF QueueTop
      <3>4. QED
        BY <2>0, <3>2, <3>3
    <2>3. QED
      BY <2>1, <2>2
  <1>4. ASSUME NEW p \in Priorities, ReceiveNothing(p)
        PROVE  Overtaking'
    <2>1. /\ pc = p /\ mq[p] = <<>> /\ UNCHANGED queueVars
          /\ pc' \in {"Medium", "Low", "check", "enter"}
      BY <1>4 DEF ReceiveNothing, Following
    <2>2. overtaken = 0 \/ pc' \notin {"Medium", "Low"}
      <3>1. CASE p = "Hi"
        BY <2>1, <3>1 DEF QueueTypeOK
      <3>2. CASE p # "Hi"
        BY <2>1, <3>2 DEF Priorities
      <3>3. QED
        BY <3>1, <3>2
    <2>3. QED
      BY <2>1, <2>2 DEF queueVars
  <1>5. CASE UNCHANGED <<mq, overtaken>> /\ pc' \notin {"Medium", "Low"}
    BY <1>5
  <1>6. CASE UNCHANGED <<mq, overtaken, pc>>
    BY <1>6
  <1>7. \/ \E r \in Producers, p \in Priorities : Push(r, p)
        \/ CheckTimers
        \/ \E p \in Priorities : Receive(p) \/ ReceiveNothing(p)
        \/ UNCHANGED <<mq, overtaken>> /\ pc' \notin {"Medium", "Low"}
        \/ UNCHANGED <<mq, overtaken, pc>>
    <2>1. CASE UNCHANGED vars
      BY <2>1 DEF vars, queueVars, threadVars
    <2>2. CASE ThreadStep
      BY <2>2 DEF ThreadStep, ThreadStart, Loop, FirstQueue, WaitEnter, WaitLeave, Process,
                  SkipTimers, AssignSleepTime, ThreadExit, ThreadEnd, queueVars
    <2>3. CASE Activate \/ Deactivate \/ DeactivateStep
      BY <2>3 DEF Activate, Deactivate, DeactivateStep, DeactivateTerminate,
                  WaitFinish, Join, queueVars, threadVars
    <2>4. ASSUME NEW r \in Producers,
                 (\E on \in BOOLEAN : AskTimer(r, on)) \/ TermWaiting(r)
          PROVE  UNCHANGED <<mq, overtaken, pc>>
      BY <2>4 DEF AskTimer, TermWaiting, queueVars, threadVars
    <2>5. ASSUME NEW n \in Limits, SetMaxSize(n)
          PROVE  UNCHANGED <<mq, overtaken, pc>>
      BY <2>5 DEF SetMaxSize, threadVars
    <2>6. QED
      BY <2>1, <2>2, <2>3, <2>4, <2>5 DEF Next
  <1>8. QED
    BY <1>1, <1>2, <1>3, <1>4, <1>5, <1>6, <1>7

\* a_working follows the thread, and an object that is off has none.
LEMMA WorkingStep ==
  ASSUME ThreadTypeOK, Working, [Next]_vars
  PROVE  Working'
  <1> USE DEF Working
  <1>1. CASE UNCHANGED <<pc, a_working, apc>>
    BY <1>1
  <1>2. CASE ThreadStep
    <2>1. CASE ThreadExit \/ ThreadEnd
      BY <2>1 DEF ThreadExit, ThreadEnd, lifeVars
    <2>2. CASE ThreadStart
      BY <2>2 DEF ThreadStart
    <2>3. CASE \/ Loop \/ WaitEnter \/ WaitLeave \/ Process
               \/ SkipTimers \/ CheckTimers \/ AssignSleepTime
      <3>1. /\ pc \notin {"none", "ended"} /\ pc' \notin {"none", "ended"}
            /\ UNCHANGED lifeVars
        BY <2>3 DEF Loop, FirstQueue, WaitEnter, WaitLeave, Process, SkipTimers, CheckTimers,
                    AssignSleepTime
      <3>2. QED
        BY <3>1 DEF lifeVars
    <2>4. ASSUME NEW p \in Priorities, Receive(p) \/ ReceiveNothing(p)
          PROVE  Working'
      <3>1. /\ pc \notin {"none", "ended"} /\ pc' \notin {"none", "ended"}
            /\ UNCHANGED lifeVars
        BY <2>4 DEF Receive, ReceiveNothing, Following, Priorities
      <3>2. QED
        BY <3>1 DEF lifeVars
    <2>5. QED
      BY <1>2, <2>1, <2>2, <2>3, <2>4 DEF ThreadStep
  <1>3. CASE Activate
    BY <1>3 DEF Activate
  <1>4. CASE Join
    BY <1>4 DEF Join, threadVars
  <1>5. CASE Deactivate \/ DeactivateTerminate \/ WaitFinish
    BY <1>5 DEF Deactivate, DeactivateTerminate, WaitFinish, threadVars
  <1>6. ASSUME NEW r \in Producers,
               \/ \E p \in Priorities : Push(r, p)
               \/ \E on \in BOOLEAN : AskTimer(r, on)
               \/ TermWaiting(r)
        PROVE  UNCHANGED <<pc, a_working, apc>>
    BY <1>6 DEF Push, AskTimer, TermWaiting, threadVars, lifeVars
  <1>7. ASSUME NEW n \in Limits, SetMaxSize(n)
        PROVE  UNCHANGED <<pc, a_working, apc>>
    BY <1>7 DEF SetMaxSize, threadVars, lifeVars
  <1>8. CASE UNCHANGED vars
    BY <1>8 DEF vars, threadVars, lifeVars
  <1>9. QED
    BY <1>1, <1>2, <1>3, <1>4, <1>5, <1>6, <1>7, <1>8 DEF Next, DeactivateStep
-----------------------------------------------------------------------------
\* The inductive invariant of the message queues and of the message thread of
\* UniSetObject, with its types.
THEOREM ObjectInvariant == Spec => []ObjectInv
  <1>1. ObjectInv /\ [Next]_vars => ObjectInv'
    BY QueueStep, ThreadTypes, OvertakingStep, WorkingStep DEF ObjectInv, TypeOK
  <1>2. QED
    BY <1>1, InitHolds, PTL DEF Spec

\* The queues, the counts of lost messages and the places of the threads keep
\* their types, whatever sizes setParams() gives to the queues.
THEOREM ObjectTyped == Spec => []TypeOK
  <1>1. ObjectInv => TypeOK
    BY DEF ObjectInv
  <1>2. QED
    BY <1>1, ObjectInvariant, PTL

\* A queue stays within the largest limit it may have had (MQMutex::push), also
\* after the limit was reduced.
THEOREM QueueAlwaysBounded == Spec => []QueueBounded
  <1>1. ObjectInv => QueueBounded
    BY DEF ObjectInv, QueueInv
  <1>2. QED
    BY <1>1, ObjectInvariant, PTL

\* Whatever the limits and whoever pushes: every message pushed is in its
\* queue, was taken, or is counted in stCountOfLostMessages (MQMutex::push).
THEOREM NoMessageUncounted == Spec => []MessagesAccounted
  <1>1. ObjectInv => MessagesAccounted
    BY DEF ObjectInv, QueueInv
  <1>2. QED
    BY <1>1, ObjectInvariant, PTL

\* Messages of one priority leave their queue in the order of the pushes
\* (MQMutex::push and MQMutex::top).
THEOREM OrderKept == Spec => []InOrder
  <1>1. ObjectInv => InOrder
    BY DEF ObjectInv, QueueInv
  <1>2. QED
    BY <1>1, ObjectInvariant, PTL

\* With lostOldData a queue holds the latest messages (MQMutex::push).
THEOREM LatestAlwaysKept == Spec => []LatestKept
  <1>1. ObjectInv => LatestKept
    BY DEF ObjectInv, QueueInv
  <1>2. QED
    BY <1>1, ObjectInvariant, PTL

\* UniSetObject::receiveMessage takes at most one message of a lower priority
\* while one of the highest priority waits.
THEOREM AtMostOneOvertakes == Spec => []OvertakenOnce
  <1>1. ObjectInv => OvertakenOnce
    BY DEF ObjectInv, Overtaking
  <1>2. QED
    BY <1>1, ObjectInvariant, PTL

\* UniSetObject::deactivate leaves no message thread behind.
THEOREM ThreadIsGone == Spec => []NoThreadLeft
  <1>1. ObjectInv => NoThreadLeft
    BY DEF ObjectInv, TypeOK, ThreadTypeOK, Working, NoThreadLeft
  <1>2. QED
    BY <1>1, ObjectInvariant, PTL
=============================================================================
