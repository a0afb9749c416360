------------------------- MODULE UNetExchange_proofs -------------------------
(* Proofs about the two channels of UNetExchange, for every MaxVersion. *)
EXTENDS UNetExchange, TLAPS

LEMMA OtherChannel == \A c \in Channels : Other(c) \in Channels /\ Other(c) # c /\ Other(Other(c)) = c
  BY DEF Other, Channels

\* receiverEvent() leaves the lock alone, or gives it to exactly one of the two.
LEMMA EventEffect ==
  ASSUME NEW c \in Channels, NEW out \in BOOLEAN, ReceiverEvent(c, out),
         prepared \in [Channels -> BOOLEAN], lockUpdate \in [Channels -> BOOLEAN]
  PROVE  /\ prepared' \in [Channels -> BOOLEAN]
         /\ lockUpdate' \in [Channels -> BOOLEAN]
         /\ \/ lockUpdate' = lockUpdate
            \/ \E a \in Channels : lockUpdate' = [x \in Channels |-> x # a]
  BY OtherChannel DEF ReceiverEvent, Activate

LEMMA InitInv == Init => TypeOK /\ OneActive
<1> SUFFICES ASSUME Init PROVE TypeOK /\ OneActive
  OBVIOUS
<1>1. lockUpdate \in [Channels -> BOOLEAN] /\ lockUpdate["r2"] /\ ~lockUpdate["r1"]
  BY DEF Init, Channels
<1>2. TypeOK
  BY <1>1, VersionAssumption DEF Init, TypeOK
<1>3. OneActive
  BY <1>1 DEF OneActive, Active, Other, Channels
<1> QED
  BY <1>2, <1>3

LEMMA TypeStep == TypeOK /\ [Next]_vars => TypeOK'
<1> SUFFICES ASSUME TypeOK, [Next]_vars PROVE TypeOK'
  OBVIOUS
<1> USE VersionAssumption DEF TypeOK
<1>1. CASE DataChange
  BY <1>1 DEF DataChange
<1>2. CASE WatchDog
  BY <1>2 DEF WatchDog, netVars
<1>3. ASSUME NEW c \in Channels, LinkChange(c) PROVE TypeOK'
  BY <1>3 DEF LinkChange
<1>4. ASSUME NEW c \in Channels, ReadEvent(c) PROVE TypeOK'
  <2>1. /\ got' \in [Channels -> 0 .. MaxVersion]
        /\ \A x \in Channels : got'[x] <= data' /\ (unread'[x] => got'[x] # 0)
    BY <1>4 DEF ReadEvent, netVars
  <2> QED
    BY <1>4, <2>1 DEF ReadEvent, netVars
<1>5. ASSUME NEW c \in Channels, UpdateEvent(c) PROVE TypeOK'
  <2>1. /\ prepared' \in [Channels -> BOOLEAN]
        /\ lockUpdate' \in [Channels -> BOOLEAN]
        /\ trTimeout' \in [Channels -> BOOLEAN]
    BY <1>5, EventEffect DEF UpdateEvent, CheckConnection
  <2> QED
    BY <1>5, <2>1 DEF UpdateEvent, netVars
<1>6. ASSUME NEW c \in Channels, RecvTimeout(c) PROVE TypeOK'
  BY <1>6 DEF RecvTimeout, netVars
<1>7. ASSUME NEW c \in Channels, PrepareTimeout(c) PROVE TypeOK'
  BY <1>7 DEF PrepareTimeout, netVars
<1>8. CASE UNCHANGED vars
  BY <1>8 DEF vars
<1> QED
  BY <1>1, <1>2, <1>3, <1>4, <1>5, <1>6, <1>7, <1>8 DEF Next

\* Every step but an updateEvent() leaves the locks alone.
LEMMA LockStep ==
  TypeOK /\ [Next]_vars =>
     \/ lockUpdate' = lockUpdate
     \/ \E c \in Channels : UpdateEvent(c)
  BY DEF Next, vars, DataChange, WatchDog, LinkChange, ReadEvent, RecvTimeout,
         PrepareTimeout, netVars

LEMMA OneActiveStep == TypeOK /\ OneActive /\ [Next]_vars => OneActive'
<1> SUFFICES ASSUME TypeOK, OneActive, [Next]_vars PROVE OneActive'
  OBVIOUS
<1>1. CASE lockUpdate' = lockUpdate
  BY <1>1 DEF OneActive, Active
<1>2. ASSUME NEW a \in Channels, lockUpdate' = [x \in Channels |-> x # a] PROVE OneActive'
  BY <1>2 DEF OneActive, Active, Channels, Other
<1>3. ASSUME NEW c \in Channels, UpdateEvent(c) PROVE OneActive'
  <2>1. \/ lockUpdate' = lockUpdate
        \/ \E a \in Channels : lockUpdate' = [x \in Channels |-> x # a]
    BY <1>3, EventEffect DEF UpdateEvent, CheckConnection, TypeOK
  <2> QED
    BY <2>1, <1>1, <1>2
<1> QED
  BY <1>1, <1>3, LockStep

\* The types of the state of the two channels are kept.
THEOREM ChannelsTyped == Spec => []TypeOK
<1>1. Init => TypeOK
  BY InitInv
<1> QED
  BY <1>1, TypeStep, PTL DEF Spec

\* Whatever the networks, the timers and watchdog commands do, exactly one of the
\* two receivers writes into the shared memory.
THEOREM ExactlyOneActive == Spec => []OneActive
<1>1. Init => TypeOK /\ OneActive
  BY InitInv
<1>2. TypeOK /\ OneActive /\ [Next]_vars => (TypeOK /\ OneActive)'
  BY TypeStep, OneActiveStep
<1> QED
  BY <1>1, <1>2, PTL DEF Spec

\* receiverEvent() takes the lock from a channel only when that channel has timed
\* out and the other one has not: two working channels never alternate.
THEOREM NoJumping == Spec => LeftOnTimeout
<1> DEFINE A == \A c \in Channels : Active(c) /\ ~Active(c)' => recvOut[c] /\ ~recvOut[Other(c)]
<1>1. TypeOK /\ OneActive /\ [Next]_vars => [A]_vars
  <2> SUFFICES ASSUME TypeOK, OneActive, [Next]_vars PROVE A
    OBVIOUS
  <2>1. CASE lockUpdate' = lockUpdate
    BY <2>1 DEF Active
  <2>2. ASSUME NEW c \in Channels, UpdateEvent(c) PROVE A
    <3>1. CASE lockUpdate' = lockUpdate
      BY <3>1, <2>1
    <3>2. ASSUME recvOut[c], isRecvOK(Other(c)), Activate(Other(c)) PROVE A
      BY <3>2, OtherChannel DEF Activate, Active, isRecvOK, TypeOK, Channels, Other
    <3>3. ASSUME ~recvOut[c], ~isRecvOK(Other(c)), Activate(c) PROVE A
      BY <3>3, OtherChannel DEF Activate, Active, isRecvOK, TypeOK, Channels, Other
    <3> QED
      BY <2>2, <3>1, <3>2, <3>3 DEF UpdateEvent, CheckConnection, ReceiverEvent
  <2> QED
    BY <2>1, <2>2, LockStep
<1>2. Spec => []TypeOK /\ []OneActive
  BY ChannelsTyped, ExactlyOneActive
<1> QED
  BY <1>1, <1>2, PTL DEF Spec, LeftOnTimeout
=============================================================================
