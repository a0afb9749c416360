---------------------------- MODULE UNetExchange ----------------------------
(***************************************************************************)
(* The two channels of a UNet exchange with one peer.  The peer sends the  *)
(* same data into both networks; both receivers read, and the one that is  *)
(* not locked writes into the shared memory.  receiverEvent() moves the    *)
(* lock when a receiver reports that its channel timed out or came back.   *)
(*                                                                         *)
(* The receivers share one event loop, so updateEvent(), with the event it *)
(* raises, is one step; timers expire between the steps.  A receiver is    *)
(* reduced to the newest version of the data it has got and to whether     *)
(* update() still has to read it (rnum < wnum); the ring is the subject of *)
(* UNetReceiver.  The peer has one pack: it repeats the number of a packet *)
(* until the data change.  The count of switches and the sensors that      *)
(* step() publishes are left out.                                          *)
(***************************************************************************)
EXTENDS Integers

CONSTANT MaxVersion     \* bound: changes of the data of the peer

ASSUME VersionAssumption == MaxVersion \in Nat

Channels == {"r1", "r2"}

VARIABLES
    link,           \* external: the network of a channel delivers
    data,           \* external: version of the data the peer sends
    got,            \* version in the last packet received
    unread,         \* rnum < wnum: update() has that packet to read
    recvOut,        \* ptRecvTimeout has expired
    prepared,       \* ptPrepare has expired
    trTimeout,      \* state of the trigger on the timeout
    lockUpdate,     \* the receiver does not write
    store           \* version of the data in the shared memory

netVars == <<link, data>>
vars == <<link, data, got, unread, recvOut, prepared, trTimeout, lockUpdate, store>>

Other(c) == IF c = "r1" THEN "r2" ELSE "r1"
isRecvOK(c) == ~recvOut[c]

Init ==
    /\ link \in [Channels -> BOOLEAN]
    /\ data = 0
    /\ got = [c \in Channels |-> 0]
    /\ unread = [c \in Channels |-> FALSE]
    /\ recvOut = [c \in Channels |-> FALSE]
    /\ prepared = [c \in Channels |-> FALSE]
    /\ trTimeout = [c \in Channels |-> FALSE]
    /\ lockUpdate = [c \in Channels |-> c = "r2"]
    /\ store = 0
-----------------------------------------------------------------------------
(* External: the networks and the peer *)

LinkChange(c) ==
    /\ link' = [link EXCEPT ![c] = ~@]
    /\ UNCHANGED <<data, got, unread, recvOut, prepared, trTimeout, lockUpdate, store>>

DataChange ==
    /\ data < MaxVersion
    /\ data' = data + 1
    /\ UNCHANGED <<link, got, unread, recvOut, prepared, trTimeout, lockUpdate, store>>
-----------------------------------------------------------------------------
(* The receivers *)

\* readEvent(): a packet with the number of the last one is not read again.
ReadEvent(c) ==
    /\ link[c]
    /\ got' = [got EXCEPT ![c] = data]
    /\ unread' = [unread EXCEPT ![c] = @ \/ got[c] # data]
    /\ recvOut' = [recvOut EXCEPT ![c] = FALSE]
    /\ UNCHANGED <<netVars, prepared, trTimeout, lockUpdate, store>>

\* Channel c becomes the active one: setLockUpdate() of both receivers; the one
\* that is unlocked starts its preparation time anew.
Activate_LeavesOther(c) ==
    /\ lockUpdate' = [lockUpdate EXCEPT ![c] = FALSE]
    /\ prepared' = [prepared EXCEPT ![c] = FALSE]
Activate(c) ==
    /\ lockUpdate' = [x \in Channels |-> x # c]
    /\ prepared' = [prepared EXCEPT ![c] = FALSE]

ReceiverEvent_BackWhenOK(c, out) ==
    \/ out /\ isRecvOK(Other(c)) /\ Activate(Other(c))
    \/ ~out /\ Activate(c)
    \/ out /\ ~isRecvOK(Other(c)) /\ UNCHANGED <<lockUpdate, prepared>>
ReceiverEvent_OnlyOK(c, out) ==
    \/ ~out /\ ~isRecvOK(Other(c)) /\ Activate(c)
    \/ (out \/ isRecvOK(Other(c))) /\ UNCHANGED <<lockUpdate, prepared>>
\* receiverEvent(): evTimeout of channel c if out, else evOK.
ReceiverEvent(c, out) ==
    \/ out /\ isRecvOK(Other(c)) /\ Activate(Other(c))
    \/ ~out /\ ~isRecvOK(Other(c)) /\ Activate(c)
    \/ out # isRecvOK(Other(c)) /\ UNCHANGED <<lockUpdate, prepared>>

\* checkConnection(): an event is raised only after the preparation time, and
\* only when the timeout is not what the trigger remembers.
CheckConnection(c) ==
    IF prepared[c] /\ trTimeout[c] # recvOut[c]
    THEN /\ trTimeout' = [trTimeout EXCEPT ![c] = recvOut[c]]
         /\ ReceiverEvent(c, recvOut[c])
    ELSE UNCHANGED <<trTimeout, lockUpdate, prepared>>

\* updateEvent(): checkConnection(), then update() under the new lock.
UpdateEvent(c) ==
    /\ CheckConnection(c)
    /\ store' = IF unread[c] /\ ~lockUpdate'[c] THEN got[c] ELSE store
    /\ unread' = [unread EXCEPT ![c] = FALSE]
    /\ UNCHANGED <<netVars, got, recvOut>>

WatchDog_NoPackets ==
    /\ unread' = [c \in Channels |-> TRUE]
    /\ UNCHANGED <<netVars, got, recvOut, prepared, trTimeout, lockUpdate, store>>
\* A watchdog command: startReceivers() makes both read the last packet again.
WatchDog ==
    /\ unread' = [c \in Channels |-> got[c] > 0]
    /\ UNCHANGED <<netVars, got, recvOut, prepared, trTimeout, lockUpdate, store>>

\* The peer sends far more often than recvTimeout: only a dead link times out.
RecvTimeout(c) ==
    /\ ~link[c]
    /\ recvOut' = [recvOut EXCEPT ![c] = TRUE]
    /\ UNCHANGED <<netVars, got, unread, prepared, trTimeout, lockUpdate, store>>

PrepareTimeout(c) ==
    /\ prepared' = [prepared EXCEPT ![c] = TRUE]
    /\ UNCHANGED <<netVars, got, unread, recvOut, trTimeout, lockUpdate, store>>
-----------------------------------------------------------------------------
Next ==
    \/ DataChange \/ WatchDog
    \/ \E c \in Channels :
          \/ LinkChange(c) \/ ReadEvent(c) \/ UpdateEvent(c)
          \/ RecvTimeout(c) \/ PrepareTimeout(c)

\* The event loop runs and time passes; the peer keeps sending.
Fairness ==
    \A c \in Channels : /\ WF_vars(ReadEvent(c)) /\ WF_vars(UpdateEvent(c))
                        /\ WF_vars(RecvTimeout(c)) /\ WF_vars(PrepareTimeout(c))

Spec == Init /\ [][Next]_vars /\ Fairness
-----------------------------------------------------------------------------
Active(c) == ~lockUpdate[c]

TypeOK ==
    /\ link \in [Channels -> BOOLEAN]
    /\ data \in 0 .. MaxVersion
    /\ got \in [Channels -> 0 .. MaxVersion]
    /\ \A c \in Channels : got[c] <= data
    /\ unread \in [Channels -> BOOLEAN]
    /\ \A c \in Channels : unread[c] => got[c] # 0
    /\ recvOut \in [Channels -> BOOLEAN]
    /\ prepared \in [Channels -> BOOLEAN]
    /\ trTimeout \in [Channels -> BOOLEAN]
    /\ lockUpdate \in [Channels -> BOOLEAN]
    /\ store \in 0 .. MaxVersion

\* The two receivers never both write, and never both stay silent.
OneActive == \A c \in Channels : Active(c) <=> ~Active(Other(c))

\* The exchange does not jump between two channels that work: the active one is
\* left only while its receive timeout has passed, and the other one's has not.
LeftOnTimeout ==
    [][\A c \in Channels :
          Active(c) /\ ~Active(c)' => recvOut[c] /\ ~recvOut[Other(c)]]_vars

\* If one network works all the time and the other one fails for good, the
\* receiver of the first ends up as the active one.
ReserveUsed ==
    \A c \in Channels : []link[c] /\ <>[]~link[Other(c)] => <>[]Active(c)

\* "второй канал, переводится в нормальный (активный) режим. Далее работа
\* ведётся по второму каналу" (UNetExchange.h): the shared memory gets the data
\* of the channel that stays active, once they stop changing.
ActiveShown ==
    \A c \in Channels : <>[](link[c] /\ Active(c)) => <>[](store = data)
=============================================================================
