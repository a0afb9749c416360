------------------------- MODULE IONotifyController -------------------------
(***************************************************************************)
(* The sensor store of uniset3: IOController (values, freezing, blocking   *)
(* by another sensor) and IONotifyController (orders of consumers,         *)
(* notifications, thresholds), as one state machine.                       *)
(*                                                                         *)
(* gRPC runs every handler in a thread of its own.  A handler that changes *)
(* a value is a thread of Writers: its call stack is stk[t], one frame for *)
(* every localSetValue() in progress, since a change re-enters             *)
(* localSetValue() for the dependent sensors (checkDepend) and for the     *)
(* threshold sensors (checkThreshold).  A handler of askSensor() is a      *)
(* thread of Askers.  A step is what the code does under one hold of a     *)
(* lock; locks that are held across a nested call (changeMutex by          *)
(* sigChange.emit, the read lock val_lock by checkThreshold) are read off  *)
(* the frames.  sinf.ts, supplier and the statistics are left out.         *)
(*                                                                         *)
(* A name with a suffix (Changes_ValueOnly) is a faulty variant of the     *)
(* definition that follows it; it shows which property the fault breaks.   *)
(***************************************************************************)
EXTENDS Integers, Sequences, FiniteSets

CONSTANTS
    Sensors,        \* ids of ioList
    Inputs,         \* sensors and the values they are given from outside
    NoSensor,       \* DefaultObjectId
    Values,         \* values of a sensor
    Writers,        \* handler threads inside setValue / freezeValue
    Askers,         \* handler threads inside askSensor / askSyncClient
    Consumers,      \* consumers reached by ui->send()
    Clients,        \* consumers behind a gRPC stream (SyncClient)
    Orders,         \* sensors and the consumers or clients that order them
    Thresholds,     \* ids of UThresholdInfo
    thr,            \* Thresholds -> [ai, sid, lowlimit, hilimit, invert]
    depend_sid,     \* Sensors -> Sensors \cup {NoSensor}
    d_value,        \* value of the permitting sensor that permits
    d_off_value,    \* value shown while the sensor is blocked
    maxAttemtps,    \* failed sends before a consumer is erased (0: never)
    sendAttemtps,   \* tries to send one message
    NotTold,        \* nothing was sent since the order was placed
    Missed          \* every try to send the last message failed

ASSUME SensorsAssumption ==
    /\ NoSensor \notin Sensors /\ Inputs \subseteq Sensors \X Values
    /\ Orders \subseteq Sensors \X (Consumers \cup Clients)
    /\ Values \subseteq Int /\ {0, 1} \subseteq Values
    /\ Consumers \cap Clients = {}
    /\ NotTold \notin Values /\ Missed \notin Values

ASSUME ConfigAssumption ==
    /\ depend_sid \in [Sensors -> Sensors \cup {NoSensor}]
    /\ d_value \in [Sensors -> Values]
    /\ d_off_value \in [Sensors -> Values]
    /\ thr \in [Thresholds -> [ai: Sensors, sid: Sensors, lowlimit: Int,
                               hilimit: Int, invert: BOOLEAN]]
    /\ maxAttemtps \in Nat /\ sendAttemtps \in Nat \ {0}

VARIABLES
    real_value, value, frozen, frozen_value, blocked,   \* USensorInfo
    tstate,         \* UThresholdInfo::state
    stk,            \* call stack of each writer
    asking,         \* what each asker is doing
    clst,           \* askIOList: consumers of each sensor, newest first
    attempt,        \* ConsumerInfoExt::attempt
    lost,           \* lostConsumers[c].lost
    closed,         \* clients whose stream is closed
    told            \* last message each consumer has of each sensor

sensorVars == <<real_value, value, frozen, frozen_value, blocked>>
askVars == <<clst, attempt, lost, closed, told>>
vars == <<sensorVars, tstate, stk, asking, askVars>>
-----------------------------------------------------------------------------
Listeners == Consumers \cup Clients

ThresholdStates == {"Low", "Normal", "Hi"}

(***************************************************************************)
(* A frame of localSetValue(s, val): where it is, the value read before    *)
(* the write, the value the write returned, and the slots of sigChange or  *)
(* the thresholds still to be visited.  origin is the caller.              *)
(***************************************************************************)
FramePC == {"real", "prev", "write", "emit", "depend", "send",
            "limits", "threshold"}
Origins == {"set", "freeze", "depend", "threshold"}
Frame == [s: Sensors, pc: FramePC, val: Values, prev: Values, cur: Values,
          todo: SUBSET (Sensors \cup Thresholds), origin: Origins]

NewFrame(s, pc, v, origin) ==
    [s |-> s, pc |-> pc, val |-> v, prev |-> v, cur |-> v, todo |-> {},
     origin |-> origin]

Idle(t) == stk[t] = <<>>
Top(t) == stk[t][Len(stk[t])]
At(t, pc) == stk[t] # <<>> /\ Top(t).pc = pc
Push(q, f) == Append(q, f)
Pop(q) == SubSeq(q, 1, Len(q) - 1)
SetTop(q, f) == [q EXCEPT ![Len(q)] = f]

FramesOf(q) == {q[i] : i \in 1..Len(q)}
Frames(t) == FramesOf(stk[t])

\* Some thread has a call on sensor s at one of the places pcs.
InCall(s, pcs) == \E t \in Writers : \E f \in Frames(t) : f.s = s /\ f.pc \in pcs

\* checkThreshold(s) holds val_lock of s for reading until it returns.
ValLockFree(s) == ~InCall(s, {"threshold"})
\* sigChange of s is emitted under changeMutex of s.
ChangeMutexFree(s) == ~InCall(s, {"depend"})

Dependents_NotFrozen(s) == {x \in Sensors : depend_sid[x] = s /\ ~frozen[x]}
\* The sensors connected to sigChange of s.
Dependents(s) == {x \in Sensors : depend_sid[x] = s}
ThresholdsOf_NotFrozen(s) == {h \in Thresholds : thr[h].ai = s /\ ~frozen[s]}
\* USensorInfo::thresholds.
ThresholdsOf(s) == {h \in Thresholds : thr[h].ai = s}

\* The value of a sensor as localSetValue() chooses it.
Shown(s, fr, fv, bl, rv) ==
    IF fr THEN fv ELSE IF bl THEN d_off_value[s] ELSE rv

\* New state of threshold h at value v: between the limits it keeps its state.
NextState(h, st, v) ==
    IF ~thr[h].invert
    THEN IF v <= thr[h].lowlimit THEN "Normal"
         ELSE IF v >= thr[h].hilimit THEN "Hi" ELSE st
    ELSE IF v >= thr[h].hilimit THEN "Normal"
         ELSE IF v <= thr[h].lowlimit THEN "Low" ELSE st

Tripped(st) == IF st # "Normal" THEN 1 ELSE 0

NotAsking == [pc |-> "idle"]
AskCommands == {"UIONotify", "UIONotifyChange", "UIONotifyFirstNotNull"}
Asking == {NotAsking} \cup
          [pc: {"check", "first"}, s: Sensors, c: Listeners, cmd: AskCommands]
-----------------------------------------------------------------------------
(***************************************************************************)
(* The store after readConf() and activateInit(): every sensor has its     *)
(* default 0 (a threshold sensor what its threshold says), dependencies    *)
(* and thresholds have been evaluated, nobody has ordered anything.        *)
(***************************************************************************)
Init ==
    /\ real_value \in [Sensors -> {0, 1}]
    /\ value \in [Sensors -> Values]
    /\ frozen = [s \in Sensors |-> FALSE]
    /\ frozen_value = [s \in Sensors |-> 0]
    /\ blocked = [s \in Sensors |-> /\ depend_sid[s] # NoSensor
                                    /\ value[depend_sid[s]] # d_value[s]]
    /\ tstate = [h \in Thresholds |-> NextState(h, "Normal", value[thr[h].ai])]
    /\ \A s \in Sensors :
          /\ value[s] = IF blocked[s] THEN d_off_value[s] ELSE real_value[s]
          /\ real_value[s] = 1 <=> \E h \in Thresholds :
                                      thr[h].sid = s /\ tstate[h] # "Normal"
    /\ stk = [t \in Writers |-> <<>>]
    /\ asking = [t \in Askers |-> NotAsking]
    /\ clst = [s \in Sensors |-> <<>>]
    /\ attempt = [s \in Sensors |-> [c \in Consumers |-> maxAttemtps]]
    /\ lost = [c \in Consumers |-> FALSE]
    /\ closed = {}
    /\ told = [s \in Sensors |-> [c \in Listeners |-> NotTold]]
-----------------------------------------------------------------------------
(* Writers *)

\* IOController::setValue -> localSetValueIt -> localSetValue.
SetValue(t, s, v) ==
    /\ Idle(t)
    /\ stk' = [stk EXCEPT ![t] = Push(@, NewFrame(s, "prev", v, "set"))]
    /\ UNCHANGED <<sensorVars, tstate, asking, askVars>>

\* IOController::localFreezeValue: the flag and the frozen value under
\* val_lock, then localSetValue() with the real value read under that lock.
FreezeValue(t, s, set, v) ==
    /\ Idle(t)
    /\ ValLockFree(s)
    /\ frozen' = [frozen EXCEPT ![s] = set]
    /\ frozen_value' = [frozen_value EXCEPT ![s] = IF set THEN v ELSE value[s]]
    /\ stk' = [stk EXCEPT ![t] =
                 Push(@, NewFrame(s, "prev", real_value[s], "freeze"))]
    /\ UNCHANGED <<real_value, value, blocked, tstate, asking, askVars>>

\* IONotifyController::localSetValue remembers the value before the write.
ReadPrev(t) ==
    /\ At(t, "prev")
    /\ LET f == Top(t) IN
       stk' = [stk EXCEPT ![t] =
                 SetTop(@, [f EXCEPT !.prev = value[f.s], !.pc = "write"])]
    /\ UNCHANGED <<sensorVars, tstate, asking, askVars>>

Changes_ValueOnly(s, v) == real_value[s] # v
\* changed || blockChanged || freezeChanged of IOController::localSetValue.
Changes(s, v) ==
    \/ real_value[s] # v
    \/ blocked[s] # (value[s] = d_off_value[s])
    \/ frozen[s] # (value[s] = frozen_value[s])

\* IOController::localSetValue under val_lock; then sigChange is emitted.
Write(t) ==
    /\ At(t, "write")
    /\ LET f == Top(t)
           new == Shown(f.s, frozen[f.s], frozen_value[f.s], blocked[f.s], f.val)
       IN
       /\ ValLockFree(f.s)
       /\ IF Changes(f.s, f.val)
          THEN /\ real_value' = [real_value EXCEPT ![f.s] = f.val]
               /\ value' = [value EXCEPT ![f.s] = new]
               /\ stk' = [stk EXCEPT ![t] =
                     SetTop(@, [f EXCEPT !.val = new, !.cur = new, !.pc = "emit"])]
          ELSE /\ stk' = [stk EXCEPT ![t] =
                     SetTop(@, [f EXCEPT !.cur = f.val, !.pc = "send"])]
               /\ UNCHANGED <<real_value, value>>
    /\ UNCHANGED <<frozen, frozen_value, blocked, tstate, asking, askVars>>

\* sigChange.emit takes changeMutex; the slots are the dependent sensors.
Emit(t) ==
    /\ At(t, "emit")
    /\ LET f == Top(t) IN
       /\ ChangeMutexFree(f.s)
       /\ stk' = [stk EXCEPT ![t] =
             SetTop(@, [f EXCEPT !.todo = Dependents(f.s), !.pc = "depend"])]
    /\ UNCHANGED <<sensorVars, tstate, asking, askVars>>

\* USensorInfo::checkDepend of the dependent sensor x, under its val_lock.
CheckDepend(t, x) ==
    /\ At(t, "depend")
    /\ x \in Top(t).todo
    /\ ValLockFree(x)
    /\ LET f == Top(t)
           block == value[f.s] # d_value[x]
           rest == SetTop(stk[t], [f EXCEPT !.todo = @ \ {x}])
       IN
       /\ blocked' = [blocked EXCEPT ![x] = block]
       /\ stk' = [stk EXCEPT ![t] =
             IF block # blocked[x]
             THEN Push(rest, NewFrame(x, "real", 0, "depend"))
             ELSE rest]
    /\ UNCHANGED <<real_value, value, frozen, frozen_value, tstate, asking, askVars>>

\* checkDepend reads real_value, outside of any lock, to call localSetValue.
ReadReal(t) ==
    /\ At(t, "real")
    /\ LET f == Top(t) IN
       stk' = [stk EXCEPT ![t] =
                 SetTop(@, [f EXCEPT !.val = real_value[f.s], !.pc = "prev"])]
    /\ UNCHANGED <<sensorVars, tstate, asking, askVars>>

\* Every slot was called: changeMutex is released.  sigAnyChange, emitted next, is
\* left out: its slot keeps the history of SharedMemory and changes no sensor.
EmitDone(t) ==
    /\ At(t, "depend")
    /\ Top(t).todo = {}
    /\ stk' = [stk EXCEPT ![t] = SetTop(@, [Top(t) EXCEPT !.pc = "send"])]
    /\ UNCHANGED <<sensorVars, tstate, asking, askVars>>

ReturnUnchanged_Freeze(t) ==
    /\ At(t, "send")
    /\ Top(t).prev = Top(t).cur \/ Top(t).origin = "freeze"
    /\ stk' = [stk EXCEPT ![t] = Pop(@)]
    /\ UNCHANGED <<sensorVars, tstate, asking, askVars>>
\* prevValue == curValue: no notification and no threshold check.
ReturnUnchanged(t) ==
    /\ At(t, "send")
    /\ Top(t).prev = Top(t).cur
    /\ stk' = [stk EXCEPT ![t] = Pop(@)]
    /\ UNCHANGED <<sensorVars, tstate, asking, askVars>>
-----------------------------------------------------------------------------
(***************************************************************************)
(* IONotifyController::send(lst, sm): the walk over the list of consumers. *)
(* fails[c] is the number of tries that fail before one succeeds; after    *)
(* `attempt' failures in a row the consumer is erased.  Erasing a closed   *)
(* client leaves the iterator at the next entry, which ++li then skips.    *)
(***************************************************************************)
\* The entries the walk comes to.
Reached(lst) ==
    LET seen[i \in 1..Len(lst)] ==
          i = 1 \/ ~(seen[i - 1] /\ lst[i - 1] \in closed)
    IN {lst[i] : i \in {j \in 1..Len(lst) : seen[j]}}

Erased_AfterTheTries(s, c, fails) == maxAttemtps > 0 /\ fails[c] = attempt[s][c]
\* The attempts run out while one message is being sent.
Erased(s, c, fails) == maxAttemtps > 0 /\ fails[c] >= attempt[s][c]
Delivered(s, c, fails) == ~Erased(s, c, fails) /\ fails[c] < sendAttemtps

\* The list without the entries in `gone'; the others keep their order.
Without(lst, gone) ==
    LET kept[i \in 0..Len(lst)] ==
          IF i = 0 THEN <<>>
          ELSE IF lst[i] \in gone THEN kept[i - 1]
          ELSE Append(kept[i - 1], lst[i])
    IN kept[Len(lst)]

\* The effect of sending value v of sensor s to the entries in `to'.
Deliver(s, v, to, fails) ==
    LET erased == {c \in to \cap Consumers : Erased(s, c, fails)}
        gone == erased \cup (to \cap closed)
        After(c) ==
          IF c \notin to THEN told[s][c]
          ELSE IF c \in gone THEN NotTold
          ELSE IF c \in Clients \/ Delivered(s, c, fails) THEN v
          ELSE Missed
        Left(c) ==
          IF c \notin to THEN attempt[s][c]
          ELSE IF c \in erased \/ Delivered(s, c, fails) \/ maxAttemtps = 0
          THEN maxAttemtps
          ELSE attempt[s][c] - fails[c]
    IN /\ clst' = [clst EXCEPT ![s] = Without(@, gone)]
       /\ told' = [told EXCEPT ![s] = [c \in Listeners |-> After(c)]]
       /\ attempt' = [attempt EXCEPT ![s] = [c \in Consumers |-> Left(c)]]
       /\ lost' = [c \in Consumers |-> lost[c] \/ c \in erased]

\* The notification, with val_lock held for reading: the message carries
\* the value the sensor has now.  Threshold checks follow.
Send(t) ==
    /\ At(t, "send")
    /\ Top(t).prev # Top(t).cur
    /\ LET f == Top(t)
           to == Reached(clst[f.s])
       IN
       /\ \E fails \in [to \cap Consumers -> 0..sendAttemtps] :
             Deliver(f.s, value[f.s], to, fails)
       /\ stk' = [stk EXCEPT ![t] = SetTop(@, [f EXCEPT !.prev = f.cur, !.pc = "limits"])]
    /\ UNCHANGED <<sensorVars, tstate, asking, closed>>

\* checkThreshold(s) takes val_lock for reading and walks the thresholds.
LockThresholds(t) ==
    /\ At(t, "limits")
    /\ LET f == Top(t)
           hs == ThresholdsOf(f.s)
       IN stk' = [stk EXCEPT ![t] =
             IF hs = {} THEN Pop(@)
             ELSE SetTop(@, [f EXCEPT !.todo = hs, !.pc = "threshold"])]
    /\ UNCHANGED <<sensorVars, tstate, asking, askVars>>

\* One threshold: a new state is kept and written into its sensor.  The state is
\* read and kept in one step: two threads with the read lock may race on it.
CheckThreshold(t, h) ==
    /\ At(t, "threshold")
    /\ h \in Top(t).todo
    /\ LET f == Top(t)
           state == NextState(h, tstate[h], value[f.s])
           rest == SetTop(stk[t], [f EXCEPT !.todo = @ \ {h}])
       IN
       /\ tstate' = [tstate EXCEPT ![h] = state]
       /\ stk' = [stk EXCEPT ![t] =
             IF state # tstate[h]
             THEN Push(rest, NewFrame(thr[h].sid, "prev", Tripped(state), "threshold"))
             ELSE rest]
    /\ UNCHANGED <<sensorVars, asking, askVars>>

ThresholdsDone(t) ==
    /\ At(t, "threshold")
    /\ Top(t).todo = {}
    /\ stk' = [stk EXCEPT ![t] = Pop(@)]
    /\ UNCHANGED <<sensorVars, tstate, asking, askVars>>
-----------------------------------------------------------------------------
(* Askers *)

Listed(s) == {clst[s][i] : i \in 1..Len(clst[s])}

Added_Always(s, c) == <<c>> \o clst[s]
\* addConsumer / addSyncConsumer: a consumer that is listed stays where it is.
Added(s, c) == IF c \in Listed(s) THEN clst[s] ELSE <<c>> \o clst[s]

\* ask() with an order: addConsumer / addSyncConsumer, both under the mutex
\* of the list.  A repeated order only restores the attempts.
AskSensor(t, s, c, cmd) ==
    /\ asking[t] = NotAsking
    /\ c \in Clients => c \notin closed
    /\ clst' = [clst EXCEPT ![s] = Added(s, c)]
    /\ told' = [told EXCEPT ![s][c] = IF c \in Listed(s) THEN @ ELSE NotTold]
    /\ attempt' = [attempt EXCEPT ![s] =
          [x \in Consumers |-> IF x = c THEN maxAttemtps ELSE @[x]]]
    /\ lost' = [x \in Consumers |-> lost[x] /\ x # c]
    /\ asking' = [asking EXCEPT ![t] =
                    [pc |-> "check", s |-> s, c |-> c, cmd |-> cmd]]
    /\ UNCHANGED <<sensorVars, tstate, stk, closed>>

\* ask() with UIODontNotify: removeConsumer / removeSyncConsumer.
DontNotify(t, s, c) ==
    /\ asking[t] = NotAsking
    /\ c \in Listed(s)
    /\ clst' = [clst EXCEPT ![s] = Without(@, {c})]
    /\ told' = [told EXCEPT ![s][c] = NotTold]
    /\ UNCHANGED <<sensorVars, tstate, stk, asking, attempt, lost, closed>>

\* Whether the current state is sent at once; sinf.value() is read unlocked.
CheckFirst(t) ==
    /\ asking[t].pc = "check"
    /\ LET a == asking[t] IN
       asking' = [asking EXCEPT ![t] =
          IF \/ a.cmd = "UIONotify"
             \/ a.cmd = "UIONotifyFirstNotNull" /\ value[a.s] # 0
          THEN [a EXCEPT !.pc = "first"]
          ELSE NotAsking]
    /\ UNCHANGED <<sensorVars, tstate, stk, askVars>>

\* The first message: send(lst, sm, &ci), or pushData() to the client,
\* with val_lock held for reading.
SendFirst(t) ==
    /\ asking[t].pc = "first"
    /\ LET a == asking[t]
           to == ({a.c} \cap Listed(a.s)) \ closed
       IN \E fails \in [to \cap Consumers -> 0..sendAttemtps] :
             Deliver(a.s, value[a.s], to, fails)
    /\ asking' = [asking EXCEPT ![t] = NotAsking]
    /\ UNCHANGED <<sensorVars, tstate, stk, closed>>

\* The stream of a client ends: releaseClient() -> SyncClient::close().
CloseClient(c) ==
    /\ c \notin closed
    /\ closed' = closed \cup {c}
    /\ UNCHANGED <<sensorVars, tstate, stk, asking, clst, attempt, lost, told>>
-----------------------------------------------------------------------------
WriterStep(t) ==
    \/ ReadPrev(t) \/ Write(t) \/ Emit(t) \/ ReadReal(t) \/ EmitDone(t)
    \/ \E x \in Sensors : CheckDepend(t, x)
    \/ ReturnUnchanged(t) \/ Send(t) \/ LockThresholds(t)
    \/ \E h \in Thresholds : CheckThreshold(t, h)
    \/ ThresholdsDone(t)

WriterCall(t) ==
    \E i \in Inputs :
       SetValue(t, i[1], i[2]) \/ \E set \in BOOLEAN : FreezeValue(t, i[1], set, i[2])

AskerStep(t) == CheckFirst(t) \/ SendFirst(t)

AskerCall(t) ==
    \E o \in Orders :
       \/ DontNotify(t, o[1], o[2])
       \/ \E cmd \in AskCommands : AskSensor(t, o[1], o[2], cmd)

Next ==
    \/ \E t \in Writers : WriterCall(t) \/ WriterStep(t)
    \/ \E t \in Askers : AskerCall(t) \/ AskerStep(t)
    \/ \E c \in Clients : CloseClient(c)

Spec == Init /\ [][Next]_vars
-----------------------------------------------------------------------------
(* Properties *)

\* Types of the sensors and of the call stacks.
StoreTypeOK ==
    /\ real_value \in [Sensors -> Values]
    /\ value \in [Sensors -> Values]
    /\ frozen \in [Sensors -> BOOLEAN]
    /\ frozen_value \in [Sensors -> Values]
    /\ blocked \in [Sensors -> BOOLEAN]
    /\ tstate \in [Thresholds -> ThresholdStates]
    /\ stk \in [Writers -> Seq(Frame)]

\* Types of the orders and of what is known of the consumers.
OrdersTypeOK ==
    /\ asking \in [Askers -> Asking]
    /\ clst \in [Sensors -> Seq(Listeners)]
    /\ attempt \in [Sensors -> [Consumers -> 0..maxAttemtps]]
    /\ lost \in [Consumers -> BOOLEAN]
    /\ closed \subseteq Clients
    /\ told \in [Sensors -> [Listeners -> Values \cup {NotTold, Missed}]]

TypeOK == StoreTypeOK /\ OrdersTypeOK

\* Whatever setValue, freezeValue and checkDepend calls overlap: a sensor
\* shows its frozen value, else its off value while blocked, else its real
\* value, unless a call that is going to write it is still on its way.
\* (IOController::localSetValue finds out by comparing values, not flags.)
EffectiveValue ==
    \A s \in Sensors :
       ~InCall(s, {"real", "prev", "write"}) =>
          value[s] = Shown(s, frozen[s], frozen_value[s], blocked[s], real_value[s])

\* Frame f is going to call checkDepend of x.
WillCheck(f, x) ==
    /\ f.s = depend_sid[x]
    /\ f.pc = "emit" \/ (f.pc = "depend" /\ x \in f.todo)

\* A dependent sensor is blocked exactly while the sensor it depends on has
\* another value than depend_value, unless the change of that sensor is
\* still being signalled (sigChange -> checkDepend).
DependencyHolds ==
    \A x \in Sensors :
       \/ depend_sid[x] = NoSensor
       \/ \E t \in Writers : \E f \in Frames(t) : WillCheck(f, x)
       \/ blocked[x] = (value[depend_sid[x]] # d_value[x])

\* When no call is between its write of a sensor and its notification, every
\* listed consumer that was told a value was told the present one
\* (IONotifyController::localSetValue -> send).
NotifiedCurrent ==
    \A s \in Sensors : \A c \in Listed(s) :
       \/ InCall(s, {"emit", "depend", "send"})
       \/ told[s][c] \in {NotTold, Missed, value[s]}

\* When no call is between its write of an analog sensor and the end of its
\* checkThreshold, the state of each threshold is the one the present value
\* calls for, and it has been written into the threshold sensor.
ThresholdsCurrent ==
    \A h \in Thresholds :
       \/ InCall(thr[h].ai, {"emit", "depend", "send", "limits", "threshold"})
       \/ /\ tstate[h] = NextState(h, tstate[h], value[thr[h].ai])
          /\ real_value[thr[h].sid] = Tripped(tstate[h])

\* A listed consumer has tries left: it is erased with its last one
\* (IONotifyController::send), and each list names a consumer once.
ListedHaveAttempts ==
    \A s \in Sensors :
       /\ maxAttemtps > 0 => \A c \in Listed(s) \cap Consumers : attempt[s][c] > 0
       /\ \A i, j \in 1..Len(clst[s]) : clst[s][i] = clst[s][j] => i = j
-----------------------------------------------------------------------------
(***************************************************************************)
(* The inductive invariant behind EffectiveValue and DependencyHolds.      *)
(* localSetValue() notices that a flag has changed only by comparing the   *)
(* shown value with the off value and the frozen value: Recoverable is why *)
(* that is enough.                                                         *)
(***************************************************************************)
Recoverable ==
    \A s \in Sensors :
       frozen[s] \/ value[s] \in {real_value[s], d_off_value[s], frozen_value[s]}

SlotsAreDependents ==
    \A t \in Writers : \A f \in Frames(t) :
       f.pc = "depend" => f.todo \subseteq Dependents(f.s)

StoreInv ==
    /\ StoreTypeOK
    /\ Recoverable
    /\ SlotsAreDependents
    /\ EffectiveValue
    /\ DependencyHolds
-----------------------------------------------------------------------------
(***************************************************************************)
(* What NotifiedCurrent and ThresholdsCurrent rest on, when no two threads *)
(* set values at the same time: a change that was not passed on yet is the *)
(* business of a call that is still on the stack.                          *)
(***************************************************************************)
OneAtATime == \A t, u \in Writers : Idle(t) \/ Idle(u) \/ t = u

\* Threshold h has a sensor of its own, which nobody else sets.
OwnSensor(h) ==
    /\ \A g \in Thresholds : thr[g].sid = thr[h].sid => g = h
    /\ \A i \in Inputs : i[1] # thr[h].sid
OwnSensors == \A h \in Thresholds : OwnSensor(h)

\* The calls below the top wait for a nested call.
CallersOf(q) == {q[i] : i \in 1 .. Len(q) - 1}
Callers(t) == CallersOf(stk[t])
CallersWait ==
    \A t \in Writers : \A f \in Callers(t) : f.pc \in {"depend", "threshold"}

TodoIsOwn ==
    \A t \in Writers : \A f \in Frames(t) :
       f.pc = "threshold" => f.todo \subseteq ThresholdsOf(f.s)

\* The value read before the write is still there when the write comes.
PrevIsCurrent ==
    \A t \in Writers : At(t, "write") => Top(t).prev = value[Top(t).s]

\* Frame f is going to notify.
WillNotify(f) == f.pc \in {"emit", "depend", "send"} /\ f.prev # f.cur

\* skips: send() may have passed over an entry.
ChangeIsSent(skips) ==
    skips \/ \A s \in Sensors :
       \/ \E t \in Writers : \E f \in Frames(t) : f.s = s /\ WillNotify(f)
       \/ \A c \in Listed(s) : told[s][c] \in {NotTold, Missed, value[s]}

\* Frame f is going to evaluate threshold h.
WillEvaluate(f, h) ==
    /\ f.s = thr[h].ai
    /\ WillNotify(f) \/ f.pc = "limits" \/ (f.pc = "threshold" /\ h \in f.todo)

StateFollows ==
    \A h \in Thresholds :
       \/ \E t \in Writers : \E f \in Frames(t) : WillEvaluate(f, h)
       \/ tstate[h] = NextState(h, tstate[h], value[thr[h].ai])

\* The call of t that is about to write the sensor of threshold h.
Sets(t, h) == (At(t, "prev") \/ At(t, "write")) /\ Top(t).s = thr[h].sid

\* Nobody writes anything else than the state of its threshold into such a
\* sensor, and it has it as soon as the walk over the thresholds goes on.
SensorFollows ==
    \A h \in Thresholds : OwnSensor(h) =>
       /\ \A t \in Writers : Sets(t, h) => Top(t).val = Tripped(tstate[h])
       /\ \/ real_value[thr[h].sid] = Tripped(tstate[h])
          \/ \E t \in Writers :
                Sets(t, h) /\ \E f \in Callers(t) : f.s = thr[h].ai /\ f.pc = "threshold"

ChangeInv(skips) ==
    /\ CallersWait /\ TodoIsOwn /\ PrevIsCurrent
    /\ ChangeIsSent(skips) /\ StateFollows /\ SensorFollows

\* No entry of the list of s stands behind a closed client, which send() erases.
NoneBehindClosed(s) == \A i \in 1 .. Len(clst[s]) - 1 : clst[s][i] \notin closed

\* A step that notifies passes over no entry.
NoneSkipped == \A t \in Writers : Send(t) => NoneBehindClosed(Top(t).s)
=============================================================================
