# uniset3: a verification project in TLA+

uniset3 is a C++ framework for distributed control systems.  A process holds
*objects* that exchange messages over gRPC.  The central object is the *sensor
store* (`SharedMemory`, built on `IONotifyController` and `IOController`): other
processes write sensor values into it and order notifications about their
changes.  Extensions move sensor values over networks (UNetUDP, Modbus, OPC UA),
to hardware (IOControl) and to databases.

This directory models the parts that carry the logic, checks them with TLC on
small instances, and proves their main invariants with TLAPS for every value of
the constants.  `PROJECT.json` maps every definition to source lines.

## 1. Inventory

| Part | State | Operations | Talks to | Hard about it | What makes it correct |
|---|---|---|---|---|---|
| `IOController` | per sensor: value, real value, frozen flag and value, blocked flag, dependency | setValue, freezeValue, setOutputSeq, checkDepend | sigChange slots of dependent sensors, `IONotifyController` | gRPC threads overlap; flag and value change in different critical sections; nested calls | a sensor shows what its flags call for; blocking follows the permitting sensor; no set is lost |
| `IONotifyController` | lists of consumers with attempts, stream clients, threshold states | askSensor, askSyncClient, send, checkThreshold | `UInterface::send`, stream sessions, itself for threshold sensors | order placed beside a change; failing sends; list changed while walked | a consumer knows the present value; thresholds match it; a consumer is dropped with its last attempt |
| `UniSetObject` + `MQMutex` + `PassiveCondTimer` | three queues, wait flag, active flag, thread state | push, receiveMessage, waitMessage, askTimer, activate, deactivate, setParams | `LT_Object`, the user's handlers | push, wait and stop race; queue overflow | messages are counted, ordered, taken; deactivate returns and leaves no thread |
| `LT_Object` | list of timers with clocks and ticks, sleep time, time of the last check | askTimer, checkTimers | pushes into the queues | early returns under a stream of messages; orders at any moment | an ordered timer goes off in time and sends the ordered number of messages |
| `UNetSender` | data and number of each pack, packet counter, last checksum | updateSensor, real_send | the store, UDP | restart; numbers depend on a checksum | every change gets a new number |
| `UNetReceiver` | ring of packets, `rnum`, `wnum`, timers, lock, mode | receive, update, forceUpdate, setLockUpdate | UDP, the store, `UNetExchange` | loss, repetition, reordering, foreign packets, sender restart, `rnum` written by another thread | what is written is a packet that was sent, under its number; no hole stops the reader |
| `UNetExchange` | which of two receivers writes | receiverEvent, startReceivers | two receivers | two networks that fail and recover in any order | exactly one channel writes; a working one is used; its data are shown |
| `CommonEventLoop` | list of watchers, thread, flags of the handshakes | async_evrun, evstop | libev, the watchers | start, stop and timeouts race with the loop thread | calls return and tell the truth; restart works |
| `MQAtomic` | ring with three counters | push, top | - | lock-free, wrap-around | only tests use it; not modelled |
| `SharedMemory` | heartbeat counters, history | heartbeat timer, pulsar | the store | timers beside writers | a silent process is noticed |
| `UniSetManager`, `UniSetActivator` | lists of objects, server | activate, deactivate, signals | operating system | shutdown | every object is stopped |
| `UInterface`, proxies, configuration, object index, logs, DBServer, Modbus, TCP, gateways, `extensions/lib` | caches, sockets, tables | I/O and conversion | - | - | not modelled, reasons in `PROJECT.json` |

The hazards, each at its line and with the property that watches it, are listed
in `PROJECT.json`.

## 2. Modules

| Module | Role |
|---|---|
| `IONotifyController` | the sensor store: `IOController` and `IONotifyController` as one state machine |
| `IONotifyController_proofs` | theorems about the values: flags and dependencies |
| `IONotifyOrders_proofs` | theorems about the orders: lists of consumers, notifications, thresholds |
| `MCIONotifyController` | instances for TLC |
| `UniSetObject` | queues, message thread, activation of an object |
| `UniSetObject_proofs` | theorems about it |
| `MCUniSetObject` | instances for TLC |
| `LT_Object` | the timers of an object, in time |
| `LT_Object_proofs` | theorems about it |
| `MCLT_Object` | instance for TLC |
| `UNetSender`, `UNetReceiver` | the two ends of a UNet channel |
| `UNetLink` | their composition over an unreliable network |
| `UNetStream` | what a channel promises: an abstract reader of the packets that were sent |
| `UNetLink_proofs` | theorems about `UNetLink`, and that it implements `UNetStream` |
| `MCUNetLink` | instances for TLC |
| `UNetExchange` | two redundant channels and the switch between them |
| `UNetExchange_proofs` | theorems about it |
| `CommonEventLoop` | the event loop that the receivers share: start and stop of watchers |
| `CommonEventLoop_proofs` | theorems about it |

A name with a suffix, such as `Full_OffByOne`, is a faulty variant of the
definition that follows it.  Replacing the definition by the variant breaks one
named property (the `mutants` of `PROJECT.json`), which shows that the property
depends on that line of the code.

### IONotifyController

`real_value`, `value`, `frozen`, `frozen_value` and `blocked` are the fields of
`USensorInfo`; `tstate` is the state of each threshold; `clst`, `attempt`,
`lost`, `closed` are the lists of consumers.  `told` is a history variable: the
last value each listed consumer was told, `NotTold`, or `Missed` when every try
to send the last message failed.

Every handler thread that changes a sensor has a call stack `stk[t]` with one
frame for each `localSetValue()` in progress, because a change re-enters
`localSetValue()` for dependent and for threshold sensors.  A frame goes through

    prev -> write -> emit -> depend -> send -> limits -> threshold
            |                          ^
            +-- nothing changed -------+

with `real` in front of a call made by `checkDepend`.  One step is what the code
does under one hold of a lock.  Locks held across a nested call are read off the
frames: `ValLockFree` (checkThreshold keeps the read lock of the analog sensor
while it sets threshold sensors) and `ChangeMutexFree` (sigChange is emitted
under changeMutex).  `Send` is one step because `send()` keeps the mutex of the
list; the failures of the tries are chosen with `\E fails`.  `Without` is the
list after the erasures, with the other entries in their order.

`CheckThreshold` reads and stores the state of a threshold in one step.  In the
code two threads inside `checkThreshold()` hold `val_lock` for reading only and
may race on `it->state` (`IONotifyController.cc:915-938`); the run `notify` and
the theorem about thresholds have one such thread at a time.  `sigAnyChange`
(`IOController.cc:396-404`) is left out: its slot keeps the history of
`SharedMemory` and changes no sensor.  Left out too: time stamps, suppliers, statistics, the `readonly` flag, logging to the
database, and the network side of the stream clients (`pushData` always reaches
an open client).

### UniSetObject

`mq` are the three queues; a message is its number among the pushes of its
priority.  `pc` is the place of the message thread in `work()`, `callback()` and
`waitMessage()`; `ppc[r]` says whether producer `r` is between its push (or its
order of a timer) and `termWaiting()`; `apc` is the place of the thread that
activates and deactivates the object.  `terminated` is the flag of
`PassiveCondTimer`, which `wait()` clears when it begins.  Timers are abstracted
to "some timer is ordered", since that decides whether a wait is bounded; a
bounded wait may end at any time.  `cnt`, `last`, `taken`, `overtaken` are
history variables.

`setParams()` gives any size to the queues, 0 too.  With size 0 and lostOldData
`MQMutex::push` calls `pop_front()` of an empty deque, which is undefined: the
model has the outcome of libstdc++ (the front passes the end, and `push_back()`
makes the deque empty again, without the message) and, as no step at all, the end
of the process.  The three queues get their size one after the other in the code
and at once in the model; no property relates two of the sizes.

### LT_Object

`UniSetObject` knows only whether a timer is ordered; here `tlst` is the list of
`TimerInfo` with its fields, plus `clock`, the time since the timer's
`PassiveTimer` was started.  `tmLast` is the time since the last full check and
`wait` what is left of `waitMessage(sleepTime)`.  Time passes (`Tick`) only while
the thread waits.  `checkTimers()` is three actions, one for each return:
`CheckNothing`, `CheckTooSoon`, `CheckTimers`.  `asked`, `again`, `pushed` are
history variables that count messages.

### UNetSender, UNetReceiver, UNetLink, UNetStream

A packet is a number and a payload that stands for all its sensors.  `RealSend`
gives a pack a new number only if its checksum differs from that of the packet
sent last; `Restart` starts the counters again.  The network `sent` is the set
of all packets ever sent: any of them may be delivered at any time, any number of
times, in any order, or never.

`Receive(p)` has the three branches of `receive()` (`Reinit`, `Misplaced`,
`Expected`) and `ReceiveBad` the early return after `isOk()`, which leaves the
foreign packet in the slot.  `Moved` keeps the order of the two writes, because
they may hit one slot.  `update()` runs in the event loop but is split into its
iterations (`UpdateStep`), since `start()` of a running receiver writes `rnum`
from the thread of the watchdog command (`ForceUpdateRead`, `ForceUpdateWrite`,
and `ForceUpdateEarly`, `ForceUpdateRaced` and `ForceUpdateLost` for a write that
falls into an iteration: between the slot and the comparison, after it, or just
before `update()` writes `rnum` itself).  `rnum` and `wnum` are plain integers in
the code.

The mode sensor is taken as configured; without one (`sidMode` =
`DefaultObjectId`) `ReadMode` would do nothing.  Left out: statistics, the sensors for
response and lost packets, the caches of iterators, the reopening of the socket,
and the wrap-around of the 64-bit packet counter.

`UNetStream` says what is promised to the shared memory: values shown are those
of packets sent, each under the number the reader has reached; numbers may be
passed over; the reader goes back only to the newest packet or on a new start,
which drops what it had not read (`reinit_drops` in section 3).
`StreamSpec` in `UNetLink` is this specification with `wpos`, `rpos`, `shown`
replaced by `wnum`, `rnum`, `store`.

### UNetExchange

Two receivers, each reduced to the newest version it has got and whether it still
has to read it.  `UpdateEvent(c)` is `checkConnection()` with the event it raises,
and then `update()` under the lock that results, all in one step of the event
loop.  The newest packet is read at once: waiting at a hole and the mode are in
`UNetReceiver`.  The networks (`link`) and the data of the peer (`data`) are
external.

### CommonEventLoop

`cpc[w]` is the place of the thread that starts and stops watcher `w`, `lpc` the
place of the loop thread.  Steps end where a mutex is released, and between
accesses to the atomic flags.  A wait may time out at any moment and
`evprepare()` may throw; `upset` records that one of them has happened.
`evstop()` may be called for any watcher, also one that was never started, as
`UNetExchange::deactivateObject()` does.  If it then finds no thread, the loop
stays cancelled; the history variable `stray` records this.  `async_evrun()` of a
watcher that is in the list returns false and does nothing, so it is no action.

## 3. Runs

Passing runs:

| Run | Instance | Shows |
|---|---|---|
| `store` | 2 writers, `Permit` enabling `Analog`, values 0..2 | `EffectiveValue`, `DependencyHolds` for all interleavings of set, freeze, unfreeze and nested dependency calls |
| `notify` | 1 writer, 1 asker, 1 consumer that orders `Analog`, 1 stream client that orders `Alarm` and may close, `Permit` enabling `Analog`, a threshold of `Analog` written into `Alarm`, values 0..1, 3 attempts, 2 tries | `TypeOK`, `NotifiedCurrent`, `ThresholdsCurrent`, `ListedHaveAttempts` |
| `object` | 2 producers, 3 messages, sizes 0, 1 and 2, two queues that lose old data and one that loses new data, a periodic timer, restarts, fairness | `TypeOK`, `MessagesAccounted`, `InOrder`, `LatestKept`, `QueueBounded`, `OvertakenOnce`, `NoThreadLeft`, `MessagesTaken`, `DeactivateReturns` |
| `unet` | ring of 4, tolerance 2, 1 pack with 2 data, 6 numbers and then a restart with 1 | `TypeOK`, `SlotsMatch`, `StreamSpec` (refinement) |
| `unet_threads` | ring of 4, tolerance 2, 3 numbers, foreign packets with number 2, watchdog and lock from other threads | `SlotsMatch`, `DueShown`, `HolePassed` |
| `unet_channels` | 2 channels, 2 changes of the data | `TypeOK`, `OneActive`, `LeftOnTimeout`, `ReserveUsed` |
| `timers` | intervals 2 (below the minimum) and 7, minimum 3, 1 or 2 ticks or without end | `TypeOK`, `InTime`, `TicksKept` |
| `evloop` | 3 watchers, started one after the other | `TypeOK`, `Served`, `FailsForCause`, `Restartable`, `CallsReturn` |

Bounds.  Two writers are enough for every race on one sensor and its dependency:
a race needs one call between two steps of another, and a third writer only adds
more of the same.  Three values separate the off value (0), the permitting value
(1) and a further one.  Three attempts with two tries reach a message lost with an
attempt left, the erasing in the middle of the tries of a message, and attempts
restored by a success or by a new order.  Three messages overflow a queue of size
2, one of size 1 twice, one whose size was reduced, and leave messages of two
priorities waiting at once.  `notify` has one writer because with two the
property does not hold (`lost_notification` below).  Symmetry is used only in
runs without liveness properties.

In `unet` six numbers come round the ring of four with room for a packet of the
round before, and the restart brings numbers far below `wnum`; a ring of four is
the smallest in which a hole does not at once make it "nearly full".  In
`unet_threads` three numbers suffice, since the races are about `rnum` and `wnum`
and not about the ring; the number of the foreign packets is one the sender also
uses.  Foreign packets are left out of `unet`: with a tolerance of 2 or more the
window between `rnum` and `wnum` may become larger than the ring, and then the
slot of `wnum`, the only one where a foreign packet may be, is also the slot of
`rnum`.  `DueShown` states the same promise for windows smaller than the ring.
In `timers` the clocks stop at 14 = 2 * 7, later than any time the timers can
reach (`InTime` bounds the clocks by 12).  Three watchers are one that starts, one
that runs and one that stops.

Fairness (`FairSpec`): the message thread, the deactivating thread and a
producer between its push and `termWaiting()` are ordinary threads that the
operating system runs whenever they can go on, so each has weak fairness; the
handler of a message is assumed to return.  Nothing obliges anyone to push,
activate or deactivate.  A bounded wait ends because time passes.  In `UNetLink`
the event loop calls `updateEvent()` periodically and `lostTimeout` passes; no
packet has to arrive.  In `UNetExchange` the event loop also serves the socket
and the timers expire; the peer sends again and again, so a link that works
delivers.  In `CommonEventLoop` the loop thread and a thread inside a call go on;
nobody has to start or stop.

Runs in which the code does not do what its documentation says (`findings` in
`PROJECT.json` quote the lines):

| Run | Property | What happens |
|---|---|---|
| `lost_notification` | `NotifiedCurrent` | a writer that read `prevValue` = 0 is overtaken by a writer of 1; its own write of 0 then looks like no change, and the consumer stays at 1; the same return skips `checkThreshold` |
| `lost_wakeup` | `MessagesTaken` | `terminate()` before `wait()` is forgotten; without timers the message waits for the next push (and an order of a timer by another thread is slept through in the same way) |
| `reinit_drops` | `DueKept` | a packet with a number far from `wnum` (late, or of a restarted sender) makes `receive()` move `rnum` to it at once; received packets that wait for `update()` with no hole before them are dropped, not processed first as the header says |
| `channel_switch` | `ActiveShown` | the passive receiver consumes a packet without writing it; after the switch nothing makes it read the packet again, and the peer repeats the old number until its data change |

Other behaviours of the models that a reader of the code should know, reached by
changing an instance:

* erasing a closed client in `send()` (`IONotifyController.cc:757`) skips the next
  consumer: with a client and a consumer that order one sensor `NotifiedCurrent`
  does not hold;
* the return without notification of `lost_notification` skips `checkThreshold`
  too: with two writers `ThresholdsCurrent` does not hold;
* `checkDepend` writes back a real value it read before another `setValue`
  (`IOController.cc:950`), so that the set is undone;
* the wakeup lost in `lost_wakeup` may also be the only one of `deactivate()`,
  which then never returns: `DeactivateReturns` needs the periodic timer;
* a watchdog command beside `receive()` may put `rnum` behind by what came in
  between, and a nearly full ring makes the receiver drop a packet that is in turn;
* a timer ordered again while in the list sends one message more than ordered
  (`askTimer()` stores `ticks` there and `ticks - 1` for a new timer), while
  `LT_Object.h:106` calls `ticks` the number of notifications; `TicksKept` is exact
  for new timers only.  With a shorter interval than before it may be late by the
  old one;
* `evstop()` of a watcher that was never started, while there is no loop thread,
  leaves `cancelled` set (`CommonEventLoop.cc:182-195`): the next loop thread ends at
  once and starts fail.  `UNetExchange::deactivateObject()` calls it so when the
  receivers were not started (`UNetExchange.cc:541-545`), and the loop is shared by
  all receivers of the process.  `Restartable` holds until then (`stray`);
* a wait of `async_evrun()` that timed out while `evprepare()` was running leaves a
  late notification, which ends the wait of the next start too early: that start
  fails, and `FailsForCause` counts the timeout as its cause;
* `UniSetObject.h:71` warns that messages of a low priority may never be taken while
  others keep coming; `MessagesTaken` leaves this case out;
* `async_evrun()` from two threads at once (`Serial = FALSE`): the second
  overwrites `wprep`, and `Served` fails; `startReceivers()` calls it in one
  thread.

## 4. Proofs

All proofs are for arbitrary sets of sensors, threads, consumers, producers,
timers, packs and watchers, arbitrary configurations, ring sizes and limits, under
the named assumptions of the modules: `SensorsAssumption` and `ConfigAssumption`
(types of the configuration, 0 and 1 are values, limits and attempts are numbers),
`LimitsAssumption` (queue sizes are numbers, 0 included; the initial one is above
0), `ReceiverAssumption` and `SenderAssumption` (types, a ring of at
least two), `LinkAssumption` (packs do not share a checksum, and none is 0),
`TimerAssumption` (types; intervals are above 0), `LoopAssumption` and
`VersionAssumption` (types).

`IONotifyController_proofs`: `StoreTypeCorrect`, `EffectiveValueHolds`,
`DependencyAlwaysHolds`, from the inductive invariant `StoreInv`:

* `Recoverable`: a sensor that is not frozen shows its real, its off or its
  frozen value.  `localSetValue()` does not remember whether a flag changed; it
  compares the shown value with the off value and with the frozen value.
  `Recoverable` is why that comparison never misses a change that matters: if
  none of the three comparisons reports a change, the shown value is already
  the right one.
* `SlotsAreDependents`: the slots still to be called belong to the sensor that
  emits, so removing one from the list can excuse only its own dependency.
* `EffectiveValue`, `DependencyHolds` themselves, and the types.

Every step of a writer changes one stack at its top.  The lemmas `PushFrames`,
`SetTopFrames`, `PopFrames` say which frames such a step adds and drops;
`StackStep` concludes for all steps that leave the sensors alone, and
`FreezeValueStep`, `WriteStep`, `CheckDependStep` treat the three that do not.

`IONotifyOrders_proofs`, for any threads: `NotifyControllerTyped` and
`ListedAlwaysHaveAttempts`, from `OrdersInv`, the types together with
`ListedHaveAttempts`.  That each entry stands once in a list and that the walk
keeps it so is a fact about the recursive function in `Without`.  The library's
induction theorems cannot be used with an operator parameter, so the lemmas
`WalkExists` and `WithoutShape` argue by a least counterexample instead
(`LeastIndex`, from the well-foundedness of `<` on the naturals).  An erased
consumer needs `attempt` failures, so what is left of `attempt` is above 0.

For calls that set values one at a time (`OneAtATime`: at any moment at most one
thread is inside `setValue` or `freezeValue`; `askSensor` calls, failures and
closing streams may come between any two steps of it):

* `NotifiedAlwaysCurrent`: consumers know the present value if no walk passes over
  an entry (`NoneSkipped`: when `send()` walks a list, no entry stands behind a
  closed client).  `NotifiedUntilClosed` and `OnlyListenerNotified` are the two
  cases in which that is certain: no client has closed yet, or there is one
  listener only.
* `ThresholdsAlwaysCurrent`: threshold states and threshold sensors follow the
  analog value, for chains of thresholds and with dependencies on top, if each
  threshold has a sensor of its own that no client sets (`OwnSensors`), as in the repository's
  configurations, where each `<threshold>` names its `sid`.  `getThresholdInfo`
  does not enforce it: with a shared `sid` the sensor holds the answer of the
  threshold that wrote last.

Both conditions are needed: `lost_notification` violates `NotifiedCurrent` with
two overlapping writers, and section 3 describes the entry behind a closed client.

The inductive invariant is `ChangeInv`.  The properties speak of moments at which
no call is under way, so the invariant has to say whose business an unsent change
is in between.  A call below the top of the stack waits inside `depend` or
`threshold` (`CallersWait`), so nothing can come between reading the previous
value and the write (`PrevIsCurrent`); hence a frame whose write changed the value
has `prev # cur` and is going to notify (`WillNotify`) and to evaluate the
thresholds (`WillEvaluate`).  `ChangeIsSent` and `StateFollows` say that a consumer
or a threshold is up to date or such a frame is on the stack, at any depth: a
nested call may change the same sensor again, and then the outer frame sends the
value as it is by then.  `SensorFollows` says that what is written into a
threshold sensor is always the state of its threshold, also by `checkDepend`,
which writes back the real value.  A step of the writer replaces the top of its
stack, calls, or returns; `QuietStep`, `MoveStep`, `CallStep` and `ReturnStep` show
once that a frame may be replaced by one that is still going to do the same, and
there is one lemma for each action.  The parameter of `ChangeInv` leaves out
`ChangeIsSent`, so that the thresholds need no condition on the walks.

`UniSetObject_proofs`: `ObjectInvariant` (inductive invariant `ObjectInv`) and
from it `ObjectTyped`, `QueueAlwaysBounded`, `NoMessageUncounted`, `OrderKept`,
`LatestAlwaysKept`, `AtMostOneOvertakes`, `ThreadIsGone`.  The strengthenings are `Overtaking` (an
overtaken message is still in its queue, and the thread looks there first, so
while it is at a lower queue nothing has been overtaken) and `Working`
(`a_working` is true exactly while the thread is between its start and the end
of `work()`).  `AppendNext`, `TailKeeps` and `PushedKeeps` are the facts about
one queue.

`UNetLink_proofs`: `LinkTyped`, with or without other threads; `SlotsAlwaysMatch` and `DueAlwaysShown` hold with other threads
and foreign packets (`SpecThreads`).  They rest on `SlotsSent`, that a numbered
slot other than the slot of `wnum` holds a packet that was sent: `receive()` parses
into the slot of `wnum`, and either moves `wnum` on, past a good packet, or leaves
`wnum`, and with it the exception, where it is.  `LinkImplementsStream` shows that
`Spec` implements `UNetStream` when there are no foreign packets; its invariant
`StreamInv` adds `Numbered` (packets are numbered from 1, since a pack whose
checksum was sent last has a number) and `FirstSlotEmpty` (as long as `rnum` is 0,
slot 0 has nothing that could be taken for packet 0, though a packet out of turn
erases its number there).

`UNetExchange_proofs`: `ChannelsTyped`, `ExactlyOneActive`, and the action property
`NoJumping`, whose step uses that exactly one channel is active: the reporting
channel takes the lock only while the other one has timed out.

`LT_Object_proofs`: `TimersTyped`, and `TicksAlwaysKept` from `TicksInv`, in which
`Account` says that `curTick` is the number of messages still to be sent less one,
for a timer ordered again with one message more.
`TimersInTime`: for any intervals, if no step orders a listed timer again for a
shorter time (`NotShortened`; longer is harmless) and the clocks of the model do
not stop too early (`ClocksReach`), no timer is late by `2 * MinQuantityTime - 1`.
`FixedTimersInTime` derives it for timers that have one interval each, as in the
run.  The invariant `TimeInv` relates the two ways in which the code measures
time: `curTimeMS` less the time since the last check never exceeds what the clock
of the timer has left (`LeftIsNoMore`: that is what a shorter order breaks), no
timer was overdue at the last check (`NotOverdue`), and therefore the wait ends in
time (`WaitEnds`).  The protection against a stream of messages adds
`MinQuantityTime` when less than that has passed since the check: that is where
the bound comes from, and with a bound smaller by one the proof fails there.

`CommonEventLoop_proofs`: `LoopTyped`, for any clients; `LoopInvariant` and from it `StartedIsServed`,
`FailureHasCause`, `AlwaysRestartable`, for clients that start one after the other
(`Serial`).  `LoopInv` says who may be where: one client starts, one stops
(`OneStarts`, `OneStops`), the flag is set exactly while one stops (`Cancelling`) or
since an `evstop()` that found no thread, after which a loop thread soon ends
(`StrayEnds`), there is a thread from the first start to the last stop
(`ThreadLives`), `wprep`
is emptied by the loop thread exactly when its watcher is prepared
(`Preparation`), and as long as nothing was upset a notification belongs to the
client that waits (`Handshake`).

Every invariant and every action property that a run checks is stated by a
theorem.  Only model-checked: liveness (`MessagesTaken`, `DeactivateReturns`,
`HolePassed`, `ReserveUsed`, `CallsReturn`), which needs fairness and `ENABLED`.

## 5. Not modelled, and what is left

Most of the repository is encoding, I/O, configuration and generated bindings,
where there is nothing to interleave; `PROJECT.json` gives the reason for each
part.  What could still be added, in this order:

1. `SharedMemory`: heartbeats and the pulsar on top of the store.
2. `CommonEventLoop::evrun`, which joins the same thread as `evstop()`, and
   `EventLoopServer`.
3. `ModbusMaster`: the exchange loop of `MBExchange` with its two gateways
   (`MBTCPMultiMaster`), whose choice of a channel resembles `UNetExchange`.
4. Proofs: the refinement of `UNetStream` with foreign packets, for windows
   smaller than the ring; what several overlapping writers still guarantee to a
   consumer; `CommonEventLoop` without `Serial`, for the watchers that do not
   overlap.

## 6. Running

    tlc -config MCStore.cfg MCIONotifyController      (MCNotify, MCLostNotification)
    tlc -config MCObject.cfg MCUniSetObject           (MCLostWakeup)
    tlc -config MCUNet.cfg MCUNetLink                 (MCUNetThreads, MCUNetReinit)
    tlc -config MCUNetChannels.cfg UNetExchange       (MCUNetSwitch)
    tlc -config MCTimers.cfg MCLT_Object
    tlc -config MCEventLoop.cfg CommonEventLoop
    tlapm <module>_proofs.tla
