---------------------------- MODULE UniSetObject ----------------------------
(***************************************************************************)
(* The message queues and the message thread of a uniset object.           *)
(*                                                                         *)
(*  - producers (gRPC handlers) put messages into one of three MQMutex     *)
(*    queues and then call termWaiting(); others order a timer with        *)
(*    askTimer(), which ends in termWaiting() too;                         *)
(*  - the thread of the object, work(), takes the messages in the order of *)
(*    priority and sleeps in PassiveCondTimer::wait() when there are none; *)
(*  - the activator starts and stops that thread, activate()/deactivate(). *)
(*                                                                         *)
(* A message is its number among the messages pushed with its priority.    *)
(* The list of timers of LT_Object is abstracted to "some timer is         *)
(* ordered", which decides between a bounded and an unbounded wait.  The   *)
(* statistics other than the count of lost messages are left out.          *)
(* A name with a suffix (Full_OffByOne) is a faulty variant of the         *)
(* definition that follows it; it shows which property the fault breaks.   *)
(***************************************************************************)
EXTENDS Integers, Sequences

CONSTANTS
    Producers,          \* threads that call push() or askTimer()
    MaxPush,            \* bound: messages pushed in all
    Limits,             \* sizes given to setParams(), which takes 0 too
    InitialLimit,       \* SizeOfMessageQueue at the start: a size above 0
    LostStrategy,       \* of each queue: lostOldData (the default) or lostNewData
    PeriodicTimer       \* the object keeps a timer with ticks = -1 all the time

Priorities == {"Hi", "Medium", "Low"}

ASSUME LimitsAssumption ==
    /\ Limits \subseteq Nat /\ InitialLimit \in Nat \ {0}
    /\ LostStrategy \in [Priorities -> {"lostOldData", "lostNewData"}]
    /\ PeriodicTimer \in BOOLEAN /\ MaxPush \in Nat

VARIABLES
    mq,             \* mqueueHi, mqueueMedium, mqueueLow
    limit,          \* SizeOfMessageQueue (one for the three queues)
    stLost,         \* stCountOfLostMessages of each queue
    ppc,            \* where each producer is
    pc,             \* where the message thread is
    second,         \* waitMessage() has already slept
    waitTime,       \* the argument of waitMessage(), the result of checkTimers()
    sleepTime,      \* LT_Object::sleepTime
    timers,         \* LT_Object::tlst is not empty
    terminated,     \* PassiveCondTimer::terminated
    active,         \* UniSetObject::active
    a_working,      \* the thread runs, as waitFinish() sees it
    apc,            \* where the activator is
    cnt, last, taken,   \* history: pushed, last taken and number taken
    overtaken       \* history: see OvertakenOnce

queueVars == <<mq, limit, stLost, cnt, last, taken, overtaken>>
threadVars == <<pc, second, waitTime>>
timerVars == <<sleepTime, timers>>
lifeVars == <<active, a_working, apc>>
vars == <<queueVars, threadVars, timerVars, terminated, lifeVars, ppc>>
-----------------------------------------------------------------------------
Times == {"Finite", "WaitUpTime"}

\* How long to sleep with, or without, a timer in tlst.
SleepFor(some) == IF some THEN "Finite" ELSE "WaitUpTime"

ThreadPC == {"none", "start", "loop", "Hi", "Medium", "Low", "enter", "sleep",
             "process", "check", "assign", "exit", "ended"}
ActivatorPC == {"off", "on", "terminate", "finish", "join"}

Init ==
    /\ mq = [p \in Priorities |-> <<>>]
    /\ limit = InitialLimit
    /\ stLost = [p \in Priorities |-> 0]
    /\ ppc = [r \in Producers |-> "idle"]
    /\ pc = "none" /\ second = FALSE /\ waitTime = "WaitUpTime"
    /\ timers = PeriodicTimer
    /\ sleepTime = SleepFor(PeriodicTimer)
    /\ terminated = TRUE
    /\ active = FALSE /\ a_working = FALSE /\ apc = "off"
    /\ cnt = [p \in Priorities |-> 0]
    /\ last = [p \in Priorities |-> 0]
    /\ taken = [p \in Priorities |-> 0]
    /\ overtaken = 0
-----------------------------------------------------------------------------
(* MQMutex *)

Full_OffByOne(q) == Len(q) > limit
\* There is no room for one more message.
Full(q) == Len(q) + 1 > limit

Pushed_AtFront(p, q, m) == IF Full(q) THEN q ELSE <<m>> \o q
Pushed_DropsNewest(p, q, m) ==
    IF ~Full(q) THEN Append(q, m)
    ELSE IF q = <<>> THEN q ELSE Append(SubSeq(q, 1, Len(q) - 1), m)
\* What MQMutex::push of m makes of q, the queue of priority p.  With size 0 and
\* nothing to drop, pop_front() of the empty deque is undefined: the process
\* dies, or the front gets past the end (libstdc++), and push_back() makes the
\* deque empty again, without m.
Pushed(p, q, m) ==
    IF ~Full(q) THEN Append(q, m)
    ELSE IF LostStrategy[p] = "lostNewData" \/ q = <<>> THEN q
    ELSE Append(Tail(q), m)

QueuePush_LossNotCounted(p) ==
    /\ cnt' = [cnt EXCEPT ![p] = @ + 1]
    /\ mq' = [mq EXCEPT ![p] = Pushed(p, @, cnt[p] + 1)]
    /\ UNCHANGED <<stLost, limit, last, taken, overtaken>>
QueuePush_CountsExcess(p) ==
    /\ cnt' = [cnt EXCEPT ![p] = @ + 1]
    /\ mq' = [mq EXCEPT ![p] = Pushed(p, @, cnt[p] + 1)]
    /\ stLost' = [stLost EXCEPT ![p] = @ + Len(mq[p]) + 1 - limit]
    /\ UNCHANGED <<limit, last, taken, overtaken>>
\* MQMutex::push under qmutex.
QueuePush(p) ==
    /\ cnt' = [cnt EXCEPT ![p] = @ + 1]
    /\ mq' = [mq EXCEPT ![p] = Pushed(p, @, cnt[p] + 1)]
    /\ stLost' = [stLost EXCEPT ![p] = IF Full(mq[p]) THEN @ + 1 ELSE @]
    /\ UNCHANGED <<limit, last, taken, overtaken>>

\* MQMutex::top of a queue that is not empty.
QueueTop(p) ==
    /\ mq' = [mq EXCEPT ![p] = Tail(@)]
    /\ last' = [last EXCEPT ![p] = Head(mq[p])]
    /\ taken' = [taken EXCEPT ![p] = @ + 1]
    /\ overtaken' = IF p = "Hi" THEN 0
                    ELSE IF mq["Hi"] # <<>> THEN overtaken + 1 ELSE overtaken
    /\ UNCHANGED <<limit, stLost, cnt>>

\* setParams() -> setMaxSizeOfMessageQueue(), at any time and unchecked.  The
\* queues get it one after the other; no property relates two of their sizes.
SetMaxSize(n) ==
    /\ limit' = n
    /\ UNCHANGED <<mq, stLost, cnt, last, taken, overtaken>>
    /\ UNCHANGED <<threadVars, timerVars, terminated, lifeVars, ppc>>
-----------------------------------------------------------------------------
(* Producers *)

CanPush == cnt["Hi"] + cnt["Medium"] + cnt["Low"] < MaxPush

\* UniSetObject::push, up to termWaiting().
Push(r, p) ==
    /\ ppc[r] = "idle"
    /\ CanPush
    /\ QueuePush(p)
    /\ ppc' = [ppc EXCEPT ![r] = "wakeup"]
    /\ UNCHANGED <<threadVars, timerVars, terminated, lifeVars>>

\* LT_Object::askTimer: a new timer is ordered (on), or one is cancelled; a
\* timer that is in the list already leaves sleepTime alone.
OrderTimer(on) ==
    /\ timers' = (on \/ PeriodicTimer)
    /\ \/ sleepTime' = SleepFor(timers')
       \/ on /\ timers /\ sleepTime' = sleepTime

\* UniSetObject::askTimer, up to termWaiting(), called unless the result is
\* WaitUpTime.
AskTimer(r, on) ==
    /\ ppc[r] = "idle"
    /\ OrderTimer(on)
    /\ ppc' = [ppc EXCEPT ![r] = IF sleepTime' = "Finite" THEN "wakeup" ELSE "idle"]
    /\ UNCHANGED <<queueVars, threadVars, terminated, lifeVars>>

\* termWaiting() -> PassiveCondTimer::terminate().
TermWaiting(r) ==
    /\ ppc[r] = "wakeup"
    /\ terminated' = TRUE
    /\ ppc' = [ppc EXCEPT ![r] = "idle"]
    /\ UNCHANGED <<queueVars, threadVars, timerVars, lifeVars>>
-----------------------------------------------------------------------------
(* The message thread *)

\* waitFinish() keeps m_working locked while it joins the thread.
WorkingMutexFree == apc # "join"

FirstQueue_Medium == "Medium"
\* receiveMessage() looks at the queues in the order of priority.
FirstQueue == "Hi"
Following(p) == IF p = "Hi" THEN "Medium" ELSE "Low"

\* work() begins.
ThreadStart ==
    /\ pc = "start"
    /\ WorkingMutexFree
    /\ a_working' = TRUE
    /\ pc' = "loop"
    /\ UNCHANGED <<queueVars, second, waitTime, timerVars, terminated, active, apc, ppc>>

\* while( isActive() ) callback(): waitMessage(sleepTime) is called.
Loop ==
    /\ pc = "loop"
    /\ IF active
       THEN pc' = FirstQueue /\ second' = FALSE /\ waitTime' = sleepTime
       ELSE pc' = "exit" /\ UNCHANGED <<second, waitTime>>
    /\ UNCHANGED <<queueVars, timerVars, terminated, lifeVars, ppc>>

\* receiveMessage(): each queue is locked on its own.
Receive(p) ==
    /\ pc = p
    /\ mq[p] # <<>>
    /\ QueueTop(p)
    /\ pc' = "process"
    /\ UNCHANGED <<second, waitTime, timerVars, terminated, lifeVars, ppc>>

\* Nothing in queue p.  The last queue empty: waitMessage() sleeps, or, when
\* it has slept already, returns without a message.
ReceiveNothing(p) ==
    /\ pc = p
    /\ mq[p] = <<>>
    /\ pc' = IF p # "Low" THEN Following(p)
             ELSE IF second THEN "check" ELSE "enter"
    /\ UNCHANGED <<queueVars, second, waitTime, timerVars, terminated, lifeVars, ppc>>

\* PassiveCondTimer::wait takes its mutex: a terminate() that came before
\* is forgotten.
WaitEnter ==
    /\ pc = "enter"
    /\ terminated' = FALSE
    /\ pc' = "sleep"
    /\ UNCHANGED <<queueVars, second, waitTime, timerVars, lifeVars, ppc>>

WaitLeave_NoTimeout ==
    /\ pc = "sleep"
    /\ terminated
    /\ second' = TRUE
    /\ pc' = FirstQueue
    /\ UNCHANGED <<queueVars, waitTime, timerVars, terminated, lifeVars, ppc>>
\* The wait ends by terminate() or, unless it is for WaitUpTime, by time.
WaitLeave ==
    /\ pc = "sleep"
    /\ terminated \/ waitTime = "Finite"
    /\ terminated' = TRUE
    /\ second' = TRUE
    /\ pc' = FirstQueue
    /\ UNCHANGED <<queueVars, waitTime, timerVars, lifeVars, ppc>>

\* processingMessage(): the handler of the user, which may order or cancel a
\* timer of its own.
Process ==
    /\ pc = "process"
    /\ pc' = "check"
    /\ \/ UNCHANGED <<timerVars, terminated>>
       \/ \E on \in BOOLEAN :
             /\ OrderTimer(on)
             /\ terminated' = (terminated \/ sleepTime' = "Finite")
    /\ UNCHANGED <<queueVars, second, waitTime, lifeVars, ppc>>

\* The object was deactivated meanwhile: callback() returns.
SkipTimers ==
    /\ pc = "check"
    /\ ~active
    /\ pc' = "loop"
    /\ UNCHANGED <<queueVars, second, waitTime, timerVars, terminated, lifeVars, ppc>>

\* LT_Object::checkTimers: a timer that has gone off pushes a message into a
\* queue of the object, and leaves the list with its last tick.
CheckTimers ==
    /\ pc = "check"
    /\ active
    /\ \/ /\ timers' = timers
          /\ UNCHANGED <<queueVars, terminated>>
       \/ /\ timers /\ CanPush
          /\ \E p \in Priorities : QueuePush(p)
          /\ timers' \in {TRUE, PeriodicTimer}
          /\ terminated' = TRUE
    /\ sleepTime' = SleepFor(timers')
    /\ waitTime' = sleepTime'
    /\ pc' = "assign"
    /\ UNCHANGED <<second, lifeVars, ppc>>

\* callback() stores the result of checkTimers() once more, outside lstMutex.
AssignSleepTime ==
    /\ pc = "assign"
    /\ sleepTime' = waitTime
    /\ pc' = "loop"
    /\ UNCHANGED <<queueVars, second, waitTime, timers, terminated, lifeVars, ppc>>

\* work() ends and wakes waitFinish() ...
ThreadExit ==
    /\ pc = "exit"
    /\ WorkingMutexFree
    /\ a_working' = FALSE
    /\ pc' = "ended"
    /\ UNCHANGED <<queueVars, second, waitTime, timerVars, terminated, active, apc, ppc>>

\* ... and the thread terminates some time later.
ThreadEnd ==
    /\ pc = "ended"
    /\ pc' = "none"
    /\ UNCHANGED <<queueVars, second, waitTime, timerVars, terminated, lifeVars, ppc>>
-----------------------------------------------------------------------------
(* The activator *)

Activate_NotYetWorking ==
    /\ apc = "off"
    /\ active' = TRUE
    /\ pc' = "start"
    /\ apc' = "on"
    /\ UNCHANGED <<queueVars, second, waitTime, timerVars, terminated, a_working, ppc>>
\* activate(): the flag, a_working under m_working, the thread.
Activate ==
    /\ apc = "off"
    /\ active' = TRUE
    /\ a_working' = TRUE
    /\ pc' = "start"
    /\ apc' = "on"
    /\ UNCHANGED <<queueVars, second, waitTime, timerVars, terminated, ppc>>

\* deactivate(): setActive(false) ...
Deactivate ==
    /\ apc = "on"
    /\ active' = FALSE
    /\ apc' = "terminate"
    /\ UNCHANGED <<queueVars, threadVars, timerVars, terminated, a_working, ppc>>

\* ... tmr->terminate() ...
DeactivateTerminate ==
    /\ apc = "terminate"
    /\ terminated' = TRUE
    /\ apc' = "finish"
    /\ UNCHANGED <<queueVars, threadVars, timerVars, active, a_working, ppc>>

\* ... waitFinish(): waits for a_working = false and keeps m_working ...
WaitFinish ==
    /\ apc = "finish"
    /\ ~a_working
    /\ apc' = "join"
    /\ UNCHANGED <<queueVars, threadVars, timerVars, terminated, active, a_working, ppc>>

Join_NoWait ==
    /\ apc = "join"
    /\ apc' = "off"
    /\ UNCHANGED <<queueVars, threadVars, timerVars, terminated, active, a_working, ppc>>
\* ... while it joins the thread.
Join ==
    /\ apc = "join"
    /\ pc = "none"
    /\ apc' = "off"
    /\ UNCHANGED <<queueVars, threadVars, timerVars, terminated, active, a_working, ppc>>
-----------------------------------------------------------------------------
ThreadStep ==
    \/ ThreadStart \/ Loop \/ WaitEnter \/ WaitLeave
    \/ Process \/ SkipTimers \/ CheckTimers \/ AssignSleepTime
    \/ ThreadExit \/ ThreadEnd
    \/ \E p \in Priorities : Receive(p) \/ ReceiveNothing(p)

DeactivateStep == DeactivateTerminate \/ WaitFinish \/ Join

Next ==
    \/ \E r \in Producers : \/ \E p \in Priorities : Push(r, p)
                            \/ \E on \in BOOLEAN : AskTimer(r, on)
                            \/ TermWaiting(r)
    \/ \E n \in Limits : SetMaxSize(n)
    \/ ThreadStep
    \/ Activate \/ Deactivate \/ DeactivateStep

Spec == Init /\ [][Next]_vars

\* Threads that can go on do go on; nobody has to push, activate or stop.
FairSpec ==
    /\ Spec
    /\ WF_vars(ThreadStep)
    /\ WF_vars(DeactivateStep)
    /\ \A r \in Producers : WF_vars(TermWaiting(r))
-----------------------------------------------------------------------------
(* Properties *)

\* Types of the queues.
QueueTypeOK ==
    /\ mq \in [Priorities -> Seq(Nat)]
    /\ limit \in Limits \cup {InitialLimit}
    /\ stLost \in [Priorities -> Nat]
    /\ cnt \in [Priorities -> Nat] /\ last \in [Priorities -> Nat]
    /\ taken \in [Priorities -> Nat]
    /\ overtaken \in Nat

\* Types of the threads and of what they share.
ThreadTypeOK ==
    /\ ppc \in [Producers -> {"idle", "wakeup"}]
    /\ pc \in ThreadPC /\ second \in BOOLEAN
    /\ waitTime \in Times /\ sleepTime \in Times
    /\ timers \in BOOLEAN /\ terminated \in BOOLEAN
    /\ active \in BOOLEAN /\ a_working \in BOOLEAN
    /\ apc \in ActivatorPC

TypeOK == QueueTypeOK /\ ThreadTypeOK

\* No message disappears without being counted: the messages pushed with a
\* priority are those in the queue, those taken and those counted as lost
\* (MQMutex::push and top, stCountOfLostMessages).
MessagesAccounted ==
    \A p \in Priorities : cnt[p] = Len(mq[p]) + taken[p] + stLost[p]

Ordered(q, first, c) ==
    /\ first <= c
    /\ \A i \in 1..Len(q) : first < q[i] /\ q[i] <= c
    /\ \A i, j \in 1..Len(q) : i < j => q[i] < q[j]

\* Messages of one priority are taken in the order in which they were pushed,
\* also across overflow, a change of the limit and a restart of the thread.
InOrder == \A p \in Priorities : Ordered(mq[p], last[p], cnt[p])

Latest(q, c) == \A i \in 1..Len(q) : q[i] = c - Len(q) + i

\* With lostOldData an overflow loses the oldest: the queue always holds the
\* latest messages without a gap.
LatestKept ==
    \A p \in Priorities : LostStrategy[p] = "lostOldData" => Latest(mq[p], cnt[p])

\* A queue never exceeds every limit it may have had.
QueueBounded ==
    \A p \in Priorities : \E n \in Limits \cup {InitialLimit} : Len(mq[p]) <= n

\* At most one message of a lower priority is taken while a message of the
\* highest priority waits: receiveMessage() looks at the queues one by one.
OvertakenOnce == overtaken <= 1

\* deactivate() returns only when the message thread has ended, and the next
\* activate() never runs beside a thread of the previous one.
NoThreadLeft == apc = "off" => pc = "none" /\ ~a_working

Waits(p, m) == active /\ \E i \in 1..Len(mq[p]) : mq[p][i] = m
Above(p) == IF p = "Hi" THEN {} ELSE IF p = "Medium" THEN {"Hi"} ELSE {"Hi", "Medium"}

\* No message waits for ever in the queue of an active object: push() ends the
\* wait of the thread.  Only messages of a higher priority that keep coming may
\* hold it up, as UniSetObject.h warns.
MessagesTaken ==
    \A p \in Priorities : \A m \in 1..MaxPush :
       []<>~Waits(p, m) \/ []<>(\E h \in Above(p) : mq[h] # <<>>)

\* deactivate() comes to its end: the thread leaves work() and is joined.
DeactivateReturns == apc = "terminate" ~> apc = "off"
-----------------------------------------------------------------------------
(***************************************************************************)
(* What the safety properties rest on.  A message of the highest priority  *)
(* that was overtaken is still there when the thread looks at its queue    *)
(* again, and looks at it first; a_working says where the thread is.       *)
(***************************************************************************)
Overtaking ==
    /\ OvertakenOnce
    /\ overtaken = 1 => mq["Hi"] # <<>>
    /\ pc \in {"Medium", "Low"} => overtaken = 0

Working ==
    /\ a_working <=> pc \notin {"none", "ended"}
    /\ apc = "off" => pc = "none"

QueueInv == MessagesAccounted /\ InOrder /\ LatestKept /\ QueueBounded

ObjectInv == TypeOK /\ QueueInv /\ Overtaking /\ Working
=============================================================================
