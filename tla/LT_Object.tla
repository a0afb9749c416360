----------------------------- MODULE LT_Object ------------------------------
(***************************************************************************)
(* The local timers of an object, in time.  The thread of the object waits *)
(* for a message no longer than sleepTime, handles the message, if any,    *)
(* and calls checkTimers(), which sends a message for every timer that has *)
(* gone off and computes the next sleepTime from the time left to each.    *)
(* The handlers order and cancel timers with askTimer().                   *)
(*                                                                         *)
(* Time is discrete and passes only while the thread waits.  Clocks are    *)
(* kept as the time since they were started, up to the bound Far, beyond   *)
(* which nothing depends on them.  The order of the list and the           *)
(* priorities of the messages are left out.  Orders from other threads are *)
(* the subject of UniSetObject.                                            *)
(***************************************************************************)
EXTENDS Integers, FiniteSets, FiniteSetsExt

CONSTANTS
    Timers,             \* timer ids
    Intervals,          \* Intervals[t]: the times timer t is ordered for
    Ticks,              \* numbers of messages ordered; -1 is without end
    MinQuantityTime,    \* shortest time between two checks
    WaitUpTime,         \* no time limit (a number beyond all times)
    Far                 \* bound: clocks stop here

ASSUME TimerAssumption ==
    /\ IsFiniteSet(Timers)
    /\ MinQuantityTime \in Nat /\ MinQuantityTime > 0
    /\ Intervals \in [Timers -> SUBSET (Nat \ {0})]
    /\ Ticks \subseteq Int /\ \A n \in Ticks : n = -1 \/ n > 0
    /\ Far \in Nat /\ WaitUpTime \in Nat /\ WaitUpTime > Far

VARIABLES
    tlst,       \* the ordered timers: [curTimeMS, curTick, interval, clock]
    sleepTime,
    tmLast,     \* time since the last full check
    wait,       \* time left in waitMessage()
    pc,         \* where the thread is
    queued,     \* timer messages in the queue of the object
    asked,      \* history: messages ordered with the last askTimer (0: none)
    again,      \* history: ... which found the timer in the list
    pushed      \* history: messages sent since then

vars == <<tlst, sleepTime, tmLast, wait, pc, queued, asked, again, pushed>>

Ordered == DOMAIN tlst
Least(a, b) == IF a < b THEN a ELSE b
Most(a, b) == IF a < b THEN b ELSE a

Init ==
    /\ tlst = [t \in {} |-> 0]
    /\ sleepTime = WaitUpTime /\ tmLast = 0
    /\ wait = WaitUpTime /\ pc = "wait" /\ queued = 0
    /\ asked = [t \in Timers |-> 0]
    /\ again = [t \in Timers |-> FALSE]
    /\ pushed = [t \in Timers |-> 0]
-----------------------------------------------------------------------------
(* PassiveTimer *)

getLeft_NoFloor(time, clock) == time - clock
getLeft(time, clock) == IF time <= clock THEN 0 ELSE time - clock
checkTime(ti) == ti.clock >= ti.interval

\* One unit of time passes while the thread waits.
Tick ==
    /\ pc = "wait" /\ queued = 0 /\ wait > 0
    /\ wait' = IF wait = WaitUpTime THEN wait ELSE wait - 1
    /\ tmLast' = Least(tmLast + 1, Far)
    /\ tlst' = [t \in Ordered |-> [tlst[t] EXCEPT !.clock = Least(@ + 1, Far)]]
    /\ UNCHANGED <<sleepTime, pc, queued, asked, again, pushed>>
-----------------------------------------------------------------------------
(* The thread: UniSetObject::callback() *)

\* waitMessage() returns with a message from elsewhere, with a timer message or,
\* at the end of the wait, with nothing.
Wake ==
    /\ pc = "wait"
    /\ \/ pc' = "process" /\ queued' = queued
       \/ queued > 0 /\ pc' = "process" /\ queued' = queued - 1
       \/ queued = 0 /\ wait = 0 /\ pc' = "check" /\ queued' = queued
    /\ UNCHANGED <<tlst, sleepTime, tmLast, wait, asked, again, pushed>>

Processed ==
    /\ pc = "process"
    /\ pc' = "check"
    /\ UNCHANGED <<tlst, sleepTime, tmLast, wait, queued, asked, again, pushed>>

NewTimer_AllTicks(ms, ticks) ==
    [curTimeMS |-> ms, curTick |-> ticks, interval |-> ms, clock |-> 0]
NewTimer(ms, ticks) ==
    [curTimeMS |-> ms, curTick |-> ticks - 1, interval |-> ms, clock |-> 0]

\* askTimer() of a timer already in the list sets the clock and the ticks, and
\* leaves curTimeMS and sleepTime as they are.
Renewed(ti, ms, ticks) ==
    [ti EXCEPT !.curTick = ticks, !.interval = ms, !.clock = 0]

Record(t, ticks) ==
    /\ asked' = [asked EXCEPT ![t] = ticks]
    /\ again' = [again EXCEPT ![t] = ticks # 0 /\ t \in Ordered]
    /\ pushed' = [pushed EXCEPT ![t] = 0]

AskTimer(t, time, ticks) ==
    LET ms == Most(time, MinQuantityTime) IN
    /\ pc = "process"
    /\ IF t \in Ordered
       THEN /\ tlst' = [tlst EXCEPT ![t] = Renewed(@, ms, ticks)]
            /\ UNCHANGED sleepTime
       ELSE /\ tlst' = [x \in Ordered \cup {t} |->
                          IF x = t THEN NewTimer(ms, ticks) ELSE tlst[x]]
            /\ sleepTime' = MinQuantityTime
    /\ Record(t, ticks)
    /\ UNCHANGED <<tmLast, wait, pc, queued>>

\* askTimer() with time 0.
CancelTimer(t) ==
    /\ pc = "process"
    /\ tlst' = [x \in Ordered \ {t} |-> tlst[x]]
    /\ sleepTime' = IF Ordered \ {t} = {} THEN WaitUpTime ELSE MinQuantityTime
    /\ Record(t, 0)
    /\ UNCHANGED <<tmLast, wait, pc, queued>>
-----------------------------------------------------------------------------
(* checkTimers() *)

\* The list was checked less than MinQuantityTime ago.
TooSoon == tmLast < MinQuantityTime

Fired == {t \in Ordered : checkTime(tlst[t])}

\* Fired timers whose last tick it was.
Finished == {t \in Fired : tlst[t].curTick = 0}

\* A timer that stays in the list, after the check.
Checked_NotCounted(ti) ==
    IF checkTime(ti)
    THEN [ti EXCEPT !.curTick = IF @ > 0 THEN @ - 1 ELSE @,
                    !.curTimeMS = ti.interval, !.clock = 0]
    ELSE ti
Checked(ti) ==
    IF checkTime(ti)
    THEN [ti EXCEPT !.curTick = IF @ > 0 THEN @ - 1 ELSE @,
                    !.curTimeMS = ti.interval, !.clock = 0]
    ELSE [ti EXCEPT !.curTimeMS = getLeft(@, tmLast)]

\* The thread goes to wait for time units.
SleepFor(time) ==
    /\ sleepTime' = time
    /\ wait' = time
    /\ pc' = "wait"

CheckNothing ==
    /\ pc = "check" /\ Ordered = {}
    /\ SleepFor(WaitUpTime)
    /\ UNCHANGED <<tlst, tmLast, queued, asked, again, pushed>>

\* The protection against a stream of messages.
CheckTooSoon ==
    /\ pc = "check" /\ Ordered # {}
    /\ TooSoon /\ getLeft(sleepTime, tmLast) < MinQuantityTime
    /\ SleepFor(MinQuantityTime)
    /\ UNCHANGED <<tlst, tmLast, queued, asked, again, pushed>>

CheckTimers ==
    /\ pc = "check" /\ Ordered # {}
    /\ TooSoon => getLeft(sleepTime, tmLast) >= MinQuantityTime
    /\ tlst' = [t \in Ordered \ Finished |-> Checked(tlst[t])]
    /\ queued' = queued + Cardinality(Fired)
    /\ pushed' = [t \in Timers |->
                    IF t \in Fired /\ asked[t] > 0 THEN pushed[t] + 1 ELSE pushed[t]]
    /\ SleepFor(IF DOMAIN tlst' = {} THEN WaitUpTime
                ELSE Most(Min({tlst'[t].curTimeMS : t \in DOMAIN tlst'}), MinQuantityTime))
    /\ tmLast' = 0
    /\ UNCHANGED <<asked, again>>

Next ==
    \/ Tick \/ Wake \/ Processed
    \/ CheckNothing \/ CheckTooSoon \/ CheckTimers
    \/ \E t \in Timers :
          \/ CancelTimer(t)
          \/ \E ms \in Intervals[t], n \in Ticks : AskTimer(t, ms, n)

Spec == Init /\ [][Next]_vars
-----------------------------------------------------------------------------
TimerInfo == [curTimeMS : Nat, curTick : Int, interval : Nat, clock : 0 .. Far]

TypeOK ==
    /\ Ordered \subseteq Timers
    /\ tlst \in [Ordered -> TimerInfo]
    /\ sleepTime \in Nat /\ wait \in Nat /\ tmLast \in 0 .. Far
    /\ pc \in {"wait", "process", "check"}
    /\ queued \in Nat

\* A timer goes off in time: less than 2 * MinQuantityTime - 1 after its interval,
\* whatever messages, orders and other timers come in between, as long as it is
\* not ordered again for a shorter time.
InTime ==
    \A t \in Ordered : tlst[t].clock < tlst[t].interval + 2 * MinQuantityTime - 1

\* A timer that was not in the list when it was ordered sends exactly as many
\* messages as askTimer() was asked for, and is then gone.  One that was in the
\* list sends no fewer: it sends one more than LT_Object.h says of ticks, because
\* askTimer() then leaves out the "- 1".
TicksKept ==
    \A t \in Timers : asked[t] > 0 =>
        /\ t \notin Ordered => pushed[t] >= asked[t]
        /\ ~again[t] => IF t \in Ordered THEN pushed[t] < asked[t]
                                         ELSE pushed[t] = asked[t]
-----------------------------------------------------------------------------
(***************************************************************************)
(* What TicksKept rests on: curTick is the number of messages still to be  *)
(* sent, less one.                                                         *)
(***************************************************************************)
\* Messages timer t has to send in all.
Messages(t) == asked[t] + (IF again[t] THEN 1 ELSE 0)

Account(t) ==
    asked[t] > 0 =>
        IF t \in Ordered
        THEN tlst[t].curTick = Messages(t) - 1 - pushed[t] /\ tlst[t].curTick >= 0
        ELSE pushed[t] = Messages(t)

TicksInv ==
    /\ TypeOK
    /\ asked \in [Timers -> Int] /\ again \in [Timers -> BOOLEAN]
    /\ pushed \in [Timers -> Nat]
    /\ \A t \in Timers : Account(t)
-----------------------------------------------------------------------------
(***************************************************************************)
(* What InTime rests on, when no timer is ordered again for a shorter time *)
(* and no clock stops before its timer is late.                            *)
(***************************************************************************)
IntervalsOf(t) == {Most(time, MinQuantityTime) : time \in Intervals[t]}
ClocksReach ==
    \A t \in Timers : \A i \in IntervalsOf(t) : i + 2 * MinQuantityTime - 1 <= Far

\* A step does not order a timer of the list again for a shorter time.
NotShortened == \A t \in Ordered \cap Ordered' : tlst'[t].interval >= tlst[t].interval

\* Each timer is ordered for one interval only.
KeepsInterval == \A t \in Timers : \A i, j \in IntervalsOf(t) : i = j

\* The time left that checkTimers() goes by, curTimeMS less the time since the
\* last check, is never more than the clock of the timer has left.
LeftIsNoMore(ti) ==
    ti.curTimeMS <= ti.interval /\ ti.curTimeMS + ti.clock <= ti.interval + tmLast

\* No timer was overdue at the last check.
NotOverdue(ti) == ti.clock < ti.interval + tmLast

\* The wait ends in time.
WaitEnds(ti) ==
    pc = "wait" => ti.clock + wait < ti.interval + 2 * MinQuantityTime - 1

TimeInv ==
    /\ \A t \in Ordered : tlst[t].interval \in IntervalsOf(t)
    /\ \A t \in Ordered : /\ LeftIsNoMore(tlst[t]) /\ NotOverdue(tlst[t])
                          /\ WaitEnds(tlst[t])
    /\ InTime
=============================================================================
