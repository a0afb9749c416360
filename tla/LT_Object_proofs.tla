-------------------------- MODULE LT_Object_proofs --------------------------
(* Proofs about the timers of an object, for all timers, intervals and ticks. *)
EXTENDS LT_Object, FiniteSetTheorems, WellFoundedInduction, TLAPS

LEMMA LeastOf ==
  ASSUME NEW S, S \subseteq Nat, S # {}
  PROVE  Min(S) \in S /\ \A y \in S : Min(S) <= y
<1>1. PICK x \in S : \A y \in S : ~(<<y, x>> \in OpToRel(<, Nat))
  BY NatLessThanWellFounded, WFMin
<1>2. \A y \in S : ~(y < x)
  BY <1>1 DEF OpToRel
<1>3. \A y \in S : x <= y
  BY <1>2
<1> QED
  BY <1>3 DEF Min

LEMMA FiredFinite == ASSUME Ordered \subseteq Timers PROVE Cardinality(Fired) \in Nat
<1>1. IsFiniteSet(Fired)
  BY TimerAssumption, FS_Subset DEF Fired
<1> QED
  BY <1>1, FS_CardinalityType

LEMMA TicksInit == Init => TicksInv
<1> SUFFICES ASSUME Init PROVE TicksInv
  OBVIOUS
<1>1. Ordered = {} /\ tlst \in [Ordered -> TimerInfo]
  BY DEF Init, Ordered
<1>2. TypeOK
  BY <1>1, TimerAssumption DEF Init, TypeOK
<1>3. again \in [Timers -> BOOLEAN]
  BY DEF Init
<1> QED
  BY <1>2, <1>3 DEF Init, TicksInv, Account

\* The accounts of timer t do not change.
Kept(t) ==
    /\ asked'[t] = asked[t] /\ again'[t] = again[t] /\ pushed'[t] = pushed[t]
    /\ t \in Ordered' <=> t \in Ordered
    /\ t \in Ordered => tlst'[t].curTick = tlst[t].curTick

LEMMA KeptAccount ==
  ASSUME NEW t \in Timers, Account(t), Kept(t) PROVE Account(t)'
  BY DEF Account, Kept, Messages

LEMMA TickStep == TicksInv /\ Tick => TicksInv'
<1> SUFFICES ASSUME TicksInv, Tick PROVE TicksInv'
  OBVIOUS
<1>1. /\ Ordered' = Ordered
      /\ \A t \in Ordered : tlst'[t] = [tlst[t] EXCEPT !.clock = Least(@ + 1, Far)]
  BY DEF Tick, Ordered
<1>2. ASSUME NEW t \in Ordered
      PROVE  tlst'[t] \in TimerInfo /\ tlst'[t].curTick = tlst[t].curTick
  <2>1. tlst[t] \in TimerInfo
    BY DEF TicksInv, TypeOK
  <2>2. Least(tlst[t].clock + 1, Far) \in 0 .. Far
    BY <2>1, TimerAssumption DEF TimerInfo, Least
  <2> QED
    BY <1>1, <2>1, <2>2 DEF TimerInfo
<1>3. tlst' \in [Ordered' -> TimerInfo]
  BY <1>1, <1>2 DEF Tick
<1>4. TypeOK'
  BY <1>1, <1>3, TimerAssumption DEF TicksInv, TypeOK, Tick, Least
<1>5. \A t \in Timers : Kept(t)
  BY <1>1, <1>2 DEF Tick, Kept
<1> QED
  BY <1>4, <1>5, KeptAccount DEF Tick, TicksInv

\* The steps that leave the list and the accounts alone.
LEMMA QuietStep ==
  ASSUME TicksInv, UNCHANGED <<tlst, asked, again, pushed>>, TypeOK' PROVE TicksInv'
<1>1. \A t \in Timers : Kept(t)
  BY DEF Kept, Ordered
<1> QED
  BY <1>1, KeptAccount DEF TicksInv

LEMMA RenewedTyped ==
  ASSUME NEW ti \in TimerInfo, NEW ms \in Nat, NEW ticks \in Int
  PROVE  Renewed(ti, ms, ticks) \in TimerInfo
<1>1. 0 \in 0 .. Far
  BY TimerAssumption
<1> QED
  BY <1>1 DEF TimerInfo, Renewed

\* A new order of timer t begins its account anew.
LEMMA AskStep ==
  ASSUME TicksInv, NEW t \in Timers, NEW time \in Intervals[t], NEW ticks \in Ticks,
         AskTimer(t, time, ticks)
  PROVE  TicksInv'
<1> DEFINE ms == Most(time, MinQuantityTime)
<1>1. ms \in Nat /\ ticks \in Int /\ (ticks = -1 \/ ticks > 0)
  BY TimerAssumption DEF Most
<1>2. /\ asked' \in [Timers -> Int] /\ again' \in [Timers -> BOOLEAN]
      /\ pushed' \in [Timers -> Nat]
  BY <1>1 DEF TicksInv, AskTimer, Record
<1>3. /\ Ordered' = Ordered \cup {t}
      /\ tlst'[t] = IF t \in Ordered THEN Renewed(tlst[t], ms, ticks) ELSE NewTimer(ms, ticks)
      /\ \A x \in Ordered \ {t} : tlst'[x] = tlst[x]
      /\ tlst' = [x \in Ordered' |-> tlst'[x]]
  BY DEF AskTimer, Ordered, TicksInv, TypeOK
<1> HIDE DEF ms
<1>4. tlst'[t] \in TimerInfo
  <2>1. CASE t \in Ordered
    <3>1. tlst[t] \in TimerInfo
      BY <2>1 DEF TicksInv, TypeOK
    <3>2. Renewed(tlst[t], ms, ticks) \in TimerInfo
      BY <1>1, <3>1, RenewedTyped
    <3> QED
      BY <1>3, <2>1, <3>2
  <2>2. CASE t \notin Ordered
    <3>1. NewTimer(ms, ticks) \in TimerInfo
      BY <1>1, TimerAssumption DEF TimerInfo, NewTimer
    <3> QED
      BY <1>3, <2>2, <3>1
  <2> QED
    BY <2>1, <2>2
<1>5. tlst' \in [Ordered' -> TimerInfo]
  BY <1>3, <1>4 DEF TicksInv, TypeOK
<1>6. TypeOK'
  BY <1>3, <1>5, TimerAssumption DEF TicksInv, TypeOK, AskTimer
<1>7. \A x \in Timers \ {t} : Kept(x)
  BY <1>3 DEF AskTimer, Record, Kept, TicksInv
<1>8. Account(t)'
  <2>1. asked'[t] = ticks /\ pushed'[t] = 0 /\ again'[t] = (ticks # 0 /\ t \in Ordered)
    BY DEF AskTimer, Record, TicksInv
  <2>2. CASE t \in Ordered
    <3>1. tlst'[t].curTick = ticks
      BY <1>3, <2>2 DEF Renewed, TicksInv, TypeOK, TimerInfo
    <3>2. ticks > 0 => again'[t]
      <4>1. ticks > 0 => ticks # 0
        BY <1>1
      <4> QED
        BY <2>1, <2>2, <4>1
    <3> QED
      BY <1>1, <1>3, <2>1, <3>1, <3>2 DEF Account, Messages
  <2>3. CASE t \notin Ordered
    <3>1. tlst'[t].curTick = ticks - 1
      BY <1>3, <2>3 DEF NewTimer
    <3>2. ~again'[t]
      BY <2>1, <2>3
    <3> QED
      BY <1>1, <1>3, <2>1, <3>1, <3>2 DEF Account, Messages
  <2> QED
    BY <2>2, <2>3
<1> QED
  BY <1>2, <1>6, <1>7, <1>8, KeptAccount DEF TicksInv

LEMMA CancelStep ==
  ASSUME TicksInv, NEW t \in Timers, CancelTimer(t) PROVE TicksInv'
<1>1. /\ asked' \in [Timers -> Int] /\ again' \in [Timers -> BOOLEAN]
      /\ pushed' \in [Timers -> Nat]
  BY DEF TicksInv, CancelTimer, Record
<1>2. Ordered' = Ordered \ {t} /\ \A x \in Ordered \ {t} : tlst'[x] = tlst[x]
  BY DEF CancelTimer, Ordered
<1>3. tlst' \in [Ordered' -> TimerInfo]
  BY <1>2 DEF CancelTimer, TicksInv, TypeOK
<1>4. TypeOK'
  BY <1>2, <1>3, TimerAssumption DEF TicksInv, TypeOK, CancelTimer
<1>5. \A x \in Timers \ {t} : Kept(x)
  BY <1>2 DEF CancelTimer, Record, Kept, TicksInv
<1>6. Account(t)'
  BY DEF CancelTimer, Record, Account, TicksInv
<1> QED
  BY <1>1, <1>4, <1>5, <1>6, KeptAccount DEF TicksInv

\* checkTimers(): a timer that goes off sends a message and counts it.
LEMMA CheckStep == TicksInv /\ CheckTimers => TicksInv'
<1> SUFFICES ASSUME TicksInv, CheckTimers PROVE TicksInv'
  OBVIOUS
<1>1. /\ Ordered' = Ordered \ Finished
      /\ \A t \in Ordered \ Finished : tlst'[t] = Checked(tlst[t])
      /\ tlst' = [t \in Ordered' |-> tlst'[t]]
  BY DEF CheckTimers, Ordered
<1>2. \A t \in Ordered : tlst[t] \in TimerInfo
  BY DEF TicksInv, TypeOK
<1>3. ASSUME NEW t \in Ordered PROVE Checked(tlst[t]) \in TimerInfo
  <2>1. tlst[t] \in TimerInfo /\ tmLast \in Nat
    BY <1>2 DEF TicksInv, TypeOK
  <2>2. getLeft(tlst[t].curTimeMS, tmLast) \in Nat
    BY <2>1 DEF TimerInfo, getLeft
  <2>3. (IF tlst[t].curTick > 0 THEN tlst[t].curTick - 1 ELSE tlst[t].curTick) \in Int
    BY <2>1 DEF TimerInfo
  <2>4. CASE checkTime(tlst[t])
    <3> DEFINE n == IF tlst[t].curTick > 0 THEN tlst[t].curTick - 1 ELSE tlst[t].curTick
    <3>1. Checked(tlst[t])
            = [curTimeMS |-> tlst[t].interval, curTick |-> n,
               interval |-> tlst[t].interval, clock |-> 0]
      BY <2>1, <2>4 DEF Checked, TimerInfo
    <3>2. 0 \in 0 .. Far
      BY TimerAssumption
    <3> HIDE DEF n
    <3>3. n \in Int
      BY <2>3 DEF n
    <3> QED
      BY <2>1, <3>1, <3>2, <3>3 DEF TimerInfo
  <2>5. CASE ~checkTime(tlst[t])
    BY <2>1, <2>2, <2>5 DEF TimerInfo, Checked
  <2> QED
    BY <2>4, <2>5
<1>4. tlst' \in [Ordered' -> TimerInfo]
  BY <1>1, <1>3
<1>5. sleepTime' \in Nat /\ wait' \in Nat
  <2> DEFINE left == {tlst'[t].curTimeMS : t \in DOMAIN tlst'}
  <2>1. CASE DOMAIN tlst' = {}
    BY <2>1, TimerAssumption DEF CheckTimers, SleepFor
  <2>2. CASE DOMAIN tlst' # {}
    <3>1. left \subseteq Nat /\ left # {}
      BY <1>4, <2>2 DEF TimerInfo, Ordered
    <3>2. Min(left) \in Nat
      BY <3>1, LeastOf
    <3> QED
      BY <2>2, <3>2, TimerAssumption DEF CheckTimers, SleepFor, Most
  <2> QED
    BY <2>1, <2>2
<1>6. TypeOK'
  BY <1>1, <1>4, <1>5, FiredFinite, TimerAssumption DEF TicksInv, TypeOK, CheckTimers, SleepFor
<1>7. /\ asked' = asked /\ again' = again /\ pushed' \in [Timers -> Nat]
      /\ \A t \in Timers : pushed'[t] = IF t \in Fired /\ asked[t] > 0 THEN pushed[t] + 1 ELSE pushed[t]
  BY DEF TicksInv, CheckTimers
<1>8. ASSUME NEW t \in Timers PROVE Account(t)'
  <2>1. Account(t)
    BY DEF TicksInv
  <2>2. CASE t \in Ordered /\ t \notin Fired
    <3>1. t \in Ordered' /\ tlst'[t].curTick = tlst[t].curTick
      BY <1>1, <1>2, <2>2 DEF Finished, Fired, Checked, TimerInfo
    <3> QED
      BY <1>7, <2>1, <2>2, <3>1, KeptAccount DEF Kept
  <2>3. CASE t \notin Ordered
    BY <1>1, <1>7, <2>1, <2>3, KeptAccount DEF Kept, Fired
  <2>4. CASE t \in Finished
    BY <1>1, <1>7, <2>1, <2>4 DEF Account, Messages, Finished, Fired, TicksInv
  <2>5. CASE t \in Fired \ Finished
    <3>1. /\ t \in Ordered /\ t \in Ordered' /\ tlst[t].curTick \in Int
          /\ tlst[t].curTick # 0
          /\ tlst[t].curTick > 0 => tlst'[t].curTick = tlst[t].curTick - 1
      BY <1>1, <1>2, <2>5 DEF Finished, Fired, Checked, TimerInfo
    <3> QED
      BY <1>7, <2>1, <2>5, <3>1 DEF Account, Messages, TicksInv
  <2> QED
    BY <2>2, <2>3, <2>4, <2>5
<1> QED
  BY <1>6, <1>7, <1>8 DEF TicksInv

LEMMA TicksStep == TicksInv /\ [Next]_vars => TicksInv'
<1> SUFFICES ASSUME TicksInv, [Next]_vars PROVE TicksInv'
  OBVIOUS
<1>1. CASE Tick
  BY <1>1, TickStep
<1>2. CASE Wake
  <2>1. TypeOK'
    BY <1>2 DEF Wake, TicksInv, TypeOK, Ordered
  <2> QED
    BY <1>2, <2>1, QuietStep DEF Wake
<1>3. CASE Processed
  <2>1. TypeOK'
    BY <1>3 DEF Processed, TicksInv, TypeOK, Ordered
  <2> QED
    BY <1>3, <2>1, QuietStep DEF Processed
<1>4. CASE CheckNothing
  <2>1. TypeOK'
    BY <1>4, TimerAssumption DEF CheckNothing, SleepFor, TicksInv, TypeOK, Ordered
  <2> QED
    BY <1>4, <2>1, QuietStep DEF CheckNothing
<1>5. CASE CheckTooSoon
  <2>1. TypeOK'
    BY <1>5, TimerAssumption DEF CheckTooSoon, SleepFor, TicksInv, TypeOK, Ordered
  <2> QED
    BY <1>5, <2>1, QuietStep DEF CheckTooSoon
<1>6. CASE CheckTimers
  BY <1>6, CheckStep
<1>7. ASSUME NEW t \in Timers, CancelTimer(t) PROVE TicksInv'
  BY <1>7, CancelStep
<1>8. ASSUME NEW t \in Timers, NEW ms \in Intervals[t], NEW n \in Ticks, AskTimer(t, ms, n)
      PROVE  TicksInv'
  BY <1>8, AskStep
<1>9. CASE UNCHANGED vars
  <2>1. TypeOK'
    BY <1>9 DEF vars, TicksInv, TypeOK, Ordered
  <2> QED
    BY <1>9, <2>1, QuietStep DEF vars
<1> QED
  BY <1>1, <1>2, <1>3, <1>4, <1>5, <1>6, <1>7, <1>8, <1>9 DEF Next

LEMMA TicksAlways == Spec => []TicksInv
  BY TicksInit, TicksStep, PTL DEF Spec

\* The list, the clocks and the waiting times keep their types: no time left is
\* ever negative.
THEOREM TimersTyped == Spec => []TypeOK
<1>1. TicksInv => TypeOK
  BY DEF TicksInv
<1> QED
  BY <1>1, TicksAlways, PTL

\* A timer that was new in the list sends exactly the messages askTimer() was
\* asked for, one that was in it no fewer, whatever else is ordered, cancelled or
\* received.
THEOREM TicksAlwaysKept == Spec => []TicksKept
<1>1. TicksInv => TicksKept
  <2> SUFFICES ASSUME TicksInv, NEW t \in Timers, asked[t] > 0
               PROVE  /\ t \notin Ordered => pushed[t] >= asked[t]
                      /\ ~again[t] => IF t \in Ordered THEN pushed[t] < asked[t]
                                                       ELSE pushed[t] = asked[t]
    BY DEF TicksKept
  <2>1. pushed[t] \in Nat /\ asked[t] \in Int /\ again[t] \in BOOLEAN
    BY DEF TicksInv
  <2>2. Messages(t) \in Int /\ Messages(t) >= asked[t] /\ (~again[t] => Messages(t) = asked[t])
    BY <2>1 DEF Messages
  <2>3. Account(t)
    BY DEF TicksInv
  <2> QED
    BY <2>1, <2>2, <2>3 DEF Account
<1> QED
  BY <1>1, TicksAlways, PTL
-----------------------------------------------------------------------------
(* A timer goes off in time *)

LEMMA TimerKnown ==
  ASSUME TicksInv, TimeInv, NEW t \in Ordered
  PROVE  /\ t \in Timers /\ tlst[t] \in TimerInfo
         /\ tlst[t].curTimeMS \in Nat /\ tlst[t].interval \in Nat
         /\ tlst[t].clock \in 0 .. Far
         /\ tlst[t].interval \in IntervalsOf(t) /\ tlst[t].interval > 0
         /\ LeftIsNoMore(tlst[t]) /\ NotOverdue(tlst[t]) /\ WaitEnds(tlst[t])
         /\ tlst[t].clock < tlst[t].interval + 2 * MinQuantityTime - 1
<1>1. t \in Timers /\ tlst[t] \in TimerInfo
  BY DEF TicksInv, TypeOK
<1>2. tlst[t].interval \in IntervalsOf(t)
  BY DEF TimeInv
<1>3. tlst[t].interval > 0
  BY <1>1, <1>2, TimerAssumption DEF IntervalsOf, Most
<1> QED
  BY <1>1, <1>2, <1>3 DEF TimeInv, InTime, TimerInfo

\* The steps that leave the timers and their times alone.
LEMMA TimesKept ==
  ASSUME TimeInv, UNCHANGED <<tlst, tmLast>>, pc' # "wait" \/ (pc' = pc /\ wait' = wait)
  PROVE  TimeInv'
  BY DEF TimeInv, LeftIsNoMore, NotOverdue, WaitEnds, InTime, Ordered

LEMMA TickInTime ==
  ASSUME ClocksReach, TicksInv, TimeInv, Tick PROVE TimeInv'
<1>1. /\ Ordered' = Ordered
      /\ \A t \in Ordered : tlst'[t] = [tlst[t] EXCEPT !.clock = Least(@ + 1, Far)]
  BY DEF Tick, Ordered
<1>2. ASSUME NEW t \in Ordered
      PROVE  /\ tlst'[t].interval \in IntervalsOf(t)
             /\ LeftIsNoMore(tlst[t])' /\ NotOverdue(tlst[t])' /\ WaitEnds(tlst[t])'
             /\ tlst'[t].clock < tlst'[t].interval + 2 * MinQuantityTime - 1
  <2> DEFINE c == tlst[t].curTimeMS
             i == tlst[t].interval
             k == tlst[t].clock
  <2>1. /\ c \in Nat /\ i \in Nat /\ i > 0 /\ k \in 0 .. Far /\ i \in IntervalsOf(t)
        /\ c <= i /\ c + k <= i + tmLast /\ k < i + tmLast
        /\ k + wait < i + 2 * MinQuantityTime - 1
        /\ i + 2 * MinQuantityTime - 1 <= Far
    BY TimerKnown DEF LeftIsNoMore, NotOverdue, WaitEnds, Tick, ClocksReach
  <2>2. /\ tlst'[t].curTimeMS = c /\ tlst'[t].interval = i
        /\ tlst'[t].clock = Least(k + 1, Far)
    BY <1>1, TimerKnown DEF TimerInfo
  <2>3. /\ wait \in Nat /\ wait > 0 /\ tmLast \in 0 .. Far /\ tmLast' = Least(tmLast + 1, Far)
        /\ wait' = IF wait = WaitUpTime THEN wait ELSE wait - 1
    BY DEF Tick, TicksInv, TypeOK
  <2> HIDE DEF c, i, k
  <2>4. wait' = wait - 1
    BY <2>1, <2>3, TimerAssumption
  <2>5. c + Least(k + 1, Far) <= i + tmLast' /\ Least(k + 1, Far) < i + tmLast'
    BY <2>1, <2>3, TimerAssumption DEF Least
  <2>6. /\ Least(k + 1, Far) + wait' < i + 2 * MinQuantityTime - 1
        /\ Least(k + 1, Far) < i + 2 * MinQuantityTime - 1
    BY <2>1, <2>3, <2>4, TimerAssumption DEF Least
  <2> QED
    BY <2>1, <2>2, <2>5, <2>6 DEF LeftIsNoMore, NotOverdue, WaitEnds
<1> QED
  BY <1>1, <1>2 DEF TimeInv, InTime

LEMMA AskInTime ==
  ASSUME TicksInv, TimeInv, NEW t \in Timers, NEW time \in Intervals[t],
         NEW ticks \in Ticks, AskTimer(t, time, ticks), NotShortened
  PROVE  TimeInv'
<1> DEFINE ms == Most(time, MinQuantityTime)
<1>1. ms \in Nat /\ ms > 0 /\ ms \in IntervalsOf(t) /\ tmLast \in Nat
  BY TimerAssumption DEF Most, IntervalsOf, TicksInv, TypeOK
<1>2. /\ Ordered' = Ordered \cup {t}
      /\ tlst'[t] = IF t \in Ordered THEN Renewed(tlst[t], ms, ticks) ELSE NewTimer(ms, ticks)
      /\ \A x \in Ordered \ {t} : tlst'[x] = tlst[x]
  BY DEF AskTimer, Ordered, TicksInv, TypeOK
<1>3. tmLast' = tmLast /\ pc' # "wait"
  BY DEF AskTimer
<1> HIDE DEF ms
<1>4. /\ tlst'[t].interval = ms /\ tlst'[t].clock = 0
      /\ tlst'[t].curTimeMS \in Nat /\ tlst'[t].curTimeMS <= ms
  <2>1. CASE t \in Ordered
    <3>1. /\ tlst[t] \in TimerInfo /\ tlst[t].curTimeMS \in Nat /\ tlst[t].interval \in Nat
          /\ tlst[t].curTimeMS <= tlst[t].interval
      BY <2>1, TimerKnown DEF LeftIsNoMore
    <3>2. /\ tlst'[t].interval = ms /\ tlst'[t].clock = 0
          /\ tlst'[t].curTimeMS = tlst[t].curTimeMS
      BY <1>2, <2>1, <3>1 DEF Renewed, TimerInfo
    <3>3. ms >= tlst[t].interval
      BY <1>2, <2>1, <3>2 DEF NotShortened
    <3> QED
      BY <1>1, <3>1, <3>2, <3>3
  <2>2. CASE t \notin Ordered
    BY <1>1, <1>2, <2>2 DEF NewTimer
  <2> QED
    BY <2>1, <2>2
<1>5. /\ LeftIsNoMore(tlst[t])' /\ NotOverdue(tlst[t])' /\ WaitEnds(tlst[t])'
      /\ tlst'[t].clock < tlst'[t].interval + 2 * MinQuantityTime - 1
  BY <1>1, <1>3, <1>4, TimerAssumption DEF LeftIsNoMore, NotOverdue, WaitEnds
<1>6. ASSUME NEW x \in Ordered \ {t}
      PROVE  /\ tlst'[x].interval \in IntervalsOf(x)
             /\ LeftIsNoMore(tlst[x])' /\ NotOverdue(tlst[x])' /\ WaitEnds(tlst[x])'
             /\ tlst'[x].clock < tlst'[x].interval + 2 * MinQuantityTime - 1
  BY <1>2, <1>3, TimerKnown DEF LeftIsNoMore, NotOverdue, WaitEnds
<1> QED
  BY <1>1, <1>2, <1>4, <1>5, <1>6 DEF TimeInv, InTime

LEMMA CancelInTime ==
  ASSUME TicksInv, TimeInv, NEW t \in Timers, CancelTimer(t) PROVE TimeInv'
<1>1. Ordered' = Ordered \ {t} /\ \A x \in Ordered \ {t} : tlst'[x] = tlst[x]
  BY DEF CancelTimer, Ordered
<1>2. tmLast' = tmLast /\ pc' # "wait"
  BY DEF CancelTimer
<1> QED
  BY <1>1, <1>2 DEF TimeInv, InTime, LeftIsNoMore, NotOverdue, WaitEnds

\* The protection against a stream of messages adds MinQuantityTime to less than
\* MinQuantityTime since a check at which the timer was not overdue.
LEMMA TooSoonInTime ==
  ASSUME TicksInv, TimeInv, CheckTooSoon PROVE TimeInv'
<1>1. UNCHANGED <<tlst, tmLast>> /\ wait' = MinQuantityTime /\ tmLast < MinQuantityTime
  BY DEF CheckTooSoon, SleepFor, TooSoon
<1>2. ASSUME NEW t \in Ordered PROVE WaitEnds(tlst[t])'
  <2>1. /\ tlst[t].clock \in Nat /\ tlst[t].interval \in Nat /\ tmLast \in Nat
        /\ tlst[t].clock < tlst[t].interval + tmLast
    BY TimerKnown, TimerAssumption DEF NotOverdue, TicksInv, TypeOK
  <2> QED
    BY <1>1, <2>1, TimerAssumption DEF WaitEnds
<1> QED
  BY <1>1, <1>2 DEF TimeInv, LeftIsNoMore, NotOverdue, InTime, Ordered

\* The full check: no timer in the list is overdue any more, and the wait is no
\* longer than what any of them has left, or than MinQuantityTime.
LEMMA CheckInTime ==
  ASSUME TicksInv, TimeInv, CheckTimers PROVE TimeInv'
<1>1. /\ Ordered' = Ordered \ Finished
      /\ \A t \in Ordered \ Finished : tlst'[t] = Checked(tlst[t])
  BY DEF CheckTimers, Ordered
<1>2. tmLast' = 0 /\ tmLast \in Nat
  BY TimerAssumption DEF CheckTimers, TicksInv, TypeOK
<1>3. ASSUME NEW t \in Ordered'
      PROVE  /\ tlst'[t].interval = tlst[t].interval
             /\ tlst'[t].curTimeMS \in Nat /\ tlst'[t].clock \in Nat
             /\ tlst'[t].curTimeMS <= tlst[t].interval
             /\ tlst'[t].curTimeMS + tlst'[t].clock <= tlst[t].interval
             /\ tlst'[t].clock < tlst[t].interval
  <2> DEFINE ti == tlst[t]
  <2>1. t \in Ordered /\ tlst'[t] = Checked(ti)
    BY <1>1
  <2>2. /\ ti \in TimerInfo /\ ti.curTimeMS \in Nat /\ ti.interval \in Nat /\ ti.clock \in Nat
        /\ ti.interval > 0 /\ ti.curTimeMS <= ti.interval
        /\ ti.curTimeMS + ti.clock <= ti.interval + tmLast
    BY <2>1, TimerKnown, TimerAssumption DEF LeftIsNoMore
  <2> HIDE DEF ti
  <2>3. CASE checkTime(ti)
    <3>1. /\ Checked(ti).interval = ti.interval /\ Checked(ti).curTimeMS = ti.interval
          /\ Checked(ti).clock = 0
      BY <2>2, <2>3 DEF Checked, TimerInfo
    <3> QED
      BY <2>1, <2>2, <3>1 DEF ti
  <2>4. CASE ~checkTime(ti)
    <3>1. /\ Checked(ti).interval = ti.interval /\ Checked(ti).clock = ti.clock
          /\ Checked(ti).curTimeMS = getLeft(ti.curTimeMS, tmLast)
      BY <2>2, <2>4 DEF Checked, TimerInfo
    <3>2. ti.clock < ti.interval
      BY <2>2, <2>4 DEF checkTime
    <3>3. /\ getLeft(ti.curTimeMS, tmLast) \in Nat
          /\ getLeft(ti.curTimeMS, tmLast) <= ti.interval
          /\ getLeft(ti.curTimeMS, tmLast) + ti.clock <= ti.interval
      BY <1>2, <2>2, <3>2 DEF getLeft
    <3> QED
      BY <2>1, <2>2, <3>1, <3>2, <3>3 DEF ti
  <2> QED
    BY <2>3, <2>4
<1>4. ASSUME NEW t \in Ordered'
      PROVE  wait' <= Most(tlst'[t].curTimeMS, MinQuantityTime) /\ wait' \in Nat
  <2> DEFINE left == {tlst'[x].curTimeMS : x \in DOMAIN tlst'}
  <2>1. wait' = Most(Min(left), MinQuantityTime)
    BY DEF CheckTimers, SleepFor, Ordered
  <2>2. left \subseteq Nat /\ tlst'[t].curTimeMS \in left
    BY <1>3 DEF Ordered
  <2> HIDE DEF left
  <2>3. Min(left) \in Nat /\ Min(left) <= tlst'[t].curTimeMS
    BY <2>2, LeastOf
  <2>4. tlst'[t].curTimeMS \in Nat
    BY <1>3
  <2> QED
    BY <2>1, <2>3, <2>4, TimerAssumption DEF Most
<1>5. ASSUME NEW t \in Ordered'
      PROVE  /\ tlst'[t].interval \in IntervalsOf(t)
             /\ LeftIsNoMore(tlst[t])' /\ NotOverdue(tlst[t])' /\ WaitEnds(tlst[t])'
             /\ tlst'[t].clock < tlst'[t].interval + 2 * MinQuantityTime - 1
  <2>1. tlst[t].interval \in IntervalsOf(t) /\ tlst[t].interval \in Nat
    BY <1>1, TimerKnown
  <2>2. tlst'[t].clock + wait' < tlst[t].interval + 2 * MinQuantityTime - 1
    BY <1>3, <1>4, <2>1, TimerAssumption DEF Most
  <2>3. tlst'[t].clock < tlst[t].interval + 2 * MinQuantityTime - 1
    BY <1>3, <2>1, TimerAssumption
  <2> QED
    BY <1>2, <1>3, <2>1, <2>2, <2>3 DEF LeftIsNoMore, NotOverdue, WaitEnds
<1> QED
  BY <1>5 DEF TimeInv, InTime

LEMMA InTimeStep ==
  ASSUME ClocksReach, TicksInv, TimeInv, [Next]_vars, [NotShortened]_vars
  PROVE  TimeInv'
<1>1. CASE Tick
  BY <1>1, TickInTime
<1>2. CASE Wake \/ Processed \/ UNCHANGED vars
  BY <1>2, TimesKept DEF Wake, Processed, vars
<1>3. CASE CheckNothing
  BY <1>3 DEF CheckNothing, TimeInv, InTime, Ordered
<1>4. CASE CheckTooSoon
  BY <1>4, TooSoonInTime
<1>5. CASE CheckTimers
  BY <1>5, CheckInTime
<1>6. ASSUME NEW t \in Timers, CancelTimer(t) PROVE TimeInv'
  BY <1>6, CancelInTime
<1>7. ASSUME NEW t \in Timers, NEW ms \in Intervals[t], NEW n \in Ticks, AskTimer(t, ms, n)
      PROVE  TimeInv'
  <2>1. CASE NotShortened
    BY <1>7, <2>1, AskInTime
  <2>2. CASE UNCHANGED vars
    BY <1>2, <2>2
  <2> QED
    BY <2>1, <2>2
<1> QED
  BY <1>1, <1>2, <1>3, <1>4, <1>5, <1>6, <1>7 DEF Next

\* For any number of timers and any intervals, as long as no timer is ordered again
\* for a shorter time: whatever messages wake the thread and whatever is ordered
\* or cancelled meanwhile, no clock of a listed timer gets 2 * MinQuantityTime - 1
\* beyond its interval, although checkTimers() counts the time left in curTimeMS,
\* apart from the clocks, and skips the check when messages come too soon.
THEOREM TimersInTime == ClocksReach => (Spec /\ [][NotShortened]_vars => []InTime)
<1> SUFFICES ASSUME ClocksReach PROVE Spec /\ [][NotShortened]_vars => []InTime
  OBVIOUS
<1>1. Init => TimeInv
  BY DEF Init, TimeInv, InTime, Ordered
<1>2. TicksInv /\ TimeInv /\ [Next]_vars /\ [NotShortened]_vars => TimeInv'
  BY InTimeStep
<1>3. TimeInv => InTime
  BY DEF TimeInv
<1> QED
  BY <1>1, <1>2, <1>3, TicksAlways, PTL DEF Spec

\* A step leaves the interval of a timer, or orders it for one of its intervals.
LEMMA IntervalAfter ==
  ASSUME TicksInv, [Next]_vars, NEW t \in Ordered'
  PROVE  \/ t \in Ordered /\ tlst'[t].interval = tlst[t].interval
         \/ t \in Timers /\ tlst'[t].interval \in IntervalsOf(t)
<1>0. \A x \in Ordered : tlst[x] \in TimerInfo
  BY DEF TicksInv, TypeOK
<1>1. CASE Tick
  <2>1. t \in Ordered /\ tlst'[t] = [tlst[t] EXCEPT !.clock = Least(@ + 1, Far)]
    BY <1>1 DEF Tick, Ordered
  <2> QED
    BY <1>0, <2>1 DEF TimerInfo
<1>2. CASE UNCHANGED tlst
  BY <1>2 DEF Ordered
<1>3. CASE CheckTimers
  <2>1. t \in Ordered /\ tlst'[t] = Checked(tlst[t])
    BY <1>3 DEF CheckTimers, Ordered
  <2>2. Checked(tlst[t]).interval = tlst[t].interval
    BY <1>0, <2>1 DEF Checked, TimerInfo
  <2> QED
    BY <2>1, <2>2
<1>4. ASSUME NEW x \in Timers, CancelTimer(x)
      PROVE  t \in Ordered /\ tlst'[t].interval = tlst[t].interval
  BY <1>4 DEF CancelTimer, Ordered
<1>5. ASSUME NEW x \in Timers, NEW time \in Intervals[x], NEW n \in Ticks,
             AskTimer(x, time, n)
      PROVE  \/ t \in Ordered /\ tlst'[t].interval = tlst[t].interval
             \/ t \in Timers /\ tlst'[t].interval \in IntervalsOf(t)
  <2> DEFINE ms == Most(time, MinQuantityTime)
  <2>1. /\ Ordered' = Ordered \cup {x}
        /\ tlst'[x] = IF x \in Ordered THEN Renewed(tlst[x], ms, n) ELSE NewTimer(ms, n)
        /\ \A y \in Ordered \ {x} : tlst'[y] = tlst[y]
    BY <1>5 DEF AskTimer, Ordered, TicksInv, TypeOK
  <2>2. ms \in IntervalsOf(x)
    BY DEF IntervalsOf
  <2> HIDE DEF ms
  <2>3. tlst'[x].interval = ms
    BY <1>0, <2>1 DEF Renewed, NewTimer, TimerInfo
  <2> QED
    BY <2>1, <2>2, <2>3
<1> QED
  BY <1>1, <1>2, <1>3, <1>4, <1>5
     DEF Next, vars, Wake, Processed, CheckNothing, CheckTooSoon

\* A timer that is ordered for one interval only keeps it.
LEMMA IntervalStays ==
  ASSUME KeepsInterval, TicksInv, [Next]_vars,
         \A t \in Ordered : t \in Timers /\ tlst[t].interval \in IntervalsOf(t)
  PROVE  /\ \A t \in Ordered' : t \in Timers /\ tlst'[t].interval \in IntervalsOf(t)
         /\ NotShortened
<1>1. \A t \in Ordered' : t \in Timers /\ tlst'[t].interval \in IntervalsOf(t)
  BY IntervalAfter
<1>2. \A t \in Ordered \cap Ordered' : tlst'[t].interval = tlst[t].interval
  BY <1>1 DEF KeepsInterval
<1>3. \A t \in Ordered : tlst[t].interval \in Nat
  BY DEF TicksInv, TypeOK, TimerInfo
<1> QED
  BY <1>1, <1>2, <1>3 DEF NotShortened

\* If each timer is ordered for one interval only, however often: no clock of a
\* listed timer gets 2 * MinQuantityTime - 1 beyond that interval before
\* checkTimers() sends its message.
THEOREM FixedTimersInTime == ClocksReach /\ KeepsInterval => (Spec => []InTime)
<1> SUFFICES ASSUME ClocksReach, KeepsInterval PROVE Spec => []InTime
  OBVIOUS
<1> DEFINE Known == \A t \in Ordered : t \in Timers /\ tlst[t].interval \in IntervalsOf(t)
<1>1. Init => Known
  BY DEF Init, Ordered
<1>2. TicksInv /\ Known /\ [Next]_vars => Known' /\ [NotShortened]_vars
  BY IntervalStays
<1> HIDE DEF Known
<1> QED
  BY <1>1, <1>2, TimersInTime, TicksAlways, PTL DEF Spec
=============================================================================
