----------------------- MODULE CommonEventLoop_proofs -----------------------
(***************************************************************************)
(* Proofs about CommonEventLoop for any set of watchers; beyond its types, *)
(* when their clients start one after the other (Serial), as               *)
(* startReceivers() does.                                                  *)
(***************************************************************************)
EXTENDS CommonEventLoop, TLAPS

LEMMA LoopInit == Init => LoopInv
<1> SUFFICES ASSUME Init PROVE LoopInv
  OBVIOUS
<1>1. TypeOK
  BY LoopAssumption DEF Init, TypeOK
<1>2. Registered /\ OneStarts /\ OneStops /\ Cancelling /\ StrayEnds
  BY DEF Init, Registered, OneStarts, OneStops, Cancelling, StrayEnds, Starting, Stopping
<1>3. ThreadLives /\ LoopFlags
  BY DEF Init, ThreadLives, LoopFlags
<1>4. Preparation /\ Handshake
  BY DEF Init, Preparation, Handshake, InPrepare
<1> QED
  BY <1>1, <1>2, <1>3, <1>4 DEF LoopInv
-----------------------------------------------------------------------------
(* Types, for any clients. *)

LEMMA LoopTypeStep == TypeOK /\ [Next]_vars => TypeOK'
<1> SUFFICES ASSUME TypeOK, [Next]_vars PROVE TypeOK'
  OBVIOUS
<1> USE LoopAssumption DEF TypeOK, Goto, loopVars, prepVars
<1>1. CASE LoopStep
  BY <1>1 DEF LoopStep, LoopStart, LoopEnter, LoopEnd, OnLoopOK, OnPrepare, Evprepare,
              PrepareNotify, OnStop
<1>2. ASSUME NEW w \in Watchers, AsyncEvrun(w) \/ Evstop(w) PROVE TypeOK'
  BY <1>2 DEF AsyncEvrun, Evstop
<1>3. ASSUME NEW w \in Watchers, ClientStep(w) PROVE TypeOK'
  BY <1>3 DEF ClientStep, RunDefaultLoop, LoopIsRunning, RunTimeout, ActivateWatcher,
              ActivateReturns, Cancel, Term, Join
<1>4. CASE UNCHANGED vars
  BY <1>4 DEF vars
<1> QED
  BY <1>1, <1>2, <1>3, <1>4 DEF Next

\* Also with clients that start at the same time: the pointer to the thread is set
\* exactly while there is a loop thread that has not been joined, so that neither
\* runDefaultLoop() nor evstop() ever finds a thread it does not know of.
THEOREM LoopTyped == Spec => []TypeOK
<1>1. Init => TypeOK
  BY LoopAssumption DEF Init, TypeOK
<1> QED
  BY <1>1, LoopTypeStep, PTL DEF Spec
-----------------------------------------------------------------------------
(* Every action keeps the invariant: first the clients. *)

\* The watcher is listed; with Serial nobody else is starting.
LEMMA AsyncEvrunStep ==
  ASSUME LoopInv, Serial, NEW w \in Watchers, AsyncEvrun(w) PROVE LoopInv'
<1> USE LoopAssumption DEF LoopInv, TypeOK, AsyncEvrun, Goto, loopVars, prepVars
<1>1. TypeOK'
  OBVIOUS
<1>2. Registered' /\ OneStarts' /\ OneStops'
  BY DEF Registered, OneStarts, OneStops, ListFree, Starting, Stopping
<1>3. Cancelling' /\ StrayEnds'
  BY DEF Cancelling, StrayEnds, OneStops, Registered, Preparation, ThreadLives, LoopFlags,
         ListFree, Stopping
<1>4. ThreadLives' /\ LoopFlags'
  BY DEF ThreadLives, LoopFlags, Registered, OneStops, Cancelling, StrayEnds,
         ListFree, Stopping
<1>5. Preparation' /\ Handshake'
  BY DEF Preparation, Handshake, InPrepare, OneStarts, OneStops, LoopFlags,
         Starting, Stopping
<1> QED
  BY <1>1, <1>2, <1>3, <1>4, <1>5

\* The thread is created once.
LEMMA RunDefaultLoopStep ==
  ASSUME LoopInv, Serial, NEW w \in Watchers, RunDefaultLoop(w) PROVE LoopInv'
<1> USE LoopAssumption DEF LoopInv, TypeOK, RunDefaultLoop, Goto, loopVars, prepVars
<1>1. TypeOK'
  OBVIOUS
<1>2. Registered' /\ OneStarts' /\ OneStops'
  BY DEF Registered, OneStarts, OneStops, ListFree, Starting, Stopping
<1>3. Cancelling' /\ StrayEnds'
  BY DEF Cancelling, StrayEnds, OneStops, Registered, Preparation, ThreadLives, LoopFlags,
         ListFree, Stopping
<1>4. ThreadLives' /\ LoopFlags'
  BY DEF ThreadLives, LoopFlags, Registered, OneStops, Cancelling, StrayEnds,
         ListFree, Stopping
<1>5. Preparation' /\ Handshake'
  BY DEF Preparation, Handshake, InPrepare, OneStarts, OneStops, LoopFlags,
         Starting, Stopping
<1> QED
  BY <1>1, <1>2, <1>3, <1>4, <1>5

LEMMA LoopIsRunningStep ==
  ASSUME LoopInv, Serial, NEW w \in Watchers, LoopIsRunning(w) PROVE LoopInv'
<1> USE LoopAssumption DEF LoopInv, TypeOK, LoopIsRunning, Goto, loopVars, prepVars
<1>1. TypeOK'
  OBVIOUS
<1>2. Registered' /\ OneStarts' /\ OneStops'
  BY DEF Registered, OneStarts, OneStops, ListFree, Starting, Stopping
<1>3. Cancelling' /\ StrayEnds'
  BY DEF Cancelling, StrayEnds, OneStops, Registered, Preparation, ThreadLives, LoopFlags,
         ListFree, Stopping
<1>4. ThreadLives' /\ LoopFlags'
  BY DEF ThreadLives, LoopFlags, Registered, OneStops, Cancelling, StrayEnds,
         ListFree, Stopping
<1>5. Preparation' /\ Handshake'
  BY DEF Preparation, Handshake, InPrepare, OneStarts, OneStops, LoopFlags,
         Starting, Stopping
<1> QED
  BY <1>1, <1>2, <1>3, <1>4, <1>5

LEMMA RunTimeoutStep ==
  ASSUME LoopInv, Serial, NEW w \in Watchers, RunTimeout(w) PROVE LoopInv'
<1> USE LoopAssumption DEF LoopInv, TypeOK, RunTimeout, Goto, loopVars, prepVars
<1>1. TypeOK'
  OBVIOUS
<1>2. Registered' /\ OneStarts' /\ OneStops'
  BY DEF Registered, OneStarts, OneStops, ListFree, Starting, Stopping
<1>3. Cancelling' /\ StrayEnds'
  BY DEF Cancelling, StrayEnds, OneStops, Registered, Preparation, ThreadLives, LoopFlags,
         ListFree, Stopping
<1>4. ThreadLives' /\ LoopFlags'
  BY DEF ThreadLives, LoopFlags, Registered, OneStops, Cancelling, StrayEnds,
         ListFree, Stopping
<1>5. Preparation' /\ Handshake'
  BY DEF Preparation, Handshake, InPrepare, OneStarts, OneStops, LoopFlags,
         Starting, Stopping
<1> QED
  BY <1>1, <1>2, <1>3, <1>4, <1>5

\* Nobody else waits, and an undisturbed loop is not in onPrepare().
LEMMA ActivateWatcherStep ==
  ASSUME LoopInv, Serial, NEW w \in Watchers, ActivateWatcher(w) PROVE LoopInv'
<1> USE LoopAssumption DEF LoopInv, TypeOK, ActivateWatcher, Goto, loopVars, prepVars
<1>1. TypeOK'
  OBVIOUS
<1>2. Registered' /\ OneStarts' /\ OneStops'
  BY DEF Registered, OneStarts, OneStops, ListFree, Starting, Stopping
<1>3. Cancelling' /\ StrayEnds'
  BY DEF Cancelling, StrayEnds, OneStops, Registered, Preparation, ThreadLives, LoopFlags,
         ListFree, Stopping
<1>4. ThreadLives' /\ LoopFlags'
  BY DEF ThreadLives, LoopFlags, Registered, OneStops, Cancelling, StrayEnds,
         ListFree, Stopping
<1>5. Preparation' /\ Handshake'
  BY DEF Preparation, Handshake, InPrepare, OneStarts, OneStops, LoopFlags,
         Starting, Stopping
<1> QED
  BY <1>1, <1>2, <1>3, <1>4, <1>5

\* Nobody else waits, so that wprep is its own watcher or nullptr.
LEMMA ActivateReturnsStep ==
  ASSUME LoopInv, Serial, NEW w \in Watchers, ActivateReturns(w) PROVE LoopInv'
<1> USE LoopAssumption DEF LoopInv, TypeOK, ActivateReturns, Goto, loopVars, prepVars
<1>1. TypeOK'
  OBVIOUS
<1>2. Registered' /\ OneStarts' /\ OneStops'
  BY DEF Registered, OneStarts, OneStops, ListFree, Starting, Stopping
<1>3. Cancelling' /\ StrayEnds'
  BY DEF Cancelling, StrayEnds, OneStops, Registered, Preparation, ThreadLives, LoopFlags,
         ListFree, Stopping
<1>4. ThreadLives' /\ LoopFlags'
  BY DEF ThreadLives, LoopFlags, Registered, OneStops, Cancelling, StrayEnds,
         ListFree, Stopping
<1>5. Preparation' /\ Handshake'
  BY DEF Preparation, Handshake, InPrepare, OneStarts, OneStops, LoopFlags,
         Starting, Stopping
<1> QED
  BY <1>1, <1>2, <1>3, <1>4, <1>5

\* The last watcher leaves: its client goes on to cancel the loop.
LEMMA EvstopStep ==
  ASSUME LoopInv, Serial, NEW w \in Watchers, Evstop(w) PROVE LoopInv'
<1> USE LoopAssumption DEF LoopInv, TypeOK, Evstop, Goto, loopVars, prepVars
<1>1. TypeOK'
  OBVIOUS
<1>2. Registered' /\ OneStarts' /\ OneStops'
  BY DEF Registered, OneStarts, OneStops, ListFree, Starting, Stopping
<1>3. Cancelling' /\ StrayEnds'
  BY DEF Cancelling, StrayEnds, OneStops, Registered, Preparation, ThreadLives, LoopFlags,
         ListFree, Stopping
<1>4. ThreadLives' /\ LoopFlags'
  BY DEF ThreadLives, LoopFlags, Registered, OneStops, Cancelling, StrayEnds,
         ListFree, Stopping
<1>5. Preparation' /\ Handshake'
  BY DEF Preparation, Handshake, InPrepare, OneStarts, OneStops, LoopFlags,
         Starting, Stopping
<1> QED
  BY <1>1, <1>2, <1>3, <1>4, <1>5

LEMMA CancelStep ==
  ASSUME LoopInv, Serial, NEW w \in Watchers, Cancel(w) PROVE LoopInv'
<1> USE LoopAssumption DEF LoopInv, TypeOK, Cancel, Goto, loopVars, prepVars
<1>1. TypeOK'
  OBVIOUS
<1>2. Registered' /\ OneStarts' /\ OneStops'
  BY DEF Registered, OneStarts, OneStops, ListFree, Starting, Stopping
<1>3. Cancelling' /\ StrayEnds'
  BY DEF Cancelling, StrayEnds, OneStops, Registered, Preparation, ThreadLives, LoopFlags,
         ListFree, Stopping
<1>4. ThreadLives' /\ LoopFlags'
  BY DEF ThreadLives, LoopFlags, Registered, OneStops, Cancelling, StrayEnds,
         ListFree, Stopping
<1>5. Preparation' /\ Handshake'
  BY DEF Preparation, Handshake, InPrepare, OneStarts, OneStops, LoopFlags,
         Starting, Stopping
<1> QED
  BY <1>1, <1>2, <1>3, <1>4, <1>5

LEMMA TermStep ==
  ASSUME LoopInv, Serial, NEW w \in Watchers, Term(w) PROVE LoopInv'
<1> USE LoopAssumption DEF LoopInv, TypeOK, Term, Goto, loopVars, prepVars
<1>1. TypeOK'
  OBVIOUS
<1>2. Registered' /\ OneStarts' /\ OneStops'
  BY DEF Registered, OneStarts, OneStops, ListFree, Starting, Stopping
<1>3. Cancelling' /\ StrayEnds'
  BY DEF Cancelling, StrayEnds, OneStops, Registered, Preparation, ThreadLives, LoopFlags,
         ListFree, Stopping
<1>4. ThreadLives' /\ LoopFlags'
  BY DEF ThreadLives, LoopFlags, Registered, OneStops, Cancelling, StrayEnds,
         ListFree, Stopping
<1>5. Preparation' /\ Handshake'
  BY DEF Preparation, Handshake, InPrepare, OneStarts, OneStops, LoopFlags,
         Starting, Stopping
<1> QED
  BY <1>1, <1>2, <1>3, <1>4, <1>5

\* The last client was alone: everybody else is idle.
LEMMA JoinStep ==
  ASSUME LoopInv, Serial, NEW w \in Watchers, Join(w) PROVE LoopInv'
<1> USE LoopAssumption DEF LoopInv, TypeOK, Join, Goto, loopVars, prepVars
<1>1. TypeOK'
  OBVIOUS
<1>2. Registered' /\ OneStarts' /\ OneStops'
  BY DEF Registered, OneStarts, OneStops, ListFree, Starting, Stopping
<1>3. Cancelling' /\ StrayEnds'
  BY DEF Cancelling, StrayEnds, OneStops, Registered, Preparation, ThreadLives, LoopFlags,
         ListFree, Stopping
<1>4. ThreadLives' /\ LoopFlags'
  BY DEF ThreadLives, LoopFlags, Registered, OneStops, Cancelling, StrayEnds,
         ListFree, Stopping
<1>5. Preparation' /\ Handshake'
  BY DEF Preparation, Handshake, InPrepare, OneStarts, OneStops, LoopFlags,
         Starting, Stopping
<1> QED
  BY <1>1, <1>2, <1>3, <1>4, <1>5

-----------------------------------------------------------------------------
(* The loop thread. *)

LEMMA LoopStartStep ==
  ASSUME LoopInv, Serial, LoopStart PROVE LoopInv'
<1> USE LoopAssumption DEF LoopInv, TypeOK, LoopStart, Goto, loopVars, prepVars
<1>1. TypeOK'
  OBVIOUS
<1>2. Registered' /\ OneStarts' /\ OneStops'
  BY DEF Registered, OneStarts, OneStops, ListFree, Starting, Stopping
<1>3. Cancelling' /\ StrayEnds'
  BY DEF Cancelling, StrayEnds, OneStops, Registered, Preparation, ThreadLives, LoopFlags,
         ListFree, Stopping
<1>4. ThreadLives' /\ LoopFlags'
  BY DEF ThreadLives, LoopFlags, Registered, OneStops, Cancelling, StrayEnds,
         ListFree, Stopping
<1>5. Preparation' /\ Handshake'
  BY DEF Preparation, Handshake, InPrepare, OneStarts, OneStops, LoopFlags,
         Starting, Stopping
<1> QED
  BY <1>1, <1>2, <1>3, <1>4, <1>5

LEMMA LoopEnterStep ==
  ASSUME LoopInv, Serial, LoopEnter PROVE LoopInv'
<1> USE LoopAssumption DEF LoopInv, TypeOK, LoopEnter, Goto, loopVars, prepVars
<1>1. TypeOK'
  OBVIOUS
<1>2. Registered' /\ OneStarts' /\ OneStops'
  BY DEF Registered, OneStarts, OneStops, ListFree, Starting, Stopping
<1>3. Cancelling' /\ StrayEnds'
  BY DEF Cancelling, StrayEnds, OneStops, Registered, Preparation, ThreadLives, LoopFlags,
         ListFree, Stopping
<1>4. ThreadLives' /\ LoopFlags'
  BY DEF ThreadLives, LoopFlags, Registered, OneStops, Cancelling, StrayEnds,
         ListFree, Stopping
<1>5. Preparation' /\ Handshake'
  BY DEF Preparation, Handshake, InPrepare, OneStarts, OneStops, LoopFlags,
         Starting, Stopping
<1> QED
  BY <1>1, <1>2, <1>3, <1>4, <1>5

LEMMA LoopEndStep ==
  ASSUME LoopInv, Serial, LoopEnd PROVE LoopInv'
<1> USE LoopAssumption DEF LoopInv, TypeOK, LoopEnd, Goto, loopVars, prepVars
<1>1. TypeOK'
  OBVIOUS
<1>2. Registered' /\ OneStarts' /\ OneStops'
  BY DEF Registered, OneStarts, OneStops, ListFree, Starting, Stopping
<1>3. Cancelling' /\ StrayEnds'
  BY DEF Cancelling, StrayEnds, OneStops, Registered, Preparation, ThreadLives, LoopFlags,
         ListFree, Stopping
<1>4. ThreadLives' /\ LoopFlags'
  BY DEF ThreadLives, LoopFlags, Registered, OneStops, Cancelling, StrayEnds,
         ListFree, Stopping
<1>5. Preparation' /\ Handshake'
  BY DEF Preparation, Handshake, InPrepare, OneStarts, OneStops, LoopFlags,
         Starting, Stopping
<1> QED
  BY <1>1, <1>2, <1>3, <1>4, <1>5

LEMMA OnLoopOKStep ==
  ASSUME LoopInv, Serial, OnLoopOK PROVE LoopInv'
<1> USE LoopAssumption DEF LoopInv, TypeOK, OnLoopOK, Goto, loopVars, prepVars
<1>1. TypeOK'
  OBVIOUS
<1>2. Registered' /\ OneStarts' /\ OneStops'
  BY DEF Registered, OneStarts, OneStops, ListFree, Starting, Stopping
<1>3. Cancelling' /\ StrayEnds'
  BY DEF Cancelling, StrayEnds, OneStops, Registered, Preparation, ThreadLives, LoopFlags,
         ListFree, Stopping
<1>4. ThreadLives' /\ LoopFlags'
  BY DEF ThreadLives, LoopFlags, Registered, OneStops, Cancelling, StrayEnds,
         ListFree, Stopping
<1>5. Preparation' /\ Handshake'
  BY DEF Preparation, Handshake, InPrepare, OneStarts, OneStops, LoopFlags,
         Starting, Stopping
<1> QED
  BY <1>1, <1>2, <1>3, <1>4, <1>5

LEMMA OnPrepareStep ==
  ASSUME LoopInv, Serial, OnPrepare PROVE LoopInv'
<1> USE LoopAssumption DEF LoopInv, TypeOK, OnPrepare, Goto, loopVars, prepVars
<1>1. TypeOK'
  OBVIOUS
<1>2. Registered' /\ OneStarts' /\ OneStops'
  BY DEF Registered, OneStarts, OneStops, ListFree, Starting, Stopping
<1>3. Cancelling' /\ StrayEnds'
  BY DEF Cancelling, StrayEnds, OneStops, Registered, Preparation, ThreadLives, LoopFlags,
         ListFree, Stopping
<1>4. ThreadLives' /\ LoopFlags'
  BY DEF ThreadLives, LoopFlags, Registered, OneStops, Cancelling, StrayEnds,
         ListFree, Stopping
<1>5. Preparation' /\ Handshake'
  BY DEF Preparation, Handshake, InPrepare, OneStarts, OneStops, LoopFlags,
         Starting, Stopping
<1> QED
  BY <1>1, <1>2, <1>3, <1>4, <1>5

\* The one that waits is the one prepared.
LEMMA EvprepareStep ==
  ASSUME LoopInv, Serial, Evprepare PROVE LoopInv'
<1> USE LoopAssumption DEF LoopInv, TypeOK, Evprepare, Goto, loopVars, prepVars
<1>1. TypeOK'
  OBVIOUS
<1>2. Registered' /\ OneStarts' /\ OneStops'
  BY DEF Registered, OneStarts, OneStops, ListFree, Starting, Stopping
<1>3. Cancelling' /\ StrayEnds'
  BY DEF Cancelling, StrayEnds, OneStops, Registered, Preparation, ThreadLives, LoopFlags,
         ListFree, Stopping
<1>4. ThreadLives' /\ LoopFlags'
  BY DEF ThreadLives, LoopFlags, Registered, OneStops, Cancelling, StrayEnds,
         ListFree, Stopping
<1>5. Preparation' /\ Handshake'
  BY DEF Preparation, Handshake, InPrepare, OneStarts, OneStops, LoopFlags,
         Starting, Stopping
<1> QED
  BY <1>1, <1>2, <1>3, <1>4, <1>5

LEMMA PrepareNotifyStep ==
  ASSUME LoopInv, Serial, PrepareNotify PROVE LoopInv'
<1> USE LoopAssumption DEF LoopInv, TypeOK, PrepareNotify, Goto, loopVars, prepVars
<1>1. TypeOK'
  OBVIOUS
<1>2. Registered' /\ OneStarts' /\ OneStops'
  BY DEF Registered, OneStarts, OneStops, ListFree, Starting, Stopping
<1>3. Cancelling' /\ StrayEnds'
  BY DEF Cancelling, StrayEnds, OneStops, Registered, Preparation, ThreadLives, LoopFlags,
         ListFree, Stopping
<1>4. ThreadLives' /\ LoopFlags'
  BY DEF ThreadLives, LoopFlags, Registered, OneStops, Cancelling, StrayEnds,
         ListFree, Stopping
<1>5. Preparation' /\ Handshake'
  BY DEF Preparation, Handshake, InPrepare, OneStarts, OneStops, LoopFlags,
         Starting, Stopping
<1> QED
  BY <1>1, <1>2, <1>3, <1>4, <1>5

\* evterm was sent by a client in evstop(): wlist is empty.
LEMMA OnStopStep ==
  ASSUME LoopInv, Serial, OnStop PROVE LoopInv'
<1> USE LoopAssumption DEF LoopInv, TypeOK, OnStop, Goto, loopVars, prepVars
<1>1. TypeOK'
  OBVIOUS
<1>2. Registered' /\ OneStarts' /\ OneStops'
  BY DEF Registered, OneStarts, OneStops, ListFree, Starting, Stopping
<1>3. Cancelling' /\ StrayEnds'
  BY DEF Cancelling, StrayEnds, OneStops, Registered, Preparation, ThreadLives, LoopFlags,
         ListFree, Stopping
<1>4. ThreadLives' /\ LoopFlags'
  BY DEF ThreadLives, LoopFlags, Registered, OneStops, Cancelling, StrayEnds,
         ListFree, Stopping
<1>5. Preparation' /\ Handshake'
  BY DEF Preparation, Handshake, InPrepare, OneStarts, OneStops, LoopFlags,
         Starting, Stopping
<1> QED
  BY <1>1, <1>2, <1>3, <1>4, <1>5

LEMMA Unchanged == ASSUME LoopInv, UNCHANGED vars PROVE LoopInv'
<1> USE DEF vars
<1>1. TypeOK' /\ Registered' /\ OneStarts' /\ OneStops' /\ Cancelling' /\ StrayEnds'
  BY DEF LoopInv, TypeOK, Registered, OneStarts, OneStops, Cancelling, StrayEnds, ListFree,
         Starting, Stopping
<1>2. ThreadLives' /\ LoopFlags' /\ Preparation' /\ Handshake'
  BY DEF LoopInv, ThreadLives, LoopFlags, Preparation, Handshake, InPrepare, ListFree, Stopping
<1> QED
  BY <1>1, <1>2 DEF LoopInv

LEMMA LoopInvStep == Serial /\ LoopInv /\ [Next]_vars => LoopInv'
<1> SUFFICES ASSUME Serial, LoopInv, [Next]_vars PROVE LoopInv'
  OBVIOUS
<1>1. LoopStep => LoopInv'
  BY LoopStartStep, LoopEnterStep, LoopEndStep, OnLoopOKStep, OnPrepareStep,
     EvprepareStep, PrepareNotifyStep, OnStopStep DEF LoopStep
<1>2. ASSUME NEW w \in Watchers, ClientStep(w) PROVE LoopInv'
  BY <1>2, RunDefaultLoopStep, LoopIsRunningStep, RunTimeoutStep, ActivateWatcherStep,
     ActivateReturnsStep, CancelStep, TermStep, JoinStep DEF ClientStep
<1>3. ASSUME NEW w \in Watchers, AsyncEvrun(w) \/ Evstop(w) PROVE LoopInv'
  BY <1>3, AsyncEvrunStep, EvstopStep
<1> QED
  BY <1>1, <1>2, <1>3, Unchanged DEF Next
-----------------------------------------------------------------------------
\* The invariant of the loop and its clients.
THEOREM LoopInvariant == Serial => (Spec => []LoopInv)
<1> SUFFICES ASSUME Serial PROVE Spec => []LoopInv
  OBVIOUS
<1>1. LoopInv /\ [Next]_vars => LoopInv'
  BY LoopInvStep
<1> QED
  BY <1>1, LoopInit, PTL DEF Spec

\* async_evrun() tells the truth: started watchers are prepared and served by a
\* running loop, failed ones are not.  wprep is a client's own, since it is the
\* only one that starts; the loop is not cancelled, since wlist is not empty.
THEOREM StartedIsServed == Serial => (Spec => []Served)
<1> SUFFICES ASSUME Serial PROVE Spec => []Served
  OBVIOUS
<1>1. LoopInv => Served
  <2> SUFFICES ASSUME LoopInv, NEW w \in Watchers
               PROVE  /\ cpc[w] = "on" => /\ w \in prepared
                                          /\ lpc \notin {"none", "ended"}
                                          /\ ~cancelled
                      /\ cpc[w] = "failed" => w \notin prepared
    BY DEF Served
  <2>1. cpc[w] = "on" => w \in wlist
    BY DEF LoopInv, Registered, Stopping
  <2>2. cancelled => wlist = {} \/ prepared = {}
    BY DEF LoopInv, Cancelling, OneStops, StrayEnds, Stopping
  <2> QED
    BY <2>1, <2>2 DEF LoopInv, Preparation, ThreadLives, LoopFlags
<1> QED
  BY <1>1, LoopInvariant, PTL

\* A start fails only after a timeout or an exception of evprepare().
THEOREM FailureHasCause == Serial => (Spec => []FailsForCause)
<1> SUFFICES ASSUME Serial PROVE Spec => []FailsForCause
  OBVIOUS
<1>1. LoopInv => FailsForCause
  BY DEF LoopInv, Handshake, FailsForCause
<1> QED
  BY <1>1, LoopInvariant, PTL

\* When the last watcher has been stopped the loop is as new, whatever started,
\* failed or unstarted watchers evstop() was called for, as long as every evstop()
\* that cancelled the loop found its thread.
THEOREM AlwaysRestartable == Serial => (Spec => []Restartable)
<1> SUFFICES ASSUME Serial PROVE Spec => []Restartable
  OBVIOUS
<1>1. LoopInv => Restartable
  <2> SUFFICES ASSUME LoopInv, wlist = {}, ListFree, ~stray
               PROVE  lpc = "none" /\ ~cancelled /\ ~isrunning /\ prepared = {}
    BY DEF Restartable
  <2>1. lpc = "none" /\ ~isrunning
    BY DEF LoopInv, ThreadLives, LoopFlags
  <2>2. ~cancelled
    BY DEF LoopInv, Cancelling, ListFree, Stopping
  <2>3. prepared = {}
    BY DEF LoopInv, Preparation, Registered, Stopping
  <2> QED
    BY <2>1, <2>2, <2>3
<1> QED
  BY <1>1, LoopInvariant, PTL
=============================================================================
