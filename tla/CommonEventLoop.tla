--------------------------- MODULE CommonEventLoop ---------------------------
(***************************************************************************)
(* One libev loop for many watchers (the receivers of a UNet exchange).    *)
(* The thread of the loop is created by the first async_evrun() and joined *)
(* by the evstop() of the last watcher; a watcher is prepared by the loop  *)
(* thread, while the caller of async_evrun() waits for it.                 *)
(*                                                                         *)
(* Every watcher has a client thread, which calls async_evrun() and        *)
(* evstop(), also evstop() of a watcher it has not started: that is what   *)
(* UNetExchange::termReceivers() does before the start-up command.  The    *)
(* waits of async_evrun() may time out at any moment.  An ev::async keeps  *)
(* one bit, set by send() and cleared when the watcher is started or       *)
(* served.                                                                 *)
(***************************************************************************)
EXTENDS FiniteSets

CONSTANTS
    Watchers,
    NoWatcher,      \* nullptr
    Serial          \* clients start one after the other, as startReceivers()

ASSUME LoopAssumption == NoWatcher \notin Watchers /\ Serial \in BOOLEAN

VARIABLES
    cpc,            \* where the client of a watcher is
    wlist,
    thr,            \* the pointer to the thread is set
    lpc,            \* where the loop thread is
    cancelled,
    isrunning,
    evterm,         \* {"active", "sent"}: the bits of this ev::async
    evprep,         \* the bit of this one: send() starts it when it is not
    wprep,
    prep_notify,
    prepared,       \* watchers after evprepare() and before evfinish()
    upset,          \* a wait has timed out or evprepare() has thrown
    stray           \* history: an evstop() has cancelled a loop without a thread

loopVars == <<lpc, cancelled, isrunning, evterm>>
prepVars == <<evprep, wprep, prep_notify, prepared, upset>>
vars == <<cpc, wlist, thr, lpc, cancelled, isrunning, evterm,
          evprep, wprep, prep_notify, prepared, upset, stray>>

Init ==
    /\ cpc = [w \in Watchers |-> "idle"]
    /\ wlist = {}
    /\ thr = FALSE
    /\ lpc = "none"
    /\ cancelled = FALSE
    /\ isrunning = FALSE
    /\ evterm = {}
    /\ evprep = FALSE
    /\ wprep = NoWatcher
    /\ prep_notify = FALSE
    /\ prepared = {}
    /\ upset = FALSE
    /\ stray = FALSE

Goto(w, pc) == cpc' = [cpc EXCEPT ![w] = pc]
Starting(w) == cpc[w] \in {"run", "waitrun", "activate", "waitprep"}
Stopping(w) == cpc[w] \in {"cancel", "term", "join"}

\* evstop() holds wlist_mutex until it returns, async_evrun() for a moment.
ListFree == \A w \in Watchers : ~Stopping(w)
-----------------------------------------------------------------------------
(* The clients: async_evrun() *)

\* For a watcher in the list async_evrun() returns false and does nothing.
AsyncEvrun(w) ==
    /\ cpc[w] = "idle"
    /\ ListFree
    /\ Serial => \A x \in Watchers : ~Starting(x)
    /\ wlist' = wlist \cup {w}
    /\ Goto(w, "run")
    /\ UNCHANGED <<stray, thr, loopVars, prepVars>>

\* runDefaultLoop(): the one that creates the thread waits under thr_mutex.
RunDefaultLoop(w) ==
    /\ cpc[w] = "run"
    /\ \A x \in Watchers : cpc[x] # "waitrun"
    /\ Goto(w, IF thr THEN "activate" ELSE "waitrun")
    /\ lpc' = IF thr THEN lpc ELSE "start"
    /\ thr' = TRUE
    /\ UNCHANGED <<wlist, stray, cancelled, isrunning, evterm, prepVars>>

LoopIsRunning(w) ==
    /\ cpc[w] = "waitrun"
    /\ isrunning
    /\ Goto(w, "activate")
    /\ UNCHANGED <<wlist, stray, thr, loopVars, prepVars>>

RunTimeout(w) ==
    /\ cpc[w] = "waitrun"
    /\ ~isrunning
    /\ Goto(w, "failed")
    /\ upset' = TRUE
    /\ UNCHANGED <<wlist, stray, thr, loopVars, evprep, wprep, prep_notify, prepared>>

\* activateWatcher(): the wait on prep_event lets prep_mutex go.
ActivateWatcher(w) ==
    /\ cpc[w] = "activate"
    /\ wprep' = w
    /\ prep_notify' = FALSE
    /\ evprep' = TRUE
    /\ Goto(w, "waitprep")
    /\ UNCHANGED <<wlist, stray, thr, loopVars, prepared, upset>>

ActivateReturns_Notified(w) ==
    /\ cpc[w] = "waitprep"
    /\ upset' = (upset \/ ~prep_notify)
    /\ Goto(w, IF prep_notify THEN "on" ELSE "failed")
    /\ prep_notify' = FALSE
    /\ wprep' = NoWatcher
    /\ UNCHANGED <<wlist, stray, thr, loopVars, evprep, prepared>>
\* Notified or timed out, the wait ends; nullptr means that it is prepared.
ActivateReturns(w) ==
    /\ cpc[w] = "waitprep"
    /\ upset' = (upset \/ ~prep_notify)
    /\ Goto(w, IF wprep = NoWatcher THEN "on" ELSE "failed")
    /\ prep_notify' = FALSE
    /\ wprep' = NoWatcher
    /\ UNCHANGED <<wlist, stray, thr, loopVars, evprep, prepared>>
-----------------------------------------------------------------------------
(* The clients: evstop() *)

\* Started, failed or never started.
Evstop(w) ==
    /\ cpc[w] \in {"idle", "on", "failed"}
    /\ ListFree
    /\ prepared' = prepared \ {w}
    /\ wlist' = wlist \ {w}
    /\ Goto(w, IF wlist' = {} /\ (isrunning \/ ~cancelled) THEN "cancel" ELSE "idle")
    /\ UNCHANGED <<stray, thr, loopVars, evprep, wprep, prep_notify, upset>>

Cancel_OnlySignals(w) ==
    /\ cpc[w] = "cancel"
    /\ evterm' = IF "active" \in evterm THEN evterm \cup {"sent"} ELSE evterm
    /\ Goto(w, "term")
    /\ UNCHANGED <<wlist, stray, thr, lpc, cancelled, isrunning, prepVars>>
Cancel(w) ==
    /\ cpc[w] = "cancel"
    /\ cancelled' = TRUE
    /\ Goto(w, "term")
    /\ UNCHANGED <<wlist, stray, thr, lpc, isrunning, evterm, prepVars>>

Term(w) ==
    /\ cpc[w] = "term"
    /\ evterm' = IF "active" \in evterm THEN evterm \cup {"sent"} ELSE evterm
    /\ Goto(w, IF thr THEN "join" ELSE "idle")
    /\ stray' = (stray \/ ~thr)
    /\ UNCHANGED <<wlist, thr, lpc, cancelled, isrunning, prepVars>>

Join_KeepsThread(w) ==
    /\ cpc[w] = "join"
    /\ lpc = "ended"
    /\ lpc' = "none"
    /\ cancelled' = FALSE
    /\ Goto(w, "idle")
    /\ UNCHANGED <<wlist, stray, thr, isrunning, evterm, prepVars>>
Join_StaysCancelled(w) ==
    /\ cpc[w] = "join"
    /\ lpc = "ended"
    /\ lpc' = "none"
    /\ thr' = FALSE
    /\ Goto(w, "idle")
    /\ UNCHANGED <<wlist, stray, cancelled, isrunning, evterm, prepVars>>
Join(w) ==
    /\ cpc[w] = "join"
    /\ lpc = "ended"
    /\ lpc' = "none"
    /\ thr' = FALSE
    /\ cancelled' = FALSE
    /\ Goto(w, "idle")
    /\ UNCHANGED <<wlist, stray, isrunning, evterm, prepVars>>
-----------------------------------------------------------------------------
(* The loop thread *)

LoopStart ==
    /\ lpc = "start"
    /\ evterm' = {"active"}
    /\ lpc' = "check"
    /\ UNCHANGED <<cpc, wlist, stray, thr, cancelled, isrunning, prepVars>>

\* The head of the loop in defaultLoop(), and its end.
LoopEnter ==
    /\ lpc = "check"
    /\ ~cancelled
    /\ lpc' = "loop"
    /\ UNCHANGED <<cpc, wlist, stray, thr, cancelled, isrunning, evterm, prepVars>>

LoopEnd ==
    /\ lpc = "check"
    /\ cancelled
    /\ lpc' = "ended"
    /\ isrunning' = FALSE
    /\ evterm' = {}
    /\ evprep' = FALSE
    /\ UNCHANGED <<cpc, wlist, stray, thr, cancelled, wprep, prep_notify, prepared, upset>>

OnLoopOK ==
    /\ lpc = "loop"
    /\ ~isrunning
    /\ isrunning' = TRUE
    /\ UNCHANGED <<cpc, wlist, stray, thr, lpc, cancelled, evterm, prepVars>>

OnPrepare_NotifiesFirst ==
    /\ lpc = "loop"
    /\ evprep
    /\ evprep' = FALSE
    /\ prep_notify' = TRUE
    /\ lpc' = "prepare"
    /\ UNCHANGED <<cpc, wlist, stray, thr, cancelled, isrunning, evterm, wprep, prepared, upset>>
OnPrepare ==
    /\ lpc = "loop"
    /\ evprep
    /\ evprep' = FALSE
    /\ prep_notify' = FALSE
    /\ lpc' = "prepare"
    /\ UNCHANGED <<cpc, wlist, stray, thr, cancelled, isrunning, evterm, wprep, prepared, upset>>

\* Under prep_mutex: evprepare() may throw, and then wprep stays.
Evprepare ==
    /\ lpc = "prepare"
    /\ \/ /\ prepared' = prepared \cup ({wprep} \ {NoWatcher})
          /\ wprep' = NoWatcher
          /\ upset' = upset
       \/ /\ wprep # NoWatcher
          /\ upset' = TRUE
          /\ UNCHANGED <<wprep, prepared>>
    /\ lpc' = "notify"
    /\ UNCHANGED <<cpc, wlist, stray, thr, cancelled, isrunning, evterm, evprep, prep_notify>>

PrepareNotify ==
    /\ lpc = "notify"
    /\ prep_notify' = TRUE
    /\ lpc' = "loop"
    /\ UNCHANGED <<cpc, wlist, stray, thr, cancelled, isrunning, evterm, evprep, wprep, prepared, upset>>

OnStop ==
    /\ lpc = "loop"
    /\ "sent" \in evterm
    /\ prepared' = prepared \ wlist
    /\ evterm' = {}
    /\ evprep' = FALSE
    /\ lpc' = "check"
    /\ UNCHANGED <<cpc, wlist, stray, thr, cancelled, isrunning, wprep, prep_notify, upset>>
-----------------------------------------------------------------------------
LoopStep ==
    \/ LoopStart \/ LoopEnter \/ LoopEnd
    \/ OnLoopOK \/ OnPrepare \/ Evprepare \/ PrepareNotify \/ OnStop

ClientStep(w) ==
    \/ RunDefaultLoop(w) \/ LoopIsRunning(w) \/ RunTimeout(w)
    \/ ActivateWatcher(w) \/ ActivateReturns(w)
    \/ Cancel(w) \/ Term(w) \/ Join(w)

Next ==
    \/ LoopStep
    \/ \E w \in Watchers : AsyncEvrun(w) \/ ClientStep(w) \/ Evstop(w)

\* Threads are scheduled and waits time out; nobody has to start or to stop.
Fairness == WF_vars(LoopStep) /\ \A w \in Watchers : WF_vars(ClientStep(w))

Spec == Init /\ [][Next]_vars /\ Fairness
-----------------------------------------------------------------------------
TypeOK ==
    /\ cpc \in [Watchers -> {"idle", "run", "waitrun", "activate", "waitprep",
                             "on", "failed", "cancel", "term", "join"}]
    /\ wlist \in SUBSET Watchers
    /\ lpc \in {"none", "start", "check", "loop", "prepare", "notify", "ended"}
    /\ thr = (lpc # "none")
    /\ cancelled \in BOOLEAN
    /\ isrunning \in BOOLEAN
    /\ evterm \in SUBSET {"active", "sent"}
    /\ evprep \in BOOLEAN
    /\ wprep \in Watchers \cup {NoWatcher}
    /\ prep_notify \in BOOLEAN
    /\ prepared \in SUBSET Watchers
    /\ upset \in BOOLEAN /\ stray \in BOOLEAN

\* What async_evrun() returns is true: a watcher it reported as started is
\* prepared and the loop runs until it is stopped, and one it reported as failed
\* is not, so that the loop never calls back an object its owner gives up.
\* "готовящийся Watcher. Он может быть только один в единицу времени, это
\* гарантирует prep_mutex" (CommonEventLoop.h).
Served ==
    \A w \in Watchers :
        /\ cpc[w] = "on" => w \in prepared /\ lpc \notin {"none", "ended"} /\ ~cancelled
        /\ cpc[w] = "failed" => w \notin prepared

\* As long as no wait has timed out and no evprepare() has thrown, every start
\* succeeds: a notification for one watcher is never taken for another's.
FailsForCause == (\E w \in Watchers : cpc[w] = "failed") => upset

\* Without watchers there is no thread, and the next one can be started: evstop()
\* of the last one leaves neither the thread nor the flag that would end it.
\* Not after an evstop() that found no thread to end: it sets the flag, which
\* then stays for good (StrayEnds), and every later start fails.
Restartable ==
    wlist = {} /\ ListFree /\ ~stray =>
        lpc = "none" /\ ~cancelled /\ ~isrunning /\ prepared = {}

\* A call returns: the loop thread, wherever evstop() finds it, sees the flag or
\* the signal, so that join() ends.
CallsReturn ==
    \A w \in Watchers : (Starting(w) \/ Stopping(w)) ~> ~(Starting(w) \/ Stopping(w))
-----------------------------------------------------------------------------
(***************************************************************************)
(* What the proofs rest on.                                                *)
(***************************************************************************)
\* wlist names the watchers whose clients are between async_evrun() and evstop().
Registered == wlist = {w \in Watchers : cpc[w] # "idle" /\ ~Stopping(w)}

OneStarts == \A w, x \in Watchers : Starting(w) /\ Starting(x) => w = x

\* Only the last client gets beyond the erasing of its watcher.
OneStops ==
    \A w \in Watchers : Stopping(w) => wlist = {} /\ \A x \in Watchers : Stopping(x) => x = w

Cancelling ==
    cancelled <=> stray \/ \E w \in Watchers : cpc[w] \in {"term", "join"}

\* After a stray evstop() a loop thread ends before it has served anybody.
StrayEnds ==
    stray => ListFree /\ prepared = {} /\ lpc \in {"none", "start", "check", "ended"}

\* There is a thread from the first start to the last stop.
ThreadLives ==
    /\ \A w \in Watchers : cpc[w] \notin {"idle", "run", "cancel", "term"} => lpc # "none"
    /\ lpc # "none" => wlist # {} \/ ~ListFree \/ stray

LoopFlags ==
    /\ lpc = "ended" => cancelled /\ evterm = {}
    /\ lpc = "none" => evterm = {}
    /\ isrunning => lpc \in {"check", "loop", "prepare", "notify"} /\ ~stray
    /\ "sent" \in evterm => \E w \in Watchers : cpc[w] = "join"

\* wprep is emptied by the loop thread exactly when its watcher is prepared.
Preparation ==
    /\ wprep # NoWatcher => cpc[wprep] = "waitprep"
    /\ prepared = {w \in Watchers : \/ cpc[w] = "on"
                                    \/ cpc[w] = "waitprep" /\ wprep = NoWatcher}

InPrepare == lpc \in {"prepare", "notify"}

\* As long as nothing has gone wrong, the loop prepares for the one that waits.
Handshake ==
    /\ InPrepare => ~prep_notify
    /\ ~upset =>
          /\ evprep \/ InPrepare => \E w \in Watchers : cpc[w] = "waitprep"
          /\ prep_notify \/ InPrepare => ~evprep
          /\ prep_notify \/ lpc = "notify" => wprep = NoWatcher
          /\ \A w \in Watchers : cpc[w] # "failed"

LoopInv ==
    /\ TypeOK /\ Registered /\ OneStarts /\ OneStops /\ Cancelling /\ StrayEnds
    /\ ThreadLives /\ LoopFlags /\ Preparation /\ Handshake
=============================================================================
