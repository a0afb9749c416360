---------------------- MODULE IONotifyController_proofs ----------------------
(***************************************************************************)
(* Proofs about IONotifyController: the sensors and the call stacks keep   *)
(* their types, and the two invariants of the store, EffectiveValue and    *)
(* DependencyHolds, hold for any number of threads and sensors and for any *)
(* dependencies.  All steps of a writer change one stack at its top, so    *)
(* the argument is about which frames a step adds and which one it drops.  *)
(***************************************************************************)
EXTENDS IONotifyController, SequenceTheorems, TLAPS

(* Stacks *)

\* Pushing adds one frame.
LEMMA PushFrames ==
    ASSUME NEW q \in Seq(Frame), NEW f \in Frame
    PROVE  /\ Push(q, f) \in Seq(Frame)
           /\ FramesOf(Push(q, f)) = FramesOf(q) \cup {f}
<1>1. /\ Push(q, f) \in Seq(Frame)
      /\ Len(Push(q, f)) = Len(q) + 1
      /\ \A i \in 1..Len(q) : Push(q, f)[i] = q[i]
      /\ Push(q, f)[Len(q) + 1] = f
  BY DEF Push
<1>2. Len(q) \in Nat
  OBVIOUS
<1> QED
  BY <1>1, <1>2 DEF FramesOf

\* Replacing the top adds the new top and can only drop the old one.
LEMMA SetTopFrames ==
    ASSUME NEW q \in Seq(Frame), q # <<>>, NEW f \in Frame
    PROVE  /\ SetTop(q, f) \in Seq(Frame)
           /\ SetTop(q, f) # <<>>
           /\ f \in FramesOf(SetTop(q, f))
           /\ FramesOf(SetTop(q, f)) \subseteq FramesOf(q) \cup {f}
           /\ \A g \in FramesOf(q) : g = q[Len(q)] \/ g \in FramesOf(SetTop(q, f))
<1>1. Len(q) \in Nat /\ Len(q) > 0 /\ Len(q) \in 1..Len(q)
  OBVIOUS
<1>2. /\ SetTop(q, f) \in Seq(Frame)
      /\ Len(SetTop(q, f)) = Len(q)
      /\ \A i \in 1..Len(q) : i # Len(q) => SetTop(q, f)[i] = q[i]
      /\ SetTop(q, f)[Len(q)] = f
  BY <1>1 DEF SetTop
<1>3. SetTop(q, f) # <<>>
  BY <1>1, <1>2
<1> QED
  BY <1>1, <1>2, <1>3 DEF FramesOf

\* Popping adds no frame.
LEMMA PopFrames ==
    ASSUME NEW q \in Seq(Frame), q # <<>>
    PROVE  /\ Pop(q) \in Seq(Frame)
           /\ FramesOf(Pop(q)) \subseteq FramesOf(q)
           /\ \A g \in FramesOf(q) : g = q[Len(q)] \/ g \in FramesOf(Pop(q))
<1>1. Len(q) \in Nat /\ Len(q) > 0
  OBVIOUS
<1> DEFINE n == Len(q) - 1
<1>2. n \in Nat /\ n + 1 = Len(q)
  BY <1>1
<1>3. \A i \in 1..n : q[i] \in Frame
  <2> TAKE i \in 1..n
  <2>1. i \in 1..Len(q)
    BY <1>1
  <2> QED
    BY <2>1
<1>4. Pop(q) = SubSeq(q, 1, n)
  BY DEF Pop
<1> HIDE DEF n
<1>5. /\ Pop(q) \in Seq(Frame)
      /\ Len(Pop(q)) = IF 1 <= n THEN n - 1 + 1 ELSE 0
      /\ \A i \in 1..(n - 1 + 1) : Pop(q)[i] = q[1 + i - 1]
  BY <1>2, <1>3, <1>4, SubSeqProperties
<1>6. Len(Pop(q)) = n
  BY <1>2, <1>5
<1>7. ASSUME NEW i \in 1..n PROVE Pop(q)[i] = q[i]
  <2>1. i \in 1..(n - 1 + 1) /\ 1 + i - 1 = i
    BY <1>2
  <2> QED
    BY <2>1, <1>5
<1>8. \A g \in FramesOf(q) : g = q[Len(q)] \/ g \in FramesOf(Pop(q))
  <2> SUFFICES ASSUME NEW i \in 1..Len(q), i # Len(q)
               PROVE  q[i] \in FramesOf(Pop(q))
    BY DEF FramesOf
  <2>1. i \in 1..n
    BY <1>2
  <2> QED
    BY <2>1, <1>6, <1>7 DEF FramesOf
<1>9. FramesOf(Pop(q)) \subseteq FramesOf(q)
  <2> SUFFICES ASSUME NEW i \in 1..n PROVE Pop(q)[i] \in FramesOf(q)
    BY <1>6 DEF FramesOf
  <2>1. i \in 1..Len(q)
    BY <1>2
  <2> QED
    BY <2>1, <1>7 DEF FramesOf
<1> QED
  BY <1>5, <1>8, <1>9

\* The top of a stack is one of its frames.
LEMMA TopFrame ==
    ASSUME stk \in [Writers -> Seq(Frame)], NEW t \in Writers, stk[t] # <<>>
    PROVE  Top(t) \in Frame /\ Top(t) \in Frames(t)
<1>1. Len(stk[t]) \in 1..Len(stk[t])
  OBVIOUS
<1> QED
  BY <1>1 DEF Top, Frames, FramesOf
-----------------------------------------------------------------------------
(* What a step of one writer keeps *)

\* The stack of writer t becomes q, which lacks at most the top of stk[t].
Becomes(t, q) ==
    /\ q \in Seq(Frame)
    /\ stk' = [stk EXCEPT ![t] = q]
    /\ \A g \in Frames(t) : g = Top(t) \/ g \in FramesOf(q)

\* A call that survives a step keeps its sensor excused in EffectiveValue.
LEMMA KeptCall ==
    ASSUME StoreTypeOK, NEW t \in Writers, NEW q, Becomes(t, q),
           NEW s, NEW P, InCall(s, P),
           \/ stk[t] = <<>>
           \/ Top(t).s # s
           \/ Top(t).pc \notin P
           \/ \E h \in FramesOf(q) : h.s = s /\ h.pc \in P
    PROVE  InCall(s, P)'
<1>0. PICK u \in Writers : \E f \in Frames(u) : f.s = s /\ f.pc \in P
  BY DEF InCall
<1>1. PICK f \in Frames(u) : f.s = s /\ f.pc \in P
  BY <1>0
<1>2. stk'[t] = q /\ \A w \in Writers : w # t => stk'[w] = stk[w]
  BY DEF Becomes, StoreTypeOK
<1>3. CASE u # t
  BY <1>1, <1>2, <1>3 DEF InCall, Frames
<1>4. CASE u = t
  <2>1. Frames(t) # {} => stk[t] # <<>>
    BY DEF Frames, FramesOf
  <2>2. \E h \in FramesOf(q) : h.s = s /\ h.pc \in P
    BY <1>1, <1>4, <2>1 DEF Becomes
  <2> QED
    BY <1>2, <2>2 DEF InCall, Frames
<1> QED
  BY <1>3, <1>4

\* A signal that survives a step keeps its slot excused in DependencyHolds.
LEMMA KeptSignal ==
    ASSUME StoreTypeOK, NEW t \in Writers, NEW q, Becomes(t, q), NEW x \in Sensors,
           \E u \in Writers : \E f \in Frames(u) : WillCheck(f, x),
           \/ stk[t] = <<>>
           \/ ~WillCheck(Top(t), x)
           \/ \E h \in FramesOf(q) : WillCheck(h, x)
    PROVE  (\E u \in Writers : \E f \in Frames(u) : WillCheck(f, x))'
<1>0. PICK u \in Writers : \E f \in Frames(u) : WillCheck(f, x)
  OBVIOUS
<1>1. PICK f \in Frames(u) : WillCheck(f, x)
  BY <1>0
<1>2. stk'[t] = q /\ \A w \in Writers : w # t => stk'[w] = stk[w]
  BY DEF Becomes, StoreTypeOK
<1>3. CASE u # t
  BY <1>1, <1>2, <1>3 DEF Frames, WillCheck
<1>4. CASE u = t
  <2>1. Frames(t) # {} => stk[t] # <<>>
    BY DEF Frames, FramesOf
  <2>2. \E h \in FramesOf(q) : WillCheck(h, x)
    BY <1>1, <1>4, <2>1 DEF Becomes
  <2> QED
    BY <1>2, <2>2 DEF Frames, WillCheck
<1> QED
  BY <1>3, <1>4

\* Frames that come from the old ones keep SlotsAreDependents.
LEMMA KeptSlots ==
    ASSUME StoreTypeOK, SlotsAreDependents, NEW t \in Writers, NEW q, Becomes(t, q),
           \A h \in FramesOf(q) : h \in Frames(t) \/
              (h.pc = "depend" => h.todo \subseteq Dependents(h.s))
    PROVE  SlotsAreDependents'
<1>1. stk'[t] = q /\ \A w \in Writers : w # t => stk'[w] = stk[w]
  BY DEF Becomes, StoreTypeOK
<1> SUFFICES ASSUME NEW u \in Writers, NEW f \in FramesOf(stk'[u]), f.pc = "depend"
             PROVE  f.todo \subseteq Dependents(f.s)
  BY DEF SlotsAreDependents, Frames, Dependents
<1>2. CASE u = t
  BY <1>1, <1>2 DEF SlotsAreDependents, Frames
<1>3. CASE u # t
  BY <1>1, <1>3 DEF SlotsAreDependents, Frames
<1> QED
  BY <1>2, <1>3

\* A step that leaves the sensors alone keeps the invariant when the top it
\* replaces was not about to write or to signal, or is replaced by a frame
\* that still is.
LEMMA StackStep ==
    ASSUME StoreInv, NEW t \in Writers, NEW q, Becomes(t, q),
           UNCHANGED sensorVars, tstate' \in [Thresholds -> ThresholdStates],
           \/ stk[t] = <<>>
           \/ Top(t).pc \notin {"real", "prev", "write"}
           \/ \E h \in FramesOf(q) : h.s = Top(t).s /\ h.pc \in {"real", "prev", "write"},
           \/ stk[t] = <<>>
           \/ \A x \in Sensors : WillCheck(Top(t), x) =>
                                  \E h \in FramesOf(q) : WillCheck(h, x),
           \A h \in FramesOf(q) : h \in Frames(t) \/
              (h.pc = "depend" => h.todo \subseteq Dependents(h.s))
    PROVE  StoreInv'
<1> USE DEF StoreInv
<1>1. StoreTypeOK'
  BY DEF StoreTypeOK, Becomes, sensorVars
<1>2. Recoverable'
  BY DEF Recoverable, sensorVars
<1>3. SlotsAreDependents'
  BY KeptSlots
<1>4. EffectiveValue'
  <2> DEFINE P == {"real", "prev", "write"}
  <2> SUFFICES ASSUME NEW s \in Sensors, ~InCall(s, P)'
               PROVE  ~InCall(s, P)
    BY DEF EffectiveValue, sensorVars, Shown
  <2> QED
    BY KeptCall
<1>5. DependencyHolds'
  <2> SUFFICES ASSUME NEW x \in Sensors,
                      \E u \in Writers : \E f \in Frames(u) : WillCheck(f, x)
               PROVE  (\E u \in Writers : \E f \in Frames(u) : WillCheck(f, x))'
    BY DEF DependencyHolds, sensorVars
  <2> QED
    BY KeptSignal
<1> QED
  BY <1>1, <1>2, <1>3, <1>4, <1>5
-----------------------------------------------------------------------------
(* The two ways a stack changes, as Becomes *)

\* The shape of a step that pushes a frame.
LEMMA PushBecomes ==
    ASSUME StoreTypeOK, NEW t \in Writers, NEW f \in Frame,
           stk' = [stk EXCEPT ![t] = Push(stk[t], f)]
    PROVE  /\ Becomes(t, Push(stk[t], f))
           /\ FramesOf(Push(stk[t], f)) = Frames(t) \cup {f}
<1>1. stk[t] \in Seq(Frame)
  BY DEF StoreTypeOK
<1> QED
  BY <1>1, PushFrames DEF Becomes, Frames

\* The shape of a step that replaces the top.
LEMMA SetTopBecomes ==
    ASSUME StoreTypeOK, NEW t \in Writers, NEW f \in Frame, stk[t] # <<>>,
           stk' = [stk EXCEPT ![t] = SetTop(stk[t], f)]
    PROVE  /\ Becomes(t, SetTop(stk[t], f))
           /\ f \in FramesOf(SetTop(stk[t], f))
           /\ FramesOf(SetTop(stk[t], f)) \subseteq Frames(t) \cup {f}
<1>1. stk[t] \in Seq(Frame)
  BY DEF StoreTypeOK
<1> QED
  BY <1>1, SetTopFrames DEF Becomes, Frames, Top

\* The shape of a step that returns.
LEMMA PopBecomes ==
    ASSUME StoreTypeOK, NEW t \in Writers, stk[t] # <<>>,
           stk' = [stk EXCEPT ![t] = Pop(stk[t])]
    PROVE  /\ Becomes(t, Pop(stk[t]))
           /\ FramesOf(Pop(stk[t])) \subseteq Frames(t)
<1>1. stk[t] \in Seq(Frame)
  BY DEF StoreTypeOK
<1> QED
  BY <1>1, PopFrames DEF Becomes, Frames, Top

\* A nested call: the top is replaced and a frame is pushed on it.
LEMMA CallBecomes ==
    ASSUME StoreTypeOK, NEW t \in Writers, NEW f \in Frame, NEW g \in Frame,
           stk[t] # <<>>,
           stk' = [stk EXCEPT ![t] = Push(SetTop(stk[t], f), g)]
    PROVE  /\ Becomes(t, Push(SetTop(stk[t], f), g))
           /\ f \in FramesOf(Push(SetTop(stk[t], f), g))
           /\ g \in FramesOf(Push(SetTop(stk[t], f), g))
           /\ FramesOf(Push(SetTop(stk[t], f), g)) \subseteq Frames(t) \cup {f, g}
<1>1. stk[t] \in Seq(Frame)
  BY DEF StoreTypeOK
<1>2. /\ SetTop(stk[t], f) \in Seq(Frame)
      /\ f \in FramesOf(SetTop(stk[t], f))
      /\ FramesOf(SetTop(stk[t], f)) \subseteq FramesOf(stk[t]) \cup {f}
      /\ \A h \in FramesOf(stk[t]) :
            h = stk[t][Len(stk[t])] \/ h \in FramesOf(SetTop(stk[t], f))
  BY <1>1, SetTopFrames
<1>3. /\ Push(SetTop(stk[t], f), g) \in Seq(Frame)
      /\ FramesOf(Push(SetTop(stk[t], f), g)) = FramesOf(SetTop(stk[t], f)) \cup {g}
  BY <1>2, PushFrames
<1> QED
  BY <1>2, <1>3 DEF Becomes, Frames, Top
-----------------------------------------------------------------------------
(* One lemma per action of a writer *)

\* SetValue only pushes a frame.
LEMMA SetValueStep ==
    ASSUME StoreInv, NEW t \in Writers, NEW s \in Sensors, NEW v \in Values,
           SetValue(t, s, v)
    PROVE  StoreInv'
<1> DEFINE f == NewFrame(s, "prev", v, "set")
<1>1. f \in Frame /\ f.pc = "prev"
  BY DEF Frame, NewFrame, FramePC, Origins
<1>2. /\ Becomes(t, Push(stk[t], f))
      /\ FramesOf(Push(stk[t], f)) = Frames(t) \cup {f}
  BY <1>1, PushBecomes DEF SetValue, StoreInv
<1>3. stk[t] = <<>> /\ UNCHANGED sensorVars /\ tstate' \in [Thresholds -> ThresholdStates]
  BY DEF SetValue, Idle, StoreInv, StoreTypeOK
<1> HIDE DEF f
<1> QED
  BY <1>1, <1>2, <1>3, StackStep

\* ReadPrev only moves its frame on.
LEMMA ReadPrevStep ==
    ASSUME StoreInv, NEW t \in Writers, ReadPrev(t)
    PROVE  StoreInv'
<1> DEFINE f == [Top(t) EXCEPT !.prev = value[Top(t).s], !.pc = "write"]
<1>1. stk[t] # <<>> /\ Top(t).pc = "prev" /\ Top(t) \in Frame
  BY TopFrame DEF ReadPrev, At, StoreInv, StoreTypeOK
<1>2. f \in Frame /\ f.pc = "write" /\ f.s = Top(t).s
  BY <1>1 DEF Frame, FramePC, StoreInv, StoreTypeOK
<1>3. /\ Becomes(t, SetTop(stk[t], f))
      /\ f \in FramesOf(SetTop(stk[t], f))
      /\ FramesOf(SetTop(stk[t], f)) \subseteq Frames(t) \cup {f}
  BY <1>1, <1>2, SetTopBecomes DEF ReadPrev, StoreInv
<1>4. UNCHANGED sensorVars /\ tstate' \in [Thresholds -> ThresholdStates]
  BY DEF ReadPrev, StoreInv, StoreTypeOK
<1> HIDE DEF f
<1>5. \A x \in Sensors : ~WillCheck(Top(t), x)
  BY <1>1 DEF WillCheck
<1> QED
  BY <1>1, <1>2, <1>3, <1>4, <1>5, StackStep

\* ReadReal only moves its frame on.
LEMMA ReadRealStep ==
    ASSUME StoreInv, NEW t \in Writers, ReadReal(t)
    PROVE  StoreInv'
<1> DEFINE f == [Top(t) EXCEPT !.val = real_value[Top(t).s], !.pc = "prev"]
<1>1. stk[t] # <<>> /\ Top(t).pc = "real" /\ Top(t) \in Frame
  BY TopFrame DEF ReadReal, At, StoreInv, StoreTypeOK
<1>2. f \in Frame /\ f.pc = "prev" /\ f.s = Top(t).s
  BY <1>1 DEF Frame, FramePC, StoreInv, StoreTypeOK
<1>3. /\ Becomes(t, SetTop(stk[t], f))
      /\ f \in FramesOf(SetTop(stk[t], f))
      /\ FramesOf(SetTop(stk[t], f)) \subseteq Frames(t) \cup {f}
  BY <1>1, <1>2, SetTopBecomes DEF ReadReal, StoreInv
<1>4. UNCHANGED sensorVars /\ tstate' \in [Thresholds -> ThresholdStates]
  BY DEF ReadReal, StoreInv, StoreTypeOK
<1> HIDE DEF f
<1>5. \A x \in Sensors : ~WillCheck(Top(t), x)
  BY <1>1 DEF WillCheck
<1> QED
  BY <1>1, <1>2, <1>3, <1>4, <1>5, StackStep

\* Emit turns a pending signal into its slots.
LEMMA EmitStep ==
    ASSUME StoreInv, NEW t \in Writers, Emit(t)
    PROVE  StoreInv'
<1> DEFINE f == [Top(t) EXCEPT !.todo = Dependents(Top(t).s), !.pc = "depend"]
<1>1. stk[t] # <<>> /\ Top(t).pc = "emit" /\ Top(t) \in Frame
  BY TopFrame DEF Emit, At, StoreInv, StoreTypeOK
<1>2. f \in Frame /\ f.pc = "depend" /\ f.s = Top(t).s /\ f.todo = Dependents(f.s)
  BY <1>1 DEF Frame, FramePC, Dependents
<1>3. /\ Becomes(t, SetTop(stk[t], f))
      /\ f \in FramesOf(SetTop(stk[t], f))
      /\ FramesOf(SetTop(stk[t], f)) \subseteq Frames(t) \cup {f}
  BY <1>1, <1>2, SetTopBecomes DEF Emit, StoreInv
<1>4. UNCHANGED sensorVars /\ tstate' \in [Thresholds -> ThresholdStates]
  BY DEF Emit, StoreInv, StoreTypeOK
<1> HIDE DEF f
<1>5. \A x \in Sensors : WillCheck(Top(t), x) => WillCheck(f, x)
  BY <1>2 DEF WillCheck, Dependents
<1> QED
  BY <1>1, <1>2, <1>3, <1>4, <1>5, StackStep

\* EmitDone leaves with no slot to call.
LEMMA EmitDoneStep ==
    ASSUME StoreInv, NEW t \in Writers, EmitDone(t)
    PROVE  StoreInv'
<1> DEFINE f == [Top(t) EXCEPT !.pc = "send"]
<1>1. stk[t] # <<>> /\ Top(t).pc = "depend" /\ Top(t).todo = {} /\ Top(t) \in Frame
  BY TopFrame DEF EmitDone, At, StoreInv, StoreTypeOK
<1>2. f \in Frame /\ f.pc = "send"
  BY <1>1 DEF Frame, FramePC
<1>3. /\ Becomes(t, SetTop(stk[t], f))
      /\ FramesOf(SetTop(stk[t], f)) \subseteq Frames(t) \cup {f}
  BY <1>1, <1>2, SetTopBecomes DEF EmitDone, StoreInv
<1>4. UNCHANGED sensorVars /\ tstate' \in [Thresholds -> ThresholdStates]
  BY DEF EmitDone, StoreInv, StoreTypeOK
<1> HIDE DEF f
<1>5. \A x \in Sensors : ~WillCheck(Top(t), x)
  BY <1>1 DEF WillCheck
<1> QED
  BY <1>1, <1>2, <1>3, <1>4, <1>5, StackStep

\* ReturnUnchanged drops a frame past its write.
LEMMA ReturnUnchangedStep ==
    ASSUME StoreInv, NEW t \in Writers, ReturnUnchanged(t)
    PROVE  StoreInv'
<1>1. stk[t] # <<>> /\ Top(t).pc = "send"
  BY DEF ReturnUnchanged, At
<1>2. Becomes(t, Pop(stk[t])) /\ FramesOf(Pop(stk[t])) \subseteq Frames(t)
  BY <1>1, PopBecomes DEF ReturnUnchanged, StoreInv
<1>3. UNCHANGED sensorVars /\ tstate' \in [Thresholds -> ThresholdStates]
  BY DEF ReturnUnchanged, StoreInv, StoreTypeOK
<1>4. \A x \in Sensors : ~WillCheck(Top(t), x)
  BY <1>1 DEF WillCheck
<1> QED
  BY <1>1, <1>2, <1>3, <1>4, StackStep

\* Send changes no sensor.
LEMMA SendStep ==
    ASSUME StoreInv, NEW t \in Writers, Send(t)
    PROVE  StoreInv'
<1> DEFINE f == [Top(t) EXCEPT !.prev = Top(t).cur, !.pc = "limits"]
<1>1. stk[t] # <<>> /\ Top(t).pc = "send" /\ Top(t) \in Frame
  BY TopFrame DEF Send, At, StoreInv, StoreTypeOK
<1>2. f \in Frame /\ f.pc = "limits"
  BY <1>1 DEF Frame, FramePC
<1>3. /\ Becomes(t, SetTop(stk[t], f))
      /\ FramesOf(SetTop(stk[t], f)) \subseteq Frames(t) \cup {f}
  BY <1>1, <1>2, SetTopBecomes DEF Send, StoreInv
<1>4. UNCHANGED sensorVars /\ tstate' \in [Thresholds -> ThresholdStates]
  BY DEF Send, StoreInv, StoreTypeOK
<1> HIDE DEF f
<1>5. \A x \in Sensors : ~WillCheck(Top(t), x)
  BY <1>1 DEF WillCheck
<1> QED
  BY <1>1, <1>2, <1>3, <1>4, <1>5, StackStep

\* ThresholdsDone drops a frame past its write.
LEMMA ThresholdsDoneStep ==
    ASSUME StoreInv, NEW t \in Writers, ThresholdsDone(t)
    PROVE  StoreInv'
<1>1. stk[t] # <<>> /\ Top(t).pc = "threshold"
  BY DEF ThresholdsDone, At
<1>2. Becomes(t, Pop(stk[t])) /\ FramesOf(Pop(stk[t])) \subseteq Frames(t)
  BY <1>1, PopBecomes DEF ThresholdsDone, StoreInv
<1>3. UNCHANGED sensorVars /\ tstate' \in [Thresholds -> ThresholdStates]
  BY DEF ThresholdsDone, StoreInv, StoreTypeOK
<1>4. \A x \in Sensors : ~WillCheck(Top(t), x)
  BY <1>1 DEF WillCheck
<1> QED
  BY <1>1, <1>2, <1>3, <1>4, StackStep

\* LockThresholds drops the frame or moves it on.
LEMMA LockThresholdsStep ==
    ASSUME StoreInv, NEW t \in Writers, LockThresholds(t)
    PROVE  StoreInv'
<1> DEFINE f == [Top(t) EXCEPT !.todo = ThresholdsOf(Top(t).s), !.pc = "threshold"]
<1>1. stk[t] # <<>> /\ Top(t).pc = "limits" /\ Top(t) \in Frame
  BY TopFrame DEF LockThresholds, At, StoreInv, StoreTypeOK
<1>2. f \in Frame /\ f.pc = "threshold"
  BY <1>1 DEF Frame, FramePC, ThresholdsOf
<1>3. UNCHANGED sensorVars /\ tstate' \in [Thresholds -> ThresholdStates]
  BY DEF LockThresholds, StoreInv, StoreTypeOK
<1>4. \A x \in Sensors : ~WillCheck(Top(t), x)
  BY <1>1 DEF WillCheck
<1>5. CASE ThresholdsOf(Top(t).s) = {}
  <2>1. stk' = [stk EXCEPT ![t] = Pop(stk[t])]
    BY <1>5 DEF LockThresholds, StoreInv, StoreTypeOK
  <2>2. Becomes(t, Pop(stk[t])) /\ FramesOf(Pop(stk[t])) \subseteq Frames(t)
    BY <1>1, <2>1, PopBecomes DEF StoreInv
  <2> QED
    BY <1>1, <1>3, <1>4, <2>2, StackStep
<1>6. CASE ThresholdsOf(Top(t).s) # {}
  <2>1. stk' = [stk EXCEPT ![t] = SetTop(stk[t], f)]
    BY <1>6 DEF LockThresholds, StoreInv, StoreTypeOK
  <2> HIDE DEF f
  <2>2. /\ Becomes(t, SetTop(stk[t], f))
        /\ FramesOf(SetTop(stk[t], f)) \subseteq Frames(t) \cup {f}
    BY <1>1, <1>2, <2>1, SetTopBecomes DEF StoreInv
  <2> QED
    BY <1>1, <1>2, <1>3, <1>4, <2>2, StackStep
<1> QED
  BY <1>5, <1>6

\* CheckThreshold pushes a call that is about to write.
LEMMA CheckThresholdStep ==
    ASSUME StoreInv, NEW t \in Writers, NEW h \in Thresholds, CheckThreshold(t, h)
    PROVE  StoreInv'
<1> DEFINE state == NextState(h, tstate[h], value[Top(t).s])
           f == [Top(t) EXCEPT !.todo = @ \ {h}]
           g == NewFrame(thr[h].sid, "prev", Tripped(state), "threshold")
<1>1. stk[t] # <<>> /\ Top(t).pc = "threshold" /\ Top(t) \in Frame
  BY TopFrame DEF CheckThreshold, At, StoreInv, StoreTypeOK
<1>2. f \in Frame /\ f.pc = "threshold"
  BY <1>1 DEF Frame
<1>3. g \in Frame /\ g.pc = "prev"
  BY SensorsAssumption, ConfigAssumption
     DEF Frame, NewFrame, FramePC, Origins, Tripped
<1>4. state \in ThresholdStates
  BY DEF NextState, ThresholdStates, StoreInv, StoreTypeOK
<1>5. UNCHANGED sensorVars /\ tstate' \in [Thresholds -> ThresholdStates]
  BY <1>4 DEF CheckThreshold, StoreInv, StoreTypeOK
<1>6. \A x \in Sensors : ~WillCheck(Top(t), x)
  BY <1>1 DEF WillCheck
<1>7. stk' = [stk EXCEPT ![t] = IF state # tstate[h]
                                 THEN Push(SetTop(stk[t], f), g)
                                 ELSE SetTop(stk[t], f)]
  BY DEF CheckThreshold
<1> HIDE DEF f, g, state
<1>8. CASE state # tstate[h]
  <2>1. /\ Becomes(t, Push(SetTop(stk[t], f), g))
        /\ FramesOf(Push(SetTop(stk[t], f), g)) \subseteq Frames(t) \cup {f, g}
    BY <1>1, <1>2, <1>3, <1>7, <1>8, CallBecomes DEF StoreInv
  <2> QED
    BY <1>1, <1>2, <1>3, <1>5, <1>6, <2>1, StackStep
<1>9. CASE state = tstate[h]
  <2>1. /\ Becomes(t, SetTop(stk[t], f))
        /\ FramesOf(SetTop(stk[t], f)) \subseteq Frames(t) \cup {f}
    BY <1>1, <1>2, <1>7, <1>9, SetTopBecomes DEF StoreInv
  <2> QED
    BY <1>1, <1>2, <1>5, <1>6, <2>1, StackStep
<1> QED
  BY <1>8, <1>9

\* Freezing may leave the sensor with a value it should not show, but then
\* the pushed frame is about to write it.
LEMMA FreezeValueStep ==
    ASSUME StoreInv, NEW t \in Writers, NEW s \in Sensors, NEW set \in BOOLEAN,
           NEW v \in Values, FreezeValue(t, s, set, v)
    PROVE  StoreInv'
<1> DEFINE f == NewFrame(s, "prev", real_value[s], "freeze")
           q == Push(stk[t], f)
<1>1. f \in Frame /\ f.pc = "prev" /\ f.s = s
  BY DEF Frame, NewFrame, FramePC, Origins, StoreInv, StoreTypeOK
<1>2. Becomes(t, q) /\ FramesOf(q) = Frames(t) \cup {f}
  BY <1>1, PushBecomes DEF FreezeValue, StoreInv
<1>3. /\ stk[t] = <<>>
      /\ UNCHANGED <<real_value, value, blocked, tstate>>
      /\ frozen' = [frozen EXCEPT ![s] = set]
      /\ frozen_value' = [frozen_value EXCEPT ![s] = IF set THEN v ELSE value[s]]
  BY DEF FreezeValue, Idle
<1> HIDE DEF f, q
<1>4. StoreTypeOK'
  BY <1>2, <1>3 DEF StoreInv, StoreTypeOK, Becomes
<1>5. Recoverable'
  BY <1>3 DEF StoreInv, StoreTypeOK, Recoverable
<1>6. SlotsAreDependents'
  BY <1>1, <1>2, KeptSlots DEF StoreInv
<1>7. EffectiveValue'
  <2> DEFINE P == {"real", "prev", "write"}
  <2> SUFFICES ASSUME NEW z \in Sensors, ~InCall(z, P)'
               PROVE  (value[z] = Shown(z, frozen[z], frozen_value[z], blocked[z], real_value[z]))'
    BY DEF EffectiveValue
  <2>1. InCall(s, P)'
    <3>1. stk'[t] = q
      BY <1>2 DEF Becomes, StoreInv, StoreTypeOK
    <3> QED
      BY <1>1, <1>2, <3>1 DEF InCall, Frames
  <2>2. z # s
    BY <2>1
  <2>3. ~InCall(z, P)
    BY <1>2, <1>3, KeptCall DEF StoreInv
  <2> QED
    BY <1>3, <2>2, <2>3 DEF EffectiveValue, StoreInv, StoreTypeOK, Shown
<1>8. DependencyHolds'
  <2> SUFFICES ASSUME NEW x \in Sensors,
                      \E u \in Writers : \E g \in Frames(u) : WillCheck(g, x)
               PROVE  (\E u \in Writers : \E g \in Frames(u) : WillCheck(g, x))'
    BY <1>3 DEF DependencyHolds, StoreInv
  <2> QED
    BY <1>2, <1>3, KeptSignal DEF StoreInv
<1> QED
  BY <1>4, <1>5, <1>6, <1>7, <1>8 DEF StoreInv

\* The write brings the sensor to the value it should show, whether or not
\* localSetValue() finds that anything changed.
LEMMA WriteStep ==
    ASSUME StoreInv, NEW t \in Writers, Write(t)
    PROVE  StoreInv'
<1>1. stk[t] # <<>> /\ Top(t).pc = "write" /\ Top(t) \in Frame
  BY TopFrame DEF Write, At, StoreInv, StoreTypeOK
<1>2. PICK s \in Sensors, v \in Values : Top(t).s = s /\ Top(t).val = v
  BY <1>1 DEF Frame
<1> DEFINE new == Shown(s, frozen[s], frozen_value[s], blocked[s], v)
           f == IF Changes(s, v)
                THEN [Top(t) EXCEPT !.val = new, !.cur = new, !.pc = "emit"]
                ELSE [Top(t) EXCEPT !.cur = v, !.pc = "send"]
           q == SetTop(stk[t], f)
<1>3. new \in Values
  BY <1>2, ConfigAssumption DEF Shown, StoreInv, StoreTypeOK
<1>4. /\ f \in Frame /\ f.s = s
      /\ f.pc = IF Changes(s, v) THEN "emit" ELSE "send"
  BY <1>1, <1>2, <1>3 DEF Frame, FramePC
<1>5. /\ stk' = [stk EXCEPT ![t] = q]
      /\ UNCHANGED <<frozen, frozen_value, blocked, tstate>>
      /\ real_value' = IF Changes(s, v) THEN [real_value EXCEPT ![s] = v] ELSE real_value
      /\ value' = IF Changes(s, v) THEN [value EXCEPT ![s] = new] ELSE value
  BY <1>2 DEF Write
<1>6. /\ Becomes(t, q) /\ f \in FramesOf(q)
      /\ FramesOf(q) \subseteq Frames(t) \cup {f}
  BY <1>1, <1>4, <1>5, SetTopBecomes DEF StoreInv
<1>7. (value[s] = Shown(s, frozen[s], frozen_value[s], blocked[s], real_value[s]))'
  <2>1. CASE Changes(s, v)
    BY <1>2, <1>5, <2>1 DEF StoreInv, StoreTypeOK, Shown
  <2>2. CASE ~Changes(s, v)
    BY <1>2, <1>5, <2>2 DEF StoreInv, StoreTypeOK, Recoverable, Changes, Shown
  <2> QED
    BY <2>1, <2>2
<1>8. Recoverable'
  <2>1. ASSUME NEW z \in Sensors, z # s
        PROVE  (frozen[z] \/ value[z] \in {real_value[z], d_off_value[z], frozen_value[z]})'
    BY <1>5, <2>1 DEF StoreInv, StoreTypeOK, Recoverable
  <2>2. (frozen[s] \/ value[s] \in {real_value[s], d_off_value[s], frozen_value[s]})'
    BY <1>7 DEF Shown
  <2> QED
    BY <2>1, <2>2 DEF Recoverable
<1>9. StoreTypeOK'
  BY <1>2, <1>3, <1>5, <1>6 DEF StoreInv, StoreTypeOK, Becomes
<1> HIDE DEF f, q, new
<1>10. SlotsAreDependents'
  BY <1>4, <1>6, KeptSlots DEF StoreInv
<1>11. EffectiveValue'
  <2> DEFINE P == {"real", "prev", "write"}
  <2> SUFFICES ASSUME NEW z \in Sensors, ~InCall(z, P)', z # s
               PROVE  (value[z] = Shown(z, frozen[z], frozen_value[z], blocked[z], real_value[z]))'
    BY <1>7 DEF EffectiveValue
  <2>1. ~InCall(z, P)
    BY <1>2, <1>6, KeptCall DEF StoreInv
  <2> QED
    BY <1>5, <2>1 DEF EffectiveValue, StoreInv, StoreTypeOK, Shown
<1>12. DependencyHolds'
  <2> SUFFICES ASSUME NEW x \in Sensors, depend_sid[x] # NoSensor,
                      ~(\E u \in Writers : \E g \in Frames(u) : WillCheck(g, x))'
               PROVE  (blocked[x] = (value[depend_sid[x]] # d_value[x]))'
    BY DEF DependencyHolds
  <2>1. ~\E u \in Writers : \E g \in Frames(u) : WillCheck(g, x)
    <3>1. ~WillCheck(Top(t), x)
      BY <1>1 DEF WillCheck
    <3> QED
      BY <1>6, <3>1, KeptSignal DEF StoreInv
  <2>2. ~WillCheck(f, x)
    <3>1. stk'[t] = q
      BY <1>6 DEF Becomes, StoreInv, StoreTypeOK
    <3> QED
      BY <1>6, <3>1 DEF Frames, WillCheck
  <2>3. value'[depend_sid[x]] = value[depend_sid[x]]
    <3>1. CASE ~Changes(s, v)
      BY <1>5, <3>1
    <3>2. CASE Changes(s, v)
      <4>0. f.s = s /\ f.pc = "emit"
        BY <1>4, <3>2
      <4>1. depend_sid[x] # s
        BY <2>2, <4>0 DEF WillCheck
      <4>2. depend_sid[x] \in Sensors
        BY ConfigAssumption
      <4> QED
        BY <1>5, <3>2, <4>1, <4>2 DEF StoreInv, StoreTypeOK
    <3> QED
      BY <3>1, <3>2
  <2>4. blocked[x] = (value[depend_sid[x]] # d_value[x])
    BY <2>1 DEF StoreInv, DependencyHolds
  <2> QED
    BY <1>5, <2>3, <2>4
<1> QED
  BY <1>8, <1>9, <1>10, <1>11, <1>12 DEF StoreInv

\* checkDepend() of x0 makes its flag right and, if the flag changed, leaves
\* a frame that is about to write x0.
LEMMA CheckDependStep ==
    ASSUME StoreInv, NEW t \in Writers, NEW x0 \in Sensors, CheckDepend(t, x0)
    PROVE  StoreInv'
<1>1. /\ stk[t] # <<>> /\ Top(t).pc = "depend" /\ x0 \in Top(t).todo
      /\ Top(t) \in Frame /\ Top(t) \in Frames(t)
  BY TopFrame DEF CheckDepend, At, StoreInv, StoreTypeOK
<1>2. PICK d \in Sensors : Top(t).s = d
  BY <1>1 DEF Frame
<1>3. Top(t).todo \subseteq Dependents(d) /\ depend_sid[x0] = d
  BY <1>1, <1>2 DEF StoreInv, SlotsAreDependents, Dependents
<1>4. PICK block \in BOOLEAN : block = (value[d] # d_value[x0])
  OBVIOUS
<1> DEFINE f == [Top(t) EXCEPT !.todo = @ \ {x0}]
           g == NewFrame(x0, "real", 0, "depend")
           q == IF block # blocked[x0] THEN Push(SetTop(stk[t], f), g)
                                       ELSE SetTop(stk[t], f)
<1>5. /\ f \in Frame /\ f.s = d /\ f.pc = "depend"
      /\ f.todo = Top(t).todo \ {x0} /\ f.todo \subseteq Dependents(f.s)
  BY <1>1, <1>2, <1>3 DEF Frame
<1>6. g \in Frame /\ g.s = x0 /\ g.pc = "real"
  BY SensorsAssumption DEF Frame, NewFrame, FramePC, Origins
<1>7. /\ UNCHANGED <<real_value, value, frozen, frozen_value, tstate>>
      /\ blocked' = [blocked EXCEPT ![x0] = block]
      /\ stk' = [stk EXCEPT ![t] = q]
  BY <1>2, <1>4 DEF CheckDepend
<1> HIDE DEF f, g
<1>8. /\ Becomes(t, q) /\ f \in FramesOf(q)
      /\ FramesOf(q) \subseteq Frames(t) \cup {f, g}
      /\ block # blocked[x0] => g \in FramesOf(q)
  <2>1. CASE block # blocked[x0]
    BY <1>1, <1>5, <1>6, <1>7, <2>1, CallBecomes DEF StoreInv
  <2>2. CASE block = blocked[x0]
    BY <1>1, <1>5, <1>7, <2>2, SetTopBecomes DEF StoreInv
  <2> QED
    BY <2>1, <2>2
<1> HIDE DEF q
<1>9. stk'[t] = q
  BY <1>8 DEF Becomes, StoreInv, StoreTypeOK
<1>10. StoreTypeOK'
  BY <1>7, <1>8 DEF StoreInv, StoreTypeOK, Becomes
<1>11. Recoverable'
  BY <1>7 DEF StoreInv, Recoverable
<1>12. SlotsAreDependents'
  BY <1>5, <1>6, <1>8, KeptSlots DEF StoreInv
<1>13. EffectiveValue'
  <2> DEFINE P == {"real", "prev", "write"}
  <2> SUFFICES ASSUME NEW z \in Sensors, ~InCall(z, P)'
               PROVE  (value[z] = Shown(z, frozen[z], frozen_value[z], blocked[z], real_value[z]))'
    BY DEF EffectiveValue
  <2>1. blocked'[z] = blocked[z]
    <3>1. CASE z # x0
      BY <1>7, <3>1 DEF StoreInv, StoreTypeOK
    <3>2. CASE z = x0
      <4>1. g \notin FramesOf(q)
        BY <1>6, <1>9, <3>2 DEF InCall, Frames
      <4> QED
        BY <1>7, <1>8, <3>2, <4>1 DEF StoreInv, StoreTypeOK
    <3> QED
      BY <3>1, <3>2
  <2>2. ~InCall(z, P)
    BY <1>1, <1>8, KeptCall DEF StoreInv
  <2> QED
    BY <1>7, <2>1, <2>2 DEF EffectiveValue, StoreInv, Shown
<1>14. DependencyHolds'
  <2> SUFFICES ASSUME NEW x \in Sensors, depend_sid[x] # NoSensor,
                      ~(\E u \in Writers : \E h \in Frames(u) : WillCheck(h, x))'
               PROVE  (blocked[x] = (value[depend_sid[x]] # d_value[x]))'
    BY DEF DependencyHolds
  <2>1. CASE x = x0
    BY <1>3, <1>4, <1>7, <2>1 DEF StoreInv, StoreTypeOK
  <2>2. CASE x # x0
    <3>1. WillCheck(Top(t), x) => WillCheck(f, x)
      BY <1>1, <1>2, <1>5, <2>2 DEF WillCheck
    <3>2. ~\E u \in Writers : \E h \in Frames(u) : WillCheck(h, x)
      BY <1>8, <3>1, KeptSignal DEF StoreInv
    <3> QED
      BY <1>7, <2>2, <3>2 DEF StoreInv, StoreTypeOK, DependencyHolds
  <2> QED
    BY <2>1, <2>2
<1> QED
  BY <1>10, <1>11, <1>12, <1>13, <1>14 DEF StoreInv
-----------------------------------------------------------------------------
\* The invariant holds after activateInit().
LEMMA InitStoreInv == Init => StoreInv
<1> SUFFICES ASSUME Init PROVE StoreInv
  OBVIOUS
<1>1. \A t \in Writers : stk[t] = <<>> /\ Frames(t) = {}
  BY DEF Init, Frames, FramesOf
<1>2. StoreTypeOK
  <2>1. stk \in [Writers -> Seq(Frame)]
    BY DEF Init
  <2>2. tstate \in [Thresholds -> ThresholdStates]
    BY DEF Init, NextState, ThresholdStates
  <2>3. /\ value \in [Sensors -> Values] /\ frozen \in [Sensors -> BOOLEAN]
        /\ blocked \in [Sensors -> BOOLEAN]
    BY DEF Init
  <2>4. real_value \in [Sensors -> Values] /\ frozen_value \in [Sensors -> Values]
    <3>1. 0 \in Values /\ 1 \in Values
      BY SensorsAssumption
    <3>2. real_value \in [Sensors -> {0, 1}] /\ frozen_value = [s \in Sensors |-> 0]
      BY DEF Init
    <3> QED
      BY <3>1, <3>2
  <2> QED
    BY <2>1, <2>2, <2>3, <2>4 DEF StoreTypeOK
<1>3. Recoverable
  BY DEF Init, Recoverable
<1>4. SlotsAreDependents
  BY <1>1 DEF SlotsAreDependents
<1>5. EffectiveValue
  BY DEF Init, EffectiveValue, Shown
<1>6. DependencyHolds
  BY DEF Init, DependencyHolds
<1> QED
  BY <1>2, <1>3, <1>4, <1>5, <1>6 DEF StoreInv

\* Steps that change neither a sensor nor a stack.
LEMMA StoreUntouched ==
    ASSUME StoreInv, UNCHANGED <<sensorVars, tstate, stk>>
    PROVE  StoreInv'
BY DEF StoreInv, StoreTypeOK, Recoverable, SlotsAreDependents, EffectiveValue,
       DependencyHolds, sensorVars, InCall, Frames, WillCheck, Shown, Dependents

\* Every step keeps the invariant.
LEMMA NextStoreInv == StoreInv /\ [Next]_vars => StoreInv'
<1> SUFFICES ASSUME StoreInv, [Next]_vars PROVE StoreInv'
  OBVIOUS
<1>1. CASE UNCHANGED vars
  BY <1>1, StoreUntouched DEF vars
<1>2. ASSUME NEW t \in Writers, WriterCall(t) PROVE StoreInv'
  <2>1. PICK i \in Inputs : \/ SetValue(t, i[1], i[2])
                            \/ \E set \in BOOLEAN : FreezeValue(t, i[1], set, i[2])
    BY <1>2 DEF WriterCall
  <2>2. i[1] \in Sensors /\ i[2] \in Values
    BY SensorsAssumption
  <2> QED
    BY <2>1, <2>2, SetValueStep, FreezeValueStep
<1>3. ASSUME NEW t \in Writers, WriterStep(t) PROVE StoreInv'
  BY <1>3, ReadPrevStep, WriteStep, EmitStep, ReadRealStep, EmitDoneStep,
     CheckDependStep, ReturnUnchangedStep, SendStep, LockThresholdsStep,
     CheckThresholdStep, ThresholdsDoneStep DEF WriterStep
<1>4. ASSUME NEW t \in Askers, AskerCall(t) \/ AskerStep(t) PROVE StoreInv'
  <2>1. UNCHANGED <<sensorVars, tstate, stk>>
    BY <1>4 DEF AskerCall, AskerStep, AskSensor, DontNotify, CheckFirst, SendFirst
  <2> QED
    BY <2>1, StoreUntouched
<1>5. ASSUME NEW c \in Clients, CloseClient(c) PROVE StoreInv'
  BY <1>5, StoreUntouched DEF CloseClient
<1> QED
  BY <1>1, <1>2, <1>3, <1>4, <1>5 DEF Next

\* The sensors and the call stacks of the handlers keep their types.
THEOREM StoreTypeCorrect == Spec => []StoreTypeOK
<1>1. StoreInv => StoreTypeOK
  BY DEF StoreInv
<1> QED
  BY InitStoreInv, NextStoreInv, <1>1, PTL DEF Spec

\* For any number of threads, sensors, values and dependencies: a sensor that
\* no call is about to write shows its frozen value, else its off value when
\* it is blocked, else its real value (localSetValue, localFreezeValue and
\* checkDepend together).
THEOREM EffectiveValueHolds == Spec => []EffectiveValue
<1>1. StoreInv => EffectiveValue
  BY DEF StoreInv
<1> QED
  BY InitStoreInv, NextStoreInv, <1>1, PTL DEF Spec

\* For any dependencies between sensors the
\* blocking of a sensor follows the sensor it depends on, up to the signals
\* still under way (sigChange.emit -> checkDepend).
THEOREM DependencyAlwaysHolds == Spec => []DependencyHolds
<1>1. StoreInv => DependencyHolds
  BY DEF StoreInv
<1> QED
  BY InitStoreInv, NextStoreInv, <1>1, PTL DEF Spec
=============================================================================
