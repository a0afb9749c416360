--------------------------- MODULE UNetLink_proofs ---------------------------
(***************************************************************************)
(* Proofs about a UNet channel, for every size of the ring, every          *)
(* maxDifferens, all packs, data and bounds.                               *)
(***************************************************************************)
EXTENDS UNetLink, WellFoundedInduction, TLAPS

-----------------------------------------------------------------------------
(* Arithmetic of the ring *)

LEMMA AtIsSlot == \A n \in Nat : At(n) \in Slots
  BY ReceiverAssumption DEF At, Slots

LEMMA AtSmall == \A n \in Slots : At(n) = n
  BY ReceiverAssumption DEF At, Slots

\* Numbers less than a ring apart have different places.
LEMMA AtInjective ==
  ASSUME NEW a \in Nat, NEW b \in Nat, a < b, b - a < cbufSize
  PROVE  At(a) # At(b)
<1> DEFINE N == cbufSize
           qa == a \div N
           qb == b \div N
<1>1. N \in Nat /\ N > 0
  BY ReceiverAssumption
<1>2. /\ qa \in Nat /\ a = N * qa + (a % N)
      /\ qb \in Nat /\ b = N * qb + (b % N)
  BY <1>1
<1> HIDE DEF N, qa, qb
<1>3. ASSUME a % N = b % N PROVE FALSE
  <2>1. b - a = N * (qb - qa)
    BY <1>1, <1>2, <1>3
  <2>2. CASE qb <= qa
    <3>1. N * (qb - qa) <= 0
      BY <1>1, <1>2, <2>2
    <3> QED
      BY <2>1, <3>1
  <2>3. CASE qb > qa
    <3>1. N * (qb - qa) >= N
      BY <1>1, <1>2, <2>3
    <3> QED
      BY <1>1, <1>2, <2>1, <3>1 DEF N
  <2> QED
    BY <2>2, <2>3, <1>2
<1> QED
  BY <1>3 DEF At, N

LEMMA LeastNumber ==
  ASSUME NEW S, S \subseteq Nat, S # {}
  PROVE  \E i \in S : \A j \in S : i <= j
<1>1. PICK x \in S : \A y \in S : ~(<<y, x>> \in OpToRel(<, Nat))
  BY NatLessThanWellFounded, WFMin
<1>2. \A y \in S : ~(y < x)
  BY <1>1 DEF OpToRel
<1> QED
  BY <1>2

\* rnext() always moves on, and not beyond wnum.
LEMMA NextPlace ==
  ASSUME wnum \in Nat, NEW n \in Nat, n < wnum
  PROVE  rnext(n) \in n + 1 .. wnum
<1> DEFINE later == {i \in n + 1 .. wnum - 1 : cbuf[At(i)].num > n}
<1>1. CASE later = {}
  BY <1>1 DEF rnext
<1>2. CASE later # {}
  <2>1. \E i \in later : \A j \in later : i <= j
    <3>1. later \subseteq Nat
      OBVIOUS
    <3> QED
      BY <1>2, <3>1, LeastNumber
  <2>2. rnext(n) \in later
    BY <1>2, <2>1 DEF rnext
  <2> QED
    BY <2>2
<1> QED
  BY <1>1, <1>2
-----------------------------------------------------------------------------
(* Types *)

LEMMA InitTyped == Init => TypeOK
<1> SUFFICES ASSUME Init PROVE TypeOK
  OBVIOUS
<1>1. SendTypeOK
  BY SenderAssumption DEF Init, SendInit, SendTypeOK
<1>2. RecvTypeOK
  <2>1. [num |-> 0, data |-> NoData] \in [num : Nat, data : Payload \cup {NoData, Foreign}]
    OBVIOUS
  <2>2. cbuf \in [Slots -> [num : Nat, data : Payload \cup {NoData, Foreign}]]
    BY <2>1 DEF Init, RecvInit
  <2>3. lostOut \in BOOLEAN /\ lockUpdate \in BOOLEAN /\ trOnMode \in BOOLEAN
    BY DEF Init, RecvInit
  <2>4. wnum \in Nat \ {0} /\ rnum \in Nat /\ forced \in Nat
    BY DEF Init, RecvInit
  <2>5. /\ mode \in Modes /\ rpc \in {"loop", "update", "mode"}
        /\ store \in Payload \cup {NoData, Foreign}
    BY DEF Init, RecvInit, Modes
  <2> QED
    BY <2>2, <2>3, <2>4, <2>5 DEF RecvTypeOK
<1> QED
  BY <1>1, <1>2 DEF Init, TypeOK

LEMMA MessageIsPacket == ASSUME SendTypeOK, NEW k \in Packs PROVE Message(k) \in Packet
<1>1. Number(k) \in Nat
  BY DEF SendTypeOK, Number
<1>2. <<k, pdata[k]>> \in Payload
  BY LinkAssumption DEF SendTypeOK
<1> QED
  BY <1>1, <1>2 DEF Message, Packet

LEMMA SenderTyped == TypeOK /\ SenderStep => TypeOK'
<1> SUFFICES ASSUME TypeOK, SenderStep PROVE TypeOK'
  OBVIOUS
<1> USE DEF TypeOK
<1>1. ASSUME NEW k \in Packs, Send(k) PROVE TypeOK'
  <2>1. Number(k) \in Nat /\ Crc(k, pdata[k]) \in {Crc(x, v) : x \in Packs, v \in Values}
    BY DEF SendTypeOK, Number
  <2>2. SendTypeOK'
    BY <1>1, <2>1 DEF Send, RealSend, SendTypeOK
  <2>3. sent' \subseteq Packet
    BY <1>1, MessageIsPacket DEF Send
  <2>4. RecvTypeOK'
    BY <1>1 DEF Send, recvVars, RecvTypeOK
  <2> QED
    BY <2>2, <2>3, <2>4
<1>2. ASSUME Restart, UNCHANGED <<recvVars, sent>> PROVE TypeOK'
  <2>1. SendTypeOK'
    BY <1>2, SenderAssumption DEF Restart, SendTypeOK
  <2>2. RecvTypeOK'
    BY <1>2 DEF recvVars, RecvTypeOK
  <2> QED
    BY <1>2, <2>1, <2>2
<1>3. ASSUME NEW k \in Packs, NEW v \in Values, UpdateItem(k, v), UNCHANGED <<recvVars, sent>>
      PROVE  TypeOK'
  <2>1. SendTypeOK'
    BY <1>3 DEF UpdateItem, SendTypeOK
  <2>2. RecvTypeOK'
    BY <1>3 DEF recvVars, RecvTypeOK
  <2> QED
    BY <1>3, <2>1, <2>2
<1> QED
  BY <1>1, <1>2, <1>3 DEF SenderStep

\* What every step of the receiver leaves alone.
LEMMA OthersTyped ==
  ASSUME TypeOK, UNCHANGED <<sendVars, sent>>, RecvTypeOK' PROVE TypeOK'
  BY DEF TypeOK, sendVars, SendTypeOK

LEMMA ReceiveTyped ==
  ASSUME RecvTypeOK, NEW p \in Packet, Receive(p) PROVE RecvTypeOK'
<1> DEFINE Slot == [num : Nat, data : Payload \cup {NoData, Foreign}]
<1>1. p \in Slot /\ [p EXCEPT !.num = 0] \in Slot /\ p.num \in Nat
  BY DEF Packet
<1>2. At(wnum) \in Slots /\ At(p.num) \in Slots
  BY <1>1, AtIsSlot DEF RecvTypeOK
<1>3. Moved(p) \in [Slots -> Slot] /\ [cbuf EXCEPT ![At(wnum)] = p] \in [Slots -> Slot]
  BY <1>1, <1>2 DEF RecvTypeOK, Moved
<1>4. cbuf' \in [Slots -> Slot] /\ wnum' \in Nat \ {0} /\ rnum' \in Nat
  BY <1>1, <1>3 DEF Receive, Reinit, Misplaced, Expected, RecvTypeOK
<1> QED
  BY <1>4 DEF Receive, RecvTypeOK, modeVars

LEMMA BadTyped ==
  ASSUME RecvTypeOK, NEW n \in ForeignNums, ReceiveBad(n) PROVE RecvTypeOK'
<1>1. n \in Nat /\ At(wnum) \in Slots
  BY ReceiverAssumption, AtIsSlot DEF RecvTypeOK
<1> QED
  BY <1>1 DEF ReceiveBad, RecvTypeOK, modeVars

LEMMA HereTyped ==
  ASSUME RecvTypeOK
  PROVE  Here.num \in Nat /\ Here.data \in Payload \cup {NoData, Foreign}
  BY AtIsSlot DEF Here, RecvTypeOK

LEMMA UpdateTyped == RecvTypeOK /\ UpdateEvent => RecvTypeOK'
<1> SUFFICES ASSUME RecvTypeOK, UpdateEvent PROVE RecvTypeOK'
  OBVIOUS
<1> USE DEF RecvTypeOK, ringVars, modeVars
<1>1. CASE UpdateBegin
  BY <1>1 DEF UpdateBegin
<1>2. CASE UpdateStep
  <2>1. wnum \in Nat /\ rnum \in Nat /\ rnum < wnum
    BY <1>2 DEF UpdateStep
  <2>2. rnext(rnum) \in Nat
    BY <2>1, NextPlace
  <2>3. /\ lostOut' \in BOOLEAN /\ rnum' \in Nat
        /\ store' \in Payload \cup {NoData, Foreign}
    <3>1. CASE Consume(rnum, rnum + 1)
      <4>1. store' = store \/ store' = Here.data
        BY <3>1 DEF Consume
      <4>2. lostOut' = FALSE /\ rnum' = rnum + 1
        BY <3>1 DEF Consume
      <4>3. rnum' \in Nat
        BY <2>1, <4>2
      <4> QED
        BY <4>1, <4>2, <4>3, HereTyped
    <3>2. CASE SkipHole(rnum, rnext(rnum))
      BY <3>2, <2>2 DEF SkipHole
    <3> QED
      BY <1>2, <3>1, <3>2 DEF UpdateStep
  <2> QED
    BY <1>2, <2>3 DEF UpdateStep
<1>3. CASE UpdateEnd
  BY <1>3 DEF UpdateEnd
<1>4. ASSUME NEW m \in Modes, ReadMode(m) PROVE RecvTypeOK'
  BY <1>4 DEF ReadMode
<1> QED
  BY <1>1, <1>2, <1>3, <1>4 DEF UpdateEvent

LEMMA OtherThreadsTyped == RecvTypeOK /\ OtherThreads => RecvTypeOK'
<1> SUFFICES ASSUME RecvTypeOK, OtherThreads PROVE RecvTypeOK'
  OBVIOUS
<1> USE DEF RecvTypeOK, ringVars, modeVars
<1>1. CASE ForceUpdateRead
  BY <1>1 DEF ForceUpdateRead
<1>2. CASE ForceUpdateWrite
  BY <1>2 DEF ForceUpdateWrite
<1>3. CASE ForceUpdateRaced \/ ForceUpdateEarly
  <2>1. forced \in Nat \ {0}
    BY <1>3 DEF ForceUpdateRaced, ForceUpdateEarly
  <2>2. rnext(forced - 1) \in Nat
    <3>1. CASE forced - 1 < wnum
      BY <2>1, <3>1, NextPlace
    <3>2. CASE ~(forced - 1 < wnum)
      BY <2>1, <3>2 DEF rnext
    <3> QED
      BY <3>1, <3>2
  <2>3. CASE ForceUpdateRaced
    BY <2>1, <2>2, <2>3, HereTyped DEF ForceUpdateRaced, Consume, SkipHole
  <2>4. CASE ForceUpdateEarly
    <3>1. rnum' \in Nat /\ lostOut' \in BOOLEAN
      <4>1. rnum' \in {forced, forced - 1, rnext(forced - 1)}
        BY <2>4 DEF ForceUpdateEarly, Consume, SkipHole
      <4>2. lostOut' = FALSE \/ lostOut' = lostOut
        BY <2>4 DEF ForceUpdateEarly, Consume, SkipHole
      <4>3. rnum' \in Nat
        BY <2>1, <2>2, <4>1
      <4>4. lostOut' \in BOOLEAN
        BY <4>2
      <4> QED
        BY <4>3, <4>4
    <3>2. store' \in {store, Here.data} /\ rpc' \in {rpc, "mode"}
      BY <2>4 DEF ForceUpdateEarly, Consume, SkipHole
    <3>3. store' \in Payload \cup {NoData, Foreign} /\ rpc' \in {"loop", "update", "mode"}
      BY <3>2, HereTyped
    <3> QED
      BY <2>4, <3>1, <3>3 DEF ForceUpdateEarly
  <2> QED
    BY <1>3, <2>3, <2>4
<1>4. CASE ForceUpdateLost
  BY <1>4 DEF ForceUpdateLost
<1>5. ASSUME NEW b \in BOOLEAN, SetLockUpdate(b) PROVE RecvTypeOK'
  BY <1>5 DEF SetLockUpdate
<1> QED
  BY <1>1, <1>2, <1>3, <1>4, <1>5 DEF OtherThreads

LEMMA TypeStep == TypeOK /\ [NextThreads]_vars => TypeOK'
<1> SUFFICES ASSUME TypeOK, [NextThreads]_vars PROVE TypeOK'
  OBVIOUS
<1>1. CASE SenderStep
  BY <1>1, SenderTyped
<1>2. ASSUME NEW p \in sent, Deliver(p) PROVE TypeOK'
  BY <1>2, ReceiveTyped, OthersTyped DEF Deliver, TypeOK
<1>3. CASE LoopStep
  BY <1>3, UpdateTyped, OthersTyped DEF LoopStep, TypeOK
<1>4. ASSUME LostTimeout, UNCHANGED <<sendVars, sent>> PROVE TypeOK'
  <2>1. RecvTypeOK'
    BY <1>4 DEF LostTimeout, TypeOK, RecvTypeOK, ringVars, modeVars
  <2> QED
    BY <1>4, <2>1, OthersTyped
<1>5. ASSUME NEW n \in ForeignNums, ReceiveBad(n), UNCHANGED <<sendVars, sent>> PROVE TypeOK'
  BY <1>5, BadTyped, OthersTyped DEF TypeOK
<1>6. CASE OtherThreads
  BY <1>6, OtherThreadsTyped, OthersTyped DEF TypeOK, OtherThreads
<1>7. CASE UNCHANGED vars
  <2>1. RecvTypeOK'
    BY <1>7 DEF vars, recvVars, RecvTypeOK, TypeOK
  <2> QED
    BY <1>7, <2>1, OthersTyped DEF vars
<1> QED
  BY <1>1, <1>2, <1>3, <1>4, <1>5, <1>6, <1>7 DEF NextThreads, Next

\* The numbers, the ring and the network keep their types, with other threads and
\* foreign packets too; wnum never falls back to 0.
THEOREM LinkTyped == Spec \/ SpecThreads => []TypeOK
<1>1. InitAlone => Init
  BY DEF InitAlone
<1>2. [Next]_vars => [NextThreads]_vars
  BY DEF NextThreads
<1> QED
  BY <1>1, <1>2, InitTyped, TypeStep, PTL DEF Spec, SpecThreads
-----------------------------------------------------------------------------
(* The ring, with other threads and foreign packets *)

\* The three ways in which receive() fills the ring, slot by slot.
LEMMA RingAfterReceive ==
  ASSUME RecvTypeOK, NEW p \in Packet, Receive(p), NEW i \in Slots
  PROVE  \/ cbuf'[i] = p /\ i = At(p.num)
         \/ cbuf'[i].num = 0 /\ i = At(wnum)
         \/ cbuf'[i] = cbuf[i] /\ i # At(wnum) /\ i # At(p.num)
<1>1. At(wnum) \in Slots /\ At(p.num) \in Slots
  BY AtIsSlot DEF RecvTypeOK, Packet
<1>2. [p EXCEPT !.num = 0].num = 0
  BY DEF Packet
<1>3. CASE cbuf' = Moved(p)
  BY <1>1, <1>2, <1>3 DEF Moved, RecvTypeOK
<1>4. CASE cbuf' = [cbuf EXCEPT ![At(wnum)] = p] /\ p.num = wnum
  BY <1>1, <1>4 DEF RecvTypeOK
<1> QED
  BY <1>3, <1>4 DEF Receive, Reinit, Misplaced, Expected

RingInv == TypeOK /\ SlotsMatch /\ SlotsSent

LEMMA RingStep == RingInv /\ [NextThreads]_vars => RingInv'
<1> SUFFICES ASSUME RingInv, [NextThreads]_vars PROVE RingInv'
  OBVIOUS
<1> USE DEF RingInv
<1>1. TypeOK'
  BY TypeStep
<1>2. ASSUME NEW p \in sent, Deliver(p) PROVE SlotsMatch' /\ SlotsSent'
  <2>1. p \in Packet /\ p.data # Foreign /\ sent' = sent
    BY <1>2, ReceiverAssumption DEF TypeOK, Packet, Deliver
  <2>2. \A i \in Slots : \/ cbuf'[i] = p /\ i = At(p.num)
                         \/ cbuf'[i].num = 0 /\ i = At(wnum)
                         \/ cbuf'[i] = cbuf[i] /\ i # At(wnum) /\ i # At(p.num)
    BY <1>2, <2>1, RingAfterReceive DEF TypeOK, Deliver
  <2> QED
    BY <2>1, <2>2 DEF SlotsMatch, SlotsSent
<1>3. ASSUME NEW n \in ForeignNums, ReceiveBad(n), UNCHANGED <<sendVars, sent>>
      PROVE  SlotsMatch' /\ SlotsSent'
  BY <1>3 DEF ReceiveBad, SlotsMatch, SlotsSent, TypeOK, RecvTypeOK
<1>4. ASSUME UNCHANGED ringVars, sent \subseteq sent' PROVE SlotsMatch' /\ SlotsSent'
  BY <1>4 DEF ringVars, SlotsMatch, SlotsSent, At
<1>5. SenderStep => UNCHANGED ringVars /\ sent \subseteq sent'
  BY DEF SenderStep, Send, recvVars, ringVars
<1>6. LoopStep => UNCHANGED ringVars /\ sent \subseteq sent'
  BY DEF LoopStep, UpdateEvent, UpdateBegin, UpdateStep, UpdateEnd, ReadMode, ringVars
<1>7. LostTimeout /\ UNCHANGED <<sendVars, sent>> => UNCHANGED ringVars /\ sent \subseteq sent'
  BY DEF LostTimeout, ringVars
<1>8. OtherThreads => UNCHANGED ringVars /\ sent \subseteq sent'
  BY DEF OtherThreads, ForceUpdateRead, ForceUpdateWrite, ForceUpdateEarly,
         ForceUpdateRaced, ForceUpdateLost, SetLockUpdate, ringVars
<1>9. UNCHANGED vars => UNCHANGED ringVars /\ sent \subseteq sent'
  BY DEF vars, recvVars, ringVars
<1> QED
  BY <1>1, <1>2, <1>3, <1>4, <1>5, <1>6, <1>7, <1>8, <1>9 DEF NextThreads, Next

LEMMA RingInit == Init => RingInv
<1> SUFFICES ASSUME Init PROVE RingInv
  OBVIOUS
<1>1. \A i \in Slots : cbuf[i].num = 0
  BY DEF Init, RecvInit
<1> QED
  BY <1>1, InitTyped DEF RingInv, SlotsMatch, SlotsSent

LEMMA RingAlways == SpecThreads => []RingInv
  BY RingInit, RingStep, PTL DEF SpecThreads

\* In whatever order the packets come, with foreign packets among them and other
\* threads moving the reader: a slot holds nothing, or a whole packet of the peer
\* that belongs there.
THEOREM SlotsAlwaysMatch == SpecThreads => []SlotsMatch
<1>1. RingInv => SlotsMatch
  BY DEF RingInv
<1> QED
  BY <1>1, RingAlways, PTL

\* While the reader is less than a ring behind, what update() writes is the packet
\* that is due, one that was sent: RingInv, and the place of rnum is not the one
\* that receive() parses into.
THEOREM DueAlwaysShown == SpecThreads => DueShown
<1> DEFINE Due == (store' # store /\ rnum > 0 /\ wnum - rnum < cbufSize)
                     => \E due \in {rnum} \cup (IF forced' # forced THEN {forced - 1} ELSE {}) :
                           due = 0 \/ [num |-> due, data |-> store'] \in sent
<1>1. RingInv /\ [NextThreads]_vars => [Due]_vars
  <2> DEFINE dues == {rnum} \cup (IF forced' # forced THEN {forced - 1} ELSE {})
  <2> SUFFICES ASSUME RingInv, [NextThreads]_vars, store' # store, rnum > 0,
                      wnum - rnum < cbufSize
               PROVE  \E due \in dues : due = 0 \/ [num |-> due, data |-> store'] \in sent
    OBVIOUS
  <2>1. PICK due \in dues : rnum < wnum /\ \E n : Consume(due, n)
    <3>1. CASE UpdateStep \/ ForceUpdateRaced
      BY <3>1 DEF UpdateStep, ForceUpdateRaced, SkipHole
    <3>2. CASE ForceUpdateEarly
      <4>1. forced' # forced /\ rnum < wnum /\ Consume(forced - 1, forced)
        BY <3>2 DEF ForceUpdateEarly, SkipHole
      <4> QED
        BY <4>1
    <3>3. UpdateStep \/ ForceUpdateRaced \/ ForceUpdateEarly
      BY DEF NextThreads, Next, SenderStep, Send, Deliver, Receive, LoopStep, UpdateEvent,
             UpdateBegin, UpdateEnd, ReadMode, LostTimeout, ReceiveBad,
             OtherThreads, ForceUpdateRead, ForceUpdateWrite,
             ForceUpdateLost, SetLockUpdate, vars, recvVars
    <3> QED
      BY <3>1, <3>2, <3>3
  <2>2. rnum \in Nat /\ wnum \in Nat
    BY DEF RingInv, TypeOK, RecvTypeOK
  <2>3. At(rnum) \in Slots \ {At(wnum)}
    BY <2>1, <2>2, AtIsSlot, AtInjective
  <2>4. Here.num = due /\ store' = Here.data
    BY <2>1 DEF Consume
  <2>5. ASSUME due # 0 PROVE [num |-> due, data |-> store'] \in sent
    <3>1. Here \in sent
      BY <2>3, <2>4, <2>5 DEF RingInv, SlotsSent, Here
    <3>2. Here = [num |-> Here.num, data |-> Here.data]
      BY <3>1 DEF RingInv, TypeOK, Packet
    <3> QED
      BY <2>4, <3>1, <3>2
  <2> QED
    BY <2>1, <2>5
<1> QED
  BY <1>1, RingAlways, PTL DEF SpecThreads, DueShown
-----------------------------------------------------------------------------
(* The channel implements the stream, when nobody else sends into it *)

LEMMA StreamInit == Init => StreamInv
<1> SUFFICES ASSUME Init PROVE StreamInv
  OBVIOUS
<1>1. \A i \in Slots : cbuf[i] = [num |-> 0, data |-> NoData]
  BY DEF Init, RecvInit
<1>2. Here.data = NoData
  BY <1>1, AtIsSlot DEF Here, Init, RecvInit
<1>3. Numbered
  BY LinkAssumption DEF Init, SendInit, Numbered
<1> QED
  BY <1>1, <1>2, <1>3, InitTyped DEF StreamInv, FirstSlotEmpty, Init, RecvInit

\* A pack that real_send() sends has a number.
LEMMA NumberedStep == TypeOK /\ Numbered /\ SenderStep => Numbered'
<1> SUFFICES ASSUME TypeOK, Numbered, SenderStep PROVE Numbered'
  OBVIOUS
<1>1. ASSUME NEW k \in Packs, Send(k) PROVE Numbered'
  <2>1. pdata[k] \in Values /\ packetnum # 0 /\ pnum \in [Packs -> Nat]
    BY DEF TypeOK, SendTypeOK
  <2>2. Number(k) # 0
    BY <2>1 DEF Number, Changed, Numbered
  <2>3. \A p \in sent' : p.num # 0
    BY <1>1, <2>2 DEF Send, Message, Numbered
  <2>4. \A l \in Packs : \A v \in Values : lastcrc' = Crc(l, v) => pnum'[l] # 0
    BY <1>1, <2>1, <2>2, LinkAssumption DEF Send, RealSend
  <2> QED
    BY <2>3, <2>4 DEF Numbered
<1>2. ASSUME Restart, UNCHANGED <<recvVars, sent>> PROVE Numbered'
  BY <1>2, LinkAssumption DEF Restart, Numbered
<1>3. ASSUME NEW k \in Packs, NEW v \in Values, UpdateItem(k, v), UNCHANGED <<recvVars, sent>>
      PROVE  Numbered'
  BY <1>3 DEF UpdateItem, Numbered
<1> QED
  BY <1>1, <1>2, <1>3 DEF SenderStep

\* While rnum is 0, receive() does not parse into slot 0.
LEMMA FirstSlotReceive ==
  ASSUME StreamInv, NEW p \in sent, Receive(p) PROVE FirstSlotEmpty'
<1>1. p \in Packet /\ p.num \in Nat \ {0} /\ wnum \in Nat \ {0} /\ rnum \in Nat /\ RecvTypeOK
  BY DEF StreamInv, TypeOK, RecvTypeOK, Packet, Numbered
<1>2. wnum' \in Nat /\ wnum' > 1
  BY <1>1 DEF Receive, Reinit, Misplaced, Expected
<1>3. ASSUME rnum' = 0 PROVE Here'.num # 0 \/ Here'.data = NoData
  <2>1. rnum = 0 /\ ~Disagree(p)
    BY <1>1, <1>3 DEF Receive, Reinit, Misplaced, Expected
  <2>2. wnum \in Slots
    BY <1>1, <2>1, ReceiverAssumption DEF Disagree, Distance, Slots
  <2>3. 0 \in Slots /\ At(wnum) # 0 /\ At(0) = 0
    BY <1>1, <2>2, AtSmall, ReceiverAssumption DEF Slots
  <2>4. cbuf'[0] = p \/ cbuf'[0] = cbuf[0]
    BY <1>1, <2>3, RingAfterReceive
  <2>5. Here = cbuf[0] /\ Here' = cbuf'[0]
    BY <1>3, <2>1, <2>3 DEF Here, At
  <2> QED
    BY <1>1, <2>1, <2>4, <2>5 DEF StreamInv, FirstSlotEmpty
<1> QED
  BY <1>2, <1>3 DEF FirstSlotEmpty

LEMMA FirstSlotUpdate ==
  ASSUME StreamInv, UpdateEvent PROVE FirstSlotEmpty'
<1> USE DEF StreamInv, FirstSlotEmpty, ringVars
<1>1. wnum \in Nat \ {0} /\ rnum \in Nat
  BY DEF TypeOK, RecvTypeOK
<1>2. CASE UpdateBegin
  BY <1>2 DEF UpdateBegin, NoPackets, Here, At
<1>3. CASE UpdateStep
  <2>1. rnext(rnum) # 0
    BY <1>1, <1>3, NextPlace DEF UpdateStep
  <2>2. rnum' # 0 /\ wnum # 1 /\ wnum' = wnum
    BY <1>1, <1>3, <2>1 DEF UpdateStep, Consume, SkipHole
  <2> QED
    BY <2>2
<1>4. CASE UpdateEnd
  BY <1>4 DEF UpdateEnd, Here, At
<1>5. ASSUME NEW m \in Modes, ReadMode(m) PROVE FirstSlotEmpty'
  <2>1. CASE rnum' = rnum
    BY <1>5, <2>1 DEF ReadMode, Here, At
  <2>2. CASE rnum' = wnum - 1
    <3>1. CASE wnum = 1
      BY <1>5, <2>2, <3>1 DEF ReadMode, Here, At
    <3>2. CASE wnum # 1
      BY <1>1, <1>5, <2>2, <3>2 DEF ReadMode
    <3> QED
      BY <3>1, <3>2
  <2> QED
    BY <1>5, <2>1, <2>2 DEF ReadMode
<1> QED
  BY <1>2, <1>3, <1>4, <1>5 DEF UpdateEvent

LEMMA StreamStep == ForeignNums = {} /\ StreamInv /\ [Next]_vars => StreamInv'
<1> SUFFICES ASSUME ForeignNums = {}, StreamInv, [Next]_vars PROVE StreamInv'
  OBVIOUS
<1> DEFINE AllSent == \A i \in Slots : cbuf[i].num # 0 => cbuf[i] \in sent
<1>1. TypeOK'
  BY TypeStep DEF StreamInv, NextThreads
<1>2. CASE SenderStep
  <2>1. sent \subseteq sent' /\ UNCHANGED recvVars
    BY <1>2 DEF SenderStep, Send
  <2>2. AllSent' /\ FirstSlotEmpty'
    BY <2>1 DEF StreamInv, FirstSlotEmpty, recvVars, Here, At
  <2> QED
    BY <1>1, <1>2, <2>2, NumberedStep DEF StreamInv
<1>3. ASSUME NEW p \in sent, Deliver(p) PROVE StreamInv'
  <2>1. \A i \in Slots : cbuf'[i] \in {p, cbuf[i]} \/ cbuf'[i].num = 0
    BY <1>3, RingAfterReceive DEF StreamInv, TypeOK, Deliver
  <2>2. AllSent' /\ Numbered'
    BY <1>3, <2>1 DEF StreamInv, Deliver, sendVars, Numbered
  <2> QED
    BY <1>1, <1>3, <2>2, FirstSlotReceive DEF StreamInv, Deliver
<1>4. CASE LoopStep
  <2>1. UNCHANGED <<cbuf, sent>>
    BY <1>4 DEF LoopStep, UpdateEvent, UpdateBegin, UpdateStep, UpdateEnd, ReadMode, ringVars
  <2>2. AllSent' /\ Numbered'
    BY <1>4, <2>1 DEF StreamInv, LoopStep, sendVars, Numbered
  <2> QED
    BY <1>1, <1>4, <2>2, FirstSlotUpdate DEF StreamInv, LoopStep
<1>5. ASSUME LostTimeout \/ UNCHANGED recvVars, UNCHANGED <<sendVars, sent>> PROVE StreamInv'
  BY <1>1, <1>5 DEF LostTimeout, StreamInv, FirstSlotEmpty, Numbered, sendVars, recvVars,
                    ringVars, Here, At
<1> QED
  BY <1>2, <1>3, <1>4, <1>5 DEF Next, vars

LEMMA StreamAlways == ForeignNums = {} => (Spec => []StreamInv)
<1> SUFFICES ASSUME ForeignNums = {} PROVE Spec => []StreamInv
  OBVIOUS
<1>1. StreamInv /\ [Next]_vars => StreamInv'
  BY StreamStep
<1> QED
  BY <1>1, StreamInit, PTL DEF Spec, InitAlone

\* Every step of the channel is a step of the stream, or none.
LEMMA StreamStepMaps ==
  ASSUME StreamInv, [Next]_vars, ForeignNums = {}
  PROVE  [Stream!Next]_<<sent, wnum, rnum, store>>
<1> USE DEF Stream!Next
<1>1. wnum \in Nat \ {0} /\ rnum \in Nat
  BY DEF StreamInv, TypeOK, RecvTypeOK
<1>2. CASE SenderStep
  <2>1. sent' \subseteq Packet /\ sent \subseteq sent' /\ UNCHANGED recvVars
    BY <1>2, SenderTyped DEF StreamInv, TypeOK, SenderStep, Send
  <2> QED
    BY <2>1 DEF Stream!Send, Packet, recvVars
<1>3. ASSUME NEW p \in sent, Deliver(p) PROVE Stream!Next
  <2>1. p.num \in Nat /\ sent' = sent /\ store' = store
    BY <1>3 DEF StreamInv, TypeOK, Packet, Deliver, Receive
  <2>2. Stream!StartAgain(p) \/ Stream!Take(p)
    BY <1>1, <1>3, <2>1 DEF Deliver, Receive, Reinit, Misplaced, Expected,
                            Stream!StartAgain, Stream!Take
  <2> QED
    BY <2>2
<1>4. CASE LoopStep
  <2>1. CASE UpdateBegin \/ UpdateEnd
    BY <1>4, <2>1 DEF LoopStep, UpdateBegin, UpdateEnd, ringVars
  <2>2. ASSUME NEW m \in Modes, ReadMode(m)
        PROVE  [Stream!Next]_<<sent, wnum, rnum, store>>
    BY <1>4, <2>2 DEF LoopStep, ReadMode, ringVars, Stream!ReadNewestAgain
  <2>3. ASSUME rnum < wnum, Consume(rnum, rnum + 1), UNCHANGED <<wnum, sent>> PROVE Stream!Next
    <3>1. CASE store' = store
      <4>1. rnum' \in rnum + 1 .. wnum
        BY <1>1, <2>3 DEF Consume
      <4> QED
        BY <2>3, <3>1, <4>1 DEF Stream!PassOver
    <3>2. CASE store' # store
      <4>1. Here.num = rnum /\ store' = Here.data /\ Here.data # NoData /\ rnum' = rnum + 1
        BY <2>3, <3>2 DEF Consume
      <4>2. Here.num # 0
        BY <4>1 DEF StreamInv, FirstSlotEmpty
      <4>3. Here \in sent
        BY <1>1, <4>2, AtIsSlot DEF StreamInv, Here
      <4> QED
        BY <2>3, <4>1, <4>3 DEF Stream!Show
    <3> QED
      BY <3>1, <3>2
  <2>4. ASSUME rnum < wnum, SkipHole(rnum, rnext(rnum)), UNCHANGED <<wnum, sent>>
        PROVE  Stream!Next
    BY <1>1, <2>4, NextPlace DEF SkipHole, Stream!PassOver
  <2> QED
    BY <1>4, <2>1, <2>2, <2>3, <2>4 DEF LoopStep, UpdateEvent, UpdateStep, ringVars
<1>5. ASSUME LostTimeout, UNCHANGED <<sendVars, sent>>
      PROVE  UNCHANGED <<sent, wnum, rnum, store>>
  BY <1>5 DEF LostTimeout, ringVars
<1>6. ASSUME UNCHANGED vars PROVE UNCHANGED <<sent, wnum, rnum, store>>
  BY <1>6 DEF vars, recvVars
<1> QED
  BY <1>2, <1>3, <1>4, <1>5, <1>6 DEF Next

\* The receiver of a channel into which only the peer sends implements the stream:
\* the ring, its holes, re-initialisation and the erased numbers never make it
\* write anything but the packet that is due, one that was sent.
THEOREM LinkImplementsStream == ForeignNums = {} => (Spec => StreamSpec)
<1> SUFFICES ASSUME ForeignNums = {} PROVE Spec => StreamSpec
  OBVIOUS
<1>1. Init => Stream!Init
  BY DEF Init, RecvInit, Stream!Init
<1>2. StreamInv /\ [Next]_vars => [Stream!Next]_<<sent, wnum, rnum, store>>
  BY StreamStepMaps
<1>3. Spec => []StreamInv
  BY StreamAlways
<1> QED
  BY <1>1, <1>2, <1>3, PTL DEF Spec, InitAlone, StreamSpec, Stream!Spec
=============================================================================
