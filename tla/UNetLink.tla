------------------------------ MODULE UNetLink ------------------------------
(***************************************************************************)
(* A UNet channel: a sender, the network and a receiver.  The network is   *)
(* the set of the packets sent so far: any of them may arrive at any time, *)
(* again and in any order, or never; packets of others may arrive too.     *)
(* The receiver is alone with the event loop in Next; NextThreads adds     *)
(* what other threads of the process do to it.                             *)
(***************************************************************************)
EXTENDS UNetSender, UNetReceiver

\* The data of a packet name its pack; packs do not share a checksum, and no
\* checksum is 0.
ASSUME LinkAssumption ==
    /\ Packs \X Values \subseteq Payload
    /\ \A k, l \in Packs : \A v, w \in Values :
          /\ Crc(k, v) # ZeroCrc
          /\ Crc(k, v) = Crc(l, w) => k = l

VARIABLE sent       \* the packets that were sent: the network

vars == <<sendVars, recvVars, sent>>

Init == SendInit /\ RecvInit /\ sent = {}

\* real_send() with a transport that is ready, or is not.
Send(k) ==
    /\ RealSend(k)
    /\ sent' \in {sent, sent \cup {Message(k)}}
    /\ UNCHANGED recvVars

SenderStep ==
    \/ \E k \in Packs : Send(k)
    \/ /\ Restart \/ \E k \in Packs, v \in Values : UpdateItem(k, v)
       /\ UNCHANGED <<recvVars, sent>>

\* External: the network delivers.
Deliver(p) == Receive(p) /\ UNCHANGED <<sendVars, sent>>

LoopStep == UpdateEvent /\ UNCHANGED <<sendVars, sent>>

Next ==
    \/ SenderStep
    \/ \E p \in sent : Deliver(p)
    \/ LoopStep
    \/ /\ LostTimeout \/ \E n \in ForeignNums : ReceiveBad(n)
       /\ UNCHANGED <<sendVars, sent>>

\* start() on a watchdog command, and the switching of channels.
OtherThreads ==
    /\ \/ ForceUpdateRead \/ ForceUpdateWrite
       \/ ForceUpdateEarly \/ ForceUpdateRaced \/ ForceUpdateLost
       \/ \E b \in BOOLEAN : SetLockUpdate(b)
    /\ UNCHANGED <<sendVars, sent>>

\* The event loop keeps running, and time passes.
Fairness ==
    /\ WF_vars(LoopStep)
    /\ WF_vars(LostTimeout /\ UNCHANGED <<sendVars, sent>>)

\* Alone with the event loop, the receiver is one that writes.
InitAlone == Init /\ ~lockUpdate

Spec == InitAlone /\ [][Next]_vars /\ Fairness
NextThreads == Next \/ OtherThreads
SpecThreads == Init /\ [][NextThreads]_vars /\ Fairness
-----------------------------------------------------------------------------
TypeOK ==
    /\ SendTypeOK /\ RecvTypeOK
    /\ sent \subseteq Packet

\* The channel is a stream: what update() writes is the packet with the number
\* that is due, and that packet was sent; the ring loses nothing of this under
\* reordering, repetition, loss and restarts of the sender.  Without foreign
\* packets: one of them parsed into slot 0 may be taken for the packet number 0.
Stream == INSTANCE UNetStream WITH wpos <- wnum, rpos <- rnum, shown <- store
StreamSpec == Stream!Spec

\* receive() does not take a packet away that waits to be read: rnum moves past
\* it in update() only.  UNetReceiver.h says so of a failure of the numbers, too:
\* the packets up to the first hole are processed before the re-initialisation.
DueKept ==
    [][(rpc = "loop" /\ 0 < rnum /\ rnum < wnum /\ Here.num = rnum)
           => rnum' = rnum]_vars

\* Even with other threads moving rnum: as long as rnum and wnum are less than a
\* ring apart, what update() writes is a packet that was sent, with the number
\* that is due, rnum or the one that forceUpdate() writes into it meanwhile; never
\* one that failed isOk() or belongs to another number.  Not for number 0, which
\* marks an empty slot and which a late forceUpdate() of another thread may put
\* into rnum.
DueShown ==
    [][(store' # store /\ rnum > 0 /\ wnum - rnum < cbufSize)
           => \E due \in {rnum} \cup (IF forced' # forced THEN {forced - 1} ELSE {}) :
                 due = 0 \/ [num |-> due, data |-> store'] \in sent]_vars

\* update() does not wait for ever at a hole: the reader leaves every number.
HolePassed == \A n \in 1 .. MaxNum[1] : (rnum = n /\ wnum > n) ~> rnum # n
-----------------------------------------------------------------------------
(***************************************************************************)
(* What the proofs rest on.                                                *)
(***************************************************************************)
\* A slot with a number holds a packet that was sent; but the next packet, even
\* a foreign one, is parsed into the slot of wnum.
SlotsSent ==
    \A i \in Slots \ {At(wnum)} : cbuf[i].num # 0 => cbuf[i] \in sent

\* Packets are numbered from 1: a pack whose checksum was sent last has a number.
Numbered ==
    /\ \A p \in sent : p.num # 0
    /\ \A k \in Packs : \A v \in Values : lastcrc = Crc(k, v) => pnum[k] # 0

\* Until the reader is placed at a packet, slot 0 has nothing for it: an erased
\* slot there would be taken for the packet number 0.
FirstSlotEmpty ==
    /\ wnum = 1 => rnum = 0 /\ Here.data = NoData /\ rpc # "update"
    /\ rnum = 0 => Here.num # 0 \/ Here.data = NoData

StreamInv ==
    /\ TypeOK
    /\ \A i \in Slots : cbuf[i].num # 0 => cbuf[i] \in sent
    /\ Numbered
    /\ FirstSlotEmpty
=============================================================================
