---------------------------- MODULE UNetReceiver ----------------------------
(***************************************************************************)
(* The receiver of one UNet channel: packets come in any order, wait in a  *)
(* ring (cbuf) at the place their number gives them and are written into   *)
(* the shared memory in the order of their numbers.                        *)
(*                                                                         *)
(* readEvent() and updateEvent() run in the thread of the common event     *)
(* loop; start(), called again on a watchdog command, moves rnum from      *)
(* another thread, and setLockUpdate() sets an atomic flag.                *)
(*                                                                         *)
(* A packet is its number and its payload.  The payload stands for all the *)
(* sensors of the packet; the caches of iterators and the statistics       *)
(* (lostPackets, upCount) are left out.  The transport is the argument of  *)
(* Receive.  checkConnection() is modelled in UNetExchange.                *)
(***************************************************************************)
EXTENDS Integers

CONSTANTS
    cbufSize,       \* size of the ring
    maxDifferens,   \* numbers further apart than this are a failure
    Payload,        \* payloads of the packets of the peer
    NoData,         \* payload of a packet that was never filled
    Foreign,        \* payload of a packet that fails isOk()
    ForeignNums     \* numbers such packets may carry

ASSUME ReceiverAssumption ==
    /\ cbufSize \in Nat /\ cbufSize > 1
    /\ maxDifferens \in Nat
    /\ NoData \notin Payload /\ Foreign \notin Payload /\ NoData # Foreign
    /\ ForeignNums \subseteq Nat

VARIABLES
    cbuf,           \* the ring
    wnum,           \* number of the packet expected next
    rnum,           \* number of the packet to be applied next
    lostOut,        \* ptLostTimeout has expired
    lockUpdate,     \* packets are consumed without being applied
    mode,           \* the last value read from the mode sensor
    trOnMode,       \* state of the trigger on mEnabled
    rpc,            \* where the event loop is in updateEvent()
    forced,         \* wnum as a forceUpdate() of another thread has read it, or 0
    store           \* what the shared memory holds of the peer's sensors

ringVars == <<cbuf, wnum>>
modeVars == <<mode, trOnMode>>
recvVars == <<cbuf, wnum, rnum, lostOut, lockUpdate, mode, trOnMode, rpc, forced, store>>

Modes == {"mEnabled", "mDisabled"}
Slots == 0 .. cbufSize - 1
Packet == [num : Nat, data : Payload]

At(n) == n % cbufSize
Distance(a, b) == IF a < b THEN b - a ELSE a - b

RecvInit ==
    /\ cbuf = [i \in Slots |-> [num |-> 0, data |-> NoData]]
    /\ wnum = 1 /\ rnum = 0
    /\ lostOut = FALSE
    /\ lockUpdate \in BOOLEAN
    /\ mode = "mEnabled" /\ trOnMode = FALSE
    /\ rpc = "loop" /\ forced = 0
    /\ store = NoData
-----------------------------------------------------------------------------
(* receive() *)

\* cbuf when packet p has been parsed into the slot of wnum, copied to its own
\* place and its number erased where it was parsed; the second write is the
\* last one, even if the two are one slot.
Moved_KeepsNumber(p) == [cbuf EXCEPT ![At(wnum)] = p, ![At(p.num)] = p]
Moved(p) == [cbuf EXCEPT ![At(p.num)] = p, ![At(wnum)] = [p EXCEPT !.num = 0]]

\* The numbers are too far apart, or the ring is nearly full.
Disagree(p) ==
    \/ Distance(p.num, wnum) > maxDifferens
    \/ Distance(wnum, rnum) >= cbufSize - 2

Reinit_ReaderStays(p) ==
    /\ rnum' = rnum
    /\ wnum' = p.num + 1
    /\ cbuf' = Moved(p)
\* Start again from the number of the packet.
Reinit(p) ==
    /\ rnum' = p.num
    /\ wnum' = p.num + 1
    /\ cbuf' = Moved(p)

Misplaced(p) ==
    /\ cbuf' = Moved(p)
    /\ wnum' = IF p.num >= wnum THEN p.num + 1 ELSE wnum
    \* the number is erased before "if( rnum == 0 ) rnum = pack->num()"
    /\ rnum' = rnum

Expected(p) ==
    /\ cbuf' = [cbuf EXCEPT ![At(wnum)] = p]
    /\ wnum' = wnum + 1
    /\ rnum' = IF rnum = 0 THEN p.num ELSE rnum

Receive(p) ==
    /\ rpc = "loop"
    /\ \/ Disagree(p) /\ Reinit(p)
       \/ ~Disagree(p) /\ p.num # wnum /\ Misplaced(p)
       \/ ~Disagree(p) /\ p.num = wnum /\ Expected(p)
    /\ UNCHANGED <<lostOut, lockUpdate, modeVars, rpc, forced, store>>

ReceiveBad_Counted(n) ==
    /\ rpc = "loop"
    /\ cbuf' = [cbuf EXCEPT ![At(wnum)] = [num |-> n, data |-> Foreign]]
    /\ wnum' = wnum + 1
    /\ UNCHANGED <<rnum, lostOut, lockUpdate, modeVars, rpc, forced, store>>
\* The packet does not parse, or fails isOk(): what was parsed stays in the slot.
ReceiveBad(n) ==
    /\ rpc = "loop"
    /\ cbuf' = [cbuf EXCEPT ![At(wnum)] = [num |-> n, data |-> Foreign]]
    /\ UNCHANGED <<wnum, rnum, lostOut, lockUpdate, modeVars, rpc, forced, store>>
-----------------------------------------------------------------------------
(* updateEvent() and update() *)

Here == cbuf[At(rnum)]
NoPackets == wnum = 1 /\ rnum = 0

\* updateEvent() as far as the loop of update().
UpdateBegin ==
    /\ rpc = "loop"
    /\ rpc' = IF NoPackets THEN "mode" ELSE "update"
    /\ UNCHANGED <<ringVars, rnum, lostOut, lockUpdate, modeVars, forced, store>>

\* rnext(): the first place after n whose slot holds a larger number.
rnext(n) ==
    LET later == {i \in n + 1 .. wnum - 1 : cbuf[At(i)].num > n}
    IN  IF later = {} THEN wnum ELSE CHOOSE i \in later : \A j \in later : i <= j

\* The body of the loop for the packet that is due; the read number becomes n.
Consume(due, n) ==
    /\ Here.num = due
    /\ lostOut' = FALSE
    /\ rnum' = n
    /\ store' = IF lockUpdate \/ mode = "mDisabled" \/ Here.data = NoData
                THEN store ELSE Here.data

\* The body of the loop at a hole nobody filled in time.
SkipHole_OnlyNewer(due, n) ==
    /\ Here.num # due
    /\ lostOut
    /\ Here.num > due
    /\ rnum' = n
    /\ UNCHANGED <<lostOut, store>>
SkipHole(due, n) ==
    /\ Here.num # due
    /\ lostOut
    /\ rnum' = n
    /\ UNCHANGED <<lostOut, store>>

UpdateStep ==
    /\ rpc = "update" /\ rnum < wnum
    /\ Consume(rnum, rnum + 1) \/ SkipHole(rnum, rnext(rnum))
    /\ UNCHANGED <<ringVars, lockUpdate, modeVars, rpc, forced>>

\* update() returns: all is read, or there is a hole to wait for.
UpdateEnd ==
    /\ rpc = "update"
    /\ rnum >= wnum \/ (Here.num # rnum /\ ~lostOut)
    /\ rpc' = "mode"
    /\ UNCHANGED <<ringVars, rnum, lostOut, lockUpdate, modeVars, forced, store>>

\* The rest of updateEvent(): the mode sensor (m is its value), the trigger,
\* forceUpdate() when the mode becomes mEnabled.
ReadMode(m) ==
    /\ rpc = "mode"
    /\ mode' = m
    /\ trOnMode' = (m = "mEnabled")
    /\ rnum' = IF m = "mEnabled" /\ ~trOnMode THEN wnum - 1 ELSE rnum
    /\ rpc' = "loop"
    /\ UNCHANGED <<ringVars, lostOut, lockUpdate, forced, store>>
-----------------------------------------------------------------------------
(* Other threads and time *)

\* start() of a running receiver is forceUpdate() in another thread, and rnum
\* and wnum are plain integers: it reads wnum ...
ForceUpdateRead ==
    /\ forced = 0
    /\ forced' = wnum
    /\ UNCHANGED <<ringVars, rnum, lostOut, lockUpdate, modeVars, rpc, store>>

\* ... and writes rnum.
ForceUpdateWrite ==
    /\ forced # 0
    /\ rnum' = forced - 1
    /\ forced' = 0
    /\ UNCHANGED <<ringVars, lostOut, lockUpdate, modeVars, rpc, store>>

\* The write falls between the place and the number of the packet that update()
\* looks at: the slot of the old value is compared with the new one ...
ForceUpdateEarly ==
    /\ rpc = "update" /\ rnum < wnum
    /\ forced # 0
    /\ \/ Consume(forced - 1, forced) /\ rpc' = rpc
       \/ SkipHole(forced - 1, rnext(forced - 1)) /\ rpc' = rpc
       \/ /\ Here.num # forced - 1 /\ ~lostOut
          /\ rnum' = forced - 1
          /\ rpc' = "mode"
          /\ UNCHANGED <<lostOut, store>>
    /\ forced' = 0
    /\ UNCHANGED <<ringVars, lockUpdate, modeVars>>

\* ... or after the comparison: update() then advances the new value (if it
\* advances the old one, the write is lost).
ForceUpdateRaced ==
    /\ rpc = "update" /\ rnum < wnum
    /\ forced # 0
    /\ Consume(rnum, forced) \/ SkipHole(rnum, rnext(forced - 1))
    /\ forced' = 0
    /\ UNCHANGED <<ringVars, lockUpdate, modeVars, rpc>>

\* The write is overwritten by update().
ForceUpdateLost ==
    /\ rpc = "update"
    /\ forced # 0
    /\ forced' = 0
    /\ UNCHANGED <<ringVars, rnum, lostOut, lockUpdate, modeVars, rpc, store>>

SetLockUpdate(b) ==
    /\ lockUpdate' = b
    /\ UNCHANGED <<ringVars, rnum, lostOut, modeVars, rpc, forced, store>>

\* lostTimeout has passed since the last packet was applied.
LostTimeout ==
    /\ ~lostOut
    /\ lostOut' = TRUE
    /\ UNCHANGED <<ringVars, rnum, lockUpdate, modeVars, rpc, forced, store>>
-----------------------------------------------------------------------------
\* The steps of the event loop other than those for a packet.
UpdateEvent ==
    \/ UpdateBegin \/ UpdateStep \/ UpdateEnd
    \/ \E m \in Modes : ReadMode(m)

RecvTypeOK ==
    /\ cbuf \in [Slots -> [num : Nat, data : Payload \cup {NoData, Foreign}]]
    /\ wnum \in Nat \ {0} /\ rnum \in Nat
    /\ lostOut \in BOOLEAN /\ lockUpdate \in BOOLEAN
    /\ mode \in Modes /\ trOnMode \in BOOLEAN
    /\ rpc \in {"loop", "update", "mode"} /\ forced \in Nat
    /\ store \in Payload \cup {NoData, Foreign}

\* receive() and update() agree on the place of a packet: every slot but the one
\* the next packet is parsed into is empty, or holds a whole packet of the peer
\* whose number belongs there.
SlotsMatch ==
    \A i \in Slots \ {At(wnum)} :
        cbuf[i].num # 0 => cbuf[i].data # Foreign /\ At(cbuf[i].num) = i
=============================================================================
