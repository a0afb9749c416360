----------------------------- MODULE UNetSender -----------------------------
(***************************************************************************)
(* The sender of one UNet channel.  Its thread sends every pack again and  *)
(* again; a pack gets a new number only when the checksum of its data      *)
(* differs from the checksum of the pack sent before it (optimisation N1). *)
(* updateSensor() changes the data of a pack from the thread of the        *)
(* exchange.  Both hold the lock of the pack, so each is one step.  While  *)
(* the mode is mDisabled the thread only sleeps: it takes no step.         *)
(*                                                                         *)
(* The order in which send() walks through the packs and the send factors  *)
(* are abstracted to any order.  Numbers do not come round: packetnum is a *)
(* 64-bit counter.                                                         *)
(***************************************************************************)
EXTENDS Integers, Sequences

CONSTANTS
    Packs,          \* the packs of the channel
    Values,         \* data of a pack
    Crc(_, _),      \* checksum of a pack with given data
    ZeroCrc,        \* the checksum 0
    MaxNum          \* bounds: the largest packet number in each run of the process

ASSUME SenderAssumption ==
    MaxNum \in Seq(Nat) /\ MaxNum # <<>>

VARIABLES
    pdata,          \* data of each pack, as the shared memory has it
    pnum,           \* number in the message of each pack
    packetnum,      \* number of the next packet
    lastcrc,        \* checksum of the packet sent last
    run             \* history: how often the process was started

sendVars == <<pdata, pnum, packetnum, lastcrc, run>>

SendInit ==
    /\ pdata \in [Packs -> Values]
    /\ pnum = [k \in Packs |-> 0]
    /\ packetnum = 1
    /\ lastcrc = ZeroCrc
    /\ run = 1

Changed(k) == Crc(k, pdata[k]) # lastcrc

\* Number that real_send() puts into the message of pack k.
Number(k) == IF Changed(k) THEN packetnum ELSE pnum[k]

Message(k) == [num |-> Number(k), data |-> <<k, pdata[k]>>]

\* real_send(): the number is chosen whether or not the transport is ready.
RealSend(k) ==
    /\ Changed(k) => packetnum <= MaxNum[run]
    /\ pnum' = [pnum EXCEPT ![k] = Number(k)]
    /\ packetnum' = IF Changed(k) THEN packetnum + 1 ELSE packetnum
    /\ lastcrc' = Crc(k, pdata[k])
    /\ UNCHANGED <<pdata, run>>

\* updateSensor() or updateFromSM(): a sensor of pack k has changed.
UpdateItem(k, v) ==
    /\ v # pdata[k]
    /\ packetnum <= MaxNum[run]
    /\ pdata' = [pdata EXCEPT ![k] = v]
    /\ UNCHANGED <<pnum, packetnum, lastcrc, run>>

Restart_FromZero ==
    /\ run < Len(MaxNum)
    /\ run' = run + 1
    /\ pdata' \in [Packs -> Values]
    /\ pnum' = [k \in Packs |-> 0]
    /\ packetnum' = 0
    /\ lastcrc' = ZeroCrc
\* The node is restarted: the counters of the new process start again.
Restart ==
    /\ run < Len(MaxNum)
    /\ run' = run + 1
    /\ pdata' \in [Packs -> Values]
    /\ pnum' = [k \in Packs |-> 0]
    /\ packetnum' = 1
    /\ lastcrc' = ZeroCrc

SendTypeOK ==
    /\ pdata \in [Packs -> Values]
    /\ pnum \in [Packs -> Nat]
    /\ packetnum \in Nat \ {0}
    /\ lastcrc \in {Crc(k, v) : k \in Packs, v \in Values} \cup {ZeroCrc}
    /\ run \in 1 .. Len(MaxNum)
=============================================================================
