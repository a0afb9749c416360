----------------------------- MODULE UNetStream -----------------------------
(***************************************************************************)
(* What a UNet channel promises over an unreliable network: a reader that  *)
(* moves over the packets that were sent.  It knows nothing of the ring,   *)
(* of timers or of the order of arrival.                                   *)
(*                                                                         *)
(* The reader is at number rpos, and wpos is one more than the number it   *)
(* may read up to.  A value is shown only when the packet with the number  *)
(* rpos, one that was sent, is read; the reader then goes on to the next   *)
(* number.  It may pass over numbers, but goes back only to the newest     *)
(* packet or when it starts again at a packet that was sent.               *)
(***************************************************************************)
EXTENDS Integers

CONSTANTS Payload, NoData

VARIABLES
    sent,           \* packets that were sent
    wpos, rpos,
    shown           \* what the store shows

Init ==
    /\ sent = {}
    /\ wpos = 1 /\ rpos = 0
    /\ shown = NoData

Send ==
    /\ sent \subseteq sent'
    /\ sent' \subseteq [num : Nat, data : Payload]
    /\ UNCHANGED <<wpos, rpos, shown>>

\* A packet that was sent extends what may be read.
Take(p) ==
    /\ wpos' = IF p.num >= wpos THEN p.num + 1 ELSE wpos
    /\ rpos' = rpos \/ (rpos = 0 /\ rpos' = p.num)
    /\ UNCHANGED <<sent, shown>>

\* After a failure of the numbers the reader goes to p at once: what it had not
\* read yet is lost, as receive() does it (UNetReceiver.h says otherwise, see
\* DueKept of UNetLink).
StartAgain(p) ==
    /\ wpos' = p.num + 1
    /\ rpos' = p.num
    /\ UNCHANGED <<sent, shown>>

Show(p) ==
    /\ rpos < wpos
    /\ p.num = rpos
    /\ shown' = p.data
    /\ rpos' = rpos + 1
    /\ UNCHANGED <<sent, wpos>>

PassOver ==
    /\ rpos' \in rpos + 1 .. wpos
    /\ UNCHANGED <<sent, wpos, shown>>

ReadNewestAgain ==
    /\ rpos' = wpos - 1
    /\ UNCHANGED <<sent, wpos, shown>>

Next ==
    \/ Send
    \/ \E p \in sent : Take(p) \/ StartAgain(p) \/ Show(p)
    \/ PassOver
    \/ ReadNewestAgain

Spec == Init /\ [][Next]_<<sent, wpos, rpos, shown>>
=============================================================================
