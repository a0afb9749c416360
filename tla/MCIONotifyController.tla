----------------------- MODULE MCIONotifyController -----------------------
(***************************************************************************)
(* Instances of IONotifyController for TLC.  Permit enables Analog, a      *)
(* threshold of Analog is written into Alarm.                              *)
(***************************************************************************)
EXTENDS IONotifyController, TLC

CONSTANTS Permit, Analog, Alarm, High

MCDepend == [s \in Sensors |-> IF s = Analog /\ Permit \in Sensors
                               THEN Permit ELSE NoSensor]
MCDValue == [s \in Sensors |-> 1]
MCDOffValue == [s \in Sensors |-> 0]
\* Alarm is written only by its threshold.
MCInputs == {Analog} \X Values \cup ({Permit} \cap Sensors) \X {0, 1}
MCThr == [h \in Thresholds |-> [ai |-> Analog, sid |-> Alarm, lowlimit |-> 0,
                                hilimit |-> 1, invert |-> FALSE]]
\* Consumers order Analog, clients Alarm.
MCOrders == {Analog} \X Consumers \cup ({Alarm} \cap Sensors) \X Clients

Sym == Permutations(Writers) \cup Permutations(Askers)
=============================================================================
