--------------------------- MODULE MCApPowerSave ---------------------------
(* What the run of ApPowerSave is given to do: legacy power save; U-APSD   *)
(* for some of the station's categories, with little room in the HAL and a *)
(* frame that is forwarded; U-APSD for all; multicast.                     *)
EXTENDS ApPowerSave

Budget(frame, mcast, turn, trigger, forward, uapsd, room) ==
    [frame |-> frame, mcast |-> mcast, turn |-> turn, trigger |-> trigger,
     forward |-> forward, uapsd |-> uapsd, room |-> room]

MCScenarios == {Budget(3, 0, 3, 0, 0, "none", 4), Budget(2, 0, 2, 1, 1, "some", 2),
                Budget(3, 0, 2, 1, 0, "all", 4), Budget(0, 2, 3, 0, 0, "none", 4)}
=============================================================================
