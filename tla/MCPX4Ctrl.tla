----------------------------- MODULE MCPX4Ctrl -----------------------------
(* Small instances of PX4Ctrl: which RC messages the transmitter sends.    *)
EXTENDS PX4Ctrl

RCMsg(m, g, r, c) == [mode |-> m, gear |-> g, reboot_cmd |-> r, ch |-> c]

(* The three switch positions of a flight; in one of them a stick is held  *)
(* over and the reboot switch is up.                                       *)
FlightRC == {RCMsg("below", "below", "below", "centered"),
             RCMsg("above", "below", "above", "roll"),
             RCMsg("above", "above", "below", "centered")}

(* Channel 5 and 6 moved together.                                         *)
OnOffRC == {RCMsg("below", "below", "below", "centered"),
            RCMsg("above", "above", "below", "centered")}

TwoModes   == {"OFFBOARD", "MANUAL"}
=============================================================================
