------------------------------- MODULE PX4Ctrl -------------------------------
(***************************************************************************)
(* The px4ctrl node: the flight-mode state machine PX4CtrlFSM, the data it *)
(* reads (RC switches, odometry, position commands, FCU state, take-off    *)
(* and land requests) and the callbacks that feed that data.               *)
(*                                                                         *)
(* The node is one thread.  Its main loop runs the pending callbacks       *)
(* (spinOnce) and then process(); so between two calls of process() any    *)
(* number of feed actions may happen.  A call of process() is one step,    *)
(* except where it spins itself: while it waits for the sticks             *)
(* (pc = "sticks") and while it waits for the FCU's mode change            *)
(* (pc = "modewait").  There the callbacks run in the middle of the call.  *)
(*                                                                         *)
(* Durations are not counted: an age that passes its limit is a step of    *)
(* its own (OdomTimeout, SpeedupElapses, ...), which may come at any time. *)
(***************************************************************************)
EXTENDS Naturals

CONSTANTS
  RCInputs,       \* the RC messages the pilot's transmitter can produce
  FcuModes,       \* the flight modes of the FCU
  NoRC,           \* auto_takeoff_land/no_RC
  Enable,         \* auto_takeoff_land/enable
  EnableAutoArm,  \* auto_takeoff_land/enable_auto_arm
  PilotActs,      \* does the pilot change the FCU's mode, or arm, on his own
  C12InAir        \* can the landing constraints 1 and 2 hold in the air

(* A switch channel against its threshold; "at" is the threshold itself.   *)
Level == {"below", "at", "above"}

(* What check_centered() can tell of the four stick channels: "roll" is    *)
(* ch[0] off centre, "other" is ch[0] centred and another one off centre.  *)
Sticks == {"centered", "roll", "other"}

RCMessage == [mode : Level, gear : Level, reboot_cmd : Level, ch : Sticks]

ASSUME RCInputsAssumption == RCInputs # {} /\ RCInputs \subseteq RCMessage
ASSUME FcuModesAssumption == {"OFFBOARD", "MANUAL"} \subseteq FcuModes /\ "" \notin FcuModes
ASSUME FlagsAssumption ==
  /\ NoRC \in BOOLEAN /\ Enable \in BOOLEAN /\ EnableAutoArm \in BOOLEAN
  /\ PilotActs \in BOOLEAN /\ C12InAir \in BOOLEAN

(* What config_from_ros_handle leaves of the three take-off parameters.    *)
ConsistentParams ==
  /\ EnableAutoArm => Enable
  /\ NoRC => Enable /\ EnableAutoArm

ASSUME ParamAssumption == ConsistentParams

VARIABLES
  state,      \* PX4CtrlFSM::state
  pc,         \* where the thread is: "loop", or inside process()
  rc,         \* RC_Data_t, with the last message in rc.msg
  odom,       \* Odom_Data_t: is it fresh, and is it at the take-off height
  cmdFresh,   \* cmd_is_received()
  td,         \* Takeoff_Land_Data_t: the request not yet seen, or "none"
  st,         \* state_data.current_state, the last State message
  ext,        \* the last ExtendedState message said ON_GROUND
  offb,       \* state_before_offboard.mode, and the last mode asked for
  landed,     \* takeoff_land.landed
  c12,        \* the land detector's window over constraints 1 and 2
  delay,      \* takeoff_land.delay_trigger: off, set, or past its time
  speedup,    \* MOTORS_SPEEDUP_TIME has not passed since the take-off
  retry,      \* a second has passed since the last disarm request
  sent,       \* what the last step sent: service calls, topics, idle thrust
  fcu,        \* the FCU itself: its flight mode and whether it is armed
  onGround,   \* the vehicle stands on the ground
  cmdSince,   \* history: a command arrived since px4ctrl engaged
  winSince    \* history: the window c12 began since px4ctrl engaged

inVars   == <<rc, odom, cmdFresh, td, st, ext>>
tlVars   == <<landed, c12, delay, speedup, retry>>
envVars  == <<fcu, onGround>>
histVars == <<cmdSince, winSince>>
vars == <<state, pc, inVars, offb, tlVars, sent, envVars, histVars>>

State_t == {"MANUAL_CTRL", "AUTO_HOVER", "CMD_CTRL", "AUTO_TAKEOFF", "AUTO_LAND"}

RC_Data_t ==
  [msg : RCMessage, fresh : BOOLEAN,
   is_hover_mode : BOOLEAN, enter_hover_mode : BOOLEAN,
   is_command_mode : BOOLEAN, enter_command_mode : BOOLEAN,
   toggle_reboot : BOOLEAN]

Outputs == {"offboard_on", "offboard_off", "arm", "disarm", "reboot", "trigger", "idle"}

Odom_Data_t == [fresh : BOOLEAN, high : BOOLEAN]

FcuState == [mode : FcuModes, armed : BOOLEAN]

InTypeOK ==
  /\ rc \in RC_Data_t
  /\ odom \in Odom_Data_t
  /\ cmdFresh \in BOOLEAN
  /\ td \in {"none", "TAKEOFF", "LAND"}
  /\ st \in FcuState
  /\ ext \in BOOLEAN

TlTypeOK ==
  /\ landed \in BOOLEAN
  /\ c12 \in {"no", "running", "held"}
  /\ delay \in {"off", "set", "due"}
  /\ speedup \in BOOLEAN
  /\ retry \in BOOLEAN

HistTypeOK == cmdSince \in BOOLEAN /\ winSince \in BOOLEAN

TypeOK ==
  /\ state \in State_t
  /\ pc \in {"loop", "sticks", "modewait"}
  /\ InTypeOK
  /\ offb \in [asked : BOOLEAN, before : FcuModes \cup {""}]
  /\ TlTypeOK
  /\ sent \subseteq Outputs
  /\ fcu \in FcuState
  /\ onGround \in BOOLEAN
  /\ HistTypeOK

-----------------------------------------------------------------------------
(* Callbacks.  Each runs in a spinOnce: before process(), or inside it.    *)

(* RC_Data_t::feed for message m, when the message before it was last.     *)
(* is_command_mode follows the gear switch only while the mode switch is   *)
(* in the hover position; an edge not yet seen by process() is overwritten.*)
RCFeed(d, last, m) ==
  LET hover   == m.mode = "above"
      command == IF hover THEN m.gear = "above" ELSE d.is_command_mode
  IN [msg   |-> m,
      fresh |-> TRUE,
      is_hover_mode    |-> hover,
      enter_hover_mode |-> last.mode = "below" /\ m.mode = "above",
      is_command_mode  |-> command,
      enter_command_mode |->
        \/ hover /\ last.gear = "below" /\ m.gear = "above"
        \/ d.enter_command_mode /\ ~(hover /\ m.gear = "below"),
      toggle_reboot |->
        /\ ~hover /\ ~command
        /\ last.reboot_cmd = "below" /\ m.reboot_cmd = "above"]

(* RC_Data_t's defaults, what an RC-free px4ctrl flies with.               *)
RCDefault ==
  [msg   |-> [mode |-> "below", gear |-> "below", reboot_cmd |-> "below", ch |-> "centered"],
   fresh |-> FALSE,
   is_hover_mode |-> TRUE, enter_hover_mode |-> FALSE,
   is_command_mode |-> TRUE, enter_command_mode |-> FALSE,
   toggle_reboot |-> FALSE]

(* RC_Data_t::check_centered, which looks at ch[0] four times.             *)
CheckCentered == rc.msg.ch # "roll"

SwitchesReady == rc.is_hover_mode /\ rc.is_command_mode /\ CheckCentered

FeedRC ==
  /\ ~NoRC
  /\ \E m \in RCInputs : rc' = RCFeed(rc, rc.msg, m)
  /\ sent' = {}
  /\ UNCHANGED <<state, pc, odom, cmdFresh, td, st, ext, offb, tlVars, envVars, histVars>>

(* The height matters only against the start pose of a running take-off.   *)
FeedOdom ==
  /\ \E high \in BOOLEAN :
       /\ high => state = "AUTO_TAKEOFF" /\ ~onGround
       /\ odom' = [fresh |-> TRUE, high |-> high]
  /\ sent' = {}
  /\ UNCHANGED <<state, pc, rc, cmdFresh, td, st, ext, offb, tlVars, envVars, histVars>>

FeedCmd ==
  /\ cmdFresh' = TRUE
  /\ cmdSince' = TRUE
  /\ sent' = {}
  /\ UNCHANGED <<state, pc, rc, odom, td, st, ext, offb, tlVars, envVars, winSince>>

FeedTakeoffLand ==
  /\ td' \in {"TAKEOFF", "LAND"}
  /\ sent' = {}
  /\ UNCHANGED <<state, pc, rc, odom, cmdFresh, st, ext, offb, tlVars, envVars, histVars>>

FeedState ==
  /\ st' = fcu
  /\ sent' = {}
  /\ UNCHANGED <<state, pc, rc, odom, cmdFresh, td, ext, offb, tlVars, envVars, histVars>>

FeedExtendedState ==
  /\ ext' = onGround
  /\ sent' = {}
  /\ UNCHANGED <<state, pc, rc, odom, cmdFresh, td, st, offb, tlVars, envVars, histVars>>

-----------------------------------------------------------------------------
(* Time: an age passes its limit (rc_is_received, cmd_is_received,         *)
(* odom_is_received) or a timer of process() runs out.                     *)

(* A message's edges live until the next call of process(), which comes    *)
(* long before the message is too old, unless process() itself waits.      *)
RCTimeout ==
  /\ rc.fresh
  /\ rc.enter_hover_mode \/ rc.enter_command_mode \/ rc.toggle_reboot => pc = "sticks"
  /\ rc' = [rc EXCEPT !.fresh = FALSE]
  /\ sent' = {}
  /\ UNCHANGED <<state, pc, odom, cmdFresh, td, st, ext, offb, tlVars, envVars, histVars>>

OdomTimeout ==
  /\ odom.fresh
  /\ odom' = [odom EXCEPT !.fresh = FALSE]
  /\ sent' = {}
  /\ UNCHANGED <<state, pc, rc, cmdFresh, td, st, ext, offb, tlVars, envVars, histVars>>

CmdTimeout ==
  /\ cmdFresh
  /\ cmdFresh' = FALSE
  /\ sent' = {}
  /\ UNCHANGED <<state, pc, rc, odom, td, st, ext, offb, tlVars, envVars, histVars>>

SpeedupElapses ==
  /\ speedup /\ pc = "loop"
  /\ speedup' = FALSE
  /\ sent' = {}
  /\ UNCHANGED <<state, pc, inVars, offb, landed, c12, delay, retry, envVars, histVars>>

DelayElapses ==
  /\ delay = "set"
  /\ delay' = "due"
  /\ sent' = {}
  /\ UNCHANGED <<state, pc, inVars, offb, landed, c12, speedup, retry, envVars, histVars>>

C12Elapses ==
  /\ c12 = "running"
  /\ c12' = "held"
  /\ sent' = {}
  /\ UNCHANGED <<state, pc, inVars, offb, landed, delay, speedup, retry, envVars, histVars>>

RetryElapses ==
  /\ ~retry
  /\ retry' = TRUE
  /\ sent' = {}
  /\ UNCHANGED <<state, pc, inVars, offb, landed, c12, delay, speedup, envVars, histVars>>

-----------------------------------------------------------------------------
(* The FCU (external): what px4ctrl calls, what the pilot does to it and   *)
(* what the vehicle does.                                                  *)

(* The pilot changes the flight mode or arms from the transmitter; the FCU *)
(* disarms on the ground on its own or when told.                          *)
PilotMode ==
  /\ PilotActs
  /\ \E m \in FcuModes \ {"OFFBOARD"} : fcu' = [fcu EXCEPT !.mode = m]
  /\ sent' = {}
  /\ UNCHANGED <<state, pc, inVars, offb, tlVars, onGround, histVars>>

PilotArm ==
  /\ PilotActs
  /\ \E a \in BOOLEAN :
       /\ ~a => onGround
       /\ fcu' = [fcu EXCEPT !.armed = a]
  /\ sent' = {}
  /\ UNCHANGED <<state, pc, inVars, offb, tlVars, onGround, histVars>>

(* An armed vehicle leaves the ground, unless px4ctrl is landing it.       *)
LiftOff ==
  /\ onGround /\ fcu.armed
  /\ ~(state = "AUTO_LAND" /\ fcu.mode = "OFFBOARD")
  /\ onGround' = FALSE
  /\ sent' = {}
  /\ UNCHANGED <<state, pc, inVars, offb, tlVars, fcu, histVars>>

TouchDown ==
  /\ ~onGround
  /\ onGround' = TRUE
  /\ sent' = {}
  /\ UNCHANGED <<state, pc, inVars, offb, tlVars, fcu, histVars>>

-----------------------------------------------------------------------------
(* Parts of process().                                                     *)

(* The modes the FCU may be in after a set_mode call for m: the call can   *)
(* fail, or be sent and refused.  No caller looks at the result.           *)
AfterSetMode(m) == {m, fcu.mode}

(* toggle_offboard_mode(true): remember the mode to give back, ask once.   *)
BeforeOffboard == IF st.mode = "OFFBOARD" THEN "MANUAL" ELSE st.mode

OffboardOn ==
  /\ offb' = [asked |-> TRUE, before |-> BeforeOffboard]
  /\ \E m \in AfterSetMode("OFFBOARD") : fcu' = [fcu EXCEPT !.mode = m]

(* toggle_offboard_mode(false) on an FCU whose arming is already armed.    *)
(* An empty custom_mode is no mode the FCU could take.                     *)
OffboardOff(armed) ==
  /\ offb' = [offb EXCEPT !.asked = FALSE]
  /\ \E m \in IF offb.before = "" THEN {fcu.mode} ELSE AfterSetMode(offb.before) :
       fcu' = [mode |-> m, armed |-> armed]

KeepFcu == UNCHANGED <<offb, fcu>>

(* The reboot request at the end of the MANUAL_CTRL case.                  *)
Reboot == IF rc.toggle_reboot /\ ~st.armed THEN {"reboot"} ELSE {}

(* Can des be 0.5 m below the vehicle while it does not move?  Never for   *)
(* the default des, which is the odometry itself, 0.1 s old in TakeoffArms:*)
(* no vehicle slower than 0.1 m/s climbs 0.5 m in that time.               *)
C12Free == IF C12InAir \/ onGround THEN BOOLEAN ELSE {FALSE}

(* Mutant: leaving MANUAL_CTRL does not reset the detector.                *)
LandDetectorNoReset(last, s, sat) ==
  IF s = "MANUAL_CTRL" /\ ~st.armed
  THEN landed' = TRUE /\ UNCHANGED <<c12, winSince>>
  ELSE /\ landed' = (landed \/ (sat /\ c12 = "held"))
       /\ c12' = IF landed \/ ~sat THEN "no"
                 ELSE IF c12 = "no" THEN "running" ELSE c12
       /\ winSince' = IF c12 = "no" /\ c12' = "running" THEN TRUE
                      ELSE last # "MANUAL_CTRL" /\ winSince

(* STEP5, land_detector(state, des, odom) with last_state = last, the new  *)
(* state s and constraints 1 and 2 at sat.  The first return leaves the    *)
(* window as it was.                                                       *)
LandDetector(last, s, sat) ==
  LET engaged == last = "MANUAL_CTRL" /\ s \in {"AUTO_HOVER", "AUTO_TAKEOFF"}
      flying  == ~landed \/ engaged
  IN IF s = "MANUAL_CTRL" /\ ~st.armed
     THEN landed' = TRUE /\ UNCHANGED <<c12, winSince>>
     ELSE /\ landed' = (~flying \/ (sat /\ c12 = "held"))
          /\ c12' = IF ~flying \/ ~sat THEN "no"
                    ELSE IF c12 = "no" THEN "running" ELSE c12
          /\ winSince' = IF c12 = "no" /\ c12' = "running" THEN TRUE
                         ELSE ~engaged /\ winSince

(* STEP5 and STEP6: every call of process() ends so, whatever the case.    *)
EndCall(last, s, sat) ==
  /\ LandDetector(last, s, sat)
  /\ rc' = [rc EXCEPT !.enter_hover_mode = FALSE, !.enter_command_mode = FALSE,
                      !.toggle_reboot = FALSE]
  /\ td' = "none"
  /\ pc' = "loop"
  /\ state' = s
  /\ UNCHANGED <<cmdFresh, st, ext, onGround>>

KeepTimers == UNCHANGED <<delay, speedup, retry>>

In(s) == pc = "loop" /\ state = s

-----------------------------------------------------------------------------
(* process() in MANUAL_CTRL.                                               *)

(* The odometry's speed, asked for only when the odometry is fresh.        *)
Speed == {"still", "slow", "fast"}

(* Mutant: the check for commands is dropped.                              *)
MayHoverWithCommands(v) == odom.fresh /\ v # "fast"

MayHover(v)   == odom.fresh /\ ~cmdFresh /\ v # "fast"
MayTakeoff(v) == odom.fresh /\ ~cmdFresh /\ v = "still" /\ landed

TakeoffAsked == ~rc.enter_hover_mode /\ Enable /\ td = "TAKEOFF"

ManualToHover ==
  /\ In("MANUAL_CTRL") /\ rc.enter_hover_mode
  /\ \E v \in Speed : MayHover(v)
  /\ OffboardOn
  /\ sent' = {"offboard_on"} \cup Reboot
  /\ cmdSince' = FALSE
  /\ EndCall(state, "AUTO_HOVER", FALSE)
  /\ KeepTimers /\ UNCHANGED odom

(* A rejection leaves the switch statement, past the reboot request.       *)
ManualRejects ==
  /\ In("MANUAL_CTRL")
  /\ \E v \in Speed :
       \/ rc.enter_hover_mode /\ ~MayHover(v)
       \/ TakeoffAsked /\ ~MayTakeoff(v)
  /\ sent' = {}
  /\ EndCall(state, state, FALSE)
  /\ KeepFcu /\ KeepTimers /\ UNCHANGED <<odom, cmdSince>>

(* The transmitter is connected and not ready: spin until it is.           *)
TakeoffBlocks ==
  /\ In("MANUAL_CTRL") /\ TakeoffAsked
  /\ \E v \in Speed : MayTakeoff(v)
  /\ rc.fresh /\ ~SwitchesReady
  /\ pc' = "sticks"
  /\ sent' = {}
  /\ UNCHANGED <<state, inVars, offb, tlVars, envVars, histVars>>

SticksReady ==
  /\ pc = "sticks" /\ SwitchesReady
  /\ sent' = {}
  /\ EndCall(state, state, FALSE)
  /\ KeepFcu /\ KeepTimers /\ UNCHANGED <<odom, cmdSince>>

(* The take-off begins; the call goes on in TakeoffArms.                   *)
ManualToTakeoff ==
  /\ In("MANUAL_CTRL") /\ TakeoffAsked
  /\ \E v \in Speed : MayTakeoff(v)
  /\ rc.fresh => SwitchesReady
  /\ state' = "AUTO_TAKEOFF"
  /\ pc' = "modewait"
  /\ odom' = [odom EXCEPT !.high = FALSE]  \* start_pose is here
  /\ OffboardOn
  /\ sent' = {"offboard_on"}
  /\ cmdSince' = FALSE
  /\ UNCHANGED <<rc, cmdFresh, td, st, ext, tlVars, onGround, winSince>>

TakeoffArms ==
  /\ pc = "modewait"
  /\ \E a \in IF EnableAutoArm THEN {fcu.armed, TRUE} ELSE {fcu.armed} :
       fcu' = [fcu EXCEPT !.armed = a]
  /\ sent' = (IF EnableAutoArm THEN {"arm"} ELSE {}) \cup Reboot
  /\ speedup' = TRUE
  /\ EndCall("MANUAL_CTRL", state, FALSE)
  /\ UNCHANGED <<odom, offb, delay, retry, cmdSince>>

ManualStays ==
  /\ In("MANUAL_CTRL") /\ ~rc.enter_hover_mode /\ ~TakeoffAsked
  /\ sent' = Reboot
  /\ EndCall(state, state, FALSE)
  /\ KeepFcu /\ KeepTimers /\ UNCHANGED <<odom, cmdSince>>

-----------------------------------------------------------------------------
(* process() in AUTO_HOVER, CMD_CTRL and AUTO_LAND: the way back to manual *)
(* is the same in all three, and comes first.                              *)

(* Mutants: the age of the odometry, or the switch, is not looked at.      *)
PermittedNoOdom   == rc.is_hover_mode
PermittedNoSwitch == odom.fresh

Permitted == rc.is_hover_mode /\ odom.fresh

BackToManual ==
  /\ pc = "loop" /\ state \in {"AUTO_HOVER", "CMD_CTRL", "AUTO_LAND"}
  /\ ~Permitted
  /\ OffboardOff(fcu.armed)
  /\ sent' = {"offboard_off"}
  /\ EndCall(state, "MANUAL_CTRL", FALSE)
  /\ KeepTimers /\ UNCHANGED <<odom, cmdSince>>

(* Mutant: the age of the command is not looked at.                        *)
CommandAskedAnyAge == rc.is_command_mode

CommandAsked == rc.is_command_mode /\ cmdFresh

HoverToCmd ==
  /\ In("AUTO_HOVER") /\ Permitted /\ CommandAsked
  /\ st.mode = "OFFBOARD"
  /\ sent' = {}
  /\ \E sat \in C12Free : EndCall(state, "CMD_CTRL", sat)
  /\ KeepFcu /\ KeepTimers /\ UNCHANGED <<odom, cmdSince>>

(* Commands come in but the FCU has not said OFFBOARD: des is the odometry.*)
HoverWaitsForOffboard ==
  /\ In("AUTO_HOVER") /\ Permitted /\ CommandAsked
  /\ st.mode # "OFFBOARD"
  /\ sent' = {}
  /\ EndCall(state, state, FALSE)
  /\ KeepFcu /\ KeepTimers /\ UNCHANGED <<odom, cmdSince>>

HoverToLand ==
  /\ In("AUTO_HOVER") /\ Permitted /\ ~CommandAsked
  /\ td = "LAND"
  /\ sent' = {}
  /\ EndCall(state, "AUTO_LAND", FALSE)
  /\ KeepFcu /\ KeepTimers /\ UNCHANGED <<odom, cmdSince>>

HoverStays ==
  LET trigger == rc.enter_command_mode \/ delay = "due"
  IN /\ In("AUTO_HOVER") /\ Permitted /\ ~CommandAsked
     /\ td # "LAND"
     /\ delay' = IF trigger THEN "off" ELSE delay
     /\ sent' = IF trigger THEN {"trigger"} ELSE {}
     /\ \E sat \in C12Free : EndCall(state, state, sat)
     /\ KeepFcu /\ UNCHANGED <<odom, cmdSince, speedup, retry>>

(* A land request in CMD_CTRL is refused with an error and is lost.        *)
CmdToHover ==
  /\ In("CMD_CTRL") /\ Permitted /\ ~CommandAsked
  /\ sent' = {}
  /\ EndCall(state, "AUTO_HOVER", FALSE)
  /\ KeepFcu /\ KeepTimers /\ UNCHANGED <<odom, cmdSince>>

CmdStays ==
  /\ In("CMD_CTRL") /\ Permitted /\ CommandAsked
  /\ sent' = {}
  /\ \E sat \in C12Free : EndCall(state, state, sat)
  /\ KeepFcu /\ KeepTimers /\ UNCHANGED <<odom, cmdSince>>

-----------------------------------------------------------------------------
(* process() in AUTO_TAKEOFF, which looks at neither the transmitter nor   *)
(* the age of the odometry.                                                *)

TakeoffSpeedsUp ==
  /\ In("AUTO_TAKEOFF") /\ speedup
  /\ sent' = {}
  /\ \E sat \in C12Free : EndCall(state, state, sat)
  /\ KeepFcu /\ KeepTimers /\ UNCHANGED <<odom, cmdSince>>

TakeoffClimbs ==
  /\ In("AUTO_TAKEOFF") /\ ~speedup /\ ~odom.high
  /\ sent' = {}
  /\ \E sat \in C12Free : EndCall(state, state, sat)
  /\ KeepFcu /\ KeepTimers /\ UNCHANGED <<odom, cmdSince>>

TakeoffToHover ==
  /\ In("AUTO_TAKEOFF") /\ ~speedup /\ odom.high
  /\ delay' = "set"
  /\ sent' = {}
  /\ EndCall(state, "AUTO_HOVER", FALSE)
  /\ KeepFcu
  /\ UNCHANGED <<odom, cmdSince, speedup, retry>>

(* process() in AUTO_LAND.                                                 *)

LandToHover ==
  /\ In("AUTO_LAND") /\ Permitted /\ ~rc.is_command_mode
  /\ sent' = {}
  /\ EndCall(state, "AUTO_HOVER", FALSE)
  /\ KeepFcu /\ KeepTimers /\ UNCHANGED <<odom, cmdSince>>

LandDescends ==
  /\ In("AUTO_LAND") /\ Permitted /\ rc.is_command_mode /\ ~landed
  /\ sent' = {}
  /\ \E sat \in C12Free : EndCall(state, state, sat)
  /\ KeepFcu /\ KeepTimers /\ UNCHANGED <<odom, cmdSince>>

(* The motors idle; no disarm request yet, or one less than a second ago.  *)
LandIdles ==
  /\ In("AUTO_LAND") /\ Permitted /\ rc.is_command_mode /\ landed
  /\ ~(ext /\ retry)
  /\ sent' = {"idle"}
  /\ EndCall(state, state, FALSE)
  /\ KeepFcu /\ KeepTimers /\ UNCHANGED <<odom, cmdSince>>

LandDisarms ==
  /\ In("AUTO_LAND") /\ Permitted /\ rc.is_command_mode /\ landed
  /\ ext /\ retry
  /\ retry' = FALSE
  /\ \/ /\ onGround   \* the FCU disarms
        /\ OffboardOff(FALSE)
        /\ sent' = {"idle", "disarm", "offboard_off"}
        /\ EndCall(state, "MANUAL_CTRL", FALSE)
     \/ /\ KeepFcu    \* it refuses, or the call is lost
        /\ sent' = {"idle", "disarm"}
        /\ EndCall(state, state, FALSE)
  /\ UNCHANGED <<odom, cmdSince, delay, speedup>>

-----------------------------------------------------------------------------
Callback == FeedRC \/ FeedOdom \/ FeedCmd \/ FeedTakeoffLand \/ FeedState \/ FeedExtendedState
Time     == RCTimeout \/ OdomTimeout \/ CmdTimeout \/ SpeedupElapses \/ DelayElapses
              \/ C12Elapses \/ RetryElapses
Outside  == PilotMode \/ PilotArm \/ LiftOff \/ TouchDown

(* PX4CtrlFSM::process: in the main loop exactly one case applies, up to   *)
(* the odometry's speed.                                                   *)
Process ==
  \/ ManualToHover \/ ManualRejects \/ TakeoffBlocks \/ SticksReady
  \/ ManualToTakeoff \/ TakeoffArms \/ ManualStays
  \/ BackToManual
  \/ HoverToCmd \/ HoverWaitsForOffboard \/ HoverToLand \/ HoverStays
  \/ CmdToHover \/ CmdStays
  \/ TakeoffSpeedsUp \/ TakeoffClimbs \/ TakeoffToHover
  \/ LandToHover \/ LandDescends \/ LandIdles \/ LandDisarms

(* The main loop is entered once an RC message came (unless no_RC) and the *)
(* FCU is connected.  The node may have been restarted in flight.          *)
Init ==
  /\ state = "MANUAL_CTRL" /\ pc = "loop"
  /\ IF NoRC THEN rc = RCDefault
             ELSE \E m \in RCInputs : rc = RCFeed(RCDefault, m, m)
  /\ odom = [fresh |-> FALSE, high |-> FALSE]
  /\ cmdFresh = FALSE /\ td = "none"
  /\ fcu \in FcuState
  /\ st = fcu
  /\ ext = FALSE
  /\ onGround \in {TRUE, ~fcu.armed}
  /\ offb = [asked |-> FALSE, before |-> ""]
  /\ landed = TRUE /\ c12 = "no" /\ delay = "off" /\ speedup = FALSE /\ retry = TRUE
  /\ sent = {}
  /\ cmdSince = FALSE /\ winSince = FALSE

Next == Callback \/ Time \/ Outside \/ Process

Spec == Init /\ [][Next]_vars

(* ros::Rate drives the main loop for ever and no call in process() blocks *)
(* but the wait for the sticks, so process() runs again and again.         *)
FairSpec == Spec /\ WF_vars(Process)

-----------------------------------------------------------------------------
(* Properties.                                                             *)

Engaged == state # "MANUAL_CTRL"

(* "You are sending commands before toggling into AUTO_HOVER, which is not *)
(* allowed": a command that px4ctrl would fly, or flies, arrived after it  *)
(* engaged, whichever way it engaged and however the callbacks fell.       *)
CommandPostdatesEngagement == Engaged /\ (cmdFresh \/ state = "CMD_CTRL") => cmdSince

(* While px4ctrl flies, "landed" and the 3 s window that leads to it come  *)
(* from this flight: nothing the detector kept in its static variables     *)
(* from an earlier one counts.                                             *)
LandingSeenThisFlight == Engaged /\ pc = "loop" /\ (landed \/ c12 # "no") => winSince

(* No call of process() both takes the vehicle into AUTO_HOVER and reboots *)
(* its FCU, though the code tests the two flags one after the other.       *)
NoRebootOnEngaging == "reboot" \in sent => state # "AUTO_HOVER"

(* Without odometry px4ctrl ends up in manual control, or in the take-off, *)
(* which does not look (AUTO_HOVER, CMD_CTRL, AUTO_LAND all do).           *)
OdomLossEndsFlight ==
  <>[]~odom.fresh => <>[](state \in {"MANUAL_CTRL", "AUTO_TAKEOFF"})

(* When the commands stop for good, px4ctrl does not go on flying the last *)
(* one: it leaves CMD_CTRL for good, though the switch still asks for it   *)
(* and whatever the pilot, the FCU and the take-off do.                    *)
CommandLossEndsControl == <>[]~cmdFresh => <>[](state # "CMD_CTRL")

(* Channel 5 out of the hover position ends CMD_CTRL and AUTO_LAND for     *)
(* good, and AUTO_HOVER each time a take-off ends in it.                   *)
SwitchEndsFlight ==
  <>[]~rc.is_hover_mode =>
    /\ <>[](state \notin {"CMD_CTRL", "AUTO_LAND"})
    /\ []<>(state # "AUTO_HOVER")

-----------------------------------------------------------------------------
(* px4ctrl implements the three flight levels.                             *)

LevelOf ==
  [s \in State_t |-> IF s = "MANUAL_CTRL" THEN "L1"
                     ELSE IF s = "AUTO_HOVER" THEN "L2"
                     ELSE IF s = "CMD_CTRL" THEN "L3"
                     ELSE IF s = "AUTO_TAKEOFF" THEN "takeoff" ELSE "land"]

Levels == INSTANCE FlightLevels WITH
  level <- LevelOf[state], asked <- offb.asked,
  hover <- rc.is_hover_mode, odom <- odom.fresh

LevelsSpec == Levels!Spec
=============================================================================
