--------------------------- MODULE PX4CtrlProofs ---------------------------
(***************************************************************************)
(* Proofs about PX4Ctrl, for every set of RC inputs, every set of FCU      *)
(* modes and every setting of the parameters: the types, the safety        *)
(* invariants, and that px4ctrl implements FlightLevels.                   *)
(***************************************************************************)
EXTENDS PX4Ctrl, TLAPS

Offb_t == [asked : BOOLEAN, before : FcuModes \cup {""}]

-----------------------------------------------------------------------------
(* Types.                                                                  *)

(* Feeding an RC message yields well-typed RC data.                        *)
LEMMA RCFeedType ==
  ASSUME NEW d \in RC_Data_t, NEW last \in RCMessage, NEW m \in RCMessage
  PROVE  RCFeed(d, last, m) \in RC_Data_t
BY Zenon DEF RCFeed, RC_Data_t

(* The defaults of RC_Data_t are well-typed.                               *)
LEMMA RCDefaultType == RCDefault \in RC_Data_t
BY DEF RCDefault, RC_Data_t, RCMessage, Level, Sticks

(* land_detector leaves its own variables well-typed.                      *)
LEMMA LandDetectorType ==
  ASSUME TypeOK, NEW last \in State_t, NEW s \in State_t, NEW sat \in BOOLEAN,
         LandDetector(last, s, sat)
  PROVE  landed' \in BOOLEAN /\ c12' \in {"no", "running", "held"} /\ winSince' \in BOOLEAN
<1>1. landed' \in BOOLEAN
  BY DEF TypeOK, TlTypeOK, LandDetector
<1>2. c12' \in {"no", "running", "held"}
  BY DEF TypeOK, TlTypeOK, LandDetector
<1>3. winSince' \in BOOLEAN
  BY DEF TypeOK, HistTypeOK, LandDetector
<1>4. QED
  BY <1>1, <1>2, <1>3

(* What is left to show of a call of process() that ends.                  *)
LEMMA EndCallType ==
  ASSUME TypeOK, NEW last \in State_t, NEW s \in State_t, NEW sat \in BOOLEAN,
         EndCall(last, s, sat),
         odom' \in Odom_Data_t, cmdSince' \in BOOLEAN,
         offb' \in Offb_t, fcu' \in FcuState, sent' \subseteq Outputs,
         delay' \in {"off", "set", "due"}, speedup' \in BOOLEAN, retry' \in BOOLEAN
  PROVE  TypeOK'
<1>1. rc' \in RC_Data_t
  BY Zenon DEF EndCall, TypeOK, InTypeOK, RC_Data_t
<1>2. InTypeOK'
  BY <1>1 DEF EndCall, TypeOK, InTypeOK
<1>3. TlTypeOK'
  BY LandDetectorType DEF EndCall, TlTypeOK
<1>4. HistTypeOK'
  BY LandDetectorType DEF EndCall, HistTypeOK
<1>5. QED
  BY <1>2, <1>3, <1>4 DEF EndCall, TypeOK, Offb_t

(* Both ways of toggle_offboard_mode leave a well-typed record and FCU.    *)
LEMMA OffboardOnType ==
  ASSUME TypeOK, OffboardOn
  PROVE  offb' \in Offb_t /\ fcu' \in FcuState
<1>1. BeforeOffboard \in FcuModes
  BY FcuModesAssumption DEF TypeOK, InTypeOK, FcuState, BeforeOffboard
<1>2. offb' = [asked |-> TRUE, before |-> BeforeOffboard]
  BY DEF OffboardOn
<1>3. offb' \in Offb_t
  BY <1>1, <1>2 DEF Offb_t
<1>4. PICK m \in AfterSetMode("OFFBOARD") : fcu' = [fcu EXCEPT !.mode = m]
  BY DEF OffboardOn
<1>5. m \in FcuModes
  BY FcuModesAssumption DEF TypeOK, FcuState, AfterSetMode
<1>6. fcu' \in FcuState
  BY <1>4, <1>5, Zenon DEF TypeOK, FcuState
<1>7. QED
  BY <1>3, <1>6

LEMMA OffboardOffType ==
  ASSUME TypeOK, NEW armed \in BOOLEAN, OffboardOff(armed)
  PROVE  offb' \in Offb_t /\ fcu' \in FcuState
<1>1. offb' \in Offb_t
  BY Zenon DEF OffboardOff, TypeOK, Offb_t
<1>2. PICK m \in IF offb.before = "" THEN {fcu.mode} ELSE AfterSetMode(offb.before) :
        fcu' = [mode |-> m, armed |-> armed]
  BY DEF OffboardOff
<1>3. m \in FcuModes
  BY <1>2 DEF TypeOK, FcuState, AfterSetMode
<1>4. fcu' \in FcuState
  BY <1>2, <1>3 DEF FcuState
<1>5. QED
  BY <1>1, <1>4

LEMMA KeepFcuType == TypeOK /\ KeepFcu => offb' \in Offb_t /\ fcu' \in FcuState
BY DEF TypeOK, KeepFcu, Offb_t

LEMMA KeepTimersType ==
  TypeOK /\ KeepTimers => delay' \in {"off", "set", "due"} /\ speedup' \in BOOLEAN /\ retry' \in BOOLEAN
BY DEF TypeOK, TlTypeOK, KeepTimers

(* What a step leaves alone stays well-typed.                              *)
LEMMA KeepIn == InTypeOK /\ UNCHANGED inVars => InTypeOK'
BY DEF InTypeOK, inVars

LEMMA KeepTl == TlTypeOK /\ UNCHANGED tlVars => TlTypeOK'
BY DEF TlTypeOK, tlVars

LEMMA KeepHist == HistTypeOK /\ UNCHANGED histVars => HistTypeOK'
BY DEF HistTypeOK, histVars

LEMMA TypeInit == Init => TypeOK
<1> SUFFICES ASSUME Init PROVE TypeOK
  OBVIOUS
<1>1. rc \in RC_Data_t
  BY RCInputsAssumption, RCFeedType, RCDefaultType DEF Init
<1>2. onGround \in BOOLEAN
  BY Zenon DEF Init
<1>3. QED
  BY <1>1, <1>2 DEF Init, TypeOK, InTypeOK, TlTypeOK, HistTypeOK, State_t, Odom_Data_t, FcuState, Outputs

(* A callback, a time-out and an outside event keep the types.             *)
LEMMA CallbackType == TypeOK /\ Callback => TypeOK'
<1> SUFFICES ASSUME TypeOK, Callback PROVE TypeOK'
  OBVIOUS
<1> USE DEF TypeOK
<1>1. CASE FeedRC
  <2>1. rc \in RC_Data_t /\ rc.msg \in RCMessage
    BY DEF InTypeOK, RC_Data_t
  <2>2. PICK m \in RCInputs : rc' = RCFeed(rc, rc.msg, m)
    BY <1>1 DEF FeedRC
  <2>3. rc' \in RC_Data_t
    BY <2>1, <2>2, RCFeedType, RCInputsAssumption
  <2>4. QED
    BY <1>1, <2>3, KeepTl, KeepHist DEF FeedRC, InTypeOK, envVars
<1>2. CASE FeedOdom
  <2>1. PICK high \in BOOLEAN : odom' = [fresh |-> TRUE, high |-> high]
    BY <1>2 DEF FeedOdom
  <2>2. odom' \in Odom_Data_t
    BY <2>1 DEF Odom_Data_t
  <2>3. QED
    BY <1>2, <2>2, KeepTl, KeepHist DEF FeedOdom, InTypeOK, envVars
<1>3. CASE FeedCmd
  BY <1>3, KeepTl DEF FeedCmd, InTypeOK, HistTypeOK, envVars
<1>4. CASE FeedTakeoffLand
  BY <1>4, KeepTl, KeepHist DEF FeedTakeoffLand, InTypeOK, envVars
<1>5. CASE FeedState
  BY <1>5, KeepTl, KeepHist DEF FeedState, InTypeOK, envVars
<1>6. CASE FeedExtendedState
  BY <1>6, KeepTl, KeepHist DEF FeedExtendedState, InTypeOK, envVars
<1>7. QED
  BY <1>1, <1>2, <1>3, <1>4, <1>5, <1>6 DEF Callback

LEMMA TimeType == TypeOK /\ Time => TypeOK'
<1> SUFFICES ASSUME TypeOK, Time PROVE TypeOK'
  OBVIOUS
<1> USE DEF TypeOK
<1>1. CASE RCTimeout
  <2>1. rc' \in RC_Data_t
    BY <1>1, Zenon DEF RCTimeout, InTypeOK, RC_Data_t
  <2>2. QED
    BY <1>1, <2>1, KeepTl, KeepHist DEF RCTimeout, InTypeOK, envVars
<1>2. CASE OdomTimeout
  <2>1. odom' \in Odom_Data_t
    BY <1>2, Zenon DEF OdomTimeout, InTypeOK, Odom_Data_t
  <2>2. QED
    BY <1>2, <2>1, KeepTl, KeepHist DEF OdomTimeout, InTypeOK, envVars
<1>3. CASE CmdTimeout
  BY <1>3, KeepTl, KeepHist DEF CmdTimeout, InTypeOK, envVars
<1>4. CASE SpeedupElapses
  BY <1>4, KeepIn, KeepHist DEF SpeedupElapses, TlTypeOK, envVars
<1>5. CASE DelayElapses
  BY <1>5, KeepIn, KeepHist DEF DelayElapses, TlTypeOK, envVars
<1>6. CASE C12Elapses
  BY <1>6, KeepIn, KeepHist DEF C12Elapses, TlTypeOK, envVars
<1>7. CASE RetryElapses
  BY <1>7, KeepIn, KeepHist DEF RetryElapses, TlTypeOK, envVars
<1>8. QED
  BY <1>1, <1>2, <1>3, <1>4, <1>5, <1>6, <1>7 DEF Time

LEMMA OutsideType == TypeOK /\ Outside => TypeOK'
<1> SUFFICES ASSUME TypeOK, Outside PROVE TypeOK'
  OBVIOUS
<1> USE DEF TypeOK
<1>1. CASE PilotMode
  BY <1>1, KeepIn, KeepTl, KeepHist DEF PilotMode, FcuState
<1>2. CASE PilotArm
  BY <1>2, KeepIn, KeepTl, KeepHist DEF PilotArm, FcuState
<1>3. CASE LiftOff
  BY <1>3, KeepIn, KeepTl, KeepHist DEF LiftOff, FcuState
<1>4. CASE TouchDown
  BY <1>4, KeepIn, KeepTl, KeepHist DEF TouchDown, FcuState
<1>5. QED
  BY <1>1, <1>2, <1>3, <1>4 DEF Outside

(* So does every call of process().                                        *)
LEMMA ProcessType == TypeOK /\ Process => TypeOK'
<1> SUFFICES ASSUME TypeOK, Process PROVE TypeOK'
  OBVIOUS
<1> USE DEF TypeOK
<1>1. CASE ManualToHover
  BY <1>1, EndCallType, OffboardOnType, KeepTimersType
     DEF ManualToHover, In, State_t, Outputs, InTypeOK, Reboot
<1>2. CASE ManualRejects
  BY <1>2, EndCallType, KeepFcuType, KeepTimersType
     DEF ManualRejects, In, State_t, Outputs, InTypeOK, HistTypeOK
<1>3. CASE TakeoffBlocks
  BY <1>3, KeepTl, KeepIn, KeepHist DEF TakeoffBlocks, envVars
<1>4. CASE SticksReady
  BY <1>4, EndCallType, KeepFcuType, KeepTimersType
     DEF SticksReady, In, State_t, Outputs, InTypeOK, HistTypeOK
<1>5. CASE ManualToTakeoff
  <2>1. odom' \in Odom_Data_t
    BY <1>5, Zenon DEF ManualToTakeoff, InTypeOK, Odom_Data_t
  <2>2. InTypeOK'
    BY <1>5, <2>1 DEF ManualToTakeoff, InTypeOK
  <2>3. TlTypeOK'
    BY <1>5, KeepTl DEF ManualToTakeoff
  <2>4. QED
    BY <1>5, <2>2, <2>3, OffboardOnType
       DEF ManualToTakeoff, State_t, Outputs, HistTypeOK, Offb_t
<1>6. CASE TakeoffArms
  <2>1. PICK a \in IF EnableAutoArm THEN {fcu.armed, TRUE} ELSE {fcu.armed} :
          fcu' = [fcu EXCEPT !.armed = a]
    BY <1>6 DEF TakeoffArms
  <2>2. a \in BOOLEAN
    BY <2>1 DEF FcuState
  <2>3. fcu' \in FcuState
    BY <2>1, <2>2, Zenon DEF FcuState
  <2>4. sent' \subseteq Outputs
    BY <1>6 DEF TakeoffArms, Outputs, Reboot
  <2>5. QED
    BY <1>6, <2>3, <2>4, EndCallType
       DEF TakeoffArms, State_t, InTypeOK, HistTypeOK, TlTypeOK, Offb_t
<1>7. CASE ManualStays
  BY <1>7, EndCallType, KeepFcuType, KeepTimersType
     DEF ManualStays, In, State_t, Outputs, InTypeOK, HistTypeOK, Reboot
<1>8. CASE BackToManual
  <2>1. fcu.armed \in BOOLEAN
    BY DEF FcuState
  <2>2. QED
    BY <1>8, <2>1, EndCallType, OffboardOffType, KeepTimersType
       DEF BackToManual, State_t, Outputs, InTypeOK, HistTypeOK
<1>9. CASE HoverToCmd
  BY <1>9, EndCallType, KeepFcuType, KeepTimersType
     DEF HoverToCmd, In, State_t, Outputs, InTypeOK, HistTypeOK, C12Free
<1>10. CASE HoverWaitsForOffboard
  BY <1>10, EndCallType, KeepFcuType, KeepTimersType
     DEF HoverWaitsForOffboard, In, State_t, Outputs, InTypeOK, HistTypeOK
<1>11. CASE HoverToLand
  BY <1>11, EndCallType, KeepFcuType, KeepTimersType
     DEF HoverToLand, In, State_t, Outputs, InTypeOK, HistTypeOK
<1>12. CASE HoverStays
  BY <1>12, EndCallType, KeepFcuType
     DEF HoverStays, In, State_t, Outputs, InTypeOK, HistTypeOK, TlTypeOK, C12Free
<1>13. CASE CmdToHover
  BY <1>13, EndCallType, KeepFcuType, KeepTimersType
     DEF CmdToHover, In, State_t, Outputs, InTypeOK, HistTypeOK
<1>14. CASE CmdStays
  BY <1>14, EndCallType, KeepFcuType, KeepTimersType
     DEF CmdStays, In, State_t, Outputs, InTypeOK, HistTypeOK, C12Free
<1>15. CASE TakeoffSpeedsUp
  BY <1>15, EndCallType, KeepFcuType, KeepTimersType
     DEF TakeoffSpeedsUp, In, State_t, Outputs, InTypeOK, HistTypeOK, C12Free
<1>16. CASE TakeoffClimbs
  BY <1>16, EndCallType, KeepFcuType, KeepTimersType
     DEF TakeoffClimbs, In, State_t, Outputs, InTypeOK, HistTypeOK, C12Free
<1>17. CASE TakeoffToHover
  BY <1>17, EndCallType, KeepFcuType
     DEF TakeoffToHover, In, State_t, Outputs, InTypeOK, HistTypeOK, TlTypeOK
<1>18. CASE LandToHover
  BY <1>18, EndCallType, KeepFcuType, KeepTimersType
     DEF LandToHover, In, State_t, Outputs, InTypeOK, HistTypeOK
<1>19. CASE LandDescends
  BY <1>19, EndCallType, KeepFcuType, KeepTimersType
     DEF LandDescends, In, State_t, Outputs, InTypeOK, HistTypeOK, C12Free
<1>20. CASE LandIdles
  BY <1>20, EndCallType, KeepFcuType, KeepTimersType
     DEF LandIdles, In, State_t, Outputs, InTypeOK, HistTypeOK
<1>21. CASE LandDisarms
  <2>1. /\ odom' \in Odom_Data_t /\ cmdSince' \in BOOLEAN
        /\ delay' \in {"off", "set", "due"} /\ speedup' \in BOOLEAN /\ retry' \in BOOLEAN
    BY <1>21 DEF LandDisarms, InTypeOK, HistTypeOK, TlTypeOK
  <2>2. CASE OffboardOff(FALSE) /\ EndCall(state, "MANUAL_CTRL", FALSE)
             /\ sent' = {"idle", "disarm", "offboard_off"}
    BY <2>1, <2>2, EndCallType, OffboardOffType DEF State_t, Outputs
  <2>3. CASE KeepFcu /\ EndCall(state, state, FALSE) /\ sent' = {"idle", "disarm"}
    BY <2>1, <2>3, EndCallType, KeepFcuType DEF State_t, Outputs
  <2>4. QED
    BY <1>21, <2>2, <2>3 DEF LandDisarms
<1>22. QED
  BY <1>1, <1>2, <1>3, <1>4, <1>5, <1>6, <1>7, <1>8, <1>9, <1>10, <1>11,
     <1>12, <1>13, <1>14, <1>15, <1>16, <1>17, <1>18, <1>19, <1>20, <1>21 DEF Process

LEMMA TypeStep == TypeOK /\ [Next]_vars => TypeOK'
<1> SUFFICES ASSUME TypeOK, [Next]_vars PROVE TypeOK'
  OBVIOUS
<1>1. CASE UNCHANGED vars
  BY <1>1, KeepIn, KeepTl, KeepHist DEF vars, envVars, TypeOK
<1>2. QED
  BY <1>1, CallbackType, TimeType, OutsideType, ProcessType DEF Next

(* Type correctness.                                                       *)
THEOREM TypeCorrect == Spec => []TypeOK
BY TypeInit, TypeStep, PTL DEF Spec

-----------------------------------------------------------------------------
(* The inductive invariant: the safety properties, where in process() the  *)
(* thread can be, and what the RC flags exclude of one another.            *)

InsideCall ==
  /\ pc = "sticks" => state = "MANUAL_CTRL"
  /\ pc = "modewait" => state = "AUTO_TAKEOFF"

SwitchFlags ==
  /\ rc.enter_hover_mode => rc.is_hover_mode
  /\ rc.toggle_reboot => ~rc.is_hover_mode

Safety ==
  /\ InsideCall
  /\ SwitchFlags
  /\ CommandPostdatesEngagement
  /\ LandingSeenThisFlight
  /\ NoRebootOnEngaging

IInv == TypeOK /\ Safety

(* The flags of one RC message.                                            *)
LEMMA RCFeedFlags ==
  ASSUME NEW d, NEW last, NEW m
  PROVE  LET r == RCFeed(d, last, m)
         IN (r.enter_hover_mode => r.is_hover_mode) /\ (r.toggle_reboot => ~r.is_hover_mode)
BY Zenon DEF RCFeed

LEMMA SafetyInit == Init => Safety
<1> SUFFICES ASSUME Init PROVE Safety
  OBVIOUS
<1>1. SwitchFlags
  <2>1. CASE NoRC
    <3>1. rc = RCDefault
      BY <2>1 DEF Init
    <3>2. QED
      BY <3>1, Zenon DEF SwitchFlags, RCDefault
  <2>2. CASE ~NoRC
    <3>1. PICK m \in RCInputs : rc = RCFeed(RCDefault, m, m)
      BY <2>2 DEF Init
    <3>2. QED
      BY <3>1, RCFeedFlags DEF SwitchFlags
  <2>3. QED
    BY <2>1, <2>2
<1>2. QED
  BY <1>1 DEF Init, Safety, InsideCall, CommandPostdatesEngagement,
              LandingSeenThisFlight, NoRebootOnEngaging, Engaged

(* Between the calls of process() nothing moves the state machine, its     *)
(* record of the pilot's mode or the land detector; the detector's window  *)
(* only grows older.                                                       *)
LEMMA BetweenCalls ==
  ASSUME Callback \/ Time \/ Outside
  PROVE  /\ state' = state /\ pc' = pc /\ offb' = offb /\ sent' = {}
         /\ landed' = landed /\ winSince' = winSince
         /\ c12' # "no" => c12 # "no"
         /\ cmdFresh' => cmdFresh \/ cmdSince'
         /\ cmdSince => cmdSince'
<1> USE DEF Callback, FeedRC, FeedOdom, FeedCmd, FeedTakeoffLand, FeedState, FeedExtendedState,
            Time, RCTimeout, OdomTimeout, CmdTimeout, SpeedupElapses, DelayElapses,
            C12Elapses, RetryElapses,
            Outside, PilotMode, PilotArm, LiftOff, TouchDown, inVars, tlVars, histVars
<1>1. state' = state /\ pc' = pc /\ offb' = offb /\ landed' = landed /\ winSince' = winSince
  BY Zenon
<1>2. sent' = {}
  BY Zenon
<1>3. CASE Callback
  <2>1. c12' = c12
    BY <1>3, Zenon
  <2>2. cmdFresh' => cmdFresh \/ cmdSince'
    BY <1>3
  <2>3. cmdSince => cmdSince'
    BY <1>3
  <2>4. QED
    BY ONLY <1>1, <1>2, <2>1, <2>2, <2>3
<1>4. CASE Time \/ Outside
  <2>1. c12' # "no" => c12 # "no"
    BY <1>4, Zenon
  <2>2. cmdFresh' => cmdFresh
    BY <1>4, Zenon
  <2>3. cmdSince' = cmdSince
    BY <1>4, Zenon
  <2>4. QED
    BY ONLY <1>1, <1>2, <2>1, <2>2, <2>3
<1>5. QED
  BY <1>3, <1>4

(* Nothing but the pilot's switch sets a flag between the calls.           *)
LEMMA FlagsBetweenCalls ==
  ASSUME TypeOK, SwitchFlags, Callback \/ Time \/ Outside
  PROVE  SwitchFlags'
<1>1. CASE FeedRC
  <2>1. PICK m \in RCInputs : rc' = RCFeed(rc, rc.msg, m)
    BY <1>1 DEF FeedRC
  <2>2. QED
    BY <2>1, RCFeedFlags DEF SwitchFlags
<1>2. CASE RCTimeout
  <2>1. rc' = [rc EXCEPT !.fresh = FALSE]
    BY <1>2 DEF RCTimeout
  <2>2. /\ rc'.enter_hover_mode = rc.enter_hover_mode /\ rc'.toggle_reboot = rc.toggle_reboot
        /\ rc'.is_hover_mode = rc.is_hover_mode
    BY <2>1, Zenon DEF TypeOK, InTypeOK, RC_Data_t
  <2>3. QED
    BY <2>2, Zenon DEF SwitchFlags
<1>3. CASE ~FeedRC /\ ~RCTimeout
  <2>1. rc' = rc
    BY <1>3, Zenon DEF Callback, FeedOdom, FeedCmd, FeedTakeoffLand, FeedState, FeedExtendedState,
            Time, OdomTimeout, CmdTimeout, SpeedupElapses, DelayElapses,
            C12Elapses, RetryElapses,
            Outside, PilotMode, PilotArm, LiftOff, TouchDown, inVars
  <2>2. QED
    BY <2>1 DEF SwitchFlags
<1>4. QED
  BY <1>1, <1>2, <1>3

LEMMA SafetyBetweenCalls ==
  ASSUME IInv, Callback \/ Time \/ Outside
  PROVE  Safety'
<1>1. SwitchFlags'
  BY FlagsBetweenCalls DEF IInv, Safety
<1>2. InsideCall' /\ NoRebootOnEngaging'
  BY BetweenCalls DEF IInv, Safety, InsideCall, NoRebootOnEngaging, Engaged
<1>3. CommandPostdatesEngagement'
  BY BetweenCalls DEF IInv, Safety, CommandPostdatesEngagement, Engaged
<1>4. LandingSeenThisFlight'
  BY BetweenCalls DEF IInv, Safety, LandingSeenThisFlight, Engaged
<1>5. QED
  BY <1>1, <1>2, <1>3, <1>4 DEF Safety

(* What the land detector keeps of a call that flies on, and of the call   *)
(* that engages: then it starts anew.                                      *)
LEMMA DetectorKeeps ==
  ASSUME TypeOK, NEW last \in State_t, NEW s \in State_t, NEW sat \in BOOLEAN,
         s # "MANUAL_CTRL", last # "MANUAL_CTRL",
         landed \/ c12 # "no" => winSince,
         LandDetector(last, s, sat)
  PROVE  landed' \/ c12' # "no" => winSince'
BY DEF TypeOK, TlTypeOK, HistTypeOK, LandDetector

LEMMA DetectorStarts ==
  ASSUME TypeOK, NEW s \in {"AUTO_HOVER", "AUTO_TAKEOFF"},
         LandDetector("MANUAL_CTRL", s, FALSE)
  PROVE  ~landed' /\ c12' = "no"
BY DEF TypeOK, TlTypeOK, LandDetector

(* Every call of process() clears the flags when it ends.                  *)
LEMMA EndCallFlags ==
  ASSUME TypeOK, NEW last, NEW s, NEW sat, EndCall(last, s, sat)
  PROVE  SwitchFlags' /\ InsideCall'
<1>1. rc' = [rc EXCEPT !.enter_hover_mode = FALSE, !.enter_command_mode = FALSE,
                      !.toggle_reboot = FALSE]
  BY DEF EndCall
<1>2. SwitchFlags'
  BY <1>1, Zenon DEF TypeOK, InTypeOK, RC_Data_t, SwitchFlags
<1>3. InsideCall'
  BY DEF EndCall, InsideCall
<1>4. QED
  BY <1>2, <1>3

(* A call that ends in MANUAL_CTRL owes nothing more.                      *)
LEMMA EndsInManual ==
  ASSUME TypeOK, NEW last, NEW sat, EndCall(last, "MANUAL_CTRL", sat)
  PROVE  Safety'
<1>1. state' = "MANUAL_CTRL"
  BY DEF EndCall
<1>2. QED
  BY <1>1, EndCallFlags DEF Safety, CommandPostdatesEngagement,
     LandingSeenThisFlight, NoRebootOnEngaging, Engaged

(* A call that flies on, in the same state or another.                     *)
LEMMA FliesOn ==
  ASSUME IInv, NEW s \in State_t, NEW sat \in BOOLEAN,
         pc = "loop", state # "MANUAL_CTRL", s # "MANUAL_CTRL",
         s = "CMD_CTRL" => state = "CMD_CTRL" \/ cmdFresh,
         KeepFcu, cmdSince' = cmdSince, "reboot" \notin sent',
         EndCall(state, s, sat)
  PROVE  Safety'
<1> USE DEF IInv, Safety, Engaged
<1>1. state' = s /\ pc' = "loop" /\ cmdFresh' = cmdFresh /\ LandDetector(state, s, sat)
  BY DEF EndCall
<1>2. SwitchFlags' /\ InsideCall'
  BY EndCallFlags
<1>3. NoRebootOnEngaging'
  BY DEF KeepFcu, NoRebootOnEngaging
<1>4. CommandPostdatesEngagement'
  BY <1>1 DEF CommandPostdatesEngagement
<1>5. LandingSeenThisFlight'
  <2>1. landed \/ c12 # "no" => winSince
    BY DEF LandingSeenThisFlight
  <2>2. landed' \/ c12' # "no" => winSince'
    BY <1>1, <2>1, DetectorKeeps DEF TypeOK
  <2>3. QED
    BY <2>2 DEF LandingSeenThisFlight
<1>6. QED
  BY <1>2, <1>3, <1>4, <1>5

(* The calls of process().                                                 *)
LEMMA SafetyProcess ==
  ASSUME IInv, Process
  PROVE  Safety'
<1> USE DEF IInv, Safety
<1>1. CASE ManualToHover
  <2>1. /\ state' = "AUTO_HOVER" /\ pc' = "loop" /\ cmdFresh' = cmdFresh
        /\ LandDetector("MANUAL_CTRL", "AUTO_HOVER", FALSE)
    BY <1>1 DEF ManualToHover, In, EndCall
  <2>2. SwitchFlags' /\ InsideCall'
    BY <1>1, EndCallFlags DEF ManualToHover
  <2>4. CommandPostdatesEngagement'
    BY <1>1, <2>1 DEF ManualToHover, MayHover, CommandPostdatesEngagement
  <2>5. LandingSeenThisFlight'
    BY <2>1, DetectorStarts DEF LandingSeenThisFlight
  <2>6. NoRebootOnEngaging'
    BY <1>1 DEF ManualToHover, Reboot, SwitchFlags, NoRebootOnEngaging
  <2>7. QED
    BY <2>2, <2>4, <2>5, <2>6
<1>2. CASE ManualRejects
  BY <1>2, EndsInManual DEF ManualRejects, In
<1>3. CASE TakeoffBlocks
  BY <1>3 DEF TakeoffBlocks, In, inVars, tlVars, histVars, InsideCall, SwitchFlags,
     CommandPostdatesEngagement, LandingSeenThisFlight, NoRebootOnEngaging, Engaged
<1>4. CASE SticksReady
  BY <1>4, EndsInManual DEF SticksReady, InsideCall
<1>5. CASE ManualToTakeoff
  <2>1. state' = "AUTO_TAKEOFF" /\ pc' = "modewait" /\ sent' = {"offboard_on"} /\ rc' = rc
    BY <1>5 DEF ManualToTakeoff
  <2>2. SwitchFlags' /\ InsideCall' /\ LandingSeenThisFlight' /\ NoRebootOnEngaging'
    BY <2>1 DEF SwitchFlags, InsideCall, LandingSeenThisFlight, NoRebootOnEngaging
  <2>4. CommandPostdatesEngagement'
    BY <1>5 DEF ManualToTakeoff, MayTakeoff, CommandPostdatesEngagement
  <2>5. QED
    BY <2>2, <2>4
<1>6. CASE TakeoffArms
  <2>1. state = "AUTO_TAKEOFF"
    BY <1>6 DEF TakeoffArms, InsideCall
  <2>2. /\ state' = "AUTO_TAKEOFF" /\ pc' = "loop" /\ cmdFresh' = cmdFresh
        /\ LandDetector("MANUAL_CTRL", "AUTO_TAKEOFF", FALSE)
    BY <1>6, <2>1 DEF TakeoffArms, EndCall
  <2>3. SwitchFlags' /\ InsideCall'
    BY <1>6, EndCallFlags DEF TakeoffArms
  <2>4. NoRebootOnEngaging' /\ CommandPostdatesEngagement'
    BY <1>6, <2>1, <2>2 DEF TakeoffArms, NoRebootOnEngaging,
       CommandPostdatesEngagement, Engaged
  <2>5. LandingSeenThisFlight'
    BY <2>2, DetectorStarts DEF LandingSeenThisFlight
  <2>6. QED
    BY <2>3, <2>4, <2>5
<1>7. CASE ManualStays
  BY <1>7, EndsInManual DEF ManualStays, In
<1>8. CASE BackToManual
  BY <1>8, EndsInManual DEF BackToManual, In
<1>9. CASE HoverToCmd
  BY <1>9, FliesOn DEF HoverToCmd, In, State_t, TypeOK, C12Free, CommandAsked
<1>10. CASE HoverWaitsForOffboard
  BY <1>10, FliesOn DEF HoverWaitsForOffboard, In, State_t, TypeOK
<1>11. CASE HoverToLand
  BY <1>11, FliesOn DEF HoverToLand, In, State_t, TypeOK
<1>12. CASE HoverStays
  BY <1>12, FliesOn DEF HoverStays, In, State_t, TypeOK, C12Free
<1>13. CASE CmdToHover
  BY <1>13, FliesOn DEF CmdToHover, In, State_t, TypeOK
<1>14. CASE CmdStays
  BY <1>14, FliesOn DEF CmdStays, In, State_t, TypeOK, C12Free
<1>15. CASE TakeoffSpeedsUp
  BY <1>15, FliesOn DEF TakeoffSpeedsUp, In, State_t, TypeOK, C12Free
<1>16. CASE TakeoffClimbs
  BY <1>16, FliesOn DEF TakeoffClimbs, In, State_t, TypeOK, C12Free
<1>17. CASE TakeoffToHover
  BY <1>17, FliesOn DEF TakeoffToHover, In, State_t, TypeOK
<1>18. CASE LandToHover
  BY <1>18, FliesOn DEF LandToHover, In, State_t, TypeOK
<1>19. CASE LandDescends
  BY <1>19, FliesOn DEF LandDescends, In, State_t, TypeOK, C12Free
<1>20. CASE LandIdles
  BY <1>20, FliesOn DEF LandIdles, In, State_t, TypeOK
<1>21. CASE LandDisarms
  <2>1. CASE EndCall(state, "MANUAL_CTRL", FALSE)
    BY <2>1, EndsInManual
  <2>2. CASE KeepFcu /\ EndCall(state, state, FALSE) /\ sent' = {"idle", "disarm"}
    BY <1>21, <2>2, FliesOn DEF LandDisarms, In, State_t, TypeOK
  <2>3. QED
    BY <1>21, <2>1, <2>2 DEF LandDisarms
<1>22. QED
  BY <1>1, <1>2, <1>3, <1>4, <1>5, <1>6, <1>7, <1>8, <1>9, <1>10, <1>11,
     <1>12, <1>13, <1>14, <1>15, <1>16, <1>17, <1>18, <1>19, <1>20, <1>21 DEF Process

(* The invariant is inductive.                                             *)
LEMMA SafetyStep == IInv /\ [Next]_vars => Safety'
<1> SUFFICES ASSUME IInv, [Next]_vars PROVE Safety'
  OBVIOUS
<1>1. CASE UNCHANGED vars
  BY <1>1 DEF vars, inVars, tlVars, histVars, IInv, Safety, InsideCall, SwitchFlags,
     CommandPostdatesEngagement, LandingSeenThisFlight, NoRebootOnEngaging, Engaged
<1>2. QED
  BY <1>1, SafetyBetweenCalls, SafetyProcess DEF Next

LEMMA Inductive == Spec => []IInv
<1>1. Init => IInv
  BY TypeInit, SafetyInit DEF IInv
<1>2. IInv /\ [Next]_vars => IInv'
  BY TypeStep, SafetyStep DEF IInv
<1>3. QED
  BY <1>1, <1>2, PTL DEF Spec

(* No command older than the engagement is ever flown.                     *)
THEOREM CommandsArePostEngagement == Spec => []CommandPostdatesEngagement
<1>1. IInv => CommandPostdatesEngagement
  BY DEF IInv, Safety
<1>2. QED
  BY <1>1, Inductive, PTL

(* The land detector never believes a window of an earlier flight.         *)
THEOREM LandingIsOfThisFlight == Spec => []LandingSeenThisFlight
<1>1. IInv => LandingSeenThisFlight
  BY DEF IInv, Safety
<1>2. QED
  BY <1>1, Inductive, PTL

(* The FCU is never rebooted by the call that engages AUTO_HOVER.          *)
THEOREM NeverRebootsOnEngaging == Spec => []NoRebootOnEngaging
<1>1. IInv => NoRebootOnEngaging
  BY DEF IInv, Safety
<1>2. QED
  BY <1>1, Inductive, PTL

-----------------------------------------------------------------------------
(* px4ctrl implements FlightLevels.                                        *)

LEMMA LevelsInit == Init => Levels!Init
<1> SUFFICES ASSUME Init PROVE Levels!Init
  OBVIOUS
<1>1. rc.is_hover_mode \in BOOLEAN
  BY TypeInit DEF TypeOK, InTypeOK, RC_Data_t
<1>2. QED
  BY <1>1 DEF Init, Levels!Init, LevelOf, State_t

(* The end of a call of process(), seen from the levels.                   *)
LEMMA EndCallLevels ==
  ASSUME TypeOK, NEW last, NEW s, NEW sat, EndCall(last, s, sat)
  PROVE  state' = s /\ rc'.is_hover_mode = rc.is_hover_mode
<1>1. rc' = [rc EXCEPT !.enter_hover_mode = FALSE, !.enter_command_mode = FALSE,
                      !.toggle_reboot = FALSE]
  BY DEF EndCall
<1>2. rc'.is_hover_mode = rc.is_hover_mode
  BY <1>1, Zenon DEF TypeOK, InTypeOK, RC_Data_t
<1>3. QED
  BY <1>2 DEF EndCall

LEMMA OffboardOnLevels == OffboardOn => offb'.asked = TRUE
BY DEF OffboardOn

LEMMA OffboardOffLevels ==
  ASSUME TypeOK, NEW armed, OffboardOff(armed)
  PROVE  offb'.asked = FALSE
BY Zenon DEF OffboardOff, TypeOK

(* A call that stays where it is, and a call that changes the level.       *)
LEMMA LevelStays ==
  ASSUME TypeOK, NEW last, NEW sat, EndCall(last, state, sat), offb' = offb, odom' = odom
  PROVE  UNCHANGED Levels!vars
BY EndCallLevels DEF Levels!vars

LEMMA LevelReleased ==
  ASSUME TypeOK, state \in {"AUTO_HOVER", "CMD_CTRL", "AUTO_LAND"},
         NEW sat, EndCall(state, "MANUAL_CTRL", sat),
         NEW armed, OffboardOff(armed), odom' = odom
  PROVE  Levels!Release
BY EndCallLevels, OffboardOffLevels DEF Levels!Release, LevelOf, State_t

LEMMA LevelShifts ==
  ASSUME TypeOK, Permitted, NEW s \in State_t, NEW sat, EndCall(state, s, sat),
         offb' = offb, odom' = odom,
         <<state, s>> \in {<<"AUTO_HOVER", "CMD_CTRL">>, <<"CMD_CTRL", "AUTO_HOVER">>,
                           <<"AUTO_HOVER", "AUTO_LAND">>, <<"AUTO_LAND", "AUTO_HOVER">>}
  PROVE  Levels!Shift
BY EndCallLevels DEF Levels!Shift, Levels!Permit, Levels!Trans, Levels!Keep, LevelOf, State_t, Permitted

(* The callbacks, the clock and the world are the levels' environment.     *)
LEMMA LevelsBetweenCalls ==
  ASSUME TypeOK, TypeOK', Callback \/ Time \/ Outside
  PROVE  Levels!Environment
BY BetweenCalls DEF Levels!Environment, TypeOK, InTypeOK, RC_Data_t, Odom_Data_t

LEMMA LevelsProcess ==
  ASSUME IInv, Process
  PROVE  \/ Levels!Engage \/ Levels!Release \/ Levels!Shift \/ Levels!Climbed
         \/ UNCHANGED Levels!vars
<1> USE DEF IInv, Safety, TypeOK
<1>1. CASE ManualToHover
  <2>1. state = "MANUAL_CTRL" /\ rc.is_hover_mode /\ odom.fresh /\ odom' = odom
    BY <1>1 DEF ManualToHover, In, MayHover, SwitchFlags
  <2>2. state' = "AUTO_HOVER" /\ rc'.is_hover_mode = rc.is_hover_mode
    BY <1>1, EndCallLevels DEF ManualToHover
  <2>3. offb'.asked = TRUE
    BY <1>1, OffboardOnLevels DEF ManualToHover
  <2>4. Levels!Engage
    BY <2>1, <2>2, <2>3 DEF Levels!Engage, Levels!Trans, Levels!Permit, LevelOf, State_t
  <2>5. QED
    BY <2>4
<1>2. CASE ManualRejects
  BY <1>2, LevelStays DEF ManualRejects, KeepFcu
<1>3. CASE TakeoffBlocks
  BY <1>3 DEF TakeoffBlocks, inVars, Levels!vars
<1>4. CASE SticksReady
  BY <1>4, LevelStays DEF SticksReady, KeepFcu
<1>5. CASE ManualToTakeoff
  <2>1. state = "MANUAL_CTRL" /\ state' = "AUTO_TAKEOFF" /\ rc' = rc /\ odom.fresh
    BY <1>5 DEF ManualToTakeoff, In, MayTakeoff
  <2>2. odom'.fresh = odom.fresh
    BY <1>5, Zenon DEF ManualToTakeoff, InTypeOK, Odom_Data_t
  <2>3. offb'.asked = TRUE
    BY <1>5, OffboardOnLevels DEF ManualToTakeoff
  <2>4. Levels!Engage
    BY <2>1, <2>2, <2>3 DEF Levels!Engage, Levels!Trans, Levels!Permit, LevelOf, State_t
  <2>5. QED
    BY <2>4
<1>6. CASE TakeoffArms
  BY <1>6, LevelStays DEF TakeoffArms, KeepFcu
<1>7. CASE ManualStays
  BY <1>7, LevelStays DEF ManualStays, KeepFcu
<1>8. CASE BackToManual
  BY <1>8, LevelReleased DEF BackToManual
<1>9. CASE HoverToCmd
  BY <1>9, LevelShifts DEF HoverToCmd, In, KeepFcu, State_t
<1>10. CASE HoverWaitsForOffboard
  BY <1>10, LevelStays DEF HoverWaitsForOffboard, KeepFcu
<1>11. CASE HoverToLand
  BY <1>11, LevelShifts DEF HoverToLand, In, KeepFcu, State_t
<1>12. CASE HoverStays
  BY <1>12, LevelStays DEF HoverStays, KeepFcu
<1>13. CASE CmdToHover
  BY <1>13, LevelShifts DEF CmdToHover, In, KeepFcu, State_t
<1>14. CASE CmdStays
  BY <1>14, LevelStays DEF CmdStays, KeepFcu
<1>15. CASE TakeoffSpeedsUp
  BY <1>15, LevelStays DEF TakeoffSpeedsUp, KeepFcu
<1>16. CASE TakeoffClimbs
  BY <1>16, LevelStays DEF TakeoffClimbs, KeepFcu
<1>17. CASE TakeoffToHover
  <2>1. state = "AUTO_TAKEOFF" /\ odom' = odom /\ offb' = offb
    BY <1>17 DEF TakeoffToHover, In, KeepFcu
  <2>2. state' = "AUTO_HOVER" /\ rc'.is_hover_mode = rc.is_hover_mode
    BY <1>17, EndCallLevels DEF TakeoffToHover
  <2>3. Levels!Climbed
    BY <2>1, <2>2 DEF Levels!Climbed, Levels!Trans, Levels!Keep, LevelOf, State_t
  <2>4. QED
    BY <2>3
<1>18. CASE LandToHover
  BY <1>18, LevelShifts DEF LandToHover, In, KeepFcu, State_t
<1>19. CASE LandDescends
  BY <1>19, LevelStays DEF LandDescends, KeepFcu
<1>20. CASE LandIdles
  BY <1>20, LevelStays DEF LandIdles, KeepFcu
<1>21. CASE LandDisarms
  <2>1. state = "AUTO_LAND" /\ odom' = odom
    BY <1>21 DEF LandDisarms, In
  <2>2. CASE OffboardOff(FALSE) /\ EndCall(state, "MANUAL_CTRL", FALSE)
    BY <2>1, <2>2, LevelReleased
  <2>3. CASE KeepFcu /\ EndCall(state, state, FALSE)
    BY <2>1, <2>3, LevelStays DEF KeepFcu
  <2>4. QED
    BY <1>21, <2>2, <2>3 DEF LandDisarms
<1>22. QED
  BY <1>1, <1>2, <1>3, <1>4, <1>5, <1>6, <1>7, <1>8, <1>9, <1>10, <1>11,
     <1>12, <1>13, <1>14, <1>15, <1>16, <1>17, <1>18, <1>19, <1>20, <1>21 DEF Process

(* px4ctrl engages, flies and releases as FlightLevels says: OFFBOARD is   *)
(* asked for exactly above L1, and no level is changed without the switch  *)
(* and the odometry, but down to L1 and at the end of the take-off.        *)
THEOREM ImplementsLevels == Spec => LevelsSpec
<1>1. IInv /\ IInv' /\ [Next]_vars => [Levels!Next]_(Levels!vars)
  <2> SUFFICES ASSUME IInv, IInv', [Next]_vars PROVE [Levels!Next]_(Levels!vars)
    OBVIOUS
  <2>1. CASE Callback \/ Time \/ Outside
    BY <2>1, LevelsBetweenCalls DEF IInv, Levels!Next
  <2>2. CASE Process
    BY <2>2, LevelsProcess DEF Levels!Next
  <2>3. CASE UNCHANGED vars
    BY <2>3 DEF vars, inVars, Levels!vars
  <2>4. QED
    BY <2>1, <2>2, <2>3 DEF Next
<1>2. QED
  BY <1>1, LevelsInit, Inductive, PTL DEF Spec, LevelsSpec, Levels!Spec

=============================================================================
