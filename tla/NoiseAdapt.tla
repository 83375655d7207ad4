----------------------------- MODULE NoiseAdapt -----------------------------
(***************************************************************************)
(* Noise Adapt in the tray: an adaptation listens to both thermal modes    *)
(* under load and selects one, a calibration measures the fans alone; each *)
(* runs on a thread of its own, writes the mode through the pipe, shares   *)
(* the calibration file and ends with a message to the window.             *)
(***************************************************************************)
EXTENDS CalTable

CONSTANTS
  Modes,        \* the thermal modes, numbers; the code's are 0..3
  DeviceLists,  \* what the system may list: sequences of [id, traits]
  Measures,     \* what the microphone may hear: [ambient, delta, ramp, shift]
  OldFiles,     \* what earlier sessions may have left
  MaxRuns       \* measurements started

(* What the code's own measurements and files are like: a file that an     *)
(* earlier session left was saved as this one saves its own.               *)
ASSUME ModesAssumption == Modes \subseteq Int
ASSUME MeasuresAssumption ==
  Measures # {} /\ Measures \subseteq [ambient : Int, delta : Int, ramp : BOOLEAN, shift : Int]
ASSUME FilesAssumption == \A f \in OldFiles :
  DOMAIN f = {"mic", "fans", "age", "points"} /\ f.points \in Tables

VARIABLES
  mode, coolsense,          \* of the machine
  adapting, calibrating,    \* NOISE_ADAPT_RUNNING, CALIBRATING
  file,                     \* smart-cal.bin
  adapter, calibrator,      \* the two threads
  adapted, calibrated,      \* their messages, not yet handled
  stress,                   \* whose load threads are running
  overridden,               \* since the adaptation began, the user set the mode or
                            \* Smart Sense, or a write that counts was lost
  runs
machineVars == <<mode, coolsense, overridden>>
noiseVars == <<machineVars, adapting, calibrating, file, adapter, calibrator,
               adapted, calibrated, stress, runs>>

NoFile == [mic |-> "none", fans |-> "none", age |-> "never", points |-> <<>>]
Heard == UNION {{l[i].id : i \in UNION {Selected(l, peak) : peak \in [DOMAIN l -> 0..1]}} :
                l \in DeviceLists}
Unset == [pc |-> "idle", current |-> 0, mic |-> "none",
          chosen |-> 0, heard |-> CHOOSE m \in Measures : TRUE, cal |-> NoFile]
NoNote == [kind |-> "none", chosen |-> 0]

NoiseInit ==
  /\ mode = 1 /\ coolsense \in 0..1 /\ overridden = FALSE
  /\ adapting = FALSE /\ calibrating = FALSE
  /\ file \in OldFiles \cup {NoFile}
  /\ adapter = Unset /\ calibrator = Unset
  /\ adapted = NoNote /\ calibrated = NoNote
  /\ stress = {} /\ runs = 0

(* A write through the pipe whose answer nobody looks at: to listen to a   *)
(* mode, and to select it in the end.                                      *)
TestMode(value) == mode' \in {value, mode} /\ UNCHANGED <<coolsense, overridden>>
SetMode(value) == /\ UNCHANGED coolsense
                  /\ \/ mode' = value /\ UNCHANGED overridden
                     \/ overridden' = TRUE /\ UNCHANGED mode

-----------------------------------------------------------------------------
(* The window's thread. *)
Free == ~adapting /\ ~calibrating

(* run_smart_measure_thread; a status that is not OK is read as mode 0, no *)
(* answer at all as mode 1.                                                *)
Begin(off) ==
  /\ runs < MaxRuns /\ runs' = runs + 1 /\ adapting' = TRUE
  /\ \/ coolsense' = off /\ overridden' = FALSE
     \/ overridden' = TRUE /\ UNCHANGED coolsense
  /\ \E current \in {mode, 0, 1} :
       adapter' = [Unset EXCEPT !.pc = "begin", !.current = current]
  /\ UNCHANGED <<mode, calibrating, file, calibrator, adapted, calibrated, stress>>
(* Changed form: Smart Sense is left on. *)
StartAdaptAuto == Free /\ Begin(coolsense)
StartAdapt == Free /\ Begin(0)

StartCalibrate ==
  /\ Free /\ runs < MaxRuns /\ runs' = runs + 1 /\ calibrating' = TRUE
  /\ calibrator' = [Unset EXCEPT !.pc = "begin"]
  /\ UNCHANGED <<machineVars, adapting, file, adapter, adapted, calibrated, stress>>

ClearCal == /\ file' = NoFile
            /\ UNCHANGED <<machineVars, adapting, calibrating, adapter, calibrator,
                           adapted, calibrated, stress, runs>>
SelectMode ==
  /\ mode' \in Modes /\ coolsense' \in {0, coolsense} /\ overridden' = adapting
  /\ UNCHANGED <<adapting, calibrating, file, adapter, calibrator, adapted, calibrated, stress, runs>>
ToggleSmartSense ==
  /\ coolsense' \in 0..1 /\ overridden' = adapting
  /\ UNCHANGED <<mode, adapting, calibrating, file, adapter, calibrator, adapted, calibrated, stress, runs>>

(* What the balloon names: any mode but 0 is "Balanced".  A measurement     *)
(* that failed posts the mode it began with, and is announced in the same  *)
(* words.                                                                  *)
Balloon == IF adapted.chosen = Performance THEN Performance ELSE Balanced
AdaptDone ==
  /\ adapted # NoNote /\ adapted' = NoNote /\ adapting' = FALSE /\ overridden' = FALSE
  /\ UNCHANGED <<mode, coolsense, calibrating, file, adapter, calibrator, calibrated, stress, runs>>
CalibrateDone ==
  /\ calibrated # NoNote /\ calibrated' = NoNote /\ calibrating' = FALSE
  /\ UNCHANGED <<machineVars, adapting, file, adapter, calibrator, adapted, stress, runs>>

(* ID_EXIT: the threads end where they are, a save half way; the tray that *)
(* is started next has no flags.                                           *)
Quit ==
  /\ ~Free
  /\ file' \in {file} \cup (IF "save" \in {adapter.pc, calibrator.pc} THEN {NoFile} ELSE {})
  /\ adapting' = FALSE /\ calibrating' = FALSE
  /\ adapter' = Unset /\ calibrator' = Unset
  /\ adapted' = NoNote /\ calibrated' = NoNote /\ stress' = {} /\ overridden' = FALSE
  /\ UNCHANGED <<mode, coolsense, runs>>

-----------------------------------------------------------------------------
(* The adapting thread. *)
Adapt == UNCHANGED <<adapting, calibrating, calibrator, calibrated, runs>>
AdaptTo(pc) == adapter' = [adapter EXCEPT !.pc = pc]
FailAdapt == /\ adapted' = [kind |-> "failed", chosen |-> adapter.current]
             /\ adapter' = Unset

(* measure_inner: the microphone, for all that follows, and the file.  The *)
(* table is asked if it is of this microphone, young enough and knows the  *)
(* fans.                                                                   *)
Usable(cal, mic) == cal.mic = mic /\ cal.age = "fresh" /\ cal.fans # "none"
Select ==
  /\ adapter.pc = "begin"
  /\ \/ /\ \E mic \in Heard :
            adapter' = IF Usable(file, mic)
                       THEN [adapter EXCEPT !.pc = "listen", !.mic = mic, !.cal = file]
                       ELSE [adapter EXCEPT !.pc = "open", !.mic = mic]
        /\ UNCHANGED adapted
     \/ FailAdapt
  /\ Adapt /\ UNCHANGED <<machineVars, file, stress>>

(* Unprocessed sound if the driver gives it, else processed; any call of   *)
(* the system may be refused.                                              *)
Calls == {"activate", "format", "initialize", "service", "start"}
Formats == {"float", "pcm", "extensible", "other"}
Opens(format, refused) == format # "other" /\ refused = {}
Attempts == {Opens(format, refused) : format \in Formats, refused \in SUBSET Calls}

(* A short capture; without one the long test decides.                     *)
SlowWay == adapter' = [adapter EXCEPT !.pc = "open", !.cal = NoFile, !.heard = Unset.heard]
FastCapture ==
  /\ adapter.pc = "listen"
  /\ \E opened \in Attempts :
       \/ opened /\ \E m \in Measures :
                      adapter' = [adapter EXCEPT !.pc = "judge", !.heard = m]
       \/ SlowWay
  /\ Adapt /\ UNCHANGED <<machineVars, file, adapted, stress>>

(* The table that was read answers, if it is sure.                         *)
FastPath ==
  /\ adapter.pc = "judge"
  /\ LET choice == FastChoice(adapter.cal.points, adapter.heard.ambient) IN
     \/ choice = {} /\ SlowWay
     \/ \E c \in choice : adapter' = [adapter EXCEPT !.pc = "apply", !.chosen = c,
                                       !.cal = NoFile, !.heard = Unset.heard]
  /\ Adapt /\ UNCHANGED <<machineVars, file, adapted, stress>>
ApplyFast == /\ adapter.pc = "apply" /\ AdaptTo("post") /\ SetMode(adapter.chosen)
             /\ Adapt /\ UNCHANGED <<file, adapted, stress>>

(* One stream and one load for the whole test of both modes; a stream that *)
(* does not open, or no directory for the recording, ends it.              *)
SlowOpen ==
  /\ adapter.pc = "open"
  /\ \E opened \in Attempts :
       \/ /\ opened /\ AdaptTo("performance")
          /\ stress' = stress \cup {"adapter"} /\ UNCHANGED adapted
       \/ FailAdapt /\ UNCHANGED stress
  /\ Adapt /\ UNCHANGED <<machineVars, file>>

SlowPerformance ==
  /\ adapter.pc = "performance" /\ TestMode(Performance) /\ AdaptTo("settle")
  /\ Adapt /\ UNCHANGED <<file, adapted, stress>>

(* adaptive_settle: settled, or the time is up; a lost device ends it all. *)
SlowBalanced ==
  /\ adapter.pc = "settle" /\ AdaptTo("measure") /\ TestMode(Balanced)
  /\ Adapt /\ UNCHANGED <<file, adapted, stress>>
(* The states in which the stream is polled.                               *)
Polled == {"settle", "measure"}
(* Changed form: the thread returns without its message. *)
LostDeviceSilent ==
  /\ adapter.pc \in Polled /\ adapter' = Unset
  /\ Adapt /\ UNCHANGED <<machineVars, file, stress, adapted>>
LostDevice ==
  /\ adapter.pc \in Polled /\ FailAdapt
  /\ Adapt /\ UNCHANGED <<machineVars, file, stress>>

SlowDecide ==
  /\ adapter.pc = "measure"
  /\ \E m \in Measures :
       LET c == Decide(m.delta, m.ramp, m.shift, adapter.current) IN
       /\ adapter' = [adapter EXCEPT !.pc = "record", !.chosen = c, !.heard = m]
       /\ SetMode(c)
  /\ stress' = stress \ {"adapter"}
  /\ Adapt /\ UNCHANGED <<file, adapted>>

(* The raw powers stand for the fans until a calibration measures them.    *)
OfMic(mic) == IF file.mic = mic THEN file ELSE [NoFile EXCEPT !.mic = mic]
Record ==
  /\ adapter.pc = "record"
  /\ LET cal == OfMic(adapter.mic)
         base == IF cal.fans = "none" /\ cal.age = "never"
                 THEN [cal EXCEPT !.fans = "proxy", !.age = "fresh"] ELSE cal
         point == [ambient |-> adapter.heard.ambient, delta |-> adapter.heard.delta,
                   chosen |-> adapter.chosen]
     IN  adapter' = [adapter EXCEPT !.pc = "save", !.heard = Unset.heard,
                       !.cal = [base EXCEPT !.points = InsertPoint(base.points, point)]]
  /\ Adapt /\ UNCHANGED <<machineVars, file, adapted, stress>>

Save == /\ adapter.pc = "save" /\ adapter' = [adapter EXCEPT !.pc = "post", !.cal = NoFile]
        /\ file' \in {adapter.cal, file, NoFile}
        /\ Adapt /\ UNCHANGED <<machineVars, adapted, stress>>
Post == /\ adapter.pc = "post" /\ adapter' = Unset
        /\ adapted' = [kind |-> "done", chosen |-> adapter.chosen]
        /\ Adapt /\ UNCHANGED <<machineVars, file, stress>>

-----------------------------------------------------------------------------
(* The calibrating thread. *)
Calibrate == UNCHANGED <<adapting, calibrating, adapter, adapted, runs>>
CalibrateTo(pc) == calibrator' = [calibrator EXCEPT !.pc = pc]

CalPerformance ==
  /\ calibrator.pc = "begin" /\ TestMode(Performance)
  /\ \E mic \in Heard : calibrator' = [calibrator EXCEPT !.pc = "settle", !.mic = mic]
  /\ Calibrate /\ UNCHANGED <<file, calibrated, stress>>
Loads == [settle |-> "load", again |-> "reload"]
Unloads == [load |-> "cooldown", reload |-> "falloff"]
CalLoad == /\ calibrator.pc \in DOMAIN Loads /\ CalibrateTo(Loads[calibrator.pc])
           /\ stress' = stress \cup {"calibrator"}
           /\ Calibrate /\ UNCHANGED <<machineVars, file, calibrated>>
CalUnload == /\ calibrator.pc \in DOMAIN Unloads /\ CalibrateTo(Unloads[calibrator.pc])
             /\ stress' = stress \ {"calibrator"}
             /\ Calibrate /\ UNCHANGED <<machineVars, file, calibrated>>
CalBalanced == /\ calibrator.pc = "cooldown" /\ TestMode(Balanced) /\ CalibrateTo("again")
               /\ Calibrate /\ UNCHANGED <<file, calibrated, stress>>
(* A microphone that hears nothing measures no power. *)
CalMeasured ==
  /\ calibrator.pc = "falloff"
  /\ \E fans \in {"stress", "none"} :
       calibrator' = [calibrator EXCEPT !.pc = "save",
                        !.cal = [OfMic(calibrator.mic) EXCEPT !.fans = fans, !.age = "fresh"]]
  /\ Calibrate /\ UNCHANGED <<machineVars, file, calibrated, stress>>
CalSave ==
  /\ calibrator.pc = "save" /\ calibrator' = Unset /\ file' \in {calibrator.cal, file, NoFile}
  /\ calibrated' = [kind |-> "done", chosen |-> 0]
  /\ Calibrate /\ UNCHANGED <<machineVars, stress>>
CalFailed ==
  /\ calibrator.pc \notin {"idle", "save"} /\ calibrator' = Unset
  /\ calibrated' = [kind |-> "failed", chosen |-> 0]
  /\ Calibrate /\ UNCHANGED <<machineVars, file, stress>>

-----------------------------------------------------------------------------
(* spawn_stress_threads: the deadline of threads nobody stops. *)
Expire == /\ stress # {} /\ \E s \in SUBSET stress : s # stress /\ stress' = s
          /\ UNCHANGED <<machineVars, adapting, calibrating, file, adapter, calibrator,
                         adapted, calibrated, runs>>
(* MAX_CAL_AGE passes, never between a load and its save. *)
Age == /\ file.age = "fresh" /\ Free /\ file' = [file EXCEPT !.age = "stale"]
       /\ UNCHANGED <<machineVars, adapting, calibrating, adapter, calibrator,
                      adapted, calibrated, stress, runs>>
(* The firmware selects while Smart Sense is on. *)
SmartSenseSelects ==
  /\ coolsense = 1 /\ mode' \in Modes
  /\ UNCHANGED <<coolsense, overridden, adapting, calibrating, file, adapter, calibrator,
                 adapted, calibrated, stress, runs>>

Adapter == Select \/ FastCapture \/ FastPath \/ ApplyFast \/ SlowOpen \/ SlowPerformance \/ SlowBalanced
           \/ LostDevice \/ SlowDecide \/ Record \/ Save \/ Post
Calibrator == CalPerformance \/ CalLoad \/ CalUnload \/ CalBalanced \/ CalMeasured \/ CalSave \/ CalFailed
Window == StartAdapt \/ StartCalibrate \/ ClearCal \/ SelectMode \/ ToggleSmartSense
          \/ AdaptDone \/ CalibrateDone \/ Quit
NoiseNext == Adapter \/ Calibrator \/ Window \/ Expire \/ Age \/ SmartSenseSelects

(* The threads and the message loop go on; nobody has to choose anything.  *)
NoiseFairness == /\ WF_noiseVars(Adapter) /\ WF_noiseVars(Calibrator)
                 /\ WF_noiseVars(AdaptDone) /\ WF_noiseVars(CalibrateDone)
                 /\ WF_noiseVars(Expire)

-----------------------------------------------------------------------------
(* What a successful adaptation set is the mode of the machine until the   *)
(* balloon has named it, unless the user interfered or the last write was  *)
(* lost: neither Smart Sense nor a calibration changes it behind the       *)
(* balloon.  The balloon only has names for the two modes that were        *)
(* compared: a third one that is kept because the measurement was not sure *)
(* is announced as "Balanced", and all that holds then is that the machine *)
(* was left in it.  Of a failed measurement nothing is claimed.            *)
AnnouncedIsSet ==
  ~overridden =>
    /\ adapter.pc \in {"record", "save", "post"} => mode = adapter.chosen
    /\ adapted.kind = "done" => mode = IF adapted.chosen \in {Performance, Balanced}
                                       THEN Balloon ELSE adapted.chosen

(* The file is edited by whoever saves: the table stays in order; a side   *)
(* loses a point only in a full table and to the first point of a side     *)
(* that had none, loses just that one, and loses its last only where a     *)
(* third side has points, so that Performance and Balanced alone never     *)
(* drive each other out; and an adaptation keeps the fans a calibration    *)
(* measured as a calibration keeps the table.                              *)
Count(points, side) == Cardinality({i \in DOMAIN points : points[i].chosen = side})
SidesKept(old, new) ==
  LET gained == {s \in Modes : Count(new, s) > Count(old, s)}
      robbed == {s \in Modes : Count(new, s) < Count(old, s)}
  IN  robbed # {} => /\ Len(old) = MaxPoints /\ Len(new) = MaxPoints
                     /\ \A s \in gained : Count(old, s) = 0 /\ Count(new, s) = 1
                     /\ \A s \in robbed :
                          /\ Count(new, s) = Count(old, s) - 1
                          /\ Count(new, s) = 0 => \E i \in DOMAIN old : old[i].chosen # s
KeepsCalibration ==
  file' # file /\ NoFile \notin {file, file'} /\ file'.mic = file.mic =>
    /\ Sorted(file'.points) /\ SidesKept(file.points, file'.points)
    /\ adapter.pc = "save" /\ file.fans = "stress" => file'.fans = "stress"
    /\ calibrator.pc = "save" => file'.points = file.points
CalibrationKept == [][KeepsCalibration]_file

(* However a measurement ends, with a lost device in the middle of it too, *)
(* its flag is given back and the processors are left in peace.            *)
MeasurementEnds == ~Free \/ stress # {} ~> Free /\ stress = {}
=============================================================================
