----------------------------- MODULE AcmService -----------------------------
(***************************************************************************)
(* The Audio Control Module (ACM) service of the AE-9: the delayed work    *)
(* ae9_acm_work_fn, the control paths that leave it flags (mixer puts, the *)
(* headphone-jack work, codec resume), system suspend, and the module at   *)
(* the end of the UART with its light, headphone amplifier and display.    *)
(*                                                                         *)
(* The work function sleeps in every frame exchange, so each exchange is a *)
(* step of its own and the other contexts run in between; no lock is held  *)
(* between them.  A frame sent to a silent module is lost, and the code    *)
(* ignores the acknowledgement (ae9_acm_cmd).  Time is abstract: a work    *)
(* that is queued runs at some later moment (the 50 ms "turbo" rate only   *)
(* changes how soon).                                                      *)
(***************************************************************************)
EXTENDS Integers, FiniteSets

CONSTANTS
  Levels,      \* texts of the dB display, one per Master level in use
  Ops,         \* the mixer operations a user may perform: SUBSET AllOps
  MaxPuts,     \* bound: mixer puts, jack events and module key presses
  MaxFaults,   \* bound: outages and spontaneous changes of the module
  MaxSuspends, \* bound: suspend/resume cycles
  Period,      \* 10 in the code: ticks between two checks or two probes
  DeadLimit,   \* 6 in the code: unanswered keepalives until a new probe
  ModeTicks    \* 10 in the code: ticks "-HP-"/"-SP-" stays on the display

AllOps == {"fx", "output", "level", "mute", "poll"}

ASSUME BoundsAssumption ==
  /\ MaxPuts \in Nat /\ MaxFaults \in Nat /\ MaxSuspends \in Nat
  /\ Period \in Nat \ {0} /\ DeadLimit \in Nat \ {0} /\ ModeTicks \in Nat \ {0}

ASSUME OpsAssumption == Ops \subseteq AllOps

FixedTexts == {"blank", "AE-9", "-HP-", "-SP-", "MUTE"}
ASSUME LevelsAssumption == Levels # {} /\ Levels \cap FixedTexts = {}

VARIABLES
  effects_switch,  \* effects_switch[PLAY_ENHANCEMENT]: the SBX master switch
  cur_out_type,    \* "HP" or "SP"
  level, muted,    \* Master Playback Volume and (negated) Switch
  ae9_acm_poll,    \* the module parameter, writable at run time
  present, tick, dead_ticks,
  pending_mode, pending_fx, disp_dirty, show_mode_ticks,
  work,            \* where the ACM work stands
  want,            \* the local variable hp of ae9_acm_check_regs
  caller,          \* where the other two contexts stand
  acm,             \* the module: does it answer, and what it shows
  lost,            \* history: what the module missed since it was last told
  silent,          \* history: unanswered probes in a row, capped at DeadLimit
  puts, faults, suspends

driver == <<effects_switch, cur_out_type, level, muted, ae9_acm_poll>>
flags  == <<pending_mode, pending_fx, disp_dirty, show_mode_ticks>>
link   == <<present, tick, dead_ticks, silent>>
budget == <<puts, faults, suspends>>
vars   == <<driver, flags, link, work, want, caller, acm, lost, budget>>

Outputs  == {"HP", "SP"}
Texts    == FixedTexts \cup Levels
Shown    == {"light", "amp", "text"}
\* "ctl" is process context (a mixer put, or the codec resume, which cannot
\* overlap because tasks are frozen across a suspend); "jack" is the work
\* ca0132_unsol_hp_delayed.
Callers  == {"ctl", "jack"}
CallerAt == {"idle", "flagFx", "select", "flagMode", "flagDirty"}
InitAt   == {"initProbe", "initLight", "initText", "initAmp", "initMode"}
TickAt   == {"mode", "setAmp", "setMode", "check", "checkReply", "fixAmp", "knob",
             "buttons", "press", "fx", "setLight", "disp"}
WorkAt   == {"queued", "keepalive", "showVol", "parkVol", "parked", "suspended"}
              \cup InitAt \cup TickAt

ModeText == IF cur_out_type = "HP" THEN "-HP-" ELSE "-SP-"
VolumeText == IF muted THEN "MUTE" ELSE level

MixerOK ==
  /\ effects_switch \in BOOLEAN /\ cur_out_type \in Outputs
  /\ level \in Levels /\ muted \in BOOLEAN /\ ae9_acm_poll \in BOOLEAN
FlagsOK ==
  /\ pending_mode \in BOOLEAN /\ pending_fx \in BOOLEAN /\ disp_dirty \in BOOLEAN
CountsOK ==
  /\ tick \in 0..(Period - 1) /\ dead_ticks \in 0..(DeadLimit - 1)
  /\ show_mode_ticks \in 0..ModeTicks /\ silent \in 0..DeadLimit
  /\ puts \in 0..MaxPuts /\ faults \in 0..MaxFaults /\ suspends \in 0..MaxSuspends
PlacesOK ==
  /\ present \in BOOLEAN /\ want \in BOOLEAN
  /\ work \in WorkAt /\ caller \in [Callers -> CallerAt]
ModuleOK ==
  /\ acm \in [alive : BOOLEAN, light : BOOLEAN, amp : BOOLEAN, text : Texts]
  /\ lost \in SUBSET Shown

TypeOK == MixerOK /\ FlagsOK /\ CountsOK /\ PlacesOK /\ ModuleOK

\* Probe done, ae9_setup_defaults has queued the work; nothing was sent yet.
Init ==
  /\ effects_switch = FALSE /\ cur_out_type \in Outputs
  /\ level \in Levels /\ muted = FALSE /\ ae9_acm_poll = TRUE
  /\ present = FALSE /\ tick = 0 /\ dead_ticks = 0
  /\ pending_mode = FALSE /\ pending_fx = FALSE /\ disp_dirty = FALSE
  /\ show_mode_ticks = 0
  /\ work = "queued" /\ want = FALSE
  /\ caller = [c \in Callers |-> "idle"]
  /\ acm \in [alive : BOOLEAN, light : {FALSE}, amp : {FALSE}, text : {"blank"}]
  /\ lost = Shown /\ silent = 0
  /\ puts = 0 /\ faults = 0 /\ suspends = 0

-----------------------------------------------------------------------------
(* Frames.  A silent module drops the frame; a reset one forgets everything. *)

Send(field, value) ==
  IF acm.alive
  THEN acm' = [acm EXCEPT ![field] = value] /\ lost' = lost \ {field}
  ELSE acm' = acm /\ lost' = lost \cup {field}

PoweredUp == [alive |-> TRUE, light |-> FALSE, amp |-> FALSE, text |-> "blank"]

\* A probe frame and its answer, as the history variable counts them.
Probed(answered) ==
  silent' = CASE answered -> 0
              [] ~answered /\ silent < DeadLimit -> silent + 1
              [] OTHER -> silent

Goto(at) == work' = at

-----------------------------------------------------------------------------
(* The work: ae9_acm_work_fn, one step per exchange.                       *)

\* Mutant of WorkAbsent: the tick counter stands still while no module is there.
WorkAbsent_NoTick ==
  /\ work = "queued" /\ ~present
  /\ Goto(IF tick = 0 THEN "initProbe" ELSE "queued")
  /\ UNCHANGED <<driver, flags, link, want, caller, acm, lost, budget>>

\* No module yet: probe for it on every tenth tick.
WorkAbsent ==
  /\ work = "queued" /\ ~present
  /\ Goto(IF tick = 0 THEN "initProbe" ELSE "queued")
  /\ tick' = (tick + 1) % Period
  /\ UNCHANGED <<driver, flags, present, dead_ticks, silent, want, caller, acm, lost, budget>>

\* Polling was switched off at run time: return without queueing again.
WorkPark ==
  /\ work = "queued" /\ present /\ ~ae9_acm_poll
  /\ Goto("parked")
  /\ UNCHANGED <<driver, flags, link, want, caller, acm, lost, budget>>

WorkTick ==
  /\ work = "queued" /\ present /\ ae9_acm_poll
  /\ Goto("keepalive")
  /\ tick' = (tick + 1) % Period
  /\ UNCHANGED <<driver, flags, present, dead_ticks, silent, want, caller, acm, lost, budget>>

\* Mutant of Keepalive: an answered probe does not restart the count.
Keepalive_NoReset ==
  /\ work = "keepalive"
  /\ Probed(acm.alive)
  /\ \/ acm.alive /\ Goto("mode") /\ UNCHANGED <<dead_ticks, present>>
     \/ ~acm.alive /\ dead_ticks + 1 < DeadLimit
        /\ dead_ticks' = dead_ticks + 1 /\ Goto("mode") /\ UNCHANGED present
     \/ ~acm.alive /\ dead_ticks + 1 >= DeadLimit
        /\ dead_ticks' = 0 /\ present' = FALSE /\ Goto("queued")
  /\ UNCHANGED <<driver, flags, tick, want, caller, acm, lost, budget>>

\* Mutant of Keepalive: the module is given up one miss too late.
Keepalive_OffByOne ==
  /\ work = "keepalive"
  /\ Probed(acm.alive)
  /\ IF acm.alive \/ dead_ticks + 1 <= DeadLimit
     THEN dead_ticks' = (IF acm.alive THEN 0 ELSE dead_ticks + 1)
          /\ Goto("mode") /\ UNCHANGED present
     ELSE dead_ticks' = 0 /\ present' = FALSE /\ Goto("queued")
  /\ UNCHANGED <<driver, flags, tick, want, caller, acm, lost, budget>>

Keepalive ==
  /\ work = "keepalive"
  /\ Probed(acm.alive)
  /\ \/ acm.alive /\ dead_ticks' = 0 /\ Goto("mode") /\ UNCHANGED present
     \/ ~acm.alive /\ dead_ticks + 1 < DeadLimit
        /\ dead_ticks' = dead_ticks + 1 /\ Goto("mode") /\ UNCHANGED present
     \/ ~acm.alive /\ dead_ticks + 1 >= DeadLimit
        /\ dead_ticks' = 0 /\ present' = FALSE /\ Goto("queued")
  /\ UNCHANGED <<driver, flags, tick, want, caller, acm, lost, budget>>

\* The flag is cleared before the frames are built from cur_out_type.
ServeMode ==
  /\ work = "mode"
  /\ pending_mode' = FALSE
  /\ Goto(CASE pending_mode -> "setAmp"
            [] ~pending_mode /\ tick = 0 -> "check"
            [] OTHER -> "knob")
  /\ UNCHANGED <<driver, pending_fx, disp_dirty, show_mode_ticks, link, want, caller,
                 acm, lost, budget>>

\* ae9_acm_apply_regs, from apply_mode (a tick or the first contact) or check_regs
ApplyRegs ==
  /\ work \in {"setAmp", "initAmp", "fixAmp"}
  /\ Send("amp", cur_out_type = "HP")
  /\ Goto(CASE work = "setAmp" -> "setMode" [] work = "initAmp" -> "initMode"
            [] OTHER -> "knob")
  /\ UNCHANGED <<driver, flags, link, want, caller, budget>>

\* The rest of ae9_acm_apply_mode
ApplyMode ==
  /\ work = "setMode"
  /\ Send("text", ModeText)
  /\ show_mode_ticks' = ModeTicks
  /\ Goto("knob")
  /\ UNCHANGED <<driver, pending_mode, pending_fx, disp_dirty, link, want, caller, budget>>

\* hp is read before the two register reads, which take a while
CheckRegs ==
  /\ work = "check"
  /\ want' = (cur_out_type = "HP")
  /\ Goto("checkReply")
  /\ UNCHANGED <<driver, flags, link, caller, acm, lost, budget>>

\* Mutant of CheckReply: a wrong bit is only logged.
CheckReply_LogOnly ==
  /\ work = "checkReply"
  /\ want' = FALSE
  /\ Goto("knob")
  /\ UNCHANGED <<driver, flags, link, caller, acm, lost, budget>>

CheckReply ==
  /\ work = "checkReply"
  /\ want' = FALSE
  /\ Goto(IF acm.alive /\ acm.amp # want THEN "fixAmp" ELSE "knob")
  /\ UNCHANGED <<driver, flags, link, caller, acm, lost, budget>>

\* ae9_acm_knob: no event, or a new Master level put through the mixer
Knob ==
  /\ work = "knob" /\ Goto("buttons")
  /\ \/ UNCHANGED <<level, disp_dirty, puts>>
     \/ /\ acm.alive /\ puts < MaxPuts /\ puts' = puts + 1
        /\ level' \in Levels /\ disp_dirty' = TRUE
  /\ UNCHANGED <<effects_switch, cur_out_type, muted, ae9_acm_poll, pending_mode,
                 pending_fx, show_mode_ticks, link, want, caller, acm, lost, faults, suspends>>

\* ae9_acm_service_buttons: a short press toggles the effects; pe_switch_set
\* reaches ca0132_alt_select_out, which selects an output again
ServiceButtons ==
  /\ work = "buttons" /\ Goto("press")
  /\ \/ UNCHANGED <<effects_switch, cur_out_type, pending_fx, pending_mode, puts>>
     \/ /\ acm.alive /\ puts < MaxPuts /\ puts' = puts + 1
        /\ effects_switch' = ~effects_switch
        /\ cur_out_type' \in Outputs
        /\ pending_mode' = TRUE /\ pending_fx' = TRUE
  /\ UNCHANGED <<level, muted, ae9_acm_poll, disp_dirty, show_mode_ticks, link, want,
                 caller, acm, lost, faults, suspends>>

\* ae9_acm_service_knob_press: short = mute toggle, 1.5-3 s = output toggle
KnobPress ==
  /\ work = "press" /\ Goto("fx")
  /\ \/ UNCHANGED <<muted, disp_dirty, cur_out_type, pending_mode, puts>>
     \/ /\ acm.alive /\ puts < MaxPuts /\ puts' = puts + 1
        /\ \/ /\ muted' = ~muted /\ disp_dirty' = TRUE
              /\ UNCHANGED <<cur_out_type, pending_mode>>
           \/ /\ cur_out_type' \in Outputs /\ pending_mode' = TRUE
              /\ UNCHANGED <<muted, disp_dirty>>
  /\ UNCHANGED <<effects_switch, level, ae9_acm_poll, pending_fx, show_mode_ticks, link,
                 want, caller, acm, lost, faults, suspends>>

ServeFx ==
  /\ work = "fx"
  /\ pending_fx' = FALSE
  /\ Goto(IF pending_fx THEN "setLight" ELSE "disp")
  /\ UNCHANGED <<driver, pending_mode, disp_dirty, show_mode_ticks, link, want, caller,
                 acm, lost, budget>>

\* ae9_acm_set_fx_light, from a tick or from the first contact
SetFxLight ==
  /\ work \in {"setLight", "initLight"}
  /\ Send("light", effects_switch)
  /\ Goto(IF work = "setLight" THEN "disp" ELSE "initText")
  /\ UNCHANGED <<driver, flags, link, want, caller, budget>>

\* Mutant of ServeDisplay: the light's flag is cleared at the end of the tick.
ServeDisplay_ClearsFx ==
  /\ work = "disp"
  /\ \/ /\ show_mode_ticks > 0
        /\ show_mode_ticks' = show_mode_ticks - 1
        /\ disp_dirty' = (disp_dirty \/ show_mode_ticks = 1)
        /\ Goto("queued")
     \/ /\ show_mode_ticks = 0
        /\ disp_dirty' = FALSE
        /\ Goto(IF disp_dirty THEN "showVol" ELSE "queued")
        /\ UNCHANGED show_mode_ticks
  /\ pending_fx' = FALSE
  /\ UNCHANGED <<driver, pending_mode, link, want, caller, acm, lost, budget>>

\* Mutant of ServeDisplay: the volume is not asked for when the mode text ends.
ServeDisplay_NoRevert ==
  /\ work = "disp"
  /\ \/ /\ show_mode_ticks > 0
        /\ show_mode_ticks' = show_mode_ticks - 1
        /\ UNCHANGED disp_dirty
        /\ Goto("queued")
     \/ /\ show_mode_ticks = 0
        /\ disp_dirty' = FALSE
        /\ Goto(IF disp_dirty THEN "showVol" ELSE "queued")
        /\ UNCHANGED show_mode_ticks
  /\ UNCHANGED <<driver, pending_mode, pending_fx, link, want, caller, acm, lost, budget>>

\* The end of the tick: the mode text ages, or the volume is shown again
ServeDisplay ==
  /\ work = "disp"
  /\ \/ /\ show_mode_ticks > 0
        /\ show_mode_ticks' = show_mode_ticks - 1
        /\ disp_dirty' = (disp_dirty \/ show_mode_ticks = 1)
        /\ Goto("queued")
     \/ /\ show_mode_ticks = 0
        /\ disp_dirty' = FALSE
        /\ Goto(IF disp_dirty THEN "showVol" ELSE "queued")
        /\ UNCHANGED show_mode_ticks
  /\ UNCHANGED <<driver, pending_mode, pending_fx, link, want, caller, acm, lost, budget>>

\* ae9_acm_show_volume, at the end of a tick or before the work parks
ShowVolume ==
  /\ work \in {"showVol", "parkVol"}
  /\ Send("text", VolumeText)
  /\ Goto(IF work = "showVol" THEN "queued" ELSE "parked")
  /\ UNCHANGED <<driver, flags, link, want, caller, budget>>

\* ae9_acm_init: up to three probes; the later ones power-cycle the module
\* first, which may revive it and makes it forget what it was told.
InitProbe ==
  /\ work = "initProbe"
  /\ \/ acm.alive /\ Goto("initLight") /\ Probed(TRUE) /\ UNCHANGED <<acm, lost>>
     \/ ~acm.alive /\ Goto("initLight") /\ Probed(TRUE) /\ acm' = PoweredUp /\ lost' = Shown
     \/ ~acm.alive /\ Goto("queued") /\ Probed(FALSE) /\ UNCHANGED <<acm, lost>>
  /\ UNCHANGED <<driver, flags, present, tick, dead_ticks, want, caller, budget>>

InitText ==
  /\ work = "initText"
  /\ Send("text", "AE-9")
  /\ Goto("initAmp")
  /\ UNCHANGED <<driver, flags, link, want, caller, budget>>

\* The end of ae9_acm_init and of the tick that called it
InitMode ==
  /\ work = "initMode"
  /\ Send("text", ModeText)
  /\ show_mode_ticks' = ModeTicks
  /\ present' = TRUE
  /\ Goto(IF ae9_acm_poll THEN "queued" ELSE "parkVol")
  /\ UNCHANGED <<driver, pending_mode, pending_fx, disp_dirty, tick, dead_ticks, silent,
                 want, caller, budget>>

Work ==
  \/ WorkAbsent \/ WorkPark \/ WorkTick \/ Keepalive \/ ServeMode \/ ApplyRegs
  \/ ApplyMode \/ CheckRegs \/ CheckReply \/ Knob \/ ServiceButtons \/ KnobPress
  \/ ServeFx \/ SetFxLight \/ ServeDisplay \/ ShowVolume \/ InitProbe \/ InitText \/ InitMode

-----------------------------------------------------------------------------
(* The other contexts.  Each stores its value first and the flag after it. *)

CallerGoto(c, at) == caller' = [caller EXCEPT ![c] = at]

StartPut(op) ==
  /\ op \in Ops /\ caller["ctl"] = "idle" /\ work # "suspended"
  /\ puts < MaxPuts /\ puts' = puts + 1

\* ca0132_switch_put on PLAY_ENHANCEMENT
PutFx ==
  /\ StartPut("fx")
  /\ effects_switch' \in BOOLEAN
  /\ CallerGoto("ctl", "flagFx")
  /\ UNCHANGED <<cur_out_type, level, muted, ae9_acm_poll, flags, link, work, want,
                 acm, lost, faults, suspends>>

\* "AE-9 Output", the auto-detect switch: both end in ca0132_alt_select_out
PutOutput ==
  /\ StartPut("output")
  /\ CallerGoto("ctl", "select")
  /\ UNCHANGED <<driver, flags, link, work, want, acm, lost, faults, suspends>>

\* Master Playback Volume: the level is stored, then ae9_master_apply flags it
PutLevel ==
  /\ StartPut("level")
  /\ level' \in Levels
  /\ CallerGoto("ctl", "flagDirty")
  /\ UNCHANGED <<effects_switch, cur_out_type, muted, ae9_acm_poll, flags, link, work,
                 want, acm, lost, faults, suspends>>

\* Master Playback Switch: ca0132_switch_put on a vnode leaves no flag
PutMute ==
  /\ StartPut("mute")
  /\ muted' = ~muted
  /\ UNCHANGED <<effects_switch, cur_out_type, level, ae9_acm_poll, flags, link, work,
                 want, caller, acm, lost, faults, suspends>>

SetPoll ==
  /\ StartPut("poll")
  /\ ae9_acm_poll' = ~ae9_acm_poll
  /\ UNCHANGED <<effects_switch, cur_out_type, level, muted, flags, link, work, want,
                 caller, acm, lost, faults, suspends>>

\* Mutant of FlagFx: the put does not ask for a refresh of the light.
FlagFx_Forgets ==
  /\ caller["ctl"] = "flagFx"
  /\ CallerGoto("ctl", "select")
  /\ UNCHANGED <<driver, flags, link, work, want, acm, lost, budget>>

FlagFx ==
  /\ caller["ctl"] = "flagFx"
  /\ pending_fx' = TRUE
  /\ CallerGoto("ctl", "select")
  /\ UNCHANGED <<driver, pending_mode, disp_dirty, show_mode_ticks, link, work, want,
                 acm, lost, budget>>

\* Mutant of FlagDirty: the put does not ask for a refresh of the display.
FlagDirty_Forgets ==
  /\ caller["ctl"] = "flagDirty"
  /\ CallerGoto("ctl", "idle")
  /\ UNCHANGED <<driver, flags, link, work, want, acm, lost, budget>>

FlagDirty ==
  /\ caller["ctl"] = "flagDirty"
  /\ disp_dirty' = TRUE
  /\ CallerGoto("ctl", "idle")
  /\ UNCHANGED <<driver, pending_mode, pending_fx, show_mode_ticks, link, work, want,
                 acm, lost, budget>>

\* ca0132_alt_select_out: which output wins is OutputSelect's subject
SelectOut(c) ==
  /\ caller[c] = "select"
  /\ cur_out_type' \in Outputs
  /\ CallerGoto(c, "flagMode")
  /\ UNCHANGED <<effects_switch, level, muted, ae9_acm_poll, flags, link, work, want,
                 acm, lost, budget>>

FlagMode(c) ==
  /\ caller[c] = "flagMode"
  /\ pending_mode' = TRUE
  /\ CallerGoto(c, "idle")
  /\ UNCHANGED <<driver, pending_fx, disp_dirty, show_mode_ticks, link, work, want,
                 acm, lost, budget>>

\* A jack event has made ca0132_unsol_hp_delayed run
JackEvent ==
  /\ "output" \in Ops /\ caller["jack"] = "idle" /\ work # "suspended"
  /\ puts < MaxPuts /\ puts' = puts + 1
  /\ CallerGoto("jack", "select")
  /\ UNCHANGED <<driver, flags, link, work, want, acm, lost, faults, suspends>>

CallerStep(c) ==
  \/ SelectOut(c)
  \/ FlagMode(c)
  \/ c = "ctl" /\ (FlagFx \/ FlagDirty)

User == PutFx \/ PutOutput \/ PutLevel \/ PutMute \/ SetPoll \/ JackEvent

-----------------------------------------------------------------------------
(* Suspend and resume.  cancel_delayed_work_sync waits for a running work  *)
(* and takes a queued one off the queue; tasks are frozen.                 *)

\* Mutant of Suspend: the work is stopped wherever it stands.
Suspend_NoSync ==
  /\ suspends < MaxSuspends /\ suspends' = suspends + 1
  /\ work # "suspended"
  /\ \A c \in Callers : caller[c] = "idle"
  /\ present' = FALSE
  /\ Goto("suspended")
  /\ UNCHANGED <<driver, flags, tick, dead_ticks, silent, want, caller, acm, lost, puts, faults>>

Suspend ==
  /\ suspends < MaxSuspends /\ suspends' = suspends + 1
  /\ work \in {"queued", "parked"}
  /\ \A c \in Callers : caller[c] = "idle"
  /\ present' = FALSE
  /\ Goto("suspended")
  /\ UNCHANGED <<driver, flags, tick, dead_ticks, silent, want, caller, acm, lost, puts, faults>>

\* ca0132_init queues the work again.  If the DSP is still loaded that is all;
\* otherwise the bring-up goes on to select an output, and ae9_setup_defaults
\* leaves the work off the queue when the firmware download has failed.
Resume ==
  /\ work = "suspended"
  /\ \/ Goto("queued") /\ UNCHANGED caller
     \/ work' \in {"queued", "parked"} /\ CallerGoto("ctl", "select")
  /\ UNCHANGED <<driver, flags, link, want, acm, lost, budget>>

-----------------------------------------------------------------------------
(* The module itself (external).                                           *)

Fault == faults < MaxFaults /\ faults' = faults + 1

ModuleFails ==
  /\ Fault /\ acm.alive
  /\ acm' = [acm EXCEPT !.alive = FALSE]
  /\ UNCHANGED <<driver, flags, link, work, want, caller, lost, puts, suspends>>

\* The module answers again, with its state kept or after a reset
ModuleReturns ==
  /\ ~acm.alive
  /\ \/ acm' = [acm EXCEPT !.alive = TRUE] /\ UNCHANGED lost
     \/ acm' = PoweredUp /\ lost' = Shown
  /\ UNCHANGED <<driver, flags, link, work, want, caller, budget>>

\* "the module changed them on its own" (comment on ae9_acm_check_regs)
ModuleFlipsAmp ==
  /\ Fault /\ acm.alive
  /\ acm' = [acm EXCEPT !.amp = ~acm.amp] /\ lost' = lost \cup {"amp"}
  /\ UNCHANGED <<driver, flags, link, work, want, caller, puts, suspends>>

Module == ModuleFails \/ ModuleReturns \/ ModuleFlipsAmp

Next ==
  \/ Work
  \/ User
  \/ \E c \in Callers : CallerStep(c)
  \/ Suspend
  \/ Resume
  \/ Module

\* The workqueue runs what is queued, a call that has begun goes on.  Nothing
\* is assumed of the user, of suspend and resume, or of the module.
Fairness == WF_vars(Work) /\ \A c \in Callers : WF_vars(CallerStep(c))

Spec == Init /\ [][Next]_vars /\ Fairness

-----------------------------------------------------------------------------
(* Properties.                                                             *)

\* The SBX light shows the effects state, or a refresh of it is under way or
\* flagged, unless the module missed the frame: no interleaving of
\* ca0132_switch_put, ae9_acm_service_buttons and the tick that clears
\* pending_fx and then reads effects_switch leaves it wrong with nobody told.
LightTracked ==
  "light" \in lost \/ acm.light = effects_switch \/ pending_fx
    \/ caller["ctl"] = "flagFx" \/ work = "setLight"

\* The headphone-amplifier bit follows cur_out_type in the same sense, across
\* ca0132_alt_select_out in three contexts, apply_mode and check_regs.
AmpTracked ==
  "amp" \in lost \/ acm.amp = (cur_out_type = "HP") \/ pending_mode
    \/ (\E c \in Callers : caller[c] = "flagMode") \/ work = "setAmp"

\* The display shows the Master level (or MUTE), or the mode text is still to
\* expire, or a refresh is flagged: no level change is forgotten while
\* "-HP-"/"-SP-" is on the display or a refresh is being sent.
TextTracked ==
  "text" \in lost \/ acm.text = VolumeText \/ disp_dirty \/ show_mode_ticks > 0
    \/ caller["ctl"] = "flagDirty" \/ work \in {"showVol", "initAmp", "initMode"}

\* A module taken for present is given up only by a suspend or after DeadLimit
\* probes in a row went unanswered ("consecutive keepalive probes unanswered").
GivenUpOnlyWhenSilent ==
  [][present /\ ~present' => work' = "suspended" \/ silent' = DeadLimit]_vars

\* The service keeps running from some time on, with a module that answers.
Serviced == acm.alive /\ work \notin {"parked", "suspended"}

\* Whatever frames were lost and whatever the module did on its own: once the
\* module answers for good, the amplifier bit settles on the selected output,
\* because every tenth tick reads it back (ae9_acm_check_regs).
AmpSettles == <>[]Serviced => <>[](acm.amp = (cur_out_type = "HP"))

\* The module is found (again) once it answers for good, after any number of
\* outages, failed probes and suspends.
ModuleFound == <>[]Serviced => <>[]present

\* The light settles on the effects state (README, "SBX button": the button
\* light shows the real effects state).
LightSettles == <>[]Serviced => <>[](acm.light = effects_switch)

\* The display settles on the level, or on MUTE while muted (README, "Volume
\* knob": the display shows the level, MUTE while muted).
TextSettles == <>[]Serviced => <>[](acm.text = VolumeText)
=============================================================================
