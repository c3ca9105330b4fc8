----------------------------- MODULE OutputSelect -----------------------------
(***************************************************************************)
(* Output selection and playback effects of ca0132.c: what the mixer shows *)
(* (spec), what the DSP, the relay and the pins were last told (outHw),    *)
(* and the functions that carry one over to the other.  A selection        *)
(* (ca0132_alt_select_out, ca0132_select_out on the plain card) is a       *)
(* program of writes; it runs in three contexts that no lock keeps apart:  *)
(* mixer puts (one at a time), the delayed work after a headphone event,   *)
(* and the buttons of the ACM; and, with everything else held off, in a    *)
(* resume that had to load the DSP again.                                  *)
(*                                                                         *)
(* A step is one register written by one or more commands.  A command to   *)
(* the DSP may fail; where the code looks, the rest of the function is     *)
(* left out.                                                               *)
(***************************************************************************)
EXTENDS Integers, Sequences, SequencesExt

CONSTANTS
  OutputCards,   \* SUBSET {"ae9", "plain"}
  MaxOutEvents   \* bound: puts, plugs, suspends and commands that fail

ASSUME OutputAssumption ==
  /\ OutputCards \subseteq {"ae9", "plain"}
  /\ MaxOutEvents \in Nat

VARIABLES
  outCard, \* the card
  mixer,   \* settings: what the controls show
  jacks,   \* headphone jacks with a plug in: front, rear
  cur,     \* cur_out_type
  tasks,   \* what each context is doing
  outHw,      \* what each register was last told
  zeroed,  \* ae9_dsp_vol_zeroed
  hpWork,  \* unsol_hp_work is queued
  blocked, \* jacks with block_report
  lost,    \* history: registers whose last write failed, was left out or was mixed with another's
  overlap, \* history: two contexts have run together since all were idle
  missed,  \* history: what a suspend kept the headphone work from doing
  failed,  \* history: a command has failed
  outEvents

outputVars == <<outCard, mixer, jacks, cur, tasks, outHw, zeroed, hpWork, blocked, lost, overlap, missed,
                failed, outEvents>>

OutputContexts == {"mixer", "hp", "acm", "pm"}
Outputs == {"spk", "hp"}

\* Registers a selection writes, and the others
Selected == {"mute", "relay", "invert", "port", "gain", "pins", "config", "eq", "xbass", "bass", "range"}
OutRegisters == Selected \cup {"surround", "slider", "volume"}

NoTask == [todo |-> <<>>, branch |-> "spk", fx |-> FALSE]
Quiet == \A c \in OutputContexts : tasks[c].todo = <<>>

\* Channel configurations with a centre and LFE speaker
Lfe == mixer.channels = "5.1"
Plain == outCard = "plain"

-----------------------------------------------------------------------------
(* What is written.                                                        *)

\* ca0132_effects_set of an output effect: playback enhancement qualifies them all
Effect(on) == mixer.pe /\ on

\* Pins switched on, and as what.  The headphone's is the one whose jack has a
\* plug in, rear by default.
SpeakerPins == IF Plain THEN {<<0, "out">>} ELSE {<<n, "out">> : n \in {0, 2, 3}}
RearPin == <<1, "hp">>
HpPin == IF ~Plain /\ "front" \in jacks THEN <<2, "hp">> ELSE RearPin

\* What step s writes, b being the branch of the selection and fx the effects
\* switch it read when it began
Value(s, b, fx) ==
  CASE s = "mute"     -> TRUE
    [] s = "unmute"   -> FALSE
    [] s \in {"relay", "invert", "port"} -> cur
    [] s = "gain"     -> IF cur = "hp" THEN mixer.gain ELSE 2
    [] s = "gain_put" -> mixer.gain
    [] s = "pins"     -> IF b = "spk" THEN SpeakerPins ELSE {HpPin} \cup (outHw["pins"] \cap {RearPin})
    [] s = "config"   -> IF Plain THEN <<b>>
                         ELSE IF b = "hp" THEN <<b, fx>>
                         ELSE IF ~fx /\ ~Lfe THEN <<b, "none">> ELSE <<b, mixer.channels>>
    [] s = "eq"       -> Plain /\ b = "spk"
    [] s = "xbass"    -> Effect(mixer.xbass /\ ~(cur = "spk" /\ Lfe))
    [] s = "surround" -> Effect(mixer.surround)
    [] s = "bass"     -> cur = "spk" /\ mixer.bass /\ Lfe
    [] s = "bass_put" -> mixer.bass /\ Lfe
    [] s = "range"    -> mixer.range
    [] s = "slider"   -> mixer.slider
    [] s = "volume"   -> "unity"

RegisterOf(s) ==
  CASE s \in {"mute", "unmute"}   -> "mute"
    [] s = "gain_put" -> "gain"
    [] s = "bass_put" -> "bass"
    [] OTHER          -> s

\* Steps whose failure ends the function, and those whose failure goes unseen
Checked == {"mute", "invert", "config", "eq", "bass", "bass_put", "unmute", "range"}
Unchecked == {"xbass", "surround", "slider", "volume"}

-----------------------------------------------------------------------------
(* The functions.                                                          *)

\* Mutant of Selection: the DSP is muted when the output is set up.
Selection_MuteLast ==
  IF Plain THEN <<"choose", "switch", "end">>
  ELSE <<"choose", "unmute", "relay", "invert", "port", "gain", "switch", "eq", "bass", "mute",
         "range", "end">>

\* ca0132_alt_select_out and ca0132_select_out; "switch" stands for the branch
Selection ==
  IF Plain THEN <<"choose", "switch", "end">>
  ELSE <<"choose", "mute", "relay", "invert", "port", "gain", "switch", "eq", "bass", "unmute",
         "range", "end">>

\* The switch of a selection, and the X-Bass that is set again with the effects on
Branch(fx) ==
  IF Plain THEN <<"config", "eq", "pins">> ELSE <<"pins", "config">> \o (IF fx THEN <<"xbass">> ELSE <<>>)

\* ca0132_pe_switch_set: all the output effects follow
PeSwitchSet == (IF Plain THEN <<>> ELSE Selection) \o <<"surround", "xbass">>

-----------------------------------------------------------------------------

\* ae9_setup_defaults and the end of ca0132_init; the DSP has its defaults
Bringup == (IF Plain THEN <<>> ELSE <<"volume", "surround", "xbass">>) \o Selection

Unset ==
  [r \in OutRegisters |-> CASE r \in {"mute", "eq", "xbass", "surround", "bass", "range"} -> FALSE
                         [] r = "gain" -> 2
                         [] r = "slider" -> 0
                         [] r = "config" -> <<"none">>
                         [] r = "pins" -> {}
                         [] OTHER -> "none"]

\* The driver has been probed, and brings the card up
OutputInit ==
  /\ outCard \in OutputCards
  /\ mixer = [auto |-> FALSE, out |-> "spk", pe |-> Plain, xbass |-> TRUE, surround |-> FALSE,
              channels |-> "2.0", gain |-> 0, range |-> TRUE, bass |-> FALSE, slider |-> 0]
  /\ jacks = {} /\ cur = "spk"
  /\ tasks = [c \in OutputContexts |-> [NoTask EXCEPT !.todo = IF c = "pm" THEN Bringup ELSE <<>>]]
  /\ outHw = Unset
  /\ zeroed = FALSE /\ hpWork = FALSE /\ blocked = {}
  /\ lost = OutRegisters /\ overlap = FALSE /\ missed = {}
  /\ failed = FALSE /\ outEvents = 0

\* Context c begins a function; nothing runs beside a resume
Runs(c, program) ==
  /\ tasks[c].todo = <<>> /\ (c = "pm" => Quiet) /\ tasks["pm"].todo = <<>>
  /\ tasks' = [tasks EXCEPT ![c] = [NoTask EXCEPT !.todo = program]]
  /\ overlap' = (~Quiet /\ (overlap \/ program # <<>>))
  /\ lost' = IF overlap' THEN OutRegisters ELSE lost

-----------------------------------------------------------------------------
(* Controls.  The mixer puts one at a time; the ACM's buttons switch the   *)
(* effects, and put the output control, past the lock that sees to that.   *)

OutEvent == outEvents < MaxOutEvents /\ outEvents' = outEvents + 1

Store(c, control, value, program) ==
  /\ OutEvent
  /\ mixer' = [mixer EXCEPT ![control] = value]
  /\ Runs(c, program)
  /\ UNCHANGED <<outCard, jacks, cur, outHw, zeroed, hpWork, blocked, missed, failed>>

\* ca0132_alt_output_select_put, and the headphone switch of the plain card
OutputPut(c) == c \in (IF Plain THEN {"mixer"} ELSE {"mixer", "acm"}) /\
  \E out \in Outputs \ {mixer.out} :
    Store(c, "out", out, IF mixer.auto THEN <<>> ELSE Selection)

\* The automatic choice of the output (VNID_HP_ASEL)
AutoPut == Store("mixer", "auto", ~mixer.auto, Selection)

\* Playback enhancement, from the mixer or the SBX button
PePut(c) == c \in (IF Plain THEN {"mixer"} ELSE {"mixer", "acm"}) /\ Store(c, "pe", ~mixer.pe, PeSwitchSet)

EffectPut == \E e \in {"xbass", "surround"} : Store("mixer", e, ~mixer[e], <<e>>)

\* Mutant of ChannelsPut: the output is not set up again.
ChannelsPut_NoSelect == ~Plain /\
  \E n \in {"2.0", "5.1"} \ {mixer.channels} : Store("mixer", "channels", n, <<>>)

\* ca0132_alt_speaker_channel_cfg_put: looks at the control, not at cur
ChannelsPut == ~Plain /\
  \E n \in {"2.0", "5.1"} \ {mixer.channels} :
    Store("mixer", "channels", n, IF mixer.out = "spk" THEN Selection ELSE <<>>)

\* ae5_headphone_gain_put: looks at the control, not at cur
GainPut == ~Plain /\ Store("mixer", "gain", 1 - mixer.gain, IF mixer.out = "hp" THEN <<"gain_put">> ELSE <<>>)

RangePut == ~Plain /\ Store("mixer", "range", ~mixer.range, IF cur = "spk" THEN <<"range", "end">> ELSE <<>>)

BassPut == ~Plain /\ Store("mixer", "bass", ~mixer.bass, IF cur = "spk" THEN <<"bass_put", "end">> ELSE <<>>)

\* ca0132_alt_effect_slider_put: the value the control shows is not written again
SliderPut == ~Plain /\ \E v \in 0..1 : Store("mixer", "slider", v, IF v = mixer.slider THEN <<>> ELSE <<"slider">>)

\* ae9_master_apply: the DSP's volume is set to 0 dB unless that is thought done
VolumePut == ~Plain /\ Store("mixer", "out", mixer.out, <<"volume">>)

-----------------------------------------------------------------------------
(* Headphone events and power.                                             *)

\* hp_callback: the plug's jack is not reported until the work has run
JackEvent ==
  /\ OutEvent
  /\ tasks["pm"].todo = <<>>
  /\ \E j \in IF Plain THEN {"rear"} ELSE {"front", "rear"} :
       /\ jacks' = (jacks \ {j}) \cup ({j} \ jacks)
       /\ blocked' = blocked \cup {j}
  /\ hpWork' = TRUE
  /\ UNCHANGED <<outCard, mixer, cur, tasks, outHw, zeroed, lost, overlap, missed, failed>>

\* Mutant of HpWork: the jack stays blocked.
HpWork_NoReport ==
  /\ hpWork /\ hpWork' = FALSE
  /\ Runs("hp", Selection)
  /\ missed' = {}
  /\ UNCHANGED <<outCard, mixer, jacks, cur, outHw, zeroed, blocked, failed, outEvents>>

\* ca0132_unsol_hp_delayed: select, then let the rear jack be reported
HpWork ==
  /\ hpWork /\ hpWork' = FALSE
  /\ Runs("hp", Selection \o <<"report">>)
  /\ missed' = {}
  /\ UNCHANGED <<outCard, mixer, jacks, cur, outHw, zeroed, blocked, failed, outEvents>>

\* Mutant of Reload: the suspend does not wait for the work.
Reload_NoSync(program) ==
  /\ OutEvent
  /\ tasks["pm"].todo = <<>> /\ tasks' = [tasks EXCEPT !["pm"] = [NoTask EXCEPT !.todo = program]]
  /\ outHw' = Unset /\ lost' = OutRegisters /\ overlap' = FALSE
  /\ hpWork' = FALSE /\ missed' = IF hpWork THEN {"report"} ELSE missed \ {"output"}
  /\ UNCHANGED <<outCard, mixer, jacks, cur, blocked, failed>>

\* Suspend, and a resume that loads the DSP again and sets playback enhancement
\* again: ca0132_init with dsp_reload
Reload(program) ==
  /\ OutEvent
  /\ Quiet /\ tasks' = [tasks EXCEPT !["pm"] = [NoTask EXCEPT !.todo = program]]
  /\ outHw' = Unset /\ lost' = OutRegisters /\ overlap' = FALSE
  /\ hpWork' = FALSE /\ missed' = IF hpWork THEN {"report"} ELSE missed \ {"output"}
  /\ UNCHANGED <<outCard, mixer, jacks, cur, blocked, failed>>

\* Mutant of ResumeReload: the flag of the DSP's volume is not reset.
ResumeReload_KeepsZeroed == Reload(Bringup \o PeSwitchSet) /\ UNCHANGED zeroed

ResumeReload == Reload(Bringup \o PeSwitchSet) /\ zeroed' = FALSE

\* Suspend, and a resume that finds the DSP loaded: ca0132_init returns at once
ResumeLoaded ==
  /\ OutEvent
  /\ Quiet /\ hpWork' = FALSE
  /\ missed' = IF hpWork THEN {"report", "output"} ELSE missed
  /\ UNCHANGED <<outCard, mixer, jacks, cur, tasks, outHw, zeroed, blocked, lost, overlap, failed>>

-----------------------------------------------------------------------------
(* A step of a function.                                                   *)

Todo(c, rest) ==
  tasks' = [tasks EXCEPT ![c].todo = IF rest # <<>> /\ Head(rest) = "end" THEN Tail(rest) ELSE rest]

\* The beginning of a selection: the output, and the effects switch read once
Choose(c) ==
  /\ tasks[c].todo # <<>> /\ Head(tasks[c].todo) = "choose"
  /\ cur' = IF ~mixer.auto THEN mixer.out
            ELSE IF (IF Plain THEN "rear" \in jacks ELSE jacks # {}) THEN "hp" ELSE "spk"
  /\ tasks' = [tasks EXCEPT ![c].todo = Tail(@), ![c].fx = mixer.pe]
  /\ UNCHANGED <<outCard, mixer, jacks, outHw, zeroed, hpWork, blocked, lost, overlap, missed, failed, outEvents>>

\* Steps that write nothing
Pass(c) ==
  /\ tasks[c].todo # <<>>
  /\ LET s == Head(tasks[c].todo)
         rest == Tail(tasks[c].todo) IN
     \/ /\ s = "switch"
        /\ tasks' = [tasks EXCEPT ![c].branch = cur, 
                                  ![c].todo = Branch(tasks[c].fx) \o rest]
        /\ UNCHANGED blocked
     \/ s = "range" /\ ~(cur = "spk" /\ Lfe) /\ Todo(c, rest) /\ UNCHANGED blocked
     \/ s = "volume" /\ zeroed /\ Todo(c, rest) /\ UNCHANGED blocked
     \/ s = "report" /\ Todo(c, rest) /\ blocked' = blocked \ {"rear"}
  /\ UNCHANGED <<outCard, mixer, jacks, cur, outHw, zeroed, hpWork, lost, overlap, missed, failed, outEvents>>

\* After a failure the function is left where the code looks at it
AfterFailure(todo) ==
  IF Head(todo) \in Checked THEN SubSeq(todo, SelectInSeq(todo, LAMBDA s : s = "end"), Len(todo))
  ELSE Tail(todo)

\* A register is written, or its command fails
Write(c) ==
  /\ tasks[c].todo # <<>>
  /\ LET todo == tasks[c].todo
         s == Head(todo)
         r == RegisterOf(s) IN
     /\ s \notin {"choose", "switch", "report"}
     /\ s = "range" => cur = "spk" /\ Lfe
     /\ s = "volume" => ~zeroed
     /\ \/ /\ outHw' = [outHw EXCEPT ![r] = Value(s, tasks[c].branch, tasks[c].fx)]
           /\ lost' = IF overlap THEN lost ELSE lost \ {r}
           /\ Todo(c, Tail(todo))
           /\ UNCHANGED <<failed, outEvents>>
        \/ /\ s \in Checked \cup Unchecked
           /\ OutEvent /\ failed' = TRUE
           /\ Todo(c, AfterFailure(todo))
           /\ lost' = lost \cup {r} \cup (IF s \in Checked THEN Selected ELSE {})
           /\ UNCHANGED outHw
     /\ zeroed' = (zeroed \/ s = "volume")
  /\ UNCHANGED <<outCard, mixer, jacks, cur, hpWork, blocked, overlap, missed>>

OutputStep(c) == Choose(c) \/ Pass(c) \/ Write(c)

OutputNext ==
  \/ \E c \in OutputContexts : OutputPut(c) \/ PePut(c) \/ OutputStep(c)
  \/ AutoPut \/ EffectPut \/ ChannelsPut \/ GainPut \/ RangePut \/ BassPut \/ SliderPut \/ VolumePut
  \/ JackEvent \/ HpWork \/ ResumeReload \/ ResumeLoaded

OutputSpec == OutputInit /\ [][OutputNext]_outputVars

-----------------------------------------------------------------------------
(* Properties.                                                             *)

OutputTypeOK ==
  /\ cur \in Outputs /\ jacks \subseteq {"front", "rear"} /\ blocked \subseteq {"front", "rear"}
  /\ lost \subseteq OutRegisters /\ missed \subseteq {"report", "output"}
  /\ tasks["pm"].todo # <<>> => \A c \in OutputContexts \ {"pm"} : tasks[c].todo = <<>>
  /\ \A c \in OutputContexts : \A i \in 1..Len(tasks[c].todo) :
       tasks[c].todo[i] \in OutRegisters \cup {"choose", "switch", "end", "report", "unmute", "gain_put",
                                           "bass_put", "hp_pin"}

\* Nothing is running or waiting to run
Settled == Quiet /\ ~hpWork /\ "output" \notin missed

\* Every selection ends with the DSP unmuted, however selections from the mixer,
\* the ACM and the headphone work interleave: a settled card is muted only if a
\* command failed (ca0132_alt_select_out returns at the first error after it has
\* muted the DSP).
Unmuted == Quiet /\ outHw["mute"] = TRUE => failed

WantedOutput ==
  IF ~mixer.auto THEN mixer.out
  ELSE IF (IF Plain THEN "rear" \in jacks ELSE jacks # {}) THEN "hp" ELSE "spk"

\* What the settings ask of register r; a register they do not constrain is as it is
Wanted(r) ==
  LET hp == WantedOutput = "hp" IN
  CASE r = "mute" -> FALSE
    [] r \in {"relay", "invert", "port"} -> WantedOutput
    [] r = "gain" -> IF hp THEN mixer.gain ELSE 2
    [] r = "pins" -> IF hp THEN {HpPin} \cup (outHw[r] \cap {RearPin}) ELSE SpeakerPins
    [] r = "config" -> IF Plain THEN <<WantedOutput>>
                       ELSE IF hp THEN <<"hp", mixer.pe>>
                       ELSE <<"spk", IF mixer.pe \/ Lfe THEN mixer.channels ELSE "none">>
    [] r = "eq" -> Plain /\ ~hp
    [] r = "xbass" -> mixer.pe /\ mixer.xbass /\ (Lfe => hp)
    [] r = "surround" -> mixer.pe /\ mixer.surround
    [] r = "bass" -> mixer.bass /\ Lfe /\ ~hp
    [] r = "range" -> IF Lfe /\ ~hp THEN mixer.range ELSE outHw[r]
    [] r = "slider" -> mixer.slider
    [] r = "volume" -> "unity"

\* Registers a put may leave as they were: with the automatic choice on, the
\* gain and the channels are compared with the control, not with the output in use.
Excepted(r) == mixer.auto /\ r \in {"gain", "config", "xbass", "bass", "range"}

\* A settled card holds in every register what the settings ask for
RegistersFollow ==
  Settled /\ ~overlap => \A r \in OutRegisters \ lost : Excepted(r) \/ outHw[r] = Wanted(r)

\* The DSP's own volume is at 0 dB whenever the flag says so, resumes included,
\* unless a command failed: the flag is set whatever the commands returned.
VolumeAtUnity == Quiet /\ zeroed /\ ~failed => outHw["volume"] = "unity"

\* The work that reports the rear jack again runs, or a suspend cancelled it.
RearReported == Quiet /\ "rear" \in blocked => hpWork \/ "report" \in missed

\* Whatever has been put, plugged, toggled and resumed, and in whatever order,
\* every register then holds what the settings ask for, unless its last command
\* failed or was left out after a failure, or two functions ran together; the DSP's
\* own volume is as its flag says, and a report held back has a work to come.
OutputFollows == RegistersFollow /\ VolumeAtUnity /\ RearReported

\* "Re set the PlayEnhancement switch on a resume event, because the controls will
\* not be reloaded" (end of ca0132_init): after a resume the DSP has what the
\* controls show.
ControlsKept == Quiet /\ ~overlap /\ ~failed => outHw["slider"] = mixer.slider
=============================================================================
