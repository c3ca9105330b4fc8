------------------------------ MODULE CodecLife ------------------------------
(***************************************************************************)
(* The life of a CA0132 codec (ca0132.c): probe, the long bring-up of      *)
(* ca0132_init with the download of the DSP's firmware, suspend and        *)
(* resume, the delayed works that run meanwhile, and remove.  The hda core *)
(* (external) calls these one at a time, hands over no event once a        *)
(* suspend or a remove has begun, and may bind the device again; what the  *)
(* driver has done to the device's runtime-PM count stays with the device. *)
(***************************************************************************)
EXTENDS Integers, Sequences

CONSTANTS
  Boards,         \* SUBSET {"main", "daughter", "sbz"}: AE-9, AE-9s, Sound Blaster Z
  MaxLives,       \* bound: probes
  MaxSleeps,      \* bound: suspends
  MaxLifeFails    \* bound: failures

ASSUME LifeAssumption ==
  /\ Boards \subseteq {"main", "daughter", "sbz"}
  /\ {MaxLives, MaxSleeps, MaxLifeFails} \subseteq Nat

VARIABLES
  board,
  phase,      \* unbound, up, asleep, or the step of a call that is under way
  dsp_state,  \* init, downloaded, failed
  chipRuns,   \* the DSP runs: what dspload_is_loaded sees
  tries,      \* what sbz_dsp_startup_check has left, 0 outside its loop
  entered,    \* startup_check_entered
  queued,     \* delayed works queued: "hp", "acm"
  running,    \* delayed works being run
  ae9_pm_held,
  usage,      \* what the driver has added to the device's runtime-PM count
  lives, sleeps, lifeFails

lifeVars == <<board, phase, dsp_state, chipRuns, tries, entered, queued, running,
              ae9_pm_held, usage, lives, sleeps, lifeFails>>

Works == {"hp", "acm"}
Calls == {"begin", "download", "defaults", "finish", "check", "suspend_hp", "suspend_acm", "free_hp",
          "free_acm", "free"}
Phases == {"unbound", "up", "asleep"} \cup Calls

LifeInit ==
  /\ board \in Boards /\ phase = "unbound"
  /\ dsp_state = "init" /\ chipRuns = FALSE /\ tries = 0 /\ entered = FALSE
  /\ queued = {} /\ running = {} /\ ae9_pm_held = FALSE /\ usage = 0
  /\ lives = 0 /\ sleeps = 0 /\ lifeFails = 0

LifeFails == lifeFails < MaxLifeFails /\ lifeFails' = lifeFails + 1
Queue(works) == queued' = queued \cup works

-----------------------------------------------------------------------------
(* ca0132_codec_probe and ca0132_codec_remove.                             *)

\* ca0132_codec_probe.  The reference is taken for both codecs of an AE-9, after
\* ae9_detect_quirk has told them apart.
Probe ==
  /\ phase = "unbound" /\ lives < MaxLives /\ lives' = lives + 1
  /\ ae9_pm_held' = (board \in {"main", "daughter"})
  /\ usage' = usage + (IF ae9_pm_held' THEN 1 ELSE 0)
  /\ dsp_state' = "init" /\ entered' = FALSE /\ tries' = 0
  /\ \/ /\ phase' = (IF board = "daughter" THEN "up" ELSE "begin")
        /\ UNCHANGED lifeFails
     \/ phase' = (IF board = "daughter" THEN "free" ELSE "free_hp") /\ LifeFails
  /\ UNCHANGED <<board, chipRuns, queued, running, sleeps>>

\* ca0132_codec_remove; dbpro_free has nothing to cancel
Remove ==
  /\ phase = "up"
  /\ phase' = (IF board = "daughter" THEN "free" ELSE "free_hp")
  /\ UNCHANGED <<board, dsp_state, chipRuns, tries, entered, queued, running, ae9_pm_held,
                 usage, lives, sleeps, lifeFails>>

\* Mutant of Free: no reference is returned.
Free_KeepsHold ==
  /\ phase = "free" /\ phase' = "unbound"
  /\ chipRuns' = (chipRuns /\ board = "daughter")
  /\ ae9_pm_held' = FALSE /\ UNCHANGED usage
  /\ UNCHANGED <<board, dsp_state, tries, entered, queued, running, lives, sleeps, lifeFails>>

\* The rest of ca0132_free: the DSP is reset, the reference returned; dbpro_free
Free ==
  /\ phase = "free" /\ phase' = "unbound"
  /\ chipRuns' = (chipRuns /\ board = "daughter")
  /\ ae9_pm_held' = FALSE
  /\ usage' = usage - (IF board # "daughter" /\ ae9_pm_held THEN 1 ELSE 0)
  /\ UNCHANGED <<board, dsp_state, tries, entered, queued, running, lives, sleeps, lifeFails>>

-----------------------------------------------------------------------------
(* ca0132_init.                                                            *)

\* Mutant of BeginLoaded: the ACM's service is not started.
BeginLoaded_NoAcm ==
  /\ phase = "begin" /\ dsp_state = "downloaded" /\ chipRuns
  /\ IF board = "sbz" /\ ~entered
     THEN phase' = "check" /\ entered' = TRUE /\ tries' = 3
     ELSE phase' = "up" /\ UNCHANGED <<entered, tries>>
  /\ UNCHANGED <<board, dsp_state, chipRuns, queued, running, ae9_pm_held, usage, lives,
                 sleeps, lifeFails>>

\* The DSP is still loaded: the card's check or the ACM's service, and nothing else
BeginLoaded ==
  /\ phase = "begin" /\ dsp_state = "downloaded" /\ chipRuns
  /\ IF board = "sbz" /\ ~entered
     THEN phase' = "check" /\ entered' = TRUE /\ tries' = 3
     ELSE phase' = "up" /\ UNCHANGED <<entered, tries>>
  /\ Queue(IF board = "main" THEN {"acm"} ELSE {})
  /\ UNCHANGED <<board, dsp_state, chipRuns, running, ae9_pm_held, usage, lives, sleeps, lifeFails>>

\* The initialisation proper.  dsp_reload, which makes its end set playback
\* enhancement again, is in OutputSelect.
Begin ==
  /\ phase = "begin" /\ ~(dsp_state = "downloaded" /\ chipRuns)
  /\ phase' = "download"
  /\ dsp_state' = IF dsp_state = "failed" THEN "failed" ELSE "init"
  /\ UNCHANGED <<board, chipRuns, tries, entered, queued, running, ae9_pm_held, usage, lives, sleeps, lifeFails>>

\* ca0132_download_dsp: a failure is final; a DSP that misses its two seconds may
\* yet start
Download ==
  /\ phase = "download" /\ phase' = "defaults"
  /\ \/ dsp_state = "failed" /\ UNCHANGED <<dsp_state, chipRuns, lifeFails>>
     \/ dsp_state = "init" /\ dsp_state' = "downloaded" /\ chipRuns' = TRUE /\ UNCHANGED lifeFails
     \/ dsp_state = "init" /\ dsp_state' = "failed" /\ chipRuns' \in BOOLEAN /\ LifeFails
  /\ UNCHANGED <<board, tries, entered, queued, running, ae9_pm_held, usage, lives, sleeps>>

\* ae9_setup_defaults and its like: without a DSP they return at once
Defaults ==
  /\ phase = "defaults" /\ phase' = "finish"
  /\ Queue(IF dsp_state = "downloaded" /\ board = "main" THEN {"acm"} ELSE {})
  /\ UNCHANGED <<board, dsp_state, chipRuns, tries, entered, running, ae9_pm_held, usage, lives,
                 sleeps, lifeFails>>

\* Mutant of InitReturns: the check goes on without a limit.
InitReturns_NoLimit ==
  /\ phase = "finish"
  /\ phase' = (IF entered THEN "check" ELSE "up")
  /\ UNCHANGED <<board, dsp_state, chipRuns, tries, entered, queued, running, ae9_pm_held, usage, lives,
                 sleeps, lifeFails>>

\* The end of ca0132_init, and back to the caller: the hda core or the check
InitReturns ==
  /\ phase = "finish"
  /\ phase' = (IF tries > 0 THEN "check" ELSE "up")
  /\ UNCHANGED <<board, dsp_state, chipRuns, tries, entered, queued, running, ae9_pm_held, usage, lives,
                 sleeps, lifeFails>>

\* sbz_dsp_startup_check: is the DSP's memory initialised?  If not, the DSP is
\* downloaded again, three times at most and whatever the last download gave.
StartupCheck ==
  /\ phase = "check"
  /\ \/ phase' = "up" /\ tries' = 0 /\ UNCHANGED <<dsp_state, chipRuns>>
     \/ /\ tries' = tries - 1
        /\ dsp_state' = "init" /\ chipRuns' = FALSE /\ phase' = "begin"
  /\ UNCHANGED <<board, entered, queued, running, ae9_pm_held, usage, lives, sleeps, lifeFails>>

-----------------------------------------------------------------------------
(* Delayed works, suspend and resume.                                      *)

\* A headphone event queues the work, once the driver has asked for events
HeadphoneEvent ==
  /\ phase \in {"up", "download", "defaults", "finish", "check"} /\ board # "daughter"
  /\ "hp" \notin queued /\ Queue({"hp"})
  /\ UNCHANGED <<board, phase, dsp_state, chipRuns, tries, entered, running, ae9_pm_held, usage, lives,
                 sleeps, lifeFails>>

RunWork(w) ==
  /\ w \in queued \ running
  /\ queued' = queued \ {w} /\ running' = running \cup {w}
  /\ UNCHANGED <<board, phase, dsp_state, chipRuns, tries, entered, ae9_pm_held, usage, lives, sleeps, lifeFails>>

Cancels(w) == phase \in (IF w = "hp" THEN {"suspend_hp", "free_hp"} ELSE {"suspend_acm", "free_acm"})

\* Mutant of WorkEnds: the service queues itself whoever waits.
WorkEnds_Again(w) ==
  /\ w \in running /\ running' = running \ {w}
  /\ Queue(IF w = "acm" THEN {w} ELSE {})
  /\ UNCHANGED <<board, phase, dsp_state, chipRuns, tries, entered, ae9_pm_held, usage, lives, sleeps, lifeFails>>

\* ae9_acm_work_fn queues itself again, unless someone waits for its end
WorkEnds(w) ==
  /\ w \in running /\ running' = running \ {w}
  /\ Queue(IF w = "acm" /\ ~Cancels(w) THEN {w} ELSE {})
  /\ UNCHANGED <<board, phase, dsp_state, chipRuns, tries, entered, ae9_pm_held, usage, lives, sleeps, lifeFails>>

\* Mutant of CancelSync: a work being run is not waited for.
CancelSync_NoWait(w, next) == queued' = queued \ {w} /\ phase' = next

\* cancel_delayed_work_sync
CancelSync(w, next) == w \notin running /\ queued' = queued \ {w} /\ phase' = next

Cancel ==
  /\ \/ phase = "suspend_hp"  /\ CancelSync("hp", "suspend_acm")
     \/ phase = "suspend_acm" /\ CancelSync("acm", "asleep")
     \/ phase = "free_hp"     /\ CancelSync("hp", "free_acm")
     \/ phase = "free_acm"    /\ CancelSync("acm", "free")
  /\ UNCHANGED <<board, dsp_state, chipRuns, tries, entered, running, ae9_pm_held, usage, lives, sleeps, lifeFails>>

\* ca0132_codec_suspend: for the system, or for a device nobody uses
Suspend ==
  /\ phase = "up" /\ sleeps < MaxSleeps /\ sleeps' = sleeps + 1
  /\ phase' = "suspend_hp"
  /\ UNCHANGED <<board, dsp_state, chipRuns, tries, entered, queued, running, ae9_pm_held, usage, lives, lifeFails>>

\* The DSP may or may not have survived
Resume ==
  /\ phase = "asleep" /\ phase' = (IF board = "daughter" THEN "up" ELSE "begin")
  /\ chipRuns' \in {FALSE, chipRuns}
  /\ UNCHANGED <<board, dsp_state, tries, entered, queued, running, ae9_pm_held, usage, lives, sleeps, lifeFails>>

InitStep == Begin \/ BeginLoaded \/ Download \/ Defaults \/ InitReturns \/ StartupCheck \/ Cancel \/ Free

LifeNext ==
  \/ Probe \/ Remove \/ Suspend \/ Resume \/ InitStep \/ HeadphoneEvent
  \/ \E w \in Works : RunWork(w) \/ WorkEnds(w)

\* Calls end, works end and queued works run
LifeFairness == WF_lifeVars(InitStep) /\ \A w \in Works : WF_lifeVars(RunWork(w)) /\ WF_lifeVars(WorkEnds(w))

LifeSpec == LifeInit /\ [][LifeNext]_lifeVars /\ LifeFairness

-----------------------------------------------------------------------------
(* Properties.                                                             *)

LifeTypeOK ==
  /\ phase \in Phases /\ dsp_state \in {"init", "downloaded", "failed"}
  /\ queued \subseteq Works /\ running \subseteq Works /\ tries \in 0..3
  /\ usage \in Nat /\ chipRuns \in BOOLEAN

\* No work of the driver is queued or run while the codec sleeps, is being freed or
\* is gone (ca0132_codec_suspend, ca0132_free: the works use the spec that is freed).
WorksStopped == phase \in {"asleep", "free", "unbound"} => queued = {} /\ running = {}

\* A codec that is up with its DSP downloaded has its ACM service queued or running,
\* through suspends that the DSP survives and those it does not (ca0132_init; the
\* comment at the probe still says that a resume with the DSP loaded does not
\* restart it).
AcmServed == phase = "up" /\ board = "main" /\ dsp_state = "downloaded" => "acm" \in queued \cup running

\* "Hold a runtime-PM reference so the codec stays in D0" (probe): the reference of
\* the AE-9 is held as long as the driver is bound to it, and returned when it is not.
\* The daughter board's is not, see DaughterHold.
HoldReturned ==
  board # "daughter" => usage = IF phase # "unbound" /\ board = "main" THEN 1 ELSE 0

\* The same of the daughter board.
DaughterHold == board = "daughter" /\ phase = "unbound" => usage = 0

\* A suspend and a remove get to their end: the works they wait for end, also the one
\* that queues itself again.
CallsEnd == phase \in Calls ~> phase \notin Calls
=============================================================================
