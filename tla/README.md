# Verification of the Sound Blaster AE-9 driver

TLA+ models of the `sb-ae9` driver (`src/driver`): the CA0132 codec driver with
the AE-9 work (`ca0132/ca0132.c`) and the HD-audio core it is built with
(`hda-core/*.c`).  The modules are checked with TLC on small instances; the
theorems in the `*_proofs` modules are checked with TLAPS for every value of the
constants.  `PROJECT.json` lists components, runs, mutants, findings, hazards and
theorems, and maps each definition to the lines it stands for.

## 1. The system

| Part | State it keeps | Operations | Where |
|---|---|---|---|
| ACM service: the Audio Control Module with knob, SBX button, light, headphone amplifier and display, reached over a UART on BAR2 | `ae9_acm_present`, `_tick`, `_dead_ticks`, `_pending_mode`, `_pending_fx`, `_disp_dirty`, `_show_mode_ticks`, `_turbo`, `ae9_knob_acc/dir` | the delayed work (every 500 ms, 50 ms while the knob turns), probe and set-up, keepalive, knob, buttons, light, display | `ca0132.c` 9200-9716 |
| Mixer controls | `effects_switch[]`, `vnode_lvol/rvol/lswitch/rswitch`, `out_enum_val`, `cur_out_type` | puts from any program; knob and buttons put through the same functions | `ca0132.c` 5600-7100 |
| Output selection and effects | the same, and the DSP, GPIOs and pins behind them | `ca0132_alt_select_out` from puts, the jack work, the ACM work and resume; `ca0132_effects_set` | 4672-5660 |
| SCP channel to the DSP | `wait_scp`, `wait_scp_header`, `scp_resp_*`, the DSP's two queues | `dspio_scp`, its poll loop, the handler of the unsolicited response | 2091-2507, 10026 |
| ChipIO | `curr_chip_addx`, `chipio_mutex` | chip reads and writes, parameters and 8051 accesses through vendor verbs | 1592-2086, 7887-8017 |
| BAR2 command engine and posted writes | `mem_mutex`; the writes that wait in the card's bridge | `ca0113_mmio_*`: each write followed by a read; transactions of a dozen accesses | 3764-3950 |
| DSP loader | DMA channel, router ports, the HDA stream it borrows, the buffer | `dspload_image`, `dspxfr_image`, `dspxfr_one_seg` and their helpers | 2512-3760 |
| Codec lifecycle | `dsp_state`, `dsp_reload`, the delayed works, the run-time PM reference | probe, init, download, suspend, resume, remove | 9750-11650 |
| Verb channel | CORB and RIRB with hardware and software pointers, `rirb.cmds`, `rirb.res` | `snd_hdac_bus_exec_verb`, the interrupt, `init_cmd_io` | `controller.c`, `bus.c` |
| Unsolicited events | a 64-entry queue, a work, `caddr_tbl` | queue, process, add and remove a codec | `bus.c` 135-235 |
| PCM streams | descriptor, `opened/running/locked`, buffer list | assign, set up, start, stop, sync, lend to the DSP loader | `stream.c` |
| Register cache and power references | regmap, `caps_overwriting`, `in_pm`, the device's usage count | cached access that powers up the codec or not, sync | `regmap.c`, `device.c` |
| Codec device and widget tree | reference and address, nodes, sysfs objects | init, register, refresh, release; connection lists, formats | `device.c`, `sysfs.c` |
| Display audio | component, graphics module's pin, display power | bind, unbind, init, exit, `display_power` | `component.c`, `i915.c` |
| HDMI channel maps | table of slots filled at first use | allocation, slots, maps read and set, TLV | `hdmi_chmap.c` |

How they interact: a mixer put runs in a program's thread, stores its value,
sends verbs (the verb channel), SCP messages (words sent as verbs) and BAR2
commands, and leaves the ACM service a flag.  The jack event comes up through the
RIRB, the event queue and a work and does the same.  The ACM work runs beside
them, holds no lock, sleeps in every exchange with the module, and puts controls
itself when the user turns or presses the knob.  Suspend stops the works;
resume asks whether the DSP is still loaded (a ChipIO read), and either starts the
works again or does the whole bring-up, with the loader, the SCP channel and a
selection of the output.

What is hard: flags set and cleared in three contexts without a lock; frames
lost in an outage; a module that is power-cycled in the middle; verbs that time
out and are answered later; two readers of one response queue; rings and queues
that fill; functions of a dozen commands that run beside each other and fail in
the middle; accesses of several contexts that add up to a burst the card's bridge
cannot take; things taken in turn that must all be given back; a suspend in the
middle of any of it, with power lost or not.  `hazards` in `PROJECT.json` lists
them line by line with the properties that cover them.

What makes each part correct:
* ACM service: what the module shows is what the mixer holds, or there is still
  somebody who will tell it; a lost module is found again.
* Output selection: the card ends up as the settings ask, unmuted.
* Verb channel: a read returns the response to its own verb; every call ends.
* SCP: a GET hands over the words of one reply, its own; it ends; it fails only
  when the DSP was late.
* ChipIO: a word goes to the address it is meant for; the cached address is the chip's.
* DSP loader: zero means that the image is in the DSP; what was taken is given back.
* Lifecycle: no work outlives its codec; the service runs when the codec does.
* Register access: no long burst of posted writes; transactions do not mix.
* Streams: no descriptor has two owners; a running stream is never reprogrammed;
  the list describes the buffer.
* Register cache: no update is lost, references balance, accesses end.
* Event queue: events are served once and in order; removal waits for a handler.

## 2. Modules

| Module | Models | Built on |
|---|---|---|
| `AcmService`, `AcmService_proofs` | the ACM work, its flags, the contexts that set them, suspend, resume, the module; proofs | |
| `AcmKnob` | `ae9_acm_knob`'s accumulator | |
| `OutputSelect` | selection of the output, effects, volume; their callers; failures and resumes | |
| `VerbService` | what `snd_hdac_bus_exec_verb` promises (abstract) | |
| `CommandRing`, `CommandRing_proofs` | CORB, RIRB and `exec_verb`; implements `VerbService`; proofs | `INSTANCE VerbService` |
| `UnsolQueue`, `UnsolQueue_proofs` | the event queue, its work, codecs that come and go | |
| `ScpChannel` | a GET: sender, poll loop, handler, DSP queue | |
| `ChipIo` | chip address and data through vendor verbs, `chipio_mutex`, power loss | |
| `CardMmio` | register accesses of several contexts, the bridge, `mem_mutex` | |
| `DspLoad` | the DSP loader with the failure of every step | |
| `CodecLife` | probe to remove: `dsp_state`, delayed works, the PM reference | |
| `HdaStream` | stream descriptors, buffer lists, linked stop, the loader's loan | |
| `RegmapPm`, `RegmapPm_proofs` | the register cache with power references, suspend and resume | |
| `DisplayAudio` | component binding and display power | |
| `WidgetTree` | a codec device and its tree in sysfs | |
| `HdaQueries` | connection lists, formats, groups, verbs of a register, matching | |
| `HdmiChmap` | channel allocations, slots and maps | |
| `Ca0132_proofs` | proofs about the knob, ChipIO and the output selection | `AcmKnob`, `ChipIo`, `OutputSelect` |
| `CardAccess_proofs` | proofs about the SCP channel and the command engine | `ScpChannel`, `CardMmio` |
| `CodecLife_proofs` | proofs about the codec's life and the DSP loader | `CodecLife`, `DspLoad` |
| `HdaCore_proofs` | proofs about display power, the widget tree, streams and queries | `DisplayAudio`, `WidgetTree`, `HdaStream`, `HdaQueries` |
| `MC_*` | instances for TLC | |

### AcmService
One step per frame exchange, because `ae9_acm_work_fn` sleeps in each and
everything else may run meanwhile.  `work` says which exchange comes next:
`queued` (`WorkAbsent`, `WorkPark`, `WorkTick`: the three branches at the head of
the work function), `keepalive`, `mode`, `setAmp`/`setMode` (`ae9_acm_apply_mode`),
`check`/`checkReply`/`fixAmp` (`ae9_acm_check_regs`, whose local `hp` is the
variable `want`), `knob`, `buttons`, `press`, `fx`/`setLight`, `disp`/`showVol`,
and the `init…` places of `ae9_acm_init`.  A put stores its value in one step and
the flag in the next, as the code does without a lock; `caller` says where the
program's thread (`ctl`, which is also the codec resume: tasks are frozen across
a suspend) and the jack work stand.  `acm` is the module: alive or silent, and
the light, amplifier bit and text it shows.  `lost` names what it missed since it
was last told, `silent` counts unanswered probes; both are history variables.

Abstracted: the level is a model value and the text the value it stands for
(`ae9_acm_show_volume` formats it); the frames nothing depends on are left out;
the two work delays are "later".  `SelectOut` lets either output win: which one
does is `OutputSelect`'s subject.  `Init` is the state after `ae9_setup_defaults`
has queued the work.  `ae9_acm_tick` is kept modulo the period, which is how the
code uses it.

### AcmKnob
`Turn` is a report of `ae9_acm_knob` with a detent in it, with C's division
towards zero, up to the read of the Master level (line 9638); `PutLevel` is the put
of the sum (9648), and `DropLevel` the two returns before it.  `putting` holds what
was read in between, where `Put`, another program's put of the level, may fall: it
is then overwritten, and a turn to louder can leave the level lower than it had just
become.  `MovesRightAway` therefore speaks of the level that was read.  `turned` and
`moved` count detents and points since the last change of direction.  A Master
control that cannot be read (`ae9_master_level` then answers the stored speaker
volume, line 9319) is left out.

### OutputSelect
A function is a list of steps (`Selection`, `Branch`, `PeSwitchSet`, `Bringup`),
a context (`mixer`, `hp`, `acm`, `pm`) has the rest of the one it is in (`tasks`),
and a step is one command (`Write`) or a step that writes nothing (`Choose`,
`Pass`).  `outHw` is what the DSP, the GPIOs and the pins hold.  What the code
reads when the command is sent is read then (`cur`, the settings), what it reads
once is kept in the task (`branch`, `fx`).  A command whose status the code looks
at (`Checked`) ends the function when it fails; one that it does not look at
(`Unchecked`) leaves the rest to go on.  Mixer puts exclude each other; the ACM's
buttons, the jack work and the mixer do not.  `overlap` says that two functions
ran together since the card was last quiet, `lost` which registers a failure or
an overlap left unknown, `missed` what a suspend cancelled.  `outCard` is an AE-9
or a card without the alternative functions (`plain`), whose selection is
`ca0132_select_out`.  The settings begin as `ca0132_init_params` leaves them: no
processing on the AE-9, X-Bass preset, surround off.  Abstracted: levels to two values, channels to stereo and
5.1, the effects to X-Bass and surround.

### CommandRing and VerbService
`Begin` takes `cmd_mutex`; `Send`, `SendFull` and `SendDead` are the returns of
`snd_hdac_bus_send_cmd_corb` (the register reads 0xffff in D3); `Answered` and
`TimeOut` end `snd_hdac_bus_get_response_rirb`, `drain` being the wait of the
`-EAGAIN` loop.  `UpdateRirb` is one run of `snd_hdac_bus_update_rirb`, atomic
under `reg_lock`: in interrupt mode at any time, in polling mode by a waiter;
`link` is the number of codecs and the mode, chosen at the start.  The hardware
fetches, answers in order, loses verbs, raises unsolicited responses, overruns the
ring and powers down.  A verb is numbered, and the codec's response is the number.
`bus->sync_write`, last-command traces and the PIO path are left out.

`VerbService` is the contract: calls exclude each other, each ends, and a read
that succeeds carries its own verb's number.  `CommandRing` implements it with
`busy <- {t : pc[t] # "idle"}` (run `RingCalls`, on a link with one codec; with
two codecs the contract fails, see `RingStalled`).

### UnsolQueue
`QueueEvent` is the interrupt, which `WorkLocks` … `UnsolWorkEnds` share `reg_lock`
with: the work gives it up around a handler (`WorkHandles`, `HandlerReturns`).
`RemoveDevice` and `FlushWork` are the two halves of `snd_hdac_bus_remove_device`.
`lapped` counts what a full queue hides: the pointers meet and 64 events are out
of sight, though not overwritten in the driver's eyes.

### ScpChannel
One step per verb, because the bus serialises verbs and not sequences of them.
`dspio_read` is three: post, status, data.  `pc` pairs what a reader does (header,
word, clearing) with its next verb.  Shared memory is the code's: `wait_scp`,
`wait_scp_header` and `scp_resp_*` without a lock; `size` and `count` are the
locals of `dspio_read_multiple`.  `TimeOut` is the one-second limit: it comes when
the DSP has not answered, or when what it answered is gone.  `SendFails` is a DSP
that takes nothing.  A word carries the GET and the position it belongs to
instead of its bits; header matching compares the kind of request.  A reply has
at most the four words `scp_resp_data` holds.  `notifies` tells a DSP that raises
an unsolicited response for a reply from one that is only polled.

### ChipIo
A call is its list of verbs (`WriteLocked`, `Read`, `ControlParam`, `RemapStream`
…), a thread holds what is left of it, and `SendVerb` is one verb, with what the
driver does to `curr_chip_addx` after it; `SendFails` is the second without an
answer, after which the call is left where the code leaves it (`Abandoned`, the
next `End` or `unlock`).  `chip` is the chip's own registers: `HalfWord` is 2^16,
scaled.  A value goes `astray` when the verb that carries it finds another address,
half or selector in the chip than the one its caller sent.  `PowerLost`, `Resume`
and `Reinit` are a suspend that costs the chip its registers, the question whether
the DSP is loaded (asked with the address the driver remembers), and the reset of
that address in `ca0132_init`.

### CardMmio
A program is the sequence of reads and writes one function makes; contexts run
their programs side by side, one access at a time.  `posted` counts writes since
the last read, whoever made them.  `mem_mutex` is taken and released where
`guard(mutex)` does.  `init_chip` and `stop_chip` run alone, as the core runs them.

### DspLoad
`load` is the frame of `dspxfr_image` and `dspxfr_one_seg`: where it is, the
segments left, the words sent.  A word is the address it is meant for, so that
`memory[a] = a` says that it arrived.  `DmaMoves` is the DSP's DMA controller,
which takes what the stream carries at any time while it is on.  Every step may
fail where the code looks at its status; where it does not, or where what was
taken is not given back, the module notes it (`excuses`, `leaks`), and the
properties say what holds otherwise.  A load that leaves between the start of its
stream and the stop gives back a stream that is still marked running (`left`): the
clean-up (`stream.c:984`) does not clear the flag, so the next load finds the stream
busy (`stream.c:929`) until a program or a suspend clears it (`StreamReused`).  The three kinds of load are a firmware, an
overlay, and an overlay whose chunks are announced to the DSP.

### CodecLife
`phase` is where the hda core's call stands: probe, the steps of `ca0132_init`,
suspend, remove.  The download takes `dsp_state` where the code takes it; the
startup check of the Sound Blaster Z (`sbz_dsp_startup_check`) runs the whole
initialisation again from inside.  The two delayed works are queued and running,
`CancelSync` is `cancel_delayed_work_sync`.  `usage` is what the driver has added to
the device's run-time PM count, which stays with the device when the driver goes.
The parked service (`ae9_acm_poll = 0`) is `AcmService`'s.

### HdaStream
`sd` is the fields of `struct hdac_stream`, `bdl` the list in memory, `hw` what the
controller does.  `SetupBdle`, `Pieces` and `Entries` compute the list as
`setup_bdle` and `snd_hdac_stream_setup_bdle` do; `CutPoints` and `Describes` say
what a right list is without them.  Who calls `stream.c`, and in which order, is
the controller driver, which is not in the repository: the module states that
order (parameters, prepare, trigger, sync, free, under `dsp_lock`).  `DspCleanup`
comes after a stop or, when a load fails, without one: writing 0 to the control
register takes the DMA off, and the stream is handed back with `running` set.
`RunningFlag` names that stream (`LeftRunning`); `Assign`, `Release` and `StopStreams`
clear it.  Taken as immediate: the effect of that write on the DMA.  Left out: the
flag `reverse_assign` (`stream.c:387`), which nothing in the repository sets; it
changes which of the free streams is taken, and no property depends on that.

### RegmapPm
One cached register with two halves (a stereo amplifier), any of the four ways to
write it, and the power it needs: `codec_pm_lock` may give a reference, tell that
none is needed or refuse, and a refused access is tried again after a power-up
(`CALL_RAW_FUNC`).  `in_pm` and `usage_count` are the two places a reference may
be in.  The power core's suspend and resume begin and end at any time;
`RegmapSync` is the codec's own sync in its resume.  The branch for `lazy_cache` (`regmap.c:296`) is
left out: nothing in the repository sets that flag.

### DisplayAudio, WidgetTree
`DisplayAudio`: the component's states and what the graphics driver gave
(`gpuPower`, `gpuPins`).  `WidgetTree`: a device from `snd_hdac_device_init` to its
release and the array of nodes of its tree; `objects` is what sysfs has.  Each
step fails where it can.

### HdaQueries, HdmiChmap
Functions without a state of their own.  A question is asked (`hdaAsk`, `chmapAsk`)
out of all inputs of the bounds, and the next step is the function's answer; the
invariants compare it with what was asked, by another function of the driver or by
a definition of what the answer means.

## 3. Runs

All bounds are constants, named in the modules.

| Run | Checks | Bounds, and why they are enough |
|---|---|---|
| `AcmSafety` | `TypeOK`, `LightTracked`, `AmpTracked`, `TextTracked` | two changes by anybody, one outage, one suspend; 2/2/1 ticks for the code's 10/6/10.  Two changes are enough for one to fall between the clearing of a flag and the frame of the other, in every pair of contexts; 3.9 million states |
| `AcmOutages` | `AmpSettles`, `ModuleFound`, `GivenUpOnlyWhenSilent` | one change (mute from the mixer, output, or the poll parameter), two faults, so that a second outage falls into the recovery from the first |
| `AcmHealthy` | `LightSettles`, `TextSettles` | two changes and a suspend, no fault after the start, no mute from the mixer |
| `AcmMixerMute` | finds `TextSettles` violated | one mute from the mixer |
| `RingCalls` | `TypeOK`, `ReplyMatches`, `NoneSpurious`, `EventsInOrder`, `Implements` | rings of three entries, one lost answer, one power-down; three kinds of link, each the smallest for a question: one codec with interrupts, four verbs and one unsolicited response (the ring fills, wraps and is overrun); one codec with interrupts, two verbs and three unsolicited responses (a burst that overruns the ring by itself, and two to be put in the wrong order); two codecs with a polling waiter, two verbs and two unsolicited responses; 1.9 million states |
| `RingStalled` | finds `VerbReturns` violated | two codecs, two verbs |
| `DriverProgress` | `WholeReply`, `AnsweredWhenPolled` (`ScpChannel`), `BurstBound`, `OneTransaction` (`CardMmio`), `RefsBalance`, `UpdatesKept` (`RegmapPm`), `EventsAccounted`, `HandlerHasCodec` (`UnsolQueue`), `WorksStopped`, `AcmServed`, `HoldReturned` (`CodecLife`), `ProgressTypeOK` and `EverythingEnds` (the types, and the liveness, of all five) | below; 167,000 states |
| `DriverSafety` | `DetentsCounted`, `MovesRightAway` (`AcmKnob`), `ValuesLand` (`ChipIo`), `LoadSound` (`DspLoad`), `Unmuted`, `OutputFollows` (`OutputSelect`), `ListRight`, `StreamsShared` (`HdaStream`), `MapsRight` (`HdmiChmap`), `QueriesRight` (`HdaQueries`), `DisplayKept` (`DisplayAudio`), `TreeKept` (`WidgetTree`), `SafetyTypeOK` | below; 2.3 million states |
| `ScpRace` | finds `AnsweredInTime` violated | both readers, one GET of one word |
| `LoadReported` | finds `LoadReported` violated | one load, one failure |
| `DaughterHold` | finds `DaughterHold` violated | one probe of the daughter board |
| `ControlsKept` | finds `ControlsKept` violated | a slider and a resume |

A property of these two runs is a conjunction of named parts where a component has
several (`StreamsShared == OneUser /\ LockReturned /\ QuietWhenFree /\ RunningFlag`);
`PROJECT.json` has a mutant for each part.

`DriverProgress` and `DriverSafety` check several components in one run.  A variable
`part`, chosen at the start, says whose behaviour it is; the others stay where they
begin.  That is sound because those components touch each other only in ways that
one of the modules holds (the loader's stream is in `HdaStream` and in `DspLoad`,
the cancelled work in `CodecLife` and in `OutputSelect`), and every disjunct of
every module's next-state relation is taken in these runs.  Their bounds:

* SCP: three GETs of two kinds, any of them late, on a polled DSP; one GET of two
  words with both readers.
* Registers: the code's own sizes, ten streams and fourteen writes; four contexts,
  three of them at the command engine.  A frame of three bytes stands for longer
  ones, whose bytes repeat the same accesses.
* Register cache: two threads, two accesses, one failed verb, one suspend: enough
  for an access to begin before, in and after a suspend and a resume, and for a
  retry to meet another access.
* Event queue: three entries for 64, four events, two codecs, two removals: the
  queue wraps and is overrun, a handler runs in each half of a removal.
* Lifecycle: three boards, two probes, three suspends, two failures.
* Knob: reports of up to five detents, twelve in a row.
* ChipIo: two threads, one call each out of all kinds, one refused verb, one loss of
  power; addresses that share neither half, one, or both.
* DspLoad: frames of two words and a buffer of four, five images (several
  chunks, less than a frame, a list, no magic number), two loads, two failures: a
  failure within a failure, and a load on what the one before left.
* OutputSelect: three events (puts, plugs, resumes, failures) on two cards.
* HdaStream: two descriptors, two programs, three set-ups, one with the parameters
  a load has, one too large for the list; loads of two sizes, one too large for the
  list as well; pages of four bytes.
* Channel maps: all fifty allocations; maps that name up to four of five positions;
  six bits of the sink.
* Queries: connection lists up to four entries with ranges, invalid entries, two
  sizes of array and none; rates and formats two at a time; amplifier values at the
  ends; groups of all kinds.
* Display: three users, four bindings.  Tree: three ranges, two of which share
  nodes, three refreshes.

Deadlock checking is off only where the system may stop: a parked service, or
the operations of a bound used up.

### Fairness
* ACM: `WF(Work)` (the workqueue runs what is queued) and `WF(CallerStep(c))` (a
  call that has begun goes on).  Nothing is assumed of the user, of suspend and
  resume or of the module; the liveness properties say "once it answers for good
  and the service is neither parked nor suspended".
* Verb channel: a call goes on and its one-second limit expires.  Nothing is
  assumed of the hardware.
* SCP: both contexts go on; the limit expires (`SF`, because the loop looks at
  the clock at each turn).  Nothing is assumed of the DSP.
* Registers: a context goes on (`WF`); that the mutex is released does not need
  that it is handed on in turn.
* Register cache: a thread and the PM core go on (`WF`); a verb may fail.
* Event queue: the workqueue runs a pending work and handlers return (`WF`);
  nothing of interrupts or removals.
* Lifecycle: calls, queued works and running works go on (`WF`).
Each module states its own; `MC_DriverProgress` states them together, a line for
the process of each part, since only one part moves in a behaviour.

## 4. Findings

Shown by runs:
1. `AcmMixerMute`: a mute from the mixer does not mark the display
   (`ca0132.c:6569`; README line 165).
2. `RingStalled`: with two codecs the `-EAGAIN` loop of `exec_verb` has no end
   (`bus.c:117`).
3. `ScpRace`: the poll loop and the handler take a reply apart
   (`ca0132.c:2393`; README lines 292-301).  `WholeReply` in `DriverProgress` shows
   that for a single GET this ends in an error and never in wrong words.  With
   more GETs than one and notification on, the words of an earlier, torn reply may
   be read as a later one's: the model shows it (raise `MaxShared`), and `WholeForOne` proves the
   rest: with one such GET, whatever its size, no torn reply is ever handed over.
4. `LoadReported`: the status of `dsp_free_ports` takes the place of a failed
   segment's, and the load returns zero (`ca0132.c:3623`; comment at 3523).
5. `DaughterHold`: the daughter board's codec takes a run-time PM reference and
   `dbpro_free` does not return it (`ca0132.c:11465`; comment at 11493).
6. `ControlsKept`: a resume that downloads the DSP again does not set the effects'
   sliders again (`ca0132.c:11079`; comment at 11076).

Met on the way; other bounds, or a property that a module defines and no run
checks, show them:
* `pending_fx` is cleared before the frame and the acknowledgement is ignored; a
  light frame lost in an outage shorter than six ticks is never repeated
  (`ca0132.c:9698`; README lines 49-50 say the light shows the real state).
  `AcmHealthy` with `MaxFaults = 1` violates `LightSettles`.  The amplifier bit
  heals itself (`AmpSettles`), because `ae9_acm_check_regs` reads it back.
* The count of unanswered keepalives survives a suspend and the answered probe
  after it (`ca0132.c:11645`; comment at line 1166).  `AcmOutages` with
  `MaxSuspends = 1` violates `GivenUpOnlyWhenSilent`.
* Stopping the controller makes fifteen posted writes in a row
  (`controller.c:653`), where the comment at `ca0132.c:3772` puts the bridge's
  limit at about fourteen.  It is the exception `BurstBound` names.
* `HdaStream!ListDescribesBuffer`: a set-up whose list does not fit fails once; the
  next prepare finds the parameters already stored and skips the list
  (`stream.c:623`), and the stream runs on a list that is cut short.  A DSP load
  whose list does not fit leaves its parameters in the stream it had borrowed; a
  program whose set-up has the same parameters then runs on what the load wrote
  (`LooksLoaded`, the second exception of `ListRight`).
* `HdaQueries!CoefWritten`: `hda_reg_write_coef` sends the index with the verb that
  reads it (`regmap.c:222-238`), so the coefficient goes to whichever index the
  codec has.
* `ChipIo!SelectorsLand`: a selector and its value are two calls; two threads mix them.
* The comment at `ca0132.c:11491` says that a resume with the DSP loaded does not
  restart the ACM's service; line 10986 does (`AcmServed`).
* A front jack's report, held back in `hp_callback`, is never let through by
  `ca0132_unsol_hp_delayed`, which looks at the rear jack only (`RearReported` is
  the rear's); a suspend that cancels the work holds back the rear's as well.
* The puts of gain and channels compare the output control, not the output in use
  (`ca0132.c:6079`, `6285`): with the automatic choice on they may change nothing
  (`Excepted`).
* Two functions that run together can leave pins of one output with the routing of
  the other; the next selection repairs it (`overlap` in `OutputFollows`).
* A load that fails, or times out, between the start of its stream and the stop leaves
  the stream with `running` set (`stream.c:984-1006`; the comment above it says "clean
  up the stream from DSP loading to normal"): the next load is refused with `-EBUSY`
  until something else uses the stream (`leaks` in `DspLoad`, `LeftRunning` in
  `HdaStream`).
* The knob reads the Master level and puts it in two steps (`ca0132.c:9638`, `9648`);
  a put of another program between them is lost.
* A segment that times out is reported as done, a list of register writes before a
  segment of less than a frame is never written, and every error between the
  ports' allocation and their release keeps them (`excuses` and `leaks` in
  `DspLoad`).
* The startup check's `cur_address` keeps moving over its repetitions
  (`ca0132.c:10460`), so each looks at other words.
* A component unbound while its power is held leaves the cookie with the audio side
  (`stale` in `DisplayAudio`).  A refresh that fails leaves an empty entry in the
  array of nodes, at which the release stops (`holes` in `WidgetTree`).
* The compiled-in row of allocation 3 sends a fifth channel to a slot without a
  speaker (`hdmi_chmap.c:102`).
* The crossover control goes up to 100 (`ca0132.c:5918`) and the table it indexes
  has 100 entries, 0 to 99 (`ca0132.c:4368`): its maximum is read past the end at
  line 4854.  `OutputSelect` abstracts the frequency.
* A verb whose answer was lost is repeated by `chipio_send` (`ca0132.c:1630`);
  repeated after the data's high half it would write the word to the next address
  too.  `ChipIo` lets a verb fail with or without its effect, not be taken twice.
* `dspio_write_multiple` takes `chipio_mutex` for each word (`ca0132.c:2158`), so two
  senders can interleave messages.  `ScpChannel` has one sender.
* A codec at an address that is taken gets `-EBUSY` before its list is set up, and
  its release then clears the other codec's entry (`bus.c:205`, `227`).  It is not
  modelled.

## 5. What is proved

For every value of the constants, from the assumptions the modules name:

* bounds are naturals; period, limits, ring and queue sizes are not zero;
* the display's texts differ from the level's; no placeholder for "nobody"
  (`NoThread`, `Unlocked`, `NoChannel`, ...) is a thread or a channel;
* the threads of `RegmapPm` and the descriptors of `HdaStream` are finite sets,
  `ScpChannel` has a request to make, the function group's node is outside the
  ranges of widgets;
* an image is a sequence of segments, and DMA channels are numbers;
* the word that tells whether the DSP is loaded does not directly follow one that
  the driver accesses otherwise (`ChipIo`: after a loss of power the driver's copy
  of the address may be stale, and the address counts up by itself; the first
  access goes right because the copy is not that word's address).

**`AcmService_proofs`**
* `TypeCorrect`: by one lemma per conjunct of `TypeOK` (mixer, flags, counters,
  places, module).
* `LightIsTracked`, `AmpIsTracked`: inductive together with `TypeOK` and `Frozen`
  (no context is inside a change while suspended), which is needed because a
  resume starts a new selection in the `ctl` context.  The argument: a context
  that makes the state wrong is on its way to set the flag, and whoever takes the
  flag away stands at the frame that reads the state afterwards; the frame either
  arrives or is noted as lost (`SendEffect`).
* `TextIsTracked`: the same of the display, for `"mute" \notin Ops`.  The mixer's
  mute is what breaks it (finding 1).
* `GivenUpTheorem`: `GivenUpOnlyWhenSilent` for `MaxSuspends = 0`, from the
  invariant that `dead_ticks` never exceeds the probes really missed.  A suspend
  is what breaks it (section 4).

**`CommandRing_proofs`**, for rings of every size and any threads and codecs.  The
numbers of a codec's verbs that are posted in the CORB, fetched, or answered and
unread (`Coming`) form one increasing chain through the three queues (`Chain`), and
there are never more of them than `rirb.cmds` (`Counted`); a waiter's own verb is
among them, or its answer is the one stored, or the count can no longer reach zero
(`WaitOK`).  From the one invariant, `RingInv`:
* `RepliesMatch`, `NoneIsSpurious`, `EventsAreInOrder`, `RingTypes`.
* `ImplementsService`: the initial state maps to one of `VerbService`, and every
  step to a call, a return or a stutter.  A return with a value is allowed only to
  the holder and with its own response, which is `RepliesMatch` one step earlier.
  The part of `Implements` that is fairness stays with TLC, as does the end of
  every call.

**`UnsolQueue_proofs`**: `EventsAreAccounted` and `HandlerHasItsCodec`, for every
queue size and set of codecs.  The invariant says that the entries between the read
and the write pointer are the newest events in the order they came (`NewestWait`),
and that all that was handed over is older (`OlderServed`); an overrun makes the
pointers meet and hides exactly `QueueSize` entries.  The arithmetic of the
pointers is in lemmas of its own (`ModNear`, `WriteMoves`, `ReadMoves`).

**`RegmapPm_proofs`**, for any finite set of threads.
* `RefsAreBalanced`: a reference is taken and dropped by different functions, as
  `in_pm` or as the usage count, whichever is there at the time, so neither counter
  alone is tied to the threads; their sum is.  The invariant adds to it at which
  place a call may have which reference (`CallOK`); a drop finds the sum above zero
  because the thread itself is counted in it (`ThreadHas`, `MayDrop`).
* `NoUpdateIsLost` and `RegmapTypes`: a writer has `regmap_lock` and writes what
  the cache holds; every half of the codec that differs from the cache is due, by
  verbs on their way or by a write that is tried again (`AmpInv`).  That a write
  tried again is not refused rests on the references: while the codec is not up,
  only the threads that wait for it have one in the usage count (`WaitersInv`).

**`CardAccess_proofs`**
* `EngineExcludes` (`OneTransaction`), for any contexts and whatever programs they
  run: what is left of a context's program tells whether it has `mem_mutex`
  (`HeldRest`, `FreeRest`), and an engine that was opened is closed by the same
  context.  The programs of the module, repetitions included, are shown to be of
  that form.
* `WholeWhenPolled`, `NoneFailsPolled`, `ScpTypesHold`: on a DSP that is polled, the
  words queued, in hand and read are one reply or the rest of one (`QueueWhole`,
  `HandWhole`, `ReadAll`), and it is the reply to the GET under way unless one was
  late.
* `WholeForOne` (`WholeReply`), for a DSP that is polled and for one that notifies,
  any requests and sizes, and `MaxShared <= 1`: what is in the queue is the end of
  the one reply (`OneReply`), the readers never have more of its words between them
  than were taken out (`WordsShared`), and one that took them all has stored them in
  their places (`AllOwn`), so whoever finds the count complete has all of it.  The
  hypothesis is what the code needs, not a bound of the proof: with a second GET to
  a DSP that notifies, what the two readers have torn of the first reply is taken
  for the second's (finding 3), and TLC shows `WholeReply` violated.

**`Ca0132_proofs`**
* `KnobTypeCorrect`, `DetentsAreCounted`, `KnobMovesRightAway`, for every size of
  report and range of levels.  `DetentsCounted` is inductive only with the types: an
  accumulator within -1..1 is what makes the dropped remainder exactly the odd
  detent when the direction changes.  `KnobMovesRightAway` needs to know of a put under
  way that it was made from the level read and at least a point in the direction of
  its turn (`PutMoves` in `KnobInv`): the level itself may have become anything since.
* `ValuesAlwaysLand`, `ChipTypesHold`, for any threads and addresses: what is left
  of a call is a chain of verbs in which each may follow the one before it
  (`Chain`, `Ending`); for the one thread inside `chipio_mutex`, the address, the
  word read ahead and the selectors in the chip are what its next verb needs
  (`Knows`), and outside it the driver's copy of the address is the chip's or
  unknown (`AtRest`).
* `NeverLeftMuted` (`Unmuted`): as long as no command failed, a muted DSP has
  somebody with an unmuting among the steps that are left, and each program
  unmutes after it mutes (`MuteInv`, `Answered`).
* `OutputIsFollowed` (`OutputFollows`), for any number of puts, plugs, suspends and
  failed commands: in `FollowInv` every register outside `lost` is right, or a
  selection is due for it (`Excused`), or a step among those left will write it
  (`Pends`).  That the step then writes what is asked for rests on laws of the
  programs (`Obeys`: a branch comes only after its switch and a switch only after a
  choice, an `end` leaves only what is chosen again, a failure ends where the
  function does), which every function has (`FunctionsAre`, `PutsObey`) and every
  step keeps (`DropsObey`, `BranchObeys`), and on a function that runs alone having
  the output and effects there are (`Current`).

**`CodecLife_proofs`**
* `LifeTypeCorrect`, `WorksAreStopped`, `AcmIsServed` and `HoldIsReturned`, all from
  one invariant, `LifeInv`.  `WorksStopped` alone is not inductive:
  `ca0132_codec_suspend` and `ca0132_free` cancel the two works one after the other,
  so while the second is waited for, the first has to be known gone (`WorksKept`).
  `AcmServed` needs the service to be queued already in the place before the
  initialisation returns (`ServiceKept`); `HoldReturned` needs the flag
  `ae9_pm_held` tied to the phase and the board (`HoldKept`).
* `LoadsAreSound` (`LoadSound`), for any images, channels and sizes.  What a load
  has taken goes with its place (`Taken`: the channel of an overlay is known from
  the choice of the channel on, before the ports are).  As long as nothing failed or
  was excused, the segments behind are in the memory and their lists written
  (`PlaceOK`), the words sent of the current one are stored but for the rest that
  does not fill a frame (`SegmentOK`), and the chunk in the buffer is the one that
  comes next, at whatever point the DMA controller is with it (`ChunkOK`).  That the
  stream is fit for the next load but for the errors named follows the stream from
  its preparation to the clean-up, and the mark left on it until somebody clears it.

**`HdaCore_proofs`**
* `DisplayIsKept`, for any set of users and any number of bindings.  `DisplayKept`
  speaks of states in which the cookie is current; the invariant adds that a cookie
  held while nothing is bound is a stale one (`CookieBound`) and that, once somebody
  has asked, the cookie and the set of users agree (`CookieWanted`).
* `TreeIsKept`, for any ranges of nodes: the array has its entry for every node of
  the range but for holes, and sysfs has the nodes of that range (`TreeStands`).
  The add and remove of a refresh are shown to turn one range's set into the
  other's.
* `StreamsAreShared`, for any finite set of descriptors and any programs.
  `StreamsShared` alone is not inductive: that a stream is not prepared while the
  loader has it needs the owner on both sides (`Owners`, `Lent`), and that it is at
  rest when it is handed on needs the running flag to be the hardware's, or the mark of
  a failed load on a stream with nothing set up (`FlagRight`, `Bare`), and a program's
  place to be its stream's (`Active`).

* `ListIsRight` (`ListRight`), for any descriptors, programs, set-ups, pages and
  load sizes, and `ListInvariant`, which it follows from.  Two things are shown.  What
  the loop over periods and the loop inside it write tiles the buffer, in order,
  each piece within a page, with the interrupts at the ends of periods
  (`Tiles`, `Ends`, `IocEnds`).  And the list of a running stream is the one of its
  set-up: a prepared stream has its program's parameters (`Programmed`), one that has
  them has their list, whenever it was written (`ListWritten`, `StoredFor`), and
  parameters that nobody's set-up has are left from a load (`Leftover`,
  `ParamsOwned`).
* `QueriesAreRight` (`QueriesRight`), for any node numbers, lengths of list, sizes
  of array, rates and amplifier values, and `QueriesInvariant`: the answer is what the
  function returns for the question.  A list and its count agree because the two loops
  go through the same turns until one finds no room (`ReadAgrees`); an ascending list
  rises turn by turn and holds what its entries name (`ReadsAll`, `RisesOn`); no rate
  is in the table twice and the widest format a codec has bounds every other
  (`RateIndex`, `OfferedWidth`); the verbs of a register leave in the codec what was
  written (`ValueArrives`).

What a loop or a recursive function computes is proved in these without induction: the
turns at which a claim fails are a set of numbers, and if there is one there is a
first (`LeastStream`, from the well-foundedness of `<`).

Only model-checked:
* liveness (`AmpSettles`, `ModuleFound`, `LightSettles`, `TextSettles`,
  `EverythingEnds` with its parts, and the fairness of `Implements`), which is out
  of the prover's reach;
* channel maps (`MapsRight`), which depend on each of the fifty allocations;
* `BurstBound`, which holds for the contexts there are: enough of them, side by
  side, would post any number of writes;
* `ProgressTypeOK` and `SafetyTypeOK`, the types of all the parts of a run at once
  (those of the parts named above are proved).

To repeat the proofs: `tlapm <module>_proofs.tla`. The leaves are kept small, so that
none depends on the speed of the machine: each is still found with the provers' time
limits cut to a fifth (`tlapm --nofp --stretch 0.2`). The longest, `HdaCore_proofs`
and `Ca0132_proofs`, take about six minutes each.

## 6. Plan

1. Proofs: the types that remain (`OutputSelect`, `HdaStream`, `UnsolQueue`).
2. `InputSelect`: `ca0132_alt_select_in`, voice focus and the presets, with the
   shape of `OutputSelect`.
3. `ScpWriters`: the words of two senders in the DSP's command queue.
4. `AcmLink`: the bytes of late replies on the UART.
5. A refinement: `OutputSelect` as what `AcmService!SelectOut` leaves open.

## 7. Not modelled, and why

The bring-up sequences of the cards and their register tables (straight lists of
writes, through functions that are modelled); input selection, voice focus and
presets (section 6); the immediate-command path of the controller, which this card
does not use; the vendor names, power-state polling and attribute texts of the
core, `snd_array` and the tracepoints (no state that anything depends on); the
forwarding calls of the display component; the user-space tools, installer and
captures.
