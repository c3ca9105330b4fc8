------------------------- MODULE AcmService_proofs -------------------------
(***************************************************************************)
(* Type correctness and the safety properties of AcmService, for every     *)
(* value of the constants: any number of levels, puts, outages and         *)
(* suspends, and the code's own 10, 6 and 10 ticks among them.             *)
(***************************************************************************)
EXTENDS AcmService, TLAPS

LEMMA InitType == Init => TypeOK
<1> SUFFICES ASSUME Init PROVE TypeOK
  OBVIOUS
<1> USE DEF Init
<1>1. MixerOK
  BY Zenon DEF MixerOK, Outputs
<1>2. FlagsOK
  BY Zenon DEF FlagsOK
<1>3. CountsOK
  BY BoundsAssumption DEF CountsOK
<1>4. PlacesOK
  BY DEF PlacesOK, WorkAt, Callers, CallerAt
<1>5. ModuleOK
  BY DEF ModuleOK, Texts, FixedTexts
<1>6. QED
  BY <1>1, <1>2, <1>3, <1>4, <1>5 DEF TypeOK

LEMMA MixerStep == MixerOK /\ [Next]_vars => MixerOK'
<1> SUFFICES ASSUME MixerOK, [Next]_vars PROVE MixerOK'
  OBVIOUS
<1> USE DEF MixerOK
<1>1. CASE UNCHANGED driver
  BY <1>1, Zenon DEF driver
<1>2. CASE Knob \/ ServiceButtons \/ KnobPress
  BY <1>2, Zenon DEF Knob, ServiceButtons, KnobPress
<1>3. CASE User
  BY <1>3, Zenon DEF User, PutFx, PutOutput, PutLevel, PutMute, SetPoll, JackEvent, driver
<1>4. ASSUME NEW c \in Callers, CallerStep(c) PROVE MixerOK'
  BY <1>4, Zenon DEF CallerStep, SelectOut, FlagMode, FlagFx, FlagDirty, driver
<1>5. CASE Work
  BY <1>1, <1>2, <1>5, Zenon
  DEF Work, WorkAbsent, WorkPark, WorkTick, Keepalive, ServeMode, ApplyRegs, ApplyMode,
      CheckRegs, CheckReply, ServeFx, SetFxLight, ServeDisplay, ShowVolume, InitProbe,
      InitText, InitMode, driver
<1>6. CASE Suspend \/ Resume \/ Module
  BY <1>6, Zenon DEF Suspend, Resume, Module, ModuleFails, ModuleReturns, ModuleFlipsAmp,
                     driver
<1>7. QED
  BY <1>1, <1>3, <1>4, <1>5, <1>6, Zenon DEF Next, vars, driver

LEMMA FlagsStep == FlagsOK /\ [Next]_vars => FlagsOK'
<1> SUFFICES ASSUME FlagsOK, [Next]_vars PROVE FlagsOK'
  OBVIOUS
<1> USE DEF FlagsOK
<1>1. CASE UNCHANGED flags
  BY <1>1, Zenon DEF flags
<1>2. CASE Knob \/ ServiceButtons \/ KnobPress
  BY <1>2, Zenon DEF Knob, ServiceButtons, KnobPress
<1>3. CASE ServeMode \/ ServeFx \/ ServeDisplay \/ ApplyMode \/ InitMode
  BY <1>3, Zenon DEF ServeMode, ServeFx, ServeDisplay, ApplyMode, InitMode
<1>4. ASSUME NEW c \in Callers, CallerStep(c) PROVE FlagsOK'
  BY <1>4, Zenon DEF CallerStep, SelectOut, FlagMode, FlagFx, FlagDirty, flags
<1>5. CASE Work
  BY <1>1, <1>2, <1>3, <1>5, Zenon
  DEF Work, WorkAbsent, WorkPark, WorkTick, Keepalive, ApplyRegs, CheckRegs, CheckReply,
      SetFxLight, ShowVolume, InitProbe, InitText
<1>6. CASE User
  BY <1>6, Zenon DEF User, PutFx, PutOutput, PutLevel, PutMute, SetPoll, JackEvent, flags
<1>7. CASE Suspend \/ Resume \/ Module
  BY <1>7, Zenon DEF Suspend, Resume, Module, ModuleFails, ModuleReturns, ModuleFlipsAmp,
                     flags
<1>8. QED
  BY <1>1, <1>4, <1>5, <1>6, <1>7, Zenon DEF Next, vars, flags

\* The counters: tick wraps at Period, dead_ticks stays below the limit.
LEMMA CountsStep == CountsOK /\ [Next]_vars => CountsOK'
<1> SUFFICES ASSUME CountsOK, [Next]_vars PROVE CountsOK'
  OBVIOUS
<1> USE BoundsAssumption DEF CountsOK
<1> DEFINE counts == <<tick, dead_ticks, show_mode_ticks, silent, puts, faults, suspends>>
<1>1. CASE UNCHANGED counts
  BY <1>1
<1>2. ASSUME WorkAbsent \/ WorkTick PROVE CountsOK'
  <2>1. (tick + 1) % Period \in 0..(Period - 1)
    BY SMT
  <2>2. QED
    BY <1>2, <2>1 DEF WorkAbsent, WorkTick, flags, budget
<1>3. CASE Keepalive
  BY <1>3 DEF Keepalive, Probed, flags, budget
<1>4. CASE InitProbe
  BY <1>4 DEF InitProbe, Probed, flags, budget
<1>5. CASE ApplyMode \/ InitMode \/ ServeDisplay
  BY <1>5 DEF ApplyMode, InitMode, ServeDisplay, link, budget
<1>6. CASE Knob \/ ServiceButtons \/ KnobPress
  BY <1>6 DEF Knob, ServiceButtons, KnobPress, link
<1>7. CASE Work
  BY <1>1, <1>2, <1>3, <1>4, <1>5, <1>6, <1>7
  DEF Work, WorkPark, ServeMode, ApplyRegs, CheckRegs, CheckReply, ServeFx, SetFxLight,
      ShowVolume, InitText, flags, link, budget
<1>8. CASE User
  BY <1>8 DEF User, PutFx, PutOutput, PutLevel, PutMute, SetPoll, JackEvent, StartPut,
              flags, link
<1>9. ASSUME NEW c \in Callers, CallerStep(c) PROVE CountsOK'
  BY <1>9 DEF CallerStep, SelectOut, FlagMode, FlagFx, FlagDirty, flags, link, budget
<1>10. CASE Suspend \/ Resume \/ Module
  BY <1>10 DEF Suspend, Resume, Module, ModuleFails, ModuleReturns, ModuleFlipsAmp, Fault,
               flags, link, budget
<1>11. QED
  BY <1>1, <1>7, <1>8, <1>9, <1>10 DEF Next, vars, flags, link, budget

LEMMA PlacesStep == PlacesOK /\ [Next]_vars => PlacesOK'
<1> SUFFICES ASSUME PlacesOK, [Next]_vars PROVE PlacesOK'
  OBVIOUS
<1> USE DEF PlacesOK, WorkAt, InitAt, TickAt, Goto
<1>1. CASE UNCHANGED <<present, want, work, caller>>
  BY <1>1, Zenon
<1>2. CASE WorkAbsent \/ WorkPark \/ WorkTick \/ Keepalive \/ ServeMode
  BY <1>2 DEF WorkAbsent, WorkPark, WorkTick, Keepalive, ServeMode, link
<1>3. CASE ApplyRegs \/ ApplyMode \/ CheckRegs \/ CheckReply \/ Knob \/ ServiceButtons
  BY <1>3 DEF ApplyRegs, ApplyMode, CheckRegs, CheckReply, Knob, ServiceButtons, link
<1>4. CASE KnobPress \/ ServeFx \/ SetFxLight \/ ServeDisplay \/ ShowVolume
  BY <1>4 DEF KnobPress, ServeFx, SetFxLight, ServeDisplay, ShowVolume, link
<1>5. CASE InitProbe \/ InitText \/ InitMode
  BY <1>5 DEF InitProbe, InitText, InitMode, link
<1>6. CASE User
  BY <1>6 DEF User, PutFx, PutOutput, PutLevel, PutMute, SetPoll, JackEvent, StartPut,
              CallerGoto, Callers, CallerAt, link
<1>7. ASSUME NEW c \in Callers, CallerStep(c) PROVE PlacesOK'
  BY <1>7 DEF CallerStep, SelectOut, FlagMode, FlagFx, FlagDirty, CallerGoto, Callers,
              CallerAt, link
<1>8. CASE Suspend \/ Resume
  BY <1>8 DEF Suspend, Resume, CallerGoto, Callers, CallerAt, link
<1>9. CASE Module
  BY <1>9 DEF Module, ModuleFails, ModuleReturns, ModuleFlipsAmp, link
<1>10. QED
  BY <1>1, <1>2, <1>3, <1>4, <1>5, <1>6, <1>7, <1>8, <1>9 DEF Next, Work, vars, link

\* What a frame does to the module, and to the record of what it missed.
LEMMA SendType ==
  ASSUME ModuleOK, NEW f \in Shown, NEW v, Send(f, v),
         f = "text" => v \in Texts, f # "text" => v \in BOOLEAN
  PROVE  ModuleOK'
  BY DEF Send, ModuleOK, Shown

LEMMA FieldType ==
  ASSUME ModuleOK, NEW f \in {"alive", "light", "amp"}, NEW v \in BOOLEAN
  PROVE  [acm EXCEPT ![f] = v]
           \in [alive : BOOLEAN, light : BOOLEAN, amp : BOOLEAN, text : Texts]
  BY DEF ModuleOK

LEMMA ModuleStep == MixerOK /\ ModuleOK /\ [Next]_vars => ModuleOK'
<1> SUFFICES ASSUME MixerOK, ModuleOK, [Next]_vars PROVE ModuleOK'
  OBVIOUS
<1>1. CASE UNCHANGED <<acm, lost>>
  BY <1>1, Zenon DEF ModuleOK
<1>2. CASE ApplyRegs
  BY <1>2, SendType DEF ApplyRegs, Shown
<1>3. CASE ApplyMode \/ InitMode
  BY <1>3, SendType DEF ApplyMode, InitMode, Shown, ModeText, Texts, FixedTexts
<1>4. CASE SetFxLight
  <2>1. Send("light", effects_switch) /\ effects_switch \in BOOLEAN
    BY <1>4, Zenon DEF SetFxLight, MixerOK
  <2>2. QED
    BY <2>1, SendType DEF Shown
<1>5. CASE ShowVolume
  <2>1. Send("text", VolumeText) /\ VolumeText \in Texts
    BY <1>5 DEF ShowVolume, VolumeText, Texts, FixedTexts, MixerOK
  <2>2. QED
    BY <2>1, SendType DEF Shown
<1>6. CASE InitText
  BY <1>6, SendType DEF InitText, Shown, Texts, FixedTexts
<1>7. CASE InitProbe \/ Module
  <2> USE DEF ModuleOK
  <2>1. PoweredUp \in [alive : BOOLEAN, light : BOOLEAN, amp : BOOLEAN, text : Texts]
    BY DEF PoweredUp, Texts, FixedTexts
  <2>3. CASE InitProbe
    BY <1>1, <2>1, <2>3, Zenon DEF InitProbe
  <2>4. CASE ModuleReturns
    <3>1. CASE UNCHANGED lost /\ acm' = [acm EXCEPT !.alive = TRUE]
      BY <3>1, FieldType
    <3>2. CASE acm' = PoweredUp /\ lost' = Shown
      BY <2>1, <3>2
    <3>3. QED
      BY <2>4, <3>1, <3>2, Zenon DEF ModuleReturns
  <2>5. CASE ModuleFails
    BY <2>5, FieldType DEF ModuleFails
  <2>6. CASE ModuleFlipsAmp
    <3>1. (~acm.amp) \in BOOLEAN
      BY Zenon
    <3>2. lost \cup {"amp"} \in SUBSET Shown
      BY DEF Shown
    <3>3. ASSUME NEW v \in BOOLEAN
          PROVE  [acm EXCEPT !.amp = v]
                   \in [alive : BOOLEAN, light : BOOLEAN, amp : BOOLEAN, text : Texts]
      BY FieldType
    <3>4. QED
      BY <2>6, <3>1, <3>2, <3>3, Zenon DEF ModuleFlipsAmp
  <2>7. QED
    BY <1>7, <2>3, <2>4, <2>5, <2>6 DEF Module
<1>8. CASE Work
  BY <1>1, <1>2, <1>3, <1>4, <1>5, <1>6, <1>7, <1>8, Zenon
  DEF Work, WorkAbsent, WorkPark, WorkTick, Keepalive, ServeMode, CheckRegs, CheckReply,
      Knob, ServiceButtons, KnobPress, ServeFx, ServeDisplay
<1>9. CASE User
  BY <1>1, <1>9, Zenon DEF User, PutFx, PutOutput, PutLevel, PutMute, SetPoll, JackEvent
<1>10. ASSUME NEW c \in Callers, CallerStep(c) PROVE ModuleOK'
  BY <1>1, <1>10, Zenon DEF CallerStep, SelectOut, FlagMode, FlagFx, FlagDirty
<1>11. CASE Suspend \/ Resume
  BY <1>1, <1>11, Zenon DEF Suspend, Resume
<1>12. QED
  BY <1>1, <1>7, <1>8, <1>9, <1>10, <1>11, Zenon DEF Next, vars

LEMMA StepType == TypeOK /\ [Next]_vars => TypeOK'
  BY MixerStep, FlagsStep, CountsStep, PlacesStep, ModuleStep DEF TypeOK

\* Every variable of the service keeps its type (struct ca0132_spec and the
\* contexts that touch it), whatever the module and the user do.
THEOREM TypeCorrect == Spec => []TypeOK
  BY InitType, StepType, PTL DEF Spec

-----------------------------------------------------------------------------
(* The light.  LightTracked is inductive: a step that changes the effects  *)
(* state leaves a flag or a caller about to set it, and the tick that      *)
(* takes the flag away is at the frame that reads the state afterwards.    *)

LEMMA SendEffect ==
  ASSUME ModuleOK, NEW f \in Shown, NEW v, Send(f, v)
  PROVE  /\ f \in lost' \/ acm'[f] = v
         /\ \A g \in Shown \ {f} : acm'[g] = acm[g] /\ (g \in lost' <=> g \in lost)
  BY DEF Send, ModuleOK, Shown

\* The works have ended and the tasks are outside the driver while the system
\* is suspended (ca0132_codec_suspend): what the flags promise outlives it.
Frozen == work = "suspended" => \A c \in Callers : caller[c] = "idle"

LEMMA FrozenStep == PlacesOK /\ Frozen /\ [Next]_vars => Frozen'
<1> SUFFICES ASSUME PlacesOK, Frozen, [Next]_vars, work' = "suspended"
             PROVE  \A c \in Callers : caller'[c] = "idle"
  BY DEF Frozen
<1>1. CASE Work
  BY <1>1 DEF Work, WorkAbsent, WorkPark, WorkTick, Keepalive, ServeMode, ApplyRegs, ApplyMode,
      CheckRegs, CheckReply, Knob, ServiceButtons, KnobPress, ServeFx, SetFxLight,
      ServeDisplay, ShowVolume, InitProbe, InitText, InitMode, Goto
<1>2. CASE User
  BY <1>2 DEF User, PutFx, PutOutput, PutLevel, PutMute, SetPoll, JackEvent, StartPut
<1>3. ASSUME NEW c \in Callers, CallerStep(c) PROVE FALSE
  BY <1>3 DEF CallerStep, SelectOut, FlagMode, FlagFx, FlagDirty, Frozen, Callers
<1>4. CASE Suspend \/ Resume
  BY <1>4 DEF Suspend, Resume, Goto
<1>5. CASE Module \/ UNCHANGED vars
  BY <1>5 DEF Module, ModuleFails, ModuleReturns, ModuleFlipsAmp, Frozen, vars
<1>6. QED
  BY <1>1, <1>2, <1>3, <1>4, <1>5 DEF Next

LEMMA LightStep == TypeOK /\ Frozen /\ LightTracked /\ [Next]_vars => LightTracked'
<1> SUFFICES ASSUME TypeOK, Frozen, LightTracked, [Next]_vars PROVE LightTracked'
  OBVIOUS
<1> USE DEF LightTracked
<1>0. PlacesOK /\ ModuleOK
  BY DEF TypeOK
<1>1. ASSUME UNCHANGED <<acm, lost, effects_switch, pending_fx, caller>>, work # "setLight"
      PROVE  LightTracked'
  BY <1>1
<1>2. CASE SetFxLight
  <2>1. "light" \in lost' \/ acm'.light = effects_switch
    BY <1>2, <1>0, SendEffect DEF SetFxLight, Shown
  <2>2. QED
    BY <1>2, <2>1, Zenon DEF SetFxLight, driver
<1>3. ASSUME ApplyRegs \/ ApplyMode \/ ShowVolume \/ InitText \/ InitMode
      PROVE  LightTracked'
  <2>1. acm'.light = acm.light /\ ("light" \in lost' <=> "light" \in lost)
    BY <1>3, <1>0, SendEffect DEF ApplyRegs, ApplyMode, ShowVolume, InitText, InitMode, Shown
  <2>2. UNCHANGED <<effects_switch, pending_fx, caller>> /\ work # "setLight"
    BY <1>3 DEF ApplyRegs, ApplyMode, ShowVolume, InitText, InitMode, driver, flags
  <2>3. QED
    BY <2>1, <2>2, Zenon
<1>4. CASE ServeFx
  BY <1>4, Zenon DEF ServeFx, driver, Goto
<1>5. CASE ServiceButtons
  <2>1. CASE UNCHANGED <<effects_switch, cur_out_type, pending_fx, pending_mode, puts>>
    BY <1>1, <1>5, <2>1 DEF ServiceButtons
  <2>2. CASE pending_fx' = TRUE
    BY <2>2, Zenon
  <2>3. QED
    BY <1>5, <2>1, <2>2, Zenon DEF ServiceButtons
<1>6. CASE InitProbe
  BY <1>6, Zenon DEF InitProbe, driver, flags, Shown
<1>7. CASE Work
  BY <1>1, <1>2, <1>3, <1>4, <1>5, <1>6, <1>7
  DEF Work, WorkAbsent, WorkPark, WorkTick, Keepalive, ServeMode, CheckRegs, CheckReply,
      Knob, KnobPress, ServeDisplay, driver, flags
<1>8. CASE PutFx
  BY <1>0, <1>8 DEF PutFx, CallerGoto, PlacesOK, Callers
<1>9. ASSUME PutOutput \/ PutLevel \/ PutMute \/ SetPoll \/ JackEvent PROVE LightTracked'
  <2>1. caller["ctl"] = "flagFx" => caller'["ctl"] = "flagFx"
    BY <1>0, <1>9 DEF PutOutput, PutLevel, PutMute, SetPoll, JackEvent, StartPut, CallerGoto,
                PlacesOK, Callers
  <2>2. QED
    BY <1>9, <2>1, Zenon
    DEF PutOutput, PutLevel, PutMute, SetPoll, JackEvent, driver, flags
<1>10. ASSUME NEW c \in Callers, CallerStep(c) PROVE LightTracked'
  <2>1. pending_fx' \/ (caller["ctl"] = "flagFx" => caller'["ctl"] = "flagFx")
    BY <1>0, <1>10 DEF CallerStep, SelectOut, FlagMode, FlagFx, FlagDirty, CallerGoto,
                PlacesOK, Callers
  <2>2. QED
    BY <1>10, <2>1, Zenon
    DEF CallerStep, SelectOut, FlagMode, FlagFx, FlagDirty, driver, flags
<1>11. CASE Suspend
  BY <1>11, Zenon DEF Suspend, driver, flags
<1>12. CASE Resume
  <2>1. caller["ctl"] # "flagFx"
    BY <1>12 DEF Resume, Frozen, Callers
  <2>2. QED
    BY <1>12, <2>1, Zenon DEF Resume, driver, flags
<1>13. CASE Module
  BY <1>0, <1>13 DEF Module, ModuleFails, ModuleReturns, ModuleFlipsAmp, driver, flags, ModuleOK, Shown
<1>14. CASE UNCHANGED vars
  BY <1>14, Zenon DEF vars, driver, flags
<1>15. QED
  BY <1>7, <1>8, <1>9, <1>10, <1>11, <1>12, <1>13, <1>14, Zenon DEF Next, User

-----------------------------------------------------------------------------
(* The amplifier bit, along the same argument.                             *)

LEMMA AmpStep == TypeOK /\ Frozen /\ AmpTracked /\ [Next]_vars => AmpTracked'
<1> SUFFICES ASSUME TypeOK, Frozen, AmpTracked, [Next]_vars PROVE AmpTracked'
  OBVIOUS
<1> USE DEF AmpTracked
<1>0. PlacesOK /\ ModuleOK
  BY DEF TypeOK
<1>1. ASSUME UNCHANGED <<acm, lost, cur_out_type, pending_mode, caller>>, work # "setAmp"
      PROVE  AmpTracked'
  BY <1>1
<1>2. CASE ApplyRegs
  <2>1. "amp" \in lost' \/ acm'.amp = (cur_out_type = "HP")
    BY <1>0, <1>2, SendEffect DEF ApplyRegs, Shown
  <2>2. QED
    BY <1>2, <2>1, Zenon DEF ApplyRegs, driver
<1>3. ASSUME SetFxLight \/ ApplyMode \/ ShowVolume \/ InitText \/ InitMode
      PROVE  AmpTracked'
  <2>1. acm'.amp = acm.amp /\ ("amp" \in lost' <=> "amp" \in lost)
    BY <1>0, <1>3, SendEffect DEF SetFxLight, ApplyMode, ShowVolume, InitText, InitMode, Shown
  <2>2. UNCHANGED <<cur_out_type, pending_mode, caller>> /\ work # "setAmp"
    BY <1>3 DEF SetFxLight, ApplyMode, ShowVolume, InitText, InitMode, driver, flags
  <2>3. QED
    BY <2>1, <2>2, Zenon
<1>4. CASE ServeMode
  BY <1>4, Zenon DEF ServeMode, driver, Goto
<1>5. CASE ServiceButtons \/ KnobPress
  <2>1. CASE UNCHANGED <<cur_out_type, pending_mode>>
    BY <1>1, <1>5, <2>1 DEF ServiceButtons, KnobPress
  <2>2. CASE pending_mode' = TRUE
    BY <2>2, Zenon
  <2>3. QED
    BY <1>5, <2>1, <2>2, Zenon DEF ServiceButtons, KnobPress
<1>6. CASE InitProbe
  BY <1>6, Zenon DEF InitProbe, driver, flags, Shown
<1>7. CASE Work
  BY <1>1, <1>2, <1>3, <1>4, <1>5, <1>6, <1>7
  DEF Work, WorkAbsent, WorkPark, WorkTick, Keepalive, ServeFx, CheckRegs, CheckReply,
      Knob, ServeDisplay, driver, flags
<1>8. ASSUME User PROVE AmpTracked'
  <2>1. \A c \in Callers : caller[c] = "flagMode" => caller'[c] = "flagMode"
    BY <1>0, <1>8 DEF User, PutFx, PutOutput, PutLevel, PutMute, SetPoll, JackEvent, StartPut,
                      CallerGoto, PlacesOK, Callers
  <2>2. UNCHANGED <<cur_out_type, pending_mode, acm, lost, work>>
    BY <1>8, Zenon
    DEF User, PutFx, PutOutput, PutLevel, PutMute, SetPoll, JackEvent, driver, flags
  <2>3. QED
    BY <2>1, <2>2
<1>9. ASSUME NEW c \in Callers, CallerStep(c) PROVE AmpTracked'
  <2>1. CASE SelectOut(c)
    BY <1>0, <2>1 DEF SelectOut, CallerGoto, PlacesOK
  <2>2. CASE FlagMode(c)
    BY <2>2, Zenon DEF FlagMode
  <2>3. CASE FlagFx \/ FlagDirty
    <3>1. \A d \in Callers : caller[d] = "flagMode" => caller'[d] = "flagMode"
      BY <1>0, <2>3 DEF FlagFx, FlagDirty, CallerGoto, PlacesOK, Callers
    <3>2. UNCHANGED <<cur_out_type, pending_mode, acm, lost, work>>
      BY <2>3, Zenon DEF FlagFx, FlagDirty, driver
    <3>3. QED
      BY <3>1, <3>2
  <2>4. QED
    BY <1>9, <2>1, <2>2, <2>3, Zenon DEF CallerStep
<1>10. CASE Suspend
  BY <1>10, Zenon DEF Suspend, driver, flags
<1>11. CASE Resume
  <2>1. \A c \in Callers : caller[c] # "flagMode"
    BY <1>11 DEF Resume, Frozen
  <2>2. QED
    BY <1>11, <2>1, Zenon DEF Resume, driver, flags
<1>12. CASE Module
  BY <1>0, <1>12 DEF Module, ModuleFails, ModuleReturns, ModuleFlipsAmp, driver, flags,
                     ModuleOK, Shown
<1>13. CASE UNCHANGED vars
  BY <1>13, Zenon DEF vars, driver, flags
<1>14. QED
  BY <1>7, <1>8, <1>9, <1>10, <1>11, <1>12, <1>13, Zenon DEF Next

\* The inductive invariant: both tracked values, and nobody half-way through a
\* change while suspended (without it a resume could forget a flag to come).
Tracked == TypeOK /\ Frozen /\ LightTracked /\ AmpTracked

LEMMA TrackedInvariant == Spec => []Tracked
<1>1. Init => Tracked
  BY InitType DEF Tracked, Init, Frozen, LightTracked, AmpTracked, Shown
<1>2. Tracked /\ [Next]_vars => Tracked'
  BY StepType, FrozenStep, LightStep, AmpStep DEF Tracked, TypeOK
<1>3. QED
  BY <1>1, <1>2, PTL DEF Spec

\* No interleaving of mixer puts, the SBX button and the tick leaves the light
\* wrong with no refresh flagged, for a module that missed no light frame
\* (ca0132_switch_put, ae9_acm_service_buttons, ae9_acm_work_fn).
THEOREM LightIsTracked == Spec => []LightTracked
  BY TrackedInvariant, PTL DEF Tracked

\* The same of the headphone-amplifier bit and cur_out_type
\* (ca0132_alt_select_out, ae9_acm_apply_mode, ae9_acm_check_regs).
THEOREM AmpIsTracked == Spec => []AmpTracked
  BY TrackedInvariant, PTL DEF Tracked

-----------------------------------------------------------------------------
(* Giving the module up.  With no suspend in between, dead_ticks never     *)
(* runs ahead of the unanswered probes: it is zero whenever a probe of     *)
(* ae9_acm_init may be answered.                                           *)

DeadCounts ==
  /\ dead_ticks <= silent
  /\ ~present => dead_ticks = 0
  /\ work \in InitAt => ~present
  /\ work = "keepalive" => present

LEMMA DeadStep ==
  ASSUME MaxSuspends = 0, TypeOK, DeadCounts, [Next]_vars
  PROVE  DeadCounts' /\ (present /\ ~present' => work' = "suspended" \/ silent' = DeadLimit)
<1> USE BoundsAssumption DEF DeadCounts, InitAt
<1>0. CountsOK /\ PlacesOK
  BY DEF TypeOK
<1>1. CASE UNCHANGED <<present, dead_ticks, silent, work>>
  BY <1>1
<1>2. CASE Keepalive
  <2>0. dead_ticks \in Nat /\ silent \in 0..DeadLimit /\ DeadLimit \in Nat \ {0}
    BY <1>0 DEF CountsOK
  <2>1. CASE acm.alive
    BY <2>0, <1>2, <2>1 DEF Keepalive, Probed, Goto
  <2>2. CASE ~acm.alive
    <3>1. silent' = IF silent < DeadLimit THEN silent + 1 ELSE silent
      BY <1>2, <2>2 DEF Keepalive, Probed
    <3>2. CASE dead_ticks + 1 < DeadLimit
      <4>0. ~(dead_ticks + 1 >= DeadLimit)
        BY <2>0, <3>2
      <4>1. dead_ticks' = dead_ticks + 1 /\ work' = "mode" /\ present' = present
        BY <1>2, <2>2, <4>0, Zenon DEF Keepalive, Goto
      <4>2. present
        BY <1>2 DEF Keepalive
      <4>3. dead_ticks' <= silent'
        BY <2>0, <3>1, <3>2, <4>1
      <4>4. QED
        BY <4>1, <4>2, <4>3
    <3>3. CASE dead_ticks + 1 >= DeadLimit
      <4>0. ~(dead_ticks + 1 < DeadLimit)
        BY <2>0, <3>3
      <4>1. dead_ticks' = 0 /\ work' = "queued" /\ present' = FALSE
        BY <1>2, <2>2, <4>0, Zenon DEF Keepalive, Goto
      <4>2. silent' = DeadLimit
        BY <2>0, <3>1, <3>3
      <4>3. QED
        BY <2>0, <4>1, <4>2
    <3>4. QED
      BY <2>0, <3>2, <3>3
  <2>3. QED
    BY <2>1, <2>2
<1>3. CASE InitProbe
  BY <1>0, <1>3 DEF InitProbe, Probed, Goto, CountsOK
<1>4. CASE WorkAbsent \/ WorkPark \/ WorkTick
  BY <1>4 DEF WorkAbsent, WorkPark, WorkTick, Goto, link
<1>5. CASE ApplyRegs \/ SetFxLight \/ ShowVolume \/ InitText \/ InitMode
  BY <1>0, <1>5 DEF ApplyRegs, SetFxLight, ShowVolume, InitText, InitMode, Goto, link, CountsOK
<1>6. CASE ServeMode \/ ApplyMode \/ CheckRegs \/ CheckReply \/ Knob \/ ServiceButtons
             \/ KnobPress \/ ServeFx \/ ServeDisplay
  BY <1>6 DEF ServeMode, ApplyMode, CheckRegs, CheckReply, Knob, ServiceButtons, KnobPress,
              ServeFx, ServeDisplay, Goto, link
<1>7. CASE User
  <2>1. UNCHANGED <<link, work>>
    BY <1>7, Zenon DEF User, PutFx, PutOutput, PutLevel, PutMute, SetPoll, JackEvent
  <2>2. QED
    BY <2>1, <1>1, Zenon DEF link
<1>8. ASSUME NEW c \in Callers, CallerStep(c)
      PROVE  UNCHANGED <<present, dead_ticks, silent, work>>
  BY <1>8, Zenon DEF CallerStep, SelectOut, FlagMode, FlagFx, FlagDirty, link
<1>9. CASE Suspend
  BY <1>0, <1>9 DEF Suspend, CountsOK
<1>10. CASE Resume
  BY <1>10 DEF Resume, Goto, link
<1>11. CASE Module
  BY <1>1, <1>11, Zenon DEF Module, ModuleFails, ModuleReturns, ModuleFlipsAmp, link
<1>12. CASE UNCHANGED vars
  BY <1>1, <1>12, Zenon DEF vars, link
<1>13. QED
  BY <1>1, <1>2, <1>3, <1>4, <1>5, <1>6, <1>7, <1>8, <1>9, <1>10, <1>11, <1>12, Zenon
  DEF Next, Work

\* On a machine that does not suspend, a present module is given up only after
\* DeadLimit unanswered probes in a row (ae9_acm_work_fn).  A suspend breaks
\* it: the count survives the re-probe after the resume.
THEOREM GivenUpTheorem ==
  ASSUME MaxSuspends = 0
  PROVE  Spec => GivenUpOnlyWhenSilent
<1>1. Init => DeadCounts
  BY DEF Init, DeadCounts, InitAt
<1>2. TypeOK /\ DeadCounts /\ [Next]_vars => DeadCounts'
  BY DeadStep
<1>3. TypeOK /\ DeadCounts /\ [Next]_vars
        => [present /\ ~present' => work' = "suspended" \/ silent' = DeadLimit]_vars
  BY DeadStep
<1>4. QED
  BY <1>1, <1>2, <1>3, TypeCorrect, PTL DEF Spec, GivenUpOnlyWhenSilent

-----------------------------------------------------------------------------
(* The display.                                                            *)

LEMMA TextStep ==
  ASSUME "mute" \notin Ops, TypeOK, Frozen, TextTracked, [Next]_vars
  PROVE  TextTracked'
<1> USE DEF TextTracked, VolumeText
<1>0. PlacesOK /\ ModuleOK /\ CountsOK
  BY DEF TypeOK
<1>1. ASSUME UNCHANGED <<acm, lost, level, muted, disp_dirty, show_mode_ticks, caller>>,
             work \notin {"showVol", "initAmp", "initMode"}
      PROVE  TextTracked'
  BY <1>1
<1>2. CASE ShowVolume
  <2>1. "text" \in lost' \/ acm'.text = VolumeText
    BY <1>0, <1>2, SendEffect DEF ShowVolume, Shown
  <2>2. QED
    BY <1>2, <2>1, Zenon DEF ShowVolume, driver
<1>3. CASE ApplyMode \/ InitMode
  BY <1>3, BoundsAssumption DEF ApplyMode, InitMode
<1>4. CASE SetFxLight \/ ApplyRegs
  <2>1. acm'.text = acm.text /\ ("text" \in lost' <=> "text" \in lost)
    BY <1>0, <1>4, SendEffect DEF SetFxLight, ApplyRegs, Shown
  <2>2. UNCHANGED <<level, muted, disp_dirty, show_mode_ticks, caller>>
    BY <1>4, Zenon DEF SetFxLight, ApplyRegs, driver, flags
  <2>3. work \in {"showVol", "initAmp", "initMode"} => work' = "initMode"
    BY <1>4 DEF SetFxLight, ApplyRegs, Goto
  <2>4. QED
    BY <2>1, <2>2, <2>3
<1>5. CASE InitText
  BY <1>5 DEF InitText, Goto
<1>6. CASE ServeDisplay
  <2>1. UNCHANGED <<level, muted, acm, lost, caller>> /\ work = "disp"
    BY <1>6, Zenon DEF ServeDisplay, driver
  <2>2. CASE show_mode_ticks = 0
    <3>1. UNCHANGED show_mode_ticks
      BY <1>0, <1>6, <2>2 DEF ServeDisplay
    <3>2. disp_dirty => work' = "showVol"
      BY <1>0, <1>6, <2>2 DEF ServeDisplay, Goto
    <3>3. QED
      BY <2>1, <2>2, <3>1, <3>2
  <2>3. CASE show_mode_ticks > 0
    <3>1. show_mode_ticks' = show_mode_ticks - 1
      BY <1>0, <1>6, <2>3 DEF ServeDisplay
    <3>2. disp_dirty \/ show_mode_ticks = 1 => disp_dirty'
      <4>1. show_mode_ticks # 0
        BY <1>0, <2>3 DEF CountsOK
      <4>2. QED
        BY <1>6, <4>1, Zenon DEF ServeDisplay
    <3>3. disp_dirty' \/ show_mode_ticks' > 0
      BY <1>0, <2>3, <3>1, <3>2 DEF CountsOK
    <3>4. QED
      BY <3>3
  <2>4. QED
    BY <1>0, <2>2, <2>3 DEF CountsOK
<1>7. CASE Knob
  <2>1. CASE UNCHANGED <<level, disp_dirty, puts>>
    BY <1>1, <1>7, <2>1 DEF Knob
  <2>2. CASE disp_dirty' = TRUE
    BY <2>2, Zenon
  <2>3. QED
    BY <1>7, <2>1, <2>2, Zenon DEF Knob
<1>8. CASE KnobPress
  <2>1. CASE UNCHANGED <<muted, disp_dirty>>
    BY <1>1, <1>8, <2>1 DEF KnobPress
  <2>2. CASE disp_dirty' = TRUE
    BY <2>2, Zenon
  <2>3. QED
    BY <1>8, <2>1, <2>2, Zenon DEF KnobPress
<1>9. CASE InitProbe
  BY <1>9, Zenon DEF InitProbe, driver, flags, Shown
<1>10. CASE Work
  BY <1>1, <1>2, <1>3, <1>4, <1>5, <1>6, <1>7, <1>8, <1>9, <1>10
  DEF Work, WorkAbsent, WorkPark, WorkTick, Keepalive, ServeMode, ServeFx, CheckRegs,
      CheckReply, ServiceButtons, driver, flags
<1>11. CASE PutFx \/ PutOutput \/ SetPoll \/ JackEvent
  <2>1. caller["ctl"] = "flagDirty" => caller'["ctl"] = "flagDirty"
    BY <1>0, <1>11 DEF PutFx, PutOutput, SetPoll, JackEvent, StartPut, CallerGoto,
                       PlacesOK, Callers
  <2>2. UNCHANGED <<level, muted, acm, lost, disp_dirty, show_mode_ticks, work>>
    BY <1>11, Zenon DEF PutFx, PutOutput, SetPoll, JackEvent, driver, flags
  <2>3. QED
    BY <2>1, <2>2
<1>12. CASE PutLevel
  BY <1>0, <1>12 DEF PutLevel, CallerGoto, PlacesOK, Callers
<1>13. CASE PutMute
  BY <1>13 DEF PutMute, StartPut
<1>14. ASSUME NEW c \in Callers, CallerStep(c) PROVE TextTracked'
  <2>1. CASE FlagDirty
    BY <2>1, Zenon DEF FlagDirty
  <2>2. CASE SelectOut(c) \/ FlagMode(c) \/ FlagFx
    <3>1. caller["ctl"] = "flagDirty" => caller'["ctl"] = "flagDirty"
      BY <1>0, <2>2 DEF SelectOut, FlagMode, FlagFx, CallerGoto, PlacesOK, Callers
    <3>2. UNCHANGED <<level, muted, acm, lost, disp_dirty, show_mode_ticks, work>>
      BY <2>2, Zenon DEF SelectOut, FlagMode, FlagFx, driver, flags
    <3>3. QED
      BY <3>1, <3>2
  <2>3. QED
    BY <1>14, <2>1, <2>2, Zenon DEF CallerStep
<1>15. CASE Suspend
  BY <1>15 DEF Suspend, driver, flags
<1>16. CASE Resume
  <2>1. caller["ctl"] # "flagDirty"
    BY <1>16 DEF Resume, Frozen, Callers
  <2>2. work = "suspended" /\ UNCHANGED <<level, muted, acm, lost, disp_dirty, show_mode_ticks>>
    BY <1>16, Zenon DEF Resume, driver, flags
  <2>3. QED
    BY <2>1, <2>2
<1>17. CASE Module
  BY <1>0, <1>17 DEF Module, ModuleFails, ModuleReturns, ModuleFlipsAmp, driver, flags,
                     ModuleOK, Shown
<1>18. CASE UNCHANGED vars
  BY <1>18, Zenon DEF vars, driver, flags
<1>19. QED
  BY <1>10, <1>11, <1>12, <1>13, <1>14, <1>15, <1>16, <1>17, <1>18, Zenon DEF Next, User

\* As long as nobody mutes from the mixer, no level change is forgotten: the
\* display is up to date, or a refresh of it is flagged or will be when the
\* mode text expires (ae9_master_apply, ae9_acm_work_fn).
THEOREM TextIsTracked ==
  ASSUME "mute" \notin Ops
  PROVE  Spec => []TextTracked
<1>1. Init => TextTracked
  BY DEF Init, TextTracked, Shown
<1>2. Tracked /\ TextTracked /\ [Next]_vars => TextTracked'
  BY TextStep DEF Tracked
<1>3. QED
  BY <1>1, <1>2, TrackedInvariant, PTL DEF Spec
=============================================================================
