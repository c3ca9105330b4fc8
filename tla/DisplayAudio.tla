---------------------------- MODULE DisplayAudio ----------------------------
(***************************************************************************)
(* The tie to a graphics driver (component.c, i915.c): the audio component *)
(* is added, bound, unbound and taken down in an order that graphics and   *)
(* audio drivers decide, and meanwhile the controller and the codecs ask   *)
(* for the display's power.                                                *)
(*                                                                         *)
(* External: the graphics driver, which comes, binds, fails to and leaves; *)
(* and snd_hdac_acomp_exit's callers, who have no call under way.          *)
(***************************************************************************)
EXTENDS Integers, FiniteSets

CONSTANTS
  DisplayUsers,  \* indexes of codecs and of the controller
  MaxBinds       \* bound: times the component is bound

ASSUME DisplayAssumption == MaxBinds \in Nat

VARIABLES
  acomp,           \* none, added (no ops yet), bound
  gpu,             \* the graphics driver: gone, there
  power_status,    \* display_power_status: who wants power
  power_active,    \* display_power_active: a cookie is held
  gpuPower,        \* power references the graphics driver gave out
  gpuPins,         \* references on its module
  binds,           \* counter of the bound
  unasked,         \* history: nobody has asked since the component was bound
  stale            \* history: it was unbound while its power was held

displayVars == <<acomp, gpu, power_status, power_active, gpuPower, gpuPins, binds, unasked, stale>>

DisplayInit ==
  /\ acomp = "none" /\ gpu = "gone" /\ power_status = {} /\ power_active = FALSE
  /\ gpuPower = 0 /\ gpuPins = 0 /\ binds = 0 /\ unasked = TRUE /\ stale = FALSE

\* The graphics driver is loaded, or, when nothing is bound, removed with its count
GpuComesOrGoes ==
  /\ acomp # "bound"
  /\ gpu' = IF gpu = "gone" THEN "there" ELSE "gone"
  /\ gpuPower' = 0 /\ stale' = power_active
  /\ UNCHANGED <<acomp, power_status, power_active, gpuPins, binds, unasked>>

\* component_bind_all, the check of ops, try_module_get, master_bind
BindOk ==
  /\ acomp' = "bound" /\ gpuPins' = gpuPins + 1
  /\ binds' = binds + 1 /\ unasked' = TRUE

\* Mutant of BindFails: the module stays pinned.
BindFails_Pinned ==
  /\ acomp' = "added" /\ \/ UNCHANGED gpuPins
                         \/ gpuPins' = gpuPins + 1
  /\ binds' = binds + 1 /\ UNCHANGED unasked

\* ... each of which may fail: what was done before is undone
BindFails == acomp' = "added" /\ binds' = binds + 1 /\ UNCHANGED <<gpuPins, unasked>>

\* hdac_component_master_bind, when both sides are there
MasterBind ==
  /\ acomp = "added" /\ gpu = "there" /\ binds < MaxBinds
  /\ BindOk \/ BindFails
  /\ UNCHANGED <<gpu, power_status, power_active, gpuPower, stale>>

\* hdac_component_master_unbind: the graphics driver goes; power is not given back
MasterUnbind ==
  /\ acomp = "bound"
  /\ acomp' = "added" /\ gpu' = "gone" /\ gpuPins' = gpuPins - 1 /\ gpuPower' = 0
  /\ stale' = (stale \/ power_active)
  /\ UNCHANGED <<power_status, power_active, binds, unasked>>

\* snd_hdac_acomp_init, which may fail and leave nothing; bound at once if it can be
AcompInit ==
  /\ acomp = "none"
  /\ \/ acomp' = "added" /\ UNCHANGED <<gpuPins, binds, unasked>>
     \/ gpu = "there" /\ binds < MaxBinds /\ BindOk
  /\ UNCHANGED <<gpu, power_status, power_active, gpuPower, stale>>

\* snd_hdac_acomp_exit: power is given back if there is still someone to take it
AcompExit ==
  /\ acomp # "none"
  /\ gpuPower' = IF power_active /\ acomp = "bound" THEN gpuPower - 1 ELSE gpuPower
  /\ gpuPins' = IF acomp = "bound" THEN gpuPins - 1 ELSE gpuPins
  /\ acomp' = "none" /\ power_active' = FALSE /\ power_status' = {}
  /\ UNCHANGED <<gpu, binds, unasked, stale>>

\* snd_hdac_i915_init with graphics present: without ops the component goes again
I915Init ==
  /\ acomp = "none"
  /\ \/ gpu = "there" /\ binds < MaxBinds /\ BindOk /\ UNCHANGED <<power_status, power_active>>
     \/ power_status' = {} /\ power_active' = FALSE
        /\ UNCHANGED <<acomp, gpuPins, binds, unasked>>
  /\ UNCHANGED <<gpu, gpuPower, stale>>

Asked(idx, enable) == IF enable THEN power_status \cup {idx} ELSE power_status \ {idx}

\* Mutant of DisplayPower: each request takes a reference.
DisplayPower_EachTime(idx, enable) ==
  /\ power_status' = Asked(idx, enable)
  /\ acomp = "bound"
  /\ power_active' = (power_status' # {})
  /\ gpuPower' = IF enable THEN gpuPower + 1 ELSE IF power_active THEN gpuPower - 1 ELSE gpuPower
  /\ unasked' = FALSE
  /\ UNCHANGED <<acomp, gpu, gpuPins, binds, stale>>

\* snd_hdac_display_power, under bus->lock: power with the first who asks, until the
\* last no longer does
DisplayPower(idx, enable) ==
  /\ power_status' = Asked(idx, enable)
  /\ IF acomp # "bound" THEN UNCHANGED <<power_active, gpuPower, unasked>>
     ELSE /\ power_active' = (power_status' # {})
          /\ gpuPower' = CASE power_status' # {} /\ ~power_active -> gpuPower + 1
                           [] power_status' = {} /\ power_active -> gpuPower - 1
                           [] OTHER -> gpuPower
          /\ unasked' = FALSE
  /\ UNCHANGED <<acomp, gpu, gpuPins, binds, stale>>

DisplayNext ==
  \/ GpuComesOrGoes \/ MasterBind \/ MasterUnbind \/ AcompInit \/ AcompExit \/ I915Init
  \/ \E idx \in DisplayUsers, enable \in BOOLEAN : DisplayPower(idx, enable)

DisplaySpec == DisplayInit /\ [][DisplayNext]_displayVars

-----------------------------------------------------------------------------
(* Properties.                                                             *)

\* The graphics module is pinned while it is bound and only then, whatever fails
\* in a binding and however the two sides part.
PinnedWhileBound == gpuPins = IF acomp = "bound" THEN 1 ELSE 0

\* The display has power exactly while someone wants it, as soon as anyone has
\* asked since the component was bound, and the audio side never holds more than
\* one reference.  It is not so after the component was unbound with its power
\* held: the old cookie keeps the next driver from being asked, and is given back
\* to it at the exit.
PowerFollowsUsers ==
  /\ acomp = "bound" /\ ~unasked /\ ~stale => gpuPower = IF power_status # {} THEN 1 ELSE 0
  /\ ~stale => gpuPower = IF power_active THEN 1 ELSE 0

\* What the audio side takes from the graphics driver, module and power, is given
\* back once, in whatever order users, bindings and failures come.
DisplayKept == PinnedWhileBound /\ PowerFollowsUsers
=============================================================================
