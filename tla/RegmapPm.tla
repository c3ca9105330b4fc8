------------------------------- MODULE RegmapPm -------------------------------
(***************************************************************************)
(* The register cache of a codec (regmap.c) and its power references       *)
(* (device.c, snd_hdac_power_up_pm and the like): threads write registers  *)
(* while the codec goes down and comes up at run time.  A register is the  *)
(* stereo amplifier pseudo register: a pair that takes one verb if both    *)
(* halves agree and two if not.                                            *)
(*                                                                         *)
(* External: the regmap core (the cache is written before the device), the *)
(* run-time PM core, and the codec's callbacks, which hold in_pm from their *)
(* beginning to their end and sync the cache in a resume.                  *)
(***************************************************************************)
EXTENDS Integers, FiniteSets

CONSTANTS
  RegThreads,  \* threads that access registers
  MaxRegCalls, \* bound: calls they make in all
  MaxVerbFails, \* bound: verbs that fail
  MaxPowerDowns \* bound: suspends

Unlocked == "free"   \* regmap_lock is held by nobody

ASSUME RegmapAssumption ==
  /\ IsFiniteSet(RegThreads) /\ Unlocked \notin RegThreads
  /\ MaxRegCalls \in Nat /\ MaxVerbFails \in Nat /\ MaxPowerDowns \in Nat

VARIABLES
  cache,       \* the register in the cache: <<left, right>>, or NotCached
  amp,         \* the register in the codec
  overwriting, \* caps_overwriting
  in_pm, usage_count,  \* codec->in_pm, the device's run-time usage count
  rpm,         \* run-time status: active, suspending, suspended, resuming, or disabled
  cb,          \* where the PM callback is: none, begun, left
  reg_lock,    \* holder of regmap_lock
  call,        \* [RegThreads -> what it does: at, op, lock (its pm_lock), change]
  regCalls, verbFails, powerDowns,  \* counters of the bounds
  asked,       \* history: what the register was last asked to hold
  excuse       \* history: why the codec may differ from the cache, see HwFollowsCache

regmapVars == <<cache, amp, overwriting, in_pm, usage_count, rpm, cb, reg_lock, call,
                regCalls, verbFails, powerDowns, asked, excuse>>

NotCached == <<>>
Halves == {1, 2}
Values == {<<l, r>> : l \in {0, 1}, r \in {0, 1}}
Reset == <<0, 0>>

\* What a call asks for: a value for some of the halves; "write" names both
\* (snd_hdac_regmap_write_raw), "update" some (_update_raw), "once" some, if the
\* register is not cached yet (_update_raw_once), "override" writes the cache
\* alone (snd_hdac_override_parm)
Ops == [kind : {"write"}, mask : {Halves}, val : Values]
  \cup [kind : {"update", "once"}, mask : {{1}, {2}}, val : {<<0, 0>>, <<1, 1>>}]
  \cup [kind : {"override"}, mask : {Halves}, val : {<<1, 0>>}]
NoOp == [kind |-> "none", mask |-> {}, val |-> Reset]

Idling == [at |-> "idle", op |-> NoOp, lock |-> 0, todo |-> {}, val |-> Reset, retried |-> FALSE]

RegmapInit ==
  /\ cache = NotCached /\ amp = Reset /\ overwriting = FALSE
  /\ in_pm = 0 /\ usage_count = 0 /\ rpm \in {"active", "disabled"} /\ cb = "none"
  /\ reg_lock = Unlocked /\ call = [t \in RegThreads |-> Idling]
  /\ regCalls = 0 /\ verbFails = 0 /\ powerDowns = 0
  /\ asked = Reset /\ excuse = FALSE

\* Mutant of Known: the codec is read, up or not.
Known_Codec == amp

\* The register as regmap_read sees it: the cache, or the codec
Known == IF cache = NotCached THEN amp ELSE cache

Masked(old, op) == [h \in Halves |-> IF h \in op.mask THEN op.val[h] ELSE old[h]]

BeginCall(t, op) ==
  /\ call[t].at = "idle" /\ regCalls < MaxRegCalls
  /\ call' = [call EXCEPT ![t] = [Idling EXCEPT !.at = "try", !.op = op]]
  /\ overwriting' = (overwriting \/ op.kind = "override")
  /\ regCalls' = regCalls + 1
  /\ UNCHANGED <<cache, amp, in_pm, usage_count, rpm, cb, reg_lock, verbFails, powerDowns, asked, excuse>>

-----------------------------------------------------------------------------
(* Power references.                                                       *)

\* snd_hdac_keep_power_up: 1 with a reference, 0 without one (run-time PM is
\* off), -1 if the codec is not active
KeepPowerUp ==
  \/ in_pm > 0 /\ in_pm' = in_pm + 1 /\ UNCHANGED usage_count
  \/ in_pm = 0 /\ rpm = "active" /\ usage_count' = usage_count + 1 /\ UNCHANGED in_pm
Kept == IF in_pm > 0 \/ rpm = "active" THEN 1 ELSE IF rpm = "disabled" THEN 0 ELSE -1

\* snd_hdac_power_down_pm drops in_pm first, whoever raised it
PowerDownPm ==
  /\ in_pm' = IF in_pm > 0 THEN in_pm - 1 ELSE in_pm
  /\ usage_count' = IF in_pm > 0 THEN usage_count ELSE usage_count - 1

\* Mutant of PmUnlock: the reference is dropped if there was none too.
PmUnlock_Always(lock) == PowerDownPm

\* codec_pm_unlock
PmUnlock(lock) == IF lock = 1 THEN PowerDownPm ELSE UNCHANGED <<in_pm, usage_count>>

-----------------------------------------------------------------------------
(* One access under regmap_lock: cache, then hda_reg_write.                *)

\* What the access writes, if it writes at all
Wanted(op) == Masked(Known, op)
Skips(op) ==
  \/ op.kind = "update" /\ Wanted(op) = Known
  \/ op.kind = "once" /\ (cache # NotCached \/ Wanted(op) = Known)

ReadsCodec(op) == op.kind \in {"update", "once"} /\ cache = NotCached

\* The cache needs no write; reading it may have filled it
TrySkip(t) ==
  LET op == call[t].op IN
  /\ call[t].at = "try" /\ reg_lock = Unlocked /\ Skips(op)
  /\ ReadsCodec(op) => Kept >= 0
  /\ cache' = Known
  /\ asked' = IF op.kind = "update" \/ cache = NotCached THEN Masked(asked, op) ELSE asked
  /\ call' = [call EXCEPT ![t].at = "end"]
  /\ UNCHANGED <<amp, overwriting, in_pm, usage_count, rpm, cb, reg_lock, regCalls, verbFails,
                 powerDowns, excuse>>

\* Mutant of TryKept: writers do not wait for each other.
TryKept_Unlocked(t) ==
  LET op == call[t].op IN
  /\ call[t].at = "try" /\ ~Skips(op) /\ ~overwriting /\ Kept >= 0
  /\ IF Kept = 1 THEN KeepPowerUp ELSE UNCHANGED <<in_pm, usage_count>>
  /\ cache' = Wanted(op)
  /\ asked' = Masked(asked, op)
  /\ call' = [call EXCEPT ![t].at = "verbs", ![t].lock = Kept, ![t].todo = Halves,
                      ![t].val = Wanted(op)]
  /\ UNCHANGED <<amp, reg_lock, overwriting, rpm, cb, regCalls, verbFails, powerDowns, excuse>>

\* The codec is up, or somebody in a PM callback holds it: the verbs follow
TryKept(t) ==
  LET op == call[t].op IN
  /\ call[t].at = "try" /\ reg_lock = Unlocked /\ ~Skips(op) /\ ~overwriting /\ Kept >= 0
  /\ IF Kept = 1 THEN KeepPowerUp ELSE UNCHANGED <<in_pm, usage_count>>
  /\ reg_lock' = t
  /\ cache' = Wanted(op)
  /\ asked' = Masked(asked, op)
  /\ call' = [call EXCEPT ![t].at = "verbs", ![t].lock = Kept, ![t].todo = Halves,
                      ![t].val = Wanted(op)]
  /\ UNCHANGED <<amp, overwriting, rpm, cb, regCalls, verbFails, powerDowns, excuse>>

\* While a parameter is overwritten no write reaches the codec, whose-ever it is
TryOverwriting(t) ==
  LET op == call[t].op IN
  /\ call[t].at = "try" /\ reg_lock = Unlocked /\ ~Skips(op) /\ overwriting
  /\ ~ReadsCodec(op)
  /\ cache' = Wanted(op)
  /\ asked' = Masked(asked, op)
  /\ excuse' = TRUE
  /\ call' = [call EXCEPT ![t].at = "end"]
  /\ UNCHANGED <<amp, overwriting, in_pm, usage_count, rpm, cb, reg_lock, regCalls, verbFails, powerDowns>>

\* Mutant of TryAgain: regmap_lock is held while the codec powers up.
TryAgain_Locked(t) ==
  LET op == call[t].op IN
  /\ call[t].at = "try" /\ reg_lock = Unlocked /\ ~overwriting /\ Kept < 0
  /\ IF ReadsCodec(op) THEN UNCHANGED <<cache, asked, excuse>>
     ELSE /\ ~Skips(op)
          /\ cache' = Wanted(op)
          /\ asked' = Masked(asked, op)
          /\ excuse' = (excuse \/ (rpm = "resuming" /\ cb = "left" /\ op.kind # "write"))
  /\ reg_lock' = t
  /\ call' = [call EXCEPT ![t].at = IF call[t].retried THEN "down" ELSE "up"]
  /\ UNCHANGED <<amp, overwriting, in_pm, usage_count, rpm, cb, regCalls, verbFails, powerDowns>>

\* -EAGAIN: the cache holds the value, or could not be read; power up and retry.
\* Between the end of the resume callback and the codec being active nothing
\* will write what an update has put in the cache.
TryAgain(t) ==
  LET op == call[t].op IN
  /\ call[t].at = "try" /\ reg_lock = Unlocked /\ ~overwriting /\ Kept < 0
  /\ IF ReadsCodec(op) THEN UNCHANGED <<cache, asked, excuse>>
     ELSE /\ ~Skips(op)
          /\ cache' = Wanted(op)
          /\ asked' = Masked(asked, op)
          /\ excuse' = (excuse \/ (rpm = "resuming" /\ cb = "left" /\ op.kind # "write"))
  /\ call' = [call EXCEPT ![t].at = IF call[t].retried THEN "down" ELSE "up"]
  /\ UNCHANGED <<amp, overwriting, in_pm, usage_count, rpm, cb, reg_lock, regCalls, verbFails, powerDowns>>

\* The verbs of a stereo amplifier: one if the halves agree, else left, then right
NextHalves(t) ==
  IF call[t].val[1] = call[t].val[2] THEN Halves
  ELSE IF 1 \in call[t].todo THEN {1} ELSE {2}

Powered == rpm \in {"active", "disabled"} \/ cb # "none"

\* A verb reaches the codec; one to a codec that is down is lost
Verb(t) ==
  /\ call[t].at = "verbs" /\ call[t].todo # {}
  /\ amp' = IF Powered THEN [h \in Halves |-> IF h \in NextHalves(t) THEN call[t].val[h] ELSE amp[h]]
                       ELSE amp
  /\ call' = [call EXCEPT ![t].todo = @ \ NextHalves(t)]
  /\ UNCHANGED <<cache, overwriting, in_pm, usage_count, rpm, cb, reg_lock, regCalls, verbFails,
                 powerDowns, asked, excuse>>

\* ... or fails: the rest is not sent
VerbFails(t) ==
  /\ call[t].at = "verbs" /\ call[t].todo # {} /\ verbFails < MaxVerbFails
  /\ call' = [call EXCEPT ![t].todo = {}]
  /\ verbFails' = verbFails + 1
  /\ excuse' = TRUE
  /\ UNCHANGED <<cache, amp, overwriting, in_pm, usage_count, rpm, cb, reg_lock, regCalls, powerDowns, asked>>

AccessDone(t) ==
  /\ call[t].at = "verbs" /\ call[t].todo = {}
  /\ PmUnlock(call[t].lock)
  /\ reg_lock' = Unlocked
  /\ call' = [call EXCEPT ![t].at = "end", ![t].lock = 0]
  /\ UNCHANGED <<cache, amp, overwriting, rpm, cb, regCalls, verbFails, powerDowns, asked, excuse>>

-----------------------------------------------------------------------------
(* CALL_RAW_FUNC.                                                          *)

\* snd_hdac_power_up_pm: a reference; the run-time one waits for the codec
PowerUpPm(t) ==
  /\ call[t].at = "up"
  /\ \/ in_pm > 0 /\ in_pm' = in_pm + 1 /\ UNCHANGED usage_count
        /\ call' = [call EXCEPT ![t].at = "try", ![t].retried = TRUE]
     \/ in_pm = 0 /\ usage_count' = usage_count + 1 /\ UNCHANGED in_pm
        /\ call' = [call EXCEPT ![t].at = "wait"]
  /\ UNCHANGED <<cache, amp, overwriting, rpm, cb, reg_lock, regCalls, verbFails, powerDowns,
                 asked, excuse>>

PoweredUp(t) ==
  /\ call[t].at = "wait" /\ rpm = "active"
  /\ call' = [call EXCEPT ![t].at = "try", ![t].retried = TRUE]
  /\ UNCHANGED <<cache, amp, overwriting, in_pm, usage_count, rpm, cb, reg_lock, regCalls, verbFails,
                 powerDowns, asked, excuse>>

\* The retry's reference is dropped, whatever came of it
EndCall(t) ==
  /\ call[t].at \in {"end", "down"}
  /\ IF call[t].retried THEN PowerDownPm ELSE UNCHANGED <<in_pm, usage_count>>
  /\ overwriting' = (overwriting /\ call[t].op.kind # "override")
  /\ call' = [call EXCEPT ![t] = Idling]
  /\ UNCHANGED <<cache, amp, rpm, cb, reg_lock, regCalls, verbFails, powerDowns, asked, excuse>>

-----------------------------------------------------------------------------
(* Run-time PM.                                                            *)

SuspendBegin ==
  /\ rpm = "active" /\ usage_count = 0 /\ powerDowns < MaxPowerDowns
  /\ rpm' = "suspending" /\ cb' = "begun" /\ in_pm' = in_pm + 1
  /\ powerDowns' = powerDowns + 1
  /\ UNCHANGED <<cache, amp, overwriting, usage_count, reg_lock, call, regCalls, verbFails, asked, excuse>>

\* The callback ends and drops in_pm; the codec forgets
SuspendEnd ==
  /\ rpm = "suspending" /\ cb = "begun"
  /\ PowerDownPm
  /\ cb' = "none" /\ rpm' = "suspended" /\ amp' = Reset
  /\ UNCHANGED <<cache, overwriting, reg_lock, call, regCalls, verbFails, powerDowns, asked, excuse>>

ResumeBegin ==
  /\ rpm = "suspended" /\ usage_count > 0 /\ cb = "none"
  /\ rpm' = "resuming" /\ cb' = "begun" /\ in_pm' = in_pm + 1
  /\ UNCHANGED <<cache, amp, overwriting, usage_count, reg_lock, call, regCalls, verbFails,
                 powerDowns, asked, excuse>>

\* snd_hdac_regmap_sync: every cached register is written, under the lock
RegmapSync ==
  /\ rpm = "resuming" /\ cb = "begun" /\ reg_lock = Unlocked
  /\ amp' = Known
  /\ excuse' = FALSE
  /\ PowerDownPm /\ cb' = "left"
  /\ UNCHANGED <<cache, overwriting, rpm, reg_lock, call, regCalls, verbFails, powerDowns, asked>>

ResumeEnd ==
  /\ rpm = "resuming" /\ cb = "left"
  /\ rpm' = "active" /\ cb' = "none"
  /\ UNCHANGED <<cache, amp, overwriting, in_pm, usage_count, reg_lock, call, regCalls, verbFails,
                 powerDowns, asked, excuse>>

RegThread(t) ==
  \/ TrySkip(t) \/ TryKept(t) \/ TryOverwriting(t) \/ TryAgain(t)
  \/ Verb(t) \/ VerbFails(t) \/ AccessDone(t)
  \/ PowerUpPm(t) \/ PoweredUp(t) \/ EndCall(t)

PmCore == SuspendEnd \/ ResumeBegin \/ RegmapSync \/ ResumeEnd

RegmapNext ==
  \/ \E t \in RegThreads : RegThread(t) \/ \E op \in Ops : BeginCall(t, op)
  \/ SuspendBegin \/ PmCore

\* The PM core and the threads go on; nobody has to suspend the codec.
RegmapSpec ==
  /\ RegmapInit /\ [][RegmapNext]_regmapVars
  /\ WF_regmapVars(PmCore) /\ \A t \in RegThreads : WF_regmapVars(RegThread(t))

-----------------------------------------------------------------------------
(* Properties.                                                             *)

RegmapTypeOK ==
  /\ cache \in Values \cup {NotCached} /\ amp \in Values /\ asked \in Values
  /\ in_pm \in Nat /\ usage_count \in Nat
  /\ reg_lock \in RegThreads \cup {Unlocked}

\* Who holds the reference of codec_pm_lock, and who that of the retry
Holders  == {t \in RegThreads : call[t].lock = 1}
Retriers == {t \in RegThreads : call[t].at = "wait" \/ call[t].retried}

\* No reference is lost or dropped twice, whatever fails: those that threads and
\* a PM callback hold are all there, as in_pm or as the device's usage count,
\* although a reference may be taken as one and dropped as the other.
RefsBalance ==
  in_pm + usage_count =
    Cardinality(Holders) + Cardinality(Retriers) + (IF cb = "begun" THEN 1 ELSE 0)

\* No update is lost between two threads: the cache holds, half by half, what was
\* asked for last.
LastAsked == cache # NotCached => cache = asked

\* When the codec is up and nothing is on its way, it holds what the cache says,
\* unless a verb failed, a parameter was being overwritten meanwhile, or an
\* update fell between the end of a resume callback and the codec being active.
HwFollowsCache ==
  rpm \in {"active", "disabled"} /\ cb = "none" /\ cache # NotCached
  /\ (\A t \in RegThreads : call[t].at = "idle") /\ ~excuse
  => amp = cache

\* Between two threads and across suspend and resume no update is lost: not from the
\* cache, and not on its way from the cache to the codec.
UpdatesKept == LastAsked /\ HwFollowsCache

\* Every register access ends: nobody waits for the codec while the codec's
\* resume waits for the register lock.
AccessEnds == \A t \in RegThreads : call[t].at # "idle" ~> call[t].at = "idle"
=============================================================================
