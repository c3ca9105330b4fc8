-------------------------- MODULE MC_DriverProgress --------------------------
(***************************************************************************)
(* Instances for TLC of the components whose callers wait for something:   *)
(* GETs to the DSP, the command engine of the card, the register cache and *)
(* the codec's power, the unsolicited events, and the codec's life.  One   *)
(* behaviour is a behaviour of one of them (part), and the others stay     *)
(* where they begin: one run checks each on its own bounds.                *)
(***************************************************************************)
EXTENDS ScpChannel, CardMmio, RegmapPm, UnsolQueue, CodecLife

VARIABLE part
Parts == {"scp", "mmio", "regmap", "unsol", "life"}

all == <<part, scpVars, mmioVars, regmapVars, unsolVars, lifeVars>>

CONSTANTS r1, r2, t1, t2     \* two kinds of request, two threads
OneReq  == {r1}
TwoReqs == {r1, r2}
TwoThreads == {t1, t2}

\* A program at the mixer and at a PCM device, the jack work, the module's
\* service, and the power handling
Users == {"user", "jack", "service", "power"}
Runtime ==
  [c \in Users |->
     CASE c = "user"    -> {"command_set", "stream_setup", "stream_stop", "stream_cleanup"}
       [] c = "jack"    -> {"command_set", "verb"}
       [] c = "service" -> {"command_get", "gpio", "uart"}
       [] c = "power"   -> {"init_chip", "stop_chip"}]

SomeLink  == CHOOSE n \in BOOLEAN : n = (MaxGets = 0)
SomeBoard == CHOOSE b \in Boards : TRUE

ProgressInit ==
  /\ part \in Parts
  /\ ScpInit /\ (part # "scp" => notifies = SomeLink)
  /\ MmioInit /\ UnsolInit
  /\ RegmapInit /\ (part # "regmap" => rpm = "active")
  /\ LifeInit /\ (part # "life" => board = SomeBoard)

\* The part of the behaviour moves by its step, the others not at all
Moves(scpStep, mmioStep, regmapStep, unsolStep, lifeStep) ==
  /\ UNCHANGED part
  /\ IF part = "scp"    THEN scpStep    ELSE UNCHANGED scpVars
  /\ IF part = "mmio"   THEN mmioStep   ELSE UNCHANGED mmioVars
  /\ IF part = "regmap" THEN regmapStep ELSE UNCHANGED regmapVars
  /\ IF part = "unsol"  THEN unsolStep  ELSE UNCHANGED unsolVars
  /\ IF part = "life"   THEN lifeStep   ELSE UNCHANGED lifeVars

ProgressNext == Moves(ScpNext, MmioNext, RegmapNext, UnsolNext, LifeNext)

\* The fairness each module states.  Only one part moves, so a line holds one
\* process of each part that still has one.
ProgressFairness ==
  /\ WF_all(Moves(Requester, Running("user"), PmCore, UnsolProcess, InitStep))
  /\ WF_all(Moves(Handle \/ ReadQueue("handler"), Running("jack"), RegThread(t1), FALSE, RunWork("hp")))
  /\ WF_all(Moves(FALSE, Running("service"), RegThread(t2), FALSE, RunWork("acm")))
  /\ WF_all(Moves(FALSE, Running("power"), FALSE, FALSE, WorkEnds("hp")))
  /\ WF_all(Moves(FALSE, FALSE, FALSE, FALSE, WorkEnds("acm")))
  /\ SF_all(Moves(TimeOut, FALSE, FALSE, FALSE, FALSE))

ProgressSpec == ProgressInit /\ [][ProgressNext]_all /\ ProgressFairness

-----------------------------------------------------------------------------
(* Properties of the parts together.                                       *)

\* Every variable of every part has its type.
ProgressTypeOK == ScpTypeOK /\ MmioTypeOK /\ RegmapTypeOK /\ UnsolTypeOK /\ LifeTypeOK

\* Nobody waits for ever: a GET ends in its reply, an error or the one-second limit
\* (dspio_scp), the command engine is released (mem_mutex), a register access ends
\* although a resume waits for its lock, events raised are served, and so suspend
\* and remove come to their end (cancel_delayed_work_sync).
EverythingEnds == GetEnds /\ EngineReleased /\ AccessEnds /\ EventsServed /\ CallsEnd
=============================================================================
