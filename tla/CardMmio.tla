------------------------------ MODULE CardMmio ------------------------------
(***************************************************************************)
(* The register accesses of the driver as the card sees them.  Writes are  *)
(* posted: they pile up in the card's PCI bridge until a read pushes them  *)
(* through, and the bridge jams on a burst of about fourteen (comment on   *)
(* ca0113_mmio_writel).  The command engine at 0x210 must not see the      *)
(* accesses of two transactions mixed (mem_mutex).                         *)
(*                                                                         *)
(* A program is the sequence of accesses one function makes.  Contexts run *)
(* programs side by side, one access at a time; values, delays and reads   *)
(* that directly follow a read are left out.                               *)
(***************************************************************************)
EXTENDS Integers, Sequences

CONSTANTS
  Contexts,   \* threads of the driver
  Programs,   \* [Contexts -> SUBSET ProgramNames]: what each of them runs
  Streams,    \* stream descriptors of the controller
  UartBytes,  \* bytes of a frame to the control module
  Burst       \* posted writes in a row that jam the bridge

ProgramNames == {"command_set", "command_get", "gpio", "uart", "verb", "stream_setup",
                 "stream_stop", "stream_cleanup", "init_chip", "stop_chip"}

ASSUME MmioAssumption ==
  /\ Programs \in [Contexts -> SUBSET ProgramNames]
  /\ Streams \in Nat \ {0} /\ UartBytes \in Nat /\ Burst \in Nat \ {0}

VARIABLES
  todo,      \* what is left of the program each context is in
  mem_mutex, \* who holds it
  posted,    \* writes since the last read
  opened     \* who is inside a command-engine transaction, as the engine sees it

mmioVars == <<todo, mem_mutex, posted, opened>>

Nobody == "nobody"
ASSUME NobodyAssumption == Nobody \notin Contexts

R == "read"
W == "write"
Accesses == {R, W, "lock", "unlock", "open", "engine", "close"}

MmioInit ==
  /\ todo = [c \in Contexts |-> <<>>]
  /\ mem_mutex = Nobody
  /\ posted = 0
  /\ opened = {}

-----------------------------------------------------------------------------
(* The programs.                                                           *)

Times(n, seq) ==
  [i \in 1..(n * Len(seq)) |-> seq[((i - 1) % Len(seq)) + 1]]

\* Mutant of Flushed: the read after the write is left out.
Flushed_Posted(access) == <<access>>

\* ca0113_mmio_writel, _writeb, _writew: a write, then a read of the register
Flushed(access) == <<access, R>>

\* A read, a change, a write (snd_hdac_*_update)
Update == <<R, W>>

\* Mutant of Transaction: mem_mutex is not taken.
Transaction_NoLock(n) ==
  Flushed("open") \o Times(n, Flushed("engine")) \o Flushed("close")

\* Mutant of Transaction: mem_mutex is not released.
Transaction_KeepsLock(n) ==
  <<"lock">> \o Flushed("open") \o Times(n, Flushed("engine")) \o Flushed("close")

\* A command-engine transaction under mem_mutex: unlock codes, n accesses, relock
Transaction(n) ==
  <<"lock">> \o Flushed("open") \o Times(n, Flushed("engine")) \o Flushed("close")
    \o <<"unlock">>

\* Mutant of IntClear: without the read of INTSTS at its end.
IntClear_NoFlush == Times(Streams, <<W>>) \o <<W, W, W>>

\* azx_int_clear: every stream's status, STATESTS, RIRBSTS, INTSTS, and a read
IntClear == Times(Streams, <<W>>) \o <<W, W, W, R>>

\* azx_int_disable
IntDisable == Times(Streams, Update) \o <<W>>

\* snd_hdac_bus_reset_link
ResetLink == <<R, W>> \o Update \o <<R>> \o Update \o <<R>>

\* snd_hdac_bus_init_cmd_io: five CORB registers, azx_clear_corbrp, CORBCTL and
\* six RIRB registers, the unsolicited enable, and a read
InitCmdIo == Times(5, <<W>>) \o <<R, W, R>> \o Times(7, <<W>>) \o Update \o <<R>>

StopCmdIo == <<W, W, R>> \o Update

\* snd_hdac_stream_clear, called by stop and by setup; the card's streams are
\* not striped
StreamClear == Update \o <<W>>

Program(name) ==
  CASE name = "command_set"    -> Transaction(6)
    [] name = "command_get"    -> Transaction(8)
    [] name = "gpio"           -> Flushed(W)
    [] name = "uart"           -> Times(UartBytes, <<R, W, R>>)
    [] name = "verb"           -> <<R, W>>
    [] name = "stream_setup"   ->
         StreamClear \o Update \o Times(5, <<W>>) \o <<R>> \o Update \o Update \o <<R>>
    [] name = "stream_stop"    -> StreamClear \o Update
    [] name = "stream_cleanup" -> <<W, W, W, R>>
    [] name = "init_chip"      -> ResetLink \o IntClear \o InitCmdIo \o Update \o <<W, W>>
    [] name = "stop_chip"      -> IntDisable \o IntClear \o StopCmdIo \o <<W, W>>

-----------------------------------------------------------------------------

PowerPrograms == {"init_chip", "stop_chip"}

\* The controller is started and stopped with nothing else going on: a context
\* that runs these does nothing else, and the others wait for it.
Start(c, name) ==
  /\ todo[c] = <<>>
  /\ name \in PowerPrograms => \A d \in Contexts : todo[d] = <<>>
  /\ \A d \in Contexts : Programs[d] \cap PowerPrograms # {} => todo[d] = <<>>
  /\ todo' = [todo EXCEPT ![c] = Program(name)]
  /\ UNCHANGED <<mem_mutex, posted, opened>>

At(c, access) ==
  /\ todo[c] # <<>> /\ Head(todo[c]) = access
  /\ todo' = [todo EXCEPT ![c] = Tail(@)]

Lock(c) ==
  /\ At(c, "lock") /\ mem_mutex = Nobody
  /\ mem_mutex' = c
  /\ UNCHANGED <<posted, opened>>

Unlock(c) ==
  /\ At(c, "unlock")
  /\ mem_mutex' = Nobody
  /\ UNCHANGED <<posted, opened>>

\* A read is answered only when the writes before it have gone through
Read(c) ==
  /\ At(c, R)
  /\ posted' = 0
  /\ UNCHANGED <<mem_mutex, opened>>

Write(c) ==
  /\ \/ At(c, W)      /\ UNCHANGED opened
     \/ At(c, "engine") /\ UNCHANGED opened
     \/ At(c, "open")   /\ opened' = opened \cup {c}
     \/ At(c, "close")  /\ opened' = opened \ {c}
  /\ posted' = posted + 1
  /\ UNCHANGED mem_mutex

MmioNext ==
  \E c \in Contexts :
    \/ \E name \in Programs[c] : Start(c, name)
    \/ Lock(c) \/ Unlock(c) \/ Read(c) \/ Write(c)

Running(c) == Lock(c) \/ Unlock(c) \/ Read(c) \/ Write(c)

\* A context that has begun goes on.
MmioSpec == MmioInit /\ [][MmioNext]_mmioVars /\ \A c \in Contexts : WF_mmioVars(Running(c))

-----------------------------------------------------------------------------
(* Properties.                                                             *)

\* That of snd_hdac_bus_stop_chip: two writes, then azx_int_clear's
LongestBurst == Streams + 5

MmioTypeOK ==
  /\ todo \in [Contexts -> Seq(Accesses)]
  /\ mem_mutex \in Contexts \cup {Nobody}
  /\ posted \in 0..LongestBurst
  /\ opened \in SUBSET Contexts

\* A context is in the middle of a program
Inside(c, name) ==
  \E n \in 1..Len(Program(name)) : todo[c] = SubSeq(Program(name), n, Len(Program(name)))

\* However the contexts interleave, no burst of posted writes gets long enough
\* to jam the bridge (comment on ca0113_mmio_writel; "patches/0001" for the
\* controller's start), with one exception: snd_hdac_bus_stop_chip, where the
\* writes of azx_int_disable and azx_int_clear add up.
BurstBound ==
  posted >= Burst =>
    \E c \in Contexts : "stop_chip" \in Programs[c] /\ Inside(c, "stop_chip")

\* The command engine serves one transaction at a time: from the unlock code to
\* the relock only the context that opened it writes its registers.
OneTransaction ==
  \A c \in opened :
    /\ opened = {c}
    /\ \A d \in Contexts \ {c} :
         todo[d] # <<>> => Head(todo[d]) \notin {"open", "engine", "close"}

\* A command-engine transaction, once begun, comes to its end and lets the next
\* in: its holder waits for nothing on the way.
EngineReleased == mem_mutex # Nobody ~> mem_mutex = Nobody
=============================================================================
