-------------------------------- MODULE ChipIo --------------------------------
(***************************************************************************)
(* ChipIO of the CA0132 (chipio_* in ca0132.c): words of the chip's memory *)
(* are reached through vendor verbs that load an address register in two   *)
(* halves and then move the data, also in two halves; the chip adds four   *)
(* to the address after each word, and the driver keeps its own copy of    *)
(* the address, curr_chip_addx, to save the verbs.  Parameters and the     *)
(* memory of the 8051 have selector registers of their own.  chipio_mutex  *)
(* keeps the verbs of two callers apart where the caller takes it.         *)
(*                                                                         *)
(* A function is the sequence of the verbs it sends; threads send them one *)
(* at a time.  A word stands for the address it is meant for.              *)
(***************************************************************************)
EXTENDS Integers, Sequences, SequencesExt, FiniteSets

CONSTANTS
  ChipThreads,   \* threads that use the chip
  ChipAddresses, \* addresses of words, multiples of 4
  HalfWord,          \* what fits the low half of the address register (2^16 in the chip)
  MaxChipCalls,  \* bound: calls in all
  MaxSendFails,  \* bound: sends that the chip refuses for a second
  MaxPowerLosses \* bound: times the codec is without power

NoThread == "none"
LoadedFlag == 2 * HalfWord      \* 0x40004, the word that says the DSP is loaded

\* No call of the driver but the question itself uses the flag or the two words before it,
\* so none leaves the address at the flag (a firmware image may hold those words, but
\* other calls follow the load before the codec can be suspended).
ASSUME ChipAssumption ==
  /\ NoThread \notin ChipThreads
  /\ ChipAddresses \subseteq Nat /\ HalfWord \in Nat \ {0}
  /\ \A a \in ChipAddresses : a + 4 # LoadedFlag /\ a + 8 # LoadedFlag
  /\ MaxChipCalls \in Nat /\ MaxSendFails \in Nat /\ MaxPowerLosses \in Nat

VARIABLES
  curr_chip_addx, \* the driver's copy of the address, or InvalidAddress
  chipio_mutex,   \* its holder, or NoThread
  verbs,          \* what is left of the call each thread is in
  chip,           \* the registers of the chip
  power,          \* on, lost (the chip forgot everything), or resuming
  astray,         \* history: words and values that arrived at another place
  chipCalls, sendFails, powerLosses

chipVars == <<curr_chip_addx, chipio_mutex, verbs, chip, power, astray,
              chipCalls, sendFails, powerLosses>>

InvalidAddress == -1
Never == -1

Cleared == [low |-> 0, high |-> 0, data |-> Never, read |-> Never, ex |-> Never,
            conn |-> Never, stream |-> Never, mem8 |-> 0, mem8hi |-> 0]

ChipInit ==
  /\ curr_chip_addx = InvalidAddress /\ chipio_mutex = NoThread
  /\ verbs = [t \in ChipThreads |-> <<>>] /\ chip = Cleared /\ power = "on"
  /\ astray = {} /\ chipCalls = 0 /\ sendFails = 0 /\ powerLosses = 0

-----------------------------------------------------------------------------
(* The calls.                                                              *)

V(verb, arg) == [verb |-> verb, arg |-> arg]

\* Where a call goes on after a verb that failed
End == V("end", 0)

\* Mutant of Locked: the mutex is not taken.
Locked_Not(call) == call

\* Mutant of Locked: the mutex is not released.
Locked_Kept(call) == <<V("lock", 0)>> \o call

\* guard(mutex)(&spec->chipio_mutex) around a call
Locked(call) == <<V("lock", 0)>> \o call \o <<V("unlock", 0)>>

\* chipio_write_address and chipio_write_data
Address(a) == <<V("low", a), V("high", a)>>
Data(a) == <<V("data_low", a), V("data_high", a)>>
WriteNoMutex(a) == Address(a) \o Data(a) \o <<End>>          \* chipio_write_no_mutex
WriteLocked(a) == Locked(WriteNoMutex(a))                          \* chipio_write
WriteMultiple(a) == Locked(Address(a) \o Data(a) \o Data(a + 4) \o <<End>>)
Read(a) == Locked(Address(a) \o <<V("post_read", a), V("status", 0), V("read_data", a), End>>)

\* The long form of chipio_set_control_param: a status, the number, the value
LongParam(p) == <<V("status", 1), V("ex_id", p), V("ex_value", p), End>>
ControlParam(p) == Locked(LongParam(p))
\* chipio_set_conn_rate: two parameters, each under the mutex by itself
ConnRate(c) ==
  Locked(<<V("status", 1), V("ex_id", "conn"), V("select_conn", c), End>>)
    \o Locked(<<V("status", 1), V("ex_id", "rate"), V("conn_rate", c), End>>)
\* chipio_set_stream_control of streams 3 and 4: two short verbs, no mutex
StreamControl(s) == <<V("select_stream", s), V("stream_control", s)>>

\* The 8051's memory and the PLL share an address register (chipio_8051_*)
Address8051(a) == <<V("mem_low", a), V("mem_high", a)>>
WriteExram(a) == Locked(Address8051(a) \o <<V("mem_data", a)>>)
WritePll(a) == Address8051(a) \o <<V("pll_data", a)>>
EnableClocks == Locked(WritePll(0) \o WritePll(5) \o WritePll(6))

\* chipio_remap_stream, called with the mutex: the stream's offset is read from the
\* 8051 until it is there, then the routing words are written
RemapStream(a) ==
  Locked(Address8051(a) \o <<V("mem_read", a), V("remap", 0)>>
           \o WriteNoMutex(a) \o WriteNoMutex(a + 4))

ChipCalls ==
  {WriteLocked(a) : a \in ChipAddresses} \cup {WriteMultiple(a) : a \in ChipAddresses}
  \cup {Read(a) : a \in ChipAddresses}
  \cup {ControlParam(p) : p \in {"dac2port", "asi"}} \cup {ConnRate(c) : c \in {1, 2}}
  \cup {StreamControl(s) : s \in {3, 4}} \cup {WriteExram(a) : a \in {1, HalfWord + 2}}
  \cup {EnableClocks} \cup {RemapStream(a) : a \in ChipAddresses}

BeginChip(t) ==
  /\ power = "on" /\ verbs[t] = <<>> /\ chipCalls < MaxChipCalls
  /\ \E call \in ChipCalls : verbs' = [verbs EXCEPT ![t] = call]
  /\ chipCalls' = chipCalls + 1
  /\ UNCHANGED <<curr_chip_addx, chipio_mutex, chip, power, astray, sendFails, powerLosses>>

-----------------------------------------------------------------------------
(* The verbs.                                                              *)

Verb(t) == Head(verbs[t])
Rest(t) == [verbs EXCEPT ![t] = Tail(@)]
Skipped(t, n) == [verbs EXCEPT ![t] = SubSeq(@, n + 1, Len(@))]

\* The verbs of the call after its next End
Ended(seq) == SubSeq(seq, SelectInSeq(seq, LAMBDA v : v = End) + 1, Len(seq))
Abandoned(t) == [verbs EXCEPT ![t] = Ended(@)]

InTheChip == chip.high * HalfWord + chip.low
AfterIncrement(c) ==
  LET next == c.high * HalfWord + c.low + 4
  IN  [c EXCEPT !.low = next % HalfWord, !.high = next \div HalfWord]

TakeMutex(t) ==
  /\ verbs[t] # <<>> /\ Verb(t).verb = "lock" /\ chipio_mutex = NoThread
  /\ chipio_mutex' = t /\ verbs' = Rest(t)
  /\ UNCHANGED <<curr_chip_addx, chip, power, astray, chipCalls, sendFails, powerLosses>>

ReleaseMutex(t) ==
  /\ verbs[t] # <<>> /\ Verb(t).verb \in {"unlock", "end"}
  /\ chipio_mutex' = IF Verb(t).verb = "unlock" THEN NoThread ELSE chipio_mutex
  /\ verbs' = Rest(t)
  /\ UNCHANGED <<curr_chip_addx, chip, power, astray, chipCalls, sendFails, powerLosses>>

\* chipio_write_address: the address is there already
AddressKnown(t) ==
  /\ verbs[t] # <<>> /\ Verb(t).verb = "low" /\ curr_chip_addx = Verb(t).arg
  /\ verbs' = Skipped(t, 2)
  /\ UNCHANGED <<curr_chip_addx, chipio_mutex, chip, power, astray, chipCalls, sendFails, powerLosses>>

\* What the chip does with a verb
Sent(v) ==
  CASE v.verb = "low" -> [chip EXCEPT !.low = v.arg % HalfWord]
    [] v.verb = "high" -> [chip EXCEPT !.high = v.arg \div HalfWord]
    [] v.verb = "data_low" -> [chip EXCEPT !.data = v.arg]
    [] v.verb = "data_high" -> AfterIncrement(chip)
    [] v.verb = "post_read" -> [AfterIncrement(chip) EXCEPT !.read = InTheChip]
    [] v.verb = "ex_id" -> [chip EXCEPT !.ex = v.arg]
    [] v.verb = "select_conn" -> [chip EXCEPT !.conn = v.arg]
    [] v.verb = "select_stream" -> [chip EXCEPT !.stream = v.arg]
    [] v.verb = "mem_low" -> [chip EXCEPT !.mem8 = v.arg % HalfWord]
    [] v.verb = "mem_high" -> [chip EXCEPT !.mem8hi = v.arg \div HalfWord]
    [] OTHER -> chip

\* What arrives at a place it is not meant for
Misplaced(v) ==
  LET wrong ==
        CASE v.verb = "data_high" -> InTheChip # v.arg \/ chip.data # v.arg
          [] v.verb = "read_data" -> chip.read # v.arg
          [] v.verb = "ex_value" -> chip.ex # v.arg
          [] v.verb = "select_conn" -> chip.ex # "conn"
          [] v.verb = "conn_rate" -> chip.ex # "rate"
          [] v.verb \in {"mem_data", "mem_read", "pll_data"} ->
               chip.mem8hi * HalfWord + chip.mem8 # v.arg
          [] OTHER -> FALSE
      crossed == \/ v.verb = "conn_rate" /\ chip.conn # v.arg
                 \/ v.verb = "stream_control" /\ chip.stream # v.arg
  IN  IF wrong THEN {v.verb} ELSE IF crossed THEN {"selector"} ELSE {}

\* Mutant of AddressAfter: the copy does not follow the increment of a read.
AddressAfter_Write(v) ==
  CASE v.verb = "high" -> v.arg
    [] v.verb = "data_high" -> curr_chip_addx + 4
    [] OTHER -> curr_chip_addx

\* curr_chip_addx after a verb that went through
AddressAfter(v) ==
  CASE v.verb = "high" -> v.arg
    [] v.verb \in {"data_high", "read_data"} -> curr_chip_addx + 4
    [] OTHER -> curr_chip_addx

\* One verb; without the power nothing arrives
SendVerb(t) ==
  /\ verbs[t] # <<>> /\ Verb(t).verb \notin {"lock", "unlock", "end", "remap", "reload"}
  /\ ~(Verb(t).verb = "low" /\ curr_chip_addx = Verb(t).arg)
  /\ chip' = Sent(Verb(t))
  /\ astray' = astray \cup Misplaced(Verb(t))
  /\ curr_chip_addx' = AddressAfter(Verb(t))
  /\ verbs' = Rest(t)
  /\ UNCHANGED <<chipio_mutex, power, chipCalls, sendFails, powerLosses>>

\* Mutant of AddressAfterFailure: a refused write of data leaves the copy as it was.
AddressAfterFailure_Kept(v) == curr_chip_addx

\* A status of a parameter leaves the address alone, the failures of a word do not
AddressAfterFailure(v) ==
  IF v.verb = "status" /\ v.arg = 1 THEN curr_chip_addx ELSE InvalidAddress

\* chipio_send gives up after a second: the rest of the access is not done
SendFails(t) ==
  /\ verbs[t] # <<>> /\ sendFails < MaxSendFails
  /\ Verb(t).verb \in {"low", "high", "data_low", "data_high", "post_read", "status"}
  /\ ~(Verb(t).verb = "low" /\ curr_chip_addx = Verb(t).arg)
  /\ curr_chip_addx' = AddressAfterFailure(Verb(t))
  /\ verbs' = Abandoned(t)
  /\ sendFails' = sendFails + 1
  /\ UNCHANGED <<chipio_mutex, chip, power, astray, chipCalls, powerLosses>>

\* chipio_remap_stream: the ports are there, or after five more reads they are not
Remap(t) ==
  /\ verbs[t] # <<>> /\ Verb(t).verb = "remap"
  /\ \/ verbs' = Rest(t)
     \/ verbs' = [verbs EXCEPT ![t] = <<V("unlock", 0)>>]
  /\ UNCHANGED <<curr_chip_addx, chipio_mutex, chip, power, astray, chipCalls, sendFails, powerLosses>>

-----------------------------------------------------------------------------
(* Power: ca0132_init after a suspend.                                     *)

PowerLost ==
  /\ power = "on" /\ powerLosses < MaxPowerLosses
  /\ \A t \in ChipThreads : verbs[t] = <<>>
  /\ power' = "lost" /\ chip' = Cleared /\ powerLosses' = powerLosses + 1
  /\ UNCHANGED <<curr_chip_addx, chipio_mutex, verbs, astray, chipCalls, sendFails>>

\* ca0132_init asks first whether the DSP is still loaded (dspload_is_loaded), with the
\* address the driver remembers, and then does the whole initialisation
Resume(t) ==
  /\ power = "lost"
  /\ power' = "resuming"
  /\ verbs' = [verbs EXCEPT ![t] = Read(LoadedFlag) \o <<V("reload", 0)>>]
  /\ UNCHANGED <<curr_chip_addx, chipio_mutex, chip, astray, chipCalls, sendFails, powerLosses>>

Reinit(t) ==
  /\ verbs[t] # <<>> /\ Verb(t).verb = "reload"
  /\ curr_chip_addx' = InvalidAddress
  /\ power' = "on" /\ verbs' = Rest(t)
  /\ UNCHANGED <<chipio_mutex, chip, astray, chipCalls, sendFails, powerLosses>>

ChipThread(t) ==
  \/ TakeMutex(t) \/ ReleaseMutex(t) \/ AddressKnown(t) \/ SendVerb(t) \/ Remap(t) \/ Reinit(t)
ChipNext ==
  \/ PowerLost
  \/ \E t \in ChipThreads : BeginChip(t) \/ ChipThread(t) \/ SendFails(t) \/ Resume(t)

ChipSpec == ChipInit /\ [][ChipNext]_chipVars

-----------------------------------------------------------------------------
(* Properties.                                                             *)

\* The variables have their types, and the holder of chipio_mutex is inside a call.
ChipTypeOK ==
  /\ curr_chip_addx \in {InvalidAddress} \cup Nat
  /\ chipio_mutex \in ChipThreads \cup {NoThread}
  /\ power \in {"on", "lost", "resuming"}
  /\ astray \subseteq {"data_high", "read_data", "ex_value", "select_conn", "conn_rate",
                       "mem_data", "mem_read", "pll_data", "selector"}
  /\ chipio_mutex # NoThread => verbs[chipio_mutex] # <<>>

\* A word is written to the address it is meant for, with both its halves, and a word
\* read comes from the address asked for, whatever other threads do, whatever failed
\* before and whether or not the codec lost its power since (chipio_write,
\* chipio_read, curr_chip_addx).
WordsLand == astray \cap {"data_high", "read_data"} = {}

\* The value of a parameter that takes two verbs goes to that parameter, and a byte for
\* the 8051's memory or the PLL to its address, although both share one register.
ParamsLand == astray \cap {"ex_value", "select_conn", "conn_rate", "mem_data", "mem_read", "pll_data"} = {}

\* When nobody is inside, the driver's copy of the address is the chip's address, or
\* unknown; only between a loss of power and the initialisation may it be stale.
CopyAgrees ==
  (chipio_mutex = NoThread /\ power = "on" /\ curr_chip_addx # InvalidAddress)
    => curr_chip_addx = InTheChip

\* What is sent through the chip's address and data registers lands where it is meant
\* to: words, parameters and the driver's copy of the address agree with the chip.
ValuesLand == WordsLand /\ ParamsLand /\ CopyAgrees

\* Two threads that set rates, or start and stop streams, at the same time: the rate goes
\* to the connection point it is for, and the command to its stream (chipio_set_conn_rate:
\* "Set sampling rate of the connection point").
SelectorsLand == "selector" \notin astray
=============================================================================
