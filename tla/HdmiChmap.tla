------------------------------ MODULE HdmiChmap ------------------------------
(***************************************************************************)
(* Channel maps of HDMI pins (hdmi_chmap.c): which of the CEA speaker      *)
(* allocations (CA) a stream gets, from what the sink has or from a map a  *)
(* program sets, and which channel each of the pin's eight slots carries.  *)
(* The functions are checked input by input: a question is asked, and the  *)
(* next step answers it.                                                   *)
(***************************************************************************)
EXTENDS Integers, Sequences, FiniteSets

CONSTANTS
  ChmapPositions, \* positions a program may name, FL and so on, or "NA"
  ChmapLength,    \* bound: positions it names; the rest of the eight is "NA"
  SinkBits,       \* bits of the sink's speaker allocation that vary
  TlvSizes        \* sizes of the buffer for the list of maps

VARIABLES chmapAsk, chmapAnswer
chmapVars == <<chmapAsk, chmapAnswer>>

No == "NA"
Slots == 0..7
Unused == 15

\* A row of channel_allocations: the CA and what slots 2 to 7 carry
A(ca, s2, s3, s4, s5, s6, s7) == [ca |-> ca, speakers |-> <<"FL", "FR", s2, s3, s4, s5, s6, s7>>]

\* "This is an ordered list!"
Allocations == <<
   A(0, No, No, No, No, No, No), A(1, "LFE", No, No, No, No, No),
   A(2, No, "FC", No, No, No, No), A(8, No, No, "RL", "RR", No, No),
   A(9, "LFE", No, "RL", "RR", No, No), A(10, No, "FC", "RL", "RR", No, No),
   A(11, "LFE", "FC", "RL", "RR", No, No), A(15, "LFE", "FC", "RL", "RR", "RC", No),
   A(19, "LFE", "FC", "RL", "RR", "RLC", "RRC"), A(3, "LFE", "FC", No, No, No, No),
   A(4, No, No, "RC", No, No, No), A(5, "LFE", No, "RC", No, No, No),
   A(6, No, "FC", "RC", No, No, No), A(7, "LFE", "FC", "RC", No, No, No),
   A(12, No, No, "RL", "RR", "RC", No), A(13, "LFE", No, "RL", "RR", "RC", No),
   A(14, No, "FC", "RL", "RR", "RC", No), A(16, No, No, "RL", "RR", "RLC", "RRC"),
   A(17, "LFE", No, "RL", "RR", "RLC", "RRC"), A(18, No, "FC", "RL", "RR", "RLC", "RRC"),
   A(20, No, No, No, No, "FLC", "FRC"), A(21, "LFE", No, No, No, "FLC", "FRC"),
   A(22, No, "FC", No, No, "FLC", "FRC"), A(23, "LFE", "FC", No, No, "FLC", "FRC"),
   A(24, No, No, "RC", No, "FLC", "FRC"), A(25, "LFE", No, "RC", No, "FLC", "FRC"),
   A(26, No, "FC", "RC", No, "FLC", "FRC"), A(27, "LFE", "FC", "RC", No, "FLC", "FRC"),
   A(28, No, No, "RL", "RR", "FLC", "FRC"), A(29, "LFE", No, "RL", "RR", "FLC", "FRC"),
   A(30, No, "FC", "RL", "RR", "FLC", "FRC"), A(31, "LFE", "FC", "RL", "RR", "FLC", "FRC"),
   A(32, No, "FC", "RL", "RR", "FCH", No), A(33, "LFE", "FC", "RL", "RR", "FCH", No),
   A(34, No, "FC", "RL", "RR", No, "TC"), A(35, "LFE", "FC", "RL", "RR", No, "TC"),
   A(36, No, No, "RL", "RR", "FLH", "FRH"), A(37, "LFE", No, "RL", "RR", "FLH", "FRH"),
   A(38, No, No, "RL", "RR", "FLW", "FRW"), A(39, "LFE", No, "RL", "RR", "FLW", "FRW"),
   A(40, No, "FC", "RL", "RR", "RC", "TC"), A(41, "LFE", "FC", "RL", "RR", "RC", "TC"),
   A(42, No, "FC", "RL", "RR", "RC", "FCH"), A(43, "LFE", "FC", "RL", "RR", "RC", "FCH"),
   A(44, No, "FC", "RL", "RR", "FCH", "TC"), A(45, "LFE", "FC", "RL", "RR", "FCH", "TC"),
   A(46, No, "FC", "RL", "RR", "FLH", "FRH"), A(47, "LFE", "FC", "RL", "RR", "FLH", "FRH"),
   A(48, No, "FC", "RL", "RR", "FLW", "FRW"), A(49, "LFE", "FC", "RL", "RR", "FLW", "FRW")
>>

Speaker(a, slot) == a.speakers[slot + 1]
Speakers(a) == {Speaker(a, s) : s \in Slots} \ {No}
Channels(a) == Cardinality(Speakers(a))
Order(ca) == CHOOSE i \in 1..Len(Allocations) : Allocations[i].ca = ca
Alloc(ca) == Allocations[Order(ca)]
CAs == {Allocations[i].ca : i \in 1..Len(Allocations)}

\* eld_speaker_allocation_bits
EldBits == [b \in 0..10 |->
  CASE b = 0 -> {"FL", "FR"} [] b = 1 -> {"LFE"} [] b = 2 -> {"FC"} [] b = 3 -> {"RL", "RR"}
    [] b = 4 -> {"RC"} [] b = 5 -> {"FLC", "FRC"} [] b = 6 -> {"RLC", "RRC"}
    [] b = 7 -> {"FLW", "FRW"} [] b = 8 -> {"FLH", "FRH"} [] b = 9 -> {"TC"} [] b = 10 -> {"FCH"}]
SinkSpeakers(bits) == UNION {EldBits[b] : b \in bits}

\* The first row with P
First(P(_)) ==
  LET hits == {i \in 1..Len(Allocations) : P(Allocations[i])}
  IN  IF hits = {} THEN -1 ELSE Allocations[CHOOSE i \in hits : \A j \in hits : i <= j].ca

\* Mutant of AutoAllocation: the sink's speakers are not looked at.
AutoAllocation_Any(bits, channels) ==
  IF channels <= 2 THEN 0 ELSE
  LET any == First(LAMBDA a : Channels(a) = channels) IN IF any > 0 THEN any ELSE 0

\* hdmi_channel_allocation_spk_alloc_blk: the first that the sink has, or else
\* the first with as many channels, or stereo
AutoAllocation(bits, channels) ==
  LET fit == First(LAMBDA a : Channels(a) = channels /\ Speakers(a) \subseteq SinkSpeakers(bits))
      any == First(LAMBDA a : Channels(a) = channels)
  IN  CASE channels <= 2 -> 0 [] channels > 2 /\ fit > 0 -> fit
        [] channels > 2 /\ fit <= 0 /\ any > 0 -> any [] OTHER -> 0

-----------------------------------------------------------------------------
(* Slots.                                                                  *)

\* hdmi_channel_mapping as compiled in: slot and channel, in ALSA's order
Fixed == [ca \in {0, 1, 2, 8, 3, 9, 10, 11, 19} |->
  CASE ca = 0  -> <<0, 1>>             [] ca = 1  -> <<0, 1, 2>>
    [] ca = 2  -> <<0, 1, 3>>          [] ca = 8  -> <<0, 1, 4, 5>>
    [] ca = 3  -> <<0, 1, 3, 2, 4>>    [] ca = 9  -> <<0, 1, 4, 5, 2>>
    [] ca = 10 -> <<0, 1, 4, 5, 3>>    [] ca = 11 -> <<0, 1, 4, 5, 3, 2>>
    [] ca = 19 -> <<0, 1, 6, 7, 3, 2, 4, 5>>]

\* Mutant of Filled: unused slots in between are not skipped.
Filled_InOrder(a) == [i \in 1..Channels(a) |-> i - 1]

\* ... and the rest, filled in at first use: the used slots in their order
Filled(a) ==
  LET used == {s \in Slots : Speaker(a, s) # No}
  IN  [i \in 1..Channels(a) |-> CHOOSE s \in used : Cardinality({r \in used : r < s}) = i - 1]

SlotList(ca) == IF ca \in DOMAIN Fixed THEN Fixed[ca] ELSE Filled(Alloc(ca))

\* A list of slots, channel by channel, as the pin has it: the others carry nothing
PinSlots(list) ==
  [s \in Slots |-> IF \E i \in 1..Len(list) : list[i] = s
                  THEN (CHOOSE i \in 1..Len(list) : list[i] = s) - 1 ELSE Unused]

\* hdmi_std_setup_channel_mapping
StdSlots(ca, nonPcm) ==
  PinSlots(IF nonPcm THEN [i \in 1..Channels(Alloc(ca)) |-> i - 1] ELSE SlotList(ca))

\* hdmi_setup_fake_chmap: the map a program reads back
FakeMap(ca) ==
  [i \in 1..8 |-> IF i <= Channels(Alloc(ca)) THEN Speaker(Alloc(ca), SlotList(ca)[i]) ELSE No]

\* hdmi_manual_channel_allocation
ManualAllocation(map) ==
  LET named == {i \in 1..Len(map) : map[i] # No}
      spks  == {map[i] : i \in named}
  IN  First(LAMBDA a : /\ Channels(a) \in {Len(map), Cardinality(named)}
                       /\ Speakers(a) \subseteq spks)

\* Mutant of ManualSlots: slots are counted from the other end.
ManualSlots_Reversed(map, ca) ==
  [s \in Slots |->
     LET chs == {i \in 1..Len(map) : map[i] # No /\ map[i] = Speaker(Alloc(ca), 7 - s)}
     IN  IF chs = {} THEN Unused ELSE (CHOOSE i \in chs : \A j \in chs : j <= i) - 1]

\* hdmi_manual_setup_channel_mapping; of two channels for a speaker the last wins
ManualSlots(map, ca) ==
  [s \in Slots |->
     LET chs == {i \in 1..Len(map) : map[i] # No /\ map[i] = Speaker(Alloc(ca), s)}
     IN  IF chs = {} THEN Unused ELSE (CHOOSE i \in chs : \A j \in chs : j <= i) - 1]

\* hdmi_chmap_ctl_put: what it returns, and the CA it stores the map for
PutMap(map, attached, state, current) ==
  CASE ~attached -> [ret |-> "ignored", ca |-> -1]
    [] attached /\ state = "running" -> [ret |-> "EBUSY", ca |-> -1]
    [] attached /\ state # "running" /\ map = current -> [ret |-> "same", ca |-> -1]
    [] attached /\ state # "running" /\ map # current ->
         LET ca == ManualAllocation(map)
         IN  [ret |-> IF ca < 0 THEN "EINVAL" ELSE "set", ca |-> ca]

-----------------------------------------------------------------------------
(* The list of maps for a program, hdmi_chmap_ctl_tlv: a header of 8 bytes, *)
(* and 8 bytes and 4 a channel for each map.                               *)

RowsFor(bits) ==
  LET sink == SinkSpeakers(bits \cup {0})
      rows(n) == SelectSeq(Allocations, LAMBDA a : Channels(a) = n /\ Speakers(a) \subseteq sink)
      upTo[n \in 1..Cardinality(sink)] == IF n = 1 THEN <<>> ELSE upTo[n - 1] \o rows(n)
  IN  upTo[Cardinality(sink)]

\* Mutant of RoomFor: the size of a map's header is not counted.
RoomFor_NoHeader(a) == 4 * Channels(a)

RoomFor(a) == 8 + 4 * Channels(a)

\* How many of the rows fit, and what is written
Tlv(bits, size) ==
  LET rows == RowsFor(bits)
      bytes[i \in 0..Len(rows)] == IF i = 0 THEN 8 ELSE bytes[i - 1] + RoomFor(rows[i])
      fit == {i \in 0..Len(rows) : bytes[i] <= size}
  IN  IF size < 8 \/ fit # 0..Len(rows) THEN [ret |-> "ENOMEM", maps |-> 0, count |-> 0]
      ELSE [ret |-> "ok", maps |-> Len(rows), count |-> bytes[Len(rows)] - 8]

-----------------------------------------------------------------------------

Padded(m) == [i \in 1..8 |-> IF i <= ChmapLength THEN m[i] ELSE No]

Asks ==
  [kind : {"auto"}, bits : SUBSET SinkBits, channels : 1..9]
  \cup [kind : {"std"}, ca : CAs, nonPcm : BOOLEAN]
  \cup [kind : {"put"}, map : {Padded(m) : m \in [1..ChmapLength -> ChmapPositions]},
        attached : BOOLEAN, state : {"open", "prepared", "running"}]
  \cup [kind : {"tlv"}, bits : SUBSET SinkBits, size : TlvSizes]

Answered == chmapAnswer # <<>>
Answer == chmapAnswer[1]

ChmapInit == chmapAsk \in Asks /\ chmapAnswer = <<>>

ChmapAuto ==
  /\ chmapAsk.kind = "auto" /\ ~Answered
  /\ chmapAnswer' = <<AutoAllocation(chmapAsk.bits, chmapAsk.channels)>>
ChmapStd ==
  /\ chmapAsk.kind = "std" /\ ~Answered
  /\ chmapAnswer' = <<StdSlots(chmapAsk.ca, chmapAsk.nonPcm)>>
ChmapPut ==
  /\ chmapAsk.kind = "put" /\ ~Answered
  /\ chmapAnswer' = <<PutMap(chmapAsk.map, chmapAsk.attached, chmapAsk.state, FakeMap(0))>>
ChmapTlv ==
  /\ chmapAsk.kind = "tlv" /\ ~Answered
  /\ chmapAnswer' = <<Tlv(chmapAsk.bits, chmapAsk.size)>>

ChmapNext == (ChmapAuto \/ ChmapStd \/ ChmapPut \/ ChmapTlv) /\ UNCHANGED chmapAsk

ChmapSpec == ChmapInit /\ [][ChmapNext]_chmapVars

-----------------------------------------------------------------------------
(* Properties.                                                             *)

\* The pin plays each speaker of an allocation from exactly one channel, and
\* the channels are 0 to n - 1; all other slots carry nothing, but for CA 3, whose
\* compiled-in row sends a fifth channel to a slot without a speaker.
SlotsRight ==
  chmapAsk.kind = "std" /\ Answered =>
    LET a == Alloc(chmapAsk.ca)
        used == {s \in Slots : Answer[s] # Unused}
    IN  /\ {Answer[s] : s \in used} = 0..(Cardinality(used) - 1)
        /\ chmapAsk.ca # 3 /\ ~chmapAsk.nonPcm => used = {s \in Slots : Speaker(a, s) # No}

\* What a program reads back as the map of an automatic allocation is what it
\* would have to set to get the same slots by hand.
MapRoundTrip ==
  chmapAsk.kind = "std" /\ Answered /\ ~chmapAsk.nonPcm =>
    \A s \in Slots :
      \/ ManualSlots(FakeMap(chmapAsk.ca), chmapAsk.ca)[s] = Answer[s]
      \/ chmapAsk.ca = 3 /\ s = 4

\* A map that is accepted names the speakers of the allocation it gets, each
\* once: none of the channels a program has placed is lost.
MapAccepted ==
  chmapAsk.kind = "put" /\ Answered => (Answer.ret = "set" =>
    LET map == chmapAsk.map
        slots == ManualSlots(map, Answer.ca)
    IN  /\ {map[i] : i \in 1..8} \ {No} = Speakers(Alloc(Answer.ca))
        /\ \A i \in 1..8 : map[i] # No =>
             \E s \in Slots : slots[s] = i - 1 /\ Speaker(Alloc(Answer.ca), s) = map[i])

\* An allocation the sink does not have is chosen only if it has none with that
\* many channels.
SinkServed ==
  chmapAsk.kind = "auto" /\ Answered /\ chmapAsk.channels > 2 =>
    LET a == Alloc(Answer)
        sink == SinkSpeakers(chmapAsk.bits)
    IN  \/ Channels(a) = chmapAsk.channels /\ Speakers(a) \subseteq sink
        \/ \A i \in 1..Len(Allocations) :
             ~(Channels(Allocations[i]) = chmapAsk.channels /\ Speakers(Allocations[i]) \subseteq sink)

\* The list of maps never runs past the program's buffer, and its stated length
\* is that of its maps.
TlvInBuffer ==
  chmapAsk.kind = "tlv" /\ Answered => (Answer.ret = "ok" =>
    LET rows == RowsFor(chmapAsk.bits)
        sum[i \in 0..Len(rows)] == IF i = 0 THEN 0 ELSE sum[i - 1] + 8 + 4 * Channels(rows[i])
    IN  Answer.count = sum[Len(rows)] /\ Answer.count + 8 <= chmapAsk.size)

\* The slots, the maps read back, the maps set and the list of maps agree with the
\* speakers of the allocation and of the sink, and stay inside their arrays.
MapsRight == SlotsRight /\ MapRoundTrip /\ MapAccepted /\ SinkServed /\ TlvInBuffer
=============================================================================
