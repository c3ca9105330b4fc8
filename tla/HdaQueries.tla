----------------------------- MODULE HdaQueries -----------------------------
(***************************************************************************)
(* What the HD-audio core works out from what a codec tells: the list of a *)
(* widget's connections, rates and formats, function groups (device.c),    *)
(* the verbs a cached register becomes (regmap.c), the driver of a codec   *)
(* (hda_bus_type.c), and whether there are graphics to bind to (i915.c).   *)
(* The functions are checked input by input: a question is asked, and the  *)
(* next step answers it.                                                   *)
(***************************************************************************)
EXTENDS Integers, Sequences, FiniteSets

CONSTANTS
  ConnNids,    \* node numbers in a connection list, with 0
  ConnLengths, \* bound: lengths of the list
  ConnRooms,   \* sizes of the caller's array
  RateBits,    \* rates, by index, that vary in a codec's answer
  AmpValues    \* values of an amplifier's half

ASSUME QueriesAssumption ==
  /\ ConnNids \subseteq Nat /\ ConnLengths \subseteq Nat
  /\ ConnRooms \subseteq Nat \ {0}
  /\ RateBits \subseteq 0..10 /\ AmpValues \subseteq 0..255

VARIABLES hdaAsk, hdaAnswer
queriesVars == <<hdaAsk, hdaAnswer>>

-----------------------------------------------------------------------------
(* Connections: entries that name a node, or a range up to it.             *)

CountOnly == 0  \* conn_list is NULL: there is always room

ConnStart == [list |-> <<>>, prev |-> 0, nulls |-> 0, ret |-> "ok"]

BadRange(prev, e) == e.range /\ (prev = 0 \/ prev >= e.val)

\* What an entry adds to the list
Expand(prev, e) == IF e.range THEN [i \in 1..(e.val - prev) |-> prev + i] ELSE <<e.val>>

\* Mutant of HasRoom: the array is taken to be one longer.
HasRoom_OneMore(st, new, room) == room = CountOnly \/ Len(st.list) + Len(new) <= room + 1

HasRoom(st, new, room) == room = CountOnly \/ Len(st.list) + Len(new) <= room

\* Mutant of ConnEntry: the range before does not count as the previous node.
ConnEntry_StalePrev(st, e, room) ==
  IF st.ret # "ok" THEN st
  ELSE IF e.val = 0 /\ st.nulls > 0 THEN [st EXCEPT !.ret = "invalid"]
  ELSE IF BadRange(st.prev, e) THEN [st EXCEPT !.nulls = @ + IF e.val = 0 THEN 1 ELSE 0]
  ELSE IF ~HasRoom(st, Expand(st.prev, e), room) THEN [st EXCEPT !.ret = "ENOSPC"]
  ELSE [list |-> st.list \o Expand(st.prev, e), prev |-> IF e.range THEN st.prev ELSE e.val,
        nulls |-> st.nulls + IF e.val = 0 THEN 1 ELSE 0, ret |-> "ok"]

\* One turn of the loop: a second null ends it, a bad range is passed over and
\* leaves the previous node
ConnEntry(st, e, room) ==
  IF st.ret # "ok" THEN st
  ELSE IF e.val = 0 /\ st.nulls > 0 THEN [st EXCEPT !.ret = "invalid"]
  ELSE IF BadRange(st.prev, e) THEN [st EXCEPT !.nulls = @ + IF e.val = 0 THEN 1 ELSE 0]
  ELSE IF ~HasRoom(st, Expand(st.prev, e), room) THEN [st EXCEPT !.ret = "ENOSPC"]
  ELSE [list |-> st.list \o Expand(st.prev, e), prev |-> e.val,
        nulls |-> st.nulls + IF e.val = 0 THEN 1 ELSE 0, ret |-> "ok"]

\* snd_hdac_get_connections; broken is the first entry whose verb fails, or 0
Connections(entries, long, broken, room) ==
  LET n == Len(entries)
      fails(i) == (i - 1) % (IF long THEN 2 ELSE 4) = 0 /\ broken \in i..(i + (IF long THEN 1 ELSE 3))
      upTo[i \in 0..n] ==
        IF i = 0 THEN ConnStart
        ELSE IF upTo[i - 1].ret = "ok" /\ fails(i) THEN [upTo[i - 1] EXCEPT !.ret = "EIO"]
        ELSE ConnEntry(upTo[i - 1], entries[i], room)
  IN  IF n = 1 /\ broken # 1
      THEN [ret |-> "ok", list |-> <<entries[1].val>>]   \* the range bit is masked out
      ELSE [ret |-> upTo[n].ret, list |-> IF upTo[n].ret = "ok" THEN upTo[n].list ELSE <<>>]

-----------------------------------------------------------------------------
(* Formats.                                                                *)

\* rate_bits: index and Hz; 9600 is in the table but not detected
RateTable == [i \in 0..11 |->
  <<8000, 11025, 16000, 22050, 32000, 44100, 48000, 88200, 96000, 176400, 192000, 9600>>[i + 1]]
RateIndexes(hz) == {i \in 0..11 : RateTable[i] = hz}
Widths == {8, 16, 20, 24, 32}
NoPcm == [rates |-> {}, bits |-> {}]

\* query_pcm_param, query_stream_param: the node's own answer, or the group's
QueryPcm(q) == IF q.ovrd /\ q.pcm # NoPcm THEN q.pcm ELSE q.afgPcm
QueryStream(q) == IF q.streams # {} THEN q.streams ELSE q.afgStreams

\* Mutant of PcmFormats: the width of the widest format is not kept.
PcmFormats_Narrow(bits, digital) ==
  [formats |-> {IF b = 8 THEN "U8" ELSE IF b = 16 THEN "S16" ELSE "S32" : b \in bits},
   subformats |-> {"MSBITS_20", "MSBITS_24"}, bps |-> 0]

\* The formats for a codec's widths; 32 bits on a digital widget is another format
PcmFormats(bits, digital) ==
  LET wide == bits \ (IF digital THEN {32} ELSE {})
  IN  [formats |-> {IF b = 8 THEN "U8" ELSE IF b = 16 THEN "S16" ELSE "S32" : b \in wide}
                    \cup (IF digital /\ 32 \in bits THEN {"IEC958"} ELSE {}),
       subformats |-> {IF b = 20 THEN "MSBITS_20" ELSE IF b = 24 THEN "MSBITS_24" ELSE "MSBITS_MAX" :
                         b \in wide \ {8, 16}},
       bps |-> IF wide = {} THEN 0 ELSE CHOOSE b \in wide : \A a \in wide : a <= b]

\* snd_hdac_query_supported_pcm
SupportedPcm(q) ==
  LET val == QueryPcm(q)
      streams == QueryStream(q)
      pcm == IF "pcm" \in streams THEN PcmFormats(val.bits, q.digital)
             ELSE [formats |-> {}, subformats |-> {}, bps |-> 0]
      all == IF streams = {"ac3"} THEN [pcm EXCEPT !.formats = {"U8"}, !.bps = 8] ELSE pcm
  IN  IF val.rates = {} \/ streams = {} \/ all.formats = {}
      THEN [ret |-> "EIO", rates |-> {}, pcm |-> NoPcm]
      ELSE [ret |-> "ok", rates |-> {RateTable[i] : i \in val.rates}, pcm |-> all]

\* snd_hdac_stream_format_bits
FormatBits(format, subformat, maxbits) ==
  LET bits == CASE format = "U8" -> 8 [] format = "S16" -> 16 [] format = "IEC958" -> 32
                [] format = "S32" /\ subformat = "MSBITS_20" -> 20
                [] format = "S32" /\ subformat = "MSBITS_24" -> 24
                [] format = "S32" /\ subformat \notin {"MSBITS_20", "MSBITS_24"} -> 32
  IN  IF maxbits # 0 /\ maxbits < bits THEN maxbits ELSE bits

\* snd_hdac_stream_format, snd_hdac_spdif_stream_format; rate -1 is the value 0
StreamFormat(channels, bits, hz, nonaudio) ==
  IF RateIndexes(hz) = {} \/ channels \notin 1..16 \/ bits \notin Widths THEN [rate |-> -1]
  ELSE [rate |-> CHOOSE i \in RateIndexes(hz) : TRUE, channels |-> channels - 1, bits |-> bits,
        nonPcm |-> nonaudio]

\* snd_hdac_is_supported_format; the bit for non-audio data is compared with the
\* rates, so such a format is never supported
IsSupported(q, fmt) ==
  /\ fmt.rate # -1 /\ ~fmt.nonPcm
  /\ QueryPcm(q) # NoPcm /\ fmt.rate \in 0..10 /\ fmt.rate \in QueryPcm(q).rates
  /\ QueryStream(q) # {}
  /\ "pcm" \in QueryStream(q) => fmt.bits \in QueryPcm(q).bits

-----------------------------------------------------------------------------
(* Function groups: setup_fg_nodes and snd_hdac_refresh_widgets.           *)

\* The root's sub nodes are numbered from 1
LastOf(types, t) ==
  IF \E i \in 1..Len(types) : types[i] = t
  THEN CHOOSE i \in 1..Len(types) : types[i] = t /\ \A j \in (i + 1)..Len(types) : types[j] # t
  ELSE 0

\* Mutant of Groups: the number of sub nodes is not looked at.
Groups_NoCheck(types, start, nums) ==
  LET afg == LastOf(types, "audio")
      sub == IF afg # 0 THEN [start |-> start, nums |-> nums] ELSE [start |-> 1, nums |-> Len(types)]
  IN  IF afg = 0 /\ LastOf(types, "modem") = 0 THEN [ret |-> "ENODEV", afg |-> 0, widgets |-> {}]
      ELSE [ret |-> "ok", afg |-> afg, widgets |-> sub.start..(sub.start + sub.nums - 1)]

\* The widgets come from the audio group, or, if there is none, from node 0:
\* a modem's "widgets" are the function groups
Groups(types, start, nums) ==
  LET afg == LastOf(types, "audio")
      sub == IF afg # 0 THEN [start |-> start, nums |-> nums] ELSE [start |-> 1, nums |-> Len(types)]
  IN  CASE afg = 0 /\ LastOf(types, "modem") = 0 -> [ret |-> "ENODEV", afg |-> 0, widgets |-> {}]
        [] (afg # 0 \/ LastOf(types, "modem") # 0)
           /\ (sub.start = 0 \/ sub.nums \notin 1..254) -> [ret |-> "EINVAL", afg |-> afg, widgets |-> {}]
        [] OTHER -> [ret |-> "ok", afg |-> afg, widgets |-> sub.start..(sub.start + sub.nums - 1)]

-----------------------------------------------------------------------------
(* Registers and verbs.                                                    *)

Sides == {"left", "right"}
AmpMute == 128

\* A register of the cache: both halves of an amplifier, one of them (whose mute
\* may stand for gain 0), a control of several bytes, or a coefficient
Registers ==
  [kind : {"stereo"}, val : [Sides -> AmpValues]]
  \cup [kind : {"half"}, side : Sides, fake : BOOLEAN, val : AmpValues]
  \cup [kind : {"bytes"}, bytes : {1, 2, 4}, val : [1..4 -> {0, 1}]]
  \cup [kind : {"coef"}, index : {1, 2}, val : {1}]

Amp(sides, val) == [set |-> "amp", sides |-> sides, val |-> val]
Byte(i, val) == [set |-> "byte", i |-> i, val |-> val]

\* Mutant of Verbs: a half that is equal is left out.
Verbs_Half(r) ==
  CASE r.kind = "stereo" -> <<Amp({"left"}, r.val["left"])>>
    [] r.kind = "half" -> <<Amp({r.side}, r.val)>>
    [] r.kind = "bytes" -> [i \in 1..r.bytes |-> Byte(i, r.val[i])]
    [] r.kind = "coef" -> <<[set |-> "coef index", val |-> r.index]>>

\* hda_reg_write and its helpers: what is sent, in order
Verbs(r) ==
  CASE r.kind = "stereo" /\ r.val["left"] = r.val["right"] -> <<Amp(Sides, r.val["left"])>>
    [] r.kind = "stereo" /\ r.val["left"] # r.val["right"] ->
         <<Amp({"left"}, r.val["left"]), Amp({"right"}, r.val["right"])>>
    [] r.kind = "half" -> <<Amp({r.side}, IF r.fake /\ r.val >= AmpMute THEN 0 ELSE r.val)>>
    [] r.kind = "bytes" -> [i \in 1..r.bytes |-> Byte(i, r.val[i])]
    [] r.kind = "coef" -> <<[set |-> "coef index", val |-> r.index],
                            [set |-> "get coef index", val |-> r.val]>>

\* External: what a codec makes of a verb; one that gets changes nothing
CodecReset == [amp |-> [s \in Sides |-> 0], byte |-> [i \in 1..4 |-> 0],
               index |-> 0, coef |-> [i \in {1, 2} |-> 0]]
CodecTakes(c, v) ==
  CASE v.set = "amp"  -> [c EXCEPT !.amp = [s \in Sides |-> IF s \in v.sides THEN v.val ELSE c.amp[s]]]
    [] v.set = "byte" -> [c EXCEPT !.byte[v.i] = v.val]
    [] v.set = "coef index" -> [c EXCEPT !.index = v.val]
    [] v.set = "coef" -> [c EXCEPT !.coef[c.index] = v.val]
    [] v.set = "get coef index" -> c

AfterVerbs(verbs) ==
  LET upTo[i \in 0..Len(verbs)] == IF i = 0 THEN CodecReset ELSE CodecTakes(upTo[i - 1], verbs[i])
  IN  upTo[Len(verbs)]

-----------------------------------------------------------------------------
(* Drivers and graphics.                                                   *)

\* hdac_get_device_id, hda_bus_match: the first row for the codec's vendor with its
\* revision or none; a driver's own match goes before its table
Matches(dev, drv) ==
  /\ dev.type = drv.type
  /\ IF drv.match # "none" THEN drv.match = "yes"
     ELSE \E i \in 1..Len(drv.table) :
            /\ \A j \in 1..i : drv.table[j].vendor # 0
            /\ drv.table[i].vendor = dev.vendor /\ drv.table[i].rev \in {0, dev.rev}

\* connectivity_check: the same PCI bus, the same parent (both may have none), or
\* the same grandparent; a path is the bus, its parent and grandparent, 0 for none
Reachable(a, b) ==
  \/ a[1] = b[1]
  \/ a[2] = b[2]
  \/ a[2] # 0 /\ b[2] # 0 /\ a[3] # 0 /\ a[3] = b[3]

\* i915_gfx_present, for the module parameter gpu_bind and the displays there are
GfxPresent(gpuBind, nomodeset, displays, hdac) ==
  /\ gpuBind # 0 /\ ~(gpuBind < 0 /\ nomodeset)
  /\ \E d \in displays : d.intel /\ ~d.denied /\ Reachable(d.path, hdac)

-----------------------------------------------------------------------------

Entry == [val : ConnNids, range : BOOLEAN]
Lists == UNION {[1..n -> Entry] : n \in ConnLengths}
PcmChoices == [rates : SUBSET RateBits, bits : SUBSET Widths]
Paths == {<<1, 0, 0>>, <<2, 0, 0>>, <<3, 1, 0>>, <<4, 1, 0>>, <<5, 3, 1>>, <<6, 4, 1>>}

HdaAsks ==
  [kind : {"conns"}, entries : Lists, long : BOOLEAN, broken : {0, 1, 3}]
  \cup [kind : {"pcm"}, pcm : PcmChoices, afgPcm : {NoPcm, [rates |-> {6}, bits |-> {16}]},
        streams : SUBSET {"pcm", "ac3"}, afgStreams : {{}, {"pcm"}}, ovrd : BOOLEAN, digital : BOOLEAN]
  \cup [kind : {"groups"}, types : UNION {[1..n -> {"audio", "modem", "other"}] : n \in 0..3},
        start : {0, 2, 16}, nums : {0, 4, 255}]
  \cup [kind : {"write"}, reg : Registers]
  \cup [kind : {"match"}, dev : [type : {"core", "legacy"}, vendor : {1, 2}, rev : {1, 2}],
        drv : [type : {"core"}, match : {"none", "yes", "no"},
               table : [1..2 -> [vendor : {0, 1, 2}, rev : {0, 1}]]]]
  \cup [kind : {"gfx"}, bind : {-1, 0, 1}, nomodeset : BOOLEAN,
        displays : {{d} : d \in [path : Paths, intel : BOOLEAN, denied : BOOLEAN]}, hdac : Paths]

HdaAnswered == hdaAnswer # <<>>
HdaReply == hdaAnswer[1]

QueriesInit == hdaAsk \in HdaAsks /\ hdaAnswer = <<>>

AskConns ==
  /\ hdaAsk.kind = "conns"
  /\ hdaAnswer' = <<[room \in ConnRooms \cup {CountOnly} |->
                       Connections(hdaAsk.entries, hdaAsk.long, hdaAsk.broken, room)]>>
AskPcm    == hdaAsk.kind = "pcm" /\ hdaAnswer' = <<SupportedPcm(hdaAsk)>>
AskGroups == hdaAsk.kind = "groups" /\ hdaAnswer' = <<Groups(hdaAsk.types, hdaAsk.start, hdaAsk.nums)>>
AskWrite  == hdaAsk.kind = "write" /\ hdaAnswer' = <<AfterVerbs(Verbs(hdaAsk.reg))>>
AskMatch  == hdaAsk.kind = "match" /\ hdaAnswer' = <<Matches(hdaAsk.dev, hdaAsk.drv)>>
AskGfx ==
  /\ hdaAsk.kind = "gfx"
  /\ hdaAnswer' = <<GfxPresent(hdaAsk.bind, hdaAsk.nomodeset, hdaAsk.displays, hdaAsk.hdac)>>

QueriesNext ==
  /\ ~HdaAnswered
  /\ AskConns \/ AskPcm \/ AskGroups \/ AskWrite \/ AskMatch \/ AskGfx
  /\ UNCHANGED hdaAsk

QueriesSpec == QueriesInit /\ [][QueriesNext]_queriesVars

-----------------------------------------------------------------------------
(* Properties.                                                             *)

\* A list for an array has what the count without an array said, or there is no
\* room for it ("When conn_list is NULL, it just checks the number"); only a list
\* that turns out invalid behind the end of the array is not noticed.  No array is
\* written past its end.
CountAgrees ==
  hdaAsk.kind = "conns" /\ HdaAnswered =>
    \A room \in ConnRooms :
      \/ HdaReply[room] = HdaReply[CountOnly] /\ (Len(HdaReply[room].list) <= room)
      \/ HdaReply[room].ret = "ENOSPC"
         /\ (HdaReply[CountOnly].ret = "ok" => Len(HdaReply[CountOnly].list) > room)

\* A well-formed list, one that ascends, is read as what it says: the nodes it
\* names, and of a range all between the node before and its end.
RangesExpand ==
  hdaAsk.kind = "conns" /\ HdaAnswered =>
    LET e == hdaAsk.entries
        n == Len(e)
        ascends == n > 1 /\ hdaAsk.broken = 0 /\ e[1].val > 0 /\ ~e[1].range
                   /\ \A i \in 2..n : e[i - 1].val < e[i].val
        nodes == UNION {IF e[i].range THEN (e[i - 1].val + 1)..e[i].val ELSE {e[i].val} : i \in 1..n}
        list == HdaReply[CountOnly].list
    IN  ascends => /\ HdaReply[CountOnly].ret = "ok" /\ {list[i] : i \in 1..Len(list)} = nodes
                   /\ \A i \in 2..Len(list) : list[i - 1] < list[i]

\* Whatever rate and format a program is offered makes a stream format that the
\* check before playback accepts.
OfferedSupported ==
  hdaAsk.kind = "pcm" /\ HdaAnswered => (HdaReply.ret = "ok" =>
    \A hz \in HdaReply.rates, f \in HdaReply.pcm.formats :
      \A sub \in {"STD"} \cup (IF f = "S32" THEN HdaReply.pcm.subformats ELSE {}) :
        IsSupported(hdaAsk, StreamFormat(2, FormatBits(f, sub, HdaReply.pcm.bps), hz, FALSE)))

\* The codec ends up with what was written to the cache: after the verbs of a
\* register it holds the value, no other half or byte of its control is touched
\* and a fake mute is gain 0.
WriteArrives ==
  hdaAsk.kind = "write" /\ HdaAnswered =>
    LET r == hdaAsk.reg IN
    CASE r.kind = "stereo" -> HdaReply.amp = r.val
      [] r.kind = "half" ->
           HdaReply.amp = [s \in Sides |->
             IF s # r.side \/ (r.fake /\ r.val >= AmpMute) THEN 0 ELSE r.val]
      [] r.kind = "bytes" -> HdaReply.byte = [i \in 1..4 |-> IF i <= r.bytes THEN r.val[i] ELSE 0]
      [] r.kind = "coef" -> HdaReply.index = r.index

\* A coefficient written through the cache is written ("write a pseudo coef
\* register (16bit)").
CoefWritten ==
  hdaAsk.kind = "write" /\ HdaAnswered /\ hdaAsk.reg.kind = "coef" =>
    HdaReply.coef[hdaAsk.reg.index] = hdaAsk.reg.val

\* A codec that is accepted has widgets, and they are no function groups unless
\* it has a modem group only.
WidgetsOfAfg ==
  hdaAsk.kind = "groups" /\ HdaAnswered =>
    /\ (HdaReply.ret = "ok") => HdaReply.widgets # {}
    /\ HdaReply.ret = "ok" /\ hdaAsk.start > Len(hdaAsk.types) /\ HdaReply.afg # 0 =>
         HdaReply.widgets \cap (1..Len(hdaAsk.types)) = {}

\* What the core reads out of a codec, and writes to it through the cache, is what
\* the codec's words say: connections, formats, registers and function groups.
QueriesRight == CountAgrees /\ RangesExpand /\ OfferedSupported /\ WriteArrives /\ WidgetsOfAfg
=============================================================================
