------------------------------- MODULE DspLoad -------------------------------
(***************************************************************************)
(* The DSP loader of the CA0132 (dspload_image, dspxfr_image,              *)
(* dspxfr_one_seg and the dsp_*, dma_* and dspio_*_dma_chan helpers of     *)
(* ca0132.c).  An image is a list of segments; a segment's words go into   *)
(* the DSP's memory by DMA from an HDA stream, in chunks of the loader's   *)
(* buffer that are whole frames, and the words that make no frame are      *)
(* written one by one.  A list of register writes (HCI list) may precede a *)
(* segment.  On the AE-9 the output overlay is loaded a second time, each  *)
(* chunk announced to the DSP, which then starts the DMA itself.           *)
(*                                                                         *)
(* A word stands for the address it is meant for, and addresses count      *)
(* words.  Any access may fail where the code looks at its status.         *)
(***************************************************************************)
EXTENDS Integers, Sequences, FiniteSets, FiniteSetsExt

CONSTANTS
  Images,        \* sequences of segments
  FrameWords,    \* words in a frame of the stream
  BufferWords,   \* words in the loader's buffer, whole frames
  DmaChannels,   \* DMA channels of the DSP; 0 is one of them
  MaxLoads,      \* bound: loads
  MaxLoadFails   \* bound: failures

\* A segment of n words at address a, after a list of register writes or not
Segment(a, n, list) == [kind |-> IF list THEN "listed" ELSE "data", addr |-> a, count |-> n]
List == [kind |-> "list", addr |-> 0, count |-> 0]         \* a list at the end
Bad == [kind |-> "bad", addr |-> 0, count |-> 1]           \* without its magic number

SegmentWords(s) == IF s.kind \in {"data", "listed"} THEN s.addr .. (s.addr + s.count - 1) ELSE {}
ImageWords(image) == UNION {SegmentWords(image[i]) : i \in DOMAIN image}
AllWords == UNION {ImageWords(image) : image \in Images}

SegmentType == [kind : {"data", "listed", "list", "bad"}, addr : Nat, count : Nat]

ASSUME DspLoadAssumption ==
  /\ \A image \in Images : image \in Seq(SegmentType)
  /\ FrameWords \in Nat \ {0} /\ BufferWords \in Nat \ {0} /\ BufferWords % FrameWords = 0
  /\ 0 \in DmaChannels /\ DmaChannels \subseteq Nat /\ MaxLoads \in Nat /\ MaxLoadFails \in Nat

VARIABLES
  load,       \* the load being done
  buffer,     \* the words in the loader's buffer, in order
  dma,        \* channel registers of the DSP's DMA controller
  loadStream, \* the HDA stream: none, prepared, running, left (given back, marked running)
  ports,      \* router ports of the download are allocated
  held,       \* channels the DSP has given away
  memory,     \* the words in the DSP's memory; 0 is none of this load's
  lists,      \* HCI lists written in this load
  returned,   \* what the last load returned: ok, error
  excuses,    \* history: what went wrong in this load without an error
  leaks,      \* history: what was not given back where the code goes on without it
  loads, loadFails

loadVars == <<load, buffer, dma, loadStream, ports, held, memory, lists, returned, excuses, leaks,
              loads, loadFails>>

NoChannel == -1
NoDma == [on |-> FALSE, addr |-> 0, count |-> 0]
NothingLoading == [pc |-> "idle", image |-> <<>>, ovly |-> FALSE, announce |-> FALSE, rest |-> <<>>, chan |-> NoChannel,
         mask |-> FALSE, failed |-> FALSE, sent |-> 0, common |-> FALSE, remainder |-> 0, list |-> FALSE]

LoadInit ==
  /\ load = NothingLoading /\ buffer = <<>> /\ dma = [c \in DmaChannels |-> NoDma]
  /\ loadStream = "none" /\ ports = FALSE /\ held = {}
  /\ memory = [a \in AllWords |-> 0] /\ lists = 0
  /\ returned = "ok" /\ excuses = {} /\ leaks = {} /\ loads = 0 /\ loadFails = 0

LoadAt(pc) == load.pc = pc
LoadGoTo(pc) == load' = [load EXCEPT !.pc = pc]

\* A step fails and the load goes on at pc with an error
LoadFailTo(pc) ==
  /\ loadFails < MaxLoadFails /\ loadFails' = loadFails + 1
  /\ load' = [load EXCEPT !.pc = pc, !.failed = TRUE]

-----------------------------------------------------------------------------
(* dspload_image and the beginning of dspxfr_image.                        *)

BeginLoad ==
  /\ LoadAt("idle") /\ loads < MaxLoads
  /\ \E image \in Images, ovly, announce \in BOOLEAN :
       /\ announce => ovly
       /\ load' = [NothingLoading EXCEPT !.pc = IF ovly THEN "format" ELSE "reset", !.image = image, !.rest = image,
                               !.ovly = ovly, !.announce = announce,
                               !.chan = IF ovly THEN NoChannel ELSE 0]
  /\ memory' = [a \in AllWords |-> 0] /\ lists' = 0
  /\ excuses' = {"residue" : c \in {d \in DmaChannels : dma[d].on}}
  /\ loads' = loads + 1
  /\ UNCHANGED <<buffer, dma, loadStream, ports, held, returned, leaks, loadFails>>

\* dsp_reset, only before a whole firmware; a failure ends the load
ResetDsp ==
  /\ LoadAt("reset")
  /\ \/ LoadGoTo("format") /\ UNCHANGED loadFails
     \/ LoadFailTo("return")
  /\ UNCHANGED <<buffer, dma, loadStream, ports, held, memory, lists, returned, excuses, leaks, loads>>

\* codec_set_converter_format, then the stream (snd_hda_codec_load_dsp_prepare), which is
\* busy if a load before left it marked running
PrepareLoad ==
  /\ LoadAt("format")
  /\ \/ /\ loadStream = "none" /\ loadStream' = "prepared"
        /\ LoadGoTo(IF load.ovly THEN "channel" ELSE "ports") /\ UNCHANGED loadFails
     \/ /\ loadStream = "left"
        /\ load' = [load EXCEPT !.pc = "exit", !.failed = TRUE] /\ UNCHANGED <<loadStream, loadFails>>
     \/ LoadFailTo("exit") /\ UNCHANGED loadStream
  /\ UNCHANGED <<buffer, dma, ports, held, memory, lists, returned, excuses, leaks, loads>>

\* dspio_alloc_dma_chan: the DSP gives a channel, has none, or the answer is lost
AllocChannel ==
  /\ LoadAt("channel")
  /\ \/ \E c \in DmaChannels \ held :
          /\ held' = held \cup {c}
          /\ \/ load' = [load EXCEPT !.pc = "ports", !.chan = c] /\ UNCHANGED <<leaks, loadFails>>
             \/ LoadFailTo("exit") /\ leaks' = leaks \cup {"channel"}
     \/ LoadFailTo("exit") /\ UNCHANGED <<held, leaks>>
  /\ UNCHANGED <<buffer, dma, loadStream, ports, memory, lists, returned, excuses, loads>>

\* dsp_allocate_ports_format: the chip may have allocated when the status after it
\* fails, and may answer with an empty mask
AllocPorts ==
  /\ LoadAt("ports")
  /\ \/ load' = [load EXCEPT !.pc = "converter", !.mask = TRUE] /\ ports' = TRUE /\ UNCHANGED <<leaks, loadFails>>
     \/ LoadGoTo("converter") /\ UNCHANGED <<ports, leaks, loadFails>>
     \/ LoadFailTo("exit") /\ UNCHANGED <<ports, leaks>>
     \/ LoadFailTo("exit") /\ ports' = TRUE /\ leaks' = leaks \cup {"ports"}
  /\ UNCHANGED <<buffer, dma, loadStream, held, memory, lists, returned, excuses, loads>>

\* codec_set_converter_stream_channel: a failure leaves with the ports allocated
SetConverter ==
  /\ LoadAt("converter")
  /\ \/ LoadGoTo("next") /\ UNCHANGED <<leaks, loadFails>>
     \/ LoadFailTo("exit") /\ leaks' = (IF ports THEN leaks \cup {"ports"} ELSE leaks)
  /\ UNCHANGED <<buffer, dma, loadStream, ports, held, memory, lists, returned, excuses, loads>>

-----------------------------------------------------------------------------
(* dspxfr_one_seg.                                                         *)

Current == Head(load.rest)
Left == Current.count - load.sent

\* After the last segment the ports are freed
NoMoreSegments ==
  /\ LoadAt("next") /\ load.rest = <<>>
  /\ LoadGoTo("free")
  /\ UNCHANGED <<buffer, dma, loadStream, ports, held, memory, lists, returned, excuses, leaks, loads, loadFails>>

\* A segment without its magic number: the load is left with the ports allocated
BadSegment ==
  /\ LoadAt("next") /\ load.rest # <<>> /\ Current.kind = "bad"
  /\ load' = [load EXCEPT !.pc = "exit", !.failed = TRUE]
  /\ leaks' = (IF ports THEN leaks \cup {"ports"} ELSE leaks)
  /\ UNCHANGED <<buffer, dma, loadStream, ports, held, memory, lists, returned, excuses, loads, loadFails>>

\* dspxfr_hci_write of a list with no segment after it
WriteList ==
  /\ LoadAt("next") /\ load.rest # <<>> /\ Current.kind = "list"
  /\ \/ load' = [load EXCEPT !.rest = Tail(@)] /\ lists' = lists + 1 /\ UNCHANGED loadFails
     \/ LoadFailTo("free") /\ UNCHANGED lists
  /\ UNCHANGED <<buffer, dma, loadStream, ports, held, memory, returned, excuses, leaks, loads>>

\* A segment begins behind the words that make no frame; it needs ports
BeginSegment ==
  /\ LoadAt("next") /\ load.rest # <<>> /\ Current.kind \in {"data", "listed"}
  /\ load' =
       IF load.mask
       THEN [load EXCEPT !.pc = "chunk", !.remainder = Current.count % FrameWords,
                         !.sent = Current.count % FrameWords, !.common = FALSE,
                         !.list = (Current.kind = "listed")]
       ELSE [load EXCEPT !.pc = "free", !.failed = TRUE]
  /\ UNCHANGED <<buffer, dma, loadStream, ports, held, memory, lists, returned, excuses, leaks, loads, loadFails>>

\* Mutant of ChunkSize: a chunk is a whole buffer, the last one too.
ChunkSize_Buffer == BufferWords

ChunkSize == Min({BufferWords, Left})

\* Mutant of ChunkAt: the words that make no frame are not skipped.
ChunkAt_Start == Current.addr + (load.sent - (Current.count % FrameWords))

ChunkAt == Current.addr + load.sent

\* dma_xfer copies a chunk into the buffer; without one the rest is written
FillBuffer ==
  /\ LoadAt("chunk") /\ Left > 0
  /\ buffer' = [i \in 1..ChunkSize |-> Current.addr + load.sent + i - 1]
  /\ LoadGoTo(IF load.announce THEN "announce" ELSE IF load.common THEN "setup" ELSE "stop")
  /\ UNCHANGED <<dma, loadStream, ports, held, memory, lists, returned, excuses, leaks, loads, loadFails>>

\* dsp_dma_stop and dsp_dma_setup_common, before the first chunk only
StopDma ==
  /\ LoadAt("stop")
  /\ \/ /\ dma' = [dma EXCEPT ![load.chan].on = FALSE]
        /\ load' = [load EXCEPT !.pc = "setup", !.common = TRUE] /\ UNCHANGED loadFails
     \/ LoadFailTo("free") /\ UNCHANGED dma
  /\ UNCHANGED <<buffer, loadStream, ports, held, memory, lists, returned, excuses, leaks, loads>>

\* dsp_dma_setup and dsp_dma_start
StartDma ==
  /\ LoadAt("setup")
  /\ \/ /\ dma' = [dma EXCEPT ![load.chan] = [on |-> TRUE, addr |-> ChunkAt, count |-> Len(buffer)]]
        /\ LoadGoTo("run") /\ UNCHANGED loadFails
     \/ LoadFailTo("free") /\ UNCHANGED dma
  /\ UNCHANGED <<buffer, loadStream, ports, held, memory, lists, returned, excuses, leaks, loads>>

\* ae9_loader_announce_seg: the DSP programs its channel, or does not; a channel that did
\* not start is only logged
Announce ==
  /\ LoadAt("announce")
  /\ \/ /\ dma' = [dma EXCEPT ![load.chan] = [on |-> TRUE, addr |-> ChunkAt, count |-> Len(buffer)]]
        /\ UNCHANGED <<excuses, loadFails>>
     \/ /\ loadFails < MaxLoadFails /\ loadFails' = loadFails + 1
        /\ excuses' = excuses \cup {"not started"} /\ UNCHANGED dma
  /\ LoadGoTo("run")
  /\ UNCHANGED <<buffer, loadStream, ports, held, memory, lists, returned, leaks, loads>>

\* chipio_write_multiple of the first n words
Single(n) == [a \in AllWords |-> IF a \in Current.addr .. (Current.addr + n - 1) THEN a ELSE memory[a]]

\* The stream runs; then the words without a frame and the list are written, once.  A
\* failure leaves the segment without stopping the stream.
RunStream ==
  /\ LoadAt("run")
  /\ loadStream' = "running"
  /\ \/ /\ memory' = Single(load.remainder)
        /\ lists' = lists + (IF load.list THEN 1 ELSE 0)
        /\ load' = [load EXCEPT !.pc = "wait", !.remainder = 0, !.list = FALSE]
        /\ UNCHANGED <<leaks, loadFails>>
     \/ /\ load.remainder > 0 \/ load.list
        /\ leaks' = leaks \cup {"stream"}
        /\ LoadFailTo("free") /\ UNCHANGED <<memory, lists>>
  /\ UNCHANGED <<buffer, dma, ports, held, returned, excuses, loads>>

\* The hardware: a channel that is on takes what the stream carries
DmaMoves(c) ==
  /\ dma[c].on /\ loadStream = "running" /\ ports
  /\ memory' = [a \in AllWords |-> IF a \in dma[c].addr .. (dma[c].addr + dma[c].count - 1)
                                      /\ a - dma[c].addr + 1 <= Len(buffer)
                                   THEN buffer[a - dma[c].addr + 1] ELSE memory[a]]
  /\ dma' = [dma EXCEPT ![c].on = FALSE]
  /\ UNCHANGED <<load, buffer, loadStream, ports, held, lists, returned, excuses, leaks, loads, loadFails>>

\* dsp_is_dma_active finds the channel off
OffSeen(active) == ~active

\* The channel is found off: the stream stops and is set up again (dma_reset).  A read that
\* fails leaves the answer undefined, which may read as off.
ChunkDone ==
  /\ LoadAt("wait")
  /\ \/ OffSeen(dma[load.chan].on) /\ UNCHANGED <<excuses>>
     \/ dma[load.chan].on /\ loadFails < MaxLoadFails /\ excuses' = excuses \cup {"blind"}
  /\ \/ /\ loadStream' = "prepared"
        /\ load' = [load EXCEPT !.pc = "chunk", !.sent = @ + Len(buffer)]
        /\ loadFails' = loadFails + (IF excuses' # excuses THEN 1 ELSE 0)
     \/ loadStream' = "none" /\ LoadFailTo("free")
  /\ leaks' = leaks \ {"stream"}
  /\ UNCHANGED <<buffer, dma, ports, held, memory, lists, returned, loads>>

\* ... or it is still on after two seconds: the segment is given up, with the status of
\* the last step, which was good, and with the stream and the channel running
ChunkTimesOut ==
  /\ LoadAt("wait") /\ dma[load.chan].on
  /\ loadFails < MaxLoadFails /\ loadFails' = loadFails + 1
  /\ excuses' = excuses \cup {"timed out"} /\ leaks' = leaks \cup {"stream"}
  /\ load' = [load EXCEPT !.pc = "next", !.rest = Tail(@), !.sent = 0]
  /\ UNCHANGED <<buffer, dma, loadStream, ports, held, memory, lists, returned, loads>>

\* After the last chunk: a segment of less than a frame is written here, and the list
\* before it never is
FinishSegment ==
  /\ LoadAt("chunk") /\ Left = 0
  /\ \/ /\ memory' = Single(load.remainder)
        /\ excuses' = (IF load.list THEN excuses \cup {"list skipped"} ELSE excuses)
        /\ load' = [load EXCEPT !.pc = "next", !.rest = Tail(@), !.sent = 0, !.remainder = 0] /\ UNCHANGED loadFails
     \/ load.remainder > 0 /\ LoadFailTo("free") /\ UNCHANGED <<memory, excuses>>
  /\ UNCHANGED <<buffer, dma, loadStream, ports, held, lists, returned, leaks, loads>>

-----------------------------------------------------------------------------
(* The end of dspxfr_image and of dspload_image.                           *)

\* dsp_free_ports, whose status takes the place of the segment's, and then the
\* converter is taken off the stream
FreePorts ==
  /\ LoadAt("free")
  /\ \/ /\ ~load.mask
        /\ load' = [load EXCEPT !.pc = "exit"] /\ UNCHANGED <<ports, excuses, leaks, loadFails>>
     \/ /\ load.mask
        /\ LoadFailTo("exit") /\ leaks' = leaks \cup {"ports"} /\ UNCHANGED <<ports, excuses>>
     \/ /\ load.mask \/ ~load.failed
        /\ ports' = (ports /\ ~load.mask)
        /\ excuses' = (IF load.failed THEN excuses \cup {"overwritten"} ELSE excuses)
        /\ \/ load' = [load EXCEPT !.pc = "exit", !.failed = FALSE] /\ UNCHANGED loadFails
           \/ LoadFailTo("exit")
        /\ UNCHANGED leaks
  /\ UNCHANGED <<buffer, dma, loadStream, held, memory, lists, returned, loads>>

\* Mutant of GivenBack: a load that failed keeps its channel.
GivenBack_Ok == IF load.failed THEN {} ELSE {load.chan}

\* The channel that goes back to the DSP
GivenBack == {load.chan}

\* snd_hda_codec_load_dsp_cleanup unlocks the stream and does not clear running; it does
\* nothing with a stream this load has not prepared.
StreamAfter == IF loadStream \in {"running", "left"} THEN "left" ELSE "none"

\* The exit: the channel of an overlay goes back to the DSP, and the stream is cleaned up
ExitLoad ==
  /\ LoadAt("exit")
  /\ IF load.ovly /\ load.chan # NoChannel
     THEN \/ held' = held \ GivenBack /\ UNCHANGED <<leaks, loadFails>>
          \/ /\ loadFails < MaxLoadFails /\ loadFails' = loadFails + 1
             /\ leaks' = leaks \cup {"channel"} /\ UNCHANGED held
     ELSE UNCHANGED <<held, leaks, loadFails>>
  /\ loadStream' = StreamAfter
  /\ load' = [load EXCEPT !.pc = "return"]
  /\ UNCHANGED <<buffer, dma, ports, memory, lists, returned, excuses, loads>>

\* dsp_set_run_state after a whole firmware; it may fail
ReturnLoad ==
  /\ LoadAt("return")
  /\ \/ returned' = (IF load.failed THEN "error" ELSE "ok") /\ UNCHANGED loadFails
     \/ /\ ~load.failed /\ ~load.ovly /\ loadFails < MaxLoadFails /\ loadFails' = loadFails + 1
        /\ returned' = "error"
  /\ load' = [load EXCEPT !.pc = "idle"]
  /\ UNCHANGED <<buffer, dma, loadStream, ports, held, memory, lists, excuses, leaks, loads>>

\* ca0132_alt_free_active_dma_channels: channels found active go back to the DSP
FreeActive ==
  /\ LoadAt("idle") /\ \E c \in DmaChannels : dma[c].on
  /\ held' = {c \in held : ~dma[c].on}
  /\ UNCHANGED <<load, buffer, dma, loadStream, ports, memory, lists, returned, excuses, leaks, loads, loadFails>>

\* ae9_dsp_scp_startup stops channel 0 after the overlay's loads
StopResidue ==
  /\ LoadAt("idle") /\ dma[0].on
  /\ dma' = [dma EXCEPT ![0].on = FALSE]
  /\ UNCHANGED <<load, buffer, loadStream, ports, held, memory, lists, returned, excuses, leaks, loads, loadFails>>

\* A program opens or closes the stream, or a suspend stops all of them: running is cleared
\* (snd_hdac_stream_assign, _release, snd_hdac_stop_streams)
StreamReused ==
  /\ loadStream = "left" /\ loadStream' = "none"
  /\ leaks' = leaks \ {"stream"}
  /\ UNCHANGED <<load, buffer, dma, ports, held, memory, lists, returned, excuses, loads, loadFails>>

LoadNext ==
  \/ BeginLoad \/ ResetDsp \/ PrepareLoad \/ AllocChannel \/ AllocPorts \/ SetConverter
  \/ NoMoreSegments \/ BadSegment \/ WriteList \/ BeginSegment \/ FillBuffer \/ StopDma \/ StartDma \/ Announce \/ RunStream
  \/ ChunkDone \/ ChunkTimesOut \/ FinishSegment
  \/ FreePorts \/ ExitLoad \/ ReturnLoad \/ FreeActive \/ StopResidue \/ StreamReused
  \/ \E c \in DmaChannels : DmaMoves(c)

LoadSpec == LoadInit /\ [][LoadNext]_loadVars

-----------------------------------------------------------------------------
(* Properties.                                                             *)

\* The variables have their types.
LoadTypeOK ==
  /\ load.chan \in DmaChannels \cup {NoChannel}
  /\ load.sent \in Nat /\ (load.rest # <<>> => load.sent <= Current.count)
  /\ Len(buffer) <= BufferWords
  /\ loadStream \in {"none", "prepared", "running", "left"}
  /\ held \subseteq DmaChannels /\ returned \in {"ok", "error"}
  /\ leaks \subseteq {"channel", "ports", "stream"}
  /\ excuses \subseteq {"timed out", "blind", "not started", "list skipped", "overwritten",
                 "residue"}

\* The lists of an image
ListsOf(image) == Cardinality({i \in DOMAIN image : image[i].kind \in {"list", "listed"}})

ImageIsWhole == (\A a \in ImageWords(load.image) : memory[a] = a) /\ lists = ListsOf(load.image)

LoadEnded == LoadAt("idle") /\ loads > 0

\* A load that returned zero has put every word of the image at its address and written
\* every list, whatever the sizes of the segments are, in chunks and single words; unless
\* one of six things went wrong that the loader does not report: a channel a load before left
\* on, a wait that timed out, a read that failed, a channel the DSP did not start, a list
\* before less than a frame, an error that the release of the ports overwrote.
WholeImage == (LoadEnded /\ returned = "ok" /\ excuses = {}) => ImageIsWhole

\* "Returns zero or a negative error code." (dspxfr_image, dspload_image): zero means that
\* the image is in the DSP.
LoadReported == (LoadEnded /\ returned = "ok") => ImageIsWhole

\* After every load, failed or not, the HDA stream can be used for the next one, the DSP
\* has its channel back, and the ports are free; only a failure of the release itself, or of
\* a step that the code leaves without it, keeps them.  For the stream such a step is one
\* between its start and its stop: the clean-up then gives back a stream that is marked
\* running, which is busy to the next load until somebody else uses it.
AllReturned ==
  LoadAt("idle") =>
    /\ loadStream = "none" \/ (loadStream = "left" /\ "stream" \in leaks)
    /\ held # {} => "channel" \in leaks
    /\ ports => "ports" \in leaks

\* A load is all or an error, and leaves nothing behind.
LoadSound == WholeImage /\ AllReturned
=============================================================================
