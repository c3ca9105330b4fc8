--------------------------- MODULE CodecLife_proofs ---------------------------
(***************************************************************************)
(* Proofs about the codec's life and the download of its DSP.              *)
(*                                                                         *)
(* CodecLife, for every board and any number of probes, suspends and       *)
(* failures.  LifeInv is inductive: the places of the calls, the           *)
(* reference with the flag that tells of it, the works with the order in   *)
(* which they are cancelled, and the service from its queueing on.         *)
(*                                                                         *)
(* DspLoad, for any images, channels and sizes of frame and buffer: what a *)
(* load has taken (Taken), and, as long as nothing went wrong, how far it  *)
(* has come in its image (PlaceOK), in its segment (SegmentOK) and in the  *)
(* chunk that the DMA controller has or will take (ChunkOK).               *)
(***************************************************************************)
EXTENDS CodecLife, DspLoad, SequenceTheorems, FiniteSetTheorems, TLAPS

\* Types of the places, and that the startup check, which alone repeats the
\* initialisation, belongs to the Sound Blaster Z and has tries left
PlacesOK ==
  /\ phase \in Phases /\ dsp_state \in {"init", "downloaded", "failed"}
  /\ board \in Boards /\ tries \in 0..3
  /\ queued \subseteq Works /\ running \subseteq Works
  /\ phase = "check" => tries > 0
  /\ tries > 0 => board = "sbz"

\* The flag tells of the reference
HoldKept ==
  /\ usage \in Nat
  /\ board # "daughter" => (ae9_pm_held <=> (phase # "unbound" /\ board = "main"))
  /\ HoldReturned

\* The works are cancelled one after the other: while the second is waited for the
\* first is gone; the daughter board has none.
WorksKept ==
  /\ WorksStopped
  /\ phase \in {"suspend_acm", "free_acm"} => "hp" \notin queued \cup running
  /\ board = "daughter" => queued = {} /\ running = {}

\* The service is queued before the initialisation returns.
ServiceKept ==
  phase \in {"up", "finish"} /\ board = "main" /\ dsp_state = "downloaded"
    => "acm" \in queued \cup running

LifeInv == PlacesOK /\ chipRuns \in BOOLEAN /\ HoldKept /\ WorksKept /\ ServiceKept

-----------------------------------------------------------------------------

\* The driver starts unbound, with nothing queued and no reference.
LEMMA LifeInvInit == LifeInit => LifeInv
<1> SUFFICES ASSUME LifeInit PROVE LifeInv
  OBVIOUS
<1>1. PlacesOK
  BY DEF LifeInit, PlacesOK, Phases
<1>2. HoldKept /\ WorksKept /\ ServiceKept
  BY DEF LifeInit, HoldKept, HoldReturned, WorksKept, WorksStopped, ServiceKept
<1>3. chipRuns \in BOOLEAN
  BY DEF LifeInit
<1>4. QED
  BY <1>1, <1>2, <1>3 DEF LifeInv

\* Every step goes from a place of the code to one that follows it.
LEMMA PlacesStep ==
  ASSUME PlacesOK, [LifeNext]_lifeVars
  PROVE  PlacesOK'
<1> USE DEF PlacesOK, Phases, Calls, Works
<1>1. CASE Probe
  BY <1>1 DEF Probe, LifeFails
<1>2. CASE Remove
  BY <1>2 DEF Remove
<1>3. CASE Suspend
  BY <1>3 DEF Suspend
<1>4. CASE Resume
  BY <1>4 DEF Resume
<1>5. CASE Begin
  BY <1>5 DEF Begin
<1>6. CASE BeginLoaded
  BY <1>6 DEF BeginLoaded, Queue
<1>7. CASE Download
  BY <1>7 DEF Download, LifeFails
<1>8. CASE Defaults
  BY <1>8 DEF Defaults, Queue
<1>9. CASE InitReturns
  BY <1>9 DEF InitReturns
<1>10. CASE StartupCheck
  BY <1>10 DEF StartupCheck
<1>11. CASE Cancel
  BY <1>11 DEF Cancel, CancelSync
<1>12. CASE Free
  BY <1>12 DEF Free
<1>13. CASE HeadphoneEvent
  BY <1>13 DEF HeadphoneEvent, Queue
<1>14. ASSUME NEW w \in Works, RunWork(w) PROVE PlacesOK'
  BY <1>14 DEF RunWork
<1>15. ASSUME NEW w \in Works, WorkEnds(w) PROVE PlacesOK'
  BY <1>15 DEF WorkEnds, Queue
<1>16. CASE UNCHANGED lifeVars
  BY <1>16 DEF lifeVars
<1>17. QED
  BY <1>1, <1>2, <1>3, <1>4, <1>5, <1>6, <1>7, <1>8, <1>9, <1>10, <1>11, <1>12, <1>13,
     <1>14, <1>15, <1>16 DEF LifeNext, InitStep

\* Only the probe takes the reference and only the end of ca0132_free returns it.
LEMMA HoldStep ==
  ASSUME PlacesOK, HoldKept, [LifeNext]_lifeVars
  PROVE  HoldKept'
<1> USE DEF PlacesOK, HoldKept, HoldReturned, Phases, Calls
<1>1. CASE Probe
  <2>1. ae9_pm_held' <=> board \in {"main", "daughter"}
    BY <1>1, Zenon DEF Probe
  <2>2. usage' = usage + (IF board \in {"main", "daughter"} THEN 1 ELSE 0)
    <3>1. usage' = usage + (IF ae9_pm_held' THEN 1 ELSE 0)
      BY <1>1 DEF Probe
    <3>2. QED
      BY <2>1, <3>1
  <2>3. phase = "unbound" /\ board' = board /\ phase' # "unbound"
    BY <1>1 DEF Probe
  <2>4. board \in {"main", "daughter", "sbz"}
    BY LifeAssumption
  <2>5. QED
    BY <2>1, <2>2, <2>3, <2>4
<1>2. CASE Remove
  BY <1>2 DEF Remove
<1>3. CASE Suspend
  BY <1>3 DEF Suspend
<1>4. CASE Resume
  BY <1>4 DEF Resume
<1>5. CASE Begin
  BY <1>5 DEF Begin
<1>6. CASE BeginLoaded
  BY <1>6 DEF BeginLoaded, Queue
<1>7. CASE Download
  BY <1>7 DEF Download, LifeFails
<1>8. CASE Defaults
  BY <1>8 DEF Defaults, Queue
<1>9. CASE InitReturns
  BY <1>9 DEF InitReturns
<1>10. CASE StartupCheck
  BY <1>10 DEF StartupCheck
<1>11. CASE Cancel
  BY <1>11 DEF Cancel, CancelSync
<1>12. CASE Free
  BY <1>12 DEF Free
<1>13. CASE HeadphoneEvent
  BY <1>13 DEF HeadphoneEvent, Queue
<1>14. ASSUME NEW w \in Works, RunWork(w) PROVE HoldKept'
  BY <1>14 DEF RunWork
<1>15. ASSUME NEW w \in Works, WorkEnds(w) PROVE HoldKept'
  BY <1>15 DEF WorkEnds, Queue
<1>16. CASE UNCHANGED lifeVars
  BY <1>16 DEF lifeVars
<1>17. QED
  BY <1>1, <1>2, <1>3, <1>4, <1>5, <1>6, <1>7, <1>8, <1>9, <1>10, <1>11, <1>12, <1>13,
     <1>14, <1>15, <1>16 DEF LifeNext, InitStep

\* A work being waited for does not queue itself, and nothing else queues one then.
LEMMA WorksStep ==
  ASSUME PlacesOK, WorksKept, [LifeNext]_lifeVars
  PROVE  WorksKept'
<1> USE DEF PlacesOK, WorksKept, WorksStopped, Works
<1>1. CASE Probe
  BY <1>1 DEF Probe, LifeFails
<1>2. CASE Remove
  BY <1>2 DEF Remove
<1>3. CASE Suspend
  BY <1>3 DEF Suspend
<1>4. CASE Resume
  BY <1>4 DEF Resume
<1>5. CASE Begin
  BY <1>5 DEF Begin
<1>6. CASE BeginLoaded
  BY <1>6 DEF BeginLoaded, Queue
<1>7. CASE Download
  BY <1>7 DEF Download, LifeFails
<1>8. CASE Defaults
  BY <1>8 DEF Defaults, Queue
<1>9. CASE InitReturns
  BY <1>9 DEF InitReturns
<1>10. CASE StartupCheck
  BY <1>10 DEF StartupCheck
<1>11. CASE Cancel
  BY <1>11 DEF Cancel, CancelSync
<1>12. CASE Free
  BY <1>12 DEF Free
<1>13. CASE HeadphoneEvent
  BY <1>13 DEF HeadphoneEvent, Queue
<1>14. ASSUME NEW w \in Works, RunWork(w) PROVE WorksKept'
  BY <1>14 DEF RunWork
<1>15. ASSUME NEW w \in Works, WorkEnds(w) PROVE WorksKept'
  BY <1>15 DEF WorkEnds, Queue, Cancels
<1>16. CASE UNCHANGED lifeVars
  BY <1>16 DEF lifeVars
<1>17. QED
  BY <1>1, <1>2, <1>3, <1>4, <1>5, <1>6, <1>7, <1>8, <1>9, <1>10, <1>11, <1>12, <1>13,
     <1>14, <1>15, <1>16 DEF LifeNext, InitStep

\* The service, once queued, is queued or runs until a suspend or a remove cancels it.
LEMMA ServiceStep ==
  ASSUME PlacesOK, ServiceKept, [LifeNext]_lifeVars
  PROVE  ServiceKept'
<1> USE DEF PlacesOK, ServiceKept, Works
<1>1. CASE Probe
  BY <1>1 DEF Probe, LifeFails
<1>2. CASE Remove
  BY <1>2 DEF Remove
<1>3. CASE Suspend
  BY <1>3 DEF Suspend
<1>4. CASE Resume
  BY <1>4 DEF Resume
<1>5. CASE Begin
  BY <1>5 DEF Begin
<1>6. CASE BeginLoaded
  BY <1>6 DEF BeginLoaded, Queue
<1>7. CASE Download
  BY <1>7 DEF Download, LifeFails
<1>8. CASE Defaults
  BY <1>8 DEF Defaults, Queue
<1>9. CASE InitReturns
  BY <1>9 DEF InitReturns
<1>10. CASE StartupCheck
  BY <1>10 DEF StartupCheck
<1>11. CASE Cancel
  BY <1>11 DEF Cancel, CancelSync
<1>12. CASE Free
  BY <1>12 DEF Free
<1>13. CASE HeadphoneEvent
  BY <1>13 DEF HeadphoneEvent, Queue
<1>14. ASSUME NEW w \in Works, RunWork(w) PROVE ServiceKept'
  BY <1>14 DEF RunWork
<1>15. ASSUME NEW w \in Works, WorkEnds(w) PROVE ServiceKept'
  BY <1>15 DEF WorkEnds, Queue, Cancels
<1>16. CASE UNCHANGED lifeVars
  BY <1>16 DEF lifeVars
<1>17. QED
  BY <1>1, <1>2, <1>3, <1>4, <1>5, <1>6, <1>7, <1>8, <1>9, <1>10, <1>11, <1>12, <1>13,
     <1>14, <1>15, <1>16 DEF LifeNext, InitStep

\* The DSP runs or does not.
LEMMA ChipRunsStep ==
  ASSUME chipRuns \in BOOLEAN, [LifeNext]_lifeVars
  PROVE  (chipRuns \in BOOLEAN)'
<1> USE DEF Works
<1>1. CASE Probe
  BY <1>1, Zenon DEF Probe, LifeFails
<1>2. CASE Remove
  BY <1>2, Zenon DEF Remove
<1>3. CASE Suspend
  BY <1>3, Zenon DEF Suspend
<1>4. CASE Resume
  BY <1>4, Zenon DEF Resume
<1>5. CASE Begin
  BY <1>5, Zenon DEF Begin
<1>6. CASE BeginLoaded
  BY <1>6, Zenon DEF BeginLoaded, Queue
<1>7. CASE Download
  BY <1>7, Zenon DEF Download, LifeFails
<1>8. CASE Defaults
  BY <1>8, Zenon DEF Defaults, Queue
<1>9. CASE InitReturns
  BY <1>9, Zenon DEF InitReturns
<1>10. CASE StartupCheck
  BY <1>10, Zenon DEF StartupCheck
<1>11. CASE Cancel
  BY <1>11, Zenon DEF Cancel, CancelSync
<1>12. CASE Free
  BY <1>12, Zenon DEF Free
<1>13. CASE HeadphoneEvent
  BY <1>13, Zenon DEF HeadphoneEvent, Queue
<1>14. ASSUME NEW w \in Works, RunWork(w) PROVE (chipRuns \in BOOLEAN)'
  BY <1>14, Zenon DEF RunWork
<1>15. ASSUME NEW w \in Works, WorkEnds(w) PROVE (chipRuns \in BOOLEAN)'
  BY <1>15, Zenon DEF WorkEnds, Queue
<1>16. CASE UNCHANGED lifeVars
  BY <1>16, Zenon DEF lifeVars
<1>17. QED
  BY <1>1, <1>2, <1>3, <1>4, <1>5, <1>6, <1>7, <1>8, <1>9, <1>10, <1>11, <1>12, <1>13,
     <1>14, <1>15, <1>16 DEF LifeNext, InitStep

-----------------------------------------------------------------------------

\* LifeInv holds in every state of probe, initialisation, suspend, resume and remove.
THEOREM LifeInvariant == LifeSpec => []LifeInv
<1>1. LifeInv /\ [LifeNext]_lifeVars => LifeInv'
  BY PlacesStep, ChipRunsStep, HoldStep, WorksStep, ServiceStep DEF LifeInv
<1>2. QED
  BY LifeInvInit, <1>1, PTL DEF LifeSpec

\* The variables of CodecLife keep their types.
THEOREM LifeTypeCorrect == LifeSpec => []LifeTypeOK
<1>1. LifeInv => LifeTypeOK
  BY DEF LifeInv, PlacesOK, HoldKept, LifeTypeOK
<1>2. QED
  BY LifeInvariant, <1>1, PTL

\* While the codec sleeps, is being freed or is gone, none of its works is queued or run
\* (cancel_delayed_work_sync in ca0132_codec_suspend and ca0132_free).
THEOREM WorksAreStopped == LifeSpec => []WorksStopped
<1>1. LifeInv => WorksStopped
  BY DEF LifeInv, WorksKept
<1>2. QED
  BY LifeInvariant, <1>1, PTL

\* An AE-9 that is up with its DSP downloaded has its module's service queued or
\* running, on each of ca0132_init's ways out.
THEOREM AcmIsServed == LifeSpec => []AcmServed
<1>1. LifeInv => AcmServed
  BY DEF LifeInv, ServiceKept, AcmServed
<1>2. QED
  BY LifeInvariant, <1>1, PTL

\* The run-time PM reference of the probe is held while the driver is bound and
\* returned by each way out (ca0132_codec_probe, ca0132_free).
THEOREM HoldIsReturned == LifeSpec => []HoldReturned
<1>1. LifeInv => HoldReturned
  BY DEF LifeInv, HoldKept
<1>2. QED
  BY LifeInvariant, <1>1, PTL

-----------------------------------------------------------------------------
(* The DSP loader.                                                         *)

\* Fields of a load, and where it is
LoadFields == {"pc", "image", "ovly", "announce", "rest", "chan", "mask", "failed", "sent", "common",
               "remainder", "list"}
InSegment == {"chunk", "stop", "setup", "announce", "run", "wait"}
WithPorts == {"converter", "next", "free"} \cup InSegment
LoadPlaces == {"idle", "reset", "format", "channel", "ports", "exit", "return"} \cup WithPorts

LoadShape == load = [f \in LoadFields |-> load[f]] /\ load.pc \in LoadPlaces

MemoryShape ==
  /\ dma = [c \in DmaChannels |-> dma[c]]
  /\ \A c \in DmaChannels : dma[c] = [f \in {"on", "addr", "count"} |-> dma[c][f]]
  /\ memory = [a \in AllWords |-> memory[a]]

\* The stream is taken only within a load, and marked running outside the wait for a chunk
\* only where a step left it so.
StreamTaken ==
  /\ loadStream \in {"none", "prepared", "running", "left"}
  /\ load.pc \in {"idle", "reset", "format", "return"} => loadStream \in {"none", "left"}
  /\ loadStream = "running" => load.pc = "wait" \/ "stream" \in leaks
  /\ loadStream = "left" => "stream" \in leaks

\* What the load has taken and not given back: the channel of an overlay, the ports that
\* its mask tells of.
Taken ==
  /\ load.pc = "channel" => load.ovly
  /\ load.pc \in {"reset", "format", "channel", "ports"} => ~load.mask
  /\ load.pc \in {"reset", "format", "channel"} => load.chan = (IF load.ovly THEN NoChannel ELSE 0)
  /\ load.pc \in WithPorts \cup {"ports"} => load.chan \in DmaChannels
  /\ "channel" \notin leaks =>
       IF load.pc \in WithPorts \cup {"ports", "exit"} /\ load.ovly /\ load.chan # NoChannel
       THEN held = {load.chan} ELSE held = {}
  /\ "ports" \notin leaks => (ports <=> (load.pc \in WithPorts /\ load.mask))

\* Segments that are done, and the words of the current one that are
Behind == Len(load.image) - Len(load.rest)
Stored(first, last) == \A a \in AllWords : a >= first /\ a <= last => memory[a] = a

IsList(s) == s.kind \in {"list", "listed"}

\* What is left of the image is its end
RestOK ==
  /\ load.image \in Images \cup {<<>>} /\ load.rest \in Seq(SegmentType)
  /\ Len(load.rest) <= Len(load.image)
  /\ \A i \in 1..Len(load.rest) : load.rest[i] = load.image[Behind + i]

\* Every segment behind is in the memory.
DoneOK == \A i \in 1..Behind : \A a \in SegmentWords(load.image[i]) : memory[a] = a

\* Every list behind is written, the one before the current segment with its first chunk.
ListsBehind == Cardinality({i \in 1..Behind : IsList(load.image[i])})
ListsOK ==
  lists = ListsBehind + (IF load.pc \in InSegment /\ Current.kind = "listed" /\ ~load.list THEN 1 ELSE 0)

\* The end is reached when there is nothing left.
EndOK == load.pc \in {"free", "exit", "return"} \/ (load.pc = "idle" /\ loads > 0) => load.rest = <<>>

PlaceOK == RestOK /\ DoneOK /\ ListsOK /\ EndOK

\* The current segment: what has been sent is stored, but for the words without a frame
\* until they are written; the list is written with the first chunk.
SegmentOK ==
  load.pc \in InSegment =>
    /\ load.rest # <<>> /\ Current.kind \in {"data", "listed"}
    /\ load.sent \in Nat /\ load.sent <= Current.count
    /\ load.remainder \in {0, Current.count % FrameWords} /\ load.remainder <= load.sent
    /\ Stored(Current.addr + load.remainder, Current.addr + load.sent - 1)
    /\ Current.kind = "data" => ~load.list
    /\ load.pc = "wait" => load.remainder = 0 /\ ~load.list

\* The chunk in the buffer is the one that comes next; the channel that is on, if any, is
\* the load's and takes it to its place, and when it is off the chunk is there.
ChunkOK ==
  /\ load.pc \in InSegment \ {"chunk"} =>
       /\ buffer \in Seq(Nat) /\ load.sent + Len(buffer) <= Current.count
       /\ \A i \in 1..Len(buffer) : buffer[i] = Current.addr + load.sent + i - 1
  /\ \A c \in DmaChannels : dma[c].on => load.pc \in {"run", "wait"} /\ c = load.chan
  /\ load.pc \in {"run", "wait"} =>
       IF dma[load.chan].on
       THEN dma[load.chan].addr = Current.addr + load.sent /\ dma[load.chan].count = Len(buffer)
       ELSE Stored(Current.addr + load.sent, Current.addr + load.sent + Len(buffer) - 1)

\* Nothing went wrong, reported or not
Fine == ~load.failed /\ excuses = {}

Sound == Fine => PlaceOK /\ SegmentOK /\ ChunkOK

\* A load that says that it succeeded has not failed.
SaysOk == load.pc = "idle" /\ loads > 0 /\ returned = "ok" => ~load.failed


\* A step that touches neither the channels nor the memory
LEMMA MemoryStays ==
  ASSUME MemoryShape, <<dma, memory>>' = <<dma, memory>>
  PROVE  MemoryShape'
<1>1. dma' = dma /\ memory' = memory
  OBVIOUS
<1>2. QED
  BY <1>1, Zenon DEF MemoryShape

\* A channel switched off or programmed
LEMMA ChannelSet ==
  ASSUME MemoryShape, NEW c, NEW e, e = [f \in {"on", "addr", "count"} |-> e[f]],
         dma' = [dma EXCEPT ![c] = e]
  PROVE  /\ dma' = [d \in DmaChannels |-> dma'[d]]
         /\ \A d \in DmaChannels : dma'[d] = [f \in {"on", "addr", "count"} |-> dma'[d][f]]
<1>1. \A d \in DmaChannels : dma'[d] = IF d = c THEN e ELSE dma[d]
  BY DEF MemoryShape
<1>2. dma' = [d \in DmaChannels |-> dma'[d]]
  BY DEF MemoryShape
<1>3. ASSUME NEW d \in DmaChannels PROVE dma'[d] = [f \in {"on", "addr", "count"} |-> dma'[d][f]]
  <2>1. CASE d = c
    BY <1>1, <2>1, Zenon
  <2>2. CASE d # c
    <3>1. dma'[d] = dma[d]
      BY <1>1, <2>2, Zenon
    <3>2. QED
      BY <3>1, Zenon DEF MemoryShape
  <2>3. QED
    BY <2>1, <2>2
<1>4. QED
  BY <1>2, <1>3

\* A channel switched off
LEMMA ChannelOff ==
  ASSUME MemoryShape, NEW c, dma' = [dma EXCEPT ![c].on = FALSE]
  PROVE  /\ dma' = [d \in DmaChannels |-> dma'[d]]
         /\ \A d \in DmaChannels : dma'[d] = [f \in {"on", "addr", "count"} |-> dma'[d][f]]
         /\ \A d \in DmaChannels : d # c => dma'[d] = dma[d]
         /\ c \in DmaChannels => dma'[c].on = FALSE
<1>1. CASE c \in DmaChannels
  <2>1. PICK e : e = [dma[c] EXCEPT !.on = FALSE]
    OBVIOUS
  <2>2. e = [f \in {"on", "addr", "count"} |-> e[f]] /\ e.on = FALSE
    BY <1>1, <2>1 DEF MemoryShape
  <2>3. dma' = [dma EXCEPT ![c] = e]
    BY <1>1, <2>1 
  <2>4. dma'[c] = e /\ \A d \in DmaChannels : d # c => dma'[d] = dma[d]
    BY <1>1, <2>3 DEF MemoryShape
  <2>5. QED
    BY <2>2, <2>3, <2>4, ChannelSet
<1>2. CASE c \notin DmaChannels
  <2>1. dma' = dma
    BY <1>2 DEF MemoryShape
  <2>2. QED
    BY <1>2, <2>1, Zenon DEF MemoryShape
<1>3. QED
  BY <1>1, <1>2

\* What is written of the memory leaves its words the ones of the images.
LEMMA MemoryKeeps ==
  ASSUME MemoryShape, LoadNext
  PROVE  MemoryShape'
<1>. DEFINE Written == memory' = [a \in AllWords |-> memory'[a]]
<1>1. CASE BeginLoad
  <2>1. memory' = [a \in AllWords |-> 0] /\ dma' = dma
    BY <1>1 DEF BeginLoad
  <2>2. Written
    BY <2>1
  <2>3. QED
    BY <2>1, <2>2 DEF MemoryShape
<1>2. CASE RunStream \/ FinishSegment
  <2>1. dma' = dma /\ (memory' = memory \/ \E n : memory' = Single(n))
    BY <1>2 DEF RunStream, FinishSegment
  <2>2. Written
    BY <2>1 DEF Single, MemoryShape
  <2>3. QED
    BY <2>1, <2>2 DEF MemoryShape
<1>3. CASE \E c \in DmaChannels : DmaMoves(c)
  <2>1. PICK c \in DmaChannels : DmaMoves(c)
    BY <1>3
  <2>2. dma' = [dma EXCEPT ![c].on = FALSE]
    BY <2>1 DEF DmaMoves
  <2>3. Written
    BY <2>1 DEF DmaMoves
  <2>4. QED
    BY <2>2, <2>3, ChannelOff DEF MemoryShape
<1>4. CASE StopDma
  <2>1. memory' = memory /\ (dma' = dma \/ dma' = [dma EXCEPT ![load.chan].on = FALSE])
    BY <1>4 DEF StopDma
  <2>2. QED
    BY <2>1, ChannelOff DEF MemoryShape
<1>5. CASE StopResidue
  <2>1. memory' = memory /\ dma' = [dma EXCEPT ![0].on = FALSE]
    BY <1>5 DEF StopResidue
  <2>2. QED
    BY <2>1, ChannelOff DEF MemoryShape
<1>6. CASE StartDma \/ Announce
  <2>1. PICK e : e = [on |-> TRUE, addr |-> ChunkAt, count |-> Len(buffer)]
    OBVIOUS
  <2>2. memory' = memory /\ (dma' = dma \/ dma' = [dma EXCEPT ![load.chan] = e])
    BY <1>6, <2>1 DEF StartDma, Announce
  <2>3. e = [f \in {"on", "addr", "count"} |-> e[f]]
    BY <2>1
  <2>4. CASE dma' = dma
    BY <2>2, <2>4, MemoryStays
  <2>5. CASE dma' = [dma EXCEPT ![load.chan] = e]
    BY <2>2, <2>3, <2>5, ChannelSet DEF MemoryShape
  <2>6. QED
    BY <2>2, <2>4, <2>5
<1>7. CASE UNCHANGED <<dma, memory>>
  BY <1>7, MemoryStays
<1>8. QED
  <2>1. \/ BeginLoad \/ RunStream \/ FinishSegment \/ StopDma \/ StopResidue \/ StartDma \/ Announce
        \/ UNCHANGED <<dma, memory>> \/ \E c \in DmaChannels : DmaMoves(c)
    BY Zenon DEF LoadNext, ResetDsp, PrepareLoad, AllocChannel, AllocPorts, SetConverter,
       NoMoreSegments, BadSegment, WriteList, BeginSegment, FillBuffer, ChunkDone, ChunkTimesOut,
       FreePorts, ExitLoad, ReturnLoad, FreeActive, StreamReused
  <2>2. QED
    BY <2>1, <1>1, <1>2, <1>3, <1>4, <1>5, <1>6, <1>7

\* What a load has taken, with what its end says
HeldInv == LoadShape /\ Taken /\ SaysOk

\* A load that begins has taken nothing.
LEMMA BeginTakes ==
  ASSUME HeldInv, BeginLoad
  PROVE  HeldInv'
<1>1. PICK image \in Images, ovly \in BOOLEAN, announce \in BOOLEAN :
        load' = [NothingLoading EXCEPT !.pc = IF ovly THEN "format" ELSE "reset",
                                       !.image = image, !.rest = image,
                                       !.ovly = ovly, !.announce = announce,
                                       !.chan = IF ovly THEN NoChannel ELSE 0]
  BY DEF BeginLoad
<1>2. load' = [f \in LoadFields |-> load'[f]]
  BY <1>1 DEF NothingLoading, LoadFields
<1>3. /\ load'.pc = (IF ovly THEN "format" ELSE "reset") /\ load'.ovly = ovly
      /\ load'.chan = (IF ovly THEN NoChannel ELSE 0) /\ load'.mask = FALSE
  BY <1>1 DEF NothingLoading
<1>4. /\ load.pc = "idle" /\ loadStream' = loadStream /\ held' = held /\ leaks' = leaks
      /\ (ports' <=> ports)
  BY DEF BeginLoad, LoadAt
<1>5. LoadShape' /\ SaysOk'
  BY <1>2, <1>3 DEF LoadShape, SaysOk, LoadPlaces
<1>6. Taken'
  BY <1>3, <1>4 DEF HeldInv, Taken, WithPorts, InSegment, NoChannel
<1>7. QED
  BY <1>5, <1>6 DEF HeldInv

\* The stream is prepared.
LEMMA PrepareTakes ==
  ASSUME HeldInv, PrepareLoad
  PROVE  HeldInv'
<1>. USE DEF HeldInv, LoadShape, Taken, SaysOk, LoadGoTo, LoadFailTo, LoadAt, LoadFields,
     LoadPlaces, WithPorts, InSegment, NoChannel
<1>1. PICK p \in {"channel", "ports", "exit"} :
        /\ load' = [load EXCEPT !.pc = p] \/ load' = [load EXCEPT !.pc = p, !.failed = TRUE]
        /\ p # "exit" => p = (IF load.ovly THEN "channel" ELSE "ports")
  BY DEF PrepareLoad
<1>2. /\ load' = [f \in LoadFields |-> load'[f]] /\ load'.pc = p
      /\ load'.ovly = load.ovly /\ load'.chan = load.chan /\ load'.mask = load.mask
  BY <1>1
<1>3. /\ load.pc = "format" /\ held' = held /\ leaks' = leaks /\ (ports' <=> ports)
  BY DEF PrepareLoad
<1>4. LoadShape' /\ SaysOk'
  BY <1>2
<1>5. Taken'
  <2>1. p # "channel" \/ load.ovly
    BY <1>1, Zenon
  <2>2. load'.pc = "channel" => load'.ovly
    BY <1>2, <2>1
  <2>3. held' = {} \/ "channel" \in leaks'
    BY <1>3
  <2>4. load.ovly => load'.chan = NoChannel
    BY <1>2, <1>3
  <2>5. ~load.ovly => load'.chan \in DmaChannels
    BY <1>2, <1>3, DspLoadAssumption
  <2>6. "ports" \notin leaks' => ~ports'
    BY <1>3
  <2>7. QED
    BY <1>1, <1>2, <1>3, <2>2, <2>3, <2>4, <2>5, <2>6
<1>6. QED
  BY <1>4, <1>5

\* Within a download what is taken stays.
LEMMA StaysInPorts ==
  ASSUME HeldInv, load.pc \in WithPorts, load' = [f \in LoadFields |-> load'[f]],
         load'.pc \in WithPorts, load'.ovly = load.ovly, load'.chan = load.chan,
         load'.mask = load.mask, <<ports, held>>' = <<ports, held>>,
         leaks' \cup {"stream"} = leaks \cup {"stream"}
  PROVE  HeldInv'
<1>1. /\ ports' = ports /\ held' = held
      /\ "channel" \in leaks' <=> "channel" \in leaks
      /\ "ports" \in leaks' <=> "ports" \in leaks
  <2>1. \A x : x \in leaks' \cup {"stream"} <=> x \in leaks \cup {"stream"}
    OBVIOUS
  <2>2. "channel" # "stream" /\ "ports" # "stream"
    OBVIOUS
  <2> QED
    BY <2>1, <2>2
<1>2. /\ load'.pc \notin {"idle", "reset", "format", "channel", "ports", "return"}
      /\ load.pc \notin {"idle", "reset", "format", "channel", "ports", "return"}
  BY DEF WithPorts, InSegment
<1>3. LoadShape' /\ SaysOk'
  BY <1>2, Zenon DEF LoadShape, SaysOk, LoadPlaces
<1>4. "channel" \notin leaks' =>
         IF load'.pc \in WithPorts \cup {"ports", "exit"} /\ load'.ovly /\ load'.chan # NoChannel
         THEN held' = {load'.chan} ELSE held' = {}
  <2>1. load.pc \in WithPorts \cup {"ports", "exit"} /\ load'.pc \in WithPorts \cup {"ports", "exit"}
    BY <1>2
  <2>2. QED
    BY <1>1, <2>1, Zenon DEF HeldInv, Taken
<1>5. "ports" \notin leaks' => (ports' <=> (load'.pc \in WithPorts /\ load'.mask))
  BY <1>1, Zenon DEF HeldInv, Taken
<1>6. load'.chan \in DmaChannels
  BY <1>1 DEF HeldInv, Taken
<1>7. Taken'
  BY <1>2, <1>4, <1>5, <1>6 DEF Taken
<1>8. QED
  BY <1>3, <1>7 DEF HeldInv

\* The steps of a download
LEMMA SegmentTakes ==
  ASSUME HeldInv,
         \/ NoMoreSegments \/ WriteList \/ BeginSegment \/ FillBuffer \/ StopDma \/ StartDma
         \/ Announce \/ RunStream \/ ChunkDone \/ ChunkTimesOut \/ FinishSegment
  PROVE  HeldInv'
<1>. USE DEF LoadGoTo, LoadFailTo, LoadAt
<1>1. load.pc \in WithPorts
  BY DEF NoMoreSegments, WriteList, BeginSegment, FillBuffer, StopDma, StartDma, Announce, RunStream,
    ChunkDone, ChunkTimesOut, FinishSegment, WithPorts, InSegment
<1>2. <<ports, held>>' = <<ports, held>> /\ leaks' \cup {"stream"} = leaks \cup {"stream"}
  BY DEF NoMoreSegments, WriteList, BeginSegment, FillBuffer, StopDma, StartDma, Announce, RunStream,
    ChunkDone, ChunkTimesOut, FinishSegment
<1>3. /\ load' = [f \in LoadFields |-> load'[f]]
      /\ load'.pc \in WithPorts /\ load'.ovly = load.ovly /\ load'.chan = load.chan
      /\ load'.mask = load.mask
  <2>. USE DEF HeldInv, LoadShape, LoadFields, WithPorts, InSegment
  <2>1. CASE NoMoreSegments
    BY <2>1 DEF NoMoreSegments
  <2>2. CASE WriteList
    BY <2>2 DEF WriteList
  <2>3. CASE BeginSegment
    BY <2>3 DEF BeginSegment
  <2>4. CASE FillBuffer
    BY <2>4 DEF FillBuffer
  <2>5. CASE StopDma
    BY <2>5 DEF StopDma
  <2>6. CASE StartDma
    BY <2>6 DEF StartDma
  <2>7. CASE Announce
    BY <2>7 DEF Announce
  <2>8. CASE RunStream
    BY <2>8 DEF RunStream
  <2>9. CASE ChunkDone
    BY <2>9 DEF ChunkDone
  <2>10. CASE ChunkTimesOut
    BY <2>10 DEF ChunkTimesOut
  <2>11. CASE FinishSegment
    BY <2>11 DEF FinishSegment
  <2>12. QED
    BY <2>1, <2>2, <2>3, <2>4, <2>5, <2>6, <2>7, <2>8, <2>9, <2>10, <2>11
<1>4. QED
  BY <1>1, <1>2, <1>3, StaysInPorts

\* A channel of the DSP is taken, or the load ends without.
LEMMA ChannelTakes ==
  ASSUME HeldInv, AllocChannel
  PROVE  HeldInv'
<1>. USE DEF LoadGoTo, LoadFailTo, LoadAt
<1>1. load.pc = "channel" /\ ports' = ports /\ loadStream' = loadStream
  BY DEF AllocChannel
<1>2. load.ovly /\ ~load.mask
  BY <1>1, Zenon DEF HeldInv, Taken
<1>3. load.chan = NoChannel
  BY <1>1, <1>2 DEF HeldInv, Taken
<1>4. CASE \E c \in DmaChannels \ held :
             /\ load' = [load EXCEPT !.pc = "ports", !.chan = c]
             /\ held' = held \cup {c} /\ leaks' = leaks
  <2>1. PICK c \in DmaChannels \ held :
          /\ load' = [load EXCEPT !.pc = "ports", !.chan = c]
          /\ held' = held \cup {c} /\ leaks' = leaks
    BY <1>4
  <2>2. /\ load' = [f \in LoadFields |-> load'[f]] /\ load'.pc = "ports" /\ load'.chan = c
        /\ load'.ovly = load.ovly /\ load'.mask = load.mask
    BY <1>1, <2>1 DEF HeldInv, LoadShape, LoadFields
  <2>3. "channel" \notin leaks' => held' = {c}
    BY <1>1, <1>3, <2>1 DEF HeldInv, Taken, WithPorts, InSegment
  <2>4. c # NoChannel
    BY DspLoadAssumption DEF NoChannel
  <2>5. "ports" \notin leaks' => ~ports'
    BY <1>1, <1>3, <2>1 DEF HeldInv, Taken, WithPorts, InSegment
  <2>6. QED
    BY <1>2, <2>2, <2>3, <2>4, <2>5 DEF HeldInv, Taken, LoadShape, SaysOk, LoadPlaces, WithPorts, InSegment
<1>5. CASE /\ load' = [load EXCEPT !.pc = "exit", !.failed = TRUE]
           /\ (held' = held /\ leaks' = leaks) \/ leaks' = leaks \cup {"channel"}
  <2>1. /\ load' = [f \in LoadFields |-> load'[f]] /\ load'.pc = "exit" /\ load'.chan = NoChannel
    BY <1>3, <1>5 DEF HeldInv, LoadShape, LoadFields
  <2>2. "channel" \notin leaks' => held' = {}
    BY <1>1, <1>3, <1>5 DEF HeldInv, Taken, WithPorts, InSegment
  <2>3. "ports" \notin leaks' => ~ports'
    BY <1>1, <1>3, <1>5 DEF HeldInv, Taken, WithPorts, InSegment
  <2>4. QED
    BY <2>1, <2>2, <2>3 DEF HeldInv, Taken, LoadShape, SaysOk, LoadPlaces, WithPorts, InSegment
<1>6. QED
  BY <1>4, <1>5 DEF AllocChannel

\* The load leaves with its channel; the ports are free, or are noted as kept.
LEMMA LeavesPorts ==
  ASSUME HeldInv, load.pc \in WithPorts \cup {"ports"},
         load' = [f \in LoadFields |-> load'[f]], load'.pc = "exit",
         load'.ovly = load.ovly, load'.chan = load.chan, held' = held,
         "channel" \in leaks => "channel" \in leaks',
         "ports" \notin leaks' => ~ports'
  PROVE  HeldInv'
<1>1. load.pc # "exit" /\ "exit" \notin WithPorts
  BY DEF WithPorts, InSegment
<1>2. LoadShape' /\ SaysOk'
  BY DEF LoadShape, SaysOk, LoadPlaces
<1>3. load.chan \in DmaChannels
  BY DEF HeldInv, Taken
<1>4. "channel" \notin leaks' => IF load'.ovly /\ load'.chan # NoChannel THEN held' = {load'.chan} ELSE held' = {}
  <2>1. load.pc \in WithPorts \cup {"ports", "exit"}
    OBVIOUS
  <2>2. QED
    BY <2>1, Zenon DEF HeldInv, Taken
<1>5. Taken'
  BY <1>1, <1>4 DEF Taken
<1>6. QED
  BY <1>2, <1>5 DEF HeldInv

\* The steps that take the ports, give them back or leave with them
LEMMA PortsTake ==
  ASSUME HeldInv, AllocPorts \/ SetConverter \/ BadSegment \/ FreePorts
  PROVE  HeldInv'
<1>. USE DEF LoadGoTo, LoadFailTo, LoadAt
<1>1. load.pc \in WithPorts \cup {"ports"} /\ held' = held
  BY DEF AllocPorts, SetConverter, BadSegment, FreePorts, WithPorts, InSegment
<1>2. "channel" \in leaks <=> "channel" \in leaks'
  BY DEF AllocPorts, SetConverter, BadSegment, FreePorts
<1>3. CASE load'.pc = "exit"
  <2>1. load' = [f \in LoadFields |-> load'[f]] /\ load'.ovly = load.ovly /\ load'.chan = load.chan
    BY DEF AllocPorts, SetConverter, BadSegment, FreePorts, HeldInv, LoadShape, LoadFields
  <2>2. "ports" \notin leaks' => ~ports'
    <3>1. CASE AllocPorts \/ SetConverter \/ BadSegment
      <4>. USE <1>3, <3>1 DEF HeldInv, LoadShape, Taken, WithPorts, InSegment
      <4>1. CASE AllocPorts
        <5>1. load'.pc = "converter" \/ (leaks' = leaks /\ ports' = ports) \/ "ports" \in leaks'
          BY <4>1 DEF AllocPorts, LoadFields
        <5>2. load.pc = "ports"
          BY <4>1 DEF AllocPorts
        <5>3. QED
          BY <5>1, <5>2
      <4>2. CASE SetConverter BY <4>2 DEF SetConverter
      <4>3. CASE BadSegment BY <4>3 DEF BadSegment
      <4>4. QED BY <4>1, <4>2, <4>3
    <3>2. CASE FreePorts
      <4>1. load.pc = "free"
        BY <3>2 DEF FreePorts
      <4>2. "ports" \notin leaks => (ports <=> load.mask)
        BY <4>1 DEF HeldInv, Taken, WithPorts
      <4>3. "ports" \in leaks => "ports" \in leaks'
        BY <3>2 DEF FreePorts
      <4>4. ports' => "ports" \in leaks'
        BY <3>2, <4>2, <4>3 DEF FreePorts
      <4>5. QED BY <4>4
    <3>3. QED BY <3>1, <3>2
  <2>3. QED
    BY <1>1, <1>2, <1>3, <2>1, <2>2, LeavesPorts
<1>4. CASE load'.pc # "exit"
  <2>1. AllocPorts \/ SetConverter
    BY <1>4 DEF BadSegment, FreePorts, HeldInv, LoadShape, LoadFields
  <2>2. CASE SetConverter
    <3>1. load.pc = "converter" /\ load' = [load EXCEPT !.pc = "next"] /\ <<ports, held>>' = <<ports, held>> /\ leaks' = leaks
      BY <1>4, <2>2 DEF SetConverter, HeldInv, LoadShape, LoadFields
    <3>2. /\ load' = [f \in LoadFields |-> load'[f]] /\ load'.pc = "next"
          /\ load'.ovly = load.ovly /\ load'.chan = load.chan /\ load'.mask = load.mask
      BY <3>1 DEF HeldInv, LoadShape, LoadFields
    <3>3. QED
      BY <3>1, <3>2, StaysInPorts DEF WithPorts
  <2>3. CASE AllocPorts
    <3>1. /\ load.pc = "ports" /\ leaks' = leaks
          /\ \/ load' = [load EXCEPT !.pc = "converter", !.mask = TRUE] /\ ports'
             \/ load' = [load EXCEPT !.pc = "converter"] /\ ports' = ports
      BY <1>4, <2>3 DEF AllocPorts, HeldInv, LoadShape, LoadFields
    <3>2. /\ load' = [f \in LoadFields |-> load'[f]] /\ load'.pc = "converter"
          /\ load'.ovly = load.ovly /\ load'.chan = load.chan 
      BY <3>1 DEF HeldInv, LoadShape, LoadFields
    <3>3. load.mask = FALSE /\ load.chan \in DmaChannels /\ ("ports" \notin leaks => ~ports)
      BY <3>1 DEF HeldInv, Taken, WithPorts, InSegment
    <3>4. "ports" \notin leaks' => (ports' <=> load'.mask)
      <4>1. CASE load' = [load EXCEPT !.pc = "converter", !.mask = TRUE] /\ ports'
        <5>1. load'.mask = TRUE
          BY <4>1 DEF HeldInv, LoadShape, LoadFields
        <5>2. QED BY <4>1, <5>1
      <4>2. CASE load' = [load EXCEPT !.pc = "converter"] /\ ports' = ports
        <5>1. load'.mask = FALSE
          BY <4>2, <3>3 DEF HeldInv, LoadShape, LoadFields
        <5>2. QED BY <3>1, <3>3, <4>2, <5>1
      <4>3. QED BY <3>1, <4>1, <4>2
    <3>5. "channel" \notin leaks' => IF load'.ovly /\ load'.chan # NoChannel THEN held' = {load'.chan} ELSE held' = {}
      <4>1. load.pc \in WithPorts \cup {"ports", "exit"}
        BY <3>1
      <4>2. QED
        BY <1>1, <3>1, <3>2, <4>1, Zenon DEF HeldInv, Taken
    <3>6. Taken'
      BY <3>2, <3>3, <3>4, <3>5 DEF Taken, WithPorts, InSegment
    <3>7. LoadShape' /\ SaysOk'
      BY <3>2 DEF LoadShape, SaysOk, LoadPlaces, WithPorts
    <3>8. QED
      BY <3>6, <3>7 DEF HeldInv
  <2>4. QED
    BY <2>1, <2>2, <2>3
<1>5. QED
  BY <1>3, <1>4
\* The first and the last steps, and what goes on beside a load
LEMMA EndsTake ==
  ASSUME HeldInv,
         \/ ResetDsp \/ ExitLoad \/ ReturnLoad \/ FreeActive \/ StopResidue \/ StreamReused
         \/ \E c \in DmaChannels : DmaMoves(c)
  PROVE  HeldInv'
<1>. USE DEF HeldInv, LoadShape, Taken, SaysOk, LoadGoTo, LoadFailTo, LoadAt, LoadFields,
     LoadPlaces, WithPorts, InSegment, NoChannel
<1>1. CASE ResetDsp BY <1>1 DEF ResetDsp
<1>2. CASE ExitLoad BY <1>2 DEF ExitLoad, GivenBack
<1>3. CASE ReturnLoad BY <1>3 DEF ReturnLoad
<1>4. CASE FreeActive BY <1>4 DEF FreeActive
<1>5. CASE StopResidue BY <1>5 DEF StopResidue
<1>6. CASE \E c \in DmaChannels : DmaMoves(c) BY <1>6 DEF DmaMoves
<1>7. CASE StreamReused BY <1>7 DEF StreamReused
<1>8. QED BY <1>1, <1>2, <1>3, <1>4, <1>5, <1>6, <1>7

\* The stream is given back, or is marked running where a step left it so.
LEMMA StreamStaysTaken ==
  ASSUME LoadShape, StreamTaken, LoadNext
  PROVE  StreamTaken'
<1>. USE DEF LoadShape, StreamTaken, LoadGoTo, LoadFailTo, LoadAt, LoadFields
<1>1. CASE BeginLoad BY <1>1 DEF BeginLoad, NothingLoading
<1>2. CASE PrepareLoad BY <1>2 DEF PrepareLoad
<1>3. CASE AllocChannel BY <1>3 DEF AllocChannel
<1>4. CASE AllocPorts BY <1>4 DEF AllocPorts
<1>5. CASE SetConverter \/ BadSegment BY <1>5 DEF SetConverter, BadSegment
<1>6. CASE NoMoreSegments \/ WriteList \/ BeginSegment \/ FillBuffer \/ FinishSegment
  BY <1>6 DEF NoMoreSegments, WriteList, BeginSegment, FillBuffer, FinishSegment
<1>7. CASE StopDma \/ StartDma \/ Announce BY <1>7 DEF StopDma, StartDma, Announce
<1>8. CASE RunStream BY <1>8 DEF RunStream
<1>9. CASE ChunkDone BY <1>9 DEF ChunkDone
<1>10. CASE ChunkTimesOut BY <1>10 DEF ChunkTimesOut
<1>11. CASE FreePorts BY <1>11 DEF FreePorts
<1>12. CASE ExitLoad BY <1>12 DEF ExitLoad, StreamAfter
<1>13. CASE ResetDsp \/ ReturnLoad BY <1>13 DEF ResetDsp, ReturnLoad
<1>14. CASE FreeActive \/ StopResidue \/ \E c \in DmaChannels : DmaMoves(c)
  BY <1>14 DEF FreeActive, StopResidue, DmaMoves
<1>15. CASE StreamReused BY <1>15 DEF StreamReused
<1>16. QED
  BY <1>1, <1>2, <1>3, <1>4, <1>5, <1>6, <1>7, <1>8, <1>9, <1>10, <1>11, <1>12, <1>13, <1>14,
     <1>15, Zenon DEF LoadNext

\* Addresses count words.
LEMMA WordsAreNumbers == AllWords \subseteq Nat
<1>1. ASSUME NEW image \in Images, NEW i \in DOMAIN image PROVE SegmentWords(image[i]) \subseteq Nat
  <2>1. image[i] \in SegmentType
    BY DspLoadAssumption
  <2>2. image[i].addr \in Nat /\ image[i].count \in Nat
    BY <2>1 DEF SegmentType
  <2>3. QED
    BY <2>2 DEF SegmentWords
<1>2. \A image \in Images : ImageWords(image) \subseteq Nat
  BY <1>1, Zenon DEF ImageWords
<1>3. QED
  BY <1>2, Zenon DEF AllWords

\* Words of an image are words of the memory.
LEMMA ImagesHaveWords ==
  ASSUME RestOK, NEW i \in 1..Len(load.image)
  PROVE  /\ SegmentWords(load.image[i]) \subseteq AllWords
         /\ load.image \in Seq(SegmentType) /\ load.image[i] \in SegmentType
<1>1. load.image \in Images
  <2>1. load.image # <<>>
    OBVIOUS
  <2>2. QED
    BY <2>1 DEF RestOK
<1>2. load.image \in Seq(SegmentType)
  BY <1>1, DspLoadAssumption
<1>3. i \in DOMAIN load.image
  BY <1>2
<1>4. SegmentWords(load.image[i]) \subseteq ImageWords(load.image)
  BY <1>3, Zenon DEF ImageWords
<1>5. QED
  BY <1>1, <1>2, <1>3, <1>4 DEF AllWords

\* The current segment is the next of the image.
LEMMA CurrentIsNext ==
  ASSUME RestOK, load.rest # <<>>
  PROVE  /\ Behind \in Nat /\ Behind + 1 \in 1..Len(load.image) /\ Current = load.image[Behind + 1]
         /\ Current \in SegmentType /\ SegmentWords(Current) \subseteq AllWords
         /\ Current.addr \in Nat /\ Current.count \in Nat
<1>1. load.image \in Seq(SegmentType)
  BY DspLoadAssumption DEF RestOK
<1>2. Behind \in Nat /\ Behind + 1 \in 1..Len(load.image)
  <2>1. Len(load.image) \in Nat /\ Len(load.rest) \in Nat
    BY <1>1, LenProperties DEF RestOK
  <2>2. Len(load.rest) # 0 /\ Len(load.rest) <= Len(load.image)
    BY EmptySeq DEF RestOK
  <2>3. PICK l \in Nat, r \in Nat : l = Len(load.image) /\ r = Len(load.rest)
    BY <2>1
  <2>4. r >= 1 /\ r <= l
    BY <2>2, <2>3
  <2>5. Behind = l - r
    BY <2>3, Zenon DEF Behind
  <2>6. l - r \in Nat /\ (l - r) + 1 \in 1..l
    BY <2>4
  <2>7. QED
    BY <2>3, <2>5, <2>6, Zenon
<1>3. Current = load.image[Behind + 1]
  BY DEF RestOK, Current
<1>4. Current \in SegmentType /\ SegmentWords(Current) \subseteq AllWords
  BY <1>2, <1>3, ImagesHaveWords
<1>5. QED
  BY <1>2, <1>3, <1>4 DEF SegmentType

\* Words of the memory are only put where they belong.
Improves == \A a \in AllWords : memory'[a] = memory[a] \/ memory'[a] = a

\* What is stored stays stored.
LEMMA StoredStays ==
  ASSUME Improves, NEW x, NEW y, Stored(x, y)
  PROVE  \A a \in AllWords : a >= x /\ a <= y => memory'[a] = a
  BY DEF Improves, Stored

\* A step that goes on with the same segment leaves what is behind.
LEMMA DoneStays ==
  ASSUME RestOK, DoneOK, Improves, load'.image = load.image, load'.rest = load.rest
  PROVE  RestOK' /\ DoneOK' /\ ListsBehind' = ListsBehind /\ Current' = Current
<1>1. Behind' = Behind
  BY DEF Behind
<1>2. RestOK' /\ ListsBehind' = ListsBehind /\ Current' = Current
  BY <1>1 DEF RestOK, ListsBehind, Current
<1>3. ASSUME NEW i \in 1..Behind, NEW a \in SegmentWords(load.image[i]) PROVE memory'[a] = a
  <2>1. load.image \in Seq(SegmentType)
    BY DspLoadAssumption DEF RestOK
  <2>2. i \in 1..Len(load.image)
    BY <2>1 DEF RestOK, Behind
  <2>3. a \in AllWords
    BY <2>2, ImagesHaveWords
  <2>4. memory[a] = a
    BY DEF DoneOK
  <2>5. QED
    BY <2>3, <2>4 DEF Improves
<1>4. DoneOK'
  BY <1>1, <1>3 DEF DoneOK
<1>5. QED
  BY <1>2, <1>4

\* A step within a segment that does not touch the count of its words
LEMMA SegmentStays ==
  ASSUME RestOK, DoneOK, ListsOK, SegmentOK, Improves, load.pc \in InSegment, load'.pc \in InSegment \ {"wait"},
         load'.image = load.image, load'.rest = load.rest, load'.sent = load.sent,
         load'.remainder = load.remainder, load'.list = load.list, lists' = lists
  PROVE  PlaceOK' /\ SegmentOK'
<1>1. RestOK' /\ DoneOK' /\ ListsBehind' = ListsBehind /\ Current' = Current
  BY DoneStays
<1>2. ListsOK'
  BY <1>1 DEF ListsOK
<1>3. EndOK'
  BY DEF EndOK, InSegment
<1>4. Stored(Current.addr + load.remainder, Current.addr + load.sent - 1)'
  BY <1>1, StoredStays DEF SegmentOK, Stored
<1>5. SegmentOK'
  BY <1>1, <1>4 DEF SegmentOK
<1>6. QED
  BY <1>1, <1>2, <1>3, <1>5 DEF PlaceOK

\* The lists behind are finitely many.
LEMMA ListsCounted ==
  ASSUME RestOK
  PROVE  ListsBehind \in Nat
<1>1. PICK l \in Nat, r \in Nat : l = Len(load.image) /\ r = Len(load.rest)
  BY DspLoadAssumption DEF RestOK
<1>2. Behind \in Int
  BY <1>1 DEF Behind
<1>3. IsFiniteSet(1..Behind)
  BY <1>2, FS_Interval
<1>4. IsFiniteSet({i \in 1..Behind : IsList(load.image[i])})
  BY <1>3, FS_Subset
<1>5. QED
  BY <1>4, FS_CardinalityType DEF ListsBehind

\* The segment that ends is added to what is behind.
LEMMA Advances ==
  ASSUME RestOK, DoneOK, Improves, load.rest # <<>>, load'.image = load.image, load'.rest = Tail(load.rest),
         \A a \in SegmentWords(Current) : memory'[a] = a
  PROVE  /\ RestOK' /\ DoneOK'
         /\ ListsBehind \in Nat
         /\ ListsBehind' = ListsBehind + (IF IsList(Current) THEN 1 ELSE 0)
<1>1. /\ Behind \in Nat /\ Behind + 1 \in 1..Len(load.image) /\ Current = load.image[Behind + 1]
  BY CurrentIsNext
<1>2. load.image \in Seq(SegmentType) /\ load.rest \in Seq(SegmentType)
  BY DspLoadAssumption DEF RestOK
<1>3. /\ Tail(load.rest) \in Seq(SegmentType) /\ Len(Tail(load.rest)) = Len(load.rest) - 1
      /\ \A i \in 1..Len(Tail(load.rest)) : Tail(load.rest)[i] = load.rest[i + 1]
  BY <1>2
<1>4. Behind' = Behind + 1
  <2>1. Len(load.image) \in Nat /\ Len(load.rest) \in Nat
    BY <1>2, LenProperties
  <2>2. PICK l \in Nat, r \in Nat : l = Len(load.image) /\ r = Len(load.rest)
    BY <2>1
  <2>3. Behind = l - r /\ Behind' = l - (r - 1)
    BY <1>3, <2>2 DEF Behind
  <2>4. QED
    BY <2>3
<1>5. RestOK'
  <2>1. ASSUME NEW i \in 1..Len(load'.rest) PROVE load'.rest[i] = load'.image[Behind' + i]
    <3>1. i + 1 \in 1..Len(load.rest) /\ load'.rest[i] = load.rest[i + 1]
      BY <1>2, <1>3
    <3>2. load.rest[i + 1] = load.image[Behind + (i + 1)]
      BY <3>1 DEF RestOK
    <3>3. Behind + (i + 1) = Behind' + i
      BY <1>1, <1>4
    <3>4. QED
      BY <3>1, <3>2, <3>3
  <2>2. Len(load'.rest) <= Len(load'.image)
    BY <1>2, <1>3 DEF RestOK
  <2>3. QED
    BY <1>3, <2>1, <2>2 DEF RestOK
<1>6. DoneOK'
  <2>1. ASSUME NEW i \in 1..(Behind + 1), NEW a \in SegmentWords(load.image[i]) PROVE memory'[a] = a
    <3>1. CASE i = Behind + 1
      BY <1>1, <3>1
    <3>2. CASE i # Behind + 1
      <4>1. i \in 1..Behind /\ i \in 1..Len(load.image)
        BY <1>1, <1>2, <3>2
      <4>2. a \in AllWords
        BY <4>1, ImagesHaveWords
      <4>3. memory[a] = a
        BY <4>1 DEF DoneOK
      <4>4. QED
        BY <4>2, <4>3 DEF Improves
    <3>3. QED
      BY <3>1, <3>2
  <2>2. QED
    BY <1>4, <2>1 DEF DoneOK
<1>7. /\ ListsBehind \in Nat
      /\ ListsBehind' = ListsBehind + (IF IsList(Current) THEN 1 ELSE 0)
  <2>. DEFINE S == {i \in 1..Behind : IsList(load.image[i])}
              T == {i \in 1..(Behind + 1) : IsList(load.image[i])}
  <2>1. ListsBehind = Cardinality(S) /\ ListsBehind' = Cardinality(T)
    BY <1>4 DEF ListsBehind
  <2>2. IsFiniteSet(1..Behind)
    BY <1>1, FS_Interval
  <2>3. IsFiniteSet(S)
    BY <2>2, FS_Subset
  <2>4. Cardinality(S) \in Nat
    BY <2>3, FS_CardinalityType
  <2>5. Behind + 1 \notin S
    BY <1>1
  <2>6. T = IF IsList(Current) THEN S \cup {Behind + 1} ELSE S
    BY <1>1
  <2>7. Cardinality(S \cup {Behind + 1}) = Cardinality(S) + 1
    BY <2>3, <2>5, FS_AddElement
  <2>8. CASE IsList(Current)
    BY <2>1, <2>4, <2>6, <2>7, <2>8
  <2>9. CASE ~IsList(Current)
    <3>1. T = S
      BY <2>6, <2>9, Zenon
    <3>2. ListsBehind' = ListsBehind /\ ListsBehind \in Nat
      BY <2>1, <2>4, <3>1, Zenon
    <3>3. QED
      BY <2>9, <3>2
  <2>10. QED
    BY <2>8, <2>9
<1>8. QED
  BY <1>5, <1>6, <1>7

\* The fields a step of the load leaves as they were
Kept(fs) == \A f \in fs : load'[f] = load[f]
PlaceFields == {"image", "rest", "sent", "remainder", "list"}

\* What Kept says of the place in the image
LEMMA KeptFields ==
  ASSUME Kept(PlaceFields)
  PROVE  /\ load'.image = load.image /\ load'.rest = load.rest /\ load'.sent = load.sent
         /\ load'.remainder = load.remainder /\ load'.list = load.list
  BY DEF Kept, PlaceFields

\* No channel is on between two segments.
LEMMA AllOff ==
  ASSUME ChunkOK, load.pc \notin {"run", "wait"}, NEW c \in DmaChannels
  PROVE  ~dma[c].on
  BY Zenon DEF ChunkOK

\* Where there is no chunk under way, all channels off is all that is asked.
LEMMA OffIsFine ==
  ASSUME load'.pc \notin InSegment \ {"chunk"}, \A c \in DmaChannels : ~dma'[c].on
  PROVE  ChunkOK'
<1>1. load'.pc \notin {"run", "wait"}
  BY DEF InSegment
<1>2. QED
  BY <1>1, Zenon DEF ChunkOK

\* Outside of a segment, where only the place and what is taken change
LEMMA OutsideMoves ==
  ASSUME Sound, load.pc \notin InSegment, load'.pc \notin InSegment, Kept(PlaceFields),
         Fine' => Fine,
         Fine' /\ load'.pc \in {"free", "exit", "return", "idle"} =>
           load.pc \in {"free", "exit", "return"} \/ load.rest = <<>> \/ load'.pc = load.pc,
         memory' = memory, lists' = lists, loads' = loads, dma' = dma
  PROVE  Sound'
<1>1. SUFFICES ASSUME Fine' PROVE PlaceOK' /\ SegmentOK' /\ ChunkOK'
  BY DEF Sound
<1>2. PlaceOK /\ SegmentOK /\ ChunkOK
  BY <1>1 DEF Sound
<1>3. /\ load'.image = load.image /\ load'.rest = load.rest
      /\ RestOK /\ DoneOK /\ Improves
  BY <1>2, KeptFields DEF PlaceOK, Improves
<1>4. RestOK' /\ DoneOK' /\ ListsBehind' = ListsBehind
  BY <1>3, DoneStays
<1>5. ListsOK'
  BY <1>2, <1>4 DEF PlaceOK, ListsOK
<1>6. EndOK'
  BY <1>1, <1>2, <1>3 DEF PlaceOK, EndOK
<1>7. SegmentOK'
  BY DEF SegmentOK
<1>8. ChunkOK'
  <2>1. load.pc \notin {"run", "wait"}
    BY DEF InSegment
  <2>2. \A c \in DmaChannels : ~dma'[c].on
    BY <1>2, <2>1, AllOff, Zenon
  <2>3. load'.pc \notin InSegment \ {"chunk"}
    OBVIOUS
  <2>4. QED
    BY <2>2, <2>3, OffIsFine
<1>9. QED
  BY <1>4, <1>5, <1>6, <1>7, <1>8 DEF PlaceOK

\* The steps outside of a segment
LEMMA OutsideKeeps ==
  ASSUME LoadShape, Sound,
         \/ ResetDsp \/ PrepareLoad \/ AllocChannel \/ AllocPorts \/ SetConverter
         \/ NoMoreSegments \/ BadSegment \/ FreePorts \/ ExitLoad \/ ReturnLoad
  PROVE  Sound'
<1>. USE DEF LoadGoTo, LoadFailTo, LoadAt
<1>1. memory' = memory /\ lists' = lists /\ dma' = dma /\ loads' = loads
  BY DEF ResetDsp, PrepareLoad, AllocChannel, AllocPorts, SetConverter,
     NoMoreSegments, BadSegment, FreePorts, ExitLoad, ReturnLoad
<1>2. load.pc \notin InSegment
  BY DEF ResetDsp, PrepareLoad, AllocChannel, AllocPorts, SetConverter,
     NoMoreSegments, BadSegment, FreePorts, ExitLoad, ReturnLoad, InSegment
<1>3. load'.pc \notin InSegment /\ Kept(PlaceFields)
  <2>. USE DEF LoadShape, LoadFields, InSegment, Kept, PlaceFields
  <2>1. CASE ResetDsp BY <2>1 DEF ResetDsp
  <2>2. CASE PrepareLoad BY <2>2 DEF PrepareLoad
  <2>3. CASE AllocChannel BY <2>3 DEF AllocChannel
  <2>4. CASE AllocPorts BY <2>4 DEF AllocPorts
  <2>5. CASE SetConverter BY <2>5 DEF SetConverter
  <2>6. CASE NoMoreSegments BY <2>6 DEF NoMoreSegments
  <2>7. CASE BadSegment BY <2>7 DEF BadSegment
  <2>8. CASE FreePorts BY <2>8 DEF FreePorts
  <2>9. CASE ExitLoad BY <2>9 DEF ExitLoad
  <2>10. CASE ReturnLoad BY <2>10 DEF ReturnLoad
  <2>11. QED
    BY <2>1, <2>2, <2>3, <2>4, <2>5, <2>6, <2>7, <2>8, <2>9, <2>10
<1>4. /\ Fine' => Fine
      /\ Fine' /\ load'.pc \in {"free", "exit", "return", "idle"} =>
           load.pc \in {"free", "exit", "return"} \/ load.rest = <<>>
  <2>. USE DEF LoadShape, LoadFields, Fine
  <2>1. CASE ResetDsp BY <2>1 DEF ResetDsp
  <2>2. CASE PrepareLoad BY <2>2 DEF PrepareLoad
  <2>3. CASE AllocChannel BY <2>3 DEF AllocChannel
  <2>4. CASE AllocPorts BY <2>4 DEF AllocPorts
  <2>5. CASE SetConverter BY <2>5 DEF SetConverter
  <2>6. CASE NoMoreSegments BY <2>6 DEF NoMoreSegments
  <2>7. CASE BadSegment BY <2>7 DEF BadSegment
  <2>8. CASE FreePorts BY <2>8 DEF FreePorts
  <2>9. CASE ExitLoad BY <2>9 DEF ExitLoad
  <2>10. CASE ReturnLoad BY <2>10 DEF ReturnLoad
  <2>11. QED
    BY <2>1, <2>2, <2>3, <2>4, <2>5, <2>6, <2>7, <2>8, <2>9, <2>10
<1>5. QED
  BY <1>1, <1>2, <1>3, <1>4, OutsideMoves

\* What is said of a load speaks of these variables only.
LEMMA SoundStays ==
  ASSUME Sound,
         /\ load' = load /\ buffer' = buffer /\ dma' = dma /\ memory' = memory /\ lists' = lists
         /\ returned' = returned /\ excuses' = excuses /\ loads' = loads
  PROVE  Sound'
  BY Zenon DEF Sound, Fine, PlaceOK, RestOK, DoneOK, ListsOK, EndOK, SegmentOK,
         ChunkOK, Behind, ListsBehind, Current, Stored

\* The stream goes to somebody else.
LEMMA ReusedKeeps ==
  ASSUME Sound, StreamReused
  PROVE  Sound'
<1>1. /\ load' = load /\ buffer' = buffer /\ dma' = dma /\ memory' = memory /\ lists' = lists
      /\ returned' = returned /\ excuses' = excuses /\ loads' = loads
  BY DEF StreamReused
<1>2. QED
  BY <1>1, SoundStays

\* Between two loads the channels found on are given back or switched off.
LEMMA BetweenKeeps ==
  ASSUME LoadShape, MemoryShape, Sound, FreeActive \/ StopResidue
  PROVE  Sound'
<1>1. /\ load' = load /\ memory' = memory /\ lists' = lists /\ loads' = loads
      /\ excuses' = excuses /\ load.pc = "idle"
  BY DEF FreeActive, StopResidue, LoadAt
<1>2. CASE dma' = dma
  <2>1. Kept(PlaceFields) /\ (Fine' => Fine) /\ load.pc \notin InSegment
    BY <1>1 DEF Kept, Fine, InSegment
  <2>2. QED
    BY <1>1, <1>2, <2>1, OutsideMoves
<1>3. CASE StopResidue
  <2>1. SUFFICES ASSUME Fine' PROVE PlaceOK' /\ SegmentOK' /\ ChunkOK'
    BY DEF Sound
  <2>2. PlaceOK /\ SegmentOK /\ ChunkOK
    BY <1>1, <2>1 DEF Sound, Fine
  <2>3. ASSUME NEW c \in DmaChannels PROVE ~dma'[c].on
    <3>1. ~dma[c].on
      BY <1>1, <2>2, AllOff
    <3>2. dma' = [dma EXCEPT ![0].on = FALSE]
      BY <1>3 DEF StopResidue
    <3>3. QED
      BY <3>1, <3>2, ChannelOff, Zenon
  <2>4. ChunkOK'
    BY <1>1, <2>3, OffIsFine DEF InSegment
  <2>5. PlaceOK' /\ SegmentOK'
    BY <1>1, <2>2 DEF PlaceOK, RestOK, DoneOK, ListsOK, EndOK, SegmentOK, Behind, ListsBehind,
       Current, Stored
  <2>6. QED
    BY <2>4, <2>5
<1>4. QED
  BY <1>2, <1>3 DEF FreeActive

\* Nothing of the image is behind at first, and no channel is on unless it is noted.
LEMMA BeginKeeps ==
  ASSUME LoadShape, Sound, BeginLoad
  PROVE  Sound'
<1>1. PICK image \in Images, ovly \in BOOLEAN, announce \in BOOLEAN :
        load' = [NothingLoading EXCEPT !.pc = IF ovly THEN "format" ELSE "reset",
                                       !.image = image, !.rest = image,
                                       !.ovly = ovly, !.announce = announce,
                                       !.chan = IF ovly THEN NoChannel ELSE 0]
  BY DEF BeginLoad
<1>2. /\ load'.pc = (IF ovly THEN "format" ELSE "reset") /\ load'.image = image
      /\ load'.rest = image
  BY <1>1 DEF NothingLoading
<1>3. load'.pc \in {"format", "reset"} /\ load'.pc \notin InSegment
  BY <1>2 DEF InSegment
<1>4. image \in Seq(SegmentType)
  BY DspLoadAssumption
<1>5. Behind' = 0
  <2>1. PICK l \in Nat : l = Len(image)
    BY <1>4
  <2>2. QED
    BY <1>2, <2>1 DEF Behind
<1>6. RestOK'
  BY <1>2, <1>4, <1>5 DEF RestOK
<1>7. DoneOK'
  BY <1>5 DEF DoneOK
<1>8. ListsOK'
  <2>1. {i \in 1..0 : IsList(load'.image[i])} = {}
    OBVIOUS
  <2>2. ListsBehind' = 0
    BY <1>5, <2>1, FS_EmptySet DEF ListsBehind
  <2>3. lists' = 0
    BY DEF BeginLoad
  <2>4. QED
    BY <1>3, <2>2, <2>3 DEF ListsOK
<1>9. EndOK' /\ SegmentOK'
  BY <1>3 DEF EndOK, SegmentOK
<1>10. ASSUME excuses' = {} PROVE ChunkOK'
  <2>1. excuses' = {"residue" : c \in {d \in DmaChannels : dma[d].on}} /\ dma' = dma
    BY DEF BeginLoad
  <2>2. \A c \in DmaChannels : ~dma'[c].on
    BY <1>10, <2>1
  <2>3. QED
    BY <1>3, <2>2, OffIsFine
<1>11. QED
  BY <1>6, <1>7, <1>8, <1>9, <1>10 DEF Sound, PlaceOK, Fine

\* A list without a segment is written.
LEMMA WriteListKeeps ==
  ASSUME LoadShape, Sound, WriteList
  PROVE  Sound'
<1>1. SUFFICES ASSUME Fine' PROVE PlaceOK' /\ SegmentOK' /\ ChunkOK'
  BY DEF Sound
<1>2. /\ load.pc = "next" /\ load.rest # <<>> /\ Current.kind = "list"
      /\ load' = [load EXCEPT !.rest = Tail(@)] /\ lists' = lists + 1
      /\ memory' = memory /\ dma' = dma /\ excuses' = excuses
  BY <1>1 DEF WriteList, LoadAt, LoadFailTo, LoadShape, LoadFields, Fine
<1>3. /\ load'.pc = "next" /\ load'.image = load.image /\ load'.rest = Tail(load.rest)
      /\ load'.failed = load.failed
  BY <1>2 DEF LoadShape, LoadFields
<1>4. PlaceOK /\ SegmentOK /\ ChunkOK
  BY <1>1, <1>2, <1>3 DEF Sound, Fine
<1>5. SegmentWords(Current) = {} /\ IsList(Current) /\ Improves
  BY <1>2 DEF SegmentWords, IsList, Improves
<1>6. /\ RestOK' /\ DoneOK' /\ ListsBehind \in Nat
      /\ ListsBehind' = ListsBehind + 1
  BY <1>2, <1>3, <1>4, <1>5, Advances DEF PlaceOK
<1>7. "next" \notin InSegment
  BY DEF InSegment
<1>8. ListsOK'
  BY <1>2, <1>3, <1>4, <1>6, <1>7 DEF PlaceOK, ListsOK
<1>9. EndOK' /\ SegmentOK'
  BY <1>3, <1>7 DEF EndOK, SegmentOK
<1>10. \A c \in DmaChannels : ~dma'[c].on
  BY <1>2, <1>4, AllOff, Zenon
<1>11. ChunkOK'
  BY <1>3, <1>7, <1>10, OffIsFine
<1>12. QED
  BY <1>6, <1>8, <1>9, <1>11 DEF PlaceOK

\* A segment begins behind its words without a frame.
LEMMA BeginSegmentKeeps ==
  ASSUME LoadShape, Sound, BeginSegment
  PROVE  Sound'
<1>1. SUFFICES ASSUME Fine' PROVE PlaceOK' /\ SegmentOK' /\ ChunkOK'
  BY DEF Sound
<1>2. /\ load.pc = "next" /\ load.rest # <<>> /\ Current.kind \in {"data", "listed"}
      /\ lists' = lists /\ memory' = memory /\ dma' = dma /\ excuses' = excuses
  BY DEF BeginSegment, LoadAt
<1>3. load' = [load EXCEPT !.pc = "chunk", !.remainder = Current.count % FrameWords,
                         !.sent = Current.count % FrameWords, !.common = FALSE,
                         !.list = (Current.kind = "listed")]
  BY <1>1 DEF BeginSegment, LoadShape, LoadFields, Fine
<1>4. /\ load'.pc = "chunk" /\ load'.image = load.image /\ load'.rest = load.rest
      /\ load'.remainder = Current.count % FrameWords /\ load'.sent = Current.count % FrameWords
      /\ load'.failed = load.failed
  BY <1>3 DEF LoadShape, LoadFields
<1>5. load'.list <=> Current.kind = "listed"
  BY <1>3 DEF LoadShape, LoadFields
<1>6. PlaceOK /\ SegmentOK /\ ChunkOK /\ Improves
  BY <1>1, <1>2, <1>4 DEF Sound, Fine, Improves
<1>7. /\ RestOK' /\ DoneOK' /\ ListsBehind' = ListsBehind /\ Current' = Current
  BY <1>4, <1>6, DoneStays DEF PlaceOK
<1>8. "next" \notin InSegment /\ "chunk" \in InSegment /\ "chunk" \notin InSegment \ {"chunk"}
  BY DEF InSegment
<1>9. ListsOK'
  <2>1. lists = ListsBehind + 0
    BY <1>2, <1>6, <1>8 DEF PlaceOK, ListsOK
  <2>2. ~(load'.pc \in InSegment /\ Current'.kind = "listed" /\ ~load'.list)
    BY <1>5, <1>7, Zenon
  <2>3. lists' = ListsBehind' + 0
    BY <1>2, <1>7, <2>1
  <2>4. QED
    BY <2>2, <2>3, Zenon DEF ListsOK
<1>10. EndOK'
  BY <1>4 DEF EndOK
<1>11. SegmentOK'
  <2>1. Current.addr \in Nat /\ Current.count \in Nat
    BY <1>2, <1>6, CurrentIsNext DEF PlaceOK
  <2>2. PICK m : m = Current.count % FrameWords
    OBVIOUS
  <2>3. m \in Nat /\ m <= Current.count
    BY <2>1, <2>2, DspLoadAssumption
  <2>4. \A a \in AllWords : ~(a >= Current.addr + m /\ a <= Current.addr + m - 1)
    BY <2>1, <2>3, WordsAreNumbers
  <2>5. QED
    BY <1>2, <1>4, <1>5, <1>7, <2>2, <2>3, <2>4 DEF SegmentOK, Stored
<1>12. \A c \in DmaChannels : ~dma'[c].on
  BY <1>2, <1>6, AllOff, Zenon
<1>13. ChunkOK'
  BY <1>4, <1>8, <1>12, OffIsFine
<1>14. QED
  BY <1>7, <1>9, <1>10, <1>11, <1>13 DEF PlaceOK

\* The smaller of two numbers
LEMMA MinOfTwo ==
  ASSUME NEW a \in Int, NEW b \in Int
  PROVE  /\ Min({a, b}) \in {a, b} /\ Min({a, b}) <= a /\ Min({a, b}) <= b
<1>1. \E x \in {a, b} : \A y \in {a, b} : x <= y
  OBVIOUS
<1>2. QED
  BY <1>1 DEF Min

\* What is known in a segment
LEMMA InSegmentFacts ==
  ASSUME PlaceOK, SegmentOK, load.pc \in InSegment
  PROVE  /\ Current.addr \in Nat /\ Current.count \in Nat /\ load.sent \in Nat
         /\ load.remainder \in Nat /\ Left \in Nat /\ load.rest # <<>>
         /\ AllWords \subseteq Nat /\ SegmentWords(Current) \subseteq AllWords
         /\ SegmentWords(Current) = Current.addr .. (Current.addr + Current.count - 1)
<1>1. /\ Current.addr \in Nat /\ Current.count \in Nat
      /\ load.rest # <<>> /\ SegmentWords(Current) \subseteq AllWords
  BY CurrentIsNext DEF PlaceOK, SegmentOK
<1>2. /\ load.sent \in Nat /\ load.sent <= Current.count
      /\ load.remainder \in {0, Current.count % FrameWords} /\ Current.kind \in {"data", "listed"}
  BY DEF SegmentOK
<1>3. Current.count % FrameWords \in Nat
  BY <1>1, DspLoadAssumption
<1>4. Left \in Nat
  BY <1>1, <1>2 DEF Left
<1>5. QED
  BY <1>1, <1>2, <1>3, <1>4, WordsAreNumbers DEF SegmentWords

\* A chunk is copied into the buffer.
LEMMA FillKeeps ==
  ASSUME LoadShape, Sound, FillBuffer
  PROVE  Sound'
<1>1. SUFFICES ASSUME Fine' PROVE PlaceOK' /\ SegmentOK' /\ ChunkOK'
  BY DEF Sound
<1>2. /\ load.pc = "chunk" /\ buffer' = [i \in 1..ChunkSize |-> Current.addr + load.sent + i - 1]
      /\ lists' = lists /\ memory' = memory /\ dma' = dma /\ excuses' = excuses
  BY DEF FillBuffer, LoadAt
<1>3. PICK p \in {"announce", "setup", "stop"} : load' = [load EXCEPT !.pc = p]
  BY DEF FillBuffer, LoadGoTo
<1>4. load'.pc = p /\ load'.failed = load.failed /\ Kept(PlaceFields)
  BY <1>3 DEF LoadShape, LoadFields, Kept, PlaceFields
<1>5. PlaceOK /\ SegmentOK /\ ChunkOK /\ Improves
  BY <1>1, <1>2, <1>4 DEF Sound, Fine, Improves
<1>6. load.pc \in InSegment /\ load'.pc \in InSegment \ {"wait"} /\ load.pc \notin {"run", "wait"}
      /\ load'.pc \notin {"run", "wait"}
  BY <1>2, <1>4 DEF InSegment
<1>7. PlaceOK' /\ SegmentOK' /\ Current' = Current /\ load'.sent = load.sent
  BY <1>2, <1>4, <1>5, <1>6, KeptFields, SegmentStays, DoneStays DEF PlaceOK
<1>8. /\ Current.addr \in Nat /\ load.sent \in Nat /\ Current.count \in Nat /\ Left \in Nat
  BY <1>5, <1>6, InSegmentFacts
<1>9. ChunkSize \in Nat /\ ChunkSize <= Left
  <2>1. BufferWords \in Int /\ BufferWords \in Nat /\ Left \in Int
    BY <1>8, DspLoadAssumption
  <2>2. Min({BufferWords, Left}) \in {BufferWords, Left} /\ Min({BufferWords, Left}) <= Left
    BY <2>1, MinOfTwo
  <2>3. QED
    BY <1>8, <2>1, <2>2, Zenon DEF ChunkSize
<1>10. PICK n \in Nat : n = ChunkSize
  BY <1>9
<1>11. buffer' = [i \in 1..n |-> Current.addr + load.sent + i - 1]
  BY <1>2, <1>10
<1>12. /\ buffer' \in Seq(Nat) /\ Len(buffer') = n
       /\ \A i \in 1..Len(buffer') : buffer'[i] = Current.addr + load.sent + i - 1
  BY <1>8, <1>11
<1>13. load.sent + n <= Current.count
  BY <1>8, <1>9, <1>10 DEF Left
<1>14. \A c \in DmaChannels : ~dma'[c].on
  BY <1>2, <1>5, <1>6, AllOff, Zenon
<1>15. ChunkOK'
  BY <1>6, <1>7, <1>12, <1>13, <1>14 DEF ChunkOK
<1>16. QED
  BY <1>7, <1>15

\* The channel is stopped before its first chunk.
LEMMA StopKeeps ==
  ASSUME LoadShape, MemoryShape, Sound, StopDma
  PROVE  Sound'
<1>1. SUFFICES ASSUME Fine' PROVE PlaceOK' /\ SegmentOK' /\ ChunkOK'
  BY DEF Sound
<1>2. /\ load.pc = "stop" /\ buffer' = buffer
      /\ lists' = lists /\ memory' = memory /\ excuses' = excuses
  BY DEF StopDma, LoadAt
<1>3. dma' = [dma EXCEPT ![load.chan].on = FALSE] /\ load' = [load EXCEPT !.pc = "setup", !.common = TRUE]
  BY <1>1 DEF StopDma, LoadFailTo, LoadShape, LoadFields, Fine
<1>4. load'.pc = "setup" /\ load'.failed = load.failed /\ Kept(PlaceFields)
  BY <1>3 DEF LoadShape, LoadFields, Kept, PlaceFields
<1>5. PlaceOK /\ SegmentOK /\ ChunkOK /\ Improves
  BY <1>1, <1>2, <1>4 DEF Sound, Fine, Improves
<1>6. /\ load.pc \in InSegment \ {"chunk"} /\ load'.pc \in InSegment \ {"wait"} /\ load.pc \notin {"run", "wait"}
      /\ load'.pc \notin {"run", "wait"}
  BY <1>2, <1>4 DEF InSegment
<1>7. PlaceOK' /\ SegmentOK' /\ Current' = Current /\ load'.sent = load.sent
  BY <1>2, <1>4, <1>5, <1>6, KeptFields, SegmentStays, DoneStays DEF PlaceOK
<1>8. ASSUME NEW c \in DmaChannels PROVE ~dma'[c].on
  <2>1. ~dma[c].on
    BY <1>5, <1>6, AllOff
  <2>2. QED
    BY <1>3, <2>1, ChannelOff, Zenon
<1>9. ChunkOK'
  BY <1>2, <1>5, <1>6, <1>7, <1>8 DEF ChunkOK
<1>10. QED
  BY <1>7, <1>9

\* The channel is given the chunk in the buffer, or the DSP is told to give it; a channel
\* that does not start is noted.
LEMMA StartKeeps ==
  ASSUME LoadShape, MemoryShape, Taken, Sound, StartDma \/ Announce
  PROVE  Sound'
<1>1. SUFFICES ASSUME Fine' PROVE PlaceOK' /\ SegmentOK' /\ ChunkOK'
  BY DEF Sound
<1>2. /\ load.pc \in {"setup", "announce"} /\ buffer' = buffer
      /\ lists' = lists /\ memory' = memory
  BY DEF StartDma, Announce, LoadAt
<1>3. PICK e : e = [on |-> TRUE, addr |-> ChunkAt, count |-> Len(buffer)]
  OBVIOUS
<1>4. dma' = [dma EXCEPT ![load.chan] = e] /\ load' = [load EXCEPT !.pc = "run"] /\ excuses' = excuses
  BY <1>1, <1>3 DEF StartDma, Announce, LoadGoTo, LoadFailTo, LoadShape, LoadFields, Fine
<1>5. load'.pc = "run" /\ load'.failed = load.failed /\ load'.chan = load.chan /\ Kept(PlaceFields)
  BY <1>4 DEF LoadShape, LoadFields, Kept, PlaceFields
<1>6. PlaceOK /\ SegmentOK /\ ChunkOK /\ Improves
  BY <1>1, <1>2, <1>4, <1>5 DEF Sound, Fine, Improves
<1>7. /\ load.pc \in InSegment \ {"chunk"} /\ load'.pc \in InSegment \ {"wait"} /\ load.pc \notin {"run", "wait"}
  BY <1>2, <1>5 DEF InSegment
<1>8. PlaceOK' /\ SegmentOK' /\ Current' = Current /\ load'.sent = load.sent
  BY <1>2, <1>5, <1>6, <1>7, KeptFields, SegmentStays, DoneStays DEF PlaceOK
<1>9. load.chan \in DmaChannels
  BY <1>7 DEF Taken, WithPorts
<1>10. dma'[load.chan] = e /\ \A c \in DmaChannels : c # load.chan => dma'[c] = dma[c]
  BY <1>4, <1>9 DEF MemoryShape
<1>11. /\ dma'[load.chan].on
       /\ dma'[load.chan].addr = Current.addr + load.sent /\ dma'[load.chan].count = Len(buffer)
  BY <1>3, <1>10 DEF ChunkAt
<1>12. ASSUME NEW c \in DmaChannels, dma'[c].on PROVE c = load.chan
  BY <1>6, <1>7, <1>10, <1>12, AllOff, Zenon
<1>13. ChunkOK'
  BY <1>2, <1>5, <1>6, <1>7, <1>8, <1>11, <1>12 DEF ChunkOK
<1>14. QED
  BY <1>8, <1>13

\* What the codec bus writes word by word
LEMMA SingleImproves ==
  ASSUME MemoryShape, NEW n, memory' = Single(n)
  PROVE  /\ Improves
         /\ \A a \in AllWords : a \in Current.addr .. (Current.addr + n - 1) => memory'[a] = a
  BY DEF Single, Improves

\* The words without a frame and the list are written when the first chunk runs.
LEMMA RunKeeps ==
  ASSUME LoadShape, MemoryShape, Sound, RunStream
  PROVE  Sound'
<1>1. SUFFICES ASSUME Fine' PROVE PlaceOK' /\ SegmentOK' /\ ChunkOK'
  BY DEF Sound
<1>2. /\ load.pc = "run" /\ buffer' = buffer /\ dma' = dma /\ excuses' = excuses
  BY DEF RunStream, LoadAt
<1>3. /\ memory' = Single(load.remainder)
      /\ lists' = lists + (IF load.list THEN 1 ELSE 0)
      /\ load' = [load EXCEPT !.pc = "wait", !.remainder = 0, !.list = FALSE]
  BY <1>1 DEF RunStream, LoadFailTo, LoadShape, LoadFields, Fine
<1>4. /\ load'.pc = "wait" /\ load'.failed = load.failed /\ load'.image = load.image /\ load'.rest = load.rest
      /\ load'.sent = load.sent /\ load'.chan = load.chan /\ load'.remainder = 0
  BY <1>3 DEF LoadShape, LoadFields
<1>5. ~load'.list
  BY <1>3 DEF LoadShape, LoadFields
<1>6. PlaceOK /\ SegmentOK /\ ChunkOK
  BY <1>1, <1>2, <1>4 DEF Sound, Fine
<1>7. /\ Improves
      /\ \A a \in AllWords : a \in Current.addr .. (Current.addr + load.remainder - 1) => memory'[a] = a
  BY <1>3, SingleImproves
<1>8. /\ load.pc \in InSegment \ {"chunk"} /\ load'.pc \in InSegment \ {"chunk"}
  BY <1>2, <1>4 DEF InSegment
<1>9. /\ RestOK' /\ DoneOK' /\ ListsBehind' = ListsBehind /\ Current' = Current
  BY <1>4, <1>6, <1>7, DoneStays DEF PlaceOK
<1>10. ListsOK'
  <2>1. Current.kind = "data" => ~load.list
    BY <1>6, <1>8, Zenon DEF SegmentOK
  <2>2. lists = ListsBehind + (IF Current.kind = "listed" /\ ~load.list THEN 1 ELSE 0)
    BY <1>6, <1>8 DEF PlaceOK, ListsOK
  <2>3. Current.kind \in {"data", "listed"}
    BY <1>6, <1>8 DEF SegmentOK
  <2>4. ListsBehind \in Nat
    BY <1>6, ListsCounted DEF PlaceOK
  <2>5. lists' = ListsBehind + (IF Current.kind = "listed" THEN 1 ELSE 0)
    <3>1. CASE load.list
      <4>1. lists = ListsBehind + 0 /\ lists' = lists + 1
        BY <1>3, <2>2, <3>1, Zenon
      <4>2. Current.kind = "listed"
        BY <2>1, <2>3, <3>1
      <4>3. QED
        BY <2>4, <4>1, <4>2
    <3>2. CASE ~load.list
      <4>1. lists = ListsBehind + (IF Current.kind = "listed" THEN 1 ELSE 0) /\ lists' = lists + 0
        BY <1>3, <2>2, <3>2, Zenon
      <4>2. QED
        BY <2>4, <4>1
    <3>3. QED
      BY <3>1, <3>2
  <2>6. QED
    BY <1>5, <1>8, <1>9, <2>5, Zenon DEF ListsOK
<1>11. EndOK'
  BY <1>4 DEF EndOK
<1>12. SegmentOK'
  <2>1. /\ Current.addr \in Nat /\ load.sent \in Nat /\ load.remainder \in Nat /\ AllWords \subseteq Nat
    BY <1>6, <1>8, InSegmentFacts
  <2>2. \A a \in AllWords : a >= Current.addr + load.remainder /\ a <= Current.addr + load.sent - 1 => memory'[a] = a
    BY <1>6, <1>7, <1>8, StoredStays DEF SegmentOK
  <2>3. Stored(Current.addr + 0, Current.addr + load.sent - 1)'
    BY <1>4, <1>7, <1>9, <2>1, <2>2 DEF Stored
  <2>4. QED
    BY <1>4, <1>5, <1>6, <1>8, <1>9, <2>1, <2>3 DEF SegmentOK
<1>13. ChunkOK'
  <2>1. CASE dma[load.chan].on
    BY <1>2, <1>4, <1>6, <1>8, <1>9, <2>1 DEF ChunkOK
  <2>2. CASE ~dma[load.chan].on
    <3>1. Stored(Current.addr + load.sent, Current.addr + load.sent + Len(buffer) - 1)
      BY <1>2, <1>6, <2>2 DEF ChunkOK
    <3>2. \A a \in AllWords : a >= Current.addr + load.sent /\ a <= Current.addr + load.sent + Len(buffer) - 1 => memory'[a] = a
      BY <1>7, <3>1, StoredStays
    <3>3. QED
      BY <1>2, <1>4, <1>6, <1>8, <1>9, <2>2, <3>2 DEF ChunkOK, Stored
  <2>3. QED
    BY <2>1, <2>2
<1>14. QED
  BY <1>9, <1>10, <1>11, <1>12, <1>13 DEF PlaceOK

\* The hardware puts the chunk where the channel says.
LEMMA DmaKeeps ==
  ASSUME LoadShape, MemoryShape, Taken, Sound, NEW c \in DmaChannels, DmaMoves(c)
  PROVE  Sound'
<1>1. SUFFICES ASSUME Fine' PROVE PlaceOK' /\ SegmentOK' /\ ChunkOK'
  BY DEF Sound
<1>2. /\ dma[c].on /\ load' = load /\ buffer' = buffer /\ lists' = lists /\ excuses' = excuses
      /\ loads' = loads /\ dma' = [dma EXCEPT ![c].on = FALSE]
      /\ memory' = [a \in AllWords |-> IF a \in dma[c].addr .. (dma[c].addr + dma[c].count - 1)
                                      /\ a - dma[c].addr + 1 <= Len(buffer)
                                   THEN buffer[a - dma[c].addr + 1] ELSE memory[a]]
  BY DEF DmaMoves
<1>3. PlaceOK /\ SegmentOK /\ ChunkOK
  BY <1>1, <1>2 DEF Sound, Fine
<1>4. load.pc \in {"run", "wait"} /\ c = load.chan
  BY <1>2, <1>3, Zenon DEF ChunkOK
<1>5. load.pc \in InSegment \ {"chunk"}
  BY <1>4 DEF InSegment
<1>6. /\ Current.addr \in Nat /\ load.sent \in Nat /\ AllWords \subseteq Nat
  BY <1>3, <1>5, InSegmentFacts
<1>7. /\ dma[c].addr = Current.addr + load.sent /\ dma[c].count = Len(buffer)
      /\ buffer \in Seq(Nat) /\ \A i \in 1..Len(buffer) : buffer[i] = Current.addr + load.sent + i - 1
  BY <1>2, <1>3, <1>4, <1>5 DEF ChunkOK
<1>8. PICK b \in Nat, n \in Nat : b = Current.addr + load.sent /\ n = Len(buffer)
  BY <1>6, <1>7
<1>9. ASSUME NEW a \in AllWords
      PROVE  memory'[a] = IF a >= b /\ a <= b + n - 1 THEN a ELSE memory[a]
  <2>1. a \in Nat /\ dma[c].addr = b /\ dma[c].count = n
    BY <1>6, <1>7, <1>8
  <2>2. memory'[a] = IF a \in b .. (b + n - 1) /\ a - b + 1 <= n THEN buffer[a - b + 1] ELSE memory[a]
    BY <1>2, <1>8, <2>1
  <2>3. \A i \in 1..n : buffer[i] = b + i - 1
    BY <1>7, <1>8
  <2>4. CASE a >= b /\ a <= b + n - 1
    <3>1. a - b + 1 \in 1..n
      BY <2>1, <2>4
    <3>2. buffer[a - b + 1] = b + (a - b + 1) - 1
      BY <2>3, <3>1
    <3>3. QED
      BY <2>1, <2>2, <2>4, <3>2
  <2>5. CASE ~(a >= b /\ a <= b + n - 1)
    BY <2>1, <2>2, <2>5
  <2>6. QED
    BY <2>4, <2>5
<1>10. Improves
  BY <1>9 DEF Improves
<1>11. /\ RestOK' /\ DoneOK' /\ ListsBehind' = ListsBehind /\ Current' = Current
  BY <1>2, <1>3, <1>10, DoneStays DEF PlaceOK
<1>12. ListsOK' /\ EndOK'
  BY <1>2, <1>3, <1>11 DEF PlaceOK, ListsOK, EndOK
<1>13. SegmentOK'
  <2>1. \A a \in AllWords : a >= Current.addr + load.remainder /\ a <= Current.addr + load.sent - 1 => memory'[a] = a
    BY <1>3, <1>5, <1>10, StoredStays DEF SegmentOK
  <2>2. Stored(Current.addr + load.remainder, Current.addr + load.sent - 1)'
    BY <1>2, <1>11, <2>1 DEF Stored
  <2>3. QED
    BY <1>2, <1>3, <1>11, <2>2 DEF SegmentOK
<1>14. ChunkOK'
  <2>1. dma'[c].on = FALSE /\ \A d \in DmaChannels : d # c => dma'[d] = dma[d]
    BY <1>2, ChannelOff
  <2>2. ~dma'[load'.chan].on
    BY <1>2, <1>4, <2>1, Zenon
  <2>3. \A d \in DmaChannels : ~dma'[d].on
    BY <1>3, <1>4, <2>1, Zenon DEF ChunkOK
  <2>4. Stored(b, b + n - 1)'
    BY <1>9 DEF Stored
  <2>5. Stored(Current.addr + load.sent, Current.addr + load.sent + Len(buffer) - 1)'
    BY <1>2, <1>8, <1>11, <2>4
  <2>6. QED
    BY <1>2, <1>3, <1>5, <1>11, <2>2, <2>3, <2>5 DEF ChunkOK
<1>15. QED
  BY <1>11, <1>12, <1>13, <1>14 DEF PlaceOK

\* A chunk that the channel has taken is counted.
LEMMA ChunkKeeps ==
  ASSUME LoadShape, Sound, ChunkDone \/ ChunkTimesOut
  PROVE  Sound'
<1>1. SUFFICES ASSUME Fine' PROVE PlaceOK' /\ SegmentOK' /\ ChunkOK'
  BY DEF Sound
<1>2. /\ load.pc = "wait" /\ buffer' = buffer /\ lists' = lists /\ memory' = memory /\ dma' = dma
  BY DEF ChunkDone, ChunkTimesOut, LoadAt
<1>3. /\ load' = [load EXCEPT !.pc = "chunk", !.sent = @ + Len(buffer)] /\ excuses' = excuses
      /\ OffSeen(dma[load.chan].on)
  BY <1>1 DEF ChunkDone, ChunkTimesOut, LoadFailTo, LoadShape, LoadFields, Fine
<1>4. /\ load'.pc = "chunk" /\ load'.failed = load.failed /\ load'.image = load.image /\ load'.rest = load.rest
      /\ load'.sent = load.sent + Len(buffer) /\ load'.chan = load.chan /\ load'.remainder = load.remainder
      /\ load'.list = load.list
  BY <1>3 DEF LoadShape, LoadFields
<1>5. ~dma[load.chan].on
  BY <1>3 DEF OffSeen
<1>6. PlaceOK /\ SegmentOK /\ ChunkOK /\ Improves
  BY <1>1, <1>2, <1>3, <1>4 DEF Sound, Fine, Improves
<1>7. /\ load.pc \in InSegment \ {"chunk"} /\ load'.pc \in InSegment /\ load'.pc \notin InSegment \ {"chunk"}
  BY <1>2, <1>4 DEF InSegment
<1>8. /\ RestOK' /\ DoneOK' /\ ListsBehind' = ListsBehind /\ Current' = Current
  BY <1>4, <1>6, DoneStays DEF PlaceOK
<1>9. ListsOK' /\ EndOK'
  BY <1>2, <1>4, <1>6, <1>7, <1>8 DEF PlaceOK, ListsOK, EndOK
<1>10. SegmentOK'
  <2>1. /\ Current.addr \in Nat /\ load.sent \in Nat /\ load.remainder \in Nat /\ AllWords \subseteq Nat
        /\ Current.count \in Nat
    BY <1>6, <1>7, InSegmentFacts
  <2>2. buffer \in Seq(Nat) /\ load.sent + Len(buffer) <= Current.count
    BY <1>6, <1>7 DEF ChunkOK
  <2>3. PICK n \in Nat : n = Len(buffer)
    BY <2>2
  <2>4. load.remainder = 0
    BY <1>2, <1>6, <1>7 DEF SegmentOK
  <2>5. /\ Stored(Current.addr + load.remainder, Current.addr + load.sent - 1)
        /\ Stored(Current.addr + load.sent, Current.addr + load.sent + Len(buffer) - 1)
    BY <1>2, <1>5, <1>6, <1>7 DEF SegmentOK, ChunkOK
  <2>6. \A a \in AllWords : a >= Current.addr + load.remainder /\ a <= Current.addr + (load.sent + n) - 1
          => memory[a] = a
    <3>1. PICK b \in Nat, s \in Nat, r \in Nat : b = Current.addr /\ s = load.sent /\ r = load.remainder
      BY <2>1
    <3>2. /\ \A a \in AllWords : a >= b + r /\ a <= b + s - 1 => memory[a] = a
          /\ \A a \in AllWords : a >= b + s /\ a <= b + s + n - 1 => memory[a] = a
      BY <2>3, <2>5, <3>1 DEF Stored
    <3>3. \A a \in AllWords : a >= b + r /\ a <= b + (s + n) - 1 => memory[a] = a
      BY <2>1, <3>2
    <3>4. QED
      BY <3>1, <3>3
  <2>7. Stored(Current.addr + load.remainder, Current.addr + load.sent - 1)'
    BY <1>2, <1>4, <1>8, <2>3, <2>6 DEF Stored
  <2>8. load'.sent \in Nat /\ load'.sent <= Current.count /\ load'.remainder <= load'.sent
    BY <1>4, <2>1, <2>2, <2>3, <2>4
  <2>9. QED
    BY <1>4, <1>6, <1>7, <1>8, <2>7, <2>8 DEF SegmentOK
<1>11. \A c \in DmaChannels : ~dma'[c].on
  BY <1>2, <1>5, <1>6, Zenon DEF ChunkOK
<1>12. ChunkOK'
  BY <1>7, <1>11, OffIsFine
<1>13. QED
  BY <1>8, <1>9, <1>10, <1>12 DEF PlaceOK

\* The segment is whole: its frames by DMA, the words without a frame with the first chunk
\* or now.
LEMMA FinishKeeps ==
  ASSUME LoadShape, MemoryShape, Sound, FinishSegment
  PROVE  Sound'
<1>1. SUFFICES ASSUME Fine' PROVE PlaceOK' /\ SegmentOK' /\ ChunkOK'
  BY DEF Sound
<1>2. /\ load.pc = "chunk" /\ Left = 0 /\ lists' = lists /\ dma' = dma
  BY DEF FinishSegment, LoadAt
<1>3. /\ memory' = Single(load.remainder)
      /\ excuses' = (IF load.list THEN excuses \cup {"list skipped"} ELSE excuses)
      /\ load' = [load EXCEPT !.pc = "next", !.rest = Tail(@), !.sent = 0, !.remainder = 0]
  BY <1>1 DEF FinishSegment, LoadFailTo, LoadShape, LoadFields, Fine
<1>4. ~load.list
  BY <1>1, <1>3 DEF Fine
<1>5. /\ load'.pc = "next" /\ load'.failed = load.failed /\ load'.image = load.image
      /\ load'.rest = Tail(load.rest) /\ excuses' = excuses
  BY <1>3, <1>4 DEF LoadShape, LoadFields
<1>6. PlaceOK /\ SegmentOK /\ ChunkOK
  BY <1>1, <1>5 DEF Sound, Fine
<1>7. load.pc \in InSegment /\ "next" \notin InSegment
  BY <1>2 DEF InSegment
<1>8. /\ Improves
      /\ \A a \in AllWords : a \in Current.addr .. (Current.addr + load.remainder - 1) => memory'[a] = a
  BY <1>3, SingleImproves
<1>9. /\ Current.addr \in Nat /\ load.sent \in Nat /\ load.remainder \in Nat /\ Current.count \in Nat
      /\ AllWords \subseteq Nat /\ SegmentWords(Current) \subseteq AllWords /\ load.rest # <<>>
      /\ SegmentWords(Current) = Current.addr .. (Current.addr + Current.count - 1)
  BY <1>6, <1>7, InSegmentFacts
<1>10. \A a \in SegmentWords(Current) : memory'[a] = a
  <2>1. load.sent = Current.count
    BY <1>2, <1>9 DEF Left
  <2>2. \A a \in AllWords : a >= Current.addr + load.remainder /\ a <= Current.addr + load.sent - 1 => memory'[a] = a
    BY <1>6, <1>7, <1>8, StoredStays DEF SegmentOK
  <2>3. QED
    BY <1>8, <1>9, <2>1, <2>2
<1>11. /\ RestOK' /\ DoneOK' /\ ListsBehind \in Nat
       /\ ListsBehind' = ListsBehind + (IF IsList(Current) THEN 1 ELSE 0)
  BY <1>5, <1>6, <1>8, <1>9, <1>10, Advances DEF PlaceOK
<1>12. ListsOK'
  <2>1. Current.kind \in {"data", "listed"}
    BY <1>6, <1>7 DEF SegmentOK
  <2>2. IsList(Current) <=> Current.kind = "listed"
    BY <2>1 DEF IsList
  <2>3. lists = ListsBehind + (IF Current.kind = "listed" THEN 1 ELSE 0)
    BY <1>4, <1>6, <1>7, Zenon DEF PlaceOK, ListsOK
  <2>4. lists' = ListsBehind' + 0
    BY <1>2, <1>11, <2>2, <2>3
  <2>5. QED
    BY <1>5, <1>7, <2>4, Zenon DEF ListsOK
<1>13. EndOK' /\ SegmentOK'
  BY <1>5, <1>7 DEF EndOK, SegmentOK
<1>14. \A c \in DmaChannels : ~dma'[c].on
  BY <1>2, <1>6, AllOff, Zenon
<1>15. ChunkOK'
  BY <1>5, <1>7, <1>14, OffIsFine
<1>16. QED
  BY <1>11, <1>12, <1>13, <1>15 DEF PlaceOK

\* Every step keeps what the load has taken.
LEMMA HeldKeeps ==
  ASSUME HeldInv, LoadNext
  PROVE  HeldInv'
<1>1. \/ BeginLoad \/ PrepareLoad \/ AllocChannel
      \/ AllocPorts \/ SetConverter \/ BadSegment \/ FreePorts
      \/ NoMoreSegments \/ WriteList \/ BeginSegment \/ FillBuffer \/ StopDma \/ StartDma
      \/ Announce \/ RunStream \/ ChunkDone \/ ChunkTimesOut \/ FinishSegment
      \/ ResetDsp \/ ExitLoad \/ ReturnLoad \/ FreeActive \/ StopResidue \/ StreamReused
      \/ \E c \in DmaChannels : DmaMoves(c)
  BY Zenon DEF LoadNext
<1>2. QED
  BY <1>1, BeginTakes, PrepareTakes, ChannelTakes, PortsTake, SegmentTakes, EndsTake, Zenon

\* The invariant of the loader
LoadInv == HeldInv /\ StreamTaken /\ MemoryShape /\ Sound

\* The loader's invariant, for any images, channels and sizes of frame and buffer
THEOREM LoadInvariant == LoadSpec => []LoadInv
<1>1. LoadInit => LoadInv
  <2>. SUFFICES ASSUME LoadInit PROVE LoadInv
    OBVIOUS
  <2>. USE DEF LoadInit, NothingLoading
  <2>1. load.pc = "idle" /\ load.mask = FALSE /\ load.ovly = FALSE /\ load.image = <<>> /\ load.rest = <<>>
        /\ load.failed = FALSE
    OBVIOUS
  <2>2. LoadShape /\ SaysOk
    BY DEF LoadShape, LoadFields, LoadPlaces, SaysOk
  <2>3. Taken
    BY <2>1 DEF Taken, WithPorts, InSegment
  <2>4. MemoryShape /\ StreamTaken
    BY DEF MemoryShape, StreamTaken, NoDma
  <2>5. "idle" \notin InSegment /\ \A c \in DmaChannels : ~dma[c].on
    BY DEF InSegment, NoDma
  <2>6. Behind = 0
    BY <2>1 DEF Behind
  <2>7. RestOK
    BY <2>1, <2>6 DEF RestOK
  <2>8. {i \in 1..0 : IsList(load.image[i])} = {}
    OBVIOUS
  <2>9. ListsBehind = 0
    BY <2>6, <2>8, FS_EmptySet DEF ListsBehind
  <2>10. PlaceOK
    BY <2>1, <2>5, <2>6, <2>7, <2>9 DEF PlaceOK, DoneOK, ListsOK, EndOK
  <2>11. SegmentOK /\ ChunkOK
    BY <2>1, <2>5 DEF SegmentOK, ChunkOK, InSegment
  <2>12. QED
    BY <2>2, <2>3, <2>4, <2>10, <2>11 DEF LoadInv, HeldInv, Sound
<1>2. LoadInv /\ [LoadNext]_loadVars => LoadInv'
  <2>1. ASSUME LoadInv, LoadNext PROVE LoadInv'
    <3>1. HeldInv /\ StreamTaken /\ LoadShape /\ Taken /\ MemoryShape /\ Sound
      BY <2>1 DEF LoadInv, HeldInv
    <3>2. HeldInv' /\ StreamTaken' /\ MemoryShape'
      BY <2>1, <3>1, HeldKeeps, StreamStaysTaken, MemoryKeeps
    <3>3. Sound'
      <4>1. CASE \/ ResetDsp \/ PrepareLoad \/ AllocChannel \/ AllocPorts \/ SetConverter
                 \/ NoMoreSegments \/ BadSegment \/ FreePorts \/ ExitLoad \/ ReturnLoad
        BY <3>1, <4>1, OutsideKeeps
      <4>2. CASE FreeActive \/ StopResidue
        BY <3>1, <4>2, BetweenKeeps
      <4>3. CASE \E c \in DmaChannels : DmaMoves(c)
        BY <3>1, <4>3, DmaKeeps
      <4>4. CASE \/ BeginLoad \/ WriteList \/ BeginSegment \/ FillBuffer \/ StopDma \/ StartDma \/ Announce
        BY <3>1, <4>4, BeginKeeps, WriteListKeeps, BeginSegmentKeeps, FillKeeps, StopKeeps, StartKeeps
      <4>5. CASE RunStream \/ ChunkDone \/ ChunkTimesOut \/ FinishSegment
        BY <3>1, <4>5, RunKeeps, ChunkKeeps, FinishKeeps
      <4>6. CASE StreamReused
        BY <3>1, <4>6, ReusedKeeps
      <4>7. QED
        BY <2>1, <4>1, <4>2, <4>3, <4>4, <4>5, <4>6, Zenon DEF LoadNext
    <3>4. QED
      BY <3>2, <3>3 DEF LoadInv
  <2>2. ASSUME LoadInv, UNCHANGED loadVars PROVE LoadInv'
    <3>1. /\ load' = load /\ buffer' = buffer /\ dma' = dma /\ loadStream' = loadStream
          /\ (ports' <=> ports) /\ held' = held /\ memory' = memory /\ lists' = lists
          /\ returned' = returned /\ excuses' = excuses /\ leaks' = leaks /\ loads' = loads
      BY <2>2 DEF loadVars
    <3>2. HeldInv' /\ StreamTaken' /\ MemoryShape'
      <4>1. HeldInv'
        BY <2>2, <3>1, Zenon DEF LoadInv, HeldInv, LoadShape, Taken, SaysOk
      <4>2. StreamTaken'
        BY <2>2, <3>1, Zenon DEF LoadInv, StreamTaken
      <4>3. MemoryShape'
        BY <2>2, <3>1, Zenon DEF LoadInv, MemoryShape
      <4>4. QED
        BY <4>1, <4>2, <4>3
    <3>3. Sound'
      BY <2>2, <3>1, SoundStays DEF LoadInv
    <3>4. QED
      BY <3>2, <3>3 DEF LoadInv
  <2>3. QED
    BY <2>1, <2>2
<1>3. QED
  BY <1>1, <1>2, PTL DEF LoadSpec

\* A load that returns zero has put every word and every list of its image where it belongs,
\* unless one of the named slips of the code happened, and every load gives back what it took
\* (dspxfr_one_seg, dspxfr_image, dspload_image): for any images, any number of channels and
\* any sizes of the frame and the buffer.  What is kept, the stream left marked running
\* included, is kept by a step of the code that leaves it so.
THEOREM LoadsAreSound == LoadSpec => []LoadSound
<1>1. LoadInv => LoadSound
  <2>1. ASSUME LoadInv PROVE AllReturned
    <3>1. CASE load.pc = "idle"
      <4>1. "idle" \notin WithPorts \cup {"ports", "exit"}
        BY DEF WithPorts, InSegment
      <4>2. ("channel" \notin leaks => held = {}) /\ ("ports" \notin leaks => ~ports)
        BY <2>1, <3>1, <4>1 DEF LoadInv, HeldInv, Taken
      <4>3. loadStream = "none" \/ (loadStream = "left" /\ "stream" \in leaks)
        BY <2>1, <3>1 DEF LoadInv, StreamTaken
      <4>4. QED
        BY <4>2, <4>3 DEF AllReturned
    <3>2. CASE load.pc # "idle"
      BY <3>2 DEF AllReturned, LoadAt
    <3>3. QED
      BY <3>1, <3>2
  <2>2. ASSUME LoadInv, LoadEnded, returned = "ok", excuses = {} PROVE ImageIsWhole
    <3>1. load.pc = "idle" /\ loads > 0 /\ Fine
      BY <2>2 DEF LoadEnded, LoadAt, LoadInv, HeldInv, SaysOk, Fine
    <3>2. RestOK /\ DoneOK /\ ListsOK /\ load.rest = <<>>
      BY <2>2, <3>1 DEF LoadInv, Sound, PlaceOK, EndOK
    <3>3. load.image \in Seq(SegmentType)
      BY <3>2, DspLoadAssumption DEF RestOK
    <3>4. Behind = Len(load.image) /\ DOMAIN load.image = 1..Len(load.image)
      BY <3>2, <3>3 DEF Behind
    <3>5. \A a \in ImageWords(load.image) : memory[a] = a
      BY <3>2, <3>4, Zenon DEF DoneOK, ImageWords
    <3>6. "idle" \notin InSegment
      BY DEF InSegment
    <3>7. lists = ListsBehind
      BY <3>1, <3>2, <3>6, ListsCounted DEF ListsOK
    <3>8. lists = ListsOf(load.image)
      BY <3>4, <3>7, Zenon DEF ListsBehind, ListsOf, IsList
    <3>9. QED
      BY <3>5, <3>8 DEF ImageIsWhole
  <2>3. QED
    BY <2>1, <2>2 DEF LoadSound, WholeImage
<1>2. QED
  BY <1>1, LoadInvariant, PTL

=============================================================================
