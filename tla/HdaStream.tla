------------------------------ MODULE HdaStream ------------------------------
(***************************************************************************)
(* Stream descriptors of the controller (stream.c): their assignment to    *)
(* PCM substreams, the buffer descriptor list (BDL) the hardware walks,    *)
(* start and stop of linked streams, and the loan of a stream to the DSP   *)
(* loader under dsp_lock.                                                  *)
(*                                                                         *)
(* Who calls the functions of stream.c, and in what order, is outside the  *)
(* repository (the PCM operations of the HD-audio controller driver); it   *)
(* is modelled as stream.c is meant to be used: parameters, prepare,       *)
(* trigger, sync, free, under dsp_lock where the stream may be lent.       *)
(***************************************************************************)
EXTENDS Integers, Sequences, FiniteSets

CONSTANTS
  Sds,         \* stream descriptors, 1..n, in the order of bus->stream_list
  Substreams,  \* PCM substreams, all of the direction of the descriptors
  Setups,      \* what a program may ask for, see SetupType
  LoadSizes,   \* sizes of the DSP loader's buffer
  LoadRate,    \* the format it asks for
  LoadBreaks,  \* where its pages are not contiguous
  BdlEntries,  \* AZX_MAX_BDL_ENTRIES
  Page,        \* 4K: unit of contiguity, and of align_bdle_4k
  Align4K,     \* bus->align_bdle_4k
  PosAdj       \* bus->bdl_pos_adj, in frames of one byte

SetupType ==
  [bufsize : Nat \ {0}, period_bytes : Nat \ {0}, rate : Nat, nowake : BOOLEAN,
   breaks : SUBSET Nat]

ASSUME StreamAssumption ==
  /\ IsFiniteSet(Sds) /\ Sds = 1..Cardinality(Sds)
  /\ Setups \subseteq SetupType
  /\ \A x \in Setups : x.bufsize % x.period_bytes = 0
  /\ LoadSizes \subseteq Nat \ {0} /\ (\A n \in LoadSizes : n % 2 = 0) /\ LoadBreaks \subseteq Nat
  /\ LoadRate \in Nat
  /\ BdlEntries \in Nat \ {0} /\ Page \in Nat \ {0} /\ Align4K \in BOOLEAN
  /\ PosAdj \in Nat

VARIABLES
  sd,      \* [Sds -> the fields of struct hdac_stream]
  bdl,     \* [Sds -> the descriptor list in memory]
  hw,      \* [Sds -> what the controller does: DMA, the list and length it has]
  pcm,     \* [Substreams -> where its program is, the stream and set-up it has]
  loader   \* the DSP loader: where it is, the stream it has

streamVars == <<sd, bdl, hw, pcm, loader>>

None == "none"
NoParams == [bufsize |-> 0, period_bytes |-> 0, rate |-> 0]
NoSetup == [bufsize |-> 0, period_bytes |-> 0, rate |-> 0, nowake |-> FALSE, breaks |-> {}]
NoLoad == [at |-> "idle", dev |-> 0, bytes |-> 0]
Idle == [opened |-> FALSE, running |-> FALSE, locked |-> FALSE, key |-> None,
         substream |-> None, params |-> NoParams, nowake |-> FALSE, frags |-> 0]

\* snd_hdac_stream_init for each of the descriptors
StreamInit ==
  /\ sd = [s \in Sds |-> Idle]
  /\ bdl = [s \in Sds |-> <<>>]
  /\ hw = [s \in Sds |-> [dma |-> "off", cbl |-> 0, lvi |-> -1]]
  /\ pcm = [u \in Substreams |-> [at |-> "closed", dev |-> 0, setup |-> NoSetup]]
  /\ loader = NoLoad

-----------------------------------------------------------------------------
(* The descriptor list.                                                    *)

Least(S) == CHOOSE x \in S : \A y \in S : x <= y

\* snd_sgbuf_get_chunk_size: as far as the pages are contiguous
SgChunk(breaks, ofs, size) ==
  Least({size} \cup {b - ofs : b \in {b \in breaks : b > ofs}})

\* Mutant of Chunk: the 4K limit is taken from the start of the piece.
Chunk_From0(breaks, ofs, size) ==
  IF Align4K THEN Least({SgChunk(breaks, ofs, size), Page}) ELSE SgChunk(breaks, ofs, size)

Chunk(breaks, ofs, size) ==
  IF Align4K THEN Least({SgChunk(breaks, ofs, size), Page - (ofs % Page)})
             ELSE SgChunk(breaks, ofs, size)

\* setup_bdle: the entries for one piece of the buffer; the interrupt comes
\* when the whole piece is done
SetupBdle(breaks, from, size, ioc) ==
  LET end == from + size
      entries[ofs \in from..end] ==
        IF ofs = end THEN <<>>
        ELSE LET chunk == Chunk(breaks, ofs, end - ofs)
             IN  <<[ofs |-> ofs, len |-> chunk, ioc |-> ioc /\ ofs + chunk = end]>>
                   \o entries[ofs + chunk]
  IN  entries[from]

RoundUp(x, a) == ((x + a - 1) \div a) * a

\* The adjustment in bytes, 0 if there is none or it is too big
Adjust(x, runtime) ==
  LET scaled == (PosAdj * x.rate + 47999) \div 48000
      bytes  == IF scaled = 0 THEN PosAdj ELSE RoundUp(scaled, PosAdj)
  IN  IF ~runtime \/ x.nowake \/ PosAdj = 0 \/ bytes >= x.period_bytes THEN 0 ELSE bytes

\* What snd_hdac_stream_setup_bdle asks setup_bdle for, in its order
Pieces(x, runtime) ==
  LET adj == Adjust(x, runtime)
      n   == x.bufsize \div x.period_bytes
      P(i) == [ofs |-> adj + (i - 1) * x.period_bytes,
               len |-> x.period_bytes - (IF i = n THEN adj ELSE 0),
               ioc |-> ~x.nowake /\ ~(i = n /\ adj > 0)]
  IN  (IF adj > 0 THEN <<[ofs |-> 0, len |-> adj, ioc |-> TRUE]>> ELSE <<>>)
        \o [i \in 1..n |-> P(i)]

Entries(x, runtime) ==
  LET p == Pieces(x, runtime)
      upTo[i \in 0..Len(p)] ==
        IF i = 0 THEN <<>>
        ELSE upTo[i - 1] \o SetupBdle(x.breaks, p[i].ofs, p[i].len, p[i].ioc)
  IN  upTo[Len(p)]

TooMany(x, runtime) == Len(Entries(x, runtime)) > BdlEntries

\* Mutant of Written: the end of the list is not looked for.
Written_Past(x, runtime) == Entries(x, runtime)

\* It fails at the entry that no longer fits; what it wrote stays.
Written(x, runtime) ==
  IF TooMany(x, runtime) THEN SubSeq(Entries(x, runtime), 1, BdlEntries) ELSE Entries(x, runtime)

ParamsOf(x) == [bufsize |-> x.bufsize, period_bytes |-> x.period_bytes, rate |-> x.rate]

-----------------------------------------------------------------------------
(* PCM.                                                                    *)

\* A stream for the substream: the one it had, or else the first not opened
Candidates == {s \in Sds : ~sd[s].opened}
Chosen(u) ==
  IF \E s \in Candidates : sd[s].key = u THEN CHOOSE s \in Candidates : sd[s].key = u
                                         ELSE Least(Candidates)

\* Mutant of Assign: a stream that is open is taken too.
Assign_Any(u) ==
  /\ pcm[u].at = "closed"
  /\ sd' = [sd EXCEPT ![1].opened = TRUE, ![1].running = FALSE, ![1].key = u, ![1].substream = u]
  /\ pcm' = [pcm EXCEPT ![u] = [at |-> "open", dev |-> 1, setup |-> NoSetup]]
  /\ UNCHANGED <<bdl, hw, loader>>

Assign(u) ==
  /\ pcm[u].at = "closed" /\ Candidates # {}
  /\ LET s == Chosen(u) IN
     /\ sd' = [sd EXCEPT ![s].opened = TRUE, ![s].running = FALSE,
                         ![s].key = u, ![s].substream = u]
     /\ pcm' = [pcm EXCEPT ![u] = [at |-> "open", dev |-> s, setup |-> NoSetup]]
  /\ UNCHANGED <<bdl, hw, loader>>

\* The loader's dsp_lock is held while it prepares
DspLocked(s) == loader.dev = s /\ loader.at = "taken"

\* snd_hdac_stream_cleanup, when the buffer is freed
Cleanup(u) ==
  LET s == pcm[u].dev IN
  /\ pcm[u].at \in {"open", "prepared"} /\ pcm[u].setup # NoSetup
  /\ ~DspLocked(s) /\ ~sd[s].locked
  /\ sd' = [sd EXCEPT ![s].params = NoParams]
  /\ hw' = [hw EXCEPT ![s] = [dma |-> "off", cbl |-> @.cbl, lvi |-> @.lvi]]
  /\ pcm' = [pcm EXCEPT ![u].at = "open", ![u].setup = NoSetup]
  /\ UNCHANGED <<bdl, loader>>

\* A program chooses buffer, period and rate
HwParams(u, x) ==
  /\ pcm[u].at = "open" /\ pcm[u].setup = NoSetup
  /\ pcm' = [pcm EXCEPT ![u].setup = x]
  /\ UNCHANGED <<sd, bdl, hw, loader>>

\* snd_hdac_stream_set_params would write the list
Changes(s, x) == ParamsOf(x) # sd[s].params \/ x.nowake # sd[s].nowake

SetParams(s, x) ==
  /\ sd' = [sd EXCEPT ![s].running = FALSE, ![s].params = ParamsOf(x), ![s].nowake = x.nowake,
                      ![s].frags = IF Changes(s, x) THEN Len(Written(x, TRUE)) ELSE @]
  /\ bdl' = IF Changes(s, x) THEN [bdl EXCEPT ![s] = Written(x, TRUE)] ELSE bdl

\* snd_hdac_stream_reset, set_params and snd_hdac_stream_setup
Prepare(u) ==
  LET s == pcm[u].dev
      x == pcm[u].setup IN
  /\ pcm[u].at \in {"open", "prepared"} /\ x # NoSetup
  /\ ~DspLocked(s) /\ ~sd[s].locked /\ sd[s].substream # None
  /\ SetParams(s, x)
  /\ \/ /\ Changes(s, x) /\ TooMany(x, TRUE)
        /\ hw' = [hw EXCEPT ![s].dma = "off"]
        /\ pcm' = [pcm EXCEPT ![u].at = "open"]
     \/ /\ ~(Changes(s, x) /\ TooMany(x, TRUE))
        /\ hw' = [hw EXCEPT ![s] = [dma |-> "off", cbl |-> x.bufsize, lvi |-> sd'[s].frags - 1]]
        /\ pcm' = [pcm EXCEPT ![u].at = "prepared"]
  /\ UNCHANGED loader

Group(G) == {pcm[u].dev : u \in G}

\* snd_hdac_stream_start for each of the linked substreams
Start(G) ==
  /\ \A u \in G : pcm[u].at = "prepared" /\ ~sd[pcm[u].dev].locked
  /\ sd' = [s \in Sds |-> IF s \in Group(G) THEN [sd[s] EXCEPT !.running = TRUE] ELSE sd[s]]
  /\ hw' = [s \in Sds |-> IF s \in Group(G) THEN [hw[s] EXCEPT !.dma = "on"] ELSE hw[s]]
  /\ pcm' = [u \in Substreams |-> IF u \in G THEN [pcm[u] EXCEPT !.at = "running"] ELSE pcm[u]]
  /\ UNCHANGED <<bdl, loader>>

\* Mutant of Stop: the first stream's flag is cleared, the group's DMA stopped.
Stop_OneFlag(G) ==
  LET first == CHOOSE s \in Group(G) : \A r \in Group(G) : s <= r IN
  /\ \A u \in G : pcm[u].at = "running"
  /\ sd' = [sd EXCEPT ![first].running = FALSE]
  /\ hw' = [s \in Sds |-> IF s \in Group(G) THEN [hw[s] EXCEPT !.dma = "stopping"] ELSE hw[s]]
  /\ pcm' = [u \in Substreams |-> IF u \in G THEN [pcm[u] EXCEPT !.at = "stopping"] ELSE pcm[u]]
  /\ UNCHANGED <<bdl, loader>>

\* snd_hdac_stream_stop for each of them: the RUN bit is cleared when the
\* controller is done with the fragment
Stop(G) ==
  /\ \A u \in G : pcm[u].at = "running"
  /\ sd' = [s \in Sds |-> IF s \in Group(G) THEN [sd[s] EXCEPT !.running = FALSE] ELSE sd[s]]
  /\ hw' = [s \in Sds |-> IF s \in Group(G) THEN [hw[s] EXCEPT !.dma = "stopping"] ELSE hw[s]]
  /\ pcm' = [u \in Substreams |-> IF u \in G THEN [pcm[u] EXCEPT !.at = "stopping"] ELSE pcm[u]]
  /\ UNCHANGED <<bdl, loader>>

\* Mutant of SyncStop: it gives up without a reset.
SyncStop_GivesUp(u) ==
  /\ pcm[u].at = "stopping"
  /\ pcm' = [pcm EXCEPT ![u].at = "prepared"]
  /\ UNCHANGED <<sd, bdl, hw, loader>>

\* snd_hdac_stream_sync after a stop: waits for the RUN bits, and resets, in
\* its last round, the streams that still have theirs
SyncStop(u) ==
  LET s == pcm[u].dev IN
  /\ pcm[u].at = "stopping"
  /\ hw' = [hw EXCEPT ![s].dma = "off"]
  /\ pcm' = [pcm EXCEPT ![u].at = "prepared"]
  /\ UNCHANGED <<sd, bdl, loader>>

\* snd_hdac_stream_release
Release(u) ==
  /\ pcm[u].at = "open" /\ pcm[u].setup = NoSetup
  /\ sd' = [sd EXCEPT ![pcm[u].dev].opened = FALSE, ![pcm[u].dev].running = FALSE,
                      ![pcm[u].dev].substream = None]
  /\ pcm' = [pcm EXCEPT ![u] = [at |-> "closed", dev |-> 0, setup |-> NoSetup]]
  /\ UNCHANGED <<bdl, hw, loader>>

-----------------------------------------------------------------------------
(* The DSP loader.                                                         *)

LoadSetup(n) == [bufsize |-> n, period_bytes |-> n \div 2, rate |-> LoadRate,
              nowake |-> TRUE, breaks |-> LoadBreaks]

\* snd_hdac_dsp_prepare, under reg_lock; a stream that is open is not lent (its
\* state would have to be put back, which the caller does)
DspTake(s, n) ==
  /\ loader.at = "idle" /\ ~sd[s].opened
  /\ ~sd[s].running /\ ~sd[s].locked
  /\ sd' = [sd EXCEPT ![s].locked = TRUE]
  /\ loader' = [at |-> "taken", dev |-> s, bytes |-> n]
  /\ UNCHANGED <<bdl, hw, pcm>>

\* ... then the buffer, reset, list and set-up
DspPrepare ==
  LET s == loader.dev IN
  /\ loader.at = "taken" /\ ~TooMany(LoadSetup(loader.bytes), FALSE)
  /\ sd' = [sd EXCEPT ![s].substream = None, ![s].running = FALSE, ![s].nowake = TRUE,
                      ![s].params = ParamsOf(LoadSetup(loader.bytes)),
                      ![s].frags = Len(Written(LoadSetup(loader.bytes), FALSE))]
  /\ bdl' = [bdl EXCEPT ![s] = Written(LoadSetup(loader.bytes), FALSE)]
  /\ hw' = [hw EXCEPT ![s] = [dma |-> "off", cbl |-> loader.bytes,
                              lvi |-> Len(Written(LoadSetup(loader.bytes), FALSE)) - 1]]
  /\ loader' = [loader EXCEPT !.at = "ready"]
  /\ UNCHANGED pcm

\* Mutant of DspFails: locked is left set.
DspFails_KeepsLocked ==
  /\ loader.at = "taken"
  /\ loader' = NoLoad
  /\ UNCHANGED <<sd, bdl, hw, pcm>>

\* ... or no memory (err_alloc), or the list does not fit (error)
DspFails ==
  LET s == loader.dev IN
  /\ loader.at = "taken"
  /\ \/ sd' = [sd EXCEPT ![s].locked = FALSE] /\ UNCHANGED <<bdl, hw>>
     \/ /\ TooMany(LoadSetup(loader.bytes), FALSE)
        /\ sd' = [sd EXCEPT ![s].locked = FALSE, ![s].substream = None, ![s].running = FALSE,
                            ![s].nowake = TRUE, ![s].params = ParamsOf(LoadSetup(loader.bytes)),
                            ![s].frags = BdlEntries]
        /\ bdl' = [bdl EXCEPT ![s] = Written(LoadSetup(loader.bytes), FALSE)]
        /\ hw' = [hw EXCEPT ![s].dma = "off"]
  /\ loader' = NoLoad
  /\ UNCHANGED pcm

\* snd_hdac_dsp_trigger
DspStart ==
  /\ loader.at = "ready"
  /\ sd' = [sd EXCEPT ![loader.dev].running = TRUE]
  /\ hw' = [hw EXCEPT ![loader.dev].dma = "on"]
  /\ loader' = [loader EXCEPT !.at = "loading"]
  /\ UNCHANGED <<bdl, pcm>>

DspStop ==
  /\ loader.at = "loading"
  /\ sd' = [sd EXCEPT ![loader.dev].running = FALSE]
  /\ hw' = [hw EXCEPT ![loader.dev].dma = "stopping"]
  /\ loader' = [loader EXCEPT !.at = "ready"]
  /\ UNCHANGED <<bdl, pcm>>

\* snd_hdac_dsp_cleanup, to the end of which dsp_lock is held. A load that failed on
\* its way comes here without a stop: the stream is at rest, its running mark stays.
DspCleanup ==
  LET s == loader.dev IN
  /\ loader.at \in {"ready", "loading"}
  /\ sd' = [sd EXCEPT ![s].params = NoParams, ![s].locked = FALSE]
  /\ hw' = [hw EXCEPT ![s].dma = "off"]
  /\ loader' = NoLoad
  /\ UNCHANGED <<bdl, pcm>>

\* snd_hdac_stop_streams, on the way to a suspend, when nothing runs any more
StopStreams ==
  /\ loader.at = "idle" /\ \A u \in Substreams : pcm[u].at \notin {"running", "stopping"}
  /\ sd' = [s \in Sds |-> [sd[s] EXCEPT !.running = FALSE]]
  /\ UNCHANGED <<bdl, hw, pcm, loader>>

StreamNext ==
  \/ \E u \in Substreams :
       \/ Assign(u) \/ Prepare(u) \/ SyncStop(u) \/ Cleanup(u) \/ Release(u)
       \/ \E x \in Setups : HwParams(u, x)
  \/ \E G \in SUBSET Substreams \ {{}} : Start(G) \/ Stop(G)
  \/ \E s \in Sds, n \in LoadSizes : DspTake(s, n)
  \/ DspPrepare \/ DspFails \/ DspStart \/ DspStop \/ DspCleanup \/ StopStreams

StreamSpec == StreamInit /\ [][StreamNext]_streamVars

-----------------------------------------------------------------------------
(* Properties.                                                             *)

StreamTypeOK ==
  /\ \A s \in Sds :
       /\ sd[s].opened \in BOOLEAN /\ sd[s].running \in BOOLEAN /\ sd[s].locked \in BOOLEAN
       /\ sd[s].key \in Substreams \cup {None} /\ sd[s].substream \in Substreams \cup {None}
       /\ sd[s].frags \in 0..BdlEntries /\ Len(bdl[s]) \in 0..BdlEntries
       /\ hw[s].dma \in {"off", "on", "stopping"} /\ hw[s].lvi \in -1..(BdlEntries - 1)
  /\ \A u \in Substreams : pcm[u].dev \in Sds \cup {0}
  /\ loader.at \in {"idle", "taken", "ready", "loading"} /\ loader.bytes \in LoadSizes \cup {0}
  /\ loader.dev \in Sds \cup {0}

\* Where a correct list for set-up x is cut: at the ends of the pieces that
\* raise an interrupt, where the pages are not contiguous, and at 4K
CutPoints(x) ==
  LET adj == Adjust(x, TRUE)
      points == {0, x.bufsize}
        \cup {adj + k * x.period_bytes : k \in 0..(x.bufsize \div x.period_bytes - 1)}
        \cup {k * x.period_bytes : k \in IF adj = 0 THEN 0..(x.bufsize \div x.period_bytes) ELSE {0}}
        \cup x.breaks
        \cup (IF Align4K THEN {k * Page : k \in 0..(x.bufsize \div Page)} ELSE {})
  IN  {p \in points : p <= x.bufsize}

\* The list does its work for set-up x: its entries follow each other without a
\* gap from 0 to the end of the buffer, none crosses a page limit, and the
\* interrupts come once a period, at the adjusted period ends.
Describes(list, x) ==
  /\ Len(list) = Cardinality(CutPoints(x)) - 1
  /\ \A i \in 1..Len(list) :
       /\ list[i].len > 0
       /\ list[i].ofs \in CutPoints(x) /\ list[i].ofs + list[i].len \in CutPoints(x)
       /\ list[i].ofs = (IF i = 1 THEN 0 ELSE list[i - 1].ofs + list[i - 1].len)
  /\ {list[i].ofs + list[i].len : i \in {i \in 1..Len(list) : list[i].ioc}} =
       IF x.nowake THEN {}
       ELSE {Adjust(x, TRUE) + k * x.period_bytes :
               k \in (IF Adjust(x, TRUE) = 0 THEN 1 ELSE 0)..
                     (x.bufsize \div x.period_bytes - (IF Adjust(x, TRUE) = 0 THEN 0 ELSE 1))}

\* What a stream plays from describes the buffer of the program that runs it
\* (comment on snd_hdac_stream_setup_bdle): the whole buffer, cut where the
\* hardware needs it, an interrupt a period.
ListDescribesBuffer ==
  \A u \in Substreams : pcm[u].at = "running" =>
    LET s == pcm[u].dev IN
    hw[s].lvi = Len(bdl[s]) - 1 /\ hw[s].cbl = pcm[u].setup.bufsize /\ Describes(bdl[s], pcm[u].setup)

\* A set-up with the parameters of a load whose list did not fit: a failed
\* snd_hdac_dsp_prepare leaves them in the stream.
LooksLoaded(x) ==
  /\ x.nowake /\ x.bufsize \in LoadSizes
  /\ ParamsOf(x) = ParamsOf(LoadSetup(x.bufsize)) /\ TooMany(LoadSetup(x.bufsize), FALSE)

\* The same, but for a set-up whose list does not fit, where the second prepare
\* finds the parameters stored by the first and skips the list, and for one whose
\* parameters a failed load has stored.
ListRight ==
  \A u \in Substreams : pcm[u].at = "running" =>
    LET s == pcm[u].dev IN
    \/ TooMany(pcm[u].setup, TRUE) \/ LooksLoaded(pcm[u].setup)
    \/ hw[s].lvi = Len(bdl[s]) - 1 /\ hw[s].cbl = pcm[u].setup.bufsize
       /\ Describes(bdl[s], pcm[u].setup)

\* A stream has one user: two programs never share one, and the loader neither
\* reprograms a stream a program runs nor is robbed of its own while it loads.
OneUser ==
  /\ \A u, v \in Substreams : u # v /\ pcm[u].dev = pcm[v].dev => pcm[u].dev = 0
  /\ \A u \in Substreams : pcm[u].at \in {"running", "stopping"} =>
       /\ ~sd[pcm[u].dev].locked /\ sd[pcm[u].dev].substream = u
  /\ loader.at = "loading" => hw[loader.dev].dma = "on" /\ hw[loader.dev].cbl = loader.bytes

\* A stream is locked only while there is a loader that will unlock it: no
\* failure on the way keeps it from the programs for good.
LockReturned == \A s \in Sds : sd[s].locked => loader.dev = s /\ loader.at # "idle"

\* The buffer of a stream is not freed, nor the stream handed on, while the
\* controller may still access it.
QuietWhenFree ==
  \A s \in Sds : hw[s].dma # "off" =>
    \/ loader.dev = s
    \/ \E u \in Substreams : pcm[u].dev = s /\ pcm[u].at \in {"running", "stopping"}

\* A stream the loader gave back without a stop, still marked running: nothing has
\* been set up on it since, and no program that has it has prepared it.
LeftRunning(s) ==
  /\ sd[s].running /\ hw[s].dma = "off" /\ sd[s].params = NoParams
  /\ \A u \in Substreams : pcm[u].dev = s => pcm[u].at = "open"

\* The flag an interrupt handler, and snd_hdac_dsp_prepare, go by tells of every stream
\* whether the controller runs it, but for a stream that is lent (assign and release
\* clear running and do not look at locked) and one that a failed load has left.
RunningFlag ==
  \A s \in Sds : (sd[s].running # (hw[s].dma = "on")) => sd[s].locked \/ LeftRunning(s)

\* A descriptor that goes from program to program, and to the DSP loader between
\* them, has one user at a time and is at rest and unlocked when it has none.
StreamsShared == OneUser /\ LockReturned /\ QuietWhenFree /\ RunningFlag
=============================================================================
