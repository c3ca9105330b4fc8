--------------------------- MODULE MC_DriverSafety ---------------------------
(***************************************************************************)
(* Instances for TLC of the components whose promises are safety           *)
(* properties: the knob's accumulator, the chip's address and data         *)
(* registers, the DSP loader, the output selection, the PCM streams, the   *)
(* HDMI channel maps, the queries of a codec, the display's power and the  *)
(* widget tree.  They do not interact in a way that is not in one of the   *)
(* modules, so one behaviour is a behaviour of one of them (part), and the *)
(* others stay where they begin: one run checks each on its own bounds.    *)
(***************************************************************************)
EXTENDS AcmKnob, ChipIo, MC_DspLoad, OutputSelect, HdaStream, HdmiChmap, HdaQueries,
        DisplayAudio, WidgetTree

VARIABLE part
Parts == {"knob", "chip", "load", "output", "stream", "chmap", "queries", "display", "widgets"}

all == <<part, vars, chipVars, loadVars, outputVars, streamVars, chmapVars, queriesVars,
         displayVars, widgetVars>>

\* A setup whose periods divide its pages, one with the parameters of a load that
\* needs more entries than the list has, and one that needs more itself; pages that
\* are not contiguous
MCSetups == {
  [bufsize |-> 8, period_bytes |-> 4, rate |-> 24000, nowake |-> FALSE, breaks |-> {}],
  [bufsize |-> 16, period_bytes |-> 8, rate |-> 48000, nowake |-> TRUE, breaks |-> {6}],
  [bufsize |-> 12, period_bytes |-> 3, rate |-> 48000, nowake |-> FALSE, breaks |-> {4, 8}]}
MCBreaks == {2, 6}

\* Ranges that share nodes and one that does not
MCRanges == {[start |-> 2, num |-> 3], [start |-> 3, num |-> 4], [start |-> 9, num |-> 2]}

\* Where the parts that have several beginnings stay if another one is looked at
SomeChmap == CHOOSE ask \in Asks : TRUE
SomeQuery == CHOOSE ask \in HdaAsks : TRUE
SomeCard  == CHOOSE card \in OutputCards : TRUE

SafetyInit ==
  /\ part \in Parts
  /\ Init /\ (part # "knob" => level = 0)
  /\ ChipInit /\ LoadInit /\ StreamInit /\ DisplayInit /\ WidgetInit
  /\ OutputInit /\ (part # "output" => outCard = SomeCard)
  /\ IF part = "chmap" THEN ChmapInit ELSE chmapAsk = SomeChmap /\ chmapAnswer = <<>>
  /\ IF part = "queries" THEN QueriesInit ELSE hdaAsk = SomeQuery /\ hdaAnswer = <<>>

SafetyNext ==
  /\ UNCHANGED part
  /\ IF part = "knob"    THEN Next        ELSE UNCHANGED vars
  /\ IF part = "chip"    THEN ChipNext    ELSE UNCHANGED chipVars
  /\ IF part = "load"    THEN LoadNext    ELSE UNCHANGED loadVars
  /\ IF part = "output"  THEN OutputNext  ELSE UNCHANGED outputVars
  /\ IF part = "stream"  THEN StreamNext  ELSE UNCHANGED streamVars
  /\ IF part = "chmap"   THEN ChmapNext   ELSE UNCHANGED chmapVars
  /\ IF part = "queries" THEN QueriesNext ELSE UNCHANGED queriesVars
  /\ IF part = "display" THEN DisplayNext ELSE UNCHANGED displayVars
  /\ IF part = "widgets" THEN WidgetNext  ELSE UNCHANGED widgetVars

SafetySpec == SafetyInit /\ [][SafetyNext]_all

\* Every variable of every part that keeps a state has its type.
SafetyTypeOK == TypeOK /\ ChipTypeOK /\ LoadTypeOK /\ OutputTypeOK /\ StreamTypeOK
=============================================================================
