--------------------------- MODULE MC_CommandRing ---------------------------
(***************************************************************************)
(* Instances of CommandRing for TLC, with rings of two or three entries    *)
(* instead of 256, so that they fill, wrap and overrun.                    *)
(***************************************************************************)
EXTENDS CommandRing

CONSTANTS t1, t2, c0, c2    \* two threads, two codec addresses

TwoThreads == {t1, t2}
TwoCodecs  == {c0, c2}

\* One codec answering by interrupt: verbs enough to fill the ring, or a few among
\* several events; and the two of an AE-9 with a polling waiter
SomeLinks ==
  {[codecs |-> {c0}, polling |-> FALSE, verbs |-> 4, unsols |-> 1],
   [codecs |-> {c0}, polling |-> FALSE, verbs |-> 2, unsols |-> 3],
   [codecs |-> {c0, c2}, polling |-> TRUE, verbs |-> 2, unsols |-> 2]}

\* Two codecs and enough verbs to fill a ring of two
FullLink == {[codecs |-> {c0, c2}, polling |-> FALSE, verbs |-> 2, unsols |-> 0]}
=============================================================================
