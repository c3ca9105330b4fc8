------------------------------ MODULE UnsolQueue ------------------------------
(***************************************************************************)
(* Unsolicited events on their way from the interrupt to a codec's driver  *)
(* (bus.c): a queue written by the interrupt, emptied by a work that drops *)
(* reg_lock around each handler, and codecs that are added, registered and *)
(* removed meanwhile (bus.c, device.c).                                    *)
(***************************************************************************)
EXTENDS Integers, Sequences

CONSTANTS
  Codecs,       \* codec addresses
  QueueSize,    \* HDA_UNSOL_QUEUE_SIZE, 64 in the code
  MaxEvents,    \* bound: events raised
  MaxRemovals   \* bound: codecs removed

ASSUME UnsolAssumption ==
  /\ Codecs \subseteq 0..15
  /\ QueueSize \in Nat \ {0} /\ MaxEvents \in Nat /\ MaxRemovals \in Nat

VARIABLES
  unsol_queue, wp, rp,    \* unsol_queue, unsol_wp, unsol_rp
  unsolWork,        \* the work: idle, running (reg_lock free), locked, handling
  pending,          \* the work has been scheduled
  handled,          \* the codec whose handler runs
  caddr_tbl,        \* the addresses with a codec
  codec,            \* [Codecs -> absent, added, registered, removing, freed]
  num_codecs,
  removals,         \* counter of the bound
  raised, served, skipped, \* history: number of events raised, those handed to a
                           \* driver, in order, and those for no registered codec
  lapped            \* history: events a full queue has made invisible

unsolVars == <<unsol_queue, wp, rp, unsolWork, pending, handled, caddr_tbl, codec, num_codecs,
               removals, raised, served, skipped, lapped>>

NoCodec == -1
NoEvent == [n |-> 0, addr |-> NoCodec]

UnsolInit ==
  /\ unsol_queue = [i \in 0..(QueueSize - 1) |-> NoEvent] /\ wp = 0 /\ rp = 0
  /\ unsolWork = "idle" /\ pending = FALSE /\ handled = NoCodec
  /\ caddr_tbl = {} /\ codec = [c \in Codecs |-> "absent"] /\ num_codecs = 0
  /\ removals = 0 /\ raised = 0 /\ served = <<>> /\ skipped = 0 /\ lapped = 0

InQueue == (wp - rp) % QueueSize

\* Mutant of QueueEvent: the entry is written before the pointer moves.
QueueEvent_Early(c) ==
  /\ unsolWork # "locked" /\ raised < MaxEvents
  /\ raised' = raised + 1
  /\ wp' = (wp + 1) % QueueSize
  /\ unsol_queue' = [unsol_queue EXCEPT ![wp] = [n |-> raised + 1, addr |-> c]]
  /\ lapped' = IF InQueue = QueueSize - 1 THEN lapped + QueueSize ELSE lapped
  /\ pending' = TRUE
  /\ UNCHANGED <<rp, unsolWork, handled, caddr_tbl, codec, num_codecs, removals, served, skipped>>

\* Mutant of QueueEvent: the pointer does not wrap.
QueueEvent_NoWrap(c) ==
  /\ unsolWork # "locked" /\ raised < MaxEvents
  /\ raised' = raised + 1
  /\ wp' = wp + 1
  /\ unsol_queue' = [unsol_queue EXCEPT ![wp % QueueSize] = [n |-> raised + 1, addr |-> c]]
  /\ lapped' = IF InQueue = QueueSize - 1 THEN lapped + QueueSize ELSE lapped
  /\ pending' = TRUE
  /\ UNCHANGED <<rp, unsolWork, handled, caddr_tbl, codec, num_codecs, removals, served, skipped>>

\* Mutant of QueueEvent: the work is scheduled only if entries wait already.
QueueEvent_IfIdle(c) ==
  /\ unsolWork # "locked" /\ raised < MaxEvents
  /\ raised' = raised + 1
  /\ wp' = (wp + 1) % QueueSize
  /\ unsol_queue' = [unsol_queue EXCEPT ![wp'] = [n |-> raised + 1, addr |-> c]]
  /\ lapped' = IF InQueue = QueueSize - 1 THEN lapped + QueueSize ELSE lapped
  /\ pending' = (wp # rp)
  /\ UNCHANGED <<rp, unsolWork, handled, caddr_tbl, codec, num_codecs, removals, served, skipped>>

\* snd_hdac_bus_queue_event, in the interrupt, under reg_lock; no check for full
QueueEvent(c) ==
  /\ unsolWork # "locked" /\ raised < MaxEvents
  /\ raised' = raised + 1
  /\ wp' = (wp + 1) % QueueSize
  /\ unsol_queue' = [unsol_queue EXCEPT ![wp'] = [n |-> raised + 1, addr |-> c]]
  /\ lapped' = IF InQueue = QueueSize - 1 THEN lapped + QueueSize ELSE lapped
  /\ pending' = TRUE
  /\ UNCHANGED <<rp, unsolWork, handled, caddr_tbl, codec, num_codecs, removals, served, skipped>>

WorkStarts ==
  /\ unsolWork = "idle" /\ pending
  /\ pending' = FALSE /\ unsolWork' = "running"
  /\ UNCHANGED <<unsol_queue, wp, rp, handled, caddr_tbl, codec, num_codecs, removals, raised, served,
                 skipped, lapped>>

WorkLocks ==
  /\ unsolWork = "running"
  /\ unsolWork' = "locked"
  /\ UNCHANGED <<unsol_queue, wp, rp, pending, handled, caddr_tbl, codec, num_codecs, removals, raised,
                 served, skipped, lapped>>

NextEvent == unsol_queue[(rp + 1) % QueueSize]
Listens(c) == c \in caddr_tbl /\ codec[c] \in {"registered", "removing"}

\* Nobody is there for the event: the loop goes on under the lock
WorkSkips ==
  /\ unsolWork = "locked" /\ rp # wp /\ ~Listens(NextEvent.addr)
  /\ rp' = (rp + 1) % QueueSize
  /\ skipped' = skipped + 1
  /\ UNCHANGED <<unsol_queue, wp, unsolWork, pending, handled, caddr_tbl, codec, num_codecs, removals,
                 raised, served, lapped>>

\* Mutant of WorkHandles: the read pointer moves after the handler only.
WorkHandles_Late ==
  /\ unsolWork = "locked" /\ rp # wp /\ Listens(NextEvent.addr)
  /\ served' = Append(served, NextEvent.n)
  /\ handled' = NextEvent.addr /\ unsolWork' = "handling"
  /\ rp' = wp
  /\ UNCHANGED <<unsol_queue, wp, pending, caddr_tbl, codec, num_codecs, removals, raised, skipped, lapped>>

\* ... or its driver's handler is called without the lock
WorkHandles ==
  /\ unsolWork = "locked" /\ rp # wp /\ Listens(NextEvent.addr)
  /\ rp' = (rp + 1) % QueueSize
  /\ served' = Append(served, NextEvent.n)
  /\ handled' = NextEvent.addr /\ unsolWork' = "handling"
  /\ UNCHANGED <<unsol_queue, wp, pending, caddr_tbl, codec, num_codecs, removals, raised, skipped, lapped>>

HandlerReturns ==
  /\ unsolWork = "handling"
  /\ handled' = NoCodec /\ unsolWork' = "running"
  /\ UNCHANGED <<unsol_queue, wp, rp, pending, caddr_tbl, codec, num_codecs, removals, raised, served,
                 skipped, lapped>>

UnsolWorkEnds ==
  /\ unsolWork = "locked" /\ rp = wp
  /\ unsolWork' = "idle"
  /\ UNCHANGED <<unsol_queue, wp, rp, pending, handled, caddr_tbl, codec, num_codecs, removals, raised,
                 served, skipped, lapped>>

\* snd_hdac_bus_add_device, from snd_hdac_device_init
AddDevice(c) ==
  /\ codec[c] \in {"absent", "freed"} /\ c \notin caddr_tbl /\ unsolWork # "locked"
  /\ codec' = [codec EXCEPT ![c] = "added"]
  /\ caddr_tbl' = caddr_tbl \cup {c} /\ num_codecs' = num_codecs + 1
  /\ UNCHANGED <<unsol_queue, wp, rp, unsolWork, pending, handled, removals, raised, served, skipped, lapped>>

\* The driver core has bound a driver and sets registered
Register(c) ==
  /\ codec[c] = "added"
  /\ codec' = [codec EXCEPT ![c] = "registered"]
  /\ UNCHANGED <<unsol_queue, wp, rp, unsolWork, pending, handled, caddr_tbl, num_codecs, removals,
                 raised, served, skipped, lapped>>

\* snd_hdac_bus_remove_device, from the unregister or the exit of the codec
RemoveDevice(c) ==
  /\ codec[c] \in {"added", "registered"} /\ removals < MaxRemovals
  /\ codec' = [codec EXCEPT ![c] = "removing"]
  /\ caddr_tbl' = caddr_tbl \ {c} /\ num_codecs' = num_codecs - 1
  /\ removals' = removals + 1
  /\ UNCHANGED <<unsol_queue, wp, rp, unsolWork, pending, handled, raised, served, skipped, lapped>>

\* Mutant of FlushWork: what is running is not waited for.
FlushWork_Pending(c) ==
  /\ codec[c] = "removing" /\ ~pending
  /\ codec' = [codec EXCEPT ![c] = "freed"]
  /\ UNCHANGED <<unsol_queue, wp, rp, unsolWork, pending, handled, caddr_tbl, num_codecs, removals,
                 raised, served, skipped, lapped>>

\* ... which waits for the work before the codec is freed
FlushWork(c) ==
  /\ codec[c] = "removing" /\ ~pending /\ unsolWork = "idle"
  /\ codec' = [codec EXCEPT ![c] = "freed"]
  /\ UNCHANGED <<unsol_queue, wp, rp, unsolWork, pending, handled, caddr_tbl, num_codecs, removals,
                 raised, served, skipped, lapped>>

UnsolProcess == WorkStarts \/ WorkLocks \/ WorkSkips \/ WorkHandles \/ HandlerReturns \/ UnsolWorkEnds

UnsolNext ==
  \/ UnsolProcess
  \/ \E c \in Codecs :
       QueueEvent(c) \/ AddDevice(c) \/ Register(c) \/ RemoveDevice(c) \/ FlushWork(c)

\* The workqueue runs what is scheduled.
UnsolSpec == UnsolInit /\ [][UnsolNext]_unsolVars /\ WF_unsolVars(UnsolProcess)

-----------------------------------------------------------------------------
(* Properties.                                                             *)

UnsolTypeOK ==
  /\ wp \in 0..(QueueSize - 1) /\ rp \in 0..(QueueSize - 1)
  /\ unsolWork \in {"idle", "running", "locked", "handling"}
  /\ caddr_tbl \subseteq Codecs /\ handled \in Codecs \cup {NoCodec}
  /\ \A c \in Codecs : codec[c] \in {"absent", "added", "registered", "removing", "freed"}

\* Events reach the drivers in the order they were raised, none twice
ServedInOrder == \A i, j \in 1..Len(served) : i < j => served[i] < served[j]

\* Every event has been handed over, was for nobody, or waits, but for the
\* QueueSize of them that are out of sight each time the queue was overrun; so
\* up to QueueSize - 1 events may come in before the work runs.  Those handed over
\* come in the order they were raised, none twice, also after an overrun.
EventsAccounted ==
  /\ raised = Len(served) + skipped + InQueue + lapped
  /\ ServedInOrder

\* A codec is not freed while its handler runs.
HandlerHasCodec == unsolWork = "handling" => codec[handled] # "freed"

\* Events do not wait for ever: whatever comes in while the work runs, is about
\* to end or waits for a handler starts it again.
EventsServed == rp # wp ~> rp = wp
=============================================================================
