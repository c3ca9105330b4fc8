--------------------------- MODULE UnsolQueue_proofs ---------------------------
(***************************************************************************)
(* Proofs about UnsolQueue, for every size of the queue, number of events  *)
(* and set of codecs.  QueueInv is inductive: the entries between the two  *)
(* pointers are the newest events in their order, whatever an overrun has  *)
(* made invisible, and what has been handed over is older.                 *)
(***************************************************************************)
EXTENDS UnsolQueue, TLAPS

\* The entry i places after the read pointer
Entry(i) == unsol_queue[(rp + i) % QueueSize]

\* Types, and that a handler that runs is that of a codec not yet freed
QueueTypes ==
  /\ UnsolTypeOK
  /\ raised \in Nat /\ skipped \in Nat /\ lapped \in Nat
  /\ served \in Seq(Nat)
  /\ unsol_queue \in [0..(QueueSize - 1) -> [n : Nat, addr : Codecs \cup {NoCodec}]]

HandlerAlive == unsolWork = "handling" => handled \in Codecs /\ codec[handled] \in {"registered", "removing"}

\* The entries waiting are the last InQueue events, oldest first
NewestWait == \A i \in 1..InQueue : Entry(i).n = raised - InQueue + i

\* Those handed over are older than those that wait, and in order
OlderServed ==
  /\ ServedInOrder
  /\ \A i \in 1..Len(served) : served[i] <= raised - InQueue

QueueInv == QueueTypes /\ HandlerAlive /\ NewestWait /\ OlderServed /\ EventsAccounted

-----------------------------------------------------------------------------

\* A remainder is a place in the queue.
LEMMA ModRange == ASSUME NEW x \in Int PROVE x % QueueSize \in 0..(QueueSize - 1)
  BY UnsolAssumption

\* The remainder of what is less than a turn away.
LEMMA ModNear ==
  ASSUME NEW x \in Int, -QueueSize <= x, x < 2 * QueueSize
  PROVE  x % QueueSize = IF x < 0 THEN x + QueueSize
                         ELSE IF x < QueueSize THEN x ELSE x - QueueSize
<1> DEFINE r == x % QueueSize
           q == x \div QueueSize
<1>1. x = QueueSize * q + r /\ r \in 0..(QueueSize - 1) /\ q \in Int
  BY UnsolAssumption, ModRange
<1>2. q \in -1..1
  BY <1>1, UnsolAssumption
<1>3. QED
  BY <1>1, <1>2, UnsolAssumption

\* Types of the pointers and of their distance.
LEMMA Pointers ==
  ASSUME QueueTypes
  PROVE  /\ wp \in 0..(QueueSize - 1) /\ rp \in 0..(QueueSize - 1) /\ QueueSize \in Nat \ {0}
         /\ InQueue \in 0..(QueueSize - 1)
         /\ InQueue = IF wp >= rp THEN wp - rp ELSE wp - rp + QueueSize
         /\ rp # wp => InQueue >= 1
<1>1. /\ wp \in 0..(QueueSize - 1) /\ rp \in 0..(QueueSize - 1) /\ QueueSize \in Nat \ {0}
  BY UnsolAssumption DEF QueueTypes, UnsolTypeOK
<1>2. InQueue = IF wp - rp < 0 THEN wp - rp + QueueSize
                ELSE IF wp - rp < QueueSize THEN wp - rp ELSE wp - rp - QueueSize
  BY <1>1, ModNear DEF InQueue
<1>3. QED
  BY <1>1, <1>2

\* The places the pointers go to.
LEMMA NextPlaces ==
  ASSUME QueueTypes
  PROVE  (rp + 1) % QueueSize \in 0..(QueueSize - 1) /\ (wp + 1) % QueueSize \in 0..(QueueSize - 1)
  BY Pointers, ModRange

\* What the interrupt does to the pointers: one more waits, or the queue looks empty.
LEMMA WriteMoves ==
  ASSUME QueueTypes, wp' = (wp + 1) % QueueSize, rp' = rp
  PROVE  /\ wp' \in 0..(QueueSize - 1)
         /\ InQueue' = IF InQueue = QueueSize - 1 THEN 0 ELSE InQueue + 1
         /\ InQueue < QueueSize - 1 => wp' = (rp + (InQueue + 1)) % QueueSize
<1>1. wp' = IF wp + 1 < QueueSize THEN wp + 1 ELSE wp + 1 - QueueSize
  BY Pointers, ModNear
<1>2. InQueue' = IF wp' - rp < 0 THEN wp' - rp + QueueSize
                 ELSE IF wp' - rp < QueueSize THEN wp' - rp ELSE wp' - rp - QueueSize
  <2>1. InQueue' = (wp' - rp) % QueueSize
    BY DEF InQueue
  <2>2. wp' - rp \in Int /\ -QueueSize <= wp' - rp /\ wp' - rp < 2 * QueueSize
    BY <1>1, Pointers
  <2>3. QED
    BY <2>1, <2>2, ModNear
<1>3. (rp + (InQueue + 1)) % QueueSize =
        IF rp + (InQueue + 1) < QueueSize THEN rp + (InQueue + 1) ELSE rp + (InQueue + 1) - QueueSize
  BY Pointers, ModNear
<1>4. wp' \in 0..(QueueSize - 1)
  BY <1>1, Pointers
<1>5. InQueue' = IF InQueue = QueueSize - 1 THEN 0 ELSE InQueue + 1
  <2>1. CASE wp + 1 < QueueSize
    BY <2>1, <1>1, <1>2, Pointers
  <2>2. CASE ~(wp + 1 < QueueSize)
    BY <2>2, <1>1, <1>2, Pointers
  <2>3. QED
    BY <2>1, <2>2
<1>6. InQueue < QueueSize - 1 => wp' = (rp + (InQueue + 1)) % QueueSize
  BY <1>1, <1>3, Pointers
<1>7. QED
  BY <1>4, <1>5, <1>6

\* What the work does to them: one less waits.
LEMMA ReadMoves ==
  ASSUME QueueTypes, rp # wp, rp' = (rp + 1) % QueueSize, wp' = wp
  PROVE  /\ rp' \in 0..(QueueSize - 1)
         /\ InQueue' = InQueue - 1
         /\ \A i \in 1..(InQueue - 1) : (rp' + i) % QueueSize = (rp + (i + 1)) % QueueSize
<1>1. rp' = IF rp + 1 < QueueSize THEN rp + 1 ELSE rp + 1 - QueueSize
  BY Pointers, ModNear
<1>2. InQueue' = IF wp - rp' < 0 THEN wp - rp' + QueueSize
                 ELSE IF wp - rp' < QueueSize THEN wp - rp' ELSE wp - rp' - QueueSize
  BY <1>1, Pointers, ModNear DEF InQueue
<1>3. ASSUME NEW i \in 1..(InQueue - 1)
      PROVE  (rp' + i) % QueueSize = (rp + (i + 1)) % QueueSize
  <2>1. (rp' + i) % QueueSize = IF rp' + i < QueueSize THEN rp' + i ELSE rp' + i - QueueSize
    BY <1>1, Pointers, ModNear
  <2>2. (rp + (i + 1)) % QueueSize =
          IF rp + (i + 1) < QueueSize THEN rp + (i + 1) ELSE rp + (i + 1) - QueueSize
    BY Pointers, ModNear
  <2>3. QED
    BY <1>1, <2>1, <2>2, Pointers
<1>4. QED
  BY <1>1, <1>2, <1>3, Pointers

\* Entries at different distances from the read pointer are different places.
LEMMA PlacesDiffer ==
  ASSUME QueueTypes, NEW i \in 1..InQueue, InQueue < QueueSize - 1
  PROVE  (rp + i) % QueueSize # (rp + (InQueue + 1)) % QueueSize
<1>1. (rp + i) % QueueSize = IF rp + i < QueueSize THEN rp + i ELSE rp + i - QueueSize
  BY Pointers, ModNear
<1>2. (rp + (InQueue + 1)) % QueueSize =
        IF rp + (InQueue + 1) < QueueSize THEN rp + (InQueue + 1) ELSE rp + (InQueue + 1) - QueueSize
  BY Pointers, ModNear
<1>3. QED
  BY <1>1, <1>2, Pointers


-----------------------------------------------------------------------------

\* The queue starts empty and nobody is there.
LEMMA QueueInvInit == UnsolInit => QueueInv
<1> SUFFICES ASSUME UnsolInit PROVE QueueInv
  OBVIOUS
<1>1. QueueTypes
  BY UnsolAssumption DEF UnsolInit, QueueTypes, UnsolTypeOK, NoEvent
<1>2. InQueue = 0
  BY <1>1, Pointers DEF UnsolInit
<1>3. HandlerAlive /\ NewestWait /\ OlderServed /\ EventsAccounted
  BY <1>1, <1>2 DEF UnsolInit, HandlerAlive, NewestWait, OlderServed, EventsAccounted, ServedInOrder
<1>4. QED
  BY <1>1, <1>3 DEF QueueInv

\* The entry the work looks at is that of a codec or none.
LEMMA NextEventType ==
  ASSUME QueueTypes
  PROVE  NextEvent \in [n : Nat, addr : Codecs \cup {NoCodec}]
  BY NextPlaces DEF NextEvent, QueueTypes

\* Every step keeps the types.
LEMMA QueueTypesStep ==
  ASSUME QueueTypes, [UnsolNext]_unsolVars
  PROVE  QueueTypes'
<1> USE DEF QueueTypes, UnsolTypeOK
<1>1. CASE WorkStarts
  BY <1>1 DEF WorkStarts
<1>2. CASE WorkLocks
  BY <1>2 DEF WorkLocks
<1>3. CASE WorkSkips
  BY <1>3, NextPlaces DEF WorkSkips
<1>4. CASE WorkHandles
  <2>1. rp' \in 0..(QueueSize - 1)
    BY <1>4, NextPlaces DEF WorkHandles
  <2>2. served' \in Seq(Nat)
    BY <1>4, NextEventType DEF WorkHandles
  <2>3. handled' \in Codecs
    BY <1>4 DEF WorkHandles, Listens
  <2>4. QED
    BY <1>4, <2>1, <2>2, <2>3 DEF WorkHandles
<1>5. CASE HandlerReturns
  BY <1>5 DEF HandlerReturns
<1>6. CASE UnsolWorkEnds
  BY <1>6 DEF UnsolWorkEnds
<1>7. ASSUME NEW c \in Codecs, QueueEvent(c) PROVE QueueTypes'
  <2>1. wp' \in 0..(QueueSize - 1)
    BY <1>7, NextPlaces DEF QueueEvent
  <2>2. unsol_queue' \in [0..(QueueSize - 1) -> [n : Nat, addr : Codecs \cup {NoCodec}]]
    <3>1. [n |-> raised + 1, addr |-> c] \in [n : Nat, addr : Codecs \cup {NoCodec}]
      OBVIOUS
    <3>2. unsol_queue' = [unsol_queue EXCEPT ![wp'] = [n |-> raised + 1, addr |-> c]]
      BY <1>7 DEF QueueEvent
    <3>3. QED
      BY <2>1, <3>1, <3>2
  <2>3. raised' \in Nat /\ lapped' \in Nat
    BY <1>7, UnsolAssumption DEF QueueEvent
  <2>4. QED
    BY <1>7, <2>1, <2>2, <2>3 DEF QueueEvent
<1>8. ASSUME NEW c \in Codecs, AddDevice(c) PROVE QueueTypes'
  BY <1>8 DEF AddDevice
<1>9. ASSUME NEW c \in Codecs, Register(c) PROVE QueueTypes'
  BY <1>9 DEF Register
<1>10. ASSUME NEW c \in Codecs, RemoveDevice(c) PROVE QueueTypes'
  BY <1>10 DEF RemoveDevice
<1>11. ASSUME NEW c \in Codecs, FlushWork(c) PROVE QueueTypes'
  BY <1>11 DEF FlushWork
<1>12. CASE UNCHANGED unsolVars
  BY <1>12 DEF unsolVars
<1>13. QED
  BY <1>1, <1>2, <1>3, <1>4, <1>5, <1>6, <1>7, <1>8, <1>9, <1>10, <1>11, <1>12
     DEF UnsolNext, UnsolProcess

\* A handler is called only for a codec that is there, and a codec is freed only
\* when no work runs (flush_work in snd_hdac_bus_remove_device).
LEMMA HandlerStep ==
  ASSUME QueueTypes, HandlerAlive, [UnsolNext]_unsolVars
  PROVE  HandlerAlive'
<1> USE DEF HandlerAlive, QueueTypes, UnsolTypeOK
<1>1. CASE WorkStarts
  BY <1>1 DEF WorkStarts
<1>2. CASE WorkLocks
  BY <1>2 DEF WorkLocks
<1>3. CASE WorkSkips
  BY <1>3 DEF WorkSkips
<1>4. CASE WorkHandles
  BY <1>4 DEF WorkHandles, Listens
<1>5. CASE HandlerReturns
  BY <1>5 DEF HandlerReturns
<1>6. CASE UnsolWorkEnds
  BY <1>6 DEF UnsolWorkEnds
<1>7. ASSUME NEW c \in Codecs, QueueEvent(c) PROVE HandlerAlive'
  BY <1>7 DEF QueueEvent
<1>8. ASSUME NEW c \in Codecs, AddDevice(c) PROVE HandlerAlive'
  BY <1>8 DEF AddDevice
<1>9. ASSUME NEW c \in Codecs, Register(c) PROVE HandlerAlive'
  BY <1>9 DEF Register
<1>10. ASSUME NEW c \in Codecs, RemoveDevice(c) PROVE HandlerAlive'
  BY <1>10 DEF RemoveDevice
<1>11. ASSUME NEW c \in Codecs, FlushWork(c) PROVE HandlerAlive'
  BY <1>11 DEF FlushWork
<1>12. CASE UNCHANGED unsolVars
  BY <1>12 DEF unsolVars
<1>13. QED
  BY <1>1, <1>2, <1>3, <1>4, <1>5, <1>6, <1>7, <1>8, <1>9, <1>10, <1>11, <1>12
     DEF UnsolNext, UnsolProcess

-----------------------------------------------------------------------------

\* An event that comes in is the newest of those that wait; an overrun hides all.
LEMMA WriteKeepsOrder ==
  ASSUME QueueInv, NEW c \in Codecs, QueueEvent(c)
  PROVE  NewestWait' /\ OlderServed' /\ EventsAccounted'
<1> USE DEF QueueInv
<1>1. /\ wp' = (wp + 1) % QueueSize /\ rp' = rp /\ raised' = raised + 1
      /\ served' = served /\ skipped' = skipped
      /\ lapped' = IF InQueue = QueueSize - 1 THEN lapped + QueueSize ELSE lapped
      /\ unsol_queue' = [unsol_queue EXCEPT ![wp'] = [n |-> raised + 1, addr |-> c]]
  BY DEF QueueEvent
<1>2. /\ raised \in Nat /\ Len(served) \in Nat /\ skipped \in Nat /\ lapped \in Nat
      /\ \A i \in 1..Len(served) : served[i] \in Nat
  BY DEF QueueTypes
<1>3. /\ InQueue' = IF InQueue = QueueSize - 1 THEN 0 ELSE InQueue + 1
      /\ InQueue \in 0..(QueueSize - 1) /\ QueueSize \in Nat \ {0}
  BY <1>1, WriteMoves, Pointers
<1>8. /\ wp' \in 0..(QueueSize - 1)
      /\ InQueue < QueueSize - 1 => wp' = (rp + (InQueue + 1)) % QueueSize
  BY <1>1, WriteMoves
<1>9. /\ raised' = raised + 1 /\ served' = served /\ skipped' = skipped
      /\ lapped' = IF InQueue = QueueSize - 1 THEN lapped + QueueSize ELSE lapped
  BY <1>1
<1>4. NewestWait'
  <2>1. CASE InQueue = QueueSize - 1
    BY <1>3, <2>1 DEF NewestWait
  <2>2. CASE InQueue < QueueSize - 1
    <3> SUFFICES ASSUME NEW i \in 1..InQueue'
                 PROVE  unsol_queue'[(rp' + i) % QueueSize].n = raised' - InQueue' + i
      BY DEF NewestWait, Entry
    <3>0. /\ InQueue' = InQueue + 1 /\ i \in 1..(InQueue + 1)
          /\ rp' + i = rp + i /\ raised' - InQueue' + i = raised - InQueue + i
      BY <1>1, <1>2, <1>3, <2>2
    <3>1. (rp + i) % QueueSize \in 0..(QueueSize - 1)
      BY Pointers, ModRange
    <3>2. CASE i = InQueue + 1
      <4>1. (rp + i) % QueueSize = wp'
        BY <1>8, <2>2, <3>2
      <4>2. unsol_queue'[(rp + i) % QueueSize].n = raised + 1
        BY <1>1, <1>8, <4>1 DEF QueueTypes
      <4>3. QED
        BY <1>1, <1>2, <1>3, <3>0, <3>2, <4>2
    <3>3. CASE i \in 1..InQueue
      <4>1. (rp + i) % QueueSize # wp'
        BY <1>8, <2>2, <3>3, PlacesDiffer
      <4>2. unsol_queue'[(rp + i) % QueueSize] = unsol_queue[(rp + i) % QueueSize]
        BY <1>1, <3>1, <4>1 DEF QueueTypes
      <4>3. unsol_queue[(rp + i) % QueueSize].n = raised - InQueue + i
        BY <3>3 DEF NewestWait, Entry
      <4>4. QED
        BY <1>1, <3>0, <4>2, <4>3
    <3>4. QED
      BY <1>3, <3>0, <3>2, <3>3
  <2>3. QED
    BY <1>3, <2>1, <2>2
<1>5. OlderServed'
  <2>1. raised - InQueue <= raised' - InQueue'
    BY <1>2, <1>3, <1>9
  <2>2. InQueue' \in Int /\ raised' \in Int
    BY <1>2, <1>3, <1>9
  <2>3. \A i \in 1..Len(served) : served[i] <= raised' - InQueue'
    <3> SUFFICES ASSUME NEW i \in 1..Len(served) PROVE served[i] <= raised' - InQueue'
      OBVIOUS
    <3>1. served[i] <= raised - InQueue /\ served[i] \in Int
      BY <1>2 DEF OlderServed
    <3>2. raised - InQueue \in Int /\ raised' - InQueue' \in Int
      BY <1>2, <1>3, <2>2
    <3>3. QED
      BY <2>1, <3>1, <3>2
  <2>4. QED
    BY <1>9, <2>3 DEF OlderServed, ServedInOrder
<1>6. EventsAccounted'
  <2>1. raised = Len(served) + skipped + InQueue + lapped /\ ServedInOrder
    BY DEF EventsAccounted
  <2>2. raised' = Len(served') + skipped' + InQueue' + lapped'
    BY <1>2, <1>3, <1>9, <2>1
  <2>3. QED
    BY <1>9, <2>1, <2>2 DEF EventsAccounted, ServedInOrder
<1>7. QED
  BY <1>4, <1>5, <1>6

\* The oldest of those that wait is taken: it is newer than all handed over.
LEMMA ReadKeepsOrder ==
  ASSUME QueueInv, WorkSkips \/ WorkHandles
  PROVE  NewestWait' /\ OlderServed' /\ EventsAccounted'
<1> USE DEF QueueInv
<1>1. /\ rp # wp /\ rp' = (rp + 1) % QueueSize /\ wp' = wp
      /\ raised' = raised /\ lapped' = lapped /\ unsol_queue' = unsol_queue
  BY DEF WorkSkips, WorkHandles
<1>2. /\ raised \in Nat /\ Len(served) \in Nat /\ skipped \in Nat /\ lapped \in Nat
      /\ \A i \in 1..Len(served) : served[i] \in Nat
  BY DEF QueueTypes
<1>3. InQueue' = InQueue - 1 /\ InQueue \in Nat \ {0}
  BY <1>1, ReadMoves, Pointers
<1>8. \A i \in 1..(InQueue - 1) : (rp' + i) % QueueSize = (rp + (i + 1)) % QueueSize
  BY <1>1, ReadMoves
<1>9. raised' = raised /\ lapped' = lapped
  BY <1>1
<1>4. NewestWait'
  <2> SUFFICES ASSUME NEW i \in 1..(InQueue - 1)
               PROVE  unsol_queue[(rp' + i) % QueueSize].n = raised - (InQueue - 1) + i
    BY <1>1, <1>3 DEF NewestWait, Entry
  <2>1. i + 1 \in 1..InQueue
    BY <1>3
  <2>2. unsol_queue[(rp + (i + 1)) % QueueSize].n = raised - InQueue + (i + 1)
    BY <2>1 DEF NewestWait, Entry
  <2>3. (rp' + i) % QueueSize = (rp + (i + 1)) % QueueSize
    BY <1>8
  <2>4. raised - (InQueue - 1) + i = raised - InQueue + (i + 1)
    BY <1>2, <1>3
  <2>5. QED
    BY <2>2, <2>3, <2>4
<1>5. CASE WorkSkips
  <2>1. served' = served /\ skipped' = skipped + 1
    BY <1>5 DEF WorkSkips
  <2>2. OlderServed'
    BY <1>2, <1>3, <1>9, <2>1 DEF OlderServed, ServedInOrder
  <2>3. EventsAccounted'
    BY <1>2, <1>3, <1>9, <2>1 DEF EventsAccounted, ServedInOrder
  <2>4. QED
    BY <1>4, <2>2, <2>3
<1>6. CASE WorkHandles
  <2>1. served' = Append(served, NextEvent.n) /\ skipped' = skipped
    BY <1>6 DEF WorkHandles
  <2>2. NextEvent.n = raised - InQueue + 1
    BY <1>3 DEF NewestWait, Entry, NextEvent
  <2>3. /\ Len(served') = Len(served) + 1
        /\ served'[Len(served) + 1] = raised - InQueue + 1
        /\ \A i \in 1..Len(served) : served'[i] = served[i]
    BY <2>1, <2>2, NextEventType DEF QueueTypes
  <2>4. ServedInOrder'
    <3> SUFFICES ASSUME NEW i \in 1..(Len(served) + 1), NEW j \in 1..(Len(served) + 1), i < j
                 PROVE  served'[i] < served'[j]
      BY <2>3 DEF ServedInOrder
    <3>1. i \in 1..Len(served)
      BY <1>2
    <3>2. CASE j \in 1..Len(served)
      BY <2>3, <3>1, <3>2 DEF OlderServed, ServedInOrder
    <3>3. CASE j = Len(served) + 1
      BY <1>2, <1>3, <2>3, <3>1, <3>3 DEF OlderServed
    <3>4. QED
      BY <1>2, <3>2, <3>3
  <2>5. \A i \in 1..Len(served') : served'[i] <= raised' - InQueue'
    <3> SUFFICES ASSUME NEW i \in 1..(Len(served) + 1)
                 PROVE  served'[i] <= raised - (InQueue - 1)
      BY <1>3, <1>9, <2>3
    <3>1. CASE i \in 1..Len(served)
      BY <1>2, <1>3, <2>3, <3>1 DEF OlderServed
    <3>2. CASE i = Len(served) + 1
      BY <1>2, <1>3, <2>3, <3>2
    <3>3. QED
      BY <1>2, <3>1, <3>2
  <2>6. raised' = Len(served') + skipped' + InQueue' + lapped'
    BY <1>2, <1>3, <1>9, <2>1, <2>3 DEF EventsAccounted
  <2>7. QED
    BY <1>4, <2>4, <2>5, <2>6 DEF OlderServed, EventsAccounted
<1>7. QED
  BY <1>5, <1>6

\* All other steps leave the queue and what came out of it alone.
LEMMA OthersKeepOrder ==
  ASSUME QueueInv, UNCHANGED <<unsol_queue, wp, rp, raised, served, skipped, lapped>>
  PROVE  NewestWait' /\ OlderServed' /\ EventsAccounted'
<1>1. InQueue' = InQueue
  BY DEF InQueue
<1>2. QED
  BY <1>1 DEF QueueInv, NewestWait, Entry, OlderServed, EventsAccounted, ServedInOrder

\* QueueInv holds however interrupts, the work and the codecs' coming and going mix.
THEOREM QueueInvariant == UnsolSpec => []QueueInv
<1>1. ASSUME QueueInv, [UnsolNext]_unsolVars PROVE QueueInv'
  <2>1. QueueTypes' /\ HandlerAlive'
    BY <1>1, QueueTypesStep, HandlerStep DEF QueueInv
  <2>2. CASE \E c \in Codecs : QueueEvent(c)
    BY <1>1, <2>1, <2>2, WriteKeepsOrder DEF QueueInv
  <2>3. CASE WorkSkips \/ WorkHandles
    BY <1>1, <2>1, <2>3, ReadKeepsOrder DEF QueueInv
  <2>4. CASE UNCHANGED <<unsol_queue, wp, rp, raised, served, skipped, lapped>>
    BY <1>1, <2>1, <2>4, OthersKeepOrder DEF QueueInv
  <2>5. \/ \E c \in Codecs : QueueEvent(c)
        \/ WorkSkips \/ WorkHandles
        \/ UNCHANGED <<unsol_queue, wp, rp, raised, served, skipped, lapped>>
    BY <1>1 DEF UnsolNext, UnsolProcess, unsolVars, WorkStarts, WorkLocks, HandlerReturns,
                UnsolWorkEnds, AddDevice, Register, RemoveDevice, FlushWork
  <2>6. QED
    BY <2>2, <2>3, <2>4, <2>5
<1>2. QED
  BY QueueInvInit, <1>1, PTL DEF UnsolSpec

\* Every event is handed over once and in order, or for nobody, or waits, or is one of
\* the QueueSize that an overrun of the unchecked ring hides
\* (snd_hdac_bus_queue_event, snd_hdac_bus_process_unsol_events).
THEOREM EventsAreAccounted == UnsolSpec => []EventsAccounted
<1>1. QueueInv => EventsAccounted
  BY DEF QueueInv
<1>2. QED
  BY QueueInvariant, <1>1, PTL

\* A codec is never freed while its handler runs (snd_hdac_bus_remove_device waits for
\* the work after it has taken the codec out of the table).
THEOREM HandlerHasItsCodec == UnsolSpec => []HandlerHasCodec
<1>1. QueueInv => HandlerHasCodec
  BY DEF QueueInv, HandlerAlive, HandlerHasCodec
<1>2. QED
  BY QueueInvariant, <1>1, PTL

=============================================================================
