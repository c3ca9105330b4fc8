--------------------------- MODULE Ca0132_proofs ---------------------------
(***************************************************************************)
(* Proofs about three parts of the codec driver.                           *)
(*                                                                         *)
(* AcmKnob, for every size of a report and every range of the level:       *)
(* TypeOK, DetentsCounted and PutMoves, of the put that is under way, are  *)
(* inductive together; an accumulator within -1..1 is what makes Kept zero *)
(* when the direction changes.                                             *)
(*                                                                         *)
(* ChipIo, for any threads, addresses and values: a word goes to the       *)
(* address it is meant for (ValuesLand).  ChipInv ties what is left of a   *)
(* call to the addresses the chip and the driver hold, for the one thread  *)
(* that has chipio_mutex.                                                  *)
(*                                                                         *)
(* OutputSelect, for any number of puts, plugs and failures: the card is   *)
(* not left muted (Unmuted).  In MuteInv a function that mutes the DSP has *)
(* its unmuting among the steps that are left.                             *)
(*                                                                         *)
(* And the registers follow the settings (OutputFollows).  In FollowInv a  *)
(* register is right, or a step that will write it is among those left, or *)
(* a selection is due; that the step will then write what is asked for     *)
(* rests on laws of the programs (Obeys), which every function has and     *)
(* every step of one keeps: a branch comes after the switch it stands for, *)
(* a switch after a choice, and what fails ends where nothing is chosen.   *)
(***************************************************************************)
EXTENDS AcmKnob, ChipIo, OutputSelect, SequenceTheorems, WellFoundedInduction, TLAPS

\* C's division by two leaves a remainder of at most one, on the number's side
LEMMA HalfRemainder ==
  ASSUME NEW x \in Int
  PROVE  /\ Half(x) \in Int
         /\ x - Half(x) * 2 \in -1..1
         /\ x >= 0 => Half(x) >= 0
         /\ x <= 0 => Half(x) <= 0
         /\ x >= 2 => Half(x) >= 1
         /\ x <= -2 => Half(x) <= -1
  BY DEF Half

LEMMA KeptSteps ==
  ASSUME TypeOK, NEW dir \in Dirs, NEW steps \in 1..MaxSteps
  PROVE  /\ FirstSteps(dir, steps) \in Nat
         /\ FirstSteps(dir, steps) >= 1
         /\ dir # knob_dir => FirstSteps(dir, steps) >= 2
         /\ Kept(dir) = IF dir # knob_dir THEN 0 ELSE knob_acc
  BY KnobAssumption DEF TypeOK, FirstSteps, Kept, Half

LEMMA DeltaSum ==
  ASSUME TypeOK, NEW dir \in Dirs, NEW steps \in 1..MaxSteps
  PROVE  /\ NewAcc(dir, steps) \in Int
         /\ Delta(dir, steps) \in Int
         /\ NewAcc(dir, steps) - Delta(dir, steps) * 2 \in -1..1
         /\ Sign(dir) * Delta(dir, steps) >= 0
         /\ dir # knob_dir => Sign(dir) * Delta(dir, steps) >= 1
<1>1. /\ NewAcc(dir, steps) \in Int
      /\ dir = 0 => NewAcc(dir, steps) >= 0
      /\ dir = 1 => NewAcc(dir, steps) <= 0
      /\ dir = 0 /\ dir # knob_dir => NewAcc(dir, steps) >= 2
      /\ dir = 1 /\ dir # knob_dir => NewAcc(dir, steps) <= -2
  BY KeptSteps DEF NewAcc, Sign, TypeOK, Dirs
<1> QED
  BY <1>1, HalfRemainder DEF Delta, Sign, Dirs

\* The put under way moves the level it read the right way, and at once after a change
\* of direction.
PutMoves ==
  putting.on => /\ Sign(putting.dir) * (putting.to - putting.read) >= 0
                /\ putting.back /\ putting.read \in 1..(MaxLevel - 1) => putting.to # putting.read

KnobInv == TypeOK /\ DetentsCounted /\ PutMoves

\* What a report makes of the level
LEMMA TurnPuts ==
  ASSUME TypeOK, NEW dir \in Dirs, NEW steps \in 1..MaxSteps, Turn(dir, steps)
  PROVE  putting' \in PutType /\ PutMoves' /\ (dir # knob_dir => putting'.on)
<1> DEFINE delta == Delta(dir, steps)
           to == Clamp(level + delta)
<1>1. /\ delta \in Int /\ level \in 0..MaxLevel
      /\ Sign(dir) * delta >= 0 /\ (dir # knob_dir => Sign(dir) * delta >= 1)
  BY DeltaSum DEF TypeOK
<1>2. putting' = IF delta = 0 THEN NoPut
                 ELSE [on |-> TRUE, dir |-> dir, back |-> dir # knob_dir, read |-> level, to |-> to]
  BY DEF Turn
<1>3. to \in 0..MaxLevel
  BY <1>1, KnobAssumption DEF Clamp
<1>4. dir # knob_dir => delta # 0
  BY <1>1 DEF Sign, Dirs
<1> HIDE DEF delta
<1>5. /\ Sign(dir) * (to - level) >= 0
      /\ dir # knob_dir /\ level \in 1..(MaxLevel - 1) => to # level
  <2>1. CASE dir = 0
    BY <1>1, <2>1, KnobAssumption DEF Clamp, Sign
  <2>2. CASE dir = 1
    BY <1>1, <2>2, KnobAssumption DEF Clamp, Sign
  <2> QED
    BY <2>1, <2>2 DEF Dirs
<1> HIDE DEF to
<1>6. CASE delta = 0
  <2>1. putting' = NoPut
    BY <1>2, <1>6
  <2> QED
    BY <1>4, <1>6, <2>1, KnobAssumption DEF NoPut, PutType, PutMoves, Dirs
<1>7. CASE delta # 0
  <2>1. putting' = [on |-> TRUE, dir |-> dir, back |-> dir # knob_dir, read |-> level, to |-> to]
    BY <1>2, <1>7
  <2>2. putting' \in PutType
    BY <1>1, <1>3, <2>1 DEF PutType
  <2>3. putting'.on /\ putting'.dir = dir /\ putting'.back = (dir # knob_dir)
          /\ putting'.read = level /\ putting'.to = to
    BY <2>1
  <2>4. PutMoves'
    BY <1>5, <2>3 DEF PutMoves
  <2> QED
    BY <2>2, <2>3, <2>4
<1> QED
  BY <1>6, <1>7

LEMMA TurnKeeps ==
  ASSUME TypeOK, DetentsCounted, NEW dir \in Dirs, NEW steps \in 1..MaxSteps,
         Turn(dir, steps)
  PROVE  KnobInv'
<1>1. TypeOK'
  <2>1. putting' \in PutType
    BY TurnPuts
  <2> QED
    BY <2>1, KeptSteps, DeltaSum DEF Turn, TypeOK
<1>2. DetentsCounted'
  <2>0. /\ NewAcc(dir, steps) = Kept(dir) + Sign(dir) * FirstSteps(dir, steps)
        /\ knob_dir' = dir
        /\ knob_acc' = NewAcc(dir, steps) - Delta(dir, steps) * 2
        /\ turned' = FirstSteps(dir, steps) + (IF dir # knob_dir THEN 0 ELSE turned)
        /\ moved' = Delta(dir, steps) + (IF dir # knob_dir THEN 0 ELSE moved)
    BY DEF Turn, NewAcc
  <2>1. CASE dir = knob_dir
    <3>0. /\ turned \in Nat /\ moved \in Int /\ knob_acc \in Int
          /\ Kept(dir) = knob_acc
          /\ turned' = FirstSteps(dir, steps) + turned
          /\ moved' = Delta(dir, steps) + moved
      BY <2>0, <2>1, KeptSteps DEF TypeOK
    <3>1. CASE dir = 0
      <4>1. turned = 2 * moved + knob_acc
        BY <2>1, <3>0, <3>1 DEF DetentsCounted, Sign
      <4>2. turned' = 2 * moved' + knob_acc'
        BY <2>0, <3>0, <3>1, <4>1, KeptSteps, DeltaSum DEF Sign
      <4>3. turned' \in Int
        BY <3>0, KeptSteps
      <4> QED
        BY <2>0, <3>1, <4>2, <4>3 DEF DetentsCounted, Sign
    <3>2. CASE dir = 1
      BY <2>0, <2>1, <3>2, KeptSteps, DeltaSum DEF TypeOK, DetentsCounted, Sign
    <3> QED
      BY <3>1, <3>2 DEF Dirs
  <2>2. CASE dir # knob_dir
    <3>1. CASE dir = 0
      BY <2>0, <2>2, <3>1, KeptSteps, DeltaSum DEF DetentsCounted, Sign
    <3>2. CASE dir = 1
      BY <2>0, <2>2, <3>2, KeptSteps, DeltaSum DEF DetentsCounted, Sign
    <3> QED
      BY <3>1, <3>2 DEF Dirs
  <2> QED
    BY <2>1, <2>2
<1> QED
  BY <1>1, <1>2, TurnPuts DEF KnobInv

LEMMA KnobInductive ==
  ASSUME KnobInv, [Next]_vars
  PROVE  KnobInv'
<1>1. CASE PutLevel \/ DropLevel
  <2>1. /\ putting' = NoPut /\ UNCHANGED <<knob_dir, knob_acc, turned, moved>>
        /\ level' = putting.to \/ level' = level
    BY <1>1 DEF PutLevel, DropLevel
  <2>2. level' \in 0..MaxLevel /\ NoPut \in PutType
    BY <2>1, KnobAssumption DEF KnobInv, TypeOK, PutType, NoPut, Dirs
  <2>3. TypeOK'
    BY <2>1, <2>2 DEF KnobInv, TypeOK
  <2>4. DetentsCounted' /\ PutMoves'
    BY <2>1 DEF KnobInv, DetentsCounted, PutMoves, NoPut, Sign
  <2> QED
    BY <2>3, <2>4 DEF KnobInv
<1>2. CASE Put
  BY <1>2 DEF Put, KnobInv, TypeOK, DetentsCounted, PutMoves, Sign
<1>3. CASE UNCHANGED vars
  BY <1>3 DEF vars, KnobInv, TypeOK, DetentsCounted, PutMoves, Sign
<1> QED
  BY <1>1, <1>2, <1>3, TurnKeeps DEF Next, KnobInv

LEMMA KnobInitially == Init => KnobInv
<1>1. NoPut \in PutType /\ ~NoPut.on
  BY KnobAssumption DEF NoPut, PutType, Dirs
<1> QED
  BY <1>1, KnobAssumption DEF Init, KnobInv, TypeOK, DetentsCounted, PutMoves, Sign, Dirs

LEMMA KnobAlways == Spec => []KnobInv
  BY KnobInitially, KnobInductive, PTL DEF Spec

\* The accumulator never holds more than one detent, and the level, and what is put of
\* it, stays within the range of the control (ae9_acm_knob).
THEOREM KnobTypeCorrect == Spec => []TypeOK
<1>1. KnobInv => TypeOK
  BY DEF KnobInv
<1> QED
  BY <1>1, KnobAlways, PTL

\* No detent is lost and none is counted twice, however many a report holds
\* (ae9_acm_knob).
THEOREM DetentsAreCounted == Spec => []DetentsCounted
<1>1. KnobInv => DetentsCounted
  BY DEF KnobInv
<1> QED
  BY <1>1, KnobAlways, PTL

\* A change of direction is always followed by a put, which moves the level at once, and
\* no put of the knob moves it the wrong way, from the level that was read, whatever
\* other programs put at any time (ae9_acm_knob).
THEOREM KnobMovesRightAway == Spec => MovesRightAway
<1>1. ASSUME KnobInv, NEW dir \in Dirs, NEW steps \in 1..MaxSteps, Turn(dir, steps), dir # knob_dir
      PROVE  putting'.on
  BY <1>1, TurnPuts DEF KnobInv
<1>2. ASSUME KnobInv, PutLevel
      PROVE  TheRightWay /\ (putting.back => AtOnce)
  BY <1>2 DEF KnobInv, PutMoves, PutLevel, TheRightWay, AtOnce
<1>3. KnobInv =>
        [/\ \A dir \in Dirs, steps \in 1..MaxSteps :
              Turn(dir, steps) /\ dir # knob_dir => putting'.on
         /\ PutLevel => TheRightWay /\ (putting.back => AtOnce)]_vars
  BY <1>1, <1>2
<1> QED
  BY <1>3, KnobAlways, PTL DEF MovesRightAway

-----------------------------------------------------------------------------
(* ChipIo: the verbs of a call, and what may follow each of them.          *)

ParamNames == {"dac2port", "asi", "conn", "rate"}
AddressVerbs == {"low", "high", "data_low", "data_high", "post_read", "read_data",
                 "mem_low", "mem_high", "mem_data", "mem_read", "pll_data"}
\* Verbs sent while chipio_mutex is held, its release included, and the others
InsideVerbs == AddressVerbs \cup {"status", "ex_id", "ex_value", "select_conn", "conn_rate",
                                  "remap", "end", "unlock"}
OutsideVerbs == {"lock", "select_stream", "stream_control", "reload"}
Verbs == [verb : InsideVerbs \cup OutsideVerbs, arg : Nat \cup ParamNames]
\* Verbs whose failure ends an access, and verbs a call may end with
MayFail == {"low", "high", "data_low", "data_high", "post_read", "status"}
LastVerbs == {"unlock", "stream_control", "reload"}

\* An access begins: nothing of it is in the chip yet.
Entry(v) == v.verb \in {"low", "mem_low"} \/ v = V("status", 1)

Follows(v, w) ==
  CASE v.verb = "lock"      -> Entry(w)
    [] v.verb = "low"       -> w = V("high", v.arg)
    [] v.verb = "high"      -> w \in {V("data_low", v.arg), V("post_read", v.arg)}
    [] v.verb = "data_low"  -> w = V("data_high", v.arg)
    [] v.verb = "data_high" -> w = V("data_low", v.arg + 4) \/ (w = End /\ v.arg + 4 # LoadedFlag)
    [] v.verb = "post_read" -> w = V("status", 0)
    [] v.verb = "status"    -> IF v.arg = 1 THEN w.verb = "ex_id" ELSE w.verb = "read_data"
    [] v.verb = "read_data" -> w = End /\ v.arg + 4 # LoadedFlag
    [] v.verb = "ex_id"     -> \/ w = V("ex_value", v.arg)
                               \/ v.arg = "conn" /\ w.verb = "select_conn"
                               \/ v.arg = "rate" /\ w.verb = "conn_rate"
    [] v.verb \in {"ex_value", "select_conn", "conn_rate"} -> w = End
    [] v.verb = "mem_low"   -> w = V("mem_high", v.arg)
    [] v.verb = "mem_high"  -> w \in {V("mem_data", v.arg), V("mem_read", v.arg), V("pll_data", v.arg)}
    [] v.verb = "pll_data"  -> w.verb \in {"unlock", "mem_low"}
    [] v.verb = "mem_data"  -> w.verb = "unlock"
    [] v.verb = "mem_read"  -> w.verb = "remap"
    [] v.verb = "remap"     -> w.verb = "low"
    [] v.verb = "end"       -> w.verb \in {"low", "unlock"}
    [] v.verb = "unlock"    -> w.verb \in {"lock", "reload"}
    [] v.verb = "select_stream" -> w.verb = "stream_control"
    [] OTHER -> FALSE

\* Verb by verb, and a read's three verbs together
Chain(s) ==
  /\ s \in Seq(Verbs)
  /\ \A i \in 1..Len(s) :
       /\ s[i].verb \in AddressVerbs => s[i].arg \in Nat
       /\ i < Len(s) => Follows(s[i], s[i + 1])
       /\ s[i].verb = "post_read" => i + 2 \in 1..Len(s) /\ s[i + 2] = V("read_data", s[i].arg)
\* A verb that may fail has the end of its access after it.
Ending(s) == \A i \in 1..Len(s) : s[i].verb \in MayFail => \E j \in (i + 1)..Len(s) : s[j] = End
\* What is left of a call
ChipRest(s) == Chain(s) /\ Ending(s) /\ (s # <<>> => s[Len(s)].verb \in LastVerbs)

-----------------------------------------------------------------------------
(* The chip, the driver's copy and what the holder of the mutex sends next *)

\* The driver's copy is the chip's address or unknown; without power it may be stale.
\* The flag that is asked for after a loss of power is not what it remembers.
AtRest ==
  /\ curr_chip_addx # LoadedFlag
  /\ power = "on" /\ curr_chip_addx # InvalidAddress => curr_chip_addx = InTheChip

Moving == {"high", "data_low", "data_high", "post_read", "read_data"}
Knows(s) ==
  LET v == s[1] IN
  /\ v.verb = "high" => chip.low = v.arg % HalfWord
  /\ v.verb \in {"data_low", "data_high", "post_read"} =>
       curr_chip_addx = v.arg /\ InTheChip = v.arg
  /\ v.verb = "data_high" => chip.data = v.arg
  /\ v.verb = "status" /\ v.arg # 1 =>
       /\ Len(s) > 1 /\ s[2].verb = "read_data" /\ s[2].arg \in Nat
       /\ chip.read = s[2].arg /\ curr_chip_addx = s[2].arg /\ InTheChip = s[2].arg + 4
  /\ v.verb = "read_data" => chip.read = v.arg /\ curr_chip_addx = v.arg /\ InTheChip = v.arg + 4
  /\ v.verb = "ex_value" => chip.ex = v.arg
  /\ v.verb = "select_conn" => chip.ex = "conn"
  /\ v.verb = "conn_rate" => chip.ex = "rate"
  /\ v.verb = "mem_high" => chip.mem8 = v.arg % HalfWord
  /\ v.verb \in {"mem_data", "mem_read", "pll_data"} => chip.mem8hi * HalfWord + chip.mem8 = v.arg
  /\ v.verb \notin Moving /\ (v.verb = "status" => v.arg = 1) => AtRest

ChipFields == {"low", "high", "data", "read", "ex", "conn", "stream", "mem8", "mem8hi"}
ChipTypes ==
  /\ curr_chip_addx \in {InvalidAddress} \cup Nat
  /\ chipio_mutex \in ChipThreads \cup {NoThread}
  /\ power \in {"on", "lost", "resuming"}
  /\ verbs \in [ChipThreads -> Seq(Verbs)]
  /\ chip = [f \in ChipFields |-> chip[f]]
  /\ \A t \in ChipThreads : ChipRest(verbs[t])

\* Who is inside, and that its next verb finds in the chip what the verbs before it put there
Holding ==
  \A t \in ChipThreads :
    IF chipio_mutex = t THEN /\ verbs[t] # <<>> /\ verbs[t][1].verb \in InsideVerbs
                             /\ Knows(verbs[t])
                        ELSE verbs[t] # <<>> => verbs[t][1].verb \in OutsideVerbs

\* After a loss of power one thread asks for the flag, and nobody else is in the chip.
Powering ==
  /\ power = "lost" => \A t \in ChipThreads : verbs[t] = <<>>
  /\ power = "resuming" =>
       /\ \A t, u \in ChipThreads : verbs[t] # <<>> /\ verbs[u] # <<>> => t = u
       /\ \A t \in ChipThreads : \A i \in 1..Len(verbs[t]) :
            verbs[t][i].verb = "low" => verbs[t][i].arg = LoadedFlag
  /\ power # "resuming" =>
       \A t \in ChipThreads : \A i \in 1..Len(verbs[t]) : verbs[t][i].verb # "reload"

ChipInv ==
  /\ ChipTypes /\ Holding /\ Powering
  /\ chipio_mutex = NoThread => AtRest
  /\ astray \subseteq {"selector"}

-----------------------------------------------------------------------------

\* A set of numbers that is not empty has a least one.
LEMMA LeastOf ==
  ASSUME NEW S, S \subseteq Nat, S # {}
  PROVE  \E x \in S : \A y \in S : x <= y
<1>1. PICK x \in S : \A y \in S : ~(<<y, x>> \in OpToRel(<, Nat))
  BY WFMin, NatLessThanWellFounded
<1>2. \A y \in S : ~(y < x)
  BY <1>1 DEF OpToRel
<1>3. QED
  BY <1>2

\* r is what is left of s after some verbs.
Suffix(r, s) ==
  \E n \in 0..Len(s) : Len(r) = Len(s) - n /\ \A i \in 1..Len(r) : r[i] = s[i + n]

\* What is left of a call stays what is left of a call, however many verbs are dropped.
LEMMA SuffixRest ==
  ASSUME NEW s, NEW r, ChipRest(s), r \in Seq(Verbs), Suffix(r, s)
  PROVE  ChipRest(r) /\ \A i \in 1..Len(r) : \E j \in 1..Len(s) : r[i] = s[j]
<1>1. PICK n \in 0..Len(s) : Len(r) = Len(s) - n /\ \A i \in 1..Len(r) : r[i] = s[i + n]
  BY DEF Suffix
<1>2. Len(s) \in Nat /\ Len(r) \in Nat /\ n \in Nat /\ Len(r) = Len(s) - n
  BY <1>1 DEF ChipRest, Chain
<1>3. \A i \in 1..Len(r) : i + n \in 1..Len(s) /\ r[i] = s[i + n]
  BY <1>1, <1>2
<1>4. Chain(r)
  <2> SUFFICES ASSUME NEW i \in 1..Len(r)
               PROVE  /\ r[i].verb \in AddressVerbs => r[i].arg \in Nat
                      /\ i < Len(r) => Follows(r[i], r[i + 1])
                      /\ r[i].verb = "post_read" =>
                           i + 2 \in 1..Len(r) /\ r[i + 2] = V("read_data", r[i].arg)
    BY DEF Chain
  <2>1. /\ s[i + n].verb \in AddressVerbs => s[i + n].arg \in Nat
        /\ i + n < Len(s) => Follows(s[i + n], s[(i + n) + 1])
        /\ s[i + n].verb = "post_read" =>
             (i + n) + 2 \in 1..Len(s) /\ s[(i + n) + 2] = V("read_data", s[i + n].arg)
    BY <1>3 DEF ChipRest, Chain
  <2>2. i < Len(r) => i + n < Len(s) /\ r[i + 1] = s[(i + n) + 1]
    <3>1. i < Len(r) => i + 1 \in 1..Len(r) /\ i + n < Len(s) /\ (i + 1) + n = (i + n) + 1
      BY <1>2
    <3>2. QED
      BY <1>3, <3>1
  <2>3. (i + n) + 2 \in 1..Len(s) => i + 2 \in 1..Len(r) /\ r[i + 2] = s[(i + n) + 2]
    <3>1. (i + n) + 2 \in 1..Len(s) => i + 2 \in 1..Len(r) /\ (i + 2) + n = (i + n) + 2
      BY <1>2
    <3>2. QED
      BY <1>3, <3>1
  <2>4. r[i] = s[i + n]
    BY <1>3
  <2>5. QED
    BY <2>1, <2>2, <2>3, <2>4
<1>5. Ending(r)
  <2> SUFFICES ASSUME NEW i \in 1..Len(r), r[i].verb \in MayFail
               PROVE  \E j \in (i + 1)..Len(r) : r[j] = End
    BY DEF Ending
  <2>1. PICK j \in (i + n + 1)..Len(s) : s[j] = End
    BY <1>3 DEF ChipRest, Ending
  <2>2. j - n \in (i + 1)..Len(r) /\ j - n \in 1..Len(r) /\ (j - n) + n = j
    BY <1>2
  <2>3. QED
    BY <1>3, <2>1, <2>2
<1>6. r # <<>> => r[Len(r)].verb \in LastVerbs
  <2> SUFFICES ASSUME r # <<>> PROVE r[Len(r)].verb \in LastVerbs
    OBVIOUS
  <2>1. Len(r) # 0
    OBVIOUS
  <2>2. Len(r) \in 1..Len(r) /\ Len(r) + n = Len(s) /\ Len(s) # 0
    BY <1>2, <2>1
  <2>3. s # <<>>
    BY <2>2
  <2>4. r[Len(r)] = s[Len(s)]
    BY <1>3, <2>2
  <2>5. QED
    BY <2>3, <2>4 DEF ChipRest
<1>7. QED
  BY <1>3, <1>4, <1>5, <1>6 DEF ChipRest

\* One verb further
LEMMA TailRest ==
  ASSUME NEW s, ChipRest(s), s # <<>>
  PROVE  /\ ChipRest(Tail(s)) /\ Suffix(Tail(s), s) /\ Tail(s) \in Seq(Verbs) /\ s[1] \in Verbs
         /\ IF Tail(s) = <<>> THEN s[1].verb \in LastVerbs
                              ELSE Len(s) > 1 /\ Tail(s)[1] = s[2] /\ Follows(s[1], s[2])
<1>1. s \in Seq(Verbs) /\ Len(s) \in Nat /\ Len(s) # 0 /\ s[1] \in Verbs
  BY DEF ChipRest, Chain
<1>2. Tail(s) \in Seq(Verbs) /\ Len(Tail(s)) = Len(s) - 1 /\ \A i \in 1..Len(Tail(s)) : Tail(s)[i] = s[i + 1]
  BY <1>1
<1>3. Suffix(Tail(s), s)
  <2>1. 1 \in 0..Len(s)
    BY <1>1
  <2>2. QED
    BY <1>2, <2>1 DEF Suffix
<1>4. ChipRest(Tail(s))
  BY <1>2, <1>3, SuffixRest
<1>5. CASE Tail(s) = <<>>
  <2>1. Len(Tail(s)) = 0
    <3>1. \A r : r = <<>> => Len(r) = 0
      OBVIOUS
    <3>2. QED
      BY <1>5, <3>1, Zenon
  <2> DEFINE m == Len(s)
             k == Len(Tail(s))
  <2>2. m = 1
    <3>1. m \in Nat /\ k = m - 1 /\ k = 0
      BY <1>1, <1>2, <2>1, Zenon
    <3> HIDE DEF m, k
    <3>2. QED
      BY <3>1
  <2>3. QED
    BY <1>1, <1>2, <1>3, <1>4, <1>5, <2>2 DEF ChipRest
<1>6. CASE Tail(s) # <<>>
  <2>1. Len(Tail(s)) # 0 /\ Len(Tail(s)) \in Nat
    BY <1>2, <1>6
  <2>2. Len(s) > 1 /\ 1 \in 1..Len(Tail(s)) /\ 1 \in 1..Len(s) /\ 1 + 1 = 2
    BY <1>1, <1>2, <2>1
  <2>3. Tail(s)[1] = s[2] /\ Follows(s[1], s[2])
    BY <1>2, <2>2 DEF ChipRest, Chain
  <2>4. QED
    BY <1>1, <1>2, <1>3, <1>4, <1>6, <2>2, <2>3
<1>7. QED
  BY <1>5, <1>6

\* Some verbs further
LEMMA SubRest ==
  ASSUME NEW s, ChipRest(s), NEW n \in 0..Len(s)
  PROVE  LET r == SubSeq(s, n + 1, Len(s))
         IN  /\ ChipRest(r) /\ Suffix(r, s) /\ r \in Seq(Verbs) /\ Len(r) = Len(s) - n
             /\ n < Len(s) => r # <<>> /\ r[1] = s[n + 1]
<1> DEFINE r == SubSeq(s, n + 1, Len(s))
<1>1. s \in Seq(Verbs) /\ Len(s) \in Nat /\ n \in Nat /\ n <= Len(s)
  BY DEF ChipRest, Chain
<1>2. r \in Seq(Verbs) /\ Len(r) = Len(s) - n /\ \A i \in 1..Len(r) : r[i] = s[i + n]
  <2>1. n + 1 \in Int /\ Len(s) \in Int /\ \A i \in (n + 1)..Len(s) : s[i] \in Verbs
    BY <1>1
  <2>2. /\ r \in Seq(Verbs) /\ Len(r) = IF n + 1 <= Len(s) THEN Len(s) - (n + 1) + 1 ELSE 0
        /\ \A i \in 1..(Len(s) - (n + 1) + 1) : r[i] = s[(n + 1) + i - 1]
    BY <2>1, SubSeqProperties
  <2> HIDE DEF r
  <2>3. Len(r) = Len(s) - n /\ Len(s) - (n + 1) + 1 = Len(s) - n
    BY <1>1, <2>2
  <2>4. \A i \in 1..Len(r) : r[i] = s[i + n]
    <3>1. \A i \in 1..Len(r) : (n + 1) + i - 1 = i + n
      BY <1>1, <2>3
    <3>2. QED
      BY <2>2, <2>3, <3>1
  <2>5. QED
    BY <2>2, <2>3, <2>4
<1> HIDE DEF r
<1>3. Suffix(r, s)
  BY <1>1, <1>2 DEF Suffix
<1>4. ChipRest(r)
  BY <1>2, <1>3, SuffixRest
<1>5. n < Len(s) => r # <<>> /\ r[1] = s[n + 1]
  <2>1. n < Len(s) => Len(r) # 0 /\ 1 \in 1..Len(r) /\ 1 + n = n + 1
    BY <1>1, <1>2
  <2>2. QED
    BY <1>2, <2>1
<1>6. QED
  BY <1>2, <1>3, <1>4, <1>5 DEF r

\* The verbs after the next end of an access: another access, or the release.
LEMMA EndedRest ==
  ASSUME NEW s, ChipRest(s), s # <<>>, s[1].verb \in MayFail
  PROVE  /\ ChipRest(Ended(s)) /\ Suffix(Ended(s), s) /\ Ended(s) \in Seq(Verbs)
         /\ Ended(s) # <<>> /\ Ended(s)[1].verb \in {"low", "unlock"}
<1>1. s \in Seq(Verbs) /\ Len(s) \in Nat /\ Len(s) # 0
  BY DEF ChipRest, Chain
<1> DEFINE I == {i \in 1..Len(s) : s[i] = End}
           k == SelectInSeq(s, LAMBDA v : v = End)
<1>2. k \in 1..Len(s) /\ s[k] = End
  <2>1. 1 \in 1..Len(s)
    BY <1>1
  <2>2. PICK j \in (1 + 1)..Len(s) : s[j] = End
    BY <2>1 DEF ChipRest, Ending
  <2>3. j \in I
    BY <1>1, <2>2
  <2>4. I # {} /\ I \subseteq Nat
    BY <2>3
  <2>5. \E x \in I : \A y \in I : x <= y
    BY <2>4, LeastOf
  <2>6. Min(I) \in I
    BY <2>5 DEF Min
  <2>7. k = Min(I)
    BY <2>4 DEF SelectInSeq
  <2>8. QED
    BY <2>6, <2>7
<1>3. Ended(s) = SubSeq(s, k + 1, Len(s))
  BY DEF Ended
<1> HIDE DEF k
<1>4. k \in 0..Len(s) /\ k < Len(s)
  <2>1. k # Len(s)
    BY <1>1, <1>2 DEF ChipRest, End, V, LastVerbs
  <2>2. QED
    BY <1>1, <1>2, <2>1
<1>5. Follows(End, s[k + 1])
  BY <1>2, <1>4 DEF ChipRest, Chain
<1>6. s[k + 1].verb \in {"low", "unlock"}
  BY <1>5 DEF Follows, End, V
<1>7. QED
  BY <1>3, <1>4, <1>6, SubRest

-----------------------------------------------------------------------------
(* The calls, piece by piece.                                              *)

\* A piece from the verb v to the verb w, and one of a call of the driver
Linked(s, v, w) == Chain(s) /\ s # <<>> /\ s[1] = v /\ s[Len(s)] = w
CallVerbs == {v \in Verbs : v.verb # "reload"}
Path(s, v, w) == Linked(s, v, w) /\ s \in Seq(CallVerbs)

LEMMA JoinLinked ==
  ASSUME NEW s, NEW t, NEW v, NEW w, NEW x, NEW y, Linked(s, v, w), Linked(t, x, y), Follows(w, x)
  PROVE  Linked(s \o t, v, y)
<1> DEFINE r == s \o t
           m == Len(s)
           n == Len(t)
<1>1. /\ s \in Seq(Verbs) /\ t \in Seq(Verbs) /\ m \in Nat \ {0} /\ n \in Nat \ {0}
  BY DEF Linked, Chain
<1>2. r \in Seq(Verbs) /\ Len(r) = m + n
  BY <1>1, ConcatProperties
<1>3. /\ \A i \in 1..m : r[i] = s[i]
      /\ \A i \in 1..n : r[m + i] = t[i]
  BY <1>1, <1>2
<1>4. /\ \A i \in 1..m : i < m => Follows(s[i], s[i + 1])
      /\ \A i \in 1..n : i < n => Follows(t[i], t[i + 1])
      /\ \A i \in 1..m : s[i].verb = "post_read" => i + 2 \in 1..m /\ s[i + 2] = V("read_data", s[i].arg)
      /\ \A i \in 1..n : t[i].verb = "post_read" => i + 2 \in 1..n /\ t[i + 2] = V("read_data", t[i].arg)
      /\ \A i \in 1..m : (s[i].verb \in AddressVerbs => s[i].arg \in Nat)
      /\ \A i \in 1..n : (t[i].verb \in AddressVerbs => t[i].arg \in Nat)
      /\ s[1] = v /\ s[m] = w /\ t[1] = x /\ t[n] = y
  BY DEF Linked, Chain
<1> HIDE DEF r, m, n
<1>5. ASSUME NEW i \in 1..(m + n)
      PROVE  /\ r[i].verb \in AddressVerbs => r[i].arg \in Nat
             /\ i < m + n => Follows(r[i], r[i + 1])
             /\ r[i].verb = "post_read" => i + 2 \in 1..(m + n) /\ r[i + 2] = V("read_data", r[i].arg)
  <2>1. CASE i < m
    <3>1. i \in 1..m /\ i + 1 \in 1..m /\ r[i] = s[i] /\ r[i + 1] = s[i + 1]
      BY <1>1, <1>3, <2>1
    <3>2. r[i].verb = "post_read" => i + 2 \in 1..(m + n) /\ r[i + 2] = V("read_data", r[i].arg)
      <4>1. i + 2 \in 1..m => i + 2 \in 1..(m + n) /\ r[i + 2] = s[i + 2]
        BY <1>1, <1>3
      <4>2. QED
        BY <1>4, <3>1, <4>1
    <3>3. QED
      BY <1>4, <2>1, <3>1, <3>2
  <2>2. CASE i = m
    <3>0. i \in 1..m /\ 1 \in 1..n /\ m \in 1..m
      BY <1>1, <2>2
    <3>1. i \in 1..m /\ r[i] = s[m] /\ r[i + 1] = t[1]
      BY <1>3, <2>2, <3>0
    <3>2. s[i].verb # "post_read"
      <4>1. ~(i + 2 \in 1..m)
        BY <1>1, <2>2
      <4>2. QED
        BY <1>4, <3>1, <4>1
    <3>3. QED
      BY <1>4, <2>2, <3>1, <3>2
  <2>3. CASE i > m
    <3> DEFINE k == i - m
    <3>1. k \in 1..n /\ i = m + k /\ (k < n <=> i < m + n)
      BY <1>1, <2>3
    <3>2. r[i] = t[k]
      BY <1>3, <3>1
    <3>3. i < m + n => k + 1 \in 1..n /\ r[i + 1] = t[k + 1]
      <4>1. i < m + n => k + 1 \in 1..n /\ i + 1 = m + (k + 1)
        BY <1>1, <3>1
      <4>2. QED
        BY <1>3, <4>1
    <3>4. k + 2 \in 1..n => i + 2 \in 1..(m + n) /\ r[i + 2] = t[k + 2]
      <4>1. k + 2 \in 1..n => i + 2 \in 1..(m + n) /\ i + 2 = m + (k + 2)
        BY <1>1, <3>1
      <4>2. QED
        BY <1>3, <4>1
    <3> HIDE DEF k
    <3>5. QED
      BY <1>4, <3>1, <3>2, <3>3, <3>4
  <2>4. QED
    BY <1>1, <2>1, <2>2, <2>3
<1>6. r # <<>> /\ r[1] = v /\ r[Len(r)] = y
  <2>1. 1 \in 1..m /\ n \in 1..n /\ Len(r) = m + n /\ Len(r) # 0
    BY <1>1, <1>2
  <2>2. r # <<>>
    BY <2>1
  <2>3. QED
    BY <1>3, <1>4, <2>1, <2>2
<1>7. Linked(r, v, y)
  BY <1>2, <1>5, <1>6 DEF Linked, Chain
<1>8. QED
  BY <1>7 DEF r

LEMMA Join ==
  ASSUME NEW s, NEW t, NEW v, NEW w, NEW x, NEW y, Path(s, v, w), Path(t, x, y), Follows(w, x)
  PROVE  Path(s \o t, v, y)
<1>1. Linked(s \o t, v, y)
  BY JoinLinked DEF Path
<1>2. s \o t \in Seq(CallVerbs)
  BY DEF Path
<1>3. QED
  BY <1>1, <1>2 DEF Path

\* A verb by itself, but for one that is followed by two others.
LEMMA OneVerb ==
  ASSUME NEW v \in Verbs, v.verb \notin {"reload", "post_read"}, v.verb \in AddressVerbs => v.arg \in Nat
  PROVE  Path(<<v>>, v, v)
<1>1. <<v>> \in Seq(Verbs) /\ <<v>> \in Seq(CallVerbs) /\ Len(<<v>>) = 1 /\ <<v>>[1] = v /\ <<v>> # <<>>
  BY DEF CallVerbs
<1>2. \A i \in 1..1 : i = 1
  OBVIOUS
<1>3. QED
  BY <1>1, <1>2 DEF Path, Linked, Chain

\* What ends with the end of an access has it behind every verb.
LEMMA EndingByLast ==
  ASSUME NEW s, s \in Seq(Verbs), s # <<>>, s[Len(s)] = End
  PROVE  Ending(s)
<1>1. Len(s) \in Nat
  OBVIOUS
<1>2. ASSUME NEW i \in 1..Len(s), s[i].verb \in MayFail
      PROVE  \E j \in (i + 1)..Len(s) : s[j] = End
  <2>1. i # Len(s)
    BY <1>2 DEF MayFail, End, V
  <2>2. Len(s) \in (i + 1)..Len(s)
    BY <1>1, <2>1
  <2>3. QED
    BY <2>2
<1>3. QED
  BY <1>2 DEF Ending

LEMMA JoinEnding ==
  ASSUME NEW s, NEW t, s \in Seq(Verbs), t \in Seq(Verbs), Ending(s), Ending(t)
  PROVE  Ending(s \o t)
<1> DEFINE r == s \o t
           m == Len(s)
           n == Len(t)
<1>1. m \in Nat /\ n \in Nat /\ Len(r) = m + n
  OBVIOUS
<1>2. /\ \A i \in 1..m : r[i] = s[i]
      /\ \A i \in 1..n : r[m + i] = t[i]
  BY <1>1
<1> HIDE DEF r
<1>3. ASSUME NEW i \in 1..(m + n), r[i].verb \in MayFail
      PROVE  \E j \in (i + 1)..(m + n) : r[j] = End
  <2>1. CASE i \in 1..m
    <3>1. PICK j \in (i + 1)..m : s[j] = End
      BY <1>2, <1>3, <2>1 DEF Ending
    <3>2. j \in 1..m /\ j \in (i + 1)..(m + n)
      BY <1>1
    <3>3. QED
      BY <1>2, <3>1, <3>2
  <2>2. CASE ~(i \in 1..m)
    <3>1. i - m \in 1..n /\ m + (i - m) = i
      BY <1>1, <2>2
    <3>2. PICK j \in ((i - m) + 1)..n : t[j] = End
      BY <1>2, <1>3, <3>1 DEF Ending
    <3>3. j \in 1..n /\ m + j \in (i + 1)..(m + n)
      BY <1>1, <3>1
    <3>4. QED
      BY <1>2, <3>2, <3>3
  <2>3. QED
    BY <2>1, <2>2
<1>4. QED
  BY <1>1, <1>3 DEF Ending, r

\* A verb that may be anywhere in a piece
PlainCall(v) == v \in Verbs /\ v.verb \notin {"reload", "post_read"} /\ (v.verb \in AddressVerbs => v.arg \in Nat)

LEMMA TwoVerbs ==
  ASSUME NEW v, NEW w, PlainCall(v), PlainCall(w), Follows(v, w)
  PROVE  Path(<<v, w>>, v, w)
<1> DEFINE s == <<v, w>>
<1>1. s \in Seq(Verbs) /\ s \in Seq(CallVerbs) /\ Len(s) = 2 /\ s[1] = v /\ s[2] = w /\ s # <<>>
  BY DEF PlainCall, CallVerbs
<1> HIDE DEF s
<1>2. \A i \in 1..2 : i = 1 \/ i = 2
  OBVIOUS
<1>3. Path(s, v, w)
  BY <1>1, <1>2 DEF Path, Linked, Chain, PlainCall
<1>4. QED
  BY <1>3 DEF s

LEMMA FourVerbs ==
  ASSUME NEW v, NEW w, NEW x, NEW y, v \in Verbs, PlainCall(w), PlainCall(x), PlainCall(y),
         v.verb # "reload", v.verb \in AddressVerbs => v.arg \in Nat,
         v.verb = "post_read" => x = V("read_data", v.arg),
         Follows(v, w), Follows(w, x), Follows(x, y)
  PROVE  Path(<<v, w, x, y>>, v, y)
<1> DEFINE s == <<v, w, x, y>>
<1>1. s \in Seq(Verbs) /\ s \in Seq(CallVerbs) /\ Len(s) = 4 /\ s[1] = v /\ s[2] = w /\ s[3] = x /\ s[4] = y /\ s # <<>>
  BY DEF PlainCall, CallVerbs
<1> HIDE DEF s
<1>2. \A i \in 1..4 : i = 1 \/ i = 2 \/ i = 3 \/ i = 4
  OBVIOUS
<1>3. ASSUME NEW i \in 1..4
      PROVE  /\ (s[i].verb \in AddressVerbs => s[i].arg \in Nat)
             /\ i < 4 => Follows(s[i], s[i + 1])
             /\ s[i].verb = "post_read" => i + 2 \in 1..4 /\ s[i + 2] = V("read_data", s[i].arg)
  <2>1. CASE i = 1
    <3>1. i + 1 = 2 /\ i + 2 = 3 /\ 3 \in 1..4
      BY <2>1
    <3>2. QED
      BY <1>1, <2>1, <3>1
  <2>2. CASE i = 2
    <3>1. i + 1 = 3
      BY <2>2
    <3>2. QED
      BY <1>1, <2>2, <3>1 DEF PlainCall
  <2>3. CASE i = 3
    <3>1. i + 1 = 4
      BY <2>3
    <3>2. QED
      BY <1>1, <2>3, <3>1 DEF PlainCall
  <2>4. CASE i = 4
    BY <1>1, <2>4 DEF PlainCall
  <2>5. QED
    BY <1>2, <2>1, <2>2, <2>3, <2>4
<1>4. Path(s, v, y)
  BY <1>1, <1>3 DEF Path, Linked, Chain
<1>5. QED
  BY <1>4 DEF s

\* Under the mutex
LEMMA LockedIs ==
  ASSUME NEW c, NEW v, NEW w, Path(c, v, w), Ending(c), Entry(v), Follows(w, V("unlock", 0))
  PROVE  Path(Locked(c), V("lock", 0), V("unlock", 0)) /\ Ending(Locked(c))
<1> DEFINE l == V("lock", 0)
           u == V("unlock", 0)
<1>1. PlainCall(l) /\ PlainCall(u) /\ l.verb = "lock"
  BY DEF V, PlainCall, Verbs, InsideVerbs, OutsideVerbs, AddressVerbs
<1>2. Follows(l, v)
  BY <1>1 DEF Follows
<1>3. Path(<<l>>, l, l) /\ Path(<<u>>, u, u)
  BY <1>1, OneVerb DEF PlainCall
<1>4. Ending(<<l>>) /\ Ending(<<u>>)
  <2>1. Len(<<l>>) = 1 /\ <<l>>[1] = l /\ Len(<<u>>) = 1 /\ <<u>>[1] = u
    OBVIOUS
  <2>2. \A i \in 1..1 : i = 1
    OBVIOUS
  <2>3. l.verb \notin MayFail /\ u.verb \notin MayFail
    BY DEF V, MayFail
  <2>4. QED
    BY <2>1, <2>2, <2>3 DEF Ending
<1> HIDE DEF l, u
<1>5. Path(<<l>> \o c, l, w)
  BY <1>2, <1>3, Join
<1>6. Path((<<l>> \o c) \o <<u>>, l, u)
  BY <1>3, <1>5, Join DEF u
<1>7. <<l>> \in Seq(Verbs) /\ <<u>> \in Seq(Verbs) /\ c \in Seq(Verbs)
  BY <1>3 DEF Path, Linked, Chain
<1>8. <<l>> \o c \in Seq(Verbs) /\ Ending(<<l>> \o c)
  <2>1. <<l>> \o c \in Seq(Verbs)
    BY <1>7
  <2>2. Ending(<<l>> \o c)
    BY <1>4, <1>7, JoinEnding
  <2>3. QED
    BY <2>1, <2>2
<1>9. Ending((<<l>> \o c) \o <<u>>)
  BY <1>4, <1>7, <1>8, JoinEnding
<1>10. QED
  BY <1>6, <1>9 DEF Locked, l, u

WholeCall(s) ==
  ChipRest(s) /\ s # <<>> /\ s[1].verb \in OutsideVerbs /\ s \in Seq(CallVerbs)

LEMMA LockedCall ==
  ASSUME NEW c, NEW v, NEW w, Path(c, v, w), Ending(c), Entry(v), Follows(w, V("unlock", 0))
  PROVE  WholeCall(Locked(c))
<1>1. Path(Locked(c), V("lock", 0), V("unlock", 0)) /\ Ending(Locked(c))
  BY LockedIs
<1>2. V("lock", 0).verb \in OutsideVerbs /\ V("unlock", 0).verb \in LastVerbs
  BY DEF V, OutsideVerbs, LastVerbs
<1>3. QED
  BY <1>1, <1>2 DEF WholeCall, ChipRest, Path, Linked

\* The verbs that carry an address
LEMMA PlainAddress ==
  ASSUME NEW a \in Nat, NEW verb \in AddressVerbs \ {"post_read"}
  PROVE  PlainCall(V(verb, a))
  BY DEF V, PlainCall, Verbs, InsideVerbs, OutsideVerbs, AddressVerbs

LEMMA PlainEnd == PlainCall(End) /\ PlainCall(V("status", 0)) /\ PlainCall(V("status", 1)) /\ PlainCall(V("remap", 0))
  BY DEF V, End, PlainCall, Verbs, InsideVerbs, OutsideVerbs, AddressVerbs

LEMMA WriteIs ==
  ASSUME NEW a \in Nat
  PROVE  /\ Path(Address(a), V("low", a), V("high", a))
         /\ Path(Data(a), V("data_low", a), V("data_high", a))
         /\ a + 4 # LoadedFlag => /\ Path(WriteNoMutex(a), V("low", a), End)
                                  /\ Ending(WriteNoMutex(a))
<1>1. PlainCall(V("low", a)) /\ PlainCall(V("high", a)) /\ PlainCall(V("data_low", a)) /\ PlainCall(V("data_high", a))
  BY PlainAddress DEF AddressVerbs
<1>2. /\ Follows(V("low", a), V("high", a)) /\ Follows(V("high", a), V("data_low", a))
      /\ Follows(V("data_low", a), V("data_high", a))
      /\ a + 4 # LoadedFlag => Follows(V("data_high", a), End)
  BY DEF Follows, V
<1>3. Path(Address(a), V("low", a), V("high", a)) /\ Path(Data(a), V("data_low", a), V("data_high", a))
  BY <1>1, <1>2, TwoVerbs DEF Address, Data
<1>4. Path(<<End>>, End, End)
  BY PlainEnd, OneVerb DEF PlainCall
<1>5. ASSUME a + 4 # LoadedFlag
      PROVE  Path(WriteNoMutex(a), V("low", a), End) /\ Ending(WriteNoMutex(a))
  <2>1. Path(Address(a) \o Data(a), V("low", a), V("data_high", a))
    BY <1>2, <1>3, Join
  <2>2. Path((Address(a) \o Data(a)) \o <<End>>, V("low", a), End)
    BY <1>2, <1>4, <1>5, <2>1, Join
  <2>3. Path(WriteNoMutex(a), V("low", a), End)
    BY <2>2 DEF WriteNoMutex
  <2>4. QED
    BY <2>3, EndingByLast DEF Path, Linked, Chain
<1>6. QED
  BY <1>3, <1>5

\* Words that are written and read
LEMMA WordCalls ==
  ASSUME NEW a \in ChipAddresses
  PROVE  WholeCall(WriteLocked(a)) /\ WholeCall(WriteMultiple(a))
<1>1. a \in Nat /\ a + 4 \in Nat /\ a + 4 # LoadedFlag /\ (a + 4) + 4 # LoadedFlag
  BY ChipAssumption
<1>2. Entry(V("low", a)) /\ Follows(End, V("unlock", 0))
  BY DEF Entry, Follows, V, End
<1>3. WholeCall(WriteLocked(a))
  BY <1>1, <1>2, WriteIs, LockedCall DEF WriteLocked
<1>4. WholeCall(WriteMultiple(a))
  <2> DEFINE b == a + 4
             c == ((Address(a) \o Data(a)) \o Data(b)) \o <<End>>
  <2>1. /\ Path(Address(a), V("low", a), V("high", a)) /\ Path(Data(a), V("data_low", a), V("data_high", a))
        /\ Path(Data(b), V("data_low", b), V("data_high", b)) /\ Path(<<End>>, End, End)
    BY <1>1, WriteIs, PlainEnd, OneVerb DEF PlainCall
  <2>2. /\ Follows(V("high", a), V("data_low", a)) /\ Follows(V("data_high", a), V("data_low", b))
        /\ Follows(V("data_high", b), End)
    BY <1>1 DEF Follows, V
  <2> HIDE DEF b
  <2>3. Path(Address(a) \o Data(a), V("low", a), V("data_high", a))
    BY <2>1, <2>2, Join
  <2>4. Path((Address(a) \o Data(a)) \o Data(b), V("low", a), V("data_high", b))
    BY <2>1, <2>2, <2>3, Join
  <2>5. Path(c, V("low", a), End)
    BY <2>1, <2>2, <2>4, Join
  <2>6. Ending(c)
    BY <2>5, EndingByLast DEF Path, Linked, Chain
  <2> HIDE DEF c
  <2>7. WholeCall(Locked(c))
    BY <1>2, <2>5, <2>6, LockedCall
  <2>8. QED
    BY <2>7 DEF WriteMultiple, c, b
<1>5. QED
  BY <1>3, <1>4

\* A read, of any word
LEMMA ReadIs ==
  ASSUME NEW a \in Nat, a + 4 # LoadedFlag
  PROVE  /\ Path(Read(a), V("lock", 0), V("unlock", 0)) /\ Ending(Read(a)) /\ WholeCall(Read(a))
<1> DEFINE r == <<V("post_read", a), V("status", 0), V("read_data", a), End>>
           c == Address(a) \o r
<1>1. Path(r, V("post_read", a), End)
  <2>1. /\ V("post_read", a) \in Verbs /\ V("post_read", a).verb # "reload"
        /\ V("post_read", a).arg = a
    BY DEF V, Verbs, InsideVerbs, AddressVerbs
  <2>2. PlainCall(V("status", 0)) /\ PlainCall(V("read_data", a)) /\ PlainCall(End)
    BY PlainEnd, PlainAddress DEF AddressVerbs
  <2>3. /\ Follows(V("post_read", a), V("status", 0)) /\ Follows(V("status", 0), V("read_data", a))
        /\ Follows(V("read_data", a), End)
    BY DEF Follows, V
  <2>4. QED
    BY <2>1, <2>2, <2>3, FourVerbs
<1>2. Follows(V("high", a), V("post_read", a)) /\ Entry(V("low", a)) /\ Follows(End, V("unlock", 0))
  BY DEF Follows, Entry, V, End
<1> HIDE DEF r
<1>3. Path(c, V("low", a), End)
  BY <1>1, <1>2, WriteIs, Join
<1>4. Ending(c)
  BY <1>3, EndingByLast DEF Path, Linked, Chain
<1> HIDE DEF c
<1>5. Path(Locked(c), V("lock", 0), V("unlock", 0)) /\ Ending(Locked(c)) /\ WholeCall(Locked(c))
  BY <1>2, <1>3, <1>4, LockedIs, LockedCall
<1>6. QED
  BY <1>5 DEF Read, c, r

\* Parameters, and the two of a rate
LEMMA ParamCalls ==
  /\ \A p \in {"dac2port", "asi"} : WholeCall(ControlParam(p))
  /\ \A c \in {1, 2} : WholeCall(ConnRate(c))
<1> DEFINE st == V("status", 1)
           conn(c) == <<st, V("ex_id", "conn"), V("select_conn", c), End>>
           rate(c) == <<st, V("ex_id", "rate"), V("conn_rate", c), End>>
<1>1. PlainCall(st) /\ PlainCall(End) /\ Entry(st) /\ Follows(End, V("unlock", 0)) /\ st.verb = "status"
  BY PlainEnd DEF Entry, Follows, V, End
<1>2. ASSUME NEW p \in {"dac2port", "asi"} PROVE WholeCall(ControlParam(p))
  <2>1. PlainCall(V("ex_id", p)) /\ PlainCall(V("ex_value", p))
    BY DEF V, PlainCall, Verbs, InsideVerbs, AddressVerbs, ParamNames
  <2>2. Follows(st, V("ex_id", p)) /\ Follows(V("ex_id", p), V("ex_value", p)) /\ Follows(V("ex_value", p), End)
    BY DEF Follows, V
  <2>3. Path(<<st, V("ex_id", p), V("ex_value", p), End>>, st, End)
    BY <1>1, <2>1, <2>2, FourVerbs DEF PlainCall
  <2>4. Path(LongParam(p), st, End)
    BY <2>3 DEF LongParam
  <2>5. Ending(LongParam(p))
    BY <2>4, EndingByLast DEF Path, Linked, Chain
  <2> HIDE DEF st
  <2>6. QED
    BY <1>1, <2>4, <2>5, LockedCall DEF ControlParam
<1>3. ASSUME NEW c \in {1, 2} PROVE WholeCall(ConnRate(c))
  <2>1. PlainCall(V("ex_id", "conn")) /\ PlainCall(V("select_conn", c)) /\ PlainCall(V("ex_id", "rate")) /\ PlainCall(V("conn_rate", c))
    BY DEF V, PlainCall, Verbs, InsideVerbs, AddressVerbs, ParamNames
  <2>2. /\ Follows(st, V("ex_id", "conn")) /\ Follows(V("ex_id", "conn"), V("select_conn", c))
        /\ Follows(V("select_conn", c), End)
        /\ Follows(st, V("ex_id", "rate")) /\ Follows(V("ex_id", "rate"), V("conn_rate", c))
        /\ Follows(V("conn_rate", c), End)
    BY DEF Follows, V
  <2>3. Path(conn(c), st, End) /\ Path(rate(c), st, End)
    BY <1>1, <2>1, <2>2, FourVerbs DEF PlainCall
  <2>4. Ending(conn(c)) /\ Ending(rate(c))
    BY <2>3, EndingByLast DEF Path, Linked, Chain
  <2> DEFINE l == V("lock", 0)
             u == V("unlock", 0)
  <2>5. /\ l.verb \in OutsideVerbs /\ u.verb \in LastVerbs /\ Follows(u, l)
    BY DEF V, OutsideVerbs, LastVerbs, Follows
  <2> HIDE DEF st, conn, rate
  <2>6. /\ Path(Locked(conn(c)), l, u) /\ Ending(Locked(conn(c)))
        /\ Path(Locked(rate(c)), l, u) /\ Ending(Locked(rate(c)))
    BY <1>1, <2>3, <2>4, LockedIs
  <2> HIDE DEF l, u
  <2> DEFINE s == Locked(conn(c)) \o Locked(rate(c))
  <2>7. Path(s, l, u)
    BY <2>5, <2>6, Join
  <2>8. Ending(s)
    BY <2>6, JoinEnding DEF Path, Linked, Chain
  <2>9. ConnRate(c) = s
    BY DEF ConnRate, conn, rate, st
  <2> HIDE DEF s
  <2>10. WholeCall(s)
    BY <2>5, <2>7, <2>8 DEF WholeCall, ChipRest, Path, Linked
  <2>11. QED
    BY <2>9, <2>10
<1>4. QED
  BY <1>2, <1>3

\* Verbs that do not fail need no end.
LEMMA SureEnding ==
  ASSUME NEW v, NEW w, v.verb \notin MayFail, w.verb \notin MayFail
  PROVE  Ending(<<v>>) /\ Ending(<<v, w>>)
<1>1. /\ Len(<<v>>) = 1 /\ <<v>>[1] = v
      /\ Len(<<v, w>>) = 2 /\ <<v, w>>[1] = v /\ <<v, w>>[2] = w
  OBVIOUS
<1>2. (\A i \in 1..1 : i = 1) /\ (\A i \in 1..2 : i = 1 \/ i = 2)
  OBVIOUS
<1>3. QED
  BY <1>1, <1>2 DEF Ending

\* The 8051's memory and the PLL
LEMMA MemoryIs ==
  ASSUME NEW a \in Nat
  PROVE  /\ Path(Address8051(a), V("mem_low", a), V("mem_high", a)) /\ Ending(Address8051(a))
         /\ Path(WritePll(a), V("mem_low", a), V("pll_data", a)) /\ Ending(WritePll(a))
         /\ WholeCall(WriteExram(a))
<1>1. PlainCall(V("mem_low", a)) /\ PlainCall(V("mem_high", a)) /\ PlainCall(V("mem_data", a)) /\ PlainCall(V("pll_data", a))
  BY PlainAddress DEF AddressVerbs
<1>2. /\ Follows(V("mem_low", a), V("mem_high", a)) /\ Follows(V("mem_high", a), V("mem_data", a))
      /\ Follows(V("mem_high", a), V("pll_data", a)) /\ Follows(V("mem_data", a), V("unlock", 0))
      /\ Entry(V("mem_low", a))
  BY DEF Follows, V, Entry
<1>3. /\ V("mem_low", a).verb \notin MayFail /\ V("mem_high", a).verb \notin MayFail
      /\ V("mem_data", a).verb \notin MayFail /\ V("pll_data", a).verb \notin MayFail
  BY DEF V, MayFail
<1>4. Path(Address8051(a), V("mem_low", a), V("mem_high", a)) /\ Ending(Address8051(a))
  BY <1>1, <1>2, <1>3, TwoVerbs, SureEnding DEF Address8051
<1>5. /\ Path(<<V("mem_data", a)>>, V("mem_data", a), V("mem_data", a)) /\ Ending(<<V("mem_data", a)>>)
      /\ Path(<<V("pll_data", a)>>, V("pll_data", a), V("pll_data", a)) /\ Ending(<<V("pll_data", a)>>)
  BY <1>1, <1>3, OneVerb, SureEnding DEF PlainCall
<1>6. Path(WritePll(a), V("mem_low", a), V("pll_data", a)) /\ Ending(WritePll(a))
  <2>1. Path(Address8051(a) \o <<V("pll_data", a)>>, V("mem_low", a), V("pll_data", a))
    BY <1>2, <1>4, <1>5, Join
  <2>2. Ending(Address8051(a) \o <<V("pll_data", a)>>)
    BY <1>4, <1>5, JoinEnding DEF Path, Linked, Chain
  <2>3. QED
    BY <2>1, <2>2 DEF WritePll
<1>7. WholeCall(WriteExram(a))
  <2> DEFINE c == Address8051(a) \o <<V("mem_data", a)>>
  <2>1. Path(c, V("mem_low", a), V("mem_data", a))
    BY <1>2, <1>4, <1>5, Join
  <2>2. Ending(c)
    BY <1>4, <1>5, JoinEnding DEF Path, Linked, Chain
  <2> HIDE DEF c
  <2>3. WholeCall(Locked(c))
    BY <1>2, <2>1, <2>2, LockedCall
  <2>4. QED
    BY <2>3 DEF WriteExram, c
<1>8. QED
  BY <1>4, <1>6, <1>7

LEMMA ClocksCall == WholeCall(EnableClocks)
<1>1. 0 \in Nat /\ 5 \in Nat /\ 6 \in Nat
  OBVIOUS
<1>2. /\ Path(WritePll(0), V("mem_low", 0), V("pll_data", 0)) /\ Ending(WritePll(0))
      /\ Path(WritePll(5), V("mem_low", 5), V("pll_data", 5)) /\ Ending(WritePll(5))
      /\ Path(WritePll(6), V("mem_low", 6), V("pll_data", 6)) /\ Ending(WritePll(6))
  BY <1>1, MemoryIs
<1>3. /\ Follows(V("pll_data", 0), V("mem_low", 5)) /\ Follows(V("pll_data", 5), V("mem_low", 6))
      /\ Follows(V("pll_data", 6), V("unlock", 0)) /\ Entry(V("mem_low", 0))
  BY DEF Follows, V, Entry
<1> DEFINE c == (WritePll(0) \o WritePll(5)) \o WritePll(6)
<1>4. Path(WritePll(0) \o WritePll(5), V("mem_low", 0), V("pll_data", 5))
  BY <1>2, <1>3, Join
<1>5. Path(c, V("mem_low", 0), V("pll_data", 6))
  BY <1>2, <1>3, <1>4, Join
<1>6. Ending(WritePll(0) \o WritePll(5))
  BY <1>2, JoinEnding DEF Path, Linked, Chain
<1>7. Ending(c)
  BY <1>2, <1>4, <1>6, JoinEnding DEF Path, Linked, Chain
<1> HIDE DEF c
<1>8. WholeCall(Locked(c))
  BY <1>3, <1>5, <1>7, LockedCall
<1>9. QED
  BY <1>8 DEF EnableClocks, c

LEMMA RemapCall ==
  ASSUME NEW a \in ChipAddresses
  PROVE  WholeCall(RemapStream(a))
<1>1. a \in Nat /\ a + 4 \in Nat /\ a + 4 # LoadedFlag /\ (a + 4) + 4 # LoadedFlag
  BY ChipAssumption
<1> DEFINE b == a + 4
           r == <<V("mem_read", a), V("remap", 0)>>
           c == ((Address8051(a) \o r) \o WriteNoMutex(a)) \o WriteNoMutex(b)
<1>2. /\ Path(WriteNoMutex(a), V("low", a), End) /\ Path(WriteNoMutex(b), V("low", b), End)
      /\ Path(Address8051(a), V("mem_low", a), V("mem_high", a))
  BY <1>1, WriteIs, MemoryIs
<1>3. /\ Follows(V("mem_high", a), V("mem_read", a)) /\ Follows(V("mem_read", a), V("remap", 0))
      /\ Follows(V("remap", 0), V("low", a)) /\ Follows(End, V("low", b))
      /\ Follows(End, V("unlock", 0)) /\ Entry(V("mem_low", a))
  BY DEF Follows, V, End, Entry
<1>4. Path(r, V("mem_read", a), V("remap", 0))
  BY <1>1, <1>3, PlainAddress, PlainEnd, TwoVerbs DEF AddressVerbs
<1> HIDE DEF b, r
<1>5. Path(Address8051(a) \o r, V("mem_low", a), V("remap", 0))
  BY <1>2, <1>3, <1>4, Join
<1>6. Path((Address8051(a) \o r) \o WriteNoMutex(a), V("mem_low", a), End)
  BY <1>2, <1>3, <1>5, Join
<1>7. Path(c, V("mem_low", a), End)
  BY <1>2, <1>3, <1>6, Join
<1>8. Ending(c)
  BY <1>7, EndingByLast DEF Path, Linked, Chain
<1> HIDE DEF c
<1>9. WholeCall(Locked(c))
  BY <1>3, <1>7, <1>8, LockedCall
<1>10. QED
  BY <1>9 DEF RemapStream, c, b, r

LEMMA StreamCall ==
  ASSUME NEW s \in {3, 4}
  PROVE  WholeCall(StreamControl(s))
<1> DEFINE v == V("select_stream", s)
           w == V("stream_control", s)
<1>1. PlainCall(v) /\ PlainCall(w)
  BY DEF V, PlainCall, Verbs, OutsideVerbs, InsideVerbs, AddressVerbs
<1>2. /\ Follows(v, w) /\ v.verb \in OutsideVerbs /\ w.verb \in LastVerbs
      /\ v.verb \notin MayFail /\ w.verb \notin MayFail
  BY DEF Follows, V, OutsideVerbs, LastVerbs, MayFail
<1> HIDE DEF v, w
<1>3. Path(<<v, w>>, v, w) /\ Ending(<<v, w>>)
  BY <1>1, <1>2, TwoVerbs, SureEnding
<1> DEFINE c == <<v, w>>
<1>4. StreamControl(s) = c
  BY DEF StreamControl, v, w
<1> HIDE DEF c
<1>5. Path(c, v, w) /\ Ending(c)
  BY <1>3 DEF c
<1>6. QED
  BY <1>2, <1>4, <1>5 DEF WholeCall, ChipRest, Path, Linked

\* Every call of the driver
LEMMA CallsAreWhole ==
  ASSUME NEW call \in ChipCalls
  PROVE  WholeCall(call)
<1>1. 1 \in Nat /\ HalfWord + 2 \in Nat /\ (\A a \in ChipAddresses : a \in Nat /\ a + 4 # LoadedFlag)
  BY ChipAssumption
<1>2. CASE call \in {WriteLocked(a) : a \in ChipAddresses} \cup {WriteMultiple(a) : a \in ChipAddresses}
  BY <1>2, WordCalls
<1>3. CASE call \in {Read(a) : a \in ChipAddresses}
  BY <1>1, <1>3, ReadIs
<1>4. CASE call \in {ControlParam(p) : p \in {"dac2port", "asi"}} \cup {ConnRate(c) : c \in {1, 2}}
  BY <1>4, ParamCalls
<1>5. CASE call \in {StreamControl(s) : s \in {3, 4}}
  BY <1>5, StreamCall
<1>6. CASE call \in {WriteExram(a) : a \in {1, HalfWord + 2}}
  BY <1>1, <1>6, MemoryIs
<1>7. CASE call = EnableClocks
  BY <1>7, ClocksCall
<1>8. CASE call \in {RemapStream(a) : a \in ChipAddresses}
  BY <1>8, RemapCall
<1>9. QED
  BY <1>2, <1>3, <1>4, <1>5, <1>6, <1>7, <1>8 DEF ChipCalls

\* The question after a loss of power, and the initialisation behind it
FlagVerbs == {v \in Verbs : v.verb = "low" => v.arg = LoadedFlag}
Question == Read(LoadedFlag) \o <<V("reload", 0)>>

LEMMA QuestionIs ==
  ChipRest(Question) /\ Question # <<>> /\ Question[1].verb \in OutsideVerbs /\ Question \in Seq(FlagVerbs)
<1> DEFINE f == LoadedFlag
           q == <<V("reload", 0)>>
<1>1. f \in Nat /\ f + 4 # f
  BY ChipAssumption DEF LoadedFlag
<1>2. Path(Read(f), V("lock", 0), V("unlock", 0)) /\ Ending(Read(f))
  BY <1>1, ReadIs
<1>3. Linked(q, V("reload", 0), V("reload", 0)) /\ Ending(q)
  <2>1. V("reload", 0) \in Verbs /\ V("reload", 0).verb = "reload"
    BY DEF V, Verbs, OutsideVerbs
  <2>2. V("reload", 0).verb \notin MayFail /\ V("reload", 0).verb \notin AddressVerbs
    BY DEF V, MayFail, AddressVerbs
  <2>3. q \in Seq(Verbs) /\ Len(q) = 1 /\ q[1] = V("reload", 0) /\ q # <<>>
    BY <2>1
  <2> HIDE DEF q
  <2>4. \A i \in 1..1 : i = 1
    OBVIOUS
  <2>5. QED
    BY <2>1, <2>2, <2>3, <2>4 DEF Linked, Chain, Ending
<1>4. Follows(V("unlock", 0), V("reload", 0))
  BY DEF Follows, V
<1>5. Linked(Question, V("lock", 0), V("reload", 0))
  BY <1>2, <1>3, <1>4, JoinLinked DEF Path, Question
<1>6. Ending(Question)
  BY <1>2, <1>3, JoinEnding DEF Path, Linked, Chain, Question
<1>7. V("lock", 0).verb \in OutsideVerbs /\ V("reload", 0).verb \in LastVerbs
  BY DEF V, OutsideVerbs, LastVerbs
<1>8. Question \in Seq(FlagVerbs)
  <2>1. /\ V("lock", 0) \in FlagVerbs /\ V("unlock", 0) \in FlagVerbs /\ V("low", f) \in FlagVerbs
        /\ V("high", f) \in FlagVerbs /\ V("post_read", f) \in FlagVerbs /\ V("status", 0) \in FlagVerbs
        /\ V("read_data", f) \in FlagVerbs /\ End \in FlagVerbs /\ V("reload", 0) \in FlagVerbs
    BY <1>1 DEF FlagVerbs, V, End, Verbs, InsideVerbs, OutsideVerbs, AddressVerbs
  <2> DEFINE r == <<V("post_read", f), V("status", 0), V("read_data", f), End>>
  <2>2. /\ <<V("lock", 0)>> \in Seq(FlagVerbs) /\ <<V("unlock", 0)>> \in Seq(FlagVerbs)
        /\ Address(f) \in Seq(FlagVerbs) /\ r \in Seq(FlagVerbs) /\ q \in Seq(FlagVerbs)
    BY <2>1 DEF Address
  <2> HIDE DEF r, q, f
  <2>3. Address(f) \o r \in Seq(FlagVerbs)
    BY <2>2
  <2>4. <<V("lock", 0)>> \o (Address(f) \o r) \in Seq(FlagVerbs)
    BY <2>2, <2>3
  <2>5. Locked(Address(f) \o r) \in Seq(FlagVerbs)
    BY <2>2, <2>4 DEF Locked
  <2>6. Locked(Address(f) \o r) \o q \in Seq(FlagVerbs)
    BY <2>2, <2>5
  <2>7. QED
    BY <2>6 DEF Question, Read, r, q, f
<1>9. QED
  BY <1>5, <1>6, <1>7, <1>8 DEF ChipRest, Linked

-----------------------------------------------------------------------------
(* Each action keeps ChipInv.                                              *)

\* A thread goes on with r: what it is in the middle of keeps its shape.
GoesOn(t, r) ==
  /\ verbs' \in [ChipThreads -> Seq(Verbs)] /\ (\A u \in ChipThreads : ChipRest(verbs'[u]))
  /\ verbs'[t] = r /\ (\A u \in ChipThreads \ {t} : verbs'[u] = verbs[u])

LEMMA GoingOn ==
  ASSUME ChipInv, NEW t \in ChipThreads, NEW r, ChipRest(r), verbs' = [verbs EXCEPT ![t] = r]
  PROVE  GoesOn(t, r)
<1>1. r \in Seq(Verbs) /\ verbs \in [ChipThreads -> Seq(Verbs)] /\ \A u \in ChipThreads : ChipRest(verbs[u])
  BY DEF ChipInv, ChipTypes, ChipRest, Chain
<1>2. verbs'[t] = r /\ (\A u \in ChipThreads \ {t} : verbs'[u] = verbs[u]) /\ verbs' \in [ChipThreads -> Seq(Verbs)]
  BY <1>1
<1>3. QED
  BY <1>1, <1>2 DEF GoesOn

LEMMA PoweringKept ==
  ASSUME ChipInv, NEW t \in ChipThreads, NEW r, GoesOn(t, r), power' = power, verbs[t] # <<>>,
         \A i \in 1..Len(r) : \/ \E j \in 1..Len(verbs[t]) : r[i] = verbs[t][j]
                              \/ r[i].verb \notin {"low", "reload"}
  PROVE  Powering'
<1>1. power # "lost"
  BY DEF ChipInv, Powering
<1>2. ASSUME power = "resuming"
      PROVE  /\ \A u, w \in ChipThreads : verbs'[u] # <<>> /\ verbs'[w] # <<>> => u = w
             /\ \A u \in ChipThreads : \A i \in 1..Len(verbs'[u]) :
                  verbs'[u][i].verb = "low" => verbs'[u][i].arg = LoadedFlag
  <2>1. \A u \in ChipThreads : verbs'[u] # <<>> => verbs[u] # <<>>
    BY DEF GoesOn
  <2>2. \A u \in ChipThreads \ {t} : \A i \in 1..Len(verbs'[u]) :
          verbs'[u][i].verb = "low" => verbs'[u][i].arg = LoadedFlag
    BY <1>2 DEF GoesOn, ChipInv, Powering
  <2>3. \A i \in 1..Len(r) : r[i].verb = "low" => r[i].arg = LoadedFlag
    BY <1>2 DEF ChipInv, Powering
  <2>4. QED
    BY <1>2, <2>1, <2>2, <2>3 DEF GoesOn, ChipInv, Powering
<1>3. ASSUME power # "resuming"
      PROVE  \A u \in ChipThreads : \A i \in 1..Len(verbs'[u]) : verbs'[u][i].verb # "reload"
  <2>1. \A u \in ChipThreads \ {t} : \A i \in 1..Len(verbs'[u]) : verbs'[u][i].verb # "reload"
    BY <1>3 DEF GoesOn, ChipInv, Powering
  <2>2. \A i \in 1..Len(r) : r[i].verb # "reload"
    BY <1>3 DEF ChipInv, Powering
  <2>3. QED
    BY <2>1, <2>2 DEF GoesOn
<1>4. QED
  BY <1>1, <1>2, <1>3 DEF Powering

\* What the chip and the copy hold stays known while neither changes but for the stream's selector.
LEMMA KnownKept ==
  ASSUME curr_chip_addx' = curr_chip_addx, power' = power,
         \A f \in ChipFields \ {"stream"} : chip'[f] = chip[f], NEW s
  PROVE  (Knows(s) => Knows(s)') /\ (AtRest => AtRest') /\ InTheChip' = InTheChip
<1>1. /\ chip'.low = chip.low /\ chip'.high = chip.high /\ chip'.data = chip.data /\ chip'.read = chip.read
      /\ chip'.ex = chip.ex /\ chip'.mem8 = chip.mem8 /\ chip'.mem8hi = chip.mem8hi
  BY DEF ChipFields
<1>2. InTheChip' = InTheChip
  BY <1>1 DEF InTheChip
<1>3. AtRest => AtRest'
  BY <1>2 DEF AtRest
<1>4. Knows(s) => Knows(s)'
  BY <1>1, <1>2, <1>3 DEF Knows
<1>5. QED
  BY <1>2, <1>3, <1>4

\* The holder sends verbs of the inside, and only the holder does.
LEMMA HolderIs ==
  ASSUME ChipInv, NEW t \in ChipThreads, verbs[t] # <<>>
  PROVE  /\ verbs[t][1].verb \in InsideVerbs => chipio_mutex = t /\ Knows(verbs[t])
         /\ verbs[t][1].verb \in OutsideVerbs => chipio_mutex # t
         /\ Verb(t) = verbs[t][1] /\ ChipRest(verbs[t]) /\ t # NoThread
<1>1. InsideVerbs \cap OutsideVerbs = {}
  BY DEF InsideVerbs, OutsideVerbs, AddressVerbs
<1>2. Verb(t) = verbs[t][1]
  BY DEF Verb
<1>3. QED
  BY <1>1, <1>2, ChipAssumption DEF ChipInv, Holding, ChipTypes

\* The thread that holds the mutex goes on inside with r.
LEMMA HolderGoesOn ==
  ASSUME ChipInv, NEW t \in ChipThreads, NEW r, GoesOn(t, r), Powering',
         chipio_mutex' = t, chipio_mutex \in {t, NoThread},
         curr_chip_addx' \in {InvalidAddress} \cup Nat, power' = power,
         chip' = [f \in ChipFields |-> chip'[f]],
         r # <<>>, r[1].verb \in InsideVerbs, Knows(r)', astray' \subseteq {"selector"}
  PROVE  ChipInv'
<1>1. ChipTypes'
  BY DEF ChipInv, ChipTypes, GoesOn
<1>2. t # NoThread
  BY ChipAssumption
<1>3. Holding'
  <2>1. ASSUME NEW u \in ChipThreads, u # t PROVE chipio_mutex' # u /\ (verbs'[u] # <<>> => verbs'[u][1].verb \in OutsideVerbs)
    <3>1. chipio_mutex # u
      BY <2>1, ChipAssumption
    <3>2. QED
      BY <2>1, <3>1 DEF ChipInv, Holding, GoesOn
  <2>2. chipio_mutex' = t /\ verbs'[t] # <<>> /\ verbs'[t][1].verb \in InsideVerbs /\ Knows(verbs[t])'
    BY DEF GoesOn, Knows
  <2>3. QED
    BY <2>1, <2>2 DEF Holding
<1>4. QED
  BY <1>1, <1>2, <1>3 DEF ChipInv

\* A thread that is outside goes on with r.
LEMMA OutsiderGoesOn ==
  ASSUME ChipInv, NEW t \in ChipThreads, NEW r, GoesOn(t, r), Powering',
         chipio_mutex # t, chipio_mutex' = chipio_mutex, curr_chip_addx' = curr_chip_addx, power' = power,
         chip' = [f \in ChipFields |-> chip'[f]],
         \A f \in ChipFields \ {"stream"} : chip'[f] = chip[f],
         r # <<>> => r[1].verb \in OutsideVerbs, astray' \subseteq {"selector"}
  PROVE  ChipInv'
<1>1. ChipTypes'
  BY DEF ChipInv, ChipTypes, GoesOn
<1>2. Holding'
  <2> SUFFICES ASSUME NEW u \in ChipThreads
               PROVE  IF chipio_mutex' = u THEN /\ verbs'[u] # <<>> /\ verbs'[u][1].verb \in InsideVerbs
                                                /\ Knows(verbs[u])'
                                           ELSE verbs'[u] # <<>> => verbs'[u][1].verb \in OutsideVerbs
    BY DEF Holding
  <2>1. CASE u = t
    BY <2>1 DEF GoesOn
  <2>2. CASE u # t
    <3>1. PICK s : s = verbs[u]
      OBVIOUS
    <3>2. verbs'[u] = s
      BY <2>2, <3>1 DEF GoesOn
    <3>3. IF chipio_mutex = u THEN s # <<>> /\ s[1].verb \in InsideVerbs /\ Knows(s)
                              ELSE s # <<>> => s[1].verb \in OutsideVerbs
      BY <3>1 DEF ChipInv, Holding
    <3>4. Knows(s) => Knows(s)'
      BY KnownKept
    <3>5. Knows(s)' => Knows(verbs[u])'
      BY <3>2 DEF Knows
    <3>6. QED
      BY <3>2, <3>3, <3>4, <3>5
  <2>3. QED
    BY <2>1, <2>2
<1>3. chipio_mutex' = NoThread => AtRest'
  BY KnownKept DEF ChipInv
<1>4. QED
  BY <1>1, <1>2, <1>3 DEF ChipInv

LEMMA TakeMutexKeeps ==
  ASSUME ChipInv, NEW t \in ChipThreads, TakeMutex(t)
  PROVE  ChipInv'
<1>1. /\ verbs[t] # <<>> /\ verbs[t][1].verb = "lock" /\ chipio_mutex = NoThread /\ chipio_mutex' = t
      /\ ChipRest(verbs[t])
  BY HolderIs DEF TakeMutex
<1>2. PICK r : r = Tail(verbs[t])
  OBVIOUS
<1>3. ChipRest(r) /\ Suffix(r, verbs[t]) /\ r \in Seq(Verbs) /\ r # <<>> /\ Follows(verbs[t][1], r[1])
  BY <1>1, <1>2, TailRest DEF LastVerbs
<1>4. GoesOn(t, r)
  <2>1. verbs' = [verbs EXCEPT ![t] = r]
    BY <1>2 DEF TakeMutex, Rest
  <2>2. QED
    BY <1>3, <2>1, GoingOn
<1>5. Entry(r[1]) /\ r[1].verb \in InsideVerbs
  BY <1>1, <1>3 DEF Follows, Entry, V, InsideVerbs, AddressVerbs
<1>6. Knows(r)'
  <2>1. AtRest'
    BY <1>1 DEF ChipInv, AtRest, InTheChip, TakeMutex
  <2>2. r[1].verb \in {"low", "mem_low"} \/ (r[1].verb = "status" /\ r[1].arg = 1)
    BY <1>5 DEF Entry, V
  <2>3. QED
    BY <2>1, <2>2 DEF Knows, Moving
<1>7. Powering'
  <2>1. \A i \in 1..Len(r) : \E j \in 1..Len(verbs[t]) : r[i] = verbs[t][j]
    BY <1>1, <1>3, SuffixRest
  <2>2. power' = power
    BY DEF TakeMutex
  <2>3. QED
    BY <1>1, <1>4, <2>1, <2>2, PoweringKept
<1>8. QED
  BY <1>1, <1>3, <1>4, <1>5, <1>6, <1>7, HolderGoesOn DEF TakeMutex, ChipInv, ChipTypes

\* The holder lets go: what the copy says holds for whoever is next.
LEMMA LetsGo ==
  ASSUME ChipInv, NEW t \in ChipThreads, NEW r, GoesOn(t, r), Powering',
         chipio_mutex = t, chipio_mutex' = NoThread, AtRest',
         UNCHANGED <<curr_chip_addx, chip, power, astray>>,
         r # <<>> => r[1].verb \in OutsideVerbs
  PROVE  ChipInv'
<1>1. ChipTypes'
  BY DEF ChipInv, ChipTypes, GoesOn
<1>2. Holding'
  <2>1. \A u \in ChipThreads : chipio_mutex' # u
    BY ChipAssumption
  <2>2. \A u \in ChipThreads \ {t} : verbs'[u] # <<>> => verbs'[u][1].verb \in OutsideVerbs
    BY DEF ChipInv, Holding, GoesOn
  <2>3. verbs'[t] # <<>> => verbs'[t][1].verb \in OutsideVerbs
    BY DEF GoesOn
  <2>4. QED
    BY <2>1, <2>2, <2>3 DEF Holding
<1>3. QED
  BY <1>1, <1>2 DEF ChipInv

LEMMA ReleaseMutexKeeps ==
  ASSUME ChipInv, NEW t \in ChipThreads, ReleaseMutex(t)
  PROVE  ChipInv'
<1>1. verbs[t] # <<>> /\ verbs[t][1].verb \in {"unlock", "end"} /\ Verb(t) = verbs[t][1] /\ ChipRest(verbs[t])
  BY HolderIs DEF ReleaseMutex
<1>2. chipio_mutex = t /\ Knows(verbs[t])
  BY <1>1, HolderIs DEF InsideVerbs
<1>3. PICK r : r = Tail(verbs[t])
  OBVIOUS
<1>4. /\ ChipRest(r) /\ Suffix(r, verbs[t]) /\ r \in Seq(Verbs)
      /\ IF r = <<>> THEN verbs[t][1].verb \in LastVerbs ELSE Follows(verbs[t][1], r[1])
  BY <1>1, <1>3, TailRest
<1>5. GoesOn(t, r)
  <2>1. verbs' = [verbs EXCEPT ![t] = r]
    BY <1>3 DEF ReleaseMutex, Rest
  <2>2. QED
    BY <1>4, <2>1, GoingOn
<1>6. Powering'
  BY <1>1, <1>4, <1>5, SuffixRest, PoweringKept DEF ReleaseMutex
<1>7. AtRest'
  <2>1. AtRest
    BY <1>1, <1>2 DEF Knows, Moving
  <2>2. QED
    BY <2>1 DEF AtRest, InTheChip, ReleaseMutex
<1>8. CASE verbs[t][1].verb = "unlock"
  <2>1. r # <<>> => r[1].verb \in OutsideVerbs
    BY <1>4, <1>8 DEF Follows, OutsideVerbs
  <2>2. chipio_mutex' = NoThread
    BY <1>1, <1>8 DEF ReleaseMutex
  <2>3. QED
    BY <1>2, <1>5, <1>6, <1>7, <2>1, <2>2, LetsGo DEF ReleaseMutex
<1>9. CASE verbs[t][1].verb = "end"
  <2>1. r # <<>> /\ r[1].verb \in {"low", "unlock"}
    BY <1>4, <1>9 DEF Follows, LastVerbs
  <2>2. Knows(r)'
    BY <1>7, <2>1 DEF Knows, Moving
  <2>3. r[1].verb \in InsideVerbs
    BY <2>1 DEF InsideVerbs, AddressVerbs
  <2>4. chipio_mutex' = t
    BY <1>1, <1>2, <1>9 DEF ReleaseMutex
  <2>5. QED
    BY <1>2, <1>5, <1>6, <2>1, <2>2, <2>3, <2>4, HolderGoesOn DEF ReleaseMutex, ChipInv, ChipTypes
<1>10. QED
  BY <1>1, <1>8, <1>9

LEMMA AtLeast ==
  ASSUME NEW n \in Nat
  PROVE  /\ n # 0 /\ n # 1 => n > 1 /\ 1 + 1 = 2
         /\ n > 1 /\ n # 2 => n > 2 /\ 2 \in 1..n /\ 2 + 1 = 3 /\ 2 < n
  OBVIOUS

LEMMA AddressKnownKeeps ==
  ASSUME ChipInv, NEW t \in ChipThreads, AddressKnown(t)
  PROVE  ChipInv'
<1>1. /\ verbs[t] # <<>> /\ verbs[t][1].verb = "low" /\ curr_chip_addx = verbs[t][1].arg
      /\ ChipRest(verbs[t])
  BY HolderIs DEF AddressKnown
<1>2. chipio_mutex = t /\ Knows(verbs[t])
  BY <1>1, HolderIs DEF InsideVerbs, AddressVerbs
<1>3. AtRest
  BY <1>1, <1>2 DEF Knows, Moving
<1>4. PICK s : s = verbs[t]
  OBVIOUS
<1>5. /\ s \in Seq(Verbs) /\ Len(s) \in Nat /\ Len(s) # 0 /\ 1 \in 1..Len(s)
      /\ s[1].arg \in Nat /\ (1 < Len(s) => Follows(s[1], s[1 + 1])) /\ s[Len(s)].verb \in LastVerbs
  <2>1. s \in Seq(Verbs) /\ Len(s) \in Nat /\ Len(s) # 0 /\ s[Len(s)].verb \in LastVerbs
    BY <1>1, <1>4 DEF ChipRest, Chain
  <2>2. 1 \in 1..Len(s)
    BY <2>1
  <2>3. s[1].arg \in Nat /\ (1 < Len(s) => Follows(s[1], s[1 + 1]))
    BY <1>1, <1>4, <2>2 DEF ChipRest, Chain, AddressVerbs
  <2>4. QED
    BY <2>1, <2>2, <2>3
<1>6. PICK a \in Nat : a = s[1].arg /\ a = curr_chip_addx
  BY <1>1, <1>4, <1>5
<1>7. power = "on" /\ InTheChip = a
  <2>1. power # "lost"
    BY <1>1 DEF ChipInv, Powering
  <2>2. power # "resuming"
    <3>1. a # LoadedFlag
      BY <1>3, <1>6 DEF AtRest
    <3>2. QED
      BY <1>1, <1>4, <1>5, <1>6, <3>1 DEF ChipInv, Powering
  <2>3. QED
    BY <1>3, <1>6, <2>1, <2>2 DEF AtRest, ChipInv, ChipTypes, InvalidAddress
<1>8. Len(s) > 1 /\ s[2] = V("high", a)
  <2>1. Len(s) # 1
    BY <1>1, <1>4, <1>5 DEF LastVerbs
  <2>2. Len(s) > 1 /\ 1 + 1 = 2
    BY <1>5, <2>1, AtLeast
  <2>3. QED
    BY <1>1, <1>4, <1>5, <1>6, <2>2 DEF Follows
<1>9. Len(s) > 2 /\ s[3] \in {V("data_low", a), V("post_read", a)}
  <2>1. s[2].verb = "high" /\ s[2].arg = a
    BY <1>8 DEF V
  <2>2. Len(s) # 2
    BY <1>5, <2>1 DEF LastVerbs
  <2>3. Len(s) > 2 /\ 2 \in 1..Len(s) /\ 2 + 1 = 3 /\ 2 < Len(s)
    BY <1>5, <1>8, <2>2, AtLeast
  <2>4. Follows(s[2], s[3])
    BY <1>1, <1>4, <2>3 DEF ChipRest, Chain
  <2>5. QED
    BY <2>1, <2>3, <2>4 DEF Follows
<1>10. PICK r : r = SubSeq(s, 2 + 1, Len(s))
  OBVIOUS
<1>11. ChipRest(r) /\ Suffix(r, s) /\ r \in Seq(Verbs) /\ r # <<>> /\ r[1] = s[3]
  <2>1. 2 \in 0..Len(s) /\ 2 < Len(s) /\ 2 + 1 = 3
    BY <1>5, <1>9
  <2>2. /\ ChipRest(r) /\ Suffix(r, s) /\ r \in Seq(Verbs)
        /\ 2 < Len(s) => r # <<>> /\ r[1] = s[2 + 1]
    BY <1>1, <1>4, <1>10, <2>1, SubRest
  <2>3. QED
    BY <2>1, <2>2
<1>12. GoesOn(t, r)
  <2>1. verbs' = [verbs EXCEPT ![t] = r]
    BY <1>4, <1>10 DEF AddressKnown, Skipped
  <2>2. QED
    BY <1>11, <2>1, GoingOn
<1>13. Powering'
  <2>1. \A i \in 1..Len(r) : \E j \in 1..Len(verbs[t]) : r[i] = verbs[t][j]
    <3>1. ChipRest(s)
      BY <1>1, <1>4, Zenon
    <3>2. \A i \in 1..Len(r) : \E j \in 1..Len(s) : r[i] = s[j]
      <4>1. Suffix(r, s) /\ r \in Seq(Verbs)
        BY <1>11, Zenon
      <4>2. QED
        BY <3>1, <4>1, SuffixRest
    <3>3. QED
      BY <1>4, <3>2, Zenon
  <2>2. power' = power
    BY DEF AddressKnown
  <2>3. QED
    BY <1>1, <1>12, <2>1, <2>2, PoweringKept, Zenon
<1>14. Knows(r)' /\ r[1].verb \in InsideVerbs
  <2>1. r[1].verb \in {"data_low", "post_read"} /\ r[1].arg = a
    BY <1>9, <1>11 DEF V
  <2>2. curr_chip_addx' = a /\ InTheChip' = a
    BY <1>6, <1>7 DEF AddressKnown, InTheChip
  <2>3. QED
    BY <2>1, <2>2 DEF Knows, Moving, InsideVerbs, AddressVerbs
<1>15. QED
  BY <1>2, <1>11, <1>12, <1>13, <1>14, HolderGoesOn DEF AddressKnown, ChipInv, ChipTypes

\* The halves of an address are the address.
LEMMA Halves ==
  ASSUME NEW a \in Nat
  PROVE  /\ (a \div HalfWord) * HalfWord + (a % HalfWord) = a
         /\ a % HalfWord \in Nat /\ a \div HalfWord \in Nat
<1>1. HalfWord \in Nat \ {0}
  BY ChipAssumption
<1>2. QED
  BY <1>1

\* What a verb of the holder leaves in the chip, and that it lands where it is meant to.
SendsWell(v, r) ==
  /\ chip' = [f \in ChipFields |-> chip'[f]] /\ curr_chip_addx' \in {InvalidAddress} \cup Nat
  /\ Knows(r)' /\ r[1].verb \in InsideVerbs /\ Misplaced(v) \subseteq {"selector"}

\* The halves of an address go to the register, and the copy follows.
LEMMA AddressSent ==
  ASSUME NEW v, NEW r, v.arg \in Nat, v.verb \in {"low", "high"}, ChipTypes, Follows(v, r[1]),
         v.verb = "high" => chip.low = v.arg % HalfWord,
         chip' = Sent(v), curr_chip_addx' = AddressAfter(v)
  PROVE  SendsWell(v, r)
<1>1. Misplaced(v) = {}
  BY DEF Misplaced
<1>2. CASE v.verb = "low"
  <2>1. chip' = [chip EXCEPT !.low = v.arg % HalfWord] /\ curr_chip_addx' = curr_chip_addx
    BY <1>2 DEF Sent, AddressAfter
  <2>2. chip' = [f \in ChipFields |-> chip'[f]] /\ chip'.low = v.arg % HalfWord
    BY <2>1 DEF ChipTypes, ChipFields
  <2>3. r[1].verb = "high" /\ r[1].arg = v.arg
    BY <1>2 DEF Follows, V
  <2>4. Knows(r)' /\ r[1].verb \in InsideVerbs
    BY <2>2, <2>3 DEF Knows, Moving, InsideVerbs, AddressVerbs
  <2>5. QED
    BY <1>1, <2>1, <2>2, <2>4 DEF SendsWell, ChipTypes
<1>3. CASE v.verb = "high"
  <2>1. chip' = [chip EXCEPT !.high = v.arg \div HalfWord] /\ curr_chip_addx' = v.arg
    BY <1>3 DEF Sent, AddressAfter
  <2>2. /\ chip' = [f \in ChipFields |-> chip'[f]] /\ chip'.low = v.arg % HalfWord
        /\ chip'.high = v.arg \div HalfWord
    BY <1>3, <2>1 DEF ChipTypes, ChipFields
  <2>3. InTheChip' = v.arg
    BY <2>2, Halves DEF InTheChip
  <2>4. r[1].verb \in {"data_low", "post_read"} /\ r[1].arg = v.arg
    BY <1>3 DEF Follows, V
  <2>5. Knows(r)' /\ r[1].verb \in InsideVerbs
    BY <2>1, <2>3, <2>4 DEF Knows, Moving, InsideVerbs, AddressVerbs
  <2>6. QED
    BY <1>1, <2>1, <2>2, <2>5 DEF SendsWell
<1>4. QED
  BY <1>2, <1>3

\* The address in the chip moves on by one word.
LEMMA Incremented ==
  ASSUME ChipTypes, NEW a \in Nat, InTheChip = a, NEW c, c = AfterIncrement(chip)
  PROVE  /\ c = [f \in ChipFields |-> c[f]] /\ c.high * HalfWord + c.low = a + 4
         /\ \A f \in ChipFields \ {"low", "high"} : c[f] = chip[f]
<1>1. c = [chip EXCEPT !.low = (a + 4) % HalfWord, !.high = (a + 4) \div HalfWord]
  BY DEF AfterIncrement, InTheChip
<1>2. /\ c = [f \in ChipFields |-> c[f]] /\ c.low = (a + 4) % HalfWord /\ c.high = (a + 4) \div HalfWord
      /\ \A f \in ChipFields \ {"low", "high"} : c[f] = chip[f]
  BY <1>1 DEF ChipTypes, ChipFields
<1>3. a + 4 \in Nat
  OBVIOUS
<1>4. QED
  BY <1>2, <1>3, Halves

\* Both halves of a word's data, and then the next word or the end
LEMMA DataSent ==
  ASSUME NEW v, NEW r, v.arg \in Nat, v.verb \in {"data_low", "data_high"}, ChipTypes, Follows(v, r[1]),
         curr_chip_addx = v.arg, InTheChip = v.arg, v.verb = "data_high" => chip.data = v.arg,
         chip' = Sent(v), curr_chip_addx' = AddressAfter(v)
  PROVE  SendsWell(v, r)
<1>1. CASE v.verb = "data_low"
  <2>1. chip' = [chip EXCEPT !.data = v.arg] /\ curr_chip_addx' = curr_chip_addx /\ Misplaced(v) = {}
    BY <1>1 DEF Sent, AddressAfter, Misplaced
  <2>2. /\ chip' = [f \in ChipFields |-> chip'[f]] /\ chip'.data = v.arg
        /\ chip'.low = chip.low /\ chip'.high = chip.high
    BY <2>1 DEF ChipTypes, ChipFields
  <2>3. InTheChip' = v.arg
    BY <2>2 DEF InTheChip
  <2>4. r[1].verb = "data_high" /\ r[1].arg = v.arg
    BY <1>1 DEF Follows, V
  <2>5. Knows(r)' /\ r[1].verb \in InsideVerbs
    BY <2>1, <2>2, <2>3, <2>4 DEF Knows, Moving, InsideVerbs, AddressVerbs
  <2>6. QED
    BY <2>1, <2>2, <2>5 DEF SendsWell
<1>2. CASE v.verb = "data_high"
  <2>1. chip' = AfterIncrement(chip) /\ curr_chip_addx' = v.arg + 4 /\ Misplaced(v) = {}
    BY <1>2 DEF Sent, AddressAfter, Misplaced
  <2>2. chip' = [f \in ChipFields |-> chip'[f]] /\ chip'.high * HalfWord + chip'.low = v.arg + 4
    BY <2>1, Incremented
  <2>3. InTheChip' = v.arg + 4 /\ v.arg + 4 \in Nat
    BY <2>2 DEF InTheChip
  <2>4. \/ r[1].verb = "data_low" /\ r[1].arg = v.arg + 4
        \/ r[1].verb = "end" /\ v.arg + 4 # LoadedFlag
    BY <1>2 DEF Follows, V, End
  <2>5. r[1].verb = "end" => AtRest'
    BY <2>1, <2>3, <2>4 DEF AtRest
  <2>6. Knows(r)' /\ r[1].verb \in InsideVerbs
    BY <2>1, <2>3, <2>4, <2>5 DEF Knows, Moving, InsideVerbs, AddressVerbs
  <2>7. QED
    BY <2>1, <2>2, <2>3, <2>6 DEF SendsWell
<1>3. QED
  BY <1>1, <1>2

\* A read: the chip fetches the word, says that it has, and hands it over.
LEMMA ReadSent ==
  ASSUME NEW v, NEW r, v.verb \in {"post_read", "read_data"}, v.arg \in Nat, ChipTypes, Follows(v, r[1]),
         r # <<>>, Len(r) \in Nat,
         curr_chip_addx = v.arg,
         v.verb = "post_read" => InTheChip = v.arg /\ Len(r) > 1 /\ r[2] = V("read_data", v.arg),
         v.verb = "read_data" => InTheChip = v.arg + 4 /\ chip.read = v.arg,
         chip' = Sent(v), curr_chip_addx' = AddressAfter(v)
  PROVE  SendsWell(v, r)
<1>1. CASE v.verb = "post_read"
  <2>1. /\ chip' = [AfterIncrement(chip) EXCEPT !.read = v.arg] /\ curr_chip_addx' = v.arg
        /\ Misplaced(v) = {}
    BY <1>1 DEF Sent, AddressAfter, Misplaced
  <2>2. PICK c : c = AfterIncrement(chip)
    OBVIOUS
  <2>3. c = [f \in ChipFields |-> c[f]] /\ c.high * HalfWord + c.low = v.arg + 4
    BY <1>1, <2>2, Incremented
  <2>4. /\ chip' = [f \in ChipFields |-> chip'[f]] /\ chip'.read = v.arg
        /\ chip'.low = c.low /\ chip'.high = c.high
    BY <2>1, <2>2, <2>3 DEF ChipFields
  <2>5. InTheChip' = v.arg + 4
    BY <2>3, <2>4 DEF InTheChip
  <2>6. r[1].verb = "status" /\ r[1].arg = 0
    BY <1>1 DEF Follows, V
  <2>7. Len(r) > 1 /\ r[2].verb = "read_data" /\ r[2].arg = v.arg
    BY <1>1 DEF V
  <2>8. Knows(r)' /\ r[1].verb \in InsideVerbs
    BY <2>1, <2>4, <2>5, <2>6, <2>7 DEF Knows, Moving, InsideVerbs, AddressVerbs
  <2>9. QED
    BY <2>1, <2>4, <2>8 DEF SendsWell
<1>2. CASE v.verb = "read_data"
  <2>1. chip' = chip /\ curr_chip_addx' = v.arg + 4 /\ Misplaced(v) = {}
    BY <1>2 DEF Sent, AddressAfter, Misplaced
  <2>2. InTheChip' = v.arg + 4 /\ v.arg + 4 \in Nat
    BY <1>2, <2>1 DEF InTheChip
  <2>3. r[1].verb = "end" /\ v.arg + 4 # LoadedFlag
    BY <1>2 DEF Follows, V, End
  <2>4. AtRest'
    BY <2>1, <2>2, <2>3 DEF AtRest
  <2>5. Knows(r)' /\ r[1].verb \in InsideVerbs
    BY <2>3, <2>4 DEF Knows, Moving, InsideVerbs, AddressVerbs
  <2>6. QED
    BY <2>1, <2>2, <2>5 DEF SendsWell, ChipTypes
<1>3. QED
  BY <1>1, <1>2

\* The question whether the chip is ready
StatusOf(v, r) ==
  IF v.arg = 1 THEN AtRest
               ELSE /\ r[1].verb = "read_data" /\ r[1].arg \in Nat /\ chip.read = r[1].arg
                    /\ curr_chip_addx = r[1].arg /\ InTheChip = r[1].arg + 4

LEMMA StatusSent ==
  ASSUME NEW v, NEW r, v.verb = "status", ChipTypes, Follows(v, r[1]), StatusOf(v, r), power' = power,
         chip' = Sent(v), curr_chip_addx' = AddressAfter(v)
  PROVE  SendsWell(v, r)
<1>1. chip' = chip /\ curr_chip_addx' = curr_chip_addx /\ Misplaced(v) = {}
  BY DEF Sent, AddressAfter, Misplaced
<1>2. InTheChip' = InTheChip /\ (AtRest => AtRest')
  BY <1>1 DEF InTheChip, AtRest
<1>3. CASE v.arg = 1
  <2>1. r[1].verb = "ex_id"
    BY <1>3 DEF Follows
  <2>2. AtRest'
    BY <1>2, <1>3 DEF StatusOf
  <2>3. Knows(r)' /\ r[1].verb \in InsideVerbs
    BY <2>1, <2>2 DEF Knows, Moving, InsideVerbs
  <2>4. QED
    BY <1>1, <2>3 DEF SendsWell, ChipTypes
<1>4. CASE v.arg # 1
  <2>1. /\ r[1].verb = "read_data" /\ r[1].arg \in Nat /\ chip.read = r[1].arg
        /\ curr_chip_addx = r[1].arg /\ InTheChip = r[1].arg + 4
    BY <1>4 DEF StatusOf
  <2>2. Knows(r)' /\ r[1].verb \in InsideVerbs
    BY <1>1, <1>2, <2>1 DEF Knows, Moving, InsideVerbs, AddressVerbs
  <2>3. QED
    BY <1>1, <2>2 DEF SendsWell, ChipTypes
<1>5. QED
  BY <1>3, <1>4

\* The number of a parameter, and then what is meant for it
LEMMA ParamSent ==
  ASSUME NEW v, NEW r, v.verb \in {"ex_id", "ex_value", "select_conn", "conn_rate"}, ChipTypes,
         Follows(v, r[1]), AtRest, power' = power,
         v.verb = "ex_value" => chip.ex = v.arg, v.verb = "select_conn" => chip.ex = "conn",
         v.verb = "conn_rate" => chip.ex = "rate",
         chip' = Sent(v), curr_chip_addx' = AddressAfter(v)
  PROVE  SendsWell(v, r)
<1>1. curr_chip_addx' = curr_chip_addx /\ Misplaced(v) \subseteq {"selector"}
  BY DEF AddressAfter, Misplaced
<1>2. /\ chip' = [f \in ChipFields |-> chip'[f]] /\ chip'.low = chip.low /\ chip'.high = chip.high
      /\ v.verb = "ex_id" => chip'.ex = v.arg
  BY DEF Sent, ChipTypes, ChipFields
<1>3. AtRest'
  BY <1>1, <1>2 DEF AtRest, InTheChip
<1>4. \/ r[1].verb = "end"
      \/ v.verb = "ex_id" /\ r[1].verb = "ex_value" /\ r[1].arg = v.arg
      \/ v.verb = "ex_id" /\ v.arg = "conn" /\ r[1].verb = "select_conn"
      \/ v.verb = "ex_id" /\ v.arg = "rate" /\ r[1].verb = "conn_rate"
  BY DEF Follows, V, End
<1>5. Knows(r)' /\ r[1].verb \in InsideVerbs
  BY <1>2, <1>3, <1>4 DEF Knows, Moving, InsideVerbs, AddressVerbs
<1>6. QED
  BY <1>1, <1>2, <1>5 DEF SendsWell, ChipTypes

\* The address of the 8051's memory, and then the access
LEMMA MemorySent ==
  ASSUME NEW v, NEW r, v.verb \in {"mem_low", "mem_high", "mem_data", "mem_read", "pll_data"},
         v.arg \in Nat, ChipTypes, Follows(v, r[1]), AtRest, power' = power,
         v.verb = "mem_high" => chip.mem8 = v.arg % HalfWord,
         v.verb \in {"mem_data", "mem_read", "pll_data"} => chip.mem8hi * HalfWord + chip.mem8 = v.arg,
         chip' = Sent(v), curr_chip_addx' = AddressAfter(v)
  PROVE  SendsWell(v, r)
<1>1. curr_chip_addx' = curr_chip_addx /\ Misplaced(v) = {}
  BY DEF AddressAfter, Misplaced
<1>2. /\ chip' = [f \in ChipFields |-> chip'[f]] /\ chip'.low = chip.low /\ chip'.high = chip.high
      /\ v.verb = "mem_low" => chip'.mem8 = v.arg % HalfWord
      /\ v.verb = "mem_high" => chip'.mem8 = chip.mem8 /\ chip'.mem8hi = v.arg \div HalfWord
  BY DEF Sent, ChipTypes, ChipFields
<1>3. AtRest'
  BY <1>1, <1>2 DEF AtRest, InTheChip
<1>4. v.verb = "mem_high" => chip'.mem8hi * HalfWord + chip'.mem8 = v.arg
  BY <1>2, Halves
<1>5. \/ v.verb = "mem_low" /\ r[1].verb = "mem_high" /\ r[1].arg = v.arg
      \/ v.verb = "mem_high" /\ r[1].verb \in {"mem_data", "mem_read", "pll_data"} /\ r[1].arg = v.arg
      \/ v.verb = "pll_data" /\ r[1].verb \in {"unlock", "mem_low"}
      \/ v.verb = "mem_data" /\ r[1].verb = "unlock"
      \/ v.verb = "mem_read" /\ r[1].verb = "remap"
  BY DEF Follows, V
<1>6. Knows(r)' /\ r[1].verb \in InsideVerbs
  BY <1>2, <1>3, <1>4, <1>5 DEF Knows, Moving, InsideVerbs, AddressVerbs
<1>7. QED
  BY <1>1, <1>2, <1>6 DEF SendsWell, ChipTypes

LEMMA HolderSends ==
  ASSUME ChipInv, NEW t \in ChipThreads, SendVerb(t), verbs[t][1].verb \in InsideVerbs
  PROVE  ChipInv'
<1>1. PICK s : s = verbs[t]
  OBVIOUS
<1>2. PICK v : v = s[1]
  OBVIOUS
<1>3. PICK r : r = Tail(s)
  OBVIOUS
<1>4. /\ s # <<>> /\ v = Verb(t) /\ ChipRest(s) /\ chipio_mutex = t /\ Knows(s)
      /\ v.verb \notin {"lock", "unlock", "end", "remap", "reload"}
  BY <1>1, <1>2, HolderIs DEF SendVerb
<1>5. /\ ChipRest(r) /\ Suffix(r, s) /\ r \in Seq(Verbs) /\ v \in Verbs /\ r # <<>>
      /\ Len(s) > 1 /\ r[1] = s[2] /\ Follows(v, r[1])
  BY <1>1, <1>2, <1>3, <1>4, TailRest DEF LastVerbs, InsideVerbs, AddressVerbs
<1>6. GoesOn(t, r)
  <2>1. verbs' = [verbs EXCEPT ![t] = r]
    BY <1>1, <1>3 DEF SendVerb, Rest
  <2>2. QED
    BY <1>5, <2>1, GoingOn
<1>7. Powering' /\ power' = power
  <2>1. \A i \in 1..Len(r) : \E j \in 1..Len(verbs[t]) : r[i] = verbs[t][j]
    BY <1>1, <1>4, <1>5, SuffixRest
  <2>2. power' = power
    BY DEF SendVerb
  <2>3. QED
    BY <1>1, <1>4, <1>6, <2>1, <2>2, PoweringKept
<1>8. chip' = Sent(v) /\ curr_chip_addx' = AddressAfter(v) /\ astray' = astray \cup Misplaced(v) /\ chipio_mutex' = t
  BY <1>4 DEF SendVerb
<1>9. ChipTypes /\ (v.verb \in AddressVerbs => v.arg \in Nat) /\ Len(r) \in Nat
  <2>1. Len(s) \in Nat /\ Len(r) \in Nat
    BY <1>4, <1>5 DEF ChipRest, Chain
  <2>2. 1 \in 1..Len(s)
    BY <1>5, <2>1
  <2>3. QED
    BY <1>2, <1>4, <2>1, <2>2 DEF ChipInv, ChipRest, Chain
<1>10. SendsWell(v, r)
  <2>1. CASE v.verb \in {"low", "high"}
    <3>1. v.verb = "high" => chip.low = v.arg % HalfWord
      BY <1>2, <1>4 DEF Knows
    <3>2. QED
      BY <1>5, <1>8, <1>9, <2>1, <3>1, AddressSent DEF AddressVerbs
  <2>2. CASE v.verb \in {"data_low", "data_high"}
    <3>1. curr_chip_addx = v.arg /\ InTheChip = v.arg /\ (v.verb = "data_high" => chip.data = v.arg)
      BY <1>2, <1>4, <2>2 DEF Knows
    <3>2. QED
      BY <1>5, <1>8, <1>9, <2>2, <3>1, DataSent DEF AddressVerbs
  <2>3. CASE v.verb \in {"post_read", "read_data"}
    <3>1. /\ curr_chip_addx = v.arg /\ (v.verb = "post_read" => InTheChip = v.arg)
          /\ v.verb = "read_data" => InTheChip = v.arg + 4 /\ chip.read = v.arg
      BY <1>2, <1>4, <2>3 DEF Knows
    <3>2. v.verb = "post_read" => Len(r) > 1 /\ r[2] = V("read_data", v.arg)
      <4>1. 1 \in 1..Len(s) /\ 1 + 2 = 3 /\ 2 + 1 = 3
        BY <1>5, <1>9
      <4>2. v.verb = "post_read" => 3 \in 1..Len(s) /\ s[3] = V("read_data", v.arg)
        BY <1>2, <1>4, <4>1 DEF ChipRest, Chain
      <4>3. s \in Seq(Verbs)
        BY <1>4 DEF ChipRest, Chain
      <4>4. Len(r) = Len(s) - 1 /\ Len(s) \in Nat
        BY <1>3, <1>4, <4>3
      <4>5. 3 \in 1..Len(s) => 2 \in 1..Len(r) /\ Len(r) > 1
        BY <4>4
      <4>6. 2 \in 1..Len(r) => r[2] = s[3]
        BY <1>3, <1>4, <4>3
      <4>7. QED
        BY <4>2, <4>5, <4>6
    <3>3. QED
      BY <1>5, <1>8, <1>9, <2>3, <3>1, <3>2, ReadSent DEF AddressVerbs
  <2>4. CASE v.verb = "status"
    <3>1. StatusOf(v, r)
      BY <1>2, <1>4, <1>5, <2>4 DEF Knows, StatusOf, Moving
    <3>2. QED
      BY <1>5, <1>7, <1>8, <1>9, <2>4, <3>1, StatusSent
  <2>5. CASE v.verb \in {"ex_id", "ex_value", "select_conn", "conn_rate"}
    <3>1. AtRest
      BY <1>2, <1>4, <2>5 DEF Knows, Moving
    <3>2. /\ v.verb = "ex_value" => chip.ex = v.arg
          /\ v.verb = "select_conn" => chip.ex = "conn"
          /\ v.verb = "conn_rate" => chip.ex = "rate"
      BY <1>2, <1>4, <2>5 DEF Knows
    <3>3. QED
      BY <1>5, <1>7, <1>8, <1>9, <2>5, <3>1, <3>2, ParamSent
  <2>6. CASE v.verb \in {"mem_low", "mem_high", "mem_data", "mem_read", "pll_data"}
    <3>1. AtRest
      BY <1>2, <1>4, <2>6 DEF Knows, Moving
    <3>2. /\ v.verb = "mem_high" => chip.mem8 = v.arg % HalfWord
          /\ v.verb \in {"mem_data", "mem_read", "pll_data"} => chip.mem8hi * HalfWord + chip.mem8 = v.arg
      BY <1>2, <1>4, <2>6 DEF Knows
    <3>3. v.arg \in Nat
      BY <1>9, <2>6 DEF AddressVerbs
    <3>4. QED
      BY <1>5, <1>7, <1>8, <1>9, <2>6, <3>1, <3>2, <3>3, MemorySent
  <2>7. QED
    BY <1>1, <1>2, <1>4, <2>1, <2>2, <2>3, <2>4, <2>5, <2>6 DEF InsideVerbs, AddressVerbs
<1>11. astray' \subseteq {"selector"}
  BY <1>8, <1>10 DEF ChipInv, SendsWell
<1>12. QED
  BY <1>4, <1>5, <1>6, <1>7, <1>8, <1>10, <1>11, HolderGoesOn DEF SendsWell

\* The stream selector is the one register that is written without the mutex.
LEMMA OutsiderSends ==
  ASSUME ChipInv, NEW t \in ChipThreads, SendVerb(t), verbs[t][1].verb \notin InsideVerbs
  PROVE  ChipInv'
<1>1. PICK s : s = verbs[t]
  OBVIOUS
<1>2. PICK v : v = s[1]
  OBVIOUS
<1>3. PICK r : r = Tail(s)
  OBVIOUS
<1>4. /\ s # <<>> /\ v = Verb(t) /\ ChipRest(s)
      /\ v.verb \notin {"lock", "unlock", "end", "remap", "reload"}
  BY <1>1, <1>2, HolderIs DEF SendVerb
<1>5. /\ ChipRest(r) /\ Suffix(r, s) /\ r \in Seq(Verbs) /\ v \in Verbs
      /\ r # <<>> => Follows(v, r[1])
  BY <1>1, <1>2, <1>3, <1>4, TailRest
<1>6. v.verb \in {"select_stream", "stream_control"} /\ v.verb \in OutsideVerbs
  BY <1>1, <1>2, <1>4, <1>5 DEF Verbs, OutsideVerbs
<1>7. GoesOn(t, r)
  <2>1. verbs' = [verbs EXCEPT ![t] = r]
    BY <1>1, <1>3 DEF SendVerb, Rest
  <2>2. QED
    BY <1>5, <2>1, GoingOn
<1>8. Powering' /\ power' = power
  <2>1. \A i \in 1..Len(r) : \E j \in 1..Len(verbs[t]) : r[i] = verbs[t][j]
    BY <1>1, <1>4, <1>5, SuffixRest
  <2>2. power' = power
    BY DEF SendVerb
  <2>3. QED
    BY <1>1, <1>4, <1>7, <2>1, <2>2, PoweringKept
<1>9. chip' = Sent(v) /\ curr_chip_addx' = AddressAfter(v) /\ astray' = astray \cup Misplaced(v)
  BY <1>4 DEF SendVerb
<1>10. /\ chip' = [f \in ChipFields |-> chip'[f]] /\ \A f \in ChipFields \ {"stream"} : chip'[f] = chip[f]
  <2>1. chip = [f \in ChipFields |-> chip[f]]
    BY DEF ChipInv, ChipTypes
  <2>2. CASE v.verb = "select_stream"
    <3>1. chip' = [chip EXCEPT !.stream = v.arg]
      BY <1>9, <2>2 DEF Sent
    <3>2. QED
      BY <2>1, <3>1 DEF ChipFields
  <2>3. CASE v.verb = "stream_control"
    <3>1. chip' = chip
      BY <1>9, <2>3 DEF Sent
    <3>2. QED
      BY <2>1, <3>1
  <2>4. QED
    BY <1>6, <2>2, <2>3
<1>11. curr_chip_addx' = curr_chip_addx /\ Misplaced(v) \subseteq {"selector"}
  BY <1>6, <1>9 DEF AddressAfter, Misplaced
<1>12. r # <<>> => r[1].verb \in OutsideVerbs
  BY <1>5, <1>6 DEF Follows, OutsideVerbs
<1>13. chipio_mutex # t /\ chipio_mutex' = chipio_mutex
  BY <1>1, <1>2, <1>4, <1>6, HolderIs DEF SendVerb
<1>14. astray' \subseteq {"selector"}
  BY <1>9, <1>11 DEF ChipInv
<1>15. QED
  BY <1>7, <1>8, <1>10, <1>11, <1>12, <1>13, <1>14, OutsiderGoesOn

LEMMA SendFailsKeeps ==
  ASSUME ChipInv, NEW t \in ChipThreads, SendFails(t)
  PROVE  ChipInv'
<1>1. PICK s : s = verbs[t]
  OBVIOUS
<1>2. PICK r : r = Ended(s)
  OBVIOUS
<1>3. /\ s # <<>> /\ s[1] = Verb(t) /\ ChipRest(s) /\ chipio_mutex = t /\ Knows(s)
      /\ s[1].verb \in MayFail
  BY <1>1, HolderIs DEF SendFails, MayFail, InsideVerbs, AddressVerbs
<1>4. ChipRest(r) /\ Suffix(r, s) /\ r \in Seq(Verbs) /\ r # <<>> /\ r[1].verb \in {"low", "unlock"}
  BY <1>2, <1>3, EndedRest
<1>5. GoesOn(t, r)
  <2>1. verbs' = [verbs EXCEPT ![t] = r]
    BY <1>1, <1>2 DEF SendFails, Abandoned
  <2>2. QED
    BY <1>4, <2>1, GoingOn
<1>6. Powering'
  <2>1. \A i \in 1..Len(r) : \E j \in 1..Len(verbs[t]) : r[i] = verbs[t][j]
    BY <1>1, <1>3, <1>4, SuffixRest
  <2>2. power' = power
    BY DEF SendFails
  <2>3. QED
    BY <1>1, <1>3, <1>5, <2>1, <2>2, PoweringKept
<1>7. AtRest' /\ curr_chip_addx' \in {InvalidAddress} \cup Nat
  <2>1. CASE s[1].verb = "status" /\ s[1].arg = 1
    <3>1. AtRest
      BY <1>3, <2>1 DEF Knows, Moving
    <3>2. curr_chip_addx' = curr_chip_addx
      BY <1>3, <2>1 DEF SendFails, AddressAfterFailure
    <3>3. QED
      BY <3>1, <3>2 DEF AtRest, InTheChip, SendFails, ChipInv, ChipTypes
  <2>2. CASE ~(s[1].verb = "status" /\ s[1].arg = 1)
    <3>1. curr_chip_addx' = InvalidAddress
      BY <1>3, <2>2 DEF SendFails, AddressAfterFailure
    <3>2. LoadedFlag # InvalidAddress
      BY ChipAssumption DEF LoadedFlag, InvalidAddress
    <3>3. QED
      BY <3>1, <3>2 DEF AtRest
  <2>3. QED
    BY <2>1, <2>2
<1>8. Knows(r)' /\ r[1].verb \in InsideVerbs
  BY <1>4, <1>7 DEF Knows, Moving, InsideVerbs, AddressVerbs
<1>9. QED
  BY <1>3, <1>4, <1>5, <1>6, <1>7, <1>8, HolderGoesOn DEF SendFails, ChipInv, ChipTypes

LEMMA RemapKeeps ==
  ASSUME ChipInv, NEW t \in ChipThreads, Remap(t)
  PROVE  ChipInv'
<1>1. PICK s : s = verbs[t]
  OBVIOUS
<1>2. s # <<>> /\ s[1].verb = "remap" /\ ChipRest(s) /\ chipio_mutex = t /\ Knows(s)
  BY <1>1, HolderIs DEF Remap, InsideVerbs
<1>3. AtRest'
  BY <1>2 DEF Knows, Moving, AtRest, InTheChip, Remap
<1>4. \E r : /\ ChipRest(r) /\ verbs' = [verbs EXCEPT ![t] = r]
             /\ r # <<>> /\ r[1].verb \in {"low", "unlock"}
             /\ \A i \in 1..Len(r) : \/ \E j \in 1..Len(s) : r[i] = s[j]
                                     \/ r[i].verb \notin {"low", "reload"}
  <2>1. CASE verbs' = Rest(t)
    <3>1. PICK r : r = Tail(s)
      OBVIOUS
    <3>2. ChipRest(r) /\ Suffix(r, s) /\ r \in Seq(Verbs) /\ r # <<>> /\ Follows(s[1], r[1])
      BY <1>2, <3>1, TailRest DEF LastVerbs
    <3>3. verbs' = [verbs EXCEPT ![t] = r]
      BY <1>1, <2>1, <3>1 DEF Rest
    <3>4. r[1].verb = "low"
      BY <1>2, <3>2 DEF Follows
    <3>5. \A i \in 1..Len(r) : \E j \in 1..Len(s) : r[i] = s[j]
      BY <1>2, <3>2, SuffixRest
    <3>6. r[1].verb \in {"low", "unlock"}
      BY <3>4
    <3>7. \A i \in 1..Len(r) : \/ \E j \in 1..Len(s) : r[i] = s[j]
                               \/ r[i].verb \notin {"low", "reload"}
      BY <3>5
    <3>8. QED
      BY <3>2, <3>3, <3>6, <3>7, Zenon
  <2>2. CASE verbs' = [verbs EXCEPT ![t] = <<V("unlock", 0)>>]
    <3> DEFINE u == V("unlock", 0)
               r == <<u>>
    <3>1. PlainCall(u) /\ u.verb = "unlock" /\ u.verb \in LastVerbs
      BY DEF V, PlainCall, Verbs, InsideVerbs, AddressVerbs, LastVerbs
    <3>2. Path(r, u, u) /\ Ending(r)
      BY <3>1, OneVerb, SureEnding DEF PlainCall, MayFail
    <3>3. Len(r) = 1 /\ r[1] = u /\ \A i \in 1..1 : i = 1
      OBVIOUS
    <3>4. verbs' = [verbs EXCEPT ![t] = r]
      BY <2>2
    <3> HIDE DEF r, u
    <3>5. ChipRest(r) /\ r # <<>>
      BY <3>1, <3>2 DEF ChipRest, Path, Linked
    <3>6. \A i \in 1..Len(r) : r[i].verb \notin {"low", "reload"}
      BY <3>1, <3>3
    <3>7. QED
      BY <3>1, <3>3, <3>4, <3>5, <3>6
  <2>3. QED
    BY <2>1, <2>2 DEF Remap
<1>5. PICK r : /\ ChipRest(r) /\ verbs' = [verbs EXCEPT ![t] = r]
               /\ r # <<>> /\ r[1].verb \in {"low", "unlock"}
               /\ \A i \in 1..Len(r) : \/ \E j \in 1..Len(s) : r[i] = s[j]
                                       \/ r[i].verb \notin {"low", "reload"}
  BY <1>4
<1>6. GoesOn(t, r)
  BY <1>5, GoingOn
<1>7. Powering'
  <2>1. power' = power
    BY DEF Remap
  <2>2. QED
    BY <1>1, <1>2, <1>5, <1>6, <2>1, PoweringKept
<1>8. Knows(r)' /\ r[1].verb \in InsideVerbs
  BY <1>3, <1>5 DEF Knows, Moving, InsideVerbs, AddressVerbs
<1>9. QED
  BY <1>2, <1>5, <1>6, <1>7, <1>8, HolderGoesOn DEF Remap, ChipInv, ChipTypes

LEMMA BeginChipKeeps ==
  ASSUME ChipInv, NEW t \in ChipThreads, BeginChip(t)
  PROVE  ChipInv'
<1>1. PICK call \in ChipCalls : verbs' = [verbs EXCEPT ![t] = call]
  BY DEF BeginChip
<1>2. ChipRest(call) /\ call # <<>> /\ call[1].verb \in OutsideVerbs /\ call \in Seq(CallVerbs)
  BY CallsAreWhole DEF WholeCall
<1>3. GoesOn(t, call)
  BY <1>1, <1>2, GoingOn
<1>4. Powering'
  <2>1. power = "on" /\ power' = "on"
    BY DEF BeginChip
  <2>2. \A i \in 1..Len(call) : call[i].verb # "reload"
    BY <1>2 DEF CallVerbs
  <2>3. \A u \in ChipThreads \ {t} : \A i \in 1..Len(verbs'[u]) : verbs'[u][i].verb # "reload"
    <3>1. \A u \in ChipThreads : \A i \in 1..Len(verbs[u]) : verbs[u][i].verb # "reload"
      BY <2>1 DEF ChipInv, Powering
    <3>2. \A u \in ChipThreads \ {t} : verbs'[u] = verbs[u]
      BY <1>3, Zenon DEF GoesOn
    <3>3. QED
      BY <3>1, <3>2
  <2>4. \A u \in ChipThreads : \A i \in 1..Len(verbs'[u]) : verbs'[u][i].verb # "reload"
    BY <1>3, <2>2, <2>3 DEF GoesOn
  <2>5. QED
    BY <2>1, <2>4 DEF Powering
<1>5. chipio_mutex # t
  BY DEF BeginChip, ChipInv, Holding
<1>6. QED
  BY <1>2, <1>3, <1>4, <1>5, OutsiderGoesOn DEF BeginChip, ChipInv, ChipTypes

\* While nobody is in the chip, nobody holds the mutex.
LEMMA NobodyHolds ==
  ASSUME ChipInv, \A u \in ChipThreads : verbs[u] = <<>>
  PROVE  chipio_mutex = NoThread /\ AtRest
  BY DEF ChipInv, ChipTypes, Holding

LEMMA PowerLostKeeps ==
  ASSUME ChipInv, PowerLost
  PROVE  ChipInv'
<1>1. chipio_mutex = NoThread /\ AtRest /\ \A u \in ChipThreads : verbs[u] = <<>>
  BY NobodyHolds DEF PowerLost
<1>2. chip' = [f \in ChipFields |-> chip'[f]]
  BY DEF PowerLost, Cleared, ChipFields
<1>3. ChipTypes'
  BY <1>2 DEF PowerLost, ChipInv, ChipTypes
<1>4. Holding'
  BY <1>1, ChipAssumption DEF PowerLost, Holding
<1>5. Powering'
  BY <1>1 DEF PowerLost, Powering
<1>6. AtRest'
  BY <1>1 DEF PowerLost, AtRest
<1>7. QED
  BY <1>3, <1>4, <1>5, <1>6 DEF ChipInv, PowerLost

LEMMA ResumeKeeps ==
  ASSUME ChipInv, NEW t \in ChipThreads, Resume(t)
  PROVE  ChipInv'
<1>1. chipio_mutex = NoThread /\ AtRest /\ \A u \in ChipThreads : verbs[u] = <<>>
  BY NobodyHolds DEF Resume, ChipInv, Powering
<1>2. PICK r : r = Question
  OBVIOUS
<1>3. ChipRest(r) /\ r # <<>> /\ r[1].verb \in OutsideVerbs /\ r \in Seq(FlagVerbs)
  BY <1>2, QuestionIs
<1>4. GoesOn(t, r)
  <2>1. verbs' = [verbs EXCEPT ![t] = r]
    BY <1>2 DEF Resume, Question
  <2>2. QED
    BY <1>3, <2>1, GoingOn
<1>5. ChipTypes'
  BY <1>4 DEF Resume, ChipInv, ChipTypes, GoesOn
<1>6. Holding'
  BY <1>1, <1>3, <1>4, ChipAssumption DEF Resume, Holding, GoesOn
<1>7. Powering'
  <2>1. \A i \in 1..Len(r) : r[i].verb = "low" => r[i].arg = LoadedFlag
    BY <1>3 DEF FlagVerbs
  <2>2. \A u \in ChipThreads : u # t => verbs'[u] = <<>>
    BY <1>1, <1>4 DEF GoesOn
  <2>3. QED
    BY <1>4, <2>1, <2>2 DEF Resume, Powering, GoesOn
<1>8. AtRest'
  BY <1>1 DEF Resume, AtRest
<1>9. QED
  BY <1>5, <1>6, <1>7, <1>8 DEF ChipInv, Resume

LEMMA ReinitKeeps ==
  ASSUME ChipInv, NEW t \in ChipThreads, Reinit(t)
  PROVE  ChipInv'
<1>1. PICK s : s = verbs[t]
  OBVIOUS
<1>2. s # <<>> /\ s[1].verb = "reload" /\ ChipRest(s) /\ chipio_mutex # t
  BY <1>1, HolderIs DEF Reinit, OutsideVerbs
<1>3. PICK r : r = Tail(s)
  OBVIOUS
<1>4. r = <<>> /\ ChipRest(r)
  BY <1>2, <1>3, TailRest DEF Follows
<1>5. GoesOn(t, r)
  <2>1. verbs' = [verbs EXCEPT ![t] = r]
    BY <1>1, <1>3 DEF Reinit, Rest
  <2>2. QED
    BY <1>4, <2>1, GoingOn
<1>6. \A u \in ChipThreads \ {t} : verbs[u] = <<>>
  <2>1. power = "resuming"
    <3>1. s \in Seq(Verbs) /\ Len(s) \in Nat /\ Len(s) # 0
      BY <1>2 DEF ChipRest, Chain
    <3>2. 1 \in 1..Len(s)
      BY <3>1
    <3>3. QED
      BY <1>1, <1>2, <3>2 DEF ChipInv, Powering
  <2>2. QED
    BY <1>1, <1>2, <2>1 DEF ChipInv, Powering
<1>7. chipio_mutex = NoThread
  BY <1>2, <1>6 DEF ChipInv, ChipTypes, Holding
<1>8. \A u \in ChipThreads : verbs'[u] = <<>>
  BY <1>4, <1>5, <1>6 DEF GoesOn
<1>9. ChipTypes'
  BY <1>5 DEF Reinit, ChipInv, ChipTypes, GoesOn
<1>10. Holding' /\ Powering'
  <2>1. \A u \in ChipThreads : chipio_mutex' # u
    BY <1>7, ChipAssumption DEF Reinit
  <2>2. \A u \in ChipThreads : Len(verbs'[u]) = 0
    BY <1>8
  <2>3. Holding'
    BY <1>8, <2>1 DEF Holding
  <2>4. Powering'
    BY <1>8, <2>2 DEF Powering, Reinit
  <2>5. QED
    BY <2>3, <2>4
<1>11. AtRest'
  BY ChipAssumption DEF Reinit, AtRest, InvalidAddress, LoadedFlag
<1>12. QED
  BY <1>9, <1>10, <1>11 DEF ChipInv, Reinit

LEMMA ChipInitially == ChipInit => ChipInv
<1> SUFFICES ASSUME ChipInit PROVE ChipInv
  OBVIOUS
<1>1. \A t \in ChipThreads : verbs[t] = <<>> /\ Len(verbs[t]) = 0
  BY DEF ChipInit
<1>2. chip = [f \in ChipFields |-> chip[f]]
  BY DEF ChipInit, Cleared, ChipFields
<1>3. ASSUME NEW t \in ChipThreads PROVE ChipRest(verbs[t])
  <2>1. PICK s : s = verbs[t]
    OBVIOUS
  <2>2. s = <<>> /\ s \in Seq(Verbs) /\ Len(s) = 0
    <3>1. <<>> \in Seq(Verbs)
      OBVIOUS
    <3>2. QED
      BY <1>1, <2>1, <3>1, Zenon
  <2>3. \A i \in 1..Len(s) : FALSE
    <3>1. \A i \in 1..0 : FALSE
      OBVIOUS
    <3>2. 1..Len(s) = 1..0
      BY <2>2, Zenon
    <3>3. QED
      BY <3>1, <3>2, Zenon
  <2>4. Chain(s)
    BY <2>2, <2>3, Zenon DEF Chain
  <2>5. Ending(s)
    BY <2>3 DEF Ending
  <2>6. ChipRest(s)
    BY <2>2, <2>4, <2>5, Zenon DEF ChipRest
  <2>7. QED
    BY <2>1, <2>6
<1>4. verbs \in [ChipThreads -> Seq(Verbs)]
  BY DEF ChipInit
<1>5. ChipTypes
  BY <1>2, <1>3, <1>4 DEF ChipInit, ChipTypes
<1>6. Holding /\ Powering
  BY <1>1, ChipAssumption DEF ChipInit, Holding, Powering
<1>7. AtRest
  BY ChipAssumption DEF ChipInit, AtRest, InvalidAddress, LoadedFlag
<1>8. QED
  BY <1>5, <1>6, <1>7 DEF ChipInit, ChipInv

LEMMA ChipStep ==
  ASSUME ChipInv, [ChipNext]_chipVars
  PROVE  ChipInv'
<1>1. CASE UNCHANGED chipVars
  BY <1>1 DEF chipVars, ChipInv, ChipTypes, Holding, Powering, AtRest, Knows, InTheChip
<1>2. CASE PowerLost
  BY <1>2, PowerLostKeeps
<1>3. ASSUME NEW t \in ChipThreads, BeginChip(t) \/ ChipThread(t) \/ SendFails(t) \/ Resume(t)
      PROVE  ChipInv'
  <2>1. CASE SendVerb(t)
    BY <2>1, HolderSends, OutsiderSends
  <2>2. QED
    BY <1>3, <2>1, BeginChipKeeps, TakeMutexKeeps, ReleaseMutexKeeps, AddressKnownKeeps, RemapKeeps,
       ReinitKeeps, SendFailsKeeps, ResumeKeeps DEF ChipThread
<1>4. QED
  BY <1>1, <1>2, <1>3 DEF ChipNext

\* The inductive invariant: what the holder of chipio_mutex is about to send finds in the
\* chip what the verbs before it put there, and when it lets go the driver's copy of the
\* address is right or unknown (chipio_write, chipio_read, chipio_set_control_param,
\* chipio_8051_*).
THEOREM ChipInvariant == ChipSpec => []ChipInv
<1>1. ChipInv /\ [ChipNext]_chipVars => ChipInv'
  BY ChipStep
<1>2. QED
  BY <1>1, ChipInitially, PTL DEF ChipSpec

\* Words, parameters and bytes of the 8051 land where they are meant to, whatever the
\* threads interleave, whatever sends fail and however often the power goes, for every
\* set of threads and addresses.
THEOREM ValuesAlwaysLand == ChipSpec => []ValuesLand
<1>1. ChipInv => ValuesLand
  BY DEF ChipInv, ValuesLand, WordsLand, ParamsLand, CopyAgrees, AtRest
<1>2. QED
  BY <1>1, ChipInvariant, PTL

\* The variables have their types, and the holder of chipio_mutex is inside a call.
THEOREM ChipTypesHold == ChipSpec => []ChipTypeOK
<1>1. ChipInv => ChipTypeOK
  BY DEF ChipInv, ChipTypes, Holding, ChipTypeOK
<1>2. QED
  BY <1>1, ChipInvariant, PTL

-----------------------------------------------------------------------------
(* OutputSelect: the DSP is not left muted.                                *)

StepNames ==
  {"mute", "relay", "invert", "port", "gain", "pins", "config", "eq", "xbass", "bass", "range", "surround",
   "slider", "volume", "choose", "switch", "end", "report", "unmute", "gain_put", "bass_put"}

\* A program that unmutes after it mutes, and one that will unmute
Answered(q) ==
  /\ q \in Seq(StepNames)
  /\ \A i \in 1..Len(q) : q[i] = "mute" => \E j \in (i + 1)..Len(q) : q[j] = "unmute"
Pending(q) == \E j \in 1..Len(q) : q[j] = "unmute"

TaskFields == {"todo", "branch", "fx"}
IsTask(t) == t = [f \in TaskFields |-> t[f]] /\ Answered(t.todo)

\* While no command has failed, somebody who will unmute is on the way.
MuteInv ==
  ~failed =>
    /\ tasks = [c \in OutputContexts |-> tasks[c]] /\ \A c \in OutputContexts : IsTask(tasks[c])
    /\ outHw = [r \in OutRegisters |-> outHw[r]]
    /\ outHw["mute"] = TRUE => \E c \in OutputContexts : Pending(tasks[c].todo)

LEMMA AnsweredCat ==
  ASSUME NEW p, NEW q, Answered(p), Answered(q)
  PROVE  Answered(p \o q) /\ (Pending(p) \/ Pending(q) <=> Pending(p \o q))
<1>1. p \in Seq(StepNames) /\ q \in Seq(StepNames) /\ Len(p) \in Nat /\ Len(q) \in Nat
  BY DEF Answered
<1>2. p \o q \in Seq(StepNames) /\ Len(p \o q) = Len(p) + Len(q)
  BY <1>1
<1>3. \A i \in 1..Len(p) : (p \o q)[i] = p[i]
  BY <1>1
<1>4. \A i \in 1..Len(q) : (p \o q)[Len(p) + i] = q[i]
  BY <1>1
<1>5. ASSUME NEW i \in 1..Len(p \o q), (p \o q)[i] = "mute"
      PROVE  \E j \in (i + 1)..Len(p \o q) : (p \o q)[j] = "unmute"
  <2>1. CASE i \in 1..Len(p)
    <3>1. PICK j \in (i + 1)..Len(p) : p[j] = "unmute"
      BY <1>3, <1>5, <2>1 DEF Answered
    <3>2. QED
      BY <1>1, <1>2, <1>3, <2>1, <3>1
  <2>2. CASE i \notin 1..Len(p)
    <3>1. PICK k : k = i - Len(p)
      OBVIOUS
    <3>2. k \in 1..Len(q) /\ i = Len(p) + k
      BY <1>1, <1>2, <2>2, <3>1
    <3>3. PICK j \in (k + 1)..Len(q) : q[j] = "unmute"
      BY <1>4, <1>5, <3>2 DEF Answered
    <3>4. (p \o q)[Len(p) + j] = "unmute" /\ Len(p) + j \in (i + 1)..Len(p \o q)
      BY <1>1, <1>2, <1>4, <3>2, <3>3
    <3>5. QED
      BY <3>4
  <2>3. QED
    BY <2>1, <2>2
<1>6. Pending(p) => Pending(p \o q)
  BY <1>1, <1>2, <1>3 DEF Pending
<1>7. Pending(q) => Pending(p \o q)
  <2>1. ASSUME NEW j \in 1..Len(q), q[j] = "unmute" PROVE Pending(p \o q)
    <3>1. (p \o q)[Len(p) + j] = "unmute" /\ Len(p) + j \in 1..Len(p \o q)
      BY <1>1, <1>2, <1>4, <2>1
    <3>2. QED
      BY <3>1 DEF Pending
  <2>2. QED
    BY <2>1 DEF Pending
<1>8. Pending(p \o q) => Pending(p) \/ Pending(q)
  <2>1. ASSUME NEW j \in 1..Len(p \o q), (p \o q)[j] = "unmute" PROVE Pending(p) \/ Pending(q)
    <3>1. CASE j \in 1..Len(p)
      BY <1>3, <2>1, <3>1 DEF Pending
    <3>2. CASE j \notin 1..Len(p)
      <4>1. PICK k : k = j - Len(p)
        OBVIOUS
      <4>2. k \in 1..Len(q) /\ j = Len(p) + k
        BY <1>1, <1>2, <3>2, <4>1
      <4>3. q[k] = "unmute"
        BY <1>4, <2>1, <4>2
      <4>4. QED
        BY <4>2, <4>3 DEF Pending
    <3>3. QED
      BY <3>1, <3>2
  <2>2. QED
    BY <2>1 DEF Pending
<1>9. QED
  BY <1>2, <1>5, <1>6, <1>7, <1>8 DEF Answered

\* A step is taken off: what it answers is still to come, and what would unmute is too,
\* unless the step was that.
LEMMA AnsweredTail ==
  ASSUME NEW q, Answered(q), q # <<>>
  PROVE  /\ Answered(Tail(q))
         /\ Pending(q) /\ Head(q) # "unmute" => Pending(Tail(q))
         /\ Head(q) = "mute" => Pending(Tail(q))
<1>1. q \in Seq(StepNames) /\ Len(q) \in Nat \ {0} /\ Head(q) = q[1]
  BY DEF Answered
<1>2. Tail(q) \in Seq(StepNames) /\ Len(Tail(q)) = Len(q) - 1
  BY <1>1
<1>3. \A i \in 1..(Len(q) - 1) : Tail(q)[i] = q[i + 1]
  BY <1>1
<1>4. ASSUME NEW j \in 2..Len(q), q[j] = "unmute"
      PROVE  j - 1 \in 1..Len(Tail(q)) /\ Tail(q)[j - 1] = "unmute"
  BY <1>1, <1>2, <1>3, <1>4
<1>5. ASSUME NEW i \in 1..Len(Tail(q)), Tail(q)[i] = "mute"
      PROVE  \E j \in (i + 1)..Len(Tail(q)) : Tail(q)[j] = "unmute"
  <2>1. i + 1 \in 1..Len(q) /\ q[i + 1] = "mute"
    BY <1>1, <1>2, <1>3, <1>5
  <2>2. PICK j \in (i + 2)..Len(q) : q[j] = "unmute"
    BY <1>1, <2>1 DEF Answered
  <2>3. j - 1 \in (i + 1)..Len(Tail(q)) /\ Tail(q)[j - 1] = "unmute"
    BY <1>1, <1>2, <1>4, <2>2
  <2>4. QED
    BY <2>3
<1>6. Pending(q) /\ Head(q) # "unmute" => Pending(Tail(q))
  <2>1. ASSUME NEW j \in 1..Len(q), q[j] = "unmute", q[1] # "unmute" PROVE Pending(Tail(q))
    <3>1. j \in 2..Len(q)
      BY <1>1, <2>1
    <3>2. QED
      BY <1>4, <2>1, <3>1 DEF Pending
  <2>2. QED
    BY <1>1, <2>1 DEF Pending
<1>7. Head(q) = "mute" => Pending(Tail(q))
  <2>1. ASSUME q[1] = "mute" PROVE Pending(Tail(q))
    <3>1. PICK j \in 2..Len(q) : q[j] = "unmute"
      BY <1>1, <2>1 DEF Answered
    <3>2. QED
      BY <1>4, <3>1 DEF Pending
  <2>2. QED
    BY <1>1, <2>1
<1>8. QED
  BY <1>2, <1>5, <1>6, <1>7 DEF Answered

LEMMA ShortAnswered ==
  ASSUME NEW x \in StepNames \ {"mute"}, NEW y \in StepNames \ {"mute"}, NEW z \in StepNames \ {"mute"}
  PROVE  Answered(<<x>>) /\ Answered(<<x, y>>) /\ Answered(<<x, y, z>>)
<1>1. Answered(<<x>>)
  BY DEF Answered
<1>2. Answered(<<x, y>>)
  BY DEF Answered
<1>3. Answered(<<x, y, z>>)
  BY DEF Answered
<1>4. QED
  BY <1>1, <1>2, <1>3

\* Every function of the driver that mutes the DSP unmutes it further down.
LEMMA FunctionsAnswered ==
  /\ Answered(<<>>) /\ ~Pending(<<>>)
  /\ Answered(Selection) /\ Answered(PeSwitchSet) /\ Answered(Bringup)
  /\ Answered(Selection \o <<"report">>) /\ Answered(Bringup \o PeSwitchSet)
  /\ \A b \in BOOLEAN : Answered(Branch(b))
  /\ Answered(<<"xbass">>) /\ Answered(<<"surround">>) /\ Answered(<<"gain_put">>)
  /\ Answered(<<"range", "end">>) /\ Answered(<<"bass_put", "end">>)
  /\ Answered(<<"slider">>) /\ Answered(<<"volume">>)
<1>0. \A s \in {"choose", "switch", "end", "xbass", "surround", "gain_put", "slider", "volume", "report",
                "range", "bass_put", "pins", "config", "eq"} : s \in StepNames \ {"mute"}
  BY DEF StepNames
<1>1. Answered(<<>>) /\ ~Pending(<<>>)
  BY DEF Answered, Pending
<1>2. Answered(Selection)
  <2>1. Answered(<<"choose", "switch", "end">>)
    BY <1>0, ShortAnswered, Zenon
  <2>2. ASSUME NEW q, q = <<"choose", "mute", "relay", "invert", "port", "gain", "switch", "eq", "bass",
                            "unmute", "range", "end">>
        PROVE  Answered(q)
    <3>1. q \in Seq(StepNames) /\ Len(q) = 12 /\ q[10] = "unmute"
      BY <2>2 DEF StepNames
    <3>2. \A i \in 1..12 : q[i] = "mute" => i = 2
      BY <2>2
    <3>3. QED
      BY <3>1, <3>2 DEF Answered
  <2>3. \/ Selection = <<"choose", "switch", "end">>
        \/ Selection = <<"choose", "mute", "relay", "invert", "port", "gain", "switch", "eq", "bass",
                         "unmute", "range", "end">>
    BY Zenon DEF Selection
  <2>4. QED
    BY <2>1, <2>2, <2>3, Zenon
<1>3. /\ Answered(<<"xbass">>) /\ Answered(<<"surround">>) /\ Answered(<<"gain_put">>) /\ Answered(<<"slider">>)
      /\ Answered(<<"volume">>) /\ Answered(<<"report">>)
  BY <1>0, ShortAnswered, Zenon
<1>4. /\ Answered(<<"range", "end">>) /\ Answered(<<"bass_put", "end">>) /\ Answered(<<"surround", "xbass">>)
      /\ Answered(<<"pins", "config">>)
  BY <1>0, ShortAnswered, Zenon
<1>5. Answered(<<"config", "eq", "pins">>) /\ Answered(<<"volume", "surround", "xbass">>)
  BY <1>0, ShortAnswered, Zenon
<1>6. Answered(PeSwitchSet) /\ Answered(Bringup)
  <2>1. /\ \/ PeSwitchSet = <<>> \o <<"surround", "xbass">>
           \/ PeSwitchSet = Selection \o <<"surround", "xbass">>
        /\ \/ Bringup = <<>> \o Selection
           \/ Bringup = <<"volume", "surround", "xbass">> \o Selection
    BY Zenon DEF PeSwitchSet, Bringup
  <2>2. \A q : Answered(q) => Answered(<<>> \o q) /\ Answered(<<"volume", "surround", "xbass">> \o q)
    BY <1>1, <1>5, AnsweredCat, Zenon
  <2>3. Answered(Selection \o <<"surround", "xbass">>)
    BY <1>2, <1>4, AnsweredCat, Zenon
  <2>4. QED
    BY <1>2, <1>4, <2>1, <2>2, <2>3, Zenon
<1>7. Answered(Selection \o <<"report">>) /\ Answered(Bringup \o PeSwitchSet)
  BY <1>2, <1>3, <1>6, AnsweredCat, Zenon
<1>8. \A b \in BOOLEAN : Answered(Branch(b))
  <2>1. /\ Answered(<<"pins", "config">> \o <<"xbass">>) /\ Answered(<<"pins", "config">> \o <<>>)
    BY <1>1, <1>3, <1>4, AnsweredCat, Zenon
  <2>2. QED
    BY <1>5, <2>1, Zenon DEF Branch
<1>9. QED
  BY <1>1, <1>2, <1>3, <1>4, <1>6, <1>7, <1>8, Zenon

\* A context goes on with another task, and the DSP is muted only if it was, or if that
\* task will unmute it.
LEMMA TaskGoesOn ==
  ASSUME MuteInv, ~failed, NEW c \in OutputContexts, NEW t, IsTask(t), tasks' = [tasks EXCEPT ![c] = t],
         outHw' = [r \in OutRegisters |-> outHw'[r]],
         outHw'["mute"] = TRUE =>
           Pending(t.todo) \/ (outHw["mute"] = TRUE /\ (Pending(tasks[c].todo) => Pending(t.todo)))
  PROVE  MuteInv'
<1>1. /\ tasks = [d \in OutputContexts |-> tasks[d]] /\ \A d \in OutputContexts : IsTask(tasks[d])
      /\ outHw["mute"] = TRUE => \E d \in OutputContexts : Pending(tasks[d].todo)
  BY Zenon DEF MuteInv
<1>2. /\ tasks' = [d \in OutputContexts |-> tasks'[d]] /\ tasks'[c] = t
      /\ \A d \in OutputContexts : d # c => tasks'[d] = tasks[d]
  BY <1>1
<1>3. \A d \in OutputContexts : IsTask(tasks'[d])
  BY <1>1, <1>2, Zenon
<1>4. outHw'["mute"] = TRUE => \E d \in OutputContexts : Pending(tasks'[d].todo)
  <2>1. CASE Pending(t.todo)
    BY <1>2, <2>1, Zenon
  <2>2. CASE ~Pending(t.todo) /\ outHw["mute"] = TRUE /\ ~Pending(tasks[c].todo)
    <3>1. PICK d \in OutputContexts : Pending(tasks[d].todo)
      BY <1>1, <2>2, Zenon
    <3>2. d # c
      BY <2>2, <3>1, Zenon
    <3>3. QED
      BY <1>2, <3>1, <3>2, Zenon
  <2>3. QED
    BY <2>1, <2>2, Zenon
<1>5. QED
  BY <1>2, <1>3, <1>4, Zenon DEF MuteInv

LEMMA RunsKeeps ==
  ASSUME MuteInv, NEW c \in OutputContexts, NEW p, Answered(p), Runs(c, p), outHw' = outHw, failed' = failed
  PROVE  MuteInv'
<1>1. CASE failed
  BY <1>1, Zenon DEF MuteInv
<1>2. CASE ~failed
  <2>1. PICK t : t = [NoTask EXCEPT !.todo = p]
    OBVIOUS
  <2>2. t = [f \in TaskFields |-> t[f]] /\ t.todo = p
    BY <2>1 DEF NoTask, TaskFields
  <2>3. IsTask(t)
    BY <2>2, Zenon DEF IsTask
  <2>4. tasks' = [tasks EXCEPT ![c] = t] /\ tasks[c].todo = <<>>
    BY <2>1, Zenon DEF Runs
  <2>5. ~Pending(tasks[c].todo)
    BY <2>4, FunctionsAnswered, Zenon
  <2>6. outHw = [r \in OutRegisters |-> outHw[r]]
    BY <1>2, Zenon DEF MuteInv
  <2>7. outHw' = [r \in OutRegisters |-> outHw'[r]]
    BY <2>6
  <2>8. QED
    BY <1>2, <2>3, <2>4, <2>5, <2>7, TaskGoesOn, Zenon
<1>3. QED
  BY <1>1, <1>2, Zenon

LEMMA StoreKeeps ==
  ASSUME MuteInv, NEW c \in OutputContexts, NEW control, NEW value, NEW p, Answered(p), Store(c, control, value, p)
  PROVE  MuteInv'
<1>1. Runs(c, p) /\ outHw' = outHw /\ failed' = failed
  BY Zenon DEF Store
<1>2. QED
  BY <1>1, RunsKeeps, Zenon

\* Every put starts a function that unmutes what it mutes, or none.
LEMMA PutsKeep ==
  ASSUME MuteInv,
         \/ \E c \in OutputContexts : OutputPut(c) \/ PePut(c)
         \/ AutoPut \/ EffectPut \/ ChannelsPut \/ GainPut \/ RangePut \/ BassPut \/ SliderPut \/ VolumePut
  PROVE  MuteInv'
<1>0. "mixer" \in OutputContexts
  BY DEF OutputContexts
<1>1. ASSUME NEW c \in OutputContexts, OutputPut(c) PROVE MuteInv'
  <2>1. PICK out, p : Store(c, "out", out, p) /\ p = (IF mixer.auto THEN <<>> ELSE Selection)
    BY <1>1, Zenon DEF OutputPut
  <2>2. Answered(p)
    BY <2>1, FunctionsAnswered, Zenon
  <2>3. QED
    BY <2>1, <2>2, StoreKeeps, Zenon
<1>2. ASSUME NEW c \in OutputContexts, PePut(c) PROVE MuteInv'
  <2>1. PICK x : Store(c, "pe", x, PeSwitchSet)
    BY <1>2, Zenon DEF PePut
  <2>2. QED
    BY <2>1, StoreKeeps, FunctionsAnswered, Zenon
<1>3. ASSUME AutoPut PROVE MuteInv'
  BY <1>0, <1>3, StoreKeeps, FunctionsAnswered, Zenon DEF AutoPut
<1>4. ASSUME EffectPut PROVE MuteInv'
  <2>1. PICK e \in {"xbass", "surround"} : Store("mixer", e, ~mixer[e], <<e>>)
    BY <1>4, Zenon DEF EffectPut
  <2>2. Answered(<<e>>)
    BY FunctionsAnswered, Zenon
  <2>3. QED
    BY <1>0, <2>1, <2>2, StoreKeeps, Zenon
<1>5. ASSUME ChannelsPut PROVE MuteInv'
  <2>1. PICK n, p : Store("mixer", "channels", n, p) /\ p = (IF mixer.out = "spk" THEN Selection ELSE <<>>)
    BY <1>5, Zenon DEF ChannelsPut
  <2>2. Answered(p)
    BY <2>1, FunctionsAnswered, Zenon
  <2>3. QED
    BY <1>0, <2>1, <2>2, StoreKeeps, Zenon
<1>6. ASSUME GainPut PROVE MuteInv'
  <2>1. PICK x, p : Store("mixer", "gain", x, p) /\ p = (IF mixer.out = "hp" THEN <<"gain_put">> ELSE <<>>)
    BY <1>6, Zenon DEF GainPut
  <2>2. Answered(p)
    BY <2>1, FunctionsAnswered, Zenon
  <2>3. QED
    BY <1>0, <2>1, <2>2, StoreKeeps, Zenon
<1>7. ASSUME RangePut PROVE MuteInv'
  <2>1. PICK x, p : Store("mixer", "range", x, p) /\ p = (IF cur = "spk" THEN <<"range", "end">> ELSE <<>>)
    BY <1>7, Zenon DEF RangePut
  <2>2. Answered(p)
    BY <2>1, FunctionsAnswered, Zenon
  <2>3. QED
    BY <1>0, <2>1, <2>2, StoreKeeps, Zenon
<1>8. ASSUME BassPut PROVE MuteInv'
  <2>1. PICK x, p : Store("mixer", "bass", x, p) /\ p = (IF cur = "spk" THEN <<"bass_put", "end">> ELSE <<>>)
    BY <1>8, Zenon DEF BassPut
  <2>2. Answered(p)
    BY <2>1, FunctionsAnswered, Zenon
  <2>3. QED
    BY <1>0, <2>1, <2>2, StoreKeeps, Zenon
<1>9. ASSUME SliderPut PROVE MuteInv'
  <2>1. PICK v, p : Store("mixer", "slider", v, p) /\ p = (IF v = mixer.slider THEN <<>> ELSE <<"slider">>)
    BY <1>9, Zenon DEF SliderPut
  <2>2. Answered(p)
    BY <2>1, FunctionsAnswered, Zenon
  <2>3. QED
    BY <1>0, <2>1, <2>2, StoreKeeps, Zenon
<1>10. ASSUME VolumePut PROVE MuteInv'
  BY <1>0, <1>10, StoreKeeps, FunctionsAnswered, Zenon DEF VolumePut
<1>11. QED
  BY <1>1, <1>2, <1>3, <1>4, <1>5, <1>6, <1>7, <1>8, <1>9, <1>10, Zenon

\* The DSP that a resume has loaded is not muted.
LEMMA ReloadKeeps ==
  ASSUME MuteInv, ResumeReload
  PROVE  MuteInv'
<1>1. /\ tasks' = [tasks EXCEPT !["pm"] = [NoTask EXCEPT !.todo = Bringup \o PeSwitchSet]]
      /\ outHw' = Unset /\ failed' = failed
  BY Zenon DEF ResumeReload, Reload
<1>2. CASE failed
  BY <1>1, <1>2, Zenon DEF MuteInv
<1>3. CASE ~failed
  <2>1. PICK p : p = Bringup \o PeSwitchSet
    OBVIOUS
  <2>2. PICK t : t = [NoTask EXCEPT !.todo = p]
    OBVIOUS
  <2>3. t = [f \in TaskFields |-> t[f]] /\ t.todo = p
    BY <2>2 DEF NoTask, TaskFields
  <2>4. IsTask(t)
    BY <2>1, <2>3, FunctionsAnswered, Zenon DEF IsTask
  <2>5. tasks' = [tasks EXCEPT !["pm"] = t] /\ "pm" \in OutputContexts
    BY <1>1, <2>1, <2>2 DEF OutputContexts
  <2>6. outHw' = [r \in OutRegisters |-> outHw'[r]] /\ ~(outHw'["mute"] = TRUE)
    <3>1. "mute" \in OutRegisters /\ outHw' = Unset
      BY <1>1 DEF OutRegisters, Selected
    <3>2. Unset["mute"] = FALSE
      BY <3>1 DEF Unset
    <3>3. Unset = [r \in OutRegisters |-> Unset[r]]
      BY DEF Unset
    <3>4. QED
      BY <3>1, <3>2, <3>3, Zenon
  <2>7. QED
    BY <1>3, <2>4, <2>5, <2>6, TaskGoesOn, Zenon
<1>4. QED
  BY <1>2, <1>3, Zenon

\* A step is done, and the end of its function behind it is passed.
LEMMA TodoIs ==
  ASSUME NEW c \in OutputContexts, NEW rest, Answered(rest), Todo(c, rest),
         tasks = [d \in OutputContexts |-> tasks[d]], IsTask(tasks[c])
  PROVE  \E t : /\ IsTask(t) /\ tasks' = [tasks EXCEPT ![c] = t]
                /\ Pending(rest) => Pending(t.todo)
<1>1. PICK q : q = IF rest # <<>> /\ Head(rest) = "end" THEN Tail(rest) ELSE rest
  OBVIOUS
<1>2. Answered(q) /\ (Pending(rest) => Pending(q))
  <2>1. CASE rest # <<>> /\ Head(rest) = "end"
    <3>1. Head(rest) # "unmute" /\ q = Tail(rest)
      BY <1>1, <2>1
    <3>2. QED
      BY <2>1, <3>1, AnsweredTail, Zenon
  <2>2. CASE ~(rest # <<>> /\ Head(rest) = "end")
    BY <1>1, <2>2, Zenon
  <2>3. QED
    BY <2>1, <2>2, Zenon
<1>3. PICK t : t = [tasks[c] EXCEPT !.todo = q]
  OBVIOUS
<1>4. t = [f \in TaskFields |-> t[f]] /\ t.todo = q
  BY <1>3 DEF IsTask, TaskFields
<1>5. tasks' = [tasks EXCEPT ![c] = t]
  BY <1>1, <1>3 DEF Todo
<1>6. QED
  BY <1>2, <1>4, <1>5, Zenon DEF IsTask

LEMMA TodoKeeps ==
  ASSUME MuteInv, ~failed, NEW c \in OutputContexts, NEW rest, Answered(rest), Todo(c, rest),
         outHw' = [r \in OutRegisters |-> outHw'[r]],
         outHw'["mute"] = TRUE =>
           Pending(rest) \/ (outHw["mute"] = TRUE /\ (Pending(tasks[c].todo) => Pending(rest)))
  PROVE  MuteInv'
<1>1. tasks = [d \in OutputContexts |-> tasks[d]] /\ IsTask(tasks[c])
  BY Zenon DEF MuteInv
<1>2. PICK t : IsTask(t) /\ tasks' = [tasks EXCEPT ![c] = t] /\ (Pending(rest) => Pending(t.todo))
  BY <1>1, TodoIs, Zenon
<1>3. QED
  BY <1>2, TaskGoesOn, Zenon

\* What a step of the function leaves to be done
LEMMA StepLeaves ==
  ASSUME MuteInv, ~failed, NEW c \in OutputContexts, tasks[c].todo # <<>>
  PROVE  /\ Answered(tasks[c].todo) /\ Answered(Tail(tasks[c].todo))
         /\ Pending(tasks[c].todo) /\ Head(tasks[c].todo) # "unmute" => Pending(Tail(tasks[c].todo))
         /\ Head(tasks[c].todo) = "mute" => Pending(Tail(tasks[c].todo))
<1>1. Answered(tasks[c].todo)
  BY Zenon DEF MuteInv, IsTask
<1>2. QED
  BY <1>1, AnsweredTail, Zenon

LEMMA ChooseKeeps ==
  ASSUME MuteInv, NEW c \in OutputContexts, Choose(c)
  PROVE  MuteInv'
<1>1. /\ tasks[c].todo # <<>> /\ Head(tasks[c].todo) = "choose"
      /\ tasks' = [tasks EXCEPT ![c].todo = Tail(@), ![c].fx = mixer.pe]
      /\ outHw' = outHw /\ failed' = failed
  BY Zenon DEF Choose
<1>2. CASE failed
  BY <1>1, <1>2, Zenon DEF MuteInv
<1>3. CASE ~failed
  <2>1. tasks = [d \in OutputContexts |-> tasks[d]] /\ IsTask(tasks[c]) /\ outHw = [r \in OutRegisters |-> outHw[r]]
    BY <1>3, Zenon DEF MuteInv
  <2>2. PICK t : t = [tasks[c] EXCEPT !.todo = Tail(tasks[c].todo), !.fx = mixer.pe]
    OBVIOUS
  <2>3. t = [f \in TaskFields |-> t[f]] /\ t.todo = Tail(tasks[c].todo)
    BY <2>1, <2>2 DEF IsTask, TaskFields
  <2>4. Head(tasks[c].todo) # "unmute"
    BY <1>1
  <2>5. IsTask(t) /\ (Pending(tasks[c].todo) => Pending(t.todo))
    BY <1>1, <1>3, <2>3, <2>4, StepLeaves, Zenon DEF IsTask
  <2>6. tasks' = [tasks EXCEPT ![c] = t]
    BY <1>1, <2>1, <2>2
  <2>7. outHw' = [r \in OutRegisters |-> outHw'[r]]
    BY <1>1, <2>1
  <2>8. QED
    BY <1>1, <1>3, <2>5, <2>6, <2>7, TaskGoesOn, Zenon
<1>4. QED
  BY <1>2, <1>3, Zenon

LEMMA PassKeeps ==
  ASSUME MuteInv, NEW c \in OutputContexts, Pass(c)
  PROVE  MuteInv'
<1>1. tasks[c].todo # <<>> /\ outHw' = outHw /\ failed' = failed
  BY Zenon DEF Pass
<1>2. CASE failed
  BY <1>1, <1>2, Zenon DEF MuteInv
<1>3. CASE ~failed
  <2>1. tasks = [d \in OutputContexts |-> tasks[d]] /\ IsTask(tasks[c]) /\ outHw = [r \in OutRegisters |-> outHw[r]]
    BY <1>3, Zenon DEF MuteInv
  <2>2. outHw' = [r \in OutRegisters |-> outHw'[r]]
    BY <1>1, <2>1
  <2>3. PICK s, rest : s = Head(tasks[c].todo) /\ rest = Tail(tasks[c].todo)
    BY Zenon
  <2>4. Answered(rest) /\ (Pending(tasks[c].todo) /\ s # "unmute" => Pending(rest))
    BY <1>1, <1>3, <2>3, StepLeaves, Zenon
  <2>5. CASE /\ s = "switch"
             /\ tasks' = [tasks EXCEPT ![c].branch = cur, ![c].todo = Branch(tasks[c].fx) \o rest]
    <3>1. PICK b : b = Branch(tasks[c].fx)
      OBVIOUS
    <3>2. PICK q : q = b \o rest
      OBVIOUS
    <3>3. Answered(b)
      <4>1. b = Branch(TRUE) \/ b = Branch(FALSE)
        BY <3>1, Zenon DEF Branch
      <4>2. TRUE \in BOOLEAN /\ FALSE \in BOOLEAN
        OBVIOUS
      <4>3. QED
        BY <4>1, <4>2, FunctionsAnswered, Zenon
    <3>4. Answered(q) /\ (Pending(rest) => Pending(q))
      BY <2>4, <3>2, <3>3, AnsweredCat, Zenon
    <3>5. PICK t : t = [tasks[c] EXCEPT !.branch = cur, !.todo = q]
      OBVIOUS
    <3>6. t = [f \in TaskFields |-> t[f]] /\ t.todo = q
      BY <2>1, <3>5 DEF IsTask, TaskFields
    <3>7. s # "unmute"
      BY <2>5
    <3>8. tasks' = [tasks EXCEPT ![c] = t]
      BY <2>1, <2>5, <3>1, <3>2, <3>5
    <3>9. IsTask(t) /\ (Pending(tasks[c].todo) => Pending(t.todo))
      BY <2>4, <3>4, <3>6, <3>7, Zenon DEF IsTask
    <3>10. QED
      BY <1>1, <1>3, <2>2, <3>8, <3>9, TaskGoesOn, Zenon
  <2>6. CASE s \in {"range", "volume", "report"} /\ Todo(c, rest)
    <3>1. s # "unmute"
      BY <2>6
    <3>2. QED
      BY <1>1, <1>3, <2>2, <2>4, <2>6, <3>1, TodoKeeps, Zenon
  <2>7. QED
    BY <2>3, <2>5, <2>6, Zenon DEF Pass
<1>4. QED
  BY <1>2, <1>3, Zenon

\* Only the two steps of a selection write whether the DSP is muted.
LEMMA MuteWritten ==
  ASSUME NEW s, RegisterOf(s) = "mute"
  PROVE  s = "mute" \/ s = "unmute"
  BY DEF RegisterOf

LEMMA WriteKeeps ==
  ASSUME MuteInv, NEW c \in OutputContexts, Write(c)
  PROVE  MuteInv'
<1>1. tasks[c].todo # <<>>
  BY Zenon DEF Write
<1>2. CASE failed'
  BY <1>2, Zenon DEF MuteInv
<1>3. CASE ~failed'
  <2>1. PICK s, rest : s = Head(tasks[c].todo) /\ rest = Tail(tasks[c].todo)
    BY Zenon
  <2>2. PICK v : v = Value(s, tasks[c].branch, tasks[c].fx)
    OBVIOUS
  <2>3. outHw' = [outHw EXCEPT ![RegisterOf(s)] = v] /\ Todo(c, rest) /\ ~failed
    <3>1. \/ /\ outHw' = [outHw EXCEPT ![RegisterOf(Head(tasks[c].todo))] =
                                 Value(Head(tasks[c].todo), tasks[c].branch, tasks[c].fx)]
             /\ Todo(c, Tail(tasks[c].todo)) /\ <<failed, outEvents>>' = <<failed, outEvents>>
          \/ failed' = TRUE
      BY Zenon DEF Write
    <3>2. CASE failed' = TRUE
      BY <1>3, <3>2, Zenon
    <3>3. CASE /\ outHw' = [outHw EXCEPT ![RegisterOf(Head(tasks[c].todo))] =
                                 Value(Head(tasks[c].todo), tasks[c].branch, tasks[c].fx)]
               /\ Todo(c, Tail(tasks[c].todo)) /\ <<failed, outEvents>>' = <<failed, outEvents>>
      <4>1. failed' = failed
        BY <3>3
      <4>2. QED
        BY <1>3, <2>1, <2>2, <3>3, <4>1, Zenon
    <3>4. QED
      BY <3>1, <3>2, <3>3, Zenon
  <2>4. tasks = [d \in OutputContexts |-> tasks[d]] /\ IsTask(tasks[c]) /\ outHw = [r \in OutRegisters |-> outHw[r]]
    BY <2>3, Zenon DEF MuteInv
  <2>5. outHw' = [r \in OutRegisters |-> outHw'[r]]
    BY <2>3, <2>4
  <2>6. /\ Answered(rest) /\ (Pending(tasks[c].todo) /\ s # "unmute" => Pending(rest))
        /\ s = "mute" => Pending(rest)
    BY <1>1, <2>1, <2>3, StepLeaves, Zenon
  <2>7. "mute" \in OutRegisters
    BY DEF OutRegisters, Selected
  <2>8. CASE s = "unmute"
    <3>1. v = FALSE /\ RegisterOf(s) = "mute"
      BY <2>2, <2>8 DEF Value, RegisterOf
    <3>2. outHw'["mute"] = FALSE
      BY <2>3, <2>4, <2>7, <3>1
    <3>3. QED
      BY <2>3, <2>5, <2>6, <3>2, TodoKeeps, Zenon
  <2>9. CASE s = "mute"
    BY <2>3, <2>5, <2>6, <2>9, TodoKeeps, Zenon
  <2>10. CASE s # "unmute" /\ s # "mute"
    <3>1. RegisterOf(s) # "mute"
      BY <2>10, MuteWritten
    <3>2. outHw'["mute"] = outHw["mute"]
      BY <2>3, <2>4, <2>7, <3>1
    <3>3. QED
      BY <2>3, <2>5, <2>6, <2>10, <3>2, TodoKeeps, Zenon
  <2>11. QED
    BY <2>8, <2>9, <2>10, Zenon
<1>4. QED
  BY <1>2, <1>3, Zenon

LEMMA MuteInitially == OutputInit => MuteInv
<1>1. SUFFICES ASSUME OutputInit PROVE MuteInv
  OBVIOUS
<1>2. \A c \in OutputContexts : \E p : Answered(p) /\ tasks[c] = [NoTask EXCEPT !.todo = p]
  <2>1. /\ Answered(Bringup) /\ Answered(<<>>)
        /\ tasks = [c \in OutputContexts |-> [NoTask EXCEPT !.todo = IF c = "pm" THEN Bringup ELSE <<>>]]
    BY <1>1, FunctionsAnswered, Zenon DEF OutputInit
  <2>2. \A c \in OutputContexts : tasks[c] = [NoTask EXCEPT !.todo = IF c = "pm" THEN Bringup ELSE <<>>]
    BY <2>1, Zenon
  <2>3. QED
    BY <2>1, <2>2, Zenon
<1>3. ASSUME NEW c \in OutputContexts PROVE IsTask(tasks[c])
  <2>1. PICK p : Answered(p) /\ tasks[c] = [NoTask EXCEPT !.todo = p]
    BY <1>2, Zenon
  <2>2. tasks[c] = [f \in TaskFields |-> tasks[c][f]] /\ tasks[c].todo = p
    BY <2>1 DEF NoTask, TaskFields
  <2>3. QED
    BY <2>1, <2>2, Zenon DEF IsTask
<1>4. tasks = [c \in OutputContexts |-> tasks[c]]
  BY <1>1 DEF OutputInit
<1>5. outHw = Unset /\ "mute" \in OutRegisters
  BY <1>1 DEF OutputInit, OutRegisters, Selected
<1>6. Unset["mute"] = FALSE /\ Unset = [r \in OutRegisters |-> Unset[r]]
  BY <1>5 DEF Unset
<1>7. QED
  BY <1>3, <1>4, <1>5, <1>6, Zenon DEF MuteInv

\* While no command has failed, the functions under way hold the unmute that a muted DSP
\* waits for (ca0132_alt_select_out), in whatever contexts they run.
THEOREM MuteInvariant == OutputSpec => []MuteInv
<1>1. MuteInv /\ [OutputNext]_outputVars => MuteInv'
  <2>1. ASSUME MuteInv, tasks' = tasks, outHw' = outHw, failed' = failed PROVE MuteInv'
    BY <2>1, Zenon DEF MuteInv
  <2>2. UNCHANGED outputVars => tasks' = tasks /\ outHw' = outHw /\ failed' = failed
    BY DEF outputVars
  <2>3. JackEvent \/ ResumeLoaded => tasks' = tasks /\ outHw' = outHw /\ failed' = failed
    BY Zenon DEF JackEvent, ResumeLoaded
  <2>4. ASSUME MuteInv, HpWork PROVE MuteInv'
    <3>1. Runs("hp", Selection \o <<"report">>) /\ outHw' = outHw /\ failed' = failed
      BY <2>4, Zenon DEF HpWork
    <3>2. "hp" \in OutputContexts
      BY DEF OutputContexts
    <3>3. QED
      BY <2>4, <3>1, <3>2, RunsKeeps, FunctionsAnswered, Zenon
  <2>5. ASSUME MuteInv, NEW c \in OutputContexts, OutputStep(c) PROVE MuteInv'
    BY <2>5, ChooseKeeps, PassKeeps, WriteKeeps, Zenon DEF OutputStep
  <2>6. QED
    BY <2>1, <2>2, <2>3, <2>4, <2>5, PutsKeep, ReloadKeeps, Zenon DEF OutputNext
<1>2. QED
  BY <1>1, MuteInitially, PTL DEF OutputSpec

\* Unmuted for any number of events: a settled card is muted only if a command failed.
THEOREM NeverLeftMuted == OutputSpec => []Unmuted
<1>1. MuteInv => Unmuted
  <2>1. SUFFICES ASSUME MuteInv, Quiet, outHw["mute"] = TRUE, ~failed PROVE FALSE
    BY Zenon DEF Unmuted
  <2>2. PICK c \in OutputContexts : Pending(tasks[c].todo)
    BY <2>1, Zenon DEF MuteInv
  <2>3. tasks[c].todo = <<>>
    BY <2>1, <2>2, Zenon DEF Quiet
  <2>4. QED
    BY <2>2, <2>3, FunctionsAnswered, Zenon
<1>2. QED
  BY <1>1, MuteInvariant, PTL

-----------------------------------------------------------------------------
(* OutputSelect: the registers follow the settings.  First, what programs  *)
(* of steps have in common, on the card they are for.                      *)

\* The steps of a card's functions; those that fail with the rest of a selection; those
\* that a branch of a selection is made of; those that every selection has.
PlainSteps == {"choose", "switch", "config", "eq", "pins", "end", "surround", "xbass", "report"}
CardSteps(card) == IF card = "plain" THEN PlainSteps ELSE StepNames
SelectedSteps == {"mute", "relay", "invert", "port", "gain", "switch", "eq", "bass", "unmute", "range",
                  "pins", "config", "xbass", "bass_put"}
BranchSteps(card) == {"pins", "config"} \cup (IF card = "plain" THEN {"eq"} ELSE {})
Rewritten(card) ==
  IF card = "plain" THEN {"switch"}
  ELSE {"relay", "invert", "port", "gain", "switch", "eq", "bass", "unmute", "range"}

Has(q, s) == \E i \in 1..Len(q) : q[i] = s

\* From a step of from on there are only steps of via until step to comes, and it does.
Until(q, from, to, via) ==
  \A i \in 1..Len(q) : q[i] \in from =>
    \E j \in (i + 1)..Len(q) : q[j] = to /\ \A k \in i..(j - 1) : q[k] \in via

\* From place i on, the steps of guarded come only after step first.
Guarded(q, i, guarded, first) ==
  \A k \in i..Len(q) : q[k] \in guarded => \E j \in i..(k - 1) : q[j] = first

ChooseFirst(q, card) == Guarded(q, 1, BranchSteps(card) \cup {"switch"}, "choose")
SwitchFirst(q, card) == Guarded(q, 1, BranchSteps(card), "switch")
AfterEnd(q, card) ==
  \A i \in 1..Len(q) : q[i] = "end" => Guarded(q, i + 1, BranchSteps(card) \cup {"switch"}, "choose")

Laws(q, card) ==
  /\ Until(q, {"mute"}, "unmute", StepNames)
  /\ Until(q, Checked \cup {"switch"}, "end", SelectedSteps)
  /\ Until(q, {"choose"}, "switch", StepNames \ BranchSteps(card))
  /\ \A x \in Rewritten(card) : Until(q, {"choose"}, x, StepNames)

\* Puts of one control
Single(q) ==
  /\ Has(q, "gain_put") => q = <<"gain_put">>
  /\ Has(q, "bass_put") => q = <<"bass_put", "end">>

Obeys(q, card) == q \in Seq(CardSteps(card)) /\ Laws(q, card) /\ AfterEnd(q, card) /\ Single(q)

-----------------------------------------------------------------------------
(* A register is right, or about to be.                                    *)

Stale == hpWork \/ "output" \in missed

\* A register that a selection will write again, whatever it holds now
Excused(r) == r \in Selected /\ (r = "xbass" => mixer.pe /\ ~Plain) /\ (Stale \/ Excepted(r))

\* Step s, or what a switch stands for, writes register r, and leaves it as wanted.
BranchRegisters(pe, card) == BranchSteps(card) \cup (IF card # "plain" /\ pe THEN {"xbass"} ELSE {})
WritesTo(s, r, pe, card) == (s # "mute" /\ RegisterOf(s) = r) \/ (s = "switch" /\ r \in BranchRegisters(pe, card))
PendsIn(q, r, pe, card) == \E i \in 1..Len(q) : WritesTo(q[i], r, pe, card)

MixerFields == {"auto", "out", "pe", "xbass", "surround", "channels", "gain", "range", "bass", "slider"}
MixerOK ==
  /\ mixer = [f \in MixerFields |-> mixer[f]]
  /\ mixer.auto \in BOOLEAN /\ mixer.pe \in BOOLEAN /\ mixer.xbass \in BOOLEAN /\ mixer.surround \in BOOLEAN
  /\ mixer.range \in BOOLEAN /\ mixer.bass \in BOOLEAN /\ mixer.out \in Outputs
  /\ mixer.channels \in {"2.0", "5.1"} /\ cur \in Outputs
  /\ lost \subseteq OutRegisters

TaskShape(t) == t = [f \in TaskFields |-> t[f]]
HwShape(hw) == hw = [r \in OutRegisters |-> hw[r]]
TasksOK ==
  /\ tasks = [c \in OutputContexts |-> tasks[c]]
  /\ \A c \in OutputContexts : TaskShape(tasks[c]) /\ Obeys(tasks[c].todo, outCard)
  /\ HwShape(outHw)

\* The plain card's functions write neither of these.
NotOnPlain == {"mute", "relay", "invert", "port", "gain", "bass", "range", "slider", "volume"}
PlainOK == Plain => mixer.channels = "2.0" /\ NotOnPlain \subseteq lost /\ ~zeroed

\* The output in use is the one asked for, or somebody will choose.
OutputKnown == cur = WantedOutput \/ Stale \/ \E c \in OutputContexts : Has(tasks[c].todo, "choose")

\* A function that runs alone works with the output and the effects there are, or will
\* look at them before it uses them.
Sole == \A c, d \in OutputContexts : c # d => tasks[c].todo = <<>> \/ tasks[d].todo = <<>>
Current(t, card, out, settings) ==
  /\ SwitchFirst(t.todo, card) \/ t.branch = out
  /\ ChooseFirst(t.todo, card) \/ t.fx = settings.pe
  /\ Has(t.todo, "gain_put") => settings.auto \/ settings.out = "hp"
  /\ Has(t.todo, "bass_put") => out = "spk"
AloneOK == ~overlap => Sole /\ \A c \in OutputContexts : Current(tasks[c], outCard, cur, mixer)

Pends(r) == \E c \in OutputContexts : PendsIn(tasks[c].todo, r, mixer.pe, outCard)
RegistersOK ==
  IF overlap THEN lost = OutRegisters
  ELSE \A r \in OutRegisters \ lost : outHw[r] = Wanted(r) \/ Excused(r) \/ Pends(r)

VolumeOK == zeroed => outHw["volume"] = "unity" \/ (failed /\ "volume" \in lost)
RearOK == "rear" \in blocked => hpWork \/ "report" \in missed \/ \E c \in OutputContexts : Has(tasks[c].todo, "report")

FollowInv == MixerOK /\ TasksOK /\ PlainOK /\ OutputKnown /\ AloneOK /\ RegistersOK /\ VolumeOK /\ RearOK

-----------------------------------------------------------------------------
(* Programs that are cut and joined.                                       *)

\* p is what is left of q after m steps.
Drops(p, q, m) ==
  /\ m \in 0..Len(q) /\ p \in Seq(StepNames) /\ Len(p) = Len(q) - m
  /\ \A i \in 1..Len(p) : p[i] = q[m + i]

\* pq is p and then q.
Joins(pq, p, q) ==
  /\ Len(pq) = Len(p) + Len(q)
  /\ \A i \in 1..Len(p) : pq[i] = p[i]
  /\ \A i \in 1..Len(q) : pq[Len(p) + i] = q[i]

LEMMA JoinIs ==
  ASSUME NEW S, NEW p \in Seq(S), NEW q \in Seq(S)
  PROVE  p \o q \in Seq(S) /\ Len(p) \in Nat /\ Len(q) \in Nat /\ Joins(p \o q, p, q)
  BY DEF Joins

LEMMA UntilDrops ==
  ASSUME NEW p, NEW q, NEW m, Drops(p, q, m), Len(q) \in Nat, NEW from, NEW to, NEW via, Until(q, from, to, via)
  PROVE  Until(p, from, to, via)
<1>1. SUFFICES ASSUME NEW i \in 1..Len(p), p[i] \in from
               PROVE  \E j \in (i + 1)..Len(p) : p[j] = to /\ \A k \in i..(j - 1) : p[k] \in via
  BY DEF Until
<1>2. m \in 0..Len(q) /\ Len(p) = Len(q) - m /\ Len(p) \in Nat
  BY DEF Drops
<1>3. m + i \in 1..Len(q) /\ q[m + i] \in from
  BY <1>1, <1>2 DEF Drops
<1>4. PICK j \in (m + i + 1)..Len(q) : q[j] = to /\ \A k \in (m + i)..(j - 1) : q[k] \in via
  BY <1>3 DEF Until
<1>5. PICK n : n = j - m
  OBVIOUS
<1>6. n \in (i + 1)..Len(p) /\ j = m + n
  BY <1>1, <1>2, <1>4, <1>5
<1>7. p[n] = to
  BY <1>1, <1>4, <1>6 DEF Drops
<1>8. ASSUME NEW k \in i..(n - 1) PROVE p[k] \in via
  <2>1. k \in 1..Len(p) /\ m + k \in (m + i)..(j - 1)
    BY <1>1, <1>2, <1>6
  <2>2. QED
    BY <1>4, <2>1 DEF Drops
<1>9. QED
  BY <1>6, <1>7, <1>8

LEMMA UntilJoins ==
  ASSUME NEW p, NEW q, NEW pq, Joins(pq, p, q), Len(p) \in Nat, Len(q) \in Nat,
         NEW from, NEW to, NEW via, Until(p, from, to, via), Until(q, from, to, via)
  PROVE  Until(pq, from, to, via)
<1>1. SUFFICES ASSUME NEW i \in 1..Len(pq), pq[i] \in from
               PROVE  \E j \in (i + 1)..Len(pq) : pq[j] = to /\ \A k \in i..(j - 1) : pq[k] \in via
  BY DEF Until
<1>2. CASE i \in 1..Len(p)
  <2>1. PICK j \in (i + 1)..Len(p) : p[j] = to /\ \A k \in i..(j - 1) : p[k] \in via
    BY <1>1, <1>2 DEF Until, Joins
  <2>2. j \in (i + 1)..Len(pq) /\ pq[j] = to
    BY <1>2, <2>1 DEF Joins
  <2>3. \A k \in i..(j - 1) : k \in 1..Len(p)
    BY <1>2, <2>1
  <2>4. \A k \in i..(j - 1) : pq[k] \in via
    BY <2>1, <2>3 DEF Joins
  <2>5. QED
    BY <2>2, <2>4
<1>3. CASE i \notin 1..Len(p)
  <2>1. PICK m : m = i - Len(p)
    OBVIOUS
  <2>2. m \in 1..Len(q) /\ i = Len(p) + m
    BY <1>1, <1>3, <2>1 DEF Joins
  <2>3. PICK j \in (m + 1)..Len(q) : q[j] = to /\ \A k \in m..(j - 1) : q[k] \in via
    BY <1>1, <2>2 DEF Until, Joins
  <2>4. Len(p) + j \in (i + 1)..Len(pq) /\ pq[Len(p) + j] = to
    BY <2>2, <2>3 DEF Joins
  <2>5. ASSUME NEW k \in i..(Len(p) + j - 1) PROVE pq[k] \in via
    <3>1. PICK n : n = k - Len(p)
      OBVIOUS
    <3>2. n \in m..(j - 1) /\ n \in 1..Len(q) /\ k = Len(p) + n
      BY <2>2, <2>3, <2>5, <3>1
    <3>3. QED
      BY <2>3, <3>2 DEF Joins
  <2>6. QED
    BY <2>4, <2>5
<1>4. QED
  BY <1>2, <1>3

LEMMA GuardedDrops ==
  ASSUME NEW p, NEW q, NEW m, Drops(p, q, m), Len(q) \in Nat, NEW i \in Nat \ {0}, NEW guarded, NEW first,
         Guarded(q, m + i, guarded, first)
  PROVE  Guarded(p, i, guarded, first)
<1>1. SUFFICES ASSUME NEW k \in i..Len(p), p[k] \in guarded PROVE \E j \in i..(k - 1) : p[j] = first
  BY DEF Guarded
<1>2. m \in 0..Len(q) /\ Len(p) = Len(q) - m /\ Len(p) \in Nat
  BY DEF Drops
<1>3. m + k \in (m + i)..Len(q) /\ q[m + k] \in guarded
  BY <1>1, <1>2 DEF Drops
<1>4. PICK j \in (m + i)..(m + k - 1) : q[j] = first
  BY <1>1, <1>2, <1>3 DEF Guarded
<1>5. PICK n : n = j - m
  OBVIOUS
<1>6. n \in i..(k - 1) /\ n \in 1..Len(p) /\ j = m + n
  BY <1>1, <1>2, <1>4, <1>5
<1>7. QED
  BY <1>4, <1>6 DEF Drops

LEMMA GuardedJoins ==
  ASSUME NEW p, NEW q, NEW pq, Joins(pq, p, q), Len(p) \in Nat, Len(q) \in Nat, NEW guarded, NEW first,
         NEW i \in 1..(Len(p) + 1), Guarded(p, i, guarded, first), Guarded(q, 1, guarded, first)
  PROVE  Guarded(pq, i, guarded, first)
<1>1. SUFFICES ASSUME NEW k \in i..Len(pq), pq[k] \in guarded PROVE \E j \in i..(k - 1) : pq[j] = first
  BY DEF Guarded
<1>2. CASE k \in 1..Len(p)
  <2>1. PICK j \in i..(k - 1) : p[j] = first
    BY <1>1, <1>2 DEF Guarded, Joins
  <2>2. j \in 1..Len(p)
    BY <1>2, <2>1
  <2>3. QED
    BY <2>1, <2>2 DEF Joins
<1>3. CASE k \notin 1..Len(p)
  <2>1. PICK m : m = k - Len(p)
    OBVIOUS
  <2>2. m \in 1..Len(q) /\ k = Len(p) + m
    BY <1>1, <1>3, <2>1 DEF Joins
  <2>3. PICK j \in 1..(m - 1) : q[j] = first
    BY <1>1, <2>2 DEF Guarded, Joins
  <2>4. Len(p) + j \in i..(k - 1) /\ pq[Len(p) + j] = first
    BY <2>2, <2>3 DEF Joins
  <2>5. QED
    BY <2>4
<1>4. QED
  BY <1>2, <1>3

\* A step that was not dropped is there.
LEMMA Remains ==
  ASSUME NEW p, NEW q, NEW m, Drops(p, q, m), Len(q) \in Nat, NEW i \in 1..Len(q), i \notin 1..m
  PROVE  i - m \in 1..Len(p) /\ p[i - m] = q[i]
<1>1. m \in 0..Len(q) /\ Len(p) = Len(q) - m
  BY DEF Drops
<1>2. PICK n : n = i - m
  OBVIOUS
<1>3. n \in 1..Len(p) /\ i = m + n
  BY <1>1, <1>2
<1>4. p[n] = q[i]
  BY <1>3 DEF Drops
<1>5. QED
  BY <1>2, <1>3, <1>4

\* A step that is there was there before.
LEMMA WasThere ==
  ASSUME NEW p, NEW q, NEW m, Drops(p, q, m), Len(q) \in Nat, NEW i \in 1..Len(p)
  PROVE  m + i \in 1..Len(q) /\ p[i] = q[m + i]
  BY DEF Drops

LEMMA HasDrops ==
  ASSUME NEW p, NEW q, NEW m, Drops(p, q, m), Len(q) \in Nat, NEW s
  PROVE  /\ Has(p, s) => Has(q, s)
         /\ Has(q, s) => Has(p, s) \/ \E i \in 1..m : q[i] = s
  BY Remains, WasThere DEF Has

LEMMA PendsDrops ==
  ASSUME NEW p, NEW q, NEW m, Drops(p, q, m), Len(q) \in Nat, NEW r, NEW pe, NEW card,
         PendsIn(q, r, pe, card), \A i \in 1..m : ~WritesTo(q[i], r, pe, card)
  PROVE  PendsIn(p, r, pe, card)
<1>1. PICK i \in 1..Len(q) : WritesTo(q[i], r, pe, card)
  BY DEF PendsIn
<1>2. i \notin 1..m
  BY <1>1
<1>3. i - m \in 1..Len(p) /\ p[i - m] = q[i]
  BY <1>2, Remains
<1>4. QED
  BY <1>1, <1>3 DEF PendsIn

LEMMA HasJoins ==
  ASSUME NEW p, NEW q, NEW pq, Joins(pq, p, q), Len(p) \in Nat, Len(q) \in Nat, NEW s
  PROVE  Has(pq, s) <=> Has(p, s) \/ Has(q, s)
<1>1. ASSUME NEW i \in 1..Len(pq), pq[i] = s PROVE Has(p, s) \/ Has(q, s)
  <2>1. CASE i \in 1..Len(p)
    BY <1>1, <2>1 DEF Joins, Has
  <2>2. CASE i \notin 1..Len(p)
    <3>1. PICK m : m = i - Len(p)
      OBVIOUS
    <3>2. m \in 1..Len(q) /\ i = Len(p) + m
      BY <1>1, <2>2, <3>1 DEF Joins
    <3>3. QED
      BY <1>1, <3>2 DEF Joins, Has
  <2>3. QED
    BY <2>1, <2>2
<1>2. ASSUME NEW i \in 1..Len(p), p[i] = s PROVE Has(pq, s)
  BY <1>2 DEF Joins, Has
<1>3. ASSUME NEW i \in 1..Len(q), q[i] = s PROVE Has(pq, s)
  <2>1. Len(p) + i \in 1..Len(pq) /\ pq[Len(p) + i] = s
    BY <1>3 DEF Joins
  <2>2. QED
    BY <2>1 DEF Has
<1>4. QED
  BY <1>1, <1>2, <1>3 DEF Has

LEMMA PendsJoins ==
  ASSUME NEW p, NEW q, NEW pq, Joins(pq, p, q), Len(p) \in Nat, Len(q) \in Nat, NEW r, NEW pe, NEW card
  PROVE  PendsIn(p, r, pe, card) \/ PendsIn(q, r, pe, card) => PendsIn(pq, r, pe, card)
<1>1. ASSUME NEW i \in 1..Len(p), WritesTo(p[i], r, pe, card) PROVE PendsIn(pq, r, pe, card)
  <2>1. i \in 1..Len(pq) /\ pq[i] = p[i]
    BY <1>1 DEF Joins
  <2>2. QED
    BY <1>1, <2>1 DEF PendsIn
<1>2. ASSUME NEW i \in 1..Len(q), WritesTo(q[i], r, pe, card) PROVE PendsIn(pq, r, pe, card)
  <2>1. Len(p) + i \in 1..Len(pq) /\ pq[Len(p) + i] = q[i]
    BY <1>2 DEF Joins
  <2>2. QED
    BY <1>2, <2>1 DEF PendsIn
<1>3. QED
  BY <1>1, <1>2 DEF PendsIn

\* What is left of a program is one.
LEMMA DropsObey ==
  ASSUME NEW p, NEW q, NEW m, NEW card, Drops(p, q, m), Obeys(q, card)
  PROVE  Obeys(p, card)
<1>1. q \in Seq(CardSteps(card)) /\ Len(q) \in Nat /\ m \in 0..Len(q) /\ Len(p) = Len(q) - m /\ Len(p) \in Nat
  BY DEF Drops, Obeys
<1>2. p \in Seq(CardSteps(card))
  <2>1. \A i \in 1..Len(p) : p[i] \in CardSteps(card)
    BY <1>1, WasThere
  <2>2. p \in Seq(StepNames)
    BY DEF Drops
  <2>3. QED
    BY <2>1, <2>2
<1>3. Laws(p, card)
  BY <1>1, UntilDrops DEF Obeys, Laws
<1>4. AfterEnd(p, card)
  <2>1. ASSUME NEW i \in 1..Len(p), p[i] = "end"
        PROVE  Guarded(p, i + 1, BranchSteps(card) \cup {"switch"}, "choose")
    <3>1. PICK n : n = m + i
      OBVIOUS
    <3>2. n \in 1..Len(q) /\ q[n] = "end"
      BY <1>1, <2>1, <3>1, WasThere
    <3>3. Guarded(q, n + 1, BranchSteps(card) \cup {"switch"}, "choose")
      BY <3>2 DEF Obeys, AfterEnd
    <3>4. n + 1 = m + (i + 1) /\ i + 1 \in Nat \ {0}
      BY <1>1, <3>1
    <3>5. Guarded(q, m + (i + 1), BranchSteps(card) \cup {"switch"}, "choose")
      BY <3>3, <3>4
    <3>6. QED
      BY <1>1, <3>4, <3>5, GuardedDrops
  <2>2. QED
    BY <2>1 DEF AfterEnd
<1>5. Single(p)
  <2>1. ASSUME Has(p, "gain_put") PROVE p = <<"gain_put">>
    <3>1. q = <<"gain_put">>
      BY <1>1, <2>1, HasDrops DEF Obeys, Single
    <3>2. Len(q) = 1 /\ Len(p) # 0
      BY <1>1, <2>1, <3>1 DEF Has
    <3>3. Len(p) = 1 /\ p[1] = "gain_put"
      BY <1>1, <2>1, <3>2 DEF Has
    <3>4. QED
      BY <1>2, <3>3
  <2>2. ASSUME Has(p, "bass_put") PROVE p = <<"bass_put", "end">>
    <3>1. q = <<"bass_put", "end">>
      BY <1>1, <2>2, HasDrops DEF Obeys, Single
    <3>2. Len(q) = 2 /\ q[1] = "bass_put" /\ q[2] = "end"
      BY <3>1
    <3>3. PICK i \in 1..Len(p) : p[i] = "bass_put"
      BY <2>2 DEF Has
    <3>4. m + i \in 1..2 /\ q[m + i] = "bass_put"
      BY <1>1, <3>2, <3>3, WasThere
    <3>5. m = 0 /\ i = 1
      BY <1>1, <3>2, <3>3, <3>4
    <3>6. Len(p) = 2 /\ p[1] = "bass_put" /\ p[2] = "end"
      BY <1>1, <3>2, <3>5, WasThere
    <3>7. QED
      BY <1>2, <3>6
  <2>3. QED
    BY <2>1, <2>2 DEF Single
<1>6. QED
  BY <1>2, <1>3, <1>4, <1>5 DEF Obeys

\* As long as what has to come first is not dropped, it still comes first.
LEMMA StillFirst ==
  ASSUME NEW p, NEW q, NEW m, Drops(p, q, m), Len(q) \in Nat, NEW guarded, NEW first,
         Guarded(q, 1, guarded, first), \A i \in 1..m : q[i] # first
  PROVE  Guarded(p, 1, guarded, first)
<1>1. SUFFICES ASSUME NEW k \in 1..Len(p), p[k] \in guarded PROVE \E j \in 1..(k - 1) : p[j] = first
  BY DEF Guarded
<1>2. m \in 0..Len(q) /\ Len(p) = Len(q) - m /\ Len(p) \in Nat
  BY DEF Drops
<1>3. m + k \in 1..Len(q) /\ q[m + k] \in guarded
  BY <1>1, WasThere
<1>4. PICK j \in 1..(m + k - 1) : q[j] = first
  BY <1>1, <1>2, <1>3 DEF Guarded
<1>5. j \notin 1..m /\ j \in 1..Len(q)
  BY <1>1, <1>2, <1>4
<1>6. j - m \in 1..Len(p) /\ p[j - m] = q[j]
  BY <1>2, <1>5, Remains
<1>7. j - m \in 1..(k - 1)
  BY <1>2, <1>4, <1>6
<1>8. QED
  BY <1>4, <1>6, <1>7

\* Where the end of a function is dropped, the next one chooses first.
LEMMA EndDropped ==
  ASSUME NEW p, NEW q, NEW m, NEW card, Drops(p, q, m), Obeys(q, card), m # 0, q[m] = "end"
  PROVE  ChooseFirst(p, card)
<1>1. Len(q) \in Nat /\ m \in 1..Len(q)
  BY DEF Drops, Obeys
<1>2. Guarded(q, m + 1, BranchSteps(card) \cup {"switch"}, "choose")
  BY <1>1 DEF Obeys, AfterEnd
<1>3. QED
  BY <1>1, <1>2, GuardedDrops DEF ChooseFirst

\* The branch of a selection comes after its switch.
LEMMA ChosenSwitches ==
  ASSUME NEW q, NEW card, Laws(q, card), Len(q) \in Nat, NEW i \in 1..Len(q), q[i] = "choose",
         NEW k \in (i + 1)..Len(q), q[k] \in BranchSteps(card)
  PROVE  \E j \in (i + 1)..(k - 1) : q[j] = "switch"
<1>1. PICK j \in (i + 1)..Len(q) : q[j] = "switch" /\ \A n \in i..(j - 1) : q[n] \in StepNames \ BranchSteps(card)
  BY DEF Laws, Until
<1>2. k \notin i..(j - 1)
  BY <1>1
<1>3. "switch" \notin BranchSteps(card)
  BY DEF BranchSteps
<1>4. k # j
  BY <1>1, <1>3
<1>5. QED
  BY <1>1, <1>2, <1>4

LEMMA ChosenFirst ==
  ASSUME NEW q, NEW card, Laws(q, card), Len(q) \in Nat, ChooseFirst(q, card)
  PROVE  SwitchFirst(q, card)
<1>1. SUFFICES ASSUME NEW k \in 1..Len(q), q[k] \in BranchSteps(card) PROVE \E j \in 1..(k - 1) : q[j] = "switch"
  BY DEF SwitchFirst, Guarded
<1>2. PICK i \in 1..(k - 1) : q[i] = "choose"
  BY <1>1 DEF ChooseFirst, Guarded
<1>3. i \in 1..Len(q) /\ k \in (i + 1)..Len(q)
  BY <1>1, <1>2
<1>4. \E j \in (i + 1)..(k - 1) : q[j] = "switch"
  BY <1>1, <1>2, <1>3, ChosenSwitches
<1>5. QED
  BY <1>2, <1>4

\* What follows a choice switches before its branch.
LEMMA AfterChoice ==
  ASSUME NEW p, NEW q, NEW card, Drops(p, q, 1), Obeys(q, card), q[1] = "choose"
  PROVE  SwitchFirst(p, card)
<1>1. Laws(q, card) /\ Len(q) \in Nat /\ 1 \in 1..Len(q) /\ Len(p) = Len(q) - 1
  BY DEF Obeys, Drops
<1>2. SUFFICES ASSUME NEW k \in 1..Len(p), p[k] \in BranchSteps(card) PROVE \E j \in 1..(k - 1) : p[j] = "switch"
  BY DEF SwitchFirst, Guarded
<1>3. 1 + k \in (1 + 1)..Len(q) /\ q[1 + k] \in BranchSteps(card)
  BY <1>1, <1>2, WasThere
<1>4. PICK j \in (1 + 1)..(1 + k - 1) : q[j] = "switch"
  BY <1>1, <1>3, ChosenSwitches
<1>5. j \in 1..Len(q) /\ j \notin 1..1
  BY <1>1, <1>2, <1>4
<1>6. j - 1 \in 1..(k - 1) /\ p[j - 1] = "switch"
  BY <1>1, <1>2, <1>4, <1>5, Remains
<1>7. QED
  BY <1>6

\* A program that may be put behind another: it chooses before it switches.
Part(q, card) ==
  /\ q \in Seq(CardSteps(card)) /\ Laws(q, card) /\ AfterEnd(q, card) /\ ChooseFirst(q, card)
  /\ ~Has(q, "gain_put") /\ ~Has(q, "bass_put")

LEMMA PartObeys ==
  ASSUME NEW q, NEW card, Part(q, card)
  PROVE  Obeys(q, card) /\ SwitchFirst(q, card)
<1>1. Obeys(q, card)
  BY DEF Part, Obeys, Single
<1>2. QED
  BY <1>1, ChosenFirst DEF Part

\* The end of a function is passed in what was joined.
LEMMA EndJoins ==
  ASSUME NEW p, NEW q, NEW pq, Joins(pq, p, q), Len(p) \in Nat, Len(q) \in Nat, NEW card,
         AfterEnd(p, card), AfterEnd(q, card), (\A i \in 1..Len(p) : p[i] # "end") \/ ChooseFirst(q, card)
  PROVE  AfterEnd(pq, card)
<1>1. SUFFICES ASSUME NEW i \in 1..Len(pq), pq[i] = "end"
               PROVE  Guarded(pq, i + 1, BranchSteps(card) \cup {"switch"}, "choose")
  BY DEF AfterEnd
<1>2. PICK S : S = BranchSteps(card) \cup {"switch"}
  OBVIOUS
<1>3. CASE i \in 1..Len(p)
  <2>1. p[i] = "end"
    BY <1>1, <1>3 DEF Joins
  <2>2. Guarded(p, i + 1, S, "choose") /\ Guarded(q, 1, S, "choose")
    BY <1>2, <1>3, <2>1 DEF AfterEnd, ChooseFirst
  <2>3. i + 1 \in 1..(Len(p) + 1)
    BY <1>3
  <2>4. QED
    BY <1>2, <2>2, <2>3, GuardedJoins
<1>4. CASE i \notin 1..Len(p)
  <2>1. PICK m : m = i - Len(p)
    OBVIOUS
  <2>2. m \in 1..Len(q) /\ i = Len(p) + m
    BY <1>1, <1>4, <2>1 DEF Joins
  <2>3. q[m] = "end"
    BY <1>1, <2>2 DEF Joins
  <2>4. Guarded(q, m + 1, S, "choose")
    BY <1>2, <2>2, <2>3 DEF AfterEnd
  <2>5. ASSUME NEW k \in (i + 1)..Len(pq), pq[k] \in S PROVE \E j \in (i + 1)..(k - 1) : pq[j] = "choose"
    <3>1. PICK n : n = k - Len(p)
      OBVIOUS
    <3>2. n \in (m + 1)..Len(q) /\ n \in 1..Len(q) /\ k = Len(p) + n
      BY <2>2, <2>5, <3>1 DEF Joins
    <3>3. q[n] \in S
      BY <2>5, <3>2 DEF Joins
    <3>4. PICK j \in (m + 1)..(n - 1) : q[j] = "choose"
      BY <2>4, <3>2, <3>3 DEF Guarded
    <3>5. j \in 1..Len(q) /\ Len(p) + j \in (i + 1)..(k - 1)
      BY <2>2, <3>2, <3>4
    <3>6. pq[Len(p) + j] = "choose"
      BY <3>4, <3>5 DEF Joins
    <3>7. QED
      BY <3>5, <3>6
  <2>6. QED
    BY <1>2, <2>5 DEF Guarded
<1>5. QED
  BY <1>3, <1>4

LEMMA PartJoins ==
  ASSUME NEW p, NEW q, NEW card, Part(p, card), Part(q, card)
  PROVE  Part(p \o q, card)
<1>1. PICK pq : pq = p \o q
  OBVIOUS
<1>2. pq \in Seq(CardSteps(card)) /\ Len(p) \in Nat /\ Len(q) \in Nat /\ Joins(pq, p, q)
  BY <1>1, JoinIs DEF Part
<1>3. Laws(pq, card)
  BY <1>2, UntilJoins DEF Part, Laws
<1>4. AfterEnd(pq, card)
  BY <1>2, EndJoins DEF Part
<1>5. ChooseFirst(pq, card)
  <2>1. 1 \in 1..(Len(p) + 1)
    BY <1>2
  <2>2. QED
    BY <1>2, <2>1, GuardedJoins DEF Part, ChooseFirst
<1>6. ~Has(pq, "gain_put") /\ ~Has(pq, "bass_put")
  BY <1>2, HasJoins DEF Part
<1>7. QED
  BY <1>1, <1>2, <1>3, <1>4, <1>5, <1>6 DEF Part

-----------------------------------------------------------------------------
(* The functions of the driver.                                            *)

\* Steps that any function may have anywhere
Loose == {"xbass", "surround", "slider", "volume", "report"}

LEMMA LoosePart ==
  ASSUME NEW q, NEW card, q \in Seq(CardSteps(card)), \A i \in 1..Len(q) : q[i] \in Loose
  PROVE  Part(q, card)
<1>1. \A i \in 1..Len(q) : q[i] \notin BranchSteps(card) \cup {"switch"}
  BY DEF Loose, BranchSteps
<1>2. Laws(q, card)
  <2>1. \A i \in 1..Len(q) : q[i] \notin {"mute"} /\ q[i] \notin Checked \cup {"switch"} /\ q[i] \notin {"choose"}
    BY DEF Loose, Checked
  <2>2. QED
    BY <2>1 DEF Laws, Until
<1>3. AfterEnd(q, card)
  <2>1. \A i \in 1..Len(q) : q[i] # "end"
    BY DEF Loose
  <2>2. QED
    BY <2>1 DEF AfterEnd
<1>4. ChooseFirst(q, card)
  BY <1>1 DEF ChooseFirst, Guarded
<1>5. ~Has(q, "gain_put") /\ ~Has(q, "bass_put")
  BY DEF Loose, Has
<1>6. QED
  BY <1>2, <1>3, <1>4, <1>5 DEF Part

\* Programs of steps that any function may have
LEMMA LooseParts ==
  ASSUME NEW card
  PROVE  /\ Part(<<>>, card) /\ Part(<<"report">>, card) /\ Part(<<"surround", "xbass">>, card)
         /\ Part(<<"surround">>, card) /\ Part(<<"xbass">>, card)
         /\ card # "plain" => /\ Part(<<"slider">>, card) /\ Part(<<"volume">>, card)
                              /\ Part(<<"volume", "surround", "xbass">>, card)
<1>1. ASSUME NEW s \in Loose \cap CardSteps(card), NEW t \in Loose \cap CardSteps(card),
             NEW u \in Loose \cap CardSteps(card)
      PROVE  Part(<<>>, card) /\ Part(<<s>>, card) /\ Part(<<s, t>>, card) /\ Part(<<s, t, u>>, card)
  <2>1. Part(<<>>, card)
    <3>1. <<>> \in Seq(CardSteps(card)) /\ \A i \in 1..Len(<<>>) : <<>>[i] \in Loose
      OBVIOUS
    <3>2. QED
      BY <3>1, LoosePart, Zenon
  <2>2. ASSUME NEW q, q = <<s>> PROVE Part(q, card)
    <3>1. q \in Seq(CardSteps(card)) /\ \A i \in 1..Len(q) : q[i] \in Loose
      BY <2>2
    <3>2. QED
      BY <3>1, LoosePart, Zenon
  <2>3. ASSUME NEW q, q = <<s, t>> PROVE Part(q, card)
    <3>1. q \in Seq(CardSteps(card)) /\ \A i \in 1..Len(q) : q[i] \in Loose
      BY <2>3
    <3>2. QED
      BY <3>1, LoosePart, Zenon
  <2>4. ASSUME NEW q, q = <<s, t, u>> PROVE Part(q, card)
    <3>1. q \in Seq(CardSteps(card)) /\ \A i \in 1..Len(q) : q[i] \in Loose
      BY <2>4
    <3>2. QED
      BY <3>1, LoosePart, Zenon
  <2>5. QED
    BY <2>1, <2>2, <2>3, <2>4, Zenon
<1>2. /\ "report" \in Loose \cap CardSteps(card) /\ "surround" \in Loose \cap CardSteps(card)
      /\ "xbass" \in Loose \cap CardSteps(card)
      /\ card # "plain" => "slider" \in Loose \cap CardSteps(card) /\ "volume" \in Loose \cap CardSteps(card)
  BY DEF Loose, CardSteps, StepNames, PlainSteps
<1>3. QED
  BY <1>1, <1>2, Zenon

\* A selection of the plain card
LEMMA PlainSelects ==
  ASSUME NEW q, q = <<"choose", "switch", "end">>
  PROVE  Part(q, "plain")
<1>1. /\ q \in Seq(CardSteps("plain")) /\ Len(q) = 3
      /\ q[1] = "choose" /\ q[2] = "switch" /\ q[3] = "end"
  BY DEF CardSteps, PlainSteps
<1>2. BranchSteps("plain") = {"pins", "config", "eq"} /\ Rewritten("plain") = {"switch"}
  BY DEF BranchSteps, Rewritten
<1>3. Until(q, {"mute"}, "unmute", StepNames) /\ Until(q, Checked \cup {"switch"}, "end", SelectedSteps)
  BY <1>1 DEF Until, Checked, SelectedSteps
<1>4. Until(q, {"choose"}, "switch", StepNames \ BranchSteps("plain")) /\ Until(q, {"choose"}, "switch", StepNames)
  BY <1>1, <1>2 DEF Until, StepNames
<1>5. AfterEnd(q, "plain")
  BY <1>1 DEF AfterEnd, Guarded
<1>6. ChooseFirst(q, "plain")
  BY <1>1, <1>2 DEF ChooseFirst, Guarded
<1>7. ~Has(q, "gain_put") /\ ~Has(q, "bass_put")
  BY <1>1 DEF Has
<1>8. QED
  BY <1>1, <1>2, <1>3, <1>4, <1>5, <1>6, <1>7 DEF Part, Laws

\* A selection of the cards with the alternative functions
LEMMA CardSelects ==
  ASSUME NEW card, card # "plain", NEW q, q \in Seq(CardSteps(card)), Len(q) = 12,
         q[1] = "choose", q[2] = "mute", q[3] = "relay", q[4] = "invert", q[5] = "port", q[6] = "gain",
         q[7] = "switch", q[8] = "eq", q[9] = "bass", q[10] = "unmute", q[11] = "range", q[12] = "end"
  PROVE  Part(q, card)
<1>1. q \in Seq(CardSteps(card)) /\ Len(q) = 12
  OBVIOUS
<1>2. /\ q[1] = "choose" /\ q[2] = "mute" /\ q[3] = "relay" /\ q[4] = "invert" /\ q[5] = "port" /\ q[6] = "gain"
      /\ q[7] = "switch" /\ q[8] = "eq" /\ q[9] = "bass" /\ q[10] = "unmute" /\ q[11] = "range" /\ q[12] = "end"
  OBVIOUS
<1>3. BranchSteps(card) = {"pins", "config"}
  BY DEF BranchSteps
<1>4. \A k \in 1..12 : q[k] \in StepNames /\ q[k] \notin BranchSteps(card)
  BY <1>2, <1>3 DEF StepNames
<1>5. \A k \in 2..11 : q[k] \in SelectedSteps
  BY <1>2 DEF SelectedSteps
<1>6. Until(q, {"mute"}, "unmute", StepNames)
  <2>1. \A i \in 1..12 : q[i] \in {"mute"} => i = 2
    BY <1>2
  <2>2. QED
    BY <1>1, <1>2, <1>4, <2>1 DEF Until
<1>7. Until(q, Checked \cup {"switch"}, "end", SelectedSteps)
  <2>1. q[1] \notin Checked \cup {"switch"} /\ q[12] \notin Checked \cup {"switch"}
    BY <1>2 DEF Checked
  <2>2. \A i \in 1..12 : q[i] \in Checked \cup {"switch"} => i \in 2..11
    BY <2>1
  <2>3. QED
    BY <1>1, <1>2, <1>5, <2>2 DEF Until
<1>8. \A i \in 1..12 : q[i] \in {"choose"} => i = 1
  BY <1>2
<1>9. Until(q, {"choose"}, "switch", StepNames \ BranchSteps(card))
  BY <1>1, <1>2, <1>4, <1>8 DEF Until
<1>10. ASSUME NEW x \in Rewritten(card) PROVE Until(q, {"choose"}, x, StepNames)
  <2>1. PICK j \in 2..12 : q[j] = x
    BY <1>2 DEF Rewritten
  <2>2. ASSUME NEW i \in 1..Len(q), q[i] \in {"choose"}
        PROVE  \E n \in (i + 1)..Len(q) : q[n] = x /\ \A k \in i..(n - 1) : q[k] \in StepNames
    <3>1. i = 1
      BY <1>1, <1>8, <2>2
    <3>2. j \in (i + 1)..Len(q)
      BY <1>1, <2>1, <3>1
    <3>3. ASSUME NEW k \in i..(j - 1) PROVE q[k] \in StepNames
      <4>1. k \in 1..12
        BY <2>1, <3>1
      <4>2. QED
        BY <1>4, <4>1
    <3>4. QED
      BY <2>1, <3>2, <3>3
  <2>3. QED
    BY <2>2 DEF Until
<1>11. AfterEnd(q, card)
  <2>1. \A i \in 1..12 : q[i] = "end" => i = 12
    BY <1>2
  <2>2. QED
    BY <1>1, <2>1 DEF AfterEnd, Guarded
<1>12. ChooseFirst(q, card)
  <2>1. \A k \in 1..12 : q[k] \in BranchSteps(card) \cup {"switch"} => k = 7
    BY <1>2, <1>3
  <2>2. QED
    BY <1>1, <1>2, <2>1 DEF ChooseFirst, Guarded
<1>13. ~Has(q, "gain_put") /\ ~Has(q, "bass_put")
  <2>1. \A k \in 1..12 : q[k] # "gain_put" /\ q[k] # "bass_put"
    BY <1>2
  <2>2. QED
    BY <1>1, <2>1 DEF Has
<1>14. QED
  BY <1>1, <1>6, <1>7, <1>9, <1>10, <1>11, <1>12, <1>13 DEF Part, Laws

\* What a selection writes, by itself or through its switch
Chosen(pe, card) ==
  IF card = "plain" THEN {"pins", "config", "eq"}
  ELSE {"mute", "relay", "invert", "port", "gain", "pins", "config", "eq", "bass", "range"}
         \cup (IF pe THEN {"xbass"} ELSE {})

LEMMA SelectionIs ==
  ASSUME NEW pe
  PROVE  /\ Part(Selection, outCard) /\ Has(Selection, "choose")
         /\ \A r \in Chosen(pe, outCard) : PendsIn(Selection, r, pe, outCard)
<1>1. CASE Plain
  <2>1. PICK q : q = <<"choose", "switch", "end">> /\ q = Selection
    BY <1>1, Zenon DEF Selection
  <2>2. Len(q) = 3 /\ q[1] = "choose" /\ q[2] = "switch"
    BY <2>1
  <2>3. outCard = "plain"
    BY <1>1 DEF Plain
  <2>4. Part(q, outCard)
    BY <2>1, <2>3, PlainSelects, Zenon
  <2>5. Has(q, "choose")
    BY <2>2 DEF Has
  <2>6. ASSUME NEW r \in Chosen(pe, outCard) PROVE PendsIn(q, r, pe, outCard)
    BY <2>2, <2>3, <2>6 DEF Chosen, PendsIn, WritesTo, BranchRegisters, BranchSteps
  <2>7. QED
    BY <2>1, <2>4, <2>5, <2>6, Zenon
<1>2. CASE ~Plain
  <2>1. PICK q : q = <<"choose", "mute", "relay", "invert", "port", "gain", "switch", "eq", "bass", "unmute",
                       "range", "end">> /\ q = Selection
    BY <1>2, Zenon DEF Selection
  <2>2. /\ Len(q) = 12 /\ q[1] = "choose" /\ q[2] = "mute" /\ q[3] = "relay" /\ q[4] = "invert"
        /\ q[5] = "port" /\ q[6] = "gain" /\ q[7] = "switch" /\ q[8] = "eq" /\ q[9] = "bass"
        /\ q[10] = "unmute" /\ q[11] = "range" /\ q[12] = "end"
    BY <2>1
  <2>3. outCard # "plain"
    BY <1>2 DEF Plain
  <2>4. Part(q, outCard)
    <3>1. q \in Seq(CardSteps(outCard))
      BY <2>1, <2>3 DEF CardSteps, StepNames
    <3>2. QED
      BY <2>2, <2>3, <3>1, CardSelects, Zenon
  <2>5. Has(q, "choose")
    BY <2>2 DEF Has
  <2>6. ASSUME NEW r \in Chosen(pe, outCard) PROVE PendsIn(q, r, pe, outCard)
    <3>1. CASE r \in {"pins", "config"} \cup (IF pe THEN {"xbass"} ELSE {})
      <4>1. WritesTo(q[7], r, pe, outCard)
        BY <2>2, <2>3, <3>1 DEF WritesTo, BranchRegisters, BranchSteps
      <4>2. QED
        BY <2>2, <4>1 DEF PendsIn
    <3>2. CASE r \in {"mute", "relay", "invert", "port", "gain", "eq", "bass", "range"}
      <4>1. \E j \in 1..12 : q[j] # "mute" /\ RegisterOf(q[j]) = r
        BY <2>2, <3>2 DEF RegisterOf
      <4>2. QED
        BY <2>2, <4>1 DEF PendsIn, WritesTo
    <3>3. QED
      BY <2>3, <2>6, <3>1, <3>2 DEF Chosen
  <2>7. QED
    BY <2>1, <2>4, <2>5, <2>6, Zenon
<1>3. QED
  BY <1>1, <1>2

\* Puts of one control, where they have a program of their own
LEMMA PutsObey ==
  ASSUME NEW card, card # "plain",
         NEW q, q \in {<<"gain_put">>, <<"range", "end">>, <<"bass_put", "end">>}
  PROVE  Obeys(q, card) /\ ChooseFirst(q, card) /\ SwitchFirst(q, card) /\ ~Has(q, "choose")
<1>1. CardSteps(card) = StepNames /\ BranchSteps(card) = {"pins", "config"}
  BY DEF CardSteps, BranchSteps
<1>2. ASSUME NEW s \in {"range", "bass_put"}, q = <<s, "end">>
      PROVE  Obeys(q, card) /\ ChooseFirst(q, card) /\ SwitchFirst(q, card) /\ ~Has(q, "choose")
  <2>1. q \in Seq(CardSteps(card)) /\ Len(q) = 2 /\ q[1] = s /\ q[2] = "end"
    BY <1>1, <1>2 DEF StepNames
  <2>2. \A i \in 1..2 : q[i] \notin {"mute", "choose", "switch", "pins", "config", "gain_put"}
    BY <1>2, <2>1
  <2>3. Until(q, {"mute"}, "unmute", StepNames) /\ Until(q, {"choose"}, "switch", StepNames \ BranchSteps(card))
    BY <2>1, <2>2 DEF Until
  <2>4. \A x : Until(q, {"choose"}, x, StepNames)
    BY <2>1, <2>2 DEF Until
  <2>5. Until(q, Checked \cup {"switch"}, "end", SelectedSteps)
    BY <1>2, <2>1 DEF Until, Checked, SelectedSteps
  <2>6. \A i \in 1..2 : q[i] \notin BranchSteps(card) \cup {"switch"}
    BY <1>1, <2>2
  <2>7. AfterEnd(q, card) /\ ChooseFirst(q, card) /\ SwitchFirst(q, card)
    BY <2>1, <2>6 DEF AfterEnd, ChooseFirst, SwitchFirst, Guarded
  <2>8. ~Has(q, "gain_put") /\ ~Has(q, "choose")
    BY <2>1, <2>2 DEF Has
  <2>9. Has(q, "bass_put") => q = <<"bass_put", "end">>
    BY <1>2, <2>1 DEF Has
  <2>10. QED
    BY <2>1, <2>3, <2>4, <2>5, <2>7, <2>8, <2>9 DEF Obeys, Laws, Single
<1>3. CASE q = <<"gain_put">>
  <2>1. q \in Seq(CardSteps(card)) /\ Len(q) = 1 /\ q[1] = "gain_put"
    BY <1>1, <1>3 DEF StepNames
  <2>2. \A i \in 1..1 : q[i] \notin Checked \cup {"mute", "choose", "switch", "end", "pins", "config", "bass_put"}
    BY <2>1 DEF Checked
  <2>3. Laws(q, card)
    BY <2>1, <2>2 DEF Laws, Until
  <2>4. AfterEnd(q, card) /\ ChooseFirst(q, card) /\ SwitchFirst(q, card)
    BY <1>1, <2>1, <2>2 DEF AfterEnd, ChooseFirst, SwitchFirst, Guarded
  <2>5. ~Has(q, "bass_put") /\ ~Has(q, "choose")
    BY <2>1, <2>2 DEF Has
  <2>6. QED
    BY <1>3, <2>1, <2>3, <2>4, <2>5 DEF Obeys, Single
<1>4. QED
  BY <1>2, <1>3

\* A selection with something behind it or before it
LEMMA SelectionAnd ==
  ASSUME NEW pe, NEW p, Part(p, outCard)
  PROVE  /\ Part(Selection \o p, outCard) /\ Part(p \o Selection, outCard)
         /\ Has(Selection \o p, "choose") /\ Has(p \o Selection, "choose")
         /\ \A s : Has(p, s) => Has(Selection \o p, s)
         /\ \A r \in Chosen(pe, outCard) : PendsIn(Selection \o p, r, pe, outCard)
         /\ \A r : PendsIn(p, r, pe, outCard) => PendsIn(Selection \o p, r, pe, outCard)
<1>1. /\ Part(Selection, outCard) /\ Has(Selection, "choose")
      /\ \A r \in Chosen(pe, outCard) : PendsIn(Selection, r, pe, outCard)
  BY SelectionIs
<1>2. /\ Len(p) \in Nat /\ Len(Selection) \in Nat
      /\ Joins(Selection \o p, Selection, p) /\ Joins(p \o Selection, p, Selection)
  BY <1>1, JoinIs DEF Part
<1>3. QED
  BY <1>1, <1>2, PartJoins, HasJoins, PendsJoins, Zenon

\* The functions that go with the effects switch and with the bring-up, and the work
LEMMA FunctionsAre ==
  /\ Part(PeSwitchSet, outCard)
  /\ Part(Bringup \o PeSwitchSet, outCard) /\ Has(Bringup \o PeSwitchSet, "choose")
  /\ Part(Bringup, outCard) /\ Has(Bringup, "choose")
  /\ Part(Selection \o <<"report">>, outCard)
<1>1. /\ Part(Selection, outCard) /\ Has(Selection, "choose") /\ Part(<<>>, outCard)
      /\ Part(<<"surround", "xbass">>, outCard)
  BY SelectionIs, LooseParts, Zenon
<1>2. Part(PeSwitchSet, outCard)
  <2>1. \/ PeSwitchSet = <<>> \o <<"surround", "xbass">>
        \/ PeSwitchSet = Selection \o <<"surround", "xbass">>
    BY Zenon DEF PeSwitchSet
  <2>2. QED
    BY <1>1, <2>1, PartJoins, Zenon
<1>3. Part(Bringup, outCard) /\ Has(Bringup, "choose")
  <2>1. PICK p : Part(p, outCard) /\ Bringup = p \o Selection
    <3>1. CASE Plain
      <4>1. Bringup = <<>> \o Selection
        BY <3>1, Zenon DEF Bringup
      <4>2. QED
        BY <1>1, <4>1, Zenon
    <3>2. CASE ~Plain
      <4>1. Bringup = <<"volume", "surround", "xbass">> \o Selection
        BY <3>2, Zenon DEF Bringup
      <4>2. outCard # "plain"
        BY <3>2, Zenon DEF Plain
      <4>3. Part(<<"volume", "surround", "xbass">>, outCard)
        BY <4>2, LooseParts, Zenon
      <4>4. QED
        BY <4>1, <4>3, Zenon
    <3>3. QED
      BY <3>1, <3>2, Zenon
  <2>2. QED
    BY <2>1, SelectionAnd, Zenon
<1>4. Part(Bringup \o PeSwitchSet, outCard)
  BY <1>2, <1>3, PartJoins, Zenon
<1>5. Has(Bringup \o PeSwitchSet, "choose")
  <2>1. Len(Bringup) \in Nat /\ Len(PeSwitchSet) \in Nat /\ Joins(Bringup \o PeSwitchSet, Bringup, PeSwitchSet)
    BY <1>2, <1>3, JoinIs DEF Part
  <2>2. QED
    BY <1>3, <2>1, HasJoins, Zenon
<1>6. Part(<<"report">>, outCard)
  BY LooseParts, Zenon
<1>7. QED
  BY <1>1, <1>2, <1>3, <1>4, <1>5, <1>6, PartJoins, Zenon

\* The branch of a selection in the place of its switch
BranchOf(card, fx) ==
  IF card = "plain" THEN <<"config", "eq", "pins">>
  ELSE IF fx THEN <<"pins", "config", "xbass">> ELSE <<"pins", "config">>

LEMMA BranchObeys ==
  ASSUME NEW q, NEW rest, NEW card, NEW fx, Obeys(q, card), q # <<>>, q[1] = "switch", Drops(rest, q, 1)
  PROVE  /\ Obeys(BranchOf(card, fx) \o rest, card)
         /\ \A s : Has(rest, s) => Has(BranchOf(card, fx) \o rest, s)
         /\ ~Has(BranchOf(card, fx) \o rest, "gain_put") /\ ~Has(BranchOf(card, fx) \o rest, "bass_put")
<1>1. PICK b : b = BranchOf(card, fx)
  OBVIOUS
<1>2. PICK p : p = b \o rest
  OBVIOUS
<1>3. /\ b \in Seq(CardSteps(card)) /\ Len(b) \in Nat
      /\ \A i \in 1..Len(b) : b[i] \in {"pins", "config", "xbass", "eq"}
  <2>1. \/ b = <<"pins", "config", "xbass">> \/ b = <<"pins", "config">>
        \/ card = "plain" /\ b = <<"config", "eq", "pins">>
    BY <1>1 DEF BranchOf
  <2>2. CASE card = "plain" /\ b = <<"config", "eq", "pins">>
    BY <2>2 DEF CardSteps, PlainSteps
  <2>3. "pins" \in CardSteps(card) /\ "config" \in CardSteps(card) /\ "xbass" \in CardSteps(card)
    BY DEF CardSteps, PlainSteps, StepNames
  <2>4. CASE b = <<"pins", "config", "xbass">>
    BY <2>3, <2>4
  <2>5. CASE b = <<"pins", "config">>
    BY <2>3, <2>5
  <2>6. QED
    BY <2>1, <2>2, <2>4, <2>5, Zenon
<1>4. Obeys(rest, card) /\ Len(rest) \in Nat /\ rest \in Seq(CardSteps(card)) /\ Len(rest) = Len(q) - 1 /\ Len(q) \in Nat
  <2>1. Obeys(rest, card)
    BY DropsObey
  <2>2. QED
    BY <2>1 DEF Drops, Obeys
<1>5. p \in Seq(CardSteps(card)) /\ Joins(p, b, rest)
  BY <1>2, <1>3, <1>4, JoinIs
<1>6. \A i \in 1..Len(b) : b[i] \notin {"mute", "choose", "switch", "end", "gain_put", "bass_put"} /\ b[i] \in SelectedSteps
  BY <1>3 DEF SelectedSteps
<1>7. Until(p, {"mute"}, "unmute", StepNames)
  <2>1. Until(b, {"mute"}, "unmute", StepNames)
    BY <1>6 DEF Until
  <2>2. QED
    BY <1>3, <1>4, <1>5, <2>1, UntilJoins DEF Obeys, Laws
<1>8. Until(p, {"choose"}, "switch", StepNames \ BranchSteps(card))
  <2>1. Until(b, {"choose"}, "switch", StepNames \ BranchSteps(card))
    BY <1>6 DEF Until
  <2>2. QED
    BY <1>3, <1>4, <1>5, <2>1, UntilJoins DEF Obeys, Laws
<1>9. ASSUME NEW x \in Rewritten(card) PROVE Until(p, {"choose"}, x, StepNames)
  <2>1. Until(b, {"choose"}, x, StepNames)
    BY <1>6 DEF Until
  <2>2. QED
    BY <1>3, <1>4, <1>5, <2>1, UntilJoins DEF Obeys, Laws
<1>10. Until(p, Checked \cup {"switch"}, "end", SelectedSteps)
  <2>1. PICK j \in 2..Len(q) : q[j] = "end" /\ \A k \in 1..(j - 1) : q[k] \in SelectedSteps
    <3>1. 1 \in 1..Len(q) /\ Until(q, Checked \cup {"switch"}, "end", SelectedSteps)
      BY <1>4 DEF Obeys, Laws
    <3>2. QED
      BY <3>1 DEF Until
  <2>2. j - 1 \in 1..Len(rest) /\ rest[j - 1] = "end"
    BY <1>4, <2>1, Remains
  <2>3. \A k \in 1..(j - 2) : rest[k] \in SelectedSteps
    BY <1>4, <2>1, WasThere
  <2>4. PICK n : n = Len(b) + (j - 1)
    OBVIOUS
  <2>5. n \in 1..Len(p) /\ p[n] = "end" /\ n > Len(b)
    BY <1>3, <1>4, <1>5, <2>1, <2>2, <2>4 DEF Joins
  <2>6. ASSUME NEW k \in 1..(n - 1) PROVE p[k] \in SelectedSteps
    <3>1. CASE k \in 1..Len(b)
      BY <1>5, <1>6, <3>1 DEF Joins
    <3>2. CASE k \notin 1..Len(b)
      <4>1. PICK i : i = k - Len(b)
        OBVIOUS
      <4>2. i \in 1..(j - 2) /\ i \in 1..Len(rest) /\ k = Len(b) + i
        BY <1>3, <1>4, <2>1, <2>4, <2>6, <3>2, <4>1
      <4>3. QED
        BY <1>5, <2>3, <4>2 DEF Joins
    <3>3. QED
      BY <3>1, <3>2
  <2>7. ASSUME NEW i \in 1..Len(p), p[i] \in Checked \cup {"switch"}
        PROVE  \E m \in (i + 1)..Len(p) : p[m] = "end" /\ \A k \in i..(m - 1) : p[k] \in SelectedSteps
    <3>1. CASE i \in 1..Len(b)
      <4>1. n \in (i + 1)..Len(p) /\ \A k \in i..(n - 1) : k \in 1..(n - 1)
        BY <1>3, <2>5, <3>1
      <4>2. QED
        BY <2>5, <2>6, <4>1
    <3>2. CASE i \notin 1..Len(b)
      <4>1. PICK l : l = i - Len(b)
        OBVIOUS
      <4>2. l \in 1..Len(rest) /\ i = Len(b) + l
        BY <1>3, <1>4, <1>5, <2>7, <3>2, <4>1 DEF Joins
      <4>3. PICK m \in (l + 1)..Len(rest) : rest[m] = "end" /\ \A k \in l..(m - 1) : rest[k] \in SelectedSteps
        <5>1. Until(rest, Checked \cup {"switch"}, "end", SelectedSteps)
          BY <1>4 DEF Obeys, Laws
        <5>2. rest[l] \in Checked \cup {"switch"}
          BY <1>5, <2>7, <4>2 DEF Joins
        <5>3. QED
          BY <4>2, <5>1, <5>2 DEF Until
      <4>4. Len(b) + m \in (i + 1)..Len(p) /\ p[Len(b) + m] = "end"
        <5>1. m \in 1..Len(rest)
          BY <1>4, <4>2, <4>3
        <5>2. p[Len(b) + m] = rest[m]
          BY <1>5, <5>1, Zenon DEF Joins
        <5>3. Len(b) + m \in (i + 1)..Len(p)
          BY <1>3, <1>4, <1>5, <4>2, <4>3 DEF Joins
        <5>4. QED
          BY <4>3, <5>2, <5>3
      <4>5. ASSUME NEW k \in i..(Len(b) + m - 1) PROVE p[k] \in SelectedSteps
        <5>1. PICK g : g = k - Len(b)
          OBVIOUS
        <5>2. g \in l..(m - 1) /\ g \in 1..Len(rest) /\ k = Len(b) + g
          BY <1>3, <1>4, <4>2, <4>3, <4>5, <5>1
        <5>3. QED
          BY <1>5, <4>3, <5>2 DEF Joins
      <4>6. QED
        BY <4>4, <4>5
    <3>3. QED
      BY <3>1, <3>2
  <2>8. QED
    BY <2>7 DEF Until
<1>11. AfterEnd(p, card)
  <2>1. AfterEnd(b, card)
    BY <1>6 DEF AfterEnd
  <2>2. QED
    BY <1>3, <1>4, <1>5, <1>6, <2>1, EndJoins DEF Obeys
<1>12. ~Has(p, "gain_put") /\ ~Has(p, "bass_put") /\ \A s : Has(rest, s) => Has(p, s)
  <2>1. ~Has(q, "gain_put") /\ ~Has(q, "bass_put")
    BY DEF Obeys, Single
  <2>2. ~Has(rest, "gain_put") /\ ~Has(rest, "bass_put")
    BY <1>4, <2>1, HasDrops
  <2>3. ~Has(b, "gain_put") /\ ~Has(b, "bass_put")
    BY <1>6 DEF Has
  <2>4. QED
    BY <1>3, <1>4, <1>5, <2>2, <2>3, HasJoins
<1>13. Obeys(p, card)
  BY <1>5, <1>7, <1>8, <1>9, <1>10, <1>11, <1>12 DEF Obeys, Laws, Single
<1>14. QED
  BY <1>1, <1>2, <1>12, <1>13

-----------------------------------------------------------------------------
(* What a step of a function leaves to be done.                            *)

LEMMA TailDrops ==
  ASSUME NEW q, NEW r, NEW n, Drops(r, q, n), Len(q) \in Nat, r # <<>>
  PROVE  Drops(Tail(r), q, n + 1) /\ Head(r) = q[n + 1] /\ n + 1 \in 1..Len(q)
<1>1. /\ r \in Seq(StepNames) /\ Len(r) \in Nat \ {0} /\ n \in 0..Len(q) /\ Len(r) = Len(q) - n
      /\ \A i \in 1..Len(r) : r[i] = q[n + i]
  BY DEF Drops
<1>2. Tail(r) \in Seq(StepNames) /\ Len(Tail(r)) = Len(r) - 1 /\ \A i \in 1..(Len(r) - 1) : Tail(r)[i] = r[i + 1]
  BY <1>1
<1>3. \A i \in 1..(Len(r) - 1) : Tail(r)[i] = q[n + 1 + i]
  BY <1>1, <1>2
<1>4. Head(r) = r[1] /\ r[1] = q[n + 1]
  BY <1>1
<1>5. QED
  BY <1>1, <1>2, <1>3, <1>4 DEF Drops

LEMMA ItselfDrops ==
  ASSUME NEW q, q \in Seq(StepNames)
  PROVE  Drops(q, q, 0)
  BY DEF Drops

LEMMA CardStepsAre ==
  ASSUME NEW q, NEW card, Obeys(q, card)
  PROVE  q \in Seq(StepNames) /\ Len(q) \in Nat
<1>1. q \in Seq(CardSteps(card)) /\ CardSteps(card) \subseteq StepNames
  BY DEF Obeys, CardSteps, PlainSteps, StepNames
<1>2. QED
  BY <1>1

\* A failure whose status is looked at leaves the function at its end.
LEMMA FailureDrops ==
  ASSUME NEW q, NEW card, Obeys(q, card), q # <<>>, Head(q) \in Checked
  PROVE  \E n : /\ Drops(AfterFailure(q), q, n) /\ AfterFailure(q) # <<>>
                /\ n + 1 \in 1..Len(q) /\ q[n + 1] = "end" /\ \A i \in 1..n : q[i] \in SelectedSteps
<1>1. q \in Seq(StepNames) /\ Len(q) \in Nat \ {0} /\ Head(q) = q[1]
  BY CardStepsAre
<1>2. PICK j \in 2..Len(q) : q[j] = "end" /\ \A k \in 1..(j - 1) : q[k] \in SelectedSteps
  <2>1. 1 \in 1..Len(q) /\ Until(q, Checked \cup {"switch"}, "end", SelectedSteps) /\ q[1] \in Checked
    BY <1>1 DEF Obeys, Laws
  <2>2. QED
    BY <2>1 DEF Until
<1> DEFINE I == {i \in 1..Len(q) : q[i] = "end"}
           m == SelectInSeq(q, LAMBDA s : s = "end")
<1>3. m \in 1..Len(q) /\ q[m] = "end" /\ m <= j
  <2>1. j \in I /\ I \subseteq Nat
    BY <1>1, <1>2
  <2>2. \E x \in I : \A y \in I : x <= y
    BY <2>1, LeastOf
  <2>3. Min(I) \in I /\ \A y \in I : Min(I) <= y
    BY <2>2 DEF Min
  <2>4. m = Min(I)
    BY <2>1 DEF SelectInSeq
  <2>5. QED
    BY <2>1, <2>3, <2>4
<1>4. AfterFailure(q) = SubSeq(q, m, Len(q))
  BY DEF AfterFailure
<1> HIDE DEF m
<1>5. /\ SubSeq(q, m, Len(q)) \in Seq(StepNames) /\ Len(SubSeq(q, m, Len(q))) = Len(q) - (m - 1)
      /\ \A i \in 1..(Len(q) - (m - 1)) : SubSeq(q, m, Len(q))[i] = q[m - 1 + i]
  BY <1>1, <1>3
<1>6. PICK n : n = m - 1
  OBVIOUS
<1>7. n \in 0..Len(q) /\ n + 1 = m /\ \A i \in 1..n : q[i] \in SelectedSteps
  BY <1>1, <1>2, <1>3, <1>6
<1>8. Drops(AfterFailure(q), q, n)
  BY <1>1, <1>4, <1>5, <1>6, <1>7 DEF Drops
<1>9. AfterFailure(q) # <<>>
  <2>1. Len(AfterFailure(q)) = Len(q) - n /\ n \in 0..(Len(q) - 1)
    BY <1>1, <1>3, <1>6, <1>7, <1>8 DEF Drops
  <2>2. PICK r : r = AfterFailure(q)
    OBVIOUS
  <2>3. Len(r) # 0
    BY <1>1, <2>1, <2>2
  <2>4. QED
    BY <2>2, <2>3
<1>10. QED
  BY <1>3, <1>7, <1>8, <1>9

\* The task of a context, and its program
LEMMA TaskIs ==
  ASSUME TasksOK, NEW c \in OutputContexts
  PROVE  /\ TaskShape(tasks[c]) /\ Obeys(tasks[c].todo, outCard)
         /\ tasks[c].todo \in Seq(StepNames) /\ Len(tasks[c].todo) \in Nat
<1>1. TaskShape(tasks[c]) /\ Obeys(tasks[c].todo, outCard)
  BY Zenon DEF TasksOK
<1>2. QED
  BY <1>1, CardStepsAre, Zenon

\* Context c has task t after the step.
TaskNow(c, t) ==
  /\ TaskShape(t)
  /\ tasks' = [d \in OutputContexts |-> tasks'[d]] /\ tasks'[c] = t
  /\ \A d \in OutputContexts : d # c => tasks'[d] = tasks[d]

LEMMA TaskSet ==
  ASSUME TasksOK, NEW c \in OutputContexts, NEW t, TaskShape(t), tasks' = [tasks EXCEPT ![c] = t]
  PROVE  TaskNow(c, t)
<1>1. tasks = [d \in OutputContexts |-> tasks[d]]
  BY Zenon DEF TasksOK
<1>2. QED
  BY <1>1 DEF TaskNow

LEMMA TasksHold ==
  ASSUME TasksOK, NEW c \in OutputContexts, NEW t, TaskNow(c, t), Obeys(t.todo, outCard), outCard' = outCard,
         HwShape(outHw')
  PROVE  TasksOK'
<1>1. \A d \in OutputContexts : TaskShape(tasks'[d]) /\ Obeys(tasks'[d].todo, outCard)
  <2>1. TaskNow(c, t) /\ \A d \in OutputContexts : TaskShape(tasks[d]) /\ Obeys(tasks[d].todo, outCard)
    BY Zenon DEF TasksOK
  <2>2. ASSUME NEW d \in OutputContexts
        PROVE  TaskShape(tasks'[d]) /\ Obeys(tasks'[d].todo, outCard)
    <3>1. CASE d = c
      BY <2>1, <3>1, Zenon DEF TaskNow
    <3>2. CASE d # c
      BY <2>1, <3>2, Zenon DEF TaskNow
    <3>3. QED
      BY <3>1, <3>2
  <2>3. QED
    BY <2>2
<1>2. \A d \in OutputContexts : Obeys(tasks'[d].todo, outCard')
  BY <1>1, Zenon
<1>3. QED
  BY <1>1, <1>2, Zenon DEF TasksOK, TaskNow

\* The function goes on after what was dropped, past its end if it stands there.
LEMMA TodoDrops ==
  ASSUME TasksOK, NEW c \in OutputContexts, NEW n, NEW rest, Drops(rest, tasks[c].todo, n), Todo(c, rest)
  PROVE  \E t, m : /\ TaskNow(c, t) /\ t.branch = tasks[c].branch /\ t.fx = tasks[c].fx
                   /\ Drops(t.todo, tasks[c].todo, m)
                   /\ m = (IF rest # <<>> /\ tasks[c].todo[n + 1] = "end" THEN n + 1 ELSE n)
<1>1. PICK q : q = IF rest # <<>> /\ Head(rest) = "end" THEN Tail(rest) ELSE rest
  OBVIOUS
<1>2. PICK t : t = [tasks[c] EXCEPT !.todo = q]
  OBVIOUS
<1>3. tasks' = [tasks EXCEPT ![c] = t]
  BY <1>1, <1>2 DEF Todo
<1>4. TaskShape(t) /\ t.todo = q /\ t.branch = tasks[c].branch /\ t.fx = tasks[c].fx
  BY <1>2, TaskIs DEF TaskShape, TaskFields
<1>5. TaskNow(c, t)
  BY <1>3, <1>4, TaskSet
<1>6. PICK m : m = (IF rest # <<>> /\ tasks[c].todo[n + 1] = "end" THEN n + 1 ELSE n)
  OBVIOUS
<1>7. Drops(q, tasks[c].todo, m)
  <2>1. CASE rest # <<>>
    <3>1. Drops(Tail(rest), tasks[c].todo, n + 1) /\ Head(rest) = tasks[c].todo[n + 1]
      BY <2>1, TaskIs, TailDrops
    <3>2. QED
      BY <1>1, <1>6, <2>1, <3>1
  <2>2. CASE rest = <<>>
    BY <1>1, <1>6, <2>2
  <2>3. QED
    BY <2>1, <2>2
<1>8. QED
  BY <1>4, <1>5, <1>6, <1>7

-----------------------------------------------------------------------------
(* What every step of a function keeps.                                    *)

\* A step leaves the settings and what is to come alone.
Unmoved ==
  /\ outCard' = outCard /\ mixer' = mixer /\ jacks' = jacks
  /\ hpWork' = hpWork /\ missed' = missed /\ overlap' = overlap

LEMMA WantedStays ==
  ASSUME outCard' = outCard, mixer' = mixer, jacks' = jacks
  PROVE  WantedOutput' = WantedOutput
  BY DEF WantedOutput, Plain

LEMMA MixerStays ==
  ASSUME MixerOK, mixer' = mixer, cur' \in Outputs, lost' \subseteq OutRegisters
  PROVE  MixerOK'
<1>1. mixer' = [f \in MixerFields |-> mixer'[f]] /\ mixer'.out \in Outputs /\ mixer'.channels \in {"2.0", "5.1"}
  BY DEF MixerOK
<1>2. /\ mixer'.auto \in BOOLEAN /\ mixer'.pe \in BOOLEAN /\ mixer'.xbass \in BOOLEAN /\ mixer'.surround \in BOOLEAN
      /\ mixer'.range \in BOOLEAN /\ mixer'.bass \in BOOLEAN /\ cur' \in Outputs
  BY Zenon DEF MixerOK
<1>3. QED
  BY <1>1, <1>2, Zenon DEF MixerOK

\* One function runs alone after the step if one did before it.
LEMMA SoleStays ==
  ASSUME Sole, NEW c \in OutputContexts, NEW t, TaskNow(c, t), tasks[c].todo # <<>> \/ t.todo = <<>> \/ Quiet
  PROVE  Sole'
<1>1. /\ tasks'[c] = t /\ \A d \in OutputContexts : d # c => tasks'[d] = tasks[d]
      /\ \A d, e \in OutputContexts : d # e => tasks[d].todo = <<>> \/ tasks[e].todo = <<>>
      /\ Quiet => \A d \in OutputContexts : tasks[d].todo = <<>>
  BY Zenon DEF TaskNow, Sole, Quiet
<1>2. ASSUME NEW d \in OutputContexts, NEW e \in OutputContexts, d # e
      PROVE  tasks'[d].todo = <<>> \/ tasks'[e].todo = <<>>
  <2>1. CASE d = c
    BY <1>1, <1>2, <2>1, Zenon
  <2>2. CASE e = c
    BY <1>1, <1>2, <2>2, Zenon
  <2>3. CASE d # c /\ e # c
    BY <1>1, <1>2, <2>3, Zenon
  <2>4. QED
    BY <2>1, <2>2, <2>3
<1>3. QED
  BY <1>2, Zenon DEF Sole

\* The functions are current after the step if the one that moves is.
LEMMA AloneStays ==
  ASSUME ~overlap => Sole /\ \A d \in OutputContexts : Current(tasks[d], outCard, cur, mixer),
         NEW c \in OutputContexts, NEW t, TaskNow(c, t), tasks[c].todo # <<>>,
         overlap' = overlap, outCard' = outCard, cur' = cur, mixer' = mixer,
         ~overlap /\ Current(tasks[c], outCard, cur, mixer) => Current(t, outCard, cur, mixer)
  PROVE  AloneOK'
<1>1. CASE overlap
  BY <1>1, Zenon DEF AloneOK
<1>2. CASE ~overlap
  <2>1. Sole'
    BY <1>2, SoleStays, Zenon
  <2>2. tasks'[c] = t /\ \A d \in OutputContexts : d # c => tasks'[d] = tasks[d]
    BY Zenon DEF TaskNow
  <2>3. \A d \in OutputContexts : Current(tasks'[d], outCard, cur, mixer)
    BY <1>2, <2>2, Zenon
  <2>4. \A d \in OutputContexts : Current(tasks'[d], outCard', cur', mixer')
    BY <2>3, Zenon
  <2>5. QED
    BY <2>1, <2>4, Zenon DEF AloneOK
<1>3. QED
  BY <1>1, <1>2

\* A function goes on: a choice is not passed, and a switch only where a choice follows.
LEMMA FunctionGoesOn ==
  ASSUME MixerOK, TasksOK, OutputKnown, AloneOK, Unmoved, cur' = cur,
         NEW c \in OutputContexts, tasks[c].todo # <<>>,
         NEW t, TaskNow(c, t), t.branch = tasks[c].branch, t.fx = tasks[c].fx,
         NEW m, Drops(t.todo, tasks[c].todo, m), \A i \in 1..m : tasks[c].todo[i] # "choose",
         (\A i \in 1..m : tasks[c].todo[i] # "switch") \/ ChooseFirst(t.todo, outCard),
         HwShape(outHw'), lost' \subseteq OutRegisters
  PROVE  MixerOK' /\ TasksOK' /\ OutputKnown' /\ AloneOK'
<1>1. PICK q, p : q = tasks[c].todo /\ p = t.todo
  BY Zenon
<1>2. Obeys(q, outCard) /\ Len(q) \in Nat /\ Drops(p, q, m)
  BY <1>1, TaskIs, Zenon
<1>3. Obeys(p, outCard)
  BY <1>2, DropsObey
<1>4. /\ outCard' = outCard /\ mixer' = mixer /\ jacks' = jacks /\ cur' = cur
      /\ hpWork' = hpWork /\ missed' = missed /\ overlap' = overlap
  BY Zenon DEF Unmoved
<1>5. MixerOK'
  <2>1. cur' \in Outputs
    BY Zenon DEF MixerOK
  <2>2. QED
    BY <1>4, <2>1, MixerStays, Zenon
<1>6. TasksOK'
  <2>1. Obeys(t.todo, outCard)
    BY <1>1, <1>3, Zenon
  <2>2. QED
    BY <1>4, <2>1, TasksHold, Zenon
<1>7. Has(q, "choose") => Has(p, "choose")
  <2>1. \A i \in 1..m : q[i] # "choose"
    BY <1>1
  <2>2. QED
    BY <1>2, <2>1, HasDrops
<1>8. OutputKnown'
  <2>1. CASE cur = WantedOutput
    BY <1>4, <2>1, WantedStays, Zenon DEF OutputKnown
  <2>2. CASE Stale
    BY <1>4, <2>2, Zenon DEF OutputKnown, Stale
  <2>3. ASSUME NEW d \in OutputContexts, Has(tasks[d].todo, "choose") PROVE OutputKnown'
    <3>1. Has(tasks'[d].todo, "choose")
      BY <1>1, <1>7, <2>3, Zenon DEF TaskNow
    <3>2. QED
      BY <3>1, Zenon DEF OutputKnown
  <2>4. QED
    BY <2>1, <2>2, <2>3, Zenon DEF OutputKnown
<1>9. AloneOK'
  <2>1. ASSUME Current(tasks[c], outCard, cur, mixer) PROVE Current(t, outCard, cur, mixer)
    <3>1. (SwitchFirst(p, outCard) \/ t.branch = cur) /\ (ChooseFirst(p, outCard) \/ t.fx = mixer.pe)
      <4>1. CASE ChooseFirst(p, outCard)
        <5>1. Laws(p, outCard) /\ Len(p) \in Nat
          BY <1>3, CardStepsAre, Zenon DEF Obeys
        <5>2. SwitchFirst(p, outCard)
          BY <4>1, <5>1, ChosenFirst, Zenon
        <5>3. QED
          BY <4>1, <5>2, Zenon
      <4>2. CASE \A i \in 1..m : q[i] # "switch"
        <5>1. SwitchFirst(q, outCard) => SwitchFirst(p, outCard)
          BY <1>2, <4>2, StillFirst, Zenon DEF SwitchFirst
        <5>2. ChooseFirst(q, outCard) => ChooseFirst(p, outCard)
          BY <1>1, <1>2, StillFirst, Zenon DEF ChooseFirst
        <5>3. QED
          BY <1>1, <2>1, <5>1, <5>2, Zenon DEF Current
      <4>3. QED
        BY <1>1, <4>1, <4>2, Zenon
    <3>2. (Has(p, "gain_put") => Has(q, "gain_put")) /\ (Has(p, "bass_put") => Has(q, "bass_put"))
      BY <1>2, HasDrops, Zenon
    <3>3. QED
      BY <1>1, <2>1, <3>1, <3>2, Zenon DEF Current
  <2>2. ~overlap => Sole /\ \A d \in OutputContexts : Current(tasks[d], outCard, cur, mixer)
    BY Zenon DEF AloneOK
  <2>3. QED
    BY <1>4, <2>1, <2>2, AloneStays, Zenon
<1>10. QED
  BY <1>5, <1>6, <1>8, <1>9

-----------------------------------------------------------------------------
(* What a step does to the registers.                                      *)

\* Register r is right, or about to be; after the step, with what it will be.
Right(r) == outHw[r] = Wanted(r) \/ Excused(r) \/ Pends(r)

LEMMA WantedIs ==
  ASSUME outCard' = outCard, mixer' = mixer, jacks' = jacks, NEW r, outHw'[r] = outHw[r]
  PROVE  Wanted(r)' = Wanted(r)
  BY DEF Wanted, WantedOutput, Plain, HpPin, RearPin, SpeakerPins, Lfe

LEMMA ExcusedIs ==
  ASSUME Unmoved, NEW r
  PROVE  Excused(r)' = Excused(r)
  BY DEF Unmoved, Excused, Stale, Excepted, Plain

\* A step that writes no register of the selection
LEMMA WritesNothing ==
  ASSUME NEW r \in OutRegisters, NEW pe, NEW card
  PROVE  /\ ~WritesTo("end", r, pe, card) /\ ~WritesTo("report", r, pe, card) /\ ~WritesTo("choose", r, pe, card)
         /\ ~WritesTo("mute", r, pe, card)
  BY DEF WritesTo, RegisterOf, OutRegisters, Selected

\* A register that the step does not write, and that no dropped step would, stays right.
LEMMA RightStays ==
  ASSUME TasksOK, Unmoved, NEW c \in OutputContexts, NEW t, TaskNow(c, t), NEW m, Drops(t.todo, tasks[c].todo, m),
         NEW r, \A i \in 1..m : ~WritesTo(tasks[c].todo[i], r, mixer.pe, outCard),
         outHw'[r] = outHw[r], Right(r)
  PROVE  Right(r)'
<1>1. /\ outCard' = outCard /\ mixer' = mixer /\ jacks' = jacks
  BY Zenon DEF Unmoved
<1>2. CASE outHw[r] = Wanted(r)
  <2>1. outHw'[r] = Wanted(r)'
    BY <1>1, <1>2, WantedIs
  <2>2. QED
    BY <2>1 DEF Right
<1>3. CASE Excused(r)
  <2>1. Excused(r)'
    BY <1>3, ExcusedIs
  <2>2. QED
    BY <2>1 DEF Right
<1>4. ASSUME NEW d \in OutputContexts, PendsIn(tasks[d].todo, r, mixer.pe, outCard) PROVE Right(r)'
  <2>1. PendsIn(tasks'[d].todo, r, mixer.pe, outCard)
    <3>1. CASE d = c
      <4>1. Len(tasks[c].todo) \in Nat
        BY TaskIs
      <4>2. PendsIn(t.todo, r, mixer.pe, outCard)
        BY <1>4, <3>1, <4>1, PendsDrops
      <4>3. QED
        BY <3>1, <4>2, Zenon DEF TaskNow
    <3>2. CASE d # c
      BY <1>4, <3>2, Zenon DEF TaskNow
    <3>3. QED
      BY <3>1, <3>2
  <2>2. PendsIn(tasks'[d].todo, r, mixer'.pe, outCard')
    BY <1>1, <2>1, Zenon
  <2>3. QED
    BY <2>2, Zenon DEF Right, Pends
<1>5. QED
  BY <1>2, <1>3, <1>4, Zenon DEF Right, Pends

\* A program that will choose will write whatever a selection writes.
LEMMA ChoicePends ==
  ASSUME NEW p, NEW card, NEW pe, Obeys(p, card), Has(p, "choose"), NEW r \in Chosen(pe, card)
  PROVE  PendsIn(p, r, pe, card)
<1>1. PICK i \in 1..Len(p) : p[i] = "choose"
  BY DEF Has
<1>2. Len(p) \in Nat /\ \A x \in Rewritten(card) : Has(p, x)
  <2>1. Len(p) \in Nat
    BY CardStepsAre
  <2>2. ASSUME NEW x \in Rewritten(card) PROVE Has(p, x)
    <3>1. Until(p, {"choose"}, x, StepNames)
      BY DEF Obeys, Laws
    <3>2. PICK j \in (i + 1)..Len(p) : p[j] = x
      BY <1>1, <3>1 DEF Until
    <3>3. QED
      BY <1>1, <2>1, <3>2 DEF Has
  <2>3. QED
    BY <2>1, <2>2
<1>3. PICK x \in Rewritten(card) : WritesTo(x, r, pe, card)
  <2>1. CASE r \in {"pins", "config"} \/ (card = "plain" /\ r = "eq") \/ (card # "plain" /\ pe /\ r = "xbass")
    <3>1. WritesTo("switch", r, pe, card)
      BY <2>1 DEF WritesTo, BranchRegisters, BranchSteps
    <3>2. "switch" \in Rewritten(card)
      BY DEF Rewritten
    <3>3. QED
      BY <3>1, <3>2
  <2>2. CASE card # "plain" /\ r \in {"relay", "invert", "port", "gain", "eq", "bass", "range"}
    <3>1. r \in Rewritten(card) /\ r # "mute" /\ RegisterOf(r) = r
      BY <2>2 DEF Rewritten, RegisterOf
    <3>2. QED
      BY <3>1 DEF WritesTo
  <2>3. CASE card # "plain" /\ r = "mute"
    <3>1. "unmute" \in Rewritten(card) /\ RegisterOf("unmute") = r
      BY <2>3 DEF Rewritten, RegisterOf
    <3>2. QED
      BY <3>1 DEF WritesTo
  <2>4. QED
    BY <2>1, <2>2, <2>3 DEF Chosen
<1>4. PICK j \in 1..Len(p) : p[j] = x
  BY <1>2 DEF Has
<1>5. QED
  BY <1>3, <1>4 DEF PendsIn

\* What a selection writes is excused while one is due.
LEMMA StaleExcuses ==
  ASSUME Stale, NEW r \in Chosen(mixer.pe, outCard)
  PROVE  Excused(r)
  BY DEF Excused, Chosen, Selected, Plain

\* For a function that runs alone, with nothing chosen among what it drops: the output is
\* the one asked for, or what a selection writes will be written.
LEMMA ChosenOr ==
  ASSUME TasksOK, Sole, OutputKnown, NEW c \in OutputContexts, tasks[c].todo # <<>>,
         NEW p, NEW m, Drops(p, tasks[c].todo, m), \A i \in 1..m : tasks[c].todo[i] # "choose",
         NEW r \in Chosen(mixer.pe, outCard)
  PROVE  cur = WantedOutput \/ Excused(r) \/ PendsIn(p, r, mixer.pe, outCard)
<1>1. CASE cur = WantedOutput
  BY <1>1
<1>2. CASE Stale
  BY <1>2, StaleExcuses
<1>3. ASSUME NEW d \in OutputContexts, Has(tasks[d].todo, "choose")
      PROVE  PendsIn(p, r, mixer.pe, outCard)
  <2>1. d = c
    <3>1. tasks[d].todo # <<>>
      BY <1>3 DEF Has
    <3>2. QED
      BY <3>1, Zenon DEF Sole
  <2>2. Obeys(tasks[c].todo, outCard) /\ Len(tasks[c].todo) \in Nat
    BY TaskIs
  <2>3. Has(p, "choose")
    BY <1>3, <2>1, <2>2, HasDrops
  <2>4. Obeys(p, outCard)
    BY <2>2, DropsObey
  <2>5. QED
    BY <2>3, <2>4, ChoicePends
<1>4. QED
  BY <1>1, <1>2, <1>3, Zenon DEF OutputKnown

-----------------------------------------------------------------------------
(* The steps of a function, one after the other.                           *)

\* A context that has nothing to do is current.
LEMMA IdleCurrent ==
  ASSUME NEW t, t.todo = <<>>, NEW card, NEW out, NEW settings
  PROVE  Current(t, card, out, settings)
<1>1. Len(t.todo) = 0
  OBVIOUS
<1>2. SwitchFirst(t.todo, card) /\ ChooseFirst(t.todo, card)
  BY <1>1 DEF SwitchFirst, ChooseFirst, Guarded
<1>3. ~Has(t.todo, "gain_put") /\ ~Has(t.todo, "bass_put")
  BY <1>1 DEF Has
<1>4. QED
  BY <1>2, <1>3, Zenon DEF Current

\* The report of the rear jack is still to come, unless it was made.
LEMMA RearStays ==
  ASSUME RearOK, TasksOK, NEW c \in OutputContexts, NEW t, TaskNow(c, t), NEW m, Drops(t.todo, tasks[c].todo, m),
         hpWork' = hpWork, missed' = missed, blocked' \subseteq blocked,
         (\A i \in 1..m : tasks[c].todo[i] # "report") \/ "rear" \notin blocked'
  PROVE  RearOK'
<1>1. CASE "rear" \notin blocked'
  BY <1>1, Zenon DEF RearOK
<1>2. CASE "rear" \in blocked'
  <2>1. "rear" \in blocked /\ \A i \in 1..m : tasks[c].todo[i] # "report"
    BY <1>2
  <2>2. CASE hpWork \/ "report" \in missed
    BY <2>2, Zenon DEF RearOK
  <2>3. ASSUME NEW d \in OutputContexts, Has(tasks[d].todo, "report") PROVE Has(tasks'[d].todo, "report")
    <3>1. CASE d = c
      <4>1. Len(tasks[c].todo) \in Nat
        BY TaskIs
      <4>2. Has(tasks[c].todo, "report")
        BY <2>3, <3>1
      <4>3. Has(t.todo, "report")
        BY <2>1, <4>1, <4>2, HasDrops
      <4>4. QED
        BY <3>1, <4>3, Zenon DEF TaskNow
    <3>2. CASE d # c
      BY <2>3, <3>2, Zenon DEF TaskNow
    <3>3. QED
      BY <3>1, <3>2
  <2>4. QED
    BY <2>1, <2>2, <2>3, Zenon DEF RearOK
<1>3. QED
  BY <1>1, <1>2

\* What the plain card never writes stays so.
LEMMA PlainStays ==
  ASSUME PlainOK, outCard' = outCard, mixer' = mixer, zeroed' = zeroed,
         Plain => NotOnPlain \cap lost \subseteq lost'
  PROVE  PlainOK'
<1>1. Plain' = Plain
  BY DEF Plain
<1>2. CASE Plain
  <2>1. mixer.channels = "2.0" /\ NotOnPlain \subseteq lost /\ ~zeroed
    BY <1>2, Zenon DEF PlainOK
  <2>2. mixer'.channels = "2.0"
    BY <2>1
  <2>3. NotOnPlain \subseteq lost'
    BY <1>2, <2>1
  <2>4. ~zeroed'
    BY <2>1, Zenon
  <2>5. QED
    BY <2>2, <2>3, <2>4, Zenon DEF PlainOK
<1>3. QED
  BY <1>1, <1>2, Zenon DEF PlainOK

\* The registers that a step leaves as they were, when no dropped step would write them
LEMMA RegistersStay ==
  ASSUME RegistersOK, TasksOK, Unmoved, NEW c \in OutputContexts, NEW t, TaskNow(c, t),
         NEW m, Drops(t.todo, tasks[c].todo, m), HwShape(outHw'), overlap => lost' = OutRegisters,
         \A r \in OutRegisters \ lost' : ~overlap =>
           \/ /\ outHw'[r] = outHw[r] /\ r \notin lost
              /\ \A i \in 1..m : ~WritesTo(tasks[c].todo[i], r, mixer.pe, outCard)
           \/ Right(r)'
  PROVE  RegistersOK'
<1>1. overlap' = overlap
  BY Zenon DEF Unmoved
<1>2. CASE overlap
  BY <1>1, <1>2, Zenon DEF RegistersOK
<1>3. CASE ~overlap
  <2>1. ASSUME NEW r \in OutRegisters \ lost' PROVE Right(r)'
    <3>1. CASE /\ outHw'[r] = outHw[r] /\ r \notin lost
               /\ \A i \in 1..m : ~WritesTo(tasks[c].todo[i], r, mixer.pe, outCard)
      <4>1. Right(r)
        <5>1. r \in OutRegisters \ lost
          BY <3>1
        <5>2. QED
          BY <1>3, <5>1, Zenon DEF RegistersOK, Right
      <4>2. QED
        BY <3>1, <4>1, RightStays
    <3>2. QED
      BY <1>3, <3>1, Zenon
  <2>2. QED
    BY <1>1, <1>3, <2>1, Zenon DEF RegistersOK, Right
<1>4. QED
  BY <1>2, <1>3

\* The step that is next, and what is left without it
LEMMA NextStep ==
  ASSUME TasksOK, NEW c \in OutputContexts, tasks[c].todo # <<>>
  PROVE  /\ Drops(tasks[c].todo, tasks[c].todo, 0) /\ Drops(Tail(tasks[c].todo), tasks[c].todo, 1)
         /\ Head(tasks[c].todo) = tasks[c].todo[1] /\ Len(tasks[c].todo) \in Nat \ {0}
<1>1. PICK q : q = tasks[c].todo
  OBVIOUS
<1>2. q \in Seq(StepNames) /\ Len(q) \in Nat /\ q # <<>>
  BY <1>1, TaskIs, Zenon
<1>3. Drops(q, q, 0)
  BY <1>2, ItselfDrops
<1>4. Drops(Tail(q), q, 0 + 1) /\ Head(q) = q[0 + 1] /\ 0 + 1 \in 1..Len(q)
  BY <1>2, <1>3, TailDrops
<1>5. Drops(Tail(q), q, 1) /\ Head(q) = q[1] /\ Len(q) \in Nat \ {0}
  BY <1>2, <1>4
<1>6. QED
  BY <1>1, <1>3, <1>5, Zenon

\* A choice: the output in use is the one asked for, and the effects are the ones there are.
LEMMA ChooseFollows ==
  ASSUME FollowInv, NEW c \in OutputContexts, Choose(c)
  PROVE  FollowInv'
<1>1. /\ MixerOK /\ TasksOK /\ PlainOK /\ OutputKnown /\ AloneOK /\ RegistersOK /\ VolumeOK /\ RearOK
  BY Zenon DEF FollowInv
<1>2. PICK q, p : q = tasks[c].todo /\ p = Tail(tasks[c].todo)
  BY Zenon
<1>3. /\ q # <<>> /\ q[1] = "choose" /\ Drops(p, q, 1) /\ Len(q) \in Nat /\ Obeys(q, outCard)
  <2>1. tasks[c].todo # <<>> /\ Head(tasks[c].todo) = "choose"
    BY Zenon DEF Choose
  <2>2. QED
    BY <1>1, <1>2, <2>1, NextStep, TaskIs
<1>4. PICK t : t = [tasks[c] EXCEPT !.todo = p, !.fx = mixer.pe]
  OBVIOUS
<1>5. TaskShape(t) /\ t.todo = p /\ t.branch = tasks[c].branch
  BY <1>1, <1>4, TaskIs DEF TaskShape, TaskFields
<1>6. t.fx = mixer.pe
  BY <1>1, <1>4, TaskIs DEF TaskShape, TaskFields
<1>7. tasks' = [tasks EXCEPT ![c] = t]
  BY <1>2, <1>4 DEF Choose
<1>8. TaskNow(c, t) /\ Drops(t.todo, tasks[c].todo, 1)
  <2>1. TaskNow(c, t)
    BY <1>1, <1>5, <1>7, TaskSet, Zenon
  <2>2. QED
    BY <1>2, <1>3, <1>5, <2>1, Zenon
<1>9. /\ Unmoved /\ outHw' = outHw /\ zeroed' = zeroed /\ blocked' = blocked /\ lost' = lost /\ failed' = failed
  <2>1. <<outCard, mixer, jacks, outHw, zeroed, hpWork, blocked, lost, overlap, missed, failed, outEvents>>'
          = <<outCard, mixer, jacks, outHw, zeroed, hpWork, blocked, lost, overlap, missed, failed, outEvents>>
    BY Zenon DEF Choose
  <2>2. QED
    BY <2>1 DEF Unmoved
<1>10. /\ outCard' = outCard /\ mixer' = mixer /\ jacks' = jacks
       /\ hpWork' = hpWork /\ missed' = missed /\ overlap' = overlap
  BY <1>9, Zenon DEF Unmoved
<1>11. WantedOutput' = WantedOutput
  BY <1>10, WantedStays, Zenon
<1>12. cur' = WantedOutput
  BY Zenon DEF Choose, WantedOutput
<1>13. MixerOK'
  <2>1. WantedOutput \in Outputs
    BY <1>1 DEF MixerOK, WantedOutput, Outputs
  <2>2. lost' \subseteq OutRegisters
    BY <1>1, <1>9 DEF MixerOK
  <2>3. QED
    BY <1>1, <1>10, <1>12, <2>1, <2>2, MixerStays, Zenon
<1>14. HwShape(outHw')
  BY <1>1, <1>9, Zenon DEF TasksOK
<1>15. Obeys(p, outCard) /\ TasksOK'
  <2>1. Obeys(p, outCard)
    BY <1>3, DropsObey, Zenon
  <2>2. QED
    BY <1>1, <1>5, <1>8, <1>10, <1>14, <2>1, TasksHold, Zenon
<1>16. PlainOK'
  <2>1. Plain => NotOnPlain \cap lost \subseteq lost'
    BY <1>9
  <2>2. QED
    BY <1>1, <1>9, <1>10, <2>1, PlainStays, Zenon
<1>17. OutputKnown'
  BY <1>11, <1>12, Zenon DEF OutputKnown
<1>18. AloneOK'
  <2>1. CASE overlap
    BY <1>10, <2>1, Zenon DEF AloneOK
  <2>2. CASE ~overlap
    <3>1. Sole
      BY <1>1, <2>2, Zenon DEF AloneOK
    <3>2. Sole'
      <4>1. tasks[c].todo # <<>>
        BY <1>2, <1>3, Zenon
      <4>2. QED
        BY <1>8, <3>1, <4>1, SoleStays, Zenon
    <3>3. Current(t, outCard, cur', mixer)
      <4>1. SwitchFirst(p, outCard)
        BY <1>3, AfterChoice, Zenon
      <4>2. ~Has(q, "gain_put") /\ ~Has(q, "bass_put")
        BY <1>3 DEF Obeys, Single
      <4>3. ~Has(p, "gain_put") /\ ~Has(p, "bass_put")
        BY <1>3, <4>2, HasDrops, Zenon
      <4>4. QED
        BY <1>5, <1>6, <4>1, <4>3, Zenon DEF Current
    <3>4. ASSUME NEW d \in OutputContexts PROVE Current(tasks'[d], outCard, cur', mixer)
      <4>1. CASE d = c
        BY <1>8, <3>3, <4>1, Zenon DEF TaskNow
      <4>2. CASE d # c
        <5>1. tasks'[d].todo = <<>>
          BY <1>2, <1>3, <1>8, <3>1, <4>2, Zenon DEF Sole, TaskNow
        <5>2. QED
          BY <5>1, IdleCurrent, Zenon
      <4>3. QED
        BY <4>1, <4>2
    <3>5. QED
      BY <1>10, <3>2, <3>4, Zenon DEF AloneOK
  <2>3. QED
    BY <2>1, <2>2
<1>19. RegistersOK'
  <2>1. \A r \in OutRegisters \ lost' : ~overlap =>
          /\ outHw'[r] = outHw[r] /\ r \notin lost
          /\ \A i \in 1..1 : ~WritesTo(tasks[c].todo[i], r, mixer.pe, outCard)
    <3>1. ASSUME NEW r \in OutRegisters \ lost', NEW i \in 1..1
          PROVE  ~WritesTo(tasks[c].todo[i], r, mixer.pe, outCard)
      <4>1. ~WritesTo("choose", r, mixer.pe, outCard)
        BY WritesNothing
      <4>2. tasks[c].todo[i] = "choose"
        BY <1>2, <1>3, <3>1
      <4>3. QED
        BY <4>1, <4>2, Zenon
    <3>2. QED
      BY <1>9, <3>1
  <2>2. overlap => lost' = OutRegisters
    BY <1>1, <1>9, Zenon DEF RegistersOK
  <2>3. QED
    BY <1>1, <1>8, <1>9, <1>14, <2>1, <2>2, RegistersStay, Zenon
<1>20. VolumeOK'
  BY <1>1, <1>9, Zenon DEF VolumeOK
<1>21. RearOK'
  <2>1. \A i \in 1..1 : tasks[c].todo[i] # "report"
    BY <1>2, <1>3
  <2>2. blocked' \subseteq blocked
    BY <1>9
  <2>3. QED
    BY <1>1, <1>8, <1>10, <2>1, <2>2, RearStays, Zenon
<1>22. QED
  BY <1>13, <1>15, <1>16, <1>17, <1>18, <1>19, <1>20, <1>21, Zenon DEF FollowInv

LEMMA BranchIs ==
  ASSUME NEW fx
  PROVE  /\ Branch(fx) = BranchOf(outCard, fx) /\ Len(BranchOf(outCard, fx)) \in Nat
         /\ BranchOf(outCard, fx) \in Seq(StepNames)
         /\ \A pe : \A r \in BranchRegisters(fx, outCard) : PendsIn(BranchOf(outCard, fx), r, pe, outCard)
<1>1. CASE Plain
  <2>1. outCard = "plain"
    BY <1>1 DEF Plain
  <2>2. Branch(fx) = <<"config", "eq", "pins">> /\ BranchOf(outCard, fx) = <<"config", "eq", "pins">>
    BY <1>1, <2>1, Zenon DEF Branch, BranchOf
  <2>3. PICK b : b = <<"config", "eq", "pins">>
    OBVIOUS
  <2>4. b \in Seq(StepNames) /\ Len(b) = 3 /\ b[1] = "config" /\ b[2] = "eq" /\ b[3] = "pins"
    BY <2>3 DEF StepNames
  <2>5. BranchRegisters(fx, outCard) = {"pins", "config", "eq"}
    BY <2>1 DEF BranchRegisters, BranchSteps
  <2>6. ASSUME NEW pe, NEW r \in {"pins", "config", "eq"} PROVE PendsIn(b, r, pe, outCard)
    BY <2>4 DEF PendsIn, WritesTo, RegisterOf
  <2>7. QED
    BY <2>2, <2>3, <2>4, <2>5, <2>6, Zenon
<1>2. CASE ~Plain /\ fx
  <2>1. outCard # "plain"
    BY <1>2, Zenon DEF Plain
  <2>2. PICK b : b = <<"pins", "config", "xbass">>
    OBVIOUS
  <2>3. b \in Seq(StepNames) /\ Len(b) = 3 /\ b[1] = "pins" /\ b[2] = "config" /\ b[3] = "xbass"
    BY <2>2 DEF StepNames
  <2>4. b = <<"pins", "config">> \o <<"xbass">>
    BY <2>2
  <2>5. Branch(fx) = b /\ BranchOf(outCard, fx) = b
    BY <1>2, <2>1, <2>2, <2>4, Zenon DEF Branch, BranchOf
  <2>6. BranchRegisters(fx, outCard) = {"pins", "config", "xbass"}
    BY <1>2, <2>1 DEF BranchRegisters, BranchSteps
  <2>7. ASSUME NEW pe, NEW r \in {"pins", "config", "xbass"} PROVE PendsIn(b, r, pe, outCard)
    BY <2>3 DEF PendsIn, WritesTo, RegisterOf
  <2>8. /\ b \in Seq(StepNames) /\ Len(b) \in Nat
        /\ \A pe : \A r \in BranchRegisters(fx, outCard) : PendsIn(b, r, pe, outCard)
    BY <2>3, <2>6, <2>7
  <2>9. QED
    BY <2>5, <2>8
<1>3. CASE ~Plain /\ ~fx
  <2>1. outCard # "plain"
    BY <1>3, Zenon DEF Plain
  <2>2. PICK b : b = <<"pins", "config">>
    OBVIOUS
  <2>3. b \in Seq(StepNames) /\ Len(b) = 2 /\ b[1] = "pins" /\ b[2] = "config"
    BY <2>2 DEF StepNames
  <2>4. b = <<"pins", "config">> \o <<>>
    BY <2>2
  <2>5. Branch(fx) = b /\ BranchOf(outCard, fx) = b
    BY <1>3, <2>1, <2>2, <2>4, Zenon DEF Branch, BranchOf
  <2>6. BranchRegisters(fx, outCard) = {"pins", "config"}
    BY <1>3, <2>1 DEF BranchRegisters, BranchSteps
  <2>7. ASSUME NEW pe, NEW r \in {"pins", "config"} PROVE PendsIn(b, r, pe, outCard)
    BY <2>3 DEF PendsIn, WritesTo, RegisterOf
  <2>8. /\ b \in Seq(StepNames) /\ Len(b) \in Nat
        /\ \A pe : \A r \in BranchRegisters(fx, outCard) : PendsIn(b, r, pe, outCard)
    BY <2>3, <2>6, <2>7
  <2>9. QED
    BY <2>5, <2>8
<1>4. QED
  BY <1>1, <1>2, <1>3

\* The switch of a selection becomes its branch: for the output in use, and with the
\* effects the choice has read.
LEMMA SwitchFollows ==
  ASSUME FollowInv, NEW c \in OutputContexts, tasks[c].todo # <<>>, Head(tasks[c].todo) = "switch",
         NEW t, t = [tasks[c] EXCEPT !.branch = cur, !.todo = Branch(tasks[c].fx) \o Tail(tasks[c].todo)],
         tasks' = [tasks EXCEPT ![c] = t],
         Unmoved, cur' = cur, outHw' = outHw, zeroed' = zeroed, blocked' = blocked, lost' = lost, failed' = failed
  PROVE  FollowInv'
<1>1. /\ MixerOK /\ TasksOK /\ PlainOK /\ OutputKnown /\ AloneOK /\ RegistersOK /\ VolumeOK /\ RearOK
  BY Zenon DEF FollowInv
<1>2. PICK q, rest, b, p : /\ q = tasks[c].todo /\ rest = Tail(tasks[c].todo)
                           /\ b = BranchOf(outCard, tasks[c].fx) /\ p = b \o rest
  BY Zenon
<1>3. /\ q # <<>> /\ q[1] = "switch" /\ Drops(rest, q, 1) /\ Len(q) \in Nat \ {0} /\ Obeys(q, outCard)
  BY <1>1, <1>2, NextStep, TaskIs
<1>4. Branch(tasks[c].fx) = b /\ Len(b) \in Nat /\ b \in Seq(StepNames)
  BY <1>2, BranchIs, Zenon
<1>5. TaskShape(t) /\ t.todo = p /\ t.branch = cur /\ t.fx = tasks[c].fx
  BY <1>1, <1>2, <1>4, TaskIs DEF TaskShape, TaskFields
<1>6. TaskNow(c, t)
  BY <1>1, <1>5, TaskSet, Zenon
<1>7. /\ Obeys(p, outCard) /\ ~Has(p, "gain_put") /\ ~Has(p, "bass_put")
      /\ \A s : Has(rest, s) => Has(p, s)
  <2>1. /\ Obeys(BranchOf(outCard, tasks[c].fx) \o rest, outCard)
        /\ \A s : Has(rest, s) => Has(BranchOf(outCard, tasks[c].fx) \o rest, s)
        /\ ~Has(BranchOf(outCard, tasks[c].fx) \o rest, "gain_put")
        /\ ~Has(BranchOf(outCard, tasks[c].fx) \o rest, "bass_put")
    BY <1>3, BranchObeys, Zenon
  <2>2. QED
    BY <1>2, <2>1, Zenon
<1>8. \A s : s # "switch" /\ Has(q, s) => Has(p, s)
  <2>1. ASSUME NEW s, s # "switch", Has(q, s) PROVE Has(rest, s)
    <3>1. \A i \in 1..1 : q[i] # s
      BY <1>3, <2>1
    <3>2. QED
      BY <1>3, <2>1, <3>1, HasDrops
  <2>2. QED
    BY <1>7, <2>1, Zenon
<1>9. Joins(p, b, rest) /\ Len(rest) \in Nat
  <2>1. rest \in Seq(StepNames)
    BY <1>3 DEF Drops
  <2>2. QED
    BY <1>2, <1>4, <2>1, JoinIs
<1>10. /\ outCard' = outCard /\ mixer' = mixer /\ jacks' = jacks
       /\ hpWork' = hpWork /\ missed' = missed /\ overlap' = overlap
  BY Zenon DEF Unmoved
<1>11. HwShape(outHw')
  BY <1>1, Zenon DEF TasksOK
<1>12. MixerOK'
  <2>1. cur' \in Outputs
    BY <1>1, Zenon DEF MixerOK
  <2>2. lost' \subseteq OutRegisters
    BY <1>1 DEF MixerOK
  <2>3. QED
    BY <1>1, <1>10, <2>1, <2>2, MixerStays, Zenon
<1>13. TasksOK'
  <2>1. Obeys(t.todo, outCard)
    BY <1>5, <1>7, Zenon
  <2>2. QED
    BY <1>1, <1>6, <1>10, <1>11, <2>1, TasksHold, Zenon
<1>14. PlainOK'
  <2>1. Plain => NotOnPlain \cap lost \subseteq lost'
    OBVIOUS
  <2>2. QED
    BY <1>1, <1>10, <2>1, PlainStays, Zenon
<1>15. ASSUME NEW s, s # "switch", NEW d \in OutputContexts, Has(tasks[d].todo, s)
       PROVE  Has(tasks'[d].todo, s)
  <2>1. CASE d = c
    BY <1>2, <1>5, <1>6, <1>8, <1>15, <2>1, Zenon DEF TaskNow
  <2>2. CASE d # c
    BY <1>6, <1>15, <2>2, Zenon DEF TaskNow
  <2>3. QED
    BY <2>1, <2>2
<1>16. OutputKnown'
  <2>1. WantedOutput' = WantedOutput
    BY <1>10, WantedStays, Zenon
  <2>2. "choose" # "switch"
    OBVIOUS
  <2>3. (\E d \in OutputContexts : Has(tasks[d].todo, "choose")) => \E d \in OutputContexts : Has(tasks'[d].todo, "choose")
    BY <1>15, <2>2, Zenon
  <2>4. Stale' = Stale
    BY <1>10, Zenon DEF Stale
  <2>5. QED
    BY <1>1, <2>1, <2>3, <2>4, Zenon DEF OutputKnown
<1>17. ~overlap => tasks[c].fx = mixer.pe
  <2>1. ~ChooseFirst(q, outCard)
    BY <1>3 DEF ChooseFirst, Guarded
  <2>2. QED
    BY <1>1, <1>2, <2>1, Zenon DEF AloneOK, Current
<1>18. AloneOK'
  <2>1. ~overlap /\ Current(tasks[c], outCard, cur, mixer) => Current(t, outCard, cur, mixer)
    BY <1>5, <1>7, <1>17, Zenon DEF Current
  <2>2. ~overlap => Sole /\ \A d \in OutputContexts : Current(tasks[d], outCard, cur, mixer)
    BY <1>1, Zenon DEF AloneOK
  <2>3. QED
    BY <1>6, <1>10, <2>1, <2>2, AloneStays, Zenon
<1>19. RegistersOK'
  <2>1. CASE overlap
    BY <1>1, <1>10, <2>1, Zenon DEF RegistersOK
  <2>2. CASE ~overlap
    <3>1. ASSUME NEW r \in OutRegisters \ lost, NEW d \in OutputContexts, PendsIn(tasks[d].todo, r, mixer.pe, outCard)
          PROVE  PendsIn(tasks'[d].todo, r, mixer.pe, outCard)
      <4>1. CASE d = c
        <5>1. PendsIn(q, r, mixer.pe, outCard)
          BY <1>2, <3>1, <4>1, Zenon
        <5>2. CASE WritesTo("switch", r, mixer.pe, outCard)
          <6>1. r \in BranchRegisters(mixer.pe, outCard)
            BY <3>1, <5>2 DEF WritesTo, RegisterOf, OutRegisters, Selected
          <6>2. PendsIn(b, r, mixer.pe, outCard)
            BY <1>2, <1>17, <2>2, <6>1, BranchIs, Zenon
          <6>3. PendsIn(p, r, mixer.pe, outCard)
            BY <1>4, <1>9, <6>2, PendsJoins, Zenon
          <6>4. QED
            BY <1>5, <1>6, <4>1, <6>3, Zenon DEF TaskNow
        <5>3. CASE ~WritesTo("switch", r, mixer.pe, outCard)
          <6>1. \A i \in 1..1 : ~WritesTo(q[i], r, mixer.pe, outCard)
            <7>1. \A i \in 1..1 : q[i] = "switch"
              BY <1>3
            <7>2. QED
              BY <5>3, <7>1, Zenon
          <6>2. PendsIn(rest, r, mixer.pe, outCard)
            BY <1>3, <5>1, <6>1, PendsDrops
          <6>3. PendsIn(p, r, mixer.pe, outCard)
            BY <1>4, <1>9, <6>2, PendsJoins, Zenon
          <6>4. QED
            BY <1>5, <1>6, <4>1, <6>3, Zenon DEF TaskNow
        <5>4. QED
          BY <5>2, <5>3
      <4>2. CASE d # c
        BY <1>6, <3>1, <4>2, Zenon DEF TaskNow
      <4>3. QED
        BY <4>1, <4>2
    <3>2. ASSUME NEW r \in OutRegisters \ lost PROVE Right(r)'
      <4>1. Right(r)
        BY <1>1, <2>2, Zenon DEF RegistersOK, Right
      <4>2. CASE outHw[r] = Wanted(r)
        <5>1. outHw'[r] = outHw[r]
          BY Zenon
        <5>2. Wanted(r)' = Wanted(r)
          BY <1>10, <5>1, WantedIs, Zenon
        <5>3. QED
          BY <4>2, <5>1, <5>2, Zenon DEF Right
      <4>3. CASE Excused(r)
        <5>1. Excused(r)' = Excused(r)
          BY ExcusedIs, Zenon
        <5>2. QED
          BY <4>3, <5>1, Zenon DEF Right
      <4>4. CASE Pends(r)
        <5>1. PICK d \in OutputContexts : PendsIn(tasks[d].todo, r, mixer.pe, outCard)
          BY <4>4, Zenon DEF Pends
        <5>2. PendsIn(tasks'[d].todo, r, mixer'.pe, outCard')
          BY <1>10, <3>1, <5>1, Zenon
        <5>3. QED
          BY <5>2, Zenon DEF Right, Pends
      <4>5. QED
        BY <4>1, <4>2, <4>3, <4>4, Zenon DEF Right
    <3>3. QED
      BY <1>10, <2>2, <3>2, Zenon DEF RegistersOK, Right
  <2>3. QED
    BY <2>1, <2>2
<1>20. VolumeOK'
  BY <1>1, Zenon DEF VolumeOK
<1>21. RearOK'
  <2>1. "report" # "switch"
    OBVIOUS
  <2>2. QED
    BY <1>1, <1>10, <1>15, <2>1, Zenon DEF RearOK
<1>22. QED
  BY <1>12, <1>13, <1>14, <1>16, <1>18, <1>19, <1>20, <1>21, Zenon DEF FollowInv

\* A step of a function that goes on, given what it does to the registers
LEMMA StepFollows ==
  ASSUME FollowInv, Unmoved, cur' = cur, NEW c \in OutputContexts, tasks[c].todo # <<>>,
         NEW t, TaskNow(c, t), t.branch = tasks[c].branch, t.fx = tasks[c].fx,
         NEW m, Drops(t.todo, tasks[c].todo, m), \A i \in 1..m : tasks[c].todo[i] # "choose",
         (\A i \in 1..m : tasks[c].todo[i] # "switch") \/ ChooseFirst(t.todo, outCard),
         HwShape(outHw'), lost' \subseteq OutRegisters, overlap => lost' = OutRegisters,
         PlainOK', VolumeOK',
         blocked' \subseteq blocked, (\A i \in 1..m : tasks[c].todo[i] # "report") \/ "rear" \notin blocked',
         \A r \in OutRegisters \ lost' : ~overlap =>
           \/ /\ outHw'[r] = outHw[r] /\ r \notin lost
              /\ \A i \in 1..m : ~WritesTo(tasks[c].todo[i], r, mixer.pe, outCard)
           \/ Right(r)'
  PROVE  FollowInv'
<1>1. MixerOK /\ TasksOK /\ OutputKnown /\ AloneOK /\ RegistersOK /\ RearOK
  BY Zenon DEF FollowInv
<1>2. MixerOK' /\ TasksOK' /\ OutputKnown' /\ AloneOK'
  BY <1>1, FunctionGoesOn, Zenon
<1>3. RegistersOK'
  BY <1>1, RegistersStay, Zenon
<1>4. hpWork' = hpWork /\ missed' = missed
  BY Zenon DEF Unmoved
<1>5. RearOK'
  BY <1>1, <1>4, RearStays, Zenon
<1>6. QED
  BY <1>2, <1>3, <1>5, Zenon DEF FollowInv

\* A register that the step leaves as wanted, that a selection is due for, or that the
\* function will write
LEMMA RightNow ==
  ASSUME Unmoved, NEW c \in OutputContexts, NEW t, TaskNow(c, t), NEW r,
         outHw'[r] = Wanted(r)' \/ Excused(r) \/ PendsIn(t.todo, r, mixer.pe, outCard)
  PROVE  Right(r)'
<1>1. outCard' = outCard /\ mixer' = mixer
  BY Zenon DEF Unmoved
<1>2. CASE outHw'[r] = Wanted(r)'
  BY <1>2, Zenon DEF Right
<1>3. CASE Excused(r)
  <2>1. Excused(r)' = Excused(r)
    BY ExcusedIs, Zenon
  <2>2. QED
    BY <1>3, <2>1, Zenon DEF Right
<1>4. CASE PendsIn(t.todo, r, mixer.pe, outCard)
  <2>1. PendsIn(tasks'[c].todo, r, mixer'.pe, outCard')
    BY <1>1, <1>4, Zenon DEF TaskNow
  <2>2. QED
    BY <2>1, Zenon DEF Right, Pends
<1>5. QED
  BY <1>2, <1>3, <1>4, Zenon

\* A function goes on after its first step, past its end if that is next.
LEMMA TodoGoes ==
  ASSUME TasksOK, NEW c \in OutputContexts, tasks[c].todo # <<>>, Todo(c, Tail(tasks[c].todo)),
         NEW s, s = Head(tasks[c].todo)
  PROVE  \E t, m : /\ TaskNow(c, t) /\ t.branch = tasks[c].branch /\ t.fx = tasks[c].fx
                   /\ Drops(t.todo, tasks[c].todo, m)
                   /\ \A i \in 1..m : tasks[c].todo[i] \in {s, "end"}
<1>1. Drops(Tail(tasks[c].todo), tasks[c].todo, 1) /\ s = tasks[c].todo[1]
  BY NextStep
<1>2. PICK t, m : /\ TaskNow(c, t) /\ t.branch = tasks[c].branch /\ t.fx = tasks[c].fx
                  /\ Drops(t.todo, tasks[c].todo, m)
                  /\ m = (IF Tail(tasks[c].todo) # <<>> /\ tasks[c].todo[1 + 1] = "end" THEN 1 + 1 ELSE 1)
  BY <1>1, TodoDrops, Zenon
<1>3. \A i \in 1..m : tasks[c].todo[i] \in {s, "end"}
  <2>1. CASE m = 1
    BY <1>1, <2>1
  <2>2. CASE m = 2 /\ tasks[c].todo[2] = "end"
    BY <1>1, <2>2
  <2>3. m = 1 \/ (m = 2 /\ tasks[c].todo[2] = "end")
    <3>1. 1 + 1 = 2
      OBVIOUS
    <3>2. QED
      BY <1>2, <3>1, Zenon
  <2>4. QED
    BY <2>1, <2>2, <2>3, Zenon
<1>4. QED
  BY <1>2, <1>3, Zenon

\* Steps that are passed: a range that does not matter, a volume that is at unity, a report.
LEMMA SkipFollows ==
  ASSUME FollowInv, NEW c \in OutputContexts, tasks[c].todo # <<>>, NEW s, s = Head(tasks[c].todo),
         Todo(c, Tail(tasks[c].todo)), Unmoved, cur' = cur, outHw' = outHw, zeroed' = zeroed, lost' = lost,
         failed' = failed,
         \/ s = "range" /\ ~(cur = "spk" /\ Lfe) /\ blocked' = blocked
         \/ s = "volume" /\ zeroed /\ blocked' = blocked
         \/ s = "report" /\ blocked' = blocked \ {"rear"}
  PROVE  FollowInv'
<1>1. /\ MixerOK /\ TasksOK /\ PlainOK /\ OutputKnown /\ AloneOK /\ RegistersOK /\ VolumeOK /\ RearOK
  BY Zenon DEF FollowInv
<1>2. PICK t, m : /\ TaskNow(c, t) /\ t.branch = tasks[c].branch /\ t.fx = tasks[c].fx
                  /\ Drops(t.todo, tasks[c].todo, m)
                  /\ \A i \in 1..m : tasks[c].todo[i] \in {s, "end"}
  BY <1>1, TodoGoes, Zenon
<1>3. s \in {"range", "volume", "report"}
  OBVIOUS
<1>4. /\ outCard' = outCard /\ mixer' = mixer /\ jacks' = jacks /\ overlap' = overlap
  BY Zenon DEF Unmoved
<1>5. \A i \in 1..m : tasks[c].todo[i] # "choose" /\ tasks[c].todo[i] # "switch"
  BY <1>2, <1>3
<1>6. (\A i \in 1..m : tasks[c].todo[i] # "report") \/ "rear" \notin blocked'
  BY <1>2
<1>7. HwShape(outHw') /\ lost' \subseteq OutRegisters /\ blocked' \subseteq blocked
  <2>1. HwShape(outHw')
    BY <1>1, Zenon DEF TasksOK
  <2>2. lost' \subseteq OutRegisters /\ blocked' \subseteq blocked
    BY <1>1 DEF MixerOK
  <2>3. QED
    BY <2>1, <2>2
<1>8. PlainOK' /\ VolumeOK'
  <2>1. Plain => NotOnPlain \cap lost \subseteq lost'
    OBVIOUS
  <2>2. PlainOK'
    BY <1>1, <1>4, <2>1, PlainStays, Zenon
  <2>3. VolumeOK'
    BY <1>1, Zenon DEF VolumeOK
  <2>4. QED
    BY <2>2, <2>3
<1>9. overlap => lost' = OutRegisters
  BY <1>1, Zenon DEF RegistersOK
<1>10. ASSUME NEW r \in OutRegisters \ lost, ~overlap, NEW i \in 1..m,
              WritesTo(tasks[c].todo[i], r, mixer.pe, outCard)
       PROVE  Right(r)'
  <2>1. r = s /\ s \in {"range", "volume"}
    <3>1. tasks[c].todo[i] \in {s, "end"}
      BY <1>2
    <3>2. ~WritesTo("end", r, mixer.pe, outCard) /\ ~WritesTo("report", r, mixer.pe, outCard)
      BY <1>10, WritesNothing
    <3>3. WritesTo(s, r, mixer.pe, outCard) /\ s # "report"
      BY <1>10, <3>1, <3>2
    <3>4. QED
      BY <1>3, <3>3 DEF WritesTo, RegisterOf
  <2>2. ~Plain
    BY <1>1, <1>10, <2>1 DEF PlainOK, NotOnPlain
  <2>3. CASE s = "range"
    <3>1. r = "range" /\ ~(cur = "spk" /\ Lfe)
      BY <2>1, <2>3
    <3>2. r \in Chosen(mixer.pe, outCard)
      BY <2>2, <3>1 DEF Chosen, Plain
    <3>3. cur = WantedOutput \/ Excused(r) \/ PendsIn(t.todo, r, mixer.pe, outCard)
      <4>1. Sole
        BY <1>1, <1>10, Zenon DEF AloneOK
      <4>2. QED
        BY <1>1, <1>2, <1>5, <3>2, <4>1, ChosenOr, Zenon
    <3>4. CASE cur = WantedOutput
      <4>1. WantedOutput' = WantedOutput /\ Lfe' = Lfe
        BY <1>4, WantedStays, Zenon DEF Lfe
      <4>2. ~(Lfe' /\ WantedOutput' # "hp")
        BY <1>1, <3>1, <3>4, <4>1 DEF MixerOK, Outputs
      <4>3. outHw'[r] = Wanted(r)'
        BY <3>1, <4>2 DEF Wanted
      <4>4. QED
        BY <1>2, <4>3, RightNow, Zenon
    <3>5. QED
      BY <1>2, <3>3, <3>4, RightNow, Zenon
  <2>4. CASE s = "volume"
    <3>1. r = "volume" /\ outHw[r] = "unity"
      <4>1. r = "volume"
        BY <2>1, <2>4
      <4>2. zeroed
        BY <2>4
      <4>3. QED
        BY <1>1, <1>10, <4>1, <4>2 DEF VolumeOK
    <3>2. outHw'[r] = Wanted(r)'
      BY <3>1 DEF Wanted
    <3>3. QED
      BY <1>2, <3>2, RightNow, Zenon
  <2>5. QED
    BY <2>1, <2>3, <2>4
<1>11. \A r \in OutRegisters \ lost' : ~overlap =>
         \/ /\ outHw'[r] = outHw[r] /\ r \notin lost
            /\ \A i \in 1..m : ~WritesTo(tasks[c].todo[i], r, mixer.pe, outCard)
         \/ Right(r)'
  <2>1. ASSUME NEW r \in OutRegisters \ lost', ~overlap
        PROVE  \/ /\ outHw'[r] = outHw[r] /\ r \notin lost
                  /\ \A i \in 1..m : ~WritesTo(tasks[c].todo[i], r, mixer.pe, outCard)
               \/ Right(r)'
    <3>1. r \in OutRegisters \ lost /\ r \notin lost /\ outHw'[r] = outHw[r]
      BY <2>1
    <3>2. QED
      BY <1>10, <2>1, <3>1, Zenon
  <2>2. QED
    BY <2>1, Zenon
<1>12. QED
  BY <1>2, <1>5, <1>6, <1>7, <1>8, <1>9, <1>11, StepFollows, Zenon

\* A step that writes nothing
LEMMA PassFollows ==
  ASSUME FollowInv, NEW c \in OutputContexts, Pass(c)
  PROVE  FollowInv'
<1>1. <<outCard, mixer, jacks, cur, outHw, zeroed, hpWork, lost, overlap, missed, failed, outEvents>>'
        = <<outCard, mixer, jacks, cur, outHw, zeroed, hpWork, lost, overlap, missed, failed, outEvents>>
  BY Zenon DEF Pass
<1>2. Unmoved /\ cur' = cur /\ outHw' = outHw /\ zeroed' = zeroed /\ lost' = lost /\ failed' = failed
  BY <1>1 DEF Unmoved
<1>3. tasks[c].todo # <<>>
  BY Zenon DEF Pass
<1>4. CASE /\ Head(tasks[c].todo) = "switch"
           /\ tasks' = [tasks EXCEPT ![c].branch = cur, ![c].todo = Branch(tasks[c].fx) \o Tail(tasks[c].todo)]
           /\ blocked' = blocked
  <2>1. PICK t : t = [tasks[c] EXCEPT !.branch = cur, !.todo = Branch(tasks[c].fx) \o Tail(tasks[c].todo)]
    OBVIOUS
  <2>2. tasks' = [tasks EXCEPT ![c] = t]
    BY <1>4, <2>1
  <2>3. QED
    BY <1>2, <1>3, <1>4, <2>1, <2>2, SwitchFollows, Zenon
<1>5. PICK s : s = Head(tasks[c].todo)
  OBVIOUS
<1>6. CASE /\ Todo(c, Tail(tasks[c].todo))
           /\ \/ s = "range" /\ ~(cur = "spk" /\ Lfe) /\ blocked' = blocked
              \/ s = "volume" /\ zeroed /\ blocked' = blocked
              \/ s = "report" /\ blocked' = blocked \ {"rear"}
  BY <1>2, <1>3, <1>5, <1>6, SkipFollows, Zenon
<1>7. QED
  BY <1>4, <1>5, <1>6 DEF Pass

\* What a step writes is what the settings ask for, if the output in use is the one they
\* ask for, and the steps of a branch have been chosen for it.
LEMMA ValueRight ==
  ASSUME MixerOK, PlainOK, outCard' = outCard, mixer' = mixer, jacks' = jacks, cur = WantedOutput,
         NEW b, NEW fx, NEW s \in CardSteps(outCard), s \notin {"choose", "switch", "end", "report", "mute", "gain_put"},
         NEW r, r = RegisterOf(s), outHw'[r] = Value(s, b, fx),
         s \in BranchSteps(outCard) => b = cur /\ fx = mixer.pe,
         s = "range" => cur = "spk" /\ Lfe, s = "bass_put" => cur = "spk"
  PROVE  outHw'[r] = Wanted(r)'
<1>1. WantedOutput' = cur
  BY WantedStays, Zenon
<1>2. Lfe' = Lfe /\ Plain' = Plain /\ HpPin' = HpPin /\ SpeakerPins' = SpeakerPins
  BY Zenon DEF Lfe, Plain, HpPin, RearPin, SpeakerPins
<1>3. cur = "spk" \/ cur = "hp"
  BY DEF MixerOK, Outputs
<1>4. CASE s = "unmute"
  BY <1>4 DEF Value, RegisterOf, Wanted
<1>5. CASE s \in {"relay", "invert", "port"}
  BY <1>1, <1>5 DEF Value, RegisterOf, Wanted
<1>6. CASE s = "gain"
  BY <1>1, <1>6 DEF Value, RegisterOf, Wanted
<1>7. CASE s = "pins"
  <2>1. r = "pins" /\ b = cur /\ RearPin' = RearPin
    BY <1>7 DEF RegisterOf, BranchSteps, RearPin
  <2>2. CASE cur = "spk"
    BY <1>1, <1>2, <1>7, <2>1, <2>2 DEF Value, Wanted
  <2>3. CASE cur = "hp"
    <3>1. outHw'["pins"] = {HpPin} \cup (outHw["pins"] \cap {RearPin})
      BY <1>7, <2>1, <2>3 DEF Value
    <3>2. Wanted(r)' = {HpPin} \cup (outHw'["pins"] \cap {RearPin})
      BY <1>1, <1>2, <2>1, <2>3 DEF Wanted
    <3>3. QED
      BY <2>1, <3>1, <3>2
  <2>4. QED
    BY <1>3, <2>2, <2>3
<1>8. CASE s = "config"
  <2>1. r = "config" /\ b = cur /\ fx = mixer.pe
    BY <1>8 DEF RegisterOf, BranchSteps
  <2>2. CASE Plain
    BY <1>1, <1>2, <1>8, <2>1, <2>2 DEF Value, Wanted
  <2>3. CASE ~Plain /\ cur = "hp"
    BY <1>1, <1>2, <1>8, <2>1, <2>3 DEF Value, Wanted
  <2>4. CASE ~Plain /\ cur = "spk" /\ ~fx /\ ~Lfe
    BY <1>1, <1>2, <1>8, <2>1, <2>4 DEF Value, Wanted
  <2>5. CASE ~Plain /\ cur = "spk" /\ (fx \/ Lfe)
    BY <1>1, <1>2, <1>8, <2>1, <2>5 DEF Value, Wanted
  <2>6. QED
    BY <1>3, <2>2, <2>3, <2>4, <2>5, Zenon
<1>9. CASE s = "eq"
  <2>1. r = "eq" /\ Value(s, b, fx) = (Plain /\ b = "spk")
    BY <1>9 DEF RegisterOf, Value
  <2>2. Wanted(r)' = (Plain /\ cur # "hp")
    BY <1>1, <1>2, <2>1 DEF Wanted
  <2>3. Plain => b = cur
    BY <1>9 DEF BranchSteps, Plain
  <2>4. (Plain /\ b = "spk") = (Plain /\ cur # "hp")
    BY <1>3, <2>3
  <2>5. QED
    BY <2>1, <2>2, <2>4
<1>10. CASE s = "xbass"
  <2>1. r = "xbass" /\ Value(s, b, fx) = (mixer.pe /\ mixer.xbass /\ ~(cur = "spk" /\ Lfe))
    BY <1>10 DEF RegisterOf, Value, Effect
  <2>2. Wanted(r)' = (mixer.pe /\ mixer.xbass /\ (Lfe => cur = "hp"))
    BY <1>1, <1>2, <2>1 DEF Wanted
  <2>3. ~(cur = "spk" /\ Lfe) = (Lfe => cur = "hp")
    BY <1>3
  <2>4. QED
    BY <2>1, <2>2, <2>3, Zenon
<1>11. CASE s = "surround"
  <2>1. r = "surround" /\ Value(s, b, fx) = (mixer.pe /\ mixer.surround)
    BY <1>11 DEF RegisterOf, Value, Effect
  <2>2. Wanted(r)' = (mixer.pe /\ mixer.surround)
    BY <2>1 DEF Wanted
  <2>3. QED
    BY <2>1, <2>2, Zenon
<1>12. CASE s \in {"bass", "bass_put"}
  <2>1. r = "bass" /\ Value(s, b, fx) = (mixer.bass /\ Lfe /\ cur = "spk")
    <3>1. CASE s = "bass"
      <4>1. r = "bass" /\ Value(s, b, fx) = (cur = "spk" /\ mixer.bass /\ Lfe)
        BY <3>1 DEF RegisterOf, Value
      <4>2. QED
        BY <4>1, Zenon
    <3>2. CASE s = "bass_put"
      <4>1. r = "bass" /\ Value(s, b, fx) = (mixer.bass /\ Lfe) /\ cur = "spk"
        BY <3>2 DEF RegisterOf, Value
      <4>2. QED
        BY <4>1, Zenon
    <3>3. QED
      BY <1>12, <3>1, <3>2
  <2>2. Wanted(r)' = (mixer.bass /\ Lfe /\ cur # "hp")
    BY <1>1, <1>2, <2>1 DEF Wanted
  <2>3. (cur = "spk") = (cur # "hp")
    BY <1>3
  <2>4. QED
    BY <2>1, <2>2, <2>3, Zenon
<1>13. CASE s = "range"
  BY <1>1, <1>2, <1>13 DEF Value, RegisterOf, Wanted
<1>14. CASE s \in {"slider", "volume"}
  BY <1>14 DEF Value, RegisterOf, Wanted
<1>15. QED
  BY <1>4, <1>5, <1>6, <1>7, <1>8, <1>9, <1>10, <1>11, <1>12, <1>13, <1>14
     DEF CardSteps, PlainSteps, StepNames

\* What no selection writes does not depend on the output.
LEMMA OtherRight ==
  ASSUME MixerOK, PlainOK, outCard' = outCard, mixer' = mixer, jacks' = jacks,
         NEW b, NEW fx, NEW s \in CardSteps(outCard), s \notin {"choose", "switch", "end", "report", "mute", "gain_put"},
         NEW r, r = RegisterOf(s), outHw'[r] = Value(s, b, fx), r \notin Chosen(mixer.pe, outCard)
  PROVE  outHw'[r] = Wanted(r)'
<1>1. s \in {"xbass", "surround", "slider", "volume"} /\ r = s
  BY DEF CardSteps, PlainSteps, StepNames, RegisterOf, Chosen
<1>2. CASE s = "xbass"
  <2>1. r = "xbass" /\ Value(s, b, fx) = (mixer.pe /\ mixer.xbass /\ ~(cur = "spk" /\ Lfe))
    BY <1>2 DEF RegisterOf, Value, Effect
  <2>2. Wanted(r)' = (mixer.pe /\ mixer.xbass /\ (Lfe => WantedOutput' = "hp"))
    BY <2>1 DEF Wanted, Lfe
  <2>3. ~mixer.pe \/ ~Lfe
    BY <1>2, <2>1 DEF Chosen, PlainOK, Plain, Lfe
  <2>4. QED
    BY <2>1, <2>2, <2>3, Zenon
<1>3. CASE s = "surround"
  <2>1. r = "surround" /\ Value(s, b, fx) = (mixer.pe /\ mixer.surround)
    BY <1>3 DEF RegisterOf, Value, Effect
  <2>2. Wanted(r)' = (mixer.pe /\ mixer.surround)
    BY <2>1 DEF Wanted
  <2>3. QED
    BY <2>1, <2>2, Zenon
<1>4. CASE s \in {"slider", "volume"}
  BY <1>4 DEF Value, RegisterOf, Wanted
<1>5. QED
  BY <1>1, <1>2, <1>3, <1>4

\* A register that a step of a function writes is right, or will be.
LEMMA WrittenRight ==
  ASSUME FollowInv, Unmoved, ~overlap, NEW c \in OutputContexts, tasks[c].todo # <<>>,
         NEW s, s = tasks[c].todo[1], s \notin {"choose", "switch", "report"},
         s = "range" => cur = "spk" /\ Lfe,
         NEW t, TaskNow(c, t), NEW m, Drops(t.todo, tasks[c].todo, m),
         \A i \in 1..m : tasks[c].todo[i] \in {s, "end"},
         NEW r \in OutRegisters, r = RegisterOf(s), outHw'[r] = Value(s, tasks[c].branch, tasks[c].fx)
  PROVE  Right(r)'
<1>1. /\ MixerOK /\ TasksOK /\ PlainOK /\ OutputKnown /\ AloneOK
  BY Zenon DEF FollowInv
<1>2. PICK q, p : q = tasks[c].todo /\ p = t.todo
  BY Zenon
<1>3. Obeys(q, outCard) /\ Len(q) \in Nat \ {0} /\ q[1] = s /\ s \in CardSteps(outCard) /\ Drops(p, q, m)
  <2>1. Obeys(q, outCard) /\ Len(q) \in Nat \ {0}
    BY <1>1, <1>2, NextStep, TaskIs
  <2>2. q[1] = s /\ Drops(p, q, m)
    BY <1>2
  <2>3. QED
    BY <2>1, <2>2 DEF Obeys
<1>4. /\ outCard' = outCard /\ mixer' = mixer /\ jacks' = jacks
  BY Zenon DEF Unmoved
<1>5. Sole /\ Current(tasks[c], outCard, cur, mixer)
  BY <1>1, Zenon DEF AloneOK
<1>6. s # "end"
  BY DEF RegisterOf, OutRegisters, Selected
<1>7. CASE s = "mute"
  <2>1. PICK j \in 2..Len(q) : q[j] = "unmute"
    <3>1. Until(q, {"mute"}, "unmute", StepNames) /\ 1 \in 1..Len(q)
      BY <1>3 DEF Obeys, Laws
    <3>2. QED
      BY <1>3, <1>7, <3>1 DEF Until
  <2>2. j \in 1..Len(q) /\ j \notin 1..m
    BY <1>2, <1>3, <1>7, <2>1
  <2>3. j - m \in 1..Len(p) /\ p[j - m] = "unmute"
    BY <1>3, <2>1, <2>2, Remains
  <2>4. WritesTo("unmute", r, mixer.pe, outCard)
    BY <1>7 DEF WritesTo, RegisterOf
  <2>5. PendsIn(p, r, mixer.pe, outCard)
    BY <2>3, <2>4 DEF PendsIn
  <2>6. QED
    BY <1>2, <2>5, RightNow, Zenon
<1>8. CASE s = "gain_put"
  <2>1. Has(q, "gain_put")
    BY <1>3, <1>8 DEF Has
  <2>2. mixer.auto \/ mixer.out = "hp"
    BY <1>2, <1>5, <2>1, Zenon DEF Current
  <2>3. r = "gain" /\ Value(s, tasks[c].branch, tasks[c].fx) = mixer.gain
    BY <1>8 DEF RegisterOf, Value
  <2>4. CASE mixer.auto
    <3>1. Excused(r)
      BY <2>3, <2>4 DEF Excused, Selected, Excepted
    <3>2. QED
      BY <3>1, RightNow, Zenon
  <2>5. CASE ~mixer.auto /\ mixer.out = "hp"
    <3>1. WantedOutput' = "hp"
      BY <1>4, <2>5 DEF WantedOutput
    <3>2. outHw'[r] = Wanted(r)'
      BY <1>4, <2>3, <3>1 DEF Wanted
    <3>3. QED
      BY <3>2, RightNow, Zenon
  <2>6. QED
    BY <2>2, <2>4, <2>5, Zenon
<1>9. CASE s \notin {"mute", "gain_put"} /\ r \notin Chosen(mixer.pe, outCard)
  <2>1. s \notin {"choose", "switch", "end", "report", "mute", "gain_put"}
    BY <1>6, <1>9
  <2>2. outHw'[r] = Wanted(r)'
    BY <1>1, <1>3, <1>4, <1>9, <2>1, OtherRight
  <2>3. QED
    BY <2>2, RightNow, Zenon
<1>10. CASE s \notin {"mute", "gain_put"} /\ r \in Chosen(mixer.pe, outCard)
  <2>1. \A i \in 1..m : tasks[c].todo[i] # "choose"
    OBVIOUS
  <2>2. cur = WantedOutput \/ Excused(r) \/ PendsIn(t.todo, r, mixer.pe, outCard)
    BY <1>1, <1>5, <1>10, <2>1, ChosenOr, Zenon
  <2>3. CASE cur = WantedOutput
    <3>1. s \notin {"choose", "switch", "end", "report", "mute", "gain_put"}
      BY <1>6, <1>10
    <3>2. s \in BranchSteps(outCard) => tasks[c].branch = cur /\ tasks[c].fx = mixer.pe
      <4>1. ASSUME s \in BranchSteps(outCard) PROVE ~SwitchFirst(q, outCard) /\ ~ChooseFirst(q, outCard)
        BY <1>3, <4>1 DEF SwitchFirst, ChooseFirst, Guarded
      <4>2. QED
        BY <1>2, <1>5, <4>1, Zenon DEF Current
    <3>3. s = "bass_put" => cur = "spk"
      <4>1. s = "bass_put" => Has(q, "bass_put")
        BY <1>3 DEF Has
      <4>2. QED
        BY <1>2, <1>5, <4>1, Zenon DEF Current
    <3>4. outHw'[r] = Wanted(r)'
      BY <1>1, <1>3, <1>4, <2>3, <3>1, <3>2, <3>3, ValueRight
    <3>5. QED
      BY <3>4, RightNow, Zenon
  <2>4. QED
    BY <2>2, <2>3, RightNow, Zenon
<1>11. QED
  BY <1>7, <1>8, <1>9, <1>10

LEMMA PlainKept ==
  ASSUME PlainOK, outCard' = outCard, mixer' = mixer, Plain => NotOnPlain \subseteq lost' /\ ~zeroed'
  PROVE  PlainOK'
<1>1. Plain' = Plain
  BY DEF Plain
<1>2. CASE Plain
  <2>1. mixer'.channels = "2.0"
    BY <1>2 DEF PlainOK
  <2>2. QED
    BY <1>2, <2>1, Zenon DEF PlainOK
<1>3. QED
  BY <1>1, <1>2, Zenon DEF PlainOK

\* What the step that is next may be
LEMMA StepIs ==
  ASSUME TasksOK, PlainOK, NEW c \in OutputContexts, tasks[c].todo # <<>>,
         NEW s, s = Head(tasks[c].todo), s \notin {"choose", "switch", "report"}
  PROVE  /\ s \in StepNames /\ s = tasks[c].todo[1] /\ Obeys(tasks[c].todo, outCard)
         /\ RegisterOf(s) \in OutRegisters \cup {"end"}
         /\ Plain => RegisterOf(s) \notin NotOnPlain
         /\ RegisterOf(s) = "volume" <=> s = "volume"
<1>1. s = tasks[c].todo[1] /\ Len(tasks[c].todo) \in Nat \ {0} /\ Obeys(tasks[c].todo, outCard)
  BY NextStep, TaskIs
<1>2. s \in CardSteps(outCard)
  BY <1>1 DEF Obeys
<1>3. s \in StepNames
  BY <1>2 DEF CardSteps, PlainSteps, StepNames
<1>4. RegisterOf(s) \in OutRegisters \cup {"end"} /\ (RegisterOf(s) = "volume" <=> s = "volume")
  BY <1>3 DEF StepNames, RegisterOf, OutRegisters, Selected
<1>5. Plain => RegisterOf(s) \notin NotOnPlain
  BY <1>2 DEF Plain, CardSteps, PlainSteps, RegisterOf, NotOnPlain
<1>6. QED
  BY <1>1, <1>3, <1>4, <1>5

\* A step that has dropped s and perhaps the end, and written or lost its register
LEMMA DroppedOne ==
  ASSUME NEW s, s \notin {"choose", "switch", "report"}, NEW x \in OutRegisters, x # RegisterOf(s),
         NEW e, e \in {s, "end"}, NEW pe, NEW card
  PROVE  ~WritesTo(e, x, pe, card)
  BY DEF WritesTo, RegisterOf, OutRegisters, Selected

\* A register is written.
LEMMA WrittenFollows ==
  ASSUME FollowInv, NEW c \in OutputContexts, tasks[c].todo # <<>>, NEW s, s = Head(tasks[c].todo),
         s \notin {"choose", "switch", "report"}, s = "range" => cur = "spk" /\ Lfe, s = "volume" => ~zeroed,
         NEW r, r = RegisterOf(s), outHw' = [outHw EXCEPT ![r] = Value(s, tasks[c].branch, tasks[c].fx)],
         lost' = (IF overlap THEN lost ELSE lost \ {r}), Todo(c, Tail(tasks[c].todo)), failed' = failed,
         zeroed' = (zeroed \/ s = "volume"), Unmoved, cur' = cur, blocked' = blocked
  PROVE  FollowInv'
<1>1. /\ MixerOK /\ TasksOK /\ PlainOK /\ OutputKnown /\ AloneOK /\ RegistersOK /\ VolumeOK /\ RearOK
  BY Zenon DEF FollowInv
<1>2. PICK t, m : /\ TaskNow(c, t) /\ t.branch = tasks[c].branch /\ t.fx = tasks[c].fx
                  /\ Drops(t.todo, tasks[c].todo, m)
                  /\ \A i \in 1..m : tasks[c].todo[i] \in {s, "end"}
  BY <1>1, TodoGoes, Zenon
<1>3. /\ s \in StepNames /\ s = tasks[c].todo[1] /\ r \in OutRegisters \cup {"end"}
      /\ Plain => r \notin NotOnPlain
      /\ r = "volume" <=> s = "volume"
  BY <1>1, StepIs
<1>4. /\ outCard' = outCard /\ mixer' = mixer /\ jacks' = jacks /\ overlap' = overlap
  BY Zenon DEF Unmoved
<1>5. /\ \A i \in 1..m : tasks[c].todo[i] # "choose" /\ tasks[c].todo[i] # "switch"
      /\ \A i \in 1..m : tasks[c].todo[i] # "report"
  BY <1>2
<1>6. /\ HwShape(outHw') /\ \A x \in OutRegisters : x # r => outHw'[x] = outHw[x]
      /\ r \in OutRegisters => outHw'[r] = Value(s, tasks[c].branch, tasks[c].fx)
  BY <1>1 DEF TasksOK, HwShape
<1>7. lost \subseteq OutRegisters /\ lost' \subseteq OutRegisters /\ lost \ {r} \subseteq lost' /\ blocked' \subseteq blocked
  BY <1>1 DEF MixerOK
<1>8. overlap => lost' = OutRegisters
  BY <1>1 DEF RegistersOK
<1>9. PlainOK'
  <2>1. Plain => ~zeroed /\ s # "volume" /\ NotOnPlain \subseteq lost
    BY <1>1, <1>3 DEF PlainOK, NotOnPlain
  <2>2. Plain => NotOnPlain \subseteq lost'
    BY <1>3, <1>7, <2>1
  <2>3. Plain => ~zeroed'
    BY <2>1, Zenon
  <2>4. QED
    BY <1>1, <1>4, <2>2, <2>3, PlainKept, Zenon
<1>10. VolumeOK'
  <2>1. CASE s = "volume"
    <3>1. r = "volume" /\ Value(s, tasks[c].branch, tasks[c].fx) = "unity"
      BY <1>3, <2>1 DEF Value
    <3>2. outHw'["volume"] = "unity"
      BY <1>6, <3>1 DEF OutRegisters
    <3>3. QED
      BY <3>2, Zenon DEF VolumeOK
  <2>2. CASE s # "volume"
    <3>1. r # "volume" /\ outHw'["volume"] = outHw["volume"] /\ ("volume" \in lost => "volume" \in lost')
      BY <1>3, <1>6, <1>7, <2>2 DEF OutRegisters
    <3>2. zeroed' => zeroed
      BY <2>2, Zenon
    <3>3. QED
      BY <1>1, <3>1, <3>2, Zenon DEF VolumeOK
  <2>3. QED
    BY <2>1, <2>2
<1>11. ASSUME NEW x \in OutRegisters \ lost', ~overlap
       PROVE  \/ /\ outHw'[x] = outHw[x] /\ x \notin lost
                 /\ \A i \in 1..m : ~WritesTo(tasks[c].todo[i], x, mixer.pe, outCard)
              \/ Right(x)'
  <2>1. CASE x = r
    <3>1. r \in OutRegisters
      BY <1>11, <2>1
    <3>2. outHw'[r] = Value(s, tasks[c].branch, tasks[c].fx)
      BY <1>6, <3>1
    <3>3. Right(r)'
      BY <1>2, <1>3, <1>11, <3>1, <3>2, WrittenRight
    <3>4. QED
      BY <2>1, <3>3, Zenon
  <2>2. CASE x # r
    <3>1. outHw'[x] = outHw[x] /\ x \notin lost
      BY <1>6, <1>7, <1>11, <2>2
    <3>2. \A i \in 1..m : ~WritesTo(tasks[c].todo[i], x, mixer.pe, outCard)
      BY <1>2, <1>11, <2>2, DroppedOne
    <3>3. QED
      BY <3>1, <3>2, Zenon
  <2>3. QED
    BY <2>1, <2>2
<1>12. QED
  BY <1>2, <1>5, <1>6, <1>7, <1>8, <1>9, <1>10, <1>11, StepFollows

\* A command fails, and what it was to write is lost.
LEMMA LostFollows ==
  ASSUME FollowInv, NEW c \in OutputContexts, tasks[c].todo # <<>>, NEW s, s = Head(tasks[c].todo),
         s \in Checked \cup Unchecked, NEW r, r = RegisterOf(s), outHw' = outHw,
         lost' = lost \cup {r} \cup (IF s \in Checked THEN Selected ELSE {}),
         Todo(c, AfterFailure(tasks[c].todo)), failed' = TRUE,
         zeroed' = (zeroed \/ s = "volume"), Unmoved, cur' = cur, blocked' = blocked
  PROVE  FollowInv'
<1>1. /\ MixerOK /\ TasksOK /\ PlainOK /\ OutputKnown /\ AloneOK /\ RegistersOK /\ VolumeOK /\ RearOK
  BY Zenon DEF FollowInv
<1>2. s \notin {"choose", "switch", "report"} /\ s # "end"
  BY DEF Checked, Unchecked
<1>3. /\ s \in StepNames /\ s = tasks[c].todo[1] /\ Obeys(tasks[c].todo, outCard) /\ r \in OutRegisters
      /\ Plain => r \notin NotOnPlain
      /\ r = "volume" <=> s = "volume"
  <2>1. r # "end"
    BY <1>2 DEF RegisterOf
  <2>2. QED
    BY <1>1, <1>2, <2>1, StepIs
<1>4. /\ outCard' = outCard /\ mixer' = mixer /\ jacks' = jacks /\ overlap' = overlap
  BY Zenon DEF Unmoved
<1>5. /\ HwShape(outHw') /\ lost \cup {r} \subseteq lost' /\ lost' \subseteq OutRegisters /\ blocked' \subseteq blocked
  <2>1. HwShape(outHw')
    BY <1>1, Zenon DEF TasksOK
  <2>2. Selected \subseteq OutRegisters
    BY DEF OutRegisters
  <2>3. QED
    BY <1>1, <1>3, <2>1, <2>2 DEF MixerOK
<1>6. overlap => lost' = OutRegisters
  BY <1>1, <1>5 DEF RegistersOK
<1>7. PlainOK'
  <2>1. Plain => ~zeroed /\ s # "volume" /\ NotOnPlain \subseteq lost
    BY <1>1, <1>3 DEF PlainOK, NotOnPlain
  <2>2. Plain => NotOnPlain \subseteq lost'
    BY <1>5, <2>1
  <2>3. Plain => ~zeroed'
    BY <2>1, Zenon
  <2>4. QED
    BY <1>1, <1>4, <2>2, <2>3, PlainKept, Zenon
<1>8. VolumeOK'
  <2>1. "volume" \in lost => "volume" \in lost'
    BY <1>5
  <2>2. s = "volume" => "volume" \in lost'
    BY <1>3, <1>5
  <2>3. QED
    BY <1>1, <2>1, <2>2, Zenon DEF VolumeOK
<1>9. CASE s \notin Checked
  <2>1. AfterFailure(tasks[c].todo) = Tail(tasks[c].todo)
    BY <1>9 DEF AfterFailure
  <2>2. Todo(c, Tail(tasks[c].todo))
    BY <2>1, Zenon
  <2>3. PICK t, m : /\ TaskNow(c, t) /\ t.branch = tasks[c].branch /\ t.fx = tasks[c].fx
                    /\ Drops(t.todo, tasks[c].todo, m)
                    /\ \A i \in 1..m : tasks[c].todo[i] \in {s, "end"}
    BY <1>1, <2>2, TodoGoes, Zenon
  <2>4. /\ \A i \in 1..m : tasks[c].todo[i] # "choose" /\ tasks[c].todo[i] # "switch"
        /\ \A i \in 1..m : tasks[c].todo[i] # "report"
    BY <1>2, <2>3
  <2>5. ASSUME NEW x \in OutRegisters \ lost'
        PROVE  /\ outHw'[x] = outHw[x] /\ x \notin lost
               /\ \A i \in 1..m : ~WritesTo(tasks[c].todo[i], x, mixer.pe, outCard)
    <3>1. x \notin lost /\ x # RegisterOf(s)
      BY <1>5, <2>5
    <3>2. \A i \in 1..m : ~WritesTo(tasks[c].todo[i], x, mixer.pe, outCard)
      BY <1>2, <2>3, <2>5, <3>1, DroppedOne
    <3>3. QED
      BY <3>1, <3>2
  <2>6. \A x \in OutRegisters \ lost' : ~overlap =>
          \/ /\ outHw'[x] = outHw[x] /\ x \notin lost
             /\ \A i \in 1..m : ~WritesTo(tasks[c].todo[i], x, mixer.pe, outCard)
          \/ Right(x)'
    BY <2>5, Zenon
  <2>7. cur' = cur /\ tasks[c].todo # <<>>
    OBVIOUS
  <2>8. (\A i \in 1..m : tasks[c].todo[i] # "switch") \/ ChooseFirst(t.todo, outCard)
    BY <2>4, Zenon
  <2>9. (\A i \in 1..m : tasks[c].todo[i] # "report") \/ "rear" \notin blocked'
    BY <2>4, Zenon
  <2>10. QED
    <3>1. /\ TaskNow(c, t) /\ t.branch = tasks[c].branch /\ t.fx = tasks[c].fx
          /\ Drops(t.todo, tasks[c].todo, m)
      BY <2>3, Zenon
    <3>2. \A i \in 1..m : tasks[c].todo[i] # "choose"
      BY <2>4, Zenon
    <3>3. HwShape(outHw') /\ lost' \subseteq OutRegisters /\ blocked' \subseteq blocked
      BY <1>5, Zenon
    <3>4. QED
      BY <1>6, <1>7, <1>8, <2>6, <2>7, <2>8, <2>9, <3>1, <3>2, <3>3, StepFollows, Zenon
<1>10. CASE s \in Checked
  <2>1. PICK n : /\ Drops(AfterFailure(tasks[c].todo), tasks[c].todo, n) /\ AfterFailure(tasks[c].todo) # <<>>
                 /\ n + 1 \in 1..Len(tasks[c].todo) /\ tasks[c].todo[n + 1] = "end"
                 /\ \A i \in 1..n : tasks[c].todo[i] \in SelectedSteps
    BY <1>3, <1>10, FailureDrops, Zenon
  <2>2. PICK t, m : /\ TaskNow(c, t) /\ t.branch = tasks[c].branch /\ t.fx = tasks[c].fx
                    /\ Drops(t.todo, tasks[c].todo, m) /\ m = n + 1
    <3>1. PICK t, m : /\ TaskNow(c, t) /\ t.branch = tasks[c].branch /\ t.fx = tasks[c].fx
                      /\ Drops(t.todo, tasks[c].todo, m)
                      /\ m = (IF AfterFailure(tasks[c].todo) # <<>> /\ tasks[c].todo[n + 1] = "end" THEN n + 1 ELSE n)
      BY <1>1, <2>1, TodoDrops, Zenon
    <3>2. m = n + 1
      BY <2>1, <3>1, Zenon
    <3>3. QED
      BY <3>1, <3>2, Zenon
  <2>3. n \in 0..Len(tasks[c].todo) /\ \A i \in 1..m : tasks[c].todo[i] \in SelectedSteps \cup {"end"}
    BY <2>1, <2>2 DEF Drops
  <2>4. m # 0 /\ tasks[c].todo[m] = "end"
    BY <2>1, <2>2, <2>3
  <2>5. ChooseFirst(t.todo, outCard)
    BY <1>3, <2>2, <2>4, EndDropped, Zenon
  <2>6. /\ \A i \in 1..m : tasks[c].todo[i] # "choose"
        /\ \A i \in 1..m : tasks[c].todo[i] # "report"
    BY <2>3 DEF SelectedSteps
  <2>7. ASSUME NEW x \in OutRegisters \ lost'
        PROVE  /\ outHw'[x] = outHw[x] /\ x \notin lost
               /\ \A i \in 1..m : ~WritesTo(tasks[c].todo[i], x, mixer.pe, outCard)
    <3>1. x \notin lost /\ x \notin Selected
      BY <1>5, <1>10, <2>7
    <3>2. ASSUME NEW i \in 1..m PROVE ~WritesTo(tasks[c].todo[i], x, mixer.pe, outCard)
      <4>1. tasks[c].todo[i] \in SelectedSteps \cup {"end"}
        BY <2>3
      <4>2. \A e \in SelectedSteps \cup {"end"} : RegisterOf(e) \in Selected \cup {"switch", "end"}
        BY DEF SelectedSteps, RegisterOf, Selected
      <4>3. BranchRegisters(mixer.pe, outCard) \subseteq Selected
        BY DEF BranchRegisters, BranchSteps, Selected
      <4>4. x # "switch" /\ x # "end"
        BY <2>7 DEF OutRegisters, Selected
      <4>5. QED
        BY <3>1, <4>1, <4>2, <4>3, <4>4 DEF WritesTo
    <3>3. QED
      BY <3>1, <3>2
  <2>8. \A x \in OutRegisters \ lost' : ~overlap =>
          \/ /\ outHw'[x] = outHw[x] /\ x \notin lost
             /\ \A i \in 1..m : ~WritesTo(tasks[c].todo[i], x, mixer.pe, outCard)
          \/ Right(x)'
    BY <2>7, Zenon
  <2>9. cur' = cur /\ tasks[c].todo # <<>>
    OBVIOUS
  <2>10. (\A i \in 1..m : tasks[c].todo[i] # "switch") \/ ChooseFirst(t.todo, outCard)
    BY <2>5, Zenon
  <2>11. (\A i \in 1..m : tasks[c].todo[i] # "report") \/ "rear" \notin blocked'
    BY <2>6, Zenon
  <2>12. QED
    <3>1. HwShape(outHw') /\ lost' \subseteq OutRegisters /\ blocked' \subseteq blocked
      BY <1>5, Zenon
    <3>2. \A i \in 1..m : tasks[c].todo[i] # "choose"
      BY <2>6, Zenon
    <3>3. QED
      BY <1>6, <1>7, <1>8, <2>2, <2>8, <2>9, <2>10, <2>11, <3>1, <3>2, StepFollows, Zenon
<1>11. QED
  BY <1>9, <1>10

\* A register is written, or its command fails.
LEMMA WriteFollows ==
  ASSUME FollowInv, NEW c \in OutputContexts, Write(c)
  PROVE  FollowInv'
<1>1. <<outCard, mixer, jacks, cur, hpWork, blocked, overlap, missed>>'
        = <<outCard, mixer, jacks, cur, hpWork, blocked, overlap, missed>>
  BY Zenon DEF Write
<1>2. Unmoved /\ cur' = cur /\ blocked' = blocked
  BY <1>1 DEF Unmoved
<1>3. PICK s : s = Head(tasks[c].todo)
  OBVIOUS
<1>4. PICK r : r = RegisterOf(s)
  OBVIOUS
<1>5. /\ tasks[c].todo # <<>> /\ s \notin {"choose", "switch", "report"}
      /\ s = "range" => cur = "spk" /\ Lfe
      /\ s = "volume" => ~zeroed
      /\ zeroed' = (zeroed \/ s = "volume")
  BY <1>3, Zenon DEF Write
<1>6. CASE /\ outHw' = [outHw EXCEPT ![r] = Value(s, tasks[c].branch, tasks[c].fx)]
           /\ lost' = IF overlap THEN lost ELSE lost \ {r}
           /\ Todo(c, Tail(tasks[c].todo))
           /\ UNCHANGED <<failed, outEvents>>
  <2>1. failed' = failed
    BY <1>6
  <2>2. QED
    BY <1>2, <1>3, <1>4, <1>5, <1>6, <2>1, WrittenFollows
<1>7. CASE /\ s \in Checked \cup Unchecked
           /\ OutEvent /\ failed' = TRUE
           /\ Todo(c, AfterFailure(tasks[c].todo))
           /\ lost' = lost \cup {r} \cup (IF s \in Checked THEN Selected ELSE {})
           /\ UNCHANGED outHw
  <2>1. outHw' = outHw
    BY <1>7
  <2>2. QED
    BY <1>2, <1>3, <1>4, <1>5, <1>7, <2>1, LostFollows
<1>8. QED
  BY <1>3, <1>4, <1>6, <1>7, Zenon DEF Write

-----------------------------------------------------------------------------
(* A function begins: a put of a control, or the headphone work.           *)

\* A register that is right, or that a selection is due for, whatever runs
StillRight(r) == outHw[r] = Wanted(r) \/ Excused(r)

LEMMA BeginIs ==
  ASSUME TasksOK, NEW c \in OutputContexts, NEW p, Runs(c, p)
  PROVE  /\ tasks[c].todo = <<>> /\ tasks' = [tasks EXCEPT ![c] = [NoTask EXCEPT !.todo = p]]
         /\ overlap' <=> ~Quiet /\ (overlap \/ p # <<>>)
         /\ lost' = IF overlap' THEN OutRegisters ELSE lost
         /\ TaskNow(c, [NoTask EXCEPT !.todo = p]) /\ [NoTask EXCEPT !.todo = p].todo = p
<1>1. /\ tasks[c].todo = <<>> /\ tasks' = [tasks EXCEPT ![c] = [NoTask EXCEPT !.todo = p]]
      /\ overlap' <=> ~Quiet /\ (overlap \/ p # <<>>)
      /\ lost' = IF overlap' THEN OutRegisters ELSE lost
  BY Zenon DEF Runs
<1>2. PICK t : t = [NoTask EXCEPT !.todo = p]
  OBVIOUS
<1>3. TaskShape(t) /\ t.todo = p
  BY <1>2 DEF TaskShape, TaskFields, NoTask
<1>4. TaskNow(c, t)
  BY <1>1, <1>2, <1>3, TaskSet, Zenon
<1>5. QED
  BY <1>1, <1>2, <1>3, <1>4, Zenon

LEMMA BeginFollows ==
  ASSUME FollowInv, NEW c \in OutputContexts, NEW p, Runs(c, p), Obeys(p, outCard), ChooseFirst(p, outCard),
         outCard' = outCard, cur' = cur, outHw' = outHw, zeroed' = zeroed, failed' = failed,
         MixerOK', Plain => mixer'.channels = "2.0",
         Has(p, "choose") \/ (WantedOutput' = WantedOutput /\ Stale' = Stale),
         Has(p, "gain_put") => mixer'.auto \/ mixer'.out = "hp",
         Has(p, "bass_put") => cur = "spk",
         p = <<>> => mixer'.pe = mixer.pe /\ (mixer.auto \/ mixer.out = "hp" => mixer'.auto \/ mixer'.out = "hp"),
         blocked' = blocked, Has(p, "report") \/ (hpWork' = hpWork /\ missed' = missed),
         \A r \in OutRegisters \ lost : ~overlap /\ StillRight(r) =>
           \/ PendsIn(p, r, mixer'.pe, outCard) \/ Excused(r)' \/ outHw'[r] = Wanted(r)'
           \/ p = <<>> /\ Pends(r)
  PROVE  FollowInv'
<1>1. /\ MixerOK /\ TasksOK /\ PlainOK /\ OutputKnown /\ AloneOK /\ RegistersOK /\ VolumeOK /\ RearOK
  BY Zenon DEF FollowInv
<1>2. PICK t : /\ TaskNow(c, t) /\ t.todo = p
  BY <1>1, BeginIs, Zenon
<1>3. /\ tasks[c].todo = <<>>
      /\ overlap' <=> ~Quiet /\ (overlap \/ p # <<>>)
      /\ lost' = IF overlap' THEN OutRegisters ELSE lost
  BY <1>1, BeginIs, Zenon
<1>4. tasks'[c].todo = p /\ \A d \in OutputContexts : d # c => tasks'[d] = tasks[d]
  BY <1>2, Zenon DEF TaskNow
<1>5. lost \subseteq lost' /\ lost \subseteq OutRegisters /\ (~overlap' => lost' = lost)
  BY <1>1, <1>3 DEF MixerOK
<1>6. TasksOK'
  <2>1. HwShape(outHw')
    BY <1>1, Zenon DEF TasksOK
  <2>2. Obeys(t.todo, outCard)
    BY <1>2, Zenon
  <2>3. QED
    BY <1>1, <1>2, <2>1, <2>2, TasksHold, Zenon
<1>7. PlainOK'
  <2>1. Plain' = Plain
    BY DEF Plain
  <2>2. Plain => NotOnPlain \subseteq lost'
    BY <1>1, <1>5 DEF PlainOK
  <2>3. Plain => ~zeroed'
    BY <1>1, Zenon DEF PlainOK
  <2>4. QED
    BY <2>1, <2>2, <2>3, Zenon DEF PlainOK
<1>8. ASSUME NEW s, NEW d \in OutputContexts, Has(tasks[d].todo, s)
      PROVE  Has(tasks'[d].todo, s)
  <2>1. tasks[c].todo = <<>> => ~Has(tasks[c].todo, s)
    BY DEF Has
  <2>2. d # c
    BY <1>3, <1>8, <2>1, Zenon
  <2>3. QED
    BY <1>4, <1>8, <2>2, Zenon
<1>9. OutputKnown'
  <2>1. CASE Has(p, "choose")
    BY <1>4, <2>1, Zenon DEF OutputKnown
  <2>2. CASE WantedOutput' = WantedOutput /\ Stale' = Stale
    BY <1>1, <1>8, <2>2, Zenon DEF OutputKnown
  <2>3. QED
    BY <2>1, <2>2, Zenon
<1>10. AloneOK'
  <2>1. CASE overlap'
    BY <2>1, Zenon DEF AloneOK
  <2>2. CASE ~overlap' /\ Quiet
    <3>1. \A d \in OutputContexts : d # c => tasks'[d].todo = <<>>
      BY <1>4, <2>2, Zenon DEF Quiet
    <3>2. Sole'
      BY <3>1, Zenon DEF Sole
    <3>3. Current(tasks'[c], outCard, cur, mixer')
      <4>1. SwitchFirst(p, outCard)
        <5>1. Laws(p, outCard) /\ Len(p) \in Nat
          BY CardStepsAre, Zenon DEF Obeys
        <5>2. QED
          BY <5>1, ChosenFirst, Zenon
      <4>2. QED
        BY <1>4, <4>1, Zenon DEF Current
    <3>4. \A d \in OutputContexts : Current(tasks'[d], outCard', cur', mixer')
      BY <3>1, <3>3, IdleCurrent, Zenon
    <3>5. QED
      BY <3>2, <3>4, Zenon DEF AloneOK
  <2>3. CASE ~overlap' /\ ~Quiet
    <3>1. ~overlap /\ p = <<>>
      BY <1>3, <2>3, Zenon
    <3>2. Sole'
      <4>1. Sole /\ t.todo = <<>>
        BY <1>1, <1>2, <3>1, Zenon DEF AloneOK
      <4>2. QED
        BY <1>2, <4>1, SoleStays, Zenon
    <3>3. ASSUME NEW d \in OutputContexts PROVE Current(tasks'[d], outCard, cur, mixer')
      <4>1. CASE d = c
        BY <1>4, <3>1, <4>1, IdleCurrent, Zenon
      <4>2. CASE d # c
        <5>1. Current(tasks[d], outCard, cur, mixer)
          BY <1>1, <3>1, Zenon DEF AloneOK
        <5>2. Current(tasks[d], outCard, cur, mixer')
          BY <3>1, <5>1, Zenon DEF Current
        <5>3. QED
          BY <1>4, <4>2, <5>2, Zenon
      <4>3. QED
        BY <4>1, <4>2
    <3>4. QED
      BY <3>2, <3>3, Zenon DEF AloneOK
  <2>4. QED
    BY <2>1, <2>2, <2>3, Zenon
<1>11. RegistersOK'
  <2>1. CASE overlap'
    BY <1>3, <2>1, Zenon DEF RegistersOK
  <2>2. CASE ~overlap' /\ overlap
    <3>1. OutRegisters \ lost' = {}
      BY <1>1, <1>5, <2>2 DEF RegistersOK
    <3>2. QED
      BY <2>2, <3>1 DEF RegistersOK
  <2>3. CASE ~overlap' /\ ~overlap
    <3>1. ASSUME NEW r \in OutRegisters \ lost', Pends(r) PROVE ~Quiet
      BY <3>1 DEF Pends, PendsIn, Quiet
    <3>2. ASSUME NEW r \in OutRegisters \ lost', Pends(r), p = <<>> PROVE Pends(r)'
      <4>1. PICK d \in OutputContexts : PendsIn(tasks[d].todo, r, mixer.pe, outCard)
        BY <3>2, Zenon DEF Pends
      <4>2. tasks'[d].todo = tasks[d].todo
        BY <1>3, <1>4, <3>2, Zenon
      <4>3. PendsIn(tasks'[d].todo, r, mixer'.pe, outCard')
        BY <3>2, <4>1, <4>2, Zenon
      <4>4. QED
        BY <4>3, Zenon DEF Pends
    <3>3. ASSUME NEW r \in OutRegisters \ lost' PROVE Right(r)'
      <4>1. Right(r) /\ r \in OutRegisters \ lost
        <5>1. r \in OutRegisters \ lost
          BY <1>5, <2>3, <3>3
        <5>2. QED
          BY <1>1, <2>3, <5>1, Zenon DEF RegistersOK, Right
      <4>2. CASE Pends(r)
        <5>1. p = <<>>
          BY <1>3, <2>3, <3>1, <4>2, Zenon
        <5>2. QED
          BY <3>2, <4>2, <5>1, Zenon DEF Right
      <4>3. CASE StillRight(r)
        <5>1. \/ PendsIn(p, r, mixer'.pe, outCard) \/ Excused(r)' \/ outHw'[r] = Wanted(r)'
              \/ p = <<>> /\ Pends(r)
          BY <2>3, <4>1, <4>3, Zenon
        <5>2. CASE PendsIn(p, r, mixer'.pe, outCard)
          <6>1. PendsIn(tasks'[c].todo, r, mixer'.pe, outCard')
            BY <1>4, <5>2, Zenon
          <6>2. QED
            BY <6>1, Zenon DEF Right, Pends
        <5>3. CASE p = <<>> /\ Pends(r)
          BY <3>2, <5>3, Zenon DEF Right
        <5>4. QED
          BY <5>1, <5>2, <5>3, Zenon DEF Right
      <4>4. QED
        BY <4>1, <4>2, <4>3, Zenon DEF Right, StillRight
    <3>4. QED
      BY <2>3, <3>3, Zenon DEF RegistersOK, Right
  <2>4. QED
    BY <2>1, <2>2, <2>3, Zenon
<1>12. VolumeOK'
  <2>1. "volume" \in lost => "volume" \in lost'
    BY <1>5
  <2>2. QED
    BY <1>1, <2>1, Zenon DEF VolumeOK
<1>13. RearOK'
  <2>1. CASE Has(p, "report")
    BY <1>4, <2>1, Zenon DEF RearOK
  <2>2. CASE hpWork' = hpWork /\ missed' = missed
    BY <1>1, <1>8, <2>2, Zenon DEF RearOK
  <2>3. QED
    BY <2>1, <2>2, Zenon
<1>14. QED
  BY <1>6, <1>7, <1>9, <1>10, <1>11, <1>12, <1>13, Zenon DEF FollowInv

\* Only what a selection writes is excused.
LEMMA ExcusedChosen ==
  ASSUME PlainOK, NEW r \in OutRegisters \ lost, r \notin Chosen(mixer.pe, outCard)
  PROVE  ~Excused(r)
<1>1. CASE Plain
  <2>1. r \notin NotOnPlain /\ r \notin {"pins", "config", "eq"}
    BY <1>1 DEF PlainOK, Chosen, Plain
  <2>2. CASE r = "xbass"
    BY <1>1, <2>2, Zenon DEF Excused
  <2>3. CASE r # "xbass"
    <3>1. r \notin Selected
      BY <2>1, <2>3 DEF NotOnPlain, Selected
    <3>2. QED
      BY <3>1, Zenon DEF Excused
  <2>4. QED
    BY <2>2, <2>3
<1>2. CASE ~Plain
  <2>1. r = "xbass" => ~mixer.pe
    BY <1>2 DEF Chosen, Plain
  <2>2. r # "xbass" => r \notin Selected
    BY <1>2 DEF Chosen, Plain, Selected
  <2>3. QED
    BY <2>1, <2>2, Zenon DEF Excused
<1>3. QED
  BY <1>1, <1>2

\* What a selection does not write does not depend on the output or on the channels.
LEMMA OthersWanted ==
  ASSUME PlainOK, outCard' = outCard, NEW r \in OutRegisters \ lost, r \notin Chosen(mixer.pe, outCard),
         mixer'.pe = mixer.pe, mixer'.xbass = mixer.xbass, mixer'.surround = mixer.surround,
         mixer'.slider = mixer.slider, Plain => mixer'.channels = "2.0"
  PROVE  Wanted(r)' = Wanted(r)
<1>1. Plain => mixer.channels = "2.0" /\ r \notin NotOnPlain
  BY DEF PlainOK
<1>2. r \in {"xbass", "surround", "slider", "volume"}
  BY <1>1 DEF OutRegisters, Selected, Chosen, NotOnPlain, Plain
<1>3. CASE r = "xbass"
  <2>1. Wanted(r) = (mixer.pe /\ mixer.xbass /\ (Lfe => WantedOutput = "hp"))
    BY <1>3 DEF Wanted
  <2>2. Wanted(r)' = (mixer.pe /\ mixer.xbass /\ (Lfe' => WantedOutput' = "hp"))
    BY <1>3 DEF Wanted
  <2>3. ~mixer.pe \/ (~Lfe /\ ~Lfe')
    BY <1>1, <1>3 DEF Chosen, Plain, Lfe
  <2>4. QED
    BY <2>1, <2>2, <2>3, Zenon
<1>4. CASE r \in {"surround", "slider", "volume"}
  BY <1>4 DEF Wanted
<1>5. QED
  BY <1>2, <1>3, <1>4

\* A plug: the work is queued, and a selection is due.
LEMMA JackFollows ==
  ASSUME FollowInv, JackEvent
  PROVE  FollowInv'
<1>1. /\ MixerOK /\ TasksOK /\ PlainOK /\ OutputKnown /\ AloneOK /\ RegistersOK /\ VolumeOK /\ RearOK
  BY Zenon DEF FollowInv
<1>2. <<outCard, mixer, cur, tasks, outHw, zeroed, lost, overlap, missed, failed>>'
        = <<outCard, mixer, cur, tasks, outHw, zeroed, lost, overlap, missed, failed>>
  BY Zenon DEF JackEvent
<1>3. /\ outCard' = outCard /\ mixer' = mixer /\ cur' = cur /\ tasks' = tasks /\ outHw' = outHw
      /\ zeroed' = zeroed /\ lost' = lost /\ overlap' = overlap /\ missed' = missed /\ failed' = failed
  BY <1>2
<1>4. hpWork' = TRUE /\ Stale'
  BY Zenon DEF JackEvent, Stale
<1>5. MixerOK'
  <2>1. cur' \in Outputs /\ lost' \subseteq OutRegisters
    BY <1>1, <1>3 DEF MixerOK
  <2>2. QED
    BY <1>1, <1>3, <2>1, MixerStays, Zenon
<1>6. TasksOK'
  BY <1>1, <1>3, Zenon DEF TasksOK
<1>7. PlainOK' /\ VolumeOK'
  BY <1>1, <1>3, Zenon DEF PlainOK, VolumeOK, Plain
<1>8. OutputKnown'
  BY <1>4, Zenon DEF OutputKnown
<1>9. AloneOK'
  BY <1>1, <1>3, Zenon DEF AloneOK, Sole
<1>10. RegistersOK'
  <2>1. CASE overlap
    BY <1>1, <1>3, <2>1, Zenon DEF RegistersOK
  <2>2. CASE ~overlap
    <3>1. ASSUME NEW r \in OutRegisters \ lost PROVE Right(r)'
      <4>1. CASE r \in Chosen(mixer.pe, outCard)
        <5>1. r \in Chosen(mixer'.pe, outCard')
          BY <1>3, <4>1
        <5>2. r \in Selected /\ (r = "xbass" => mixer'.pe /\ ~Plain')
          BY <5>1 DEF Chosen, Selected, Plain
        <5>3. QED
          BY <1>4, <5>2, Zenon DEF Right, Excused
      <4>2. CASE r \notin Chosen(mixer.pe, outCard)
        <5>1. ~Excused(r)
          BY <1>1, <4>2, ExcusedChosen
        <5>2. Wanted(r)' = Wanted(r)
          <6>1. Plain => mixer'.channels = "2.0"
            BY <1>1, <1>3, Zenon DEF PlainOK
          <6>2. QED
            BY <1>1, <1>3, <4>2, <6>1, OthersWanted
        <5>3. Pends(r)' = Pends(r)
          BY <1>3, Zenon DEF Pends
        <5>4. Right(r)
          BY <1>1, <2>2, Zenon DEF RegistersOK, Right
        <5>5. QED
          BY <1>3, <5>1, <5>2, <5>3, <5>4, Zenon DEF Right
      <4>3. QED
        BY <4>1, <4>2
    <3>2. QED
      BY <1>3, <2>2, <3>1, Zenon DEF RegistersOK, Right
  <2>3. QED
    BY <2>1, <2>2
<1>11. RearOK'
  BY <1>4, Zenon DEF RearOK
<1>12. QED
  BY <1>5, <1>6, <1>7, <1>8, <1>9, <1>10, <1>11, Zenon DEF FollowInv

\* The work: it selects, and then reports.
LEMMA WorkFollows ==
  ASSUME FollowInv, HpWork
  PROVE  FollowInv'
<1>1. /\ MixerOK /\ TasksOK /\ PlainOK
  BY Zenon DEF FollowInv
<1>2. PICK p : p = Selection \o <<"report">>
  OBVIOUS
<1>3. Runs("hp", p) /\ "hp" \in OutputContexts
  <2>1. "hp" \in OutputContexts
    BY DEF OutputContexts
  <2>2. QED
    BY <1>2, <2>1, Zenon DEF HpWork
<1>4. /\ outCard' = outCard /\ mixer' = mixer /\ jacks' = jacks /\ cur' = cur /\ outHw' = outHw
      /\ zeroed' = zeroed /\ blocked' = blocked /\ failed' = failed
  <2>1. <<outCard, mixer, jacks, cur, outHw, zeroed, blocked, failed, outEvents>>'
          = <<outCard, mixer, jacks, cur, outHw, zeroed, blocked, failed, outEvents>>
    BY Zenon DEF HpWork
  <2>2. QED
    BY <2>1
<1>5. /\ Part(p, outCard) /\ Has(p, "choose") /\ Has(p, "report")
      /\ \A r \in Chosen(mixer.pe, outCard) : PendsIn(p, r, mixer.pe, outCard)
  <2>1. PICK q : q = <<"report">>
    OBVIOUS
  <2>2. Has(q, "report")
    BY <2>1 DEF Has
  <2>3. Part(q, outCard)
    BY <2>1, LooseParts, Zenon
  <2>4. p = Selection \o q
    BY <1>2, <2>1, Zenon
  <2>5. QED
    BY <2>2, <2>3, <2>4, SelectionAnd, Zenon
<1>6. Obeys(p, outCard) /\ ChooseFirst(p, outCard) /\ ~Has(p, "gain_put") /\ ~Has(p, "bass_put")
  BY <1>5, PartObeys, Zenon DEF Part
<1>7. p # <<>>
  <2>1. ~Has(<<>>, "choose")
    BY DEF Has
  <2>2. QED
    BY <1>5, <2>1, Zenon
<1>8. MixerOK'
  <2>1. cur' \in Outputs
    BY <1>1, <1>4 DEF MixerOK
  <2>2. lost' \subseteq OutRegisters
    <3>1. lost' = IF overlap' THEN OutRegisters ELSE lost
      BY <1>1, <1>3, BeginIs, Zenon
    <3>2. QED
      BY <1>1, <3>1 DEF MixerOK
  <2>3. QED
    BY <1>1, <1>4, <2>1, <2>2, MixerStays, Zenon
<1>9. Plain => mixer'.channels = "2.0"
  BY <1>1, <1>4, Zenon DEF PlainOK
<1>10. ASSUME NEW r \in OutRegisters \ lost, StillRight(r)
       PROVE  PendsIn(p, r, mixer'.pe, outCard) \/ outHw'[r] = Wanted(r)'
  <2>1. CASE r \in Chosen(mixer.pe, outCard)
    BY <1>4, <1>5, <2>1, Zenon
  <2>2. CASE r \notin Chosen(mixer.pe, outCard)
    <3>1. ~Excused(r)
      BY <1>1, <2>2, ExcusedChosen
    <3>2. outHw[r] = Wanted(r) /\ outHw'[r] = outHw[r]
      BY <1>4, <1>10, <3>1, Zenon DEF StillRight
    <3>3. Wanted(r)' = Wanted(r)
      BY <1>4, <3>2, WantedIs, Zenon
    <3>4. QED
      BY <3>2, <3>3, Zenon
  <2>3. QED
    BY <2>1, <2>2
<1>11. QED
  BY <1>3, <1>4, <1>5, <1>6, <1>7, <1>8, <1>9, <1>10, BeginFollows

-----------------------------------------------------------------------------
(* A suspend and a resume.                                                 *)

\* The DSP is loaded again: nothing is known of it, and it is all set up.
LEMMA ReloadFollows ==
  ASSUME FollowInv, NEW p, Part(p, outCard), Has(p, "choose"), Reload(p), zeroed' = FALSE
  PROVE  FollowInv'
<1>1. /\ MixerOK /\ TasksOK /\ PlainOK /\ RearOK
  BY Zenon DEF FollowInv
<1>2. /\ outCard' = outCard /\ mixer' = mixer /\ jacks' = jacks /\ cur' = cur /\ blocked' = blocked
  <2>1. <<outCard, mixer, jacks, cur, blocked, failed>>' = <<outCard, mixer, jacks, cur, blocked, failed>>
    BY Zenon DEF Reload
  <2>2. QED
    BY <2>1
<1>3. /\ Quiet /\ outHw' = Unset /\ lost' = OutRegisters /\ overlap' = FALSE
      /\ missed' = IF hpWork THEN {"report"} ELSE missed \ {"output"}
  BY Zenon DEF Reload
<1>4. PICK t : t = [NoTask EXCEPT !.todo = p]
  OBVIOUS
<1>5. TaskShape(t) /\ t.todo = p /\ tasks' = [tasks EXCEPT !["pm"] = t] /\ "pm" \in OutputContexts
  <2>1. tasks' = [tasks EXCEPT !["pm"] = t]
    BY <1>4, Zenon DEF Reload
  <2>2. QED
    BY <1>4, <2>1 DEF TaskShape, TaskFields, NoTask, OutputContexts
<1>6. TaskNow("pm", t)
  BY <1>1, <1>5, TaskSet, Zenon
<1>7. Obeys(p, outCard) /\ ChooseFirst(p, outCard) /\ SwitchFirst(p, outCard) /\ ~Has(p, "gain_put") /\ ~Has(p, "bass_put")
  BY PartObeys, Zenon DEF Part
<1>8. MixerOK'
  <2>1. cur' \in Outputs /\ lost' \subseteq OutRegisters
    BY <1>1, <1>2, <1>3 DEF MixerOK
  <2>2. QED
    BY <1>1, <1>2, <2>1, MixerStays, Zenon
<1>9. TasksOK'
  <2>1. HwShape(outHw')
    BY <1>3 DEF HwShape, Unset
  <2>2. Obeys(t.todo, outCard)
    BY <1>5, <1>7, Zenon
  <2>3. QED
    BY <1>1, <1>2, <1>5, <1>6, <2>1, <2>2, TasksHold, Zenon
<1>10. PlainOK'
  <2>1. NotOnPlain \subseteq lost'
    BY <1>3 DEF NotOnPlain, OutRegisters, Selected
  <2>2. QED
    BY <1>1, <1>2, <2>1, PlainKept, Zenon
<1>11. OutputKnown'
  BY <1>5, <1>6, Zenon DEF OutputKnown, TaskNow
<1>12. AloneOK'
  <2>1. tasks'["pm"] = t /\ \A d \in OutputContexts : d # "pm" => tasks'[d].todo = <<>>
    BY <1>3, <1>6, Zenon DEF TaskNow, Quiet
  <2>2. Sole'
    BY <2>1, Zenon DEF Sole
  <2>3. Current(t, outCard', cur', mixer')
    BY <1>2, <1>5, <1>7, Zenon DEF Current
  <2>4. \A d \in OutputContexts : Current(tasks'[d], outCard', cur', mixer')
    BY <2>1, <2>3, IdleCurrent, Zenon
  <2>5. QED
    BY <2>2, <2>4, Zenon DEF AloneOK
<1>13. RegistersOK'
  <2>1. OutRegisters \ lost' = {}
    BY <1>3
  <2>2. QED
    BY <1>3, <2>1 DEF RegistersOK
<1>14. VolumeOK'
  BY Zenon DEF VolumeOK
<1>15. RearOK'
  <2>1. "rear" \in blocked => hpWork \/ "report" \in missed
    <3>1. \A d \in OutputContexts : ~Has(tasks[d].todo, "report")
      BY <1>3 DEF Quiet, Has
    <3>2. QED
      BY <1>1, <3>1, Zenon DEF RearOK
  <2>2. hpWork \/ "report" \in missed => "report" \in missed'
    BY <1>3
  <2>3. QED
    BY <1>2, <2>1, <2>2, Zenon DEF RearOK
<1>16. QED
  BY <1>8, <1>9, <1>10, <1>11, <1>12, <1>13, <1>14, <1>15, Zenon DEF FollowInv

\* The DSP is found loaded: nothing is set, and what the work was to do is missed.
LEMMA LoadedFollows ==
  ASSUME FollowInv, ResumeLoaded
  PROVE  FollowInv'
<1>1. /\ MixerOK /\ TasksOK /\ PlainOK /\ OutputKnown /\ AloneOK /\ RegistersOK /\ VolumeOK /\ RearOK
  BY Zenon DEF FollowInv
<1>2. /\ outCard' = outCard /\ mixer' = mixer /\ jacks' = jacks /\ cur' = cur /\ tasks' = tasks /\ outHw' = outHw
      /\ zeroed' = zeroed /\ blocked' = blocked /\ lost' = lost /\ overlap' = overlap /\ failed' = failed
  <2>1. <<outCard, mixer, jacks, cur, tasks, outHw, zeroed, blocked, lost, overlap, failed>>'
          = <<outCard, mixer, jacks, cur, tasks, outHw, zeroed, blocked, lost, overlap, failed>>
    BY Zenon DEF ResumeLoaded
  <2>2. QED
    BY <2>1
<1>3. hpWork' = FALSE /\ missed' = IF hpWork THEN {"report", "output"} ELSE missed
  BY Zenon DEF ResumeLoaded
<1>4. (Stale' <=> Stale) /\ (hpWork \/ "report" \in missed => "report" \in missed')
  <2>1. CASE hpWork
    <3>1. missed' = {"report", "output"}
      BY <1>3, <2>1, Zenon
    <3>2. "output" \in missed' /\ "report" \in missed'
      BY <3>1
    <3>3. QED
      BY <2>1, <3>2, Zenon DEF Stale
  <2>2. CASE ~hpWork
    <3>1. missed' = missed
      BY <1>3, <2>2, Zenon
    <3>2. QED
      BY <1>3, <2>2, <3>1, Zenon DEF Stale
  <2>3. QED
    BY <2>1, <2>2, Zenon
<1>5. MixerOK'
  <2>1. cur' \in Outputs /\ lost' \subseteq OutRegisters
    BY <1>1, <1>2 DEF MixerOK
  <2>2. QED
    BY <1>1, <1>2, <2>1, MixerStays, Zenon
<1>6. TasksOK'
  BY <1>1, <1>2, Zenon DEF TasksOK
<1>7. PlainOK' /\ VolumeOK'
  BY <1>1, <1>2, Zenon DEF PlainOK, VolumeOK, Plain
<1>8. WantedOutput' = WantedOutput
  BY <1>2, WantedStays, Zenon
<1>9. OutputKnown'
  BY <1>1, <1>2, <1>4, <1>8, Zenon DEF OutputKnown
<1>10. AloneOK'
  BY <1>1, <1>2, Zenon DEF AloneOK, Sole
<1>11. RegistersOK'
  <2>1. ASSUME NEW r, Right(r) PROVE Right(r)'
    <3>1. outHw'[r] = outHw[r] /\ Pends(r)' = Pends(r)
      BY <1>2, Zenon DEF Pends
    <3>2. Wanted(r)' = Wanted(r)
      BY <1>2, <3>1, WantedIs, Zenon
    <3>3. Excused(r) => Excused(r)'
      BY <1>2, <1>4, Zenon DEF Excused, Excepted, Plain
    <3>4. QED
      BY <2>1, <3>1, <3>2, <3>3, Zenon DEF Right
  <2>2. QED
    BY <1>1, <1>2, <2>1, Zenon DEF RegistersOK, Right
<1>12. RearOK'
  BY <1>1, <1>2, <1>4, Zenon DEF RearOK
<1>13. QED
  BY <1>5, <1>6, <1>7, <1>9, <1>10, <1>11, <1>12, Zenon DEF FollowInv

-----------------------------------------------------------------------------
(* The puts.                                                               *)

\* A value that the control may have
Fits(control, value) ==
  /\ control \in {"auto", "pe", "xbass", "surround", "range", "bass"} => value \in BOOLEAN
  /\ control = "out" => value \in Outputs
  /\ control = "channels" => value \in {"2.0", "5.1"} /\ ~Plain

\* Control control has value value after the step; the other controls and the jacks are as they were.
Sets(control, value) ==
  /\ mixer'[control] = value /\ \A f \in MixerFields \ {control} : mixer'[f] = mixer[f]
  /\ outCard' = outCard /\ jacks' = jacks

LEMMA PutIs ==
  ASSUME FollowInv, NEW c \in OutputContexts, NEW control \in MixerFields, NEW value, Fits(control, value),
         NEW p, Store(c, control, value, p)
  PROVE  /\ Runs(c, p) /\ MixerOK' /\ Sets(control, value) /\ (Plain => mixer'.channels = "2.0")
         /\ outCard' = outCard /\ jacks' = jacks /\ cur' = cur /\ outHw' = outHw /\ zeroed' = zeroed
         /\ hpWork' = hpWork /\ blocked' = blocked /\ missed' = missed /\ failed' = failed
<1>1. MixerOK /\ TasksOK /\ PlainOK
  BY Zenon DEF FollowInv
<1>2. Runs(c, p) /\ mixer' = [mixer EXCEPT ![control] = value]
  BY Zenon DEF Store
<1>3. /\ outCard' = outCard /\ jacks' = jacks /\ cur' = cur /\ outHw' = outHw /\ zeroed' = zeroed
      /\ hpWork' = hpWork /\ blocked' = blocked /\ missed' = missed /\ failed' = failed
  <2>1. <<outCard, jacks, cur, outHw, zeroed, hpWork, blocked, missed, failed>>'
          = <<outCard, jacks, cur, outHw, zeroed, hpWork, blocked, missed, failed>>
    BY Zenon DEF Store
  <2>2. QED
    BY <2>1
<1>4. /\ mixer'[control] = value /\ \A f \in MixerFields \ {control} : mixer'[f] = mixer[f]
      /\ mixer' = [f \in MixerFields |-> mixer'[f]]
  BY <1>1, <1>2 DEF MixerOK
<1>5. Sets(control, value)
  BY <1>3, <1>4, Zenon DEF Sets
<1>6. cur' \in Outputs /\ lost' \subseteq OutRegisters
  <2>1. lost' = IF overlap' THEN OutRegisters ELSE lost
    BY <1>1, <1>2, BeginIs, Zenon
  <2>2. QED
    BY <1>1, <1>3, <2>1 DEF MixerOK
<1>7. ASSUME NEW f \in {"auto", "pe", "xbass", "surround", "range", "bass"} PROVE mixer'[f] \in BOOLEAN
  <2>1. mixer[f] \in BOOLEAN
    <3>1. /\ mixer["auto"] \in BOOLEAN /\ mixer["pe"] \in BOOLEAN /\ mixer["xbass"] \in BOOLEAN
          /\ mixer["surround"] \in BOOLEAN /\ mixer["range"] \in BOOLEAN /\ mixer["bass"] \in BOOLEAN
      BY <1>1, Zenon DEF MixerOK
    <3>2. QED
      BY <1>7, <3>1, Zenon
  <2>2. f \in MixerFields
    BY DEF MixerFields
  <2>3. CASE f = control
    BY <1>4, <2>3, Zenon DEF Fits
  <2>4. CASE f # control
    BY <1>4, <2>1, <2>2, <2>4
  <2>5. QED
    BY <2>3, <2>4
<1>8. mixer'.out \in Outputs
  <2>1. CASE control = "out"
    BY <1>4, <2>1 DEF Fits
  <2>2. CASE control # "out"
    BY <1>1, <1>4, <2>2 DEF MixerOK, MixerFields
  <2>3. QED
    BY <2>1, <2>2
<1>9. mixer'.channels \in {"2.0", "5.1"} /\ (Plain => mixer'.channels = "2.0")
  <2>1. CASE control = "channels"
    BY <1>4, <2>1 DEF Fits
  <2>2. CASE control # "channels"
    BY <1>1, <1>4, <2>2 DEF MixerOK, MixerFields, PlainOK
  <2>3. QED
    BY <2>1, <2>2
<1>10. MixerOK'
  <2>1. /\ mixer'["auto"] \in BOOLEAN /\ mixer'["pe"] \in BOOLEAN /\ mixer'["xbass"] \in BOOLEAN
        /\ mixer'["surround"] \in BOOLEAN /\ mixer'["range"] \in BOOLEAN /\ mixer'["bass"] \in BOOLEAN
    BY <1>7
  <2>2. QED
    BY <1>4, <1>6, <1>8, <1>9, <2>1, Zenon DEF MixerOK
<1>11. QED
  BY <1>2, <1>3, <1>5, <1>9, <1>10

\* A put that selects again
LEMMA SelectPut ==
  ASSUME FollowInv, NEW c \in OutputContexts, NEW control \in {"auto", "out", "channels"}, NEW value,
         Fits(control, value), Store(c, control, value, Selection)
  PROVE  FollowInv'
<1>1. /\ MixerOK /\ TasksOK /\ PlainOK
  BY Zenon DEF FollowInv
<1>2. control \in MixerFields
  BY DEF MixerFields
<1>3. /\ Runs(c, Selection) /\ MixerOK' /\ Sets(control, value) /\ (Plain => mixer'.channels = "2.0")
      /\ outCard' = outCard /\ jacks' = jacks /\ cur' = cur /\ outHw' = outHw /\ zeroed' = zeroed
      /\ hpWork' = hpWork /\ blocked' = blocked /\ missed' = missed /\ failed' = failed
  BY <1>2, PutIs, Zenon
<1>4. PICK p : p = Selection
  OBVIOUS
<1>5. /\ Part(p, outCard) /\ Has(p, "choose")
      /\ \A r \in Chosen(mixer.pe, outCard) : PendsIn(p, r, mixer.pe, outCard)
  BY <1>4, SelectionIs, Zenon
<1>6. Obeys(p, outCard) /\ ChooseFirst(p, outCard) /\ ~Has(p, "gain_put") /\ ~Has(p, "bass_put")
  BY <1>5, PartObeys, Zenon DEF Part
<1>7. p # <<>>
  <2>1. ~Has(<<>>, "choose")
    BY DEF Has
  <2>2. QED
    BY <1>5, <2>1, Zenon
<1>8. /\ mixer'.pe = mixer.pe /\ mixer'.xbass = mixer.xbass /\ mixer'.surround = mixer.surround
      /\ mixer'.slider = mixer.slider
  BY <1>3 DEF Sets, MixerFields
<1>9. ASSUME NEW r \in OutRegisters \ lost, StillRight(r)
      PROVE  PendsIn(p, r, mixer'.pe, outCard) \/ outHw'[r] = Wanted(r)'
  <2>1. CASE r \in Chosen(mixer.pe, outCard)
    BY <1>5, <1>8, <2>1, Zenon
  <2>2. CASE r \notin Chosen(mixer.pe, outCard)
    <3>1. ~Excused(r)
      BY <1>1, <2>2, ExcusedChosen
    <3>2. outHw[r] = Wanted(r) /\ outHw'[r] = outHw[r]
      BY <1>3, <1>9, <3>1, Zenon DEF StillRight
    <3>3. Wanted(r)' = Wanted(r)
      BY <1>1, <1>3, <1>8, <2>2, OthersWanted
    <3>4. QED
      BY <3>2, <3>3, Zenon
  <2>3. QED
    BY <2>1, <2>2
<1>10. Runs(c, p)
  BY <1>3, <1>4, Zenon
<1>11. QED
  BY <1>3, <1>5, <1>6, <1>7, <1>9, <1>10, BeginFollows

\* The registers whose value depends on a control, apart from the output it chooses
Affects(control) ==
  CASE control = "pe"       -> {"config", "xbass", "surround"}
    [] control = "channels" -> {"config", "xbass", "bass", "range"}
    [] control \in {"xbass", "surround", "gain", "range", "bass", "slider"} -> {control}
    [] OTHER -> {}

LEMMA Unaffected ==
  ASSUME NEW control \in MixerFields, NEW value, Sets(control, value), WantedOutput' = WantedOutput,
         hpWork' = hpWork, missed' = missed, NEW r, outHw'[r] = outHw[r], r \notin Affects(control)
  PROVE  /\ Wanted(r)' = Wanted(r)
         /\ control # "auto" => Excused(r)' = Excused(r)
<1>1. /\ outCard' = outCard /\ jacks' = jacks
      /\ control # "auto" => mixer'.auto = mixer.auto
      /\ control # "pe" => mixer'.pe = mixer.pe
      /\ control # "xbass" => mixer'.xbass = mixer.xbass
      /\ control # "surround" => mixer'.surround = mixer.surround
      /\ control # "channels" => mixer'.channels = mixer.channels
      /\ control # "gain" => mixer'.gain = mixer.gain
      /\ control # "range" => mixer'.range = mixer.range
      /\ control # "bass" => mixer'.bass = mixer.bass
      /\ control # "slider" => mixer'.slider = mixer.slider
  BY DEF Sets, MixerFields
<1>2. Plain' = Plain /\ HpPin' = HpPin /\ SpeakerPins' = SpeakerPins /\ RearPin' = RearPin
  BY <1>1, Zenon DEF Plain, HpPin, SpeakerPins, RearPin
<1>3. /\ r \in {"config", "xbass", "surround"} => control # "pe"
      /\ r \in {"config", "xbass", "bass", "range"} => control # "channels"
      /\ r \in {"xbass", "surround", "gain", "range", "bass", "slider"} => control # r
  BY DEF Affects
<1>4. r \in {"config", "xbass", "bass", "range"} => Lfe' = Lfe
  BY <1>1, <1>3 DEF Lfe
<1>5. Wanted(r)' = Wanted(r)
  <2>1. CASE r \in {"mute", "relay", "invert", "port", "volume"}
    BY <2>1 DEF Wanted
  <2>2. CASE r = "gain"
    BY <1>1, <1>3, <2>2 DEF Wanted
  <2>3. CASE r = "pins"
    BY <1>2, <2>3 DEF Wanted
  <2>4. CASE r = "config"
    <3>1. mixer'.pe = mixer.pe /\ mixer'.channels = mixer.channels /\ Lfe' = Lfe
      BY <1>1, <1>3, <1>4, <2>4
    <3>2. QED
      BY <1>2, <2>4, <3>1 DEF Wanted
  <2>5. CASE r = "eq"
    BY <1>2, <2>5 DEF Wanted
  <2>6. CASE r = "xbass"
    <3>1. mixer'.pe = mixer.pe /\ mixer'.xbass = mixer.xbass /\ Lfe' = Lfe
      BY <1>1, <1>3, <1>4, <2>6
    <3>2. QED
      BY <2>6, <3>1 DEF Wanted
  <2>7. CASE r = "surround"
    <3>1. mixer'.pe = mixer.pe /\ mixer'.surround = mixer.surround
      BY <1>1, <1>3, <2>7
    <3>2. QED
      BY <2>7, <3>1 DEF Wanted
  <2>8. CASE r = "bass"
    <3>1. mixer'.bass = mixer.bass /\ Lfe' = Lfe
      BY <1>1, <1>3, <1>4, <2>8
    <3>2. QED
      BY <2>8, <3>1 DEF Wanted
  <2>9. CASE r = "range"
    <3>1. mixer'.range = mixer.range /\ Lfe' = Lfe
      BY <1>1, <1>3, <1>4, <2>9
    <3>2. QED
      BY <2>9, <3>1 DEF Wanted
  <2>10. CASE r = "slider"
    BY <1>1, <1>3, <2>10 DEF Wanted
  <2>11. CASE r \notin OutRegisters
    BY <2>11 DEF Wanted, OutRegisters, Selected
  <2>12. QED
    BY <2>1, <2>2, <2>3, <2>4, <2>5, <2>6, <2>7, <2>8, <2>9, <2>10, <2>11 DEF OutRegisters, Selected
<1>6. control # "auto" => Excused(r)' = Excused(r)
  <2>1. r = "xbass" => mixer'.pe = mixer.pe
    BY <1>1, <1>3
  <2>2. control # "auto" => (Excepted(r)' <=> Excepted(r))
    BY <1>1, Zenon DEF Excepted
  <2>3. Stale' <=> Stale
    BY Zenon DEF Stale
  <2>4. control # "auto" => (Excused(r)' <=> Excused(r))
    BY <1>2, <2>1, <2>2, <2>3, Zenon DEF Excused
  <2>5. QED
    BY <2>4 DEF Excused
<1>7. QED
  BY <1>5, <1>6

\* A put that leaves the output asked for as it is
LEMMA OnePut ==
  ASSUME FollowInv, NEW c \in OutputContexts, NEW control \in MixerFields, control # "auto", NEW value,
         Fits(control, value), NEW p, Store(c, control, value, p), WantedOutput' = WantedOutput,
         Obeys(p, outCard), ChooseFirst(p, outCard),
         Has(p, "gain_put") => control = "gain" /\ mixer.out = "hp",
         Has(p, "bass_put") => cur = "spk",
         p = <<>> => control # "pe" /\ (control = "out" => mixer.auto),
         \A r \in Affects(control) \cap (OutRegisters \ lost) : ~overlap /\ StillRight(r) =>
           \/ PendsIn(p, r, mixer'.pe, outCard) \/ Excused(r)' \/ outHw'[r] = Wanted(r)'
           \/ p = <<>> /\ Pends(r)
  PROVE  FollowInv'
<1>1. /\ Runs(c, p) /\ MixerOK' /\ Sets(control, value) /\ (Plain => mixer'.channels = "2.0")
      /\ outCard' = outCard /\ jacks' = jacks /\ cur' = cur /\ outHw' = outHw /\ zeroed' = zeroed
      /\ hpWork' = hpWork /\ blocked' = blocked /\ missed' = missed /\ failed' = failed
  BY PutIs, Zenon
<1>2. Stale' = Stale
  BY <1>1, Zenon DEF Stale
<1>3. /\ mixer'.auto = mixer.auto
      /\ control # "pe" => mixer'.pe = mixer.pe
      /\ control # "out" => mixer'.out = mixer.out
  BY <1>1 DEF Sets, MixerFields
<1>4. Has(p, "gain_put") => mixer'.auto \/ mixer'.out = "hp"
  <2>1. control = "gain" => control # "out"
    OBVIOUS
  <2>2. QED
    BY <1>3, <2>1, Zenon
<1>5. p = <<>> => mixer'.pe = mixer.pe /\ (mixer.auto \/ mixer.out = "hp" => mixer'.auto \/ mixer'.out = "hp")
  BY <1>3, Zenon
<1>6. ASSUME NEW r \in OutRegisters \ lost, ~overlap, StillRight(r)
      PROVE  \/ PendsIn(p, r, mixer'.pe, outCard) \/ Excused(r)' \/ outHw'[r] = Wanted(r)'
             \/ p = <<>> /\ Pends(r)
  <2>1. CASE r \in Affects(control)
    BY <1>6, <2>1
  <2>2. CASE r \notin Affects(control)
    <3>1. outHw'[r] = outHw[r]
      BY <1>1, Zenon
    <3>2. Wanted(r)' = Wanted(r) /\ Excused(r)' = Excused(r)
      BY <1>1, <2>2, <3>1, Unaffected, Zenon
    <3>3. QED
      BY <1>6, <3>1, <3>2, Zenon DEF StillRight
  <2>3. QED
    BY <2>1, <2>2
<1>7. QED
  BY <1>1, <1>2, <1>4, <1>5, <1>6, BeginFollows

\* Nothing to do: a put of the control of another output, or of the value there is
LEMMA NoneIs ==
  ASSUME NEW card
  PROVE  /\ Obeys(<<>>, card) /\ ChooseFirst(<<>>, card)
         /\ ~Has(<<>>, "gain_put") /\ ~Has(<<>>, "bass_put")
<1>1. Part(<<>>, card)
  BY LooseParts, Zenon
<1>2. QED
  BY <1>1, PartObeys, Zenon DEF Part

\* One register to write
LEMMA OneIs ==
  ASSUME NEW s \in {"xbass", "surround", "slider", "volume"}, NEW pe, s \in {"slider", "volume"} => ~Plain
  PROVE  /\ Obeys(<<s>>, outCard) /\ ChooseFirst(<<s>>, outCard) /\ <<s>> # <<>>
         /\ ~Has(<<s>>, "gain_put") /\ ~Has(<<s>>, "bass_put")
         /\ PendsIn(<<s>>, s, pe, outCard)
<1>1. Part(<<s>>, outCard)
  <2>1. s \in {"slider", "volume"} => outCard # "plain"
    BY Zenon DEF Plain
  <2>2. QED
    BY <2>1, LooseParts
<1>2. WritesTo(s, s, pe, outCard)
  BY DEF WritesTo, RegisterOf
<1>3. PICK p : p = <<s>>
  OBVIOUS
<1>4. p # <<>> /\ PendsIn(p, s, pe, outCard)
  BY <1>2, <1>3 DEF PendsIn
<1>5. Obeys(p, outCard) /\ ChooseFirst(p, outCard) /\ ~Has(p, "gain_put") /\ ~Has(p, "bass_put")
  BY <1>1, <1>3, PartObeys, Zenon DEF Part
<1>6. QED
  BY <1>3, <1>4, <1>5, Zenon

\* The output asked for depends on two controls only.
LEMMA AskedStays ==
  ASSUME FollowInv, NEW c \in OutputContexts, NEW control \in MixerFields, NEW value, Fits(control, value),
         NEW p, Store(c, control, value, p),
         control \notin {"auto", "out"} \/ (control = "out" /\ (mixer.auto \/ value = mixer.out))
  PROVE  WantedOutput' = WantedOutput
<1>1. Sets(control, value)
  BY PutIs, Zenon
<1>2. CASE control \notin {"auto", "out"}
  BY <1>1, <1>2 DEF Sets, MixerFields, WantedOutput, Plain
<1>3. CASE control = "out" /\ mixer.auto
  BY <1>1, <1>3 DEF Sets, MixerFields, WantedOutput, Plain
<1>4. CASE control = "out" /\ value = mixer.out
  BY <1>1, <1>4 DEF Sets, MixerFields, WantedOutput, Plain
<1>5. QED
  BY <1>2, <1>3, <1>4

LEMMA OutputPutFollows ==
  ASSUME FollowInv, NEW c \in OutputContexts, OutputPut(c)
  PROVE  FollowInv'
<1>1. PICK out \in Outputs \ {mixer.out} :
        Store(c, "out", out, IF mixer.auto THEN <<>> ELSE Selection)
  BY Zenon DEF OutputPut
<1>2. Fits("out", out) /\ "out" \in MixerFields
  BY <1>1 DEF Fits, MixerFields
<1>3. CASE mixer.auto
  <2>1. Store(c, "out", out, <<>>)
    BY <1>1, <1>3, Zenon
  <2>2. WantedOutput' = WantedOutput
    BY <1>2, <1>3, <2>1, AskedStays
  <2>3. Affects("out") = {}
    BY DEF Affects
  <2>4. QED
    BY <1>2, <1>3, <2>1, <2>2, <2>3, NoneIs, OnePut
<1>4. CASE ~mixer.auto
  <2>1. Store(c, "out", out, Selection)
    BY <1>1, <1>4, Zenon
  <2>2. QED
    BY <1>2, <2>1, SelectPut
<1>5. QED
  BY <1>3, <1>4

LEMMA AutoPutFollows ==
  ASSUME FollowInv, AutoPut
  PROVE  FollowInv'
<1>1. Store("mixer", "auto", ~mixer.auto, Selection)
  BY Zenon DEF AutoPut
<1>2. Fits("auto", ~mixer.auto) /\ "mixer" \in OutputContexts
  BY DEF Fits, OutputContexts
<1>3. QED
  BY <1>1, <1>2, SelectPut

\* What a put of the effects switch writes
LEMMA PePends ==
  ASSUME NEW pe
  PROVE  /\ Part(PeSwitchSet, outCard) /\ PeSwitchSet # <<>>
         /\ PendsIn(PeSwitchSet, "surround", pe, outCard) /\ PendsIn(PeSwitchSet, "xbass", pe, outCard)
         /\ ~Plain => PendsIn(PeSwitchSet, "config", pe, outCard)
<1>1. PICK q : q = <<"surround", "xbass">>
  OBVIOUS
<1>2. Part(q, outCard)
  BY <1>1, LooseParts, Zenon
<1>3. PendsIn(q, "surround", pe, outCard) /\ PendsIn(q, "xbass", pe, outCard)
  <2>1. Len(q) = 2 /\ q[1] = "surround" /\ q[2] = "xbass"
    BY <1>1
  <2>2. WritesTo("surround", "surround", pe, outCard) /\ WritesTo("xbass", "xbass", pe, outCard)
    BY DEF WritesTo, RegisterOf
  <2>3. QED
    BY <2>1, <2>2 DEF PendsIn
<1>4. PICK p : p = PeSwitchSet
  OBVIOUS
<1>5. /\ Part(p, outCard)
      /\ PendsIn(p, "surround", pe, outCard) /\ PendsIn(p, "xbass", pe, outCard)
      /\ ~Plain => PendsIn(p, "config", pe, outCard)
  <2>1. CASE Plain
    <3>1. p = <<>> \o q
      BY <1>1, <1>4, <2>1, Zenon DEF PeSwitchSet
    <3>2. p = q
      BY <1>1, <3>1
    <3>3. QED
      BY <1>2, <1>3, <2>1, <3>2, Zenon
  <2>2. CASE ~Plain
    <3>1. p = Selection \o q
      BY <1>1, <1>4, <2>2, Zenon DEF PeSwitchSet
    <3>2. "config" \in Chosen(pe, outCard)
      BY <2>2 DEF Chosen, Plain
    <3>3. QED
      BY <1>2, <1>3, <3>1, <3>2, SelectionAnd, Zenon
  <2>3. QED
    BY <2>1, <2>2
<1>6. p # <<>>
  BY <1>5 DEF PendsIn
<1>7. QED
  BY <1>4, <1>5, <1>6, Zenon

LEMMA PePutFollows ==
  ASSUME FollowInv, NEW c \in OutputContexts, PePut(c)
  PROVE  FollowInv'
<1>1. PICK p : p = PeSwitchSet
  OBVIOUS
<1>2. Store(c, "pe", ~mixer.pe, p)
  BY <1>1, Zenon DEF PePut
<1>3. Fits("pe", ~mixer.pe) /\ "pe" \in MixerFields
  BY DEF Fits, MixerFields
<1>4. WantedOutput' = WantedOutput
  BY <1>2, <1>3, AskedStays
<1>5. /\ Part(p, outCard) /\ p # <<>>
      /\ PendsIn(p, "surround", mixer'.pe, outCard) /\ PendsIn(p, "xbass", mixer'.pe, outCard)
      /\ ~Plain => PendsIn(p, "config", mixer'.pe, outCard)
  BY <1>1, PePends, Zenon
<1>6. Obeys(p, outCard) /\ ChooseFirst(p, outCard) /\ ~Has(p, "gain_put") /\ ~Has(p, "bass_put")
  BY <1>5, PartObeys, Zenon DEF Part
<1>7. ASSUME StillRight("config"), Plain
      PROVE  Excused("config")' \/ outHw'["config"] = Wanted("config")'
  <2>1. /\ Sets("pe", ~mixer.pe) /\ outHw' = outHw /\ hpWork' = hpWork /\ missed' = missed
    BY <1>2, <1>3, PutIs, Zenon
  <2>2. outCard' = outCard /\ mixer'.auto = mixer.auto
    BY <2>1 DEF Sets, MixerFields
  <2>3. Wanted("config") = <<WantedOutput>> /\ Wanted("config")' = <<WantedOutput'>>
    BY <1>7, <2>2 DEF Wanted, Plain
  <2>4. Excused("config") => Excused("config")'
    <3>1. "config" # "xbass" /\ "config" \in {"gain", "config", "xbass", "bass", "range"}
      OBVIOUS
    <3>2. QED
      BY <2>1, <2>2, <3>1, Zenon DEF Excused, Stale, Excepted
  <2>5. QED
    BY <1>4, <1>7, <2>1, <2>3, <2>4, Zenon DEF StillRight
<1>8. \A r \in Affects("pe") \cap (OutRegisters \ lost) : ~overlap /\ StillRight(r) =>
        \/ PendsIn(p, r, mixer'.pe, outCard) \/ Excused(r)' \/ outHw'[r] = Wanted(r)'
        \/ p = <<>> /\ Pends(r)
  <2>1. Affects("pe") = {"config", "xbass", "surround"}
    BY DEF Affects
  <2>2. ASSUME NEW r \in Affects("pe") \cap (OutRegisters \ lost), ~overlap, StillRight(r)
        PROVE  PendsIn(p, r, mixer'.pe, outCard) \/ Excused(r)' \/ outHw'[r] = Wanted(r)'
    <3>1. CASE r = "config"
      BY <1>5, <1>7, <2>2, <3>1, Zenon
    <3>2. CASE r = "xbass" \/ r = "surround"
      BY <1>5, <3>2, Zenon
    <3>3. QED
      BY <2>1, <2>2, <3>1, <3>2
  <2>3. QED
    BY <2>2, Zenon
<1>9. "pe" # "auto" /\ "pe" # "gain" /\ "pe" # "out"
  OBVIOUS
<1>10. QED
  BY <1>2, <1>3, <1>4, <1>5, <1>6, <1>8, <1>9, OnePut, Zenon

LEMMA EffectPutFollows ==
  ASSUME FollowInv, EffectPut
  PROVE  FollowInv'
<1>1. PICK e \in {"xbass", "surround"} : Store("mixer", e, ~mixer[e], <<e>>)
  BY Zenon DEF EffectPut
<1>2. Fits(e, ~mixer[e]) /\ e \in MixerFields /\ "mixer" \in OutputContexts /\ Affects(e) = {e} /\ e # "auto"
  BY <1>1 DEF Fits, MixerFields, OutputContexts, Affects
<1>3. PICK p : p = <<e>>
  OBVIOUS
<1>4. /\ Obeys(p, outCard) /\ ChooseFirst(p, outCard) /\ p # <<>>
      /\ ~Has(p, "gain_put") /\ ~Has(p, "bass_put") /\ PendsIn(p, e, mixer'.pe, outCard)
  BY <1>3, OneIs
<1>5. Store("mixer", e, ~mixer[e], p)
  BY <1>1, <1>3, Zenon
<1>6. WantedOutput' = WantedOutput
  BY <1>2, <1>5, AskedStays
<1>7. QED
  BY <1>2, <1>4, <1>5, <1>6, OnePut

\* With the headphones asked for, the channels change nothing; with the automatic choice on,
\* they may be left as they are.
LEMMA ChannelsPutFollows ==
  ASSUME FollowInv, ChannelsPut
  PROVE  FollowInv'
<1>1. MixerOK /\ PlainOK
  BY Zenon DEF FollowInv
<1>2. PICK n \in {"2.0", "5.1"} \ {mixer.channels} :
        Store("mixer", "channels", n, IF mixer.out = "spk" THEN Selection ELSE <<>>)
  BY Zenon DEF ChannelsPut
<1>3. ~Plain
  BY Zenon DEF ChannelsPut
<1>4. Fits("channels", n) /\ "channels" \in MixerFields /\ "mixer" \in OutputContexts
  BY <1>2, <1>3 DEF Fits, MixerFields, OutputContexts
<1>5. CASE mixer.out = "spk"
  <2>1. Store("mixer", "channels", n, Selection)
    BY <1>2, <1>5, Zenon
  <2>2. QED
    BY <1>4, <2>1, SelectPut
<1>6. CASE mixer.out # "spk"
  <2>1. Store("mixer", "channels", n, <<>>)
    BY <1>2, <1>6, Zenon
  <2>2. WantedOutput' = WantedOutput
    BY <1>4, <2>1, AskedStays
  <2>3. /\ Sets("channels", n) /\ outHw' = outHw /\ hpWork' = hpWork /\ missed' = missed
    BY <1>4, <2>1, PutIs, Zenon
  <2>4. /\ outCard' = outCard /\ mixer'.auto = mixer.auto /\ mixer'.pe = mixer.pe
        /\ mixer'.xbass = mixer.xbass /\ mixer'.bass = mixer.bass
    BY <2>3 DEF Sets, MixerFields
  <2>5. Affects("channels") = {"config", "xbass", "bass", "range"}
    BY DEF Affects
  <2>6. ASSUME NEW r \in {"config", "xbass", "bass", "range"}, StillRight(r)
        PROVE  Excused(r)' \/ outHw'[r] = Wanted(r)'
    <3>1. r \in Selected /\ r \in {"gain", "config", "xbass", "bass", "range"}
      BY <2>6 DEF Selected
    <3>2. CASE r = "xbass" /\ ~mixer.pe
      <4>1. Wanted(r) = (mixer.pe /\ mixer.xbass /\ (Lfe => WantedOutput = "hp"))
        BY <3>2 DEF Wanted
      <4>2. Wanted(r)' = (mixer.pe /\ mixer.xbass /\ (Lfe' => WantedOutput' = "hp"))
        BY <2>4, <3>2 DEF Wanted
      <4>3. Wanted(r)' = Wanted(r)
        BY <3>2, <4>1, <4>2, Zenon
      <4>4. ~Excused(r)
        BY <3>2, Zenon DEF Excused
      <4>5. QED
        BY <2>3, <2>6, <4>3, <4>4, Zenon DEF StillRight
    <3>3. CASE (r = "xbass" => mixer.pe) /\ (mixer.auto \/ Excused(r))
      <4>1. Plain' = Plain /\ Stale' = Stale
        BY <2>3, <2>4, Zenon DEF Plain, Stale
      <4>2. QED
        BY <1>3, <2>4, <3>1, <3>3, <4>1, Zenon DEF Excused, Excepted
    <3>4. CASE ~mixer.auto /\ outHw[r] = Wanted(r)
      <4>1. WantedOutput = "hp" /\ WantedOutput' = "hp"
        BY <1>1, <1>6, <2>2, <3>4 DEF WantedOutput, MixerOK, Outputs
      <4>2. CASE r = "config"
        BY <1>3, <2>3, <2>4, <3>4, <4>1, <4>2 DEF Wanted, Plain
      <4>3. CASE r = "xbass"
        <5>1. Wanted(r) = (mixer.pe /\ mixer.xbass /\ (Lfe => WantedOutput = "hp"))
          BY <4>3 DEF Wanted
        <5>2. Wanted(r)' = (mixer.pe /\ mixer.xbass /\ (Lfe' => WantedOutput' = "hp"))
          BY <2>4, <4>3 DEF Wanted
        <5>3. Wanted(r)' = Wanted(r)
          BY <4>1, <5>1, <5>2
        <5>4. QED
          BY <2>3, <3>4, <5>3, Zenon
      <4>4. CASE r = "bass"
        <5>1. Wanted(r) = (mixer.bass /\ Lfe /\ WantedOutput # "hp")
          BY <4>4 DEF Wanted
        <5>2. Wanted(r)' = (mixer.bass /\ Lfe' /\ WantedOutput' # "hp")
          BY <2>4, <4>4 DEF Wanted
        <5>3. Wanted(r)' = Wanted(r)
          BY <4>1, <5>1, <5>2
        <5>4. QED
          BY <2>3, <3>4, <5>3, Zenon
      <4>5. CASE r = "range"
        BY <4>1, <4>5 DEF Wanted
      <4>6. QED
        BY <2>6, <4>2, <4>3, <4>4, <4>5
    <3>5. QED
      BY <2>6, <3>2, <3>3, <3>4, Zenon DEF StillRight
  <2>7. "channels" # "auto" /\ "channels" # "pe" /\ "channels" # "out"
    OBVIOUS
  <2>8. QED
    BY <1>4, <2>1, <2>2, <2>5, <2>6, <2>7, NoneIs, OnePut
<1>7. QED
  BY <1>5, <1>6

\* The gain is written for the headphones; for the speakers it is fixed, and with the
\* automatic choice on it may be left as it is.
LEMMA GainPutFollows ==
  ASSUME FollowInv, GainPut
  PROVE  FollowInv'
<1>1. MixerOK
  BY Zenon DEF FollowInv
<1>2. ~Plain /\ Store("mixer", "gain", 1 - mixer.gain, IF mixer.out = "hp" THEN <<"gain_put">> ELSE <<>>)
  BY Zenon DEF GainPut
<1>3. PICK v : v = 1 - mixer.gain
  OBVIOUS
<1>4. /\ Fits("gain", v) /\ "gain" \in MixerFields /\ "mixer" \in OutputContexts /\ Affects("gain") = {"gain"}
      /\ "gain" # "auto" /\ "gain" # "pe" /\ "gain" # "out"
  BY DEF Fits, MixerFields, OutputContexts, Affects
<1>5. PICK p : p = (IF mixer.out = "hp" THEN <<"gain_put">> ELSE <<>>)
  OBVIOUS
<1>6. Store("mixer", "gain", v, p)
  BY <1>2, <1>3, <1>5, Zenon
<1>7. WantedOutput' = WantedOutput
  BY <1>4, <1>6, AskedStays
<1>8. CASE mixer.out = "hp"
  <2>1. p = <<"gain_put">>
    BY <1>5, <1>8, Zenon
  <2>2. Obeys(p, outCard) /\ ChooseFirst(p, outCard)
    BY <1>2, <2>1, PutsObey DEF Plain
  <2>3. p # <<>> /\ ~Has(p, "bass_put") /\ PendsIn(p, "gain", mixer'.pe, outCard)
    <3>1. Len(p) = 1 /\ p[1] = "gain_put"
      BY <2>1
    <3>2. WritesTo("gain_put", "gain", mixer'.pe, outCard)
      BY DEF WritesTo, RegisterOf
    <3>3. QED
      BY <2>1, <3>1, <3>2 DEF Has, PendsIn
  <2>4. QED
    BY <1>4, <1>6, <1>7, <1>8, <2>2, <2>3, OnePut
<1>9. CASE mixer.out # "hp"
  <2>1. p = <<>>
    BY <1>5, <1>9, Zenon
  <2>2. /\ Sets("gain", v) /\ outHw' = outHw /\ hpWork' = hpWork /\ missed' = missed
    BY <1>4, <1>6, PutIs, Zenon
  <2>3. outCard' = outCard /\ mixer'.auto = mixer.auto
    BY <2>2 DEF Sets, MixerFields
  <2>4. ASSUME StillRight("gain") PROVE Excused("gain")' \/ outHw'["gain"] = Wanted("gain")'
    <3>1. "gain" \in Selected /\ "gain" \in {"gain", "config", "xbass", "bass", "range"} /\ "gain" # "xbass"
      BY DEF Selected
    <3>2. CASE mixer.auto \/ Excused("gain")
      BY <2>2, <2>3, <3>1, <3>2, Zenon DEF Excused, Excepted, Stale
    <3>3. CASE ~mixer.auto /\ outHw["gain"] = Wanted("gain")
      <4>1. WantedOutput # "hp" /\ WantedOutput' # "hp"
        BY <1>7, <1>9, <3>3 DEF WantedOutput
      <4>2. Wanted("gain") = 2 /\ Wanted("gain")' = 2
        BY <4>1 DEF Wanted
      <4>3. QED
        BY <2>2, <3>3, <4>2, Zenon
    <3>4. QED
      BY <2>4, <3>2, <3>3, Zenon DEF StillRight
  <2>5. QED
    BY <1>4, <1>6, <1>7, <2>1, <2>4, NoneIs, OnePut
<1>10. QED
  BY <1>8, <1>9

\* A control of the speakers that is put while the headphones are in use: its register does
\* not matter to them, or a selection will write it.
LEMMA NotInUse ==
  ASSUME FollowInv, NEW r \in {"range", "bass"}, ~Plain, cur = "hp", ~overlap,
         outCard' = outCard, mixer'.auto = mixer.auto, mixer'.pe = mixer.pe, WantedOutput' = WantedOutput,
         hpWork' = hpWork, missed' = missed, outHw' = outHw, StillRight(r)
  PROVE  Excused(r)' \/ outHw'[r] = Wanted(r)' \/ Pends(r)
<1>1. MixerOK /\ TasksOK /\ OutputKnown
  BY Zenon DEF FollowInv
<1>2. CASE Stale
  <2>1. r \in Selected /\ r # "xbass"
    BY DEF Selected
  <2>2. QED
    BY <1>2, <2>1, Zenon DEF Excused, Stale
<1>3. CASE cur = WantedOutput
  <2>1. WantedOutput = "hp" /\ WantedOutput' = "hp"
    BY <1>3
  <2>2. CASE r = "range"
    BY <2>1, <2>2 DEF Wanted
  <2>3. CASE r = "bass" /\ outHw[r] = Wanted(r)
    <3>1. Wanted(r) = (mixer.bass /\ Lfe /\ WantedOutput # "hp")
      BY <2>3 DEF Wanted
    <3>2. Wanted(r)' = (mixer'.bass /\ Lfe' /\ WantedOutput' # "hp")
      BY <2>3 DEF Wanted
    <3>3. Wanted(r)' = Wanted(r)
      BY <2>1, <3>1, <3>2
    <3>4. QED
      BY <2>3, <3>3, Zenon
  <2>4. CASE Excused(r)
    <3>1. Plain' = Plain
      BY Zenon DEF Plain
    <3>2. QED
      BY <2>4, <3>1, Zenon DEF Excused, Excepted, Stale
  <2>5. QED
    BY <2>2, <2>3, <2>4, Zenon DEF StillRight
<1>4. ASSUME NEW d \in OutputContexts, Has(tasks[d].todo, "choose") PROVE Pends(r)
  <2>1. r \in Chosen(mixer.pe, outCard) /\ Obeys(tasks[d].todo, outCard)
    BY <1>1, TaskIs DEF Chosen, Plain
  <2>2. PendsIn(tasks[d].todo, r, mixer.pe, outCard)
    BY <1>4, <2>1, ChoicePends
  <2>3. QED
    BY <2>2, Zenon DEF Pends
<1>5. QED
  BY <1>1, <1>2, <1>3, <1>4, Zenon DEF OutputKnown

\* A put of one of the controls of the speakers
LEMMA SpeakerPut ==
  ASSUME FollowInv, NEW control, NEW s, (control = "range" /\ s = "range") \/ (control = "bass" /\ s = "bass_put"),
         ~Plain, NEW value, value \in BOOLEAN,
         NEW p, p = (IF cur = "spk" THEN <<s, "end">> ELSE <<>>), Store("mixer", control, value, p)
  PROVE  FollowInv'
<1>1. MixerOK
  BY Zenon DEF FollowInv
<1>2. /\ Fits(control, value) /\ control \in MixerFields /\ "mixer" \in OutputContexts
      /\ Affects(control) = {control} /\ control \in {"range", "bass"}
      /\ control # "auto" /\ control # "pe" /\ control # "out" /\ control # "gain"
  BY DEF Fits, MixerFields, OutputContexts, Affects
<1>3. WantedOutput' = WantedOutput
  BY <1>2, AskedStays
<1>4. CASE cur = "spk"
  <2>1. p = <<s, "end">>
    BY <1>4, Zenon
  <2>2. Obeys(p, outCard) /\ ChooseFirst(p, outCard)
    BY <2>1, PutsObey DEF Plain
  <2>3. p # <<>> /\ ~Has(p, "gain_put") /\ PendsIn(p, control, mixer'.pe, outCard)
    <3>1. Len(p) = 2 /\ p[1] = s /\ p[2] = "end"
      BY <2>1
    <3>2. WritesTo(s, control, mixer'.pe, outCard)
      BY DEF WritesTo, RegisterOf
    <3>3. QED
      BY <2>1, <3>1, <3>2 DEF Has, PendsIn
  <2>4. QED
    BY <1>2, <1>3, <1>4, <2>2, <2>3, OnePut
<1>5. CASE cur # "spk"
  <2>1. p = <<>> /\ cur = "hp"
    BY <1>1, <1>5 DEF MixerOK, Outputs
  <2>2. /\ Sets(control, value) /\ outHw' = outHw /\ hpWork' = hpWork /\ missed' = missed
    BY <1>2, PutIs, Zenon
  <2>3. outCard' = outCard /\ mixer'.auto = mixer.auto /\ mixer'.pe = mixer.pe
    BY <1>2, <2>2 DEF Sets, MixerFields
  <2>4. ASSUME ~overlap, StillRight(control) PROVE Excused(control)' \/ outHw'[control] = Wanted(control)' \/ Pends(control)
    BY <1>2, <1>3, <2>1, <2>2, <2>3, <2>4, NotInUse
  <2>5. QED
    BY <1>2, <1>3, <2>1, <2>4, NoneIs, OnePut
<1>6. QED
  BY <1>4, <1>5

LEMMA SpeakerPutsFollow ==
  ASSUME FollowInv, RangePut \/ BassPut
  PROVE  FollowInv'
<1>1. CASE RangePut
  <2>1. PICK p : p = (IF cur = "spk" THEN <<"range", "end">> ELSE <<>>)
    OBVIOUS
  <2>2. ~Plain /\ Store("mixer", "range", ~mixer.range, p)
    BY <1>1, <2>1, Zenon DEF RangePut
  <2>3. (~mixer.range) \in BOOLEAN
    OBVIOUS
  <2>4. QED
    BY <2>1, <2>2, <2>3, SpeakerPut
<1>2. CASE BassPut
  <2>1. PICK p : p = (IF cur = "spk" THEN <<"bass_put", "end">> ELSE <<>>)
    OBVIOUS
  <2>2. ~Plain /\ Store("mixer", "bass", ~mixer.bass, p)
    BY <1>2, <2>1, Zenon DEF BassPut
  <2>3. (~mixer.bass) \in BOOLEAN
    OBVIOUS
  <2>4. QED
    BY <2>1, <2>2, <2>3, SpeakerPut
<1>3. QED
  BY <1>1, <1>2

LEMMA SliderPutFollows ==
  ASSUME FollowInv, SliderPut
  PROVE  FollowInv'
<1>1. ~Plain /\ \E v \in 0..1 : Store("mixer", "slider", v, IF v = mixer.slider THEN <<>> ELSE <<"slider">>)
  BY Zenon DEF SliderPut
<1>2. PICK v \in 0..1 : Store("mixer", "slider", v, IF v = mixer.slider THEN <<>> ELSE <<"slider">>)
  BY <1>1
<1>3. /\ Fits("slider", v) /\ "slider" \in MixerFields /\ "mixer" \in OutputContexts /\ Affects("slider") = {"slider"}
      /\ "slider" # "auto" /\ "slider" # "pe" /\ "slider" # "out"
  BY DEF Fits, MixerFields, OutputContexts, Affects
<1>4. PICK p : p = (IF v = mixer.slider THEN <<>> ELSE <<"slider">>)
  OBVIOUS
<1>5. Store("mixer", "slider", v, p)
  BY <1>2, <1>4, Zenon
<1>6. WantedOutput' = WantedOutput
  BY <1>3, <1>5, AskedStays
<1>7. CASE v # mixer.slider
  <2>1. p = <<"slider">>
    BY <1>4, <1>7, Zenon
  <2>2. /\ Obeys(p, outCard) /\ ChooseFirst(p, outCard) /\ p # <<>>
        /\ ~Has(p, "gain_put") /\ ~Has(p, "bass_put") /\ PendsIn(p, "slider", mixer'.pe, outCard)
    BY <1>1, <2>1, OneIs
  <2>3. QED
    BY <1>3, <1>5, <1>6, <2>2, OnePut
<1>8. CASE v = mixer.slider
  <2>1. p = <<>>
    BY <1>4, <1>8, Zenon
  <2>2. Sets("slider", v) /\ outHw' = outHw
    BY <1>3, <1>5, PutIs, Zenon
  <2>3. mixer'.slider = mixer.slider
    BY <1>8, <2>2 DEF Sets
  <2>4. ASSUME StillRight("slider") PROVE outHw'["slider"] = Wanted("slider")'
    <3>1. ~Excused("slider")
      BY DEF Excused, Selected
    <3>2. QED
      BY <2>2, <2>3, <2>4, <3>1 DEF StillRight, Wanted
  <2>5. QED
    BY <1>3, <1>5, <1>6, <2>1, <2>4, NoneIs, OnePut
<1>9. QED
  BY <1>7, <1>8

LEMMA VolumePutFollows ==
  ASSUME FollowInv, VolumePut
  PROVE  FollowInv'
<1>1. MixerOK
  BY Zenon DEF FollowInv
<1>2. PICK p, v : p = <<"volume">> /\ v = mixer.out
  BY Zenon
<1>3. ~Plain /\ Store("mixer", "out", v, p)
  BY <1>2, Zenon DEF VolumePut
<1>4. /\ Fits("out", v) /\ "out" \in MixerFields /\ "mixer" \in OutputContexts /\ Affects("out") = {} /\ "out" # "auto"
  BY <1>1, <1>2 DEF Fits, MixerFields, OutputContexts, Affects, MixerOK
<1>5. WantedOutput' = WantedOutput
  BY <1>2, <1>3, <1>4, AskedStays
<1>6. Obeys(p, outCard) /\ ChooseFirst(p, outCard) /\ p # <<>> /\ ~Has(p, "gain_put") /\ ~Has(p, "bass_put")
  BY <1>2, <1>3, OneIs
<1>7. QED
  BY <1>3, <1>4, <1>5, <1>6, OnePut

-----------------------------------------------------------------------------

LEMMA FollowInit ==
  ASSUME OutputInit
  PROVE  FollowInv
<1>1. /\ mixer = [auto |-> FALSE, out |-> "spk", pe |-> Plain, xbass |-> TRUE, surround |-> FALSE,
                  channels |-> "2.0", gain |-> 0, range |-> TRUE, bass |-> FALSE, slider |-> 0]
      /\ cur = "spk" /\ outHw = Unset /\ zeroed = FALSE /\ blocked = {} /\ lost = OutRegisters
      /\ tasks = [c \in OutputContexts |-> [NoTask EXCEPT !.todo = IF c = "pm" THEN Bringup ELSE <<>>]]
  BY Zenon DEF OutputInit
<1>2. Part(Bringup, outCard) /\ Part(<<>>, outCard)
  BY FunctionsAre, LooseParts, Zenon
<1>3. ASSUME NEW c \in OutputContexts
      PROVE  /\ TaskShape(tasks[c]) /\ (c = "pm" => tasks[c].todo = Bringup) /\ (c # "pm" => tasks[c].todo = <<>>)
  BY <1>1 DEF TaskShape, TaskFields, NoTask
<1>4. \A c \in OutputContexts : Part(tasks[c].todo, outCard)
  BY <1>2, <1>3, Zenon
<1>5. MixerOK
  <2>1. /\ mixer.auto = FALSE /\ mixer.pe \in BOOLEAN /\ mixer.xbass = TRUE /\ mixer.surround = FALSE
        /\ mixer.range = TRUE /\ mixer.bass = FALSE
        /\ mixer = [f \in MixerFields |-> mixer[f]] /\ mixer.out \in Outputs /\ mixer.channels \in {"2.0", "5.1"}
        /\ cur \in Outputs /\ lost \subseteq OutRegisters
    BY <1>1 DEF MixerFields, Outputs, Plain
  <2>2. /\ mixer.auto \in BOOLEAN /\ mixer.pe \in BOOLEAN /\ mixer.xbass \in BOOLEAN
        /\ mixer.surround \in BOOLEAN /\ mixer.range \in BOOLEAN /\ mixer.bass \in BOOLEAN
    BY <2>1
  <2>3. QED
    BY <2>1, <2>2, Zenon DEF MixerOK
<1>6. TasksOK
  <2>1. HwShape(outHw)
    BY <1>1 DEF HwShape, Unset
  <2>2. tasks = [c \in OutputContexts |-> tasks[c]]
    BY <1>1
  <2>3. \A c \in OutputContexts : TaskShape(tasks[c]) /\ Obeys(tasks[c].todo, outCard)
    BY <1>3, <1>4, PartObeys, Zenon
  <2>4. QED
    BY <2>1, <2>2, <2>3, Zenon DEF TasksOK
<1>7. PlainOK
  <2>1. mixer.channels = "2.0" /\ NotOnPlain \subseteq lost
    BY <1>1 DEF NotOnPlain, OutRegisters, Selected
  <2>2. QED
    BY <1>1, <2>1, Zenon DEF PlainOK
<1>8. OutputKnown
  BY <1>1 DEF OutputKnown, WantedOutput
<1>9. AloneOK
  <2>1. Sole
    BY <1>3, Zenon DEF Sole
  <2>2. \A c \in OutputContexts : Current(tasks[c], outCard, cur, mixer)
    BY <1>4, PartObeys, Zenon DEF Part, Current
  <2>3. QED
    BY <2>1, <2>2, Zenon DEF AloneOK
<1>10. RegistersOK
  BY <1>1 DEF RegistersOK
<1>11. VolumeOK /\ RearOK
  BY <1>1 DEF VolumeOK, RearOK
<1>12. QED
  BY <1>5, <1>6, <1>7, <1>8, <1>9, <1>10, <1>11, Zenon DEF FollowInv

LEMMA FollowStutters ==
  ASSUME FollowInv, outputVars' = outputVars
  PROVE  FollowInv'
<1>1. /\ MixerOK /\ TasksOK /\ PlainOK /\ OutputKnown /\ AloneOK /\ RegistersOK /\ VolumeOK /\ RearOK
  BY Zenon DEF FollowInv
<1>2. /\ outCard' = outCard /\ mixer' = mixer /\ jacks' = jacks /\ cur' = cur /\ tasks' = tasks /\ outHw' = outHw
      /\ zeroed' = zeroed /\ hpWork' = hpWork /\ blocked' = blocked /\ lost' = lost /\ overlap' = overlap
      /\ missed' = missed /\ failed' = failed
  BY DEF outputVars
<1>3. Unmoved
  BY <1>2, Zenon DEF Unmoved
<1>4. MixerOK' /\ TasksOK' /\ PlainOK' /\ VolumeOK'
  <2>1. cur' \in Outputs /\ lost' \subseteq OutRegisters
    BY <1>1, <1>2 DEF MixerOK
  <2>2. MixerOK'
    BY <1>1, <1>2, <2>1, MixerStays, Zenon
  <2>3. TasksOK'
    BY <1>1, <1>2, Zenon DEF TasksOK
  <2>4. PlainOK' /\ VolumeOK'
    BY <1>1, <1>2, Zenon DEF PlainOK, VolumeOK, Plain
  <2>5. QED
    BY <2>2, <2>3, <2>4
<1>5. OutputKnown'
  <2>1. WantedOutput' = WantedOutput
    BY <1>2, WantedStays, Zenon
  <2>2. QED
    BY <1>1, <1>2, <2>1, Zenon DEF OutputKnown, Stale
<1>6. AloneOK' /\ RearOK'
  BY <1>1, <1>2, Zenon DEF AloneOK, Sole, RearOK
<1>7. RegistersOK'
  <2>1. ASSUME NEW r, Right(r) PROVE Right(r)'
    <3>1. outHw'[r] = outHw[r] /\ Pends(r)' = Pends(r)
      BY <1>2, Zenon DEF Pends
    <3>2. Wanted(r)' = Wanted(r) /\ Excused(r)' = Excused(r)
      BY <1>2, <1>3, <3>1, WantedIs, ExcusedIs, Zenon
    <3>3. QED
      BY <2>1, <3>1, <3>2, Zenon DEF Right
  <2>2. QED
    BY <1>1, <1>2, <2>1, Zenon DEF RegistersOK, Right
<1>8. QED
  BY <1>4, <1>5, <1>6, <1>7, Zenon DEF FollowInv

LEMMA FollowNext ==
  ASSUME FollowInv, [OutputNext]_outputVars
  PROVE  FollowInv'
<1>1. ASSUME NEW c \in OutputContexts, OutputPut(c) \/ PePut(c) PROVE FollowInv'
  BY <1>1, OutputPutFollows, PePutFollows, Zenon
<1>2. ASSUME NEW c \in OutputContexts, OutputStep(c) PROVE FollowInv'
  BY <1>2, ChooseFollows, PassFollows, WriteFollows, Zenon DEF OutputStep
<1>3. CASE AutoPut \/ EffectPut \/ ChannelsPut \/ GainPut
  BY <1>3, AutoPutFollows, EffectPutFollows, ChannelsPutFollows, GainPutFollows, Zenon
<1>4. CASE RangePut \/ BassPut \/ SliderPut \/ VolumePut
  BY <1>4, SpeakerPutsFollow, SliderPutFollows, VolumePutFollows, Zenon
<1>5. CASE JackEvent \/ HpWork \/ ResumeLoaded
  BY <1>5, JackFollows, WorkFollows, LoadedFollows, Zenon
<1>6. CASE ResumeReload
  <2>1. Reload(Bringup \o PeSwitchSet) /\ zeroed' = FALSE
    BY <1>6, Zenon DEF ResumeReload
  <2>2. Part(Bringup \o PeSwitchSet, outCard) /\ Has(Bringup \o PeSwitchSet, "choose")
    BY FunctionsAre
  <2>3. QED
    BY <2>1, <2>2, ReloadFollows, Zenon
<1>7. CASE outputVars' = outputVars
  BY <1>7, FollowStutters, Zenon
<1>8. QED
  BY <1>1, <1>2, <1>3, <1>4, <1>5, <1>6, <1>7, Zenon DEF OutputNext

\* Whatever is put, plugged, toggled, suspended and resumed, and in whatever order, every
\* register is right, or about to be written by what runs or is due.
THEOREM FollowInvariant == OutputSpec => []FollowInv
<1>1. OutputInit => FollowInv
  BY FollowInit
<1>2. FollowInv /\ [OutputNext]_outputVars => FollowInv'
  BY FollowNext
<1>3. QED
  BY <1>1, <1>2, PTL DEF OutputSpec

\* When all is settled, every register holds what the settings ask for, unless its command
\* failed or was left out, or two functions ran together; the DSP's own volume is as its flag
\* says, and a report held back has a work to come (ca0132_alt_select_out and its callers).
THEOREM OutputIsFollowed == OutputSpec => []OutputFollows
<1>1. FollowInv => OutputFollows
  <2>1. SUFFICES ASSUME FollowInv PROVE OutputFollows
    OBVIOUS
  <2>2. RegistersOK /\ VolumeOK /\ RearOK
    BY <2>1, Zenon DEF FollowInv
  <2>3. RegistersFollow
    <3>1. SUFFICES ASSUME Settled, ~overlap, NEW r \in OutRegisters \ lost
                   PROVE  Excepted(r) \/ outHw[r] = Wanted(r)
      BY Zenon DEF RegistersFollow
    <3>2. ~Stale /\ Quiet
      BY <3>1, Zenon DEF Settled, Stale
    <3>3. ~Pends(r)
      BY <3>2 DEF Pends, PendsIn, Quiet
    <3>4. QED
      BY <2>2, <3>1, <3>2, <3>3, Zenon DEF RegistersOK, Excused
  <2>4. VolumeAtUnity
    BY <2>2, Zenon DEF VolumeAtUnity, VolumeOK
  <2>5. RearReported
    <3>1. Quiet => \A c \in OutputContexts : ~Has(tasks[c].todo, "report")
      BY DEF Quiet, Has
    <3>2. QED
      BY <2>2, <3>1, Zenon DEF RearReported, RearOK
  <2>6. QED
    BY <2>3, <2>4, <2>5, Zenon DEF OutputFollows
<1>2. QED
  BY <1>1, FollowInvariant, PTL
=============================================================================
