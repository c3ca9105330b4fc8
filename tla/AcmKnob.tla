------------------------------- MODULE AcmKnob -------------------------------
(***************************************************************************)
(* The volume knob: ae9_acm_knob turns the detents the module reports into *)
(* volume points, two detents a point, through an accumulator that keeps   *)
(* the odd detent.  It then reads the Master level, adds the points and    *)
(* puts the sum through the mixer; other programs put theirs at any time,  *)
(* between the read and the put too.                                       *)
(***************************************************************************)
EXTENDS Integers

CONSTANTS
  MaxSteps,  \* 255 in the code (one byte): detents in one report
  MaxLevel,  \* 99 in the code: top of "Master Playback Volume"
  MaxTurned  \* bound: detents counted since the last change of direction

ASSUME KnobAssumption ==
  MaxSteps \in Nat \ {0} /\ MaxLevel \in Nat \ {0} /\ MaxTurned \in Nat

VARIABLES
  knob_dir, knob_acc,  \* ae9_knob_dir (0 is louder) and ae9_knob_acc
  level,               \* the Master level
  putting,             \* what ae9_acm_knob read and is about to put
  turned, moved        \* history: detents in this direction, points they made

vars == <<knob_dir, knob_acc, level, putting, turned, moved>>

Dirs == {0, 1}

\* A put under way: the turn it is for, whether that was a change of direction, the
\* level that was read and the one that will be put
PutType == [on : BOOLEAN, dir : Dirs, back : BOOLEAN, read : 0..MaxLevel, to : 0..MaxLevel]
NoPut == [on |-> FALSE, dir |-> 0, back |-> FALSE, read |-> 0, to |-> 0]

Init ==
  /\ knob_dir = 0 /\ knob_acc = 0
  /\ level \in 0..MaxLevel /\ putting = NoPut
  /\ turned = 0 /\ moved = 0

\* x / 2 of C: towards zero
Half(x) == IF x >= 0 THEN x \div 2 ELSE -((-x) \div 2)

\* Mutant of Clamp: there is no lower end.
Clamp_Top(x) == IF x > MaxLevel THEN MaxLevel ELSE x

Clamp(x) == IF x < 0 THEN 0 ELSE IF x > MaxLevel THEN MaxLevel ELSE x

Sign(dir) == IF dir = 1 THEN -1 ELSE 1

\* Mutant of FirstSteps: a single detent counts once in the new direction too.
FirstSteps_AsIs(dir, steps) == steps

\* On a change of direction a single detent counts as two
FirstSteps(dir, steps) == IF dir # knob_dir /\ steps = 1 THEN 2 ELSE steps

\* Mutant of Kept: the odd detent of the old direction is carried over.
Kept_All(dir) == knob_acc

\* ... and the odd detent of the old one is dropped
Kept(dir) == IF dir # knob_dir THEN Half(knob_acc) * 2 ELSE knob_acc

NewAcc(dir, steps)   == Kept(dir) + Sign(dir) * FirstSteps(dir, steps)
Delta(dir, steps) == Half(NewAcc(dir, steps))

\* One report with a detent in it; a point or more, and the level is read (v)
Turn(dir, steps) ==
  /\ ~putting.on
  /\ knob_dir' = dir
  /\ knob_acc' = NewAcc(dir, steps) - Delta(dir, steps) * 2
  /\ putting' = (IF Delta(dir, steps) = 0 THEN NoPut
                 ELSE [on |-> TRUE, dir |-> dir, back |-> dir # knob_dir, read |-> level,
                       to |-> Clamp(level + Delta(dir, steps))])
  /\ turned' = FirstSteps(dir, steps) + (IF dir # knob_dir THEN 0 ELSE turned)
  /\ moved' = Delta(dir, steps) + (IF dir # knob_dir THEN 0 ELSE moved)
  /\ UNCHANGED level

\* ... and what was made of it is put, whatever the level is by now; without a control
\* or memory for the value it is not
PutLevel ==
  /\ putting.on /\ putting' = NoPut
  /\ level' = putting.to
  /\ UNCHANGED <<knob_dir, knob_acc, turned, moved>>

DropLevel ==
  /\ putting.on /\ putting' = NoPut
  /\ UNCHANGED <<knob_dir, knob_acc, level, turned, moved>>

\* A put of "Master Playback Volume" by another program
Put ==
  /\ level' \in 0..MaxLevel
  /\ UNCHANGED <<knob_dir, knob_acc, putting, turned, moved>>

Next ==
  \/ \E dir \in Dirs, steps \in 1..MaxSteps :
       turned + steps <= MaxTurned /\ Turn(dir, steps)
  \/ PutLevel \/ DropLevel \/ Put

Spec == Init /\ [][Next]_vars

-----------------------------------------------------------------------------
(* Properties.                                                             *)

TypeOK ==
  /\ knob_dir \in Dirs /\ knob_acc \in -1..1
  /\ level \in 0..MaxLevel /\ putting \in PutType
  /\ turned \in Nat /\ moved \in Int

\* Two detents are one point: over any run of reports in one direction, in
\* whatever portions they come, no detent is lost and none counts twice; what
\* is not yet a point is the odd detent in the accumulator.
DetentsCounted == Sign(knob_dir) * turned = 2 * moved + knob_acc

\* A put moves the level the way the knob was turned
TheRightWay == Sign(putting.dir) * (level' - putting.read) >= 0
\* ... and moves it indeed, unless it is at its end
AtOnce == putting.read \in 1..(MaxLevel - 1) => level' # putting.read

\* A change of direction is always followed by a put, for a single detent too, and that
\* put moves the level at once, and no put of the knob moves it the wrong way (comment on
\* ae9_acm_knob).  Both are said of the level that was read: if nobody else has put one
\* since then it is the level there is; a put that came in between is overwritten, and a
\* turn to louder may then leave the level lower than it had just become.
MovesRightAway ==
  [][/\ \A dir \in Dirs, steps \in 1..MaxSteps :
          Turn(dir, steps) /\ dir # knob_dir => putting'.on
     /\ PutLevel => TheRightWay /\ (putting.back => AtOnce)]_vars
=============================================================================
