---------------------------- MODULE RegmapPm_proofs ----------------------------
(***************************************************************************)
(* Proofs about RegmapPm, for any finite set of threads.                   *)
(*                                                                         *)
(* No power reference is lost or dropped twice (RefsBalance): one is taken *)
(* and dropped by different functions, as in_pm or as the usage count,     *)
(* whichever is there at the time; what is kept is their sum.              *)
(*                                                                         *)
(* No update is lost (UpdatesKept).  A writer has regmap_lock and writes   *)
(* what the cache holds; since the last sync every half of the codec that  *)
(* differs from the cache is still due: by verbs on their way, or by a     *)
(* write that is tried again.  That a retry is not refused rests on the    *)
(* references: while the codec is not up, only threads that wait have one  *)
(* in the usage count, and all the others are in in_pm.                    *)
(***************************************************************************)
EXTENDS RegmapPm, FiniteSetTheorems, TLAPS

CallPlaces == {"idle", "try", "verbs", "up", "wait", "end", "down"}

\* c is the record of its fields
RecordsOf(c) ==
  [at : {c.at}, op : {c.op}, lock : {c.lock}, todo : {c.todo}, val : {c.val}, retried : {c.retried}]

\* A call's record, and which references go with which place
CallOK(c) ==
  /\ c \in RecordsOf(c)
  /\ c.at \in CallPlaces /\ c.lock \in {0, 1} /\ c.retried \in BOOLEAN
  /\ c.lock = 1 => c.at = "verbs"
  /\ c.at \in {"idle", "up", "wait"} => c.retried = FALSE

CallsOK ==
  /\ call = [t \in RegThreads |-> call[t]]
  /\ \A t \in RegThreads : CallOK(call[t])

\* A callback is under way only in a suspend or a resume.
CallbackOK ==
  /\ rpm \in {"active", "disabled", "suspended"} => cb = "none"
  /\ rpm = "suspending" => cb = "begun"

RefsInv ==
  /\ CallsOK /\ CallbackOK
  /\ in_pm \in Nat /\ usage_count \in Nat
  /\ RefsBalance

\* Thread t goes to a place, with or without the references; the others stay.
Goes(t, at, lock, retried) ==
  /\ CallsOK'
  /\ call'[t].at = at /\ call'[t].lock = lock /\ call'[t].retried = retried
  /\ \A u \in RegThreads \ {t} : call'[u] = call[u]

-----------------------------------------------------------------------------

\* Two sets that differ in one element at most.
LEMMA OneMoves ==
  ASSUME NEW S, NEW T, NEW x, IsFiniteSet(S), S \ {x} = T \ {x}
  PROVE  /\ Cardinality(S) \in Nat /\ Cardinality(T) \in Nat
         /\ Cardinality(T) = Cardinality(S) + (IF x \in T THEN 1 ELSE 0) - (IF x \in S THEN 1 ELSE 0)
         /\ x \in S => Cardinality(S) >= 1
<1>1. /\ IsFiniteSet(S \ {x}) /\ Cardinality(S \ {x}) \in Nat /\ Cardinality(S) \in Nat
      /\ Cardinality(S \ {x}) = IF x \in S THEN Cardinality(S) - 1 ELSE Cardinality(S)
  BY FS_RemoveElement, FS_CardinalityType
<1>2. /\ IsFiniteSet((S \ {x}) \cup {x}) /\ Cardinality((S \ {x}) \cup {x}) = Cardinality(S \ {x}) + 1
  BY <1>1, FS_AddElement
<1>3. CASE x \in T
  <2>1. T = (S \ {x}) \cup {x}
    BY <1>3
  <2>2. QED
    BY <1>1, <1>2, <1>3, <2>1
<1>4. CASE x \notin T
  <2>1. T = S \ {x}
    BY <1>4
  <2>2. QED
    BY <1>1, <1>4, <2>1
<1>5. QED
  BY <1>3, <1>4

\* What a step of one thread does to the two sets.
LEMMA SetsMove ==
  ASSUME NEW t \in RegThreads, NEW at, NEW lock, NEW retried \in BOOLEAN, CallsOK,
         Goes(t, at, lock, retried)
  PROVE  /\ Cardinality(Holders) \in Nat /\ Cardinality(Retriers) \in Nat
         /\ Cardinality(Holders') = Cardinality(Holders) + (IF lock = 1 THEN 1 ELSE 0)
                                      - (IF call[t].lock = 1 THEN 1 ELSE 0)
         /\ Cardinality(Retriers') = Cardinality(Retriers)
              + (IF at = "wait" \/ retried THEN 1 ELSE 0)
              - (IF call[t].at = "wait" \/ call[t].retried THEN 1 ELSE 0)
         /\ call[t].lock = 1 => Cardinality(Holders) >= 1
         /\ call[t].at = "wait" \/ call[t].retried => Cardinality(Retriers) >= 1
<1>1. IsFiniteSet(Holders) /\ IsFiniteSet(Retriers)
  BY FS_Subset, RegmapAssumption DEF Holders, Retriers
<1>2. /\ Holders \ {t} = Holders' \ {t}
      /\ t \in Holders <=> call[t].lock = 1
      /\ t \in Holders' <=> lock = 1
  BY DEF Goes, Holders
<1>3. /\ Retriers \ {t} = Retriers' \ {t}
      /\ t \in Retriers <=> (call[t].at = "wait" \/ call[t].retried)
      /\ t \in Retriers' <=> (at = "wait" \/ retried)
  BY DEF Goes, Retriers
<1>4. /\ Cardinality(Holders) \in Nat
      /\ Cardinality(Holders') = Cardinality(Holders) + (IF t \in Holders' THEN 1 ELSE 0)
                                   - (IF t \in Holders THEN 1 ELSE 0)
      /\ t \in Holders => Cardinality(Holders) >= 1
  BY <1>1, <1>2, OneMoves
<1>5. /\ Cardinality(Retriers) \in Nat
      /\ Cardinality(Retriers') = Cardinality(Retriers) + (IF t \in Retriers' THEN 1 ELSE 0)
                                    - (IF t \in Retriers THEN 1 ELSE 0)
      /\ t \in Retriers => Cardinality(Retriers) >= 1
  BY <1>1, <1>3, OneMoves
<1>6. QED
  BY <1>2, <1>3, <1>4, <1>5

-----------------------------------------------------------------------------
(* The common part of the steps of a thread.                               *)

\* 1 if a call at this place holds, or waits with, the reference of its retry
RetryRef(at, retried) == IF at = "wait" \/ retried THEN 1 ELSE 0

\* The calls of the other threads stay.
Others(t) ==
  /\ call' = [u \in RegThreads |-> call'[u]]
  /\ \A u \in RegThreads \ {t} : call'[u] = call[u]

\* No reference moves; the PM core stays where it is.
Unmoved == in_pm' = in_pm /\ usage_count' = usage_count
SamePm == rpm' = rpm /\ cb' = cb

\* A reference that is there can be dropped, one way or the other.
LEMMA MayDrop ==
  ASSUME in_pm \in Nat, usage_count \in Nat, in_pm + usage_count >= 1, PowerDownPm
  PROVE  /\ in_pm' \in Nat /\ usage_count' \in Nat
         /\ in_pm' + usage_count' = in_pm + usage_count - 1
BY DEF PowerDownPm

\* A thread that has a reference may drop one.
LEMMA ThreadHas ==
  ASSUME NEW t \in RegThreads, RefsInv, call[t].lock = 1 \/ call[t].retried
  PROVE  in_pm + usage_count >= 1
<1>1. IsFiniteSet(Holders) /\ IsFiniteSet(Retriers)
  BY FS_Subset, RegmapAssumption DEF Holders, Retriers
<1>2. /\ Cardinality(Holders) \in Nat /\ Cardinality(Retriers) \in Nat
      /\ t \in Holders => Cardinality(Holders) >= 1
      /\ t \in Retriers => Cardinality(Retriers) >= 1
  BY <1>1, OneMoves
<1>3. t \in Holders \/ t \in Retriers
  BY DEF Holders, Retriers
<1>4. in_pm + usage_count = Cardinality(Holders) + Cardinality(Retriers)
                            + (IF cb = "begun" THEN 1 ELSE 0)
  BY DEF RefsInv, RefsBalance
<1>5. QED
  BY <1>2, <1>3, <1>4

\* The call of thread t.
LEMMA CallOf ==
  ASSUME NEW t \in RegThreads, RefsInv
  PROVE  /\ CallOK(call[t]) /\ call[t] \in RecordsOf(call[t])
         /\ call[t].at \in CallPlaces /\ call[t].lock \in {0, 1} /\ call[t].retried \in BOOLEAN
         /\ call[t].lock = 1 => call[t].at = "verbs"
         /\ call[t].at \in {"idle", "up", "wait"} => call[t].retried = FALSE
BY DEF RefsInv, CallsOK, CallOK

\* A thread whose call becomes another one.
LEMMA Becomes ==
  ASSUME NEW t \in RegThreads, RefsInv, Others(t), CallOK(call'[t])
  PROVE  Goes(t, call'[t].at, call'[t].lock, call'[t].retried)
<1>1. \A u \in RegThreads : CallOK(call'[u])
  BY DEF RefsInv, CallsOK, Others
<1>2. CallsOK'
  BY <1>1 DEF CallsOK, CallOK, RecordsOf, Others
<1>3. QED
  BY <1>2 DEF Goes, Others

\* A step of a thread that takes what its new place says, and drops what its old
\* place had.
LEMMA ThreadStep ==
  ASSUME NEW t \in RegThreads, RefsInv, Others(t), CallOK(call'[t]), SamePm,
         in_pm' \in Nat, usage_count' \in Nat,
         NEW r, NEW r2, r = RetryRef(call[t].at, call[t].retried),
         r2 = RetryRef(call'[t].at, call'[t].retried),
         in_pm' + usage_count' = in_pm + usage_count + (call'[t].lock - call[t].lock) + (r2 - r)
  PROVE  RefsInv'
<1>1. Goes(t, call'[t].at, call'[t].lock, call'[t].retried) /\ CallsOK
      /\ call'[t].retried \in BOOLEAN
  BY Becomes DEF RefsInv, CallOK
<1>2. CallsOK' /\ CallbackOK'
  BY <1>1 DEF Goes, RefsInv, CallbackOK, SamePm
<1>3. RefsBalance'
  <2> DEFINE b  == IF cb = "begun" THEN 1 ELSE 0
             h  == Cardinality(Holders)
             k  == Cardinality(Retriers)
             l  == call[t].lock
             l2 == call'[t].lock
  <2>1. /\ b \in Int /\ l \in {0, 1} /\ l2 \in {0, 1} /\ r \in Int /\ r2 \in Int
        /\ in_pm \in Int /\ usage_count \in Int
    BY DEF RefsInv, CallsOK, CallOK, RetryRef
  <2>2. in_pm + usage_count = h + k + b
    BY DEF RefsInv, RefsBalance
  <2>3. /\ h \in Int /\ k \in Int
        /\ Cardinality(Holders') = h + (IF l2 = 1 THEN 1 ELSE 0) - (IF l = 1 THEN 1 ELSE 0)
        /\ Cardinality(Retriers') = k + r2 - r
    BY <1>1, SetsMove DEF RetryRef
  <2>4. Cardinality(Holders') = h + l2 - l
    <3> HIDE DEF h, l, l2
    <3>1. QED
      BY <2>1, <2>3
  <2>5. in_pm' + usage_count' = (h + l2 - l) + (k + r2 - r) + b
    <3>1. in_pm' + usage_count' = in_pm + usage_count + (l2 - l) + (r2 - r)
      OBVIOUS
    <3> HIDE DEF b, h, k, l, l2
    <3>2. QED
      BY <2>1, <2>2, <2>3, <3>1
  <2>6. QED
    BY <2>3, <2>4, <2>5 DEF RefsBalance, SamePm
<1>4. QED
  BY <1>2, <1>3 DEF RefsInv

\* A step that takes and drops none.
LEMMA NoneTaken ==
  ASSUME NEW t \in RegThreads, RefsInv, Others(t), CallOK(call'[t]), SamePm, Unmoved,
         call'[t].lock = call[t].lock,
         RetryRef(call'[t].at, call'[t].retried) = RetryRef(call[t].at, call[t].retried)
  PROVE  RefsInv'
<1> DEFINE r == RetryRef(call[t].at, call[t].retried)
           l == call[t].lock
<1>1. r \in Int /\ l \in Int /\ in_pm \in Nat /\ usage_count \in Nat
  BY DEF RetryRef, RefsInv, CallsOK, CallOK
<1>2. in_pm' + usage_count' = in_pm + usage_count + (l - l) + (r - r)
  <2>1. in_pm' = in_pm /\ usage_count' = usage_count
    BY DEF Unmoved
  <2> HIDE DEF r, l
  <2>2. QED
    BY <1>1, <2>1
<1>3. r = RetryRef(call'[t].at, call'[t].retried) /\ l = call'[t].lock
  OBVIOUS
<1> HIDE DEF r
<1>4. r = RetryRef(call[t].at, call[t].retried)
  BY DEF r
<1>5. in_pm' \in Nat /\ usage_count' \in Nat
  BY <1>1 DEF Unmoved
<1>6. QED
  BY <1>1, <1>2, <1>3, <1>4, <1>5, ThreadStep

-----------------------------------------------------------------------------
(* The actions.                                                            *)

\* A call without references.
LEMMA FreshOK ==
  ASSUME NEW c, c \in RecordsOf(c), c.at \in {"idle", "try"}, c.lock = 0, c.retried = FALSE
  PROVE  CallOK(c)
<1>1. c.at \in CallPlaces
  BY DEF CallPlaces
<1>2. c.lock \in {0, 1} /\ ~(c.lock = 1)
  OBVIOUS
<1>3. c.retried \in BOOLEAN
  BY Zenon
<1>4. QED
  BY <1>1, <1>2, <1>3, Zenon DEF CallOK

\* A call on its way through the verbs.
LEMMA AccessOK ==
  ASSUME NEW c, NEW k, CallOK(c), k \in RecordsOf(k), k.at \in {"verbs", "end"},
         k.lock \in {0, 1}, k.at = "verbs" \/ k.lock = 0, k.retried = c.retried
  PROVE  CallOK(k)
<1>1. k.at \in CallPlaces /\ k.at \notin {"idle", "up", "wait"} /\ (k.lock = 1 => k.at = "verbs")
  BY DEF CallPlaces
<1>2. k.retried \in BOOLEAN
  BY DEF CallOK
<1>3. QED
  BY <1>1, <1>2, Zenon DEF CallOK

\* RetryRef is 0 or 1.
LEMMA RetryRefs ==
  ASSUME NEW at, NEW retried
  PROVE  RetryRef(at, retried) \in {0, 1}
BY DEF RetryRef

\* A call begins without references.
LEMMA BeginKeeps ==
  ASSUME NEW t \in RegThreads, NEW op \in Ops, RefsInv, BeginCall(t, op)
  PROVE  RefsInv'
<1>1. call[t].at = "idle" /\ call[t].retried = FALSE /\ call[t].lock = 0
  BY CallOf DEF BeginCall
<1>2. /\ call'[t] = [Idling EXCEPT !.at = "try", !.op = op]
      /\ Others(t) /\ SamePm /\ Unmoved
  BY DEF BeginCall, RefsInv, CallsOK, Others, SamePm, Unmoved
<1>3. /\ call'[t] \in RecordsOf(call'[t]) /\ call'[t].at = "try" /\ call'[t].lock = 0
      /\ call'[t].retried = FALSE
  BY <1>2 DEF Idling, RecordsOf
<1>4. CallOK(call'[t])
  BY <1>3, FreshOK
<1>5. RetryRef(call'[t].at, call'[t].retried) = RetryRef(call[t].at, call[t].retried)
  BY <1>1, <1>3 DEF RetryRef
<1>6. QED
  BY <1>1, <1>2, <1>3, <1>4, <1>5, NoneTaken

\* The tries that end, or go to power up, without a reference.
LEMMA TriesKeep ==
  ASSUME NEW t \in RegThreads, RefsInv, TrySkip(t) \/ TryOverwriting(t) \/ TryAgain(t)
  PROVE  RefsInv'
<1>1. PICK at \in {"end", "up", "down"} :
        /\ call[t].at = "try" /\ (at = "up" => ~call[t].retried)
        /\ call' = [call EXCEPT ![t] = [call[t] EXCEPT !.at = at]]
        /\ SamePm /\ Unmoved
  BY DEF TrySkip, TryOverwriting, TryAgain, SamePm, Unmoved
<1>2. call'[t] = [call[t] EXCEPT !.at = at] /\ Others(t)
  BY <1>1 DEF RefsInv, CallsOK, Others
<1>3. /\ call'[t] \in RecordsOf(call'[t]) /\ call'[t].at = at
      /\ call'[t].lock = call[t].lock /\ call'[t].retried = call[t].retried
  BY <1>2, CallOf DEF RecordsOf
<1>4. CallOK(call'[t])
  BY <1>1, <1>3, CallOf DEF CallOK, CallPlaces
<1>5. RetryRef(call'[t].at, call'[t].retried) = RetryRef(call[t].at, call[t].retried)
  BY <1>1, <1>3 DEF RetryRef
<1>6. QED
  BY <1>1, <1>2, <1>3, <1>4, <1>5, NoneTaken

\* Verbs, sent or failed, leave the references alone.
LEMMA VerbsKeep ==
  ASSUME NEW t \in RegThreads, RefsInv, Verb(t) \/ VerbFails(t)
  PROVE  RefsInv'
<1>1. PICK todo : /\ call' = [call EXCEPT ![t] = [call[t] EXCEPT !.todo = todo]]
                  /\ SamePm /\ Unmoved
  <2>1. CASE Verb(t)
    <3>1. /\ call' = [call EXCEPT ![t] = [call[t] EXCEPT !.todo = call[t].todo \ NextHalves(t)]]
          /\ SamePm /\ Unmoved
      BY <2>1 DEF Verb, SamePm, Unmoved
    <3>2. QED
      BY <3>1
  <2>2. CASE VerbFails(t)
    <3>1. /\ call' = [call EXCEPT ![t] = [call[t] EXCEPT !.todo = {}]]
          /\ SamePm /\ Unmoved
      BY <2>2 DEF VerbFails, SamePm, Unmoved
    <3>2. QED
      BY <3>1
  <2>3. QED
    BY <2>1, <2>2
<1>2. call'[t] = [call[t] EXCEPT !.todo = todo] /\ Others(t)
  BY <1>1 DEF RefsInv, CallsOK, Others
<1>3. /\ call'[t] \in RecordsOf(call'[t]) /\ call'[t].at = call[t].at
      /\ call'[t].lock = call[t].lock /\ call'[t].retried = call[t].retried
  BY <1>2, CallOf DEF RecordsOf
<1>4. CallOK(call'[t])
  BY <1>3, CallOf DEF CallOK
<1>5. QED
  BY <1>1, <1>2, <1>3, <1>4, NoneTaken

\* Who waited for the codec keeps its reference for the retry.
LEMMA PoweredUpKeeps ==
  ASSUME NEW t \in RegThreads, RefsInv, PoweredUp(t)
  PROVE  RefsInv'
<1>1. /\ call[t].at = "wait" /\ SamePm /\ Unmoved
      /\ call'[t] = [call[t] EXCEPT !.at = "try", !.retried = TRUE] /\ Others(t)
  BY DEF PoweredUp, RefsInv, CallsOK, SamePm, Unmoved, Others
<1>2. /\ call'[t] \in RecordsOf(call'[t]) /\ call'[t].at = "try"
      /\ call'[t].lock = call[t].lock /\ call'[t].retried = TRUE
  BY <1>1, CallOf DEF RecordsOf
<1>3. CallOK(call'[t])
  BY <1>1, <1>2, CallOf DEF CallOK, CallPlaces
<1>4. RetryRef(call'[t].at, call'[t].retried) = RetryRef(call[t].at, call[t].retried)
  BY <1>1, <1>2 DEF RetryRef
<1>5. QED
  BY <1>1, <1>2, <1>3, <1>4, NoneTaken

\* The reference of codec_pm_lock: taken if the codec can be kept up, ...
LEMMA KeptKeeps ==
  ASSUME NEW t \in RegThreads, RefsInv, TryKept(t)
  PROVE  RefsInv'
<1>1. /\ call[t].at = "try" /\ Kept \in {0, 1} /\ Others(t) /\ SamePm
      /\ call'[t] = [call[t] EXCEPT !.at = "verbs", !.lock = Kept, !.todo = Halves,
                                    !.val = Wanted(call[t].op)]
  <2>1. /\ call[t].at = "try" /\ Kept >= 0 /\ SamePm
        /\ call' = [call EXCEPT ![t] = [call[t] EXCEPT !.at = "verbs", !.lock = Kept,
                                                      !.todo = Halves, !.val = Wanted(call[t].op)]]
    BY DEF TryKept, SamePm
  <2>2. Kept \in {0, 1}
    BY <2>1 DEF Kept
  <2>3. call = [u \in RegThreads |-> call[u]]
    BY DEF RefsInv, CallsOK
  <2>4. QED
    BY <2>1, <2>2, <2>3 DEF Others
<1>2. /\ call'[t] \in RecordsOf(call'[t]) /\ call'[t].at = "verbs" /\ call'[t].lock = Kept
      /\ call'[t].retried = call[t].retried
  BY <1>1, CallOf DEF RecordsOf
<1>3. CallOK(call'[t])
  BY <1>1, <1>2, CallOf, AccessOK
<1>4. in_pm' \in Nat /\ usage_count' \in Nat /\ in_pm' + usage_count' = in_pm + usage_count + Kept
  <2>1. CASE Kept = 1
    <3>1. KeepPowerUp
      BY <2>1 DEF TryKept
    <3>2. QED
      BY <2>1, <3>1 DEF KeepPowerUp, RefsInv
  <2>2. CASE Kept = 0
    <3>1. UNCHANGED <<in_pm, usage_count>>
      BY <2>2 DEF TryKept
    <3>2. QED
      BY <2>2, <3>1 DEF RefsInv
  <2>3. QED
    BY <1>1, <2>1, <2>2
<1> DEFINE r == RetryRef(call[t].at, call[t].retried)
<1>5. r = RetryRef(call'[t].at, call'[t].retried) /\ r \in Int /\ call[t].lock = 0
  <2>1. r = RetryRef(call'[t].at, call'[t].retried)
    BY <1>1, <1>2 DEF RetryRef
  <2>2. r \in Int
    BY RetryRefs
  <2>3. call[t].lock = 0
    BY <1>1, CallOf
  <2>4. QED
    BY <2>1, <2>2, <2>3
<1>6. in_pm' + usage_count' = in_pm + usage_count + (call'[t].lock - call[t].lock) + (r - r)
  <2> HIDE DEF r
  <2>1. QED
    BY <1>1, <1>2, <1>4, <1>5 DEF RefsInv
<1>7. r = RetryRef(call[t].at, call[t].retried)
  OBVIOUS
<1> HIDE DEF r
<1>8. QED
  BY <1>1, <1>3, <1>4, <1>5, <1>6, <1>7, ThreadStep

\* ... and dropped with the lock.
LEMMA DoneKeeps ==
  ASSUME NEW t \in RegThreads, RefsInv, AccessDone(t)
  PROVE  RefsInv'
<1>1. /\ call[t].at = "verbs" /\ Others(t) /\ SamePm
      /\ call'[t] = [call[t] EXCEPT !.at = "end", !.lock = 0]
  BY DEF AccessDone, RefsInv, CallsOK, Others, SamePm
<1>2. /\ call'[t] \in RecordsOf(call'[t]) /\ call'[t].at = "end" /\ call'[t].lock = 0
      /\ call'[t].retried = call[t].retried
  BY <1>1, CallOf DEF RecordsOf
<1>3. CallOK(call'[t])
  BY <1>2, CallOf, AccessOK
<1>4. /\ in_pm' \in Nat /\ usage_count' \in Nat /\ call[t].lock \in {0, 1}
      /\ in_pm' + usage_count' = in_pm + usage_count - call[t].lock
  <2>1. CASE call[t].lock = 1
    <3>1. PowerDownPm /\ in_pm + usage_count >= 1
      BY <2>1, ThreadHas DEF AccessDone, PmUnlock
    <3>2. QED
      BY <2>1, <3>1, MayDrop DEF RefsInv
  <2>2. CASE call[t].lock = 0
    <3>1. UNCHANGED <<in_pm, usage_count>>
      BY <2>2 DEF AccessDone, PmUnlock
    <3>2. QED
      BY <2>2, <3>1 DEF RefsInv
  <2>3. QED
    BY <2>1, <2>2, CallOf
<1> DEFINE r == RetryRef(call[t].at, call[t].retried)
<1>5. r = RetryRef(call'[t].at, call'[t].retried) /\ r \in Int
  BY <1>1, <1>2, CallOf DEF RetryRef
<1>6. in_pm' + usage_count' = in_pm + usage_count + (call'[t].lock - call[t].lock) + (r - r)
  <2> HIDE DEF r
  <2>1. QED
    BY <1>2, <1>4, <1>5 DEF RefsInv
<1>7. r = RetryRef(call[t].at, call[t].retried)
  OBVIOUS
<1> HIDE DEF r
<1>8. QED
  BY <1>1, <1>3, <1>4, <1>5, <1>6, <1>7, ThreadStep

\* The reference of the retry: taken by snd_hdac_power_up_pm, ...
LEMMA PowerUpKeeps ==
  ASSUME NEW t \in RegThreads, RefsInv, PowerUpPm(t)
  PROVE  RefsInv'
<1>1. /\ call[t].at = "up" /\ Others(t) /\ SamePm
      /\ \/ call'[t] = [call[t] EXCEPT !.at = "try", !.retried = TRUE]
         \/ call'[t] = [call[t] EXCEPT !.at = "wait"]
  BY DEF PowerUpPm, RefsInv, CallsOK, Others, SamePm
<1>2. /\ call'[t] \in RecordsOf(call'[t]) /\ call'[t].lock = call[t].lock
      /\ \/ call'[t].at = "try" /\ call'[t].retried = TRUE
         \/ call'[t].at = "wait" /\ call'[t].retried = call[t].retried
  <2>1. CASE call'[t] = [call[t] EXCEPT !.at = "try", !.retried = TRUE]
    BY <2>1, CallOf DEF RecordsOf
  <2>2. CASE call'[t] = [call[t] EXCEPT !.at = "wait"]
    BY <2>2, CallOf DEF RecordsOf
  <2>3. QED
    BY <1>1, <2>1, <2>2
<1>3. CallOK(call'[t])
  <2>1. call[t].lock = 0 /\ call[t].retried = FALSE
    BY <1>1, CallOf
  <2>2. call'[t].at \in CallPlaces /\ call'[t].lock \in {0, 1} /\ ~(call'[t].lock = 1)
    BY <1>2, <2>1 DEF CallPlaces
  <2>3. call'[t].retried \in BOOLEAN
    BY <1>2, <2>1, Zenon
  <2>4. call'[t].at \in {"idle", "up", "wait"} => call'[t].retried = FALSE
    BY <1>2, <2>1
  <2>5. QED
    BY <1>2, <2>2, <2>3, <2>4, Zenon DEF CallOK
<1>4. /\ in_pm' \in Nat /\ usage_count' \in Nat
      /\ in_pm' + usage_count' = in_pm + usage_count + 1
  BY DEF PowerUpPm, RefsInv
<1>5. /\ 0 = RetryRef(call[t].at, call[t].retried)
      /\ 1 = RetryRef(call'[t].at, call'[t].retried)
      /\ call'[t].lock \in Int /\ call'[t].lock = call[t].lock
  <2>1. call[t].retried = FALSE
    BY <1>1, CallOf
  <2>2. 0 = RetryRef(call[t].at, call[t].retried)
    BY <1>1, <2>1 DEF RetryRef
  <2>3. 1 = RetryRef(call'[t].at, call'[t].retried)
    BY <1>2 DEF RetryRef
  <2>4. call'[t].lock = call[t].lock
    BY <1>2
  <2>5. call[t].lock \in {0, 1}
    BY CallOf
  <2>6. QED
    BY <2>2, <2>3, <2>4, <2>5
<1> DEFINE l == call[t].lock
<1>6. in_pm' + usage_count' = in_pm + usage_count + (call'[t].lock - l) + (1 - 0)
  <2>1. l \in Int /\ call'[t].lock = l /\ in_pm \in Int /\ usage_count \in Int
    BY <1>5 DEF RefsInv
  <2>2. call'[t].lock - l = 0 /\ 1 - 0 = 1
    <3> HIDE DEF l
    <3>1. QED
      BY <2>1
  <2>3. in_pm' + usage_count' = in_pm + usage_count + 0 + 1
    <3>1. in_pm + usage_count + 1 = in_pm + usage_count + 0 + 1
      BY <2>1
    <3>2. QED
      BY <1>4, <3>1, Zenon
  <2> HIDE DEF l
  <2>4. QED
    BY <2>2, <2>3
<1>7. QED
  BY <1>1, <1>3, <1>4, <1>5, <1>6, ThreadStep

\* ... and dropped when the call ends.
LEMMA EndKeeps ==
  ASSUME NEW t \in RegThreads, RefsInv, EndCall(t)
  PROVE  RefsInv'
<1>1. /\ call[t].at \in {"end", "down"} /\ Others(t) /\ SamePm /\ call'[t] = Idling
  BY DEF EndCall, RefsInv, CallsOK, Others, SamePm
<1>2. /\ call'[t] \in RecordsOf(call'[t]) /\ call'[t].at = "idle" /\ call'[t].lock = 0
      /\ call'[t].retried = FALSE
  BY <1>1 DEF Idling, RecordsOf
<1>3. CallOK(call'[t])
  BY <1>2, FreshOK
<1> DEFINE r == RetryRef(call[t].at, call[t].retried)
<1>4. /\ in_pm' \in Nat /\ usage_count' \in Nat
      /\ in_pm' + usage_count' = in_pm + usage_count - r
  <2>1. CASE call[t].retried
    <3>1. PowerDownPm /\ in_pm + usage_count >= 1 /\ r = 1
      BY <2>1, ThreadHas DEF EndCall, RetryRef
    <3>2. QED
      BY <3>1, MayDrop DEF RefsInv
  <2>2. CASE ~call[t].retried
    <3>1. UNCHANGED <<in_pm, usage_count>> /\ r = 0
      BY <1>1, <2>2 DEF EndCall, RetryRef
    <3>2. QED
      BY <3>1 DEF RefsInv
  <2>3. QED
    BY <2>1, <2>2
<1>5. /\ r = RetryRef(call[t].at, call[t].retried) /\ r \in Int
      /\ 0 = RetryRef(call'[t].at, call'[t].retried)
      /\ call[t].lock = 0
  <2>1. r \in Int
    BY RetryRefs
  <2>2. 0 = RetryRef(call'[t].at, call'[t].retried)
    BY <1>2 DEF RetryRef
  <2>3. call[t].lock = 0
    BY <1>1, CallOf
  <2>4. QED
    BY <2>1, <2>2, <2>3
<1> HIDE DEF r
<1>6. in_pm' + usage_count' = in_pm + usage_count + (call'[t].lock - call[t].lock) + (0 - r)
  BY <1>2, <1>4, <1>5 DEF RefsInv
<1>7. QED
  BY <1>1, <1>3, <1>4, <1>5, <1>6, ThreadStep

\* The PM core: a callback has a reference from its beginning to its end.
LEMMA PmKeeps ==
  ASSUME RefsInv, SuspendBegin \/ PmCore
  PROVE  RefsInv'
<1> DEFINE h == Cardinality(Holders)
           k == Cardinality(Retriers)
           b == IF cb = "begun" THEN 1 ELSE 0
           b2 == IF cb' = "begun" THEN 1 ELSE 0
<1>1. h \in Nat /\ k \in Nat
  <2>1. IsFiniteSet(Holders) /\ IsFiniteSet(Retriers)
    BY FS_Subset, RegmapAssumption DEF Holders, Retriers
  <2>2. QED
    BY <2>1, FS_CardinalityType
<1>2. call' = call
  BY DEF SuspendBegin, PmCore, SuspendEnd, ResumeBegin, RegmapSync, ResumeEnd
<1>3. Holders' = Holders /\ Retriers' = Retriers /\ CallsOK'
  BY <1>2 DEF Holders, Retriers, RefsInv, CallsOK, CallOK, RecordsOf
<1>4. in_pm \in Nat /\ usage_count \in Nat /\ in_pm + usage_count = h + k + b
  BY DEF RefsInv, RefsBalance
<1>5. /\ in_pm' \in Nat /\ usage_count' \in Nat
      /\ in_pm' + usage_count' = h + k + b2
      /\ CallbackOK'
  <2>1. CASE SuspendBegin \/ ResumeBegin
    <3>1. /\ cb = "none" /\ cb' = "begun" /\ rpm' \in {"suspending", "resuming"}
          /\ in_pm' = in_pm + 1 /\ usage_count' = usage_count
      BY <2>1 DEF SuspendBegin, ResumeBegin, RefsInv, CallbackOK
    <3>2. b = 0 /\ b2 = 1 /\ CallbackOK'
      BY <3>1 DEF CallbackOK
    <3> HIDE DEF h, k, b, b2
    <3>3. QED
      BY <1>1, <1>4, <3>1, <3>2
  <2>2. CASE SuspendEnd \/ RegmapSync
    <3>1. /\ cb = "begun" /\ PowerDownPm /\ cb' \in {"none", "left"}
          /\ \/ rpm' = "suspended" /\ cb' = "none"
             \/ rpm' = "resuming"
      BY <2>2 DEF SuspendEnd, RegmapSync
    <3>2. b = 1 /\ b2 = 0 /\ CallbackOK'
      BY <3>1 DEF CallbackOK
    <3>3. in_pm + usage_count >= 1
      <4> HIDE DEF h, k, b
      <4>1. QED
        BY <1>1, <1>4, <3>2
    <3>4. /\ in_pm' \in Nat /\ usage_count' \in Nat
          /\ in_pm' + usage_count' = (in_pm + usage_count) - 1
      <4>1. in_pm \in Nat /\ usage_count \in Nat
        BY <1>4
      <4>2. /\ in_pm' \in Nat /\ usage_count' \in Nat
            /\ in_pm' + usage_count' = in_pm + usage_count - 1
        BY <3>1, <3>3, <4>1, MayDrop
      <4>3. in_pm + usage_count - 1 = (in_pm + usage_count) - 1
        BY <4>1
      <4>4. QED
        BY <4>2, <4>3
    <3> HIDE DEF h, k, b, b2
    <3>5. in_pm' + usage_count' = h + k + b2
      <4>1. b = 1 /\ b2 = 0
        BY <3>2
      <4>2. in_pm + usage_count = h + k + 1
        BY <1>4, <4>1
      <4>3. in_pm' + usage_count' = (h + k + 1) - 1
        BY <3>4, <4>2
      <4>4. QED
        BY <1>1, <4>1, <4>3
    <3>6. QED
      BY <3>2, <3>4, <3>5
  <2>3. CASE ResumeEnd
    <3>1. /\ cb = "left" /\ cb' = "none" /\ rpm' = "active"
          /\ in_pm' = in_pm /\ usage_count' = usage_count
      BY <2>3 DEF ResumeEnd
    <3>2. b = 0 /\ b2 = 0 /\ CallbackOK'
      BY <3>1 DEF CallbackOK
    <3> HIDE DEF h, k, b, b2
    <3>3. QED
      BY <1>1, <1>4, <3>1, <3>2
  <2>4. QED
    BY <2>1, <2>2, <2>3 DEF PmCore
<1>6. QED
  BY <1>3, <1>5 DEF RefsInv, RefsBalance

-----------------------------------------------------------------------------

\* The places, the callback and the balance hold from the beginning on, for any
\* finite set of threads and any number of calls, failures and suspends
\* (regmap.c, device.c).
THEOREM RefsInvariant == RegmapSpec => []RefsInv
<1>1. RegmapInit => RefsInv
  <2> SUFFICES ASSUME RegmapInit PROVE RefsInv
    OBVIOUS
  <2>1. CallsOK
    <3>1. \A t \in RegThreads : call[t] = Idling
      BY DEF RegmapInit
    <3>2. /\ Idling \in RecordsOf(Idling) /\ Idling.at = "idle" /\ Idling.lock = 0
          /\ Idling.retried = FALSE
      BY DEF Idling, RecordsOf
    <3>4. CallOK(Idling)
      BY <3>2, FreshOK
    <3>5. call = [t \in RegThreads |-> call[t]]
      BY DEF RegmapInit
    <3>6. QED
      BY <3>1, <3>4, <3>5 DEF CallsOK
  <2>2. Holders = {} /\ Retriers = {}
    BY DEF RegmapInit, Holders, Retriers, Idling
  <2>3. Cardinality(Holders) = 0 /\ Cardinality(Retriers) = 0
    BY <2>2, FS_EmptySet
  <2>4. QED
    BY <2>1, <2>3 DEF RegmapInit, RefsInv, CallbackOK, RefsBalance
<1>2. RefsInv /\ [RegmapNext]_regmapVars => RefsInv'
  <2> SUFFICES ASSUME RefsInv, [RegmapNext]_regmapVars PROVE RefsInv'
    OBVIOUS
  <2>1. ASSUME NEW t \in RegThreads, RegThread(t) PROVE RefsInv'
    BY <2>1, TriesKeep, KeptKeeps, VerbsKeep, DoneKeeps, PowerUpKeeps, PoweredUpKeeps, EndKeeps
       DEF RegThread
  <2>2. ASSUME NEW t \in RegThreads, NEW op \in Ops, BeginCall(t, op) PROVE RefsInv'
    BY <2>2, BeginKeeps
  <2>3. CASE SuspendBegin \/ PmCore
    BY <2>3, PmKeeps
  <2>4. CASE UNCHANGED regmapVars
    BY <2>4 DEF regmapVars, RefsInv, CallsOK, CallOK, RecordsOf, CallbackOK, RefsBalance, Holders, Retriers
  <2>5. QED
    BY <2>1, <2>2, <2>3, <2>4 DEF RegmapNext
<1>3. QED
  BY <1>1, <1>2, PTL DEF RegmapSpec

\* No power reference is lost or dropped twice, whatever fails, although one may
\* be taken as in_pm and dropped as the usage count (snd_hdac_power_down_pm).
THEOREM RefsAreBalanced == RegmapSpec => []RefsBalance
<1>1. RefsInv => RefsBalance
  BY DEF RefsInv
<1>2. QED
  BY <1>1, RefsInvariant, PTL

-----------------------------------------------------------------------------
(* No update is lost.                                                      *)

\* Those that wait for the codec with a run-time reference, and while the codec is
\* not up only they have one: every other reference is in in_pm, so that who
\* retries can still have the codec kept up.
Waiters == {t \in RegThreads : call[t].at = "wait"}
IsDown == rpm \in {"suspending", "suspended", "resuming"}
WaitersInv ==
  /\ usage_count >= Cardinality(Waiters)
  /\ IsDown => usage_count = Cardinality(Waiters)

\* A writer has the lock, and writes what the cache holds.
Writing ==
  \A t \in RegThreads :
    call[t].at = "verbs" => reg_lock = t /\ cache # NotCached /\ call[t].val = cache

\* The codec is as the last sync left it, but for what was written since.
InSync == rpm \in {"active", "disabled"} \/ (rpm = "resuming" /\ cb = "left")

\* Half h is still to be written: by verbs on their way, or by a write that tries.
InVerbs(t, h) == call[t].at = "verbs" /\ h \in call[t].todo
ToTry(t) == call[t].op.kind = "write" /\ call[t].at \in {"try", "up", "wait"}
Due(h) == \E t \in RegThreads : InVerbs(t, h) \/ ToTry(t)

AmpInv ==
  InSync /\ ~excuse /\ cache # NotCached => \A h \in Halves : amp[h] = cache[h] \/ Due(h)

\* Nothing was asked or written before the register is in the cache.
Fresh == cache = NotCached => amp = Reset /\ asked = Reset

OpsOK == \A t \in RegThreads : call[t].op \in Ops \cup {NoOp}

UpdatesInv == RegmapTypeOK /\ OpsOK /\ WaitersInv /\ Writing /\ Fresh /\ LastAsked /\ AmpInv

-----------------------------------------------------------------------------

\* The pairs are the functions of the halves.
LEMMA PairsAre ==
  ASSUME NEW f
  PROVE  f \in Values <=> f \in [Halves -> {0, 1}]
<1>1. ASSUME f \in [Halves -> {0, 1}] PROVE f \in Values
  <2>1. f = <<f[1], f[2]>> /\ f[1] \in {0, 1} /\ f[2] \in {0, 1}
    BY <1>1 DEF Halves
  <2>2. QED
    BY <2>1 DEF Values
<1>2. ASSUME f \in Values PROVE f \in [Halves -> {0, 1}]
  <2>1. PICK l \in {0, 1}, r \in {0, 1} : f = <<l, r>>
    BY <1>2 DEF Values
  <2>2. DOMAIN <<l, r>> = Halves
    BY DEF Halves
  <2>3. QED
    BY <2>1, <2>2 DEF Halves
<1>3. QED
  BY <1>1, <1>2

\* A pair is a value that is cached, and is its halves.
LEMMA PairFacts ==
  ASSUME NEW f \in Values
  PROVE  /\ f # NotCached
         /\ \A g \in Values : (\A h \in Halves : f[h] = g[h]) => f = g
<1>1. f \in [Halves -> {0, 1}] /\ \A g \in Values : g \in [Halves -> {0, 1}]
  BY PairsAre
<1>2. f # NotCached
  BY <1>1 DEF Halves, NotCached
<1>3. QED
  BY <1>1, <1>2 DEF Halves

\* The value of an operation covers the halves that it asks for.
LEMMA OpVal ==
  ASSUME NEW op \in Ops \cup {NoOp}
  PROVE  op.val \in Values /\ op.kind \in {"write", "update", "once", "override", "none"}
<1>1. Reset \in Values /\ <<0, 0>> \in Values /\ <<1, 1>> \in Values /\ <<1, 0>> \in Values
  BY DEF Reset, Values
<1>2. QED
  BY <1>1 DEF Ops, NoOp

\* What an operation makes of a value is a value.
LEMMA MaskedIs ==
  ASSUME NEW old \in Values, NEW op \in Ops \cup {NoOp}
  PROVE  Masked(old, op) \in Values
<1>1. old \in [Halves -> {0, 1}] /\ op.val \in [Halves -> {0, 1}]
  BY OpVal, PairsAre
<1>2. Masked(old, op) \in [Halves -> {0, 1}]
  BY <1>1 DEF Masked
<1>3. QED
  BY <1>2, PairsAre

\* What is known of the register is a value.
LEMMA KnownIs ==
  ASSUME RegmapTypeOK
  PROVE  Known \in Values
BY DEF RegmapTypeOK, Known

\* A thread whose call is replaced.
LEMMA Put ==
  ASSUME NEW t \in RegThreads, NEW c, RefsInv, call' = [call EXCEPT ![t] = c]
  PROVE  call'[t] = c /\ Others(t)
BY DEF RefsInv, CallsOK, Others

\* Thread t goes to a place with the same operation, and to no verbs.
Moves(t, at) ==
  /\ Others(t) /\ SamePm
  /\ call'[t].at = at /\ call'[t].op = call[t].op

\* Where the steps of a thread lead.
LEMMA TryMoves ==
  ASSUME NEW t \in RegThreads, RefsInv
  PROVE  /\ TrySkip(t) \/ TryOverwriting(t) => call[t].at = "try" /\ Moves(t, "end")
         /\ TryAgain(t) => call[t].at = "try" /\ Moves(t, IF call[t].retried THEN "down" ELSE "up")
         /\ PoweredUp(t) => call[t].at = "wait" /\ Moves(t, "try")
<1>1. call[t] \in RecordsOf(call[t])
  BY CallOf
<1>2. ASSUME TrySkip(t) \/ TryOverwriting(t) PROVE call[t].at = "try" /\ Moves(t, "end")
  <2>1. /\ call[t].at = "try" /\ SamePm
        /\ call' = [call EXCEPT ![t] = [call[t] EXCEPT !.at = "end"]]
    BY <1>2 DEF TrySkip, TryOverwriting, SamePm
  <2>2. call'[t] = [call[t] EXCEPT !.at = "end"] /\ Others(t)
    BY <2>1, Put
  <2>3. call'[t].at = "end" /\ call'[t].op = call[t].op
    BY <1>1, <2>2 DEF RecordsOf
  <2>4. QED
    BY <2>1, <2>2, <2>3 DEF Moves
<1>3. ASSUME TryAgain(t)
      PROVE  call[t].at = "try" /\ Moves(t, IF call[t].retried THEN "down" ELSE "up")
  <2>1. /\ call[t].at = "try" /\ SamePm
        /\ call' = [call EXCEPT ![t] = [call[t] EXCEPT !.at = IF call[t].retried THEN "down" ELSE "up"]]
    BY <1>3 DEF TryAgain, SamePm
  <2>2. call'[t] = [call[t] EXCEPT !.at = IF call[t].retried THEN "down" ELSE "up"] /\ Others(t)
    BY <2>1, Put
  <2>3. call'[t].at = (IF call[t].retried THEN "down" ELSE "up") /\ call'[t].op = call[t].op
    BY <1>1, <2>2 DEF RecordsOf
  <2>4. QED
    BY <2>1, <2>2, <2>3 DEF Moves
<1>4. ASSUME PoweredUp(t) PROVE call[t].at = "wait" /\ Moves(t, "try")
  <2>1. /\ call[t].at = "wait" /\ SamePm
        /\ call' = [call EXCEPT ![t] = [call[t] EXCEPT !.at = "try", !.retried = TRUE]]
    BY <1>4 DEF PoweredUp, SamePm
  <2>2. call'[t] = [call[t] EXCEPT !.at = "try", !.retried = TRUE] /\ Others(t)
    BY <2>1, Put
  <2>3. call'[t].at = "try" /\ call'[t].op = call[t].op
    BY <1>1, <2>2 DEF RecordsOf
  <2>4. QED
    BY <2>1, <2>2, <2>3 DEF Moves
<1>5. QED
  BY <1>2, <1>3, <1>4

LEMMA UpMoves ==
  ASSUME NEW t \in RegThreads, RefsInv, PowerUpPm(t)
  PROVE  /\ call[t].at = "up" /\ in_pm \in Nat
         /\ \/ in_pm > 0 /\ usage_count' = usage_count /\ Moves(t, "try")
            \/ in_pm = 0 /\ usage_count' = usage_count + 1 /\ Moves(t, "wait")
<1>1. call[t] \in RecordsOf(call[t]) /\ call[t].at = "up" /\ SamePm /\ in_pm \in Nat
  BY CallOf DEF PowerUpPm, SamePm, RefsInv
<1>2. CASE /\ in_pm > 0 /\ usage_count' = usage_count
           /\ call' = [call EXCEPT ![t] = [call[t] EXCEPT !.at = "try", !.retried = TRUE]]
  <2>1. call'[t] = [call[t] EXCEPT !.at = "try", !.retried = TRUE] /\ Others(t)
    BY <1>2, Put
  <2>2. call'[t].at = "try" /\ call'[t].op = call[t].op
    BY <1>1, <2>1 DEF RecordsOf
  <2>3. QED
    BY <1>1, <1>2, <2>1, <2>2 DEF Moves
<1>3. CASE /\ in_pm = 0 /\ usage_count' = usage_count + 1
           /\ call' = [call EXCEPT ![t] = [call[t] EXCEPT !.at = "wait"]]
  <2>1. call'[t] = [call[t] EXCEPT !.at = "wait"] /\ Others(t)
    BY <1>3, Put
  <2>2. call'[t].at = "wait" /\ call'[t].op = call[t].op
    BY <1>1, <2>1 DEF RecordsOf
  <2>3. QED
    BY <1>1, <1>3, <2>1, <2>2 DEF Moves
<1>4. QED
  BY <1>2, <1>3 DEF PowerUpPm

LEMMA VerbMoves ==
  ASSUME NEW t \in RegThreads, RefsInv
  PROVE  /\ TryKept(t) => /\ call[t].at = "try" /\ Moves(t, "verbs")
                          /\ call'[t].todo = Halves /\ call'[t].val = Wanted(call[t].op)
         /\ Verb(t) => /\ call[t].at = "verbs" /\ Moves(t, "verbs")
                       /\ call'[t].todo = call[t].todo \ NextHalves(t)
                       /\ call'[t].val = call[t].val
         /\ VerbFails(t) => /\ call[t].at = "verbs" /\ Moves(t, "verbs")
                            /\ call'[t].val = call[t].val
         /\ AccessDone(t) => call[t].at = "verbs" /\ Moves(t, "end")
<1>1. call[t] \in RecordsOf(call[t])
  BY CallOf
<1>2. ASSUME TryKept(t)
      PROVE  /\ call[t].at = "try" /\ Moves(t, "verbs")
             /\ call'[t].todo = Halves /\ call'[t].val = Wanted(call[t].op)
  <2>1. /\ call[t].at = "try" /\ SamePm
        /\ call' = [call EXCEPT ![t] = [call[t] EXCEPT !.at = "verbs", !.lock = Kept,
                                                       !.todo = Halves, !.val = Wanted(call[t].op)]]
    BY <1>2 DEF TryKept, SamePm
  <2>2. call'[t] = [call[t] EXCEPT !.at = "verbs", !.lock = Kept,
                                   !.todo = Halves, !.val = Wanted(call[t].op)] /\ Others(t)
    BY <2>1, Put
  <2>3. /\ call'[t].at = "verbs" /\ call'[t].op = call[t].op
        /\ call'[t].todo = Halves /\ call'[t].val = Wanted(call[t].op)
    BY <1>1, <2>2 DEF RecordsOf
  <2>4. QED
    BY <2>1, <2>2, <2>3 DEF Moves
<1>3. ASSUME Verb(t)
      PROVE  /\ call[t].at = "verbs" /\ Moves(t, "verbs")
             /\ call'[t].todo = call[t].todo \ NextHalves(t) /\ call'[t].val = call[t].val
  <2>1. /\ call[t].at = "verbs" /\ SamePm
        /\ call' = [call EXCEPT ![t] = [call[t] EXCEPT !.todo = call[t].todo \ NextHalves(t)]]
    BY <1>3 DEF Verb, SamePm
  <2>2. call'[t] = [call[t] EXCEPT !.todo = call[t].todo \ NextHalves(t)] /\ Others(t)
    BY <2>1, Put
  <2>3. /\ call'[t].at = call[t].at /\ call'[t].op = call[t].op
        /\ call'[t].todo = call[t].todo \ NextHalves(t) /\ call'[t].val = call[t].val
    BY <1>1, <2>2 DEF RecordsOf
  <2>4. QED
    BY <2>1, <2>2, <2>3 DEF Moves
<1>4. ASSUME VerbFails(t)
      PROVE  call[t].at = "verbs" /\ Moves(t, "verbs") /\ call'[t].val = call[t].val
  <2>1. /\ call[t].at = "verbs" /\ SamePm
        /\ call' = [call EXCEPT ![t] = [call[t] EXCEPT !.todo = {}]]
    BY <1>4 DEF VerbFails, SamePm
  <2>2. call'[t] = [call[t] EXCEPT !.todo = {}] /\ Others(t)
    BY <2>1, Put
  <2>3. /\ call'[t].at = call[t].at /\ call'[t].op = call[t].op /\ call'[t].val = call[t].val
    BY <1>1, <2>2 DEF RecordsOf
  <2>4. QED
    BY <2>1, <2>2, <2>3 DEF Moves
<1>5. ASSUME AccessDone(t) PROVE call[t].at = "verbs" /\ Moves(t, "end")
  <2>1. /\ call[t].at = "verbs" /\ SamePm
        /\ call' = [call EXCEPT ![t] = [call[t] EXCEPT !.at = "end", !.lock = 0]]
    BY <1>5 DEF AccessDone, SamePm
  <2>2. call'[t] = [call[t] EXCEPT !.at = "end", !.lock = 0] /\ Others(t)
    BY <2>1, Put
  <2>3. call'[t].at = "end" /\ call'[t].op = call[t].op
    BY <1>1, <2>2 DEF RecordsOf
  <2>4. QED
    BY <2>1, <2>2, <2>3 DEF Moves
<1>6. QED
  BY <1>2, <1>3, <1>4, <1>5

LEMMA CallMoves ==
  ASSUME NEW t \in RegThreads, RefsInv
  PROVE  /\ EndCall(t) => /\ call[t].at \in {"end", "down"} /\ Others(t) /\ SamePm
                          /\ call'[t].at = "idle" /\ call'[t].op = NoOp
         /\ \A op : BeginCall(t, op) => /\ call[t].at = "idle" /\ Others(t) /\ SamePm
                                        /\ call'[t].at = "try" /\ call'[t].op = op
<1>1. ASSUME EndCall(t)
      PROVE  /\ call[t].at \in {"end", "down"} /\ Others(t) /\ SamePm
             /\ call'[t].at = "idle" /\ call'[t].op = NoOp
  <2>1. call[t].at \in {"end", "down"} /\ SamePm /\ call' = [call EXCEPT ![t] = Idling]
    BY <1>1 DEF EndCall, SamePm
  <2>2. call'[t] = Idling /\ Others(t)
    BY <2>1, Put
  <2>3. QED
    BY <2>1, <2>2 DEF Idling
<1>2. ASSUME NEW op, BeginCall(t, op)
      PROVE  /\ call[t].at = "idle" /\ Others(t) /\ SamePm
             /\ call'[t].at = "try" /\ call'[t].op = op
  <2>1. /\ call[t].at = "idle" /\ SamePm
        /\ call' = [call EXCEPT ![t] = [Idling EXCEPT !.at = "try", !.op = op]]
    BY <1>2 DEF BeginCall, SamePm
  <2>2. call'[t] = [Idling EXCEPT !.at = "try", !.op = op] /\ Others(t)
    BY <2>1, Put
  <2>3. call'[t].at = "try" /\ call'[t].op = op
    BY <2>2 DEF Idling
  <2>4. QED
    BY <2>1, <2>2, <2>3, Zenon
<1>3. QED
  BY <1>1, <1>2

-----------------------------------------------------------------------------
(* The references of those that wait.                                      *)

\* Who does not wait has a reference beside those of the waiters.
LEMMA BesideWaiters ==
  ASSUME RefsInv
  PROVE  /\ Cardinality(Waiters) \in Nat
         /\ \A t \in RegThreads : call[t].lock = 1 \/ call[t].retried
              => in_pm + usage_count >= Cardinality(Waiters) + 1
         /\ cb = "begun" => in_pm + usage_count >= Cardinality(Waiters) + 1
<1>1. /\ IsFiniteSet(Holders) /\ IsFiniteSet(Retriers) /\ IsFiniteSet(Waiters)
      /\ Waiters \subseteq Retriers
  BY FS_Subset, RegmapAssumption DEF Holders, Retriers, Waiters
<1>2. /\ Cardinality(Holders) \in Nat /\ Cardinality(Retriers) \in Nat /\ Cardinality(Waiters) \in Nat
      /\ Cardinality(Waiters) <= Cardinality(Retriers)
  BY <1>1, FS_CardinalityType, FS_Subset
<1>3. in_pm + usage_count = Cardinality(Holders) + Cardinality(Retriers)
                            + (IF cb = "begun" THEN 1 ELSE 0)
  BY DEF RefsInv, RefsBalance
<1>4. ASSUME NEW t \in RegThreads, call[t].lock = 1
      PROVE  in_pm + usage_count >= Cardinality(Waiters) + 1
  <2>1. t \in Holders
    BY <1>4 DEF Holders
  <2>2. Cardinality(Holders) >= 1
    BY <1>1, <2>1, OneMoves
  <2>3. QED
    BY <1>2, <1>3, <2>2
<1>5. ASSUME NEW t \in RegThreads, call[t].retried
      PROVE  in_pm + usage_count >= Cardinality(Waiters) + 1
  <2>1. t \notin Waiters /\ Waiters \cup {t} \subseteq Retriers
    BY <1>1, <1>5, CallOf DEF Waiters, Retriers
  <2>2. Cardinality(Waiters \cup {t}) = Cardinality(Waiters) + 1
    BY <1>1, <2>1, FS_AddElement
  <2>3. Cardinality(Waiters \cup {t}) <= Cardinality(Retriers)
    BY <1>1, <2>1, FS_Subset
  <2>4. QED
    BY <1>2, <1>3, <2>2, <2>3
<1>6. QED
  BY <1>2, <1>3, <1>4, <1>5

\* Who has a reference while the codec is not up keeps it up by in_pm.
LEMMA RetrierIsKept ==
  ASSUME RefsInv, WaitersInv, IsDown, NEW t \in RegThreads, call[t].lock = 1 \/ call[t].retried
  PROVE  in_pm > 0
<1>1. in_pm + usage_count >= Cardinality(Waiters) + 1 /\ Cardinality(Waiters) \in Nat
  BY BesideWaiters
<1>2. usage_count = Cardinality(Waiters) /\ in_pm \in Nat
  BY DEF WaitersInv, RefsInv
<1>3. QED
  BY <1>1, <1>2

\* A drop by one that does not wait leaves those of the waiters.
LEMMA DropsBeside ==
  ASSUME NEW n \in Nat, in_pm \in Nat, usage_count \in Nat, usage_count >= n,
         in_pm + usage_count >= n + 1, PowerDownPm
  PROVE  usage_count' >= n /\ (usage_count = n => usage_count' = n)
BY DEF PowerDownPm

\* The waiters stay, and the usage count stays or drops beside them.
LEMMA WaitersStay ==
  ASSUME RefsInv, WaitersInv, Waiters' = Waiters, IsDown' => IsDown,
         \/ usage_count' = usage_count
         \/ PowerDownPm /\ in_pm + usage_count >= Cardinality(Waiters) + 1
  PROVE  WaitersInv'
<1> DEFINE n == Cardinality(Waiters)
<1>1. n \in Nat /\ in_pm \in Nat /\ usage_count \in Nat /\ usage_count >= n
      /\ (IsDown => usage_count = n) /\ Cardinality(Waiters') = n
  BY BesideWaiters DEF RefsInv, WaitersInv
<1>2. usage_count' >= n /\ (usage_count = n => usage_count' = n)
  <2>1. CASE usage_count' = usage_count
    BY <1>1, <2>1
  <2>2. CASE PowerDownPm /\ in_pm + usage_count >= Cardinality(Waiters) + 1
    <3>1. in_pm + usage_count >= n + 1
      BY <2>2
    <3> HIDE DEF n
    <3>2. QED
      BY <1>1, <2>2, <3>1, DropsBeside
  <2>3. QED
    BY <2>1, <2>2
<1>3. QED
  BY <1>1, <1>2 DEF WaitersInv

\* A thread that neither begins nor ends to wait.
LEMMA SameWaiters ==
  ASSUME NEW t \in RegThreads, Others(t), SamePm, call[t].at # "wait", call'[t].at # "wait"
  PROVE  Waiters' = Waiters /\ IsDown' = IsDown
BY DEF Others, SamePm, Waiters, IsDown

\* ... through the steps of a thread, ...
LEMMA WaitersByThread ==
  ASSUME NEW t \in RegThreads, RefsInv, WaitersInv,
         RegThread(t) \/ \E op \in Ops : BeginCall(t, op)
  PROVE  WaitersInv'
<1>1. CASE TrySkip(t) \/ TryOverwriting(t) \/ TryAgain(t)
  <2>1. Waiters' = Waiters /\ IsDown' = IsDown
    BY <1>1, TryMoves, SameWaiters DEF Moves
  <2>2. usage_count' = usage_count
    BY <1>1 DEF TrySkip, TryOverwriting, TryAgain
  <2>3. QED
    BY <2>1, <2>2, WaitersStay
<1>2. CASE Verb(t) \/ VerbFails(t)
  <2>1. Waiters' = Waiters /\ IsDown' = IsDown
    BY <1>2, VerbMoves, SameWaiters DEF Moves
  <2>2. usage_count' = usage_count
    BY <1>2 DEF Verb, VerbFails
  <2>3. QED
    BY <2>1, <2>2, WaitersStay
<1>3. CASE TryKept(t)
  <2>1. Waiters' = Waiters /\ IsDown' = IsDown
    BY <1>3, VerbMoves, SameWaiters DEF Moves
  <2>2. usage_count' = usage_count \/ (~IsDown /\ usage_count' = usage_count + 1)
    BY <1>3 DEF TryKept, KeepPowerUp, IsDown
  <2>3. CASE usage_count' = usage_count
    BY <2>1, <2>3, WaitersStay
  <2>4. CASE ~IsDown /\ usage_count' = usage_count + 1
    <3>1. Cardinality(Waiters) \in Nat /\ usage_count \in Nat
      BY BesideWaiters DEF RefsInv
    <3>2. QED
      BY <2>1, <2>4, <3>1 DEF WaitersInv
  <2>5. QED
    BY <2>2, <2>3, <2>4
<1>4. CASE AccessDone(t)
  <2>1. Waiters' = Waiters /\ IsDown' = IsDown
    BY <1>4, VerbMoves, SameWaiters DEF Moves
  <2>2. usage_count' = usage_count \/ (PowerDownPm /\ call[t].lock = 1)
    BY <1>4 DEF AccessDone, PmUnlock
  <2>3. QED
    BY <2>1, <2>2, BesideWaiters, WaitersStay
<1>5. CASE EndCall(t)
  <2>1. Waiters' = Waiters /\ IsDown' = IsDown
    BY <1>5, CallMoves, SameWaiters
  <2>2. usage_count' = usage_count \/ (PowerDownPm /\ call[t].retried)
    BY <1>5 DEF EndCall
  <2>3. QED
    BY <2>1, <2>2, BesideWaiters, WaitersStay
<1>6. CASE \E op \in Ops : BeginCall(t, op)
  <2>1. Waiters' = Waiters /\ IsDown' = IsDown
    BY <1>6, CallMoves, SameWaiters
  <2>2. usage_count' = usage_count
    BY <1>6 DEF BeginCall
  <2>3. QED
    BY <2>1, <2>2, WaitersStay
<1>7. CASE PoweredUp(t)
  <2>1. ~IsDown /\ ~IsDown' /\ usage_count' = usage_count
    BY <1>7 DEF PoweredUp, IsDown
  <2>2. Waiters' = Waiters \ {t} /\ IsFiniteSet(Waiters) /\ t \in Waiters
    BY <1>7, TryMoves, FS_Subset, RegmapAssumption DEF Moves, Others, Waiters
  <2>3. /\ Cardinality(Waiters') = Cardinality(Waiters) - 1
        /\ Cardinality(Waiters) \in Nat /\ usage_count \in Nat
    BY <2>2, FS_RemoveElement, BesideWaiters DEF RefsInv
  <2>4. QED
    BY <2>1, <2>3 DEF WaitersInv
<1>8. CASE PowerUpPm(t)
  <2>1. CASE usage_count' = usage_count /\ Moves(t, "try")
    <3>1. Waiters' = Waiters /\ IsDown' = IsDown
      BY <1>8, <2>1, UpMoves, SameWaiters DEF Moves
    <3>2. QED
      BY <2>1, <3>1, WaitersStay
  <2>2. CASE usage_count' = usage_count + 1 /\ Moves(t, "wait")
    <3>1. IsDown' = IsDown
      BY <2>2 DEF Moves, SamePm, IsDown
    <3>2. call[t].at = "up"
      BY <1>8, UpMoves
    <3>3. Waiters' = Waiters \cup {t} /\ t \notin Waiters
      BY <2>2, <3>2 DEF Moves, Others, Waiters
    <3>4. IsFiniteSet(Waiters)
      BY FS_Subset, RegmapAssumption DEF Waiters
    <3>5. /\ Cardinality(Waiters') = Cardinality(Waiters) + 1
          /\ Cardinality(Waiters) \in Nat /\ usage_count \in Nat
      BY <3>3, <3>4, FS_AddElement, BesideWaiters DEF RefsInv
    <3>6. QED
      BY <2>2, <3>1, <3>5 DEF WaitersInv
  <2>3. QED
    BY <1>8, <2>1, <2>2, UpMoves
<1>9. QED
  BY <1>1, <1>2, <1>3, <1>4, <1>5, <1>6, <1>7, <1>8 DEF RegThread

\* ... and through those of the PM core: a suspend finds no waiters.
LEMMA WaitersByPm ==
  ASSUME RefsInv, WaitersInv, SuspendBegin \/ PmCore
  PROVE  WaitersInv'
<1>1. Waiters' = Waiters
  BY DEF SuspendBegin, PmCore, SuspendEnd, ResumeBegin, RegmapSync, ResumeEnd, Waiters
<1>2. CASE SuspendBegin
  <2>1. Cardinality(Waiters) \in Nat /\ usage_count = 0 /\ usage_count' = 0
        /\ Cardinality(Waiters) <= usage_count
    BY <1>2, BesideWaiters DEF SuspendBegin, WaitersInv
  <2>2. QED
    BY <1>1, <2>1 DEF WaitersInv
<1>3. CASE ResumeBegin \/ ResumeEnd
  <2>1. usage_count' = usage_count /\ (IsDown' => IsDown)
    BY <1>3 DEF ResumeBegin, ResumeEnd, IsDown
  <2>2. QED
    BY <1>1, <2>1, WaitersStay
<1>4. CASE SuspendEnd \/ RegmapSync
  <2>1. PowerDownPm /\ cb = "begun" /\ (IsDown' => IsDown)
    BY <1>4 DEF SuspendEnd, RegmapSync, IsDown
  <2>2. QED
    BY <1>1, <2>1, BesideWaiters, WaitersStay
<1>5. QED
  BY <1>2, <1>3, <1>4 DEF PmCore

-----------------------------------------------------------------------------
(* The values.                                                             *)

\* What a step of a thread does to the cache and to what was asked for.
LEMMA CacheSteps ==
  ASSUME NEW t \in RegThreads, RegThread(t) \/ \E op \in Ops : BeginCall(t, op)
  PROVE  \/ cache' = cache /\ asked' = asked
         \/ /\ TrySkip(t) /\ cache' = Known
            /\ asked' = IF call[t].op.kind = "update" \/ cache = NotCached
                        THEN Masked(asked, call[t].op) ELSE asked
         \/ /\ TryKept(t) \/ TryOverwriting(t) \/ TryAgain(t)
            /\ cache' = Wanted(call[t].op) /\ asked' = Masked(asked, call[t].op)
BY DEF RegThread, TrySkip, TryKept, TryOverwriting, TryAgain, Verb, VerbFails, AccessDone,
       PowerUpPm, PoweredUp, EndCall, BeginCall

\* Only verbs, the end of a suspend and a sync change the codec.
LEMMA AmpSteps ==
  ASSUME NEW t \in RegThreads, RegThread(t) \/ \E op \in Ops : BeginCall(t, op)
  PROVE  \/ amp' = amp
         \/ /\ Verb(t) /\ Powered
            /\ amp' = [h \in Halves |-> IF h \in NextHalves(t) THEN call[t].val[h] ELSE amp[h]]
BY DEF RegThread, TrySkip, TryKept, TryOverwriting, TryAgain, Verb, VerbFails, AccessDone,
       PowerUpPm, PoweredUp, EndCall, BeginCall

\* The lock is taken and left with the verbs.
LEMMA LockSteps ==
  ASSUME NEW t \in RegThreads, RegThread(t) \/ \E op \in Ops : BeginCall(t, op)
  PROVE  \/ reg_lock' = reg_lock
         \/ TryKept(t) /\ reg_lock = Unlocked /\ reg_lock' = t
         \/ AccessDone(t) /\ reg_lock' = Unlocked
BY DEF RegThread, TrySkip, TryKept, TryOverwriting, TryAgain, Verb, VerbFails, AccessDone,
       PowerUpPm, PoweredUp, EndCall, BeginCall

\* A write of the cache, and every try that changes it, has the lock free.
LEMMA TriesLocked ==
  ASSUME NEW t \in RegThreads, TrySkip(t) \/ TryKept(t) \/ TryOverwriting(t) \/ TryAgain(t)
  PROVE  reg_lock = Unlocked
BY DEF TrySkip, TryKept, TryOverwriting, TryAgain

\* With the lock free nobody writes.
LEMMA NobodyWrites ==
  ASSUME Writing, reg_lock = Unlocked, NEW u \in RegThreads
  PROVE  call[u].at # "verbs"
BY RegmapAssumption DEF Writing

\* Operations are those that were begun.
LEMMA OpsStay ==
  ASSUME NEW t \in RegThreads, RefsInv, OpsOK,
         RegThread(t) \/ \E op \in Ops : BeginCall(t, op)
  PROVE  OpsOK' /\ call[t].op \in Ops \cup {NoOp}
<1>1. Others(t) /\ call'[t].op \in Ops \cup {NoOp}
  <2>1. call[t].op \in Ops \cup {NoOp}
    BY DEF OpsOK
  <2>2. \/ \E at : Moves(t, at)
        \/ Others(t) /\ call'[t].op = NoOp
        \/ \E op \in Ops : Others(t) /\ call'[t].op = op
    BY TryMoves, UpMoves, VerbMoves, CallMoves DEF RegThread
  <2>3. QED
    BY <2>1, <2>2 DEF Moves
<1>2. QED
  BY <1>1 DEF OpsOK, Others

\* The types of the values.
LEMMA TypesByThread ==
  ASSUME NEW t \in RegThreads, RefsInv, RefsInv', RegmapTypeOK, OpsOK, Writing,
         RegThread(t) \/ \E op \in Ops : BeginCall(t, op)
  PROVE  RegmapTypeOK'
<1>1. call[t].op \in Ops \cup {NoOp}
  BY DEF OpsOK
<1>2. cache' \in Values \cup {NotCached} /\ asked' \in Values
  <2>1. Known \in Values /\ Wanted(call[t].op) \in Values
    BY <1>1, KnownIs, MaskedIs DEF Wanted
  <2>2. Masked(asked, call[t].op) \in Values /\ asked \in Values
    BY <1>1, MaskedIs DEF RegmapTypeOK
  <2>3. QED
    BY <2>1, <2>2, CacheSteps DEF RegmapTypeOK
<1>3. amp' \in Values
  <2>1. CASE amp' = amp
    BY <2>1 DEF RegmapTypeOK
  <2>2. CASE /\ Verb(t)
             /\ amp' = [h \in Halves |-> IF h \in NextHalves(t) THEN call[t].val[h] ELSE amp[h]]
    <3>1. call[t].val \in Values
      BY <2>2 DEF Verb, Writing, RegmapTypeOK
    <3>2. call[t].val \in [Halves -> {0, 1}] /\ amp \in [Halves -> {0, 1}]
      BY <3>1, PairsAre DEF RegmapTypeOK
    <3>3. amp' \in [Halves -> {0, 1}]
      BY <2>2, <3>2
    <3>4. QED
      BY <3>3, PairsAre
  <2>3. QED
    BY <2>1, <2>2, AmpSteps
<1>4. reg_lock' \in RegThreads \cup {Unlocked}
  BY LockSteps DEF RegmapTypeOK
<1>5. QED
  BY <1>2, <1>3, <1>4 DEF RegmapTypeOK, RefsInv

LEMMA TypesByPm ==
  ASSUME RefsInv', RegmapTypeOK, SuspendBegin \/ PmCore
  PROVE  RegmapTypeOK'
<1>1. /\ cache' = cache /\ asked' = asked /\ reg_lock' = reg_lock
      /\ amp' \in {amp, Reset, Known}
  BY DEF SuspendBegin, PmCore, SuspendEnd, ResumeBegin, RegmapSync, ResumeEnd
<1>2. Reset \in Values /\ Known \in Values
  BY KnownIs DEF Reset, Values
<1>3. QED
  BY <1>1, <1>2 DEF RegmapTypeOK, RefsInv

\* A writer keeps the lock, and nobody changes the cache under it.
LEMMA WritersKeep ==
  ASSUME NEW t \in RegThreads, RefsInv, RegmapTypeOK, OpsOK, Writing,
         RegThread(t) \/ \E op \in Ops : BeginCall(t, op)
  PROVE  Writing'
<1>1. CASE TryKept(t)
  <2>1. /\ reg_lock' = t /\ cache' = Wanted(call[t].op) /\ Others(t)
        /\ call'[t].val = Wanted(call[t].op)
    BY <1>1, VerbMoves DEF TryKept, Moves
  <2>2. Wanted(call[t].op) # NotCached
    <3>1. Wanted(call[t].op) \in Values
      BY KnownIs, MaskedIs DEF Wanted, OpsOK
    <3>2. QED
      BY <3>1, PairFacts
  <2>3. \A u \in RegThreads : call[u].at # "verbs"
    BY <1>1, TriesLocked, NobodyWrites
  <2>4. QED
    BY <2>1, <2>2, <2>3 DEF Writing, Others
<1>2. CASE Verb(t) \/ VerbFails(t)
  <2>1. /\ cache' = cache /\ reg_lock' = reg_lock /\ Others(t)
        /\ call[t].at = "verbs" /\ call'[t].val = call[t].val
    BY <1>2, VerbMoves DEF Verb, VerbFails, Moves
  <2>2. QED
    BY <2>1 DEF Writing, Others
<1>3. CASE ~(TryKept(t) \/ Verb(t) \/ VerbFails(t))
  <2>1. Others(t) /\ call'[t].at # "verbs"
    BY <1>3, TryMoves, UpMoves, VerbMoves, CallMoves DEF RegThread, Moves
  <2>2. CASE reg_lock = Unlocked
    <3>1. \A u \in RegThreads : call[u].at # "verbs"
      BY <2>2, NobodyWrites
    <3>2. QED
      BY <2>1, <3>1 DEF Writing, Others
  <2>3. CASE reg_lock # Unlocked
    <3>1. cache' = cache
      BY <2>3, CacheSteps, TriesLocked
    <3>2. reg_lock' = reg_lock \/ (call[t].at = "verbs" /\ reg_lock' = Unlocked)
      BY <1>3, LockSteps, VerbMoves
    <3>3. \A u \in RegThreads \ {t} : call[u].at = "verbs" => reg_lock' = reg_lock
      BY <3>2 DEF Writing
    <3>4. QED
      BY <2>1, <3>1, <3>3 DEF Writing, Others
  <2>4. QED
    BY <2>2, <2>3
<1>4. QED
  BY <1>1, <1>2, <1>3

\* The cache follows what is asked for.
LEMMA AskedByThread ==
  ASSUME NEW t \in RegThreads, RefsInv, RegmapTypeOK, OpsOK, Writing, Fresh, LastAsked,
         RegThread(t) \/ \E op \in Ops : BeginCall(t, op)
  PROVE  Fresh' /\ LastAsked'
<1> DEFINE op == call[t].op
<1>1. Known = asked
  BY DEF Known, Fresh, LastAsked
<1>2. Wanted(op) = Masked(asked, op)
  BY <1>1 DEF Wanted
<1>3. cache' # NotCached => cache' = asked'
  <2>1. CASE cache' = cache /\ asked' = asked
    BY <2>1 DEF LastAsked
  <2>2. CASE /\ TrySkip(t) /\ cache' = Known
             /\ asked' = IF op.kind = "update" \/ cache = NotCached THEN Masked(asked, op) ELSE asked
    <3>1. Skips(op)
      BY <2>2 DEF TrySkip
    <3>2. op.kind = "update" \/ cache = NotCached => Wanted(op) = Known
      BY <3>1 DEF Skips
    <3>3. QED
      BY <1>1, <1>2, <2>2, <3>2
  <2>3. CASE cache' = Wanted(op) /\ asked' = Masked(asked, op)
    BY <1>2, <2>3
  <2>4. QED
    BY <2>1, <2>2, <2>3, CacheSteps
<1>4. cache' = NotCached => cache = NotCached /\ asked' = asked /\ amp' = amp
  <2>1. SUFFICES ASSUME cache' = NotCached PROVE cache = NotCached /\ asked' = asked /\ amp' = amp
    OBVIOUS
  <2>2. Known # NotCached /\ Wanted(op) # NotCached
    <3>1. Known \in Values /\ Wanted(op) \in Values
      BY KnownIs, MaskedIs DEF Wanted, OpsOK
    <3>2. QED
      BY <3>1, PairFacts
  <2>3. cache = NotCached /\ asked' = asked
    BY <2>1, <2>2, CacheSteps
  <2>4. ~Verb(t)
    BY <2>3 DEF Verb, Writing
  <2>5. QED
    BY <2>3, <2>4, AmpSteps
<1>5. QED
  BY <1>3, <1>4 DEF Fresh, LastAsked

-----------------------------------------------------------------------------
(* The codec.                                                              *)


\* A step of a thread that leaves cache and codec, and nothing due undone.
LEMMA StillDue ==
  ASSUME NEW t \in RegThreads, AmpInv, Others(t), SamePm, cache' = cache, amp' = amp,
         excuse' = excuse, ToTry(t) => ToTry(t)', \A h : InVerbs(t, h) => InVerbs(t, h)'
  PROVE  AmpInv'
<1>1. \A h : Due(h) => Due(h)'
  <2>1. ASSUME NEW h, NEW u \in RegThreads, InVerbs(u, h) \/ ToTry(u)
        PROVE  InVerbs(u, h)' \/ ToTry(u)'
    <3>1. CASE u = t
      BY <2>1, <3>1
    <3>2. CASE u # t
      <4>1. call'[u] = call[u]
        BY <3>2 DEF Others
      <4>2. QED
        BY <2>1, <4>1 DEF InVerbs, ToTry
    <3>3. QED
      BY <3>1, <3>2
  <2>2. QED
    BY <2>1 DEF Due
<1>2. InSync' = InSync
  BY DEF SamePm, InSync
<1>3. QED
  BY <1>1, <1>2 DEF AmpInv

\* The tries: verbs follow, or the write is tried again, or it is excused.
LEMMA TriesDue ==
  ASSUME NEW t \in RegThreads, RefsInv, UpdatesInv,
         TrySkip(t) \/ TryKept(t) \/ TryOverwriting(t) \/ TryAgain(t)
  PROVE  AmpInv'
<1>1. call[t].at = "try" /\ \A h : ~InVerbs(t, h)
  BY DEF TrySkip, TryKept, TryOverwriting, TryAgain, InVerbs
<1>2. CASE TrySkip(t)
  <2>1. /\ Moves(t, "end") /\ cache' = Known /\ amp' = amp /\ excuse' = excuse
        /\ call[t].op.kind # "write"
    BY <1>2, TryMoves DEF TrySkip, Skips
  <2>2. CASE cache = NotCached
    BY <2>1, <2>2 DEF Known, AmpInv
  <2>3. CASE cache # NotCached
    <3>1. cache' = cache /\ ~ToTry(t)
      BY <2>1, <2>3 DEF Known, ToTry
    <3>2. QED
      BY <1>1, <2>1, <3>1, StillDue DEF UpdatesInv, Moves
  <2>4. QED
    BY <2>2, <2>3
<1>3. CASE TryKept(t)
  <2>1. call'[t].at = "verbs" /\ call'[t].todo = Halves
    BY <1>3, VerbMoves DEF Moves
  <2>2. \A h \in Halves : InVerbs(t, h)'
    BY <2>1 DEF InVerbs
  <2>3. QED
    BY <2>2 DEF AmpInv, Due
<1>4. CASE TryOverwriting(t)
  BY <1>4 DEF TryOverwriting, AmpInv
<1>5. CASE TryAgain(t)
  <2>1. /\ Moves(t, IF call[t].retried THEN "down" ELSE "up") /\ amp' = amp
        /\ Kept < 0 /\ in_pm \in Nat
    BY <1>5, TryMoves DEF TryAgain, RefsInv
  <2>2. in_pm = 0 /\ rpm \notin {"active", "disabled"}
    BY <2>1 DEF Kept
  <2>3. CASE ~InSync
    BY <2>1, <2>3 DEF Moves, SamePm, InSync, AmpInv
  <2>4. CASE InSync
    <3>1. rpm = "resuming" /\ cb = "left"
      BY <2>2, <2>4 DEF InSync
    <3>2. ~call[t].retried
      <4>1. IsDown /\ ~(in_pm > 0)
        BY <2>2, <3>1 DEF IsDown
      <4>2. QED
        BY <4>1, RetrierIsKept DEF UpdatesInv
    <3>3. Moves(t, "up")
      BY <2>1, <3>2
    <3>4. CASE call[t].op.kind = "write"
      <4>1. ToTry(t)'
        BY <3>3, <3>4 DEF Moves, ToTry
      <4>2. QED
        BY <4>1 DEF AmpInv, Due
    <3>5. CASE call[t].op.kind # "write"
      <4>1. CASE excuse'
        BY <4>1 DEF AmpInv
      <4>2. CASE ~excuse'
        <5>1. cache' = cache /\ excuse' = excuse
          BY <1>5, <3>1, <3>5, <4>2 DEF TryAgain
        <5>2. ~ToTry(t)
          BY <3>5 DEF ToTry
        <5>3. QED
          BY <1>1, <2>1, <3>3, <5>1, <5>2, StillDue DEF UpdatesInv, Moves
      <4>3. QED
        BY <4>1, <4>2
    <3>6. QED
      BY <3>4, <3>5
  <2>5. QED
    BY <2>3, <2>4
<1>6. QED
  BY <1>2, <1>3, <1>4, <1>5

\* A verb that arrives brings its halves what the cache holds.
LEMMA VerbDue ==
  ASSUME NEW t \in RegThreads, RefsInv, UpdatesInv, Verb(t)
  PROVE  AmpInv'
<1>1. /\ call[t].at = "verbs" /\ Moves(t, "verbs")
      /\ call'[t].todo = call[t].todo \ NextHalves(t)
      /\ cache' = cache /\ excuse' = excuse /\ call[t].val = cache
  BY VerbMoves DEF Verb, UpdatesInv, Writing
<1>2. ~ToTry(t)
  BY <1>1 DEF ToTry
<1>3. SUFFICES ASSUME InSync', ~excuse', cache' # NotCached, NEW h \in Halves
               PROVE  amp'[h] = cache'[h] \/ Due(h)'
  BY DEF AmpInv
<1>4. InSync /\ Powered
  BY <1>1, <1>3 DEF Moves, SamePm, InSync, Powered
<1>5. amp' = [i \in Halves |-> IF i \in NextHalves(t) THEN call[t].val[i] ELSE amp[i]]
  BY <1>4 DEF Verb
<1>6. CASE h \in NextHalves(t)
  BY <1>1, <1>5, <1>6
<1>7. CASE h \notin NextHalves(t)
  <2>1. amp'[h] = amp[h] /\ (amp[h] = cache[h] \/ Due(h))
    BY <1>1, <1>3, <1>4, <1>5, <1>7 DEF UpdatesInv, AmpInv
  <2>2. ASSUME NEW u \in RegThreads, InVerbs(u, h) \/ ToTry(u) PROVE InVerbs(u, h)' \/ ToTry(u)'
    <3>1. CASE u = t
      BY <1>1, <1>2, <1>7, <2>2, <3>1 DEF InVerbs, Moves
    <3>2. CASE u # t
      <4>1. call'[u] = call[u]
        BY <1>1, <3>2 DEF Moves, Others
      <4>2. QED
        BY <2>2, <4>1 DEF InVerbs, ToTry
    <3>3. QED
      BY <3>1, <3>2
  <2>3. QED
    BY <1>1, <2>1, <2>2 DEF Due
<1>8. QED
  BY <1>6, <1>7

\* The other steps of a thread.
LEMMA RestDue ==
  ASSUME NEW t \in RegThreads, RefsInv, UpdatesInv,
         \/ VerbFails(t) \/ AccessDone(t) \/ PowerUpPm(t) \/ PoweredUp(t) \/ EndCall(t)
         \/ \E op \in Ops : BeginCall(t, op)
  PROVE  AmpInv'
<1>1. CASE VerbFails(t)
  BY <1>1 DEF VerbFails, AmpInv
<1>2. CASE AccessDone(t)
  <2>1. call[t].at = "verbs" /\ call[t].todo = {} /\ Others(t) /\ SamePm
    BY <1>2, VerbMoves DEF AccessDone, Moves
  <2>2. ~ToTry(t) /\ \A h : ~InVerbs(t, h)
    BY <2>1 DEF ToTry, InVerbs
  <2>3. cache' = cache /\ amp' = amp /\ excuse' = excuse
    BY <1>2 DEF AccessDone
  <2>4. QED
    BY <2>1, <2>2, <2>3, StillDue DEF UpdatesInv
<1>3. CASE PowerUpPm(t) \/ PoweredUp(t)
  <2>1. /\ call[t].at \in {"up", "wait"} /\ call'[t].at \in {"try", "wait"}
        /\ call'[t].op = call[t].op /\ Others(t) /\ SamePm
    BY <1>3, UpMoves, TryMoves DEF Moves
  <2>2. (ToTry(t) => ToTry(t)') /\ \A h : ~InVerbs(t, h)
    BY <2>1 DEF ToTry, InVerbs
  <2>3. cache' = cache /\ amp' = amp /\ excuse' = excuse
    BY <1>3 DEF PowerUpPm, PoweredUp
  <2>4. QED
    BY <2>1, <2>2, <2>3, StillDue DEF UpdatesInv
<1>4. CASE EndCall(t) \/ \E op \in Ops : BeginCall(t, op)
  <2>1. call[t].at \in {"end", "down", "idle"} /\ Others(t) /\ SamePm
    BY <1>4, CallMoves
  <2>2. ~ToTry(t) /\ \A h : ~InVerbs(t, h)
    BY <2>1 DEF ToTry, InVerbs
  <2>3. cache' = cache /\ amp' = amp /\ excuse' = excuse
    BY <1>4 DEF EndCall, BeginCall
  <2>4. QED
    BY <2>1, <2>2, <2>3, StillDue DEF UpdatesInv
<1>5. QED
  BY <1>1, <1>2, <1>3, <1>4

\* A suspend takes the codec out of step, and only the sync brings it back.
LEMMA PmDue ==
  ASSUME RefsInv, UpdatesInv, SuspendBegin \/ PmCore
  PROVE  Writing' /\ Fresh' /\ LastAsked' /\ AmpInv' /\ OpsOK'
<1>1. cache' = cache /\ asked' = asked /\ call' = call /\ reg_lock' = reg_lock
  BY DEF SuspendBegin, PmCore, SuspendEnd, ResumeBegin, RegmapSync, ResumeEnd
<1>2. Writing' /\ LastAsked' /\ OpsOK'
  BY <1>1 DEF UpdatesInv, Writing, LastAsked, OpsOK
<1>3. Fresh'
  <2>1. amp' \in {amp, Reset, Known}
    BY DEF SuspendBegin, PmCore, SuspendEnd, ResumeBegin, RegmapSync, ResumeEnd
  <2>2. QED
    BY <1>1, <2>1 DEF UpdatesInv, Fresh, Known
<1>4. AmpInv'
  <2>1. CASE SuspendBegin \/ SuspendEnd \/ ResumeBegin
    <3>1. ~InSync'
      BY <2>1 DEF SuspendBegin, SuspendEnd, ResumeBegin, InSync
    <3>2. QED
      BY <3>1 DEF AmpInv
  <2>2. CASE RegmapSync
    <3>1. cache # NotCached => amp' = cache
      BY <2>2 DEF RegmapSync, Known
    <3>2. QED
      BY <1>1, <3>1 DEF AmpInv
  <2>3. CASE ResumeEnd
    <3>1. InSync /\ amp' = amp /\ excuse' = excuse
      BY <2>3 DEF ResumeEnd, InSync
    <3>2. \A h : Due(h)' = Due(h)
      BY <1>1 DEF Due, InVerbs, ToTry
    <3>3. QED
      BY <1>1, <3>1, <3>2 DEF UpdatesInv, AmpInv
  <2>4. QED
    BY <2>1, <2>2, <2>3 DEF PmCore
<1>5. QED
  BY <1>2, <1>3, <1>4

-----------------------------------------------------------------------------

\* The cache, the codec and the writers agree from the beginning on, as UpdatesInv
\* says, for any finite set of threads and any number of calls, failures and
\* suspends (regmap.c, device.c).
THEOREM UpdatesInvariant == RegmapSpec => []UpdatesInv
<1>1. RegmapInit => UpdatesInv
  <2> SUFFICES ASSUME RegmapInit PROVE UpdatesInv
    OBVIOUS
  <2>1. RegmapTypeOK
    BY DEF RegmapInit, RegmapTypeOK, Values, Reset
  <2>2. \A t \in RegThreads : call[t].at = "idle" /\ call[t].op = NoOp
    BY DEF RegmapInit, Idling
  <2>3. OpsOK /\ Writing
    BY <2>2 DEF OpsOK, Writing
  <2>4. Waiters = {} /\ ~IsDown
    BY <2>2 DEF Waiters, RegmapInit, IsDown
  <2>5. WaitersInv
    BY <2>4, FS_EmptySet DEF WaitersInv, RegmapInit
  <2>6. Fresh /\ LastAsked /\ AmpInv
    BY DEF RegmapInit, Fresh, LastAsked, AmpInv
  <2>7. QED
    BY <2>1, <2>3, <2>5, <2>6 DEF UpdatesInv
<1>2. RefsInv /\ RefsInv' /\ UpdatesInv /\ [RegmapNext]_regmapVars => UpdatesInv'
  <2> SUFFICES ASSUME RefsInv, RefsInv', UpdatesInv, [RegmapNext]_regmapVars PROVE UpdatesInv'
    OBVIOUS
  <2>1. ASSUME NEW t \in RegThreads, RegThread(t) \/ \E op \in Ops : BeginCall(t, op)
        PROVE  UpdatesInv'
    <3>1. WaitersInv' /\ OpsOK' /\ RegmapTypeOK' /\ Writing' /\ Fresh' /\ LastAsked'
      BY <2>1, WaitersByThread, OpsStay, TypesByThread, WritersKeep, AskedByThread DEF UpdatesInv
    <3>2. AmpInv'
      BY <2>1, TriesDue, VerbDue, RestDue DEF RegThread
    <3>3. QED
      BY <3>1, <3>2 DEF UpdatesInv
  <2>2. CASE SuspendBegin \/ PmCore
    BY <2>2, WaitersByPm, TypesByPm, PmDue DEF UpdatesInv
  <2>3. CASE UNCHANGED regmapVars
    <3>1. RegmapTypeOK' /\ OpsOK' /\ Writing' /\ Fresh' /\ LastAsked'
      BY <2>3 DEF regmapVars, UpdatesInv, RegmapTypeOK, OpsOK, Writing, Fresh, LastAsked
    <3>2. WaitersInv'
      BY <2>3 DEF regmapVars, UpdatesInv, WaitersInv, Waiters, IsDown
    <3>3. AmpInv'
      BY <2>3 DEF regmapVars, UpdatesInv, AmpInv, InSync, Due, InVerbs, ToTry
    <3>4. QED
      BY <3>1, <3>2, <3>3 DEF UpdatesInv
  <2>4. QED
    BY <2>1, <2>2, <2>3 DEF RegmapNext
<1>3. QED
  BY <1>1, <1>2, RefsInvariant, PTL DEF RegmapSpec

\* The cache, the codec and what was asked of them are pairs of halves, the
\* references are counted without going below zero (an unmatched drop would), and
\* only a thread or nobody has regmap_lock.
THEOREM RegmapTypes == RegmapSpec => []RegmapTypeOK
<1>1. UpdatesInv => RegmapTypeOK
  BY DEF UpdatesInv
<1>2. QED
  BY <1>1, UpdatesInvariant, PTL

\* No update is lost, neither between two threads that change different halves nor
\* between the cache and the codec across suspend and resume
\* (snd_hdac_regmap_update_raw, hda_reg_write, snd_hdac_regmap_sync).
THEOREM NoUpdateIsLost == RegmapSpec => []UpdatesKept
<1>1. UpdatesInv => UpdatesKept
  <2> SUFFICES ASSUME UpdatesInv PROVE UpdatesKept
    OBVIOUS
  <2>1. LastAsked
    BY DEF UpdatesInv
  <2>2. HwFollowsCache
    <3> SUFFICES ASSUME rpm \in {"active", "disabled"}, cache # NotCached, ~excuse,
                        \A t \in RegThreads : call[t].at = "idle"
                 PROVE  amp = cache
      BY DEF HwFollowsCache
    <3>1. \A h : ~Due(h)
      BY DEF Due, InVerbs, ToTry
    <3>2. \A h \in Halves : amp[h] = cache[h]
      BY <3>1 DEF UpdatesInv, AmpInv, InSync
    <3>3. amp \in Values /\ cache \in Values
      BY DEF UpdatesInv, RegmapTypeOK
    <3>4. QED
      BY <3>2, <3>3, PairFacts
  <2>3. QED
    BY <2>1, <2>2 DEF UpdatesKept
<1>2. QED
  BY <1>1, UpdatesInvariant, PTL
=============================================================================
