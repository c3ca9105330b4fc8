--------------------------- MODULE CardAccess_proofs ---------------------------
(***************************************************************************)
(* Proofs about the two ways in which the driver reaches the card beside   *)
(* the codec's verbs.                                                      *)
(*                                                                         *)
(* CardMmio, for any contexts and whatever programs each of them runs: the *)
(* command engine serves one transaction at a time (OneTransaction).  What *)
(* is left of a program tells whether its context must have mem_mutex.     *)
(*                                                                         *)
(* ScpChannel, for a DSP that is polled and any number of GETs, late or    *)
(* not: a GET hands over the words of one reply, its own (WholeReply), and *)
(* fails only when the DSP was late (AnsweredWhenPolled).  For a DSP that  *)
(* also announces its reply, and one GET: the two contexts that read the   *)
(* queue may tear the reply apart, but never hand over a torn one.         *)
(***************************************************************************)
EXTENDS CardMmio, ScpChannel, SequenceTheorems, TLAPS

\* The accesses that only a holder of mem_mutex makes
EngineOnly == {"open", "engine", "close", "unlock"}

\* What is left of a transaction for the holder: the mutex is released at its end
\* and nowhere else, and what is opened is closed before.
HeldRest(s) ==
  /\ s \in Seq(Accesses) /\ s # <<>>
  /\ \A i \in 1..Len(s) :
       /\ s[i] # "lock"
       /\ s[i] = "unlock" <=> i = Len(s)
       /\ s[i] = "open" => \E j \in (i + 1)..Len(s) : s[j] = "close"

\* What is left for one that does not hold it: plain accesses, or a transaction
\* from its lock on.
FreeRest(s) ==
  \/ s \in Seq({R, W})
  \/ s \in Seq(Accesses) /\ s # <<>> /\ Head(s) = "lock" /\ HeldRest(Tail(s))

WillClose(s) == \E i \in 1..Len(s) : s[i] = "close"

MutexInv ==
  /\ todo = [c \in Contexts |-> todo[c]]
  /\ \A c \in Contexts :
       /\ mem_mutex = c  => HeldRest(todo[c])
       /\ mem_mutex # c => FreeRest(todo[c])
       /\ c \in opened => mem_mutex = c /\ WillClose(todo[c])
  /\ opened \subseteq Contexts

-----------------------------------------------------------------------------
(* The programs.                                                           *)

\* A repetition is made of the accesses it repeats.
LEMMA TimesIs ==
  ASSUME NEW n \in Nat, NEW S, NEW s \in Seq(S), Len(s) # 0
  PROVE  Times(n, s) \in Seq(S) /\ Len(Times(n, s)) = n * Len(s)
<1> DEFINE l == Len(s)
<1>0. l \in Nat \ {0}
  BY LenProperties
<1> HIDE DEF l
<1>1. n * l \in Nat
  BY <1>0
<1>2. \A i \in 1..(n * l) : ((i - 1) % l) + 1 \in 1..l
  <2>1. \A k \in Nat : k % l \in 0..(l - 1)
    BY <1>0
  <2>2. \A i \in 1..(n * l) : i - 1 \in Nat
    BY <1>1
  <2>3. \A r \in 0..(l - 1) : r + 1 \in 1..l
    BY <1>0
  <2>4. QED
    BY <2>1, <2>2, <2>3
<1>3. \A i \in 1..(n * l) : s[((i - 1) % l) + 1] \in S
  BY <1>2, ElementOfSeq DEF l
<1>4. Times(n, s) = [i \in 1..(n * l) |-> s[((i - 1) % l) + 1]]
  BY DEF Times, l
<1>5. Times(n, s) \in [1..(n * l) -> S]
  BY <1>3, <1>4
<1>6. QED
  BY <1>1, <1>5, SeqDef, LenProperties DEF l

\* One sequence of accesses after another.
LEMMA Glue ==
  ASSUME NEW s1 \in Seq(Accesses), NEW s2 \in Seq(Accesses)
  PROVE  /\ s1 \o s2 \in Seq(Accesses) /\ Len(s1 \o s2) = Len(s1) + Len(s2)
         /\ \A i \in 1..Len(s1) : (s1 \o s2)[i] = s1[i]
         /\ \A i \in 1..Len(s2) : (s1 \o s2)[Len(s1) + i] = s2[i]
<1>1. /\ s1 \o s2 \in Seq(Accesses) /\ Len(s1 \o s2) = Len(s1) + Len(s2)
      /\ \A i \in 1..(Len(s1) + Len(s2)) :
           (s1 \o s2)[i] = IF i <= Len(s1) THEN s1[i] ELSE s2[i - Len(s1)]
  BY ConcatProperties
<1>2. Len(s1) \in Nat /\ Len(s2) \in Nat
  OBVIOUS
<1>3. \A i \in 1..Len(s1) : i \in 1..(Len(s1) + Len(s2)) /\ i <= Len(s1)
  BY <1>2
<1>4. \A i \in 1..Len(s2) : /\ Len(s1) + i \in 1..(Len(s1) + Len(s2)) /\ ~(Len(s1) + i <= Len(s1))
                             /\ (Len(s1) + i) - Len(s1) = i
  BY <1>2
<1>5. QED
  BY <1>1, <1>3, <1>4

\* A transaction, access by access.
LEMMA TransactionIs ==
  ASSUME NEW n \in Nat
  PROVE  LET s == Transaction(n) IN
         /\ s \in Seq(Accesses) /\ Len(s) = 2 * n + 6
         /\ s[1] = "lock" /\ s[2] = "open"
         /\ \A i \in 3..(2 * n + 3) : s[i] \in {R, "engine"}
         /\ s[2 * n + 4] = "close" /\ s[2 * n + 5] = R /\ s[2 * n + 6] = "unlock"
<1> DEFINE m  == Times(n, Flushed("engine"))
           s2 == <<"lock">> \o Flushed("open")
           s3 == s2 \o m
           s4 == s3 \o Flushed("close")
           s5 == s4 \o <<"unlock">>
<1>1. /\ <<"lock">> \in Seq(Accesses) /\ Flushed("open") = <<"open", R>>
      /\ Flushed("open") \in Seq(Accesses)
      /\ Flushed("close") = <<"close", R>> /\ Flushed("close") \in Seq(Accesses)
      /\ <<"unlock">> \in Seq(Accesses)
  BY DEF Accesses, Flushed
<1>2. m \in Seq({R, "engine"}) /\ Len(m) = n * 2
  <2> DEFINE f == Flushed("engine")
             S == {R, "engine"}
  <2>1. f \in Seq(S) /\ Len(f) = 2 /\ Len(f) # 0
    BY DEF Flushed
  <2> HIDE DEF f, S
  <2>2. Times(n, f) \in Seq(S) /\ Len(Times(n, f)) = n * Len(f)
    BY <2>1, TimesIs
  <2>3. QED
    BY <2>1, <2>2 DEF f, S
<1>3. m \in Seq(Accesses) /\ Len(m) = 2 * n /\ \A i \in 1..(2 * n) : m[i] \in {R, "engine"}
  <2>1. m \in Seq(Accesses)
    BY <1>2, SeqMonotonic DEF Accesses
  <2>2. Len(m) = 2 * n
    BY <1>2
  <2>3. QED
    BY <1>2, <2>1, <2>2, ElementOfSeq
<1> HIDE DEF m
<1>4. /\ s2 \in Seq(Accesses) /\ Len(s2) = 3
      /\ s2[1] = "lock" /\ s2[2] = "open" /\ s2[3] = R
  <2> DEFINE l == <<"lock">>
             f == Flushed("open")
  <2>1. /\ l \in Seq(Accesses) /\ Len(l) = 1 /\ l[1] = "lock"
        /\ f \in Seq(Accesses) /\ Len(f) = 2 /\ f[1] = "open" /\ f[2] = R /\ s2 = l \o f
    BY <1>1
  <2> HIDE DEF l, f, s2
  <2>2. /\ s2 \in Seq(Accesses) /\ Len(s2) = Len(l) + Len(f)
        /\ \A i \in 1..Len(l) : s2[i] = l[i]
        /\ \A i \in 1..Len(f) : s2[Len(l) + i] = f[i]
    BY <2>1, Glue
  <2>3. s2[1] = l[1] /\ s2[1 + 1] = f[1] /\ s2[1 + 2] = f[2]
    BY <2>1, <2>2
  <2>4. QED
    BY <2>1, <2>2, <2>3
<1> HIDE DEF s2
<1>5. /\ s3 \in Seq(Accesses) /\ Len(s3) = 2 * n + 3 /\ s3[1] = "lock" /\ s3[2] = "open"
      /\ \A i \in 3..(2 * n + 3) : s3[i] \in {R, "engine"}
  <2>1. /\ s3 \in Seq(Accesses) /\ Len(s3) = 2 * n + 3
        /\ \A i \in 1..3 : s3[i] = s2[i]
        /\ \A i \in 1..(2 * n) : s3[3 + i] = m[i]
    <3> HIDE DEF s3
    <3>1. s3 = s2 \o m
      BY DEF s3
    <3>2. /\ s3 \in Seq(Accesses) /\ Len(s3) = Len(s2) + Len(m)
          /\ \A i \in 1..Len(s2) : s3[i] = s2[i]
          /\ \A i \in 1..Len(m) : s3[Len(s2) + i] = m[i]
      BY <1>3, <1>4, <3>1, Glue
    <3>3. QED
      BY <1>3, <1>4, <3>2
  <2>2. \A i \in 4..(2 * n + 3) : i - 3 \in 1..(2 * n) /\ 3 + (i - 3) = i
    OBVIOUS
  <2> HIDE DEF s3
  <2>3. s3[1] = "lock" /\ s3[2] = "open" /\ s3[3] = R
    BY <1>4, <2>1
  <2>4. \A i \in 4..(2 * n + 3) : s3[i] \in {R, "engine"}
    BY <1>3, <2>1, <2>2
  <2>5. \A i \in 3..(2 * n + 3) : i = 3 \/ i \in 4..(2 * n + 3)
    OBVIOUS
  <2>6. QED
    BY <2>1, <2>3, <2>4, <2>5
<1> HIDE DEF s3
<1>6. /\ s4 \in Seq(Accesses) /\ Len(s4) = 2 * n + 5 /\ s4[1] = "lock" /\ s4[2] = "open"
      /\ \A i \in 3..(2 * n + 3) : s4[i] \in {R, "engine"}
      /\ s4[2 * n + 4] = "close" /\ s4[2 * n + 5] = R
  <2> DEFINE f == Flushed("close")
  <2>1. f \in Seq(Accesses) /\ Len(f) = 2 /\ f[1] = "close" /\ f[2] = R
    BY <1>1
  <2> HIDE DEF f
  <2>2. /\ s4 \in Seq(Accesses) /\ Len(s4) = 2 * n + 5
        /\ \A i \in 1..(2 * n + 3) : s4[i] = s3[i]
        /\ \A i \in 1..2 : s4[(2 * n + 3) + i] = f[i]
    <3> HIDE DEF s4
    <3>1. s4 = s3 \o f
      BY DEF f, s4
    <3>2. /\ s4 \in Seq(Accesses) /\ Len(s4) = Len(s3) + Len(f)
          /\ \A i \in 1..Len(s3) : s4[i] = s3[i]
          /\ \A i \in 1..Len(f) : s4[Len(s3) + i] = f[i]
      BY <1>5, <2>1, <3>1, Glue
    <3>3. QED
      BY <1>5, <2>1, <3>2
  <2> HIDE DEF s4
  <2>3. s4[(2 * n + 3) + 1] = f[1] /\ s4[(2 * n + 3) + 2] = f[2]
    BY <2>2
  <2>4. s4[2 * n + 4] = "close" /\ s4[2 * n + 5] = R
    <3>1. (2 * n + 3) + 1 = 2 * n + 4 /\ (2 * n + 3) + 2 = 2 * n + 5
      OBVIOUS
    <3>2. QED
      BY <2>1, <2>3, <3>1
  <2>5. \A i \in 3..(2 * n + 3) : i \in 1..(2 * n + 3)
    OBVIOUS
  <2>6. s4[1] = s3[1] /\ s4[2] = s3[2]
    <3>1. 1 \in 1..(2 * n + 3) /\ 2 \in 1..(2 * n + 3)
      OBVIOUS
    <3>2. QED
      BY <2>2, <3>1
  <2>7. QED
    BY <1>5, <2>2, <2>4, <2>5, <2>6
<1> HIDE DEF s4
<1>7. /\ s5 \in Seq(Accesses) /\ Len(s5) = 2 * n + 6 /\ s5[1] = "lock" /\ s5[2] = "open"
      /\ \A i \in 3..(2 * n + 3) : s5[i] \in {R, "engine"}
      /\ s5[2 * n + 4] = "close" /\ s5[2 * n + 5] = R /\ s5[2 * n + 6] = "unlock"
  <2> DEFINE u == <<"unlock">>
  <2>1. u \in Seq(Accesses) /\ Len(u) = 1 /\ u[1] = "unlock"
    BY <1>1
  <2> HIDE DEF u
  <2>2. /\ s5 \in Seq(Accesses) /\ Len(s5) = 2 * n + 6
        /\ \A i \in 1..(2 * n + 5) : s5[i] = s4[i]
        /\ \A i \in 1..1 : s5[(2 * n + 5) + i] = u[i]
    <3> HIDE DEF s5
    <3>1. s5 = s4 \o u
      BY DEF u, s5
    <3>2. /\ s5 \in Seq(Accesses) /\ Len(s5) = Len(s4) + Len(u)
          /\ \A i \in 1..Len(s4) : s5[i] = s4[i]
          /\ \A i \in 1..Len(u) : s5[Len(s4) + i] = u[i]
      BY <1>6, <2>1, <3>1, Glue
    <3>3. QED
      BY <1>6, <2>1, <3>2
  <2> HIDE DEF s5
  <2>3. s5[2 * n + 6] = "unlock"
    <3>1. s5[(2 * n + 5) + 1] = u[1] /\ (2 * n + 5) + 1 = 2 * n + 6
      BY <2>2
    <3>2. QED
      BY <2>1, <3>1
  <2>4. /\ \A i \in 3..(2 * n + 3) : i \in 1..(2 * n + 5)
        /\ 1 \in 1..(2 * n + 5) /\ 2 \in 1..(2 * n + 5)
        /\ 2 * n + 4 \in 1..(2 * n + 5) /\ 2 * n + 5 \in 1..(2 * n + 5)
    OBVIOUS
  <2>5. QED
    BY <1>6, <2>2, <2>3, <2>4
<1>8. Transaction(n) = s5
  BY DEF Transaction, s5, s4, s3, s2, m
<1> HIDE DEF s5
<1>9. QED
  BY <1>7, <1>8

\* A transaction begins free and holds the mutex from its lock to its last access.
LEMMA TransactionFree ==
  ASSUME NEW n \in Nat
  PROVE  FreeRest(Transaction(n))
<1> DEFINE s == Transaction(n)
           q == Tail(s)
<1>1. /\ s \in Seq(Accesses) /\ Len(s) = 2 * n + 6
      /\ s[1] = "lock" /\ s[2] = "open"
      /\ \A i \in 3..(2 * n + 3) : s[i] \in {R, "engine"}
      /\ s[2 * n + 4] = "close" /\ s[2 * n + 5] = R /\ s[2 * n + 6] = "unlock"
  BY TransactionIs
<1> HIDE DEF s
<1>2. s # <<>> /\ Head(s) = "lock"
  BY <1>1
<1>3. /\ q \in Seq(Accesses) /\ Len(q) = 2 * n + 5
      /\ \A i \in 1..(2 * n + 5) : q[i] = s[i + 1]
  BY <1>1, <1>2, HeadTailProperties
<1> HIDE DEF q
<1>4. /\ q[1] = "open" /\ \A i \in 2..(2 * n + 2) : q[i] \in {R, "engine"}
      /\ q[2 * n + 3] = "close" /\ q[2 * n + 4] = R /\ q[2 * n + 5] = "unlock"
  <2>1. \A i \in 2..(2 * n + 2) : i + 1 \in 3..(2 * n + 3) /\ i \in 1..(2 * n + 5)
    OBVIOUS
  <2>2. \A i \in 2..(2 * n + 2) : q[i] \in {R, "engine"}
    BY <1>1, <1>3, <2>1
  <2>3. QED
    BY <1>1, <1>3, <2>2
<1>5. \A i \in 1..(2 * n + 5) :
        i = 1 \/ i \in 2..(2 * n + 2) \/ i = 2 * n + 3 \/ i = 2 * n + 4 \/ i = 2 * n + 5
  OBVIOUS
<1>6. HeldRest(q)
  <2>1. ASSUME NEW i \in 1..(2 * n + 5)
        PROVE  /\ q[i] # "lock"
               /\ q[i] = "unlock" <=> i = 2 * n + 5
               /\ q[i] = "open" => \E j \in (i + 1)..(2 * n + 5) : q[j] = "close"
    <3>1. 2 * n + 3 \in (1 + 1)..(2 * n + 5)
      OBVIOUS
    <3>2. CASE i = 1
      BY <1>4, <3>1, <3>2
    <3>3. CASE i \in 2..(2 * n + 2)
      BY <1>4, <3>3 DEF R
    <3>4. CASE i = 2 * n + 3
      BY <1>4, <3>4
    <3>5. CASE i = 2 * n + 4
      BY <1>4, <3>5 DEF R
    <3>6. CASE i = 2 * n + 5
      BY <1>4, <3>6
    <3>7. QED
      BY <1>5, <3>2, <3>3, <3>4, <3>5, <3>6
  <2>2. q # <<>>
    BY <1>3
  <2>3. QED
    BY <1>3, <2>1, <2>2 DEF HeldRest
<1>7. q = Tail(s)
  BY DEF q
<1>8. QED
  BY <1>1, <1>2, <1>6, <1>7 DEF FreeRest, s

\* Plain accesses one after the other.
LEMMA PlainTimes ==
  ASSUME NEW n \in Nat
  PROVE  /\ Times(n, <<W>>) \in Seq({R, W})
         /\ Times(n, Update) \in Seq({R, W})
         /\ Times(n, <<R, W, R>>) \in Seq({R, W})
<1>1. <<W>> \in Seq({R, W}) /\ Len(<<W>>) # 0
  OBVIOUS
<1>2. Update \in Seq({R, W}) /\ Len(Update) # 0
  BY DEF Update
<1>3. <<R, W, R>> \in Seq({R, W}) /\ Len(<<R, W, R>>) # 0
  OBVIOUS
<1>4. \A s \in Seq({R, W}) : Len(s) # 0 => Times(n, s) \in Seq({R, W})
  BY TimesIs
<1>5. QED
  BY <1>1, <1>2, <1>3, <1>4

LEMMA ConcatPlain ==
  ASSUME NEW s1 \in Seq({R, W}), NEW s2 \in Seq({R, W})
  PROVE  s1 \o s2 \in Seq({R, W})
BY ConcatProperties

LEMMA PlainParts ==
  /\ Update \in Seq({R, W}) /\ IntClear \in Seq({R, W}) /\ IntDisable \in Seq({R, W})
  /\ ResetLink \in Seq({R, W}) /\ InitCmdIo \in Seq({R, W}) /\ StopCmdIo \in Seq({R, W})
  /\ StreamClear \in Seq({R, W})
<1>1. Streams \in Nat
  BY MmioAssumption
<1>2. /\ Update \in Seq({R, W}) /\ <<W>> \in Seq({R, W}) /\ <<R>> \in Seq({R, W})
      /\ <<R, W>> \in Seq({R, W}) /\ <<W, W, R>> \in Seq({R, W}) /\ <<W, W, W, R>> \in Seq({R, W})
      /\ <<R, W, R>> \in Seq({R, W})
  BY DEF Update
<1>3. IntClear \in Seq({R, W})
  BY <1>1, <1>2, PlainTimes, ConcatPlain DEF IntClear
<1>4. IntDisable \in Seq({R, W})
  BY <1>1, <1>2, PlainTimes, ConcatPlain DEF IntDisable
<1>5. ResetLink \in Seq({R, W})
  BY <1>2, ConcatPlain DEF ResetLink
<1>6. InitCmdIo \in Seq({R, W})
  <2>1. Times(5, <<W>>) \in Seq({R, W}) /\ Times(7, <<W>>) \in Seq({R, W})
    BY PlainTimes
  <2>2. QED
    BY <1>2, <2>1, ConcatPlain DEF InitCmdIo
<1>7. StopCmdIo \in Seq({R, W}) /\ StreamClear \in Seq({R, W})
  BY <1>2, ConcatPlain DEF StopCmdIo, StreamClear
<1>8. QED
  BY <1>2, <1>3, <1>4, <1>5, <1>6, <1>7

\* Every program begins free.
LEMMA ProgramFree ==
  ASSUME NEW name \in ProgramNames
  PROVE  FreeRest(Program(name))
<1>1. FreeRest(Transaction(6)) /\ FreeRest(Transaction(8))
  BY TransactionFree
<1>2. /\ <<W, W, W, R>> \in Seq({R, W}) /\ <<R, W>> \in Seq({R, W}) /\ <<W, W>> \in Seq({R, W})
      /\ <<R>> \in Seq({R, W}) /\ Flushed(W) \in Seq({R, W})
  BY DEF Flushed
<1>3. Times(UartBytes, <<R, W, R>>) \in Seq({R, W}) /\ Times(5, <<W>>) \in Seq({R, W})
  BY MmioAssumption, PlainTimes
<1>4. StreamClear \o Update \o Times(5, <<W>>) \o <<R>> \o Update \o Update \o <<R>> \in Seq({R, W})
  BY <1>2, <1>3, PlainParts, ConcatPlain
<1>5. ResetLink \o IntClear \o InitCmdIo \o Update \o <<W, W>> \in Seq({R, W})
  BY <1>2, PlainParts, ConcatPlain
<1>6. IntDisable \o IntClear \o StopCmdIo \o <<W, W>> \in Seq({R, W})
  BY <1>2, PlainParts, ConcatPlain
<1>7. StreamClear \o Update \in Seq({R, W})
  BY PlainParts, ConcatPlain
<1>8. CASE name = "command_set"
  BY <1>1, <1>8 DEF Program
<1>9. CASE name = "command_get"
  BY <1>1, <1>9 DEF Program
<1>10. CASE name \notin {"command_set", "command_get"}
  <2>1. Program(name) \in Seq({R, W})
    BY <1>2, <1>3, <1>4, <1>5, <1>6, <1>7, <1>10, PlainParts DEF Program, ProgramNames
  <2>2. QED
    BY <2>1 DEF FreeRest
<1>11. QED
  BY <1>8, <1>9, <1>10

-----------------------------------------------------------------------------
(* The steps.                                                              *)

\* What remains is a sequence of accesses.
LEMMA RestIs ==
  ASSUME NEW s, HeldRest(s) \/ FreeRest(s)
  PROVE  s \in Seq(Accesses)
BY SeqMonotonic DEF HeldRest, FreeRest, Accesses

\* What follows in a sequence of accesses.
LEMMA TailIs ==
  ASSUME NEW s \in Seq(Accesses), s # <<>>
  PROVE  /\ Tail(s) \in Seq(Accesses) /\ Len(s) \in Nat \ {0} /\ Len(Tail(s)) = Len(s) - 1
         /\ \A i \in 1..Len(Tail(s)) : Tail(s)[i] = s[i + 1]
         /\ Head(s) = s[1]
BY HeadTailProperties, EmptySeq

\* A holder goes on to its release, ...
LEMMA HeldGoes ==
  ASSUME NEW s, HeldRest(s)
  PROVE  /\ Head(s) # "lock"
         /\ Head(s) # "unlock" => HeldRest(Tail(s))
         /\ Head(s) = "unlock" => Tail(s) = <<>> /\ ~WillClose(s)
         /\ Head(s) = "open" => WillClose(Tail(s))
         /\ WillClose(s) /\ Head(s) # "close" => WillClose(Tail(s))
<1> DEFINE l == Len(s)
           q == Tail(s)
<1>1. /\ q \in Seq(Accesses) /\ l \in Nat \ {0} /\ Len(q) = l - 1
      /\ \A i \in 1..(l - 1) : q[i] = s[i + 1]
      /\ Head(s) = s[1]
  BY TailIs DEF HeldRest
<1>2. \A i \in 1..l : /\ s[i] # "lock"
                      /\ s[i] = "unlock" <=> i = l
                      /\ s[i] = "open" => \E j \in (i + 1)..l : s[j] = "close"
  BY DEF HeldRest
<1> HIDE DEF l, q
<1>3. 1 \in 1..l /\ (\A i \in 1..(l - 1) : i + 1 \in 1..l) /\ \A j \in 2..l : j - 1 \in 1..(l - 1)
  BY <1>1
<1>4. Head(s) # "lock" /\ (Head(s) = "unlock" => l = 1)
  BY <1>1, <1>2, <1>3
<1>5. \A j \in 2..l : q[j - 1] = s[j]
  <2>1. \A j \in 2..l : (j - 1) + 1 = j
    BY <1>1
  <2>2. QED
    BY <1>1, <1>3, <2>1
<1>6. ASSUME Head(s) # "unlock" PROVE HeldRest(q)
  <2>1. l # 1
    BY <1>1, <1>2, <1>3, <1>6
  <2>2. q # <<>>
    BY <1>1, <2>1
  <2>3. ASSUME NEW i \in 1..(l - 1)
        PROVE  /\ q[i] # "lock"
               /\ q[i] = "unlock" <=> i = l - 1
               /\ q[i] = "open" => \E j \in (i + 1)..(l - 1) : q[j] = "close"
    <3>1. q[i] = s[i + 1] /\ i + 1 \in 1..l
      BY <1>1, <1>3
    <3>2. q[i] # "lock"
      BY <1>2, <3>1
    <3>3. q[i] = "unlock" <=> i = l - 1
      <4>1. s[i + 1] = "unlock" <=> i + 1 = l
        BY <1>2, <3>1
      <4>2. i + 1 = l <=> i = l - 1
        BY <1>1
      <4>3. QED
        BY <3>1, <4>1, <4>2
    <3>4. ASSUME q[i] = "open" PROVE \E j \in (i + 1)..(l - 1) : q[j] = "close"
      <4>1. s[i + 1] = "open" => \E j \in ((i + 1) + 1)..l : s[j] = "close"
        BY <1>2, <3>1
      <4>2. PICK j \in ((i + 1) + 1)..l : s[j] = "close"
        BY <3>1, <3>4, <4>1
      <4>3. j \in 2..l /\ j - 1 \in (i + 1)..(l - 1)
        BY <1>1
      <4>4. q[j - 1] = "close"
        BY <1>5, <4>2, <4>3
      <4>5. QED
        BY <4>3, <4>4
    <3>5. QED
      BY <3>2, <3>3, <3>4
  <2>4. QED
    BY <1>1, <2>2, <2>3 DEF HeldRest
<1>7. ASSUME Head(s) = "unlock" PROVE q = <<>> /\ ~WillClose(s)
  <2>1. l = 1
    BY <1>4, <1>7
  <2>2. q = <<>>
    BY <1>1, <2>1
  <2>3. \A i \in 1..l : s[i] = "unlock"
    BY <1>1, <1>7, <2>1
  <2>4. QED
    BY <2>2, <2>3 DEF WillClose, l
<1>8. ASSUME NEW j \in 2..l, s[j] = "close" PROVE WillClose(q)
  <2>1. j - 1 \in 1..(l - 1) /\ q[j - 1] = "close"
    BY <1>3, <1>5, <1>8
  <2>2. QED
    BY <1>1, <2>1 DEF WillClose
<1>9. ASSUME Head(s) = "open" PROVE WillClose(q)
  <2>1. s[1] = "open" /\ 1 + 1 = 2
    BY <1>1, <1>9
  <2>2. PICK j \in 2..l : s[j] = "close"
    BY <1>2, <1>3, <2>1
  <2>3. QED
    BY <1>8, <2>2
<1>10. ASSUME WillClose(s), Head(s) # "close" PROVE WillClose(q)
  <2>1. PICK j \in 1..l : s[j] = "close"
    BY <1>10 DEF WillClose, l
  <2>2. j # 1
    BY <1>1, <1>10, <2>1
  <2>3. j \in 2..l
    BY <1>1, <2>2
  <2>4. QED
    BY <1>8, <2>1, <2>3
<1>11. QED
  BY <1>4, <1>6, <1>7, <1>9, <1>10 DEF q

\* ... and another one as far as its lock.
LEMMA FreeGoes ==
  ASSUME NEW s, FreeRest(s), s # <<>>
  PROVE  /\ Head(s) \in {R, W, "lock"}
         /\ Head(s) = "lock" => HeldRest(Tail(s))
         /\ Head(s) # "lock" => FreeRest(Tail(s))
<1>1. CASE s \in Seq({R, W})
  <2>1. Head(s) \in {R, W} /\ Tail(s) \in Seq({R, W})
    BY <1>1, HeadTailProperties
  <2>2. QED
    BY <2>1 DEF FreeRest, R, W
<1>2. CASE Head(s) = "lock" /\ HeldRest(Tail(s))
  BY <1>2
<1>3. QED
  BY <1>1, <1>2 DEF FreeRest

\* A context goes one access further; the others stay.
Goes(c) ==
  /\ todo[c] # <<>>
  /\ todo' = [d \in Contexts |-> IF d = c THEN Tail(todo[c]) ELSE todo[d]]

LEMMA AtGoes ==
  ASSUME NEW c \in Contexts, NEW access, MutexInv, At(c, access)
  PROVE  Goes(c) /\ Head(todo[c]) = access
BY DEF At, Goes, MutexInv

LEMMA MutexKept ==
  ASSUME MutexInv, [MmioNext]_mmioVars
  PROVE  MutexInv'
<1>1. ASSUME NEW c \in Contexts, NEW name \in Programs[c], Start(c, name) PROVE MutexInv'
  <2>1. /\ todo[c] = <<>> /\ todo' = [d \in Contexts |-> IF d = c THEN Program(name) ELSE todo[d]]
        /\ mem_mutex' = mem_mutex /\ opened' = opened
    BY <1>1 DEF Start, MutexInv
  <2>2. mem_mutex # c /\ c \notin opened
    BY <2>1 DEF MutexInv, HeldRest
  <2>3. FreeRest(Program(name))
    BY MmioAssumption, ProgramFree
  <2>4. QED
    BY <2>1, <2>2, <2>3 DEF MutexInv
<1>2. ASSUME NEW c \in Contexts, Lock(c) PROVE MutexInv'
  <2>1. Goes(c) /\ Head(todo[c]) = "lock" /\ mem_mutex = Nobody /\ mem_mutex' = c /\ opened' = opened
    BY <1>2, AtGoes DEF Lock
  <2>2. mem_mutex # c /\ \A d \in Contexts : d \notin opened /\ FreeRest(todo[d])
    BY <2>1, NobodyAssumption DEF MutexInv
  <2>3. HeldRest(Tail(todo[c]))
    BY <2>1, <2>2, FreeGoes DEF Goes
  <2>4. QED
    BY <2>1, <2>2, <2>3 DEF MutexInv, Goes
<1>3. ASSUME NEW c \in Contexts, Unlock(c) PROVE MutexInv'
  <2>1. Goes(c) /\ Head(todo[c]) = "unlock" /\ mem_mutex' = Nobody /\ opened' = opened
    BY <1>3, AtGoes DEF Unlock
  <2>2. mem_mutex = c
    <3>1. ~FreeRest(todo[c])
      BY <2>1, FreeGoes DEF Goes, R, W
    <3>2. QED
      BY <3>1 DEF MutexInv
  <2>3. Tail(todo[c]) = <<>> /\ c \notin opened
    BY <2>1, <2>2, HeldGoes DEF MutexInv
  <2>4. FreeRest(<<>>)
    BY DEF FreeRest
  <2>5. \A d \in Contexts : d # Nobody /\ d \notin opened
    BY <2>2, <2>3, NobodyAssumption DEF MutexInv
  <2>6. \A d \in Contexts : FreeRest(todo'[d])
    BY <2>1, <2>2, <2>3, <2>4 DEF MutexInv, Goes
  <2>7. QED
    BY <2>1, <2>5, <2>6 DEF MutexInv, Goes
<1>4. ASSUME NEW c \in Contexts, Read(c) \/ Write(c) PROVE MutexInv'
  <2>1. PICK access \in {R, W, "open", "engine", "close"} :
          /\ Goes(c) /\ Head(todo[c]) = access /\ mem_mutex' = mem_mutex
          /\ opened' = IF access = "open" THEN opened \cup {c}
                       ELSE IF access = "close" THEN opened \ {c} ELSE opened
    BY <1>4, AtGoes DEF Read, Write, R, W
  <2>2. access # "lock" /\ access # "unlock"
    BY DEF R, W
  <2>3. CASE mem_mutex = c
    <3>1. HeldRest(todo[c]) /\ HeldRest(Tail(todo[c]))
      BY <2>1, <2>2, <2>3, HeldGoes DEF MutexInv
    <3>2. c \in opened' => WillClose(Tail(todo[c]))
      BY <2>1, <3>1, HeldGoes DEF MutexInv
    <3>3. QED
      BY <2>1, <2>3, <3>1, <3>2 DEF MutexInv, Goes
  <2>4. CASE mem_mutex # c
    <3>1. FreeRest(todo[c]) /\ c \notin opened
      BY <2>4 DEF MutexInv
    <3>2. access \in {R, W} /\ FreeRest(Tail(todo[c]))
      BY <2>1, <2>2, <3>1, FreeGoes DEF Goes
    <3>3. opened' = opened
      BY <2>1, <3>2 DEF R, W
    <3>4. QED
      BY <2>1, <2>4, <3>1, <3>2, <3>3 DEF MutexInv, Goes
  <2>5. QED
    BY <2>3, <2>4
<1>5. CASE UNCHANGED mmioVars
  BY <1>5 DEF mmioVars, MutexInv
<1>6. QED
  BY <1>1, <1>2, <1>3, <1>4, <1>5 DEF MmioNext

-----------------------------------------------------------------------------

\* What is left of a context's program, mem_mutex and the engine's transaction
\* agree from the beginning on.
THEOREM MutexInvariant == MmioSpec => []MutexInv
<1>1. MmioInit => MutexInv
  BY NobodyAssumption DEF MmioInit, MutexInv, FreeRest
<1>2. QED
  BY <1>1, MutexKept, PTL DEF MmioSpec

\* The command engine serves one transaction at a time, for any contexts and
\* whatever programs each of them runs: from the unlock code to the relock only the
\* context that opened it writes its registers (mem_mutex, ca0113_mmio_command_set).
THEOREM EngineExcludes == MmioSpec => []OneTransaction
<1>1. MutexInv => OneTransaction
  <2> SUFFICES ASSUME MutexInv, NEW c \in opened
               PROVE  /\ opened = {c}
                      /\ \A d \in Contexts \ {c} :
                           todo[d] # <<>> => Head(todo[d]) \notin {"open", "engine", "close"}
    BY DEF OneTransaction
  <2>1. c \in Contexts /\ mem_mutex = c /\ opened = {c}
    BY DEF MutexInv
  <2>2. \A d \in Contexts \ {c} : FreeRest(todo[d])
    BY <2>1 DEF MutexInv
  <2>3. QED
    BY <2>1, <2>2, FreeGoes DEF R, W
<1>2. QED
  BY <1>1, MutexInvariant, PTL

-----------------------------------------------------------------------------
(* ScpChannel: types.                                                      *)

\* A reader in the middle of a reply knows its length and is not beyond it.
ReadersInv == \A r \in Readers : pc[r][1] = "word" => size[r] = Words /\ count[r] < Words

ScpTypes == ScpTypeOK /\ ReadersInv

\* What a requester and a handler can be doing.
LEMMA PlacesAre ==
  /\ \A p \in Places : p = <<p[1], p[2]>>
  /\ \A k \in {"idle", "poll", "sleep"} : <<k, "none">> \in Places
  /\ \A k \in Reading, s \in {"post", "status", "data"} : <<k, s>> \in Places
  /\ \A p \in Places : \A k : p \in Reading \X {k} => p[1] \in Reading /\ p[2] = k
  /\ \A p \in Places : p[1] \in Reading => p[2] \in {"post", "status", "data"}
  /\ \A p \in Places : p[1] \in {"idle", "poll", "sleep"} \cup Reading
BY DEF Places, Reading

\* The sets that the types are made of stay.
LEMMA SetsStay ==
  ASSUME notifies' = notifies
  PROVE  Limit' = Limit /\ Gets' = Gets /\ GetSet' = GetSet /\ WordSet' = WordSet
BY DEF Limit, Gets, GetSet, WordSet

LEMMA LimitIs == ASSUME notifies \in BOOLEAN PROVE Limit \in Nat
BY ScpAssumption DEF Limit

\* A reply, word by word.
LEMMA ReplyIs ==
  ASSUME NEW g \in GetSet
  PROVE  /\ Reply(g) \in Seq(WordSet) /\ Len(Reply(g)) = Words + 1
         /\ \A i \in 1..(Words + 1) : Reply(g)[i] = [get |-> g, pos |-> i - 1]
<1>1. Words \in Nat /\ Words + 1 \in Nat
  BY ScpAssumption
<1>2. \A i \in 1..(Words + 1) : i - 1 \in 0..Words
  BY <1>1
<1>3. Reply(g) \in [1..(Words + 1) -> WordSet]
  BY <1>2 DEF Reply, WordSet
<1>4. QED
  BY <1>1, <1>3, SeqDef, LenProperties DEF Reply

\* A reader goes on in the queue.
LEMMA ReaderTypes ==
  ASSUME ScpTypes, NEW r \in Readers, ReadQueue(r)
  PROVE  ScpTypes'
<1>1. notifies' = notifies
  BY DEF ReadQueue, Post, StatusOk, StatusEmpty, HeadData, WordData, ClearData, dsp
<1>2. Limit' = Limit /\ Gets' = Gets /\ GetSet' = GetSet /\ WordSet' = WordSet
  BY <1>1, SetsStay
<1>3. Words \in 1..4 /\ pc \in [Readers -> Places] /\ pc[r] \in Places
  BY ScpAssumption DEF ScpTypes, ScpTypeOK
<1>4. CASE Post(r)
  <2>1. queue # <<>> => Head(queue) \in WordSet /\ Tail(queue) \in Seq(WordSet)
    BY HeadTailProperties DEF ScpTypes, ScpTypeOK
  <2>2. queue' \in Seq(WordSet) /\ data' \in WordSet /\ status' \in {"ok", "empty"}
    BY <1>4, <2>1 DEF Post, ScpTypes, ScpTypeOK
  <2>3. pc' = [pc EXCEPT ![r] = <<pc[r][1], "status">>] /\ pc[r][1] \in Reading
    BY <1>3, <1>4, PlacesAre DEF Post, Goto
  <2>4. pc' \in [Readers -> Places] /\ \A s \in Readers : pc'[s][1] = pc[s][1]
    BY <1>3, <2>3, PlacesAre
  <2>5. QED
    BY <1>2, <1>4, <2>2, <2>4 DEF Post, ScpTypes, ScpTypeOK, ReadersInv, shared, locals, calls
<1>5. CASE StatusOk(r) \/ ClearData(r)
  <2>1. PICK k \in {<<pc[r][1], "data">>, <<"clear", "post">>} :
          pc' = [pc EXCEPT ![r] = k] /\ pc[r][1] \in Reading /\ k[1] = pc[r][1]
    <3>1. CASE StatusOk(r)
      <4>1. pc[r][1] \in Reading /\ pc' = [pc EXCEPT ![r] = <<pc[r][1], "data">>]
        BY <1>3, <3>1, PlacesAre DEF StatusOk, Goto
      <4>2. <<pc[r][1], "data">>[1] = pc[r][1]
        OBVIOUS
      <4>3. QED
        BY <4>1, <4>2
    <3>2. CASE ClearData(r)
      <4>1. pc[r] = <<"clear", "data">> /\ pc' = [pc EXCEPT ![r] = <<"clear", "post">>]
        BY <3>2 DEF ClearData, Goto
      <4>2. pc[r][1] = "clear" /\ <<"clear", "post">>[1] = "clear"
        BY <4>1
      <4>3. QED
        BY <4>1, <4>2 DEF Reading
    <3>3. QED
      BY <1>5, <3>1, <3>2
  <2>2. k \in Places
    BY <2>1, PlacesAre DEF Reading
  <2>3. pc' \in [Readers -> Places] /\ \A s \in Readers : pc'[s][1] = pc[s][1]
    BY <1>3, <2>1, <2>2
  <2>4. QED
    BY <1>2, <1>5, <2>3 DEF StatusOk, ClearData, ScpTypes, ScpTypeOK, ReadersInv, dsp, shared, locals, calls
<1>6. CASE StatusEmpty(r)
  <2>1. PICK k \in {<<"clear", "post">>, <<"sleep", "none">>, <<"poll", "none">>, <<"idle", "none">>} :
          pc' = [pc EXCEPT ![r] = k]
    <3>1. pc[r][1] \in {"head", "word", "clear"}
      BY <1>3, <1>6, PlacesAre DEF StatusEmpty, Reading
    <3>2. CASE pc[r][1] = "head"
      BY <1>6, <3>2 DEF StatusEmpty, Missed, Goto
    <3>3. CASE pc[r][1] = "word"
      BY <1>6, <3>3 DEF StatusEmpty, Matched, Goto
    <3>4. CASE pc[r][1] = "clear"
      BY <1>6, <3>4 DEF StatusEmpty, Goto
    <3>5. QED
      BY <3>1, <3>2, <3>3, <3>4
  <2>2. k \in Places /\ k[1] # "word"
    BY <2>1, PlacesAre DEF Reading
  <2>3. pc' \in [Readers -> Places] /\ \A s \in Readers : pc'[s][1] = "word" => pc[s][1] = "word"
    BY <1>3, <2>1, <2>2
  <2>4. wait_scp' \in BOOLEAN /\ wait_scp_header' \in Reqs /\ scp_resp_header' \in WordSet
        /\ scp_resp_data' \in [1..Words -> WordSet] /\ scp_resp_count' \in 0..Words
    <3>1. CASE pc[r][1] = "word"
      BY <1>6, <3>1 DEF StatusEmpty, Matched, ScpTypes, ScpTypeOK
    <3>2. CASE pc[r][1] # "word"
      <4>1. pc[r][1] \in {"head", "clear"}
        BY <1>3, <1>6, <3>2, PlacesAre DEF StatusEmpty, Reading
      <4>2. UNCHANGED shared
        <5>1. CASE pc[r][1] = "head"
          BY <1>6, <5>1 DEF StatusEmpty
        <5>2. CASE pc[r][1] = "clear"
          BY <1>6, <5>2 DEF StatusEmpty
        <5>3. QED
          BY <4>1, <5>1, <5>2
      <4>3. QED
        BY <4>2 DEF shared, ScpTypes, ScpTypeOK
    <3>3. QED
      BY <3>1, <3>2
  <2>5. QED
    BY <1>2, <1>6, <2>3, <2>4 DEF StatusEmpty, ScpTypes, ScpTypeOK, ReadersInv, dsp, locals, calls
<1>7. CASE HeadData(r)
  <2>1. CASE IsReply(data)
    <3>1. /\ pc' = [pc EXCEPT ![r] = <<"word", "post">>]
          /\ size' = [size EXCEPT ![r] = Words] /\ count' = [count EXCEPT ![r] = 0]
          /\ scp_resp_header' = data /\ scp_resp_count' = Words
          /\ UNCHANGED <<wait_scp, wait_scp_header, scp_resp_data>>
      BY <1>7, <2>1 DEF HeadData, Goto
    <3>2. pc' \in [Readers -> Places]
      BY <1>3, <3>1, PlacesAre DEF Reading
    <3>3. 0 < Words /\ 0 \in 0..Words /\ Words \in 0..Words
      BY <1>3
    <3>4. size' \in [Readers -> 0..Words] /\ count' \in [Readers -> 0..Words]
      BY <3>1, <3>3 DEF ScpTypes, ScpTypeOK
    <3>5. ReadersInv'
      BY <1>3, <3>1, <3>3 DEF ScpTypes, ScpTypeOK, ReadersInv
    <3>6. QED
      BY <1>2, <1>7, <3>1, <3>2, <3>3, <3>4, <3>5 DEF HeadData, ScpTypes, ScpTypeOK, dsp, calls
  <2>2. CASE ~IsReply(data)
    <3>1. PICK k \in {<<"clear", "post">>, <<"sleep", "none">>} : pc' = [pc EXCEPT ![r] = k]
      BY <1>7, <2>2 DEF HeadData, Missed, Goto
    <3>2. k \in Places /\ k[1] # "word"
      BY <3>1, PlacesAre DEF Reading
    <3>3. pc' \in [Readers -> Places] /\ \A s \in Readers : pc'[s][1] = "word" => pc[s][1] = "word"
      BY <1>3, <3>1, <3>2
    <3>4. QED
      BY <1>2, <1>7, <2>2, <3>3
         DEF HeadData, ScpTypes, ScpTypeOK, ReadersInv, dsp, shared, locals, calls
  <2>3. QED
    BY <2>1, <2>2
<1>8. CASE WordData(r)
  <2>1. /\ pc[r] = <<"word", "data">> /\ size[r] = Words /\ count[r] < Words /\ count[r] \in Nat
        /\ scp_resp_data' = [scp_resp_data EXCEPT ![count[r] + 1] = data]
        /\ count' = [count EXCEPT ![r] = count[r] + 1] /\ size' = size
    BY <1>8 DEF WordData, ScpTypes, ScpTypeOK, ReadersInv
  <2>2. count[r] + 1 \in 1..Words
    BY <1>3, <2>1
  <2>3. /\ scp_resp_data' \in [1..Words -> WordSet] /\ count' \in [Readers -> 0..Words]
    BY <2>1, <2>2 DEF ScpTypes, ScpTypeOK
  <2>4. CASE count[r] + 1 < size[r]
    <3>1. /\ pc' = [pc EXCEPT ![r] = <<"word", "post">>] /\ UNCHANGED <<wait_scp, scp_resp_count>>
      BY <1>8, <2>4 DEF WordData, Goto
    <3>2. pc' \in [Readers -> Places]
      BY <1>3, <3>1, PlacesAre DEF Reading
    <3>3. ReadersInv'
      BY <1>3, <2>1, <2>4, <3>1 DEF ScpTypes, ScpTypeOK, ReadersInv
    <3>4. QED
      BY <1>2, <1>8, <2>3, <3>1, <3>2, <3>3 DEF WordData, ScpTypes, ScpTypeOK, dsp, calls
  <2>5. CASE ~(count[r] + 1 < size[r])
    <3>1. PICK k \in {<<"clear", "post">>, <<"poll", "none">>} :
            pc' = [pc EXCEPT ![r] = k] /\ wait_scp' = FALSE /\ scp_resp_count' = count[r] + 1
      BY <1>8, <2>5 DEF WordData, Matched, Goto
    <3>2. k \in Places /\ k[1] # "word"
      BY <3>1, PlacesAre DEF Reading
    <3>3. pc' \in [Readers -> Places] /\ pc'[r][1] # "word" /\ \A s \in Readers \ {r} : pc'[s] = pc[s]
      BY <1>3, <3>1, <3>2
    <3>4. ReadersInv'
      BY <2>1, <3>3 DEF ScpTypes, ScpTypeOK, ReadersInv
    <3>5. QED
      BY <1>2, <1>8, <2>2, <2>3, <3>1, <3>3, <3>4 DEF WordData, ScpTypes, ScpTypeOK, dsp, calls
  <2>6. QED
    BY <2>4, <2>5
<1>9. QED
  BY <1>4, <1>5, <1>6, <1>7, <1>8 DEF ReadQueue

\* The requester and the handler between their turns in the queue.
LEMMA TurnTypes ==
  ASSUME ScpTypes, Poll \/ Sleep \/ Finish \/ TimeOut \/ Handle
  PROVE  ScpTypes'
<1>1. notifies' = notifies
  BY DEF Poll, Sleep, Finish, TimeOut, Handle, dsp
<1>2. Limit' = Limit /\ Gets' = Gets /\ GetSet' = GetSet /\ WordSet' = WordSet
  BY <1>1, SetsStay
<1>3. PICK r \in Readers, k \in {<<"head", "post">>, <<"clear", "post">>, <<"poll", "none">>, <<"idle", "none">>} :
        pc' = [pc EXCEPT ![r] = k]
  <2>1. CASE Poll \/ Sleep
    BY <2>1 DEF Poll, Sleep, Goto, Readers
  <2>2. CASE Finish \/ TimeOut
    BY <2>2 DEF Finish, TimeOut, End, Goto, Readers
  <2>3. CASE Handle
    BY <2>3 DEF Handle, Goto, Readers
  <2>4. QED
    BY <2>1, <2>2, <2>3
<1>4. k \in Places /\ k[1] # "word" /\ pc \in [Readers -> Places]
  <2>1. k \in Places
    BY <1>3, PlacesAre DEF Reading
  <2>2. k[1] # "word"
    BY <1>3
  <2>3. pc \in [Readers -> Places]
    BY Zenon DEF ScpTypes, ScpTypeOK
  <2>4. QED
    BY <2>1, <2>2, <2>3, Zenon
<1>5. pc' \in [Readers -> Places] /\ \A s \in Readers : pc'[s][1] = "word" => pc[s][1] = "word"
  BY <1>3, <1>4
<1>6. /\ outcome'.kind \in {"none", "ok", "EINVAL", "EIO"}
      /\ late' \in 0..MaxLate /\ events' \in Nat /\ wait_scp' \in BOOLEAN
  <2>1. CASE Poll \/ Sleep
    BY <2>1 DEF Poll, Sleep, calls, shared, ScpTypes, ScpTypeOK
  <2>2. CASE Finish
    BY <2>2 DEF Finish, End, shared, ScpTypes, ScpTypeOK
  <2>3. CASE TimeOut
    <3>1. late' = late \/ (late < MaxLate /\ late' = late + 1)
      BY <2>3 DEF TimeOut
    <3>2. late' \in 0..MaxLate
      BY <3>1, ScpAssumption DEF ScpTypes, ScpTypeOK
    <3>3. QED
      BY <2>3, <3>2 DEF TimeOut, End, ScpTypes, ScpTypeOK
  <2>4. CASE Handle
    BY <2>4 DEF Handle, calls, shared, ScpTypes, ScpTypeOK
  <2>5. QED
    BY <2>1, <2>2, <2>3, <2>4
<1>7. /\ UNCHANGED <<dsp, locals, get, gets>>
      /\ UNCHANGED <<wait_scp_header, scp_resp_header, scp_resp_data, scp_resp_count>>
  BY DEF Poll, Sleep, Finish, TimeOut, Handle, calls, shared
<1>8. QED
  BY <1>2, <1>5, <1>6, <1>7 DEF ScpTypes, ScpTypeOK, ReadersInv, dsp, locals

\* A GET is numbered and sent, or not taken.
LEMMA SendTypes ==
  ASSUME ScpTypes, SendGet \/ SendFails
  PROVE  ScpTypes' /\ get' \in GetSet
<1>1. notifies' = notifies
  BY DEF SendGet, SendFails, dsp
<1>2. Limit' = Limit /\ Gets' = Gets /\ GetSet' = GetSet /\ WordSet' = WordSet
  BY <1>1, SetsStay
<1>3. gets' \in Gets
  <2>1. gets \in 0..Limit /\ gets < Limit /\ gets' = gets + 1 /\ Limit \in Nat
    BY LimitIs DEF SendGet, SendFails, ScpTypes, ScpTypeOK, Gets
  <2>2. QED
    BY <2>1 DEF Gets
<1>4. get' \in GetSet /\ get'.req \in Reqs
  <2>1. gets' = gets + 1
    BY DEF SendGet, SendFails
  <2>2. PICK q \in Reqs : get' = [id |-> gets + 1, req |-> q]
    BY DEF SendGet, SendFails
  <2>3. QED
    BY <1>3, <2>1, <2>2 DEF GetSet
<1>5. CASE SendGet
  <2>1. owed' \in Seq(GetSet)
    BY <1>4, <1>5 DEF SendGet, ScpTypes, ScpTypeOK
  <2>2. pc' = [pc EXCEPT !["requester"] = <<"poll", "none">>] /\ <<"poll", "none">> \in Places
    BY <1>5, PlacesAre DEF SendGet, Goto
  <2>3. pc' \in [Readers -> Places] /\ \A s \in Readers : pc'[s][1] = "word" => pc[s][1] = "word"
    BY <2>2 DEF ScpTypes, ScpTypeOK
  <2>4. QED
    BY <1>2, <1>3, <1>4, <1>5, <2>1, <2>3 DEF SendGet, ScpTypes, ScpTypeOK, ReadersInv, locals
<1>6. CASE SendFails
  <2>1. outcome'.kind = "EIO" /\ late' \in 0..MaxLate
    <3>1. outcome'.kind = "EIO"
      BY <1>6 DEF SendFails, NoOutcome
    <3>2. late < MaxLate /\ late' = late + 1
      BY <1>6 DEF SendFails
    <3>3. QED
      BY <3>1, <3>2, ScpAssumption DEF ScpTypes, ScpTypeOK
  <2>2. QED
    BY <1>2, <1>3, <1>4, <1>6, <2>1 DEF SendFails, ScpTypes, ScpTypeOK, ReadersInv, dsp, locals
<1>7. QED
  BY <1>4, <1>5, <1>6

\* The DSP queues a reply.
LEMMA AnswerTypes ==
  ASSUME ScpTypes, Answer
  PROVE  ScpTypes' /\ Head(owed) \in GetSet
<1>1. notifies' = notifies
  BY DEF Answer
<1>2. Limit' = Limit /\ Gets' = Gets /\ GetSet' = GetSet /\ WordSet' = WordSet
  BY <1>1, SetsStay
<1>3. owed \in Seq(GetSet) /\ owed # <<>> /\ queue \in Seq(WordSet) /\ events \in Nat
  BY DEF Answer, ScpTypes, ScpTypeOK
<1>4. Head(owed) \in GetSet /\ Tail(owed) \in Seq(GetSet)
  BY <1>3, HeadTailProperties
<1>5. queue \o Reply(Head(owed)) \in Seq(WordSet)
  BY <1>3, <1>4, ReplyIs, ConcatProperties
<1>6. events' \in Nat
  BY <1>3 DEF Answer
<1>7. QED
  BY <1>1, <1>2, <1>4, <1>5, <1>6 DEF Answer, ScpTypes, ScpTypeOK, ReadersInv, shared, locals, calls

\* The channel starts with them.
LEMMA ScpInitTypes == ASSUME ScpInit PROVE ScpTypes
<1>1. notifies \in BOOLEAN
  BY DEF ScpInit
<1>2. Limit \in Nat /\ 0 \in Gets
  BY <1>1, LimitIs DEF Gets
<1>3. NoGet.req \in Reqs /\ NoGet \in GetSet
  BY <1>2, ScpAssumption DEF NoGet, GetSet
<1>4. NoWord \in WordSet /\ 0 \in 0..Words /\ 0 \in 0..MaxLate
  BY <1>3, ScpAssumption DEF NoWord, WordSet
<1>5. Idle \in Places /\ Idle[1] # "word"
  BY PlacesAre DEF Idle
<1>6. pc \in [Readers -> Places] /\ ReadersInv
  BY <1>5 DEF ScpInit, ReadersInv
<1>7. scp_resp_data \in [1..Words -> WordSet] /\ scp_resp_count \in 0..Words
  BY <1>4 DEF ScpInit
<1>8. size \in [Readers -> 0..Words] /\ count \in [Readers -> 0..Words]
  BY <1>4 DEF ScpInit
<1>9. owed \in Seq(GetSet) /\ queue \in Seq(WordSet) /\ outcome.kind = "none" /\ events \in Nat
  BY DEF ScpInit, NoOutcome
<1>10. QED
  BY <1>1, <1>2, <1>3, <1>4, <1>6, <1>7, <1>8, <1>9 DEF ScpInit, ScpTypes, ScpTypeOK

\* One flag never changes: whether the DSP raises unsolicited responses.
LEMMA NotifiesStays == ASSUME ScpNext PROVE notifies' = notifies
<1>1. ASSUME NEW r \in Readers, ReadQueue(r) PROVE notifies' = notifies
  BY <1>1 DEF ReadQueue, Post, StatusOk, StatusEmpty, HeadData, WordData, ClearData, dsp
<1>2. QED
  BY <1>1 DEF ScpNext, SendGet, SendFails, Poll, Finish, Sleep, TimeOut, Handle, Answer, dsp

\* Every step keeps the types.
LEMMA ScpNextTypes == ASSUME ScpTypes, [ScpNext]_scpVars PROVE ScpTypes'
<1>1. CASE UNCHANGED scpVars
  <2>1. notifies' = notifies
    BY <1>1 DEF scpVars, dsp
  <2>2. Limit' = Limit /\ Gets' = Gets /\ GetSet' = GetSet /\ WordSet' = WordSet
    BY <2>1, SetsStay
  <2>3. QED
    BY <1>1, <2>2 DEF scpVars, dsp, shared, locals, calls, ScpTypes, ScpTypeOK, ReadersInv
<1>2. QED
  BY <1>1, ReaderTypes, TurnTypes, SendTypes, AnswerTypes DEF ScpNext

\* The variables of the request channel keep their types, whoever reads the queue:
\* dspio_read_multiple never stores beyond scp_resp_data, and at most MaxGets are sent.
THEOREM ScpTypesHold == ScpSpec => []ScpTypes
<1>1. QED
  BY ScpInitTypes, ScpNextTypes, PTL DEF ScpSpec

-----------------------------------------------------------------------------
(* The request channel to a DSP that announces nothing.                    *)

\* Where the requester stands.
Asks == pc["requester"]
\* The requester has taken a word from the queue and not looked at it yet.
InHand == Asks[2] = "data" \/ (Asks[2] = "status" /\ status = "ok")
\* Word n of the reply whose header was taken for the answer.
ReadWord(n) == [get |-> scp_resp_header.get, pos |-> n]

\* Nobody else reads the queue.
Alone == events = 0 /\ pc["handler"] = Idle
Turns ==
  /\ Asks[1] # "clear"
  /\ Asks[1] \in {"head", "word", "sleep"} => wait_scp
  /\ Asks[1] = "idle" => ~wait_scp
  /\ Asks[1] # "idle" => wait_scp_header = get.req
\* A word of a reply that is not its last is followed by the next one: in the queue, and
\* between the data register and the queue.
QueueWhole ==
  \A k \in 1..Len(queue) : queue[k].pos < Words =>
    /\ k + 1 \in 1..Len(queue)
    /\ queue[k + 1] = [get |-> queue[k].get, pos |-> queue[k].pos + 1]
HandWhole ==
  InHand /\ data.pos < Words =>
    queue # <<>> /\ queue[1] = [get |-> data.get, pos |-> data.pos + 1]
\* The first n words were read, and belong to a reply to this kind of request.
WordsRead(n) ==
  /\ scp_resp_header.get.req = get.req
  /\ \A i \in 1..n : scp_resp_data[i] = ReadWord(i)
ReadingOn ==
  Asks[1] = "word" =>
    /\ WordsRead(count["requester"])
    /\ Asks[2] = "post" => queue # <<>> /\ queue[1] = ReadWord(count["requester"] + 1)
    /\ Asks[2] = "status" => status = "ok"
    /\ Asks[2] # "post" => data = ReadWord(count["requester"] + 1)
ReadAll == Asks[1] = "poll" /\ ~wait_scp => WordsRead(Words) /\ scp_resp_count = Words
\* The reply to the GET waited for is still to come.
Pending ==
  wait_scp /\ Asks[1] # "word" =>
    \/ \E k \in 1..Len(owed) : owed[k] = get
    \/ \E k \in 1..Len(queue) : queue[k] = [get |-> get, pos |-> 0]
    \/ Asks[1] = "head" /\ InHand /\ data = [get |-> get, pos |-> 0]
\* The queue holds the reply to this GET from its word n on, and nothing else.
Left(n) ==
  /\ Len(queue) = Words + 1 - n
  /\ \A k \in 1..Len(queue) : queue[k] = [get |-> get, pos |-> n + k - 1]
\* While no reply was late, there is never more than one on its way: this GET's.
Exact ==
  late = 0 =>
    /\ ~wait_scp => owed = <<>> /\ queue = <<>>
    /\ ~wait_scp /\ Asks[1] = "poll" => scp_resp_header.get = get
    /\ wait_scp /\ Asks[1] # "word" /\ ~InHand =>
         \/ owed = <<get>> /\ queue = <<>>
         \/ owed = <<>> /\ Left(0)
    /\ Asks[1] = "head" /\ InHand => owed = <<>> /\ Left(1) /\ data = [get |-> get, pos |-> 0]
    /\ Asks[1] = "word" /\ Asks[2] = "post" =>
         owed = <<>> /\ scp_resp_header.get = get /\ Left(count["requester"] + 1)
    /\ Asks[1] = "word" /\ Asks[2] # "post" =>
         owed = <<>> /\ scp_resp_header.get = get /\ Left(count["requester"] + 2)
Told == WholeReply /\ AnsweredInTime

PolledInv ==
  /\ Alone /\ Turns /\ QueueWhole /\ HandWhole /\ ReadingOn /\ ReadAll /\ Pending /\ Exact
  /\ Told

\* What the requester's step may do to its place.
LEMMA AsksIs ==
  ASSUME ScpTypes, NEW k, pc' = [pc EXCEPT !["requester"] = k]
  PROVE  Asks' = k /\ pc'["handler"] = pc["handler"]
BY DEF ScpTypes, ScpTypeOK, Asks, Readers

\* A verb of the requester is executed from a place in the queue.
LEMMA AsksPlaces ==
  ASSUME ScpTypes
  PROVE  Asks \in Places /\ (Asks[1] \in Reading => Asks[2] \in {"post", "status", "data"})
BY PlacesAre DEF ScpTypes, ScpTypeOK, Asks, Readers

\* Reading the oldest word of the queue.
LEMMA PolledPost ==
  ASSUME ScpTypes, PolledInv, Post("requester")
  PROVE  PolledInv'
<1>1. /\ Asks[1] \in Reading /\ Asks[2] = "post" /\ Asks'[1] = Asks[1] /\ Asks'[2] = "status"
      /\ pc'["handler"] = pc["handler"]
  <2>1. pc' = [pc EXCEPT !["requester"] = <<Asks[1], "status">>] /\ Asks \in Reading \X {"post"}
    BY DEF Post, Goto, Asks
  <2>2. Asks' = <<Asks[1], "status">> /\ pc'["handler"] = pc["handler"]
    BY <2>1, AsksIs
  <2>3. QED
    BY <2>1, <2>2
<1>2. /\ UNCHANGED <<owed, events, wait_scp, wait_scp_header, scp_resp_header, scp_resp_data>>
      /\ UNCHANGED <<scp_resp_count, count, get, late, outcome>>
  BY DEF Post, shared, locals, calls
<1>3. Words \in 1..4 /\ queue \in Seq(WordSet) /\ Len(queue) \in Nat /\ count["requester"] \in Nat
  BY ScpAssumption DEF ScpTypes, ScpTypeOK, Readers
<1>4. Alone' /\ Turns' /\ ReadAll' /\ Told'
  BY <1>1, <1>2 DEF PolledInv, Alone, Turns, ReadAll, WordsRead, ReadWord, Told, WholeReply, AnsweredInTime
<1>5. Asks[1] \in {"head", "word"} /\ wait_scp /\ ~InHand
  BY <1>1 DEF PolledInv, Turns, Reading, InHand
<1>6. CASE queue = <<>>
  <2>1. status' = "empty" /\ queue' = queue /\ data' = data
    BY <1>6 DEF Post
  <2>2. ~InHand' /\ Asks[1] # "word"
    BY <1>1, <1>6, <2>1 DEF InHand, PolledInv, ReadingOn
  <2>3. QueueWhole' /\ HandWhole' /\ ReadingOn'
    BY <1>1, <2>1, <2>2 DEF PolledInv, QueueWhole, HandWhole, ReadingOn
  <2>4. Pending' /\ Exact'
    BY <1>1, <1>2, <1>5, <2>1, <2>2 DEF PolledInv, Pending, Exact, Left
  <2>5. QED
    BY <1>4, <2>3, <2>4 DEF PolledInv
<1>7. CASE queue # <<>>
  <2>1. status' = "ok" /\ data' = queue[1] /\ queue' = Tail(queue)
    BY <1>7 DEF Post
  <2>2. Len(queue) >= 1 /\ Len(queue') = Len(queue) - 1 /\ Len(queue') \in Nat
    BY <1>3, <1>7, <2>1
  <2>3. \A k \in 1..Len(queue') : k + 1 \in 1..Len(queue) /\ queue'[k] = queue[k + 1]
    BY <1>3, <1>7, <2>1, <2>2
  <2>5. InHand'
    BY <1>1, <2>1 DEF InHand
  <2>6. QueueWhole'
    <3> SUFFICES ASSUME NEW k \in 1..Len(queue'), queue'[k].pos < Words
                 PROVE  /\ k + 1 \in 1..Len(queue')
                        /\ queue'[k + 1] = [get |-> queue'[k].get, pos |-> queue'[k].pos + 1]
      BY DEF QueueWhole
    <3>1. k + 1 \in 1..Len(queue) /\ queue'[k] = queue[k + 1]
      BY <2>3
    <3>2. (k + 1) + 1 \in 1..Len(queue) /\ queue[(k + 1) + 1] = [get |-> queue[k + 1].get, pos |-> queue[k + 1].pos + 1]
      BY <3>1 DEF PolledInv, QueueWhole
    <3>3. k + 1 \in 1..Len(queue')
      BY <2>2, <3>2
    <3>4. queue'[k + 1] = queue[(k + 1) + 1]
      BY <2>3, <3>3
    <3>5. QED
      BY <3>1, <3>2, <3>3, <3>4
  <2>7. HandWhole'
    <3> SUFFICES ASSUME queue[1].pos < Words
                 PROVE  queue' # <<>> /\ queue'[1] = [get |-> queue[1].get, pos |-> queue[1].pos + 1]
      BY <2>1 DEF HandWhole
    <3>1. 1 + 1 \in 1..Len(queue) /\ queue[1 + 1] = [get |-> queue[1].get, pos |-> queue[1].pos + 1]
      BY <2>2 DEF PolledInv, QueueWhole
    <3>2. 1 \in 1..Len(queue')
      BY <2>2, <3>1
    <3>3. queue'[1] = queue[1 + 1]
      BY <2>3, <3>2
    <3>4. QED
      BY <3>1, <3>2, <3>3
  <2>8. ReadingOn'
    BY <1>1, <1>2, <2>1 DEF PolledInv, ReadingOn, WordsRead, ReadWord
  <2>9. Pending'
    <3> SUFFICES ASSUME Asks[1] # "word"
                 PROVE  \/ \E k \in 1..Len(owed) : owed[k] = get
                        \/ \E k \in 1..Len(queue') : queue'[k] = [get |-> get, pos |-> 0]
                        \/ Asks[1] = "head" /\ InHand' /\ queue[1] = [get |-> get, pos |-> 0]
      BY <1>1, <1>2, <2>1 DEF Pending
    <3>1. \/ \E k \in 1..Len(owed) : owed[k] = get
          \/ \E k \in 1..Len(queue) : queue[k] = [get |-> get, pos |-> 0]
      BY <1>5 DEF PolledInv, Pending
    <3>2. ASSUME NEW k \in 1..Len(queue), queue[k] = [get |-> get, pos |-> 0], k # 1
          PROVE  \E j \in 1..Len(queue') : queue'[j] = [get |-> get, pos |-> 0]
      <4>1. k - 1 \in 1..Len(queue')
        BY <2>2, <3>2
      <4>2. queue'[k - 1] = queue[k]
        BY <2>3, <4>1, <3>2
      <4>3. QED
        BY <3>2, <4>1, <4>2
    <3>3. QED
      BY <1>5, <2>5, <3>1, <3>2
  <2>10. Exact'
    <3> SUFFICES ASSUME late = 0 PROVE Exact'
      BY <1>2 DEF Exact
    <3>1. CASE Asks[1] = "head"
      <4>1. owed = <<>> /\ Left(0)
        BY <1>5, <1>7, <3>1 DEF PolledInv, Exact
      <4>2. queue[1] = [get |-> get, pos |-> 0]
        BY <1>3, <2>2, <4>1 DEF Left
      <4>3. Len(queue') = Words + 1 - 1
        BY <1>3, <2>2, <4>1 DEF Left
      <4>4. \A k \in 1..Len(queue') : queue'[k] = [get |-> get, pos |-> 1 + k - 1]
        BY <2>3, <2>2, <4>1 DEF Left
      <4>5. Left(1)'
        BY <1>2, <4>3, <4>4 DEF Left
      <4>6. QED
        BY <1>1, <1>2, <1>5, <2>1, <2>5, <3>1, <4>1, <4>2, <4>5 DEF Exact
    <3>2. CASE Asks[1] = "word"
      <4> DEFINE c == count["requester"]
      <4>1. owed = <<>> /\ scp_resp_header.get = get /\ Left(c + 1)
        BY <1>1, <3>2 DEF PolledInv, Exact
      <4>2. c \in Nat /\ c' = c
        BY <1>2, <1>3
      <4> HIDE DEF c
      <4>3. Len(queue') = Words + 1 - (c + 2)
        BY <1>3, <2>2, <4>1, <4>2 DEF Left
      <4>4. \A k \in 1..Len(queue') : queue'[k] = [get |-> get, pos |-> (c + 2) + k - 1]
        BY <2>3, <2>2, <4>1, <4>2 DEF Left
      <4>5. Left(c + 2)'
        BY <1>2, <4>2, <4>3, <4>4 DEF Left
      <4>6. QED
        BY <1>1, <1>2, <1>5, <2>5, <3>2, <4>1, <4>2, <4>5 DEF Exact, c
    <3>3. QED
      BY <1>5, <3>1, <3>2
  <2>11. QED
    BY <1>4, <2>6, <2>7, <2>8, <2>9, <2>10 DEF PolledInv
<1>8. QED
  BY <1>6, <1>7

\* The status of the last read: a word, or none.
LEMMA PolledStatus ==
  ASSUME ScpTypes, PolledInv, StatusOk("requester") \/ StatusEmpty("requester")
  PROVE  PolledInv'
<1>1. /\ Asks[1] \in {"head", "word"} /\ Asks[2] = "status" /\ wait_scp
      /\ Asks \in Reading \X {"status"}
  <2>1. Asks \in Reading \X {"status"}
    BY DEF StatusOk, StatusEmpty, Asks
  <2>2. QED
    BY <2>1 DEF PolledInv, Turns, Reading
<1>2. UNCHANGED <<owed, queue, data, status, events, count, get, late, outcome>>
  BY DEF StatusOk, StatusEmpty, dsp, locals, calls
<1>3. CASE StatusOk("requester")
  <2>1. status = "ok" /\ UNCHANGED shared /\ pc' = [pc EXCEPT !["requester"] = <<Asks[1], "data">>]
    BY <1>3 DEF StatusOk, Goto, Asks
  <2>2. Asks' = <<Asks[1], "data">> /\ pc'["handler"] = pc["handler"]
    BY <2>1, AsksIs
  <2>3. Asks'[1] = Asks[1] /\ Asks'[2] = "data" /\ InHand /\ InHand'
    BY <1>1, <2>1, <2>2 DEF InHand
  <2>4. Alone' /\ Turns' /\ ReadAll' /\ Told' /\ QueueWhole' /\ HandWhole'
    BY <1>1, <1>2, <2>1, <2>2, <2>3
       DEF PolledInv, Alone, Turns, ReadAll, Told, WholeReply, AnsweredInTime, QueueWhole, HandWhole, shared
  <2>5. ReadingOn'
    BY <1>1, <1>2, <2>1, <2>3 DEF PolledInv, ReadingOn, WordsRead, ReadWord, shared
  <2>6. Pending' /\ Exact'
    BY <1>1, <1>2, <2>1, <2>3 DEF PolledInv, Pending, Exact, Left, shared
  <2>7. QED
    BY <2>4, <2>5, <2>6 DEF PolledInv
<1>4. CASE StatusEmpty("requester")
  <2>1. status = "empty" /\ Asks[1] = "head"
    BY <1>1, <1>4 DEF StatusEmpty, PolledInv, ReadingOn
  <2>2. UNCHANGED shared /\ pc' = [pc EXCEPT !["requester"] = <<"sleep", "none">>]
    BY <1>4, <2>1 DEF StatusEmpty, Missed, Goto, Asks
  <2>3. Asks' = <<"sleep", "none">> /\ pc'["handler"] = pc["handler"]
    BY <2>2, AsksIs
  <2>4. Asks'[1] = "sleep" /\ Asks'[2] = "none" /\ ~InHand /\ ~InHand'
    BY <1>1, <1>2, <2>1, <2>3 DEF InHand
  <2>5. Alone' /\ Turns' /\ ReadAll' /\ Told' /\ QueueWhole' /\ HandWhole' /\ ReadingOn'
    BY <1>1, <1>2, <2>1, <2>2, <2>3, <2>4
       DEF PolledInv, Alone, Turns, ReadAll, Told, WholeReply, AnsweredInTime, QueueWhole, HandWhole,
           ReadingOn, shared
  <2>6. Pending' /\ Exact'
    BY <1>1, <1>2, <2>1, <2>2, <2>4 DEF PolledInv, Pending, Exact, Left, shared
  <2>7. QED
    BY <2>5, <2>6 DEF PolledInv
<1>5. QED
  BY <1>3, <1>4

\* The first word: the header waited for, or not.
LEMMA PolledHead ==
  ASSUME ScpTypes, PolledInv, HeadData("requester")
  PROVE  PolledInv'
<1>1. /\ Asks[1] = "head" /\ Asks[2] = "data" /\ wait_scp /\ InHand
      /\ wait_scp_header = get.req
  BY DEF HeadData, Asks, InHand, PolledInv, Turns
<1>2. UNCHANGED <<owed, queue, data, status, events, get, late, outcome>>
  BY DEF HeadData, dsp, calls
<1>3. Words \in 1..4 /\ data \in WordSet /\ get \in GetSet
  BY ScpAssumption DEF ScpTypes, ScpTypeOK
<1>4. CASE IsReply(data)
  <2>1. /\ scp_resp_header' = data /\ count' = [count EXCEPT !["requester"] = 0]
        /\ pc' = [pc EXCEPT !["requester"] = <<"word", "post">>]
        /\ UNCHANGED <<wait_scp, wait_scp_header, scp_resp_data>>
    BY <1>4 DEF HeadData, Goto
  <2>2. Asks' = <<"word", "post">> /\ pc'["handler"] = pc["handler"] /\ count'["requester"] = 0
    BY <2>1, AsksIs DEF ScpTypes, ScpTypeOK, Readers
  <2>3. Asks'[1] = "word" /\ Asks'[2] = "post" /\ ~InHand'
    BY <2>2 DEF InHand
  <2>4. data.pos = 0 /\ data.get.req = get.req
    BY <1>1, <1>4 DEF IsReply
  <2>5. queue # <<>> /\ queue[1] = [get |-> data.get, pos |-> 0 + 1]
    BY <1>1, <1>3, <2>4 DEF PolledInv, HandWhole
  <2>6. Alone' /\ Turns' /\ ReadAll' /\ Told' /\ QueueWhole' /\ HandWhole' /\ Pending'
    BY <1>1, <1>2, <2>1, <2>2, <2>3
       DEF PolledInv, Alone, Turns, ReadAll, Told, WholeReply, AnsweredInTime, QueueWhole, HandWhole, Pending
  <2>7. ReadingOn'
    <3>1. WordsRead(0)'
      BY <1>2, <2>1, <2>4 DEF WordsRead
    <3>2. queue' # <<>> /\ queue'[1] = [get |-> scp_resp_header'.get, pos |-> 0 + 1]
      BY <1>2, <2>1, <2>5
    <3>3. QED
      BY <2>2, <2>3, <3>1, <3>2 DEF ReadingOn, ReadWord, WordsRead
  <2>8. Exact'
    <3> SUFFICES ASSUME late = 0 PROVE Exact'
      BY <1>2 DEF Exact
    <3>1. owed = <<>> /\ Left(1) /\ data = [get |-> get, pos |-> 0]
      BY <1>1 DEF PolledInv, Exact
    <3>2. Left(0 + 1)' /\ scp_resp_header'.get = get
      BY <1>2, <2>1, <3>1 DEF Left
    <3>3. QED
      BY <1>1, <1>2, <2>1, <2>2, <2>3, <3>1, <3>2 DEF Exact
  <2>9. QED
    BY <2>6, <2>7, <2>8 DEF PolledInv
<1>5. CASE ~IsReply(data)
  <2>1. UNCHANGED shared /\ UNCHANGED locals /\ pc' = [pc EXCEPT !["requester"] = <<"sleep", "none">>]
    BY <1>5 DEF HeadData, Missed, Goto
  <2>2. Asks' = <<"sleep", "none">> /\ pc'["handler"] = pc["handler"]
    BY <2>1, AsksIs
  <2>3. Asks'[1] = "sleep" /\ ~InHand'
    BY <2>2 DEF InHand
  <2>4. data # [get |-> get, pos |-> 0]
    BY <1>1, <1>5 DEF IsReply
  <2>5. late # 0
    BY <1>1, <2>4 DEF PolledInv, Exact
  <2>6. Alone' /\ Turns' /\ ReadAll' /\ Told' /\ QueueWhole' /\ HandWhole' /\ ReadingOn' /\ Exact'
    BY <1>1, <1>2, <2>1, <2>2, <2>3, <2>5
       DEF PolledInv, Alone, Turns, ReadAll, Told, WholeReply, AnsweredInTime, QueueWhole, HandWhole,
           ReadingOn, Exact, shared
  <2>7. Pending'
    BY <1>1, <1>2, <2>1, <2>3, <2>4 DEF PolledInv, Pending, shared
  <2>8. QED
    BY <2>6, <2>7 DEF PolledInv
<1>6. QED
  BY <1>4, <1>5

\* A data word is stored.
LEMMA PolledWord ==
  ASSUME ScpTypes, PolledInv, WordData("requester")
  PROVE  PolledInv'
<1> DEFINE c == count["requester"]
<1>1. /\ Asks[1] = "word" /\ Asks[2] = "data" /\ wait_scp /\ InHand
      /\ wait_scp_header = get.req
  BY DEF WordData, Asks, InHand, PolledInv, Turns
<1>2. /\ UNCHANGED <<owed, queue, data, status, events, get, late, outcome>>
      /\ UNCHANGED <<wait_scp_header, scp_resp_header>>
  BY DEF WordData, dsp, calls
<1>3. Words \in 1..4 /\ c \in Nat /\ c < Words /\ size["requester"] = Words
  BY <1>1, ScpAssumption DEF ScpTypes, ScpTypeOK, ReadersInv, Asks, Readers
<1>4. /\ scp_resp_data' = [scp_resp_data EXCEPT ![c + 1] = data] /\ c' = c + 1
      /\ scp_resp_data \in [1..Words -> WordSet]
  BY DEF WordData, ScpTypes, ScpTypeOK, Readers
<1>5. data = ReadWord(c + 1) /\ WordsRead(c)
  BY <1>1 DEF PolledInv, ReadingOn
<1>6. c + 1 < Words => queue # <<>> /\ queue[1] = ReadWord((c + 1) + 1)
  <2>1. data.pos = c + 1 /\ data.get = scp_resp_header.get
    BY <1>5 DEF ReadWord
  <2>2. QED
    BY <1>1, <2>1 DEF PolledInv, HandWhole, ReadWord
<1>7. \A i \in 1..(c + 1) : scp_resp_data'[i] = ReadWord(i)
  <2> SUFFICES ASSUME NEW i \in 1..(c + 1) PROVE scp_resp_data'[i] = ReadWord(i)
    OBVIOUS
  <2>1. CASE i = c + 1
    BY <1>3, <1>4, <1>5, <2>1
  <2>2. CASE i # c + 1
    <3>1. i \in 1..c /\ i \in 1..Words /\ c + 1 \in 1..Words
      BY <1>3, <2>2
    <3>2. QED
      BY <1>4, <1>5, <2>2, <3>1 DEF WordsRead
  <2>3. QED
    BY <2>1, <2>2
<1>8. CASE c + 1 < Words
  <2>1. pc' = [pc EXCEPT !["requester"] = <<"word", "post">>] /\ UNCHANGED <<wait_scp, scp_resp_count>>
    BY <1>3, <1>8 DEF WordData, Goto
  <2>2. Asks' = <<"word", "post">> /\ pc'["handler"] = pc["handler"]
    BY <2>1, AsksIs
  <2>3. Asks'[1] = "word" /\ Asks'[2] = "post" /\ ~InHand'
    BY <2>2 DEF InHand
  <2>4. Alone' /\ Turns' /\ ReadAll' /\ Told' /\ QueueWhole' /\ HandWhole' /\ Pending'
    BY <1>1, <1>2, <2>1, <2>2, <2>3
       DEF PolledInv, Alone, Turns, ReadAll, Told, WholeReply, AnsweredInTime, QueueWhole, HandWhole, Pending
  <2>5. ReadingOn'
    <3>1. WordsRead(count["requester"])'
      BY <1>2, <1>4, <1>5, <1>7 DEF WordsRead, ReadWord
    <3>2. queue' # <<>> /\ queue'[1] = ReadWord(count["requester"] + 1)'
      BY <1>2, <1>4, <1>6, <1>8 DEF ReadWord
    <3>3. QED
      BY <2>3, <3>1, <3>2 DEF ReadingOn
  <2>6. Exact'
    <3> SUFFICES ASSUME late = 0 PROVE Exact'
      BY <1>2 DEF Exact
    <3>1. owed = <<>> /\ scp_resp_header.get = get /\ Left(c + 2)
      BY <1>1 DEF PolledInv, Exact
    <3>2. (c + 1) + 1 = c + 2 /\ (c + 1)' = c + 2
      BY <1>3, <1>4
    <3>3. Left(count["requester"] + 1)'
      BY <1>2, <1>4, <3>1, <3>2 DEF Left
    <3>4. QED
      BY <1>1, <1>2, <2>1, <2>3, <3>1, <3>3 DEF Exact
  <2>7. QED
    BY <2>4, <2>5, <2>6 DEF PolledInv
<1>9. CASE ~(c + 1 < Words)
  <2>1. /\ pc' = [pc EXCEPT !["requester"] = <<"poll", "none">>]
        /\ wait_scp' = FALSE /\ scp_resp_count' = c + 1
    BY <1>3, <1>9 DEF WordData, Matched, Goto
  <2>2. Asks' = <<"poll", "none">> /\ pc'["handler"] = pc["handler"]
    BY <2>1, AsksIs
  <2>3. Asks'[1] = "poll" /\ Asks'[2] = "none" /\ ~InHand' /\ ~wait_scp'
    BY <2>1, <2>2 DEF InHand
  <2>4. c + 1 = Words
    BY <1>3, <1>9
  <2>5. Alone' /\ Turns' /\ Told' /\ QueueWhole' /\ HandWhole' /\ Pending' /\ ReadingOn'
    BY <1>1, <1>2, <2>1, <2>2, <2>3
       DEF PolledInv, Alone, Turns, Told, WholeReply, AnsweredInTime, QueueWhole, HandWhole, Pending, ReadingOn
  <2>6. ReadAll'
    <3>1. WordsRead(Words)'
      BY <1>2, <1>5, <1>7, <2>4 DEF WordsRead, ReadWord
    <3>2. QED
      BY <2>1, <2>4, <3>1 DEF ReadAll
  <2>7. Exact'
    <3> SUFFICES ASSUME late = 0 PROVE Exact'
      BY <1>2 DEF Exact
    <3>1. owed = <<>> /\ scp_resp_header.get = get /\ Left(c + 2)
      BY <1>1 DEF PolledInv, Exact
    <3>2. Len(queue) = 0
      BY <1>3, <2>4, <3>1 DEF Left
    <3>3. queue = <<>>
      BY <3>2 DEF ScpTypes, ScpTypeOK
    <3>4. QED
      BY <1>2, <2>3, <3>1, <3>3 DEF Exact
  <2>8. QED
    BY <2>5, <2>6, <2>7 DEF PolledInv
<1>10. QED
  BY <1>8, <1>9

\* A GET is sent, or not taken.
LEMMA PolledSend ==
  ASSUME ScpTypes, PolledInv, SendGet \/ SendFails
  PROVE  PolledInv'
<1>1. /\ Asks[1] = "idle" /\ Asks[2] # "data" /\ Asks[2] # "status" /\ ~wait_scp
      /\ ~InHand
  <2>1. Asks[1] = "idle"
    BY DEF SendGet, SendFails, Asks
  <2>2. Asks = <<"idle", "none">>
    BY <2>1, AsksPlaces DEF Places, Reading
  <2>3. QED
    BY <2>1, <2>2 DEF PolledInv, Turns, InHand
<1>2. UNCHANGED <<queue, data, status, events, scp_resp_header, scp_resp_data, scp_resp_count>>
  BY DEF SendGet, SendFails, dsp
<1>3. CASE SendGet
  <2>1. /\ pc' = [pc EXCEPT !["requester"] = <<"poll", "none">>] /\ owed' = Append(owed, get')
        /\ wait_scp' = TRUE /\ wait_scp_header' = get'.req /\ UNCHANGED <<late, outcome>>
    BY <1>3 DEF SendGet, Goto
  <2>2. Asks' = <<"poll", "none">> /\ pc'["handler"] = pc["handler"]
    BY <2>1, AsksIs
  <2>3. Asks'[1] = "poll" /\ Asks'[2] = "none" /\ ~InHand'
    BY <2>2 DEF InHand
  <2>4. Alone' /\ Turns' /\ ReadAll' /\ Told' /\ QueueWhole' /\ HandWhole' /\ ReadingOn'
    BY <1>1, <1>2, <2>1, <2>2, <2>3
       DEF PolledInv, Alone, Turns, ReadAll, Told, WholeReply, AnsweredInTime, QueueWhole, HandWhole, ReadingOn
  <2>5. Pending'
    <3>1. owed \in Seq(GetSet) /\ Len(owed) \in Nat
      BY DEF ScpTypes, ScpTypeOK
    <3>2. Len(owed') = Len(owed) + 1 /\ owed'[Len(owed) + 1] = get'
      BY <2>1, <3>1
    <3>3. Len(owed) + 1 \in 1..Len(owed')
      BY <3>1, <3>2
    <3>4. \E k \in 1..Len(owed') : owed'[k] = get'
      BY <3>2, <3>3
    <3>5. QED
      BY <3>4 DEF Pending
  <2>6. Exact'
    <3> SUFFICES ASSUME late = 0 PROVE Exact'
      BY <2>1 DEF Exact
    <3>1. owed = <<>> /\ queue = <<>>
      BY <1>1 DEF PolledInv, Exact
    <3>2. owed' = <<get'>>
      BY <2>1, <3>1
    <3>3. QED
      BY <1>2, <2>1, <2>3, <3>1, <3>2 DEF Exact
  <2>7. QED
    BY <2>4, <2>5, <2>6 DEF PolledInv
<1>4. CASE SendFails
  <2>1. /\ UNCHANGED <<pc, owed, count>> /\ wait_scp' = FALSE /\ late' = late + 1
    BY <1>4 DEF SendFails, dsp, locals
  <2>2. outcome'.kind = "EIO" /\ outcome'.late = TRUE
    BY <1>4 DEF SendFails, NoOutcome
  <2>3. late' # 0 /\ Asks' = Asks
    BY <2>1, ScpAssumption DEF ScpTypes, ScpTypeOK, Asks
  <2>4. ~InHand'
    BY <1>1, <2>3 DEF InHand
  <2>5. Told'
    BY <2>2 DEF Told, WholeReply, AnsweredInTime
  <2>6. Alone' /\ Turns' /\ ReadAll' /\ QueueWhole' /\ HandWhole' /\ ReadingOn' /\ Pending' /\ Exact'
    BY <1>1, <1>2, <2>1, <2>3, <2>4
       DEF PolledInv, Alone, Turns, ReadAll, QueueWhole, HandWhole, ReadingOn, Pending, Exact
  <2>7. QED
    BY <2>5, <2>6 DEF PolledInv
<1>5. QED
  BY <1>3, <1>4

\* The turns of the poll loop, and its end.
LEMMA PolledTurn ==
  ASSUME ScpTypes, PolledInv, Poll \/ Sleep \/ Finish \/ TimeOut
  PROVE  PolledInv'
<1>1. /\ UNCHANGED <<owed, queue, data, status, events, count, get>>
      /\ UNCHANGED <<wait_scp_header, scp_resp_header, scp_resp_data, scp_resp_count>>
  BY DEF Poll, Sleep, Finish, TimeOut, dsp, shared, locals, calls
<1>2. Asks[1] \in {"poll", "sleep"} /\ Asks[2] = "none" /\ ~InHand
  <2>1. Asks[1] \in {"poll", "sleep"}
    BY DEF Poll, Sleep, Finish, TimeOut, Asks
  <2>2. Asks[2] = "none"
    BY <2>1, AsksPlaces DEF Places, Reading
  <2>3. QED
    BY <2>1, <2>2 DEF InHand
<1>3. CASE Poll \/ Sleep
  <2>1. PICK k \in {<<"head", "post">>, <<"poll", "none">>} : pc' = [pc EXCEPT !["requester"] = k]
    BY <1>3 DEF Poll, Sleep, Goto
  <2>2. Asks' = k /\ pc'["handler"] = pc["handler"]
    BY <2>1, AsksIs
  <2>3. wait_scp /\ UNCHANGED <<wait_scp, late, outcome>>
    BY <1>3 DEF Poll, Sleep, shared, calls
  <2>4. Asks'[1] \in {"head", "poll"} /\ Asks'[2] \in {"post", "none"} /\ ~InHand'
    BY <2>1, <2>2 DEF InHand
  <2>5. Alone' /\ Turns' /\ ReadAll' /\ Told' /\ QueueWhole' /\ HandWhole' /\ ReadingOn'
    BY <1>1, <1>2, <2>2, <2>3, <2>4
       DEF PolledInv, Alone, Turns, ReadAll, Told, WholeReply, AnsweredInTime, QueueWhole, HandWhole, ReadingOn
  <2>6. Pending' /\ Exact'
    BY <1>1, <1>2, <2>3, <2>4 DEF PolledInv, Pending, Exact, Left
  <2>7. QED
    BY <2>5, <2>6 DEF PolledInv
<1>4. CASE Finish
  <2>1. /\ ~wait_scp /\ UNCHANGED <<wait_scp, late>>
        /\ End(IF scp_resp_count = Words THEN "ok" ELSE "EINVAL", FALSE)
    BY <1>4 DEF Finish, shared
  <2>2. Asks[1] = "poll" /\ WordsRead(Words) /\ scp_resp_count = Words
    BY <1>2, <2>1 DEF PolledInv, Turns, ReadAll
  <2>3. Asks' = <<"idle", "none">> /\ pc'["handler"] = pc["handler"]
    BY <2>1, AsksIs DEF End, Goto
  <2>4. Asks'[1] = "idle" /\ ~InHand'
    BY <2>3 DEF InHand
  <2>5. outcome' = [get |-> get, kind |-> "ok", late |-> FALSE,
                    words |-> [i \in 1..Words |-> scp_resp_data[i]]]
    BY <2>1, <2>2 DEF End
  <2>6. Told'
    <3>1. outcome'.kind = "ok" /\ outcome'.get = get
      BY <2>5
    <3>2. \A i \in 1..Words : outcome'.words[i] = ReadWord(i)
      BY <2>2, <2>5 DEF WordsRead
    <3>3. scp_resp_header.get.req = get.req /\ (late = 0 => scp_resp_header.get = get)
      BY <2>1, <2>2 DEF WordsRead, PolledInv, Exact
    <3>4. 1 \in 1..Words
      BY ScpAssumption
    <3>5. ASSUME NEW i \in 1..Words
          PROVE  outcome'.words[i].pos = i /\ outcome'.words[i].get = scp_resp_header.get
      <4>1. ReadWord(i).pos = i /\ ReadWord(i).get = scp_resp_header.get
        BY DEF ReadWord
      <4>2. outcome'.words[i] = ReadWord(i)
        BY <3>2
      <4>3. QED
        BY <4>1, <4>2
    <3>6. WholeReply'
      BY <2>1, <3>1, <3>3, <3>4, <3>5 DEF WholeReply
    <3>7. QED
      BY <3>1, <3>6 DEF Told, AnsweredInTime
  <2>7. Alone' /\ Turns' /\ ReadAll' /\ QueueWhole' /\ HandWhole' /\ ReadingOn' /\ Pending' /\ Exact'
    BY <1>1, <2>1, <2>3, <2>4
       DEF PolledInv, Alone, Turns, ReadAll, QueueWhole, HandWhole, ReadingOn, Pending, Exact
  <2>8. QED
    BY <2>6, <2>7 DEF PolledInv
<1>5. CASE TimeOut
  <2>1. Asks[1] = "sleep" /\ wait_scp /\ wait_scp' = FALSE /\ queue = <<>>
    BY <1>5 DEF TimeOut, Asks
  <2>2. Len(queue) = 0
    BY <2>1
  <2>3. \E k \in 1..Len(owed) : owed[k] = get
    BY <1>2, <2>1, <2>2 DEF PolledInv, Pending
  <2>4. owed # <<>>
    BY <2>3
  <2>5. late' = late + 1 /\ End("EIO", TRUE)
    BY <1>5, <2>4 DEF TimeOut
  <2>6. late' # 0
    BY <2>5, ScpAssumption DEF ScpTypes, ScpTypeOK
  <2>7. Asks' = <<"idle", "none">> /\ pc'["handler"] = pc["handler"]
    BY <2>5, AsksIs DEF End, Goto
  <2>8. Asks'[1] = "idle" /\ ~InHand'
    BY <2>7 DEF InHand
  <2>9. outcome'.kind = "EIO" /\ outcome'.late = TRUE
    BY <2>5 DEF End
  <2>10. Told'
    BY <2>9 DEF Told, WholeReply, AnsweredInTime
  <2>11. Alone' /\ Turns' /\ ReadAll' /\ QueueWhole' /\ HandWhole' /\ ReadingOn' /\ Pending' /\ Exact'
    BY <1>1, <2>1, <2>6, <2>7, <2>8
       DEF PolledInv, Alone, Turns, ReadAll, QueueWhole, HandWhole, ReadingOn, Pending, Exact
  <2>12. QED
    BY <2>10, <2>11 DEF PolledInv
<1>6. QED
  BY <1>3, <1>4, <1>5

\* The DSP queues the reply to the oldest GET.
LEMMA PolledAnswer ==
  ASSUME ScpTypes, ~notifies, PolledInv, Answer
  PROVE  PolledInv'
<1> DEFINE g == Head(owed)
           n == Len(queue)
<1>1. /\ owed # <<>> /\ owed' = Tail(owed) /\ queue' = queue \o Reply(g)
      /\ UNCHANGED <<data, status, pc, count, get, late, outcome>> /\ UNCHANGED shared
  BY DEF Answer, locals, calls
<1>2. events' = events
  <2>1. events' = events + 0
    BY DEF Answer
  <2>2. QED
    BY <2>1 DEF ScpTypes, ScpTypeOK
<1>3. Asks' = Asks /\ InHand' = InHand
  BY <1>1 DEF Asks, InHand
<1>4. /\ Words \in 1..4 /\ owed \in Seq(GetSet) /\ queue \in Seq(WordSet) /\ g \in GetSet
      /\ n \in Nat /\ Len(owed) \in Nat
  BY <1>1, AnswerTypes, ScpAssumption DEF ScpTypes, ScpTypeOK
<1>5. /\ Reply(g) \in Seq(WordSet) /\ Len(Reply(g)) = Words + 1
      /\ \A i \in 1..(Words + 1) : Reply(g)[i] = [get |-> g, pos |-> i - 1]
  BY <1>4, ReplyIs
<1>6. /\ Len(queue') = n + (Words + 1)
      /\ \A k \in 1..n : queue'[k] = queue[k]
      /\ \A i \in 1..(Words + 1) : queue'[n + i] = [get |-> g, pos |-> i - 1]
  <2> HIDE DEF g
  <2>1. Len(queue') = n + (Words + 1)
    BY <1>1, <1>4, <1>5
  <2>2. ASSUME NEW k \in 1..n PROVE queue'[k] = queue[k]
    BY <1>1, <1>4, <1>5, <2>1
  <2>3. ASSUME NEW i \in 1..(Words + 1) PROVE queue'[n + i] = Reply(g)[i]
    BY <1>1, <1>4, <1>5, <2>1
  <2>4. QED
    BY <1>5, <2>1, <2>2, <2>3
<1>7. owed[1] = g /\ Len(owed') = Len(owed) - 1 /\ \A k \in 1..Len(owed') : owed'[k] = owed[k + 1]
  BY <1>1, <1>4
<1> HIDE DEF g, n
<1>8. Alone' /\ Turns' /\ ReadAll' /\ Told'
  BY <1>1, <1>2, <1>3
     DEF PolledInv, Alone, Turns, ReadAll, WordsRead, ReadWord, Told, WholeReply, AnsweredInTime, shared
<1>9. QueueWhole'
  <2> SUFFICES ASSUME NEW k \in 1..Len(queue'), queue'[k].pos < Words
               PROVE  /\ k + 1 \in 1..Len(queue')
                      /\ queue'[k + 1] = [get |-> queue'[k].get, pos |-> queue'[k].pos + 1]
    BY DEF QueueWhole
  <2>1. CASE k \in 1..n
    <3>1. k + 1 \in 1..n /\ queue[k + 1] = [get |-> queue[k].get, pos |-> queue[k].pos + 1]
      BY <1>6, <2>1 DEF PolledInv, QueueWhole, n
    <3>2. queue'[k] = queue[k] /\ queue'[k + 1] = queue[k + 1]
      BY <1>6, <2>1, <3>1
    <3>3. k + 1 \in 1..Len(queue')
      BY <1>4, <1>6, <3>1
    <3>4. QED
      BY <3>1, <3>2, <3>3
  <2>2. CASE ~(k \in 1..n)
    <3> DEFINE i == k - n
    <3>1. i \in 1..(Words + 1) /\ k = n + i
      BY <1>4, <1>6, <2>2
    <3>2. queue'[k] = [get |-> g, pos |-> i - 1]
      BY <1>6, <3>1
    <3>3. i - 1 < Words
      BY <3>2
    <3>4. i + 1 \in 1..(Words + 1) /\ k + 1 = n + (i + 1) /\ (i - 1) + 1 = (i + 1) - 1
      BY <1>4, <3>1, <3>3
    <3>5. queue'[k + 1] = [get |-> g, pos |-> (i + 1) - 1]
      BY <1>6, <3>4
    <3>6. k + 1 \in 1..Len(queue')
      BY <1>4, <1>6, <3>4
    <3> HIDE DEF i
    <3>7. QED
      BY <3>2, <3>4, <3>5, <3>6
  <2>3. QED
    BY <2>1, <2>2
<1>10. queue # <<>> => queue' # <<>> /\ queue'[1] = queue[1]
  <2> SUFFICES ASSUME queue # <<>> PROVE queue' # <<>> /\ queue'[1] = queue[1]
    OBVIOUS
  <2>1. 1 \in 1..n /\ Len(queue') # 0
    BY <1>4, <1>6 DEF n
  <2>2. queue' # <<>>
    BY <2>1
  <2>3. QED
    BY <1>6, <2>1, <2>2
<1>11. HandWhole' /\ ReadingOn'
  BY <1>1, <1>3, <1>10 DEF PolledInv, HandWhole, ReadingOn, WordsRead, ReadWord, shared
<1>12. Pending'
  <2> SUFFICES ASSUME wait_scp, Asks[1] # "word"
               PROVE  \/ \E k \in 1..Len(owed') : owed'[k] = get
                      \/ \E k \in 1..Len(queue') : queue'[k] = [get |-> get, pos |-> 0]
                      \/ Asks[1] = "head" /\ InHand /\ data = [get |-> get, pos |-> 0]
    BY <1>1, <1>3 DEF Pending, shared
  <2>1. ASSUME NEW k \in 1..Len(queue), queue[k] = [get |-> get, pos |-> 0]
        PROVE  \E j \in 1..Len(queue') : queue'[j] = [get |-> get, pos |-> 0]
    <3>1. k \in 1..n /\ k \in 1..Len(queue')
      BY <1>4, <1>6 DEF n
    <3>2. QED
      BY <1>6, <2>1, <3>1
  <2>2. ASSUME NEW k \in 1..Len(owed), owed[k] = get
        PROVE  \/ \E j \in 1..Len(owed') : owed'[j] = get
               \/ \E j \in 1..Len(queue') : queue'[j] = [get |-> get, pos |-> 0]
    <3>1. CASE k = 1
      <4>1. 1 \in 1..(Words + 1) /\ n + 1 \in 1..Len(queue') /\ 1 - 1 = 0
        BY <1>4, <1>6
      <4>2. queue'[n + 1] = [get |-> get, pos |-> 0]
        BY <1>6, <1>7, <2>2, <3>1, <4>1
      <4>3. QED
        BY <4>1, <4>2
    <3>2. CASE k # 1
      <4>1. k - 1 \in 1..Len(owed') /\ (k - 1) + 1 = k
        BY <1>4, <1>7, <3>2
      <4>2. owed'[k - 1] = get
        BY <1>7, <2>2, <4>1
      <4>3. QED
        BY <4>1, <4>2
    <3>3. QED
      BY <3>1, <3>2
  <2>3. QED
    BY <2>1, <2>2 DEF PolledInv, Pending
<1>13. Exact'
  <2> SUFFICES ASSUME late = 0 PROVE Exact'
    BY <1>1 DEF Exact
  <2>1. /\ wait_scp /\ Asks[1] # "word" /\ ~InHand /\ owed = <<get>> /\ queue = <<>>
    <3>1. wait_scp /\ Asks[1] # "word"
      <4>1. Asks[1] = "word" => owed = <<>>
        BY DEF PolledInv, Exact
      <4>2. QED
        BY <1>1, <4>1 DEF PolledInv, Exact
    <3>2. ~InHand
      <4>1. InHand => Asks[1] = "head"
        BY <3>1, AsksPlaces DEF InHand, PolledInv, Turns, Places, Reading
      <4>2. QED
        BY <1>1, <4>1 DEF PolledInv, Exact
    <3>3. QED
      BY <1>1, <3>1, <3>2 DEF PolledInv, Exact
  <2>2. g = get /\ n = 0 /\ owed' = <<>>
    BY <1>1, <2>1 DEF g, n
  <2>3. Left(0)'
    <3>1. Len(queue') = Words + 1 - 0
      BY <1>4, <1>6, <2>2
    <3>2. ASSUME NEW k \in 1..Len(queue') PROVE queue'[k] = [get |-> get, pos |-> 0 + k - 1]
      <4>1. k \in 1..(Words + 1) /\ n + k = k /\ 0 + k - 1 = k - 1
        BY <1>4, <2>2, <3>1
      <4>2. QED
        BY <1>6, <2>2, <4>1
    <3>3. QED
      BY <1>1, <3>1, <3>2 DEF Left
  <2>4. QED
    BY <1>1, <1>3, <2>1, <2>2, <2>3 DEF Exact, shared
<1>14. QED
  BY <1>8, <1>9, <1>11, <1>12, <1>13 DEF PolledInv

\* The DSP's queue is read by one reader.
LEMMA PolledNext ==
  ASSUME ScpTypes, ~notifies, PolledInv, ScpNext
  PROVE  PolledInv'
<1>1. ~Handle /\ ~ReadQueue("handler") /\ ~ClearData("requester")
  <2>1. events = 0 /\ pc["handler"] = <<"idle", "none">> /\ Asks[1] # "clear"
    BY DEF PolledInv, Alone, Idle, Turns
  <2>2. ~Handle
    BY <2>1 DEF Handle
  <2>3. ~ClearData("requester")
    BY <2>1 DEF ClearData, Asks
  <2>4. ~ReadQueue("handler")
    <3>1. \A k \in {"post", "status"} : pc["handler"] \notin Reading \X {k}
      <4>1. pc["handler"][1] = "idle" /\ pc["handler"][1] \notin Reading
        BY <2>1 DEF Reading
      <4>2. \A q \in Reading \X {"post", "status"} : q[1] \in Reading
        OBVIOUS
      <4>3. \A k \in {"post", "status"} : \A q \in Reading \X {k} : q \in Reading \X {"post", "status"}
        OBVIOUS
      <4>4. QED
        BY <4>1, <4>2, <4>3
    <3>2. ~Post("handler") /\ ~StatusOk("handler") /\ ~StatusEmpty("handler")
      BY <3>1 DEF Post, StatusOk, StatusEmpty
    <3>3. ~HeadData("handler") /\ ~WordData("handler") /\ ~ClearData("handler")
      BY <2>1 DEF HeadData, WordData, ClearData
    <3>4. QED
      BY <3>2, <3>3 DEF ReadQueue
  <2>5. QED
    BY <2>2, <2>3, <2>4
<1>2. ReadQueue("requester") => PolledInv'
  BY <1>1, PolledPost, PolledStatus, PolledHead, PolledWord DEF ReadQueue
<1>3. QED
  BY <1>1, <1>2, PolledSend, PolledTurn, PolledAnswer DEF ScpNext, Readers

\* A reply that is read whole answers the GET, and a GET fails only because the DSP was
\* late, for every number of requests and every history of late replies - as long as the
\* DSP announces nothing, as the AE-9's loader: then one context reads the queue.
THEOREM PolledInvariant == ScpSpec => [](ScpTypes /\ (~notifies => PolledInv))
<1>1. ScpInit => ScpTypes /\ (~notifies => PolledInv)
  <2> SUFFICES ASSUME ScpInit PROVE ScpTypes /\ PolledInv
    OBVIOUS
  <2>1. ScpTypes
    BY ScpInitTypes
  <2>2. Asks = <<"idle", "none">> /\ pc["handler"] = Idle /\ ~wait_scp /\ events = 0
    BY DEF ScpInit, Asks, Readers, Idle
  <2>3. owed = <<>> /\ queue = <<>> /\ Len(queue) = 0 /\ outcome.kind = "none"
    BY DEF ScpInit, NoOutcome
  <2>4. Asks[1] = "idle" /\ ~InHand
    BY <2>2 DEF InHand
  <2>5. PolledInv
    BY <2>2, <2>3, <2>4
       DEF PolledInv, Alone, Turns, QueueWhole, HandWhole, ReadingOn, ReadAll, Pending, Exact, Told,
           WholeReply, AnsweredInTime
  <2>6. QED
    BY <2>1, <2>5
<1>2. (ScpTypes /\ (~notifies => PolledInv)) /\ [ScpNext]_scpVars
      => (ScpTypes /\ (~notifies => PolledInv))'
  <2> SUFFICES ASSUME ScpTypes, ~notifies => PolledInv, [ScpNext]_scpVars
               PROVE  ScpTypes' /\ (~notifies' => PolledInv')
    OBVIOUS
  <2>1. ScpTypes'
    BY ScpNextTypes
  <2>2. CASE UNCHANGED scpVars
    <3>1. /\ UNCHANGED <<notifies, owed, queue, data, status, events, pc, count, get, late, outcome>>
          /\ UNCHANGED <<wait_scp, wait_scp_header, scp_resp_header, scp_resp_data, scp_resp_count>>
      BY <2>2 DEF scpVars, dsp, shared, locals, calls
    <3>2. Asks' = Asks /\ InHand' = InHand
      BY <3>1 DEF Asks, InHand
    <3>3. QED
      BY <2>1, <3>1, <3>2
         DEF PolledInv, Alone, Turns, QueueWhole, HandWhole, ReadingOn, ReadAll, Pending, Exact, Told,
             WholeReply, AnsweredInTime, WordsRead, ReadWord, Left
  <2>3. CASE ScpNext
    <3>1. notifies' = notifies
      BY <2>3, NotifiesStays
    <3>2. QED
      BY <2>1, <2>3, <3>1, PolledNext
  <2>4. QED
    BY <2>2, <2>3
<1>3. QED
  BY <1>1, <1>2, PTL DEF ScpSpec

\* The words a polling caller is handed are those of one reply, in their places, to its
\* kind of request, and to its own GET if no reply was late.
THEOREM WholeWhenPolled == ScpSpec => [](~notifies => WholeReply)
<1>1. (~notifies => PolledInv) => (~notifies => WholeReply)
  BY DEF PolledInv, Told
<1>2. QED
  BY <1>1, PolledInvariant, PTL

\* No GET to a DSP that is polled fails, unless the DSP was late.
THEOREM NoneFailsPolled == ScpSpec => []AnsweredWhenPolled
<1>1. (~notifies => PolledInv) => AnsweredWhenPolled
  BY DEF PolledInv, Told, AnsweredWhenPolled
<1>2. QED
  BY <1>1, PolledInvariant, PTL

-----------------------------------------------------------------------------
(* The request channel to a DSP that announces its one reply as well.      *)

\* The requester waits for a reply.
InLoop == pc["requester"][1] # "idle"
\* How many words of the one reply have left the queue, and word k of it.
Popped == Words + 1 - Len(queue)
WordAt(k) == [get |-> get, pos |-> k]
\* How many words behind the header a reader that took the header for its own has
\* taken from the queue itself, at the least.
Own(r) ==
  IF pc[r] = <<"word", "post">> THEN count[r]
  ELSE IF pc[r] = <<"word", "data">> \/ (pc[r] = <<"word", "status">> /\ status = "ok")
       THEN count[r] + 1
       ELSE 0

\* There is no reply yet, and so nothing is read and nothing is told.
Unanswered ==
  /\ queue = <<>> /\ data = NoWord /\ status = "empty"
  /\ owed = <<>> \/ (owed = <<get>> /\ gets = 1)
  /\ \A r \in Readers : pc[r][1] # "word"
  /\ InLoop => wait_scp /\ gets = 1
  /\ outcome.kind # "ok"

\* The queue is the end of the reply, the data register the word before it.
OneReply ==
  /\ owed = <<>> /\ gets = 1 /\ Len(queue) <= Words + 1
  /\ \A i \in 1..Len(queue) : queue[i] = WordAt(Popped + i - 1)
  /\ data = IF Popped = 0 THEN NoWord ELSE WordAt(Popped - 1)
  /\ Popped > 0 /\ status = "empty" => queue = <<>>
\* Two readers share the words behind the header: what one has the other lacks.
WordsShared ==
  /\ \A r \in Readers : pc[r][1] = "word" => Popped > 0
  /\ \A r, o \in Readers : Popped > 0 /\ r # o => Own(r) + Own(o) <= Popped - 1
\* A reader that took them all has stored them in their places.
AllOwn ==
  \A r \in Readers : pc[r][1] = "word" /\ Own(r) = Popped - 1 =>
    \A i \in 1..count[r] : scp_resp_data[i] = WordAt(i)
\* The wait ends when the queue is empty; with the count that is asked for, the words are
\* there, and nobody will store another one.
WaitOver ==
  InLoop /\ ~wait_scp =>
    /\ queue = <<>>
    /\ scp_resp_count = Words =>
         /\ \A i \in 1..Words : scp_resp_data[i] = WordAt(i)
         /\ \A r \in Readers : Own(r) = 0
Answered == OneReply /\ WordsShared /\ AllOwn /\ WaitOver

SharedInv == (Unanswered \/ Answered) /\ WholeReply

\* A reader's own words are a number, and none unless it stands in the reply.
LEMMA OwnIs ==
  ASSUME ScpTypes, NEW r \in Readers
  PROVE  /\ count[r] \in Nat /\ pc[r] \in Places /\ Own(r) \in Nat
         /\ pc[r][1] # "word" => Own(r) = 0
         /\ pc[r] = <<"word", "post">> => Own(r) = count[r]
         /\ pc[r] = <<"word", "data">> => Own(r) = count[r] + 1
         /\ pc[r] = <<"word", "status">> =>
              Own(r) = IF status = "ok" THEN count[r] + 1 ELSE 0
<1>1. count[r] \in Nat /\ pc[r] \in Places
  BY ScpAssumption DEF ScpTypes, ScpTypeOK
<1>2. \A k : <<"word", k>>[1] = "word"
  OBVIOUS
<1>3. pc[r][1] # "word" => Own(r) = 0
  BY <1>2 DEF Own
<1>4. QED
  BY <1>1, <1>3 DEF Own

\* The same after a step.
LEMMA OwnNext ==
  ASSUME ScpTypes', NEW r \in Readers
  PROVE  /\ count'[r] \in Nat /\ pc'[r] \in Places /\ Own(r)' \in Nat
         /\ pc'[r][1] # "word" => Own(r)' = 0
         /\ pc'[r] = <<"word", "post">> => Own(r)' = count'[r]
         /\ pc'[r] = <<"word", "data">> => Own(r)' = count'[r] + 1
         /\ pc'[r] = <<"word", "status">> =>
              Own(r)' = IF status' = "ok" THEN count'[r] + 1 ELSE 0
<1>1. count'[r] \in Nat /\ pc'[r] \in Places
  BY ScpAssumption DEF ScpTypes, ScpTypeOK
<1>2. \A k : <<"word", k>>[1] = "word"
  OBVIOUS
<1>3. pc'[r][1] # "word" => Own(r)' = 0
  BY <1>2 DEF Own
<1>4. QED
  BY <1>1, <1>3 DEF Own

\* What is left of the reply is a number of words.
LEMMA PoppedIs ==
  ASSUME ScpTypes, Answered
  PROVE  /\ Words \in 1..4 /\ Popped \in 0..(Words + 1) /\ Len(queue) \in Nat
         /\ Popped = Words + 1 <=> queue = <<>>
<1>1. Words \in 1..4 /\ queue \in Seq(WordSet) /\ Len(queue) \in Nat /\ Len(queue) <= Words + 1
  BY ScpAssumption DEF ScpTypes, ScpTypeOK, Answered, OneReply
<1>2. Len(queue) = 0 <=> queue = <<>>
  BY <1>1
<1>3. QED
  BY <1>1, <1>2 DEF Popped

\* Who moves where.
LEMMA Gone ==
  ASSUME ScpTypes, NEW r \in Readers, NEW k, Goto(r, k)
  PROVE  pc'[r] = k /\ \A o \in Readers : o # r => pc'[o] = pc[o]
BY DEF Goto, ScpTypes, ScpTypeOK

\* Nothing is told before there is a reply.
LEMMA StaysUnanswered ==
  ASSUME Unanswered, UNCHANGED <<queue, data, owed, get, gets>>, status' = "empty",
         \A x \in Readers : pc'[x][1] # "word",
         InLoop' => InLoop /\ wait_scp' = wait_scp, outcome'.kind # "ok"
  PROVE  Unanswered'
BY DEF Unanswered, InLoop

\* A reader that goes on, or leaves the reply, without storing a word.
LEMMA StaysAnswered ==
  ASSUME ScpTypes, ScpTypes', Answered,
         UNCHANGED <<owed, gets, get, queue, data, status, count, scp_resp_data, scp_resp_count>>,
         InLoop' /\ ~wait_scp' => InLoop /\ ~wait_scp,
         \A x \in Readers : pc'[x][1] = "word" => pc[x][1] = "word" /\ Own(x)' = Own(x)
  PROVE  Answered'
<1>1. \A x \in Readers : Own(x) \in Nat /\ Own(x)' \in Nat /\ Own(x)' <= Own(x) /\ (Own(x) = 0 => Own(x)' = 0)
  <2>1. SUFFICES ASSUME NEW x \in Readers
                 PROVE  Own(x) \in Nat /\ Own(x)' \in Nat /\ Own(x)' <= Own(x) /\ (Own(x) = 0 => Own(x)' = 0)
    OBVIOUS
  <2>2. Own(x) \in Nat /\ Own(x)' \in Nat /\ (pc'[x][1] # "word" => Own(x)' = 0)
    BY OwnIs, OwnNext
  <2>3. QED
    BY <2>2
<1>2. Popped' = Popped /\ \A k : WordAt(k)' = WordAt(k)
  BY DEF Popped, WordAt
<1>3. Popped \in Nat
  BY PoppedIs
<1>4. OneReply'
  BY <1>2 DEF Answered, OneReply
<1>5. WordsShared'
  <2>1. \A x \in Readers : pc'[x][1] = "word" => Popped > 0
    BY DEF Answered, WordsShared
  <2>2. ASSUME NEW x \in Readers, NEW o \in Readers, Popped > 0, x # o
        PROVE  Own(x)' + Own(o)' <= Popped - 1
    <3>1. Own(x) + Own(o) <= Popped - 1
      BY <2>2 DEF Answered, WordsShared
    <3>2. QED
      BY <1>1, <1>3, <3>1
  <2>3. QED
    BY <1>2, <2>1, <2>2 DEF WordsShared
<1>6. AllOwn'
  BY <1>2 DEF Answered, AllOwn
<1>7. WaitOver'
  BY <1>1, <1>2 DEF Answered, WaitOver
<1>8. QED
  BY <1>4, <1>5, <1>6, <1>7 DEF Answered

\* Reading the oldest word of the queue.
LEMMA SharedPost ==
  ASSUME ScpTypes, ScpTypes', SharedInv, NEW r \in Readers, Post(r)
  PROVE  Unanswered' \/ Answered'
<1>1. /\ pc[r][1] \in Reading /\ pc[r] = <<pc[r][1], "post">> /\ pc'[r] = <<pc[r][1], "status">>
      /\ \A o \in Readers : o # r => pc'[o] = pc[o]
  <2>1. pc[r] \in Reading \X {"post"} /\ Goto(r, <<pc[r][1], "status">>)
    BY DEF Post
  <2>2. pc[r][1] \in Reading /\ pc[r] = <<pc[r][1], "post">>
    BY <2>1
  <2>3. QED
    BY <2>1, <2>2, Gone
<1>2. /\ UNCHANGED <<owed, gets, get, count, scp_resp_data, scp_resp_count, wait_scp, outcome>>
      /\ pc'[r][1] = pc[r][1]
  BY <1>1 DEF Post, shared, locals, calls
<1>3. \A o \in Readers : pc'[o][1] = pc[o][1]
  BY <1>1, <1>2
<1>4. InLoop' = InLoop /\ \A k : WordAt(k)' = WordAt(k)
  BY <1>2, <1>3 DEF InLoop, WordAt, Readers
<1>5. CASE Unanswered
  <2>1. UNCHANGED <<queue, data>> /\ status' = "empty"
    BY <1>5 DEF Unanswered, Post
  <2>2. QED
    BY <1>2, <1>3, <1>4, <1>5, <2>1, StaysUnanswered DEF Unanswered
<1>6. CASE Answered /\ queue = <<>>
  <2>1. UNCHANGED <<queue, data>> /\ status' = "empty"
    BY <1>6 DEF Post
  <2>2. Words \in 1..4 /\ Popped = Words + 1 /\ Popped' = Popped
    BY <1>6, <2>1, PoppedIs DEF Popped
  <2>3. \A x \in Readers : /\ Own(x) \in Nat /\ Own(x)' \in Nat
                           /\ Own(x)' = 0 \/ Own(x)' = Own(x)
    <3>1. SUFFICES ASSUME NEW x \in Readers
                   PROVE  Own(x) \in Nat /\ Own(x)' \in Nat /\ (Own(x)' = 0 \/ Own(x)' = Own(x))
      OBVIOUS
    <3>2. Own(x) \in Nat /\ Own(x)' \in Nat
      BY OwnIs, OwnNext
    <3>3. CASE x = r
      <4>1. pc'[x] = <<pc'[x][1], "status">>
        BY <1>1, <1>2, <3>3
      <4>2. pc'[x][1] = "word" => Own(x)' = 0
        BY <2>1, <4>1, OwnNext
      <4>3. QED
        BY <3>2, <4>2, OwnNext
    <3>4. CASE x # r
      <4>1. pc'[x] = pc[x] /\ count'[x] = count[x]
        BY <1>1, <1>2, <3>4
      <4>2. CASE pc[x] = <<"word", "status">>
        BY <2>1, <3>2, <4>1, <4>2, OwnNext
      <4>3. CASE pc[x] # <<"word", "status">>
        <5>1. Own(x)' = Own(x)
          BY <4>1, <4>3, Zenon DEF Own
        <5>2. QED
          BY <3>2, <5>1
      <4>4. QED
        BY <4>2, <4>3
    <3>5. QED
      BY <3>2, <3>3, <3>4
  <2>4. OneReply'
    BY <1>2, <1>4, <1>6, <2>1, <2>2 DEF Answered, OneReply
  <2>5. WordsShared'
    <3>1. ASSUME NEW x \in Readers, NEW o \in Readers, x # o
          PROVE  Own(x)' + Own(o)' <= Popped - 1
      <4>1. Own(x) + Own(o) <= Popped - 1
        BY <1>6, <2>2, <3>1 DEF Answered, WordsShared
      <4>2. QED
        BY <2>2, <2>3, <4>1
    <3>2. QED
      BY <2>2, <3>1 DEF WordsShared
  <2>6. AllOwn'
    <3>1. ASSUME NEW x \in Readers, pc'[x][1] = "word", Own(x)' = Popped - 1
          PROVE  \A i \in 1..count[x] : scp_resp_data[i] = WordAt(i)
      BY <1>3, <1>6, <2>2, <2>3, <3>1 DEF Answered, AllOwn
    <3>2. QED
      BY <1>2, <1>4, <2>2, <3>1 DEF AllOwn
  <2>7. WaitOver'
    BY <1>2, <1>4, <1>6, <2>1, <2>3 DEF Answered, WaitOver
  <2>8. QED
    BY <2>4, <2>5, <2>6, <2>7 DEF Answered
<1>7. CASE Answered /\ queue # <<>>
  <2>1. status' = "ok" /\ data' = queue[1] /\ queue' = Tail(queue)
    BY <1>7 DEF Post
  <2>2. queue \in Seq(WordSet) /\ Words \in 1..4 /\ Popped \in 0..Words
    <3>1. queue \in Seq(WordSet)
      BY Zenon DEF ScpTypes, ScpTypeOK
    <3>2. Words \in 1..4 /\ Popped \in 0..(Words + 1) /\ Popped # Words + 1
      BY <1>7, PoppedIs, Zenon
    <3>3. QED
      BY <3>1, <3>2
  <2>3. Len(queue) \in 1..(Words + 1) /\ Len(queue') = Len(queue) - 1
        /\ \A i \in 1..Len(queue') : i + 1 \in 1..Len(queue) /\ queue'[i] = queue[i + 1]
    BY <1>7, <2>1, <2>2 DEF Answered, OneReply
  <2>4. Popped' = Popped + 1
    BY <2>2, <2>3 DEF Popped
  <2>5. OneReply'
    <3>1. queue[1] = WordAt(Popped + 1 - 1)
      BY <1>7, <2>3 DEF Answered, OneReply
    <3>2. data' = WordAt(Popped' - 1)
      BY <2>1, <2>2, <2>4, <3>1
    <3>3. ASSUME NEW i \in 1..Len(queue')
          PROVE  queue'[i] = WordAt(Popped' + i - 1)
      <4>1. queue[i + 1] = WordAt(Popped + (i + 1) - 1)
        BY <1>7, <2>3 DEF Answered, OneReply
      <4>2. Popped + (i + 1) - 1 = Popped' + i - 1
        BY <2>2, <2>4
      <4>3. QED
        BY <2>3, <4>1, <4>2
    <3>4. QED
      BY <1>2, <1>4, <1>7, <2>1, <2>2, <2>3, <2>4, <3>2, <3>3 DEF Answered, OneReply
  <2>6. ASSUME NEW o \in Readers, o # r
        PROVE  Own(o)' = Own(o)
    <3>1. pc'[o] = pc[o] /\ count' = count
      BY <1>1, <1>2, <2>6
    <3>2. ASSUME pc[o] = <<"word", "status">> PROVE status = "ok"
      <4>1. pc[o][1] = "word"
        BY <3>2
      <4>2. Popped > 0 /\ status \in {"ok", "empty"}
        BY <1>7, <4>1 DEF Answered, WordsShared, ScpTypes, ScpTypeOK
      <4>3. QED
        BY <1>7, <4>2 DEF Answered, OneReply
    <3>3. QED
      BY <2>1, <3>1, <3>2 DEF Own
  <2>7. Own(r) \in Nat /\ Own(r)' = IF pc[r][1] = "word" THEN Own(r) + 1 ELSE 0
    <3>1. CASE pc[r][1] = "word"
      <4>1. pc[r] = <<"word", "post">> /\ pc'[r] = <<"word", "status">>
        BY <1>1, <3>1
      <4>2. Own(r) \in Nat /\ Own(r) = count[r]
        BY <4>1, OwnIs
      <4>3. Own(r)' = count'[r] + 1
        BY <2>1, <4>1, OwnNext
      <4>4. QED
        BY <1>2, <3>1, <4>2, <4>3
    <3>2. CASE pc[r][1] # "word"
      BY <1>2, <3>2, OwnIs, OwnNext
    <3>3. QED
      BY <3>1, <3>2
  <2>8. \A o \in Readers : Own(o) \in Nat /\ Own(o)' \in Nat
    BY OwnIs, OwnNext
  <2>9. Popped = 0 => \A o \in Readers : pc[o][1] # "word" /\ Own(o)' = 0
    <3>1. ASSUME Popped = 0, NEW o \in Readers PROVE pc[o][1] # "word" /\ Own(o)' = 0
      <4>1. pc[o][1] # "word"
        BY <1>7, <3>1 DEF Answered, WordsShared
      <4>2. pc'[o][1] # "word"
        BY <1>3, <4>1
      <4>3. QED
        BY <4>1, <4>2, OwnNext
    <3>2. QED
      BY <3>1
  <2>10. WordsShared'
    <3>1. ASSUME NEW x \in Readers, NEW o \in Readers, x # o
          PROVE  Own(x)' + Own(o)' <= Popped' - 1
      <4>1. CASE Popped = 0
        BY <2>2, <2>4, <2>9, <3>1, <4>1
      <4>2. CASE Popped > 0
        <5>1. Own(x) + Own(o) <= Popped - 1
          BY <1>7, <3>1, <4>2 DEF Answered, WordsShared
        <5>2. CASE x = r
          BY <2>2, <2>4, <2>6, <2>7, <2>8, <3>1, <5>1, <5>2
        <5>3. CASE x # r
          <6>1. o = r /\ Own(x)' = Own(x)
            BY <2>6, <3>1, <5>3 DEF Readers
          <6>2. QED
            BY <2>2, <2>4, <2>7, <2>8, <5>1, <6>1
        <5>4. QED
          BY <5>2, <5>3
      <4>3. QED
        BY <2>2, <4>1, <4>2
    <3>2. QED
      BY <2>2, <2>4, <3>1 DEF WordsShared
  <2>11. AllOwn'
    <3>1. ASSUME NEW x \in Readers, pc'[x][1] = "word", Own(x)' = Popped' - 1
          PROVE  \A i \in 1..count[x] : scp_resp_data[i] = WordAt(i)
      <4>1. pc[x][1] = "word" /\ Popped > 0
        BY <1>3, <1>7, <3>1 DEF Answered, WordsShared
      <4>2. x = r
        <5>1. SUFFICES ASSUME x # r PROVE FALSE
          OBVIOUS
        <5>2. Own(x) + Own(r) <= Popped - 1
          BY <1>7, <4>1, <5>1 DEF Answered, WordsShared
        <5>3. QED
          BY <2>2, <2>4, <2>6, <2>8, <3>1, <5>1, <5>2
      <4>3. Own(x) = Popped - 1
        BY <2>2, <2>4, <2>7, <3>1, <4>1, <4>2
      <4>4. QED
        BY <1>7, <4>1, <4>3 DEF Answered, AllOwn
    <3>2. QED
      BY <1>2, <1>4, <3>1 DEF AllOwn
  <2>12. WaitOver'
    BY <1>2, <1>4, <1>7 DEF Answered, WaitOver
  <2>13. QED
    BY <2>5, <2>10, <2>11, <2>12 DEF Answered
<1>8. QED
  BY <1>5, <1>6, <1>7 DEF SharedInv

\* The status of the last read: a word, or none.
LEMMA SharedStatus ==
  ASSUME ScpTypes, ScpTypes', SharedInv, NEW r \in Readers, StatusOk(r) \/ StatusEmpty(r)
  PROVE  Unanswered' \/ Answered'
<1>1. pc[r][1] \in Reading /\ pc[r] = <<pc[r][1], "status">> /\ pc[r][1] # "idle"
  <2>1. pc[r] \in Reading \X {"status"}
    BY DEF StatusOk, StatusEmpty
  <2>2. QED
    BY <2>1 DEF Reading
<1>2. UNCHANGED <<owed, gets, get, queue, data, status, count, scp_resp_data, outcome>>
  <2>1. StatusOk(r) => UNCHANGED <<dsp, events, shared, locals, calls>>
    BY DEF StatusOk
  <2>2. ASSUME StatusEmpty(r)
        PROVE  UNCHANGED <<dsp, events, locals, calls>> /\ scp_resp_data' = scp_resp_data
    <3>1. pc[r][1] \in {"head", "word", "clear"}
      BY <1>1 DEF Reading
    <3>2. UNCHANGED shared \/ scp_resp_data' = scp_resp_data
      BY <2>2, <3>1 DEF StatusEmpty
    <3>3. QED
      BY <2>2, <3>2 DEF StatusEmpty, shared
  <2>3. QED
    BY <2>1, <2>2 DEF dsp, shared, locals, calls
<1>3. CASE StatusOk(r)
  <2>1. pc'[r] = <<pc[r][1], "data">> /\ (\A o \in Readers : o # r => pc'[o] = pc[o])
        /\ UNCHANGED <<wait_scp, scp_resp_count>> /\ status = "ok"
    <3>1. Goto(r, <<pc[r][1], "data">>)
      BY <1>3 DEF StatusOk
    <3>2. QED
      BY <1>3, <3>1, Gone DEF StatusOk, shared
  <2>2. pc'[r][1] = pc[r][1]
    BY <2>1
  <2>3. \A o \in Readers : pc'[o][1] = pc[o][1]
    BY <2>1, <2>2
  <2>4. InLoop' = InLoop
    BY <2>3 DEF InLoop, Readers
  <2>5. Answered
    BY <2>1 DEF SharedInv, Unanswered
  <2>6. ASSUME NEW o \in Readers, pc'[o][1] = "word" PROVE Own(o)' = Own(o)
    <3>1. CASE o = r
      <4>1. pc[r] = <<"word", "status">> /\ pc'[r] = <<"word", "data">>
        BY <1>1, <2>1, <2>3, <2>6, <3>1
      <4>2. QED
        BY <1>2, <2>1, <3>1, <4>1, OwnIs, OwnNext
    <3>2. CASE o # r
      <4>1. pc'[o] = pc[o] /\ count' = count /\ status' = status
        BY <1>2, <2>1, <3>2
      <4>2. QED
        BY <4>1 DEF Own
    <3>3. QED
      BY <3>1, <3>2
  <2>7. QED
    BY <1>2, <2>1, <2>3, <2>4, <2>5, <2>6, StaysAnswered
<1>4. CASE StatusEmpty(r) /\ pc[r][1] = "word"
  <2>1. Answered /\ pc[r] = <<"word", "status">> /\ status = "empty"
    BY <1>1, <1>4 DEF SharedInv, Unanswered, StatusEmpty
  <2>2. Matched(r) /\ scp_resp_count' = count[r]
    BY <1>4 DEF StatusEmpty
  <2>3. PICK k \in {"clear", "poll"} : (\E m : Goto(r, <<k, m>>)) /\ (k = "poll" => r = "requester")
    BY <2>2, Zenon DEF Matched, Readers
  <2>4. pc'[r][1] = k /\ \A o \in Readers : o # r => pc'[o] = pc[o]
    BY <2>3, Gone
  <2>5. InLoop' => InLoop
    BY <1>1, <2>4 DEF InLoop, Readers
  <2>6. Popped > 0 /\ queue = <<>> /\ Own(r) = 0 /\ count[r] < Words /\ Words \in 1..4 /\ count[r] \in Nat
    <3>1. Popped > 0 /\ Own(r) = 0 /\ count[r] \in Nat
      BY <1>4, <2>1, OwnIs DEF Answered, WordsShared
    <3>2. count[r] < Words
      BY <1>4 DEF ScpTypes, ReadersInv
    <3>3. QED
      BY <2>1, <3>1, <3>2, ScpAssumption DEF Answered, OneReply
  <2>7. Popped' = Popped /\ \A i : WordAt(i)' = WordAt(i)
    BY <1>2 DEF Popped, WordAt
  <2>8. \A o \in Readers : Own(o) \in Nat /\ (o # r => Own(o)' = Own(o) /\ pc'[o] = pc[o]) /\ (o = r => Own(o)' = 0)
    <3>1. \A o \in Readers : Own(o) \in Nat
      BY OwnIs
    <3>2. pc'[r][1] # "word"
      BY <2>4
    <3>3. Own(r)' = 0
      BY <3>2, OwnNext
    <3>4. \A o \in Readers : o # r => pc'[o] = pc[o] /\ count' = count /\ status' = status
      BY <1>2, <2>4
    <3>5. \A o \in Readers : o # r => Own(o)' = Own(o)
      BY <3>4 DEF Own
    <3>6. QED
      BY <3>1, <3>3, <3>4, <3>5
  <2>9. OneReply'
    BY <1>2, <2>1, <2>7 DEF Answered, OneReply
  <2>10. WordsShared'
    <3>1. \A o \in Readers : pc'[o][1] = "word" => Popped > 0
      BY <2>6
    <3>2. ASSUME NEW x \in Readers, NEW o \in Readers, x # o
          PROVE  Own(x)' + Own(o)' <= Popped - 1
      <4>1. Own(x) + Own(o) <= Popped - 1
        BY <2>1, <2>6, <3>2 DEF Answered, WordsShared
      <4>2. Own(x)' <= Own(x) /\ Own(o)' <= Own(o) /\ Own(x)' \in Nat /\ Own(o)' \in Nat
        BY <2>8
      <4>3. Popped \in Nat
        BY <2>1, PoppedIs
      <4>4. QED
        BY <2>8, <4>1, <4>2, <4>3
    <3>3. QED
      BY <2>7, <3>1, <3>2 DEF WordsShared
  <2>11. AllOwn'
    <3>1. \A o \in Readers : pc'[o][1] = "word" => o # r
      BY <2>4
    <3>2. QED
      BY <1>2, <2>1, <2>7, <2>8, <3>1 DEF Answered, AllOwn
  <2>12. WaitOver'
    <3>1. scp_resp_count' # Words /\ queue' = <<>>
      BY <1>2, <2>2, <2>6
    <3>2. QED
      BY <3>1, ScpAssumption DEF WaitOver
  <2>13. QED
    BY <2>9, <2>10, <2>11, <2>12 DEF Answered
<1>5. CASE StatusEmpty(r) /\ pc[r][1] # "word"
  <2>1. UNCHANGED <<wait_scp, scp_resp_count>> /\ status = "empty"
    BY <1>1, <1>5 DEF StatusEmpty, shared, Reading
  <2>2. PICK k \in {"clear", "sleep", "idle"} : \E m : Goto(r, <<k, m>>)
    <3>1. pc[r][1] = "head" \/ pc[r][1] = "clear"
      BY <1>1, <1>5 DEF Reading
    <3>2. Missed(r) \/ Goto(r, <<"idle", "none">>)
      BY <1>5, <3>1 DEF StatusEmpty
    <3>3. QED
      BY <3>2, Zenon DEF Missed
  <2>3. pc'[r][1] = k /\ \A o \in Readers : o # r => pc'[o] = pc[o]
    BY <2>2, Gone
  <2>4. InLoop' => InLoop
    BY <1>1, <2>3 DEF InLoop, Readers
  <2>5. CASE Unanswered
    BY <1>2, <2>1, <2>3, <2>4, <2>5, StaysUnanswered DEF Unanswered
  <2>6. CASE Answered
    <3>1. \A o \in Readers : pc'[o][1] = "word" => pc'[o] = pc[o] /\ count' = count /\ status' = status
      BY <1>2, <2>3
    <3>2. \A o \in Readers : pc'[o][1] = "word" => Own(o)' = Own(o)
      BY <3>1 DEF Own
    <3>3. QED
      BY <1>2, <2>1, <2>4, <2>6, <3>1, <3>2, StaysAnswered
  <2>7. QED
    BY <2>5, <2>6 DEF SharedInv
<1>6. QED
  BY <1>3, <1>4, <1>5

\* The word read is taken for a header: it is the one waited for, or not.
LEMMA SharedHead ==
  ASSUME ScpTypes, ScpTypes', SharedInv, NEW r \in Readers, HeadData(r) \/ ClearData(r)
  PROVE  Unanswered' \/ Answered'
<1>1. (pc[r] = <<"head", "data">> \/ pc[r] = <<"clear", "data">>) /\ pc[r][1] \notin {"idle", "word"}
  <2>1. pc[r] = <<"head", "data">> \/ pc[r] = <<"clear", "data">>
    BY DEF HeadData, ClearData
  <2>2. QED
    BY <2>1
<1>2. UNCHANGED <<owed, gets, get, queue, data, status, scp_resp_data, wait_scp, outcome>>
  <2>1. HeadData(r) => UNCHANGED <<dsp, calls, wait_scp, scp_resp_data>>
    BY DEF HeadData, shared
  <2>2. ClearData(r) => UNCHANGED <<dsp, calls, wait_scp, scp_resp_data>>
    BY DEF ClearData, shared
  <2>3. QED
    BY <2>1, <2>2 DEF dsp, calls
<1>3. CASE ClearData(r) \/ ~IsReply(data)
  <2>1. UNCHANGED <<count, scp_resp_count>>
    BY <1>3 DEF ClearData, HeadData, shared, locals
  <2>2. PICK k \in {"clear", "sleep"} : \E m : Goto(r, <<k, m>>)
    BY <1>3, Zenon DEF ClearData, HeadData, Missed
  <2>3. pc'[r][1] = k /\ \A o \in Readers : o # r => pc'[o] = pc[o]
    BY <2>2, Gone
  <2>4. InLoop' => InLoop
    BY <1>1, <2>3 DEF InLoop, Readers
  <2>5. CASE Unanswered
    BY <1>2, <2>3, <2>4, <2>5, StaysUnanswered DEF Unanswered
  <2>6. CASE Answered
    <3>1. \A o \in Readers : pc'[o][1] = "word" => pc'[o] = pc[o] /\ count' = count /\ status' = status
      BY <1>2, <2>1, <2>3
    <3>2. \A o \in Readers : pc'[o][1] = "word" => Own(o)' = Own(o)
      BY <3>1 DEF Own
    <3>3. QED
      BY <1>2, <2>1, <2>4, <2>6, <3>1, <3>2, StaysAnswered
  <2>7. QED
    BY <2>5, <2>6 DEF SharedInv
<1>4. CASE HeadData(r) /\ IsReply(data)
  <2>1. /\ count' = [count EXCEPT ![r] = 0] /\ scp_resp_count' = Words /\ Goto(r, <<"word", "post">>)
    BY <1>4 DEF HeadData
  <2>2. pc'[r] = <<"word", "post">> /\ \A o \in Readers : o # r => pc'[o] = pc[o]
    BY <2>1, Gone
  <2>3. count'[r] = 0 /\ \A o \in Readers : o # r => count'[o] = count[o]
    BY <2>1 DEF ScpTypes, ScpTypeOK
  <2>4. Answered /\ Popped = 1 /\ Words \in 1..4
    <3>1. data.pos = 0 /\ NoWord.pos = 1 /\ \A k : WordAt(k).pos = k
      BY <1>4 DEF IsReply, NoWord, WordAt
    <3>2. Answered
      BY <3>1 DEF SharedInv, Unanswered
    <3>3. Popped \in 0..(Words + 1) /\ Words \in 1..4
      BY <3>2, PoppedIs
    <3>4. Popped # 0 /\ data = WordAt(Popped - 1)
      BY <3>1, <3>2 DEF Answered, OneReply
    <3>5. QED
      BY <3>1, <3>2, <3>3, <3>4
  <2>5. queue # <<>>
    BY <2>4, PoppedIs
  <2>6. Popped' = Popped /\ \A i : WordAt(i)' = WordAt(i)
    BY <1>2 DEF Popped, WordAt
  <2>7. InLoop' = InLoop
    <3>1. pc'[r][1] = "word"
      BY <2>2
    <3>2. QED
      BY <1>1, <2>2, <3>1 DEF InLoop, Readers
  <2>8. \A o \in Readers : o # r => Own(o)' = Own(o)
    <3>1. \A o \in Readers : o # r => pc'[o] = pc[o] /\ count'[o] = count[o] /\ status' = status
      BY <1>2, <2>2, <2>3
    <3>2. QED
      BY <3>1 DEF Own
  <2>9. Own(r)' = 0 /\ Own(r) = 0 /\ \A o \in Readers : Own(o) \in Nat
    <3>1. Own(r)' = 0
      BY <2>2, <2>3, OwnNext
    <3>2. QED
      BY <1>1, <3>1, OwnIs
  <2>10. OneReply'
    BY <1>2, <2>4, <2>6 DEF Answered, OneReply
  <2>11. WordsShared'
    <3>1. ASSUME NEW x \in Readers, NEW o \in Readers, x # o
          PROVE  Own(x)' + Own(o)' <= Popped - 1
      <4>1. Own(x) + Own(o) <= Popped - 1
        BY <2>4, <3>1 DEF Answered, WordsShared
      <4>2. Own(x)' = Own(x) /\ Own(o)' = Own(o)
        BY <2>8, <2>9
      <4>3. QED
        BY <4>1, <4>2
    <3>2. QED
      BY <2>4, <2>6, <3>1 DEF WordsShared
  <2>12. AllOwn'
    <3>1. \A i \in 1..count'[r] : FALSE
      BY <2>3
    <3>2. ASSUME NEW o \in Readers, o # r, pc'[o][1] = "word", Own(o)' = Popped - 1
          PROVE  \A i \in 1..count'[o] : scp_resp_data[i] = WordAt(i)
      <4>1. pc[o][1] = "word" /\ Own(o) = Popped - 1 /\ count'[o] = count[o]
        BY <2>2, <2>3, <2>8, <3>2
      <4>2. QED
        BY <2>4, <4>1 DEF Answered, AllOwn
    <3>3. QED
      BY <1>2, <2>6, <3>1, <3>2 DEF AllOwn
  <2>13. WaitOver'
    BY <1>2, <2>4, <2>5, <2>7 DEF Answered, WaitOver
  <2>14. QED
    BY <2>10, <2>11, <2>12, <2>13 DEF Answered
<1>5. QED
  BY <1>3, <1>4 DEF HeadData

\* A word behind the header is stored.
LEMMA SharedWord ==
  ASSUME ScpTypes, ScpTypes', SharedInv, NEW r \in Readers, WordData(r)
  PROVE  Unanswered' \/ Answered'
<1> DEFINE c == count[r]
<1>1. pc[r] = <<"word", "data">> /\ pc[r][1] = "word" /\ Answered
  <2>1. pc[r] = <<"word", "data">>
    BY DEF WordData
  <2>2. pc[r][1] = "word"
    BY <2>1
  <2>3. QED
    BY <2>1, <2>2 DEF SharedInv, Unanswered
<1>2. c \in Nat /\ c < Words /\ size[r] = Words /\ Words \in 1..4 /\ c + 1 \in 1..Words
  BY <1>1, ScpAssumption DEF ScpTypes, ScpTypeOK, ReadersInv
<1>3. /\ UNCHANGED <<owed, gets, get, queue, data, status, outcome>>
      /\ count'[r] = c + 1 /\ \A o \in Readers : o # r => count'[o] = count[o]
      /\ scp_resp_data'[c + 1] = data
      /\ \A i \in 1..Words : i # c + 1 => scp_resp_data'[i] = scp_resp_data[i]
  BY <1>2 DEF WordData, dsp, calls, ScpTypes, ScpTypeOK
<1>4. Popped' = Popped /\ \A i : WordAt(i)' = WordAt(i)
  BY <1>3 DEF Popped, WordAt
<1>5. PICK k \in {"word", "clear", "poll"}, m \in {"post", "none"} :
        Goto(r, <<k, m>>) /\ (c + 1 < Words <=> k = "word") /\ (k = "word" <=> m = "post" /\ k # "clear")
  BY <1>2 DEF WordData, Matched
<1>6. pc'[r] = <<k, m>> /\ pc'[r][1] = k /\ \A o \in Readers : o # r => pc'[o] = pc[o]
  BY <1>5, Gone
<1>7. InLoop' = InLoop
  BY <1>1, <1>6 DEF InLoop, Readers
<1>8. Own(r) = c + 1 /\ \A o \in Readers : Own(o) \in Nat
  BY <1>1, OwnIs
<1>9. \A o \in Readers : o # r => Own(o)' = Own(o)
  <2>1. \A o \in Readers : o # r => pc'[o] = pc[o] /\ count'[o] = count[o] /\ status' = status
    BY <1>3, <1>6
  <2>2. QED
    BY <2>1 DEF Own
<1>10. Own(r)' = IF k = "word" THEN c + 1 ELSE 0
  <2>1. CASE k = "word"
    <3>1. pc'[r] = <<"word", "post">>
      BY <1>5, <1>6, <2>1
    <3>2. QED
      BY <1>3, <2>1, <3>1, OwnNext
  <2>2. CASE k # "word"
    BY <1>6, <2>2, OwnNext
  <2>3. QED
    BY <2>1, <2>2
<1>11. Popped \in 1..(Words + 1) /\ c + 1 <= Popped - 1
       /\ \A o \in Readers : o # r => Own(o) + (c + 1) <= Popped - 1
  <2>1. Popped \in 0..(Words + 1) /\ Popped > 0
    BY <1>1, PoppedIs DEF Answered, WordsShared
  <2>2. \A o \in Readers : o # r => Own(o) + Own(r) <= Popped - 1
    BY <1>1, <2>1 DEF Answered, WordsShared
  <2>3. PICK o \in Readers : o # r
    BY DEF Readers
  <2>4. Own(o) + (c + 1) <= Popped - 1 /\ Own(o) \in Nat
    BY <1>8, <2>2, <2>3
  <2>5. QED
    BY <1>2, <1>8, <2>1, <2>2, <2>4
<1>12. ASSUME c + 1 = Popped - 1
       PROVE  \A i \in 1..(c + 1) : scp_resp_data'[i] = WordAt(i)
  <2>1. data = WordAt(c + 1)
    BY <1>1, <1>11, <1>12 DEF Answered, OneReply
  <2>2. \A i \in 1..c : scp_resp_data[i] = WordAt(i)
    BY <1>1, <1>8, <1>12 DEF Answered, AllOwn
  <2>3. ASSUME NEW i \in 1..(c + 1) PROVE scp_resp_data'[i] = WordAt(i)
    <3>1. CASE i = c + 1
      BY <1>3, <2>1, <3>1
    <3>2. CASE i # c + 1
      <4>1. i \in 1..c /\ i \in 1..Words
        BY <1>2, <3>2
      <4>2. QED
        BY <1>3, <2>2, <3>2, <4>1
    <3>3. QED
      BY <3>1, <3>2
  <2>4. QED
    BY <2>3
<1> HIDE DEF c
<1>13. OneReply'
  BY <1>1, <1>3, <1>4 DEF Answered, OneReply
<1>14. WordsShared'
  <2>1. ASSUME NEW x \in Readers, NEW o \in Readers, x # o
        PROVE  Own(x)' + Own(o)' <= Popped - 1
    <3>1. CASE x = r
      BY <1>2, <1>8, <1>9, <1>10, <1>11, <2>1, <3>1
    <3>2. CASE x # r
      <4>1. o = r
        BY <2>1, <3>2 DEF Readers
      <4>2. QED
        BY <1>2, <1>8, <1>9, <1>10, <1>11, <3>2, <4>1
    <3>3. QED
      BY <3>1, <3>2
  <2>2. QED
    BY <1>4, <1>11, <2>1 DEF WordsShared
<1>15. AllOwn'
  <2>1. ASSUME NEW x \in Readers, pc'[x][1] = "word", Own(x)' = Popped - 1
        PROVE  \A i \in 1..count'[x] : scp_resp_data'[i] = WordAt(i)
    <3>1. x = r
      <4>1. SUFFICES ASSUME x # r PROVE FALSE
        OBVIOUS
      <4>2. Own(x) + (c + 1) <= Popped - 1 /\ Own(x) = Popped - 1
        BY <1>9, <1>11, <2>1, <4>1
      <4>3. QED
        BY <1>2, <1>11, <4>2
    <3>2. k = "word" /\ c + 1 = Popped - 1
      BY <1>6, <1>10, <2>1, <3>1
    <3>3. QED
      BY <1>3, <1>12, <3>1, <3>2
  <2>2. QED
    BY <1>4, <2>1 DEF AllOwn
<1>16. WaitOver'
  <2>1. CASE k = "word"
    <3>1. UNCHANGED <<wait_scp, scp_resp_count>>
      BY <1>2, <1>5, <2>1 DEF WordData, c
    <3>2. Own(r) # 0
      BY <1>2, <1>8
    <3>3. QED
      BY <1>1, <1>3, <1>7, <3>1, <3>2 DEF Answered, WaitOver
  <2>2. CASE k # "word"
    <3>1. c + 1 = Words /\ Popped = Words + 1
      BY <1>2, <1>5, <1>11, <2>2
    <3>2. queue = <<>>
      BY <1>1, <3>1, PoppedIs
    <3>3. \A i \in 1..Words : scp_resp_data'[i] = WordAt(i)
      BY <1>12, <3>1, <1>2
    <3>4. ASSUME NEW o \in Readers PROVE Own(o)' = 0
      <4>1. CASE o = r
        BY <1>10, <2>2, <4>1
      <4>2. CASE o # r
        <5>1. Own(o) + Words <= Words /\ Own(o) \in Nat
          BY <1>2, <1>8, <1>11, <3>1, <4>2
        <5>2. Own(o) = 0
          BY <1>2, <5>1
        <5>3. QED
          BY <1>9, <4>2, <5>2
      <4>3. QED
        BY <4>1, <4>2
    <3>5. QED
      BY <1>3, <1>4, <3>2, <3>3, <3>4 DEF WaitOver
  <2>3. QED
    BY <2>1, <2>2
<1>17. QED
  BY <1>13, <1>14, <1>15, <1>16 DEF Answered

\* A turn of the requester's loop, or the handler starts.
LEMMA SharedTurn ==
  ASSUME ScpTypes, ScpTypes', SharedInv, Poll \/ Sleep \/ Finish \/ TimeOut \/ Handle
  PROVE  SharedInv'
<1>1. UNCHANGED <<owed, gets, get, queue, data, status, count, scp_resp_data, scp_resp_count>>
  BY DEF Poll, Sleep, Finish, TimeOut, Handle, dsp, shared, locals, calls
<1>2. PICK r \in Readers, k \in {"idle", "poll", "sleep", "head", "clear"}, m \in {"none", "post"} : Goto(r, <<k, m>>)
  <2>1. Poll \/ Sleep \/ Finish \/ TimeOut =>
          \E k \in {"idle", "poll", "sleep", "head", "clear"}, m \in {"none", "post"} : Goto("requester", <<k, m>>)
    BY DEF Poll, Sleep, Finish, TimeOut, End
  <2>2. Handle => \E k \in {"idle", "poll", "sleep", "head", "clear"}, m \in {"none", "post"} : Goto("handler", <<k, m>>)
    BY DEF Handle
  <2>3. QED
    BY <2>1, <2>2 DEF Readers
<1>3. pc'[r][1] = k /\ \A o \in Readers : o # r => pc'[o] = pc[o]
  BY <1>2, Gone
<1>4. \A o \in Readers : pc'[o][1] = "word" => pc[o][1] = "word" /\ Own(o)' = Own(o)
  <2>1. \A o \in Readers : pc'[o][1] = "word" => pc'[o] = pc[o] /\ count' = count /\ status' = status
    BY <1>1, <1>3
  <2>2. QED
    BY <2>1 DEF Own
<1>5. InLoop' /\ ~wait_scp' => InLoop /\ ~wait_scp
  <2>1. Poll \/ Sleep => wait_scp' = wait_scp /\ InLoop
    BY DEF Poll, Sleep, shared, InLoop
  <2>2. Finish \/ TimeOut => ~InLoop'
    <3>1. ASSUME Finish \/ TimeOut PROVE pc'["requester"] = <<"idle", "none">>
      <4>1. Goto("requester", <<"idle", "none">>)
        BY <3>1 DEF Finish, TimeOut, End
      <4>2. QED
        BY <4>1, Gone DEF Readers
    <3>2. QED
      BY <3>1 DEF InLoop
  <2>3. Handle => wait_scp' = wait_scp /\ InLoop' = InLoop
    BY DEF Handle, shared, InLoop, Goto, ScpTypes, ScpTypeOK, Readers
  <2>4. QED
    BY <2>1, <2>2, <2>3
<1>6. Answered => Answered'
  BY <1>1, <1>4, <1>5, StaysAnswered
<1>7. ASSUME Unanswered
      PROVE  Unanswered' /\ WholeReply'
  <2>1. InLoop' => InLoop /\ wait_scp' = wait_scp
    <3>1. InLoop => wait_scp
      BY <1>7 DEF Unanswered
    <3>2. Poll \/ Sleep \/ Handle => wait_scp' = wait_scp
      BY DEF Poll, Sleep, Handle, shared
    <3>3. Poll \/ Sleep => InLoop
      BY DEF Poll, Sleep, InLoop
    <3>4. Handle => InLoop' = InLoop
      BY DEF Handle, InLoop, Goto, ScpTypes, ScpTypeOK, Readers
    <3>5. Finish => ~wait_scp /\ InLoop
      BY DEF Finish, InLoop
    <3>6. TimeOut => ~wait_scp'
      BY DEF TimeOut
    <3>7. TimeOut => ~InLoop'
      <4>1. ASSUME TimeOut PROVE pc'["requester"] = <<"idle", "none">>
        <5>1. Goto("requester", <<"idle", "none">>)
          BY <4>1 DEF TimeOut, End
        <5>2. QED
          BY <5>1, Gone DEF Readers
      <4>2. QED
        BY <4>1 DEF InLoop
    <3>8. QED
      BY <3>1, <3>2, <3>3, <3>4, <3>5, <3>7
  <2>2. \A o \in Readers : pc'[o][1] # "word"
    BY <1>3, <1>7 DEF Unanswered
  <2>3. outcome'.kind # "ok"
    <3>1. Poll \/ Sleep \/ Handle => outcome' = outcome
      BY DEF Poll, Sleep, Handle, calls
    <3>2. ~Finish
      BY <1>7 DEF Finish, Unanswered, InLoop
    <3>3. TimeOut => outcome'.kind = "EIO"
      BY DEF TimeOut, End
    <3>4. QED
      BY <1>7, <3>1, <3>2, <3>3 DEF Unanswered
  <2>4. status' = "empty"
    BY <1>1, <1>7 DEF Unanswered
  <2>5. QED
    BY <1>1, <1>7, <2>1, <2>2, <2>3, <2>4, StaysUnanswered DEF WholeReply
<1>8. ASSUME Answered PROVE WholeReply'
  <2>1. CASE Poll \/ Sleep \/ Handle
    BY <2>1 DEF Poll, Sleep, Handle, calls, SharedInv, WholeReply
  <2>2. CASE TimeOut
    BY <2>2 DEF TimeOut, End, WholeReply
  <2>3. CASE Finish
    <3>1. outcome' = [get |-> get, kind |-> IF scp_resp_count = Words THEN "ok" ELSE "EINVAL", late |-> FALSE,
                      words |-> IF scp_resp_count = Words THEN [i \in 1..Words |-> scp_resp_data[i]] ELSE <<>>]
      BY <2>3 DEF Finish, End
    <3>2. InLoop /\ ~wait_scp
      BY <2>3 DEF Finish, InLoop
    <3>3. CASE scp_resp_count # Words
      BY <3>1, <3>3 DEF WholeReply
    <3>4. CASE scp_resp_count = Words
      <4>1. \A i \in 1..Words : scp_resp_data[i] = WordAt(i)
        BY <1>8, <3>2, <3>4 DEF Answered, WaitOver
      <4>2. \A i \in 1..Words : outcome'.words[i] = WordAt(i)
        BY <3>1, <3>4, <4>1
      <4>3. outcome'.get = get /\ 1 \in 1..Words
        BY <3>1, ScpAssumption
      <4>4. \A i \in 1..Words : outcome'.words[i].pos = i /\ outcome'.words[i].get = get
        <5>1. \A i : WordAt(i).pos = i /\ WordAt(i).get = get
          BY DEF WordAt
        <5>2. QED
          BY <4>2, <5>1
      <4>5. QED
        BY <4>3, <4>4 DEF WholeReply
    <3>5. QED
      BY <3>3, <3>4
  <2>4. QED
    BY <2>1, <2>2, <2>3
<1>9. QED
  BY <1>6, <1>7, <1>8 DEF SharedInv

\* The GET is sent, or the DSP takes none.
LEMMA SharedSend ==
  ASSUME ScpTypes, ScpTypes', SharedInv, Limit <= 1, SendGet \/ SendFails
  PROVE  SharedInv'
<1>1. gets = 0 /\ Limit \in Nat
  BY LimitIs DEF SendGet, SendFails, ScpTypes, ScpTypeOK, Gets
<1>2. Unanswered /\ owed = <<>> /\ pc["requester"][1] = "idle"
  BY <1>1 DEF SharedInv, Answered, OneReply, Unanswered, SendGet, SendFails
<1>3. gets' = 1 /\ UNCHANGED <<queue, data, status>>
  BY <1>1 DEF SendGet, SendFails, dsp
<1>4. CASE SendGet
  <2>1. Goto("requester", <<"poll", "none">>) /\ wait_scp' /\ owed' = <<get'>> /\ outcome' = outcome /\ late' = late
    BY <1>2, <1>4 DEF SendGet
  <2>2. pc'["requester"][1] = "poll" /\ \A o \in Readers : o # "requester" => pc'[o] = pc[o]
    BY <2>1, Gone DEF Readers
  <2>3. \A o \in Readers : pc'[o][1] # "word"
    BY <1>2, <2>2 DEF Unanswered
  <2>4. Unanswered'
    BY <1>2, <1>3, <2>1, <2>3 DEF Unanswered
  <2>5. QED
    BY <2>1, <2>4 DEF SharedInv, WholeReply
<1>5. CASE SendFails
  <2>1. pc' = pc /\ owed' = owed
    BY <1>5 DEF SendFails, dsp
  <2>2. outcome'.kind = "EIO"
    BY <1>5 DEF SendFails, NoOutcome
  <2>3. ~InLoop'
    BY <1>2, <2>1 DEF InLoop
  <2>4. Unanswered'
    BY <1>2, <1>3, <2>1, <2>2, <2>3 DEF Unanswered
  <2>5. QED
    BY <2>2, <2>4 DEF SharedInv, WholeReply
<1>6. QED
  BY <1>4, <1>5

\* The DSP replies.
LEMMA SharedAnswer ==
  ASSUME ScpTypes, ScpTypes', SharedInv, Answer
  PROVE  SharedInv'
<1>1. Unanswered /\ owed = <<get>> /\ gets = 1
  BY DEF SharedInv, Answered, OneReply, Unanswered, Answer
<1>2. Words \in 1..4 /\ get \in GetSet
  BY ScpAssumption DEF ScpTypes, ScpTypeOK
<1>3. owed' = <<>> /\ queue' = Reply(get)
  <2>1. Head(owed) = get /\ Tail(owed) = <<>>
    BY <1>1
  <2>2. Reply(get) \in Seq(WordSet)
    BY <1>2, ReplyIs
  <2>3. <<>> \o Reply(get) = Reply(get)
    BY <2>2
  <2>4. QED
    BY <1>1, <2>1, <2>3 DEF Answer, Unanswered
<1>4. UNCHANGED <<gets, get, data, status, pc, wait_scp, outcome, late>>
  BY DEF Answer, shared, locals, calls
<1>5. Len(queue') = Words + 1 /\ Popped' = 0
  BY <1>2, <1>3, ReplyIs DEF Popped
<1>6. OneReply'
  <2>1. ASSUME NEW i \in 1..Len(queue') PROVE queue'[i] = WordAt(0 + i - 1)'
    <3>1. Reply(get)[i] = [get |-> get, pos |-> i - 1] /\ 0 + i - 1 = i - 1
      BY <1>2, <1>5, ReplyIs
    <3>2. QED
      BY <1>3, <1>4, <3>1 DEF WordAt
  <2>2. data' = NoWord
    BY <1>1, <1>4 DEF Unanswered
  <2>3. QED
    BY <1>1, <1>2, <1>3, <1>4, <1>5, <2>1, <2>2 DEF OneReply
<1>7. \A r \in Readers : pc'[r][1] # "word"
  BY <1>1, <1>4 DEF Unanswered
<1>8. WordsShared' /\ AllOwn'
  BY <1>5, <1>7 DEF WordsShared, AllOwn
<1>9. WaitOver'
  BY <1>1, <1>4 DEF Unanswered, WaitOver, InLoop
<1>10. QED
  BY <1>4, <1>6, <1>8, <1>9 DEF SharedInv, Answered, WholeReply

LEMMA SharedNext ==
  ASSUME ScpTypes, ScpTypes', SharedInv, Limit <= 1, ScpNext
  PROVE  SharedInv'
<1>1. ASSUME NEW r \in Readers, ReadQueue(r) PROVE SharedInv'
  <2>1. Unanswered' \/ Answered'
    BY <1>1, SharedPost, SharedStatus, SharedHead, SharedWord DEF ReadQueue
  <2>2. UNCHANGED <<outcome, late>>
    BY <1>1 DEF ReadQueue, Post, StatusOk, StatusEmpty, HeadData, WordData, ClearData, calls
  <2>3. QED
    BY <2>1, <2>2 DEF SharedInv, WholeReply
<1>2. QED
  BY <1>1, SharedTurn, SharedSend, SharedAnswer DEF ScpNext

\* With at most one GET to a DSP that announces its replies, whatever the two readers tear
\* apart of the reply, a caller that is told it succeeded has the words of that reply.
THEOREM SharedInvariant ==
  ASSUME MaxShared <= 1
  PROVE  ScpSpec => [](ScpTypes /\ (notifies => SharedInv))
<1>1. ScpInit => ScpTypes /\ (notifies => SharedInv)
  <2> SUFFICES ASSUME ScpInit PROVE ScpTypes /\ SharedInv
    OBVIOUS
  <2>1. \A r \in Readers : pc[r][1] = "idle"
    BY DEF ScpInit, Idle
  <2>2. outcome.kind = "none"
    BY DEF ScpInit, NoOutcome
  <2>3. Unanswered
    BY <2>1, <2>2 DEF ScpInit, Unanswered, InLoop, Readers
  <2>4. QED
    BY <2>2, <2>3, ScpInitTypes DEF SharedInv, WholeReply
<1>2. (ScpTypes /\ (notifies => SharedInv)) /\ [ScpNext]_scpVars
      => (ScpTypes /\ (notifies => SharedInv))'
  <2> SUFFICES ASSUME ScpTypes, notifies => SharedInv, [ScpNext]_scpVars
               PROVE  ScpTypes' /\ (notifies' => SharedInv')
    OBVIOUS
  <2>1. ScpTypes'
    BY ScpNextTypes
  <2>2. CASE UNCHANGED scpVars
    <3>1. /\ UNCHANGED <<notifies, owed, queue, data, status, pc, count, get, gets, late, outcome>>
          /\ UNCHANGED <<wait_scp, scp_resp_data, scp_resp_count>>
      BY <2>2 DEF scpVars, dsp, shared, locals, calls
    <3>2. QED
      BY <2>1, <3>1
         DEF SharedInv, Unanswered, Answered, OneReply, WordsShared, AllOwn, WaitOver, InLoop, Popped,
             WordAt, Own, WholeReply
  <2>3. CASE ScpNext
    <3>1. notifies' = notifies
      BY <2>3, NotifiesStays
    <3>2. notifies => Limit <= 1
      BY DEF Limit
    <3>3. QED
      BY <2>1, <2>3, <3>1, <3>2, SharedNext
  <2>4. QED
    BY <2>2, <2>3
<1>3. QED
  BY <1>1, <1>2, PTL DEF ScpSpec

\* What a successful GET hands over is one reply and its own if none was late: for any
\* number of GETs to a DSP that is polled, and for one to a DSP that also announces it.
THEOREM WholeForOne ==
  ASSUME MaxShared <= 1
  PROVE  ScpSpec => []WholeReply
<1>1. (ScpTypes /\ (notifies => SharedInv)) /\ (ScpTypes /\ (~notifies => PolledInv)) => WholeReply
  BY DEF SharedInv, PolledInv, Told
<1>2. QED
  BY <1>1, SharedInvariant, PolledInvariant, PTL
=============================================================================
