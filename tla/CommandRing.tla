---------------------------- MODULE CommandRing ----------------------------
(***************************************************************************)
(* The verb channel of the controller: snd_hdac_bus_exec_verb over the     *)
(* command ring (CORB) and the response ring (RIRB), both filled and       *)
(* drained by DMA while the driver looks on.                               *)
(*                                                                         *)
(* A thread holds cmd_mutex for the whole call.  A write verb is posted:   *)
(* the call ends when the verb is in the CORB.  A read waits until         *)
(* rirb.cmds[addr], the number of verbs of that codec still unanswered, is *)
(* zero; then the last response stored is the one it wants.  The codec     *)
(* answers in order, late or (MaxLost) never; its response to the verb     *)
(* numbered id is the number id.  The wait ends after one second whatever  *)
(* happened, which is a step that may be taken at any time.                *)
(***************************************************************************)
EXTENDS Integers, Sequences, FiniteSets

CONSTANTS
  Threads,     \* contexts that execute verbs
  Addrs,       \* codec addresses on the link
  Entries,     \* 256 in the code: size of the CORB and of the RIRB
  Links,       \* what the link may be: its codecs; polling (bus->polling_mode: the
               \* waiter reads the RIRB, not the interrupt); bounds: verbs issued on
               \* it, unsolicited responses of its codecs
  MaxVerbs,    \* bound: verbs issued on any link
  MaxLost,     \* bound: verbs the codec never answers
  MaxUnsol,    \* bound: unsolicited responses on any link
  MaxResets    \* bound: controller power-downs

ASSUME RingAssumption ==
  /\ Entries \in Nat \ {0, 1}
  /\ Links \subseteq [codecs : (SUBSET Addrs) \ {{}}, polling : BOOLEAN,
                      verbs : 0..MaxVerbs, unsols : 0..MaxUnsol]
  /\ MaxVerbs \in Nat /\ MaxLost \in Nat /\ MaxUnsol \in Nat /\ MaxResets \in Nat

VARIABLES
  link,                   \* the link this is
  corb, CORBWP, CORBRP,   \* the command ring and its two pointers
  flight,                 \* verbs fetched and not answered yet, oldest first
  rirb, RIRBWP,           \* the response ring and its hardware pointer
  rp,                     \* rirb.rp (rirb.wp is equal to it outside reg_lock)
  cmds, res,              \* rirb.cmds and rirb.res, per codec
  gone,                   \* the controller is in D3: its registers read all-ones
  pc, verb,               \* where a thread stands in exec_verb, and with what
  issued, result,         \* history: verbs issued, outcome of each thread's last call
  events,                 \* history: what was handed to snd_hdac_bus_queue_event
  losses, unsols, resets

ring   == <<link, corb, CORBWP, CORBRP>>
answer == <<flight, rirb, RIRBWP>>
soft   == <<rp, cmds, res>>
calls  == <<pc, verb, issued, result>>
budget == <<losses, unsols, resets>>
vars   == <<ring, answer, soft, gone, calls, events, budget>>

Slots   == 0..(Entries - 1)
Ids     == 0..MaxVerbs
NoVerb  == [addr |-> CHOOSE a \in Addrs : TRUE, id |-> 0, read |-> FALSE]
Verbs   == [addr : Addrs, id : Ids, read : BOOLEAN]
Replies == [addr : Addrs, val : Ids \cup 1..MaxUnsol, unsol : BOOLEAN]
NoReply == [addr |-> NoVerb.addr, val |-> 0, unsol |-> FALSE]
None    == [id |-> 0, err |-> FALSE, read |-> FALSE, val |-> 0]
Next1(i) == (i + 1) % Entries

TypeOK ==
  /\ corb \in [Slots -> Verbs] /\ CORBWP \in Slots /\ CORBRP \in Slots
  /\ flight \in Seq(Verbs)
  /\ rirb \in [Slots -> Replies] /\ RIRBWP \in Slots /\ rp \in Slots
  /\ cmds \in [Addrs -> 0..MaxVerbs] /\ res \in [Addrs -> Ids]
  /\ gone \in BOOLEAN /\ link \in Links
  /\ pc \in [Threads -> {"idle", "send", "wait", "drain"}] /\ verb \in [Threads -> Verbs]
  /\ issued \in Ids
  /\ result \in [Threads -> [id : Ids, err : BOOLEAN, read : BOOLEAN, val : Ids]]
  /\ events \in Seq(1..MaxUnsol) /\ unsols \in 0..MaxUnsol

Init ==
  /\ link \in Links
  /\ corb = [i \in Slots |-> NoVerb] /\ CORBWP = 0 /\ CORBRP = 0
  /\ flight = <<>>
  /\ rirb = [i \in Slots |-> NoReply] /\ RIRBWP = 0 /\ rp = 0
  /\ cmds = [a \in Addrs |-> 0] /\ res = [a \in Addrs |-> 0]
  /\ gone = FALSE
  /\ pc = [t \in Threads |-> "idle"] /\ verb = [t \in Threads |-> NoVerb]
  /\ issued = 0 /\ result = [t \in Threads |-> None]
  /\ events = <<>>
  /\ losses = 0 /\ unsols = 0 /\ resets = 0

-----------------------------------------------------------------------------
(* A call of snd_hdac_bus_exec_verb.                                       *)

\* cmd_mutex is taken, and held until the call returns
Begin(t) ==
  /\ \A u \in Threads : pc[u] = "idle"
  /\ issued < link.verbs
  /\ issued' = issued + 1
  /\ pc' = [pc EXCEPT ![t] = "send"]
  /\ \E a \in link.codecs, r \in BOOLEAN :
       verb' = [verb EXCEPT ![t] = [addr |-> a, id |-> issued + 1, read |-> r]]
  /\ UNCHANGED <<ring, answer, soft, gone, result, events, budget>>

Return(t, failed) ==
  /\ pc' = [pc EXCEPT ![t] = "idle"]
  /\ result' = [result EXCEPT ![t] =
                  [id |-> verb[t].id, err |-> failed, read |-> verb[t].read,
                   val |-> IF verb[t].read /\ ~failed THEN res[verb[t].addr] ELSE 0]]
  /\ UNCHANGED <<verb, issued>>

\* snd_hdac_bus_send_cmd_corb with the controller in D3
SendDead(t) ==
  /\ pc[t] = "send" /\ gone
  /\ Return(t, TRUE)
  /\ UNCHANGED <<ring, answer, soft, gone, events, budget>>

\* ... with the ring full: wait for the pending verbs of this codec first
SendFull(t) ==
  /\ pc[t] = "send" /\ ~gone /\ Next1(CORBWP) = CORBRP
  /\ pc' = [pc EXCEPT ![t] = "drain"]
  /\ UNCHANGED <<ring, answer, soft, gone, verb, issued, result, events, budget>>

\* Mutant of Send: the write pointer does not wrap.
Send_NoWrap(t) ==
  /\ pc[t] = "send" /\ ~gone /\ Next1(CORBWP) # CORBRP
  /\ CORBWP' = CORBWP + 1
  /\ corb' = [corb EXCEPT ![Next1(CORBWP)] = verb[t]]
  /\ cmds' = [cmds EXCEPT ![verb[t].addr] = @ + 1]
  /\ IF verb[t].read
     THEN pc' = [pc EXCEPT ![t] = "wait"] /\ UNCHANGED <<verb, issued, result>>
     ELSE Return(t, FALSE)
  /\ UNCHANGED <<link, CORBRP, answer, rp, res, gone, events, budget>>

Send(t) ==
  /\ pc[t] = "send" /\ ~gone /\ Next1(CORBWP) # CORBRP
  /\ corb' = [corb EXCEPT ![Next1(CORBWP)] = verb[t]]
  /\ CORBWP' = Next1(CORBWP)
  /\ cmds' = [cmds EXCEPT ![verb[t].addr] = @ + 1]
  /\ IF verb[t].read
     THEN pc' = [pc EXCEPT ![t] = "wait"] /\ UNCHANGED <<verb, issued, result>>
     ELSE Return(t, FALSE)
  /\ UNCHANGED <<link, CORBRP, answer, rp, res, gone, events, budget>>

\* snd_hdac_bus_get_response_rirb finds every verb of the codec answered
Answered(t) ==
  /\ pc[t] \in {"wait", "drain"} /\ cmds[verb[t].addr] = 0
  /\ IF pc[t] = "wait"
     THEN Return(t, FALSE)
     ELSE pc' = [pc EXCEPT ![t] = "send"] /\ UNCHANGED <<verb, issued, result>>
  /\ UNCHANGED <<ring, answer, soft, gone, events, budget>>

\* Mutant of TimeOut: the verbs given up are no longer expected.
TimeOut_Forgives(t) ==
  /\ pc[t] \in {"wait", "drain"}
  /\ Return(t, TRUE)
  /\ cmds' = [cmds EXCEPT ![verb[t].addr] = 0]
  /\ UNCHANGED <<ring, answer, rp, res, gone, events, budget>>

\* Mutant of TimeOut: a ring that stays full is tried again for ever.
TimeOut_Retries(t) ==
  /\ pc[t] \in {"wait", "drain"}
  /\ IF pc[t] = "wait"
     THEN Return(t, TRUE)
     ELSE pc' = [pc EXCEPT ![t] = "send"] /\ UNCHANGED <<verb, issued, result>>
  /\ UNCHANGED <<ring, answer, soft, gone, events, budget>>

\* One second has passed.  The answer may have come since the last look.
TimeOut(t) ==
  /\ pc[t] \in {"wait", "drain"}
  /\ Return(t, TRUE)
  /\ UNCHANGED <<ring, answer, soft, gone, events, budget>>

Exec(t) ==
  SendDead(t) \/ SendFull(t) \/ Send(t) \/ Answered(t) \/ TimeOut(t)

-----------------------------------------------------------------------------
(* snd_hdac_bus_update_rirb, from the interrupt or from a polling waiter.  *)

\* How many entries the hardware has written since the last look, and the i-th
UnreadLen   == (RIRBWP + Entries - rp) % Entries

\* Mutant of UnreadAt: the entries are taken from the newest back.
UnreadAt_Back(i) == rirb[(RIRBWP + Entries + 1 - i) % Entries]

UnreadAt(i) == rirb[(rp + i) % Entries]

\* Mutant of RepliesOf: the codec address in the entry is not looked at.
RepliesOf_AnyCodec(a) == {i \in 1..UnreadLen : ~UnreadAt(i).unsol}

RepliesOf(a) == {i \in 1..UnreadLen : ~UnreadAt(i).unsol /\ UnreadAt(i).addr = a}
Unsolicited  == {i \in 1..UnreadLen : UnreadAt(i).unsol}

\* Those the codec still has verbs for; the rest are "spurious" and dropped
Accepted(a) == {i \in RepliesOf(a) : Cardinality({j \in RepliesOf(a) : j < i}) < cmds[a]}

\* The k-th smallest and the largest of a set of numbers
Nth(S, k) == CHOOSE i \in S : Cardinality({j \in S : j <= i}) = k
Last(S)   == CHOOSE i \in S : \A j \in S : j <= i

UpdateRirb ==
  /\ ~gone /\ RIRBWP # rp
  /\ link.polling => \E t \in Threads : pc[t] \in {"wait", "drain"}
  /\ res' = [a \in Addrs |->
               IF Accepted(a) = {} THEN res[a] ELSE UnreadAt(Last(Accepted(a))).val]
  /\ cmds' = [a \in Addrs |-> cmds[a] - Cardinality(Accepted(a))]
  /\ events' = events \o
       [k \in 1..Cardinality(Unsolicited) |-> UnreadAt(Nth(Unsolicited, k)).val]
  /\ rp' = RIRBWP
  /\ UNCHANGED <<ring, answer, gone, calls, budget>>

-----------------------------------------------------------------------------
(* The controller's DMA and the codecs (external).                         *)

Fetch ==
  /\ ~gone /\ CORBRP # CORBWP
  /\ CORBRP' = Next1(CORBRP)
  /\ flight' = Append(flight, corb[Next1(CORBRP)])
  /\ UNCHANGED <<link, corb, CORBWP, rirb, RIRBWP, soft, gone, calls, events, budget>>

WriteRirb(entry) ==
  /\ rirb' = [rirb EXCEPT ![Next1(RIRBWP)] = entry]
  /\ RIRBWP' = Next1(RIRBWP)

Answer ==
  /\ ~gone /\ flight # <<>>
  /\ WriteRirb([addr |-> Head(flight).addr, val |-> Head(flight).id, unsol |-> FALSE])
  /\ flight' = Tail(flight)
  /\ UNCHANGED <<ring, soft, gone, calls, events, budget>>

\* The codec never answers this verb
Lose ==
  /\ losses < MaxLost /\ losses' = losses + 1
  /\ flight # <<>>
  /\ flight' = Tail(flight)
  /\ UNCHANGED <<ring, rirb, RIRBWP, soft, gone, calls, events, unsols, resets>>

Unsolicit ==
  /\ ~gone /\ unsols < link.unsols /\ unsols' = unsols + 1
  /\ \E a \in link.codecs : WriteRirb([addr |-> a, val |-> unsols + 1, unsol |-> TRUE])
  /\ UNCHANGED <<ring, flight, soft, gone, calls, events, losses, resets>>

PowerDown ==
  /\ ~gone /\ resets < MaxResets /\ resets' = resets + 1
  /\ gone' = TRUE
  /\ UNCHANGED <<ring, answer, soft, calls, events, losses, unsols>>

\* Mutant of InitCmdIo: the driver's read pointer keeps its old value.
InitCmdIo_KeepsRp ==
  /\ gone /\ \A t \in Threads : pc[t] = "idle"
  /\ gone' = FALSE
  /\ CORBWP' = 0 /\ CORBRP' = 0 /\ RIRBWP' = 0 /\ flight' = <<>>
  /\ cmds' = [a \in Addrs |-> 0]
  /\ UNCHANGED <<link, corb, rirb, rp, res, calls, events, budget>>

\* snd_hdac_bus_init_chip: the link is reset, then snd_hdac_bus_init_cmd_io.
\* It runs in the controller's resume, when no codec is powered yet.
InitCmdIo ==
  /\ gone /\ \A t \in Threads : pc[t] = "idle"
  /\ gone' = FALSE
  /\ CORBWP' = 0 /\ CORBRP' = 0 /\ RIRBWP' = 0 /\ flight' = <<>>
  /\ rp' = 0 /\ cmds' = [a \in Addrs |-> 0]
  /\ UNCHANGED <<link, corb, rirb, res, calls, events, budget>>

Hardware == Fetch \/ Answer \/ Lose \/ Unsolicit \/ PowerDown

Next ==
  \/ \E t \in Threads : Begin(t) \/ Exec(t)
  \/ UpdateRirb
  \/ Hardware
  \/ InitCmdIo

\* A call that has begun goes on; the one-second limit expires.  Nothing is
\* assumed of the hardware: it may stop fetching or answering.
Fairness == \A t \in Threads : WF_vars(Exec(t)) /\ WF_vars(TimeOut(t))

Spec == Init /\ [][Next]_vars /\ Fairness

-----------------------------------------------------------------------------
(* Properties.                                                             *)

\* A read that succeeds returns the response to that very verb, not a late
\* answer to a verb that timed out, an answer to a posted write, another
\* thread's, or an unsolicited response: what rirb.cmds and cmd_mutex are for.
ReplyMatches ==
  \A t \in Threads :
    result[t].read /\ ~result[t].err => result[t].val = result[t].id

\* rirb.cmds never promises less than what is still to come: every response
\* under way, fetched or unread finds its count, so none is "spurious" and the
\* count cannot reach zero early, through late answers, a full ring and resets.
PostedLen     == (CORBWP + Entries - CORBRP) % Entries
PostedAt(i)   == corb[(CORBRP + i) % Entries]
PostedTo(a)   == {i \in 1..PostedLen : PostedAt(i).addr = a}
FetchedFor(a) == {i \in DOMAIN flight : flight[i].addr = a}
StillToCome(a) ==
  Cardinality(PostedTo(a)) + Cardinality(FetchedFor(a)) + Cardinality(RepliesOf(a))
NoneSpurious == ~gone => \A a \in Addrs : StillToCome(a) <= cmds[a]

\* An unsolicited response reaches the event queue at most once and in order,
\* through wraps and overruns of the ring and through resets.
EventsInOrder == \A i, j \in DOMAIN events : i < j => events[i] < events[j]

Abstract == INSTANCE VerbService WITH
  busy <- {t \in Threads : pc[t] # "idle"}

\* The channel implements VerbService: calls exclude each other, each ends,
\* even if the hardware stops for good, and a response is the verb's own.
Implements == Abstract!Spec

\* Every call ends ("Returns 0 if successful, or a negative error code",
\* comment on snd_hdac_bus_exec_verb).
VerbReturns == \A t \in Threads : pc[t] # "idle" ~> pc[t] = "idle"
=============================================================================
