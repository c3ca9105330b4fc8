----------------------------- MODULE ScpChannel -----------------------------
(***************************************************************************)
(* SCP requests to the DSP: dspio_send_scp_message and dspio_scp, which    *)
(* send a GET and poll the DSP's response queue every 2 ms, and            *)
(* ca0132_process_dsp_response, the handler of the DSP's unsolicited       *)
(* response, which reads the same queue and then clears it.                *)
(*                                                                         *)
(* Each word is read by three verbs (dspio_read: post the read, read the   *)
(* status, read the data).  Verbs exclude each other on the bus, sequences *)
(* of verbs do not: a step of this module is one verb with what the context*)
(* does in memory up to its next verb or sleep.  The queue as the driver   *)
(* sees it: posting a read takes the oldest word into the data register,   *)
(* and the status tells whether the last post found one.                   *)
(***************************************************************************)
EXTENDS Integers, Sequences

CONSTANTS
  Reqs,      \* kinds of request: what the 24 low bits of a header tell apart
  Words,     \* data words in a reply (at most 4, the size of scp_resp_data)
  MaxGets,   \* bound: GETs sent, to a DSP that is polled
  MaxShared, \* bound: GETs sent, to a DSP that also raises an unsolicited response
  MaxLate    \* bound: requests taken or answered too late, after a second

ASSUME ScpAssumption ==
  Reqs # {} /\ Words \in 1..4 /\ MaxGets \in Nat /\ MaxShared \in Nat /\ MaxLate \in Nat

VARIABLES
  notifies,  \* does the DSP raise an unsolicited response for a reply?
  owed,      \* GETs the DSP has received and not answered yet
  queue,     \* the DSP's response queue
  data, status,              \* the data register and the status of the last post
  events,                    \* unsolicited responses not handled yet
  wait_scp, wait_scp_header, \* the reply waited for
  scp_resp_header, scp_resp_data, scp_resp_count,
  pc,        \* where the requester and the handler stand
  size, count,               \* the locals of dspio_read_multiple, per reader
  get,       \* the GET in progress
  gets, late, outcome        \* history: GETs sent, late replies, how the last GET ended

dsp    == <<notifies, owed, queue, data, status>>
shared == <<wait_scp, wait_scp_header, scp_resp_header, scp_resp_data, scp_resp_count>>
locals == <<size, count>>
calls  == <<get, gets, late, outcome>>
scpVars   == <<dsp, events, shared, pc, locals, calls>>

Readers == {"requester", "handler"}
\* What a context is doing, and the verb it executes next: reading a header, a
\* data word or a word to be dropped, or between two turns of the poll loop.
Reading == {"head", "word", "clear"}
Places == ({"idle", "poll", "sleep"} \X {"none"}) \cup (Reading \X {"post", "status", "data"})
Idle == <<"idle", "none">>

Limit   == IF notifies THEN MaxShared ELSE MaxGets
Gets    == 0..Limit
NoGet   == [id |-> 0, req |-> CHOOSE r \in Reqs : TRUE]
GetSet  == [id : Gets, req : Reqs]
\* The word at position 0 of a reply is its header.
WordSet == [get : GetSet, pos : 0..Words]
NoWord  == [get |-> NoGet, pos |-> 1]
Reply(g) == [i \in 1..(Words + 1) |-> [get |-> g, pos |-> i - 1]]
NoOutcome == [get |-> NoGet, kind |-> "none", words |-> <<>>, late |-> FALSE]

ScpTypeOK ==
  /\ notifies \in BOOLEAN /\ owed \in Seq(GetSet) /\ queue \in Seq(WordSet)
  /\ data \in WordSet /\ status \in {"ok", "empty"} /\ events \in Nat
  /\ wait_scp \in BOOLEAN /\ wait_scp_header \in Reqs
  /\ scp_resp_header \in WordSet
  /\ scp_resp_data \in [1..Words -> WordSet] /\ scp_resp_count \in 0..Words
  /\ pc \in [Readers -> Places]
  /\ size \in [Readers -> 0..Words] /\ count \in [Readers -> 0..Words]
  /\ get \in GetSet /\ gets \in Gets /\ late \in 0..MaxLate
  /\ outcome.kind \in {"none", "ok", "EINVAL", "EIO"}

ScpInit ==
  /\ notifies \in (IF MaxGets > 0 THEN {FALSE} ELSE {}) \cup (IF MaxShared > 0 THEN {TRUE} ELSE {})
  /\ owed = <<>> /\ queue = <<>> /\ data = NoWord /\ status = "empty" /\ events = 0
  /\ wait_scp = FALSE /\ wait_scp_header = NoGet.req
  /\ scp_resp_header = NoWord
  /\ scp_resp_data = [i \in 1..Words |-> NoWord] /\ scp_resp_count = 0
  /\ pc = [r \in Readers |-> Idle]
  /\ size = [r \in Readers |-> 0] /\ count = [r \in Readers |-> 0]
  /\ get = NoGet /\ gets = 0 /\ late = 0 /\ outcome = NoOutcome

Goto(r, at) == pc' = [pc EXCEPT ![r] = at]

-----------------------------------------------------------------------------
(* dspio_read and what the readers build from it.                          *)

Post(r) ==
  /\ pc[r] \in Reading \X {"post"}
  /\ IF queue = <<>>
     THEN status' = "empty" /\ UNCHANGED <<queue, data>>
     ELSE status' = "ok" /\ data' = Head(queue) /\ queue' = Tail(queue)
  /\ Goto(r, <<pc[r][1], "status">>)
  /\ UNCHANGED <<notifies, owed, events, shared, locals, calls>>

\* Where a reader goes when dspio_get_response_data has failed ...
Missed(r) == Goto(r, IF r = "handler" THEN <<"clear", "post">> ELSE <<"sleep", "none">>)
\* ... and when it has returned zero: wait_scp is reset by the caller.
Matched(r) ==
  /\ wait_scp' = FALSE
  /\ Goto(r, IF r = "handler" THEN <<"clear", "post">> ELSE <<"poll", "none">>)

StatusOk(r) ==
  /\ pc[r] \in Reading \X {"status"} /\ status = "ok"
  /\ Goto(r, <<pc[r][1], "data">>)
  /\ UNCHANGED <<dsp, events, shared, locals, calls>>

\* Mutant of StatusEmpty: a reply cut short keeps the count its header promised.
StatusEmpty_KeepsCount(r) ==
  /\ pc[r] \in Reading \X {"status"} /\ status = "empty"
  /\ CASE pc[r][1] = "head"  -> Missed(r) /\ UNCHANGED shared
       [] pc[r][1] = "word"  ->
            /\ Matched(r)
            /\ UNCHANGED <<scp_resp_count, wait_scp_header, scp_resp_header, scp_resp_data>>
       [] pc[r][1] = "clear" -> Goto(r, <<"idle", "none">>) /\ UNCHANGED shared
  /\ UNCHANGED <<dsp, events, locals, calls>>

\* The queue was empty: the header read fails, a reply is cut short (its count
\* is what was read), the clearing loop ends.
StatusEmpty(r) ==
  /\ pc[r] \in Reading \X {"status"} /\ status = "empty"
  /\ CASE pc[r][1] = "head"  -> Missed(r) /\ UNCHANGED shared
       [] pc[r][1] = "word"  ->
            /\ Matched(r) /\ scp_resp_count' = count[r]
            /\ UNCHANGED <<wait_scp_header, scp_resp_header, scp_resp_data>>
       [] pc[r][1] = "clear" -> Goto(r, <<"idle", "none">>) /\ UNCHANGED shared
  /\ UNCHANGED <<dsp, events, locals, calls>>

\* Mutant of IsReply: the length bits of the header are compared as well.
IsReply_AllBits(word) == word.pos = 0 /\ word.get.req = wait_scp_header /\ Words = 0

\* The low 24 bits of a header name the request and its two ends
IsReply(word) == word.pos = 0 /\ word.get.req = wait_scp_header

\* dspio_get_response_data has the first word: the header waited for?
HeadData(r) ==
  /\ pc[r] = <<"head", "data">>
  /\ IF IsReply(data)
     THEN /\ scp_resp_header' = data
          /\ scp_resp_count' = Words
          /\ size' = [size EXCEPT ![r] = Words]
          /\ count' = [count EXCEPT ![r] = 0]
          /\ Goto(r, <<"word", "post">>)
          /\ UNCHANGED <<wait_scp, wait_scp_header, scp_resp_data>>
     ELSE Missed(r) /\ UNCHANGED <<shared, locals>>
  /\ UNCHANGED <<dsp, events, calls>>

\* Mutant of WordData: one word too many is read.
WordData_OneMore(r) ==
  /\ pc[r] = <<"word", "data">>
  /\ scp_resp_data' = [scp_resp_data EXCEPT ![count[r] + 1] = data]
  /\ count' = [count EXCEPT ![r] = @ + 1]
  /\ IF count[r] + 1 <= size[r]
     THEN Goto(r, <<"word", "post">>) /\ UNCHANGED <<wait_scp, scp_resp_count>>
     ELSE Matched(r) /\ scp_resp_count' = size[r]
  /\ UNCHANGED <<dsp, events, wait_scp_header, scp_resp_header, size, calls>>

\* dspio_read_multiple stores a word and goes on, or is done
WordData(r) ==
  /\ pc[r] = <<"word", "data">>
  /\ scp_resp_data' = [scp_resp_data EXCEPT ![count[r] + 1] = data]
  /\ count' = [count EXCEPT ![r] = @ + 1]
  /\ IF count[r] + 1 < size[r]
     THEN Goto(r, <<"word", "post">>) /\ UNCHANGED <<wait_scp, scp_resp_count>>
     ELSE Matched(r) /\ scp_resp_count' = count[r] + 1
  /\ UNCHANGED <<dsp, events, wait_scp_header, scp_resp_header, size, calls>>

ClearData(r) ==
  /\ pc[r] = <<"clear", "data">>
  /\ Goto(r, <<"clear", "post">>)
  /\ UNCHANGED <<dsp, events, shared, locals, calls>>

ReadQueue(r) ==
  Post(r) \/ StatusOk(r) \/ StatusEmpty(r) \/ HeadData(r) \/ WordData(r) \/ ClearData(r)

-----------------------------------------------------------------------------
(* The requester: dspio_scp with SCP_GET.                                  *)

SendGet ==
  /\ pc["requester"][1] = "idle" /\ gets < Limit
  /\ gets' = gets + 1
  /\ \E r \in Reqs : get' = [id |-> gets + 1, req |-> r]
  /\ wait_scp' = TRUE /\ wait_scp_header' = get'.req
  /\ owed' = Append(owed, get')
  /\ Goto("requester", <<"poll", "none">>)
  /\ UNCHANGED <<notifies, queue, data, status, events, scp_resp_header, scp_resp_data,
                 scp_resp_count, locals, late, outcome>>

\* The DSP stayed busy for the second dspio_send allows, and took nothing
SendFails ==
  /\ pc["requester"][1] = "idle" /\ gets < Limit
  /\ gets' = gets + 1
  /\ late < MaxLate /\ late' = late + 1
  /\ \E r \in Reqs : get' = [id |-> gets + 1, req |-> r]
  /\ wait_scp' = FALSE /\ wait_scp_header' = get'.req
  /\ outcome' = [NoOutcome EXCEPT !.get = get', !.kind = "EIO", !.late = TRUE]
  /\ UNCHANGED <<dsp, events, scp_resp_header, scp_resp_data, scp_resp_count, pc, locals>>

\* The head of the loop: read the queue, unless the handler has the reply
Poll ==
  /\ pc["requester"][1] = "poll" /\ wait_scp
  /\ Goto("requester", <<"head", "post">>)
  /\ UNCHANGED <<dsp, events, shared, locals, calls>>

End(kind, isLate) ==
  /\ outcome' = [get |-> get, kind |-> kind, late |-> isLate,
                 words |-> IF kind = "ok" THEN [i \in 1..Words |-> scp_resp_data[i]] ELSE <<>>]
  /\ Goto("requester", <<"idle", "none">>)

\* Mutant of Finish: the requester does not look at wait_scp.
Finish_Early ==
  /\ pc["requester"][1] \in {"poll", "sleep"}
  /\ End(IF scp_resp_count = Words THEN "ok" ELSE "EINVAL", FALSE)
  /\ UNCHANGED <<dsp, events, shared, locals, get, gets, late>>

\* The reply is there: the length its header states must be what was read
Finish ==
  /\ pc["requester"][1] \in {"poll", "sleep"} /\ ~wait_scp
  /\ End(IF scp_resp_count = Words THEN "ok" ELSE "EINVAL", FALSE)
  /\ UNCHANGED <<dsp, events, shared, locals, get, gets, late>>

Sleep ==
  /\ pc["requester"][1] = "sleep" /\ wait_scp
  /\ Goto("requester", <<"poll", "none">>)
  /\ UNCHANGED <<dsp, events, shared, locals, calls>>

\* Mutant of TimeOut: a DSP that has not answered is waited for.
TimeOut_Waits ==
  /\ pc["requester"][1] = "sleep" /\ wait_scp
  /\ queue = <<>> /\ events = 0 /\ pc["handler"][1] = "idle"
  /\ owed = <<>>
  /\ End("EIO", FALSE)
  /\ wait_scp' = FALSE
  /\ UNCHANGED <<dsp, events, wait_scp_header, scp_resp_header, scp_resp_data,
                 scp_resp_count, locals, get, gets, late>>

\* One second is over: nothing came in it, or what came was lost.  It is long
\* enough for a reply that is in the queue to be read.
TimeOut ==
  /\ pc["requester"][1] = "sleep" /\ wait_scp
  /\ queue = <<>> /\ events = 0 /\ pc["handler"][1] = "idle"
  /\ \/ owed = <<>> /\ UNCHANGED late
     \/ owed # <<>> /\ late < MaxLate /\ late' = late + 1
  /\ End("EIO", owed # <<>>)
  /\ wait_scp' = FALSE
  /\ UNCHANGED <<dsp, events, wait_scp_header, scp_resp_header, scp_resp_data,
                 scp_resp_count, locals, get, gets>>

-----------------------------------------------------------------------------
(* The handler of the unsolicited response: ca0132_process_dsp_response.   *)

Handle ==
  /\ pc["handler"][1] = "idle" /\ events > 0
  /\ events' = events - 1
  /\ Goto("handler", IF wait_scp THEN <<"head", "post">> ELSE <<"clear", "post">>)
  /\ UNCHANGED <<dsp, shared, locals, calls>>

\* The DSP (external) queues its reply to the oldest GET
Answer ==
  /\ owed # <<>>
  /\ owed' = Tail(owed)
  /\ queue' = queue \o Reply(Head(owed))
  /\ events' = events + (IF notifies THEN 1 ELSE 0)
  /\ UNCHANGED <<notifies, data, status, shared, pc, locals, calls>>

ScpNext ==
  \/ SendGet \/ SendFails \/ Poll \/ Finish \/ Sleep \/ TimeOut
  \/ Handle
  \/ \E r \in Readers : ReadQueue(r)
  \/ Answer

Requester == Poll \/ Finish \/ Sleep \/ ReadQueue("requester")

\* Both contexts keep running, and the one-second limit expires.
Fairness ==
  /\ WF_scpVars(Requester) /\ SF_scpVars(TimeOut)
  /\ WF_scpVars(Handle \/ ReadQueue("handler"))

ScpSpec == ScpInit /\ [][ScpNext]_scpVars /\ Fairness

-----------------------------------------------------------------------------
(* Properties.                                                             *)

\* The words handed to the caller of a successful GET are the words of one
\* reply, in their places, and the reply answers that kind of request; as long as
\* no reply was late, it is the reply to that very GET.  With
\* polling alone it holds whatever came late; when the handler reads the queue
\* too it still holds for a single GET: a reply the two readers have torn apart
\* is noticed by its length (dspio_scp) or never completes.
WholeReply ==
  outcome.kind = "ok" =>
    \A i \in 1..Words :
      /\ outcome.words[i].pos = i
      /\ outcome.words[i].get = outcome.words[1].get
      /\ outcome.words[i].get.req = outcome.get.req
      /\ late = 0 => outcome.words[i].get = outcome.get

\* A GET fails only because the DSP did not answer in time: the added polling
\* is "behaviour-neutral" (README, "Other CA0132 cards").
AnsweredInTime == outcome.kind \in {"EIO", "EINVAL"} => outcome.late

\* It holds of a DSP that is polled and announces nothing, as the AE-9's loader: a
\* reply to an earlier GET, or a wrong comparison of headers, never makes one fail.
AnsweredWhenPolled == ~notifies => AnsweredInTime

\* Every GET ends: in its reply, in an error, or at the one-second limit.
GetEnds == pc["requester"] # Idle ~> pc["requester"][1] = "idle"
=============================================================================
