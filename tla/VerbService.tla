---------------------------- MODULE VerbService ----------------------------
(***************************************************************************)
(* What snd_hdac_bus_exec_verb promises to its callers: one verb runs at a *)
(* time, every call ends, and a call ends either with an error or, when a  *)
(* response was asked for, with the codec's response to that very verb.    *)
(* The codec's response to the verb numbered id is the number id.          *)
(***************************************************************************)
EXTENDS Integers

CONSTANTS Threads, MaxVerbs

VARIABLES
  busy,    \* the threads inside a call
  issued,  \* how many verbs were issued so far
  result   \* what the last call of each thread came to

vars == <<busy, issued, result>>

None == [id |-> 0, err |-> FALSE, read |-> FALSE, val |-> 0]

Init ==
  /\ busy = {}
  /\ issued = 0
  /\ result = [t \in Threads |-> None]

Call(t) ==
  /\ busy = {} /\ issued < MaxVerbs
  /\ busy' = {t}
  /\ issued' = issued + 1
  /\ UNCHANGED result

Return(t) ==
  /\ t \in busy
  /\ busy' = busy \ {t}
  /\ \E read \in BOOLEAN, err \in BOOLEAN :
       result' = [result EXCEPT ![t] =
                    [id |-> issued, err |-> err, read |-> read,
                     val |-> IF read /\ ~err THEN issued ELSE 0]]
  /\ UNCHANGED issued

Next == \E t \in Threads : Call(t) \/ Return(t)

\* What it promises of every step, and that every call ends
Safety   == Init /\ [][Next]_vars
Fairness == \A t \in Threads : WF_vars(Return(t))

Spec == Safety /\ Fairness
=============================================================================
