------------------------------- MODULE IdealOT -------------------------------
(***************************************************************************)
(* What the callers of two OTManagers may rely on: a trusted party pairs   *)
(* their calls by position, hands a receiver the message it chose of the   *)
(* pair its sender gave, and settles the futures of a side in the order of *)
(* its calls, each once.  There are no threads, queues, pads or sockets.   *)
(*                                                                         *)
(* OTManager implements this specification: see OTImplementsIdeal.         *)
(***************************************************************************)
EXTENDS OTCalls

VARIABLES
  script,   \* script[s]: the calls that side s will make
  choices,  \* choices[s]: per call made, the choice bits given to a receiver
  fut,      \* fut[s]: per call made, the state of its future
  killed    \* has a process been killed?

ivars == <<script, choices, fut, killed>>

Made(s, k) == k <= Len(fut[s])
Held(s, k) == Made(s, k) /\ fut[s][k].is = "value"

\* The two sides disagree on call k, or one of them gets it wrong.
Faulty(k) ==
  \E s \in Sides :
    \/ k \notin DOMAIN script[s]
    \/ Rejected(script[s][k])
    \/ k \in DOMAIN script[Other(s)] /\ script[s][k].size # script[Other(s)][k].size

\* What call k of s may deliver.  Nothing is delivered before both sides have
\* made the call, unless there is nothing to transfer.
Outcomes(s, k) ==
  LET c == script[s][k]
      o == Other(s)
  IN  CASE Rejected(c) -> {}
        [] Trivial(c) -> {<<>>}
        [] ~Mute(c) /\ ~Made(o, k) -> {}
        [] OTHER ->
           CASE c.api = "ot_send" -> {c.msgs}
             [] c.api = "ot_receive" -> {Pick(script[o][k].msgs, choices[s][k])}
             [] c.api = "send_batch" ->
                {v \in [1 .. c.size -> XWord \X XWord] :
                   Held(o, k) => fut[o][k].v = Pick(v, choices[o][k])}
             [] c.api = "recv_batch" ->
                {v \in [1 .. c.size -> XWord] :
                   Held(o, k) => v = Pick(fut[o][k].v, choices[s][k])}

Init ==
  /\ choices = [s \in Sides |-> <<>>]
  /\ fut = [s \in Sides |-> <<>>]
  /\ killed = FALSE

Make(s) ==
  /\ Len(fut[s]) < Len(script[s])
  /\ fut' = [fut EXCEPT ![s] = Append(@, Pending)]
  /\ \E ch \in ChoicesOf(script[s][Len(fut[s]) + 1]) :
       choices' = [choices EXCEPT ![s] = Append(@, ch)]
  /\ UNCHANGED <<script, killed>>

\* The oldest call that has no result yet.
Oldest(s, k) ==
  /\ Made(s, k) /\ fut[s][k] = Pending
  /\ \A j \in 1 .. k - 1 : fut[s][j] # Pending

Deliver(s, k) ==
  /\ Oldest(s, k)
  /\ \E v \in Outcomes(s, k) : fut' = [fut EXCEPT ![s][k] = Value(v)]
  /\ UNCHANGED <<script, choices, killed>>

\* A call fails only if a process was killed, or this call or an earlier one is
\* faulty.
Fail(s, k) ==
  /\ Oldest(s, k)
  /\ killed \/ \E j \in 1 .. k : Faulty(j)
  /\ fut' = [fut EXCEPT ![s][k] = Thrown]
  /\ UNCHANGED <<script, choices, killed>>

Die ==
  /\ killed' = TRUE
  /\ UNCHANGED <<script, choices, fut>>

Next ==
  \/ Die
  \/ \E s \in Sides :
       Make(s) \/ \E k \in 1 .. Len(fut[s]) : Deliver(s, k) \/ Fail(s, k)

Spec == Init /\ [][Next]_ivars
=============================================================================
