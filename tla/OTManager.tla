------------------------------ MODULE OTManager ------------------------------
(***************************************************************************)
(* Two OTManagers (mpc/ot_manager.hpp) and the dedicated TCP connection    *)
(* between them.  In each process the owner, a coroutine on the Boost.Asio *)
(* loop, submits tasks and destroys the manager; the worker thread takes   *)
(* the tasks from a queue guarded by a mutex and a condition variable and  *)
(* runs each to its end on the socket.                                     *)
(*                                                                         *)
(* coproto is external.  What the code relies on: send() hands a message   *)
(* to the socket and returns, flush() waits until all were written, and    *)
(* reads and writes complete on the event loop that owns the socket        *)
(* (notes.txt, item 2), so they need that loop to be running.              *)
(***************************************************************************)
EXTENDS OTCalls, SimplestOT, Fifo

CONSTANTS
  Plans,      \* what the two owners may do: their calls, and do they co_await each?
  MaxKills

ASSUME PlansAssumption ==
  /\ \A p \in Plans :
       /\ p.await \in BOOLEAN
       /\ DOMAIN p.script = Sides
       /\ \A s \in Sides :
            /\ IsSeq(p.script[s])
            /\ \A k \in DOMAIN p.script[s] : IsCall(p.script[s][k])
  /\ MaxKills \in Nat

\* The two programs are written for each other.  They may differ in calls that
\* transfer nothing, and one may stop before the other, but where both still
\* have something to transfer their calls match up to the first such call.
ASSUME AgreeAssumption ==
  \A p \in Plans, s \in Sides :
    \A j \in DOMAIN p.script[s], k \in DOMAIN p.script[Other(s)] :
      j <= k /\ ~Mute(p.script[s][j]) /\ ~Mute(p.script[Other(s)][k])
        => \A i \in 1 .. j : Match(p.script[s][i], p.script[Other(s)][i])

\* The random oracle answers whatever the calls may ask it.
ASSUME OracleAssumption ==
  \A p \in Plans, s \in Sides, d \in SenderDraws :
    \A k \in DOMAIN p.script[s] :
      \A P \in 0 .. (Order - 1), i \in 1 .. p.script[s][k].size :
        <<P, i - 1, d.seed>> \in DOMAIN Oracle

VARIABLES
  plan,     \* the plan that the owners follow
  owner,    \* owner[s]: "run", "await", "unwind", "join", "flush", "gone", "killed"
  choices,  \* choices[s]: per call made, the choice bits given to a receiver
  fut,      \* fut[s]: per call made, whether its future is ready, and its value
  running,  \* running_
  tasks,    \* tasks_: the calls that wait in the queue
  worker,   \* worker[s]: "check", "asleep", "gone", or what its task does next
  cur,      \* cur[s]: the call whose task the worker runs
  loc,      \* loc[s]: the local variables of that task
  out,      \* out[s]: handed to the socket of s and not yet written
  net,      \* net[s]: written to s and not yet read
  open,     \* open[s]: the socket of s is not closed
  kills

ownerVars == <<plan, owner, choices, running>>
taskVars  == <<cur, loc>>
sockVars  == <<out, net, open>>
vars == <<plan, owner, choices, fut, running, tasks, worker, cur, loc, out, net, open, kills>>

\* The calls that the owner in process s makes, and does it co_await await_future
\* after every call?
Script == plan.script
AwaitEach == plan.await

Call(s) == Script[s][cur[s]]

\* The event loop of s runs unless the owner blocks in the destructor.
LoopFree(s) == owner[s] \in {"run", "await", "unwind"}

\* The future of the last call.
Last(s) == fut[s][Len(fut[s])]

\* Mutant of Woken: nobody is notified.
NotWoken(s) == worker[s]

\* notify_one
Woken(s) == IF worker[s] = "asleep" THEN "check" ELSE worker[s]

-----------------------------------------------------------------------------
(* The owner.                                                              *)

\* A call of the API, with enqueue.
Submit(s) ==
  /\ owner[s] = "run" /\ Len(fut[s]) < Len(Script[s])
  /\ LET k == Len(fut[s]) + 1
         c == Script[s][k]
     IN  /\ \E ch \in ChoicesOf(c) :
              choices' = [choices EXCEPT ![s] = Append(@, ch)]
         /\ fut' = [fut EXCEPT ![s] = Append(@, Pending)]
         /\ tasks' = [tasks EXCEPT ![s] = Append(@, k)]
  /\ worker' = [worker EXCEPT ![s] = Woken(s)]
  /\ owner' = [owner EXCEPT ![s] = IF AwaitEach THEN "await" ELSE "run"]
  /\ UNCHANGED <<plan, running, taskVars, sockVars, kills>>

\* await_future polls until the future is ready; get() rethrows.
AwaitFuture(s) ==
  /\ owner[s] = "await" /\ Last(s).is # "pending"
  /\ owner' = [owner EXCEPT ![s] = IF Last(s).is = "exception" THEN "unwind" ELSE "run"]
  /\ UNCHANGED <<plan, choices, fut, running, tasks, worker, taskVars, sockVars, kills>>

\* Mutant of Destroy: the flag is cleared without notify_one.
DestroySilently(s) ==
  /\ \/ owner[s] = "unwind"
     \/ owner[s] = "run" /\ Len(fut[s]) = Len(Script[s])
  /\ running' = [running EXCEPT ![s] = FALSE]
  /\ owner' = [owner EXCEPT ![s] = "join"]
  /\ UNCHANGED <<plan, choices, fut, tasks, worker, taskVars, sockVars, kills>>

\* ~OTManager: the locked part, ...
Destroy(s) ==
  /\ \/ owner[s] = "unwind"
     \/ owner[s] = "run" /\ Len(fut[s]) = Len(Script[s])
  /\ running' = [running EXCEPT ![s] = FALSE]
  /\ worker' = [worker EXCEPT ![s] = Woken(s)]
  /\ owner' = [owner EXCEPT ![s] = "join"]
  /\ UNCHANGED <<plan, choices, fut, tasks, taskVars, sockVars, kills>>

\* ... worker_.join(), ...
Join(s) ==
  /\ owner[s] = "join" /\ worker[s] = "gone"
  /\ owner' = [owner EXCEPT ![s] = "flush"]
  /\ UNCHANGED <<plan, choices, fut, running, tasks, worker, taskVars, sockVars, kills>>

\* The socket of s closes.  What s had written stays readable, unless unread
\* data makes the close a reset: then any suffix of it may be lost.
CloseSocket(s) ==
  /\ open' = [open EXCEPT ![s] = FALSE]
  /\ out' = [out EXCEPT ![s] = <<>>]
  /\ \E n \in IF net[s] = <<>> THEN {Len(net[Other(s)])} ELSE 0 .. Len(net[Other(s)]) :
       net' = [net EXCEPT ![s] = <<>>, ![Other(s)] = SubSeq(@, 1, n)]

\* ... the flush, whose errors are swallowed, and the members' destructors.
FlushAndClose(s) ==
  /\ owner[s] = "flush"
  /\ out[s] = <<>> \/ ~open[s]
  /\ owner' = [owner EXCEPT ![s] = "gone"]
  /\ CloseSocket(s)
  /\ UNCHANGED <<plan, choices, fut, running, tasks, worker, taskVars, kills>>

\* The process is killed.
Kill(s) ==
  /\ kills < MaxKills /\ owner[s] \notin {"gone", "killed"}
  /\ kills' = kills + 1
  /\ owner' = [owner EXCEPT ![s] = "killed"]
  /\ worker' = [worker EXCEPT ![s] = "gone"]
  /\ CloseSocket(s)
  /\ UNCHANGED <<plan, choices, fut, running, tasks, taskVars>>

-----------------------------------------------------------------------------
(* The worker: the loop of run().                                          *)

\* Mutant of TakeTask: the worker leaves with tasks in the queue.
TakeTaskUnlessStopped(s) ==
  /\ worker[s] = "check"
  /\ \/ /\ tasks[s] = <<>> \/ ~running[s]
        /\ worker' = [worker EXCEPT ![s] = IF running[s] THEN "asleep" ELSE "gone"]
        /\ UNCHANGED <<tasks, cur>>
     \/ /\ tasks[s] # <<>> /\ running[s]
        /\ worker' = [worker EXCEPT ![s] = "begin"]
        /\ cur' = [cur EXCEPT ![s] = Head(tasks[s])]
        /\ tasks' = [tasks EXCEPT ![s] = Tail(@)]
  /\ UNCHANGED <<ownerVars, fut, loc, sockVars, kills>>

\* The locked part: wait for the predicate, leave, or take a task.
TakeTask(s) ==
  /\ worker[s] = "check"
  /\ \/ /\ tasks[s] = <<>>
        /\ worker' = [worker EXCEPT ![s] = IF running[s] THEN "asleep" ELSE "gone"]
        /\ UNCHANGED <<tasks, cur>>
     \/ /\ tasks[s] # <<>>
        /\ worker' = [worker EXCEPT ![s] = "begin"]
        /\ cur' = [cur EXCEPT ![s] = Head(tasks[s])]
        /\ tasks' = [tasks EXCEPT ![s] = Tail(@)]
  /\ UNCHANGED <<ownerVars, fut, loc, sockVars, kills>>

\* A condition variable may wake up on its own.
SpuriousWakeup(s) ==
  /\ worker[s] = "asleep"
  /\ worker' = [worker EXCEPT ![s] = "check"]
  /\ UNCHANGED <<ownerVars, fut, tasks, taskVars, sockVars, kills>>

\* prom->set_value or set_exception: the task is over.
Settle(s, v) ==
  /\ fut' = [fut EXCEPT ![s][cur[s]] = v]
  /\ worker' = [worker EXCEPT ![s] = "check"]
  /\ loc' = [loc EXCEPT ![s] = <<>>]

Goto(s, ph) == worker' = [worker EXCEPT ![s] = ph]

Say(s, kind, n, v) == out' = [out EXCEPT ![s] = Append(@, [kind |-> kind, n |-> n, v |-> v])]

\* Mutant of BeginTrivial: a call with the wrong number of messages succeeds.
BeginTrivialLenient(s) ==
  /\ worker[s] = "begin"
  /\ Mute(Call(s))
  /\ Settle(s, Value(<<>>))
  /\ UNCHANGED <<ownerVars, tasks, cur, sockVars, kills>>

\* The checks with which ot_send and ot_receive begin.
BeginTrivial(s) ==
  /\ worker[s] = "begin"
  /\ \/ Rejected(Call(s)) /\ Settle(s, Thrown)
     \/ Trivial(Call(s)) /\ Settle(s, Value(<<>>))
  /\ UNCHANGED <<ownerVars, tasks, cur, sockVars, kills>>

\* SimplestOT::send sends A and the commitment to the seed.
BeginSender(s) ==
  /\ worker[s] = "begin" /\ open[s]
  /\ Call(s).api \in Senders /\ ~Mute(Call(s))
  /\ \E d \in SenderDraws :
       /\ loc' = [loc EXCEPT ![s] = d]
       /\ Say(s, "A", 0, [A |-> mulGenerator(d.a), comm |-> Commit(d.seed)])
  /\ Goto(s, "recv_B")
  /\ UNCHANGED <<ownerVars, fut, tasks, cur, net, open, kills>>

\* The receiver's choice: random in ot_receive, the caller's in recv_batch.
BeginReceiver(s) ==
  /\ worker[s] = "begin" /\ open[s]
  /\ Call(s).api \in Receivers /\ ~Mute(Call(s))
  /\ \E q \in IF Call(s).api = "ot_receive"
              THEN [1 .. Call(s).size -> BOOLEAN]
              ELSE {choices[s][cur[s]]} :
       loc' = [loc EXCEPT ![s] = [q |-> q]]
  /\ Goto(s, "recv_A")
  /\ UNCHANGED <<ownerVars, fut, tasks, cur, sockVars, kills>>

\* The message that the task of s waits for: its kind, and the number of OTs
\* where its length depends on it.
Expects(s) ==
  CASE worker[s] = "recv_A" -> <<"A", 0>>
    [] worker[s] = "recv_seed" -> <<"seed", 0>>
    [] worker[s] = "recv_B" -> <<"B", Call(s).size>>
    [] worker[s] = "recv_eq" -> <<"eq", Call(s).n>>
    [] worker[s] = "recv_masked" -> <<"masked", Call(s).n>>

Waits(s) == worker[s] \in {"recv_A", "recv_B", "recv_seed", "recv_eq", "recv_masked"}

\* A message is read into a buffer of its length, and a seed is compared with
\* the commitment.
Fits(s) ==
  /\ Expects(s) = <<Head(net[s]).kind, Head(net[s]).n>>
  /\ worker[s] = "recv_seed" => Commit(Head(net[s]).v) = loc[s].comm

\* The task of s, in phase ph, gets the message it waits for.
Receive(s, ph) ==
  /\ worker[s] = ph /\ LoopFree(s) /\ open[s]
  /\ net[s] # <<>> /\ Fits(s)
  /\ net' = [net EXCEPT ![s] = Tail(@)]

\* Mutant of RecvA: A is not kept.
RecvAForgotten(s) ==
  /\ Receive(s, "recv_A")
  /\ Say(s, "B", Call(s).size, [i \in 1 .. Call(s).size |-> 0])
  /\ Goto(s, "recv_seed")
  /\ UNCHANGED <<ownerVars, fut, tasks, taskVars, open, kills>>

\* SimplestOT::receive answers A with points that depend on the choices.
RecvA(s) ==
  /\ Receive(s, "recv_A")
  /\ LET m == Head(net[s]).v
         q == loc[s].q
     IN  \E b \in [DOMAIN q -> ReceiverDraws] :
           /\ loc' = [loc EXCEPT ![s] = [q |-> q, A |-> m.A, comm |-> m.comm, b |-> b]]
           /\ Say(s, "B", Call(s).size, [i \in DOMAIN q |-> ChosenB(m.A, b[i], q[i])])
  /\ Goto(s, "recv_seed")
  /\ UNCHANGED <<ownerVars, fut, tasks, cur, open, kills>>

\* SimplestOT::send opens the commitment and computes the pads.
RecvB(s) ==
  /\ Receive(s, "recv_B")
  /\ Say(s, "seed", 0, loc[s].seed)
  /\ LET B == Head(net[s]).v
         pads == [i \in DOMAIN B |-> SenderPads(loc[s].a, B[i], i - 1, loc[s].seed)]
     IN  \/ /\ Call(s).api = "ot_send"
            /\ loc' = [loc EXCEPT ![s] = pads]
            /\ Goto(s, "recv_eq")
            /\ UNCHANGED fut
         \/ /\ Call(s).api = "send_batch"
            /\ Settle(s, Value(pads))
  /\ UNCHANGED <<ownerVars, tasks, cur, open, kills>>

\* SimplestOT::receive computes its pads; ot_receive sends eq = (c == q).
RecvSeed(s) ==
  /\ Receive(s, "recv_seed")
  /\ LET l == loc[s]
         r_q == [i \in DOMAIN l.q |-> ReceiverPad(l.A, l.b[i], i - 1, Head(net[s]).v)]
     IN  \/ /\ Call(s).api = "ot_receive"
            /\ Say(s, "eq", Call(s).n,
                   [i \in 1 .. Call(s).n |-> choices[s][cur[s]][i] = l.q[i]])
            /\ loc' = [loc EXCEPT ![s] = [r_q |-> r_q]]
            /\ Goto(s, "flush")
            /\ UNCHANGED fut
         \/ /\ Call(s).api = "recv_batch"
            /\ Settle(s, Value(r_q))
            /\ UNCHANGED out
  /\ UNCHANGED <<ownerVars, tasks, cur, open, kills>>

\* ot_send masks its messages with the pads, in the order eq asks for.
MaskPair(m, r, eq) ==
  IF eq THEN <<Xor(m[1], r[1]), Xor(m[2], r[2])>>
        ELSE <<Xor(m[1], r[2]), Xor(m[2], r[1])>>

RecvEq(s) ==
  /\ Receive(s, "recv_eq")
  /\ Say(s, "masked", Call(s).n,
         [i \in 1 .. Call(s).n |->
            MaskPair(Call(s).msgs[i], loc[s][i], Head(net[s]).v[i])])
  /\ Goto(s, "flush")
  /\ UNCHANGED <<ownerVars, fut, tasks, taskVars, open, kills>>

\* sync_wait(cp_.flush()) inside a task.
Flushed(s) ==
  /\ worker[s] = "flush" /\ open[s] /\ out[s] = <<>>
  /\ \/ Call(s).api = "ot_send" /\ Settle(s, Value(Call(s).msgs))
     \/ Call(s).api = "ot_receive" /\ Goto(s, "recv_masked") /\ UNCHANGED <<fut, loc>>
  /\ UNCHANGED <<ownerVars, tasks, cur, sockVars, kills>>

\* ot_receive takes off the pad.
RecvMasked(s) ==
  /\ Receive(s, "recv_masked")
  /\ LET masked == Pick(Head(net[s]).v, choices[s][cur[s]])
     IN  Settle(s, Value([i \in 1 .. Call(s).n |-> Xor(masked[i], loc[s].r_q[i])]))
  /\ UNCHANGED <<ownerVars, tasks, cur, out, open, kills>>

\* Mutant of ReadFails: the end of the stream goes unnoticed.
ReadFailsNoEof(s) ==
  \/ ~open[s]
  \/ net[s] # <<>> /\ ~Fits(s)

\* The socket is closed, the peer has closed and there is nothing left to read,
\* or a message of another length arrives.
ReadFails(s) ==
  \/ ~open[s]
  \/ net[s] = <<>> /\ ~open[Other(s)]
  \/ net[s] # <<>> /\ ~Fits(s)

\* A read or write throws.  SimplestOT closes the socket before it rethrows.
TaskFails(s) ==
  /\ \/ worker[s] = "begin" /\ ~open[s] /\ ~Mute(Call(s))
     \/ worker[s] = "flush" /\ ~open[s]
     \/ Waits(s) /\ LoopFree(s) /\ ReadFails(s)
  /\ Settle(s, Thrown)
  /\ IF worker[s] \in {"begin", "recv_A", "recv_B", "recv_seed"}
     THEN CloseSocket(s)
     ELSE UNCHANGED sockVars
  /\ UNCHANGED <<ownerVars, tasks, cur, kills>>

\* The event loop of s writes a message; to a closed peer it is lost.
Write(s) ==
  /\ LoopFree(s) /\ open[s] /\ out[s] # <<>>
  /\ out' = [out EXCEPT ![s] = Tail(@)]
  /\ net' = IF open[Other(s)] THEN [net EXCEPT ![Other(s)] = Append(@, Head(out[s]))] ELSE net
  /\ UNCHANGED <<ownerVars, fut, tasks, worker, taskVars, open, kills>>

-----------------------------------------------------------------------------
Init ==
  /\ plan \in Plans
  /\ owner = [s \in Sides |-> "run"]
  /\ choices = [s \in Sides |-> <<>>]
  /\ fut = [s \in Sides |-> <<>>]
  /\ running = [s \in Sides |-> TRUE]
  /\ tasks = [s \in Sides |-> <<>>]
  /\ worker = [s \in Sides |-> "check"]
  /\ cur = [s \in Sides |-> 0]
  /\ loc = [s \in Sides |-> <<>>]
  /\ out = [s \in Sides |-> <<>>]
  /\ net = [s \in Sides |-> <<>>]
  /\ open = [s \in Sides |-> TRUE]
  /\ kills = 0

OwnerStep(s) ==
  Submit(s) \/ AwaitFuture(s) \/ Destroy(s) \/ Join(s) \/ FlushAndClose(s)

TaskStep(s) ==
  \/ BeginTrivial(s) \/ BeginSender(s) \/ BeginReceiver(s)
  \/ RecvA(s) \/ RecvB(s) \/ RecvSeed(s) \/ RecvEq(s) \/ RecvMasked(s)
  \/ Flushed(s) \/ TaskFails(s)

WorkerStep(s) == TakeTask(s) \/ TaskStep(s)

Next ==
  \E s \in Sides :
    OwnerStep(s) \/ WorkerStep(s) \/ Write(s) \/ SpuriousWakeup(s) \/ Kill(s)

Spec == Init /\ [][Next]_vars

\* The threads are scheduled, and a running event loop completes its writes.
FairSpec ==
  /\ Spec
  /\ \A s \in Sides :
       WF_vars(OwnerStep(s)) /\ WF_vars(WorkerStep(s)) /\ WF_vars(Write(s))

-----------------------------------------------------------------------------
Ready(s, k) == k <= Len(fut[s]) /\ fut[s][k].is # "pending"
HasValue(s, k) == k <= Len(fut[s]) /\ fut[s][k].is = "value"

Tasks == {"begin", "recv_A", "recv_B", "recv_seed", "recv_eq", "flush", "recv_masked"}

\* Types.  The task that runs and those that wait are calls that were made, and
\* a task holds the local variables that its next step reads.
TypeOK ==
  /\ owner \in [Sides -> {"run", "await", "unwind", "join", "flush", "gone", "killed"}]
  /\ worker \in [Sides -> {"check", "asleep", "gone"} \cup Tasks]
  /\ running \in [Sides -> BOOLEAN] /\ open \in [Sides -> BOOLEAN]
  /\ kills \in 0 .. MaxKills
  /\ \A s \in Sides :
       /\ Len(fut[s]) = Len(choices[s]) /\ Len(fut[s]) <= Len(Script[s])
       /\ \A i \in DOMAIN tasks[s] : tasks[s][i] \in DOMAIN fut[s]
       /\ worker[s] \in Tasks => cur[s] \in DOMAIN fut[s]
       /\ worker[s] = "recv_B" => Call(s).api \in Senders /\ loc[s] \in SenderDraws
       /\ worker[s] = "recv_eq" =>
            Call(s).api \in Senders /\ DOMAIN loc[s] = 1 .. Call(s).size
       /\ worker[s] = "recv_seed" =>
            Call(s).api \in Receivers /\ DOMAIN loc[s] = {"q", "A", "comm", "b"}
       /\ worker[s] = "recv_masked" =>
            Call(s).api \in Receivers /\ DOMAIN loc[s] = {"r_q"}

\* ot_receive delivers the message that its caller chose, of the pair that the
\* matching ot_send was given: the two sides derive the same pad from different
\* points, and the pads and the bits eq cancel out.
OutputCorrect ==
  \A k \in DOMAIN Script["P1"] :
    HasValue("P1", k) /\ Script["P1"][k].api = "ot_receive" =>
      fut["P1"][k].v = Pick(Script["P0"][k].msgs, choices["P1"][k])

\* A worker does not sleep through a task, or through the destructor.
NoLostWakeup ==
  \A s \in Sides : worker[s] = "asleep" => tasks[s] = <<>> /\ running[s]

\* The worker leaves only when the queue is empty: after the join every call
\* has its result or its exception, and no promise is abandoned.
Drained ==
  \A s \in Sides :
    worker[s] = "gone" /\ owner[s] # "killed" => \A k \in DOMAIN fut[s] : Ready(s, k)

\* Every send_batch is followed by a call that transfers something.  Its task ends
\* with its last message handed to the socket and maybe not written.
BatchesFollowed ==
  \A s \in Sides : \A k \in DOMAIN Script[s] :
    Script[s][k].api = "send_batch" =>
      k + 1 \in DOMAIN Script[s] /\ ~Mute(Script[s][k + 1])

\* An owner that awaits its futures gets them all, also when the peer dies or
\* gives up, unless the peer blocks its event loop before its last batch is out.
FuturesSettle ==
  BatchesFollowed =>
    \A s \in Sides :
      []<>(~AwaitEach \/ owner[s] = "killed" \/ \A k \in DOMAIN fut[s] : Ready(s, k))

\* If no process is killed, both end: each destructor gets through its join and
\* its flush.
Termination == <>(kills > 0 \/ \A s \in Sides : owner[s] = "gone")

\* So it is for owners that await every future, as long as no destructor is left
\* to flush what the event loop, which it blocks, would have to write.
AwaitedTermination == AwaitEach /\ BatchesFollowed => Termination
=============================================================================
