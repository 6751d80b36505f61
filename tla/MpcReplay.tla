------------------------------ MODULE MpcReplay ------------------------------
(***************************************************************************)
(* Preprocessing: mpcops_test run with -p (RandomnessMode::Record) and     *)
(* then with -o (RandomnessMode::Replay).  Recording, P2 writes the        *)
(* material of mpc_mul and mpc_and to one tape per operation and party;    *)
(* replaying, P0 and P1 read it back instead of receiving it.              *)
(*                                                                         *)
(* The file names are relative and nothing copies a file, so the three     *)
(* programs are run in one directory: the tapes that P2 writes are the     *)
(* ones that every role truncates and that P0 and P1 read.                 *)
(*                                                                         *)
(* The shares are left out: material is the identity of the draw it was    *)
(* derived from, and the lemmas MulTapeCorrect and AndCorrect say that two *)
(* parties that use their halves of one draw compute a correct result.     *)
(***************************************************************************)
EXTENDS Integers, Sequences

CONSTANTS
  Program,   \* the operations that all three roles execute
  Launches,  \* the modes in which the three programs are run, one by one
  Garbage,   \* what an uninitialised counter may hold
  MaxKills

Parties == {"P0", "P1"}
Roles == Parties \cup {"P2"}
Peer(p) == IF p = "P0" THEN "P1" ELSE "P0"

\* mpc_or does what mpc_and does.  The masks of mpc_eqz are never recorded.
Taped == {"mul", "and"}
Steps == 1 .. Len(Program)

ASSUME ReplayAssumption ==
  /\ Program \in Seq(Taped \cup {"mask"})
  /\ Launches \in Seq({"Record", "Replay"}) /\ Launches # <<>>
  /\ Garbage \subseteq Nat /\ Garbage # {}
  /\ MaxKills \in Nat

\* The tapes mul_p0.rand, mul_p1.rand, and_p0.rand, and_p1.rand.
Tapes == Taped \X Parties

VARIABLES
  launch,  \* which of the launches this is
  st,      \* st[r]: "boot", "run", "closing", or how the process ended
  at,      \* at[r]: the step that r executes
  posted,  \* posted[p]: the last step for which p has written to its peer
  ctr,     \* ctr[r]: mul_ctr and and_ctr
  tape,    \* the tapes on disk
  buf,     \* what P2 has written and its ofstreams still buffer
  rpos,    \* rpos[p]: how many records p has read from either of its tapes
  rand,    \* p2.rand: values on disk, in the buffer, and read by P2
  made,    \* the roles whose file pN.rand exists
  used,    \* used[p]: the material that p used, per step
  sealed,  \* history: P2 has come to close the tapes at the end of its program, and
           \* since then it was not killed at it and nobody has opened them again
  kills

vars == <<launch, st, at, posted, ctr, tape, buf, rpos, rand, made, used, sealed, kills>>

volatile == <<at, posted, ctr, rpos, used>>
disk == <<tape, buf, rand, made>>

Mode == Launches[launch]
Live(r) == st[r] \in {"boot", "run", "closing"}
Op(r) == Program[at[r]]
InStep(r, ops) == st[r] = "run" /\ at[r] \in Steps /\ Op(r) \in ops

\* Material that was never recorded.
Junk == <<"junk">>

-----------------------------------------------------------------------------
(* init_randomness                                                         *)

\* An ofstream truncates the file that it opens.  Every role opens all four
\* tapes for writing, although only P2 writes to them.  It opens them in the order
\* opposite to that in which P2 closes its own: whatever the interleaving of the
\* two, what is lost is what P2 had closed at some moment, and one step suffices.
Truncated == [f \in Tapes |-> <<>>]

\* MPCContext leaves mul_ctr and and_ctr uninitialised.  Only P2 reads them when
\* recording and only P0 and P1 when replaying; the others are kept at 0.
CounterStarts(r) == IF (Mode = "Record") <=> (r = "P2") THEN Garbage ELSE {0}

\* Mutant of Boot: the tapes are opened without truncating them.
BootAppends(r) ==
  /\ st[r] = "boot"
  /\ \E m, a \in CounterStarts(r) : ctr' = [ctr EXCEPT ![r] = [mul |-> m, and |-> a]]
  /\ st' = [st EXCEPT ![r] = IF Mode = "Record" \/ r \in made THEN "run" ELSE "threw"]
  /\ made' = IF Mode = "Record" THEN made \cup {r} ELSE made
  /\ UNCHANGED <<launch, at, posted, tape, buf, rpos, rand, used, sealed, kills>>

\* The connections are up and the files are opened.
Boot(r) ==
  /\ st[r] = "boot"
  /\ \E m, a \in CounterStarts(r) : ctr' = [ctr EXCEPT ![r] = [mul |-> m, and |-> a]]
  /\ \/ /\ Mode = "Record"
        /\ tape' = Truncated /\ sealed' = FALSE
        /\ rand' = IF r = "P2" THEN [rand EXCEPT !.disk = 0] ELSE rand
        /\ made' = made \cup {r}
        /\ st' = [st EXCEPT ![r] = "run"]
     \/ /\ Mode = "Replay"
        /\ st' = [st EXCEPT ![r] = IF r \in made THEN "run" ELSE "threw"]
        /\ UNCHANGED <<tape, rand, made, sealed>>
  /\ UNCHANGED <<launch, at, posted, buf, rpos, used, kills>>

-----------------------------------------------------------------------------
(* P2                                                                      *)

Advance(r) == at' = [at EXCEPT ![r] = @ + 1]

\* Mutant of Record: the counter is not incremented.
RecordSameIndex ==
  /\ Mode = "Record" /\ InStep("P2", Taped)
  /\ LET op == Op("P2")
         rec(p) == [idx |-> ctr["P2"][op], k |-> <<launch, at["P2"], p>>]
     IN  buf' = [f \in Tapes |-> IF f[1] = op THEN Append(buf[f], rec(f[2])) ELSE buf[f]]
  /\ rand' = [rand EXCEPT !.buf = @ + 4]
  /\ Advance("P2")
  /\ UNCHANGED <<launch, st, posted, ctr, tape, rpos, made, used, sealed, kills>>

\* mpc_mul and mpc_and, recording: four values to p2.rand, and a record to the
\* tape of each party.  Nothing is sent.
Record ==
  /\ Mode = "Record" /\ InStep("P2", Taped)
  /\ LET op == Op("P2")
         rec(p) == [idx |-> ctr["P2"][op], k |-> <<launch, at["P2"], p>>]
     IN  /\ buf' = [f \in Tapes |-> IF f[1] = op THEN Append(buf[f], rec(f[2])) ELSE buf[f]]
         /\ ctr' = [ctr EXCEPT !["P2"][op] = @ + 1]
  /\ rand' = [rand EXCEPT !.buf = @ + 4]
  /\ Advance("P2")
  /\ UNCHANGED <<launch, st, posted, tape, rpos, made, used, sealed, kills>>

\* The P2 branch of mpc_mul, replaying, reads back the four values and does
\* nothing with them; that of mpc_and draws nothing.  mpc_random throws when
\* p2.rand is exhausted.
Reread ==
  /\ Mode = "Replay" /\ InStep("P2", Taped)
  /\ IF Op("P2") = "mul"
     THEN IF rand.read + 4 <= rand.disk
          THEN /\ rand' = [rand EXCEPT !.read = @ + 4]
               /\ Advance("P2")
               /\ UNCHANGED st
          ELSE /\ st' = [st EXCEPT !["P2"] = "threw"]
               /\ UNCHANGED <<rand, at>>
     ELSE Advance("P2") /\ UNCHANGED <<rand, st>>
  /\ UNCHANGED <<launch, posted, ctr, tape, buf, rpos, made, used, sealed, kills>>

\* The masks of mpc_eqz are sent in every mode.
SendMask ==
  /\ InStep("P2", {"mask"})
  /\ Advance("P2")
  /\ UNCHANGED <<launch, st, posted, ctr, disk, rpos, used, sealed, kills>>

\* The write of a mask to a party that is gone throws.  Recording, the streams
\* are closed all the same as the stack unwinds, with what was recorded so far.
\* If the other party got its mask, it still waits for the one that is gone.
SendMaskFails ==
  /\ InStep("P2", {"mask"}) /\ \E p \in Parties : st[p] \in {"threw", "killed"}
  /\ st' = [st EXCEPT !["P2"] = IF Mode = "Record" THEN "closing" ELSE "threw"]
  /\ UNCHANGED <<launch, volatile, disk, sealed, kills>>

\* The end of run_p2: replaying, it throws if p2.rand has more values.
P2Ends ==
  /\ st["P2"] = "run" /\ at["P2"] = Len(Program) + 1
  /\ st' = [st EXCEPT !["P2"] =
              IF Mode = "Record" THEN "closing"
              ELSE IF rand.read < rand.disk THEN "threw" ELSE "done"]
  /\ sealed' = (sealed \/ Mode = "Record")
  /\ UNCHANGED <<launch, volatile, disk, kills>>

\* ~MPCContext closes the files one by one, in this order.  Until then all
\* that was written to them is in the buffers: a record has 32 bytes, and the
\* programs here make few enough for the buffer of a stream.
ClosingOrder == << <<"and", "P1">>, <<"and", "P0">>, <<"mul", "P1">>, <<"mul", "P0">> >>

CloseFile ==
  /\ st["P2"] = "closing"
  /\ \/ \E i \in 1 .. Len(ClosingOrder) :
          LET f == ClosingOrder[i] IN
            /\ buf[f] # <<>> /\ \A j \in 1 .. (i - 1) : buf[ClosingOrder[j]] = <<>>
            /\ tape' = [tape EXCEPT ![f] = @ \o buf[f]]
            /\ buf' = [buf EXCEPT ![f] = <<>>]
            /\ UNCHANGED <<st, rand>>
     \/ /\ \A f \in Tapes : buf[f] = <<>>
        /\ rand' = [rand EXCEPT !.disk = @ + rand.buf, !.buf = 0]
        /\ st' = [st EXCEPT !["P2"] = IF at["P2"] = Len(Program) + 1 THEN "done" ELSE "threw"]
        /\ UNCHANGED <<tape, buf>>
  /\ UNCHANGED <<launch, volatile, made, sealed, kills>>

-----------------------------------------------------------------------------
(* P0 and P1                                                               *)

\* The tape that p reads: is_p0 ? mul_in_p0 : mul_in_p1, and likewise for and.
TapeOf(p, op) == tape[<<op, p>>]

\* p posts its writes and reads of the current step, with material k.
Post(p, k) ==
  /\ used' = [used EXCEPT ![p] = Append(@, k)]
  /\ posted' = [posted EXCEPT ![p] = at[p]]

\* Recording, X, Y and gamma are uninitialised and the exchange goes ahead.
FetchNothing(p) ==
  /\ Mode = "Record" /\ InStep(p, Taped) /\ posted[p] < at[p]
  /\ Post(p, Junk)
  /\ UNCHANGED <<launch, st, at, ctr, disk, rpos, sealed, kills>>

\* Replaying, a record is read and its index compared with the counter.
FetchRecord(p) ==
  /\ Mode = "Replay" /\ InStep(p, Taped) /\ posted[p] < at[p]
  /\ LET op == Op(p)
         i  == rpos[p][op] + 1
     IN  /\ i <= Len(TapeOf(p, op))
         /\ ctr' = [ctr EXCEPT ![p][op] = @ + 1]
         /\ rpos' = [rpos EXCEPT ![p][op] = i]
         /\ IF TapeOf(p, op)[i].idx = ctr[p][op]
            THEN Post(p, TapeOf(p, op)[i].k) /\ UNCHANGED st
            ELSE st' = [st EXCEPT ![p] = "threw"] /\ UNCHANGED <<used, posted>>
  /\ UNCHANGED <<launch, at, disk, sealed, kills>>

\* At the end of the tape the reads leave idx_file, X, Y and gamma as they were:
\* uninitialised.  Nothing checks the stream.
FetchPastEnd(p) ==
  /\ Mode = "Replay" /\ InStep(p, Taped) /\ posted[p] < at[p]
  /\ rpos[p][Op(p)] >= Len(TapeOf(p, Op(p)))
  /\ ctr' = [ctr EXCEPT ![p][Op(p)] = @ + 1]
  /\ \/ ctr[p][Op(p)] \in Garbage /\ Post(p, Junk) /\ UNCHANGED st
     \/ st' = [st EXCEPT ![p] = "threw"] /\ UNCHANGED <<used, posted>>
  /\ UNCHANGED <<launch, at, disk, rpos, sealed, kills>>

\* The masks of mpc_eqz come from P2 over the wire.
FetchMask(p) ==
  /\ InStep(p, {"mask"}) /\ posted[p] < at[p]
  /\ at["P2"] > at[p]
  /\ Post(p, <<launch, at[p], p>>)
  /\ UNCHANGED <<launch, st, at, ctr, disk, rpos, sealed, kills>>

\* Mutant of Exchange: p does not wait for its peer.
ExchangeAlone(p) ==
  /\ st[p] = "run" /\ posted[p] = at[p]
  /\ Advance(p)
  /\ UNCHANGED <<launch, st, posted, ctr, disk, rpos, used, sealed, kills>>

\* The values of the peer arrive.
Exchange(p) ==
  /\ st[p] = "run" /\ posted[p] = at[p] /\ posted[Peer(p)] >= at[p]
  /\ Advance(p)
  /\ UNCHANGED <<launch, st, posted, ctr, disk, rpos, used, sealed, kills>>

\* The end of run_p0 and run_p1: p0.rand and p1.rand are always empty.
PartyEnds(p) ==
  /\ st[p] = "run" /\ at[p] = Len(Program) + 1
  /\ st' = [st EXCEPT ![p] = "done"]
  /\ UNCHANGED <<launch, volatile, disk, sealed, kills>>

\* Mutant of IoError: the death of the peer goes unnoticed.
IoErrorP2Only(p) ==
  /\ InStep(p, {"mask"}) /\ posted[p] < at[p] /\ ~Live("P2") /\ at["P2"] <= at[p]
  /\ st' = [st EXCEPT ![p] = "threw"]
  /\ UNCHANGED <<launch, volatile, disk, sealed, kills>>

\* A read from a role that has ended without sending throws.  If that role did
\* not end normally, what it had sent may be lost as well.
IoError(p) ==
  /\ \/ /\ InStep(p, {"mask"}) /\ posted[p] < at[p]
        /\ ~Live("P2") /\ (at["P2"] <= at[p] \/ st["P2"] = "killed")
     \/ /\ InStep(p, Taped \cup {"mask"}) /\ posted[p] = at[p]
        /\ ~Live(Peer(p)) /\ (posted[Peer(p)] < at[p] \/ st[Peer(p)] # "done")
  /\ st' = [st EXCEPT ![p] = "threw"]
  /\ UNCHANGED <<launch, volatile, disk, sealed, kills>>

-----------------------------------------------------------------------------
\* A process is killed; what P2 had buffered is lost.
Kill(r) ==
  /\ kills < MaxKills /\ Live(r)
  /\ kills' = kills + 1
  /\ st' = [st EXCEPT ![r] = "killed"]
  /\ IF r = "P2"
     THEN buf' = [f \in Tapes |-> <<>>] /\ rand' = [rand EXCEPT !.buf = 0]
     ELSE UNCHANGED <<buf, rand>>
  /\ sealed' = (sealed /\ ~(r = "P2" /\ st[r] = "closing"))
  /\ UNCHANGED <<launch, volatile, tape, made>>

ResetProcesses ==
  /\ at' = [r \in Roles |-> 1]
  /\ posted' = [p \in Parties |-> 0]
  /\ ctr' = [r \in Roles |-> [mul |-> 0, and |-> 0]]
  /\ rpos' = [p \in Parties |-> [mul |-> 0, and |-> 0]]
  /\ used' = [p \in Parties |-> <<>>]

\* All three have ended and are started again in the next mode.
Relaunch ==
  /\ \A r \in Roles : ~Live(r)
  /\ launch < Len(Launches)
  /\ launch' = launch + 1
  /\ st' = [r \in Roles |-> "boot"]
  /\ rand' = [rand EXCEPT !.read = 0]
  /\ ResetProcesses
  /\ UNCHANGED <<tape, buf, made, sealed, kills>>

Init ==
  /\ launch = 1 /\ sealed = FALSE /\ kills = 0 /\ made = {}
  /\ st = [r \in Roles |-> "boot"]
  /\ at = [r \in Roles |-> 1]
  /\ posted = [p \in Parties |-> 0]
  /\ ctr = [r \in Roles |-> [mul |-> 0, and |-> 0]]
  /\ rpos = [p \in Parties |-> [mul |-> 0, and |-> 0]]
  /\ used = [p \in Parties |-> <<>>]
  /\ tape = [f \in Tapes |-> <<>>]
  /\ buf = [f \in Tapes |-> <<>>]
  /\ rand = [disk |-> 0, buf |-> 0, read |-> 0]

P2Step == Record \/ Reread \/ SendMask \/ SendMaskFails \/ P2Ends \/ CloseFile

PartyStep(p) ==
  \/ FetchNothing(p) \/ FetchRecord(p) \/ FetchPastEnd(p) \/ FetchMask(p)
  \/ Exchange(p) \/ PartyEnds(p) \/ IoError(p)

RoleStep(r) ==
  Boot(r) \/ (r = "P2" /\ P2Step) \/ (r \in Parties /\ PartyStep(r))

Next == Relaunch \/ \E r \in Roles : RoleStep(r) \/ Kill(r)

Spec == Init /\ [][Next]_vars

\* Each process runs; the operator starts the next launch.
FairSpec == Spec /\ WF_vars(Relaunch) /\ \A r \in Roles : WF_vars(RoleStep(r))

-----------------------------------------------------------------------------
\* Types, and how far each role may be ahead of another.
TypeOK ==
  /\ launch \in 1 .. Len(Launches)
  /\ st \in [Roles -> {"boot", "run", "closing", "done", "threw", "killed"}]
  /\ at \in [Roles -> 1 .. (Len(Program) + 1)]
  /\ \A p \in Parties :
       /\ posted[p] \in {at[p] - 1, at[p]} /\ Len(used[p]) = posted[p]
       /\ at[p] - 1 <= posted[Peer(p)]
  /\ \A r \in Roles : ctr[r].mul \in Nat /\ ctr[r].and \in Nat
  /\ rand.disk \in Nat /\ rand.buf \in Nat /\ rand.read \in 0 .. rand.disk
  /\ st["P2"] \notin {"run", "closing"} => \A f \in Tapes : buf[f] = <<>>

\* Whatever is killed, and whatever the counters hold: material that a replaying
\* party takes from a tape is its own half of what a recording run made for this
\* very step, and its peer has the other half of the same draw.  It is of the last
\* recording, unless all three were killed before one of them opened its files.
Matched ==
  Mode = "Replay" =>
    \A p \in Parties : \A i \in DOMAIN used[p] :
      LET k == used[p][i] IN
        k # Junk /\ Program[i] \in Taped =>
          /\ k[2] = i /\ k[3] = p
          /\ i \in DOMAIN used[Peer(p)] /\ used[Peer(p)][i] # Junk => used[Peer(p)][i][1] = k[1]
          /\ kills < 3 => \A n \in (k[1] + 1) .. launch : Launches[n] = "Replay"

\* After recording runs without a kill, the last of which P2 closed when both
\* parties had opened their files, the parties replay to the end: no desync, and
\* no material but what was recorded.
PartiesReplay ==
  Mode = "Replay" /\ sealed /\ kills = 0 =>
    \A p \in Parties :
      st[p] # "threw" /\ \A i \in DOMAIN used[p] : used[p][i] # Junk

\* The counters of p started from the value from which P2 numbered the tapes.
CountersAgree(p) ==
  \A op \in Taped : TapeOf(p, op) # <<>> => TapeOf(p, op)[1].idx = ctr[p][op] - rpos[p][op]

\* What it takes for a recording to be replayed: P2 came to its end and closed the
\* tapes, nobody opened them for recording while it did or afterwards, the files
\* pN.rand are there, and the uninitialised counters of the parties happen to
\* start where P2's did.  Then, whatever was killed before and is killed now, no
\* party runs off its tape, and none throws unless a process was killed in this run.
ReplayIfCountersAgree ==
  Mode = "Replay" /\ sealed /\ made = Roles /\ (\A p \in Parties : CountersAgree(p)) =>
    \A p \in Parties :
      /\ \A i \in DOMAIN used[p] : used[p][i] # Junk
      /\ st[p] = "threw" => \E r \in Roles : st[r] = "killed"

\* A replaying P2 consumes p2.rand exactly, and does not throw.
P2Replays == Mode = "Replay" /\ sealed /\ kills = 0 => st["P2"] # "threw"

\* Every launch comes to an end.
Termination == <>(launch = Len(Launches) /\ \A r \in Roles : ~Live(r))
=============================================================================
