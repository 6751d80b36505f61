# A TLA+ verification of the UGP three-party MPC prototype

The repository is a C++20 prototype of three-party secure computation. Two
computing parties, P0 and P1, hold shares of every value; a dealer, P2, hands
them correlated randomness. Each is one process with one Boost.Asio event loop
and one coroutine; they talk over TCP. On top of the share operations there is
an array with shared contents, Locoram, which is read and updated with the keys
of a distributed point function (DPF). A separate part, `OTManager`, runs
oblivious transfers from libOTe on a worker thread.

This directory models the parts of that code that carry its logic, checks them
with TLC on small instances, and proves the main results with TLAPS for every
value of the parameters: that the operations compute what they should and
implement an abstract machine that computes on the secrets, that a transfer of
`OTManager` delivers the chosen message, that a replay uses what was recorded for
it, that the DPF is a point function, and that Locoram reconstructs its array.

## 1. Inventory

| Part | Source (under `mpc/`) | State | Operations | Hard because |
|---|---|---|---|---|
| Share algebra | `shares.hpp`, `mpcops.hpp` | none | `AShare`, `XShare`, Beaver formulas, reconstruction | unsigned wrap-around; which cross terms cancel |
| Three-party operations | `mpcops.hpp`, `shares.hpp` | the coroutine's position, shares, words in flight | `mpc_mul`, `mpc_and`, `mpc_or`, `mpc_eqz`, `reconstruct_remote` | untagged messages; a dealer that never waits; exceptions dropped by `detached` |
| Driver programs | `mpcops_test.cpp`, `main.cpp`, `locoram_test.cpp` | `MPCContext` | `run_p0`, `run_p1`, `run_p2`, `main` | three copies of one program must agree |
| Preprocessing | `mpcops.hpp`, `shares.hpp`, `mpcops_test.cpp` | tapes on disk, stream buffers, counters, read positions | `init_randomness`, `mpc_random`, Record and Replay branches | state survives a run; buffered writes; a run may be cut short |
| Connection set-up | `network.hpp`, the start of every `run_p*` | listening ports, backlogs, sockets | `make_server`, `accept_on`, `connect_with_retry` | processes started, killed and restarted in any order; nothing but the port says who is calling |
| NetPeer | `network.hpp` | a socket with bounded buffers | send and receive of values and of vectors | a vector is two writes; several coroutines share a socket; transfers are partial |
| Dot product | `mpcops.hpp`, `shares.hpp`, `prg.hpp` | seeds, blinded vectors | `mpc_dotproduct`, `reconstruct_remote_vector` | four vectors in flight on one socket; three processes must expand the same seeds alike |
| DPF | `dpf.hpp`, `dpfio.hpp` | keys; the output buffer | `gen`, `eval`, `__evalinterval`, serialisation | a correction word per layer; two layers of the tree live in the buffer of the result |
| Locoram | `locoram.hpp`, `locoram.tpp` | share, blind, cancellation term, advice bits | `update`, `read`, `reconstruct_with_ctx` | three roles; terms that cancel between two parties; a role that throws |
| OTManager | `ot_manager.hpp`, `ot_tests.cpp` | task queue, `running_`, promises, worker, socket | `send_batch`, `recv_batch`, `ot_send`, `ot_receive`, `await_future`, destructor | two threads; a blocking wait for the event loop; a peer that gives up |

How the parts interact. The driver programs connect (`Connect`), then call the
operations; an operation sends and receives through `NetPeer`; in Record and
Replay mode it writes and reads tapes instead of talking to P2; `mpc_eqz` calls
`mpc_or`, which calls `mpc_and`. Locoram gets DPF keys from P2 and evaluates them
with `__evalinterval`. `OTManager` has a connection of its own and shares only
the event loop with the rest.

What makes each part correct:

- operations: the secret behind the result is the operation applied to the
  secrets behind the operands, whatever the interleaving; messages stay aligned
  with operations; nobody hangs; a normal run never throws;
- preprocessing: a replay uses, in each step, the two halves of one recorded
  draw, and a recording that was completed can be replayed;
- set-up: every socket leads to the role the program takes it for, and processes
  that all run find each other;
- vectors: a length is never taken for data, and the shares of a dot product add
  up to it;
- DPF: the evaluations of the two keys differ at the target only, by the value;
  evaluating an interval in place gives what evaluating each point gives;
- Locoram: both parties reconstruct the array that was updated, and a read opens
  to what was written;
- OTManager: the two managers behave like a trusted party; no wake-up is lost;
  every awaited future becomes ready; the destructor ends.

`PROJECT.json` lists, under `hazards`, the places in the code where each of these
could go wrong, and the property that would catch it.

## 2. Modules

| Module | What it is |
|---|---|
| `Words` | W-bit words and the share algebra: `MulWire`, `MulShare`, `AndShare`, ... are the expressions of the code |
| `Fifo` | one direction of a connection as the invariants see it |
| `MpcOps` | P0, P1, P2, the sockets and the operations, mode Online |
| `IdealOps`, `MpcImplementsIdeal` | the abstract machine that computes on secrets, and the mapping under which `MpcOps` implements it |
| `MpcReplay` | the tapes: Record, Replay, kills, restarts |
| `Connect` | ports, retries, kills and restarts before the protocol starts |
| `VectorWire` | vectors over a socket; `mpc_dotproduct`, `reconstruct_remote_vector`, Locoram's exchange |
| `Dpf` | `gen`, `eval`, `__evalinterval`, loop iteration by loop iteration |
| `Locoram` | the shared array in its three roles |
| `OTCalls` | the interface of `OTManager`: calls, futures, choices |
| `SimplestOT` | the points, commitment and pads of libOTe's `SimplestOT` |
| `OTManager` | two managers, their workers, and the OT connection |
| `IdealOT`, `OTImplementsIdeal` | the trusted party, and the mapping under which `OTManager` implements it |
| `MC*` | programs, plans and samples for TLC (`Connect` needs none) |
| `OperatorProofs` | lemmas about the algebra, sequences and queues, and induction over sets of numbers |
| `MpcProofs` | the theorems about `MpcOps`, and that it implements `IdealOps` |
| `OTProofs` | the theorems about one `OTManager`, about two and their connection, and the refinement of `IdealOT` |
| `ReplayProofs`, `DpfProofs`, `LocoramProofs`, `ConnectProofs`, `VectorProofs` | the theorems about `MpcReplay`, `Dpf`, `Locoram`, `Connect`, `VectorWire` |

Operators whose comment begins with "Mutant of" are wrong versions of the
definition that follows. No specification uses them; putting one in the place
of its original shows that a property notices.

### Words

An additive word is a number below 2^W, with `% 2^W` after every operation; an
XOR word is the set of its 1 bits, so `^` is symmetric difference and `&` is
intersection. `Bits` converts, as the shifts in `mpc_eqz` do. `MulWire` and
`MulTape` are different on purpose: Online, P2 sends `X0, X1` to P0 and `Y0, Y1`
to P1 (`mpcops.hpp:203-207`), while the tapes hold `X0, Y0` and `X1, Y1`
(`mpcops.hpp:221-230`). Both give a correct product, and both are proved
(`MulWireCorrect`, `MulTapeCorrect`).

### MpcOps

`Program` is a constant: a sequence of steps, each an operation and the earlier
steps whose results it takes. All three roles execute it. The state of a party
is its position, its results `reg`, the material `mat` of the current step and
whether it waits for its peer (`pc`); P2's is the list of its draws. `dealt[p]`
and `talk[p]` are the words in flight to p from P2 and from its peer.

| Action | Code |
|---|---|
| `Deal` | the P2 branch of `mpc_mul`, `mpc_and`, `mpc_eqz`: draw, derive, send |
| `DealerLocal` | a step in which P2 has nothing to send |
| `Local` | shares built from values, the leaves of `mpc_eqz` |
| `Blind` | the read of the material and the posting of the blinded words |
| `Exchange` | the peer's blinded words arrive, the output share is computed |
| `SendShare`, `RecvShare` | the two halves of `reconstruct_remote` |
| `Finish`, `IoError`, `Crash` | the coroutine returns, throws (dropped by `detached`), or the process is killed; its sockets close |

`mpc_or` is `mpc_and` with two more XORs, as in the code. `mpc_eqz` is unfolded by
`EqzSteps` into a mask, W leaves and W-1 ORs in the order of the code's level by
level reduction (W a power of two, as 64 is).

Assumptions about what is outside the repository: TCP is FIFO; what a process
sent before closing stays readable, unless it closed with unread data, when a
reset may destroy any suffix; a write to a closed connection throws or is lost.
The words that one `co_await (a && b && ...)` moves over one socket go in the
order in which they are written down, which is how Boost.Asio starts the
operands of `&&`, and writes of one word are not split. They are one message
here.

*Refinement.* `IdealOps` has one variable, the sequence of values computed so
far, and one action that appends the value of the next step. `MpcOps` maps to it
by taking, for the steps that both parties have completed, the secret behind
their two shares (the word P0 holds, if the step was an opening). The mask of
`mpc_eqz` is promised to be zero exactly if its operand is, and nothing more.

### MpcReplay

The shares are left out: what matters is which draw the material came from, so
material is `<<launch, step, party>>`, and the algebra is `MulTapeCorrect` and
`AndCorrect`. P2 appends to buffers that reach the disk when the streams are
closed, one file after the other; a kill loses the buffers. `Boot` truncates the
tapes as `init_randomness` does, in every role. The file names are relative and no
code copies a file, so the model has one directory, in which all roles run: the
tapes that P2 writes are the ones the others truncate, when they start, and read.
`sealed` is a history variable: P2 has brought a recording to its end and closed
the tapes, or is closing them, and no role has opened them since. A P2 that fails
to send a mask (`SendMaskFails`) closes its streams as the stack unwinds, with a
part of the recording. The counters `mul_ctr` and `and_ctr` start
from any value of `Garbage`, because nothing initialises them. A read past the
end of a tape leaves the variables as they were: the step goes on with `Junk` if
the stale index happens to match, and throws otherwise.

### Connect

A program is the list of its `connect`, `bind`, `accept` and `close` steps, taken
from the first lines of `run_p0`, `run_p1` and `run_p2`. `main` binds both of P2's
ports before it accepts and keeps the acceptors open; `mpcops_test` and
`locoram_test` use `make_server`, whose acceptor is a local variable, one port
after the other; `ot_tests` has two roles. A connection is complete for the
client as soon as the port is open, and waits in `backlog`. A kill closes ports
and sockets; a restart begins the list again.

### VectorWire

`wq` and `rq` are the composed operations that a party has started on its socket.
One step moves part of the buffer of the operation at the head of the queue and
puts it behind the others if it is not done, which is how `async_write` and
`async_read` continue. `stream[p]` is what is in flight to p, at most `Cap` words.
The keys with which the three processes expand seeds are free values, because
`mpc_dotproduct` passes an `AES_KEY` that it never sets, and so are the lengths of
the vectors that each caller passes. `whole` records whether every operation so
far moved its whole buffer at once.

### Dpf

A block is an XOR word, whose bits 0 and 1 are the "lsbs" of `types.hpp`. PRG is a
constant function of key, seed and index. The leaf type is given by
`leaves_per_node` and `nodes_per_leaf`, which covers the packed integer types,
`__m128i` and arrays of it.

| Action | Code |
|---|---|
| `GenThrow`, `GenStart`, `GenLayer`, `GenFinish` | `gen`: the check of the target, the roots, one iteration of the loop, `make_finalizer` |
| `GenTrap` | `target % elements_per_vector` with a divisor of zero (`dpf.hpp:127`), if the build keeps it |
| `Receive` | `deserialize_dpf_key(serialize_dpf_key(key))` |
| `EvalStart`, `EvalLayer`, `EvalFinish` | `eval` |
| `IntervalStart`, `TraverseNode`, `NextLayer` | `__evalinterval`: the buffer with nothing in it but the root, one node, one layer |
| `FinalizeNode`, `IntervalFinish` | `finalize`, in place |

What `new` returns is `Junk`, on which nothing is defined: a read of a place that
has not been written stops TLC with an error.

### Locoram

A key is what its evaluation gives (this is what `Dpf` shows of it): an output
vector and advice bits, of which the two parties' XOR to a point and to a unit
vector over the nodes. `mem[p]` is the object of p. Each call of a role has a share of an
index of its own (`NextIndex`), in bounds or not. P2's `update` and `read` draw
a point and a value and overwrite both with constants (`UpdAlpha`, `UpdValue`,
`ReadAlpha`), and so does the model. A message carries the step `k` that it was
sent in, which the code's messages do not: no action reads it, the invariants do.

| Action | Code |
|---|---|
| `Deal`, `DealFails`, `DealerSkip` | P2's part of `Ref::update` and `Ref::read`, and of the reconstructions it has no part in |
| `Update`, `ReadX`, `ReadA` | `update`, `read(XShare)`, `read(AShare)` of a party |
| `SendHalf`, `RecvHalf` | `reconstruct_with_ctx`, in which P0 writes and P1 reads first, and `reconstruct_remote` |
| `BoundsError`, `IoError`, `Finish` | how a coroutine ends |

### OTManager

Each side has an owner (the coroutine that calls the API and destroys the
manager), a worker (the thread in `run()`), and a socket with what was handed to
it (`out`) and what has arrived (`net`). A task is run message by message:

    sender:    A -> ; <- B ; seed -> ; <- eq ; masked -> ; flush
    receiver:  <- A ; B -> ; <- seed ; eq -> ; flush ; <- masked

What the messages of the random OT contain is in `SimplestOT`: the sender draws a
and sends A = aG and a commitment to a seed; the receiver answers with B = bG, or
A + bG if its choice is 1; the sender opens the seed, and both hash points into
pads, the receiver bA, the sender aB and aB - aA. The curve is a cyclic group, in
which kG is written k, and the random oracle is a function. Reads and writes complete only while the event loop runs
(`LoopFree`), which it does not while the owner is in the destructor. The worker
sleeps on the condition variable, can wake up spuriously, and takes a task or
leaves under the lock, in one action. `plan`, chosen at the start, is what the
two owners call and whether they await each future.

*Refinement.* `IdealOT` keeps the calls made and their futures. Its trusted party
settles the oldest open future of a side: with the chosen message, once both
sides have made the call, or with an exception, but only after a kill or a call
that one side got wrong. `OTManager` maps to it by hiding everything but `fut`,
`choices` and whether a process was killed.

## 3. Runs

| Run | Instance | Shows |
|---|---|---|
| `eqz` | W = 4: mask, 4 leaves, 3 ORs, an AND, an opening; inputs 0, 1, 15; masks 0, 7, 15 | `EqzReportsNonzero`, refinement `ImplementsIdeal` |
| `crash` | W = 3: `mpc_mul`, mask, `mpc_or`, two openings; one kill anywhere; fairness | `TypeOK`, `Aligned`, `OpCorrect`, `OpenCorrect`, `CleanRun`, the inductive invariant `IndInv`, `Termination`, `ImplementsIdeal` |
| `replay` | four steps; two recordings and a replay in one directory, any counters; one kill | `TypeOK`, `Matched`, `ReplayIfCountersAgree`, `Termination` |
| `connect` | the three programs; three kills | `TypeOK`, `LabelsRight`, `ReadyMeansPaired`, `EverybodyJoins` |
| `vector` | vectors of 0 or 2 words of 2 bits, any length and key in each role; buffers of 2 words | `TypeOK`, `LengthsRight`, `IntactWhenWhole`, `AloneIntact`, `DotCorrect`, `Ends` |
| `dpf` | blocks of 4 bits; three leaf types; 1, 2, 5 and 6 items; four PRG keys; every target, input and interval | `TypeOK`, `PathInvariant`, `PointCorrect`, `IntervalMatchesEval`, `FlagsAreUnitVector` |
| `locoram` | 6 items; update, reconstruct, read, open, update, reconstruct, read; two ways to share an array; each call with an index in or out of bounds | `TypeOK`, `ReconstructCorrect`, `FirstReadCorrect`, `Termination` |
| `ot` | a group of order 5; two transfers, awaited or not; two random OTs in a batch, a transfer, an empty one and one that is rejected on one side, each awaited; a batch and nothing after it; one kill | `TypeOK`, `OutputCorrect`, `NoLostWakeup`, `Drained`, `FuturesSettle`, `AwaitedTermination`, refinement `ImplementsIdealOT` |

Four runs expect a violation. Each states what the repository says of its own
code, and TLC shows a behaviour of the code that contradicts it:

| Run | Stated | The code |
|---|---|---|
| `eqz_polarity` | `x == 0` tests for equality | opens to 1 if x is not zero (`mpcops.hpp:641-765`) |
| `ot_ignored` | a future may be ignored (`ot_manager.hpp:56-57`) | the destructor joins a worker that needs the loop which the destructor blocks |
| `replay_counters` | a recording can be replayed (`shares.hpp:18-19`) | `mul_ctr`, `and_ctr` are never initialised |
| `replay_extra` | left-over randomness is a mismatch (`mpcops_test.cpp:338-342`) | a replaying P2 skips the values that `mpc_and` recorded, so a correct replay throws |

### Conditions under which the properties hold

Some properties hold only under a condition that the code does not ensure. The
condition is part of the property, and worth knowing:

- `IntactWhenWhole`, `DotCorrect`: when a vector does not move in one transfer
  (Boost.Asio moves at most 64 KiB at a time, the kernel less), the data of the
  two vectors of a dot product interleave and land in the wrong vectors.
- `DotCorrect`: the three processes need the same AES key, which is the content
  of an uninitialised variable, and vectors of one length; P2 uses its vectors
  for the length only.
- `Ends`: two vectors that both exceed the socket buffers block
  `reconstruct_remote_vector` on both sides.
- `ReadyMeansPaired`, `EverybodyJoins`: a process that is killed after it has
  connected cannot be replaced, because its peer has moved on; with `main`'s open
  acceptors the new one waits in a backlog that nobody serves.
- `FirstReadCorrect`: the cancellation terms accumulate, so only the first read
  opens to a value that can be stated; with shares that are zero, as in
  `locoram_test`, the second read opens to zero, and one after a further update to
  neither value. `read(AShare)` lacks the term with the shared value. The flags are
  one per node and are read as one per leaf, so what the first read adds to the
  value is the word of a share at the index of P2's node, which is zero only if
  that share is.
- `ReplayIfCountersAgree`: every role truncates all four tapes when it starts to
  record, and P2 waits for nobody. A P0 or P1 that gets there after P2 has closed
  them empties the recording (`sealed` is false then), and the replay runs off the
  tapes. The counters have to agree by chance.
- `ReconstructCorrect`: the array is updated at the constant place and with the
  constant value of P2, not at the index and with the value that were shared,
  whose share of an index is compared with the array length.
- `FlagsAreUnitVector`, `IntervalMatchesEval`: for intervals of whole nodes from
  the first leaf, as every caller asks, or aligned powers of two.
- `AwaitedTermination`, `FuturesSettle`: each `send_batch` is followed by a call that
  transfers something (`BatchesFollowed`). `send_batch` does not flush; if it is the
  last call, the destructor's flush waits for its own event loop, and the peer's
  `recv_batch`, which an owner may await, for the seed that is never written.
- `PointCorrect`: for leaves of several nodes `gen` computes `% 0`
  (`dpf.hpp:127`), which a build may or may not survive.

### Bounds

- W is 2, 3 or 4 instead of 64. The algebra of the
  operations does not depend on it (proved); products wrap, W = 4 gives the OR
  tree two levels, and leaves two lanes of a block.
- Programs have one or two operations of a kind. Two suffice for the dealer to
  run ahead, and for a misaligned message to meet a step of another kind.
- One kill (`MaxCrashes`, `MaxKills`) where there is no recovery: what a second
  kill could add is a process that is gone as well. Three in `Connect`, so that
  each role, or one role several times, can be restarted.
- `Sizes` = {1, 2, 5, 6}: no layer, one, two and three; sizes that are no power
  of two; an odd number of nodes, so that the halves of the buffer are unequal.
- Four PRGs, which differ in the block that each child of a seed is mixed with,
  so that the advice bits of the children vary with the seed.
- `Cap` = 2, `Chunk` = 2: a vector of two words and its length exceed the
  buffer, and both parts can be split.
- OT transfers are of one message and a batch of two, which is where the index
  in the hash matters; two draws on each side.
- `Garbage` = {0, 1}: two values suffice for the counters to agree or differ.

Deadlock checking is off in all runs: every program ends, and an ended system
has no step. Hanging is what `Termination`, `Ends`, `EverybodyJoins` and
`FuturesSettle` exclude.

### Fairness

Weak fairness of each process's own step: an event loop runs every handler that
is ready, TCP delivers what was written, and a worker thread is scheduled.
Nothing is assumed of kills or of spurious wake-ups. In `MpcReplay` the operator
starts the next launch. In `Connect` nobody promises to start a process:
`EverybodyJoins` is about the behaviours in which all run from some time on.

## 4. Proofs

| Theorem | States | Module |
|---|---|---|
| `TypeCorrect`, `AlignedCorrect`, `CleanRunCorrect`, `IndInvCorrect` | `Spec => []P` for `TypeOK`, `Aligned`, `CleanRun`, `IndInv` of `MpcOps` | `MpcProofs` |
| `OperationsCorrect`, `ReconstructionCorrect` | `Spec => []OpCorrect`, `Spec => []OpenCorrect` | `MpcProofs` |
| `MulTapeCorrect` | the halves of a draw on the tapes give a correct product | `OperatorProofs` |
| `MpcImplements` | `Spec => ImplementsIdeal` | `MpcProofs` |
| `EqzCorrect` | `Spec => []EqzReportsNonzero`, for the program of `mpc_eqz` | `MpcProofs` |
| `OTTypeCorrect`, `NoLostWakeupCorrect`, `DrainedCorrect` | `TypeOK`, `NoLostWakeup`, `Drained` of `OTManager` | `OTProofs` |
| `OTOutputCorrect` | `Spec => []OutputCorrect` | `OTProofs` |
| `OTImplements` | `Spec => ImplementsIdealOT` | `OTProofs` |
| `ReplayTypeCorrect`, `MatchedCorrect`, `ReplayCorrect` | `TypeOK`, `Matched`, `ReplayIfCountersAgree` of `MpcReplay` | `ReplayProofs` |
| `DpfTypeCorrect`, `PathCorrect`, `PointFunctionCorrect` | `TypeOK`, `PathInvariant`, `PointCorrect` of `Dpf` | `DpfProofs` |
| `IntervalCorrect`, `UnitVectorCorrect` | `Spec => []IntervalMatchesEval`, `Spec => []FlagsAreUnitVector` | `DpfProofs` |
| `LocoramTypeCorrect`, `ReconstructionsCorrect`, `FirstReadsCorrect` | `TypeOK`, `ReconstructCorrect`, `FirstReadCorrect` of `Locoram` | `LocoramProofs` |
| `ConnectTypeCorrect`, `LabelsCorrect`, `PairedCorrect` | `TypeOK`, `LabelsRight`, `ReadyMeansPaired` of `Connect` | `ConnectProofs` |
| `VectorTypeCorrect`, `LengthsCorrect`, `IntactCorrect`, `AloneCorrect` | `TypeOK`, `LengthsRight`, `IntactWhenWhole`, `AloneIntact` of `VectorWire` | `VectorProofs` |
| `DotProductCorrect` | `Spec => []DotCorrect` | `VectorProofs` |

All hold for every value of the constants that satisfies the assumptions of the
module, each of which TLC evaluates in a run:

- `WordSize`, `PowersOfTwo`: W > 0, and the powers of two up to 2^W double. The
  provers know no exponentiation; the second is arithmetic, not a restriction.
- `ProgramAssumption`, `SampleAssumption` (`MpcOps`), `LocoramAssumption`,
  `ReplayAssumption`: operands come from earlier steps and have the right type;
  draws and inputs are words; a program updates before it reads.
- `PlansAssumption`, `AgreeAssumption` (`OTManager`): as long as both sides keep
  making calls that send something, they are written for each other, as
  `run_p0` and `run_p1` of `ot_tests.cpp` are.
- `OracleAssumption` (`OTManager`): the random oracle is defined for every point,
  index and seed that a call of the plan can hash.
- `CurveAssumption` (`SimplestOT`): a cyclic group of any order, draws that do not
  give the identity, any function as random oracle.
- `LayoutAssumption`, `DpfSampleAssumption`, `DepthAssumption` (`Dpf`): the leaf
  layouts of the code, any PRG, and the arithmetic of the depth of the tree.
- `ConnectAssumption`: the three programs there are, and any number of kills.
- `VectorAssumption`: inputs and expanded seeds are words and at least as long as
  the lengths that are tried; buffers and transfers hold at least one word.

### The operations (`MpcProofs`)

The argument has two layers.

*Flow*. `FlowInv` says of each of the four queues that it holds exactly the
messages for the steps between what the reader has read and what the writer has
written, in order and without a gap (`LinkOK`, with the lemmas `LinkRead`,
`LinkWrite`, `LinkSkipRead`, `LinkSkipWrite`, `LinkCut`). When a process dies the
queue loses a suffix and only "without a gap before what is left" remains, which
is why `LinkOK` has a parameter for whether the queue is complete. `Aligned`
follows: the head of a nonempty queue is the first step not yet read. `CleanRun`
follows: a reader whose peer has finished finds its message in the queue
(`NoIoError`).

*Data*. `Aligned` does not say what the messages contain. `WireContents`, `MatInv`
and `RegInv` say that every word in flight, in hand or in a register is a fixed
function (`Mat`, `Told`, `Output`) of the starting shares and of P2's draws.
`Stable` is the key lemma: those functions, once defined, do not change, because
registers and draws are only appended to. `OpCorrect` then needs no more than the
algebra of `OperatorProofs`: for `mpc_mul` the ring identity `MulAlgebra`, lifted
to residues by `ModAdd` and `ModMul`; for `mpc_and` and `mpc_or` set algebra.

### The refinement of `IdealOps` (`MpcProofs`)

`ValInv` strengthens the invariant: every value behind two completed shares is
one that the ideal machine may compute from the values before it; `BitInv` says
that the leaves of `mpc_eqz` are the bits of the mask. A step of either party then
completes a common step, which maps to a step of `IdealOps`, or leaves the mapped
sequence as it was. The mask is `Bits(c)` xor `Bits(r)`, where c is the opened
sum of secret and random word, and r the word that P2 dealt in bits. That it is
zero exactly if the secret is needs `Bits` to be injective on W-bit words
(`BitsInjective`, by induction over the bits). That the OR tree is 0 exactly if
all leaves are (`OrTree`) is shown by a least counterexample. `EqzCorrect` holds for every
W, with the tree as `EqzSteps` unfolds it; for W a power of two that is the
order of the code.

### The two OT managers (`OTProofs`)

One process first: `LocalInv` = `QueueOK` (the queue holds the calls after the one
the worker took last), `FuturesOK` (a future is pending exactly if its task is not
done), `ThreadsOK` (who is asleep, and what is then true of `running_` and the
queue), `TaskOK` (a task holds the variables that its next step reads) and
`SocketOK`. `NoLostWakeup`, `Drained` and `TypeOK` follow. Then both: `OTInv` adds
`WireInv`, which says how far each side has got with its call (`Phase`), that the
two are in the same call or one apart with the right messages in between
(`Lags`, `InSync`), and what those messages contain, and `ChosenOK`, what finished
calls delivered. The algebra of `SimplestOT` is one lemma, `PadsMatch`: the
receiver's bA is the sender's aB or aB - aA in a cyclic group of any order.

`OTImplements` needs more than what finished calls delivered: that the peer had
made its call by then, and that nobody fails without a cause. Once a socket is
closed `WireInv` only says what the messages left to read contain (`LeftOver`),
so `RefInv` adds to `OTInv`, for each side: `SourceOK` (whatever is
left to read comes from a call that the peer has made, also when it has gone;
the seed belongs to the pads that it was given), `PadsOK` (`send_batch` delivered
pairs of blocks), `StopOK` (an owner stops early only after an exception) and
`BlameOK` (without a kill, an exception and a socket that is closed early follow a
faulty call, and a peer whose owner has finished leaves everything that the
other side needs, `Alone`). `SourceOK` follows from `InSync` while both sockets are
open and is preserved by itself afterwards (`SourceCut`, `OwnSource`). `FailBlame`
is the core: in each place where a task can throw, a kill or a faulty call is
found. `StepIdeal` then maps a submission to `Make`, a kill to `Die`, a task's
last step to `Deliver` or `Fail`, and everything else to a stutter. The arms of
`Outcomes` of `IdealOT` had overlapped, which TLC resolves by their order and the
semantics of CASE does not; they are now disjoint.

### The tapes (`ReplayProofs`)

`ReplayInv` = `TapeInv` (types; where each role stands; what is on disk, in a
buffer or lost; which launch a record stems from; how far each reader is) with
`RandOK` (P2's own file), `Closes` (the order in which streams reach the disk),
and `Replaying` (what a replay of a sealed recording has used so far, and why a
process that threw did so: one was killed, or the counters differ). Nothing is counted: the
steps that a tape covers are named by its records, and a reader's position is
described by the records behind and ahead of it.

The proof changed two statements. A kill can come before a process has opened
its files, and a sequence of launches can begin with a replay, so a recording to be
replayed has to exist for each role (`made = Roles`) as well as be sealed; and
`Matched` says which launch the material stems from only for fewer than three kills.
One kill did not reach the difference; with three TLC shows it.

### The DPF (`DpfProofs`)

`gen` keeps only the two nodes it has reached, and `eval` walks a path that is in
no variable. So `DpfInv` says that there EXISTS a path of pairs of nodes that
explains the correction words: each pair comes from the one before by the PRG
and the correction word, and their advice bits differ (`Path`; `Making` while `gen`
is at it, `Made` afterwards). The central lemma is `LayerCorrects`: off the path
the two children become equal and stay so, on it the advice bits differ again.
`RoundTrip` takes the keys through serialisation; `BitFacts` and `SameLeaf` say
which inputs share the target's node, and `Lanes` and `LeafOnPath` that the
finalizer puts the value into the target's lane and nothing into the others.

`__evalinterval` is about places in a buffer. `Place(l, x)` is the index of the
node above leaf x among those of the interval on layer l, and `Walk(p, x)` the
nodes that `eval` passes on its way to x, the recursive function of `EvalNode`,
which is first shown to exist (`WalkFacts`). The invariant `LayersOK` says of
every leaf of the interval that the layer being read still holds its node if the
loop has not come to it (`Reading`), that the other layer holds the child if it
has (`Written`), and that in the end the output holds its words (`Output`).
`PlaceFacts` shows that the loop bounds of the code, computed from the number of
nodes, are those of the places, for an interval that starts at 0 or is an aligned
power of two; `DirFacts` that the one child left out at an edge is outside the
interval; `Apart` that a write never hits a node that is still to be read: the
nodes of a layer are at most half of those of the next, rounded up, and the
layers alternate between the start and the middle of the buffer, the last one being
at the start. `SeedsBehind`
is the same for `finalize` in place. For the unit vector, `WalkOnPath` relates the
walks of the two parties to the path of the keys, by induction over the layers.

### Locoram (`LocoramProofs`)

`FlowInv` is the flow argument of `MpcProofs` for the queues of keys and of halves.
A P2 that throws may have sent one of two keys, which is why the bound for the
keys dealt, `DealtTo`, moves on by one then. When a party reads its peer's half of
a reconstruction, the array it was taken from is gone, so `History` says that there
EXIST a key per update and an array per party and step such that the arrays
follow from the keys (`Arrays`), the keys and halves in flight are theirs (`Keyed`,
`Told`) and what was reconstructed is the sum of two arrays of one step (`Got`).
`ArraysSum`, by induction over the steps, identifies that sum with the array of
the specification. The bits of a read are gone as well when both parties have
completed it, so `Flagged` says that there EXIST bits for each step that the keys in
flight carry, as they are for P0 and flipped at P2's node for P1 (`Marked`), and from
which the result of the first read follows (`First`): the selection from share and
from blind differ by that from what was stored (`DotXor`), and the selections of the
two parties by one word (`DotFlip`). Both rest on `OddSymmetric`, the parity of the
size of a symmetric difference.

### Connection set-up (`ConnectProofs`)

The scripts are concatenations of the code's calls; `Scripts` spells them out and
`Table` reads off, for every program, role and step, how many sockets the role
has and on which ports it listens (`Counts`, `Listens`). `ConnectInv` says that a
process has what the table says (`Places`) and that the port of a connection
determines its two roles and which of their sockets it is (`Sockets`, `Backlogs`);
`LabelsRight` follows. A restarted process is told from its predecessor by the
number of kills, so `Ends` can say of each connection that it is held at both
ends, or waits in a backlog, or has an end that is gone and is in `dead`.
`ReadyMeansPaired` follows because a role that is ready listens nowhere, but for
P2 in `main`: there a connection that still waits has the port of one that P2 has
accepted, whose client was therefore killed (`LeftBehind`).

### Vectors and the dot product (`VectorProofs`)

Two invariants, because two kinds of statement are made. `LooseInv` holds however
the transfers are cut up, when the words of two vectors may be mixed: `Given` and
`Control` (what was drawn, how far a party is with its plan), `Types`, and per
direction `Link`, which counts how many lengths have been written and read. A
length is a block of its own and moves at once, and an operation that is not
done goes behind the others, so both lengths precede all data (`Wire`) and
`LengthsRight` follows. `OrderInv` holds while nothing was cut up, or where a
direction has one vector: everything a direction will ever carry is a fixed text
(`Text`: the lengths, then the data), of which the queue of writes is what comes
after the w-th word (`Wrote`), the reads and the vectors read what comes before
the r-th (`HasRead`), and the stream what is between (`Flow`). `IntactWhenWhole` and
`AloneIntact` follow.

`Ended` says that a result is `z(p)` of the state in which it is looked at. The rest
is algebra: `Times`, a sum of wrapped partial sums, is commutative, and
distributes over `Plus` modulo 2^W (by induction over the partial sums;
`TimesSums` first shows that the recursive function is well defined), and
`DotAlgebra` multiplies the two shares out.

### Induction

The library's induction theorems take an operator as a parameter, which these
provers cannot instantiate. `OperatorProofs` proves `Least` (a nonempty set of
numbers has a least element) from the well-foundedness of `<`, and from it
`Induction` about a SET of numbers; the uses above are instances of these.

### Only model-checked

Liveness (`Termination`, `Ends`, `EverybodyJoins`, `FuturesSettle`,
`AwaitedTermination`), which is out of the prover's reach. Every other property
that a passing run checks is also stated by a theorem.

## 5. Not modelled

- `libOTe`, a vendored library that is by far the largest part of the tree (some
  80000 of its lines). The program calls `SimplestOT` only, which is modelled;
  coproto sockets are modelled from their use. The rest (other OT and VOLE
  protocols, circuits, codes) is never reached.
- Draws for which a multiplication on the curve gives the identity, on which
  libsodium's wrapper throws: `CurveAssumption` excludes them.
- `doram.*`, an earlier variant of Locoram that no target includes;
  `mpcops_old.hpp`, `shares_old.hpp`, `common.hpp`, superseded.
- `mpc/dpf`, an older code base with its own Makefile: single-threaded
  experiments that print what they compute on a copy of `dpf.hpp`.
- The AES cipher: PRG is any function, which is what correctness needs of it.
- The element-wise operators of `XorShareVector`, `AdditiveShareVector` and `mX`
  that no protocol uses; `make_client` and `NetContext`, which have no caller.
- The secrecy of shares: the properties here are about correctness.
- The polling in `await_future` (the timer is created with a constant that is
  not a delay, so the wait is a busy one); here the owner goes on once the future
  is ready.
- `send_batch` and `recv_batch` with empty vectors, which print an element that is
  not there: excluded by `PlansAssumption`.
- Reads and writes past a buffer: `Ref::read` prints eight elements whatever the
  length of the array (`locoram.tpp:328,433`), and `finalize` writes whole nodes,
  so for packed leaves and an odd number of items one leaf past the end of the
  output. `Intervals` and `nitems` leave these cases out.
- Recording and replaying in a directory for each role: P0 and P1 would read the empty
  tapes that they made themselves.
- Recordings of more material than the buffer of a stream holds, part of which would
  reach the disk before the stream is closed.
- The bytes of a word: in `VectorWire` a transfer is cut between words, never within
  a length.
- Errors of a write to a peer that has closed its socket: in `OTManager` such a write
  is lost and the read after it fails. That happens only after a kill or a call that
  one side got wrong.
- Process failure while a vector is in transfer: `MpcOps` and `Locoram` have it
  for whole messages.
- After a kill the destructor's flush may block; `AwaitedTermination` of
  `OTManager` is claimed for runs without a kill.

## 6. Plan

1. Done: `Words`, `MpcOps` and its proofs, `MpcReplay`, `OTManager`.
2. Done: `VectorWire`, `Connect`, `Dpf`, `Locoram`, and the abstract
   specifications `IdealOps` and `IdealOT` with their refinements.
3. Done: proofs about `OTManager` and `SimplestOT`, `MpcReplay`, `Dpf`, `Locoram`,
   `Connect`, `VectorWire`, and the refinements of `IdealOps` and `IdealOT`.
4. Left: proofs of the liveness properties, once the prover supports them.
