-------------------------------- MODULE Fifo --------------------------------
(***************************************************************************)
(* One direction of a TCP connection, as the invariants see it: a sequence *)
(* of messages, each carrying as k the step of the program it belongs to.  *)
(***************************************************************************)
EXTENDS Integers, Sequences

\* A sequence whose elements need not have a common type.
IsSeq(s) == Len(s) \in Nat /\ s = [i \in 1 .. Len(s) |-> s[i]]

\* Queue w holds messages for steps of S in lo .. hi-1, in order, without a gap
\* before any of them and, if it is full, without one after.
LinkOK(w, lo, hi, S, full) ==
  /\ \A i \in 1 .. Len(w) : w[i].k \in S /\ w[i].k \in lo .. (hi - 1)
  /\ \A i, j \in 1 .. Len(w) : i < j => w[i].k < w[j].k
  /\ \A j \in S :
       /\ j >= lo
       /\ (j < hi /\ full) \/ \E i \in 1 .. Len(w) : j < w[i].k
       => \E i \in 1 .. Len(w) : w[i].k = j
=============================================================================
