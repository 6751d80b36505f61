-------------------------- MODULE OTImplementsIdeal --------------------------
(***************************************************************************)
(* OTManager implements IdealOT: the calls and the futures are its own,    *)
(* everything else is hidden.                                              *)
(***************************************************************************)
EXTENDS OTManager

Ideal == INSTANCE IdealOT WITH script <- Script, killed <- (kills > 0)

\* Two worker threads, their queues and their socket do what a trusted party
\* would: a receiver gets the message it chose, a future is set once and in the
\* order of the calls, nothing is delivered before the peer has made its call,
\* and a call fails only after a kill or a call that one side got wrong.
ImplementsIdealOT == Ideal!Spec
=============================================================================
