---------------------------- MODULE MCConcurrent ----------------------------
(***************************************************************************)
(* Channels, and promises and futures, in one run: they share no state, and *)
(* one of them moves.  In the other no thread has made a call, so none of   *)
(* its fair steps can be taken.                                             *)
(***************************************************************************)
EXTENDS Channel

VARIABLES part, promise, get, completed, index, results

\* A map of an input, which is in the group beside the other input.
F == INSTANCE Futures WITH
  Inputs <- {"a", "b"}, Mapped <- {"m"}, MapOf <- [m \in {"m"} |-> "a"],
  Group <- <<"m", "b">>, Whole <- "all", AllWorkers <- {"w1", "w2"}, Callers <- {"t"},
  Values <- {"x"}, Func <- [v \in {"x"} |-> "y"]

futures == <<promise, get, completed, index, results>>

MCInit == part \in {"channel", "futures"} /\ Init /\ F!Init

MCNext ==
  \/ part = "channel" /\ Next /\ UNCHANGED <<part, futures>>
  \/ part = "futures" /\ F!Next /\ UNCHANGED <<part, vars>>

MCSpec ==
  /\ MCInit /\ [][MCNext]_<<part, vars, futures>>
  /\ Fairness /\ F!Fairness

(* Whoever waits for a future returns, maps and groups complete, and what  *)
(* they set is neither early nor mixed up.                                 *)
FuturesComplete == F!FuturesComplete
=============================================================================
