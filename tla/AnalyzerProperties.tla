-------------------------- MODULE AnalyzerProperties -------------------------
(* What the conversation with the language server promises.                *)
EXTENDS AnalyzerSession

(* The summary is true of the process from the moment it is made: nothing  *)
(* is said to have ended that still runs; a cancellation was asked for and *)
(* a timeout had a deadline; only a server that broke off is said to have  *)
(* done so; and an exit is the server's own, without a fault, after the    *)
(* farewell.  There the documentation claims more than the code and this   *)
(* property: Exited is also said of a server that refused the shutdown and *)
(* left (classify_stop, lsp_session.rs:228; SessionStop, analyzer.rs:1725).*)
StopIsTrue ==
  /\ stop \notin {"none", "kill_uncertain"} => ~peer.up
  /\ stop \in {"cancelled", "timeout"} => stop \in hurried
  /\ stop = "eof" => faults > 0
  /\ stop = "exited" => /\ peer.code = "exit" /\ child.fatal = "none"
                        /\ child.handshake \in {"complete", "refused"}

(* The pipes never lock the two sides against each other: a server that    *)
(* keeps the protocol and is not hurried is asked, answers and leaves on   *)
(* its own, whatever it says in between and however little a pipe holds    *)
(* (send, lsp_session.rs:361; drain_quietly, :665).                        *)
PeaceIsEnough ==
  <>(\/ faults > 0 \/ hurried # {}
     \/ stop = "exited" /\ (outcome = "answered" \/ peer.unwilling))

(* Whatever the server does, also nothing at all, the session ends as long *)
(* as time passes, unless it waits for a process that no signal reaches    *)
(* and that does not end: "nothing here ever blocks" (lsp_session.rs:16)   *)
(* is true of the pipes, not of the wait after a failed kill (:644).       *)
EndsInTime == (SF_vars(RunOut) /\ []<>(pc \notin Blocked)) => <>(pc = "done")
===============================================================================
