--------------------------- MODULE AnalyzerSession ---------------------------
(***************************************************************************)
(* The conversation with a language server over three bounded pipes: one   *)
(* loop writes frames, reads answers and reads the log, none of them ever  *)
(* blocking, under a token, the deadline of the phase and that of the      *)
(* session.  Every fault kills the server; the end is a handshake, a       *)
(* bounded wait, and then a kill.  A kill may fail: the wait that follows  *)
(* it is the one call that blocks.                                         *)
(*                                                                         *)
(* The server is external: it is single-threaded, blocks on a full pipe,   *)
(* and keeps the protocol except for MaxFaults misdeeds.                   *)
(***************************************************************************)
EXTENDS Naturals, Sequences

CONSTANTS
  Asked,           (* the kinds of question a caller asks                  *)
  PipeRoom,        (* what a pipe holds: frames, or parts of a long one    *)
  Chatter,         (* what the server says unasked                         *)
  MaxSaid,         (* bound: messages the server sends unasked             *)
  MaxFaults        (* bound: misdeeds of the server, failed kills and waits *)

ASSUME AnalyzerAssumption ==
  /\ Asked \subseteq {"workspace", "document", "references"}
  /\ Chatter \subseteq {"note", "request", "log", "status"}
  /\ PipeRoom \in Nat \ {0} /\ MaxSaid \in Nat /\ MaxFaults \in Nat

VARIABLES
  todo,            (* the rest of the conversation                         *)
  pc,              (* where the loop over the pipes is                     *)
  out,             (* the frame being written, its parts left, its purpose *)
  inbox,           (* decoded messages nobody has looked at                *)
  ids,             (* the correlator                                       *)
  child,           (* what this side knows of the process and of its pipes *)
  outcome,         (* of the question: open, answered or failed            *)
  stop,            (* how the finished session says it ended               *)
  toPeer, fromPeer, log,
  peer,            (* the server                                           *)
  hurried,         (* the token the caller set, a deadline that was seen    *)
  said, faults

pipes == <<toPeer, fromPeer, log>>
verdict == <<outcome, stop>>
clientVars == <<todo, pc, out, inbox, ids, child, hurried>>
world == <<peer, said, faults>>
vars == <<clientVars, verdict, pipes, world>>

Plain(kind) == [kind |-> kind, id |-> 0, says |-> "ok"]
(* A document is longer than a pipe has room for.                          *)
Parts(kind) == IF kind = "didOpen" THEN PipeRoom + 1 ELSE 1

(* The conversation: one item per request, notification or wait.  A fresh  *)
(* item begins a phase with its time in full, another has what is left.    *)
Item(do, kind, fresh) == [do |-> do, kind |-> kind, fresh |-> fresh]
Opening == <<Item("ask", "initialize", TRUE), Item("tell", "initialized", FALSE),
             Item("ready", "status", FALSE)>>
Document == Item("tell", "didOpen", TRUE)
Question(asked) ==
  CASE asked = "workspace" -> <<Item("ask", "query", TRUE)>>
    [] asked = "document" -> <<Document, Item("ask", "query", TRUE)>>
    [] asked = "references" ->
         <<Document, Item("ask", "query", FALSE), Item("ask", "query", FALSE)>>
Goodbye == <<Item("ask", "shutdown", TRUE), Item("tell", "exit", TRUE)>>
This == Head(todo)

Silence == [frame |-> Plain("none"), left |-> 0]
Sending == out.frame.kind # "none"

Init ==
  /\ \E asked \in Asked : todo = Opening \o Question(asked)
  /\ pc = "begin" /\ out = Silence /\ inbox = <<>>
  /\ ids = [last |-> 0, outstanding |-> {}, responded |-> {}]
  /\ child = [fatal |-> "none", reaped |-> FALSE, stdin |-> TRUE, eof |-> FALSE,
              handshake |-> "none"]
  /\ outcome = "open" /\ stop = "none" /\ hurried = {}
  /\ toPeer = <<>> /\ fromPeer = <<>> /\ log = 0
  /\ peer = [up |-> TRUE, code |-> "none", todo |-> <<>>, leaving |-> FALSE,
             deaf |-> FALSE, mute |-> FALSE, hung |-> FALSE, unwilling |-> FALSE]
  /\ said = 0 /\ faults = 0

-----------------------------------------------------------------------------
(* The client.                                                             *)

(* kill_and_reap: the signal may not be sent, the wait may not confirm the *)
(* end; either is a fault.                                                 *)
Kill(sent, waited, fault) ==
  /\ peer' = IF sent THEN [peer EXCEPT !.up = FALSE, !.code = IF peer.up THEN "killed" ELSE @]
             ELSE peer
  /\ IF sent /\ waited /\ ~fault THEN UNCHANGED faults
     ELSE faults < MaxFaults /\ faults' = faults + 1

(* fail: the server is killed.  Nothing is sent or taken any more; close   *)
(* only waits.                                                             *)
Fail(reason) ==
  /\ \E sent, waited \in BOOLEAN :
       /\ Kill(sent, waited, FALSE)
       /\ child' = [child EXCEPT !.fatal = reason, !.stdin = FALSE,
                                !.reaped = sent /\ waited]
       /\ pc' = IF waited /\ ~sent THEN "held" ELSE "leave"
  /\ todo' = <<>>
  /\ outcome' = IF outcome = "open" THEN "failed" ELSE outcome
  /\ UNCHANGED <<out, inbox, ids, stop, pipes, said>>

(* The handshake is over, or there is none: stdin is closed.               *)
Leave(handshake) ==
  /\ pc' = "leave" /\ todo' = <<>>
  /\ child' = [child EXCEPT !.stdin = FALSE, !.handshake = handshake]

(* close: a handshake, unless the peer left.                               *)
Close(result) ==
  /\ outcome' = result /\ UNCHANGED stop
  /\ IF child.eof THEN Leave("none")
                  ELSE pc' = "begin" /\ todo' = Goodbye /\ UNCHANGED child

NextItem == todo' = Tail(todo) /\ pc' = "begin" /\ UNCHANGED <<child, verdict>>
Stay(at) == pc' = at /\ UNCHANGED <<todo, child, verdict>>

Begin ==
  /\ pc = "begin"
  /\ IF This.do = "ready" THEN Stay("pop") /\ UNCHANGED <<out, ids>>
     ELSE /\ Stay("guard")
          /\ ids' = IF This.do = "ask" THEN [ids EXCEPT !.last = @ + 1] ELSE ids
          /\ out' = [frame |-> [Plain(This.kind) EXCEPT !.id = ids'.last],
                     left |-> Parts(This.kind)]
  /\ UNCHANGED <<inbox, pipes, world, hurried>>

Shut == ~peer.up \/ peer.mute
Broken == \E i \in DOMAIN fromPeer : fromPeer[i].kind = "broken"
WriteDies == Sending /\ (~peer.up \/ peer.deaf)
EndOfStream == ~Sending /\ child.eof

(* guard: the token first.                                                 *)
Guarded == pc = "guard" /\ "cancelled" \notin hurried
Cancelled ==
  /\ pc = "guard" /\ "cancelled" \in hurried
  /\ Fail("cancelled") /\ UNCHANGED hurried

(* A broken write is the peer's end of file if that is what a read finds.  *)
WriteDied ==
  /\ Guarded /\ WriteDies
  /\ Fail(IF Broken THEN "codec" ELSE IF Shut \/ child.eof THEN "eof" ELSE "io")
  /\ UNCHANGED hurried

(* An answer that is still owed makes the end of the stream a fault.       *)
Eof ==
  /\ Guarded /\ EndOfStream
  /\ \/ This.do = "ask" /\ Fail("eof")
     \/ This.do = "ready" /\ Close("failed") /\ UNCHANGED <<out, inbox, ids, pipes, world>>
  /\ UNCHANGED hurried

Write ==
  /\ Guarded /\ ~WriteDies /\ ~EndOfStream /\ Stay("read")
  /\ IF out.left > 0 /\ Len(toPeer) < PipeRoom
     THEN /\ out' = [out EXCEPT !.left = @ - 1]
          /\ toPeer' = Append(toPeer, [message |-> out.frame, last |-> out.left = 1])
     ELSE UNCHANGED <<out, toPeer>>
  /\ UNCHANGED <<inbox, ids, fromPeer, log, world, hurried>>

(* Fault: what is there to read waits until the frame is written.          *)
ReadWhenIdle ==
  /\ pc = "read" /\ UNCHANGED hurried
  /\ IF Broken THEN Fail("codec")
     ELSE /\ pc' = "clock"
          /\ IF Sending /\ out.left > 0 THEN UNCHANGED <<inbox, fromPeer, log, child>>
             ELSE /\ inbox' = inbox \o fromPeer /\ fromPeer' = <<>> /\ log' = 0
                  /\ child' = [child EXCEPT !.eof = @ \/ Shut]
          /\ UNCHANGED <<todo, out, ids, verdict, toPeer, world>>

(* read_stdout and read_stderr: everything that is there, and the end.     *)
Read ==
  /\ pc = "read" /\ UNCHANGED hurried
  /\ IF Broken THEN Fail("codec")
     ELSE /\ inbox' = inbox \o fromPeer /\ fromPeer' = <<>> /\ log' = 0
          /\ child' = [child EXCEPT !.eof = @ \/ Shut] /\ pc' = "clock"
          /\ UNCHANGED <<todo, out, ids, verdict, toPeer, world>>

(* The end of one pass: the frame is out, there is something to look at,   *)
(* or once more.                                                           *)
Sent == Sending /\ out.left = 0
Again ==
  /\ pc = "clock"
  /\ IF ~Sent THEN Stay(IF Sending THEN "guard" ELSE "pop") /\ UNCHANGED <<out, ids>>
     ELSE /\ out' = Silence
          /\ ids' = IF This.do = "ask" /\ out.frame.kind = This.kind
                    THEN [ids EXCEPT !.outstanding = @ \cup {ids.last}] ELSE ids
          /\ IF This.do # "tell" THEN Stay("pop")
             ELSE IF This.kind = "exit" THEN Leave("complete") /\ UNCHANGED verdict
             ELSE NextItem
  /\ UNCHANGED <<inbox, pipes, world, hurried>>

-----------------------------------------------------------------------------
(* next_event_until and what the lifecycle does with an event.             *)

Answered(says) ==
  CASE This.kind = "shutdown" /\ says = "ok" -> NextItem
    [] This.kind = "shutdown" /\ says # "ok" -> Leave("refused") /\ UNCHANGED verdict
    [] This.kind # "shutdown" /\ says # "ok" -> Close("failed")
    [] OTHER -> IF Len(todo) > 1 THEN NextItem ELSE Close("answered")

(* A status counts only while readiness is awaited.                        *)
Status(says) ==
  CASE This.do # "ready" -> Stay("pop")
    [] This.do = "ready" /\ says = "error" -> Close("failed")
    [] This.do = "ready" /\ says = "busy" -> Stay("begin")
    [] OTHER -> NextItem

Took(m) ==
  /\ pc = "pop" /\ inbox # <<>> /\ m = Head(inbox)
  /\ UNCHANGED hurried
Quietly == inbox' = Tail(inbox) /\ UNCHANGED <<pipes, world>>

(* Correlator::accept: a second answer is dropped, one to no request kills.*)
Match(id) == ids' = [ids EXCEPT !.outstanding = @ \ {id}, !.responded = @ \cup {id}]
TakeResponse(m) ==
  /\ Took(m) /\ m.kind = "response"
  /\ CASE m.id \in ids.responded -> Stay("pop") /\ UNCHANGED <<out, ids>> /\ Quietly
       [] m.id \in ids.outstanding -> Match(m.id) /\ Answered(m.says) /\ UNCHANGED out /\ Quietly
       [] OTHER -> Fail("codec")

(* A request of the server is refused inside the wait it interrupts; what  *)
(* is not a status is dropped.                                             *)
TakeOther(m) ==
  /\ Took(m) /\ m.kind # "response" /\ Quietly /\ UNCHANGED ids
  /\ CASE m.kind = "request" -> Stay("guard") /\ out' = [frame |-> Plain("refusal"), left |-> 1]
       [] m.kind = "status" -> Status(m.says) /\ UNCHANGED out
       [] OTHER -> Stay("pop") /\ UNCHANGED out

TakeNone ==
  /\ pc = "pop" /\ inbox = <<>> /\ Stay("guard")
  /\ UNCHANGED <<out, inbox, ids, pipes, world, hurried>>

Take ==
  \/ TakeNone
  \/ inbox # <<>> /\ (TakeResponse(Head(inbox)) \/ TakeOther(Head(inbox)))

-----------------------------------------------------------------------------
(* close, after the handshake: wait_for_exit and classify_stop.            *)

(* Fault: a server that was to be killed has ended.                        *)
StopUnreaped(code, reaped) ==
  CASE child.fatal \in {"cancelled", "timeout", "eof"} -> child.fatal
    [] child.fatal = "none" /\ child.eof /\ child.handshake # "complete" -> "eof"
    [] OTHER -> IF code = "exit" /\ child.fatal = "none" THEN "exited" ELSE "killed"

Stop(code, reaped) ==
  CASE ~reaped -> "kill_uncertain"
    [] reaped /\ child.fatal # "none" ->
         IF child.fatal \in {"cancelled", "timeout", "eof"} THEN child.fatal ELSE "killed"
    [] reaped /\ child.fatal = "none" /\ child.eof /\ child.handshake # "complete" -> "eof"
    [] OTHER -> IF code = "exit" THEN "exited" ELSE "killed"

Finish(code, reaped) ==
  /\ pc' = (IF reaped THEN "done" ELSE "drop") /\ stop' = Stop(code, reaped)
  /\ child' = [child EXCEPT !.reaped = reaped]
  /\ UNCHANGED <<todo, out, inbox, ids, outcome, pipes, said>>

(* A process that is killed here has no code of its own.                   *)
LastKill(fault) ==
  \E sent, waited \in BOOLEAN :
    /\ Kill(sent, waited, fault)
    /\ IF waited /\ ~sent
       THEN Stay("kept") /\ UNCHANGED <<out, inbox, ids, pipes, said>>
       ELSE Finish("none", sent /\ waited)

(* The server is seen to have left, or cannot be asked about and is killed.*)
Wait ==
  /\ pc = "leave" /\ UNCHANGED hurried
  /\ \/ ~peer.up /\ Finish(peer.code, TRUE) /\ UNCHANGED <<peer, faults>>
     \/ ~child.reaped /\ LastKill(TRUE)
     \/ peer.up /\ Stay("drain") /\ UNCHANGED <<out, inbox, ids, pipes, world>>

(* The guard of the process: whoever was not seen to end is killed again.  *)
Drop ==
  /\ pc = "drop"
  /\ \E sent, waited \in BOOLEAN :
       Kill(sent, waited, FALSE) /\ Stay(IF waited /\ ~sent THEN "lost" ELSE "done")
  /\ UNCHANGED <<out, inbox, ids, pipes, said, hurried>>

(* The wait for a process that no signal reached: in fail, in the wait for *)
(* the exit, in the guard.                                                 *)
Blocked == {"held", "kept", "lost"}
Reap ==
  /\ pc \in Blocked /\ ~peer.up /\ UNCHANGED <<peer, faults, hurried>>
  /\ IF pc = "kept" THEN Finish("none", TRUE)
     ELSE /\ pc' = (IF pc = "held" THEN "leave" ELSE "done")
          /\ child' = [child EXCEPT !.reaped = TRUE]
          /\ UNCHANGED <<todo, out, inbox, ids, verdict, pipes, said>>

(* drain_quietly, while there is time.  The server may have left meanwhile.*)
Drain ==
  /\ pc = "drain" /\ pc' = "leave" /\ fromPeer' = <<>> /\ log' = 0
  /\ child' = [child EXCEPT !.eof = @ \/ Shut]
  /\ UNCHANGED <<todo, out, inbox, ids, verdict, toPeer, world, hurried>>

-----------------------------------------------------------------------------
(* The token and the deadlines, at the places that look at them.           *)

(* Bound: only guard looks at the token, so that it is set there.          *)
Cancel ==
  /\ pc = "guard" /\ hurried' = hurried \cup {"cancelled"}
  /\ UNCHANGED <<todo, pc, out, inbox, ids, child, verdict, pipes, world>>

(* Fault: the wait for the exit has no end of its own.                     *)
RunOutExchange ==
  /\ hurried' = hurried \cup {"timeout"}
  /\ \/ Guarded /\ Fail("timeout")
     \/ pc = "clock" /\ ~Sent /\ (Sending \/ (inbox = <<>> /\ ~child.eof)) /\ Fail("timeout")
     \/ /\ pc = "begin" /\ ~This.fresh /\ Close("failed")
        /\ UNCHANGED <<out, inbox, ids, pipes, world>>

(* The session's in guard, the phase's when nothing moved on, when its     *)
(* next item begins, and in the wait for the exit, whose process is killed.*)
RunOut ==
  /\ hurried' = hurried \cup {"timeout"}
  /\ \/ Guarded /\ Fail("timeout")
     \/ pc = "clock" /\ ~Sent /\ (Sending \/ (inbox = <<>> /\ ~child.eof)) /\ Fail("timeout")
     \/ /\ pc = "begin" /\ ~This.fresh /\ Close("failed")
        /\ UNCHANGED <<out, inbox, ids, pipes, world>>
     \/ pc = "drain" /\ LastKill(FALSE)

Work ==
  \/ Begin \/ Cancelled \/ WriteDied \/ Eof \/ Write \/ Read \/ Again \/ Take
  \/ Wait \/ Drain \/ Drop \/ Reap

-----------------------------------------------------------------------------
(* The server.                                                             *)

Idle == UNCHANGED <<clientVars, verdict>>
Running == peer.up /\ ~peer.hung
Reply(id, says) == [kind |-> "response", id |-> id, says |-> says]

(* What it sends back for a message it has read in full.                   *)
Replies(m) ==
  CASE m.kind \in {"initialize", "query"} -> {<<Reply(m.id, "ok")>>, <<Reply(m.id, "error")>>}
    [] m.kind = "shutdown" -> {<<Reply(m.id, "ok")>>}
    [] m.kind = "initialized" ->
         {<<[Plain("status") EXCEPT !.says = s]>> : s \in {"ok", "error"}}
    [] OTHER -> {<<>>}

PeerRead ==
  /\ Running /\ ~peer.deaf /\ peer.todo = <<>> /\ toPeer # <<>>
  /\ toPeer' = Tail(toPeer) /\ Idle /\ UNCHANGED <<fromPeer, log, said, faults>>
  /\ LET part == Head(toPeer) IN
     IF ~part.last THEN UNCHANGED peer
     ELSE \E reply \in Replies(part.message) :
            peer' = [peer EXCEPT
              !.todo = reply, !.leaving = @ \/ part.message.kind = "exit",
              !.unwilling = @ \/ (reply # <<>> /\ reply[1].says = "error")]

(* It blocks on a full pipe.                                               *)
PeerWrite ==
  /\ Running /\ peer.todo # <<>>
  /\ LET m == Head(peer.todo) IN
     IF m.kind = "log"
     THEN log < PipeRoom /\ log' = log + 1 /\ UNCHANGED fromPeer
     ELSE /\ Len(fromPeer) < PipeRoom /\ UNCHANGED log
          /\ fromPeer' = IF peer.mute THEN fromPeer ELSE Append(fromPeer, m)
  /\ peer' = [peer EXCEPT !.todo = Tail(@)]
  /\ Idle /\ UNCHANGED <<toPeer, said, faults>>

PeerLeave ==
  /\ Running /\ peer.todo = <<>>
  /\ IF peer.leaving
     THEN peer' = [peer EXCEPT !.up = FALSE, !.code = "exit"]
     ELSE ~child.stdin /\ toPeer = <<>> /\ peer' = [peer EXCEPT !.leaving = TRUE]
  /\ Idle /\ UNCHANGED <<pipes, said, faults>>

(* Progress, a status, logs and requests of its own, before whatever else  *)
(* it has to say.                                                          *)
Say(m) == peer' = [peer EXCEPT !.todo = <<m>> \o @]
Chat ==
  /\ Running /\ said < MaxSaid /\ said' = said + 1
  /\ \E kind \in Chatter :
       Say([Plain(kind) EXCEPT !.says = IF kind = "status" THEN "busy" ELSE "ok"])
  /\ Idle /\ UNCHANGED <<pipes, faults>>

Misbehave ==
  /\ peer.up /\ faults < MaxFaults /\ faults' = faults + 1
  /\ \/ Say(Plain("broken"))
     \/ \E id \in 0..ids.last + 1, says \in {"ok", "error"} : Say(Reply(id, says))
     \/ \E code \in {"exit", "signal"} :
          peer' = [peer EXCEPT !.up = FALSE, !.code = code]
     \/ peer' = [peer EXCEPT !.mute = TRUE]
     \/ peer' = [peer EXCEPT !.deaf = TRUE]
     \/ peer' = [peer EXCEPT !.hung = TRUE]
  /\ Idle /\ UNCHANGED <<pipes, said>>

Server == PeerRead \/ PeerWrite \/ PeerLeave
(* The session is over, or its wait goes on.                               *)
Ended == (pc = "done" \/ (pc \in Blocked /\ peer.up)) /\ UNCHANGED vars

Next == Work \/ Cancel \/ RunOut \/ Server \/ Chat \/ Misbehave \/ Ended

Spec == Init /\ [][Next]_vars

(* Both sides are scheduled; only a fault makes the server stop.           *)
FairSpec == Spec /\ WF_vars(Work) /\ WF_vars(Server)
===============================================================================
