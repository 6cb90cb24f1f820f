------------------------------ MODULE Admission ------------------------------
(***************************************************************************)
(* The transport's admission policy over the protocol library: a permit    *)
(* for every request and every notification in dispatch, a ledger of the   *)
(* requests that are outstanding under their id, a lease that follows a    *)
(* request into the send of its response, and a failure that ends the      *)
(* session.                                                                *)
(*                                                                         *)
(* receive and the first half of send run on the one runtime thread and    *)
(* are atomic; a send then completes, fails or is dropped on its own.  The *)
(* peer chooses what arrives when, and reuses an id as soon as it likes.   *)
(* What the library does between them is modelled from the comments and    *)
(* tests of the transport: it cancels the request an id names, suppresses  *)
(* the response of a cancelled request, and stops on a failure.  Its other *)
(* traffic, notifications in dispatch and messages that answer no request, *)
(* may hold all permits of their own semaphores at any time.               *)
(***************************************************************************)
EXTENDS Naturals, FiniteSets

CONSTANTS
  Requests,        (* incoming requests, one element per arrival           *)
  Ids,
  Id,              (* the id a request carries                             *)
  Capacity         (* request permits                                      *)

None == "none"

ASSUME AdmissionAssumption ==
  /\ Id \in [Requests -> Ids]
  /\ Capacity \in Nat \ {0}
  /\ None \notin Requests

VARIABLES
  stage,           (* where each request is                                *)
  ledger,          (* the outstanding request of an id                     *)
  carrying,        (* the ledger entry a send took with it                 *)
  cancelled,       (* requests whose token the library cancelled           *)
  delivered,       (* delivery tokens marked                               *)
  listening,       (* receive passed its failure test and awaits input     *)
  quit,            (* why the library's loop ended                         *)
  closed,          (* the transport was closed                             *)
  failed,          (* IoFailure.failed                                     *)
  stop             (* IoFailure.workers, the session token of the workers  *)

sendVars == <<ledger, carrying>>
endVars == <<listening, quit, closed>>
failureVars == <<failed, stop>>
admissionVars == <<stage, sendVars, cancelled, delivered, endVars, failureVars>>

-----------------------------------------------------------------------------
Stages == {"unsent", "open", "answered", "suppressed", "sending", "sent",
           "lost", "rejected"}

In(names) == {r \in Requests : stage[r] \in names}

(* A permit is out while the handler, the ledger or a send has a lease.    *)
Leased(r) ==
  \/ stage[r] = "open"
  \/ ledger[Id[r]] = r
  \/ \E m \in In({"sending"}) : carrying[m] = r
RequestsFull == Cardinality({r \in Requests : Leased(r)}) >= Capacity

AdmissionTypeOK ==
  /\ stage \in [Requests -> Stages]
  /\ ledger \in [Ids -> Requests \cup {None}]
  /\ carrying \in [Requests -> Requests \cup {None}]
  /\ cancelled \subseteq Requests
  /\ delivered \subseteq Requests
  /\ listening \in BOOLEAN /\ closed \in BOOLEAN
  /\ quit \in {"no", "closed", "cancelled"}
  /\ failed \in BOOLEAN /\ stop \in BOOLEAN

AdmissionInit ==
  /\ stage = [r \in Requests |-> "unsent"]
  /\ ledger = [i \in Ids |-> None]
  /\ carrying = [r \in Requests |-> None]
  /\ cancelled = {} /\ delivered = {}
  /\ listening = FALSE /\ closed = FALSE
  /\ quit = "no"
  /\ failed = FALSE /\ stop = FALSE

At(r, s) == stage' = [stage EXCEPT ![r] = s]

(* IoFailure::record.                                                      *)
Record == failed' = TRUE /\ stop' = TRUE

-----------------------------------------------------------------------------
(* receive.                                                                *)

Listen ==
  /\ ~listening /\ quit = "no" /\ ~failed
  /\ listening' = TRUE
  /\ UNCHANGED <<stage, sendVars, cancelled, delivered, quit, closed, failureVars>>

(* Fault: an id that is outstanding is accepted again.                     *)
AdmitAgain(r) ==
  /\ listening /\ stage[r] = "unsent"
  /\ ~RequestsFull
  /\ At(r, "open")
  /\ ledger' = [ledger EXCEPT ![Id[r]] = r]
  /\ listening' = FALSE
  /\ UNCHANGED <<carrying, cancelled, delivered, quit, closed, failureVars>>

Admit(r) ==
  /\ listening /\ stage[r] = "unsent"
  /\ ~RequestsFull
  /\ ledger[Id[r]] = None
  /\ At(r, "open")
  /\ ledger' = [ledger EXCEPT ![Id[r]] = r]
  /\ listening' = FALSE
  /\ UNCHANGED <<carrying, cancelled, delivered, quit, closed, failureVars>>

(* Overload or an id that is still outstanding ends the session.           *)
Reject(r) ==
  /\ listening /\ stage[r] = "unsent"
  /\ RequestsFull \/ ledger[Id[r]] # None
  /\ At(r, "rejected")
  /\ listening' = FALSE /\ quit' = "closed"
  /\ Record
  /\ UNCHANGED <<sendVars, cancelled, delivered, closed>>

(* A cancellation reaches the request its id names, if the library still   *)
(* has the token of one.                                                   *)
Cancel(id) ==
  /\ listening
  /\ cancelled' = cancelled \cup {r \in In({"open", "answered"}) : Id[r] = id}
  /\ listening' = FALSE
  /\ UNCHANGED <<stage, sendVars, delivered, quit, closed, failureVars>>

(* No notification permit is left.                                         *)
NotificationRefused ==
  /\ listening
  /\ listening' = FALSE /\ quit' = "closed"
  /\ Record
  /\ UNCHANGED <<stage, sendVars, cancelled, delivered, closed>>

(* The peer closes its end; a frame that breaks the reader's byte budget   *)
(* or its deadline is recorded as a failure as well.                       *)
EndOfInput ==
  /\ listening
  /\ listening' = FALSE /\ quit' = "closed"
  /\ stop' = TRUE
  /\ failed' \in {failed, TRUE}
  /\ UNCHANGED <<stage, sendVars, cancelled, delivered, closed>>

-----------------------------------------------------------------------------
(* The handler's answer, and send.                                         *)

(* AdmittedService: the lease is kept until the inner handler returned.    *)
HandlerReturns(r) ==
  /\ stage[r] = "open"
  /\ At(r, "answered")
  /\ UNCHANGED <<sendVars, cancelled, delivered, endVars, failureVars>>

Suppress(r) ==
  /\ stage[r] = "answered" /\ r \in cancelled
  /\ At(r, "suppressed")
  /\ UNCHANGED <<sendVars, cancelled, delivered, endVars, failureVars>>

MaySend(r) == ~closed /\ stage[r] = "answered" /\ r \notin cancelled

(* The ledger entry of the id moves into the send before its first poll.   *)
TakeEntry(r) ==
  /\ carrying' = [carrying EXCEPT ![r] = ledger[Id[r]]]
  /\ ledger' = [ledger EXCEPT ![Id[r]] = None]

SendBegin(r) ==
  /\ MaySend(r) /\ ~failed
  /\ TakeEntry(r)
  /\ At(r, "sending")
  /\ UNCHANGED <<cancelled, delivered, endVars, failureVars>>

(* No send permit is left, or the session has failed already.              *)
SendRefused(r) ==
  /\ MaySend(r)
  /\ TakeEntry(r)
  /\ At(r, "lost")
  /\ Record
  /\ UNCHANGED <<cancelled, delivered, endVars>>

(* Fault: the token is looked up by the id when the flush completes.       *)
SendDoneById(r) ==
  /\ stage[r] = "sending"
  /\ At(r, "sent")
  /\ delivered' = delivered \cup ({ledger[Id[r]]} \ {None})
  /\ UNCHANGED <<sendVars, cancelled, endVars, failureVars>>

SendDone(r) ==
  /\ stage[r] = "sending"
  /\ At(r, "sent")
  /\ delivered' = delivered \cup ({carrying[r]} \ {None})
  /\ UNCHANGED <<sendVars, cancelled, endVars, failureVars>>

(* The send deadline, a write error, or a frame over the writer's budget.  *)
SendFails(r) ==
  /\ stage[r] = "sending"
  /\ At(r, "lost")
  /\ Record
  /\ UNCHANGED <<sendVars, cancelled, delivered, endVars>>

SendDropped(r) ==
  /\ stage[r] = "sending" /\ quit # "no"
  /\ At(r, "lost")
  /\ UNCHANGED <<sendVars, cancelled, delivered, endVars, failureVars>>

-----------------------------------------------------------------------------
(* The end of the session.                                                 *)

(* The library notices the failure: its cancellation token fired, or       *)
(* receive returned nothing.                                               *)
Quit ==
  /\ quit = "no" /\ failed
  /\ quit' \in {"closed", "cancelled"}
  /\ listening' = FALSE
  /\ UNCHANGED <<stage, sendVars, cancelled, delivered, closed, failureVars>>

(* close: terminal teardown clears the ledger; it may fail or time out.    *)
Close ==
  /\ quit # "no" /\ ~closed
  /\ closed' = TRUE
  /\ ledger' = [i \in Ids |-> None]
  /\ stop' = TRUE
  /\ failed' \in {failed, TRUE}
  /\ UNCHANGED <<stage, carrying, cancelled, delivered, listening, quit>>

Transport ==
  \/ Listen \/ NotificationRefused \/ EndOfInput \/ Quit \/ Close
  \/ \E id \in Ids : Cancel(id)
  \/ \E r \in Requests :
       \/ Admit(r) \/ Reject(r) \/ Suppress(r)
       \/ SendBegin(r) \/ SendRefused(r) \/ SendDone(r) \/ SendFails(r) \/ SendDropped(r)

=============================================================================
