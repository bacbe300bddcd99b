------------------------- MODULE AtLeastOnceMailbox -------------------------
(***************************************************************************)
(* What the agent's outbox promises to those who enqueue: a submitted      *)
(* message is handled by the backend any number of times while it is       *)
(* pending, is confirmed only after it was handled, and is abandoned only  *)
(* explicitly.  Confirmed and abandoned are final.  Closing the mailbox    *)
(* (decommission) may discard everything and ends its life.                *)
(***************************************************************************)
CONSTANT Messages

VARIABLES
  status,   \* per message: absent, pending, confirmed, abandoned, discarded
  handled,  \* messages the backend has handled at least once
  closed

mailbox == <<status, handled, closed>>

Submit(m) ==
  /\ ~closed
  /\ status[m] = "absent"
  /\ status' = [status EXCEPT ![m] = "pending"]
  /\ UNCHANGED <<handled, closed>>

Handle(m) ==
  /\ ~closed
  /\ status[m] = "pending"
  /\ handled' = handled \cup {m}
  /\ UNCHANGED <<status, closed>>

Confirm(m) ==
  /\ ~closed
  /\ status[m] = "pending"
  /\ m \in handled
  /\ status' = [status EXCEPT ![m] = "confirmed"]
  /\ UNCHANGED <<handled, closed>>

Abandon(m) ==
  /\ ~closed
  /\ status[m] = "pending"
  /\ status' = [status EXCEPT ![m] = "abandoned"]
  /\ UNCHANGED <<handled, closed>>

Close ==
  /\ ~closed
  /\ closed' = TRUE
  /\ \/ UNCHANGED status
     \/ status' = [m \in Messages |->
                     IF status[m] = "absent" THEN "absent" ELSE "discarded"]
  /\ UNCHANGED handled

MailboxInit ==
  /\ status = [m \in Messages |-> "absent"]
  /\ handled = {}
  /\ closed = FALSE

MailboxNext ==
  \/ \E m \in Messages : Submit(m) \/ Handle(m) \/ Confirm(m) \/ Abandon(m)
  \/ Close

MailboxSpec == MailboxInit /\ [][MailboxNext]_mailbox
=============================================================================
