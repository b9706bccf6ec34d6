--------------------------- MODULE StreamContract ---------------------------
(***************************************************************************)
(* What the streaming chat promises for each request: a greeting comes     *)
(* first; the thread's messages are told one by one in the order they were *)
(* made, as many as there are; its outcome is told once, after all of them *)
(* and only when the thread has ended; nothing follows.  The client may be *)
(* gone at any time, which ends the telling and leaves the work alone.     *)
(*                                                                         *)
(* StreamBridge implements this with a queue it polls and a thread whose   *)
(* end it asks for separately.                                             *)
(***************************************************************************)
EXTENDS Naturals, Sequences

CONSTANTS Requests,
          Outcomes,        \* what a thread can end with
          Message(_),      \* the event that tells the n-th message, 0 the greeting
          Telling(_)       \* the event that tells an outcome

VARIABLES work,     \* the thread of each request: none, running, ended
          made,     \* messages it has made
          outcome,  \* what it ended with
          told,     \* events the client was sent
          over      \* nothing more is sent

vars == <<work, made, outcome, told, over>>

Init ==
  /\ work = [r \in Requests |-> "none"]
  /\ made = [r \in Requests |-> 0]
  /\ outcome = [r \in Requests |-> "none"]
  /\ told = [r \in Requests |-> <<>>]
  /\ over = [r \in Requests |-> FALSE]

Tell(r, event) == told' = [told EXCEPT ![r] = Append(@, event)]

HangUp(r) ==
  /\ ~over[r]
  /\ over' = [over EXCEPT ![r] = TRUE]
  /\ UNCHANGED <<work, made, outcome, told>>

Greet(r) ==
  /\ ~over[r] /\ told[r] = <<>>
  /\ Tell(r, Message(0))
  /\ UNCHANGED <<work, made, outcome, over>>

Begin(r) ==
  /\ ~over[r] /\ work[r] = "none" /\ told[r] # <<>>
  /\ work' = [work EXCEPT ![r] = "running"]
  /\ UNCHANGED <<made, outcome, told, over>>

\* There is no thread to do the work: that is the outcome.
CannotBegin(r) ==
  /\ ~over[r] /\ work[r] = "none" /\ told[r] # <<>>
  /\ Tell(r, Telling("thread"))
  /\ over' = [over EXCEPT ![r] = TRUE]
  /\ UNCHANGED <<work, made, outcome>>

Make(r) ==
  /\ work[r] = "running"
  /\ made' = [made EXCEPT ![r] = @ + 1]
  /\ UNCHANGED <<work, outcome, told, over>>

Finish(r) ==
  /\ work[r] = "running"
  /\ work' = [work EXCEPT ![r] = "ended"]
  /\ \E o \in Outcomes : outcome' = [outcome EXCEPT ![r] = o]
  /\ UNCHANGED <<made, told, over>>

\* The next message, which has been made.
TellMessage(r) ==
  /\ ~over[r] /\ work[r] # "none" /\ Len(told[r]) <= made[r]
  /\ Tell(r, Message(Len(told[r])))
  /\ UNCHANGED <<work, made, outcome, over>>

\* All messages have been told, and no more will be made.
TellOutcome(r) ==
  /\ ~over[r] /\ work[r] = "ended" /\ Len(told[r]) = made[r] + 1
  /\ Tell(r, Telling(outcome[r]))
  /\ over' = [over EXCEPT ![r] = TRUE]
  /\ UNCHANGED <<work, made, outcome>>

Next == \E r \in Requests :
  \/ HangUp(r) \/ Greet(r) \/ Begin(r) \/ CannotBegin(r) \/ Make(r) \/ Finish(r)
  \/ TellMessage(r) \/ TellOutcome(r)

Spec == Init /\ [][Next]_vars
=============================================================================
