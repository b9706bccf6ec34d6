--------------------------- MODULE ProjectContract ---------------------------
(***************************************************************************)
(* What the routes of the projects promise, request by request, seen from  *)
(* outside: a name has at most one container; a container is removed only  *)
(* by a request for its name that has not been answered yet; starting,     *)
(* stopping and deleting answer with success in the step that does it;     *)
(* a creation answers with success once its own container has run; two     *)
(* containers never run on one port.  A request may always fail, and a     *)
(* container may always end.                                               *)
(*                                                                         *)
(* ContainerLifecycle implements this with calls that interleave, a name   *)
(* looked up before it is used and a deletion in two stages.               *)
(***************************************************************************)
EXTENDS Naturals

CONSTANTS Requests, Containers, Ports

VARIABLES life,    \* the container of each creation, as Docker tells its status
          port,    \* its port, 0 if there is none
          op,      \* what each request asks for
          name,    \* and of which container
          answer   \* idle, waiting, ok, failed

vars == <<life, port, op, name, answer>>

Init ==
  /\ life = [i \in Requests |-> "absent"]
  /\ port = [i \in Requests |-> 0]
  /\ op = [q \in Requests |-> "none"]
  /\ name \in [Requests -> Containers]
  /\ answer = [q \in Requests |-> "idle"]

Alive(i) == life[i] \in {"created", "running", "exited"}

Waits(q, kind) == answer[q] = "waiting" /\ op[q] = kind

\* Request q waits for kind to be done to container i of its name.
For(q, kind, i) == Waits(q, kind) /\ Alive(i) /\ name[i] = name[q]

PortFree(i) == \A j \in Requests \ {i} : life[j] = "running" => port[j] # port[i]

Becomes(i, state) == life' = [life EXCEPT ![i] = state]

Vanishes(i) == Becomes(i, "removed") /\ port' = [port EXCEPT ![i] = 0]

Answer(q, text) == answer' = [answer EXCEPT ![q] = text]

Ask(q, kind, c) ==
  /\ answer[q] = "idle"
  /\ op' = [op EXCEPT ![q] = kind] /\ name' = [name EXCEPT ![q] = c]
  /\ Answer(q, "waiting")
  /\ UNCHANGED <<life, port>>

\* A creation puts an older container of its name away.
Replace(q, i) ==
  /\ For(q, "create", i) /\ i # q
  /\ Vanishes(i)
  /\ UNCHANGED <<op, name, answer>>

Make(q, p) ==
  /\ Waits(q, "create") /\ life[q] = "absent"
  /\ \A i \in Requests : Alive(i) => name[i] # name[q]
  /\ Becomes(q, "created") /\ port' = [port EXCEPT ![q] = p]
  /\ UNCHANGED <<op, name, answer>>

Boot(q) ==
  /\ For(q, "create", q) /\ PortFree(q)
  /\ Becomes(q, "running")
  /\ UNCHANGED <<port, op, name, answer>>

\* It may have ended, or been removed by others, since it ran.
Created(q) ==
  /\ Waits(q, "create") /\ life[q] \in {"running", "exited", "removed"}
  /\ Answer(q, "ok")
  /\ UNCHANGED <<life, port, op, name>>

Started(q, i) ==
  /\ For(q, "start", i) /\ PortFree(i)
  /\ Becomes(i, "running") /\ Answer(q, "ok")
  /\ UNCHANGED <<port, op, name>>

Stopped(q, i) ==
  /\ For(q, "stop", i)
  /\ Becomes(i, IF life[i] = "running" THEN "exited" ELSE life[i]) /\ Answer(q, "ok")
  /\ UNCHANGED <<port, op, name>>

Deleted(q, i) ==
  /\ For(q, "delete", i)
  /\ Vanishes(i) /\ Answer(q, "ok")
  /\ UNCHANGED <<op, name>>

Ends(i) ==
  /\ life[i] = "running"
  /\ Becomes(i, "exited")
  /\ UNCHANGED <<port, op, name, answer>>

Refuse(q) ==
  /\ answer[q] = "waiting"
  /\ Answer(q, "failed")
  /\ UNCHANGED <<life, port, op, name>>

\* The server goes down with all its requests.
RefuseAll ==
  /\ answer' = [q \in Requests |-> IF answer[q] = "waiting" THEN "failed" ELSE answer[q]]
  /\ UNCHANGED <<life, port, op, name>>

Serve(q) ==
  \/ Boot(q) \/ Created(q) \/ Refuse(q)
  \/ \E p \in Ports : Make(q, p)
  \/ \E i \in Requests : Replace(q, i) \/ Started(q, i) \/ Stopped(q, i) \/ Deleted(q, i)

Next ==
  \/ RefuseAll
  \/ \E q \in Requests :
       \/ answer[q] = "waiting" /\ Serve(q)
       \/ \E kind \in {"create", "start", "stop", "delete"}, c \in Containers : Ask(q, kind, c)
       \/ Ends(q)

Spec == Init /\ [][Next]_vars
=============================================================================
