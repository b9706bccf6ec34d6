------------------------------ MODULE Workspace ------------------------------
(***************************************************************************)
(* Chat and containers together: the conversations of ChatSessions and the *)
(* projects they are about, which the user creates and deletes in between. *)
(* A project lives from its creation to its deletion, one step each here   *)
(* (ContainerLifecycle has their steps); lives are numbered in the order   *)
(* they begin.                                                             *)
(***************************************************************************)
EXTENDS ChatSessions

CONSTANT MaxLives  \* bound: projects created

VARIABLES
  lives,  \* projects created so far
  life,   \* the life of each project name, 0 if it has no container
  served  \* history variable: the life each chat request was sent in

lifeVars == <<lives, life, served>>

WInit ==
  /\ Init
  /\ lives = 0
  /\ life = [p \in Projects |-> 0]
  /\ served = <<>>

\* create_container.  (A project that exists lives on in its new container.)
CreateProject(p) ==
  /\ life[p] = 0 /\ lives < MaxLives
  /\ lives' = lives + 1
  /\ life' = [life EXCEPT ![p] = lives + 1]
  /\ UNCHANGED <<vars, served>>

\* delete_container takes the container, and nothing else.
DeleteProject(p) ==
  /\ life[p] # 0
  /\ life' = [life EXCEPT ![p] = 0]
  /\ UNCHANGED <<vars, lives, served>>

\* select_project sends the user home unless get_containers lists the project.
Select(t, p) ==
  /\ life[p] # 0
  /\ SelectProject(t, p)
  /\ UNCHANGED lifeVars

\* api_chat_stream does not ask whether the container is there.
Send(t) ==
  /\ Submit(t)
  /\ served' = Append(served, life[cookie])
  /\ UNCHANGED <<lives, life>>

\* The rest of the chat has no regard to containers.
ElseBrowser(t) ==
  \/ ChatSession(t) \/ AlterTable(t)
  \/ GoHome(t) \/ OpenSession(t) \/ NewSession(t) \/ ExitProject(t) \/ StreamEnds(t)
  \/ \E s \in Sessions : DeleteSession(t, s)

Elsewhere ==
  /\ \/ \E t \in Tabs : ElseBrowser(t)
     \/ \E q \in 1..MaxRequests : Thread(q)
     \/ Restart \/ Tick
  /\ UNCHANGED lifeVars

WNext ==
  \/ \E p \in Projects : CreateProject(p) \/ DeleteProject(p)
  \/ \E t \in Tabs : Send(t) \/ \E p \in Projects : Select(t, p)
  \/ Elsewhere

WSpec == WInit /\ [][WNext]_<<vars, lifeVars>>

-----------------------------------------------------------------------------
\* The agent is told of nothing that was said in an earlier life of the project:
\* what was deleted does not come back.
FreshProjectFreshChat ==
  \A q \in DOMAIN reqs : \A row \in reqs[q].context :
    served[q] # 0 => served[row.req] \in {0, served[q]}
=============================================================================
