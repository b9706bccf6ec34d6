-------------------------- MODULE Workspace_proofs --------------------------
(***************************************************************************)
(* The conversations keep what ChatSessions promises while projects come   *)
(* and go.                                                                 *)
(***************************************************************************)
EXTENDS Workspace, ChatSessions_proofs

\* Creating and deleting projects changes nothing for the chat: every behaviour
\* of the two together is one of the chat alone.
THEOREM ChatGoesOn == WSpec => Spec
<1>1. WInit => Init BY DEF WInit
<1>2. [WNext]_<<vars, lifeVars>> => [Next]_vars
  <2> SUFFICES ASSUME [WNext]_<<vars, lifeVars>> PROVE [Next]_vars
    OBVIOUS
  <2>1. ASSUME NEW p \in Projects, CreateProject(p) \/ DeleteProject(p) PROVE UNCHANGED vars
    BY <2>1 DEF CreateProject, DeleteProject
  <2>2. ASSUME NEW t \in Tabs, NEW p \in Projects, Select(t, p) PROVE Next
    BY <2>2 DEF Select, Next, Browser
  <2>3. ASSUME NEW t \in Tabs, Send(t) PROVE Next
    BY <2>3 DEF Send, Next, Browser
  <2>4. CASE Elsewhere
    BY <2>4 DEF Elsewhere, ElseBrowser, Next, Browser
  <2>5. CASE UNCHANGED <<vars, lifeVars>>
    BY <2>5
  <2> QED BY <2>1, <2>2, <2>3, <2>4, <2>5 DEF WNext
<1> QED BY <1>1, <1>2, PTL DEF WSpec, Spec

\* However projects are created and deleted, an agent's context, an edit's
\* message and an answer's question are those of its own conversation, and an
\* edit works on a message older than its request only by a tie.
THEOREM ConversationsHold ==
  WSpec => [](ContextHasQuestion /\ EditOlderOnlyByTie /\ OrphanOnlyByDelete)
<1>1. Inv => ContextHasQuestion /\ EditOlderOnlyByTie /\ OrphanOnlyByDelete BY DEF Inv
<1> QED BY <1>1, ChatGoesOn, Invariance, PTL

-----------------------------------------------------------------------------
(* What it takes for a fresh project to have a fresh chat, which the run     *)
(* old_history refutes as the code is.                                       *)

\* A project is deleted only once its history is empty and none of its requests
\* is at work.
EmptiedFirst ==
  \A p \in Projects : DeleteProject(p) =>
    /\ \A row \in rows : row.key.project # p
    /\ \A q \in DOMAIN reqs : reqs[q].project = p => ~Running(q)

\* The inductive invariant: what the history holds of a project, and what is at
\* work on it, is of its present life or of a time without one.
OwnLife ==
  /\ served \in Seq(Nat) /\ Len(served) = Len(reqs)
  /\ life \in [Projects -> Nat] /\ lives \in Nat
  /\ \A q \in DOMAIN reqs : Running(q) => served[q] \in {0, life[reqs[q].project]}
  /\ \A row \in rows : served[row.req] \in {0, life[row.key.project]}
  /\ \A q \in DOMAIN reqs : \A row \in reqs[q].context : row.req \in DOMAIN reqs
  /\ FreshProjectFreshChat

\* Only load_chat_history gives a request a context.
LEMMA ContextChange ==
  ASSUME ChatAssumption, Inv, [Next]_vars, NEW q \in DOMAIN reqs,
         NEW row \in reqs'[q].context, ~LoadHistory(q)
  PROVE  row \in reqs[q].context
<1>1. TypeOK /\ reqs[q] \in Requests BY ReqTypes DEF Inv
<1>2. CASE reqs'[q].context \in {reqs[q].context, {}} BY <1>2
<1>3. Quiet \/ (\E t \in Tabs : Submit(t)) => reqs'[q].context = reqs[q].context
  BY <1>1, SubmitEffect DEF Quiet
<1>4. ASSUME NEW t \in Tabs, NEW s \in Sessions, DeleteSession(t, s)
      PROVE  reqs'[q].context = reqs[q].context
  <2>1. reqs'[q] = Marked(q, Key(cookie, s)) BY <1>1, <1>4, DeleteEffect
  <2>2. Marked(q, Key(cookie, s)).context = reqs[q].context BY <1>1, MarkedType
  <2> QED BY <2>1, <2>2
<1>5. ASSUME NEW p \in 1..MaxRequests, Thread(p)
      PROVE  reqs'[q].context \in {reqs[q].context, {}}
  <2>1. CASE q # p BY <1>1, <1>5, <2>1, ThreadEffect DEF Others
  <2>2. CASE q = p
    <3>1. \/ reqs'[q] = [reqs[q] EXCEPT !.pc = "load", !.ts = now]
          \/ reqs'[q] = [reqs[q] EXCEPT !.edits = @ \cup LatestMessage(KeyOf(q))]
          \/ reqs'[q] = Ended(reqs[q])
      BY <1>1, <1>5, <2>2, AskEffect, EditEffect, EndEffect DEF Thread
    <3> QED BY <1>1, <3>1, EndedType DEF Requests
  <2> QED BY <2>1, <2>2
<1>6. Restart => reqs'[q].context \in {reqs[q].context, {}}
  BY <1>1, RestartEffect, EndedType
<1> QED BY <1>1, <1>2, <1>3, <1>4, <1>5, <1>6, Steps

\* A step of the chat that sends nothing leaves every request in its life.
LEMMA OwnLifeElsewhere ==
  ASSUME ChatAssumption, Inv, OwnLife, [Next]_vars, DOMAIN reqs' = DOMAIN reqs,
         reqs' \in Seq(Requests), UNCHANGED lifeVars
  PROVE  OwnLife'
<1>1. TypeOK BY DEF Inv
<1>2. served' = served /\ life' = life /\ lives' = lives BY DEF lifeVars
<1>3. Len(reqs') = Len(reqs)
  <2>1. reqs \in Seq(Requests) BY <1>1 DEF TypeOK
  <2> QED BY <2>1, LenProperties
<1>4. ASSUME NEW q \in DOMAIN reqs, reqs'[q].pc # "ended"
      PROVE  served[q] \in {0, life[reqs'[q].project]}
  <2>1. Running(q) /\ reqs'[q].project = reqs[q].project
    BY <1>1, <1>4, StepReqs DEF Running
  <2> QED BY <2>1 DEF OwnLife
<1>5. ASSUME NEW row \in rows' PROVE served[row.req] \in {0, life[row.key.project]}
  <2>1. CASE row \in rows BY <2>1 DEF OwnLife
  <2>2. CASE row \notin rows
    <3>1. PICK q \in DOMAIN reqs :
            /\ SaveQuestion(q) \/ SaveAnswer(q)
            /\ row = Row(KeyOf(q), "user", q) \/ row = Row(KeyOf(q), "ai", q)
      BY <1>1, <1>5, <2>2, StepRows DEF Without, Save
    <3>2. row.req = q /\ row.key.project = reqs[q].project BY <3>1 DEF Row, KeyOf, Key
    <3>3. Running(q) BY <3>1 DEF SaveQuestion, SaveAnswer, At, Running
    <3> QED BY <3>2, <3>3 DEF OwnLife
  <2> QED BY <2>1, <2>2
<1>6. ASSUME NEW q \in DOMAIN reqs, NEW row \in reqs'[q].context
      PROVE  /\ row.req \in DOMAIN reqs
             /\ served[q] # 0 => served[row.req] \in {0, served[q]}
  <2>1. CASE LoadHistory(q)
    <3>1. reqs'[q] = [reqs[q] EXCEPT !.pc = "agent", !.context = History(KeyOf(q))]
          /\ reqs[q] \in Requests
      BY <1>1, <2>1, LoadEffect DEF Others
    <3>2. row \in rows /\ row.key = KeyOf(q) BY <1>6, <3>1 DEF Requests, History
    <3>3. row.req \in DOMAIN reqs BY <3>2 DEF Inv, RowOK
    <3>4. row.key.project = reqs[q].project BY <3>2 DEF KeyOf, Key
    <3>5. Running(q) BY <2>1 DEF LoadHistory, At, Running
    <3>6. /\ served[q] \in {0, life[reqs[q].project]}
          /\ served[row.req] \in {0, life[reqs[q].project]}
      BY <3>2, <3>4, <3>5 DEF OwnLife
    <3> QED BY <3>3, <3>6
  <2>2. CASE ~LoadHistory(q)
    <3>1. row \in reqs[q].context BY <1>6, <2>2, ContextChange
    <3> QED BY <3>1 DEF OwnLife, FreshProjectFreshChat
  <2> QED BY <2>1, <2>2
<1> QED
  BY <1>2, <1>3, <1>4, <1>5, <1>6 DEF OwnLife, FreshProjectFreshChat, Running

\* A request is sent in the life its project has.
LEMMA OwnLifeSend ==
  ASSUME ChatAssumption, Inv, OwnLife, NEW t \in Tabs, Send(t)
  PROVE  OwnLife'
<1>1. TypeOK /\ Submit(t) /\ served' = Append(served, life[cookie])
      /\ life' = life /\ lives' = lives /\ rows' = rows
  BY DEF Inv, Send, Submit
<1>2. cookie \in Projects BY <1>1 DEF TypeOK, Submit
<1>3. life[cookie] \in Nat /\ served \in Seq(Nat) /\ Len(served) = Len(reqs)
  BY <1>2 DEF OwnLife
<1>4. /\ served' \in Seq(Nat) /\ Len(served') = Len(reqs) + 1
      /\ served'[Len(reqs) + 1] = life[cookie]
      /\ \A q \in 1..Len(reqs) : served'[q] = served[q]
  BY <1>1, <1>3, AppendProperties
<1>5. DOMAIN reqs = 1..Len(reqs) BY <1>1, ReqTypes
<1>6. /\ Len(reqs') = Len(reqs) + 1 /\ DOMAIN reqs' = DOMAIN reqs \cup {Len(reqs) + 1}
      /\ \A q \in DOMAIN reqs : reqs'[q] = reqs[q]
  BY <1>1, SubmitEffect
<1> DEFINE n == Len(reqs) + 1
<1>7. reqs'[n].project = cookie /\ reqs'[n].context = {}
  <2>1. reqs'[n] = [project |-> cookie, session |-> tabs[t].session, pc |-> "ask", ts |-> 0,
                    context |-> {}, edits |-> {}, erased |-> FALSE,
                    deleted |-> FALSE]
    BY <1>1, SubmitEffect
  <2> QED BY <2>1
<1> HIDE DEF n
<1>8. ASSUME NEW q \in DOMAIN reqs', reqs'[q].pc # "ended"
      PROVE  served'[q] \in {0, life[reqs'[q].project]}
  <2>1. CASE q \in DOMAIN reqs BY <1>4, <1>5, <1>6, <1>8, <2>1 DEF OwnLife, Running
  <2>2. CASE q = n BY <1>4, <1>7, <2>2 DEF n
  <2> QED BY <1>6, <2>1, <2>2 DEF n
<1>9. ASSUME NEW row \in rows PROVE served'[row.req] \in {0, life[row.key.project]}
  BY <1>4, <1>5 DEF OwnLife, Inv, RowOK
<1>10. ASSUME NEW q \in DOMAIN reqs', NEW row \in reqs'[q].context
       PROVE  /\ row.req \in DOMAIN reqs'
              /\ served'[q] # 0 => served'[row.req] \in {0, served'[q]}
  <2>1. q \in DOMAIN reqs /\ row \in reqs[q].context BY <1>6, <1>7, <1>10 DEF n
  <2>2. row.req \in DOMAIN reqs BY <2>1 DEF OwnLife
  <2> QED BY <1>4, <1>5, <1>6, <2>1, <2>2 DEF OwnLife, FreshProjectFreshChat
<1>11. served' \in Seq(Nat) /\ Len(served') = Len(reqs') BY <1>4, <1>6
<1> QED
  BY <1>1, <1>8, <1>9, <1>10, <1>11 DEF OwnLife, FreshProjectFreshChat, Running

\* A project begins and ends its life with nothing of an earlier one around.
LEMMA OwnLifeProject ==
  ASSUME Inv, OwnLife, EmptiedFirst, NEW p \in Projects, CreateProject(p) \/ DeleteProject(p)
  PROVE  OwnLife'
<1>1. UNCHANGED vars /\ served' = served BY DEF CreateProject, DeleteProject
<1>2. rows' = rows /\ reqs' = reqs BY <1>1 DEF vars
<1>3. PICK n \in Nat : life' = [life EXCEPT ![p] = n]
  BY DEF CreateProject, DeleteProject, OwnLife
<1>4. /\ life' \in [Projects -> Nat] /\ lives' \in Nat
      /\ \A o \in Projects \ {p} : life'[o] = life[o]
  BY <1>3 DEF OwnLife, CreateProject, DeleteProject
<1>5. ASSUME NEW q \in DOMAIN reqs, Running(q)
      PROVE  served[q] \in {0, life'[reqs[q].project]}
  <2>1. reqs[q].project \in Projects BY ChatAssumption, ReqTypes DEF Inv, Requests
  <2>2. served[q] \in {0, life[reqs[q].project]} BY <1>5 DEF OwnLife
  <2>3. reqs[q].project = p => life[p] = 0
    BY <1>5 DEF EmptiedFirst, CreateProject
  <2> QED BY <1>4, <2>1, <2>2, <2>3
<1>6. ASSUME NEW row \in rows PROVE served[row.req] \in {0, life'[row.key.project]}
  <2>1. row.key.project \in Projects BY DEF Inv, TypeOK, Messages, Keys
  <2>2. served[row.req] \in {0, life[row.key.project]} BY DEF OwnLife
  <2>3. row.key.project = p => life[p] = 0 BY DEF EmptiedFirst, CreateProject
  <2> QED BY <1>4, <2>1, <2>2, <2>3
<1> QED
  BY <1>1, <1>2, <1>4, <1>5, <1>6 DEF OwnLife, FreshProjectFreshChat, Running

LEMMA OwnLifeStep ==
  ASSUME ChatAssumption, Inv, OwnLife, [WNext]_<<vars, lifeVars>>,
         [EmptiedFirst]_<<vars, lifeVars>>
  PROVE  OwnLife'
<1>1. CASE EmptiedFirst /\ \E p \in Projects : CreateProject(p) \/ DeleteProject(p)
  BY <1>1, OwnLifeProject
<1>2. ASSUME NEW t \in Tabs, Send(t) PROVE OwnLife' BY <1>2, OwnLifeSend
<1>3. ASSUME UNCHANGED lifeVars, reqs' = reqs, [Next]_vars PROVE OwnLife'
  BY <1>3, OwnLifeElsewhere DEF Inv, TypeOK
<1>4. ASSUME NEW t \in Tabs, NEW p \in Projects, Select(t, p) PROVE OwnLife'
  BY <1>3, <1>4 DEF Select, SelectProject, Next, Browser
<1>5. CASE Elsewhere
  <2>1. UNCHANGED lifeVars /\ Next
    BY <1>5 DEF Elsewhere, ElseBrowser, Next, Browser
  <2>2. DOMAIN reqs' = DOMAIN reqs /\ reqs' \in Seq(Requests)
    <3>1. TypeOK BY DEF Inv
    <3>2. ASSUME NEW t \in Tabs, ElseBrowser(t)
          PROVE  reqs' = reqs \/ \E s \in Sessions : DeleteSession(t, s)
      BY <3>2 DEF ElseBrowser, ChatSession, AlterTable, GoHome, OpenSession, NewSession,
         ExitProject, StreamEnds
    <3>3. Tick => reqs' = reqs BY DEF Tick
    <3> QED BY <1>5, <3>1, <3>2, <3>3, DeleteEffect, RestartEffect, ThreadEffect
            DEF Elsewhere, Others, TypeOK
  <2> QED BY <2>1, <2>2, OwnLifeElsewhere
<1>6. CASE UNCHANGED <<vars, lifeVars>>
  BY <1>3, <1>6 DEF vars
<1> QED BY <1>1, <1>2, <1>4, <1>5, <1>6 DEF WNext

\* Were a project deleted only with an empty history and no request at work, no
\* agent would be told of an earlier life of its project: the rows that
\* delete_container leaves, and the threads it does not stop, are the only way.
THEOREM FreshIfEmptied ==
  WSpec /\ [][EmptiedFirst]_<<vars, lifeVars>> => []FreshProjectFreshChat
<1>1. WInit => OwnLife
  <2> SUFFICES ASSUME WInit PROVE OwnLife
    OBVIOUS
  <2>1. reqs = <<>> /\ served = <<>> /\ rows = {} BY DEF WInit, Init
  <2>2. DOMAIN reqs = {} BY <2>1
  <2>3. served \in Seq(Nat) /\ Len(served) = Len(reqs) BY <2>1, EmptySeq
  <2>4. life \in [Projects -> Nat] /\ lives \in Nat BY DEF WInit
  <2> QED BY <2>1, <2>2, <2>3, <2>4 DEF OwnLife, FreshProjectFreshChat
<1>2. Inv /\ OwnLife /\ [WNext]_<<vars, lifeVars>> /\ [EmptiedFirst]_<<vars, lifeVars>>
        => OwnLife'
  BY ChatAssumption, OwnLifeStep
<1>3. OwnLife => FreshProjectFreshChat BY DEF OwnLife
<1>4. WSpec => []Inv BY ChatGoesOn, Invariance, PTL
<1> QED BY <1>1, <1>2, <1>3, <1>4, PTL DEF WSpec
=============================================================================
