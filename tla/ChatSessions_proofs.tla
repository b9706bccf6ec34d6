------------------------ MODULE ChatSessions_proofs ------------------------
(***************************************************************************)
(* Proofs about ChatSessions for any number of tabs, projects, sessions    *)
(* and requests.                                                           *)
(***************************************************************************)
EXTENDS ChatSessions, SequenceTheorems, TLAPS

(* The inductive invariant behind the properties. *)

\* A row comes from a request that got so far, and bears its key.
RowOK(row) ==
  /\ row.id <= serial /\ row.ts <= now
  /\ row.req \in DOMAIN reqs /\ row.key = KeyOf(row.req)
  /\ row.role = "user" => reqs[row.req].pc # "ask" /\ row.ts = reqs[row.req].ts
  /\ row.role = "ai" => reqs[row.req].pc = "ended"

OneQuestion ==
  \A row, r \in rows : row.role = "user" /\ r.role = "user" /\ row.req = r.req => row = r

\* The question of a thread at work is in the table, or was deleted since it
\* was asked, and everything older with it.
RequestOK(q) ==
  /\ reqs[q].ts <= now
  /\ reqs[q].pc = "ask" => reqs[q].edits = {} /\ ~reqs[q].erased
  /\ reqs[q].pc # "agent" => reqs[q].context = {}
  /\ HasAsked(q) /\ ~reqs[q].erased => \E row \in UserRows(KeyOf(q)) : row.req = q
  /\ HasAsked(q) /\ reqs[q].erased =>
       \A row \in UserRows(KeyOf(q)) : row.ts >= reqs[q].ts
  /\ \A e \in reqs[q].edits \ {0} : e \in DOMAIN reqs /\ reqs[e].pc # "ask"

Inv ==
  /\ TypeOK /\ MigratedFirst
  /\ \A row \in rows : RowOK(row)
  /\ OneQuestion
  /\ \A q \in DOMAIN reqs : RequestOK(q)
  /\ OrphanOnlyByDelete /\ EditOlderOnlyByTie /\ ContextHasQuestion

-----------------------------------------------------------------------------

\* What a page holds at each place of a tab.
LEMMA PageShape ==
  ASSUME NEW page \in Pages
  PROVE  /\ page.at \in {"home", "leaving", "renewing", "opening", "failed", "altering", "chat"}
         /\ page.at \in {"opening", "failed", "altering", "chat"} => page.session \in Sessions
         /\ page.at = "altering" => page.project \in Projects
         /\ page.at = "chat" => /\ page.list \in SUBSET Sessions
                                /\ page.waiting \in 0..MaxRequests
                                /\ page = [at |-> "chat", session |-> page.session,
                                           list |-> page.list, waiting |-> page.waiting]
<1>1. CASE page \in [at : {"home", "leaving", "renewing"}] BY <1>1
<1>2. CASE page \in [at : {"opening", "failed"}, session : Sessions] BY <1>2
<1>3. CASE page \in [at : {"altering"}, session : Sessions, project : Projects] BY <1>3
<1>4. CASE page \in [at : {"chat"}, session : Sessions, list : SUBSET Sessions,
                     waiting : 0..MaxRequests]
  BY <1>4
<1> QED BY <1>1, <1>2, <1>3, <1>4 DEF Pages

LEMMA PageKinds ==
  ASSUME ChatAssumption
  PROVE  /\ \A w \in {"home", "leaving", "renewing"} : [at |-> w] \in Pages
         /\ \A s \in Sessions :
              /\ Opening(s) \in Pages
              /\ [at |-> "failed", session |-> s] \in Pages
              /\ \A p \in Projects : [at |-> "altering", session |-> s, project |-> p] \in Pages
              /\ \A l \in SUBSET Sessions, w \in 0..MaxRequests :
                   [at |-> "chat", session |-> s, list |-> l, waiting |-> w] \in Pages
BY DEF ChatAssumption, Pages, Opening

LEMMA ChatPage ==
  ASSUME NEW page \in Pages, page.at = "chat"
  PROVE  /\ \A w \in 0..MaxRequests : /\ [page EXCEPT !.waiting = w] \in Pages
                                      /\ [page EXCEPT !.waiting = w].at = "chat"
         /\ \A s : [page EXCEPT !.list = @ \ {s}] \in Pages
<1> DEFINE Chats == [at : {"chat"}, session : Sessions, list : SUBSET Sessions,
                     waiting : 0..MaxRequests]
<1>1. page \in Chats BY DEF Pages
<1>2. \A w \in 0..MaxRequests : /\ [page EXCEPT !.waiting = w] \in Chats
                                /\ [page EXCEPT !.waiting = w].at = "chat"
  BY <1>1
<1>3. \A s : [page EXCEPT !.list = @ \ {s}] \in Chats BY <1>1
<1>4. Chats \subseteq Pages BY DEF Pages
<1> QED BY <1>2, <1>3, <1>4

LEMMA ListedType ==
  ASSUME TypeOK, NEW p
  PROVE  Listed(p) \subseteq Sessions
BY DEF Listed, TypeOK, Messages, Keys

LEMMA ShowType ==
  ASSUME tabs \in [Tabs -> Pages], NEW t \in Tabs, NEW page \in Pages, Show(t, page)
  PROVE  tabs' \in [Tabs -> Pages]
BY DEF Show

LEMMA ReqTypes ==
  ASSUME ChatAssumption, TypeOK
  PROVE  /\ DOMAIN reqs = 1..Len(reqs) /\ Len(reqs) \in 0..MaxRequests
         /\ \A q \in DOMAIN reqs :
              q \in 1..MaxRequests /\ reqs[q] \in Requests /\ KeyOf(q) \in Keys
<1>1. DOMAIN reqs = 1..Len(reqs) /\ Len(reqs) \in 0..MaxRequests
  BY LenProperties DEF TypeOK, ChatAssumption
<1>2. ASSUME NEW q \in DOMAIN reqs
      PROVE  q \in 1..MaxRequests /\ reqs[q] \in Requests /\ KeyOf(q) \in Keys
  <2>1. q \in 1..MaxRequests BY <1>1 DEF ChatAssumption
  <2>2. reqs[q] \in Requests BY <1>1, ElementOfSeq DEF TypeOK
  <2>3. KeyOf(q) \in Keys BY <2>2 DEF KeyOf, Key, Keys, Requests
  <2> QED BY <2>1, <2>2, <2>3
<1> QED BY <1>1, <1>2

\* A thread changes the record of its own request.
LEMMA UpdateReq ==
  ASSUME ChatAssumption, TypeOK, NEW q \in DOMAIN reqs, NEW r \in Requests,
         reqs' = [reqs EXCEPT ![q] = r]
  PROVE  /\ reqs' \in Seq(Requests) /\ Len(reqs') = Len(reqs)
         /\ DOMAIN reqs' = DOMAIN reqs
         /\ reqs'[q] = r
         /\ \A p \in DOMAIN reqs \ {q} : reqs'[p] = reqs[p]
<1>1. q \in 1..Len(reqs) /\ DOMAIN reqs = 1..Len(reqs) /\ reqs \in Seq(Requests)
  BY ReqTypes DEF TypeOK
<1> QED BY <1>1, ExceptSeq, LenProperties

\* A page or the server changes all of them.
LEMMA UpdateAll ==
  ASSUME ChatAssumption, TypeOK, NEW f \in [DOMAIN reqs -> Requests], reqs' = f
  PROVE  /\ reqs' \in Seq(Requests) /\ Len(reqs') = Len(reqs)
         /\ DOMAIN reqs' = DOMAIN reqs
<1>1. DOMAIN reqs = 1..Len(reqs) /\ Len(reqs) \in Nat
  BY ReqTypes DEF ChatAssumption
<1> QED BY <1>1

LEMMA EndedType ==
  ASSUME NEW req \in Requests
  PROVE  /\ Ended(req) \in Requests
         /\ Ended(req).pc = "ended" /\ Ended(req).context = {} /\ Ended(req).edits = {}
         /\ Ended(req).project = req.project /\ Ended(req).session = req.session
         /\ Ended(req).ts = req.ts /\ Ended(req).erased = req.erased
BY DEF Ended, Requests

\* What each step of a thread does to its record.
Others(q) ==
  /\ q \in DOMAIN reqs /\ reqs[q] \in Requests
  /\ reqs' \in Seq(Requests) /\ Len(reqs') = Len(reqs) /\ DOMAIN reqs' = DOMAIN reqs
  /\ \A p \in DOMAIN reqs \ {q} : reqs'[p] = reqs[p]

LEMMA AskEffect ==
  ASSUME ChatAssumption, TypeOK, NEW q, SaveQuestion(q)
  PROVE  Others(q) /\ reqs'[q] = [reqs[q] EXCEPT !.pc = "load", !.ts = now]
<1>1. q \in DOMAIN reqs BY DEF SaveQuestion, At
<1>2. reqs[q] \in Requests BY <1>1, ReqTypes
<1> DEFINE r == [reqs[q] EXCEPT !.pc = "load", !.ts = now]
<1>3. r \in Requests BY <1>2 DEF Requests, TypeOK
<1>4. reqs' = [reqs EXCEPT ![q] = r] BY DEF SaveQuestion
<1> HIDE DEF r
<1> QED BY <1>1, <1>2, <1>3, <1>4, UpdateReq DEF r, Others

LEMMA LoadEffect ==
  ASSUME ChatAssumption, TypeOK, NEW q, LoadHistory(q)
  PROVE  /\ Others(q)
         /\ reqs'[q] = [reqs[q] EXCEPT !.pc = "agent", !.context = History(KeyOf(q))]
<1>1. q \in DOMAIN reqs BY DEF LoadHistory, At
<1>2. reqs[q] \in Requests BY <1>1, ReqTypes
<1> DEFINE r == [reqs[q] EXCEPT !.pc = "agent", !.context = History(KeyOf(q))]
<1>3. History(KeyOf(q)) \in SUBSET Messages BY DEF History, TypeOK
<1>4. r \in Requests BY <1>2, <1>3 DEF Requests
<1>5. reqs' = [reqs EXCEPT ![q] = r] BY DEF LoadHistory
<1> HIDE DEF r
<1> QED BY <1>1, <1>2, <1>4, <1>5, UpdateReq DEF r, Others

LEMMA EditEffect ==
  ASSUME ChatAssumption, TypeOK, NEW q, EditRequest(q)
  PROVE  /\ Others(q)
         /\ reqs'[q] = [reqs[q] EXCEPT !.edits = @ \cup LatestMessage(KeyOf(q))]
<1>1. q \in DOMAIN reqs BY DEF EditRequest, At
<1>2. reqs[q] \in Requests BY <1>1, ReqTypes
<1> DEFINE r == [reqs[q] EXCEPT !.edits = @ \cup LatestMessage(KeyOf(q))]
<1>3. LatestMessage(KeyOf(q)) \in SUBSET (0..MaxRequests)
  BY DEF LatestMessage, RequestOf, UserRows, History, TypeOK, Messages, ChatAssumption
<1>4. r \in Requests BY <1>2, <1>3 DEF Requests
<1>5. reqs' = [reqs EXCEPT ![q] = r] BY DEF EditRequest
<1> HIDE DEF r
<1> QED BY <1>1, <1>2, <1>4, <1>5, UpdateReq DEF r, Others

LEMMA EndEffect ==
  ASSUME ChatAssumption, TypeOK, NEW q, SaveAnswer(q) \/ Raise(q)
  PROVE  Others(q) /\ reqs'[q] = Ended(reqs[q])
<1>1. q \in DOMAIN reqs BY DEF SaveAnswer, Raise, At
<1>2. reqs[q] \in Requests BY <1>1, ReqTypes
<1>3. Ended(reqs[q]) \in Requests BY <1>2, EndedType
<1>4. reqs' = [reqs EXCEPT ![q] = Ended(reqs[q])] BY DEF SaveAnswer, Raise, End
<1> QED BY <1>1, <1>2, <1>3, <1>4, UpdateReq DEF Others

LEMMA ThreadEffect ==
  ASSUME ChatAssumption, TypeOK, NEW q, Thread(q)
  PROVE  Others(q)
BY AskEffect, LoadEffect, EditEffect, EndEffect DEF Thread

LEMMA SubmitEffect ==
  ASSUME ChatAssumption, TypeOK, NEW t \in Tabs, Submit(t)
  PROVE  /\ reqs' \in Seq(Requests) /\ Len(reqs') = Len(reqs) + 1 /\ Len(reqs') <= MaxRequests
         /\ DOMAIN reqs' = DOMAIN reqs \cup {Len(reqs) + 1} /\ Len(reqs) + 1 \notin DOMAIN reqs
         /\ \A q \in DOMAIN reqs : reqs'[q] = reqs[q]
         /\ reqs'[Len(reqs) + 1] =
              [project |-> cookie, session |-> tabs[t].session, pc |-> "ask", ts |-> 0,
               context |-> {}, edits |-> {}, erased |-> FALSE, deleted |-> FALSE]
<1> DEFINE new == [project |-> cookie, session |-> tabs[t].session, pc |-> "ask", ts |-> 0,
                   context |-> {}, edits |-> {}, erased |-> FALSE, deleted |-> FALSE]
<1>1. tabs[t].session \in Sessions BY PageShape DEF Submit, TypeOK
<1>2. new \in Requests BY <1>1 DEF Submit, TypeOK, Requests, ChatAssumption
<1>3. reqs' = Append(reqs, new) /\ Len(reqs) < MaxRequests BY DEF Submit
<1>4. reqs \in Seq(Requests) BY DEF TypeOK
<1>5. DOMAIN reqs = 1..Len(reqs) /\ Len(reqs) \in Nat /\ MaxRequests \in Nat
  BY ReqTypes DEF ChatAssumption
<1> HIDE DEF new
<1>6. /\ reqs' \in Seq(Requests) /\ Len(reqs') = Len(reqs) + 1
      /\ \A q \in 1..Len(reqs) : reqs'[q] = reqs[q]
      /\ reqs'[Len(reqs) + 1] = new
  BY <1>2, <1>3, <1>4, AppendProperties
<1>7. DOMAIN reqs' = 1..Len(reqs') BY <1>6, LenProperties
<1> QED BY <1>3, <1>5, <1>6, <1>7 DEF new

LEMMA SubmitNew ==
  ASSUME ChatAssumption, TypeOK, NEW t \in Tabs, Submit(t), NEW q \in DOMAIN reqs'
  PROVE  \/ q \in DOMAIN reqs /\ reqs'[q] = reqs[q]
         \/ /\ reqs'[q].pc = "ask" /\ reqs'[q].ts = 0 /\ ~reqs'[q].erased
            /\ reqs'[q].context = {} /\ reqs'[q].edits = {}
<1>1. CASE q \in DOMAIN reqs BY <1>1, SubmitEffect
<1>2. CASE q = Len(reqs) + 1
  <2>1. reqs'[q] = [project |-> cookie, session |-> tabs[t].session, pc |-> "ask", ts |-> 0,
                    context |-> {}, edits |-> {}, erased |-> FALSE, deleted |-> FALSE]
    BY <1>2, SubmitEffect
  <2> QED BY <2>1
<1>3. DOMAIN reqs' = DOMAIN reqs \cup {Len(reqs) + 1} BY SubmitEffect
<1> QED BY <1>1, <1>2, <1>3

LEMMA RestartEffect ==
  ASSUME ChatAssumption, TypeOK, Restart
  PROVE  /\ reqs' \in Seq(Requests) /\ Len(reqs') = Len(reqs) /\ DOMAIN reqs' = DOMAIN reqs
         /\ \A q \in DOMAIN reqs : reqs'[q] = IF Running(q) THEN Ended(reqs[q]) ELSE reqs[q]
<1> DEFINE f == [q \in DOMAIN reqs |-> IF Running(q) THEN Ended(reqs[q]) ELSE reqs[q]]
<1>1. \A q \in DOMAIN reqs : reqs[q] \in Requests /\ Ended(reqs[q]) \in Requests
  BY ReqTypes, EndedType
<1>2. f \in [DOMAIN reqs -> Requests] BY <1>1
<1>3. reqs' = f BY DEF Restart
<1> HIDE DEF f
<1>4. reqs' \in Seq(Requests) /\ Len(reqs') = Len(reqs) /\ DOMAIN reqs' = DOMAIN reqs
  BY <1>2, <1>3, UpdateAll
<1> QED BY <1>3, <1>4 DEF f

\* A request as a deletion of a conversation marks it.
Marked(q, key) ==
  [reqs[q] EXCEPT !.erased  = @ \/ (HasAsked(q) /\ KeyOf(q) = key),
                  !.deleted = @ \/ (Running(q) /\ KeyOf(q) = key)]

LEMMA MarkedType ==
  ASSUME NEW q, reqs[q] \in Requests, NEW key
  PROVE  LET m == Marked(q, key)
         IN /\ m \in Requests
            /\ m.project = reqs[q].project /\ m.session = reqs[q].session
            /\ m.pc = reqs[q].pc /\ m.ts = reqs[q].ts
            /\ m.context = reqs[q].context /\ m.edits = reqs[q].edits
            /\ m.erased = (reqs[q].erased \/ (HasAsked(q) /\ KeyOf(q) = key))
            /\ ~Running(q) => m = reqs[q]
<1> DEFINE e == HasAsked(q) /\ KeyOf(q) = key
           d == Running(q) /\ KeyOf(q) = key
           req == reqs[q]
<1>1. e \in BOOLEAN /\ d \in BOOLEAN BY DEF HasAsked, Running
<1>2. req \in Requests /\ req.erased \in BOOLEAN /\ req.deleted \in BOOLEAN
  BY DEF Requests
<1>3. (req.erased \/ e) \in BOOLEAN /\ (req.deleted \/ d) \in BOOLEAN
  BY <1>1, <1>2
<1>4. ~Running(q) => (req.erased \/ e) = req.erased /\ (req.deleted \/ d) = req.deleted
  BY <1>1, <1>2 DEF Running, HasAsked
<1>5. Marked(q, key) = [req EXCEPT !.erased = req.erased \/ e, !.deleted = req.deleted \/ d]
  BY DEF Marked
<1> HIDE DEF e, d, req
<1> DEFINE b == req.erased \/ e
           c == req.deleted \/ d
<1>6. b \in BOOLEAN /\ c \in BOOLEAN BY <1>3
<1>7. Marked(q, key) = [req EXCEPT !.erased = b, !.deleted = c] BY <1>5
<1>8. ~Running(q) => b = req.erased /\ c = req.deleted BY <1>4
<1>9. b = (req.erased \/ (HasAsked(q) /\ KeyOf(q) = key)) BY DEF e
<1> HIDE DEF b, c
<1> DEFINE m == Marked(q, key)
<1>10. /\ m \in Requests
       /\ m.project = req.project /\ m.session = req.session
       /\ m.pc = req.pc /\ m.ts = req.ts
       /\ m.context = req.context /\ m.edits = req.edits /\ m.erased = b
  BY <1>2, <1>6, <1>7 DEF Requests
<1>11. b = req.erased /\ c = req.deleted => m = req
  BY <1>2, <1>7 DEF Requests
<1> HIDE DEF m
<1> QED BY <1>8, <1>9, <1>10, <1>11 DEF m, req

LEMMA DeleteEffect ==
  ASSUME ChatAssumption, TypeOK, NEW t \in Tabs, NEW s \in Sessions, DeleteSession(t, s)
  PROVE  /\ reqs' \in Seq(Requests) /\ Len(reqs') = Len(reqs) /\ DOMAIN reqs' = DOMAIN reqs
         /\ \A q \in DOMAIN reqs :
              reqs'[q] = Marked(q, Key(cookie, s))
<1> DEFINE f == [q \in DOMAIN reqs |-> Marked(q, Key(cookie, s))]
<1>1. \A q \in DOMAIN reqs : reqs[q] \in Requests BY ReqTypes
<1>2. f \in [DOMAIN reqs -> Requests]
  <2> SUFFICES ASSUME NEW q \in DOMAIN reqs PROVE f[q] \in Requests
    OBVIOUS
  <2>1. Marked(q, Key(cookie, s)) \in Requests BY <1>1, MarkedType
  <2> QED BY <2>1
<1>3. reqs' = f BY DEF DeleteSession, Marked
<1> HIDE DEF f
<1>4. reqs' \in Seq(Requests) /\ Len(reqs') = Len(reqs) /\ DOMAIN reqs' = DOMAIN reqs
  BY <1>2, <1>3, UpdateAll
<1> QED BY <1>3, <1>4 DEF f

-----------------------------------------------------------------------------
\* What a tab does to its page.
LEMMA TabEffect ==
  ASSUME ChatAssumption, TypeOK, NEW t \in Tabs, Browser(t)
  PROVE  tabs' \in [Tabs -> Pages]
<1>1. tabs \in [Tabs -> Pages] /\ tabs[t] \in Pages /\ cookie \in Projects \cup {None}
  BY DEF TypeOK
<1> SUFFICES \E page \in Pages : Show(t, page)
  BY <1>1, ShowType
<1>2. ASSUME NEW p \in Projects, SelectProject(t, p) PROVE \E page \in Pages : Show(t, page)
  BY <1>2, PageKinds DEF SelectProject
<1>3. CASE ChatSession(t)
  <2>1. tabs[t].session \in Sessions BY <1>1, <1>3, PageShape DEF ChatSession
  <2>2. ASSUME cookie # None PROVE Page(tabs[t].session, cookie) \in Pages
    <3>1. Listed(cookie) \cup {tabs[t].session} \in SUBSET Sessions BY <2>1, ListedType
    <3>2. 0 \in 0..MaxRequests BY DEF ChatAssumption
    <3> QED BY <2>1, <3>1, <3>2 DEF Page, Pages
  <2> QED BY <1>1, <1>3, <2>1, <2>2, PageKinds DEF ChatSession
<1>4. CASE AlterTable(t)
  <2>1. tabs[t].session \in Sessions /\ tabs[t].project \in Projects
    BY <1>1, <1>4, PageShape DEF AlterTable
  <2>2. Page(tabs[t].session, tabs[t].project) \in Pages
    <3>1. Listed(tabs[t].project) \cup {tabs[t].session} \in SUBSET Sessions
      BY <2>1, ListedType
    <3>2. 0 \in 0..MaxRequests BY DEF ChatAssumption
    <3> QED BY <2>1, <3>1, <3>2 DEF Page, Pages
  <2> QED BY <1>4, <2>1, <2>2, PageKinds DEF AlterTable
<1>5. CASE GoHome(t)
  BY <1>5, PageKinds DEF GoHome
<1>6. CASE OpenSession(t)
  BY <1>6, PageKinds DEF OpenSession
<1>7. CASE NewSession(t)
  BY <1>7, PageKinds DEF NewSession
<1>8. CASE ExitProject(t)
  BY <1>8, PageKinds DEF ExitProject
<1>9. CASE Submit(t)
  <2>1. [tabs[t] EXCEPT !.waiting = Len(reqs) + 1] \in Pages
    BY <1>1, <1>9, ChatPage, ReqTypes DEF Submit, ChatAssumption
  <2> QED BY <1>9, <2>1 DEF Submit
<1>10. CASE StreamEnds(t)
  <2>1. [tabs[t] EXCEPT !.waiting = 0] \in Pages
    BY <1>1, <1>10, ChatPage DEF StreamEnds, ChatAssumption
  <2> QED BY <1>10, <2>1 DEF StreamEnds
<1>11. ASSUME NEW s \in Sessions, DeleteSession(t, s) PROVE \E page \in Pages : Show(t, page)
  <2>1. [tabs[t] EXCEPT !.list = @ \ {s}] \in Pages
    BY <1>1, <1>11, ChatPage DEF DeleteSession
  <2>2. \A w \in {"leaving", "renewing"} : [at |-> w] \in Pages BY PageKinds
  <2>3. CASE s = tabs[t].session BY <1>11, <2>2, <2>3 DEF DeleteSession
  <2>4. CASE s # tabs[t].session BY <1>11, <2>1, <2>4 DEF DeleteSession
  <2> QED BY <2>3, <2>4
<1> QED BY <1>2, <1>3, <1>4, <1>5, <1>6, <1>7, <1>8, <1>9, <1>10, <1>11 DEF Browser

LEMMA RestartTabs ==
  ASSUME ChatAssumption, TypeOK, Restart
  PROVE  /\ tabs' \in [Tabs -> Pages]
         /\ \A t \in Tabs : tabs'[t].at = "chat" => tabs[t].at = "chat"
<1> DEFINE page(t) == CASE tabs[t].at = "chat" -> [tabs[t] EXCEPT !.waiting = 0]
                        [] tabs[t].at = "altering" -> [at |-> "failed", session |-> tabs[t].session]
                        [] OTHER -> tabs[t]
<1>1. tabs' = [t \in Tabs |-> page(t)] BY DEF Restart
<1>2. ASSUME NEW t \in Tabs
      PROVE  page(t) \in Pages /\ (page(t).at = "chat" => tabs[t].at = "chat")
  <2>1. tabs[t] \in Pages BY DEF TypeOK
  <2>2. CASE tabs[t].at = "chat"
    <3>1. [tabs[t] EXCEPT !.waiting = 0] \in Pages
      BY <2>1, <2>2, ChatPage DEF ChatAssumption
    <3> QED BY <2>2, <3>1
  <2>3. CASE tabs[t].at = "altering"
    <3>1. [at |-> "failed", session |-> tabs[t].session] \in Pages
      BY <2>1, <2>3, PageShape, PageKinds
    <3> QED BY <2>3, <3>1
  <2>4. CASE tabs[t].at \notin {"chat", "altering"} BY <2>1, <2>4
  <2> QED BY <2>2, <2>3, <2>4
<1> HIDE DEF page
<1> QED BY <1>1, <1>2

\* A row that is saved.
LEMMA SaveType ==
  ASSUME ChatAssumption, TypeOK, NEW q \in DOMAIN reqs, NEW role \in {"user", "ai"},
         Save(KeyOf(q), role, q)
  PROVE  rows' \subseteq Messages /\ serial' \in Nat
<1>1. q \in 1..MaxRequests /\ KeyOf(q) \in Keys BY ReqTypes
<1> QED BY <1>1 DEF Save, Row, Messages, TypeOK

LEMMA TypeStep ==
  ASSUME ChatAssumption, TypeOK, [Next]_vars
  PROVE  TypeOK'
<1> USE DEF TypeOK
<1>1. ASSUME NEW t \in Tabs, Browser(t) PROVE TypeOK'
  <2>1. tabs' \in [Tabs -> Pages] BY <1>1, TabEffect
  <2>2. ASSUME NEW p \in Projects, SelectProject(t, p) PROVE TypeOK'
    BY <2>1, <2>2 DEF SelectProject, Draw
  <2>3. CASE ChatSession(t) BY <2>1, <2>3 DEF ChatSession
  <2>4. CASE AlterTable(t) BY <2>1, <2>4 DEF AlterTable
  <2>5. CASE GoHome(t) BY <2>1, <2>5 DEF GoHome
  <2>6. CASE OpenSession(t) BY <2>1, <2>6 DEF OpenSession
  <2>7. CASE NewSession(t) BY <2>1, <2>7 DEF NewSession, Draw
  <2>8. CASE ExitProject(t) BY <2>1, <2>8 DEF ExitProject
  <2>9. CASE Submit(t)
    <3>1. reqs' \in Seq(Requests) /\ Len(reqs') <= MaxRequests BY <2>9, SubmitEffect
    <3> QED BY <2>1, <2>9, <3>1 DEF Submit
  <2>10. CASE StreamEnds(t) BY <2>1, <2>10 DEF StreamEnds
  <2>11. ASSUME NEW s \in Sessions, DeleteSession(t, s) PROVE TypeOK'
    <3>1. reqs' \in Seq(Requests) /\ Len(reqs') <= MaxRequests BY <2>11, DeleteEffect
    <3>2. rows' \subseteq rows BY <2>11 DEF DeleteSession, Without
    <3> QED BY <2>1, <2>11, <3>1, <3>2 DEF DeleteSession
  <2> QED
    BY <1>1, <2>2, <2>3, <2>4, <2>5, <2>6, <2>7, <2>8, <2>9, <2>10, <2>11 DEF Browser
<1>2. ASSUME NEW q \in 1..MaxRequests, Thread(q) PROVE TypeOK'
  <2>1. q \in DOMAIN reqs /\ reqs' \in Seq(Requests) /\ Len(reqs') <= MaxRequests
    BY <1>2, ThreadEffect, ReqTypes DEF Others
  <2>2. CASE SaveQuestion(q)
    <3>1. rows' \subseteq Messages /\ serial' \in Nat
      BY <2>1, <2>2, SaveType DEF SaveQuestion
    <3> QED BY <2>1, <2>2, <3>1 DEF SaveQuestion
  <2>3. CASE LoadHistory(q) BY <2>1, <2>3 DEF LoadHistory
  <2>4. CASE EditRequest(q) BY <2>1, <2>4 DEF EditRequest
  <2>5. CASE SaveAnswer(q)
    <3>1. rows' \subseteq Messages /\ serial' \in Nat
      BY <2>1, <2>5, SaveType DEF SaveAnswer
    <3> QED BY <2>1, <2>5, <3>1 DEF SaveAnswer
  <2>6. CASE Raise(q) BY <2>1, <2>6 DEF Raise
  <2> QED BY <1>2, <2>2, <2>3, <2>4, <2>5, <2>6 DEF Thread
<1>3. CASE Restart
  <2>1. reqs' \in Seq(Requests) /\ Len(reqs') <= MaxRequests BY <1>3, RestartEffect
  <2> QED BY <1>3, <2>1, RestartTabs DEF Restart
<1>4. CASE Tick BY <1>4 DEF Tick, ChatAssumption
<1>5. CASE UNCHANGED vars BY <1>5 DEF vars
<1> QED BY <1>1, <1>2, <1>3, <1>4, <1>5 DEF Next

LEMMA InitType == ASSUME ChatAssumption, Init PROVE TypeOK
<1>1. tabs \in [Tabs -> Pages] BY PageKinds DEF Init
<1>2. reqs \in Seq(Requests) /\ Len(reqs) = 0 BY EmptySeq DEF Init
<1>3. now \in 0..MaxTime /\ Len(reqs) <= MaxRequests BY <1>2 DEF Init, ChatAssumption
<1>4. column \in BOOLEAN /\ rows \subseteq Messages /\ serial \in Nat
      /\ cookie \in Projects \cup {None} /\ drawn \subseteq Sessions
  BY DEF Init
<1> QED BY <1>1, <1>2, <1>3, <1>4 DEF TypeOK

\* The chat's state stays well typed: no request runs without a project, and no
\* page shows what its place has not.
THEOREM TypeCorrect == Spec => []TypeOK
<1>1. Init => TypeOK BY ChatAssumption, InitType
<1>2. TypeOK /\ [Next]_vars => TypeOK' BY ChatAssumption, TypeStep
<1> QED BY <1>1, <1>2, PTL DEF Spec

-----------------------------------------------------------------------------
\* The steps that leave table and requests alone.
Quiet == rows' = rows /\ serial' = serial /\ reqs' = reqs /\ now <= now'

LEMMA Steps ==
  ASSUME ChatAssumption, TypeOK, [Next]_vars
  PROVE  \/ Quiet
         \/ \E t \in Tabs : Submit(t)
         \/ \E t \in Tabs, s \in Sessions : DeleteSession(t, s)
         \/ \E q \in 1..MaxRequests : Thread(q)
         \/ Restart
<1>1. now \in Nat BY DEF TypeOK, ChatAssumption
<1>2. ASSUME NEW t \in Tabs, Browser(t)
      PROVE  Quiet \/ Submit(t) \/ \E s \in Sessions : DeleteSession(t, s)
  BY <1>1, <1>2 DEF Browser, Quiet, SelectProject, ChatSession, AlterTable, GoHome, OpenSession,
     NewSession, ExitProject, StreamEnds
<1>3. CASE Tick BY <1>1, <1>3 DEF Tick, Quiet
<1>4. CASE UNCHANGED vars BY <1>1, <1>4 DEF vars, Quiet
<1> QED BY <1>2, <1>3, <1>4 DEF Next

\* Whatever happens, a request keeps its key, and what is past stays past.
LEMMA StepReqs ==
  ASSUME ChatAssumption, TypeOK, [Next]_vars
  PROVE  /\ now \in Nat /\ now' \in Nat /\ now' >= now
         /\ DOMAIN reqs \subseteq DOMAIN reqs'
         /\ \A q \in DOMAIN reqs :
              /\ reqs'[q].project = reqs[q].project /\ reqs'[q].session = reqs[q].session
              /\ KeyOf(q)' = KeyOf(q)
              /\ reqs[q].erased => reqs'[q].erased
              /\ reqs[q].pc # "ask" => reqs'[q].pc # "ask" /\ reqs'[q].ts = reqs[q].ts
              /\ reqs[q].pc = "ended" => reqs'[q] = reqs[q]
<1> DEFINE Kept(q) ==
      /\ reqs'[q].project = reqs[q].project /\ reqs'[q].session = reqs[q].session
      /\ reqs[q].erased => reqs'[q].erased
      /\ reqs[q].pc # "ask" => reqs'[q].pc # "ask" /\ reqs'[q].ts = reqs[q].ts
      /\ reqs[q].pc = "ended" => reqs'[q] = reqs[q]
<1>1. \A q \in DOMAIN reqs : reqs[q] \in Requests BY ReqTypes
<1>2. now \in Nat BY DEF TypeOK, ChatAssumption
<1> SUFFICES now' >= now /\ DOMAIN reqs \subseteq DOMAIN reqs' /\ \A q \in DOMAIN reqs : Kept(q)
  BY <1>2, TypeStep DEF KeyOf, TypeOK, ChatAssumption
<1>3. CASE Quiet BY <1>2, <1>3 DEF Quiet
<1>4. ASSUME NEW t \in Tabs, Submit(t)
      PROVE  now' >= now /\ DOMAIN reqs \subseteq DOMAIN reqs' /\ \A q \in DOMAIN reqs : Kept(q)
  <2>1. now' >= now BY <1>2, <1>4 DEF Submit
  <2> QED BY <1>4, <2>1, SubmitEffect
<1>5. ASSUME NEW t \in Tabs, NEW s \in Sessions, DeleteSession(t, s)
      PROVE  now' >= now /\ DOMAIN reqs \subseteq DOMAIN reqs' /\ \A q \in DOMAIN reqs : Kept(q)
  <2>0. now' = now BY <1>5, Zenon DEF DeleteSession
  <2>1. now' >= now BY <1>2, <2>0
  <2>2. DOMAIN reqs' = DOMAIN reqs BY <1>5, DeleteEffect
  <2>3. ASSUME NEW q \in DOMAIN reqs PROVE Kept(q)
    <3>1. reqs'[q] = Marked(q, Key(cookie, s)) BY <1>5, DeleteEffect
    <3>2. reqs[q] \in Requests BY <1>1
    <3> DEFINE m == Marked(q, Key(cookie, s))
    <3>3. /\ m.project = reqs[q].project /\ m.session = reqs[q].session
          /\ m.pc = reqs[q].pc /\ m.ts = reqs[q].ts
          /\ reqs[q].erased => m.erased
          /\ reqs[q].pc = "ended" => m = reqs[q]
      BY <3>2, MarkedType DEF Running, HasAsked
    <3>4. reqs'[q] = m BY <3>1
    <3> HIDE DEF m
    <3> QED BY <3>3, <3>4
  <2> QED BY <2>1, <2>2, <2>3
<1>6. ASSUME NEW p \in 1..MaxRequests, Thread(p)
      PROVE  now' >= now /\ DOMAIN reqs \subseteq DOMAIN reqs' /\ \A q \in DOMAIN reqs : Kept(q)
  <2>1. now' >= now
    BY <1>2, <1>6 DEF Thread, SaveQuestion, LoadHistory, EditRequest, SaveAnswer, Raise
  <2>2. /\ p \in DOMAIN reqs /\ DOMAIN reqs' = DOMAIN reqs
        /\ \A q \in DOMAIN reqs \ {p} : reqs'[q] = reqs[q]
    BY <1>6, ThreadEffect DEF Others
  <2>3. Kept(p)
    <3>1. reqs[p] \in Requests BY <1>1, <2>2
    <3>2. CASE SaveQuestion(p)
      BY <3>1, <3>2, AskEffect DEF SaveQuestion, At, Requests
    <3>3. CASE LoadHistory(p)
      BY <3>1, <3>3, LoadEffect DEF LoadHistory, At, Requests
    <3>4. CASE EditRequest(p)
      BY <3>1, <3>4, EditEffect DEF EditRequest, At, Requests
    <3>5. CASE SaveAnswer(p) \/ Raise(p)
      BY <3>1, <3>5, EndEffect, EndedType DEF SaveAnswer, Raise, At, Running
    <3> QED BY <1>6, <3>2, <3>3, <3>4, <3>5 DEF Thread
  <2> QED BY <2>1, <2>2, <2>3
<1>7. CASE Restart
  <2>1. now' >= now BY <1>2, <1>7 DEF Restart
  <2> QED BY <1>1, <1>7, <2>1, RestartEffect, EndedType DEF Running
<1> QED BY <1>3, <1>4, <1>5, <1>6, <1>7, Steps

\* Which steps change the table, and how.
LEMMA StepRows ==
  ASSUME ChatAssumption, TypeOK, [Next]_vars
  PROVE  /\ serial \in Nat /\ serial' \in Nat /\ serial' >= serial
         /\ \/ rows' = rows
            \/ \E t \in Tabs, s \in Sessions :
                 DeleteSession(t, s) /\ rows' = Without(Key(cookie, s))
            \/ \E q \in DOMAIN reqs :
                 \/ SaveQuestion(q) /\ Save(KeyOf(q), "user", q)
                 \/ SaveAnswer(q) /\ Save(KeyOf(q), "ai", q)
<1>1. serial \in Nat BY DEF TypeOK
<1>2. CASE Quiet BY <1>1, <1>2 DEF Quiet
<1>3. ASSUME NEW t \in Tabs, Submit(t) PROVE rows' = rows /\ serial' = serial
  BY <1>3 DEF Submit
<1>4. ASSUME NEW t \in Tabs, NEW s \in Sessions, DeleteSession(t, s)
      PROVE  rows' = Without(Key(cookie, s)) /\ serial' = serial
  BY <1>4 DEF DeleteSession
<1>5. ASSUME NEW q \in 1..MaxRequests, Thread(q)
      PROVE  \/ rows' = rows /\ serial' = serial
             \/ q \in DOMAIN reqs /\ SaveQuestion(q) /\ Save(KeyOf(q), "user", q)
             \/ q \in DOMAIN reqs /\ SaveAnswer(q) /\ Save(KeyOf(q), "ai", q)
  BY <1>5 DEF Thread, SaveQuestion, LoadHistory, EditRequest, SaveAnswer, Raise, At
<1>6. CASE Restart BY <1>1, <1>6 DEF Restart
<1>7. \A q : Save(KeyOf(q), "user", q) \/ Save(KeyOf(q), "ai", q) => serial' = serial + 1
  BY DEF Save
<1> QED BY <1>1, <1>2, <1>3, <1>4, <1>5, <1>6, <1>7, Steps

-----------------------------------------------------------------------------
LEMMA MigratedStep ==
  ASSUME ChatAssumption, TypeOK, MigratedFirst, [Next]_vars
  PROVE  MigratedFirst'
<1> SUFFICES ASSUME ~column'
             PROVE  reqs' = <<>> /\ rows' = {} /\ \A t \in Tabs : tabs'[t].at # "chat"
  BY DEF MigratedFirst
<1> DEFINE Good == reqs' = <<>> /\ rows' = {} /\ \A t \in Tabs : tabs'[t].at # "chat"
<1>1. ~column
  BY DEF Next, vars, Browser, Thread, SelectProject, ChatSession, AlterTable, GoHome, OpenSession,
     NewSession, ExitProject, Submit, StreamEnds, DeleteSession, SaveQuestion, LoadHistory,
     EditRequest, SaveAnswer, Raise, Restart, Tick
<1>2. reqs = <<>> /\ rows = {} /\ \A t \in Tabs : tabs[t].at # "chat"
  BY <1>1 DEF MigratedFirst
<1>3. DOMAIN reqs = {} BY <1>2
<1>4. tabs \in [Tabs -> Pages] BY DEF TypeOK
<1>5. ASSUME NEW t \in Tabs, NEW page, page.at # "chat", Show(t, page)
      PROVE  \A o \in Tabs : tabs'[o].at # "chat"
  BY <1>2, <1>4, <1>5 DEF Show
<1>6. ASSUME NEW t \in Tabs, Browser(t) PROVE Good
  <2>1. ASSUME NEW p \in Projects, SelectProject(t, p) PROVE Good
    BY <1>2, <1>5, <2>1 DEF SelectProject, Opening
  <2>2. CASE ChatSession(t) BY <1>1, <1>2, <1>5, <2>2 DEF ChatSession
  <2>3. CASE AlterTable(t) BY <2>3 DEF AlterTable
  <2>4. CASE GoHome(t) \/ OpenSession(t) BY <1>2, <1>5, <2>4 DEF GoHome, OpenSession, Opening
  <2>5. CASE NewSession(t) BY <1>2, <1>5, <2>5 DEF NewSession, Opening
  <2>6. CASE ExitProject(t) BY <1>2, <1>5, <2>6 DEF ExitProject
  <2>7. ~Submit(t) /\ ~StreamEnds(t) /\ ~\E s \in Sessions : DeleteSession(t, s)
    BY <1>2 DEF Submit, StreamEnds, DeleteSession
  <2> QED BY <1>6, <2>1, <2>2, <2>3, <2>4, <2>5, <2>6, <2>7 DEF Browser
<1>7. \A q \in 1..MaxRequests : ~Thread(q)
  BY <1>3, ThreadEffect DEF Others
<1>8. CASE Restart
  <2>1. Len(reqs') = 0 /\ reqs' \in Seq(Requests)
    BY <1>2, <1>8, RestartEffect, EmptySeq
  <2>2. reqs' = <<>> BY <2>1, EmptySeq
  <2> QED BY <1>2, <1>8, <2>2, RestartTabs DEF Restart
<1>9. CASE Tick BY <1>2, <1>9 DEF Tick
<1>10. CASE UNCHANGED vars BY <1>2, <1>10 DEF vars
<1> QED BY <1>6, <1>7, <1>8, <1>9, <1>10 DEF Next

\* The rows there were stay true, and a new one is true of its request.
LEMMA RowsStep ==
  ASSUME ChatAssumption, TypeOK, \A row \in rows : RowOK(row), [Next]_vars
  PROVE  \A row \in rows' : RowOK(row)'
<1>1. ASSUME NEW row \in rows PROVE RowOK(row)'
  <2>1. row.ts \in Nat /\ row.id \in Nat BY DEF TypeOK, Messages, ChatAssumption
  <2>2. RowOK(row) OBVIOUS
  <2>3. row.id <= serial' BY <2>1, <2>2, StepRows DEF RowOK
  <2>4. row.ts <= now' BY <2>1, <2>2, StepReqs DEF RowOK
  <2>5. row.req \in DOMAIN reqs /\ row.key = KeyOf(row.req) BY <2>2 DEF RowOK
  <2>6. row.req \in DOMAIN reqs' /\ row.key = KeyOf(row.req)'
    BY <2>5, StepReqs
  <2>7. row.role = "user" => reqs'[row.req].pc # "ask" /\ row.ts = reqs'[row.req].ts
    BY <2>2, <2>5, StepReqs DEF RowOK
  <2>8. row.role = "ai" => reqs'[row.req].pc = "ended"
    BY <2>2, <2>5, StepReqs DEF RowOK
  <2> QED BY <2>3, <2>4, <2>6, <2>7, <2>8 DEF RowOK
<1>2. ASSUME NEW q \in DOMAIN reqs, NEW role \in {"user", "ai"}, NEW row,
             row = Row(KeyOf(q), role, q),
             role = "user" => SaveQuestion(q), role = "ai" => SaveAnswer(q)
      PROVE  RowOK(row)'
  <2>1. /\ row.id = serial + 1 /\ row.ts = now /\ row.req = q /\ row.role = role
        /\ row.key = KeyOf(q)
    BY <1>2 DEF Row
  <2>2. serial' = serial + 1 /\ now' = now BY <1>2 DEF SaveQuestion, SaveAnswer, Save
  <2>3. serial + 1 <= serial + 1 /\ now <= now BY DEF TypeOK, ChatAssumption
  <2>4. q \in DOMAIN reqs' /\ KeyOf(q)' = KeyOf(q) BY StepReqs
  <2>5. CASE role = "user"
    <3>1. /\ reqs[q] \in Requests
          /\ reqs'[q] = [reqs[q] EXCEPT !.pc = "load", !.ts = now]
      BY <1>2, <2>5, AskEffect DEF Others
    <3>2. reqs'[q].pc = "load" /\ reqs'[q].ts = now BY <3>1 DEF Requests
    <3> QED BY <2>1, <2>2, <2>3, <2>4, <2>5, <3>2 DEF RowOK
  <2>6. CASE role = "ai"
    <3>1. reqs'[q].pc = "ended" BY <1>2, <2>6, EndEffect, EndedType DEF Others
    <3> QED BY <2>1, <2>2, <2>3, <2>4, <2>6, <3>1 DEF RowOK
  <2> QED BY <2>5, <2>6
<1>3. ASSUME NEW row \in rows' PROVE row \in rows \/ RowOK(row)'
  <2>1. CASE rows' = rows BY <2>1
  <2>2. ASSUME NEW key, rows' = Without(key) PROVE row \in rows BY <2>2 DEF Without
  <2>3. ASSUME NEW q \in DOMAIN reqs, SaveQuestion(q), Save(KeyOf(q), "user", q)
        PROVE  row \in rows \/ RowOK(row)'
    BY <1>2, <2>3 DEF Save
  <2>4. ASSUME NEW q \in DOMAIN reqs, SaveAnswer(q), Save(KeyOf(q), "ai", q)
        PROVE  row \in rows \/ RowOK(row)'
    BY <1>2, <2>4 DEF Save
  <2> QED BY <2>1, <2>2, <2>3, <2>4, StepRows
<1> QED BY <1>1, <1>3

LEMMA OneQuestionStep ==
  ASSUME ChatAssumption, TypeOK, \A row \in rows : RowOK(row), OneQuestion, [Next]_vars
  PROVE  OneQuestion'
<1>1. CASE rows' \subseteq rows BY <1>1 DEF OneQuestion
<1>2. ASSUME NEW q \in DOMAIN reqs, SaveQuestion(q), Save(KeyOf(q), "user", q)
      PROVE  OneQuestion'
  <2>1. reqs[q].pc = "ask" BY <1>2 DEF SaveQuestion, At
  <2>2. \A row \in rows : row.role = "user" => row.req # q BY <2>1 DEF RowOK
  <2>3. Row(KeyOf(q), "user", q).req = q BY DEF Row
  <2> QED BY <1>2, <2>2, <2>3 DEF OneQuestion, Save
<1>3. ASSUME NEW q \in DOMAIN reqs, Save(KeyOf(q), "ai", q) PROVE OneQuestion'
  <2>1. Row(KeyOf(q), "ai", q).role = "ai" BY DEF Row
  <2> QED BY <1>3, <2>1 DEF OneQuestion, Save
<1>4. \A key : Without(key) \subseteq rows BY DEF Without
<1> QED BY <1>1, <1>2, <1>3, <1>4, StepRows

\* An answer comes after its question; a deletion takes both.
LEMMA OrphanStep ==
  ASSUME ChatAssumption, TypeOK, \A row \in rows : RowOK(row), OrphanOnlyByDelete,
         \A q \in DOMAIN reqs : RequestOK(q), [Next]_vars
  PROVE  OrphanOnlyByDelete'
<1> DEFINE Paired(answer, table) ==
      \E row \in table :
        IsQuestion(row, answer.req) /\ row.key = answer.key /\ row.id < answer.id
<1>1. ASSUME NEW answer \in rows, answer.role = "ai", ~reqs'[answer.req].erased
      PROVE  Paired(answer, rows)
  BY <1>1, StepReqs DEF RowOK, OrphanOnlyByDelete
<1>2. CASE rows' = rows BY <1>1, <1>2 DEF OrphanOnlyByDelete, IsQuestion
<1>3. ASSUME NEW key, rows' = Without(key) PROVE OrphanOnlyByDelete'
  BY <1>1, <1>3 DEF OrphanOnlyByDelete, Without, IsQuestion
<1>4. ASSUME NEW q \in DOMAIN reqs, SaveQuestion(q), Save(KeyOf(q), "user", q)
      PROVE  OrphanOnlyByDelete'
  <2>1. Row(KeyOf(q), "user", q).role = "user" BY DEF Row
  <2> QED BY <1>1, <1>4, <2>1 DEF OrphanOnlyByDelete, Save, IsQuestion
<1>5. ASSUME NEW q \in DOMAIN reqs, SaveAnswer(q), Save(KeyOf(q), "ai", q)
      PROVE  OrphanOnlyByDelete'
  <2> DEFINE new == Row(KeyOf(q), "ai", q)
  <2>1. new.req = q /\ new.key = KeyOf(q) /\ new.id = serial + 1 BY DEF Row
  <2>2. HasAsked(q) BY <1>5 DEF SaveAnswer, At, HasAsked
  <2>3. ASSUME ~reqs[q].erased PROVE Paired(new, rows)
    <3>1. PICK row \in UserRows(KeyOf(q)) : row.req = q BY <2>2, <2>3 DEF RequestOK
    <3>2. row \in rows /\ row.key = KeyOf(q) /\ row.role = "user"
      BY <3>1 DEF UserRows, History
    <3>3. row.id < serial + 1 BY <3>2 DEF RowOK, TypeOK, Messages
    <3> QED BY <2>1, <3>1, <3>2, <3>3 DEF IsQuestion
  <2>4. ~reqs'[q].erased => ~reqs[q].erased BY StepReqs
  <2>5. rows' = rows \cup {new} BY <1>5 DEF Save
  <2> HIDE DEF new
  <2>6. ASSUME NEW answer \in rows', answer.role = "ai", ~reqs'[answer.req].erased
        PROVE  Paired(answer, rows')
    <3>1. CASE answer \in rows BY <1>1, <2>5, <2>6, <3>1
    <3>2. CASE answer = new BY <2>1, <2>3, <2>4, <2>5, <2>6, <3>2
    <3> QED BY <2>5, <3>1, <3>2
  <2> QED BY <2>6 DEF OrphanOnlyByDelete, IsQuestion
<1> HIDE DEF Paired
<1> QED BY <1>2, <1>3, <1>4, <1>5, StepRows

-----------------------------------------------------------------------------
\* What every step leaves of RequestOK: time passes, edits stay possible.
LEMMA EditsStay ==
  ASSUME ChatAssumption, TypeOK, NEW q \in DOMAIN reqs, RequestOK(q), [Next]_vars
  PROVE  \A e \in reqs[q].edits \ {0} : e \in DOMAIN reqs' /\ reqs'[e].pc # "ask"
BY StepReqs DEF RequestOK

\* A thread that does nothing in this step keeps what it relies on.
LEMMA IdleStep ==
  ASSUME ChatAssumption, TypeOK, \A row \in rows : RowOK(row), [Next]_vars,
         NEW q \in DOMAIN reqs, RequestOK(q), reqs'[q] = reqs[q],
         ~\E t \in Tabs, s \in Sessions : DeleteSession(t, s)
  PROVE  RequestOK(q)'
<1>1. reqs[q] \in Requests /\ reqs[q].ts \in Nat BY ReqTypes DEF Requests, ChatAssumption
<1>2. KeyOf(q)' = KeyOf(q) /\ now \in Nat /\ now' \in Nat /\ now' >= now BY StepReqs
<1>3. HasAsked(q)' = HasAsked(q) BY DEF HasAsked
<1>4. reqs'[q].ts <= now' BY <1>1, <1>2 DEF RequestOK
<1>5. rows \subseteq rows' BY StepRows DEF Save
<1>6. HasAsked(q)' /\ ~reqs'[q].erased => \E row \in UserRows(KeyOf(q))' : row.req = q
  BY <1>2, <1>3, <1>5 DEF RequestOK, UserRows, History
<1>7. ASSUME HasAsked(q)', reqs'[q].erased, NEW row \in UserRows(KeyOf(q))'
      PROVE  row.ts >= reqs'[q].ts
  <2>1. row \in rows' /\ row.role = "user" /\ row.key = KeyOf(q)
    BY <1>2, <1>7 DEF UserRows, History
  <2>2. CASE row \in rows
    BY <1>3, <1>7, <2>1, <2>2 DEF RequestOK, UserRows, History
  <2>3. CASE row \notin rows
    <3>1. row.ts = now BY <2>1, <2>3, StepRows DEF Save, Row, Without
    <3> QED BY <1>1, <1>2, <3>1 DEF RequestOK
  <2> QED BY <2>2, <2>3
<1> QED BY <1>2, <1>3, <1>4, <1>6, <1>7, EditsStay DEF RequestOK

LEMMA RequestStep ==
  ASSUME ChatAssumption, TypeOK, \A row \in rows : RowOK(row), [Next]_vars,
         \A q \in DOMAIN reqs : RequestOK(q)
  PROVE  \A q \in DOMAIN reqs' : RequestOK(q)'
<1> DEFINE Deletes == \E t \in Tabs, s \in Sessions : DeleteSession(t, s)
<1>1. \A q \in DOMAIN reqs : reqs[q] \in Requests /\ reqs[q].ts \in Nat
  BY ReqTypes DEF Requests, ChatAssumption
<1>2. now \in Nat /\ now' \in Nat /\ now' >= now BY StepReqs
<1>3. CASE Quiet /\ ~Deletes
  BY <1>3, IdleStep DEF Quiet
<1>4. ASSUME NEW t \in Tabs, Submit(t), ~Deletes, NEW q \in DOMAIN reqs' PROVE RequestOK(q)'
  <2>1. CASE q \in DOMAIN reqs /\ reqs'[q] = reqs[q] BY <1>4, <2>1, IdleStep
  <2>2. CASE /\ reqs'[q].pc = "ask" /\ reqs'[q].ts = 0 /\ ~reqs'[q].erased
             /\ reqs'[q].context = {} /\ reqs'[q].edits = {}
    BY <1>2, <2>2 DEF RequestOK, HasAsked
  <2> QED BY <1>4, <2>1, <2>2, SubmitNew
<1>5. ASSUME NEW t \in Tabs, NEW s \in Sessions, DeleteSession(t, s), NEW q \in DOMAIN reqs
      PROVE  RequestOK(q)'
  <2> DEFINE key == Key(cookie, s)
  <2>1. rows' = Without(key) /\ now' = now BY <1>5 DEF DeleteSession
  <2>2. reqs'[q] = Marked(q, key) BY <1>5, DeleteEffect
  <2>3. /\ reqs'[q].pc = reqs[q].pc /\ reqs'[q].ts = reqs[q].ts
        /\ reqs'[q].context = reqs[q].context /\ reqs'[q].edits = reqs[q].edits
        /\ reqs'[q].erased = (reqs[q].erased \/ (HasAsked(q) /\ KeyOf(q) = key))
    BY <1>1, <2>2, MarkedType
  <2>4. KeyOf(q)' = KeyOf(q) BY StepReqs
  <2>5. HasAsked(q)' = HasAsked(q) BY <2>3 DEF HasAsked
  <2> HIDE DEF key
  <2>6. CASE HasAsked(q) /\ KeyOf(q) = key
    <3>1. UserRows(KeyOf(q))' = {}
      BY <2>1, <2>4, <2>6 DEF UserRows, History, Without
    <3>2. reqs'[q].erased BY <2>3, <2>6
    <3> QED BY <2>1, <2>3, <2>5, <2>6, <3>1, <3>2, EditsStay DEF RequestOK, HasAsked
  <2>7. CASE ~(HasAsked(q) /\ KeyOf(q) = key)
    <3>1. reqs'[q].erased = reqs[q].erased
      <4>1. reqs[q].erased \in BOOLEAN BY <1>1 DEF Requests
      <4> QED BY <2>3, <2>7, <4>1
    <3>2. HasAsked(q) => UserRows(KeyOf(q))' = UserRows(KeyOf(q))
      BY <2>1, <2>4, <2>7 DEF UserRows, History, Without
    <3> QED BY <2>1, <2>3, <2>5, <3>1, <3>2, EditsStay DEF RequestOK
  <2> QED BY <2>6, <2>7
<1>6. ASSUME NEW q \in DOMAIN reqs, SaveQuestion(q) PROVE RequestOK(q)'
  <2>1. reqs[q] \in Requests /\ reqs'[q] = [reqs[q] EXCEPT !.pc = "load", !.ts = now]
    BY <1>6, AskEffect DEF Others
  <2>2. /\ reqs'[q].pc = "load" /\ reqs'[q].ts = now /\ reqs'[q].context = reqs[q].context
        /\ reqs'[q].edits = reqs[q].edits /\ reqs'[q].erased = reqs[q].erased
    BY <2>1 DEF Requests
  <2>3. reqs[q].pc = "ask" /\ now' = now /\ Save(KeyOf(q), "user", q)
    BY <1>6 DEF SaveQuestion, At
  <2>4. KeyOf(q)' = KeyOf(q) BY StepReqs
  <2>5. \E row \in UserRows(KeyOf(q))' : row.req = q
    <3> DEFINE row == Row(KeyOf(q), "user", q)
    <3>1. row.key = KeyOf(q) /\ row.role = "user" /\ row.req = q BY DEF Row
    <3>2. row \in rows' BY <2>3 DEF Save
    <3> HIDE DEF row
    <3> QED BY <2>4, <3>1, <3>2 DEF UserRows, History
  <2>6. now <= now BY <1>2
  <2> QED BY <2>2, <2>3, <2>5, <2>6 DEF RequestOK, HasAsked
<1>7. ASSUME NEW q \in DOMAIN reqs, LoadHistory(q) PROVE RequestOK(q)'
  <2>1. reqs[q] \in Requests
        /\ reqs'[q] = [reqs[q] EXCEPT !.pc = "agent", !.context = History(KeyOf(q))]
    BY <1>7, LoadEffect DEF Others
  <2>2. /\ reqs'[q].pc = "agent" /\ reqs'[q].ts = reqs[q].ts
        /\ reqs'[q].edits = reqs[q].edits /\ reqs'[q].erased = reqs[q].erased
    BY <2>1 DEF Requests
  <2>3. reqs[q].pc = "load" /\ now' = now /\ rows' = rows BY <1>7 DEF LoadHistory, At
  <2>4. UserRows(KeyOf(q))' = UserRows(KeyOf(q)) BY <2>3, StepReqs DEF UserRows, History
  <2> QED BY <2>2, <2>3, <2>4, EditsStay DEF RequestOK, HasAsked
<1>8. ASSUME NEW q \in DOMAIN reqs, EditRequest(q) PROVE RequestOK(q)'
  <2>1. reqs[q] \in Requests
        /\ reqs'[q] = [reqs[q] EXCEPT !.edits = @ \cup LatestMessage(KeyOf(q))]
    BY <1>8, EditEffect DEF Others
  <2>2. /\ reqs'[q].pc = reqs[q].pc /\ reqs'[q].ts = reqs[q].ts
        /\ reqs'[q].context = reqs[q].context /\ reqs'[q].erased = reqs[q].erased
        /\ reqs'[q].edits = reqs[q].edits \cup LatestMessage(KeyOf(q))
    BY <2>1 DEF Requests
  <2>3. reqs[q].pc = "agent" /\ now' = now /\ rows' = rows BY <1>8 DEF EditRequest, At
  <2>4. UserRows(KeyOf(q))' = UserRows(KeyOf(q)) BY <2>3, StepReqs DEF UserRows, History
  <2>5. \A e \in LatestMessage(KeyOf(q)) \ {0} : e \in DOMAIN reqs /\ reqs[e].pc # "ask"
    BY DEF LatestMessage, RequestOf, UserRows, History, RowOK
  <2>6. \A e \in LatestMessage(KeyOf(q)) \ {0} : e \in DOMAIN reqs' /\ reqs'[e].pc # "ask"
    BY <2>5, StepReqs
  <2> QED BY <2>2, <2>3, <2>4, <2>6, EditsStay DEF RequestOK, HasAsked
<1>9. ASSUME NEW q \in DOMAIN reqs, reqs'[q] = Ended(reqs[q]) PROVE RequestOK(q)'
  <2>1. /\ reqs'[q].pc = "ended" /\ reqs'[q].ts = reqs[q].ts
        /\ reqs'[q].context = {} /\ reqs'[q].edits = {}
    BY <1>1, <1>9, EndedType
  <2> QED BY <1>1, <1>2, <2>1 DEF RequestOK, HasAsked
<1>10. ASSUME NEW p \in 1..MaxRequests, Thread(p), ~Deletes, NEW q \in DOMAIN reqs'
       PROVE  RequestOK(q)'
  <2>1. Others(p) BY <1>10, ThreadEffect
  <2>2. CASE q # p BY <1>10, <2>1, <2>2, IdleStep DEF Others
  <2>3. CASE q = p
    BY <1>6, <1>7, <1>8, <1>9, <1>10, <2>1, <2>3, EndEffect DEF Thread, Others
  <2> QED BY <2>2, <2>3
<1>11. ASSUME Restart, ~Deletes, NEW q \in DOMAIN reqs' PROVE RequestOK(q)'
  <2>1. q \in DOMAIN reqs /\ reqs'[q] = IF Running(q) THEN Ended(reqs[q]) ELSE reqs[q]
    BY <1>11, RestartEffect
  <2> QED BY <1>9, <1>11, <2>1, IdleStep
<1>12. CASE Deletes BY <1>5, <1>12, DeleteEffect
<1> QED BY <1>3, <1>4, <1>10, <1>11, <1>12, Steps

\* The question chosen is not of an earlier second than the thread's own, which
\* is among those it is chosen from or was deleted.
LEMMA EditStep ==
  ASSUME ChatAssumption, TypeOK, \A row \in rows : RowOK(row), [Next]_vars,
         \A q \in DOMAIN reqs : RequestOK(q), EditOlderOnlyByTie
  PROVE  EditOlderOnlyByTie'
<1> DEFINE Fits(q, e) == IF e = 0 THEN reqs[q].erased
                         ELSE KeyOf(e) = KeyOf(q) /\ reqs[e].ts >= reqs[q].ts
<1>1. ASSUME NEW q \in DOMAIN reqs, NEW e \in reqs[q].edits PROVE Fits(q, e)'
  <2>1. reqs[q].pc # "ask" BY <1>1 DEF RequestOK
  <2>2. CASE e = 0 BY <1>1, <2>2, StepReqs DEF EditOlderOnlyByTie
  <2>3. CASE e # 0
    <3>1. e \in DOMAIN reqs /\ reqs[e].pc # "ask" BY <1>1, <2>3 DEF RequestOK
    <3>2. KeyOf(e) = KeyOf(q) /\ reqs[e].ts >= reqs[q].ts
      BY <1>1, <2>3 DEF EditOlderOnlyByTie
    <3>3. reqs'[e].ts = reqs[e].ts /\ reqs'[q].ts = reqs[q].ts
          /\ KeyOf(e)' = KeyOf(e) /\ KeyOf(q)' = KeyOf(q)
      BY <1>1, <2>1, <3>1, StepReqs
    <3> QED BY <2>3, <3>2, <3>3
  <2> QED BY <2>2, <2>3
<1>2. ASSUME NEW q \in DOMAIN reqs, EditRequest(q), NEW e \in LatestMessage(KeyOf(q))
      PROVE  Fits(q, e)'
  <2>1. HasAsked(q) /\ reqs[q].pc = "agent" BY <1>2 DEF EditRequest, At, HasAsked
  <2>2. CASE UserRows(KeyOf(q)) = {}
    <3>1. e = 0 BY <1>2, <2>2 DEF LatestMessage, RequestOf
    <3>2. reqs[q].erased BY <2>1, <2>2 DEF RequestOK
    <3> QED BY <3>1, <3>2, StepReqs
  <2>3. CASE UserRows(KeyOf(q)) # {}
    <3>1. PICK row \in UserRows(KeyOf(q)) :
            /\ e = row.req
            /\ \A r \in UserRows(KeyOf(q)) :
                 r.ts < row.ts \/ (r.ts = row.ts /\ row.id <= r.id)
      BY <1>2, <2>3 DEF LatestMessage, RequestOf
    <3>2. row \in rows /\ row.key = KeyOf(q) /\ row.role = "user"
      BY <3>1 DEF UserRows, History
    <3>3. /\ e \in DOMAIN reqs /\ KeyOf(e) = KeyOf(q)
          /\ reqs[e].pc # "ask" /\ reqs[e].ts = row.ts
      BY <3>1, <3>2 DEF RowOK
    <3>4. row.ts \in Nat /\ reqs[q].ts \in Nat
      BY <3>2, ReqTypes DEF TypeOK, Messages, Requests, ChatAssumption
    <3>5. row.ts >= reqs[q].ts
      <4>1. CASE reqs[q].erased BY <2>1, <3>1, <4>1 DEF RequestOK
      <4>2. CASE ~reqs[q].erased
        <5>1. PICK own \in UserRows(KeyOf(q)) : own.req = q BY <2>1, <4>2 DEF RequestOK
        <5>2. own.ts = reqs[q].ts BY <5>1 DEF UserRows, History, RowOK
        <5> QED BY <3>1, <3>4, <5>1, <5>2
      <4> QED BY <4>1, <4>2
    <3>6. e # 0 BY <3>3, ReqTypes
    <3>7. reqs'[e].ts = reqs[e].ts /\ reqs'[q].ts = reqs[q].ts
          /\ KeyOf(e)' = KeyOf(e) /\ KeyOf(q)' = KeyOf(q)
      BY <2>1, <3>3, StepReqs
    <3> QED BY <3>3, <3>4, <3>5, <3>6, <3>7
  <2> QED BY <2>2, <2>3
<1>3. ASSUME NEW q \in DOMAIN reqs', NEW e \in reqs'[q].edits
      PROVE  \/ q \in DOMAIN reqs /\ e \in reqs[q].edits
             \/ q \in DOMAIN reqs /\ EditRequest(q) /\ e \in LatestMessage(KeyOf(q))
  <2>1. CASE Quiet BY <1>3, <2>1 DEF Quiet
  <2>2. ASSUME NEW t \in Tabs, Submit(t) PROVE q \in DOMAIN reqs /\ e \in reqs[q].edits
    BY <1>3, <2>2, SubmitNew
  <2>3. ASSUME NEW t \in Tabs, NEW s \in Sessions, DeleteSession(t, s)
        PROVE  q \in DOMAIN reqs /\ e \in reqs[q].edits
    <3>1. q \in DOMAIN reqs BY <2>3, DeleteEffect
    <3>2. reqs'[q] = Marked(q, Key(cookie, s)) BY <2>3, <3>1, DeleteEffect
    <3>3. reqs'[q].edits = reqs[q].edits BY <3>1, <3>2, ReqTypes, MarkedType
    <3> QED BY <1>3, <3>1, <3>3
  <2>4. ASSUME NEW p \in 1..MaxRequests, Thread(p)
        PROVE  \/ q \in DOMAIN reqs /\ e \in reqs[q].edits
               \/ q \in DOMAIN reqs /\ EditRequest(q) /\ e \in LatestMessage(KeyOf(q))
    <3>1. q \in DOMAIN reqs /\ reqs[q] \in Requests BY <2>4, ThreadEffect, ReqTypes DEF Others
    <3>2. CASE q # p BY <1>3, <2>4, <3>1, <3>2, ThreadEffect DEF Others
    <3>3. CASE SaveQuestion(q)
      <4>1. reqs'[q] = [reqs[q] EXCEPT !.pc = "load", !.ts = now] BY <3>3, AskEffect
      <4>2. reqs'[q].edits = reqs[q].edits BY <3>1, <4>1 DEF Requests
      <4> QED BY <1>3, <3>1, <4>2
    <3>4. CASE LoadHistory(q)
      <4>1. reqs'[q] = [reqs[q] EXCEPT !.pc = "agent", !.context = History(KeyOf(q))]
        BY <3>4, LoadEffect
      <4>2. reqs'[q].edits = reqs[q].edits BY <3>1, <4>1 DEF Requests
      <4> QED BY <1>3, <3>1, <4>2
    <3>5. CASE EditRequest(q)
      <4>1. reqs'[q] = [reqs[q] EXCEPT !.edits = @ \cup LatestMessage(KeyOf(q))]
        BY <3>5, EditEffect
      <4>2. reqs'[q].edits = reqs[q].edits \cup LatestMessage(KeyOf(q))
        BY <3>1, <4>1 DEF Requests
      <4> QED BY <1>3, <3>1, <3>5, <4>2
    <3>6. CASE SaveAnswer(q) \/ Raise(q)
      <4>1. reqs'[q].edits = {} BY <3>1, <3>6, EndEffect, EndedType
      <4> QED BY <1>3, <4>1
    <3> QED BY <2>4, <3>2, <3>3, <3>4, <3>5, <3>6 DEF Thread
  <2>5. CASE Restart
    <3>1. q \in DOMAIN reqs /\ reqs[q] \in Requests BY <2>5, RestartEffect, ReqTypes
    <3>2. reqs'[q] = reqs[q] \/ reqs'[q] = Ended(reqs[q]) BY <2>5, <3>1, RestartEffect
    <3> QED BY <1>3, <3>1, <3>2, EndedType
  <2> QED BY <2>1, <2>2, <2>3, <2>4, <2>5, Steps
<1>4. ASSUME NEW q \in DOMAIN reqs', NEW e \in reqs'[q].edits PROVE Fits(q, e)'
  BY <1>1, <1>2, <1>3, <1>4
<1> QED BY <1>4 DEF EditOlderOnlyByTie

\* The context is read once; the question was in the table then.
LEMMA ContextStep ==
  ASSUME ChatAssumption, TypeOK, OneQuestion, [Next]_vars,
         \A q \in DOMAIN reqs : RequestOK(q), ContextHasQuestion
  PROVE  ContextHasQuestion'
<1> DEFINE Has(q) ==
      LET context == reqs[q].context
      IN /\ \A row \in context : row.key = Key(reqs[q].project, reqs[q].session)
         /\ reqs[q].pc = "agent" /\ ~reqs[q].erased =>
              \E row \in context : \A r \in context : IsQuestion(r, q) <=> r = row
<1>1. \A q \in DOMAIN reqs : reqs[q] \in Requests BY ReqTypes
<1>2. ASSUME NEW q \in DOMAIN reqs, reqs'[q].context = reqs[q].context,
             reqs'[q].pc = reqs[q].pc
      PROVE  Has(q)'
  <2>1. Has(q) BY DEF ContextHasQuestion
  <2>2. /\ reqs'[q].project = reqs[q].project /\ reqs'[q].session = reqs[q].session
        /\ reqs[q].erased => reqs'[q].erased
    BY StepReqs
  <2> QED BY <1>2, <2>1, <2>2 DEF IsQuestion
<1>3. ASSUME NEW q, reqs'[q].context = {}, reqs'[q].pc # "agent" PROVE Has(q)'
  BY <1>3
<1>4. ASSUME NEW q \in DOMAIN reqs, LoadHistory(q) PROVE Has(q)'
  <2>1. reqs'[q] = [reqs[q] EXCEPT !.pc = "agent", !.context = History(KeyOf(q))]
    BY <1>4, LoadEffect
  <2>2. /\ reqs'[q].context = History(KeyOf(q)) /\ reqs'[q].erased = reqs[q].erased
        /\ reqs'[q].project = reqs[q].project /\ reqs'[q].session = reqs[q].session
    BY <1>1, <2>1 DEF Requests
  <2>3. reqs[q].pc = "load" BY <1>4 DEF LoadHistory, At
  <2>4. \A row \in History(KeyOf(q)) : row.key = Key(reqs[q].project, reqs[q].session)
    BY DEF History, KeyOf
  <2>5. ASSUME ~reqs[q].erased
        PROVE  \E row \in History(KeyOf(q)) :
                 \A r \in History(KeyOf(q)) : IsQuestion(r, q) <=> r = row
    <3>1. PICK row \in UserRows(KeyOf(q)) : row.req = q
      BY <2>3, <2>5 DEF RequestOK, HasAsked
    <3>2. row \in History(KeyOf(q)) /\ IsQuestion(row, q)
      BY <3>1 DEF UserRows, IsQuestion
    <3>3. \A r \in History(KeyOf(q)) : IsQuestion(r, q) <=> r = row
      BY <3>2 DEF OneQuestion, History, IsQuestion
    <3> QED BY <3>2, <3>3
  <2> QED BY <2>2, <2>4, <2>5 DEF IsQuestion
<1>5. ASSUME NEW q \in DOMAIN reqs, reqs'[q] = Ended(reqs[q]) PROVE Has(q)'
  <2>1. reqs'[q].context = {} /\ reqs'[q].pc = "ended" BY <1>1, <1>5, EndedType
  <2> QED BY <1>3, <2>1
<1> HIDE DEF Has
<1>6. ASSUME NEW q \in DOMAIN reqs' PROVE Has(q)'
  <2>1. CASE Quiet BY <1>2, <1>6, <2>1 DEF Quiet
  <2>2. ASSUME NEW t \in Tabs, Submit(t) PROVE Has(q)'
    BY <1>2, <1>3, <1>6, <2>2, SubmitNew
  <2>3. ASSUME NEW t \in Tabs, NEW s \in Sessions, DeleteSession(t, s) PROVE Has(q)'
    <3>1. q \in DOMAIN reqs BY <1>6, <2>3, DeleteEffect
    <3>2. reqs'[q] = Marked(q, Key(cookie, s)) BY <2>3, <3>1, DeleteEffect
    <3>3. reqs'[q].context = reqs[q].context /\ reqs'[q].pc = reqs[q].pc
      BY <1>1, <3>1, <3>2, MarkedType
    <3> QED BY <1>2, <3>1, <3>3
  <2>4. ASSUME NEW p \in 1..MaxRequests, Thread(p) PROVE Has(q)'
    <3>1. q \in DOMAIN reqs /\ reqs[q] \in Requests BY <1>1, <1>6, <2>4, ThreadEffect DEF Others
    <3>2. CASE q # p BY <1>2, <2>4, <3>1, <3>2, ThreadEffect DEF Others
    <3>3. CASE SaveQuestion(q)
      <4>1. reqs'[q] = [reqs[q] EXCEPT !.pc = "load", !.ts = now] BY <3>3, AskEffect
      <4>2. reqs'[q].pc = "load" /\ reqs'[q].context = reqs[q].context BY <3>1, <4>1 DEF Requests
      <4>3. reqs[q].pc = "ask" BY <3>3 DEF SaveQuestion, At
      <4>4. reqs[q].context = {} BY <3>1, <4>3 DEF RequestOK
      <4> QED BY <1>3, <4>2, <4>4
    <3>4. CASE LoadHistory(q) BY <1>4, <3>1, <3>4
    <3>5. CASE EditRequest(q)
      <4>1. reqs'[q] = [reqs[q] EXCEPT !.edits = @ \cup LatestMessage(KeyOf(q))]
        BY <3>5, EditEffect
      <4>2. reqs'[q].pc = reqs[q].pc /\ reqs'[q].context = reqs[q].context
        BY <3>1, <4>1 DEF Requests
      <4> QED BY <1>2, <3>1, <4>2
    <3>6. CASE SaveAnswer(q) \/ Raise(q) BY <1>5, <3>1, <3>6, EndEffect
    <3> QED BY <2>4, <3>2, <3>3, <3>4, <3>5, <3>6 DEF Thread
  <2>5. CASE Restart
    <3>1. q \in DOMAIN reqs /\ (reqs'[q] = reqs[q] \/ reqs'[q] = Ended(reqs[q]))
      BY <1>6, <2>5, RestartEffect
    <3> QED BY <1>2, <1>5, <3>1
  <2> QED BY <2>1, <2>2, <2>3, <2>4, <2>5, Steps
<1> QED BY <1>6 DEF ContextHasQuestion, Has

-----------------------------------------------------------------------------
LEMMA InitInv == ASSUME ChatAssumption, Init PROVE Inv
<1>1. TypeOK BY InitType
<1>2. DOMAIN reqs = {} /\ rows = {} BY DEF Init
<1>3. MigratedFirst BY DEF Init, MigratedFirst
<1> QED BY <1>1, <1>2, <1>3
    DEF Inv, OneQuestion, OrphanOnlyByDelete, EditOlderOnlyByTie, ContextHasQuestion

\* Rows, requests and tabs fit each other whatever tabs, threads, deletions,
\* migrations and restarts do in between.
THEOREM Invariance == Spec => []Inv
<1>1. Init => Inv BY ChatAssumption, InitInv
<1>2. Inv /\ [Next]_vars => Inv'
  <2> SUFFICES ASSUME Inv, [Next]_vars PROVE Inv'
    OBVIOUS
  <2>1. TypeOK' BY ChatAssumption, TypeStep DEF Inv
  <2>2. MigratedFirst' BY ChatAssumption, MigratedStep DEF Inv
  <2>3. (\A row \in rows : RowOK(row))' BY ChatAssumption, RowsStep DEF Inv
  <2>4. OneQuestion' BY ChatAssumption, OneQuestionStep DEF Inv
  <2>5. (\A q \in DOMAIN reqs : RequestOK(q))' BY ChatAssumption, RequestStep DEF Inv
  <2>6. OrphanOnlyByDelete' BY ChatAssumption, OrphanStep DEF Inv
  <2>7. EditOlderOnlyByTie' BY ChatAssumption, EditStep DEF Inv
  <2>8. ContextHasQuestion' BY ChatAssumption, ContextStep DEF Inv
  <2> QED BY <2>1, <2>2, <2>3, <2>4, <2>5, <2>6, <2>7, <2>8 DEF Inv
<1> QED BY <1>1, <1>2, PTL DEF Spec

\* An answer without its question is the work of a deletion.
THEOREM AnswersFollowQuestions == Spec => []OrphanOnlyByDelete
<1>1. Inv => OrphanOnlyByDelete BY DEF Inv
<1> QED BY <1>1, Invariance, PTL

\* An edit works on a message of its own conversation, saved in the second of its
\* request's own question or later: on an older one only by a tie.
THEOREM EditsAreCurrent == Spec => []EditOlderOnlyByTie
<1>1. Inv => EditOlderOnlyByTie BY DEF Inv
<1> QED BY <1>1, Invariance, PTL

\* The agent is given its question, once, and nothing of other conversations.
THEOREM ContextIsOwn == Spec => []ContextHasQuestion
<1>1. Inv => ContextHasQuestion BY DEF Inv
<1> QED BY <1>1, Invariance, PTL

\* Nobody writes to the table, or is shown it, before it is migrated.
THEOREM MigrationComesFirst == Spec => []MigratedFirst
<1>1. Inv => MigratedFirst BY DEF Inv
<1> QED BY <1>1, Invariance, PTL

-----------------------------------------------------------------------------
(* How far SessionOneProject, which other tabs and the back button refute,   *)
(* does hold.                                                                *)

\* The conversations a page can write to or open.
Mentions(page) ==
  CASE page.at \in {"opening", "failed", "altering"} -> {page.session}
    [] page.at = "chat" -> {page.session} \cup page.list
    [] OTHER -> {}

\* A project is selected anew only while no tab shows a conversation.
SwitchesAlone ==
  cookie' # cookie /\ cookie' # None => \A t \in Tabs : Mentions(tabs[t]) = {}

\* No tab goes to the address of another project's conversation: what it opens
\* its page shows, the selected project has, or nobody has had yet.
OwnAddresses ==
  \A t \in Tabs : OpenSession(t) =>
    \E s \in Sessions :
      /\ Show(t, Opening(s))
      /\ s \in Mentions(tabs[t]) \/ s \notin drawn \/ s \in Listed(cookie)

Belongs(s, p) == \A q \in DOMAIN reqs : reqs[q].session = s => reqs[q].project = p

\* Requests of one session are of one project; the pages show what was drawn,
\* and while a project is selected only what is its own.
OwnProject ==
  /\ \A q \in DOMAIN reqs :
       reqs[q].session \in drawn /\ Belongs(reqs[q].session, reqs[q].project)
  /\ \A t \in Tabs : \A s \in Mentions(tabs[t]) :
       s \in drawn /\ (cookie # None => Belongs(s, cookie))
  /\ \A t \in Tabs : tabs[t].at = "altering" => cookie \in {None, tabs[t].project}

\* What a page mentions is what it mentioned, a session drawn in this step, or
\* one that the table lists for the project it is of.
MentionedOrListed(t) ==
  \A s \in Mentions(tabs'[t]) :
    \/ s \in Mentions(tabs[t])
    \/ reqs' = reqs /\ s \notin drawn /\ s \in drawn'
    \/ reqs' = reqs /\ \E p : s \in Listed(p) /\ cookie' \in {None, p}

LEMMA MentionStep ==
  ASSUME ChatAssumption, TypeOK, OwnProject, [Next]_vars, OwnAddresses, NEW t \in Tabs
  PROVE  MentionedOrListed(t) /\ drawn \subseteq drawn'
<1>1. tabs \in [Tabs -> Pages] /\ tabs[t] \in Pages BY DEF TypeOK
<1>2. \A page : Show(t, page) => tabs'[t] = page BY <1>1 DEF Show
<1>3. \A o \in Tabs : \A page : Show(o, page) /\ o # t => tabs'[t] = tabs[t]
  BY <1>1 DEF Show
<1>4. \A s : Mentions(Opening(s)) = {s} BY DEF Mentions, Opening
<1>5. \A at \in {"home", "leaving", "renewing"} : Mentions([at |-> at]) = {}
  BY DEF Mentions
<1>6. \A s, p : Mentions(Page(s, p)) = {s} \cup Listed(p) BY DEF Mentions, Page
<1>7. tabs'[t] = tabs[t] => MentionedOrListed(t) BY DEF MentionedOrListed
<1> DEFINE Good == MentionedOrListed(t) /\ drawn \subseteq drawn'
<1>8. ASSUME NEW p \in Projects, SelectProject(t, p) PROVE Good
  <2>1. cookie' = p /\ reqs' = reqs BY <1>8 DEF SelectProject
  <2>2. PICK s \in Sessions :
          /\ tabs'[t] = Opening(s)
          /\ (s \in Newest(p) /\ UNCHANGED drawn) \/ Draw(s)
    BY <1>2, <1>8 DEF SelectProject
  <2>3. Newest(p) \subseteq Listed(p) BY DEF Newest
  <2> QED BY <1>4, <2>1, <2>2, <2>3 DEF MentionedOrListed, Draw
<1>9. CASE ChatSession(t)
  <2>1. cookie' = cookie /\ reqs' = reqs /\ drawn' = drawn BY <1>9 DEF ChatSession
  <2>2. Mentions(tabs[t]) = {tabs[t].session} BY <1>9 DEF ChatSession, Mentions
  <2>3. Mentions([at |-> "altering", session |-> tabs[t].session, project |-> cookie])
          = {tabs[t].session}
    BY DEF Mentions
  <2>4. \/ tabs'[t] = [at |-> "home"]
        \/ tabs'[t] = Page(tabs[t].session, cookie)
        \/ tabs'[t] = [at |-> "altering", session |-> tabs[t].session, project |-> cookie]
    BY <1>2, <1>9 DEF ChatSession
  <2> QED BY <1>5, <1>6, <2>1, <2>2, <2>3, <2>4 DEF MentionedOrListed
<1>10. CASE AlterTable(t)
  <2>1. /\ cookie' = cookie /\ reqs' = reqs /\ drawn' = drawn
        /\ cookie \in {None, tabs[t].project}
    BY <1>10 DEF AlterTable, OwnProject
  <2>2. Mentions(tabs[t]) = {tabs[t].session} BY <1>10 DEF AlterTable, Mentions
  <2>3. Mentions([at |-> "failed", session |-> tabs[t].session]) = {tabs[t].session}
    BY DEF Mentions
  <2>4. \/ tabs'[t] = [at |-> "failed", session |-> tabs[t].session]
        \/ tabs'[t] = Page(tabs[t].session, tabs[t].project)
    BY <1>2, <1>10 DEF AlterTable
  <2> QED BY <1>6, <2>1, <2>2, <2>3, <2>4 DEF MentionedOrListed
<1>11. CASE GoHome(t)
  BY <1>2, <1>5, <1>11 DEF GoHome, MentionedOrListed
<1>12. CASE OpenSession(t)
  <2>1. /\ reqs' = reqs /\ cookie' = cookie /\ drawn \subseteq drawn'
        /\ \E s \in Sessions : tabs'[t] = Opening(s) /\ s \in drawn'
    BY <1>2, <1>12 DEF OpenSession
  <2>2. PICK s \in Sessions :
          /\ tabs'[t] = Opening(s)
          /\ s \in Mentions(tabs[t]) \/ s \notin drawn \/ s \in Listed(cookie)
    BY <1>2, <1>12 DEF OwnAddresses
  <2>3. s \in drawn'
    BY <1>4, <2>1, <2>2
  <2> QED BY <1>4, <2>1, <2>2, <2>3 DEF MentionedOrListed
<1>13. CASE NewSession(t)
  <2>1. reqs' = reqs BY <1>13 DEF NewSession
  <2>2. \/ tabs'[t] = [at |-> "home"] /\ drawn' = drawn
        \/ \E s \in Sessions : Draw(s) /\ tabs'[t] = Opening(s)
    BY <1>2, <1>13 DEF NewSession
  <2> QED BY <1>4, <1>5, <2>1, <2>2 DEF MentionedOrListed, Draw
<1>14. CASE ExitProject(t)
  BY <1>2, <1>5, <1>14 DEF ExitProject, MentionedOrListed
<1>15. ASSUME NEW w \in 0..MaxRequests, tabs[t].at = "chat",
              tabs'[t] = [tabs[t] EXCEPT !.waiting = w]
       PROVE  Mentions(tabs'[t]) = Mentions(tabs[t])
  <2>1. tabs[t] = [at |-> "chat", session |-> tabs[t].session,
                   list |-> tabs[t].list, waiting |-> tabs[t].waiting]
    BY <1>1, <1>15, PageShape
  <2>2. /\ tabs'[t].at = "chat" /\ tabs'[t].session = tabs[t].session
        /\ tabs'[t].list = tabs[t].list
    BY <1>15, <2>1
  <2> QED BY <1>15, <2>2 DEF Mentions
<1>16. CASE Submit(t)
  <2>1. Len(reqs) + 1 \in 0..MaxRequests BY <1>16, ReqTypes DEF Submit, ChatAssumption
  <2>2. tabs'[t] = [tabs[t] EXCEPT !.waiting = Len(reqs) + 1] /\ tabs[t].at = "chat"
        /\ drawn' = drawn
    BY <1>2, <1>16 DEF Submit
  <2> QED BY <1>15, <2>1, <2>2 DEF MentionedOrListed
<1>17. CASE StreamEnds(t)
  <2>1. 0 \in 0..MaxRequests BY DEF ChatAssumption
  <2>2. tabs'[t] = [tabs[t] EXCEPT !.waiting = 0] /\ tabs[t].at = "chat" /\ drawn' = drawn
    BY <1>2, <1>17 DEF StreamEnds
  <2> QED BY <1>15, <2>1, <2>2 DEF MentionedOrListed
<1>18. ASSUME NEW s \in Sessions, DeleteSession(t, s) PROVE Good
  <2>1. drawn' = drawn /\ tabs[t].at = "chat" BY <1>18 DEF DeleteSession
  <2>2. tabs[t] = [at |-> "chat", session |-> tabs[t].session,
                   list |-> tabs[t].list, waiting |-> tabs[t].waiting]
    BY <1>1, <2>1, PageShape
  <2>3. CASE s = tabs[t].session
    <3>1. tabs'[t] = [at |-> "leaving"] \/ tabs'[t] = [at |-> "renewing"]
      BY <1>2, <1>18, <2>3 DEF DeleteSession
    <3> QED BY <1>5, <2>1, <3>1 DEF MentionedOrListed
  <2>4. CASE s # tabs[t].session
    <3>1. tabs'[t] = [tabs[t] EXCEPT !.list = @ \ {s}] BY <1>2, <1>18, <2>4 DEF DeleteSession
    <3>2. /\ tabs'[t].at = "chat" /\ tabs'[t].session = tabs[t].session
          /\ tabs'[t].list = tabs[t].list \ {s}
      BY <2>2, <3>1
    <3> QED BY <2>1, <3>2 DEF MentionedOrListed, Mentions
  <2> QED BY <2>3, <2>4
<1>19. CASE Browser(t)
  BY <1>8, <1>9, <1>10, <1>11, <1>12, <1>13, <1>14, <1>16, <1>17, <1>18, <1>19 DEF Browser
<1>20. ASSUME NEW o \in Tabs, Browser(o), o # t PROVE Good
  <2>1. drawn \subseteq drawn'
    BY <1>20 DEF Browser, SelectProject, ChatSession, AlterTable, GoHome, OpenSession,
       NewSession, ExitProject, Submit, StreamEnds, DeleteSession, Draw
  <2>2. \E page : Show(o, page)
    BY <1>20 DEF Browser, SelectProject, ChatSession, AlterTable, GoHome, OpenSession,
       NewSession, ExitProject, Submit, StreamEnds, DeleteSession
  <2> QED BY <1>3, <1>7, <1>20, <2>1, <2>2
<1>21. ASSUME NEW q \in 1..MaxRequests, Thread(q) PROVE Good
  <2>1. tabs' = tabs /\ drawn' = drawn
    BY <1>21 DEF Thread, SaveQuestion, LoadHistory, EditRequest, SaveAnswer, Raise
  <2> QED BY <1>7, <2>1
<1>22. CASE Restart
  <2>1. drawn' = drawn BY <1>22 DEF Restart
  <2>2. tabs'[t] = CASE tabs[t].at = "chat" -> [tabs[t] EXCEPT !.waiting = 0]
                     [] tabs[t].at = "altering" -> [at |-> "failed", session |-> tabs[t].session]
                     [] OTHER -> tabs[t]
    BY <1>22 DEF Restart
  <2>3. CASE tabs[t].at = "chat"
    <3>1. tabs'[t] = [tabs[t] EXCEPT !.waiting = 0] /\ 0 \in 0..MaxRequests
      BY <2>2, <2>3 DEF ChatAssumption
    <3> QED BY <1>15, <2>1, <2>3, <3>1 DEF MentionedOrListed
  <2>4. CASE tabs[t].at = "altering"
    <3>1. tabs'[t] = [at |-> "failed", session |-> tabs[t].session] BY <2>2, <2>4
    <3>2. Mentions(tabs'[t]) = {tabs[t].session} BY <3>1 DEF Mentions
    <3>3. Mentions(tabs[t]) = {tabs[t].session} BY <2>4 DEF Mentions
    <3> QED BY <2>1, <3>2, <3>3 DEF MentionedOrListed
  <2>5. CASE tabs[t].at \notin {"chat", "altering"} BY <1>7, <2>1, <2>2, <2>5
  <2> QED BY <2>3, <2>4, <2>5
<1>23. CASE Tick BY <1>7, <1>23 DEF Tick
<1>24. CASE UNCHANGED vars BY <1>7, <1>24 DEF vars
<1> QED BY <1>19, <1>20, <1>21, <1>22, <1>23, <1>24 DEF Next

LEMMA OwnProjectStep ==
  ASSUME ChatAssumption, TypeOK, \A row \in rows : RowOK(row), OwnProject, [Next]_vars,
         SwitchesAlone, OwnAddresses
  PROVE  OwnProject'
<1> DEFINE New(q, t) == /\ reqs'[q].project = cookie /\ reqs'[q].session = tabs[t].session
                        /\ tabs[t].session \in Mentions(tabs[t])
                        /\ cookie # None /\ cookie' = cookie
       BelongsNext(s, p) == \A q \in DOMAIN reqs' : reqs'[q].session = s => reqs'[q].project = p
<1>1. ASSUME NEW q \in DOMAIN reqs'
      PROVE  \/ /\ q \in DOMAIN reqs
                /\ reqs'[q].project = reqs[q].project /\ reqs'[q].session = reqs[q].session
             \/ \E t \in Tabs : New(q, t)
  <2>1. CASE q \in DOMAIN reqs BY <2>1, StepReqs
  <2>2. CASE q \notin DOMAIN reqs
    <3>1. PICK t \in Tabs : Submit(t)
      <4>1. Quiet => DOMAIN reqs' = DOMAIN reqs BY DEF Quiet
      <4>2. \A p \in 1..MaxRequests : Thread(p) => DOMAIN reqs' = DOMAIN reqs
        BY ThreadEffect DEF Others
      <4> QED BY <1>1, <2>2, <4>1, <4>2, Steps, DeleteEffect, RestartEffect
    <3>2. q = Len(reqs) + 1
      <4>1. DOMAIN reqs' = DOMAIN reqs \cup {Len(reqs) + 1} BY <3>1, SubmitEffect
      <4> QED BY <1>1, <2>2, <4>1
    <3>3. reqs'[q] = [project |-> cookie, session |-> tabs[t].session, pc |-> "ask", ts |-> 0,
                      context |-> {}, edits |-> {}, erased |-> FALSE, deleted |-> FALSE]
      BY <3>1, <3>2, SubmitEffect
    <3>4. tabs[t].at = "chat" /\ cookie # None /\ cookie' = cookie BY <3>1 DEF Submit
    <3>5. tabs[t].session \in Mentions(tabs[t]) BY <3>4 DEF Mentions
    <3> QED BY <3>3, <3>4, <3>5
  <2> QED BY <2>1, <2>2
<1>2. ASSUME NEW t \in Tabs PROVE drawn \subseteq drawn' BY MentionStep
<1>3. ASSUME NEW q \in DOMAIN reqs' PROVE reqs'[q].session \in drawn
  <2>1. CASE q \in DOMAIN reqs /\ reqs'[q].session = reqs[q].session
    BY <2>1 DEF OwnProject
  <2>2. ASSUME NEW t \in Tabs, New(q, t) PROVE reqs'[q].session \in drawn
    BY <2>2 DEF OwnProject
  <2> QED BY <1>1, <2>1, <2>2
<1>4. ASSUME NEW q \in DOMAIN reqs', NEW r \in DOMAIN reqs',
             reqs'[q].session = reqs'[r].session
      PROVE  reqs'[r].project = reqs'[q].project
  <2> DEFINE Old(o) == /\ o \in DOMAIN reqs
                       /\ reqs'[o].project = reqs[o].project
                       /\ reqs'[o].session = reqs[o].session
  <2>1. \A o \in {q, r} : Old(o) \/ \E t \in Tabs : New(o, t) BY <1>1
  <2>2. CASE Old(q) /\ Old(r) BY <1>4, <2>2 DEF OwnProject, Belongs
  <2>3. ASSUME NEW t \in Tabs, New(q, t), Old(r) PROVE reqs'[r].project = reqs'[q].project
    BY <1>4, <2>3 DEF OwnProject, Belongs
  <2>4. ASSUME NEW t \in Tabs, New(r, t), Old(q) PROVE reqs'[r].project = reqs'[q].project
    BY <1>4, <2>4 DEF OwnProject, Belongs
  <2>5. ASSUME NEW t \in Tabs, NEW o \in Tabs, New(r, t), New(q, o)
        PROVE  reqs'[r].project = reqs'[q].project
    BY <2>5
  <2> QED BY <2>1, <2>2, <2>3, <2>4, <2>5
<1>5. ASSUME NEW t \in Tabs, NEW s \in Mentions(tabs'[t])
      PROVE  s \in drawn' /\ (cookie' # None => BelongsNext(s, cookie'))
  <2>1. drawn \subseteq drawn' BY MentionStep
  <2>2. CASE s \in Mentions(tabs[t])
    <3>1. s \in drawn /\ (cookie # None => Belongs(s, cookie)) BY <2>2 DEF OwnProject
    <3>2. ASSUME cookie' # None, NEW q \in DOMAIN reqs', reqs'[q].session = s
          PROVE  reqs'[q].project = cookie'
      <4>1. cookie' = cookie BY <2>2, <3>2 DEF SwitchesAlone
      <4>2. Belongs(s, cookie) BY <3>1, <3>2, <4>1
      <4> QED BY <1>1, <3>2, <4>1, <4>2 DEF Belongs
    <3> QED BY <2>1, <3>1, <3>2
  <2>3. CASE reqs' = reqs /\ s \notin drawn /\ s \in drawn'
    BY <2>3 DEF OwnProject, Belongs
  <2>4. ASSUME NEW p, reqs' = reqs, s \in Listed(p), cookie' \in {None, p}
        PROVE  s \in drawn' /\ (cookie' # None => BelongsNext(s, cookie'))
    <3>1. PICK row \in rows : row.key.project = p /\ row.key.session = s
      BY <2>4 DEF Listed
    <3>2. /\ row.req \in DOMAIN reqs
          /\ reqs[row.req].session = s /\ reqs[row.req].project = p
      <4>1. row.req \in DOMAIN reqs /\ row.key = KeyOf(row.req) BY DEF RowOK
      <4>2. /\ KeyOf(row.req).session = reqs[row.req].session
            /\ KeyOf(row.req).project = reqs[row.req].project
        BY DEF KeyOf, Key
      <4> QED BY <3>1, <4>1, <4>2
    <3>3. s \in drawn /\ Belongs(s, p) BY <3>2 DEF OwnProject
    <3> QED BY <2>1, <2>4, <3>3 DEF Belongs
  <2> QED BY <2>2, <2>3, <2>4, MentionStep DEF MentionedOrListed
<1>6. ASSUME NEW t \in Tabs, tabs'[t].at = "altering"
      PROVE  cookie' \in {None, tabs'[t].project}
  <2>1. CASE tabs'[t] = tabs[t]
    <3>1. tabs[t].at = "altering" /\ Mentions(tabs[t]) # {} BY <1>6, <2>1 DEF Mentions
    <3>2. cookie \in {None, tabs[t].project} BY <3>1 DEF OwnProject
    <3> QED BY <2>1, <3>1, <3>2 DEF SwitchesAlone
  <2>2. CASE tabs'[t] # tabs[t]
    <3>1. tabs \in [Tabs -> Pages] BY DEF TypeOK
    <3>2. \A o \in Tabs : \A page : Show(o, page) =>
            (o # t /\ tabs'[t] = tabs[t]) \/ (o = t /\ tabs'[t] = page)
      <4> SUFFICES ASSUME NEW o \in Tabs, NEW page, tabs' = [tabs EXCEPT ![o] = page]
                   PROVE  (o # t /\ tabs'[t] = tabs[t]) \/ (o = t /\ tabs'[t] = page)
        BY DEF Show
      <4> QED BY <3>1
    <3>3. CASE ChatSession(t)
      <4>1. cookie' = cookie BY <3>3 DEF ChatSession
      <4>2. \/ tabs'[t] = [at |-> "home"]
            \/ tabs'[t] = Page(tabs[t].session, cookie)
            \/ tabs'[t] = [at |-> "altering", session |-> tabs[t].session, project |-> cookie]
        BY <3>2, <3>3 DEF ChatSession
      <4> QED BY <1>6, <4>1, <4>2 DEF Page
    <3>4. ASSUME NEW o \in Tabs, Browser(o), ~ChatSession(t) PROVE FALSE
      <4>1. o = t
        BY <2>2, <3>2, <3>4 DEF Browser, SelectProject, ChatSession, AlterTable, GoHome,
           OpenSession, NewSession, ExitProject, Submit, StreamEnds, DeleteSession
      <4>2. CASE \/ \E p \in Projects : SelectProject(t, p)
                 \/ GoHome(t) \/ OpenSession(t) \/ NewSession(t) \/ ExitProject(t)
        <5>1. tabs'[t] = [at |-> "home"] \/ \E s : tabs'[t] = Opening(s)
          BY <3>2, <4>2 DEF SelectProject, GoHome, OpenSession, NewSession, ExitProject
        <5>2. \A s : Opening(s).at = "opening" BY DEF Opening
        <5> QED BY <1>6, <5>1, <5>2
      <4>3. CASE AlterTable(t)
        <5>1. \/ tabs'[t] = [at |-> "failed", session |-> tabs[t].session]
              \/ tabs'[t] = Page(tabs[t].session, tabs[t].project)
          BY <3>2, <4>3 DEF AlterTable
        <5> QED BY <1>6, <5>1 DEF Page
      <4>4. CASE Submit(t) \/ StreamEnds(t) \/ \E s \in Sessions : DeleteSession(t, s)
        <5>1. tabs[t].at = "chat" BY <4>4 DEF Submit, StreamEnds, DeleteSession
        <5>2. tabs[t] = [at |-> "chat", session |-> tabs[t].session,
                         list |-> tabs[t].list, waiting |-> tabs[t].waiting]
          BY <3>1, <5>1, PageShape
        <5>3. \/ \E w : tabs'[t] = [tabs[t] EXCEPT !.waiting = w]
              \/ \E s : tabs'[t] = [tabs[t] EXCEPT !.list = @ \ {s}]
              \/ \E w \in {"leaving", "renewing"} : tabs'[t] = [at |-> w]
          <6>1. CASE Submit(t) \/ StreamEnds(t) BY <3>2, <6>1 DEF Submit, StreamEnds
          <6>2. ASSUME NEW s \in Sessions, DeleteSession(t, s)
                PROVE  \/ tabs'[t] = [tabs[t] EXCEPT !.list = @ \ {s}]
                       \/ \E w \in {"leaving", "renewing"} : tabs'[t] = [at |-> w]
            <7>1. \/ Show(t, [tabs[t] EXCEPT !.list = @ \ {s}])
                  \/ Show(t, [at |-> "leaving"]) \/ Show(t, [at |-> "renewing"])
              BY <6>2, Zenon DEF DeleteSession
            <7> QED BY <3>2, <7>1
          <6> QED BY <4>4, <6>1, <6>2
        <5>4. \A w : [tabs[t] EXCEPT !.waiting = w].at = "chat" BY <5>2
        <5>5. \A s : [tabs[t] EXCEPT !.list = @ \ {s}].at = "chat" BY <5>2
        <5>6. \A w \in {"leaving", "renewing"} : [at |-> w].at # "altering" OBVIOUS
        <5>7. \A page : tabs'[t] = page => page.at = "altering" BY <1>6
        <5> QED BY <5>3, <5>4, <5>5, <5>6, <5>7
      <4> QED BY <3>4, <4>1, <4>2, <4>3, <4>4 DEF Browser
    <3>5. \A q \in 1..MaxRequests : ~Thread(q)
      BY <2>2 DEF Thread, SaveQuestion, LoadHistory, EditRequest, SaveAnswer, Raise
    <3>6. CASE Restart BY <3>6 DEF Restart
    <3>7. ~Tick /\ ~UNCHANGED vars BY <2>2 DEF Tick, vars
    <3> QED BY <3>3, <3>4, <3>5, <3>6, <3>7 DEF Next
  <2> QED BY <2>1, <2>2
<1>7. \A q \in DOMAIN reqs' : reqs'[q].session \in drawn'
  <2>1. CASE \E t \in Tabs : TRUE BY <1>2, <1>3, <2>1
  <2>2. CASE Tabs = {}
    <3>1. drawn' = drawn
      BY <2>2 DEF Next, vars, Thread, SaveQuestion, LoadHistory, EditRequest, SaveAnswer,
         Raise, Restart, Tick
    <3> QED BY <1>3, <3>1
  <2> QED BY <2>1, <2>2
<1>8. \A q \in DOMAIN reqs' : BelongsNext(reqs'[q].session, reqs'[q].project) BY <1>4
<1> QED BY <1>5, <1>6, <1>7, <1>8 DEF OwnProject, Belongs

\* A conversation stays with one project as long as no project is selected while
\* a tab shows a conversation, and no tab goes to the address of another project's
\* conversation: only stale tabs and foreign addresses mix histories.
THEOREM OnlyStaleTabsMix ==
  Spec /\ [][SwitchesAlone /\ OwnAddresses]_vars => []SessionOneProject
<1>1. Init => OwnProject
  <2> SUFFICES ASSUME Init PROVE OwnProject
    OBVIOUS
  <2>1. DOMAIN reqs = {} BY DEF Init
  <2>2. \A t \in Tabs : tabs[t].at = "home" /\ Mentions(tabs[t]) = {}
    BY DEF Init, Mentions
  <2> QED BY <2>1, <2>2 DEF OwnProject
<1>2. Inv /\ OwnProject /\ [Next]_vars /\ [SwitchesAlone /\ OwnAddresses]_vars => OwnProject'
  <2> SUFFICES ASSUME Inv, OwnProject, [Next]_vars, [SwitchesAlone /\ OwnAddresses]_vars
               PROVE  OwnProject'
    OBVIOUS
  <2>1. CASE SwitchesAlone /\ OwnAddresses BY <2>1, ChatAssumption, OwnProjectStep DEF Inv
  <2>2. CASE UNCHANGED vars BY <2>2 DEF vars, OwnProject, Belongs
  <2> QED BY <2>1, <2>2
<1>3. Inv /\ OwnProject => SessionOneProject
  <2> SUFFICES ASSUME Inv, OwnProject, NEW row \in rows, NEW r \in rows,
                      row.key.session = r.key.session
               PROVE  row.key = r.key
    BY DEF SessionOneProject
  <2>1. /\ row.req \in DOMAIN reqs /\ row.key = KeyOf(row.req)
        /\ r.req \in DOMAIN reqs /\ r.key = KeyOf(r.req)
    BY DEF Inv, RowOK
  <2>2. reqs[row.req].session = reqs[r.req].session BY <2>1 DEF KeyOf, Key
  <2>3. reqs[row.req].project = reqs[r.req].project
    BY <2>1, <2>2 DEF OwnProject, Belongs
  <2> QED BY <2>1, <2>2, <2>3 DEF KeyOf
<1> QED BY <1>1, <1>2, <1>3, Invariance, PTL DEF Spec

\* A single tab keeps each conversation with one project, unless its user goes
\* back, or by a bookmark or a typed address, to a conversation of another one.
THEOREM OneTabOneProject ==
  ASSUME NEW tab, Tabs = {tab}
  PROVE  Spec /\ [][OwnAddresses]_vars => []SessionOneProject
<1>1. [Next]_vars => SwitchesAlone
  <2> SUFFICES ASSUME [Next]_vars, cookie' # cookie, cookie' # None
               PROVE  Mentions(tabs[tab]) = {}
    BY DEF SwitchesAlone
  <2>1. \E t \in Tabs, p \in Projects : SelectProject(t, p)
    BY DEF Next, vars, Browser, ChatSession, AlterTable, GoHome, OpenSession, NewSession,
       ExitProject, Submit, StreamEnds, DeleteSession, Thread, SaveQuestion, LoadHistory,
       EditRequest, SaveAnswer, Raise, Restart, Tick
  <2>2. tabs[tab].at = "home" BY <2>1 DEF SelectProject
  <2> QED BY <2>2 DEF Mentions
<1>2. [Next]_vars /\ [OwnAddresses]_vars => [SwitchesAlone /\ OwnAddresses]_vars
  BY <1>1
<1>3. Spec /\ [][OwnAddresses]_vars => [][SwitchesAlone /\ OwnAddresses]_vars
  BY <1>2, PTL DEF Spec
<1> QED BY <1>3, OnlyStaleTabsMix, PTL
=============================================================================
