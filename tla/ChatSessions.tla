---------------------------- MODULE ChatSessions ----------------------------
(***************************************************************************)
(* The chat history in SQLite and those who share it: the browser tabs of  *)
(* one user, which share one cookie with the selected project (app.py,     *)
(* chat.html), and the chat threads of the requests they send (ai_chat.py, *)
(* ai_tool.py).  Every helper opens a connection of its own, so a thread's *)
(* steps interleave with the other threads and with deletions.             *)
(*                                                                         *)
(* Data.  A message is known by the request that wrote it; timestamps have *)
(* the resolution of CURRENT_TIMESTAMP, one tick of now, so rows may tie.  *)
(* The system row of init_chat_session is left out: every query skips it,  *)
(* but the one that decides whether to write it.                           *)
(***************************************************************************)
EXTENDS Naturals, Sequences

CONSTANTS Tabs,         \* browser tabs
          Projects,     \* projects that have a container
          Sessions,     \* bound: the uuids that are drawn
          MaxRequests,  \* bound: chat requests
          MaxTime,      \* bound: seconds that pass
          None          \* no project in the cookie

ASSUME ChatAssumption ==
  MaxRequests \in Nat /\ MaxTime \in Nat /\ None \notin Projects

VARIABLES
  now,     \* the clock, in seconds
  column,  \* whether table messages has its column project_name
  rows,    \* table messages
  serial,  \* the last id of the table (AUTOINCREMENT)
  cookie,  \* session["project_name"]
  drawn,   \* session ids drawn so far
  tabs,    \* what each tab shows
  reqs     \* the chat requests, in the order they came

vars == <<now, column, rows, serial, cookie, drawn, tabs, reqs>>

Keys == [project : Projects, session : Sessions]
Key(p, s) == [project |-> p, session |-> s]  \* create_project_session_id

\* Faulty variant: the thread reads the project when it needs it.
KeyOfNow(q) == Key(cookie, reqs[q].session)

\* The thread keeps the project the request came with.
KeyOf(q) == Key(reqs[q].project, reqs[q].session)

Row(key, role, req) ==
  [id |-> serial + 1, key |-> key, role |-> role, req |-> req, ts |-> now]

\* save_message_to_db
Save(key, role, req) == rows' = rows \cup {Row(key, role, req)} /\ serial' = serial + 1

Running(q) == reqs[q].pc # "ended"
HasAsked(q) == reqs[q].pc \in {"load", "agent"}

Init ==
  /\ now = 0
  /\ column = FALSE
  /\ rows = {}
  /\ serial = 0
  /\ cookie = None
  /\ drawn = {}
  /\ tabs = [t \in Tabs |-> [at |-> "home"]]
  /\ reqs = <<>>

-----------------------------------------------------------------------------
(* What the helpers of ai_chat and ai_tool read. *)

\* Only sessions with a real conversation are listed.
Listed(p) == {row.key.session : row \in {r \in rows : r.key.project = p}}

\* MAX(timestamp) of a listed session, the newest first; ties are in any order.
Newest(p) ==
  {s \in Listed(p) :
     \E row \in rows :
       /\ row.key = Key(p, s)
       /\ \A r \in rows : r.key.project = p => r.ts <= row.ts}

\* load_chat_history: questions and answers by timestamp; the sort is stable and
\* the clock does not go back, so their order is that of their ids.
History(key) == {row \in rows : row.key = key}

UserRows(key) == {row \in History(key) : row.role = "user"}

\* The request of such a row, 0 if there is none.
RequestOf(found, key) == IF UserRows(key) = {} THEN {0} ELSE {row.req : row \in found}

\* Faulty variant: the order of the query is ascending.
OldestMessage(key) ==
  RequestOf({row \in UserRows(key) : \A r \in UserRows(key) : row.id <= r.id}, key)

\* ORDER BY timestamp DESC LIMIT 1 keeps the first inserted of equal rows.
LatestMessage(key) ==
  RequestOf({row \in UserRows(key) :
               \A r \in UserRows(key) : r.ts < row.ts \/ (r.ts = row.ts /\ row.id <= r.id)},
            key)

-----------------------------------------------------------------------------
(* The tabs and the handlers of their requests. *)

Show(t, page) == tabs' = [tabs EXCEPT ![t] = page]
Opening(s) == [at |-> "opening", session |-> s]

Draw(s) == s \notin drawn /\ drawn' = drawn \cup {s}

\* select_project goes to the newest conversation or to a new one.
SelectProject(t, p) ==
  /\ tabs[t].at = "home"
  /\ cookie' = p
  /\ \E s \in Sessions :
       /\ Show(t, Opening(s))
       /\ IF Listed(p) # {} THEN s \in Newest(p) /\ UNCHANGED drawn ELSE Draw(s)
  /\ UNCHANGED <<now, column, rows, serial, reqs>>

Page(s, p) == [at |-> "chat", session |-> s, list |-> Listed(p) \cup {s}, waiting |-> 0]

\* Faulty variant: the page does not wait for the migration.
ChatSessionAtOnce(t) ==
  /\ tabs[t].at = "opening"
  /\ Show(t, IF cookie = None THEN [at |-> "home"] ELSE Page(tabs[t].session, cookie))
  /\ UNCHANGED <<now, column, rows, serial, cookie, drawn, reqs>>

\* chat_session: the page belongs to the project of the cookie.  On its way
\* init_chat_session looks for the column; CREATE TABLE does not make it.
ChatSession(t) ==
  /\ tabs[t].at = "opening"
  /\ LET s == tabs[t].session
     IN \/ cookie = None /\ Show(t, [at |-> "home"])
        \/ cookie # None /\ column /\ Show(t, Page(s, cookie))
        \/ cookie # None /\ ~column
           /\ Show(t, [at |-> "altering", session |-> s, project |-> cookie])
  /\ UNCHANGED <<now, column, rows, serial, cookie, drawn, reqs>>

\* ALTER TABLE fails if another request has added the column since.
AlterTable(t) ==
  /\ tabs[t].at = "altering"
  /\ column' = TRUE
  /\ LET s == tabs[t].session
     IN Show(t, IF column THEN [at |-> "failed", session |-> s]
                ELSE Page(s, tabs[t].project))
  /\ UNCHANGED <<now, rows, serial, cookie, drawn, reqs>>

\* The home page, by its address or the back button: the cookie stays.  Typing
\* the address of a project is this, and then its link.
GoHome(t) ==
  /\ tabs[t].at \in {"chat", "failed"}
  /\ Show(t, [at |-> "home"])
  /\ UNCHANGED <<now, column, rows, serial, cookie, drawn, reqs>>

\* A link of the sidebar, a reload, or the address of any session at all, by the
\* back button, a bookmark or by typing it: the route asks neither whether the
\* session exists nor of which project it is.
OpenSession(t) ==
  /\ tabs[t].at \in {"home", "chat", "failed"}
  /\ \E s \in Sessions : Show(t, Opening(s)) /\ drawn' = drawn \cup {s}
  /\ UNCHANGED <<now, column, rows, serial, cookie, reqs>>

\* new_session_with_project, from its link or after a deletion.
NewSession(t) ==
  /\ tabs[t].at \in {"chat", "renewing"}
  /\ IF cookie = None THEN Show(t, [at |-> "home"]) /\ UNCHANGED drawn
     ELSE \E s \in Sessions : Draw(s) /\ Show(t, Opening(s))
  /\ UNCHANGED <<now, column, rows, serial, cookie, reqs>>

\* exit_project, from its link or after a deletion; chat_home does the same.
ExitProject(t) ==
  /\ tabs[t].at \in {"chat", "leaving"}
  /\ cookie' = None
  /\ Show(t, [at |-> "home"])
  /\ UNCHANGED <<now, column, rows, serial, drawn, reqs>>

\* Faulty variant: the server does not ask for the project.
SubmitWithoutProject(t) ==
  /\ tabs[t].at = "chat" /\ tabs[t].waiting = 0
  /\ Len(reqs) < MaxRequests
  /\ reqs' = Append(reqs, [project |-> cookie, session |-> tabs[t].session, pc |-> "ask",
                           ts |-> 0, context |-> {}, edits |-> {}, erased |-> FALSE,
                           deleted |-> FALSE])
  /\ Show(t, [tabs[t] EXCEPT !.waiting = Len(reqs) + 1])
  /\ UNCHANGED <<now, column, rows, serial, cookie, drawn>>

\* The cookie gives the project, the page the session.
Submit(t) ==
  /\ tabs[t].at = "chat" /\ tabs[t].waiting = 0
  /\ cookie # None /\ Len(reqs) < MaxRequests
  /\ reqs' = Append(reqs, [project |-> cookie, session |-> tabs[t].session, pc |-> "ask",
                           ts |-> 0, context |-> {}, edits |-> {}, erased |-> FALSE,
                           deleted |-> FALSE])
  /\ Show(t, [tabs[t] EXCEPT !.waiting = Len(reqs) + 1])
  /\ UNCHANGED <<now, column, rows, serial, cookie, drawn>>

\* The last event or an error of the connection, which the thread survives.
StreamEnds(t) ==
  /\ tabs[t].at = "chat" /\ tabs[t].waiting # 0
  /\ Show(t, [tabs[t] EXCEPT !.waiting = 0])
  /\ UNCHANGED <<now, column, rows, serial, cookie, drawn, reqs>>

\* Faulty variant: the whole project's history is deleted.
WithoutProject(key) == {row \in rows : row.key.project # key.project}

\* DELETE FROM messages WHERE session_id = ?
Without(key) == {row \in rows : row.key # key}

\* The button also works while an answer is awaited.  Two history variables:
\* erased, the request's question went while its thread was at work, and
\* deleted, its conversation did, with or without the question.
DeleteSession(t, s) ==
  /\ tabs[t].at = "chat" /\ s \in tabs[t].list
  /\ LET key == Key(cookie, s)
         left == {o \in Listed(cookie) : o # s}
     IN /\ rows' = Without(key)
        /\ reqs' = [q \in DOMAIN reqs |->
                      [reqs[q] EXCEPT !.erased  = @ \/ (HasAsked(q) /\ KeyOf(q) = key),
                                      !.deleted = @ \/ (Running(q) /\ KeyOf(q) = key)]]
        /\ IF s = tabs[t].session
           THEN Show(t, [at |-> IF left = {} THEN "leaving" ELSE "renewing"])
           ELSE Show(t, [tabs[t] EXCEPT !.list = @ \ {s}])
  /\ UNCHANGED <<now, column, serial, cookie, drawn>>

-----------------------------------------------------------------------------
(* The thread of request q: chat_with_ai_stream. *)

At(q, pc) == q \in DOMAIN reqs /\ reqs[q].pc = pc

Step(q, pc) == reqs' = [reqs EXCEPT ![q].pc = pc]

\* The thread ends, and its local variables with it.
Ended(req) == [req EXCEPT !.pc = "ended", !.context = {}, !.edits = {}]
End(q) == reqs' = [reqs EXCEPT ![q] = Ended(@)]

SaveQuestion(q) ==
  /\ At(q, "ask")
  /\ reqs' = [reqs EXCEPT ![q].pc = "load", ![q].ts = now]
  /\ Save(KeyOf(q), "user", q)
  /\ UNCHANGED <<now, column, cookie, drawn, tabs>>

LoadHistory(q) ==
  /\ At(q, "load")
  /\ reqs' = [reqs EXCEPT ![q].pc = "agent", ![q].context = History(KeyOf(q))]
  /\ UNCHANGED <<now, column, rows, serial, cookie, drawn, tabs>>

\* edit_request, as often as the agent calls it: the message it passes to the
\* editor, 0 when there is none.  (A query that fails edits nothing.)
EditRequest(q) ==
  /\ At(q, "agent")
  /\ reqs' = [reqs EXCEPT ![q].edits = @ \cup LatestMessage(KeyOf(q))]
  /\ UNCHANGED <<now, column, rows, serial, cookie, drawn, tabs>>

SaveAnswer(q) ==
  /\ At(q, "agent") /\ End(q)
  /\ Save(KeyOf(q), "ai", q)
  /\ UNCHANGED <<now, column, cookie, drawn, tabs>>

\* Every step may raise: the database is locked, the model cannot be reached.
Raise(q) ==
  /\ q \in DOMAIN reqs /\ Running(q) /\ End(q)
  /\ UNCHANGED <<now, column, rows, serial, cookie, drawn, tabs>>

\* The server is restarted: its threads and connections are gone, the database
\* stays, and secret_key is new, so the cookie is no longer accepted.
Restart ==
  /\ cookie' = None
  /\ reqs' = [q \in DOMAIN reqs |->
                IF Running(q) THEN Ended(reqs[q]) ELSE reqs[q]]
  /\ tabs' = [t \in Tabs |->
                CASE tabs[t].at = "chat" -> [tabs[t] EXCEPT !.waiting = 0]
                  [] tabs[t].at = "altering" -> [at |-> "failed", session |-> tabs[t].session]
                  [] OTHER -> tabs[t]]
  /\ UNCHANGED <<now, column, rows, serial, drawn>>

Tick ==
  /\ now < MaxTime
  /\ now' = now + 1
  /\ UNCHANGED <<column, rows, serial, cookie, drawn, tabs, reqs>>

-----------------------------------------------------------------------------
Browser(t) ==
  \/ \E p \in Projects : SelectProject(t, p)
  \/ ChatSession(t) \/ AlterTable(t)
  \/ GoHome(t) \/ OpenSession(t) \/ NewSession(t) \/ ExitProject(t)
  \/ Submit(t) \/ StreamEnds(t)
  \/ \E s \in Sessions : DeleteSession(t, s)

Thread(q) ==
  \/ SaveQuestion(q) \/ LoadHistory(q)
  \/ EditRequest(q) \/ SaveAnswer(q) \/ Raise(q)

Next ==
  \/ \E t \in Tabs : Browser(t)
  \/ \E q \in 1..MaxRequests : Thread(q)
  \/ Restart \/ Tick

Spec == Init /\ [][Next]_vars

-----------------------------------------------------------------------------
(* Properties. *)

Messages == [id : Nat, key : Keys, role : {"user", "ai"},
             req : 1..MaxRequests, ts : 0..MaxTime]
Requests == [project : Projects, session : Sessions,
             pc : {"ask", "load", "agent", "ended"}, ts : 0..MaxTime,
             context : SUBSET Messages, edits : SUBSET (0..MaxRequests),
             erased : BOOLEAN, deleted : BOOLEAN]
Pages    == [at : {"home", "leaving", "renewing"}]
              \cup [at : {"opening", "failed"}, session : Sessions]
              \cup [at : {"altering"}, session : Sessions, project : Projects]
              \cup [at : {"chat"}, session : Sessions, list : SUBSET Sessions,
                    waiting : 0..MaxRequests]

TypeOK ==
  /\ now \in 0..MaxTime
  /\ column \in BOOLEAN
  /\ rows \subseteq Messages
  /\ serial \in Nat
  /\ cookie \in Projects \cup {None}
  /\ drawn \subseteq Sessions
  /\ tabs \in [Tabs -> Pages]
  /\ reqs \in Seq(Requests) /\ Len(reqs) <= MaxRequests

IsQuestion(row, q) == row.role = "user" /\ row.req = q

\* An answer stands in the history after its question, in the same session of
\* the same project, unless the session was deleted between the two: no other
\* interleaving of tabs and threads separates them.
OrphanOnlyByDelete ==
  \A answer \in rows :
    answer.role = "ai" /\ ~reqs[answer.req].erased =>
      \E row \in rows :
        IsQuestion(row, answer.req) /\ row.key = answer.key /\ row.id < answer.id

\* An edit works on a message of its request's conversation that was saved in
\* the same second as the request's own question or later.  It may be newer: a
\* thread whose connection was lost reads what the user sent after it.  It is
\* older only by a tie: of the questions of one second the query returns the
\* one inserted first, although the code calls it the newest.  There is no
\* message only if the session was deleted meanwhile.
EditOlderOnlyByTie ==
  \A q \in DOMAIN reqs : \A e \in reqs[q].edits :
    IF e = 0 THEN reqs[q].erased
    ELSE KeyOf(e) = KeyOf(q) /\ reqs[e].ts >= reqs[q].ts

\* The history given to the agent holds the user's question once, and no message
\* of another session or project, unless the session was deleted meanwhile.
ContextHasQuestion ==
  \A q \in DOMAIN reqs :
    LET context == reqs[q].context
    IN /\ \A row \in context : row.key = Key(reqs[q].project, reqs[q].session)
       /\ reqs[q].pc = "agent" /\ ~reqs[q].erased =>
            \E row \in context : \A r \in context : IsQuestion(r, q) <=> r = row

\* The table is migrated before anyone depends on it: no thread writes to it
\* and no chat page is shown before the column is there, in whatever order
\* first requests come, and a restart in between leaves nothing half done.
MigratedFirst ==
  ~column => reqs = <<>> /\ rows = {} /\ \A t \in Tabs : tabs[t].at # "chat"

\* A conversation belongs to one project.
SessionOneProject ==
  \A row, r \in rows : row.key.session = r.key.session => row.key = r.key

\* A deleted conversation is gone: nothing of it comes back, and no request that
\* was under way adds to it.
DeletedForGood == \A row \in rows : ~reqs[row.req].deleted

=============================================================================
