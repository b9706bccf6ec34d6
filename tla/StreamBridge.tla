---------------------------- MODULE StreamBridge ----------------------------
(***************************************************************************)
(* The streaming chat of app.py (api_chat_stream) and of the page that     *)
(* opens the stream (web/templates/chat.html).  A request has a worker     *)
(* thread, which runs chat_with_ai_stream and puts status messages in a    *)
(* queue, and a generator, which polls thread and queue and yields server- *)
(* sent events.  The page handles the events, or the error of a connection *)
(* that ended early; the thread knows nothing of the connection.           *)
(*                                                                         *)
(* Data.  The statuses of a worker are numbered in the order it puts them; *)
(* 0 is the status the generator sends on its own before the thread runs.  *)
(***************************************************************************)
EXTENDS Naturals, Sequences

CONSTANTS MaxRequests,  \* bound: chat requests of the page
          MaxStatuses   \* bound: status messages of any two workers together

ASSUME StreamAssumption == MaxRequests \in Nat /\ MaxStatuses \in Nat

Requests == 1..MaxRequests

VARIABLES
  gen,     \* where the generator of each request is
  worker,  \* the chat thread: not started, running or ended
  saved,   \* rows the worker has committed: none, the user's, the answer too
  put,     \* number of statuses put so far
  queue,   \* status_queue
  result,  \* result_container
  sent,    \* events yielded
  seen,    \* number of events the page has handled
  conn,    \* the HTTP connection of the stream
  page     \* loading state, open EventSource, requests made, AI bubbles,
           \* and whether the template was rendered without any history

serverVars == <<gen, worker, saved, put, queue, result, sent>>
vars == <<serverVars, seen, conn, page>>

Status(n)   == [type |-> "status", body |-> n]
Final(type, body) == [type |-> type, body |-> body]

Init ==
  /\ gen = [r \in Requests |-> "none"]
  /\ worker = [r \in Requests |-> "none"]
  /\ saved = [r \in Requests |-> "none"]
  /\ put = [r \in Requests |-> 0]
  /\ queue = [r \in Requests |-> <<>>]
  /\ result = [r \in Requests |-> "none"]
  /\ sent = [r \in Requests |-> <<>>]
  /\ seen = [r \in Requests |-> 0]
  /\ conn = [r \in Requests |-> "none"]
  /\ \E fresh \in BOOLEAN :
       page = [loading |-> FALSE, source |-> 0, issued |-> 0, bubbles |-> <<>>,
               fresh |-> fresh]

-----------------------------------------------------------------------------
(* The generator. *)

\* A yield on a lost connection may still be swallowed by the socket; once the
\* write fails the server closes the generator.
Yield(r, event, next) ==
  \/ /\ sent' = [sent EXCEPT ![r] = Append(@, event)]
     /\ gen' = [gen EXCEPT ![r] = next]
  \/ /\ conn[r] = "lost"
     /\ gen' = [gen EXCEPT ![r] = "closed"]
     /\ UNCHANGED sent

GenGreets(r) ==
  /\ gen[r] = "greet"
  /\ Yield(r, Status(0), "start")
  /\ UNCHANGED <<worker, saved, put, queue, result, seen, conn, page>>

GenStarts(r) ==
  /\ gen[r] = "start"
  /\ worker' = [worker EXCEPT ![r] = "running"]
  /\ gen' = [gen EXCEPT ![r] = "check"]
  /\ UNCHANGED <<saved, put, queue, result, sent, seen, conn, page>>

\* No thread can be created: the except branch reports it.
GenCannotStart(r) ==
  /\ gen[r] = "start"
  /\ Yield(r, Final("error", "thread"), "closed")
  /\ UNCHANGED <<worker, saved, put, queue, result, seen, conn, page>>

\* Faulty variant: what is left in the queue is not drained.
GenChecksNoDrain(r) ==
  /\ gen[r] = "check"
  /\ gen' = [gen EXCEPT ![r] = IF worker[r] = "running" THEN "get" ELSE "final"]
  /\ UNCHANGED <<worker, saved, put, queue, result, sent, seen, conn, page>>

\* is_alive() is asked first, the queue read after it.
GenChecks(r) ==
  /\ gen[r] = "check"
  /\ gen' = [gen EXCEPT ![r] = IF worker[r] = "running" THEN "get" ELSE "drain"]
  /\ UNCHANGED <<worker, saved, put, queue, result, sent, seen, conn, page>>

GenGets(r) ==
  /\ gen[r] = "get"
  /\ IF queue[r] = <<>>
     THEN gen' = [gen EXCEPT ![r] = "check"] /\ UNCHANGED <<queue, sent>>
     ELSE /\ Yield(r, Status(Head(queue[r])), "check")
          /\ queue' = [queue EXCEPT ![r] = Tail(@)]
  /\ UNCHANGED <<worker, saved, put, result, seen, conn, page>>

GenDrains(r) ==
  /\ gen[r] = "drain"
  /\ IF queue[r] = <<>>
     THEN gen' = [gen EXCEPT ![r] = "final"] /\ UNCHANGED <<queue, sent>>
     ELSE /\ Yield(r, Status(Head(queue[r])), "drain")
          /\ queue' = [queue EXCEPT ![r] = Tail(@)]
  /\ UNCHANGED <<worker, saved, put, result, seen, conn, page>>

\* Faulty variant: the event has a type the page does not know.
FinalEventMisnamed(r) == Final("answer", result[r])

\* The error string is tested for truth, so an exception without a message
\* takes the branch of the response, whose value is None.
FinalEvent(r) ==
  IF result[r] = "error" THEN Final("error", "error") ELSE Final("response", result[r])

GenFinishes(r) ==
  /\ gen[r] = "final"
  /\ Yield(r, FinalEvent(r), "closed")
  /\ UNCHANGED <<worker, saved, put, queue, result, seen, conn, page>>

Generator(r) ==
  \/ GenGreets(r) \/ GenStarts(r) \/ GenCannotStart(r) \/ GenChecks(r)
  \/ GenGets(r) \/ GenDrains(r) \/ GenFinishes(r)

-----------------------------------------------------------------------------
(* The thread: chat_with_ai_stream inside run_chat. *)

WorkerSavesUser(r) ==
  /\ worker[r] = "running" /\ saved[r] = "none"
  /\ saved' = [saved EXCEPT ![r] = "user"]
  /\ UNCHANGED <<gen, worker, put, queue, result, sent, seen, conn, page>>

WorkerPuts(r) ==
  /\ worker[r] = "running" /\ saved[r] = "user"
  /\ put[r] < MaxStatuses /\ \A q \in Requests \ {r} : put[q] + put[r] < MaxStatuses
  /\ put' = [put EXCEPT ![r] = @ + 1]
  /\ queue' = [queue EXCEPT ![r] = Append(@, put[r] + 1)]
  /\ UNCHANGED <<gen, worker, saved, result, sent, seen, conn, page>>

WorkerSavesAnswer(r) ==
  /\ worker[r] = "running" /\ saved[r] = "user"
  /\ saved' = [saved EXCEPT ![r] = "answer"]
  /\ UNCHANGED <<gen, worker, put, queue, result, sent, seen, conn, page>>

WorkerReturns(r) ==
  /\ worker[r] = "running" /\ saved[r] = "answer"
  /\ worker' = [worker EXCEPT ![r] = "ended"]
  /\ result' = [result EXCEPT ![r] = "answer"]
  /\ UNCHANGED <<gen, saved, put, queue, sent, seen, conn, page>>

\* Any call may raise; str(e) may be empty ("blank").
WorkerRaises(r) ==
  /\ worker[r] = "running" /\ saved[r] # "answer"
  /\ worker' = [worker EXCEPT ![r] = "ended"]
  /\ \E error \in {"error", "blank"} : result' = [result EXCEPT ![r] = error]
  /\ UNCHANGED <<gen, saved, put, queue, sent, seen, conn, page>>

Worker(r) ==
  \/ WorkerSavesUser(r) \/ WorkerPuts(r) \/ WorkerSavesAnswer(r)
  \/ WorkerReturns(r) \/ WorkerRaises(r)

-----------------------------------------------------------------------------
(* The page. *)

\* The form is disabled while the page is loading.  The server refuses the
\* request when the cookie holds no project; to an EventSource that is an error.
Submit(r) ==
  /\ ~page.loading /\ r = page.issued + 1
  /\ page' = [page EXCEPT !.loading = TRUE, !.source = r, !.issued = r]
  /\ \E accepted \in BOOLEAN :
       /\ gen' = [gen EXCEPT ![r] = IF accepted THEN "greet" ELSE "closed"]
       /\ conn' = [conn EXCEPT ![r] = IF accepted THEN "open" ELSE "lost"]
  /\ UNCHANGED <<worker, saved, put, queue, result, sent, seen>>

\* Faulty variant: the source stays open, so the end of the stream is an error.
SettleKeepsSource(r, kind, body) ==
  /\ page' = [page EXCEPT !.loading = FALSE,
                          !.bubbles = Append(@, [req |-> r, kind |-> kind, body |-> body])]
  /\ conn' = [conn EXCEPT ![r] = "lost"]

\* A final bubble: the source is closed and the form enabled.
Settle(r, kind, body) ==
  /\ page' = [page EXCEPT !.loading = FALSE, !.source = 0,
                          !.bubbles = Append(@, [req |-> r, kind |-> kind, body |-> body])]
  /\ conn' = [conn EXCEPT ![r] = "lost"]

\* The page is loaded again; what was saved is in its history.
Render(r) ==
  /\ page' = [page EXCEPT !.loading = FALSE, !.source = 0, !.bubbles = <<>>,
                          !.fresh = @ /\ \A q \in Requests : saved[q] = "none"]
  /\ conn' = [conn EXCEPT ![r] = "lost"]

\* The first response on a page without history reloads it.
OnMessage(r) ==
  /\ page.source = r /\ conn[r] = "open" /\ seen[r] < Len(sent[r])
  /\ seen' = [seen EXCEPT ![r] = @ + 1]
  /\ LET event == sent[r][seen[r] + 1]
     IN IF event.type = "status" THEN UNCHANGED <<page, conn>>
        ELSE IF event.type = "response" /\ page.fresh THEN Render(r)
        ELSE Settle(r, event.type, event.body)
  /\ UNCHANGED serverVars

LoseConnection(r) ==
  /\ conn[r] = "open"
  /\ conn' = [conn EXCEPT ![r] = "lost"]
  /\ UNCHANGED <<serverVars, seen, page>>

\* Faulty variant: the handler leaves the form disabled.
OnErrorStuck(r) ==
  /\ page.source = r /\ conn[r] = "lost"
  /\ page' = [page EXCEPT !.source = 0, !.bubbles =
                Append(@, [req |-> r, kind |-> "connection", body |-> "none"])]
  /\ UNCHANGED <<serverVars, seen, conn>>

\* The connection broke or the server refused: the user is told to try again.
OnError(r) ==
  /\ page.source = r /\ conn[r] = "lost"
  /\ Settle(r, "connection", "none")
  /\ UNCHANGED <<serverVars, seen>>

\* The user reloads the page during a request.
Reload(r) ==
  /\ page.source = r
  /\ Render(r)
  /\ UNCHANGED <<serverVars, seen>>

Page(r) == Submit(r) \/ OnMessage(r) \/ LoseConnection(r) \/ OnError(r) \/ Reload(r)

-----------------------------------------------------------------------------
Next == \E r \in Requests : Generator(r) \/ Worker(r) \/ Page(r)

Spec == Init /\ [][Next]_vars

\* Threads are scheduled, every call of the worker returns or raises, and the
\* browser handles what has arrived.
FairSpec ==
  /\ Spec
  /\ \A r \in Requests : /\ WF_vars(Generator(r))
                         /\ WF_vars(Worker(r))
                         /\ WF_vars(OnMessage(r))
                         /\ WF_vars(OnError(r))

-----------------------------------------------------------------------------
(* Properties. *)

Outcomes == {"answer", "error", "blank"}
Results  == Outcomes \cup {"none", "thread"}
Events   == {Status(n) : n \in 0..MaxStatuses}
              \cup [type : {"response", "error"}, body : Results]
Bubbles  == [req : Requests, kind : {"response", "error", "connection"}, body : Results]
Pages    == [loading : BOOLEAN, source : 0..MaxRequests, issued : 0..MaxRequests,
             bubbles : Seq(Bubbles), fresh : BOOLEAN]
Polling  == {"check", "get", "drain", "final"}

TypeOK ==
  /\ gen \in [Requests -> {"none", "greet", "start", "closed"} \cup Polling]
  /\ worker \in [Requests -> {"none", "running", "ended"}]
  /\ saved \in [Requests -> {"none", "user", "answer"}]
  /\ put \in [Requests -> 0..MaxStatuses]
  /\ queue \in [Requests -> Seq(1..MaxStatuses)]
  /\ result \in [Requests -> Outcomes \cup {"none"}]
  /\ sent \in [Requests -> Seq(Events)]
  /\ seen \in [Requests -> Nat]
  /\ conn \in [Requests -> {"none", "open", "lost"}]
  /\ page \in Pages

HasFinal(r) == \E i \in 1..Len(sent[r]) : sent[r][i].type # "status"

\* The stream is the worker's statuses in the order it put them, then one last
\* event, which tells the result: no status is lost or reordered although
\* thread and queue are polled separately, and nothing follows the last event.
StreamComplete ==
  \A r \in Requests :
    /\ \A i \in 1..Len(sent[r]) :
         IF sent[r][i].type = "status" THEN sent[r][i] = Status(i - 1)
         ELSE i = Len(sent[r])
    /\ HasFinal(r) /\ worker[r] # "none" =>
         /\ Len(sent[r]) = put[r] + 2
         /\ sent[r][put[r] + 2] = FinalEvent(r)
         /\ worker[r] = "ended"

\* Each request gets one AI bubble, in the order of the requests, even when an
\* earlier request's worker is still at work; it tells that request's own
\* result and the page waits for the next one no earlier.
OneBubblePerRequest ==
  /\ \A i, j \in 1..Len(page.bubbles) :
       i < j => page.bubbles[i].req < page.bubbles[j].req
  /\ \A i \in 1..Len(page.bubbles) :
       LET b == page.bubbles[i]
       IN /\ b.kind = "response" => worker[b.req] = "ended" /\ b.body = result[b.req]
          /\ b.kind = "error" => result[b.req] = "error" \/ worker[b.req] = "none"
          /\ b.req # page.source

\* Whatever the page shows as the AI's answer is in the chat history.
AnswerIsSaved ==
  \A i \in 1..Len(page.bubbles) :
    page.bubbles[i].kind = "response" => saved[page.bubbles[i].req] = "answer"

Telling(outcome) ==
  IF outcome \in {"error", "thread"} THEN Final("error", outcome)
  ELSE Final("response", outcome)

Contract == INSTANCE StreamContract WITH
  Message  <- Status,
  work     <- worker,
  made     <- put,
  outcome  <- result,
  told     <- sent,
  over     <- [r \in Requests |-> gen[r] = "closed"]

\* The generator keeps the promise of the stream: polling thread and queue
\* separately, it tells every message in its turn and the outcome last, and a
\* broken connection costs the work nothing.
KeepsContract == Contract!Spec

\* The form does not stay disabled: every request ends in a bubble or is given
\* up by a reload.
FormComesBack == page.loading ~> ~page.loading

=============================================================================
