------------------------ MODULE StreamBridge_proofs ------------------------
(***************************************************************************)
(* Proofs about StreamBridge for any number of requests and statuses.      *)
(***************************************************************************)
EXTENDS StreamBridge, TLAPS

-----------------------------------------------------------------------------
(* The inductive invariant behind StreamComplete and OneBubblePerRequest.    *)

\* While the generator polls, what was sent and what is queued make up what was
\* put; a final event has told everything.
StreamInv(r) ==
  /\ r > page.issued => gen[r] = "none"
  /\ gen[r] \in {"none", "greet"} => sent[r] = <<>>
  /\ gen[r] = "start" => Len(sent[r]) = 1
  /\ gen[r] \in {"none", "greet", "start"} => worker[r] = "none"
  /\ worker[r] = "none" => queue[r] = <<>> /\ put[r] = 0
  /\ gen[r] # "closed" => \A i \in 1..Len(sent[r]) : sent[r][i].type = "status"
  /\ gen[r] \in Polling =>
       /\ worker[r] # "none"
       /\ Len(sent[r]) + Len(queue[r]) = put[r] + 1
       /\ \A i \in 1..Len(queue[r]) : queue[r][i] = Len(sent[r]) + i - 1
  /\ gen[r] \in {"drain", "final"} => worker[r] = "ended"
  /\ gen[r] = "final" => queue[r] = <<>>

\* A generator whose thread could not be started has no answer to send.
AnswerInv(r) ==
  worker[r] = "none" => \A i \in 1..Len(sent[r]) : sent[r][i].type # "response"

\* A thread returns an answer only after it has saved it.
SavedInv(r) ==
  /\ result[r] = "answer" => saved[r] = "answer"
  /\ worker[r] = "ended" => result[r] \in Outcomes

\* What a bubble says is settled when it appears.
BubbleOK(b) ==
  /\ b.req <= page.issued /\ b.req # page.source
  /\ b.kind = "response" =>
       worker[b.req] = "ended" /\ b.body = result[b.req] /\ b.body # "error"
  /\ b.kind = "error" =>
       \/ worker[b.req] = "ended" /\ result[b.req] = "error"
       \/ worker[b.req] = "none" /\ gen[b.req] = "closed"

\* The page waits for its last request, and no bubble is about a later one.
BubbleInv ==
  /\ page.source \in {0, page.issued}
  /\ \A i, j \in 1..Len(page.bubbles) :
       i < j => page.bubbles[i].req < page.bubbles[j].req
  /\ \A i \in 1..Len(page.bubbles) : BubbleOK(page.bubbles[i])

Inv ==
  /\ TypeOK /\ StreamComplete /\ OneBubblePerRequest
  /\ \A r \in Requests : StreamInv(r) /\ AnswerInv(r) /\ SavedInv(r)
  /\ BubbleInv
-----------------------------------------------------------------------------
\* StreamComplete, request by request.
Complete(r) ==
  /\ \A i \in 1..Len(sent[r]) :
       IF sent[r][i].type = "status" THEN sent[r][i] = Status(i - 1)
       ELSE i = Len(sent[r])
  /\ HasFinal(r) /\ worker[r] # "none" =>
       /\ Len(sent[r]) = put[r] + 2
       /\ sent[r][put[r] + 2] = FinalEvent(r)
       /\ worker[r] = "ended"

Good(r) == Complete(r) /\ StreamInv(r)

\* What the parts of the state that belong to request r are.
LEMMA Types ==
  ASSUME TypeOK, NEW r \in Requests
  PROVE  /\ gen[r] \in {"none", "greet", "start", "closed"} \cup Polling
         /\ worker[r] \in {"none", "running", "ended"}
         /\ put[r] \in Nat /\ Len(sent[r]) \in Nat /\ Len(queue[r]) \in Nat
         /\ queue[r] \in Seq(1..MaxStatuses) /\ sent[r] \in Seq(Events)
         /\ r \in Nat /\ page.issued \in Nat
BY StreamAssumption DEF TypeOK, Requests, Pages

LEMMA HeadTail ==
  ASSUME NEW S, NEW q \in Seq(S), q # <<>>
  PROVE  /\ Head(q) = q[1] /\ Head(q) \in S
         /\ Tail(q) \in Seq(S) /\ Len(Tail(q)) = Len(q) - 1 /\ Len(q) \in Nat \ {0}
         /\ \A i \in 1..Len(Tail(q)) : Tail(q)[i] = q[i + 1]
OBVIOUS

LEMMA EventTypes ==
  /\ \A n \in 0..MaxStatuses : Status(n) \in Events /\ Status(n).type = "status"
  /\ \A t \in {"response", "error"}, b \in Results :
       Final(t, b) \in Events /\ Final(t, b).type # "status"
BY DEF Events, Status, Final

LEMMA EventKinds ==
  ASSUME NEW e \in Events
  PROVE  \/ e.type = "status"
         \/ e.type \in {"response", "error"} /\ e.body \in Results
<1>1. CASE \E n \in 0..MaxStatuses : e = Status(n)
  BY <1>1 DEF Status
<1>2. CASE e \in [type : {"response", "error"}, body : Results]
  BY <1>2
<1> QED BY <1>1, <1>2 DEF Events

LEMMA YieldType ==
  ASSUME TypeOK, NEW r \in Requests, NEW event \in Events,
         NEW next \in {"start", "closed"} \cup Polling, Yield(r, event, next)
  PROVE  /\ gen' \in [Requests -> {"none", "greet", "start", "closed"} \cup Polling]
         /\ sent' \in [Requests -> Seq(Events)]
<1>1. /\ gen \in [Requests -> {"none", "greet", "start", "closed"} \cup Polling]
      /\ sent \in [Requests -> Seq(Events)]
  BY DEF TypeOK
<1>2. Append(sent[r], event) \in Seq(Events)
  BY <1>1
<1> QED BY <1>1, <1>2 DEF Yield

LEMMA FinalEventType ==
  ASSUME TypeOK, NEW r \in Requests
  PROVE  FinalEvent(r) \in Events /\ FinalEvent(r).type # "status"
<1>1. result[r] \in Results /\ "error" \in Results
  BY DEF TypeOK, Results, Outcomes
<1> QED BY <1>1, EventTypes DEF FinalEvent

\* What another request's step leaves alone stays good.
LEMMA Untouched ==
  ASSUME NEW r \in Requests, Good(r), TypeOK, TypeOK',
         gen'[r] = gen[r], worker'[r] = worker[r], put'[r] = put[r],
         queue'[r] = queue[r], result'[r] = result[r], sent'[r] = sent[r],
         page'.issued >= page.issued
  PROVE  Good(r)'
<1>1. Complete(r)'
  BY DEF Good, Complete, HasFinal, FinalEvent
<1>2. r > page'.issued => r > page.issued
  <2>1. r \in Nat /\ page.issued \in Nat /\ page'.issued \in Nat
    BY Types, StreamAssumption DEF TypeOK, Pages
  <2> QED BY <2>1
<1>3. StreamInv(r)'
  BY <1>2 DEF Good, StreamInv
<1> QED BY <1>1, <1>3 DEF Good

-----------------------------------------------------------------------------
LEMMA TypeStep == TypeOK /\ [Next]_vars => TypeOK'
<1> SUFFICES ASSUME TypeOK, [Next]_vars PROVE TypeOK'
  OBVIOUS
<1> USE DEF TypeOK, Polling, Pages
<1>1. ASSUME NEW r \in Requests, Generator(r) PROVE TypeOK'
  <2>1. CASE GenGreets(r)
    <3>1. Status(0) \in Events
      BY EventTypes, StreamAssumption
    <3>2. Yield(r, Status(0), "start")
      BY <2>1 DEF GenGreets
    <3>3. /\ gen' \in [Requests -> {"none", "greet", "start", "closed"} \cup Polling]
          /\ sent' \in [Requests -> Seq(Events)]
      BY <3>1, <3>2, YieldType
    <3> QED BY <2>1, <3>3 DEF GenGreets
  <2>2. CASE GenStarts(r)
    BY <2>2 DEF GenStarts
  <2>3. CASE GenCannotStart(r)
    <3>1. Final("error", "thread") \in Events
      BY EventTypes DEF Results, Outcomes
    <3>2. Yield(r, Final("error", "thread"), "closed")
      BY <2>3 DEF GenCannotStart
    <3>3. /\ gen' \in [Requests -> {"none", "greet", "start", "closed"} \cup Polling]
          /\ sent' \in [Requests -> Seq(Events)]
      BY <3>1, <3>2, YieldType
    <3> QED BY <2>3, <3>3 DEF GenCannotStart
  <2>4. CASE GenChecks(r)
    BY <2>4 DEF GenChecks
  <2>5. CASE GenGets(r) \/ GenDrains(r)
    <3>1. CASE queue[r] = <<>>
      BY <2>5, <3>1 DEF GenGets, GenDrains
    <3>2. CASE queue[r] # <<>>
      <4>1. Head(queue[r]) \in 1..MaxStatuses /\ Tail(queue[r]) \in Seq(1..MaxStatuses)
        BY <3>2, HeadTail
      <4>2. Status(Head(queue[r])) \in Events
        BY <4>1, EventTypes
      <4>3. PICK next \in Polling : Yield(r, Status(Head(queue[r])), next)
        BY <2>5, <3>2 DEF GenGets, GenDrains
      <4>4. /\ gen' \in [Requests -> {"none", "greet", "start", "closed"} \cup Polling]
            /\ sent' \in [Requests -> Seq(Events)]
        BY <4>2, <4>3, YieldType
      <4>5. queue' \in [Requests -> Seq(1..MaxStatuses)]
        BY <2>5, <3>2, <4>1 DEF GenGets, GenDrains
      <4> QED BY <2>5, <4>4, <4>5 DEF GenGets, GenDrains
    <3> QED BY <3>1, <3>2
  <2>6. CASE GenFinishes(r)
    <3>1. Yield(r, FinalEvent(r), "closed") /\ FinalEvent(r) \in Events
      BY <2>6, FinalEventType DEF GenFinishes
    <3>2. /\ gen' \in [Requests -> {"none", "greet", "start", "closed"} \cup Polling]
          /\ sent' \in [Requests -> Seq(Events)]
      BY <3>1, YieldType
    <3> QED BY <2>6, <3>2 DEF GenFinishes
  <2> QED BY <1>1, <2>1, <2>2, <2>3, <2>4, <2>5, <2>6 DEF Generator
<1>2. ASSUME NEW r \in Requests, Worker(r) PROVE TypeOK'
  <2>1. CASE WorkerSavesUser(r)
    BY <2>1 DEF WorkerSavesUser
  <2>2. CASE WorkerPuts(r)
    <3>1. put[r] + 1 \in 1..MaxStatuses
      BY <2>2, StreamAssumption DEF WorkerPuts
    <3> QED BY <2>2, <3>1 DEF WorkerPuts
  <2>3. CASE WorkerSavesAnswer(r)
    BY <2>3 DEF WorkerSavesAnswer
  <2>4. CASE WorkerReturns(r)
    BY <2>4 DEF WorkerReturns, Results, Outcomes
  <2>5. CASE WorkerRaises(r)
    BY <2>5 DEF WorkerRaises, Results, Outcomes
  <2> QED BY <1>2, <2>1, <2>2, <2>3, <2>4, <2>5 DEF Worker
<1>3. ASSUME NEW r \in Requests, Page(r) PROVE TypeOK'
  <2>a. ASSUME NEW kind \in {"response", "error", "connection"}, NEW body \in Results,
               Settle(r, kind, body)
        PROVE  /\ conn' \in [Requests -> {"none", "open", "lost"}]
               /\ page' \in Pages
    <3>1. [req |-> r, kind |-> kind, body |-> body] \in Bubbles
      BY DEF Bubbles
    <3>2. page.bubbles \in Seq(Bubbles)
      OBVIOUS
    <3>3. Append(page.bubbles, [req |-> r, kind |-> kind, body |-> body]) \in Seq(Bubbles)
      BY <3>1, <3>2
    <3>4. 0 \in 0..MaxRequests
      BY StreamAssumption
    <3> QED BY <2>a, <3>3, <3>4 DEF Settle
  <2>b. ASSUME Render(r)
        PROVE  conn' \in [Requests -> {"none", "open", "lost"}] /\ page' \in Pages
    <3>1. 0 \in 0..MaxRequests /\ <<>> \in Seq(Bubbles)
      BY StreamAssumption
    <3>2. \E fresh \in BOOLEAN :
            page' = [page EXCEPT !.loading = FALSE, !.source = 0, !.bubbles = <<>>,
                                 !.fresh = fresh]
      BY <2>b DEF Render
    <3>3. conn' = [conn EXCEPT ![r] = "lost"]
      BY <2>b DEF Render
    <3> QED BY <3>1, <3>2, <3>3
  <2>1. CASE Submit(r)
    <3>1. r \in 0..MaxRequests
      BY StreamAssumption DEF Requests
    <3> QED BY <2>1, <3>1 DEF Submit
  <2>2. CASE OnMessage(r)
    <3> DEFINE event == sent[r][seen[r] + 1]
    <3>1. seen[r] + 1 \in 1..Len(sent[r]) /\ sent[r] \in Seq(Events) /\ seen[r] \in Nat
      BY <2>2 DEF OnMessage
    <3>2. event \in Events
      BY <3>1
    <3>3. event.type # "status" =>
            event.type \in {"response", "error", "connection"} /\ event.body \in Results
      BY <3>2, EventKinds
    <3>4. /\ conn' \in [Requests -> {"none", "open", "lost"}]
          /\ page' \in Pages
      <4> HIDE DEF event
      <4>1. CASE event.type = "status"
        BY <2>2, <4>1 DEF OnMessage, event
      <4>2. CASE event.type # "status"
        <5>1. Settle(r, event.type, event.body) \/ Render(r)
          BY <2>2, <4>2 DEF OnMessage, event
        <5> QED BY <3>3, <4>2, <5>1, <2>a, <2>b
      <4> QED BY <4>1, <4>2
    <3>5. seen' \in [Requests -> Nat]
      BY <2>2, <3>1 DEF OnMessage
    <3> QED BY <2>2, <3>4, <3>5 DEF OnMessage, serverVars
  <2>3. CASE LoseConnection(r)
    BY <2>3 DEF LoseConnection, serverVars
  <2>4. CASE OnError(r)
    BY <2>4, <2>a DEF OnError, serverVars, Results, Outcomes
  <2>5. CASE Reload(r)
    BY <2>5, <2>b DEF Reload, serverVars
  <2> QED BY <1>3, <2>1, <2>2, <2>3, <2>4, <2>5 DEF Page
<1>4. CASE UNCHANGED vars
  BY <1>4 DEF vars, serverVars
<1> QED BY <1>1, <1>2, <1>3, <1>4 DEF Next

LEMMA OthersKept ==
  ASSUME TypeOK, NEW r \in Requests, Generator(r) \/ Worker(r) \/ Page(r),
         NEW x \in Requests, x # r
  PROVE  /\ gen'[x] = gen[x] /\ worker'[x] = worker[x] /\ put'[x] = put[x]
         /\ queue'[x] = queue[x] /\ result'[x] = result[x] /\ sent'[x] = sent[x]
<1>1. CASE Generator(r)
  <2>1. CASE GenGreets(r) \/ GenCannotStart(r) \/ GenFinishes(r)
    BY <2>1 DEF GenGreets, GenCannotStart, GenFinishes, Yield, TypeOK
  <2>2. CASE GenStarts(r) \/ GenChecks(r)
    BY <2>2 DEF GenStarts, GenChecks, TypeOK
  <2>3. CASE GenGets(r) \/ GenDrains(r)
    BY <2>3 DEF GenGets, GenDrains, Yield, TypeOK
  <2> QED BY <1>1, <2>1, <2>2, <2>3 DEF Generator
<1>2. CASE Worker(r)
  BY <1>2 DEF Worker, WorkerSavesUser, WorkerPuts, WorkerSavesAnswer, WorkerReturns,
              WorkerRaises, TypeOK
<1>3. CASE Page(r)
  BY <1>3 DEF Page, Submit, OnMessage, LoseConnection, OnError, Reload, serverVars, TypeOK
<1> QED BY <1>1, <1>2, <1>3

\* The page counts its requests up and starts only a new one.
LEMMA IssuedGrows ==
  ASSUME TypeOK, NEW r \in Requests, Generator(r) \/ Worker(r) \/ Page(r)
  PROVE  page'.issued >= page.issued
<1>0. page.issued \in Nat /\ page \in Pages
  BY StreamAssumption DEF TypeOK, Pages
<1>1. CASE Generator(r) \/ Worker(r)
  <2>1. page' = page
    BY <1>1 DEF Generator, GenGreets, GenStarts, GenCannotStart, GenChecks, GenGets,
                GenDrains, GenFinishes, Worker, WorkerSavesUser, WorkerPuts,
                WorkerSavesAnswer, WorkerReturns, WorkerRaises
  <2> QED BY <1>0, <2>1
<1>2. CASE Submit(r)
  <2>1. page'.issued = page.issued + 1
    BY <1>0, <1>2 DEF Submit, Pages
  <2> QED BY <1>0, <2>1
<1>3. CASE OnMessage(r) \/ LoseConnection(r) \/ OnError(r) \/ Reload(r)
  <2>1. page'.issued = page.issued
    BY <1>0, <1>3 DEF OnMessage, LoseConnection, OnError, Reload, Settle, Render, Pages
  <2> QED BY <1>0, <2>1
<1> QED BY <1>1, <1>2, <1>3 DEF Page

-----------------------------------------------------------------------------
(* The stream of the request that moves. *)

\* A status that comes in its turn keeps the stream in order.
LEMMA StatusInTurn ==
  ASSUME TypeOK, TypeOK', NEW r \in Requests, Good(r), gen[r] # "closed",
         sent'[r] = Append(sent[r], Status(Len(sent[r])))
  PROVE  /\ Len(sent'[r]) = Len(sent[r]) + 1
         /\ \A i \in 1..Len(sent'[r]) :
              sent'[r][i] = Status(i - 1) /\ sent'[r][i].type = "status"
<1>1. sent[r] \in Seq(Events) /\ Len(sent[r]) \in Nat
  BY Types
<1>2. \A i \in 1..Len(sent[r]) : sent[r][i] = Status(i - 1) /\ sent[r][i].type = "status"
  BY DEF Good, Complete, StreamInv
<1>3. Len(sent'[r]) = Len(sent[r]) + 1
  BY <1>1
<1>4. \A i \in 1..Len(sent[r]) : sent'[r][i] = sent[r][i]
  BY <1>1
<1>5. sent'[r][Len(sent[r]) + 1] = Status(Len(sent[r]))
  BY <1>1
<1>6. Status(Len(sent[r])).type = "status"
  BY DEF Status
<1> QED
  <2> SUFFICES ASSUME NEW i \in 1..(Len(sent[r]) + 1)
               PROVE  sent'[r][i] = Status(i - 1) /\ sent'[r][i].type = "status"
    BY <1>3
  <2>1. CASE i \in 1..Len(sent[r])
    BY <1>2, <1>4, <2>1
  <2>2. CASE i = Len(sent[r]) + 1
    <3>1. i - 1 = Len(sent[r])
      BY <1>1, <2>2
    <3> QED BY <1>5, <1>6, <2>2, <3>1
  <2> QED BY <1>1, <2>1, <2>2

\* A generator that is closed by a failed write sends no last event.
LEMMA ClosedEarly ==
  ASSUME TypeOK, TypeOK', NEW r \in Requests, Good(r), gen[r] \notin {"none", "closed"},
         gen'[r] = "closed", sent'[r] = sent[r], worker'[r] = worker[r],
         put'[r] = put[r], worker[r] = "none" => queue'[r] = queue[r],
         page'.issued = page.issued
  PROVE  Good(r)'
<1>1. \A i \in 1..Len(sent[r]) : sent[r][i].type = "status"
  BY DEF Good, StreamInv
<1>2. Complete(r)'
  BY <1>1 DEF Good, Complete, HasFinal
<1> QED BY <1>1, <1>2 DEF Good, StreamInv, Polling

\* What StreamInv says of a request whose generator has a status to send.
LEMMA GeneratorGood ==
  ASSUME TypeOK, TypeOK', NEW r \in Requests, Good(r), Generator(r)
  PROVE  Good(r)'
<1>0. /\ gen \in [Requests -> {"none", "greet", "start", "closed"} \cup Polling]
      /\ sent \in [Requests -> Seq(Events)] /\ sent[r] \in Seq(Events)
      /\ worker \in [Requests -> {"none", "running", "ended"}]
      /\ queue \in [Requests -> Seq(1..MaxStatuses)]
      /\ Len(sent[r]) \in Nat /\ Len(queue[r]) \in Nat /\ put[r] \in Nat
      /\ r \in Nat /\ page.issued \in Nat
  BY Types DEF TypeOK
<1>1. CASE GenGreets(r)
  <2>1. sent[r] = <<>> /\ worker[r] = "none" /\ gen[r] = "greet" /\ ~(r > page.issued)
        /\ queue[r] = <<>> /\ put[r] = 0
    BY <1>1 DEF GenGreets, Good, StreamInv
  <2>2. UNCHANGED <<worker, put, queue, result, page>> /\ Yield(r, Status(0), "start")
    BY <1>1 DEF GenGreets
  <2>3. CASE sent' = [sent EXCEPT ![r] = Append(@, Status(0))]
             /\ gen' = [gen EXCEPT ![r] = "start"]
    <3>1. Len(sent[r]) = 0 /\ sent'[r] = Append(sent[r], Status(Len(sent[r])))
      BY <1>0, <2>1, <2>3
    <3>2. /\ Len(sent'[r]) = Len(sent[r]) + 1
          /\ \A i \in 1..Len(sent'[r]) :
               sent'[r][i] = Status(i - 1) /\ sent'[r][i].type = "status"
      BY <2>1, <3>1, StatusInTurn
    <3>3. Complete(r)'
      BY <3>2 DEF Complete, HasFinal
    <3>4. gen'[r] = "start"
      BY <1>0, <2>3
    <3> QED BY <2>1, <2>2, <3>1, <3>2, <3>3, <3>4 DEF Good, StreamInv, Polling
  <2>4. CASE sent' = sent /\ gen' = [gen EXCEPT ![r] = "closed"]
    BY <1>0, <2>1, <2>2, <2>4, ClosedEarly
  <2> QED BY <2>2, <2>3, <2>4 DEF Yield
<1>2. CASE GenStarts(r)
  <2>1. /\ Len(sent[r]) = 1 /\ worker[r] = "none" /\ gen[r] = "start" /\ ~(r > page.issued)
        /\ queue[r] = <<>> /\ put[r] = 0
    BY <1>2 DEF GenStarts, Good, StreamInv
  <2>2. /\ UNCHANGED <<put, queue, result, page, sent>>
        /\ worker'[r] = "running" /\ gen'[r] = "check"
    BY <1>0, <1>2 DEF GenStarts
  <2>3. \A i \in 1..Len(sent[r]) : sent[r][i].type = "status"
    BY <2>1 DEF Good, StreamInv
  <2>4. Complete(r)'
    BY <2>2, <2>3 DEF Good, Complete, HasFinal
  <2>5. /\ Len(queue[r]) = 0 /\ 1 + 0 = 0 + 1
        /\ \A i \in 1..Len(queue[r]) : queue[r][i] = Len(sent[r]) + i - 1
    BY <2>1
  <2>6. Len(sent'[r]) + Len(queue'[r]) = put'[r] + 1
    BY <2>1, <2>2, <2>5
  <2> QED BY <2>1, <2>2, <2>3, <2>4, <2>5, <2>6 DEF Good, StreamInv, Polling
<1>3. CASE GenCannotStart(r)
  <2>1. /\ Len(sent[r]) = 1 /\ worker[r] = "none" /\ gen[r] = "start" /\ ~(r > page.issued)
        /\ queue[r] = <<>> /\ put[r] = 0
        /\ \A i \in 1..Len(sent[r]) : sent[r][i].type = "status" /\ sent[r][i] = Status(i - 1)
    BY <1>3 DEF GenCannotStart, Good, StreamInv, Complete
  <2>2. /\ UNCHANGED <<worker, put, queue, result, page>>
        /\ Yield(r, Final("error", "thread"), "closed")
    BY <1>3 DEF GenCannotStart
  <2>3. CASE sent' = [sent EXCEPT ![r] = Append(@, Final("error", "thread"))]
             /\ gen' = [gen EXCEPT ![r] = "closed"]
    <3>0. sent'[r] = Append(sent[r], Final("error", "thread"))
      BY <1>0, <2>3
    <3>1. /\ Len(sent'[r]) = 2 /\ sent'[r][1] = sent[r][1]
          /\ sent'[r][2] = Final("error", "thread")
      <4> DEFINE e == Final("error", "thread")
      <4>1. sent[r] \in Seq(Events) /\ Len(sent[r]) = 1 /\ sent'[r] = Append(sent[r], e)
        BY <1>0, <2>1, <3>0
      <4> HIDE DEF e
      <4>2. /\ Len(Append(sent[r], e)) = 2 /\ Append(sent[r], e)[1] = sent[r][1]
            /\ Append(sent[r], e)[2] = e
        BY <4>1
      <4> QED BY <4>1, <4>2 DEF e
    <3>2. sent'[r][2].type # "status"
      BY <3>1, EventTypes DEF Results, Outcomes
    <3>3. Complete(r)'
      BY <2>1, <2>2, <3>1, <3>2 DEF Complete
    <3>4. gen'[r] = "closed"
      BY <1>0, <2>3
    <3> QED BY <2>1, <2>2, <3>3, <3>4 DEF Good, StreamInv, Polling
  <2>4. CASE sent' = sent /\ gen' = [gen EXCEPT ![r] = "closed"]
    BY <1>0, <2>1, <2>2, <2>4, ClosedEarly
  <2> QED BY <2>2, <2>3, <2>4 DEF Yield
<1>4. CASE GenChecks(r)
  <2>1. /\ UNCHANGED <<worker, put, queue, result, page, sent>> /\ gen[r] = "check"
        /\ gen'[r] = IF worker[r] = "running" THEN "get" ELSE "drain"
    BY <1>0, <1>4 DEF GenChecks
  <2>2. worker[r] # "none"
    BY <2>1 DEF Good, StreamInv, Polling
  <2>3. worker[r] = "running" \/ worker[r] = "ended"
    BY <1>0, <2>2
  <2>4. Complete(r)'
    BY <2>1 DEF Good, Complete, HasFinal, FinalEvent
  <2> QED BY <2>1, <2>2, <2>3, <2>4 DEF Good, StreamInv, Polling
<1>5. CASE GenGets(r) \/ GenDrains(r)
  <2>0. /\ gen[r] \in {"get", "drain"} /\ ~(r > page.issued) /\ worker[r] # "none"
        /\ UNCHANGED <<worker, put, result, page>>
        /\ gen[r] = "drain" => worker[r] = "ended"
        /\ Len(sent[r]) + Len(queue[r]) = put[r] + 1
        /\ \A i \in 1..Len(queue[r]) : queue[r][i] = Len(sent[r]) + i - 1
    BY <1>5 DEF GenGets, GenDrains, Good, StreamInv, Polling
  <2>1. CASE queue[r] = <<>>
    <3>1. /\ UNCHANGED <<queue, sent>>
          /\ gen'[r] = IF gen[r] = "get" THEN "check" ELSE "final"
      BY <1>0, <1>5, <2>1 DEF GenGets, GenDrains
    <3>2. Complete(r)'
      BY <2>0, <3>1 DEF Good, Complete, HasFinal, FinalEvent
    <3> QED BY <2>0, <2>1, <3>1, <3>2 DEF Good, StreamInv, Polling
  <2>2. CASE queue[r] # <<>>
    <3> DEFINE next == IF gen[r] = "get" THEN "check" ELSE "drain"
    <3>1. /\ Yield(r, Status(Head(queue[r])), next)
          /\ queue'[r] = Tail(queue[r])
      BY <1>0, <1>5, <2>2 DEF GenGets, GenDrains
    <3>2. /\ Head(queue[r]) = queue[r][1] /\ Len(Tail(queue[r])) = Len(queue[r]) - 1
          /\ Len(queue[r]) \in Nat \ {0}
          /\ \A i \in 1..Len(Tail(queue[r])) : Tail(queue[r])[i] = queue[r][i + 1]
      BY <1>0, <2>2, HeadTail
    <3>3. Head(queue[r]) = Len(sent[r])
      BY <1>0, <2>0, <3>2
    <3>4. CASE sent' = [sent EXCEPT ![r] = Append(@, Status(Head(queue[r])))]
               /\ gen' = [gen EXCEPT ![r] = next]
      <4>1. sent'[r] = Append(sent[r], Status(Len(sent[r])))
        BY <1>0, <3>3, <3>4
      <4>2. /\ Len(sent'[r]) = Len(sent[r]) + 1
            /\ \A i \in 1..Len(sent'[r]) :
                 sent'[r][i] = Status(i - 1) /\ sent'[r][i].type = "status"
        BY <2>0, <4>1, StatusInTurn
      <4>3. Complete(r)'
        BY <4>2 DEF Complete, HasFinal
      <4>4. gen'[r] = next
        BY <1>0, <3>4
      <4>5. Len(sent'[r]) + Len(queue'[r]) = put'[r] + 1
        BY <1>0, <2>0, <3>1, <3>2, <4>2
      <4>6. ASSUME NEW i \in 1..Len(queue'[r])
            PROVE  queue'[r][i] = Len(sent'[r]) + i - 1
        <5>1. i + 1 \in 1..Len(queue[r])
          BY <1>0, <3>1, <3>2
        <5> QED BY <1>0, <2>0, <3>1, <3>2, <4>2, <5>1
      <4> QED BY <2>0, <4>2, <4>3, <4>4, <4>5, <4>6 DEF Good, StreamInv, Polling
    <3>5. CASE sent' = sent /\ gen' = [gen EXCEPT ![r] = "closed"]
      BY <1>0, <2>0, <3>5, ClosedEarly
    <3> QED BY <3>1, <3>4, <3>5 DEF Yield
  <2> QED BY <2>1, <2>2
<1>6. CASE GenFinishes(r)
  <2>1. /\ gen[r] = "final" /\ ~(r > page.issued) /\ worker[r] = "ended"
        /\ Len(sent[r]) + Len(queue[r]) = put[r] + 1 /\ queue[r] = <<>>
        /\ \A i \in 1..Len(sent[r]) : sent[r][i].type = "status" /\ sent[r][i] = Status(i - 1)
    BY <1>6 DEF GenFinishes, Good, StreamInv, Complete, Polling
  <2>2. Len(sent[r]) = put[r] + 1
    BY <1>0, <2>1
  <2>3. /\ UNCHANGED <<worker, put, queue, result, page>>
        /\ Yield(r, FinalEvent(r), "closed")
    BY <1>6 DEF GenFinishes
  <2>4. CASE sent' = [sent EXCEPT ![r] = Append(@, FinalEvent(r))]
             /\ gen' = [gen EXCEPT ![r] = "closed"]
    <3>1. /\ Len(sent'[r]) = put[r] + 2
          /\ \A i \in 1..Len(sent[r]) : sent'[r][i] = sent[r][i]
          /\ sent'[r][put[r] + 2] = FinalEvent(r)
      BY <1>0, <2>2, <2>4, FinalEventType
    <3>2. \A i \in 1..Len(sent'[r]) : i \in 1..Len(sent[r]) \/ i = put[r] + 2
      BY <1>0, <2>2, <3>1
    <3>3. FinalEvent(r).type # "status" /\ FinalEvent(r)' = FinalEvent(r)
      BY <2>3, FinalEventType DEF FinalEvent
    <3>4. Complete(r)'
      BY <2>1, <2>3, <3>1, <3>2, <3>3 DEF Complete
    <3>5. gen'[r] = "closed"
      BY <1>0, <2>4
    <3> QED BY <2>1, <2>3, <3>4, <3>5 DEF Good, StreamInv, Polling
  <2>5. CASE sent' = sent /\ gen' = [gen EXCEPT ![r] = "closed"]
    BY <1>0, <2>1, <2>3, <2>5, ClosedEarly
  <2> QED BY <2>3, <2>4, <2>5 DEF Yield
<1> QED BY <1>1, <1>2, <1>3, <1>4, <1>5, <1>6 DEF Generator

\* A put goes to the end of what is still to be sent; a worker ends before the
\* last event is chosen.
LEMMA WorkerGood ==
  ASSUME TypeOK, TypeOK', NEW r \in Requests, Good(r), Worker(r)
  PROVE  Good(r)'
<1>0. /\ worker \in [Requests -> {"none", "running", "ended"}]
      /\ put \in [Requests -> 0..MaxStatuses]
      /\ queue \in [Requests -> Seq(1..MaxStatuses)] /\ queue[r] \in Seq(1..MaxStatuses)
      /\ Len(sent[r]) \in Nat /\ Len(queue[r]) \in Nat /\ put[r] \in Nat
  BY Types DEF TypeOK
<1>1. worker[r] = "running" /\ UNCHANGED <<gen, sent, page>>
  BY DEF Worker, WorkerSavesUser, WorkerPuts, WorkerSavesAnswer, WorkerReturns, WorkerRaises
<1>2. /\ ~HasFinal(r) /\ gen[r] \notin {"none", "greet", "start", "drain", "final"}
      /\ gen[r] # "closed" => \A i \in 1..Len(sent[r]) : sent[r][i].type = "status"
  BY <1>1 DEF Good, Complete, StreamInv
<1>3. Complete(r)'
  BY <1>1, <1>2 DEF Good, Complete, HasFinal
<1>4. CASE WorkerSavesUser(r) \/ WorkerSavesAnswer(r)
  <2>1. UNCHANGED <<worker, put, queue>>
    BY <1>4 DEF WorkerSavesUser, WorkerSavesAnswer
  <2> QED BY <1>1, <1>3, <2>1 DEF Good, StreamInv
<1>5. CASE WorkerPuts(r)
  <2>1. /\ worker' = worker /\ put'[r] = put[r] + 1
        /\ queue'[r] = Append(queue[r], put[r] + 1)
    BY <1>0, <1>5 DEF WorkerPuts
  <2>2. /\ Len(queue'[r]) = Len(queue[r]) + 1
        /\ queue'[r][Len(queue[r]) + 1] = put[r] + 1
        /\ \A i \in 1..Len(queue[r]) : queue'[r][i] = queue[r][i]
    BY <1>0, <2>1
  <2>3. ASSUME gen[r] \in Polling
        PROVE  /\ Len(sent[r]) + Len(queue'[r]) = put'[r] + 1
               /\ \A i \in 1..Len(queue'[r]) : queue'[r][i] = Len(sent[r]) + i - 1
    <3>1. /\ Len(sent[r]) + Len(queue[r]) = put[r] + 1
          /\ \A i \in 1..Len(queue[r]) : queue[r][i] = Len(sent[r]) + i - 1
      BY <2>3 DEF Good, StreamInv
    <3>2. Len(sent[r]) + Len(queue'[r]) = put'[r] + 1
      <4> DEFINE s == Len(sent[r])  q == Len(queue[r])  p == put[r]
      <4>1. s \in Nat /\ q \in Nat /\ p \in Nat /\ s + q = p + 1
        BY <1>0, <3>1
      <4> HIDE DEF s, q, p
      <4>2. s + (q + 1) = (p + 1) + 1
        BY <4>1
      <4> QED BY <2>1, <2>2, <4>2 DEF s, q, p
    <3>3. ASSUME NEW i \in 1..Len(queue'[r])
          PROVE  queue'[r][i] = Len(sent[r]) + i - 1
      <4>1. CASE i \in 1..Len(queue[r])
        BY <2>2, <3>1, <4>1
      <4>2. CASE i = Len(queue[r]) + 1
        BY <1>0, <2>2, <3>1, <4>2
      <4> QED BY <1>0, <2>2, <4>1, <4>2
    <3> QED BY <3>2, <3>3
  <2> QED BY <1>1, <1>2, <1>3, <2>1, <2>3 DEF Good, StreamInv
<1>6. CASE WorkerReturns(r) \/ WorkerRaises(r)
  <2>1. UNCHANGED <<put, queue>> /\ worker'[r] = "ended"
    BY <1>0, <1>6 DEF WorkerReturns, WorkerRaises
  <2> QED BY <1>1, <1>2, <1>3, <2>1 DEF Good, StreamInv
<1> QED BY <1>4, <1>5, <1>6 DEF Worker

\* The page touches the server's state only when it makes a new request.
LEMMA PageGood ==
  ASSUME TypeOK, TypeOK', NEW r \in Requests, Good(r), Page(r)
  PROVE  Good(r)'
<1>1. CASE Submit(r)
  <2>0. /\ gen \in [Requests -> {"none", "greet", "start", "closed"} \cup Polling]
        /\ page.issued \in Nat
        /\ page \in Pages
    BY Types DEF TypeOK
  <2>1. r = page.issued + 1 /\ UNCHANGED <<worker, put, queue, result, sent>>
    BY <1>1 DEF Submit
  <2>2. page'.issued = r
    BY <1>1, <2>0 DEF Submit
  <2>3. gen[r] = "none" /\ gen'[r] \in {"greet", "closed"}
    BY <1>1, <2>0, <2>1 DEF Submit, Good, StreamInv
  <2>4. sent[r] = <<>> /\ worker[r] = "none"
    BY <2>3 DEF Good, StreamInv
  <2>5. Complete(r)'
    BY <2>1 DEF Good, Complete, HasFinal, FinalEvent
  <2>6. ~(r > page'.issued)
    BY <2>0, <2>1, <2>2
  <2> QED BY <2>1, <2>3, <2>4, <2>5, <2>6 DEF Good, StreamInv, Polling
<1>2. CASE ~Submit(r)
  <2>1. UNCHANGED serverVars
    BY <1>2 DEF Page, OnMessage, LoseConnection, OnError, Reload
  <2>2. page'.issued >= page.issued
    BY IssuedGrows
  <2> QED BY <2>1, <2>2, Untouched DEF serverVars
<1> QED BY <1>1, <1>2

LEMMA InitGood == Init => TypeOK /\ \A r \in Requests : Good(r)
<1> SUFFICES ASSUME Init PROVE TypeOK /\ \A r \in Requests : Good(r)
  OBVIOUS
<1>1. 0 \in 0..MaxRequests /\ 0 \in 0..MaxStatuses
  BY StreamAssumption
<1>2. TypeOK
  BY <1>1 DEF Init, TypeOK, Results, Outcomes, Pages
<1>3. ASSUME NEW r \in Requests PROVE Good(r)
  <2>1. /\ gen[r] = "none" /\ worker[r] = "none" /\ put[r] = 0
        /\ queue[r] = <<>> /\ sent[r] = <<>>
    BY DEF Init
  <2>2. Len(sent[r]) = 0
    BY <2>1
  <2> QED BY <2>1, <2>2 DEF Good, Complete, HasFinal, StreamInv, Polling
<1> QED BY <1>2, <1>3

LEMMA NextGood ==
  TypeOK /\ (\A r \in Requests : Good(r)) /\ [Next]_vars => (\A r \in Requests : Good(r))'
<1> SUFFICES ASSUME TypeOK, \A r \in Requests : Good(r), [Next]_vars, NEW x \in Requests
             PROVE  Good(x)'
  BY DEF Requests
<1>0. TypeOK'
  BY TypeStep
<1>1. ASSUME NEW r \in Requests, Generator(r) \/ Worker(r) \/ Page(r)
      PROVE  Good(x)'
  <2>1. CASE x = r
    BY <1>0, <1>1, <2>1, GeneratorGood, WorkerGood, PageGood
  <2>2. CASE x # r
    <3>1. /\ gen'[x] = gen[x] /\ worker'[x] = worker[x] /\ put'[x] = put[x]
          /\ queue'[x] = queue[x] /\ result'[x] = result[x] /\ sent'[x] = sent[x]
      BY <1>1, <2>2, OthersKept
    <3>2. page'.issued >= page.issued
      BY <1>1, IssuedGrows
    <3> QED BY <1>0, <3>1, <3>2, Untouched
  <2> QED BY <2>1, <2>2
<1>2. CASE UNCHANGED vars
  <2>1. page.issued \in Nat
    BY Types
  <2> QED BY <1>0, <1>2, <2>1, Untouched DEF vars, serverVars
<1> QED BY <1>1, <1>2 DEF Next

-----------------------------------------------------------------------------
(* The bubbles of the page. *)

\* No thread leaves its end, and what it returned stays.
LEMMA EndsStay ==
  ASSUME TypeOK, [Next]_vars, NEW x \in Requests, Good(x)
  PROVE  /\ worker[x] = "ended" => worker'[x] = "ended" /\ result'[x] = result[x]
         /\ worker[x] = "none" /\ gen[x] = "closed" /\ x <= page.issued =>
              worker'[x] = "none" /\ gen'[x] = "closed"
         /\ worker'[x] = "none" => worker[x] = "none"
<1>1. ASSUME NEW r \in Requests, Generator(r), x = r
      PROVE  /\ result'[x] = result[x] /\ gen[x] # "closed"
             /\ worker'[x] = worker[x] \/ (gen[x] = "start" /\ worker'[x] = "running")
  BY <1>1 DEF Generator, GenGreets, GenStarts, GenCannotStart, GenChecks, GenGets, GenDrains,
     GenFinishes, TypeOK
<1>2. ASSUME NEW r \in Requests, Worker(r), x = r
      PROVE  worker[x] = "running" /\ worker'[x] \in {"running", "ended"}
  BY <1>2 DEF Worker, WorkerSavesUser, WorkerPuts, WorkerSavesAnswer, WorkerReturns,
     WorkerRaises, TypeOK
<1>3. ASSUME NEW r \in Requests, Page(r), x = r
      PROVE  /\ worker'[x] = worker[x] /\ result'[x] = result[x]
             /\ gen'[x] = gen[x] \/ x = page.issued + 1
  BY <1>3 DEF Page, Submit, OnMessage, LoseConnection, OnError, Reload, serverVars
<1>4. page.issued \in Nat /\ x \in Nat /\ (gen[x] = "start" => worker[x] = "none")
  BY Types DEF Good, StreamInv
<1>5. UNCHANGED vars => worker'[x] = worker[x] /\ result'[x] = result[x] /\ gen'[x] = gen[x]
  BY DEF vars, serverVars
<1>6. ASSUME NEW r \in Requests, Generator(r) \/ Worker(r) \/ Page(r), x # r
      PROVE  worker'[x] = worker[x] /\ result'[x] = result[x] /\ gen'[x] = gen[x]
  BY <1>6, OthersKept
<1> QED BY <1>1, <1>2, <1>3, <1>4, <1>5, <1>6 DEF Next

Answers == \A r \in Requests : AnswerInv(r)

LEMMA AnswersStep ==
  ASSUME TypeOK, \A r \in Requests : Good(r), Answers, [Next]_vars
  PROVE  Answers'
<1> SUFFICES ASSUME NEW x \in Requests, worker'[x] = "none"
             PROVE  \A i \in 1..Len(sent'[x]) : sent'[x][i].type # "response"
  BY DEF Answers, AnswerInv, Requests
<1>1. worker[x] = "none" BY EndsStay
<1>2. \A i \in 1..Len(sent[x]) : sent[x][i].type # "response"
  BY <1>1 DEF Answers, AnswerInv
<1>3. CASE sent'[x] = sent[x] BY <1>2, <1>3
<1>4. ASSUME NEW e \in Events, e.type # "response", sent'[x] = Append(sent[x], e)
      PROVE  \A i \in 1..Len(sent'[x]) : sent'[x][i].type # "response"
  <2>1. sent[x] \in Seq(Events) BY Types
  <2> QED BY <1>2, <1>4, <2>1
<1>5. gen[x] \notin Polling BY <1>1 DEF Good, StreamInv
<1>6. ASSUME Generator(x)
      PROVE  \/ sent'[x] = sent[x]
             \/ \E e \in Events : e.type # "response" /\ sent'[x] = Append(sent[x], e)
  <2>1. GenGreets(x) \/ GenStarts(x) \/ GenCannotStart(x)
    BY <1>5, <1>6 DEF Generator, GenChecks, GenGets, GenDrains, GenFinishes, Polling
  <2>2. sent \in [Requests -> Seq(Events)] BY DEF TypeOK
  <2>3. CASE GenGreets(x)
    <3>1. Status(0) \in Events /\ Status(0).type = "status" BY EventTypes, StreamAssumption
    <3> QED BY <2>2, <2>3, <3>1 DEF GenGreets, Yield
  <2>4. CASE GenStarts(x) BY <2>4 DEF GenStarts
  <2>5. CASE GenCannotStart(x)
    <3>1. Final("error", "thread") \in Events BY EventTypes DEF Results, Outcomes
    <3>2. Final("error", "thread").type = "error" BY DEF Final
    <3> QED BY <2>2, <2>5, <3>1, <3>2 DEF GenCannotStart, Yield
  <2> QED BY <2>1, <2>3, <2>4, <2>5
<1>7. Worker(x) \/ Page(x) => sent'[x] = sent[x]
  BY DEF Worker, WorkerSavesUser, WorkerPuts, WorkerSavesAnswer, WorkerReturns, WorkerRaises,
     Page, Submit, OnMessage, LoseConnection, OnError, Reload, serverVars
<1>8. \/ \E r \in Requests \ {x} : Generator(r) \/ Worker(r) \/ Page(r)
      \/ Generator(x) \/ Worker(x) \/ Page(x) \/ UNCHANGED vars
  BY DEF Next
<1>9. (\E r \in Requests \ {x} : Generator(r) \/ Worker(r) \/ Page(r)) \/ UNCHANGED vars
      => sent'[x] = sent[x]
  BY OthersKept DEF vars, serverVars
<1> QED BY <1>3, <1>4, <1>6, <1>7, <1>8, <1>9

\* A bubble stays true as long as the page waits for no older request.
LEMMA BubbleStays ==
  ASSUME TypeOK, [Next]_vars, \A r \in Requests : Good(r), NEW b \in Bubbles, BubbleOK(b),
         page'.issued >= page.issued, page'.source \in {0, page.source, page.issued + 1},
         page'.issued \in Nat
  PROVE  BubbleOK(b)'
<1>1. b.req \in Requests /\ b.req \in Nat /\ b.req # 0 /\ page.issued \in Nat
  BY StreamAssumption DEF Bubbles, Requests, TypeOK, Pages
<1>2. b.req <= page'.issued /\ b.req # page'.source BY <1>1 DEF BubbleOK
<1>3. /\ b.kind = "response" =>
           worker'[b.req] = "ended" /\ b.body = result'[b.req] /\ b.body # "error"
      /\ b.kind = "error" =>
           \/ worker'[b.req] = "ended" /\ result'[b.req] = "error"
           \/ worker'[b.req] = "none" /\ gen'[b.req] = "closed"
  BY <1>1, EndsStay DEF BubbleOK
<1> QED BY <1>2, <1>3 DEF BubbleOK

\* What a final event tells is what the thread returned.
LEMMA EventTells ==
  ASSUME TypeOK, NEW r \in Requests, Good(r), AnswerInv(r), NEW i \in 1..Len(sent[r]),
         sent[r][i].type # "status"
  PROVE  /\ sent[r][i].type \in {"response", "error"} /\ sent[r][i].body \in Results
         /\ sent[r][i].type = "response" =>
              worker[r] = "ended" /\ sent[r][i].body = result[r] /\ result[r] # "error"
         /\ sent[r][i].type = "error" =>
              \/ worker[r] = "ended" /\ result[r] = "error"
              \/ worker[r] = "none" /\ gen[r] = "closed"
<1>1. sent[r] \in Seq(Events) /\ Len(sent[r]) \in Nat BY Types
<1>2. sent[r][i] \in Events BY <1>1
<1>3. sent[r][i].type \in {"response", "error"} /\ sent[r][i].body \in Results
  BY <1>2, EventKinds
<1>4. CASE worker[r] = "none"
  <2>1. sent[r][i].type # "response" BY <1>4 DEF AnswerInv
  <2>2. gen[r] = "closed" BY DEF Good, StreamInv
  <2> QED BY <1>3, <1>4, <2>1, <2>2
<1>5. CASE worker[r] # "none"
  <2>1. Len(sent[r]) = put[r] + 2 /\ sent[r][put[r] + 2] = FinalEvent(r) /\ worker[r] = "ended"
    BY <1>5 DEF Good, Complete, HasFinal
  <2>2. i = Len(sent[r]) BY DEF Good, Complete
  <2>3. sent[r][i] = FinalEvent(r) BY <2>1, <2>2
  <2>4. CASE result[r] = "error" BY <1>3, <2>1, <2>3, <2>4 DEF FinalEvent, Final
  <2>5. CASE result[r] # "error" BY <1>3, <2>1, <2>3, <2>5 DEF FinalEvent, Final
  <2> QED BY <2>4, <2>5
<1> QED BY <1>4, <1>5

LEMMA SettleStep ==
  ASSUME TypeOK, BubbleInv, [Next]_vars, UNCHANGED serverVars, NEW r \in Requests,
         page.source = r, NEW kind \in {"response", "error", "connection"},
         NEW body \in Results, Settle(r, kind, body),
         kind = "response" => worker[r] = "ended" /\ body = result[r] /\ body # "error",
         kind = "error" => \/ worker[r] = "ended" /\ result[r] = "error"
                           \/ worker[r] = "none" /\ gen[r] = "closed"
  PROVE  BubbleInv'
<1> DEFINE new == [req |-> r, kind |-> kind, body |-> body]
           old == page.bubbles
<1>1. /\ page \in Pages /\ old \in Seq(Bubbles) /\ Len(old) \in Nat
      /\ page.issued \in Nat /\ r \in Nat /\ r # 0
  BY StreamAssumption DEF TypeOK, Pages, Requests
<1>2. r = page.issued BY <1>1 DEF BubbleInv
<1>3. /\ page'.source = 0 /\ page'.issued = page.issued
      /\ page'.bubbles = Append(old, new)
  BY <1>1 DEF Settle, Pages
<1>4. new \in Bubbles BY DEF Bubbles
<1>5. new.req = r /\ new.kind = kind /\ new.body = body OBVIOUS
<1> DEFINE Holds(b) ==
      /\ b.req <= page'.issued /\ b.req # page'.source
      /\ b.kind = "response" =>
           worker'[b.req] = "ended" /\ b.body = result'[b.req] /\ b.body # "error"
      /\ b.kind = "error" =>
           \/ worker'[b.req] = "ended" /\ result'[b.req] = "error"
           \/ worker'[b.req] = "none" /\ gen'[b.req] = "closed"
<1>6. Holds(new)
  BY <1>1, <1>2, <1>3, <1>5 DEF serverVars
<1>7. ASSUME NEW i \in 1..Len(old)
      PROVE  Holds(old[i]) /\ old[i].req < r /\ old[i].req \in Nat
  <2>1. old[i] \in Bubbles /\ BubbleOK(old[i]) BY <1>1 DEF BubbleInv
  <2>2. old[i].req \in Nat /\ old[i].req # 0 BY <2>1 DEF Bubbles, Requests
  <2>3. old[i].req <= r /\ old[i].req # r BY <1>2, <2>1 DEF BubbleOK
  <2>4. Holds(old[i]) BY <1>3, <2>1, <2>2 DEF BubbleOK, serverVars
  <2> QED BY <1>1, <2>2, <2>3, <2>4
<1> HIDE DEF new, Holds
<1>8. /\ Len(page'.bubbles) = Len(old) + 1
      /\ \A i \in 1..Len(old) : page'.bubbles[i] = old[i]
      /\ page'.bubbles[Len(old) + 1] = new
  BY <1>1, <1>3, <1>4
<1>9. ASSUME NEW i \in 1..Len(page'.bubbles), NEW j \in 1..Len(page'.bubbles), i < j
      PROVE  page'.bubbles[i].req < page'.bubbles[j].req
  <2>1. i \in 1..Len(old) /\ page'.bubbles[i] = old[i] BY <1>1, <1>8, <1>9
  <2>2. CASE j \in 1..Len(old)
    BY <1>8, <1>9, <2>1, <2>2 DEF BubbleInv
  <2>3. CASE j = Len(old) + 1 BY <1>5, <1>7, <1>8, <2>1, <2>3
  <2> QED BY <1>1, <1>8, <2>2, <2>3
<1>10. ASSUME NEW i \in 1..Len(page'.bubbles) PROVE Holds(page'.bubbles[i])
  BY <1>1, <1>6, <1>7, <1>8
<1>11. \A i \in 1..Len(page'.bubbles) : BubbleOK(page.bubbles[i])'
  BY <1>10 DEF Holds, BubbleOK
<1> QED BY <1>3, <1>9, <1>11 DEF BubbleInv

LEMMA BubbleStep ==
  ASSUME TypeOK, \A r \in Requests : Good(r), Answers, BubbleInv, [Next]_vars
  PROVE  BubbleInv'
<1>1. /\ page \in Pages /\ page.bubbles \in Seq(Bubbles) /\ page.issued \in Nat
  BY StreamAssumption DEF TypeOK, Pages
\* Where the bubbles stay, it is enough what the page waits for.
<1>2. ASSUME page'.bubbles = page.bubbles, page'.issued \in Nat, page'.issued >= page.issued,
             page'.source \in {0, page.source, page.issued + 1},
             page'.source \in {0, page'.issued}
      PROVE  BubbleInv'
  <2>1. \A b \in Bubbles : BubbleOK(b) =>
          /\ b.req <= page'.issued /\ b.req # page'.source
          /\ b.kind = "response" =>
               worker'[b.req] = "ended" /\ b.body = result'[b.req] /\ b.body # "error"
          /\ b.kind = "error" =>
               \/ worker'[b.req] = "ended" /\ result'[b.req] = "error"
               \/ worker'[b.req] = "none" /\ gen'[b.req] = "closed"
    BY <1>2, BubbleStays DEF BubbleOK
  <2>2. \A i \in 1..Len(page.bubbles) : page.bubbles[i] \in Bubbles /\ BubbleOK(page.bubbles[i])
    BY <1>1 DEF BubbleInv
  <2>3. \A i \in 1..Len(page'.bubbles) : BubbleOK(page.bubbles[i])'
    BY <1>2, <2>1, <2>2 DEF BubbleOK
  <2> QED BY <1>2, <2>3 DEF BubbleInv
<1>3. ASSUME page' = page PROVE BubbleInv'
  BY <1>1, <1>2, <1>3 DEF BubbleInv
<1>4. ASSUME page'.bubbles = <<>>, page'.source = 0 PROVE BubbleInv'
  BY <1>4 DEF BubbleInv
<1>5. ASSUME NEW r \in Requests, Generator(r) \/ Worker(r) PROVE page' = page
  BY <1>5 DEF Generator, GenGreets, GenStarts, GenCannotStart, GenChecks, GenGets, GenDrains,
     GenFinishes, Worker, WorkerSavesUser, WorkerPuts, WorkerSavesAnswer, WorkerReturns,
     WorkerRaises
<1>6. ASSUME NEW r \in Requests, Submit(r) PROVE BubbleInv'
  <2>1. /\ page'.bubbles = page.bubbles /\ page'.issued = page.issued + 1
        /\ page'.source = page.issued + 1
    BY <1>1, <1>6 DEF Submit, Pages
  <2> QED BY <1>1, <1>2, <2>1
<1>7. ASSUME NEW r \in Requests, Render(r) PROVE BubbleInv'
  <2>1. page'.bubbles = <<>> /\ page'.source = 0 BY <1>1, <1>7 DEF Render, Pages
  <2> QED BY <1>4, <2>1
<1>8. ASSUME NEW r \in Requests, OnMessage(r) PROVE BubbleInv'
  <2> DEFINE i == seen[r] + 1
             e == sent[r][i]
  <2>1. i \in 1..Len(sent[r])
    <3>1. seen[r] \in Nat /\ Len(sent[r]) \in Nat BY Types DEF TypeOK
    <3> QED BY <1>8, <3>1 DEF OnMessage
  <2>2. page.source = r /\ UNCHANGED serverVars BY <1>8 DEF OnMessage
  <2>3. \/ e.type = "status" /\ page' = page
        \/ Render(r)
        \/ e.type # "status" /\ Settle(r, e.type, e.body)
    BY <1>8 DEF OnMessage
  <2>4. CASE e.type # "status" /\ Settle(r, e.type, e.body)
    <3>1. Good(r) /\ AnswerInv(r) BY DEF Answers
    <3> HIDE DEF i
    <3>2. /\ e.type \in {"response", "error"} /\ e.body \in Results
          /\ e.type = "response" => worker[r] = "ended" /\ e.body = result[r] /\ e.body # "error"
          /\ e.type = "error" => \/ worker[r] = "ended" /\ result[r] = "error"
                                 \/ worker[r] = "none" /\ gen[r] = "closed"
      BY <2>1, <2>4, <3>1, EventTells
    <3> HIDE DEF e
    <3> QED BY <2>2, <2>4, <3>2, SettleStep
  <2> QED BY <1>3, <1>7, <2>3, <2>4
<1>9. ASSUME NEW r \in Requests, LoseConnection(r) PROVE BubbleInv'
  BY <1>3, <1>9 DEF LoseConnection
<1>10. ASSUME NEW r \in Requests, OnError(r) PROVE BubbleInv'
  <2>1. page.source = r /\ UNCHANGED serverVars /\ Settle(r, "connection", "none")
    BY <1>10 DEF OnError
  <2>2. "none" \in Results BY DEF Results, Outcomes
  <2> QED BY <2>1, <2>2, SettleStep
<1>11. ASSUME NEW r \in Requests, Reload(r) PROVE BubbleInv'
  BY <1>7, <1>11 DEF Reload
<1>12. UNCHANGED vars => page' = page BY DEF vars
<1> QED BY <1>3, <1>5, <1>6, <1>8, <1>9, <1>10, <1>11, <1>12 DEF Next, Page

LEMMA InitBubbles == Init => Answers /\ BubbleInv
<1> SUFFICES ASSUME Init PROVE Answers /\ BubbleInv
  OBVIOUS
<1>1. \A r \in Requests : sent[r] = <<>> BY DEF Init
<1>2. page.bubbles = <<>> /\ page.source = 0 BY DEF Init
<1> QED BY <1>1, <1>2 DEF Answers, AnswerInv, BubbleInv

-----------------------------------------------------------------------------
(* The answer is saved before it is returned. *)

LEMMA SavedInit == Init => \A r \in Requests : SavedInv(r)
BY DEF Init, SavedInv

LEMMA SavedStep ==
  ASSUME TypeOK, \A r \in Requests : Good(r) /\ SavedInv(r), [Next]_vars
  PROVE  \A r \in Requests : SavedInv(r)'
<1> SUFFICES ASSUME NEW x \in Requests PROVE SavedInv(x)'
  OBVIOUS
<1>1. /\ worker \in [Requests -> {"none", "running", "ended"}]
      /\ saved \in [Requests -> {"none", "user", "answer"}]
      /\ result \in [Requests -> Outcomes \cup {"none"}]
  BY DEF TypeOK
<1>2. SavedInv(x) OBVIOUS
<1>3. ASSUME UNCHANGED <<worker, saved, result>> PROVE SavedInv(x)'
  BY <1>2, <1>3 DEF SavedInv
<1>4. ASSUME NEW r \in Requests, Generator(r) PROVE SavedInv(x)'
  <2>1. CASE GenStarts(r)
    <3>1. worker' = [worker EXCEPT ![r] = "running"] /\ UNCHANGED <<saved, result>>
      BY <2>1 DEF GenStarts
    <3> QED BY <1>1, <1>2, <3>1 DEF SavedInv
  <2>2. CASE ~GenStarts(r)
    <3>1. UNCHANGED <<worker, saved, result>>
      BY <1>4, <2>2 DEF Generator, GenGreets, GenCannotStart, GenChecks, GenGets, GenDrains,
         GenFinishes
    <3> QED BY <1>3, <3>1
  <2> QED BY <2>1, <2>2
<1>5. ASSUME NEW r \in Requests, Worker(r) PROVE SavedInv(x)'
  <2>1. CASE WorkerSavesUser(r) BY <1>1, <1>2, <2>1 DEF WorkerSavesUser, SavedInv
  <2>2. CASE WorkerPuts(r) BY <1>3, <2>2 DEF WorkerPuts
  <2>3. CASE WorkerSavesAnswer(r) BY <1>1, <1>2, <2>3 DEF WorkerSavesAnswer, SavedInv
  <2>4. CASE WorkerReturns(r)
    BY <1>1, <1>2, <2>4 DEF WorkerReturns, SavedInv, Outcomes
  <2>5. CASE WorkerRaises(r)
    BY <1>1, <1>2, <2>5 DEF WorkerRaises, SavedInv, Outcomes
  <2> QED BY <1>5, <2>1, <2>2, <2>3, <2>4, <2>5 DEF Worker
<1>6. ASSUME NEW r \in Requests, Page(r) PROVE SavedInv(x)'
  <2>1. UNCHANGED <<worker, saved, result>>
    BY <1>6 DEF Page, Submit, OnMessage, LoseConnection, OnError, Reload, serverVars
  <2> QED BY <1>3, <2>1
<1>7. CASE UNCHANGED vars BY <1>3, <1>7 DEF vars, serverVars
<1> QED BY <1>4, <1>5, <1>6, <1>7 DEF Next

-----------------------------------------------------------------------------
\* The variables of thread, generator and page have the types the code gives
\* them, whatever the interleaving of the requests.
THEOREM TypeCorrect == Spec => []TypeOK
<1>1. Init => TypeOK
  BY InitGood
<1> QED BY <1>1, TypeStep, PTL DEF Spec

\* The inductive invariant holds in every reachable state.
THEOREM Invariance == Spec => []Inv
<1> DEFINE Goods == \A r \in Requests : Good(r)
           Saveds == \A r \in Requests : SavedInv(r)
           All == TypeOK /\ Goods /\ Answers /\ Saveds /\ BubbleInv
<1>1. Init => All
  BY InitGood, InitBubbles, SavedInit
<1>2. All /\ [Next]_vars => All'
  <2> SUFFICES ASSUME All, [Next]_vars PROVE All'
    OBVIOUS
  <2>1. TypeOK' /\ Goods' /\ Answers' /\ BubbleInv'
    BY NextGood, TypeStep, AnswersStep, BubbleStep
  <2>2. \A r \in Requests : SavedInv(r)'
    BY SavedStep
  <2>3. Saveds'
    BY <2>2 DEF Requests
  <2> QED BY <2>1, <2>3
<1>3. All => Inv
  <2> SUFFICES ASSUME All PROVE Inv
    OBVIOUS
  <2>1. StreamComplete BY DEF Good, Complete, StreamComplete
  <2>2. \A i \in 1..Len(page.bubbles) : page.bubbles[i] \in Bubbles
    BY DEF TypeOK, Pages
  <2>3. OneBubblePerRequest BY <2>2 DEF BubbleInv, BubbleOK, OneBubblePerRequest
  <2> QED BY <2>1, <2>3 DEF Inv, Good, Answers
<1> HIDE DEF All
<1> QED BY <1>1, <1>2, <1>3, PTL DEF Spec

\* The generator of api_chat_stream sends every status its thread has put, in
\* the order of the puts, and then the thread's result, for any number of
\* requests and statuses, although it asks is_alive() and reads the queue in
\* separate steps and the connection may be lost at each of them.
THEOREM StreamIsComplete == Spec => []StreamComplete
<1>1. Inv => StreamComplete BY DEF Inv
<1> QED BY <1>1, Invariance, PTL

\* The page of chat.html shows one bubble per request, in the requests' order,
\* with that request's own result, although threads outlive their connections
\* and the next request may be sent while they are at work.
THEOREM BubblesAreOwn == Spec => []OneBubblePerRequest
<1>1. Inv => OneBubblePerRequest BY DEF Inv
<1> QED BY <1>1, Invariance, PTL

\* The only thing the page of chat.html can show as the AI's answer without a
\* row in the messages table is the None of an exception whose str() is empty:
\* while no thread of run_chat ends that way, every answer shown is saved.
NoBlankError == \A r \in Requests : result[r] # "blank"

THEOREM AnswersAreSaved == Spec /\ []NoBlankError => []AnswerIsSaved
<1>1. Inv /\ NoBlankError => AnswerIsSaved
  <2> SUFFICES ASSUME Inv, NoBlankError, NEW i \in 1..Len(page.bubbles),
                      page.bubbles[i].kind = "response"
               PROVE  saved[page.bubbles[i].req] = "answer"
    BY DEF AnswerIsSaved
  <2> DEFINE b == page.bubbles[i]
  <2>1. b.req \in Requests
    <3>1. page.bubbles \in Seq(Bubbles) BY DEF Inv, TypeOK, Pages
    <3>2. b \in Bubbles BY <3>1
    <3> QED BY <3>2 DEF Bubbles
  <2>2. worker[b.req] = "ended" /\ b.body = result[b.req] /\ b.body # "error"
    BY DEF Inv, BubbleInv, BubbleOK
  <2>3. SavedInv(b.req) /\ result[b.req] # "blank"
    BY <2>1 DEF Inv, NoBlankError
  <2> QED BY <2>2, <2>3 DEF SavedInv, Outcomes
<1> QED BY <1>1, Invariance, PTL

-----------------------------------------------------------------------------
(* The refinement of StreamContract. *)

Over == [r \in Requests |-> gen[r] = "closed"]

\* A yield tells the event and ends the stream with the generator, or finds the
\* connection lost and ends it without.
LEMMA YieldTells ==
  ASSUME TypeOK, NEW r \in Requests, NEW event, NEW next, Yield(r, event, next)
  PROVE  \/ /\ Contract!Tell(r, event)
            /\ Over' = [Over EXCEPT ![r] = (next = "closed")]
         \/ Over' = [Over EXCEPT ![r] = TRUE] /\ UNCHANGED sent
<1>0. gen \in [Requests -> {"none", "greet", "start", "closed"} \cup Polling]
  BY DEF TypeOK
<1>1. CASE sent' = [sent EXCEPT ![r] = Append(@, event)] /\ gen' = [gen EXCEPT ![r] = next]
  <2>1. Over' = [Over EXCEPT ![r] = (next = "closed")]
    BY <1>0, <1>1 DEF Over
  <2> QED BY <1>1, <2>1 DEF Contract!Tell
<1>2. CASE gen' = [gen EXCEPT ![r] = "closed"] /\ UNCHANGED sent
  BY <1>0, <1>2 DEF Over
<1> QED BY <1>1, <1>2 DEF Yield

LEMMA NotOver ==
  ASSUME TypeOK, NEW r \in Requests, NEW next, gen[r] # "closed", next # "closed",
         gen' = [gen EXCEPT ![r] = next]
  PROVE  Over' = Over
BY DEF Over, TypeOK

LEMMA ContractInit == Init => Contract!Init
BY DEF Init, Contract!Init

LEMMA GeneratorKeeps ==
  ASSUME Inv, NEW r \in Requests, Generator(r)
  PROVE  Contract!Next \/ UNCHANGED Contract!vars
<1>1. /\ TypeOK /\ StreamInv(r)
      /\ gen \in [Requests -> {"none", "greet", "start", "closed"} \cup Polling]
      /\ Len(sent[r]) \in Nat /\ Len(queue[r]) \in Nat /\ put[r] \in Nat
      /\ queue[r] \in Seq(1..MaxStatuses)
  BY Types DEF Inv, TypeOK
<1>2. gen[r] # "closed" /\ ~Over[r]
  BY DEF Generator, GenGreets, GenStarts, GenCannotStart, GenChecks, GenGets, GenDrains,
     GenFinishes, Over
<1>3. Over[r] = FALSE /\ [Over EXCEPT ![r] = FALSE] = Over
  BY <1>2 DEF Over
<1>4. ASSUME Contract!HangUp(r) \/ Contract!Greet(r) \/ Contract!Begin(r)
             \/ Contract!CannotBegin(r) \/ Contract!TellMessage(r) \/ Contract!TellOutcome(r)
      PROVE  Contract!Next
  BY <1>4 DEF Contract!Next
\* A generator that finds its connection lost.
<1>5. ASSUME Over' = [Over EXCEPT ![r] = TRUE], UNCHANGED <<worker, put, result, sent>>
      PROVE  Contract!HangUp(r)
  BY <1>2, <1>5 DEF Contract!HangUp, Over
<1>6. CASE GenGreets(r)
  <2>1. sent[r] = <<>> /\ Yield(r, Status(0), "start") /\ UNCHANGED <<worker, put, result>>
    BY <1>1, <1>6 DEF GenGreets, StreamInv
  <2>2. CASE Contract!Tell(r, Status(0)) /\ Over' = Over
    <3>1. Contract!Greet(r)
      BY <1>2, <2>1, <2>2 DEF Contract!Greet, Over
    <3> QED BY <1>4, <3>1
  <2> QED BY <1>1, <1>3, <1>4, <1>5, <2>1, <2>2, YieldTells
<1>7. CASE GenStarts(r)
  <2>1. sent[r] # <<>> /\ worker[r] = "none" /\ Over' = Over
        /\ worker' = [worker EXCEPT ![r] = "running"] /\ UNCHANGED <<put, result, sent>>
    <3>1. Len(sent[r]) = 1 /\ worker[r] = "none" BY <1>1, <1>7 DEF GenStarts, StreamInv
    <3>2. Over' = Over BY <1>1, <1>2, <1>7, NotOver DEF GenStarts
    <3> QED BY <1>7, <3>1, <3>2 DEF GenStarts
  <2>2. Contract!Begin(r)
    BY <1>2, <2>1 DEF Contract!Begin, Over
  <2> QED BY <1>4, <2>2
<1>8. CASE GenCannotStart(r)
  <2>1. sent[r] # <<>> /\ worker[r] = "none" /\ UNCHANGED <<worker, put, result>>
        /\ Yield(r, Final("error", "thread"), "closed")
    <3>1. Len(sent[r]) = 1 /\ worker[r] = "none"
      BY <1>1, <1>8 DEF GenCannotStart, StreamInv
    <3> QED BY <1>8, <3>1 DEF GenCannotStart
  <2>2. Final("error", "thread") = Telling("thread") BY DEF Telling
  <2>3. CASE Contract!Tell(r, Telling("thread")) /\ Over' = [Over EXCEPT ![r] = TRUE]
    <3>1. Contract!CannotBegin(r)
      BY <1>2, <2>1, <2>3 DEF Contract!CannotBegin, Over
    <3> QED BY <1>4, <3>1
  <2> QED BY <1>1, <1>4, <1>5, <2>1, <2>2, <2>3, YieldTells
<1>9. CASE GenChecks(r)
  <2>1. Over' = Over /\ UNCHANGED <<worker, put, result, sent>>
    BY <1>1, <1>2, <1>9, NotOver DEF GenChecks
  <2> QED BY <2>1 DEF Contract!vars, Over
<1>10. CASE (GenGets(r) \/ GenDrains(r)) /\ queue[r] = <<>>
  <2>1. Over' = Over /\ UNCHANGED <<worker, put, result, sent>>
    BY <1>1, <1>2, <1>10, NotOver DEF GenGets, GenDrains
  <2> QED BY <2>1 DEF Contract!vars, Over
<1>11. CASE (GenGets(r) \/ GenDrains(r)) /\ queue[r] # <<>>
  <2>1. /\ UNCHANGED <<worker, put, result>> /\ gen[r] \in Polling
        /\ \E next \in {"check", "drain"} : Yield(r, Status(Head(queue[r])), next)
    BY <1>11 DEF GenGets, GenDrains, Polling
  <2>2. /\ worker[r] # "none" /\ Len(sent[r]) + Len(queue[r]) = put[r] + 1
        /\ \A i \in 1..Len(queue[r]) : queue[r][i] = Len(sent[r]) + i - 1
    BY <1>1, <2>1 DEF StreamInv
  <2>3. Head(queue[r]) = queue[r][1] /\ 1 \in 1..Len(queue[r])
    BY <1>1, <1>11, HeadTail
  <2>4. Head(queue[r]) = Len(sent[r]) /\ Len(sent[r]) <= put[r]
    <3> DEFINE s == Len(sent[r])  q == Len(queue[r])  p == put[r]
    <3>1. /\ s \in Nat /\ q \in Nat /\ p \in Nat /\ s + q = p + 1 /\ q # 0
          /\ Head(queue[r]) = s + 1 - 1
      <4>1. s \in Nat /\ q \in Nat /\ p \in Nat /\ s + q = p + 1 BY <1>1, <2>2
      <4>2. q # 0 BY <1>1, <2>3
      <4>3. Head(queue[r]) = s + 1 - 1 BY <2>2, <2>3
      <4> QED BY <4>1, <4>2, <4>3
    <3> HIDE DEF s, q, p
    <3>2. s <= p /\ Head(queue[r]) = s BY <3>1
    <3> QED BY <3>2 DEF s, p
  <2>5. \/ Contract!Tell(r, Status(Len(sent[r]))) /\ Over' = Over
        \/ Over' = [Over EXCEPT ![r] = TRUE] /\ UNCHANGED sent
    BY <1>1, <1>3, <2>1, <2>4, YieldTells
  <2>6. CASE Contract!Tell(r, Status(Len(sent[r]))) /\ Over' = Over
    <3>1. Contract!TellMessage(r)
      BY <1>2, <2>1, <2>2, <2>4, <2>6 DEF Contract!TellMessage, Over
    <3> QED BY <1>4, <3>1
  <2> QED BY <1>4, <1>5, <2>1, <2>5, <2>6
<1>12. CASE GenFinishes(r)
  <2>1. /\ UNCHANGED <<worker, put, result>> /\ gen[r] = "final"
        /\ Yield(r, FinalEvent(r), "closed")
    BY <1>12 DEF GenFinishes
  <2>2. worker[r] = "ended" /\ Len(sent[r]) = put[r] + 1
    <3>1. /\ worker[r] = "ended" /\ queue[r] = <<>>
          /\ Len(sent[r]) + Len(queue[r]) = put[r] + 1
      BY <1>1, <2>1 DEF StreamInv, Polling
    <3>2. Len(queue[r]) = 0 BY <3>1
    <3> QED BY <1>1, <3>1, <3>2
  <2>3. FinalEvent(r) = Telling(result[r])
    <3>1. result[r] \in Outcomes \cup {"none"} BY <1>1 DEF TypeOK
    <3> QED BY <3>1 DEF FinalEvent, Telling, Outcomes
  <2>4. CASE Contract!Tell(r, Telling(result[r])) /\ Over' = [Over EXCEPT ![r] = TRUE]
    <3>1. Contract!TellOutcome(r)
      BY <1>2, <2>1, <2>2, <2>4 DEF Contract!TellOutcome, Over
    <3> QED BY <1>4, <3>1
  <2> QED BY <1>1, <1>4, <1>5, <2>1, <2>3, <2>4, YieldTells
<1> QED BY <1>6, <1>7, <1>8, <1>9, <1>10, <1>11, <1>12 DEF Generator

LEMMA WorkerKeeps ==
  ASSUME Inv, NEW r \in Requests, Worker(r)
  PROVE  Contract!Next \/ UNCHANGED Contract!vars
<1>1. gen' = gen /\ sent' = sent /\ Over' = Over
  BY DEF Worker, WorkerSavesUser, WorkerPuts, WorkerSavesAnswer, WorkerReturns, WorkerRaises,
     Over
<1>2. CASE WorkerSavesUser(r) \/ WorkerSavesAnswer(r)
  BY <1>1, <1>2 DEF WorkerSavesUser, WorkerSavesAnswer, Contract!vars, Over
<1>3. CASE WorkerPuts(r)
  <2>1. Contract!Make(r)
    BY <1>1, <1>3 DEF WorkerPuts, Contract!Make, Over
  <2> QED BY <2>1 DEF Contract!Next
<1>4. CASE WorkerReturns(r) \/ WorkerRaises(r)
  <2>1. Contract!Finish(r)
    BY <1>1, <1>4 DEF WorkerReturns, WorkerRaises, Contract!Finish, Over, Outcomes
  <2> QED BY <2>1 DEF Contract!Next
<1> QED BY <1>2, <1>3, <1>4 DEF Worker

LEMMA PageKeeps ==
  ASSUME Inv, NEW r \in Requests, Page(r)
  PROVE  Contract!Next \/ UNCHANGED Contract!vars
<1>1. CASE Submit(r)
  <2>1. /\ UNCHANGED <<worker, put, result, sent>> /\ gen[r] = "none"
        /\ gen \in [Requests -> {"none", "greet", "start", "closed"} \cup Polling]
    <3>1. r > page.issued
      <4>1. page.issued \in Nat /\ r = page.issued + 1
        BY <1>1, Types DEF Submit, Inv
      <4> QED BY <4>1
    <3> QED BY <1>1, <3>1 DEF Submit, Inv, StreamInv, TypeOK
  <2>2. CASE gen' = [gen EXCEPT ![r] = "greet"]
    <3>1. Over' = Over BY <2>1, <2>2 DEF Over
    <3> QED BY <2>1, <3>1 DEF Contract!vars, Over
  <2>3. CASE gen' = [gen EXCEPT ![r] = "closed"]
    <3>1. Over' = [Over EXCEPT ![r] = TRUE] /\ ~Over[r] BY <2>1, <2>3 DEF Over
    <3>2. Contract!HangUp(r) BY <2>1, <3>1 DEF Contract!HangUp, Over
    <3> QED BY <3>2 DEF Contract!Next
  <2> QED BY <1>1, <2>2, <2>3 DEF Submit
<1>2. CASE ~Submit(r)
  <2>1. UNCHANGED serverVars
    BY <1>2 DEF Page, OnMessage, LoseConnection, OnError, Reload
  <2> QED BY <2>1 DEF serverVars, Contract!vars
<1> QED BY <1>1, <1>2

\* api_chat_stream implements StreamContract for any number of requests and
\* statuses: queue, polling and the two questions it asks of the thread cannot be
\* told from a stream that tells each message in its turn and the outcome last.
THEOREM StreamKeepsContract == Spec => KeepsContract
<1>1. Init => Contract!Init
  BY ContractInit
<1>2. Inv /\ [Next]_vars => [Contract!Next]_(Contract!vars)
  <2> SUFFICES ASSUME Inv, [Next]_vars PROVE Contract!Next \/ UNCHANGED Contract!vars
    OBVIOUS
  <2>1. CASE UNCHANGED vars
    BY <2>1 DEF vars, serverVars, Contract!vars
  <2> QED BY <2>1, GeneratorKeeps, WorkerKeeps, PageKeeps DEF Next
<1> QED BY <1>1, <1>2, Invariance, PTL DEF Spec, KeepsContract, Contract!Spec

-----------------------------------------------------------------------------
(* The form cannot stay disabled for want of an event. *)

\* A disabled form has a source: either its connection is lost, and onerror is
\* due, or an event waits for onmessage, or the generator has not finished.
FormNeverStuck ==
  page.loading =>
    \E r \in Requests :
      /\ page.source = r
      /\ \/ conn[r] = "lost"
         \/ conn[r] = "open" /\ (seen[r] < Len(sent[r]) \/ gen[r] \notin {"none", "closed"})

\* What the page has handled of its source are statuses, and a generator that has
\* finished on an open connection has sent a final event.
Awaits(r) ==
  /\ gen[r] = "none" => seen[r] = 0
  /\ page.source = r =>
       /\ gen[r] # "none" /\ conn[r] # "none"
       /\ conn[r] = "open" =>
            /\ seen[r] <= Len(sent[r])
            /\ \A i \in 1..seen[r] : sent[r][i].type = "status"
            /\ gen[r] = "closed" => HasFinal(r)

FormInv == (page.loading <=> page.source # 0) /\ \A r \in Requests : Awaits(r)

LEMMA GeneratorAwaits ==
  ASSUME TypeOK, NEW r \in Requests, Generator(r), Awaits(r), page' = page
  PROVE  Awaits(r)'
<1>0. /\ gen \in [Requests -> {"none", "greet", "start", "closed"} \cup Polling]
      /\ sent[r] \in Seq(Events) /\ sent \in [Requests -> Seq(Events)] /\ seen[r] \in Nat
  BY DEF TypeOK
<1>1. /\ seen' = seen /\ conn' = conn /\ gen[r] \notin {"none", "closed"}
  BY DEF Generator, GenGreets, GenStarts, GenCannotStart, GenChecks, GenGets, GenDrains,
     GenFinishes
<1>2. gen'[r] # "none" BY <1>0 DEF Generator, GenGreets, GenStarts, GenCannotStart, GenChecks,
     GenGets, GenDrains, GenFinishes, Yield, Polling
<1>3. CASE sent' = sent /\ (conn[r] = "lost" \/ gen'[r] # "closed")
  BY <1>1, <1>2, <1>3 DEF Awaits
<1>4. ASSUME NEW event \in Events, NEW next, Yield(r, event, next),
             next = "closed" => event.type # "status"
      PROVE  Awaits(r)'
  <2>1. CASE sent' = sent /\ conn[r] = "lost" BY <1>3, <2>1
  <2>2. CASE sent' = [sent EXCEPT ![r] = Append(@, event)] /\ gen' = [gen EXCEPT ![r] = next]
    <3>1. /\ Len(sent'[r]) = Len(sent[r]) + 1 /\ Len(sent[r]) \in Nat
          /\ sent'[r][Len(sent[r]) + 1] = event
          /\ \A i \in 1..Len(sent[r]) : sent'[r][i] = sent[r][i]
      BY <1>0, <2>2
    <3>2. gen'[r] = "closed" => HasFinal(r)'
      <4>1. gen'[r] = next BY <1>0, <2>2
      <4> QED BY <1>4, <3>1, <4>1 DEF HasFinal
    <3>3. \A i \in 1..seen[r] : i <= Len(sent[r]) => i \in 1..Len(sent[r])
      BY <1>0, <3>1
    <3>4. ASSUME page.source = r, conn[r] = "open"
          PROVE  /\ seen[r] <= Len(sent'[r])
                 /\ \A i \in 1..seen[r] : sent'[r][i].type = "status"
      BY <1>0, <3>1, <3>4 DEF Awaits
    <3> QED BY <1>1, <1>2, <3>2, <3>4 DEF Awaits
  <2> QED BY <1>4, <2>1, <2>2 DEF Yield
<1>5. CASE GenGreets(r)
  BY <1>4, <1>5, EventTypes, StreamAssumption DEF GenGreets
<1>6. CASE GenStarts(r) \/ GenChecks(r)
  <2>1. sent' = sent /\ gen'[r] # "closed" BY <1>0, <1>6 DEF GenStarts, GenChecks
  <2> QED BY <1>3, <2>1
<1>7. CASE GenCannotStart(r)
  <2>1. "thread" \in Results BY DEF Results
  <2> QED BY <1>4, <1>7, <2>1, EventTypes DEF GenCannotStart
<1>8. CASE GenFinishes(r)
  BY <1>4, <1>8, FinalEventType DEF GenFinishes
<1>9. CASE GenGets(r) \/ GenDrains(r)
  <2>1. CASE queue[r] = <<>>
    <3>1. sent' = sent /\ gen'[r] # "closed" BY <1>0, <1>9, <2>1 DEF GenGets, GenDrains
    <3> QED BY <1>3, <3>1
  <2>2. CASE queue[r] # <<>>
    <3>1. queue[r] \in Seq(1..MaxStatuses) BY Types
    <3>2. Head(queue[r]) \in 0..MaxStatuses BY <2>2, <3>1, HeadTail, StreamAssumption
    <3>3. Status(Head(queue[r])) \in Events BY <3>2, EventTypes
    <3> QED BY <1>4, <1>9, <2>2, <3>3 DEF GenGets, GenDrains
  <2> QED BY <2>1, <2>2
<1> QED BY <1>5, <1>6, <1>7, <1>8, <1>9 DEF Generator

\* The page's own steps: it waits for one source at a time.
LEMMA PageAwaits ==
  ASSUME Inv, NEW r \in Requests, Page(r), FormInv
  PROVE  FormInv'
<1>0. /\ page \in Pages /\ page.source \in Nat /\ page.issued \in Nat
      /\ seen \in [Requests -> Nat] /\ conn \in [Requests -> {"none", "open", "lost"}]
      /\ gen \in [Requests -> {"none", "greet", "start", "closed"} \cup Polling]
      /\ r \in Nat \ {0}
  BY StreamAssumption DEF Inv, TypeOK, Pages, Requests
<1>1. CASE Submit(r)
  <2>1. /\ page'.loading = TRUE /\ page'.source = r /\ gen'[r] # "none"
        /\ conn'[r] \in {"open", "lost"}
        /\ gen'[r] = "closed" => conn'[r] = "lost"
        /\ seen' = seen /\ sent' = sent
        /\ \A x \in Requests \ {r} : gen'[x] = gen[x]
    BY <1>0, <1>1 DEF Submit, Pages
  <2>2. StreamInv(r) /\ r > page.issued BY <1>0, <1>1 DEF Inv, Submit
  <2>3. seen[r] = 0 /\ Len(sent[r]) \in Nat
    BY <2>2, Types DEF StreamInv, FormInv, Awaits, Inv
  <2>4. Awaits(r)' BY <2>1, <2>3 DEF Awaits
  <2>5. \A x \in Requests \ {r} : Awaits(x)' BY <2>1 DEF FormInv, Awaits
  <2> QED BY <1>0, <2>1, <2>4, <2>5 DEF FormInv
<1>2. ASSUME gen' = gen, \A x \in Requests \ {r} : seen'[x] = seen[x],
             page'.source = 0, page'.loading = FALSE, seen' = seen \/ gen[r] # "none"
      PROVE  FormInv'
  <2>1. \A x \in Requests : x # 0 BY DEF Requests
  <2>2. \A x \in Requests : gen'[x] = "none" => seen'[x] = 0
    BY <1>2 DEF FormInv, Awaits
  <2> QED BY <1>2, <2>1, <2>2 DEF FormInv, Awaits
<1>3. CASE OnError(r) \/ Reload(r)
  <2>1. gen' = gen /\ seen' = seen /\ page'.source = 0 /\ page'.loading = FALSE
    BY <1>0, <1>3 DEF OnError, Reload, Settle, Render, serverVars, Pages
  <2> QED BY <1>2, <2>1
<1>4. CASE LoseConnection(r)
  <2>1. /\ UNCHANGED <<gen, seen, sent, page>> /\ conn'[r] = "lost"
        /\ \A x \in Requests \ {r} : conn'[x] = conn[x]
    BY <1>0, <1>4 DEF LoseConnection, serverVars
  <2> QED BY <2>1 DEF FormInv, Awaits, HasFinal
<1>5. CASE OnMessage(r)
  <2>1. /\ gen' = gen /\ sent' = sent /\ seen'[r] = seen[r] + 1 /\ gen[r] # "none"
        /\ \A x \in Requests \ {r} : seen'[x] = seen[x]
    BY <1>0, <1>5 DEF OnMessage, serverVars, FormInv, Awaits
  <2>2. CASE sent[r][seen[r] + 1].type = "status"
    <3>1. page' = page /\ conn' = conn BY <1>5, <2>2 DEF OnMessage
    <3>2. seen[r] \in Nat /\ Len(sent[r]) \in Nat /\ page.source = r /\ conn[r] = "open"
          /\ seen[r] < Len(sent[r])
      BY <1>0, <1>5, Types DEF OnMessage, Inv
    <3>3. \A i \in 1..seen'[r] : sent'[r][i].type = "status"
      <4> SUFFICES ASSUME NEW i \in 1..(seen[r] + 1) PROVE sent[r][i].type = "status"
        BY <2>1
      <4>1. i \in 1..seen[r] \/ i = seen[r] + 1 BY <3>2
      <4> QED BY <2>2, <3>2, <4>1 DEF FormInv, Awaits
    <3>4. Awaits(r)' BY <2>1, <3>1, <3>2, <3>3 DEF FormInv, Awaits, HasFinal
    <3>5. \A x \in Requests \ {r} : Awaits(x)' BY <2>1, <3>1 DEF FormInv, Awaits, HasFinal
    <3> QED BY <3>1, <3>4, <3>5 DEF FormInv
  <2>3. CASE sent[r][seen[r] + 1].type # "status"
    <3>1. page'.source = 0 /\ page'.loading = FALSE
      BY <1>0, <1>5, <2>3 DEF OnMessage, Settle, Render, Pages
    <3> QED BY <1>2, <2>1, <3>1
  <2> QED BY <2>2, <2>3
<1> QED BY <1>1, <1>3, <1>4, <1>5 DEF Page

\* The form of chat.html is never disabled with nothing left that could enable
\* it: whatever breaks, is refused, reloaded or overtaken, the page has one
\* source, and an event, an error or a generator at work is still to come.
THEOREM FormIsAwaited == Spec => []FormNeverStuck
<1>1. Init => FormInv
  <2> SUFFICES ASSUME Init PROVE FormInv
    OBVIOUS
  <2>1. page.loading = FALSE /\ page.source = 0 /\ \A r \in Requests : seen[r] = 0
    BY DEF Init
  <2> QED BY <2>1 DEF FormInv, Awaits, Requests
<1>2. Inv /\ FormInv /\ [Next]_vars => FormInv'
  <2> SUFFICES ASSUME Inv, FormInv, [Next]_vars PROVE FormInv'
    OBVIOUS
  <2>1. TypeOK BY DEF Inv
  <2>2. ASSUME NEW r \in Requests, Generator(r) PROVE FormInv'
    <3>1. page' = page /\ seen' = seen /\ conn' = conn
      BY <2>2 DEF Generator, GenGreets, GenStarts, GenCannotStart, GenChecks, GenGets,
         GenDrains, GenFinishes
    <3>2. Awaits(r)' BY <2>1, <2>2, <3>1, GeneratorAwaits DEF FormInv
    <3>3. \A x \in Requests \ {r} : Awaits(x)'
      <4> SUFFICES ASSUME NEW x \in Requests, x # r PROVE Awaits(x)'
        OBVIOUS
      <4>1. gen'[x] = gen[x] /\ sent'[x] = sent[x] BY <2>1, <2>2, OthersKept
      <4> QED BY <3>1, <4>1 DEF FormInv, Awaits, HasFinal
    <3> QED BY <3>1, <3>2, <3>3 DEF FormInv
  <2>3. ASSUME NEW r \in Requests, Worker(r) PROVE FormInv'
    <3>1. UNCHANGED <<gen, sent, seen, conn, page>>
      BY <2>3 DEF Worker, WorkerSavesUser, WorkerPuts, WorkerSavesAnswer, WorkerReturns,
         WorkerRaises
    <3> QED BY <3>1 DEF FormInv, Awaits, HasFinal
  <2>4. CASE UNCHANGED vars
    BY <2>4 DEF vars, serverVars, FormInv, Awaits, HasFinal
  <2> QED BY <2>2, <2>3, <2>4, PageAwaits DEF Next
<1>3. Inv /\ FormInv => FormNeverStuck
  <2> SUFFICES ASSUME Inv, FormInv, page.loading PROVE FormNeverStuck
    BY DEF FormNeverStuck
  <2>1. page.source \in Requests /\ TypeOK
    BY DEF Inv, TypeOK, Pages, FormInv, Requests
  <2>2. PICK r \in Requests : r = page.source BY <2>1
  <2>3. Awaits(r) /\ conn[r] \in {"none", "open", "lost"} /\ seen[r] \in Nat
    BY <2>1, <2>2 DEF FormInv, TypeOK
  <2>4. Len(sent[r]) \in Nat BY <2>1, <2>2, Types
  <2>5. HasFinal(r) /\ (\A i \in 1..seen[r] : sent[r][i].type = "status")
        => seen[r] < Len(sent[r])
    BY <2>3, <2>4 DEF HasFinal
  <2> QED BY <2>2, <2>3, <2>5 DEF Awaits, FormNeverStuck
<1> QED BY <1>1, <1>2, <1>3, Invariance, PTL DEF Spec
=============================================================================
