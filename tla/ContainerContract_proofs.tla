---------------------- MODULE ContainerContract_proofs ----------------------
(***************************************************************************)
(* Proofs about the ports of the projects, and that ContainerLifecycle     *)
(* implements ProjectContract, for any names, ports and number of          *)
(* requests.                                                               *)
(***************************************************************************)
EXTENDS ContainerLifecycle_proofs

\* Only a creation has a container, and it has found a port.
OwnOK(q) ==
  /\ req[q].op # "create" => box[q].status = "absent"
  /\ pc[q] \in Creating => req[q].port > 0

\* Two containers that run have two ports.
Apart ==
  \A i, j \in Requests :
    i # j /\ box[i].status = "running" /\ box[j].status = "running"
    => box[i].port # box[j].port

AllOwn == \A q \in Requests : OwnOK(q)

PortInv == Inv /\ AllOwn /\ Apart

LEMMA InvParts ==
  ASSUME Inv
  PROVE  TypeOK /\ Locally /\ AllSeen /\ OkMeansServed
BY DEF Inv, Locally, AllSeen

LEMMA OwnStep ==
  ASSUME LifecycleAssumption, TypeOK, Locally, AllOwn, [Next]_vars
  PROVE  AllOwn'
<1> SUFFICES ASSUME NEW q \in Requests PROVE OwnOK(q)'
  BY DEF AllOwn
<1>1. /\ OwnOK(q) /\ LocalOK(q) /\ req[q] \in Locals /\ req[q].port \in Nat
  BY DEF AllOwn, Locally, TypeOK, Locals
<1>2. ASSUME req'[q].op # "create" PROVE box'[q].status = "absent"
  <2>1. pc[q] # "run"
    <3>1. CASE pc[q] = "run"
      BY <1>1, <1>2, <3>1, Settled DEF LocalOK, Creating
    <3> QED BY <3>1
  <2>2. box[q].status = "absent"
    <3>1. CASE pc[q] = "idle" BY <1>1, <3>1 DEF LocalOK, Ended
    <3>2. CASE pc[q] # "idle" BY <1>1, <1>2, <3>2, Settled DEF OwnOK
    <3> QED BY <3>1, <3>2
  <2> QED BY <2>1, <2>2, BoxStep DEF Exists
<1>3. ASSUME pc'[q] \in Creating PROVE req'[q].port > 0
  <2>1. CASE Same(q) BY <1>1, <1>3, <2>1 DEF Same, OwnOK
  <2>2. CASE Serve(q) \/ Raise(q)
    <3>1. Path(q, pc'[q], req'[q]) BY <2>2, ServeEffect
    <3>2. pc[q] # "idle" BY <3>1 DEF Path, Straight, AtWork
    <3>3. pc[q] \in Creating BY <1>3, <3>2, Settled
    <3>4. req[q].port > 0 BY <1>1, <3>3 DEF OwnOK
    <3>5. \/ req'[q] = req[q]
          \/ req'[q] = [req[q] EXCEPT !.port = @ + 1]
          \/ \E c \in Images : req'[q] = [req[q] EXCEPT !.context = c]
          \/ req'[q] = [req[q] EXCEPT !.built = TRUE]
          \/ \E i \in Named(req[q].target) : req'[q] = [req[q] EXCEPT !.seen = i]
          \/ req'[q] = [req[q] EXCEPT !.harmed = @ \cup {req[q].seen}]
      BY <1>3, <3>1 DEF Path, Creating
    <3>6. req'[q].port \in {req[q].port, req[q].port + 1} BY <1>1, <3>5 DEF Locals
    <3> QED BY <1>1, <3>4, <3>6
  <2>3. ASSUME NEW n \in Names, ArriveCreate(q, n) PROVE req'[q].port > 0
    BY <2>3, ArriveEffect
  <2>4. ~\E op \in {"start", "stop", "delete"}, c \in Containers : ArriveRoute(q, op, c)
    BY <1>3, RouteEffect DEF Creating
  <2> QED BY <1>3, <2>1, <2>2, <2>3, <2>4, Fates DEF Creating
<1> QED BY <1>2, <1>3 DEF OwnOK

\* A container gets to run only on a port that no running one has.
LEMMA ApartStep ==
  ASSUME LifecycleAssumption, TypeOK, Locally, Apart, [Next]_vars
  PROVE  Apart'
<1>1. box \in [Requests -> Boxes] BY DEF TypeOK
<1>2. ASSUME NEW i \in Requests,
             \A j \in Requests \ {i} : box'[j] = box[j],
             box'[i].status = "running" =>
               /\ box'[i].port = box[i].port
               /\ box[i].status = "running" \/ ~Busy(box[i].port)
      PROVE  Apart'
  BY <1>2 DEF Apart, Busy
<1>3. CASE UNCHANGED box BY <1>3 DEF Apart
<1>4. ASSUME NEW i \in Requests, MayStart(i), SetStatus(i, "running") PROVE Apart'
  <2>1. /\ \A j \in Requests \ {i} : box'[j] = box[j]
        /\ box'[i].port = box[i].port
    BY <1>1, <1>4 DEF SetStatus, Boxes
  <2> QED BY <1>2, <1>4, <2>1 DEF MayStart
<1>5. ASSUME NEW i \in Requests, SetStatus(i, "exited") PROVE Apart'
  <2>1. (\A j \in Requests \ {i} : box'[j] = box[j]) /\ box'[i].status = "exited"
    BY <1>1, <1>5 DEF SetStatus, Boxes
  <2> QED BY <1>2, <2>1
<1>6. ASSUME NEW i \in Requests, Remove(i) PROVE Apart'
  <2>1. (\A j \in Requests \ {i} : box'[j] = box[j]) /\ box'[i].status = "removed"
    BY <1>1, <1>6 DEF Remove, NoBox
  <2> QED BY <1>2, <2>1
<1>7. ASSUME NEW q \in Requests,
             box' = [box EXCEPT ![q] = [status |-> "created", port |-> req[q].port,
                                        image |-> image[req[q].target]]]
      PROVE  Apart'
  <2>1. (\A j \in Requests \ {q} : box'[j] = box[j]) /\ box'[q].status = "created"
    BY <1>1, <1>7
  <2> QED BY <1>2, <2>1
<1> QED BY <1>3, <1>4, <1>5, <1>6, <1>7, BoxActions

LEMMA PortsInit == ASSUME LifecycleAssumption, Init PROVE PortInv
<1>1. \A q \in Requests : pc[q] = "idle" /\ box[q] = NoBox BY DEF Init
<1>2. NoBox.status = "absent" BY DEF NoBox
<1>3. AllOwn BY <1>1, <1>2 DEF AllOwn, OwnOK, Creating
<1>4. Apart BY <1>1, <1>2 DEF Apart
<1> QED BY <1>3, <1>4, InvInit DEF PortInv

LEMMA PortsNext == ASSUME LifecycleAssumption, PortInv, [Next]_vars PROVE PortInv'
BY InvNext, InvParts, OwnStep, ApartStep DEF PortInv

THEOREM PortsHold == Spec => []PortInv
<1>1. Init => PortInv BY LifecycleAssumption, PortsInit
<1>2. PortInv /\ [Next]_vars => PortInv' BY LifecycleAssumption, PortsNext
<1> QED BY <1>1, <1>2, PTL DEF Spec

\* What the search of find_available_port lets through is caught by Docker, which
\* starts no container on a port in use: created projects share a port only
\* while one of them is stopped.
THEOREM NoClashWhileRunning == Spec => []ClashNeedsStopped
<1>1. PortInv => ClashNeedsStopped
  <2> SUFFICES ASSUME PortInv, NEW i \in Requests, NEW j \in Requests, i # j,
                      Exists(i), Exists(j), pc[i] = "ok", pc[j] = "ok",
                      box[i].port = box[j].port
               PROVE  box[i].status = "exited" \/ box[j].status = "exited"
    BY DEF ClashNeedsStopped
  <2>1. req[i].op = "create" /\ req[j].op = "create"
    BY DEF PortInv, AllOwn, OwnOK, Exists
  <2>2. box[i].status \in {"running", "exited"} /\ box[j].status \in {"running", "exited"}
    BY <2>1, InvParts DEF PortInv, OkMeansServed, Exists
  <2> QED BY <2>2 DEF PortInv, Apart
<1> QED BY <1>1, PortsHold, PTL

-----------------------------------------------------------------------------
(* The refinement of ProjectContract. *)

Lives   == [i \in Requests |-> box[i].status]
PortsOf == [i \in Requests |-> box[i].port]
Ops     == [q \in Requests |-> req[q].op]
Aims    == [q \in Requests |-> req[q].target]
Answers == [q \in Requests |-> IF AtWork(q) THEN "waiting" ELSE pc[q]]

LEMMA StatusSet ==
  ASSUME TypeOK, NEW i \in Requests, NEW st, SetStatus(i, st)
  PROVE  Contract!Becomes(i, st) /\ PortsOf' = PortsOf
<1>1. box \in [Requests -> Boxes] BY DEF TypeOK
<1>2. box' = [box EXCEPT ![i] = [box[i] EXCEPT !.status = st]] BY DEF SetStatus
<1>3. [box[i] EXCEPT !.status = st].status = st /\ [box[i] EXCEPT !.status = st].port = box[i].port
  BY <1>1 DEF Boxes
<1> QED BY <1>1, <1>2, <1>3 DEF Contract!Becomes, PortsOf

LEMMA BoxGone ==
  ASSUME TypeOK, NEW i \in Requests, Remove(i)
  PROVE  Contract!Vanishes(i)
<1>1. box \in [Requests -> Boxes] BY DEF TypeOK
<1>2. box'[i].status = "removed" /\ box'[i].port = 0
      /\ \A j \in Requests \ {i} : box'[j] = box[j]
  BY <1>1 DEF Remove, NoBox
<1> QED BY <1>2 DEF Contract!Vanishes, Contract!Becomes

\* Stopping ends a container or does nothing.
LEMMA Halted ==
  ASSUME TypeOK, NEW i \in Requests, Halt(i)
  PROVE  /\ PortsOf' = PortsOf
         /\ Lives' = [Lives EXCEPT ![i] = IF @ = "running" THEN "exited" ELSE @]
         /\ box[i].status # "running" => Lives' = Lives
<1>0. PICK st : st = IF box[i].status = "running" THEN "exited" ELSE box[i].status
  OBVIOUS
<1>1. Lives' = [Lives EXCEPT ![i] = IF @ = "running" THEN "exited" ELSE @] /\ PortsOf' = PortsOf
  <2>1. SetStatus(i, st) BY <1>0 DEF Halt
  <2>2. Contract!Becomes(i, st) /\ PortsOf' = PortsOf BY <2>1, StatusSet
  <2> QED BY <1>0, <2>2 DEF Contract!Becomes, Lives
<1>2. box[i].status # "running" => Lives' = Lives
  BY <1>1 DEF Lives
<1> QED BY <1>1, <1>2

\* A step of a request's own changes none of the questions and no other answer.
LEMMA AnswerStep ==
  ASSUME LifecycleAssumption, TypeOK, Locally, NEW q \in Requests, Serve(q) \/ Raise(q)
  PROVE  /\ Ops' = Ops /\ Aims' = Aims
         /\ AtWork(q) /\ Answers[q] = "waiting"
         /\ Answers' = [Answers EXCEPT ![q] = IF pc'[q] \in Ended THEN pc'[q] ELSE "waiting"]
         /\ pc'[q] \notin Ended => Answers' = Answers
<1>1. [Next]_vars BY DEF Next
<1>2. Path(q, pc'[q], req'[q]) /\ \A p \in Requests \ {q} : pc'[p] = pc[p] /\ req'[p] = req[p]
  BY ServeEffect
<1>3. AtWork(q) /\ pc[q] # "idle" BY <1>2 DEF Path, Straight, AtWork, Ended
<1>4. pc'[q] # "idle" /\ req'[q].op = req[q].op /\ req'[q].target = req[q].target
  BY <1>1, <1>3, Settled
<1>5. Ops' = Ops /\ Aims' = Aims BY <1>2, <1>4 DEF Ops, Aims
<1>6. \A p \in Requests \ {q} : Answers'[p] = Answers[p] BY <1>2 DEF Answers, AtWork
<1>7. Answers'[q] = IF pc'[q] \in Ended THEN pc'[q] ELSE "waiting"
  BY <1>4 DEF Answers, AtWork, Ended
<1>8. Answers[q] = "waiting" BY <1>3 DEF Answers
<1>9. Answers' = [Answers EXCEPT ![q] = IF pc'[q] \in Ended THEN pc'[q] ELSE "waiting"]
  BY <1>6, <1>7 DEF Answers
<1>10. pc'[q] \notin Ended => Answers' = Answers
  <2> SUFFICES ASSUME pc'[q] \notin Ended PROVE Answers' = Answers
    OBVIOUS
  <2>1. \A p \in Requests : Answers'[p] = Answers[p] BY <1>6, <1>7, <1>8
  <2> QED BY <2>1 DEF Answers
<1> QED BY <1>3, <1>5, <1>8, <1>9, <1>10

\* Where a step leaves the containers alone and reports no success, the contract
\* sees nothing or a refusal.
LEMMA QuietOrRefused ==
  ASSUME LifecycleAssumption, TypeOK, Locally, NEW q \in Requests, Serve(q) \/ Raise(q),
         Lives' = Lives, PortsOf' = PortsOf, pc'[q] # "ok"
  PROVE  Contract!Next \/ UNCHANGED Contract!vars
<1>1. CASE pc'[q] \notin Ended
  BY <1>1, AnswerStep DEF Contract!vars, Lives, PortsOf, Ops, Aims, Answers
<1>2. CASE pc'[q] = "failed"
  <2>1. Contract!Refuse(q)
    BY <1>2, AnswerStep DEF Contract!Refuse, Contract!Answer, Ended, Lives, PortsOf, Ops, Aims,
       Answers
  <2> QED BY <2>1 DEF Contract!Next, Contract!Serve, Contract!Refuse
<1> QED BY <1>1, <1>2 DEF Ended

\* Whom a request has found is another one's container of its own name.
LEMMA SeenIsOwn ==
  ASSUME PortInv, NEW q \in Requests,
         pc[q] \in {"halt", "drop", "up", "down", "stop", "remove", "force"}
  PROVE  /\ req[q].seen \in Requests /\ req[q].seen # q
         /\ req[req[q].seen].target = req[q].target
         /\ req[q].op = CASE pc[q] \in {"halt", "drop"} -> "create"
                          [] pc[q] = "up" -> "start" [] pc[q] = "down" -> "stop"
                          [] OTHER -> "delete"
<1>1. LocalOK(q) /\ SeenOK(q) BY DEF PortInv, Inv
<1>2. req[q].seen \in Requests BY <1>1 DEF LocalOK, Deleting
<1> QED BY <1>1, <1>2 DEF LocalOK, SeenOK, Creating, Deleting

\* The contract's view of a container that is there, and of a free port.
LEMMA Views ==
  ASSUME PortInv, NEW q \in Requests, NEW i \in Requests, NEW kind,
         AtWork(q), req[q].op = kind, Exists(i), req[i].target = req[q].target
  PROVE  /\ Contract!For(q, kind, i)
         /\ MayStart(i) => Contract!PortFree(i)
<1>1. Contract!For(q, kind, i)
  BY DEF Contract!For, Contract!Waits, Contract!Alive, Exists
<1>2. MayStart(i) => Contract!PortFree(i)
  BY DEF MayStart, Busy, Contract!PortFree, PortInv, Apart
<1> QED BY <1>1, <1>2

LEMMA CreateKeeps ==
  ASSUME LifecycleAssumption, PortInv, NEW q \in Requests, Create(q)
  PROVE  Contract!Next \/ UNCHANGED Contract!vars
<1> USE DEF Ended
<1>0. TypeOK /\ Locally /\ LocalOK(q) /\ Serve(q)
  BY InvParts DEF PortInv, Locally, Serve
<1>1. /\ Ops' = Ops /\ Aims' = Aims /\ AtWork(q)
      /\ Answers' = [Answers EXCEPT ![q] = IF pc'[q] \in Ended THEN pc'[q] ELSE "waiting"]
      /\ pc'[q] \notin Ended => Answers' = Answers
  BY <1>0, AnswerStep
<1>2. ASSUME box' = box, pc'[q] # "ok" PROVE Contract!Next \/ UNCHANGED Contract!vars
  <2>1. Lives' = Lives /\ PortsOf' = PortsOf BY <1>2 DEF Lives, PortsOf
  <2> QED BY <1>0, <1>2, <2>1, QuietOrRefused
<1>3. pc \in [Requests -> Places] /\ req \in [Requests -> Locals] BY <1>0 DEF TypeOK
<1>4. CASE TryPort(q) \/ MakeFolder(q) \/ CopyTemplate(q) \/ WriteDockerfile(q)
           \/ SendFolder(q) \/ Build(q) \/ FindOld(q) \/ Clean(q)
  <2>1. box' = box /\ pc'[q] # "ok"
    BY <1>3, <1>4 DEF TryPort, MakeFolder, CopyTemplate, WriteDockerfile, Fill, SendFolder,
       Build, FindOld, Clean, Go, Fail
  <2> QED BY <1>2, <2>1
<1>5. CASE HaltOld(q)
  <2>1. PICK i \in Requests : i = req[q].seen BY <1>5, SeenIsOwn DEF HaltOld
  <2>2. pc'[q] \in {"drop", "run"} BY <1>3, <1>5 DEF HaltOld, Go
  <2>3. CASE UNCHANGED box BY <1>2, <2>2, <2>3
  <2>4. CASE Halt(i) /\ box[i].status # "running"
    <3>1. Lives' = Lives /\ PortsOf' = PortsOf BY <1>0, <2>1, <2>4, Halted
    <3> QED BY <1>0, <2>2, <3>1, QuietOrRefused
  <2>5. CASE Halt(i) /\ box[i].status = "running"
    <3>1. Contract!Becomes(i, "exited") /\ PortsOf' = PortsOf
      BY <1>0, <2>1, <2>5, StatusSet DEF Halt
    <3>2. Contract!Ends(i)
      BY <1>1, <2>1, <2>2, <2>5, <3>1 DEF Contract!Ends, PortsOf, Ops, Aims, Answers
    <3> QED BY <2>1, <3>2 DEF Contract!Next
  <2> QED BY <1>5, <2>1, <2>3, <2>4, <2>5 DEF HaltOld
<1>6. CASE DropOld(q)
  <2>0. PICK i \in Requests : i = req[q].seen BY <1>6, SeenIsOwn DEF DropOld
  <2>1. i \in Requests /\ i # q /\ req[i].target = req[q].target /\ req[q].op = "create"
    BY <1>6, <2>0, SeenIsOwn DEF DropOld
  <2>2. pc'[q] \in {"run", "failed"} BY <1>3, <1>6 DEF DropOld, Go, Fail
  <2>3. CASE UNCHANGED box BY <1>2, <2>2, <2>3
  <2>4. CASE Exists(i) /\ Remove(i) /\ Go(q, "run")
    <3>1. Contract!Vanishes(i) BY <1>0, <2>1, <2>4, BoxGone
    <3>2. Contract!For(q, "create", i) BY <1>1, <2>1, <2>4, Views
    <3>3. pc'[q] = "run" BY <1>3, <2>4 DEF Go
    <3>4. Contract!Replace(q, i)
      BY <1>1, <2>1, <3>1, <3>2, <3>3 DEF Contract!Replace, Ops, Aims, Answers
    <3> QED BY <2>1, <3>4 DEF Contract!Next, Contract!Serve, Contract!Replace, Contract!For,
         Contract!Waits
  <2> QED BY <1>6, <2>0, <2>3, <2>4 DEF DropOld
<1>7. CASE RunCreates(q)
  <2>1. CASE UNCHANGED box
    <3>1. pc'[q] # "ok" BY <1>3, <1>7 DEF RunCreates, Go, Fail
    <3> QED BY <1>2, <2>1, <3>1
  <2>2. CASE Named(req[q].target) = {} /\ Go(q, "boot")
             /\ box' = [box EXCEPT ![q] = [status |-> "created", port |-> req[q].port,
                                          image |-> image[req[q].target]]]
    <3>1. /\ req[q].op = "create" /\ box[q].status = "absent" /\ req[q].port \in 1..MaxPort
          /\ pc'[q] = "boot"
      <4>1. pc[q] = "run" /\ pc'[q] = "boot" BY <1>3, <1>7, <2>2 DEF RunCreates, Go
      <4>2. req[q].port > 0 BY <4>1 DEF PortInv, AllOwn, OwnOK, Creating
      <4>3. req[q].op = "create" /\ box[q].status = "absent" /\ req[q].port <= MaxPort
        BY <1>0, <4>1 DEF LocalOK, Creating
      <4>4. req[q].port \in Nat BY <1>3 DEF Locals
      <4> QED BY <4>1, <4>2, <4>3, <4>4 DEF LifecycleAssumption
    <3>0. PICK p \in 1..MaxPort : p = req[q].port BY <3>1
    <3>2. Contract!Becomes(q, "created") /\ PortsOf' = [PortsOf EXCEPT ![q] = p]
      BY <1>0, <2>2, <3>0 DEF Contract!Becomes, PortsOf, TypeOK
    <3>3. \A i \in Requests : Exists(i) => req[i].target # req[q].target
      BY <2>2 DEF Named
    <3>4. Contract!Make(q, p)
      BY <1>1, <3>1, <3>2, <3>3 DEF Contract!Make, Contract!Waits, Contract!Alive, Exists,
         PortsOf, Ops, Aims, Answers
    <3>5. Contract!Serve(q) BY <3>1, <3>4 DEF Contract!Serve
    <3> QED BY <3>4, <3>5 DEF Contract!Next, Contract!Make, Contract!Waits
  <2> QED BY <1>7, <2>1, <2>2 DEF RunCreates
<1>8. CASE RunStarts(q)
  <2>1. CASE UNCHANGED box /\ Fail(q)
    <3>1. pc'[q] # "ok" BY <1>3, <2>1 DEF Go, Fail
    <3> QED BY <1>2, <2>1, <3>1
  <2>2. CASE MayStart(q) /\ SetStatus(q, "running") /\ Go(q, "clean")
    <3>1. Contract!Becomes(q, "running") /\ PortsOf' = PortsOf BY <1>0, <2>2, StatusSet
    <3>2. req[q].op = "create" BY <1>0, <1>8 DEF RunStarts, LocalOK, Creating
    <3>3. Contract!For(q, "create", q) /\ Contract!PortFree(q)
      BY <1>1, <2>2, <3>2, Views DEF MayStart
    <3>4. pc'[q] = "clean" BY <1>3, <2>2 DEF Go
    <3>5. Contract!Boot(q)
      BY <1>1, <3>1, <3>3, <3>4 DEF Contract!Boot, PortsOf, Ops, Aims, Answers
    <3> QED BY <3>5 DEF Contract!Next, Contract!Serve, Contract!Boot, Contract!For,
         Contract!Waits
  <2> QED BY <1>8, <2>1, <2>2 DEF RunStarts
<1>9. CASE RemoveFolder(q)
  <2>1. box' = box /\ pc[q] = "rmdir" BY <1>9 DEF RemoveFolder
  <2>2. pc'[q] \in {"ok", "failed"} BY <1>3, <1>9 DEF RemoveFolder, Succeed, Fail, Go
  <2>3. CASE pc'[q] = "ok"
    <3>1. req[q].op = "create" /\ box[q].status \in {"running", "exited", "removed"}
      BY <1>0, <2>1 DEF LocalOK, Creating
    <3>2. Contract!Created(q)
      BY <1>1, <2>1, <2>3, <3>1 DEF Contract!Created, Contract!Waits, Contract!Answer,
         Ops, Aims, Answers
    <3> QED BY <3>2 DEF Contract!Next, Contract!Serve, Contract!Created, Contract!Waits
  <2> QED BY <1>2, <2>1, <2>2, <2>3
<1> QED BY <1>4, <1>5, <1>6, <1>7, <1>8, <1>9 DEF Create

LEMMA RouteKeeps ==
  ASSUME LifecycleAssumption, PortInv, NEW q \in Requests, Route(q) \/ Raise(q)
  PROVE  Contract!Next \/ UNCHANGED Contract!vars
<1> USE DEF Ended
<1>0. TypeOK /\ Locally /\ (Serve(q) \/ Raise(q))
  BY InvParts DEF PortInv, Serve
<1>1. /\ Ops' = Ops /\ Aims' = Aims /\ AtWork(q)
      /\ Answers' = [Answers EXCEPT ![q] = IF pc'[q] \in Ended THEN pc'[q] ELSE "waiting"]
      /\ pc'[q] \notin Ended => Answers' = Answers
  BY <1>0, AnswerStep
<1>2. ASSUME box' = box, pc'[q] # "ok" PROVE Contract!Next \/ UNCHANGED Contract!vars
  <2>1. Lives' = Lives /\ PortsOf' = PortsOf BY <1>2 DEF Lives, PortsOf
  <2> QED BY <1>0, <1>2, <2>1, QuietOrRefused
<1>3. pc \in [Requests -> Places] /\ req \in [Requests -> Locals] BY <1>0 DEF TypeOK
\* An action that is one of the waiting request's own.
<1>4. ASSUME NEW i \in Requests,
             Contract!Started(q, i) \/ Contract!Stopped(q, i) \/ Contract!Deleted(q, i)
      PROVE  Contract!Next
  BY <1>4 DEF Contract!Next, Contract!Serve, Contract!Started, Contract!Stopped,
     Contract!Deleted, Contract!For, Contract!Waits
<1>5. CASE Get(q) \/ Raise(q)
  <2>1. box' = box BY <1>5 DEF Get, Raise
  <2>2. pc'[q] # "ok"
    <3>1. CASE Raise(q) BY <1>3, <3>1 DEF Raise, Fail, Go
    <3>2. CASE Get(q)
      <4>1. Path(q, pc'[q], req'[q]) /\ pc[q] = "get" BY <1>0, <3>2, ServeEffect DEF Get
      <4> QED BY <4>1 DEF Path, Straight
    <3> QED BY <1>5, <3>1, <3>2
  <2> QED BY <1>2, <2>1, <2>2
<1>6. ASSUME pc[q] \in {"up", "down", "stop", "remove", "force"}, NEW kind, req[q].op = kind,
             NEW i \in Requests, i = req[q].seen, Exists(i)
      PROVE  Contract!For(q, kind, i) /\ (MayStart(i) => Contract!PortFree(i))
  BY <1>1, <1>6, SeenIsOwn, Views
<1>7. CASE Start(q)
  <2>1. PICK i \in Requests : i = req[q].seen BY <1>7, SeenIsOwn DEF Start
  <2>2. CASE UNCHANGED box /\ Fail(q)
    <3>1. pc'[q] # "ok" BY <1>3, <2>2 DEF Go, Fail
    <3> QED BY <1>2, <2>2, <3>1
  <2>3. CASE MayStart(i) /\ SetStatus(i, "running") /\ Succeed(q)
    <3>1. pc'[q] = "ok" BY <1>3, <2>3 DEF Succeed, Go
    <3>2. req[q].op = "start" BY <1>7, SeenIsOwn DEF Start
    <3>3. Contract!For(q, "start", i) /\ Contract!PortFree(i)
      BY <1>6, <1>7, <2>1, <2>3, <3>2 DEF Start, MayStart
    <3>4. Contract!Becomes(i, "running") /\ PortsOf' = PortsOf BY <1>0, <2>3, StatusSet
    <3>5. Contract!Started(q, i)
      BY <1>1, <3>1, <3>3, <3>4 DEF Contract!Started, Contract!Answer, PortsOf, Ops, Aims, Answers
    <3> QED BY <1>4, <3>5
  <2> QED BY <1>7, <2>1, <2>2, <2>3 DEF Start
<1>8. CASE Stop(q)
  <2>1. PICK i \in Requests : i = req[q].seen BY <1>8, SeenIsOwn DEF Stop
  <2>2. CASE UNCHANGED box /\ Fail(q)
    <3>1. pc'[q] # "ok" BY <1>3, <2>2 DEF Go, Fail
    <3> QED BY <1>2, <2>2, <3>1
  <2>3. CASE Exists(i) /\ Halt(i) /\ Succeed(q)
    <3>1. pc'[q] = "ok" BY <1>3, <2>3 DEF Succeed, Go
    <3>2. req[q].op = "stop" BY <1>8, SeenIsOwn DEF Stop
    <3>3. Contract!For(q, "stop", i) BY <1>6, <1>8, <2>1, <2>3, <3>2 DEF Stop
    <3>4. PortsOf' = PortsOf /\ Lives' = [Lives EXCEPT ![i] = IF @ = "running" THEN "exited" ELSE @]
      BY <1>0, <2>3, Halted
    <3>5. Contract!Stopped(q, i)
      BY <1>1, <3>1, <3>3, <3>4 DEF Contract!Stopped, Contract!Becomes, Contract!Answer,
         Lives, PortsOf, Ops, Aims, Answers
    <3> QED BY <1>4, <3>5
  <2> QED BY <1>8, <2>1, <2>2, <2>3 DEF Stop
<1>9. CASE DeleteStops(q)
  <2>1. PICK i \in Requests : i = req[q].seen BY <1>9, SeenIsOwn DEF DeleteStops
  <2>2. pc'[q] \in {"remove", "force"} BY <1>3, <1>9 DEF DeleteStops, Go
  <2>3. CASE UNCHANGED box BY <1>2, <2>2, <2>3
  <2>4. CASE Halt(i) /\ box[i].status # "running"
    <3>1. Lives' = Lives /\ PortsOf' = PortsOf BY <1>0, <2>4, Halted
    <3> QED BY <1>0, <2>2, <3>1, QuietOrRefused
  <2>5. CASE Halt(i) /\ box[i].status = "running"
    <3>1. Contract!Becomes(i, "exited") /\ PortsOf' = PortsOf
      BY <1>0, <2>5, StatusSet DEF Halt
    <3>2. Contract!Ends(i)
      BY <1>1, <2>2, <2>5, <3>1 DEF Contract!Ends, PortsOf, Ops, Aims, Answers
    <3> QED BY <3>2 DEF Contract!Next
  <2> QED BY <1>9, <2>1, <2>3, <2>4, <2>5 DEF DeleteStops
<1>10. CASE DeleteRemoves(q) \/ DeleteForces(q)
  <2>1. PICK i \in Requests : i = req[q].seen
    BY <1>10, SeenIsOwn DEF DeleteRemoves, DeleteForces
  <2>2. CASE UNCHANGED box /\ (Fail(q) \/ Go(q, "force"))
    <3>1. pc'[q] # "ok" BY <1>3, <2>2 DEF Go, Fail
    <3> QED BY <1>2, <2>2, <3>1
  <2>3. CASE Exists(i) /\ Remove(i) /\ Succeed(q)
    <3>1. pc'[q] = "ok" BY <1>3, <2>3 DEF Succeed, Go
    <3>2. req[q].op = "delete" BY <1>10, SeenIsOwn DEF DeleteRemoves, DeleteForces
    <3>3. Contract!For(q, "delete", i)
      BY <1>6, <1>10, <2>1, <2>3, <3>2 DEF DeleteRemoves, DeleteForces
    <3>4. Contract!Vanishes(i) BY <1>0, <2>3, BoxGone
    <3>5. Contract!Deleted(q, i)
      BY <1>1, <3>1, <3>3, <3>4 DEF Contract!Deleted, Contract!Answer, Ops, Aims, Answers
    <3> QED BY <1>4, <3>5
  <2> QED BY <1>10, <2>1, <2>2, <2>3 DEF DeleteRemoves, DeleteForces
<1> QED BY <1>5, <1>7, <1>8, <1>9, <1>10 DEF Route

\* A request that comes in is a question to the contract.
LEMMA ArrivalKeeps ==
  ASSUME LifecycleAssumption, TypeOK, NEW q \in Requests,
         \/ \E n \in Names : ArriveCreate(q, n)
         \/ \E op \in {"start", "stop", "delete"}, c \in Containers : ArriveRoute(q, op, c)
  PROVE  Contract!Next
<1> DEFINE Kinds == {"create", "start", "stop", "delete"}
<1>1. req \in [Requests -> Locals] BY DEF TypeOK
<1>2. ASSUME NEW kind \in Kinds, NEW c \in Containers, pc[q] = "idle",
             pc'[q] \in {"port", "get"}, req'[q].op = kind, req'[q].target = c, box' = box,
             \A p \in Requests \ {q} :
               pc'[p] = pc[p] /\ req'[p].op = req[p].op /\ req'[p].target = req[p].target
      PROVE  Contract!Next
  <2>1. Contract!Ask(q, kind, c)
    BY <1>2 DEF Contract!Ask, Contract!Answer, AtWork, Ended
  <2> QED BY <2>1 DEF Contract!Next
<1>3. ASSUME NEW n \in Names, ArriveCreate(q, n) PROVE Contract!Next
  <2>1. \A p \in Requests \ {q} :
          pc'[p] = pc[p] /\ req'[p].op = req[p].op /\ req'[p].target = req[p].target
    <3> TAKE p \in Requests \ {q}
    <3> DEFINE stays == p \notin Rivals(ContainerOf[n])
    <3>1. pc'[p] = pc[p] /\ req'[p] = [req[p] EXCEPT !.alone = @ /\ stays]
      <4>1. \A x \in Requests \ {q} :
              /\ pc'[x] = pc[x]
              /\ req'[x] = [req[x] EXCEPT !.alone = @ /\ x \notin Rivals(ContainerOf[n])]
        BY <1>3, ArriveEffect
      <4> QED BY <4>1, Zenon
    <3> HIDE DEF stays
    <3> QED BY <1>1, <3>1 DEF Locals
  <2>2. box' = box BY <1>3 DEF ArriveCreate
  <2>3. PICK c \in Containers : c = ContainerOf[n] BY DEF LifecycleAssumption
  <2>4. /\ pc[q] = "idle" /\ pc'[q] = "port"
        /\ req'[q].op = "create" /\ req'[q].target = c
    BY <1>3, <2>3, ArriveEffect
  <2> QED BY <1>2, <2>1, <2>2, <2>4
<1>4. ASSUME NEW op \in {"start", "stop", "delete"}, NEW c \in Containers, ArriveRoute(q, op, c)
      PROVE  Contract!Next
  <2>1. box' = box BY <1>4 DEF ArriveRoute
  <2> QED BY <1>2, <1>4, <2>1, RouteEffect
<1> QED BY <1>3, <1>4

LEMMA RestartKeeps ==
  ASSUME LifecycleAssumption, TypeOK, Restart
  PROVE  Contract!Next
<1>1. /\ pc' \in [Requests -> Places] /\ req' \in [Requests -> Locals]
      /\ \A p \in Requests :
           IF AtWork(p) THEN pc'[p] = "failed" /\ req'[p] = Dead(req[p])
           ELSE pc'[p] = pc[p] /\ req'[p] = req[p]
  BY RestartsEffect
<1>2. \A p \in Requests : Dead(req[p]).op = req[p].op /\ Dead(req[p]).target = req[p].target
  BY DeadType DEF TypeOK
<1>3. \A p \in Requests :
        /\ req'[p].op = req[p].op /\ req'[p].target = req[p].target
        /\ Answers'[p] = IF Answers[p] = "waiting" THEN "failed" ELSE Answers[p]
  BY <1>1, <1>2 DEF Answers, AtWork, Ended
<1>4. Answers' = [p \in Requests |-> IF Answers[p] = "waiting" THEN "failed" ELSE Answers[p]]
  BY <1>3 DEF Answers
<1>5. box' = box /\ Ops' = Ops /\ Aims' = Aims BY <1>3 DEF Restart, Ops, Aims
<1>6. Contract!RefuseAll
  BY <1>4, <1>5 DEF Contract!RefuseAll, Ops, Aims, Answers
<1> QED BY <1>6 DEF Contract!Next

LEMMA ExitKeeps ==
  ASSUME TypeOK, NEW i \in Requests, Exit(i)
  PROVE  Contract!Next
<1>1. Contract!Becomes(i, "exited") /\ PortsOf' = PortsOf BY StatusSet DEF Exit
<1>2. Contract!Ends(i)
  BY <1>1 DEF Exit, Contract!Ends, PortsOf, AtWork
<1> QED BY <1>2 DEF Contract!Next

LEMMA ContractInit == Init => Contract!Init
<1> SUFFICES ASSUME Init PROVE Contract!Init
  OBVIOUS
<1>1. \A q \in Requests : pc[q] = "idle" /\ req[q] = Blank /\ box[q] = NoBox BY DEF Init
<1>2. Blank.op = "none" /\ NoBox.status = "absent" /\ NoBox.port = 0 BY DEF Blank, NoBox
<1>3. Blank.target \in Containers BY BlankType, LifecycleAssumption DEF Locals
<1>4. Lives = [i \in Requests |-> "absent"] /\ PortsOf = [i \in Requests |-> 0]
      /\ Ops = [q \in Requests |-> "none"] /\ Aims \in [Requests -> Containers]
      /\ Answers = [q \in Requests |-> "idle"]
  BY <1>1, <1>2, <1>3 DEF Lives, PortsOf, Ops, Aims, Answers, AtWork
<1> QED BY <1>4 DEF Contract!Init, Lives, PortsOf, Ops, Aims, Answers

\* The routes of app.py implement ProjectContract for any names, ports and
\* number of requests: whatever calls of Docker interleave and fail, a request
\* does to the containers of its name only what it was asked for, only before it
\* is answered, and what it answers has been done.
THEOREM RoutesKeepContract == Spec => KeepsContract
<1>1. Init => Contract!Init
  BY ContractInit
<1>2. PortInv /\ [Next]_vars => [Contract!Next]_(Contract!vars)
  <2> SUFFICES ASSUME PortInv, [Next]_vars PROVE Contract!Next \/ UNCHANGED Contract!vars
    OBVIOUS
  <2>0. TypeOK BY InvParts DEF PortInv
  <2>1. CASE UNCHANGED vars
    BY <2>1 DEF vars, Contract!vars, AtWork
  <2>2. ASSUME NEW q \in Requests, Serve(q) \/ Raise(q)
        PROVE  Contract!Next \/ UNCHANGED Contract!vars
    BY <2>2, LifecycleAssumption, CreateKeeps, RouteKeeps DEF Serve
  <2> QED BY <2>0, <2>1, <2>2, LifecycleAssumption, ArrivalKeeps, RestartKeeps, ExitKeeps, Steps
<1> QED BY <1>1, <1>2, PortsHold, PTL DEF Spec, KeepsContract, Contract!Spec
=============================================================================
