---------------------- MODULE ContainerLifecycle_proofs ----------------------
(***************************************************************************)
(* Proofs about ContainerLifecycle for any names, folders, ports and       *)
(* number of requests.                                                     *)
(***************************************************************************)
EXTENDS ContainerLifecycle, TLAPS

-----------------------------------------------------------------------------
(* The inductive invariant behind the properties.                          *)

\* What a request knows at each place; its container is not there before run.
LocalOK(q) ==
  /\ pc[q] \in Creating =>
       /\ req[q].op = "create"
       /\ \E n \in Names : req[q].target = ContainerOf[n] /\ req[q].folder = FolderOf[n]
  /\ pc[q] \in Creating \ {"port"} => req[q].port <= MaxPort
  /\ pc[q] = "get" => req[q].op \in {"start", "stop", "delete"}
  /\ pc[q] = "up" => req[q].op = "start"
  /\ pc[q] = "down" => req[q].op = "stop"
  /\ pc[q] \in Deleting => req[q].op = "delete"
  /\ pc[q] \in {"halt", "drop", "up", "down"} \cup Deleting => req[q].seen \in Requests
  /\ pc[q] = "ok" /\ req[q].op # "create" => req[q].seen \in Requests
  /\ pc[q] \in {"find", "halt", "drop", "run", "boot", "clean", "rmdir"} => req[q].built
  /\ pc[q] \in {"clean", "rmdir"} => box[q].status \in {"running", "exited", "removed"}
  /\ pc[q] \notin {"boot", "clean", "rmdir"} \cup Ended => box[q].status = "absent"

\* What it found and touched was a container of its name, made by another request.
SeenOK(q) ==
  \A i \in Requests :
    i = req[q].seen \/ i \in req[q].harmed
    => i # q /\ pc[i] # "idle" /\ req[i].target = req[q].target

\* A creation without rivals has folder and image to itself.
AloneOK(q) ==
  req[q].alone /\ pc[q] \in Creating =>
    /\ Rivals(req[q].target) = {q}
    /\ pc[q] \in {"write", "send"} => "web" \in Folder(q)
    /\ pc[q] = "build" => req[q].context = "whole"
    /\ pc[q] \in {"find", "halt", "drop", "run"} => image[req[q].target] = "whole"
    /\ pc[q] \in {"boot", "clean", "rmdir"} =>
         box[q].status = "removed" \/ box[q].image = "whole"

\* Requests come in the order of their numbers, and a creation at work on a
\* folder came after every success that had it to itself.
InOrder ==
  /\ \A q \in Requests : pc[q] # "idle" => \A p \in 1..(q - 1) : pc[p] # "idle"
  /\ \A p, q \in Requests :
       CleanSuccess(p, req[q].folder) /\ pc[q] \in Creating => p < q

Inv ==
  /\ TypeOK /\ InOrder
  /\ \A q \in Requests : LocalOK(q) /\ SeenOK(q) /\ AloneOK(q)
  /\ OkMeansServed /\ DeletedIsGone /\ OldOutlivesBuild /\ FolderLeftByFailure
-----------------------------------------------------------------------------
\* Request q goes on to place, with r for its local variables.
Goes(q, place, r) ==
  pc' = [pc EXCEPT ![q] = place] /\ req' = [req EXCEPT ![q] = r]

LEMMA GoesEffect ==
  ASSUME TypeOK, NEW q \in Requests, NEW place \in Places, NEW r \in Locals,
         Goes(q, place, r)
  PROVE  /\ pc' \in [Requests -> Places] /\ req' \in [Requests -> Locals]
         /\ pc'[q] = place /\ req'[q] = r
         /\ \A p \in Requests \ {q} : pc'[p] = pc[p] /\ req'[p] = req[p]
BY DEF TypeOK, Goes

LEMMA BlankType == ASSUME LifecycleAssumption PROVE Blank \in Locals
BY DEF LifecycleAssumption, Blank, Locals, Images

\* What a request that ended still holds.
LEMMA DeadType ==
  ASSUME LifecycleAssumption, NEW r \in Locals
  PROVE  /\ Dead(r) \in Locals
         /\ Dead(r).op = r.op /\ Dead(r).target = r.target /\ Dead(r).folder = r.folder
         /\ Dead(r).seen = 0 /\ Dead(r).harmed = {}
BY BlankType DEF LifecycleAssumption, Dead, Blank, Locals, Images

\* The result of a success.
Kept(q) == [Dead(req[q]) EXCEPT !.seen = req[q].seen, !.alone = req[q].alone]

LEMMA KeptType ==
  ASSUME LifecycleAssumption, TypeOK, NEW q \in Requests
  PROVE  /\ Kept(q) \in Locals
         /\ Kept(q).op = req[q].op /\ Kept(q).target = req[q].target
         /\ Kept(q).folder = req[q].folder /\ Kept(q).harmed = {}
         /\ Kept(q).seen = req[q].seen /\ Kept(q).alone = req[q].alone
<1>1. req[q] \in Locals BY DEF TypeOK
<1>2. Dead(req[q]) \in Locals BY <1>1, DeadType
<1> QED BY <1>1, <1>2, DeadType DEF Kept, Locals

\* Where a request may go from where it is, and what it keeps on the way.
Straight ==
  {<<"port", "mkdir">>, <<"mkdir", "copy">>, <<"copy", "write">>, <<"write", "send">>,
   <<"find", "run">>, <<"halt", "run">>, <<"drop", "run">>, <<"run", "boot">>,
   <<"boot", "clean">>, <<"clean", "rmdir">>, <<"stop", "remove">>, <<"stop", "force">>,
   <<"remove", "force">>}

Path(q, place, r) ==
  \/ AtWork(q) /\ place = "failed" /\ r = Dead(req[q])
  \/ /\ <<pc[q], place>> \in Straight /\ r = req[q]
     /\ pc[q] = "port" => req[q].port <= MaxPort
  \/ /\ pc[q] = "port" /\ place = "port" /\ req[q].port <= MaxPort
     /\ r = [req[q] EXCEPT !.port = @ + 1]
  \/ /\ pc[q] = "send" /\ place = "build"
     /\ \E c \in Images : r = [req[q] EXCEPT !.context = c]
  \/ pc[q] = "build" /\ place = "find" /\ r = [req[q] EXCEPT !.built = TRUE]
  \/ /\ <<pc[q], place>> \in {<<"find", "halt">>, <<"get", "up">>, <<"get", "down">>,
                             <<"get", "stop">>, <<"get", "remove">>}
     /\ place = "up" => req[q].op = "start"
     /\ place = "down" => req[q].op = "stop"
     /\ place \in {"stop", "remove"} => req[q].op \notin {"start", "stop"}
     /\ \E i \in Named(req[q].target) : r = [req[q] EXCEPT !.seen = i]
  \/ /\ <<pc[q], place>> \in {<<"halt", "drop">>, <<"drop", "run">>}
     /\ r = [req[q] EXCEPT !.harmed = @ \cup {req[q].seen}]
  \/ pc[q] \in {"rmdir", "up", "down", "remove", "force"} /\ place = "ok" /\ r = Kept(q)

LEMMA PathType ==
  ASSUME LifecycleAssumption, TypeOK, NEW q \in Requests, NEW place, NEW r,
         Path(q, place, r), pc[q] \in {"halt", "drop"} => req[q].seen \in Requests
  PROVE  place \in Places /\ r \in Locals
<1>1. req[q] \in Locals /\ pc[q] \in Places BY DEF TypeOK
<1>2. place \in Places
  BY <1>1 DEF Path, Straight, Places, Creating, Deleting, Ended
<1>3. \A i \in Named(req[q].target) : i \in 0..MaxRequests
  BY DEF Named, Requests, LifecycleAssumption
<1>4. MaxPort \in Nat /\ req[q].port \in 0..(MaxPort + 1)
  BY <1>1 DEF Locals, LifecycleAssumption
<1>5. CASE r = Dead(req[q]) \/ r = req[q] \/ r = Kept(q)
  BY <1>1, <1>2, <1>5, DeadType, KeptType
<1>6. CASE req[q].port <= MaxPort /\ r = [req[q] EXCEPT !.port = @ + 1]
  <2>1. req[q].port + 1 \in 0..(MaxPort + 1) BY <1>4, <1>6
  <2> QED BY <1>1, <1>2, <1>6, <2>1 DEF Locals
<1>7. CASE \E c \in Images : r = [req[q] EXCEPT !.context = c] BY <1>1, <1>2, <1>7 DEF Locals
<1>8. CASE r = [req[q] EXCEPT !.built = TRUE] BY <1>1, <1>2, <1>8 DEF Locals
<1>9. CASE \E i \in Named(req[q].target) : r = [req[q] EXCEPT !.seen = i]
  BY <1>1, <1>2, <1>3, <1>9 DEF Locals
<1>10. CASE /\ <<pc[q], place>> \in {<<"halt", "drop">>, <<"drop", "run">>}
            /\ r = [req[q] EXCEPT !.harmed = @ \cup {req[q].seen}]
  <2>1. req[q].seen \in Requests BY <1>10
  <2>2. req[q].harmed \cup {req[q].seen} \in SUBSET Requests BY <1>1, <2>1 DEF Locals
  <2> QED BY <1>1, <1>2, <1>10, <2>2 DEF Locals
<1> QED BY <1>2, <1>5, <1>6, <1>7, <1>8, <1>9, <1>10 DEF Path

\* Every step of a request's own is on such a path.
LEMMA OnPath ==
  ASSUME LifecycleAssumption, TypeOK, NEW q \in Requests, Serve(q) \/ Raise(q)
  PROVE  \E place, r : Path(q, place, r) /\ Goes(q, place, r)
<1>1. req \in [Requests -> Locals] /\ req[q] \in Locals BY DEF TypeOK
<1>2. UNCHANGED req => req' = [req EXCEPT ![q] = req[q]] BY <1>1
<1>3. ASSUME Fail(q), AtWork(q) PROVE \E place, r : Path(q, place, r) /\ Goes(q, place, r)
  BY <1>3 DEF Fail, Go, Path, Goes
<1>4. ASSUME NEW place, Go(q, place), UNCHANGED req, <<pc[q], place>> \in Straight,
             pc[q] = "port" => req[q].port <= MaxPort
      PROVE  \E x, r : Path(q, x, r) /\ Goes(q, x, r)
  BY <1>2, <1>4 DEF Go, Path, Goes
<1>5. ASSUME Succeed(q), pc[q] \in {"rmdir", "up", "down", "remove", "force"}
      PROVE  \E place, r : Path(q, place, r) /\ Goes(q, place, r)
  <2>1. Goes(q, "ok", Kept(q)) BY <1>1, <1>5 DEF Succeed, Go, Kept, Goes, TypeOK
  <2> QED BY <1>5, <2>1 DEF Path
<1>6. AtWork(q) <=> pc[q] \notin {"idle", "ok", "failed"} BY DEF AtWork, Ended
<1>7. CASE TryPort(q)
  <2>1. ASSUME req[q].port <= MaxPort, req' = [req EXCEPT ![q].port = @ + 1], UNCHANGED pc,
               pc[q] = "port"
        PROVE  \E place, r : Path(q, place, r) /\ Goes(q, place, r)
    <3>1. Goes(q, "port", [req[q] EXCEPT !.port = @ + 1]) BY <1>1, <2>1 DEF Goes, TypeOK
    <3> QED BY <2>1, <3>1 DEF Path
  <2> QED BY <1>3, <1>4, <1>6, <1>7, <2>1 DEF TryPort, Straight
<1>8. CASE MakeFolder(q) BY <1>4, <1>8 DEF MakeFolder, Straight
<1>9. CASE CopyTemplate(q) BY <1>3, <1>4, <1>6, <1>9 DEF CopyTemplate, Fill, Straight
<1>10. CASE WriteDockerfile(q) BY <1>3, <1>4, <1>6, <1>10 DEF WriteDockerfile, Fill, Straight
<1>11. CASE SendFolder(q)
  <2>1. ASSUME NEW c \in Images, req' = [req EXCEPT ![q].context = c], Go(q, "build"),
               pc[q] = "send"
        PROVE  \E place, r : Path(q, place, r) /\ Goes(q, place, r)
    <3>1. Goes(q, "build", [req[q] EXCEPT !.context = c]) BY <1>1, <2>1 DEF Goes, Go
    <3> QED BY <2>1, <3>1 DEF Path
  <2>2. {"whole", "bare"} \subseteq Images BY DEF Images
  <2> QED BY <1>3, <1>6, <1>11, <2>1, <2>2 DEF SendFolder
<1>12. CASE Build(q)
  <2>1. Goes(q, "find", [req[q] EXCEPT !.built = TRUE]) BY <1>1, <1>12 DEF Build, Goes, Go
  <2> QED BY <1>12, <2>1 DEF Path, Build
<1>13. CASE FindOld(q)
  <2>1. ASSUME NEW i \in Named(req[q].target), req' = [req EXCEPT ![q].seen = i],
               Go(q, "halt"), pc[q] = "find"
        PROVE  \E place, r : Path(q, place, r) /\ Goes(q, place, r)
    <3>1. Goes(q, "halt", [req[q] EXCEPT !.seen = i]) BY <1>1, <2>1 DEF Goes, Go
    <3> QED BY <2>1, <3>1 DEF Path
  <2> QED BY <1>4, <1>13, <2>1 DEF FindOld, Straight
<1>14. ASSUME Harm(q), NEW place, Go(q, place),
              <<pc[q], place>> \in {<<"halt", "drop">>, <<"drop", "run">>}
       PROVE  \E x, r : Path(q, x, r) /\ Goes(q, x, r)
  <2>1. Goes(q, place, [req[q] EXCEPT !.harmed = @ \cup {req[q].seen}])
    BY <1>1, <1>14 DEF Harm, Goes, Go
  <2> QED BY <1>14, <2>1 DEF Path
<1>15. CASE HaltOld(q) BY <1>4, <1>14, <1>15 DEF HaltOld, Straight
<1>16. CASE DropOld(q) BY <1>3, <1>4, <1>6, <1>14, <1>16 DEF DropOld, Straight
<1>17. CASE RunCreates(q) BY <1>3, <1>4, <1>6, <1>17 DEF RunCreates, Straight
<1>18. CASE RunStarts(q) BY <1>3, <1>4, <1>6, <1>18 DEF RunStarts, Straight
<1>19. CASE Clean(q) BY <1>3, <1>4, <1>6, <1>19 DEF Clean, Straight
<1>20. CASE RemoveFolder(q) BY <1>3, <1>5, <1>6, <1>20 DEF RemoveFolder
<1>21. CASE Get(q)
  <2> DEFINE next(i) == CASE req[q].op = "start" -> "up"
                          [] req[q].op = "stop" -> "down"
                          [] OTHER -> IF box[i].status = "running" THEN "stop" ELSE "remove"
  <2>1. ASSUME NEW i \in Named(req[q].target), req' = [req EXCEPT ![q].seen = i],
               Go(q, next(i))
        PROVE  \E x, r : Path(q, x, r) /\ Goes(q, x, r)
    <3>1. Goes(q, next(i), [req[q] EXCEPT !.seen = i]) BY <1>1, <2>1 DEF Goes, Go
    <3>2. /\ next(i) \in {"up", "down", "stop", "remove"}
          /\ next(i) = "up" => req[q].op = "start"
          /\ next(i) = "down" => req[q].op = "stop"
          /\ next(i) \in {"stop", "remove"} => req[q].op \notin {"start", "stop"}
      OBVIOUS
    <3>3. pc[q] = "get" BY <1>21 DEF Get
    <3> HIDE DEF next
    <3> QED BY <2>1, <3>1, <3>2, <3>3 DEF Path
  <2> QED BY <1>3, <1>6, <1>21, <2>1 DEF Get
<1>22. CASE Start(q) BY <1>3, <1>5, <1>6, <1>22 DEF Start
<1>23. CASE Stop(q) BY <1>3, <1>5, <1>6, <1>23 DEF Stop
<1>24. CASE DeleteStops(q) BY <1>4, <1>24 DEF DeleteStops, Straight
<1>25. CASE DeleteRemoves(q) BY <1>4, <1>5, <1>25 DEF DeleteRemoves, Straight
<1>26. CASE DeleteForces(q) BY <1>3, <1>5, <1>6, <1>26 DEF DeleteForces
<1>27. CASE Raise(q)
  BY <1>3, <1>4, <1>6, <1>27 DEF Raise, Straight, Creating
<1> QED
  BY <1>7, <1>8, <1>9, <1>10, <1>11, <1>12, <1>13, <1>15, <1>16, <1>17, <1>18, <1>19, <1>20,
     <1>21, <1>22, <1>23, <1>24, <1>25, <1>26, <1>27
  DEF Serve, Create, Route

-----------------------------------------------------------------------------
Locally == \A q \in Requests : LocalOK(q)

LEMMA Steps ==
  ASSUME [Next]_vars
  PROVE  \/ \E q \in Requests : Serve(q) \/ Raise(q)
         \/ \E q \in Requests, n \in Names : ArriveCreate(q, n)
         \/ \E q \in Requests, op \in {"start", "stop", "delete"}, c \in Containers :
              ArriveRoute(q, op, c)
         \/ \E i \in Requests : Exit(i)
         \/ Restart
         \/ UNCHANGED vars
BY DEF Next

\* A step of a request's own changes what is the request's, and no more.
LEMMA ServeEffect ==
  ASSUME LifecycleAssumption, TypeOK, Locally, NEW q \in Requests, Serve(q) \/ Raise(q)
  PROVE  /\ Path(q, pc'[q], req'[q])
         /\ pc' \in [Requests -> Places] /\ req' \in [Requests -> Locals]
         /\ \A p \in Requests \ {q} : pc'[p] = pc[p] /\ req'[p] = req[p]
         /\ foreign' = foreign
<1>1. PICK place, r : Path(q, place, r) /\ Goes(q, place, r) BY OnPath
<1>2. pc[q] \in {"halt", "drop"} => req[q].seen \in Requests BY DEF Locally, LocalOK
<1>3. place \in Places /\ r \in Locals BY <1>1, <1>2, PathType
<1>4. foreign' = foreign
  BY DEF Serve, Create, Route, Raise, TryPort, MakeFolder, CopyTemplate, WriteDockerfile, Fill,
     SendFolder, Build, FindOld, HaltOld, DropOld, RunCreates, RunStarts, Clean, RemoveFolder,
     Get, Start, Stop, DeleteStops, DeleteRemoves, DeleteForces
<1> QED BY <1>1, <1>3, <1>4, GoesEffect

LEMMA ArriveEffect ==
  ASSUME LifecycleAssumption, TypeOK, NEW q \in Requests, NEW n \in Names, ArriveCreate(q, n)
  PROVE  /\ pc[q] = "idle" /\ pc'[q] = "port"
         /\ pc' \in [Requests -> Places] /\ req' \in [Requests -> Locals]
         /\ \A p \in Requests \ {q} :
              /\ pc'[p] = pc[p]
              /\ req'[p] = [req[p] EXCEPT !.alone = @ /\ p \notin Rivals(ContainerOf[n])]
         /\ req'[q].op = "create" /\ req'[q].target = ContainerOf[n]
         /\ req'[q].folder = FolderOf[n] /\ req'[q].port = 1
         /\ req'[q].seen = 0 /\ req'[q].harmed = {}
         /\ req'[q].alone => Rivals(ContainerOf[n]) = {}
<1> DEFINE rivals == Rivals(ContainerOf[n])
           new == [Blank EXCEPT !.op = "create", !.target = ContainerOf[n],
                     !.folder = FolderOf[n], !.port = 1, !.alone = rivals = {}]
<1>1. (rivals = {}) \in BOOLEAN /\ \A p : (p \notin rivals) \in BOOLEAN OBVIOUS
<1>2. 1 \in 0..(MaxPort + 1) BY DEF LifecycleAssumption
<1>3. ContainerOf[n] \in Containers /\ FolderOf[n] \in Folders BY DEF LifecycleAssumption
<1>4. Blank \in Locals BY BlankType
<1>5. pc[q] = "idle" /\ pc' = [pc EXCEPT ![q] = "port"] BY DEF ArriveCreate, Arrives
<1>6. req' = [p \in Requests |-> IF p = q THEN new
                                 ELSE [req[p] EXCEPT !.alone = @ /\ p \notin rivals]]
  BY DEF ArriveCreate
<1> HIDE DEF rivals
<1>7. /\ new \in Locals /\ new.op = "create" /\ new.target = ContainerOf[n]
      /\ new.folder = FolderOf[n] /\ new.port = 1 /\ new.seen = 0 /\ new.harmed = {}
      /\ new.alone => rivals = {}
  <2> DEFINE e == (rivals = {})
  <2>1. e \in BOOLEAN BY <1>1
  <2> HIDE DEF e
  <2> DEFINE r == [Blank EXCEPT !.op = "create", !.target = ContainerOf[n],
                     !.folder = FolderOf[n], !.port = 1, !.alone = e]
  <2>2. r \in Locals BY <1>2, <1>3, <1>4, <2>1 DEF Locals
  <2>3. /\ r.op = "create" /\ r.target = ContainerOf[n] /\ r.folder = FolderOf[n]
        /\ r.port = 1 /\ r.seen = Blank.seen /\ r.harmed = Blank.harmed /\ r.alone = e
    BY <1>4 DEF Locals
  <2>4. Blank.seen = 0 /\ Blank.harmed = {} BY DEF Blank
  <2> QED BY <2>2, <2>3, <2>4 DEF e
<1>8. ASSUME NEW p \in Requests PROVE [req[p] EXCEPT !.alone = @ /\ p \notin rivals] \in Locals
  <2>1. req[p] \in Locals BY DEF TypeOK
  <2>2. (req[p].alone /\ p \notin rivals) \in BOOLEAN OBVIOUS
  <2> QED BY <2>1, <2>2 DEF Locals
<1> HIDE DEF new
<1>9. req' \in [Requests -> Locals] BY <1>6, <1>7, <1>8
<1>10. /\ pc' \in [Requests -> Places] /\ pc'[q] = "port"
       /\ \A p \in Requests \ {q} : pc'[p] = pc[p]
  BY <1>5 DEF TypeOK, Places, Creating
<1> QED BY <1>5, <1>6, <1>7, <1>9, <1>10 DEF rivals

LEMMA RouteEffect ==
  ASSUME LifecycleAssumption, TypeOK, NEW q \in Requests,
         NEW op \in {"start", "stop", "delete"}, NEW c \in Containers, ArriveRoute(q, op, c)
  PROVE  /\ pc[q] = "idle" /\ pc'[q] = "get"
         /\ pc' \in [Requests -> Places] /\ req' \in [Requests -> Locals]
         /\ \A p \in Requests \ {q} : pc'[p] = pc[p] /\ req'[p] = req[p]
         /\ req'[q].op = op /\ req'[q].target = c
         /\ req'[q].seen = 0 /\ req'[q].harmed = {}
<1> DEFINE r == [Blank EXCEPT !.op = op, !.target = c]
<1>1. r \in Locals BY BlankType DEF Locals
<1>2. r.op = op /\ r.target = c /\ r.seen = Blank.seen /\ r.harmed = Blank.harmed
  BY BlankType DEF Locals
<1>3. Blank.seen = 0 /\ Blank.harmed = {} BY DEF Blank
<1>4. pc[q] = "idle" /\ pc' = [pc EXCEPT ![q] = "get"] /\ req' = [req EXCEPT ![q] = r]
  BY DEF ArriveRoute, Arrives
<1> HIDE DEF r
<1> QED BY <1>1, <1>2, <1>3, <1>4 DEF TypeOK, Places

LEMMA RestartsEffect ==
  ASSUME LifecycleAssumption, TypeOK, Restart
  PROVE  /\ pc' \in [Requests -> Places] /\ req' \in [Requests -> Locals]
         /\ \A p \in Requests :
              IF AtWork(p) THEN pc'[p] = "failed" /\ req'[p] = Dead(req[p])
              ELSE pc'[p] = pc[p] /\ req'[p] = req[p]
BY DeadType DEF Restart, TypeOK, Places, Ended

\* Which steps change Docker's containers, and how.
LEMMA BoxActions ==
  ASSUME LifecycleAssumption, TypeOK, Locally, [Next]_vars
  PROVE  \/ UNCHANGED box
         \/ \E i \in Requests :
              /\ Exists(i)
              /\ \/ MayStart(i) /\ SetStatus(i, "running")
                 \/ SetStatus(i, "exited") \/ Remove(i)
         \/ \E q \in Requests :
              /\ pc[q] = "run" /\ pc'[q] = "boot" /\ Named(req[q].target) = {}
              /\ box' = [box EXCEPT ![q] = [status |-> "created", port |-> req[q].port,
                                            image |-> image[req[q].target]]]
<1> DEFINE Touched == \E i \in Requests :
             /\ Exists(i)
             /\ \/ MayStart(i) /\ SetStatus(i, "running")
                \/ SetStatus(i, "exited") \/ Remove(i)
<1>1. box \in [Requests -> Boxes] BY DEF TypeOK
<1>2. ASSUME NEW i \in Requests, Exists(i), Halt(i) PROVE Touched \/ UNCHANGED box
  <2>1. box[i].status # "running" => box' = box
    BY <1>1, <1>2 DEF Halt, SetStatus, Boxes
  <2> QED BY <1>2, <2>1 DEF Halt
<1>3. ASSUME NEW i \in Requests, MayStart(i), SetStatus(i, "running") PROVE Touched
  BY <1>3 DEF MayStart
<1>4. ASSUME NEW i \in Requests, Exists(i), Remove(i) PROVE Touched
  BY <1>4
<1>5. \A q \in Requests :
        pc[q] \in {"halt", "drop", "up", "down"} \cup Deleting => req[q].seen \in Requests
  BY DEF Locally, LocalOK
<1>6. ASSUME NEW q \in Requests, Serve(q), ~RunCreates(q) PROVE Touched \/ UNCHANGED box
  <2>1. CASE \/ TryPort(q) \/ MakeFolder(q) \/ CopyTemplate(q) \/ WriteDockerfile(q)
             \/ SendFolder(q) \/ Build(q) \/ FindOld(q) \/ Clean(q) \/ RemoveFolder(q) \/ Get(q)
    BY <2>1 DEF TryPort, MakeFolder, CopyTemplate, WriteDockerfile, Fill, SendFolder, Build,
       FindOld, Clean, RemoveFolder, Get
  <2>2. CASE HaltOld(q) BY <1>2, <1>5, <2>2 DEF HaltOld
  <2>3. CASE DropOld(q) BY <1>4, <1>5, <2>3 DEF DropOld
  <2>4. CASE RunStarts(q) BY <1>3, <2>4 DEF RunStarts
  <2>5. CASE Start(q) BY <1>3, <1>5, <2>5 DEF Start
  <2>6. CASE Stop(q) BY <1>2, <1>5, <2>6 DEF Stop
  <2>7. CASE DeleteStops(q) BY <1>2, <1>5, <2>7 DEF DeleteStops, Deleting
  <2>8. CASE DeleteRemoves(q) BY <1>4, <1>5, <2>8 DEF DeleteRemoves, Deleting
  <2>9. CASE DeleteForces(q) BY <1>4, <1>5, <2>9 DEF DeleteForces, Deleting
  <2> QED
    BY <1>6, <2>1, <2>2, <2>3, <2>4, <2>5, <2>6, <2>7, <2>8, <2>9 DEF Serve, Create, Route
<1>7. ASSUME NEW q \in Requests, RunCreates(q), ~UNCHANGED box
      PROVE  /\ pc[q] = "run" /\ pc'[q] = "boot" /\ Named(req[q].target) = {}
             /\ box' = [box EXCEPT ![q] = [status |-> "created", port |-> req[q].port,
                                           image |-> image[req[q].target]]]
  BY <1>7 DEF RunCreates, Go, TypeOK
<1>8. ASSUME NEW i \in Requests, Exit(i) PROVE Touched BY <1>8 DEF Exit, Exists
<1>9. (\E q \in Requests : Raise(q)) \/ Restart \/ UNCHANGED vars => UNCHANGED box
  BY DEF Raise, Restart, vars
<1>10. (\E q \in Requests, n \in Names : ArriveCreate(q, n))
       \/ (\E q \in Requests, op \in {"start", "stop", "delete"}, c \in Containers :
             ArriveRoute(q, op, c)) => UNCHANGED box
  BY DEF ArriveCreate, ArriveRoute
<1> HIDE DEF Touched
<1>11. Touched \/ UNCHANGED box \/ \E q \in Requests : RunCreates(q)
  BY <1>6, <1>8, <1>9, <1>10, Steps
<1> QED BY <1>7, <1>11 DEF Touched

\* What becomes of one container.
LEMMA BoxStep ==
  ASSUME LifecycleAssumption, TypeOK, Locally, [Next]_vars
  PROVE  /\ box' \in [Requests -> Boxes]
         /\ \A i \in Requests :
              \/ box'[i] = box[i]
              \/ /\ Exists(i) /\ box'[i].status \in {"running", "exited"}
                 /\ box'[i].image = box[i].image
              \/ Exists(i) /\ box'[i].status = "removed"
              \/ /\ pc[i] = "run" /\ pc'[i] = "boot" /\ Named(req[i].target) = {}
                 /\ box'[i].status = "created" /\ box'[i].image = image[req[i].target]
<1>1. box \in [Requests -> Boxes] BY DEF TypeOK
<1>2. CASE UNCHANGED box BY <1>1, <1>2
<1>3. ASSUME NEW i \in Requests, Exists(i), NEW st \in {"running", "exited"}, SetStatus(i, st)
      PROVE  /\ box' \in [Requests -> Boxes]
             /\ box'[i].status = st /\ box'[i].image = box[i].image
             /\ \A j \in Requests \ {i} : box'[j] = box[j]
  <2>1. [box[i] EXCEPT !.status = st] \in Boxes BY <1>1 DEF Boxes
  <2>2. box' = [box EXCEPT ![i] = [box[i] EXCEPT !.status = st]]
    BY <1>1, <1>3 DEF SetStatus
  <2>3. /\ [box[i] EXCEPT !.status = st].status = st
        /\ [box[i] EXCEPT !.status = st].image = box[i].image
    BY <1>1 DEF Boxes
  <2> QED BY <1>1, <2>1, <2>2, <2>3
<1>4. ASSUME NEW i \in Requests, Exists(i), Remove(i)
      PROVE  /\ box' \in [Requests -> Boxes] /\ box'[i].status = "removed"
             /\ \A j \in Requests \ {i} : box'[j] = box[j]
  <2>1. [NoBox EXCEPT !.status = "removed"] \in Boxes
    BY DEF NoBox, Boxes, Images, LifecycleAssumption
  <2>2. [NoBox EXCEPT !.status = "removed"].status = "removed" BY DEF NoBox
  <2> QED BY <1>1, <1>4, <2>1, <2>2 DEF Remove
<1>5. ASSUME NEW q \in Requests, pc[q] = "run", pc'[q] = "boot", Named(req[q].target) = {},
             box' = [box EXCEPT ![q] = [status |-> "created", port |-> req[q].port,
                                        image |-> image[req[q].target]]]
      PROVE  /\ box' \in [Requests -> Boxes]
             /\ box'[q].status = "created" /\ box'[q].image = image[req[q].target]
             /\ \A j \in Requests \ {q} : box'[j] = box[j]
  <2>1. req[q] \in Locals /\ image[req[q].target] \in Images BY DEF TypeOK, Locals
  <2>2. req[q].port \in 0..MaxPort
    BY <1>5, <2>1 DEF Locally, LocalOK, Creating, LifecycleAssumption, Locals
  <2>3. [status |-> "created", port |-> req[q].port, image |-> image[req[q].target]] \in Boxes
    BY <2>1, <2>2 DEF Boxes
  <2> QED BY <1>1, <1>5, <2>3
<1> QED BY <1>2, <1>3, <1>4, <1>5, BoxActions

-----------------------------------------------------------------------------
\* A request that others leave as it is, but that it may lose its solitude.
Same(p) ==
  /\ pc'[p] = pc[p]
  /\ req'[p].op = req[p].op /\ req'[p].target = req[p].target
  /\ req'[p].folder = req[p].folder /\ req'[p].port = req[p].port
  /\ req'[p].context = req[p].context /\ req'[p].seen = req[p].seen
  /\ req'[p].built = req[p].built /\ req'[p].harmed = req[p].harmed
  /\ req'[p].alone => req[p].alone
  /\ pc[p] \notin Creating => req'[p].alone = req[p].alone

LEMMA Fates ==
  ASSUME LifecycleAssumption, TypeOK, Locally, [Next]_vars, NEW p \in Requests
  PROVE  \/ Same(p)
         \/ Serve(p) \/ Raise(p)
         \/ \E n \in Names : ArriveCreate(p, n)
         \/ \E op \in {"start", "stop", "delete"}, c \in Containers : ArriveRoute(p, op, c)
         \/ Restart /\ AtWork(p) /\ pc'[p] = "failed" /\ req'[p] = Dead(req[p])
<1>1. ASSUME pc'[p] = pc[p], req'[p] = req[p] PROVE Same(p) BY <1>1 DEF Same
<1>2. ASSUME NEW q \in Requests \ {p}, Serve(q) \/ Raise(q) PROVE Same(p)
  BY <1>1, <1>2, ServeEffect
<1>3. ASSUME NEW q \in Requests \ {p}, NEW n \in Names, ArriveCreate(q, n) PROVE Same(p)
  <2> DEFINE stays == p \notin Rivals(ContainerOf[n])
  <2>1. stays \in BOOLEAN OBVIOUS
  <2>2. pc[p] \notin Creating => stays BY DEF Rivals
  <2>3. pc'[p] = pc[p] /\ req'[p] = [req[p] EXCEPT !.alone = @ /\ stays]
    <3>1. \A x \in Requests \ {q} :
            /\ pc'[x] = pc[x]
            /\ req'[x] = [req[x] EXCEPT !.alone = @ /\ x \notin Rivals(ContainerOf[n])]
      BY <1>3, ArriveEffect
    <3> QED BY <3>1, Zenon
  <2>4. req[p] \in Locals BY DEF TypeOK
  <2> HIDE DEF stays
  <2>5. /\ req'[p].op = req[p].op /\ req'[p].target = req[p].target
        /\ req'[p].folder = req[p].folder /\ req'[p].port = req[p].port
        /\ req'[p].context = req[p].context /\ req'[p].seen = req[p].seen
        /\ req'[p].built = req[p].built /\ req'[p].harmed = req[p].harmed
        /\ req'[p].alone = (req[p].alone /\ stays)
    BY <2>3, <2>4 DEF Locals
  <2>6. req[p].alone \in BOOLEAN BY <2>4 DEF Locals
  <2>7. (req'[p].alone => req[p].alone) /\ (stays => req'[p].alone = req[p].alone)
    BY <2>1, <2>5, <2>6
  <2> QED BY <2>2, <2>3, <2>5, <2>7 DEF Same
<1>4. ASSUME NEW q \in Requests \ {p}, NEW op \in {"start", "stop", "delete"},
             NEW c \in Containers, ArriveRoute(q, op, c)
      PROVE  Same(p)
  BY <1>1, <1>4, RouteEffect
<1>5. (\E i \in Requests : Exit(i)) \/ UNCHANGED vars => pc'[p] = pc[p] /\ req'[p] = req[p]
  BY DEF Exit, vars
<1>6. CASE Restart BY <1>1, <1>6, RestartsEffect
<1> QED BY <1>1, <1>2, <1>3, <1>4, <1>5, <1>6, Steps

\* Once a request has come, what it is about is settled; an end is final.
LEMMA Settled ==
  ASSUME LifecycleAssumption, TypeOK, Locally, [Next]_vars, NEW p \in Requests,
         pc[p] # "idle"
  PROVE  /\ pc'[p] # "idle"
         /\ req'[p].op = req[p].op /\ req'[p].target = req[p].target
         /\ req'[p].folder = req[p].folder
         /\ pc'[p] \in Creating => pc[p] \in Creating
         /\ pc[p] \in Ended =>
              /\ pc'[p] = pc[p] /\ req'[p].seen = req[p].seen
              /\ req'[p].alone = req[p].alone /\ req'[p].harmed = req[p].harmed
<1>1. req[p] \in Locals /\ pc[p] \in Places BY DEF TypeOK
<1>2. CASE Same(p) BY <1>2 DEF Same, Creating, Ended
<1>3. CASE Serve(p) \/ Raise(p)
  <2> DEFINE r == req'[p]
             place == pc'[p]
  <2>1. Path(p, place, r) BY <1>3, ServeEffect
  <2>2. \/ r = Dead(req[p]) \/ r = req[p] \/ r = Kept(p)
        \/ r = [req[p] EXCEPT !.port = @ + 1]
        \/ \E c \in Images : r = [req[p] EXCEPT !.context = c]
        \/ r = [req[p] EXCEPT !.built = TRUE]
        \/ \E i \in Named(req[p].target) : r = [req[p] EXCEPT !.seen = i]
        \/ r = [req[p] EXCEPT !.harmed = @ \cup {req[p].seen}]
    BY <2>1 DEF Path
  <2>3. place # "idle" /\ pc[p] \notin Ended /\ (place \in Creating => pc[p] \in Creating)
    BY <2>1 DEF Path, Straight, AtWork, Creating, Ended
  <2> HIDE DEF r, place
  <2>4. r.op = req[p].op /\ r.target = req[p].target /\ r.folder = req[p].folder
    BY <1>1, <2>2, DeadType, KeptType DEF Locals
  <2> QED BY <2>3, <2>4 DEF r, place
<1>4. ~\E n \in Names : ArriveCreate(p, n) BY ArriveEffect
<1>5. ~\E op \in {"start", "stop", "delete"}, c \in Containers : ArriveRoute(p, op, c)
  BY RouteEffect
<1>6. CASE Restart /\ AtWork(p) /\ pc'[p] = "failed" /\ req'[p] = Dead(req[p])
  BY <1>1, <1>6, DeadType DEF AtWork, Creating
<1> QED BY <1>2, <1>3, <1>4, <1>5, <1>6, Fates

LEMMA LocalStep ==
  ASSUME LifecycleAssumption, TypeOK, Locally, [Next]_vars
  PROVE  Locally'
<1> SUFFICES ASSUME NEW p \in Requests PROVE LocalOK(p)'
  BY DEF Locally
<1>1. LocalOK(p) /\ req[p] \in Locals /\ pc[p] \in Places /\ box[p] \in Boxes
  BY DEF Locally, TypeOK
<1>2. /\ box[p].status \in {"running", "exited", "removed"} =>
           box'[p].status \in {"running", "exited", "removed"}
      /\ box[p].status = "absent" /\ ~(pc[p] = "run" /\ pc'[p] = "boot") =>
           box'[p].status = "absent"
  BY <1>1, BoxStep DEF Exists, LocalOK, Ended
<1>3. CASE Same(p)
  <2>1. box[p].status = "absent" => box'[p].status = "absent"
    BY <1>2, <1>3 DEF Same
  <2> QED BY <1>1, <1>2, <1>3, <2>1 DEF Same, LocalOK
<1>4. CASE Serve(p) \/ Raise(p)
  <2>1. Path(p, pc'[p], req'[p]) BY <1>4, ServeEffect
  <2>2. pc[p] # "idle" BY <2>1 DEF Path, Straight, AtWork
  <2>3. req'[p].op = req[p].op /\ req'[p].target = req[p].target /\ req'[p].folder = req[p].folder
    BY <2>2, Settled
  <2>4. pc'[p] \in Creating => pc[p] \in Creating BY <2>2, Settled
  <2>5. pc'[p] \in Creating =>
          /\ req'[p].op = "create"
          /\ \E n \in Names : req'[p].target = ContainerOf[n] /\ req'[p].folder = FolderOf[n]
    BY <1>1, <2>3, <2>4 DEF LocalOK
  <2>6. pc[p] \notin {"boot", "clean", "rmdir"} /\ pc'[p] # "boot" => box'[p].status = "absent"
    BY <1>1, <1>2, <2>1 DEF LocalOK, Path, Straight, AtWork, Ended
  <2>7. pc[p] = "boot" /\ pc'[p] = "clean" => box'[p].status = "running"
    <3> SUFFICES ASSUME pc[p] = "boot", pc'[p] = "clean" PROVE box'[p].status = "running"
      OBVIOUS
    <3>1. RunStarts(p) \/ Raise(p)
      BY <1>4 DEF Serve, Create, Route, TryPort, MakeFolder, CopyTemplate, WriteDockerfile,
         SendFolder, Build, FindOld, HaltOld, DropOld, RunCreates, Clean, RemoveFolder,
         Get, Start, Stop, DeleteStops, DeleteRemoves, DeleteForces
    <3>2. SetStatus(p, "running") BY <3>1 DEF RunStarts, Raise, Fail, Go, TypeOK, Deleting
    <3> QED BY <1>1, <3>2 DEF SetStatus, TypeOK, Boxes
  <2>8. CASE <<pc[p], pc'[p]>> \in Straight /\ req'[p] = req[p]
             /\ (pc[p] = "port" => req[p].port <= MaxPort)
    <3>1. pc'[p] \in Creating \ {"port"} => req'[p].port <= MaxPort
      BY <1>1, <2>8 DEF LocalOK, Straight, Creating
    <3> QED BY <1>1, <1>2, <2>3, <2>5, <2>6, <2>7, <2>8, <3>1
        DEF LocalOK, Straight, Creating, Deleting, Ended
  <2>9. CASE pc[p] = "port" /\ pc'[p] = "port"
    BY <2>5, <2>6, <2>9 DEF LocalOK, Creating, Deleting, Ended
  <2>10. CASE /\ pc[p] = "send" /\ pc'[p] = "build"
              /\ \E c \in Images : req'[p] = [req[p] EXCEPT !.context = c]
    <3>1. req'[p].port = req[p].port BY <1>1, <2>10 DEF Locals
    <3> QED BY <1>1, <2>5, <2>6, <2>10, <3>1 DEF LocalOK, Creating, Deleting, Ended
  <2>11. CASE /\ pc[p] = "build" /\ pc'[p] = "find"
              /\ req'[p] = [req[p] EXCEPT !.built = TRUE]
    <3>1. req'[p].port = req[p].port /\ req'[p].built BY <1>1, <2>11 DEF Locals
    <3> QED BY <1>1, <2>5, <2>6, <2>11, <3>1 DEF LocalOK, Creating, Deleting, Ended
  <2>12. CASE /\ <<pc[p], pc'[p]>> \in {<<"find", "halt">>, <<"get", "up">>, <<"get", "down">>,
                                        <<"get", "stop">>, <<"get", "remove">>}
              /\ pc'[p] = "up" => req[p].op = "start"
              /\ pc'[p] = "down" => req[p].op = "stop"
              /\ pc'[p] \in {"stop", "remove"} => req[p].op \notin {"start", "stop"}
              /\ \E i \in Named(req[p].target) : req'[p] = [req[p] EXCEPT !.seen = i]
    <3>1. /\ req'[p].port = req[p].port /\ req'[p].built = req[p].built
          /\ req'[p].seen \in Requests
      BY <1>1, <2>12 DEF Locals, Named
    <3> QED BY <1>1, <2>3, <2>5, <2>6, <2>12, <3>1 DEF LocalOK, Creating, Deleting, Ended
  <2>13. CASE /\ <<pc[p], pc'[p]>> \in {<<"halt", "drop">>, <<"drop", "run">>}
              /\ req'[p] = [req[p] EXCEPT !.harmed = @ \cup {req[p].seen}]
    <3>1. /\ req'[p].port = req[p].port /\ req'[p].built = req[p].built
          /\ req'[p].seen = req[p].seen
      BY <1>1, <2>13 DEF Locals
    <3> QED BY <1>1, <2>5, <2>6, <2>13, <3>1 DEF LocalOK, Creating, Deleting, Ended
  <2>14. CASE pc'[p] = "failed"
    BY <2>14 DEF LocalOK, Creating, Deleting, Ended
  <2>15. CASE /\ pc[p] \in {"rmdir", "up", "down", "remove", "force"} /\ pc'[p] = "ok"
              /\ req'[p] = Kept(p)
    <3>1. req'[p].op = req[p].op /\ req'[p].seen = req[p].seen BY <2>15, KeptType
    <3>2. pc[p] = "rmdir" => req[p].op = "create" BY <1>1 DEF LocalOK, Creating
    <3>3. pc[p] # "rmdir" => req[p].seen \in Requests BY <1>1, <2>15 DEF LocalOK, Deleting
    <3> QED BY <2>15, <3>1, <3>2, <3>3 DEF LocalOK, Creating, Deleting, Ended
  <2> QED BY <2>1, <2>8, <2>9, <2>10, <2>11, <2>12, <2>13, <2>14, <2>15 DEF Path
<1>5. ASSUME NEW n \in Names, ArriveCreate(p, n) PROVE LocalOK(p)'
  <2>1. /\ pc'[p] = "port" /\ req'[p].op = "create" /\ req'[p].target = ContainerOf[n]
        /\ req'[p].folder = FolderOf[n]
    BY <1>5, ArriveEffect
  <2>2. box'[p].status = "absent"
    BY <1>1, <1>2, <1>5, ArriveEffect DEF LocalOK, Ended
  <2> QED BY <2>1, <2>2 DEF LocalOK, Creating, Deleting, Ended
<1>6. ASSUME NEW op \in {"start", "stop", "delete"}, NEW c \in Containers,
             ArriveRoute(p, op, c)
      PROVE  LocalOK(p)'
  <2>1. pc'[p] = "get" /\ req'[p].op = op BY <1>6, RouteEffect
  <2>2. box'[p].status = "absent"
    BY <1>1, <1>2, <1>6, RouteEffect DEF LocalOK, Ended
  <2> QED BY <2>1, <2>2 DEF LocalOK, Creating, Deleting, Ended
<1>7. CASE pc'[p] = "failed"
  BY <1>7 DEF LocalOK, Creating, Deleting, Ended
<1> QED BY <1>3, <1>4, <1>5, <1>6, <1>7, Fates
-----------------------------------------------------------------------------
\* Which operation a request is about to do.
LEMMA ServeAt ==
  ASSUME TypeOK, NEW q \in Requests, Serve(q) \/ Raise(q), pc'[q] # "failed"
  PROVE  /\ pc[q] = "mkdir" => MakeFolder(q)
         /\ pc[q] = "copy" => CopyTemplate(q)
         /\ pc[q] = "write" => WriteDockerfile(q)
         /\ pc[q] = "send" => SendFolder(q)
         /\ pc[q] = "build" => Build(q)
         /\ pc[q] = "run" => RunCreates(q)
         /\ pc[q] = "clean" => Clean(q)
         /\ pc[q] = "rmdir" => RemoveFolder(q)
<1>1. Raise(q) => pc[q] \in {"stop", "remove"}
  BY DEF Raise, Fail, Go, TypeOK
<1> QED
  BY <1>1 DEF Serve, Create, Route, TryPort, MakeFolder, CopyTemplate, WriteDockerfile,
     SendFolder, Build, FindOld, HaltOld, DropOld, RunCreates, RunStarts, Clean, RemoveFolder,
     Get, Start, Stop, DeleteStops, DeleteRemoves, DeleteForces

\* Only a creation at work on a build folder changes it.
LEMMA FolderStep ==
  ASSUME LifecycleAssumption, TypeOK, Locally, [Next]_vars
  PROVE  /\ folder' \in [Folders -> SUBSET Parts]
         /\ \A f \in Folders :
              \/ folder'[f] = folder[f]
              \/ \E q \in Requests :
                   /\ pc[q] \in Creating /\ req[q].folder = f /\ pc'[q] # pc[q]
                   /\ folder'[f] = {} \/ pc'[q] \in {"copy", "write", "send", "rmdir"}
<1>1. folder \in [Folders -> SUBSET Parts] /\ pc \in [Requests -> Places] BY DEF TypeOK
<1>2. ASSUME NEW q \in Requests, NEW parts \in SUBSET Parts, Put(q, parts)
      PROVE  /\ folder' \in [Folders -> SUBSET Parts] /\ req[q].folder \in Folders
             /\ folder'[req[q].folder] = parts
             /\ \A f \in Folders \ {req[q].folder} : folder'[f] = folder[f]
  BY <1>1, <1>2 DEF Put, TypeOK, Locals
<1>3. ASSUME NEW q \in Requests, NEW part \in Parts
      PROVE  Folder(q) \cup {part} \in SUBSET Parts
  BY <1>1 DEF Folder, TypeOK, Locals
<1>4. {"dir", "web", "Dockerfile"} \subseteq Parts /\ {"dir"} \in SUBSET Parts BY DEF Parts
<1>5. ASSUME NEW q \in Requests, NEW place, Go(q, place) PROVE pc'[q] = place
  BY <1>1, <1>5 DEF Go
<1> DEFINE Written(q) ==
      /\ pc[q] \in Creating /\ pc'[q] # pc[q]
      /\ \E parts \in SUBSET Parts :
           Put(q, parts) /\ (parts = {} \/ pc'[q] \in {"copy", "write", "send", "rmdir"})
<1>6. ASSUME NEW q \in Requests, Serve(q) PROVE Written(q) \/ UNCHANGED folder
  <2>1. CASE MakeFolder(q) BY <1>3, <1>4, <1>5, <2>1 DEF MakeFolder, Creating
  <2>2. CASE CopyTemplate(q) BY <1>3, <1>4, <1>5, <2>2 DEF CopyTemplate, Fill, Creating
  <2>3. CASE WriteDockerfile(q)
    BY <1>3, <1>4, <1>5, <2>3 DEF WriteDockerfile, Fill, Creating
  <2>4. CASE Clean(q) BY <1>4, <1>5, <2>4 DEF Clean, Creating
  <2>5. CASE RemoveFolder(q) BY <1>5, <2>5 DEF RemoveFolder, Succeed, Creating
  <2>6. CASE \/ TryPort(q) \/ SendFolder(q) \/ Build(q) \/ FindOld(q) \/ HaltOld(q)
             \/ DropOld(q) \/ RunCreates(q) \/ RunStarts(q)
    BY <2>6 DEF TryPort, SendFolder, Build, FindOld, HaltOld, DropOld, RunCreates, RunStarts
  <2>7. CASE Route(q)
    BY <2>7 DEF Route, Get, Start, Stop, DeleteStops, DeleteRemoves, DeleteForces
  <2> QED BY <1>6, <2>1, <2>2, <2>3, <2>4, <2>5, <2>6, <2>7 DEF Serve, Create
<1>7. (\E q \in Requests : Serve(q)) \/ UNCHANGED folder
  BY Steps DEF Raise, ArriveCreate, ArriveRoute, Exit, Restart, vars
<1>8. CASE UNCHANGED folder BY <1>1, <1>8
<1>9. ASSUME NEW q \in Requests, Written(q)
      PROVE  /\ folder' \in [Folders -> SUBSET Parts]
             /\ \A f \in Folders :
                  \/ folder'[f] = folder[f]
                  \/ \E p \in Requests :
                       /\ pc[p] \in Creating /\ req[p].folder = f /\ pc'[p] # pc[p]
                       /\ folder'[f] = {} \/ pc'[p] \in {"copy", "write", "send", "rmdir"}
  BY <1>2, <1>9
<1> HIDE DEF Written
<1> QED BY <1>6, <1>7, <1>8, <1>9

\* Only the end of a build changes an image.
LEMMA ImageStep ==
  ASSUME LifecycleAssumption, TypeOK, Locally, [Next]_vars
  PROVE  /\ image' \in [Containers -> Images]
         /\ \A c \in Containers :
              \/ image'[c] = image[c]
              \/ \E q \in Requests :
                   /\ pc[q] = "build" /\ pc'[q] = "find" /\ req[q].target = c
                   /\ image'[c] = req[q].context
<1>1. image \in [Containers -> Images] BY DEF TypeOK
<1>2. CASE UNCHANGED image BY <1>1, <1>2
<1>3. ASSUME NEW q \in Requests, Build(q)
      PROVE  /\ pc[q] = "build" /\ pc'[q] = "find"
             /\ req[q].target \in Containers /\ req[q].context \in Images
             /\ image' = [image EXCEPT ![req[q].target] = req[q].context]
  BY <1>3 DEF Build, Go, TypeOK, Locals
<1>4. ASSUME NEW q \in Requests, Serve(q) PROVE Build(q) \/ UNCHANGED image
  BY <1>4 DEF Serve, Create, Route, TryPort, MakeFolder, CopyTemplate, WriteDockerfile, Fill,
     SendFolder, FindOld, HaltOld, DropOld, RunCreates, RunStarts, Clean, RemoveFolder,
     Get, Start, Stop, DeleteStops, DeleteRemoves, DeleteForces
<1>5. (\E q \in Requests : Serve(q)) \/ UNCHANGED image
  BY Steps DEF Raise, ArriveCreate, ArriveRoute, Exit, Restart, vars
<1> QED BY <1>1, <1>2, <1>3, <1>4, <1>5

LEMMA TypeStep ==
  ASSUME LifecycleAssumption, TypeOK, Locally, [Next]_vars
  PROVE  TypeOK'
<1>1. /\ folder' \in [Folders -> SUBSET Parts] /\ image' \in [Containers -> Images]
      /\ box' \in [Requests -> Boxes]
  BY FolderStep, ImageStep, BoxStep
<1>2. /\ foreign \subseteq 1..MaxPort /\ pc \in [Requests -> Places]
      /\ req \in [Requests -> Locals]
  BY DEF TypeOK
<1>3. (\E q \in Requests : Serve(q) \/ Raise(q)) =>
        foreign' = foreign /\ pc' \in [Requests -> Places] /\ req' \in [Requests -> Locals]
  BY ServeEffect
<1>4. (\E q \in Requests, n \in Names : ArriveCreate(q, n)) =>
        foreign' = foreign /\ pc' \in [Requests -> Places] /\ req' \in [Requests -> Locals]
  <2>1. ASSUME NEW q \in Requests, NEW n \in Names, ArriveCreate(q, n)
        PROVE  pc' \in [Requests -> Places] /\ req' \in [Requests -> Locals]
    BY <2>1, ArriveEffect
  <2>2. ASSUME NEW q \in Requests, NEW n \in Names, ArriveCreate(q, n)
        PROVE  foreign' = foreign
    BY <2>2 DEF ArriveCreate
  <2> QED BY <2>1, <2>2
<1>5. (\E q \in Requests, op \in {"start", "stop", "delete"}, c \in Containers :
         ArriveRoute(q, op, c)) =>
        foreign' = foreign /\ pc' \in [Requests -> Places] /\ req' \in [Requests -> Locals]
  BY RouteEffect DEF ArriveRoute
<1>6. Restart =>
        foreign' = foreign /\ pc' \in [Requests -> Places] /\ req' \in [Requests -> Locals]
  BY RestartsEffect DEF Restart
<1>7. (\E i \in Requests : Exit(i)) \/ UNCHANGED vars => UNCHANGED <<foreign, pc, req>>
  BY DEF Exit, vars
<1>8. foreign' = foreign /\ pc' \in [Requests -> Places] /\ req' \in [Requests -> Locals]
  BY <1>2, <1>3, <1>4, <1>5, <1>6, <1>7, Steps
<1> QED BY <1>1, <1>2, <1>8 DEF TypeOK
-----------------------------------------------------------------------------
AllSeen == \A q \in Requests : SeenOK(q)

\* What a request newly found or touched, if it is at work.
LEMMA Found ==
  ASSUME LifecycleAssumption, TypeOK, Locally, NEW q \in Requests, Serve(q) \/ Raise(q),
         NEW i \in Requests
  PROVE  /\ i = req'[q].seen =>
              \/ i = req[q].seen
              \/ i \in Named(req[q].target) /\ pc[q] \in {"find", "get"}
         /\ i \in req'[q].harmed =>
              \/ i \in req[q].harmed /\ (req[q].built => req'[q].built)
              \/ i = req[q].seen /\ req[q].built /\ req'[q].built
<1>1. req[q] \in Locals /\ i # 0 BY DEF TypeOK, Requests
<1>2. Path(q, pc'[q], req'[q]) BY ServeEffect
<1>3. CASE req'[q] = Dead(req[q]) BY <1>1, <1>3, DeadType
<1>4. CASE req'[q] = Kept(q)
  <2>1. req'[q].seen = req[q].seen /\ req'[q].harmed = {} BY <1>4, KeptType
  <2> QED BY <2>1
<1>5. CASE \/ req'[q] = req[q]
           \/ req'[q] = [req[q] EXCEPT !.port = @ + 1]
           \/ \E c \in Images : req'[q] = [req[q] EXCEPT !.context = c]
           \/ req'[q] = [req[q] EXCEPT !.built = TRUE]
  <2>1. req'[q].seen = req[q].seen /\ req'[q].harmed = req[q].harmed
    BY <1>1, <1>5 DEF Locals
  <2>2. req[q].built => req'[q].built BY <1>1, <1>5 DEF Locals
  <2> QED BY <2>1, <2>2
<1>6. CASE /\ pc[q] \in {"find", "get"}
           /\ \E j \in Named(req[q].target) : req'[q] = [req[q] EXCEPT !.seen = j]
  BY <1>1, <1>6 DEF Locals
<1>7. CASE pc[q] \in {"halt", "drop"} /\ req'[q] = [req[q] EXCEPT !.harmed = @ \cup {req[q].seen}]
  <2>1. req[q].built BY <1>7 DEF Locally, LocalOK
  <2>2. /\ req'[q].seen = req[q].seen /\ req'[q].built = req[q].built
        /\ req'[q].harmed = req[q].harmed \cup {req[q].seen}
    BY <1>1, <1>7 DEF Locals
  <2> QED BY <2>1, <2>2
<1> QED BY <1>2, <1>3, <1>4, <1>5, <1>6, <1>7 DEF Path

\* A container that exists was made by another request than one still searching.
LEMMA SeenStep ==
  ASSUME LifecycleAssumption, TypeOK, Locally, AllSeen, [Next]_vars
  PROVE  AllSeen'
<1> SUFFICES ASSUME NEW q \in Requests, NEW i \in Requests,
                    i = req'[q].seen \/ i \in req'[q].harmed
             PROVE  i # q /\ pc'[i] # "idle" /\ req'[i].target = req'[q].target
  BY DEF AllSeen, SeenOK
<1>1. i # 0 BY DEF Requests
<1>2. ASSUME i # q, pc[i] # "idle", req[i].target = req[q].target,
             req'[q].target = req[q].target
      PROVE  i # q /\ pc'[i] # "idle" /\ req'[i].target = req'[q].target
  BY <1>2, Settled
<1>3. ASSUME i = req[q].seen \/ i \in req[q].harmed
      PROVE  i # q /\ pc[i] # "idle" /\ req[i].target = req[q].target
  BY <1>3 DEF AllSeen, SeenOK
<1>4. CASE Same(q) BY <1>2, <1>3, <1>4 DEF Same
<1>5. CASE Serve(q) \/ Raise(q)
  <2>1. pc[q] # "idle" BY <1>5, ServeEffect DEF Path, Straight, AtWork
  <2>2. req'[q].target = req[q].target BY <2>1, Settled
  <2>3. \/ i = req[q].seen \/ i \in req[q].harmed
        \/ i \in Named(req[q].target) /\ pc[q] \in {"find", "get"}
    BY <1>5, Found
  <2>4. ASSUME i \in Named(req[q].target), pc[q] \in {"find", "get"}
        PROVE  i # q /\ pc[i] # "idle" /\ req[i].target = req[q].target
    <3>1. box[i].status # "absent" /\ req[i].target = req[q].target
      BY <2>4 DEF Named, Exists
    <3>2. box[q].status = "absent" BY <2>4 DEF Locally, LocalOK, Ended
    <3>3. pc[i] = "idle" => box[i].status = "absent" BY DEF Locally, LocalOK, Ended
    <3> QED BY <3>1, <3>2, <3>3
  <2> QED BY <1>2, <1>3, <2>2, <2>3, <2>4
<1>6. ~\E n \in Names : ArriveCreate(q, n) BY <1>1, ArriveEffect
<1>7. ~\E op \in {"start", "stop", "delete"}, c \in Containers : ArriveRoute(q, op, c)
  BY <1>1, RouteEffect
<1>8. CASE Restart /\ AtWork(q) /\ pc'[q] = "failed" /\ req'[q] = Dead(req[q])
  BY <1>1, <1>8, DeadType DEF TypeOK
<1> QED BY <1>4, <1>5, <1>6, <1>7, <1>8, Fates

-----------------------------------------------------------------------------
\* A container that is gone stays away; one that was started keeps its image.
LEMMA Remains ==
  ASSUME LifecycleAssumption, TypeOK, Locally, [Next]_vars, NEW i \in Requests
  PROVE  /\ box[i].status = "removed" => box'[i].status = "removed"
         /\ box[i].status \in {"running", "exited"} =>
              \/ box'[i].status = "removed"
              \/ box'[i].status \in {"running", "exited"} /\ box'[i].image = box[i].image
         /\ pc[i] # "run" => box'[i].status = "removed" \/ box'[i].image = box[i].image
<1>1. pc[i] = "run" => box[i].status = "absent" BY DEF Locally, LocalOK, Ended
<1> QED BY <1>1, BoxStep DEF Exists

LEMMA DeletedStep ==
  ASSUME LifecycleAssumption, TypeOK, Locally, DeletedIsGone, [Next]_vars
  PROVE  DeletedIsGone'
<1> SUFFICES ASSUME NEW q \in Requests, req'[q].op = "delete", pc'[q] = "ok"
             PROVE  box'[req'[q].seen].status = "removed"
  BY DEF DeletedIsGone
<1>1. CASE pc[q] = "ok"
  <2>1. req[q].op = "delete" /\ req'[q].seen = req[q].seen BY <1>1, Settled DEF Ended
  <2>2. req[q].seen \in Requests /\ box[req[q].seen].status = "removed"
    BY <1>1, <2>1 DEF DeletedIsGone, Locally, LocalOK
  <2> QED BY <2>1, <2>2, Remains
<1>2. CASE pc[q] # "ok"
  <2>1. Serve(q) \/ Raise(q)
    BY <1>2, Fates, ArriveEffect, RouteEffect DEF Same
  <2>2. Path(q, "ok", req'[q]) BY <2>1, ServeEffect
  <2>3. pc[q] \in {"rmdir", "up", "down", "remove", "force"} /\ req'[q] = Kept(q)
    BY <2>2 DEF Path, Straight
  <2>4. req[q].op = "delete" /\ req'[q].seen = req[q].seen BY <2>3, KeptType
  <2>5. pc[q] \in {"remove", "force"} /\ req[q].seen \in Requests
    BY <2>3, <2>4 DEF Locally, LocalOK, Creating, Deleting
  <2>6. pc \in [Requests -> Places] /\ box \in [Requests -> Boxes] BY DEF TypeOK
  <2>7. DeleteRemoves(q) \/ DeleteForces(q)
    BY <2>1, <2>5, <2>6 DEF Raise, Fail, Go, Serve, Create, Route, TryPort, MakeFolder, CopyTemplate,
       WriteDockerfile, SendFolder, Build, FindOld, HaltOld, DropOld, RunCreates, RunStarts,
       Clean, RemoveFolder, Get, Start, Stop, DeleteStops
  <2>8. Remove(req[q].seen)
    BY <2>6, <2>7 DEF DeleteRemoves, DeleteForces, Fail, Go
  <2>9. box'[req[q].seen] = [NoBox EXCEPT !.status = "removed"] BY <2>5, <2>6, <2>8 DEF Remove
  <2> QED BY <2>4, <2>9 DEF NoBox
<1> QED BY <1>1, <1>2

LEMMA BuildFirstStep ==
  ASSUME LifecycleAssumption, TypeOK, Locally, AllSeen, OldOutlivesBuild, [Next]_vars
  PROVE  OldOutlivesBuild'
<1> SUFFICES ASSUME NEW q \in Requests, NEW i \in req'[q].harmed
             PROVE  req'[q].built /\ i # q /\ req'[i].target = req'[q].target
  BY DEF OldOutlivesBuild
<1>1. i \in Requests BY TypeStep DEF TypeOK, Locals
<1>2. i # q /\ req'[i].target = req'[q].target BY <1>1, SeenStep DEF AllSeen, SeenOK
<1>3. CASE Same(q) BY <1>2, <1>3 DEF Same, OldOutlivesBuild
<1>4. CASE Serve(q) \/ Raise(q) BY <1>1, <1>2, <1>4, Found DEF OldOutlivesBuild
<1>5. ~\E n \in Names : ArriveCreate(q, n) BY ArriveEffect
<1>6. ~\E op \in {"start", "stop", "delete"}, c \in Containers : ArriveRoute(q, op, c)
  BY RouteEffect
<1>7. ~(Restart /\ AtWork(q) /\ pc'[q] = "failed" /\ req'[q] = Dead(req[q]))
  BY DeadType DEF TypeOK
<1> QED BY <1>3, <1>4, <1>5, <1>6, <1>7, Fates

-----------------------------------------------------------------------------
AllAlone == \A q \in Requests : AloneOK(q)

\* A request at work keeps its solitude, and its choice of image.
LEMMA KeepsAlone ==
  ASSUME LifecycleAssumption, TypeOK, Locally, NEW p \in Requests, Serve(p) \/ Raise(p),
         pc'[p] \in Creating
  PROVE  pc[p] \in Creating /\ req'[p].alone = req[p].alone
<1>1. Path(p, pc'[p], req'[p]) BY ServeEffect
<1>2. req[p] \in Locals BY DEF TypeOK
<1>3. pc[p] \in Creating /\ pc'[p] \notin {"ok", "failed"}
  BY <1>1 DEF Path, Straight, Creating
<1>4. \/ req'[p] = req[p]
      \/ req'[p] = [req[p] EXCEPT !.port = @ + 1]
      \/ \E c \in Images : req'[p] = [req[p] EXCEPT !.context = c]
      \/ req'[p] = [req[p] EXCEPT !.built = TRUE]
      \/ \E i \in Named(req[p].target) : req'[p] = [req[p] EXCEPT !.seen = i]
      \/ req'[p] = [req[p] EXCEPT !.harmed = @ \cup {req[p].seen}]
  BY <1>1, <1>3 DEF Path
<1> QED BY <1>2, <1>3, <1>4 DEF Locals

\* No rival has come to a creation that is still alone.
LEMMA NoRival ==
  ASSUME LifecycleAssumption, TypeOK, Locally, [Next]_vars, NEW p \in Requests,
         pc[p] \in Creating, pc'[p] \in Creating, req'[p].alone,
         Rivals(req[p].target) = {p}, NEW t, t = req[p].target
  PROVE  {q \in Requests : pc'[q] \in Creating /\ req'[q].target = t} = {p}
<1>1. pc[p] # "idle" BY DEF Creating
<1>2. req'[p].target = t BY <1>1, Settled
<1>3. ASSUME NEW q \in Requests, pc'[q] \in Creating, req'[q].target = t, q # p
      PROVE  FALSE
  <2>1. CASE pc[q] # "idle"
    <3>1. pc[q] \in Creating /\ req[q].target = t BY <1>3, <2>1, Settled
    <3> QED BY <1>3, <3>1 DEF Rivals
  <2>2. CASE pc[q] = "idle"
    <3>1. ~Same(q) BY <1>3, <2>2 DEF Same, Creating
    <3>2. ~(Serve(q) \/ Raise(q))
      BY <2>2, ServeEffect DEF Path, Straight, AtWork
    <3>3. ~\E op \in {"start", "stop", "delete"}, c \in Containers : ArriveRoute(q, op, c)
      BY <1>3, RouteEffect DEF Creating
    <3>4. ~AtWork(q) BY <2>2 DEF AtWork
    <3>5. PICK n \in Names : ArriveCreate(q, n) BY <3>1, <3>2, <3>3, <3>4, Fates
    <3>6. ContainerOf[n] = t BY <1>3, <3>5, ArriveEffect
    <3> DEFINE stays == p \notin Rivals(ContainerOf[n])
    <3>7. req'[p] = [req[p] EXCEPT !.alone = @ /\ stays]
      <4>1. \A x \in Requests \ {q} :
              /\ pc'[x] = pc[x]
              /\ req'[x] = [req[x] EXCEPT !.alone = @ /\ x \notin Rivals(ContainerOf[n])]
        BY <3>5, ArriveEffect
      <4>2. p \in Requests \ {q} BY <1>3
      <4> QED BY <4>1, <4>2, Zenon
    <3>8. req[p] \in Locals BY DEF TypeOK
    <3>9. ~stays BY <3>6
    <3> HIDE DEF stays
    <3> QED BY <3>7, <3>8, <3>9 DEF Locals
  <2> QED BY <2>1, <2>2
<1> QED BY <1>2, <1>3

\* Without rivals a creation has its folder to itself.
LEMMA FolderToItself ==
  ASSUME LifecycleAssumption, Locally, NEW p \in Requests, NEW q \in Requests,
         pc[p] \in Creating, Rivals(req[p].target) = {p},
         pc[q] \in Creating, req[q].folder = req[p].folder
  PROVE  q = p
<1>1. PICK m \in Names : req[p].target = ContainerOf[m] /\ req[p].folder = FolderOf[m]
  BY DEF Locally, LocalOK
<1>2. PICK n \in Names : req[q].target = ContainerOf[n] /\ req[q].folder = FolderOf[n]
  BY DEF Locally, LocalOK
<1>3. req[q].target = req[p].target BY <1>1, <1>2 DEF LifecycleAssumption
<1> QED BY <1>3 DEF Rivals

\* What a creation without rivals relies on, others leave alone.
LEMMA Undisturbed ==
  ASSUME LifecycleAssumption, TypeOK, Locally, [Next]_vars, NEW p \in Requests,
         pc[p] \in Creating, Rivals(req[p].target) = {p}
  PROVE  /\ folder'[req[p].folder] = folder[req[p].folder] \/ pc'[p] # pc[p]
         /\ image'[req[p].target] = image[req[p].target] \/ pc[p] = "build"
<1>1. req[p].folder \in Folders /\ req[p].target \in Containers BY DEF TypeOK, Locals
<1>2. ASSUME NEW q \in Requests, pc[q] \in Creating, req[q].folder = req[p].folder
      PROVE  q = p
  BY <1>2, FolderToItself
<1>3. ASSUME NEW q \in Requests, pc[q] = "build", req[q].target = req[p].target
      PROVE  q = p
  BY <1>3 DEF Rivals, Creating
<1>4. folder'[req[p].folder] = folder[req[p].folder] \/ pc'[p] # pc[p]
  BY <1>1, <1>2, FolderStep
<1>5. image'[req[p].target] = image[req[p].target] \/ pc[p] = "build"
  BY <1>1, <1>3, ImageStep
<1> QED BY <1>4, <1>5

LEMMA AloneStep ==
  ASSUME LifecycleAssumption, TypeOK, Locally, AllAlone, [Next]_vars
  PROVE  AllAlone'
<1> SUFFICES
      ASSUME NEW p \in Requests, req'[p].alone, pc'[p] \in Creating
      PROVE  /\ {q \in Requests : pc'[q] \in Creating /\ req'[q].target = req'[p].target} = {p}
             /\ pc'[p] \in {"write", "send"} => "web" \in folder'[req'[p].folder]
             /\ pc'[p] = "build" => req'[p].context = "whole"
             /\ pc'[p] \in {"find", "halt", "drop", "run"} =>
                  image'[req'[p].target] = "whole"
             /\ pc'[p] \in {"boot", "clean", "rmdir"} =>
                  box'[p].status = "removed" \/ box'[p].image = "whole"
  BY DEF AllAlone, AloneOK, Folder, Rivals
<1>1. /\ req[p] \in Locals /\ pc \in [Requests -> Places] /\ box \in [Requests -> Boxes]
      /\ folder \in [Folders -> SUBSET Parts] /\ image \in [Containers -> Images]
      /\ req \in [Requests -> Locals]
  BY DEF TypeOK
<1>2. ASSUME NEW n \in Names, ArriveCreate(p, n)
      PROVE  {q \in Requests : pc'[q] \in Creating /\ req'[q].target = req'[p].target} = {p}
  <2>1. req'[p].target = ContainerOf[n] /\ Rivals(ContainerOf[n]) = {} BY <1>2, ArriveEffect
  <2>2. ASSUME NEW q \in Requests \ {p}, pc'[q] \in Creating, req'[q].target = ContainerOf[n]
        PROVE  FALSE
    <3>1. pc[q] \in Creating BY <1>2, <2>2, ArriveEffect
    <3>2. pc[q] # "idle" BY <3>1 DEF Creating
    <3>3. req[q].target = ContainerOf[n] BY <2>2, <3>2, Settled
    <3> QED BY <2>1, <3>1, <3>3 DEF Rivals
  <2> QED BY <2>1, <2>2
<1>3. ASSUME NEW n \in Names, ArriveCreate(p, n) PROVE pc'[p] = "port"
  BY <1>3, ArriveEffect
<1>4. ~\E op \in {"start", "stop", "delete"}, c \in Containers : ArriveRoute(p, op, c)
  BY RouteEffect DEF Creating
<1>5. pc'[p] # "failed" BY DEF Creating
<1>6. ASSUME Same(p) \/ Serve(p) \/ Raise(p)
      PROVE  /\ pc[p] \in Creating /\ pc[p] # "idle"
             /\ {q \in Requests : pc'[q] \in Creating /\ req'[q].target = req'[p].target} = {p}
             /\ pc[p] \in {"write", "send"} => "web" \in folder[req[p].folder]
             /\ pc[p] = "build" => req[p].context = "whole"
             /\ pc[p] \in {"find", "halt", "drop", "run"} => image[req[p].target] = "whole"
             /\ pc[p] \in {"boot", "clean", "rmdir"} =>
                  box[p].status = "removed" \/ box[p].image = "whole"
             /\ req'[p].target = req[p].target /\ req'[p].folder = req[p].folder
             /\ \/ folder'[req[p].folder] = folder[req[p].folder]
                \/ pc'[p] # pc[p]
             /\ image'[req[p].target] = image[req[p].target] \/ pc[p] = "build"
  <2>1. pc[p] \in Creating /\ req[p].alone
    <3>1. CASE Same(p) BY <3>1 DEF Same
    <3>2. CASE Serve(p) \/ Raise(p) BY <3>2, KeepsAlone
    <3> QED BY <1>6, <3>1, <3>2
  <2>2. AloneOK(p) BY DEF AllAlone
  <2>3. Rivals(req[p].target) = {p} BY <2>1, <2>2 DEF AloneOK
  <2>4. pc[p] # "idle" BY <2>1 DEF Creating
  <2>5. req'[p].target = req[p].target /\ req'[p].folder = req[p].folder BY <2>4, Settled
  <2>6. {q \in Requests : pc'[q] \in Creating /\ req'[q].target = req'[p].target} = {p}
    BY <2>1, <2>3, <2>5, NoRival
  <2>7. /\ \/ folder'[req[p].folder] = folder[req[p].folder]
           \/ pc'[p] # pc[p]
        /\ image'[req[p].target] = image[req[p].target] \/ pc[p] = "build"
    BY <2>1, <2>3, Undisturbed
  <2> QED BY <2>1, <2>2, <2>4, <2>5, <2>6, <2>7 DEF AloneOK, Folder
<1>7. CASE Same(p)
  <2>1. pc'[p] = pc[p] /\ req'[p].context = req[p].context BY <1>7 DEF Same
  <2>2. pc[p] = "build" => req'[p].context = "whole" BY <1>6, <1>7, <2>1
  <2>3. pc[p] \in {"boot", "clean", "rmdir"} =>
          box'[p].status = "removed" \/ box'[p].image = "whole"
    BY <1>6, <1>7, Remains
  <2> QED BY <1>6, <1>7, <2>1, <2>2, <2>3
<1>8. CASE Serve(p) \/ Raise(p)
  <2>1. Path(p, pc'[p], req'[p]) BY <1>8, ServeEffect
  <2>2. pc'[p] \in {"write", "send"} => "web" \in folder'[req'[p].folder]
    <3>1. pc'[p] = "write" => pc[p] = "copy" BY <2>1 DEF Path, Straight
    <3>2. pc'[p] = "send" => pc[p] = "write" BY <2>1 DEF Path, Straight
    <3>3. req[p].folder \in Folders BY <1>1 DEF Locals
    <3>4. ASSUME pc[p] = "copy" PROVE "web" \in folder'[req[p].folder]
      BY <1>1, <1>5, <1>8, <3>3, <3>4, ServeAt DEF CopyTemplate, Fill, Put, Fail, Go
    <3>5. ASSUME pc[p] = "write" PROVE "web" \in folder'[req[p].folder]
      <4>1. "web" \in folder[req[p].folder] BY <1>6, <1>8, <3>5
      <4> QED BY <1>1, <1>5, <1>8, <3>3, <3>5, <4>1, ServeAt
          DEF WriteDockerfile, Fill, Put, Fail, Go, Folder
    <3> QED BY <1>6, <1>8, <3>1, <3>2, <3>4, <3>5
  <2>3. pc'[p] = "build" => req'[p].context = "whole"
    <3>1. pc'[p] = "build" => pc[p] = "send" BY <2>1 DEF Path, Straight
    <3>2. ASSUME pc[p] = "send" PROVE req'[p].context = "whole"
      <4>1. "web" \in Folder(p) BY <1>6, <1>8, <3>2 DEF Folder
      <4>2. SendFolder(p) BY <1>5, <1>8, <3>2, ServeAt
      <4>3. req' = [req EXCEPT ![p].context = "whole"]
        BY <1>1, <1>5, <4>1, <4>2 DEF SendFolder, Fail, Go
      <4> QED BY <1>1, <4>3 DEF Locals
    <3> QED BY <3>1, <3>2
  <2>4. pc'[p] \in {"find", "halt", "drop", "run"} => image'[req'[p].target] = "whole"
    <3>1. pc'[p] \in {"find", "halt", "drop", "run"} =>
            pc[p] \in {"build", "find", "halt", "drop"}
      BY <2>1 DEF Path, Straight
    <3>2. ASSUME pc[p] = "build" PROVE image'[req[p].target] = "whole"
      <4>1. Build(p) BY <1>5, <1>8, <3>2, ServeAt
      <4>2. req[p].context = "whole" /\ req[p].target \in Containers
        BY <1>1, <1>6, <1>8, <3>2 DEF Locals
      <4> QED BY <1>1, <4>1, <4>2 DEF Build
    <3> QED BY <1>6, <1>8, <3>1, <3>2
  <2>5. pc'[p] \in {"boot", "clean", "rmdir"} =>
          box'[p].status = "removed" \/ box'[p].image = "whole"
    <3>1. /\ pc'[p] = "boot" => pc[p] = "run"
          /\ pc'[p] \in {"clean", "rmdir"} => pc[p] \in {"boot", "clean"}
      BY <2>1 DEF Path, Straight
    <3>2. ASSUME pc[p] = "run" PROVE box'[p].image = "whole"
      <4>1. RunCreates(p) BY <1>5, <1>8, <3>2, ServeAt
      <4>2. image[req[p].target] = "whole" BY <1>6, <1>8, <3>2
      <4>3. box' = [box EXCEPT ![p] = [status |-> "created", port |-> req[p].port,
                                       image |-> image[req[p].target]]]
        BY <1>1, <1>5, <4>1 DEF RunCreates, Fail, Go
      <4> QED BY <1>1, <4>2, <4>3
    <3>3. ASSUME pc[p] \in {"boot", "clean"}
          PROVE  box'[p].status = "removed" \/ box'[p].image = "whole"
      BY <1>6, <1>8, <3>3, Remains
    <3> QED BY <3>1, <3>2, <3>3
  <2> QED BY <1>6, <1>8, <2>2, <2>3, <2>4, <2>5
<1> QED BY <1>2, <1>3, <1>4, <1>5, <1>7, <1>8, Fates

LEMMA ServedStep ==
  ASSUME LifecycleAssumption, TypeOK, Locally, AllAlone, OkMeansServed, [Next]_vars
  PROVE  OkMeansServed'
<1> SUFFICES ASSUME NEW q \in Requests, req'[q].op = "create", pc'[q] = "ok"
             PROVE  \/ box'[q].status = "removed"
                    \/ /\ box'[q].status \in {"running", "exited"}
                       /\ req'[q].alone => box'[q].image = "whole"
  BY DEF OkMeansServed
<1>1. ASSUME req'[q].alone = req[q].alone,
             \/ box[q].status = "removed"
             \/ /\ box[q].status \in {"running", "exited"}
                /\ req[q].alone => box[q].image = "whole"
      PROVE  \/ box'[q].status = "removed"
             \/ /\ box'[q].status \in {"running", "exited"}
                /\ req'[q].alone => box'[q].image = "whole"
  BY <1>1, Remains
<1>2. CASE pc[q] = "ok"
  <2>1. req[q].op = "create" /\ req'[q].alone = req[q].alone BY <1>2, Settled DEF Ended
  <2> QED BY <1>1, <1>2, <2>1 DEF OkMeansServed
<1>3. CASE pc[q] # "ok"
  <2>1. Serve(q) \/ Raise(q) BY <1>3, Fates, ArriveEffect, RouteEffect DEF Same
  <2>2. Path(q, "ok", req'[q]) BY <2>1, ServeEffect
  <2>3. pc[q] \in {"rmdir", "up", "down", "remove", "force"} /\ req'[q] = Kept(q)
    BY <2>2 DEF Path, Straight
  <2>4. req[q].op = "create" /\ req'[q].alone = req[q].alone BY <2>3, KeptType
  <2>5. pc[q] = "rmdir" BY <2>3, <2>4 DEF Locally, LocalOK, Deleting
  <2>6. box[q].status \in {"running", "exited", "removed"} BY <2>5 DEF Locally, LocalOK
  <2>7. req[q].alone => box[q].status = "removed" \/ box[q].image = "whole"
    BY <2>5 DEF AllAlone, AloneOK, Creating
  <2> QED BY <1>1, <2>4, <2>6, <2>7
<1> QED BY <1>2, <1>3

\* The step by which a creation succeeds alone takes its folder away.
LEMMA CleanStep ==
  ASSUME LifecycleAssumption, TypeOK, Locally, [Next]_vars, NEW p \in Requests, NEW f,
         CleanSuccess(p, f)', pc[p] # "ok"
  PROVE  /\ Serve(p) \/ Raise(p)
         /\ pc[p] = "rmdir" /\ req[p].alone /\ req[p].folder = f
         /\ folder'[f] = {}
<1>1. req'[p].op = "create" /\ req'[p].folder = f /\ pc'[p] = "ok" /\ req'[p].alone
  BY DEF CleanSuccess
<1>2. Serve(p) \/ Raise(p) BY <1>1, Fates, ArriveEffect, RouteEffect DEF Same
<1>3. Path(p, "ok", req'[p]) BY <1>1, <1>2, ServeEffect
<1>4. pc[p] \in {"rmdir", "up", "down", "remove", "force"} /\ req'[p] = Kept(p)
  BY <1>3 DEF Path, Straight
<1>5. req[p].op = "create" /\ req[p].alone /\ req[p].folder = f BY <1>1, <1>4, KeptType
<1>6. pc[p] = "rmdir" BY <1>4, <1>5 DEF Locally, LocalOK, Deleting
<1>7. folder'[f] = {}
  <2>1. RemoveFolder(p) BY <1>1, <1>2, <1>6, ServeAt
  <2>2. Put(p, {}) BY <1>1, <2>1 DEF RemoveFolder, Fail, Go, TypeOK
  <2>3. req[p].folder \in DOMAIN folder BY DEF TypeOK, Locals
  <2> QED BY <1>5, <2>2, <2>3 DEF Put
<1> QED BY <1>2, <1>5, <1>6, <1>7

LEMMA OrderStep ==
  ASSUME LifecycleAssumption, TypeOK, Locally, AllAlone, InOrder, [Next]_vars
  PROVE  InOrder'
<1>1. ASSUME NEW q \in Requests, pc'[q] # "idle", NEW p \in 1..(q - 1)
      PROVE  pc'[p] # "idle"
  <2>1. p \in Requests BY DEF Requests, LifecycleAssumption
  <2>2. CASE pc[q] # "idle" BY <2>1, <2>2, Settled DEF InOrder
  <2>3. CASE pc[q] = "idle"
    <3>1. ~Same(q) /\ ~AtWork(q) BY <1>1, <2>3 DEF Same, AtWork
    <3>2. ~(Serve(q) \/ Raise(q)) BY <2>3, ServeEffect DEF Path, Straight, AtWork
    <3>3. Arrives(q) BY <3>1, <3>2, Fates DEF ArriveCreate, ArriveRoute
    <3> QED BY <2>1, <3>3, Settled DEF Arrives
  <2> QED BY <2>2, <2>3
<1>2. ASSUME NEW p \in Requests, NEW q \in Requests, CleanSuccess(p, req[q].folder)',
             pc'[q] \in Creating
      PROVE  p < q
  <2>1. pc'[p] = "ok" /\ req'[p].folder = req'[q].folder BY <1>2 DEF CleanSuccess
  <2>2. CASE pc[p] = "ok"
    <3>1. CleanSuccess(p, req'[q].folder)
      BY <1>2, <2>2, Settled DEF CleanSuccess, Ended
    <3>2. CASE pc[q] # "idle"
      <4>1. pc[q] \in Creating /\ req'[q].folder = req[q].folder BY <1>2, <3>2, Settled
      <4> QED BY <3>1, <4>1 DEF InOrder
    <3>3. CASE pc[q] = "idle"
      <4>1. q \notin 1..(p - 1) BY <2>2, <3>3 DEF InOrder
      <4>2. q # p BY <2>2, <3>3
      <4> QED BY <4>1, <4>2 DEF Requests, LifecycleAssumption
    <3> QED BY <3>2, <3>3
  <2>3. CASE pc[p] # "ok"
    <3>1. /\ Serve(p) \/ Raise(p)
          /\ pc[p] = "rmdir" /\ req[p].alone /\ req[p].folder = req'[q].folder
      BY <1>2, <2>3, CleanStep
    <3>2. q # p BY <1>2, <2>1 DEF Creating
    <3>3. pc[q] \in Creating /\ req[q].folder = req[p].folder
      BY <1>2, <3>1, <3>2, ServeEffect
    <3>4. Rivals(req[p].target) = {p} BY <3>1 DEF AllAlone, AloneOK, Creating
    <3> QED BY <3>1, <3>2, <3>3, <3>4, FolderToItself DEF Creating
  <2> QED BY <2>2, <2>3
<1> QED BY <1>1, <1>2 DEF InOrder

LEMMA FolderKept ==
  ASSUME LifecycleAssumption, TypeOK, Locally, InOrder', FolderLeftByFailure, [Next]_vars
  PROVE  FolderLeftByFailure'
<1> SUFFICES ASSUME NEW f \in Folders, folder'[f] # {}
             PROVE  \E q \in Requests :
                      /\ req'[q].op = "create" /\ req'[q].folder = f
                      /\ pc'[q] \in (Creating \ {"port", "mkdir"}) \cup {"failed"}
                      /\ \A p \in Requests : CleanSuccess(p, f)' => p < q
  BY DEF FolderLeftByFailure
<1>1. CASE folder'[f] = folder[f]
  <2>1. PICK q \in Requests :
          /\ req[q].op = "create" /\ req[q].folder = f
          /\ pc[q] \in (Creating \ {"port", "mkdir"}) \cup {"failed"}
          /\ \A p \in Requests : CleanSuccess(p, f) => p < q
    BY <1>1 DEF FolderLeftByFailure
  <2>2. pc[q] # "idle" BY <2>1 DEF Creating
  <2>3. req'[q].op = "create" /\ req'[q].folder = f BY <2>1, <2>2, Settled
  <2>4. pc'[q] \in (Creating \ {"port", "mkdir"}) \cup {"failed"}
    <3>1. CASE Same(q) BY <2>1, <3>1 DEF Same
    <3>2. CASE Serve(q) \/ Raise(q)
      <4>1. Path(q, pc'[q], req'[q]) BY <3>2, ServeEffect
      <4>2. /\ pc[q] # "failed"
            /\ pc[q] \in Creating \ {"port", "mkdir"} =>
                 \/ pc'[q] \in (Creating \ {"port", "mkdir"}) \cup {"failed"}
                 \/ pc[q] = "rmdir" /\ pc'[q] = "ok"
        BY <4>1 DEF Path, Straight, Creating, AtWork, Ended
      <4>3. ASSUME pc[q] = "rmdir", pc'[q] = "ok" PROVE FALSE
        <5>1. RemoveFolder(q) BY <3>2, <4>3, ServeAt
        <5>2. Put(q, {}) BY <4>3, <5>1 DEF RemoveFolder, Fail, Go, TypeOK
        <5> QED BY <2>1, <5>2 DEF Put, TypeOK
      <4> QED BY <2>1, <4>2, <4>3
    <3>3. CASE pc'[q] = "failed" BY <3>3
    <3> QED BY <2>2, <3>1, <3>2, <3>3, Fates, ArriveEffect, RouteEffect
  <2>5. ASSUME NEW p \in Requests, CleanSuccess(p, f)' PROVE p < q
    <3>1. pc[p] = "ok" BY <2>5, CleanStep
    <3>2. CleanSuccess(p, f) BY <2>5, <3>1, Settled DEF CleanSuccess, Ended
    <3> QED BY <2>1, <3>2
  <2> QED BY <2>3, <2>4, <2>5
<1>2. CASE folder'[f] # folder[f]
  <2>1. PICK q \in Requests :
          /\ pc[q] \in Creating /\ req[q].folder = f
          /\ pc'[q] \in {"copy", "write", "send", "rmdir"}
    BY <1>2, FolderStep
  <2>2. req[q].op = "create" /\ pc[q] # "idle" BY <2>1 DEF Locally, LocalOK, Creating
  <2>3. req'[q].op = "create" /\ req'[q].folder = f BY <2>1, <2>2, Settled
  <2>4. pc'[q] \in Creating \ {"port", "mkdir"} BY <2>1 DEF Creating
  <2>5. \A p \in Requests : CleanSuccess(p, f)' => p < q BY <2>3, <2>4 DEF InOrder
  <2> QED BY <2>3, <2>4, <2>5
<1> QED BY <1>1, <1>2

-----------------------------------------------------------------------------
LEMMA InvInit == ASSUME LifecycleAssumption, Init PROVE Inv
<1>1. Blank \in Locals BY BlankType
<1>2. Blank.op = "none" /\ Blank.seen = 0 /\ Blank.harmed = {} BY DEF Blank
<1>3. NoBox \in Boxes /\ NoBox.status = "absent"
  BY DEF NoBox, Boxes, Images, LifecycleAssumption
<1>4. \A q \in Requests : pc[q] = "idle" /\ req[q] = Blank /\ box[q] = NoBox BY DEF Init
<1>5. TypeOK
  <2>1. foreign \subseteq 1..MaxPort BY DEF Init, LifecycleAssumption
  <2>2. /\ folder \in [Folders -> SUBSET Parts] /\ image \in [Containers -> Images]
        /\ pc \in [Requests -> Places]
    BY DEF Init, Images, Places
  <2>3. box \in [Requests -> Boxes] BY <1>3 DEF Init
  <2>4. req \in [Requests -> Locals] BY <1>1 DEF Init
  <2> QED BY <2>1, <2>2, <2>3, <2>4 DEF TypeOK
<1>6. ASSUME NEW q \in Requests PROVE LocalOK(q) /\ SeenOK(q) /\ AloneOK(q)
  <2>1. pc[q] = "idle" /\ req[q].seen = 0 /\ req[q].harmed = {} /\ box[q].status = "absent"
    BY <1>2, <1>3, <1>4
  <2>2. LocalOK(q) BY <2>1 DEF LocalOK, Creating, Deleting, Ended
  <2>3. SeenOK(q) BY <2>1 DEF SeenOK, Requests
  <2>4. AloneOK(q) BY <2>1 DEF AloneOK, Creating
  <2> QED BY <2>2, <2>3, <2>4
<1>7. OkMeansServed /\ DeletedIsGone BY <1>4 DEF OkMeansServed, DeletedIsGone
<1>8. OldOutlivesBuild BY <1>2, <1>4 DEF OldOutlivesBuild
<1>9. FolderLeftByFailure BY DEF FolderLeftByFailure, Init
<1>10. InOrder BY <1>4 DEF InOrder, CleanSuccess
<1> QED BY <1>5, <1>6, <1>7, <1>8, <1>9, <1>10 DEF Inv

LEMMA InvNext == ASSUME LifecycleAssumption, Inv, [Next]_vars PROVE Inv'
<1>1. /\ TypeOK /\ Locally /\ AllSeen /\ AllAlone /\ InOrder
      /\ OkMeansServed /\ DeletedIsGone /\ OldOutlivesBuild /\ FolderLeftByFailure
  BY DEF Inv, Locally, AllSeen, AllAlone
<1>2. TypeOK' /\ Locally' /\ AllSeen' /\ AllAlone' /\ InOrder'
  BY <1>1, TypeStep, LocalStep, SeenStep, AloneStep, OrderStep
<1>3. OkMeansServed' /\ DeletedIsGone' /\ OldOutlivesBuild' /\ FolderLeftByFailure'
  BY <1>1, <1>2, ServedStep, DeletedStep, BuildFirstStep, FolderKept
<1> QED BY <1>2, <1>3 DEF Inv, Locally, AllSeen, AllAlone

\* The invariant holds in every reachable state.
THEOREM Invariance == Spec => []Inv
<1>1. Init => Inv BY LifecycleAssumption, InvInit
<1>2. Inv /\ [Next]_vars => Inv' BY LifecycleAssumption, InvNext
<1> QED BY <1>1, <1>2, PTL DEF Spec

\* All state stays in its types: ports below the last, contents of folders,
\* images and containers.
THEOREM TypeCorrect == Spec => []TypeOK
<1>1. Inv => TypeOK BY DEF Inv
<1> QED BY <1>1, Invariance, PTL

\* What create_project reports as created was started, with the template in its
\* image unless another creation of the same container came in between.
THEOREM CreatedIsServed == Spec => []OkMeansServed
<1>1. Inv => OkMeansServed BY DEF Inv
<1> QED BY <1>1, Invariance, PTL

\* What delete_container reports as deleted stays removed.
THEOREM DeletionIsReal == Spec => []DeletedIsGone
<1>1. Inv => DeletedIsGone BY DEF Inv
<1> QED BY <1>1, Invariance, PTL

\* create_container touches the old container only with a new image at hand.
THEOREM BuildBeforeReplacing == Spec => []OldOutlivesBuild
<1>1. Inv => OldOutlivesBuild BY DEF Inv
<1> QED BY <1>1, Invariance, PTL

\* A build folder that is there is in use or was left by a failed creation, and
\* no creation of its project has succeeded by itself since.
THEOREM FoldersAccountedFor == Spec => []FolderLeftByFailure
<1>1. Inv => FolderLeftByFailure BY DEF Inv
<1> QED BY <1>1, Invariance, PTL

-----------------------------------------------------------------------------
(* No request goes round in circles. *)

\* The place of a request in its route, in the order of the code.
Stage(place) ==
  CASE place = "idle" -> 0
    [] place \in {"port", "get"} -> 1
    [] place \in {"mkdir", "up", "down", "stop"} -> 2
    [] place \in {"copy", "remove"} -> 3 [] place \in {"write", "force"} -> 4
    [] place = "send" -> 5 [] place = "build" -> 6 [] place = "find" -> 7
    [] place = "halt" -> 8 [] place = "drop" -> 9  [] place = "run" -> 10
    [] place = "boot" -> 11 [] place = "clean" -> 12 [] place = "rmdir" -> 13
    [] place \in Ended -> 14

\* The request comes to a later place, or its search to the next port.  Places
\* are finitely many, and there is no port beyond MaxPort + 1 to search.
Progresses(q) ==
  \/ Stage(pc'[q]) > Stage(pc[q])
  \/ /\ pc[q] = "port" /\ pc'[q] = "port"
     /\ req[q].port <= MaxPort /\ req'[q].port = req[q].port + 1

Stands(q) == pc'[q] = pc[q] /\ req'[q].port = req[q].port

Forward ==
  \A q \in Requests : /\ Serve(q) \/ Raise(q) => Progresses(q)
                      /\ Progresses(q) \/ Stands(q)

LEMMA PathProgresses ==
  ASSUME LifecycleAssumption, TypeOK, NEW q \in Requests, Path(q, pc'[q], req'[q])
  PROVE  Progresses(q)
<1>1. req[q] \in Locals /\ pc[q] \in Places BY DEF TypeOK
<1>2. CASE pc[q] = "port" /\ pc'[q] = "port"
  <2>1. req[q].port <= MaxPort /\ req'[q] = [req[q] EXCEPT !.port = @ + 1]
    BY <1>2 DEF Path, Straight
  <2> QED BY <1>1, <1>2, <2>1 DEF Progresses, Locals
<1>3. CASE AtWork(q) /\ pc'[q] \in Ended
  BY <1>1, <1>3 DEF Progresses, Stage, AtWork, Places, Creating, Deleting, Ended
<1>4. CASE <<pc[q], pc'[q]>> \in Straight
  BY <1>4 DEF Progresses, Stage, Straight, Ended
<1>5. CASE <<pc[q], pc'[q]>> \in
             {<<"send", "build">>, <<"build", "find">>, <<"find", "halt">>, <<"get", "up">>,
              <<"get", "down">>, <<"get", "stop">>, <<"get", "remove">>, <<"halt", "drop">>,
              <<"drop", "run">>}
  BY <1>5 DEF Progresses, Stage, Ended
<1> QED BY <1>2, <1>3, <1>4, <1>5 DEF Path, AtWork, Ended

\* Neither the search for a port nor the second stage of a deletion, nor a
\* failing call, takes a request back: each of its own steps brings it on, and
\* nothing that others do, a restart included, puts it back.
THEOREM RequestsProgress == Spec => [][Forward]_vars
<1>1. ASSUME LifecycleAssumption, Inv, [Next]_vars, NEW q \in Requests
      PROVE  /\ Serve(q) \/ Raise(q) => Progresses(q)
             /\ Progresses(q) \/ Stands(q)
  <2>1. TypeOK /\ Locally /\ pc[q] \in Places BY <1>1 DEF Inv, Locally, TypeOK
  <2>2. ASSUME Serve(q) \/ Raise(q) PROVE Progresses(q)
    BY <1>1, <2>1, <2>2, ServeEffect, PathProgresses
  <2>3. ASSUME Same(q) PROVE Stands(q) BY <2>3 DEF Same, Stands
  <2>4. ASSUME NEW n \in Names, ArriveCreate(q, n) PROVE Progresses(q)
    BY <1>1, <2>1, <2>4, ArriveEffect DEF Progresses, Stage, Ended
  <2>5. ASSUME NEW op \in {"start", "stop", "delete"}, NEW c \in Containers,
               ArriveRoute(q, op, c)
        PROVE  Progresses(q)
    BY <1>1, <2>1, <2>5, RouteEffect DEF Progresses, Stage, Ended
  <2>6. CASE AtWork(q) /\ pc'[q] = "failed"
    BY <2>1, <2>6 DEF Progresses, Stage, AtWork, Places, Creating, Deleting, Ended
  <2> QED BY <1>1, <2>1, <2>2, <2>3, <2>4, <2>5, <2>6, Fates
<1>2. Inv /\ [Next]_vars => [Forward]_vars
  BY <1>1, LifecycleAssumption DEF Forward
<1> QED BY <1>2, Invariance, PTL DEF Spec
=============================================================================
