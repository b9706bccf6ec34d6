------------------------- MODULE ContainerLifecycle -------------------------
(***************************************************************************)
(* The projects of system.py and the routes of app.py that create, start,  *)
(* stop and delete them.  Flask serves every request on a thread of its    *)
(* own, so requests interleave between any two calls of Docker or of the   *)
(* file system; nothing locks the build folder, the image or the container *)
(* of a project.                                                           *)
(*                                                                         *)
(* Data.  A container is known by the request that made it, which stands   *)
(* for Docker's id.  Two project names that differ in case have the same   *)
(* container and image; whether they share a build folder is up to the     *)
(* host.  Ports count from 1 (start_port) to MaxPort (65535 in the code).  *)
(***************************************************************************)
EXTENDS Naturals, FiniteSets

CONSTANTS Names,        \* project names
          Containers,   \* container names, with their image tags
          Folders,      \* build folders
          ContainerOf,  \* ai-web-ide_<name in lower case>_container
          FolderOf,     \* ./ai-web-ide_<name>
          MaxRequests,  \* bound: requests to the server
          MaxCreates,   \* bound: those that create a project
          MaxPort,      \* bound: the last port
          Contested     \* bound: ports that another program may hold

ASSUME LifecycleAssumption ==
  /\ Containers # {} /\ Folders # {}
  /\ ContainerOf \in [Names -> Containers] /\ FolderOf \in [Names -> Folders]
  /\ \A m, n \in Names : FolderOf[m] = FolderOf[n] => ContainerOf[m] = ContainerOf[n]
  /\ MaxRequests \in Nat /\ MaxCreates \in Nat /\ MaxPort \in Nat
  /\ Contested \subseteq 1..MaxPort

VARIABLES
  foreign, \* ports held by other programs
  folder,  \* what a build folder holds; {} if there is none
  image,   \* image of each tag: none, or with or without the template
  box,     \* Docker's containers
  pc,      \* where each request is
  req      \* its operation and local variables

vars == <<foreign, folder, image, box, pc, req>>

Requests == 1..MaxRequests

NoBox == [status |-> "absent", port |-> 0, image |-> "none"]
Blank == [op |-> "none", target |-> CHOOSE c \in Containers : TRUE,
          folder |-> CHOOSE f \in Folders : TRUE, port |-> 0, context |-> "none",
          seen |-> 0, alone |-> TRUE, built |-> FALSE, harmed |-> {}]

Init ==
  /\ foreign \in SUBSET Contested
  /\ folder = [f \in Folders |-> {}]
  /\ image = [c \in Containers |-> "none"]
  /\ box = [i \in Requests |-> NoBox]
  /\ pc = [q \in Requests |-> "idle"]
  /\ req = [q \in Requests |-> Blank]

-----------------------------------------------------------------------------
(* Docker, as far as the code uses it. *)

Exists(i) == box[i].status \in {"created", "running", "exited"}
Named(c)  == {i \in Requests : Exists(i) /\ req[i].target = c}

\* A port that bind refuses: a running container or another program has it.
Busy(p) == p \in foreign \/ \E i \in Requests : box[i].status = "running" /\ box[i].port = p

Remove(i) == box' = [box EXCEPT ![i] = [NoBox EXCEPT !.status = "removed"]]

SetStatus(i, status) == box' = [box EXCEPT ![i].status = status]

\* Stopping a container that does not run is no error.
Halt(i) == SetStatus(i, IF box[i].status = "running" THEN "exited" ELSE box[i].status)

-----------------------------------------------------------------------------
(* Requests. *)

Creating == {"port", "mkdir", "copy", "write", "send", "build", "find", "halt", "drop",
             "run", "boot", "clean", "rmdir"}
Deleting == {"stop", "remove", "force"}
Ended    == {"ok", "failed"}

AtWork(q) == pc[q] \notin Ended \cup {"idle"}

\* Those creating container c at this moment.
Rivals(c) == {p \in Requests : pc[p] \in Creating /\ req[p].target = c}

\* Requests are numbered as they arrive.
Arrives(q) == pc[q] = "idle" /\ \A p \in 1..(q - 1) : pc[p] # "idle"

\* create_project.  alone is a history variable: no other creation of the
\* container has overlapped with this one.
ArriveCreate(q, n) ==
  /\ Arrives(q)
  /\ Cardinality({p \in Requests : req[p].op = "create"}) < MaxCreates
  /\ pc' = [pc EXCEPT ![q] = "port"]
  /\ LET rivals == Rivals(ContainerOf[n])
     IN req' = [p \in Requests |->
                  IF p = q THEN [Blank EXCEPT !.op = "create", !.target = ContainerOf[n],
                                   !.folder = FolderOf[n], !.port = 1, !.alone = rivals = {}]
                  ELSE [req[p] EXCEPT !.alone = @ /\ p \notin rivals]]
  /\ UNCHANGED <<foreign, folder, image, box>>

\* start_container_route, stop_container_route and delete_container_route.
ArriveRoute(q, op, c) ==
  /\ Arrives(q)
  /\ pc' = [pc EXCEPT ![q] = "get"]
  /\ req' = [req EXCEPT ![q] = [Blank EXCEPT !.op = op, !.target = c]]
  /\ UNCHANGED <<foreign, folder, image, box>>

Go(q, step) == pc' = [pc EXCEPT ![q] = step]

\* What is left of a request when its thread is gone.  A success keeps what
\* the properties speak of.
Dead(r) == [Blank EXCEPT !.op = r.op, !.target = r.target, !.folder = r.folder]

Succeed(q) ==
  /\ Go(q, "ok")
  /\ req' = [req EXCEPT ![q] = [Dead(@) EXCEPT !.seen = req[q].seen, !.alone = req[q].alone]]

Fail(q) == Go(q, "failed") /\ req' = [req EXCEPT ![q] = Dead(@)]

Harm(q) == req' = [req EXCEPT ![q].harmed = @ \cup {req[q].seen}]

-----------------------------------------------------------------------------
(* create_container. *)

Folder(q) == folder[req[q].folder]

Put(q, parts) == folder' = [folder EXCEPT ![req[q].folder] = parts]

\* Faulty variant: the search does not move on.
TryPortStuck(q) ==
  /\ pc[q] = "port"
  /\ IF Busy(req[q].port) THEN UNCHANGED <<pc, req>> ELSE Go(q, "mkdir") /\ UNCHANGED req
  /\ UNCHANGED <<foreign, folder, image, box>>

\* Faulty variant: nothing ends the search.
TryPortEndless(q) ==
  /\ pc[q] = "port"
  /\ IF req[q].port > MaxPort \/ Busy(req[q].port)
     THEN req' = [req EXCEPT ![q].port = @ + 1] /\ UNCHANGED pc
     ELSE Go(q, "mkdir") /\ UNCHANGED req
  /\ UNCHANGED <<foreign, folder, image, box>>

\* find_available_port asks for one port after the other; beyond the last one
\* bind raises OverflowError, which is no OSError.
TryPort(q) ==
  /\ pc[q] = "port"
  /\ \/ /\ req[q].port <= MaxPort /\ Busy(req[q].port)
        /\ req' = [req EXCEPT ![q].port = @ + 1]
        /\ UNCHANGED pc
     \/ /\ req[q].port <= MaxPort /\ ~Busy(req[q].port)
        /\ Go(q, "mkdir")
        /\ UNCHANGED req
     \/ req[q].port > MaxPort /\ Fail(q)
  /\ UNCHANGED <<foreign, folder, image, box>>

\* A folder left by an earlier failure is used again.
MakeFolder(q) ==
  /\ pc[q] = "mkdir"
  /\ Put(q, Folder(q) \cup {"dir"})
  /\ Go(q, "copy")
  /\ UNCHANGED <<foreign, image, box, req>>

\* The folder may be gone by the rmtree of another creation.
Fill(q, part, next) ==
  /\ IF Folder(q) = {} THEN Fail(q) /\ UNCHANGED folder
     ELSE Put(q, Folder(q) \cup {part}) /\ Go(q, next) /\ UNCHANGED req
  /\ UNCHANGED <<foreign, image, box>>

CopyTemplate(q)    == pc[q] = "copy" /\ Fill(q, "web", "write")
WriteDockerfile(q) == pc[q] = "write" /\ Fill(q, "Dockerfile", "send")

\* Faulty variant: the end of the build is not awaited.
SendFolderOnly(q) ==
  /\ pc[q] = "send"
  /\ IF "Dockerfile" \notin Folder(q) THEN Fail(q)
     ELSE Go(q, "find") /\ UNCHANGED req
  /\ UNCHANGED <<foreign, folder, image, box>>

\* images.build sends the folder as it is now; without a Dockerfile it fails.
SendFolder(q) ==
  /\ pc[q] = "send"
  /\ IF "Dockerfile" \notin Folder(q) THEN Fail(q)
     ELSE /\ req' = [req EXCEPT ![q].context =
                       IF "web" \in Folder(q) THEN "whole" ELSE "bare"]
          /\ Go(q, "build")
  /\ UNCHANGED <<foreign, folder, image, box>>

Build(q) ==
  /\ pc[q] = "build"
  /\ image' = [image EXCEPT ![req[q].target] = req[q].context]
  /\ req' = [req EXCEPT ![q].built = TRUE]
  /\ Go(q, "find")
  /\ UNCHANGED <<foreign, folder, box>>

FindOld(q) ==
  /\ pc[q] = "find"
  /\ IF Named(req[q].target) = {} THEN Go(q, "run") /\ UNCHANGED req
     ELSE \E i \in Named(req[q].target) : req' = [req EXCEPT ![q].seen = i] /\ Go(q, "halt")
  /\ UNCHANGED <<foreign, folder, image, box>>

\* NotFound at any of the three calls ends the search.
HaltOld(q) ==
  /\ pc[q] = "halt"
  /\ IF Exists(req[q].seen) THEN Halt(req[q].seen) /\ Harm(q) /\ Go(q, "drop")
     ELSE Go(q, "run") /\ UNCHANGED <<box, req>>
  /\ UNCHANGED <<foreign, folder, image>>

\* Docker does not remove a container that was started meanwhile.
DropOld(q) ==
  /\ pc[q] = "drop"
  /\ IF ~Exists(req[q].seen) THEN Go(q, "run") /\ UNCHANGED <<box, req>>
     ELSE IF box[req[q].seen].status = "running" THEN Fail(q) /\ UNCHANGED box
     ELSE Remove(req[q].seen) /\ Harm(q) /\ Go(q, "run")
  /\ UNCHANGED <<foreign, folder, image>>

\* containers.run creates the container and starts it; a name in use is an error.
RunCreates(q) ==
  /\ pc[q] = "run"
  /\ IF Named(req[q].target) # {} THEN Fail(q) /\ UNCHANGED box
     ELSE /\ box' = [box EXCEPT ![q] = [status |-> "created", port |-> req[q].port,
                                        image |-> image[req[q].target]]]
          /\ Go(q, "boot") /\ UNCHANGED req
  /\ UNCHANGED <<foreign, folder, image>>

\* Faulty variant: the port is not looked at.
MayStartAnyway(i) == Exists(i)

\* Docker starts a container if its port is free; one that runs is left alone.
MayStart(i) == Exists(i) /\ (box[i].status = "running" \/ ~Busy(box[i].port))

\* Faulty variant: the container is created, whether it starts or not.
RunStartsMaybe(q) ==
  /\ pc[q] = "boot"
  /\ IF MayStart(q) THEN SetStatus(q, "running") ELSE UNCHANGED box
  /\ Go(q, "clean") /\ UNCHANGED <<foreign, folder, image, req>>

\* If the port is taken by now, the container stays as it was created.
RunStarts(q) ==
  /\ pc[q] = "boot"
  /\ IF MayStart(q) THEN SetStatus(q, "running") /\ Go(q, "clean") /\ UNCHANGED req
     ELSE Fail(q) /\ UNCHANGED box
  /\ UNCHANGED <<foreign, folder, image>>

\* rmtree: first what is in the folder, then the folder.
Clean(q) ==
  /\ pc[q] = "clean"
  /\ IF Folder(q) = {} THEN Fail(q) /\ UNCHANGED folder
     ELSE Put(q, {"dir"}) /\ Go(q, "rmdir") /\ UNCHANGED req
  /\ UNCHANGED <<foreign, image, box>>

\* Faulty variant: only the content of the folder is removed.
RemoveNoFolder(q) ==
  /\ pc[q] = "rmdir"
  /\ Succeed(q)
  /\ UNCHANGED <<foreign, folder, image, box>>

RemoveFolder(q) ==
  /\ pc[q] = "rmdir"
  /\ IF Folder(q) = {"dir"} THEN Put(q, {}) /\ Succeed(q)
     ELSE Fail(q) /\ UNCHANGED folder
  /\ UNCHANGED <<foreign, image, box>>

Create(q) ==
  \/ TryPort(q) \/ MakeFolder(q) \/ CopyTemplate(q) \/ WriteDockerfile(q)
  \/ SendFolder(q) \/ Build(q) \/ FindOld(q) \/ HaltOld(q) \/ DropOld(q)
  \/ RunCreates(q) \/ RunStarts(q) \/ Clean(q) \/ RemoveFolder(q)

-----------------------------------------------------------------------------
(* start_container, stop_container, delete_container. *)

\* delete_container stops a container whose status, as it was read, is running.
Get(q) ==
  /\ pc[q] = "get"
  /\ IF Named(req[q].target) = {} THEN Fail(q)
     ELSE \E i \in Named(req[q].target) :
            /\ req' = [req EXCEPT ![q].seen = i]
            /\ Go(q, CASE req[q].op = "start" -> "up"
                       [] req[q].op = "stop" -> "down"
                       [] OTHER -> IF box[i].status = "running" THEN "stop" ELSE "remove")
  /\ UNCHANGED <<foreign, folder, image, box>>

Start(q) ==
  /\ pc[q] = "up"
  /\ IF MayStart(req[q].seen) THEN SetStatus(req[q].seen, "running") /\ Succeed(q)
     ELSE Fail(q) /\ UNCHANGED box
  /\ UNCHANGED <<foreign, folder, image>>

Stop(q) ==
  /\ pc[q] = "down"
  /\ IF Exists(req[q].seen) THEN Halt(req[q].seen) /\ Succeed(q)
     ELSE Fail(q) /\ UNCHANGED box
  /\ UNCHANGED <<foreign, folder, image>>

\* Whatever the first stage raises leads to the second.
DeleteStops(q) ==
  /\ pc[q] = "stop"
  /\ IF Exists(req[q].seen) THEN Halt(req[q].seen) /\ Go(q, "remove")
     ELSE Go(q, "force") /\ UNCHANGED box
  /\ UNCHANGED <<foreign, folder, image, req>>

\* Faulty variant: there is no second stage.
DeleteRemovesOnce(q) ==
  /\ pc[q] = "remove"
  /\ IF Exists(req[q].seen) /\ box[req[q].seen].status # "running"
     THEN Remove(req[q].seen) ELSE UNCHANGED box
  /\ Succeed(q)
  /\ UNCHANGED <<foreign, folder, image>>

DeleteRemoves(q) ==
  /\ pc[q] = "remove"
  /\ IF Exists(req[q].seen) /\ box[req[q].seen].status # "running"
     THEN Remove(req[q].seen) /\ Succeed(q)
     ELSE Go(q, "force") /\ UNCHANGED <<box, req>>
  /\ UNCHANGED <<foreign, folder, image>>

DeleteForces(q) ==
  /\ pc[q] = "force"
  /\ IF Exists(req[q].seen) THEN Remove(req[q].seen) /\ Succeed(q)
     ELSE Fail(q) /\ UNCHANGED box
  /\ UNCHANGED <<foreign, folder, image>>

Route(q) ==
  \/ Get(q) \/ Start(q) \/ Stop(q)
  \/ DeleteStops(q) \/ DeleteRemoves(q) \/ DeleteForces(q)

-----------------------------------------------------------------------------
(* Faults. *)

\* Any call of Docker or of the file system may raise.
Raise(q) ==
  /\ \/ pc[q] \in (Creating \ {"port"}) \cup {"get", "up", "down", "force"} /\ Fail(q)
     \/ pc[q] \in {"stop", "remove"} /\ Go(q, "force") /\ UNCHANGED req
  /\ UNCHANGED <<foreign, folder, image, box>>

\* nginx ends, or Docker is restarted.
Exit(i) ==
  /\ box[i].status = "running"
  /\ SetStatus(i, "exited")
  /\ UNCHANGED <<foreign, folder, image, pc, req>>

\* The server is restarted: its threads are gone, Docker and the disk stay.
Restart ==
  /\ \E q \in Requests : AtWork(q)
  /\ pc' = [q \in Requests |-> IF AtWork(q) THEN "failed" ELSE pc[q]]
  /\ req' = [q \in Requests |-> IF AtWork(q) THEN Dead(req[q]) ELSE req[q]]
  /\ UNCHANGED <<foreign, folder, image, box>>

-----------------------------------------------------------------------------
Serve(q) == Create(q) \/ Route(q)

Next ==
  \/ \E q \in Requests :
       \/ \E n \in Names : ArriveCreate(q, n)
       \/ \E op \in {"start", "stop", "delete"}, c \in Containers : ArriveRoute(q, op, c)
       \/ Serve(q) \/ Raise(q) \/ Exit(q)
  \/ Restart

Spec == Init /\ [][Next]_vars

\* Threads are scheduled and every call returns or raises.
FairSpec == Spec /\ \A q \in Requests : WF_vars(Serve(q))

-----------------------------------------------------------------------------
(* Properties. *)

Parts  == {"dir", "web", "Dockerfile"}
Images == {"none", "bare", "whole"}
Boxes  == [status : {"absent", "created", "running", "exited", "removed"},
           port : 0..MaxPort, image : Images]
Places == {"idle", "get", "up", "down"} \cup Creating \cup Deleting \cup Ended
Locals == [op : {"none", "create", "start", "stop", "delete"}, target : Containers,
           folder : Folders, port : 0..(MaxPort + 1), context : Images,
           seen : 0..MaxRequests, alone : BOOLEAN, built : BOOLEAN,
           harmed : SUBSET Requests]

TypeOK ==
  /\ foreign \subseteq 1..MaxPort
  /\ folder \in [Folders -> SUBSET Parts]
  /\ image \in [Containers -> Images]
  /\ box \in [Requests -> Boxes]
  /\ pc \in [Requests -> Places]
  /\ req \in [Requests -> Locals]

\* A project reported as created has been started, and its image holds the
\* template if no other creation of the same container came in between: not
\* even the rests of a creation that failed before spoil it.
OkMeansServed ==
  \A q \in Requests :
    req[q].op = "create" /\ pc[q] = "ok" =>
      \/ box[q].status = "removed"
      \/ box[q].status \in {"running", "exited"} /\ (req[q].alone => box[q].image = "whole")

\* A container reported as deleted is gone, whichever stage of the deletion did
\* it and whoever started, stopped or replaced it meanwhile.
DeletedIsGone ==
  \A q \in Requests :
    req[q].op = "delete" /\ pc[q] = "ok" => box[req[q].seen].status = "removed"

\* A creation stops and removes nothing but an older container of its own name,
\* and that only once its own image is built: a failing build costs nothing.
OldOutlivesBuild ==
  \A q \in Requests : \A i \in req[q].harmed :
    req[q].built /\ i # q /\ req[i].target = req[q].target

CleanSuccess(p, f) ==
  req[p].op = "create" /\ req[p].folder = f /\ pc[p] = "ok" /\ req[p].alone

\* A creation that fails leaves its build folder behind; one that succeeds with
\* no other beside it also takes away what earlier ones left.  A folder that is
\* there is being used, or was left by a failure after the last such success.
FolderLeftByFailure ==
  \A f \in Folders :
    folder[f] # {} =>
      \E q \in Requests :
        /\ req[q].op = "create" /\ req[q].folder = f
        /\ pc[q] \in (Creating \ {"port", "mkdir"}) \cup {"failed"}
        /\ \A p \in Requests : CleanSuccess(p, f) => p < q

\* Every request is answered, or lost with the server: from some time on, as
\* requests are bounded, none is at work.
RequestsEnd == <>[](\A q \in Requests : ~AtWork(q))

\* No two projects that were created with success have the same port.
PortsDistinct ==
  \A i, j \in Requests :
    i # j /\ Exists(i) /\ Exists(j) /\ pc[i] = "ok" /\ pc[j] = "ok"
    => box[i].port # box[j].port

\* Two created projects may have one port, but only while one of them is stopped:
\* whatever calls come between the search for a port and its use, the projects
\* that run never clash.
ClashNeedsStopped ==
  \A i, j \in Requests :
    i # j /\ Exists(i) /\ Exists(j) /\ pc[i] = "ok" /\ pc[j] = "ok" /\ box[i].port = box[j].port
    => "exited" \in {box[i].status, box[j].status}

Contract == INSTANCE ProjectContract WITH
  Ports  <- 1..MaxPort,
  life   <- [i \in Requests |-> box[i].status],
  port   <- [i \in Requests |-> box[i].port],
  op     <- [q \in Requests |-> req[q].op],
  name   <- [q \in Requests |-> req[q].target],
  answer <- [q \in Requests |-> IF AtWork(q) THEN "waiting" ELSE pc[q]]

\* The routes keep the promise of ProjectContract: with all their interleaved
\* calls, looked-up containers and second stages, a request does to the
\* containers only what it was asked for and has not yet answered.
KeepsContract == Contract!Spec
=============================================================================
