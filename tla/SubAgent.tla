------------------------------ MODULE SubAgent ------------------------------
(***************************************************************************)
(* The edit pipeline of Functions/sub_agent.py.  Every edit_request starts *)
(* one run of run_sub_agent_edit_task, an "editor": it asks the model for  *)
(* a TODO list per language, turns each TODO into a unified diff, tests    *)
(* the diff with a dry run in the container and applies it there.          *)
(*                                                                         *)
(* Several editors may work on one container, because Flask serves every   *)
(* chat request on a thread of its own and nothing locks the container.    *)
(* They share the three web files and the two scratch files                *)
(* /tmp/test_patch.diff and /tmp/patch.diff.  The routes of app.py may     *)
(* stop, start, delete and re-create the container at any moment.          *)
(*                                                                         *)
(* Data.  A web file is a function from Regions (what a hunk may touch) to *)
(* values: Orig, the template's text, or the TODO whose diff wrote the     *)
(* region last.  A diff replaces some places of any of the three files,    *)
(* because its own headers name the files and patch is told no target; a   *)
(* diff may replace nothing at all, as an empty answer does.  It carries   *)
(* as context the text its hunks expect, and a bad diff also has a part    *)
(* that matches nothing.  Each action is one call that reaches the         *)
(* container or the language model, and the real run of patch is split     *)
(* further: it reads and renames one file after the other.                 *)
(***************************************************************************)
EXTENDS Naturals, Sequences

CONSTANTS
  Editors,       \* concurrent runs of run_sub_agent_edit_task
  Regions,       \* parts of a web file a hunk can touch
  MaxTodos,      \* bound: TODO items per language
  Plans,         \* TODO lists the model may answer: TODO items per language
  Edits,         \* bound: sets of places that a diff of the model replaces
  Guesses,       \* bound: texts that a diff may expect of a file not shown
  MaxRetries,    \* max_retries of llm_diff, 3 in the code
  MaxOps,        \* bound: stop/start/delete/create requests on the container
  DockerFaults,  \* TRUE: a Docker call may raise although the container is up
  Orig,          \* text of the template
  None           \* no diff, no file

\* The order of create_diff's outer loop: 1 HTML, 2 CSS, 3 JavaScript.
Langs == 1..3

ASSUME SubAgentAssumption ==
  /\ MaxTodos \in Nat
  /\ Plans \subseteq [Langs -> 0..MaxTodos]
  /\ MaxRetries \in Nat \ {0}
  /\ MaxOps \in Nat
  /\ DockerFaults \in BOOLEAN

Places   == Langs \X Regions
Todos    == Editors \X Langs \X (1..MaxTodos)
Values   == {Orig} \cup Todos
Contents == [Regions -> Values]

\* base is what the hunks expect of each file; places are what they replace;
\* bad says that patch exits with an error whatever the files are: a context
\* found nowhere, a header that names no file, a malformed hunk, plain text.
Diffs == [todo : Todos, base : [Langs -> Contents], places : SUBSET Places, bad : BOOLEAN]

\* A patch process: the diff it was given, the files it still has to do, the
\* one it has read and not renamed yet, and the places it has replaced.
Inputs    == [file : Langs, text : Contents]
PatchRuns == [diff : Diffs, left : SUBSET Langs, read : Inputs \cup {None},
              hits : SUBSET Places]

ASSUME DiffAssumption == Edits \subseteq SUBSET Places /\ Guesses \subseteq Contents

ASSUME NoneAssumption ==
  /\ None \notin Contents /\ None \notin Diffs
  /\ None \notin Inputs /\ None \notin PatchRuns

VARIABLES
  pc,         \* where each editor is
  task,       \* local variables of each editor
  results,    \* create_diff's results list
  report,     \* what run_sub_agent_edit_task returned
  container,  \* status and incarnation of the one container edited
  files,      \* /usr/share/nginx/html/index.{html,css,js}
  testPatch,  \* /tmp/test_patch.diff
  patchFile,  \* /tmp/patch.diff
  ops,        \* container requests so far
  wrote       \* history: <<todo, place>> pairs that reached a web file

shared == <<container, files, testPatch, patchFile, ops, wrote>>
vars   == <<pc, task, results, report, shared>>

-----------------------------------------------------------------------------
(* The TODO list and the order create_diff walks it. *)

\* Position after the last TODO.
End == <<4, 1>>

Positions == (Langs \X (1..MaxTodos)) \cup {End}

\* Faulty variant: a language without TODOs is not skipped.
FirstFromAnyLang(plan, l) == IF l \in Langs THEN <<l, 1>> ELSE End

\* The first TODO of language l or of a later one; languages without TODOs
\* are skipped.
FirstFrom(plan, l) ==
  LET busy == {m \in Langs : m >= l /\ plan[m] > 0}
  IN IF busy = {} THEN End
     ELSE <<CHOOSE m \in busy : \A n \in busy : m <= n, 1>>

\* Faulty variant: the bound of the inner loop is off by one.
NextTodoPastEnd(plan, p) ==
  IF p[2] <= plan[p[1]] THEN <<p[1], p[2] + 1>> ELSE FirstFrom(plan, p[1] + 1)

NextTodo(plan, p) ==
  IF p[2] < plan[p[1]] THEN <<p[1], p[2] + 1>> ELSE FirstFrom(plan, p[1] + 1)

\* p comes before q in the TODO list.
Precedes(p, q) == p[1] < q[1] \/ (p[1] = q[1] /\ p[2] < q[2])

TodoAt(e, p) == <<e, p[1], p[2]>>

-----------------------------------------------------------------------------
(* GNU patch, as the two exec_run commands use it (--batch --forward -p0). *)

FilesOf(d) == {p[1] : p \in d.places}

\* What d replaces in file l.
Part(d, l) == {p \in d.places : p[1] = l}

\* The hunks for file l whose context is found in its text.
Hits(d, l, text) == {p \in Part(d, l) : text[p[2]] = d.base[l][p[2]]}

\* Faulty variant: one matching hunk is enough for the dry run.
FitsPartly(d, web) == \E l \in Langs : Hits(d, l, web[l]) # {}

\* Exit code 0 of the dry run.  A diff without hunks fits.
Fits(d, web) == ~d.bad /\ \A l \in Langs : Hits(d, l, web[l]) = Part(d, l)

\* Hunks that match are written even when others are rejected.
Patched(d, l, text) ==
  [r \in Regions |-> IF <<l, r>> \in Hits(d, l, text) THEN d.todo ELSE text[r]]

\* Exit code 0 of a real run of patch.
ExitsZero(run) == ~run.diff.bad /\ run.hits = run.diff.places

-----------------------------------------------------------------------------
\* The local variables as the loop comes to position p.
AtTodo(plan, p) == [plan |-> plan, pos |-> p, attempt |-> 1, src |-> None,
                    diff |-> None, conn |-> 0, run |-> None]

Idle == AtTodo([l \in Langs |-> 0], End)

Init ==
  /\ pc = [e \in Editors |-> "plan"]
  /\ task = [e \in Editors |-> Idle]
  /\ results = [e \in Editors |-> <<>>]
  /\ report = [e \in Editors |-> "none"]
  /\ container = [status |-> "running", inc |-> 1]
  /\ files = [l \in Langs |-> [r \in Regions |-> Orig]]
  /\ testPatch = None
  /\ patchFile = None
  /\ ops = 0
  /\ wrote = {}

Goto(e, from, to) == pc[e] = from /\ pc' = [pc EXCEPT ![e] = to]

\* A container object got earlier still denotes a running container.
Alive(e) == container.status = "running" /\ container.inc = task[e].conn

\* It still denotes the container, which may be stopped.
Reachable(e) == container.status # "absent" /\ container.inc = task[e].conn

\* A command in the container raises or exits with an error.
CallFails(e) == ~Alive(e) \/ DockerFaults

\* So does an upload, which a stopped container accepts.
PutFails(e) == ~Reachable(e) \/ DockerFaults

\* An exception reaches run_sub_agent_edit_task: one line is returned and the
\* results gathered so far are dropped.
Abort(e) ==
  /\ pc' = [pc EXCEPT ![e] = "done"]
  /\ task' = [task EXCEPT ![e] = Idle]
  /\ report' = [report EXCEPT ![e] = "error"]
  /\ UNCHANGED <<results, shared>>

\* create_diff notes the outcome of the current TODO and takes the next one.
\* For an applied TODO it appends a second line, that the latest code was
\* updated, which belongs to the same entry here.
Resolve(e, outcome) ==
  LET t    == task[e]
      next == NextTodo(t.plan, t.pos)
  IN /\ results' = [results EXCEPT ![e] = Append(@,
            [pos |-> t.pos, outcome |-> outcome,
             places |-> IF t.diff = None THEN {} ELSE t.diff.places])]
     /\ task' = [task EXCEPT ![e] = AtTodo(t.plan, next)]
     /\ IF next = End
        THEN /\ pc' = [pc EXCEPT ![e] = "done"]
             /\ report' = [report EXCEPT ![e] = "summary"]
        ELSE /\ pc' = [pc EXCEPT ![e] = "fetch"]
             /\ UNCHANGED report

-----------------------------------------------------------------------------
(* list_todo: three calls of the language model, one per language. *)

ListTodo(e) ==
  /\ pc[e] = "plan"
  /\ \E plan \in Plans :
       LET first == FirstFrom(plan, 1)
       IN /\ task' = [task EXCEPT ![e] = AtTodo(plan, first)]
          /\ IF first = End
             THEN /\ pc' = [pc EXCEPT ![e] = "done"]
                  /\ report' = [report EXCEPT ![e] = "no_todo"]
             ELSE /\ pc' = [pc EXCEPT ![e] = "fetch"]
                  /\ UNCHANGED report
  /\ UNCHANGED <<results, shared>>

ListTodoRaises(e) == pc[e] = "plan" /\ Abort(e)

-----------------------------------------------------------------------------
(* llm_diff: fetch the source, ask for a diff, test it, at most MaxRetries *)
(* times.                                                                  *)

FetchSource(e) ==
  /\ Goto(e, "fetch", "llm")
  /\ container.status = "running"
  /\ task' = [task EXCEPT ![e].src = files[task[e].pos[1]]]
  /\ UNCHANGED <<results, report, shared>>

\* The source cannot be read: llm_diff gives the TODO up at once.
FetchFails(e) ==
  /\ pc[e] = "fetch"
  /\ container.status = "running" => DockerFaults
  /\ Resolve(e, "gen_failed")
  /\ UNCHANGED shared

LlmSkips(e) ==
  /\ pc[e] = "llm"
  /\ Resolve(e, "skipped")
  /\ UNCHANGED shared

\* The answer is a diff, good or bad, of the file shown or of any other.  Text
\* that is no diff is a bad diff without places; the empty answer is a good
\* one without places, and so is a diff that only creates a new file.
LlmAnswers(e) ==
  /\ Goto(e, "llm", "vget")
  /\ \E places \in Edits, guess \in [Langs -> Guesses], bad \in BOOLEAN :
       LET base == [guess EXCEPT ![task[e].pos[1]] = task[e].src]
       IN task' = [task EXCEPT ![e].src = None,
                               ![e].diff = [todo |-> TodoAt(e, task[e].pos), base |-> base,
                                            places |-> places, bad |-> bad]]
  /\ UNCHANGED <<results, report, shared>>

\* The call of the model fails, or the source holds braces that the prompt
\* template takes for variables; neither is caught below run_sub_agent_edit_task.
LlmRaises(e) == pc[e] = "llm" /\ Abort(e)

\* Faulty variant: the failed attempt is not counted.
VirtualTestFailsUncounted(e) ==
  /\ pc' = [pc EXCEPT ![e] = "fetch"]
  /\ task' = [task EXCEPT ![e].diff = None, ![e].conn = 0]
  /\ UNCHANGED <<results, report, container, files, patchFile, ops, wrote>>

\* A failed virtual test: the next attempt, or the last one was used up.
VirtualTestFails(e) ==
  /\ IF task[e].attempt < MaxRetries
     THEN /\ pc' = [pc EXCEPT ![e] = "fetch"]
          /\ task' = [task EXCEPT ![e].attempt = @ + 1, ![e].diff = None, ![e].conn = 0]
          /\ UNCHANGED <<results, report>>
     ELSE Resolve(e, "gen_failed")
  /\ UNCHANGED <<container, files, patchFile, ops, wrote>>

(* _virtual_test_diff *)

VirtualGet(e) ==
  /\ Goto(e, "vget", "vput")
  /\ container.status = "running"
  /\ task' = [task EXCEPT ![e].conn = container.inc]
  /\ UNCHANGED <<results, report, shared>>

VirtualGetFails(e) ==
  /\ pc[e] = "vget"
  /\ container.status = "running" => DockerFaults
  /\ VirtualTestFails(e)
  /\ UNCHANGED testPatch

\* Faulty variant: the test and the real run share one scratch file.
VirtualPutOverPatch(e) ==
  /\ Goto(e, "vput", "vdry")
  /\ Reachable(e)
  /\ testPatch' = task[e].diff
  /\ patchFile' = task[e].diff
  /\ UNCHANGED <<task, results, report, container, files, ops, wrote>>

\* put_archive writes into a stopped container as well.
VirtualPut(e) ==
  /\ Goto(e, "vput", "vdry")
  /\ Reachable(e)
  /\ testPatch' = task[e].diff
  /\ UNCHANGED <<task, results, report, container, files, patchFile, ops, wrote>>

VirtualPutFails(e) ==
  /\ pc[e] = "vput"
  /\ PutFails(e)
  /\ VirtualTestFails(e)
  /\ UNCHANGED testPatch

\* The dry run reads /tmp/test_patch.diff as it is now.
VirtualDryRun(e) ==
  /\ Goto(e, "vdry", "aget")
  /\ Alive(e)
  /\ Fits(testPatch, files)
  /\ task' = [task EXCEPT ![e].conn = 0]
  /\ UNCHANGED <<results, report, shared>>

VirtualDryRunFails(e) ==
  /\ pc[e] = "vdry"
  /\ ~CallFails(e) => ~Fits(testPatch, files)
  /\ VirtualTestFails(e)
  /\ UNCHANGED testPatch

-----------------------------------------------------------------------------
(* apply_diff *)

ApplyFails(e) ==
  /\ Resolve(e, "apply_failed")
  /\ UNCHANGED shared

ApplyGet(e) ==
  /\ Goto(e, "aget", "aput")
  /\ container.status = "running"
  /\ task' = [task EXCEPT ![e].conn = container.inc]
  /\ UNCHANGED <<results, report, shared>>

ApplyGetFails(e) ==
  /\ pc[e] = "aget"
  /\ container.status = "running" => DockerFaults
  /\ ApplyFails(e)

\* Upload of /tmp/patch.diff.  The two ls commands after it only look; where
\* they fail, the dry run of the model does.
ApplyPut(e) ==
  /\ Goto(e, "aput", "adry")
  /\ Reachable(e)
  /\ patchFile' = task[e].diff
  /\ UNCHANGED <<task, results, report, container, files, testPatch, ops, wrote>>

ApplyPutFails(e) ==
  /\ pc[e] = "aput"
  /\ PutFails(e)
  /\ ApplyFails(e)

ApplyDryRun(e) ==
  /\ Goto(e, "adry", "aread")
  /\ Alive(e)
  /\ Fits(patchFile, files)
  /\ UNCHANGED <<task, results, report, shared>>

ApplyDryRunFails(e) ==
  /\ pc[e] = "adry"
  /\ ~CallFails(e) => ~Fits(patchFile, files)
  /\ ApplyFails(e)

\* A patch process goes to the next of its files, or ends.
NextFile(left) == IF left = {} THEN "aexit" ELSE "afile"

\* The real patch process reads the diff as it is now; what is wrong with a
\* bad diff may stop it before some of the files, ...
PatchStarts(e) ==
  /\ pc[e] = "aread"
  /\ Alive(e)
  /\ \E left \in SUBSET FilesOf(patchFile) :
       /\ patchFile.bad \/ left = FilesOf(patchFile)
       /\ task' = [task EXCEPT ![e].run = [diff |-> patchFile, left |-> left,
                                           read |-> None, hits |-> {}]]
       /\ pc' = [pc EXCEPT ![e] = NextFile(left)]
  /\ UNCHANGED <<results, report, shared>>

PatchStartFails(e) ==
  /\ pc[e] = "aread"
  /\ CallFails(e)
  /\ ApplyFails(e)

\* ... reads a file, ...
PatchReads(e) ==
  /\ task[e].run # None
  /\ Goto(e, "afile", "awrite")
  /\ \E l \in task[e].run.left :
       task' = [task EXCEPT ![e].run.read = [file |-> l, text |-> files[l]]]
  /\ UNCHANGED <<results, report, shared>>

\* ... renames its output over it unless every hunk for it was rejected, ...
PatchRenames(e) ==
  LET run   == task[e].run
      in    == run.read
      match == Hits(run.diff, in.file, in.text)
      left  == run.left \ {in.file}
  IN /\ run # None
     /\ pc[e] = "awrite"
     /\ pc' = [pc EXCEPT ![e] = NextFile(left)]
     /\ files' = IF match = {} THEN files
                 ELSE [files EXCEPT ![in.file] = Patched(run.diff, in.file, in.text)]
     /\ wrote' = wrote \cup ({run.diff.todo} \X match)
     /\ task' = [task EXCEPT ![e].run = [diff |-> run.diff, left |-> left, read |-> None,
                                         hits |-> run.hits \cup match]]
     /\ UNCHANGED <<results, report, container, testPatch, patchFile, ops>>

\* Faulty variant: the exit code of a killed process counts as success.
PatchKilledUnseen(e) ==
  /\ Goto(e, "awrite", "latest")
  /\ task[e].run = None
  /\ UNCHANGED <<task, results, report, shared>>

\* A stop or a delete killed the patch process before its last rename.
PatchKilled(e) ==
  /\ pc[e] \in {"afile", "awrite"}
  /\ task[e].run = None
  /\ ApplyFails(e)

\* ... and its exit code is fetched by a call of its own, which a stopped
\* container still answers and a deleted one does not.
PatchExits(e) ==
  /\ Goto(e, "aexit", "latest")
  /\ Reachable(e)
  /\ ExitsZero(task[e].run)
  /\ UNCHANGED <<task, results, report, shared>>

\* A hunk was rejected, the process was killed after its last rename, or the
\* exit code could not be fetched.
PatchExitFails(e) ==
  /\ pc[e] = "aexit"
  /\ ~CallFails(e) => ~ExitsZero(task[e].run)
  /\ ApplyFails(e)

\* The latest code is read back; whether that works does not change the outcome.
ReadBack(e) ==
  /\ pc[e] = "latest"
  /\ Resolve(e, "applied")
  /\ UNCHANGED shared

-----------------------------------------------------------------------------
(* Other requests act on the container (app.py routes, system.py). *)

CountOp == ops < MaxOps /\ ops' = ops + 1

\* Processes in the container die with it.
KillRuns ==
  task' = [e \in Editors |->
             IF pc[e] \in {"afile", "awrite"} THEN [task[e] EXCEPT !.run = None]
             ELSE task[e]]

StopContainer ==
  /\ CountOp
  /\ container.status = "running"
  /\ container' = [container EXCEPT !.status = "exited"]
  /\ KillRuns
  /\ UNCHANGED <<pc, results, report, files, testPatch, patchFile, wrote>>

StartContainer ==
  /\ CountOp
  /\ container.status = "exited"
  /\ container' = [container EXCEPT !.status = "running"]
  /\ UNCHANGED <<pc, task, results, report, files, testPatch, patchFile, wrote>>

DeleteContainer ==
  /\ CountOp
  /\ container.status # "absent"
  /\ container' = [container EXCEPT !.status = "absent"]
  /\ KillRuns
  /\ UNCHANGED <<pc, results, report, files, testPatch, patchFile, wrote>>

\* A new container from the template image: fresh web files, empty /tmp.
CreateContainer ==
  /\ CountOp
  /\ container.status = "absent"
  /\ container' = [status |-> "running", inc |-> container.inc + 1]
  /\ files' = [l \in Langs |-> [r \in Regions |-> Orig]]
  /\ testPatch' = None
  /\ patchFile' = None
  /\ UNCHANGED <<pc, task, results, report, wrote>>

-----------------------------------------------------------------------------
Generate(e) ==
  \/ FetchSource(e) \/ FetchFails(e)
  \/ LlmSkips(e) \/ LlmAnswers(e) \/ LlmRaises(e)
  \/ VirtualGet(e) \/ VirtualGetFails(e)
  \/ VirtualPut(e) \/ VirtualPutFails(e)
  \/ VirtualDryRun(e) \/ VirtualDryRunFails(e)

Apply(e) ==
  \/ ApplyGet(e) \/ ApplyGetFails(e)
  \/ ApplyPut(e) \/ ApplyPutFails(e)
  \/ ApplyDryRun(e) \/ ApplyDryRunFails(e)
  \/ PatchStarts(e) \/ PatchStartFails(e)
  \/ PatchReads(e) \/ PatchRenames(e) \/ PatchKilled(e)
  \/ PatchExits(e) \/ PatchExitFails(e)
  \/ ReadBack(e)

EditorStep(e) == ListTodo(e) \/ ListTodoRaises(e) \/ Generate(e) \/ Apply(e)

ContainerStep == StopContainer \/ StartContainer \/ DeleteContainer \/ CreateContainer

Next == (\E e \in Editors : EditorStep(e)) \/ ContainerStep

Spec == Init /\ [][Next]_vars

\* A started task keeps running: its thread is scheduled and every call of
\* Docker and of the model returns or raises.
FairSpec == Spec /\ \A e \in Editors : WF_vars(EditorStep(e))
-----------------------------------------------------------------------------
(* Properties. *)

PCs == {"plan", "fetch", "llm", "vget", "vput", "vdry", "aget", "aput", "adry",
        "aread", "afile", "awrite", "aexit", "latest", "done"}

Tasks == [plan : [Langs -> 0..MaxTodos], pos : Positions, attempt : 1..MaxRetries,
          src : Contents \cup {None}, diff : Diffs \cup {None},
          conn : 0..(MaxOps + 1), run : PatchRuns \cup {None}]

Outcomes == {"skipped", "gen_failed", "apply_failed", "applied"}

Entries == [pos : Positions, outcome : Outcomes, places : SUBSET Places]

\* Every variable keeps its type; in particular the position never leaves the
\* TODO list create_diff iterates over and the attempt stays below max_retries.
TypeOK ==
  /\ pc \in [Editors -> PCs]
  /\ task \in [Editors -> Tasks]
  /\ results \in [Editors -> Seq(Entries)]
  /\ report \in [Editors -> {"none", "no_todo", "summary", "error"}]
  /\ container \in [status : {"running", "exited", "absent"}, inc : 1..(MaxOps + 1)]
  /\ files \in [Langs -> Contents]
  /\ testPatch \in Diffs \cup {None}
  /\ patchFile \in Diffs \cup {None}
  /\ ops \in 0..MaxOps
  /\ wrote \subseteq Todos \X Places

Entry(e, i) == results[e][i]
TodoOf(e, i) == TodoAt(e, Entry(e, i).pos)

\* create_diff's results are in the order HTML, CSS, JavaScript, at most one
\* for a TODO, and none is missing before the TODO in progress.
ResultsFollowPlan ==
  \A e \in Editors :
    /\ \A i, j \in 1..Len(results[e]) :
         i < j => Precedes(Entry(e, i).pos, Entry(e, j).pos)
    /\ pc[e] \notin {"plan", "done"} =>
         {Entry(e, i).pos : i \in 1..Len(results[e])}
           = {p \in Langs \X (1..MaxTodos) :
                p[2] <= task[e].plan[p[1]] /\ Precedes(p, task[e].pos)}

\* A TODO the summary lists as skipped or as failed in llm_diff has changed no
\* web file, whoever else edits the container: a diff that was only tested is
\* never run for real.
RejectedLeavesNoTrace ==
  \A e \in Editors : \A i \in 1..Len(results[e]) :
    Entry(e, i).outcome \in {"skipped", "gen_failed"} =>
      \A p \in Places : <<TodoOf(e, i), p>> \notin wrote

\* A TODO reported as applied had every hunk of its diff written, to whichever
\* files the diff names.  A diff without hunks is reported so as well.
SuccessMeansLanded ==
  \A e \in Editors : \A i \in 1..Len(results[e]) :
    Entry(e, i).outcome = "applied" =>
      \A p \in Entry(e, i).places : <<TodoOf(e, i), p>> \in wrote

\* A task that ends with one error line instead of the summary has changed
\* nothing: what was changed is what the result reports.
ErrorMeansUntouched ==
  \A e \in Editors : report[e] = "error" =>
    \A w \in wrote : w[1][1] # e

\* Every task ends, whatever the container and the model do: no retry goes on
\* for ever.
Terminates == \A e \in Editors : <>(pc[e] = "done")
=============================================================================
