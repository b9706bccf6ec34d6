--------------------- MODULE SubAgentRefinement_proofs ---------------------
(***************************************************************************)
(* A task alone on its container implements EditContract: proof for any    *)
(* regions, TODOs, retries and container requests.                         *)
(***************************************************************************)
EXTENDS SubAgentRefinement, SubAgentReport_proofs

USE DEF Langs

-----------------------------------------------------------------------------
(* The agenda, as the walk of create_diff shortens it. *)

LEMMA AgendaAtEnd ==
  ASSUME NEW plan \in [Langs -> 0..MaxTodos]
  PROVE  Agenda(plan, End) = {}
BY DEF Agenda, Precedes, End

\* Nothing is due only at the end.
LEMMA AgendaEmpty ==
  ASSUME NEW plan \in [Langs -> 0..MaxTodos], NEW p \in Positions, InPlan(plan, p)
  PROVE  Agenda(plan, p) = {} <=> p = End
<1>1. CASE p = End
  BY <1>1, AgendaAtEnd
<1>2. CASE p # End
  <2>1. p \in Langs \X (1..MaxTodos) /\ p[2] <= plan[p[1]]
    BY <1>2 DEF Positions, InPlan
  <2>2. ~Precedes(p, p)
    BY <2>1, SubAgentAssumption DEF Precedes
  <2>3. p \in Agenda(plan, p)
    BY <2>1, <2>2 DEF Agenda
  <2> QED BY <1>2, <2>3
<1> QED BY <1>1, <1>2

LEMMA AgendaFirst ==
  ASSUME NEW plan \in [Langs -> 0..MaxTodos]
  PROVE  /\ Agenda(plan, FirstFrom(plan, 1)) = Agenda(plan, <<1, 1>>)
         /\ Agenda(plan, FirstFrom(plan, 1)) = {} <=> FirstFrom(plan, 1) = End
<1>1. /\ InPlan(plan, FirstFrom(plan, 1)) /\ FirstFrom(plan, 1) \in Positions
      /\ Before(plan, FirstFrom(plan, 1)) = {}
  BY BeforeFirst, FirstFromType
<1>2. \A q \in Langs \X (1..MaxTodos) :
        q[2] <= plan[q[1]] => ~Precedes(q, FirstFrom(plan, 1))
  BY <1>1 DEF Before
<1>3. \A q \in Langs \X (1..MaxTodos) : ~Precedes(q, <<1, 1>>)
  BY SubAgentAssumption DEF Precedes
<1> QED BY <1>1, <1>2, <1>3, AgendaEmpty DEF Agenda

\* The current TODO is due, and the next position is reached by taking it off.
LEMMA AgendaNext ==
  ASSUME NEW plan \in [Langs -> 0..MaxTodos], NEW p \in Langs \X (1..MaxTodos),
         p[2] <= plan[p[1]]
  PROVE  /\ p \in Agenda(plan, p)
         /\ \A q \in Agenda(plan, p) \ {p} : Precedes(p, q)
         /\ Agenda(plan, NextTodo(plan, p)) = Agenda(plan, p) \ {p}
         /\ Agenda(plan, NextTodo(plan, p)) = {} <=> NextTodo(plan, p) = End
<1>0. MaxTodos \in Nat /\ p \in Positions
  BY SubAgentAssumption DEF Positions
<1>1. /\ InPlan(plan, NextTodo(plan, p)) /\ NextTodo(plan, p) \in Positions
      /\ Before(plan, NextTodo(plan, p)) = Before(plan, p) \cup {p}
  BY BeforeNext, NextTodoType
<1>2. ~Precedes(p, p)
  BY <1>0 DEF Precedes
<1>3. \A q \in Agenda(plan, p) \ {p} : Precedes(p, q)
  <2> SUFFICES ASSUME NEW q \in Agenda(plan, p), q # p PROVE Precedes(p, q)
    OBVIOUS
  <2>1. q \in Langs \X (1..MaxTodos) /\ ~Precedes(q, p)
    BY DEF Agenda
  <2>2. q = <<q[1], q[2]>> /\ p = <<p[1], p[2]>>
    BY <2>1
  <2>3. q[1] \in Nat /\ q[2] \in Nat /\ p[1] \in Nat /\ p[2] \in Nat
    BY <1>0, <2>1
  <2> QED BY <2>1, <2>2, <2>3 DEF Precedes
<1>4. \A q \in Langs \X (1..MaxTodos) : q[2] <= plan[q[1]] =>
        (Precedes(q, NextTodo(plan, p)) <=> Precedes(q, p) \/ q = p)
  <2> TAKE q \in Langs \X (1..MaxTodos)
  <2> HAVE q[2] <= plan[q[1]]
  <2>1. q \in Before(plan, NextTodo(plan, p)) <=> q \in Before(plan, p) \/ q = p
    BY <1>1
  <2> QED BY <2>1 DEF Before
<1>5. Agenda(plan, NextTodo(plan, p)) = Agenda(plan, p) \ {p}
  BY <1>4 DEF Agenda
<1>6. p \in Agenda(plan, p)
  BY <1>2 DEF Agenda
<1> QED BY <1>1, <1>3, <1>5, <1>6, AgendaEmpty

-----------------------------------------------------------------------------
(* What the contract needs to know of a task, besides what its report needs. *)

\* The places the TODO in progress has changed.
Mine(e) == {place \in Places : <<TodoAt(e, task[e].pos), place>> \in wrote}

\* Before apply_diff a TODO has changed nothing.
NoTraceYet == \A e \in Editors : pc[e] \notin ApplyPCs => Mine(e) = {}

LEMMA NothingYet == Inv => NoTraceYet
<1> SUFFICES ASSUME Inv, NEW e \in Editors, pc[e] \notin ApplyPCs,
                    NEW place \in Places, <<TodoAt(e, task[e].pos), place>> \in wrote
             PROVE  FALSE
  BY DEF NoTraceYet, Mine
<1> USE DEF Inv
<1>1. Offered(TodoAt(e, task[e].pos))
  BY DEF OnlyOffered
<1>2. PICK i \in 1..Len(results[e]) : TodoOf(e, i) = TodoAt(e, task[e].pos)
  BY <1>1 DEF Offered, TodoAt
<1>3. task[e].pos \in Positions /\ Entry(e, i).pos \in Positions
  BY EntryPositions DEF WellFormed, TypeOK, Tasks
<1>4. Entry(e, i).pos = task[e].pos
  BY <1>2, <1>3 DEF TodoOf, TodoAt, Positions, End
<1>5. Precedes(Entry(e, i).pos, task[e].pos)
  BY DEF ResultsOrdered
<1> QED BY <1>3, <1>4, <1>5, SubAgentAssumption DEF Precedes, Positions, End

LEMMA NothingYetAfter == Inv' => NoTraceYet'
BY NothingYet, PTL

\* The hunks for one file have landed all or none.
Whole(e) ==
  \A l \in Langs : {p \in Mine(e) : p[1] = l} \in {{}, Part(task[e].diff, l)}

\* The dry run's verdict holds until patch has done the files, one by one.
Bound(e) ==
  /\ pc[e] = "plan" => task[e] = Idle
  /\ pc[e] # "done" => report[e] = "none"
  /\ pc[e] \in {"aget", "aput", "adry", "aread"} => Mine(e) = {}
  /\ pc[e] = "aread" /\ task[e].conn = container.inc => Fits(task[e].diff, files)
  /\ pc[e] \in {"afile", "awrite"} => Whole(e)
  /\ pc[e] \in {"afile", "awrite"} /\ task[e].run # None =>
       /\ container.status = "running"
       /\ \A l \in task[e].run.left :
            Hits(task[e].diff, l, files[l]) = Part(task[e].diff, l)
       /\ task[e].run.hits = {p \in task[e].diff.places : p[1] \notin task[e].run.left}
       /\ Mine(e) = task[e].run.hits
  /\ pc[e] = "awrite" /\ task[e].run # None =>
       task[e].run.read.text = files[task[e].run.read.file]
  /\ pc[e] \in {"aexit", "latest"} => Mine(e) = task[e].diff.places

\* The file that is renamed gets the whole of the diff's part for it.
LEMMA RenameWrites ==
  ASSUME WellFormed, NEW e \in Editors, PatchRenames(e), Landing(e), Bound(e)
  PROVE  LET run  == task[e].run
             diff == task[e].diff
             f    == run.read.file
         IN /\ run # None /\ pc'[e] = NextFile(run.left \ {f})
            /\ UNCHANGED <<report, container, results>>
            /\ diff \in Diffs /\ diff.todo = TodoAt(e, task[e].pos)
            /\ run \in PatchRuns /\ f \in Langs /\ f \in run.left
            /\ Hits(diff, f, files[f]) = Part(diff, f)
            /\ files' = IF Part(diff, f) = {} THEN files
                        ELSE [files EXCEPT ![f] = Patched(diff, f, files[f])]
            /\ wrote' = wrote \cup ({diff.todo} \X Part(diff, f))
            /\ task'[e].plan = task[e].plan /\ task'[e].pos = task[e].pos
            /\ task'[e].diff = diff
            /\ task'[e].run.left = run.left \ {f}
            /\ task'[e].run.hits = run.hits \cup Part(diff, f)
            /\ Mine(e)' = Mine(e) \cup Part(diff, f)
<1> USE DEF DiffPCs, ApplyPCs
<1> DEFINE run  == task[e].run
           diff == task[e].diff
           f    == run.read.file
           left == run.left \ {f}
<1>0. task \in [Editors -> Tasks] /\ pc \in [Editors -> PCs] /\ LocalOK(e)
  BY DEF WellFormed, TypeOK
<1>1. /\ pc[e] = "awrite" /\ run # None /\ pc'[e] = NextFile(left)
      /\ UNCHANGED <<report, container, results>>
      /\ f \in run.left /\ run.read.text = files[f] /\ run.diff = diff
      /\ Hits(diff, f, files[f]) = Part(diff, f)
  BY <1>0 DEF PatchRenames, Bound, Landing, LocalOK
<1>2. /\ diff \in Diffs /\ diff.todo = TodoAt(e, task[e].pos)
      /\ run \in PatchRuns /\ f \in Langs
  BY <1>0, <1>1 DEF LocalOK, Tasks, PatchRuns
<1>3. /\ files' = IF Part(diff, f) = {} THEN files
                  ELSE [files EXCEPT ![f] = Patched(diff, f, files[f])]
      /\ wrote' = wrote \cup ({diff.todo} \X Part(diff, f))
      /\ task' = [task EXCEPT ![e].run = [diff |-> diff, left |-> left, read |-> None,
                                          hits |-> run.hits \cup Part(diff, f)]]
  BY <1>1 DEF PatchRenames
<1>4. /\ task'[e].plan = task[e].plan /\ task'[e].pos = task[e].pos
      /\ task'[e].diff = diff /\ task'[e].run.left = left
      /\ task'[e].run.hits = run.hits \cup Part(diff, f)
  BY <1>0, <1>3 DEF Tasks
<1>5. Part(diff, f) \subseteq Places
  BY <1>2 DEF Part, Diffs
<1>6. Mine(e)' = Mine(e) \cup Part(diff, f)
  BY <1>2, <1>3, <1>4, <1>5 DEF Mine, TodoAt
<1> QED BY <1>1, <1>2, <1>3, <1>4, <1>6

LEMMA BoundStep ==
  ASSUME WellFormed, NoTraceYet, NEW e \in Editors, EditorStep(e), Landing(e), Bound(e)
  PROVE  Bound(e)'
<1> USE DEF DiffPCs, ApplyPCs
<1>0. /\ task \in [Editors -> Tasks] /\ pc \in [Editors -> PCs]
      /\ report \in [Editors -> {"none", "no_todo", "summary", "error"}]
      /\ task[e] \in Tasks /\ LocalOK(e)
  BY DEF WellFormed, TypeOK
<1>d. ASSUME pc'[e] = "done"
      PROVE  Bound(e)'
  BY <1>d DEF Bound
<1>k. ASSUME pc'[e] \in {"fetch", "llm"}, report' = report, pc[e] # "done"
      PROVE  Bound(e)'
  BY <1>k DEF Bound
<1>r. ASSUME NEW outcome, Resolve(e, outcome), pc[e] # "done"
      PROVE  Bound(e)'
  <2>1. pc'[e] = "done" \/ (pc'[e] = "fetch" /\ report' = report)
    BY <1>0, <1>r DEF Resolve
  <2> QED BY <1>d, <1>k, <1>r, <2>1
<1>v. ASSUME VirtualTestFails(e), pc[e] \in {"vget", "vput", "vdry"}
      PROVE  Bound(e)'
  <2>1. CASE task[e].attempt < MaxRetries
    BY <1>0, <1>k, <1>v, <2>1 DEF VirtualTestFails
  <2>2. CASE ~(task[e].attempt < MaxRetries)
    BY <1>r, <1>v, <2>2 DEF VirtualTestFails
  <2> QED BY <2>1, <2>2
\* Up to the dry run of apply_diff nothing is written for the TODO.
<1>c. ASSUME pc[e] \in {"llm", "vget", "vput", "vdry", "aget", "aput"},
             pc'[e] \in {"vget", "vput", "vdry", "aget", "aput", "adry"},
             task'[e].pos = task[e].pos, UNCHANGED <<report, wrote>>
      PROVE  Bound(e)'
  <2>1. Mine(e) = {}
    BY <1>c DEF Bound, NoTraceYet
  <2>2. Mine(e)' = {}
    BY <1>c, <2>1 DEF Mine, TodoAt
  <2> QED BY <1>c, <2>2 DEF Bound
<1>1. CASE ListTodo(e)
  <2>1. pc'[e] = "done" \/ (pc'[e] = "fetch" /\ report' = report /\ pc[e] = "plan")
    BY <1>0, <1>1 DEF ListTodo
  <2> QED BY <1>d, <1>k, <2>1
<1>2. CASE ListTodoRaises(e) \/ LlmRaises(e)
  BY <1>0, <1>d, <1>2 DEF ListTodoRaises, LlmRaises, Abort
<1>3. CASE FetchFails(e) \/ LlmSkips(e) \/ ReadBack(e)
  BY <1>r, <1>3 DEF FetchFails, LlmSkips, ReadBack
<1>4. CASE VirtualGetFails(e) \/ VirtualPutFails(e) \/ VirtualDryRunFails(e)
  BY <1>v, <1>4 DEF VirtualGetFails, VirtualPutFails, VirtualDryRunFails
<1>5. CASE \/ ApplyGetFails(e) \/ ApplyPutFails(e) \/ ApplyDryRunFails(e)
           \/ PatchStartFails(e) \/ PatchKilled(e) \/ PatchExitFails(e)
  BY <1>r, <1>5 DEF ApplyGetFails, ApplyPutFails, ApplyDryRunFails, PatchStartFails,
                    PatchKilled, PatchExitFails, ApplyFails
<1>6. CASE FetchSource(e)
  BY <1>0, <1>k, <1>6 DEF FetchSource, Goto
<1>7. CASE \/ LlmAnswers(e) \/ VirtualGet(e) \/ VirtualPut(e) \/ VirtualDryRun(e)
           \/ ApplyGet(e) \/ ApplyPut(e)
  <2>1. /\ pc[e] \in {"llm", "vget", "vput", "vdry", "aget", "aput"}
        /\ pc'[e] \in {"vget", "vput", "vdry", "aget", "aput", "adry"}
        /\ task'[e].pos = task[e].pos /\ UNCHANGED <<report, wrote>>
    BY <1>0, <1>7 DEF LlmAnswers, VirtualGet, VirtualPut, VirtualDryRun, ApplyGet, ApplyPut,
                      Goto, shared, Tasks
  <2> QED BY <1>c, <2>1
<1>9. CASE ApplyDryRun(e)
  <2>1. /\ pc[e] = "adry" /\ pc'[e] = "aread"
        /\ UNCHANGED <<task, report, container, files, wrote>>
        /\ Fits(patchFile, files) /\ task[e].conn = container.inc
    BY <1>0, <1>9 DEF ApplyDryRun, Goto, shared, Alive
  <2>2. patchFile = task[e].diff
    BY <2>1 DEF Landing
  <2>3. Fits(task[e].diff, files)'
    BY <2>1, <2>2 DEF Fits, Hits, Part
  <2>4. Mine(e)' = {}
    BY <2>1 DEF Bound, Mine, TodoAt
  <2> QED BY <2>1, <2>3, <2>4 DEF Bound
<1>10. CASE PatchStarts(e)
  <2>1. PICK left \in SUBSET FilesOf(patchFile) :
          /\ patchFile.bad \/ left = FilesOf(patchFile)
          /\ task' = [task EXCEPT ![e].run = [diff |-> patchFile, left |-> left,
                                              read |-> None, hits |-> {}]]
          /\ pc' = [pc EXCEPT ![e] = NextFile(left)]
    BY <1>10 DEF PatchStarts
  <2>2. /\ pc[e] = "aread" /\ UNCHANGED <<report, container, files, wrote>>
        /\ container.status = "running" /\ task[e].conn = container.inc
    BY <1>10 DEF PatchStarts, shared, Alive
  <2>3. patchFile = task[e].diff /\ patchFile \in Diffs
    BY <1>0, <2>2 DEF Landing, LocalOK, Tasks
  <2>4. Fits(task[e].diff, files) /\ Mine(e) = {}
    BY <2>2 DEF Bound
  <2>5. left = FilesOf(patchFile)
    BY <2>1, <2>3, <2>4 DEF Fits
  <2> DEFINE run == [diff |-> patchFile, left |-> left, read |-> None, hits |-> {}]
  <2>6. /\ run.left = left /\ run.hits = {}
        /\ task' = [task EXCEPT ![e].run = run]
    BY <2>1
  <2> HIDE DEF run
  <2>7. /\ task'[e].run = run /\ task'[e].diff = task[e].diff /\ task'[e].pos = task[e].pos
        /\ pc'[e] = NextFile(left)
    BY <1>0, <2>1, <2>6 DEF Tasks
  <2>8. Mine(e)' = {}
    BY <2>2, <2>4, <2>7 DEF Mine, TodoAt
  <2>9. {p \in patchFile.places : p[1] \notin left} = {}
    BY <2>5 DEF FilesOf
  <2>10. CASE left = {}
    <3>1. patchFile.places = {}
      BY <2>9, <2>10
    <3>2. pc'[e] = "aexit"
      BY <2>7, <2>10 DEF NextFile
    <3> QED BY <2>2, <2>3, <2>7, <2>8, <3>1, <3>2 DEF Bound
  <2>11. CASE left # {}
    <3>1. pc'[e] = "afile"
      BY <2>7, <2>11 DEF NextFile
    <3>2. ASSUME NEW l \in left
          PROVE  (Hits(task[e].diff, l, files[l]) = Part(task[e].diff, l))'
      <4>1. l \in Langs
        BY <2>3, <2>5, PatchTypes DEF FilesOf, Diffs, Places
      <4>2. Hits(task[e].diff, l, files[l]) = Part(task[e].diff, l)
        BY <2>4, <4>1 DEF Fits
      <4> QED BY <2>2, <2>7, <4>2 DEF Hits, Part
    <3>3. Whole(e)'
      BY <2>8 DEF Whole
    <3> QED BY <2>2, <2>3, <2>6, <2>7, <2>8, <2>9, <3>1, <3>2, <3>3 DEF Bound
  <2> QED BY <2>10, <2>11
<1>11. CASE PatchReads(e)
  <2>1. PICK l \in task[e].run.left :
          task' = [task EXCEPT ![e].run.read = [file |-> l, text |-> files[l]]]
    BY <1>11 DEF PatchReads
  <2>2. /\ pc[e] = "afile" /\ pc'[e] = "awrite" /\ task[e].run # None
        /\ UNCHANGED <<report, container, files, wrote>>
    BY <1>0, <1>11 DEF PatchReads, Goto, shared
  <2>3. task[e].run \in PatchRuns
    BY <1>0, <2>2 DEF Tasks
  <2>4. /\ task'[e].diff = task[e].diff /\ task'[e].pos = task[e].pos
        /\ task'[e].run.left = task[e].run.left /\ task'[e].run.hits = task[e].run.hits
        /\ task'[e].run.read = [file |-> l, text |-> files[l]]
    BY <1>0, <2>1, <2>3 DEF Tasks, PatchRuns
  <2>5. /\ container.status = "running"
        /\ \A k \in task[e].run.left : Hits(task[e].diff, k, files[k]) = Part(task[e].diff, k)
        /\ task[e].run.hits = {p \in task[e].diff.places : p[1] \notin task[e].run.left}
        /\ Mine(e) = task[e].run.hits /\ Whole(e)
    BY <2>2 DEF Bound
  <2>6. Mine(e)' = Mine(e)
    BY <2>2, <2>4 DEF Mine, TodoAt
  <2>7. Whole(e)'
    BY <2>4, <2>5, <2>6 DEF Whole, Part
  <2>8. \A k \in task'[e].run.left : (Hits(task[e].diff, k, files[k]) = Part(task[e].diff, k))'
    BY <2>2, <2>4, <2>5 DEF Hits, Part
  <2>9. (task[e].run.read.text = files[task[e].run.read.file])'
    BY <2>2, <2>4
  <2> QED BY <2>2, <2>4, <2>5, <2>6, <2>7, <2>8, <2>9 DEF Bound
<1>12. CASE PatchRenames(e)
  <2> DEFINE run  == task[e].run
             diff == task[e].diff
             f    == run.read.file
             left == run.left \ {f}
  <2>1. /\ run # None /\ pc'[e] = NextFile(left) /\ UNCHANGED <<report, container>>
        /\ diff \in Diffs /\ run \in PatchRuns /\ f \in Langs
        /\ files' = IF Part(diff, f) = {} THEN files
                    ELSE [files EXCEPT ![f] = Patched(diff, f, files[f])]
    BY <1>12, RenameWrites
  <2>2. /\ container.status = "running"
        /\ \A l \in run.left : Hits(diff, l, files[l]) = Part(diff, l)
        /\ run.hits = {p \in diff.places : p[1] \notin run.left}
        /\ Mine(e) = run.hits
    BY <1>12, <2>1 DEF PatchRenames, Bound
  <2>3. f \in run.left
    BY <1>12, RenameWrites
  <2>4. /\ task'[e].diff = diff /\ task'[e].pos = task[e].pos
        /\ task'[e].run.left = left /\ task'[e].run.hits = run.hits \cup Part(diff, f)
    BY <1>12, RenameWrites
  <2>6. Mine(e)' = Mine(e) \cup Part(diff, f)
    BY <1>12, RenameWrites
  <2>7. run.hits \cup Part(diff, f) = {p \in diff.places : p[1] \notin left}
    BY <2>2 DEF Part
  <2> HIDE DEF left, f, diff, run
  <2>8. Mine(e)' = {p \in diff.places : p[1] \notin left}
    BY <2>2, <2>6, <2>7
  <2>9. CASE left = {}
    <3>1. pc'[e] = "aexit"
      BY <2>1, <2>9 DEF NextFile
    <3> QED BY <2>1, <2>4, <2>8, <2>9, <3>1 DEF Bound
  <2>10. CASE left # {}
    <3>1. pc'[e] = "afile"
      BY <2>1, <2>10 DEF NextFile
    <3>2. Whole(e)'
      <4> SUFFICES ASSUME NEW l \in Langs
                   PROVE  {p \in Mine(e)' : p[1] = l} \in {{}, Part(diff, l)}
        BY <2>4 DEF Whole, Part
      <4>1. CASE l \in left
        BY <2>8, <4>1
      <4>2. CASE l \notin left
        BY <2>8, <4>2 DEF Part
      <4> QED BY <4>1, <4>2
    <3>3. ASSUME NEW l \in left PROVE (Hits(task[e].diff, l, files[l]) = Part(task[e].diff, l))'
      <4>1. l \in run.left /\ l # f
        BY DEF left
      <4>2. files'[l] = files[l]
        <5>1. l \in Langs BY <2>1, <4>1 DEF PatchRuns
        <5>2. files \in [Langs -> Contents] BY DEF WellFormed, TypeOK
        <5> QED BY <2>1, <4>1, <5>1, <5>2
      <4> QED BY <2>2, <2>4, <4>1, <4>2 DEF Hits, Part
    <3> QED BY <2>1, <2>2, <2>4, <2>6, <2>7, <2>8, <3>1, <3>2, <3>3 DEF Bound
  <2> QED BY <2>9, <2>10
<1>13. CASE PatchExits(e)
  <2>1. /\ pc[e] = "aexit" /\ pc'[e] = "latest" /\ UNCHANGED <<task, report, wrote>>
    BY <1>0, <1>13 DEF PatchExits, Goto, shared
  <2>2. Mine(e)' = task[e].diff.places
    BY <2>1 DEF Bound, Mine, TodoAt
  <2> QED BY <2>1, <2>2 DEF Bound
<1> QED BY <1>1, <1>2, <1>3, <1>4, <1>5, <1>6, <1>7, <1>9, <1>10, <1>11, <1>12, <1>13
        DEF EditorStep, Generate, Apply

LEMMA BoundContainer ==
  ASSUME WellFormed, NEW e \in Editors, ContainerStep, Bound(e)
  PROVE  Bound(e)'
<1> USE DEF DiffPCs, ApplyPCs
<1>1. /\ pc' = pc /\ report' = report /\ task[e] \in Tasks
      /\ LocalOK(e) /\ container.inc \in Nat /\ task[e].conn \in Nat
  BY SubAgentAssumption DEF ContainerStep, StopContainer, StartContainer, DeleteContainer,
     CreateContainer, WellFormed, TypeOK, Tasks
<1>2. /\ task'[e].pos = task[e].pos /\ wrote' = wrote
      /\ task'[e].diff = task[e].diff /\ task'[e].conn = task[e].conn
      /\ pc[e] \notin {"afile", "awrite"} => task'[e] = task[e]
  BY <1>1 DEF ContainerStep, StopContainer, StartContainer, DeleteContainer,
     CreateContainer, KillRuns, Tasks
<1>3. Mine(e)' = Mine(e) /\ (Whole(e) => Whole(e)')
  BY <1>2 DEF Mine, Whole, Part, TodoAt
<1>4. CASE StopContainer \/ DeleteContainer
  <2>1. /\ files' = files /\ container'.inc = container.inc
        /\ pc[e] \in {"afile", "awrite"} => task'[e].run = None
    BY <1>1, <1>4 DEF StopContainer, DeleteContainer, KillRuns, Tasks, WellFormed, TypeOK
  <2>2. Fits(task[e].diff, files) => Fits(task[e].diff, files)'
    BY <1>2, <2>1 DEF Fits, Hits, Part
  <2> QED BY <1>1, <1>2, <1>3, <2>1, <2>2 DEF Bound
<1>5. CASE StartContainer \/ CreateContainer
  <2>1. /\ task' = task /\ container.status # "running"
        /\ \/ container'.inc = container.inc /\ files' = files
           \/ container'.inc = container.inc + 1
    BY <1>5 DEF StartContainer, CreateContainer, WellFormed, TypeOK
  <2>2. task[e].conn = container'.inc => container'.inc = container.inc /\ files' = files
    BY <1>1, <2>1 DEF LocalOK
  <2>3. files' = files /\ Fits(task[e].diff, files) => Fits(task[e].diff, files)'
    BY <2>1 DEF Fits, Hits, Part
  <2>4. pc[e] \in {"afile", "awrite"} => task[e].run = None
    BY <2>1 DEF Bound
  <2> QED BY <1>1, <1>2, <1>3, <2>1, <2>2, <2>3, <2>4 DEF Bound
<1> QED BY <1>4, <1>5 DEF ContainerStep

-----------------------------------------------------------------------------
(* Every step of the task is a step of the contract or a stutter. *)

LEMMA OneEditor ==
  ASSUME NEW e \in Editors, Editors = {e}
  PROVE  TheEditor = e
BY DEF TheEditor

LEMMA LandedIsMine ==
  ASSUME NEW e \in Editors, Editors = {e}
  PROVE  Landed = Mine(e)
BY OneEditor DEF Landed, Mine, Trace

\* A step that the contract does not see.
LEMMA Unseen ==
  ASSUME files' = files, results'[TheEditor] = results[TheEditor],
         report'[TheEditor] = report[TheEditor],
         task'[TheEditor].plan = task[TheEditor].plan,
         task'[TheEditor].pos = task[TheEditor].pos,
         Landed' = Landed
  PROVE  UNCHANGED Contract!vars
BY DEF Contract!vars, Agenda

\* What is known of the task at a step.
Ready(e) ==
  Inv /\ Inv' /\ UpToDate(e) /\ Landing(e) /\ Bound(e)

\* The TODO in progress is due.
LEMMA CurrentIsDue ==
  ASSUME NEW e \in Editors, Editors = {e}, Ready(e), pc[e] \notin {"plan", "done"}
  PROVE  LET plan == task[e].plan
             p    == task[e].pos
         IN /\ plan \in [Langs -> 0..MaxTodos]
            /\ p \in Langs \X (1..MaxTodos) /\ p[2] <= plan[p[1]]
            /\ p \in Agenda(plan, p)
            /\ Contract!Due(p)
<1> DEFINE plan == task[e].plan
           p    == task[e].pos
<1>1. /\ plan \in [Langs -> 0..MaxTodos]
      /\ p \in Langs \X (1..MaxTodos) /\ p[2] <= plan[p[1]]
  BY DEF Ready, Inv, WellFormed, TypeOK, Tasks, LocalOK, Positions, UpToDate, InPlan
<1>2. p \in Agenda(plan, p) /\ \A q \in Agenda(plan, p) \ {p} : Precedes(p, q)
  BY <1>1, AgendaNext
<1> QED BY <1>1, <1>2, OneEditor DEF Contract!Due

\* Settling a TODO settles the item that is due, if the outcome is honest.
LEMMA ResolveSettlesItem ==
  ASSUME NEW e \in Editors, Editors = {e}, Ready(e), pc[e] \notin {"plan", "done"},
         NEW outcome \in Outcomes, Resolve(e, outcome), files' = files,
         Contract!Honest(outcome, IF task[e].diff = None THEN {} ELSE task[e].diff.places)
  PROVE  Contract!Next
<1> DEFINE plan    == task[e].plan
           p       == task[e].pos
           next    == NextTodo(plan, p)
           places  == IF task[e].diff = None THEN {} ELSE task[e].diff.places
<1>0. /\ task \in [Editors -> Tasks] /\ task[e] \in Tasks /\ pc \in [Editors -> PCs]
      /\ results \in [Editors -> Seq(Entries)]
      /\ report \in [Editors -> {"none", "no_todo", "summary", "error"}]
      /\ report[e] = "none"
  BY DEF Ready, Inv, WellFormed, TypeOK, Bound
<1>1. /\ plan \in [Langs -> 0..MaxTodos]
      /\ p \in Langs \X (1..MaxTodos) /\ p[2] <= plan[p[1]]
      /\ p \in Agenda(plan, p) /\ Contract!Due(p)
  BY CurrentIsDue
<1>2. /\ Agenda(plan, next) = Agenda(plan, p) \ {p}
      /\ Agenda(plan, next) = {} <=> next = End
  BY <1>1, AgendaNext
<1>3. places \in SUBSET (Langs \X Regions)
  BY <1>0 DEF Tasks, Diffs, Places
<1>4. results'[e] = Append(results[e], [pos |-> p, outcome |-> outcome, places |-> places])
  BY <1>0 DEF Resolve
<1>5. task'[e].plan = plan /\ task'[e].pos = next
  BY <1>0 DEF Resolve, AtTodo
<1>6. /\ pc'[e] \in {"done", "fetch"}
      /\ report'[e] = IF next = End THEN "summary" ELSE "none"
  BY <1>0 DEF Resolve
<1> HIDE DEF next, places
<1>7. Landed' = {}
  <2>1. Mine(e)' = {}
    BY <1>6, NothingYetAfter DEF Ready, NoTraceYet, ApplyPCs
  <2> QED BY <2>1, OneEditor DEF Landed, Mine, Trace
<1>8. Contract!Settle(p, outcome, places)
  BY <1>1, <1>2, <1>4, <1>5, <1>6, <1>7, OneEditor DEF Contract!Settle, places
<1>9. outcome \in Contract!Outcomes
  BY DEF Outcomes, Contract!Outcomes
<1> QED BY <1>1, <1>3, <1>8, <1>9, OneEditor DEF Contract!Next

\* Outside the patch process nothing has landed that is not settled, and any
\* outcome but applied is honest.
LEMMA FailureIsHonest ==
  ASSUME NEW e \in Editors, Editors = {e}, NEW outcome \in Outcomes, NEW places,
         Landed = {}, outcome # "applied"
  PROVE  Contract!Honest(outcome, places)
BY DEF Contract!Honest, Contract!Within, Outcomes

\* So is a failure of apply_diff, if the files were done one by one.
LEMMA FileByFile ==
  ASSUME NEW e \in Editors, Editors = {e}, task[e] \in Tasks, task[e].diff # None, Whole(e)
  PROVE  Contract!Honest("apply_failed", task[e].diff.places)
<1> DEFINE places == task[e].diff.places
<1>1. places \subseteq Langs \X Regions /\ Mine(e) \subseteq Langs \X Regions
  BY DEF Tasks, Diffs, Places, Mine
<1>2. ASSUME NEW f \in Langs
      PROVE  Contract!Within(Landed, f) \in {{}, Contract!Within(places, f)}
  <2>1. Contract!Within(Mine(e), f) = {q \in Mine(e) : q[1] = f}
    BY <1>1 DEF Contract!Within
  <2>2. Contract!Within(places, f) = Part(task[e].diff, f)
    BY <1>1 DEF Contract!Within, Part
  <2> QED BY <2>1, <2>2, LandedIsMine DEF Whole
<1> QED BY <1>2 DEF Contract!Honest

LEMMA StepRefines ==
  ASSUME NEW e \in Editors, Editors = {e}, Ready(e), EditorStep(e)
  PROVE  Contract!Next \/ UNCHANGED Contract!vars
<1> DEFINE plan == task[e].plan
           p    == task[e].pos
<1>0. /\ task \in [Editors -> Tasks] /\ task[e] \in Tasks /\ pc \in [Editors -> PCs]
      /\ results \in [Editors -> Seq(Entries)]
      /\ report \in [Editors -> {"none", "no_todo", "summary", "error"}]
      /\ files \in [Langs -> Contents] /\ LocalOK(e)
      /\ {"skipped", "gen_failed", "applied", "apply_failed"} \subseteq Outcomes
  BY DEF Ready, Inv, WellFormed, TypeOK, Outcomes
<1>e. TheEditor = e
  BY OneEditor
<1>u. ASSUME files' = files, results'[e] = results[e], report'[e] = report[e],
             task'[e].plan = plan, task'[e].pos = p, Landed' = Landed
      PROVE  UNCHANGED Contract!vars
  BY <1>e, <1>u, Unseen
<1>w. ASSUME files' = files, results' = results, report' = report,
             task'[e].plan = plan, task'[e].pos = p, wrote' = wrote
      PROVE  UNCHANGED Contract!vars
  BY <1>e, <1>u, <1>w DEF Landed
<1>a. ASSUME Abort(e), pc[e] \in {"plan", "llm"}
      PROVE  Contract!Next
  <2>1. /\ report[e] = "none" /\ report'[e] = "error"
        /\ pc'[e] = "done" /\ task'[e] = Idle
        /\ UNCHANGED <<files, results>>
    BY <1>0, <1>a DEF Abort, shared, Ready, Bound
  <2>2. Mine(e) = {} /\ Mine(e)' = {}
    BY <1>a, <2>1, NothingYet, NothingYetAfter DEF Ready, NoTraceYet, ApplyPCs
  <2>n. Landed = {} /\ Landed' = {}
    BY <2>2, LandedIsMine, OneEditor DEF Landed, Mine, Trace
  <2>3. [l \in Langs |-> 0] \in [Langs -> 0..MaxTodos]
    BY SubAgentAssumption
  <2>4. Agenda(task'[e].plan, task'[e].pos) = {}
    BY <2>1, <2>3, AgendaAtEnd DEF Idle, AtTodo
  <2>5. Contract!GiveUp
    BY <1>e, <2>1, <2>n, <2>4 DEF Contract!GiveUp
  <2> QED BY <2>5 DEF Contract!Next
<1>r. ASSUME NEW outcome \in Outcomes, Resolve(e, outcome), files' = files,
             pc[e] \notin {"plan", "done", "afile", "awrite", "aexit", "latest"},
             outcome # "applied"
      PROVE  Contract!Next
  <2>0. Mine(e) = {}
    <3>1. CASE pc[e] \notin ApplyPCs
      BY <3>1, NothingYet DEF Ready, NoTraceYet
    <3>2. CASE pc[e] \in ApplyPCs
      BY <1>r, <3>2 DEF Ready, Bound, ApplyPCs
    <3> QED BY <3>1, <3>2
  <2>1. Landed = {}
    BY <2>0, LandedIsMine
  <2>2. Contract!Honest(outcome, IF task[e].diff = None THEN {} ELSE task[e].diff.places)
    BY <1>r, <2>1, FailureIsHonest
  <2> QED BY <1>r, <2>2, ResolveSettlesItem
<1>v. ASSUME VirtualTestFails(e), pc[e] \in {"vget", "vput", "vdry"}
      PROVE  Contract!Next \/ UNCHANGED Contract!vars
  <2>1. CASE task[e].attempt < MaxRetries
    <3>1. /\ task'[e].plan = plan /\ task'[e].pos = p /\ pc'[e] = "fetch"
          /\ UNCHANGED <<files, results, report, wrote>>
      BY <1>0, <1>v, <2>1 DEF VirtualTestFails, Tasks
    <3> QED BY <1>v, <1>w, <3>1
  <2>2. CASE ~(task[e].attempt < MaxRetries)
    BY <1>0, <1>r, <1>v, <2>2 DEF VirtualTestFails
  <2> QED BY <2>1, <2>2
<1>1. CASE ListTodo(e)
  <2>1. PICK new \in Plans :
          LET first == FirstFrom(new, 1)
          IN /\ task' = [task EXCEPT ![e] = AtTodo(new, first)]
             /\ IF first = End
                THEN /\ pc' = [pc EXCEPT ![e] = "done"]
                     /\ report' = [report EXCEPT ![e] = "no_todo"]
                ELSE /\ pc' = [pc EXCEPT ![e] = "fetch"]
                     /\ UNCHANGED report
    BY <1>1 DEF ListTodo
  <2> DEFINE first == FirstFrom(new, 1)
  <2>2. /\ new \in [Langs -> 0..MaxTodos]
        /\ Agenda(new, first) = Agenda(new, <<1, 1>>)
        /\ Agenda(new, first) = {} <=> first = End
    BY SubAgentAssumption, AgendaFirst
  <2>3. /\ pc[e] = "plan" /\ report[e] = "none" /\ results[e] = <<>> /\ task[e] = Idle
        /\ UNCHANGED <<files, results>>
    BY <1>0, <1>1 DEF ListTodo, shared, Ready, Bound, LocalOK
  <2> HIDE DEF first
  <2>4. /\ task'[e].plan = new /\ task'[e].pos = first
        /\ pc'[e] \in {"done", "fetch"}
        /\ report'[e] = IF first = End THEN "no_todo" ELSE "none"
    BY <1>0, <2>1, <2>3 DEF AtTodo, first
  <2>m. Mine(e) = {} /\ Mine(e)' = {}
    BY <2>3, <2>4, NothingYet, NothingYetAfter DEF Ready, NoTraceYet, ApplyPCs
  <2>5. Landed = {} /\ Landed' = {}
    BY <2>m, OneEditor DEF Landed, Mine, Trace
  <2>6. Agenda(task[e].plan, task[e].pos) = {}
    <3>1. [l \in Langs |-> 0] \in [Langs -> 0..MaxTodos]
      BY SubAgentAssumption
    <3> QED BY <2>3, <3>1, AgendaAtEnd DEF Idle, AtTodo
  <2>7. Contract!Accept
    BY <1>e, <2>2, <2>3, <2>4, <2>5, <2>6 DEF Contract!Accept
  <2> QED BY <2>7 DEF Contract!Next
<1>2. CASE ListTodoRaises(e) \/ LlmRaises(e)
  BY <1>a, <1>2 DEF ListTodoRaises, LlmRaises
<1>3. CASE FetchFails(e) \/ LlmSkips(e)
  BY <1>0, <1>r, <1>3 DEF FetchFails, LlmSkips, shared
<1>4. CASE VirtualGetFails(e) \/ VirtualPutFails(e) \/ VirtualDryRunFails(e)
  BY <1>v, <1>4 DEF VirtualGetFails, VirtualPutFails, VirtualDryRunFails
<1>5. CASE \/ ApplyGetFails(e) \/ ApplyPutFails(e) \/ ApplyDryRunFails(e)
           \/ PatchStartFails(e)
  BY <1>0, <1>r, <1>5 DEF ApplyGetFails, ApplyPutFails, ApplyDryRunFails,
                          PatchStartFails, ApplyFails, shared
<1>6. CASE \/ FetchSource(e) \/ LlmAnswers(e) \/ VirtualGet(e) \/ VirtualDryRun(e)
           \/ ApplyGet(e) \/ PatchStarts(e) \/ PatchReads(e)
  <2>1. /\ task'[e].plan = plan /\ task'[e].pos = p
        /\ UNCHANGED <<files, results, report, wrote>>
    BY <1>0, <1>6 DEF FetchSource, LlmAnswers, VirtualGet, VirtualDryRun, ApplyGet,
                      PatchStarts, PatchReads, Goto, shared, Tasks
  <2> QED BY <1>w, <2>1
<1>7. CASE VirtualPut(e) \/ ApplyPut(e) \/ ApplyDryRun(e) \/ PatchExits(e)
  <2>1. UNCHANGED <<task, files, results, report, wrote>>
    BY <1>0, <1>7 DEF VirtualPut, ApplyPut, ApplyDryRun, PatchExits, Goto, shared
  <2> QED BY <1>w, <2>1
<1>8. CASE PatchRenames(e)
  <2> DEFINE diff == task[e].diff
             f    == task[e].run.read.file
             part == Part(diff, f)
             hit  == {r \in Regions : <<f, r>> \in part}
  <2>1. /\ UNCHANGED <<report, results>>
        /\ diff \in Diffs /\ diff.todo = TodoAt(e, p)
        /\ f \in Langs /\ f \in task[e].run.left
        /\ Hits(diff, f, files[f]) = part
        /\ files' = IF part = {} THEN files
                    ELSE [files EXCEPT ![f] = Patched(diff, f, files[f])]
        /\ task'[e].plan = plan /\ task'[e].pos = p
        /\ Mine(e)' = Mine(e) \cup part
    BY <1>8, RenameWrites DEF Ready, Inv
  <2>2. pc[e] = "awrite" /\ Mine(e) = {q \in diff.places : q[1] \notin task[e].run.left}
    BY <1>8 DEF PatchRenames, Ready, Bound
  <2>3. Landed = Mine(e) /\ Landed' = Mine(e) \cup part
    BY <2>1, OneEditor DEF Landed, Mine, Trace
  <2> HIDE DEF diff, f
  <2>4. part = {f} \X hit /\ hit \subseteq Regions
    BY <2>1 DEF Part, Diffs, Places
  <2> HIDE DEF part, hit
  <2>5. CASE part = {}
    BY <1>u, <2>1, <2>3, <2>5
  <2>6. CASE part # {}
    <3>1. p \in Agenda(plan, p) /\ Contract!Due(p)
      BY <2>2, CurrentIsDue
    <3>2. Contract!Within(Landed, f) = {}
      BY <2>1, <2>2, <2>3 DEF Contract!Within
    <3>3. Patched(diff, f, files[f])
            = [r \in Regions |-> IF r \in hit THEN Trace(p) ELSE files[f][r]]
      BY <1>e, <2>1 DEF Patched, Trace, hit
    <3>4. files' = [files EXCEPT ![f] = [r \in Regions |-> IF r \in hit THEN Trace(p) ELSE @[r]]]
      BY <2>1, <2>6, <3>3
    <3>5. hit # {}
      BY <2>4, <2>6
    <3>6. Contract!Land(p, f, hit)
      BY <1>e, <2>1, <2>3, <2>4, <3>1, <3>2, <3>4, <3>5 DEF Contract!Land
    <3> QED BY <1>e, <2>1, <2>4, <3>1, <3>6 DEF Contract!Next
  <2> QED BY <2>5, <2>6
\* The files are done one by one: what a killed process leaves is honest.
<1>9. CASE PatchKilled(e)
  <2>1. pc[e] \in {"afile", "awrite"} /\ files' = files /\ Resolve(e, "apply_failed")
    BY <1>9 DEF PatchKilled, ApplyFails, shared
  <2>2. task[e] \in Tasks /\ task[e].diff # None /\ Whole(e)
    BY <1>0, <2>1 DEF Ready, Bound, LocalOK, DiffPCs, ApplyPCs
  <2>3. Contract!Honest("apply_failed", task[e].diff.places)
    BY <2>2, FileByFile
  <2> QED BY <1>0, <2>1, <2>2, <2>3, ResolveSettlesItem
<1>10. CASE PatchExitFails(e) \/ ReadBack(e)
  <2>1. /\ pc[e] \in {"aexit", "latest"} /\ files' = files
        /\ \E outcome \in {"applied", "apply_failed"} : Resolve(e, outcome)
    BY <1>10 DEF PatchExitFails, ReadBack, ApplyFails, shared
  <2>2. task[e].diff # None /\ Mine(e) = task[e].diff.places
    BY <1>0, <2>1 DEF Ready, Bound, LocalOK, DiffPCs, ApplyPCs
  <2>3. Landed = task[e].diff.places
    BY <2>2, LandedIsMine
  <2>4. \A outcome \in {"applied", "apply_failed"} :
          Contract!Honest(outcome, task[e].diff.places)
    BY <2>3 DEF Contract!Honest
  <2> QED BY <1>0, <2>1, <2>2, <2>4, ResolveSettlesItem
<1> QED BY <1>1, <1>2, <1>3, <1>4, <1>5, <1>6, <1>7, <1>8, <1>9, <1>10
        DEF EditorStep, Generate, Apply

\* Requests on the container are unseen, but for its re-creation.
LEMMA ContainerRefines ==
  ASSUME NEW e \in Editors, Editors = {e}, Ready(e), ContainerStep
  PROVE  Contract!Next \/ UNCHANGED Contract!vars
<1>e. TheEditor = e
  BY OneEditor
<1>1. /\ pc' = pc /\ results' = results /\ report' = report /\ wrote' = wrote
      /\ task' = task \/ KillRuns
  BY DEF ContainerStep, StopContainer, StartContainer, DeleteContainer, CreateContainer
<1>2. /\ task[e] \in Tasks
      /\ task'[e].plan = task[e].plan /\ task'[e].pos = task[e].pos
  BY <1>1 DEF KillRuns, Ready, Inv, WellFormed, TypeOK, Tasks
<1>3. Landed' = Landed
  BY <1>1, <1>2, <1>e DEF Landed
<1>4. CASE files' = files
  BY <1>1, <1>2, <1>3, <1>4, <1>e, Unseen
<1>5. CASE CreateContainer
  <2>1. files' = [l \in Langs |-> [r \in Regions |-> Orig]]
    BY <1>5 DEF CreateContainer
  <2>2. Contract!Recreate
    BY <1>1, <1>2, <1>3, <1>e, <2>1 DEF Contract!Recreate, Contract!Blank, Agenda
  <2> QED BY <2>2 DEF Contract!Next
<1> QED BY <1>4, <1>5 DEF ContainerStep, StopContainer, StartContainer, DeleteContainer

LEMMA InitRefines ==
  ASSUME NEW e \in Editors, Editors = {e}, Init
  PROVE  Contract!Init /\ UpToDate(e) /\ Landing(e) /\ Bound(e)
<1>1. /\ task[e] = Idle /\ pc[e] = "plan" /\ report[e] = "none" /\ results[e] = <<>>
      /\ wrote = {}
      /\ files = [l \in Langs |-> [r \in Regions |-> Orig]]
  BY DEF Init
<1>2. [l \in Langs |-> 0] \in [Langs -> 0..MaxTodos]
  BY SubAgentAssumption
<1>3. Agenda(task[e].plan, task[e].pos) = {} /\ Landed = {}
  BY <1>1, <1>2, AgendaAtEnd, OneEditor DEF Idle, AtTodo, Landed
<1>4. Contract!Init
  BY <1>1, <1>3, OneEditor DEF Contract!Init, Contract!Blank
<1> QED BY <1>1, <1>4 DEF UpToDate, Landing, Bound, DiffPCs, ApplyPCs

\* A task alone on its container keeps the edit contract: its TODOs are settled
\* in order, each changes a file by all its hunks for that file or not at all, and
\* what is reported of it is true, whatever is done to the container meanwhile.
\* Which files those are is up to the diff, which may also be empty.
THEOREM KeepsContract ==
  ASSUME NEW e \in Editors, Editors = {e}
  PROVE  Spec => ImplementsContract
<1> DEFINE J == UpToDate(e) /\ Landing(e) /\ Truthful(e) /\ Bound(e)
<1>1. Init => J /\ Contract!Init
  BY InitRefines DEF Init, Truthful
<1>2. Inv /\ Inv' /\ J /\ [Next]_vars => J' /\ [Contract!Next]_(Contract!vars)
  <2> SUFFICES ASSUME Inv, Inv', J, [Next]_vars
               PROVE  J' /\ (Contract!Next \/ UNCHANGED Contract!vars)
    OBVIOUS
  <2>0. WellFormed /\ Ready(e) /\ NoTraceYet
    BY NothingYet DEF Inv, Ready
  <2>1. UpToDate(e)'
    BY UpToDateKept
  <2>2. CASE \E x \in Editors : EditorStep(x)
    <3>1. EditorStep(e)
      BY <2>2
    <3> QED BY <2>0, <2>1, <3>1, LandingStep, BoundStep, StepRefines
  <2>3. CASE ContainerStep
    BY <2>0, <2>1, <2>3, LandingContainer, BoundContainer, ContainerRefines
  <2>4. CASE UNCHANGED vars
    <3>1. Landing(e)' /\ Truthful(e)' /\ Bound(e)'
      BY <2>4 DEF vars, shared, Landing, Truthful, Bound, Entry, TodoOf, Fits, Hits,
                  Part, Mine, Whole
    <3>2. UNCHANGED Contract!vars
      BY <2>4, Unseen DEF vars, shared, Landed
    <3> QED BY <2>1, <3>1, <3>2
  <2> QED BY <2>2, <2>3, <2>4 DEF Next
<1> QED BY <1>1, <1>2, Invariance, PTL DEF Spec, ImplementsContract, Contract!Spec
=============================================================================
