-------------------------- MODULE SubAgent_proofs --------------------------
(***************************************************************************)
(* Proofs about SubAgent for any number of editors, regions, TODOs, retries *)
(* and container requests.                                                 *)
(***************************************************************************)
EXTENDS SubAgent, TLAPS

(* The inductive invariant behind the properties. *)

\* Program counters at which llm_diff has returned a tested diff, and those at
\* which an editor holds a diff at all.
ApplyPCs == {"aget", "aput", "adry", "aread", "afile", "awrite", "aexit", "latest"}
DiffPCs  == {"vget", "vput", "vdry"} \cup ApplyPCs

\* What an editor's local variables hold at each place.
LocalOK(e) ==
  /\ pc[e] \notin {"plan", "done"} => task[e].pos # End
  /\ pc[e] = "plan" => results[e] = <<>>
  /\ pc[e] = "llm" => task[e].src # None
  /\ pc[e] \in DiffPCs =>
       task[e].diff # None /\ task[e].diff.todo = TodoAt(e, task[e].pos)
  /\ task[e].conn <= container.inc
  /\ pc[e] \in {"adry", "aread"} /\ task[e].conn = container.inc => patchFile # None
  /\ pc[e] = "awrite" /\ task[e].run # None =>
       task[e].run.read # None /\ task[e].run.read.file \in task[e].run.left

WellFormed == TypeOK /\ container.inc <= ops + 1 /\ \A e \in Editors : LocalOK(e)

\* Results are ordered and lie before the current position.
ResultsOrdered ==
  \A e \in Editors :
    /\ \A i, j \in 1..Len(results[e]) :
         i < j => Precedes(Entry(e, i).pos, Entry(e, j).pos)
    /\ \A i \in 1..Len(results[e]) : Precedes(Entry(e, i).pos, task[e].pos)

\* The diff of todo t passed its virtual test: apply_diff has it or had it.
Offered(t) ==
  \/ pc[t[1]] \in ApplyPCs /\ TodoAt(t[1], task[t[1]].pos) = t
  \/ \E i \in 1..Len(results[t[1]]) :
       /\ TodoOf(t[1], i) = t
       /\ Entry(t[1], i).outcome \in {"applied", "apply_failed"}

\* Only an offered diff is ever in /tmp/patch.diff, in a real patch process or
\* in a web file.
OnlyOffered ==
  /\ patchFile # None => Offered(patchFile.todo)
  /\ \A e \in Editors : task[e].run # None => Offered(task[e].run.diff.todo)
  /\ \A w \in wrote : Offered(w[1])

Inv == WellFormed /\ ResultsOrdered /\ OnlyOffered

-----------------------------------------------------------------------------

USE DEF Langs

-----------------------------------------------------------------------------
(* Walking the TODO list. *)

\* FirstFrom stays in the list and never goes back to an earlier language.
LEMMA FirstFromType ==
  ASSUME NEW plan \in [Langs -> 0..MaxTodos], NEW l \in 1..4
  PROVE  /\ FirstFrom(plan, l) \in Positions
         /\ FirstFrom(plan, l)[1] >= l
<1> DEFINE busy == {m \in Langs : m >= l /\ plan[m] > 0}
<1>0. MaxTodos \in Nat
  BY SubAgentAssumption
<1>1. CASE busy = {}
  BY <1>1 DEF FirstFrom, Positions, End
<1>2. CASE busy # {}
  <2> DEFINE first == CHOOSE m \in busy : \A n \in busy : m <= n
  <2>1. \E m \in busy : \A n \in busy : m <= n
    <3>1. CASE 1 \in busy
      BY <3>1
    <3>2. CASE 1 \notin busy /\ 2 \in busy
      BY <3>2
    <3>3. CASE 1 \notin busy /\ 2 \notin busy
      BY <3>3, <1>2
    <3> QED BY <3>1, <3>2, <3>3
  <2>2. first \in busy
    BY <2>1
  <2>3. FirstFrom(plan, l) = <<first, 1>>
    BY <1>2 DEF FirstFrom
  <2> HIDE DEF first
  <2>4. 1 \in 1..MaxTodos
    BY <2>2, <1>0
  <2> QED BY <2>2, <2>3, <2>4 DEF Positions
<1> QED BY <1>1, <1>2

\* NextTodo stays in the list and moves strictly forward.
LEMMA NextTodoType ==
  ASSUME NEW plan \in [Langs -> 0..MaxTodos], NEW p \in Langs \X (1..MaxTodos)
  PROVE  NextTodo(plan, p) \in Positions /\ Precedes(p, NextTodo(plan, p))
<1>0. MaxTodos \in Nat
  BY SubAgentAssumption
<1>1. CASE p[2] < plan[p[1]]
  BY <1>0, <1>1 DEF NextTodo, Positions, Precedes
<1>2. CASE ~(p[2] < plan[p[1]])
  <2>1. NextTodo(plan, p) = FirstFrom(plan, p[1] + 1)
    BY <1>2 DEF NextTodo
  <2>2. p[1] + 1 \in 1..4
    OBVIOUS
  <2>3. /\ FirstFrom(plan, p[1] + 1) \in Positions
        /\ FirstFrom(plan, p[1] + 1)[1] >= p[1] + 1
    BY <2>2, FirstFromType
  <2>4. FirstFrom(plan, p[1] + 1)[1] \in Nat
    BY <2>3 DEF Positions, End
  <2> QED BY <2>1, <2>3, <2>4 DEF Precedes
<1> QED BY <1>1, <1>2

LEMMA PrecedesTransitive ==
  ASSUME NEW p \in Positions, NEW q \in Positions, NEW s \in Positions,
         Precedes(p, q), Precedes(q, s)
  PROVE  Precedes(p, s)
<1>1. MaxTodos \in Nat
  BY SubAgentAssumption
<1> QED BY <1>1 DEF Precedes, Positions, End

-----------------------------------------------------------------------------
(* Well-formedness. *)

LEMMA PatchTypes ==
  ASSUME NEW d \in Diffs, NEW l \in Langs, NEW text \in Contents
  PROVE  /\ FilesOf(d) \in SUBSET Langs
         /\ Hits(d, l, text) \in SUBSET Places
         /\ Patched(d, l, text) \in Contents
<1>1. d.todo \in Todos /\ d.places \in SUBSET Places
  BY DEF Diffs
<1>2. Hits(d, l, text) \in SUBSET Places
  BY <1>1 DEF Hits, Part
<1>3. FilesOf(d) \in SUBSET Langs
  BY <1>1 DEF FilesOf, Places
<1> QED BY <1>1, <1>2, <1>3 DEF Patched, Contents, Values

\* The places an editor step leaves alone keep their local invariant.
LEMMA FrameOK ==
  ASSUME WellFormed, NEW e \in Editors, NEW x \in Editors, x # e,
         pc'[x] = pc[x], task'[x] = task[x], results'[x] = results[x],
         container' = container, patchFile' = patchFile \/ patchFile' # None
  PROVE  LocalOK(x)'
BY DEF WellFormed, LocalOK, TodoAt

\* An editor step that keeps its results and the container is well-formed when
\* the editor's own part is.
LEMMA StepOK ==
  ASSUME WellFormed, NEW e \in Editors,
         pc' \in [Editors -> PCs],
         task' \in [Editors -> Tasks],
         results' \in [Editors -> Seq(Entries)],
         report' \in [Editors -> {"none", "no_todo", "summary", "error"}],
         \A x \in Editors \ {e} :
           pc'[x] = pc[x] /\ task'[x] = task[x] /\ results'[x] = results[x],
         container' = container, ops' = ops,
         files' \in [Langs -> Contents],
         testPatch' \in Diffs \cup {None},
         patchFile' = patchFile \/ (patchFile' \in Diffs /\ patchFile' # None),
         wrote' \subseteq Todos \X Places,
         LocalOK(e)'
  PROVE  WellFormed'
<1>1. TypeOK'
  BY DEF WellFormed, TypeOK
<1>2. \A x \in Editors : LocalOK(x)'
  <2> TAKE x \in Editors
  <2>1. CASE x = e
    BY <2>1
  <2>2. CASE x # e
    BY <2>2, FrameOK DEF WellFormed, TypeOK
  <2> QED BY <2>1, <2>2
<1> QED BY <1>1, <1>2 DEF WellFormed

LEMMA AtTodoType ==
  ASSUME NEW plan \in [Langs -> 0..MaxTodos], NEW p \in Positions
  PROVE  AtTodo(plan, p) \in Tasks
BY SubAgentAssumption DEF AtTodo, Tasks

LEMMA IdleType == Idle \in Tasks
BY SubAgentAssumption DEF Idle, AtTodo, Tasks, Positions, End

LEMMA InitWellFormed == Init => WellFormed
<1> SUFFICES ASSUME Init PROVE WellFormed
  OBVIOUS
<1>1. Idle \in Tasks
  BY IdleType
<1>2. TypeOK
  BY <1>1, SubAgentAssumption DEF Init, TypeOK, PCs, Contents, Values
<1> QED BY <1>2, SubAgentAssumption
        DEF Init, WellFormed, LocalOK, Idle, AtTodo, DiffPCs, ApplyPCs

\* Settling a TODO keeps the pipeline well-formed.
LEMMA ResolveWellFormed ==
  ASSUME WellFormed, NEW e \in Editors, NEW outcome \in Outcomes,
         pc[e] \notin {"plan", "done"}, Resolve(e, outcome),
         UNCHANGED <<container, files, patchFile, ops, wrote>>,
         testPatch' \in Diffs \cup {None}
  PROVE  WellFormed'
<1> DEFINE t     == task[e]
           next  == NextTodo(t.plan, t.pos)
           entry == [pos |-> t.pos, outcome |-> outcome,
                     places |-> IF t.diff = None THEN {} ELSE t.diff.places]
<1>1. t \in Tasks /\ t.pos # End
  BY DEF WellFormed, TypeOK, LocalOK
<1>2. t.pos \in Langs \X (1..MaxTodos)
  BY <1>1 DEF Tasks, Positions
<1>3. next \in Positions
  BY <1>1, <1>2, NextTodoType DEF Tasks
<1>4. AtTodo(t.plan, next) \in Tasks
  BY <1>1, <1>3, AtTodoType DEF Tasks
<1>5. entry \in Entries
  BY <1>1 DEF Entries, Tasks, Diffs
<1>6. results' = [results EXCEPT ![e] = Append(@, entry)]
  BY DEF Resolve
<1>7. results' \in [Editors -> Seq(Entries)]
  <2> HIDE DEF entry
  <2> QED BY <1>5, <1>6 DEF WellFormed, TypeOK
<1> HIDE DEF next
<1>8. task' = [task EXCEPT ![e] = AtTodo(t.plan, next)]
  BY DEF Resolve, next
<1>9. pc' = [pc EXCEPT ![e] = IF next = End THEN "done" ELSE "fetch"]
  BY DEF Resolve, next
<1>10. report' \in [Editors -> {"none", "no_todo", "summary", "error"}]
  BY DEF Resolve, next, WellFormed, TypeOK
<1>11. LocalOK(e)'
  BY <1>8, <1>9 DEF LocalOK, DiffPCs, ApplyPCs, WellFormed, TypeOK, AtTodo
<1>12. pc' \in [Editors -> PCs]
  BY <1>9 DEF PCs, WellFormed, TypeOK
<1>13. task' \in [Editors -> Tasks]
  BY <1>4, <1>8 DEF WellFormed, TypeOK
<1>14. \A x \in Editors \ {e} :
         pc'[x] = pc[x] /\ task'[x] = task[x] /\ results'[x] = results[x]
  BY <1>6, <1>8, <1>9 DEF WellFormed, TypeOK
<1>15. /\ container' = container /\ ops' = ops /\ patchFile' = patchFile
       /\ files' \in [Langs -> Contents]
       /\ wrote' \subseteq Todos \X Places
  BY DEF WellFormed, TypeOK
<1> QED BY <1>7, <1>10, <1>11, <1>12, <1>13, <1>14, <1>15, StepOK

LEMMA AbortWellFormed ==
  ASSUME WellFormed, NEW e \in Editors, Abort(e)
  PROVE  WellFormed'
<1>1. Idle \in Tasks
  BY IdleType
<1>2. LocalOK(e)'
  BY DEF Abort, LocalOK, WellFormed, TypeOK, shared, Idle, AtTodo, DiffPCs, ApplyPCs
<1>3. /\ pc' \in [Editors -> PCs]
      /\ task' \in [Editors -> Tasks]
      /\ results' \in [Editors -> Seq(Entries)]
      /\ report' \in [Editors -> {"none", "no_todo", "summary", "error"}]
  BY <1>1 DEF Abort, WellFormed, TypeOK, shared, PCs
<1>4. /\ container' = container /\ ops' = ops /\ patchFile' = patchFile
      /\ files' \in [Langs -> Contents]
      /\ testPatch' \in Diffs \cup {None}
      /\ wrote' \subseteq Todos \X Places
  BY DEF Abort, WellFormed, TypeOK, shared
<1>5. \A x \in Editors \ {e} :
        pc'[x] = pc[x] /\ task'[x] = task[x] /\ results'[x] = results[x]
  BY DEF Abort, WellFormed, TypeOK
<1> QED BY <1>2, <1>3, <1>4, <1>5, StepOK

\* A step of editor e from one place to another is well-formed when its own
\* part is.
LEMMA GotoOK ==
  ASSUME WellFormed, NEW e \in Editors, NEW from \in PCs, NEW to \in PCs,
         Goto(e, from, to),
         \E t \in Tasks : task' = [task EXCEPT ![e] = t],
         UNCHANGED <<results, report, container, ops>>,
         files' \in [Langs -> Contents],
         testPatch' \in Diffs \cup {None},
         patchFile' = patchFile \/ (patchFile' \in Diffs /\ patchFile' # None),
         wrote' \subseteq Todos \X Places,
         LocalOK(e)'
  PROVE  WellFormed'
<1>1. /\ pc' \in [Editors -> PCs]
      /\ \A x \in Editors \ {e} : pc'[x] = pc[x]
  BY DEF Goto, WellFormed, TypeOK
<1>2. PICK t \in Tasks : task' = [task EXCEPT ![e] = t]
  OBVIOUS
<1>3. /\ task' \in [Editors -> Tasks]
      /\ \A x \in Editors \ {e} : task'[x] = task[x]
  BY <1>2 DEF WellFormed, TypeOK
<1>4. /\ results' \in [Editors -> Seq(Entries)]
      /\ report' \in [Editors -> {"none", "no_todo", "summary", "error"}]
      /\ results' = results /\ container' = container /\ ops' = ops
  BY DEF WellFormed, TypeOK
<1>5. \A x \in Editors \ {e} :
        pc'[x] = pc[x] /\ task'[x] = task[x] /\ results'[x] = results[x]
  BY <1>1, <1>3, <1>4
<1> QED BY <1>1, <1>3, <1>4, <1>5, StepOK

\* A failed virtual test, by a new attempt or by giving the TODO up.
LEMMA VirtualTestFailsWellFormed ==
  ASSUME WellFormed, NEW e \in Editors, pc[e] \in {"vget", "vput", "vdry"},
         VirtualTestFails(e), testPatch' \in Diffs \cup {None}
  PROVE  WellFormed'
<1>0. /\ TypeOK /\ LocalOK(e) /\ task[e] \in Tasks
      /\ task \in [Editors -> Tasks] /\ pc \in [Editors -> PCs]
  BY DEF WellFormed, TypeOK
<1>1. CASE task[e].attempt < MaxRetries
  <2> DEFINE t == [task[e] EXCEPT !.attempt = @ + 1, !.diff = None, !.conn = 0]
  <2>0. task[e].attempt + 1 \in 1..MaxRetries /\ 0 \in 0..(MaxOps + 1)
    BY <1>0, <1>1, SubAgentAssumption DEF Tasks
  <2>1. t \in Tasks
    BY <1>0, <2>0 DEF Tasks
  <2>2. task' = [task EXCEPT ![e] = t]
    BY <1>1 DEF VirtualTestFails
  <2>3. t.pos = task[e].pos /\ t.conn = 0
    BY <1>0 DEF Tasks
  <2> HIDE DEF t
  <2>4. LocalOK(e)'
    BY <1>0, <1>1, <2>2, <2>3
       DEF VirtualTestFails, LocalOK, TypeOK, DiffPCs, ApplyPCs
  <2>5. Goto(e, pc[e], "fetch") /\ UNCHANGED <<results, report>>
    BY <1>1 DEF VirtualTestFails, Goto
  <2> QED BY <1>0, <2>1, <2>2, <2>4, <2>5, GotoOK
          DEF VirtualTestFails, TypeOK, PCs
<1>2. CASE ~(task[e].attempt < MaxRetries)
  BY <1>2, ResolveWellFormed DEF VirtualTestFails, Outcomes
<1> QED BY <1>1, <1>2

\* llm_diff.
LEMMA GenerateWellFormed ==
  ASSUME WellFormed, NEW e \in Editors, Generate(e)
  PROVE  WellFormed'
<1> USE DEF DiffPCs, ApplyPCs
<1>0. /\ TypeOK /\ LocalOK(e) /\ task[e] \in Tasks
      /\ task \in [Editors -> Tasks] /\ pc \in [Editors -> PCs]
      /\ {"skipped", "gen_failed"} \subseteq Outcomes
  BY DEF WellFormed, TypeOK, Outcomes
<1>1. CASE FetchSource(e)
  <2> DEFINE t == [task[e] EXCEPT !.src = files[task[e].pos[1]]]
  <2>1. task[e].pos[1] \in Langs
    BY <1>0, <1>1 DEF FetchSource, Goto, LocalOK, Tasks, Positions
  <2>2. files[task[e].pos[1]] \in Contents
    BY <1>0, <2>1 DEF TypeOK
  <2>3. t \in Tasks /\ t.src # None
    BY <1>0, <2>2, NoneAssumption DEF Tasks
  <2>4. task' = [task EXCEPT ![e] = t]
    BY <1>1 DEF FetchSource
  <2>5. LocalOK(e)'
    BY <1>0, <1>1, <2>3, <2>4 DEF FetchSource, Goto, LocalOK, shared, Tasks
  <2> HIDE DEF t
  <2> QED BY <1>0, <1>1, <2>3, <2>4, <2>5, GotoOK DEF FetchSource, shared, TypeOK, PCs
<1>2. CASE FetchFails(e)
  BY <1>0, <1>2, ResolveWellFormed DEF FetchFails, shared, TypeOK
<1>3. CASE LlmSkips(e)
  BY <1>0, <1>3, ResolveWellFormed DEF LlmSkips, shared, TypeOK
<1>4. CASE LlmAnswers(e)
  <2>1. PICK places \in Edits, guess \in [Langs -> Guesses], bad \in BOOLEAN :
          LET base == [guess EXCEPT ![task[e].pos[1]] = task[e].src]
          IN task' = [task EXCEPT ![e].src = None,
                                  ![e].diff = [todo |-> TodoAt(e, task[e].pos), base |-> base,
                                               places |-> places, bad |-> bad]]
    BY <1>4 DEF LlmAnswers
  <2> DEFINE base == [guess EXCEPT ![task[e].pos[1]] = task[e].src]
             d == [todo |-> TodoAt(e, task[e].pos), base |-> base,
                   places |-> places, bad |-> bad]
             t == [task[e] EXCEPT !.src = None, !.diff = d]
  <2>2. pc[e] = "llm" /\ task[e].pos # End /\ task[e].src # None
    BY <1>0, <1>4 DEF LlmAnswers, Goto, LocalOK
  <2>a. base \in [Langs -> Contents]
    BY <1>0, <2>2, DiffAssumption DEF Tasks
  <2>b. places \in SUBSET Places
    BY DiffAssumption
  <2> HIDE DEF base
  <2>3. d \in Diffs
    BY <1>0, <2>2, <2>a, <2>b DEF Diffs, Todos, TodoAt, Tasks, Positions
  <2>4. d # None /\ d.todo = TodoAt(e, task[e].pos)
    BY <2>3, NoneAssumption
  <2> HIDE DEF d
  <2>5. t \in Tasks /\ t.diff = d /\ t.pos = task[e].pos /\ t.conn = task[e].conn
    BY <1>0, <2>3 DEF Tasks
  <2>6. task' = [task EXCEPT ![e] = t]
    BY <2>1 DEF d, base
  <2> HIDE DEF t
  <2>7. LocalOK(e)'
    BY <1>0, <1>4, <2>2, <2>4, <2>5, <2>6
       DEF LlmAnswers, Goto, LocalOK, shared, TodoAt
  <2> QED BY <1>0, <1>4, <2>5, <2>6, <2>7, GotoOK DEF LlmAnswers, shared, TypeOK, PCs
<1>5. CASE LlmRaises(e)
  BY <1>5, AbortWellFormed DEF LlmRaises
<1>6. CASE VirtualGet(e)
  <2> DEFINE t == [task[e] EXCEPT !.conn = container.inc]
  <2>0. container.inc \in 0..(MaxOps + 1)
    BY <1>0, SubAgentAssumption DEF TypeOK
  <2>1. t \in Tasks
    BY <1>0, <2>0 DEF Tasks
  <2>2. task' = [task EXCEPT ![e] = t]
    BY <1>6 DEF VirtualGet
  <2>3. LocalOK(e)'
    BY <1>0, <1>6, <2>2 DEF VirtualGet, Goto, LocalOK, shared, TodoAt, Tasks, TypeOK
  <2> HIDE DEF t
  <2> QED BY <1>0, <1>6, <2>1, <2>2, <2>3, GotoOK DEF VirtualGet, shared, TypeOK, PCs
<1>7. CASE VirtualGetFails(e)
  BY <1>0, <1>7, VirtualTestFailsWellFormed DEF VirtualGetFails, TypeOK
<1>8. CASE VirtualPut(e)
  <2>1. task[e].diff \in Diffs
    BY <1>0, <1>8 DEF VirtualPut, Goto, LocalOK, Tasks
  <2>2. LocalOK(e)'
    BY <1>0, <1>8 DEF VirtualPut, Goto, LocalOK, TodoAt
  <2>3. task' = [task EXCEPT ![e] = task[e]]
    BY <1>0, <1>8 DEF VirtualPut
  <2> QED BY <1>0, <1>8, <2>1, <2>2, <2>3, GotoOK DEF VirtualPut, TypeOK, PCs
<1>9. CASE VirtualPutFails(e)
  BY <1>0, <1>9, VirtualTestFailsWellFormed DEF VirtualPutFails, TypeOK
<1>10. CASE VirtualDryRun(e)
  <2> DEFINE t == [task[e] EXCEPT !.conn = 0]
  <2>1. t \in Tasks
    BY <1>0, SubAgentAssumption DEF Tasks
  <2>2. task' = [task EXCEPT ![e] = t]
    BY <1>10 DEF VirtualDryRun
  <2>3. LocalOK(e)'
    BY <1>0, <1>10, <2>2 DEF VirtualDryRun, Goto, LocalOK, shared, TodoAt, Tasks, TypeOK
  <2> HIDE DEF t
  <2> QED BY <1>0, <1>10, <2>1, <2>2, <2>3, GotoOK DEF VirtualDryRun, shared, TypeOK, PCs
<1>11. CASE VirtualDryRunFails(e)
  BY <1>0, <1>11, VirtualTestFailsWellFormed DEF VirtualDryRunFails, TypeOK
<1> QED BY <1>1, <1>2, <1>3, <1>4, <1>5, <1>6, <1>7, <1>8, <1>9, <1>10, <1>11
        DEF Generate

\* apply_diff.
LEMMA ApplyWellFormed ==
  ASSUME WellFormed, NEW e \in Editors, Apply(e)
  PROVE  WellFormed'
<1> USE DEF DiffPCs, ApplyPCs
<1>0. /\ TypeOK /\ LocalOK(e) /\ task[e] \in Tasks
      /\ task \in [Editors -> Tasks] /\ pc \in [Editors -> PCs]
      /\ {"applied", "apply_failed"} \subseteq Outcomes
  BY DEF WellFormed, TypeOK, Outcomes
<1>a. ASSUME ApplyFails(e), pc[e] \in ApplyPCs
      PROVE  WellFormed'
  BY <1>0, <1>a, ResolveWellFormed DEF ApplyFails, shared, TypeOK
<1>1. CASE ApplyGet(e)
  <2> DEFINE t == [task[e] EXCEPT !.conn = container.inc]
  <2>0. container.inc \in 0..(MaxOps + 1)
    BY <1>0, SubAgentAssumption DEF TypeOK
  <2>1. t \in Tasks
    BY <1>0, <2>0 DEF Tasks
  <2>2. task' = [task EXCEPT ![e] = t]
    BY <1>1 DEF ApplyGet
  <2>3. LocalOK(e)'
    BY <1>0, <1>1, <2>2 DEF ApplyGet, Goto, LocalOK, shared, TodoAt, Tasks, TypeOK
  <2> HIDE DEF t
  <2> QED BY <1>0, <1>1, <2>1, <2>2, <2>3, GotoOK DEF ApplyGet, shared, TypeOK, PCs
<1>2. CASE ApplyGetFails(e)
  BY <1>2, <1>a DEF ApplyGetFails
<1>3. CASE ApplyPut(e)
  <2>1. task[e].diff \in Diffs /\ task[e].diff # None
    BY <1>0, <1>3 DEF ApplyPut, Goto, LocalOK, Tasks
  <2>2. LocalOK(e)'
    BY <1>0, <1>3, <2>1 DEF ApplyPut, Goto, LocalOK, TodoAt
  <2>3. task' = [task EXCEPT ![e] = task[e]]
    BY <1>0, <1>3 DEF ApplyPut
  <2> QED BY <1>0, <1>3, <2>1, <2>2, <2>3, GotoOK DEF ApplyPut, TypeOK, PCs
<1>4. CASE ApplyPutFails(e)
  BY <1>4, <1>a DEF ApplyPutFails
<1>5. CASE ApplyDryRun(e)
  <2>1. LocalOK(e)'
    BY <1>0, <1>5 DEF ApplyDryRun, Goto, LocalOK, TodoAt, shared
  <2>2. task' = [task EXCEPT ![e] = task[e]]
    BY <1>0, <1>5 DEF ApplyDryRun
  <2> QED BY <1>0, <1>5, <2>1, <2>2, GotoOK DEF ApplyDryRun, shared, TypeOK, PCs
<1>6. CASE ApplyDryRunFails(e)
  BY <1>6, <1>a DEF ApplyDryRunFails
<1>7. CASE PatchStarts(e)
  <2>1. PICK left \in SUBSET FilesOf(patchFile) :
          /\ task' = [task EXCEPT ![e].run = [diff |-> patchFile, left |-> left,
                                              read |-> None, hits |-> {}]]
          /\ pc' = [pc EXCEPT ![e] = NextFile(left)]
    BY <1>7 DEF PatchStarts
  <2> DEFINE run == [diff |-> patchFile, left |-> left, read |-> None, hits |-> {}]
             t == [task[e] EXCEPT !.run = run]
  <2>2. patchFile \in Diffs
    BY <1>0, <1>7 DEF PatchStarts, LocalOK, Alive, TypeOK
  <2>3. run \in PatchRuns
    BY <2>2, PatchTypes DEF PatchRuns, FilesOf, Diffs, Places
  <2>4. task' = [task EXCEPT ![e] = t]
    BY <2>1
  <2> HIDE DEF run
  <2>5. t \in Tasks /\ t.diff = task[e].diff /\ t.pos = task[e].pos /\ t.conn = task[e].conn
    BY <1>0, <2>3 DEF Tasks
  <2> HIDE DEF t
  <2>6. pc[e] = "aread" /\ NextFile(left) \in {"afile", "aexit"}
    BY <1>7 DEF PatchStarts, NextFile
  <2>7. Goto(e, "aread", NextFile(left))
    BY <2>1, <2>6 DEF Goto
  <2>8. LocalOK(e)'
    BY <1>0, <1>7, <2>1, <2>4, <2>5, <2>6 DEF PatchStarts, LocalOK, shared, TodoAt
  <2> QED BY <1>0, <1>7, <2>4, <2>5, <2>6, <2>7, <2>8, GotoOK
          DEF PatchStarts, shared, TypeOK, PCs
<1>8. CASE PatchStartFails(e)
  BY <1>8, <1>a DEF PatchStartFails
<1>14. CASE PatchReads(e)
  <2>1. PICK l \in task[e].run.left :
          task' = [task EXCEPT ![e].run.read = [file |-> l, text |-> files[l]]]
    BY <1>14 DEF PatchReads
  <2>2. task[e].run \in PatchRuns
    BY <1>0, <1>14 DEF PatchReads, Tasks
  <2> DEFINE in  == [file |-> l, text |-> files[l]]
             run == [task[e].run EXCEPT !.read = in]
             t   == [task[e] EXCEPT !.run = run]
  <2>3. in \in Inputs /\ in # None /\ in.file \in task[e].run.left
    BY <1>0, <2>2, NoneAssumption DEF TypeOK, PatchRuns, Inputs
  <2>4. task' = [task EXCEPT ![e] = t]
    BY <1>0, <2>1, <2>2 DEF Tasks, PatchRuns
  <2> HIDE DEF in
  <2>5. run \in PatchRuns /\ run.read # None /\ run.read.file \in run.left
    BY <2>2, <2>3 DEF PatchRuns
  <2> HIDE DEF run
  <2>6. t \in Tasks /\ t.diff = task[e].diff /\ t.pos = task[e].pos
        /\ t.conn = task[e].conn /\ t.run = run
    BY <1>0, <2>5 DEF Tasks
  <2> HIDE DEF t
  <2>7. LocalOK(e)'
    BY <1>0, <1>14, <2>4, <2>5, <2>6 DEF PatchReads, Goto, LocalOK, shared, TodoAt
  <2> QED BY <1>0, <1>14, <2>4, <2>6, <2>7, GotoOK DEF PatchReads, shared, TypeOK, PCs
<1>9. CASE PatchRenames(e)
  <2> DEFINE old   == task[e].run
             in    == old.read
             match == Hits(old.diff, in.file, in.text)
             left  == old.left \ {in.file}
             run   == [diff |-> old.diff, left |-> left, read |-> None,
                       hits |-> old.hits \cup match]
             t     == [task[e] EXCEPT !.run = run]
  <2>1. /\ old # None /\ pc[e] = "awrite" /\ pc' = [pc EXCEPT ![e] = NextFile(left)]
        /\ files' = IF match = {} THEN files
                    ELSE [files EXCEPT ![in.file] = Patched(old.diff, in.file, in.text)]
        /\ wrote' = wrote \cup ({old.diff.todo} \X match)
        /\ task' = [task EXCEPT ![e].run = run]
        /\ UNCHANGED <<results, report, container, testPatch, patchFile, ops>>
    BY <1>9 DEF PatchRenames
  <2>2. old \in PatchRuns /\ in \in Inputs
    BY <1>0, <2>1 DEF Tasks, PatchRuns, LocalOK
  <2>3. /\ old.diff \in Diffs /\ old.diff.todo \in Todos /\ old.hits \in SUBSET Places
        /\ in.file \in Langs /\ in.text \in Contents /\ left \in SUBSET Langs
    BY <2>2 DEF PatchRuns, Inputs, Diffs
  <2>4. match \in SUBSET Places /\ Patched(old.diff, in.file, in.text) \in Contents
    BY <2>3, PatchTypes
  <2> HIDE DEF in, match, left
  <2>5. run \in PatchRuns
    BY <2>3, <2>4 DEF PatchRuns
  <2>6. files' \in [Langs -> Contents] /\ wrote' \subseteq Todos \X Places
    BY <1>0, <2>1, <2>3, <2>4 DEF TypeOK
  <2>7. task' = [task EXCEPT ![e] = t]
    BY <2>1
  <2> HIDE DEF run, old
  <2>8. t \in Tasks /\ t.diff = task[e].diff /\ t.pos = task[e].pos /\ t.conn = task[e].conn
    BY <1>0, <2>5 DEF Tasks
  <2> HIDE DEF t
  <2>9. NextFile(left) \in {"afile", "aexit"} /\ Goto(e, "awrite", NextFile(left))
    BY <2>1 DEF NextFile, Goto
  <2>10. LocalOK(e)'
    BY <1>0, <2>1, <2>7, <2>8, <2>9 DEF Goto, LocalOK, TodoAt
  <2> QED BY <1>0, <2>1, <2>6, <2>7, <2>8, <2>9, <2>10, GotoOK DEF TypeOK, PCs
<1>10. CASE PatchKilled(e)
  BY <1>10, <1>a DEF PatchKilled
<1>11. CASE PatchExits(e)
  <2>1. LocalOK(e)'
    BY <1>0, <1>11 DEF PatchExits, Goto, LocalOK, TodoAt, shared
  <2>2. task' = [task EXCEPT ![e] = task[e]]
    BY <1>0, <1>11 DEF PatchExits
  <2> QED BY <1>0, <1>11, <2>1, <2>2, GotoOK DEF PatchExits, shared, TypeOK, PCs
<1>12. CASE PatchExitFails(e)
  BY <1>12, <1>a DEF PatchExitFails
<1>13. CASE ReadBack(e)
  BY <1>0, <1>13, ResolveWellFormed DEF ReadBack, shared, TypeOK
<1> QED BY <1>1, <1>2, <1>3, <1>4, <1>5, <1>6, <1>7, <1>8, <1>9, <1>10, <1>11,
           <1>12, <1>13, <1>14 DEF Apply

\* list_todo.
LEMMA PlanWellFormed ==
  ASSUME WellFormed, NEW e \in Editors, ListTodo(e) \/ ListTodoRaises(e)
  PROVE  WellFormed'
<1>1. CASE ListTodoRaises(e)
  BY <1>1, AbortWellFormed DEF ListTodoRaises
<1>2. CASE ListTodo(e)
  <2>1. PICK plan \in Plans :
          LET first == FirstFrom(plan, 1)
          IN /\ task' = [task EXCEPT ![e] = AtTodo(plan, first)]
             /\ IF first = End
                THEN /\ pc' = [pc EXCEPT ![e] = "done"]
                     /\ report' = [report EXCEPT ![e] = "no_todo"]
                ELSE /\ pc' = [pc EXCEPT ![e] = "fetch"]
                     /\ UNCHANGED report
    BY <1>2 DEF ListTodo
  <2> DEFINE first == FirstFrom(plan, 1)
             t     == AtTodo(plan, first)
  <2>2. plan \in [Langs -> 0..MaxTodos]
    BY SubAgentAssumption
  <2>3. first \in Positions
    BY <2>2, FirstFromType
  <2> HIDE DEF first
  <2>4. t \in Tasks
    BY <2>2, <2>3, AtTodoType
  <2>5. /\ task' = [task EXCEPT ![e] = t]
        /\ pc' = [pc EXCEPT ![e] = IF first = End THEN "done" ELSE "fetch"]
        /\ report' \in [Editors -> {"none", "no_todo", "summary", "error"}]
    BY <2>1 DEF first, WellFormed, TypeOK
  <2>6. UNCHANGED <<results, container, files, testPatch, patchFile, ops, wrote>>
    BY <1>2 DEF ListTodo, shared
  <2>7. LocalOK(e)'
    BY <2>5, <2>6 DEF LocalOK, WellFormed, TypeOK, AtTodo, DiffPCs, ApplyPCs
  <2>8. /\ pc' \in [Editors -> PCs] /\ task' \in [Editors -> Tasks]
        /\ \A x \in Editors \ {e} : pc'[x] = pc[x] /\ task'[x] = task[x]
    BY <2>4, <2>5 DEF WellFormed, TypeOK, PCs
  <2> QED BY <2>5, <2>6, <2>7, <2>8, StepOK DEF WellFormed, TypeOK
<1> QED BY <1>1, <1>2

LEMMA KillRunsOK ==
  ASSUME WellFormed, KillRuns
  PROVE  /\ task' \in [Editors -> Tasks]
         /\ \A e \in Editors : /\ task'[e].pos = task[e].pos
                               /\ task'[e].src = task[e].src
                               /\ task'[e].diff = task[e].diff
                               /\ task'[e].conn = task[e].conn
                               /\ task'[e].run \in {None, task[e].run}
<1>1. \A e \in Editors : task[e] \in Tasks
  BY DEF WellFormed, TypeOK
<1>2. \A e \in Editors : [task[e] EXCEPT !.run = None] \in Tasks
  BY <1>1 DEF Tasks
<1>3. \A e \in Editors :
        task'[e] = IF pc[e] \in {"afile", "awrite"} THEN [task[e] EXCEPT !.run = None]
                    ELSE task[e]
  BY DEF KillRuns
<1>4. task' \in [Editors -> Tasks]
  BY <1>1, <1>2 DEF KillRuns
<1> QED BY <1>1, <1>3, <1>4 DEF Tasks

\* Requests on the container.
LEMMA ContainerWellFormed ==
  ASSUME WellFormed, ContainerStep
  PROVE  WellFormed'
<1>0. /\ TypeOK /\ container.inc <= ops + 1 /\ \A e \in Editors : LocalOK(e)
      /\ ops \in 0..MaxOps /\ MaxOps \in Nat
      /\ container \in [status : {"running", "exited", "absent"}, inc : 1..(MaxOps + 1)]
  BY SubAgentAssumption DEF WellFormed, TypeOK
<1>a. ASSUME KillRuns, CountOp,
             NEW status \in {"running", "exited", "absent"},
             container' = [container EXCEPT !.status = status],
             UNCHANGED <<pc, results, report, files, testPatch, patchFile, wrote>>
      PROVE  WellFormed'
  <2>1. container' \in [status : {"running", "exited", "absent"}, inc : 1..(MaxOps + 1)]
        /\ container'.inc = container.inc
    BY <1>0, <1>a
  <2>2. ops' \in 0..MaxOps /\ ops' = ops + 1
    BY <1>0, <1>a DEF CountOp
  <2>3. TypeOK'
    BY <1>0, <1>a, <2>1, <2>2, KillRunsOK DEF TypeOK
  <2>4. \A e \in Editors : LocalOK(e)'
    BY <1>0, <1>a, <2>1, KillRunsOK DEF LocalOK
  <2> QED BY <1>0, <2>1, <2>2, <2>3, <2>4 DEF WellFormed
<1>1. CASE StopContainer
  BY <1>1, <1>a DEF StopContainer
<1>2. CASE StartContainer
  <2>1. container' \in [status : {"running", "exited", "absent"}, inc : 1..(MaxOps + 1)]
        /\ container'.inc = container.inc
    BY <1>0, <1>2 DEF StartContainer
  <2>2. ops' \in 0..MaxOps /\ ops' = ops + 1
    BY <1>0, <1>2 DEF StartContainer, CountOp
  <2>3. TypeOK'
    BY <1>0, <1>2, <2>1, <2>2 DEF TypeOK, StartContainer
  <2>4. \A e \in Editors : LocalOK(e)'
    BY <1>0, <1>2, <2>1 DEF LocalOK, StartContainer
  <2> QED BY <1>0, <2>1, <2>2, <2>3, <2>4 DEF WellFormed
<1>3. CASE DeleteContainer
  BY <1>3, <1>a DEF DeleteContainer
<1>4. CASE CreateContainer
  <2>1. /\ container'.inc = container.inc + 1
        /\ container' = [status |-> "running", inc |-> container.inc + 1]
        /\ ops' \in 0..MaxOps /\ ops' = ops + 1
    BY <1>0, <1>4 DEF CreateContainer, CountOp
  <2>2. container' \in [status : {"running", "exited", "absent"}, inc : 1..(MaxOps + 1)]
    BY <1>0, <2>1
  <2>3. files' \in [Langs -> Contents]
    BY <1>4 DEF CreateContainer, Contents, Values
  <2>4. TypeOK'
    BY <1>0, <1>4, <2>1, <2>2, <2>3 DEF TypeOK, CreateContainer
  <2>5. \A e \in Editors : task[e].conn \in Nat
    <3> TAKE e \in Editors
    <3>1. task[e] \in Tasks
      BY <1>0 DEF TypeOK
    <3>2. task[e].conn \in 0..(MaxOps + 1)
      BY <3>1 DEF Tasks
    <3> QED BY <3>2, SubAgentAssumption
  <2>6. \A e \in Editors : LocalOK(e)'
    BY <1>0, <1>4, <2>1, <2>5 DEF LocalOK, CreateContainer
  <2> QED BY <1>0, <2>1, <2>4, <2>6 DEF WellFormed
<1> QED BY <1>1, <1>2, <1>3, <1>4 DEF ContainerStep

LEMMA WellFormedStep == WellFormed /\ [Next]_vars => WellFormed'
<1> SUFFICES ASSUME WellFormed, [Next]_vars PROVE WellFormed'
  OBVIOUS
<1>1. CASE \E e \in Editors : EditorStep(e)
  BY <1>1, PlanWellFormed, GenerateWellFormed, ApplyWellFormed DEF EditorStep
<1>2. CASE ContainerStep
  BY <1>2, ContainerWellFormed
<1>3. CASE UNCHANGED vars
  BY <1>3 DEF vars, shared, WellFormed, TypeOK, LocalOK
<1> QED BY <1>1, <1>2, <1>3 DEF Next

\* Every variable keeps its type in every reachable state of the pipeline.
THEOREM TypeCorrect == Spec => []TypeOK
<1>1. WellFormed => TypeOK
  BY DEF WellFormed
<1> QED BY <1>1, WellFormedStep, InitWellFormed, PTL DEF Spec

-----------------------------------------------------------------------------
(* A diff that was only tested is never run for real.  What matters of a step *)
(* is whether it settles a TODO or moves on with it.                          *)

OthersKeep(e) ==
  \A x \in Editors \ {e} :
    pc'[x] = pc[x] /\ task'[x] = task[x] /\ results'[x] = results[x]

\* The step ends the current TODO, as applied or failed to apply exactly when
\* apply_diff was reached.
Settles(e) ==
  \E entry \in Entries :
    /\ results'[e] = Append(results[e], entry)
    /\ entry.pos = task[e].pos
    /\ Precedes(task[e].pos, task'[e].pos)
    /\ pc'[e] \notin ApplyPCs
    /\ pc[e] \in ApplyPCs <=> entry.outcome \in {"applied", "apply_failed"}

\* The step does not: apply_diff is left by a result only.
Moves(e) ==
  /\ results'[e] = results[e]
  /\ pc[e] \in ApplyPCs => pc'[e] \in ApplyPCs /\ task'[e].pos = task[e].pos
  /\ \A i \in 1..Len(results[e]) : Precedes(Entry(e, i).pos, task'[e].pos)

LEMMA EntryPositions ==
  ASSUME WellFormed, NEW e \in Editors, NEW i \in 1..Len(results[e])
  PROVE  Entry(e, i) \in Entries /\ Entry(e, i).pos \in Positions
<1>1. results[e] \in Seq(Entries)
  BY DEF WellFormed, TypeOK
<1>2. Entry(e, i) \in Entries
  BY <1>1 DEF Entry
<1> QED BY <1>2 DEF Entries

LEMMA ResolveSettles ==
  ASSUME WellFormed, NEW e \in Editors, NEW outcome \in Outcomes,
         pc[e] \notin {"plan", "done"}, Resolve(e, outcome),
         pc[e] \in ApplyPCs <=> outcome \in {"applied", "apply_failed"}
  PROVE  Settles(e) /\ OthersKeep(e)
<1> DEFINE t     == task[e]
           next  == NextTodo(t.plan, t.pos)
           entry == [pos |-> t.pos, outcome |-> outcome,
                     places |-> IF t.diff = None THEN {} ELSE t.diff.places]
<1>1. /\ t \in Tasks /\ t.pos # End
      /\ pc \in [Editors -> PCs] /\ task \in [Editors -> Tasks]
      /\ results \in [Editors -> Seq(Entries)]
  BY DEF WellFormed, TypeOK, LocalOK
<1>2. t.pos \in Langs \X (1..MaxTodos)
  BY <1>1 DEF Tasks, Positions
<1>3. Precedes(t.pos, next)
  BY <1>1, <1>2, NextTodoType DEF Tasks
<1>4. entry \in Entries
  BY <1>1 DEF Entries, Tasks, Diffs
<1>5. results' = [results EXCEPT ![e] = Append(@, entry)]
  BY DEF Resolve
<1>6. task' = [task EXCEPT ![e] = AtTodo(t.plan, next)]
  BY DEF Resolve
<1>7. pc' = [pc EXCEPT ![e] = IF next = End THEN "done" ELSE "fetch"]
  BY DEF Resolve
<1>8. entry.pos = t.pos /\ entry.outcome = outcome
  OBVIOUS
<1> HIDE DEF next, entry
<1>9. task'[e].pos = next
  BY <1>1, <1>6 DEF AtTodo
<1>10. results'[e] = Append(results[e], entry)
  BY <1>1, <1>5
<1>11. pc'[e] \notin ApplyPCs
  BY <1>1, <1>7 DEF ApplyPCs
<1>12. OthersKeep(e)
  BY <1>1, <1>5, <1>6, <1>7 DEF OthersKeep
<1> QED BY <1>3, <1>4, <1>8, <1>9, <1>10, <1>11, <1>12 DEF Settles

LEMMA AbortMoves ==
  ASSUME WellFormed, ResultsOrdered, NEW e \in Editors, pc[e] \notin ApplyPCs, Abort(e)
  PROVE  Moves(e) /\ OthersKeep(e)
<1>1. /\ results' = results /\ task'[e].pos = End
      /\ OthersKeep(e)
  BY DEF Abort, OthersKeep, Idle, AtTodo, WellFormed, TypeOK
<1>2. ASSUME NEW i \in 1..Len(results[e])
      PROVE  Precedes(Entry(e, i).pos, End)
  <2>1. Precedes(Entry(e, i).pos, task[e].pos)
    BY DEF ResultsOrdered
  <2>2. task[e].pos \in Positions /\ Entry(e, i).pos \in Positions
    BY EntryPositions DEF WellFormed, TypeOK, Tasks
  <2> QED BY <2>1, <2>2, SubAgentAssumption DEF Precedes, Positions, End
<1> QED BY <1>1, <1>2 DEF Moves

\* A step that stays at its TODO and does not leave apply_diff moves.
LEMMA StayMoves ==
  ASSUME WellFormed, ResultsOrdered, NEW e \in Editors, NEW from, NEW to,
         Goto(e, from, to),
         from \in ApplyPCs => to \in ApplyPCs,
         \A x \in Editors \ {e} : task'[x] = task[x],
         task'[e].pos = task[e].pos,
         results' = results
  PROVE  Moves(e) /\ OthersKeep(e)
BY DEF Goto, Moves, OthersKeep, ResultsOrdered, WellFormed, TypeOK

LEMMA EditorSteps ==
  ASSUME WellFormed, ResultsOrdered, NEW e \in Editors, EditorStep(e)
  PROVE  (Settles(e) \/ Moves(e)) /\ OthersKeep(e)
<1> USE DEF ApplyPCs
<1>0. /\ task \in [Editors -> Tasks] /\ pc \in [Editors -> PCs]
      /\ {"skipped", "gen_failed", "applied", "apply_failed"} \subseteq Outcomes
      /\ task[e] \in Tasks
  BY DEF WellFormed, TypeOK, Outcomes
<1>a. ASSUME ApplyFails(e), pc[e] \in ApplyPCs
      PROVE  Settles(e) /\ OthersKeep(e)
  BY <1>0, <1>a, ResolveSettles DEF ApplyFails
<1>v. ASSUME VirtualTestFails(e), pc[e] \in {"vget", "vput", "vdry"}
      PROVE  (Settles(e) \/ Moves(e)) /\ OthersKeep(e)
  <2>1. CASE task[e].attempt < MaxRetries
    <3>1. /\ task'[e].pos = task[e].pos
          /\ \A x \in Editors \ {e} : task'[x] = task[x]
          /\ results' = results
          /\ Goto(e, pc[e], "fetch")
      BY <1>0, <1>v, <2>1 DEF VirtualTestFails, Goto, Tasks
    <3> QED BY <1>v, <3>1, StayMoves
  <2>2. CASE ~(task[e].attempt < MaxRetries)
    BY <1>0, <1>v, <2>2, ResolveSettles DEF VirtualTestFails
  <2> QED BY <2>1, <2>2
<1>1. CASE ListTodo(e)
  <2>1. results[e] = <<>> /\ results' = results /\ pc[e] = "plan"
    BY <1>1 DEF ListTodo, WellFormed, LocalOK
  <2>2. OthersKeep(e)
    BY <1>0, <1>1 DEF ListTodo, OthersKeep
  <2> QED BY <2>1, <2>2 DEF Moves
<1>2. CASE ListTodoRaises(e)
  BY <1>2, AbortMoves DEF ListTodoRaises
<1>3. CASE Generate(e)
  <2>1. CASE FetchSource(e)
    <3>1. /\ task'[e].pos = task[e].pos
          /\ \A x \in Editors \ {e} : task'[x] = task[x]
      BY <1>0, <2>1 DEF FetchSource, Tasks
    <3> QED BY <2>1, <3>1, StayMoves DEF FetchSource
  <2>2. CASE FetchFails(e)
    BY <1>0, <2>2, ResolveSettles DEF FetchFails
  <2>3. CASE LlmSkips(e)
    BY <1>0, <2>3, ResolveSettles DEF LlmSkips
  <2>4. CASE LlmAnswers(e)
    <3>1. /\ task'[e].pos = task[e].pos
          /\ \A x \in Editors \ {e} : task'[x] = task[x]
      BY <1>0, <2>4 DEF LlmAnswers, Tasks
    <3> QED BY <2>4, <3>1, StayMoves DEF LlmAnswers
  <2>5. CASE LlmRaises(e)
    BY <2>5, AbortMoves DEF LlmRaises
  <2>6. CASE VirtualGet(e)
    <3>1. /\ task'[e].pos = task[e].pos
          /\ \A x \in Editors \ {e} : task'[x] = task[x]
      BY <1>0, <2>6 DEF VirtualGet, Tasks
    <3> QED BY <2>6, <3>1, StayMoves DEF VirtualGet
  <2>7. CASE VirtualGetFails(e)
    BY <1>v, <2>7 DEF VirtualGetFails
  <2>8. CASE VirtualPut(e)
    BY <2>8, StayMoves DEF VirtualPut
  <2>9. CASE VirtualPutFails(e)
    BY <1>v, <2>9 DEF VirtualPutFails
  <2>10. CASE VirtualDryRun(e)
    <3>1. /\ task'[e].pos = task[e].pos
          /\ \A x \in Editors \ {e} : task'[x] = task[x]
      BY <1>0, <2>10 DEF VirtualDryRun, Tasks
    <3> QED BY <2>10, <3>1, StayMoves DEF VirtualDryRun
  <2>11. CASE VirtualDryRunFails(e)
    BY <1>v, <2>11 DEF VirtualDryRunFails
  <2> QED BY <1>3, <2>1, <2>2, <2>3, <2>4, <2>5, <2>6, <2>7, <2>8, <2>9, <2>10, <2>11
          DEF Generate
<1>4. CASE Apply(e)
  <2>1. CASE ApplyGet(e)
    <3>1. /\ task'[e].pos = task[e].pos
          /\ \A x \in Editors \ {e} : task'[x] = task[x]
      BY <1>0, <2>1 DEF ApplyGet, Tasks
    <3> QED BY <2>1, <3>1, StayMoves DEF ApplyGet
  <2>2. CASE ApplyPut(e)
    BY <2>2, StayMoves DEF ApplyPut
  <2>3. CASE ApplyDryRun(e)
    BY <2>3, StayMoves DEF ApplyDryRun
  <2>4. CASE PatchStarts(e) \/ PatchReads(e) \/ PatchRenames(e)
    <3>1. /\ task'[e].pos = task[e].pos
          /\ \A x \in Editors \ {e} : task'[x] = task[x]
          /\ results' = results
      BY <1>0, <2>4 DEF PatchStarts, PatchReads, PatchRenames, Tasks
    <3>2. \E to \in ApplyPCs : Goto(e, pc[e], to)
      BY <1>0, <2>4 DEF PatchStarts, PatchReads, PatchRenames, NextFile, Goto
    <3> QED BY <3>1, <3>2, StayMoves
  <2>6. CASE PatchExits(e)
    BY <2>6, StayMoves DEF PatchExits
  <2>7. CASE \/ ApplyGetFails(e) \/ ApplyPutFails(e) \/ ApplyDryRunFails(e)
             \/ PatchStartFails(e) \/ PatchKilled(e) \/ PatchExitFails(e)
    BY <1>a, <2>7 DEF ApplyGetFails, ApplyPutFails, ApplyDryRunFails,
                      PatchStartFails, PatchKilled, PatchExitFails
  <2>8. CASE ReadBack(e)
    BY <1>0, <2>8, ResolveSettles DEF ReadBack
  <2> QED BY <1>4, <2>1, <2>2, <2>3, <2>4, <2>6, <2>7, <2>8 DEF Apply
<1> QED BY <1>1, <1>2, <1>3, <1>4 DEF EditorStep

LEMMA ResultsOrderedStep ==
  ASSUME WellFormed, WellFormed', ResultsOrdered, NEW e \in Editors,
         Settles(e) \/ Moves(e), OthersKeep(e)
  PROVE  ResultsOrdered'
<1> DEFINE Ordered(x) ==
      /\ \A i, j \in 1..Len(results[x]) :
           i < j => Precedes(Entry(x, i).pos, Entry(x, j).pos)
      /\ \A i \in 1..Len(results[x]) : Precedes(Entry(x, i).pos, task[x].pos)
<1>1. ASSUME NEW x \in Editors \ {e} PROVE Ordered(x)'
  BY <1>1 DEF OthersKeep, ResultsOrdered, Entry
<1>2. CASE Moves(e)
  <2>1. Ordered(e)'
    BY <1>2 DEF Moves, ResultsOrdered, Entry
  <2> QED BY <1>1, <2>1 DEF ResultsOrdered
<1>3. CASE Settles(e)
  <2>1. PICK entry \in Entries :
          /\ results'[e] = Append(results[e], entry)
          /\ entry.pos = task[e].pos
          /\ Precedes(task[e].pos, task'[e].pos)
    BY <1>3 DEF Settles
  <2>2. results[e] \in Seq(Entries) /\ Len(results[e]) \in Nat
    BY DEF WellFormed, TypeOK
  <2>3. Len(results'[e]) = Len(results[e]) + 1
    BY <2>1, <2>2
  <2>4. /\ \A i \in 1..Len(results[e]) : results'[e][i] = results[e][i]
        /\ results'[e][Len(results[e]) + 1] = entry
    BY <2>1, <2>2
  <2>5. /\ task[e].pos \in Positions /\ task'[e].pos \in Positions
        /\ \A i \in 1..Len(results[e]) : Entry(e, i).pos \in Positions
    BY EntryPositions DEF WellFormed, TypeOK, Tasks
  <2>6. \A i \in 1..Len(results[e]) : Precedes(results[e][i].pos, task'[e].pos)
    BY <2>1, <2>5, PrecedesTransitive DEF ResultsOrdered, Entry
  <2>7. ASSUME NEW i \in 1..Len(results'[e])
        PROVE  Precedes(results'[e][i].pos, task'[e].pos)
    BY <2>1, <2>2, <2>3, <2>4, <2>6
  <2>8. ASSUME NEW i \in 1..Len(results'[e]), NEW j \in 1..Len(results'[e]), i < j
        PROVE  Precedes(results'[e][i].pos, results'[e][j].pos)
    <3>1. i \in 1..Len(results[e])
      BY <2>2, <2>3, <2>8
    <3>2. CASE j \in 1..Len(results[e])
      BY <2>4, <2>8, <3>1, <3>2 DEF ResultsOrdered, Entry
    <3>3. CASE j = Len(results[e]) + 1
      BY <2>1, <2>4, <3>1, <3>3 DEF ResultsOrdered, Entry
    <3> QED BY <2>2, <2>3, <3>2, <3>3
  <2>9. Ordered(e)'
    BY <2>7, <2>8 DEF Entry
  <2> QED BY <1>1, <2>9 DEF ResultsOrdered
<1> QED BY <1>2, <1>3

\* Once a diff was offered it stays offered: it is in apply_diff or its TODO is
\* listed as applied or as failed to apply.
LEMMA OfferedStable ==
  ASSUME WellFormed, NEW e \in Editors, Settles(e) \/ Moves(e), OthersKeep(e),
         NEW t \in Todos, Offered(t)
  PROVE  Offered(t)'
<1>0. t[1] \in Editors
  BY DEF Todos
<1>1. CASE t[1] # e
  BY <1>0, <1>1 DEF Offered, OthersKeep, TodoOf, TodoAt, Entry
<1>2. CASE t[1] = e /\ Moves(e)
  BY <1>2 DEF Offered, Moves, TodoOf, TodoAt, Entry
<1>3. CASE t[1] = e /\ Settles(e)
  <2>1. PICK entry \in Entries :
          /\ results'[e] = Append(results[e], entry)
          /\ entry.pos = task[e].pos
          /\ pc[e] \in ApplyPCs <=> entry.outcome \in {"applied", "apply_failed"}
    BY <1>3 DEF Settles
  <2>2. results[e] \in Seq(Entries) /\ Len(results[e]) \in Nat
    BY DEF WellFormed, TypeOK
  <2>3. Len(results'[e]) = Len(results[e]) + 1
    BY <2>1, <2>2
  <2>4. /\ \A i \in 1..Len(results[e]) : results'[e][i] = results[e][i]
        /\ results'[e][Len(results[e]) + 1] = entry
    BY <2>1, <2>2
  <2>5. CASE pc[e] \in ApplyPCs /\ TodoAt(e, task[e].pos) = t
    <3>1. Len(results[e]) + 1 \in 1..Len(results'[e])
      BY <2>2, <2>3
    <3> QED BY <1>3, <2>1, <2>4, <2>5, <3>1 DEF Offered, TodoOf, TodoAt, Entry
  <2>6. CASE \E i \in 1..Len(results[e]) :
               /\ TodoOf(e, i) = t
               /\ Entry(e, i).outcome \in {"applied", "apply_failed"}
    <3>1. \A i \in 1..Len(results[e]) : i \in 1..Len(results'[e])
      BY <2>2, <2>3
    <3> QED BY <1>3, <2>4, <2>6, <3>1 DEF Offered, TodoOf, TodoAt, Entry
  <2> QED BY <1>3, <2>5, <2>6 DEF Offered
<1> QED BY <1>1, <1>2, <1>3

\* Where a diff can come from: /tmp/patch.diff from the editor's tested diff, a
\* patch process from /tmp/patch.diff, a web file from a patch process.
PatchFileKept(e) ==
  \/ patchFile' = patchFile
  \/ pc'[e] \in ApplyPCs /\ patchFile'.todo = TodoAt(e, task'[e].pos)

RunKept(e) ==
  \/ task'[e].run \in {None, task[e].run}
  \/ task[e].run # None /\ task'[e].run.diff = task[e].run.diff
  \/ patchFile # None /\ patchFile \in Diffs /\ task'[e].run.diff = patchFile

WroteKept(e) ==
  \/ wrote' = wrote
  \/ /\ task[e].run # None
     /\ \A w \in wrote' : w \in wrote \/ w[1] = task[e].run.diff.todo

Quiet(e) == UNCHANGED <<patchFile, wrote>> /\ task'[e].run \in {None, task[e].run}

LEMMA ResolveQuiet ==
  ASSUME WellFormed, NEW e \in Editors, NEW outcome, Resolve(e, outcome),
         UNCHANGED <<patchFile, wrote>>
  PROVE  Quiet(e)
BY DEF Quiet, Resolve, AtTodo, WellFormed, TypeOK

LEMMA GenerateQuiet ==
  ASSUME WellFormed, NEW e \in Editors, ListTodo(e) \/ ListTodoRaises(e) \/ Generate(e)
  PROVE  Quiet(e)
<1>0. task \in [Editors -> Tasks] /\ task[e] \in Tasks
  BY DEF WellFormed, TypeOK
<1>a. ASSUME Abort(e)
      PROVE  Quiet(e)
  BY <1>0, <1>a DEF Abort, Quiet, Idle, AtTodo, shared
<1>v. ASSUME VirtualTestFails(e)
      PROVE  Quiet(e)
  <2>1. CASE task[e].attempt < MaxRetries
    BY <1>0, <1>v, <2>1 DEF VirtualTestFails, Quiet, Tasks
  <2>2. CASE ~(task[e].attempt < MaxRetries)
    BY <1>v, <2>2, ResolveQuiet DEF VirtualTestFails
  <2> QED BY <2>1, <2>2
<1>1. CASE ListTodo(e)
  BY <1>0, <1>1 DEF ListTodo, Quiet, AtTodo, shared
<1>2. CASE ListTodoRaises(e) \/ LlmRaises(e)
  BY <1>a, <1>2 DEF ListTodoRaises, LlmRaises
<1>3. CASE FetchSource(e)
  BY <1>0, <1>3 DEF FetchSource, Quiet, Tasks, shared
<1>4. CASE FetchFails(e) \/ LlmSkips(e)
  BY <1>4, ResolveQuiet DEF FetchFails, LlmSkips, shared
<1>5. CASE LlmAnswers(e)
  BY <1>0, <1>5 DEF LlmAnswers, Quiet, Tasks, shared
<1>6. CASE VirtualGet(e)
  BY <1>0, <1>6 DEF VirtualGet, Quiet, Tasks, shared
<1>7. CASE VirtualPut(e)
  BY <1>0, <1>7 DEF VirtualPut, Quiet
<1>8. CASE VirtualDryRun(e)
  BY <1>0, <1>8 DEF VirtualDryRun, Quiet, Tasks, shared
<1>9. CASE VirtualGetFails(e) \/ VirtualPutFails(e) \/ VirtualDryRunFails(e)
  BY <1>v, <1>9 DEF VirtualGetFails, VirtualPutFails, VirtualDryRunFails
<1> QED BY <1>1, <1>2, <1>3, <1>4, <1>5, <1>6, <1>7, <1>8, <1>9 DEF Generate

LEMMA EditorEffects ==
  ASSUME WellFormed, NEW e \in Editors, EditorStep(e)
  PROVE  PatchFileKept(e) /\ RunKept(e) /\ WroteKept(e)
<1>0. /\ task \in [Editors -> Tasks] /\ task[e] \in Tasks /\ pc \in [Editors -> PCs]
      /\ LocalOK(e) /\ patchFile \in Diffs \cup {None}
  BY DEF WellFormed, TypeOK
<1>q. ASSUME Quiet(e)
      PROVE  PatchFileKept(e) /\ RunKept(e) /\ WroteKept(e)
  BY <1>q DEF Quiet, PatchFileKept, RunKept, WroteKept
<1>1. CASE ListTodo(e) \/ ListTodoRaises(e) \/ Generate(e)
  BY <1>1, <1>q, GenerateQuiet
<1>2. CASE \/ ApplyGetFails(e) \/ ApplyPutFails(e) \/ ApplyDryRunFails(e)
           \/ PatchStartFails(e) \/ PatchKilled(e) \/ PatchExitFails(e) \/ ReadBack(e)
  BY <1>2, <1>q, ResolveQuiet
     DEF ApplyGetFails, ApplyPutFails, ApplyDryRunFails, PatchStartFails, PatchKilled,
         PatchExitFails, ReadBack, ApplyFails, shared
<1>3. CASE ApplyGet(e)
  <2>1. Quiet(e)
    BY <1>0, <1>3 DEF ApplyGet, Quiet, Tasks, shared
  <2> QED BY <2>1, <1>q
<1>4. CASE ApplyDryRun(e) \/ PatchExits(e)
  <2>1. Quiet(e)
    BY <1>0, <1>4 DEF ApplyDryRun, PatchExits, Quiet, shared
  <2> QED BY <2>1, <1>q
<1>5. CASE ApplyPut(e)
  <2>1. /\ task' = task /\ wrote' = wrote /\ patchFile' = task[e].diff
        /\ pc'[e] = "adry" /\ pc[e] = "aput"
    BY <1>0, <1>5 DEF ApplyPut, Goto
  <2>2. task[e].diff.todo = TodoAt(e, task[e].pos)
    BY <1>0, <2>1 DEF LocalOK, DiffPCs, ApplyPCs
  <2> QED BY <2>1, <2>2 DEF PatchFileKept, RunKept, WroteKept, ApplyPCs, TodoAt
<1>6. CASE PatchStarts(e)
  <2>1. patchFile # None
    BY <1>0, <1>6 DEF PatchStarts, Alive, LocalOK
  <2>2. task'[e].run.diff = patchFile
    BY <1>0, <1>6 DEF PatchStarts, Tasks
  <2>3. UNCHANGED <<patchFile, wrote>>
    BY <1>6 DEF PatchStarts, shared
  <2> QED BY <1>0, <2>1, <2>2, <2>3 DEF PatchFileKept, RunKept, WroteKept
<1>7. CASE PatchReads(e)
  <2>1. task[e].run \in PatchRuns /\ task[e].run # None
    BY <1>0, <1>7 DEF PatchReads, Tasks
  <2>2. task'[e].run.diff = task[e].run.diff
    BY <1>0, <1>7, <2>1 DEF PatchReads, Tasks, PatchRuns
  <2>3. UNCHANGED <<patchFile, wrote>>
    BY <1>7 DEF PatchReads, shared
  <2> QED BY <2>1, <2>2, <2>3 DEF PatchFileKept, RunKept, WroteKept
<1>8. CASE PatchRenames(e)
  <2>1. /\ patchFile' = patchFile /\ task[e].run # None
        /\ \E match : wrote' = wrote \cup ({task[e].run.diff.todo} \X match)
    BY <1>8 DEF PatchRenames
  <2>2. task'[e].run.diff = task[e].run.diff
    BY <1>0, <1>8 DEF PatchRenames, Tasks
  <2> QED BY <2>1, <2>2 DEF PatchFileKept, RunKept, WroteKept
<1> QED BY <1>1, <1>2, <1>3, <1>4, <1>5, <1>6, <1>7, <1>8 DEF EditorStep, Apply

LEMMA OnlyOfferedStep ==
  ASSUME WellFormed, WellFormed', OnlyOffered, NEW e \in Editors, EditorStep(e),
         Settles(e) \/ Moves(e), OthersKeep(e)
  PROVE  OnlyOffered'
<1>0. PatchFileKept(e) /\ RunKept(e) /\ WroteKept(e)
  BY EditorEffects
<1>1. ASSUME patchFile # None PROVE patchFile.todo \in Todos
  BY <1>1 DEF WellFormed, TypeOK, Diffs
<1>2. ASSUME NEW x \in Editors, task[x].run # None
      PROVE  task[x].run.diff.todo \in Todos
  BY <1>2 DEF WellFormed, TypeOK, Tasks, PatchRuns, Diffs
<1>3. ASSUME patchFile' # None
      PROVE  Offered(patchFile.todo)'
  <2>1. CASE patchFile' = patchFile
    <3>1. PICK t \in Todos : t = patchFile.todo
      BY <1>1, <1>3, <2>1
    <3>2. Offered(t)'
      BY <1>3, <2>1, <3>1, OfferedStable DEF OnlyOffered
    <3> QED BY <2>1, <3>1, <3>2 DEF Offered
  <2>2. CASE pc'[e] \in ApplyPCs /\ patchFile'.todo = TodoAt(e, task'[e].pos)
    BY <2>2 DEF Offered, TodoAt
  <2> QED BY <1>0, <2>1, <2>2 DEF PatchFileKept
<1>4. ASSUME NEW x \in Editors, task'[x].run # None
      PROVE  Offered(task[x].run.diff.todo)'
  <2>1. CASE task'[x].run = task[x].run
    <3>1. PICK t \in Todos : t = task[x].run.diff.todo
      BY <1>2, <1>4, <2>1
    <3>2. Offered(t)'
      BY <1>4, <2>1, <3>1, OfferedStable DEF OnlyOffered
    <3> QED BY <2>1, <3>1, <3>2 DEF Offered
  <2>2. CASE x = e /\ patchFile # None /\ task'[e].run.diff = patchFile
    <3>1. PICK t \in Todos : t = patchFile.todo
      BY <1>1, <2>2
    <3>2. Offered(t)'
      BY <2>2, <3>1, OfferedStable DEF OnlyOffered
    <3> QED BY <2>2, <3>1, <3>2 DEF Offered
  <2>3. CASE x = e /\ task[e].run # None /\ task'[e].run.diff = task[e].run.diff
    <3>1. PICK t \in Todos : t = task[e].run.diff.todo
      BY <1>2, <2>3
    <3>2. Offered(t)'
      BY <2>3, <3>1, OfferedStable DEF OnlyOffered
    <3> QED BY <2>3, <3>1, <3>2 DEF Offered
  <2> QED BY <1>0, <1>4, <2>1, <2>2, <2>3 DEF RunKept, OthersKeep
<1>5. ASSUME NEW w \in wrote'
      PROVE  Offered(w[1])'
  <2>1. CASE w \in wrote
    <3>1. w[1] \in Todos /\ Offered(w[1])
      BY <2>1 DEF WellFormed, TypeOK, OnlyOffered
    <3> QED BY <3>1, OfferedStable
  <2>2. CASE task[e].run # None /\ w[1] = task[e].run.diff.todo
    <3>1. w[1] \in Todos /\ Offered(w[1])
      BY <1>2, <2>2 DEF OnlyOffered
    <3> QED BY <3>1, OfferedStable
  <2> QED BY <1>0, <1>5, <2>1, <2>2 DEF WroteKept
<1> QED BY <1>3, <1>4, <1>5 DEF OnlyOffered

\* A container request leaves results, positions and offers as they are.
LEMMA ContainerInv ==
  ASSUME WellFormed, ResultsOrdered, OnlyOffered, ContainerStep
  PROVE  ResultsOrdered' /\ OnlyOffered'
<1>1. /\ pc' = pc /\ results' = results /\ wrote' = wrote
      /\ patchFile' \in {patchFile, None}
      /\ task' = task \/ KillRuns
  BY DEF ContainerStep, StopContainer, StartContainer, DeleteContainer, CreateContainer
<1>2. \A e \in Editors : /\ task'[e].pos = task[e].pos
                         /\ task'[e].run \in {None, task[e].run}
  BY <1>1, KillRunsOK
<1>3. ResultsOrdered'
  BY <1>1, <1>2 DEF ResultsOrdered, Entry
<1>4. ASSUME NEW t \in Todos, Offered(t)
      PROVE  Offered(t)'
  BY <1>1, <1>2, <1>4 DEF Offered, Todos, TodoOf, TodoAt, Entry
<1>5. ASSUME patchFile' # None
      PROVE  Offered(patchFile.todo)'
  <2>1. PICK t \in Todos : t = patchFile.todo
    BY <1>1, <1>5 DEF WellFormed, TypeOK, Diffs
  <2>2. Offered(t)'
    BY <1>1, <1>4, <1>5, <2>1 DEF OnlyOffered
  <2> QED BY <1>1, <1>5, <2>1, <2>2 DEF Offered
<1>6. ASSUME NEW x \in Editors, task'[x].run # None
      PROVE  Offered(task[x].run.diff.todo)'
  <2>1. task'[x].run = task[x].run
    BY <1>2, <1>6
  <2>2. PICK t \in Todos : t = task[x].run.diff.todo
    BY <1>6, <2>1 DEF WellFormed, TypeOK, Tasks, PatchRuns, Diffs
  <2>3. Offered(t)'
    BY <1>4, <1>6, <2>1, <2>2 DEF OnlyOffered
  <2> QED BY <2>1, <2>2, <2>3 DEF Offered
<1>7. ASSUME NEW w \in wrote'
      PROVE  Offered(w[1])'
  BY <1>1, <1>4, <1>7 DEF WellFormed, TypeOK, OnlyOffered
<1> QED BY <1>3, <1>5, <1>6, <1>7 DEF OnlyOffered

LEMMA InitInv == Init => Inv
<1> SUFFICES ASSUME Init PROVE Inv
  OBVIOUS
<1>1. WellFormed
  BY InitWellFormed
<1>2. ResultsOrdered /\ OnlyOffered
  BY DEF Init, ResultsOrdered, OnlyOffered, Idle, AtTodo
<1> QED BY <1>1, <1>2 DEF Inv

\* The inductive invariant of the pipeline.
THEOREM Invariance == Spec => []Inv
<1>1. Inv /\ [Next]_vars => Inv'
  <2> SUFFICES ASSUME Inv, [Next]_vars PROVE Inv'
    OBVIOUS
  <2> USE DEF Inv
  <2>1. CASE \E e \in Editors : EditorStep(e)
    <3>1. PICK e \in Editors : EditorStep(e)
      BY <2>1
    <3>2. WellFormed'
      BY WellFormedStep
    <3>3. (Settles(e) \/ Moves(e)) /\ OthersKeep(e)
      BY <3>1, EditorSteps
    <3> QED BY <3>1, <3>2, <3>3, ResultsOrderedStep, OnlyOfferedStep
  <2>2. CASE ContainerStep
    BY <2>2, WellFormedStep, ContainerInv
  <2>3. CASE UNCHANGED vars
    BY <2>3 DEF vars, shared, WellFormed, TypeOK, LocalOK, ResultsOrdered, OnlyOffered,
                Offered, Entry, TodoOf
  <2> QED BY <2>1, <2>2, <2>3 DEF Next
<1> QED BY <1>1, InitInv, PTL DEF Spec

\* A TODO reported as skipped or as failed in llm_diff never changed a web file,
\* for any number of concurrent editors on the container.
THEOREM RejectedNeverWritten == Spec => []RejectedLeavesNoTrace
<1>1. Inv => RejectedLeavesNoTrace
  <2> SUFFICES ASSUME Inv, NEW e \in Editors, NEW i \in 1..Len(results[e]),
                      Entry(e, i).outcome \in {"skipped", "gen_failed"},
                      NEW place \in Places, <<TodoOf(e, i), place>> \in wrote
               PROVE  FALSE
    BY DEF RejectedLeavesNoTrace
  <2> USE DEF Inv
  <2>1. Offered(TodoOf(e, i))
    BY DEF OnlyOffered
  <2>2. /\ task[e].pos \in Positions
        /\ \A j \in 1..Len(results[e]) : Entry(e, j).pos \in Positions
    BY EntryPositions DEF WellFormed, TypeOK, Tasks
  <2>3. Len(results[e]) \in Nat
    BY DEF WellFormed, TypeOK
  <2>4. \A p \in Positions : ~Precedes(p, p)
    BY SubAgentAssumption DEF Precedes, Positions, End
  <2>5. \A p, q \in Positions : TodoAt(e, p) = TodoAt(e, q) => p = q
    BY DEF TodoAt, Positions, End
  <2>6. TodoAt(e, task[e].pos) # TodoOf(e, i)
    <3>1. Precedes(Entry(e, i).pos, task[e].pos)
      BY DEF ResultsOrdered
    <3> QED BY <2>2, <2>4, <2>5, <3>1 DEF TodoOf
  <2>7. ASSUME NEW j \in 1..Len(results[e]), TodoOf(e, j) = TodoOf(e, i)
        PROVE  j = i
    <3>1. Entry(e, j).pos = Entry(e, i).pos
      BY <2>2, <2>5, <2>7 DEF TodoOf
    <3>2. ~(i < j) /\ ~(j < i)
      BY <2>2, <2>4, <3>1 DEF ResultsOrdered
    <3> QED BY <2>3, <3>2
  <2>8. TodoOf(e, i)[1] = e
    BY DEF TodoOf, TodoAt
  <2> QED BY <2>1, <2>6, <2>7, <2>8 DEF Offered
<1> QED BY <1>1, Invariance, PTL
=============================================================================
