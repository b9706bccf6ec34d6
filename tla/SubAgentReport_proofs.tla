----------------------- MODULE SubAgentReport_proofs -----------------------
(***************************************************************************)
(* What the summary of an edit task says is complete and, for a task alone *)
(* on its container, true: proofs for any regions, TODOs, retries and      *)
(* container requests.                                                     *)
(***************************************************************************)
EXTENDS SubAgent_proofs

USE DEF Langs

-----------------------------------------------------------------------------
(* Walking the TODO list leaves none out. *)

\* The TODOs of the plan before position p.
Before(plan, p) ==
  {q \in Langs \X (1..MaxTodos) : q[2] <= plan[q[1]] /\ Precedes(q, p)}

\* Position p is one of the plan's, or the one after the last.
InPlan(plan, p) == p # End => p[2] <= plan[p[1]]

\* FirstFrom skips only languages without TODOs.
LEMMA BeforeFirst ==
  ASSUME NEW plan \in [Langs -> 0..MaxTodos], NEW l \in 1..4
  PROVE  /\ InPlan(plan, FirstFrom(plan, l))
         /\ Before(plan, FirstFrom(plan, l))
              = {q \in Langs \X (1..MaxTodos) : q[2] <= plan[q[1]] /\ q[1] < l}
<1> DEFINE busy == {m \in Langs : m >= l /\ plan[m] > 0}
<1>0. MaxTodos \in Nat /\ \A m \in Langs : plan[m] \in Nat
  BY SubAgentAssumption
<1>1. ASSUME NEW q \in Langs \X (1..MaxTodos), q[2] <= plan[q[1]], q[1] >= l
      PROVE  q[1] \in busy
  BY <1>0, <1>1
<1>2. CASE busy = {}
  <2>1. FirstFrom(plan, l) = End
    BY <1>2 DEF FirstFrom
  <2>2. \A q \in Langs \X (1..MaxTodos) : Precedes(q, End)
    BY DEF Precedes, End
  <2>3. \A q \in Langs \X (1..MaxTodos) : q[2] <= plan[q[1]] => q[1] < l
    BY <1>1, <1>2
  <2> QED BY <2>1, <2>2, <2>3 DEF InPlan, Before
<1>3. CASE busy # {}
  <2> DEFINE first == CHOOSE m \in busy : \A n \in busy : m <= n
  <2>1. \E m \in busy : \A n \in busy : m <= n
    <3>1. CASE 1 \in busy
      BY <3>1
    <3>2. CASE 1 \notin busy /\ 2 \in busy
      BY <3>2
    <3>3. CASE 1 \notin busy /\ 2 \notin busy
      BY <3>3, <1>3
    <3> QED BY <3>1, <3>2, <3>3
  <2>2. first \in busy /\ \A n \in busy : first <= n
    BY <2>1
  <2>3. FirstFrom(plan, l) = <<first, 1>>
    BY <1>3 DEF FirstFrom
  <2> HIDE DEF first
  <2>4. InPlan(plan, <<first, 1>>)
    BY <1>0, <2>2 DEF InPlan
  <2>5. ASSUME NEW q \in Langs \X (1..MaxTodos), q[2] <= plan[q[1]]
        PROVE  Precedes(q, <<first, 1>>) <=> q[1] < l
    <3>1. /\ q[1] \in Langs /\ q[2] \in 1..MaxTodos
          /\ first \in Langs /\ first >= l
      BY <2>2
    <3>2. Precedes(q, <<first, 1>>) <=> q[1] < first
      BY <1>0, <3>1 DEF Precedes
    <3>3. q[1] >= l => first <= q[1]
      BY <1>1, <2>2, <2>5
    <3> QED BY <3>1, <3>2, <3>3
  <2> QED BY <2>3, <2>4, <2>5 DEF Before
<1> QED BY <1>2, <1>3

\* NextTodo passes over the current TODO and no other.
LEMMA BeforeNext ==
  ASSUME NEW plan \in [Langs -> 0..MaxTodos], NEW p \in Langs \X (1..MaxTodos),
         p[2] <= plan[p[1]]
  PROVE  /\ InPlan(plan, NextTodo(plan, p))
         /\ Before(plan, NextTodo(plan, p)) = Before(plan, p) \cup {p}
<1>0. /\ MaxTodos \in Nat /\ \A m \in Langs : plan[m] \in Nat
      /\ p[1] \in Langs /\ p[2] \in 1..MaxTodos /\ p = <<p[1], p[2]>>
  BY SubAgentAssumption
<1>1. CASE p[2] < plan[p[1]]
  <2>1. NextTodo(plan, p) = <<p[1], p[2] + 1>>
    BY <1>1 DEF NextTodo
  <2>2. InPlan(plan, <<p[1], p[2] + 1>>)
    BY <1>0, <1>1 DEF InPlan
  <2>3. ASSUME NEW q \in Langs \X (1..MaxTodos)
        PROVE  Precedes(q, <<p[1], p[2] + 1>>) <=> Precedes(q, p) \/ q = p
    <3>1. q[1] \in Langs /\ q[2] \in 1..MaxTodos /\ q = <<q[1], q[2]>>
      OBVIOUS
    <3> QED BY <1>0, <3>1 DEF Precedes
  <2> QED BY <2>1, <2>2, <2>3 DEF Before
<1>2. CASE ~(p[2] < plan[p[1]])
  <2>1. NextTodo(plan, p) = FirstFrom(plan, p[1] + 1) /\ p[1] + 1 \in 1..4
    BY <1>2 DEF NextTodo
  <2>2. /\ InPlan(plan, NextTodo(plan, p))
        /\ Before(plan, NextTodo(plan, p))
             = {q \in Langs \X (1..MaxTodos) : q[2] <= plan[q[1]] /\ q[1] < p[1] + 1}
    BY <2>1, BeforeFirst
  <2>3. ASSUME NEW q \in Langs \X (1..MaxTodos), q[2] <= plan[q[1]]
        PROVE  q[1] < p[1] + 1 <=> Precedes(q, p) \/ q = p
    <3>1. q[1] \in Langs /\ q[2] \in 1..MaxTodos /\ q = <<q[1], q[2]>>
      OBVIOUS
    <3>2. p[2] = plan[p[1]]
      BY <1>0, <1>2
    <3> QED BY <1>0, <2>3, <3>1, <3>2 DEF Precedes
  <2> QED BY <2>2, <2>3 DEF Before
<1> QED BY <1>1, <1>2

-----------------------------------------------------------------------------
(* The results are complete. *)

Settled(e) == {Entry(e, i).pos : i \in 1..Len(results[e])}

\* A working task is at a TODO of its plan and has settled those before it.
UpToDate(e) ==
  pc[e] \notin {"plan", "done"} =>
    /\ InPlan(task[e].plan, task[e].pos)
    /\ Settled(e) = Before(task[e].plan, task[e].pos)

\* How a step may move a task along its plan: it begins it, stays at its TODO,
\* settles it, or ends.
Begins(e) ==
  /\ results[e] = <<>> /\ results'[e] = results[e]
  /\ task'[e].plan \in Plans
  /\ task'[e].pos = FirstFrom(task'[e].plan, 1)

Stays(e) ==
  /\ pc[e] \notin {"plan", "done"}
  /\ results'[e] = results[e]
  /\ task'[e].plan = task[e].plan /\ task'[e].pos = task[e].pos

Advances(e) ==
  /\ pc[e] \notin {"plan", "done"}
  /\ \E entry \in Entries : results'[e] = Append(results[e], entry) /\ entry.pos = task[e].pos
  /\ task'[e].plan = task[e].plan /\ task'[e].pos = NextTodo(task[e].plan, task[e].pos)

Walks(e) == Begins(e) \/ Stays(e) \/ Advances(e) \/ pc'[e] = "done"

LEMMA ResolveAdvances ==
  ASSUME WellFormed, NEW e \in Editors, NEW outcome \in Outcomes,
         pc[e] \notin {"plan", "done"}, Resolve(e, outcome)
  PROVE  Advances(e)
<1> DEFINE t     == task[e]
           next  == NextTodo(t.plan, t.pos)
           entry == [pos |-> t.pos, outcome |-> outcome,
                     places |-> IF t.diff = None THEN {} ELSE t.diff.places]
<1>1. /\ t \in Tasks /\ task \in [Editors -> Tasks]
      /\ results \in [Editors -> Seq(Entries)]
  BY DEF WellFormed, TypeOK
<1>2. entry \in Entries /\ entry.pos = t.pos
  BY <1>1 DEF Entries, Tasks, Diffs
<1>3. results' = [results EXCEPT ![e] = Append(@, entry)]
  BY DEF Resolve
<1>4. task' = [task EXCEPT ![e] = AtTodo(t.plan, next)]
  BY DEF Resolve
<1> HIDE DEF next, entry
<1>5. task'[e].plan = t.plan /\ task'[e].pos = next
  BY <1>1, <1>4 DEF AtTodo
<1>6. results'[e] = Append(results[e], entry)
  BY <1>1, <1>3
<1> QED BY <1>2, <1>5, <1>6 DEF Advances, next

LEMMA EditorWalks ==
  ASSUME WellFormed, NEW e \in Editors, EditorStep(e)
  PROVE  Walks(e)
<1>0. /\ task \in [Editors -> Tasks] /\ pc \in [Editors -> PCs]
      /\ {"skipped", "gen_failed", "applied", "apply_failed"} \subseteq Outcomes
      /\ task[e] \in Tasks
  BY DEF WellFormed, TypeOK, Outcomes
<1>a. ASSUME Abort(e)
      PROVE  Walks(e)
  BY <1>0, <1>a DEF Abort, Walks
<1>r. ASSUME NEW outcome \in Outcomes, Resolve(e, outcome), pc[e] \notin {"plan", "done"}
      PROVE  Walks(e)
  BY <1>r, ResolveAdvances DEF Walks
<1>v. ASSUME VirtualTestFails(e), pc[e] \in {"vget", "vput", "vdry"}
      PROVE  Walks(e)
  <2>1. CASE task[e].attempt < MaxRetries
    BY <1>0, <1>v, <2>1 DEF VirtualTestFails, Walks, Stays, Tasks
  <2>2. CASE ~(task[e].attempt < MaxRetries)
    BY <1>0, <1>v, <1>r, <2>2 DEF VirtualTestFails
  <2> QED BY <2>1, <2>2
<1>1. CASE ListTodo(e)
  <2>1. PICK plan \in Plans : task' = [task EXCEPT ![e] = AtTodo(plan, FirstFrom(plan, 1))]
    BY <1>1 DEF ListTodo
  <2>2. task'[e].plan = plan /\ task'[e].pos = FirstFrom(plan, 1)
    BY <1>0, <2>1 DEF AtTodo
  <2>3. results[e] = <<>> /\ results' = results
    BY <1>1 DEF ListTodo, WellFormed, LocalOK
  <2> QED BY <2>2, <2>3 DEF Walks, Begins
<1>2. CASE ListTodoRaises(e) \/ LlmRaises(e)
  BY <1>a, <1>2 DEF ListTodoRaises, LlmRaises
<1>3. CASE FetchFails(e) \/ LlmSkips(e) \/ ReadBack(e)
  BY <1>0, <1>r, <1>3 DEF FetchFails, LlmSkips, ReadBack
<1>4. CASE VirtualGetFails(e) \/ VirtualPutFails(e) \/ VirtualDryRunFails(e)
  BY <1>v, <1>4 DEF VirtualGetFails, VirtualPutFails, VirtualDryRunFails
<1>5. CASE \/ ApplyGetFails(e) \/ ApplyPutFails(e) \/ ApplyDryRunFails(e)
           \/ PatchStartFails(e) \/ PatchKilled(e) \/ PatchExitFails(e)
  BY <1>0, <1>r, <1>5 DEF ApplyGetFails, ApplyPutFails, ApplyDryRunFails, PatchStartFails,
                          PatchKilled, PatchExitFails, ApplyFails
<1>6. CASE FetchSource(e) \/ LlmAnswers(e) \/ VirtualGet(e) \/ VirtualDryRun(e)
  <2>1. Stays(e)
    BY <1>0, <1>6 DEF FetchSource, LlmAnswers, VirtualGet, VirtualDryRun, Goto, Stays, Tasks
  <2> QED BY <2>1 DEF Walks
<1>7. CASE VirtualPut(e) \/ ApplyPut(e) \/ ApplyDryRun(e) \/ PatchExits(e)
  BY <1>7 DEF VirtualPut, ApplyPut, ApplyDryRun, PatchExits, Goto, Walks, Stays
<1>8. CASE ApplyGet(e) \/ PatchStarts(e) \/ PatchReads(e) \/ PatchRenames(e)
  <2>1. Stays(e)
    BY <1>0, <1>8 DEF ApplyGet, PatchStarts, PatchReads, PatchRenames, Goto, Stays, Tasks
  <2> QED BY <2>1 DEF Walks
<1> QED BY <1>1, <1>2, <1>3, <1>4, <1>5, <1>6, <1>7, <1>8 DEF EditorStep, Generate, Apply

LEMMA WalkUpToDate ==
  ASSUME WellFormed, WellFormed', NEW e \in Editors, UpToDate(e), Walks(e)
  PROVE  UpToDate(e)'
<1>0. /\ task[e] \in Tasks /\ results[e] \in Seq(Entries)
      /\ LocalOK(e) /\ MaxTodos \in Nat
  BY SubAgentAssumption DEF WellFormed, TypeOK
<1>1. CASE Begins(e)
  <2> DEFINE plan == task'[e].plan
  <2>1. plan \in [Langs -> 0..MaxTodos] /\ task'[e].pos = FirstFrom(plan, 1)
    BY <1>1, SubAgentAssumption DEF Begins
  <2>2. InPlan(plan, FirstFrom(plan, 1)) /\ Before(plan, FirstFrom(plan, 1)) = {}
    BY <2>1, BeforeFirst
  <2>3. Settled(e)' = {}
    BY <1>1 DEF Begins, Settled
  <2> QED BY <2>1, <2>2, <2>3 DEF UpToDate
<1>2. CASE Stays(e)
  BY <1>2 DEF Stays, UpToDate, Settled, Entry
<1>3. CASE Advances(e)
  <2> DEFINE plan == task[e].plan
             p    == task[e].pos
  <2>1. /\ plan \in [Langs -> 0..MaxTodos] /\ p \in Langs \X (1..MaxTodos)
        /\ p[2] <= plan[p[1]] /\ Settled(e) = Before(plan, p)
    BY <1>0, <1>3 DEF Advances, UpToDate, InPlan, LocalOK, Tasks, Positions
  <2>2. /\ InPlan(plan, NextTodo(plan, p))
        /\ Before(plan, NextTodo(plan, p)) = Before(plan, p) \cup {p}
    BY <2>1, BeforeNext
  <2>3. PICK entry \in Entries : results'[e] = Append(results[e], entry) /\ entry.pos = p
    BY <1>3 DEF Advances
  <2>4. /\ Len(results[e]) \in Nat /\ Len(results'[e]) = Len(results[e]) + 1
        /\ \A i \in 1..Len(results[e]) : results'[e][i] = results[e][i]
        /\ results'[e][Len(results[e]) + 1] = entry
    BY <1>0, <2>3
  <2>5. Settled(e)' = Settled(e) \cup {p}
    <3>1. ASSUME NEW q \in Settled(e) \cup {p} PROVE q \in Settled(e)'
      <4>1. CASE q = p
        <5>1. Len(results[e]) + 1 \in 1..Len(results'[e])
          BY <2>4
        <5> QED BY <2>3, <2>4, <4>1, <5>1 DEF Settled, Entry
      <4>2. CASE q \in Settled(e)
        <5>1. PICK i \in 1..Len(results[e]) : q = results[e][i].pos
          BY <4>2 DEF Settled, Entry
        <5>2. i \in 1..Len(results'[e]) /\ q = results'[e][i].pos
          BY <2>4, <5>1
        <5> QED BY <5>2 DEF Settled, Entry
      <4> QED BY <3>1, <4>1, <4>2
    <3>2. ASSUME NEW i \in 1..Len(results'[e])
          PROVE  results'[e][i].pos \in Settled(e) \cup {p}
      <4>1. i \in 1..Len(results[e]) \/ i = Len(results[e]) + 1
        BY <2>4
      <4> QED BY <2>3, <2>4, <4>1 DEF Settled, Entry
    <3> QED BY <3>1, <3>2 DEF Settled, Entry
  <2>6. task'[e].plan = plan /\ task'[e].pos = NextTodo(plan, p)
    BY <1>3 DEF Advances
  <2> QED BY <2>1, <2>2, <2>5, <2>6 DEF UpToDate
<1>4. CASE pc'[e] = "done"
  BY <1>4 DEF UpToDate
<1> QED BY <1>1, <1>2, <1>3, <1>4 DEF Walks

LEMMA UpToDateKept ==
  ASSUME Inv, Inv', \A e \in Editors : UpToDate(e), [Next]_vars
  PROVE  \A e \in Editors : UpToDate(e)'
<1>0. WellFormed /\ WellFormed' /\ ResultsOrdered
  BY DEF Inv
<1>1. ASSUME NEW x \in Editors, pc'[x] = pc[x], results'[x] = results[x],
             task'[x].plan = task[x].plan, task'[x].pos = task[x].pos
      PROVE  UpToDate(x)'
  BY <1>1 DEF UpToDate, Settled, Entry
<1>2. CASE \E e \in Editors : EditorStep(e)
  <2>1. PICK e \in Editors : EditorStep(e)
    BY <1>2
  <2>2. UpToDate(e)'
    BY <1>0, <2>1, EditorWalks, WalkUpToDate
  <2>3. OthersKeep(e)
    BY <1>0, <2>1, EditorSteps
  <2> QED BY <1>1, <2>2, <2>3 DEF OthersKeep
<1>3. CASE ContainerStep
  <2>1. pc' = pc /\ results' = results /\ (task' = task \/ KillRuns)
    BY <1>3 DEF ContainerStep, StopContainer, StartContainer, DeleteContainer, CreateContainer
  <2>2. \A x \in Editors : task[x] \in Tasks
    BY <1>0 DEF WellFormed, TypeOK
  <2>3. \A x \in Editors : task'[x].plan = task[x].plan /\ task'[x].pos = task[x].pos
    BY <2>1, <2>2 DEF KillRuns, Tasks
  <2> QED BY <1>1, <2>1, <2>3
<1>4. CASE UNCHANGED vars
  BY <1>1, <1>4 DEF vars
<1> QED BY <1>2, <1>3, <1>4 DEF Next

\* The results are in the order of the TODO list, one for a TODO at most and none
\* missing before the TODO in progress, for any number of concurrent tasks.
THEOREM NoTodoIsLost == Spec => []ResultsFollowPlan
<1> DEFINE J == \A e \in Editors : UpToDate(e)
<1>1. Init => J
  BY DEF Init, UpToDate
<1>2. Inv /\ Inv' /\ J /\ [Next]_vars => J'
  BY UpToDateKept
<1>3. Inv /\ J => ResultsFollowPlan
  BY DEF Inv, ResultsOrdered, ResultsFollowPlan, UpToDate, Settled, Before
<1> QED BY <1>1, <1>2, <1>3, Invariance, PTL DEF Spec

-----------------------------------------------------------------------------
(* Reports are true where nobody else writes /tmp/patch.diff between a task's *)
(* upload and the patch process that reads it.                                *)

\* What is true of the editor's own diff on its way into the file.
Landing(e) ==
  /\ pc[e] \in {"adry", "aread"} /\ task[e].conn = container.inc =>
       patchFile = task[e].diff
  /\ pc[e] \in {"afile", "awrite", "aexit"} /\ task[e].run # None =>
       /\ task[e].run.diff = task[e].diff
       /\ {task[e].diff.todo} \X task[e].run.hits \subseteq wrote
  /\ pc[e] = "aexit" => task[e].run # None
  /\ pc[e] = "latest" => {task[e].diff.todo} \X task[e].diff.places \subseteq wrote

\* What the results say is true.
Truthful(e) ==
  \A i \in 1..Len(results[e]) : Entry(e, i).outcome = "applied" =>
    \A p \in Entry(e, i).places : <<TodoOf(e, i), p>> \in wrote

\* A TODO is settled as applied only after its diff has landed.
LEMMA ResolveTruthful ==
  ASSUME WellFormed, NEW e \in Editors, NEW outcome \in Outcomes, Resolve(e, outcome),
         pc[e] \notin {"plan", "done"}, Truthful(e), wrote' = wrote,
         outcome = "applied" =>
           \A p \in task[e].diff.places : <<TodoAt(e, task[e].pos), p>> \in wrote
  PROVE  Truthful(e)'
<1> DEFINE t     == task[e]
           entry == [pos |-> t.pos, outcome |-> outcome,
                     places |-> IF t.diff = None THEN {} ELSE t.diff.places]
<1>1. t \in Tasks /\ results \in [Editors -> Seq(Entries)] /\ results[e] \in Seq(Entries)
  BY DEF WellFormed, TypeOK
<1>2. entry \in Entries
  BY <1>1 DEF Entries, Tasks, Diffs
<1>3. results' = [results EXCEPT ![e] = Append(@, entry)]
  BY DEF Resolve
<1>4. /\ entry.outcome = outcome /\ entry.pos = t.pos
      /\ \A p \in entry.places : p \in t.diff.places
  OBVIOUS
<1> HIDE DEF entry
<1>5. /\ Len(results[e]) \in Nat /\ Len(results'[e]) = Len(results[e]) + 1
      /\ \A i \in 1..Len(results[e]) : results'[e][i] = results[e][i]
      /\ results'[e][Len(results[e]) + 1] = entry
  BY <1>1, <1>2, <1>3
<1>6. ASSUME NEW i \in 1..Len(results'[e]), results'[e][i].outcome = "applied",
             NEW p \in results'[e][i].places
      PROVE  <<TodoAt(e, results'[e][i].pos), p>> \in wrote
  <2>1. CASE i \in 1..Len(results[e])
    BY <1>5, <1>6, <2>1 DEF Truthful, Entry, TodoOf
  <2>2. CASE i = Len(results[e]) + 1
    BY <1>4, <1>5, <1>6, <2>2
  <2> QED BY <1>5, <2>1, <2>2
<1> QED BY <1>6 DEF Truthful, Entry, TodoOf, TodoAt

LEMMA LandingStep ==
  ASSUME WellFormed, NEW e \in Editors, EditorStep(e), Landing(e), Truthful(e)
  PROVE  Landing(e)' /\ Truthful(e)'
<1>0. /\ task \in [Editors -> Tasks] /\ pc \in [Editors -> PCs]
      /\ results \in [Editors -> Seq(Entries)]
      /\ {"skipped", "gen_failed", "applied", "apply_failed"} \subseteq Outcomes
      /\ task[e] \in Tasks /\ LocalOK(e)
  BY DEF WellFormed, TypeOK, Outcomes
<1>k. ASSUME results'[e] = results[e], wrote \subseteq wrote'
      PROVE  Truthful(e)'
  BY <1>k DEF Truthful, Entry, TodoOf, TodoAt
<1>p. ASSUME pc'[e] \notin {"adry", "aread", "afile", "awrite", "aexit", "latest"}
      PROVE  Landing(e)'
  BY <1>p DEF Landing
<1>a. ASSUME Abort(e)
      PROVE  Landing(e)' /\ Truthful(e)'
  BY <1>0, <1>a, <1>k, <1>p DEF Abort, shared
<1>r. ASSUME NEW outcome \in Outcomes, Resolve(e, outcome), pc[e] \notin {"plan", "done"},
             wrote' = wrote, outcome # "applied" \/ pc[e] = "latest"
      PROVE  Landing(e)' /\ Truthful(e)'
  <2>1. pc'[e] \in {"done", "fetch"}
    BY <1>0, <1>r DEF Resolve
  <2>2. outcome = "applied" =>
          \A p \in task[e].diff.places : <<TodoAt(e, task[e].pos), p>> \in wrote
    <3> SUFFICES ASSUME outcome = "applied", NEW p \in task[e].diff.places
                 PROVE  <<TodoAt(e, task[e].pos), p>> \in wrote
      OBVIOUS
    <3>1. /\ pc[e] = "latest" /\ task[e].diff.todo = TodoAt(e, task[e].pos)
          /\ {task[e].diff.todo} \X task[e].diff.places \subseteq wrote
      BY <1>0, <1>r DEF Landing, LocalOK, DiffPCs, ApplyPCs
    <3> QED BY <3>1
  <2> QED BY <1>p, <1>r, <2>1, <2>2, ResolveTruthful
<1>v. ASSUME VirtualTestFails(e), pc[e] \in {"vget", "vput", "vdry"}
      PROVE  Landing(e)' /\ Truthful(e)'
  <2>1. CASE task[e].attempt < MaxRetries
    BY <1>0, <1>k, <1>p, <1>v, <2>1 DEF VirtualTestFails
  <2>2. CASE ~(task[e].attempt < MaxRetries)
    BY <1>0, <1>v, <1>r, <2>2 DEF VirtualTestFails
  <2> QED BY <2>1, <2>2
<1>1. CASE ListTodo(e)
  <2>1. pc'[e] \in {"done", "fetch"} /\ results' = results /\ wrote' = wrote
    BY <1>0, <1>1 DEF ListTodo, shared
  <2> QED BY <1>k, <1>p, <2>1
<1>2. CASE ListTodoRaises(e) \/ LlmRaises(e)
  BY <1>a, <1>2 DEF ListTodoRaises, LlmRaises
<1>3. CASE FetchFails(e) \/ LlmSkips(e) \/ ReadBack(e)
  BY <1>0, <1>r, <1>3 DEF FetchFails, LlmSkips, ReadBack, shared
<1>4. CASE VirtualGetFails(e) \/ VirtualPutFails(e) \/ VirtualDryRunFails(e)
  BY <1>v, <1>4 DEF VirtualGetFails, VirtualPutFails, VirtualDryRunFails
<1>5. CASE \/ ApplyGetFails(e) \/ ApplyPutFails(e) \/ ApplyDryRunFails(e)
           \/ PatchStartFails(e) \/ PatchKilled(e) \/ PatchExitFails(e)
  BY <1>0, <1>r, <1>5 DEF ApplyGetFails, ApplyPutFails, ApplyDryRunFails, PatchStartFails,
                          PatchKilled, PatchExitFails, ApplyFails, shared
<1>6. CASE FetchSource(e) \/ LlmAnswers(e) \/ VirtualGet(e) \/ VirtualPut(e) \/ VirtualDryRun(e)
           \/ ApplyGet(e)
  <2>1. /\ pc'[e] \in {"llm", "vget", "vput", "vdry", "aget", "aput"}
        /\ results' = results /\ wrote' = wrote
    BY <1>0, <1>6 DEF FetchSource, LlmAnswers, VirtualGet, VirtualPut, VirtualDryRun,
                      ApplyGet, Goto, shared
  <2> QED BY <1>k, <1>p, <2>1
<1>7. CASE ApplyPut(e)
  <2>1. /\ pc'[e] = "adry" /\ patchFile' = task[e].diff
        /\ UNCHANGED <<task, results, wrote>>
    BY <1>0, <1>7 DEF ApplyPut, Goto
  <2> QED BY <1>k, <2>1 DEF Landing
<1>8. CASE ApplyDryRun(e)
  <2>1. /\ pc[e] = "adry" /\ pc'[e] = "aread"
        /\ UNCHANGED <<task, results, wrote, container, patchFile>>
    BY <1>0, <1>8 DEF ApplyDryRun, Goto, shared
  <2> QED BY <1>k, <2>1 DEF Landing
<1>9. CASE PatchStarts(e)
  <2>1. patchFile = task[e].diff /\ patchFile # None /\ patchFile \in Diffs
    BY <1>0, <1>9 DEF PatchStarts, Alive, Landing, LocalOK, WellFormed, TypeOK
  <2>2. PICK left \in SUBSET FilesOf(patchFile) :
          /\ task' = [task EXCEPT ![e].run = [diff |-> patchFile, left |-> left,
                                              read |-> None, hits |-> {}]]
          /\ pc' = [pc EXCEPT ![e] = NextFile(left)]
    BY <1>9 DEF PatchStarts
  <2> DEFINE run == [diff |-> patchFile, left |-> left, read |-> None, hits |-> {}]
  <2>3. run \in PatchRuns /\ run.diff = patchFile /\ run.hits = {}
    BY <2>1, PatchTypes DEF PatchRuns, FilesOf, Diffs, Places
  <2>4. task' = [task EXCEPT ![e].run = run]
    BY <2>2
  <2> HIDE DEF run
  <2>5. /\ pc'[e] \in {"afile", "aexit"} /\ results' = results /\ wrote' = wrote
        /\ task'[e].diff = task[e].diff /\ task'[e].run = run /\ run # None
    BY <1>0, <1>9, <2>2, <2>3, <2>4, NoneAssumption DEF PatchStarts, NextFile, shared, Tasks
  <2> QED BY <1>k, <2>1, <2>3, <2>5 DEF Landing
<1>12. CASE PatchReads(e)
  <2>1. task[e].run \in PatchRuns /\ task[e].run # None /\ pc[e] = "afile"
    BY <1>0, <1>12 DEF PatchReads, Goto, Tasks
  <2>2. /\ pc'[e] = "awrite" /\ results' = results /\ wrote' = wrote
        /\ task'[e].diff = task[e].diff /\ task'[e].run.diff = task[e].run.diff
        /\ task'[e].run.hits = task[e].run.hits
    BY <1>0, <1>12, <2>1 DEF PatchReads, Goto, shared, Tasks, PatchRuns
  <2> QED BY <1>k, <2>1, <2>2 DEF Landing
<1>10. CASE PatchRenames(e)
  <2> DEFINE run   == task[e].run
             match == Hits(run.diff, run.read.file, run.read.text)
             left  == run.left \ {run.read.file}
             new   == [diff |-> run.diff, left |-> left, read |-> None,
                       hits |-> run.hits \cup match]
  <2>1. /\ pc[e] = "awrite" /\ pc' = [pc EXCEPT ![e] = NextFile(left)]
        /\ run # None /\ results' = results
        /\ task' = [task EXCEPT ![e].run = new]
        /\ wrote' = wrote \cup ({run.diff.todo} \X match)
    BY <1>0, <1>10 DEF PatchRenames
  <2>2. run.diff = task[e].diff /\ {task[e].diff.todo} \X run.hits \subseteq wrote
    BY <2>1 DEF Landing
  <2>3. /\ run \in PatchRuns /\ run.read \in Inputs
    BY <1>0, <2>1 DEF Tasks, PatchRuns, LocalOK
  <2>4. match \in SUBSET Places /\ left \in SUBSET Langs
    BY <2>3, PatchTypes DEF PatchRuns, Inputs
  <2> HIDE DEF match, left
  <2>5. new \in PatchRuns /\ new.diff = run.diff /\ new.hits = run.hits \cup match
    BY <2>3, <2>4 DEF PatchRuns
  <2>6. pc'[e] \in {"afile", "aexit"}
    BY <1>0, <2>1 DEF NextFile
  <2>7. new # None
    BY <2>5, NoneAssumption
  <2> HIDE DEF new
  <2>8. task'[e].run = new /\ task'[e].diff = task[e].diff
    BY <1>0, <2>1 DEF Tasks
  <2>9. {task'[e].diff.todo} \X task'[e].run.hits \subseteq wrote'
    BY <2>1, <2>2, <2>5, <2>8
  <2>10. Truthful(e)'
    BY <1>k, <2>1
  <2>11. Landing(e)'
    BY <2>2, <2>5, <2>6, <2>7, <2>8, <2>9 DEF Landing
  <2> QED BY <2>10, <2>11
<1>11. CASE PatchExits(e)
  <2>1. /\ pc[e] = "aexit" /\ pc'[e] = "latest"
        /\ UNCHANGED <<task, results, wrote>>
        /\ task[e].run.hits = task[e].run.diff.places
    BY <1>0, <1>11 DEF PatchExits, Goto, ExitsZero, shared
  <2>2. /\ task[e].run.diff = task[e].diff
        /\ {task[e].diff.todo} \X task[e].run.hits \subseteq wrote
    BY <2>1 DEF Landing
  <2> QED BY <1>k, <2>1, <2>2 DEF Landing
<1> QED BY <1>1, <1>2, <1>3, <1>4, <1>5, <1>6, <1>7, <1>8, <1>9, <1>10, <1>11, <1>12
        DEF EditorStep, Generate, Apply

LEMMA LandingContainer ==
  ASSUME WellFormed, NEW e \in Editors, ContainerStep, Landing(e), Truthful(e)
  PROVE  Landing(e)' /\ Truthful(e)'
<1>1. /\ pc' = pc /\ results' = results /\ wrote' = wrote /\ task[e] \in Tasks
      /\ LocalOK(e) /\ container.inc \in Nat /\ task[e].conn \in Nat
  BY SubAgentAssumption DEF ContainerStep, StopContainer, StartContainer, DeleteContainer,
     CreateContainer, WellFormed, TypeOK, Tasks
<1>2. Truthful(e)'
  BY <1>1 DEF Truthful, Entry, TodoOf, TodoAt
<1>3. \/ patchFile' = patchFile /\ container'.inc = container.inc
      \/ container'.inc = container.inc + 1
  BY DEF ContainerStep, StopContainer, StartContainer, DeleteContainer, CreateContainer,
     WellFormed, TypeOK
<1>4. \/ task' = task
      \/ /\ task'[e].diff = task[e].diff /\ task'[e].conn = task[e].conn
         /\ pc[e] \in {"afile", "awrite"} => task'[e].run = None
         /\ pc[e] \notin {"afile", "awrite"} => task'[e] = task[e]
  BY <1>1 DEF ContainerStep, StopContainer, StartContainer, DeleteContainer,
     CreateContainer, KillRuns, Tasks
<1>5. task[e].conn <= container.inc
  BY <1>1 DEF LocalOK
<1>6. task'[e].conn = container'.inc =>
        patchFile' = patchFile /\ task[e].conn = container.inc
  BY <1>1, <1>3, <1>4, <1>5
<1>7. Landing(e)'
  BY <1>1, <1>4, <1>6 DEF Landing
<1> QED BY <1>2, <1>7

\* No task uploads its diff while another is between its upload and the patch
\* process that reads it, as a lock around the two would have it.
UploadsApart ==
  \A x \in Editors : ApplyPut(x) =>
    \A y \in Editors \ {x} : pc[y] \notin {"adry", "aread"}

\* What another task does leaves this one's diff on its way.
LEMMA LandingFrame ==
  ASSUME WellFormed, ResultsOrdered, UploadsApart, NEW x \in Editors, EditorStep(x),
         NEW e \in Editors \ {x}, Landing(e), Truthful(e)
  PROVE  Landing(e)' /\ Truthful(e)'
<1>1. pc'[e] = pc[e] /\ task'[e] = task[e] /\ results'[e] = results[e]
  BY EditorSteps DEF OthersKeep
<1>2. wrote \subseteq wrote' /\ container' = container
  BY DEF EditorStep, ListTodo, ListTodoRaises, Abort, shared, Generate, FetchSource, FetchFails,
     LlmSkips, LlmAnswers, LlmRaises, VirtualGet, VirtualGetFails, VirtualPut, VirtualPutFails,
     VirtualDryRun, VirtualDryRunFails, VirtualTestFails, Apply, ApplyGet, ApplyGetFails,
     ApplyPut, ApplyPutFails, ApplyDryRun, ApplyDryRunFails, PatchStarts, PatchStartFails,
     PatchReads, PatchRenames, PatchKilled, PatchExits, PatchExitFails, ReadBack, ApplyFails, Goto
<1>3. patchFile' = patchFile \/ pc[e] \notin {"adry", "aread"}
  BY DEF UploadsApart, EditorStep, ListTodo, ListTodoRaises, Abort, shared, Generate,
     FetchSource, FetchFails, LlmSkips, LlmAnswers, LlmRaises, VirtualGet, VirtualGetFails,
     VirtualPut, VirtualPutFails, VirtualDryRun, VirtualDryRunFails, VirtualTestFails, Apply,
     ApplyGet, ApplyGetFails, ApplyPutFails, ApplyDryRun, ApplyDryRunFails, PatchStarts,
     PatchStartFails, PatchReads, PatchRenames, PatchKilled, PatchExits, PatchExitFails, ReadBack,
     ApplyFails, Goto
<1>4. Landing(e)' BY <1>1, <1>2, <1>3 DEF Landing
<1>5. Truthful(e)' BY <1>1, <1>2 DEF Truthful, Entry, TodoOf, TodoAt
<1> QED BY <1>4, <1>5

\* A TODO reported as applied has had every hunk of its diff written, for any
\* number of tasks, whatever is done to the container meanwhile and whichever
\* Docker calls fail, as long as uploads of /tmp/patch.diff keep apart: that
\* file is the only way in which tasks mislead each other's reports.
THEOREM ApartReportTruly == Spec /\ [][UploadsApart]_vars => []SuccessMeansLanded
<1> DEFINE J == \A e \in Editors : Landing(e) /\ Truthful(e)
<1>1. Init => J
  <2> SUFFICES ASSUME Init, NEW e \in Editors PROVE Landing(e) /\ Truthful(e)
    OBVIOUS
  <2>1. pc[e] = "plan" /\ results[e] = <<>> BY DEF Init
  <2> QED BY <2>1 DEF Landing, Truthful
<1>2. Inv /\ J /\ [Next]_vars /\ [UploadsApart]_vars => J'
  <2> SUFFICES ASSUME Inv, J, [Next]_vars, [UploadsApart]_vars PROVE J'
    OBVIOUS
  <2>0. WellFormed /\ ResultsOrdered BY DEF Inv
  <2>1. ASSUME NEW x \in Editors, EditorStep(x), UploadsApart PROVE J'
    <3>1. Landing(x)' /\ Truthful(x)' BY <2>0, <2>1, LandingStep
    <3>2. \A e \in Editors \ {x} : Landing(e)' /\ Truthful(e)'
      BY <2>0, <2>1, LandingFrame
    <3> QED BY <3>1, <3>2
  <2>2. CASE ContainerStep
    BY <2>0, <2>2, LandingContainer
  <2>3. CASE UNCHANGED vars
    BY <2>3 DEF vars, shared, Landing, Truthful, Entry, TodoOf
  <2> QED BY <2>1, <2>2, <2>3 DEF Next
<1>3. J => SuccessMeansLanded
  BY DEF Truthful, SuccessMeansLanded
<1> QED BY <1>1, <1>2, <1>3, Invariance, PTL DEF Spec

\* A task that is alone on its container reports truly.
THEOREM AloneReportsTruly ==
  ASSUME NEW e \in Editors, Editors = {e}
  PROVE  Spec => []SuccessMeansLanded
<1>1. [Next]_vars => UploadsApart
  BY DEF UploadsApart
<1>2. Spec => [][UploadsApart]_vars
  BY <1>1, PTL DEF Spec
<1> QED BY <1>2, ApartReportTruly, PTL

-----------------------------------------------------------------------------
(* What a task changed and what it returns.                                  *)

\* What a task that has ended changed is among its results, as applied or as
\* failed in apply_diff: nothing is written for a TODO it lists otherwise, or
\* not at all, and nothing more once it has ended.
ChangesAccountedFor ==
  \A e \in Editors : pc[e] = "done" =>
    \A w \in wrote : w[1][1] = e =>
      \E i \in 1..Len(results[e]) :
        TodoOf(e, i) = w[1] /\ Entry(e, i).outcome \in {"applied", "apply_failed"}

\* Every change of an ended task is one its results account for, for any number
\* of tasks, even when one runs the diff of another.
THEOREM NoChangeUnaccounted == Spec => []ChangesAccountedFor
<1>1. Inv => ChangesAccountedFor
  <2> SUFFICES ASSUME Inv, NEW e \in Editors, pc[e] = "done",
                      NEW w \in wrote, w[1][1] = e
               PROVE  \E i \in 1..Len(results[e]) :
                        /\ TodoOf(e, i) = w[1]
                        /\ Entry(e, i).outcome \in {"applied", "apply_failed"}
    BY DEF ChangesAccountedFor
  <2>1. Offered(w[1]) BY DEF Inv, OnlyOffered
  <2>2. pc[e] \notin ApplyPCs BY DEF ApplyPCs
  <2> QED BY <2>1, <2>2 DEF Offered
<1> QED BY <1>1, Invariance, PTL

\* An exception ends a task before its first TODO or in the middle of llm_diff.
LEMMA Erring ==
  ASSUME WellFormed, NEW e \in Editors, EditorStep(e)
  PROVE  /\ pc[e] # "done"
         /\ \A x \in Editors : report'[x] = "error" =>
              \/ report[x] = "error"
              \/ x = e /\ Abort(e) /\ pc[e] \in {"plan", "llm"}
<1>0. /\ report \in [Editors -> {"none", "no_todo", "summary", "error"}]
      /\ pc \in [Editors -> PCs]
  BY DEF WellFormed, TypeOK
<1> DEFINE Same == \A x \in Editors : report'[x] = "error" => report[x] = "error"
<1>r. ASSUME NEW outcome, Resolve(e, outcome) PROVE Same
  BY <1>0, <1>r DEF Resolve
<1>v. VirtualTestFails(e) => Same
  BY <1>r DEF VirtualTestFails
<1>a. ApplyFails(e) => Same
  BY <1>r DEF ApplyFails
<1>1. CASE ListTodo(e)
  BY <1>0, <1>1 DEF ListTodo
<1>2. CASE ListTodoRaises(e) \/ LlmRaises(e)
  BY <1>0, <1>2 DEF ListTodoRaises, LlmRaises, Abort
<1>3. CASE FetchFails(e) \/ LlmSkips(e) \/ ReadBack(e)
  BY <1>0, <1>r, <1>3 DEF FetchFails, LlmSkips, ReadBack
<1>4. CASE VirtualGetFails(e) \/ VirtualPutFails(e) \/ VirtualDryRunFails(e)
  BY <1>v, <1>4 DEF VirtualGetFails, VirtualPutFails, VirtualDryRunFails
<1>5. CASE \/ ApplyGetFails(e) \/ ApplyPutFails(e) \/ ApplyDryRunFails(e)
           \/ PatchStartFails(e) \/ PatchKilled(e) \/ PatchExitFails(e)
  BY <1>a, <1>5 DEF ApplyGetFails, ApplyPutFails, ApplyDryRunFails, PatchStartFails,
                    PatchKilled, PatchExitFails, Goto
<1>6. CASE \/ FetchSource(e) \/ LlmAnswers(e) \/ VirtualGet(e) \/ VirtualPut(e)
           \/ VirtualDryRun(e) \/ ApplyGet(e) \/ ApplyPut(e) \/ ApplyDryRun(e)
           \/ PatchStarts(e) \/ PatchReads(e) \/ PatchRenames(e) \/ PatchExits(e)
  BY <1>6 DEF FetchSource, LlmAnswers, VirtualGet, VirtualPut, VirtualDryRun, ApplyGet,
              ApplyPut, ApplyDryRun, PatchStarts, PatchReads, PatchRenames, PatchExits, Goto
<1> QED BY <1>1, <1>2, <1>3, <1>4, <1>5, <1>6 DEF EditorStep, Generate, Apply

\* Where the model's list has one TODO, an error line loses nothing: the task
\* was given up before it changed anything.  Lost reports take a second TODO.
THEOREM OneTodoErrsUntouched ==
  ASSUME \A plan \in Plans : \A p, q \in Langs \X (1..MaxTodos) :
           p[2] <= plan[p[1]] /\ q[2] <= plan[q[1]] => p = q
  PROVE  Spec => []ErrorMeansUntouched
<1> DEFINE Erred(e)   == report[e] = "error" => pc[e] = "done" /\ results[e] = <<>>
           Planned(e) == pc[e] \notin {"plan", "done"} => task[e].plan \in Plans
           J == \A e \in Editors : UpToDate(e) /\ Erred(e) /\ Planned(e)
<1>1. Init => J
  BY DEF Init, UpToDate
<1>2. Inv /\ Inv' /\ J /\ [Next]_vars => J'
  <2> SUFFICES ASSUME Inv, Inv', J, [Next]_vars PROVE J'
    OBVIOUS
  <2>0. /\ WellFormed /\ ResultsOrdered
        /\ \A e \in Editors : results[e] \in Seq(Entries) /\ task[e] \in Tasks /\ LocalOK(e)
    BY DEF Inv, WellFormed, TypeOK
  <2>1. \A e \in Editors : UpToDate(e)' BY UpToDateKept
  <2>2. CASE \E e \in Editors : EditorStep(e)
    <3>1. PICK e \in Editors : EditorStep(e) BY <2>2
    <3>2. OthersKeep(e) /\ Walks(e) BY <2>0, <3>1, EditorSteps, EditorWalks
    <3>3. Planned(e)'
      BY <2>0, <3>2 DEF Walks, Begins, Stays, Advances
    <3>4. ASSUME report'[e] = "error" PROVE pc'[e] = "done" /\ results'[e] = <<>>
      <4>1. Abort(e) /\ pc[e] \in {"plan", "llm"} BY <2>0, <3>1, <3>4, Erring
      <4>2. pc'[e] = "done" /\ results'[e] = results[e]
        BY <2>0, <4>1 DEF Abort, WellFormed, TypeOK
      <4>3. CASE pc[e] = "plan" BY <2>0, <4>2, <4>3 DEF LocalOK
      <4>4. CASE pc[e] = "llm"
        <5>1. /\ task[e].plan \in Plans /\ InPlan(task[e].plan, task[e].pos)
              /\ Settled(e) = Before(task[e].plan, task[e].pos)
              /\ task[e].pos # End /\ task[e].pos \in Positions
          BY <2>0, <4>4 DEF UpToDate, LocalOK, Tasks
        <5>2. /\ task[e].pos \in Langs \X (1..MaxTodos)
              /\ task[e].pos[2] <= task[e].plan[task[e].pos[1]]
          BY <5>1 DEF Positions, InPlan
        <5>3. ~Precedes(task[e].pos, task[e].pos)
          BY <5>2, SubAgentAssumption DEF Precedes
        <5>4. Settled(e) = {} BY <5>1, <5>2, <5>3 DEF Before
        <5>5. 1..Len(results[e]) = {}
          <6>1. \A i \in 1..Len(results[e]) : Entry(e, i).pos \in Settled(e) BY DEF Settled
          <6> QED BY <5>4, <6>1
        <5>6. Len(results[e]) = 0
          <6>1. Len(results[e]) \in Nat BY <2>0
          <6> QED BY <5>5, <6>1
        <5>7. results[e] = <<>> BY <2>0, <5>6
        <5> QED BY <4>2, <5>7
      <4> QED BY <4>1, <4>3, <4>4
    <3>5. ASSUME NEW x \in Editors \ {e} PROVE Erred(x)' /\ Planned(x)'
      <4>1. report'[x] = "error" => report[x] = "error" BY <2>0, <3>1, Erring
      <4> QED BY <3>2, <4>1 DEF OthersKeep
    <3> QED BY <2>1, <3>3, <3>4, <3>5
  <2>3. CASE ContainerStep
    <3>1. /\ pc' = pc /\ results' = results /\ report' = report
          /\ task' = task \/ KillRuns
      BY <2>3 DEF ContainerStep, StopContainer, StartContainer, DeleteContainer, CreateContainer
    <3>2. \A e \in Editors : task'[e].plan = task[e].plan
      <4>1. CASE task' = task BY <4>1
      <4>2. CASE KillRuns
        <5>1. \A e \in Editors :
                task'[e] = IF pc[e] \in {"afile", "awrite"} THEN [task[e] EXCEPT !.run = None]
                ELSE task[e]
          BY <4>2 DEF KillRuns
        <5> QED BY <2>0, <5>1 DEF Tasks
      <4> QED BY <3>1, <4>1, <4>2
    <3> QED BY <2>1, <3>1, <3>2
  <2>4. CASE UNCHANGED vars BY <2>1, <2>4 DEF vars
  <2> QED BY <2>2, <2>3, <2>4 DEF Next
<1>3. Inv /\ J => ErrorMeansUntouched
  <2> SUFFICES ASSUME Inv, J, NEW e \in Editors, report[e] = "error",
                      NEW w \in wrote, w[1][1] = e
               PROVE  FALSE
    BY DEF ErrorMeansUntouched
  <2>1. pc[e] = "done" /\ results[e] = <<>> OBVIOUS
  <2>2. Offered(w[1]) BY DEF Inv, OnlyOffered
  <2> QED BY <2>1, <2>2 DEF Offered, ApplyPCs
<1> QED BY <1>1, <1>2, <1>3, Invariance, PTL DEF Spec

-----------------------------------------------------------------------------
(* Why every task ends: no step of its own is without progress, and nobody   *)
(* else takes it back.  (That it does end, given fairness, is left to TLC.)  *)

\* The places of a task in the order it comes to them.
Stage(place) ==
  CASE place = "plan"  -> 0 [] place = "fetch" -> 1  [] place = "llm"    -> 2
    [] place = "vget"  -> 3 [] place = "vput"  -> 4  [] place = "vdry"   -> 5
    [] place = "aget"  -> 6 [] place = "aput"  -> 7  [] place = "adry"   -> 8
    [] place = "aread" -> 9 [] place = "afile" -> 10 [] place = "awrite" -> 11
    [] place = "aexit" -> 12 [] place = "latest" -> 13 [] place = "done" -> 14

\* A patch process has done a file and goes back for one of those left.
FileDone(e) ==
  /\ pc[e] = "awrite" /\ pc'[e] = "afile"
  /\ task'[e].run.left \subseteq task[e].run.left
  /\ task'[e].run.left # task[e].run.left

\* The task begins its list or ends, comes to a later TODO, to the next attempt
\* at the same, further with the same attempt, or to a patch process with fewer
\* files left.  The positions, attempts, files and stages are finitely many.
Progresses(e) ==
  \/ pc[e] = "plan" /\ pc'[e] # "plan"
  \/ pc[e] # "done" /\ pc'[e] = "done"
  \/ pc'[e] \notin {"plan", "done"} /\ Precedes(task[e].pos, task'[e].pos)
  \/ /\ task'[e].pos = task[e].pos
     /\ \/ task'[e].attempt > task[e].attempt
        \/ task'[e].attempt = task[e].attempt /\ Stage(pc'[e]) > Stage(pc[e])
        \/ task'[e].attempt = task[e].attempt /\ FileDone(e)

Stands(e) ==
  pc'[e] = pc[e] /\ task'[e].pos = task[e].pos /\ task'[e].attempt = task[e].attempt

Forward ==
  \A e \in Editors : /\ EditorStep(e) => Progresses(e)
                     /\ Progresses(e) \/ Stands(e)

LEMMA ResolveProgresses ==
  ASSUME WellFormed, NEW e \in Editors, NEW outcome \in Outcomes,
         pc[e] \notin {"plan", "done"}, Resolve(e, outcome)
  PROVE  Progresses(e)
<1> DEFINE next == NextTodo(task[e].plan, task[e].pos)
<1>1. /\ task[e] \in Tasks /\ task \in [Editors -> Tasks] /\ pc \in [Editors -> PCs]
      /\ LocalOK(e)
  BY DEF WellFormed, TypeOK
<1>2. task[e].plan \in [Langs -> 0..MaxTodos] /\ task[e].pos \in Langs \X (1..MaxTodos)
  BY <1>1 DEF LocalOK, Tasks, Positions
<1>3. Precedes(task[e].pos, next) BY <1>2, NextTodoType
<1>4. /\ task' = [task EXCEPT ![e] = AtTodo(task[e].plan, next)]
      /\ pc' = [pc EXCEPT ![e] = IF next = End THEN "done" ELSE "fetch"]
  BY DEF Resolve
<1> HIDE DEF next
<1>5. task'[e].pos = next BY <1>1, <1>4 DEF AtTodo
<1>6. pc'[e] \in {"done", "fetch"} BY <1>1, <1>4
<1> QED BY <1>3, <1>5, <1>6 DEF Progresses

LEMMA EditorProgresses ==
  ASSUME WellFormed, NEW e \in Editors, EditorStep(e)
  PROVE  Progresses(e)
<1>0. /\ task \in [Editors -> Tasks] /\ pc \in [Editors -> PCs] /\ task[e] \in Tasks
      /\ {"skipped", "gen_failed", "applied", "apply_failed"} \subseteq Outcomes
  BY DEF WellFormed, TypeOK, Outcomes
<1>r. ASSUME NEW outcome \in Outcomes, Resolve(e, outcome), pc[e] \notin {"plan", "done"}
      PROVE  Progresses(e)
  BY <1>r, ResolveProgresses
<1>v. ASSUME VirtualTestFails(e), pc[e] \in {"vget", "vput", "vdry"}
      PROVE  Progresses(e)
  <2>1. CASE task[e].attempt < MaxRetries
    <3>1. task' = [task EXCEPT ![e].attempt = @ + 1, ![e].diff = None, ![e].conn = 0]
      BY <1>v, <2>1 DEF VirtualTestFails
    <3>2. /\ task'[e].pos = task[e].pos /\ task'[e].attempt = task[e].attempt + 1
          /\ task[e].attempt \in Nat
      BY <1>0, <3>1, SubAgentAssumption DEF Tasks
    <3>3. task'[e].attempt > task[e].attempt BY <3>2
    <3> QED BY <3>2, <3>3 DEF Progresses
  <2>2. CASE ~(task[e].attempt < MaxRetries)
    BY <1>0, <1>v, <1>r, <2>2 DEF VirtualTestFails
  <2> QED BY <2>1, <2>2
<1>g. ASSUME NEW from \in PCs, NEW to \in PCs, Goto(e, from, to), Stage(to) > Stage(from),
             task'[e].pos = task[e].pos, task'[e].attempt = task[e].attempt
      PROVE  Progresses(e)
  BY <1>0, <1>g DEF Goto, Progresses
<1>1. CASE ListTodo(e) \/ ListTodoRaises(e)
  <2>1. pc[e] = "plan" /\ pc'[e] # "plan"
    BY <1>0, <1>1 DEF ListTodo, ListTodoRaises, Abort
  <2> QED BY <2>1 DEF Progresses
<1>2. CASE LlmRaises(e)
  BY <1>0, <1>2 DEF LlmRaises, Abort, Progresses
<1>3. CASE FetchFails(e) \/ LlmSkips(e) \/ ReadBack(e)
  BY <1>0, <1>r, <1>3 DEF FetchFails, LlmSkips, ReadBack
<1>4. CASE VirtualGetFails(e) \/ VirtualPutFails(e) \/ VirtualDryRunFails(e)
  BY <1>v, <1>4 DEF VirtualGetFails, VirtualPutFails, VirtualDryRunFails
<1>5. CASE \/ ApplyGetFails(e) \/ ApplyPutFails(e) \/ ApplyDryRunFails(e)
           \/ PatchStartFails(e) \/ PatchKilled(e) \/ PatchExitFails(e)
  BY <1>0, <1>r, <1>5 DEF ApplyGetFails, ApplyPutFails, ApplyDryRunFails, PatchStartFails,
                          PatchKilled, PatchExitFails, ApplyFails
<1>6. CASE \/ FetchSource(e) \/ LlmAnswers(e) \/ VirtualGet(e) \/ VirtualDryRun(e)
           \/ ApplyGet(e) \/ PatchStarts(e) \/ PatchReads(e)
  <2>1. task'[e].pos = task[e].pos /\ task'[e].attempt = task[e].attempt
    BY <1>0, <1>6 DEF FetchSource, LlmAnswers, VirtualGet, VirtualDryRun, ApplyGet,
                      PatchStarts, PatchReads, Tasks
  <2>2. \/ Goto(e, "fetch", "llm") \/ Goto(e, "llm", "vget") \/ Goto(e, "vget", "vput")
        \/ Goto(e, "vdry", "aget") \/ Goto(e, "aget", "aput") \/ Goto(e, "afile", "awrite")
        \/ Goto(e, "aread", "afile") \/ Goto(e, "aread", "aexit")
    BY <1>6 DEF FetchSource, LlmAnswers, VirtualGet, VirtualDryRun, ApplyGet, PatchStarts,
                PatchReads, NextFile, Goto
  <2> QED BY <1>0, <2>1, <2>2 DEF Goto, Progresses, Stage
<1>7. CASE VirtualPut(e) \/ ApplyPut(e) \/ ApplyDryRun(e) \/ PatchExits(e)
  <2>1. task' = task
    BY <1>7 DEF VirtualPut, ApplyPut, ApplyDryRun, PatchExits
  <2>2. \/ Goto(e, "vput", "vdry") \/ Goto(e, "aput", "adry") \/ Goto(e, "adry", "aread")
        \/ Goto(e, "aexit", "latest")
    BY <1>7 DEF VirtualPut, ApplyPut, ApplyDryRun, PatchExits
  <2> QED BY <1>0, <2>1, <2>2 DEF Goto, Progresses, Stage
<1>8. CASE PatchRenames(e)
  <2> DEFINE run  == task[e].run
             left == run.left \ {run.read.file}
  <2>1. /\ pc[e] = "awrite" /\ run # None /\ pc'[e] = NextFile(left)
        /\ task'[e].pos = task[e].pos /\ task'[e].attempt = task[e].attempt
        /\ task'[e].run.left = left
    BY <1>0, <1>8 DEF PatchRenames, Tasks
  <2>2. run.read.file \in run.left
    BY <2>1 DEF WellFormed, LocalOK
  <2>3. CASE left = {}
    <3>1. pc'[e] = "aexit" BY <2>1, <2>3 DEF NextFile
    <3> QED BY <2>1, <3>1 DEF Progresses, Stage
  <2>4. CASE left # {}
    <3>1. pc'[e] = "afile" BY <2>1, <2>4 DEF NextFile
    <3> QED BY <2>1, <2>2, <3>1 DEF Progresses, FileDone
  <2> QED BY <2>3, <2>4
<1> QED BY <1>1, <1>2, <1>3, <1>4, <1>5, <1>6, <1>7, <1>8 DEF EditorStep, Generate, Apply

\* No retry goes on for ever: whatever the container and the model do, each
\* step of a task brings it on, and no step of another task, and no request to
\* the container, takes it back.
THEOREM StepsProgress == Spec => [][Forward]_vars
<1>1. ASSUME Inv, [Next]_vars, NEW e \in Editors
      PROVE  /\ EditorStep(e) => Progresses(e)
             /\ Progresses(e) \/ Stands(e)
  <2>0. WellFormed /\ ResultsOrdered BY <1>1 DEF Inv
  <2>1. EditorStep(e) => Progresses(e) BY <2>0, EditorProgresses
  <2>2. ASSUME NEW x \in Editors, EditorStep(x), x # e PROVE Stands(e)
    BY <2>0, <2>2, EditorSteps DEF OthersKeep, Stands
  <2>3. CASE ContainerStep
    <3>1. pc' = pc /\ (task' = task \/ KillRuns)
      BY <2>3 DEF ContainerStep, StopContainer, StartContainer, DeleteContainer, CreateContainer
    <3>2. CASE task' = task BY <2>1, <3>1, <3>2 DEF Stands
    <3>3. CASE KillRuns
      <4>1. task'[e] = IF pc[e] \in {"afile", "awrite"} THEN [task[e] EXCEPT !.run = None]
                       ELSE task[e]
        BY <3>3 DEF KillRuns
      <4>2. task[e] \in Tasks BY <2>0 DEF WellFormed, TypeOK
      <4> QED BY <2>1, <3>1, <4>1, <4>2 DEF Stands, Tasks
    <3> QED BY <3>1, <3>2, <3>3
  <2>4. CASE UNCHANGED vars BY <2>1, <2>4 DEF vars, Stands
  <2> QED BY <1>1, <2>1, <2>2, <2>3, <2>4 DEF Next
<1>2. Inv /\ [Next]_vars => [Forward]_vars BY <1>1 DEF Forward
<1> QED BY <1>2, Invariance, PTL DEF Spec
=============================================================================
