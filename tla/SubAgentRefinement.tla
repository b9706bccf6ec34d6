------------------------- MODULE SubAgentRefinement -------------------------
(***************************************************************************)
(* One edit task alone on its container implements EditContract, although  *)
(* the container may be stopped, started, deleted and re-created under it  *)
(* and every Docker call may fail.                                         *)
(***************************************************************************)
EXTENDS SubAgent

\* The only editor.
TheEditor == CHOOSE e \in Editors : TRUE

\* The TODO items of a plan from position p on.
Agenda(plan, p) ==
  {q \in Langs \X (1..MaxTodos) : q[2] <= plan[q[1]] /\ ~Precedes(q, p)}

Trace(p) == TodoAt(TheEditor, p)

\* The places that the TODO in progress has changed.
Landed == {place \in Places : <<Trace(task[TheEditor].pos), place>> \in wrote}

Contract == INSTANCE EditContract WITH
  Agendas <- {Agenda(plan, <<1, 1>>) : plan \in Plans},
  Earlier <- Precedes,
  Mark    <- Trace,
  Files   <- Langs,
  doc     <- files,
  agenda  <- Agenda(task[TheEditor].plan, task[TheEditor].pos),
  landed  <- Landed,
  log     <- results[TheEditor],
  report  <- report[TheEditor]

\* The task keeps the contract: its items are settled in order, each changes a
\* file by all its hunks for it or not at all, and it is reported accordingly.
ImplementsContract == Contract!Spec
=============================================================================
