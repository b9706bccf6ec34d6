---------------------------- MODULE EditContract ----------------------------
(***************************************************************************)
(* What one edit task promises to the user who asked for it: the TODO      *)
(* items are settled one by one in the order of the agenda.  An item       *)
(* changes some of the files, each of them by all the hunks of its diff    *)
(* for that file in one step or not at all.  An item reported as applied   *)
(* has changed all that its diff names, one that failed while it was       *)
(* applied some of the files, and one that is skipped, or for which no     *)
(* diff could be made, nothing.                                            *)
(*                                                                         *)
(* It is not promised that an applied item changed anything, nor that what *)
(* it changed is the file the item is about: a diff may be empty, and its  *)
(* headers may name any file.                                              *)
(*                                                                         *)
(* SubAgent with a single editor implements this (SubAgentRefinement).     *)
(***************************************************************************)
EXTENDS Sequences

CONSTANTS Agendas,   \* the possible sets of items
          Earlier(_, _), \* the order in which they are settled
          Mark(_),   \* what an item leaves in the places it edits
          Files,
          Regions,
          Orig

VARIABLES doc,     \* the web files
          agenda,  \* items not settled yet
          landed,  \* places the current item has changed
          log,     \* settled items
          report   \* answer to the user

vars == <<doc, agenda, landed, log, report>>

Blank == [f \in Files |-> [r \in Regions |-> Orig]]

\* What a set of places has of one file.
Within(places, file) == places \cap ({file} \X Regions)

\* No other item of the agenda comes before this one.
Due(item) == item \in agenda /\ \A other \in agenda \ {item} : Earlier(item, other)

Init ==
  /\ doc = Blank
  /\ agenda = {}
  /\ landed = {}
  /\ log = <<>>
  /\ report = "none"

Accept ==
  /\ report = "none" /\ agenda = {} /\ log = <<>>
  /\ agenda' \in Agendas
  /\ report' = IF agenda' = {} THEN "no_todo" ELSE "none"
  /\ UNCHANGED <<doc, landed, log>>

\* All that the item that is due changes in a file reaches it at once.
Land(item, file, regions) ==
  /\ Due(item) /\ Within(landed, file) = {}
  /\ regions # {}
  /\ landed' = landed \cup ({file} \X regions)
  /\ doc' = [doc EXCEPT ![file] =
               [r \in Regions |-> IF r \in regions THEN Mark(item) ELSE @[r]]]
  /\ UNCHANGED <<agenda, log, report>>

\* What may be reported of an item whose diff names these places, given what it
\* changed.
Honest(outcome, places) ==
  CASE outcome = "applied"      -> landed = places
    [] outcome = "apply_failed" ->
         \A f \in Files : Within(landed, f) \in {{}, Within(places, f)}
    [] OTHER                    -> landed = {}

Settle(item, outcome, places) ==
  /\ Due(item)
  /\ Honest(outcome, places)
  /\ log' = Append(log, [pos |-> item, outcome |-> outcome, places |-> places])
  /\ landed' = {}
  /\ agenda' = agenda \ {item}
  /\ report' = IF agenda' = {} THEN "summary" ELSE "none"
  /\ UNCHANGED doc

\* The task gives up as a whole, between two changes.
GiveUp ==
  /\ report = "none" /\ landed = {}
  /\ report' = "error"
  /\ agenda' = {}
  /\ UNCHANGED <<doc, landed, log>>

\* The container is replaced by a fresh one.
Recreate == doc' = Blank /\ UNCHANGED <<agenda, landed, log, report>>

Outcomes == {"skipped", "gen_failed", "apply_failed", "applied"}

Next ==
  \/ Accept \/ GiveUp \/ Recreate
  \/ \E item \in agenda :
       \/ \E file \in Files, regions \in SUBSET Regions : Land(item, file, regions)
       \/ \E outcome \in Outcomes, places \in SUBSET (Files \X Regions) :
            Settle(item, outcome, places)

Spec == Init /\ [][Next]_vars
=============================================================================
