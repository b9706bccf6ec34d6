------------------------ MODULE MCContainerLifecycle ------------------------
(***************************************************************************)
(* Small instances of ContainerLifecycle for TLC: on a host that tells     *)
(* "Site" from "site", the two have folders of their own and one           *)
(* container.                                                              *)
(***************************************************************************)
EXTENDS ContainerLifecycle, TLC

NamesInCase == {"Site", "site", "blog"}
LowerCase   == {"site", "blog"}
InLower     == [n \in NamesInCase |-> IF n = "blog" THEN "blog" ELSE "site"]
SameCase    == [n \in LowerCase |-> n]
AsTyped     == [n \in NamesInCase |-> n]
=============================================================================
