------------------------- MODULE AtomicPublication -------------------------
(***************************************************************************)
(* What a build promises an installer looking at the output directory: a   *)
(* package appears in one step, complete, made by one build, into a place  *)
(* where nothing was visible.  It may be withdrawn file by file, never     *)
(* added to or altered.                                                    *)
(***************************************************************************)
CONSTANTS Packages, \* the sets of names that make up a package
          Builds    \* the builds that may publish

VARIABLE view       \* the visible files: a set of <<name, file>>

Init == view = {}

Publish(names, b) ==
    /\ view = {}
    /\ view' = names \X {[build |-> b, whole |-> TRUE]}

Withdraw == view' \subseteq view

Next == Withdraw \/ \E names \in Packages, b \in Builds : Publish(names, b)

Spec == Init /\ [][Next]_view
=============================================================================
