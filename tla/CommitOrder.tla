---------------------------- MODULE CommitOrder ----------------------------
(***************************************************************************)
(* What every pass that consumes a changeset graph promises, whatever      *)
(* changesets it forms on the way: the items in work are emitted a group   *)
(* at a time, each item once, an item only when every item of work it      *)
(* depends on was emitted in an earlier group, and in the end all of them. *)
(***************************************************************************)
VARIABLES
  work,      \* the items the pass puts in order, which do not change
  preds,     \* preds[i]: the items that item i depends on; nor do these
  committed  \* those that were emitted

Init == committed = {}

\* The next group.
Commit ==
  /\ committed' # committed
  /\ committed \subseteq committed' /\ committed' \subseteq work
  /\ \A i \in committed' \ committed : preds[i] \cap work \subseteq committed
  /\ UNCHANGED <<work, preds>>

Safety == Init /\ [][Commit]_<<work, preds, committed>>
Spec == Safety /\ <>(committed = work)
=============================================================================
