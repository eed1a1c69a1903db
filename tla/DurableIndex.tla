---------------------------- MODULE DurableIndex ----------------------------
(***************************************************************************)
(* What a StateLogger promises to its callers: an index that survives.     *)
(*                                                                         *)
(* A diff that is accepted becomes durable in one step, is then shown in   *)
(* memory, and an index read back after a crash is exactly the durable     *)
(* one.  There are no files, names or replays here: StateLogger.tla has    *)
(* them and is shown to implement this module.  What an index is, and what *)
(* a diff does to it, are parameters.                                      *)
(***************************************************************************)
CONSTANTS
  Diffs,                    \* the diffs callers commit
  NoDiff,                   \* there is no commit under way
  EmptyIndex,               \* the index nothing was committed to
  CanPerformChanges(_, _),  \* whether an index accepts a diff
  PerformChanges(_, _)      \* the index after a diff

VARIABLES
  durable,    \* the index that a crash cannot take away
  view,       \* the index in memory, which readers see
  pending,    \* the diff being committed, or NoDiff
  phase       \* "down", "ready", "accepted" or "saved"

vars == <<durable, view, pending, phase>>

Init ==
  /\ durable = EmptyIndex
  /\ view = EmptyIndex
  /\ pending = NoDiff
  /\ phase = "down"

(* the diff is applicable and the commit goes ahead *)
Accept(d) ==
  /\ phase = "ready"
  /\ CanPerformChanges(view, d)
  /\ pending' = d
  /\ phase' = "accepted"
  /\ UNCHANGED <<durable, view>>

(* from here on the diff survives a crash *)
Persist ==
  /\ phase = "accepted"
  /\ durable' = PerformChanges(durable, pending)
  /\ phase' = "saved"
  /\ UNCHANGED <<view, pending>>

(* the commit returns true and readers see the diff *)
Publish ==
  /\ phase = "saved"
  /\ view' = PerformChanges(view, pending)
  /\ pending' = NoDiff
  /\ phase' = "ready"
  /\ UNCHANGED durable

Crash ==
  /\ phase # "down"
  /\ view' = EmptyIndex
  /\ pending' = NoDiff
  /\ phase' = "down"
  /\ UNCHANGED durable

(* the index is read back, at a start or on request *)
Recover ==
  /\ phase \in {"down", "ready"}
  /\ view' = durable
  /\ phase' = "ready"
  /\ UNCHANGED <<durable, pending>>

Next ==
  \/ \E d \in Diffs : Accept(d)
  \/ Persist
  \/ Publish
  \/ Crash
  \/ Recover

Spec == Init /\ [][Next]_vars
=============================================================================
