------------------------------ MODULE Exchange ------------------------------
(***************************************************************************)
(* What a Synchronizer promises: diffs are exchanged and none is made up.  *)
(*                                                                         *)
(* What is committed here may come to be shared, under the name that the   *)
(* tracker gives it; what is shared, and not committed here under that     *)
(* name, may be fetched.  Nothing else ever is, and what is committed or   *)
(* shared remains so.  There are no queues, requests or histories here:    *)
(* Synchronizer.tla has them and is shown to implement this module.        *)
(***************************************************************************)
CONSTANTS
  OwnNames,      \* the names under which diffs can be committed here
  ForeignNames,  \* ... under which others share theirs
  SharedAs(_)    \* the name that a diff of this client is shared under

VARIABLES
  committed,  \* the names of the diffs of this client
  shared,     \* the names of the diffs that everybody can get
  fetched     \* the names of the diffs that this client got

vars == <<committed, shared, fetched>>

Init == committed = {} /\ shared = {} /\ fetched = {}

Commit(name) ==
  /\ committed' = committed \union {name}
  /\ UNCHANGED <<shared, fetched>>

Share(name) ==
  /\ name \in committed
  /\ shared' = shared \union {SharedAs(name)}
  /\ UNCHANGED <<committed, fetched>>

ShareForeign(name) ==
  /\ shared' = shared \union {name}
  /\ UNCHANGED <<committed, fetched>>

Fetch(name) ==
  /\ name \in shared \ committed
  /\ fetched' = fetched \union {name}
  /\ UNCHANGED <<committed, shared>>

(* what was fetched is in memory only *)
Forget ==
  /\ fetched' = {}
  /\ UNCHANGED <<committed, shared>>

Next ==
  \/ \E name \in OwnNames : Commit(name) \/ Share(name)
  \/ \E name \in ForeignNames : ShareForeign(name)
  \/ \E name \in shared : Fetch(name)
  \/ Forget

Spec == Init /\ [][Next]_vars
=============================================================================
