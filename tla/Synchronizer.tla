---------------------------- MODULE Synchronizer ----------------------------
(***************************************************************************)
(* A client's Synchronizer (synchronizer.cpp) and the tracker it exchanges *)
(* diffs with.                                                             *)
(*                                                                         *)
(* A timer calls loop, which asks the tracker for its history when the     *)
(* last one is old and then issues pulls and pushes from two queues, up to *)
(* a limit.  A history that arrives rebuilds both queues.  Replies arrive  *)
(* in any order, and loop may be called again before any of them, also by  *)
(* others than the timer.                                                  *)
(*                                                                         *)
(* The client is one thread: a handler runs to its end, one request per    *)
(* step here, before the next begins (pc).  The tracker works meanwhile.   *)
(*                                                                         *)
(* The tracker is another program, modelled from the requests the client   *)
(* makes: it lists the names of its diffs in the order they came, files a  *)
(* pushed diff under the name in its body, and ignores one it already has  *)
(* (apinotes.txt:23).                                                      *)
(***************************************************************************)
EXTENDS Lists, Integers, Sequences, FiniteSets, SequencesExt

CONSTANTS
  LocalDiffs,    \* the diffs that this client commits
  OtherDiffs,    \* the diffs that other clients push to the tracker
  Millis,        \* in what part of a second a diff is committed: a subset of
                 \* {"zero", "some"}
  Torn,          \* the local diffs whose log cannot be read again
  MaxPulls,      \* m_maxPulls
  MaxPushes,     \* m_maxPushes
  Ids,           \* the requests that may be under way: enough for the limits
  MaxHistories,  \* bound: how many of them may be for the history; one that
                 \* is asked for beyond it is as good as lost
  NullIsOld,     \* what secsTo may tell of the time of a history that never
                 \* came: that it is long ago (TRUE) or not (FALSE)
  Events,        \* what else may happen: a subset of EventKinds
  MaxFailures,   \* bound: the number of failures, garbled replies, restarts
  NoRequest,     \* a free member of Ids
  NoName         \* a request that names no diff

EventKinds == {"stop",     \* the user stops the synchronizer
               "ask",      \* a history is asked for outside of loop
               "call",     \* loop is called, whether or not the timer runs
               "restart",  \* the client is restarted
               "fail",     \* a request fails, before or after it is served
               "garble",   \* a reply arrives but is not what was asked for
               "slow"}     \* ten minutes pass before the work is done

Diffs == LocalDiffs \union OtherDiffs

(* the name of a diff: the second and the hash of its operations, by the   *)
(* diff they belong to, and the milliseconds                               *)
Names == [diff : Diffs, ms : {"zero", "some"}]

ASSUME SynchronizerAssumption ==
  /\ LocalDiffs \intersect OtherDiffs = {}
  /\ Millis \subseteq {"zero", "some"}
  /\ Torn \subseteq LocalDiffs
  /\ MaxPulls \in Nat /\ MaxPushes \in Nat
  /\ MaxHistories \in Nat /\ MaxFailures \in Nat
  /\ IsFiniteSet(Ids)
  /\ Cardinality(Ids) >= (MaxPulls + 1) + (MaxPushes + 1) + MaxHistories
  /\ NullIsOld \subseteq BOOLEAN
  /\ Events \subseteq EventKinds
  /\ NoName \notin Names

(* A request, and what has become of it; a history that was served has the *)
(* names the tracker had then.                                             *)
Fates == {"sent", "served", "failed", "garbled"}
Requests ==
  [kind : {"history"}, name : {NoName}, status : Fates, names : Seq(Names)] \union
  [kind : {"pull", "push"}, name : Names, status : Fates, names : Seq(Names)]

ASSUME RequestAssumption == NoRequest \notin Requests

VARIABLES
  tracker,    \* the names of the diffs the tracker has, in order of arrival
  local,      \* logNames: the names of the local logs, in order
  active,     \* the timer runs
  history,    \* how old m_historyReceivedAt is: "never", "fresh" or "old"
  toPull,     \* m_stateDiffsToPull
  toPush,     \* m_stateDiffsToPush
  numPulls,   \* m_numPulls
  numPushes,  \* m_numPushes
  newDiffs,   \* the names in m_newStateDiffs
  net,        \* the requests under way
  pc,         \* "idle", or the loop that is running: "pull" or "push"
  failures    \* how many failures there have been

clientVars == <<active, history, toPull, toPush, numPulls, numPushes, newDiffs, pc>>
vars == <<tracker, local, clientVars, net, failures>>

(* a diff read back from its log was created on the second (the log keeps  *)
(* created_at to the second), and toJSON names it anew                     *)
PushedName(name) == [name EXCEPT !.ms = "zero"]

Outstanding(kind) == { i \in Ids : net[i] # NoRequest /\ net[i].kind = kind }
Arrived(i, kind) == /\ pc = "idle"
                    /\ net[i] # NoRequest
                    /\ net[i].kind = kind
                    /\ net[i].status # "sent"

-----------------------------------------------------------------------------
(* The client.                                                             *)

Send(kind, name) ==
  \E i \in Ids :
    /\ net[i] = NoRequest
    /\ net' = [net EXCEPT ![i] = [kind |-> kind, name |-> name,
                                  status |-> "sent", names |-> <<>>]]

Done(i) == net' = [net EXCEPT ![i] = NoRequest]

Start ==
  /\ pc = "idle"
  /\ active' = TRUE
  /\ UNCHANGED <<tracker, local, history, toPull, toPush, numPulls, numPushes,
                 newDiffs, net, pc, failures>>

Stop ==
  /\ "stop" \in Events
  /\ pc = "idle"
  /\ active' = FALSE
  /\ UNCHANGED <<tracker, local, history, toPull, toPush, numPulls, numPushes,
                 newDiffs, net, pc, failures>>

(* a history is asked for whatever has been asked for before *)
RequestHistory ==
  IF Cardinality(Outstanding("history")) < MaxHistories THEN Send("history", NoName)
                                                        ELSE UNCHANGED net

(* requestHistory, called by itself *)
AskHistory ==
  /\ "ask" \in Events
  /\ pc = "idle"
  /\ RequestHistory
  /\ UNCHANGED <<tracker, local, clientVars, failures>>

(* loop begins: it asks for the history ... *)
LoopOld ==
  /\ pc = "idle"
  /\ history = "old" \/ (history = "never" /\ TRUE \in NullIsOld)
  /\ RequestHistory
  /\ pc' = "pull"
  /\ UNCHANGED <<tracker, local, active, history, toPull, toPush, numPulls,
                 numPushes, newDiffs, failures>>

(* ... or it does not *)
LoopFresh ==
  /\ pc = "idle"
  /\ history = "fresh" \/ (history = "never" /\ FALSE \in NullIsOld)
  /\ pc' = "pull"
  /\ UNCHANGED <<tracker, local, active, history, toPull, toPush, numPulls,
                 numPushes, newDiffs, net, failures>>

(* the timer calls it *)
Tick == active /\ (LoopOld \/ LoopFresh)

(* it is a public slot, and others call it, too, of a synchronizer that is *)
(* not active (tst_synchronizertest.cpp:137)                               *)
CallLoop == "call" \in Events /\ (LoopOld \/ LoopFresh)

(* the loop over the pulls ... *)
PullNext ==
  /\ pc = "pull"
  /\ numPulls < MaxPulls + 1
  /\ toPull # <<>>
  /\ toPull' = Tail(toPull)
  /\ numPulls' = numPulls + 1
  /\ Send("pull", Head(toPull))
  /\ UNCHANGED <<tracker, local, active, history, toPush, numPushes, newDiffs,
                 pc, failures>>

PullsDone ==
  /\ pc = "pull"
  /\ numPulls >= MaxPulls + 1 \/ toPull = <<>>
  /\ pc' = "push"
  /\ UNCHANGED <<tracker, local, active, history, toPull, toPush, numPulls,
                 numPushes, newDiffs, net, failures>>

(* ... and over the pushes, which read the log again *)
PushNext ==
  /\ pc = "push"
  /\ numPushes < MaxPushes + 1
  /\ toPush # <<>>
  /\ Head(toPush).diff \notin Torn
  /\ toPush' = Tail(toPush)
  /\ numPushes' = numPushes + 1
  /\ Send("push", Head(toPush))
  /\ UNCHANGED <<tracker, local, active, history, toPull, numPulls, newDiffs,
                 pc, failures>>

PushUnreadable ==
  /\ pc = "push"
  /\ numPushes < MaxPushes + 1
  /\ toPush # <<>>
  /\ Head(toPush).diff \in Torn
  /\ toPush' = Tail(toPush)
  /\ UNCHANGED <<tracker, local, active, history, toPull, numPulls, numPushes,
                 newDiffs, net, pc, failures>>

PushesDone ==
  /\ pc = "push"
  /\ numPushes >= MaxPushes + 1 \/ toPush = <<>>
  /\ pc' = "idle"
  /\ UNCHANGED <<tracker, local, active, history, toPull, toPush, numPulls,
                 numPushes, newDiffs, net, failures>>

(* a faulty handler that fills the pushes from the first history only *)
HistoryPushesOnce(i) ==
  /\ Arrived(i, "history")
  /\ net[i].status = "served"
  /\ toPull' = Without(net[i].names, ToSet(local))
  /\ toPush' = IF history = "never" THEN local ELSE <<>>
  /\ history' = "fresh"
  /\ pc' = IF active THEN "pull" ELSE "idle"
  /\ Done(i)
  /\ UNCHANGED <<tracker, local, active, numPulls, numPushes, newDiffs, failures>>

(* a faulty handler that pulls whatever the tracker has *)
HistoryPullsAll(i) ==
  /\ Arrived(i, "history")
  /\ net[i].status = "served"
  /\ toPull' = net[i].names
  /\ toPush' = Without(local, ToSet(net[i].names))
  /\ history' = "fresh"
  /\ pc' = IF active THEN "pull" ELSE "idle"
  /\ Done(i)
  /\ UNCHANGED <<tracker, local, active, numPulls, numPushes, newDiffs, failures>>

(* requestFinished: a history rebuilds the queues *)
HistoryReceived(i) ==
  /\ Arrived(i, "history")
  /\ net[i].status = "served"
  /\ toPull' = Without(net[i].names, ToSet(local))
  /\ toPush' = Without(local, ToSet(net[i].names))
  /\ history' = "fresh"
  /\ pc' = IF active THEN "pull" ELSE "idle"
  /\ Done(i)
  /\ UNCHANGED <<tracker, local, active, numPulls, numPushes, newDiffs, failures>>

(* one that failed changes nothing, so that loop asks again *)
HistoryFailed(i) ==
  /\ Arrived(i, "history")
  /\ net[i].status = "failed"
  /\ Done(i)
  /\ UNCHANGED <<tracker, local, clientVars, failures>>

(* a faulty handler that counts down only when the pull succeeded *)
PullSucceeded(i) ==
  /\ Arrived(i, "pull")
  /\ numPulls' = IF net[i].status = "served" THEN numPulls - 1 ELSE numPulls
  /\ newDiffs' = IF net[i].status = "served" THEN newDiffs \union {net[i].name}
                                             ELSE newDiffs
  /\ Done(i)
  /\ UNCHANGED <<tracker, local, active, history, toPull, toPush, numPushes, pc,
                 failures>>

PullFinished(i) ==
  /\ Arrived(i, "pull")
  /\ numPulls' = numPulls - 1
  /\ newDiffs' = IF net[i].status = "served" THEN newDiffs \union {net[i].name}
                                             ELSE newDiffs
  /\ Done(i)
  /\ UNCHANGED <<tracker, local, active, history, toPull, toPush, numPushes, pc,
                 failures>>

(* a faulty handler that does not give the connection back *)
PushForgotten(i) ==
  /\ Arrived(i, "push")
  /\ Done(i)
  /\ UNCHANGED <<tracker, local, clientVars, failures>>

(* a faulty one that also counts down a pull *)
PushCountedTwice(i) ==
  /\ Arrived(i, "push")
  /\ numPushes' = numPushes - 1
  /\ numPulls' = numPulls - 1
  /\ Done(i)
  /\ UNCHANGED <<tracker, local, active, history, toPull, toPush, newDiffs, pc,
                 failures>>

PushFinished(i) ==
  /\ Arrived(i, "push")
  /\ numPushes' = numPushes - 1
  /\ Done(i)
  /\ UNCHANGED <<tracker, local, active, history, toPull, toPush, numPulls,
                 newDiffs, pc, failures>>

(* the state of a client that has just been started *)
Fresh ==
  /\ active' = FALSE
  /\ history' = "never"
  /\ toPull' = <<>> /\ toPush' = <<>>
  /\ numPulls' = 0 /\ numPushes' = 0
  /\ newDiffs' = {}
  /\ net' = [i \in Ids |-> NoRequest]
  /\ pc' = "idle"

(* a history that cannot be parsed ends the process (qFatal) *)
HistoryGarbled(i) ==
  /\ Arrived(i, "history")
  /\ net[i].status = "garbled"
  /\ Fresh
  /\ UNCHANGED <<tracker, local, failures>>

Restart ==
  /\ "restart" \in Events
  /\ failures < MaxFailures
  /\ failures' = failures + 1
  /\ Fresh
  /\ UNCHANGED <<tracker, local>>

Loop == PullNext \/ PullsDone \/ PushNext \/ PushUnreadable \/ PushesDone

RequestFinished(i) ==
  \/ HistoryReceived(i) \/ HistoryFailed(i) \/ HistoryGarbled(i)
  \/ PullFinished(i) \/ PushFinished(i)

Client ==
  \/ Start \/ Stop \/ AskHistory \/ Tick \/ CallLoop \/ Loop
  \/ \E i \in Ids : RequestFinished(i)

-----------------------------------------------------------------------------
(* The logger, the tracker and the network.                                *)

(* commitChanges adds a log, whose name comes after the others *)
CommitLocal ==
  /\ \E d \in LocalDiffs, ms \in Millis :
       /\ \A k \in DOMAIN local : local[k].diff # d
       /\ local' = Append(local, [diff |-> d, ms |-> ms])
  /\ UNCHANGED <<tracker, clientVars, net, failures>>

File(name) == IF name \in ToSet(tracker) THEN tracker ELSE Append(tracker, name)

OtherPush ==
  /\ \E d \in OtherDiffs : tracker' = File([diff |-> d, ms |-> "zero"])
  /\ tracker' # tracker
  /\ UNCHANGED <<local, clientVars, net, failures>>

Serve(i) ==
  /\ net[i] # NoRequest
  /\ net[i].status = "sent"
  /\ net' = [net EXCEPT ![i].status = "served",
                        ![i].names = IF net[i].kind = "history" THEN tracker ELSE <<>>]
  /\ tracker' = IF net[i].kind = "push" THEN File(PushedName(net[i].name)) ELSE tracker
  /\ UNCHANGED <<local, clientVars, failures>>

(* a request or its reply is lost, or the reply is not what it should be *)
Spoil(i, event, status) ==
  /\ event \in Events
  /\ failures < MaxFailures
  /\ failures' = failures + 1
  /\ net[i] # NoRequest
  /\ net[i].status \in {"sent", "served"}
  /\ net' = [net EXCEPT ![i].status = status, ![i].names = <<>>]
  /\ UNCHANGED <<tracker, local, clientVars>>

Fail(i)   == Spoil(i, "fail", "failed")
Garble(i) == Spoil(i, "garble", "garbled")

(* ten minutes have passed since the last history; with a tracker that is  *)
(* not slow, what it asked for has been done by then                       *)
Expire ==
  /\ history = "fresh"
  /\ "slow" \in Events \/ (/\ toPull = <<>> /\ toPush = <<>>
                           /\ \A i \in Ids : net[i] = NoRequest)
  /\ history' = "old"
  /\ UNCHANGED <<tracker, local, active, toPull, toPush, numPulls, numPushes,
                 newDiffs, net, pc, failures>>

Init ==
  /\ tracker = <<>> /\ local = <<>>
  /\ active = FALSE
  /\ history = "never"
  /\ toPull = <<>> /\ toPush = <<>>
  /\ numPulls = 0 /\ numPushes = 0
  /\ newDiffs = {}
  /\ net = [i \in Ids |-> NoRequest]
  /\ pc = "idle"
  /\ failures = 0

Next ==
  \/ Client \/ Restart
  \/ CommitLocal \/ OtherPush \/ Expire
  \/ \E i \in Ids : Serve(i) \/ Fail(i) \/ Garble(i)

Spec == Init /\ [][Next]_vars

(* The event loop runs the timer and hands out every reply, also when the  *)
(* timer is always ready first; the tracker answers every request that     *)
(* does not fail; time passes.                                             *)
FairSpec ==
  /\ Spec
  /\ WF_vars(Tick) /\ WF_vars(Loop)
  /\ \A i \in Ids : SF_vars(RequestFinished(i)) /\ WF_vars(Serve(i))
  /\ WF_vars(Expire)

-----------------------------------------------------------------------------
(* Properties.                                                             *)

(* The variables keep their types. *)
TypeOK ==
  /\ tracker \in Seq(Names) /\ local \in Seq(Names)
  /\ toPull \in Seq(Names) /\ toPush \in Seq(Names)
  /\ active \in BOOLEAN
  /\ history \in {"never", "fresh", "old"}
  /\ numPulls \in Nat /\ numPushes \in Nat
  /\ newDiffs \subseteq Names
  /\ net \in [Ids -> Requests \union {NoRequest}]
  /\ pc \in {"idle", "pull", "push"}
  /\ failures \in 0..MaxFailures

(* However replies come late, fail, are garbled or are dropped with the    *)
(* client, the two counters are the numbers of pulls and of pushes that    *)
(* are under way.  If they ran ahead, loop would never issue another one.  *)
CountersMatch ==
  /\ numPulls  = Cardinality(Outstanding("pull"))
  /\ numPushes = Cardinality(Outstanding("push"))

(* Of either kind no more requests are under way than connections are      *)
(* allocated: loop issues them "if we are not already using all allocated  *)
(* connections" (synchronizer.cpp:88).                                     *)
WithinLimit ==
  /\ Cardinality(Outstanding("pull")) <= MaxPulls
  /\ Cardinality(Outstanding("push")) <= MaxPushes

(* A diff that waits to be pushed is not at the tracker: the client does   *)
(* nothing "when both sides have everything" (tst_synchronizertest.cpp:96). *)
QueueIsNews ==
  \A name \in ToSet(toPush) : PushedName(name) \notin ToSet(tracker)

(* Whatever is lost, late or garbled, and in whatever order two histories  *)
(* come: only diffs that were committed are pushed, only diffs that the    *)
(* tracker has and the client has not are pulled, and none disappears.     *)
Promise == INSTANCE Exchange WITH
  OwnNames     <- [diff : LocalDiffs, ms : Millis],
  ForeignNames <- [diff : OtherDiffs, ms : {"zero"}],
  SharedAs     <- PushedName,
  committed    <- ToSet(local),
  shared       <- ToSet(tracker),
  fetched      <- newDiffs

ImplementsExchange == Promise!Spec

Pulled == \A name \in ToSet(tracker) : name \in newDiffs \union ToSet(local)
Pushed == \A name \in ToSet(local) : PushedName(name) \in ToSet(tracker)

(* Once a client stays active it gets every diff of the tracker, and the   *)
(* tracker every diff of the client, although a request that fails is not  *)
(* repeated before the next history.                                       *)
EveryDiffPulled == <>[]active => <>[]Pulled
EveryDiffPushed == <>[]active => <>[]Pushed
=============================================================================
