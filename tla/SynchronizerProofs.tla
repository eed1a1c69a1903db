------------------------- MODULE SynchronizerProofs -------------------------
(***************************************************************************)
(* What holds of Synchronizer for any diffs, limits, number of requests    *)
(* and environment.                                                        *)
(***************************************************************************)
EXTENDS Synchronizer, Recursion, FiniteSetTheorems

-----------------------------------------------------------------------------
(* How many requests of a kind are under way.                              *)

Net == [Ids -> Requests \union {NoRequest}]
Held(n, kind) == { i \in Ids : n[i] # NoRequest /\ n[i].kind = kind }

LEMMA HeldFinite ==
  ASSUME NEW n, NEW kind
  PROVE  IsFiniteSet(Held(n, kind)) /\ Cardinality(Held(n, kind)) \in Nat
<1>1. Held(n, kind) \subseteq Ids
  BY DEF Held
<1> QED BY <1>1, SynchronizerAssumption, FS_Subset, FS_CardinalityType

(* a request that is sent adds one of its kind *)
LEMMA HeldAdd ==
  ASSUME NEW n \in Net, NEW i \in Ids, n[i] = NoRequest, NEW r \in Requests, NEW kind
  PROVE  Cardinality(Held([n EXCEPT ![i] = r], kind))
           = Cardinality(Held(n, kind)) + (IF r.kind = kind THEN 1 ELSE 0)
<1> DEFINE m == [n EXCEPT ![i] = r]
<1>1. r # NoRequest /\ i \notin Held(n, kind)
  BY RequestAssumption DEF Held
<1>2. CASE r.kind = kind
  <2>1. Held(m, kind) = Held(n, kind) \union {i}
    BY <1>1, <1>2 DEF Held, Net
  <2> QED BY <1>1, <1>2, <2>1, HeldFinite, FS_AddElement
<1>3. CASE r.kind # kind
  <2>1. Held(m, kind) = Held(n, kind)
    BY <1>1, <1>3 DEF Held, Net
  <2> QED BY <1>3, <2>1, HeldFinite
<1> QED BY <1>2, <1>3

(* a request that is done takes one away *)
LEMMA HeldRemove ==
  ASSUME NEW n \in Net, NEW i \in Ids, n[i] # NoRequest, NEW kind
  PROVE  Cardinality(Held([n EXCEPT ![i] = NoRequest], kind))
           = Cardinality(Held(n, kind)) - (IF n[i].kind = kind THEN 1 ELSE 0)
<1> DEFINE m == [n EXCEPT ![i] = NoRequest]
<1>1. CASE n[i].kind = kind
  <2>1. i \in Held(n, kind) /\ Held(m, kind) = Held(n, kind) \ {i}
    BY <1>1 DEF Held, Net
  <2>2. Cardinality(Held(n, kind) \ {i}) = Cardinality(Held(n, kind)) - 1
    BY <2>1, HeldFinite, FS_RemoveElement
  <2> QED BY <1>1, <2>1, <2>2
<1>2. CASE n[i].kind # kind
  <2>1. Held(m, kind) = Held(n, kind)
    BY <1>2 DEF Held, Net
  <2> QED BY <1>2, <2>1, HeldFinite
<1> QED BY <1>1, <1>2

(* what becomes of a request does not change how many there are *)
LEMMA HeldSame ==
  ASSUME NEW n \in Net, NEW i \in Ids, n[i] # NoRequest,
         NEW r \in Requests, r.kind = n[i].kind, NEW kind
  PROVE  Held([n EXCEPT ![i] = r], kind) = Held(n, kind)
BY RequestAssumption DEF Held, Net

(* no request, no count *)
LEMMA HeldNone ==
  ASSUME NEW kind
  PROVE  Cardinality(Held([i \in Ids |-> NoRequest], kind)) = 0
<1>1. Held([i \in Ids |-> NoRequest], kind) = {}
  BY DEF Held
<1> QED BY <1>1, FS_EmptySet

-----------------------------------------------------------------------------
(* The inductive invariant: the types, the counters, and the counters      *)
(* within the limit.                                                       *)

CountersWithin == numPulls <= MaxPulls + 1 /\ numPushes <= MaxPushes + 1

Inv == TypeOK /\ CountersMatch /\ CountersWithin

LEMMA OutstandingIsHeld == \A kind : Outstanding(kind) = Held(net, kind)
BY DEF Outstanding, Held

LEMMA OutstandingIsHeldNext == \A kind : Outstanding(kind)' = Held(net', kind)
BY DEF Outstanding, Held

LEMMA InitInv == Init => Inv
<1> SUFFICES ASSUME Init PROVE Inv
  OBVIOUS
<1>1. CountersMatch
  BY HeldNone, OutstandingIsHeld DEF Init, CountersMatch
<1>2. TypeOK
  <2>1. <<>> \in Seq(Names)
    OBVIOUS
  <2>2. net \in [Ids -> Requests \union {NoRequest}]
    BY DEF Init
  <2>3. /\ tracker \in Seq(Names) /\ local \in Seq(Names)
        /\ toPull \in Seq(Names) /\ toPush \in Seq(Names)
    BY <2>1 DEF Init
  <2>4. failures \in 0..MaxFailures /\ numPulls \in Nat /\ numPushes \in Nat
    BY SynchronizerAssumption DEF Init
  <2> QED BY <2>2, <2>3, <2>4 DEF Init, TypeOK
<1>3. CountersWithin
  BY SynchronizerAssumption DEF Init, CountersWithin
<1> QED BY <1>1, <1>2, <1>3 DEF Inv

(* sending a request of a kind, for a name, adds one of that kind *)
LEMMA SendStep ==
  ASSUME TypeOK, NEW kind, NEW name, Send(kind, name),
         \/ kind = "history" /\ name = NoName
         \/ kind \in {"pull", "push"} /\ name \in Names
  PROVE  /\ net' \in Net
         /\ \A k : Cardinality(Outstanding(k)') =
                     Cardinality(Outstanding(k)) + (IF kind = k THEN 1 ELSE 0)
<1> DEFINE r == [kind |-> kind, name |-> name, status |-> "sent", names |-> <<>>]
<1>1. PICK i \in Ids : net[i] = NoRequest /\ net' = [net EXCEPT ![i] = r]
  BY DEF Send
<1>2. r \in Requests /\ r.kind = kind
  BY DEF Requests, Fates
<1>3. net \in Net
  BY DEF TypeOK, Net
<1> HIDE DEF r
<1>4. net' \in Net
  BY <1>1, <1>2, <1>3 DEF Net
<1>5. ASSUME NEW k
      PROVE Cardinality(Held(net', k)) =
              Cardinality(Held(net, k)) + (IF kind = k THEN 1 ELSE 0)
  <2>1. Cardinality(Held([net EXCEPT ![i] = r], k)) =
          Cardinality(Held(net, k)) + (IF r.kind = k THEN 1 ELSE 0)
    BY <1>1, <1>2, <1>3, HeldAdd
  <2> QED BY <1>1, <1>2, <2>1
<1> QED BY <1>4, <1>5, OutstandingIsHeld, OutstandingIsHeldNext

(* a request that is done is one less of its kind *)
LEMMA DoneStep ==
  ASSUME TypeOK, NEW i \in Ids, net[i] # NoRequest, Done(i)
  PROVE  /\ net' \in Net
         /\ \A k : Cardinality(Outstanding(k)') =
                     Cardinality(Outstanding(k)) - (IF net[i].kind = k THEN 1 ELSE 0)
<1>1. net \in Net /\ net' = [net EXCEPT ![i] = NoRequest]
  BY DEF TypeOK, Net, Done
<1>2. net' \in Net
  BY <1>1 DEF Net
<1>3. ASSUME NEW k
      PROVE Cardinality(Held(net', k)) =
              Cardinality(Held(net, k)) - (IF net[i].kind = k THEN 1 ELSE 0)
  BY <1>1, HeldRemove
<1> QED BY <1>2, <1>3, OutstandingIsHeld, OutstandingIsHeldNext

(* a request of which something else has become is a request of its kind *)
LEMMA FateType ==
  ASSUME NEW r \in Requests, NEW status \in Fates, NEW names \in Seq(Names)
  PROVE  /\ [r EXCEPT !.status = status, !.names = names] \in Requests
         /\ [r EXCEPT !.status = status, !.names = names].kind = r.kind
<1> DEFINE Asking == [kind : {"history"}, name : {NoName}, status : Fates, names : Seq(Names)]
           Moving == [kind : {"pull", "push"}, name : Names, status : Fates, names : Seq(Names)]
           q == [r EXCEPT !.status = status, !.names = names]
<1>1. CASE r \in Asking
  <2>1. q \in Asking /\ q.kind = r.kind
    BY <1>1
  <2> QED BY <2>1 DEF Requests
<1>2. CASE r \in Moving
  <2>1. q \in Moving /\ q.kind = r.kind
    BY <1>2
  <2> QED BY <2>1 DEF Requests
<1> QED BY <1>1, <1>2 DEF Requests

(* serving or spoiling a request leaves the counts *)
LEMMA ChangeStep ==
  ASSUME TypeOK, NEW i \in Ids, net[i] # NoRequest, NEW status \in {"served", "failed", "garbled"},
         NEW names \in Seq(Names),
         net' = [net EXCEPT ![i].status = status, ![i].names = names]
  PROVE  /\ net' \in Net
         /\ \A k : Outstanding(k)' = Outstanding(k)
<1> DEFINE r == [net[i] EXCEPT !.status = status, !.names = names]
<1>1. net \in Net /\ net[i] \in Requests
  BY DEF TypeOK, Net
<1>2. r \in Requests /\ r.kind = net[i].kind
  <2> status \in Fates
    BY DEF Fates
  <2> QED BY <1>1, FateType
<1>3. net' = [net EXCEPT ![i] = r]
  BY <1>1 DEF Net, Requests
<1> HIDE DEF r
<1>4. net' \in Net
  BY <1>1, <1>2, <1>3 DEF Net
<1>5. ASSUME NEW k PROVE Held(net', k) = Held(net, k)
  <2>1. Held([net EXCEPT ![i] = r], k) = Held(net, k)
    BY <1>1, <1>2, HeldSame
  <2> QED BY <1>3, <2>1
<1> QED BY <1>4, <1>5, OutstandingIsHeld, OutstandingIsHeldNext

(* a step that leaves the requests leaves the counts *)
LEMMA SameStep ==
  ASSUME UNCHANGED net
  PROVE  \A k : Outstanding(k)' = Outstanding(k)
BY OutstandingIsHeld, OutstandingIsHeldNext

(* the name at the head of a queue, and the queue without it *)
LEMMA QueueHead ==
  ASSUME NEW q \in Seq(Names), q # <<>>
  PROVE  Head(q) \in Names /\ Tail(q) \in Seq(Names)
OBVIOUS

(* a history that is asked for is no pull and no push *)
LEMMA RequestStep ==
  ASSUME TypeOK, RequestHistory
  PROVE  /\ net' \in Net
         /\ Cardinality(Outstanding("pull")') = Cardinality(Outstanding("pull"))
         /\ Cardinality(Outstanding("push")') = Cardinality(Outstanding("push"))
<1>1. CASE Send("history", NoName)
  <2>1. \A k : Cardinality(Outstanding(k)) \in Nat
    BY HeldFinite, OutstandingIsHeld
  <2> QED BY <1>1, <2>1, SendStep
<1>2. CASE UNCHANGED net
  BY <1>2, SameStep DEF TypeOK, Net
<1> QED BY <1>1, <1>2 DEF RequestHistory

LEMMA InvStep == Inv /\ [Next]_vars => Inv'
<1> SUFFICES ASSUME Inv, [Next]_vars PROVE Inv'
  OBVIOUS
<1> USE SynchronizerAssumption
<1>1. /\ tracker \in Seq(Names) /\ local \in Seq(Names)
      /\ toPull \in Seq(Names) /\ toPush \in Seq(Names)
      /\ active \in BOOLEAN /\ history \in {"never", "fresh", "old"}
      /\ numPulls \in Nat /\ numPushes \in Nat /\ newDiffs \subseteq Names
      /\ net \in Net /\ pc \in {"idle", "pull", "push"} /\ failures \in 0..MaxFailures
      /\ numPulls = Cardinality(Outstanding("pull"))
      /\ numPushes = Cardinality(Outstanding("push"))
      /\ numPulls <= MaxPulls + 1 /\ numPushes <= MaxPushes + 1
  BY DEF Inv, TypeOK, CountersMatch, CountersWithin, Net
<1>t. TypeOK
  BY DEF Inv
<1>c. \A k : Cardinality(Outstanding(k)) \in Nat
  BY HeldFinite, OutstandingIsHeld
<1>2. CASE Start \/ Stop \/ LoopFresh \/ PullsDone \/ PushesDone \/ Expire
  <2>1. UNCHANGED <<tracker, local, toPull, toPush, numPulls, numPushes, newDiffs, net, failures>>
        /\ active' \in BOOLEAN /\ history' \in {"never", "fresh", "old"}
        /\ pc' \in {"idle", "pull", "push"}
    BY <1>1, <1>2 DEF Start, Stop, LoopFresh, PullsDone, PushesDone, Expire
  <2> QED BY <1>1, <2>1, SameStep DEF Inv, TypeOK, CountersMatch, CountersWithin, Net
<1>3. CASE AskHistory \/ LoopOld
  <2>1. RequestHistory /\ pc' \in {"idle", "pull", "push"}
        /\ UNCHANGED <<tracker, local, active, history, toPull, toPush, numPulls, numPushes, newDiffs, failures>>
    BY <1>1, <1>3 DEF AskHistory, LoopOld, clientVars
  <2>2. net' \in Net /\ Cardinality(Outstanding("pull")') = Cardinality(Outstanding("pull"))
        /\ Cardinality(Outstanding("push")') = Cardinality(Outstanding("push"))
    BY <1>1, <1>t, <1>c, <2>1, RequestStep DEF Net
  <2> QED BY <1>1, <2>1, <2>2 DEF Inv, TypeOK, CountersMatch, CountersWithin, Net
<1>4. CASE PullNext
  <2>1. Head(toPull) \in Names /\ toPull' \in Seq(Names)
    BY <1>1, <1>4, QueueHead DEF PullNext
  <2>2. net' \in Net /\ Cardinality(Outstanding("pull")') = Cardinality(Outstanding("pull")) + 1
        /\ Cardinality(Outstanding("push")') = Cardinality(Outstanding("push"))
    BY <1>t, <1>c, <1>4, <2>1, SendStep DEF PullNext
  <2> QED BY <1>1, <1>4, <2>1, <2>2
      DEF PullNext, Inv, TypeOK, CountersMatch, CountersWithin, Net
<1>5. CASE PushNext
  <2>1. Head(toPush) \in Names /\ toPush' \in Seq(Names)
    BY <1>1, <1>5, QueueHead DEF PushNext
  <2>2. net' \in Net /\ Cardinality(Outstanding("push")') = Cardinality(Outstanding("push")) + 1
        /\ Cardinality(Outstanding("pull")') = Cardinality(Outstanding("pull"))
    BY <1>t, <1>c, <1>5, <2>1, SendStep DEF PushNext
  <2> QED BY <1>1, <1>5, <2>1, <2>2
      DEF PushNext, Inv, TypeOK, CountersMatch, CountersWithin, Net
<1>6. CASE PushUnreadable
  <2>1. toPush' \in Seq(Names)
    BY <1>1, <1>6, QueueHead DEF PushUnreadable
  <2> QED BY <1>1, <1>6, <2>1, SameStep
      DEF PushUnreadable, Inv, TypeOK, CountersMatch, CountersWithin, Net
<1>7. ASSUME NEW i \in Ids, HistoryReceived(i) PROVE Inv'
  <2>1. net[i] # NoRequest /\ net[i] \in Requests /\ net[i].kind = "history" /\ Done(i)
    BY <1>1, <1>7 DEF HistoryReceived, Arrived, Net
  <2>2. toPull' \in Seq(Names) /\ toPush' \in Seq(Names)
    BY <1>1, <1>7, <2>1, WithoutType DEF HistoryReceived, Requests
  <2>3. net' \in Net /\ Cardinality(Outstanding("pull")') = Cardinality(Outstanding("pull"))
        /\ Cardinality(Outstanding("push")') = Cardinality(Outstanding("push"))
    BY <1>t, <1>c, <2>1, DoneStep
  <2> QED BY <1>1, <1>7, <2>2, <2>3
      DEF HistoryReceived, Inv, TypeOK, CountersMatch, CountersWithin, Net
<1>8. ASSUME NEW i \in Ids, HistoryFailed(i) PROVE Inv'
  <2>1. net[i] # NoRequest /\ net[i].kind = "history" /\ Done(i)
    BY <1>8 DEF HistoryFailed, Arrived
  <2>2. net' \in Net /\ Cardinality(Outstanding("pull")') = Cardinality(Outstanding("pull"))
        /\ Cardinality(Outstanding("push")') = Cardinality(Outstanding("push"))
    BY <1>t, <1>c, <2>1, DoneStep
  <2> QED BY <1>1, <1>8, <2>2
      DEF HistoryFailed, Inv, TypeOK, CountersMatch, CountersWithin, Net, clientVars
<1>9. ASSUME NEW i \in Ids, PullFinished(i) PROVE Inv'
  <2>1. net[i] # NoRequest /\ net[i] \in Requests /\ net[i].kind = "pull" /\ Done(i)
    BY <1>1, <1>9 DEF PullFinished, Arrived, Net
  <2>2. net' \in Net /\ Cardinality(Outstanding("pull")') = Cardinality(Outstanding("pull")) - 1
        /\ Cardinality(Outstanding("push")') = Cardinality(Outstanding("push"))
    BY <1>t, <1>c, <2>1, DoneStep
  <2>3. Cardinality(Outstanding("pull")') \in Nat
    BY HeldFinite, OutstandingIsHeldNext
  <2>4. newDiffs' \subseteq Names
    BY <1>1, <1>9, <2>1 DEF PullFinished, Requests
  <2> QED BY <1>1, <1>9, <2>2, <2>3, <2>4
      DEF PullFinished, Inv, TypeOK, CountersMatch, CountersWithin, Net
<1>10. ASSUME NEW i \in Ids, PushFinished(i) PROVE Inv'
  <2>1. net[i] # NoRequest /\ net[i].kind = "push" /\ Done(i)
    BY <1>10 DEF PushFinished, Arrived
  <2>2. net' \in Net /\ Cardinality(Outstanding("push")') = Cardinality(Outstanding("push")) - 1
        /\ Cardinality(Outstanding("pull")') = Cardinality(Outstanding("pull"))
    BY <1>t, <1>c, <2>1, DoneStep
  <2>3. Cardinality(Outstanding("push")') \in Nat
    BY HeldFinite, OutstandingIsHeldNext
  <2> QED BY <1>1, <1>10, <2>2, <2>3
      DEF PushFinished, Inv, TypeOK, CountersMatch, CountersWithin, Net
<1>11. CASE Restart \/ \E i \in Ids : HistoryGarbled(i)
  <2>1. Fresh /\ UNCHANGED <<tracker, local>> /\ failures' \in 0..MaxFailures
    BY <1>1, <1>11 DEF Restart, HistoryGarbled
  <2>2. Cardinality(Outstanding("pull")') = 0 /\ Cardinality(Outstanding("push")') = 0
    BY <2>1, HeldNone, OutstandingIsHeldNext DEF Fresh
  <2>3. <<>> \in Seq(Names) /\ {} \subseteq Names
    OBVIOUS
  <2>4. TypeOK'
    BY <1>1, <2>1, <2>3 DEF Fresh, TypeOK
  <2>5. CountersMatch' /\ CountersWithin'
    BY <2>1, <2>2 DEF Fresh, CountersMatch, CountersWithin
  <2> QED BY <2>4, <2>5 DEF Inv
<1>12. CASE CommitLocal
  <2>1. local' \in Seq(Names)
    BY <1>1, <1>12 DEF CommitLocal, Names, Diffs
  <2> QED BY <1>1, <1>12, <2>1, SameStep
      DEF CommitLocal, clientVars, Inv, TypeOK, CountersMatch, CountersWithin, Net
<1>13. CASE OtherPush
  <2>1. PICK d \in OtherDiffs : tracker' = File([diff |-> d, ms |-> "zero"])
    BY <1>13 DEF OtherPush
  <2>2. [diff |-> d, ms |-> "zero"] \in Names
    BY DEF Names, Diffs
  <2>3. tracker' \in Seq(Names)
    BY <1>1, <2>1, <2>2 DEF File
  <2> QED BY <1>1, <1>13, <2>3, SameStep
      DEF OtherPush, clientVars, Inv, TypeOK, CountersMatch, CountersWithin, Net
<1>14. ASSUME NEW i \in Ids, Serve(i) PROVE Inv'
  <2> DEFINE names == IF net[i].kind = "history" THEN tracker ELSE <<>>
  <2>1. names \in Seq(Names) /\ net[i] # NoRequest /\ net[i] \in Requests
        /\ net' = [net EXCEPT ![i].status = "served", ![i].names = names]
    BY <1>1, <1>14 DEF Serve, Net
  <2> HIDE DEF names
  <2>2. net' \in Net /\ \A k : Outstanding(k)' = Outstanding(k)
    BY <1>t, <2>1, ChangeStep
  <2>3. tracker' \in Seq(Names)
    <3>1. CASE net[i].kind = "push"
      <4>1. net[i].name \in Names
        BY <2>1, <3>1 DEF Requests
      <4>2. PushedName(net[i].name) \in Names
        BY <4>1 DEF PushedName, Names
      <4> QED BY <1>1, <1>14, <3>1, <4>2 DEF Serve, File
    <3>2. CASE net[i].kind # "push"
      BY <1>1, <1>14, <3>2 DEF Serve
    <3> QED BY <3>1, <3>2
  <2> QED BY <1>1, <1>14, <2>2, <2>3
      DEF Serve, clientVars, Inv, TypeOK, CountersMatch, CountersWithin, Net
<1>15. ASSUME NEW i \in Ids, Fail(i) \/ Garble(i) PROVE Inv'
  <2>1. PICK status \in {"failed", "garbled"} :
          net[i] # NoRequest /\ net' = [net EXCEPT ![i].status = status, ![i].names = <<>>]
    BY <1>15 DEF Fail, Garble, Spoil
  <2>2. net' \in Net /\ \A k : Outstanding(k)' = Outstanding(k)
    <3>1. <<>> \in Seq(Names) /\ status \in {"served", "failed", "garbled"}
      OBVIOUS
    <3> QED BY <1>t, <2>1, <3>1, ChangeStep
  <2>3. failures' \in 0..MaxFailures /\ UNCHANGED <<tracker, local, clientVars>>
    BY <1>1, <1>15 DEF Fail, Garble, Spoil
  <2> QED BY <1>1, <2>2, <2>3
      DEF clientVars, Inv, TypeOK, CountersMatch, CountersWithin, Net
<1>16. CASE UNCHANGED vars
  BY <1>1, <1>16, SameStep
  DEF vars, clientVars, Inv, TypeOK, CountersMatch, CountersWithin, Net
<1> QED
  BY <1>2, <1>3, <1>4, <1>5, <1>6, <1>7, <1>8, <1>9, <1>10, <1>11, <1>12, <1>13,
     <1>14, <1>15, <1>16
  DEF Next, Client, Tick, CallLoop, Loop, RequestFinished

LEMMA InvAlways == Spec => []Inv
<1> QED BY InitInv, InvStep, PTL DEF Spec

-----------------------------------------------------------------------------
(* The theorems.                                                           *)

(* Every variable keeps its type, in every environment.                    *)
THEOREM TypeCorrect == Spec => []TypeOK
<1>1. Inv => TypeOK
  BY DEF Inv
<1> QED BY <1>1, InvAlways, PTL

(* m_numPulls and m_numPushes are exactly the pulls and the pushes under   *)
(* way, however requests fail, late replies come and the client restarts.  *)
THEOREM CountersAreExact == Spec => []CountersMatch
<1>1. Inv => CountersMatch
  BY DEF Inv
<1> QED BY <1>1, InvAlways, PTL

(* Whoever calls loop, of either kind at most one request above the        *)
(* maximum is under way, for any maximum.                                  *)
THEOREM LimitIsKept ==
  Spec => [](/\ Cardinality(Outstanding("pull")) <= MaxPulls + 1
             /\ Cardinality(Outstanding("push")) <= MaxPushes + 1)
<1>1. Inv => /\ Cardinality(Outstanding("pull")) <= MaxPulls + 1
             /\ Cardinality(Outstanding("push")) <= MaxPushes + 1
  BY DEF Inv, CountersMatch, CountersWithin
<1> QED BY <1>1, InvAlways, PTL

-----------------------------------------------------------------------------
(* Synchronizer implements Exchange.                                       *)

(* what can be fetched *)
Fetchable(shared, committed) == ToSet(shared) \ ToSet(committed)

(* a diff at the tracker was pushed from here or belongs to another client *)
Owned(name, committed) ==
  name.diff \in OtherDiffs \/ \E own \in ToSet(committed) : own.diff = name.diff

(* what a request that is under way says *)
RequestOK(r, shared, committed) ==
  /\ r.kind = "pull" => r.name \in Fetchable(shared, committed)
  /\ r.kind = "push" => r.name \in ToSet(committed)
  /\ ToSet(r.names) \subseteq ToSet(shared)

OwnerOK == /\ ToSet(local) \subseteq [diff : LocalDiffs, ms : Millis]
           /\ \A name \in ToSet(tracker) : Owned(name, local)
QueuesOK == /\ ToSet(toPull) \subseteq Fetchable(tracker, local)
            /\ ToSet(toPush) \subseteq ToSet(local)
NetOK == \A i \in Ids : net[i] # NoRequest => RequestOK(net[i], tracker, local)

Linked == OwnerOK /\ QueuesOK /\ NetOK

-----------------------------------------------------------------------------
(* What the steps do to the requests under way.                            *)

(* the tracker forgets nothing *)
LEMMA RequestStays ==
  ASSUME NEW r, NEW shared, NEW shared2, NEW committed,
         ToSet(shared) \subseteq ToSet(shared2), RequestOK(r, shared, committed)
  PROVE  RequestOK(r, shared2, committed)
BY DEF RequestOK, Fetchable

LEMMA NetShrinks ==
  ASSUME NetOK, ToSet(tracker) \subseteq ToSet(tracker'), UNCHANGED local,
         \A i \in Ids : net'[i] = NoRequest \/ net'[i] = net[i]
  PROVE  NetOK'
<1>1. SUFFICES ASSUME NEW i \in Ids, net'[i] # NoRequest
      PROVE RequestOK(net'[i], tracker', local')
  BY DEF NetOK
<1>2. net'[i] = net[i] /\ RequestOK(net[i], tracker, local)
  BY <1>1 DEF NetOK
<1> QED BY <1>2, RequestStays

LEMMA NetChanges ==
  ASSUME TypeOK, NetOK, ToSet(tracker) \subseteq ToSet(tracker'), UNCHANGED local,
         NEW i \in Ids, NEW r, net' = [net EXCEPT ![i] = r], RequestOK(r, tracker, local)
  PROVE  NetOK'
<1>1. SUFFICES ASSUME NEW j \in Ids, net'[j] # NoRequest
      PROVE RequestOK(net'[j], tracker', local')
  BY DEF NetOK
<1>2. RequestOK(net'[j], tracker, local)
  BY <1>1 DEF NetOK, TypeOK
<1> QED BY <1>2, RequestStays

LEMMA SendKeeps ==
  ASSUME TypeOK, NetOK, UNCHANGED <<tracker, local>>, NEW kind, NEW name, Send(kind, name),
         kind = "pull" => name \in Fetchable(tracker, local),
         kind = "push" => name \in ToSet(local)
  PROVE  NetOK'
<1> DEFINE r == [kind |-> kind, name |-> name, status |-> "sent", names |-> <<>>]
<1>1. PICK i \in Ids : net' = [net EXCEPT ![i] = r]
  BY DEF Send
<1>2. RequestOK(r, tracker, local)
  BY SetOfEmpty DEF RequestOK
<1> HIDE DEF r
<1> QED BY <1>1, <1>2, NetChanges

LEMMA DoneKeeps ==
  ASSUME TypeOK, NetOK, UNCHANGED <<tracker, local>>, NEW i \in Ids, Done(i)
  PROVE  NetOK'
<1>1. \A j \in Ids : net'[j] = NoRequest \/ net'[j] = net[j]
  BY DEF Done, TypeOK
<1> QED BY <1>1, NetShrinks

(* what has become of a request, and the names in the reply *)
LEMMA FateKeeps ==
  ASSUME TypeOK, NetOK, ToSet(tracker) \subseteq ToSet(tracker'), UNCHANGED local,
         NEW i \in Ids, net[i] # NoRequest, NEW status, NEW names,
         ToSet(names) \subseteq ToSet(tracker),
         net' = [net EXCEPT ![i].status = status, ![i].names = names]
  PROVE  NetOK'
<1> DEFINE r == [net[i] EXCEPT !.status = status, !.names = names]
<1>1. net[i] \in Requests /\ RequestOK(net[i], tracker, local)
  BY DEF NetOK, TypeOK
<1>2. r.kind = net[i].kind /\ r.name = net[i].name /\ r.names = names
  BY <1>1 DEF Requests
<1>3. net' = [net EXCEPT ![i] = r]
  BY DEF TypeOK
<1> HIDE DEF r
<1>4. RequestOK(r, tracker, local)
  BY <1>1, <1>2 DEF RequestOK
<1> QED BY <1>3, <1>4, NetChanges

-----------------------------------------------------------------------------
(* The steps.                                                              *)

Exchanged == [Promise!Next]_(Promise!vars)

(* a step that leaves what is committed, shared and fetched *)
LEMMA StutterStep ==
  ASSUME Linked, UNCHANGED <<tracker, local, newDiffs>>, QueuesOK', NetOK'
  PROVE  Linked' /\ Exchanged
<1>1. OwnerOK'
  BY DEF OwnerOK, Linked, Owned
<1>2. UNCHANGED Promise!vars
  BY DEF Promise!vars
<1> QED BY <1>1, <1>2 DEF Linked, Exchanged

(* loop, the user, and the timer *)
LEMMA LoopStep ==
  ASSUME TypeOK, Linked, Start \/ Stop \/ AskHistory \/ Tick \/ CallLoop \/ Loop \/ Expire
  PROVE  Linked' /\ Exchanged
<1>1. NetOK /\ QueuesOK /\ toPull \in Seq(Names) /\ toPush \in Seq(Names)
  BY DEF Linked, TypeOK
<1>2. CASE Start \/ Stop \/ LoopFresh \/ PullsDone \/ PushesDone \/ Expire
  <2>1. UNCHANGED <<tracker, local, newDiffs, net, toPull, toPush>>
    BY <1>2 DEF Start, Stop, LoopFresh, PullsDone, PushesDone, Expire
  <2>2. QueuesOK'
    BY <1>1, <2>1 DEF QueuesOK, Fetchable
  <2>3. NetOK'
    BY <1>1, <2>1, NetShrinks
  <2> QED BY <2>1, <2>2, <2>3, StutterStep
<1>3. CASE AskHistory \/ LoopOld
  <2>1. UNCHANGED <<tracker, local, newDiffs, toPull, toPush>> /\ RequestHistory
    BY <1>3 DEF AskHistory, LoopOld, clientVars
  <2>2. QueuesOK'
    BY <1>1, <2>1 DEF QueuesOK, Fetchable
  <2>3. CASE Send("history", NoName)
    <3>1. NetOK'
      BY <1>1, <2>1, <2>3, SendKeeps
    <3> QED BY <2>1, <2>2, <3>1, StutterStep
  <2>4. CASE UNCHANGED net
    <3>1. NetOK'
      BY <1>1, <2>1, <2>4, NetShrinks
    <3> QED BY <2>1, <2>2, <3>1, StutterStep
  <2> QED BY <2>1, <2>3, <2>4 DEF RequestHistory
<1>4. CASE PullNext
  <2>1. UNCHANGED <<tracker, local, newDiffs, toPush>> /\ toPull # <<>>
        /\ toPull' = Tail(toPull) /\ Send("pull", Head(toPull))
    BY <1>4 DEF PullNext
  <2>2. Head(toPull) \in ToSet(toPull) /\ ToSet(toPull') \subseteq ToSet(toPull)
    BY <1>1, <2>1, SetOfTail
  <2>3. QueuesOK'
    BY <1>1, <2>1, <2>2 DEF QueuesOK, Fetchable
  <2>4. NetOK'
    BY <1>1, <2>1, <2>2, SendKeeps DEF QueuesOK
  <2> QED BY <2>1, <2>3, <2>4, StutterStep
<1>5. CASE PushNext
  <2>1. UNCHANGED <<tracker, local, newDiffs, toPull>> /\ toPush # <<>>
        /\ toPush' = Tail(toPush) /\ Send("push", Head(toPush))
    BY <1>5 DEF PushNext
  <2>2. Head(toPush) \in ToSet(toPush) /\ ToSet(toPush') \subseteq ToSet(toPush)
    BY <1>1, <2>1, SetOfTail
  <2>3. QueuesOK'
    BY <1>1, <2>1, <2>2 DEF QueuesOK, Fetchable
  <2>4. NetOK'
    BY <1>1, <2>1, <2>2, SendKeeps DEF QueuesOK
  <2> QED BY <2>1, <2>3, <2>4, StutterStep
<1>6. CASE PushUnreadable
  <2>1. UNCHANGED <<tracker, local, newDiffs, toPull, net>> /\ toPush # <<>>
        /\ toPush' = Tail(toPush)
    BY <1>6 DEF PushUnreadable
  <2>2. ToSet(toPush') \subseteq ToSet(toPush)
    BY <1>1, <2>1, SetOfTail
  <2>3. QueuesOK'
    BY <1>1, <2>1, <2>2 DEF QueuesOK, Fetchable
  <2>4. NetOK'
    BY <1>1, <2>1, NetShrinks
  <2> QED BY <2>1, <2>3, <2>4, StutterStep
<1> QED BY <1>2, <1>3, <1>4, <1>5, <1>6 DEF Tick, CallLoop, Loop

(* requestFinished, of a client that goes on *)
LEMMA ReplyStep ==
  ASSUME TypeOK, Linked, NEW i \in Ids,
         HistoryReceived(i) \/ HistoryFailed(i) \/ PullFinished(i) \/ PushFinished(i)
  PROVE  Linked' /\ Exchanged
<1>1. UNCHANGED <<tracker, local>> /\ Done(i) /\ net[i] # NoRequest /\ net[i] \in Requests
  BY DEF HistoryReceived, HistoryFailed, PullFinished, PushFinished, Arrived, TypeOK
<1>2. NetOK' /\ RequestOK(net[i], tracker, local)
  BY <1>1, DoneKeeps DEF Linked, NetOK
<1>3. CASE HistoryReceived(i)
  <2>1. net[i].names \in Seq(Names) /\ local \in Seq(Names)
    BY <1>1 DEF Requests, TypeOK
  <2>2. /\ toPull' = Without(net[i].names, ToSet(local))
        /\ toPush' = Without(local, ToSet(net[i].names))
        /\ UNCHANGED newDiffs
    BY <1>3 DEF HistoryReceived
  <2>3. ToSet(toPull') \subseteq ToSet(net[i].names) \ ToSet(local)
    BY <2>1, <2>2, SetOfWithout
  <2>4. ToSet(toPush') \subseteq ToSet(local)
    BY <2>1, <2>2, SetOfWithout
  <2>5. QueuesOK'
    BY <1>1, <1>2, <2>3, <2>4 DEF QueuesOK, Fetchable, RequestOK
  <2> QED BY <1>1, <1>2, <2>2, <2>5, StutterStep
<1>4. CASE HistoryFailed(i) \/ PushFinished(i)
  <2>1. UNCHANGED <<toPull, toPush, newDiffs>>
    BY <1>4 DEF HistoryFailed, PushFinished, clientVars
  <2>2. QueuesOK'
    BY <1>1, <2>1 DEF QueuesOK, Fetchable, Linked
  <2> QED BY <1>1, <1>2, <2>1, <2>2, StutterStep
<1>5. CASE PullFinished(i)
  <2>1. UNCHANGED <<toPull, toPush>> /\ net[i].kind = "pull"
    BY <1>5 DEF PullFinished, Arrived
  <2>2. QueuesOK'
    BY <1>1, <2>1 DEF QueuesOK, Fetchable, Linked
  <2>3. OwnerOK'
    BY <1>1 DEF OwnerOK, Linked, Owned
  <2>4. net[i].name \in ToSet(tracker) \ ToSet(local)
    BY <1>2, <2>1 DEF RequestOK, Fetchable
  <2>5. CASE newDiffs' = newDiffs
    BY <1>1, <1>2, <2>2, <2>5, StutterStep
  <2>6. CASE newDiffs' = newDiffs \union {net[i].name}
    <3>1. Promise!Fetch(net[i].name)
      BY <1>1, <2>4, <2>6 DEF Promise!Fetch
    <3>2. Promise!Next
      BY <2>4, <3>1 DEF Promise!Next
    <3> QED BY <1>2, <2>2, <2>3, <3>2 DEF Linked, Exchanged
  <2> QED BY <1>5, <2>5, <2>6 DEF PullFinished
<1> QED BY <1>3, <1>4, <1>5

(* the process ends *)
LEMMA FreshStep ==
  ASSUME Linked, Fresh, UNCHANGED <<tracker, local>>
  PROVE  Linked' /\ Exchanged
<1>1. Promise!Forget
  BY DEF Fresh, Promise!Forget
<1>2. OwnerOK'
  BY DEF OwnerOK, Linked, Owned
<1>3. QueuesOK'
  BY SetOfEmpty DEF QueuesOK, Fresh
<1>4. NetOK'
  BY DEF NetOK, Fresh
<1> QED BY <1>1, <1>2, <1>3, <1>4 DEF Linked, Exchanged, Promise!Next

(* a diff that is committed cannot be at the tracker yet *)
LEMMA CommitStep ==
  ASSUME TypeOK, Linked, CommitLocal
  PROVE  Linked' /\ Exchanged
<1>1. PICK d \in LocalDiffs, ms \in Millis :
        /\ \A k \in DOMAIN local : local[k].diff # d
        /\ local' = Append(local, [diff |-> d, ms |-> ms])
  BY DEF CommitLocal
<1> DEFINE name == [diff |-> d, ms |-> ms]
<1>2. name \in [diff : LocalDiffs, ms : Millis] /\ name \in Names /\ name.diff = d
  BY SynchronizerAssumption DEF Names, Diffs
<1>3. UNCHANGED <<tracker, newDiffs, toPull, toPush, net>>
  BY DEF CommitLocal, clientVars
<1>4. \A own \in ToSet(local) : own.diff # d
  BY <1>1 DEF ToSet
<1>5. d \notin OtherDiffs
  BY SynchronizerAssumption
<1> HIDE DEF name
<1>6. ToSet(local') = ToSet(local) \union {name}
  BY <1>1, <1>2, SetOfAppend DEF TypeOK, name
<1>7. name \notin ToSet(tracker)
  BY <1>2, <1>4, <1>5 DEF Linked, OwnerOK, Owned
<1>8. Fetchable(tracker', local') = Fetchable(tracker, local)
  BY <1>3, <1>6, <1>7 DEF Fetchable
<1>9. OwnerOK'
  BY <1>2, <1>3, <1>6 DEF Linked, OwnerOK, Owned
<1>10. QueuesOK'
  BY <1>3, <1>6, <1>8 DEF Linked, QueuesOK
<1>11. NetOK'
  BY <1>3, <1>6, <1>8 DEF Linked, NetOK, RequestOK
<1>12. Promise!Commit(name)
  BY <1>3, <1>6 DEF Promise!Commit
<1> QED BY <1>2, <1>9, <1>10, <1>11, <1>12 DEF Linked, Exchanged, Promise!Next

(* a diff that is filed adds its name, or is there *)
LEMMA FileAdds ==
  ASSUME TypeOK, NEW name \in Names
  PROVE  ToSet(File(name)) = ToSet(tracker) \union {name}
BY SetOfAppend DEF File, TypeOK

LEMMA TrackerGrows ==
  ASSUME Linked, NEW name, Owned(name, local), UNCHANGED <<local, toPull, toPush>>,
         ToSet(tracker') = ToSet(tracker) \union {name}
  PROVE  OwnerOK' /\ QueuesOK'
<1>1. OwnerOK'
  BY DEF Linked, OwnerOK, Owned
<1>2. QueuesOK'
  BY DEF Linked, QueuesOK, Fetchable
<1> QED BY <1>1, <1>2

LEMMA OtherPushStep ==
  ASSUME TypeOK, Linked, OtherPush
  PROVE  Linked' /\ Exchanged
<1>1. PICK d \in OtherDiffs : tracker' = File([diff |-> d, ms |-> "zero"])
  BY DEF OtherPush
<1> DEFINE name == [diff |-> d, ms |-> "zero"]
<1>2. UNCHANGED <<local, newDiffs, toPull, toPush, net>>
  BY DEF OtherPush, clientVars
<1>3. name \in [diff : OtherDiffs, ms : {"zero"}] /\ name \in Names /\ Owned(name, local)
  BY DEF Names, Diffs, Owned
<1> HIDE DEF name
<1>4. ToSet(tracker') = ToSet(tracker) \union {name}
  BY <1>1, <1>3, FileAdds DEF name
<1>5. OwnerOK' /\ QueuesOK'
  BY <1>2, <1>3, <1>4, TrackerGrows
<1>6. NetOK'
  BY <1>2, <1>4, NetShrinks DEF Linked
<1>7. Promise!ShareForeign(name)
  BY <1>2, <1>4 DEF Promise!ShareForeign
<1> QED BY <1>3, <1>5, <1>6, <1>7 DEF Linked, Exchanged, Promise!Next

LEMMA ServeStep ==
  ASSUME TypeOK, Linked, NEW i \in Ids, Serve(i)
  PROVE  Linked' /\ Exchanged
<1> DEFINE names == IF net[i].kind = "history" THEN tracker ELSE <<>>
<1>1. /\ UNCHANGED <<local, newDiffs, toPull, toPush>>
      /\ net[i] # NoRequest
      /\ net' = [net EXCEPT ![i].status = "served", ![i].names = names]
  BY DEF Serve, clientVars
<1>2. net[i] \in Requests /\ RequestOK(net[i], tracker, local)
  BY <1>1 DEF TypeOK, Linked, NetOK
<1>3. ToSet(names) \subseteq ToSet(tracker)
  BY SetOfEmpty
<1> HIDE DEF names
<1>4. CASE net[i].kind # "push"
  <2>1. tracker' = tracker
    BY <1>4 DEF Serve
  <2>2. NetOK'
    BY <1>1, <1>3, <2>1, FateKeeps DEF Linked
  <2>3. QueuesOK'
    BY <1>1, <2>1 DEF QueuesOK, Fetchable, Linked
  <2> QED BY <1>1, <2>1, <2>2, <2>3, StutterStep
<1>5. CASE net[i].kind = "push"
  <2> DEFINE own == net[i].name
             name == PushedName(own)
  <2>1. own \in ToSet(local) /\ own \in [diff : LocalDiffs, ms : Millis]
    BY <1>2, <1>5 DEF RequestOK, Linked, OwnerOK
  <2>2. name \in Names /\ name.diff = own.diff
    BY <2>1 DEF PushedName, Names, Diffs
  <2>3. tracker' = File(name)
    BY <1>5 DEF Serve
  <2> HIDE DEF own, name
  <2>4. ToSet(tracker') = ToSet(tracker) \union {name}
    BY <2>2, <2>3, FileAdds
  <2>5. Owned(name, local)
    BY <2>1, <2>2 DEF Owned
  <2>6. OwnerOK' /\ QueuesOK'
    BY <1>1, <2>4, <2>5, TrackerGrows
  <2>7. NetOK'
    BY <1>1, <1>3, <2>4, FateKeeps DEF Linked
  <2>8. Promise!Share(own)
    BY <1>1, <2>1, <2>4 DEF Promise!Share, name
  <2> QED BY <2>1, <2>6, <2>7, <2>8 DEF Linked, Exchanged, Promise!Next
<1> QED BY <1>4, <1>5

LEMMA SpoilStep ==
  ASSUME TypeOK, Linked, NEW i \in Ids, Fail(i) \/ Garble(i)
  PROVE  Linked' /\ Exchanged
<1>1. PICK status : /\ net[i] # NoRequest
                    /\ net' = [net EXCEPT ![i].status = status, ![i].names = <<>>]
  BY DEF Fail, Garble, Spoil
<1>2. UNCHANGED <<tracker, local, newDiffs, toPull, toPush>>
  BY DEF Fail, Garble, Spoil, clientVars
<1>3. NetOK'
  BY <1>1, <1>2, SetOfEmpty, FateKeeps DEF Linked
<1>4. QueuesOK'
  BY <1>2 DEF QueuesOK, Fetchable, Linked
<1> QED BY <1>2, <1>3, <1>4, StutterStep

LEMMA LinkedStep ==
  ASSUME TypeOK, Linked, [Next]_vars
  PROVE  Linked' /\ Exchanged
<1>1. ASSUME NEW i \in Ids, RequestFinished(i) PROVE Linked' /\ Exchanged
  BY <1>1, ReplyStep, FreshStep DEF RequestFinished, HistoryGarbled
<1>2. CASE Restart
  BY <1>2, FreshStep DEF Restart
<1>3. CASE UNCHANGED vars
  <2>1. NetOK'
    BY <1>3, NetShrinks DEF vars, clientVars, Linked
  <2>2. QueuesOK'
    BY <1>3 DEF vars, clientVars, QueuesOK, Fetchable, Linked
  <2> QED BY <1>3, <2>1, <2>2, StutterStep DEF vars, clientVars
<1> QED
  BY <1>1, <1>2, <1>3, LoopStep, CommitStep, OtherPushStep, ServeStep, SpoilStep
  DEF Next, Client

(* The synchronizer with its queues, counters and requests, against a      *)
(* tracker and a network that fail in every way of the model, does what    *)
(* Exchange says: nothing that was not committed is pushed, nothing that   *)
(* the client has is pulled, and nothing disappears.                       *)
THEOREM SynchronizerExchanges == Spec => ImplementsExchange
<1>1. Init => Linked /\ Promise!Init
  BY SetOfEmpty DEF Init, Linked, OwnerOK, QueuesOK, NetOK, Promise!Init
<1>2. TypeOK /\ Linked /\ [Next]_vars => Linked' /\ Exchanged
  BY LinkedStep
<1> QED BY <1>1, <1>2, TypeCorrect, PTL DEF Spec, ImplementsExchange, Promise!Spec, Exchanged
=============================================================================
