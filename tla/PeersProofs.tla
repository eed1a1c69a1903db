---------------------------- MODULE PeersProofs ----------------------------
(***************************************************************************)
(* What holds of Peers for any number of clients and requests, any urls    *)
(* and any number of failures.                                             *)
(***************************************************************************)
EXTENDS Peers, TLAPS

(* a record of the net that is changed in some of its fields *)
LEMMA ServedType ==
  ASSUME NEW r \in Requests, NEW status \in {"sent", "served", "failed", "garbled"},
         NEW urls \in SUBSET Urls
  PROVE  [r EXCEPT !.status = status, !.urls = urls] \in Requests
  BY DEF Requests

LEMMA TypeStep ==
  ASSUME TypeOK, PeersAssumption, NoRequestAssumption, [Next]_vars
  PROVE  TypeOK'
<1> USE DEF TypeOK
<1>1. ASSUME NEW c \in Clients, NEW kind \in {"register", "peers"}, Send(c, kind)
      PROVE TypeOK'
  <2>1. PICK i \in Ids :
          net' = [net EXCEPT ![i] = [client |-> c, kind |-> kind, url |-> self[c],
                                     known |-> known, status |-> "sent", urls |-> {}]]
    BY <1>1 DEF Send
  <2>2. [client |-> c, kind |-> kind, url |-> self[c], known |-> known,
         status |-> "sent", urls |-> {}] \in Requests
    BY DEF Requests
  <2>3. net' \in [Ids -> Requests \union {NoRequest}]
    BY <2>1, <2>2
  <2> QED BY <1>1, <2>3 DEF Send
<1>2. ASSUME NEW i \in Ids, SelfRegistered(i) PROVE TypeOK'
  <2>1. net[i] \in Requests
    BY <1>2 DEF SelfRegistered, Arrived
  <2>2. net[i].client \in Clients /\ net[i].urls \subseteq Urls
    BY <2>1 DEF Requests
  <2> QED BY <1>2, <2>2 DEF SelfRegistered
<1>3. ASSUME NEW i \in Ids, PeersReceived(i) PROVE TypeOK'
  <2>1. net[i] \in Requests
    BY <1>3 DEF PeersReceived, Arrived
  <2>2. net[i].client \in Clients /\ net[i].urls \subseteq Urls /\ net[i].known \subseteq Clients
    BY <2>1 DEF Requests
  <2> QED BY <1>3, <2>2 DEF PeersReceived
<1>4. ASSUME NEW i \in Ids, NothingReceived(i) PROVE TypeOK'
  BY <1>4 DEF NothingReceived
<1>5. ASSUME NEW c \in Clients, Restart(c) PROVE TypeOK'
  <2>1. failures' \in 0..MaxFailures
    BY <1>5, PeersAssumption DEF Restart, PeersAssumption
  <2>2. net' \in [Ids -> Requests \union {NoRequest}]
    BY <1>5 DEF Restart
  <2> QED BY <1>5, <2>1, <2>2, PeersAssumption DEF Restart, PeersAssumption
<1>6. ASSUME NEW i \in Ids, Serve(i) PROVE TypeOK'
  <2> DEFINE urls == IF net[i].kind = "register" THEN {Canon[net[i].url]} ELSE registered
  <2>1. net[i] \in Requests /\ net[i].url \in Urls
    BY <1>6 DEF Serve, Requests
  <2>2. Canon[net[i].url] \in Urls
    BY <2>1, PeersAssumption DEF PeersAssumption
  <2>3. urls \in SUBSET Urls
    BY <2>2
  <2>4. net' = [net EXCEPT ![i] = [net[i] EXCEPT !.status = "served", !.urls = urls]]
    BY <1>6 DEF Serve
  <2>5. net' \in [Ids -> Requests \union {NoRequest}]
    <3> HIDE DEF urls
    <3> QED BY <2>1, <2>3, <2>4, ServedType
  <2> QED BY <1>6, <2>2, <2>5 DEF Serve
<1>7. ASSUME NEW i \in Ids, Spoil(i) PROVE TypeOK'
  <2>1. net[i] \in Requests
    BY <1>7 DEF Spoil
  <2>2. PICK status \in {"failed", "garbled"} :
          net' = [net EXCEPT ![i] = [net[i] EXCEPT !.status = status, !.urls = {}]]
    BY <1>7 DEF Spoil
  <2>3. net' \in [Ids -> Requests \union {NoRequest}]
    BY <2>1, <2>2, ServedType
  <2>4. failures' \in 0..MaxFailures
    BY <1>7, PeersAssumption DEF Spoil, PeersAssumption
  <2> QED BY <1>7, <2>3, <2>4 DEF Spoil
<1>8. CASE UNCHANGED vars
  BY <1>8 DEF vars
<1> QED
  BY <1>1, <1>2, <1>3, <1>4, <1>5, <1>6, <1>7, <1>8
  DEF Next, Client, Reply, RegisterSelf, RequestPeers

(* The variables keep their types. *)
THEOREM TypeCorrect == Spec => []TypeOK
<1>1. Init => TypeOK
  BY PeersAssumption DEF Init, TypeOK, PeersAssumption
<1>2. TypeOK /\ [Next]_vars => TypeOK'
  BY TypeStep, PeersAssumption, NoRequestAssumption
<1> QED BY <1>1, <1>2, PTL DEF Spec

-----------------------------------------------------------------------------
(* A client goes by one of its two urls, and by the tracker's once it was  *)
(* told; what is known of a client is so at the tracker.                   *)
SelfOK ==
  \A c \in Clients : /\ self[c] \in {UrlOf[c], KnownAs(c)}
                     /\ registeredAt[c] => self[c] = KnownAs(c)
                     /\ after[c] => registeredAt[c]

KnownOK == \A d \in known : KnownAs(d) \in registered

(* what a request that is under way says *)
RequestOK(r, K, R) ==
  /\ r.url \in {UrlOf[r.client], KnownAs(r.client)}
  /\ r.known \subseteq K
  /\ r.status = "served" /\ r.kind = "register" =>
       r.urls = {KnownAs(r.client)} /\ KnownAs(r.client) \in R
  /\ r.status = "served" /\ r.kind = "peers" => \A d \in r.known : KnownAs(d) \in r.urls

NetOK == \A i \in Ids : net[i] # NoRequest => RequestOK(net[i], known, registered)

Inv == TypeOK /\ SelfOK /\ KnownOK /\ NetOK /\ NotItsOwnPeer /\ OthersAreFound

(* nothing is forgotten at the tracker *)
LEMMA RequestStays ==
  ASSUME NEW r, NEW K, NEW K2, NEW R, NEW R2,
         RequestOK(r, K, R), K \subseteq K2, R \subseteq R2
  PROVE  RequestOK(r, K2, R2)
  BY DEF RequestOK

(* a step that only takes a request from the net *)
LEMMA NetShrinks ==
  ASSUME NetOK, known \subseteq known', registered \subseteq registered',
         \A i \in Ids : net'[i] = NoRequest \/ net'[i] = net[i]
  PROVE  NetOK'
<1>1. SUFFICES ASSUME NEW i \in Ids, net'[i] # NoRequest PROVE RequestOK(net'[i], known', registered')
  BY DEF NetOK
<1>2. net'[i] = net[i] /\ RequestOK(net[i], known, registered)
  BY <1>1 DEF NetOK
<1> QED BY <1>2, RequestStays

LEMMA SendStep ==
  ASSUME Inv, PeersAssumption, NEW c \in Clients, NEW kind, Send(c, kind)
  PROVE  SelfOK' /\ KnownOK' /\ NetOK' /\ NotItsOwnPeer' /\ OthersAreFound'
<1> DEFINE r == [client |-> c, kind |-> kind, url |-> self[c],
                 known |-> known, status |-> "sent", urls |-> {}]
<1>1. PICK i \in Ids : net[i] = NoRequest /\ net' = [net EXCEPT ![i] = r]
  BY DEF Send
<1>2. SelfOK' /\ KnownOK' /\ NotItsOwnPeer' /\ OthersAreFound'
  BY DEF Send, Inv, SelfOK, KnownOK, NotItsOwnPeer, OthersAreFound
<1>3. RequestOK(r, known, registered)
  BY DEF RequestOK, Inv, SelfOK
<1>4. NetOK'
  <2>1. SUFFICES ASSUME NEW j \in Ids, net'[j] # NoRequest PROVE RequestOK(net'[j], known', registered')
    BY DEF NetOK
  <2>2. RequestOK(net'[j], known, registered)
    <3> HIDE DEF r
    <3> QED BY <1>1, <1>3, <2>1 DEF Inv, TypeOK, NetOK
  <2> QED BY <2>2, RequestStays DEF Send
<1> QED BY <1>2, <1>4

LEMMA SelfRegisteredStep ==
  ASSUME Inv, PeersAssumption, NEW i \in Ids, SelfRegistered(i)
  PROVE  SelfOK' /\ KnownOK' /\ NetOK' /\ NotItsOwnPeer' /\ OthersAreFound'
<1> DEFINE c == net[i].client
<1>1. net[i] \in Requests /\ c \in Clients /\ RequestOK(net[i], known, registered)
  BY DEF SelfRegistered, Arrived, Inv, TypeOK, NetOK, Requests
<1>2. net[i].urls = {KnownAs(c)} /\ KnownAs(c) \in registered
  BY <1>1 DEF SelfRegistered, Arrived, RequestOK
<1>3. self' = [self EXCEPT ![c] = KnownAs(c)]
  BY <1>2 DEF SelfRegistered
<1>4. SelfOK'
  BY <1>1, <1>3 DEF SelfRegistered, Inv, TypeOK, SelfOK
<1>5. KnownOK'
  BY <1>2 DEF SelfRegistered, Inv, KnownOK
<1>6. NetOK'
  <2>1. \A j \in Ids : net'[j] = NoRequest \/ net'[j] = net[j]
    BY DEF SelfRegistered, Inv, TypeOK
  <2> QED BY <2>1, NetShrinks DEF SelfRegistered, Inv
<1>7. NotItsOwnPeer' /\ OthersAreFound'
  BY DEF SelfRegistered, Inv, NotItsOwnPeer, OthersAreFound
<1> QED BY <1>4, <1>5, <1>6, <1>7

LEMMA PeersReceivedStep ==
  ASSUME Inv, PeersAssumption, NEW i \in Ids, PeersReceived(i)
  PROVE  SelfOK' /\ KnownOK' /\ NetOK' /\ NotItsOwnPeer' /\ OthersAreFound'
<1> DEFINE c == net[i].client
<1>1. net[i] \in Requests /\ c \in Clients /\ RequestOK(net[i], known, registered)
  BY DEF PeersReceived, Arrived, Inv, TypeOK, NetOK, Requests
<1>2. \A d \in net[i].known : KnownAs(d) \in net[i].urls
  BY <1>1 DEF PeersReceived, Arrived, RequestOK
<1>3. net[i].known \subseteq Clients
  BY <1>1 DEF Requests
<1>4. /\ peers' = [peers EXCEPT ![c] = net[i].urls \ {self[c]}]
      /\ listed' = [listed EXCEPT ![c] = net[i].known]
      /\ after' = [after EXCEPT ![c] = registeredAt[c]]
      /\ UNCHANGED <<self, registeredAt, known, registered>>
  BY DEF PeersReceived
<1>5. SelfOK'
  BY <1>1, <1>4 DEF Inv, TypeOK, SelfOK
<1>6. KnownOK'
  BY <1>4 DEF Inv, KnownOK
<1>7. NetOK'
  <2>1. \A j \in Ids : net'[j] = NoRequest \/ net'[j] = net[j]
    BY DEF PeersReceived, Inv, TypeOK
  <2> QED BY <1>4, <2>1, NetShrinks DEF Inv
<1>8. NotItsOwnPeer'
  <2>1. SUFFICES ASSUME NEW d \in Clients, after'[d] PROVE KnownAs(d) \notin peers'[d]
    BY DEF NotItsOwnPeer
  <2>2. CASE d = c
    <3>1. self[c] = KnownAs(c)
      BY <1>1, <1>4, <2>1, <2>2 DEF Inv, TypeOK, SelfOK
    <3> QED BY <1>1, <1>4, <2>2, <3>1 DEF Inv, TypeOK
  <2>3. CASE d # c
    BY <1>1, <1>4, <2>1, <2>3 DEF Inv, TypeOK, NotItsOwnPeer
  <2> QED BY <2>2, <2>3
<1>9. OthersAreFound'
  <2>1. SUFFICES ASSUME NEW e \in Clients, NEW d \in listed'[e] \ {e}
        PROVE KnownAs(d) \in peers'[e]
    BY DEF OthersAreFound
  <2>2. CASE e = c
    <3>1. d \in net[i].known /\ d # c /\ d \in Clients
      BY <1>1, <1>3, <1>4, <2>1, <2>2 DEF Inv, TypeOK
    <3>2. KnownAs(d) # self[c]
      BY <1>1, <3>1, PeersAssumption DEF Inv, SelfOK, PeersAssumption
    <3> QED BY <1>1, <1>2, <1>4, <2>2, <3>1, <3>2 DEF Inv, TypeOK
  <2>3. CASE e # c
    BY <1>1, <1>4, <2>1, <2>3 DEF Inv, TypeOK, OthersAreFound
  <2> QED BY <2>2, <2>3
<1> QED BY <1>5, <1>6, <1>7, <1>8, <1>9

LEMMA RestartStep ==
  ASSUME Inv, PeersAssumption, NEW c \in Clients, Restart(c)
  PROVE  SelfOK' /\ KnownOK' /\ NetOK' /\ NotItsOwnPeer' /\ OthersAreFound'
<1>1. SelfOK'
  BY DEF Restart, Inv, TypeOK, SelfOK
<1>2. KnownOK'
  BY DEF Restart, Inv, KnownOK
<1>3. NetOK'
  <2>1. \A j \in Ids : net'[j] = NoRequest \/ net'[j] = net[j]
    BY DEF Restart
  <2> QED BY <2>1, NetShrinks DEF Restart, Inv
<1>4. NotItsOwnPeer' /\ OthersAreFound'
  BY DEF Restart, Inv, TypeOK, NotItsOwnPeer, OthersAreFound
<1> QED BY <1>1, <1>2, <1>3, <1>4

LEMMA ServeStep ==
  ASSUME Inv, PeersAssumption, NEW i \in Ids, Serve(i)
  PROVE  SelfOK' /\ KnownOK' /\ NetOK' /\ NotItsOwnPeer' /\ OthersAreFound'
<1> DEFINE url  == Canon[net[i].url]
           urls == IF net[i].kind = "register" THEN {url} ELSE registered
           r    == [net[i] EXCEPT !.status = "served", !.urls = urls]
<1>1. net[i] \in Requests /\ net[i].client \in Clients /\ net[i].url \in Urls
  BY DEF Serve, Inv, TypeOK, Requests
<1>2. RequestOK(net[i], known, registered)
  BY DEF Serve, Inv, NetOK
<1>3. url = KnownAs(net[i].client) /\ url \in Urls
  BY <1>1, <1>2, PeersAssumption DEF RequestOK, KnownAs, PeersAssumption
<1>4. registered \subseteq registered' /\ (net[i].kind = "register" => url \in registered')
  BY DEF Serve
<1>5. UNCHANGED <<self, peers, registeredAt, known, listed, after>>
  BY DEF Serve
<1>6. SelfOK' /\ NotItsOwnPeer' /\ OthersAreFound'
  BY <1>5 DEF Inv, SelfOK, NotItsOwnPeer, OthersAreFound
<1>7. KnownOK'
  BY <1>4, <1>5 DEF Inv, KnownOK
<1>8. net' = [net EXCEPT ![i] = r]
  BY DEF Serve
<1>9. /\ r.client = net[i].client /\ r.kind = net[i].kind /\ r.url = net[i].url
      /\ r.known = net[i].known /\ r.urls = urls
  <2> HIDE DEF urls
  <2> QED BY <1>1 DEF Requests
<1>10. RequestOK(r, known', registered')
  <2>1. \A d \in net[i].known : KnownAs(d) \in registered
    BY <1>2 DEF RequestOK, Inv, KnownOK
  <2>2. r.known \subseteq known' /\ r.url \in {UrlOf[r.client], KnownAs(r.client)}
    BY <1>2, <1>5, <1>9 DEF RequestOK
  <2>3. r.kind = "register" => r.urls = {KnownAs(r.client)} /\ KnownAs(r.client) \in registered'
    BY <1>3, <1>4, <1>9
  <2>4. r.kind = "peers" => \A d \in r.known : KnownAs(d) \in r.urls
    BY <1>9, <2>1
  <2> HIDE DEF r
  <2> QED BY <2>2, <2>3, <2>4 DEF RequestOK
<1>11. NetOK'
  <2>1. SUFFICES ASSUME NEW j \in Ids, net'[j] # NoRequest PROVE RequestOK(net'[j], known', registered')
    BY DEF NetOK
  <2>2. CASE j = i
    <3>1. net'[i] = r
      <4> HIDE DEF r
      <4> QED BY <1>8 DEF Inv, TypeOK
    <3> HIDE DEF r
    <3> QED BY <1>10, <2>2, <3>1
  <2>3. CASE j # i
    <3>1. net'[j] = net[j] /\ RequestOK(net[j], known, registered)
      <4> HIDE DEF r
      <4> QED BY <1>8, <2>1, <2>3 DEF Inv, TypeOK, NetOK
    <3> QED BY <1>4, <1>5, <3>1, RequestStays
  <2> QED BY <2>2, <2>3
<1> QED BY <1>6, <1>7, <1>11

LEMMA SpoilStep ==
  ASSUME Inv, NEW i \in Ids, Spoil(i)
  PROVE  SelfOK' /\ KnownOK' /\ NetOK' /\ NotItsOwnPeer' /\ OthersAreFound'
<1>1. net[i] \in Requests /\ RequestOK(net[i], known, registered)
  BY DEF Spoil, Inv, TypeOK, NetOK
<1>2. PICK status \in {"failed", "garbled"} :
        net' = [net EXCEPT ![i] = [net[i] EXCEPT !.status = status, !.urls = {}]]
  BY DEF Spoil
<1> DEFINE r == [net[i] EXCEPT !.status = status, !.urls = {}]
<1>3. /\ r.client = net[i].client /\ r.url = net[i].url /\ r.known = net[i].known
      /\ r.status = status
  BY <1>1 DEF Requests
<1>4. RequestOK(r, known, registered)
  <2> HIDE DEF r
  <2> QED BY <1>1, <1>3 DEF RequestOK
<1>5. NetOK'
  <2>1. SUFFICES ASSUME NEW j \in Ids, net'[j] # NoRequest PROVE RequestOK(net'[j], known', registered')
    BY DEF NetOK
  <2>2. RequestOK(net'[j], known, registered)
    <3> HIDE DEF r
    <3> QED BY <1>2, <1>4, <2>1 DEF Inv, TypeOK, NetOK, r
  <2> QED BY <2>2, RequestStays DEF Spoil
<1>6. SelfOK' /\ KnownOK' /\ NotItsOwnPeer' /\ OthersAreFound'
  BY DEF Spoil, Inv, SelfOK, KnownOK, NotItsOwnPeer, OthersAreFound
<1> QED BY <1>5, <1>6

LEMMA InvStep ==
  ASSUME Inv, PeersAssumption, NoRequestAssumption, [Next]_vars
  PROVE  Inv'
<1>1. TypeOK'
  BY TypeStep DEF Inv
<1>2. ASSUME NEW i \in Ids, NothingReceived(i)
      PROVE SelfOK' /\ KnownOK' /\ NetOK' /\ NotItsOwnPeer' /\ OthersAreFound'
  <2>1. \A j \in Ids : net'[j] = NoRequest \/ net'[j] = net[j]
    BY <1>2 DEF NothingReceived, Inv, TypeOK
  <2>2. NetOK'
    BY <1>2, <2>1, NetShrinks DEF NothingReceived, Inv
  <2> QED BY <1>2, <2>2
      DEF NothingReceived, Inv, SelfOK, KnownOK, NotItsOwnPeer, OthersAreFound
<1>3. CASE UNCHANGED vars
  <2>1. NetOK'
    BY <1>3, NetShrinks DEF vars, Inv
  <2> QED BY <1>1, <1>3, <2>1
      DEF vars, Inv, SelfOK, KnownOK, NotItsOwnPeer, OthersAreFound
<1> QED
  BY <1>1, <1>2, <1>3, SendStep, SelfRegisteredStep, PeersReceivedStep, RestartStep,
     ServeStep, SpoilStep
  DEF Inv, Next, Client, Reply, RegisterSelf, RequestPeers

LEMMA InvAlways == Spec => []Inv
<1>1. Init => Inv
  <2>1. Init => TypeOK
    BY PeersAssumption DEF Init, TypeOK, PeersAssumption
  <2> QED BY <2>1, PeersAssumption
      DEF Init, Inv, SelfOK, KnownOK, NetOK, NotItsOwnPeer, OthersAreFound, PeersAssumption
<1>2. Inv /\ [Next]_vars => Inv'
  BY InvStep, PeersAssumption, NoRequestAssumption
<1> QED BY <1>1, <1>2, PTL DEF Spec

(* A client that registered first is not among its peers.                  *)
THEOREM OwnUrlLeftOut == Spec => []NotItsOwnPeer
<1>1. Inv => NotItsOwnPeer
  BY DEF Inv
<1> QED BY <1>1, InvAlways, PTL

(* Every other client that was known to be registered is.                  *)
THEOREM OthersListed == Spec => []OthersAreFound
<1>1. Inv => OthersAreFound
  BY DEF Inv
<1> QED BY <1>1, InvAlways, PTL
=============================================================================
