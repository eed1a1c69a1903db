------------------------------- MODULE Peers -------------------------------
(***************************************************************************)
(* How synchronizers learn of each other (synchronizer.cpp): each          *)
(* registers its url with the tracker and asks the tracker for the list of *)
(* all that are registered, of which it leaves out its own.                *)
(*                                                                         *)
(* The tracker gives a url back in a form of its own - "localhost" becomes *)
(* an address (tst_synchronizertest.cpp:170) - and only its reply tells a  *)
(* client under which url it will find itself in the list.  Replies come   *)
(* in any order, are lost, or are no JSON, and nothing is asked again.     *)
(*                                                                         *)
(* The tracker is another program: it keeps the urls that are registered,  *)
(* over restarts of the clients.                                           *)
(***************************************************************************)
EXTENDS Integers, FiniteSets

CONSTANTS
  Clients,      \* the synchronizers
  UrlOf,        \* the url that each is made with
  Canon,        \* the form that the tracker gives to a url
  Ids,          \* bound: the requests that may be under way
  NoRequest,    \* a free member of Ids
  MaxFailures   \* bound: the number of replies that fail and of restarts

Urls == DOMAIN Canon
KnownAs(c) == Canon[UrlOf[c]]

(* urls tell clients apart, in either form, and the tracker leaves one of  *)
(* its own form as it is                                                   *)
ASSUME PeersAssumption ==
  /\ UrlOf \in [Clients -> Urls]
  /\ Canon \in [Urls -> Urls]
  /\ \A u \in Urls : Canon[Canon[u]] = Canon[u]
  /\ \A c, d \in Clients : c # d => KnownAs(c) \notin {UrlOf[d], KnownAs(d)}
  /\ MaxFailures \in Nat

(* A request: the url that it registers, and the clients that were known   *)
(* to be registered when it was sent; the urls in its reply.               *)
Requests == [client : Clients, kind : {"register", "peers"}, url : Urls,
             known : SUBSET Clients, status : {"sent", "served", "failed", "garbled"},
             urls : SUBSET Urls]

ASSUME NoRequestAssumption == NoRequest \notin Requests

VARIABLES
  registered,  \* the urls that the tracker has
  self,        \* m_selfUrl of each client
  peers,       \* m_peerUrlStrings of each
  registeredAt,\* m_selfUrlRegisteredAt has been set
  net,         \* the requests under way
  known,       \* for the properties: the clients that were ever told that
               \* they are registered
  listed,      \* ... those that were known when the list that a client has
               \* was asked for
  after,       \* ... the list came after the client's own registration
  failures     \* how many failures there have been

vars == <<registered, self, peers, registeredAt, net, known, listed, after, failures>>

-----------------------------------------------------------------------------
(* The clients.                                                            *)

Send(c, kind) ==
  /\ \E i \in Ids :
       /\ net[i] = NoRequest
       /\ net' = [net EXCEPT ![i] = [client |-> c, kind |-> kind, url |-> self[c],
                                     known |-> known, status |-> "sent", urls |-> {}]]
  /\ UNCHANGED <<registered, self, peers, registeredAt, known, listed, after, failures>>

RegisterSelf(c) == Send(c, "register")
RequestPeers(c) == Send(c, "peers")

Arrived(i, kind, statuses) ==
  /\ net[i] # NoRequest
  /\ net[i].kind = kind
  /\ net[i].status \in statuses

(* a faulty one that takes the reply for a url as a whole *)
SelfRegisteredWhole(i) ==
  LET c == net[i].client
  IN  /\ Arrived(i, "register", {"served"})
      /\ registeredAt' = [registeredAt EXCEPT ![c] = TRUE]
      /\ self' = [self EXCEPT ![c] = net[i].urls]
      /\ known' = known \union {c}
      /\ net' = [net EXCEPT ![i] = NoRequest]
      /\ UNCHANGED <<registered, peers, listed, after, failures>>

(* a faulty one that keeps the url it has *)
SelfRegisteredOnly(i) ==
  LET c == net[i].client
  IN  /\ Arrived(i, "register", {"served"})
      /\ registeredAt' = [registeredAt EXCEPT ![c] = TRUE]
      /\ known' = known \union {c}
      /\ net' = [net EXCEPT ![i] = NoRequest]
      /\ UNCHANGED <<registered, self, peers, listed, after, failures>>

(* the client takes the url that it is registered under for its own *)
SelfRegistered(i) ==
  LET c == net[i].client
  IN  /\ Arrived(i, "register", {"served"})
      /\ registeredAt' = [registeredAt EXCEPT ![c] = TRUE]
      /\ \E url \in net[i].urls : self' = [self EXCEPT ![c] = url]
      /\ known' = known \union {c}
      /\ net' = [net EXCEPT ![i] = NoRequest]
      /\ UNCHANGED <<registered, peers, listed, after, failures>>

(* a faulty one that stops at the client's own url: any of the others may  *)
(* come after it                                                           *)
PeersUpToSelf(i) ==
  LET c == net[i].client
  IN  /\ Arrived(i, "peers", {"served"})
      /\ \E urls \in IF self[c] \in net[i].urls THEN SUBSET (net[i].urls \ {self[c]})
                                                ELSE {net[i].urls} :
           peers' = [peers EXCEPT ![c] = urls]
      /\ listed' = [listed EXCEPT ![c] = net[i].known]
      /\ after' = [after EXCEPT ![c] = registeredAt[c]]
      /\ net' = [net EXCEPT ![i] = NoRequest]
      /\ UNCHANGED <<registered, self, registeredAt, known, failures>>

PeersReceived(i) ==
  LET c == net[i].client
  IN  /\ Arrived(i, "peers", {"served"})
      /\ peers' = [peers EXCEPT ![c] = net[i].urls \ {self[c]}]
      /\ listed' = [listed EXCEPT ![c] = net[i].known]
      /\ after' = [after EXCEPT ![c] = registeredAt[c]]
      /\ net' = [net EXCEPT ![i] = NoRequest]
      /\ UNCHANGED <<registered, self, registeredAt, known, failures>>

(* a reply that failed, or is no JSON, changes nothing *)
NothingReceived(i) ==
  /\ Arrived(i, "register", {"failed", "garbled"}) \/ Arrived(i, "peers", {"failed", "garbled"})
  /\ net' = [net EXCEPT ![i] = NoRequest]
  /\ UNCHANGED <<registered, self, peers, registeredAt, known, listed, after, failures>>

(* the client is started again, and its requests are lost *)
Restart(c) ==
  /\ failures < MaxFailures
  /\ failures' = failures + 1
  /\ self' = [self EXCEPT ![c] = UrlOf[c]]
  /\ peers' = [peers EXCEPT ![c] = {}]
  /\ registeredAt' = [registeredAt EXCEPT ![c] = FALSE]
  /\ listed' = [listed EXCEPT ![c] = {}]
  /\ after' = [after EXCEPT ![c] = FALSE]
  /\ net' = [i \in Ids |-> IF net[i] # NoRequest /\ net[i].client = c THEN NoRequest
                                                                      ELSE net[i]]
  /\ UNCHANGED <<registered, known>>

-----------------------------------------------------------------------------
(* The tracker and the network.                                            *)

Serve(i) ==
  /\ net[i] # NoRequest
  /\ net[i].status = "sent"
  /\ registered' = IF net[i].kind = "register" THEN registered \union {Canon[net[i].url]}
                                               ELSE registered
  /\ net' = [net EXCEPT ![i].status = "served",
                        ![i].urls = IF net[i].kind = "register" THEN {Canon[net[i].url]}
                                                                ELSE registered]
  /\ UNCHANGED <<self, peers, registeredAt, known, listed, after, failures>>

(* a request or its reply is lost, or the reply is no JSON *)
Spoil(i) ==
  /\ failures < MaxFailures
  /\ failures' = failures + 1
  /\ net[i] # NoRequest
  /\ net[i].status \in {"sent", "served"}
  /\ \E status \in {"failed", "garbled"} :
       net' = [net EXCEPT ![i].status = status, ![i].urls = {}]
  /\ UNCHANGED <<registered, self, peers, registeredAt, known, listed, after>>

Init ==
  /\ registered = {}
  /\ self = UrlOf
  /\ peers = [c \in Clients |-> {}]
  /\ registeredAt = [c \in Clients |-> FALSE]
  /\ net = [i \in Ids |-> NoRequest]
  /\ known = {}
  /\ listed = [c \in Clients |-> {}]
  /\ after = [c \in Clients |-> FALSE]
  /\ failures = 0

Client(c) == RegisterSelf(c) \/ RequestPeers(c) \/ Restart(c)
Reply(i) == SelfRegistered(i) \/ PeersReceived(i) \/ NothingReceived(i)

Next ==
  \/ \E c \in Clients : Client(c)
  \/ \E i \in Ids : Reply(i) \/ Serve(i) \/ Spoil(i)

Spec == Init /\ [][Next]_vars

-----------------------------------------------------------------------------
(* Properties.                                                             *)

(* The variables keep their types. *)
TypeOK ==
  /\ registered \subseteq Urls
  /\ self \in [Clients -> Urls]
  /\ peers \in [Clients -> SUBSET Urls]
  /\ registeredAt \in [Clients -> BOOLEAN]
  /\ net \in [Ids -> Requests \union {NoRequest}]
  /\ known \subseteq Clients
  /\ listed \in [Clients -> SUBSET Clients]
  /\ after \in [Clients -> BOOLEAN]
  /\ failures \in 0..MaxFailures

(* A client is not among its own peers, if it received the list after the  *)
(* reply to its registration: however the replies to it and the others,    *)
(* and to repeated requests, cross.                                        *)
NotItsOwnPeer == \A c \in Clients : after[c] => KnownAs(c) \notin peers[c]

(* The list of a client has every other client that had learned of its     *)
(* registration before the list was asked for (tst_synchronizertest.cpp:   *)
(* 163), though a later list may be overtaken by an earlier one.           *)
OthersAreFound ==
  \A c \in Clients : \A d \in listed[c] \ {c} : KnownAs(d) \in peers[c]
=============================================================================
