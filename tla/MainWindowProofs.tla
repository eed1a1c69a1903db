-------------------------- MODULE MainWindowProofs --------------------------
(***************************************************************************)
(* What holds of MainWindow for any names, directories, trackers and       *)
(* ports, any router, and any number of starts and repositories.           *)
(***************************************************************************)
EXTENDS MainWindow, Recursion, FiniteSetTheorems, SequenceTheorems

(* some places up to n have a last one *)
LEMMA LastPlace ==
  ASSUME NEW n \in Nat, NEW S \in SUBSET (1..n), S # {}
  PROVE  \E m \in S : \A k \in S : k <= m
<1> DEFINE T == { m \in Nat : \A R \in SUBSET (1..m) :
                                R # {} => \E a \in R : \A b \in R : b <= a }
<1>1. 0 \in T
  <2>1. 1..0 = {}
    OBVIOUS
  <2> QED BY <2>1
<1>2. ASSUME NEW m \in T PROVE m + 1 \in T
  <2>1. SUFFICES ASSUME NEW R \in SUBSET (1..(m + 1)), R # {}
        PROVE \E a \in R : \A b \in R : b <= a
    OBVIOUS
  <2>2. CASE m + 1 \in R
    BY <2>2
  <2>3. CASE m + 1 \notin R
    <3>1. R \in SUBSET (1..m)
      BY <2>3
    <3> QED BY <2>1, <3>1
  <2> QED BY <2>2, <2>3
<1>3. T = Nat
  <2> HIDE DEF T
  <2>1. T \in SUBSET Nat
    BY DEF T
  <2> QED BY <1>1, <1>2, <2>1, SetInduction
<1> QED BY <1>3

(* a name in the list has a last repository, and it is in the list *)
LEMMA LastIsListed ==
  ASSUME NEW S, list \in Seq(S), NEW name \in ListedNames
  PROVE  \E i \in PlacesOf(name) : LastOf(name) = list[i]
<1>1. PlacesOf(name) \in SUBSET (1..Len(list)) /\ PlacesOf(name) # {}
  BY DEF PlacesOf, ListedNames
<1>2. Len(list) \in Nat
  OBVIOUS
<1>3. \E i \in PlacesOf(name) : \A j \in PlacesOf(name) : j <= i
  BY <1>1, <1>2, LastPlace
<1> QED BY <1>3, Zenon DEF LastOf

(* what is left of a sequence was in it *)
LEMMA RemoveAtKeeps ==
  ASSUME NEW S, NEW s \in Seq(S), NEW i \in 1..Len(s)
  PROVE  /\ RemoveAt(s, i) \in Seq(S)
         /\ \A k \in DOMAIN RemoveAt(s, i) : \E j \in DOMAIN s : RemoveAt(s, i)[k] = s[j]
<1> DEFINE a == SubSeq(s, 1, i - 1)
           b == SubSeq(s, i + 1, Len(s))
<1>1. a \in Seq(S) /\ Len(a) = i - 1 /\ \A k \in 1..Len(a) : a[k] = s[k]
  OBVIOUS
<1>2. b \in Seq(S) /\ Len(b) = Len(s) - i /\ \A k \in 1..Len(b) : b[k] = s[i + k]
  OBVIOUS
<1> HIDE DEF a, b
<1>3. /\ a \o b \in Seq(S) /\ Len(a \o b) = Len(a) + Len(b)
      /\ \A k \in 1..(Len(a) + Len(b)) :
            (a \o b)[k] = IF k <= Len(a) THEN a[k] ELSE b[k - Len(a)]
  BY <1>1, <1>2, ConcatProperties
<1>4. ASSUME NEW k \in 1..Len(a \o b) PROVE \E j \in DOMAIN s : (a \o b)[k] = s[j]
  <2>1. Len(s) \in Nat /\ DOMAIN s = 1..Len(s)
    OBVIOUS
  <2>2. k \in 1..(Len(s) - 1) /\ k \in 1..(Len(a) + Len(b))
    BY <1>1, <1>2, <1>3, <2>1
  <2>3. CASE k < i
    <3>1. (a \o b)[k] = s[k]
      BY <1>1, <1>3, <2>1, <2>2, <2>3
    <3> QED BY <2>1, <2>2, <3>1
  <2>4. CASE k >= i
    <3>1. (a \o b)[k] = b[k - Len(a)] /\ k - Len(a) \in 1..Len(b)
      BY <1>1, <1>2, <1>3, <2>1, <2>2, <2>4
    <3>2. b[k - Len(a)] = s[k + 1]
      BY <1>1, <1>2, <3>1
    <3> QED BY <2>1, <2>2, <3>1, <3>2
  <2> QED BY <2>1, <2>2, <2>3, <2>4
<1>5. RemoveAt(s, i) = a \o b
  BY DEF RemoveAt, a, b
<1>6. DOMAIN (a \o b) = 1..Len(a \o b)
  BY <1>3
<1> QED BY <1>3, <1>4, <1>5, <1>6

(* a repository that is added, or is not *)
LEMMA AddType ==
  ASSUME TypeOK, MainWindowAssumption, NEW name \in Seq(Nat), NEW path, NEW tracker,
         AddSynchronizer(name, path, tracker)
  PROVE  /\ list' \in Seq([name : Seq(Nat), path : Paths, tracker : Trackers, self : Nat])
         /\ dirs' \in [Paths -> {"gone", "bare", "readonly", "logs"}]
<1> DEFINE Repos == [name : Seq(Nat), path : Paths, tracker : Trackers, self : Nat]
           r == [name |-> name, path |-> path, tracker |-> tracker, self |-> port]
<1>1. list \in Seq(Repos)
  BY DEF TypeOK
<1>2. \/ list' = list
      \/ /\ path \in Paths /\ tracker \in Trackers
         /\ list' = Append(list, r)
  BY DEF AddSynchronizer
<1>3. path \in Paths /\ tracker \in Trackers => r \in Repos
  BY DEF TypeOK
<1>4. list' \in Seq(Repos)
  <2> HIDE DEF Repos, r
  <2> QED BY <1>1, <1>2, <1>3
<1> QED BY <1>4 DEF AddSynchronizer, TypeOK

-----------------------------------------------------------------------------
(* Types.                                                                  *)

LEMMA WriteSettingsType ==
  ASSUME TypeOK, WriteSettings, Rely
  PROVE  /\ iniPort' \in Nat
         /\ DOMAIN groups' \subseteq Seq(Nat)
         /\ \A name \in DOMAIN groups' : groups'[name] \in [path : Paths, tracker : Trackers]
         /\ owed' \subseteq [name : Seq(Nat), path : Paths, tracker : Trackers]
         /\ chosen' \in Nat
<1> DEFINE Repos == [name : Seq(Nat), path : Paths, tracker : Trackers, self : Nat]
<1>1. list \in Seq(Repos)
  BY DEF TypeOK
<1>2. \A i \in DOMAIN list : list[i] \in Repos
  <2> HIDE DEF Repos
  <2> QED BY <1>1
<1>3. ListedNames \subseteq Seq(Nat)
  BY <1>2 DEF ListedNames
<1>4. ASSUME NEW name \in ListedNames
      PROVE LastOf(name).path \in Paths /\ LastOf(name).tracker \in Trackers
  <2>1. PICK i \in PlacesOf(name) : LastOf(name) = list[i]
    BY <1>1, LastIsListed
  <2>2. LastOf(name) \in Repos
    BY <1>2, <2>1 DEF PlacesOf
  <2> QED BY <2>2
<1>5. Listed \subseteq [name : Seq(Nat), path : Paths, tracker : Trackers]
  BY <1>2 DEF Listed, Entry
<1>6. DOMAIN groups' = DOMAIN groups \union ListedNames
  BY DEF WriteSettings
<1>7. ASSUME NEW name \in DOMAIN groups'
      PROVE groups'[name] \in [path : Paths, tracker : Trackers]
  BY <1>4, <1>6, <1>7 DEF WriteSettings, TypeOK
<1>8. owed' \subseteq [name : Seq(Nat), path : Paths, tracker : Trackers]
  BY <1>5 DEF Rely, TypeOK
<1> QED BY <1>3, <1>6, <1>7, <1>8 DEF WriteSettings, Rely, TypeOK

LEMMA TypeStep ==
  ASSUME TypeOK, MainWindowAssumption, [Next]_vars
  PROVE  TypeOK'
<1> USE DEF TypeOK, settings, upnp, ghosts
<1>e. <<>> \in Seq([name : Seq(Nat), path : Paths, tracker : Trackers, self : Nat])
  OBVIOUS
<1>1. CASE Start
  <2>1. \A name \in Seq(Nat) \ {<<>>} : name[1] \in Nat
    OBVIOUS
  <2>2. ChildGroups \subseteq Nat
    BY <2>1 DEF ChildGroups
  <2>3. ListenPort \in Nat /\ UpnpPort \in Nat
    BY DEF ListenPort, UpnpPort, MainWindowAssumption
  <2> QED BY <1>1, <2>2, <2>3 DEF Start
<1>2. CASE ReadGroup
  <2>1. PICK part, path, tracker : part \in toRead /\ AddSynchronizer(<<part>>, path, tracker)
    BY <1>2, Zenon DEF ReadGroup
  <2>2. part \in Nat /\ <<part>> \in Seq(Nat)
    <3>1. part \in Nat
      BY <2>1
    <3> QED BY <3>1
  <2>3. /\ list' \in Seq([name : Seq(Nat), path : Paths, tracker : Trackers, self : Nat])
        /\ dirs' \in [Paths -> {"gone", "bare", "readonly", "logs"}]
    BY <2>1, <2>2, AddType, MainWindowAssumption
  <2> QED BY <1>2, <2>3 DEF ReadGroup
<1>3. CASE Listen
  BY <1>3 DEF Listen, ListenPort, MainWindowAssumption
<1>4. CASE CannotListen
  BY <1>4 DEF CannotListen
<1>5. CASE AddRepo
  <2>1. PICK name \in Names, path \in Paths, tracker \in Trackers \union {BadTracker} :
            AddSynchronizer(name, path, tracker)
    BY <1>5, Zenon DEF AddRepo
  <2>2. name \in Seq(Nat)
    BY DEF MainWindowAssumption
  <2>3. /\ list' \in Seq([name : Seq(Nat), path : Paths, tracker : Trackers, self : Nat])
        /\ dirs' \in [Paths -> {"gone", "bare", "readonly", "logs"}]
    BY <2>1, <2>2, AddType, MainWindowAssumption
  <2> QED BY <1>5, <2>3 DEF AddRepo
<1>6. CASE RemoveRepo
  <2>1. PICK i \in DOMAIN list : /\ list' = RemoveAt(list, i)
                                 /\ owed' = { r \in owed : r.name # list[i].name }
    BY <1>6 DEF RemoveRepo
  <2>2. i \in 1..Len(list)
    OBVIOUS
  <2>3. list' \in Seq([name : Seq(Nat), path : Paths, tracker : Trackers, self : Nat])
    BY <2>1, <2>2, RemoveAtKeeps
  <2> QED BY <1>6, <2>1, <2>3 DEF RemoveRepo
<1>7. CASE ChangePort
  BY <1>7 DEF ChangePort, MainWindowAssumption
<1>8. CASE Save
  <2>1. WriteSettings /\ Rely
    BY <1>8 DEF Save
  <2> QED BY <1>8, <2>1, WriteSettingsType DEF Save
<1>9. CASE Quit
  <2>1. WriteSettings /\ Rely
    BY <1>9 DEF Quit
  <2> QED BY <1>e, <1>9, <2>1, WriteSettingsType DEF Quit, Ended
<1>10. CASE Kill
  BY <1>e, <1>10 DEF Kill, Ended
<1>17. CASE AddCrashes
  BY <1>e, <1>17 DEF AddCrashes, Ended
<1>11. CASE DirChanges
  BY <1>11 DEF DirChanges
<1>12. CASE Discover
  BY <1>12 DEF Discover, MainWindowAssumption
<1>14. CASE AddPortMapping
  BY <1>14 DEF AddPortMapping
<1>15. CASE AskPortMapping \/ AskUnanswered
  BY <1>15 DEF AskPortMapping, AskUnanswered
<1>16. CASE OnPortRedirected
  BY <1>16 DEF OnPortRedirected
<1>13. CASE UNCHANGED vars
  BY <1>13 DEF vars
<1> QED
  BY <1>1, <1>2, <1>3, <1>4, <1>5, <1>6, <1>7, <1>8, <1>9, <1>10, <1>11, <1>12, <1>13,
     <1>14, <1>15, <1>16, <1>17
  DEF Next, Thread

(* The variables keep their types. *)
THEOREM TypeCorrect == Spec => []TypeOK
<1>1. Init => TypeOK
  <2> SUFFICES ASSUME Init PROVE TypeOK
    OBVIOUS
  <2>1. router \in [Ports \union {UpnpPort} -> {"nobody", "us", "other"}]
    BY DEF Init
  <2>2. groups = <<>> /\ DOMAIN groups = {}
    BY DEF Init
  <2>3. list \in Seq([name : Seq(Nat), path : Paths, tracker : Trackers, self : Nat])
    BY DEF Init
  <2>4. box \in Nat /\ mapPort \in Nat
    BY MainWindowAssumption DEF Init, MainWindowAssumption, UpnpPort
  <2> QED BY <2>1, <2>2, <2>3, <2>4 DEF Init, TypeOK
<1>2. TypeOK /\ [Next]_vars => TypeOK'
  BY TypeStep, MainWindowAssumption
<1> QED BY <1>1, <1>2, PTL DEF Spec

-----------------------------------------------------------------------------
(* The urls of the repositories.                                           *)

(* The server's port changes only while the list is read, from none.       *)
UrlInv ==
  /\ OwnUrlIsServed
  /\ pc = "off" => list = <<>>
  /\ pc # "running" => port = 0

LEMMA AddUrl ==
  ASSUME TypeOK, OwnUrlIsServed, UNCHANGED port,
         NEW name, NEW path, NEW tracker, AddSynchronizer(name, path, tracker)
  PROVE  OwnUrlIsServed'
<1> DEFINE Repos == [name : Seq(Nat), path : Paths, tracker : Trackers, self : Nat]
           r == [name |-> name, path |-> path, tracker |-> tracker, self |-> port]
<1>1. list \in Seq(Repos) /\ r.self = port
  BY DEF TypeOK
<1>2. list' = list \/ list' = Append(list, r)
  BY DEF AddSynchronizer
<1> HIDE DEF Repos, r
<1> QED BY <1>1, <1>2 DEF OwnUrlIsServed

LEMMA UrlStep ==
  ASSUME TypeOK, UrlInv, [Next]_vars
  PROVE  UrlInv'
<1>1. CASE Start
  BY <1>1 DEF Start, UrlInv, OwnUrlIsServed
<1>2. CASE ReadGroup
  <2>1. PICK part, path, tracker : AddSynchronizer(<<part>>, path, tracker)
    BY <1>2, Zenon DEF ReadGroup
  <2>2. OwnUrlIsServed'
    BY <1>2, <2>1, AddUrl DEF ReadGroup, UrlInv
  <2> QED BY <1>2, <2>2 DEF ReadGroup, UrlInv
<1>3. CASE Listen
  <2>1. OwnUrlIsServed'
    BY <1>3 DEF Listen, UrlInv, OwnUrlIsServed
  <2> QED BY <1>3, <2>1 DEF Listen, UrlInv
<1>4. CASE AddRepo
  <2>1. PICK name, path, tracker : AddSynchronizer(name, path, tracker)
    BY <1>4, Zenon DEF AddRepo
  <2>2. OwnUrlIsServed'
    BY <1>4, <2>1, AddUrl DEF AddRepo, UrlInv
  <2> QED BY <1>4, <2>2 DEF AddRepo, UrlInv
<1>5. CASE RemoveRepo
  <2> DEFINE Repos == [name : Seq(Nat), path : Paths, tracker : Trackers, self : Nat]
  <2>1. PICK i \in DOMAIN list : list' = RemoveAt(list, i)
    BY <1>5 DEF RemoveRepo
  <2>2. list \in Seq(Repos)
    BY DEF TypeOK
  <2>3. i \in 1..Len(list)
    <3> HIDE DEF Repos
    <3> QED BY <2>2
  <2>4. \A k \in DOMAIN list' : \E j \in DOMAIN list : list'[k] = list[j]
    <3> HIDE DEF Repos
    <3> QED BY <2>1, <2>2, <2>3, RemoveAtKeeps
  <2>5. OwnUrlIsServed'
    BY <1>5, <2>4 DEF RemoveRepo, UrlInv, OwnUrlIsServed
  <2> QED BY <1>5, <2>5 DEF RemoveRepo, UrlInv
<1>6. CASE Quit
  BY <1>6 DEF Quit, Ended, UrlInv, OwnUrlIsServed
<1>7. CASE Kill \/ AddCrashes
  BY <1>7 DEF Kill, AddCrashes, Ended, UrlInv, OwnUrlIsServed
<1>8. CASE UNCHANGED <<list, port, pc>>
  BY <1>8 DEF UrlInv, OwnUrlIsServed
<1>9. CASE CannotListen
  BY <1>9 DEF CannotListen, UrlInv, OwnUrlIsServed
<1> QED
  BY <1>1, <1>2, <1>3, <1>4, <1>5, <1>6, <1>7, <1>8, <1>9
  DEF Next, Thread, ChangePort, Save, DirChanges, Discover, AddPortMapping, AskPortMapping,
      AskUnanswered, OnPortRedirected, vars

(* The port in the url of a repository is the server's, or none.           *)
THEOREM OwnUrls == Spec => []OwnUrlIsServed
<1>1. Init => UrlInv
  BY DEF Init, UrlInv, OwnUrlIsServed
<1>2. TypeOK /\ UrlInv /\ [Next]_vars => UrlInv'
  BY UrlStep
<1>3. UrlInv => OwnUrlIsServed
  BY DEF UrlInv
<1> QED BY <1>1, <1>2, <1>3, TypeCorrect, PTL DEF Spec

-----------------------------------------------------------------------------
(* The port.                                                               *)

(* The settings keep the port that was chosen, and the box shows it until  *)
(* the user changes it.                                                    *)
PortInv ==
  /\ pc # "running" => port = 0
  /\ chosen >= LowestPort =>
       /\ iniPort = chosen
       /\ pc # "off" /\ ~typed => box = chosen
       /\ pc = "reading" => ~typed
       /\ pc = "running" /\ ~typed /\ port # 0 => port = chosen

LEMMA PortStep ==
  ASSUME TypeOK, PortInv, [Next]_vars
  PROVE  PortInv'
<1> USE DEF PortInv, settings, ghosts, upnp, LowestPort
<1>1. CASE Start
  BY <1>1 DEF Start, ListenPort, TypeOK
<1>2. CASE Listen
  BY <1>2 DEF Listen, ListenPort, TypeOK
<1>3. CASE CannotListen \/ ReadGroup
  BY <1>3 DEF CannotListen, ReadGroup
<1>4. CASE ChangePort
  BY <1>4 DEF ChangePort
<1>5. CASE Save
  BY <1>5 DEF Save, WriteSettings, Rely
<1>6. CASE Quit
  BY <1>6 DEF Quit, WriteSettings, Rely, Ended
<1>7. CASE Kill \/ AddCrashes
  BY <1>7 DEF Kill, AddCrashes, Ended
<1>8. CASE UNCHANGED <<pc, box, port, iniPort, typed, chosen>>
  BY <1>8
<1> QED
  BY <1>1, <1>2, <1>3, <1>4, <1>5, <1>6, <1>7, <1>8
  DEF Next, Thread, AddRepo, RemoveRepo, DirChanges, Discover, AddPortMapping,
      AskPortMapping, AskUnanswered, OnPortRedirected, vars

(* The port that the user chose is the port of every later start.          *)
THEOREM PortKept == Spec => []PortIsChosen
<1>1. Init => PortInv
  BY DEF Init, PortInv, LowestPort
<1>2. TypeOK /\ PortInv /\ [Next]_vars => PortInv'
  BY PortStep
<1>3. PortInv => PortIsChosen
  BY DEF PortInv, PortIsChosen
<1> QED BY <1>1, <1>2, <1>3, TypeCorrect, PTL DEF Spec

-----------------------------------------------------------------------------
(* The thread.                                                             *)

(* The thread works for the port on which the server listens, and what it  *)
(* was told about that port stays true.  That is one of the ports that may *)
(* be chosen, as is the port in the settings.                              *)
ThreadInv ==
  /\ box \in Ports /\ iniPort \in Ports \union {0}
  /\ redirect # "none" => /\ pc = "running"
                          /\ mapPort = port
                          /\ port \in Ports
  /\ redirect \in {"discover", "add", "ask"} => ~told /\ signal = "none" /\ label = "none"
  /\ told => /\ redirect = "done"
             /\ signal = "yes" \/ label = "yes" => router[port] # "nobody"
  /\ \A p \in Ports : router[p] = "other" => p \in Neighbours

LEMMA ThreadStep ==
  ASSUME TypeOK, ThreadInv, MainWindowAssumption, [Next]_vars
  PROVE  ThreadInv'
<1> USE DEF ThreadInv, settings, ghosts, upnp
<1>0. ListenPort \in Ports
  BY DEF ListenPort, LowestPort, MainWindowAssumption
<1>1. CASE Start
  BY <1>0, <1>1 DEF Start
<1>2. CASE Listen
  BY <1>0, <1>2 DEF Listen
<1>3. CASE CannotListen
  BY <1>3 DEF CannotListen
<1>4. CASE Quit
  BY <1>4 DEF Quit, Ended, WriteSettings
<1>5. CASE Kill \/ AddCrashes
  BY <1>5 DEF Kill, AddCrashes, Ended
<1>6. CASE Discover
  BY <1>6 DEF Discover
<1>7. CASE AddPortMapping
  <2>1. \/ router' = router
        \/ router' = [router EXCEPT ![mapPort] = "us"]
    BY <1>7 DEF AddPortMapping
  <2>2. \A p \in Ports : router'[p] = router[p] \/ router'[p] = "us"
    BY <2>1 DEF TypeOK
  <2> QED BY <1>7, <2>2 DEF AddPortMapping
<1>8. CASE AskPortMapping
  BY <1>8 DEF AskPortMapping
<1>9. CASE AskUnanswered
  BY <1>9 DEF AskUnanswered
<1>10. CASE OnPortRedirected
  BY <1>10 DEF OnPortRedirected
<1>11. CASE ChangePort \/ Save
  BY <1>11 DEF ChangePort, Save, WriteSettings
<1>12. CASE UNCHANGED <<pc, port, box, iniPort, upnp>>
  BY <1>12
<1> QED
  BY <1>1, <1>2, <1>3, <1>4, <1>5, <1>6, <1>7, <1>8, <1>9, <1>10, <1>11, <1>12
  DEF Next, Thread, ReadGroup, AddRepo, RemoveRepo, DirChanges, vars

(* What the window says of the router is true, if the router answered.     *)
THEOREM RedirectTrue == Spec => []RedirectIsTrue
<1>1. Init => ThreadInv
  BY MainWindowAssumption DEF Init, ThreadInv, MainWindowAssumption
<1>2. TypeOK /\ ThreadInv /\ [Next]_vars => ThreadInv'
  BY ThreadStep, MainWindowAssumption
<1>3. TypeOK /\ ThreadInv => RedirectIsTrue
  BY DEF ThreadInv, RedirectIsTrue, TypeOK
<1> QED BY <1>1, <1>2, <1>3, TypeCorrect, PTL DEF Spec

-----------------------------------------------------------------------------
(* The repositories that a start owes.                                     *)

(* The settings hold them as they were, in a group of their own ...        *)
OwedIsWritten ==
  \A r \in owed : /\ r.name \in DOMAIN groups /\ Len(r.name) = 1
                  /\ groups[r.name] = [path |-> r.path, tracker |-> r.tracker]

(* ... and while they are read each is in the list or still to be visited, *)
(* if its directory stays what it is.                                      *)
OwedIsRead ==
  pc = "reading" =>
    \A r \in owed : dirs[r.path] \in {"bare", "logs"} /\ r.path \notin moved =>
                     r.name[1] \in toRead \/ r \in Listed

LEMMA WriteOwed ==
  ASSUME TypeOK, OwedIsWritten, WriteSettings, Rely
  PROVE  OwedIsWritten'
<1> DEFINE Repos == [name : Seq(Nat), path : Paths, tracker : Trackers, self : Nat]
<1>1. list \in Seq(Repos)
  BY DEF TypeOK
<1>2. SUFFICES ASSUME NEW r \in owed'
      PROVE /\ r.name \in DOMAIN groups' /\ Len(r.name) = 1
            /\ groups'[r.name] = [path |-> r.path, tracker |-> r.tracker]
  BY DEF OwedIsWritten
<1>3. CASE r \in owed /\ r.name \notin ListedNames
  BY <1>3 DEF OwedIsWritten, WriteSettings
<1>4. CASE r \in Listed /\ Len(r.name) = 1 /\ Cardinality(PlacesOf(r.name)) = 1
  <2>1. PICK i \in DOMAIN list : r = Entry(list[i])
    BY <1>4 DEF Listed
  <2>2. i \in PlacesOf(r.name) /\ r.name \in ListedNames
    BY <2>1 DEF PlacesOf, ListedNames, Entry
  <2>3. PICK j \in PlacesOf(r.name) : LastOf(r.name) = list[j]
    BY <1>1, <2>2, LastIsListed
  <2>4. PlacesOf(r.name) \in SUBSET (1..Len(list))
    BY <1>1 DEF PlacesOf
  <2>5. IsFiniteSet(PlacesOf(r.name))
    <3>1. Len(list) \in Nat
      BY <1>1
    <3>2. IsFiniteSet(1..Len(list))
      BY <3>1, FS_Interval
    <3> QED BY <2>4, <3>2, FS_Subset
  <2>6. i = j
    <3>1. PICK x : PlacesOf(r.name) = {x}
      BY <1>4, <2>5, FS_Singleton
    <3> QED BY <2>2, <2>3, <3>1
  <2>7. LastOf(r.name).path = r.path /\ LastOf(r.name).tracker = r.tracker
    BY <2>1, <2>3, <2>6 DEF Entry
  <2> QED BY <1>4, <2>2, <2>7 DEF WriteSettings
<1> QED BY <1>2, <1>3, <1>4 DEF Rely

(* reading the next group leaves nothing out that is owed *)
LEMMA ReadOwed ==
  ASSUME TypeOK, MainWindowAssumption, OwedIsWritten, OwedIsRead, ReadGroup
  PROVE  OwedIsRead'
<1> DEFINE Repos == [name : Seq(Nat), path : Paths, tracker : Trackers, self : Nat]
           G(part) == IF <<part>> \in DOMAIN groups THEN groups[<<part>>]
                      ELSE [path |-> NoPath, tracker |-> BadTracker]
<1>1. PICK part \in toRead : /\ toRead' = toRead \ {part}
                            /\ AddSynchronizer(<<part>>, G(part).path, G(part).tracker)
  BY DEF ReadGroup
<1>2. list \in Seq(Repos)
  BY DEF TypeOK
<1> DEFINE entry == [name |-> <<part>>, path |-> G(part).path, tracker |-> G(part).tracker,
                     self |-> port]
<1>3. list' = list \/ list' = Append(list, entry)
  BY <1>1 DEF AddSynchronizer
<1>4. Listed \subseteq Listed'
  <2>1. \A i \in DOMAIN list : i \in DOMAIN list' /\ list'[i] = list[i]
    <3> HIDE DEF entry, Repos
    <3> QED BY <1>2, <1>3
  <2> QED BY <2>1 DEF Listed, Entry
<1>5. SUFFICES ASSUME NEW r \in owed, dirs'[r.path] \in {"bare", "logs"},
                      r.path \notin moved, r.name[1] \notin toRead'
      PROVE r \in Listed'
  BY DEF OwedIsRead, ReadGroup, ghosts
<1>6. r \in [name : Seq(Nat), path : Paths, tracker : Trackers]
  BY DEF TypeOK
<1>7. dirs[r.path] \in {"bare", "logs"}
  BY <1>1, <1>5, <1>6 DEF AddSynchronizer, TypeOK
<1>8. CASE r.name[1] \notin toRead
  BY <1>4, <1>5, <1>7, <1>8 DEF OwedIsRead, ReadGroup
<1>9. CASE r.name[1] \in toRead
  <2>1. r.name[1] = part
    BY <1>1, <1>5, <1>9
  <2>2. r.name = <<part>>
    <3>1. r.name \in Seq(Nat) /\ Len(r.name) = 1
      BY <1>6 DEF OwedIsWritten
    <3> QED BY <2>1, <3>1
  <2>3. G(part).path = r.path /\ G(part).tracker = r.tracker
    <3>1. r.name \in DOMAIN groups /\ groups[r.name] = [path |-> r.path, tracker |-> r.tracker]
      BY DEF OwedIsWritten
    <3>2. G(part) = [path |-> r.path, tracker |-> r.tracker]
      BY <2>2, <3>1, Zenon
    <3> HIDE DEF G
    <3> QED BY <3>2
  <2>4. list' = Append(list, entry)
    BY <1>1, <1>6, <1>7, <2>3 DEF AddSynchronizer, TypeOK
  <2>5. Entry(entry) = r
    BY <1>6, <2>2, <2>3 DEF Entry
  <2>6. Len(list) + 1 \in DOMAIN list' /\ list'[Len(list) + 1] = entry
    <3> HIDE DEF entry, Repos
    <3> QED BY <1>2, <2>4
  <2>7. Entry(list'[Len(list) + 1]) \in Listed'
    BY <2>6 DEF Listed, Entry
  <2> QED BY <2>5, <2>6, <2>7
<1> QED BY <1>8, <1>9

LEMMA OwedStep ==
  ASSUME TypeOK, MainWindowAssumption, OwedIsWritten, OwedIsRead, [Next]_vars
  PROVE  OwedIsWritten' /\ OwedIsRead'
<1> USE DEF settings, ghosts
<1>1. CASE Start
  <2>1. OwedIsWritten'
    BY <1>1 DEF Start, OwedIsWritten
  <2>2. ASSUME NEW r \in owed PROVE r.name[1] \in ChildGroups
    <3>1. r.name \in DOMAIN groups /\ Len(r.name) = 1
      BY DEF OwedIsWritten
    <3>2. r.name # <<>>
      <4>1. Len(<<>>) # 1
        OBVIOUS
      <4> QED BY <3>1, <4>1, Zenon
    <3> QED BY <3>1, <3>2 DEF ChildGroups
  <2> QED BY <1>1, <2>1, <2>2 DEF Start, OwedIsRead
<1>2. CASE ReadGroup
  <2>1. OwedIsWritten'
    BY <1>2 DEF ReadGroup, OwedIsWritten
  <2> QED BY <1>2, <2>1, ReadOwed
<1>3. CASE Save
  <2>1. OwedIsWritten'
    BY <1>3, WriteOwed DEF Save
  <2> QED BY <1>3, <2>1 DEF Save, OwedIsRead
<1>4. CASE Quit
  <2>1. OwedIsWritten'
    BY <1>4, WriteOwed DEF Quit
  <2> QED BY <1>4, <2>1 DEF Quit, Ended, OwedIsRead
<1>5. CASE Kill \/ AddCrashes
  BY <1>5 DEF Kill, AddCrashes, Ended, OwedIsWritten, OwedIsRead
<1>6. CASE Listen \/ CannotListen
  BY <1>6 DEF Listen, CannotListen, OwedIsWritten, OwedIsRead
<1>7. CASE RemoveRepo
  BY <1>7 DEF RemoveRepo, OwedIsWritten, OwedIsRead
<1>8. CASE AddRepo
  BY <1>8 DEF AddRepo, OwedIsWritten, OwedIsRead
<1>10. CASE DirChanges
  <2>1. PICK p \in Loose, kind \in {"gone", "bare", "readonly", "logs"} :
          /\ dirs' = [dirs EXCEPT ![p] = kind]
          /\ moved' = IF pc = "reading" THEN moved \union {p} ELSE moved
    BY <1>10 DEF DirChanges
  <2>2. pc' = pc /\ owed' = owed /\ groups' = groups /\ toRead' = toRead /\ list' = list
    BY <1>10 DEF DirChanges
  <2>3. \A r \in owed : r.path # p => dirs'[r.path] = dirs[r.path]
    BY <2>1 DEF TypeOK
  <2>4. OwedIsWritten'
    BY <2>2 DEF OwedIsWritten
  <2>5. Listed' = Listed
    BY <2>2 DEF Listed, Entry
  <2>6. OwedIsRead'
    BY <2>1, <2>2, <2>3, <2>5 DEF OwedIsRead
  <2> QED BY <2>4, <2>6
<1>9. CASE UNCHANGED <<pc, list, toRead, dirs, groups, owed, moved>>
  BY <1>9 DEF OwedIsWritten, OwedIsRead, Listed, Entry
<1> QED
  BY <1>1, <1>2, <1>3, <1>4, <1>5, <1>6, <1>7, <1>8, <1>9, <1>10
  DEF Next, Thread, ChangePort, Discover, AddPortMapping, AskPortMapping, AskUnanswered,
      OnPortRedirected, vars

(* A start restores every repository that the settings owe, whatever was   *)
(* added, removed, saved and killed before, if its directory is there.     *)
THEOREM Restored == Spec => []StartRestores
<1>1. Init => OwedIsWritten /\ OwedIsRead
  BY DEF Init, OwedIsWritten, OwedIsRead
<1>2. TypeOK /\ OwedIsWritten /\ OwedIsRead /\ [Next]_vars => OwedIsWritten' /\ OwedIsRead'
  BY OwedStep, MainWindowAssumption
<1>3. OwedIsRead => StartRestores
  BY DEF OwedIsRead, StartRestores
<1> QED BY <1>1, <1>2, <1>3, TypeCorrect, PTL DEF Spec
=============================================================================
