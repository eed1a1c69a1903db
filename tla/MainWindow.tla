----------------------------- MODULE MainWindow -----------------------------
(***************************************************************************)
(* The window (mainwindow.cpp), its list of repositories (repomodel.cpp),  *)
(* its settings, the port it listens on, and the thread that asks the      *)
(* router to redirect that port (upnpwrapper.cpp).                         *)
(*                                                                         *)
(* The program is started, used, and ended or killed, several times.  A    *)
(* start reads the settings, one repository per step, and then listens.    *)
(* The user does in any order what the window offers, while the thread     *)
(* works and the directories of the repositories come and go.              *)
(*                                                                         *)
(* A name is the sequence of its parts between slashes, since the settings *)
(* make a group of each part: a name with a slash is a group in a group,   *)
(* and an empty name is no group at all.  A part is a number, its rank in  *)
(* the alphabet.  Settings that are written are on the disk at once: the   *)
(* box that follows the button runs the event loop, which saves them, and  *)
(* the end of the window deletes the object that holds them.               *)
(***************************************************************************)
EXTENDS Integers, Sequences, FiniteSets, SequencesExt

CONSTANTS
  Names,        \* the names a user may give to a repository
  Paths,        \* the directories a user may choose
  NoPath,       \* the empty path
  Trackers,     \* the valid tracker urls
  BadTracker,   \* one that is not valid
  Ports,        \* the ports the user may choose
  DefaultPort,  \* 22335
  Taken,        \* the ports that other programs may listen on
  Neighbours,   \* the ports the router may redirect to another host
  Routers,      \* whether there is a router that answers: a subset of BOOLEAN
  Loose,        \* bound: the directories that come and go
  MaxStarts,    \* bound: the number of starts
  MaxAdds,      \* bound: the number of repositories that are added
  ThreadAlone   \* bound: the thread works only where there are no repositories

LowestPort == 1001   \* the settings are not followed below it
UpnpPort == 6789     \* the port of the thread until it is told another

(* a repository as the user entered it *)
Entries == [name : Names, path : Paths, tracker : Trackers]

ASSUME MainWindowAssumption ==
  /\ Names \subseteq Seq(Nat)
  /\ NoPath \notin Paths
  /\ BadTracker \notin Trackers
  /\ Ports \subseteq Nat \ {0} /\ DefaultPort \in Ports
  /\ Taken \subseteq Ports /\ Neighbours \subseteq Ports /\ Loose \subseteq Paths
  /\ Routers \subseteq BOOLEAN
  /\ MaxStarts \in Nat /\ MaxAdds \in Nat
  /\ ThreadAlone \in BOOLEAN

VARIABLES
  pc,        \* "off", "reading" the settings, or "running"
  toRead,    \* the groups that readSettings has still to visit
  list,      \* m_list: the repositories; their own url has the port "self"
  box,       \* the value of the spin box
  port,      \* serverPort: 0 while the server does not listen
  iniPort,   \* "listen_port" in the settings, 0 while it is not there
  groups,    \* the path and the tracker in the group of each name
  dirs,      \* each directory: "gone", "bare", "readonly" or with "logs"
  redirect,  \* the thread: "none", "discover", "add", "ask" or "done"
  mapPort,   \* m_port of the thread
  igd,       \* a router was found
  told,      \* it answered to whom it redirects the port
  signal,    \* the portRedirected that is queued: "none", "yes" or "no"
  label,     \* the status in the window: "none", "yes" or "no"
  router,    \* where the router sends each port: "nobody", "us" or "other"
  owed,      \* for the properties: the repositories that a start owes
  typed,     \* ... the user has changed the box since the start
  chosen,    \* ... the port the user chose and saved, or 0
  moved,     \* ... the directories that came or went while the settings were
             \* read
  starts,    \* how many starts there have been
  adds       \* how many repositories were added, or at most could be

settings == <<iniPort, groups>>
upnp == <<redirect, mapPort, igd, told, signal, label, router>>
ghosts == <<owed, typed, chosen, moved>>
vars == <<pc, toRead, list, box, port, settings, dirs, upnp, ghosts, starts, adds>>

PlacesOf(name) == { i \in DOMAIN list : list[i].name = name }
ListedNames == { list[i].name : i \in DOMAIN list }

(* the one of a name that is written last *)
LastOf(name) == list[CHOOSE i \in PlacesOf(name) : \A j \in PlacesOf(name) : j <= i]

Entry(r) == [name |-> r.name, path |-> r.path, tracker |-> r.tracker]
Listed == { Entry(list[i]) : i \in DOMAIN list }

-----------------------------------------------------------------------------
(* A start.                                                                *)

(* what readSettings makes of the port *)
ListenPort == IF iniPort < LowestPort THEN DefaultPort ELSE iniPort

(* childGroups: the groups directly under "repos" *)
ChildGroups == { name[1] : name \in DOMAIN groups \ {<<>>} }

(* a faulty start that does not show the port it read *)
StartUnshown ==
  /\ pc = "off" /\ starts < MaxStarts
  /\ pc' = "reading"
  /\ box' = DefaultPort
  /\ toRead' = ChildGroups
  /\ mapPort' = UpnpPort
  /\ starts' = starts + 1
  /\ typed' = FALSE /\ moved' = {}
  /\ UNCHANGED <<list, port, settings, dirs, redirect, igd, told, signal, label, router,
                 owed, chosen, adds>>

Start ==
  /\ pc = "off" /\ starts < MaxStarts
  /\ pc' = "reading"
  /\ box' = ListenPort
  /\ toRead' = ChildGroups
  /\ mapPort' = UpnpPort
  /\ starts' = starts + 1
  /\ typed' = FALSE /\ moved' = {}
  /\ UNCHANGED <<list, port, settings, dirs, redirect, igd, told, signal, label, router,
                 owed, chosen, adds>>

(* a faulty addSynchronizer that takes the port from the box *)
AddWithBoxPort(name, path, tracker) ==
  LET initialized == IF path \in Paths /\ dirs[path] = "bare" THEN [dirs EXCEPT ![path] = "logs"]
                                                               ELSE dirs
      ready == path \in Paths /\ initialized[path] = "logs" /\ tracker \in Trackers
  IN  /\ dirs' = initialized
      /\ list' = IF ready THEN Append(list, [name |-> name, path |-> path, tracker |-> tracker,
                                             self |-> box])
                          ELSE list

(* a faulty one that does not ask whether the repository is ready *)
AddUnready(name, path, tracker) ==
  /\ dirs' = IF path \in Paths /\ dirs[path] = "bare" THEN [dirs EXCEPT ![path] = "logs"]
                                                       ELSE dirs
  /\ list' = Append(list, [name |-> name, path |-> path, tracker |-> tracker, self |-> port])

(* addSynchronizer makes the directory of the logs, if it can, before it   *)
(* looks at the tracker; the server tells its port                         *)
AddSynchronizer(name, path, tracker) ==
  LET initialized == IF path \in Paths /\ dirs[path] = "bare" THEN [dirs EXCEPT ![path] = "logs"]
                                                               ELSE dirs
      ready == path \in Paths /\ initialized[path] = "logs" /\ tracker \in Trackers
  IN  /\ dirs' = initialized
      /\ list' = IF ready THEN Append(list, [name |-> name, path |-> path, tracker |-> tracker,
                                             self |-> port])
                          ELSE list

(* the next group, in the order of the alphabet; one that only holds other *)
(* groups has no path                                                      *)
ReadGroup ==
  /\ pc = "reading"
  /\ \E part \in toRead :
       /\ \A other \in toRead : part <= other
       /\ toRead' = toRead \ {part}
       /\ LET g == IF <<part>> \in DOMAIN groups THEN groups[<<part>>]
                   ELSE [path |-> NoPath, tracker |-> BadTracker]
          IN  AddSynchronizer(<<part>>, g.path, g.tracker)
  /\ UNCHANGED <<pc, box, port, settings, upnp, ghosts, starts, adds>>

(* a faulty one that starts the thread before it tells it the port *)
ListenLate ==
  /\ pc = "reading" /\ toRead = {}
  /\ pc' = "running"
  /\ port' = ListenPort
  /\ redirect' = "discover"
  /\ mapPort' \in {ListenPort, UpnpPort}
  /\ igd' = FALSE /\ told' = FALSE /\ signal' = "none" /\ label' = "none"
  /\ UNCHANGED <<toRead, list, box, settings, dirs, router, ghosts, starts, adds>>

(* listenOnPort *)
Listen ==
  /\ pc = "reading" /\ toRead = {}
  /\ pc' = "running"
  /\ port' = ListenPort
  /\ redirect' = "discover"
  /\ mapPort' = ListenPort
  /\ igd' = FALSE /\ told' = FALSE /\ signal' = "none" /\ label' = "none"
  /\ UNCHANGED <<toRead, list, box, settings, dirs, router, ghosts, starts, adds>>

(* another program listens there: the window is told to close, but it has  *)
(* not been shown and the event loop has not begun, so it stays            *)
CannotListen ==
  /\ pc = "reading" /\ toRead = {}
  /\ ListenPort \in Taken
  /\ pc' = "running"
  /\ redirect' = "none" /\ signal' = "none" /\ label' = "none"
  /\ UNCHANGED <<toRead, list, box, port, settings, dirs, mapPort, igd, told, router,
                 ghosts, starts, adds>>

-----------------------------------------------------------------------------
(* What the user does.                                                     *)

AddRepo ==
  /\ pc = "running" /\ adds < MaxAdds
  /\ adds' = adds + 1
  /\ \E name \in Names, path \in Paths, tracker \in Trackers \union {BadTracker} :
       AddSynchronizer(name, path, tracker)
  /\ UNCHANGED <<pc, toRead, box, port, settings, upnp, ghosts, starts>>

RemoveRepo ==
  /\ pc = "running"
  /\ \E i \in DOMAIN list :
       /\ list' = RemoveAt(list, i)
       /\ owed' = { r \in owed : r.name # list[i].name }
  /\ UNCHANGED <<pc, toRead, box, port, settings, dirs, upnp, typed, chosen, moved, starts,
                 adds>>

ChangePort ==
  /\ pc = "running"
  /\ box' \in Ports
  /\ typed' = TRUE
  /\ UNCHANGED <<pc, toRead, list, port, settings, dirs, upnp, owed, chosen, moved, starts, adds>>

(* a faulty writeSettings that first empties the groups *)
WriteOnlyListed ==
  /\ iniPort' = box
  /\ groups' = [name \in ListedNames |->
                  [path |-> LastOf(name).path, tracker |-> LastOf(name).tracker]]

(* writeSettings: a group for each repository; other groups are left *)
WriteSettings ==
  /\ iniPort' = box
  /\ groups' = [name \in DOMAIN groups \union ListedNames |->
                  IF name \in ListedNames
                  THEN [path |-> LastOf(name).path, tracker |-> LastOf(name).tracker]
                  ELSE groups[name]]

(* From then on a user relies on the repositories whose name is their own  *)
(* and has no slash, and on the port that was typed.                       *)
Rely ==
  /\ owed' = { r \in owed : r.name \notin ListedNames } \union
             { r \in Listed : Len(r.name) = 1 /\ Cardinality(PlacesOf(r.name)) = 1 }
  /\ chosen' = IF typed THEN box ELSE chosen

Save ==
  /\ pc = "running"
  /\ WriteSettings /\ Rely
  /\ UNCHANGED <<pc, toRead, list, box, port, dirs, upnp, typed, moved, starts, adds>>

(* nothing is left of the process; what the router redirects stays *)
Ended ==
  /\ pc' = "off"
  /\ list' = <<>> /\ toRead' = {} /\ port' = 0
  /\ redirect' = "none" /\ igd' = FALSE /\ told' = FALSE /\ signal' = "none" /\ label' = "none"
  /\ UNCHANGED <<box, dirs, mapPort, router, typed, moved, starts, adds>>

(* the destructor of the window *)
Quit ==
  /\ pc = "running"
  /\ WriteSettings /\ Rely
  /\ Ended

Kill ==
  /\ pc # "off"
  /\ Ended
  /\ UNCHANGED <<settings, owed, chosen>>

(* a directory is unmounted, mounted, or made anew, also while the box of  *)
(* a repository that could not be read is open                             *)
DirChanges ==
  /\ \E p \in Loose, kind \in {"gone", "bare", "readonly", "logs"} :
       /\ dirs' = [dirs EXCEPT ![p] = kind]
       /\ moved' = IF pc = "reading" THEN moved \union {p} ELSE moved
  /\ UNCHANGED <<pc, toRead, list, box, port, settings, upnp, owed, typed, chosen, starts, adds>>

-----------------------------------------------------------------------------
(* The thread.  Its results are not looked at: each step is followed by    *)
(* the next.  It shares only the port with the rest, so that small         *)
(* instances may follow it where there are no repositories and none can be *)
(* added.                                                                  *)

Followed == ThreadAlone => adds = MaxAdds /\ list = <<>> /\ groups = <<>>

Discover ==
  /\ redirect = "discover" /\ Followed
  /\ igd' \in Routers
  /\ redirect' = "add"
  /\ UNCHANGED <<pc, toRead, list, box, port, settings, dirs, mapPort, told, signal, label,
                 router, ghosts, starts, adds>>

(* the router redirects a port that is not another host's, or fails *)
AddPortMapping ==
  /\ redirect = "add" /\ igd
  /\ redirect' = "ask"
  /\ router' \in {router} \union
                 (IF router[mapPort] = "other" THEN {} ELSE {[router EXCEPT ![mapPort] = "us"]})
  /\ UNCHANGED <<pc, toRead, list, box, port, settings, dirs, mapPort, igd, told, signal,
                 label, ghosts, starts, adds>>

(* it tells to whom it redirects the port, and a name that is not empty is *)
(* taken for success                                                       *)
AskPortMapping ==
  /\ redirect = "ask"
  /\ redirect' = "done"
  /\ told' = TRUE
  /\ signal' = IF router[mapPort] = "nobody" THEN "no" ELSE "yes"
  /\ UNCHANGED <<pc, toRead, list, box, port, settings, dirs, mapPort, igd, label, router,
                 ghosts, starts, adds>>

(* without an answer the name was never set, nor are the urls without a    *)
(* router: the thread gets through with whatever they hold ...             *)
AskUnanswered ==
  /\ redirect = "ask" \/ (redirect = "add" /\ ~igd)
  /\ redirect' = "done"
  /\ signal' \in {"yes", "no"}
  /\ UNCHANGED <<pc, toRead, list, box, port, settings, dirs, mapPort, igd, told, label,
                 router, ghosts, starts, adds>>

(* ... or ends the process *)
AddCrashes ==
  /\ redirect = "add" /\ ~igd
  /\ Ended
  /\ UNCHANGED <<settings, owed, chosen>>

OnPortRedirected ==
  /\ pc = "running" /\ signal # "none"
  /\ signal' = "none"
  /\ label' = signal
  /\ UNCHANGED <<pc, toRead, list, box, port, settings, dirs, redirect, mapPort, igd, told,
                 router, ghosts, starts, adds>>

Thread == Discover \/ AddPortMapping \/ AskPortMapping \/ AskUnanswered \/ AddCrashes

-----------------------------------------------------------------------------
Init ==
  /\ pc = "off" /\ toRead = {} /\ list = <<>>
  /\ box = DefaultPort /\ port = 0
  /\ iniPort = 0 /\ groups = <<>>
  /\ dirs \in [Paths -> {"gone", "bare"}]
  /\ redirect = "none" /\ mapPort = UpnpPort /\ igd = FALSE /\ told = FALSE
  /\ signal = "none" /\ label = "none"
  /\ router \in { [p \in Ports \union {UpnpPort} |-> IF p \in held THEN "other" ELSE "nobody"] :
                  held \in SUBSET Neighbours }
  /\ owed = {} /\ typed = FALSE /\ chosen = 0 /\ moved = {}
  /\ starts = 0 /\ adds \in {0, MaxAdds}

Next ==
  \/ Start \/ ReadGroup \/ Listen \/ CannotListen
  \/ AddRepo \/ RemoveRepo \/ ChangePort \/ Save \/ Quit \/ Kill
  \/ DirChanges \/ Thread \/ OnPortRedirected

Spec == Init /\ [][Next]_vars

-----------------------------------------------------------------------------
(* Properties.                                                             *)

(* The variables keep their types. *)
TypeOK ==
  /\ pc \in {"off", "reading", "running"}
  /\ toRead \subseteq Nat
  /\ list \in Seq([name : Seq(Nat), path : Paths, tracker : Trackers, self : Nat])
  /\ box \in Nat /\ port \in Nat /\ iniPort \in Nat
  /\ DOMAIN groups \subseteq Seq(Nat)
  /\ \A name \in DOMAIN groups : groups[name] \in [path : Paths, tracker : Trackers]
  /\ dirs \in [Paths -> {"gone", "bare", "readonly", "logs"}]
  /\ redirect \in {"none", "discover", "add", "ask", "done"}
  /\ mapPort \in Nat /\ igd \in BOOLEAN /\ told \in BOOLEAN
  /\ signal \in {"none", "yes", "no"} /\ label \in {"none", "yes", "no"}
  /\ router \in [Ports \union {UpnpPort} -> {"nobody", "us", "other"}]
  /\ owed \subseteq [name : Seq(Nat), path : Paths, tracker : Trackers]
  /\ typed \in BOOLEAN /\ chosen \in Nat /\ moved \subseteq Paths

(* A start restores every repository that was in the list when the         *)
(* settings were last written and has not been removed since, as it was,   *)
(* also one whose directory was away at starts in between - if its         *)
(* directory is there throughout and its name is its own and has no slash. *)
StartRestores ==
  pc = "reading" /\ toRead = {} =>
    \A r \in owed : dirs[r.path] = "logs" /\ r.path \notin moved => r \in Listed

(* The port that the user typed and saved is the one a later start listens *)
(* on, however many starts and saves of other things come in between - if  *)
(* it is above 1000 and no other program has it.                           *)
PortIsChosen ==
  pc = "running" /\ ~typed /\ port # 0 /\ chosen >= LowestPort => port = chosen

(* The url of a repository that is shown, and sent to the tracker, has the *)
(* port on which the server listens or, for one that was read from the     *)
(* settings before the server listened, no port.                           *)
OwnUrlIsServed == \A i \in DOMAIN list : list[i].self \in {0, port}

(* When the window says that the port was redirected, and a router did     *)
(* answer, then it redirects the server's port, to this host if to no      *)
(* other, although no step of the thread looks at the result of another.   *)
RedirectIsTrue ==
  label = "yes" /\ told => /\ router[port] # "nobody"
                           /\ port \notin Neighbours => router[port] = "us"
=============================================================================
