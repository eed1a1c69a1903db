----------------------------- MODULE HttpServer -----------------------------
(***************************************************************************)
(* One connection of the client's HTTP server: HttpServer, which makes an  *)
(* HttpController for every request that arrives on the socket, the        *)
(* controllers (httpcontroller.cpp) and the transfer of their responses    *)
(* (filetransfer.cpp).  Connections share no state but the repository, so  *)
(* one stands for all.                                                     *)
(*                                                                         *)
(* The server is one thread and signals are calls: data that arrives sets  *)
(* off readyRead, and the controller that reads goes on until it has its   *)
(* request, its response, and has sent what may be sent (pc).              *)
(*                                                                         *)
(* The peer sends the lines of its requests, cut into chunks anywhere; one *)
(* that does not pipeline waits for a response before the next request.    *)
(***************************************************************************)
EXTENDS HttpMessage, Lists, FiniteSets

CONSTANTS
  Scripts,      \* the sequences of requests that a peer may make
  Events        \* what else may happen: a subset of EventKinds

EventKinds == {"remove",      \* the user removes the repository
               "resize",      \* another program changes an indexed file
               "vanish",      \* or deletes it
               "rmdir",       \* or deletes it with its directory
               "disconnect"}  \* the peer closes the connection

Targets == {"file", "emptyfile", \* an indexed file by its name
            "listing",           \* history, commit or directory of the repository
            "unknown",           \* a commit or a fingerprint that is not there
            "nowhere",           \* a path that no route matches
            "upload"}            \* a form with files for the directory of that file

Shapes == {"plain",   \* no content
           "parts",   \* a multipart form
           "length",  \* content of a given length
           "bad"}     \* a method that is not in the pattern

(* A part of a form, with a file or not, and the kinds of its lines.  The  *)
(* boundary is none of them, and the CRLF that comes before it ends the    *)
(* last.                                                                   *)
FormParts ==
  { p \in [file : BOOLEAN, lines : Seq({"empty", "text", "textlf"})] :
      p.lines # <<>> /\ Last(p.lines) # "textlf" }

(* a request; old is HTTP/1.0 *)
Requests == [target : Targets, old : BOOLEAN, shape : Shapes, parts : Seq(FormParts)]

ASSUME HttpAssumption == Events \subseteq EventKinds /\ Scripts \subseteq Seq(Requests)

VARIABLES
  script,       \* the requests that the peer makes
  pipelines,    \* whether it sends one before the last is answered
  lines,        \* the lines it sends them in
  arrived,      \* how many of its lines have arrived
  read,         \* how many have been read from the socket
  open,         \* the socket is in m_openRequests
  ctl,          \* every controller made for the socket, in order
  controllers,  \* m_controllers[socket]: those with a response to come
  sending,      \* the rest of the list that processResponseFinished goes over
  pc,           \* "idle", "read", "action" or "send"
  out,          \* what has been written to the socket
  up,           \* the socket is "open", "closing" or "closed", or the
                \* process "dead"
  repo,         \* the repository is in the model
  disk          \* the indexed file is on the disk "same", "changed" or "gone",
                \* or there is "nodir": its directory is gone, too

input  == <<script, lines, pipelines>>
server == <<open, ctl, controllers, sending, pc, out, up>>
vars   == <<input, arrived, read, server, repo, disk>>

-----------------------------------------------------------------------------
(* What the peer sends.                                                    *)

Line(n, kind, arg) == [n |-> n, kind |-> kind, arg |-> arg]

(* the content of a part: its lines, the last of which ends with CRLF *)
PartLines(n, p) == [k \in DOMAIN p.lines |-> Line(n, p.lines[k], k)]

PartOf(n, p) ==
  <<Line(n, "boundary", 0), Line(n, IF p.file THEN "filename" ELSE "header", 0),
    Line(n, "empty", 0)>> \o PartLines(n, p)

LinesOf(r, n) ==
  CASE r.shape = "plain"  -> <<Line(n, "request", r), Line(n, "empty", 0)>>
    [] r.shape = "length" -> <<Line(n, "request", r), Line(n, "header", 0),
                               Line(n, "empty", 0), Line(n, "text", 1)>>
    [] r.shape = "bad"    -> <<Line(n, "badline", r), Line(n, "empty", 0)>>
    [] r.shape = "parts"  ->
         <<Line(n, "request", r), Line(n, "multipart", 0), Line(n, "empty", 0)>>
         \o FlattenSeq([i \in DOMAIN r.parts |-> PartOf(n, r.parts[i])])
         \o <<Line(n, "final", 0)>>

Input(requests) == FlattenSeq([n \in DOMAIN requests |-> LinesOf(requests[n], n)])

(* the characters of a part as the peer means them: the last CRLF belongs  *)
(* to the boundary                                                         *)
Sent(n, i) ==
  LET body == PartLines(n, script[n].parts[i])
  IN  Front(FlattenSeq([k \in DOMAIN body |-> Bytes(body[k])]))

Heads(n) == { k \in DOMAIN out : out[k].what = "head" /\ out[k].n = n }
Answered(n) == Heads(n) # {}

Sendable == { k \in DOMAIN lines :
                pipelines \/ \A n \in 1..(lines[k].n - 1) : Answered(n) }

-----------------------------------------------------------------------------
(* Reading.                                                                *)

NewController ==
  [state |-> "ReadingRequest", known |-> repo, msg |-> NewRequest,
   n |-> 0, request |-> [target |-> "nowhere", old |-> FALSE],
   code |-> "", source |-> ""]

Id == Len(ctl)
Reader == ctl[Id]
Reading(c) == c.state \in {"ReadingRequest", "RoutingRequest", "RoutedRequest"}

(* a faulty server that makes a controller whenever data arrives *)
ArriveAnew(k) ==
  /\ pc = "idle" /\ up = "open"
  /\ arrived < Len(lines)
  /\ k > arrived
  /\ (arrived + 1)..k \subseteq Sendable
  /\ arrived' = k
  /\ open' = TRUE
  /\ ctl' = Append(ctl, NewController)
  /\ controllers' = Append(controllers, Id + 1)
  /\ pc' = "read"
  /\ UNCHANGED <<input, read, sending, out, up, repo, disk>>

(* A chunk of lines and perhaps a part of another arrives (readyRead): a   *)
(* controller is made unless a request is being read, and whichever there  *)
(* is reads.                                                               *)
Arrive(k) ==
  /\ pc = "idle" /\ up = "open"
  /\ arrived < Len(lines)
  /\ open => k > arrived
  /\ (arrived + 1)..(IF k > arrived THEN k ELSE k + 1) \subseteq Sendable
  /\ arrived' = k
  /\ open' = TRUE
  /\ ctl' = IF open THEN ctl ELSE Append(ctl, NewController)
  /\ controllers' = IF open THEN controllers ELSE Append(controllers, Id + 1)
  /\ pc' = IF Reading(ctl'[Id']) THEN "read" ELSE "idle"
  /\ UNCHANGED <<input, read, sending, out, up, repo, disk>>

NextLine == lines[read + 1]

(* The paths that begin with the name of a repository are matched with the *)
(* names there were when the controller was made.                          *)
Routed(c) == /\ c.request.target # "nowhere"
             /\ c.request.target \in {"file", "emptyfile", "upload"} => c.known

RoutedState(c) == IF Routed(c) THEN "RoutedRequest" ELSE "RoutingRequest"

(* the controller after it has given a line to its request *)
AfterLine(c, line, opened) ==
  [c EXCEPT
     !.msg     = ParseLine(c.msg, line, opened),
     !.n       = IF c.msg.state = "ReadFirstLine" THEN line.n ELSE c.n,
     !.request = IF line.kind = "request" /\ c.msg.state = "ReadFirstLine"
                 THEN [target |-> line.arg.target, old |-> line.arg.old]
                 ELSE c.request,
     !.state   = IF EndsHeaders(c.msg, line) THEN RoutedState(c) ELSE c.state]

(* an upload needs the repository that the request was routed to, and the  *)
(* directory that its file, with .part behind the name, is opened in       *)
Opens(c) == c.state = "RoutedRequest" /\ repo
PutsFile == disk # "nodir"

(* a faulty reader that does not ask whether a whole line has arrived *)
ReadsEarly == pc = "read" /\ read < Len(lines)

Reads == pc = "read" /\ read < arrived
Complete(c) == c.msg.state \in {"Finished", "Invalid"}

ReadOn ==
  /\ Reads
  /\ ~EndsNoPart(Reader.msg, NextLine)
  /\ StartsUpload(Reader.msg, NextLine) => Opens(Reader) /\ PutsFile
  /\ LET c == AfterLine(Reader, NextLine, TRUE)
     IN  ~Complete(c) /\ ctl' = [ctl EXCEPT ![Id] = c]
  /\ read' = read + 1
  /\ UNCHANGED <<input, arrived, open, controllers, sending, pc, out, up, repo, disk>>

(* a faulty controller that does not tell the server *)
ReadLastQuietly ==
  /\ Reads
  /\ ~EndsNoPart(Reader.msg, NextLine)
  /\ LET c == AfterLine(Reader, NextLine, TRUE)
     IN  Complete(c) /\ ctl' = [ctl EXCEPT ![Id] = c]
  /\ read' = read + 1
  /\ pc' = "action"
  /\ UNCHANGED <<input, arrived, open, controllers, sending, out, up, repo, disk>>

(* The request is finished or invalid: processRequestFinished lets the     *)
(* server accept another.                                                  *)
ReadLast ==
  /\ Reads
  /\ ~EndsNoPart(Reader.msg, NextLine)
  /\ LET c == AfterLine(Reader, NextLine, TRUE)
     IN  Complete(c) /\ ctl' = [ctl EXCEPT ![Id] = c]
  /\ read' = read + 1
  /\ open' = FALSE
  /\ pc' = "action"
  /\ UNCHANGED <<input, arrived, controllers, sending, out, up, repo, disk>>

(* An upload to a repository that is not there is answered in the middle   *)
(* of the request (processUploadStarted), which is not read to its end;    *)
(* the server never learns that it is finished.                            *)
RefuseUpload ==
  /\ Reads
  /\ StartsUpload(Reader.msg, NextLine) /\ ~Opens(Reader)
  /\ ctl' = [ctl EXCEPT ![Id] = [AfterLine(Reader, NextLine, FALSE)
                                 EXCEPT !.state = "ResponseFinished",
                                        !.code = "500", !.source = "own"]]
  /\ read' = read + 1
  /\ pc' = "send"
  /\ sending' = controllers
  /\ UNCHANGED <<input, arrived, open, controllers, out, up, repo, disk>>

(* a form without parts *)
ReadNoPart ==
  /\ Reads
  /\ EndsNoPart(Reader.msg, NextLine)
  /\ up' = "dead"
  /\ pc' = "idle"
  /\ UNCHANGED <<input, arrived, read, open, ctl, controllers, sending, out, repo, disk>>

(* an upload whose file cannot be opened: putFile returns a null pointer   *)
UploadNoDir ==
  /\ Reads
  /\ StartsUpload(Reader.msg, NextLine) /\ Opens(Reader) /\ ~PutsFile
  /\ up' = "dead"
  /\ pc' = "idle"
  /\ UNCHANGED <<input, arrived, read, open, ctl, controllers, sending, out, repo, disk>>

ReadDone ==
  /\ pc = "read" /\ read = arrived
  /\ pc' = "idle"
  /\ UNCHANGED <<input, arrived, read, open, ctl, controllers, sending, out, up,
                 repo, disk>>

-----------------------------------------------------------------------------
(* Responding.                                                             *)

Targeted(c, targets) == c.request.target \in targets

(* The code of the response.  setResponse with a code and no content sends *)
(* 200 and the code as the content (httpresponse.cpp:30), so a commit or a *)
(* fingerprint that is not there gets 200.                                 *)
Code(c) ==
  CASE c.msg.state = "Invalid" \/ c.state = "RoutingRequest" -> "400"
    [] c.msg.state # "Invalid" /\ c.state = "RoutedRequest"
       /\ (repo \/ Targeted(c, {"upload"})) -> "200"
    [] OTHER -> "500"

ServesFile(c) == Code(c) = "200" /\ Targeted(c, {"file", "emptyfile"})

(* processRequestFinished makes the response, and the server goes over the *)
(* list of controllers as it is now                                        *)
Action ==
  /\ pc = "action"
  /\ ServesFile(Reader) => disk \in {"same", "changed"}
  /\ ctl' = [ctl EXCEPT ![Id].state = "ResponseFinished",
                        ![Id].code = Code(Reader),
                        ![Id].source = IF ServesFile(Reader)
                                       THEN Reader.request.target ELSE "own"]
  /\ pc' = "send"
  /\ sending' = controllers
  /\ UNCHANGED <<input, arrived, read, open, controllers, out, up, repo, disk>>

(* a file that cannot be opened is a null pointer (localdiskrepo.cpp:40) *)
ActionNoFile ==
  /\ pc = "action"
  /\ ServesFile(Reader) /\ disk \in {"gone", "nodir"}
  /\ up' = "dead"
  /\ pc' = "idle"
  /\ UNCHANGED <<input, arrived, read, open, ctl, controllers, sending, out, repo, disk>>

(* What becomes of the transfer of a response: it is "complete", an error  *)
(* that ends it ("failed"), or it never finishes because the bytes copied  *)
(* are not as many as were indexed ("partial").                            *)
Transfer(c) ==
  CASE c.source = "emptyfile" \/ up # "open" -> "failed"
    [] c.source = "file" /\ up = "open" /\ disk = "changed" -> "partial"
    [] OTHER -> "complete"

Written(c, what) == [what |-> what, n |-> c.n, code |-> c.code]

(* processResponseWritten: the controller leaves the list, and the socket  *)
(* of a HTTP/1.0 request is closed                                         *)
ResponseWritten(id) ==
  /\ controllers' = Without(controllers, {id})
  /\ up' = IF up = "open" /\ ctl[id].request.old THEN "closing" ELSE up

(* a faulty sendResponse after which the controller keeps its place *)
SendAndKeep ==
  /\ pc = "send" /\ sending # <<>>
  /\ LET c == ctl[Head(sending)]
     IN  /\ c.state = "ResponseFinished"
         /\ out' = Append(out, Written(c, "head"))
  /\ sending' = Tail(sending)
  /\ UNCHANGED <<input, arrived, read, open, ctl, controllers, pc, up, repo, disk>>

(* sendResponse: the content is copied at once, the response is written    *)
(* when that is finished, and then come the headers, unless the socket has *)
(* been closed                                                             *)
Send ==
  /\ pc = "send" /\ sending # <<>>
  /\ LET id == Head(sending)
         c  == ctl[id]
     IN  /\ c.state = "ResponseFinished"
         /\ IF Transfer(c) = "partial" THEN UNCHANGED <<controllers, up>>
                                       ELSE ResponseWritten(id)
         /\ out' = out \o (IF Transfer(c) = "failed" THEN <<>> ELSE <<Written(c, "body")>>)
                       \o (IF up' = "open" THEN <<Written(c, "head")>> ELSE <<>>)
  /\ sending' = Tail(sending)
  /\ UNCHANGED <<input, arrived, read, open, ctl, pc, repo, disk>>

(* Nothing is left to send, or the next response is not ready; the reader  *)
(* has left its loop.                                                      *)
SendDone ==
  /\ pc = "send"
  /\ sending # <<>> => ctl[Head(sending)].state # "ResponseFinished"
  /\ sending' = <<>>
  /\ pc' = "idle"
  /\ UNCHANGED <<input, arrived, read, open, ctl, controllers, out, up, repo, disk>>

(* the socket is closed, by the peer or after a HTTP/1.0 response *)
Disconnected ==
  /\ pc = "idle"
  /\ up = "closing" \/ (up = "open" /\ "disconnect" \in Events)
  /\ up' = "closed"
  /\ controllers' = <<>>
  /\ open' = FALSE
  /\ UNCHANGED <<input, arrived, read, ctl, sending, pc, out, repo, disk>>

-----------------------------------------------------------------------------
(* The user and other programs.                                            *)

RemoveRepo ==
  /\ "remove" \in Events
  /\ pc = "idle" /\ repo
  /\ repo' = FALSE
  /\ UNCHANGED <<input, arrived, read, server, disk>>

ChangeFile ==
  /\ disk = "same"
  /\ \/ "resize" \in Events /\ disk' = "changed"
     \/ "vanish" \in Events /\ disk' = "gone"
     \/ "rmdir" \in Events /\ disk' = "nodir"
  /\ UNCHANGED <<input, arrived, read, server, repo>>

Init ==
  /\ script \in Scripts
  /\ lines = Input(script)
  /\ pipelines \in BOOLEAN
  /\ arrived = 0 /\ read = 0
  /\ open = FALSE
  /\ ctl = <<>> /\ controllers = <<>> /\ sending = <<>>
  /\ pc = "idle"
  /\ out = <<>>
  /\ up = "open"
  /\ repo = TRUE
  /\ disk = "same"

Handle == \/ ReadOn \/ ReadLast \/ RefuseUpload \/ ReadNoPart \/ UploadNoDir \/ ReadDone
          \/ Action \/ ActionNoFile \/ Send \/ SendDone

Next ==
  \/ \E k \in arrived..Len(lines) : Arrive(k)
  \/ Handle \/ Disconnected \/ RemoveRepo \/ ChangeFile

Spec == Init /\ [][Next]_vars

(* The event loop runs every handler to its end; the peer sends what it    *)
(* may and the network delivers it.                                        *)
FairSpec ==
  /\ Spec
  /\ WF_vars(Handle)
  /\ WF_vars(\E k \in (arrived + 1)..Len(lines) : Arrive(k))

-----------------------------------------------------------------------------
(* Properties.                                                             *)

Controllers ==
  [state : {"ReadingRequest", "RoutingRequest", "RoutedRequest", "ResponseFinished"},
   known : BOOLEAN, msg : Messages, n : Nat,
   request : [target : Targets, old : BOOLEAN],
   code : {"", "200", "400", "500"}, source : {"", "own", "file", "emptyfile"}]

(* The variables keep their types. *)
TypeOK ==
  /\ script \in Seq(Requests) /\ pipelines \in BOOLEAN
  /\ \A k \in DOMAIN lines : lines[k].n \in DOMAIN script /\ lines[k].kind \in LineKinds
  /\ arrived \in 0..Len(lines) /\ read \in 0..arrived
  /\ open \in BOOLEAN /\ repo \in BOOLEAN
  /\ ctl \in Seq(Controllers)
  /\ controllers \in Seq(DOMAIN ctl) /\ sending \in Seq(DOMAIN ctl)
  /\ pc \in {"idle", "read", "action", "send"}
  /\ out \in Seq([what : {"body", "head"}, n : Nat, code : {"200", "400", "500"}])
  /\ up \in {"open", "closing", "closed", "dead"}
  /\ disk \in {"same", "changed", "gone", "nodir"}

(* The peer makes no request that the parser does not read to its end: one *)
(* whose content is not read, or whose first line is refused, leaves lines *)
(* that are taken for another; a form without parts ends the process.      *)
Readable ==
  \A n \in DOMAIN script :
    \/ script[n].shape = "plain"
    \/ script[n].shape = "parts" /\ script[n].parts # <<>>

(* However the requests are cut into chunks and pipelined, the lines of    *)
(* the socket go to one controller at a time, the last of the list, and    *)
(* each has the lines of a single request: none is cut short by another or *)
(* swallows a part of it (httpserver.cpp:95).                              *)
OneRequestEach ==
  /\ \A i \in DOMAIN ctl : Reading(ctl[i]) => i = Id
  /\ Readable => /\ \A i \in DOMAIN ctl : ctl[i].n \in {0, i}
                 /\ Reads => NextLine.n = Id

(* The responses come in the order of the requests, none twice and none    *)
(* missing (httpserver.cpp:124), unless a file is not the size that was    *)
(* indexed, when its transfer never finishes.                              *)
IsHead(k) == out[k].what = "head"

RepliesInOrder ==
  Readable /\ disk # "changed" =>
    \A k \in DOMAIN out : IsHead(k) =>
      { out[l].n : l \in { l \in 1..(k - 1) : IsHead(l) } } = 1..(out[k].n - 1)

(* What is written to the device of a part: of a file, the QFile that      *)
(* putFile opened under the name with .part behind it, which nothing       *)
(* flushes, closes or renames when the part is finished.                   *)
OnDevice(c, i) == c.msg.parts[i].content

(* Whatever the parts of a form hold, what is written to the device of     *)
(* each is one CRLF and then exactly what was sent in it: no line is lost, *)
(* goes to another part or is taken for a boundary.                        *)
WrittenAsSent ==
  \A id \in DOMAIN ctl : ctl[id].msg.state = "Finished" =>
    \A i \in DOMAIN ctl[id].msg.parts :
      OnDevice(ctl[id], i) = <<CRLF>> \o Sent(ctl[id].n, i)

(* A peer that waits for each response, and whose requests the parser      *)
(* reads to their end, gets a response to every one, unless the connection *)
(* ends, the repository is removed, or its file or directory changed.      *)
Undisturbed == [](repo /\ disk = "same")
AllAnswered == <>(up # "open" \/ \A n \in DOMAIN script : Answered(n))

Served == Readable /\ ~pipelines /\ Undisturbed => AllAnswered
=============================================================================
