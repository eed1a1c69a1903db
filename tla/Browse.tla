------------------------------- MODULE Browse -------------------------------
(***************************************************************************)
(* The pages that a client serves to a browser: what of the index a page   *)
(* shows (state.cpp), the links on it (httpview.cpp), and what comes of a  *)
(* url, by the routes of the controller (httpcontroller.cpp).              *)
(*                                                                         *)
(* A visitor follows the links of a page that he opened some time before,  *)
(* while repositories come and go and their indexes change.                *)
(*                                                                         *)
(* A path or a url is the sequence of its parts between slashes.  The      *)
(* first slash of a url is left out: "/" is <<"">>, as is the empty path,  *)
(* and "/r/d/" is <<"r", "d", "">>.  Of the characters of a part the model *)
(* keeps those that one of the patterns excludes, or that end the path of  *)
(* a url, and the space at its end; "+" stands for any other character     *)
(* that means something in a pattern, and "wide" for one that toAscii      *)
(* loses; the rest are letters and digits.  A repository has any name that *)
(* has neither a slash nor a parenthesis and whose pattern takes no slash. *)
(***************************************************************************)
EXTENDS Lists, Integers, Sequences, FiniteSets, SequencesExt

CONSTANTS
  Special,    \* the special characters of each part of a path
  Kept,       \* what is left of a part if it is cut at "?" or "#", or trimmed
  Narrow,     \* what toAscii makes of a part
  Words,      \* the parts that are a word
  Shas,       \* ... and are 40 letters long
  Names,      \* the names that a repository may have
  Pattern,    \* what the pattern takes that is made of a set of names
  Indexes,    \* the sets of files that an index may have
  Typed,      \* the urls that a visitor may type
  Uploads,    \* the names of the files that a form may send
  Directories, \* the directories that other programs make and remove: each
              \* the name of a repository and a path in it
  MaxRepos    \* bound: the number of repositories

Segments == DOMAIN Special
Actions == {"browse", "commit", "favicon.ico", "file", "history", "ping"}
EmptyPath == <<"">>

Urls == Seq(Segments) \ {<<>>}

ASSUME BrowseAssumption ==
  /\ Special \in [Segments -> SUBSET {"?", "*", "\\", ":", ";", "{", "}", "#", " ", "+", "wide"}]
  /\ Kept \in [{ part \in Segments : Special[part] \intersect {"?", "#", " "} # {} } -> Segments]
  /\ Narrow \in [Segments -> Segments]
  /\ \A part \in Segments :
       IF "wide" \in Special[part]
       THEN Special[Narrow[part]] = (Special[part] \ {"wide"}) \union {"?"}
       ELSE Narrow[part] = part
  /\ Shas \subseteq Words /\ Words \subseteq Segments
  /\ Uploads \subseteq Segments \ {""}
  /\ Actions \union {""} \subseteq Segments /\ Special[""] = {} /\ "" \notin Words
  /\ Names \subseteq Segments
  /\ Pattern \in [SUBSET Names -> SUBSET Segments] /\ Pattern[{}] = {""}
  /\ \A names \in SUBSET Names :
       (\A name \in names : Special[name] \intersect {"?", "*", "\\", "{", "}", "+"} = {}) =>
         names = {} \/ Pattern[names] = names
  /\ Typed \subseteq Urls
  /\ \A files \in Indexes : /\ files \subseteq Seq(Segments \ {""}) \ {<<>>}
                            \* no file is a directory of another
                            /\ \A p, q \in files : ~IsStrictPrefix(p, q)
  /\ Directories \subseteq Names \X Seq(Segments \ {""})
  /\ MaxRepos \in Nat

VARIABLES
  list,   \* RepoModel: the repositories, each with its name and its index
  page,   \* the last answer to the visitor
  dirs    \* the directories that are on the disk

browseVars == <<list, page, dirs>>

Has(part, chars) == Special[part] \intersect chars # {}

(* toAscii, of a path or a url *)
Narrowed(path) == [n \in DOMAIN path |-> Narrow[path[n]]]

(* empty parts of a path are nothing to the disk *)
OnDisk(path) == Without(path, {""})

-----------------------------------------------------------------------------
(* What an index tells of a directory.                                     *)

(* a faulty filesInDir whose pattern has no slash before the name if the   *)
(* directory is that of the repository, and none at its end otherwise      *)
FilesBelow(files, dir) ==
  { p \in files : IF dir = EmptyPath THEN Len(p) = 1 ELSE Len(p) = 2 /\ p[1] = dir[1] }

(* "^dir/([^/?*\\]+)": with the empty path a pattern that no file matches *)
FilesInDir(files, dir) ==
  { p \in files : Front(p) = dir /\ ~Has(Last(p), {"?", "*", "\\"}) }

SubDirectories(files, dir) ==
  LET above == IF dir = EmptyPath THEN <<>> ELSE dir
  IN  { d \in Segments : /\ \E p \in files : IsStrictPrefix(Append(above, d), p)
                         /\ ~Has(d, {"?", "*", "\\", ":", ";", "{", "}"}) }

-----------------------------------------------------------------------------
(* The pages.                                                              *)

Below(dir, part) == IF dir = EmptyPath THEN <<part>> ELSE Append(dir, part)

(* a link, what it is to, and its url, which is narrowed with the page     *)
LinkToBrowse(repo, dir) ==
  [to |-> "page", repo |-> repo, path |-> dir, url |-> Narrowed(<<repo>> \o dir)]

LinkToFile(repo, path) ==
  [to |-> "file", repo |-> repo, path |-> path, url |-> Narrowed(<<repo>> \o path)]

BreadCrumb(repo, dir) ==
  { LinkToBrowse(repo, d) :
      d \in {EmptyPath} \union { SubSeq(dir, 1, n) : n \in DOMAIN dir } }

Answers(kind, repo, path, links) ==
  [kind |-> kind, repo |-> repo, path |-> path, links |-> links]

Page(repo, dir, files) ==
  Answers("page", repo, dir,
          BreadCrumb(repo, dir)
          \union { LinkToBrowse(repo, Below(dir, d)) : d \in SubDirectories(files, dir) }
          \union { LinkToFile(repo, p) : p \in FilesInDir(files, dir) })

(* a faulty form that forgets the directory *)
FormUrlOfRepo(repo, dir) == Narrowed(<<repo>>)

(* where the form on a page sends its files *)
FormUrl(repo, dir) == Narrowed(<<repo>> \o dir)

-----------------------------------------------------------------------------
(* The routes.                                                             *)

ListedNames == { list[i].name : i \in DOMAIN list }

(* RepoModel::get, the first repository with a name *)
FilesOf(name) ==
  list[CHOOSE i \in DOMAIN list : /\ list[i].name = name
                                  /\ \A j \in 1..(i - 1) : list[j].name # name].files

(* QUrl::path *)
UriPath(url) ==
  LET cuts == { n \in DOMAIN url : Has(url[n], {"?", "#"}) }
  IN  IF cuts = {} THEN url
      ELSE LET n == CHOOSE i \in cuts : \A j \in cuts : i <= j
           IN  Append(SubSeq(url, 1, n - 1), Kept[url[n]])

(* a faulty cleanPath that takes the last part off whatever it is *)
CleanEnd(rest) == IF rest = <<>> \/ Last(rest) = "" THEN Front(rest) ELSE rest

(* cleanPath, of what follows the name of the repository *)
CleanPath(rest) ==
  LET last    == IF Has(Last(rest), {" "}) THEN Kept[Last(rest)] ELSE Last(rest)
      trimmed == IF rest = <<>> THEN EmptyPath ELSE Append(Front(rest), last)
  IN  IF Len(trimmed) > 1 /\ Last(trimmed) = "" THEN Front(trimmed) ELSE trimmed

(* "naked" is the pattern of the names that are in the list, as they are;  *)
(* without any it matches the url of the root                              *)
Matches(route, path) ==
  LET called(action) == path[1] = action /\ Len(path) > 1 /\ path[2] \in Words
  IN  CASE route = "browse"  -> called("browse")
        [] route = "ping"    -> called("ping")
        [] route = "history" -> called("history") /\ Tail(Tail(path)) \in {<<>>, EmptyPath}
        [] route = "commit"  -> /\ called("commit") /\ Len(path) = 3 /\ path[3] # ""
                                /\ ~Has(path[3], {"?", "*", ";", "{", "}", "\\"})
        [] route = "file"    -> /\ called("file") /\ Len(path) > 3 /\ path[3] \in Shas
                                /\ SubSeq(path, 4, Len(path)) # EmptyPath
                                /\ \A n \in 4..Len(path) :
                                     ~Has(path[n], {"?", "*", ":", ";", "{", "}", "\\"})
        [] route = "favicon" -> path = <<"favicon.ico">>
        [] route = "naked"   -> path[1] \in Pattern[ListedNames]
        [] route = "root"    -> path = EmptyPath

(* a faulty list of routes, in the order in which they are set up *)
RoutesAsSet == <<"root", "favicon", "file", "history", "commit", "browse", "ping", "naked">>

(* the keys of a QMap in their order, of which the first that matches is   *)
(* taken                                                                   *)
Routes == <<"browse", "commit", "favicon", "file", "history", "naked", "ping", "root">>

RouteRequest(path) ==
  LET matching == { n \in DOMAIN Routes : Matches(Routes[n], path) }
  IN  IF matching = {} THEN "none"
      ELSE Routes[CHOOSE n \in matching : \A k \in matching : n <= k]

(* the repository and the path that a route takes from a url *)
Params(route, path) ==
  LET Of(repo, rest) == [repo |-> Narrow[repo], path |-> CleanPath(Narrowed(rest))]
  IN  CASE route = "naked"  -> Of(path[1], Tail(path))
        [] route = "browse" -> Of(path[2], Tail(Tail(path)))
        [] route = "file"   -> Of(path[2], SubSeq(path, IF path[4] = "" THEN 5 ELSE 4, Len(path)))
        [] route \in {"history", "commit", "ping"} -> [repo |-> Narrow[path[2]], path |-> EmptyPath]
        [] OTHER -> [repo |-> "", path |-> EmptyPath]

RootPage ==
  Answers("root", "", EmptyPath,
          { [to |-> "page", repo |-> name, path |-> EmptyPath, url |-> Narrowed(<<name>>)] :
            name \in ListedNames })

Error == Answers("error", "", EmptyPath, {})

(* what is answered to a GET; the other routes and what they send are in   *)
(* HttpServer                                                              *)
Answer(url) ==
  LET path   == UriPath(url)
      route  == RouteRequest(path)
      params == Params(route, path)
  IN  CASE route = "root" -> RootPage
        [] route = "none" -> Error
        [] route \in {"browse", "naked"} ->
             IF params.repo \notin ListedNames THEN Error
             ELSE IF route = "naked" /\ params.path \in FilesOf(params.repo)
             THEN Answers("file", params.repo, params.path, {})
             ELSE Page(params.repo, params.path, FilesOf(params.repo))
        [] OTHER -> Answers("other", "", EmptyPath, {})

(* processUploadStarted: what becomes of a file that is posted to a url;   *)
(* it is written to name.part in its directory, and if that is not there   *)
(* the process dies                                                        *)
UploadTo(url, name) ==
  LET path   == UriPath(url)
      params == Params(RouteRequest(path), path)
      Is(what, file) == [kind |-> what, repo |-> params.repo, path |-> file]
  IN  IF params.repo \notin ListedNames THEN Is("refused", <<>>)
      ELSE IF <<params.repo, OnDisk(params.path)>> \notin dirs THEN Is("dead", <<>>)
      ELSE Is("written", OnDisk(Append(params.path, name)))

-----------------------------------------------------------------------------
BrowseInit == list = <<>> /\ page = RootPage /\ dirs \in SUBSET Directories

Visit ==
  /\ \E url \in Typed : page' = Answer(url)
  /\ UNCHANGED <<list, dirs>>

Follow ==
  /\ \E link \in page.links : page' = Answer(link.url)
  /\ UNCHANGED <<list, dirs>>

InsertRepo ==
  /\ Len(list) < MaxRepos
  /\ \E name \in Names, files \in Indexes :
       list' = Append(list, [name |-> name, files |-> files])
  /\ UNCHANGED <<page, dirs>>

DropRepo ==
  /\ \E i \in DOMAIN list : list' = RemoveAt(list, i)
  /\ UNCHANGED <<page, dirs>>

(* a diff is performed on the index *)
Change ==
  /\ \E i \in DOMAIN list, files \in Indexes : list' = [list EXCEPT ![i].files = files]
  /\ UNCHANGED <<page, dirs>>

(* other programs make and remove directories *)
ChangeDisk ==
  /\ dirs' \in SUBSET Directories
  /\ UNCHANGED <<list, page>>

BrowseNext == Visit \/ Follow \/ InsertRepo \/ DropRepo \/ Change \/ ChangeDisk

BrowseSpec == BrowseInit /\ [][BrowseNext]_browseVars

-----------------------------------------------------------------------------
(* Properties.                                                             *)

(* The variables keep their types. *)
BrowseTypeOK ==
  /\ list \in Seq([name : Names, files : Indexes]) /\ Len(list) <= MaxRepos
  /\ page.kind \in {"root", "page", "file", "other", "error"}
  /\ page.repo \in Names \union {""}
  /\ page.path \in Urls
  /\ \A link \in page.links : link.path \in Urls /\ link.url \in Urls
  /\ dirs \subseteq Directories

(* the actions that are asked before the names of the repositories *)
Shadowing == Actions \ {"ping"}

(* A url is followed as it is unless it is cut or trimmed, or may be taken *)
(* for that of an action.                                                  *)
Followed(url) ==
  /\ \A n \in DOMAIN url : ~Has(url[n], {"?", "#"})
  /\ ~Has(Last(url), {" "})
  /\ url[1] \notin Shadowing

(* The repositories that the route with their names leads to: the pattern  *)
(* of the list takes the name as it is written.                            *)
NakedNames == { name \in ListedNames : name \in Pattern[ListedNames] }

(* A link whose url can be followed leads, from a page as old as it may    *)
(* be, to the directory or the file that it names, if that is still there  *)
(* and the pattern of the names takes its repository; and whatever the     *)
(* names are, to no other file.                                            *)
LinksLead ==
  \A link \in page.links :
    Followed(link.url) =>
      LET answer == Answer(link.url)
          is     == answer.repo = link.repo /\ OnDisk(answer.path) = OnDisk(link.path)
          file   == link.repo \in NakedNames /\ OnDisk(link.path) \in FilesOf(link.repo)
      IN  /\ link.to = "file" /\ file => answer.kind = "file" /\ is
          /\ link.to = "page" /\ ~file /\ link.repo \in NakedNames =>
               answer.kind = "page" /\ is
          /\ answer.kind = "file" => is

(* Every file that is not directly in the repository can be reached from   *)
(* the root by links alone, if the patterns admit its name and those of    *)
(* its directories and of the repository: README.txt:43, "it can also      *)
(* serve browsable index pages".                                           *)
LinkIn(url, to, path) ==
  { link \in Answer(url).links : link.to = to /\ link.path = path }

Admitted(p) ==
  /\ Len(p) > 1
  /\ \A n \in 1..(Len(p) - 1) :
       ~Has(p[n], {"?", "*", "\\", ":", ";", "{", "}", "#", " ", "wide"})
  /\ ~Has(Last(p), {"?", "*", "\\", "#", " ", "wide"})

(* with a pattern that takes the empty name there is no page of the root *)
FromRoot ==
  IF "" \in Pattern[ListedNames] THEN {}
  ELSE { name \in NakedNames \ Shadowing : ~Has(name, {"?", "#", " ", "wide"}) }

Reachable ==
  \A name \in FromRoot : \A p \in FilesOf(name) :
    Admitted(p) =>
      /\ \E link \in Answer(EmptyPath).links : /\ link.repo = name
                                               /\ Answer(link.url).kind = "page"
                                               /\ Answer(link.url).path = EmptyPath
      /\ \A n \in 1..(Len(p) - 1) :
           \E link \in LinkIn(<<name>> \o SubSeq(p, 1, n - 1), "page", SubSeq(p, 1, n)) :
             link.url = <<name>> \o SubSeq(p, 1, n)
      /\ \E link \in LinkIn(<<name>> \o Front(p), "file", p) : Answer(link.url).kind = "file"

(* A file that is sent with the form on a page is written to the directory *)
(* that the page shows if that is on the disk; a page is also shown of a   *)
(* directory that is not, and its form ends the process.                   *)
FormLands ==
  \A name \in Uploads :
    LET url    == FormUrl(page.repo, page.path)
        upload == UploadTo(url, name)
        there  == <<page.repo, OnDisk(page.path)>> \in dirs
    IN  page.kind = "page" /\ page.repo \in NakedNames /\ Followed(url) =>
          /\ there => /\ upload.kind = "written" /\ upload.repo = page.repo
                      /\ upload.path = Append(OnDisk(page.path), name)
          /\ ~there => upload.kind = "dead"
=============================================================================
