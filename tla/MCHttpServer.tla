---------------------------- MODULE MCHttpServer ----------------------------
(***************************************************************************)
(* HttpServer for TLC: the requests a peer may make, one for every way the *)
(* server takes.  The form has a field and two files; lines that are       *)
(* empty, that end with LF and a last line without a text stand in every   *)
(* place in them.                                                          *)
(***************************************************************************)
EXTENDS HttpServer

Plain(target, old) == [target |-> target, old |-> old, shape |-> "plain", parts |-> <<>>]
Form(parts) == [target |-> "upload", old |-> FALSE, shape |-> "parts", parts |-> parts]
File(kinds)  == [file |-> TRUE, lines |-> kinds]
Field(kinds) == [file |-> FALSE, lines |-> kinds]

Upload  == Form(<<Field(<<"text">>), File(<<"empty", "textlf", "text", "empty">>),
                  File(<<"text">>)>>)
NoParts == Form(<<>>)
Listing == Plain("listing", FALSE)
AFile   == Plain("file", FALSE)
OldFile == Plain("file", TRUE)
Content == [Listing EXCEPT !.shape = "length"]
Refused == [Listing EXCEPT !.shape = "bad"]

Sequences(requests, n) == [1..n -> requests]

(* any two requests, and three that leave lines, jam the list or close it *)
MCScripts ==
  Sequences({ Upload, NoParts, Content, Refused, Listing, AFile, OldFile,
              Plain("emptyfile", FALSE), Plain("unknown", FALSE),
              Plain("nowhere", FALSE) }, 2)
  \union Sequences({AFile, Listing, Content}, 3)
=============================================================================
