----------------------------- MODULE HttpMessage -----------------------------
(***************************************************************************)
(* The parser of HTTP requests (httpmessage.cpp, httprequest.cpp): a       *)
(* message is given one line at a time and works out for itself where its  *)
(* headers, its parts and its content end.                                 *)
(*                                                                         *)
(* A line is [n, kind, arg].  n is the request that the client sent it     *)
(* with, which the parser does not look at.  The content of a part is a    *)
(* sequence of texts, which are numbers, and line ends.                    *)
(***************************************************************************)
EXTENDS Integers, Sequences, SequencesExt

CONSTANTS CRLF, LF   \* the two ends a line may have

ASSUME EndsAssumption == CRLF # LF

LineKinds ==
  {"request",      \* a request line; arg is the request
   "badline",      \* what the parser does not take for a request line
   "multipart",    \* Content-Type: multipart/form-data with a boundary
   "header",       \* any other header
   "filename",     \* Content-Disposition with a file name
   "empty",        \* nothing but CRLF
   "boundary", "final",   \* the boundary of the parts, and the last one
   "text",         \* content that ends with CRLF; arg is the text before it
   "textlf"}       \* content that ends with LF alone

Headers == {"multipart", "header", "filename"}

MessageStates == {"ReadFirstLine", "ReadingHeaders", "WaitingForContentDevice",
                  "ReadingContent", "Finished", "Invalid"}

Parts == [state : MessageStates, file : BOOLEAN, maybeLastLine : BOOLEAN,
          content : Seq(Nat \union {CRLF, LF})]

Messages == [state : MessageStates, multipart : BOOLEAN, inPart : BOOLEAN,
             parts : Seq(Parts)]

(* the characters of a line *)
Bytes(line) ==
  CASE line.kind = "empty"  -> <<CRLF>>
    [] line.kind = "textlf" -> <<line.arg, LF>>
    [] OTHER                -> <<line.arg, CRLF>>

NewRequest == [state |-> "ReadFirstLine", multipart |-> FALSE, inPart |-> FALSE,
               parts |-> <<>>]

NewPart == [state |-> "ReadingHeaders", file |-> FALSE, maybeLastLine |-> FALSE,
            content |-> <<>>]

-----------------------------------------------------------------------------
(* A part; none is itself multipart.                                       *)

(* a faulty writer that forgets the CRLF it held back *)
AddContentOnly(part, line) ==
  LET ends == Last(Bytes(line)) = CRLF
  IN  [part EXCEPT !.maybeLastLine = ends,
                   !.content = @ \o (IF ends THEN Front(Bytes(line)) ELSE Bytes(line))]

(* Any line may be the last, whose CRLF belongs to the boundary after it,  *)
(* so a CRLF is held back until the next line.                             *)
AddContent(part, line) ==
  LET bytes == (IF part.maybeLastLine THEN <<CRLF>> ELSE <<>>) \o Bytes(line)
      ends  == Last(bytes) = CRLF
  IN  [part EXCEPT !.maybeLastLine = ends,
                   !.content = @ \o (IF ends THEN Front(bytes) ELSE bytes)]

(* The end of a part's headers.  A part that gets a device to write to     *)
(* goes on reading, this very line included (httpmessage.cpp:216).         *)
EndPartHeaders(part, line, opened) ==
  IF part.file /\ ~opened
  THEN [part EXCEPT !.state = "WaitingForContentDevice"]
  ELSE AddContent([part EXCEPT !.state = "ReadingContent"], line)

ParsePartLine(part, line, opened) ==
  CASE part.state = "ReadingHeaders" /\ line.kind = "empty" ->
         EndPartHeaders(part, line, opened)
    [] part.state = "ReadingHeaders" /\ line.kind \in Headers ->
         [part EXCEPT !.file = @ \/ line.kind = "filename"]
    [] part.state = "ReadingHeaders" /\ line.kind \notin Headers \union {"empty"} ->
         [part EXCEPT !.state = "Invalid"]
    [] part.state = "ReadingContent" -> AddContent(part, line)
    [] OTHER -> part

-----------------------------------------------------------------------------
(* A request.                                                              *)

ParseFirstLine(m, line) ==
  [m EXCEPT !.state = IF line.kind = "request" THEN "ReadingHeaders" ELSE "Invalid"]

(* The content of a message that is not multipart is left where it is.     *)
ParseHeader(m, line) ==
  CASE line.kind = "empty" ->
         [m EXCEPT !.state = IF m.multipart THEN "ReadingContent" ELSE "Finished"]
    [] line.kind \in Headers ->
         [m EXCEPT !.multipart = @ \/ line.kind = "multipart"]
    [] OTHER -> [m EXCEPT !.state = "Invalid"]

PartDone(m) ==
  IF m.inPart THEN [m.parts EXCEPT ![Len(m.parts)].state = "Finished"] ELSE m.parts

ParseContent(m, line, opened) ==
  CASE line.kind = "boundary" ->
         [m EXCEPT !.parts = Append(PartDone(m), NewPart), !.inPart = TRUE]
    [] line.kind = "final" ->
         [m EXCEPT !.parts = PartDone(m), !.inPart = FALSE, !.state = "Finished"]
    [] line.kind \notin {"boundary", "final"} /\ m.inPart ->
         [m EXCEPT !.parts[Len(m.parts)] = ParsePartLine(@, line, opened)]
    [] OTHER -> m

(* A line of a request; opened tells whether the controller gives a device *)
(* to a file that the line begins.                                         *)
ParseLine(m, line, opened) ==
  CASE m.state = "ReadFirstLine"  -> ParseFirstLine(m, line)
    [] m.state = "ReadingHeaders" -> ParseHeader(m, line)
    [] m.state = "ReadingContent" -> ParseContent(m, line, opened)
    [] OTHER -> m

(* headersFinished is emitted *)
EndsHeaders(m, line) == m.state = "ReadingHeaders" /\ line.kind = "empty"

(* fileUploadStarted is emitted *)
StartsUpload(m, line) ==
  /\ m.state = "ReadingContent" /\ m.inPart /\ line.kind = "empty"
  /\ Last(m.parts).state = "ReadingHeaders" /\ Last(m.parts).file

(* the last boundary ends a part that never began: a null pointer *)
EndsNoPart(m, line) ==
  m.state = "ReadingContent" /\ ~m.inPart /\ line.kind = "final"
=============================================================================
