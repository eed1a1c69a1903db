-------------------------- MODULE HttpServerProofs --------------------------
(***************************************************************************)
(* What holds of a connection for any requests, any number of them, cut    *)
(* into any chunks, and of the pages that it serves for any repositories.  *)
(*                                                                         *)
(* The proof about the connection follows the reader through the lines of  *)
(* the socket.  Offset tells where the lines of a request begin; Stands    *)
(* tells what a message is after the first lines of a request; and the     *)
(* invariant says that the controller which reads is a message that stands *)
(* where the socket is.                                                    *)
(*                                                                         *)
(* That about the pages (BrowseInv) says of each link on a page that it    *)
(* has the url of what it names: the rest is what the routes make of such  *)
(* a url, whatever the list of the repositories is by then.                *)
(***************************************************************************)
EXTENDS HttpServer, Browse, Recursion

-----------------------------------------------------------------------------
(* Sequences.                                                              *)

LEMMA FrontAndLast ==
  ASSUME NEW S, NEW s \in Seq(S), s # <<>>
  PROVE  /\ Front(s) \in Seq(S) /\ Last(s) \in S /\ s = Front(s) \o <<Last(s)>>
         /\ Len(s) \in Nat \ {0}
<1>1. Len(s) \in Nat \ {0} /\ \A k \in 1..Len(s) : s[k] \in S
  OBVIOUS
<1>2. Last(s) \in S
  BY <1>1 DEF Last
<1>3. Front(s) \in Seq(S)
  BY <1>1, SubSeqProperties DEF Front
<1>4. 1 \in 1..Len(s) /\ Len(s) \in 1..Len(s)
  BY <1>1
<1>5. SubSeq(s, 1, Len(s)) = SubSeq(s, 1, Len(s) - 1) \o <<s[Len(s)]>>
  BY <1>4, SubSeqRecursiveSecond
<1>6. SubSeq(s, 1, Len(s)) = s
  BY SubSeqFull
<1> QED BY <1>1, <1>2, <1>3, <1>5, <1>6 DEF Front, Last

LEMMA LastOfConcat ==
  ASSUME NEW S, NEW s \in Seq(S), NEW t \in Seq(S), t # <<>>
  PROVE  s \o t # <<>> /\ Last(s \o t) = Last(t)
<1>1. /\ Len(s) \in Nat /\ Len(t) \in Nat \ {0} /\ Len(s \o t) = Len(s) + Len(t)
      /\ \A k \in 1..Len(t) : (s \o t)[Len(s) + k] = t[k]
  OBVIOUS
<1>2. (s \o t)[Len(s) + Len(t)] = t[Len(t)]
  BY <1>1
<1>3. s \o t # <<>>
  BY <1>1
<1> QED BY <1>1, <1>2, <1>3 DEF Last

LEMMA SameEnd ==
  ASSUME NEW S, NEW s \in Seq(S), NEW t \in Seq(S), NEW u \in Seq(S), s \o u = t \o u
  PROVE  s = t
BY ConcatSimplifications, Zenon

-----------------------------------------------------------------------------
(* The lines of a part of a form, and its content.                         *)

Texts == Nat \union {CRLF, LF}

(* a line that a part may have *)
FormLine(n) == [n : {n}, kind : LineKinds \ {"request", "badline"}, arg : Nat]

LEMMA FormPartsHave ==
  ASSUME NEW p \in FormParts
  PROVE  /\ p.file \in BOOLEAN /\ Len(p.lines) \in Nat \ {0}
         /\ DOMAIN p.lines = 1..Len(p.lines)
         /\ \A k \in 1..Len(p.lines) : p.lines[k] \in {"empty", "text", "textlf"}
         /\ p.lines[Len(p.lines)] # "textlf"
<1>1. /\ p.file \in BOOLEAN /\ p.lines \in Seq({"empty", "text", "textlf"})
      /\ p.lines # <<>> /\ Last(p.lines) # "textlf"
  BY DEF FormParts
<1> QED BY <1>1 DEF Last

LEMMA PartLinesAre ==
  ASSUME NEW n, NEW p \in FormParts
  PROVE  /\ PartLines(n, p) \in Seq(FormLine(n)) /\ Len(PartLines(n, p)) = Len(p.lines)
         /\ DOMAIN PartLines(n, p) = 1..Len(p.lines)
         /\ \A k \in 1..Len(p.lines) : PartLines(n, p)[k] = Line(n, p.lines[k], k)
<1>1. \A k \in 1..Len(p.lines) : Line(n, p.lines[k], k) \in FormLine(n)
  BY FormPartsHave DEF Line, FormLine, LineKinds
<1> HIDE DEF Line, FormLine
<1>2. PartLines(n, p) = [k \in 1..Len(p.lines) |-> Line(n, p.lines[k], k)] /\ Len(p.lines) \in Nat
  BY FormPartsHave DEF PartLines
<1> QED BY <1>1, <1>2

LEMMA PartOfIs ==
  ASSUME NEW n, NEW p \in FormParts
  PROVE  /\ PartOf(n, p) \in Seq(FormLine(n)) /\ Len(PartOf(n, p)) = 3 + Len(p.lines)
         /\ PartOf(n, p)[1] = Line(n, "boundary", 0)
         /\ PartOf(n, p)[2] = Line(n, IF p.file THEN "filename" ELSE "header", 0)
         /\ PartOf(n, p)[3] = Line(n, "empty", 0)
         /\ \A k \in 1..Len(p.lines) : PartOf(n, p)[3 + k] = Line(n, p.lines[k], k)
<1> DEFINE heads == <<Line(n, "boundary", 0),
                      Line(n, IF p.file THEN "filename" ELSE "header", 0),
                      Line(n, "empty", 0)>>
           body == PartLines(n, p)
<1>1. heads \in Seq(FormLine(n)) /\ Len(heads) = 3
  <2>1. /\ Line(n, "boundary", 0) \in FormLine(n) /\ Line(n, "empty", 0) \in FormLine(n)
        /\ Line(n, IF p.file THEN "filename" ELSE "header", 0) \in FormLine(n)
    BY DEF Line, FormLine, LineKinds
  <2> QED BY <2>1
<1>2. body \in Seq(FormLine(n)) /\ Len(body) = Len(p.lines)
      /\ \A k \in 1..Len(p.lines) : body[k] = Line(n, p.lines[k], k)
  BY PartLinesAre
<1>3. heads[1] = Line(n, "boundary", 0) /\ heads[3] = Line(n, "empty", 0)
      /\ heads[2] = Line(n, IF p.file THEN "filename" ELSE "header", 0)
  OBVIOUS
<1>4. PartOf(n, p) = heads \o body
  BY DEF PartOf
<1> HIDE DEF heads, body
<1>5. /\ heads \o body \in Seq(FormLine(n)) /\ Len(heads \o body) = 3 + Len(p.lines)
      /\ \A k \in 1..3 : (heads \o body)[k] = heads[k]
      /\ \A k \in 1..Len(p.lines) : (heads \o body)[3 + k] = body[k]
  <2>1. /\ heads \o body \in Seq(FormLine(n)) /\ Len(heads \o body) = Len(heads) + Len(body)
        /\ \A k \in 1..Len(heads) : (heads \o body)[k] = heads[k]
        /\ \A k \in 1..Len(body) : (heads \o body)[Len(heads) + k] = body[k]
    <3> DEFINE S == FormLine(n)
    <3>1. heads \in Seq(S) /\ body \in Seq(S)
      BY <1>1, <1>2
    <3> HIDE DEF S
    <3>2. heads \o body \in Seq(S)
      BY <3>1
    <3> QED BY <3>1, <3>2, ConcatAt DEF S
  <2> QED BY <1>1, <1>2, <2>1
<1> QED BY <1>2, <1>3, <1>4, <1>5

(* the characters of the lines, and of the first of them *)
BodyBytes(n, p) == [k \in DOMAIN PartLines(n, p) |-> Bytes(PartLines(n, p)[k])]
Text(n, p, k) == <<CRLF>> \o Flattened(BodyBytes(n, p))[k]

(* what is sent in a part *)
SentIn(n, p) == Front(FlattenSeq(BodyBytes(n, p)))

LEMMA BytesAre ==
  ASSUME NEW line, line.kind \in {"empty", "text", "textlf"}, line.arg \in Nat
  PROVE  /\ Bytes(line) \in Seq(Texts) /\ Bytes(line) # <<>>
         /\ (Last(Bytes(line)) = CRLF) = (line.kind # "textlf")
<1>1. CASE line.kind = "empty"
  <2>1. Bytes(line) = <<CRLF>>
    BY <1>1 DEF Bytes
  <2> QED BY <1>1, <2>1 DEF Texts, Last
<1>2. CASE line.kind = "text"
  <2>1. Bytes(line) = <<line.arg, CRLF>>
    BY <1>2 DEF Bytes
  <2> QED BY <1>2, <2>1 DEF Texts, Last
<1>3. CASE line.kind = "textlf"
  <2>1. Bytes(line) = <<line.arg, LF>>
    BY <1>3 DEF Bytes
  <2> QED BY <1>3, <2>1, EndsAssumption DEF Texts, Last
<1> QED BY <1>1, <1>2, <1>3

LEMMA BodyBytesAre ==
  ASSUME NEW n, NEW p \in FormParts
  PROVE  /\ BodyBytes(n, p) \in Seq(Seq(Texts)) /\ Len(BodyBytes(n, p)) = Len(p.lines)
         /\ \A k \in 1..Len(p.lines) :
              /\ BodyBytes(n, p)[k] = Bytes(Line(n, p.lines[k], k))
              /\ Bytes(Line(n, p.lines[k], k)) \in Seq(Texts)
              /\ Bytes(Line(n, p.lines[k], k)) # <<>>
<1>1. \A k \in 1..Len(p.lines) : /\ Bytes(Line(n, p.lines[k], k)) \in Seq(Texts)
                                /\ Bytes(Line(n, p.lines[k], k)) # <<>>
  <2>1. SUFFICES ASSUME NEW k \in 1..Len(p.lines)
        PROVE /\ Bytes(Line(n, p.lines[k], k)) \in Seq(Texts)
              /\ Bytes(Line(n, p.lines[k], k)) # <<>>
    OBVIOUS
  <2> DEFINE line == Line(n, p.lines[k], k)
  <2>2. line.kind \in {"empty", "text", "textlf"} /\ line.arg \in Nat
    BY FormPartsHave DEF Line
  <2> HIDE DEF line
  <2>3. Bytes(line) \in Seq(Texts) /\ Bytes(line) # <<>>
    BY <2>2, BytesAre
  <2> QED BY <2>3 DEF line
<1>2. BodyBytes(n, p) = [k \in 1..Len(p.lines) |-> Bytes(Line(n, p.lines[k], k))]
  BY PartLinesAre DEF BodyBytes
<1>3. Len(p.lines) \in Nat
  BY FormPartsHave
<1>4. /\ BodyBytes(n, p) \in Seq(Seq(Texts)) /\ Len(BodyBytes(n, p)) = Len(p.lines)
  BY <1>1, <1>2, <1>3
<1> QED BY <1>1, <1>2, <1>4

LEMMA TextSteps ==
  ASSUME NEW n, NEW p \in FormParts
  PROVE  /\ Text(n, p, 0) = <<CRLF>>
         /\ \A k \in Nat : k + 1 <= Len(p.lines) =>
              /\ Text(n, p, k) \in Seq(Texts)
              /\ Text(n, p, k + 1) = Text(n, p, k) \o Bytes(Line(n, p.lines[k + 1], k + 1))
<1> DEFINE bytes == BodyBytes(n, p)
           flat == Flattened(bytes)
<1>1. /\ bytes \in Seq(Seq(Texts)) /\ Len(bytes) = Len(p.lines) /\ Len(p.lines) \in Nat \ {0}
      /\ \A k \in 1..Len(p.lines) : bytes[k] = Bytes(Line(n, p.lines[k], k))
  BY BodyBytesAre, FormPartsHave
<1>2. <<CRLF>> \in Seq(Texts)
  BY DEF Texts
<1> HIDE DEF bytes
<1>3. Text(n, p, 0) = <<CRLF>>
  <2>1. flat[0] = <<>>
    BY <1>1, FlattenedEnd
  <2>2. <<CRLF>> \o <<>> = <<CRLF>>
    BY <1>2, ConcatEmptySeq
  <2> QED BY <2>1, <2>2 DEF Text, bytes
<1>4. ASSUME NEW k \in Nat, k + 1 <= Len(p.lines)
      PROVE /\ Text(n, p, k) \in Seq(Texts)
            /\ Text(n, p, k + 1) = Text(n, p, k) \o Bytes(Line(n, p.lines[k + 1], k + 1))
  <2>1. /\ flat[k] \in Seq(Texts) /\ bytes[k + 1] \in Seq(Texts)
        /\ flat[k + 1] = flat[k] \o bytes[k + 1]
    BY <1>1, <1>4, FlattenedStep
  <2>2. bytes[k + 1] = Bytes(Line(n, p.lines[k + 1], k + 1))
    <3>1. k + 1 \in 1..Len(p.lines)
      BY <1>1, <1>4
    <3> QED BY <1>1, <3>1
  <2>3. Text(n, p, k) = <<CRLF>> \o flat[k] /\ Text(n, p, k + 1) = <<CRLF>> \o flat[k + 1]
    BY DEF Text, bytes
  <2> HIDE DEF flat
  <2>4. (<<CRLF>> \o flat[k]) \o bytes[k + 1] = <<CRLF>> \o (flat[k] \o bytes[k + 1])
    <3>1. ASSUME NEW r \in Seq(Texts), NEW s \in Seq(Texts), NEW t \in Seq(Texts)
          PROVE (r \o s) \o t = r \o (s \o t)
      BY ConcatAssociative
    <3> QED BY <1>2, <2>1, <3>1
  <2>5. <<CRLF>> \o flat[k] \in Seq(Texts)
    BY <1>2, <2>1, ConcatAt
  <2> QED BY <2>1, <2>2, <2>3, <2>4, <2>5
<1> QED BY <1>3, <1>4

(* the whole text is what is sent, between two CRLF *)
LEMMA WholeText ==
  ASSUME NEW n, NEW p \in FormParts
  PROVE  /\ SentIn(n, p) \in Seq(Texts)
         /\ Text(n, p, Len(p.lines)) = (<<CRLF>> \o SentIn(n, p)) \o <<CRLF>>
<1> DEFINE N == Len(p.lines)
           bytes == BodyBytes(n, p)
           flat == Flattened(bytes)
           all == FlattenSeq(bytes)
           line == Line(n, p.lines[N], N)
<1>1. /\ bytes \in Seq(Seq(Texts)) /\ Len(bytes) = N /\ N \in Nat \ {0} /\ bytes[N] = Bytes(line)
  <2>1. N \in Nat \ {0} /\ N \in 1..N
    BY FormPartsHave
  <2> QED BY <2>1, BodyBytesAre
<1>2. /\ Bytes(line) \in Seq(Texts) /\ Bytes(line) # <<>> /\ Last(Bytes(line)) = CRLF
  <2>1. line.kind \in {"empty", "text"} /\ line.arg \in Nat
    <3>1. N \in 1..N /\ N \in Nat
      BY FormPartsHave
    <3>2. p.lines[N] \in {"empty", "text"}
      BY <3>1, FormPartsHave
    <3> HIDE DEF N
    <3> QED BY <3>1, <3>2 DEF Line
  <2> HIDE DEF line
  <2> QED BY <2>1, BytesAre
<1>3. <<CRLF>> \in Seq(Texts) /\ Text(n, p, N) = <<CRLF>> \o flat[N]
  BY DEF Texts, Text
<1>4. /\ flat[N - 1] \in Seq(Texts) /\ all = flat[N - 1] \o bytes[N] /\ all = flat[N]
  <2> HIDE DEF N, bytes
  <2>1. all = flat[N]
    BY <1>1, FlattenedEnd
  <2>2. N - 1 \in Nat /\ (N - 1) + 1 = N /\ (N - 1) + 1 <= Len(bytes)
    BY <1>1
  <2>3. flat[N - 1] \in Seq(Texts) /\ flat[(N - 1) + 1] = flat[N - 1] \o bytes[(N - 1) + 1]
    BY <1>1, <2>2, FlattenedStep
  <2> QED BY <2>1, <2>2, <2>3
<1>5. SentIn(n, p) = Front(all)
  BY DEF SentIn
<1> HIDE DEF N, bytes, flat, all, line
<1>6. all \in Seq(Texts) /\ all # <<>> /\ Last(all) = CRLF
  <2>1. all = flat[N - 1] \o Bytes(line)
    BY <1>1, <1>4
  <2> QED BY <1>2, <1>4, <2>1, ConcatAt, LastOfConcat
<1>7. Front(all) \in Seq(Texts) /\ all = Front(all) \o <<CRLF>>
  BY <1>6, FrontAndLast
<1>8. <<CRLF>> \o (Front(all) \o <<CRLF>>) = (<<CRLF>> \o Front(all)) \o <<CRLF>>
  BY <1>3, <1>7, ConcatAssociative
<1> QED BY <1>3, <1>4, <1>5, <1>7, <1>8 DEF N

-----------------------------------------------------------------------------
(* The lines of a request, and where they are in the socket.               *)

LineOf(n) == [n : {n}, kind : LineKinds, arg : Nat \union Requests]

PartsOf(r, n) == [i \in DOMAIN r.parts |-> PartOf(n, r.parts[i])]

(* how many lines the first parts of a form have *)
PartOffset(r, n, i) == Len(Flattened(PartsOf(r, n))[i])

LEMMA RequestHas ==
  ASSUME NEW r \in Requests
  PROVE  /\ r.target \in Targets /\ r.old \in BOOLEAN
         /\ r.shape \in {"plain", "parts", "length", "bad"}
         /\ Len(r.parts) \in Nat /\ DOMAIN r.parts = 1..Len(r.parts)
         /\ \A i \in 1..Len(r.parts) : r.parts[i] \in FormParts
<1>1. r.parts \in Seq(FormParts) /\ r.target \in Targets /\ r.old \in BOOLEAN /\ r.shape \in Shapes
  BY DEF Requests
<1> QED BY <1>1 DEF Shapes

LEMMA PartsOfAre ==
  ASSUME NEW r \in Requests, NEW n
  PROVE  /\ PartsOf(r, n) \in Seq(Seq(LineOf(n))) /\ Len(PartsOf(r, n)) = Len(r.parts)
         /\ \A i \in 1..Len(r.parts) : PartsOf(r, n)[i] = PartOf(n, r.parts[i])
<1>1. \A i \in 1..Len(r.parts) : PartOf(n, r.parts[i]) \in Seq(LineOf(n))
  <2>1. FormLine(n) \subseteq LineOf(n)
    BY DEF FormLine, LineOf
  <2> HIDE DEF FormLine
  <2> QED BY <2>1, RequestHas, PartOfIs, SeqMonotonic
<1>2. PartsOf(r, n) = [i \in 1..Len(r.parts) |-> PartOf(n, r.parts[i])] /\ Len(r.parts) \in Nat
  BY RequestHas DEF PartsOf
<1> QED BY <1>1, <1>2

LEMMA PartPlaces ==
  ASSUME NEW r \in Requests, NEW n, NEW i \in Nat, i + 1 <= Len(r.parts)
  PROVE  /\ r.parts[i + 1] \in FormParts
         /\ PartOffset(r, n, i) \in Nat
         /\ PartOffset(r, n, i + 1) = PartOffset(r, n, i) + (3 + Len(r.parts[i + 1].lines))
         /\ \A l \in 1..(3 + Len(r.parts[i + 1].lines)) :
              /\ PartOffset(r, n, i) + l \in 1..Len(FlattenSeq(PartsOf(r, n)))
              /\ FlattenSeq(PartsOf(r, n))[PartOffset(r, n, i) + l] = PartOf(n, r.parts[i + 1])[l]
<1> DEFINE parts == PartsOf(r, n)
<1>1. i + 1 \in 1..Len(r.parts) /\ r.parts[i + 1] \in FormParts
  BY RequestHas
<1>2. parts \in Seq(Seq(LineOf(n))) /\ Len(parts) = Len(r.parts)
      /\ parts[i + 1] = PartOf(n, r.parts[i + 1])
  BY <1>1, PartsOfAre
<1>3. Len(parts[i + 1]) = 3 + Len(r.parts[i + 1].lines)
  BY <1>1, <1>2, PartOfIs
<1> HIDE DEF parts
<1>4. /\ Len(Flattened(parts)[i]) \in Nat
      /\ Len(Flattened(parts)[i + 1]) = Len(Flattened(parts)[i]) + Len(parts[i + 1])
  BY <1>2, FlattenedGrows
<1>5. \A l \in 1..Len(parts[i + 1]) :
        /\ Len(Flattened(parts)[i]) + l \in 1..Len(FlattenSeq(parts))
        /\ FlattenSeq(parts)[Len(Flattened(parts)[i]) + l] = parts[i + 1][l]
  BY <1>2, FlattenedPlace
<1> QED BY <1>1, <1>2, <1>3, <1>4, <1>5 DEF PartOffset, parts

LEMMA PartEnds ==
  ASSUME NEW r \in Requests, NEW n
  PROVE  /\ PartOffset(r, n, 0) = 0
         /\ FlattenSeq(PartsOf(r, n)) \in Seq(LineOf(n))
         /\ PartOffset(r, n, Len(r.parts)) = Len(FlattenSeq(PartsOf(r, n)))
<1> DEFINE parts == PartsOf(r, n)
<1>1. parts \in Seq(Seq(LineOf(n))) /\ Len(parts) = Len(r.parts)
  BY PartsOfAre
<1>2. Len(<<>>) = 0
  OBVIOUS
<1> HIDE DEF parts
<1>3. /\ Flattened(parts)[0] = <<>> /\ FlattenSeq(parts) = Flattened(parts)[Len(parts)]
      /\ FlattenSeq(parts) \in Seq(LineOf(n))
  BY <1>1, FlattenedEnd, FlattenedType
<1> QED BY <1>1, <1>2, <1>3 DEF PartOffset, parts

(* a form *)
LEMMA FormLines ==
  ASSUME NEW r \in Requests, NEW n, r.shape = "parts"
  PROVE  /\ LinesOf(r, n) \in Seq(LineOf(n))
         /\ PartOffset(r, n, Len(r.parts)) \in Nat
         /\ Len(LinesOf(r, n)) = (3 + PartOffset(r, n, Len(r.parts))) + 1
         /\ LinesOf(r, n)[1] = Line(n, "request", r)
         /\ LinesOf(r, n)[2] = Line(n, "multipart", 0)
         /\ LinesOf(r, n)[3] = Line(n, "empty", 0)
         /\ LinesOf(r, n)[(3 + PartOffset(r, n, Len(r.parts))) + 1] = Line(n, "final", 0)
         /\ \A k \in 1..PartOffset(r, n, Len(r.parts)) :
              LinesOf(r, n)[3 + k] = FlattenSeq(PartsOf(r, n))[k]
<1> DEFINE a == <<Line(n, "request", r), Line(n, "multipart", 0), Line(n, "empty", 0)>>
           b == FlattenSeq(PartsOf(r, n))
           c == <<Line(n, "final", 0)>>
           S == LineOf(n)
<1>1. a \in Seq(S) /\ Len(a) = 3 /\ c \in Seq(S) /\ Len(c) = 1
  <2>1. /\ Line(n, "request", r) \in S /\ Line(n, "multipart", 0) \in S
        /\ Line(n, "empty", 0) \in S /\ Line(n, "final", 0) \in S
    BY DEF Line, LineOf, LineKinds
  <2> QED BY <2>1
<1>2. /\ a[1] = Line(n, "request", r) /\ a[2] = Line(n, "multipart", 0)
      /\ a[3] = Line(n, "empty", 0) /\ c[1] = Line(n, "final", 0)
  OBVIOUS
<1>3. b \in Seq(S) /\ Len(b) = PartOffset(r, n, Len(r.parts))
  BY PartEnds
<1>4. LinesOf(r, n) = (a \o b) \o c
  BY DEF LinesOf, PartsOf
<1> HIDE DEF a, b, c, S
<1> DEFINE Joins(s, t, u) ==
             /\ u \in Seq(S) /\ Len(s) \in Nat /\ Len(t) \in Nat /\ Len(u) = Len(s) + Len(t)
             /\ \A k \in 1..Len(s) : k \in 1..Len(u) /\ u[k] = s[k]
             /\ \A k \in 1..Len(t) : Len(s) + k \in 1..Len(u) /\ u[Len(s) + k] = t[k]
           e == a \o b
           d == e \o c
<1>j. ASSUME NEW s \in Seq(S), NEW t \in Seq(S) PROVE Joins(s, t, s \o t)
  BY ConcatAt
<1> HIDE DEF Joins
<1>5. Joins(a, b, e)
  BY <1>1, <1>3, <1>j
<1>6. Joins(e, c, d)
  <2>1. e \in Seq(S)
    BY <1>5 DEF Joins
  <2> HIDE DEF e
  <2> QED BY <1>1, <2>1, <1>j
<1>7. /\ d \in Seq(S) /\ Len(d) = (3 + Len(b)) + 1 /\ Len(b) \in Nat
      /\ \A k \in 1..3 : d[k] = a[k]
      /\ \A k \in 1..Len(b) : d[3 + k] = b[k]
      /\ d[(3 + Len(b)) + 1] = c[1]
  <2> HIDE DEF d, e
  <2>1. Len(e) = 3 + Len(b) /\ Len(b) \in Nat /\ Len(d) = Len(e) + 1 /\ d \in Seq(S)
    BY <1>1, <1>5, <1>6 DEF Joins
  <2>2. \A k \in 1..3 : d[k] = a[k]
    BY <1>1, <1>5, <1>6 DEF Joins
  <2>3. \A k \in 1..Len(b) : d[3 + k] = b[k]
    BY <1>1, <1>5, <1>6 DEF Joins
  <2>4. d[Len(e) + 1] = c[1]
    BY <1>1, <1>6 DEF Joins
  <2> QED BY <2>1, <2>2, <2>3, <2>4
<1> HIDE DEF d
<1>8. LinesOf(r, n) = d
  BY <1>4 DEF d
<1> QED BY <1>2, <1>3, <1>7, <1>8 DEF S, b

(* the other requests *)
LEMMA ShortLines ==
  ASSUME NEW r \in Requests, NEW n
  PROVE  /\ r.shape = "plain" =>
              /\ LinesOf(r, n) \in Seq(LineOf(n)) /\ Len(LinesOf(r, n)) = 2
              /\ LinesOf(r, n)[1] = Line(n, "request", r)
              /\ LinesOf(r, n)[2] = Line(n, "empty", 0)
         /\ r.shape = "bad" =>
              /\ LinesOf(r, n) \in Seq(LineOf(n)) /\ Len(LinesOf(r, n)) = 2
              /\ LinesOf(r, n)[1] = Line(n, "badline", r)
              /\ LinesOf(r, n)[2] = Line(n, "empty", 0)
         /\ r.shape = "length" =>
              /\ LinesOf(r, n) \in Seq(LineOf(n)) /\ Len(LinesOf(r, n)) = 4
              /\ LinesOf(r, n)[1] = Line(n, "request", r)
              /\ LinesOf(r, n)[2] = Line(n, "header", 0)
              /\ LinesOf(r, n)[3] = Line(n, "empty", 0)
              /\ LinesOf(r, n)[4] = Line(n, "text", 1)
<1> DEFINE S == LineOf(n)
<1>1. /\ Line(n, "request", r) \in S /\ Line(n, "badline", r) \in S /\ Line(n, "header", 0) \in S
      /\ Line(n, "empty", 0) \in S /\ Line(n, "text", 1) \in S
  BY DEF Line, LineOf, LineKinds
<1> HIDE DEF S
<1>2. CASE r.shape = "plain"
  <2>1. LinesOf(r, n) = <<Line(n, "request", r), Line(n, "empty", 0)>>
    BY <1>2 DEF LinesOf
  <2> QED BY <1>1, <1>2, <2>1 DEF S
<1>3. CASE r.shape = "bad"
  <2>1. LinesOf(r, n) = <<Line(n, "badline", r), Line(n, "empty", 0)>>
    BY <1>3 DEF LinesOf
  <2> QED BY <1>1, <1>3, <2>1 DEF S
<1>4. CASE r.shape = "length"
  <2>1. LinesOf(r, n) = <<Line(n, "request", r), Line(n, "header", 0), Line(n, "empty", 0),
                          Line(n, "text", 1)>>
    BY <1>4 DEF LinesOf
  <2> QED BY <1>1, <1>4, <2>1 DEF S
<1> QED BY <1>2, <1>3, <1>4

LEMMA LinesOfAre ==
  ASSUME NEW r \in Requests, NEW n
  PROVE  /\ LinesOf(r, n) \in Seq(LineOf(n)) /\ Len(LinesOf(r, n)) \in Nat
         /\ Len(LinesOf(r, n)) >= 2
         /\ LinesOf(r, n)[1] = Line(n, IF r.shape = "bad" THEN "badline" ELSE "request", r)
<1>1. CASE r.shape = "parts"
  BY <1>1, FormLines
<1>2. CASE r.shape # "parts"
  BY <1>2, ShortLines, RequestHas
<1> QED BY <1>1, <1>2

(* the requests, one after the other *)
BlocksOf(s) == [n \in DOMAIN s |-> LinesOf(s[n], n)]

(* how many lines the first requests have *)
Offset(s, n) == Len(Flattened(BlocksOf(s))[n])

LEMMA BlocksOfAre ==
  ASSUME NEW s \in Seq(Requests)
  PROVE  /\ BlocksOf(s) \in Seq(Seq(UNION { LineOf(n) : n \in DOMAIN s }))
         /\ Len(BlocksOf(s)) = Len(s)
         /\ \A n \in 1..Len(s) : s[n] \in Requests /\ BlocksOf(s)[n] = LinesOf(s[n], n)
         /\ Input(s) = FlattenSeq(BlocksOf(s))
<1> DEFINE S == UNION { LineOf(n) : n \in DOMAIN s }
<1>1. Len(s) \in Nat /\ DOMAIN s = 1..Len(s) /\ \A n \in 1..Len(s) : s[n] \in Requests
  OBVIOUS
<1>2. \A n \in 1..Len(s) : LinesOf(s[n], n) \in Seq(S)
  <2>1. SUFFICES ASSUME NEW n \in 1..Len(s) PROVE LinesOf(s[n], n) \in Seq(S)
    OBVIOUS
  <2>2. LinesOf(s[n], n) \in Seq(LineOf(n)) /\ LineOf(n) \subseteq S
    BY <1>1, LinesOfAre
  <2> HIDE DEF S
  <2> QED BY <2>2, SeqMonotonic
<1>3. BlocksOf(s) = [n \in 1..Len(s) |-> LinesOf(s[n], n)]
  BY <1>1 DEF BlocksOf
<1>4. Input(s) = FlattenSeq(BlocksOf(s))
  BY DEF Input, BlocksOf
<1> HIDE DEF S
<1>5. BlocksOf(s) \in Seq(Seq(S)) /\ Len(BlocksOf(s)) = Len(s)
  BY <1>1, <1>2, <1>3
<1> QED BY <1>1, <1>3, <1>4, <1>5 DEF S

LEMMA Places ==
  ASSUME NEW s \in Seq(Requests), NEW m \in Nat, m + 1 <= Len(s)
  PROVE  /\ s[m + 1] \in Requests
         /\ Offset(s, m) \in Nat
         /\ Offset(s, m + 1) = Offset(s, m) + Len(LinesOf(s[m + 1], m + 1))
         /\ \A j \in 1..Len(LinesOf(s[m + 1], m + 1)) :
              /\ Offset(s, m) + j \in 1..Len(Input(s))
              /\ Input(s)[Offset(s, m) + j] = LinesOf(s[m + 1], m + 1)[j]
<1> DEFINE blocks == BlocksOf(s)
           S == UNION { LineOf(n) : n \in DOMAIN s }
<1>1. Len(s) \in Nat /\ m + 1 \in 1..Len(s)
  OBVIOUS
<1>2. /\ blocks \in Seq(Seq(S)) /\ Len(blocks) = Len(s) /\ Input(s) = FlattenSeq(blocks)
      /\ blocks[m + 1] = LinesOf(s[m + 1], m + 1) /\ s[m + 1] \in Requests
  BY <1>1, BlocksOfAre
<1> HIDE DEF blocks, S
<1>3. /\ Len(Flattened(blocks)[m]) \in Nat
      /\ Len(Flattened(blocks)[m + 1]) = Len(Flattened(blocks)[m]) + Len(blocks[m + 1])
  BY <1>2, FlattenedGrows
<1>4. \A j \in 1..Len(blocks[m + 1]) :
        /\ Len(Flattened(blocks)[m]) + j \in 1..Len(FlattenSeq(blocks))
        /\ FlattenSeq(blocks)[Len(Flattened(blocks)[m]) + j] = blocks[m + 1][j]
  BY <1>2, FlattenedPlace
<1> QED BY <1>2, <1>3, <1>4 DEF Offset, blocks

LEMMA PlacesEnd ==
  ASSUME NEW s \in Seq(Requests)
  PROVE  /\ Offset(s, 0) = 0
         /\ Offset(s, Len(s)) = Len(Input(s))
         /\ Len(Input(s)) \in Nat
         /\ DOMAIN Input(s) = 1..Len(Input(s))
         /\ \A k \in 1..Len(Input(s)) :
              Input(s)[k].n \in DOMAIN s /\ Input(s)[k].kind \in LineKinds
<1> DEFINE blocks == BlocksOf(s)
           S == UNION { LineOf(n) : n \in DOMAIN s }
<1>1. /\ blocks \in Seq(Seq(S)) /\ Len(blocks) = Len(s) /\ Input(s) = FlattenSeq(blocks)
  BY BlocksOfAre
<1>2. Len(<<>>) = 0
  OBVIOUS
<1>3. \A l \in S : l.n \in DOMAIN s /\ l.kind \in LineKinds
  BY DEF LineOf
<1> HIDE DEF blocks, S
<1>4. /\ Flattened(blocks)[0] = <<>> /\ FlattenSeq(blocks) = Flattened(blocks)[Len(blocks)]
      /\ FlattenSeq(blocks) \in Seq(S)
  BY <1>1, FlattenedEnd, FlattenedType
<1>5. /\ Len(Input(s)) \in Nat /\ DOMAIN Input(s) = 1..Len(Input(s))
      /\ \A k \in 1..Len(Input(s)) : Input(s)[k] \in S
  BY <1>1, <1>4
<1> QED BY <1>1, <1>2, <1>3, <1>4, <1>5 DEF Offset, blocks

-----------------------------------------------------------------------------
(* What a message is after the first lines of a request.                   *)

(* the CRLF that a part holds back *)
Held(part) == IF part.maybeLastLine THEN <<CRLF>> ELSE <<>>

(* a part after the first lines of its content *)
PartHas(part, n, p, k) ==
  /\ part \in Parts /\ part.state = "ReadingContent"
  /\ k = Len(p.lines) => part.maybeLastLine
  /\ part.content \o Held(part) = Text(n, p, k)

PartStands(part, n, p, l) ==
  \/ l = 1 /\ part = NewPart
  \/ l = 2 /\ part = [NewPart EXCEPT !.file = p.file]
  \/ \E k \in Nat : k <= Len(p.lines) /\ l = 3 + k /\ PartHas(part, n, p, k)

(* a part after all of them *)
Whole(part, n, p) == part.content = <<CRLF>> \o SentIn(n, p)

Heading(msg, r, j) ==
  /\ r.shape # "bad"
  /\ j = 1 \/ (j = 2 /\ r.shape # "plain")
  /\ msg = [NewRequest EXCEPT !.state = "ReadingHeaders",
                              !.multipart = (r.shape = "parts" /\ j = 2)]

Between(msg, r, j) ==
  /\ r.shape = "parts" /\ j = 3
  /\ msg = [NewRequest EXCEPT !.state = "ReadingContent", !.multipart = TRUE]

Inside(msg, r, n, i, l) ==
  /\ msg \in Messages /\ msg.state = "ReadingContent" /\ msg.inPart
  /\ Len(msg.parts) = i + 1
  /\ \A q \in 1..i : Whole(msg.parts[q], n, r.parts[q])
  /\ PartStands(msg.parts[i + 1], n, r.parts[i + 1], l)

Stands(msg, r, n, j) ==
  \/ Heading(msg, r, j)
  \/ Between(msg, r, j)
  \/ /\ r.shape = "parts"
     /\ \E i \in Nat : \E l \in Nat :
          /\ i + 1 <= Len(r.parts) /\ l \in 1..(3 + Len(r.parts[i + 1].lines))
          /\ j = 3 + (PartOffset(r, n, i) + l)
          /\ Inside(msg, r, n, i, l)

(* the parts of a message that has been read whole *)
PartsKept(msg, r, n) ==
  \A i \in DOMAIN msg.parts : i \in 1..Len(r.parts) /\ Whole(msg.parts[i], n, r.parts[i])

LEMMA PartsAre ==
  /\ NewPart \in Parts
  /\ \A file \in BOOLEAN : [NewPart EXCEPT !.file = file] \in Parts
  /\ \A part \in Parts : part.content \in Seq(Texts) /\ Held(part) \in Seq(Texts)
  /\ NewRequest \in Messages
<1>1. /\ NewPart \in Parts
      /\ \A file \in BOOLEAN : [NewPart EXCEPT !.file = file] \in Parts
  <2> DEFINE S == Seq(Nat \union {CRLF, LF})
  <2>1. <<>> \in S /\ "ReadingHeaders" \in MessageStates
    BY DEF MessageStates
  <2> HIDE DEF S
  <2>2. \A part : part \in [state : MessageStates, file : BOOLEAN, maybeLastLine : BOOLEAN,
                            content : S] => part \in Parts
    BY DEF Parts, S
  <2>3. NewPart \in [state : MessageStates, file : BOOLEAN, maybeLastLine : BOOLEAN, content : S]
    BY <2>1 DEF NewPart
  <2> QED BY <2>2, <2>3
<1>2. NewRequest \in Messages
  BY DEF NewRequest, Messages, MessageStates
<1>3. ASSUME NEW part \in Parts PROVE part.content \in Seq(Texts)
  BY DEF Parts, Texts
<1>4. \A part : Held(part) \in Seq(Texts)
  <2>1. <<CRLF>> \in Seq(Texts) /\ <<>> \in Seq(Texts)
    BY DEF Texts
  <2> QED BY <2>1 DEF Held
<1> QED BY <1>1, <1>2, <1>3, <1>4

(* whether the last of b is held back or not, nothing is lost *)
NothingLost(S, c, h, b) ==
  /\ h \o b \in Seq(S) /\ h \o b # <<>> /\ Last(h \o b) = Last(b)
  /\ Front(h \o b) \in Seq(S)
  /\ (c \o Front(h \o b)) \o <<Last(b)>> = (c \o h) \o b
  /\ (c \o (h \o b)) \o <<>> = (c \o h) \o b

LEMMA HoldBack ==
  ASSUME NEW S, NEW c \in Seq(S), NEW h \in Seq(S), NEW b \in Seq(S), b # <<>>
  PROVE  NothingLost(S, c, h, b)
<1> DEFINE d == h \o b
<1>1. d \in Seq(S) /\ d # <<>> /\ Last(d) = Last(b)
  BY LastOfConcat
<1>2. (c \o h) \o b = c \o d
  BY ConcatAssociative
<1> HIDE DEF d
<1>3. /\ Front(d) \in Seq(S) /\ Last(d) \in S /\ d = Front(d) \o <<Last(d)>>
  BY <1>1, FrontAndLast
<1>4. \A q \in Seq(S) : q \o <<>> = q
  BY ConcatEmptySeq
<1>5. c \o d \in Seq(S)
  BY <1>1, ConcatAt
<1> DEFINE f == Front(d)
           e == <<Last(d)>>
<1>6. f \in Seq(S) /\ e \in Seq(S) /\ d = f \o e
  <2>1. \A x \in S : <<x>> \in Seq(S)
    OBVIOUS
  <2> QED BY <1>3, <2>1, Zenon
<1> HIDE DEF e, f
<1>7. (c \o f) \o e = c \o (f \o e)
  BY <1>6, ConcatAssociative
<1> QED BY <1>1, <1>2, <1>3, <1>4, <1>5, <1>6, <1>7 DEF NothingLost, d, e, f

(* what is held back and what is not is all that has been read *)
Continues(after, part, line) ==
  after.content \o Held(after) = (part.content \o Held(part)) \o Bytes(line)

LEMMA AddContentIs ==
  ASSUME NEW part \in Parts, NEW line, line.kind \in {"empty", "text", "textlf"},
         line.arg \in Nat
  PROVE  /\ AddContent(part, line) \in Parts /\ AddContent(part, line).state = part.state
         /\ line.kind # "textlf" => AddContent(part, line).maybeLastLine
         /\ Continues(AddContent(part, line), part, line)
<1> DEFINE bytes == Held(part) \o Bytes(line)
           ends == Last(bytes) = CRLF
           content == part.content \o (IF ends THEN Front(bytes) ELSE bytes)
           after == AddContent(part, line)
<1>1. /\ Bytes(line) \in Seq(Texts) /\ Bytes(line) # <<>>
      /\ (Last(Bytes(line)) = CRLF) = (line.kind # "textlf")
  BY BytesAre
<1>2. part.content \in Seq(Texts) /\ Held(part) \in Seq(Texts)
  BY PartsAre
<1>3. /\ bytes \in Seq(Texts) /\ bytes # <<>> /\ Last(bytes) = Last(Bytes(line))
      /\ Front(bytes) \in Seq(Texts)
      /\ (part.content \o Front(bytes)) \o <<Last(bytes)>>
           = (part.content \o Held(part)) \o Bytes(line)
      /\ (part.content \o bytes) \o <<>> = (part.content \o Held(part)) \o Bytes(line)
  <2>1. NothingLost(Texts, part.content, Held(part), Bytes(line))
    BY <1>1, <1>2, HoldBack
  <2> QED BY <2>1 DEF NothingLost
<1>4. after = [part EXCEPT !.maybeLastLine = ends, !.content = content]
  BY DEF AddContent, Held
<1> HIDE DEF bytes
<1>6. content \in Seq(Texts)
  BY <1>2, <1>3, ConcatAt
<1>7. ends \in BOOLEAN
  OBVIOUS
<1>8. after \in Parts /\ after.state = part.state /\ after.maybeLastLine = ends
      /\ after.content = content
  <2> HIDE DEF ends, content, after
  <2> QED BY <1>4, <1>6, <1>7 DEF Parts, Texts
<1>9. content \o Held(after) = (part.content \o Held(part)) \o Bytes(line)
  <2>1. Held(after) = IF ends THEN <<CRLF>> ELSE <<>>
    BY <1>8 DEF Held
  <2> HIDE DEF after
  <2>2. CASE ends
    BY <1>3, <2>1, <2>2
  <2>3. CASE ~ends
    BY <1>3, <2>1, <2>3
  <2> QED BY <2>2, <2>3
<1>10. line.kind # "textlf" => ends
  BY <1>1, <1>3
<1> HIDE DEF ends, content, after
<1> QED BY <1>8, <1>9, <1>10 DEF after, content, Continues

(* a part is followed to its end, one line after the other *)
LEMMA PartHeadings ==
  ASSUME NEW n, NEW p \in FormParts
  PROVE  /\ ParsePartLine(NewPart, PartOf(n, p)[2], TRUE) = [NewPart EXCEPT !.file = p.file]
         /\ PartHas(ParsePartLine([NewPart EXCEPT !.file = p.file], PartOf(n, p)[3], TRUE), n, p, 0)
<1>1. /\ p.file \in BOOLEAN /\ Len(p.lines) \in Nat \ {0}
      /\ PartOf(n, p)[2] = Line(n, IF p.file THEN "filename" ELSE "header", 0)
      /\ PartOf(n, p)[3] = Line(n, "empty", 0)
  BY FormPartsHave, PartOfIs
<1>2. ParsePartLine(NewPart, PartOf(n, p)[2], TRUE) = [NewPart EXCEPT !.file = p.file]
  <2> DEFINE line == Line(n, IF p.file THEN "filename" ELSE "header", 0)
  <2>1. /\ line.kind \in Headers /\ (line.kind = "filename") = p.file /\ line.kind # "empty"
    BY <1>1 DEF Line, Headers
  <2>2. NewPart.state = "ReadingHeaders" /\ NewPart.file = FALSE
    BY DEF NewPart
  <2> HIDE DEF line
  <2>3. ParsePartLine(NewPart, line, TRUE)
          = [NewPart EXCEPT !.file = NewPart.file \/ line.kind = "filename"]
    BY <2>1, <2>2 DEF ParsePartLine
  <2>4. (NewPart.file \/ line.kind = "filename") = p.file
    BY <1>1, <2>1, <2>2
  <2> QED BY <1>1, <2>3, <2>4 DEF line
<1>3. PartHas(ParsePartLine([NewPart EXCEPT !.file = p.file], PartOf(n, p)[3], TRUE), n, p, 0)
  <2> DEFINE part == [NewPart EXCEPT !.file = p.file]
             begun == [part EXCEPT !.state = "ReadingContent"]
             line == Line(n, "empty", 0)
             after == AddContent(begun, line)
  <2>1. part.state = "ReadingHeaders" /\ line.kind = "empty" /\ line.arg \in Nat
    BY DEF NewPart, Line
  <2>2. ParsePartLine(part, line, TRUE) = after
    <3>1. ASSUME NEW q, NEW m, q.state = "ReadingHeaders", m.kind = "empty"
          PROVE  ParsePartLine(q, m, TRUE) = EndPartHeaders(q, m, TRUE)
      BY <3>1 DEF ParsePartLine, Headers
    <3>2. EndPartHeaders(part, line, TRUE) = after
      BY DEF EndPartHeaders
    <3> HIDE DEF part, line, begun, after
    <3> QED BY <2>1, <3>1, <3>2
  <2>3. /\ begun \in Parts /\ begun.state = "ReadingContent" /\ begun.content = <<>>
        /\ begun.maybeLastLine = FALSE
    <3>1. part \in Parts /\ part.content = <<>> /\ part.maybeLastLine = FALSE
      BY <1>1, PartsAre DEF NewPart
    <3> HIDE DEF part
    <3> QED BY <3>1 DEF Parts, MessageStates
  <2>4. Bytes(line) = <<CRLF>>
    BY <2>1 DEF Bytes
  <2>5. begun.content \o Held(begun) = <<>> /\ <<>> \o <<CRLF>> = <<CRLF>>
    BY <2>3 DEF Held
  <2> HIDE DEF begun, line
  <2>6. /\ after \in Parts /\ after.state = begun.state /\ Continues(after, begun, line)
    BY <2>1, <2>3, AddContentIs
  <2> HIDE DEF after
  <2>7. after.content \o Held(after) = Text(n, p, 0)
    BY <2>4, <2>5, <2>6, TextSteps DEF Continues
  <2>8. PartHas(after, n, p, 0)
    BY <1>1, <2>3, <2>6, <2>7 DEF PartHas
  <2> QED BY <1>1, <2>2, <2>8 DEF line
<1> QED BY <1>2, <1>3

LEMMA PartBody ==
  ASSUME NEW n, NEW p \in FormParts, NEW k \in Nat, k + 1 <= Len(p.lines),
         NEW part, PartHas(part, n, p, k)
  PROVE  PartHas(ParsePartLine(part, PartOf(n, p)[3 + (k + 1)], TRUE), n, p, k + 1)
<1> DEFINE line == Line(n, p.lines[k + 1], k + 1)
           after == AddContent(part, line)
<1>1. /\ part \in Parts /\ part.state = "ReadingContent"
      /\ part.content \o Held(part) = Text(n, p, k)
  BY DEF PartHas
<1>2. k + 1 \in 1..Len(p.lines) /\ Len(p.lines) \in Nat
  BY FormPartsHave
<1>3. /\ PartOf(n, p)[3 + (k + 1)] = line /\ line.kind = p.lines[k + 1] /\ line.arg \in Nat
      /\ line.kind \in {"empty", "text", "textlf"}
      /\ k + 1 = Len(p.lines) => line.kind # "textlf"
  <2>1. PartOf(n, p)[3 + (k + 1)] = line
    BY <1>2, PartOfIs
  <2>2. line.kind = p.lines[k + 1] /\ line.arg = k + 1
    BY DEF Line
  <2>3. /\ p.lines[k + 1] \in {"empty", "text", "textlf"}
        /\ k + 1 = Len(p.lines) => p.lines[k + 1] # "textlf"
    BY <1>2, FormPartsHave
  <2> HIDE DEF line
  <2> QED BY <2>1, <2>2, <2>3
<1>4. Text(n, p, k + 1) = Text(n, p, k) \o Bytes(line)
  BY <1>2, TextSteps
<1> HIDE DEF line
<1>5. ParsePartLine(part, line, TRUE) = after
  BY <1>1, <1>3 DEF ParsePartLine
<1>6. /\ after \in Parts /\ after.state = part.state
      /\ line.kind # "textlf" => after.maybeLastLine
      /\ Continues(after, part, line)
  BY <1>1, <1>3, AddContentIs
<1> HIDE DEF after
<1> QED BY <1>1, <1>3, <1>4, <1>5, <1>6 DEF PartHas, Continues

LEMMA PartStep ==
  ASSUME NEW n, NEW p \in FormParts, NEW l \in Nat, l + 1 <= 3 + Len(p.lines),
         NEW part, PartStands(part, n, p, l)
  PROVE  PartStands(ParsePartLine(part, PartOf(n, p)[l + 1], TRUE), n, p, l + 1)
<1>1. Len(p.lines) \in Nat \ {0}
  BY FormPartsHave
<1>2. CASE l = 1 /\ part = NewPart
  <2>1. l + 1 = 2
    BY <1>2
  <2> QED BY <1>2, <2>1, PartHeadings DEF PartStands
<1>3. CASE l = 2 /\ part = [NewPart EXCEPT !.file = p.file]
  <2>1. l + 1 = 3 /\ 3 = 3 + 0 /\ 0 <= Len(p.lines) /\ 0 \in Nat
    BY <1>1, <1>3
  <2>2. PartHas(ParsePartLine(part, PartOf(n, p)[l + 1], TRUE), n, p, 0)
    BY <1>3, <2>1, PartHeadings
  <2> QED BY <2>1, <2>2 DEF PartStands
<1>4. CASE \E k \in Nat : k <= Len(p.lines) /\ l = 3 + k /\ PartHas(part, n, p, k)
  <2>1. PICK k \in Nat : k <= Len(p.lines) /\ l = 3 + k /\ PartHas(part, n, p, k)
    BY <1>4
  <2>2. l + 1 = 3 + (k + 1) /\ k + 1 <= Len(p.lines) /\ k + 1 \in Nat
    BY <1>1, <2>1
  <2>3. PartHas(ParsePartLine(part, PartOf(n, p)[l + 1], TRUE), n, p, k + 1)
    BY <2>1, <2>2, PartBody
  <2> QED BY <2>2, <2>3 DEF PartStands
<1> QED BY <1>2, <1>3, <1>4 DEF PartStands

LEMMA PartTyped ==
  ASSUME NEW n, NEW p \in FormParts, NEW l, NEW part, PartStands(part, n, p, l)
  PROVE  part \in Parts
<1>1. p.file \in BOOLEAN
  BY FormPartsHave
<1> QED BY <1>1, PartsAre DEF PartStands, PartHas

(* the CRLF that is still held back then belongs to the boundary *)
LEMMA PartWhole ==
  ASSUME NEW n, NEW p \in FormParts, NEW part, PartStands(part, n, p, 3 + Len(p.lines))
  PROVE  Whole(part, n, p)
<1> DEFINE N == Len(p.lines)
<1>1. N \in Nat \ {0}
  BY FormPartsHave
<1>2. PartHas(part, n, p, N)
  BY <1>1 DEF PartStands
<1>3. /\ part \in Parts /\ part.maybeLastLine
      /\ part.content \o Held(part) = Text(n, p, N)
  BY <1>2 DEF PartHas
<1>4. part.content \in Seq(Texts) /\ Held(part) = <<CRLF>>
  BY <1>3, PartsAre DEF Held
<1> DEFINE a == part.content
           b == <<CRLF>> \o SentIn(n, p)
           c == <<CRLF>>
<1>5. a \in Seq(Texts) /\ b \in Seq(Texts) /\ c \in Seq(Texts) /\ a \o c = b \o c
  <2>1. SentIn(n, p) \in Seq(Texts) /\ c \in Seq(Texts)
    BY WholeText DEF Texts
  <2>2. b \in Seq(Texts)
    BY <2>1, ConcatAt
  <2>3. Text(n, p, N) = b \o c
    BY WholeText
  <2> HIDE DEF b, N
  <2> QED BY <1>3, <1>4, <2>1, <2>2, <2>3
<1> HIDE DEF a, b, c
<1>6. a = b
  BY <1>5, SameEnd
<1> QED BY <1>6 DEF Whole, a, b

-----------------------------------------------------------------------------
(* A message is followed to its end.                                       *)

LEMMA MessageHas ==
  ASSUME NEW msg \in Messages
  PROVE  /\ msg.state \in MessageStates /\ msg.multipart \in BOOLEAN /\ msg.inPart \in BOOLEAN
         /\ msg.parts \in Seq(Parts) /\ Len(msg.parts) \in Nat
         /\ DOMAIN msg.parts = 1..Len(msg.parts)
         /\ \A i \in 1..Len(msg.parts) : msg.parts[i] \in Parts
<1>1. /\ msg.state \in MessageStates /\ msg.multipart \in BOOLEAN /\ msg.inPart \in BOOLEAN
      /\ msg.parts \in Seq(Parts)
  BY DEF Messages
<1> QED BY <1>1

(* one part is being read, after i others that are as they were *)
ReadsPart(next, msg, i, part) ==
  /\ next \in Messages /\ next.state = "ReadingContent" /\ next.inPart
  /\ Len(next.parts) = i + 1 /\ next.parts[i + 1] = part
  /\ \A q \in 1..i : next.parts[q].content = msg.parts[q].content

(* the line goes to the part that is being read *)
LEMMA ParseInPart ==
  ASSUME NEW msg \in Messages, msg.state = "ReadingContent", msg.inPart,
         NEW i \in Nat, Len(msg.parts) = i + 1,
         NEW line, line.kind \notin {"boundary", "final"}, NEW opened \in BOOLEAN,
         ParsePartLine(msg.parts[i + 1], line, opened) \in Parts
  PROVE  ReadsPart(ParseLine(msg, line, opened), msg, i,
                   ParsePartLine(msg.parts[i + 1], line, opened))
<1> DEFINE after == ParsePartLine(msg.parts[i + 1], line, opened)
           parts == [msg.parts EXCEPT ![i + 1] = after]
           next == [msg EXCEPT !.parts = parts]
<1>1. /\ msg.parts \in Seq(Parts) /\ DOMAIN msg.parts = 1..(i + 1) /\ after \in Parts
      /\ i + 1 \in 1..(i + 1)
  BY MessageHas
<1>2. ParseLine(msg, line, opened) = ParseContent(msg, line, opened)
  BY DEF ParseLine
<1>3. ParseContent(msg, line, opened) = next
  BY DEF ParseContent
<1> HIDE DEF after
<1>4. /\ parts \in Seq(Parts) /\ Len(parts) = i + 1 /\ parts[i + 1] = after
      /\ \A q \in 1..i : parts[q] = msg.parts[q]
  BY <1>1
<1> HIDE DEF parts
<1>5. next \in Messages /\ next.state = "ReadingContent" /\ next.inPart /\ next.parts = parts
  BY <1>4 DEF Messages
<1> HIDE DEF next
<1>6. ReadsPart(next, msg, i, after)
  BY <1>4, <1>5 DEF ReadsPart
<1> QED BY <1>2, <1>3, <1>6 DEF after

(* a boundary ends the part that is being read, and begins another *)
LEMMA PartDoneIs ==
  ASSUME NEW msg \in Messages, msg.inPart, NEW i \in Nat, Len(msg.parts) = i + 1
  PROVE  /\ PartDone(msg) \in Seq(Parts) /\ Len(PartDone(msg)) = i + 1
         /\ \A q \in 1..(i + 1) : PartDone(msg)[q].content = msg.parts[q].content
<1> DEFINE last == msg.parts[i + 1]
           done == [last EXCEPT !.state = "Finished"]
<1>1. /\ msg.parts \in Seq(Parts) /\ DOMAIN msg.parts = 1..(i + 1) /\ last \in Parts
      /\ i + 1 \in 1..(i + 1)
  BY MessageHas
<1>2. PartDone(msg) = [msg.parts EXCEPT ![i + 1] = done]
  BY DEF PartDone
<1>3. done \in Parts /\ done.content = last.content
  <2> HIDE DEF last
  <2> QED BY <1>1 DEF Parts, MessageStates
<1> HIDE DEF done
<1>4. /\ PartDone(msg) \in Seq(Parts) /\ Len(PartDone(msg)) = i + 1
      /\ PartDone(msg)[i + 1] = done
      /\ \A q \in 1..i : PartDone(msg)[q] = msg.parts[q]
  BY <1>1, <1>2, <1>3
<1>5. \A q \in 1..(i + 1) : q = i + 1 \/ q \in 1..i
  OBVIOUS
<1> QED BY <1>3, <1>4, <1>5

LEMMA ParseBoundary ==
  ASSUME NEW msg \in Messages, msg.state = "ReadingContent", NEW i \in Nat,
         \/ msg.inPart /\ Len(msg.parts) = i
         \/ ~msg.inPart /\ msg.parts = <<>> /\ i = 0,
         i = 0 => ~msg.inPart,
         NEW line, line.kind = "boundary", NEW opened \in BOOLEAN
  PROVE  ReadsPart(ParseLine(msg, line, opened), msg, i, NewPart)
<1> DEFINE done == PartDone(msg)
           parts == Append(done, NewPart)
           next == [msg EXCEPT !.parts = parts, !.inPart = TRUE]
<1>1. ParseLine(msg, line, opened) = next
  <2>1. ParseLine(msg, line, opened) = ParseContent(msg, line, opened)
    BY DEF ParseLine
  <2>2. ParseContent(msg, line, opened) = next
    BY DEF ParseContent
  <2> QED BY <2>1, <2>2
<1>2. /\ done \in Seq(Parts) /\ Len(done) = i
      /\ \A q \in 1..i : done[q].content = msg.parts[q].content
  <2>1. CASE msg.inPart /\ Len(msg.parts) = i
    <3>1. i - 1 \in Nat /\ Len(msg.parts) = (i - 1) + 1 /\ (i - 1) + 1 = i
      BY <2>1
    <3> QED BY <2>1, <3>1, PartDoneIs
  <2>2. CASE ~msg.inPart /\ msg.parts = <<>> /\ i = 0
    BY <2>2 DEF PartDone
  <2> QED BY <2>1, <2>2
<1>3. NewPart \in Parts
  BY PartsAre
<1> HIDE DEF done
<1>4. /\ parts \in Seq(Parts) /\ Len(parts) = i + 1 /\ parts[i + 1] = NewPart
      /\ \A q \in 1..i : parts[q] = done[q]
  BY <1>2, <1>3
<1> HIDE DEF parts
<1>5. next \in Messages /\ next.state = "ReadingContent" /\ next.inPart /\ next.parts = parts
  BY <1>4 DEF Messages
<1> HIDE DEF next
<1>6. ReadsPart(next, msg, i, NewPart)
  BY <1>2, <1>4, <1>5 DEF ReadsPart
<1> QED BY <1>1, <1>6

LEMMA ParseFinal ==
  ASSUME NEW msg \in Messages, msg.state = "ReadingContent", msg.inPart,
         NEW i \in Nat, Len(msg.parts) = i + 1,
         NEW line, line.kind = "final", NEW opened \in BOOLEAN
  PROVE  /\ ParseLine(msg, line, opened) \in Messages
         /\ ParseLine(msg, line, opened).state = "Finished"
         /\ DOMAIN ParseLine(msg, line, opened).parts = 1..(i + 1)
         /\ \A q \in 1..(i + 1) :
              ParseLine(msg, line, opened).parts[q].content = msg.parts[q].content
<1> DEFINE done == PartDone(msg)
           next == [msg EXCEPT !.parts = done, !.inPart = FALSE, !.state = "Finished"]
<1>1. ParseLine(msg, line, opened) = next
  <2>1. ParseLine(msg, line, opened) = ParseContent(msg, line, opened)
    BY DEF ParseLine
  <2>2. ParseContent(msg, line, opened) = next
    BY DEF ParseContent
  <2> QED BY <2>1, <2>2
<1>2. /\ done \in Seq(Parts) /\ Len(done) = i + 1
      /\ \A q \in 1..(i + 1) : done[q].content = msg.parts[q].content
  BY PartDoneIs
<1> HIDE DEF done
<1>3. "Finished" \in MessageStates
  BY DEF MessageStates
<1>4. next \in Messages /\ next.state = "Finished" /\ next.parts = done
  BY <1>2, <1>3 DEF Messages
<1>5. DOMAIN done = 1..(i + 1)
  BY <1>2
<1> HIDE DEF next
<1> QED BY <1>1, <1>2, <1>4, <1>5

(* a message that has been read whole, and the lines of its request that   *)
(* are left                                                                *)
Ends(msg, r, n, j) ==
  /\ msg \in Messages /\ msg.state = "Finished" /\ PartsKept(msg, r, n)
  /\ \/ j = Len(LinesOf(r, n))
     \/ r.shape = "length" /\ j + 1 = Len(LinesOf(r, n))

(* what a line makes of a message, unless it ends a part that never began *)
Goes(msg, line, r, n, j) ==
  \/ Stands(ParseLine(msg, line, TRUE), r, n, j)
  \/ Ends(ParseLine(msg, line, TRUE), r, n, j)

LEMMA HeadingGoes ==
  ASSUME NEW r \in Requests, NEW n, NEW j \in Nat, NEW msg, Heading(msg, r, j)
  PROVE  /\ j + 1 <= Len(LinesOf(r, n))
         /\ Goes(msg, LinesOf(r, n)[j + 1], r, n, j + 1)
<1> DEFINE line == LinesOf(r, n)[j + 1]
           next == ParseLine(msg, line, TRUE)
<1>1. /\ msg \in Messages /\ msg.state = "ReadingHeaders" /\ msg.parts = <<>>
      /\ msg.multipart = (r.shape = "parts" /\ j = 2)
      /\ msg = [NewRequest EXCEPT !.state = "ReadingHeaders", !.multipart = msg.multipart]
  <2>1. /\ "ReadingHeaders" \in MessageStates /\ (r.shape = "parts" /\ j = 2) \in BOOLEAN
        /\ NewRequest \in Messages /\ NewRequest.parts = <<>>
    BY PartsAre DEF MessageStates, NewRequest
  <2> DEFINE multi == r.shape = "parts" /\ j = 2
  <2>2. msg = [NewRequest EXCEPT !.state = "ReadingHeaders", !.multipart = multi]
    BY DEF Heading
  <2> HIDE DEF multi
  <2>3. /\ msg \in Messages /\ msg.state = "ReadingHeaders" /\ msg.parts = <<>>
        /\ msg.multipart = multi
    BY <2>1, <2>2 DEF Messages, multi
  <2> QED BY <2>2, <2>3 DEF multi
<1>2. next = ParseHeader(msg, line)
  BY <1>1 DEF ParseLine
<1>3. r.shape # "bad" /\ (j = 1 \/ (j = 2 /\ r.shape # "plain"))
  BY DEF Heading
<1>4. ASSUME line.kind = "empty"
      PROVE  next = [msg EXCEPT !.state = IF msg.multipart THEN "ReadingContent" ELSE "Finished"]
  <2>1. ASSUME NEW q, NEW m, m.kind = "empty"
        PROVE  ParseHeader(q, m)
                 = [q EXCEPT !.state = IF q.multipart THEN "ReadingContent" ELSE "Finished"]
    BY <2>1 DEF ParseHeader, Headers
  <2> HIDE DEF line, next
  <2> QED BY <1>2, <1>4, <2>1
<1>5. ASSUME line.kind \in Headers
      PROVE  next = [msg EXCEPT !.multipart = msg.multipart \/ line.kind = "multipart"]
  <2>1. line.kind # "empty"
    BY <1>5 DEF Headers
  <2> QED BY <1>2, <1>5, <2>1 DEF ParseHeader
<1>6. ASSUME line.kind = "empty", ~msg.multipart,
             j + 1 = Len(LinesOf(r, n)) \/ (r.shape = "length" /\ j + 2 = Len(LinesOf(r, n)))
      PROVE  Ends(next, r, n, j + 1)
  <2>1. next = [msg EXCEPT !.state = "Finished"] /\ "Finished" \in MessageStates
    BY <1>4, <1>6 DEF MessageStates
  <2> HIDE DEF next
  <2>2. next \in Messages /\ next.state = "Finished" /\ next.parts = <<>>
    BY <1>1, <2>1 DEF Messages
  <2>3. DOMAIN next.parts = {}
    BY <2>2
  <2>4. (j + 1) + 1 = j + 2
    OBVIOUS
  <2> QED BY <1>6, <2>2, <2>3, <2>4 DEF Ends, PartsKept
<1>g. Stands(next, r, n, j + 1) \/ Ends(next, r, n, j + 1)
        => Goes(msg, LinesOf(r, n)[j + 1], r, n, j + 1)
  BY Zenon DEF Goes
<1>k. \A k, arg : Line(n, k, arg).kind = k
  BY DEF Line
<1>7. CASE r.shape = "plain"
  <2>1. Len(LinesOf(r, n)) = 2 /\ j + 1 = 2 /\ line.kind = "empty"
    <3>1. j + 1 = 2
      BY <1>3, <1>7
    <3>2. Len(LinesOf(r, n)) = 2 /\ LinesOf(r, n)[2] = Line(n, "empty", 0)
      BY <1>7, ShortLines
    <3> QED BY <3>1, <3>2, <1>k
  <2>2. ~msg.multipart
    BY <1>1, <1>7
  <2> HIDE DEF next, line
  <2> QED BY <1>6, <1>g, <2>1, <2>2
<1>8. CASE r.shape = "length"
  <2>1. Len(LinesOf(r, n)) = 4 /\ ~msg.multipart
    BY <1>1, <1>8, ShortLines
  <2>2. CASE j = 1
    <3>1. line.kind = "header" /\ j + 1 = 2
      <4>1. j + 1 = 2 /\ LinesOf(r, n)[2] = Line(n, "header", 0)
        BY <1>8, <2>2, ShortLines
      <4> QED BY <4>1, <1>k
    <3>2. next = msg
      <4>1. line.kind \in Headers /\ line.kind # "multipart"
        BY <3>1 DEF Headers
      <4>2. (msg.multipart \/ line.kind = "multipart") = msg.multipart
        BY <1>1, <4>1
      <4>3. next = [msg EXCEPT !.multipart = msg.multipart]
        BY <1>5, <4>1, <4>2
      <4> HIDE DEF next
      <4> QED BY <1>1, <4>3 DEF Messages
    <3>3. Heading(next, r, j + 1)
      <4>1. msg.multipart = (r.shape = "parts" /\ j + 1 = 2)
        BY <1>1, <1>8
      <4> HIDE DEF next
      <4> QED BY <1>1, <1>3, <1>8, <3>1, <3>2, <4>1 DEF Heading
    <3>4. Stands(next, r, n, j + 1)
      BY <3>3, Zenon DEF Stands
    <3> HIDE DEF next, line
    <3> QED BY <1>g, <2>1, <3>1, <3>4
  <2>3. CASE j = 2
    <3>1. line.kind = "empty" /\ j + 2 = 4 /\ j + 1 <= 4
      <4>1. j + 1 = 3 /\ LinesOf(r, n)[3] = Line(n, "empty", 0)
        BY <1>8, <2>3, ShortLines
      <4> QED BY <4>1, <1>k, <2>3
    <3> HIDE DEF next, line
    <3> QED BY <1>6, <1>g, <1>8, <2>1, <3>1
  <2> QED BY <1>3, <2>2, <2>3
<1>9. CASE r.shape = "parts"
  <2>1. Len(LinesOf(r, n)) >= 4
    BY <1>9, FormLines
  <2>2. CASE j = 1
    <3>1. line.kind = "multipart" /\ j + 1 = 2
      <4>1. j + 1 = 2 /\ LinesOf(r, n)[2] = Line(n, "multipart", 0)
        BY <1>9, <2>2, FormLines
      <4> QED BY <4>1, <1>k
    <3>2. next = [msg EXCEPT !.multipart = TRUE]
      <4>1. line.kind \in Headers
        BY <3>1 DEF Headers
      <4>2. (msg.multipart \/ line.kind = "multipart") = TRUE
        BY <3>1
      <4> QED BY <1>5, <4>1, <4>2
    <3>3. Heading(next, r, j + 1)
      <4>1. next = [NewRequest EXCEPT !.state = "ReadingHeaders", !.multipart = TRUE]
        <5> HIDE DEF next
        <5> QED BY <1>1, <3>2 DEF NewRequest
      <4>2. (r.shape = "parts" /\ j + 1 = 2) = TRUE
        BY <1>9, <3>1
      <4> HIDE DEF next
      <4> QED BY <1>9, <3>1, <4>1, <4>2 DEF Heading
    <3>4. j + 1 <= Len(LinesOf(r, n))
      BY <2>1, <2>2
    <3>5. Stands(next, r, n, j + 1)
      BY <3>3, Zenon DEF Stands
    <3> QED BY <1>g, <3>4, <3>5, Zenon
  <2>3. CASE j = 2
    <3>1. line.kind = "empty" /\ j + 1 = 3 /\ msg.multipart = TRUE
      <4>1. j + 1 = 3 /\ LinesOf(r, n)[3] = Line(n, "empty", 0)
        BY <1>9, <2>3, FormLines
      <4>2. msg.multipart = TRUE
        BY <1>1, <1>9, <2>3
      <4> QED BY <4>1, <4>2, <1>k
    <3>2. next = [msg EXCEPT !.state = "ReadingContent"]
      BY <1>4, <3>1
    <3>3. next = [NewRequest EXCEPT !.state = "ReadingContent", !.multipart = TRUE]
      <4> HIDE DEF next
      <4> QED BY <1>1, <3>1, <3>2 DEF NewRequest
    <3>4. Between(next, r, j + 1)
      BY <1>9, <3>1, <3>3 DEF Between
    <3>5. j + 1 <= Len(LinesOf(r, n))
      BY <2>1, <2>3
    <3>6. Stands(next, r, n, j + 1)
      BY <3>4, Zenon DEF Stands
    <3> QED BY <1>g, <3>5, <3>6, Zenon
  <2> QED BY <1>3, <2>2, <2>3
<1> QED BY <1>3, <1>7, <1>8, <1>9, RequestHas

LEMMA PartKinds ==
  ASSUME NEW n, NEW p \in FormParts, NEW l \in Nat, l >= 1, l + 1 <= 3 + Len(p.lines)
  PROVE  PartOf(n, p)[l + 1].kind \notin {"boundary", "final"}
<1>1. Len(p.lines) \in Nat /\ \A k, arg : Line(n, k, arg).kind = k
  BY FormPartsHave DEF Line
<1>2. CASE l = 1
  <2>1. l + 1 = 2 /\ PartOf(n, p)[2] = Line(n, IF p.file THEN "filename" ELSE "header", 0)
    BY <1>2, PartOfIs
  <2>2. (IF p.file THEN "filename" ELSE "header") \notin {"boundary", "final"}
    OBVIOUS
  <2> QED BY <1>1, <2>1, <2>2
<1>3. CASE l = 2
  <2>1. l + 1 = 3 /\ PartOf(n, p)[3] = Line(n, "empty", 0)
    BY <1>3, PartOfIs
  <2> QED BY <1>1, <2>1
<1>4. CASE l > 2
  <2> DEFINE k == l - 2
  <2>1. k \in 1..Len(p.lines) /\ l + 1 = 3 + k
    BY <1>1, <1>4
  <2>2. PartOf(n, p)[3 + k] = Line(n, p.lines[k], k) /\ p.lines[k] \in {"empty", "text", "textlf"}
    BY <2>1, PartOfIs, FormPartsHave
  <2> HIDE DEF k
  <2> QED BY <1>1, <2>1, <2>2
<1> QED BY <1>2, <1>3, <1>4

(* the lines of a part *)
LEMMA InsideStep ==
  ASSUME NEW r \in Requests, NEW n, NEW i \in Nat, i + 1 <= Len(r.parts),
         NEW l \in Nat, l >= 1, l + 1 <= 3 + Len(r.parts[i + 1].lines),
         NEW msg, Inside(msg, r, n, i, l)
  PROVE  Inside(ParseLine(msg, PartOf(n, r.parts[i + 1])[l + 1], TRUE), r, n, i, l + 1)
<1> DEFINE p == r.parts[i + 1]
           line == PartOf(n, p)[l + 1]
           after == ParsePartLine(msg.parts[i + 1], line, TRUE)
           next == ParseLine(msg, line, TRUE)
<1>1. p \in FormParts
  BY RequestHas
<1>2. /\ msg \in Messages /\ msg.state = "ReadingContent" /\ msg.inPart
      /\ Len(msg.parts) = i + 1
      /\ \A q \in 1..i : Whole(msg.parts[q], n, r.parts[q])
      /\ PartStands(msg.parts[i + 1], n, p, l)
  BY DEF Inside
<1>3. l + 1 <= 3 + Len(p.lines)
  OBVIOUS
<1> HIDE DEF p
<1>4. line.kind \notin {"boundary", "final"}
  BY <1>1, <1>3, PartKinds
<1>5. PartStands(after, n, p, l + 1)
  BY <1>1, <1>2, <1>3, PartStep
<1>6. after \in Parts
  BY <1>1, <1>5, PartTyped
<1> HIDE DEF line
<1>7. ReadsPart(next, msg, i, after)
  BY <1>2, <1>4, <1>6, ParseInPart
<1> HIDE DEF after, next
<1>w. \A q \in 1..i : Whole(next.parts[q], n, r.parts[q])
  BY <1>2, <1>7 DEF Whole, ReadsPart
<1>8. Inside(next, r, n, i, l + 1)
  BY <1>5, <1>7, <1>w DEF Inside, ReadsPart, p
<1> QED BY <1>8 DEF next, line, p

(* the boundary before a part *)
LEMMA InsideNext ==
  ASSUME NEW r \in Requests, NEW n, NEW i \in Nat, i + 1 <= Len(r.parts), NEW msg,
         \/ Between(msg, r, 3) /\ i = 0
         \/ \E h \in Nat : /\ i = h + 1
                           /\ Inside(msg, r, n, h, 3 + Len(r.parts[i].lines))
  PROVE  Inside(ParseLine(msg, PartOf(n, r.parts[i + 1])[1], TRUE), r, n, i, 1)
<1> DEFINE line == PartOf(n, r.parts[i + 1])[1]
           next == ParseLine(msg, line, TRUE)
<1>1. line.kind = "boundary"
  <2>1. r.parts[i + 1] \in FormParts
    BY RequestHas
  <2>2. line = Line(n, "boundary", 0)
    BY <2>1, PartOfIs
  <2> HIDE DEF line
  <2> QED BY <2>2 DEF Line
<1>2. /\ msg \in Messages /\ msg.state = "ReadingContent"
      /\ \/ msg.inPart /\ Len(msg.parts) = i
         \/ ~msg.inPart /\ msg.parts = <<>> /\ i = 0
      /\ i = 0 => ~msg.inPart
      /\ \A q \in 1..i : Whole(msg.parts[q], n, r.parts[q])
  <2>1. CASE Between(msg, r, 3) /\ i = 0
    <3>1. NewRequest \in Messages /\ NewRequest.parts = <<>> /\ NewRequest.inPart = FALSE
          /\ "ReadingContent" \in MessageStates
      BY PartsAre DEF NewRequest, MessageStates
    <3>2. msg = [NewRequest EXCEPT !.state = "ReadingContent", !.multipart = TRUE]
      BY <2>1 DEF Between
    <3>3. /\ msg \in Messages /\ msg.state = "ReadingContent" /\ msg.inPart = FALSE
          /\ msg.parts = <<>>
      BY <3>1, <3>2 DEF Messages
    <3>4. 1..i = {}
      BY <2>1
    <3> QED BY <2>1, <3>3, <3>4
  <2>2. CASE \E h \in Nat : i = h + 1 /\ Inside(msg, r, n, h, 3 + Len(r.parts[i].lines))
    <3>1. PICK h \in Nat : i = h + 1 /\ Inside(msg, r, n, h, 3 + Len(r.parts[i].lines))
      BY <2>2
    <3>2. /\ msg \in Messages /\ msg.state = "ReadingContent" /\ msg.inPart
          /\ Len(msg.parts) = i
          /\ \A q \in 1..h : Whole(msg.parts[q], n, r.parts[q])
          /\ PartStands(msg.parts[i], n, r.parts[i], 3 + Len(r.parts[i].lines))
      BY <3>1 DEF Inside
    <3>3. Whole(msg.parts[i], n, r.parts[i])
      <4>1. i \in 1..Len(r.parts)
        BY <3>1, RequestHas
      <4>2. r.parts[i] \in FormParts
        BY <4>1, RequestHas
      <4> QED BY <3>2, <4>2, PartWhole
    <3>4. \A q \in 1..i : q \in 1..h \/ q = i
      BY <3>1
    <3>5. i # 0
      BY <3>1
    <3> QED BY <3>2, <3>3, <3>4, <3>5
  <2> QED BY <2>1, <2>2
<1> HIDE DEF line
<1>3. ReadsPart(next, msg, i, NewPart)
  BY <1>1, <1>2, ParseBoundary
<1> HIDE DEF next
<1>4. \A q \in 1..i : Whole(next.parts[q], n, r.parts[q])
  BY <1>2, <1>3 DEF Whole, ReadsPart
<1>5. PartStands(next.parts[i + 1], n, r.parts[i + 1], 1)
  BY <1>3 DEF PartStands, ReadsPart
<1>6. Inside(next, r, n, i, 1)
  BY <1>3, <1>4, <1>5 DEF Inside, ReadsPart
<1> QED BY <1>6 DEF next, line

(* the last boundary *)
LEMMA InsideLast ==
  ASSUME NEW r \in Requests, NEW n, r.shape = "parts", NEW i \in Nat, i + 1 = Len(r.parts),
         NEW msg, Inside(msg, r, n, i, 3 + Len(r.parts[i + 1].lines)),
         NEW line, line.kind = "final"
  PROVE  Ends(ParseLine(msg, line, TRUE), r, n, Len(LinesOf(r, n)))
<1> DEFINE next == ParseLine(msg, line, TRUE)
<1>1. /\ msg \in Messages /\ msg.state = "ReadingContent" /\ msg.inPart
      /\ Len(msg.parts) = i + 1
      /\ \A q \in 1..i : Whole(msg.parts[q], n, r.parts[q])
      /\ PartStands(msg.parts[i + 1], n, r.parts[i + 1], 3 + Len(r.parts[i + 1].lines))
  BY DEF Inside
<1>2. Whole(msg.parts[i + 1], n, r.parts[i + 1])
  <2>1. i + 1 \in 1..Len(r.parts)
    OBVIOUS
  <2>2. r.parts[i + 1] \in FormParts
    BY <2>1, RequestHas
  <2> QED BY <1>1, <2>2, PartWhole
<1>3. /\ next \in Messages /\ next.state = "Finished" /\ DOMAIN next.parts = 1..(i + 1)
      /\ \A q \in 1..(i + 1) : next.parts[q].content = msg.parts[q].content
  BY <1>1, ParseFinal
<1> HIDE DEF next
<1>4. \A q \in 1..(i + 1) : q \in 1..i \/ q = i + 1
  OBVIOUS
<1>5. \A q \in 1..(i + 1) : Whole(next.parts[q], n, r.parts[q])
  BY <1>1, <1>2, <1>3, <1>4 DEF Whole
<1>6. PartsKept(next, r, n)
  BY <1>3, <1>5 DEF PartsKept
<1>7. Ends(next, r, n, Len(LinesOf(r, n)))
  BY <1>3, <1>6 DEF Ends
<1> QED BY <1>7 DEF next

LEMMA StandsTyped ==
  ASSUME NEW r \in Requests, NEW n, NEW j, NEW msg, Stands(msg, r, n, j)
  PROVE  /\ msg \in Messages /\ msg.state \in {"ReadingHeaders", "ReadingContent"}
         /\ msg.inPart => \E i \in Nat : Len(msg.parts) = i + 1
<1>1. /\ NewRequest \in Messages /\ NewRequest.inPart = FALSE
      /\ "ReadingHeaders" \in MessageStates /\ "ReadingContent" \in MessageStates
  BY PartsAre DEF NewRequest, MessageStates
<1>2. CASE Heading(msg, r, j)
  <2> DEFINE multi == r.shape = "parts" /\ j = 2
  <2>1. msg = [NewRequest EXCEPT !.state = "ReadingHeaders", !.multipart = multi]
        /\ multi \in BOOLEAN
    BY <1>2 DEF Heading
  <2> HIDE DEF multi
  <2> QED BY <1>1, <2>1 DEF Messages
<1>3. CASE Between(msg, r, j)
  <2>1. msg = [NewRequest EXCEPT !.state = "ReadingContent", !.multipart = TRUE]
    BY <1>3 DEF Between
  <2> QED BY <1>1, <2>1 DEF Messages
<1>4. CASE \E i \in Nat : \E l \in Nat : Inside(msg, r, n, i, l)
  BY <1>4 DEF Inside
<1> QED BY <1>2, <1>3, <1>4 DEF Stands

LEMMA InsideGoes ==
  ASSUME NEW r \in Requests, NEW n, r.shape = "parts", NEW i \in Nat, i + 1 <= Len(r.parts),
         NEW l \in 1..(3 + Len(r.parts[i + 1].lines)), NEW msg, Inside(msg, r, n, i, l),
         NEW j \in Nat, j = 3 + (PartOffset(r, n, i) + l)
  PROVE  /\ j + 1 <= Len(LinesOf(r, n))
         /\ Goes(msg, LinesOf(r, n)[j + 1], r, n, j + 1)
<1> DEFINE N == 3 + Len(r.parts[i + 1].lines)
           O == PartOffset(r, n, i)
           line == LinesOf(r, n)[j + 1]
           next == ParseLine(msg, line, TRUE)
<1>1. /\ r.parts[i + 1] \in FormParts /\ O \in Nat /\ PartOffset(r, n, i + 1) = O + N
      /\ \A m \in 1..N : /\ O + m \in 1..Len(FlattenSeq(PartsOf(r, n)))
                         /\ FlattenSeq(PartsOf(r, n))[O + m] = PartOf(n, r.parts[i + 1])[m]
  BY PartPlaces
<1>2. /\ PartOffset(r, n, Len(r.parts)) = Len(FlattenSeq(PartsOf(r, n)))
      /\ PartOffset(r, n, Len(r.parts)) \in Nat
      /\ Len(LinesOf(r, n)) = (3 + PartOffset(r, n, Len(r.parts))) + 1
      /\ LinesOf(r, n)[(3 + PartOffset(r, n, Len(r.parts))) + 1] = Line(n, "final", 0)
      /\ \A k \in 1..PartOffset(r, n, Len(r.parts)) :
           LinesOf(r, n)[3 + k] = FlattenSeq(PartsOf(r, n))[k]
  BY PartEnds, FormLines
<1>3. N \in Nat /\ l \in 1..N /\ Len(r.parts) \in Nat /\ l \in Nat /\ l >= 1
  <2>1. Len(r.parts[i + 1].lines) \in Nat
    BY <1>1, FormPartsHave
  <2> QED BY <2>1, RequestHas
<1>g. Stands(next, r, n, j + 1) \/ Ends(next, r, n, j + 1)
        => Goes(msg, LinesOf(r, n)[j + 1], r, n, j + 1)
  BY Zenon DEF Goes
<1>s. ASSUME NEW h \in Nat, NEW k \in Nat, h + 1 <= Len(r.parts),
             k \in 1..(3 + Len(r.parts[h + 1].lines)),
             j + 1 = 3 + (PartOffset(r, n, h) + k), Inside(next, r, n, h, k)
      PROVE  Stands(next, r, n, j + 1)
  <2> HIDE DEF next
  <2> QED BY <1>s DEF Stands
<1>4. CASE l + 1 <= N
  <2>1. l + 1 \in 1..N /\ j + 1 = 3 + (O + (l + 1)) /\ l + 1 \in Nat
    BY <1>1, <1>3, <1>4
  <2>2. /\ O + (l + 1) \in 1..PartOffset(r, n, Len(r.parts))
        /\ line = PartOf(n, r.parts[i + 1])[l + 1]
    <3> HIDE DEF O, N
    <3>1. /\ O + (l + 1) \in 1..Len(FlattenSeq(PartsOf(r, n)))
          /\ FlattenSeq(PartsOf(r, n))[O + (l + 1)] = PartOf(n, r.parts[i + 1])[l + 1]
      BY <1>1, <2>1
    <3> QED BY <1>2, <2>1, <3>1
  <2>3. Inside(next, r, n, i, l + 1)
    <3>1. l + 1 <= 3 + Len(r.parts[i + 1].lines)
      BY <1>4
    <3>2. Inside(ParseLine(msg, PartOf(n, r.parts[i + 1])[l + 1], TRUE), r, n, i, l + 1)
      BY <1>3, <3>1, InsideStep
    <3> QED BY <2>2, <3>2
  <2>4. Stands(next, r, n, j + 1)
    <3> HIDE DEF next
    <3> QED BY <1>s, <2>1, <2>3
  <2>5. j + 1 <= Len(LinesOf(r, n))
    <3> HIDE DEF O
    <3> QED BY <1>1, <1>2, <2>1, <2>2
  <2> HIDE DEF next
  <2> QED BY <1>g, <2>4, <2>5
<1>5. CASE l = N /\ (i + 1) + 1 <= Len(r.parts)
  <2> DEFINE P == PartOffset(r, n, i + 1)
             M == 3 + Len(r.parts[(i + 1) + 1].lines)
  <2>1. /\ r.parts[(i + 1) + 1] \in FormParts /\ P \in Nat
        /\ \A m \in 1..M : /\ P + m \in 1..Len(FlattenSeq(PartsOf(r, n)))
                           /\ FlattenSeq(PartsOf(r, n))[P + m] = PartOf(n, r.parts[(i + 1) + 1])[m]
    <3>1. i + 1 \in Nat
      OBVIOUS
    <3> QED BY <1>5, <3>1, PartPlaces
  <2>2. M \in Nat /\ 1 \in 1..M /\ j + 1 = 3 + (P + 1)
    <3>1. Len(r.parts[(i + 1) + 1].lines) \in Nat
      BY <2>1, FormPartsHave
    <3>2. j = 3 + P
      BY <1>1, <1>3, <1>5
    <3>3. P \in Nat
      BY <2>1
    <3>4. M \in Nat /\ 1 \in 1..M
      <4>1. \A k \in Nat : 3 + k \in Nat /\ 1 \in 1..(3 + k)
        OBVIOUS
      <4> QED BY <3>1, <4>1, Zenon
    <3> HIDE DEF P, M
    <3> QED BY <3>2, <3>3, <3>4
  <2>3. /\ P + 1 \in 1..PartOffset(r, n, Len(r.parts))
        /\ line = PartOf(n, r.parts[(i + 1) + 1])[1]
    <3> HIDE DEF P, M
    <3>1. /\ P + 1 \in 1..Len(FlattenSeq(PartsOf(r, n)))
          /\ FlattenSeq(PartsOf(r, n))[P + 1] = PartOf(n, r.parts[(i + 1) + 1])[1]
      BY <2>1, <2>2
    <3> QED BY <1>2, <2>2, <3>1
  <2>4. Inside(next, r, n, i + 1, 1)
    <3>1. i + 1 \in Nat /\ Inside(msg, r, n, i, 3 + Len(r.parts[i + 1].lines))
      BY <1>5
    <3>2. Inside(ParseLine(msg, PartOf(n, r.parts[(i + 1) + 1])[1], TRUE), r, n, i + 1, 1)
      BY <1>5, <3>1, InsideNext
    <3> QED BY <2>3, <3>2
  <2>5. Stands(next, r, n, j + 1)
    <3>1. i + 1 \in Nat
      OBVIOUS
    <3> HIDE DEF next
    <3> QED BY <1>5, <1>s, <2>2, <2>4, <3>1
  <2>6. j + 1 <= Len(LinesOf(r, n))
    <3> HIDE DEF P
    <3> QED BY <1>2, <2>1, <2>2, <2>3
  <2> HIDE DEF next
  <2> QED BY <1>g, <2>5, <2>6
<1>6. CASE l = N /\ i + 1 = Len(r.parts)
  <2>1. j = 3 + PartOffset(r, n, Len(r.parts))
    BY <1>1, <1>3, <1>6
  <2>2. line.kind = "final" /\ j + 1 = Len(LinesOf(r, n))
    <3>1. LinesOf(r, n)[j + 1] = Line(n, "final", 0) /\ j + 1 = Len(LinesOf(r, n))
      BY <1>2, <2>1
    <3> QED BY <3>1 DEF Line
  <2>3. Ends(next, r, n, Len(LinesOf(r, n)))
    <3>1. Inside(msg, r, n, i, 3 + Len(r.parts[i + 1].lines))
      BY <1>6
    <3> HIDE DEF line
    <3> QED BY <1>6, <2>2, <3>1, InsideLast
  <2> HIDE DEF next, line
  <2> QED BY <1>g, <1>2, <2>2, <2>3
<1> QED BY <1>3, <1>4, <1>5, <1>6

LEMMA BetweenGoes ==
  ASSUME NEW r \in Requests, NEW n, NEW j \in Nat, NEW msg, Between(msg, r, j)
  PROVE  /\ j + 1 <= Len(LinesOf(r, n))
         /\ ~EndsNoPart(msg, LinesOf(r, n)[j + 1])
              => Goes(msg, LinesOf(r, n)[j + 1], r, n, j + 1)
<1> DEFINE line == LinesOf(r, n)[j + 1]
           next == ParseLine(msg, line, TRUE)
<1>1. r.shape = "parts" /\ j = 3 /\ msg.state = "ReadingContent" /\ ~msg.inPart
  BY DEF Between, NewRequest
<1>2. /\ PartOffset(r, n, 0) = 0
      /\ PartOffset(r, n, Len(r.parts)) = Len(FlattenSeq(PartsOf(r, n)))
      /\ PartOffset(r, n, Len(r.parts)) \in Nat
      /\ Len(LinesOf(r, n)) = (3 + PartOffset(r, n, Len(r.parts))) + 1
      /\ LinesOf(r, n)[(3 + PartOffset(r, n, Len(r.parts))) + 1] = Line(n, "final", 0)
      /\ \A k \in 1..PartOffset(r, n, Len(r.parts)) :
           LinesOf(r, n)[3 + k] = FlattenSeq(PartsOf(r, n))[k]
  BY <1>1, PartEnds, FormLines
<1>9. j + 1 <= Len(LinesOf(r, n))
  BY <1>1, <1>2
<1> SUFFICES ASSUME ~EndsNoPart(msg, LinesOf(r, n)[j + 1])
             PROVE  Goes(msg, LinesOf(r, n)[j + 1], r, n, j + 1)
  BY <1>9
<1>3. Len(r.parts) \in Nat \ {0}
  <2>1. SUFFICES ASSUME Len(r.parts) = 0 PROVE FALSE
    BY RequestHas
  <2>2. j + 1 = (3 + PartOffset(r, n, Len(r.parts))) + 1
    BY <1>1, <1>2, <2>1
  <2>3. line.kind = "final"
    BY <1>2, <2>2 DEF Line
  <2> HIDE DEF line
  <2>4. EndsNoPart(msg, line)
    BY <1>1, <2>3 DEF EndsNoPart
  <2> QED BY <2>4 DEF line
<1>4. /\ r.parts[0 + 1] \in FormParts
      /\ \A m \in 1..(3 + Len(r.parts[0 + 1].lines)) :
           /\ PartOffset(r, n, 0) + m \in 1..Len(FlattenSeq(PartsOf(r, n)))
           /\ FlattenSeq(PartsOf(r, n))[PartOffset(r, n, 0) + m] = PartOf(n, r.parts[0 + 1])[m]
  <2>1. 0 \in Nat /\ 0 + 1 <= Len(r.parts)
    BY <1>3
  <2>2. r.parts[0 + 1] \in FormParts
    BY <2>1, PartPlaces
  <2>3. ASSUME NEW m \in 1..(3 + Len(r.parts[0 + 1].lines))
        PROVE  /\ PartOffset(r, n, 0) + m \in 1..Len(FlattenSeq(PartsOf(r, n)))
               /\ FlattenSeq(PartsOf(r, n))[PartOffset(r, n, 0) + m] = PartOf(n, r.parts[0 + 1])[m]
    BY <2>1, PartPlaces
  <2> QED BY <2>2, <2>3
<1>5. 1 \in 1..(3 + Len(r.parts[0 + 1].lines))
  <2>1. Len(r.parts[0 + 1].lines) \in Nat
    BY <1>4, FormPartsHave
  <2> QED BY <2>1
<1>6. /\ 1 \in 1..PartOffset(r, n, Len(r.parts)) /\ line = PartOf(n, r.parts[0 + 1])[1]
      /\ j + 1 = 3 + (PartOffset(r, n, 0) + 1)
  <2>1. PartOffset(r, n, 0) + 1 = 1 /\ j + 1 = 3 + 1
    BY <1>1, <1>2
  <2>2. /\ 1 \in 1..Len(FlattenSeq(PartsOf(r, n)))
        /\ FlattenSeq(PartsOf(r, n))[1] = PartOf(n, r.parts[0 + 1])[1]
    BY <1>4, <1>5, <2>1
  <2> QED BY <1>2, <2>1, <2>2
<1>7. Inside(next, r, n, 0, 1)
  <2>1. 0 \in Nat /\ 0 + 1 <= Len(r.parts) /\ Between(msg, r, 3)
    BY <1>1, <1>3
  <2>2. Inside(ParseLine(msg, PartOf(n, r.parts[0 + 1])[1], TRUE), r, n, 0, 1)
    BY <2>1, InsideNext
  <2> QED BY <1>6, <2>2
<1>8. Stands(next, r, n, j + 1)
  <2>1. 0 \in Nat /\ 1 \in Nat /\ 0 + 1 <= Len(r.parts)
    BY <1>3
  <2> HIDE DEF next
  <2> QED BY <1>1, <1>5, <1>6, <1>7, <2>1 DEF Stands
<1> QED BY <1>8, Zenon DEF Goes

(* a message that stands in its request is read on to the end of it *)
LEMMA StandsGoes ==
  ASSUME NEW r \in Requests, NEW n, NEW j \in Nat, NEW msg, Stands(msg, r, n, j)
  PROVE  /\ j + 1 <= Len(LinesOf(r, n))
         /\ ~EndsNoPart(msg, LinesOf(r, n)[j + 1])
              => Goes(msg, LinesOf(r, n)[j + 1], r, n, j + 1)
<1>1. CASE Heading(msg, r, j)
  BY <1>1, HeadingGoes
<1>2. CASE Between(msg, r, j)
  BY <1>2, BetweenGoes
<1>3. ASSUME r.shape = "parts", NEW i \in Nat, NEW l \in Nat, i + 1 <= Len(r.parts),
             l \in 1..(3 + Len(r.parts[i + 1].lines)), j = 3 + (PartOffset(r, n, i) + l),
             Inside(msg, r, n, i, l)
      PROVE  /\ j + 1 <= Len(LinesOf(r, n))
             /\ Goes(msg, LinesOf(r, n)[j + 1], r, n, j + 1)
  BY <1>3, InsideGoes
<1> QED BY <1>1, <1>2, <1>3 DEF Stands

(* the first line of a message *)
LEMMA FirstGoes ==
  ASSUME NEW line
  PROVE  /\ \A r, n : line.kind = "request" /\ r.shape # "bad"
                        => Stands(ParseLine(NewRequest, line, TRUE), r, n, 1)
         /\ line.kind # "request" =>
              /\ ParseLine(NewRequest, line, TRUE) \in Messages
              /\ ParseLine(NewRequest, line, TRUE).state = "Invalid"
<1> DEFINE next == ParseLine(NewRequest, line, TRUE)
<1>1. /\ NewRequest \in Messages /\ NewRequest.multipart = FALSE
      /\ NewRequest.state = "ReadFirstLine"
      /\ "ReadingHeaders" \in MessageStates /\ "Invalid" \in MessageStates
  BY PartsAre DEF NewRequest, MessageStates
<1>2. next = [NewRequest EXCEPT !.state = IF line.kind = "request" THEN "ReadingHeaders"
                                                                  ELSE "Invalid"]
  BY <1>1 DEF ParseLine, ParseFirstLine
<1> HIDE DEF next
<1>3. ASSUME NEW r, NEW n, line.kind = "request", r.shape # "bad" PROVE Stands(next, r, n, 1)
  <2>1. next = [NewRequest EXCEPT !.state = "ReadingHeaders"]
    BY <1>2, <1>3
  <2>2. next = [NewRequest EXCEPT !.state = "ReadingHeaders", !.multipart = FALSE]
    BY <1>1, <2>1 DEF NewRequest
  <2>3. (r.shape = "parts" /\ 1 = 2) = FALSE
    OBVIOUS
  <2>4. Heading(next, r, 1)
    BY <1>3, <2>2, <2>3 DEF Heading
  <2> QED BY <2>4 DEF Stands
<1>4. line.kind # "request" => next \in Messages /\ next.state = "Invalid"
  BY <1>1, <1>2 DEF Messages
<1> QED BY <1>3, <1>4 DEF next

(* a file that is refused *)
LEMMA RefusedTyped ==
  ASSUME NEW r \in Requests, NEW n, NEW j, NEW msg, Stands(msg, r, n, j),
         NEW line, StartsUpload(msg, line)
  PROVE  /\ ParseLine(msg, line, FALSE) \in Messages
         /\ ParseLine(msg, line, FALSE).state = "ReadingContent"
<1>1. /\ msg.state = "ReadingContent" /\ msg.inPart /\ line.kind = "empty"
      /\ Last(msg.parts).state = "ReadingHeaders" /\ Last(msg.parts).file
  BY DEF StartsUpload
<1>2. PICK i \in Nat : Len(msg.parts) = i + 1
  BY <1>1, StandsTyped
<1>3. msg \in Messages
  BY StandsTyped
<1> DEFINE part == msg.parts[i + 1]
<1>4. part \in Parts /\ part.state = "ReadingHeaders" /\ part.file
  <2>1. Last(msg.parts) = part
    BY <1>2 DEF Last
  <2>2. i + 1 \in 1..Len(msg.parts)
    BY <1>2
  <2> QED BY <1>1, <1>3, <2>1, <2>2, MessageHas
<1> HIDE DEF part
<1>5. ParsePartLine(part, line, FALSE) = [part EXCEPT !.state = "WaitingForContentDevice"]
  <2>1. ASSUME NEW q, NEW m, q.state = "ReadingHeaders", m.kind = "empty"
        PROVE  ParsePartLine(q, m, FALSE) = EndPartHeaders(q, m, FALSE)
    BY <2>1 DEF ParsePartLine, Headers
  <2>2. EndPartHeaders(part, line, FALSE) = [part EXCEPT !.state = "WaitingForContentDevice"]
    BY <1>4 DEF EndPartHeaders
  <2> QED BY <1>1, <1>4, <2>1, <2>2
<1>6. ParsePartLine(part, line, FALSE) \in Parts
  BY <1>4, <1>5 DEF Parts, MessageStates
<1>7. ReadsPart(ParseLine(msg, line, FALSE), msg, i, ParsePartLine(msg.parts[i + 1], line, FALSE))
  <2>1. line.kind \notin {"boundary", "final"}
    BY <1>1
  <2>2. ParsePartLine(msg.parts[i + 1], line, FALSE) \in Parts
    BY <1>6 DEF part
  <2> QED BY <1>1, <1>2, <1>3, <2>1, <2>2, ParseInPart
<1> QED BY <1>7 DEF ReadsPart

-----------------------------------------------------------------------------
(* The socket is read one request after the other.                         *)

(* Readable, of any requests *)
Sound(s) ==
  \A n \in DOMAIN s : \/ s[n].shape = "plain"
                      \/ s[n].shape = "parts" /\ s[n].parts # <<>>

(* k lines of the socket are those of the first m requests, but perhaps    *)
(* for the last, when that is left over                                    *)
Starts(k, s, m) ==
  \/ k = Offset(s, m)
  \/ m > 0 /\ s[m].shape \in {"length", "bad"} /\ k + 1 = Offset(s, m)

(* the line after the first k is the first that the id-th controller reads *)
AtStart(k, s, id) ==
  \E m \in Nat : /\ m <= Len(s)
                 /\ Sound(s) => m + 1 = id
                 /\ Starts(k, s, m)

(* a message, of the n-th request, stands where the socket is *)
Follows(msg, n, k, s, id) ==
  \/ msg = NewRequest /\ n = 0 /\ AtStart(k, s, id)
  \/ \E m \in Nat : \E j \in Nat :
       /\ m + 1 <= Len(s)
       /\ Sound(s) => m + 1 = id
       /\ k = Offset(s, m) + j /\ n = m + 1
       /\ Stands(msg, s[m + 1], m + 1, j)

(* it does so still, or it has been read whole *)
GoesOn(msg, n, k, s, id) ==
  /\ msg \in Messages /\ n \in DOMAIN s /\ n # 0
  /\ Sound(s) => n = id
  /\ \/ /\ msg.state \in {"ReadingHeaders", "ReadingContent"}
        /\ Follows(msg, n, k, s, id)
     \/ /\ msg.state \in {"Finished", "Invalid"}
        /\ AtStart(k, s, id + 1)
        /\ msg.state = "Finished" => PartsKept(msg, s[n], n)

LEMMA FreshGoesOn ==
  ASSUME NEW s \in Seq(Requests), NEW k \in Nat, k + 1 <= Len(Input(s)), NEW id \in Nat,
         AtStart(k, s, id)
  PROVE  /\ GoesOn(ParseLine(NewRequest, Input(s)[k + 1], TRUE), Input(s)[k + 1].n, k + 1, s, id)
         /\ Sound(s) => Input(s)[k + 1].n = id
         /\ Input(s)[k + 1].kind = "request" => Input(s)[k + 1].arg \in Requests
<1> DEFINE line == Input(s)[k + 1]
           next == ParseLine(NewRequest, line, TRUE)
<1>1. PICK m \in Nat : /\ m <= Len(s)
                       /\ Sound(s) => m + 1 = id
                       /\ Starts(k, s, m)
  BY DEF AtStart
<1>2. \A h, x, arg : Line(h, x, arg).kind = x /\ Line(h, x, arg).n = h
                      /\ Line(h, x, arg).arg = arg
  BY DEF Line
<1>d. Len(s) \in Nat /\ DOMAIN s = 1..Len(s)
  OBVIOUS
<1>3. CASE k = Offset(s, m)
  <2>1. m + 1 <= Len(s)
    <3>1. m # Len(s)
      BY <1>3, PlacesEnd
    <3>2. m <= Len(s) /\ m \in Nat /\ Len(s) \in Nat
      BY <1>1, <1>d
    <3> QED BY <3>1, <3>2
  <2> DEFINE r == s[m + 1]
             L == LinesOf(r, m + 1)
  <2>2. /\ r \in Requests /\ Offset(s, m + 1) = Offset(s, m) + Len(L)
        /\ \A j \in 1..Len(L) : Input(s)[Offset(s, m) + j] = L[j]
    BY <2>1, Places
  <2>3. /\ Len(L) \in Nat /\ Len(L) >= 2
        /\ L[1] = Line(m + 1, IF r.shape = "bad" THEN "badline" ELSE "request", r)
    BY <2>2, LinesOfAre
  <2>4. /\ line = Line(m + 1, IF r.shape = "bad" THEN "badline" ELSE "request", r)
        /\ m + 1 \in DOMAIN s /\ m + 1 # 0
    <3>1. 1 \in 1..Len(L)
      BY <2>3
    <3> HIDE DEF L, r
    <3>2. Input(s)[Offset(s, m) + 1] = L[1]
      BY <2>2, <3>1
    <3>3. m + 1 \in DOMAIN s /\ m + 1 # 0
      BY <1>d, <2>1
    <3> QED BY <1>3, <2>3, <3>2, <3>3
  <2>5. line.n = m + 1 /\ line.arg = r
    <3> HIDE DEF r
    <3> QED BY <1>2, <2>4
  <2> HIDE DEF line
  <2>6. CASE r.shape # "bad"
    <3>1. Stands(next, r, m + 1, 1)
      <4>1. line.kind = "request"
        BY <1>2, <2>4, <2>6
      <4> QED BY <2>6, <4>1, FirstGoes
    <3> HIDE DEF next
    <3>2. next \in Messages /\ next.state \in {"ReadingHeaders", "ReadingContent"}
      BY <2>2, <3>1, StandsTyped
    <3>3. Follows(next, m + 1, k + 1, s, id)
      <4>1. 1 \in Nat /\ k + 1 = Offset(s, m) + 1
        BY <1>3
      <4> QED BY <1>1, <2>1, <3>1, <4>1 DEF Follows
    <3>4. GoesOn(next, m + 1, k + 1, s, id)
      BY <1>1, <2>4, <3>2, <3>3 DEF GoesOn
    <3> QED BY <1>1, <2>2, <2>5, <3>4 DEF next, line
  <2>7. CASE r.shape = "bad"
    <3>1. next \in Messages /\ next.state = "Invalid"
      <4>1. line.kind # "request"
        BY <1>2, <2>4, <2>7
      <4> QED BY <4>1, FirstGoes
    <3> HIDE DEF next
    <3>2. AtStart(k + 1, s, id + 1)
      <4>1. Len(L) = 2
        BY <2>2, <2>7, ShortLines
      <4>2. Offset(s, m) \in Nat
        BY <1>3
      <4>3. m + 1 > 0 /\ (k + 1) + 1 = Offset(s, m + 1) /\ m + 1 \in Nat
        <5> HIDE DEF L, r
        <5> QED BY <1>3, <2>2, <4>1, <4>2
      <4>4. Starts(k + 1, s, m + 1)
        BY <2>7, <4>3 DEF Starts
      <4>5. Sound(s) => (m + 1) + 1 = id + 1
        BY <1>1
      <4> QED BY <2>1, <4>3, <4>4, <4>5 DEF AtStart
    <3>3. GoesOn(next, m + 1, k + 1, s, id)
      BY <1>1, <2>4, <3>1, <3>2 DEF GoesOn
    <3> QED BY <1>1, <2>2, <2>5, <3>3 DEF next, line
  <2> QED BY <2>6, <2>7
<1>4. CASE m > 0 /\ s[m].shape \in {"length", "bad"} /\ k + 1 = Offset(s, m)
  <2>1. PICK h \in Nat : h + 1 = m
    <3>1. m - 1 \in Nat /\ (m - 1) + 1 = m
      BY <1>4
    <3> QED BY <3>1
  <2> DEFINE r == s[m]
             L == LinesOf(r, m)
  <2>2. /\ r \in Requests /\ Offset(s, h) \in Nat /\ Offset(s, m) = Offset(s, h) + Len(L)
        /\ \A j \in 1..Len(L) : Input(s)[Offset(s, h) + j] = L[j]
    <3>1. h + 1 <= Len(s)
      BY <1>1, <2>1
    <3> QED BY <2>1, <3>1, Places
  <2>3. Len(L) \in Nat /\ Len(L) >= 2 /\ L[Len(L)] \in {Line(m, "text", 1), Line(m, "empty", 0)}
    <3>1. CASE r.shape = "length"
      <4>1. Len(L) = 4 /\ L[4] = Line(m, "text", 1)
        BY <2>2, <3>1, ShortLines
      <4> HIDE DEF L
      <4> QED BY <4>1
    <3>2. CASE r.shape = "bad"
      <4>1. Len(L) = 2 /\ L[2] = Line(m, "empty", 0)
        BY <2>2, <3>2, ShortLines
      <4> HIDE DEF L
      <4> QED BY <4>1
    <3> QED BY <1>4, <3>1, <3>2
  <2>4. line \in {Line(m, "text", 1), Line(m, "empty", 0)}
    <3>1. Len(L) \in 1..Len(L) /\ k + 1 = Offset(s, h) + Len(L)
      BY <1>4, <2>2, <2>3
    <3> HIDE DEF L, r
    <3> QED BY <2>2, <2>3, <3>1
  <2>5. line.n = m /\ line.kind # "request"
    <3> HIDE DEF line
    <3> QED BY <1>2, <2>4
  <2> HIDE DEF line
  <2>6. next \in Messages /\ next.state = "Invalid"
    BY <2>5, FirstGoes
  <2>7. m \in DOMAIN s /\ m # 0
    BY <1>1, <1>d, <1>4
  <2>8. ~Sound(s)
    BY <1>4, <2>7 DEF Sound
  <2> HIDE DEF next
  <2>9. AtStart(k + 1, s, id + 1)
    <3>1. Starts(k + 1, s, m)
      BY <1>4 DEF Starts
    <3> QED BY <1>1, <2>8, <3>1 DEF AtStart
  <2>10. GoesOn(next, m, k + 1, s, id)
    BY <2>6, <2>7, <2>8, <2>9 DEF GoesOn
  <2> QED BY <2>5, <2>8, <2>10 DEF next, line
<1> QED BY <1>1, <1>3, <1>4 DEF Starts

LEMMA StandsGoesOn ==
  ASSUME NEW s \in Seq(Requests), NEW k \in Nat, NEW id \in Nat,
         NEW m \in Nat, NEW j \in Nat, m + 1 <= Len(s), Sound(s) => m + 1 = id,
         k = Offset(s, m) + j, NEW msg, Stands(msg, s[m + 1], m + 1, j)
  PROVE  /\ ~EndsNoPart(msg, Input(s)[k + 1])
              => GoesOn(ParseLine(msg, Input(s)[k + 1], TRUE), m + 1, k + 1, s, id)
         /\ Input(s)[k + 1].n = m + 1
<1> DEFINE line == Input(s)[k + 1]
           next == ParseLine(msg, line, TRUE)
           r == s[m + 1]
           L == LinesOf(r, m + 1)
<1>1. /\ r \in Requests /\ Offset(s, m + 1) = Offset(s, m) + Len(L) /\ Offset(s, m) \in Nat
      /\ \A h \in 1..Len(L) : Input(s)[Offset(s, m) + h] = L[h]
  BY Places
<1>2. L \in Seq(LineOf(m + 1)) /\ Len(L) \in Nat
  BY <1>1, LinesOfAre
<1>3. /\ j + 1 <= Len(L)
      /\ ~EndsNoPart(msg, L[j + 1]) => Goes(msg, L[j + 1], r, m + 1, j + 1)
  BY <1>1, StandsGoes
<1>4. line = L[j + 1] /\ j + 1 \in 1..Len(L)
  <2>1. j + 1 \in 1..Len(L) /\ k + 1 = Offset(s, m) + (j + 1)
    BY <1>1, <1>2, <1>3
  <2> HIDE DEF L
  <2> QED BY <1>1, <2>1
<1>5. line.n = m + 1
  <2>1. L[j + 1] \in LineOf(m + 1)
    BY <1>2, <1>4
  <2> QED BY <1>4, <2>1 DEF LineOf
<1>6. m + 1 \in DOMAIN s /\ m + 1 # 0
  OBVIOUS
<1> HIDE DEF line, L
<1>7. ASSUME ~EndsNoPart(msg, line)
      PROVE  GoesOn(next, m + 1, k + 1, s, id)
  <2>1. Stands(next, r, m + 1, j + 1) \/ Ends(next, r, m + 1, j + 1)
    BY <1>3, <1>4, <1>7 DEF Goes
  <2> HIDE DEF next
  <2>2. CASE Stands(next, r, m + 1, j + 1)
    <3>1. next \in Messages /\ next.state \in {"ReadingHeaders", "ReadingContent"}
      BY <1>1, <2>2, StandsTyped
    <3>2. Follows(next, m + 1, k + 1, s, id)
      <4>1. j + 1 \in Nat /\ k + 1 = Offset(s, m) + (j + 1)
        BY <1>1
      <4> QED BY <2>2, <4>1 DEF Follows
    <3> QED BY <1>6, <3>1, <3>2 DEF GoesOn
  <2>3. CASE Ends(next, r, m + 1, j + 1)
    <3>1. /\ next \in Messages /\ next.state = "Finished" /\ PartsKept(next, r, m + 1)
          /\ j + 1 = Len(L) \/ (r.shape = "length" /\ (j + 1) + 1 = Len(L))
      BY <2>3 DEF Ends, L
    <3>2. Starts(k + 1, s, m + 1)
      <4>1. \/ k + 1 = Offset(s, m + 1)
            \/ r.shape = "length" /\ (k + 1) + 1 = Offset(s, m + 1)
        BY <1>1, <1>2, <3>1
      <4>2. m + 1 > 0
        OBVIOUS
      <4> QED BY <4>1, <4>2 DEF Starts
    <3>3. AtStart(k + 1, s, id + 1)
      <4>1. m + 1 \in Nat /\ (Sound(s) => (m + 1) + 1 = id + 1)
        OBVIOUS
      <4> QED BY <3>2, <4>1 DEF AtStart
    <3> QED BY <1>6, <3>1, <3>3 DEF GoesOn
  <2> QED BY <2>1, <2>2, <2>3
<1> QED BY <1>5, <1>7 DEF next, line

(* a line of the socket is of the request that the controller reads, and   *)
(* the controller is where the socket is after it                          *)
LEMMA FollowsOn ==
  ASSUME NEW s \in Seq(Requests), NEW k \in Nat, k + 1 <= Len(Input(s)), NEW id \in Nat,
         NEW msg, NEW n, Follows(msg, n, k, s, id)
  PROVE  /\ ~EndsNoPart(msg, Input(s)[k + 1])
              => GoesOn(ParseLine(msg, Input(s)[k + 1], TRUE),
                        IF msg.state = "ReadFirstLine" THEN Input(s)[k + 1].n ELSE n,
                        k + 1, s, id)
         /\ Sound(s) => Input(s)[k + 1].n = id
         /\ Input(s)[k + 1].kind = "request" /\ msg.state = "ReadFirstLine"
              => Input(s)[k + 1].arg \in Requests
         /\ msg \in Messages
<1>1. CASE msg = NewRequest /\ n = 0 /\ AtStart(k, s, id)
  <2>1. NewRequest.state = "ReadFirstLine" /\ NewRequest \in Messages
    BY PartsAre DEF NewRequest
  <2> QED BY <1>1, <2>1, FreshGoesOn
<1>2. ASSUME NEW m \in Nat, NEW j \in Nat, m + 1 <= Len(s), Sound(s) => m + 1 = id,
             k = Offset(s, m) + j, n = m + 1, Stands(msg, s[m + 1], m + 1, j)
      PROVE  /\ ~EndsNoPart(msg, Input(s)[k + 1])
                  => GoesOn(ParseLine(msg, Input(s)[k + 1], TRUE), n, k + 1, s, id)
             /\ Sound(s) => Input(s)[k + 1].n = id
             /\ msg.state # "ReadFirstLine" /\ msg \in Messages
  <2>1. msg.state # "ReadFirstLine" /\ msg \in Messages
    <3>1. s[m + 1] \in Requests
      BY <1>2
    <3> QED BY <1>2, <3>1, StandsTyped
  <2> QED BY <1>2, <2>1, StandsGoesOn
<1> QED BY <1>1, <1>2 DEF Follows

-----------------------------------------------------------------------------
(* The controllers.                                                        *)

(* what holds of every controller, whether it reads or not *)
Holds(c, s, id) ==
  /\ c \in Controllers
  /\ c.n = 0 => c.msg = NewRequest /\ c.state = "ReadingRequest"
  /\ c.n # 0 => c.n \in DOMAIN s
  /\ Sound(s) => c.n \in {0, id}
  /\ c.state = "ResponseFinished" => c.code # ""
  /\ c.msg.state = "Finished" => PartsKept(c.msg, s[c.n], c.n)

LEMMA ControllerHas ==
  ASSUME NEW c \in Controllers
  PROVE  /\ c.state \in {"ReadingRequest", "RoutingRequest", "RoutedRequest", "ResponseFinished"}
         /\ c.known \in BOOLEAN /\ c.msg \in Messages /\ c.n \in Nat
         /\ c.request \in [target : Targets, old : BOOLEAN]
         /\ c.code \in {"", "200", "400", "500"}
         /\ c.source \in {"", "own", "file", "emptyfile"}
BY DEF Controllers

LEMMA AfterLineIs ==
  ASSUME NEW c \in Controllers, NEW line, NEW opened \in BOOLEAN,
         ParseLine(c.msg, line, opened) \in Messages,
         c.msg.state = "ReadFirstLine" => line.n \in Nat,
         line.kind = "request" /\ c.msg.state = "ReadFirstLine" => line.arg \in Requests
  PROVE  /\ AfterLine(c, line, opened) \in Controllers
         /\ AfterLine(c, line, opened).msg = ParseLine(c.msg, line, opened)
         /\ AfterLine(c, line, opened).n = IF c.msg.state = "ReadFirstLine" THEN line.n ELSE c.n
         /\ Reading(c) => Reading(AfterLine(c, line, opened))
<1> DEFINE msg == ParseLine(c.msg, line, opened)
           n == IF c.msg.state = "ReadFirstLine" THEN line.n ELSE c.n
           request == IF line.kind = "request" /\ c.msg.state = "ReadFirstLine"
                      THEN [target |-> line.arg.target, old |-> line.arg.old]
                      ELSE c.request
           state == IF EndsHeaders(c.msg, line) THEN RoutedState(c) ELSE c.state
           next == [c EXCEPT !.msg = msg, !.n = n, !.request = request, !.state = state]
<1>1. AfterLine(c, line, opened) = next
  BY DEF AfterLine
<1>2. msg \in Messages /\ n \in Nat
  BY ControllerHas
<1>3. request \in [target : Targets, old : BOOLEAN]
  <2>1. CASE line.kind = "request" /\ c.msg.state = "ReadFirstLine"
    <3>1. line.arg.target \in Targets /\ line.arg.old \in BOOLEAN
      BY <2>1, RequestHas
    <3> QED BY <2>1, <3>1
  <2>2. CASE ~(line.kind = "request" /\ c.msg.state = "ReadFirstLine")
    BY <2>2, ControllerHas
  <2> QED BY <2>1, <2>2
<1>4. /\ state \in {"ReadingRequest", "RoutingRequest", "RoutedRequest", "ResponseFinished"}
      /\ Reading(c) => state \in {"ReadingRequest", "RoutingRequest", "RoutedRequest"}
  <2>1. RoutedState(c) \in {"RoutingRequest", "RoutedRequest"}
    BY DEF RoutedState
  <2>2. /\ c.state \in {"ReadingRequest", "RoutingRequest", "RoutedRequest", "ResponseFinished"}
        /\ Reading(c) => c.state \in {"ReadingRequest", "RoutingRequest", "RoutedRequest"}
    BY ControllerHas DEF Reading
  <2> QED BY <2>1, <2>2
<1> HIDE DEF msg, n, request, state
<1>5. next \in Controllers /\ next.msg = msg /\ next.n = n /\ next.state = state
  BY <1>2, <1>3, <1>4 DEF Controllers
<1> HIDE DEF next
<1>6. Reading(c) => Reading(next)
  BY <1>4, <1>5 DEF Reading
<1> QED BY <1>1, <1>5, <1>6 DEF msg, n

(* a controller reads a line *)
LEMMA ReadController ==
  ASSUME NEW s \in Seq(Requests), NEW k \in Nat, k + 1 <= Len(Input(s)), NEW id \in Nat,
         NEW c, Holds(c, s, id), Reading(c), Follows(c.msg, c.n, k, s, id),
         ~EndsNoPart(c.msg, Input(s)[k + 1])
  PROVE  LET next == AfterLine(c, Input(s)[k + 1], TRUE)
         IN  /\ Holds(next, s, id) /\ Reading(next) /\ next.n # 0
             /\ ~Complete(next) => Follows(next.msg, next.n, k + 1, s, id)
             /\ Complete(next) => AtStart(k + 1, s, id + 1)
<1> DEFINE line == Input(s)[k + 1]
           next == AfterLine(c, line, TRUE)
           n == IF c.msg.state = "ReadFirstLine" THEN line.n ELSE c.n
           msg == ParseLine(c.msg, line, TRUE)
<1>1. c \in Controllers
  BY DEF Holds
<1>2. /\ GoesOn(msg, n, k + 1, s, id)
      /\ line.kind = "request" /\ c.msg.state = "ReadFirstLine" => line.arg \in Requests
  BY FollowsOn
<1>3. line.n \in Nat
  <2>1. k + 1 \in 1..Len(Input(s)) /\ DOMAIN s = 1..Len(s)
    BY PlacesEnd
  <2>2. line.n \in DOMAIN s
    BY <2>1, PlacesEnd
  <2> QED BY <2>1, <2>2
<1>4. msg \in Messages
  BY <1>2 DEF GoesOn
<1> HIDE DEF line
<1>5. /\ next \in Controllers /\ next.msg = msg /\ next.n = n /\ Reading(next)
  BY <1>1, <1>2, <1>3, <1>4, AfterLineIs
<1> HIDE DEF next, n, msg
<1>6. /\ n \in DOMAIN s /\ n # 0 /\ (Sound(s) => n = id)
      /\ msg.state = "Finished" => PartsKept(msg, s[n], n)
      /\ \/ msg.state \in {"ReadingHeaders", "ReadingContent"} /\ Follows(msg, n, k + 1, s, id)
         \/ msg.state \in {"Finished", "Invalid"} /\ AtStart(k + 1, s, id + 1)
  BY <1>2 DEF GoesOn
<1>7. Holds(next, s, id)
  BY <1>5, <1>6 DEF Holds, Reading
<1>8. Complete(next) = (msg.state \in {"Finished", "Invalid"})
  BY <1>5 DEF Complete
<1> QED BY <1>5, <1>6, <1>7, <1>8 DEF next, line

(* a controller refuses a file *)
LEMMA RefuseController ==
  ASSUME NEW s \in Seq(Requests), NEW k \in Nat, NEW id \in Nat,
         NEW c, Holds(c, s, id), Follows(c.msg, c.n, k, s, id),
         NEW line, StartsUpload(c.msg, line)
  PROVE  LET next == [AfterLine(c, line, FALSE) EXCEPT !.state = "ResponseFinished",
                                                       !.code = "500", !.source = "own"]
         IN  Holds(next, s, id) /\ next.state = "ResponseFinished" /\ next.n # 0
<1> DEFINE after == AfterLine(c, line, FALSE)
           next == [after EXCEPT !.state = "ResponseFinished", !.code = "500", !.source = "own"]
           msg == ParseLine(c.msg, line, FALSE)
<1>1. c \in Controllers /\ c.n \in Nat
  BY ControllerHas DEF Holds
<1>2. c.msg.state = "ReadingContent"
  BY DEF StartsUpload
<1>3. msg \in Messages /\ msg.state = "ReadingContent" /\ c.n # 0
  <2>1. c.msg # NewRequest
    BY <1>2 DEF NewRequest
  <2>2. PICK m \in Nat : \E j \in Nat : /\ m + 1 <= Len(s) /\ c.n = m + 1
                                        /\ Stands(c.msg, s[m + 1], m + 1, j)
    BY <2>1 DEF Follows
  <2>3. PICK j \in Nat : Stands(c.msg, s[m + 1], m + 1, j)
    BY <2>2
  <2>4. s[m + 1] \in Requests
    BY <2>2
  <2>5. msg \in Messages /\ msg.state = "ReadingContent"
    BY <2>3, <2>4, RefusedTyped
  <2>6. c.n # 0
    BY <2>2
  <2> QED BY <2>5, <2>6
<1>4. after \in Controllers /\ after.msg = msg /\ after.n = c.n
  <2>1. c.msg.state # "ReadFirstLine"
    BY <1>2
  <2> HIDE DEF after
  <2> QED BY <1>1, <1>3, <2>1, AfterLineIs DEF after
<1> HIDE DEF after, msg
<1>5. /\ next \in Controllers /\ next.msg = msg /\ next.n = c.n
      /\ next.state = "ResponseFinished" /\ next.code = "500"
  BY <1>4 DEF Controllers
<1> HIDE DEF next
<1>6. c.n \in DOMAIN s /\ (Sound(s) => c.n = id)
  BY <1>3 DEF Holds
<1>7. Holds(next, s, id)
  BY <1>3, <1>5, <1>6 DEF Holds
<1> QED BY <1>3, <1>5, <1>7 DEF next, after

HoldAll(q, s) == q \in Seq(Controllers) /\ \A i \in 1..Len(q) : Holds(q[i], s, i)

(* next is q but for its last controller, or with another at its end *)
Replaced(next, q, s, c) ==
  /\ HoldAll(next, s) /\ Len(next) = Len(q) /\ next[Len(q)] = c
  /\ \A i \in 1..Len(q) : i # Len(q) => next[i] = q[i]

Appended(next, q, s, c) ==
  /\ HoldAll(next, s) /\ Len(next) = Len(q) + 1 /\ next[Len(q) + 1] = c
  /\ \A i \in 1..Len(q) : next[i] = q[i]

LEMMA HoldReplace ==
  ASSUME NEW q, NEW s, HoldAll(q, s), Len(q) > 0, NEW c, Holds(c, s, Len(q))
  PROVE  Replaced([q EXCEPT ![Len(q)] = c], q, s, c)
<1> DEFINE next == [q EXCEPT ![Len(q)] = c]
<1>1. q \in Seq(Controllers) /\ c \in Controllers
  BY DEF HoldAll, Holds
<1>2. /\ next \in Seq(Controllers) /\ Len(next) = Len(q) /\ next[Len(q)] = c
      /\ \A i \in 1..Len(q) : i # Len(q) => next[i] = q[i]
  BY <1>1
<1> HIDE DEF next
<1>3. \A i \in 1..Len(q) : Holds(next[i], s, i)
  BY <1>2 DEF HoldAll
<1>4. Replaced(next, q, s, c)
  BY <1>2, <1>3 DEF HoldAll, Replaced
<1> QED BY <1>4 DEF next

LEMMA HoldAppend ==
  ASSUME NEW q, NEW s, HoldAll(q, s), NEW c, Holds(c, s, Len(q) + 1)
  PROVE  Appended(Append(q, c), q, s, c)
<1> DEFINE next == Append(q, c)
<1>1. q \in Seq(Controllers) /\ c \in Controllers
  BY DEF HoldAll, Holds
<1>2. /\ next \in Seq(Controllers) /\ Len(next) = Len(q) + 1 /\ next[Len(q) + 1] = c
      /\ \A i \in 1..Len(q) : next[i] = q[i]
      /\ Len(q) \in Nat
  BY <1>1
<1> HIDE DEF next
<1>3. \A i \in 1..(Len(q) + 1) : Holds(next[i], s, i)
  <2>1. \A i \in 1..(Len(q) + 1) : i \in 1..Len(q) \/ i = Len(q) + 1
    BY <1>2
  <2> QED BY <1>2, <2>1 DEF HoldAll
<1>4. Appended(next, q, s, c)
  BY <1>2, <1>3 DEF HoldAll, Appended
<1> QED BY <1>4 DEF next

-----------------------------------------------------------------------------
(* The invariant: the types, and one controller reads, from where the      *)
(* socket is.                                                              *)

LinesSent == script \in Seq(Requests) /\ lines = Input(script)

Counts ==
  /\ pipelines \in BOOLEAN
  /\ arrived \in Nat /\ arrived <= Len(lines) /\ read \in Nat /\ read <= arrived
  /\ open \in BOOLEAN /\ repo \in BOOLEAN
  /\ pc \in {"idle", "read", "action", "send"}
  /\ up \in {"open", "closing", "closed", "dead"}
  /\ disk \in {"same", "changed", "gone", "nodir"}

Outputs == [what : {"body", "head"}, n : Nat, code : {"200", "400", "500"}]

Listed ==
  /\ HoldAll(ctl, script)
  /\ controllers \in Seq(1..Len(ctl)) /\ sending \in Seq(1..Len(ctl))
  /\ out \in Seq(Outputs)

OneReads ==
  /\ \A i \in 1..Len(ctl) : Reading(ctl[i]) => i = Len(ctl)
  /\ open => Len(ctl) > 0
  /\ pc = "read" => open /\ up = "open" /\ Reading(ctl[Len(ctl)])
  /\ pc = "action" => /\ ~open /\ up = "open" /\ Len(ctl) > 0
                      /\ Reading(ctl[Len(ctl)]) /\ ctl[Len(ctl)].n # 0
  /\ pc \in {"idle", "send"} /\ up = "open" /\ ~open
       => \A i \in 1..Len(ctl) : ~Reading(ctl[i])
  /\ up = "open" /\ open /\ Reading(ctl[Len(ctl)])
       => Follows(ctl[Len(ctl)].msg, ctl[Len(ctl)].n, read, script, Len(ctl))
  /\ up = "open" /\ ~open => AtStart(read, script, Len(ctl) + 1)

ReadsInv == LinesSent /\ Counts /\ Listed /\ OneReads

LEMMA InitReads == Init => ReadsInv
<1> SUFFICES ASSUME Init PROVE ReadsInv
  OBVIOUS
<1>1. LinesSent
  BY HttpAssumption DEF Init, LinesSent
<1>2. Counts
  <2>1. Len(lines) \in Nat
    BY <1>1, PlacesEnd DEF LinesSent
  <2>2. /\ pipelines \in BOOLEAN /\ arrived = 0 /\ read = 0 /\ open = FALSE /\ repo = TRUE
        /\ pc = "idle" /\ up = "open" /\ disk = "same"
    BY DEF Init
  <2>3. open \in BOOLEAN /\ repo \in BOOLEAN
    BY <2>2
  <2>4. /\ arrived \in Nat /\ arrived <= Len(lines) /\ read \in Nat /\ read <= arrived
    BY <2>1, <2>2
  <2> QED BY <2>2, <2>3, <2>4 DEF Counts
<1>3. Listed
  <2>1. ctl = <<>> /\ controllers = <<>> /\ sending = <<>> /\ out = <<>>
    BY DEF Init
  <2>2. HoldAll(<<>>, script)
    BY DEF HoldAll
  <2> QED BY <2>1, <2>2 DEF Listed
<1>4. OneReads
  <2>1. /\ ctl = <<>> /\ Len(ctl) = 0 /\ open = FALSE /\ pc = "idle" /\ up = "open" /\ read = 0
    BY DEF Init
  <2>2. AtStart(read, script, 0 + 1)
    <3>1. Offset(script, 0) = 0 /\ 0 \in Nat /\ 0 <= Len(script)
      BY <1>1, PlacesEnd DEF LinesSent
    <3>2. Starts(read, script, 0)
      BY <2>1, <3>1 DEF Starts
    <3> QED BY <3>1, <3>2 DEF AtStart
  <2> QED BY <2>1, <2>2 DEF OneReads
<1> QED BY <1>1, <1>2, <1>3, <1>4 DEF ReadsInv

(* what is known when a line is read *)
LEMMA ReadNextLine ==
  ASSUME ReadsInv, Reads
  PROVE  /\ script \in Seq(Requests) /\ lines = Input(script)
         /\ read \in Nat /\ read + 1 <= arrived /\ read + 1 <= Len(Input(script))
         /\ NextLine = Input(script)[read + 1]
         /\ pc = "read" /\ open /\ up = "open" /\ Len(ctl) \in Nat /\ Len(ctl) > 0
         /\ HoldAll(ctl, script) /\ Holds(ctl[Len(ctl)], script, Len(ctl))
         /\ Reading(ctl[Len(ctl)])
         /\ Follows(ctl[Len(ctl)].msg, ctl[Len(ctl)].n, read, script, Len(ctl))
<1>1. script \in Seq(Requests) /\ lines = Input(script) /\ pc = "read"
  BY DEF ReadsInv, LinesSent, Reads
<1>2. /\ read \in Nat /\ read + 1 <= arrived /\ read + 1 <= Len(Input(script))
  <2>1. read \in Nat /\ arrived \in Nat /\ arrived <= Len(lines) /\ read < arrived
    BY DEF ReadsInv, Counts, Reads
  <2>2. Len(lines) \in Nat
    BY <1>1, PlacesEnd
  <2> QED BY <1>1, <2>1, <2>2
<1>3. open /\ up = "open" /\ Reading(ctl[Len(ctl)]) /\ Len(ctl) > 0
      /\ Follows(ctl[Len(ctl)].msg, ctl[Len(ctl)].n, read, script, Len(ctl))
  BY <1>1 DEF ReadsInv, OneReads
<1>4. HoldAll(ctl, script) /\ Len(ctl) \in Nat
  BY DEF ReadsInv, Listed, HoldAll
<1>5. Holds(ctl[Len(ctl)], script, Len(ctl))
  <2>1. Len(ctl) \in 1..Len(ctl)
    BY <1>3, <1>4
  <2> QED BY <1>4, <2>1 DEF HoldAll
<1> QED BY <1>1, <1>2, <1>3, <1>4, <1>5 DEF NextLine

(* a line is read, the last or another *)
LEMMA LineReads ==
  ASSUME ReadsInv, Reads, ~EndsNoPart(Reader.msg, NextLine),
         ctl' = [ctl EXCEPT ![Id] = AfterLine(Reader, NextLine, TRUE)],
         read' = read + 1, up' = up, UNCHANGED <<input, arrived, controllers, sending, out, repo, disk>>,
         \/ ~Complete(AfterLine(Reader, NextLine, TRUE)) /\ UNCHANGED <<open, pc>>
         \/ Complete(AfterLine(Reader, NextLine, TRUE)) /\ open' = FALSE /\ pc' = "action"
  PROVE  ReadsInv'
<1> DEFINE N == Len(ctl)
           c == ctl[N]
           next == AfterLine(c, Input(script)[read + 1], TRUE)
<1>1. /\ script \in Seq(Requests) /\ lines = Input(script)
      /\ read \in Nat /\ read + 1 <= arrived /\ read + 1 <= Len(Input(script))
      /\ NextLine = Input(script)[read + 1]
      /\ pc = "read" /\ open /\ up = "open" /\ N \in Nat /\ N > 0
      /\ HoldAll(ctl, script) /\ Holds(c, script, N) /\ Reading(c)
      /\ Follows(c.msg, c.n, read, script, N)
  BY ReadNextLine
<1>2. Reader = c /\ Id = N
  BY DEF Reader, Id
<1>3. /\ Holds(next, script, N) /\ Reading(next) /\ next.n # 0
      /\ ~Complete(next) => Follows(next.msg, next.n, read + 1, script, N)
      /\ Complete(next) => AtStart(read + 1, script, N + 1)
  BY <1>1, <1>2, ReadController
<1>4. ctl' = [ctl EXCEPT ![N] = next]
  BY <1>1, <1>2
<1>5. \/ ~Complete(next) /\ UNCHANGED <<open, pc>>
      \/ Complete(next) /\ open' = FALSE /\ pc' = "action"
  BY <1>1, <1>2
<1> HIDE DEF next
<1>6. /\ HoldAll(ctl', script) /\ Len(ctl') = N /\ ctl'[N] = next
      /\ \A i \in 1..N : i # N => ctl'[i] = ctl[i]
  <2>1. Replaced([ctl EXCEPT ![N] = next], ctl, script, next)
    BY <1>1, <1>3, HoldReplace
  <2> QED BY <1>4, <2>1 DEF Replaced
<1>7. LinesSent' /\ script' = script
  BY DEF ReadsInv, LinesSent, input
<1>8. Counts'
  <2>1. open' \in BOOLEAN /\ pc' \in {"idle", "read", "action", "send"}
    BY <1>5 DEF ReadsInv, Counts
  <2>2. /\ pipelines' = pipelines /\ lines' = lines /\ read' = read + 1
        /\ UNCHANGED <<arrived, repo, up, disk>>
    BY DEF input
  <2> QED BY <1>1, <2>1, <2>2 DEF ReadsInv, Counts
<1>9. Listed'
  BY <1>6, <1>7 DEF ReadsInv, Listed
<1>10. OneReads'
  <2>1. \A i \in 1..N : Reading(ctl'[i]) => i = N
    BY <1>6 DEF ReadsInv, OneReads
  <2> HIDE DEF N, c
  <2>2. CASE ~Complete(next) /\ UNCHANGED <<open, pc>>
    BY <1>1, <1>3, <1>6, <1>7, <2>1, <2>2 DEF OneReads
  <2>3. CASE Complete(next) /\ open' = FALSE /\ pc' = "action"
    BY <1>1, <1>3, <1>6, <1>7, <2>1, <2>3 DEF OneReads
  <2> QED BY <1>5, <2>2, <2>3
<1> QED BY <1>7, <1>8, <1>9, <1>10 DEF ReadsInv

LEMMA RefuseReads == ReadsInv /\ RefuseUpload => ReadsInv'
<1> SUFFICES ASSUME ReadsInv, RefuseUpload PROVE ReadsInv'
  OBVIOUS
<1> DEFINE N == Len(ctl)
           c == ctl[N]
           line == Input(script)[read + 1]
           next == [AfterLine(c, line, FALSE) EXCEPT !.state = "ResponseFinished",
                                                     !.code = "500", !.source = "own"]
<1>1. /\ script \in Seq(Requests) /\ read \in Nat /\ read + 1 <= arrived
      /\ NextLine = line
      /\ open /\ up = "open" /\ N \in Nat /\ N > 0
      /\ HoldAll(ctl, script) /\ Holds(c, script, N)
      /\ Follows(c.msg, c.n, read, script, N)
  BY ReadNextLine DEF RefuseUpload
<1>2. Reader = c /\ Id = N
  BY DEF Reader, Id
<1>3. /\ StartsUpload(c.msg, line) /\ ctl' = [ctl EXCEPT ![N] = next]
      /\ read' = read + 1 /\ pc' = "send" /\ sending' = controllers
      /\ UNCHANGED <<script, lines, pipelines, arrived, open, controllers, out, up, repo, disk>>
  BY <1>1, <1>2 DEF RefuseUpload, input
<1> HIDE DEF line
<1>4. Holds(next, script, N) /\ next.state = "ResponseFinished"
  BY <1>1, <1>3, RefuseController
<1> HIDE DEF next
<1>5. Replaced(ctl', ctl, script, next)
  BY <1>1, <1>3, <1>4, HoldReplace
<1>6. /\ HoldAll(ctl', script) /\ Len(ctl') = N /\ ctl'[N] = next
      /\ \A i \in 1..N : i # N => ctl'[i] = ctl[i]
  BY <1>5 DEF Replaced
<1>7. LinesSent'
  BY <1>3 DEF ReadsInv, LinesSent
<1>8. Counts'
  BY <1>1, <1>3 DEF ReadsInv, Counts
<1>9. Listed'
  BY <1>3, <1>6 DEF ReadsInv, Listed
<1>10. OneReads'
  <2>1. \A i \in 1..N : ~Reading(ctl'[i])
    <3>1. ~Reading(next)
      BY <1>4 DEF Reading
    <3> QED BY <1>6, <3>1 DEF ReadsInv, OneReads
  <2>2. ~Reading(ctl'[N])
    <3>1. N \in 1..N
      BY <1>1
    <3> QED BY <2>1, <3>1
  <2> HIDE DEF N, c
  <2> QED BY <1>1, <1>3, <1>6, <2>1, <2>2 DEF OneReads, N
<1> QED BY <1>7, <1>8, <1>9, <1>10 DEF ReadsInv

LEMMA ActionReads == ReadsInv /\ Action => ReadsInv'
<1> SUFFICES ASSUME ReadsInv, Action PROVE ReadsInv'
  OBVIOUS
<1> DEFINE N == Len(ctl)
           c == ctl[N]
           source == IF ServesFile(c) THEN c.request.target ELSE "own"
           next == [c EXCEPT !.state = "ResponseFinished", !.code = Code(c), !.source = source]
<1>1. /\ pc = "action" /\ ~open /\ up = "open" /\ N > 0 /\ Reading(c) /\ c.n # 0
      /\ AtStart(read, script, N + 1)
  BY DEF ReadsInv, OneReads, Action
<1>2. N \in Nat /\ HoldAll(ctl, script) /\ Holds(c, script, N) /\ N \in 1..N
  <2>1. N \in Nat /\ HoldAll(ctl, script)
    BY DEF ReadsInv, Listed, HoldAll
  <2>2. N \in 1..N
    BY <1>1, <2>1
  <2> QED BY <2>1, <2>2 DEF HoldAll
<1>3. Reader = c /\ Id = N
  BY DEF Reader, Id
<1>4. /\ ctl' = [ctl EXCEPT ![N] = next]
      /\ pc' = "send" /\ sending' = controllers
      /\ UNCHANGED <<script, lines, pipelines, arrived, read, open, controllers, out, up, repo, disk>>
  <2>1. ctl' = [ctl EXCEPT ![N].state = "ResponseFinished", ![N].code = Code(c),
                           ![N].source = source]
    BY <1>3 DEF Action
  <2>2. [ctl EXCEPT ![N].state = "ResponseFinished", ![N].code = Code(c), ![N].source = source]
          = [ctl EXCEPT ![N] = next]
    <3>1. N \in DOMAIN ctl /\ ctl \in Seq(Controllers) /\ c \in Controllers
      <4>1. c \in Controllers
        BY <1>2 DEF Holds
      <4>2. ctl \in Seq(Controllers)
        BY <1>2 DEF HoldAll
      <4> HIDE DEF c
      <4> QED BY <1>2, <4>1, <4>2
    <3> HIDE DEF source
    <3> QED BY <3>1 DEF Controllers
  <2> QED BY <2>1, <2>2 DEF Action, input
<1>5. Holds(next, script, N) /\ next.state = "ResponseFinished"
  <2>1. c \in Controllers
    BY <1>2 DEF Holds
  <2>2. Code(c) \in {"200", "400", "500"}
    BY DEF Code
  <2>3. source \in {"own", "file", "emptyfile"}
    BY DEF ServesFile, Targeted
  <2> HIDE DEF source
  <2>4. /\ next \in Controllers /\ next.msg = c.msg /\ next.n = c.n
        /\ next.state = "ResponseFinished" /\ next.code = Code(c)
    BY <2>1, <2>2, <2>3 DEF Controllers
  <2>5. Code(c) # ""
    BY <2>2
  <2> HIDE DEF next, c
  <2> QED BY <1>1, <1>2, <2>4, <2>5 DEF Holds
<1> HIDE DEF next
<1>6. Replaced(ctl', ctl, script, next)
  BY <1>1, <1>2, <1>4, <1>5, HoldReplace
<1>7. /\ HoldAll(ctl', script) /\ Len(ctl') = N /\ ctl'[N] = next
      /\ \A i \in 1..N : i # N => ctl'[i] = ctl[i]
  BY <1>6 DEF Replaced
<1>8. LinesSent'
  BY <1>4 DEF ReadsInv, LinesSent
<1>9. Counts'
  BY <1>4 DEF ReadsInv, Counts
<1>10. Listed'
  BY <1>4, <1>7 DEF ReadsInv, Listed
<1>11. OneReads'
  <2>1. \A i \in 1..N : ~Reading(ctl'[i])
    <3>1. ~Reading(next)
      BY <1>5 DEF Reading
    <3> QED BY <1>7, <3>1 DEF ReadsInv, OneReads
  <2> HIDE DEF N, c
  <2> QED BY <1>1, <1>2, <1>4, <1>7, <2>1 DEF OneReads, N
<1> QED BY <1>8, <1>9, <1>10, <1>11 DEF ReadsInv

LEMMA ArriveReads == ReadsInv /\ (\E k \in arrived..Len(lines) : Arrive(k)) => ReadsInv'
<1> SUFFICES ASSUME ReadsInv, NEW k \in arrived..Len(lines), Arrive(k) PROVE ReadsInv'
  OBVIOUS
<1> DEFINE N == Len(ctl)
<1>1. /\ pc = "idle" /\ up = "open" /\ arrived' = k /\ open' = TRUE
      /\ ctl' = IF open THEN ctl ELSE Append(ctl, NewController)
      /\ controllers' = IF open THEN controllers ELSE Append(controllers, N + 1)
      /\ pc' = IF Reading(ctl'[Len(ctl')]) THEN "read" ELSE "idle"
      /\ UNCHANGED <<script, lines, pipelines, read, sending, out, up, repo, disk>>
  BY DEF Arrive, input, Id
<1>2. /\ arrived \in Nat /\ Len(lines) \in Nat /\ read \in Nat /\ read <= arrived
      /\ open \in BOOLEAN /\ script \in Seq(Requests)
  <2>1. script \in Seq(Requests) /\ lines = Input(script)
    BY DEF ReadsInv, LinesSent
  <2> QED BY <2>1, PlacesEnd DEF ReadsInv, Counts
<1>3. LinesSent'
  BY <1>1 DEF ReadsInv, LinesSent
<1>4. Counts'
  <2>1. /\ arrived' \in Nat /\ arrived' <= Len(lines) /\ read <= arrived'
    BY <1>1, <1>2
  <2>2. pc' \in {"idle", "read", "action", "send"} /\ open' \in BOOLEAN
    BY <1>1
  <2> QED BY <1>1, <2>1, <2>2 DEF ReadsInv, Counts
<1>5. HoldAll(ctl, script) /\ N \in Nat
  BY DEF ReadsInv, Listed, HoldAll
<1>6. CASE open
  <2>1. /\ ctl' = ctl /\ controllers' = controllers /\ script' = script
        /\ pc' = IF Reading(ctl[N]) THEN "read" ELSE "idle"
    BY <1>1, <1>6
  <2>2. Listed'
    BY <1>1, <2>1 DEF ReadsInv, Listed
  <2>3. OneReads'
    BY <1>1, <1>6, <2>1 DEF ReadsInv, OneReads
  <2> QED BY <1>3, <1>4, <2>2, <2>3 DEF ReadsInv
<1>7. CASE ~open
  <2> DEFINE c == NewController
  <2>1. /\ ctl' = Append(ctl, c) /\ controllers' = Append(controllers, N + 1) /\ script' = script
    BY <1>1, <1>7
  <2>2. Holds(c, script, N + 1) /\ Reading(c) /\ c.msg = NewRequest /\ c.n = 0
    <3>1. /\ c.state = "ReadingRequest" /\ c.msg = NewRequest /\ c.n = 0
          /\ NewRequest.state = "ReadFirstLine"
      BY DEF NewController, NewRequest
    <3>2. c \in Controllers
      <4>1. repo \in BOOLEAN /\ NewRequest \in Messages
        BY PartsAre DEF ReadsInv, Counts
      <4>2. [target |-> "nowhere", old |-> FALSE] \in [target : Targets, old : BOOLEAN]
        BY DEF Targets
      <4> QED BY <4>1, <4>2 DEF NewController, Controllers
    <3> HIDE DEF c
    <3> QED BY <3>1, <3>2 DEF Holds, Reading
  <2> HIDE DEF c
  <2>3. Appended(ctl', ctl, script, c)
    BY <1>5, <2>1, <2>2, HoldAppend
  <2>4. /\ HoldAll(ctl', script) /\ Len(ctl') = N + 1 /\ ctl'[N + 1] = c
        /\ \A i \in 1..N : ctl'[i] = ctl[i]
    BY <2>3 DEF Appended
  <2>5. Listed'
    <3>1. controllers \in Seq(1..N) /\ sending \in Seq(1..N) /\ out \in Seq(Outputs)
      BY DEF ReadsInv, Listed
    <3>2. 1..N \subseteq 1..(N + 1) /\ N + 1 \in 1..(N + 1)
      BY <1>5
    <3>3. controllers \in Seq(1..(N + 1)) /\ sending \in Seq(1..(N + 1))
      BY <3>1, <3>2, SeqMonotonic
    <3>4. controllers' \in Seq(1..(N + 1))
      <4> DEFINE S == 1..(N + 1)
      <4>1. controllers \in Seq(S) /\ N + 1 \in S
        BY <3>2, <3>3
      <4> HIDE DEF S
      <4>2. Append(controllers, N + 1) \in Seq(S)
        BY <4>1
      <4> QED BY <2>1, <4>2 DEF S
    <3> QED BY <1>1, <2>1, <2>4, <3>1, <3>3, <3>4 DEF Listed
  <2>6. OneReads'
    <3>1. \A i \in 1..N : ~Reading(ctl[i])
      BY <1>1, <1>7 DEF ReadsInv, OneReads
    <3>2. \A i \in 1..(N + 1) : i \in 1..N \/ i = N + 1
      BY <1>5
    <3>3. \A i \in 1..(N + 1) : Reading(ctl'[i]) => i = N + 1
      BY <2>4, <3>1, <3>2
    <3>4. AtStart(read, script, N + 1)
      BY <1>1, <1>7 DEF ReadsInv, OneReads
    <3>5. Follows(c.msg, c.n, read, script, N + 1)
      BY <2>2, <3>4 DEF Follows
    <3>6. N + 1 > 0 /\ pc' = "read" /\ up' = "open" /\ open'
      BY <1>1, <1>5, <2>2, <2>4
    <3> HIDE DEF N
    <3> QED BY <1>1, <2>1, <2>2, <2>4, <3>3, <3>5, <3>6 DEF OneReads
  <2> QED BY <1>3, <1>4, <2>5, <2>6 DEF ReadsInv
<1> QED BY <1>2, <1>6, <1>7

(* what is sent *)
LEMMA SendReads == ReadsInv /\ Send => ReadsInv'
<1> SUFFICES ASSUME ReadsInv, Send PROVE ReadsInv'
  OBVIOUS
<1> DEFINE id == Head(sending)
           c == ctl[id]
           body == IF Transfer(c) = "failed" THEN <<>> ELSE <<Written(c, "body")>>
           head == IF up' = "open" THEN <<Written(c, "head")>> ELSE <<>>
<1>1. /\ pc = "send" /\ sending # <<>> /\ c.state = "ResponseFinished"
      /\ out' = out \o body \o head /\ sending' = Tail(sending)
      /\ UNCHANGED <<script, lines, pipelines, arrived, read, open, ctl, pc, repo, disk>>
  BY DEF Send, input
<1>2. /\ HoldAll(ctl, script) /\ controllers \in Seq(1..Len(ctl)) /\ sending \in Seq(1..Len(ctl))
      /\ out \in Seq(Outputs)
  BY DEF ReadsInv, Listed
<1>3. id \in 1..Len(ctl)
  BY <1>1, <1>2
<1>4. c.n \in Nat /\ c.code \in {"200", "400", "500"}
  <2>1. Holds(c, script, id)
    BY <1>2, <1>3 DEF HoldAll
  <2>2. c \in Controllers /\ c.code # ""
    BY <1>1, <2>1 DEF Holds
  <2> QED BY <2>2, ControllerHas
<1>5. /\ controllers' = controllers \/ controllers' = Without(controllers, {id})
      /\ up' = up \/ (up = "open" /\ up' = "closing")
  BY DEF Send, ResponseWritten
<1>6. out' \in Seq(Outputs)
  <2>1. Written(c, "body") \in Outputs /\ Written(c, "head") \in Outputs
    BY <1>4 DEF Written, Outputs
  <2> HIDE DEF c
  <2>2. body \in Seq(Outputs) /\ head \in Seq(Outputs)
    BY <2>1
  <2> HIDE DEF body, head
  <2>3. out \o body \in Seq(Outputs)
    BY <1>2, <2>2, ConcatAt
  <2>4. (out \o body) \o head \in Seq(Outputs)
    <3> DEFINE o == out \o body
    <3>1. o \in Seq(Outputs)
      BY <2>3
    <3> HIDE DEF o
    <3> QED BY <2>2, <3>1, ConcatAt DEF o
  <2> QED BY <1>1, <2>4
<1> HIDE DEF id, c, body, head
<1>7. LinesSent' /\ Counts'
  BY <1>1, <1>5 DEF ReadsInv, LinesSent, Counts
<1>8. Listed'
  <2>1. controllers' \in Seq(1..Len(ctl))
    BY <1>2, <1>5, WithoutType
  <2>2. sending' \in Seq(1..Len(ctl))
    BY <1>1, <1>2
  <2> QED BY <1>1, <1>2, <1>6, <2>1, <2>2 DEF Listed
<1>9. OneReads'
  BY <1>1, <1>5 DEF ReadsInv, OneReads
<1> QED BY <1>7, <1>8, <1>9 DEF ReadsInv

LEMMA OtherReads ==
  ReadsInv /\ (ReadNoPart \/ UploadNoDir \/ ReadDone \/ ActionNoFile \/ SendDone \/ Disconnected
               \/ RemoveRepo \/ ChangeFile \/ UNCHANGED vars) => ReadsInv'
<1>1. ReadsInv /\ ReadNoPart => ReadsInv'
  BY DEF ReadsInv, LinesSent, Counts, Listed, OneReads, ReadNoPart, input
<1>2. ReadsInv /\ ReadDone => ReadsInv'
  BY DEF ReadsInv, LinesSent, Counts, Listed, OneReads, ReadDone, input
<1>3. ReadsInv /\ ActionNoFile => ReadsInv'
  BY DEF ReadsInv, LinesSent, Counts, Listed, OneReads, ActionNoFile, input
<1>4. ReadsInv /\ SendDone => ReadsInv'
  BY DEF ReadsInv, LinesSent, Counts, Listed, OneReads, SendDone, input
<1>5. ReadsInv /\ Disconnected => ReadsInv'
  <2> SUFFICES ASSUME ReadsInv, Disconnected PROVE ReadsInv'
    OBVIOUS
  <2>1. /\ pc = "idle" /\ up' = "closed" /\ controllers' = <<>> /\ open' = FALSE
        /\ UNCHANGED <<script, lines, pipelines, arrived, read, ctl, sending, pc, out, repo, disk>>
    BY DEF Disconnected, input
  <2>2. LinesSent' /\ Counts'
    BY <2>1 DEF ReadsInv, LinesSent, Counts
  <2>3. Listed'
    <3>1. <<>> \in Seq(1..Len(ctl))
      OBVIOUS
    <3> QED BY <2>1, <3>1 DEF ReadsInv, Listed
  <2>4. OneReads'
    BY <2>1 DEF ReadsInv, OneReads
  <2> QED BY <2>2, <2>3, <2>4 DEF ReadsInv
<1>6. ReadsInv /\ RemoveRepo => ReadsInv'
  <2> SUFFICES ASSUME ReadsInv, RemoveRepo PROVE ReadsInv'
    OBVIOUS
  <2>1. /\ repo' = FALSE
        /\ UNCHANGED <<script, lines, pipelines, arrived, read, open, ctl, controllers, sending, pc,
                       out, up, disk>>
    BY DEF RemoveRepo, input, server
  <2>2. repo' \in BOOLEAN
    BY <2>1
  <2>3. LinesSent' /\ Counts'
    BY <2>1, <2>2 DEF ReadsInv, LinesSent, Counts
  <2>4. Listed' /\ OneReads'
    BY <2>1 DEF ReadsInv, Listed, OneReads
  <2> QED BY <2>3, <2>4 DEF ReadsInv
<1>7. ReadsInv /\ ChangeFile => ReadsInv'
  BY DEF ReadsInv, LinesSent, Counts, Listed, OneReads, ChangeFile, input, server
<1>8. ReadsInv /\ UNCHANGED vars => ReadsInv'
  BY DEF ReadsInv, LinesSent, Counts, Listed, OneReads, vars, input, server
<1>9. ReadsInv /\ UploadNoDir => ReadsInv'
  BY DEF ReadsInv, LinesSent, Counts, Listed, OneReads, UploadNoDir, input
<1> QED BY <1>1, <1>2, <1>3, <1>4, <1>5, <1>6, <1>7, <1>8, <1>9

LEMMA ReadsStep == ReadsInv /\ [Next]_vars => ReadsInv'
<1>1. ReadsInv /\ ReadOn => ReadsInv'
  <2> SUFFICES ASSUME ReadsInv, ReadOn PROVE ReadsInv'
    OBVIOUS
  <2>1. /\ Reads /\ ~EndsNoPart(Reader.msg, NextLine)
        /\ ctl' = [ctl EXCEPT ![Id] = AfterLine(Reader, NextLine, TRUE)]
        /\ ~Complete(AfterLine(Reader, NextLine, TRUE)) /\ read' = read + 1 /\ up' = up
        /\ UNCHANGED <<input, arrived, controllers, sending, out, repo, disk>>
        /\ UNCHANGED <<open, pc>>
    BY DEF ReadOn
  <2> QED BY <2>1, LineReads
<1>2. ReadsInv /\ ReadLast => ReadsInv'
  <2> SUFFICES ASSUME ReadsInv, ReadLast PROVE ReadsInv'
    OBVIOUS
  <2>1. /\ Reads /\ ~EndsNoPart(Reader.msg, NextLine)
        /\ ctl' = [ctl EXCEPT ![Id] = AfterLine(Reader, NextLine, TRUE)]
        /\ Complete(AfterLine(Reader, NextLine, TRUE)) /\ read' = read + 1 /\ up' = up
        /\ UNCHANGED <<input, arrived, controllers, sending, out, repo, disk>>
        /\ open' = FALSE /\ pc' = "action"
    BY DEF ReadLast
  <2> QED BY <2>1, LineReads
<1> QED BY <1>1, <1>2, RefuseReads, ActionReads, ArriveReads, SendReads, OtherReads
        DEF Next, Handle

LEMMA ReadsAlways == Spec => []ReadsInv
<1>1. Init => ReadsInv
  BY InitReads
<1>2. ReadsInv /\ [Next]_vars => ReadsInv'
  BY ReadsStep
<1> QED BY <1>1, <1>2, PTL DEF Spec

(* The variables keep their types: in particular every line that arrives,  *)
(* in any order of events, leaves a message that the parser knows.         *)
THEOREM TypeCorrect == Spec => []TypeOK
<1>1. ASSUME ReadsInv PROVE TypeOK
  <2>1. script \in Seq(Requests) /\ lines = Input(script)
    BY <1>1 DEF ReadsInv, LinesSent
  <2>2. \A k \in DOMAIN lines : lines[k].n \in DOMAIN script /\ lines[k].kind \in LineKinds
    BY <2>1, PlacesEnd
  <2>3. Len(lines) \in Nat
    BY <2>1, PlacesEnd
  <2>4. arrived \in 0..Len(lines) /\ read \in 0..arrived
    BY <1>1, <2>3 DEF ReadsInv, Counts
  <2>5. ctl \in Seq(Controllers) /\ DOMAIN ctl = 1..Len(ctl)
    BY <1>1 DEF ReadsInv, Listed, HoldAll
  <2>6. controllers \in Seq(DOMAIN ctl) /\ sending \in Seq(DOMAIN ctl)
    BY <1>1, <2>5 DEF ReadsInv, Listed
  <2>7. out \in Seq([what : {"body", "head"}, n : Nat, code : {"200", "400", "500"}])
    BY <1>1 DEF ReadsInv, Listed, Outputs
  <2> QED BY <1>1, <2>1, <2>2, <2>4, <2>5, <2>6, <2>7 DEF ReadsInv, Counts, TypeOK
<1> QED BY <1>1, ReadsAlways, PTL

(* However the requests are cut into chunks and pipelined, one controller  *)
(* at a time reads the socket, and it reads the lines of one request, the  *)
(* one that is its own in the order of the requests.                       *)
THEOREM OneReaderAtATime == Spec => []OneRequestEach
<1>1. ASSUME ReadsInv PROVE OneRequestEach
  <2>1. /\ DOMAIN ctl = 1..Len(ctl) /\ \A i \in 1..Len(ctl) : Holds(ctl[i], script, i)
    BY <1>1 DEF ReadsInv, Listed, HoldAll
  <2>2. \A i \in DOMAIN ctl : Reading(ctl[i]) => i = Id
    BY <1>1, <2>1 DEF ReadsInv, OneReads, Id
  <2>3. ASSUME Readable PROVE \A i \in DOMAIN ctl : ctl[i].n \in {0, i}
    <3>1. Sound(script)
      BY <2>3 DEF Readable, Sound
    <3> QED BY <2>1, <3>1 DEF Holds
  <2>4. ASSUME Readable, Reads PROVE NextLine.n = Id
    <3>1. Sound(script)
      BY <2>4 DEF Readable, Sound
    <3>2. /\ script \in Seq(Requests) /\ read \in Nat /\ read + 1 <= Len(Input(script))
          /\ NextLine = Input(script)[read + 1] /\ Len(ctl) \in Nat
          /\ Follows(ctl[Len(ctl)].msg, ctl[Len(ctl)].n, read, script, Len(ctl))
      BY <1>1, <2>4, ReadNextLine
    <3>3. Input(script)[read + 1].n = Len(ctl)
      BY <3>1, <3>2, FollowsOn
    <3> QED BY <3>2, <3>3 DEF Id
  <2> QED BY <2>2, <2>3, <2>4 DEF OneRequestEach
<1> QED BY <1>1, ReadsAlways, PTL

(* What is written to the device of each part of a form that has been read *)
(* whole is the CRLF that ended its headers and then exactly what was sent *)
(* in it.                                                                  *)
THEOREM FormsAreWritten == Spec => []WrittenAsSent
<1>1. ASSUME ReadsInv PROVE WrittenAsSent
  <2>1. /\ DOMAIN ctl = 1..Len(ctl) /\ \A i \in 1..Len(ctl) : Holds(ctl[i], script, i)
        /\ script \in Seq(Requests)
    BY <1>1 DEF ReadsInv, Listed, HoldAll, LinesSent
  <2>2. SUFFICES ASSUME NEW id \in DOMAIN ctl, ctl[id].msg.state = "Finished",
                        NEW i \in DOMAIN ctl[id].msg.parts
                 PROVE  OnDevice(ctl[id], i) = <<CRLF>> \o Sent(ctl[id].n, i)
    BY DEF WrittenAsSent
  <2> DEFINE n == ctl[id].n
             p == script[n].parts[i]
  <2>3. n \in DOMAIN script /\ PartsKept(ctl[id].msg, script[n], n)
    <3>1. Holds(ctl[id], script, id)
      BY <2>1
    <3>2. NewRequest.state # "Finished"
      BY DEF NewRequest
    <3> QED BY <2>2, <3>1, <3>2 DEF Holds
  <2>4. p \in FormParts /\ OnDevice(ctl[id], i) = <<CRLF>> \o SentIn(n, p)
    <3>1. script[n] \in Requests
      BY <2>1, <2>3
    <3> QED BY <2>3, <3>1, RequestHas DEF PartsKept, Whole, OnDevice
  <2>5. Sent(n, i) = SentIn(n, p)
    BY DEF Sent, SentIn, BodyBytes
  <2> QED BY <2>4, <2>5
<1> QED BY <1>1, ReadsAlways, PTL

-----------------------------------------------------------------------------
(* The responses.                                                          *)

(* the requests that the heads among the first k of the outputs answer *)
HeadsTo(o, k) == { o[l].n : l \in { l \in 1..k : o[l].what = "head" } }

Ordered(o) ==
  \A k \in 1..Len(o) : o[k].what = "head" => HeadsTo(o, k - 1) = 1..(o[k].n - 1)

LEMMA MoreOutput ==
  ASSUME NEW o \in Seq(Outputs), NEW x \in Outputs
  PROVE  /\ o \o <<x>> \in Seq(Outputs) /\ Len(o) \in Nat /\ Len(o \o <<x>>) = Len(o) + 1
         /\ (o \o <<x>>)[Len(o) + 1] = x
         /\ \A k \in 1..Len(o) : (o \o <<x>>)[k] = o[k]
         /\ \A k \in 0..Len(o) : HeadsTo(o \o <<x>>, k) = HeadsTo(o, k)
<1> DEFINE N == Len(o)
           next == o \o <<x>>
<1>1. /\ next \in Seq(Outputs) /\ N \in Nat /\ Len(next) = N + 1 /\ next[N + 1] = x
      /\ \A k \in 1..N : next[k] = o[k]
  <2>1. <<x>> \in Seq(Outputs) /\ Len(<<x>>) = 1 /\ <<x>>[1] = x /\ 1 \in 1..1
    OBVIOUS
  <2>2. /\ next \in Seq(Outputs) /\ N \in Nat /\ Len(next) = N + Len(<<x>>)
        /\ \A k \in 1..N : next[k] = o[k]
        /\ \A k \in 1..Len(<<x>>) : next[N + k] = <<x>>[k]
    BY <2>1, ConcatAt
  <2> QED BY <2>1, <2>2
<1> HIDE DEF next, N
<1>2. ASSUME NEW k \in 0..N PROVE HeadsTo(next, k) = HeadsTo(o, k)
  <2>1. \A l \in 1..k : next[l] = o[l]
    BY <1>1
  <2> QED BY <2>1 DEF HeadsTo
<1> QED BY <1>1, <1>2 DEF next, N

(* a body is no response yet *)
LEMMA BodyOut ==
  ASSUME NEW o \in Seq(Outputs), NEW x \in Outputs, x.what = "body"
  PROVE  /\ HeadsTo(o \o <<x>>, Len(o \o <<x>>)) = HeadsTo(o, Len(o))
         /\ Ordered(o) => Ordered(o \o <<x>>)
<1> DEFINE N == Len(o)
           next == o \o <<x>>
<1>1. /\ N \in Nat /\ Len(next) = N + 1 /\ next[N + 1] = x
      /\ \A k \in 1..N : next[k] = o[k]
      /\ \A k \in 0..N : HeadsTo(next, k) = HeadsTo(o, k)
  BY MoreOutput
<1> HIDE DEF next, N
<1>2. HeadsTo(next, N + 1) = HeadsTo(o, N)
  <2>1. { l \in 1..(N + 1) : next[l].what = "head" } = { l \in 1..N : next[l].what = "head" }
    <3>1. \A l \in 1..(N + 1) : l \in 1..N \/ l = N + 1
      BY <1>1
    <3>2. 1..N \subseteq 1..(N + 1)
      BY <1>1
    <3> QED BY <1>1, <3>1, <3>2
  <2>2. HeadsTo(next, N + 1) = HeadsTo(next, N)
    BY <2>1 DEF HeadsTo
  <2>3. N \in 0..N
    BY <1>1
  <2> QED BY <1>1, <2>2, <2>3
<1>3. ASSUME Ordered(o), NEW k \in 1..(N + 1), next[k].what = "head"
      PROVE  HeadsTo(next, k - 1) = 1..(next[k].n - 1)
  <2>1. k \in 1..N /\ k - 1 \in 0..N
    BY <1>1, <1>3
  <2> QED BY <1>1, <1>3, <2>1 DEF Ordered, N
<1> QED BY <1>1, <1>2, <1>3 DEF Ordered, next, N

(* a head comes when those of the earlier requests have come *)
LEMMA HeadOut ==
  ASSUME NEW o \in Seq(Outputs), NEW x \in Outputs, x.what = "head",
         NEW h \in Nat, x.n = h + 1, HeadsTo(o, Len(o)) = 1..h
  PROVE  /\ HeadsTo(o \o <<x>>, Len(o \o <<x>>)) = 1..(h + 1)
         /\ Ordered(o) => Ordered(o \o <<x>>)
<1> DEFINE N == Len(o)
           next == o \o <<x>>
<1>1. /\ N \in Nat /\ Len(next) = N + 1 /\ next[N + 1] = x
      /\ \A k \in 1..N : next[k] = o[k]
      /\ \A k \in 0..N : HeadsTo(next, k) = HeadsTo(o, k)
  BY MoreOutput
<1>0. HeadsTo(next, N) = 1..h
  <2>1. N \in 0..N
    BY <1>1
  <2> QED BY <1>1, <2>1
<1> HIDE DEF next, N
<1>2. HeadsTo(next, N + 1) = 1..(h + 1)
  <2>1. { l \in 1..(N + 1) : next[l].what = "head" }
          = { l \in 1..N : next[l].what = "head" } \union {N + 1}
    <3>1. \A l \in 1..(N + 1) : l \in 1..N \/ l = N + 1
      BY <1>1
    <3>2. 1..N \subseteq 1..(N + 1) /\ N + 1 \in 1..(N + 1)
      BY <1>1
    <3> QED BY <1>1, <3>1, <3>2
  <2>2. HeadsTo(next, N + 1) = HeadsTo(next, N) \union {next[N + 1].n}
    BY <2>1, Zenon DEF HeadsTo
  <2>3. 1..(h + 1) = (1..h) \union {h + 1}
    OBVIOUS
  <2> QED BY <1>0, <1>1, <2>2, <2>3
<1>3. ASSUME Ordered(o), NEW k \in 1..(N + 1), next[k].what = "head"
      PROVE  HeadsTo(next, k - 1) = 1..(next[k].n - 1)
  <2>1. CASE k \in 1..N
    <3>1. k - 1 \in 0..N
      BY <1>1, <2>1
    <3> QED BY <1>1, <1>3, <2>1, <3>1 DEF Ordered, N
  <2>2. CASE k = N + 1
    <3>1. k - 1 = N /\ next[k] = x
      BY <1>1, <2>2
    <3>2. next[k].n - 1 = h
      BY <3>1
    <3> QED BY <1>0, <3>1, <3>2
  <2>3. k \in 1..N \/ k = N + 1
    BY <1>1
  <2> QED BY <2>1, <2>2, <2>3
<1> QED BY <1>1, <1>2, <1>3 DEF Ordered, next, N

LEMMA OnlyOneLeaves ==
  ASSUME NEW n \in Nat
  PROVE  Without(<<n>>, {n}) = <<>>
<1>1. <<n>> \in Seq(Nat) /\ ToSet(<<n>>) = {n}
  BY DEF ToSet
<1> DEFINE w == Without(<<n>>, {n})
<1>2. w \in Seq(Nat) /\ ToSet(w) = {}
  <2>1. w \in Seq(Nat)
    BY <1>1, WithoutType
  <2>2. ToSet(w) = ToSet(<<n>>) \ {n}
    BY <1>1, WithoutKeeps
  <2> QED BY <1>1, <2>1, <2>2
<1> HIDE DEF w
<1>3. w = <<>>
  <2>1. SUFFICES ASSUME w # <<>> PROVE FALSE
    OBVIOUS
  <2>2. 1 \in DOMAIN w
    BY <1>2, <2>1
  <2> QED BY <1>2, <2>2 DEF ToSet
<1> QED BY <1>3 DEF w

-----------------------------------------------------------------------------
(* The invariant: one response at most is to come, that of the last        *)
(* controller, and those of the others have come, unless a transfer never  *)
(* finishes.                                                               *)

Queue ==
  /\ controllers = <<>> \/ (Len(ctl) > 0 /\ controllers = <<Len(ctl)>>)
  /\ pc = "idle" /\ ~open => controllers = <<>>
  /\ pc \in {"read", "action"} \/ (open /\ Reading(ctl[Len(ctl)]))
       => controllers = <<Len(ctl)>>
  /\ pc = "send" => /\ Len(ctl) > 0 /\ ctl[Len(ctl)].state = "ResponseFinished"
                    /\ sending = controllers

Replied ==
  /\ Ordered(out)
  /\ up = "open" => HeadsTo(out, Len(out))
                      = 1..(IF controllers = <<>> THEN Len(ctl) ELSE Len(ctl) - 1)

OneWaits ==
  /\ pc # "send" => sending = <<>>
  /\ disk # "changed" =>
       /\ up # "open" => sending = <<>>
       /\ up = "open" => Queue
       /\ Sound(script) => Replied

(* an action that leaves the list and the output as they are *)
LEMMA WaitsSame ==
  ASSUME ReadsInv, OneWaits, pc # "send", UNCHANGED <<script, controllers, sending, out, disk>>,
         Len(ctl') = Len(ctl), up' = up \/ up' # "open", pc' # "send",
         up' = "open" /\ pc' \in {"read", "action"} =>
           pc \in {"read", "action"} \/ (open /\ Reading(ctl[Len(ctl)])),
         up' = "open" /\ pc' = "idle" /\ ~open' => pc = "idle" /\ ~open,
         up' = "open" /\ open' /\ Reading(ctl'[Len(ctl')]) =>
           pc \in {"read", "action"} \/ (open /\ Reading(ctl[Len(ctl)]))
  PROVE  OneWaits'
<1>1. SUFFICES ASSUME disk # "changed"
               PROVE  /\ up' = "open" => Queue'
                      /\ Sound(script) => Replied'
  BY DEF OneWaits
<1>2. /\ up = "open" => Queue
      /\ Sound(script) => Replied
  BY <1>1 DEF OneWaits
<1>3. ASSUME up' = "open" PROVE Queue'
  BY <1>2, <1>3 DEF Queue
<1>4. ASSUME Sound(script) PROVE Replied'
  BY <1>2, <1>4 DEF Replied
<1> QED BY <1>3, <1>4

LEMMA ReadLineWaits ==
  ASSUME ReadsInv, OneWaits, ReadOn \/ ReadLast
  PROVE  OneWaits'
<1>1. /\ pc = "read" /\ open /\ up = "open" /\ Reading(ctl[Len(ctl)])
  BY ReadNextLine DEF ReadOn, ReadLast
<1>2. /\ UNCHANGED <<script, controllers, sending, out, disk, up>>
      /\ pc' \in {"read", "action"}
  BY <1>1 DEF ReadOn, ReadLast, input
<1>3. Len(ctl') = Len(ctl)
  <2>1. PICK c : ctl' = [ctl EXCEPT ![Id] = c]
    BY DEF ReadOn, ReadLast
  <2>2. ctl \in Seq(Controllers)
    BY DEF ReadsInv, Listed, HoldAll
  <2> QED BY <2>1, <2>2
<1> QED BY <1>1, <1>2, <1>3, WaitsSame

LEMMA RefuseWaits ==
  ASSUME ReadsInv, OneWaits, RefuseUpload
  PROVE  OneWaits'
<1> DEFINE N == Len(ctl)
<1>1. /\ pc = "read" /\ open /\ up = "open" /\ Reading(ctl[N]) /\ N \in Nat /\ N > 0
      /\ HoldAll(ctl, script)
  BY ReadNextLine DEF RefuseUpload
<1>2. PICK c : /\ c.state = "ResponseFinished"
               /\ ctl' = [ctl EXCEPT ![N] = c]
  <2> DEFINE after == AfterLine(Reader, NextLine, FALSE)
             next == [after EXCEPT !.state = "ResponseFinished", !.code = "500", !.source = "own"]
  <2>1. ctl' = [ctl EXCEPT ![N] = next]
    BY DEF RefuseUpload, Id
  <2>2. next.state = "ResponseFinished"
    <3>1. after = [Reader EXCEPT !.msg = after.msg, !.n = after.n, !.request = after.request,
                                 !.state = after.state]
      <4>1. Reader \in Controllers
        <5>1. Holds(ctl[N], script, N)
          BY ReadNextLine DEF RefuseUpload
        <5> QED BY <5>1 DEF Holds, Reader, Id
      <4> QED BY <4>1 DEF AfterLine, Controllers
    <3>2. Reader \in Controllers
      <4>1. Holds(ctl[N], script, N)
        BY ReadNextLine DEF RefuseUpload
      <4> QED BY <4>1 DEF Holds, Reader, Id
    <3> HIDE DEF after
    <3> QED BY <3>1, <3>2 DEF Controllers
  <2> HIDE DEF next
  <2> QED BY <2>1, <2>2
<1>3. /\ pc' = "send" /\ sending' = controllers
      /\ UNCHANGED <<script, open, controllers, out, disk, up>>
  BY DEF RefuseUpload, input
<1>4. Len(ctl') = N /\ ctl'[N] = c
  <2>1. ctl \in Seq(Controllers) /\ N \in 1..N
    BY <1>1 DEF HoldAll
  <2> QED BY <1>2, <2>1
<1>5. ASSUME disk # "changed"
      PROVE  Queue' /\ (Sound(script) => Replied')
  <2>1. Queue /\ (Sound(script) => Replied)
    BY <1>1, <1>5 DEF OneWaits
  <2>2. controllers = <<N>>
    BY <1>1, <2>1 DEF Queue
  <2>3. ~Reading(ctl'[N])
    BY <1>2, <1>4 DEF Reading
  <2>4. Queue'
    <3> HIDE DEF N
    <3> QED BY <1>1, <1>2, <1>3, <1>4, <2>2, <2>3 DEF Queue, N
  <2>5. Sound(script) => Replied'
    BY <1>3, <1>4, <2>1 DEF Replied
  <2> QED BY <2>4, <2>5
<1> QED BY <1>1, <1>3, <1>5 DEF OneWaits

LEMMA ActionWaits ==
  ASSUME ReadsInv, OneWaits, Action
  PROVE  OneWaits'
<1> DEFINE N == Len(ctl)
<1>1. /\ pc = "action" /\ ~open /\ up = "open" /\ N > 0
  BY DEF ReadsInv, OneReads, Action
<1>2. N \in Nat /\ HoldAll(ctl, script) /\ N \in 1..N
  <2>1. N \in Nat /\ HoldAll(ctl, script)
    BY DEF ReadsInv, Listed, HoldAll
  <2> QED BY <1>1, <2>1
<1>3. /\ pc' = "send" /\ sending' = controllers
      /\ UNCHANGED <<script, open, controllers, out, disk, up>>
  BY DEF Action, input
<1>4. Len(ctl') = N /\ ctl'[N].state = "ResponseFinished"
  <2> DEFINE code == Code(Reader)
             source == IF ServesFile(Reader) THEN Reader.request.target ELSE "own"
  <2>1. ctl' = [ctl EXCEPT ![N].state = "ResponseFinished", ![N].code = code, ![N].source = source]
    BY DEF Action, Id
  <2>2. ctl \in Seq(Controllers) /\ ctl[N] \in Controllers
    <3>1. Holds(ctl[N], script, N)
      BY <1>2 DEF HoldAll
    <3> QED BY <1>2, <3>1 DEF HoldAll, Holds
  <2> DEFINE c == ctl[N]
             next == [c EXCEPT !.state = "ResponseFinished", !.code = code, !.source = source]
  <2> HIDE DEF code, source
  <2>3. ctl' = [ctl EXCEPT ![N] = next]
    <3>1. N \in DOMAIN ctl
      BY <1>2, <2>2
    <3> HIDE DEF N
    <3> QED BY <2>1, <2>2, <3>1 DEF Controllers
  <2>4. next.state = "ResponseFinished"
    <3> HIDE DEF c
    <3> QED BY <2>2 DEF Controllers, c
  <2> HIDE DEF next
  <2> QED BY <1>2, <2>2, <2>3, <2>4
<1>5. ASSUME disk # "changed"
      PROVE  Queue' /\ (Sound(script) => Replied')
  <2>1. Queue /\ (Sound(script) => Replied)
    BY <1>1, <1>5 DEF OneWaits
  <2>2. controllers = <<N>>
    BY <1>1, <2>1 DEF Queue
  <2>3. ~Reading(ctl'[N])
    BY <1>4 DEF Reading
  <2>4. Queue'
    <3> HIDE DEF N
    <3> QED BY <1>1, <1>3, <1>4, <2>2, <2>3 DEF Queue, N
  <2>5. Sound(script) => Replied'
    BY <1>3, <1>4, <2>1 DEF Replied
  <2> QED BY <2>4, <2>5
<1> QED BY <1>1, <1>3, <1>5 DEF OneWaits

LEMMA ArriveWaits ==
  ASSUME ReadsInv, OneWaits, NEW k, Arrive(k)
  PROVE  OneWaits'
<1> DEFINE N == Len(ctl)
<1>1. /\ pc = "idle" /\ up = "open" /\ open' = TRUE
      /\ ctl' = IF open THEN ctl ELSE Append(ctl, NewController)
      /\ controllers' = IF open THEN controllers ELSE Append(controllers, N + 1)
      /\ pc' = IF Reading(ctl'[Len(ctl')]) THEN "read" ELSE "idle"
      /\ UNCHANGED <<script, sending, out, up, disk>>
  BY DEF Arrive, input, Id
<1>2. N \in Nat /\ ctl \in Seq(Controllers) /\ open \in BOOLEAN
  BY DEF ReadsInv, Listed, HoldAll, Counts
<1>3. CASE open
  <2>1. ctl' = ctl /\ controllers' = controllers
    BY <1>1, <1>3
  <2>2. pc' \in {"read", "idle"} /\ (pc' = "read" => Reading(ctl[N]))
    BY <1>1, <2>1
  <2> QED BY <1>1, <1>3, <2>1, <2>2, WaitsSame
<1>4. CASE ~open
  <2>1. ctl' = Append(ctl, NewController) /\ controllers' = Append(controllers, N + 1)
    BY <1>1, <1>4
  <2>2. Len(ctl') = N + 1 /\ ctl'[N + 1] = NewController
    BY <1>2, <2>1
  <2>3. pc' = "read"
    <3>1. Reading(NewController)
      BY DEF NewController, Reading
    <3>2. ctl'[Len(ctl')] = NewController
      BY <2>2
    <3> QED BY <1>1, <3>1, <3>2
  <2>4. ASSUME disk # "changed"
        PROVE  Queue' /\ (Sound(script) => Replied')
    <3>1. Queue /\ (Sound(script) => Replied)
      BY <1>1, <2>4 DEF OneWaits
    <3>2. controllers = <<>>
      BY <1>1, <1>4, <3>1 DEF Queue
    <3>3. controllers' = <<N + 1>> /\ N + 1 > 0 /\ <<N + 1>> # <<>>
      BY <1>2, <2>1, <3>2
    <3>4. Queue'
      BY <2>2, <2>3, <3>3 DEF Queue
    <3>5. ASSUME Sound(script) PROVE Replied'
      <4>1. Ordered(out) /\ HeadsTo(out, Len(out)) = 1..N
        BY <1>1, <3>1, <3>2, <3>5 DEF Replied
      <4>2. (N + 1) - 1 = N
        BY <1>2
      <4>3. (IF controllers' = <<>> THEN Len(ctl') ELSE Len(ctl') - 1) = N
        BY <2>2, <3>3, <4>2
      <4> QED BY <1>1, <4>1, <4>3 DEF Replied
    <3> QED BY <3>4, <3>5
  <2> QED BY <1>1, <2>3, <2>4 DEF OneWaits
<1> QED BY <1>2, <1>3, <1>4

LEMMA SendDoneWaits ==
  ASSUME ReadsInv, OneWaits, SendDone
  PROVE  OneWaits'
<1> DEFINE N == Len(ctl)
<1>1. /\ pc = "send" /\ sending' = <<>> /\ pc' = "idle"
      /\ sending # <<>> => ctl[Head(sending)].state # "ResponseFinished"
      /\ UNCHANGED <<script, open, ctl, controllers, out, up, disk>>
  BY DEF SendDone, input
<1>2. ASSUME disk # "changed", up = "open" PROVE Queue'
  <2>1. Queue
    BY <1>2 DEF OneWaits
  <2>2. /\ N > 0 /\ ctl[N].state = "ResponseFinished" /\ sending = controllers
        /\ controllers = <<>> \/ controllers = <<N>>
    BY <1>1, <2>1 DEF Queue
  <2>3. controllers = <<>>
    <3>1. SUFFICES ASSUME controllers = <<N>> PROVE FALSE
      BY <2>2
    <3>2. sending = <<N>> /\ Head(<<N>>) = N /\ <<N>> # <<>>
      BY <2>2, <3>1
    <3> QED BY <1>1, <2>2, <3>2
  <2>4. ~Reading(ctl[N])
    BY <2>2 DEF Reading
  <2> QED BY <1>1, <2>3, <2>4 DEF Queue
<1>3. Sound(script) /\ Replied => Replied'
  BY <1>1 DEF Replied
<1> QED BY <1>1, <1>2, <1>3 DEF OneWaits

LEMMA SendWaits ==
  ASSUME ReadsInv, OneWaits, Send
  PROVE  OneWaits'
<1> DEFINE N == Len(ctl)
           id == Head(sending)
           c == ctl[id]
           body == IF Transfer(c) = "failed" THEN <<>> ELSE <<Written(c, "body")>>
           head == IF up' = "open" THEN <<Written(c, "head")>> ELSE <<>>
<1>1. /\ pc = "send" /\ sending # <<>> /\ c.state = "ResponseFinished"
      /\ IF Transfer(c) = "partial" THEN UNCHANGED <<controllers, up>> ELSE ResponseWritten(id)
      /\ out' = out \o body \o head /\ sending' = Tail(sending)
      /\ UNCHANGED <<script, open, ctl, pc, disk>>
  BY DEF Send, input
<1>2. SUFFICES ASSUME disk # "changed"
               PROVE  /\ up' # "open" => sending' = <<>>
                      /\ up' = "open" => Queue'
                      /\ Sound(script) => Replied'
  BY <1>1 DEF OneWaits
<1>3. up = "open" /\ Queue /\ (Sound(script) => Replied)
  BY <1>1, <1>2 DEF OneWaits
<1>4. /\ N > 0 /\ ctl[N].state = "ResponseFinished" /\ sending = <<N>> /\ controllers = <<N>>
      /\ N \in Nat /\ HoldAll(ctl, script) /\ out \in Seq(Outputs)
  <2>1. N \in Nat /\ HoldAll(ctl, script) /\ out \in Seq(Outputs)
    BY DEF ReadsInv, Listed, HoldAll
  <2> QED BY <1>1, <1>3, <2>1 DEF Queue
<1>5. id = N /\ sending' = <<>>
  BY <1>1, <1>4
<1>6. controllers' = <<>> /\ (up' = "open" \/ up' = "closing")
  <2>1. Transfer(c) # "partial"
    BY <1>2 DEF Transfer
  <2>2. ResponseWritten(id)
    BY <1>1, <2>1
  <2> QED BY <1>3, <1>4, <1>5, <2>2, OnlyOneLeaves DEF ResponseWritten
<1>7. Queue'
  <2>1. ~Reading(ctl[N])
    BY <1>4 DEF Reading
  <2> QED BY <1>1, <1>4, <1>5, <1>6, <2>1 DEF Queue
<1>8. ASSUME Sound(script) PROVE Replied'
  <2>1. Ordered(out) /\ HeadsTo(out, Len(out)) = 1..(N - 1)
    <3>1. <<N>> # <<>>
      OBVIOUS
    <3> QED BY <1>3, <1>4, <1>8, <3>1 DEF Replied
  <2>2. c.n = N /\ c.code \in {"200", "400", "500"}
    <3>1. N \in 1..N
      BY <1>4
    <3>2. Holds(c, script, N)
      BY <1>4, <1>5, <3>1 DEF HoldAll
    <3>3. c.n \in {0, N} /\ c.n # 0 /\ c.code # "" /\ c \in Controllers
      BY <1>1, <1>8, <3>2 DEF Holds
    <3> QED BY <3>3, ControllerHas
  <2>3. /\ Written(c, "body") \in Outputs /\ Written(c, "body").what = "body"
        /\ Written(c, "head") \in Outputs /\ Written(c, "head").what = "head"
        /\ Written(c, "head").n = (N - 1) + 1 /\ N - 1 \in Nat
    BY <1>4, <2>2 DEF Written, Outputs
  <2> HIDE DEF c
  <2> DEFINE mid == out \o body
  <2>4. mid \in Seq(Outputs) /\ Ordered(mid) /\ HeadsTo(mid, Len(mid)) = 1..(N - 1)
    <3>1. CASE body = <<>>
      <4>1. mid = out
        BY <1>4, <3>1, ConcatEmptySeq
      <4> QED BY <1>4, <2>1, <4>1
    <3>2. CASE body = <<Written(c, "body")>>
      <4> DEFINE x == Written(c, "body")
      <4>1. x \in Outputs /\ x.what = "body" /\ mid = out \o <<x>>
        BY <2>3, <3>2
      <4> HIDE DEF x, mid
      <4>2. out \o <<x>> \in Seq(Outputs)
        BY <1>4, <4>1, MoreOutput
      <4>3. /\ HeadsTo(out \o <<x>>, Len(out \o <<x>>)) = HeadsTo(out, Len(out))
            /\ Ordered(out) => Ordered(out \o <<x>>)
        BY <1>4, <4>1, BodyOut
      <4> QED BY <2>1, <4>1, <4>2, <4>3
    <3> QED BY <3>1, <3>2
  <2>5. out' = mid \o head
    BY <1>1
  <2> HIDE DEF mid
  <2>6. CASE up' = "open"
    <3> DEFINE x == Written(c, "head")
               h == N - 1
    <3>1. /\ x \in Outputs /\ x.what = "head" /\ h \in Nat /\ x.n = h + 1 /\ h + 1 = N
          /\ out' = mid \o <<x>> /\ HeadsTo(mid, Len(mid)) = 1..h
      BY <1>4, <2>3, <2>4, <2>5, <2>6
    <3> HIDE DEF x, h
    <3>2. /\ HeadsTo(mid \o <<x>>, Len(mid \o <<x>>)) = 1..(h + 1)
          /\ Ordered(mid) => Ordered(mid \o <<x>>)
      BY <2>4, <3>1, HeadOut
    <3>3. Ordered(out') /\ HeadsTo(out', Len(out')) = 1..N
      BY <2>4, <3>1, <3>2
    <3> QED BY <1>1, <1>6, <3>3 DEF Replied
  <2>7. CASE up' # "open"
    <3>1. mid \o <<>> = mid
      BY <2>4, ConcatEmptySeq
    <3>2. out' = mid
      BY <2>5, <2>7, <3>1
    <3> QED BY <2>4, <2>7, <3>2 DEF Replied
  <2> QED BY <2>6, <2>7
<1> QED BY <1>5, <1>7, <1>8

LEMMA OtherWaits ==
  ASSUME ReadsInv, OneWaits
  PROVE  /\ ReadNoPart => OneWaits'
         /\ UploadNoDir => OneWaits'
         /\ ReadDone => OneWaits'
         /\ ActionNoFile => OneWaits'
         /\ Disconnected => OneWaits'
         /\ RemoveRepo => OneWaits'
         /\ ChangeFile => OneWaits'
         /\ UNCHANGED vars => OneWaits'
<1>1. ASSUME ReadNoPart PROVE OneWaits'
  <2>1. /\ pc = "read" /\ up' = "dead" /\ pc' = "idle"
        /\ UNCHANGED <<script, controllers, sending, out, disk, ctl>>
    BY <1>1 DEF ReadNoPart, Reads, input
  <2> QED BY <2>1, WaitsSame
<1>2. ASSUME ReadDone PROVE OneWaits'
  <2>1. /\ pc = "read" /\ pc' = "idle"
        /\ UNCHANGED <<script, controllers, sending, out, disk, ctl, open, up>>
    BY <1>2 DEF ReadDone, input
  <2>2. open
    BY <2>1 DEF ReadsInv, OneReads
  <2> QED BY <2>1, <2>2, WaitsSame
<1>3. ASSUME ActionNoFile PROVE OneWaits'
  <2>1. /\ pc = "action" /\ up' = "dead" /\ pc' = "idle"
        /\ UNCHANGED <<script, controllers, sending, out, disk, ctl>>
    BY <1>3 DEF ActionNoFile, input
  <2> QED BY <2>1, WaitsSame
<1>4. ASSUME Disconnected PROVE OneWaits'
  <2>1. /\ pc = "idle" /\ up' = "closed"
        /\ UNCHANGED <<script, sending, pc, out, disk, ctl>>
    BY <1>4 DEF Disconnected, input
  <2>2. Sound(script) /\ Replied => Replied'
    BY <2>1 DEF Replied
  <2> QED BY <2>1, <2>2 DEF OneWaits
<1>5. ASSUME RemoveRepo PROVE OneWaits'
  <2>1. /\ pc = "idle"
        /\ UNCHANGED <<script, controllers, sending, pc, out, disk, ctl, open, up>>
    BY <1>5 DEF RemoveRepo, input, server
  <2> QED BY <2>1, WaitsSame
<1>6. ASSUME ChangeFile PROVE OneWaits'
  <2>1. /\ disk # "changed"
        /\ UNCHANGED <<script, controllers, sending, pc, out, ctl, open, up>>
    BY <1>6 DEF ChangeFile, input, server
  <2>2. (Queue => Queue') /\ (Replied => Replied')
    BY <2>1 DEF Queue, Replied
  <2> QED BY <2>1, <2>2 DEF OneWaits
<1>7. ASSUME UNCHANGED vars PROVE OneWaits'
  <2>1. UNCHANGED <<script, controllers, sending, pc, out, ctl, open, up, disk>>
    BY <1>7 DEF vars, input, server
  <2>2. (Queue => Queue') /\ (Replied => Replied')
    BY <2>1 DEF Queue, Replied
  <2> QED BY <2>1, <2>2 DEF OneWaits
<1>8. ASSUME UploadNoDir PROVE OneWaits'
  <2>1. /\ pc = "read" /\ up' = "dead" /\ pc' = "idle"
        /\ UNCHANGED <<script, controllers, sending, out, disk, ctl>>
    BY <1>8 DEF UploadNoDir, Reads, input
  <2> QED BY <2>1, WaitsSame
<1> QED BY <1>1, <1>2, <1>3, <1>4, <1>5, <1>6, <1>7, <1>8

LEMMA WaitsAlways == Spec => []OneWaits
<1>1. Init => OneWaits
  <2> SUFFICES ASSUME Init PROVE OneWaits
    OBVIOUS
  <2>1. /\ ctl = <<>> /\ Len(<<>>) = 0 /\ controllers = <<>> /\ sending = <<>> /\ pc = "idle"
        /\ out = <<>> /\ up = "open" /\ open = FALSE
    BY DEF Init
  <2>2. Queue
    BY <2>1 DEF Queue
  <2>3. Replied
    <3>1. Ordered(out) /\ HeadsTo(out, Len(out)) = {} /\ 1..0 = {}
      BY <2>1 DEF Ordered, HeadsTo
    <3> QED BY <2>1, <3>1 DEF Replied
  <2> QED BY <2>1, <2>2, <2>3 DEF OneWaits
<1>2. ReadsInv /\ OneWaits /\ [Next]_vars => OneWaits'
  BY ReadLineWaits, RefuseWaits, ActionWaits, ArriveWaits, SendDoneWaits, SendWaits, OtherWaits
     DEF Next, Handle
<1> QED BY <1>1, <1>2, ReadsAlways, PTL DEF Spec

(* The responses come in the order of the requests, none twice and none    *)
(* missing, as long as the file that is sent is the size that was indexed. *)
THEOREM RepliesComeInOrder == Spec => []RepliesInOrder
<1>1. ASSUME ReadsInv, OneWaits PROVE RepliesInOrder
  <2>1. SUFFICES ASSUME Readable, disk # "changed", NEW k \in DOMAIN out, IsHead(k)
                 PROVE  { out[l].n : l \in { l \in 1..(k - 1) : IsHead(l) } } = 1..(out[k].n - 1)
    BY DEF RepliesInOrder
  <2>2. Sound(script)
    BY <2>1 DEF Readable, Sound
  <2>3. Ordered(out)
    BY <1>1, <2>1, <2>2 DEF OneWaits, Replied
  <2>4. out \in Seq(Outputs)
    BY <1>1 DEF ReadsInv, Listed
  <2>5. k \in 1..Len(out) /\ out[k].what = "head"
    BY <2>1, <2>4 DEF IsHead
  <2> QED BY <2>3, <2>5 DEF Ordered, HeadsTo, IsHead
<1> QED BY <1>1, ReadsAlways, WaitsAlways, PTL

-----------------------------------------------------------------------------
(* The pages: types.                                                       *)

LEMMA UrlHas ==
  ASSUME NEW url \in Urls
  PROVE  /\ url \in Seq(Segments) /\ Len(url) \in Nat \ {0} /\ DOMAIN url = 1..Len(url)
         /\ url # <<>> /\ \A n \in 1..Len(url) : url[n] \in Segments
         /\ url[1] \in Segments /\ Tail(url) \in Seq(Segments) /\ Len(Tail(url)) = Len(url) - 1
<1>1. url \in Seq(Segments) /\ url # <<>>
  BY DEF Urls
<1>2. Len(url) \in Nat \ {0} /\ DOMAIN url = 1..Len(url)
  BY <1>1, EmptySeq, LenProperties
<1>3. \A n \in 1..Len(url) : url[n] \in Segments
  BY <1>1, ElementOfSeq
<1> QED BY <1>1, <1>2, <1>3, HeadTailProperties

LEMMA OnePart ==
  ASSUME NEW S, NEW x \in S
  PROVE  /\ <<x>> \in Seq(S) /\ Len(<<x>>) = 1 /\ <<x>>[1] = x /\ <<x>> # <<>>
         /\ DOMAIN <<x>> = 1..1
  OBVIOUS

LEMMA EmptyPathIs == EmptyPath \in Urls /\ Len(EmptyPath) = 1 /\ EmptyPath[1] = ""
<1>1. "" \in Segments
  BY BrowseAssumption DEF BrowseAssumption
<1> QED BY <1>1, OnePart DEF EmptyPath, Urls

(* what toAscii leaves as it is *)
Clear(seq) == \A n \in 1..Len(seq) : ~Has(seq[n], {"wide"})

LEMMA NarrowIs ==
  ASSUME NEW part \in Segments
  PROVE  /\ Narrow[part] \in Segments /\ ~Has(Narrow[part], {"wide"})
         /\ ~Has(part, {"wide"}) => Narrow[part] = part
         /\ Has(part, {"wide"}) => Has(Narrow[part], {"?"})
<1>1. /\ Narrow \in [Segments -> Segments]
      /\ IF "wide" \in Special[part]
         THEN Special[Narrow[part]] = (Special[part] \ {"wide"}) \union {"?"}
         ELSE Narrow[part] = part
  BY BrowseAssumption DEF BrowseAssumption
<1>2. Narrow[part] \in Segments
  BY <1>1
<1>3. ASSUME NEW x, NEW char PROVE Has(x, {char}) <=> char \in Special[x]
  BY DEF Has
<1>4. Has(part, {"wide"}) <=> "wide" \in Special[part]
  BY <1>3
<1>5. CASE "wide" \in Special[part]
  <2>1. Special[Narrow[part]] = (Special[part] \ {"wide"}) \union {"?"}
    BY <1>1, <1>5
  <2>2. "wide" \notin Special[Narrow[part]] /\ "?" \in Special[Narrow[part]]
    BY <2>1
  <2> QED BY <1>2, <1>3, <1>4, <1>5, <2>2
<1>6. CASE "wide" \notin Special[part]
  <2>1. Narrow[part] = part
    BY <1>1, <1>6
  <2> QED BY <1>2, <1>4, <1>6, <2>1
<1> QED BY <1>5, <1>6

LEMMA NarrowedIs ==
  ASSUME NEW seq \in Seq(Segments)
  PROVE  /\ Narrowed(seq) \in Seq(Segments) /\ Len(Narrowed(seq)) = Len(seq)
         /\ \A n \in 1..Len(seq) : Narrowed(seq)[n] = Narrow[seq[n]]
         /\ Clear(seq) => Narrowed(seq) = seq
         /\ Clear(Narrowed(seq))
<1> DEFINE to == Narrowed(seq)
<1>1. DOMAIN seq = 1..Len(seq) /\ Len(seq) \in Nat /\ \A n \in 1..Len(seq) : seq[n] \in Segments
  BY LenProperties, ElementOfSeq
<1>2. to = [n \in 1..Len(seq) |-> Narrow[seq[n]]]
  BY <1>1 DEF Narrowed
<1>3. \A n \in 1..Len(seq) : to[n] = Narrow[seq[n]] /\ to[n] \in Segments /\ ~Has(to[n], {"wide"})
  BY <1>1, <1>2, NarrowIs
<1> HIDE DEF to
<1>4. to \in [1..Len(seq) -> Segments]
  BY <1>2, <1>3
<1>5. to \in Seq(Segments) /\ Len(to) = Len(seq)
  BY <1>1, <1>4, SeqDef
<1>6. ASSUME Clear(seq) PROVE to = seq
  <2>1. \A n \in 1..Len(seq) : to[n] = seq[n]
    BY <1>1, <1>3, <1>6, NarrowIs DEF Clear
  <2> QED BY <1>5, <2>1, SeqEqual
<1>7. Clear(to)
  BY <1>3, <1>5 DEF Clear
<1> QED BY <1>3, <1>5, <1>6, <1>7 DEF to

(* A url that is followed is as it was before it was narrowed. *)
LEMMA NarrowedUrl ==
  ASSUME NEW url \in Urls
  PROVE  /\ Narrowed(url) \in Urls
         /\ Followed(Narrowed(url)) => Narrowed(url) = url /\ Clear(url)
<1>1. url \in Seq(Segments) /\ Len(url) \in Nat \ {0} /\ \A n \in 1..Len(url) : url[n] \in Segments
  BY UrlHas
<1> DEFINE to == Narrowed(url)
<1>2. to \in Seq(Segments) /\ Len(to) = Len(url) /\ \A n \in 1..Len(url) : to[n] = Narrow[url[n]]
  BY <1>1, NarrowedIs
<1> HIDE DEF to
<1>3. to \in Urls
  BY <1>1, <1>2, EmptySeq DEF Urls
<1>4. ASSUME Followed(to) PROVE Clear(url)
  <2>1. SUFFICES ASSUME NEW n \in 1..Len(url), Has(url[n], {"wide"}) PROVE FALSE
    BY DEF Clear
  <2>2. n \in DOMAIN to
    BY <1>2, <1>3, UrlHas
  <2>3. Has(to[n], {"?"})
    BY <1>1, <1>2, <2>1, NarrowIs
  <2>4. ~Has(to[n], {"?", "#"})
    BY <1>4, <2>2 DEF Followed
  <2> QED BY <2>3, <2>4 DEF Has
<1>5. Clear(url) => to = url
  BY <1>1, NarrowedIs DEF to
<1> QED BY <1>3, <1>4, <1>5 DEF to

(* the paths without empty parts *)
FullPaths == Seq(Segments \ {""})

LEMMA EmptyPathNotFull == EmptyPath \notin FullPaths
<1>1. EmptyPath[1] \notin Segments \ {""}
  BY EmptyPathIs
<1>2. 1 \in 1..Len(EmptyPath)
  <2>1. 1 \in 1..1
    OBVIOUS
  <2>2. Len(EmptyPath) = 1
    BY EmptyPathIs, Zenon
  <2> QED BY <2>1, <2>2, Zenon
<1>3. ASSUME NEW S, NEW s \in Seq(S), 1 \in 1..Len(s) PROVE s[1] \in S
  BY <1>3, ElementOfSeq
<1> QED BY <1>1, <1>2, <1>3, Zenon DEF FullPaths

(* the files of an index *)
LEMMA FilesAre ==
  ASSUME NEW files \in Indexes
  PROVE  /\ \A p \in files : p \in Urls /\ p \in FullPaths
         /\ \A p, q \in files : ~IsStrictPrefix(p, q)
<1>1. files \subseteq Seq(Segments \ {""}) \ {<<>>} /\ \A p, q \in files : ~IsStrictPrefix(p, q)
  BY BrowseAssumption DEF BrowseAssumption
<1>2. ASSUME NEW p \in files PROVE p \in Urls
  <2>1. p \in Seq(Segments \ {""}) /\ p # <<>> /\ Segments \ {""} \subseteq Segments
    BY <1>1
  <2>2. p \in Seq(Segments)
    BY <2>1, SeqMonotonic
  <2> QED BY <2>1, <2>2 DEF Urls
<1> QED BY <1>1, <1>2 DEF FullPaths

(* the repositories in the list *)
ListOK == list \in Seq([name : Names, files : Indexes]) /\ Len(list) <= MaxRepos

LEMMA FilesOfType ==
  ASSUME ListOK, NEW name \in ListedNames
  PROVE  FilesOf(name) \in Indexes /\ name \in Names /\ list # <<>>
<1> DEFINE T == { i \in DOMAIN list : list[i].name = name }
           First(i) == /\ list[i].name = name
                       /\ \A j \in 1..(i - 1) : list[j].name # name
<1>1. /\ DOMAIN list = 1..Len(list) /\ Len(list) \in Nat
      /\ \A i \in 1..Len(list) : list[i] \in [name : Names, files : Indexes]
  <2>1. list \in Seq([name : Names, files : Indexes])
    BY DEF ListOK
  <2> QED BY <2>1, LenProperties, ElementOfSeq
<1>2. T \in SUBSET Nat /\ T # {}
  <2>1. T \in SUBSET Nat
    BY <1>1
  <2>2. PICK i \in DOMAIN list : list[i].name = name
    BY DEF ListedNames
  <2> QED BY <2>1, <2>2
<1>3. PICK x \in T : \A y \in T : x <= y
  <2> HIDE DEF T
  <2> QED BY <1>2, LeastExists
<1>4. First(x)
  <2>1. SUFFICES ASSUME NEW j \in 1..(x - 1), list[j].name = name PROVE FALSE
    BY <1>3
  <2>2. x \in 1..Len(list)
    BY <1>1, <1>3
  <2>3. j \in 1..Len(list) /\ ~(x <= j)
    BY <1>1, <2>2
  <2>4. j \in T
    BY <1>1, <2>1, <2>3
  <2> QED BY <1>3, <2>3, <2>4
<1> DEFINE c == CHOOSE i \in DOMAIN list : First(i)
<1>5. c \in DOMAIN list
  <2>1. \E i \in DOMAIN list : First(i)
    BY <1>3, <1>4
  <2> HIDE DEF First
  <2> QED BY <2>1
<1>6. FilesOf(name) = list[c].files
  BY DEF FilesOf
<1>7. list[c].files \in Indexes
  <2> HIDE DEF c
  <2> QED BY <1>1, <1>5
<1>8. list[x].name = name /\ x \in 1..Len(list)
  BY <1>1, <1>3
<1>9. name \in Names
  BY <1>1, <1>8
<1>10. list # <<>>
  BY <1>8
<1> QED BY <1>6, <1>7, <1>9, <1>10

LEMMA UriPathType ==
  ASSUME NEW url \in Urls
  PROVE  /\ UriPath(url) \in Urls
         /\ (\A n \in DOMAIN url : ~Has(url[n], {"?", "#"})) => UriPath(url) = url
<1> DEFINE cuts == { n \in DOMAIN url : Has(url[n], {"?", "#"}) }
           Least(i) == \A j \in cuts : i <= j
           n == CHOOSE i \in cuts : Least(i)
<1>1. CASE cuts = {}
  BY <1>1 DEF UriPath
<1>2. CASE cuts # {}
  <2>1. cuts \in SUBSET Nat
    BY UrlHas
  <2>2. \E i \in cuts : Least(i)
    <3> HIDE DEF cuts
    <3> QED BY <1>2, <2>1, LeastExists
  <2>3. n \in cuts
    <3> HIDE DEF cuts, Least
    <3> QED BY <2>2
  <2>4. UriPath(url) = Append(SubSeq(url, 1, n - 1), Kept[url[n]])
    BY <1>2 DEF UriPath
  <2> HIDE DEF n
  <2>5. n \in 1..Len(url) /\ Has(url[n], {"?", "#"})
    BY <2>3, UrlHas
  <2>6. url[n] \in Segments /\ n - 1 \in Nat /\ n - 1 <= Len(url)
    BY <2>5, UrlHas
  <2>7. Kept[url[n]] \in Segments
    <3>1. Special[url[n]] \intersect {"?", "#", " "} # {}
      BY <2>5 DEF Has
    <3> QED BY <2>6, <3>1, BrowseAssumption DEF BrowseAssumption
  <2>8. SubSeq(url, 1, n - 1) \in Seq(Segments)
    BY <2>6, UrlHas, PrefixIs
  <2>9. UriPath(url) \in Urls
    <3> DEFINE s == SubSeq(url, 1, n - 1)
               x == Kept[url[n]]
    <3>1. Append(s, x) \in Seq(Segments) /\ Len(Append(s, x)) = Len(s) + 1 /\ Len(s) \in Nat
      <4> HIDE DEF s, x
      <4>1. s \in Seq(Segments) /\ x \in Segments
        BY <2>7, <2>8 DEF s, x
      <4> QED BY <4>1
    <3>2. Append(s, x) # <<>>
      <4> HIDE DEF s, x
      <4> QED BY <3>1
    <3> HIDE DEF s, x
    <3>3. UriPath(url) = Append(s, x)
      BY <2>4 DEF s, x
    <3> QED BY <3>1, <3>2, <3>3 DEF Urls
  <2> QED BY <1>2, <2>9
<1> QED BY <1>1, <1>2

(* what cleanPath makes of a path *)
LEMMA CleanPathIs ==
  ASSUME NEW rest \in Seq(Segments)
  PROVE  /\ CleanPath(rest) \in Urls
         /\ rest = <<>> => CleanPath(rest) = EmptyPath
         /\ rest # <<>> /\ ~Has(Last(rest), {" "}) =>
              CleanPath(rest) = IF Len(rest) > 1 /\ Last(rest) = "" THEN Front(rest) ELSE rest
<1> DEFINE last    == IF Has(Last(rest), {" "}) THEN Kept[Last(rest)] ELSE Last(rest)
           trimmed == IF rest = <<>> THEN EmptyPath ELSE Append(Front(rest), last)
<1>1. CleanPath(rest) = IF Len(trimmed) > 1 /\ Last(trimmed) = "" THEN Front(trimmed) ELSE trimmed
  BY DEF CleanPath
<1>2. trimmed \in Urls
  <2>1. CASE rest = <<>>
    BY <2>1, EmptyPathIs
  <2>2. CASE rest # <<>>
    <3>1. Front(rest) \in Seq(Segments) /\ Last(rest) \in Segments
      BY <2>2, FrontIs
    <3>2. last \in Segments
      <4>1. CASE Has(Last(rest), {" "})
        <5>1. Special[Last(rest)] \intersect {"?", "#", " "} # {}
          BY <4>1 DEF Has
        <5> QED BY <3>1, <4>1, <5>1, BrowseAssumption DEF BrowseAssumption
      <4> QED BY <3>1, <4>1
    <3> DEFINE f == Front(rest)
    <3> HIDE DEF f, last
    <3>3. Append(f, last) \in Seq(Segments) /\ Append(f, last) # <<>>
      <4>1. f \in Seq(Segments)
        BY <3>1 DEF f
      <4>2. Len(Append(f, last)) = Len(f) + 1 /\ Len(f) \in Nat /\ Append(f, last) \in Seq(Segments)
        BY <3>2, <4>1
      <4>3. Append(f, last) # <<>>
        BY <3>2, <4>1
      <4> QED BY <4>2, <4>3
    <3>4. trimmed = Append(f, last)
      BY <2>2 DEF f
    <3> HIDE DEF trimmed
    <3> QED BY <3>3, <3>4 DEF Urls
  <2> QED BY <2>1, <2>2
<1>3. CleanPath(rest) \in Urls
  <2> HIDE DEF trimmed
  <2>1. CASE Len(trimmed) > 1 /\ Last(trimmed) = ""
    <3>1. /\ Front(trimmed) \in Seq(Segments) /\ Len(trimmed) \in Nat
          /\ Len(Front(trimmed)) = Len(trimmed) - 1
      BY <1>2, UrlHas, FrontIs
    <3>2. Front(trimmed) # <<>>
      BY <1>2, <2>1, UrlHas, FrontIsNot
    <3> QED BY <1>1, <2>1, <3>1, <3>2 DEF Urls
  <2> QED BY <1>1, <1>2, <2>1
<1>4. ASSUME rest = <<>> PROVE CleanPath(rest) = EmptyPath
  <2>1. trimmed = EmptyPath
    BY <1>4
  <2>2. ~(Len(EmptyPath) > 1)
    <3>1. Len(EmptyPath) = 1
      BY EmptyPathIs
    <3> HIDE DEF trimmed
    <3> QED BY <3>1
  <2> HIDE DEF trimmed
  <2> QED BY <1>1, <2>1, <2>2
<1>5. ASSUME rest # <<>>, ~Has(Last(rest), {" "})
      PROVE  CleanPath(rest) = IF Len(rest) > 1 /\ Last(rest) = "" THEN Front(rest) ELSE rest
  <2>1. trimmed = rest
    BY <1>5, FrontIs
  <2> HIDE DEF trimmed
  <2> QED BY <1>1, <2>1
<1> QED BY <1>3, <1>4, <1>5


-----------------------------------------------------------------------------
(* The pages: routes.                                                      *)

LEMMA RoutesAre ==
  /\ DOMAIN Routes = 1..8
  /\ Routes[1] = "browse" /\ Routes[2] = "commit" /\ Routes[3] = "favicon" /\ Routes[4] = "file"
  /\ Routes[5] = "history" /\ Routes[6] = "naked" /\ Routes[7] = "ping" /\ Routes[8] = "root"
  BY DEF Routes

(* The route of a url is the first that matches it. *)
FirstToMatch(n, path) ==
  Matches(Routes[n], path) /\ \A k \in 1..(n - 1) : ~Matches(Routes[k], path)

LEMMA RouteMatches ==
  ASSUME NEW path
  PROVE  \/ /\ RouteRequest(path) = "none"
            /\ \A n \in 1..8 : ~Matches(Routes[n], path)
         \/ \E n \in 1..8 : RouteRequest(path) = Routes[n] /\ FirstToMatch(n, path)
<1> DEFINE matching == { n \in DOMAIN Routes : Matches(Routes[n], path) }
           Least(i) == \A k \in matching : i <= k
           n == CHOOSE i \in matching : Least(i)
<1>1. matching \in SUBSET Nat /\ \A k \in 1..8 : k \in matching <=> Matches(Routes[k], path)
  BY RoutesAre
<1>2. CASE matching = {}
  <2>1. RouteRequest(path) = "none"
    BY <1>2 DEF RouteRequest
  <2>2. \A k \in 1..8 : ~Matches(Routes[k], path)
    BY <1>1, <1>2
  <2> QED BY <2>1, <2>2
<1>3. CASE matching # {}
  <2>1. \E i \in matching : Least(i)
    <3> HIDE DEF matching
    <3> QED BY <1>1, <1>3, LeastExists
  <2>2. n \in matching /\ Least(n)
    <3> HIDE DEF matching, Least
    <3> QED BY <2>1
  <2>3. RouteRequest(path) = Routes[n]
    BY <1>3 DEF RouteRequest
  <2> HIDE DEF n
  <2>4. n \in 1..8 /\ Matches(Routes[n], path)
    BY <2>2, RoutesAre
  <2>5. ASSUME NEW k \in 1..(n - 1), Matches(Routes[k], path) PROVE FALSE
    <3>1. k \in 1..8 /\ ~(n <= k)
      BY <2>4
    <3>2. k \in matching
      BY <1>1, <2>5, <3>1
    <3> QED BY <2>2, <3>1, <3>2
  <2> QED BY <2>3, <2>4, <2>5 DEF FirstToMatch
<1> QED BY <1>2, <1>3

(* a url that is followed to a repository of the list *)
LEMMA NakedRoute ==
  ASSUME NEW url \in Urls, Followed(url), url[1] \in NakedNames
  PROVE  UriPath(url) = url /\ RouteRequest(url) = "naked"
<1>1. UriPath(url) = url
  <2>1. \A n \in DOMAIN url : ~Has(url[n], {"?", "#"})
    BY DEF Followed
  <2> QED BY <2>1, UriPathType
<1>2. url[1] \notin {"browse", "commit", "favicon.ico", "file", "history"}
  BY DEF Followed, Shadowing, Actions
<1>3. /\ ~Matches("browse", url) /\ ~Matches("commit", url) /\ ~Matches("favicon", url)
      /\ ~Matches("file", url) /\ ~Matches("history", url)
  <2>1. <<"favicon.ico">>[1] = "favicon.ico"
    OBVIOUS
  <2>2. ~Matches("favicon", url)
    BY <1>2, <2>1 DEF Matches
  <2>3. /\ ~Matches("browse", url) /\ ~Matches("commit", url)
        /\ ~Matches("file", url) /\ ~Matches("history", url)
    BY <1>2 DEF Matches
  <2> QED BY <2>2, <2>3
<1>4. Matches("naked", url)
  BY DEF Matches, NakedNames
<1>5. RouteRequest(url) # "none"
  BY <1>4, RouteMatches, RoutesAre
<1>6. PICK n \in 1..8 : RouteRequest(url) = Routes[n] /\ FirstToMatch(n, url)
  BY <1>5, RouteMatches
<1>7. n \notin 1..5
  BY <1>3, <1>6, RoutesAre DEF FirstToMatch
<1>8. n \notin 7..8
  <2>1. SUFFICES ASSUME n \in 7..8 PROVE FALSE
    OBVIOUS
  <2>2. 6 \in 1..(n - 1)
    BY <2>1
  <2> QED BY <1>4, <1>6, <2>2, RoutesAre DEF FirstToMatch
<1>9. n = 6
  BY <1>7, <1>8
<1> QED BY <1>1, <1>6, <1>9, RoutesAre

(* the root is that of no repository *)
LEMMA RootRoute ==
  ASSUME EmptyPath[1] \notin Pattern[ListedNames]
  PROVE  UriPath(EmptyPath) = EmptyPath /\ RouteRequest(EmptyPath) = "root"
<1>1. EmptyPath \in Urls /\ Len(EmptyPath) = 1 /\ EmptyPath[1] = "" /\ DOMAIN EmptyPath = 1..1
  BY EmptyPathIs, UrlHas
<1>2. UriPath(EmptyPath) = EmptyPath
  <2>1. Special[""] = {}
    BY BrowseAssumption DEF BrowseAssumption
  <2>2. ~Has("", {"?", "#"})
    BY <2>1 DEF Has
  <2>3. \A n \in DOMAIN EmptyPath : ~Has(EmptyPath[n], {"?", "#"})
    <3>1. ASSUME NEW n \in 1..1 PROVE ~Has(EmptyPath[n], {"?", "#"})
      <4>1. n = 1
        OBVIOUS
      <4> QED BY <1>1, <2>2, <4>1, Zenon
    <3> QED BY <1>1, <3>1, Zenon
  <2> QED BY <1>1, <2>3, UriPathType
<1>3. ~Matches("naked", EmptyPath)
  BY DEF Matches
<1>4. ~Matches("favicon", EmptyPath)
  <2>1. <<"favicon.ico">>[1] = "favicon.ico"
    OBVIOUS
  <2>2. EmptyPath # <<"favicon.ico">>
    BY <1>1, <2>1
  <2> QED BY <2>2 DEF Matches
<1>5. /\ ~Matches("browse", EmptyPath) /\ ~Matches("commit", EmptyPath)
      /\ ~Matches("file", EmptyPath) /\ ~Matches("history", EmptyPath)
      /\ ~Matches("ping", EmptyPath)
  BY <1>1 DEF Matches
<1>6. Matches("root", EmptyPath)
  BY DEF Matches
<1>7. PICK n \in 1..8 : RouteRequest(EmptyPath) = Routes[n] /\ FirstToMatch(n, EmptyPath)
  BY <1>6, RouteMatches, RoutesAre
<1>8. n \notin 1..7
  <2>1. Matches(Routes[n], EmptyPath)
    BY <1>7 DEF FirstToMatch
  <2> QED BY <1>3, <1>4, <1>5, <2>1, RoutesAre
<1>9. n = 8
  BY <1>8
<1> QED BY <1>2, <1>7, <1>9, RoutesAre


-----------------------------------------------------------------------------
(* The pages: urls of links, and what an answer is.                        *)

LEMMA UrlOf ==
  ASSUME NEW name \in Segments, NEW path \in Seq(Segments)
  PROVE  LET url == <<name>> \o path
         IN  /\ url \in Urls /\ url[1] = name /\ Len(url) = Len(path) + 1
             /\ \A i \in 1..Len(path) : url[i + 1] = path[i]
             /\ Tail(url) = path
             /\ path # <<>> => Last(url) = Last(path)
             /\ path = <<>> => url = <<name>>
<1> DEFINE one == <<name>>
           url == one \o path
<1>1. one \in Seq(Segments) /\ Len(one) = 1 /\ one[1] = name
  BY OnePart
<1>2. Len(path) \in Nat
  OBVIOUS
<1> HIDE DEF one
<1>2a. /\ url \in Seq(Segments) /\ Len(url) = Len(one) + Len(path)
      /\ \A i \in 1..(Len(one) + Len(path)) :
            url[i] = IF i <= Len(one) THEN one[i] ELSE path[i - Len(one)]
  BY <1>1, ConcatProperties, Zenon
<1> HIDE DEF url
<1>3. /\ url \in Seq(Segments) /\ Len(url) = 1 + Len(path)
      /\ \A i \in 1..(1 + Len(path)) : url[i] = IF i <= 1 THEN one[i] ELSE path[i - 1]
  BY <1>1, <1>2a, Zenon
<1>4. url[1] = name /\ Len(url) = Len(path) + 1
  BY <1>1, <1>2, <1>3
<1>5. ASSUME NEW i \in 1..Len(path) PROVE url[i + 1] = path[i]
  <2>1. i + 1 \in 1..(1 + Len(path)) /\ ~(i + 1 <= 1) /\ (i + 1) - 1 = i
    BY <1>2
  <2> QED BY <1>3, <2>1
<1>6. url # <<>>
  BY <1>2, <1>4
<1>7. Tail(url) = path
  <2>1. /\ Tail(url) \in Seq(Segments) /\ Len(Tail(url)) = Len(url) - 1
        /\ \A i \in 1..Len(Tail(url)) : Tail(url)[i] = url[i + 1]
    BY <1>3, <1>6, HeadTailProperties
  <2>2. Len(Tail(url)) = Len(path)
    BY <1>2, <1>4, <2>1
  <2>3. \A i \in 1..Len(Tail(url)) : Tail(url)[i] = path[i]
    BY <1>5, <2>1, <2>2
  <2> QED BY <2>1, <2>2, <2>3, SeqEqual
<1>8. ASSUME path # <<>> PROVE Last(url) = Last(path)
  <2>1. Len(path) \in 1..Len(path)
    BY <1>8, EmptySeq
  <2> QED BY <1>4, <1>5, <2>1 DEF Last
<1>9. ASSUME path = <<>> PROVE url = <<name>>
  BY <1>1, <1>9, ConcatEmptySeq DEF url, one
<1>10. url = <<name>> \o path
  BY DEF url, one
<1> QED BY <1>3, <1>4, <1>5, <1>6, <1>7, <1>8, <1>9, <1>10 DEF Urls

(* cleanPath takes nothing off that is anything to the disk *)
LEMMA CleanOnDisk ==
  ASSUME NEW path \in Urls, ~Has(Last(path), {" "})
  PROVE  OnDisk(CleanPath(path)) = OnDisk(path)
<1>1. path \in Seq(Segments) /\ path # <<>>
  BY UrlHas
<1>2. CleanPath(path) = IF Len(path) > 1 /\ Last(path) = "" THEN Front(path) ELSE path
  BY <1>1, CleanPathIs
<1>3. ASSUME Last(path) = "" PROVE OnDisk(Front(path)) = OnDisk(path)
  <2>1. /\ Front(path) \in Seq(Segments) /\ Last(path) \in Segments
        /\ path = Append(Front(path), Last(path))
    BY <1>1, FrontIs
  <2>2. Last(path) \in {""}
    BY <1>3
  <2>3. Without(Append(Front(path), Last(path)), {""}) = Without(Front(path), {""})
    <3> DEFINE f == Front(path)
               l == Last(path)
    <3>1. f \in Seq(Segments) /\ l \in Segments /\ l \in {""}
      BY <2>1, <2>2
    <3> HIDE DEF f, l
    <3>2. Without(Append(f, l), {""}) = Without(f, {""})
      BY <3>1, WithoutAppend, Zenon
    <3> QED BY <3>2 DEF f, l
  <2> QED BY <2>1, <2>3 DEF OnDisk
<1> QED BY <1>2, <1>3

LEMMA OnDiskAppend ==
  ASSUME NEW path \in Seq(Segments), NEW part \in Segments, part # ""
  PROVE  OnDisk(Append(path, part)) = Append(OnDisk(path), part)
<1>1. part \notin {""}
  OBVIOUS
<1>2. ASSUME NEW set
      PROVE  Without(Append(path, part), set)
               = IF part \in set THEN Without(path, set) ELSE Append(Without(path, set), part)
  BY WithoutAppend
<1> QED BY <1>1, <1>2 DEF OnDisk

(* a path without empty parts is what the disk makes of it, and nothing is *)
(* taken off it                                                            *)
LEMMA WholeOnDisk ==
  ASSUME NEW path \in FullPaths, path # <<>>
  PROVE  /\ OnDisk(path) = path /\ Last(path) # ""
         /\ ~Has(Last(path), {" "}) => CleanPath(path) = path
<1>1. \A n \in 1..Len(path) : path[n] \in Segments \ {""}
  BY ElementOfSeq DEF FullPaths
<1>2. OnDisk(path) = path
  <2>1. \A n \in 1..Len(path) : path[n] \notin {""}
    BY <1>1
  <2> QED BY <2>1, WithoutNone DEF OnDisk, FullPaths
<1>3. Last(path) # ""
  <2>1. Last(path) \in Segments \ {""}
    BY FrontIs, Zenon DEF FullPaths
  <2> QED BY <2>1
<1>4. path \in Seq(Segments)
  <2>1. Segments \ {""} \subseteq Segments
    OBVIOUS
  <2> QED BY <2>1, SeqMonotonic DEF FullPaths
<1>5. ~Has(Last(path), {" "}) => CleanPath(path) = path
  BY <1>3, <1>4, CleanPathIs
<1> QED BY <1>2, <1>3, <1>5

LEMMA ParamsNaked ==
  ASSUME NEW url \in Urls, Clear(url)
  PROVE  Params("naked", url) = [repo |-> url[1], path |-> CleanPath(Tail(url))]
<1>1. /\ url \in Seq(Segments) /\ Len(url) \in Nat \ {0} /\ url[1] \in Segments
      /\ Tail(url) \in Seq(Segments) /\ Len(Tail(url)) = Len(url) - 1 /\ url # <<>>
  BY UrlHas
<1>2. Narrow[url[1]] = url[1]
  <2>1. 1 \in 1..Len(url)
    BY <1>1
  <2> QED BY <1>1, <2>1, NarrowIs DEF Clear
<1>3. Clear(Tail(url))
  <2>1. SUFFICES ASSUME NEW n \in 1..Len(Tail(url)) PROVE ~Has(Tail(url)[n], {"wide"})
    BY DEF Clear
  <2>2. Tail(url)[n] = url[n + 1]
    BY <1>1, <2>1, HeadTailProperties
  <2>3. n + 1 \in 1..Len(url)
    <3> DEFINE a == Len(url)
               b == Len(Tail(url))
    <3>1. a \in Nat /\ b = a - 1 /\ n \in 1..b
      BY <1>1, <2>1
    <3> HIDE DEF a, b
    <3>2. n + 1 \in 1..a
      BY <3>1
    <3> QED BY <3>2 DEF a
  <2> QED BY <2>2, <2>3 DEF Clear
<1>4. Narrowed(Tail(url)) = Tail(url)
  BY <1>1, <1>3, NarrowedIs
<1>5. Params("naked", url) = [repo |-> Narrow[url[1]], path |-> CleanPath(Narrowed(Tail(url)))]
  BY DEF Params
<1> QED BY <1>2, <1>4, <1>5

(* What is answered to a url that is followed to a repository of the list. *)
LEMMA AnswerNaked ==
  ASSUME NEW name \in NakedNames, NEW url \in Urls, url[1] = name, Followed(url), Clear(url),
         NEW clean, clean = CleanPath(Tail(url))
  PROVE  /\ clean \in FilesOf(name) => Answer(url) = Answers("file", name, clean, {})
         /\ clean \notin FilesOf(name) => Answer(url) = Page(name, clean, FilesOf(name))
         /\ Params(RouteRequest(UriPath(url)), UriPath(url)) = [repo |-> name, path |-> clean]
<1>1. UriPath(url) = url /\ RouteRequest(url) = "naked"
  BY NakedRoute
<1>2. Params("naked", url) = [repo |-> name, path |-> clean]
  BY ParamsNaked
<1>0. name \in ListedNames
  BY DEF NakedNames
<1>3. CASE clean \in FilesOf(name)
  BY <1>0, <1>1, <1>2, <1>3 DEF Answer
<1>4. CASE clean \notin FilesOf(name)
  BY <1>0, <1>1, <1>2, <1>4 DEF Answer
<1> QED BY <1>1, <1>2, <1>3, <1>4

LEMMA AnswersHas ==
  ASSUME NEW kind, NEW r, NEW path, NEW links
  PROVE  /\ Answers(kind, r, path, links).kind = kind
         /\ Answers(kind, r, path, links).repo = r
         /\ Answers(kind, r, path, links).path = path
         /\ Answers(kind, r, path, links).links = links
  BY DEF Answers

LEMMA PageHas ==
  ASSUME NEW r, NEW dir, NEW files
  PROVE  /\ Page(r, dir, files).kind = "page"
         /\ Page(r, dir, files).repo = r
         /\ Page(r, dir, files).path = dir
  BY AnswersHas DEF Page

(* Of a repository that is not in the list, or whose name the pattern does *)
(* not take, no file is answered.                                          *)
LEMMA AnswerOfNone ==
  ASSUME NEW url \in Urls, UriPath(url) = url, Clear(url), url[1] \notin NakedNames
  PROVE  Answer(url).kind # "file"
<1> DEFINE route  == RouteRequest(url)
           params == Params(route, url)
<1>1. CASE route = "root"
  BY <1>1 DEF Answer, RootPage, Answers
<1>2. CASE route = "none"
  BY <1>2 DEF Answer, Error, Answers
<1>3. CASE route = "browse"
  <2> DEFINE p == Params("browse", url)
  <2>1. Answer(url) = IF p.repo \notin ListedNames THEN Error
                      ELSE Page(p.repo, p.path, FilesOf(p.repo))
    BY <1>3 DEF Answer
  <2> HIDE DEF p
  <2>2. Page(p.repo, p.path, FilesOf(p.repo)).kind = "page"
    BY PageHas
  <2>3. Error.kind = "error"
    BY DEF Answers, Error
  <2> QED BY <2>1, <2>2, <2>3
<1>4. CASE route = "naked"
  <2>0. url[1] \in Pattern[ListedNames]
    <3>1. PICK n \in 1..8 : RouteRequest(url) = Routes[n] /\ FirstToMatch(n, url)
      BY <1>4, RouteMatches
    <3>2. Matches("naked", url)
      BY <1>4, <3>1 DEF FirstToMatch
    <3> QED BY <3>2 DEF Matches
  <2>1. Params("naked", url).repo = url[1]
    BY ParamsNaked
  <2>4. url[1] \notin ListedNames
    BY <2>0 DEF NakedNames
  <2>2. Answer(url) = Error
    BY <1>4, <2>1, <2>4 DEF Answer
  <2>3. Error.kind = "error"
    BY DEF Answers, Error
  <2> QED BY <2>2, <2>3
<1>5. CASE route \notin {"root", "none", "browse", "naked"}
  <2>1. Answer(url) = Answers("other", "", EmptyPath, {})
    BY <1>5 DEF Answer
  <2>2. Answers("other", "", EmptyPath, {}).kind = "other"
    BY DEF Answers
  <2> QED BY <2>1, <2>2
<1> QED BY <1>1, <1>2, <1>3, <1>4, <1>5


-----------------------------------------------------------------------------
(* What holds of every page, however long ago it was opened: each link has *)
(* the url of what it names, and a link to a file is to a path without     *)
(* empty parts.                                                            *)
LinkOK(link) ==
  /\ link.repo \in Names /\ link.path \in Urls /\ link.to \in {"page", "file"}
  /\ \/ link.url = Narrowed(<<link.repo>> \o link.path)
     \/ link.to = "page" /\ link.path = EmptyPath /\ link.url = Narrowed(<<link.repo>>)
  /\ link.to = "file" => link.path \in FullPaths

PageOK(p) ==
  /\ p.kind \in {"root", "page", "file", "other", "error"}
  /\ p.repo \in Names \union {""} /\ p.path \in Urls
  /\ \A link \in p.links : LinkOK(link)

BrowseInv == ListOK /\ PageOK(page) /\ dirs \in SUBSET Directories

LEMMA BrowseLinkOK ==
  ASSUME NEW r \in Names, NEW dir \in Urls
  PROVE  LinkOK(LinkToBrowse(r, dir))
  BY DEF LinkOK, LinkToBrowse

LEMMA FileLinkOK ==
  ASSUME NEW r \in Names, NEW path \in Urls, path \in FullPaths
  PROVE  LinkOK(LinkToFile(r, path))
  BY DEF LinkOK, LinkToFile

LEMMA BelowIs ==
  ASSUME NEW dir \in Urls, NEW part \in Segments
  PROVE  Below(dir, part) \in Urls
<1>1. CASE dir = EmptyPath
  BY <1>1, OnePart DEF Below, Urls
<1>2. CASE dir # EmptyPath
  <2>1. dir \in Seq(Segments)
    BY UrlHas
  <2>2. Append(dir, part) \in Seq(Segments) /\ Append(dir, part) # <<>>
    BY <2>1, AppendProperties
  <2> QED BY <1>2, <2>2 DEF Below, Urls
<1> QED BY <1>1, <1>2

LEMMA PageIsOK ==
  ASSUME NEW r \in Names, NEW dir \in Urls, NEW files \in Indexes
  PROVE  PageOK(Page(r, dir, files))
<1> DEFINE crumbs  == BreadCrumb(r, dir)
           below   == { LinkToBrowse(r, Below(dir, d)) : d \in SubDirectories(files, dir) }
           inside  == { LinkToFile(r, p) : p \in FilesInDir(files, dir) }
<1>1. ASSUME NEW link \in crumbs PROVE LinkOK(link)
  <2>1. PICK d \in {EmptyPath} \union { SubSeq(dir, 1, n) : n \in DOMAIN dir } :
          link = LinkToBrowse(r, d)
    BY <1>1 DEF BreadCrumb
  <2>2. CASE d = EmptyPath
    BY <2>1, <2>2, EmptyPathIs, BrowseLinkOK
  <2>3. CASE d \in { SubSeq(dir, 1, n) : n \in DOMAIN dir }
    <3>1. PICK n \in DOMAIN dir : d = SubSeq(dir, 1, n)
      BY <2>3
    <3>2. n \in 1..Len(dir) /\ Len(dir) \in Nat /\ dir \in Seq(Segments)
      BY <3>1, UrlHas
    <3>3. n \in Nat /\ n <= Len(dir) /\ n # 0
      BY <3>2
    <3>4. d \in Seq(Segments) /\ Len(d) = n
      BY <3>1, <3>2, <3>3, PrefixIs
    <3>5. d # <<>>
      BY <3>3, <3>4, EmptySeq
    <3>6. d \in Urls
      BY <3>4, <3>5 DEF Urls
    <3> QED BY <2>1, <3>6, BrowseLinkOK
  <2> QED BY <2>1, <2>2, <2>3
<1>2. ASSUME NEW link \in below PROVE LinkOK(link)
  <2>1. PICK d \in SubDirectories(files, dir) : link = LinkToBrowse(r, Below(dir, d))
    BY <1>2
  <2>2. d \in Segments
    BY <2>1 DEF SubDirectories
  <2> QED BY <2>1, <2>2, BelowIs, BrowseLinkOK
<1>3. ASSUME NEW link \in inside PROVE LinkOK(link)
  <2>1. PICK p \in FilesInDir(files, dir) : link = LinkToFile(r, p)
    BY <1>3
  <2>2. p \in files
    BY <2>1 DEF FilesInDir
  <2>3. p \in Urls /\ p \in FullPaths
    BY <2>2, FilesAre
  <2> QED BY <2>1, <2>3, FileLinkOK
<1>4. Page(r, dir, files).links = crumbs \union below \union inside
  BY DEF Page, Answers
<1> HIDE DEF crumbs, below, inside
<1>5. \A link \in Page(r, dir, files).links : LinkOK(link)
  BY <1>1, <1>2, <1>3, <1>4, Zenon
<1>6. /\ Page(r, dir, files).kind = "page" /\ Page(r, dir, files).repo = r
      /\ Page(r, dir, files).path = dir
  BY PageHas
<1> DEFINE p == Page(r, dir, files)
<1> HIDE DEF p
<1>7. p.kind = "page" /\ p.repo = r /\ p.path = dir /\ \A link \in p.links : LinkOK(link)
  BY <1>5, <1>6 DEF p
<1>8. PageOK(p)
  BY <1>7 DEF PageOK
<1> QED BY <1>8 DEF p

LEMMA RootPageIsOK == ListOK => PageOK(RootPage)
<1> SUFFICES ASSUME ListOK PROVE PageOK(RootPage)
  OBVIOUS
<1>1. ASSUME NEW link \in RootPage.links PROVE LinkOK(link)
  <2>1. PICK name \in ListedNames :
          link = [to |-> "page", repo |-> name, path |-> EmptyPath, url |-> Narrowed(<<name>>)]
    BY <1>1 DEF RootPage, Answers
  <2>2. name \in Names
    BY FilesOfType
  <2> QED BY <2>1, <2>2, EmptyPathIs DEF LinkOK
<1>2. RootPage.kind = "root" /\ RootPage.repo = "" /\ RootPage.path = EmptyPath
  BY DEF RootPage, Answers
<1> QED BY <1>1, <1>2, EmptyPathIs DEF PageOK

LEMMA BareIsOK ==
  ASSUME NEW kind \in {"root", "page", "file", "other", "error"},
         NEW r \in Names \union {""}, NEW path \in Urls
  PROVE  PageOK(Answers(kind, r, path, {}))
  BY DEF Answers, PageOK

LEMMA AnswerIsOK ==
  ASSUME ListOK, NEW url \in Urls
  PROVE  PageOK(Answer(url))
<1> DEFINE path   == UriPath(url)
           route  == RouteRequest(path)
           params == Params(route, path)
<1>0. path \in Urls
  BY UriPathType
<1>1. CASE route = "root"
  BY <1>1, RootPageIsOK DEF Answer
<1>2. CASE route = "none"
  <2>1. Answer(url) = Answers("error", "", EmptyPath, {})
    BY <1>2 DEF Answer, Error
  <2> QED BY <2>1, EmptyPathIs, BareIsOK
<1>3. CASE route \in {"browse", "naked"} /\ params.repo \notin ListedNames
  <2>1. Answer(url) = Answers("error", "", EmptyPath, {})
    BY <1>3 DEF Answer, Error
  <2> QED BY <2>1, EmptyPathIs, BareIsOK
<1>4. CASE route \in {"browse", "naked"} /\ params.repo \in ListedNames
  <2>1. params.path \in Urls
    <3>1. CASE route = "naked"
      <4>1. params.path = CleanPath(Narrowed(Tail(path)))
        BY <3>1 DEF Params
      <4>2. Narrowed(Tail(path)) \in Seq(Segments)
        BY <1>0, UrlHas, NarrowedIs
      <4> QED BY <4>1, <4>2, CleanPathIs
    <3>2. CASE route = "browse"
      <4>1. params.path = CleanPath(Narrowed(Tail(Tail(path))))
        BY <3>2 DEF Params
      <4>2. Matches("browse", path)
        <5>1. PICK n \in 1..8 : RouteRequest(path) = Routes[n] /\ FirstToMatch(n, path)
          BY <3>2, RouteMatches
        <5> QED BY <3>2, <5>1 DEF FirstToMatch
      <4>3. Len(path) > 1
        BY <4>2 DEF Matches
      <4>4. Tail(path) \in Seq(Segments) /\ Len(Tail(path)) = Len(path) - 1
        BY <1>0, UrlHas
      <4>5. Tail(path) # <<>>
        <5>1. Len(path) \in Nat
          BY <1>0, UrlHas
        <5>2. Len(Tail(path)) # 0
          <6> DEFINE a == Len(path)
                     b == Len(Tail(path))
          <6>1. a \in Nat /\ a > 1 /\ b = a - 1
            BY <4>3, <4>4, <5>1
          <6> HIDE DEF a, b
          <6>2. b # 0
            BY <6>1
          <6> QED BY <6>2 DEF b
        <5> QED BY <5>2, EmptySeq
      <4>6. Narrowed(Tail(Tail(path))) \in Seq(Segments)
        BY <4>4, <4>5, HeadTailProperties, NarrowedIs
      <4> QED BY <4>1, <4>6, CleanPathIs
    <3> QED BY <1>4, <3>1, <3>2
  <2>2. params.repo \in Names /\ FilesOf(params.repo) \in Indexes
    BY <1>4, FilesOfType
  <2>3. \/ Answer(url) = Answers("file", params.repo, params.path, {})
        \/ Answer(url) = Page(params.repo, params.path, FilesOf(params.repo))
    BY <1>4 DEF Answer
  <2> HIDE DEF params
  <2>4. PageOK(Answers("file", params.repo, params.path, {}))
    BY <2>1, <2>2, BareIsOK
  <2>5. PageOK(Page(params.repo, params.path, FilesOf(params.repo)))
    BY <2>1, <2>2, PageIsOK
  <2> QED BY <2>3, <2>4, <2>5
<1>5. CASE route \notin {"root", "none", "browse", "naked"}
  <2>1. Answer(url) = Answers("other", "", EmptyPath, {})
    BY <1>5 DEF Answer
  <2> QED BY <2>1, EmptyPathIs, BareIsOK
<1> QED BY <1>1, <1>2, <1>3, <1>4, <1>5

(* the url of a link, and what it is if it can be followed *)
LEMMA LinkUrl ==
  ASSUME NEW link, LinkOK(link)
  PROVE  /\ link.url \in Urls
         /\ Followed(link.url) =>
              /\ link.url[1] = link.repo /\ Clear(link.url)
              /\ \/ link.url = <<link.repo>> \o link.path
                 \/ link.to = "page" /\ link.path = EmptyPath /\ link.url = <<link.repo>>
<1>1. link.repo \in Segments /\ link.path \in Seq(Segments)
  <2>1. link.repo \in Segments
    BY BrowseAssumption DEF BrowseAssumption, LinkOK
  <2> QED BY <2>1, UrlHas DEF LinkOK
<1>2. ASSUME link.url = Narrowed(<<link.repo>> \o link.path)
      PROVE  /\ link.url \in Urls
             /\ Followed(link.url) => /\ link.url = <<link.repo>> \o link.path
                                      /\ link.url[1] = link.repo /\ Clear(link.url)
  <2> DEFINE u == <<link.repo>> \o link.path
  <2>1. u \in Urls /\ u[1] = link.repo
    BY <1>1, UrlOf
  <2> HIDE DEF u
  <2>2. link.url = Narrowed(u)
    BY <1>2 DEF u
  <2>3. link.url \in Urls /\ (Followed(link.url) => link.url = u /\ Clear(u))
    BY <2>1, <2>2, NarrowedUrl
  <2>4. Followed(link.url) => link.url = u /\ link.url[1] = link.repo /\ Clear(link.url)
    BY <2>1, <2>3
  <2> QED BY <2>3, <2>4 DEF u
<1>3. ASSUME link.url = Narrowed(<<link.repo>>)
      PROVE  /\ link.url \in Urls
             /\ Followed(link.url) => /\ link.url = <<link.repo>>
                                      /\ link.url[1] = link.repo /\ Clear(link.url)
  <2> DEFINE u == <<link.repo>>
  <2>1. u \in Urls /\ u[1] = link.repo
    BY <1>1, OnePart DEF Urls
  <2> HIDE DEF u
  <2>2. link.url = Narrowed(u)
    BY <1>3 DEF u
  <2>3. link.url \in Urls /\ (Followed(link.url) => link.url = u /\ Clear(u))
    BY <2>1, <2>2, NarrowedUrl
  <2>4. Followed(link.url) => link.url = u /\ link.url[1] = link.repo /\ Clear(link.url)
    BY <2>1, <2>3
  <2> QED BY <2>3, <2>4 DEF u
<1> QED BY <1>2, <1>3, Zenon DEF LinkOK


-----------------------------------------------------------------------------
(* The pages: the invariant.                                               *)

LEMMA BrowseInvInit == BrowseInit => BrowseInv
<1> SUFFICES ASSUME BrowseInit PROVE BrowseInv
  OBVIOUS
<1>1. list = <<>> /\ page = RootPage /\ dirs \in SUBSET Directories
  BY DEF BrowseInit
<1>2. ListOK
  <2>1. MaxRepos \in Nat
    BY BrowseAssumption DEF BrowseAssumption
  <2>2. <<>> \in Seq([name : Names, files : Indexes]) /\ Len(<<>>) = 0
    BY EmptySeq, Zenon
  <2>3. 0 <= MaxRepos
    BY <2>1
  <2> QED BY <1>1, <2>2, <2>3 DEF ListOK
<1> QED BY <1>1, <1>2, RootPageIsOK DEF BrowseInv

LEMMA BrowseInvStep == BrowseInv /\ [BrowseNext]_browseVars => BrowseInv'
<1> DEFINE Repo == [name : Names, files : Indexes]
<1> SUFFICES ASSUME BrowseInv, [BrowseNext]_browseVars PROVE BrowseInv'
  OBVIOUS
<1> USE DEF BrowseInv
<1>0. list \in Seq(Repo) /\ Len(list) \in Nat /\ Len(list) <= MaxRepos /\ DOMAIN list = 1..Len(list)
  <2>1. list \in Seq(Repo) /\ Len(list) <= MaxRepos
    BY DEF ListOK
  <2> QED BY <2>1, LenProperties
<1>1. CASE Visit
  <2>1. PICK url \in Typed : page' = Answer(url)
    BY <1>1 DEF Visit
  <2>2. url \in Urls
    BY BrowseAssumption DEF BrowseAssumption
  <2>3. PageOK(page')
    BY <2>1, <2>2, AnswerIsOK
  <2>4. list' = list /\ dirs' = dirs
    BY <1>1 DEF Visit
  <2> QED BY <2>3, <2>4 DEF ListOK, PageOK
<1>2. CASE Follow
  <2>1. PICK link \in page.links : page' = Answer(link.url)
    BY <1>2 DEF Follow
  <2>2. LinkOK(link)
    BY <2>1 DEF PageOK
  <2>3. link.url \in Urls
    BY <2>2, LinkUrl
  <2>4. PageOK(page')
    BY <2>1, <2>3, AnswerIsOK
  <2>5. list' = list /\ dirs' = dirs
    BY <1>2 DEF Follow
  <2> QED BY <2>4, <2>5 DEF ListOK, PageOK
<1>3. CASE InsertRepo
  <2>1. PICK name \in Names, files \in Indexes :
          list' = Append(list, [name |-> name, files |-> files])
    BY <1>3 DEF InsertRepo
  <2>2. Len(list) < MaxRepos /\ page' = page /\ dirs' = dirs
    BY <1>3 DEF InsertRepo
  <2>3. [name |-> name, files |-> files] \in Repo
    OBVIOUS
  <2> DEFINE x == [name |-> name, files |-> files]
  <2> HIDE DEF x, Repo
  <2>4. Append(list, x) \in Seq(Repo) /\ Len(Append(list, x)) = Len(list) + 1
    BY <1>0, <2>3, AppendProperties DEF x
  <2>5. list' = Append(list, x)
    BY <2>1 DEF x
  <2>6. MaxRepos \in Nat
    BY BrowseAssumption DEF BrowseAssumption
  <2>7. list' \in Seq(Repo) /\ Len(list') <= MaxRepos
    BY <1>0, <2>2, <2>4, <2>5, <2>6
  <2> QED BY <2>2, <2>7 DEF ListOK, PageOK, Repo
<1>4. CASE DropRepo
  <2>1. PICK i \in DOMAIN list : list' = RemoveAt(list, i)
    BY <1>4 DEF DropRepo
  <2>2. i \in 1..Len(list) /\ page' = page /\ dirs' = dirs
    BY <1>0, <1>4, <2>1 DEF DropRepo
  <2> DEFINE a == SubSeq(list, 1, i - 1)
             b == SubSeq(list, i + 1, Len(list))
  <2> HIDE DEF Repo
  <2>3. \A k \in 1..Len(list) : list[k] \in Repo
    BY <1>0, ElementOfSeq
  <2>4. a \in Seq(Repo) /\ Len(a) = i - 1
    <3>1. i - 1 \in Nat /\ i - 1 <= Len(list)
      BY <1>0, <2>2
    <3> QED BY <1>0, <3>1, PrefixIs
  <2>5. b \in Seq(Repo) /\ Len(b) = Len(list) - i
    <3>1. i + 1 \in Int /\ Len(list) \in Int /\ \A k \in (i + 1)..Len(list) : list[k] \in Repo
      BY <1>0, <2>2, <2>3
    <3>2. b \in Seq(Repo) /\ Len(b) = IF i + 1 <= Len(list) THEN Len(list) - (i + 1) + 1 ELSE 0
      BY <3>1, SubSeqProperties
    <3> HIDE DEF b
    <3> QED BY <1>0, <2>2, <3>2
  <2>6. a \o b \in Seq(Repo) /\ Len(a \o b) = Len(a) + Len(b)
    <3> HIDE DEF a, b
    <3> QED BY <2>4, <2>5, ConcatProperties
  <2>7. list' = a \o b
    BY <2>1 DEF RemoveAt
  <2> HIDE DEF a, b
  <2>8. MaxRepos \in Nat
    BY BrowseAssumption DEF BrowseAssumption
  <2>9. list' \in Seq(Repo)
    BY <2>6, <2>7
  <2>10. Len(list') <= MaxRepos
    <3> DEFINE l == Len(list')
               m == Len(list)
    <3>1. l = (i - 1) + (m - i) /\ m \in Nat /\ m <= MaxRepos /\ i \in Int
      BY <1>0, <2>2, <2>4, <2>5, <2>6, <2>7
    <3> HIDE DEF l, m
    <3>2. l <= MaxRepos
      BY <2>8, <3>1
    <3> QED BY <3>2 DEF l
  <2> QED BY <2>2, <2>9, <2>10 DEF ListOK, PageOK, Repo
<1>5. CASE Change
  <2>1. PICK i \in DOMAIN list, files \in Indexes : list' = [list EXCEPT ![i].files = files]
    BY <1>5 DEF Change
  <2>2. page' = page /\ dirs' = dirs
    BY <1>5 DEF Change
  <2>3. list[i] \in Repo
    BY <1>0, <2>1, ElementOfSeq
  <2> DEFINE x == [list[i] EXCEPT !.files = files]
  <2>4. x \in Repo
    BY <2>1, <2>3
  <2>5. list' = [list EXCEPT ![i] = x]
    BY <2>1
  <2> HIDE DEF x, Repo
  <2>6. list' \in Seq(Repo) /\ Len(list') = Len(list)
    BY <1>0, <2>1, <2>4, <2>5, ExceptSeq
  <2>7. Len(list') <= MaxRepos
    BY <1>0, <2>6
  <2> QED BY <2>2, <2>6, <2>7 DEF ListOK, PageOK, Repo
<1>6. CASE UNCHANGED browseVars
  BY <1>6 DEF browseVars, ListOK, PageOK
<1>7. CASE ChangeDisk
  <2>1. dirs' \in SUBSET Directories /\ list' = list /\ page' = page
    BY <1>7 DEF ChangeDisk
  <2> QED BY <2>1 DEF ListOK, PageOK
<1> QED BY <1>1, <1>2, <1>3, <1>4, <1>5, <1>6, <1>7 DEF BrowseNext

LEMMA BrowseInvAlways == BrowseSpec => []BrowseInv
  BY BrowseInvInit, BrowseInvStep, PTL DEF BrowseSpec

(* The repositories, the last answer and its links always have their       *)
(* types.                                                                  *)
THEOREM BrowseTypeCorrect == BrowseSpec => []BrowseTypeOK
<1>1. BrowseInv => BrowseTypeOK
  <2> SUFFICES ASSUME BrowseInv PROVE BrowseTypeOK
    OBVIOUS
  <2>1. ASSUME NEW link \in page.links PROVE link.path \in Urls /\ link.url \in Urls
    <3>1. LinkOK(link)
      BY <2>1 DEF BrowseInv, PageOK
    <3>2. link.url \in Urls
      BY <3>1, LinkUrl
    <3> QED BY <3>1, <3>2 DEF LinkOK
  <2> QED BY <2>1 DEF BrowseInv, ListOK, PageOK, BrowseTypeOK
<1> QED BY <1>1, BrowseInvAlways, PTL

(* A link that can be followed leads, however long ago its page was        *)
(* opened, to the directory or the file that it names if the repository    *)
(* still has it and the pattern takes its name; and whatever names there   *)
(* are, to no other file: linkToBrowse and linkToFile of httpview.cpp      *)
(* against the routes of httpcontroller.cpp.                               *)
THEOREM LinksAreRight == BrowseSpec => []LinksLead
<1>1. BrowseInv => LinksLead
  <2> SUFFICES ASSUME BrowseInv, NEW link \in page.links, Followed(link.url)
               PROVE  LET answer == Answer(link.url)
                          is     == /\ answer.repo = link.repo
                                    /\ OnDisk(answer.path) = OnDisk(link.path)
                          file   == /\ link.repo \in NakedNames
                                    /\ OnDisk(link.path) \in FilesOf(link.repo)
                      IN  /\ link.to = "file" /\ file => answer.kind = "file" /\ is
                          /\ link.to = "page" /\ ~file /\ link.repo \in NakedNames =>
                               answer.kind = "page" /\ is
                          /\ answer.kind = "file" => is
    BY DEF LinksLead
  <2> DEFINE name   == link.repo
             path   == link.path
             url    == link.url
             clean  == CleanPath(Tail(url))
             answer == Answer(url)
             is     == answer.repo = name /\ OnDisk(answer.path) = OnDisk(path)
             file   == name \in NakedNames /\ OnDisk(path) \in FilesOf(name)
  <2>1. LinkOK(link) /\ ListOK
    BY DEF BrowseInv, PageOK
  <2>2. /\ url \in Urls /\ url[1] = name /\ Clear(url)
        /\ \/ url = <<name>> \o path
           \/ link.to = "page" /\ path = EmptyPath /\ url = <<name>>
    BY <2>1, LinkUrl
  <2>3. path \in Urls /\ path \in Seq(Segments) /\ path # <<>> /\ name \in Segments
    <3>1. name \in Segments
      BY <2>1, BrowseAssumption DEF BrowseAssumption, LinkOK
    <3>2. path \in Urls
      BY <2>1 DEF LinkOK
    <3> QED BY <3>1, <3>2, UrlHas
  <2>4. CASE name \notin NakedNames
    <3>1. UriPath(url) = url
      <4>1. \A n \in DOMAIN url : ~Has(url[n], {"?", "#"})
        BY DEF Followed
      <4> QED BY <2>2, <4>1, UriPathType
    <3>2. answer.kind # "file"
      BY <2>2, <2>4, <3>1, AnswerOfNone
    <3> QED BY <2>4, <3>2
  <2>5. CASE name \in NakedNames
    <3>0. name \in ListedNames
      BY <2>5 DEF NakedNames
    <3>1. OnDisk(clean) = OnDisk(path) /\ (link.to = "file" => clean = path)
      <4>1. CASE url = <<name>> \o path
        <5>1. Tail(url) = path /\ Last(url) = Last(path)
          BY <2>3, <4>1, UrlOf
        <5>2. ~Has(Last(path), {" "})
          BY <5>1 DEF Followed
        <5>3. OnDisk(clean) = OnDisk(path)
          BY <2>3, <5>1, <5>2, CleanOnDisk
        <5>4. ASSUME link.to = "file" PROVE clean = path
          <6>1. path \in FullPaths
            BY <2>1, <5>4 DEF LinkOK
          <6> QED BY <2>3, <5>1, <5>2, <6>1, WholeOnDisk
        <5> QED BY <5>3, <5>4
      <4>2. CASE link.to = "page" /\ path = EmptyPath /\ url = <<name>>
        <5>1. Tail(<<name>>) = <<>>
          OBVIOUS
        <5>2. clean = EmptyPath
          BY <4>2, <5>1, EmptySeq, CleanPathIs
        <5> QED BY <4>2, <5>2
      <4> QED BY <2>2, <4>1, <4>2
    <3>2. /\ clean \in FilesOf(name) => answer = Answers("file", name, clean, {})
          /\ clean \notin FilesOf(name) => answer = Page(name, clean, FilesOf(name))
      BY <2>2, <2>5, AnswerNaked
    <3>3. answer.repo = name /\ answer.path = clean
      BY <3>2, AnswersHas, PageHas
    <3>4. is
      BY <3>1, <3>3
    <3>5. clean \in FilesOf(name) => OnDisk(path) \in FilesOf(name)
      <4>1. SUFFICES ASSUME clean \in FilesOf(name) PROVE OnDisk(path) = clean
        OBVIOUS
      <4>2. clean \in FullPaths /\ clean # <<>>
        BY <2>1, <3>0, <4>1, FilesOfType, FilesAre, UrlHas
      <4> QED BY <3>1, <4>2, WholeOnDisk
    <3>6. ASSUME link.to = "file", file PROVE answer.kind = "file"
      <4>1. clean = path /\ path \in FullPaths
        BY <2>1, <3>1, <3>6 DEF LinkOK
      <4>2. OnDisk(path) = path
        BY <2>3, <4>1, WholeOnDisk
      <4>3. clean \in FilesOf(name)
        BY <3>6, <4>1, <4>2
      <4> QED BY <3>2, <4>3, AnswersHas
    <3>7. ASSUME ~file PROVE answer.kind = "page"
      <4>1. clean \notin FilesOf(name)
        BY <2>5, <3>5, <3>7
      <4> QED BY <3>2, <4>1, PageHas
    <3> QED BY <3>4, <3>6, <3>7
  <2> QED BY <2>4, <2>5
<1> QED BY <1>1, BrowseInvAlways, PTL

(* A file that is sent with the form on a page is written to the directory *)
(* that the page shows, whatever has become of the repository since, or    *)
(* ends the process if that directory is not on the disk: uploadForm of    *)
(* httpview.cpp against processUploadStarted of httpcontroller.cpp and     *)
(* putFile of localdiskrepo.cpp.                                           *)
THEOREM FormsAreRight == BrowseSpec => []FormLands
<1>1. BrowseInv => FormLands
  <2> DEFINE r == page.repo
             path == page.path
             url  == FormUrl(r, path)
             clean == CleanPath(path)
             there == <<r, OnDisk(path)>> \in dirs
  <2> SUFFICES ASSUME BrowseInv, NEW name \in Uploads,
                      page.kind = "page", r \in NakedNames, Followed(url)
               PROVE  /\ there => /\ UploadTo(url, name).kind = "written"
                                  /\ UploadTo(url, name).repo = r
                                  /\ UploadTo(url, name).path = Append(OnDisk(path), name)
                      /\ ~there => UploadTo(url, name).kind = "dead"
    BY DEF FormLands
  <2>0. r \in ListedNames
    BY DEF NakedNames
  <2>1. ListOK /\ path \in Urls /\ path \in Seq(Segments) /\ path # <<>>
    <3>1. ListOK /\ path \in Urls
      BY DEF BrowseInv, PageOK
    <3> QED BY <3>1, UrlHas
  <2>2. r \in Segments /\ name \in Segments /\ name \notin {""}
    <3>1. r \in Names
      BY <2>0, <2>1, FilesOfType
    <3> QED BY <3>1, BrowseAssumption DEF BrowseAssumption
  <2>4. /\ url \in Urls /\ url[1] = r /\ Tail(url) = path /\ Last(url) = Last(path)
        /\ Clear(url)
    <3> DEFINE u == <<r>> \o path
    <3>1. u \in Urls /\ u[1] = r /\ Tail(u) = path /\ Last(u) = Last(path)
      BY <2>1, <2>2, UrlOf
    <3>2. url = Narrowed(u)
      BY DEF FormUrl
    <3> HIDE DEF u, url
    <3>3. url = u /\ Clear(u)
      BY <3>1, <3>2, NarrowedUrl
    <3> QED BY <3>1, <3>3
  <2>5. ~Has(Last(path), {" "})
    BY <2>4 DEF Followed
  <2>6. OnDisk(clean) = OnDisk(path) /\ clean \in Urls
    BY <2>1, <2>5, CleanOnDisk, CleanPathIs
  <2>7. Params(RouteRequest(UriPath(url)), UriPath(url)) = [repo |-> r, path |-> clean]
    BY <2>4, AnswerNaked
  <2>9. OnDisk(Append(clean, name)) = Append(OnDisk(clean), name)
    <3>1. clean \in Seq(Segments) /\ name # ""
      BY <2>2, <2>6, UrlHas
    <3> QED BY <2>2, <3>1, OnDiskAppend, Zenon
  <2>10. UploadTo(url, name) =
           IF <<r, OnDisk(clean)>> \notin dirs
           THEN [kind |-> "dead", repo |-> r, path |-> <<>>]
           ELSE [kind |-> "written", repo |-> r, path |-> OnDisk(Append(clean, name))]
    BY <2>0, <2>7 DEF UploadTo
  <2> HIDE DEF url, clean
  <2>11. ASSUME there
         PROVE  UploadTo(url, name) = [kind |-> "written", repo |-> r,
                                       path |-> Append(OnDisk(path), name)]
    BY <2>6, <2>9, <2>10, <2>11
  <2>12. ASSUME ~there PROVE UploadTo(url, name) = [kind |-> "dead", repo |-> r, path |-> <<>>]
    BY <2>6, <2>10, <2>12
  <2> HIDE DEF there
  <2> QED BY <2>11, <2>12
<1> QED BY <1>1, BrowseInvAlways, PTL


-----------------------------------------------------------------------------
(* The pages: the way from the root to a file.                             *)

LEMMA PrefixIsStrict ==
  ASSUME NEW seq \in Seq(Segments), NEW n \in Nat, n < Len(seq)
  PROVE  IsStrictPrefix(SubSeq(seq, 1, n), seq)
<1>1. Len(seq) \in Nat /\ n <= Len(seq)
  OBVIOUS
<1>2. /\ Len(SubSeq(seq, 1, n)) = n /\ SubSeq(seq, 1, n) \in Seq(Segments)
      /\ \A i \in 1..n : SubSeq(seq, 1, n)[i] = seq[i]
  BY <1>1, PrefixIs
<1> DEFINE s == SubSeq(seq, 1, n)
<1>3. s = SubSeq(seq, 1, n)
  OBVIOUS
<1> HIDE DEF s
<1>4. s \in Seq(Segments) /\ Len(s) = n
  BY <1>2, <1>3
<1>5. SubSeq(s, 1, n) = s
  <2>1. /\ SubSeq(s, 1, n) \in Seq(Segments) /\ Len(SubSeq(s, 1, n)) = n
        /\ \A i \in 1..n : SubSeq(s, 1, n)[i] = s[i]
    BY <1>4, PrefixIs
  <2> QED BY <1>4, <2>1, SeqEqual
<1>6. Len(s) <= Len(seq) /\ s # seq
  BY <1>1, <1>4
<1>7. SubSeq(s, 1, Len(s)) = SubSeq(seq, 1, Len(s))
  BY <1>3, <1>4, <1>5
<1> QED BY <1>3, <1>6, <1>7 DEF IsStrictPrefix, IsPrefix

(* the way to a file: the repository and the first parts of its path *)
Way(p, n) == SubSeq(p, 1, n)
Step(p, n) == IF n = 0 THEN EmptyPath ELSE Way(p, n)

LEMMA WayIs ==
  ASSUME ListOK, NEW name \in ListedNames, NEW p \in FilesOf(name), NEW n \in Nat, n <= Len(p)
  PROVE  /\ Way(p, n) \in Seq(Segments) /\ Way(p, n) \in FullPaths
         /\ Len(Way(p, n)) = n /\ \A i \in 1..n : Way(p, n)[i] = p[i]
         /\ n = 0 => Way(p, n) = <<>>
         /\ n # 0 => /\ Way(p, n) # <<>> /\ Way(p, n) # EmptyPath
                     /\ Last(Way(p, n)) = p[n]
<1>1. p \in FullPaths /\ p \in Seq(Segments)
  BY FilesOfType, FilesAre, UrlHas
<1>2. /\ Way(p, n) \in Seq(Segments) /\ Way(p, n) \in FullPaths
      /\ Len(Way(p, n)) = n /\ \A i \in 1..n : Way(p, n)[i] = p[i]
  BY <1>1, PrefixIs DEF Way, FullPaths
<1>3. n = 0 => Way(p, n) = <<>>
  BY <1>2, EmptySeq
<1>4. ASSUME n # 0
      PROVE  Way(p, n) # <<>> /\ Way(p, n) # EmptyPath /\ Last(Way(p, n)) = p[n]
  <2>1. n \in 1..n /\ 1 \in 1..n
    BY <1>4
  <2>2. Way(p, n) # <<>>
    BY <1>2, <1>4, EmptySeq
  <2>3. Way(p, n)[1] \in Segments \ {""}
    BY <1>2, <2>1, ElementOfSeq DEF FullPaths
  <2>4. Way(p, n) # EmptyPath
    BY <2>3, EmptyPathIs
  <2>5. Last(Way(p, n)) = p[n]
    BY <1>2, <2>1 DEF Last
  <2> QED BY <2>2, <2>4, <2>5
<1> QED BY <1>2, <1>3, <1>4

(* The first parts of a path are neither cut nor trimmed. *)
Plain(p, n) == \A i \in 1..n : ~Has(p[i], {"?", "#", " ", "wide"})

(* The url of a step of the way is followed. *)
LEMMA WayFollowed ==
  ASSUME ListOK, NEW name \in FromRoot, NEW p \in FilesOf(name),
         NEW n \in Nat, n <= Len(p), Plain(p, n)
  PROVE  LET url == <<name>> \o Way(p, n)
         IN  /\ url \in Urls /\ url[1] = name /\ Tail(url) = Way(p, n) /\ Followed(url)
             /\ Clear(url) /\ Narrowed(url) = url
<1> DEFINE url == <<name>> \o Way(p, n)
           w   == Way(p, n)
<1>0. /\ name \in ListedNames /\ name \in NakedNames /\ name \notin Shadowing
      /\ ~Has(name, {"?", "#", " ", "wide"})
  BY DEF FromRoot, NakedNames
<1>1. /\ w \in Seq(Segments) /\ Len(w) = n /\ \A i \in 1..n : w[i] = p[i]
      /\ (n = 0 => w = <<>>) /\ (n # 0 => w # <<>> /\ Last(w) = p[n])
  BY <1>0, WayIs
<1>2. name \in Segments
  <2>1. name \in Names
    BY <1>0, FilesOfType
  <2> QED BY <2>1, BrowseAssumption DEF BrowseAssumption
<1>3. /\ url \in Urls /\ url[1] = name /\ Len(url) = n + 1 /\ Tail(url) = w
      /\ \A i \in 1..n : url[i + 1] = p[i]
      /\ (n # 0 => Last(url) = p[n]) /\ (n = 0 => Last(url) = name)
  <2>1. /\ url \in Urls /\ url[1] = name /\ Len(url) = Len(w) + 1 /\ Tail(url) = w
        /\ (w # <<>> => Last(url) = Last(w))
    BY <1>1, <1>2, UrlOf
  <2>2. \A i \in 1..Len(w) : url[i + 1] = w[i]
    BY <1>1, <1>2, UrlOf
  <2>3. Len(url) = n + 1
    BY <1>1, <2>1
  <2>4. ASSUME NEW i \in 1..n PROVE url[i + 1] = p[i]
    BY <1>1, <2>2
  <2>5. n = 0 => Last(url) = name
    BY <2>1, <2>3 DEF Last
  <2>6. n # 0 => Last(url) = p[n]
    BY <1>1, <2>1
  <2> HIDE DEF url, w
  <2> QED BY <2>1, <2>3, <2>4, <2>5, <2>6
<1> HIDE DEF url, w
<1>4. ASSUME NEW m \in 1..Len(url) PROVE ~Has(url[m], {"?", "#", " ", "wide"})
  <2>1. m \in 1..(n + 1)
    BY <1>3
  <2>2. CASE m = 1
    BY <1>0, <1>3, <2>2
  <2>3. CASE m # 1
    <3>1. m - 1 \in 1..n /\ (m - 1) + 1 = m
      BY <2>1, <2>3
    <3>2. url[m] = p[m - 1]
      BY <1>3, <3>1
    <3>3. ~Has(p[m - 1], {"?", "#", " ", "wide"})
      BY <3>1, Zenon DEF Plain
    <3> QED BY <3>2, <3>3
  <2> QED BY <2>2, <2>3
<1>5. /\ \A m \in DOMAIN url : ~Has(url[m], {"?", "#"})
      /\ ~Has(Last(url), {" "}) /\ Clear(url)
  <2>1. DOMAIN url = 1..Len(url) /\ Len(url) \in 1..Len(url)
    BY <1>3, UrlHas
  <2>2. Last(url) = url[Len(url)]
    BY DEF Last
  <2> QED BY <1>4, <2>1, <2>2 DEF Has, Clear
<1>6. Followed(url)
  BY <1>0, <1>3, <1>5 DEF Followed
<1>8. Narrowed(url) = url
  <2>1. url \in Seq(Segments)
    BY <1>3, UrlHas
  <2> QED BY <1>5, <2>1, NarrowedIs
<1>7. url = <<name>> \o Way(p, n) /\ w = Way(p, n)
  BY DEF url, w
<1> QED BY <1>3, <1>5, <1>6, <1>7, <1>8

(* Before the end of the way there is a page. *)
LEMMA WayPage ==
  ASSUME ListOK, NEW name \in FromRoot, NEW p \in FilesOf(name),
         NEW n \in Nat, n < Len(p), Plain(p, n)
  PROVE  Answer(<<name>> \o Way(p, n)) = Page(name, Step(p, n), FilesOf(name))
<1> DEFINE url == <<name>> \o Way(p, n)
<1>0. name \in ListedNames /\ name \in NakedNames
  BY DEF FromRoot, NakedNames
<1>1. Len(p) \in Nat /\ n <= Len(p) /\ p \in Seq(Segments)
  BY <1>0, FilesOfType, FilesAre, UrlHas
<1>2. url \in Urls /\ url[1] = name /\ Tail(url) = Way(p, n) /\ Followed(url) /\ Clear(url)
  BY <1>1, WayFollowed
<1>3. CleanPath(Way(p, n)) = Step(p, n)
  <2>1. CASE n = 0
    BY <1>0, <1>1, <2>1, WayIs, CleanPathIs DEF Step
  <2>2. CASE n # 0
    <3>1. Way(p, n) \in FullPaths /\ Way(p, n) # <<>> /\ Last(Way(p, n)) = p[n]
      BY <1>0, <1>1, <2>2, WayIs
    <3>2. ~Has(p[n], {" "})
      <4>1. n \in 1..n
        BY <2>2
      <4>2. ~Has(p[n], {"?", "#", " ", "wide"})
        BY <4>1, Zenon DEF Plain
      <4> QED BY <4>2 DEF Has
    <3> QED BY <2>2, <3>1, <3>2, WholeOnDisk DEF Step
  <2> QED BY <2>1, <2>2
<1>4. Step(p, n) \notin FilesOf(name)
  <2>1. CASE n = 0
    <3>2. EmptyPath \notin FullPaths
      BY EmptyPathNotFull
    <3>3. \A q \in FilesOf(name) : q \in FullPaths
      BY <1>0, FilesOfType, FilesAre
    <3> QED BY <2>1, <3>2, <3>3 DEF Step
  <2>2. CASE n # 0
    <3>1. IsStrictPrefix(Way(p, n), p)
      BY <1>1, PrefixIsStrict DEF Way
    <3>2. Way(p, n) \notin FilesOf(name)
      BY <1>0, <3>1, FilesOfType, FilesAre
    <3> QED BY <2>2, <3>2 DEF Step
  <2> QED BY <2>1, <2>2
<1> HIDE DEF url
<1>5. CleanPath(Tail(url)) = Step(p, n)
  BY <1>2, <1>3
<1>6. Answer(url) = Page(name, Step(p, n), FilesOf(name))
  BY <1>0, <1>2, <1>4, <1>5, AnswerNaked
<1> QED BY <1>6 DEF url

(* The page of a directory has the links to what is in it. *)
LEMMA DirectoryLink ==
  ASSUME NEW r, NEW dir, NEW files, NEW d \in SubDirectories(files, dir)
  PROVE  LinkToBrowse(r, Below(dir, d)) \in Page(r, dir, files).links
  BY DEF Page, Answers

LEMMA FileLink ==
  ASSUME NEW r, NEW dir, NEW files, NEW p \in FilesInDir(files, dir)
  PROVE  LinkToFile(r, p) \in Page(r, dir, files).links
  BY DEF Page, Answers

(* The pattern of subDirectories admits the name of a directory. *)
Shown(d) == ~Has(d, {"?", "*", "\\", ":", ";", "{", "}"})

LEMMA NextOnTheWay ==
  ASSUME ListOK, NEW name \in ListedNames, NEW p \in FilesOf(name),
         NEW n \in Nat, n + 1 < Len(p),
         Shown(p[n + 1])
  PROVE  /\ p[n + 1] \in SubDirectories(FilesOf(name), Step(p, n))
         /\ Below(Step(p, n), p[n + 1]) = Way(p, n + 1)
<1>1. Len(p) \in Nat /\ n <= Len(p) /\ n + 1 <= Len(p) /\ p \in Seq(Segments) /\ n + 1 \in Nat
  BY FilesOfType, FilesAre, UrlHas
<1>2. p[n + 1] \in Segments
  <2>1. n + 1 \in 1..Len(p)
    BY <1>1
  <2> QED BY <1>1, <2>1, ElementOfSeq
<1>3. Append(Way(p, n), p[n + 1]) = Way(p, n + 1)
  BY <1>1, PrefixGrows DEF Way
<1>4. IsStrictPrefix(Way(p, n + 1), p)
  BY <1>1, PrefixIsStrict DEF Way
<1> DEFINE above == IF Step(p, n) = EmptyPath THEN <<>> ELSE Step(p, n)
<1>5. above = Way(p, n)
  <2>1. CASE n = 0
    BY <1>1, <2>1, WayIs DEF Step
  <2>2. CASE n # 0
    BY <1>1, <2>2, WayIs DEF Step
  <2> QED BY <2>1, <2>2
<1>6. p[n + 1] \in SubDirectories(FilesOf(name), Step(p, n))
  <2>1. IsStrictPrefix(Append(above, p[n + 1]), p)
    BY <1>3, <1>4, <1>5
  <2> QED BY <1>2, <2>1 DEF SubDirectories, Shown
<1>7. Below(Step(p, n), p[n + 1]) = Append(above, p[n + 1])
  <2> DEFINE d == p[n + 1]
  <2>1. Append(<<>>, d) = <<d>>
    <3> HIDE DEF d
    <3> QED OBVIOUS
  <2> QED BY <2>1 DEF Below
<1> QED BY <1>3, <1>5, <1>6, <1>7

(* Every file that is not directly in its repository can be reached from   *)
(* the root by the links of the pages alone, if the patterns of            *)
(* filesInDir and subDirectories of state.cpp admit its name and those of  *)
(* its directories, and that of the list the name of the repository        *)
(* (README.txt:43).                                                        *)
THEOREM AllIsReached == BrowseSpec => []Reachable
<1>1. BrowseInv => Reachable
  <2> SUFFICES ASSUME BrowseInv, NEW name \in FromRoot,
                      NEW p \in FilesOf(name), Admitted(p)
               PROVE  /\ \E link \in Answer(EmptyPath).links :
                           /\ link.repo = name
                           /\ Answer(link.url).kind = "page"
                           /\ Answer(link.url).path = EmptyPath
                      /\ \A n \in 1..(Len(p) - 1) :
                           \E link \in LinkIn(<<name>> \o SubSeq(p, 1, n - 1), "page",
                                              SubSeq(p, 1, n)) :
                             link.url = <<name>> \o SubSeq(p, 1, n)
                      /\ \E link \in LinkIn(<<name>> \o Front(p), "file", p) :
                           Answer(link.url).kind = "file"
    BY DEF Reachable
  <2> DEFINE files == FilesOf(name)
             N == Len(p)
  <2>0. /\ name \in ListedNames /\ name \in NakedNames /\ EmptyPath[1] \notin Pattern[ListedNames]
        /\ ~Has(name, {"?", "#", " ", "wide"})
    <3>1. "" \notin Pattern[ListedNames]
      BY DEF FromRoot
    <3>2. EmptyPath[1] = ""
      BY EmptyPathIs
    <3>3. /\ name \in ListedNames /\ name \in NakedNames
          /\ ~Has(name, {"?", "#", " ", "wide"})
      BY DEF FromRoot, NakedNames
    <3> QED BY <3>1, <3>2, <3>3
  <2>9. name \in ListedNames
    BY <2>0
  <2>1. /\ ListOK /\ N \in Nat /\ N > 1 /\ p \in Seq(Segments) /\ p \in FullPaths
        /\ p # <<>>
    <3>1. ListOK
      BY DEF BrowseInv
    <3> QED BY <2>0, <3>1, FilesOfType, FilesAre, UrlHas DEF Admitted
  <2>2. \A i \in 1..(N - 1) : ~Has(p[i], {"?", "*", "\\", ":", ";", "{", "}", "#", " ", "wide"})
    BY DEF Admitted
  <2>3. ~Has(Last(p), {"?", "*", "\\", "#", " ", "wide"})
    BY DEF Admitted
  <2>4. ASSUME NEW n \in Nat, n < N
        PROVE  Answer(<<name>> \o Way(p, n)) = Page(name, Step(p, n), files)
    <3>1. ASSUME NEW i \in 1..n PROVE ~Has(p[i], {"?", "#", " ", "wide"})
      <4>1. i \in 1..(N - 1)
        BY <2>1, <2>4
      <4> QED BY <2>2, <4>1 DEF Has
    <3>2. Plain(p, n)
      BY <3>1, Zenon DEF Plain
    <3> QED BY <2>1, <2>4, <3>2, WayPage
  <2>8. ASSUME NEW n \in Nat, n < N PROVE Narrowed(<<name>> \o Way(p, n)) = <<name>> \o Way(p, n)
    <3>1. ASSUME NEW i \in 1..n PROVE ~Has(p[i], {"?", "#", " ", "wide"})
      <4>1. i \in 1..(N - 1)
        BY <2>1, <2>8
      <4> QED BY <2>2, <4>1 DEF Has
    <3>2. Plain(p, n)
      BY <3>1, Zenon DEF Plain
    <3>3. n <= Len(p)
      BY <2>1, <2>8
    <3> QED BY <2>1, <2>8, <3>2, <3>3, WayFollowed
  <2>5. \E link \in Answer(EmptyPath).links : /\ link.repo = name
                                              /\ Answer(link.url).kind = "page"
                                              /\ Answer(link.url).path = EmptyPath
    <3> DEFINE link == [to |-> "page", repo |-> name, path |-> EmptyPath,
                     url |-> Narrowed(<<name>>)]
    <3>1. Answer(EmptyPath) = RootPage
      <4>1. UriPath(EmptyPath) = EmptyPath /\ RouteRequest(EmptyPath) = "root"
        BY <2>0, RootRoute
      <4> QED BY <4>1 DEF Answer
    <3>2. link \in Answer(EmptyPath).links
      <4>1. link \in RootPage.links
        BY <2>0 DEF RootPage, Answers
      <4> QED BY <3>1, <4>1
    <3>3. <<name>> \o Way(p, 0) = <<name>>
      <4>1. Way(p, 0) = <<>>
        BY <2>1, <2>9, WayIs
      <4>2. <<name>> \o <<>> = <<name>>
        OBVIOUS
      <4> QED BY <4>1, <4>2
    <3>4. Answer(<<name>>) = Page(name, EmptyPath, files)
      <4>1. Answer(<<name>> \o Way(p, 0)) = Page(name, Step(p, 0), files)
        BY <2>1, <2>4
      <4> QED BY <3>3, <4>1 DEF Step
    <3>6. Narrowed(<<name>>) = <<name>>
      <4>1. 0 \in Nat /\ 0 < N
        BY <2>1
      <4>2. Narrowed(<<name>> \o Way(p, 0)) = <<name>> \o Way(p, 0)
        BY <2>8, <4>1
      <4> QED BY <3>3, <4>2
    <3>5. Answer(link.url).kind = "page" /\ Answer(link.url).path = EmptyPath
      BY <3>4, <3>6, PageHas
    <3> QED BY <3>2, <3>5
  <2>6. ASSUME NEW n \in 1..(N - 1)
        PROVE  \E link \in LinkIn(<<name>> \o SubSeq(p, 1, n - 1), "page", SubSeq(p, 1, n)) :
                 link.url = <<name>> \o SubSeq(p, 1, n)
    <3>1. PICK m \in Nat : m + 1 = n /\ n - 1 = m /\ m < N /\ m + 1 < N
      <4>1. n - 1 \in Nat /\ (n - 1) + 1 = n /\ n - 1 < N /\ n < N
        BY <2>1
      <4> QED BY <4>1
    <3> DEFINE dir  == Step(p, m)
               d    == p[m + 1]
               link == LinkToBrowse(name, Way(p, m + 1))
    <3>2. Answer(<<name>> \o Way(p, m)) = Page(name, dir, files)
      BY <2>4, <3>1
    <3>3. d \in SubDirectories(files, dir) /\ Below(dir, d) = Way(p, m + 1)
      <4>1. Shown(p[m + 1])
        BY <2>2, <3>1 DEF Has, Shown
      <4> QED BY <2>0, <2>1, <3>1, <4>1, NextOnTheWay
    <3>4. LinkToBrowse(name, Below(dir, d)) \in Page(name, dir, files).links
      BY <3>3, DirectoryLink
    <3>5. link \in Answer(<<name>> \o Way(p, m)).links
      BY <3>2, <3>3, <3>4
    <3>6. link.to = "page" /\ link.path = Way(p, m + 1) /\ link.url = <<name>> \o Way(p, m + 1)
      <4>1. m + 1 \in Nat /\ m + 1 < N
        BY <3>1
      <4> HIDE DEF N
      <4>2. Narrowed(<<name>> \o Way(p, m + 1)) = <<name>> \o Way(p, m + 1)
        BY <2>8, <4>1
      <4> QED BY <4>2 DEF LinkToBrowse
    <3> HIDE DEF link
    <3>7. link \in LinkIn(<<name>> \o Way(p, m), "page", Way(p, m + 1))
      BY <3>5, <3>6 DEF LinkIn
    <3> QED BY <3>1, <3>6, <3>7 DEF Way
  <2>7. \E link \in LinkIn(<<name>> \o Front(p), "file", p) : Answer(link.url).kind = "file"
    <3>1. PICK m \in Nat : m + 1 = N /\ N - 1 = m /\ m # 0 /\ m < N
      <4>1. N \in Nat /\ N > 1
        BY <2>1
      <4> HIDE DEF N
      <4>2. N - 1 \in Nat /\ (N - 1) + 1 = N /\ N - 1 # 0 /\ N - 1 < N
        BY <4>1
      <4> QED BY <4>2
    <3> DEFINE link == LinkToFile(name, p)
    <3>2. Front(p) = Way(p, m) /\ Step(p, m) = Way(p, m)
      BY <3>1 DEF Front, Way, Step
    <3>3. Answer(<<name>> \o Front(p)) = Page(name, Front(p), files)
      BY <2>4, <3>1, <3>2
    <3>4. p \in FilesInDir(files, Front(p))
      BY <2>3 DEF FilesInDir, Has
    <3>5. link \in Answer(<<name>> \o Front(p)).links
      BY <3>3, <3>4, FileLink
    <3>9. Way(p, N) = p
      <4>1. /\ Way(p, N) \in Seq(Segments) /\ Len(Way(p, N)) = N
            /\ \A i \in 1..N : Way(p, N)[i] = p[i]
        BY <2>1, <2>9, WayIs
      <4> QED BY <2>1, <4>1, SeqEqual
    <3>10. ASSUME NEW i \in 1..N PROVE ~Has(p[i], {"?", "#", " ", "wide"})
      <4>1. CASE i = N
        <5>1. Last(p) = p[i]
          BY <4>1 DEF Last
        <5> QED BY <2>3, <5>1 DEF Has
      <4>2. CASE i # N
        <5>1. i \in 1..(N - 1)
          BY <2>1, <4>2
        <5> QED BY <2>2, <5>1 DEF Has
      <4> QED BY <4>1, <4>2
    <3>11. LET u == <<name>> \o p
           IN  /\ u \in Urls /\ u[1] = name /\ Tail(u) = p /\ Followed(u) /\ Clear(u)
               /\ Narrowed(u) = u
      <4>1. LET u == <<name>> \o Way(p, N)
            IN  /\ u \in Urls /\ u[1] = name /\ Tail(u) = Way(p, N) /\ Followed(u)
                /\ Clear(u) /\ Narrowed(u) = u
        <5>1. Plain(p, N)
          BY <3>10, Zenon DEF Plain
        <5>2. N <= Len(p)
          BY <2>1
        <5> QED BY <2>1, <5>1, <5>2, WayFollowed
      <4> QED BY <3>9, <4>1
    <3>6. link.to = "file" /\ link.path = p /\ link.url = <<name>> \o p
      BY <3>11 DEF LinkToFile
    <3> HIDE DEF link
    <3>7. link \in LinkIn(<<name>> \o Front(p), "file", p)
      BY <3>5, <3>6 DEF LinkIn
    <3>8. Answer(<<name>> \o p).kind = "file"
      <4> DEFINE url == <<name>> \o p
      <4>3. url \in Urls /\ url[1] = name /\ Tail(url) = p /\ Followed(url) /\ Clear(url)
        BY <3>11
      <4>4. CleanPath(p) = p
        <5>1. ~Has(Last(p), {" "})
          BY <2>3 DEF Has
        <5> QED BY <2>1, <5>1, WholeOnDisk
      <4> HIDE DEF url
      <4>5. CleanPath(Tail(url)) = p
        BY <4>3, <4>4
      <4>6. Answer(url) = Answers("file", name, p, {})
        BY <2>0, <4>3, <4>5, AnswerNaked
      <4> QED BY <4>6, AnswersHas DEF url
    <3> QED BY <3>6, <3>7, <3>8
  <2> QED BY <2>5, <2>6, <2>7
<1> QED BY <1>1, BrowseInvAlways, PTL
=============================================================================
