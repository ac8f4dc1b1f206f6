----------------------------- MODULE HttpParser -----------------------------
(***************************************************************************)
(* HttpParser::parse, src/http/HttpParser.cpp, as an operator on the       *)
(* parser's state.                                                         *)
(*                                                                         *)
(* The buffer holds pieces: a request line, header line, blank line or     *)
(* byte of a body. A piece has the number of the request it is from and    *)
(* says whether it has the "\r\n" that ends a line. Part of a line matters *)
(* only if it is over the size limit, so only such a line comes in two     *)
(* pieces. What is in a line is what the parser tells apart.               *)
(***************************************************************************)
EXTENDS Naturals, SequencesExt

CONSTANTS
  MaxHeaders,  \* kMaxHeaderCount
  MaxBody      \* kMaxBodyBytes

\* Op(x). TLC evaluates x once.
Apply(Op(_), x) == CHOOSE y \in {Op(z) : z \in {x}} : TRUE

\* A parser at the start of a request. buf is buffer_ from consumed_ on.
Fresh == [buf |-> <<>>, state |-> "RequestLine", id |-> 0, version |-> "", headers |-> <<>>, count |-> 0]

Ends(b) == {i \in DOMAIN b : b[i].end}
Rest(b) == SubSeq(b, Min(Ends(b)) + 1, Len(b))

Incomplete(p) == [status |-> "Incomplete", parser |-> p]
Error(p) == [status |-> "Error", parser |-> p]

\* Lines 23-27 and 65-69: no end of line in sight.
Unended(p) == IF \E i \in DOMAIN p.buf : p.buf[i].long THEN Error(p) ELSE Incomplete(p)

Length(p) == IF "content-length" \in DOMAIN p.headers THEN p.headers["content-length"] ELSE 0
KeepAlive(p) ==
  IF "connection" \in DOMAIN p.headers THEN p.headers["connection"] # "close" ELSE p.version = "1.1"

\* Mutant: the buffer is emptied, whatever is behind the request.
MutBody(p) ==
  IF Len(p.buf) < Length(p)
  THEN Incomplete(p)
  ELSE [status |-> "Complete", id |-> p.id, keepAlive |-> KeepAlive(p), parser |-> Fresh]

\* Lines 129-158.
Body(p) ==
  IF Len(p.buf) < Length(p)
  THEN Incomplete(p)
  ELSE [status |-> "Complete", id |-> p.id, keepAlive |-> KeepAlive(p),
        parser |-> [Fresh EXCEPT !.buf = SubSeq(p.buf, Length(p) + 1, Len(p.buf))]]

\* Lines 109-127, behind the blank line, where an error leaves the parser. A
\* length that is not a number counts as one that is too large.
Framing(p) ==
  LET has(key) == key \in DOMAIN p.headers
  IN  IF \/ has("content-length") /\ p.headers["content-length"] \notin 0 .. MaxBody
         \/ has("transfer-encoding") /\ (has("content-length") \/ p.headers["transfer-encoding"] = "chunked")
      THEN Error(p)
      ELSE Apply(Body, [p EXCEPT !.state = "Body"])

\* parseHeaders, lines 77-94: the i-th line in the buffer, all before it being
\* headers, is one that is taken.
Takes(p, i) ==
  /\ p.buf[i].type = "header"
  /\ p.count + i <= MaxHeaders
  /\ p.buf[i].key \in {"content-length", "transfer-encoding", "host"} =>
       p.buf[i].key \notin DOMAIN p.headers \cup {p.buf[j].key : j \in 1 .. i - 1}

Taken(p) == Max({n \in 0 .. Len(p.buf) : \A i \in 1 .. n : Takes(p, i)})

AfterHeaders(p, n) ==
  [p EXCEPT !.buf = SubSeq(@, n + 1, Len(@)), !.count = @ + n,
            !.headers = FoldLeft(LAMBDA h, line : (line.key :> line.value) @@ h, @, SubSeq(p.buf, 1, n))]

\* parseHeaders, and what follows. (A line that is refused also leaves
\* headerCount_ incremented, which makes no difference: it is refused again.)
ParseHeaders(p) ==
  LET Behind(q) ==
        IF q.buf # <<>> /\ Head(q.buf).type = "blank" THEN Apply(Framing, [q EXCEPT !.buf = Tail(@)])
        ELSE IF Ends(q.buf) = {} THEN Unended(q)
        ELSE Error(q)
  IN  Apply(Behind, AfterHeaders(p, Taken(p)))

\* parseRequestLine, and what follows.
ParseRequestLine(p) ==
  IF Ends(p.buf) = {} THEN Unended(p)
  ELSE LET line == Head(p.buf) IN
    IF line.type # "request" \/ ~line.valid THEN Error(p)
    ELSE Apply(ParseHeaders, [p EXCEPT !.buf = Rest(@), !.state = "Headers",
                                       !.id = line.id, !.version = line.version])

\* parse()
Parse(p) ==
  CASE p.state = "RequestLine" -> ParseRequestLine(p)
    [] p.state = "Headers" -> ParseHeaders(p)
    [] p.state = "Body" -> Body(p)
=============================================================================
