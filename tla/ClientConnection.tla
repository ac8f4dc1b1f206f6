-------------------------- MODULE ClientConnection --------------------------
(***************************************************************************)
(* One client connection of a worker: Gateway::Worker, src/core/           *)
(* Gateway.cpp, lines 38-256, with the state of include/core/              *)
(* Connection.hpp. The worker handles one event at a time; the client and  *)
(* the kernel's buffers move in between.                                   *)
(*                                                                         *)
(* The client sends its requests piece by piece, so that they arrive in    *)
(* fragments and pipelined in every way, and HttpParser takes them apart.  *)
(* handleRequest queues exactly one response on each of its paths, which   *)
(* is all that is left of it here. A response fills one unit of the send   *)
(* buffer.                                                                 *)
(***************************************************************************)
EXTENDS HttpParser

CONSTANTS
  MaxRequests,  \* requests the client sends (bound)
  ReadSize,     \* sizeof(buf) of onReadable, in pieces
  SendBuffer    \* responses the kernel takes before send() says EAGAIN

ASSUME ConnectionAssumption == {MaxRequests, ReadSize, SendBuffer} \subseteq Nat \ {0}

\* The requests a client may make, as the pieces it sends.
Line(id, fields) == fields @@ [id |-> id, end |-> TRUE, long |-> FALSE]
Request(id, valid) == Line(id, [type |-> "request", valid |-> valid, version |-> "1.1"])
Header(id, key, value) == Line(id, [type |-> "header", key |-> key, value |-> value])
Blank(id) == Line(id, [type |-> "blank"])
LongPart(id) == [Request(id, TRUE) EXCEPT !.end = FALSE, !.long = TRUE]
Byte(id) == [Line(id, [type |-> "byte"]) EXCEPT !.end = FALSE]

Pieces(kind, id) ==
  CASE kind = "keep" -> <<Request(id, TRUE), Blank(id)>>
    [] kind = "close" -> <<Request(id, TRUE), Header(id, "connection", "close"), Blank(id)>>
    [] kind = "post" -> <<Request(id, TRUE), Header(id, "content-length", 1), Header(id, "connection", "keep-alive"),
                           Blank(id), Byte(id)>>
    [] kind = "long" -> <<LongPart(id), Request(id, TRUE), Blank(id)>>
    [] kind = "bad" -> <<Request(id, FALSE)>>
    [] kind = "twice" -> <<Request(id, TRUE), Header(id, "content-length", 1), Header(id, "content-length", 1)>>
    [] kind = "chunked" -> <<Request(id, TRUE), Header(id, "transfer-encoding", "chunked"), Blank(id)>>

\* Well-formed; to be refused; over the size limit, and so refused or not.
Good == {"keep", "close", "post"}
Malformed == {"bad", "twice", "chunked"}
Kinds == Good \cup Malformed \cup {"long"}

VARIABLES
  conn,        \* "none", "open" or "closed"
  parser,      \* parser
  pending,     \* pendingWrite from writeOffset on, as responses
  closeAfter,  \* closeAfterWrite
  wantOut,     \* EPOLLOUT is registered
  idle,        \* now - lastActivity > kIdleTimeout
  sending,     \* responses in the kernel's send buffer
  wire,        \* pieces sent by the client and not yet read
  unsent,      \* pieces of the request the client is sending
  sent,        \* history: kinds of the requests the client has begun
  client,      \* "up", "fin" (no more to send), "reset" or "dead" (silent)
  got          \* history: the responses the client has received

vars == <<conn, parser, pending, closeAfter, wantOut, idle, sending, wire, unsent, sent, client, got>>

Init ==
  /\ conn = "none"
  /\ parser = Fresh
  /\ pending = <<>> /\ closeAfter = FALSE /\ wantOut = FALSE
  /\ idle = FALSE
  /\ sending = <<>> /\ wire = <<>> /\ unsent = <<>>
  /\ sent = <<>> /\ client = "up" /\ got = <<>>

\* onAccept
OnAccept ==
  /\ conn = "none"
  /\ conn' = "open"
  /\ UNCHANGED <<parser, pending, closeAfter, wantOut, idle, sending, wire, unsent, sent, client, got>>

\* What is left for the client in the send buffer k after close(): everything,
\* or nothing if there was unread input and the connection is reset.
AfterClose(k, unread) == IF unread = <<>> THEN {k} ELSE {k, <<>>}

\* closeConnection
CloseConnection(unread) ==
  /\ conn' = "closed"
  /\ parser' = Fresh
  /\ pending' = <<>> /\ closeAfter' = FALSE /\ wantOut' = FALSE
  /\ wire' = <<>>
  /\ sending' \in AfterClose(sending, unread)

-----------------------------------------------------------------------------
(* onReadable, lines 103-115: what is queued by parsing until the parser   *)
(* has no more or the connection ends.                                     *)

Response(id, ok) == [id |-> id, ok |-> ok]
AtFault(p) == IF p.state = "RequestLine" THEN Head(p.buf).id ELSE p.id

RECURSIVE Drain(_, _, _)
Drain(p, queue, ca) ==
  LET Queue(r, id, closes) == [parser |-> r.parser, queue |-> Append(queue, Response(id, r.status = "Complete")),
                               closes |-> closes]
      Handle(r) ==
        CASE r.status = "Incomplete" -> [parser |-> r.parser, queue |-> queue, closes |-> ca]
          [] r.status = "Error" -> Queue(r, AtFault(p), TRUE)
          [] r.status = "Complete" /\ ~r.keepAlive -> Queue(r, r.id, TRUE)
          [] r.status = "Complete" /\ r.keepAlive ->
               Drain(r.parser, Append(queue, Response(r.id, TRUE)), FALSE)
  IN  Apply(Handle, Parse(p))

\* flushIfPossible, lines 207-214: send() takes what there is room for.
Unwritten(p, room) == SubSeq(p, room + 1, Len(p))

\* Mutant: EPOLLOUT is not asked for.
MutNoWait(p, room) == FALSE

\* Lines 215-218 and 229.
WaitsForRoom(p, room) == Len(p) > room

\* Mutant: closeAfterWrite is not looked at.
MutNeverCloses(p, room, ca) == FALSE

\* Line 226.
ClosesNow(p, room, ca) == Len(p) <= room /\ ca

\* flushIfPossible with p to write and closeAfterWrite = ca. With nothing to
\* write it returns at once.
Flush(p, ca) ==
  LET room == SendBuffer - Len(sending)
      kernel == sending \o SubSeq(p, 1, Min({room, Len(p)}))
  IN  /\ closeAfter' = ca
      /\ \/ p = <<>> /\ pending' = p /\ UNCHANGED <<conn, wantOut, sending>>
         \/ /\ p # <<>>
            /\ pending' = Unwritten(p, room)
            /\ wantOut' = WaitsForRoom(p, room)
            /\ IF ClosesNow(p, room, ca)
               THEN conn' = "closed" /\ sending' \in AfterClose(kernel, wire')
               ELSE conn' = conn /\ sending' = kernel

\* onEvent, line 75.
OnHangup ==
  /\ conn = "open"
  /\ client = "reset"
  /\ CloseConnection(<<>>)
  /\ UNCHANGED <<idle, unsent, sent, client, got>>

\* onReadable, lines 88-101: recv() reports the end of the stream, at once or
\* after reads that each filled buf; what those reads got is dropped.
OnPeerClosed ==
  /\ conn = "open"
  /\ client = "fin"
  /\ Len(wire) % ReadSize = 0
  /\ CloseConnection(<<>>)
  /\ UNCHANGED <<idle, unsent, sent, client, got>>

\* The rest of onReadable.
OnReadable ==
  /\ conn = "open"
  /\ client # "reset"
  /\ wire # <<>>
  /\ ~(client = "fin" /\ Len(wire) % ReadSize = 0)
  /\ wire' = <<>>
  /\ idle' = FALSE
  /\ \E read \in {[parser EXCEPT !.buf = @ \o wire]} :
     \E drained \in {Drain(read, pending, closeAfter)} :
       parser' = drained.parser /\ Flush(drained.queue, drained.closes)
  /\ UNCHANGED <<unsent, sent, client, got>>

\* onWritable
OnWritable ==
  /\ conn = "open"
  /\ client # "reset"
  /\ wantOut
  /\ Len(sending) < SendBuffer
  /\ UNCHANGED <<parser, idle, wire, unsent, sent, client, got>>
  /\ Flush(pending, closeAfter)

IdleTimeoutElapses ==
  /\ conn = "open"
  /\ ~idle
  /\ idle' = TRUE
  /\ UNCHANGED <<conn, parser, pending, closeAfter, wantOut, sending, wire, unsent, sent, client, got>>

\* Mutant: a connection in the middle of a request counts as active.
MutSweepSparesPartial ==
  /\ conn = "open"
  /\ idle
  /\ pending = <<>> /\ parser = Fresh
  /\ CloseConnection(wire)
  /\ UNCHANGED <<idle, unsent, sent, client, got>>

\* sweepIdleConnections
Sweep ==
  /\ conn = "open"
  /\ idle
  /\ pending = <<>>
  /\ CloseConnection(wire)
  /\ UNCHANGED <<idle, unsent, sent, client, got>>

\* Worker::run, lines 52-55.
WorkerExits ==
  /\ conn = "open"
  /\ CloseConnection(wire)
  /\ UNCHANGED <<idle, unsent, sent, client, got>>

-----------------------------------------------------------------------------
(* The client.                                                             *)

ClientSends ==
  /\ client = "up"
  /\ conn = "open"
  /\ \/ /\ unsent # <<>>
        /\ wire' = Append(wire, Head(unsent))
        /\ unsent' = Tail(unsent)
        /\ UNCHANGED sent
     \/ /\ unsent = <<>>
        /\ Len(sent) < MaxRequests
        /\ \E k \in Kinds :
             /\ sent' = Append(sent, k)
             /\ wire' = Append(wire, Head(Pieces(k, Len(sent'))))
             /\ unsent' = Tail(Pieces(k, Len(sent')))
  /\ UNCHANGED <<conn, parser, pending, closeAfter, wantOut, idle, sending, client, got>>

ClientReads ==
  /\ client \in {"up", "fin"}
  /\ sending # <<>>
  /\ got' = Append(got, Head(sending))
  /\ sending' = Tail(sending)
  /\ UNCHANGED <<conn, parser, pending, closeAfter, wantOut, idle, wire, unsent, sent, client>>

\* The client shuts down its side, resets the connection or falls silent.
ClientLeaves(how) ==
  /\ client = "up"
  /\ conn = "open"
  /\ client' = how
  /\ UNCHANGED <<conn, parser, pending, closeAfter, wantOut, idle, sending, wire, unsent, sent, got>>

\* The connection is over and the client has read what there was.
Over ==
  /\ conn = "closed"
  /\ client \in {"reset", "dead"} \/ sending = <<>>
  /\ UNCHANGED vars

Handlers == OnHangup \/ OnPeerClosed \/ OnReadable \/ OnWritable

Next ==
  \/ OnAccept \/ Handlers \/ IdleTimeoutElapses \/ Sweep \/ WorkerExits
  \/ ClientSends \/ ClientReads
  \/ \E how \in {"fin", "reset", "dead"} : ClientLeaves(how)
  \/ Over

Spec == Init /\ [][Next]_vars

\* The event loop delivers every ready event (epoll is level-triggered) and
\* calls the sweep after every poll(); time passes; a client that has not
\* fallen silent reads what is sent to it.
FairSpec ==
  Spec /\ WF_vars(Handlers) /\ WF_vars(IdleTimeoutElapses) /\ WF_vars(Sweep) /\ WF_vars(ClientReads)

-----------------------------------------------------------------------------
\* The responses on their way, oldest first.
Stream == got \o sending \o pending

\* HttpParser.hpp, lines 13-16: "bytes arrive in arbitrary chunk sizes across
\* multiple epoll wakeups, so the parser must be resumable". Up to and
\* including the response that ends the connection the client gets exactly one
\* response per request, in the order of its requests and the right one,
\* however requests are fragmented and pipelined and writes are cut short.
OneResponseEachInOrder ==
  \A i \in DOMAIN Stream :
    (\A j \in 1 .. i - 1 : sent[j] \in {"keep", "post"}) =>
      /\ Stream[i].id = i
      /\ sent[i] \in Good => Stream[i].ok
      /\ sent[i] \in Malformed => ~Stream[i].ok

\* A response that cannot be written at once is not forgotten: a client that
\* stays and keeps reading has, again and again, the response to every request
\* that the gateway has handled, unless the connection is closed.
ResponsesAreDelivered ==
  []<>(Len(got) = Len(Stream) \/ conn = "closed" \/ client = "dead")

\* Connection.hpp, line 22: closeAfterWrite is "set when the current response
\* should end the connection". It does: a connection is not left open, for the
\* idle sweep to find, once the last response queued on it ends it and is
\* written out, however often the write was blocked and whatever was read in
\* between. (A request read meanwhile has its own response as the last one and
\* may keep the connection.)
EndingRequestCloses ==
  conn = "open" /\ pending = <<>> /\ Stream # <<>> =>
    Last(Stream).ok /\ sent[Last(Stream).id] # "close"

\* Gateway.cpp, lines 244-245: the sweep is there "to bound memory/fd usage
\* under slow-client or dead-peer conditions". A client that falls silent does
\* not keep its connection, unless a response for it is still unwritten.
SilentClientIsReaped ==
  []<>~(client = "dead" /\ wire = <<>> /\ pending = <<>> /\ conn = "open")
=============================================================================
