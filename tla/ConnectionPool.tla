--------------------------- MODULE ConnectionPool ---------------------------
(***************************************************************************)
(* ConnectionPool, src/network/ConnectionPool.cpp: a deque of idle sockets *)
(* per backend under one mutex, dialling outside it, and the obligations   *)
(* of its callers (forwardWithResilience, Gateway::run). A socket is its   *)
(* descriptor; the kernel may reuse the number of a closed one at once, so *)
(* a second close or a late use would hit somebody else's connection.      *)
(***************************************************************************)
EXTENDS Naturals, Sequences, FiniteSets

CONSTANTS
  Threads,   \* worker threads
  Keys,      \* host:port of the backends
  Sockets,   \* descriptors the process may have open at once
  MaxIdle,   \* maxIdlePerBackend_
  NoSocket, NoKey

ASSUME PoolAssumption ==
  /\ MaxIdle \in Nat
  /\ NoSocket \notin Sockets
  /\ NoKey \notin Keys

VARIABLES
  idle,     \* idle_: sequence of descriptors per key
  sock,     \* the descriptor a thread got from acquire()
  key,      \* the backend a thread called acquire() for
  open,     \* descriptors open in this process
  gone,     \* open descriptors whose peer has closed the connection
  peer,     \* the backend an open descriptor is connected to
  closed    \* closeAll() has run; nothing calls the pool after it

poolVars == <<idle, sock, key, open, gone, peer, closed>>

Init ==
  /\ idle = [k \in Keys |-> <<>>]
  /\ sock = [t \in Threads |-> NoSocket]
  /\ key = [t \in Threads |-> NoKey]
  /\ open = {}
  /\ gone = {}
  /\ peer = [s \in Sockets |-> NoKey]
  /\ closed = FALSE

-----------------------------------------------------------------------------
Close(ss) ==
  /\ open' = open \ ss
  /\ gone' = gone \ ss
  /\ peer' = [s \in Sockets |-> IF s \in ss THEN NoKey ELSE peer[s]]

\* Mutant: the deques are told apart by host only, not by host and port.
MutAcquireAnyPort(t, k) ==
  /\ ~closed
  /\ key[t] = NoKey
  /\ \E l \in Keys :
       /\ idle[l] # <<>>
       /\ sock' = [sock EXCEPT ![t] = Head(idle[l])]
       /\ idle' = [idle EXCEPT ![l] = Tail(@)]
  /\ key' = [key EXCEPT ![t] = k]
  /\ UNCHANGED <<open, gone, peer, closed>>

\* acquire(), lines 54-60: the oldest idle socket of the backend.
AcquireIdle(t, k) ==
  /\ ~closed
  /\ key[t] = NoKey
  /\ idle[k] # <<>>
  /\ sock' = [sock EXCEPT ![t] = Head(idle[k])]
  /\ key' = [key EXCEPT ![t] = k]
  /\ idle' = [idle EXCEPT ![k] = Tail(@)]
  /\ UNCHANGED <<open, gone, peer, closed>>

\* acquire(), lines 55-61: nothing idle, the mutex is given up to dial.
AcquireMiss(t, k) ==
  /\ ~closed
  /\ key[t] = NoKey
  /\ idle[k] = <<>>
  /\ key' = [key EXCEPT ![t] = k]
  /\ UNCHANGED <<idle, sock, open, gone, peer, closed>>

Dialling(t) == key[t] # NoKey /\ sock[t] = NoSocket

\* dialNew() returns a connected socket.
DialSucceeds(t) ==
  /\ Dialling(t)
  /\ \E s \in Sockets \ open :
       /\ sock' = [sock EXCEPT ![t] = s]
       /\ open' = open \cup {s}
       /\ peer' = [peer EXCEPT ![s] = key[t]]
  /\ UNCHANGED <<idle, key, gone, closed>>

\* dialNew() returns -1: lookup, socket(), connect() or its timeout failed,
\* and a socket that was made is closed again.
DialFails(t) ==
  /\ Dialling(t)
  /\ key' = [key EXCEPT ![t] = NoKey]
  /\ UNCHANGED <<idle, sock, open, gone, peer, closed>>

\* Mutant: a socket that no longer fits is closed and queued all the same.
MutReleaseKeepsClosed(t) ==
  /\ sock[t] # NoSocket
  /\ idle' = [idle EXCEPT ![key[t]] = Append(@, sock[t])]
  /\ IF Len(idle[key[t]]) >= MaxIdle
     THEN Close({sock[t]})
     ELSE UNCHANGED <<open, gone, peer>>
  /\ sock' = [sock EXCEPT ![t] = NoSocket]
  /\ key' = [key EXCEPT ![t] = NoKey]
  /\ UNCHANGED closed

\* Mutant: one socket too many is kept.
MutReleaseOffByOne(t) ==
  /\ sock[t] # NoSocket
  /\ IF Len(idle[key[t]]) > MaxIdle
     THEN Close({sock[t]}) /\ UNCHANGED idle
     ELSE idle' = [idle EXCEPT ![key[t]] = Append(@, sock[t])] /\ UNCHANGED <<open, gone, peer>>
  /\ sock' = [sock EXCEPT ![t] = NoSocket]
  /\ key' = [key EXCEPT ![t] = NoKey]
  /\ UNCHANGED closed

\* release()
Release(t) ==
  /\ sock[t] # NoSocket
  /\ IF Len(idle[key[t]]) >= MaxIdle
     THEN Close({sock[t]}) /\ UNCHANGED idle
     ELSE idle' = [idle EXCEPT ![key[t]] = Append(@, sock[t])] /\ UNCHANGED <<open, gone, peer>>
  /\ sock' = [sock EXCEPT ![t] = NoSocket]
  /\ key' = [key EXCEPT ![t] = NoKey]
  /\ UNCHANGED closed

\* discard()
Discard(t) ==
  /\ sock[t] # NoSocket
  /\ Close({sock[t]})
  /\ sock' = [sock EXCEPT ![t] = NoSocket]
  /\ key' = [key EXCEPT ![t] = NoKey]
  /\ UNCHANGED <<idle, closed>>

IdleSockets == {s \in Sockets : \E k \in Keys : \E i \in 1 .. Len(idle[k]) : idle[k][i] = s}

\* closeAll(), called by Gateway::run once the workers are joined.
CloseAll ==
  /\ ~closed
  /\ \A t \in Threads : key[t] = NoKey
  /\ Close(IdleSockets)
  /\ idle' = [k \in Keys |-> <<>>]
  /\ closed' = TRUE
  /\ UNCHANGED <<sock, key>>

\* The backend, or something on the way, drops a connection.
PeerCloses(s) ==
  /\ s \in open \ gone
  /\ gone' = gone \cup {s}
  /\ UNCHANGED <<idle, sock, key, open, peer, closed>>

\* The process is over.
Finished == closed /\ UNCHANGED poolVars

Next ==
  \/ \E t \in Threads :
       \/ \E k \in Keys : AcquireIdle(t, k) \/ AcquireMiss(t, k)
       \/ DialSucceeds(t) \/ DialFails(t) \/ Release(t) \/ Discard(t)
  \/ \E s \in Sockets : PeerCloses(s)
  \/ CloseAll
  \/ Finished

Spec == Init /\ [][Next]_poolVars

-----------------------------------------------------------------------------
TypeOK ==
  /\ idle \in [Keys -> Seq(Sockets)]
  /\ sock \in [Threads -> Sockets \cup {NoSocket}]
  /\ key \in [Threads -> Keys \cup {NoKey}]
  /\ open \subseteq Sockets
  /\ gone \subseteq open
  /\ peer \in [Sockets -> Keys \cup {NoKey}]
  /\ closed \in BOOLEAN

Queued(k) == 1 .. Len(idle[k])
Holders == {t \in Threads : sock[t] # NoSocket}

OpenIsOwned ==
  \A s \in open : \/ \E t \in Threads : sock[t] = s
                  \/ \E k \in Keys : \E i \in Queued(k) : idle[k][i] = s
OwnedIsOpen ==
  /\ \A t \in Holders : sock[t] \in open
  /\ \A k \in Keys : \A i \in Queued(k) : idle[k][i] \in open
HeldOnce == \A t, u \in Holders : sock[t] = sock[u] => t = u
HeldNotQueued == \A t \in Holders : \A k \in Keys : \A i \in Queued(k) : sock[t] # idle[k][i]
QueuedOnce ==
  \A k, l \in Keys : \A i \in Queued(k), j \in Queued(l) : idle[k][i] = idle[l][j] => k = l /\ i = j

\* Every open descriptor has exactly one owner, a thread or a place in a deque,
\* and nobody owns a closed one: none is leaked, shared by two requests, closed
\* twice or used after close, whatever acquire(), release(), discard() and
\* closeAll() interleave.
ExactlyOneOwner == OpenIsOwned /\ OwnedIsOpen /\ HeldOnce /\ HeldNotQueued /\ QueuedOnce

\* A request is never written to another backend's connection: what acquire()
\* returned, or will find in the deque, is connected to the backend it is
\* filed under.
ConnectedToItsBackend ==
  /\ \A t \in Holders : peer[sock[t]] = key[t]
  /\ \A k \in Keys : \A i \in Queued(k) : peer[idle[k][i]] = k

\* release() never lets a deque outgrow maxIdlePerBackend_, and after
\* closeAll() the process has no backend connection left.
BoundedAndDrained ==
  /\ \A k \in Keys : Len(idle[k]) <= MaxIdle
  /\ closed => open = {}
=============================================================================
