----------------------------- MODULE WorkerLoop -----------------------------
(***************************************************************************)
(* The workers' event loops: Worker::run, onAccept, onEvent,               *)
(* closeConnection and sweepIdleConnections of src/core/Gateway.cpp over   *)
(* EventLoop and TcpServer::acceptAll. Each worker has its own epoll       *)
(* instance, tables and listening socket (SO_REUSEPORT); the file          *)
(* descriptors are the process's, and a closed one is given out again.     *)
(*                                                                         *)
(* What a connection does with an event is ClientConnection's subject;     *)
(* here a handler closes the connection or not. Any connection may have    *)
(* become ready, or idle, in the meantime.                                 *)
(***************************************************************************)
EXTENDS Integers, FiniteSets

CONSTANTS
  Workers, Clients,
  Fds,       \* the descriptors the process may have open for clients
  Listener,  \* the fd of a worker's listening socket, open all the time
  Free       \* not a client

ASSUME LoopAssumption ==
  /\ IsFiniteSet(Fds)
  /\ Listener \notin Fds
  /\ Free \notin Clients

VARIABLES
  running,    \* Gateway::running_
  pc,         \* where each worker is: "poll", "dispatch", "accept" or "done"
  batch,      \* events of the last epoll_wait not yet dispatched
  watched,    \* the fds in each epoll instance
  callbacks,  \* the keys of callbacks_
  conns,      \* the keys of conns_
  file,       \* the client a descriptor is connected to
  backlog,    \* clients in the queue of each listening socket
  active      \* Metrics::activeConnections

vars == <<running, pc, batch, watched, callbacks, conns, file, backlog, active>>
tables == <<watched, callbacks, conns, file, active>>

Init ==
  /\ running = TRUE
  /\ pc = [w \in Workers |-> "poll"]
  /\ batch = [w \in Workers |-> {}]
  /\ watched = [w \in Workers |-> {Listener}]
  /\ callbacks = [w \in Workers |-> {Listener}]
  /\ conns = [w \in Workers |-> {}]
  /\ file = [fd \in Fds |-> Free]
  /\ backlog = [w \in Workers |-> {}]
  /\ active = 0

-----------------------------------------------------------------------------
\* Mutant: EventLoop::remove leaves the callback in place.
MutClose(w, S) ==
  LET closed == S \cap conns[w]
  IN  /\ watched' = [watched EXCEPT ![w] = @ \ closed]
      /\ conns' = [conns EXCEPT ![w] = @ \ closed]
      /\ file' = [fd \in Fds |-> IF fd \in closed THEN Free ELSE file[fd]]
      /\ active' = active - Cardinality(closed)
      /\ UNCHANGED callbacks

\* closeConnection for each of the descriptors in S that is in conns_.
Close(w, S) ==
  LET closed == S \cap conns[w]
  IN  /\ watched' = [watched EXCEPT ![w] = @ \ closed]
      /\ callbacks' = [callbacks EXCEPT ![w] = @ \ closed]
      /\ conns' = [conns EXCEPT ![w] = @ \ closed]
      /\ file' = [fd \in Fds |-> IF fd \in closed THEN Free ELSE file[fd]]
      /\ active' = active - Cardinality(closed)

\* epoll_wait: any of the connections may be ready, and the listener is when
\* a client is waiting. epoll is level-triggered: who is ready is reported.
Event(fd, hup) == [fd |-> fd, client |-> IF fd = Listener THEN Free ELSE file[fd], hup |-> hup]
EpollWait(w) ==
  \E ready \in SUBSET watched[w] : \E hup \in SUBSET (ready \ {Listener}) :
    /\ Listener \in watched[w] /\ backlog[w] # {} <=> Listener \in ready
    /\ batch' = [batch EXCEPT ![w] = {Event(fd, fd \in hup) : fd \in ready}]

\* Mutant: the idle sweep comes between epoll_wait and the callbacks.
MutPoll(w) ==
  /\ pc[w] = "poll"
  /\ running
  /\ pc' = [pc EXCEPT ![w] = "dispatch"]
  /\ EpollWait(w)
  /\ \E idle \in SUBSET conns[w] : Close(w, idle)
  /\ UNCHANGED <<running, backlog>>

\* EventLoop::poll, line 47.
Poll(w) ==
  /\ pc[w] = "poll"
  /\ running
  /\ pc' = [pc EXCEPT ![w] = "dispatch"]
  /\ EpollWait(w)
  /\ UNCHANGED <<running, tables, backlog>>

\* EventLoop::poll, lines 52-58, in the kernel's order. The listener's
\* callback is acceptAll, the others' is onEvent, which closes the connection
\* on a hangup, and perhaps when it reads or writes. A missing one is skipped.
Dispatch(w, e) ==
  /\ pc[w] = "dispatch"
  /\ e \in batch[w]
  /\ batch' = [batch EXCEPT ![w] = @ \ {e}]
  /\ pc' = [pc EXCEPT ![w] = IF e.fd = Listener /\ Listener \in callbacks[w] THEN "accept" ELSE @]
  /\ \E closing \in SUBSET ({e.fd} \cap (callbacks[w] \ {Listener})) :
       /\ e.hup /\ e.fd \in callbacks[w] => closing # {}
       /\ Close(w, closing)
  /\ UNCHANGED <<running, backlog>>

\* acceptAll, lines 57-70, and onAccept: the kernel gives out a free descriptor.
Accept(w, c, fd) ==
  /\ pc[w] = "accept"
  /\ c \in backlog[w]
  /\ file[fd] = Free
  /\ backlog' = [backlog EXCEPT ![w] = @ \ {c}]
  /\ file' = [file EXCEPT ![fd] = c]
  /\ conns' = [conns EXCEPT ![w] = @ \cup {fd}]
  /\ watched' = [watched EXCEPT ![w] = @ \cup {fd}]
  /\ callbacks' = [callbacks EXCEPT ![w] = @ \cup {fd}]
  /\ active' = active + 1
  /\ UNCHANGED <<running, pc, batch>>

\* Mutant: the listener is given up when there is no descriptor left.
MutAcceptStops(w) ==
  /\ pc[w] = "accept"
  /\ backlog[w] = {} \/ \A fd \in Fds : file[fd] # Free
  /\ pc' = [pc EXCEPT ![w] = "dispatch"]
  /\ watched' = [watched EXCEPT ![w] = IF backlog[w] = {} THEN @ ELSE @ \ {Listener}]
  /\ UNCHANGED <<running, batch, callbacks, conns, file, active, backlog>>

\* acceptAll, lines 61-65: no client is waiting, or there is no descriptor left.
AcceptStops(w) ==
  /\ pc[w] = "accept"
  /\ backlog[w] = {} \/ \A fd \in Fds : file[fd] # Free
  /\ pc' = [pc EXCEPT ![w] = "dispatch"]
  /\ UNCHANGED <<running, batch, tables, backlog>>

\* EventLoop::poll, line 59: sweepIdleConnections.
Sweep(w) ==
  /\ pc[w] = "dispatch"
  /\ batch[w] = {}
  /\ pc' = [pc EXCEPT ![w] = "poll"]
  /\ \E idle \in SUBSET conns[w] : Close(w, idle)
  /\ UNCHANGED <<running, batch, backlog>>

\* Worker::run, lines 48-55, and the end of its TcpServer, which turns down
\* those who wait.
Exit(w) ==
  /\ pc[w] = "poll"
  /\ ~running
  /\ pc' = [pc EXCEPT ![w] = "done"]
  /\ Close(w, conns[w])
  /\ backlog' = [backlog EXCEPT ![w] = {}]
  /\ UNCHANGED <<running, batch>>

-----------------------------------------------------------------------------
(* Clients, and whoever stops the gateway.                                 *)

\* The kernel puts a new connection into the queue of one of the listeners.
Connect(c, w) ==
  /\ pc[w] # "done"
  /\ \A v \in Workers : c \notin backlog[v]
  /\ \A fd \in Fds : file[fd] # c
  /\ backlog' = [backlog EXCEPT ![w] = @ \cup {c}]
  /\ UNCHANGED <<running, pc, batch, tables>>

Stop ==
  /\ running
  /\ running' = FALSE
  /\ UNCHANGED <<pc, batch, tables, backlog>>

Done ==
  /\ \A w \in Workers : pc[w] = "done"
  /\ UNCHANGED vars

Step(w) ==
  \/ Poll(w)
  \/ \E e \in batch[w] : Dispatch(w, e)
  \/ \E c \in backlog[w], fd \in Fds : Accept(w, c, fd)
  \/ AcceptStops(w)
  \/ Sweep(w)
  \/ Exit(w)

Next ==
  \/ \E w \in Workers : Step(w)
  \/ \E c \in Clients, w \in Workers : Connect(c, w)
  \/ Stop
  \/ Done

Spec == Init /\ [][Next]_vars

\* Every worker has a thread of its own.
FairSpec == Spec /\ \A w \in Workers : WF_vars(Step(w))

-----------------------------------------------------------------------------
\* EventLoop::poll looks callbacks up by fd, EventLoop.cpp, line 54, when a
\* descriptor may have been closed and given out again since epoll_wait. All
\* the same an event is only ever delivered to the connection that it was
\* reported for, and that connection is still open then.
EventsReachTheirConnection ==
  \A w \in Workers : \A e \in batch[w] :
    e.fd # Listener => e.fd \in conns[w] \cap callbacks[w] /\ file[e.fd] = e.client

\* No descriptor is leaked or closed twice: each open one is in the tables of
\* one worker, with its callback, the gauge counts them, and a worker that has
\* left run() has none.
TablesAgree ==
  /\ \A w \in Workers :
       /\ conns[w] = callbacks[w] \ {Listener}
       /\ conns[w] = watched[w] \ {Listener}
       /\ pc[w] = "done" => conns[w] = {}
  /\ \A fd \in Fds : file[fd] # Free <=> \E w \in Workers : fd \in conns[w]
  /\ \A v, w \in Workers : v # w => conns[v] \cap conns[w] = {}
  /\ active = Cardinality({fd \in Fds : file[fd] # Free})

\* acceptAll gives up at any error of accept(), TcpServer.cpp, line 64, and
\* nothing tries again but the next event. All the same no client waits for
\* ever while there is a descriptor for it.
WaitersAreAccepted ==
  \A w \in Workers : []<>(backlog[w] = {} \/ \A fd \in Fds : file[fd] # Free)
=============================================================================
