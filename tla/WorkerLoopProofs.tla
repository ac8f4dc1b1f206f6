-------------------------- MODULE WorkerLoopProofs --------------------------
(***************************************************************************)
(* For any number of workers, clients and descriptors: the tables of the   *)
(* event loops agree, and events reach the connections they were reported  *)
(* for.                                                                    *)
(***************************************************************************)
EXTENDS WorkerLoop, FiniteSetTheorems, TLAPS

TableTypes ==
  /\ watched \in [Workers -> SUBSET (Fds \cup {Listener})]
  /\ callbacks \in [Workers -> SUBSET (Fds \cup {Listener})]
  /\ conns \in [Workers -> SUBSET Fds]
  /\ file \in [Fds -> Clients \cup {Free}]
  /\ active \in Int

InUse == {fd \in Fds : file[fd] # Free}

\* TablesAgree but for what depends on the worker's pc.
Agree ==
  /\ \A w \in Workers : conns[w] = callbacks[w] \ {Listener} /\ conns[w] = watched[w] \ {Listener}
  /\ \A fd \in Fds : file[fd] # Free <=> \E w \in Workers : fd \in conns[w]
  /\ \A v, w \in Workers : v # w => conns[v] \cap conns[w] = {}
  /\ active = Cardinality(InUse)

\* An event is of one of the worker's connections, and the only one for it; a
\* worker that is not handling events has none.
Events ==
  /\ pc \in [Workers -> {"poll", "dispatch", "accept", "done"}]
  /\ batch \in [Workers -> SUBSET [fd : Fds \cup {Listener}, client : Clients \cup {Free}, hup : BOOLEAN]]
  /\ backlog \in [Workers -> SUBSET Clients]
  /\ \A w \in Workers : \A d, e \in batch[w] : d.fd = e.fd => d = e
  /\ \A w \in Workers : pc[w] \in {"poll", "done"} => batch[w] = {}
  /\ \A w \in Workers : pc[w] = "done" => conns[w] = {}
  /\ \A w \in Workers : \A e \in batch[w] : e.fd # Listener => e.fd \in conns[w] /\ file[e.fd] = e.client

LoopInv == TableTypes /\ Agree /\ Events

-----------------------------------------------------------------------------
\* closeConnection keeps the tables together and touches no other connection.
LEMMA CloseKeeps ==
  ASSUME TableTypes, Agree, NEW w \in Workers, NEW S, Close(w, S)
  PROVE  /\ TableTypes' /\ Agree'
         /\ conns'[w] = conns[w] \ S
         /\ \A v \in Workers : v # w => conns'[v] = conns[v]
         /\ \A v \in Workers : \A fd \in conns'[v] : file'[fd] = file[fd]
<1> DEFINE closed == S \cap conns[w]
<1>1. /\ watched' = [watched EXCEPT ![w] = @ \ closed]
      /\ callbacks' = [callbacks EXCEPT ![w] = @ \ closed]
      /\ conns' = [conns EXCEPT ![w] = @ \ closed]
      /\ file' = [fd \in Fds |-> IF fd \in closed THEN Free ELSE file[fd]]
      /\ active' = active - Cardinality(closed)
  BY DEF Close
<1>2. closed \subseteq InUse /\ IsFiniteSet(InUse) /\ IsFiniteSet(closed)
  <2>1. closed \subseteq InUse
    BY DEF Agree, InUse, TableTypes
  <2>2. IsFiniteSet(InUse)
    BY FS_Subset, LoopAssumption DEF InUse
  <2>3. QED
    BY <2>1, <2>2, FS_Subset
<1>3. Listener \notin closed
  BY LoopAssumption DEF TableTypes
<1>4. conns'[w] = conns[w] \ closed /\ \A v \in Workers : v # w => conns'[v] = conns[v]
  BY <1>1 DEF TableTypes
<1>5. TableTypes'
  <2>1. Cardinality(closed) \in Nat
    BY <1>2, FS_CardinalityType
  <2>2. QED
    BY <1>1, <2>1 DEF TableTypes
<1>6. InUse' = InUse \ closed
  BY <1>1 DEF InUse, TableTypes
<1>7. active' = Cardinality(InUse')
  <2>1. InUse \cap closed = closed
    BY <1>2
  <2>2. Cardinality(InUse \ closed) = Cardinality(InUse) - Cardinality(closed)
    <3> HIDE DEF closed
    <3>1. Cardinality(InUse \ closed) = Cardinality(InUse) - Cardinality(InUse \cap closed)
      BY <1>2, FS_Difference
    <3>2. QED
      BY <2>1, <3>1
  <2>3. QED
    BY <1>1, <1>6, <2>2 DEF Agree
<1>8. \A v \in Workers : conns'[v] = callbacks'[v] \ {Listener} /\ conns'[v] = watched'[v] \ {Listener}
  BY <1>1, <1>3 DEF Agree, TableTypes
<1>9. \A u, v \in Workers : u # v => conns'[u] \cap conns'[v] = {}
  BY <1>4 DEF Agree
<1>10. \A fd \in Fds : file'[fd] # Free <=> \E v \in Workers : fd \in conns'[v]
  <2> SUFFICES ASSUME NEW fd \in Fds
               PROVE  file'[fd] # Free <=> \E v \in Workers : fd \in conns'[v]
    OBVIOUS
  <2>1. CASE fd \in closed
    <3>1. file'[fd] = Free
      BY <1>1, <2>1
    <3>2. \A v \in Workers : fd \notin conns'[v]
      BY <1>4, <2>1 DEF Agree
    <3>3. QED
      BY <3>1, <3>2
  <2>2. CASE fd \notin closed
    <3>1. file'[fd] = file[fd]
      BY <1>1, <2>2
    <3>2. \A v \in Workers : fd \in conns'[v] <=> fd \in conns[v]
      BY <1>4, <2>2
    <3>3. QED
      BY <3>1, <3>2 DEF Agree
  <2>3. QED
    BY <2>1, <2>2
<1>11. Agree'
  BY <1>7, <1>8, <1>9, <1>10 DEF Agree
<1>12. ASSUME NEW v \in Workers, NEW fd \in conns'[v] PROVE file'[fd] = file[fd]
  <2>1. fd \notin closed /\ fd \in Fds
    BY <1>4, <1>5 DEF Agree, TableTypes
  <2>2. QED
    BY <1>1, <2>1
<1>13. QED
  BY <1>4, <1>5, <1>11, <1>12

-----------------------------------------------------------------------------
\* One step per action; all but the conjuncts named are undisturbed.
LEMMA LoopStep ==
  ASSUME LoopInv, [Next]_vars
  PROVE  LoopInv'
<1> USE DEF LoopInv
<1>1. ASSUME NEW w \in Workers, Poll(w) PROVE LoopInv'
  <2>1. UNCHANGED <<tables, backlog>> /\ pc' = [pc EXCEPT ![w] = "dispatch"]
    BY <1>1 DEF Poll
  <2>2. PICK ready \in SUBSET watched[w] : \E hup \in SUBSET (ready \ {Listener}) :
          batch' = [batch EXCEPT ![w] = {Event(fd, fd \in hup) : fd \in ready}]
    BY <1>1 DEF Poll, EpollWait
  <2>hup. PICK hup \in SUBSET (ready \ {Listener}) :
          batch' = [batch EXCEPT ![w] = {Event(fd, fd \in hup) : fd \in ready}]
    BY <2>2
  <2>3. TableTypes' /\ Agree'
    BY <2>1 DEF TableTypes, Agree, InUse, tables
  <2>4. \A fd \in ready : /\ Event(fd, fd \in hup).fd = fd
                          /\ fd # Listener => fd \in conns[w] /\ Event(fd, fd \in hup).client = file[fd]
                          /\ Event(fd, fd \in hup) \in
                               [fd : Fds \cup {Listener}, client : Clients \cup {Free}, hup : BOOLEAN]
    BY DEF Event, Agree, TableTypes
  <2>5. /\ batch'[w] = {Event(fd, fd \in hup) : fd \in ready}
        /\ \A v \in Workers : v # w => batch'[v] = batch[v]
    BY <2>hup DEF Events
  <2>6. batch' \in [Workers -> SUBSET [fd : Fds \cup {Listener}, client : Clients \cup {Free}, hup : BOOLEAN]]
    BY <2>hup, <2>4 DEF Events
  <2>7. \A v \in Workers : \A d, e \in batch'[v] : d.fd = e.fd => d = e
    BY <2>4, <2>5 DEF Events
  <2>8. \A v \in Workers : \A e \in batch'[v] : e.fd # Listener => e.fd \in conns[v] /\ file[e.fd] = e.client
    BY <2>4, <2>5 DEF Events
  <2>9. /\ pc' \in [Workers -> {"poll", "dispatch", "accept", "done"}]
        /\ \A v \in Workers : pc'[v] \in {"poll", "done"} => pc'[v] = pc[v] /\ v # w
    BY <2>1 DEF Events
  <2>10. Events'
    <3>1. \A v \in Workers : pc'[v] \in {"poll", "done"} => batch'[v] = {}
      BY <2>5, <2>9 DEF Events
    <3>2. conns' = conns /\ file' = file /\ backlog' = backlog
      BY <2>1 DEF tables
    <3>3. \A v \in Workers : pc'[v] = "done" => conns'[v] = {}
      BY <2>9, <3>2 DEF Events
    <3>4. QED
      BY <2>6, <2>7, <2>8, <2>9, <3>1, <3>2, <3>3 DEF Events
  <2>11. QED
    BY <2>3, <2>10
<1>2. ASSUME NEW w \in Workers, NEW e \in batch[w], Dispatch(w, e) PROVE LoopInv'
  <2>1. /\ pc[w] = "dispatch" /\ backlog' = backlog
        /\ batch' = [batch EXCEPT ![w] = @ \ {e}]
        /\ pc' = [pc EXCEPT ![w] = IF e.fd = Listener /\ Listener \in callbacks[w] THEN "accept" ELSE @]
    BY <1>2 DEF Dispatch
  <2>2. PICK closing \in SUBSET ({e.fd} \cap (callbacks[w] \ {Listener})) : Close(w, closing)
    BY <1>2 DEF Dispatch
  <2>3. /\ TableTypes' /\ Agree'
        /\ conns'[w] = conns[w] \ closing
        /\ \A v \in Workers : v # w => conns'[v] = conns[v]
        /\ \A v \in Workers : \A fd \in conns'[v] : file'[fd] = file[fd]
    BY <2>2, CloseKeeps
  <2>4. \A v \in Workers : batch'[v] \subseteq batch[v] /\ (v = w => e \notin batch'[v])
    BY <2>1 DEF Events
  <2>5. \A v \in Workers : \A d \in batch'[v] : d.fd # Listener => d.fd \in conns'[v] /\ file'[d.fd] = d.client
    <3> SUFFICES ASSUME NEW v \in Workers, NEW d \in batch'[v], d.fd # Listener
                 PROVE  d.fd \in conns'[v] /\ file'[d.fd] = d.client
      OBVIOUS
    <3>1. d \in batch[v] /\ d.fd \in conns[v] /\ file[d.fd] = d.client
      BY <2>4 DEF Events
    <3>2. v = w => d.fd # e.fd
      BY <2>4, <3>1 DEF Events
    <3>3. d.fd \in conns'[v]
      BY <2>2, <2>3, <3>1, <3>2
    <3>4. QED
      BY <2>3, <3>1, <3>3
  <2>6. batch' \in [Workers -> SUBSET [fd : Fds \cup {Listener}, client : Clients \cup {Free}, hup : BOOLEAN]]
    BY <2>1 DEF Events
  <2>7. /\ pc' \in [Workers -> {"poll", "dispatch", "accept", "done"}]
        /\ \A v \in Workers : pc'[v] \in {"poll", "done"} => pc'[v] = pc[v] /\ v # w
    BY <2>1 DEF Events
  <2>8. \A v \in Workers : \A d, f \in batch'[v] : d.fd = f.fd => d = f
    BY <2>4 DEF Events
  <2>9. \A v \in Workers : pc'[v] \in {"poll", "done"} => batch'[v] = {}
    BY <2>4, <2>7 DEF Events
  <2>10. \A v \in Workers : pc'[v] = "done" => conns'[v] = {}
    BY <2>3, <2>7 DEF Events
  <2>11. Events'
    BY <2>1, <2>5, <2>6, <2>7, <2>8, <2>9, <2>10 DEF Events
  <2>12. QED
    BY <2>3, <2>11
<1>3. ASSUME NEW w \in Workers, NEW c \in backlog[w], NEW fd \in Fds, Accept(w, c, fd) PROVE LoopInv'
  <2>1. /\ pc[w] = "accept" /\ file[fd] = Free /\ c \in Clients /\ c # Free
        /\ \A v \in Workers : fd \notin conns[v]
    BY <1>3, LoopAssumption DEF Accept, Agree, Events
  <2>2. /\ backlog' = [backlog EXCEPT ![w] = @ \ {c}]
        /\ file' = [file EXCEPT ![fd] = c]
        /\ conns' = [conns EXCEPT ![w] = @ \cup {fd}]
        /\ watched' = [watched EXCEPT ![w] = @ \cup {fd}]
        /\ callbacks' = [callbacks EXCEPT ![w] = @ \cup {fd}]
        /\ active' = active + 1
        /\ UNCHANGED <<pc, batch>>
    BY <1>3 DEF Accept
  <2>3. TableTypes'
    BY <2>1, <2>2 DEF TableTypes
  <2>4. conns'[w] = conns[w] \cup {fd} /\ \A v \in Workers : v # w => conns'[v] = conns[v]
    BY <2>2 DEF TableTypes
  <2>5. file'[fd] = c /\ \A g \in Fds : g # fd => file'[g] = file[g]
    BY <2>2 DEF TableTypes
  <2>6. active' = Cardinality(InUse')
    <3>1. InUse' = InUse \cup {fd} /\ fd \notin InUse
      BY <2>1, <2>5 DEF InUse
    <3>2. IsFiniteSet(InUse)
      BY FS_Subset, LoopAssumption DEF InUse
    <3>3. Cardinality(InUse \cup {fd}) = Cardinality(InUse) + 1
      BY <3>1, <3>2, FS_AddElement
    <3>4. QED
      BY <2>2, <3>1, <3>3 DEF Agree
  <2>7. \A v \in Workers : conns'[v] = callbacks'[v] \ {Listener} /\ conns'[v] = watched'[v] \ {Listener}
    BY <2>2, LoopAssumption DEF Agree, TableTypes
  <2>8. \A u, v \in Workers : u # v => conns'[u] \cap conns'[v] = {}
    BY <2>1, <2>4 DEF Agree
  <2>9. \A g \in Fds : file'[g] # Free <=> \E v \in Workers : g \in conns'[v]
    BY <2>1, <2>4, <2>5 DEF Agree
  <2>10. Agree'
    BY <2>6, <2>7, <2>8, <2>9 DEF Agree
  <2>11. \A v \in Workers : \A e \in batch'[v] : e.fd # Listener => e.fd \in conns'[v] /\ file'[e.fd] = e.client
    <3> SUFFICES ASSUME NEW v \in Workers, NEW e \in batch'[v], e.fd # Listener
                 PROVE  e.fd \in conns'[v] /\ file'[e.fd] = e.client
      OBVIOUS
    <3>1. e.fd \in conns[v] /\ file[e.fd] = e.client /\ e.fd \in Fds
      BY <2>2 DEF Events, TableTypes
    <3>2. e.fd # fd
      BY <2>1, <3>1
    <3>3. QED
      BY <2>4, <2>5, <3>1, <3>2
  <2>12. backlog' \in [Workers -> SUBSET Clients]
    BY <2>2 DEF Events
  <2>13. \A v \in Workers : pc'[v] = "done" => conns'[v] = {}
    BY <2>1, <2>2, <2>4 DEF Events
  <2>14. Events'
    BY <2>2, <2>11, <2>12, <2>13 DEF Events
  <2>15. QED
    BY <2>3, <2>10, <2>14
<1>4. ASSUME NEW w \in Workers, AcceptStops(w) PROVE LoopInv'
  <2>1. UNCHANGED <<batch, tables, backlog>> /\ pc' = [pc EXCEPT ![w] = "dispatch"]
    BY <1>4 DEF AcceptStops
  <2>2. TableTypes' /\ Agree'
    BY <2>1 DEF TableTypes, Agree, InUse, tables
  <2>3. /\ pc' \in [Workers -> {"poll", "dispatch", "accept", "done"}]
        /\ \A v \in Workers : pc'[v] \in {"poll", "done"} => pc'[v] = pc[v]
    BY <2>1 DEF Events
  <2>4. Events'
    BY <2>1, <2>3 DEF Events, tables
  <2>5. QED
    BY <2>2, <2>4
<1>5. ASSUME NEW w \in Workers, NEW S, Close(w, S), batch[w] = {}, batch' = batch,
             NEW l \in {"poll", "done"}, pc' = [pc EXCEPT ![w] = l], l = "done" => conns[w] \subseteq S,
             pc[w] # "done", backlog' \in [Workers -> SUBSET Clients]
      PROVE  LoopInv'
  <2>1. /\ TableTypes' /\ Agree'
        /\ conns'[w] = conns[w] \ S
        /\ \A v \in Workers : v # w => conns'[v] = conns[v]
        /\ \A v \in Workers : \A fd \in conns'[v] : file'[fd] = file[fd]
    BY <1>5, CloseKeeps
  <2>2. \A v \in Workers : \A e \in batch'[v] : e.fd # Listener => e.fd \in conns'[v] /\ file'[e.fd] = e.client
    BY <1>5, <2>1 DEF Events
  <2>3. /\ pc' \in [Workers -> {"poll", "dispatch", "accept", "done"}]
        /\ pc'[w] = l /\ \A v \in Workers : v # w => pc'[v] = pc[v]
    BY <1>5 DEF Events
  <2>4. \A v \in Workers : pc'[v] \in {"poll", "done"} => batch'[v] = {}
    BY <1>5, <2>3 DEF Events
  <2>5. \A v \in Workers : pc'[v] = "done" => conns'[v] = {}
    BY <1>5, <2>1, <2>3 DEF Events
  <2>6. Events'
    BY <1>5, <2>2, <2>3, <2>4, <2>5 DEF Events
  <2>7. QED
    BY <2>1, <2>6
<1>6. ASSUME NEW w \in Workers, Sweep(w) PROVE LoopInv'
  BY <1>5, <1>6 DEF Sweep, Events
<1>7. ASSUME NEW w \in Workers, Exit(w) PROVE LoopInv'
  <2>1. batch[w] = {} /\ backlog' \in [Workers -> SUBSET Clients]
    BY <1>7 DEF Exit, Events
  <2>2. QED
    BY <1>5, <1>7, <2>1 DEF Exit
<1>8. ASSUME NEW c \in Clients, NEW w \in Workers, Connect(c, w) PROVE LoopInv'
  <2>1. UNCHANGED <<pc, batch, tables>> /\ backlog' \in [Workers -> SUBSET Clients]
    BY <1>8 DEF Connect, Events
  <2>2. QED
    BY <2>1 DEF TableTypes, Agree, InUse, Events, tables
<1>9. CASE Stop \/ Done \/ UNCHANGED vars
  <2>1. UNCHANGED <<pc, batch, tables, backlog>>
    BY <1>9 DEF Stop, Done, vars, tables
  <2>2. QED
    BY <2>1 DEF TableTypes, Agree, InUse, Events, tables
<1>10. QED
  BY <1>1, <1>2, <1>3, <1>4, <1>6, <1>7, <1>8, <1>9 DEF Next, Step

\* The loop's tables, its batch of events and the descriptors in use agree in
\* every reachable state of a worker.
THEOREM LoopInvariant == Spec => []LoopInv
<1>1. Init => LoopInv
  <2> SUFFICES ASSUME Init PROVE LoopInv
    OBVIOUS
  <2>1. TableTypes /\ Events
    BY DEF Init, TableTypes, Events
  <2>2. InUse = {} /\ Cardinality({}) = 0
    BY FS_EmptySet DEF Init, InUse
  <2>3. Agree
    BY <2>2 DEF Init, Agree
  <2>4. QED
    BY <2>1, <2>3 DEF LoopInv
<1>2. LoopInv /\ [Next]_vars => LoopInv'
  BY LoopStep
<1>3. QED
  BY <1>1, <1>2, PTL DEF Spec

\* EventLoop.cpp, line 54: no callback gets an event that was meant for a
\* connection closed since, however many workers and descriptors there are.
THEOREM EventsAreForTheirConnection == Spec => []EventsReachTheirConnection
<1>1. LoopInv => EventsReachTheirConnection
  BY DEF LoopInv, Agree, Events, EventsReachTheirConnection
<1>2. QED
  BY <1>1, LoopInvariant, PTL

\* onAccept, closeConnection: descriptors, tables and the gauge go together.
THEOREM TablesAlwaysAgree == Spec => []TablesAgree
<1>1. LoopInv => TablesAgree
  BY DEF LoopInv, Agree, Events, TablesAgree, InUse
<1>2. QED
  BY <1>1, LoopInvariant, PTL
=============================================================================
