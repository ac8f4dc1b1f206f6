------------------------ MODULE ConnectionPoolProofs ------------------------
(***************************************************************************)
(* Proofs about ConnectionPool for any number of threads, backends and     *)
(* descriptors and any maxIdlePerBackend_.                                 *)
(***************************************************************************)
EXTENDS ConnectionPool, TLAPS

\* A thread that has a descriptor knows its backend, and after closeAll()
\* nobody has one and the deques are empty.
Bookkeeping ==
  /\ \A t \in Holders : key[t] \in Keys
  /\ closed => /\ \A t \in Threads : key[t] = NoKey
               /\ \A k \in Keys : idle[k] = <<>>

\* The inductive invariant. Ownership alone is not inductive: release() files a
\* descriptor under the key its thread recorded, so the invariant has to say
\* that holders have one, and that closeAll() leaves no holder behind.
PoolInv ==
  TypeOK /\ Bookkeeping /\ ExactlyOneOwner /\ ConnectedToItsBackend /\ BoundedAndDrained

\* An empty pool satisfies the invariant.
LEMMA InitPoolInv == Init => PoolInv
<1> SUFFICES ASSUME Init PROVE PoolInv
  OBVIOUS
<1>1. Holders = {} /\ \A k \in Keys : idle[k] = <<>> /\ Queued(k) = {}
  BY DEF Init, Holders, Queued
<1>2. TypeOK
  <2>1. idle \in [Keys -> Seq(Sockets)]
    <3>1. <<>> \in Seq(Sockets)
      OBVIOUS
    <3> QED
      BY <3>1 DEF Init
  <2>2. closed \in BOOLEAN /\ open \subseteq Sockets /\ gone \subseteq open
    BY DEF Init
  <2> QED
    BY <2>1, <2>2 DEF Init, TypeOK
<1>3. ExactlyOneOwner
  BY <1>1 DEF Init, ExactlyOneOwner, OpenIsOwned, OwnedIsOpen, HeldOnce, HeldNotQueued, QueuedOnce
<1>4. Bookkeeping /\ ConnectedToItsBackend
  BY <1>1 DEF Init, Bookkeeping, ConnectedToItsBackend
<1>5. BoundedAndDrained
  BY <1>1, PoolAssumption DEF Init, BoundedAndDrained
<1> QED
  BY <1>2, <1>3, <1>4, <1>5 DEF PoolInv

\* Taking the head of a deque moves one descriptor and shifts the others.
LEMMA AcquireIdleKeeps ==
  ASSUME PoolInv, NEW t \in Threads, NEW k \in Keys, AcquireIdle(t, k)
  PROVE  PoolInv'
<1> DEFINE q == idle[k]
           shift(l) == IF l = k THEN 1 ELSE 0
<1>q. q \in Seq(Sockets) /\ q # <<>> /\ Len(q) \in Nat /\ Len(q) >= 1
  BY DEF PoolInv, TypeOK, AcquireIdle
<1>t. /\ Tail(q) \in Seq(Sockets)
      /\ Len(Tail(q)) = Len(q) - 1
      /\ \A i \in 1 .. Len(Tail(q)) : i + 1 \in 1 .. Len(q) /\ Tail(q)[i] = q[i + 1]
  BY <1>q
<1>h. Head(q) = q[1] /\ q[1] \in Sockets /\ 1 \in 1 .. Len(q)
  BY <1>q
<1> HIDE DEF q
<1>1. /\ idle' = [idle EXCEPT ![k] = Tail(q)]
      /\ sock' = [sock EXCEPT ![t] = q[1]]
      /\ key' = [key EXCEPT ![t] = k]
      /\ key[t] = NoKey /\ ~closed
      /\ UNCHANGED <<open, gone, peer, closed>>
  BY <1>h DEF AcquireIdle, q
<1>s. sock[t] = NoSocket
  BY <1>1, PoolAssumption DEF PoolInv, Bookkeeping, Holders
<1>2. TypeOK'
  BY <1>1, <1>t, <1>h DEF PoolInv, TypeOK
<1>3. Holders' = Holders \cup {t} /\ t \notin Holders
  BY <1>1, <1>h, <1>s, PoolAssumption DEF Holders, PoolInv, TypeOK
<1>4. /\ sock'[t] = idle[k][1] /\ 1 \in Queued(k)
      /\ \A u \in Threads \ {t} : sock'[u] = sock[u] /\ key'[u] = key[u]
      /\ key'[t] = k
  BY <1>1, <1>h DEF Queued, q, PoolInv, TypeOK
<1>5. \A l \in Keys : Len(idle[l]) \in Nat
  BY DEF PoolInv, TypeOK
<1>6. \A l \in Keys : \A i \in Queued(l)' :
        /\ i + shift(l) \in Queued(l)
        /\ idle'[l][i] = idle[l][i + shift(l)]
        /\ i \in 1 .. Len(idle'[l]) /\ i \in Nat /\ i >= 1
  <2> SUFFICES ASSUME NEW l \in Keys, NEW i \in Queued(l)'
               PROVE  /\ i + shift(l) \in Queued(l)
                      /\ idle'[l][i] = idle[l][i + shift(l)]
                      /\ i \in 1 .. Len(idle'[l]) /\ i \in Nat /\ i >= 1
    OBVIOUS
  <2>1. CASE l = k
    BY <2>1, <1>1, <1>t DEF Queued, q, PoolInv, TypeOK
  <2>2. CASE l # k
    BY <2>2, <1>1, <1>5 DEF Queued, PoolInv, TypeOK
  <2> QED
    BY <2>1, <2>2
<1>7. \A l \in Keys : \A j \in Queued(l) : (l # k \/ j # 1) =>
        \E i \in Queued(l)' : idle'[l][i] = idle[l][j]
  <2> SUFFICES ASSUME NEW l \in Keys, NEW j \in Queued(l), l # k \/ j # 1
               PROVE  \E i \in Queued(l)' : idle'[l][i] = idle[l][j]
    OBVIOUS
  <2>1. CASE l = k
    <3>1. j - 1 \in 1 .. Len(Tail(q))
      BY <2>1, <1>t, <1>q DEF Queued, q
    <3>2. idle'[l] = Tail(q) /\ Tail(q)[j - 1] = q[j]
      BY <3>1, <2>1, <1>1, <1>t DEF PoolInv, TypeOK, Queued
    <3> QED
      BY <3>1, <3>2, <2>1 DEF Queued, q
  <2>2. CASE l # k
    BY <2>2, <1>1 DEF Queued, PoolInv, TypeOK
  <2> QED
    BY <2>1, <2>2
<1> HIDE DEF shift
<1>8. OpenIsOwned'
  <2> SUFFICES ASSUME NEW s \in open
               PROVE  \/ \E u \in Threads : sock'[u] = s
                      \/ \E l \in Keys : \E i \in Queued(l)' : idle'[l][i] = s
    BY <1>1 DEF OpenIsOwned
  <2>1. CASE \E u \in Threads : sock[u] = s
    <3>1. PICK u \in Threads : sock[u] = s
      BY <2>1
    <3>2. u # t
      BY <3>1, <1>s, PoolAssumption DEF PoolInv, TypeOK
    <3> QED
      BY <3>1, <3>2, <1>4
  <2>2. CASE \E l \in Keys : \E i \in Queued(l) : idle[l][i] = s
    BY <2>2, <1>4, <1>7
  <2> QED
    BY <2>1, <2>2 DEF PoolInv, ExactlyOneOwner, OpenIsOwned
<1>9. OwnedIsOpen'
  BY <1>1, <1>3, <1>4, <1>6 DEF PoolInv, ExactlyOneOwner, OwnedIsOpen, Holders
<1>10. HeldOnce'
  BY <1>3, <1>4 DEF PoolInv, ExactlyOneOwner, HeldOnce, HeldNotQueued, Holders
<1>11. HeldNotQueued'
  <2> SUFFICES ASSUME NEW u \in Holders', NEW l \in Keys, NEW i \in Queued(l)'
               PROVE  sock'[u] # idle'[l][i]
    BY DEF HeldNotQueued
  <2>1. CASE u = t
    <3>1. l = k => i + shift(l) # 1
      BY <1>6 DEF shift
    <3> QED
      BY <3>1, <2>1, <1>4, <1>6 DEF PoolInv, ExactlyOneOwner, QueuedOnce
  <2>2. CASE u # t
    BY <2>2, <1>3, <1>4, <1>6 DEF PoolInv, ExactlyOneOwner, HeldNotQueued, Holders
  <2> QED
    BY <2>1, <2>2
<1>12. QueuedOnce'
  <2> SUFFICES ASSUME NEW l \in Keys, NEW m \in Keys, NEW i \in Queued(l)', NEW j \in Queued(m)',
                      idle'[l][i] = idle'[m][j]
               PROVE  l = m /\ i = j
    BY DEF QueuedOnce
  <2>1. l = m /\ i + shift(l) = j + shift(m)
    BY <1>6 DEF PoolInv, ExactlyOneOwner, QueuedOnce
  <2>2. i \in Nat /\ j \in Nat /\ shift(l) \in Nat
    BY <1>6 DEF shift
  <2> QED
    BY <2>1, <2>2
<1>13. Bookkeeping'
  BY <1>1, <1>3, <1>4 DEF PoolInv, Bookkeeping, Holders
<1>14. ConnectedToItsBackend'
  BY <1>1, <1>3, <1>4, <1>6 DEF PoolInv, ConnectedToItsBackend, Holders
<1>15. BoundedAndDrained'
  <2>1. \A l \in Keys : Len(idle'[l]) <= MaxIdle
    BY <1>1, <1>t, <1>q, <1>5, PoolAssumption DEF q, PoolInv, TypeOK, BoundedAndDrained
  <2> QED
    BY <2>1, <1>1 DEF BoundedAndDrained
<1> QED
  BY <1>2, <1>8, <1>9, <1>10, <1>11, <1>12, <1>13, <1>14, <1>15 DEF PoolInv, ExactlyOneOwner

\* Nothing but the caller's key changes, and the caller has no descriptor: the
\* two outcomes of acquire() that only record or forget the backend.
LEMMA KeyOnlyKeeps ==
  ASSUME PoolInv, NEW t \in Threads, NEW k \in Keys \cup {NoKey},
         sock[t] = NoSocket, closed => k = NoKey,
         key' = [key EXCEPT ![t] = k], UNCHANGED <<idle, sock, open, gone, peer, closed>>
  PROVE  PoolInv'
<1>1. TypeOK'
  BY DEF PoolInv, TypeOK
<1>2. Holders' = Holders /\ t \notin Holders /\ \A l \in Keys : Queued(l)' = Queued(l)
  BY DEF Holders, Queued
<1>3. \A u \in Threads \ {t} : key'[u] = key[u]
  BY DEF PoolInv, TypeOK
<1>4. Bookkeeping'
  BY <1>2, <1>3 DEF PoolInv, TypeOK, Bookkeeping, Holders
<1>5. ExactlyOneOwner'
  BY <1>2 DEF PoolInv, ExactlyOneOwner, OpenIsOwned, OwnedIsOpen, HeldOnce, HeldNotQueued, QueuedOnce
<1>6. ConnectedToItsBackend'
  BY <1>2, <1>3 DEF PoolInv, ConnectedToItsBackend, Holders
<1>7. BoundedAndDrained'
  BY DEF PoolInv, BoundedAndDrained
<1> QED
  BY <1>1, <1>4, <1>5, <1>6, <1>7 DEF PoolInv

\* acquire() with nothing idle only notes where to connect.
LEMMA AcquireMissKeeps ==
  ASSUME PoolInv, NEW t \in Threads, NEW k \in Keys, AcquireMiss(t, k)
  PROVE  PoolInv'
<1>1. sock[t] = NoSocket
  BY PoolAssumption DEF AcquireMiss, PoolInv, Bookkeeping, Holders
<1> QED
  BY <1>1, KeyOnlyKeeps DEF AcquireMiss

\* A failed connect leaves nothing open.
LEMMA DialFailsKeeps ==
  ASSUME PoolInv, NEW t \in Threads, DialFails(t)
  PROVE  PoolInv'
  BY KeyOnlyKeeps DEF DialFails, Dialling

\* The new descriptor was closed, so nobody owns it yet.
LEMMA DialSucceedsKeeps ==
  ASSUME PoolInv, NEW t \in Threads, DialSucceeds(t)
  PROVE  PoolInv'
<1>1. PICK s \in Sockets \ open :
        /\ sock' = [sock EXCEPT ![t] = s]
        /\ open' = open \cup {s}
        /\ peer' = [peer EXCEPT ![s] = key[t]]
        /\ UNCHANGED <<idle, key, gone, closed>>
  BY DEF DialSucceeds
<1>2. sock[t] = NoSocket /\ key[t] \in Keys /\ ~closed
  BY DEF DialSucceeds, Dialling, PoolInv, TypeOK, Bookkeeping
<1>3. TypeOK'
  BY <1>1, <1>2 DEF PoolInv, TypeOK
<1>4. Holders' = Holders \cup {t} /\ t \notin Holders /\ \A l \in Keys : Queued(l)' = Queued(l)
  BY <1>1, <1>2, PoolAssumption DEF Holders, Queued, PoolInv, TypeOK
<1>5. sock'[t] = s /\ \A u \in Threads \ {t} : sock'[u] = sock[u]
  BY <1>1 DEF PoolInv, TypeOK
<1>6. peer'[s] = key[t] /\ \A o \in open : peer'[o] = peer[o]
  BY <1>1 DEF PoolInv, TypeOK
<1>7. OpenIsOwned'
  <2> SUFFICES ASSUME NEW o \in open'
               PROVE  \/ \E u \in Threads : sock'[u] = o
                      \/ \E l \in Keys : \E i \in Queued(l) : idle[l][i] = o
    BY <1>1, <1>4 DEF OpenIsOwned
  <2>1. CASE o = s
    BY <2>1, <1>5
  <2>2. CASE o # s
    <3>1. o \in open /\ o # NoSocket
      BY <2>2, <1>1, PoolAssumption DEF PoolInv, TypeOK
    <3> QED
      BY <3>1, <1>2, <1>5 DEF PoolInv, ExactlyOneOwner, OpenIsOwned
  <2> QED
    BY <2>1, <2>2
<1>8. OwnedIsOpen'
  BY <1>1, <1>4, <1>5 DEF PoolInv, ExactlyOneOwner, OwnedIsOpen, Holders
<1>9. HeldOnce' /\ HeldNotQueued'
  BY <1>1, <1>4, <1>5 DEF PoolInv, ExactlyOneOwner, OwnedIsOpen, HeldOnce, HeldNotQueued, Holders
<1>10. QueuedOnce'
  BY <1>1, <1>4 DEF PoolInv, ExactlyOneOwner, QueuedOnce
<1>11. Bookkeeping'
  BY <1>1, <1>2, <1>4 DEF PoolInv, Bookkeeping, Holders
<1>12. ConnectedToItsBackend'
  BY <1>1, <1>4, <1>5, <1>6 DEF PoolInv, ConnectedToItsBackend, ExactlyOneOwner, OwnedIsOpen, Holders
<1>13. BoundedAndDrained'
  BY <1>1, <1>2 DEF PoolInv, BoundedAndDrained
<1> QED
  BY <1>3, <1>7, <1>8, <1>9, <1>10, <1>11, <1>12, <1>13 DEF PoolInv, ExactlyOneOwner

\* A holder closes its descriptor: discard(), and release() to a full deque.
LEMMA CloseHeldKeeps ==
  ASSUME PoolInv, NEW t \in Holders, Close({sock[t]}), UNCHANGED <<idle, closed>>,
         sock' = [sock EXCEPT ![t] = NoSocket], key' = [key EXCEPT ![t] = NoKey]
  PROVE  PoolInv'
<1>1. t \in Threads /\ sock[t] \in open /\ ~closed /\ open' = open \ {sock[t]}
  BY PoolAssumption DEF Close, Holders, PoolInv, Bookkeeping, ExactlyOneOwner, OwnedIsOpen
<1>2. TypeOK'
  BY <1>1 DEF Close, PoolInv, TypeOK
<1>3. Holders' = Holders \ {t} /\ \A l \in Keys : Queued(l)' = Queued(l)
  BY <1>1 DEF Holders, Queued, PoolInv, TypeOK
<1>4. \A u \in Threads \ {t} : sock'[u] = sock[u] /\ key'[u] = key[u]
  BY DEF PoolInv, TypeOK
<1>5. \A o \in open' : peer'[o] = peer[o]
  BY <1>1 DEF Close, PoolInv, TypeOK
<1>6. OpenIsOwned'
  <2> SUFFICES ASSUME NEW o \in open'
               PROVE  \/ \E u \in Threads : sock'[u] = o
                      \/ \E l \in Keys : \E i \in Queued(l) : idle[l][i] = o
    BY <1>3 DEF OpenIsOwned
  <2> QED
    BY <1>1, <1>4 DEF PoolInv, ExactlyOneOwner, OpenIsOwned
<1>7. OwnedIsOpen'
  BY <1>1, <1>3, <1>4 DEF PoolInv, ExactlyOneOwner, OwnedIsOpen, HeldOnce, HeldNotQueued, Holders
<1>8. HeldOnce' /\ HeldNotQueued' /\ QueuedOnce'
  BY <1>3, <1>4 DEF PoolInv, ExactlyOneOwner, HeldOnce, HeldNotQueued, QueuedOnce, Holders
<1>9. Bookkeeping'
  BY <1>1, <1>3, <1>4 DEF PoolInv, Bookkeeping, Holders
<1>10. ConnectedToItsBackend'
  BY <1>3, <1>4, <1>5, <1>7 DEF PoolInv, ConnectedToItsBackend, OwnedIsOpen, Holders
<1>11. BoundedAndDrained'
  BY <1>1 DEF PoolInv, BoundedAndDrained
<1> QED
  BY <1>2, <1>6, <1>7, <1>8, <1>9, <1>10, <1>11 DEF PoolInv, ExactlyOneOwner

\* A handle destroyed unreleased closes its socket.
LEMMA DiscardKeeps ==
  ASSUME PoolInv, NEW t \in Threads, Discard(t)
  PROVE  PoolInv'
  BY CloseHeldKeeps DEF Discard, Holders

\* A deque with room takes the descriptor as its last element.
LEMMA ReleaseKeeps ==
  ASSUME PoolInv, NEW t \in Threads, Release(t)
  PROVE  PoolInv'
<1>k. PICK k \in Keys : k = key[t]
  BY DEF Release, PoolInv, Bookkeeping, Holders
<1> DEFINE q == idle[k]
<1>1. t \in Holders /\ ~closed /\ sock[t] \in open
  BY <1>k, PoolAssumption DEF Release, Holders, PoolInv, Bookkeeping, ExactlyOneOwner, OwnedIsOpen
<1>2. CASE Len(q) >= MaxIdle
  BY <1>k, <1>1, <1>2, CloseHeldKeeps DEF Release
<1>3. CASE ~(Len(q) >= MaxIdle)
  <2>q. q \in Seq(Sockets) /\ Len(q) \in Nat /\ sock[t] \in Sockets /\ Len(q) + 1 <= MaxIdle
    BY <1>1, <1>3, PoolAssumption DEF PoolInv, TypeOK
  <2>a. /\ Append(q, sock[t]) \in Seq(Sockets)
        /\ Len(Append(q, sock[t])) = Len(q) + 1
        /\ Append(q, sock[t])[Len(q) + 1] = sock[t]
        /\ \A i \in 1 .. Len(q) : Append(q, sock[t])[i] = q[i]
    BY <2>q
  <2>1. /\ idle' = [idle EXCEPT ![k] = Append(q, sock[t])]
        /\ sock' = [sock EXCEPT ![t] = NoSocket]
        /\ key' = [key EXCEPT ![t] = NoKey]
        /\ UNCHANGED <<open, gone, peer, closed>>
    BY <1>k, <1>3 DEF Release
  <2>o. open' = open
    BY <2>1
  <2> DEFINE last == Len(q) + 1
  <2>2. TypeOK'
    BY <1>1, <2>1, <2>a DEF PoolInv, TypeOK
  <2>3. Holders' = Holders \ {t}
    BY <2>1 DEF Holders, PoolInv, TypeOK
  <2>4. \A u \in Threads \ {t} : sock'[u] = sock[u] /\ key'[u] = key[u]
    BY <2>1 DEF PoolInv, TypeOK
  <2>5. last \in Queued(k)' /\ last \notin Queued(k) /\ idle'[k][last] = sock[t]
    BY <1>1, <2>1, <2>a, <2>q DEF Queued, PoolInv, TypeOK
  <2>6. \A l \in Keys : \A i \in Queued(l) : i \in Queued(l)' /\ idle'[l][i] = idle[l][i]
    <3> SUFFICES ASSUME NEW l \in Keys, NEW i \in Queued(l)
                 PROVE  i \in Queued(l)' /\ idle'[l][i] = idle[l][i]
      OBVIOUS
    <3>1. CASE l = k
      BY <3>1, <2>1, <2>a, <2>q DEF Queued, PoolInv, TypeOK
    <3>2. CASE l # k
      BY <3>2, <2>1 DEF Queued, PoolInv, TypeOK
    <3> QED
      BY <3>1, <3>2
  <2>7. \A l \in Keys : \A i \in Queued(l)' : i \in Queued(l) \/ (l = k /\ i = last)
    <3> SUFFICES ASSUME NEW l \in Keys, NEW i \in Queued(l)'
                 PROVE  i \in Queued(l) \/ (l = k /\ i = last)
      OBVIOUS
    <3>1. CASE l = k
      BY <3>1, <2>1, <2>a, <2>q DEF Queued, PoolInv, TypeOK
    <3>2. CASE l # k
      BY <3>2, <2>1 DEF Queued, PoolInv, TypeOK
    <3> QED
      BY <3>1, <3>2
  <2> HIDE DEF q, last
  <2>8. OpenIsOwned'
    <3> SUFFICES ASSUME NEW o \in open
                 PROVE  \/ \E u \in Threads : sock'[u] = o
                        \/ \E l \in Keys : \E i \in Queued(l)' : idle'[l][i] = o
      BY <2>1 DEF OpenIsOwned
    <3>1. CASE o = sock[t]
      BY <3>1, <1>1, <2>5
    <3>2. CASE o # sock[t]
      BY <3>2, <2>4, <2>6 DEF PoolInv, ExactlyOneOwner, OpenIsOwned
    <3> QED
      BY <3>1, <3>2
  <2>9. OwnedIsOpen'
    <3>1. \A u \in Holders' : sock'[u] \in open'
      BY <2>1, <2>3, <2>4 DEF PoolInv, ExactlyOneOwner, OwnedIsOpen, Holders
    <3>2. ASSUME NEW l \in Keys, NEW i \in Queued(l)' PROVE idle'[l][i] \in open'
      <4>1. CASE i \in Queued(l)
        BY <4>1, <2>o, <2>6 DEF PoolInv, ExactlyOneOwner, OwnedIsOpen
      <4>2. CASE l = k /\ i = last
        BY <4>2, <1>1, <2>o, <2>5
      <4> QED
        BY <4>1, <4>2, <2>7
    <3> QED
      BY <3>1, <3>2 DEF OwnedIsOpen
  <2>10. HeldOnce'
    BY <2>3, <2>4 DEF PoolInv, ExactlyOneOwner, HeldOnce, Holders
  <2>11. HeldNotQueued'
    <3> SUFFICES ASSUME NEW u \in Holders', NEW l \in Keys, NEW i \in Queued(l)'
                 PROVE  sock'[u] # idle'[l][i]
      BY DEF HeldNotQueued
    <3>1. u \in Holders /\ u # t /\ sock'[u] = sock[u]
      BY <2>3, <2>4 DEF Holders
    <3>2. CASE i \in Queued(l)
      BY <3>1, <3>2, <2>6 DEF PoolInv, ExactlyOneOwner, HeldNotQueued
    <3>3. CASE l = k /\ i = last
      BY <3>1, <3>3, <1>1, <2>5 DEF PoolInv, ExactlyOneOwner, HeldOnce
    <3> QED
      BY <3>2, <3>3, <2>7
  <2>12. QueuedOnce'
    <3> SUFFICES ASSUME NEW l \in Keys, NEW m \in Keys, NEW i \in Queued(l)', NEW j \in Queued(m)',
                        idle'[l][i] = idle'[m][j]
                 PROVE  l = m /\ i = j
      BY DEF QueuedOnce
    <3>1. CASE i \in Queued(l) /\ j \in Queued(m)
      BY <3>1, <2>6 DEF PoolInv, ExactlyOneOwner, QueuedOnce
    <3>2. CASE i \in Queued(l) /\ m = k /\ j = last
      BY <3>2, <1>1, <2>5, <2>6 DEF PoolInv, ExactlyOneOwner, HeldNotQueued
    <3>3. CASE l = k /\ i = last /\ j \in Queued(m)
      BY <3>3, <1>1, <2>5, <2>6 DEF PoolInv, ExactlyOneOwner, HeldNotQueued
    <3> QED
      BY <3>1, <3>2, <3>3, <2>7
  <2>13. Bookkeeping'
    BY <1>1, <2>1, <2>3, <2>4 DEF PoolInv, Bookkeeping, Holders
  <2>14. ConnectedToItsBackend'
    <3>1. \A u \in Holders' : peer'[sock'[u]] = key'[u]
      BY <2>1, <2>3, <2>4 DEF PoolInv, ConnectedToItsBackend, Holders
    <3>2. peer'[sock[t]] = k
      BY <1>k, <1>1, <2>1 DEF PoolInv, ConnectedToItsBackend
    <3>3. ASSUME NEW l \in Keys, NEW i \in Queued(l)' PROVE peer'[idle'[l][i]] = l
      <4>1. CASE i \in Queued(l)
        <5>1. idle'[l][i] = idle[l][i] /\ peer[idle[l][i]] = l
          BY <4>1, <2>6 DEF PoolInv, ConnectedToItsBackend
        <5>2. peer' = peer
          BY <2>1
        <5> QED
          BY <5>1, <5>2
      <4>2. CASE l = k /\ i = last
        BY <4>2, <3>2, <2>5
      <4> QED
        BY <4>1, <4>2, <2>7
    <3> QED
      BY <3>1, <3>3 DEF ConnectedToItsBackend
  <2>15. BoundedAndDrained'
    <3>1. \A l \in Keys : Len(idle'[l]) <= MaxIdle
      BY <1>1, <2>1, <2>a, <2>q DEF PoolInv, TypeOK, BoundedAndDrained
    <3> QED
      BY <3>1, <1>1, <2>1 DEF BoundedAndDrained
  <2> QED
    BY <2>2, <2>8, <2>9, <2>10, <2>11, <2>12, <2>13, <2>14, <2>15 DEF PoolInv, ExactlyOneOwner
<1> QED
  BY <1>2, <1>3

\* With no holder left every open descriptor is in a deque, so closing those
\* leaves none.
LEMMA CloseAllKeeps ==
  ASSUME PoolInv, CloseAll
  PROVE  PoolInv'
<1>1. Holders = {}
  BY PoolAssumption DEF CloseAll, PoolInv, Bookkeeping, Holders
<1>2. open \subseteq IdleSockets
  BY <1>1, PoolAssumption
  DEF PoolInv, TypeOK, ExactlyOneOwner, OpenIsOwned, IdleSockets, Queued, Holders
<1>3. open' = {} /\ gone' = {}
  BY <1>2 DEF CloseAll, Close, PoolInv, TypeOK
<1>4. Holders' = {} /\ \A k \in Keys : idle'[k] = <<>> /\ Queued(k)' = {}
  BY <1>1 DEF CloseAll, Holders, Queued
<1>5. TypeOK'
  <2>1. idle' \in [Keys -> Seq(Sockets)]
    <3>1. <<>> \in Seq(Sockets)
      OBVIOUS
    <3> QED
      BY <3>1 DEF CloseAll
  <2> QED
    BY <2>1, <1>3 DEF CloseAll, Close, PoolInv, TypeOK
<1>6. ExactlyOneOwner'
  BY <1>3, <1>4 DEF ExactlyOneOwner, OpenIsOwned, OwnedIsOpen, HeldOnce, HeldNotQueued, QueuedOnce
<1>7. Bookkeeping' /\ ConnectedToItsBackend'
  BY <1>4 DEF CloseAll, Bookkeeping, ConnectedToItsBackend
<1>8. BoundedAndDrained'
  BY <1>3, <1>4, PoolAssumption DEF BoundedAndDrained
<1> QED
  BY <1>5, <1>6, <1>7, <1>8 DEF PoolInv

\* Steps that touch no owner.
LEMMA OtherKeeps ==
  ASSUME PoolInv, gone' \subseteq open, UNCHANGED <<idle, sock, key, open, peer, closed>>
  PROVE  PoolInv'
<1>1. Holders' = Holders /\ \A k \in Keys : Queued(k)' = Queued(k)
  BY DEF Holders, Queued
<1>2. TypeOK' /\ BoundedAndDrained'
  BY DEF PoolInv, TypeOK, BoundedAndDrained
<1>3. ExactlyOneOwner'
  BY <1>1 DEF PoolInv, ExactlyOneOwner, OpenIsOwned, OwnedIsOpen, HeldOnce, HeldNotQueued, QueuedOnce
<1>4. Bookkeeping' /\ ConnectedToItsBackend'
  BY <1>1 DEF PoolInv, Bookkeeping, ConnectedToItsBackend
<1> QED
  BY <1>2, <1>3, <1>4 DEF PoolInv

\* Every step of the pool, of its callers and of the backends keeps the
\* invariant.
LEMMA NextKeepsPoolInv ==
  ASSUME PoolInv, [Next]_poolVars
  PROVE  PoolInv'
<1>1. ASSUME NEW t \in Threads, NEW k \in Keys, AcquireIdle(t, k) \/ AcquireMiss(t, k) PROVE PoolInv'
  BY <1>1, AcquireIdleKeeps, AcquireMissKeeps
<1>2. ASSUME NEW t \in Threads, DialSucceeds(t) \/ DialFails(t) PROVE PoolInv'
  BY <1>2, DialSucceedsKeeps, DialFailsKeeps
<1>3. ASSUME NEW t \in Threads, Release(t) \/ Discard(t) PROVE PoolInv'
  BY <1>3, ReleaseKeeps, DiscardKeeps
<1>4. ASSUME NEW s \in Sockets, PeerCloses(s) PROVE PoolInv'
  <2>1. gone' \subseteq open
    BY <1>4 DEF PeerCloses, PoolInv, TypeOK
  <2> QED
    BY <2>1, <1>4, OtherKeeps DEF PeerCloses
<1>5. CASE CloseAll
  BY <1>5, CloseAllKeeps
<1>6. CASE UNCHANGED poolVars
  <2>1. gone' \subseteq open
    BY <1>6 DEF poolVars, PoolInv, TypeOK
  <2> QED
    BY <2>1, <1>6, OtherKeeps DEF poolVars
<1> QED
  BY <1>1, <1>2, <1>3, <1>4, <1>5, <1>6 DEF Next, Finished

\* So it holds for ever.
THEOREM SpecKeepsPoolInv == Spec => []PoolInv
  BY InitPoolInv, NextKeepsPoolInv, PTL DEF Spec

\* No descriptor is ever leaked, shared, closed twice or used after close.
THEOREM DescriptorsHaveOneOwner == Spec => []ExactlyOneOwner
<1>1. PoolInv => ExactlyOneOwner
  BY DEF PoolInv
<1> QED
  BY <1>1, SpecKeepsPoolInv, PTL

\* No request is written to another backend's connection.
THEOREM RequestsReachTheirBackend == Spec => []ConnectedToItsBackend
<1>1. PoolInv => ConnectedToItsBackend
  BY DEF PoolInv
<1> QED
  BY <1>1, SpecKeepsPoolInv, PTL

\* The deques are bounded, and closeAll() leaves no backend connection open.
THEOREM PoolIsBoundedAndDrained == Spec => []BoundedAndDrained
<1>1. PoolInv => BoundedAndDrained
  BY DEF PoolInv
<1> QED
  BY <1>1, SpecKeepsPoolInv, PTL
=============================================================================
