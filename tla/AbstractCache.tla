---------------------------- MODULE AbstractCache ----------------------------
(***************************************************************************)
(* What a bounded cache with expiry and least-recently-used replacement    *)
(* promises: a map from keys to values with their insertion times, and the *)
(* order in which the keys were last used. LRUCache implements it.         *)
(***************************************************************************)
EXTENDS Integers, FiniteSets

CONSTANTS Keys, Values, Capacity, Ttl

VARIABLES
  content,  \* the entries by key
  recency,  \* <<j, k>>: j was used after k
  now

vars == <<content, recency, now>>

Init == content = [k \in {} |-> k] /\ recency = {} /\ now = 0

\* Only the keys in S are left.
Keep(S, f, order) ==
  /\ content' = [k \in S |-> f[k]]
  /\ recency' = {p \in order : p[1] \in S /\ p[2] \in S}

\* The order among the keys S once k has been used.
Used(k, S) ==
  {p \in recency : p[1] # k /\ p[2] # k} \cup {<<k, j>> : j \in S \ {k}}

\* A fresh entry is found and counts as used; a stale one is dropped.
Get(k) ==
  /\ UNCHANGED now
  /\ \/ k \notin DOMAIN content /\ UNCHANGED <<content, recency>>
     \/ /\ k \in DOMAIN content
        /\ ~(Ttl > 0 /\ now - content[k].at > Ttl)
        /\ Keep(DOMAIN content, content, Used(k, DOMAIN content))
     \/ /\ k \in DOMAIN content
        /\ Ttl > 0 /\ now - content[k].at > Ttl
        /\ Keep(DOMAIN content \ {k}, content, recency)

\* The new entry counts as used; if a key too many would be stored, the one
\* least recently used goes.
Put(k, v) ==
  LET S == DOMAIN content \cup {k}
      f == [j \in S |-> IF j = k THEN [value |-> v, at |-> now] ELSE content[j]]
  IN  /\ UNCHANGED now
      /\ \/ /\ k \in DOMAIN content \/ Cardinality(S) <= Capacity
            /\ Keep(S, f, Used(k, S))
         \/ /\ k \notin DOMAIN content /\ Cardinality(S) > Capacity
            /\ \E o \in S : /\ \A j \in S \ {o} : <<j, o>> \in Used(k, S)
                            /\ Keep(S \ {o}, f, Used(k, S))

Invalidate(k) == UNCHANGED now /\ Keep(DOMAIN content \ {k}, content, recency)
Clear == UNCHANGED now /\ Keep({}, content, recency)
Passes == now' = now + 1 /\ UNCHANGED <<content, recency>>

Next ==
  \/ \E k \in Keys : Get(k) \/ Invalidate(k) \/ \E v \in Values : Put(k, v)
  \/ Clear
  \/ Passes

Spec == Init /\ [][Next]_vars
=============================================================================
