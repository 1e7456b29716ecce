-------------------------- MODULE ProcessGraphProofs --------------------------
(***************************************************************************)
(* Theorems about ProcessGraph, for any nodes, edges, verdicts and order   *)
(* in which the sort meets its nodes: what topological_sort accepts, in    *)
(* which order the node loop visits, and what a completed run has done.    *)
(***************************************************************************)
EXTENDS ProcessGraph, FiniteSetTheorems, TLAPS

Ids(s) == {s[i] : i \in DOMAIN s}
Distinct(s) == \A i, j \in DOMAIN s : s[i] = s[j] => i = j

\* Every id comes after those its edges come from.
Ordered(s) ==
    \A c \in runConns : \A i, k \in DOMAIN s : s[i] = c.target /\ s[k] = c.source => k < i

\* The edges into m that the sort has not removed.
Left(m) == {c \in Incoming(m) : c.source \notin Ids(sorted)}

\* What topological_sort knows between two iterations: an id is out, or queued, when
\* all of its edges have been removed, and that happens once.
SortInv ==
    /\ Distinct(sorted) /\ Distinct(queue) /\ Ids(sorted) \cap Ids(queue) = {}
    /\ Ordered(sorted)
    /\ (Ids(sorted) \cup Ids(queue)) \cap Starved = {}
    /\ \A m \in Nodes :
          /\ m \in Ids(sorted) \cup Ids(queue) <=> m \in KnownIds /\ Left(m) = {}
          /\ inDegree[m] = Cardinality(Left(m))

Roots == {m \in Reachable : Incoming(m) = {}}

\* What was visited is settled: whoever feeds it is not to be visited any more.
LoopInv ==
    /\ Distinct(sorted) /\ Ordered(sorted)
    /\ (completed \cup skipped) \cap Ids(sorted) = {}
    /\ \A c \in runConns : c.target \in completed \cup skipped => c.source \notin Ids(sorted)

\* The nodes that completed are fed from the roots, those skipped are not.
OutcomeInv ==
    /\ completed \cap skipped = {}
    /\ completed \cup skipped \cup Ids(sorted) \subseteq Reachable
    /\ Proper => Reachable \subseteq completed \cup skipped \cup Ids(sorted)
    /\ \A S \in SUBSET Nodes :
          Roots \subseteq S
          /\ (\A c \in LiveEdges : c.source \in completed \cap S => c.target \in S)
          => completed \subseteq S
    /\ \A n \in skipped :
          Incoming(n) # {} /\ \A c \in Incoming(n) : c.source \in completed => Blocked(c)

Balanced == Cardinality(KnownIds \ Starved) = Cardinality(runNodes)

GraphInv ==
    /\ GraphTypeOK
    /\ pc \in {"idle", "nodes", "sort"} => completed = {} /\ skipped = {}
    /\ pc \in {"idle", "nodes"} => sorted = <<>>
    /\ pc = "sort" => SortInv
    /\ pc \in {"loop", "completed"} => LoopInv /\ OutcomeInv
    /\ pc = "completed" => sorted = <<>>
    /\ pc = "cycle" => ~Balanced
    /\ pc \in {"loop", "missing", "failed", "completed"} => Balanced

----------------------------------------------------------------------------
(* Sequences of ids.                                                       *)

LEMMA AppendIds ==
    ASSUME NEW s \in Seq(Nodes), NEW x \in Nodes
    PROVE  /\ Append(s, x) \in Seq(Nodes) /\ Ids(Append(s, x)) = Ids(s) \cup {x}
           /\ Distinct(s) /\ x \notin Ids(s) => Distinct(Append(s, x))
<1> DEFINE t == Append(s, x)
<1>1. /\ t \in Seq(Nodes) /\ Len(s) \in Nat /\ DOMAIN s = 1 .. Len(s) /\ DOMAIN t = 1 .. Len(s) + 1
      /\ t[Len(s) + 1] = x /\ \A i \in 1 .. Len(s) : t[i] = s[i]
  OBVIOUS
<1> HIDE DEF t
<1>2. \A i \in DOMAIN t : i \in DOMAIN s \/ i = Len(s) + 1
  BY <1>1
<1>3. Ids(t) = Ids(s) \cup {x}
  <2>1. \A y \in Ids(t) : y \in Ids(s) \cup {x}
    BY <1>1, <1>2 DEF Ids
  <2>2. \A y \in Ids(s) : y \in Ids(t)
    <3>1. \A i \in DOMAIN s : i \in DOMAIN t /\ t[i] = s[i]
      BY <1>1
    <3> QED BY <3>1 DEF Ids
  <2>3. x \in Ids(t)
    <3>1. Len(s) + 1 \in DOMAIN t
      BY <1>1
    <3> QED BY <1>1, <3>1 DEF Ids
  <2> QED BY <2>1, <2>2, <2>3
<1>4. ASSUME Distinct(s), x \notin Ids(s), NEW i \in DOMAIN t, NEW j \in DOMAIN t, t[i] = t[j]
      PROVE  i = j
  BY <1>1, <1>2, <1>4 DEF Ids, Distinct
<1> QED BY <1>1, <1>3, <1>4 DEF t, Distinct

LEMMA TailIds ==
    ASSUME NEW s \in Seq(Nodes), s # <<>>, Distinct(s)
    PROVE  /\ Head(s) \in Nodes /\ Head(s) \in Ids(s)
           /\ Tail(s) \in Seq(Nodes) /\ Distinct(Tail(s)) /\ Ids(Tail(s)) = Ids(s) \ {Head(s)}
<1> DEFINE t == Tail(s)
           h == Head(s)
<1>1. /\ t \in Seq(Nodes) /\ Len(s) \in Nat /\ Len(s) >= 1 /\ DOMAIN s = 1 .. Len(s)
      /\ DOMAIN t = 1 .. Len(s) - 1 /\ \A i \in 1 .. Len(s) - 1 : t[i] = s[i + 1]
      /\ h = s[1]
  OBVIOUS
<1> HIDE DEF t, h
<1>2. 1 \in DOMAIN s /\ h \in Ids(s) /\ h \in Nodes
  BY <1>1 DEF Ids
<1>3. \A i \in DOMAIN t : i \in Nat /\ i + 1 \in DOMAIN s /\ i + 1 # 1 /\ t[i] = s[i + 1]
  BY <1>1
<1>4. \A i \in DOMAIN s : i = 1 \/ (i - 1 \in DOMAIN t /\ (i - 1) + 1 = i)
  BY <1>1
<1>5. Distinct(t)
  <2> SUFFICES ASSUME NEW i \in DOMAIN t, NEW j \in DOMAIN t, t[i] = t[j]
               PROVE  i = j
    BY DEF Distinct
  <2>1. i + 1 = j + 1
    BY <1>3 DEF Distinct
  <2> QED BY <1>3, <2>1
<1>6. \A y \in Ids(t) : y \in Ids(s) /\ y # h
  <2> SUFFICES ASSUME NEW i \in DOMAIN t
               PROVE  t[i] \in Ids(s) /\ t[i] # h
    BY DEF Ids
  <2> QED BY <1>1, <1>2, <1>3 DEF Ids, Distinct
<1>7. \A y \in Ids(s) : y = h \/ y \in Ids(t)
  <2> SUFFICES ASSUME NEW i \in DOMAIN s
               PROVE  s[i] = h \/ s[i] \in Ids(t)
    BY DEF Ids
  <2>1. CASE i = 1
    BY <1>1, <2>1
  <2>2. CASE i - 1 \in DOMAIN t /\ (i - 1) + 1 = i
    BY <1>3, <2>2 DEF Ids
  <2> QED BY <1>4, <2>1, <2>2
<1>8. Ids(t) = Ids(s) \ {h}
  BY <1>6, <1>7
<1> QED BY <1>1, <1>2, <1>5, <1>8 DEF t, h

LEMMA ConcatIds ==
    ASSUME NEW s \in Seq(Nodes), NEW o \in Seq(Nodes)
    PROVE  /\ s \o o \in Seq(Nodes) /\ Ids(s \o o) = Ids(s) \cup Ids(o)
           /\ Distinct(s) /\ Distinct(o) /\ Ids(s) \cap Ids(o) = {} => Distinct(s \o o)
<1> DEFINE t == s \o o
<1>1. /\ t \in Seq(Nodes) /\ Len(s) \in Nat /\ Len(o) \in Nat
      /\ DOMAIN s = 1 .. Len(s) /\ DOMAIN o = 1 .. Len(o) /\ DOMAIN t = 1 .. Len(s) + Len(o)
      /\ \A i \in 1 .. Len(s) : t[i] = s[i]
      /\ \A i \in 1 .. Len(s) + Len(o) : i > Len(s) => t[i] = o[i - Len(s)]
  OBVIOUS
<1> HIDE DEF t
<1>2. \A i \in DOMAIN t :
          \/ i \in DOMAIN s /\ t[i] = s[i]
          \/ i \notin DOMAIN s /\ i - Len(s) \in DOMAIN o /\ t[i] = o[i - Len(s)]
  BY <1>1
<1>3. \A i \in DOMAIN s : i \in DOMAIN t /\ t[i] = s[i]
  BY <1>1
<1>4. \A i \in DOMAIN o : i + Len(s) \in DOMAIN t /\ t[i + Len(s)] = o[i]
  <2> SUFFICES ASSUME NEW i \in DOMAIN o
               PROVE  i + Len(s) \in DOMAIN t /\ t[i + Len(s)] = o[i]
    OBVIOUS
  <2>1. i + Len(s) \in 1 .. Len(s) + Len(o) /\ i + Len(s) > Len(s) /\ (i + Len(s)) - Len(s) = i
    BY <1>1
  <2> QED BY <1>1, <2>1
<1>5. Ids(t) = Ids(s) \cup Ids(o)
  <2>1. Ids(s) \subseteq Ids(t)
    BY <1>3 DEF Ids
  <2>2. Ids(o) \subseteq Ids(t)
    BY <1>4 DEF Ids
  <2>3. Ids(t) \subseteq Ids(s) \cup Ids(o)
    BY <1>2 DEF Ids
  <2> QED BY <2>1, <2>2, <2>3
<1>6. ASSUME Distinct(s), Distinct(o), Ids(s) \cap Ids(o) = {},
             NEW i \in DOMAIN t, NEW j \in DOMAIN t, t[i] = t[j]
      PROVE  i = j
  <2>1. CASE i \in DOMAIN s /\ j \in DOMAIN s
    BY <1>2, <1>6, <2>1 DEF Distinct
  <2>2. CASE i \notin DOMAIN s /\ j \notin DOMAIN s
    <3>1. i - Len(s) = j - Len(s)
      BY <1>2, <1>6, <2>2 DEF Distinct
    <3> QED BY <1>1, <3>1
  <2>3. CASE i \in DOMAIN s /\ j \notin DOMAIN s
    <3>1. t[i] \in Ids(s) /\ t[j] \in Ids(o)
      BY <1>2, <2>3 DEF Ids
    <3> QED BY <1>6, <3>1
  <2>4. CASE i \notin DOMAIN s /\ j \in DOMAIN s
    <3>1. t[j] \in Ids(s) /\ t[i] \in Ids(o)
      BY <1>2, <2>4 DEF Ids
    <3> QED BY <1>6, <3>1
  <2> QED BY <2>1, <2>2, <2>3, <2>4
<1> QED BY <1>1, <1>5, <1>6 DEF t, Distinct

\* What comes out of a hash map is all of it, once.
LEMMA OrdersCover ==
    ASSUME NEW S, IsFiniteSet(S), NEW o \in Orders(S)
    PROVE  /\ Cardinality(S) \in Nat /\ o \in Seq(S) /\ Len(o) = Cardinality(S)
           /\ o \in [1 .. Cardinality(S) -> S] /\ DOMAIN o = 1 .. Cardinality(S)
           /\ Distinct(o) /\ Ids(o) = S
<1>1. Cardinality(S) \in Nat
  BY FS_CardinalityType
<1> DEFINE n == Cardinality(S)
<1>2. o \in [1 .. n -> S] /\ Distinct(o)
  BY DEF Orders, Distinct
<1>3. o \in Injection(1 .. n, S)
  BY <1>2 DEF Injection, IsInjective, Distinct
<1>4. Cardinality(1 .. n) = n
  BY <1>1, FS_Interval
<1>5. o \in Surjection(1 .. n, S)
  BY <1>3, <1>4, FS_Injection
<1>6. Ids(o) = S
  BY <1>2, <1>5 DEF Ids, Surjection
<1>7. o \in Seq(S) /\ Len(o) = n
  BY <1>1, <1>2
<1> QED BY <1>1, <1>2, <1>6, <1>7

\* As many places as ids.
LEMMA PlacesAreIds ==
    ASSUME NEW s \in Seq(Nodes), Distinct(s)
    PROVE  /\ IsFiniteSet(Ids(s)) /\ Len(s) = Cardinality(Ids(s))
<1>1. Len(s) \in Nat /\ DOMAIN s = 1 .. Len(s) /\ s \in [1 .. Len(s) -> Ids(s)]
  BY DEF Ids
<1>2. IsFiniteSet(1 .. Len(s)) /\ Cardinality(1 .. Len(s)) = Len(s)
  BY <1>1, FS_Interval
<1>3. s \in Surjection(1 .. Len(s), Ids(s))
  BY <1>1 DEF Surjection, Ids
<1>4. s \in Injection(1 .. Len(s), Ids(s))
  BY <1>1 DEF Injection, IsInjective, Distinct
<1> QED BY <1>2, <1>3, <1>4, FS_Surjection

LEMMA ConnectionsAreFinite == IsFiniteSet(Connection)
<1> DEFINE D == (Nodes \X BOOLEAN) \X Nodes
           f == [x \in D |-> [source |-> x[1][1], onFalse |-> x[1][2], target |-> x[2]]]
           T == {f[x] : x \in D}
<1>1. IsFiniteSet(D)
  <2>1. IsFiniteSet({TRUE})
    BY FS_Singleton
  <2>2. IsFiniteSet({TRUE} \cup {FALSE})
    BY <2>1, FS_AddElement
  <2>3. BOOLEAN = {TRUE} \cup {FALSE}
    OBVIOUS
  <2>4. IsFiniteSet(BOOLEAN) /\ IsFiniteSet(Nodes)
    BY <2>2, <2>3, GraphAssumption DEF GraphAssumption
  <2>5. IsFiniteSet(Nodes \X BOOLEAN)
    BY <2>4, FS_Product
  <2> QED BY <2>4, <2>5, FS_Product
<1>2. f \in Surjection(D, T)
  BY DEF Surjection
<1>3. IsFiniteSet(T)
  <2> HIDE DEF f, T, D
  <2> QED BY <1>1, <1>2, FS_Surjection
<1>4. Connection \subseteq T
  <2> SUFFICES ASSUME NEW c \in Connection
               PROVE  c \in T
    OBVIOUS
  <2> DEFINE x == <<<<c.source, c.onFalse>>, c.target>>
  <2>1. c \in [source : Nodes, onFalse : BOOLEAN, target : Nodes]
    BY DEF Connection
  <2>2. x \in D
    BY <2>1
  <2>3. f[x] = [source |-> c.source, onFalse |-> c.onFalse, target |-> c.target]
    BY <2>2
  <2>4. f[x] = c
    BY <2>1, <2>3
  <2> QED BY <2>2, <2>4
<1> HIDE DEF T
<1> QED BY <1>3, <1>4, FS_Subset

LEMMA EdgesAreFinite ==
    ASSUME runConns \subseteq Connection, NEW C \in SUBSET runConns
    PROVE  IsFiniteSet(C) /\ Cardinality(C) \in Nat
<1>1. C \in SUBSET Connection
  OBVIOUS
<1>2. IsFiniteSet(C)
  BY <1>1, ConnectionsAreFinite, FS_Subset
<1> QED BY <1>2, FS_CardinalityType

LEMMA NodesAreFinite ==
    ASSUME NEW S \in SUBSET Nodes
    PROVE  IsFiniteSet(S) /\ Cardinality(S) \in Nat
<1>1. IsFiniteSet(S)
  BY GraphAssumption, FS_Subset DEF GraphAssumption
<1> QED BY <1>1, FS_CardinalityType

LEMMA EndsOf ==
    ASSUME GraphTypeOK, NEW c \in runConns
    PROVE  c \in Connection /\ c.source \in Nodes /\ c.target \in Nodes
BY DEF GraphTypeOK, Connection

----------------------------------------------------------------------------
(* The sort.                                                               *)

LEMMA SortBegins ==
    ASSUME GraphTypeOK, sorted = <<>>, ReadConns
    PROVE  SortInv' /\ queue' \in Seq(Nodes) /\ inDegree' \in [Nodes -> Nat]
<1> DEFINE S == {n \in runNodes : \A c \in conns : c.target # n}
<1>1. /\ runConns' = conns /\ runNodes' = runNodes /\ sorted' = sorted
      /\ inDegree' = [n \in Nodes |-> Cardinality({c \in conns : c.target = n})]
      /\ queue' \in Orders(S)
  BY DEF ReadConns
<1>2. conns \subseteq Connection /\ runNodes \subseteq Nodes
  BY DEF GraphTypeOK
<1>3. S \in SUBSET Nodes /\ IsFiniteSet(S)
  BY <1>2, NodesAreFinite
<1>4. Distinct(queue') /\ Ids(queue') = S /\ queue' \in Seq(S)
  <2> HIDE DEF S
  <2> QED BY <1>1, <1>3, OrdersCover
<1>5. queue' \in Seq(Nodes)
  <2> HIDE DEF S
  <2> QED BY <1>3, <1>4
<1>6. Ids(<<>>) = {} /\ Distinct(<<>>) /\ DOMAIN <<>> = {}
  BY DEF Ids, Distinct
<1>7. \A m \in Nodes : Left(m)' = {c \in conns : c.target = m}
  BY <1>1, <1>6 DEF Left, Incoming
<1>8. \A m \in Nodes : Cardinality({c \in conns : c.target = m}) \in Nat
  <2> SUFFICES ASSUME NEW m \in Nodes
               PROVE  Cardinality({c \in conns : c.target = m}) \in Nat
    OBVIOUS
  <2>1. {c \in conns : c.target = m} \in SUBSET Connection
    BY <1>2
  <2>2. IsFiniteSet({c \in conns : c.target = m})
    BY <2>1, ConnectionsAreFinite, FS_Subset
  <2> QED BY <2>2, FS_CardinalityType
<1>9. ASSUME NEW m \in Nodes
      PROVE  (m \in Ids(sorted) \cup Ids(queue) <=> m \in KnownIds /\ Left(m) = {})'
  <2>1. m \in S <=> m \in KnownIds' /\ {c \in conns : c.target = m} = {}
    BY <1>1 DEF KnownIds, Ghosts
  <2> QED BY <1>1, <1>4, <1>6, <1>7, <2>1
<1>10. ASSUME NEW m \in Nodes
       PROVE  (inDegree[m] = Cardinality(Left(m)))'
  <2>1. inDegree'[m] = Cardinality({c \in conns : c.target = m})
    BY <1>1
  <2> QED BY <1>7, <2>1
<1>11. Ordered(sorted)' /\ Distinct(sorted)' /\ Ids(sorted)' = {}
  BY <1>1, <1>6 DEF Ordered
<1>12. (Ids(queue) \cap Starved = {})'
  <2> SUFFICES ASSUME NEW m \in S, m \in Starved'
               PROVE  FALSE
    BY <1>4
  <2>1. PICK T \in SUBSET KnownIds' : m \in T /\ \A n \in T : \E c \in Incoming(n)' : TRUE
    BY DEF Starved
  <2>2. \E c \in Incoming(m)' : TRUE
    BY <2>1
  <2> QED BY <1>1, <2>2 DEF Incoming
<1>13. SortInv'
  <2>1. Distinct(queue)'
    BY <1>4
  <2>2. Ids(sorted)' \cap Ids(queue)' = {} /\ (Ids(sorted)' \cup Ids(queue)') \cap Starved' = {}
    BY <1>11, <1>12
  <2> QED BY <1>9, <1>10, <1>11, <2>1, <2>2 DEF SortInv
<1> QED BY <1>1, <1>5, <1>8, <1>13

\* What is fed from ids that are not starved is not.
LEMMA FedIsNotStarved ==
    ASSUME NEW m, \A c \in Incoming(m) : c.source \in KnownIds \ Starved
    PROVE  m \notin Starved
<1> SUFFICES ASSUME m \in Starved
             PROVE  FALSE
  OBVIOUS
<1>1. PICK S \in SUBSET KnownIds :
          /\ m \in S
          /\ \A n \in S : \E c \in Incoming(n) : c.source \in S \/ FromOutside(c)
  BY DEF Starved
<1>2. PICK c \in Incoming(m) : c.source \in S \/ FromOutside(c)
  BY <1>1
<1>3. S \subseteq Starved
  BY <1>1 DEF Starved
<1> QED BY <1>2, <1>3 DEF FromOutside

\* The run's graph stays as it was read.
LEMMA GraphIsFixed ==
    ASSUME UNCHANGED <<runNodes, runConns>>
    PROVE  /\ Reachable' = Reachable /\ Roots' = Roots /\ (Proper' <=> Proper)
           /\ KnownIds' = KnownIds /\ Starved' = Starved /\ (Balanced' <=> Balanced)
<1>1. KnownIds' = KnownIds
  BY DEF KnownIds, Ghosts
<1>2. \A m : Incoming(m)' = Incoming(m)
  BY DEF Incoming
<1>3. \A c : FromOutside(c)' <=> FromOutside(c)
  BY <1>1 DEF FromOutside
<1>4. Starved' = Starved
  BY <1>1, <1>2, <1>3 DEF Starved
<1>5. Reachable' = Reachable
  BY DEF Reachable
<1>6. Roots' = Roots
  BY <1>2, <1>5 DEF Roots
<1>7. Proper' <=> Proper
  BY DEF Proper
<1>8. Balanced' <=> Balanced
  BY <1>1, <1>4 DEF Balanced
<1> QED BY <1>1, <1>4, <1>5, <1>6, <1>7, <1>8

LEMMA PopKeeps ==
    ASSUME GraphTypeOK, SortInv, Pop
    PROVE  /\ SortInv' /\ queue' \in Seq(Nodes) /\ sorted' \in Seq(Nodes)
           /\ inDegree' \in [Nodes -> Nat]
<1> DEFINE n == Head(queue)
           P == Ids(sorted)
           Q == Ids(queue)
<1>1. /\ queue # <<>> /\ sorted' = Append(sorted, n)
      /\ inDegree' = [m \in Nodes |-> inDegree[m] - Cardinality(Edges(runConns, n, m))]
      /\ UNCHANGED <<runNodes, runConns>>
  BY DEF Pop, snapshot
<1>2. PICK o \in Orders(Freed(n)) : queue' = Tail(queue) \o o
  BY DEF Pop
<1>3. queue \in Seq(Nodes) /\ sorted \in Seq(Nodes) /\ Distinct(queue) /\ Distinct(sorted)
  BY DEF GraphTypeOK, SortInv
<1>4. /\ n \in Nodes /\ n \in Q
      /\ Tail(queue) \in Seq(Nodes) /\ Distinct(Tail(queue)) /\ Ids(Tail(queue)) = Q \ {n}
  BY <1>1, <1>3, TailIds
<1>5. n \notin P
  BY <1>4 DEF SortInv
<1> HIDE DEF n
<1>6. /\ sorted' \in Seq(Nodes) /\ Ids(sorted') = P \cup {n} /\ Distinct(sorted')
  BY <1>1, <1>3, <1>4, <1>5, AppendIds
<1> DEFINE E(m) == Edges(runConns, n, m)
<1>7. ASSUME NEW m \in Nodes
      PROVE  /\ E(m) \subseteq Left(m) /\ Left(m)' = Left(m) \ E(m)
             /\ IsFiniteSet(Left(m)) /\ Cardinality(Left(m)) \in Nat /\ Cardinality(E(m)) \in Nat
             /\ Cardinality(Left(m)) = Cardinality(E(m)) <=> Left(m) = E(m)
             /\ Cardinality(Left(m) \ E(m)) = Cardinality(Left(m)) - Cardinality(E(m))
             /\ Cardinality(Left(m) \ E(m)) \in Nat
  <2>1. E(m) \subseteq Left(m)
    BY <1>5 DEF Edges, Left, Incoming
  <2>2. Left(m)' = Left(m) \ E(m)
    BY <1>1, <1>6 DEF Edges, Left, Incoming
  <2>3. /\ Left(m) \in SUBSET runConns /\ E(m) \in SUBSET runConns
        /\ Left(m) \ E(m) \in SUBSET runConns /\ runConns \subseteq Connection
    BY DEF Edges, Left, Incoming, GraphTypeOK
  <2>4. /\ IsFiniteSet(Left(m)) /\ Cardinality(Left(m)) \in Nat /\ Cardinality(E(m)) \in Nat
        /\ Cardinality(Left(m) \ E(m)) \in Nat
    BY <2>3, EdgesAreFinite
  <2>5. Cardinality(Left(m)) = Cardinality(E(m)) <=> Left(m) = E(m)
    BY <2>1, <2>4, FS_Subset
  <2>6. Cardinality(Left(m) \ E(m)) = Cardinality(Left(m)) - Cardinality(Left(m) \cap E(m))
    BY <2>4, FS_Difference
  <2>7. Left(m) \cap E(m) = E(m)
    BY <2>1
  <2> QED BY <2>1, <2>2, <2>4, <2>5, <2>6, <2>7
<1>8. \A m \in Nodes : m \in Freed(n) <=> E(m) # {} /\ Left(m) = E(m)
  BY <1>7 DEF Freed, SortInv
<1>9. Freed(n) \in SUBSET Nodes /\ IsFiniteSet(Freed(n))
  <2>1. Freed(n) \in SUBSET Nodes
    BY DEF Freed
  <2> QED BY <2>1, NodesAreFinite
<1>10. o \in Seq(Nodes) /\ Distinct(o) /\ Ids(o) = Freed(n)
  <2>1. o \in Seq(Freed(n)) /\ Distinct(o) /\ Ids(o) = Freed(n)
    BY <1>9, OrdersCover
  <2> QED BY <1>9, <2>1
<1>11. \A m \in Nodes : m \in P \cup Q => Left(m) = {}
  BY DEF SortInv
<1>12. Freed(n) \cap (P \cup Q) = {}
  BY <1>8, <1>9, <1>11
<1>13. /\ queue' \in Seq(Nodes) /\ Distinct(queue') /\ Ids(queue') = (Q \ {n}) \cup Freed(n)
  <2>1. Ids(Tail(queue)) \cap Ids(o) = {}
    BY <1>4, <1>10, <1>12
  <2> QED BY <1>2, <1>4, <1>10, <2>1, ConcatIds
<1>14. Ids(sorted') \cap Ids(queue') = {}
  <2>1. P \cap Q = {}
    BY DEF SortInv
  <2> QED BY <1>4, <1>5, <1>6, <1>12, <1>13, <2>1
<1>15. ASSUME NEW m \in Nodes
       PROVE  (m \in Ids(sorted) \cup Ids(queue) <=> m \in KnownIds /\ Left(m) = {})'
  <2>1. KnownIds' = KnownIds /\ Left(m)' = Left(m) \ E(m)
    BY <1>1, <1>7 DEF KnownIds, Ghosts
  <2>2. m \in P \cup Q <=> m \in KnownIds /\ Left(m) = {}
    BY DEF SortInv
  <2>3. m \in Ids(sorted') \cup Ids(queue') <=> m \in P \cup Q \/ m \in Freed(n)
    BY <1>4, <1>6, <1>13
  <2>4. E(m) # {} => m \in KnownIds
    BY DEF Edges, KnownIds, Ghosts
  <2>5. Left(m) \ E(m) = {} <=> Left(m) = {} \/ (E(m) # {} /\ Left(m) = E(m))
    BY <1>7
  <2> QED BY <1>8, <2>1, <2>2, <2>3, <2>4, <2>5
<1>16. ASSUME NEW m \in Nodes
       PROVE  (inDegree[m] = Cardinality(Left(m)))' /\ inDegree'[m] \in Nat
  <2>1. inDegree[m] = Cardinality(Left(m))
    BY DEF SortInv
  <2>2. inDegree'[m] = inDegree[m] - Cardinality(E(m))
    BY <1>1
  <2> QED BY <1>7, <2>1, <2>2
<1>17. Ordered(sorted)'
  <2> DEFINE l == Len(sorted)
             s == sorted'
  <2>1. /\ l \in Nat /\ DOMAIN sorted = 1 .. l /\ DOMAIN s = 1 .. l + 1
        /\ s[l + 1] = n /\ \A i \in 1 .. l : s[i] = sorted[i]
    BY <1>1, <1>3, <1>4
  <2> HIDE DEF l, s
  <2>2. ASSUME NEW c \in runConns, NEW i \in DOMAIN s, NEW k \in DOMAIN s,
               s[i] = c.target, s[k] = c.source
        PROVE  k < i
    <3>1. c.target \in Nodes /\ c.source \in Nodes
      BY EndsOf
    <3>2. c.target \in P \cup Q
      <4>1. CASE i = l + 1
        BY <1>4, <2>1, <2>2, <4>1
      <4>2. CASE i # l + 1
        <5>1. i \in DOMAIN sorted /\ sorted[i] = c.target
          BY <2>1, <2>2, <4>2
        <5> QED BY <5>1 DEF Ids
      <4> QED BY <4>1, <4>2
    <3>3. c.source \in P
      <4>1. Left(c.target) = {}
        BY <1>11, <3>1, <3>2
      <4> QED BY <4>1 DEF Left, Incoming
    <3>4. k # l + 1
      BY <1>5, <2>1, <2>2, <3>3
    <3>5. k \in DOMAIN sorted /\ sorted[k] = c.source
      BY <2>1, <2>2, <3>4
    <3>6. CASE i = l + 1
      BY <2>1, <3>4, <3>6
    <3>7. CASE i # l + 1
      <4>1. i \in DOMAIN sorted /\ sorted[i] = c.target
        BY <2>1, <2>2, <3>7
      <4> QED BY <3>5, <4>1 DEF SortInv, Ordered
    <3> QED BY <3>6, <3>7
  <2> QED BY <1>1, <2>2 DEF Ordered, s
<1>18. ((Ids(sorted) \cup Ids(queue)) \cap Starved = {})'
  <2>1. Starved' = Starved /\ KnownIds' = KnownIds
    BY <1>1, GraphIsFixed
  <2>2. ASSUME NEW m \in Freed(n)
        PROVE  m \notin Starved
    <3>1. m \in Nodes /\ Left(m) = E(m)
      BY <1>8, <1>9
    <3>2. ASSUME NEW c \in Incoming(m)
          PROVE  c.source \in P \cup Q
      <4>1. c.source \in P \/ c.source = n
        BY <3>1 DEF Left, Edges, Incoming
      <4> QED BY <1>4, <4>1
    <3>3. ASSUME NEW c \in Incoming(m)
          PROVE  c.source \in KnownIds \ Starved
      <4>1. c.source \in Nodes
        BY EndsOf DEF Incoming
      <4> QED BY <3>2, <4>1 DEF SortInv
    <3> QED BY <3>3, FedIsNotStarved
  <2>3. (P \cup Q) \cap Starved = {}
    BY DEF SortInv
  <2> QED BY <1>4, <1>6, <1>13, <2>1, <2>2, <2>3
<1>19. SortInv'
  BY <1>6, <1>13, <1>14, <1>15, <1>16, <1>17, <1>18 DEF SortInv
<1>20. inDegree' \in [Nodes -> Nat]
  <2>1. DOMAIN inDegree' = Nodes /\ inDegree' = [m \in Nodes |-> inDegree'[m]]
    BY <1>1
  <2> QED BY <1>16, <2>1
<1> QED BY <1>6, <1>13, <1>19, <1>20

\* When the sort ends, its output is what is known and not starved.
LEMMA SortedAreTheFed ==
    ASSUME GraphTypeOK, SortInv, queue = <<>>
    PROVE  Ids(sorted) = KnownIds \ Starved
<1>1. Ids(queue) = {}
  BY DEF Ids
<1>2. KnownIds \subseteq Nodes
  BY EndsOf DEF KnownIds, Ghosts, GraphTypeOK
<1>3. sorted \in Seq(Nodes)
  BY DEF GraphTypeOK
<1>4. Ids(sorted) \subseteq Nodes
  BY <1>3 DEF Ids
<1>5. ASSUME NEW m \in Nodes
      PROVE  m \in Ids(sorted) <=> m \in KnownIds /\ Left(m) = {}
  BY <1>1 DEF SortInv
<1> DEFINE S == KnownIds \ Ids(sorted)
<1>6. ASSUME NEW m \in S
      PROVE  \E c \in Incoming(m) : c.source \in S \/ FromOutside(c)
  <2>1. PICK c \in Left(m) : TRUE
    BY <1>2, <1>5
  <2> QED BY <2>1 DEF Left, FromOutside
<1>7. S \subseteq Starved
  <2>1. S \in SUBSET KnownIds
    OBVIOUS
  <2> HIDE DEF S
  <2> QED BY <1>6, <2>1 DEF Starved
<1>8. Ids(sorted) \cap Starved = {}
  BY DEF SortInv
<1> QED BY <1>4, <1>5, <1>7, <1>8

\* Where s has the ids in R.
Places(s, R) == {i \in DOMAIN s : s[i] \in R}

\* The ids of s in R, in their order.
LEMMA FilterIds ==
    ASSUME NEW s \in Seq(Nodes), Distinct(s), NEW R,
           NEW o \in Orders(Places(s, R)),
           \A i, j \in DOMAIN o : i < j => o[i] < o[j],
           NEW f, f = [i \in DOMAIN o |-> s[o[i]]]
    PROVE  /\ f \in Seq(Nodes) /\ Distinct(f) /\ Ids(f) = Ids(s) \cap R
           /\ Ordered(s) => Ordered(f)
<1> DEFINE A == Places(s, R)
           n == Cardinality(A)
<1>1. Len(s) \in Nat /\ DOMAIN s = 1 .. Len(s) /\ A = {i \in DOMAIN s : s[i] \in R}
  BY DEF Places
<1>2. IsFiniteSet(A)
  <2>1. IsFiniteSet(1 .. Len(s)) /\ A \in SUBSET (1 .. Len(s))
    BY <1>1, FS_Interval
  <2> HIDE DEF A
  <2> QED BY <2>1, FS_Subset
<1>3. /\ n \in Nat /\ o \in [1 .. n -> A] /\ DOMAIN o = 1 .. n /\ Distinct(o) /\ Ids(o) = A
  <2>1. o \in Orders(A)
    OBVIOUS
  <2> HIDE DEF A
  <2> QED BY <1>2, <2>1, OrdersCover
<1> HIDE DEF n, A
<1>4. /\ DOMAIN f = 1 .. n /\ \A i \in 1 .. n : f[i] = s[o[i]] /\ o[i] \in A
  BY <1>3
<1>5. f \in Seq(Nodes)
  <2>1. f \in [1 .. n -> Nodes]
    BY <1>1, <1>3
  <2> QED BY <1>3, <2>1
<1>6. Distinct(f)
  <2> SUFFICES ASSUME NEW i \in 1 .. n, NEW j \in 1 .. n, f[i] = f[j]
               PROVE  i = j
    BY <1>4 DEF Distinct
  <2>1. o[i] = o[j]
    BY <1>1, <1>4 DEF Distinct
  <2> QED BY <1>3, <2>1 DEF Distinct
<1>7. Ids(f) = Ids(s) \cap R
  <2>1. ASSUME NEW x \in Ids(f)
        PROVE  x \in Ids(s) \cap R
    <3>1. PICK i \in 1 .. n : x = f[i]
      BY <1>4 DEF Ids
    <3> QED BY <1>1, <1>4, <3>1 DEF Ids
  <2>2. ASSUME NEW x \in Ids(s) \cap R
        PROVE  x \in Ids(f)
    <3>1. PICK k \in DOMAIN s : x = s[k]
      BY DEF Ids
    <3>2. k \in Ids(o)
      BY <1>1, <1>3, <3>1
    <3>3. PICK i \in 1 .. n : k = o[i]
      BY <1>3, <3>2 DEF Ids
    <3>4. f[i] = x
      BY <1>4, <3>1, <3>3
    <3> QED BY <1>4, <3>4 DEF Ids
  <2> QED BY <2>1, <2>2
<1>8. ASSUME Ordered(s)
      PROVE  Ordered(f)
  <2> SUFFICES ASSUME NEW c \in runConns, NEW i \in 1 .. n, NEW k \in 1 .. n,
                      f[i] = c.target, f[k] = c.source
               PROVE  k < i
    BY <1>4 DEF Ordered
  <2>1. o[k] \in DOMAIN s /\ o[i] \in DOMAIN s /\ s[o[i]] = c.target /\ s[o[k]] = c.source
    BY <1>1, <1>4
  <2>2. o[k] < o[i]
    BY <1>8, <2>1 DEF Ordered
  <2>3. o[k] \in Nat /\ o[i] \in Nat /\ i \in Nat /\ k \in Nat
    BY <1>1, <2>1
  <2>4. i < k => o[i] < o[k]
    BY <1>3
  <2>5. i # k
    BY <2>2, <2>3
  <2> QED BY <2>2, <2>3, <2>4, <2>5
<1> QED BY <1>5, <1>6, <1>7, <1>8

LEMMA ReachableAreNodes ==
    ASSUME GraphTypeOK
    PROVE  /\ Reachable \subseteq Nodes
           /\ \A c \in runConns : c.source \in Reachable => c.target \in Reachable
           /\ Proper => Reachable \subseteq runNodes /\ KnownIds = runNodes
<1>1. \A c \in runConns : c.source \in Reachable => c.target \in Reachable
  BY EndsOf DEF Reachable, Closed
<1>2. ASSUME Proper
      PROVE  Reachable \subseteq runNodes /\ KnownIds = runNodes
  <2>1. runNodes \in SUBSET Nodes /\ Closed(runNodes, runConns)
    BY <1>2 DEF Proper, Within, Closed, GraphTypeOK
  <2>2. Reachable \subseteq runNodes
    BY <2>1 DEF Reachable
  <2>3. KnownIds = runNodes
    BY <1>2 DEF KnownIds, Ghosts, Proper, Within
  <2> QED BY <2>2, <2>3
<1> QED BY <1>1, <1>2 DEF Reachable

LEMMA SortEndsKeeps ==
    ASSUME GraphTypeOK, SortInv, completed = {}, skipped = {}, SortEnds
    PROVE  /\ sorted' \in Seq(Nodes) /\ pc' \in {"cycle", "loop"}
           /\ pc' = "cycle" => ~Balanced'
           /\ pc' = "loop" => LoopInv' /\ OutcomeInv' /\ Balanced'
<1>1. /\ queue = <<>> /\ UNCHANGED <<runNodes, runConns, completed, skipped>>
  BY DEF SortEnds, snapshot, results
<1>2. /\ Balanced' <=> Balanced
      /\ Reachable' = Reachable /\ (Proper' <=> Proper)
  BY <1>1, GraphIsFixed
<1>3. sorted \in Seq(Nodes) /\ Distinct(sorted) /\ Ordered(sorted)
  BY DEF GraphTypeOK, SortInv
<1>4. Ids(sorted) = KnownIds \ Starved /\ Len(sorted) = Cardinality(Ids(sorted))
  BY <1>1, <1>3, SortedAreTheFed, PlacesAreIds
<1>5. Len(sorted) = Cardinality(runNodes) <=> Balanced
  BY <1>4 DEF Balanced
<1>6. CASE Len(sorted) # Cardinality(runNodes)
  <2>1. pc' = "cycle" /\ sorted' = sorted
    BY <1>6 DEF SortEnds
  <2> QED BY <1>2, <1>3, <1>5, <1>6, <2>1
<1>7. CASE Len(sorted) = Cardinality(runNodes)
  <2>1. pc' = "loop"
    BY <1>7 DEF SortEnds
  <2>2. PICK o \in Orders({i \in DOMAIN sorted : sorted[i] \in Reachable}) :
            /\ \A i, j \in DOMAIN o : i < j => o[i] < o[j]
            /\ sorted' = [i \in DOMAIN o |-> sorted[o[i]]]
    BY <1>7 DEF SortEnds
  <2>3. /\ sorted' \in Seq(Nodes) /\ Distinct(sorted') /\ Ordered(sorted')
        /\ Ids(sorted') = Ids(sorted) \cap Reachable
    <3> DEFINE f == [i \in DOMAIN o |-> sorted[o[i]]]
    <3>1. \A i, j \in DOMAIN o : i < j => o[i] < o[j]
      BY <2>2
    <3>2. sorted' = f
      BY <2>2
    <3>3. /\ f \in Seq(Nodes) /\ Distinct(f) /\ Ids(f) = Ids(sorted) \cap Reachable
          /\ Ordered(sorted) => Ordered(f)
      <4>1. f = [i \in DOMAIN o |-> sorted[o[i]]]
        OBVIOUS
      <4>2. o \in Orders(Places(sorted, Reachable))
        BY <2>2 DEF Places
      <4> HIDE DEF f
      <4>3. sorted \in Seq(Nodes) /\ Distinct(sorted)
        BY <1>3
      <4> QED BY <3>1, <4>1, <4>2, <4>3, FilterIds
    <3> HIDE DEF f
    <3> QED BY <1>3, <3>2, <3>3
  <2>4. Ordered(sorted)'
    BY <1>1, <2>3 DEF Ordered
  <2>5. LoopInv'
    BY <1>1, <2>3, <2>4 DEF LoopInv
  <2>6. Proper => Reachable \subseteq Ids(sorted')
    <3> SUFFICES ASSUME Proper
                 PROVE  Reachable \subseteq Ids(sorted)
      BY <2>3
    <3>1. Reachable \subseteq runNodes /\ KnownIds = runNodes
      BY ReachableAreNodes
    <3>2. runNodes \in SUBSET Nodes
      BY DEF GraphTypeOK
    <3>3. IsFiniteSet(runNodes) /\ Ids(sorted) \in SUBSET runNodes
      BY <1>4, <3>1, <3>2, NodesAreFinite
    <3>4. Ids(sorted) = runNodes
      BY <1>4, <1>7, <3>3, FS_Subset
    <3> QED BY <3>1, <3>4
  <2>7. OutcomeInv'
    BY <1>1, <1>2, <2>3, <2>6 DEF OutcomeInv
  <2> QED BY <1>2, <1>5, <1>7, <2>1, <2>3, <2>5, <2>7
<1> QED BY <1>6, <1>7

----------------------------------------------------------------------------
(* The node loop.                                                          *)

LEMMA VisitKeeps ==
    ASSUME GraphTypeOK, LoopInv, NEW n \in Nodes, Visiting(n), Visited,
           (completed \cup skipped)' = completed \cup skipped \cup {n}
    PROVE  /\ LoopInv' /\ sorted' \in Seq(Nodes) /\ Ids(sorted') = Ids(sorted) \ {n}
           /\ n \in Ids(sorted) /\ n \notin completed \cup skipped
<1> DEFINE t == Tail(sorted)
<1>1. /\ sorted \in Seq(Nodes) /\ sorted # <<>> /\ Distinct(sorted) /\ Ordered(sorted)
      /\ n = Head(sorted) /\ sorted' = t /\ UNCHANGED <<runNodes, runConns>>
  BY DEF GraphTypeOK, LoopInv, Visiting, Visited, snapshot
<1>2. /\ t \in Seq(Nodes) /\ Distinct(t) /\ Ids(t) = Ids(sorted) \ {n} /\ n \in Ids(sorted)
  BY <1>1, TailIds
<1>3. /\ Len(sorted) \in Nat /\ DOMAIN sorted = 1 .. Len(sorted) /\ sorted[1] = n
      /\ DOMAIN t = 1 .. Len(sorted) - 1 /\ \A i \in DOMAIN t : t[i] = sorted[i + 1]
      /\ 1 \in DOMAIN sorted
  BY <1>1
<1> HIDE DEF t
<1>4. \A i \in DOMAIN t : i \in Nat /\ i + 1 \in DOMAIN sorted
  BY <1>3
<1>5. Ordered(t)
  <2> SUFFICES ASSUME NEW c \in runConns, NEW i \in DOMAIN t, NEW k \in DOMAIN t,
                      t[i] = c.target, t[k] = c.source
               PROVE  k < i
    BY DEF Ordered
  <2>1. sorted[i + 1] = c.target /\ sorted[k + 1] = c.source
    BY <1>3
  <2>2. k + 1 < i + 1
    BY <1>1, <1>4, <2>1 DEF Ordered
  <2> QED BY <1>4, <2>2
<1>6. ASSUME NEW c \in runConns, c.target = n
      PROVE  c.source \notin Ids(t)
  <2> SUFFICES ASSUME NEW k \in DOMAIN t, t[k] = c.source
               PROVE  FALSE
    BY DEF Ids
  <2>1. sorted[k + 1] = c.source /\ k + 1 \in DOMAIN sorted /\ k \in Nat
    BY <1>3, <1>4
  <2>2. k + 1 < 1
    BY <1>1, <1>3, <1>6, <2>1 DEF Ordered
  <2> QED BY <2>1, <2>2
<1>7. Ordered(sorted)'
  BY <1>1, <1>5 DEF Ordered
<1>8. n \notin completed \cup skipped
  BY <1>2 DEF LoopInv
<1>9. LoopInv'
  <2>1. ((completed \cup skipped) \cap Ids(sorted))' = {}
    BY <1>1, <1>2 DEF LoopInv
  <2>2. \A c \in runConns : c.target \in completed' \cup skipped' => c.source \notin Ids(t)
    BY <1>2, <1>6 DEF LoopInv
  <2> QED BY <1>1, <1>2, <1>7, <2>1, <2>2 DEF LoopInv
<1> QED BY <1>1, <1>2, <1>8, <1>9

LEMMA SkipKeeps ==
    ASSUME GraphTypeOK, LoopInv, OutcomeInv, NEW n \in Nodes, Skip(n)
    PROVE  LoopInv' /\ OutcomeInv' /\ sorted' \in Seq(Nodes)
<1>1. /\ Visiting(n) /\ Visited /\ Incoming(n) # {} /\ ~Fed(n)
      /\ skipped' = skipped \cup {n} /\ completed' = completed /\ verdict' = verdict
      /\ UNCHANGED <<runNodes, runConns>>
  BY DEF Skip, Visited, snapshot
<1>2. (completed \cup skipped)' = completed \cup skipped \cup {n}
  BY <1>1
<1>3. /\ LoopInv' /\ sorted' \in Seq(Nodes) /\ Ids(sorted') = Ids(sorted) \ {n}
      /\ n \in Ids(sorted) /\ n \notin completed \cup skipped
  BY <1>1, <1>2, VisitKeeps
<1>4. /\ Reachable' = Reachable /\ Roots' = Roots /\ (Proper' <=> Proper)
  BY <1>1, GraphIsFixed
<1>5. LiveEdges' = LiveEdges /\ \A c \in runConns : Blocked(c)' <=> Blocked(c)
  BY <1>1 DEF LiveEdges, Blocked
<1>6. (completed \cup skipped \cup Ids(sorted))' = completed \cup skipped \cup Ids(sorted)
  BY <1>1, <1>3
<1>7. \A m \in skipped' :
          Incoming(m)' # {} /\ \A c \in Incoming(m)' : c.source \in completed => Blocked(c)
  <2>1. \A m : Incoming(m)' = Incoming(m)
    BY <1>1 DEF Incoming
  <2>2. \A c \in Incoming(n) : c.source \in completed => Blocked(c)
    BY <1>1 DEF Fed
  <2> QED BY <1>1, <2>1, <2>2 DEF OutcomeInv
<1>8. \A m \in skipped' :
          Incoming(m)' # {} /\ \A c \in Incoming(m)' : c.source \in completed' => Blocked(c)'
  <2>1. \A m : Incoming(m)' \subseteq runConns
    BY <1>1 DEF Incoming
  <2> QED BY <1>1, <1>5, <1>7, <2>1
<1>9. \A S \in SUBSET Nodes :
          Roots' \subseteq S
          /\ (\A c \in LiveEdges' : c.source \in completed' \cap S => c.target \in S)
          => completed' \subseteq S
  BY <1>1, <1>4, <1>5 DEF OutcomeInv
<1>10. OutcomeInv'
  <2>1. /\ (completed \cup skipped \cup Ids(sorted) \subseteq Reachable)'
        /\ (Proper => Reachable \subseteq completed \cup skipped \cup Ids(sorted))'
    BY <1>4, <1>6 DEF OutcomeInv
  <2>2. (completed \cap skipped = {})'
    BY <1>1, <1>3 DEF OutcomeInv
  <2> QED BY <1>8, <1>9, <2>1, <2>2 DEF OutcomeInv
<1> QED BY <1>3, <1>10

LEMMA CompleteKeeps ==
    ASSUME GraphTypeOK, LoopInv, OutcomeInv, NEW n \in Nodes, Complete(n) \/ CompletePinned(n)
    PROVE  /\ LoopInv' /\ OutcomeInv' /\ sorted' \in Seq(Nodes)
           /\ completed' \subseteq Nodes /\ skipped' = skipped /\ verdict' \in [Nodes -> Verdict]
<1>1. /\ Visiting(n) /\ Visited /\ (Incoming(n) = {} \/ Fed(n))
      /\ completed' = completed \cup {n} /\ skipped' = skipped
      /\ UNCHANGED <<runNodes, runConns>>
  BY DEF Complete, CompletePinned, Runs, Visited, snapshot
<1>2. /\ verdict' \in [Nodes -> Verdict]
      /\ \A m \in Nodes : m # n => verdict'[m] = verdict[m]
  BY DEF Complete, CompletePinned, GraphTypeOK, Verdict
<1>3. (completed \cup skipped)' = completed \cup skipped \cup {n}
  BY <1>1
<1>4. /\ LoopInv' /\ sorted' \in Seq(Nodes) /\ Ids(sorted') = Ids(sorted) \ {n}
      /\ n \in Ids(sorted) /\ n \notin completed \cup skipped
  BY <1>1, <1>3, VisitKeeps
<1>5. /\ Reachable' = Reachable /\ Roots' = Roots /\ (Proper' <=> Proper)
  BY <1>1, GraphIsFixed
<1>6. \A c \in runConns : c.source # n => (Blocked(c)' <=> Blocked(c))
  BY <1>2, EndsOf DEF Blocked
<1>7. (completed \cup skipped \cup Ids(sorted))' = completed \cup skipped \cup Ids(sorted)
  BY <1>1, <1>4
<1>8. ASSUME NEW m \in skipped
      PROVE  /\ Incoming(m)' # {}
             /\ \A c \in Incoming(m)' : c.source \in completed' => Blocked(c)'
  <2>1. Incoming(m)' = Incoming(m) /\ Incoming(m) \subseteq runConns
    BY <1>1 DEF Incoming
  <2>2. Incoming(m) # {} /\ \A c \in Incoming(m) : c.source \in completed => Blocked(c)
    BY DEF OutcomeInv
  <2>3. \A c \in Incoming(m) : c.source # n
    BY <1>4 DEF LoopInv, Incoming
  <2> QED BY <1>1, <1>6, <2>1, <2>2, <2>3
<1>9. ASSUME NEW S \in SUBSET Nodes, Roots \subseteq S,
             \A c \in LiveEdges' : c.source \in completed' \cap S => c.target \in S
      PROVE  completed' \subseteq S
  <2>1. \A c \in LiveEdges : c.source \in completed \cap S => c.target \in S
    <3> SUFFICES ASSUME NEW c \in LiveEdges, c.source \in completed \cap S
                 PROVE  c.target \in S
      OBVIOUS
    <3>1. c \in runConns /\ ~Blocked(c) /\ c.source # n
      BY <1>4 DEF LiveEdges
    <3>2. c \in LiveEdges'
      BY <1>1, <1>6, <3>1 DEF LiveEdges
    <3> QED BY <1>1, <1>9, <3>2
  <2>2. completed \subseteq S
    BY <1>9, <2>1 DEF OutcomeInv
  <2>3. n \in S
    <3>1. CASE Incoming(n) = {}
      <4>1. n \in Reachable
        BY <1>4 DEF OutcomeInv
      <4> QED BY <1>9, <3>1, <4>1 DEF Roots
    <3>2. CASE Fed(n)
      <4>1. PICK c \in Incoming(n) : c.source \in completed /\ ~Blocked(c)
        BY <3>2 DEF Fed
      <4>2. c \in LiveEdges /\ c.target = n
        BY <4>1 DEF LiveEdges, Incoming
      <4> QED BY <2>1, <2>2, <4>1, <4>2
    <3> QED BY <1>1, <3>1, <3>2
  <2> QED BY <1>1, <2>2, <2>3
<1>10. OutcomeInv'
  <2>1. /\ (completed \cup skipped \cup Ids(sorted) \subseteq Reachable)'
        /\ (Proper => Reachable \subseteq completed \cup skipped \cup Ids(sorted))'
    BY <1>5, <1>7 DEF OutcomeInv
  <2>2. (completed \cap skipped = {})'
    BY <1>1, <1>4 DEF OutcomeInv
  <2> QED BY <1>1, <1>5, <1>8, <1>9, <2>1, <2>2 DEF OutcomeInv
<1>11. completed' \subseteq Nodes
  BY <1>1 DEF GraphTypeOK
<1> QED BY <1>1, <1>2, <1>4, <1>10, <1>11

LEMMA GraphStarts ==
    ASSUME GraphInit
    PROVE  GraphInv
<1>1. pc = "idle" /\ sorted = <<>> /\ completed = {} /\ skipped = {}
  BY DEF GraphInit
<1>2. conns \subseteq Connection
  BY DEF GraphInit, Graphs
<1>3. 0 \in 0 .. MaxEdits
  BY GraphAssumption DEF GraphAssumption
<1>4. GraphTypeOK
  BY <1>2, <1>3 DEF GraphInit, GraphTypeOK, Verdict
<1> QED BY <1>1, <1>4 DEF GraphInv

\* Before the run has read the connections.
LEMMA EditKeeps ==
    ASSUME GraphInv,
           \/ \E n \in Nodes : CreateNode(n) \/ DeleteNode(n) \/ UpdateNode(n)
           \/ \E c \in Connection : CreateConnection(c) \/ DeleteConnection(c)
    PROVE  GraphInv'
<1>1. /\ pc \in {"idle", "nodes"} /\ UNCHANGED <<pc, runNodes, runConns, inDegree, queue>>
      /\ UNCHANGED <<sorted, completed, skipped, verdict>>
  BY DEF CreateNode, DeleteNode, UpdateNode, CreateConnection, DeleteConnection, Edit,
         snapshot, sort, results
<1>2. stored' \in [Nodes -> {"new", "stored", "deleted"}] /\ conns' \subseteq Connection
  BY DEF CreateNode, DeleteNode, UpdateNode, CreateConnection, DeleteConnection,
         GraphInv, GraphTypeOK
<1>3. edits' \in 0 .. MaxEdits
  <2>1. edits \in 0 .. MaxEdits /\ MaxEdits \in Nat
    BY GraphAssumption DEF GraphAssumption, GraphInv, GraphTypeOK
  <2>2. edits' = edits \/ (edits < MaxEdits /\ edits' = edits + 1)
    BY DEF CreateNode, DeleteNode, UpdateNode, CreateConnection, DeleteConnection, Edit
  <2> QED BY <2>1, <2>2
<1>4. GraphTypeOK'
  BY <1>1, <1>2, <1>3 DEF GraphInv, GraphTypeOK
<1> QED BY <1>1, <1>4 DEF GraphInv

\* The end of the loop.
LEMMA LoopStops ==
    ASSUME GraphInv, pc = "loop", NEW p \in {"missing", "failed", "completed"}, pc' = p,
           p = "completed" => sorted = <<>>,
           UNCHANGED <<graph, snapshot, sort, sorted, results>>
    PROVE  GraphInv'
<1>1. /\ UNCHANGED <<stored, conns, edits, runNodes, runConns, inDegree, queue>>
      /\ UNCHANGED <<sorted, completed, skipped, verdict>>
  BY DEF graph, snapshot, sort, results
<1>2. GraphTypeOK'
  BY <1>1 DEF GraphInv, GraphTypeOK
<1>3. LoopInv'
  BY <1>1 DEF GraphInv, LoopInv, Ordered
<1>4. OutcomeInv'
  <2>1. /\ Reachable' = Reachable /\ Roots' = Roots /\ (Proper' <=> Proper)
    BY <1>1, GraphIsFixed
  <2>2. /\ LiveEdges' = LiveEdges /\ \A c : Blocked(c)' <=> Blocked(c)
        /\ \A m : Incoming(m)' = Incoming(m)
    BY <1>1 DEF LiveEdges, Blocked, Incoming
  <2>3. OutcomeInv
    BY DEF GraphInv
  <2> QED BY <1>1, <2>1, <2>2, <2>3 DEF OutcomeInv
<1>5. Balanced'
  BY <1>1, GraphIsFixed DEF GraphInv
<1> QED BY <1>1, <1>2, <1>3, <1>4, <1>5 DEF GraphInv

LEMMA GraphStep ==
    ASSUME GraphInv, [GraphNext]_graphVars
    PROVE  GraphInv'
<1> USE DEF GraphInv
<1>1. CASE \/ \E n \in Nodes : CreateNode(n) \/ DeleteNode(n) \/ UpdateNode(n)
           \/ \E c \in Connection : CreateConnection(c) \/ DeleteConnection(c)
  BY <1>1, EditKeeps
<1>2. CASE ReadNodes
  <2>1. /\ pc = "idle" /\ pc' = "nodes" /\ runNodes' = Existing
        /\ UNCHANGED <<stored, conns, edits, runConns, inDegree, queue>>
        /\ UNCHANGED <<sorted, completed, skipped, verdict>>
    BY <1>2 DEF ReadNodes, graph, sort, results
  <2>2. GraphTypeOK'
    BY <2>1 DEF GraphTypeOK, Existing
  <2> QED BY <2>1, <2>2
<1>3. CASE ReadConns
  <2>1. /\ pc = "nodes" /\ pc' = "sort" /\ runConns' = conns
        /\ UNCHANGED <<stored, conns, edits, runNodes, sorted, completed, skipped, verdict>>
    BY <1>3 DEF ReadConns, graph, results
  <2>2. SortInv' /\ queue' \in Seq(Nodes) /\ inDegree' \in [Nodes -> Nat]
    BY <1>3, <2>1, SortBegins
  <2>3. GraphTypeOK'
    BY <2>1, <2>2 DEF GraphTypeOK
  <2> QED BY <2>1, <2>2, <2>3
<1>4. CASE Pop
  <2>1. /\ pc = "sort" /\ pc' = "sort"
        /\ UNCHANGED <<stored, conns, edits, runNodes, runConns, completed, skipped, verdict>>
    BY <1>4 DEF Pop, graph, snapshot, results
  <2>2. /\ SortInv' /\ queue' \in Seq(Nodes) /\ sorted' \in Seq(Nodes)
        /\ inDegree' \in [Nodes -> Nat]
    BY <1>4, <2>1, PopKeeps
  <2>3. GraphTypeOK'
    BY <2>1, <2>2 DEF GraphTypeOK
  <2> QED BY <2>1, <2>2, <2>3
<1>5. CASE SortEnds
  <2>1. /\ pc = "sort" /\ UNCHANGED <<stored, conns, edits, runNodes, runConns>>
        /\ UNCHANGED <<inDegree, queue, completed, skipped, verdict>>
    BY <1>5 DEF SortEnds, graph, snapshot, sort, results
  <2>2. /\ sorted' \in Seq(Nodes) /\ pc' \in {"cycle", "loop"}
        /\ pc' = "cycle" => ~Balanced'
        /\ pc' = "loop" => LoopInv' /\ OutcomeInv' /\ Balanced'
    BY <1>5, <2>1, SortEndsKeeps
  <2>3. GraphTypeOK'
    BY <2>1, <2>2 DEF GraphTypeOK
  <2> QED BY <2>1, <2>2, <2>3
<1>6. ASSUME NEW n \in Nodes, Missing(n) \/ NodeFails(n)
      PROVE  GraphInv'
  <2>1. /\ pc = "loop" /\ pc' \in {"missing", "failed"}
        /\ UNCHANGED <<graph, snapshot, sort, sorted, results>>
    BY <1>6 DEF Missing, NodeFails, Runs, Visiting
  <2> QED BY <2>1, LoopStops
<1>7. ASSUME NEW n \in Nodes, Skip(n)
      PROVE  GraphInv'
  <2>1. /\ pc = "loop" /\ pc' = "loop" /\ UNCHANGED <<stored, conns, edits, runNodes, runConns>>
        /\ UNCHANGED <<inDegree, queue, completed, verdict>> /\ skipped' = skipped \cup {n}
    BY <1>7 DEF Skip, Visiting, Visited, graph, snapshot, sort
  <2>2. LoopInv' /\ OutcomeInv' /\ sorted' \in Seq(Nodes)
    BY <1>7, <2>1, SkipKeeps
  <2>3. Balanced'
    BY <2>1, GraphIsFixed
  <2>4. GraphTypeOK'
    BY <2>1, <2>2 DEF GraphTypeOK
  <2> QED BY <2>1, <2>2, <2>3, <2>4
<1>8. ASSUME NEW n \in Nodes, Complete(n) \/ CompletePinned(n)
      PROVE  GraphInv'
  <2>1. /\ pc = "loop" /\ pc' = "loop" /\ UNCHANGED <<stored, conns, edits, runNodes, runConns>>
        /\ UNCHANGED <<inDegree, queue>>
    BY <1>8 DEF Complete, CompletePinned, Runs, Visiting, Visited, graph, snapshot, sort
  <2>2. /\ LoopInv' /\ OutcomeInv' /\ sorted' \in Seq(Nodes)
        /\ completed' \subseteq Nodes /\ skipped' = skipped /\ verdict' \in [Nodes -> Verdict]
    BY <1>8, <2>1, CompleteKeeps
  <2>3. Balanced'
    BY <2>1, GraphIsFixed
  <2>4. GraphTypeOK'
    BY <2>1, <2>2 DEF GraphTypeOK
  <2> QED BY <2>1, <2>2, <2>3, <2>4
<1>9. CASE RunCompletes
  <2>1. /\ pc = "loop" /\ sorted = <<>> /\ pc' = "completed"
        /\ UNCHANGED <<graph, snapshot, sort, sorted, results>>
    BY <1>9 DEF RunCompletes
  <2> QED BY <2>1, LoopStops
<1>10. CASE UNCHANGED graphVars
  <2>1. /\ UNCHANGED <<stored, conns, edits, pc, runNodes, runConns, inDegree, queue>>
        /\ UNCHANGED <<sorted, completed, skipped, verdict>>
    BY <1>10 DEF graphVars, graph, snapshot, sort, results
  <2>2. GraphTypeOK'
    BY <2>1 DEF GraphTypeOK
  <2>3. /\ Reachable' = Reachable /\ Roots' = Roots /\ (Proper' <=> Proper)
        /\ KnownIds' = KnownIds /\ Starved' = Starved /\ (Balanced' <=> Balanced)
    BY <2>1, GraphIsFixed
  <2>4. /\ LiveEdges' = LiveEdges /\ \A c : Blocked(c)' <=> Blocked(c)
        /\ \A m : Incoming(m)' = Incoming(m)
    BY <2>1 DEF LiveEdges, Blocked, Incoming
  <2>5. SortInv => SortInv'
    <3>1. \A m : Left(m)' = Left(m)
      BY <2>1, <2>4 DEF Left
    <3>2. Ordered(sorted)' <=> Ordered(sorted)
      BY <2>1 DEF Ordered
    <3> QED BY <2>1, <2>3, <3>1, <3>2 DEF SortInv
  <2>6. LoopInv => LoopInv'
    BY <2>1 DEF LoopInv, Ordered
  <2>7. OutcomeInv => OutcomeInv'
    BY <2>1, <2>3, <2>4 DEF OutcomeInv
  <2> QED BY <2>1, <2>2, <2>3, <2>5, <2>6, <2>7
<1> QED BY <1>1, <1>2, <1>3, <1>4, <1>5, <1>6, <1>7, <1>8, <1>9, <1>10 DEF GraphNext

----------------------------------------------------------------------------
(* The theorems.                                                           *)

\* The types, what topological_sort knows while it works, and what the node loop
\* has settled: inductive together.
THEOREM GraphInvHolds == GraphSpec => []GraphInv
<1>1. GraphInit => GraphInv
  BY GraphStarts
<1>2. GraphInv /\ [GraphNext]_graphVars => GraphInv'
  BY GraphStep
<1> QED BY <1>1, <1>2, PTL DEF GraphSpec

\* Every variable of the graph and its run holds values of its type.
THEOREM GraphTypes == GraphSpec => []GraphTypeOK
<1>1. GraphInv => GraphTypeOK
  BY DEF GraphInv
<1> QED BY <1>1, GraphInvHolds, PTL

\* topological_sort refuses a graph exactly when the ids that are fed, targets
\* without a node included, are not as many as the nodes, whatever edges there are.
THEOREM SortRefusesTheUnbalanced == GraphSpec => []SortCountsNodes
<1>1. GraphInv => SortCountsNodes
  BY DEF GraphInv, SortCountsNodes, Balanced
<1> QED BY <1>1, GraphInvHolds, PTL

\* A node is visited only when nobody that feeds it is still to be visited, for any
\* graph, also one with edges from and to nodes that are gone.
THEOREM UpstreamGoesFirst == GraphSpec => []UpstreamFirst
<1>1. GraphInv => UpstreamFirst
  <2> SUFFICES ASSUME GraphInv, pc \in {"loop", "completed"}, NEW c \in runConns,
                      c.target \in completed \cup skipped, NEW i \in DOMAIN sorted
               PROVE  sorted[i] # c.source
    BY DEF UpstreamFirst
  <2>1. c.source \notin Ids(sorted)
    BY DEF GraphInv, LoopInv
  <2> QED BY <2>1 DEF Ids
<1> QED BY <1>1, GraphInvHolds, PTL

\* In a graph whose edges join nodes, a completed run has completed what the
\* ignition feeds along the branches its conditions took, and skipped the rest of
\* what is reachable, for any graph, verdicts and order of the sort.
THEOREM OutcomesAreAsDefined == GraphSpec => []OutcomeIsAsDefined
<1>1. GraphInv => OutcomeIsAsDefined
  <2> SUFFICES ASSUME GraphInv, Proper, pc = "completed"
               PROVE  completed = FedFromIgnition /\ skipped = Reachable \ completed
    BY DEF OutcomeIsAsDefined
  <2>1. LoopInv /\ OutcomeInv /\ sorted = <<>> /\ GraphTypeOK
    BY DEF GraphInv
  <2>2. Ids(sorted) = {}
    BY <2>1 DEF Ids
  <2>3. completed \cup skipped = Reachable /\ completed \subseteq Nodes
    BY <2>1, <2>2 DEF OutcomeInv, GraphTypeOK
  <2>4. \A n \in skipped :
            Incoming(n) # {} /\ \A c \in Incoming(n) : c.source \in completed => Blocked(c)
    BY <2>1 DEF OutcomeInv
  <2>5. completed \cap skipped = {}
    BY <2>1 DEF OutcomeInv
  <2>6. completed \subseteq FedFromIgnition
    <3> SUFFICES ASSUME NEW S \in SUBSET Nodes, Roots \subseteq S,
                        Closed(S, {c \in LiveEdges : c.source \in Reachable})
                 PROVE  completed \subseteq S
      BY <2>3 DEF FedFromIgnition, Roots
    <3>1. \A c \in LiveEdges : c.source \in completed \cap S => c.target \in S
      BY <2>3 DEF Closed
    <3> QED BY <2>1, <3>1 DEF OutcomeInv
  <2>7. FedFromIgnition \subseteq completed
    <3>1. Roots \subseteq completed
      BY <2>3, <2>4 DEF Roots
    <3>2. Closed(completed, {c \in LiveEdges : c.source \in Reachable})
      <4> SUFFICES ASSUME NEW c \in LiveEdges, c.source \in completed
                   PROVE  c.target \in completed
        BY DEF Closed
      <4>1. c \in runConns /\ ~Blocked(c)
        BY DEF LiveEdges
      <4>2. c.target \in Reachable
        BY <2>1, <2>3, <4>1, ReachableAreNodes
      <4> QED BY <2>3, <2>4, <4>1, <4>2 DEF Incoming
    <3> QED BY <2>3, <3>1, <3>2 DEF FedFromIgnition, Roots
  <2> QED BY <2>3, <2>5, <2>6, <2>7
<1> QED BY <1>1, GraphInvHolds, PTL
===============================================================================
