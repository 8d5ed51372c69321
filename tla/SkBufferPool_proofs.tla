------------------------- MODULE SkBufferPool_proofs -------------------------
(***************************************************************************)
(* Proofs about the operators of SkBufferPool, for every configuration of  *)
(* size classes: a pool that is sound for the buffers in use stays sound   *)
(* when a buffer is allocated and when one is given back, and a buffer has *)
(* the capacity that was asked for.                                        *)
(***************************************************************************)
EXTENDS SkBufferPool, SequenceTheorems, FiniteSetTheorems, TLAPS

Buffer == [node : Int, head : Int, tail : Int]

InLists(lists) == UNION {{lists[c][i] : i \in DOMAIN lists[c]} : c \in Class}
Listed(P) == InLists(P.freeList)
Owned(buffers) == {buffers[i].node : i \in DOMAIN buffers}

\* A node holds bytes; a node of a class has the capacity of its class.
IsNode(x) == /\ x = [classIdx |-> x.classIdx, bytes |-> x.bytes]
             /\ x.bytes \in Seq(Nat)
             /\ x.classIdx \in Class \cup {Oversize}
             /\ x.classIdx # Oversize => Len(x.bytes) = Classes[x.classIdx].capacity

\* What the operators keep besides soundness: the shape of a pool and of its
\* nodes, and no node has a number that has yet to be given out.
IsPool(P) ==
    /\ P = [freeList |-> P.freeList, node |-> P.node, last |-> P.last, mBuffers |-> P.mBuffers]
    /\ P.freeList \in [Class -> Seq(Nat)]
    /\ P.last \in Nat
    /\ P.mBuffers \in Nat
    /\ DOMAIN P.node \subseteq 1 .. P.last
    /\ P.node = [k \in DOMAIN P.node |-> P.node[k]]
    /\ \A k \in DOMAIN P.node : IsNode(P.node[k])

\* Every free list is sound for its class.
ListSound(P, c) ==
    /\ \A i \in DOMAIN P.freeList[c] : P.node[P.freeList[c][i]].classIdx = c
    /\ \A i, j \in DOMAIN P.freeList[c] : P.freeList[c][i] = P.freeList[c][j] => i = j

\* What AddNodes, Handle and Allocate promise of what they return.
Added(Q, P, n, new) ==
    /\ IsPool(Q)
    /\ Q.freeList = P.freeList /\ Q.mBuffers = P.mBuffers /\ Q.last = P.last + n
    /\ DOMAIN Q.node = DOMAIN P.node \cup (P.last + 1 .. P.last + n)
    /\ \A k \in DOMAIN P.node : Q.node[k] = P.node[k]
    /\ \A k \in P.last + 1 .. P.last + n : Q.node[k] = new
Handled(x, P, k) ==
    /\ IsPool(x.pool)
    /\ x.pool.freeList = P.freeList /\ x.pool.node = P.node
    /\ x.pool.mBuffers = P.mBuffers + 1
    /\ x.buffer \in Buffer /\ x.buffer.node = k
Allocated(x, P, buffers, capacity) ==
    /\ IsPool(x.pool) /\ x.buffer \in Buffer
    /\ x.buffer.node \in DOMAIN x.pool.node \ Owned(buffers)
    /\ Len(x.pool.node[x.buffer.node].bytes) >= capacity
    /\ \A j \in DOMAIN P.node : x.pool.node[j] = P.node[j]
    /\ Sound(x.pool, Append(buffers, x.buffer))

-----------------------------------------------------------------------------
LEMMA SoundParts ==
    ASSUME NEW P, NEW buffers
    PROVE Sound(P, buffers) <=>
            /\ P.mBuffers = Len(buffers) /\ Cardinality(Owned(buffers)) = Len(buffers)
            /\ Owned(buffers) \cap Listed(P) = {}
            /\ Owned(buffers) \cup Listed(P) = DOMAIN P.node
            /\ \A c \in Class : ListSound(P, c)
BY DEF Sound, Owned, Listed, InLists, ListSound

LEMMA ClassFacts ==
    ASSUME NEW c \in Class
    PROVE /\ c \in Nat \ {0} /\ c # Oversize
          /\ Classes[c].capacity \in Nat \ {0} /\ Classes[c].blocksPerSlab \in Nat \ {0}
<1>1. Classes \in Seq([capacity : Nat \ {0}, blocksPerSlab : Nat \ {0}]) BY ClassesAssumption
<1>2. Classes[c] \in [capacity : Nat \ {0}, blocksPerSlab : Nat \ {0}]
  BY <1>1, ElementOfSeq, Zenon DEF Class
<1>3. Len(Classes) \in Nat BY <1>1
<1> QED BY <1>2, <1>3 DEF Class, Oversize

\* A class that is found fits.
LEMMA ClassForFits ==
    ASSUME NEW n \in Nat, ClassFor(n) # Oversize
    PROVE ClassFor(n) \in Class /\ Classes[ClassFor(n)].capacity >= n
BY DEF ClassFor, FirstFit

LEMMA ClassForType == \A n \in Nat : ClassFor(n) \in Class \cup {Oversize}
BY DEF ClassFor

LEMMA OwnedFinite ==
    ASSUME NEW P, NEW buffers, IsPool(P), Sound(P, buffers)
    PROVE IsFiniteSet(Owned(buffers))
<1>1. Owned(buffers) \subseteq 1 .. P.last BY SoundParts DEF IsPool
<1>2. IsFiniteSet(1 .. P.last)
  <2>1. P.last \in Int BY DEF IsPool
  <2> QED BY <2>1, FS_Interval
<1> QED BY <1>1, <1>2, FS_Subset

-----------------------------------------------------------------------------
\* A new pool is sound: it has no nodes and no buffers.
THEOREM NewPoolSound == IsPool(NewPool) /\ Sound(NewPool, << >>)
<1>1. PICK P : P = NewPool OBVIOUS
<1>2. P = [freeList |-> [c \in Class |-> << >>], node |-> << >>, last |-> 0, mBuffers |-> 0]
  BY <1>1 DEF NewPool
<1>3. /\ P.freeList = [c \in Class |-> << >>] /\ P.node = << >> /\ P.last = 0
      /\ P.mBuffers = 0
  BY <1>2
<1>4. DOMAIN P.node = {} /\ P.node = [k \in DOMAIN P.node |-> P.node[k]] BY <1>3
<1>5. P.freeList \in [Class -> Seq(Nat)] /\ \A c \in Class : DOMAIN P.freeList[c] = {}
  BY <1>3
<1>6. IsPool(P) BY <1>2, <1>3, <1>4, <1>5 DEF IsPool
<1>7. Owned(<< >>) = {} /\ Listed(P) = {} BY <1>5 DEF Owned, Listed, InLists
<1>8. Cardinality({}) = 0 /\ Len(<< >>) = 0 BY FS_EmptySet
<1>9. \A c \in Class : ListSound(P, c) BY <1>5 DEF ListSound
<1> QED BY <1>1, <1>3, <1>4, <1>6, <1>7, <1>8, <1>9, SoundParts

LEMMA NewNodeFacts ==
    ASSUME NEW c, NEW size \in Nat, NEW x, x = NewNode(c, size)
    PROVE /\ x = [classIdx |-> x.classIdx, bytes |-> x.bytes]
          /\ x.classIdx = c /\ Len(x.bytes) = size /\ x.bytes \in Seq(Nat)
<1>1. PICK b : b = [i \in 1 .. size |-> Blank] OBVIOUS
<1>2. b \in Seq(Nat) /\ Len(b) = size BY <1>1 DEF Blank
<1>3. x = [classIdx |-> c, bytes |-> b] BY <1>1 DEF NewNode
<1>4. x.classIdx = c /\ x.bytes = b BY <1>3
<1> QED BY <1>2, <1>3, <1>4

\* New nodes have numbers no node had.
LEMMA AddNodesFacts ==
    ASSUME NEW P, IsPool(P), NEW n \in Nat, NEW new, IsNode(new), NEW Q, Q = AddNodes(P, n, new)
    PROVE Added(Q, P, n, new)
<1> DEFINE node == [k \in DOMAIN P.node \cup (P.last + 1 .. P.last + n) |->
                       IF k > P.last THEN new ELSE P.node[k]]
<1>1. Q = [freeList |-> P.freeList, node |-> node, last |-> P.last + n, mBuffers |-> P.mBuffers]
  <2>1. P = [freeList |-> P.freeList, node |-> P.node, last |-> P.last, mBuffers |-> P.mBuffers]
    BY DEF IsPool
  <2>2. DOMAIN P = {"freeList", "node", "last", "mBuffers"} BY <2>1
  <2>3. Q = [P EXCEPT !.node = node, !.last = @ + n] BY DEF AddNodes
  <2> HIDE DEF node
  <2> QED BY <2>1, <2>2, <2>3
<1>2. /\ Q.freeList = P.freeList /\ Q.mBuffers = P.mBuffers /\ Q.last = P.last + n
      /\ Q.node = node
  BY <1>1
<1>3. P.last \in Nat /\ \A k \in DOMAIN P.node : k \in 1 .. P.last /\ ~ (k > P.last)
  BY DEF IsPool
<1>4. \A k \in P.last + 1 .. P.last + n : k > P.last BY <1>3
<1>5. /\ DOMAIN node = DOMAIN P.node \cup (P.last + 1 .. P.last + n)
      /\ \A k \in DOMAIN P.node : node[k] = P.node[k]
      /\ \A k \in P.last + 1 .. P.last + n : node[k] = new
  BY <1>3, <1>4
<1>6. IsPool(Q)
  <2>1. Q = [freeList |-> Q.freeList, node |-> Q.node, last |-> Q.last, mBuffers |-> Q.mBuffers]
    BY <1>1
  <2>2. Q.node = [k \in DOMAIN Q.node |-> Q.node[k]] BY <1>2
  <2>3. DOMAIN Q.node \subseteq 1 .. Q.last BY <1>2, <1>3, <1>5
  <2>4. ASSUME NEW k \in DOMAIN Q.node PROVE IsNode(Q.node[k])
    <3>1. CASE k \in DOMAIN P.node
      <4>1. Q.node[k] = P.node[k] BY <3>1, <1>2, <1>5
      <4>2. IsNode(P.node[k]) BY <3>1 DEF IsPool
      <4> QED BY <4>1, <4>2
    <3>2. CASE k \in P.last + 1 .. P.last + n
      <4>1. Q.node[k] = new BY <3>2, <1>2, <1>5
      <4> QED BY <4>1
    <3> QED BY <3>1, <3>2, <1>2, <1>5
  <2>5. Q.freeList \in [Class -> Seq(Nat)] /\ Q.last \in Nat /\ Q.mBuffers \in Nat
    BY <1>2, <1>3 DEF IsPool
  <2> QED BY <2>1, <2>2, <2>3, <2>4, <2>5 DEF IsPool
<1> QED BY <1>2, <1>5, <1>6 DEF Added

\* A slab for a class that has run out: its nodes are free, and only they are new.
LEMMA RefillSound ==
    ASSUME NEW P, NEW buffers, NEW c \in Class, IsPool(P), Sound(P, buffers),
           P.freeList[c] = << >>, NEW Q, Q = Refill(P, c)
    PROVE /\ IsPool(Q) /\ Sound(Q, buffers)
          /\ Q.freeList[c] # << >>
          /\ \A k \in DOMAIN P.node : Q.node[k] = P.node[k]
<1> DEFINE n == Classes[c].blocksPerSlab
           size == Classes[c].capacity
           A == AddNodes(P, n, NewNode(c, size))
           list == [i \in 1 .. n |-> P.last + n + 1 - i]
<1>1. n \in Nat /\ n > 0 /\ size \in Nat /\ P.last \in Nat BY ClassFacts DEF IsPool
<1>2. /\ IsPool(A)
      /\ A.freeList = P.freeList /\ A.mBuffers = P.mBuffers /\ A.last = P.last + n
      /\ DOMAIN A.node = DOMAIN P.node \cup (P.last + 1 .. P.last + n)
      /\ \A k \in DOMAIN P.node : A.node[k] = P.node[k]
      /\ \A k \in P.last + 1 .. P.last + n : A.node[k] = NewNode(c, size)
  <2>1. IsNode(NewNode(c, size))
    <3>1. PICK cap, new : cap = size /\ new = NewNode(c, cap) OBVIOUS
    <3>2. cap \in Nat /\ cap = Classes[c].capacity BY <1>1, <3>1
    <3> HIDE DEF n, size, A
    <3>3. IsNode(new) BY <3>1, <3>2, NewNodeFacts DEF IsNode
    <3> QED BY <3>1, <3>3
  <2>2. A = AddNodes(P, n, NewNode(c, size)) OBVIOUS
  <2> HIDE DEF n, size, A
  <2>3. PICK new, B, num : new = NewNode(c, size) /\ B = A /\ num = n OBVIOUS
  <2>4. IsNode(new) /\ num \in Nat /\ B = AddNodes(P, num, new) BY <1>1, <2>1, <2>2, <2>3
  <2>5. Added(B, P, num, new) BY <2>4, AddNodesFacts, SMT
  <2>6. Added(A, P, n, NewNode(c, size)) BY <2>3, <2>5
  <2> QED BY <2>6 DEF Added
<1>3. /\ list \in Seq(Nat) /\ DOMAIN list = 1 .. n /\ list # << >> /\ list \o << >> = list
      /\ \A i \in 1 .. n : list[i] = P.last + n + 1 - i
      /\ \A i \in 1 .. n : list[i] \in P.last + 1 .. P.last + n
  <2>1. \A i \in 1 .. n : P.last + n + 1 - i \in Nat BY <1>1
  <2>2. list \in [1 .. n -> Nat] BY <2>1
  <2>3. list \in Seq(Nat) /\ Len(list) = n
    <3> HIDE DEF list, n
    <3> QED BY <1>1, <2>2, SeqDef, LenProperties
  <2>4. \A i \in 1 .. n : list[i] = P.last + n + 1 - i OBVIOUS
  <2>5. \A i \in 1 .. n : P.last + n + 1 - i \in P.last + 1 .. P.last + n BY <1>1
  <2>6. DOMAIN list = 1 .. n OBVIOUS
  <2> HIDE DEF list
  <2> QED BY <2>3, <2>4, <2>5, <2>6, <1>1
<1>4. Q = [A EXCEPT !.freeList[c] = list \o @] BY DEF Refill
<1>5. A = [freeList |-> A.freeList, node |-> A.node, last |-> A.last, mBuffers |-> A.mBuffers]
  BY <1>2 DEF IsPool
<1> HIDE DEF n, size, A, list
<1>6. Q = [freeList |-> [P.freeList EXCEPT ![c] = list], node |-> A.node, last |-> A.last,
           mBuffers |-> P.mBuffers]
  <2>1. PICK B, l : B = A /\ l = list OBVIOUS
  <2>2. DOMAIN B = {"freeList", "node", "last", "mBuffers"} BY <1>5, <2>1
  <2>3. l \o B.freeList[c] = l BY <1>2, <1>3, <2>1
  <2>4. Q = [B EXCEPT !.freeList[c] = l \o @] BY <1>4, <2>1
  <2>5. Q = [freeList |-> [B.freeList EXCEPT ![c] = l], node |-> B.node, last |-> B.last,
             mBuffers |-> B.mBuffers]
    BY <1>5, <2>1, <2>2, <2>3, <2>4
  <2> QED BY <1>2, <2>1, <2>5
<1>7. /\ Q.freeList = [P.freeList EXCEPT ![c] = list] /\ Q.node = A.node
      /\ Q.last = A.last /\ Q.mBuffers = P.mBuffers
  BY <1>6
<1>8. P.freeList \in [Class -> Seq(Nat)] BY DEF IsPool
<1>9. /\ Q.freeList[c] = list
      /\ \A d \in Class : d # c => Q.freeList[d] = P.freeList[d]
      /\ Q.freeList \in [Class -> Seq(Nat)]
  BY <1>3, <1>7, <1>8
<1>10. IsPool(Q) BY <1>2, <1>6, <1>7, <1>9 DEF IsPool
<1>11. Listed(Q) = Listed(P) \cup (P.last + 1 .. P.last + n)
  <2>1. ASSUME NEW k \in Listed(Q) PROVE k \in Listed(P) \cup (P.last + 1 .. P.last + n)
    <3>1. PICK d \in Class : \E i \in DOMAIN Q.freeList[d] : k = Q.freeList[d][i] BY DEF Listed, InLists
    <3>2. CASE d = c BY <3>1, <3>2, <1>3, <1>9
    <3>3. CASE d # c
      <4>1. Q.freeList[d] = P.freeList[d] BY <3>3, <1>9
      <4> QED BY <3>1, <4>1 DEF Listed, InLists
    <3> QED BY <3>2, <3>3
  <2>2. ASSUME NEW k \in Listed(P) PROVE k \in Listed(Q)
    <3>1. PICK d \in Class : \E i \in DOMAIN P.freeList[d] : k = P.freeList[d][i] BY DEF Listed, InLists
    <3>2. d # c BY <3>1
    <3> QED BY <3>1, <3>2, <1>9 DEF Listed, InLists
  <2>3. ASSUME NEW k \in P.last + 1 .. P.last + n PROVE k \in Listed(Q)
    <3>1. P.last + n + 1 - k \in 1 .. n /\ P.last + n + 1 - (P.last + n + 1 - k) = k BY <1>1
    <3>2. list[P.last + n + 1 - k] = k BY <3>1, <1>3
    <3>3. \E i \in DOMAIN Q.freeList[c] : Q.freeList[c][i] = k BY <3>1, <3>2, <1>3, <1>9
    <3> QED BY <3>3 DEF Listed, InLists
  <2> QED BY <2>1, <2>2, <2>3
<1>12. /\ P.mBuffers = Len(buffers) /\ Cardinality(Owned(buffers)) = Len(buffers)
       /\ Owned(buffers) \cap Listed(P) = {}
       /\ Owned(buffers) \cup Listed(P) = DOMAIN P.node
       /\ \A d \in Class : ListSound(P, d)
  BY SoundParts
<1>13. \A k \in Owned(buffers) : k \notin P.last + 1 .. P.last + n BY <1>1, <1>12 DEF IsPool
<1>14. \A d \in Class : ListSound(Q, d)
  <2>1. ListSound(Q, c)
    <3>1. \A i \in 1 .. n : Q.node[list[i]].classIdx = c BY <1>2, <1>3, <1>7 DEF NewNode
    <3>2. \A i, j \in 1 .. n : list[i] = list[j] => i = j
      <4>1. \A i, j \in 1 .. n : P.last + n + 1 - i = P.last + n + 1 - j => i = j BY <1>1
      <4> QED BY <4>1, <1>3
    <3> QED BY <3>1, <3>2, <1>3, <1>9 DEF ListSound
  <2>2. ASSUME NEW d \in Class, d # c PROVE ListSound(Q, d)
    <3>1. \A i \in DOMAIN P.freeList[d] : P.freeList[d][i] \in DOMAIN P.node
      BY <1>12 DEF Listed, InLists
    <3>2. Q.freeList[d] = P.freeList[d] BY <2>2, <1>9
    <3>3. ListSound(P, d) BY <1>12
    <3> QED BY <3>1, <3>2, <3>3, <1>2, <1>7 DEF ListSound
  <2> QED BY <2>1, <2>2
<1>15. Sound(Q, buffers)
  <2>1. Owned(buffers) \cap Listed(Q) = {} BY <1>11, <1>12, <1>13
  <2>2. Owned(buffers) \cup Listed(Q) = DOMAIN Q.node BY <1>2, <1>7, <1>11, <1>12
  <2> QED BY <2>1, <2>2, <1>7, <1>12, <1>14, SoundParts
<1> QED BY <1>2, <1>3, <1>7, <1>9, <1>10, <1>15

\* One buffer more, with a node that was in none.
LEMMA OwnedGrows ==
    ASSUME NEW P, NEW buffers \in Seq(Buffer), NEW b \in Buffer, IsPool(P), Sound(P, buffers),
           b.node \notin Owned(buffers)
    PROVE /\ Owned(Append(buffers, b)) = Owned(buffers) \cup {b.node}
          /\ Cardinality(Owned(Append(buffers, b))) = Len(buffers) + 1
          /\ Len(Append(buffers, b)) = Len(buffers) + 1
<1>1. /\ DOMAIN Append(buffers, b) = 1 .. Len(buffers) + 1 /\ DOMAIN buffers = 1 .. Len(buffers)
      /\ \A i \in 1 .. Len(buffers) : Append(buffers, b)[i] = buffers[i]
      /\ Append(buffers, b)[Len(buffers) + 1] = b
      /\ Len(Append(buffers, b)) = Len(buffers) + 1 /\ Len(buffers) \in Nat
  OBVIOUS
<1>2. 1 .. Len(buffers) + 1 = (1 .. Len(buffers)) \cup {Len(buffers) + 1} BY <1>1
<1>3. Owned(Append(buffers, b)) = Owned(buffers) \cup {b.node} BY <1>1, <1>2 DEF Owned
<1>4. Cardinality(Owned(buffers)) = Len(buffers) BY SoundParts
<1> QED BY <1>1, <1>3, <1>4, OwnedFinite, FS_AddElement

\* What Handle makes of a pool.
LEMMA HandleFacts ==
    ASSUME NEW P, IsPool(P), NEW k \in Nat, NEW x, x = Handle(P, k)
    PROVE Handled(x, P, k)
<1>1. P = [freeList |-> P.freeList, node |-> P.node, last |-> P.last, mBuffers |-> P.mBuffers]
  BY DEF IsPool
<1>2. DOMAIN P = {"freeList", "node", "last", "mBuffers"} BY <1>1
<1> DEFINE Q == [freeList |-> P.freeList, node |-> P.node, last |-> P.last,
                 mBuffers |-> P.mBuffers + 1]
           b == [node |-> k, head |-> 0, tail |-> 0]
<1>3. [P EXCEPT !.mBuffers = @ + 1] = Q BY <1>1, <1>2
<1>4. x = [pool |-> Q, buffer |-> b] BY <1>3 DEF Handle
<1>5. x.pool = Q /\ x.buffer = b BY <1>4
<1>6. b \in Buffer /\ b.node = k BY DEF Buffer
<1>7. IsPool(Q)
  <2>1. P.mBuffers \in Nat BY DEF IsPool
  <2>2. P.mBuffers + 1 \in Nat BY <2>1
  <2> QED BY <2>2 DEF IsPool
<1>8. Q.freeList = P.freeList /\ Q.node = P.node /\ Q.mBuffers = P.mBuffers + 1 OBVIOUS
<1> QED BY <1>5, <1>6, <1>7, <1>8 DEF Handled

\* A free list that is not empty gives its first node away.
LEMMA TakeSound ==
    ASSUME NEW P, NEW buffers \in Seq(Buffer), NEW c \in Class, IsPool(P), Sound(P, buffers),
           P.freeList[c] # << >>,
           NEW x, x = Take(P, c)
    PROVE /\ IsPool(x.pool) /\ x.buffer \in Buffer
          /\ x.pool.node = P.node
          /\ x.buffer.node \in DOMAIN P.node \ Owned(buffers)
          /\ P.node[x.buffer.node].classIdx = c
          /\ Sound(x.pool, Append(buffers, x.buffer))
<1>1. PICK f, k : f = P.freeList[c] /\ k = Head(f) OBVIOUS
<1>2. P.freeList \in [Class -> Seq(Nat)] BY DEF IsPool
<1>3. f \in Seq(Nat) /\ f # << >> BY <1>1, <1>2
<1>4. /\ Len(f) \in Nat /\ Len(f) > 0 /\ DOMAIN f = 1 .. Len(f)
      /\ k = f[1] /\ k \in Nat
      /\ Tail(f) \in Seq(Nat) /\ DOMAIN Tail(f) = 1 .. Len(f) - 1
      /\ \A i \in 1 .. Len(f) - 1 : Tail(f)[i] = f[i + 1]
  BY <1>1, <1>3
<1>5. PICK Q : Q = [P EXCEPT !.freeList[c] = Tail(@)] OBVIOUS
<1>6. Q = [freeList |-> [P.freeList EXCEPT ![c] = Tail(f)], node |-> P.node, last |-> P.last,
           mBuffers |-> P.mBuffers]
  <2>1. P = [freeList |-> P.freeList, node |-> P.node, last |-> P.last, mBuffers |-> P.mBuffers]
    BY DEF IsPool
  <2>2. DOMAIN P = {"freeList", "node", "last", "mBuffers"} BY <2>1
  <2> QED BY <1>1, <1>5, <2>1, <2>2
<1>7. /\ Q.freeList = [P.freeList EXCEPT ![c] = Tail(f)] /\ Q.node = P.node
      /\ Q.last = P.last /\ Q.mBuffers = P.mBuffers
  BY <1>6
<1>8. /\ Q.freeList[c] = Tail(f)
      /\ \A d \in Class : d # c => Q.freeList[d] = P.freeList[d]
      /\ Q.freeList \in [Class -> Seq(Nat)]
  BY <1>2, <1>4, <1>7
<1>9. IsPool(Q) BY <1>6, <1>7, <1>8 DEF IsPool
<1>10. PICK N : N = x.pool OBVIOUS
<1>11. /\ IsPool(N)
       /\ N.freeList = Q.freeList /\ N.node = P.node
       /\ N.mBuffers = P.mBuffers + 1
       /\ x.buffer \in Buffer /\ x.buffer.node = k
  <2>1. x = Handle(Q, k) BY <1>1, <1>5 DEF Take
  <2>2. Handled(x, Q, k) BY <1>4, <1>9, <2>1, HandleFacts
  <2> QED BY <1>7, <1>10, <2>2 DEF Handled
<1>12. /\ P.mBuffers = Len(buffers) /\ Cardinality(Owned(buffers)) = Len(buffers)
       /\ Owned(buffers) \cap Listed(P) = {}
       /\ Owned(buffers) \cup Listed(P) = DOMAIN P.node
       /\ \A d \in Class : ListSound(P, d)
  BY SoundParts
<1>13. /\ \A i \in 1 .. Len(f) : P.node[f[i]].classIdx = c
       /\ \A i, j \in 1 .. Len(f) : f[i] = f[j] => i = j
  BY <1>1, <1>4, <1>12 DEF ListSound
<1>14. k \in Listed(P) /\ P.node[k].classIdx = c BY <1>1, <1>4, <1>13 DEF Listed, InLists
<1>15. Listed(Q) = Listed(P) \ {k}
  <2>1. ASSUME NEW j \in Listed(Q) PROVE j \in Listed(P) /\ j # k
    <3>1. PICK d \in Class : \E i \in DOMAIN Q.freeList[d] : j = Q.freeList[d][i] BY DEF Listed, InLists
    <3>2. CASE d = c
      <4>1. PICK i \in 1 .. Len(f) - 1 : j = f[i + 1] BY <3>1, <3>2, <1>4, <1>8
      <4>2. i + 1 \in 1 .. Len(f) /\ i + 1 # 1 /\ 1 \in 1 .. Len(f) BY <1>4
      <4>3. j # k BY <4>1, <4>2, <1>4, <1>13
      <4>4. j \in Listed(P) BY <4>1, <4>2, <1>1, <1>4 DEF Listed, InLists
      <4> QED BY <4>3, <4>4
    <3>3. CASE d # c
      <4>1. PICK i \in DOMAIN P.freeList[d] : j = P.freeList[d][i] BY <3>1, <3>3, <1>8
      <4>2. P.node[j].classIdx = d BY <4>1, <1>12 DEF ListSound
      <4>3. j # k BY <4>2, <3>3, <1>14
      <4> QED BY <4>1, <4>3 DEF Listed, InLists
    <3> QED BY <3>2, <3>3
  <2>2. ASSUME NEW j \in Listed(P), j # k PROVE j \in Listed(Q)
    <3>1. PICK d \in Class : \E i \in DOMAIN P.freeList[d] : j = P.freeList[d][i] BY DEF Listed, InLists
    <3>2. CASE d = c
      <4>1. PICK i \in 1 .. Len(f) : j = f[i] BY <3>1, <3>2, <1>1, <1>4
      <4>2. i # 1 BY <4>1, <2>2, <1>4
      <4>3. i - 1 \in 1 .. Len(f) - 1 /\ (i - 1) + 1 = i BY <4>2, <1>4
      <4>4. Tail(f)[i - 1] = j BY <4>1, <4>3, <1>4
      <4>5. \E m \in DOMAIN Q.freeList[c] : Q.freeList[c][m] = j BY <4>3, <4>4, <1>4, <1>8
      <4> QED BY <4>5 DEF Listed, InLists
    <3>3. CASE d # c BY <3>1, <3>3, <1>8 DEF Listed, InLists
    <3> QED BY <3>2, <3>3
  <2> QED BY <2>1, <2>2, <1>14
<1>16. Listed(N) = Listed(P) \ {k} BY <1>11, <1>15 DEF Listed
<1>17. k \notin Owned(buffers) /\ k \in DOMAIN P.node BY <1>12, <1>14
<1>18. \A d \in Class : ListSound(N, d)
  <2>1. ListSound(N, c)
    <3>1. \A i \in 1 .. Len(f) - 1 : i + 1 \in 1 .. Len(f) BY <1>4
    <3>2. \A i \in 1 .. Len(f) - 1 : P.node[Tail(f)[i]].classIdx = c BY <3>1, <1>4, <1>13
    <3>3. ASSUME NEW i \in 1 .. Len(f) - 1, NEW j \in 1 .. Len(f) - 1, Tail(f)[i] = Tail(f)[j]
          PROVE i = j
      <4>1. f[i + 1] = f[j + 1] BY <3>3, <1>4
      <4>2. i + 1 = j + 1 BY <4>1, <3>1, <1>13
      <4> QED BY <4>2
    <3>4. N.freeList[c] = Tail(f) /\ N.node = P.node /\ DOMAIN Tail(f) = 1 .. Len(f) - 1
      BY <1>4, <1>8, <1>11
    <3> QED BY <3>2, <3>3, <3>4 DEF ListSound
  <2>2. ASSUME NEW d \in Class, d # c PROVE ListSound(N, d)
    <3>1. N.freeList[d] = P.freeList[d] /\ N.node = P.node BY <2>2, <1>8, <1>11
    <3>2. ListSound(P, d) BY <1>12
    <3> QED BY <3>1, <3>2 DEF ListSound
  <2> QED BY <2>1, <2>2
<1>19. Sound(N, Append(buffers, x.buffer))
  <2>1. /\ Owned(Append(buffers, x.buffer)) = Owned(buffers) \cup {k}
        /\ Cardinality(Owned(Append(buffers, x.buffer))) = Len(buffers) + 1
        /\ Len(Append(buffers, x.buffer)) = Len(buffers) + 1
    BY <1>11, <1>17, OwnedGrows
  <2>2. Owned(Append(buffers, x.buffer)) \cap Listed(N) = {} BY <2>1, <1>12, <1>16
  <2>3. Owned(Append(buffers, x.buffer)) \cup Listed(N) = DOMAIN N.node
    <3>1. DOMAIN N.node = DOMAIN P.node BY <1>11
    <3> QED BY <3>1, <2>1, <1>12, <1>14, <1>16
  <2>4. N.mBuffers = Len(Append(buffers, x.buffer)) BY <2>1, <1>11, <1>12
  <2> QED BY <2>1, <2>2, <2>3, <2>4, <1>18, SoundParts
<1> QED BY <1>10, <1>11, <1>14, <1>17, <1>19

\* A buffer larger than every class has a node of its own.
LEMMA OversizeSound ==
    ASSUME NEW P, NEW buffers \in Seq(Buffer), IsPool(P), Sound(P, buffers),
           NEW capacity \in Nat, NEW new, Len(new.bytes) = capacity,
           NEW k, k = P.last + 1, NEW A, Added(A, P, 1, new),
           NEW x, Handled(x, A, k)
    PROVE Allocated(x, P, buffers, capacity)
<1>1. P.last \in Nat /\ DOMAIN P.node \subseteq 1 .. P.last BY DEF IsPool
<1>4. P.last + 1 .. P.last + 1 = {k} /\ k \in Nat /\ k \notin DOMAIN P.node BY <1>1
<1>5. /\ A.freeList = P.freeList /\ A.mBuffers = P.mBuffers
      /\ DOMAIN A.node = DOMAIN P.node \cup {k}
      /\ \A j \in DOMAIN P.node : A.node[j] = P.node[j]
      /\ A.node[k] = new
  BY <1>4 DEF Added
<1>6. PICK N : N = x.pool OBVIOUS
<1>7. /\ IsPool(N)
      /\ N.freeList = P.freeList /\ N.node = A.node
      /\ N.mBuffers = P.mBuffers + 1
      /\ x.buffer \in Buffer /\ x.buffer.node = k
  BY <1>5, <1>6 DEF Handled
<1>8. /\ N.node = A.node /\ DOMAIN N.node = DOMAIN P.node \cup {k}
      /\ \A j \in DOMAIN P.node : N.node[j] = P.node[j]
      /\ N.node[k] = new
  BY <1>4, <1>5, <1>7
<1>9. /\ P.mBuffers = Len(buffers) /\ Cardinality(Owned(buffers)) = Len(buffers)
      /\ Owned(buffers) \cap Listed(P) = {}
      /\ Owned(buffers) \cup Listed(P) = DOMAIN P.node
      /\ \A d \in Class : ListSound(P, d)
  BY SoundParts
<1>10. k \notin Owned(buffers) /\ k \notin Listed(P) BY <1>4, <1>9
<1>11. Listed(N) = Listed(P) BY <1>7 DEF Listed
<1>12. ASSUME NEW d \in Class PROVE ListSound(N, d)
  <2>1. \A i \in DOMAIN P.freeList[d] : P.freeList[d][i] \in DOMAIN P.node
    BY <1>9 DEF Listed, InLists
  <2>2. N.freeList[d] = P.freeList[d] BY <1>5, <1>7
  <2>3. ListSound(P, d) BY <1>9
  <2> QED BY <2>1, <2>2, <2>3, <1>8 DEF ListSound
<1>13. Sound(N, Append(buffers, x.buffer))
  <2>1. /\ Owned(Append(buffers, x.buffer)) = Owned(buffers) \cup {k}
        /\ Cardinality(Owned(Append(buffers, x.buffer))) = Len(buffers) + 1
        /\ Len(Append(buffers, x.buffer)) = Len(buffers) + 1
    BY <1>7, <1>10, OwnedGrows
  <2>2. Owned(Append(buffers, x.buffer)) \cap Listed(N) = {} BY <2>1, <1>9, <1>10, <1>11
  <2>3. Owned(Append(buffers, x.buffer)) \cup Listed(N) = DOMAIN N.node
    BY <2>1, <1>8, <1>9, <1>11
  <2>4. N.mBuffers = Len(Append(buffers, x.buffer)) BY <2>1, <1>5, <1>7, <1>9
  <2> QED BY <2>1, <2>2, <2>3, <2>4, <1>12, SoundParts
<1>14. Len(N.node[k].bytes) >= capacity BY <1>8
<1>15. k \in DOMAIN N.node \ Owned(buffers) BY <1>8, <1>10
<1> QED BY <1>6, <1>7, <1>8, <1>13, <1>14, <1>15 DEF Allocated

\* allocate: a buffer has at least the capacity that was asked for and a node
\* that no buffer in use has, what the buffers in use hold is untouched, and
\* the pool stays sound with one buffer more.
THEOREM AllocateSound ==
    ASSUME NEW P, NEW buffers \in Seq(Buffer), IsPool(P), Sound(P, buffers),
           NEW capacity \in Nat, NEW x, x = Allocate(P, capacity)
    PROVE /\ IsPool(x.pool) /\ x.buffer \in Buffer
          /\ x.buffer.node \notin Owned(buffers)
          /\ Len(x.pool.node[x.buffer.node].bytes) >= capacity
          /\ \A k \in Owned(buffers) : x.pool.node[k] = P.node[k]
          /\ Sound(x.pool, Append(buffers, x.buffer))
<1>1. PICK c : c = ClassFor(capacity) OBVIOUS
<1>2. Owned(buffers) \subseteq DOMAIN P.node BY SoundParts
<1>3. CASE c = Oversize
  <2>1. x = Handle(AddNodes(P, 1, NewNode(Oversize, capacity)), P.last + 1)
    BY <1>1, <1>3 DEF Allocate
  <2>2. PICK new, k, n : new = NewNode(Oversize, capacity) /\ k = P.last + 1 /\ n = 1 OBVIOUS
  <2>3. PICK A : A = AddNodes(P, n, new) OBVIOUS
  <2>4. x = Handle(A, k) BY <2>1, <2>2, <2>3
  <2>5. k \in Nat /\ n \in Nat BY <2>2 DEF IsPool
  <2>6. IsNode(new) /\ Len(new.bytes) = capacity
    <3>1. /\ new = [classIdx |-> new.classIdx, bytes |-> new.bytes]
          /\ new.classIdx = Oversize /\ Len(new.bytes) = capacity /\ new.bytes \in Seq(Nat)
      BY <2>2, NewNodeFacts
    <3> QED BY <3>1 DEF IsNode
  <2>7. Added(A, P, n, new) BY <2>3, <2>5, <2>6, AddNodesFacts
  <2>8. IsPool(A) BY <2>7 DEF Added
  <2>9. Handled(x, A, k) BY <2>4, <2>5, <2>8, HandleFacts
  <2>10. k = P.last + 1 /\ Added(A, P, 1, new) BY <2>2, <2>7
  <2>11. Allocated(x, P, buffers, capacity) BY <2>6, <2>9, <2>10, OversizeSound
  <2> QED BY <2>11, <1>2 DEF Allocated
<1>4. CASE c # Oversize
  <2>1. c \in Class /\ Classes[c].capacity >= capacity BY <1>1, <1>4, ClassForFits
  <2>2. PICK Q : Q = IF P.freeList[c] = << >> THEN Refill(P, c) ELSE P OBVIOUS
  <2>3. x = Take(Q, c)
    BY <1>1, <1>4, <2>2 DEF Allocate
  <2>4. /\ IsPool(Q) /\ Sound(Q, buffers) /\ Q.freeList[c] # << >>
        /\ \A k \in DOMAIN P.node : Q.node[k] = P.node[k]
    <3>1. CASE P.freeList[c] = << >>
      <4>1. Q = Refill(P, c) BY <3>1, <2>2
      <4>2. c \in Class BY <2>1
      <4>3. IsPool(Q) /\ Sound(Q, buffers) BY <3>1, <4>1, <4>2, RefillSound
      <4>4. Q.freeList[c] # << >> BY <3>1, <4>1, <4>2, RefillSound
      <4>5. \A k \in DOMAIN P.node : Q.node[k] = P.node[k]
        BY <3>1, <4>1, <4>2, <4>3, <4>4, RefillSound, SMTT(30)
      <4> QED BY <4>3, <4>4, <4>5
    <3>2. CASE P.freeList[c] # << >> BY <3>2, <2>2
    <3> QED BY <3>1, <3>2
  <2>5. /\ IsPool(x.pool) /\ x.buffer \in Buffer
        /\ x.pool.node = Q.node
        /\ x.buffer.node \in DOMAIN Q.node \ Owned(buffers)
        /\ Q.node[x.buffer.node].classIdx = c
        /\ Sound(x.pool, Append(buffers, x.buffer))
    BY <2>1, <2>3, <2>4, TakeSound
  <2>6. IsNode(Q.node[x.buffer.node]) BY <2>4, <2>5 DEF IsPool
  <2>7. c # Oversize BY <1>4
  <2>8. Len(Q.node[x.buffer.node].bytes) = Classes[c].capacity BY <2>5, <2>6, <2>7 DEF IsNode
  <2>9. Len(x.pool.node[x.buffer.node].bytes) >= capacity BY <2>1, <2>5, <2>8
  <2>10. \A k \in Owned(buffers) : x.pool.node[k] = P.node[k] BY <2>4, <2>5, <1>2
  <2> QED BY <2>5, <2>9, <2>10
<1> QED BY <1>3, <1>4

\* deallocate: a buffer that is given back leaves the pool sound for the rest
\* of the buffers, in whatever order, and its node free for the next one.
THEOREM FreeSound ==
    ASSUME NEW P, NEW buffers \in Seq(Buffer), IsPool(P), Sound(P, buffers),
           NEW b, b.node \in Owned(buffers),
           NEW rest \in Seq(Buffer), Len(rest) = Len(buffers) - 1,
           Owned(rest) = Owned(buffers) \ {b.node},
           NEW N, N = Free(P, b)
    PROVE /\ IsPool(N) /\ Sound(N, rest)
          /\ \A k \in Owned(rest) : N.node[k] = P.node[k]
<1>1. PICK k, c : k = b.node /\ c = P.node[k].classIdx OBVIOUS
<1>2. /\ P.mBuffers = Len(buffers) /\ Cardinality(Owned(buffers)) = Len(buffers)
      /\ Owned(buffers) \cap Listed(P) = {}
      /\ Owned(buffers) \cup Listed(P) = DOMAIN P.node
      /\ \A d \in Class : ListSound(P, d)
  BY SoundParts
<1>3. k \in Owned(buffers) /\ k \in DOMAIN P.node /\ k \notin Listed(P) BY <1>1, <1>2
<1>4. /\ P.last \in Nat /\ P.mBuffers \in Nat /\ P.freeList \in [Class -> Seq(Nat)]
      /\ DOMAIN P.node \subseteq 1 .. P.last
      /\ k \in Nat /\ k # 0
      /\ \A j \in DOMAIN P.node : IsNode(P.node[j])
  BY <1>3 DEF IsPool
<1>5. c \in Class \cup {Oversize} BY <1>1, <1>3, <1>4 DEF IsNode
<1>6. Len(buffers) \in Nat /\ Len(rest) \in Nat /\ P.mBuffers - 1 = Len(rest) BY <1>2
<1>7. Cardinality(Owned(rest)) = Len(rest)
  BY <1>1, <1>2, <1>3, <1>6, OwnedFinite, FS_RemoveElement
<1>8. P = [freeList |-> P.freeList, node |-> P.node, last |-> P.last, mBuffers |-> P.mBuffers]
  BY DEF IsPool
<1>9. DOMAIN P = {"freeList", "node", "last", "mBuffers"} BY <1>8
<1>10. PICK Q : Q = [P EXCEPT !.mBuffers = @ - 1] OBVIOUS
<1>11. Q = [freeList |-> P.freeList, node |-> P.node, last |-> P.last, mBuffers |-> Len(rest)]
  BY <1>6, <1>8, <1>9, <1>10
<1>12. DOMAIN Q = {"freeList", "node", "last", "mBuffers"} BY <1>11
<1>13. CASE c = Oversize
  <2>1. PICK node : node = [j \in DOMAIN P.node \ {k} |-> P.node[j]] OBVIOUS
  <2>2. N = [Q EXCEPT !.node = node] BY <1>1, <1>4, <1>10, <1>13, <2>1 DEF Free
  <2>3. N = [freeList |-> P.freeList, node |-> node, last |-> P.last, mBuffers |-> Len(rest)]
    BY <1>11, <1>12, <2>2
  <2>4. /\ N.freeList = P.freeList /\ N.node = node /\ N.last = P.last
        /\ N.mBuffers = Len(rest)
    BY <2>3
  <2>5. /\ DOMAIN N.node = DOMAIN P.node \ {k}
        /\ \A j \in DOMAIN P.node \ {k} : N.node[j] = P.node[j]
        /\ N.node = [j \in DOMAIN N.node |-> N.node[j]]
    BY <2>1, <2>4
  <2>6. IsPool(N)
    <3>1. N = [freeList |-> N.freeList, node |-> N.node, last |-> N.last,
               mBuffers |-> N.mBuffers]
      BY <2>3
    <3>2. \A j \in DOMAIN N.node : IsNode(N.node[j]) BY <2>5, <1>4
    <3>3. DOMAIN N.node \subseteq 1 .. N.last BY <2>4, <2>5, <1>4
    <3> QED BY <3>1, <3>2, <3>3, <2>4, <2>5, <1>4, <1>6 DEF IsPool
  <2>7. Listed(N) = Listed(P) BY <2>4 DEF Listed
  <2>8. ASSUME NEW d \in Class PROVE ListSound(N, d)
    <3>1. \A i \in DOMAIN P.freeList[d] : P.freeList[d][i] \in DOMAIN P.node \ {k}
      BY <1>2, <1>3 DEF Listed, InLists
    <3>2. N.freeList[d] = P.freeList[d] BY <2>4
    <3>3. ListSound(P, d) BY <1>2
    <3> QED BY <3>1, <3>2, <3>3, <2>5 DEF ListSound
  <2>9. Owned(rest) \cap Listed(N) = {} BY <1>2, <2>7
  <2>10. Owned(rest) \cup Listed(N) = DOMAIN N.node BY <1>1, <1>2, <1>3, <2>5, <2>7
  <2>11. Sound(N, rest) BY <2>4, <1>7, <2>8, <2>9, <2>10, SoundParts
  <2> QED BY <2>5, <2>6, <2>11, <1>1, <1>2
<1>14. CASE c # Oversize
  <2>1. c \in Class BY <1>5, <1>14
  <2>2. PICK f, new : f = P.freeList[c] /\ new = NewNode(c, Classes[c].capacity) OBVIOUS
  <2>3. N = [Q EXCEPT !.freeList[c] = <<k>> \o @, !.node[k] = new]
    BY <1>1, <1>4, <1>10, <1>14, <2>2 DEF Free
  <2>4. f \in Seq(Nat) BY <2>1, <2>2, <1>4
  <2>5. PICK g : g = <<k>> \o f OBVIOUS
  <2>6. N = [freeList |-> [P.freeList EXCEPT ![c] = g], node |-> [P.node EXCEPT ![k] = new],
             last |-> P.last, mBuffers |-> Len(rest)]
    BY <1>11, <1>12, <2>2, <2>3, <2>5
  <2>7. /\ N.freeList = [P.freeList EXCEPT ![c] = g]
        /\ N.node = [P.node EXCEPT ![k] = new]
        /\ N.last = P.last /\ N.mBuffers = Len(rest)
    BY <2>6
  <2>8. /\ g \in Seq(Nat) /\ Len(f) \in Nat /\ Len(g) = Len(f) + 1
        /\ DOMAIN g = 1 .. Len(f) + 1 /\ DOMAIN f = 1 .. Len(f)
        /\ g[1] = k
        /\ \A i \in 1 .. Len(f) + 1 : i # 1 => i - 1 \in 1 .. Len(f) /\ g[i] = f[i - 1]
    <3>1. /\ g \in Seq(Nat) /\ Len(f) \in Nat /\ Len(g) = Len(f) + 1 BY <1>4, <2>4, <2>5
    <3>2. g[1] = k /\ \A i \in 1 .. Len(f) + 1 : i # 1 => g[i] = f[i - 1]
      BY <1>4, <2>4, <2>5, <3>1
    <3>3. \A i \in 1 .. Len(f) + 1 : i # 1 => i - 1 \in 1 .. Len(f) BY <3>1
    <3>4. DOMAIN g = 1 .. Len(f) + 1 /\ DOMAIN f = 1 .. Len(f) BY <2>4, <3>1
    <3> QED BY <3>1, <3>2, <3>3, <3>4
  <2>9. /\ N.freeList[c] = g
        /\ \A d \in Class : d # c => N.freeList[d] = P.freeList[d]
        /\ N.freeList \in [Class -> Seq(Nat)]
    BY <1>4, <2>1, <2>7, <2>8
  <2>10. /\ DOMAIN N.node = DOMAIN P.node
         /\ N.node[k] = new
         /\ \A j \in DOMAIN P.node : j # k => N.node[j] = P.node[j]
         /\ N.node = [j \in DOMAIN N.node |-> N.node[j]]
    <3>1. P.node = [j \in DOMAIN P.node |-> P.node[j]] BY DEF IsPool
    <3> QED BY <1>3, <2>7, <3>1
  <2>11. new.classIdx = c /\ IsNode(new)
    <3>1. Classes[c].capacity \in Nat BY <2>1, ClassFacts
    <3>2. /\ new = [classIdx |-> new.classIdx, bytes |-> new.bytes]
          /\ new.classIdx = c /\ Len(new.bytes) = Classes[c].capacity /\ new.bytes \in Seq(Nat)
      BY <2>2, <3>1, NewNodeFacts
    <3> QED BY <3>2, <1>5 DEF IsNode
  <2>12. IsPool(N)
    <3>1. N = [freeList |-> N.freeList, node |-> N.node, last |-> N.last,
               mBuffers |-> N.mBuffers]
      BY <2>6
    <3>2. \A j \in DOMAIN N.node : IsNode(N.node[j]) BY <2>10, <2>11, <1>4
    <3>3. DOMAIN N.node \subseteq 1 .. N.last BY <2>7, <2>10, <1>4
    <3> QED BY <3>1, <3>2, <3>3, <2>7, <2>9, <2>10, <1>4, <1>6 DEF IsPool
  <2>13. Listed(N) = Listed(P) \cup {k}
    <3>1. ASSUME NEW j \in Listed(N) PROVE j \in Listed(P) \cup {k}
      <4>1. PICK d \in Class : \E i \in DOMAIN N.freeList[d] : j = N.freeList[d][i]
        BY DEF Listed, InLists
      <4>2. CASE d = c
        <5>1. PICK i \in 1 .. Len(f) + 1 : j = g[i] BY <4>1, <4>2, <2>8, <2>9
        <5>2. i = 1 \/ \E m \in DOMAIN P.freeList[c] : j = P.freeList[c][m]
          BY <5>1, <2>2, <2>8
        <5> QED BY <5>1, <5>2, <2>1, <2>8 DEF Listed, InLists
      <4>3. CASE d # c
        <5>1. N.freeList[d] = P.freeList[d] BY <4>3, <2>9
        <5> QED BY <4>1, <5>1 DEF Listed, InLists
      <4> QED BY <4>2, <4>3
    <3>2. ASSUME NEW j \in Listed(P) PROVE j \in Listed(N)
      <4>1. PICK d \in Class : \E i \in DOMAIN P.freeList[d] : j = P.freeList[d][i]
        BY DEF Listed, InLists
      <4>2. CASE d = c
        <5>1. PICK i \in 1 .. Len(f) : j = f[i] BY <4>1, <4>2, <2>2, <2>8
        <5>2. i + 1 \in 1 .. Len(f) + 1 /\ i + 1 # 1 /\ (i + 1) - 1 = i BY <2>8
        <5>3. g[i + 1] = j BY <5>1, <5>2, <2>8
        <5>4. \E m \in DOMAIN N.freeList[c] : N.freeList[c][m] = j BY <5>2, <5>3, <2>8, <2>9
        <5> QED BY <5>4, <2>1 DEF Listed, InLists
      <4>3. CASE d # c
        <5>1. N.freeList[d] = P.freeList[d] BY <4>3, <2>9
        <5> QED BY <4>1, <5>1 DEF Listed, InLists
      <4> QED BY <4>2, <4>3
    <3>3. k \in Listed(N)
      <4>1. 1 \in DOMAIN N.freeList[c] /\ N.freeList[c][1] = k BY <2>8, <2>9
      <4>2. \E m \in DOMAIN N.freeList[c] : N.freeList[c][m] = k BY <4>1
      <4> QED BY <4>2, <2>1 DEF Listed, InLists
    <3> QED BY <3>1, <3>2, <3>3
  <2>14. ASSUME NEW d \in Class, NEW i \in DOMAIN P.freeList[d]
         PROVE /\ P.freeList[d][i] \in DOMAIN P.node /\ P.freeList[d][i] # k
               /\ N.node[P.freeList[d][i]].classIdx = d
    <3>1. P.freeList[d][i] \in Listed(P) BY DEF Listed, InLists
    <3>2. P.freeList[d][i] \in DOMAIN P.node /\ P.freeList[d][i] # k BY <3>1, <1>2, <1>3
    <3>3. P.node[P.freeList[d][i]].classIdx = d BY <1>2 DEF ListSound
    <3> QED BY <3>2, <3>3, <2>10
  <2>15. ListSound(N, c)
    <3>1. \A i \in 1 .. Len(f) : f[i] # k /\ N.node[f[i]].classIdx = c
      BY <2>1, <2>2, <2>8, <2>14
    <3>2. \A i \in 1 .. Len(f) + 1 : N.node[g[i]].classIdx = c BY <3>1, <2>8, <2>10, <2>11
    <3>3. \A i, j \in 1 .. Len(f) : f[i] = f[j] => i = j
      BY <1>2, <2>1, <2>2, <2>8 DEF ListSound
    <3>4. ASSUME NEW i \in 1 .. Len(f) + 1, NEW j \in 1 .. Len(f) + 1, g[i] = g[j]
          PROVE i = j
      <4>1. CASE i = 1 \/ j = 1 BY <4>1, <3>1, <3>4, <2>8
      <4>2. CASE i # 1 /\ j # 1
        <5>1. i - 1 \in 1 .. Len(f) /\ j - 1 \in 1 .. Len(f) BY <4>2, <2>8
        <5>2. f[i - 1] = f[j - 1]
          <6>1. g[i] = f[i - 1] /\ g[j] = f[j - 1] BY <4>2, <2>8
          <6> QED BY <6>1, <3>4
        <5>3. i - 1 = j - 1 BY <5>1, <5>2, <3>3
        <5> QED BY <5>3, <2>8
      <4> QED BY <4>1, <4>2
    <3> QED BY <3>2, <3>4, <2>8, <2>9 DEF ListSound
  <2>16. ASSUME NEW d \in Class, d # c PROVE ListSound(N, d)
    <3>1. N.freeList[d] = P.freeList[d] BY <2>16, <2>9
    <3>2. \A i, j \in DOMAIN P.freeList[d] : P.freeList[d][i] = P.freeList[d][j] => i = j
      BY <1>2 DEF ListSound
    <3> QED BY <3>1, <3>2, <2>14 DEF ListSound
  <2>17. Owned(rest) \cap Listed(N) = {} BY <1>1, <1>2, <2>13
  <2>18. Owned(rest) \cup Listed(N) = DOMAIN N.node BY <1>1, <1>2, <1>3, <2>10, <2>13
  <2>19. Sound(N, rest) BY <2>7, <1>7, <2>15, <2>16, <2>17, <2>18, SoundParts
  <2> QED BY <2>10, <2>12, <2>19, <1>1, <1>2
<1> QED BY <1>13, <1>14
=============================================================================
