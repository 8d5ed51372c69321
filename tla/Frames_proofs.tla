---------------------------- MODULE Frames_proofs ----------------------------
(***************************************************************************)
(* One direction of a session keeps every byte, every buffer has room, and *)
(* the pools of both peers stay sound, for every size of an integer, every *)
(* set of size classes, every set of messages and any foreign frames.      *)
(*                                                                         *)
(* Half of the module is about data: what each member function of SkBuffer *)
(* does to the bytes between head and tail, and that it leaves the other   *)
(* nodes of the pool alone.  The other half is the inductive invariant,    *)
(* which says of every buffer in a queue what it holds.                    *)
(***************************************************************************)
EXTENDS Frames, SkBufferPool_proofs, InductionLemmas

-----------------------------------------------------------------------------
(***************************************************************************)
(* A pool and the nodes that are in use, instead of the buffers that use   *)
(* them.                                                                   *)
(***************************************************************************)
PoolFor(P, U) ==
    /\ IsPool(P)
    /\ IsFiniteSet(U)
    /\ P.mBuffers = Cardinality(U)
    /\ U \cap Listed(P) = {}
    /\ U \cup Listed(P) = DOMAIN P.node
    /\ \A c \in Class : ListSound(P, c)

LEMMA PoolForNodes ==
    ASSUME NEW P, NEW U, PoolFor(P, U)
    PROVE \A k \in U : k \in DOMAIN P.node /\ k \in Nat /\ k # 0 /\ IsNode(P.node[k])
<1>1. P.last \in Nat /\ DOMAIN P.node \subseteq 1 .. P.last BY DEF PoolFor, IsPool
<1>2. \A k \in DOMAIN P.node : k \in Nat /\ k # 0 BY <1>1
<1>3. \A k \in DOMAIN P.node : IsNode(P.node[k]) BY DEF PoolFor, IsPool
<1> QED BY <1>2, <1>3 DEF PoolFor

LEMMA SoundIsPoolFor ==
    ASSUME NEW P, NEW buffers, IsPool(P), Sound(P, buffers)
    PROVE PoolFor(P, Owned(buffers))
BY SoundParts, OwnedFinite DEF PoolFor

LEMMA PoolForIsSound ==
    ASSUME NEW P, NEW U, PoolFor(P, U), NEW buffers, Owned(buffers) = U,
           Len(buffers) = Cardinality(U)
    PROVE Sound(P, buffers)
BY SoundParts DEF PoolFor

\* Some sequence of buffers uses the nodes.
LEMMA BuffersFor ==
    ASSUME NEW P, NEW U, PoolFor(P, U)
    PROVE \E buffers \in Seq(Buffer) :
              Owned(buffers) = U /\ Len(buffers) = Cardinality(U) /\ Sound(P, buffers)
<1>1. PICK s : s = SetToSeq(U) OBVIOUS
<1>2. /\ s \in Seq(U) /\ ToSet(s) = U /\ Len(s) = Cardinality(U) BY <1>1, SetToSeqIs DEF PoolFor
<1>3. Len(s) \in Nat /\ DOMAIN s = 1 .. Len(s) BY <1>2
<1>4. \A i \in 1 .. Len(s) : s[i] \in U BY <1>2, <1>3
<1>5. PICK buffers : buffers = [i \in 1 .. Len(s) |-> [node |-> s[i], head |-> 0, tail |-> 0]]
  OBVIOUS
<1>6. \A i \in 1 .. Len(s) : buffers[i] \in Buffer /\ buffers[i].node = s[i]
  <2>1. \A i \in 1 .. Len(s) : s[i] \in Int BY <1>4, PoolForNodes
  <2> QED BY <2>1, <1>5 DEF Buffer
<1>7. buffers \in Seq(Buffer) /\ Len(buffers) = Len(s) /\ DOMAIN buffers = 1 .. Len(s)
  BY <1>3, <1>5, <1>6
<1>8. Owned(buffers) = U
  <2>1. Owned(buffers) = {s[i] : i \in 1 .. Len(s)} BY <1>6, <1>7 DEF Owned
  <2>2. ToSet(s) = {s[i] : i \in 1 .. Len(s)} BY <1>3 DEF ToSet
  <2> QED BY <2>1, <2>2, <1>2
<1>9. Sound(P, buffers) BY <1>2, <1>7, <1>8, PoolForIsSound
<1> QED BY <1>2, <1>7, <1>8, <1>9

LEMMA AllocateEmpty ==
    ASSUME NEW P, NEW capacity, NEW x, x = Allocate(P, capacity)
    PROVE /\ x = [pool |-> x.pool, buffer |-> x.buffer]
          /\ x.buffer = [node |-> x.buffer.node, head |-> 0, tail |-> 0]
<1>1. \E Q, k : x = Handle(Q, k)
  <2>1. PICK c : c = ClassFor(capacity) OBVIOUS
  <2>2. CASE c = Oversize BY <2>1, <2>2 DEF Allocate
  <2>3. CASE c # Oversize
    <3>1. PICK Q : Q = IF P.freeList[c] = << >> THEN Refill(P, c) ELSE P OBVIOUS
    <3>2. x = Take(Q, c) BY <2>1, <2>3, <3>1 DEF Allocate
    <3> QED BY <3>2 DEF Take
  <2> QED BY <2>2, <2>3
<1>2. PICK Q, k : x = Handle(Q, k) BY <1>1
<1>3. PICK R : R = [Q EXCEPT !.mBuffers = @ + 1] OBVIOUS
<1>4. x = [pool |-> R, buffer |-> [node |-> k, head |-> 0, tail |-> 0]] BY <1>2, <1>3 DEF Handle
<1>5. x.pool = R /\ x.buffer = [node |-> k, head |-> 0, tail |-> 0] BY <1>4
<1>6. x.buffer.node = k BY <1>5
<1> QED BY <1>4, <1>5, <1>6

\* A node that was not in use is, and it is large enough.
AllocatedFor(x, P, U, capacity) ==
    /\ x = [pool |-> x.pool, buffer |-> x.buffer]
    /\ x.buffer = [node |-> x.buffer.node, head |-> 0, tail |-> 0]
    /\ x.buffer.node \notin U
    /\ Len(x.pool.node[x.buffer.node].bytes) >= capacity
    /\ \A k \in U : x.pool.node[k] = P.node[k]
    /\ PoolFor(x.pool, U \cup {x.buffer.node})

LEMMA AllocateIs ==
    ASSUME NEW P, NEW U, PoolFor(P, U), NEW capacity \in Nat, NEW x, x = Allocate(P, capacity)
    PROVE AllocatedFor(x, P, U, capacity)
<1>1. PICK buffers \in Seq(Buffer) :
          Owned(buffers) = U /\ Len(buffers) = Cardinality(U) /\ Sound(P, buffers)
  BY BuffersFor
<1>2. IsPool(P) BY DEF PoolFor
<1>3. /\ IsPool(x.pool) /\ x.buffer \in Buffer
      /\ x.buffer.node \notin U
      /\ Len(x.pool.node[x.buffer.node].bytes) >= capacity
      /\ \A k \in U : x.pool.node[k] = P.node[k]
      /\ Sound(x.pool, Append(buffers, x.buffer))
  BY <1>1, <1>2, AllocateSound
<1>4. Owned(Append(buffers, x.buffer)) = U \cup {x.buffer.node} BY <1>1, <1>2, <1>3, OwnedGrows
<1>5. PoolFor(x.pool, U \cup {x.buffer.node})
  <2>1. PICK all : all = Append(buffers, x.buffer) OBVIOUS
  <2>2. PoolFor(x.pool, Owned(all)) BY <1>3, <2>1, SoundIsPoolFor
  <2> QED BY <1>4, <2>1, <2>2
<1>6. /\ x = [pool |-> x.pool, buffer |-> x.buffer]
      /\ x.buffer = [node |-> x.buffer.node, head |-> 0, tail |-> 0]
  BY AllocateEmpty
<1> QED BY <1>3, <1>5, <1>6 DEF AllocatedFor

LEMMA FreeFor ==
    ASSUME NEW P, NEW U, PoolFor(P, U), NEW b, b.node \in U, NEW N, N = Free(P, b)
    PROVE PoolFor(N, U \ {b.node}) /\ \A k \in U \ {b.node} : N.node[k] = P.node[k]
<1>1. PICK k, n : k = b.node /\ n = Cardinality(U) OBVIOUS
<1>2. IsFiniteSet(U) /\ IsPool(P) BY DEF PoolFor
<1>3. n \in Nat /\ IsFiniteSet(U \ {k}) /\ Cardinality(U \ {k}) = n - 1 /\ n > 0
  <2>1. n \in Nat BY <1>1, <1>2, FS_CardinalityType
  <2>2. IsFiniteSet(U \ {k}) /\ Cardinality(U \ {k}) = n - 1 BY <1>1, <1>2, FS_RemoveElement
  <2>3. Cardinality(U \ {k}) \in Nat BY <2>2, FS_CardinalityType
  <2> QED BY <2>1, <2>2, <2>3
<1>4. PICK buffers \in Seq(Buffer) :
          Owned(buffers) = U /\ Len(buffers) = Cardinality(U) /\ Sound(P, buffers)
  BY BuffersFor
<1>5. PICK s : s = SetToSeq(U \ {k}) OBVIOUS
<1>6. /\ s \in Seq(U \ {k}) /\ ToSet(s) = U \ {k} /\ Len(s) = n - 1 BY <1>3, <1>5, SetToSeqIs
<1>7. Len(s) \in Nat /\ DOMAIN s = 1 .. Len(s) BY <1>6
<1>8. \A i \in 1 .. Len(s) : s[i] \in U BY <1>6, <1>7
<1>9. PICK rest : rest = [i \in 1 .. Len(s) |-> [node |-> s[i], head |-> 0, tail |-> 0]]
  OBVIOUS
<1>10. \A i \in 1 .. Len(s) : rest[i] \in Buffer /\ rest[i].node = s[i]
  <2>1. \A i \in 1 .. Len(s) : s[i] \in Int BY <1>8, PoolForNodes
  <2> QED BY <2>1, <1>9 DEF Buffer
<1>11. rest \in Seq(Buffer) /\ Len(rest) = Len(s) /\ DOMAIN rest = 1 .. Len(s)
  BY <1>7, <1>9, <1>10
<1>12. Owned(rest) = U \ {k}
  <2>1. Owned(rest) = {s[i] : i \in 1 .. Len(s)} BY <1>10, <1>11 DEF Owned
  <2>2. ToSet(s) = {s[i] : i \in 1 .. Len(s)} BY <1>7 DEF ToSet
  <2> QED BY <2>1, <2>2, <1>6
<1>13. Len(rest) = Len(buffers) - 1 BY <1>1, <1>4, <1>6, <1>11
<1>14. IsPool(N) /\ Sound(N, rest) /\ \A j \in Owned(rest) : N.node[j] = P.node[j]
  BY <1>1, <1>2, <1>4, <1>11, <1>12, <1>13, FreeSound
<1>15. PoolFor(N, U \ {k}) BY <1>12, <1>14, SoundIsPoolFor, Zenon
<1> QED BY <1>1, <1>12, <1>14, <1>15
-----------------------------------------------------------------------------
(***************************************************************************)
(* FreeAll, by induction on the number of buffers.                         *)
(***************************************************************************)
\* One step of the recursion that defines FreeAll.
FreeStep(P, g, s) ==
    IF s = {} THEN P ELSE Free(g[s \ {CHOOSE b \in s : TRUE}], CHOOSE b \in s : TRUE)
Freed(P, D) == CHOOSE g : g = [s \in D |-> FreeStep(P, g, s)]

LEMMA FreeAllDef == ASSUME NEW P, NEW B PROVE FreeAll(P, B) = Freed(P, SUBSET B)[B]
BY DEF FreeAll, FoldSet, MapThenFoldSet, Freed, FreeStep

LEMMA FreedUnfold ==
    ASSUME NEW P, NEW S, IsFiniteSet(S)
    PROVE \A s \in SUBSET S : Freed(P, SUBSET S)[s] = FreeStep(P, Freed(P, SUBSET S), s)
<1> DEFINE D(n) == {s \in SUBSET S : Cardinality(s) <= n}
           N == {n \in Nat : \E g : g = [s \in D(n) |-> FreeStep(P, g, s)]}
<1>1. \A s \in SUBSET S : IsFiniteSet(s) /\ Cardinality(s) \in Nat
  BY FS_Subset, FS_CardinalityType
<1>2. ASSUME NEW s \in SUBSET S, s # {}, NEW x, x = CHOOSE y \in s : TRUE
      PROVE x \in s /\ s \ {x} \in SUBSET S /\ Cardinality(s \ {x}) = Cardinality(s) - 1
  <2>1. x \in s BY <1>2
  <2> QED BY <2>1, <1>1, FS_RemoveElement
<1>3. 0 \in N
  <2>1. ASSUME NEW s \in D(0) PROVE s = {} BY <1>1, FS_EmptySet
  <2> DEFINE g == [s \in D(0) |-> P]
  <2>2. g = [s \in D(0) |-> FreeStep(P, g, s)] BY <2>1 DEF FreeStep
  <2> QED BY <2>2
<1>4. ASSUME NEW n \in Nat, n \in N PROVE n + 1 \in N
  <2>1. PICK g : g = [s \in D(n) |-> FreeStep(P, g, s)] BY <1>4
  <2> DEFINE h == [s \in D(n + 1) |-> IF s \in D(n) THEN g[s] ELSE FreeStep(P, g, s)]
  <2>2. ASSUME NEW s \in D(n + 1) PROVE h[s] = FreeStep(P, h, s)
    <3>1. h[s] = FreeStep(P, g, s) BY <2>1
    <3>2. CASE s = {} BY <3>1, <3>2 DEF FreeStep
    <3>3. CASE s # {}
      <4>1. PICK x : x = CHOOSE y \in s : TRUE OBVIOUS
      <4>2. x \in s /\ s \ {x} \in SUBSET S /\ Cardinality(s \ {x}) = Cardinality(s) - 1
        BY <3>3, <4>1, <1>2
      <4>3. Cardinality(s) \in Nat /\ Cardinality(s) <= n + 1 BY <1>1
      <4>4. Cardinality(s \ {x}) <= n BY <4>2, <4>3
      <4>5. s \ {x} \in D(n) /\ s \ {x} \in D(n + 1) BY <4>2, <4>3, <4>4
      <4>6. h[s \ {x}] = g[s \ {x}] BY <4>5
      <4> HIDE DEF h, D
      <4> QED BY <3>1, <3>3, <4>1, <4>6 DEF FreeStep
    <3> QED BY <3>2, <3>3
  <2>3. h = [s \in D(n + 1) |-> FreeStep(P, h, s)]
    <3>1. h = [s \in D(n + 1) |-> h[s]] OBVIOUS
    <3> HIDE DEF h, D
    <3> QED BY <2>2, <3>1
  <2>4. \E q : q = [s \in D(n + 1) |-> FreeStep(P, q, s)]
    <3> HIDE DEF h, D
    <3> QED BY <2>3
  <2> QED BY <2>4
<1>5. Nat \subseteq N
  <2> HIDE DEF N
  <2> QED BY <1>3, <1>4, NatInd
<1>6. PICK n : n = Cardinality(S) OBVIOUS
<1>7. D(n) = SUBSET S BY <1>6, <1>1, FS_Subset
<1>8. n \in Nat BY <1>6, <1>1
<1>9. \E g : g = [s \in SUBSET S |-> FreeStep(P, g, s)] BY <1>5, <1>7, <1>8
<1>10. PICK g : g = Freed(P, SUBSET S) OBVIOUS
<1>11. g = [s \in SUBSET S |-> FreeStep(P, g, s)]
  <2>1. Freed(P, SUBSET S) = [s \in SUBSET S |-> FreeStep(P, Freed(P, SUBSET S), s)]
    BY <1>9 DEF Freed
  <2> QED BY <1>10, <2>1
<1>12. \A s \in SUBSET S : g[s] = FreeStep(P, g, s) BY <1>11
<1> QED BY <1>10, <1>12

\* The nodes of a set of buffers, of which no two share a node.
Nodes(B) == {b.node : b \in B} \ {0}
Apart(B) == \A b, c \in B : b.node = c.node /\ b.node # 0 => b = c

\* Every buffer is given back, once each.
LEMMA FreeAllFor ==
    ASSUME NEW P, NEW U, PoolFor(P, U), NEW B, IsFiniteSet(B), Apart(B), Nodes(B) \subseteq U
    PROVE PoolFor(FreeAll(P, B), U \ Nodes(B))
<1>1. PICK g : g = Freed(P, SUBSET B) OBVIOUS
<1>2. \A s \in SUBSET B : g[s] = FreeStep(P, g, s) BY <1>1, FreedUnfold
<1> DEFINE T == {s \in SUBSET B : PoolFor(g[s], U \ Nodes(s))}
           N == {n \in Nat : \A s \in SUBSET B : Cardinality(s) = n => s \in T}
<1>3. \A s \in SUBSET B : IsFiniteSet(s) /\ Cardinality(s) \in Nat
  BY FS_Subset, FS_CardinalityType
<1>4. 0 \in N
  <2>1. ASSUME NEW s \in SUBSET B, Cardinality(s) = 0 PROVE PoolFor(g[s], U \ Nodes(s))
    <3>1. s = {} BY <2>1, <1>3, FS_EmptySet
    <3>2. g[s] = P BY <3>1, <1>2 DEF FreeStep
    <3>3. U \ Nodes(s) = U BY <3>1 DEF Nodes
    <3> QED BY <3>2, <3>3
  <2> QED BY <2>1
<1>5. ASSUME NEW n \in Nat, n \in N PROVE n + 1 \in N
  <2>1. ASSUME NEW s \in SUBSET B, Cardinality(s) = n + 1 PROVE PoolFor(g[s], U \ Nodes(s))
    <3>1. IsFiniteSet(s) BY <1>3
    <3>2. s # {}
      <4>1. n + 1 # 0 OBVIOUS
      <4> QED BY <4>1, <2>1, FS_EmptySet
    <3>3. PICK b : b = CHOOSE y \in s : TRUE OBVIOUS
    <3>4. b \in s /\ b \in B BY <3>2, <3>3
    <3>5. PICK r : r = s \ {b} OBVIOUS
    <3>6. r \in SUBSET B /\ Cardinality(r) = n
      <4>1. Cardinality(r) = Cardinality(s) - 1 BY <3>1, <3>4, <3>5, FS_RemoveElement
      <4> QED BY <4>1, <3>5, <2>1
    <3>7. PoolFor(g[r], U \ Nodes(r)) BY <3>6, <1>5
    <3>8. g[s] = Free(g[r], b) BY <1>2, <3>2, <3>3, <3>5 DEF FreeStep
    <3>9. CASE b.node = 0
      <4>1. Free(g[r], b) = g[r] BY <3>9 DEF Free
      <4>2. Nodes(s) = Nodes(r) BY <3>4, <3>5, <3>9 DEF Nodes
      <4> QED BY <4>1, <4>2, <3>7, <3>8
    <3>10. CASE b.node # 0
      <4>1. b.node \notin Nodes(r) BY <3>4, <3>5, <3>6, <3>10 DEF Nodes, Apart
      <4>2. b.node \in U BY <3>4, <3>10 DEF Nodes
      <4>3. PICK Q, V, k : Q = g[r] /\ V = U \ Nodes(r) /\ k = b.node OBVIOUS
      <4>4. PoolFor(Q, V) /\ k \in V BY <4>1, <4>2, <4>3, <3>7
      <4>5. PoolFor(Free(Q, b), V \ {k})
        <5>1. PICK R : R = Free(Q, b) OBVIOUS
        <5>2. PoolFor(R, V \ {b.node}) BY <4>3, <4>4, <5>1, FreeFor
        <5> QED BY <4>3, <5>1, <5>2
      <4>6. Nodes(s) = Nodes(r) \cup {k} BY <3>4, <3>5, <3>10, <4>3 DEF Nodes
      <4>7. V \ {k} = U \ Nodes(s) BY <4>3, <4>6
      <4> QED BY <4>3, <4>5, <4>7, <3>8
    <3> QED BY <3>9, <3>10
  <2> QED BY <2>1, SMTT(30)
<1>6. Nat \subseteq N
  <2> HIDE DEF N
  <2> QED BY <1>4, <1>5, NatInd
<1>7. PICK n : n = Cardinality(B) OBVIOUS
<1>8. n \in Nat /\ B \in SUBSET B BY <1>3, <1>7
<1>9. PoolFor(g[B], U \ Nodes(B)) BY <1>6, <1>7, <1>8
<1> QED BY <1>1, <1>9, FreeAllDef
-----------------------------------------------------------------------------
(***************************************************************************)
(* What the member functions of SkBuffer do to the data of their buffer    *)
(* and leave alone of the others.                                          *)
(***************************************************************************)
\* The data of b, and the room before it, lie inside its node.
InNode(P, b) ==
    /\ b \in Buffer
    /\ b.node \in DOMAIN P.node
    /\ b.head \in Nat /\ b.head <= b.tail
    /\ b.tail <= Len(P.node[b.node].bytes)

\* A pool and a buffer.
Pair(x) == x = [pool |-> x.pool, buffer |-> x.buffer]

\* Q differs from P in the bytes of the node k at most.
Only(Q, P, k) ==
    /\ IsPool(Q)
    /\ Q.freeList = P.freeList /\ Q.mBuffers = P.mBuffers
    /\ DOMAIN Q.node = DOMAIN P.node
    /\ \A j \in DOMAIN P.node : /\ Q.node[j].classIdx = P.node[j].classIdx
                                /\ Len(Q.node[j].bytes) = Len(P.node[j].bytes)
    /\ \A j \in DOMAIN P.node \ {k} : Q.node[j] = P.node[j]

LEMMA OnlyFor ==
    ASSUME NEW P, NEW U, PoolFor(P, U), NEW k, NEW Q, Only(Q, P, k)
    PROVE PoolFor(Q, U)
<1>1. /\ Q.freeList = P.freeList /\ Q.mBuffers = P.mBuffers
      /\ DOMAIN Q.node = DOMAIN P.node
      /\ \A j \in DOMAIN P.node : Q.node[j].classIdx = P.node[j].classIdx
  BY DEF Only
<1>2. Listed(Q) = Listed(P) BY <1>1 DEF Listed
<1>3. ASSUME NEW c \in Class PROVE ListSound(Q, c)
  <2>1. ListSound(P, c) BY DEF PoolFor
  <2>2. \A i \in DOMAIN P.freeList[c] : P.freeList[c][i] \in DOMAIN P.node
    <3>1. \A i \in DOMAIN P.freeList[c] : P.freeList[c][i] \in Listed(P) BY DEF Listed, InLists
    <3> QED BY <3>1 DEF PoolFor
  <2> QED BY <1>1, <2>1, <2>2 DEF ListSound
<1> QED BY <1>1, <1>2, <1>3 DEF PoolFor, Only

LEMMA OnlyTwice ==
    ASSUME NEW P, NEW Q, NEW R, NEW k, Only(Q, P, k), Only(R, Q, k)
    PROVE Only(R, P, k)
BY DEF Only

\* A buffer is rewritten in place.
Rewritten(x, bytes) == [x EXCEPT !.pool.node[x.buffer.node].bytes = bytes]

LEMMA Rewrite ==
    ASSUME NEW x, Pair(x), IsPool(x.pool),
           x.buffer.node \in DOMAIN x.pool.node,
           NEW bytes \in Seq(Nat), Len(bytes) = Len(x.pool.node[x.buffer.node].bytes),
           NEW y, y = Rewritten(x, bytes)
    PROVE /\ Pair(y) /\ y.buffer = x.buffer
          /\ Only(y.pool, x.pool, x.buffer.node)
          /\ y.pool.node[x.buffer.node].bytes = bytes
<1>1. PICK P, b, k : P = x.pool /\ b = x.buffer /\ k = x.buffer.node OBVIOUS
<1>2. PICK old : old = P.node[k] OBVIOUS
<1>3. PICK new : new = [classIdx |-> old.classIdx, bytes |-> bytes] OBVIOUS
<1>4. PICK node : node = [P.node EXCEPT ![k] = new] OBVIOUS
<1>5. PICK Q : Q = [freeList |-> P.freeList, node |-> node, last |-> P.last,
                    mBuffers |-> P.mBuffers]
  OBVIOUS
<1>6. /\ P = [freeList |-> P.freeList, node |-> P.node, last |-> P.last, mBuffers |-> P.mBuffers]
      /\ P.node = [j \in DOMAIN P.node |-> P.node[j]]
      /\ \A j \in DOMAIN P.node : IsNode(P.node[j])
      /\ k \in DOMAIN P.node
  BY <1>1 DEF IsPool
<1>7. IsNode(old) /\ old = [classIdx |-> old.classIdx, bytes |-> old.bytes]
  BY <1>2, <1>6 DEF IsNode
<1>8. [old EXCEPT !.bytes = bytes] = new BY <1>3, <1>7
<1>9. [P.node EXCEPT ![k].bytes = bytes] = node BY <1>2, <1>4, <1>6, <1>8
<1>10. [P EXCEPT !.node[k].bytes = bytes] = Q
  <2>1. PICK f, n, l, m :
          P = [freeList |-> f, node |-> n, last |-> l, mBuffers |-> m]
    BY <1>6
  <2>2. P.freeList = f /\ P.last = l /\ P.mBuffers = m BY <2>1
  <2>3. [P EXCEPT !.node = node] = Q BY <1>5, <2>1, <2>2
  <2> QED BY <1>9, <2>3
<1>11. y = [pool |-> Q, buffer |-> b]
  <2>1. x = [pool |-> P, buffer |-> b] BY <1>1 DEF Pair
  <2>2. y = [x EXCEPT !.pool.node[k].bytes = bytes] BY <1>1 DEF Rewritten
  <2>3. y = [x EXCEPT !.pool = Q] BY <1>1, <1>10, <2>2
  <2> QED BY <2>1, <2>3
<1>12. y.pool = Q /\ y.buffer = b BY <1>11
<1>13. Q.node = node /\ Q.freeList = P.freeList /\ Q.mBuffers = P.mBuffers /\ Q.last = P.last
  BY <1>5
<1>14. /\ DOMAIN node = DOMAIN P.node /\ node[k] = new
       /\ \A j \in DOMAIN P.node \ {k} : node[j] = P.node[j]
       /\ node = [j \in DOMAIN node |-> node[j]]
  BY <1>4, <1>6
<1>15. new.bytes = bytes /\ new.classIdx = old.classIdx BY <1>3
<1>16. Len(new.bytes) = Len(old.bytes) BY <1>1, <1>2, <1>15
<1>17. IsNode(new)
  <2>1. new = [classIdx |-> new.classIdx, bytes |-> new.bytes] BY <1>3, <1>15
  <2> QED BY <2>1, <1>7, <1>15, <1>16 DEF IsNode
<1>18. IsPool(Q)
  <2>1. \A j \in DOMAIN Q.node : IsNode(Q.node[j]) BY <1>6, <1>13, <1>14, <1>17
  <2>2. Q = [freeList |-> Q.freeList, node |-> Q.node, last |-> Q.last, mBuffers |-> Q.mBuffers]
    BY <1>5, <1>13
  <2>3. /\ P.freeList \in [Class -> Seq(Nat)] /\ P.last \in Nat /\ P.mBuffers \in Nat
        /\ DOMAIN P.node \subseteq 1 .. P.last
    BY <1>1 DEF IsPool
  <2> QED BY <2>1, <2>2, <2>3, <1>13, <1>14 DEF IsPool
<1>19. Only(Q, P, k) BY <1>2, <1>13, <1>14, <1>15, <1>16, <1>18 DEF Only
<1> QED BY <1>1, <1>11, <1>12, <1>13, <1>14, <1>15, <1>19 DEF Pair

\* Bytes are stored in the node, from a place on.
Stored(y, x, at, data) ==
    /\ Pair(y) /\ y.buffer = x.buffer
    /\ Only(y.pool, x.pool, x.buffer.node)
    /\ y.pool.node[x.buffer.node].bytes \in Seq(Nat)
    /\ \A i \in 1 .. Len(x.pool.node[x.buffer.node].bytes) :
          y.pool.node[x.buffer.node].bytes[i] =
              IF i - at \in 1 .. Len(data) THEN data[i - at]
              ELSE x.pool.node[x.buffer.node].bytes[i]

LEMMA StoreIs ==
    ASSUME NEW x, Pair(x), IsPool(x.pool), x.buffer.node \in DOMAIN x.pool.node,
           NEW at \in Int, NEW data \in Seq(Nat), NEW y, y = Store(x, at, data)
    PROVE Stored(y, x, at, data)
<1>1. PICK old : old = x.pool.node[x.buffer.node].bytes OBVIOUS
<1>2. old \in Seq(Nat) BY <1>1 DEF IsPool, IsNode
<1>3. Len(old) \in Nat /\ DOMAIN old = 1 .. Len(old) /\ DOMAIN data = 1 .. Len(data)
      /\ Len(data) \in Nat
  BY <1>2
<1>4. PICK new :
          new = [i \in 1 .. Len(old) |-> IF i - at \in 1 .. Len(data) THEN data[i - at] ELSE old[i]]
  OBVIOUS
<1>5. \A i \in 1 .. Len(old) : old[i] \in Nat BY <1>2, <1>3
<1>6. \A i \in 1 .. Len(data) : data[i] \in Nat BY <1>3
<1>7. \A i \in 1 .. Len(old) :
          new[i] \in Nat /\ new[i] = IF i - at \in 1 .. Len(data) THEN data[i - at] ELSE old[i]
  BY <1>4, <1>5, <1>6
<1>8. new \in Seq(Nat) /\ Len(new) = Len(old) BY <1>3, <1>4, <1>7
<1>9. y = Rewritten(x, new)
  <2>1. new = [i \in DOMAIN old |-> IF i - at \in DOMAIN data THEN data[i - at] ELSE old[i]]
    BY <1>3, <1>4
  <2> QED BY <1>1, <2>1 DEF Store, Rewritten
<1>10. /\ Pair(y) /\ y.buffer = x.buffer
       /\ Only(y.pool, x.pool, x.buffer.node)
       /\ y.pool.node[x.buffer.node].bytes = new
  BY <1>1, <1>8, <1>9, Rewrite
<1> QED BY <1>1, <1>7, <1>8, <1>10 DEF Stored

LEMMA InNodeFacts ==
    ASSUME NEW P, IsPool(P), NEW b, InNode(P, b)
    PROVE /\ b = [node |-> b.node, head |-> b.head, tail |-> b.tail]
          /\ b.node \in Nat /\ b.node # 0
          /\ b.head \in Nat /\ b.tail \in Nat /\ b.head <= b.tail
          /\ P.node[b.node].bytes \in Seq(Nat)
          /\ Len(P.node[b.node].bytes) \in Nat /\ b.tail <= Len(P.node[b.node].bytes)
          /\ Size(b) = b.tail - b.head
          /\ Capacity(P, b) = Len(P.node[b.node].bytes)
<1>1. b \in Buffer /\ b.node \in DOMAIN P.node /\ b.head \in Nat /\ b.head <= b.tail
      /\ b.tail <= Len(P.node[b.node].bytes)
  BY DEF InNode
<1>2. b.node \in Nat /\ b.node # 0
  <2>1. P.last \in Nat /\ DOMAIN P.node \subseteq 1 .. P.last BY DEF IsPool
  <2> QED BY <1>1, <2>1
<1>3. P.node[b.node].bytes \in Seq(Nat) BY <1>1 DEF IsPool, IsNode
<1>4. b = [node |-> b.node, head |-> b.head, tail |-> b.tail] /\ b.tail \in Int
  BY <1>1 DEF Buffer
<1>5. b.tail \in Nat BY <1>1, <1>4
<1>6. Len(P.node[b.node].bytes) \in Nat BY <1>3
<1> QED BY <1>1, <1>2, <1>3, <1>4, <1>5, <1>6 DEF Size, Capacity

LEMMA SubSeqIs ==
    ASSUME NEW s \in Seq(Nat), NEW h \in Nat, NEW m \in Nat, h + m <= Len(s),
           NEW d, d = SubSeq(s, h + 1, h + m)
    PROVE d \in Seq(Nat) /\ Len(d) = m /\ \A i \in 1 .. m : d[i] = s[h + i]
<1>1. Len(s) \in Nat OBVIOUS
<1>2. CASE m = 0
  <2>1. d = << >> BY <1>1, <1>2
  <2> QED BY <2>1, <1>2
<1>3. CASE m > 0
  <2>1. h + 1 \in 1 .. Len(s) + 1 /\ h + m \in h .. Len(s) BY <1>1
  <2>2. d \in Seq(Nat) BY <1>1, <2>1
  <2>3. Len(d) = m BY <1>1, <1>3
  <2>4. ASSUME NEW i \in 1 .. m PROVE d[i] = s[h + i]
    <3>1. i \in 1 .. (h + m - (h + 1) + 1) /\ h + 1 + i - 1 = h + i BY <1>1
    <3> QED BY <1>1, <1>3, <3>1
  <2> QED BY <2>2, <2>3, <2>4
<1> QED BY <1>2, <1>3

\* The data of b are d: what DataIs says of Data(P, b).
IsData(d, P, b) ==
    /\ d \in Seq(Nat)
    /\ Len(d) = b.tail - b.head
    /\ \A i \in 1 .. b.tail - b.head : d[i] = P.node[b.node].bytes[b.head + i]

LEMMA DataIs ==
    ASSUME NEW P, IsPool(P), NEW b, InNode(P, b)
    PROVE IsData(Data(P, b), P, b)
<1>1. PICK s, h, t : s = P.node[b.node].bytes /\ h = b.head /\ t = b.tail OBVIOUS
<1>2. s \in Seq(Nat) /\ h \in Nat /\ t \in Nat /\ h <= t /\ t <= Len(s) /\ Len(s) \in Nat
  BY <1>1, InNodeFacts
<1>3. Data(P, b) = SubSeq(s, h + 1, t) BY <1>1, InNodeFacts DEF Data
<1>4. PICK d : d = SubSeq(s, h + 1, t) OBVIOUS
<1>5. /\ d \in Seq(Nat) /\ Len(d) = t - h
      /\ \A i \in 1 .. t - h : d[i] = s[h + i]
  <2>1. CASE h = t
    <3>1. h + 1 \in Int /\ t \in Int /\ h + 1 > t BY <1>2, <2>1
    <3>2. d = << >> BY <1>2, <1>4, <3>1
    <3> QED BY <3>2, <1>2, <2>1
  <2>2. CASE h < t
    <3>1. h + 1 \in 1 .. Len(s) + 1 /\ t \in h .. Len(s) BY <1>2
    <3>2. d \in Seq(Nat) BY <1>2, <1>4
    <3>3. Len(d) = t - h BY <1>2, <1>4, <2>2
    <3>4. ASSUME NEW i \in 1 .. t - h PROVE d[i] = s[h + i]
      <4>1. i \in 1 .. (t - (h + 1) + 1) /\ h + 1 + i - 1 = h + i BY <1>2
      <4> QED BY <1>2, <1>4, <2>2, <4>1
    <3> QED BY <3>2, <3>3, <3>4
  <2> QED BY <1>2, <2>1, <2>2
<1> QED BY <1>1, <1>3, <1>4, <1>5 DEF IsData

IsConcat(f, s, t) ==
    /\ f \in Seq(Nat) /\ Len(f) = Len(s) + Len(t)
    /\ \A i \in 1 .. Len(s) + Len(t) : f[i] = IF i <= Len(s) THEN s[i] ELSE t[i - Len(s)]

LEMMA ConcatIs ==
    ASSUME NEW s \in Seq(Nat), NEW t \in Seq(Nat)
    PROVE IsConcat(s \o t, s, t)
BY ConcatProperties DEF IsConcat

\* Sequences with the same elements are equal.
LEMMA SameSequence ==
    ASSUME NEW s \in Seq(Nat), NEW t \in Seq(Nat), Len(s) = Len(t),
           \A i \in 1 .. Len(s) : s[i] = t[i]
    PROVE s = t
BY SeqEqual

LEMMA DataKept ==
    ASSUME NEW P, NEW Q, NEW b, InNode(P, b), b.node \in DOMAIN Q.node,
           Q.node[b.node] = P.node[b.node]
    PROVE InNode(Q, b) /\ Data(Q, b) = Data(P, b)
BY DEF InNode, Data

LEMMA InNodeFits ==
    ASSUME NEW x, IsPool(x.pool), InNode(x.pool, x.buffer)
    PROVE Fits(x)
<1>1. PICK P, b : P = x.pool /\ b = x.buffer OBVIOUS
<1>2. IsPool(P) /\ InNode(P, b) BY <1>1
<1>3. PICK c : c = Capacity(P, b) OBVIOUS
<1>4. /\ b.node # 0 /\ b.head \in Nat /\ b.tail \in Nat /\ b.head <= b.tail
      /\ b.tail <= c
  BY <1>2, <1>3, InNodeFacts
<1> QED BY <1>1, <1>3, <1>4 DEF Fits

\* The window h + 1 .. h + m of the bytes old is d; data is stored right after
\* it, and the window grows by it.
\* The hypotheses of WindowGrows but for types.
Window(d, old, h, m) == Len(d) = m /\ \A i \in 1 .. m : d[i] = old[h + i]
Overwritten(new, old, at, n, data) ==
    \A i \in 1 .. Len(old) : new[i] = IF i - at \in 1 .. n THEN data[i - at] ELSE old[i]

LEMMA WindowGrows ==
    ASSUME NEW old \in Seq(Nat), NEW new, NEW data \in Seq(Nat), NEW d \in Seq(Nat),
           NEW e \in Seq(Nat), NEW h \in Nat, NEW m \in Nat, NEW n \in Nat,
           h + m + n <= Len(old), Len(data) = n, Window(d, old, h, m),
           Overwritten(new, old, h + m, n, data), Window(e, new, h, m + n)
    PROVE e = d \o data
<1>1. PICK f : f = d \o data OBVIOUS
<1>2. IsConcat(f, d, data) BY <1>1, ConcatIs
<1>3. Len(d) = m /\ \A i \in 1 .. m : d[i] = old[h + i] BY DEF Window
<1>4. /\ f \in Seq(Nat) /\ Len(f) = m + n
      /\ \A i \in 1 .. m + n : f[i] = IF i <= m THEN d[i] ELSE data[i - m]
  BY <1>2, <1>3 DEF IsConcat
<1>5. Len(e) = m + n /\ \A i \in 1 .. m + n : e[i] = new[h + i] BY DEF Window
<1>6. \A i \in 1 .. Len(old) :
          new[i] = IF i - (h + m) \in 1 .. n THEN data[i - (h + m)] ELSE old[i]
  BY DEF Overwritten
<1>7. ASSUME NEW i \in 1 .. m + n PROVE e[i] = f[i]
  <2>1. PICK j \in Nat : j = h + i OBVIOUS
  <2>2. Len(old) \in Nat /\ j \in 1 .. Len(old)
    <3>1. Len(old) \in Nat OBVIOUS
    <3>2. j >= 1 /\ j <= h + m + n BY <2>1
    <3> QED BY <2>1, <3>1, <3>2
  <2>3. e[i] = new[j] BY <2>1, <1>5
  <2>4. CASE i <= m
    <3>1. ~ (j - (h + m) \in 1 .. n) /\ i \in 1 .. m BY <2>1, <2>4
    <3>2. new[j] = old[j] BY <2>2, <3>1, <1>6
    <3>3. d[i] = old[j] BY <2>1, <3>1, <1>3
    <3>4. f[i] = d[i] BY <1>4, <2>4
    <3> QED BY <2>3, <3>2, <3>3, <3>4
  <2>5. CASE ~ (i <= m)
    <3>1. j - (h + m) \in 1 .. n /\ j - (h + m) = i - m BY <2>1, <2>5
    <3>2. new[j] = data[i - m] BY <2>2, <3>1, <1>6
    <3>3. f[i] = data[i - m] BY <1>4, <2>5
    <3> QED BY <2>3, <3>2, <3>3
  <2> QED BY <2>4, <2>5
<1>8. Len(e) = Len(f) /\ \A i \in 1 .. Len(e) : e[i] = f[i] BY <1>4, <1>5, <1>7
<1> QED BY <1>1, <1>4, <1>8, SameSequence

Appended(y, x, data) ==
    /\ Pair(y)
    /\ y.buffer = [node |-> x.buffer.node, head |-> x.buffer.head,
                   tail |-> x.buffer.tail + Len(data)]
    /\ Only(y.pool, x.pool, x.buffer.node)
    /\ InNode(y.pool, y.buffer)
    /\ Data(y.pool, y.buffer) = Data(x.pool, x.buffer) \o data

LEMMA AppendIs ==
    ASSUME NEW x, Pair(x), IsPool(x.pool), InNode(x.pool, x.buffer), NEW data \in Seq(Nat),
           x.buffer.tail + Len(data) <= Len(x.pool.node[x.buffer.node].bytes),
           NEW y, y = AppendTo(x, data)
    PROVE Appended(y, x, data)
<1>1. PICK P, b, k, h, t, n :
          /\ P = x.pool /\ b = x.buffer /\ k = b.node /\ h = b.head /\ t = b.tail
          /\ n = Len(data)
  OBVIOUS
<1>2. /\ b = [node |-> k, head |-> h, tail |-> t]
      /\ k \in Nat /\ k # 0 /\ h \in Nat /\ t \in Nat /\ n \in Nat /\ h <= t
      /\ t <= Len(P.node[k].bytes) /\ Len(P.node[k].bytes) \in Nat
      /\ P.node[k].bytes \in Seq(Nat) /\ t + n <= Len(P.node[k].bytes)
      /\ k \in DOMAIN P.node
  <2>1. IsPool(P) /\ InNode(P, b) BY <1>1
  <2>2. /\ b = [node |-> b.node, head |-> b.head, tail |-> b.tail]
        /\ b.node \in Nat /\ b.node # 0
        /\ b.head \in Nat /\ b.tail \in Nat /\ b.head <= b.tail
        /\ P.node[b.node].bytes \in Seq(Nat)
        /\ Len(P.node[b.node].bytes) \in Nat /\ b.tail <= Len(P.node[b.node].bytes)
    BY <2>1, InNodeFacts
  <2>3. b.node \in DOMAIN P.node BY <2>1 DEF InNode
  <2>4. n \in Nat /\ t + n <= Len(P.node[k].bytes) BY <1>1
  <2> QED BY <1>1, <2>2, <2>3, <2>4
<1>3. PICK old, z, new : /\ old = P.node[k].bytes /\ z = Store(x, t, data)
                         /\ new = z.pool.node[k].bytes
  OBVIOUS
<1>4. Stored(z, x, t, data)
  <2>1. t \in Int /\ x.buffer.node \in DOMAIN x.pool.node BY <1>1, <1>2
  <2> QED BY <1>3, <2>1, StoreIs
<1>5. /\ Pair(z) /\ z.buffer = b /\ Only(z.pool, P, k)
      /\ new \in Seq(Nat) /\ Overwritten(new, old, t, n, data)
  BY <1>1, <1>3, <1>4 DEF Stored, Overwritten
<1>6. PICK c, R : c = [node |-> k, head |-> h, tail |-> t + n] /\ R = z.pool OBVIOUS
<1>7. c.node = k /\ c.head = h /\ c.tail = t + n BY <1>6
<1>8. y = [pool |-> R, buffer |-> c]
  <2>1. y = [z EXCEPT !.buffer.tail = @ + n] BY <1>1, <1>3 DEF AppendTo
  <2>2. [b EXCEPT !.tail = @ + n] = c
    <3>1. b = [node |-> k, head |-> h, tail |-> t] BY <1>2
    <3>2. PICK v : v = t + n OBVIOUS
    <3>3. b.tail + n = v BY <3>1, <3>2
    <3>4. [b EXCEPT !.tail = v] = c BY <1>6, <3>1, <3>2
    <3> QED BY <3>3, <3>4
  <2>3. z = [pool |-> R, buffer |-> b] BY <1>5, <1>6 DEF Pair
  <2>4. y = [z EXCEPT !.buffer = c] BY <2>1, <2>2, <2>3
  <2> QED BY <2>3, <2>4
<1>9. y.pool = R /\ y.buffer = c /\ Pair(y) BY <1>8 DEF Pair
<1>10. /\ IsPool(R) /\ k \in DOMAIN R.node /\ R.node[k].bytes = new
       /\ Len(new) = Len(old)
  BY <1>2, <1>3, <1>5, <1>6 DEF Only
<1>11. InNode(R, c)
  <2>1. c \in Buffer BY <1>2, <1>6 DEF Buffer
  <2> QED BY <2>1, <1>2, <1>3, <1>7, <1>10 DEF InNode
<1>12. PICK d, e, m : d = Data(P, b) /\ e = Data(R, c) /\ m = t - h OBVIOUS
<1>13. m \in Nat /\ t = h + m /\ m + n = t + n - h BY <1>2, <1>12
<1>14. IsData(d, P, b) /\ IsData(e, R, c) BY <1>1, <1>10, <1>11, <1>12, DataIs
<1>15. d \in Seq(Nat) /\ Window(d, old, h, m)
  <2>1. Len(d) = t - h /\ \A i \in 1 .. t - h : d[i] = old[h + i]
    BY <1>1, <1>3, <1>14 DEF IsData
  <2> QED BY <2>1, <1>12, <1>14 DEF Window, IsData
<1>16. e \in Seq(Nat) /\ Window(e, new, h, m + n)
  <2>1. PICK w : w = m + n OBVIOUS
  <2>2. c.tail - c.head = w /\ c.head = h /\ R.node[c.node].bytes = new
    <3>1. c.tail - c.head = w BY <1>2, <1>7, <1>13, <2>1
    <3> QED BY <1>7, <1>10, <3>1
  <2>3. e \in Seq(Nat) /\ Len(e) = w /\ \A i \in 1 .. w : e[i] = new[h + i]
    BY <1>14, <2>2 DEF IsData
  <2> QED BY <2>1, <2>3 DEF Window
<1>17. e = d \o data
  <2>1. Overwritten(new, old, h + m, n, data) BY <1>5, <1>13
  <2>2. old \in Seq(Nat) /\ h + m + n <= Len(old) /\ Len(data) = n BY <1>1, <1>2, <1>3, <1>13
  <2> QED BY <1>2, <1>13, <1>15, <1>16, <2>1, <2>2, WindowGrows
<1> QED BY <1>1, <1>5, <1>6, <1>9, <1>11, <1>12, <1>17 DEF Appended

\* Data is put in front of the window, which grows by it.
LEMMA WindowGrowsBack ==
    ASSUME NEW old \in Seq(Nat), NEW new, NEW data \in Seq(Nat), NEW d \in Seq(Nat),
           NEW e \in Seq(Nat), NEW h \in Nat, NEW m \in Nat, NEW n \in Nat,
           h + n + m <= Len(old), Len(data) = n, Window(d, old, h + n, m),
           Overwritten(new, old, h, n, data), Window(e, new, h, n + m)
    PROVE e = data \o d
<1>1. PICK f : f = data \o d OBVIOUS
<1>2. IsConcat(f, data, d) BY <1>1, ConcatIs
<1>3. Len(d) = m /\ \A i \in 1 .. m : d[i] = old[h + n + i] BY DEF Window
<1>4. /\ f \in Seq(Nat) /\ Len(f) = n + m
      /\ \A i \in 1 .. n + m : f[i] = IF i <= n THEN data[i] ELSE d[i - n]
  BY <1>2, <1>3 DEF IsConcat
<1>5. Len(e) = n + m /\ \A i \in 1 .. n + m : e[i] = new[h + i] BY DEF Window
<1>6. \A i \in 1 .. Len(old) : new[i] = IF i - h \in 1 .. n THEN data[i - h] ELSE old[i]
  BY DEF Overwritten
<1>7. ASSUME NEW i \in 1 .. n + m PROVE e[i] = f[i]
  <2>1. PICK j \in Nat : j = h + i OBVIOUS
  <2>2. Len(old) \in Nat /\ j \in 1 .. Len(old)
    <3>1. Len(old) \in Nat OBVIOUS
    <3>2. j >= 1 /\ j <= h + n + m BY <2>1
    <3> QED BY <2>1, <3>1, <3>2
  <2>3. e[i] = new[j] BY <2>1, <1>5
  <2>4. CASE i <= n
    <3>1. j - h \in 1 .. n /\ j - h = i BY <2>1, <2>4
    <3>2. new[j] = data[i] BY <2>2, <3>1, <1>6
    <3>3. f[i] = data[i] BY <1>4, <2>4
    <3> QED BY <2>3, <3>2, <3>3
  <2>5. CASE ~ (i <= n)
    <3>1. ~ (j - h \in 1 .. n) /\ i - n \in 1 .. m /\ h + n + (i - n) = j BY <2>1, <2>5
    <3>2. new[j] = old[j] BY <2>2, <3>1, <1>6
    <3>3. d[i - n] = old[j] BY <3>1, <1>3
    <3>4. f[i] = d[i - n] BY <1>4, <2>5
    <3> QED BY <2>3, <3>2, <3>3, <3>4
  <2> QED BY <2>4, <2>5
<1>8. Len(e) = Len(f) /\ \A i \in 1 .. Len(e) : e[i] = f[i] BY <1>4, <1>5, <1>7
<1> QED BY <1>1, <1>4, <1>8, SameSequence

Prepended(y, x, data) ==
    /\ Pair(y)
    /\ y.buffer = [node |-> x.buffer.node, head |-> x.buffer.head - Len(data),
                   tail |-> x.buffer.tail]
    /\ Only(y.pool, x.pool, x.buffer.node)
    /\ InNode(y.pool, y.buffer)
    /\ Data(y.pool, y.buffer) = data \o Data(x.pool, x.buffer)

LEMMA PrependIs ==
    ASSUME NEW x, Pair(x), IsPool(x.pool), InNode(x.pool, x.buffer), NEW data \in Seq(Nat),
           Len(data) <= x.buffer.head, NEW y, y = PrependTo(x, data)
    PROVE Prepended(y, x, data)
<1>1. PICK P, b, k, h, t, n :
          /\ P = x.pool /\ b = x.buffer /\ k = b.node /\ h = b.head - Len(data) /\ t = b.tail
          /\ n = Len(data)
  OBVIOUS
<1>2. /\ b = [node |-> k, head |-> h + n, tail |-> t]
      /\ k \in Nat /\ k # 0 /\ h \in Nat /\ t \in Nat /\ n \in Nat /\ h + n <= t
      /\ t <= Len(P.node[k].bytes) /\ Len(P.node[k].bytes) \in Nat
      /\ P.node[k].bytes \in Seq(Nat)
      /\ k \in DOMAIN P.node
  <2>1. IsPool(P) /\ InNode(P, b) BY <1>1
  <2>2. /\ b = [node |-> b.node, head |-> b.head, tail |-> b.tail]
        /\ b.node \in Nat /\ b.node # 0
        /\ b.head \in Nat /\ b.tail \in Nat /\ b.head <= b.tail
        /\ P.node[b.node].bytes \in Seq(Nat)
        /\ Len(P.node[b.node].bytes) \in Nat /\ b.tail <= Len(P.node[b.node].bytes)
    BY <2>1, InNodeFacts
  <2>3. b.node \in DOMAIN P.node BY <2>1 DEF InNode
  <2>4. n \in Nat /\ h \in Nat /\ b.head = h + n BY <1>1, <2>2
  <2> QED BY <1>1, <2>2, <2>3, <2>4
<1>3. PICK old, z, new : /\ old = P.node[k].bytes /\ z = Store(x, h, data)
                         /\ new = z.pool.node[k].bytes
  OBVIOUS
<1>4. Stored(z, x, h, data)
  <2>1. h \in Int /\ x.buffer.node \in DOMAIN x.pool.node BY <1>1, <1>2
  <2> QED BY <1>3, <2>1, StoreIs
<1>5. /\ Pair(z) /\ z.buffer = b /\ Only(z.pool, P, k)
      /\ new \in Seq(Nat) /\ Overwritten(new, old, h, n, data)
  BY <1>1, <1>3, <1>4 DEF Stored, Overwritten
<1>6. PICK c, R : c = [node |-> k, head |-> h, tail |-> t] /\ R = z.pool OBVIOUS
<1>7. c.node = k /\ c.head = h /\ c.tail = t BY <1>6
<1>8. y = [pool |-> R, buffer |-> c]
  <2>1. y = [z EXCEPT !.buffer.head = h] BY <1>1, <1>3 DEF PrependTo
  <2>2. [b EXCEPT !.head = h] = c
    <3>1. PICK v : v = h + n OBVIOUS
    <3>2. b = [node |-> k, head |-> v, tail |-> t] BY <1>2, <3>1
    <3> QED BY <1>6, <3>2
  <2>3. z = [pool |-> R, buffer |-> b] BY <1>5, <1>6 DEF Pair
  <2>4. y = [z EXCEPT !.buffer = c] BY <2>1, <2>2, <2>3
  <2> QED BY <2>3, <2>4
<1>9. y.pool = R /\ y.buffer = c /\ Pair(y) BY <1>8 DEF Pair
<1>10. /\ IsPool(R) /\ k \in DOMAIN R.node /\ R.node[k].bytes = new
       /\ Len(new) = Len(old)
  BY <1>2, <1>3, <1>5, <1>6 DEF Only
<1>11. InNode(R, c)
  <2>1. c \in Buffer BY <1>2, <1>6 DEF Buffer
  <2>2. h <= t BY <1>2
  <2> QED BY <2>1, <2>2, <1>2, <1>3, <1>7, <1>10 DEF InNode
<1>12. PICK d, e, m : d = Data(P, b) /\ e = Data(R, c) /\ m = t - (h + n) OBVIOUS
<1>13. m \in Nat /\ n + m = t - h /\ h + n + m = t BY <1>2, <1>12
<1>14. IsData(d, P, b) /\ IsData(e, R, c) BY <1>1, <1>10, <1>11, <1>12, DataIs
<1>15. d \in Seq(Nat) /\ Window(d, old, h + n, m)
  <2>1. PICK g : g = h + n OBVIOUS
  <2>2. b.tail - b.head = m /\ b.head = g /\ P.node[b.node].bytes = old
    BY <1>1, <1>2, <1>3, <1>12, <2>1
  <2>3. d \in Seq(Nat) /\ Len(d) = m /\ \A i \in 1 .. m : d[i] = old[g + i]
    BY <1>14, <2>2 DEF IsData
  <2> QED BY <2>1, <2>3 DEF Window
<1>16. e \in Seq(Nat) /\ Window(e, new, h, n + m)
  <2>1. PICK w : w = n + m OBVIOUS
  <2>2. c.tail - c.head = w /\ c.head = h /\ R.node[c.node].bytes = new
    BY <1>7, <1>10, <1>13, <2>1
  <2>3. e \in Seq(Nat) /\ Len(e) = w /\ \A i \in 1 .. w : e[i] = new[h + i]
    BY <1>14, <2>2 DEF IsData
  <2> QED BY <2>1, <2>3 DEF Window
<1>17. e = data \o d
  <2>1. old \in Seq(Nat) /\ h + n + m <= Len(old) /\ Len(data) = n BY <1>1, <1>2, <1>3, <1>13
  <2> QED BY <1>2, <1>5, <1>13, <1>15, <1>16, <2>1, WindowGrowsBack
<1> QED BY <1>1, <1>5, <1>6, <1>9, <1>11, <1>12, <1>17 DEF Prepended

LEMMA ClearIs ==
    ASSUME NEW x, Pair(x), IsPool(x.pool), x.buffer \in Buffer,
           x.buffer.node \in DOMAIN x.pool.node, NEW y, y = Clear(x)
    PROVE /\ Pair(y) /\ y.buffer = [node |-> x.buffer.node, head |-> 0, tail |-> 0]
          /\ Only(y.pool, x.pool, x.buffer.node)
          /\ InNode(y.pool, y.buffer)
<1>1. PICK P, b, k, old : P = x.pool /\ b = x.buffer /\ k = b.node /\ old = P.node[k].bytes
  OBVIOUS
<1>2. old \in Seq(Nat) BY <1>1 DEF IsPool, IsNode
<1>3. PICK new : new = [i \in DOMAIN old |-> Blank] OBVIOUS
<1>4. new \in Seq(Nat) /\ Len(new) = Len(old) /\ Len(old) \in Nat BY <1>2, <1>3 DEF Blank
<1>5. PICK z : z = Rewritten(x, new) OBVIOUS
<1>6. /\ Pair(z) /\ z.buffer = b /\ Only(z.pool, P, k) /\ z.pool.node[k].bytes = new
  <2>1. Len(new) = Len(x.pool.node[x.buffer.node].bytes) BY <1>1, <1>4
  <2>2. /\ Pair(z) /\ z.buffer = x.buffer
        /\ Only(z.pool, x.pool, x.buffer.node)
        /\ z.pool.node[x.buffer.node].bytes = new
    BY <1>4, <1>5, <2>1, Rewrite
  <2> QED BY <1>1, <2>2
<1>7. PICK c, R : c = [node |-> k, head |-> 0, tail |-> 0] /\ R = z.pool OBVIOUS
<1>8. y = [pool |-> R, buffer |-> c]
  <2>1. b = [node |-> k, head |-> b.head, tail |-> b.tail] BY <1>1 DEF Buffer
  <2>2. PICK u, h, t : b = [node |-> k, head |-> h, tail |-> t] /\ x = [pool |-> u, buffer |-> b]
    BY <1>1, <2>1 DEF Pair
  <2>3. [b EXCEPT !.head = 0, !.tail = 0] = c
    <3>1. [b EXCEPT !.head = 0] = [node |-> k, head |-> 0, tail |-> t] BY <2>2
    <3>2. PICK a : a = [b EXCEPT !.head = 0] OBVIOUS
    <3>3. a = [node |-> k, head |-> 0, tail |-> t] BY <3>1, <3>2
    <3>4. [a EXCEPT !.tail = 0] = c BY <1>7, <3>3
    <3> QED BY <3>2, <3>4
  <2>4. z = [pool |-> R, buffer |-> b] BY <1>6, <1>7 DEF Pair
  <2>5. y = [z EXCEPT !.buffer = c]
    <3>1. PICK v : v = [x EXCEPT !.buffer.head = 0, !.buffer.tail = 0] OBVIOUS
    <3>2. v = [pool |-> u, buffer |-> c] BY <2>2, <2>3, <3>1
    <3>3. y = [v EXCEPT !.pool.node[k].bytes = new]
      BY <1>1, <1>3, <2>2, <3>1, <3>2 DEF Clear
    <3>4. PICK w : w = [u EXCEPT !.node[k].bytes = new] OBVIOUS
    <3>5. y = [pool |-> w, buffer |-> c] BY <3>2, <3>3, <3>4
    <3>6. z = [pool |-> w, buffer |-> b]
      <4>1. z = [x EXCEPT !.pool.node[k].bytes = new] BY <1>1, <1>5 DEF Rewritten
      <4>2. x = [pool |-> u, buffer |-> b] BY <2>2
      <4> QED BY <3>4, <4>1, <4>2
    <3> QED BY <3>5, <3>6
  <2> QED BY <2>4, <2>5
<1>9. y.pool = R /\ y.buffer = c /\ Pair(y) BY <1>8 DEF Pair
<1>10. c.node = k /\ c.head = 0 /\ c.tail = 0 /\ c \in Buffer
  <2>1. k \in Int BY <1>1 DEF Buffer
  <2> QED BY <2>1, <1>7 DEF Buffer
<1>11. InNode(R, c)
  <2>1. k \in DOMAIN R.node /\ R.node[k].bytes = new BY <1>1, <1>6, <1>7 DEF Only
  <2> QED BY <2>1, <1>4, <1>10 DEF InNode
<1> QED BY <1>1, <1>6, <1>7, <1>9, <1>11

LEMMA ReserveIs ==
    ASSUME NEW x, Pair(x), IsPool(x.pool), x.buffer \in Buffer,
           x.buffer.node \in DOMAIN x.pool.node,
           NEW n \in Nat, n <= Len(x.pool.node[x.buffer.node].bytes),
           NEW y, y = ReserveHead(x, n)
    PROVE /\ Pair(y) /\ y.buffer = [node |-> x.buffer.node, head |-> n, tail |-> n]
          /\ y.pool = x.pool
          /\ InNode(y.pool, y.buffer)
          /\ Data(y.pool, y.buffer) = << >>
<1>1. PICK P, k, h, t : x = [pool |-> P, buffer |-> [node |-> k, head |-> h, tail |-> t]]
                        /\ k \in Int
  BY DEF Pair, Buffer
<1>2. PICK c : c = [node |-> k, head |-> n, tail |-> n] OBVIOUS
<1>3. y = [pool |-> P, buffer |-> c] BY <1>1, <1>2 DEF ReserveHead
<1>4. /\ x.pool = P /\ x.buffer.node = k /\ y.pool = P /\ y.buffer = c
      /\ c.node = k /\ c.head = n /\ c.tail = n
  BY <1>1, <1>2, <1>3
<1>5. InNode(P, c) BY <1>1, <1>2, <1>4 DEF InNode, Buffer
<1>6. Data(P, c) = << >>
  <2>1. PICK d : d = Data(P, c) OBVIOUS
  <2>2. IsData(d, P, c) BY <1>4, <1>5, <2>1, DataIs
  <2>3. d \in Seq(Nat) /\ Len(d) = n - n BY <1>4, <2>2 DEF IsData
  <2> QED BY <2>1, <2>3
<1> QED BY <1>2, <1>3, <1>4, <1>5, <1>6 DEF Pair

LEMMA ConsumeIs ==
    ASSUME NEW P, IsPool(P), NEW b, InNode(P, b), NEW n \in Nat, n <= Size(b),
           NEW c, c = ConsumeFront(b, n)
    PROVE /\ InNode(P, c) /\ c.node = b.node
          /\ Data(P, c) = SubSeq(Data(P, b), n + 1, Len(Data(P, b)))
<1>1. PICK k, h, t, old : k = b.node /\ h = b.head /\ t = b.tail /\ old = P.node[k].bytes OBVIOUS
<1>2. /\ b = [node |-> k, head |-> h, tail |-> t]
      /\ k \in Nat /\ k # 0 /\ h \in Nat /\ t \in Nat /\ h <= t
      /\ old \in Seq(Nat) /\ Len(old) \in Nat /\ t <= Len(old) /\ Size(b) = t - h
  BY <1>1, InNodeFacts
<1>3. c = [node |-> k, head |-> h + n, tail |-> t] BY <1>2 DEF ConsumeFront
<1>4. c.node = k /\ c.head = h + n /\ c.tail = t BY <1>3
<1>5. InNode(P, c)
  <2>1. k \in DOMAIN P.node BY <1>1 DEF InNode
  <2>2. h + n \in Nat /\ h + n <= t BY <1>2
  <2> QED BY <2>1, <2>2, <1>1, <1>2, <1>3, <1>4 DEF InNode, Buffer
<1>6. PICK d, e, m : d = Data(P, b) /\ e = Data(P, c) /\ m = t - (h + n) OBVIOUS
<1>7. m \in Nat /\ t - h = n + m BY <1>2, <1>6
<1>8. IsData(d, P, b) /\ IsData(e, P, c) BY <1>5, <1>6, DataIs
<1>9. d \in Seq(Nat) /\ Len(d) = n + m /\ \A i \in 1 .. n + m : d[i] = old[h + i]
  <2>1. b.tail - b.head = n + m /\ b.head = h /\ P.node[b.node].bytes = old BY <1>1, <1>7
  <2>2. PICK w : w = n + m OBVIOUS
  <2>3. d \in Seq(Nat) /\ Len(d) = w /\ \A i \in 1 .. w : d[i] = old[h + i]
    BY <1>8, <2>1, <2>2 DEF IsData
  <2> QED BY <2>2, <2>3
<1>10. e \in Seq(Nat) /\ Len(e) = m /\ \A i \in 1 .. m : e[i] = old[h + n + i]
  <2>1. PICK g : g = h + n OBVIOUS
  <2>2. c.tail - c.head = m /\ c.head = g /\ P.node[c.node].bytes = old
    BY <1>1, <1>4, <1>6, <2>1
  <2>3. e \in Seq(Nat) /\ Len(e) = m /\ \A i \in 1 .. m : e[i] = old[g + i]
    BY <1>8, <2>2 DEF IsData
  <2> QED BY <2>1, <2>3
<1>11. PICK f : f = SubSeq(d, n + 1, n + m) OBVIOUS
<1>12. f \in Seq(Nat) /\ Len(f) = m /\ \A i \in 1 .. m : f[i] = d[n + i]
  BY <1>7, <1>9, <1>11, SubSeqIs
<1>13. \A i \in 1 .. m : e[i] = f[i]
  <2>1. ASSUME NEW i \in 1 .. m PROVE e[i] = f[i]
    <3>1. n + i \in 1 .. n + m /\ h + (n + i) = h + n + i BY <1>2, <1>7
    <3> QED BY <3>1, <1>9, <1>10, <1>12
  <2> QED BY <2>1
<1>14. e = f BY <1>10, <1>12, <1>13, SameSequence
<1> QED BY <1>1, <1>4, <1>5, <1>6, <1>9, <1>11, <1>14
-----------------------------------------------------------------------------
(***************************************************************************)
(* A peer's buffers: one of its own, b, and those in a queue q.            *)
(***************************************************************************)
Used(b, q) == ({b.node} \cup {q[i].buffer.node : i \in DOMAIN q}) \ {0}

\* No two of them share a node.
Distinct(b, q) ==
    /\ \A i \in DOMAIN q : q[i].buffer.node # 0 => q[i].buffer.node # b.node
    /\ \A i, j \in DOMAIN q :
          q[i].buffer.node # 0 /\ q[i].buffer.node = q[j].buffer.node => i = j

LEMMA PoolsSoundFor ==
    ASSUME NEW P, NEW b, NEW X, NEW q \in Seq(X), PoolFor(P, Used(b, q)), Distinct(b, q)
    PROVE Sound(P, Buffers(b, q))
<1>1. PICK all, S, order :
          /\ all = [i \in {0} \cup DOMAIN q |-> IF i = 0 THEN b ELSE q[i].buffer]
          /\ S = {i \in DOMAIN all : all[i].node # 0}
          /\ order = SetToSeq(S)
  <2>1. PICK all : all = [i \in {0} \cup DOMAIN q |-> IF i = 0 THEN b ELSE q[i].buffer]
    OBVIOUS
  <2>2. PICK S : S = {i \in DOMAIN all : all[i].node # 0} OBVIOUS
  <2> QED BY <2>1, <2>2
<1>2. PICK bs : bs = [n \in DOMAIN order |-> all[order[n]]] OBVIOUS
<1>3. Buffers(b, q) = bs BY <1>1, <1>2, SMTT(30) DEF Buffers
<1>4. Len(q) \in Nat /\ DOMAIN q = 1 .. Len(q) OBVIOUS
<1>5. /\ DOMAIN all = {0} \cup 1 .. Len(q)
      /\ all[0] = b
      /\ \A i \in 1 .. Len(q) : i # 0 /\ all[i] = q[i].buffer
  BY <1>1, <1>4
<1>6. IsFiniteSet(S)
  <2>1. S \subseteq 0 .. Len(q) BY <1>1, <1>4, <1>5
  <2>2. IsFiniteSet(0 .. Len(q)) BY <1>4, FS_Interval
  <2> QED BY <2>1, <2>2, FS_Subset
<1>7. /\ order \in Seq(S) /\ ToSet(order) = S /\ IsInjective(order)
      /\ Len(order) = Cardinality(S)
  BY <1>1, <1>6, SetToSeqIs
<1>8. PICK n : n = Len(order) OBVIOUS
<1>9. n \in Nat /\ DOMAIN order = 1 .. n BY <1>7, <1>8
<1>10. /\ \A m \in 1 .. n : order[m] \in S
       /\ \A i \in S : \E m \in 1 .. n : order[m] = i
       /\ \A m, k \in 1 .. n : order[m] = order[k] => m = k
  <2>1. \A m \in 1 .. n : order[m] \in S BY <1>7, <1>9
  <2>2. \A i \in S : \E m \in 1 .. n : order[m] = i
    <3>1. \A i \in ToSet(order) : \E m \in DOMAIN order : order[m] = i BY DEF ToSet
    <3> QED BY <3>1, <1>7, <1>9
  <2>3. \A m, k \in 1 .. n : order[m] = order[k] => m = k BY <1>7, <1>9 DEF IsInjective
  <2> QED BY <2>1, <2>2, <2>3
<1>11. DOMAIN bs = 1 .. n /\ \A m \in 1 .. n : bs[m] = all[order[m]] BY <1>2, <1>9
<1>12. Len(bs) = n BY <1>2, <1>9, <1>11
<1>13. PICK U : U = Used(b, q) OBVIOUS
<1>14. U = {all[i].node : i \in S} BY <1>1, <1>4, <1>5, <1>13 DEF Used
<1>15. \A i, j \in S : all[i].node = all[j].node => i = j
  <2>1. \A i \in S : (i = 0 \/ i \in 1 .. Len(q)) /\ all[i].node # 0 BY <1>1, <1>5
  <2>2. \A i \in 1 .. Len(q) : q[i].buffer.node # 0 => q[i].buffer.node # b.node
    BY <1>4 DEF Distinct
  <2>3. \A i, j \in 1 .. Len(q) :
            q[i].buffer.node # 0 /\ q[i].buffer.node = q[j].buffer.node => i = j
    BY <1>4 DEF Distinct
  <2> QED BY <2>1, <2>2, <2>3, <1>5
<1>16. PICK f : f = [m \in 1 .. n |-> all[order[m]].node] OBVIOUS
<1>17. f \in Bijection(1 .. n, U)
  <2>1. f \in [1 .. n -> U] BY <1>10, <1>14, <1>16
  <2>2. IsInjective(f)
    <3>1. DOMAIN f = 1 .. n BY <1>16
    <3>2. ASSUME NEW m \in 1 .. n, NEW k \in 1 .. n, f[m] = f[k] PROVE m = k
      <4>1. all[order[m]].node = all[order[k]].node BY <1>16, <3>2
      <4>2. order[m] = order[k] BY <4>1, <1>10, <1>15
      <4> QED BY <4>2, <1>10
    <3> QED BY <3>1, <3>2 DEF IsInjective
  <2>3. \A u \in U : \E m \in 1 .. n : f[m] = u BY <1>10, <1>14, <1>16
  <2> QED BY <2>1, <2>2, <2>3 DEF Bijection, Injection, Surjection
<1>18. Cardinality(U) = n
  <2>1. ExistsBijection(1 .. n, U) BY <1>17 DEF ExistsBijection
  <2> QED BY <2>1, <1>9, FS_CountingElements
<1>19. Owned(bs) = U
  <2>1. Owned(bs) = {all[order[m]].node : m \in 1 .. n} BY <1>11 DEF Owned
  <2> QED BY <2>1, <1>10, <1>14
<1> QED BY <1>3, <1>12, <1>13, <1>18, <1>19, PoolForIsSound

\* An entry joins the queue, and the first one leaves it.
Pushed(r, b, q, X, e) ==
    /\ r \in Seq(X) /\ Distinct(b, r)
    /\ Used(b, r) = Used(b, q) \cup ({e.buffer.node} \ {0})
    /\ DOMAIN r = 1 .. Len(q) + 1 /\ r[Len(q) + 1] = e
    /\ DOMAIN q = 1 .. Len(q) /\ Len(q) \in Nat
    /\ \A i \in 1 .. Len(q) : r[i] = q[i]
Popped(r, b, q, X) ==
    /\ r \in Seq(X) /\ Distinct(b, r) /\ Head(q) \in X /\ Head(q) = q[1]
    /\ 1 \in DOMAIN q
    /\ Used(b, r) = Used(b, q) \ {Head(q).buffer.node}
    /\ Head(q).buffer.node # 0 =>
          Head(q).buffer.node \in Used(b, q) /\ Head(q).buffer.node # b.node
    /\ \A i \in DOMAIN r : i + 1 \in DOMAIN q /\ i + 1 # 1 /\ r[i] = q[i + 1]

\* An entry with a buffer nobody has is queued.
LEMMA QueueGrows ==
    ASSUME NEW b, NEW X, NEW q \in Seq(X), NEW e \in X, Distinct(b, q),
           e.buffer.node \notin Used(b, q), NEW r, r = Append(q, e)
    PROVE Pushed(r, b, q, X, e)
<1>1. /\ r \in Seq(X) /\ Len(r) = Len(q) + 1 /\ r[Len(q) + 1] = e
      /\ \A i \in 1 .. Len(q) : r[i] = q[i]
  BY AppendProperties
<1>2. Len(q) \in Nat /\ DOMAIN q = 1 .. Len(q) /\ DOMAIN r = 1 .. Len(q) + 1 BY <1>1
<1>3. \A i \in 1 .. Len(q) + 1 : i = Len(q) + 1 \/ i \in 1 .. Len(q) BY <1>2
<1>4. 1 .. Len(q) \subseteq 1 .. Len(q) + 1 /\ Len(q) + 1 \in 1 .. Len(q) + 1 BY <1>2
<1>5. Used(b, r) = Used(b, q) \cup ({e.buffer.node} \ {0}) BY <1>1, <1>2, <1>3, <1>4 DEF Used
<1>6. e.buffer.node # 0 => /\ e.buffer.node # b.node
                           /\ \A i \in 1 .. Len(q) : q[i].buffer.node # e.buffer.node
  BY <1>2 DEF Used
<1>7. Distinct(b, r)
  <2>1. \A i \in 1 .. Len(q) + 1 : r[i].buffer.node # 0 => r[i].buffer.node # b.node
    BY <1>1, <1>2, <1>3, <1>6 DEF Distinct
  <2>2. ASSUME NEW i \in 1 .. Len(q) + 1, NEW j \in 1 .. Len(q) + 1,
               r[i].buffer.node # 0, r[i].buffer.node = r[j].buffer.node
        PROVE i = j
    <3>1. CASE i \in 1 .. Len(q) /\ j \in 1 .. Len(q)
      BY <3>1, <2>2, <1>1, <1>2 DEF Distinct
    <3>2. CASE i \in 1 .. Len(q) /\ j = Len(q) + 1 BY <3>2, <2>2, <1>1, <1>6
    <3>3. CASE i = Len(q) + 1 /\ j \in 1 .. Len(q) BY <3>3, <2>2, <1>1, <1>6
    <3> QED BY <3>1, <3>2, <3>3, <1>3
  <2> QED BY <2>1, <2>2, <1>2 DEF Distinct
<1> QED BY <1>1, <1>2, <1>5, <1>7 DEF Pushed

\* The first entry leaves.
LEMMA QueueShrinks ==
    ASSUME NEW b, NEW X, NEW q \in Seq(X), q # << >>, Distinct(b, q), NEW r, r = Tail(q)
    PROVE Popped(r, b, q, X)
<1>1. /\ r \in Seq(X) /\ Len(r) = Len(q) - 1
      /\ \A i \in 1 .. Len(r) : r[i] = q[i + 1]
  BY HeadTailProperties
<1>2. Len(q) \in Nat /\ Len(q) > 0 /\ DOMAIN q = 1 .. Len(q) /\ Head(q) = q[1] BY EmptySeq
<1>3. DOMAIN r = 1 .. Len(r) /\ Len(r) \in Nat BY <1>1
<1>4. \A i \in DOMAIN r : i + 1 \in DOMAIN q /\ i + 1 # 1 /\ r[i] = q[i + 1] BY <1>1, <1>2, <1>3
<1>5. \A i \in DOMAIN q : i = 1 \/ (i - 1 \in DOMAIN r /\ r[i - 1] = q[i])
  <2>1. \A i \in 1 .. Len(q) : i = 1 \/ (i - 1 \in 1 .. Len(r) /\ (i - 1) + 1 = i)
    BY <1>1, <1>2
  <2> QED BY <2>1, <1>1, <1>2, <1>3
<1>6. 1 \in DOMAIN q /\ Head(q) \in X BY <1>2
<1>7. PICK k : k = Head(q).buffer.node OBVIOUS
<1>8. \A i \in DOMAIN r : r[i].buffer.node # 0 => r[i].buffer.node # k
  BY <1>2, <1>4, <1>6, <1>7 DEF Distinct
<1>9. k # 0 => k \in Used(b, q) /\ k # b.node BY <1>2, <1>6, <1>7 DEF Used, Distinct
<1>10. Used(b, r) = Used(b, q) \ {k}
  <2>1. Used(b, r) \subseteq Used(b, q) \ {k} BY <1>4, <1>8, <1>9 DEF Used
  <2>2. ASSUME NEW u \in Used(b, q), u # k PROVE u \in Used(b, r)
    <3>1. u # 0 /\ (u = b.node \/ \E i \in DOMAIN q : u = q[i].buffer.node) BY DEF Used
    <3>2. CASE u = b.node BY <3>1, <3>2 DEF Used
    <3>3. CASE \E i \in DOMAIN q : u = q[i].buffer.node
      <4>1. PICK i \in DOMAIN q : u = q[i].buffer.node BY <3>3
      <4>2. i # 1 BY <4>1, <2>2, <1>2, <1>7
      <4>3. i - 1 \in DOMAIN r /\ r[i - 1] = q[i] BY <4>2, <1>5
      <4>4. \E j \in DOMAIN r : u = r[j].buffer.node BY <4>1, <4>3
      <4> QED BY <3>1, <4>4 DEF Used
    <3> QED BY <3>1, <3>2, <3>3
  <2> QED BY <2>1, <2>2
<1>11. Distinct(b, r)
  <2>1. \A i \in DOMAIN r : r[i].buffer.node # 0 => r[i].buffer.node # b.node
    BY <1>4 DEF Distinct
  <2>2. ASSUME NEW i \in DOMAIN r, NEW j \in DOMAIN r, r[i].buffer.node # 0,
               r[i].buffer.node = r[j].buffer.node
        PROVE i = j
    <3>1. i + 1 = j + 1 BY <2>2, <1>4 DEF Distinct
    <3>2. i \in Nat /\ j \in Nat BY <1>3
    <3> QED BY <3>1, <3>2
  <2> QED BY <2>1, <2>2 DEF Distinct
<1> QED BY <1>1, <1>2, <1>4, <1>6, <1>7, <1>9, <1>10, <1>11 DEF Popped

\* All of them are given back at the end of a session.
LEMMA EndFrees ==
    ASSUME NEW P, NEW b, NEW X, NEW q \in Seq(X), PoolFor(P, Used(b, q)), Distinct(b, q),
           NEW N, N = FreeAll(P, {b} \cup {q[i].buffer : i \in DOMAIN q})
    PROVE /\ PoolFor(N, Used(NullBuffer, << >>)) /\ Distinct(NullBuffer, << >>)
          /\ N.mBuffers = 0
<1>1. PICK B : B = {b} \cup {q[i].buffer : i \in DOMAIN q} OBVIOUS
<1>2. Len(q) \in Nat /\ DOMAIN q = 1 .. Len(q) OBVIOUS
<1>3. IsFiniteSet(B)
  <2>1. PICK T : T = {q[i].buffer : i \in 1 .. Len(q)} OBVIOUS
  <2>2. IsFiniteSet(1 .. Len(q)) BY <1>2, FS_Interval
  <2>3. PICK f : f = [i \in 1 .. Len(q) |-> q[i].buffer] OBVIOUS
  <2>4. f \in Surjection(1 .. Len(q), T) BY <2>1, <2>3 DEF Surjection
  <2>5. IsFiniteSet(T) BY <2>2, <2>4, FS_Surjection
  <2>6. B = T \cup {b} BY <1>1, <1>2, <2>1
  <2> QED BY <2>5, <2>6, FS_AddElement
<1>4. Nodes(B) = Used(b, q)
  <2>1. ASSUME NEW k \in Nodes(B) PROVE k \in Used(b, q) BY <1>1 DEF Nodes, Used
  <2>2. ASSUME NEW k \in Used(b, q) PROVE k \in Nodes(B)
    <3>1. k # 0 /\ (k = b.node \/ \E i \in DOMAIN q : k = q[i].buffer.node) BY DEF Used
    <3>2. \E c \in B : k = c.node BY <3>1, <1>1
    <3> QED BY <3>1, <3>2 DEF Nodes
  <2> QED BY <2>1, <2>2
<1>5. Apart(B)
  <2>1. \A c \in B : c = b \/ \E i \in DOMAIN q : c = q[i].buffer BY <1>1
  <2> QED BY <2>1 DEF Apart, Distinct
<1>6. PoolFor(N, {})
  <2>1. PICK U : U = Used(b, q) OBVIOUS
  <2>2. PoolFor(P, U) /\ Nodes(B) \subseteq U /\ U \ Nodes(B) = {} BY <1>4, <2>1
  <2>3. PoolFor(FreeAll(P, B), U \ Nodes(B)) BY <1>3, <1>5, <2>2, FreeAllFor
  <2> QED BY <1>1, <2>2, <2>3
<1>7. Used(NullBuffer, << >>) = {} /\ Distinct(NullBuffer, << >>)
  <2>1. NullBuffer.node = 0 BY DEF NullBuffer
  <2>2. DOMAIN << >> = {} OBVIOUS
  <2> QED BY <2>1, <2>2 DEF Used, Distinct
<1>8. N.mBuffers = 0
  <2>1. N.mBuffers = Cardinality({}) BY <1>6 DEF PoolFor
  <2> QED BY <2>1, FS_EmptySet
<1> QED BY <1>6, <1>7, <1>8
-----------------------------------------------------------------------------
(***************************************************************************)
(* The inductive invariant.                                                *)
(***************************************************************************)
\* An entry of the channel: a control message, or data in a buffer that has
\* the room of the header before it.
Entry == [message : Message, buffer : Buffer]
Queued(P, e) ==
    \/ e.buffer = NullBuffer /\ e.message \in Control
    \/ /\ InNode(P, e.buffer)
       /\ e.buffer.head = HeaderRoom
       /\ e.message.type = "DataExchange"
       /\ Data(P, e.buffer) = e.message.rest
       /\ Len(e.message.rest) <= MaxData

\* A sender's pool, its writer's buffer and its channel.
SenderFor(P, w, q) ==
    /\ PoolFor(P, Used(w, q)) /\ Distinct(w, q)
    /\ q \in Seq(Entry)
    /\ \A i \in DOMAIN q : Queued(P, q[i])
WriterFor(P, w) ==
    /\ w \in Buffer /\ w.node \in DOMAIN P.node
    /\ ControlSize <= Len(P.node[w.node].bytes)

SenderInv ==
    /\ SenderFor(sender, writer, out)
    /\ IF "sender" \in ended THEN writer = NullBuffer /\ out = << >>
       ELSE WriterFor(sender, writer)

\* A frame holds the message it was made from, unless it is foreign.
Frame == {f \in [type : Types \cup {g.type : g \in Foreign}, payload : Seq(Nat),
                 from : Message \cup {NoMessage}] :
             f.from # NoMessage => f.type = f.from.type /\ f.payload = f.from.lead \o f.from.rest}

WireInv == wire \in Seq(Frame)

Piece == [buffer : Buffer, bytes : Seq(Nat)]
HeldRight(P, e) == InNode(P, e.buffer) /\ Data(P, e.buffer) = e.bytes

\* The buffer of a frame that is awaited is empty and large enough.
Awaits(P, b, f) ==
    /\ f \in Frame
    /\ InNode(P, b) /\ b.head = 0 /\ b.tail = 0
    /\ Len(f.payload) <= Len(P.node[b.node].bytes)
    /\ f.payload # << >>

\* A receiver's pool, its reader's buffer and what its tunnels hold.
ReceiverFor(P, r, q) ==
    /\ PoolFor(P, Used(r, q)) /\ Distinct(r, q)
    /\ r = NullBuffer \/ InNode(P, r)
    /\ q \in Seq(Piece)
    /\ \A i \in DOMAIN q : HeldRight(P, q[i])

ReceiverInv ==
    /\ ReceiverFor(receiver, reader, held)
    /\ frame = NoFrame \/ Awaits(receiver, reader, frame)
    /\ "receiver" \in ended => reader = NullBuffer /\ held = << >>

HistoryInv == faithful = TRUE /\ fits = TRUE /\ (aborted # NoMessage => TooLong(aborted))

IInv == SenderInv /\ WireInv /\ ReceiverInv /\ HistoryInv
-----------------------------------------------------------------------------
(***************************************************************************)
(* What each step does to the pools, the buffers and their data.           *)
(***************************************************************************)
\* The promises of Clear, ReserveHead and ConsumeFront, by name.
Cleared(y, x) ==
    /\ Pair(y) /\ y.buffer = [node |-> x.buffer.node, head |-> 0, tail |-> 0]
    /\ Only(y.pool, x.pool, x.buffer.node)
    /\ InNode(y.pool, y.buffer)
Reserved(y, x, n) ==
    /\ Pair(y) /\ y.buffer = [node |-> x.buffer.node, head |-> n, tail |-> n]
    /\ y.pool = x.pool
    /\ InNode(y.pool, y.buffer)
    /\ Data(y.pool, y.buffer) = << >>
Consumed(c, P, b, n) ==
    /\ InNode(P, c) /\ c.node = b.node
    /\ Data(P, c) = SubSeq(Data(P, b), n + 1, Len(Data(P, b)))

LEMMA ClearedIs ==
    ASSUME NEW x, Pair(x), IsPool(x.pool), x.buffer \in Buffer,
           x.buffer.node \in DOMAIN x.pool.node, NEW y, y = Clear(x)
    PROVE Cleared(y, x)
BY ClearIs DEF Cleared

LEMMA ReservedIs ==
    ASSUME NEW x, Pair(x), IsPool(x.pool), x.buffer \in Buffer,
           x.buffer.node \in DOMAIN x.pool.node,
           NEW n \in Nat, n <= Len(x.pool.node[x.buffer.node].bytes),
           NEW y, y = ReserveHead(x, n)
    PROVE Reserved(y, x, n)
BY ReserveIs DEF Reserved

LEMMA ConsumedIs ==
    ASSUME NEW P, IsPool(P), NEW b, InNode(P, b), NEW n \in Nat, n <= Size(b),
           NEW c, c = ConsumeFront(b, n)
    PROVE Consumed(c, P, b, n)
BY ConsumeIs DEF Consumed

LEMMA Sizes ==
    /\ U64 \in Nat \ {0} /\ U32 \in Nat \ {0} /\ U16 \in Nat \ {0} /\ ControlSize \in Nat
    /\ Header \in Nat /\ HeaderRoom \in Nat /\ U64 + Header <= HeaderRoom
    /\ Header <= HeaderRoom
    /\ MaxData \in Int
    /\ HeaderBytes \in Seq(Nat) /\ Len(HeaderBytes) = Header
    /\ HeaderRoom + U64 + U32 <= ControlSize
<1>1. U8 \in Nat \ {0} /\ U16 \in Nat \ {0} /\ U32 \in Nat \ {0} /\ U64 \in Nat \ {0}
      /\ ControlSize \in Nat /\ MaxFrame \in Nat
  BY SizesAssumption
<1>2. Header \in Nat BY <1>1 DEF Header
<1>3. HeaderRoom = Header + 2 * U64 BY DEF HeaderRoom
<1>4. HeaderRoom \in Nat /\ U64 + Header <= HeaderRoom /\ Header <= HeaderRoom BY <1>1, <1>2, <1>3
<1>5. HeaderBytes \in Seq(Nat) /\ Len(HeaderBytes) = Header BY <1>2 DEF HeaderBytes
<1> QED BY <1>1, <1>2, <1>4, <1>5, SizesAssumption DEF MaxData

LEMMA NullFacts ==
    /\ NullBuffer \in Buffer /\ NullBuffer.node = 0
    /\ \A P : ~ (IsPool(P) /\ InNode(P, NullBuffer))
    /\ \A P : Data(P, NullBuffer) = << >>
    /\ Size(NullBuffer) = 0 /\ \A P : Capacity(P, NullBuffer) = 0
<1>1. NullBuffer \in Buffer /\ NullBuffer.node = 0 BY DEF NullBuffer, Buffer
<1>2. \A P : ~ (IsPool(P) /\ InNode(P, NullBuffer)) BY <1>1, InNodeFacts
<1> QED BY <1>1, <1>2 DEF Data, Size, Capacity

\* Another buffer in the place of the peer's own.
LEMMA OwnApart ==
    ASSUME NEW b, NEW q
    PROVE /\ Used(b, q) = Used(NullBuffer, q) \cup ({b.node} \ {0})
          /\ Distinct(b, q) <=> Distinct(NullBuffer, q) /\ b.node \notin Used(NullBuffer, q)
BY NullFacts DEF Used, Distinct

LEMMA QueuedKept ==
    ASSUME NEW P, NEW Q, NEW e, Queued(P, e),
           e.buffer.node # 0 => e.buffer.node \in DOMAIN Q.node
                                /\ Q.node[e.buffer.node] = P.node[e.buffer.node],
           IsPool(P)
    PROVE Queued(Q, e)
<1>1. CASE e.buffer = NullBuffer /\ e.message \in Control BY <1>1 DEF Queued
<1>2. CASE ~ (e.buffer = NullBuffer /\ e.message \in Control)
  <2>1. /\ InNode(P, e.buffer)
        /\ e.buffer.head = HeaderRoom
        /\ e.message.type = "DataExchange"
        /\ Data(P, e.buffer) = e.message.rest
        /\ Len(e.message.rest) <= MaxData
    BY <1>2 DEF Queued
  <2>2. e.buffer.node # 0 BY <2>1, InNodeFacts
  <2>3. InNode(Q, e.buffer) /\ Data(Q, e.buffer) = Data(P, e.buffer) BY <2>1, <2>2, DataKept
  <2> QED BY <2>1, <2>3 DEF Queued
<1> QED BY <1>1, <1>2

\* readCopyWorker has read data into a buffer of bufsize bytes.
ReadInto(x, P, U, data) ==
    /\ Pair(x) /\ x.buffer.node \notin U /\ x.buffer.node # 0
    /\ PoolFor(x.pool, U \cup {x.buffer.node})
    /\ \A k \in U : x.pool.node[k] = P.node[k]
    /\ InNode(x.pool, x.buffer)
    /\ x.buffer.head = HeaderRoom
    /\ Data(x.pool, x.buffer) = data
    /\ Fits(x)

LEMMA ReadIntoIs ==
    ASSUME NEW P, NEW U, PoolFor(P, U), NEW data \in Payloads, NEW bufsize \in 1 .. MaxData,
           Len(data) <= bufsize, NEW x,
           x = AppendTo(ReserveHead(Allocate(P, HeaderRoom + bufsize), HeaderRoom), data)
    PROVE ReadInto(x, P, U, data)
<1>1. data \in Seq(Nat) /\ Len(data) \in Nat BY TunnelAssumption
<1>2. PICK n : n = HeaderRoom + bufsize OBVIOUS
<1>3. HeaderRoom \in Nat /\ bufsize \in Nat /\ n \in Nat /\ HeaderRoom <= n
      /\ HeaderRoom + Len(data) <= n
  BY <1>1, <1>2, Sizes
<1>4. PICK a, r, k : a = Allocate(P, n) /\ r = ReserveHead(a, HeaderRoom) /\ k = a.buffer.node
  OBVIOUS
<1>5. /\ Pair(a) /\ a.buffer = [node |-> k, head |-> 0, tail |-> 0]
      /\ k \notin U
      /\ n <= Len(a.pool.node[k].bytes)
      /\ \A j \in U : a.pool.node[j] = P.node[j]
      /\ PoolFor(a.pool, U \cup {k})
  <2>1. AllocatedFor(a, P, U, n) BY <1>3, <1>4, AllocateIs
  <2>2. k \in DOMAIN a.pool.node /\ IsNode(a.pool.node[k])
    BY <1>4, <2>1, PoolForNodes DEF AllocatedFor
  <2>3. Len(a.pool.node[k].bytes) \in Nat BY <2>2 DEF IsNode
  <2>4. Len(a.pool.node[k].bytes) >= n BY <1>4, <2>1 DEF AllocatedFor
  <2>5. n <= Len(a.pool.node[k].bytes) BY <1>3, <2>3, <2>4
  <2> QED BY <1>4, <2>1, <2>5 DEF AllocatedFor, Pair
<1>6. /\ k \in DOMAIN a.pool.node /\ k \in Nat /\ k # 0 /\ IsPool(a.pool)
      /\ Len(a.pool.node[k].bytes) \in Nat
  <2>1. k \in DOMAIN a.pool.node /\ k \in Nat /\ k # 0 /\ IsNode(a.pool.node[k])
    BY <1>5, PoolForNodes
  <2> QED BY <2>1, <1>5 DEF PoolFor, IsNode
<1>7. a.buffer \in Buffer BY <1>5, <1>6 DEF Buffer
<1>8. HeaderRoom <= Len(a.pool.node[a.buffer.node].bytes) BY <1>3, <1>4, <1>5, <1>6
<1>9. /\ Pair(r) /\ r.buffer = [node |-> k, head |-> HeaderRoom, tail |-> HeaderRoom]
      /\ r.pool = a.pool /\ InNode(r.pool, r.buffer) /\ Data(r.pool, r.buffer) = << >>
  <2>1. a.buffer.node = k BY <1>4
  <2>2. Reserved(r, a, HeaderRoom) BY <1>3, <1>4, <1>5, <1>6, <1>7, <1>8, ReservedIs
  <2> QED BY <2>1, <2>2 DEF Reserved
<1>10. r.buffer.node = k /\ r.buffer.head = HeaderRoom /\ r.buffer.tail = HeaderRoom BY <1>9
<1>11. x = AppendTo(r, data) BY <1>2, <1>4
<1>12. r.buffer.tail + Len(data) <= Len(r.pool.node[r.buffer.node].bytes)
  <2>1. PICK l : l = Len(a.pool.node[k].bytes) OBVIOUS
  <2>2. l \in Nat /\ n <= l BY <2>1, <1>5, <1>6
  <2>3. HeaderRoom + Len(data) <= l BY <1>1, <1>3, <2>2
  <2> QED BY <2>1, <2>3, <1>9, <1>10
<1>13. Appended(x, r, data)
  <2>1. IsPool(r.pool) BY <1>6, <1>9
  <2> QED BY <2>1, <1>1, <1>9, <1>11, <1>12, AppendIs
<1>14. /\ Pair(x)
       /\ x.buffer.node = k /\ x.buffer.head = HeaderRoom
       /\ Only(x.pool, a.pool, k)
       /\ InNode(x.pool, x.buffer)
       /\ Data(x.pool, x.buffer) = << >> \o data
  <2>1. /\ Pair(x)
        /\ x.buffer = [node |-> r.buffer.node, head |-> r.buffer.head,
                       tail |-> r.buffer.tail + Len(data)]
        /\ Only(x.pool, r.pool, r.buffer.node)
        /\ InNode(x.pool, x.buffer)
        /\ Data(x.pool, x.buffer) = Data(r.pool, r.buffer) \o data
    BY <1>13 DEF Appended
  <2>2. x.buffer.node = r.buffer.node /\ x.buffer.head = r.buffer.head BY <2>1
  <2> QED BY <2>1, <2>2, <1>9, <1>10
<1>15. Data(x.pool, x.buffer) = data BY <1>1, <1>14
<1>16. PoolFor(x.pool, U \cup {k}) BY <1>5, <1>14, OnlyFor
<1>17. \A j \in U : x.pool.node[j] = P.node[j]
  <2>1. \A j \in U : j \in DOMAIN a.pool.node /\ j # k BY <1>5, PoolForNodes
  <2> QED BY <2>1, <1>5, <1>14 DEF Only
<1>18. IsPool(x.pool) BY <1>14 DEF Only
<1>19. Fits(x) BY <1>14, <1>18, InNodeFits
<1> QED BY <1>5, <1>6, <1>14, <1>15, <1>16, <1>17, <1>19 DEF ReadInto

\* writeMessage has encoded a control message in the writer's buffer w.
Written(x, y, P, w, payload) ==
    /\ Data(x.pool, x.buffer) = payload
    /\ y.buffer.node = w.node
    /\ Only(y.pool, P, w.node)
    /\ InNode(y.pool, y.buffer)
    /\ Fits(y)

LEMMA AppendedParts ==
    ASSUME NEW y, NEW x, NEW data \in Seq(Nat), Appended(y, x, data), IsPool(x.pool)
    PROVE /\ Pair(y) /\ IsPool(y.pool) /\ InNode(y.pool, y.buffer)
          /\ y.buffer.node = x.buffer.node /\ y.buffer.head = x.buffer.head
          /\ y.buffer.tail = x.buffer.tail + Len(data)
          /\ Only(y.pool, x.pool, x.buffer.node)
          /\ x.buffer.node \in DOMAIN x.pool.node =>
                Len(y.pool.node[y.buffer.node].bytes) = Len(x.pool.node[x.buffer.node].bytes)
          /\ Data(y.pool, y.buffer) = Data(x.pool, x.buffer) \o data
<1>1. /\ Pair(y)
      /\ y.buffer = [node |-> x.buffer.node, head |-> x.buffer.head,
                     tail |-> x.buffer.tail + Len(data)]
      /\ Only(y.pool, x.pool, x.buffer.node)
      /\ InNode(y.pool, y.buffer)
      /\ Data(y.pool, y.buffer) = Data(x.pool, x.buffer) \o data
  BY DEF Appended
<1>2. /\ y.buffer.node = x.buffer.node /\ y.buffer.head = x.buffer.head
      /\ y.buffer.tail = x.buffer.tail + Len(data)
  BY <1>1
<1>3. IsPool(y.pool) BY <1>1 DEF Only
<1>4. ASSUME x.buffer.node \in DOMAIN x.pool.node
      PROVE Len(y.pool.node[y.buffer.node].bytes) = Len(x.pool.node[x.buffer.node].bytes)
  BY <1>1, <1>2, <1>4 DEF Only
<1> QED BY <1>1, <1>2, <1>3, <1>4

LEMMA PrependedParts ==
    ASSUME NEW y, NEW x, NEW data \in Seq(Nat), Prepended(y, x, data)
    PROVE /\ Pair(y) /\ IsPool(y.pool) /\ InNode(y.pool, y.buffer)
          /\ y.buffer.node = x.buffer.node /\ y.buffer.head = x.buffer.head - Len(data)
          /\ Only(y.pool, x.pool, x.buffer.node)
          /\ Data(y.pool, y.buffer) = data \o Data(x.pool, x.buffer)
<1>1. /\ Pair(y)
      /\ y.buffer = [node |-> x.buffer.node, head |-> x.buffer.head - Len(data),
                     tail |-> x.buffer.tail]
      /\ Only(y.pool, x.pool, x.buffer.node)
      /\ InNode(y.pool, y.buffer)
      /\ Data(y.pool, y.buffer) = data \o Data(x.pool, x.buffer)
  BY DEF Prepended
<1>2. y.buffer.node = x.buffer.node /\ y.buffer.head = x.buffer.head - Len(data) BY <1>1
<1>3. IsPool(y.pool) BY <1>1 DEF Only
<1> QED BY <1>1, <1>2, <1>3

LEMMA MessageFacts ==
    ASSUME NEW m \in Message
    PROVE /\ m.type \in Types /\ m.lead \in Seq(Nat) /\ m.rest \in Seq(Nat)
          /\ Len(m.lead) = Lead(m.type) /\ Len(m.rest) = Rest(m.type, Len(m.rest))
          /\ m.type = "FatalError" => m.rest # << >>
          /\ m = [type |-> m.type, lead |-> m.lead, rest |-> m.rest]
          /\ Len(m.lead) \in Nat /\ Len(m.rest) \in Nat
BY DEF Message

\* Where the window of y's buffer is, and that nothing else of the pool changes,
\* when x's buffer is written to, whether or not there is room.
Ends(y, x, head, tail) ==
    /\ Pair(y) /\ y.buffer = [node |-> x.buffer.node, head |-> head, tail |-> tail]
    /\ Only(y.pool, x.pool, x.buffer.node)

LEMMA AppendEnds ==
    ASSUME NEW x, Pair(x), IsPool(x.pool), NEW k, NEW h \in Int, NEW t \in Int,
           x.buffer = [node |-> k, head |-> h, tail |-> t], k \in DOMAIN x.pool.node,
           NEW data \in Seq(Nat), NEW y, y = AppendTo(x, data)
    PROVE Ends(y, x, h, t + Len(data))
<1>1. PICK z, v : z = Store(x, t, data) /\ v = t + Len(data) OBVIOUS
<1>2. Pair(z) /\ z.buffer = x.buffer /\ Only(z.pool, x.pool, x.buffer.node)
  <2>1. x.buffer.node \in DOMAIN x.pool.node OBVIOUS
  <2>2. Stored(z, x, t, data) BY <1>1, <2>1, StoreIs
  <2> QED BY <2>2 DEF Stored
<1>3. PICK R : R = z.pool OBVIOUS
<1>4. z = [pool |-> R, buffer |-> [node |-> k, head |-> h, tail |-> t]] BY <1>2, <1>3 DEF Pair
<1>5. y = [z EXCEPT !.buffer.tail = v]
  <2>1. y = [z EXCEPT !.buffer.tail = @ + Len(data)] BY <1>1 DEF AppendTo
  <2>2. z.buffer.tail = t BY <1>4
  <2> QED BY <1>1, <2>1, <2>2
<1>6. y = [pool |-> R, buffer |-> [node |-> k, head |-> h, tail |-> v]] BY <1>4, <1>5
<1> QED BY <1>1, <1>2, <1>3, <1>6 DEF Ends, Pair

LEMMA PrependEnds ==
    ASSUME NEW x, Pair(x), IsPool(x.pool), NEW k, NEW h \in Int, NEW t \in Int,
           x.buffer = [node |-> k, head |-> h, tail |-> t], k \in DOMAIN x.pool.node,
           NEW data \in Seq(Nat), NEW y, y = PrependTo(x, data)
    PROVE Ends(y, x, h - Len(data), t)
<1>1. PICK v : v = h - Len(data) OBVIOUS
<1>2. PICK z : z = Store(x, v, data) OBVIOUS
<1>3. Pair(z) /\ z.buffer = x.buffer /\ Only(z.pool, x.pool, x.buffer.node)
  <2>1. x.buffer.node \in DOMAIN x.pool.node /\ v \in Int BY <1>1
  <2>2. Stored(z, x, v, data) BY <1>2, <2>1, StoreIs
  <2> QED BY <2>2 DEF Stored
<1>4. PICK R : R = z.pool OBVIOUS
<1>5. z = [pool |-> R, buffer |-> [node |-> k, head |-> h, tail |-> t]] BY <1>3, <1>4 DEF Pair
<1>6. y = [z EXCEPT !.buffer.head = v]
  <2>1. x.buffer.head - Len(data) = v BY <1>1
  <2> QED BY <1>2, <2>1 DEF PrependTo
<1>7. y = [pool |-> R, buffer |-> [node |-> k, head |-> v, tail |-> t]] BY <1>5, <1>6
<1> QED BY <1>1, <1>3, <1>4, <1>7 DEF Ends, Pair

\* A control message that is encoded in the buffer w of P fits it when the room
\* for a header, its integer and the rest do.
LEMMA EncodedFits ==
    ASSUME NEW P, IsPool(P), NEW w \in Buffer, w.node \in DOMAIN P.node,
           ControlSize <= Len(P.node[w.node].bytes), NEW m \in Message,
           NEW x, x = Encoded([pool |-> P, buffer |-> w], m),
           NEW y, y = PrependTo(x, HeaderBytes)
    PROVE /\ Len(P.node[w.node].bytes) \in Nat
          /\ Fits(y) <=> HeaderRoom + Len(m.lead) + Len(m.rest) <= Len(P.node[w.node].bytes)
<1>1. PICK s, c, r, a, k, l, i, j :
          /\ s = [pool |-> P, buffer |-> w] /\ c = Clear(s) /\ r = ReserveHead(c, HeaderRoom)
          /\ a = AppendTo(r, m.lead) /\ k = w.node /\ l = Len(P.node[w.node].bytes)
          /\ i = Len(m.lead) /\ j = Len(m.rest)
  OBVIOUS
<1>2. x = AppendTo(a, m.rest) BY <1>1 DEF Encoded
<1>3. /\ i \in Nat /\ j \in Nat /\ m.lead \in Seq(Nat) /\ m.rest \in Seq(Nat)
      /\ HeaderRoom \in Nat /\ Header \in Nat /\ Header <= HeaderRoom
      /\ HeaderBytes \in Seq(Nat) /\ Len(HeaderBytes) = Header
  BY <1>1, MessageFacts, Sizes
<1>4. l \in Nat /\ k # 0 /\ ControlSize <= l
  <2>1. IsNode(P.node[k]) /\ DOMAIN P.node \subseteq 1 .. P.last /\ P.last \in Nat
    BY <1>1 DEF IsPool
  <2>2. k \in 1 .. P.last BY <1>1, <2>1
  <2> QED BY <1>1, <2>1, <2>2 DEF IsNode
<1>5. s.pool = P /\ s.buffer = w /\ Pair(s) BY <1>1 DEF Pair
<1>6. Pair(c) /\ c.buffer = [node |-> k, head |-> 0, tail |-> 0] /\ Only(c.pool, P, k)
  <2>1. Cleared(c, s) BY <1>1, <1>5, ClearedIs
  <2> QED BY <2>1, <1>1, <1>5 DEF Cleared
<1>7. /\ Pair(r) /\ r.buffer = [node |-> k, head |-> HeaderRoom, tail |-> HeaderRoom]
      /\ r.pool = c.pool
  <2>1. c.buffer \in Buffer /\ c.buffer.node = k /\ IsPool(c.pool) /\ k \in DOMAIN c.pool.node
    <3>1. k \in Int BY <1>1 DEF Buffer
    <3> QED BY <3>1, <1>1, <1>6 DEF Only, Buffer
  <2>2. HeaderRoom <= Len(c.pool.node[k].bytes)
    <3>1. Len(c.pool.node[k].bytes) = l BY <1>1, <1>6 DEF Only
    <3>2. HeaderRoom <= ControlSize BY Sizes
    <3> QED BY <3>1, <3>2, <1>3, <1>4, Sizes
  <2>3. Reserved(r, c, HeaderRoom) BY <1>1, <1>3, <1>6, <2>1, <2>2, ReservedIs
  <2> QED BY <2>1, <2>3 DEF Reserved
<1>8. Only(r.pool, P, k) /\ IsPool(r.pool) /\ k \in DOMAIN r.pool.node
  BY <1>1, <1>6, <1>7 DEF Only
<1>9. PICK t, u : t = HeaderRoom + i /\ u = t + j OBVIOUS
<1>10. /\ Pair(a) /\ a.buffer = [node |-> k, head |-> HeaderRoom, tail |-> t]
       /\ Only(a.pool, r.pool, k)
  <2>1. Ends(a, r, HeaderRoom, t) BY <1>1, <1>3, <1>7, <1>8, <1>9, AppendEnds
  <2> QED BY <2>1, <1>7 DEF Ends
<1>11. Only(a.pool, P, k) /\ IsPool(a.pool) /\ k \in DOMAIN a.pool.node
  BY <1>8, <1>10, OnlyTwice DEF Only
<1>12. /\ Pair(x) /\ x.buffer = [node |-> k, head |-> HeaderRoom, tail |-> u]
       /\ Only(x.pool, a.pool, k)
  <2>1. t \in Int BY <1>3, <1>9
  <2>2. HeaderRoom \in Int /\ m.rest \in Seq(Nat) /\ u = t + Len(m.rest) BY <1>1, <1>3, <1>9
  <2>3. a.buffer = [node |-> k, head |-> HeaderRoom, tail |-> t] /\ Pair(a) BY <1>10
  <2>4. Ends(x, a, HeaderRoom, t + Len(m.rest)) BY <2>1, <2>2, <2>3, <1>2, <1>11, AppendEnds
  <2>5. Ends(x, a, HeaderRoom, u) BY <2>2, <2>4
  <2> QED BY <2>5, <1>10 DEF Ends
<1>13. Only(x.pool, P, k) /\ IsPool(x.pool) /\ k \in DOMAIN x.pool.node
  BY <1>11, <1>12, OnlyTwice DEF Only
<1>14. /\ y.buffer = [node |-> k, head |-> HeaderRoom - Header, tail |-> u]
       /\ Only(y.pool, x.pool, k)
  <2>1. u \in Int BY <1>3, <1>9
  <2>2. HeaderRoom \in Int /\ HeaderBytes \in Seq(Nat) BY <1>3
  <2>3. x.buffer = [node |-> k, head |-> HeaderRoom, tail |-> u] /\ Pair(x) BY <1>12
  <2>4. Ends(y, x, HeaderRoom - Len(HeaderBytes), u)
    BY <2>1, <2>2, <2>3, <1>13, PrependEnds
  <2>5. Ends(y, x, HeaderRoom - Header, u) BY <2>4, <1>3
  <2> QED BY <2>5, <1>12 DEF Ends
<1>15. Only(y.pool, P, k) BY <1>13, <1>14, OnlyTwice
<1>16. /\ y.buffer.node = k /\ y.buffer.head = HeaderRoom - Header /\ y.buffer.tail = u
       /\ Capacity(y.pool, y.buffer) = l
  BY <1>1, <1>4, <1>14, <1>15 DEF Only, Capacity
<1>17. 0 <= HeaderRoom - Header /\ HeaderRoom - Header <= u /\ u = HeaderRoom + i + j
  BY <1>3, <1>9
<1>18. Fits(y) <=> u <= l BY <1>4, <1>16, <1>17 DEF Fits
<1> QED BY <1>1, <1>4, <1>17, <1>18

LEMMA ControlWritten ==
    ASSUME NEW P, IsPool(P), NEW w \in Buffer, w.node \in DOMAIN P.node,
           NEW m \in Control,
           HeaderRoom + Len(m.lead) + Len(m.rest) <= Len(P.node[w.node].bytes),
           NEW x, x = Encoded([pool |-> P, buffer |-> w], m),
           NEW y, y = PrependTo(x, HeaderBytes)
    PROVE Written(x, y, P, w, m.lead \o m.rest)
<1>1. /\ m.lead \in Seq(Nat) /\ m.rest \in Seq(Nat)
      /\ Len(m.lead) \in Nat /\ Len(m.rest) \in Nat
  BY ControlAssumption, MessageFacts
<1>2. PICK s, c, r, a, k, l :
          /\ s = [pool |-> P, buffer |-> w] /\ c = Clear(s) /\ r = ReserveHead(c, HeaderRoom)
          /\ a = AppendTo(r, m.lead) /\ k = w.node /\ l = Len(P.node[w.node].bytes)
  OBVIOUS
<1>3. x = AppendTo(a, m.rest) BY <1>2 DEF Encoded
<1>4. s.pool = P /\ s.buffer = w /\ Pair(s) BY <1>2 DEF Pair
<1>5. /\ l \in Nat /\ HeaderRoom \in Nat /\ Header \in Nat /\ Header <= HeaderRoom
      /\ HeaderRoom + Len(m.lead) + Len(m.rest) <= l
  <2>1. l \in Nat
    <3>1. IsNode(P.node[w.node]) BY DEF IsPool
    <3> QED BY <3>1, <1>2 DEF IsNode
  <2>2. /\ HeaderRoom \in Nat /\ Header \in Nat /\ Header <= HeaderRoom
    BY Sizes
  <2> QED BY <2>1, <2>2, <1>2
<1>6. /\ Pair(c) /\ IsPool(c.pool) /\ c.buffer \in Buffer
      /\ c.buffer.node = k /\ k \in DOMAIN c.pool.node
      /\ Only(c.pool, P, k)
      /\ Len(c.pool.node[k].bytes) = l
  <2>1. Cleared(c, s) BY <1>2, <1>4, ClearedIs
  <2>2. /\ Pair(c) /\ c.buffer = [node |-> s.buffer.node, head |-> 0, tail |-> 0]
        /\ Only(c.pool, s.pool, s.buffer.node) /\ InNode(c.pool, c.buffer)
    BY <2>1 DEF Cleared
  <2>3. c.buffer.node = k BY <2>2, <1>2, <1>4
  <2>4. Only(c.pool, P, k) BY <2>2, <1>2, <1>4
  <2> QED BY <2>2, <2>3, <2>4, <1>2 DEF Only, InNode
<1>7. /\ Pair(r) /\ r.buffer.node = k /\ r.buffer.head = HeaderRoom /\ r.buffer.tail = HeaderRoom
      /\ r.pool = c.pool /\ IsPool(r.pool) /\ InNode(r.pool, r.buffer)
      /\ Data(r.pool, r.buffer) = << >>
  <2>1. HeaderRoom <= Len(c.pool.node[c.buffer.node].bytes) BY <1>1, <1>5, <1>6
  <2>2. Reserved(r, c, HeaderRoom) BY <2>1, <1>2, <1>5, <1>6, ReservedIs
  <2>3. /\ Pair(r) /\ r.buffer = [node |-> c.buffer.node, head |-> HeaderRoom, tail |-> HeaderRoom]
        /\ r.pool = c.pool /\ InNode(r.pool, r.buffer) /\ Data(r.pool, r.buffer) = << >>
    BY <2>2 DEF Reserved
  <2> QED BY <2>3, <1>6
<1>8. /\ Pair(a) /\ IsPool(a.pool) /\ InNode(a.pool, a.buffer) /\ a.buffer.node = k
      /\ a.buffer.head = HeaderRoom /\ a.buffer.tail = HeaderRoom + Len(m.lead)
      /\ Only(a.pool, c.pool, k)
      /\ Len(a.pool.node[k].bytes) = l
      /\ Data(a.pool, a.buffer) = << >> \o m.lead
  <2>1. r.buffer.tail + Len(m.lead) <= Len(r.pool.node[r.buffer.node].bytes)
    <3>1. PICK p, q : p = Len(m.lead) /\ q = Len(m.rest) OBVIOUS
    <3>2. p \in Nat /\ q \in Nat /\ HeaderRoom + p + q <= l BY <1>1, <1>5, <3>1
    <3>3. HeaderRoom + p <= l BY <1>5, <3>2
    <3> QED BY <1>6, <1>7, <3>1, <3>3
  <2>2. Appended(a, r, m.lead) BY <2>1, <1>1, <1>2, <1>7, AppendIs
  <2>3. /\ Pair(a) /\ IsPool(a.pool) /\ InNode(a.pool, a.buffer)
        /\ a.buffer.node = r.buffer.node /\ a.buffer.head = r.buffer.head
        /\ a.buffer.tail = r.buffer.tail + Len(m.lead)
        /\ Only(a.pool, r.pool, r.buffer.node)
        /\ r.buffer.node \in DOMAIN r.pool.node =>
              Len(a.pool.node[a.buffer.node].bytes) = Len(r.pool.node[r.buffer.node].bytes)
        /\ Data(a.pool, a.buffer) = Data(r.pool, r.buffer) \o m.lead
    BY <2>2, <1>1, <1>7, AppendedParts
  <2> QED BY <2>3, <1>6, <1>7
<1>9. Data(a.pool, a.buffer) = m.lead BY <1>1, <1>8
<1>10. /\ Pair(x) /\ IsPool(x.pool) /\ InNode(x.pool, x.buffer) /\ x.buffer.node = k
       /\ x.buffer.head = HeaderRoom
       /\ Only(x.pool, a.pool, k)
       /\ Data(x.pool, x.buffer) = m.lead \o m.rest
  <2>1. a.buffer.tail + Len(m.rest) <= Len(a.pool.node[a.buffer.node].bytes)
    BY <1>1, <1>5, <1>8
  <2>2. Appended(x, a, m.rest) BY <2>1, <1>1, <1>3, <1>8, AppendIs
  <2>3. /\ Pair(x) /\ IsPool(x.pool) /\ InNode(x.pool, x.buffer)
        /\ x.buffer.node = a.buffer.node /\ x.buffer.head = a.buffer.head
        /\ Only(x.pool, a.pool, a.buffer.node)
        /\ Data(x.pool, x.buffer) = Data(a.pool, a.buffer) \o m.rest
    BY <2>2, <1>1, <1>8, AppendedParts
  <2> QED BY <2>3, <1>8, <1>9
<1>11. /\ IsPool(y.pool) /\ InNode(y.pool, y.buffer) /\ y.buffer.node = k
       /\ Only(y.pool, x.pool, k)
  <2>1. HeaderBytes \in Seq(Nat) /\ Len(HeaderBytes) <= x.buffer.head BY <1>5, <1>10, Sizes
  <2>2. Prepended(y, x, HeaderBytes) BY <2>1, <1>10, PrependIs
  <2>3. /\ IsPool(y.pool) /\ InNode(y.pool, y.buffer) /\ y.buffer.node = x.buffer.node
        /\ Only(y.pool, x.pool, x.buffer.node)
    BY <2>1, <2>2, PrependedParts
  <2> QED BY <2>3, <1>10
<1>12. Only(y.pool, P, k) BY <1>6, <1>8, <1>10, <1>11, OnlyTwice
<1>13. Fits(y) BY <1>11, InNodeFits
<1> QED BY <1>2, <1>10, <1>11, <1>12, <1>13 DEF Written

\* writeMessage has put the header and the streamId before the data in b.
LEMMA DataWritten ==
    ASSUME NEW P, IsPool(P), NEW b, InNode(P, b), b.head = HeaderRoom,
           NEW lead \in Seq(Nat), Len(lead) = U64,
           NEW x, x = PrependTo([pool |-> P, buffer |-> b], lead),
           NEW y, y = PrependTo(x, HeaderBytes)
    PROVE Written(x, y, P, b, lead \o Data(P, b))
<1>1. PICK s, k : s = [pool |-> P, buffer |-> b] /\ k = b.node OBVIOUS
<1>2. s.pool = P /\ s.buffer = b /\ Pair(s) BY <1>1 DEF Pair
<1>3. /\ U64 \in Nat /\ HeaderRoom \in Nat /\ Header \in Nat /\ U64 + Header <= HeaderRoom
      /\ HeaderBytes \in Seq(Nat) /\ Len(HeaderBytes) = Header
  BY Sizes
<1>4. /\ Pair(x) /\ IsPool(x.pool) /\ InNode(x.pool, x.buffer) /\ x.buffer.node = k
      /\ x.buffer.head = HeaderRoom - U64
      /\ Only(x.pool, P, k)
      /\ Data(x.pool, x.buffer) = lead \o Data(P, b)
  <2>1. Len(lead) <= s.buffer.head BY <1>2, <1>3
  <2>2. Prepended(x, s, lead) BY <2>1, <1>1, <1>2, PrependIs
  <2>3. /\ Pair(x) /\ IsPool(x.pool) /\ InNode(x.pool, x.buffer)
        /\ x.buffer.node = s.buffer.node /\ x.buffer.head = s.buffer.head - Len(lead)
        /\ Only(x.pool, s.pool, s.buffer.node)
        /\ Data(x.pool, x.buffer) = lead \o Data(s.pool, s.buffer)
    BY <2>2, PrependedParts
  <2> QED BY <2>3, <1>1, <1>2
<1>5. /\ IsPool(y.pool) /\ InNode(y.pool, y.buffer) /\ y.buffer.node = k
      /\ Only(y.pool, x.pool, k)
  <2>1. Len(HeaderBytes) <= x.buffer.head BY <1>3, <1>4
  <2>2. Prepended(y, x, HeaderBytes) BY <2>1, <1>3, <1>4, PrependIs
  <2>3. /\ IsPool(y.pool) /\ InNode(y.pool, y.buffer) /\ y.buffer.node = x.buffer.node
        /\ Only(y.pool, x.pool, x.buffer.node)
    BY <1>3, <2>2, PrependedParts
  <2> QED BY <2>3, <1>4
<1>6. Only(y.pool, P, k) BY <1>4, <1>5, OnlyTwice
<1>7. Fits(y) BY <1>5, InNodeFits
<1> QED BY <1>1, <1>4, <1>5, <1>6, <1>7 DEF Written

\* The reader has a buffer that a payload of n bytes fits in.
Readied(x, P, V, n) ==
    /\ Pair(x) /\ x.buffer.node # 0 /\ x.buffer.node \notin V
    /\ x.buffer.head = 0 /\ x.buffer.tail = 0
    /\ PoolFor(x.pool, V \cup {x.buffer.node})
    /\ \A k \in V : x.pool.node[k] = P.node[k]
    /\ InNode(x.pool, x.buffer)
    /\ n <= Len(x.pool.node[x.buffer.node].bytes)
    /\ n <= Capacity(x.pool, x.buffer)

\* Grown, for any pool and buffer.
GrownFrom(P, r, n) ==
    IF Capacity(P, r) < n
    THEN LET x == Allocate(P, n) IN [x EXCEPT !.pool = Free(@, r)]
    ELSE [pool |-> P, buffer |-> r]

LEMMA ReadiedIs ==
    ASSUME NEW P, NEW V, NEW r, PoolFor(P, V \cup ({r.node} \ {0})), r.node \notin V,
           r = NullBuffer \/ InNode(P, r), NEW n \in Nat \ {0},
           NEW x, x = Clear(GrownFrom(P, r, n))
    PROVE Readied(x, P, V, n)
<1>1. PICK U, g : U = V \cup ({r.node} \ {0}) /\ g = GrownFrom(P, r, n) OBVIOUS
<1>2. IsPool(P) /\ PoolFor(P, U) BY <1>1 DEF PoolFor
<1>3. \A k \in V : k \in DOMAIN P.node /\ k # 0 BY <1>1, <1>2, PoolForNodes
<1>4. /\ Pair(g) /\ g.buffer \in Buffer /\ g.buffer.node # 0 /\ g.buffer.node \notin V
      /\ g.buffer.node \in DOMAIN g.pool.node
      /\ PoolFor(g.pool, V \cup {g.buffer.node})
      /\ \A k \in V : g.pool.node[k] = P.node[k]
      /\ n <= Len(g.pool.node[g.buffer.node].bytes)
  <2>1. CASE Capacity(P, r) < n
    <3>1. PICK z, N, k : z = Allocate(P, n) /\ N = Free(z.pool, r) /\ k = z.buffer.node OBVIOUS
    <3>2. AllocatedFor(z, P, U, n) BY <1>2, <3>1, AllocateIs
    <3>3. /\ z = [pool |-> z.pool, buffer |-> z.buffer]
          /\ z.buffer = [node |-> k, head |-> 0, tail |-> 0]
          /\ k \notin U
          /\ Len(z.pool.node[k].bytes) >= n
          /\ \A j \in U : z.pool.node[j] = P.node[j]
          /\ PoolFor(z.pool, U \cup {k})
      BY <3>1, <3>2 DEF AllocatedFor
    <3>4. g = [pool |-> N, buffer |-> z.buffer]
      <4>1. g = [z EXCEPT !.pool = Free(@, r)] BY <1>1, <2>1, <3>1 DEF GrownFrom
      <4>2. [z EXCEPT !.pool = Free(@, r)] = [z EXCEPT !.pool = N]
        <5>1. PICK p, b : z = [pool |-> p, buffer |-> b] BY <3>3
        <5>2. z.pool = p BY <5>1
        <5> QED BY <5>1, <5>2, <3>1
      <4>3. [z EXCEPT !.pool = N] = [pool |-> N, buffer |-> z.buffer] BY <3>3
      <4> QED BY <4>1, <4>2, <4>3
    <3>5. PoolFor(N, V \cup {k}) /\ \A j \in V \cup {k} : N.node[j] = z.pool.node[j]
      <4>1. CASE r.node = 0
        <5>1. U = V BY <1>1, <4>1
        <5>2. N = z.pool BY <3>1, <4>1 DEF Free
        <5> QED BY <5>1, <5>2, <3>3
      <4>2. CASE r.node # 0
        <5>1. PICK W : W = U \cup {k} OBVIOUS
        <5>2. PoolFor(z.pool, W) /\ r.node \in W BY <1>1, <3>3, <4>2, <5>1
        <5>3. PoolFor(N, W \ {r.node}) /\ \A j \in W \ {r.node} : N.node[j] = z.pool.node[j]
          BY <3>1, <5>2, FreeFor
        <5>4. W \ {r.node} = V \cup {k} BY <1>1, <3>3, <4>2, <5>1
        <5> QED BY <5>3, <5>4
      <4> QED BY <4>1, <4>2
    <3>6. k \in DOMAIN N.node /\ k \in Nat /\ k # 0 BY <3>5, PoolForNodes
    <3>7. Len(N.node[k].bytes) \in Nat
      <4>1. IsNode(N.node[k]) BY <3>5, PoolForNodes
      <4> QED BY <4>1 DEF IsNode
    <3>8. g.pool = N /\ g.buffer = z.buffer /\ Pair(g) BY <3>4 DEF Pair
    <3>9. g.buffer.node = k /\ g.buffer \in Buffer BY <3>1, <3>3, <3>6, <3>8 DEF Buffer
    <3>10. k \notin V BY <1>1, <3>3
    <3>11. \A j \in V : N.node[j] = P.node[j] BY <1>1, <3>3, <3>5
    <3>12. n <= Len(N.node[k].bytes)
      <4>1. N.node[k] = z.pool.node[k] BY <3>5
      <4>2. PICK l : l = Len(N.node[k].bytes) OBVIOUS
      <4>3. l \in Nat /\ l >= n BY <3>3, <3>7, <4>1, <4>2
      <4> QED BY <4>2, <4>3
    <3> QED BY <3>5, <3>6, <3>8, <3>9, <3>10, <3>11, <3>12
  <2>2. CASE ~ (Capacity(P, r) < n)
    <3>1. r # NullBuffer
      <4>1. Capacity(P, NullBuffer) = 0 BY NullFacts
      <4> QED BY <2>2, <4>1
    <3>2. InNode(P, r) BY <3>1
    <3>3. r \in Buffer /\ r.node \in DOMAIN P.node /\ r.node # 0
          /\ Capacity(P, r) = Len(P.node[r.node].bytes) /\ Len(P.node[r.node].bytes) \in Nat
      BY <1>2, <3>2, InNodeFacts DEF InNode
    <3>4. g = [pool |-> P, buffer |-> r] BY <1>1, <2>2 DEF GrownFrom
    <3>5. g.pool = P /\ g.buffer = r /\ Pair(g) BY <3>4 DEF Pair
    <3>6. U = V \cup {r.node} BY <1>1, <3>3
    <3>7. n <= Len(P.node[r.node].bytes) BY <2>2, <3>3
    <3> QED BY <1>2, <3>3, <3>5, <3>6, <3>7
  <2> QED BY <2>1, <2>2
<1>5. IsPool(g.pool) BY <1>4 DEF PoolFor
<1>6. Cleared(x, g) BY <1>1, <1>4, <1>5, ClearedIs
<1>7. /\ Pair(x) /\ x.buffer = [node |-> g.buffer.node, head |-> 0, tail |-> 0]
      /\ Only(x.pool, g.pool, g.buffer.node) /\ InNode(x.pool, x.buffer)
  BY <1>6 DEF Cleared
<1>8. x.buffer.node = g.buffer.node /\ x.buffer.head = 0 /\ x.buffer.tail = 0 BY <1>7
<1>9. PoolFor(x.pool, V \cup {x.buffer.node}) BY <1>4, <1>7, <1>8, OnlyFor
<1>10. \A k \in V : x.pool.node[k] = P.node[k]
  <2>1. \A k \in V : k \in DOMAIN g.pool.node /\ k # g.buffer.node BY <1>4, PoolForNodes
  <2> QED BY <2>1, <1>4, <1>7 DEF Only
<1>11. Len(x.pool.node[x.buffer.node].bytes) = Len(g.pool.node[g.buffer.node].bytes)
  BY <1>4, <1>7, <1>8 DEF Only
<1>12. n <= Len(x.pool.node[x.buffer.node].bytes) BY <1>4, <1>11
<1>13. Capacity(x.pool, x.buffer) = Len(x.pool.node[x.buffer.node].bytes)
  BY <1>4, <1>8 DEF Capacity
<1> QED BY <1>4, <1>7, <1>8, <1>9, <1>10, <1>12, <1>13 DEF Readied

LEMMA LeadRest ==
    ASSUME NEW type
    PROVE /\ Lead(type) \in Nat /\ \A n \in Nat : Rest(type, n) \in Nat
          /\ type = "DataExchange" => Lead(type) = U64 /\ \A n : Rest(type, n) = n
          /\ type \in Types /\ Lead(type) = 0 /\ type # "FatalError" => \A n : Rest(type, n) = 0
          /\ \A n \in Nat : Rest(type, n) = n \/ (\A k \in Nat : Rest(type, k) = Rest(type, n))
<1>1. U16 \in Nat \ {0} /\ U64 \in Nat \ {0} /\ U32 \in Nat \ {0} BY Sizes
<1>2. Lead(type) \in Nat /\ \A n \in Nat : Rest(type, n) \in Nat BY <1>1 DEF Lead, Rest
<1>3. type = "DataExchange" => Lead(type) = U64 /\ \A n : Rest(type, n) = n BY DEF Lead, Rest
<1>4. type \in Types /\ Lead(type) = 0 /\ type # "FatalError" => \A n : Rest(type, n) = 0
  BY <1>1 DEF Lead, Rest, Types
<1>5. \A n \in Nat : Rest(type, n) = n \/ (\A k \in Nat : Rest(type, k) = Rest(type, n))
  BY DEF Rest
<1> QED BY <1>2, <1>3, <1>4, <1>5

\* The m elements of s after the first h.
Part(d, s, h, m) == d \in Seq(Nat) /\ Len(d) = m /\ \A i \in 1 .. m : d[i] = s[h + i]

LEMMA PartIs ==
    ASSUME NEW s \in Seq(Nat), NEW h \in Nat, NEW m \in Nat, h + m <= Len(s),
           NEW d, d = SubSeq(s, h + 1, h + m)
    PROVE Part(d, s, h, m)
<1>1. /\ d \in Seq(Nat) /\ Len(d) = m
      /\ \A i \in 1 .. m : d[i] = s[h + i]
  BY SubSeqIs, SMTT(30)
<1> QED BY <1>1 DEF Part

\* The two parts of a payload, and a part of no bytes.
LEMMA SplitConcat ==
    ASSUME NEW s \in Seq(Nat), NEW t \in Seq(Nat), NEW d, d = s \o t
    PROVE SubSeq(d, 1, Len(s)) = s /\ SubSeq(d, Len(s) + 1, Len(s) + Len(t)) = t
<1>1. PICK n, m, u, v :
          /\ n = Len(s) /\ m = Len(t)
          /\ u = SubSeq(d, 1, Len(s)) /\ v = SubSeq(d, Len(s) + 1, Len(s) + Len(t))
  OBVIOUS
<1>2. n \in Nat /\ m \in Nat BY <1>1
<1>3. IsConcat(d, s, t) BY ConcatIs
<1>4. /\ d \in Seq(Nat) /\ Len(d) = n + m
      /\ \A i \in 1 .. n + m : d[i] = IF i <= n THEN s[i] ELSE t[i - n]
  BY <1>1, <1>3 DEF IsConcat
<1>5. u \in Seq(Nat) /\ Len(u) = n /\ \A i \in 1 .. n : u[i] = d[0 + i]
  <2>1. u = SubSeq(d, 0 + 1, 0 + n) BY <1>1, <1>2
  <2>2. 0 + n <= Len(d) BY <1>2, <1>4
  <2> QED BY <2>1, <2>2, <1>2, <1>4, SubSeqIs
<1>6. v \in Seq(Nat) /\ Len(v) = m /\ \A i \in 1 .. m : v[i] = d[n + i]
  <2>1. v = SubSeq(d, n + 1, n + m) BY <1>1
  <2>2. d \in Seq(Nat) /\ n + m <= Len(d) BY <1>2, <1>4
  <2>3. Part(v, d, n, m) BY <2>1, <2>2, <1>2, PartIs
  <2> QED BY <2>3 DEF Part
<1>7. \A i \in 1 .. n : u[i] = s[i]
  <2>1. ASSUME NEW i \in 1 .. n PROVE u[i] = s[i]
    <3>1. i \in 1 .. n + m /\ i <= n /\ 0 + i = i BY <1>2
    <3> QED BY <3>1, <1>4, <1>5
  <2> QED BY <2>1
<1>8. \A i \in 1 .. m : v[i] = t[i]
  <2>1. ASSUME NEW i \in 1 .. m PROVE v[i] = t[i]
    <3>1. n + i \in 1 .. n + m /\ ~ (n + i <= n) /\ (n + i) - n = i BY <1>2
    <3>2. d[n + i] = t[(n + i) - n] BY <3>1, <1>4
    <3> QED BY <3>1, <3>2, <1>6
  <2> QED BY <2>1
<1>9. u = s BY <1>1, <1>5, <1>7, SameSequence
<1>10. v = t BY <1>1, <1>6, <1>8, SameSequence
<1> QED BY <1>1, <1>9, <1>10

LEMMA NoBytes == ASSUME NEW d \in Seq(Nat) PROVE SubSeq(d, 1, 0) = << >>
<1>1. PICK u : u = SubSeq(d, 0 + 1, 0 + 0) OBVIOUS
<1>2. Len(d) \in Nat OBVIOUS
<1>3. u \in Seq(Nat) /\ Len(u) = 0 BY <1>1, <1>2, SubSeqIs
<1> QED BY <1>1, <1>3

LEMMA DataLength ==
    ASSUME NEW P, IsPool(P), NEW b, b = NullBuffer \/ InNode(P, b)
    PROVE Data(P, b) \in Seq(Nat) /\ Size(b) = Len(Data(P, b)) /\ Size(b) \in Nat
<1>1. CASE b = NullBuffer
  <2>1. Data(P, b) = << >> /\ Size(b) = 0 BY <1>1, NullFacts
  <2> QED BY <2>1
<1>2. CASE InNode(P, b)
  <2>1. Size(b) = b.tail - b.head /\ b.tail \in Nat /\ b.head \in Nat /\ b.head <= b.tail
    BY <1>2, InNodeFacts
  <2>2. IsData(Data(P, b), P, b) BY <1>2, DataIs
  <2>3. Data(P, b) \in Seq(Nat) /\ Len(Data(P, b)) = b.tail - b.head BY <2>2 DEF IsData
  <2>4. b.tail - b.head \in Nat BY <2>1
  <2> QED BY <2>1, <2>3, <2>4
<1> QED BY <1>1, <1>2

\* A message is read as it was written.
LEMMA ParsedIsWritten ==
    ASSUME NEW f \in Frame, NEW P, IsPool(P), NEW b, b = NullBuffer \/ InNode(P, b),
           f.payload = << >> \/ (InNode(P, b) /\ Data(P, b) = f.payload),
           f.from # NoMessage
    PROVE Parsed(f.type, P, b) = f.from
<1>1. PICK g, d, n, r, k :
          /\ g = f.from /\ d = Data(P, b) /\ n = Lead(f.type) /\ r = Len(g.rest) /\ k = Size(b)
  OBVIOUS
<1>2. g \in Message /\ f.type = g.type /\ f.payload = g.lead \o g.rest BY <1>1 DEF Frame
<1>3. /\ f.type \in Types /\ g.lead \in Seq(Nat) /\ g.rest \in Seq(Nat)
      /\ Len(g.lead) = n /\ r = Rest(f.type, r) /\ r \in Nat /\ n \in Nat
      /\ f.type = "FatalError" => g.rest # << >>
      /\ g = [type |-> f.type, lead |-> g.lead, rest |-> g.rest]
  BY <1>1, <1>2, MessageFacts
<1>4. d \in Seq(Nat) /\ k = Len(d) /\ k \in Nat BY <1>1, DataLength
<1>5. Len(f.payload) = n + r
  <2>1. IsConcat(f.payload, g.lead, g.rest) BY <1>2, <1>3, ConcatIs
  <2> QED BY <2>1, <1>1, <1>3 DEF IsConcat
<1>6. CASE f.payload = << >>
  <2>1. n = 0 /\ r = 0 BY <1>3, <1>5, <1>6
  <2>2. g.lead = << >> /\ g.rest = << >> BY <2>1, <1>1, <1>3
  <2>3. f.type # "FatalError" BY <2>2, <1>3
  <2>4. \A i : Rest(f.type, i) = 0 BY <2>1, <2>3, <1>1, <1>3, LeadRest
  <2>5. ~ Bad(f.type, b)
    <3>1. ~ (k < 0) /\ ~ (k < 0 + 0) BY <1>4
    <3> QED BY <3>1, <2>1, <2>3, <2>4, <1>1, <1>3 DEF Bad
  <2>6. Parsed(f.type, P, b) = [type |-> f.type, lead |-> SubSeq(d, 1, 0),
                                rest |-> SubSeq(d, 0 + 1, 0 + 0)]
    BY <2>1, <2>4, <2>5, <1>1 DEF Parsed
  <2>7. SubSeq(d, 1, 0) = << >> /\ SubSeq(d, 0 + 1, 0 + 0) = << >> BY <1>4, NoBytes
  <2> QED BY <2>2, <2>6, <2>7, <1>1, <1>3
<1>7. CASE f.payload # << >>
  <2>1. InNode(P, b) /\ d = f.payload BY <1>1, <1>7
  <2>2. k = n + r /\ k - n = r BY <2>1, <1>3, <1>4, <1>5
  <2>3. b.node # 0 BY <2>1, InNodeFacts
  <2>4. ~ Bad(f.type, b)
    <3>1. ~ (k < n) /\ ~ (k < n + r) BY <2>2, <1>3
    <3>2. Rest(f.type, Size(b) - Lead(f.type)) = r BY <2>2, <1>1, <1>3
    <3> QED BY <3>1, <3>2, <2>3, <1>1, <1>3 DEF Bad
  <2>5. Rest(f.type, Len(d) - n) = r BY <2>2, <1>3, <1>4
  <2>6. Parsed(f.type, P, b) = [type |-> f.type, lead |-> SubSeq(d, 1, n),
                                rest |-> SubSeq(d, n + 1, n + r)]
    BY <2>4, <2>5, <1>1 DEF Parsed
  <2>7. d = g.lead \o g.rest BY <2>1, <1>2
  <2>8. SubSeq(d, 1, Len(g.lead)) = g.lead
        /\ SubSeq(d, Len(g.lead) + 1, Len(g.lead) + Len(g.rest)) = g.rest
    BY <2>7, <1>3, SplitConcat, SMTT(30)
  <2> QED BY <2>6, <2>8, <1>1, <1>3
<1> QED BY <1>6, <1>7

\* What parse takes of the buffer is there.
Takes(type, P, b, m) ==
    /\ PopCount(type, b) \in Nat /\ PopCount(type, b) <= Size(b)
    /\ type = "DataExchange" =>
          /\ InNode(P, b)
          /\ U64 \in Nat /\ U64 <= Size(b)
          /\ m.rest = SubSeq(Data(P, b), U64 + 1, Len(Data(P, b)))
          /\ m.rest \in Seq(Nat)

LEMMA ParsedTakes ==
    ASSUME NEW P, IsPool(P), NEW b, b = NullBuffer \/ InNode(P, b), NEW type,
           NEW m, m = Parsed(type, P, b), m # NoMessage
    PROVE Takes(type, P, b, m)
<1>1. PICK d, n, k : d = Data(P, b) /\ n = Lead(type) /\ k = Size(b) OBVIOUS
<1>2. d \in Seq(Nat) /\ k = Len(d) /\ k \in Nat BY <1>1, DataLength
<1>3. ~ Bad(type, b) BY DEF Parsed
<1>4. n \in Nat BY <1>1, LeadRest
<1>5. ~ (k < n) /\ ~ (k < n + Rest(type, k - n)) BY <1>1, <1>3 DEF Bad
<1>6. k - n \in Nat BY <1>2, <1>4, <1>5
<1>7. Rest(type, k - n) \in Nat BY <1>6, LeadRest
<1>8. n + Rest(type, k - n) \in Nat /\ n + Rest(type, k - n) <= k
  <2>1. PICK r : r = Rest(type, k - n) OBVIOUS
  <2>2. r \in Nat BY <1>7, <2>1
  <2>3. ~ (k < n + r) BY <1>5, <2>1
  <2>4. n + r \in Nat /\ n + r <= k BY <1>2, <1>4, <2>2, <2>3
  <2> QED BY <2>1, <2>4
<1>9. ASSUME type = "DataExchange"
      PROVE /\ InNode(P, b)
            /\ U64 \in Nat /\ U64 <= k
            /\ m.rest = SubSeq(d, U64 + 1, Len(d))
            /\ m.rest \in Seq(Nat)
  <2>1. n = U64 /\ \A i : Rest(type, i) = i BY <1>1, <1>9, LeadRest
  <2>2. U64 \in Nat \ {0} BY Sizes
  <2>3. U64 <= k BY <1>2, <1>5, <2>1, <2>2
  <2>4. InNode(P, b)
    <3>1. k # 0 BY <1>2, <2>2, <2>3
    <3> QED BY <3>1, <1>1, NullFacts
  <2>5. Rest(type, Len(d) - n) = k - U64 BY <2>1, <1>2
  <2>6. m = [type |-> type, lead |-> SubSeq(d, 1, n), rest |-> SubSeq(d, n + 1, n + (k - U64))]
    BY <2>5, <1>1, <1>3 DEF Parsed
  <2>7. m.rest = SubSeq(d, U64 + 1, U64 + (k - U64))
    <3>1. PICK s, t : s = SubSeq(d, 1, n) /\ t = SubSeq(d, n + 1, n + (k - U64)) OBVIOUS
    <3>2. m = [type |-> type, lead |-> s, rest |-> t] BY <2>6, <3>1
    <3>3. m.rest = t BY <3>2
    <3> QED BY <3>1, <3>3, <2>1
  <2>8. U64 + (k - U64) = Len(d) /\ k - U64 \in Nat /\ U64 + (k - U64) <= Len(d)
    BY <1>2, <2>2, <2>3
  <2>9. m.rest \in Seq(Nat) BY <2>2, <2>7, <2>8, <1>2, SubSeqIs
  <2> QED BY <2>2, <2>3, <2>4, <2>7, <2>8, <2>9
<1>10. PopCount(type, b) \in Nat /\ PopCount(type, b) <= k BY <1>1, <1>8, <1>9 DEF PopCount
<1> QED BY <1>1, <1>9, <1>10 DEF Takes

-----------------------------------------------------------------------------
(***************************************************************************)
(* What each step does to its peer's buffers.                              *)
(***************************************************************************)
\* Only the node of the peer's own buffer counts for its place.
LEMMA OwnNode ==
    ASSUME NEW b, NEW c, NEW q, b.node = c.node
    PROVE Used(b, q) = Used(c, q) /\ (Distinct(b, q) <=> Distinct(c, q))
BY DEF Used, Distinct

LEMMA ZeroUnused == ASSUME NEW b, NEW q PROVE 0 \notin Used(b, q)
BY DEF Used

LEMMA EntryNode ==
    ASSUME NEW b, NEW q, NEW i \in DOMAIN q, q[i].buffer.node # 0
    PROVE q[i].buffer.node \in Used(NullBuffer, q) /\ q[i].buffer.node \in Used(b, q)
BY DEF Used

\* The nodes of a queue as they were, so are its entries.
LEMMA QueueKept ==
    ASSUME NEW P, NEW Q, NEW q, IsPool(P), \A i \in DOMAIN q : Queued(P, q[i]),
           \A k \in Used(NullBuffer, q) : k \in DOMAIN Q.node /\ Q.node[k] = P.node[k]
    PROVE \A i \in DOMAIN q : Queued(Q, q[i])
<1>1. ASSUME NEW i \in DOMAIN q PROVE Queued(Q, q[i])
  <2>1. PICK e : e = q[i] OBVIOUS
  <2>2. Queued(P, e) BY <2>1
  <2>3. e.buffer.node # 0 => e.buffer.node \in DOMAIN Q.node
                             /\ Q.node[e.buffer.node] = P.node[e.buffer.node]
    BY <2>1, EntryNode
  <2> QED BY <2>1, <2>2, <2>3, QueuedKept
<1> QED BY <1>1

LEMMA PiecesKept ==
    ASSUME NEW P, NEW Q, NEW q, IsPool(P), \A i \in DOMAIN q : HeldRight(P, q[i]),
           \A k \in Used(NullBuffer, q) : k \in DOMAIN Q.node /\ Q.node[k] = P.node[k]
    PROVE \A i \in DOMAIN q : HeldRight(Q, q[i])
<1>1. ASSUME NEW i \in DOMAIN q PROVE HeldRight(Q, q[i])
  <2>1. PICK e : e = q[i] OBVIOUS
  <2>2. InNode(P, e.buffer) /\ Data(P, e.buffer) = e.bytes BY <2>1 DEF HeldRight
  <2>3. e.buffer.node # 0 BY <2>2, InNodeFacts
  <2>4. e.buffer.node \in DOMAIN Q.node /\ Q.node[e.buffer.node] = P.node[e.buffer.node]
    BY <2>1, <2>3, EntryNode
  <2>5. InNode(Q, e.buffer) /\ Data(Q, e.buffer) = Data(P, e.buffer) BY <2>2, <2>4, DataKept
  <2> QED BY <2>1, <2>2, <2>5 DEF HeldRight
<1> QED BY <1>1

LEMMA SenderSends ==
    ASSUME NEW P, NEW w, NEW q, SenderFor(P, w, q), NEW m \in Control,
           NEW r, r = Append(q, [message |-> m, buffer |-> NullBuffer])
    PROVE SenderFor(P, w, r)
<1>1. /\ PoolFor(P, Used(w, q)) /\ Distinct(w, q) /\ q \in Seq(Entry)
      /\ \A i \in DOMAIN q : Queued(P, q[i])
  BY DEF SenderFor
<1>2. PICK e : e = [message |-> m, buffer |-> NullBuffer] OBVIOUS
<1>3. e.buffer = NullBuffer /\ e.message = m /\ e.buffer.node = 0 BY <1>2, NullFacts
<1>4. e \in Entry /\ Queued(P, e) BY <1>2, <1>3, ControlAssumption, NullFacts DEF Entry, Queued
<1>5. e.buffer.node \notin Used(w, q) BY <1>3, ZeroUnused
<1>6. /\ r \in Seq(Entry) /\ Distinct(w, r)
      /\ Used(w, r) = Used(w, q) \cup ({e.buffer.node} \ {0})
      /\ DOMAIN r = 1 .. Len(q) + 1 /\ r[Len(q) + 1] = e
      /\ DOMAIN q = 1 .. Len(q) /\ Len(q) \in Nat
      /\ \A i \in 1 .. Len(q) : r[i] = q[i]
  <2>1. r = Append(q, e) BY <1>2
  <2>2. Pushed(r, w, q, Entry, e) BY <2>1, <1>1, <1>4, <1>5, QueueGrows
  <2> QED BY <2>2 DEF Pushed
<1>7. Used(w, r) = Used(w, q) BY <1>3, <1>6
<1>8. \A i \in DOMAIN r : Queued(P, r[i])
  <2>1. \A i \in 1 .. Len(q) + 1 : i \in 1 .. Len(q) \/ i = Len(q) + 1 BY <1>6
  <2> QED BY <2>1, <1>1, <1>4, <1>6
<1> QED BY <1>1, <1>6, <1>7, <1>8 DEF SenderFor

LEMMA DataMessage ==
    ASSUME NEW id \in Ids, NEW data \in Payloads
    PROVE /\ [type |-> "DataExchange", lead |-> id, rest |-> data] \in Message
          /\ Len(data) <= MaxData
<1>1. id \in Seq(Nat) /\ Len(id) = U64 /\ data \in Seq(Nat) /\ Len(data) \in 1 .. MaxData
  BY TunnelAssumption
<1>2. Lead("DataExchange") = U64 /\ Rest("DataExchange", Len(data)) = Len(data) BY LeadRest
<1>3. "DataExchange" \in Types BY DEF Types
<1>4. MaxData \in Int BY Sizes
<1> QED BY <1>1, <1>2, <1>3, <1>4 DEF Message

LEMMA SenderReads ==
    ASSUME NEW P, NEW w, NEW q, SenderFor(P, w, q), WriterFor(P, w),
           NEW id \in Ids, NEW data \in Payloads, NEW n \in 1 .. MaxData, Len(data) <= n,
           NEW x, x = AppendTo(ReserveHead(Allocate(P, HeaderRoom + n), HeaderRoom), data),
           NEW r, r = Append(q, [message |-> [type |-> "DataExchange", lead |-> id, rest |-> data],
                                 buffer |-> x.buffer])
    PROVE SenderFor(x.pool, w, r) /\ WriterFor(x.pool, w) /\ Fits(x)
<1>1. /\ PoolFor(P, Used(w, q)) /\ Distinct(w, q) /\ q \in Seq(Entry)
      /\ \A i \in DOMAIN q : Queued(P, q[i])
  BY DEF SenderFor
<1>2. PICK U, m : U = Used(w, q) /\ m = [type |-> "DataExchange", lead |-> id, rest |-> data]
  OBVIOUS
<1>3. PoolFor(P, U) /\ IsPool(P) BY <1>1, <1>2 DEF PoolFor
<1>4. ReadInto(x, P, U, data) BY <1>3, ReadIntoIs
<1>5. /\ x.buffer.node \notin U /\ x.buffer.node # 0
      /\ PoolFor(x.pool, U \cup {x.buffer.node})
      /\ \A k \in U : x.pool.node[k] = P.node[k]
      /\ InNode(x.pool, x.buffer)
      /\ x.buffer.head = HeaderRoom
      /\ Data(x.pool, x.buffer) = data
      /\ Fits(x)
  BY <1>4 DEF ReadInto
<1>6. m \in Message /\ Len(data) <= MaxData BY <1>2, DataMessage
<1>7. PICK e : e = [message |-> m, buffer |-> x.buffer] OBVIOUS
<1>8. e.message = m /\ e.buffer = x.buffer /\ m.type = "DataExchange" /\ m.rest = data
  BY <1>2, <1>7
<1>9. e \in Entry
  <2>1. x.buffer \in Buffer BY <1>5 DEF InNode
  <2> QED BY <2>1, <1>6, <1>7 DEF Entry
<1>10. Queued(x.pool, e) BY <1>5, <1>6, <1>8 DEF Queued
<1>11. r = Append(q, e) BY <1>2, <1>7
<1>12. e.buffer.node \notin Used(w, q) BY <1>2, <1>5, <1>8
<1>13. /\ r \in Seq(Entry) /\ Distinct(w, r)
       /\ Used(w, r) = Used(w, q) \cup ({e.buffer.node} \ {0})
       /\ DOMAIN r = 1 .. Len(q) + 1 /\ r[Len(q) + 1] = e
       /\ DOMAIN q = 1 .. Len(q) /\ Len(q) \in Nat
       /\ \A i \in 1 .. Len(q) : r[i] = q[i]
  <2>1. Pushed(r, w, q, Entry, e) BY <1>1, <1>9, <1>11, <1>12, QueueGrows
  <2> QED BY <2>1 DEF Pushed
<1>14. Used(w, r) = U \cup {x.buffer.node} BY <1>2, <1>5, <1>8, <1>13
<1>15. \A k \in U : k \in DOMAIN x.pool.node /\ x.pool.node[k] = P.node[k] BY <1>5, PoolForNodes
<1>16. \A i \in DOMAIN q : Queued(x.pool, q[i])
  <2>1. \A k \in Used(NullBuffer, q) : k \in U BY <1>2, OwnApart
  <2> QED BY <2>1, <1>1, <1>3, <1>15, QueueKept
<1>17. \A i \in DOMAIN r : Queued(x.pool, r[i])
  <2>1. \A i \in 1 .. Len(q) + 1 : i \in 1 .. Len(q) \/ i = Len(q) + 1 BY <1>13
  <2> QED BY <2>1, <1>10, <1>13, <1>16
<1>18. WriterFor(x.pool, w)
  <2>1. /\ w \in Buffer /\ w.node \in DOMAIN P.node
        /\ ControlSize <= Len(P.node[w.node].bytes)
    BY DEF WriterFor
  <2>2. w.node # 0
    <3>1. P.last \in Nat /\ DOMAIN P.node \subseteq 1 .. P.last BY <1>3 DEF IsPool
    <3>2. w.node \in 1 .. P.last BY <2>1, <3>1
    <3> QED BY <3>1, <3>2
  <2>3. w.node \in U BY <2>2, <1>2 DEF Used
  <2> QED BY <2>1, <2>3, <1>15 DEF WriterFor
<1> QED BY <1>5, <1>13, <1>14, <1>17, <1>18 DEF SenderFor

\* A buffer is given back after it was rewritten.
Released(N, P, U, k) ==
    /\ PoolFor(N, U \ {k})
    /\ \A j \in U \ {k} : j \in DOMAIN N.node /\ N.node[j] = P.node[j]

LEMMA FreedAfter ==
    ASSUME NEW P, NEW U, PoolFor(P, U), NEW k \in U, NEW R, Only(R, P, k),
           NEW b, b.node = k, NEW N, N = Free(R, b)
    PROVE Released(N, P, U, k)
<1>1. PoolFor(R, U) BY OnlyFor
<1>2. PoolFor(N, U \ {b.node}) /\ \A j \in U \ {b.node} : N.node[j] = R.node[j]
  BY <1>1, FreeFor
<1>3. PoolFor(N, U \ {k}) /\ \A j \in U \ {k} : N.node[j] = R.node[j] BY <1>2
<1>4. \A j \in U \ {k} : j \in DOMAIN N.node BY <1>3, PoolForNodes
<1>5. \A j \in U \ {k} : R.node[j] = P.node[j]
  <2>1. \A j \in U : j \in DOMAIN P.node BY PoolForNodes
  <2> QED BY <2>1 DEF Only
<1> QED BY <1>3, <1>4, <1>5 DEF Released

LEMMA FrameIs ==
    ASSUME NEW m \in Message, NEW d, d = m.lead \o m.rest
    PROVE [type |-> m.type, payload |-> d, from |-> m] \in Frame
<1>1. m.type \in Types /\ m.lead \in Seq(Nat) /\ m.rest \in Seq(Nat) BY MessageFacts
<1>2. IsConcat(d, m.lead, m.rest) BY <1>1, ConcatIs
<1>3. d \in Seq(Nat) BY <1>2 DEF IsConcat
<1>4. PICK f : f = [type |-> m.type, payload |-> d, from |-> m] OBVIOUS
<1>5. f.type = m.type /\ f.payload = d /\ f.from = m BY <1>4
<1>6. f \in [type : Types \cup {g.type : g \in Foreign}, payload : Seq(Nat),
             from : Message \cup {NoMessage}]
  BY <1>1, <1>3, <1>4
<1>7. f \in Frame BY <1>5, <1>6 DEF Frame
<1> QED BY <1>4, <1>7

LEMMA SenderEncodes ==
    ASSUME NEW P, NEW w, NEW q, SenderFor(P, w, q), WriterFor(P, w), q # << >>,
           Head(q).buffer = NullBuffer, NEW m, m = Head(q).message,
           NEW x, x = Encoded([pool |-> P, buffer |-> w], m),
           NEW y, y = PrependTo(x, HeaderBytes), Fits(y), NEW r, r = Tail(q)
    PROVE /\ SenderFor(y.pool, y.buffer, r) /\ WriterFor(y.pool, y.buffer)
          /\ [type |-> m.type, payload |-> Data(x.pool, x.buffer), from |-> m] \in Frame
<1>1. /\ PoolFor(P, Used(w, q)) /\ Distinct(w, q) /\ q \in Seq(Entry)
      /\ \A i \in DOMAIN q : Queued(P, q[i])
  BY DEF SenderFor
<1>2. IsPool(P) BY <1>1 DEF PoolFor
<1>3. /\ w \in Buffer /\ w.node \in DOMAIN P.node
      /\ ControlSize <= Len(P.node[w.node].bytes)
  BY DEF WriterFor
<1>4. Popped(r, w, q, Entry) BY <1>1, QueueShrinks
<1>5. /\ r \in Seq(Entry) /\ Distinct(w, r) /\ Head(q) = q[1] /\ 1 \in DOMAIN q
      /\ Used(w, r) = Used(w, q) \ {Head(q).buffer.node}
      /\ \A i \in DOMAIN r : i + 1 \in DOMAIN q /\ r[i] = q[i + 1]
  BY <1>4 DEF Popped
<1>6. Used(w, r) = Used(w, q)
  <2>1. Head(q).buffer.node = 0 BY NullFacts
  <2>2. 0 \notin Used(w, q) BY ZeroUnused
  <2> QED BY <2>1, <2>2, <1>5
<1>7. m \in Control /\ m \in Message
  <2>1. Queued(P, Head(q)) BY <1>1, <1>5
  <2>2. ~ InNode(P, Head(q).buffer) BY <1>2, NullFacts
  <2>3. m \in Control BY <2>1, <2>2 DEF Queued
  <2> QED BY <2>3, ControlAssumption
<1>8. Written(x, y, P, w, m.lead \o m.rest)
  <2>1. HeaderRoom + Len(m.lead) + Len(m.rest) <= Len(P.node[w.node].bytes)
    BY <1>2, <1>3, <1>7, EncodedFits
  <2> QED BY <2>1, <1>2, <1>3, <1>7, ControlWritten
<1>9. /\ Data(x.pool, x.buffer) = m.lead \o m.rest
      /\ y.buffer.node = w.node
      /\ Only(y.pool, P, w.node)
      /\ InNode(y.pool, y.buffer)
  BY <1>8 DEF Written
<1>10. PoolFor(y.pool, Used(y.buffer, r)) /\ Distinct(y.buffer, r)
  <2>1. PoolFor(y.pool, Used(w, r)) BY <1>1, <1>6, <1>9, OnlyFor
  <2>2. Used(y.buffer, r) = Used(w, r) /\ (Distinct(y.buffer, r) <=> Distinct(w, r))
    BY <1>9, OwnNode
  <2> QED BY <2>1, <2>2, <1>5
<1>11. \A i \in DOMAIN r : Queued(y.pool, r[i])
  <2>1. \A i \in DOMAIN r : Queued(P, r[i]) BY <1>1, <1>5
  <2>2. ASSUME NEW k \in Used(NullBuffer, r)
        PROVE k \in DOMAIN y.pool.node /\ y.pool.node[k] = P.node[k]
    <3>1. k # w.node BY <1>5, OwnApart
    <3>2. k \in Used(w, q) BY <1>6, OwnApart
    <3>3. k \in DOMAIN P.node BY <3>2, <1>1, PoolForNodes
    <3> QED BY <3>1, <3>3, <1>9 DEF Only
  <2> QED BY <2>1, <2>2, <1>2, QueueKept
<1>12. WriterFor(y.pool, y.buffer)
  <2>1. Len(y.pool.node[w.node].bytes) = Len(P.node[w.node].bytes) BY <1>3, <1>9 DEF Only
  <2>2. y.buffer \in Buffer /\ y.buffer.node \in DOMAIN y.pool.node BY <1>9 DEF InNode
  <2> QED BY <2>1, <2>2, <1>3, <1>9 DEF WriterFor
<1>13. [type |-> m.type, payload |-> Data(x.pool, x.buffer), from |-> m] \in Frame
  BY <1>7, <1>9, FrameIs
<1> QED BY <1>5, <1>9, <1>10, <1>11, <1>12, <1>13 DEF SenderFor

\* What SenderShips promises: the message m has left, with its buffer b.
Shipped(N, w, r, x, y, b, m) ==
    /\ SenderFor(N, w, r) /\ WriterFor(N, w)
    /\ Fits(y) /\ Size(b) <= MaxData /\ b.head >= HeaderRoom
    /\ [type |-> m.type, payload |-> Data(x.pool, x.buffer), from |-> m] \in Frame

LEMMA SenderShips ==
    ASSUME NEW P, NEW w, NEW q, SenderFor(P, w, q), WriterFor(P, w), q # << >>,
           NEW b, b = Head(q).buffer, b # NullBuffer, NEW m, m = Head(q).message,
           NEW x, x = PrependTo([pool |-> P, buffer |-> b], m.lead),
           NEW y, y = PrependTo(x, HeaderBytes), NEW r, r = Tail(q),
           NEW N, N = Free(y.pool, y.buffer)
    PROVE Shipped(N, w, r, x, y, b, m)
<1>1. /\ PoolFor(P, Used(w, q)) /\ Distinct(w, q) /\ q \in Seq(Entry)
      /\ \A i \in DOMAIN q : Queued(P, q[i])
  BY DEF SenderFor
<1>2. IsPool(P) BY <1>1 DEF PoolFor
<1>3. /\ w \in Buffer /\ w.node \in DOMAIN P.node
      /\ ControlSize <= Len(P.node[w.node].bytes)
  BY DEF WriterFor
<1>4. Popped(r, w, q, Entry) BY <1>1, QueueShrinks
<1>5. /\ r \in Seq(Entry) /\ Distinct(w, r) /\ Head(q) \in Entry /\ Head(q) = q[1] /\ 1 \in DOMAIN q
      /\ Used(w, r) = Used(w, q) \ {b.node}
      /\ b.node # 0 => b.node \in Used(w, q) /\ b.node # w.node
      /\ \A i \in DOMAIN r : i + 1 \in DOMAIN q /\ r[i] = q[i + 1]
  BY <1>4 DEF Popped
<1>6. /\ InNode(P, b) /\ b.head = HeaderRoom /\ m.type = "DataExchange"
      /\ Data(P, b) = m.rest /\ Len(m.rest) <= MaxData
  <2>1. Queued(P, Head(q)) BY <1>1, <1>5
  <2> QED BY <2>1 DEF Queued
<1>7. /\ m \in Message /\ m.lead \in Seq(Nat) /\ Len(m.lead) = U64
  <2>1. m \in Message BY <1>5 DEF Entry
  <2>2. m.lead \in Seq(Nat) /\ Len(m.lead) = Lead(m.type) BY <2>1, MessageFacts
  <2>3. Lead(m.type) = U64 BY <1>6, LeadRest
  <2> QED BY <2>1, <2>2, <2>3
<1>8. b.node # 0 /\ b.node \in Used(w, q) /\ b.node # w.node BY <1>2, <1>5, <1>6, InNodeFacts
<1>9. Written(x, y, P, b, m.lead \o Data(P, b)) BY <1>2, <1>6, <1>7, DataWritten
<1>10. /\ Data(x.pool, x.buffer) = m.lead \o m.rest
       /\ y.buffer.node = b.node
       /\ Only(y.pool, P, b.node)
       /\ InNode(y.pool, y.buffer)
       /\ Fits(y)
  BY <1>6, <1>9 DEF Written
<1>11. /\ PoolFor(N, Used(w, r))
       /\ \A k \in Used(w, r) : k \in DOMAIN N.node /\ N.node[k] = P.node[k]
  <2>1. Released(N, P, Used(w, q), b.node) BY <1>1, <1>8, <1>10, FreedAfter
  <2> QED BY <2>1, <1>5 DEF Released
<1>12. \A i \in DOMAIN r : Queued(N, r[i])
  <2>1. \A i \in DOMAIN r : Queued(P, r[i]) BY <1>1, <1>5
  <2>2. \A k \in Used(NullBuffer, r) : k \in DOMAIN N.node /\ N.node[k] = P.node[k]
    <3>1. \A k \in Used(NullBuffer, r) : k \in Used(w, r) BY OwnApart
    <3> QED BY <3>1, <1>11
  <2> QED BY <2>1, <2>2, <1>2, QueueKept
<1>13. WriterFor(N, w)
  <2>1. w.node \in Used(w, r)
    <3>1. w.node # 0
      <4>1. P.last \in Nat /\ DOMAIN P.node \subseteq 1 .. P.last BY <1>2 DEF IsPool
      <4>2. w.node \in 1 .. P.last BY <4>1, <1>3
      <4> QED BY <4>1, <4>2
    <3> QED BY <3>1 DEF Used
  <2> QED BY <2>1, <1>3, <1>11 DEF WriterFor
<1>14. [type |-> m.type, payload |-> Data(x.pool, x.buffer), from |-> m] \in Frame
  BY <1>7, <1>10, FrameIs
<1>15. Size(b) <= MaxData
  <2>1. Size(b) = Len(Data(P, b)) BY <1>2, <1>6, DataLength
  <2> QED BY <2>1, <1>6
<1>16. b.head >= HeaderRoom BY <1>6, Sizes
<1> QED BY <1>5, <1>10, <1>11, <1>12, <1>13, <1>14, <1>15, <1>16 DEF SenderFor, Shipped

LEMMA ReceiverReadies ==
    ASSUME NEW P, NEW r, NEW q, ReceiverFor(P, r, q), NEW n \in Nat \ {0},
           NEW x, x = Clear(GrownFrom(P, r, n))
    PROVE /\ ReceiverFor(x.pool, x.buffer, q)
          /\ InNode(x.pool, x.buffer) /\ x.buffer.head = 0 /\ x.buffer.tail = 0
          /\ n <= Len(x.pool.node[x.buffer.node].bytes) /\ n <= Capacity(x.pool, x.buffer)
<1>2. q \in Seq(Piece) /\ \A i \in DOMAIN q : HeldRight(P, q[i]) BY DEF ReceiverFor
<1>3. PoolFor(P, Used(r, q)) /\ Distinct(r, q) /\ IsPool(P) BY DEF ReceiverFor, PoolFor
<1>4. r = NullBuffer \/ InNode(P, r) BY DEF ReceiverFor
<1>5. PICK V : V = Used(NullBuffer, q) OBVIOUS
<1>6. PoolFor(P, V \cup ({r.node} \ {0})) /\ r.node \notin V BY <1>3, <1>5, OwnApart
<1>7. Readied(x, P, V, n) BY <1>4, <1>6, ReadiedIs
<1>8. /\ x.buffer.node # 0 /\ x.buffer.node \notin V
      /\ x.buffer.head = 0 /\ x.buffer.tail = 0
      /\ PoolFor(x.pool, V \cup {x.buffer.node})
      /\ \A k \in V : x.pool.node[k] = P.node[k]
      /\ InNode(x.pool, x.buffer)
      /\ n <= Len(x.pool.node[x.buffer.node].bytes)
      /\ n <= Capacity(x.pool, x.buffer)
  BY <1>7 DEF Readied
<1>9. Used(x.buffer, q) = V \cup {x.buffer.node} BY <1>5, <1>8, OwnApart
<1>10. Distinct(x.buffer, q) BY <1>3, <1>5, <1>8, OwnApart
<1>11. \A i \in DOMAIN q : HeldRight(x.pool, q[i])
  <2>1. \A k \in Used(NullBuffer, q) : k \in DOMAIN x.pool.node /\ x.pool.node[k] = P.node[k]
    BY <1>5, <1>8, PoolForNodes
  <2> QED BY <2>1, <1>2, <1>3, PiecesKept
<1>12. PoolFor(x.pool, Used(x.buffer, q)) BY <1>8, <1>9
<1> QED BY <1>2, <1>8, <1>10, <1>11, <1>12 DEF ReceiverFor

LEMMA ReceiverAppends ==
    ASSUME NEW P, NEW r, NEW q, ReceiverFor(P, r, q), NEW f, Awaits(P, r, f),
           NEW x, x = AppendTo([pool |-> P, buffer |-> r], f.payload)
    PROVE /\ ReceiverFor(x.pool, x.buffer, q)
          /\ InNode(x.pool, x.buffer) /\ Data(x.pool, x.buffer) = f.payload
<1>1. /\ f \in Frame /\ InNode(P, r) /\ r.head = 0 /\ r.tail = 0
      /\ Len(f.payload) <= Len(P.node[r.node].bytes)
  BY DEF Awaits
<1>2. q \in Seq(Piece) /\ \A i \in DOMAIN q : HeldRight(P, q[i]) BY DEF ReceiverFor
<1>3. PoolFor(P, Used(r, q)) /\ Distinct(r, q) /\ IsPool(P) BY DEF ReceiverFor, PoolFor
<1>4. PICK s, d : s = [pool |-> P, buffer |-> r] /\ d = f.payload OBVIOUS
<1>5. s.pool = P /\ s.buffer = r /\ Pair(s) BY <1>4 DEF Pair
<1>6. d \in Seq(Nat) /\ Len(d) \in Nat BY <1>1, <1>4 DEF Frame
<1>7. Appended(x, s, d)
  <2>1. s.buffer.tail + Len(d) <= Len(s.pool.node[s.buffer.node].bytes)
    <3>1. PICK n : n = Len(d) OBVIOUS
    <3>2. 0 + n = n BY <3>1, <1>6
    <3>3. s.buffer.tail + n = n BY <3>2, <1>1, <1>5
    <3> QED BY <3>1, <3>3, <1>1, <1>4, <1>5
  <2> QED BY <2>1, <1>1, <1>3, <1>4, <1>5, <1>6, AppendIs
<1>8. /\ IsPool(x.pool) /\ InNode(x.pool, x.buffer)
      /\ x.buffer.node = r.node
      /\ Only(x.pool, P, r.node)
      /\ Data(x.pool, x.buffer) = Data(P, r) \o d
  BY <1>3, <1>5, <1>6, <1>7, AppendedParts
<1>9. Data(P, r) = << >>
  <2>1. Data(P, r) \in Seq(Nat) /\ Size(r) = Len(Data(P, r)) BY <1>1, <1>3, DataLength
  <2>2. Size(r) = 0 BY <1>1 DEF Size
  <2>3. PICK e : e = Data(P, r) OBVIOUS
  <2>4. e \in Seq(Nat) /\ Len(e) = 0 BY <2>1, <2>2, <2>3
  <2>5. e = << >> BY <2>4
  <2> QED BY <2>3, <2>5
<1>10. Data(x.pool, x.buffer) = f.payload BY <1>4, <1>6, <1>8, <1>9
<1>11. PoolFor(x.pool, Used(x.buffer, q)) /\ Distinct(x.buffer, q)
  <2>1. PoolFor(x.pool, Used(r, q)) BY <1>3, <1>8, OnlyFor
  <2>2. Used(x.buffer, q) = Used(r, q) /\ (Distinct(x.buffer, q) <=> Distinct(r, q))
    BY <1>8, OwnNode
  <2> QED BY <2>1, <2>2, <1>3
<1>12. \A i \in DOMAIN q : HeldRight(x.pool, q[i])
  <2>1. ASSUME NEW k \in Used(NullBuffer, q)
        PROVE k \in DOMAIN x.pool.node /\ x.pool.node[k] = P.node[k]
    <3>1. k # r.node /\ k \in Used(r, q) BY <1>3, OwnApart
    <3>2. k \in DOMAIN P.node BY <3>1, <1>3, PoolForNodes
    <3> QED BY <3>1, <3>2, <1>8 DEF Only
  <2> QED BY <2>1, <1>2, <1>3, PiecesKept
<1> QED BY <1>2, <1>8, <1>10, <1>11, <1>12 DEF ReceiverFor

LEMMA ReceiverTakes ==
    ASSUME NEW P, NEW b, NEW q, ReceiverFor(P, b, q), NEW type, NEW m, Takes(type, P, b, m),
           type # "DataExchange", NEW c, c = Left(type, b)
    PROVE ReceiverFor(P, c, q)
<1>1. q \in Seq(Piece) /\ \A i \in DOMAIN q : HeldRight(P, q[i]) BY DEF ReceiverFor
<1>2. PoolFor(P, Used(b, q)) /\ Distinct(b, q) /\ IsPool(P) BY DEF ReceiverFor, PoolFor
<1>3. b = NullBuffer \/ InNode(P, b) BY DEF ReceiverFor
<1>4. CASE b.node = 0
  <2>1. c = b BY <1>4 DEF Left
  <2> QED BY <2>1
<1>5. CASE b.node # 0
  <2>1. InNode(P, b) BY <1>3, <1>5, NullFacts
  <2>2. PICK n : n = PopCount(type, b) OBVIOUS
  <2>3. n \in Nat /\ n <= Size(b) BY <2>2 DEF Takes
  <2>4. c = ConsumeFront(b, n) BY <2>2, <1>5 DEF Left
  <2>5. Consumed(c, P, b, n) BY <2>1, <2>3, <2>4, <1>2, ConsumedIs
  <2>6. InNode(P, c) /\ c.node = b.node BY <2>5 DEF Consumed
  <2>7. Used(c, q) = Used(b, q) /\ (Distinct(c, q) <=> Distinct(b, q)) BY <2>6, OwnNode
  <2>8. PoolFor(P, Used(c, q)) /\ Distinct(c, q) BY <2>7, <1>2
  <2> QED BY <2>6, <2>8, <1>1 DEF ReceiverFor
<1> QED BY <1>4, <1>5

LEMMA ReceiverHolds ==
    ASSUME NEW P, NEW b, NEW q, ReceiverFor(P, b, q), NEW m,
           Takes("DataExchange", P, b, m),
           NEW s, s = Append(q, [buffer |-> ConsumeFront(b, U64), bytes |-> m.rest])
    PROVE ReceiverFor(P, NullBuffer, s)
<1>1. q \in Seq(Piece) /\ \A i \in DOMAIN q : HeldRight(P, q[i]) BY DEF ReceiverFor
<1>2. PoolFor(P, Used(b, q)) /\ Distinct(b, q) /\ IsPool(P) BY DEF ReceiverFor, PoolFor
<1>3. /\ InNode(P, b) /\ U64 \in Nat /\ U64 <= Size(b)
      /\ m.rest = SubSeq(Data(P, b), U64 + 1, Len(Data(P, b)))
      /\ m.rest \in Seq(Nat)
  BY DEF Takes
<1>4. PICK c, e : c = ConsumeFront(b, U64) /\ e = [buffer |-> c, bytes |-> m.rest] OBVIOUS
<1>5. e.buffer = c /\ e.bytes = m.rest BY <1>4
<1>6. Consumed(c, P, b, U64) BY <1>2, <1>3, <1>4, ConsumedIs
<1>7. /\ InNode(P, c) /\ c.node = b.node
      /\ Data(P, c) = SubSeq(Data(P, b), U64 + 1, Len(Data(P, b)))
  BY <1>6 DEF Consumed
<1>8. HeldRight(P, e) BY <1>3, <1>5, <1>7 DEF HeldRight
<1>9. e \in Piece
  <2>1. c \in Buffer BY <1>7 DEF InNode
  <2> QED BY <2>1, <1>3, <1>4 DEF Piece
<1>10. Distinct(NullBuffer, q) /\ e.buffer.node \notin Used(NullBuffer, q)
  BY <1>2, <1>5, <1>7, OwnApart
<1>11. Pushed(s, NullBuffer, q, Piece, e)
  <2>1. s = Append(q, e) BY <1>4
  <2> QED BY <2>1, <1>1, <1>9, <1>10, QueueGrows
<1>12. /\ s \in Seq(Piece) /\ Distinct(NullBuffer, s)
       /\ Used(NullBuffer, s) = Used(NullBuffer, q) \cup ({e.buffer.node} \ {0})
       /\ DOMAIN s = 1 .. Len(q) + 1 /\ s[Len(q) + 1] = e
       /\ DOMAIN q = 1 .. Len(q) /\ Len(q) \in Nat
       /\ \A i \in 1 .. Len(q) : s[i] = q[i]
  BY <1>11 DEF Pushed
<1>13. Used(NullBuffer, s) = Used(b, q) BY <1>5, <1>7, <1>12, OwnApart
<1>14. \A i \in DOMAIN s : HeldRight(P, s[i])
  <2>1. \A i \in 1 .. Len(q) + 1 : i \in 1 .. Len(q) \/ i = Len(q) + 1 BY <1>12
  <2> QED BY <2>1, <1>1, <1>8, <1>12
<1> QED BY <1>2, <1>12, <1>13, <1>14 DEF ReceiverFor

LEMMA FreedIs ==
    ASSUME NEW P, NEW U, PoolFor(P, U), NEW k \in U, NEW b, b.node = k, NEW N, N = Free(P, b)
    PROVE Released(N, P, U, k)
<1>1. PoolFor(N, U \ {b.node}) /\ \A j \in U \ {b.node} : N.node[j] = P.node[j] BY FreeFor
<1>2. PoolFor(N, U \ {k}) /\ \A j \in U \ {k} : N.node[j] = P.node[j] BY <1>1
<1>3. \A j \in U \ {k} : j \in DOMAIN N.node BY <1>2, PoolForNodes
<1> QED BY <1>2, <1>3 DEF Released

\* The first piece has left, its buffer is free, and the reader's is as it was.
LocalWritten(N, P, r, s) ==
    ReceiverFor(N, r, s) /\ \A f : Awaits(P, r, f) => Awaits(N, r, f)

LEMMA ReceiverWrites ==
    ASSUME NEW P, NEW r, NEW q, ReceiverFor(P, r, q), q # << >>,
           NEW N, N = Free(P, Head(q).buffer), NEW s, s = Tail(q)
    PROVE LocalWritten(N, P, r, s)
<1>1. q \in Seq(Piece) /\ \A i \in DOMAIN q : HeldRight(P, q[i]) BY DEF ReceiverFor
<1>2. PoolFor(P, Used(r, q)) /\ Distinct(r, q) /\ IsPool(P) BY DEF ReceiverFor, PoolFor
<1>3. r = NullBuffer \/ InNode(P, r) BY DEF ReceiverFor
<1>4. PICK b, k : b = Head(q).buffer /\ k = b.node OBVIOUS
<1>5. Popped(s, r, q, Piece) BY <1>1, <1>2, QueueShrinks
<1>6. /\ s \in Seq(Piece) /\ Distinct(r, s) /\ Head(q) = q[1] /\ 1 \in DOMAIN q
      /\ Used(r, s) = Used(r, q) \ {k}
      /\ k # 0 => k \in Used(r, q) /\ k # r.node
      /\ \A i \in DOMAIN s : i + 1 \in DOMAIN q /\ s[i] = q[i + 1]
  BY <1>4, <1>5 DEF Popped
<1>7. k # 0 /\ k \in Used(r, q) /\ k # r.node
  <2>1. InNode(P, b) BY <1>1, <1>4, <1>6 DEF HeldRight
  <2> QED BY <2>1, <1>2, <1>4, <1>6, InNodeFacts
<1>8. PoolFor(N, Used(r, s)) /\ \A j \in Used(r, s) : N.node[j] = P.node[j]
  <2>1. Released(N, P, Used(r, q), k) BY <1>2, <1>4, <1>7, FreedIs
  <2> QED BY <2>1, <1>6 DEF Released
<1>9. \A j \in Used(r, s) : j \in DOMAIN N.node BY <1>8, PoolForNodes
<1>10. \A i \in DOMAIN s : HeldRight(N, s[i])
  <2>1. \A i \in DOMAIN s : HeldRight(P, s[i]) BY <1>1, <1>6
  <2>2. \A j \in Used(NullBuffer, s) : j \in DOMAIN N.node /\ N.node[j] = P.node[j]
    <3>1. \A j \in Used(NullBuffer, s) : j \in Used(r, s) BY OwnApart
    <3> QED BY <3>1, <1>8, <1>9
  <2> QED BY <2>1, <2>2, <1>2, PiecesKept
<1>11. InNode(P, r) => r.node \in DOMAIN N.node /\ N.node[r.node] = P.node[r.node]
  <2>1. InNode(P, r) => r.node \in Used(r, s) BY <1>2, InNodeFacts DEF Used
  <2> QED BY <2>1, <1>8, <1>9
<1>12. InNode(P, r) => InNode(N, r) BY <1>11, DataKept
<1>13. ASSUME NEW f, Awaits(P, r, f) PROVE Awaits(N, r, f)
  <2>1. /\ f \in Frame /\ InNode(P, r) /\ r.head = 0 /\ r.tail = 0
        /\ Len(f.payload) <= Len(P.node[r.node].bytes) /\ f.payload # << >>
    BY <1>13 DEF Awaits
  <2> QED BY <2>1, <1>11, <1>12 DEF Awaits
<1> QED BY <1>3, <1>6, <1>8, <1>10, <1>12, <1>13 DEF ReceiverFor, LocalWritten

LEMMA SenderFreed ==
    ASSUME NEW P, NEW w, NEW q, SenderFor(P, w, q),
           NEW N, N = FreeAll(P, {w} \cup {q[i].buffer : i \in DOMAIN q})
    PROVE SenderFor(N, NullBuffer, << >>)
<1>1. q \in Seq(Entry) /\ PoolFor(P, Used(w, q)) /\ Distinct(w, q) BY DEF SenderFor
<1>2. PoolFor(N, Used(NullBuffer, << >>)) /\ Distinct(NullBuffer, << >>) BY <1>1, EndFrees
<1>3. << >> \in Seq(Entry) /\ DOMAIN << >> = {} OBVIOUS
<1> QED BY <1>2, <1>3 DEF SenderFor

LEMMA ReceiverFreed ==
    ASSUME NEW P, NEW b, NEW q, ReceiverFor(P, b, q),
           NEW N, N = FreeAll(P, {b} \cup {q[i].buffer : i \in DOMAIN q})
    PROVE ReceiverFor(N, NullBuffer, << >>)
<1>1. q \in Seq(Piece) /\ PoolFor(P, Used(b, q)) /\ Distinct(b, q) BY DEF ReceiverFor
<1>2. PoolFor(N, Used(NullBuffer, << >>)) /\ Distinct(NullBuffer, << >>) BY <1>1, EndFrees
<1>3. << >> \in Seq(Piece) /\ DOMAIN << >> = {} OBVIOUS
<1> QED BY <1>2, <1>3 DEF ReceiverFor

-----------------------------------------------------------------------------
(***************************************************************************)
(* The inductive invariant, action by action.                              *)
(***************************************************************************)
LEMMA NewPoolFor == PoolFor(NewPool, {})
<1>1. Owned(<< >>) = {}
  <2>1. DOMAIN << >> = {} OBVIOUS
  <2> QED BY <2>1 DEF Owned
<1>2. IsPool(NewPool) /\ Sound(NewPool, << >>) BY NewPoolSound
<1>3. PoolFor(NewPool, Owned(<< >>)) BY <1>2, SoundIsPoolFor
<1> QED BY <1>1, <1>3

LEMMA InitIInv == Init => IInv
<1> SUFFICES ASSUME Init PROVE IInv OBVIOUS
<1>1. PICK x : x = Allocate(NewPool, ControlSize) OBVIOUS
<1>2. /\ sender = x.pool /\ writer = x.buffer /\ out = << >> /\ wire = << >>
      /\ receiver = NewPool /\ reader = NullBuffer /\ frame = NoFrame /\ held = << >>
      /\ faithful = TRUE /\ fits = TRUE /\ aborted = NoMessage /\ ended = {}
  BY <1>1 DEF Init
<1>3. AllocatedFor(x, NewPool, {}, ControlSize) BY <1>1, NewPoolFor, Sizes, AllocateIs
<1>4. PICK k : k = x.buffer.node OBVIOUS
<1>5. /\ x.buffer = [node |-> k, head |-> 0, tail |-> 0]
      /\ Len(x.pool.node[k].bytes) >= ControlSize
      /\ PoolFor(x.pool, {k})
  BY <1>3, <1>4 DEF AllocatedFor
<1>6. k \in DOMAIN x.pool.node /\ k \in Nat /\ k # 0 /\ IsNode(x.pool.node[k])
  BY <1>5, PoolForNodes
<1>7. DOMAIN << >> = {} /\ << >> \in Seq(Entry) /\ << >> \in Seq(Piece) /\ << >> \in Seq(Frame)
  OBVIOUS
<1>8. Used(x.buffer, << >>) = {k} /\ Distinct(x.buffer, << >>)
  BY <1>4, <1>6, <1>7 DEF Used, Distinct
<1>9. SenderFor(x.pool, x.buffer, << >>) BY <1>5, <1>7, <1>8 DEF SenderFor
<1>10. WriterFor(x.pool, x.buffer)
  <2>1. x.buffer \in Buffer BY <1>5, <1>6 DEF Buffer
  <2>2. ControlSize <= Len(x.pool.node[k].bytes)
    <3>1. Len(x.pool.node[k].bytes) \in Nat BY <1>6 DEF IsNode
    <3> QED BY <3>1, <1>5, Sizes
  <2> QED BY <2>1, <2>2, <1>4, <1>6 DEF WriterFor
<1>11. SenderInv
  <2>1. "sender" \notin ended BY <1>2
  <2> QED BY <2>1, <1>2, <1>9, <1>10 DEF SenderInv
<1>12. Used(NullBuffer, << >>) = {} /\ Distinct(NullBuffer, << >>)
  BY <1>7, NullFacts DEF Used, Distinct
<1>13. ReceiverFor(NewPool, NullBuffer, << >>) BY <1>7, <1>12, NewPoolFor DEF ReceiverFor
<1>14. ReceiverInv BY <1>2, <1>13 DEF ReceiverInv
<1> QED BY <1>2, <1>7, <1>11, <1>14 DEF IInv, WireInv, HistoryInv

LEMMA SenderKept ==
    ASSUME SenderInv, UNCHANGED sending, "sender" \in ended' <=> "sender" \in ended
    PROVE SenderInv' /\ aborted' = aborted
<1>1. sender' = sender /\ writer' = writer /\ out' = out /\ aborted' = aborted BY DEF sending
<1>2. SenderFor(sender, writer, out)' BY <1>1 DEF SenderInv
<1> QED BY <1>1, <1>2 DEF SenderInv, WriterFor

LEMMA ReceiverKept ==
    ASSUME ReceiverInv, UNCHANGED receiving, "receiver" \in ended' <=> "receiver" \in ended
    PROVE ReceiverInv' /\ faithful' = faithful
<1>1. /\ receiver' = receiver /\ reader' = reader /\ frame' = frame /\ held' = held
      /\ faithful' = faithful
  BY DEF receiving
<1> QED BY <1>1 DEF ReceiverInv

LEMMA WireTakes ==
    ASSUME WireInv, wire # << >>
    PROVE Head(wire) \in Frame /\ Tail(wire) \in Seq(Frame)
BY DEF WireInv

LEMMA WireGrows ==
    ASSUME WireInv, NEW f \in Frame
    PROVE Append(wire, f) \in Seq(Frame)
BY AppendProperties DEF WireInv

LEMMA IInvSendControl ==
    ASSUME IInv, NEW m \in Control, SendControl(m)
    PROVE IInv'
<1>1. /\ "sender" \notin ended /\ out' = Append(out, [message |-> m, buffer |-> NullBuffer])
      /\ sender' = sender /\ writer' = writer /\ wire' = wire /\ UNCHANGED receiving
      /\ aborted' = aborted /\ fits' = fits /\ ended' = ended
  BY DEF SendControl
<1>2. SenderFor(sender, writer, out) /\ WriterFor(sender, writer) BY <1>1 DEF IInv, SenderInv
<1>3. SenderFor(sender, writer, out') BY <1>1, <1>2, SenderSends
<1>4. SenderInv' BY <1>1, <1>2, <1>3 DEF SenderInv
<1>5. ReceiverInv' /\ faithful' = faithful BY <1>1, ReceiverKept DEF IInv
<1> QED BY <1>1, <1>4, <1>5 DEF IInv, WireInv, HistoryInv, TooLong

LEMMA IInvReadLocal ==
    ASSUME IInv, NEW id \in Ids, NEW d \in Payloads, NEW n \in 1 .. MaxData, ReadLocal(id, d, n)
    PROVE IInv'
<1>1. PICK x : x = AppendTo(Prepared(n), d) OBVIOUS
<1>2. /\ "sender" \notin ended /\ Len(d) <= n
      /\ sender' = x.pool
      /\ out' = Append(out, [message |-> [type |-> "DataExchange", lead |-> id, rest |-> d],
                             buffer |-> x.buffer])
      /\ fits' = (fits /\ Fits(x))
      /\ writer' = writer /\ wire' = wire /\ UNCHANGED receiving /\ aborted' = aborted
      /\ ended' = ended
  BY <1>1 DEF ReadLocal
<1>3. x = AppendTo(ReserveHead(Allocate(sender, HeaderRoom + n), HeaderRoom), d)
  BY <1>1 DEF Prepared
<1>4. SenderFor(sender, writer, out) /\ WriterFor(sender, writer) BY <1>2 DEF IInv, SenderInv
<1>5. SenderFor(x.pool, writer, out') /\ WriterFor(x.pool, writer) /\ Fits(x)
  BY <1>2, <1>3, <1>4, SenderReads
<1>6. SenderInv' BY <1>2, <1>5 DEF SenderInv
<1>7. ReceiverInv' /\ faithful' = faithful BY <1>2, ReceiverKept DEF IInv
<1>8. fits' = TRUE BY <1>2, <1>5 DEF IInv, HistoryInv
<1> QED BY <1>2, <1>6, <1>7, <1>8 DEF IInv, WireInv, HistoryInv, TooLong

LEMMA IInvWriteControl == ASSUME IInv, WriteControl PROVE IInv'
<1>1. PICK m, x, y :
          /\ m = Head(out).message
          /\ x = Encoded([pool |-> sender, buffer |-> writer], m)
          /\ y = PrependTo(x, HeaderBytes)
  OBVIOUS
<1>2. /\ "sender" \notin ended /\ out # << >> /\ Head(out).buffer = NullBuffer
      /\ wire' = Append(wire, [type |-> m.type, payload |-> Data(x.pool, x.buffer), from |-> m])
      /\ sender' = y.pool /\ writer' = y.buffer
      /\ Fits(y)
      /\ out' = Tail(out) /\ UNCHANGED receiving
      /\ aborted' = aborted /\ fits' = fits /\ ended' = ended
  BY <1>1 DEF WriteControl, Put
<1>3. SenderFor(sender, writer, out) /\ WriterFor(sender, writer) BY <1>2 DEF IInv, SenderInv
<1>4. /\ SenderFor(y.pool, y.buffer, out') /\ WriterFor(y.pool, y.buffer)
      /\ [type |-> m.type, payload |-> Data(x.pool, x.buffer), from |-> m] \in Frame
  BY <1>1, <1>2, <1>3, SenderEncodes
<1>5. SenderInv' BY <1>2, <1>4 DEF SenderInv
<1>6. WireInv'
  <2>1. Append(wire, [type |-> m.type, payload |-> Data(x.pool, x.buffer), from |-> m])
            \in Seq(Frame)
    BY <1>4, WireGrows DEF IInv
  <2> QED BY <2>1, <1>2 DEF WireInv
<1>7. ReceiverInv' /\ faithful' = faithful BY <1>2, ReceiverKept DEF IInv
<1> QED BY <1>2, <1>5, <1>6, <1>7 DEF IInv, HistoryInv, TooLong

\* Only a name, an endpoint or a text is too long for the writer.
LEMMA LongIsText ==
    ASSUME NEW m \in Control, ~ (HeaderRoom + Len(m.lead) + Len(m.rest) <= ControlSize)
    PROVE TooLong(m)
<1>1. PICK t, i, j : t = m.type /\ i = Len(m.lead) /\ j = Len(m.rest) OBVIOUS
<1>2. /\ t \in Types \ {"DataExchange"} /\ i = Lead(t) /\ j = Rest(t, j)
      /\ i \in Nat /\ j \in Nat
  BY <1>1, ControlAssumption, MessageFacts
<1>3. t \notin {"Hello", "OpenTunnel", "FatalError"} => i \in {0, U64} /\ j \in {0, U32}
  BY <1>2 DEF Types, Lead, Rest
<1>4. /\ HeaderRoom \in Nat /\ U64 \in Nat /\ U32 \in Nat /\ ControlSize \in Nat
      /\ HeaderRoom + U64 + U32 <= ControlSize
  BY Sizes
<1>5. HeaderRoom + i + j > ControlSize BY <1>1, <1>2, <1>4
<1>6. t \in {"Hello", "OpenTunnel", "FatalError"} BY <1>2, <1>3, <1>4, <1>5
<1> QED BY <1>1, <1>5, <1>6 DEF TooLong

\* The program that ends at an assert ended at a text that is too long.
LEMMA IInvWriterAborts == ASSUME IInv, WriterAborts PROVE IInv'
<1>1. PICK m, x, y :
          /\ m = Head(out).message
          /\ x = Encoded([pool |-> sender, buffer |-> writer], m)
          /\ y = PrependTo(x, HeaderBytes)
  OBVIOUS
<1>2. /\ "sender" \notin ended /\ out # << >> /\ Head(out).buffer = NullBuffer
      /\ ~ Fits(y) /\ aborted' = m
      /\ sender' = NewPool /\ writer' = NullBuffer /\ out' = << >>
      /\ ended' = ended \cup {"sender"}
      /\ wire' = wire /\ UNCHANGED receiving /\ fits' = fits
  BY <1>1 DEF WriterAborts
<1>3. SenderFor(sender, writer, out) /\ WriterFor(sender, writer) BY <1>2 DEF IInv, SenderInv
<1>4. IsPool(sender) /\ out \in Seq(Entry) /\ Queued(sender, out[1])
  <2>1. out \in Seq(Entry) /\ IsPool(sender) /\ \A i \in DOMAIN out : Queued(sender, out[i])
    BY <1>3 DEF SenderFor, PoolFor
  <2> QED BY <2>1, <1>2
<1>5. m \in Control
  <2>1. Head(out) = out[1] BY <1>2, <1>4
  <2>2. ~ InNode(sender, Head(out).buffer) BY <1>2, <1>4, NullFacts
  <2> QED BY <2>1, <2>2, <1>1, <1>4 DEF Queued
<1>6. TooLong(m)
  <2>1. PICK l, n : l = Len(sender.node[writer.node].bytes)
                    /\ n = HeaderRoom + Len(m.lead) + Len(m.rest)
    OBVIOUS
  <2>2. m \in Message BY <1>5, ControlAssumption
  <2>3. /\ writer \in Buffer /\ writer.node \in DOMAIN sender.node /\ ControlSize <= l
    BY <2>1, <1>3 DEF WriterFor
  <2>4. l \in Nat /\ ~ (n <= l) BY <2>1, <2>2, <2>3, <1>1, <1>2, <1>4, EncodedFits
  <2>5. n \in Nat /\ ControlSize \in Nat BY <2>1, <2>2, MessageFacts, Sizes
  <2>6. ~ (n <= ControlSize) BY <2>3, <2>4, <2>5
  <2> QED BY <2>1, <2>6, <1>5, LongIsText
<1>7. SenderFor(NewPool, NullBuffer, << >>)
  <2>1. << >> \in Seq(Entry) /\ DOMAIN << >> = {} OBVIOUS
  <2>2. Used(NullBuffer, << >>) = {} /\ Distinct(NullBuffer, << >>)
    BY <2>1, NullFacts DEF Used, Distinct
  <2> QED BY <2>1, <2>2, NewPoolFor DEF SenderFor
<1>8. SenderInv' BY <1>2, <1>7 DEF SenderInv
<1>9. ReceiverInv' /\ faithful' = faithful BY <1>2, ReceiverKept DEF IInv
<1> QED BY <1>2, <1>6, <1>8, <1>9 DEF IInv, WireInv, HistoryInv, TooLong

LEMMA IInvWriteData == ASSUME IInv, WriteData PROVE IInv'
<1>1. PICK m, b, x, y :
          /\ m = Head(out).message /\ b = Head(out).buffer
          /\ x = PrependTo([pool |-> sender, buffer |-> b], m.lead)
          /\ y = PrependTo(x, HeaderBytes)
  OBVIOUS
<1>2. /\ "sender" \notin ended /\ out # << >> /\ b # NullBuffer
      /\ wire' = Append(wire, [type |-> m.type, payload |-> Data(x.pool, x.buffer), from |-> m])
      /\ sender' = Free(y.pool, y.buffer) /\ writer' = writer
      /\ fits' = (fits /\ Fits(y) /\ Size(b) <= MaxData /\ b.head >= HeaderRoom)
      /\ out' = Tail(out) /\ UNCHANGED receiving /\ aborted' = aborted /\ ended' = ended
  BY <1>1 DEF WriteData, Put
<1>3. SenderFor(sender, writer, out) /\ WriterFor(sender, writer) BY <1>2 DEF IInv, SenderInv
<1>4. /\ SenderFor(sender', writer, out') /\ WriterFor(sender', writer)
      /\ Fits(y) /\ Size(b) <= MaxData /\ b.head >= HeaderRoom
      /\ [type |-> m.type, payload |-> Data(x.pool, x.buffer), from |-> m] \in Frame
  <2>1. Shipped(sender', writer, out', x, y, b, m) BY <1>1, <1>2, <1>3, SenderShips
  <2> QED BY <2>1 DEF Shipped
<1>5. SenderInv' BY <1>2, <1>4 DEF SenderInv
<1>6. WireInv'
  <2>1. Append(wire, [type |-> m.type, payload |-> Data(x.pool, x.buffer), from |-> m])
            \in Seq(Frame)
    BY <1>4, WireGrows DEF IInv
  <2> QED BY <2>1, <1>2 DEF WireInv
<1>7. ReceiverInv' /\ faithful' = faithful BY <1>2, ReceiverKept DEF IInv
<1>8. fits' = TRUE BY <1>2, <1>4 DEF IInv, HistoryInv
<1> QED BY <1>2, <1>5, <1>6, <1>7, <1>8 DEF IInv, HistoryInv, TooLong

LEMMA ForeignFrame ==
    ASSUME NEW f \in Foreign, NEW g,
           g = [type |-> f.type, payload |-> f.payload, from |-> NoMessage]
    PROVE g \in Frame
<1>1. PICK t, d, m : t = f.type /\ d = f.payload /\ m = NoMessage OBVIOUS
<1>2. t \in {h.type : h \in Foreign} /\ d \in Seq(Nat) /\ m \in {NoMessage}
  BY <1>1, ForeignAssumption
<1>3. g = [type |-> t, payload |-> d, from |-> m] BY <1>1
<1>4. g.from = m BY <1>3
<1>5. g \in [type : Types \cup {h.type : h \in Foreign}, payload : Seq(Nat),
             from : Message \cup {NoMessage}]
  BY <1>2, <1>3
<1> QED BY <1>1, <1>4, <1>5 DEF Frame

LEMMA IInvReceiveForeign == ASSUME IInv, NEW f \in Foreign, ReceiveForeign(f) PROVE IInv'
<1>1. /\ wire' = Append(wire, [type |-> f.type, payload |-> f.payload, from |-> NoMessage])
      /\ UNCHANGED sending /\ UNCHANGED receiving /\ fits' = fits /\ ended' = ended
  BY DEF ReceiveForeign
<1>2. PICK g : g = [type |-> f.type, payload |-> f.payload, from |-> NoMessage] OBVIOUS
<1>3. g \in Frame BY <1>2, ForeignFrame
<1>4. WireInv' BY <1>1, <1>2, <1>3, WireGrows DEF IInv, WireInv
<1>5. ReceiverInv' /\ faithful' = faithful BY <1>1, ReceiverKept DEF IInv
<1>6. SenderInv' /\ aborted' = aborted BY <1>1, SenderKept DEF IInv
<1> QED BY <1>1, <1>4, <1>5, <1>6 DEF IInv, HistoryInv, TooLong

\* The end of readMessage.
LEMMA IInvFinish ==
    ASSUME NEW f \in Frame, NEW P, NEW b, ReceiverFor(P, b, held),
           f.payload = << >> \/ (InNode(P, b) /\ Data(P, b) = f.payload),
           faithful = TRUE, fits = TRUE, "receiver" \notin ended, Finish(f, P, b)
    PROVE /\ ReceiverInv' /\ faithful' = TRUE /\ fits' = TRUE
          /\ "sender" \in ended' <=> "sender" \in ended
<1>1. PICK m : m = Parsed(f.type, P, b) OBVIOUS
<1>3. IsPool(P) /\ (b = NullBuffer \/ InNode(P, b)) BY DEF ReceiverFor, PoolFor
<1>4. /\ faithful' = (faithful /\ f.from \in {m, NoMessage})
      /\ fits' = (fits /\ (m # NoMessage => PopCount(f.type, b) <= Size(b)))
      /\ frame' = NoFrame
  BY <1>1 DEF Finish
<1>5. f.from \in {m, NoMessage}
  <2>1. f.from # NoMessage => m = f.from BY <1>1, <1>3, ParsedIsWritten
  <2> QED BY <2>1
<1>6. faithful' = TRUE BY <1>4, <1>5
<1>7. CASE m = NoMessage
  <2>1. /\ ended' = ended \cup {"receiver"}
        /\ receiver' = FreeAll(P, {b} \cup {held[i].buffer : i \in DOMAIN held})
        /\ reader' = NullBuffer /\ held' = << >>
    BY <1>1, <1>7 DEF Finish
  <2>2. ReceiverFor(receiver', NullBuffer, << >>) BY <2>1, ReceiverFreed
  <2>3. ReceiverInv' BY <2>1, <2>2, <1>4 DEF ReceiverInv
  <2>4. fits' = TRUE BY <1>4, <1>7
  <2> QED BY <2>1, <2>3, <2>4, <1>6
<1>8. CASE m # NoMessage
  <2>1. /\ reader' = Left(f.type, b)
        /\ held' = IF f.type = "DataExchange"
                   THEN Append(held, [buffer |-> ConsumeFront(b, PopCount(f.type, b)),
                                      bytes |-> m.rest])
                   ELSE held
        /\ receiver' = P /\ ended' = ended
    BY <1>1, <1>8 DEF Finish
  <2>2. Takes(f.type, P, b, m) BY <1>1, <1>3, <1>8, ParsedTakes
  <2>3. ReceiverFor(P, reader', held')
    <3>1. CASE f.type = "DataExchange"
      <4>1. reader' = NullBuffer BY <2>1, <3>1 DEF Left
      <4>2. held' = Append(held, [buffer |-> ConsumeFront(b, U64), bytes |-> m.rest])
        BY <2>1, <3>1 DEF PopCount
      <4>3. Takes("DataExchange", P, b, m) BY <2>2, <3>1
      <4> QED BY <4>1, <4>2, <4>3, ReceiverHolds
    <3>2. CASE f.type # "DataExchange"
      <4>1. held' = held BY <2>1, <3>2
      <4>2. ReceiverFor(P, reader', held) BY <2>1, <2>2, <3>2, ReceiverTakes
      <4> QED BY <4>1, <4>2
    <3> QED BY <3>1, <3>2
  <2>4. ReceiverInv' BY <2>1, <2>3, <1>4 DEF ReceiverInv
  <2>5. fits' = TRUE BY <2>2, <1>4 DEF Takes
  <2> QED BY <2>1, <2>4, <2>5, <1>6
<1> QED BY <1>7, <1>8

LEMMA IInvReadEmpty == ASSUME IInv, ReadEmpty PROVE IInv'
<1>1. PICK f, P, b : f = Head(wire) /\ P = receiver /\ b = reader OBVIOUS
<1>2. /\ "receiver" \notin ended /\ wire # << >> /\ f.payload = << >>
      /\ wire' = Tail(wire) /\ Finish(f, P, b) /\ UNCHANGED sending
  BY <1>1 DEF ReadEmpty
<1>3. f \in Frame /\ WireInv' BY <1>1, <1>2, WireTakes DEF IInv, WireInv
<1>4. ReceiverFor(P, b, held) /\ faithful = TRUE /\ fits = TRUE
  BY <1>1 DEF IInv, ReceiverInv, HistoryInv
<1>5. /\ ReceiverInv' /\ faithful' = TRUE /\ fits' = TRUE
      /\ "sender" \in ended' <=> "sender" \in ended
  BY <1>2, <1>3, <1>4, IInvFinish
<1>6. SenderInv' /\ aborted' = aborted BY <1>2, <1>5, SenderKept DEF IInv
<1> QED BY <1>3, <1>5, <1>6 DEF IInv, HistoryInv, TooLong

LEMMA IInvReadHeader == ASSUME IInv, ReadHeader PROVE IInv'
<1>1. PICK f, n, x : f = Head(wire) /\ n = Len(f.payload) /\ x = Clear(Grown(n)) OBVIOUS
<1>2. /\ "receiver" \notin ended /\ wire # << >> /\ f.payload # << >>
      /\ receiver' = x.pool /\ reader' = x.buffer
      /\ fits' = (fits /\ n <= Capacity(x.pool, x.buffer))
      /\ frame' = f /\ wire' = Tail(wire)
      /\ UNCHANGED sending /\ held' = held /\ faithful' = faithful /\ ended' = ended
  BY <1>1 DEF ReadHeader
<1>3. f \in Frame /\ WireInv' BY <1>1, <1>2, WireTakes DEF IInv, WireInv
<1>4. n \in Nat \ {0}
  <2>1. PICK d : d = f.payload OBVIOUS
  <2>2. d \in Seq(Nat) /\ d # << >> BY <2>1, <1>2, <1>3 DEF Frame
  <2> QED BY <2>1, <2>2, <1>1
<1>5. x = Clear(GrownFrom(receiver, reader, n)) BY <1>1 DEF Grown, GrownFrom
<1>6. ReceiverFor(receiver, reader, held) BY DEF IInv, ReceiverInv
<1>7. /\ ReceiverFor(x.pool, x.buffer, held)
      /\ InNode(x.pool, x.buffer) /\ x.buffer.head = 0 /\ x.buffer.tail = 0
      /\ n <= Len(x.pool.node[x.buffer.node].bytes) /\ n <= Capacity(x.pool, x.buffer)
  BY <1>4, <1>5, <1>6, ReceiverReadies
<1>8. Awaits(x.pool, x.buffer, f) BY <1>1, <1>2, <1>3, <1>7 DEF Awaits
<1>9. ReceiverInv' BY <1>2, <1>7, <1>8 DEF ReceiverInv
<1>10. SenderInv' /\ aborted' = aborted BY <1>2, SenderKept DEF IInv
<1>11. faithful' = TRUE /\ fits' = TRUE BY <1>2, <1>7 DEF IInv, HistoryInv
<1> QED BY <1>3, <1>9, <1>10, <1>11 DEF IInv, HistoryInv, TooLong

LEMMA IInvReadPayload == ASSUME IInv, ReadPayload PROVE IInv'
<1>1. PICK f, x, P, b :
          /\ f = frame
          /\ x = AppendTo([pool |-> receiver, buffer |-> reader], frame.payload)
          /\ P = x.pool /\ b = x.buffer
  OBVIOUS
<1>2. /\ "receiver" \notin ended /\ frame # NoFrame /\ Finish(f, P, b)
      /\ UNCHANGED sending /\ wire' = wire
  BY <1>1 DEF ReadPayload
<1>3. ReceiverFor(receiver, reader, held) /\ Awaits(receiver, reader, f) /\ f \in Frame
  BY <1>1, <1>2 DEF IInv, ReceiverInv, Awaits
<1>4. ReceiverFor(P, b, held) /\ InNode(P, b) /\ Data(P, b) = f.payload
  BY <1>1, <1>3, ReceiverAppends
<1>5. faithful = TRUE /\ fits = TRUE BY DEF IInv, HistoryInv
<1>6. /\ ReceiverInv' /\ faithful' = TRUE /\ fits' = TRUE
      /\ "sender" \in ended' <=> "sender" \in ended
  BY <1>2, <1>3, <1>4, <1>5, IInvFinish
<1>7. SenderInv' /\ aborted' = aborted BY <1>2, <1>6, SenderKept DEF IInv
<1> QED BY <1>2, <1>6, <1>7 DEF IInv, HistoryInv, WireInv, TooLong

LEMMA IInvWriteLocal == ASSUME IInv, WriteLocal PROVE IInv'
<1>1. /\ held # << >> /\ receiver' = Free(receiver, Head(held).buffer) /\ held' = Tail(held)
      /\ UNCHANGED sending /\ wire' = wire /\ reader' = reader /\ frame' = frame
      /\ faithful' = faithful /\ fits' = fits /\ ended' = ended
  BY DEF WriteLocal
<1>2. ReceiverFor(receiver, reader, held) BY DEF IInv, ReceiverInv
<1>3. /\ ReceiverFor(receiver', reader, held')
      /\ \A f : Awaits(receiver, reader, f) => Awaits(receiver', reader, f)
  <2>1. LocalWritten(receiver', receiver, reader, held') BY <1>1, <1>2, ReceiverWrites
  <2> QED BY <2>1 DEF LocalWritten
<1>4. "receiver" \notin ended BY <1>1 DEF IInv, ReceiverInv
<1>5. ReceiverInv' BY <1>1, <1>3, <1>4 DEF IInv, ReceiverInv
<1>6. SenderInv' /\ aborted' = aborted BY <1>1, SenderKept DEF IInv
<1> QED BY <1>1, <1>5, <1>6 DEF IInv, HistoryInv, WireInv, TooLong

LEMMA IInvSenderEnds == ASSUME IInv, SenderEnds PROVE IInv'
<1>1. /\ sender' = FreeAll(sender, {writer} \cup {out[i].buffer : i \in DOMAIN out})
      /\ writer' = NullBuffer /\ out' = << >>
      /\ ended' = ended \cup {"sender"}
      /\ wire' = wire /\ UNCHANGED receiving /\ aborted' = aborted /\ fits' = fits
  BY DEF SenderEnds
<1>2. SenderFor(sender, writer, out) BY DEF IInv, SenderInv
<1>3. SenderFor(sender', NullBuffer, << >>) BY <1>1, <1>2, SenderFreed
<1>4. SenderInv' BY <1>1, <1>3 DEF SenderInv
<1>5. ReceiverInv' /\ faithful' = faithful BY <1>1, ReceiverKept DEF IInv
<1> QED BY <1>1, <1>4, <1>5 DEF IInv, HistoryInv, WireInv, TooLong

LEMMA IInvReceiverEnds == ASSUME IInv, ReceiverEnds PROVE IInv'
<1>1. /\ receiver' = FreeAll(receiver, {reader} \cup {held[i].buffer : i \in DOMAIN held})
      /\ reader' = NullBuffer /\ held' = << >> /\ frame' = NoFrame /\ wire' = << >>
      /\ ended' = ended \cup {"receiver"}
      /\ UNCHANGED sending /\ faithful' = faithful /\ fits' = fits
  BY DEF ReceiverEnds
<1>2. ReceiverFor(receiver, reader, held) BY DEF IInv, ReceiverInv
<1>3. ReceiverFor(receiver', NullBuffer, << >>) BY <1>1, <1>2, ReceiverFreed
<1>4. ReceiverInv' BY <1>1, <1>3 DEF ReceiverInv
<1>5. SenderInv' /\ aborted' = aborted BY <1>1, SenderKept DEF IInv
<1>6. WireInv' BY <1>1 DEF WireInv
<1> QED BY <1>1, <1>4, <1>5, <1>6 DEF IInv, HistoryInv, TooLong

LEMMA IInvStep == IInv /\ [Next]_vars => IInv'
<1> SUFFICES ASSUME IInv, [Next]_vars PROVE IInv' OBVIOUS
<1>1. ASSUME NEW m \in Control, SendControl(m) PROVE IInv' BY <1>1, IInvSendControl
<1>2. ASSUME NEW id \in Ids, NEW d \in Payloads, NEW n \in 1 .. MaxData, ReadLocal(id, d, n)
      PROVE IInv'
  BY <1>2, IInvReadLocal
<1>3. CASE WriteControl BY <1>3, IInvWriteControl
<1>4. CASE WriteData BY <1>4, IInvWriteData
<1>5. ASSUME NEW f \in Foreign, ReceiveForeign(f) PROVE IInv' BY <1>5, IInvReceiveForeign
<1>6. CASE ReadEmpty BY <1>6, IInvReadEmpty
<1>7. CASE ReadHeader BY <1>7, IInvReadHeader
<1>8. CASE ReadPayload BY <1>8, IInvReadPayload
<1>9. CASE WriteLocal BY <1>9, IInvWriteLocal
<1>10. CASE SenderEnds BY <1>10, IInvSenderEnds
<1>11. CASE ReceiverEnds BY <1>11, IInvReceiverEnds
<1>12. CASE UNCHANGED vars
  <2>1. /\ UNCHANGED sending /\ UNCHANGED receiving /\ wire' = wire /\ fits' = fits
        /\ ended' = ended
    BY <1>12 DEF vars
  <2>2. SenderInv' /\ aborted' = aborted BY <2>1, SenderKept DEF IInv
  <2>3. ReceiverInv' /\ faithful' = faithful BY <2>1, ReceiverKept DEF IInv
  <2> QED BY <2>1, <2>2, <2>3 DEF IInv, WireInv, HistoryInv, TooLong
<1>13. CASE WriterAborts BY <1>13, IInvWriterAborts
<1> QED
  BY <1>1, <1>2, <1>3, <1>4, <1>5, <1>6, <1>7, <1>8, <1>9, <1>10, <1>11, <1>12, <1>13 DEF Next

\* Each peer's buffers hold what the messages in its queues say, and none has
\* failed an assert.
THEOREM Invariant == Spec => []IInv
<1>1. Init => IInv BY InitIInv
<1>2. IInv /\ [Next]_vars => IInv' BY IInvStep
<1> QED BY <1>1, <1>2, PTL DEF Spec

\* Whatever the sizes of the integers, of the pool's classes and of the
\* messages, and whatever another peer sends in between, a message is read as it
\* was written, and its data is intact until its tunnel has written it.
THEOREM BytesRoundTrip == Spec => []RoundTrip
<1>1. IInv => RoundTrip
  <2> SUFFICES ASSUME IInv PROVE RoundTrip OBVIOUS
  <2>1. faithful = TRUE BY DEF IInv, HistoryInv
  <2>2. \A i \in DOMAIN held : HeldRight(receiver, held[i])
    BY DEF IInv, ReceiverInv, ReceiverFor
  <2> QED BY <2>1, <2>2 DEF RoundTrip, HeldRight
<1> QED BY <1>1, Invariant, PTL

\* No buffer is too small for what the writer, the reader and the tunnels put
\* into it (the room in front of data is enough for its header, the reader's
\* buffer for the payload it waits for), and the parser pops no more than there
\* is, whatever another peer sends: but the program does end at a control message
\* with a name, an endpoint or a text that its small buffer cannot hold, and at
\* no other.
THEOREM RoomIsEnough == Spec => []AssertsHold
<1>1. IInv => AssertsHold BY DEF IInv, HistoryInv, AssertsHold
<1> QED BY <1>1, Invariant, PTL

\* The pools of both peers are sound after every message, and when a session
\* ends, in the middle of a frame or with messages queued, no buffer is missing.
THEOREM PoolsStaySound == Spec => []PoolsSound
<1>1. IInv => PoolsSound
  <2> SUFFICES ASSUME IInv PROVE PoolsSound OBVIOUS
  <2>1. /\ PoolFor(sender, Used(writer, out)) /\ Distinct(writer, out) /\ out \in Seq(Entry)
        /\ "sender" \in ended => writer = NullBuffer /\ out = << >>
    BY DEF IInv, SenderInv, SenderFor
  <2>2. /\ PoolFor(receiver, Used(reader, held)) /\ Distinct(reader, held) /\ held \in Seq(Piece)
        /\ "receiver" \in ended => reader = NullBuffer /\ held = << >>
    BY DEF IInv, ReceiverInv, ReceiverFor
  <2>3. Sound(sender, Buffers(writer, out)) BY <2>1, PoolsSoundFor
  <2>4. Sound(receiver, Buffers(reader, held)) BY <2>2, PoolsSoundFor
  <2>5. Used(NullBuffer, << >>) = {}
    <3>1. DOMAIN << >> = {} OBVIOUS
    <3> QED BY <3>1, NullFacts DEF Used
  <2>6. \A P : PoolFor(P, {}) => P.mBuffers = 0 BY FS_EmptySet DEF PoolFor
  <2>7. "sender" \in ended => sender.mBuffers = 0 BY <2>1, <2>5, <2>6
  <2>8. "receiver" \in ended => receiver.mBuffers = 0 BY <2>2, <2>5, <2>6
  <2> QED BY <2>3, <2>4, <2>7, <2>8 DEF PoolsSound
<1> QED BY <1>1, Invariant, PTL
=============================================================================
