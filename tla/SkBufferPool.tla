---------------------------- MODULE SkBufferPool ----------------------------
(***************************************************************************)
(* The pool of socket buffers and the buffers it hands out                 *)
(* (src/skbuf.hpp).  A data structure: a pool is a record, a buffer a      *)
(* record that refers to a node of its pool, and a member function of      *)
(* SkBuffer is an operator on x, a pair of a pool and a buffer.            *)
(*                                                                         *)
(* A buffer is moved, never copied: nothing in the program calls clone(),  *)
(* slice(), makeWritable() or compact(), so every reference count is 1 and *)
(* is left out.  A definition X_Y is X with one plausible bug.             *)
(***************************************************************************)
EXTENDS Integers, Sequences, FiniteSets, FiniteSetsExt

CONSTANT Classes    \* the size classes, [capacity, blocksPerSlab], sorted

ASSUME ClassesAssumption ==
    /\ Classes \in Seq([capacity : Nat \ {0}, blocksPerSlab : Nat \ {0}])
    /\ \A i, j \in 1 .. Len(Classes) : i < j => Classes[i].capacity < Classes[j].capacity

Class == 1 .. Len(Classes)
Oversize == 0       \* 0xFF: straight from the upstream resource
Blank == 0          \* a byte nobody has written

NullBuffer == [node |-> 0, head |-> 0, tail |-> 0]

\* freeList: class -> its free nodes, in order; node: the nodes that exist, by
\* number; last: the last number given out.
NewPool == [freeList |-> [c \in Class |-> << >>], node |-> << >>, last |-> 0, mBuffers |-> 0]

NewNode(c, size) == [classIdx |-> c, bytes |-> [i \in 1 .. size |-> Blank]]

\* P with n nodes more, all like the given one.
AddNodes(P, n, new) ==
    [P EXCEPT !.node = [k \in DOMAIN P.node \cup (P.last + 1 .. P.last + n) |->
                            IF k > P.last THEN new ELSE P.node[k]],
              !.last = @ + n]

\* lower_bound over the sorted classes: the first that is large enough.
FirstFit(c, capacity) == /\ Classes[c].capacity >= capacity
                         /\ c - 1 \in Class => Classes[c - 1].capacity < capacity
ClassFor(capacity) ==
    IF \E c \in Class : FirstFit(c, capacity)
    THEN CHOOSE c \in Class : FirstFit(c, capacity) ELSE Oversize

\* A new slab, split into blocks that are pushed on the free list.
Refill(P, c) ==
    LET n == Classes[c].blocksPerSlab IN
    [AddNodes(P, n, NewNode(c, Classes[c].capacity))
        EXCEPT !.freeList[c] = [i \in 1 .. n |-> P.last + n + 1 - i] \o @]

Handle(P, k) == [pool |-> [P EXCEPT !.mBuffers = @ + 1],
                 buffer |-> [node |-> k, head |-> 0, tail |-> 0]]

Take(P, c) == Handle([P EXCEPT !.freeList[c] = Tail(@)], Head(P.freeList[c]))

Allocate(P, capacity) ==
    LET c == ClassFor(capacity) IN
    IF c = Oversize
    THEN Handle(AddNodes(P, 1, NewNode(Oversize, capacity)), P.last + 1)
    ELSE LET Q == IF P.freeList[c] = << >> THEN Refill(P, c) ELSE P
         IN  Take(Q, c)

\* The buffer's last reference goes.  What a free node holds nobody reads.
Free(P, b) ==
    IF b.node = 0 THEN P
    ELSE LET c == P.node[b.node].classIdx
             Q == [P EXCEPT !.mBuffers = @ - 1]
         IN  IF c = Oversize
             THEN [Q EXCEPT !.node = [k \in DOMAIN P.node \ {b.node} |-> P.node[k]]]
             ELSE [Q EXCEPT !.freeList[c] = <<b.node>> \o @,
                            !.node[b.node] = NewNode(c, Classes[c].capacity)]

Capacity(P, b) == IF b.node = 0 THEN 0 ELSE Len(P.node[b.node].bytes)
Size(b) == IF b.node = 0 THEN 0 ELSE b.tail - b.head
Data(P, b) == IF b.node = 0 THEN << >> ELSE SubSeq(P.node[b.node].bytes, b.head + 1, b.tail)

\* Every assert of SkBuffer's write functions in one: the data and the room in
\* front of it lie inside the node.
Fits(x) == /\ x.buffer.node # 0
           /\ 0 <= x.buffer.head /\ x.buffer.head <= x.buffer.tail
           /\ x.buffer.tail <= Capacity(x.pool, x.buffer)

\* An empty buffer; nobody reads what it held, so those bytes are Blank again.
Clear(x) == [x EXCEPT !.buffer.head = 0, !.buffer.tail = 0,
                      !.pool.node[x.buffer.node].bytes = [i \in DOMAIN @ |-> Blank]]

ReserveHead(x, n) == [x EXCEPT !.buffer.head = n, !.buffer.tail = n]

Store(x, at, data) ==
    [x EXCEPT !.pool.node[x.buffer.node].bytes =
        [i \in DOMAIN @ |-> IF i - at \in DOMAIN data THEN data[i - at] ELSE @[i]]]

AppendTo(x, data) ==
    [Store(x, x.buffer.tail, data) EXCEPT !.buffer.tail = @ + Len(data)]

PrependTo(x, data) ==
    LET head == x.buffer.head - Len(data)
    IN  [Store(x, head, data) EXCEPT !.buffer.head = head]

ConsumeFront(b, n) == [b EXCEPT !.head = @ + n]

-----------------------------------------------------------------------------
(***************************************************************************)
(* A pool is sound for the buffers in use (a sequence, with the null       *)
(* buffers left out): they are those the pool counts, no two share a node, *)
(* and the nodes in no buffer are exactly those in the free lists, once    *)
(* each, in the list of their class.                                       *)
(***************************************************************************)
Sound(P, buffers) ==
    LET used == {buffers[i].node : i \in DOMAIN buffers}
        listed == UNION {{P.freeList[c][i] : i \in DOMAIN P.freeList[c]} : c \in Class}
    IN  /\ P.mBuffers = Len(buffers) /\ Cardinality(used) = Len(buffers)
        /\ used \cap listed = {}
        /\ used \cup listed = DOMAIN P.node
        /\ \A c \in Class :
             /\ \A i \in DOMAIN P.freeList[c] : P.node[P.freeList[c][i]].classIdx = c
             /\ \A i, j \in DOMAIN P.freeList[c] :
                    P.freeList[c][i] = P.freeList[c][j] => i = j
=============================================================================
