-------------------------- MODULE MpscQueueProofs ---------------------------
(***************************************************************************)
(* Proofs about MpscQueue for every number of producers, nodes and values: *)
(* no deleted node is touched, and the queue implements FifoQueue.         *)
(***************************************************************************)
EXTENDS MpscQueue, SequenceTheorems, TLAPS

\* The chain of nodes from the stub to the head.
ChainInv ==
    /\ Len(order) >= 1
    /\ order[1] = tail
    /\ order[Len(order)] = head
    /\ \A i, j \in 1 .. Len(order) : order[i] = order[j] => i = j
    /\ \A i \in 1 .. Len(order) : order[i] \in live
    /\ \A i \in 2 .. Len(order) : data[order[i]] \in Values
    /\ next[head] = NULL

\* Every link of the chain is set, or a producer is on its way to set it.
LinkInv ==
    /\ \A i \in 1 .. Len(order) - 1 :
         \/ next[order[i]] = order[i + 1]
         \/ /\ next[order[i]] = NULL
            /\ \E p \in Producers : ppc[p] = "link" /\ prev[p] = order[i]
    /\ \A p \in Producers : ppc[p] = "link" =>
         \E i \in 1 .. Len(order) - 1 :
            prev[p] = order[i] /\ node[p] = order[i + 1] /\ next[order[i]] = NULL
    /\ \A p, q \in Producers :
         ppc[p] = "link" /\ ppc[q] = "link" /\ prev[p] = prev[q] => p = q

\* What the consumer knows in the middle of a call.
ConsumerInv ==
    /\ cpc \in {"check", "spin", "ready"} => ctail = tail /\ cop \in {"pop", "front"}
    /\ cpc = "spin" => tail # head
    /\ cpc = "ready" => cnext = next[tail] /\ cnext # NULL
    /\ cpc = "delete" =>
         ctail \in live /\ \A i \in 1 .. Len(order) : order[i] # ctail

Inv == TypeOK /\ ChainInv /\ LinkInv /\ ConsumerInv

(* The stub of an empty queue satisfies the invariant. *)
LEMMA InvInit == Init => Inv
<1> SUFFICES ASSUME NEW stub \in Nodes,
                    head = stub, tail = stub,
                    next = [n \in Nodes |-> NULL], data = [n \in Nodes |-> NULL],
                    live = {stub}, ppc = [p \in Producers |-> "idle"],
                    node = [p \in Producers |-> NULL], prev = [p \in Producers |-> NULL],
                    cpc = "idle", cop = "none", ctail = NULL, cnext = NULL,
                    order = <<stub>>
             PROVE  Inv
    BY DEF Init
<1>1. TypeOK
    BY DEF TypeOK
<1>2. Len(order) = 1 /\ order[1] = stub
    OBVIOUS
<1>3. ChainInv
    BY <1>2 DEF ChainInv
<1>4. LinkInv
    BY <1>2 DEF LinkInv
<1>5. ConsumerInv
    BY DEF ConsumerInv
<1>. QED BY <1>1, <1>3, <1>4, <1>5 DEF Inv

(* The exchange appends the new node to the chain. *)
LEMMA ExchangeInv ==
    ASSUME Inv, NEW p \in Producers, NEW v \in Values, NEW n \in Nodes, Exchange(p, v, n)
    PROVE  Inv'
<1> USE DEF Inv
<1> DEFINE N == Len(order)
<1>0. N \in Nat /\ N >= 1 /\ order \in Seq(Nodes)
    BY DEF TypeOK, ChainInv
<1>1. Len(order') = N + 1 /\ order'[N + 1] = n /\ \A i \in 1 .. N : order'[i] = order[i]
    BY <1>0 DEF Exchange
<1>2. \A i \in 1 .. N : order[i] # n /\ order[i] \in Nodes
    BY <1>0 DEF Exchange, ChainInv
<1>a. tail # n /\ head # n
    BY <1>2, <1>0 DEF ChainInv
<1>3. TypeOK'
    BY <1>0 DEF TypeOK, Exchange, consumerVars
<1>b. /\ \A m \in Nodes : m # n => next'[m] = next[m] /\ data'[m] = data[m]
      /\ next'[n] = NULL /\ data'[n] = v
    BY DEF Exchange, TypeOK
<1>c. /\ head' = n /\ tail' = tail /\ live' = live \cup {n}
      /\ \A q \in Producers : q # p => ppc'[q] = ppc[q] /\ prev'[q] = prev[q] /\ node'[q] = node[q]
      /\ ppc'[p] = "link" /\ prev'[p] = head /\ node'[p] = n
      /\ ppc[p] = "idle"
      /\ UNCHANGED <<cpc, cop, ctail, cnext>>
    BY DEF Exchange, TypeOK, consumerVars
<1> HIDE DEF N
<1>4. ChainInv'
    BY <1>0, <1>1, <1>2, <1>a, <1>b, <1>c DEF ChainInv, N
<1>5. LinkInv'
    <2>1. ASSUME NEW i \in 1 .. N
          PROVE  \/ next'[order'[i]] = order'[i + 1]
                 \/ /\ next'[order'[i]] = NULL
                    /\ \E q \in Producers : ppc'[q] = "link" /\ prev'[q] = order'[i]
        <3>1. CASE i = N
            BY <3>1, <1>0, <1>1, <1>2, <1>b, <1>c DEF ChainInv, N
        <3>2. CASE i # N
            BY <3>2, <1>0, <1>1, <1>2, <1>b, <1>c DEF LinkInv, N
        <3>. QED BY <3>1, <3>2
    <2>2. ASSUME NEW q \in Producers, ppc'[q] = "link"
          PROVE  \E i \in 1 .. N :
                   prev'[q] = order'[i] /\ node'[q] = order'[i + 1] /\ next'[order'[i]] = NULL
        <3>1. CASE q = p
            <4>1. N \in 1 .. N
                BY <1>0
            <4>2. /\ prev'[q] = order'[N] /\ node'[q] = order'[N + 1]
                  /\ next'[order'[N]] = NULL
                BY <3>1, <1>0, <1>1, <1>2, <1>a, <1>b, <1>c DEF ChainInv, N
            <4>. QED BY <4>1, <4>2
        <3>2. CASE q # p
            <4>1. PICK i \in 1 .. N - 1 :
                     prev[q] = order[i] /\ node[q] = order[i + 1] /\ next[order[i]] = NULL
                BY <3>2, <2>2, <1>c DEF LinkInv, N
            <4>. QED BY <4>1, <3>2, <1>0, <1>1, <1>2, <1>b, <1>c
        <3>. QED BY <3>1, <3>2
    <2>3. ASSUME NEW q \in Producers, NEW r \in Producers,
                 ppc'[q] = "link", ppc'[r] = "link", prev'[q] = prev'[r]
          PROVE  q = r
        <3>1. \A s \in Producers : s # p /\ ppc'[s] = "link" => prev'[s] # head
            <4> SUFFICES ASSUME NEW s \in Producers, s # p, ppc'[s] = "link"
                         PROVE  prev'[s] # head
                OBVIOUS
            <4>1. PICK i \in 1 .. N - 1 : prev[s] = order[i]
                BY <1>c DEF LinkInv, N
            <4>. QED BY <4>1, <1>0, <1>c DEF ChainInv, N
        <3>. QED BY <2>3, <3>1, <1>c DEF LinkInv
    <2>. QED BY <2>1, <2>2, <2>3, <1>0, <1>1 DEF LinkInv
<1>6. ConsumerInv'
    <2>1. ctail \in Nodes => ctail' = ctail
        BY <1>c
    <2>2. cpc = "spin" => tail' # head'
        BY <1>a, <1>c
    <2>3. cpc = "ready" => cnext' = next'[tail']
        BY <1>a, <1>b, <1>c DEF ConsumerInv, TypeOK
    <2>4. cpc = "delete" => ctail \in live' /\ \A i \in 1 .. Len(order') : order'[i] # ctail'
        BY <1>0, <1>1, <1>c DEF ConsumerInv, Exchange, N
    <2>. QED BY <2>1, <2>2, <2>3, <2>4, <1>c DEF ConsumerInv
<1>. QED BY <1>3, <1>4, <1>5, <1>6

(* The store of a producer closes exactly its own gap in the chain. *)
LEMMA LinkKeepsInv ==
    ASSUME Inv, NEW p \in Producers, Link(p)
    PROVE  Inv'
<1> USE DEF Inv
<1> DEFINE N == Len(order)
<1>0. N \in Nat /\ N >= 1 /\ order \in Seq(Nodes) /\ \A i \in 1 .. N : order[i] \in Nodes
    BY DEF TypeOK, ChainInv
<1>1. PICK k \in 1 .. N - 1 :
         prev[p] = order[k] /\ node[p] = order[k + 1] /\ next[order[k]] = NULL
    BY DEF LinkInv, Link
<1>2. TypeOK'
    BY <1>0, <1>1 DEF TypeOK, Link, PushReturns, consumerVars
<1>3. /\ \A m \in Nodes : m # order[k] => next'[m] = next[m]
      /\ next'[order[k]] = order[k + 1]
    BY <1>0, <1>1 DEF Link, TypeOK
<1>4. /\ UNCHANGED <<head, tail, data, live, order, cpc, cop, ctail, cnext>>
      /\ \A q \in Producers : q # p => ppc'[q] = ppc[q] /\ prev'[q] = prev[q] /\ node'[q] = node[q]
      /\ ppc'[p] = "idle" /\ ppc[p] = "link"
    BY DEF Link, PushReturns, TypeOK, consumerVars
<1>5. head # order[k] /\ order[k + 1] # NULL /\ k + 1 \in 1 .. N
    BY <1>0, <1>1, NullAssumption DEF ChainInv
<1> HIDE DEF N
<1>6. ChainInv'
    BY <1>0, <1>3, <1>4, <1>5 DEF ChainInv, N, TypeOK
<1>7. LinkInv'
    <2>1. ASSUME NEW i \in 1 .. N - 1
          PROVE  \/ next'[order[i]] = order[i + 1]
                 \/ /\ next'[order[i]] = NULL
                    /\ \E q \in Producers : ppc'[q] = "link" /\ prev'[q] = order[i]
        <3>1. CASE i = k
            BY <3>1, <1>3
        <3>2. CASE i # k
            <4>1. order[i] # order[k] /\ order[i] \in Nodes
                BY <3>2, <1>0, <1>1 DEF ChainInv, N
            <4>2. next'[order[i]] = next[order[i]]
                BY <4>1, <1>3
            <4>3. ASSUME NEW q \in Producers, ppc[q] = "link", prev[q] = order[i]
                  PROVE  ppc'[q] = "link" /\ prev'[q] = order[i]
                BY <4>1, <4>3, <1>1, <1>4
            <4>. QED BY <4>2, <4>3 DEF LinkInv, N
        <3>. QED BY <3>1, <3>2
    <2>2. ASSUME NEW q \in Producers, ppc'[q] = "link"
          PROVE  \E i \in 1 .. N - 1 :
                   prev'[q] = order[i] /\ node'[q] = order[i + 1] /\ next'[order[i]] = NULL
        <3>1. q # p /\ ppc[q] = "link"
            BY <2>2, <1>4
        <3>2. PICK i \in 1 .. N - 1 :
                 prev[q] = order[i] /\ node[q] = order[i + 1] /\ next[order[i]] = NULL
            BY <3>1 DEF LinkInv, N
        <3>3. order[i] # order[k] /\ order[i] \in Nodes
            BY <3>1, <3>2, <1>0, <1>1, <1>4 DEF LinkInv
        <3>. QED BY <3>1, <3>2, <3>3, <1>3, <1>4
    <2>3. ASSUME NEW q \in Producers, NEW r \in Producers,
                 ppc'[q] = "link", ppc'[r] = "link", prev'[q] = prev'[r]
          PROVE  q = r
        BY <2>3, <1>4 DEF LinkInv
    <2>. QED BY <2>1, <2>2, <2>3, <1>4 DEF LinkInv, N
<1>8. ConsumerInv'
    <2>1. cpc = "ready" => tail # order[k]
        BY <1>1 DEF ConsumerInv
    <2>. QED BY <2>1, <1>3, <1>4 DEF ConsumerInv, TypeOK
<1>. QED BY <1>2, <1>6, <1>7, <1>8

(* A link of the chain that is set leads to the next node of the chain. *)
LEMMA NextOfStub ==
    ASSUME Inv, next[tail] # NULL
    PROVE  Len(order) >= 2 /\ next[tail] = order[2]
<1>1. Len(order) \in Nat
    BY DEF Inv, TypeOK
<1>2. Len(order) # 1
    BY DEF Inv, ChainInv
<1>. QED BY <1>1, <1>2 DEF Inv, ChainInv, LinkInv

(* pop makes the second node of the chain the stub. *)
LEMMA AdvanceInv ==
    ASSUME Inv, Advance
    PROVE  Inv'
<1> USE DEF Inv
<1> DEFINE N == Len(order)
<1>0. N \in Nat /\ N >= 2 /\ order \in Seq(Nodes) /\ cnext = order[2]
      /\ ctail = tail /\ next[tail] # NULL /\ \A i \in 1 .. N : order[i] \in Nodes
    BY NextOfStub DEF TypeOK, Advance, ConsumerInv
<1>1. Len(order') = N - 1 /\ \A i \in 1 .. N - 1 : order'[i] = order[i + 1]
    BY <1>0 DEF Advance
<1>2. /\ tail' = order[2] /\ cpc' = "delete" /\ ctail' = ctail
      /\ UNCHANGED <<head, next, data, live, ppc, node, prev>>
    BY <1>0 DEF Advance, producerVars
<1>3. TypeOK'
    BY <1>0 DEF TypeOK, Advance, producerVars
<1> HIDE DEF N
<1>4. ChainInv'
    BY <1>0, <1>1, <1>2 DEF ChainInv, N
<1>5. LinkInv'
    <2>1. ASSUME NEW i \in 1 .. N - 2
          PROVE  \/ next[order'[i]] = order'[i + 1]
                 \/ /\ next[order'[i]] = NULL
                    /\ \E q \in Producers : ppc[q] = "link" /\ prev[q] = order'[i]
        <3>1. i + 1 \in 1 .. N - 1 /\ order'[i] = order[i + 1] /\ order'[i + 1] = order[(i + 1) + 1]
            BY <1>0, <1>1
        <3>. QED BY <3>1 DEF LinkInv, N
    <2>2. ASSUME NEW q \in Producers, ppc[q] = "link"
          PROVE  \E i \in 1 .. N - 2 :
                   prev[q] = order'[i] /\ node[q] = order'[i + 1] /\ next[order'[i]] = NULL
        <3>1. PICK i \in 1 .. N - 1 :
                 prev[q] = order[i] /\ node[q] = order[i + 1] /\ next[order[i]] = NULL
            BY <2>2 DEF LinkInv, N
        <3>2. i # 1
            BY <3>1, <1>0 DEF ChainInv
        <3>3. i - 1 \in 1 .. N - 2 /\ order'[i - 1] = order[i] /\ order'[(i - 1) + 1] = order[i + 1]
            BY <3>2, <1>0, <1>1
        <3>. QED BY <3>1, <3>3
    <2>. QED BY <2>1, <2>2, <1>0, <1>1, <1>2 DEF LinkInv
<1>6. ConsumerInv'
    <2>1. \A i \in 1 .. N - 1 : order'[i] # ctail
        BY <1>0, <1>1 DEF ChainInv, N
    <2>2. ctail \in live
        BY <1>0 DEF ChainInv, N
    <2>. QED BY <2>1, <2>2, <1>1, <1>2 DEF ConsumerInv
<1>. QED BY <1>3, <1>4, <1>5, <1>6

(* The deleted stub is outside the chain. *)
LEMMA DeleteInv ==
    ASSUME Inv, Delete
    PROVE  Inv'
<1> USE DEF Inv
<1>1. /\ \A i \in 1 .. Len(order) : order[i] # ctail /\ order[i] \in Nodes
      /\ Len(order) \in Nat
    BY DEF Delete, ConsumerInv, TypeOK
<1>2. /\ live' = live \ {ctail}
      /\ \A m \in Nodes : m # ctail => next'[m] = next[m] /\ data'[m] = data[m]
      /\ UNCHANGED <<head, tail, ppc, node, prev, order>>
      /\ cpc' = "idle"
    BY DEF Delete, CallReturns, TypeOK, producerVars
<1>3. TypeOK'
    BY DEF TypeOK, Delete, CallReturns, producerVars
<1>4. ChainInv'
    BY <1>1, <1>2 DEF ChainInv
<1>5. LinkInv'
    <2>1. \A i \in 1 .. Len(order) - 1 : next'[order[i]] = next[order[i]]
        BY <1>1, <1>2
    <2>. QED BY <2>1, <1>2 DEF LinkInv
<1>6. ConsumerInv'
    BY <1>2 DEF ConsumerInv
<1>. QED BY <1>3, <1>4, <1>5, <1>6

(* The other steps of the consumer change nothing but its locals. *)
LEMMA LocalInv ==
    ASSUME Inv,
           \/ Begin("pop") \/ Begin("front") \/ CheckHead \/ Spin \/ Look \/ IsEmpty
           \/ UNCHANGED vars
    PROVE  Inv'
<1> USE DEF Inv
<1>1. UNCHANGED <<head, tail, next, data, live, ppc, node, prev, order>>
    BY DEF Begin, CheckHead, Spin, Look, IsEmpty, vars, queueVars, producerVars
<1>2. ChainInv' /\ LinkInv'
    BY <1>1 DEF ChainInv, LinkInv
<1>3. TypeOK'
    <2>1. CASE Begin("pop") \/ Begin("front")
        BY <2>1, <1>1 DEF TypeOK, Begin
    <2>2. CASE CheckHead
        BY <2>2, <1>1 DEF TypeOK, CheckHead, CallReturns
    <2>3. CASE Spin
        BY <2>3, <1>1 DEF TypeOK, Spin, ConsumerInv, vars
    <2>4. CASE Look
        BY <2>4, <1>1 DEF TypeOK, Look, CallReturns
    <2>5. CASE IsEmpty \/ UNCHANGED vars
        BY <2>5, <1>1 DEF TypeOK, IsEmpty, vars
    <2>. QED BY <2>1, <2>2, <2>3, <2>4, <2>5
<1>4. ConsumerInv'
    <2>1. CASE Begin("pop") \/ Begin("front")
        BY <2>1, <1>1 DEF Begin, ConsumerInv
    <2>2. CASE CheckHead
        BY <2>2, <1>1 DEF CheckHead, CallReturns, ConsumerInv
    <2>3. CASE Spin
        BY <2>3, <1>1 DEF Spin, ConsumerInv, vars
    <2>4. CASE Look \/ IsEmpty \/ UNCHANGED vars
        BY <2>4, <1>1 DEF Look, IsEmpty, vars, CallReturns, ConsumerInv
    <2>. QED BY <2>1, <2>2, <2>3, <2>4
<1>. QED BY <1>2, <1>3, <1>4

(* The invariant is inductive. *)
LEMMA InvStep == Inv /\ [Next]_vars => Inv'
BY ExchangeInv, LinkKeepsInv, AdvanceInv, DeleteInv, LocalInv DEF Next, Produce, Consume

(* The invariant holds in every state of the queue. *)
LEMMA InvAlways == Spec => []Inv
BY InvInit, InvStep, PTL DEF Spec

(* push, pop, front and empty never touch a deleted node, however long a
   producer is delayed between its exchange and its store. *)
THEOREM QueueNeverUsesFreedNode == Spec => []NoUseAfterFree
<1>1. Inv => NoUseAfterFree
    <2> SUFFICES ASSUME Inv PROVE NoUseAfterFree
        OBVIOUS
    <2>1. Len(order) \in Nat /\ Len(order) >= 1
        BY DEF Inv, TypeOK, ChainInv
    <2>2. tail \in live
        BY <2>1 DEF Inv, ChainInv
    <2>3. ASSUME NEW p \in Producers, ppc[p] = "link"
          PROVE  prev[p] \in live /\ node[p] \in live
        <3>1. PICK i \in 1 .. Len(order) - 1 : prev[p] = order[i] /\ node[p] = order[i + 1]
            BY <2>3 DEF Inv, LinkInv
        <3>2. i \in 1 .. Len(order) /\ i + 1 \in 1 .. Len(order)
            BY <2>1
        <3>. QED BY <3>1, <3>2 DEF Inv, ChainInv
    <2>4. cpc = "ready" => cnext \in live
        <3>1. cpc = "ready" => Len(order) >= 2 /\ cnext = order[2]
            BY NextOfStub DEF Inv, ConsumerInv
        <3>. QED BY <3>1, <2>1 DEF Inv, ChainInv
    <2>5. cpc \in {"check", "spin", "delete"} => ctail \in live
        BY <2>2 DEF Inv, ConsumerInv
    <2>. QED BY <2>2, <2>3, <2>4, <2>5 DEF NoUseAfterFree
<1>. QED BY <1>1, InvAlways, PTL

-----------------------------------------------------------------------------
(* The queue implements FifoQueue. *)

\* The refinement mapping, named.
Elements == [i \in 1 .. Len(order) - 1 |-> data[order[i + 1]]]
Pushing == {p \in Producers : ppc[p] = "link"}

(* The elements are a sequence, and empty only when the stub is the head. *)
LEMMA ElementsSeq ==
    ASSUME Inv
    PROVE  /\ Elements \in Seq(Values)
           /\ Len(Elements) = Len(order) - 1
           /\ Elements = <<>> <=> tail = head
<1>1. Len(order) \in Nat /\ Len(order) >= 1
    BY DEF Inv, TypeOK, ChainInv
<1>2. \A i \in 1 .. Len(order) - 1 : data[order[i + 1]] \in Values
    <2> TAKE i \in 1 .. Len(order) - 1
    <2>1. i + 1 \in 2 .. Len(order)
        BY <1>1
    <2>. QED BY <2>1 DEF Inv, ChainInv
<1>3. Elements \in Seq(Values) /\ Len(Elements) = Len(order) - 1
    BY <1>1, <1>2 DEF Elements
<1>4. tail = head <=> Len(order) = 1
    <2>1. 1 \in 1 .. Len(order) /\ Len(order) \in 1 .. Len(order)
        BY <1>1
    <2>2. order[1] = tail /\ order[Len(order)] = head
        BY DEF Inv, ChainInv
    <2>. QED BY <2>1, <2>2 DEF Inv, ChainInv
<1>5. Elements = <<>> <=> Len(Elements) = 0
    BY <1>3
<1>. QED BY <1>1, <1>3, <1>4, <1>5

(* The elements change only with the chain and its data. *)
LEMMA ElementsUnchanged ==
    ASSUME UNCHANGED <<order, data>>
    PROVE  Elements' = Elements
BY DEF Elements

(* Every step of the queue is a step of the abstract queue or no step. *)
LEMMA FifoStep == Inv /\ Inv' /\ [Next]_vars => [Fifo!FifoNext]_(Fifo!fifoVars)
<1> SUFFICES ASSUME Inv, Inv', [Next]_vars
             PROVE  Fifo!FifoNext \/ UNCHANGED <<Elements, Pushing, result>>
    BY DEF Fifo!fifoVars, Elements, Pushing
<1>0. Len(order) \in Nat /\ Len(order) >= 1 /\ order \in Seq(Nodes)
    BY DEF Inv, TypeOK, ChainInv
<1>1. ASSUME NEW p \in Producers, NEW v \in Values, NEW n \in Nodes, Exchange(p, v, n)
      PROVE  Fifo!Push(p, v)
    <2>1. p \notin Pushing /\ Pushing' = Pushing \cup {p} /\ UNCHANGED result
        BY <1>1 DEF Exchange, Pushing, Inv, TypeOK, consumerVars
    <2>2. Elements' = Append(Elements, v)
        <3> DEFINE N == Len(order)
        <3>1. Len(order') = N + 1 /\ order'[N + 1] = n /\ \A i \in 1 .. N : order'[i] = order[i]
            BY <1>0, <1>1 DEF Exchange
        <3>2. \A i \in 1 .. N : order[i] # n /\ order[i] \in Nodes
            BY <1>0, <1>1 DEF Exchange, Inv, ChainInv
        <3>3. data'[n] = v /\ \A m \in Nodes : m # n => data'[m] = data[m]
            BY <1>1 DEF Exchange, Inv, TypeOK
        <3>4. Elements' = [i \in 1 .. N |-> data'[order'[i + 1]]]
            BY <3>1, <1>0 DEF Elements
        <3>5. Len(Elements) = N - 1 /\ Elements \in Seq(Values)
            BY ElementsSeq
        <3>6. /\ Append(Elements, v) \in Seq(Values) /\ Len(Append(Elements, v)) = N
              /\ \A i \in 1 .. N : Append(Elements, v)[i] = IF i = N THEN v ELSE Elements[i]
            BY <3>5, <1>0, AppendProperties
        <3>7. \A i \in 1 .. N : data'[order'[i + 1]] = IF i = N THEN v ELSE Elements[i]
            <4> TAKE i \in 1 .. N
            <4>1. CASE i = N
                BY <4>1, <3>1, <3>3
            <4>2. CASE i # N
                <5>1. i \in 1 .. N - 1 /\ i + 1 \in 1 .. N
                    BY <4>2, <1>0
                <5>. QED BY <5>1, <4>2, <3>1, <3>2, <3>3 DEF Elements
            <4>. QED BY <4>1, <4>2
        <3>8. Elements' \in Seq(Values) /\ Len(Elements') = N
            BY <3>4, <3>6, <3>7, <1>0
        <3>9. \A i \in 1 .. N : Elements'[i] = Append(Elements, v)[i]
            BY <3>4, <3>6, <3>7
        <3>. QED BY <3>6, <3>8, <3>9, SeqEqual
    <2>. QED BY <2>1, <2>2 DEF Fifo!Push, Elements, Pushing
<1>2. ASSUME NEW p \in Producers, Link(p)
      PROVE  Fifo!PushReturns(p)
    <2>1. p \in Pushing /\ Pushing' = Pushing \ {p} /\ UNCHANGED result
        BY <1>2 DEF Link, PushReturns, Pushing, Inv, TypeOK, consumerVars
    <2>2. Elements' = Elements
        BY <1>2, ElementsUnchanged DEF Link
    <2>. QED BY <2>1, <2>2 DEF Fifo!PushReturns, Elements, Pushing
<1>3. ASSUME Advance
      PROVE  Fifo!Pop
    <2>1. Len(order) >= 2
        BY <1>3, NextOfStub DEF Advance, Inv, ConsumerInv
    <2>2. Elements # <<>>
        BY <2>1, <1>0, ElementsSeq DEF Inv, ChainInv
    <2>3. Elements' = Tail(Elements)
        <3> DEFINE N == Len(order)
        <3>1. Len(order') = N - 1 /\ \A i \in 1 .. N - 1 : order'[i] = order[i + 1]
            BY <1>3, <1>0, <2>1 DEF Advance
        <3>2. Elements' = [i \in 1 .. N - 2 |-> data[order'[i + 1]]]
            BY <1>3, <3>1, <1>0 DEF Elements, Advance
        <3>3. /\ Tail(Elements) \in Seq(Values) /\ Len(Tail(Elements)) = N - 2
              /\ \A i \in 1 .. N - 2 : Tail(Elements)[i] = Elements[i + 1]
            BY <2>1, <2>2, <1>0, ElementsSeq, HeadTailProperties
        <3>4. \A i \in 1 .. N - 2 : data[order'[i + 1]] = Elements[i + 1]
            <4> TAKE i \in 1 .. N - 2
            <4>1. i + 1 \in 1 .. N - 1
                BY <1>0
            <4>. QED BY <4>1, <3>1 DEF Elements
        <3>5. Elements' \in Seq(Values) /\ Len(Elements') = N - 2
            BY <3>2, <3>3, <3>4, <2>1, <1>0
        <3>. QED BY <3>2, <3>3, <3>4, <3>5, SeqEqual
    <2>4. Pushing' = Pushing /\ result' = <<"pop", "true">>
        BY <1>3 DEF Advance, Pushing, producerVars
    <2>. QED BY <2>2, <2>3, <2>4 DEF Fifo!Pop, Elements, Pushing
<1>4. ASSUME CheckHead
      PROVE  Fifo!Fails("pop") \/ Fifo!Fails("front") \/ UNCHANGED <<Elements, Pushing, result>>
    <2>1. UNCHANGED <<Elements, Pushing>>
        BY <1>4, ElementsUnchanged DEF CheckHead, queueVars, producerVars, Pushing
    <2>2. CASE ctail = head
        <3>1. Elements = <<>> /\ cop \in {"pop", "front"}
            BY <1>4, <2>2, ElementsSeq DEF CheckHead, Inv, ConsumerInv
        <3>2. result' = <<cop, "false">>
            BY <1>4, <2>2 DEF CheckHead
        <3>. QED BY <3>1, <3>2, <2>1 DEF Fifo!Fails, Elements, Pushing
    <2>3. CASE ctail # head
        BY <1>4, <2>1, <2>3 DEF CheckHead
    <2>. QED BY <2>2, <2>3
<1>5. ASSUME Look
      PROVE  Fifo!Front
    <2>1. UNCHANGED <<Elements, Pushing>>
        BY <1>5, ElementsUnchanged DEF Look, queueVars, producerVars, Pushing
    <2>2. Len(order) >= 2 /\ cnext = order[2]
        BY <1>5, NextOfStub DEF Look, Inv, ConsumerInv
    <2>3. Elements # <<>>
        BY <2>2, <1>0, ElementsSeq DEF Inv, ChainInv
    <2>4. Head(Elements) = data[cnext]
        <3>1. Elements[1] = data[order[2]]
            BY <2>2, <1>0 DEF Elements
        <3>. QED BY <3>1, <2>2, <2>3, ElementsSeq
    <2>. QED BY <1>5, <2>1, <2>3, <2>4 DEF Look, Fifo!Front, Elements, Pushing
<1>6. ASSUME IsEmpty
      PROVE  Fifo!SaysEmpty \/ Fifo!SaysNotEmpty
    <2>1. UNCHANGED <<Elements, Pushing>>
        BY <1>6, ElementsUnchanged DEF IsEmpty, queueVars, producerVars, Pushing
    <2>2. CASE next[tail] # NULL
        <3>1. Elements # <<>>
            BY <2>2, NextOfStub, <1>0, ElementsSeq DEF Inv, ChainInv
        <3>. QED BY <1>6, <2>1, <2>2, <3>1 DEF IsEmpty, Fifo!SaysNotEmpty, Elements, Pushing
    <2>3. CASE next[tail] = NULL
        <3>1. Elements = <<>> \/ Pushing # {}
            <4>1. CASE Len(order) = 1
                BY <4>1, ElementsSeq DEF Inv, ChainInv
            <4>2. CASE Len(order) # 1
                <5>1. 1 \in 1 .. Len(order) - 1 /\ 2 \in 1 .. Len(order)
                    <6> DEFINE N == Len(order)
                    <6>1. N \in Nat /\ N >= 1 /\ N # 1
                        BY <4>2, <1>0
                    <6> HIDE DEF N
                    <6>2. 1 \in 1 .. N - 1 /\ 2 \in 1 .. N
                        BY <6>1
                    <6>. QED BY <6>2 DEF N
                <5>a. order[1] = tail
                    BY DEF Inv, ChainInv
                <5>2. order[2] # NULL
                    BY <5>1, <1>0, NullAssumption
                <5>3. \E p \in Producers : ppc[p] = "link"
                    BY <5>1, <5>a, <5>2, <2>3 DEF Inv, LinkInv
                <5>. QED BY <5>3 DEF Pushing
            <4>. QED BY <4>1, <4>2
        <3>. QED BY <1>6, <2>1, <2>3, <3>1 DEF IsEmpty, Fifo!SaysEmpty, Elements, Pushing
    <2>. QED BY <2>2, <2>3
<1>7. ASSUME Begin("pop") \/ Begin("front") \/ Spin \/ UNCHANGED vars
      PROVE  UNCHANGED <<Elements, Pushing, result>>
    BY <1>7, ElementsUnchanged DEF Begin, Spin, vars, queueVars, producerVars, Pushing
<1>8. ASSUME Delete
      PROVE  UNCHANGED <<Elements, Pushing, result>>
    <2>1. \A i \in 1 .. Len(order) - 1 : data'[order[i + 1]] = data[order[i + 1]]
        <3> TAKE i \in 1 .. Len(order) - 1
        <3>1. order[i + 1] # ctail /\ order[i + 1] \in Nodes
            <4>1. i + 1 \in 1 .. Len(order)
                BY <1>0
            <4>. QED BY <1>8, <4>1, <1>0 DEF Delete, Inv, ConsumerInv
        <3>. QED BY <1>8, <3>1 DEF Delete, Inv, TypeOK
    <2>2. order' = order /\ UNCHANGED <<Pushing, result>>
        BY <1>8 DEF Delete, producerVars, Pushing
    <2>. QED BY <2>1, <2>2 DEF Elements
<1>. QED
    BY <1>1, <1>2, <1>3, <1>4, <1>5, <1>6, <1>7, <1>8 DEF Next, Produce, Consume, Fifo!FifoNext

(* The empty queue is the empty abstract queue. *)
LEMMA FifoStart == Init => Fifo!FifoInit
<1> SUFFICES ASSUME Init PROVE Fifo!FifoInit
    OBVIOUS
<1>1. Len(order) = 1 /\ result = <<"none", "none">> /\ Pushing = {}
    BY DEF Init, Pushing
<1>2. Elements = <<>>
    BY <1>1 DEF Elements
<1>. QED BY <1>1, <1>2 DEF Fifo!FifoInit, Elements, Pushing

(* Every behaviour of push, pop, front and empty is a behaviour of a
   first-in first-out queue, for any number of producers. *)
THEOREM QueueImplementsFifo == Spec => ImplementsFifo
<1>1. Init => Fifo!FifoInit
    BY FifoStart
<1>2. Inv /\ Inv' /\ [Next]_vars => [Fifo!FifoNext]_(Fifo!fifoVars)
    BY FifoStep
<1>. QED BY <1>1, <1>2, InvAlways, PTL DEF Spec, ImplementsFifo, Fifo!FifoSpec

=============================================================================
