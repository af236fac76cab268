----------------------------- MODULE MpscQueue ------------------------------
(***************************************************************************)
(* The lock-free queue of datastructure/Mpsc.h: producers exchange the     *)
(* head and then link the node before theirs; the one consumer walks from  *)
(* the stub at the tail.  Every step is one access to an atomic that       *)
(* another thread writes.  A node is allocated from the nodes not in use,  *)
(* so that the allocator may hand a deleted node out again.                *)
(***************************************************************************)
EXTENDS Naturals, Sequences, FiniteSets

CONSTANTS
    Producers,
    Values,     \* the elements
    Nodes,      \* the memory: one node per element and one for the stub
    NULL

ASSUME NullAssumption == NULL \notin Nodes
ASSUME MemoryAssumption == Nodes # {}

VARIABLES
    head,     \* the node pushed last
    tail,     \* the stub: the node before the oldest element
    next,     \* the link of each node
    data,     \* the element of each node
    live,     \* the nodes allocated and not deleted
    ppc,      \* producers: "idle", or "link" between exchange and store
    node,     \* producers: new_node
    prev,     \* producers: prev
    cpc,      \* consumer: where it is
    cop,      \* consumer: the call it is in
    ctail,    \* consumer: tail_
    cnext,    \* consumer: next_
    result,   \* consumer: what its last call returned
    order     \* history: the nodes from tail to head, in the order of the exchanges

queueVars == <<head, tail, next, data, live>>
producerVars == <<ppc, node, prev>>
consumerVars == <<cpc, cop, ctail, cnext, result>>
vars == <<head, tail, next, data, live, ppc, node, prev,
          cpc, cop, ctail, cnext, result, order>>

Init ==
    \E stub \in Nodes :
      /\ head = stub
      /\ tail = stub
      /\ next = [n \in Nodes |-> NULL]
      /\ data = [n \in Nodes |-> NULL]
      /\ live = {stub}
      /\ ppc = [p \in Producers |-> "idle"]
      /\ node = [p \in Producers |-> NULL]
      /\ prev = [p \in Producers |-> NULL]
      /\ cpc = "idle"
      /\ cop = "none"
      /\ ctail = NULL
      /\ cnext = NULL
      /\ result = <<"none", "none">>
      /\ order = <<stub>>

-----------------------------------------------------------------------------
(* push *)

\* Allocation of the node and head.exchange(new_node).
Exchange(p, v, n) ==
    /\ ppc[p] = "idle"
    /\ n \notin live
    /\ live' = live \cup {n}
    /\ data' = [data EXCEPT ![n] = v]
    /\ next' = [next EXCEPT ![n] = NULL]
    /\ node' = [node EXCEPT ![p] = n]
    /\ prev' = [prev EXCEPT ![p] = head]
    /\ head' = n
    /\ order' = Append(order, n)
    /\ ppc' = [ppc EXCEPT ![p] = "link"]
    /\ UNCHANGED <<tail, consumerVars>>

\* The end of push: its locals are gone.
PushReturns(p) ==
    /\ ppc' = [ppc EXCEPT ![p] = "idle"]
    /\ node' = [node EXCEPT ![p] = NULL]
    /\ prev' = [prev EXCEPT ![p] = NULL]

\* Faulty variant of Link: the link is written into the node that is head now.
LinkFromHead(p) ==
    /\ ppc[p] = "link"
    /\ next' = [next EXCEPT ![head] = node[p]]
    /\ PushReturns(p)
    /\ UNCHANGED <<head, tail, data, live, consumerVars, order>>

\* prev->next.store(new_node)
Link(p) ==
    /\ ppc[p] = "link"
    /\ next' = [next EXCEPT ![prev[p]] = node[p]]
    /\ PushReturns(p)
    /\ UNCHANGED <<head, tail, data, live, consumerVars, order>>

-----------------------------------------------------------------------------
(* pop, front and empty, called by the consumer *)

\* The end of a call of the consumer: its locals are gone.
CallReturns ==
    /\ cpc' = "idle"
    /\ cop' = "none"
    /\ ctail' = NULL
    /\ cnext' = NULL

\* The loads of tail and of tail_->next with which pop and front begin.
Begin(op) ==
    /\ cpc = "idle"
    /\ cop' = op
    /\ ctail' = tail
    /\ cnext' = next[tail]
    /\ cpc' = IF next[tail] = NULL THEN "check" ELSE "ready"
    /\ UNCHANGED <<queueVars, producerVars, result, order>>

\* Faulty variant of CheckHead: a missing link is taken for an empty queue.
CheckNothing ==
    /\ cpc = "check"
    /\ CallReturns
    /\ result' = <<cop, "false">>
    /\ UNCHANGED <<queueVars, producerVars, order>>

\* No link: the queue is empty only if the stub is also the head.
CheckHead ==
    /\ cpc = "check"
    /\ IF ctail = head
         THEN CallReturns /\ result' = <<cop, "false">>
         ELSE cpc' = "spin" /\ UNCHANGED <<cop, ctail, cnext, result>>
    /\ UNCHANGED <<queueVars, producerVars, order>>

\* Faulty variant of Spin: the loop reads the link once and goes on.
SpinOnce ==
    /\ cpc = "spin"
    /\ cnext' = next[ctail]
    /\ cpc' = "ready"
    /\ UNCHANGED <<queueVars, producerVars, cop, ctail, result, order>>

\* One iteration of the waiting loop: it goes on until there is a link.
Spin ==
    /\ cpc = "spin"
    /\ \/ /\ next[ctail] # NULL
          /\ cnext' = next[ctail]
          /\ cpc' = "ready"
          /\ UNCHANGED <<queueVars, producerVars, cop, ctail, result, order>>
       \/ next[ctail] = NULL /\ UNCHANGED vars

\* pop: the next node becomes the stub.
Advance ==
    /\ cpc = "ready" /\ cop = "pop"
    /\ tail' = cnext
    /\ order' = Tail(order)
    /\ result' = <<"pop", "true">>
    /\ cpc' = "delete"
    /\ UNCHANGED <<head, next, data, live, producerVars, cop, ctail, cnext>>

\* Faulty variant of Delete: the node of the popped element is deleted.
DeletePopped ==
    /\ cpc = "delete"
    /\ live' = live \ {cnext}
    /\ CallReturns
    /\ UNCHANGED <<head, tail, next, data, producerVars, result, order>>

\* pop: the old stub is deleted.
Delete ==
    /\ cpc = "delete"
    /\ live' = live \ {ctail}
    /\ next' = [next EXCEPT ![ctail] = NULL]
    /\ data' = [data EXCEPT ![ctail] = NULL]
    /\ CallReturns
    /\ UNCHANGED <<head, tail, producerVars, result, order>>

\* front: a copy of the element of the next node.
Look ==
    /\ cpc = "ready" /\ cop = "front"
    /\ result' = <<"front", data[cnext]>>
    /\ CallReturns
    /\ UNCHANGED <<queueVars, producerVars, order>>

\* empty: one load of the link.
IsEmpty ==
    /\ cpc = "idle"
    /\ result' = <<"empty", IF next[tail] = NULL THEN "true" ELSE "false">>
    /\ UNCHANGED <<queueVars, producerVars, cpc, cop, ctail, cnext, order>>

Produce(p) == Link(p) \/ \E v \in Values, n \in Nodes : Exchange(p, v, n)

Consume == Begin("pop") \/ Begin("front") \/ CheckHead \/ Spin \/ Advance \/ Delete \/ Look \/ IsEmpty

Next == Consume \/ \E p \in Producers : Produce(p)

Spec == Init /\ [][Next]_vars

\* A thread inside push or pop keeps running; nobody has to start a call.
FairSpec ==
    /\ Spec
    /\ \A p \in Producers : WF_vars(Link(p))
    /\ WF_vars(CheckHead) /\ WF_vars(Spin) /\ WF_vars(Advance) /\ WF_vars(Delete) /\ WF_vars(Look)

-----------------------------------------------------------------------------
(* Properties *)

\* Types of the links, the calls in progress and the order of the exchanges.
TypeOK ==
    /\ head \in Nodes /\ tail \in Nodes
    /\ next \in [Nodes -> Nodes \cup {NULL}]
    /\ data \in [Nodes -> Values \cup {NULL}]
    /\ live \in SUBSET Nodes
    /\ ppc \in [Producers -> {"idle", "link"}]
    /\ node \in [Producers -> Nodes \cup {NULL}]
    /\ prev \in [Producers -> Nodes \cup {NULL}]
    /\ cpc \in {"idle", "check", "spin", "ready", "delete"}
    /\ cop \in {"none", "pop", "front"}
    /\ ctail \in Nodes \cup {NULL}
    /\ cnext \in Nodes \cup {NULL}
    /\ order \in Seq(Nodes)

\* No thread is about to touch a node that pop has deleted: not the stub, not
\* the node a delayed producer still has to link, not the node the consumer
\* has already read from the link.
NoUseAfterFree ==
    /\ tail \in live
    /\ \A p \in Producers : ppc[p] = "link" => prev[p] \in live /\ node[p] \in live
    /\ cpc \in {"check", "spin", "delete"} => ctail \in live
    /\ cpc = "ready" => cnext \in live

\* The queue implements a first-in first-out queue: the elements are those of
\* the nodes after the stub in the order of the exchanges, linked or not yet.
Fifo == INSTANCE FifoQueue WITH
    items <- [i \in 1 .. Len(order) - 1 |-> data[order[i + 1]]],
    pushing <- {p \in Producers : ppc[p] = "link"}

ImplementsFifo == Fifo!FifoSpec

\* A consumer that has seen a push in progress gets its element: the loops of
\* pop and front wait for a producer between exchange and link and for
\* nothing else.
SpinEnds == cpc = "spin" ~> cpc = "ready"

=============================================================================
