----------------------------- MODULE FifoQueue ------------------------------
(***************************************************************************)
(* What a queue with several producers and one consumer promises: the      *)
(* elements leave in the order in which the producers took their turns,    *)
(* pop and front fail only when the queue is empty, and empty may report   *)
(* an element late, but only while a push has not returned.                *)
(***************************************************************************)
EXTENDS Sequences

CONSTANTS Producers, Values

VARIABLES
    items,    \* the elements, oldest first
    pushing,  \* the producers whose push has taken effect and not returned
    result    \* what the consumer's last call returned

fifoVars == <<items, pushing, result>>

FifoInit == items = <<>> /\ pushing = {} /\ result = <<"none", "none">>

Push(p, v) ==
    /\ p \notin pushing
    /\ items' = Append(items, v)
    /\ pushing' = pushing \cup {p}
    /\ UNCHANGED result

PushReturns(p) ==
    /\ p \in pushing
    /\ pushing' = pushing \ {p}
    /\ UNCHANGED <<items, result>>

Pop ==
    /\ items # <<>>
    /\ items' = Tail(items)
    /\ result' = <<"pop", "true">>
    /\ UNCHANGED pushing

Front ==
    /\ items # <<>>
    /\ result' = <<"front", Head(items)>>
    /\ UNCHANGED <<items, pushing>>

Fails(op) ==
    /\ items = <<>>
    /\ result' = <<op, "false">>
    /\ UNCHANGED <<items, pushing>>

SaysEmpty ==
    /\ items = <<>> \/ pushing # {}
    /\ result' = <<"empty", "true">>
    /\ UNCHANGED <<items, pushing>>

SaysNotEmpty ==
    /\ items # <<>>
    /\ result' = <<"empty", "false">>
    /\ UNCHANGED <<items, pushing>>

FifoNext ==
    \/ \E p \in Producers : PushReturns(p) \/ \E v \in Values : Push(p, v)
    \/ Pop \/ Front \/ Fails("pop") \/ Fails("front")
    \/ SaysEmpty \/ SaysNotEmpty

FifoSpec == FifoInit /\ [][FifoNext]_fifoVars

=============================================================================
