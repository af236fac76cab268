----------------------------- MODULE PacketPool -----------------------------
(***************************************************************************)
(* The packet pool (pool/PacketPool.cpp): a fixed array of packets, the    *)
(* queue of the free indices, a use flag per packet, and two statistics    *)
(* that are updated outside the lock.                                      *)
(*                                                                         *)
(* Every step is either one critical section of the mutex amx or one       *)
(* atomic operation outside it, so that the threads interleave exactly     *)
(* where the code lets them.                                               *)
(***************************************************************************)
EXTENDS Integers, Sequences, FiniteSets

CONSTANTS
    Threads,      \* the threads that borrow and return packets
    currentSize,  \* the number of packets in the pool
    CounterMod    \* 2^w for the w-bit size_t of the use counter

ASSUME SizeAssumption == currentSize \in Nat \ {0}
ASSUME CounterAssumption == CounterMod \in Nat \ {0}

Ids == 0 .. currentSize - 1

VARIABLES
    availableIdx,      \* queue of the free indices
    inUse,             \* 1 for a packet that is lent
    currentPacketUse,  \* atomic counter of the packets lent
    peak,              \* atomic maximum of that counter
    clear,             \* ids whose contents are in the state clearInPointer leaves
    pc,                \* where each thread is in borrowPacket or returnPacket
    id,                \* the local variable id of that call
    newCount,          \* the local variable newCount of borrowPacket
    prevPeak,          \* the local variable prevPeak of borrowPacket
    held,              \* the packets each caller owns: borrowed, not yet returned
    known,             \* the packets lent at least once: their pointers exist
    misused            \* a packet has been returned by someone who did not own it

poolVars == <<availableIdx, inUse>>
statVars == <<currentPacketUse, peak>>
callVars == <<pc, id, newCount, prevPeak>>
vars == <<availableIdx, inUse, currentPacketUse, peak, clear,
          pc, id, newCount, prevPeak, held, known, misused>>

Locations == {"idle", "count", "load", "cas", "lock", "decrement"}

Init ==
    /\ availableIdx = [i \in 1 .. currentSize |-> i - 1]
    /\ inUse = [i \in Ids |-> 0]
    /\ currentPacketUse = 0
    /\ peak = 0
    /\ clear = Ids
    /\ pc = [t \in Threads |-> "idle"]
    /\ id = [t \in Threads |-> 0]
    /\ newCount = [t \in Threads |-> 0]
    /\ prevPeak = [t \in Threads |-> 0]
    /\ held = [t \in Threads |-> {}]
    /\ known = {}
    /\ misused = FALSE

Goto(t, l) == pc' = [pc EXCEPT ![t] = l]

-----------------------------------------------------------------------------
(* borrowPacket *)

\* The position at which the loop of borrowPacket stops: the first index in
\* the queue whose packet is not in use.
StopsAt(k) ==
    /\ k \in 1 .. Len(availableIdx)
    /\ inUse[availableIdx[k]] = 0
    /\ \A j \in 1 .. k - 1 : inUse[availableIdx[j]] # 0

\* Faulty variant of BorrowLocked: the front index is read but never popped.
BorrowWithoutPop(t) ==
    /\ pc[t] = "idle"
    /\ availableIdx # <<>>
    /\ inUse' = [inUse EXCEPT ![availableIdx[1]] = 1]
    /\ id' = [id EXCEPT ![t] = availableIdx[1]]
    /\ held' = [held EXCEPT ![t] = @ \cup {availableIdx[1]}]
    /\ known' = known \cup {availableIdx[1]}
    /\ Goto(t, "count")
    /\ UNCHANGED <<availableIdx, statVars, clear, newCount, prevPeak>>

\* The critical section when the queue is not empty: pop until a free packet
\* is found, and mark it.
BorrowLocked(t) ==
    /\ pc[t] = "idle"
    /\ availableIdx # <<>>
    /\ \E k \in 1 .. Len(availableIdx) :
          /\ StopsAt(k)
          /\ availableIdx' = SubSeq(availableIdx, k + 1, Len(availableIdx))
          /\ inUse' = [inUse EXCEPT ![availableIdx[k]] = 1]
          /\ id' = [id EXCEPT ![t] = availableIdx[k]]
          /\ held' = [held EXCEPT ![t] = @ \cup {availableIdx[k]}]
          /\ known' = known \cup {availableIdx[k]}
    /\ Goto(t, "count")
    /\ UNCHANGED <<statVars, clear, newCount, prevPeak>>

\* The critical section when the queue is empty: the caller gets nullptr.
BorrowNothing(t) ==
    /\ pc[t] = "idle"
    /\ availableIdx = <<>>
    /\ UNCHANGED vars

\* currentPacketUse.fetch_add(1) + 1
CountBorrow(t) ==
    /\ pc[t] = "count"
    /\ currentPacketUse' = (currentPacketUse + 1) % CounterMod
    /\ newCount' = [newCount EXCEPT ![t] = (currentPacketUse + 1) % CounterMod]
    /\ Goto(t, "load")
    /\ UNCHANGED <<poolVars, peak, clear, id, prevPeak, held, known>>

\* peak.load()
LoadPeak(t) ==
    /\ pc[t] = "load"
    /\ prevPeak' = [prevPeak EXCEPT ![t] = peak]
    /\ Goto(t, "cas")
    /\ UNCHANGED <<poolVars, statVars, clear, id, newCount, held, known>>

\* Faulty variant of CasPeak: a plain store instead of the exchange.
StorePeak(t) ==
    /\ pc[t] = "cas"
    /\ IF newCount[t] > prevPeak[t]
         THEN peak' = newCount[t]
         ELSE UNCHANGED peak
    /\ Goto(t, "idle")
    /\ UNCHANGED <<poolVars, currentPacketUse, clear, id, newCount, prevPeak, held, known>>

\* The loop over compare_exchange_weak: it ends when the count is no new
\* peak or the exchange succeeds, and refreshes prevPeak otherwise.
CasPeak(t) ==
    /\ pc[t] = "cas"
    /\ IF newCount[t] <= prevPeak[t]
         THEN Goto(t, "idle") /\ UNCHANGED <<peak, prevPeak>>
         ELSE IF peak = prevPeak[t]
           THEN Goto(t, "idle") /\ peak' = newCount[t] /\ UNCHANGED prevPeak
           ELSE prevPeak' = [prevPeak EXCEPT ![t] = peak] /\ UNCHANGED <<peak, pc>>
    /\ UNCHANGED <<poolVars, currentPacketUse, clear, id, newCount, held, known>>

-----------------------------------------------------------------------------
(* returnPacket *)

\* Faulty variant of ClearContents: the contents stay.
KeepContents(t, i) ==
    /\ pc[t] = "idle"
    /\ id' = [id EXCEPT ![t] = i]
    /\ Goto(t, "lock")
    /\ UNCHANGED <<poolVars, statVars, clear, newCount, prevPeak, known>>

\* The contents are wiped before the lock is taken and before the use flag is
\* looked at.
ClearContents(t, i) ==
    /\ pc[t] = "idle"
    /\ clear' = clear \cup {i}
    /\ id' = [id EXCEPT ![t] = i]
    /\ Goto(t, "lock")
    /\ UNCHANGED <<poolVars, statVars, newCount, prevPeak, known>>

\* The owner gives the packet back.
ReturnOwned(t, i) ==
    /\ i \in held[t]
    /\ ClearContents(t, i)
    /\ held' = [held EXCEPT ![t] = @ \ {i}]

\* A caller returns a pointer it no longer owns: the delivery queue can hold
\* the same packet twice, so that it is returned once per entry.
ReturnStale(t, i) ==
    /\ i \in known \ held[t]
    /\ ClearContents(t, i)
    /\ UNCHANGED held

\* Faulty variant of ReturnLocked: no look at the use flag.
ReturnUnguarded(t) ==
    /\ pc[t] = "lock"
    /\ availableIdx' = Append(availableIdx, id[t])
    /\ inUse' = [inUse EXCEPT ![id[t]] = 0]
    /\ Goto(t, "decrement")
    /\ UNCHANGED <<statVars, clear, id, newCount, prevPeak, held, known>>

\* Faulty variant of ReturnLocked: an ignored return is counted as well.
ReturnAlwaysCounts(t) ==
    /\ pc[t] = "lock"
    /\ IF inUse[id[t]] = 0
         THEN Goto(t, "decrement") /\ UNCHANGED poolVars
         ELSE /\ availableIdx' = Append(availableIdx, id[t])
              /\ inUse' = [inUse EXCEPT ![id[t]] = 0]
              /\ Goto(t, "decrement")
    /\ UNCHANGED <<statVars, clear, id, newCount, prevPeak, held, known>>

\* The critical section: a packet that is not in use is left alone.
ReturnLocked(t) ==
    /\ pc[t] = "lock"
    /\ IF inUse[id[t]] = 0
         THEN Goto(t, "idle") /\ UNCHANGED poolVars
         ELSE /\ availableIdx' = Append(availableIdx, id[t])
              /\ inUse' = [inUse EXCEPT ![id[t]] = 0]
              /\ Goto(t, "decrement")
    /\ UNCHANGED <<statVars, clear, id, newCount, prevPeak, held, known>>

\* Faulty variant of CountReturn: a counter that does not wrap.
CountReturnSigned(t) ==
    /\ pc[t] = "decrement"
    /\ currentPacketUse' = currentPacketUse - 1
    /\ Goto(t, "idle")
    /\ UNCHANGED <<poolVars, peak, clear, id, newCount, prevPeak, held, known>>

\* currentPacketUse--
CountReturn(t) ==
    /\ pc[t] = "decrement"
    /\ currentPacketUse' = (currentPacketUse - 1) % CounterMod
    /\ Goto(t, "idle")
    /\ UNCHANGED <<poolVars, peak, clear, id, newCount, prevPeak, held, known>>

-----------------------------------------------------------------------------
(* The callers *)

\* An owner fills in the packet it borrowed.
WritePacket(t, i) ==
    /\ pc[t] = "idle"
    /\ i \in held[t]
    /\ clear' = clear \ {i}
    /\ UNCHANGED <<poolVars, statVars, callVars, held, known>>

\* A packet changes hands: a queue, a completion, another worker.
HandOver(t, u, i) ==
    /\ pc[t] = "idle" /\ pc[u] = "idle"
    /\ t # u
    /\ i \in held[t]
    /\ held' = [held EXCEPT ![t] = @ \ {i}, ![u] = @ \cup {i}]
    /\ UNCHANGED <<poolVars, statVars, clear, callVars, known>>

Owned(t) ==
    \/ BorrowLocked(t) \/ BorrowNothing(t)
    \/ CountBorrow(t) \/ LoadPeak(t) \/ CasPeak(t)
    \/ ReturnLocked(t) \/ CountReturn(t)
    \/ \E i \in Ids : ReturnOwned(t, i) \/ WritePacket(t, i)
    \/ \E u \in Threads, i \in Ids : HandOver(t, u, i)

\* Every packet is returned by its owner, once.
OwnedNext == \E t \in Threads : Owned(t)

\* Packets may also be returned again later.
Next ==
    \/ OwnedNext /\ UNCHANGED misused
    \/ (\E t \in Threads, i \in Ids : ReturnStale(t, i)) /\ misused' = TRUE

Spec == Init /\ [][Next]_vars

-----------------------------------------------------------------------------
(* Properties *)

PoolTypes ==
    /\ availableIdx \in Seq(Ids)
    /\ inUse \in [Ids -> {0, 1}]
    /\ currentPacketUse \in 0 .. CounterMod - 1
    /\ peak \in 0 .. CounterMod - 1
    /\ clear \in SUBSET Ids
    /\ pc \in [Threads -> Locations]
    /\ id \in [Threads -> Ids]
    /\ newCount \in [Threads -> 0 .. CounterMod - 1]
    /\ prevPeak \in [Threads -> 0 .. CounterMod - 1]
    /\ held \in [Threads -> SUBSET Ids]
    /\ known \in SUBSET Ids

\* Types of the pool, its statistics and the calls in progress.
TypeOK == PoolTypes /\ misused \in BOOLEAN

\* The queue lists every free packet exactly once and no packet that is lent,
\* whatever callers return and however often.  It is what keeps the loop of
\* borrowPacket from calling front() on a queue that it has itself emptied.
PoolConsistent ==
    /\ \A j, k \in 1 .. Len(availableIdx) : availableIdx[j] = availableIdx[k] => j = k
    /\ \A i \in Ids : inUse[i] = 0 <=> \E k \in 1 .. Len(availableIdx) : availableIdx[k] = i

\* currentPacketUse is the number of packets lent, up to the borrows and the
\* returns that have left the critical section and not yet counted themselves;
\* an ignored second return is never counted.
CounterAccounting ==
    currentPacketUse =
      (Cardinality({i \in Ids : inUse[i] = 1})
        + Cardinality({t \in Threads : pc[t] = "decrement"})
        - Cardinality({t \in Threads : pc[t] = "count"})) % CounterMod

\* peak never goes down, and borrowPacket does not return before peak has
\* reached the count it saw, although other borrowers update peak meanwhile.
PeakNeverBehind ==
    [][/\ peak' >= peak
       /\ \A t \in Threads :
            pc[t] = "cas" /\ pc'[t] = "idle" => peak' >= newCount[t]]_vars

OwnersDisjoint ==
    \A t \in Threads : \A i \in held[t] :
        /\ inUse[i] = 1
        /\ \A u \in Threads : i \in held[u] => u = t

FreeIsClear == \A i \in Ids : inUse[i] = 0 => i \in clear

\* As long as packets are returned once, by their owners, two callers never own
\* the same packet, and a packet with an owner is not free to be lent again.
ExclusiveOwnership == ~misused => OwnersDisjoint

\* As long as packets are returned once, by their owners, borrowPacket only
\* lends packets whose contents and flags have been reset.
LentClear == ~misused => FreeIsClear

=============================================================================
