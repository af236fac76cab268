-------------------------- MODULE PacketPoolProofs --------------------------
(***************************************************************************)
(* Proofs about PacketPool for every set of threads, pool size and counter *)
(* width.                                                                  *)
(***************************************************************************)
EXTENDS PacketPool, SequenceTheorems, TLAPS

(* No step of any caller, stale returns included, leaves the types. *)
LEMMA PoolTypesStep == PoolTypes /\ [Next]_vars => PoolTypes'
<1> USE CounterAssumption DEF Locations, Goto,
        poolVars, statVars, callVars
<1> SUFFICES ASSUME PoolTypes, [Next]_vars PROVE PoolTypes'
    OBVIOUS
<1>1. ASSUME NEW t \in Threads, BorrowLocked(t) PROVE PoolTypes'
    <2>1. PICK k \in 1 .. Len(availableIdx) :
             /\ availableIdx' = SubSeq(availableIdx, k + 1, Len(availableIdx))
             /\ inUse' = [inUse EXCEPT ![availableIdx[k]] = 1]
             /\ id' = [id EXCEPT ![t] = availableIdx[k]]
             /\ held' = [held EXCEPT ![t] = @ \cup {availableIdx[k]}]
             /\ known' = known \cup {availableIdx[k]}
        BY <1>1 DEF BorrowLocked
    <2>2. availableIdx[k] \in Ids
        BY DEF PoolTypes
    <2>3. availableIdx' \in Seq(Ids)
        BY <2>1 DEF PoolTypes
    <2>. QED BY <1>1, <2>1, <2>2, <2>3 DEF PoolTypes, BorrowLocked
<1>2. ASSUME NEW t \in Threads, BorrowNothing(t) PROVE PoolTypes'
    BY <1>2 DEF PoolTypes, BorrowNothing, vars
<1>3. ASSUME NEW t \in Threads, CountBorrow(t) PROVE PoolTypes'
    <2>1. (currentPacketUse + 1) % CounterMod \in 0 .. CounterMod - 1
        BY DEF PoolTypes
    <2>. QED BY <1>3, <2>1 DEF PoolTypes, CountBorrow
<1>4. ASSUME NEW t \in Threads, LoadPeak(t) PROVE PoolTypes'
    BY <1>4 DEF PoolTypes, LoadPeak
<1>5. ASSUME NEW t \in Threads, CasPeak(t) PROVE PoolTypes'
    <2>1. UNCHANGED <<poolVars, currentPacketUse, clear, id, newCount, held, known>>
        BY <1>5 DEF CasPeak
    <2>2. \/ pc' = [pc EXCEPT ![t] = "idle"] /\ UNCHANGED <<peak, prevPeak>>
          \/ pc' = [pc EXCEPT ![t] = "idle"] /\ peak' = newCount[t] /\ UNCHANGED prevPeak
          \/ prevPeak' = [prevPeak EXCEPT ![t] = peak] /\ UNCHANGED <<peak, pc>>
        BY <1>5 DEF CasPeak
    <2>3. CASE pc' = [pc EXCEPT ![t] = "idle"] /\ UNCHANGED <<peak, prevPeak>>
        BY <2>1, <2>3 DEF PoolTypes
    <2>4. CASE pc' = [pc EXCEPT ![t] = "idle"] /\ peak' = newCount[t] /\ UNCHANGED prevPeak
        BY <2>1, <2>4 DEF PoolTypes
    <2>5. CASE prevPeak' = [prevPeak EXCEPT ![t] = peak] /\ UNCHANGED <<peak, pc>>
        BY <2>1, <2>5 DEF PoolTypes
    <2>. QED BY <2>2, <2>3, <2>4, <2>5
<1>6. ASSUME NEW t \in Threads, ReturnLocked(t) PROVE PoolTypes'
    <2>1. CASE inUse[id[t]] = 0
        BY <1>6, <2>1 DEF PoolTypes, ReturnLocked
    <2>2. CASE inUse[id[t]] # 0
        <3>1. Append(availableIdx, id[t]) \in Seq(Ids)
            BY DEF PoolTypes
        <3>2. [inUse EXCEPT ![id[t]] = 0] \in [Ids -> {0, 1}]
            BY DEF PoolTypes
        <3>. QED BY <1>6, <2>2, <3>1, <3>2 DEF PoolTypes, ReturnLocked
    <2>. QED BY <2>1, <2>2
<1>7. ASSUME NEW t \in Threads, CountReturn(t) PROVE PoolTypes'
    <2>1. (currentPacketUse - 1) % CounterMod \in 0 .. CounterMod - 1
        BY DEF PoolTypes
    <2>. QED BY <1>7, <2>1 DEF PoolTypes, CountReturn
<1>8. ASSUME NEW t \in Threads, NEW i \in Ids, ReturnOwned(t, i) PROVE PoolTypes'
    BY <1>8 DEF PoolTypes, ReturnOwned, ClearContents
<1>9. ASSUME NEW t \in Threads, NEW i \in Ids, WritePacket(t, i) PROVE PoolTypes'
    BY <1>9 DEF PoolTypes, WritePacket
<1>10. ASSUME NEW t \in Threads, NEW u \in Threads, NEW i \in Ids, HandOver(t, u, i)
       PROVE PoolTypes'
    BY <1>10 DEF PoolTypes, HandOver
<1>11. ASSUME NEW t \in Threads, NEW i \in Ids, ReturnStale(t, i) PROVE PoolTypes'
    BY <1>11 DEF PoolTypes, ReturnStale, ClearContents
<1>12. CASE UNCHANGED vars
    BY <1>12 DEF PoolTypes, vars
<1>. QED
    BY <1>1, <1>2, <1>3, <1>4, <1>5, <1>6, <1>7, <1>8, <1>9, <1>10, <1>11, <1>12
    DEF Next, OwnedNext, Owned

(* The same with the history of misuse. *)
LEMMA TypeStep == TypeOK /\ [Next]_vars => TypeOK'
BY PoolTypesStep DEF TypeOK, Next, vars

(* The pool starts in a state of the right types. *)
LEMMA TypeInit == Init => TypeOK
<1> SUFFICES ASSUME Init PROVE TypeOK
    OBVIOUS
<1>1. availableIdx \in Seq(Ids)
    BY SizeAssumption DEF Init, Ids
<1>2. PoolTypes
    BY <1>1, SizeAssumption, CounterAssumption DEF Init, PoolTypes, Ids, Locations
<1>3. misused \in BOOLEAN
    BY Zenon DEF Init
<1>. QED BY <1>2, <1>3 DEF TypeOK

(* The state of the pool has its types in every behaviour of borrowPacket and
   returnPacket, stale returns included. *)
THEOREM TypeCorrect == Spec => []TypeOK
BY TypeInit, TypeStep, PTL DEF Spec

-----------------------------------------------------------------------------

(* The constructor queues every index once and marks no packet as used. *)
LEMMA ConsistentInit == Init => PoolConsistent
<1> SUFFICES ASSUME Init PROVE PoolConsistent
    OBVIOUS
<1>1. Len(availableIdx) = currentSize
    BY SizeAssumption DEF Init
<1>2. \A k \in 1 .. currentSize : availableIdx[k] = k - 1
    BY SizeAssumption DEF Init
<1>3. ASSUME NEW i \in Ids
      PROVE  \E k \in 1 .. Len(availableIdx) : availableIdx[k] = i
    <2>1. i + 1 \in 1 .. currentSize /\ availableIdx[i + 1] = i
        BY <1>2, SizeAssumption DEF Ids
    <2>. QED BY <1>1, <2>1
<1>. QED BY <1>1, <1>2, <1>3, SizeAssumption DEF Init, PoolConsistent, Ids

(* The loop of borrowPacket always stops at the first index of the queue. *)
LEMMA BorrowTakesFirst ==
    ASSUME TypeOK, PoolConsistent, NEW k \in 1 .. Len(availableIdx), StopsAt(k)
    PROVE  k = 1
<1>1. Len(availableIdx) \in Nat /\ \A j \in 1 .. Len(availableIdx) : availableIdx[j] \in Ids
    BY DEF TypeOK, PoolTypes
<1>2. inUse[availableIdx[1]] = 0
    BY <1>1 DEF PoolConsistent
<1>. QED BY <1>1, <1>2 DEF StopsAt

(* Both critical sections keep the queue and the use flags in agreement. *)
LEMMA ConsistentStep == TypeOK /\ PoolConsistent /\ [Next]_vars => PoolConsistent'
<1> SUFFICES ASSUME TypeOK, PoolConsistent, [Next]_vars PROVE PoolConsistent'
    OBVIOUS
<1> DEFINE n == Len(availableIdx)
<1>0. n \in Nat /\ \A j \in 1 .. n : availableIdx[j] \in Ids
    BY DEF TypeOK, PoolTypes
<1>1. ASSUME NEW t \in Threads, BorrowLocked(t) PROVE PoolConsistent'
    <2>1. PICK k \in 1 .. n :
             /\ StopsAt(k)
             /\ availableIdx' = SubSeq(availableIdx, k + 1, n)
             /\ inUse' = [inUse EXCEPT ![availableIdx[k]] = 1]
        BY <1>1 DEF BorrowLocked
    <2>2. k = 1 /\ n >= 1
        BY <2>1, <1>0, BorrowTakesFirst
    <2>3. Len(availableIdx') = n - 1
        <3>1. availableIdx' = SubSeq(availableIdx, 2, n) /\ availableIdx \in Seq(Ids)
            BY <2>1, <2>2 DEF TypeOK, PoolTypes
        <3>2. Len(SubSeq(availableIdx, 2, n)) = IF 2 <= n THEN n - 2 + 1 ELSE 0
            <4>1. \A j \in 2 .. n : availableIdx[j] \in Ids
                BY <1>0
            <4>2. 2 \in Int /\ n \in Int
                BY <1>0
            <4> HIDE DEF n
            <4>. QED BY <4>1, <4>2, SubSeqProperties
        <3>3. Len(availableIdx') = IF 2 <= n THEN n - 2 + 1 ELSE 0
            BY <3>1, <3>2, Zenon
        <3> HIDE DEF n
        <3>. QED BY <3>3, <2>2, <1>0
    <2>4. \A j \in 1 .. n - 1 : availableIdx'[j] = availableIdx[j + 1]
        BY <2>1, <2>2, <1>0 DEF TypeOK, PoolTypes
    <2>5. ASSUME NEW j \in 1 .. n - 1, NEW l \in 1 .. n - 1, availableIdx'[j] = availableIdx'[l]
          PROVE  j = l
        BY <2>4, <2>5, <1>0 DEF PoolConsistent
    <2>6. ASSUME NEW i \in Ids
          PROVE  inUse'[i] = 0 <=> \E j \in 1 .. n - 1 : availableIdx'[j] = i
        <3>1. CASE i = availableIdx[1]
            <4>1. inUse'[i] = 1
                BY <2>1, <2>2, <3>1 DEF TypeOK, PoolTypes
            <4>2. \A j \in 1 .. n - 1 : availableIdx[j + 1] # i
                BY <3>1, <2>2, <1>0 DEF PoolConsistent
            <4>3. ~ \E j \in 1 .. n - 1 : availableIdx'[j] = i
                BY <4>2, <2>4
            <4>. QED BY <4>1, <4>3
        <3>2. CASE i # availableIdx[1]
            <4>1. inUse'[i] = inUse[i]
                BY <2>1, <2>2, <3>2 DEF TypeOK, PoolTypes
            <4>2. ASSUME NEW j \in 1 .. n, availableIdx[j] = i
                  PROVE  \E l \in 1 .. n - 1 : availableIdx'[l] = i
                <5>1. j - 1 \in 1 .. n - 1 /\ availableIdx'[j - 1] = i
                    BY <4>2, <3>2, <2>4, <1>0
                <5>. QED BY <5>1
            <4>3. ASSUME NEW l \in 1 .. n - 1, availableIdx'[l] = i
                  PROVE  \E j \in 1 .. n : availableIdx[j] = i
                BY <4>3, <2>4, <1>0
            <4>. QED BY <4>1, <4>2, <4>3 DEF PoolConsistent
        <3>. QED BY <3>1, <3>2
    <2>. QED BY <2>3, <2>5, <2>6 DEF PoolConsistent
<1>2. ASSUME NEW t \in Threads, ReturnLocked(t) PROVE PoolConsistent'
    <2>1. CASE inUse[id[t]] = 0
        BY <1>2, <2>1 DEF ReturnLocked, poolVars, PoolConsistent
    <2>2. CASE inUse[id[t]] # 0
        <3>1. /\ availableIdx' = Append(availableIdx, id[t])
              /\ inUse' = [inUse EXCEPT ![id[t]] = 0]
              /\ id[t] \in Ids
            BY <1>2, <2>2 DEF ReturnLocked, TypeOK, PoolTypes
        <3>2. Len(availableIdx') = n + 1 /\ availableIdx'[n + 1] = id[t]
            BY <3>1 DEF TypeOK, PoolTypes
        <3>3. \A j \in 1 .. n : availableIdx'[j] = availableIdx[j]
            BY <3>1 DEF TypeOK, PoolTypes
        <3>4. \A j \in 1 .. n : availableIdx[j] # id[t]
            BY <2>2, <3>1 DEF PoolConsistent
        <3>5. ASSUME NEW j \in 1 .. n + 1, NEW l \in 1 .. n + 1,
                     availableIdx'[j] = availableIdx'[l]
              PROVE  j = l
            BY <3>5, <3>2, <3>3, <3>4, <1>0 DEF PoolConsistent
        <3>6. ASSUME NEW i \in Ids
              PROVE  inUse'[i] = 0 <=> \E j \in 1 .. n + 1 : availableIdx'[j] = i
            <4>1. CASE i = id[t]
                <5>1. inUse'[i] = 0
                    BY <3>1, <4>1 DEF TypeOK, PoolTypes
                <5>2. n + 1 \in 1 .. n + 1
                    BY <1>0
                <5>. QED BY <5>1, <5>2, <3>2, <4>1
            <4>2. CASE i # id[t]
                <5>1. inUse'[i] = inUse[i]
                    BY <3>1, <4>2 DEF TypeOK, PoolTypes
                <5>2. (\E j \in 1 .. n + 1 : availableIdx'[j] = i)
                        <=> \E j \in 1 .. n : availableIdx[j] = i
                    BY <3>2, <3>3, <4>2, <1>0
                <5>. QED BY <5>1, <5>2 DEF PoolConsistent
            <4>. QED BY <4>1, <4>2
        <3>. QED BY <3>2, <3>5, <3>6 DEF PoolConsistent
    <2>. QED BY <2>1, <2>2
<1>3. CASE UNCHANGED poolVars
    BY <1>3 DEF PoolConsistent, poolVars
<1>4. \/ \E t \in Threads : BorrowLocked(t) \/ ReturnLocked(t)
      \/ UNCHANGED poolVars
    BY DEF Next, OwnedNext, Owned, vars, poolVars, BorrowNothing, CountBorrow, LoadPeak,
           CasPeak, CountReturn, ReturnOwned, ReturnStale, ClearContents, WritePacket, HandOver
<1>. QED BY <1>1, <1>2, <1>3, <1>4

(* The queue of free packets lists each free packet once and nothing else,
   for any number of threads and packets and any pattern of double returns. *)
THEOREM PoolAlwaysConsistent == Spec => []PoolConsistent
<1>1. Init => TypeOK /\ PoolConsistent
    BY TypeInit, ConsistentInit
<1>2. (TypeOK /\ PoolConsistent) /\ [Next]_vars => (TypeOK /\ PoolConsistent)'
    BY TypeStep, ConsistentStep
<1>. QED BY <1>1, <1>2, PTL DEF Spec

-----------------------------------------------------------------------------

(* What a disciplined caller relies on between the clearing of a packet and
   its critical section: the packet is clear, lent, and nobody else's. *)
ReturnInProgress ==
    \A t \in Threads : pc[t] = "lock" =>
        /\ inUse[id[t]] = 1
        /\ id[t] \in clear
        /\ \A u \in Threads : id[t] \notin held[u]
        /\ \A u \in Threads : pc[u] = "lock" /\ id[u] = id[t] => u = t

OwnedInv == OwnersDisjoint /\ FreeIsClear /\ ReturnInProgress

(* Nobody owns a packet at the start, and every packet is clear. *)
LEMMA OwnedInit == Init => OwnedInv
BY DEF Init, OwnedInv, OwnersDisjoint, FreeIsClear, ReturnInProgress

(* Every step of a caller that returns only what it owns keeps the packets
   apart and the free packets clear. *)
LEMMA OwnedStep == TypeOK /\ OwnedInv /\ (OwnedNext \/ UNCHANGED vars) => OwnedInv'
<1> SUFFICES ASSUME TypeOK, OwnedInv, (OwnedNext \/ UNCHANGED vars) PROVE OwnedInv'
    OBVIOUS
<1> USE DEF OwnedInv, OwnersDisjoint, FreeIsClear, ReturnInProgress, Goto
<1>1. ASSUME NEW t \in Threads, BorrowLocked(t) PROVE OwnedInv'
    <2>1. PICK k \in 1 .. Len(availableIdx) :
             /\ StopsAt(k)
             /\ inUse' = [inUse EXCEPT ![availableIdx[k]] = 1]
             /\ id' = [id EXCEPT ![t] = availableIdx[k]]
             /\ held' = [held EXCEPT ![t] = @ \cup {availableIdx[k]}]
        BY <1>1 DEF BorrowLocked
    <2> DEFINE a == availableIdx[k]
    <2>2. a \in Ids /\ inUse[a] = 0
        BY <2>1 DEF TypeOK, PoolTypes, StopsAt
    <2>3. pc' = [pc EXCEPT ![t] = "count"] /\ clear' = clear /\ pc[t] = "idle"
        BY <1>1 DEF BorrowLocked
    <2> HIDE DEF a
    <2>4. OwnersDisjoint'
        BY <2>1, <2>2 DEF TypeOK, PoolTypes, a
    <2>5. FreeIsClear'
        BY <2>1, <2>2, <2>3 DEF TypeOK, PoolTypes, a
    <2>6. ReturnInProgress'
        BY <2>1, <2>2, <2>3 DEF TypeOK, PoolTypes, a
    <2>. QED BY <2>4, <2>5, <2>6
<1>2. ASSUME NEW t \in Threads, ReturnLocked(t) PROVE OwnedInv'
    <2>1. inUse[id[t]] = 1 /\ pc[t] = "lock" /\ id[t] \in Ids
        BY <1>2 DEF ReturnLocked, TypeOK, PoolTypes
    <2>2. /\ inUse' = [inUse EXCEPT ![id[t]] = 0]
          /\ pc' = [pc EXCEPT ![t] = "decrement"]
          /\ UNCHANGED <<clear, id, held>>
        BY <1>2, <2>1 DEF ReturnLocked
    <2>3. OwnersDisjoint'
        BY <2>1, <2>2 DEF TypeOK, PoolTypes
    <2>4. FreeIsClear'
        BY <2>1, <2>2 DEF TypeOK, PoolTypes
    <2>5. ReturnInProgress'
        BY <2>1, <2>2 DEF TypeOK, PoolTypes
    <2>. QED BY <2>3, <2>4, <2>5
<1>3. ASSUME NEW t \in Threads, NEW i \in Ids, ReturnOwned(t, i) PROVE OwnedInv'
    <2>1. /\ pc[t] = "idle" /\ i \in held[t]
          /\ clear' = clear \cup {i}
          /\ id' = [id EXCEPT ![t] = i]
          /\ pc' = [pc EXCEPT ![t] = "lock"]
          /\ held' = [held EXCEPT ![t] = @ \ {i}]
          /\ UNCHANGED inUse
        BY <1>3 DEF ReturnOwned, ClearContents, poolVars
    <2>2. OwnersDisjoint'
        BY <2>1 DEF TypeOK, PoolTypes
    <2>3. FreeIsClear'
        BY <2>1 DEF TypeOK, PoolTypes
    <2>4. ReturnInProgress'
        BY <2>1 DEF TypeOK, PoolTypes
    <2>. QED BY <2>2, <2>3, <2>4
<1>4. ASSUME NEW t \in Threads, NEW i \in Ids, WritePacket(t, i) PROVE OwnedInv'
    BY <1>4 DEF WritePacket, TypeOK, PoolTypes, poolVars, callVars
<1>5. ASSUME NEW t \in Threads, NEW u \in Threads, NEW i \in Ids, HandOver(t, u, i)
      PROVE OwnedInv'
    <2>1. /\ i \in held[t] /\ t # u
          /\ held' = [held EXCEPT ![t] = @ \ {i}, ![u] = @ \cup {i}]
          /\ UNCHANGED <<inUse, clear, pc, id>>
        BY <1>5 DEF HandOver, poolVars, callVars
    <2>2. \A v \in Threads : held'[v] = IF v = t THEN held[t] \ {i}
                                       ELSE IF v = u THEN held[u] \cup {i} ELSE held[v]
        BY <2>1 DEF TypeOK, PoolTypes
    <2>3. OwnersDisjoint'
        <3> SUFFICES ASSUME NEW v \in Threads, NEW j \in held'[v]
                     PROVE  inUse'[j] = 1 /\ \A w \in Threads : j \in held'[w] => w = v
            OBVIOUS
        <3>1. CASE j = i
            <4>1. \A w \in Threads : i \in held[w] => w = t
                BY <2>1
            <4>2. \A w \in Threads : i \in held'[w] => w = u
                BY <2>2, <4>1
            <4>. QED BY <2>1, <3>1, <4>2
        <3>2. CASE j # i
            <4>1. \A w \in Threads : j \in held'[w] => j \in held[w]
                BY <2>2, <3>2
            <4>. QED BY <2>1, <4>1
        <3>. QED BY <3>1, <3>2
    <2>4. FreeIsClear'
        BY <2>1
    <2>5. ReturnInProgress'
        BY <2>1, <2>2 DEF TypeOK, PoolTypes
    <2>. QED BY <2>3, <2>4, <2>5
<1>6. ASSUME NEW t \in Threads,
             CountBorrow(t) \/ LoadPeak(t) \/ CasPeak(t) \/ CountReturn(t)
      PROVE OwnedInv'
    <2>1. UNCHANGED <<inUse, clear, id, held>>
        BY <1>6 DEF CountBorrow, LoadPeak, CasPeak, CountReturn, poolVars
    <2>2. \A u \in Threads : pc'[u] = "lock" => pc[u] = "lock"
        BY <1>6 DEF CountBorrow, LoadPeak, CasPeak, CountReturn, TypeOK, PoolTypes
    <2>. QED BY <2>1, <2>2
<1>7. CASE UNCHANGED vars
    BY <1>7 DEF vars
<1>. QED
    BY <1>1, <1>2, <1>3, <1>4, <1>5, <1>6, <1>7 DEF OwnedNext, Owned, BorrowNothing

(* As long as callers return each packet once they never share a packet, and
   never get one from borrowPacket with left-over contents or flags. *)
THEOREM OwnersNeverShare == Spec => [](ExclusiveOwnership /\ LentClear)
<1> DEFINE Inv == TypeOK /\ (~misused => OwnedInv)
<1>1. Init => Inv
    BY TypeInit, OwnedInit
<1>2. Inv /\ [Next]_vars => Inv'
    <2>1. ASSUME Inv, [Next]_vars, ~misused' PROVE OwnedInv'
        <3>1. ~misused /\ (OwnedNext \/ UNCHANGED vars)
            BY <2>1 DEF Next, vars
        <3>. QED BY <2>1, <3>1, OwnedStep
    <2>. QED BY <2>1, TypeStep
<1>3. Inv => ExclusiveOwnership /\ LentClear
    BY DEF OwnedInv, ExclusiveOwnership, LentClear
<1>. QED BY <1>1, <1>2, <1>3, PTL DEF Spec

=============================================================================
