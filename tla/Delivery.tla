------------------------------ MODULE Delivery ------------------------------
(***************************************************************************)
(* Delivery of private messages: the per-receiver queue with its in-flight *)
(* flag (offlineManager/ManageOffline.cpp), the send completions and the   *)
(* disconnect handling that drive it (network/IOCPManager.cpp), and the    *)
(* part of the session maps that says which socket a user is reached on    *)
(* (session/SessionManager.cpp).                                           *)
(*                                                                         *)
(* A worker thread runs one handler at a time.  A step is one access to    *)
(* state that other workers use: one queue operation, one operation on the *)
(* flag, one critical section, one call to the socket layer.  The queue is *)
(* the FIFO that MpscQueue is shown to implement, with the window in which *)
(* a pushed entry is not linked yet and empty() does not see it.           *)
(***************************************************************************)
EXTENDS Integers, Sequences, FiniteSets

CONSTANTS
    Workers,     \* IOCP worker threads
    Users,       \* users that receive messages
    Sockets,     \* socket handles
    Packets,     \* packets of the pool
    NoUser,      \* the empty string that getUserIdBySocket returns
    NoSocket,    \* no session, or INVALID_SOCKET
    NoPacket,    \* the null pointer
    MaxMessages, \* bound: messages accepted for each user
    MaxIo        \* bound: sends outstanding at a time

ASSUME NullAssumption ==
    NoUser \notin Users /\ NoSocket \notin Sockets /\ NoPacket \notin Packets
ASSUME BoundAssumption == MaxMessages \in Nat /\ MaxIo \in Nat \ {0}

Keys == Users \cup {NoUser}
Ios == 1 .. MaxIo

\* A packet holds no message (it is free), or message n of user "to"; number 0
\* is a message that is not in a queue yet.
NoMsg == [to |-> NoUser, n |-> 0]
Msgs == [to : Keys, n : 0 .. MaxMessages]

NoIo == [st |-> "free", sock |-> NoSocket, pkt |-> NoPacket, key |-> NoUser]

VARIABLES
    queue,     \* queue_per_client[k].queue: entries [pkt, by], by = the worker
               \* that has pushed the entry and not linked it yet, or "linked"
    flag,      \* queue_per_client[k].flag
    clients,   \* the keys of queue_per_client
    sockOf,    \* sessions: the socket of the session of a user
    userOf,    \* socketToUserId
    open,      \* handles that are open
    reset,     \* open handles whose connection the peer has dropped
    disconnectedSockets,
    client,    \* the user who has logged in on the connection, NoUser before
    io,        \* the outstanding overlapped sends
    msg,       \* the message in each packet
    accepted,  \* number of messages queued so far for each user
    received,  \* what each user's connections have been sent, in order
    pc, wp, wk, ws, wr, ret,  \* each worker: place, packet, recvId, socket of the
                          \* completion, socket to send on, caller
    crashed    \* a null pointer has been dereferenced

connVars == <<sockOf, userOf, open, reset, disconnectedSockets, client>>
dataVars == <<msg, accepted, received>>
workVars == <<pc, wp, wk, ws, wr, ret>>
vars == <<queue, flag, clients, connVars, io, dataVars, workVars, crashed>>

Locations == {"idle", "push", "link", "cas", "front", "route", "send", "unflag",
              "notify", "release", "pop", "next", "nextsend", "clear",
              "disc", "lookup", "remove", "close"}

Init ==
    /\ queue = [k \in Keys |-> <<>>]
    /\ flag = [k \in Keys |-> FALSE]
    /\ clients = {}
    /\ sockOf = [u \in Users |-> NoSocket]
    /\ userOf = [s \in Sockets |-> NoUser]
    /\ open = {} /\ reset = {} /\ disconnectedSockets = {}
    /\ client = [s \in Sockets |-> NoUser]
    /\ io = [i \in Ios |-> NoIo]
    /\ msg = [p \in Packets |-> NoMsg]
    /\ accepted = [u \in Users |-> 0]
    /\ received = [u \in Keys |-> <<>>]
    /\ pc = [w \in Workers |-> "idle"]
    /\ wp = [w \in Workers |-> NoPacket]
    /\ wk = [w \in Workers |-> NoUser]
    /\ ws = [w \in Workers |-> NoSocket]
    /\ wr = [w \in Workers |-> NoSocket]
    /\ ret = [w \in Workers |-> "idle"]
    /\ crashed = FALSE

Goto(w, l) == pc' = [pc EXCEPT ![w] = l]

\* The worker goes back to GetQueuedCompletionStatus.
Done(w) ==
    /\ pc' = [pc EXCEPT ![w] = "idle"]
    /\ wp' = [wp EXCEPT ![w] = NoPacket]
    /\ wk' = [wk EXCEPT ![w] = NoUser]
    /\ ws' = [ws EXCEPT ![w] = NoSocket]
    /\ wr' = [wr EXCEPT ![w] = NoSocket]
    /\ ret' = [ret EXCEPT ![w] = "idle"]

\* ManageCompletePacket and notifySend return: to the router, or to the failed
\* completion that still has to disconnect the socket.
Return(w) ==
    IF ret[w] # "disc" THEN Done(w) ELSE Goto(w, "disc") /\ UNCHANGED <<wp, wk, ws, wr, ret>>

Locals == <<wp, wk, ws, wr, ret>>

\* empty(): it does not see an entry that is not linked.
SeesEmpty(k) == queue[k] = <<>> \/ Head(queue[k]).by # "linked"

-----------------------------------------------------------------------------
(* ManageCompletePacket *)

\* A client's private message has been received into a packet of the pool.
Submit(w, u, p) ==
    /\ pc[w] = "idle"
    /\ accepted[u] + Cardinality({v \in Workers : pc[v] = "push" /\ ret[v] = "idle" /\ wk[v] = u})
         < MaxMessages
    /\ msg[p] = NoMsg
    /\ msg' = [msg EXCEPT ![p] = [to |-> u, n |-> 0]]
    /\ wp' = [wp EXCEPT ![w] = p]
    /\ wk' = [wk EXCEPT ![w] = u]
    /\ Goto(w, "push")
    /\ UNCHANGED <<queue, flag, clients, connVars, io, accepted, received, ws, wr, ret, crashed>>

\* queue.push up to the exchange of the head.  The messages of a user are
\* numbered in this order.
Push(w) ==
    LET k == wk[w]
        p == wp[w]
    IN  /\ pc[w] = "push"
        /\ queue' = [queue EXCEPT ![k] = Append(@, [pkt |-> p, by |-> w])]
        /\ IF ret[w] = "idle"
             THEN /\ accepted' = [accepted EXCEPT ![k] = @ + 1]
                  /\ msg' = [msg EXCEPT ![p].n = accepted[k] + 1]
             ELSE UNCHANGED <<accepted, msg>>
        /\ Goto(w, "link")
        /\ clients' = clients \cup {k}
        /\ UNCHANGED <<flag, connVars, io, received, Locals, crashed>>

\* queue.push links the new node.
Link(w) ==
    /\ pc[w] = "link"
    /\ queue' = [queue EXCEPT ![wk[w]] =
         [j \in DOMAIN @ |-> IF @[j].by = w THEN [@[j] EXCEPT !.by = "linked"] ELSE @[j]]]
    /\ Goto(w, "cas")
    /\ UNCHANGED <<flag, clients, connVars, io, dataVars, Locals, crashed>>


\* flag.compare_exchange_strong(false, true): the winner owns the send slot.
Cas(w) ==
    /\ pc[w] = "cas"
    /\ IF flag[wk[w]]
         THEN Return(w) /\ UNCHANGED flag
         ELSE /\ flag' = [flag EXCEPT ![wk[w]] = TRUE]
              /\ Goto(w, "front")
              /\ UNCHANGED Locals
    /\ UNCHANGED <<queue, clients, connVars, io, dataVars, crashed>>

\* Faulty variant of Front: the packet of the call is sent, not the front.
FrontIsOwn(w) ==
    /\ pc[w] = "front"
    /\ IF wp[w] = NoPacket /\ ~SeesEmpty(wk[w])
         THEN wp' = [wp EXCEPT ![w] = Head(queue[wk[w]]).pkt]
         ELSE UNCHANGED wp
    /\ Goto(w, "route")
    /\ UNCHANGED <<queue, flag, clients, connVars, io, dataVars, wk, ws, wr, ret, crashed>>

\* queue.front(): it waits for an entry that is not linked, and returns a
\* default WorkItem, whose packet is null, when the queue is empty.
Front(w) ==
    LET k == wk[w]
    IN  /\ pc[w] = "front"
        /\ \/ /\ queue[k] = <<>>
              /\ wp' = [wp EXCEPT ![w] = NoPacket]
           \/ /\ ~SeesEmpty(k)
              /\ wp' = [wp EXCEPT ![w] = Head(queue[k]).pkt]
        /\ Goto(w, "route")
        /\ UNCHANGED <<queue, flag, clients, connVars, io, dataVars, wk, ws, wr, ret, crashed>>

\* routePacket up to findSession.
Route(w) ==
    LET found == wk[w] \in Users /\ sockOf[wk[w]] # NoSocket
    IN  /\ pc[w] = "route"
        /\ IF found
             THEN wr' = [wr EXCEPT ![w] = sockOf[wk[w]]] /\ Goto(w, "send")
             ELSE UNCHANGED wr /\ Goto(w, "unflag")
        /\ UNCHANGED <<queue, flag, clients, connVars, io, dataVars, wp, wk, ws, ret, crashed>>

\* initiateSend on socket s posts the send.
Posted(w, s) ==
    /\ wp[w] # NoPacket
    /\ s \in open
    /\ \E i \in Ios :
         /\ io[i] = NoIo
         /\ \A j \in 1 .. i - 1 : io[j] # NoIo
         /\ io' = [io EXCEPT ![i] = [st |-> "pending", sock |-> s, pkt |-> wp[w], key |-> wk[w]]]
    /\ UNCHANGED crashed

\* initiateSend is called with a null packet.
NullSend(w) ==
    /\ wp[w] = NoPacket
    /\ crashed' = TRUE
    /\ UNCHANGED io

\* receiver->sendPacket(packet, receiver->socket): a session that has been
\* returned to its pool since it was found has no socket.
Send(w) ==
    /\ pc[w] = "send"
    /\ \/ (Posted(w, IF sockOf[wk[w]] = wr[w] THEN wr[w] ELSE NoSocket) \/ NullSend(w)) /\ Return(w)
       \/ /\ wp[w] # NoPacket
          /\ sockOf[wk[w]] # wr[w] \/ wr[w] \notin open \ reset
          /\ Goto(w, "unflag")
          /\ UNCHANGED <<Locals, io, crashed>>
    /\ UNCHANGED <<queue, flag, clients, connVars, dataVars>>

\* Faulty variant of Unflag: the store is forgotten.
UnflagForgotten(w) ==
    /\ pc[w] = "unflag"
    /\ Return(w)
    /\ UNCHANGED <<queue, flag, clients, connVars, io, dataVars, crashed>>

\* flag.store(false): the slot is given up.
Unflag(w) ==
    /\ pc[w] = "unflag"
    /\ flag' = [flag EXCEPT ![wk[w]] = FALSE]
    /\ Return(w)
    /\ UNCHANGED <<queue, clients, connVars, io, dataVars, crashed>>

-----------------------------------------------------------------------------
(* notifySend *)

\* notifySend goes on to the exchange of the flag when the queue is not empty.
Notify(w) ==
    /\ pc[w] = "notify"
    /\ IF SeesEmpty(wk[w]) THEN Done(w) ELSE Goto(w, "cas") /\ UNCHANGED Locals
    /\ UNCHANGED <<queue, flag, clients, connVars, io, dataVars, crashed>>

-----------------------------------------------------------------------------
(* The socket layer *)

Peer(i) == client[io[i].sock]

\* The last bytes of a send reach the connection.
Transmit(i) ==
    /\ io[i].st = "pending"
    /\ io[i].sock \in open \ reset
    /\ io' = [io EXCEPT ![i].st = "done"]
    /\ received' = [received EXCEPT ![Peer(i)] = Append(@, msg[io[i].pkt])]
    /\ UNCHANGED <<queue, flag, clients, connVars, msg, accepted, workVars, crashed>>

\* Some bytes of a send reach the connection.
TransmitPart(i) ==
    /\ io[i].st = "pending"
    /\ io[i].sock \in open \ reset
    /\ io' = [io EXCEPT ![i].st = "partial"]
    /\ UNCHANGED <<queue, flag, clients, connVars, dataVars, workVars, crashed>>

\* The peer drops the connection.
Reset(s) ==
    /\ s \in open \ reset
    /\ reset' = reset \cup {s}
    /\ UNCHANGED <<queue, flag, clients, sockOf, userOf, open, disconnectedSockets, client, io, dataVars, workVars, crashed>>

\* A send on a dropped connection fails.
SendFails(i) ==
    /\ io[i].st = "pending"
    /\ io[i].sock \in reset
    /\ io' = [io EXCEPT ![i].st = "failed"]
    /\ UNCHANGED <<queue, flag, clients, connVars, dataVars, workVars, crashed>>

\* closesocket(s): the sends outstanding on it are aborted.
Aborted(s) ==
    [i \in Ios |-> IF io[i].sock = s /\ io[i].st = "pending"
                     THEN [io[i] EXCEPT !.st = "failed"] ELSE io[i]]

-----------------------------------------------------------------------------
(* workerThread: completions of sends *)

\* A send has been completed in full: the packet goes back to the pool.
CompleteSent(w, i) ==
    /\ pc[w] = "idle"
    /\ io[i].st = "done"
    /\ wk' = [wk EXCEPT ![w] = userOf[io[i].sock]]
    /\ ws' = [ws EXCEPT ![w] = io[i].sock]
    /\ wp' = [wp EXCEPT ![w] = io[i].pkt]
    /\ io' = [io EXCEPT ![i] = NoIo]
    /\ Goto(w, "release")
    /\ UNCHANGED <<queue, flag, clients, connVars, dataVars, wr, ret, crashed>>

\* returnPacket(sentPacket)
Release(w) ==
    /\ pc[w] = "release"
    /\ msg' = [msg EXCEPT ![wp[w]] = NoMsg]
    /\ wp' = [wp EXCEPT ![w] = NoPacket]
    /\ Goto(w, "pop")
    /\ UNCHANGED <<queue, flag, clients, connVars, io, accepted, received, wk, ws, wr, ret, crashed>>


\* drainNext finds the queue of the user and pops the entry that has been sent.
DrainPop(w) ==
    /\ pc[w] = "pop"
    /\ IF wk[w] \in clients
         THEN /\ queue' = [queue EXCEPT ![wk[w]] = IF SeesEmpty(wk[w]) THEN @ ELSE Tail(@)]
              /\ Goto(w, "next")
              /\ UNCHANGED Locals
         ELSE Done(w) /\ UNCHANGED queue
    /\ UNCHANGED <<flag, clients, connVars, io, dataVars, crashed>>

\* drainNext looks for a next entry.
DrainCheck(w) ==
    /\ pc[w] = "next"
    /\ IF SeesEmpty(wk[w])
         THEN Goto(w, "unflag") /\ UNCHANGED wp
         ELSE Goto(w, "nextsend") /\ wp' = [wp EXCEPT ![w] = Head(queue[wk[w]]).pkt]
    /\ UNCHANGED <<queue, flag, clients, connVars, io, dataVars, wk, ws, wr, ret, crashed>>

\* drainNext sends it on the socket of the completion.
DrainSend(w) ==
    /\ pc[w] = "nextsend"
    /\ \/ Posted(w, ws[w]) /\ Return(w)
       \/ /\ ws[w] \notin open \ reset
          /\ Goto(w, "unflag")
          /\ UNCHANGED <<Locals, io, crashed>>
    /\ UNCHANGED <<queue, flag, clients, connVars, dataVars>>

\* A send has failed: the packet is queued again for the user that the socket
\* belongs to now.
CompleteFailed(w, i) ==
    /\ pc[w] = "idle"
    /\ io[i].st = "failed"
    /\ wk' = [wk EXCEPT ![w] = userOf[io[i].sock]]
    /\ ws' = [ws EXCEPT ![w] = io[i].sock]
    /\ wp' = [wp EXCEPT ![w] = io[i].pkt]
    /\ ret' = [ret EXCEPT ![w] = "disc"]
    /\ io' = [io EXCEPT ![i] = NoIo]
    /\ Goto(w, "push")
    /\ UNCHANGED <<queue, flag, clients, connVars, dataVars, wr, crashed>>

\* A part has been sent: the rest is posted, or the flag is to be cleared.
CompletePartial(w, i) ==
    LET s == io[i].sock
    IN  /\ pc[w] = "idle"
        /\ io[i].st = "partial"
        /\ \/ /\ s \in open
              /\ io' = [io EXCEPT ![i].st = "pending"]
              /\ UNCHANGED workVars
           \/ /\ s \notin open \ reset
              /\ io' = [io EXCEPT ![i] = NoIo]
              /\ wk' = [wk EXCEPT ![w] = userOf[s]]
              /\ ws' = [ws EXCEPT ![w] = s]
              /\ Goto(w, "clear")
              /\ UNCHANGED <<wp, wr, ret>>
        /\ UNCHANGED <<queue, flag, clients, connVars, dataVars, crashed>>

\* clearFlag(recvId)
ClearFlag(w) ==
    /\ pc[w] = "clear"
    /\ flag' = [flag EXCEPT ![wk[w]] = FALSE]
    /\ Goto(w, "disc")
    /\ UNCHANGED <<queue, clients, connVars, io, dataVars, Locals, crashed>>

-----------------------------------------------------------------------------
(* Connections and sessions *)

\* The one receive of a connection is being handled: the next one is posted
\* when its handler is done.
RecvBusy(s) == \E w \in Workers : ret[w] = "recv" /\ ws[w] = s

\* acceptLoop: a handle is given to a new connection.
Accept(s) ==
    /\ s \notin open
    /\ open' = open \cup {s}
    /\ disconnectedSockets' = disconnectedSockets \ {s}
    /\ client' = [client EXCEPT ![s] = NoUser]
    /\ UNCHANGED <<queue, flag, clients, sockOf, userOf, reset, io, dataVars, workVars, crashed>>

\* A login on a connection without a user: updateNewId disconnects the user's
\* other connection, if any, and notifySend follows.
Login(w, u, s) ==
    LET old == sockOf[u]
        kick == old \notin {NoSocket, s} /\ old \notin disconnectedSockets
    IN  /\ pc[w] = "idle"
        /\ s \in open /\ ~RecvBusy(s)
        /\ userOf[s] = NoUser
        /\ userOf' = [x \in Sockets |-> IF x = s THEN u ELSE IF x = old THEN NoUser ELSE userOf[x]]
        /\ sockOf' = [sockOf EXCEPT ![u] = s]
        /\ client' = [client EXCEPT ![s] = u]
        /\ IF kick
             THEN /\ disconnectedSockets' = disconnectedSockets \cup {old}
                  /\ open' = open \ {old}
                  /\ reset' = reset \ {old}
                  /\ io' = Aborted(old)
             ELSE UNCHANGED <<disconnectedSockets, open, reset, io>>
        /\ wk' = [wk EXCEPT ![w] = u]
        /\ ws' = [ws EXCEPT ![w] = s]
        /\ ret' = [ret EXCEPT ![w] = "recv"]
        /\ Goto(w, "notify")
        /\ UNCHANGED <<queue, flag, clients, dataVars, wp, wr, crashed>>

\* A login on a connection that is the user's already.
LoginAgain(w, u, s) ==
    /\ pc[w] = "idle"
    /\ s \in open /\ ~RecvBusy(s)
    /\ userOf[s] = u
    /\ wk' = [wk EXCEPT ![w] = u]
    /\ ws' = [ws EXCEPT ![w] = s]
    /\ ret' = [ret EXCEPT ![w] = "recv"]
    /\ Goto(w, "notify")
    /\ UNCHANGED <<queue, flag, clients, connVars, io, dataVars, wp, wr, crashed>>

\* What removeSession(u) leaves of the two maps.
RemoveSession(u) ==
    /\ sockOf' = [sockOf EXCEPT ![u] = NoSocket]
    /\ userOf' = [x \in Sockets |-> IF x = sockOf[u] THEN NoUser ELSE userOf[x]]

\* handlePacket for a logout: the connection stays open.
Logout(s) ==
    /\ s \in open /\ ~RecvBusy(s)
    /\ userOf[s] # NoUser
    /\ RemoveSession(userOf[s])
    /\ UNCHANGED <<queue, flag, clients, open, reset, disconnectedSockets, client, io, dataVars, workVars, crashed>>

\* The pending receive of a dropped connection fails.
RecvFails(w, s) ==
    /\ pc[w] = "idle"
    /\ s \in reset /\ ~RecvBusy(s)
    /\ s \notin disconnectedSockets
    /\ ws' = [ws EXCEPT ![w] = s]
    /\ ret' = [ret EXCEPT ![w] = "recv"]
    /\ Goto(w, "disc")
    /\ UNCHANGED <<queue, flag, clients, connVars, io, dataVars, wp, wk, wr, crashed>>

\* handleDisconnect: the one-shot guard.
Disconnect(w) ==
    /\ pc[w] = "disc"
    /\ IF ws[w] \in disconnectedSockets
         THEN Done(w) /\ UNCHANGED disconnectedSockets
         ELSE /\ disconnectedSockets' = disconnectedSockets \cup {ws[w]}
              /\ Goto(w, "lookup")
              /\ UNCHANGED Locals
    /\ UNCHANGED <<queue, flag, clients, sockOf, userOf, open, reset, client, io, dataVars, crashed>>

\* handleDisconnect: getUserIdBySocket
DisconnectLookup(w) ==
    /\ pc[w] = "lookup"
    /\ wk' = [wk EXCEPT ![w] = userOf[ws[w]]]
    /\ Goto(w, IF userOf[ws[w]] = NoUser THEN "close" ELSE "remove")
    /\ UNCHANGED <<queue, flag, clients, connVars, io, dataVars, wp, ws, wr, ret, crashed>>

\* handleDisconnect: removeSession
DisconnectRemove(w) ==
    /\ pc[w] = "remove"
    /\ RemoveSession(wk[w])
    /\ Goto(w, "close")
    /\ UNCHANGED <<queue, flag, clients, open, reset, disconnectedSockets, client, io, dataVars, Locals, crashed>>


\* handleDisconnect: closesocket
DisconnectClose(w) ==
    /\ pc[w] = "close"
    /\ open' = open \ {ws[w]}
    /\ reset' = reset \ {ws[w]}
    /\ io' = Aborted(ws[w])
    /\ Done(w)
    /\ UNCHANGED <<queue, flag, clients, sockOf, userOf, disconnectedSockets, client, dataVars, crashed>>

-----------------------------------------------------------------------------
(* Specifications *)

\* The steps of a handler that has been started.
Continue(w) ==
    \/ Push(w) \/ Link(w) \/ Cas(w) \/ Front(w) \/ Route(w) \/ Send(w) \/ Unflag(w)
    \/ Notify(w)
    \/ Release(w) \/ DrainPop(w) \/ DrainCheck(w) \/ DrainSend(w) \/ ClearFlag(w)
    \/ Disconnect(w) \/ DisconnectLookup(w) \/ DisconnectRemove(w) \/ DisconnectClose(w)

\* A worker takes the completion of a send.
TakeSent(w) == \E i \in Ios : CompleteSent(w, i) \/ CompletePartial(w, i)

\* A handle that no connection has had.
Fresh(s) == client[s] = NoUser /\ s \notin disconnectedSockets

Traffic ==
    \/ \E w \in Workers : Continue(w) \/ TakeSent(w)
    \/ \E w \in Workers, u \in Users, p \in Packets : Submit(w, u, p)
    \/ \E i \in Ios : Transmit(i) \/ TransmitPart(i)
    \/ \E s \in Sockets : Fresh(s) /\ Accept(s)
    \/ \E w \in Workers, u \in Users, s \in Sockets : LoginAgain(w, u, s)

\* Every user connects once and stays connected.
StableNext ==
    /\ ~crashed
    /\ \/ Traffic
       \/ \E w \in Workers, u \in Users, s \in Sockets :
             sockOf[u] = NoSocket /\ client[s] = NoUser /\ Login(w, u, s)

Drops ==
    \/ \E s \in Sockets : Reset(s) \/ Logout(s)
    \/ \E i \in Ios : SendFails(i)
    \/ \E w \in Workers, i \in Ios : CompleteFailed(w, i)
    \/ \E w \in Workers, s \in Sockets : RecvFails(w, s)

\* Connections come and go; no handle is given out twice, and nobody logs in
\* on a connection again after a logout.
CalmNext ==
    /\ ~crashed
    /\ \/ Traffic \/ Drops
       \/ \E w \in Workers, u \in Users, s \in Sockets :
             client[s] = NoUser /\ Login(w, u, s)

StableSpec == Init /\ [][StableNext]_vars
CalmSpec == Init /\ [][CalmNext]_vars

\* A worker that has started a handler goes on, the completion port hands out
\* completions in order, and connections that stay up take what they are sent.
Fairness ==
    /\ \A w \in Workers : WF_vars(~crashed /\ Continue(w))
    /\ \A i \in Ios :
         /\ SF_vars(~crashed /\ \E w \in Workers :
                      CompleteSent(w, i) \/ CompletePartial(w, i) \/ CompleteFailed(w, i))
         /\ SF_vars(~crashed /\ Transmit(i))
         /\ WF_vars(~crashed /\ SendFails(i))
    /\ \A s \in Sockets : WF_vars(~crashed /\ \E w \in Workers : RecvFails(w, s))

StableFairSpec == StableSpec /\ Fairness
CalmFairSpec == CalmSpec /\ Fairness

-----------------------------------------------------------------------------
(* Properties *)

Entries == [pkt : Packets, by : Workers \cup {"linked"}]
IoTypes == {NoIo} \cup [st : {"pending", "partial", "done", "failed"},
                        sock : Sockets, pkt : Packets, key : Keys]

\* Types of the queues, the flags, the completions in flight and the state of
\* every worker.
TypeOK ==
    /\ queue \in [Keys -> Seq(Entries)]
    /\ flag \in [Keys -> BOOLEAN]
    /\ clients \in SUBSET Keys
    /\ sockOf \in [Users -> Sockets \cup {NoSocket}]
    /\ userOf \in [Sockets -> Keys]
    /\ open \in SUBSET Sockets /\ reset \in SUBSET open
    /\ disconnectedSockets \in SUBSET Sockets
    /\ client \in [Sockets -> Keys]
    /\ io \in [Ios -> IoTypes]
    /\ msg \in [Packets -> Msgs]
    /\ accepted \in [Users -> 0 .. MaxMessages]
    /\ received \in [Keys -> Seq(Msgs)]
    /\ pc \in [Workers -> Locations]
    /\ wp \in [Workers -> Packets \cup {NoPacket}]
    /\ wk \in [Workers -> Keys]
    /\ ws \in [Workers -> Sockets \cup {NoSocket}]
    /\ wr \in [Workers -> Sockets \cup {NoSocket}]
    /\ ret \in [Workers -> {"idle", "recv", "disc"}]
    /\ crashed \in BOOLEAN

\* The workers and the sends that have the send slot of a user.
SlotLocations == {"front", "route", "send", "unflag", "release", "pop", "next", "nextsend", "clear"}
SlotWorkers(u) == {w \in Workers : wk[w] = u /\ pc[w] \in SlotLocations}
SlotSends(u) == {i \in Ios : io[i].key = u /\ io[i].st # "free"}


\* A send in flight for a user reads the packet at the front of the user's
\* queue, and that packet still holds a message for that user: it has neither
\* been popped nor returned to the pool and lent again.
InFlightIsFront ==
    \A u \in Users : \A i \in SlotSends(u) :
        /\ queue[u] # <<>>
        /\ Head(queue[u]).pkt = io[i].pkt
        /\ msg[io[i].pkt].to = u


\* A send slot that is taken is released or the process is gone: no handler
\* keeps the flag for ever while connections stay up.
SlotReleased == \A u \in Users : flag[u] ~> (~flag[u] \/ crashed)

\* The comment at the end of ManageCompletePacket: a message queued while
\* another has the send slot is picked up by drainNext.  Stated for a user who
\* has already been sent all earlier messages, so is connected.
DrainPicksUp ==
    \A u \in Users : \A n \in 2 .. MaxMessages :
        accepted[u] = n /\ Len(received[u]) = n - 1 ~> (Len(received[u]) >= n \/ crashed)

\* The comment on clearFlag: when a send fails due to a disconnect the flag is
\* cleared, so that the packet can be sent later.
FailureClearsFlag ==
    \A u \in Users : \A i \in Ios :
        io[i].st = "failed" /\ io[i].key = u ~> (~flag[u] \/ crashed)
=============================================================================
