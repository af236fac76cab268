------------------------------ MODULE Sessions ------------------------------
(***************************************************************************)
(* Connections and sessions: the maps of session/SessionManager.cpp, the   *)
(* pool of Session objects (pool/SessionPool.cpp), and the handlers that   *)
(* use them: accept, a received batch of packets, a login, a logout and a  *)
(* disconnect (network/IOCPManager.cpp, chat/MessageRouter.cpp).           *)
(*                                                                         *)
(* A step of a worker is one critical section of the maps or of the pool,  *)
(* or one use of a Session between them.  A handle may be given to a new   *)
(* connection as soon as it is closed.  Three races of the code are        *)
(* recorded in "raced" and end the behaviour: a handler that goes on with  *)
(* a Session that was returned to the pool under it, a disconnect that     *)
(* removes an id whose entry has changed since it was looked up, and a     *)
(* registration on a connection that is being closed.                      *)
(***************************************************************************)
EXTENDS Integers, Sequences, FiniteSets

CONSTANTS
    Workers,   \* IOCP worker threads
    Sockets,   \* socket handles; std::to_string(s) + "id" is written s
    Users,     \* user ids
    Slots,     \* Session objects
    NoSocket,  \* INVALID_SOCKET
    NoId,      \* the empty string, and no entry in socketToUserId
    NoSlot     \* nullptr, and no entry in sessions

ASSUME SessionNullAssumption ==
    NoSocket \notin Sockets /\ NoId \notin Sockets \cup Users /\ NoSlot \notin Slots

Ids == Sockets \cup Users \cup {NoId}

VARIABLES
    open,                 \* handles in use
    disconnectedSockets,
    recv,                 \* connections with a posted receive
    aborted,              \* handles closed with a receive posted on them, whose
                          \* failed completion is still to come
    sessions, socketToUserId,
    pool,                 \* the Sessions the pool was built with
    freeIndices,          \* the free ones, in the order they will be lent
    slot,                 \* each Session: socket, userId, auth (cached_user_id of
                          \* an authenticated session, else NoId), updated
    pc, ws, wx, wid, wu,  \* each worker: place, socket, Session, id, user
    who,                  \* the users that have logged in on a connection
    raced                 \* one of the races has happened

connVars == <<open, disconnectedSockets, recv, aborted>>
mapVars == <<sessions, socketToUserId, freeIndices, slot>>
workVars == <<pc, ws, wx, wid, wu>>
vars == <<connVars, mapVars, workVars, pool, who, raced>>

NewSlot == [socket |-> NoSocket, userId |-> NoId, auth |-> NoId, updated |-> FALSE]

Init ==
    /\ open = {} /\ disconnectedSockets = {} /\ recv = {} /\ aborted = {}
    /\ sessions = [i \in Ids |-> NoSlot]
    /\ socketToUserId = [s \in Sockets \cup {NoSocket} |-> NoId]
    /\ pool \in SUBSET Slots \ {{}}
    /\ freeIndices \in {q \in [1 .. Cardinality(pool) -> pool] :
                          \A j, k \in DOMAIN q : q[j] = q[k] => j = k}
    /\ slot = [x \in Slots |-> NewSlot]
    /\ pc = [w \in Workers |-> "idle"]
    /\ ws = [w \in Workers |-> NoSocket]
    /\ wx = [w \in Workers |-> NoSlot]
    /\ wid = [w \in Workers |-> NoId]
    /\ wu = [w \in Workers |-> NoId]
    /\ who = [s \in Sockets |-> {}]
    /\ raced = FALSE

At(w, l) == pc[w] = l /\ ~raced
Goto(w, l) == pc' = [pc EXCEPT ![w] = l]

Done(w) ==
    /\ Goto(w, "idle")
    /\ ws' = [ws EXCEPT ![w] = NoSocket]
    /\ wx' = [wx EXCEPT ![w] = NoSlot]
    /\ wid' = [wid EXCEPT ![w] = NoId]
    /\ wu' = [wu EXCEPT ![w] = NoId]

\* A handler begins on socket s.
Begin(w, s, l) ==
    /\ At(w, "idle")
    /\ Goto(w, l)
    /\ ws' = [ws EXCEPT ![w] = s]
    /\ UNCHANGED <<wx, wid, wu>>

Range(q) == {q[k] : k \in DOMAIN q}

\* The three races.
StaleSession(w) == slot[wx[w]].socket # ws[w]
StaleLookup(w, i) == \E v \in Workers \ {w} : pc[v] = "remove" /\ wid[v] = i
Closing(w) == ws[w] \in disconnectedSockets

-----------------------------------------------------------------------------
(* The session maps and the pool *)

ReturnedOnlySocket(x) == [slot EXCEPT ![x].socket = NoSocket, ![x].userId = NoId]

\* returnSession, as an update of the slots: "updated" stays as it is.
Returned(x) == [slot EXCEPT ![x] = [NewSlot EXCEPT !.updated = slot[x].updated]]

RemoveReturnsTwice(i) ==
    LET x == sessions[i]
    IN  IF x = NoSlot THEN UNCHANGED mapVars
        ELSE /\ socketToUserId' = [socketToUserId EXCEPT ![slot[x].socket] = NoId]
             /\ slot' = Returned(x)
             /\ freeIndices' = freeIndices \o <<x, x>>
             /\ sessions' = [sessions EXCEPT ![i] = NoSlot]

RemoveWithoutReturn(i) ==
    LET x == sessions[i]
    IN  IF x = NoSlot THEN UNCHANGED mapVars
        ELSE /\ socketToUserId' = [socketToUserId EXCEPT ![slot[x].socket] = NoId]
             /\ sessions' = [sessions EXCEPT ![i] = NoSlot]
             /\ UNCHANGED <<slot, freeIndices>>

RemoveSession(i) ==
    LET x == sessions[i]
    IN  IF x = NoSlot THEN UNCHANGED mapVars
        ELSE /\ socketToUserId' = [socketToUserId EXCEPT ![slot[x].socket] = NoId]
             /\ slot' = Returned(x)
             /\ freeIndices' = Append(freeIndices, x)
             /\ sessions' = [sessions EXCEPT ![i] = NoSlot]

\* updateNewId has found an older session of the same user on another socket.
Displaces(x) ==
    LET y == sessions[slot[x].userId]
    IN  y # NoSlot /\ slot[y].socket # slot[x].socket

Registered(x, old) ==
    [i \in Ids |-> CASE i = slot[x].userId -> x
                     [] i = old /\ i # slot[x].userId -> NoSlot
                     [] OTHER -> sessions[i]]

Close(s) ==
    /\ open' = open \ {s}
    /\ recv' = recv \ {s}
    /\ aborted' = aborted \cup (recv \cap {s})

\* HandleDisconnectWithoutLock closes the older connection.
CloseDisplaced(s) ==
    IF s \in disconnectedSockets THEN UNCHANGED connVars
    ELSE Close(s) /\ disconnectedSockets' = disconnectedSockets \cup {s}

UpdateNewIdForgetsOld(w) ==
    LET x == wx[w]
    IN  /\ sessions' = Registered(x, NoId)
        /\ socketToUserId' = [socketToUserId EXCEPT ![slot[x].socket] = slot[x].userId]
        /\ slot' = [slot EXCEPT ![x].updated = TRUE]
        /\ UNCHANGED <<freeIndices, connVars>>

UpdateNewId(w) ==
    LET x == wx[w]
        u == slot[x].userId
        y == sessions[u]
    IN  /\ sessions' = Registered(x, wid[w])
        /\ IF Displaces(x)
             THEN /\ CloseDisplaced(slot[y].socket)
                  /\ socketToUserId' = [socketToUserId EXCEPT ![slot[y].socket] = NoId,
                                                              ![slot[x].socket] = u]
                  /\ slot' = [Returned(y) EXCEPT ![x].updated = TRUE]
                  /\ freeIndices' = Append(freeIndices, y)
             ELSE /\ socketToUserId' = [socketToUserId EXCEPT ![slot[x].socket] = u]
                  /\ slot' = [slot EXCEPT ![x].updated = TRUE]
                  /\ UNCHANGED <<freeIndices, connVars>>

-----------------------------------------------------------------------------
(* acceptLoop *)

\* A handle that a worker still has in its hands is one of the races as well.
Accept(s) ==
    /\ s \notin open /\ ~raced
    /\ open' = open \cup {s}
    /\ disconnectedSockets' = disconnectedSockets \ {s}
    /\ recv' = recv \cup {s}
    /\ who' = [who EXCEPT ![s] = {}]
    /\ raced' = \E w \in Workers : ws[w] = s
    /\ UNCHANGED <<aborted, mapVars, workVars, pool>>

-----------------------------------------------------------------------------
(* A received batch: workerThread *)

Receive(w, s) ==
    /\ s \in recv
    /\ Begin(w, s, "find")
    /\ recv' = recv \ {s}
    /\ UNCHANGED <<open, disconnectedSockets, aborted, mapVars, who, raced, pool>>

\* findBySocket.  The buffer of a connection that is closed is gone already.
Find(w) ==
    LET i == socketToUserId[ws[w]]
        x == IF i = NoId THEN NoSlot ELSE sessions[i]
    IN  /\ At(w, "find")
        /\ IF ws[w] \notin open
             THEN Goto(w, "disc") /\ UNCHANGED wx
             ELSE /\ wx' = [wx EXCEPT ![w] = x]
                  /\ Goto(w, IF x = NoSlot THEN "borrow" ELSE "handle")
        /\ UNCHANGED <<connVars, mapVars, ws, wid, wu, who, raced, pool>>

BorrowSession(w) ==
    LET x == Head(freeIndices)
    IN  /\ At(w, "borrow")
        /\ freeIndices # <<>>
        /\ freeIndices' = Tail(freeIndices)
        /\ slot' = [slot EXCEPT ![x].socket = ws[w], ![x].userId = ws[w]]
        /\ wx' = [wx EXCEPT ![w] = x]
        /\ Goto(w, "add")
        /\ UNCHANGED <<connVars, sessions, socketToUserId, ws, wid, wu, who, raced, pool>>

BorrowNothing(w) ==
    /\ At(w, "borrow")
    /\ freeIndices = <<>>
    /\ Goto(w, "disc")
    /\ UNCHANGED <<connVars, mapVars, ws, wx, wid, wu, who, raced, pool>>

AddSession(w) ==
    LET s == ws[w]
    IN  /\ At(w, "add")
        /\ sessions' = [sessions EXCEPT ![s] = wx[w]]
        /\ socketToUserId' = [socketToUserId EXCEPT ![s] = s]
        /\ raced' = (Closing(w) \/ StaleLookup(w, s))
        /\ Goto(w, "handle")
        /\ UNCHANGED <<connVars, freeIndices, slot, ws, wx, wid, wu, who, pool>>

\* PKT_LOGIN, PKT_TOKEN or PKT_REFRESH: the router notes the id the session had.
HandleLogin(w, u) ==
    /\ At(w, "handle")
    /\ wid' = [wid EXCEPT ![w] = slot[wx[w]].userId]
    /\ wu' = [wu EXCEPT ![w] = u]
    /\ raced' = StaleSession(w)
    /\ Goto(w, "login")
    /\ UNCHANGED <<connVars, mapVars, ws, wx, who, pool>>

LoginFails(w) ==
    /\ At(w, "login")
    /\ Goto(w, "handle")
    /\ wid' = [wid EXCEPT ![w] = NoId]
    /\ wu' = [wu EXCEPT ![w] = NoId]
    /\ UNCHANGED <<connVars, mapVars, ws, wx, who, raced, pool>>

\* CacheAuthOnSession; the router then looks at "updated".
CacheAuthOnSession(w) ==
    LET x == wx[w]
    IN  /\ At(w, "login")
        /\ slot' = [slot EXCEPT ![x].auth = wu[w], ![x].userId = wu[w]]
        /\ who' = [who EXCEPT ![ws[w]] = @ \cup {wu[w]}]
        /\ raced' = StaleSession(w)
        /\ IF slot[x].updated
             THEN Goto(w, "handle") /\ wid' = [wid EXCEPT ![w] = NoId]
             ELSE Goto(w, "update") /\ UNCHANGED wid
        /\ wu' = [wu EXCEPT ![w] = NoId]
        /\ UNCHANGED <<connVars, sessions, socketToUserId, freeIndices, ws, wx, pool>>

Update(w) ==
    /\ At(w, "update")
    /\ UpdateNewId(w)
    /\ raced' = (StaleSession(w) \/ Closing(w) \/ StaleLookup(w, slot[wx[w]].userId))
    /\ Goto(w, "handle")
    /\ wid' = [wid EXCEPT ![w] = NoId]
    /\ UNCHANGED <<ws, wx, wu, who, pool>>

\* A refresh token that is refused takes the authentication away.
RefreshRejected(w) ==
    /\ At(w, "login")
    /\ slot' = [slot EXCEPT ![wx[w]].auth = NoId]
    /\ raced' = StaleSession(w)
    /\ Goto(w, "handle")
    /\ wid' = [wid EXCEPT ![w] = NoId]
    /\ wu' = [wu EXCEPT ![w] = NoId]
    /\ UNCHANGED <<connVars, sessions, socketToUserId, freeIndices, ws, wx, who, pool>>

\* PKT_LOGOUT of an authenticated session.  The rest of the batch is handled
\* with the same Session pointer.
Logout(w) ==
    /\ At(w, "handle")
    /\ slot[wx[w]].auth # NoId
    /\ RemoveSession(slot[wx[w]].userId)
    /\ raced' = (StaleSession(w) \/ StaleLookup(w, slot[wx[w]].userId))
    /\ UNCHANGED <<connVars, workVars, who, pool>>

\* The batch is done: postRecv, which fails on a closed handle.
PostRecv(w) ==
    /\ At(w, "handle")
    /\ IF ws[w] \in open
         THEN recv' = recv \cup {ws[w]} /\ Done(w)
         ELSE Goto(w, "disc") /\ UNCHANGED <<recv, ws, wx, wid, wu>>
    /\ UNCHANGED <<open, disconnectedSockets, aborted, mapVars, who, raced, pool>>

-----------------------------------------------------------------------------
(* handleDisconnect *)

\* The peer has closed the connection, or sent what is not a packet.
PeerCloses(w, s) ==
    /\ s \in recv
    /\ Begin(w, s, "disc")
    /\ recv' = recv \ {s}
    /\ UNCHANGED <<open, disconnectedSockets, aborted, mapVars, who, raced, pool>>

\* A send to the connection has failed.
SendFails(w, s) ==
    /\ s \in open
    /\ Begin(w, s, "disc")
    /\ UNCHANGED <<connVars, mapVars, who, raced, pool>>

\* The failed completion of a receive on a handle closed by the server.
RecvAborted(w, s) ==
    /\ s \in aborted
    /\ Begin(w, s, "disc")
    /\ aborted' = aborted \ {s}
    /\ UNCHANGED <<open, disconnectedSockets, recv, mapVars, who, raced, pool>>

DisconnectOnlyCloses(w) ==
    /\ At(w, "disc")
    /\ IF ws[w] \in disconnectedSockets
         THEN Done(w) /\ UNCHANGED disconnectedSockets
         ELSE /\ Goto(w, "close")
              /\ disconnectedSockets' = disconnectedSockets \cup {ws[w]}
              /\ UNCHANGED <<ws, wx, wid, wu>>
    /\ UNCHANGED <<open, recv, aborted, mapVars, who, raced, pool>>

HandleDisconnect(w) ==
    /\ At(w, "disc")
    /\ IF ws[w] \in disconnectedSockets
         THEN Done(w) /\ UNCHANGED disconnectedSockets
         ELSE /\ Goto(w, "lookup")
              /\ disconnectedSockets' = disconnectedSockets \cup {ws[w]}
              /\ UNCHANGED <<ws, wx, wid, wu>>
    /\ UNCHANGED <<open, recv, aborted, mapVars, who, raced, pool>>

LookupId(w) ==
    LET i == socketToUserId[ws[w]]
    IN  /\ At(w, "lookup")
        /\ wid' = [wid EXCEPT ![w] = i]
        /\ Goto(w, IF i = NoId THEN "close" ELSE "remove")
        /\ UNCHANGED <<connVars, mapVars, ws, wx, wu, who, raced, pool>>

RemoveDisconnected(w) ==
    /\ At(w, "remove")
    /\ RemoveSession(wid[w])
    /\ Goto(w, "close")
    /\ UNCHANGED <<connVars, ws, wx, wid, wu, who, raced, pool>>

CloseSocket(w) ==
    /\ At(w, "close")
    /\ Close(ws[w])
    /\ Done(w)
    /\ UNCHANGED <<disconnectedSockets, mapVars, who, raced, pool>>

-----------------------------------------------------------------------------
Next ==
    \/ \E s \in Sockets : Accept(s)
    \/ \E w \in Workers :
         \/ \E s \in Sockets : \/ Receive(w, s) \/ PeerCloses(w, s)
                               \/ SendFails(w, s) \/ RecvAborted(w, s)
         \/ Find(w) \/ BorrowSession(w) \/ BorrowNothing(w) \/ AddSession(w)
         \/ \E u \in Users : HandleLogin(w, u)
         \/ LoginFails(w) \/ CacheAuthOnSession(w) \/ Update(w)
         \/ RefreshRejected(w) \/ Logout(w) \/ PostRecv(w)
         \/ HandleDisconnect(w) \/ LookupId(w) \/ RemoveDisconnected(w) \/ CloseSocket(w)

Spec == Init /\ [][Next]_vars

-----------------------------------------------------------------------------
(* Properties *)

\* Types; the free list of the pool never names a slot twice, so that
\* borrowSession never lends one Session to two connections.
TypeOK ==
    /\ open \subseteq Sockets /\ disconnectedSockets \subseteq Sockets
    /\ recv \subseteq Sockets /\ aborted \subseteq Sockets
    /\ sessions \in [Ids -> Slots \cup {NoSlot}]
    /\ socketToUserId \in [Sockets \cup {NoSocket} -> Ids]
    /\ pool \subseteq Slots /\ Range(freeIndices) \subseteq pool
    /\ slot \in [Slots -> [socket : Sockets \cup {NoSocket}, userId : Ids,
                           auth : Users \cup {NoId}, updated : BOOLEAN]]
    /\ pc \in [Workers -> {"idle", "find", "borrow", "add", "handle", "login", "update",
                           "disc", "lookup", "remove", "close"}]
    /\ ws \in [Workers -> Sockets \cup {NoSocket}]
    /\ wx \in [Workers -> Slots \cup {NoSlot}]
    /\ wid \in [Workers -> Ids]
    /\ wu \in [Workers -> Users \cup {NoId}]
    /\ who \in [Sockets -> SUBSET Users]
    /\ raced \in BOOLEAN
    /\ raced \/ Cardinality(Range(freeIndices)) = Len(freeIndices)

\* The two maps of SessionManager are inverse to each other through the Session:
\* the id a socket has leads to a Session of that socket, and the Session an id
\* has is lent out and its socket leads back to the id.
MapsAgree ==
    ~raced =>
        /\ \A s \in Sockets : socketToUserId[s] # NoId =>
             LET x == sessions[socketToUserId[s]]
             IN  x # NoSlot /\ slot[x].socket = s
        /\ \A i \in Ids : sessions[i] # NoSlot =>
             /\ sessions[i] \notin Range(freeIndices)
             /\ socketToUserId[slot[sessions[i]].socket] = i

\* No Session is lost: each is free, registered under an id, or in the hands of
\* the worker that has just borrowed it.
NoSlotLost ==
    ~raced => \A x \in pool :
        \/ x \in Range(freeIndices)
        \/ \E i \in Ids : sessions[i] = x
        \/ \E w \in Workers : pc[w] = "add" /\ wx[w] = x

\* Once a connection is closed and its handler is done, nobody is registered on
\* its handle: a message for the user will be queued and not sent to whoever is
\* given the handle next.
ClosedIsForgotten ==
    ~raced => \A s \in Sockets :
        (s \notin open /\ \A w \in Workers : ws[w] # s) => socketToUserId[s] = NoId

\* A connection is never authenticated by an earlier one: the user of an
\* authenticated Session has logged in on the connection the Session is lent to,
\* and a Session in the pool is authenticated for nobody.
AuthIsOwn ==
    ~raced => \A x \in Slots : slot[x].auth # NoId =>
        slot[x].socket # NoSocket /\ slot[x].auth \in who[slot[x].socket]

\* session/SessionManager.cpp says of updateNewId "once login ---> socket
\* -->mainid": when no worker is busy with a connection whose Session is
\* authenticated, the connection is registered under the user's id.
LoggedInUnderOwnId ==
    ~raced => \A s \in open :
        LET x == sessions[socketToUserId[s]]
        IN  (/\ socketToUserId[s] # NoId
             /\ \A w \in Workers : ws[w] # s
             /\ slot[x].auth # NoId)
            => socketToUserId[s] = slot[x].auth
=============================================================================
