------------------------------- MODULE Tokens -------------------------------
(***************************************************************************)
(* Logins and tokens (authentication/AuthManager.cpp, auth_store.h): the   *)
(* pair of tokens a login, a reconnect and a refresh issue, the store of   *)
(* refresh families with its reuse detection, and the copy of the verdict  *)
(* on the session that every later packet is checked against.              *)
(*                                                                         *)
(* The packets of one connection are handled one after the other; those of *)
(* different connections run on different worker threads.  A step of a     *)
(* handler is one access to what the threads share: the family counter, a  *)
(* critical section of the family store, a reading of the clock.  A        *)
(* signature is the key it was made with.  The server draws a new key and  *)
(* forgets its families when it restarts; the clients keep their tokens.   *)
(***************************************************************************)
EXTENDS Integers, FiniteSets

CONSTANTS
    Conns,        \* connections
    Users,        \* accounts: existing, with a verified e-mail address
    NoUser,       \* the zeroed cached_user_id
    AccessLife,   \* ACCESS_TOKEN_LIFETIME
    RefreshLife,  \* REFRESH_TOKEN_LIFETIME
    MaxTime,      \* bound: the last reading of the clock
    MaxFamily,    \* bound: pairs issued in one run of the server
    MaxIssued,    \* bound: pairs issued altogether
    MaxKey        \* bound: restarts

ASSUME NoUserAssumption == NoUser \notin Users
ASSUME LifeAssumption ==
    AccessLife \in Nat \ {0} /\ RefreshLife \in Nat \ {0} /\ AccessLife =< RefreshLife
ASSUME TokenBoundAssumption ==
    MaxTime \in Nat /\ MaxFamily \in Nat /\ MaxIssued \in Nat /\ MaxKey \in Nat

VARIABLES
    now,           \* time(nullptr)
    signing_key,
    next_family_id,
    families,      \* family_store_; current = 0: no record
    session,       \* auth_state, cached_user_id and cached_expiry of a connection
    pc, pair,      \* each connection: the place in its handler, and the pair of
                   \* tokens the handler was given or has issued
    issued,        \* the pairs issued so far
    held,          \* those that have reached a client
    grants         \* the refresh tokens that were exchanged, each with the
                   \* family of the pair given for it

vars == <<now, signing_key, next_family_id, families, session, pc, pair, issued, held, grants>>

Families == 1 .. MaxFamily

\* An access and a refresh token that were issued together.  The refresh token
\* is number 1 of its family.
Pairs == [user : Users, family : Families, at : 0 .. MaxTime, key : 0 .. MaxKey]
NoPair == [user |-> NoUser, family |-> 0, at |-> 0, key |-> 0]
TokenId == 1
AccessExpiry(p) == p.at + AccessLife
RefreshExpiry(p) == p.at + RefreshLife

NoFamily == [user |-> NoUser, current |-> 0, revoked |-> FALSE]
NoSession == [auth |-> FALSE, user |-> NoUser, expiry |-> 0]

ServerInit ==
    /\ next_family_id = 1
    /\ families = [f \in Families |-> NoFamily]
    /\ session = [c \in Conns |-> NoSession]
    /\ pc = [c \in Conns |-> "idle"]
    /\ pair = [c \in Conns |-> NoPair]

Init ==
    /\ ServerInit
    /\ now = 0 /\ signing_key = 0
    /\ issued = {} /\ held = {} /\ grants = {}

Goto(c, l, p) == pc' = [pc EXCEPT ![c] = l] /\ pair' = [pair EXCEPT ![c] = p]
Return(c) == Goto(c, "idle", NoPair)

-----------------------------------------------------------------------------
(* Helpers of the handlers *)

\* IssueTokenPair: the family number comes from one fetch_add.
NewPair(u) == [user |-> u, family |-> next_family_id, at |-> now, key |-> signing_key]

CanIssue == next_family_id \in Families /\ Cardinality(issued) < MaxIssued

KeepFamilyId(u) ==
    /\ CanIssue
    /\ issued' = issued \cup {NewPair(u)}
    /\ UNCHANGED next_family_id

IssueTokenPair(u) ==
    /\ CanIssue
    /\ next_family_id' = next_family_id + 1
    /\ issued' = issued \cup {NewPair(u)}

CacheRefreshExpiry(c, p) ==
    session' = [session EXCEPT ![c] = [auth |-> TRUE, user |-> p.user, expiry |-> RefreshExpiry(p)]]

CacheAuthOnSession(c, p) ==
    session' = [session EXCEPT ![c] = [auth |-> TRUE, user |-> p.user, expiry |-> AccessExpiry(p)]]

\* The response may be lost: no packet in the pool, a failed send, a broken
\* connection.
SendTokenGranted(p) == held' \in {held, held \cup {p}}

ValidSignature(p) == p.key = signing_key
ValidateAccessToken(p) == ValidSignature(p) /\ now < AccessExpiry(p)
ValidateRefreshToken(p) == ValidSignature(p) /\ now < RefreshExpiry(p)

ValidateSessionHotPath(c) == session[c].auth /\ now < session[c].expiry

-----------------------------------------------------------------------------
(* PKT_LOGIN *)

\* ProcessLogin with the right password.  Every other outcome (unknown name,
\* unverified address, wrong password) answers PKT_AUTH_FAIL and changes nothing.
ProcessLogin(c, u) ==
    /\ pc[c] = "idle"
    /\ IssueTokenPair(u)
    /\ Goto(c, "insert", NewPair(u))
    /\ UNCHANGED <<now, signing_key, families, session, held, grants>>

InsertTokenTwo(c) ==
    /\ pc[c] = "insert"
    /\ families' = [families EXCEPT ![pair[c].family] =
                      [user |-> pair[c].user, current |-> TokenId + 1, revoked |-> FALSE]]
    /\ Goto(c, "grant", pair[c])
    /\ UNCHANGED <<now, signing_key, next_family_id, session, issued, held, grants>>

InsertFamily(c) ==
    /\ pc[c] = "insert"
    /\ families' = [families EXCEPT ![pair[c].family] =
                      [user |-> pair[c].user, current |-> TokenId, revoked |-> FALSE]]
    /\ Goto(c, "grant", pair[c])
    /\ UNCHANGED <<now, signing_key, next_family_id, session, issued, held, grants>>

LoginGranted(c) ==
    /\ pc[c] = "grant"
    /\ CacheAuthOnSession(c, pair[c])
    /\ SendTokenGranted(pair[c])
    /\ Return(c)
    /\ UNCHANGED <<now, signing_key, next_family_id, families, issued, grants>>

-----------------------------------------------------------------------------
(* PKT_TOKEN: a client that reconnects presents its access token *)

HandleTokenPacket(c, p) ==
    /\ pc[c] = "idle"
    /\ ValidateAccessToken(p)
    /\ CacheAuthOnSession(c, p)
    /\ Goto(c, "issue", p)
    /\ UNCHANGED <<now, signing_key, next_family_id, families, issued, held, grants>>

\* The fresh pair gets a family number of its own, and no family record.
TokenGranted(c) ==
    /\ pc[c] = "issue"
    /\ IssueTokenPair(pair[c].user)
    /\ SendTokenGranted(NewPair(pair[c].user))
    /\ Return(c)
    /\ UNCHANGED <<now, signing_key, families, session, grants>>

-----------------------------------------------------------------------------
(* PKT_REFRESH *)

HandleRefreshPacket(c, p) ==
    /\ pc[c] = "idle"
    /\ ValidateRefreshToken(p)
    /\ Goto(c, "advance", p)
    /\ UNCHANGED <<now, signing_key, next_family_id, families, session, issued, held, grants>>

\* AdvanceTokenId, one critical section.  A token that is not the current one
\* of its family revokes the family.
CanAdvance(f) == families[f].current = TokenId /\ ~families[f].revoked

AdvanceWithoutCounting(c) ==
    LET f == pair[c].family
    IN  /\ pc[c] = "advance"
        /\ CanAdvance(f)
        /\ Goto(c, "reissue", pair[c])
        /\ UNCHANGED <<now, signing_key, next_family_id, families, session, issued, held, grants>>

AdvanceTokenId(c) ==
    LET f == pair[c].family
    IN  /\ pc[c] = "advance"
        /\ CanAdvance(f)
        /\ families' = [families EXCEPT ![f].current = @ + 1]
        /\ Goto(c, "reissue", pair[c])
        /\ UNCHANGED <<now, signing_key, next_family_id, session, issued, held, grants>>

RejectByRemoving(c) ==
    LET f == pair[c].family
    IN  /\ pc[c] = "advance"
        /\ ~CanAdvance(f)
        /\ families' = [families EXCEPT ![f] = NoFamily]
        /\ session' = [session EXCEPT ![c].auth = FALSE, ![c].expiry = 0]
        /\ Return(c)
        /\ UNCHANGED <<now, signing_key, next_family_id, issued, held, grants>>

RefreshRejected(c) ==
    LET f == pair[c].family
    IN  /\ pc[c] = "advance"
        /\ ~CanAdvance(f)
        /\ families' = [families EXCEPT ![f].revoked = @ \/ families[f].current # 0]
        /\ session' = [session EXCEPT ![c].auth = FALSE, ![c].expiry = 0]
        /\ Return(c)
        /\ UNCHANGED <<now, signing_key, next_family_id, issued, held, grants>>

RefreshGranted(c) ==
    LET p == NewPair(pair[c].user)
    IN  /\ pc[c] = "reissue"
        /\ IssueTokenPair(pair[c].user)
        /\ CacheAuthOnSession(c, p)
        /\ SendTokenGranted(p)
        /\ grants' = grants \cup {[token |-> pair[c], family |-> p.family]}
        /\ Return(c)
        /\ UNCHANGED <<now, signing_key, families>>

-----------------------------------------------------------------------------
(* The end of a session, the clock, a restart *)

\* returnSession clears what the session has cached.
ReturnSession(c) ==
    /\ session' = [session EXCEPT ![c] = NoSession]
    /\ UNCHANGED <<now, signing_key, next_family_id, families, pc, pair, issued, held, grants>>

\* PKT_LOGOUT passes the check in handlePacket first; the families stay.
Logout(c) == pc[c] = "idle" /\ ValidateSessionHotPath(c) /\ ReturnSession(c)

Disconnect(c) == pc[c] = "idle" /\ session[c] # NoSession /\ ReturnSession(c)

Tick ==
    /\ now < MaxTime
    /\ now' = now + 1
    /\ UNCHANGED <<signing_key, next_family_id, families, session, pc, pair, issued, held, grants>>

Restart ==
    /\ signing_key < MaxKey
    /\ signing_key' = signing_key + 1
    /\ next_family_id' = 1
    /\ families' = [f \in Families |-> NoFamily]
    /\ session' = [c \in Conns |-> NoSession]
    /\ pc' = [c \in Conns |-> "idle"]
    /\ pair' = [c \in Conns |-> NoPair]
    /\ UNCHANGED <<now, issued, held, grants>>

Next ==
    \/ \E c \in Conns :
         \/ \E u \in Users : ProcessLogin(c, u)
         \/ InsertFamily(c)
         \/ LoginGranted(c)
         \/ \E p \in held : HandleTokenPacket(c, p)
         \/ TokenGranted(c)
         \/ \E p \in held : HandleRefreshPacket(c, p)
         \/ AdvanceTokenId(c)
         \/ RefreshRejected(c)
         \/ RefreshGranted(c)
         \/ Logout(c)
         \/ Disconnect(c)
    \/ Tick
    \/ Restart

Spec == Init /\ [][Next]_vars

-----------------------------------------------------------------------------
(* Properties *)

\* Types of the counters, the store, the sessions and the histories; the family
\* numbers the stores hold have all been handed out by next_family_id.
TypeOK ==
    /\ now \in 0 .. MaxTime
    /\ signing_key \in 0 .. MaxKey
    /\ next_family_id \in 1 .. MaxFamily + 1
    /\ families \in [Families -> [user : Users \cup {NoUser}, current : 0 .. TokenId + 1,
                                  revoked : BOOLEAN]]
    /\ session \in [Conns -> [auth : BOOLEAN, user : Users \cup {NoUser}, expiry : Nat]]
    /\ pc \in [Conns -> {"idle", "insert", "grant", "issue", "advance", "reissue"}]
    /\ pair \in [Conns -> Pairs \cup {NoPair}]
    /\ issued \subseteq Pairs /\ held \subseteq issued
    /\ grants \subseteq [token : Pairs, family : Families]
    /\ \A f \in Families : families[f].current # 0 => f < next_family_id

\* Refresh tokens are for one use: whatever number of connections present the
\* same token at the same time, HandleRefreshPacket exchanges it for at most one
\* new pair.
RefreshOnce ==
    \A g, h \in grants : g.token = h.token => g = h

\* HandleRefreshPacket revokes a family only when one of its tokens was
\* presented again after it had been accepted: the first use of a token is never
\* taken for a replay, whatever runs at the same time.
NoFalseRevocation ==
    \A f \in Families : families[f].revoked =>
        \/ \E g \in grants : g.token.family = f /\ g.token.key = signing_key
        \/ \E c \in Conns : pc[c] = "reissue" /\ pair[c].family = f

\* What the hot path trusts is backed by a token: the user and the expiry cached
\* on a session are those of an access token this run of the server has issued,
\* so a session never outlives the token it was opened with.
SessionBacked ==
    \A c \in Conns : session[c].auth =>
        \E p \in issued : /\ p.key = signing_key
                          /\ p.user = session[c].user
                          /\ AccessExpiry(p) = session[c].expiry

\* No step of the server brings a family back: while the server runs, a record
\* of the family store keeps its user, its counter never goes down and a
\* revocation is final.
FamilyForward ==
    \A f \in Families :
        (signing_key' = signing_key /\ families[f].current # 0) =>
            /\ families'[f].user = families[f].user
            /\ families'[f].current >= families[f].current
            /\ families[f].revoked => families'[f].revoked
FamiliesForward == [][FamilyForward]_vars

\* README.md promises "refresh-token rotation": the refresh token a client is
\* given for an old one (HandleRefreshPacket), as long as it is unused and valid,
\* is the current one of a family the store knows, so that it can be exchanged
\* in its turn.
RotatedTokenKnown ==
    \A p \in held :
        (/\ \E g \in grants : g.family = p.family
         /\ ValidateRefreshToken(p)
         /\ \A g \in grants : g.token # p
         /\ \A c \in Conns : pair[c] # p)
        => CanAdvance(p.family)
=============================================================================
