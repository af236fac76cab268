---------------------------- MODULE TokensProofs ----------------------------
(***************************************************************************)
(* Proofs about Tokens for every set of connections and accounts, every    *)
(* lifetime and every bound: the types hold, a refresh token is exchanged  *)
(* at most once, only a replay revokes a family, no step brings a family   *)
(* back, and every session is backed by an access token.                   *)
(***************************************************************************)
EXTENDS Tokens, TLAPS

\* A handler in progress works on a pair issued by this run of the server.
BusyInv ==
    \A c \in Conns : pc[c] # "idle" => pair[c] \in issued /\ pair[c].key = signing_key

\* A login that is about to insert a family record is alone with its number.
InsertInv ==
    \A c \in Conns : pc[c] = "insert" =>
        /\ pair[c].family < next_family_id
        /\ families[pair[c].family].current = 0
        /\ \A d \in Conns \ {c} : pc[d] = "insert" => pair[d].family # pair[c].family

\* A refresh that has advanced its family is alone with it.
ReissueInv ==
    \A c \in Conns : pc[c] = "reissue" =>
        /\ families[pair[c].family].current = TokenId + 1
        /\ \A d \in Conns \ {c} : pc[d] = "reissue" => pair[d].family # pair[c].family

\* A token of this run that was exchanged has been counted, and no refresh in
\* progress has its family.
GrantInv ==
    \A g \in grants :
        /\ g.token.key =< signing_key
        /\ g.token.key = signing_key =>
             /\ families[g.token.family].current = TokenId + 1
             /\ \A c \in Conns : pc[c] = "reissue" => pair[c].family # g.token.family

\* A family was advanced by a refresh that is still in progress or was granted.
AdvancedInv ==
    \A f \in Families : families[f].current = TokenId + 1 =>
        \/ \E g \in grants : g.token.family = f /\ g.token.key = signing_key
        \/ \E c \in Conns : pc[c] = "reissue" /\ pair[c].family = f

\* A family that has not been inserted yet has not been revoked.
AbsentInv == \A f \in Families : families[f].current = 0 => ~families[f].revoked

IInv ==
    /\ TypeOK /\ BusyInv /\ InsertInv /\ ReissueInv /\ GrantInv /\ AdvancedInv /\ AbsentInv
    /\ RefreshOnce /\ NoFalseRevocation /\ SessionBacked

(* A pair issued now is a pair, and its number is not in the family store. *)
LEMMA NewPairType ==
    ASSUME TypeOK, CanIssue, NEW u \in Users
    PROVE  /\ NewPair(u) \in Pairs
           /\ next_family_id \in Families
           /\ next_family_id + 1 \in 1 .. MaxFamily + 1
           /\ families[next_family_id].current = 0
<1>1. next_family_id \in Families
    BY DEF CanIssue
<1>2. NewPair(u) \in Pairs
    BY <1>1 DEF TypeOK, NewPair, Pairs
<1>3. next_family_id + 1 \in 1 .. MaxFamily + 1
    BY <1>1, TokenBoundAssumption DEF Families
<1>4. families[next_family_id].current = 0
    BY <1>1, TokenBoundAssumption DEF TypeOK, Families
<1>. QED BY <1>1, <1>2, <1>3, <1>4

(* The server starts in a state of the invariant. *)
LEMMA IInvInit == Init => IInv
<1>. SUFFICES ASSUME Init PROVE IInv
    OBVIOUS
<1>1. families \in [Families -> [user : Users \cup {NoUser}, current : 0 .. TokenId + 1,
                                  revoked : BOOLEAN]]
    BY DEF Init, ServerInit, NoFamily, TokenId
<1>2. session \in [Conns -> [auth : BOOLEAN, user : Users \cup {NoUser}, expiry : Nat]]
    BY DEF Init, ServerInit, NoSession
<1>3. TypeOK
    BY <1>1, <1>2, TokenBoundAssumption DEF Init, ServerInit, TypeOK, NoFamily
<1>4. BusyInv /\ InsertInv /\ ReissueInv /\ GrantInv /\ RefreshOnce
    BY DEF Init, ServerInit, BusyInv, InsertInv, ReissueInv, GrantInv, RefreshOnce
<1>5. AdvancedInv /\ AbsentInv /\ NoFalseRevocation /\ SessionBacked
    BY DEF Init, ServerInit, AdvancedInv, AbsentInv, NoFalseRevocation, SessionBacked,
           NoFamily, NoSession, TokenId
<1>. QED BY <1>3, <1>4, <1>5 DEF IInv

\* The records of the family store and what a session caches.
FamilyRecords == [user : Users \cup {NoUser}, current : 0 .. TokenId + 1, revoked : BOOLEAN]
SessionRecords == [auth : BOOLEAN, user : Users \cup {NoUser}, expiry : Nat]

(* The session a handler writes back is a session. *)
LEMMA SessionType ==
    /\ NoSession \in SessionRecords
    /\ \A p \in Pairs : [auth |-> TRUE, user |-> p.user, expiry |-> AccessExpiry(p)] \in SessionRecords
    /\ \A r \in SessionRecords : [r EXCEPT !.auth = FALSE, !.expiry = 0] \in SessionRecords
<1>1. \A p \in Pairs : p.user \in Users \cup {NoUser} /\ AccessExpiry(p) \in Nat
    BY LifeAssumption, TokenBoundAssumption DEF Pairs, AccessExpiry
<1>2. FALSE \in BOOLEAN /\ TRUE \in BOOLEAN /\ 0 \in Nat
    OBVIOUS
<1>. QED BY <1>1, <1>2 DEF SessionRecords, NoSession

(* The family record a handler writes back is a family record. *)
LEMMA FamilyType ==
    /\ NoFamily \in FamilyRecords
    /\ \A u \in Users : [user |-> u, current |-> TokenId, revoked |-> FALSE] \in FamilyRecords
    /\ \A r \in FamilyRecords : r.current = TokenId => [r EXCEPT !.current = @ + 1] \in FamilyRecords
    /\ \A r \in FamilyRecords : [r EXCEPT !.revoked = @ \/ r.current # 0] \in FamilyRecords
<1>. USE DEF FamilyRecords, TokenId
<1>1. NoFamily \in FamilyRecords
    BY DEF NoFamily
<1>2. \A u \in Users : [user |-> u, current |-> TokenId, revoked |-> FALSE] \in FamilyRecords
    OBVIOUS
<1>3. \A r \in FamilyRecords : r.current = TokenId => [r EXCEPT !.current = @ + 1] \in FamilyRecords
    OBVIOUS
<1>4. ASSUME NEW r \in FamilyRecords PROVE [r EXCEPT !.revoked = @ \/ r.current # 0] \in FamilyRecords
    <2>1. (r.revoked \/ r.current # 0) \in BOOLEAN
        BY Zenon
    <2>. QED BY <2>1
<1>. QED BY <1>1, <1>2, <1>3, <1>4

(* The type invariant in terms of these records. *)
LEMMA TypeRecords ==
    TypeOK => families \in [Families -> FamilyRecords] /\ session \in [Conns -> SessionRecords]
BY DEF TypeOK, FamilyRecords, SessionRecords

(* Every step of a handler, of the clock and of a restart keeps the types. *)
LEMMA TypeStep == TypeOK /\ BusyInv /\ InsertInv /\ [Next]_vars => TypeOK'
<1>. SUFFICES ASSUME TypeOK, BusyInv, InsertInv, [Next]_vars PROVE TypeOK'
    OBVIOUS
<1>. USE DEF Goto, Return
<1>0. \A c \in Conns : pc[c] # "idle" =>
          pair[c] \in Pairs /\ pair[c].user \in Users /\ pair[c].family \in Families
    BY DEF BusyInv, TypeOK, Pairs
<1>a. families \in [Families -> FamilyRecords] /\ session \in [Conns -> SessionRecords]
    BY TypeRecords
<1>b. ASSUME session' \in [Conns -> SessionRecords]
      PROVE  session' \in [Conns -> [auth : BOOLEAN, user : Users \cup {NoUser}, expiry : Nat]]
    BY <1>b DEF SessionRecords
<1>c. ASSUME families' \in [Families -> FamilyRecords]
      PROVE  families' \in [Families -> [user : Users \cup {NoUser}, current : 0 .. TokenId + 1,
                                          revoked : BOOLEAN]]
    BY <1>c DEF FamilyRecords
<1>1. ASSUME NEW c \in Conns, NEW u \in Users, ProcessLogin(c, u) PROVE TypeOK'
    <2>1. CanIssue
        BY <1>1 DEF ProcessLogin, IssueTokenPair
    <2>. QED BY <1>1, <2>1, NewPairType, TokenBoundAssumption
            DEF TypeOK, ProcessLogin, IssueTokenPair, Families
<1>2. ASSUME NEW c \in Conns, InsertFamily(c) PROVE TypeOK'
    <2>1. families' \in [Families -> FamilyRecords]
        BY <1>0, <1>a, <1>2, FamilyType DEF InsertFamily
    <2>2. \A f \in Families : families'[f].current # 0 => f < next_family_id
        BY <1>0, <1>2 DEF InsertFamily, TypeOK, InsertInv
    <2>. QED BY <1>0, <1>2, <1>c, <2>1, <2>2 DEF TypeOK, InsertFamily
<1>3. ASSUME NEW c \in Conns, LoginGranted(c) PROVE TypeOK'
    <2>1. session' \in [Conns -> SessionRecords]
        BY <1>0, <1>a, <1>3, SessionType DEF LoginGranted, CacheAuthOnSession
    <2>2. held' \subseteq issued
        BY <1>3 DEF LoginGranted, SendTokenGranted, BusyInv, TypeOK
    <2>. QED BY <1>3, <1>b, <2>1, <2>2 DEF TypeOK, LoginGranted
<1>4. ASSUME NEW c \in Conns, NEW p \in held, HandleTokenPacket(c, p) PROVE TypeOK'
    <2>1. p \in Pairs
        BY DEF TypeOK
    <2>2. session' \in [Conns -> SessionRecords]
        BY <1>a, <1>4, <2>1, SessionType DEF HandleTokenPacket, CacheAuthOnSession
    <2>. QED BY <1>4, <1>b, <2>1, <2>2 DEF TypeOK, HandleTokenPacket
<1>5. ASSUME NEW c \in Conns, TokenGranted(c) PROVE TypeOK'
    <2>1. CanIssue /\ pair[c].user \in Users
        BY <1>0, <1>5 DEF TokenGranted, IssueTokenPair
    <2>2. issued' \subseteq Pairs /\ held' \subseteq issued' /\ next_family_id' \in 1 .. MaxFamily + 1
        BY <1>5, <2>1, NewPairType DEF TypeOK, TokenGranted, IssueTokenPair, SendTokenGranted
    <2>3. \A f \in Families : families'[f].current # 0 => f < next_family_id'
        BY <1>5, TokenBoundAssumption DEF TypeOK, TokenGranted, IssueTokenPair, Families
    <2>. QED BY <1>5, <2>2, <2>3 DEF TypeOK, TokenGranted
<1>6. ASSUME NEW c \in Conns, NEW p \in held, HandleRefreshPacket(c, p) PROVE TypeOK'
    BY <1>6 DEF TypeOK, HandleRefreshPacket
<1>7. ASSUME NEW c \in Conns, AdvanceTokenId(c) PROVE TypeOK'
    <2>1. families' \in [Families -> FamilyRecords]
        BY <1>0, <1>a, <1>7, FamilyType DEF AdvanceTokenId, CanAdvance
    <2>2. \A f \in Families : families'[f].current # 0 => f < next_family_id
        BY <1>0, <1>7 DEF AdvanceTokenId, CanAdvance, TypeOK, TokenId
    <2>. QED BY <1>0, <1>7, <1>c, <2>1, <2>2 DEF TypeOK, AdvanceTokenId
<1>8. ASSUME NEW c \in Conns, RefreshRejected(c) PROVE TypeOK'
    <2>1. families' \in [Families -> FamilyRecords]
        BY <1>0, <1>a, <1>8, FamilyType DEF RefreshRejected
    <2>2. session' \in [Conns -> SessionRecords]
        BY <1>a, <1>8, SessionType DEF RefreshRejected
    <2>3. \A f \in Families : families'[f].current # 0 => f < next_family_id
        BY <1>0, <1>8 DEF RefreshRejected, TypeOK
    <2>. QED BY <1>8, <1>b, <1>c, <2>1, <2>2, <2>3 DEF TypeOK, RefreshRejected
<1>9. ASSUME NEW c \in Conns, RefreshGranted(c) PROVE TypeOK'
    <2>1. CanIssue /\ pair[c].user \in Users /\ pair[c] \in Pairs
        BY <1>0, <1>9 DEF RefreshGranted, IssueTokenPair
    <2>2. NewPair(pair[c].user) \in Pairs /\ NewPair(pair[c].user).family \in Families
        BY <2>1, NewPairType DEF NewPair
    <2>3. session' \in [Conns -> SessionRecords]
        BY <1>a, <1>9, <2>2, SessionType DEF RefreshGranted, CacheAuthOnSession
    <2>4. issued' \subseteq Pairs /\ held' \subseteq issued' /\ next_family_id' \in 1 .. MaxFamily + 1
        BY <1>9, <2>1, NewPairType DEF TypeOK, RefreshGranted, IssueTokenPair, SendTokenGranted
    <2>5. \A f \in Families : families'[f].current # 0 => f < next_family_id'
        BY <1>9, TokenBoundAssumption DEF TypeOK, RefreshGranted, IssueTokenPair, Families
    <2>6. grants' \subseteq [token : Pairs, family : Families]
        BY <1>9, <2>1, <2>2 DEF TypeOK, RefreshGranted
    <2>. QED BY <1>9, <1>b, <2>3, <2>4, <2>5, <2>6 DEF TypeOK, RefreshGranted
<1>10. ASSUME NEW c \in Conns, Logout(c) \/ Disconnect(c) PROVE TypeOK'
    <2>1. session' \in [Conns -> SessionRecords]
        BY <1>a, <1>10, SessionType DEF Logout, Disconnect, ReturnSession
    <2>. QED BY <1>10, <1>b, <2>1 DEF TypeOK, Logout, Disconnect, ReturnSession
<1>11. ASSUME Tick PROVE TypeOK'
    BY <1>11, TokenBoundAssumption DEF TypeOK, Tick
<1>12. ASSUME Restart PROVE TypeOK'
    <2>1. families' \in [Families -> FamilyRecords] /\ session' \in [Conns -> SessionRecords]
        BY <1>12, FamilyType, SessionType DEF Restart
    <2>2. \A f \in Families : families'[f].current = 0
        BY <1>12 DEF Restart, NoFamily
    <2>. QED BY <1>12, <1>b, <1>c, <2>1, <2>2, TokenBoundAssumption DEF TypeOK, Restart
<1>13. ASSUME UNCHANGED vars PROVE TypeOK'
    BY <1>13 DEF TypeOK, vars
<1>. QED BY <1>1, <1>2, <1>3, <1>4, <1>5, <1>6, <1>7, <1>8, <1>9, <1>10, <1>11, <1>12, <1>13
        DEF Next

(* The handlers in progress keep to their own families. *)
LEMMA ControlStep == IInv /\ [Next]_vars => BusyInv' /\ InsertInv' /\ ReissueInv'
<1>. SUFFICES ASSUME IInv, [Next]_vars PROVE BusyInv' /\ InsertInv' /\ ReissueInv'
    OBVIOUS
<1>. USE DEF Goto, Return
<1>0. \A c \in Conns : pc[c] # "idle" => pair[c].family \in Families
    BY DEF IInv, BusyInv, TypeOK, Pairs
<1>1. ASSUME NEW c \in Conns, NEW u \in Users, ProcessLogin(c, u) PROVE BusyInv' /\ InsertInv' /\ ReissueInv'
    <2>1. BusyInv'
        BY <1>0, <1>1 DEF IInv, TypeOK, BusyInv, ProcessLogin, IssueTokenPair, NewPair
    <2>2. InsertInv'
        <3>1. CanIssue /\ next_family_id \in Nat /\ next_family_id' = next_family_id + 1
            BY <1>1 DEF IInv, TypeOK, ProcessLogin, IssueTokenPair
        <3>2. families[next_family_id].current = 0
            BY <3>1, NewPairType DEF IInv
        <3>3. pair'[c].family = next_family_id /\ families' = families
            BY <1>1 DEF IInv, TypeOK, ProcessLogin, NewPair
        <3>4. \A d \in Conns \ {c} : pc'[d] = pc[d] /\ pair'[d] = pair[d]
            BY <1>1 DEF IInv, TypeOK, ProcessLogin
        <3>5. \A d \in Conns : pc[d] = "insert" => pair[d].family \in Nat
            BY <1>0, TokenBoundAssumption DEF Families
        <3>. QED BY <3>1, <3>2, <3>3, <3>4, <3>5 DEF IInv, InsertInv
    <2>3. ReissueInv'
        BY <1>0, <1>1 DEF IInv, TypeOK, ReissueInv, ProcessLogin, IssueTokenPair, NewPair, TokenId, InsertInv, BusyInv
    <2>. QED BY <2>1, <2>2, <2>3
<1>2. ASSUME NEW c \in Conns, InsertFamily(c) PROVE BusyInv' /\ InsertInv' /\ ReissueInv'
    BY <1>0, <1>2 DEF IInv, TypeOK, BusyInv, InsertInv, ReissueInv, InsertFamily, TokenId
<1>3. ASSUME NEW c \in Conns, LoginGranted(c) PROVE BusyInv' /\ InsertInv' /\ ReissueInv'
    BY <1>0, <1>3 DEF IInv, TypeOK, BusyInv, InsertInv, ReissueInv, LoginGranted, TokenId
<1>4. ASSUME NEW c \in Conns, NEW p \in held, HandleTokenPacket(c, p) PROVE BusyInv' /\ InsertInv' /\ ReissueInv'
    BY <1>0, <1>4 DEF IInv, TypeOK, BusyInv, InsertInv, ReissueInv, HandleTokenPacket,
        ValidateAccessToken, ValidSignature, TokenId
<1>5. ASSUME NEW c \in Conns, TokenGranted(c) PROVE BusyInv' /\ InsertInv' /\ ReissueInv'
    <2>1. BusyInv'
        BY <1>0, <1>5 DEF IInv, TypeOK, BusyInv, TokenGranted, IssueTokenPair
    <2>2. InsertInv'
        <3>1. next_family_id \in Nat /\ next_family_id' = next_family_id + 1
            BY <1>5 DEF IInv, TypeOK, TokenGranted, IssueTokenPair
        <3>2. \A d \in Conns : pc'[d] = "insert" =>
                  d # c /\ pc[d] = "insert" /\ pair'[d] = pair[d] /\ pair[d].family \in Nat
            BY <1>0, <1>5, TokenBoundAssumption DEF IInv, TypeOK, TokenGranted, Families
        <3>3. families' = families
            BY <1>5 DEF TokenGranted
        <3>. QED BY <3>1, <3>2, <3>3 DEF IInv, InsertInv
    <2>3. ReissueInv'
        BY <1>0, <1>5 DEF IInv, TypeOK, ReissueInv, TokenGranted, IssueTokenPair, TokenId, InsertInv, BusyInv
    <2>. QED BY <2>1, <2>2, <2>3
<1>6. ASSUME NEW c \in Conns, NEW p \in held, HandleRefreshPacket(c, p) PROVE BusyInv' /\ InsertInv' /\ ReissueInv'
    BY <1>0, <1>6 DEF IInv, TypeOK, BusyInv, InsertInv, ReissueInv, HandleRefreshPacket,
        ValidateRefreshToken, ValidSignature, TokenId
<1>7. ASSUME NEW c \in Conns, AdvanceTokenId(c) PROVE BusyInv' /\ InsertInv' /\ ReissueInv'
    BY <1>0, <1>7 DEF IInv, TypeOK, BusyInv, InsertInv, ReissueInv, AdvanceTokenId,
        CanAdvance, TokenId
<1>8. ASSUME NEW c \in Conns, RefreshRejected(c) PROVE BusyInv' /\ InsertInv' /\ ReissueInv'
    BY <1>0, <1>8 DEF IInv, TypeOK, BusyInv, InsertInv, ReissueInv, RefreshRejected, TokenId
<1>9. ASSUME NEW c \in Conns, RefreshGranted(c) PROVE BusyInv' /\ InsertInv' /\ ReissueInv'
    <2>1. BusyInv'
        BY <1>0, <1>9 DEF IInv, TypeOK, BusyInv, RefreshGranted, IssueTokenPair
    <2>2. InsertInv'
        <3>1. next_family_id \in Nat /\ next_family_id' = next_family_id + 1
            BY <1>9 DEF IInv, TypeOK, RefreshGranted, IssueTokenPair
        <3>2. \A d \in Conns : pc'[d] = "insert" =>
                  d # c /\ pc[d] = "insert" /\ pair'[d] = pair[d] /\ pair[d].family \in Nat
            BY <1>0, <1>9, TokenBoundAssumption DEF IInv, TypeOK, RefreshGranted, Families
        <3>3. families' = families
            BY <1>9 DEF RefreshGranted
        <3>. QED BY <3>1, <3>2, <3>3 DEF IInv, InsertInv
    <2>3. ReissueInv'
        BY <1>0, <1>9 DEF IInv, TypeOK, ReissueInv, RefreshGranted, IssueTokenPair, TokenId, InsertInv, BusyInv
    <2>. QED BY <2>1, <2>2, <2>3
<1>10. ASSUME NEW c \in Conns, Logout(c) \/ Disconnect(c) PROVE BusyInv' /\ InsertInv' /\ ReissueInv'
    BY <1>0, <1>10 DEF IInv, TypeOK, BusyInv, InsertInv, ReissueInv, Logout, Disconnect,
        ReturnSession, TokenId
<1>11. ASSUME Tick PROVE BusyInv' /\ InsertInv' /\ ReissueInv'
    BY <1>0, <1>11 DEF IInv, TypeOK, BusyInv, InsertInv, ReissueInv, Tick, TokenId
<1>12. ASSUME Restart PROVE BusyInv' /\ InsertInv' /\ ReissueInv'
    BY <1>0, <1>12 DEF IInv, TypeOK, BusyInv, InsertInv, ReissueInv, Restart, TokenId
<1>13. ASSUME UNCHANGED vars PROVE BusyInv' /\ InsertInv' /\ ReissueInv'
    BY <1>0, <1>13 DEF IInv, TypeOK, BusyInv, InsertInv, ReissueInv, vars, TokenId
<1>. QED BY <1>1, <1>2, <1>3, <1>4, <1>5, <1>6, <1>7, <1>8, <1>9, <1>10, <1>11, <1>12, <1>13
        DEF Next

(* What the refresh tokens were exchanged for. *)
LEMMA GrantStep == IInv /\ [Next]_vars => GrantInv' /\ RefreshOnce'
<1>. SUFFICES ASSUME IInv, [Next]_vars PROVE GrantInv' /\ RefreshOnce'
    OBVIOUS
<1>. USE DEF Goto, Return
<1>0. \A c \in Conns : pc[c] # "idle" => pair[c].family \in Families
    BY DEF IInv, BusyInv, TypeOK, Pairs
<1>1. ASSUME NEW c \in Conns, NEW u \in Users, ProcessLogin(c, u) PROVE GrantInv' /\ RefreshOnce'
    BY <1>0, <1>1 DEF IInv, TypeOK, GrantInv, RefreshOnce, ProcessLogin, IssueTokenPair,
        NewPair, TokenId, ReissueInv, InsertInv, BusyInv
<1>2. ASSUME NEW c \in Conns, InsertFamily(c) PROVE GrantInv' /\ RefreshOnce'
    BY <1>0, <1>2 DEF IInv, TypeOK, GrantInv, RefreshOnce, InsertFamily, TokenId, ReissueInv,
        InsertInv, BusyInv
<1>3. ASSUME NEW c \in Conns, LoginGranted(c) PROVE GrantInv' /\ RefreshOnce'
    BY <1>0, <1>3 DEF IInv, TypeOK, GrantInv, RefreshOnce, LoginGranted, TokenId, ReissueInv,
        InsertInv, BusyInv
<1>4. ASSUME NEW c \in Conns, NEW p \in held, HandleTokenPacket(c, p) PROVE GrantInv' /\ RefreshOnce'
    BY <1>0, <1>4 DEF IInv, TypeOK, GrantInv, RefreshOnce, HandleTokenPacket,
        ValidateAccessToken, ValidSignature, TokenId, ReissueInv, InsertInv, BusyInv
<1>5. ASSUME NEW c \in Conns, TokenGranted(c) PROVE GrantInv' /\ RefreshOnce'
    BY <1>0, <1>5 DEF IInv, TypeOK, GrantInv, RefreshOnce, TokenGranted, IssueTokenPair,
        TokenId, ReissueInv, InsertInv, BusyInv
<1>6. ASSUME NEW c \in Conns, NEW p \in held, HandleRefreshPacket(c, p) PROVE GrantInv' /\ RefreshOnce'
    BY <1>0, <1>6 DEF IInv, TypeOK, GrantInv, RefreshOnce, HandleRefreshPacket,
        ValidateRefreshToken, ValidSignature, TokenId, ReissueInv, InsertInv, BusyInv
<1>7. ASSUME NEW c \in Conns, AdvanceTokenId(c) PROVE GrantInv' /\ RefreshOnce'
    BY <1>0, <1>7 DEF IInv, TypeOK, GrantInv, RefreshOnce, AdvanceTokenId, CanAdvance,
        TokenId, ReissueInv, InsertInv, BusyInv
<1>8. ASSUME NEW c \in Conns, RefreshRejected(c) PROVE GrantInv' /\ RefreshOnce'
    BY <1>0, <1>8 DEF IInv, TypeOK, GrantInv, RefreshOnce, RefreshRejected, TokenId,
        ReissueInv, InsertInv, BusyInv
<1>9. ASSUME NEW c \in Conns, RefreshGranted(c) PROVE GrantInv' /\ RefreshOnce'
    BY <1>0, <1>9 DEF IInv, TypeOK, GrantInv, RefreshOnce, RefreshGranted, IssueTokenPair,
        TokenId, ReissueInv, InsertInv, BusyInv
<1>10. ASSUME NEW c \in Conns, Logout(c) \/ Disconnect(c) PROVE GrantInv' /\ RefreshOnce'
    BY <1>0, <1>10 DEF IInv, TypeOK, GrantInv, RefreshOnce, Logout, Disconnect, ReturnSession,
        TokenId, ReissueInv, InsertInv, BusyInv
<1>11. ASSUME Tick PROVE GrantInv' /\ RefreshOnce'
    BY <1>0, <1>11 DEF IInv, TypeOK, GrantInv, RefreshOnce, Tick, TokenId, ReissueInv,
        InsertInv, BusyInv
<1>12. ASSUME Restart PROVE GrantInv' /\ RefreshOnce'
    <2>1. GrantInv'
        <3>1. \A g \in grants : g.token.key =< signing_key /\ g.token.key \in Int
            BY DEF IInv, TypeOK, GrantInv, Pairs
        <3>2. signing_key \in Int /\ signing_key' = signing_key + 1 /\ grants' = grants
            BY <1>12 DEF IInv, TypeOK, Restart
        <3>. QED BY <3>1, <3>2 DEF GrantInv
    <2>2. RefreshOnce'
        BY <1>0, <1>12 DEF IInv, TypeOK, RefreshOnce, Restart, GrantInv, BusyInv
    <2>. QED BY <2>1, <2>2
<1>13. ASSUME UNCHANGED vars PROVE GrantInv' /\ RefreshOnce'
    BY <1>0, <1>13 DEF IInv, TypeOK, GrantInv, RefreshOnce, vars, TokenId, ReissueInv,
        InsertInv, BusyInv
<1>. QED BY <1>1, <1>2, <1>3, <1>4, <1>5, <1>6, <1>7, <1>8, <1>9, <1>10, <1>11, <1>12, <1>13
        DEF Next

(* Who has advanced or revoked a family. *)
LEMMA FamilyStep == IInv /\ [Next]_vars => AdvancedInv' /\ AbsentInv' /\ NoFalseRevocation'
<1>. SUFFICES ASSUME IInv, [Next]_vars PROVE AdvancedInv' /\ AbsentInv' /\ NoFalseRevocation'
    OBVIOUS
<1>. USE DEF Goto, Return
<1>0. \A c \in Conns : pc[c] # "idle" => pair[c].family \in Families
    BY DEF IInv, BusyInv, TypeOK, Pairs
<1>1. ASSUME NEW c \in Conns, NEW u \in Users, ProcessLogin(c, u) PROVE AdvancedInv' /\ AbsentInv' /\ NoFalseRevocation'
    BY <1>0, <1>1 DEF IInv, TypeOK, AdvancedInv, AbsentInv, NoFalseRevocation, ProcessLogin,
        IssueTokenPair, NewPair, TokenId, InsertInv, BusyInv
<1>2. ASSUME NEW c \in Conns, InsertFamily(c) PROVE AdvancedInv' /\ AbsentInv' /\ NoFalseRevocation'
    <2>1. AdvancedInv'
        BY <1>0, <1>2 DEF IInv, TypeOK, AdvancedInv, InsertFamily, TokenId, InsertInv, BusyInv
    <2>2. AbsentInv'
        BY <1>0, <1>2 DEF IInv, TypeOK, AbsentInv, InsertFamily, TokenId, InsertInv, BusyInv
    <2>3. NoFalseRevocation'
        BY <1>0, <1>2 DEF IInv, TypeOK, NoFalseRevocation, InsertFamily, TokenId, AdvancedInv, AbsentInv, InsertInv, BusyInv
    <2>. QED BY <2>1, <2>2, <2>3
<1>3. ASSUME NEW c \in Conns, LoginGranted(c) PROVE AdvancedInv' /\ AbsentInv' /\ NoFalseRevocation'
    BY <1>0, <1>3 DEF IInv, TypeOK, AdvancedInv, AbsentInv, NoFalseRevocation, LoginGranted,
        TokenId, InsertInv, BusyInv
<1>4. ASSUME NEW c \in Conns, NEW p \in held, HandleTokenPacket(c, p) PROVE AdvancedInv' /\ AbsentInv' /\ NoFalseRevocation'
    BY <1>0, <1>4 DEF IInv, TypeOK, AdvancedInv, AbsentInv, NoFalseRevocation,
        HandleTokenPacket, ValidateAccessToken, ValidSignature, TokenId, InsertInv, BusyInv
<1>5. ASSUME NEW c \in Conns, TokenGranted(c) PROVE AdvancedInv' /\ AbsentInv' /\ NoFalseRevocation'
    BY <1>0, <1>5 DEF IInv, TypeOK, AdvancedInv, AbsentInv, NoFalseRevocation, TokenGranted,
        IssueTokenPair, TokenId, InsertInv, BusyInv
<1>6. ASSUME NEW c \in Conns, NEW p \in held, HandleRefreshPacket(c, p) PROVE AdvancedInv' /\ AbsentInv' /\ NoFalseRevocation'
    BY <1>0, <1>6 DEF IInv, TypeOK, AdvancedInv, AbsentInv, NoFalseRevocation,
        HandleRefreshPacket, ValidateRefreshToken, ValidSignature, TokenId, InsertInv, BusyInv
<1>7. ASSUME NEW c \in Conns, AdvanceTokenId(c) PROVE AdvancedInv' /\ AbsentInv' /\ NoFalseRevocation'
    <2>1. AdvancedInv'
        BY <1>0, <1>7 DEF IInv, TypeOK, AdvancedInv, AdvanceTokenId, CanAdvance, TokenId, InsertInv, BusyInv
    <2>2. AbsentInv'
        BY <1>0, <1>7 DEF IInv, TypeOK, AbsentInv, AdvanceTokenId, CanAdvance, TokenId, InsertInv, BusyInv
    <2>3. NoFalseRevocation'
        BY <1>0, <1>7 DEF IInv, TypeOK, NoFalseRevocation, AdvanceTokenId, CanAdvance, TokenId, AdvancedInv, AbsentInv, InsertInv, BusyInv
    <2>. QED BY <2>1, <2>2, <2>3
<1>8. ASSUME NEW c \in Conns, RefreshRejected(c) PROVE AdvancedInv' /\ AbsentInv' /\ NoFalseRevocation'
    <2>1. AdvancedInv'
        BY <1>0, <1>8 DEF IInv, TypeOK, AdvancedInv, RefreshRejected, TokenId, InsertInv, BusyInv
    <2>2. AbsentInv'
        BY <1>0, <1>8 DEF IInv, TypeOK, AbsentInv, RefreshRejected, TokenId, InsertInv, BusyInv
    <2>3. NoFalseRevocation'
        <3>1. CASE families[pair[c].family].current = TokenId + 1
            BY <1>0, <1>8, <3>1 DEF IInv, TypeOK, NoFalseRevocation, AdvancedInv, RefreshRejected
        <3>2. CASE families[pair[c].family].current # TokenId + 1
            <4>1. families[pair[c].family].revoked \/ families[pair[c].family].current = 0
                BY <1>0, <1>8, <3>2 DEF IInv, TypeOK, RefreshRejected, CanAdvance, TokenId
            <4>2. \A f \in Families : families'[f].revoked => families[f].revoked
                BY <1>0, <1>8, <4>1 DEF IInv, TypeOK, RefreshRejected
            <4>. QED BY <1>8, <4>2 DEF IInv, TypeOK, NoFalseRevocation, RefreshRejected
        <3>. QED BY <3>1, <3>2
    <2>. QED BY <2>1, <2>2, <2>3
<1>9. ASSUME NEW c \in Conns, RefreshGranted(c) PROVE AdvancedInv' /\ AbsentInv' /\ NoFalseRevocation'
    <2>1. AdvancedInv'
        <3>1. [token |-> pair[c], family |-> NewPair(pair[c].user).family] \in grants'
            BY <1>9 DEF RefreshGranted
        <3>2. grants \subseteq grants' /\ signing_key' = signing_key /\ families' = families
            BY <1>9 DEF RefreshGranted
        <3>3. pair[c].key = signing_key
            BY <1>9 DEF RefreshGranted, IInv, BusyInv
        <3>4. \A d \in Conns : pc[d] = "reissue" =>
                  d = c \/ (pc'[d] = "reissue" /\ pair'[d] = pair[d])
            BY <1>9 DEF RefreshGranted, IInv, TypeOK
        <3>5. \E g \in grants' : g.token = pair[c]
            BY <3>1
        <3>. QED BY <3>2, <3>3, <3>4, <3>5 DEF IInv, AdvancedInv
    <2>2. AbsentInv'
        BY <1>0, <1>9 DEF IInv, TypeOK, AbsentInv, RefreshGranted, IssueTokenPair, TokenId, InsertInv, BusyInv
    <2>3. NoFalseRevocation'
        <3>1. [token |-> pair[c], family |-> NewPair(pair[c].user).family] \in grants'
            BY <1>9 DEF RefreshGranted
        <3>2. grants \subseteq grants' /\ signing_key' = signing_key /\ families' = families
            BY <1>9 DEF RefreshGranted
        <3>3. pair[c].key = signing_key
            BY <1>9 DEF RefreshGranted, IInv, BusyInv
        <3>4. \A d \in Conns : pc[d] = "reissue" =>
                  d = c \/ (pc'[d] = "reissue" /\ pair'[d] = pair[d])
            BY <1>9 DEF RefreshGranted, IInv, TypeOK
        <3>5. \E g \in grants' : g.token = pair[c]
            BY <3>1
        <3>. QED BY <3>2, <3>3, <3>4, <3>5 DEF IInv, NoFalseRevocation
    <2>. QED BY <2>1, <2>2, <2>3
<1>10. ASSUME NEW c \in Conns, Logout(c) \/ Disconnect(c) PROVE AdvancedInv' /\ AbsentInv' /\ NoFalseRevocation'
    BY <1>0, <1>10 DEF IInv, TypeOK, AdvancedInv, AbsentInv, NoFalseRevocation, Logout,
        Disconnect, ReturnSession, TokenId, InsertInv, BusyInv
<1>11. ASSUME Tick PROVE AdvancedInv' /\ AbsentInv' /\ NoFalseRevocation'
    BY <1>0, <1>11 DEF IInv, TypeOK, AdvancedInv, AbsentInv, NoFalseRevocation, Tick, TokenId,
        InsertInv, BusyInv
<1>12. ASSUME Restart PROVE AdvancedInv' /\ AbsentInv' /\ NoFalseRevocation'
    <2>1. AdvancedInv'
        BY <1>12 DEF AdvancedInv, Restart, NoFamily, TokenId
    <2>2. AbsentInv'
        BY <1>12 DEF AbsentInv, Restart, NoFamily, TokenId
    <2>3. NoFalseRevocation'
        BY <1>12 DEF NoFalseRevocation, Restart, NoFamily, TokenId
    <2>. QED BY <2>1, <2>2, <2>3
<1>13. ASSUME UNCHANGED vars PROVE AdvancedInv' /\ AbsentInv' /\ NoFalseRevocation'
    BY <1>0, <1>13 DEF IInv, TypeOK, AdvancedInv, AbsentInv, NoFalseRevocation, vars, TokenId,
        InsertInv, BusyInv
<1>. QED BY <1>1, <1>2, <1>3, <1>4, <1>5, <1>6, <1>7, <1>8, <1>9, <1>10, <1>11, <1>12, <1>13
        DEF Next

(* What backs a session. *)
LEMMA SessionStep == IInv /\ [Next]_vars => SessionBacked'
<1>. SUFFICES ASSUME IInv, [Next]_vars PROVE SessionBacked'
    OBVIOUS
<1>. USE DEF Goto, Return
<1>0. \A c \in Conns : pc[c] # "idle" => pair[c].family \in Families
    BY DEF IInv, BusyInv, TypeOK, Pairs
<1>1. ASSUME NEW c \in Conns, NEW u \in Users, ProcessLogin(c, u) PROVE SessionBacked'
    BY <1>0, <1>1 DEF IInv, TypeOK, SessionBacked, ProcessLogin, IssueTokenPair, NewPair,
        CacheAuthOnSession, BusyInv, NoSession
<1>2. ASSUME NEW c \in Conns, InsertFamily(c) PROVE SessionBacked'
    BY <1>0, <1>2 DEF IInv, TypeOK, SessionBacked, InsertFamily, CacheAuthOnSession, BusyInv,
        NewPair, NoSession
<1>3. ASSUME NEW c \in Conns, LoginGranted(c) PROVE SessionBacked'
    BY <1>0, <1>3 DEF IInv, TypeOK, SessionBacked, LoginGranted, CacheAuthOnSession, BusyInv,
        NewPair, NoSession
<1>4. ASSUME NEW c \in Conns, NEW p \in held, HandleTokenPacket(c, p) PROVE SessionBacked'
    BY <1>0, <1>4 DEF IInv, TypeOK, SessionBacked, HandleTokenPacket, ValidateAccessToken,
        ValidSignature, CacheAuthOnSession, BusyInv, NewPair, NoSession
<1>5. ASSUME NEW c \in Conns, TokenGranted(c) PROVE SessionBacked'
    BY <1>0, <1>5 DEF IInv, TypeOK, SessionBacked, TokenGranted, IssueTokenPair,
        CacheAuthOnSession, BusyInv, NewPair, NoSession
<1>6. ASSUME NEW c \in Conns, NEW p \in held, HandleRefreshPacket(c, p) PROVE SessionBacked'
    BY <1>0, <1>6 DEF IInv, TypeOK, SessionBacked, HandleRefreshPacket, ValidateRefreshToken,
        ValidSignature, CacheAuthOnSession, BusyInv, NewPair, NoSession
<1>7. ASSUME NEW c \in Conns, AdvanceTokenId(c) PROVE SessionBacked'
    BY <1>0, <1>7 DEF IInv, TypeOK, SessionBacked, AdvanceTokenId, CanAdvance,
        CacheAuthOnSession, BusyInv, NewPair, NoSession
<1>8. ASSUME NEW c \in Conns, RefreshRejected(c) PROVE SessionBacked'
    BY <1>0, <1>8 DEF IInv, TypeOK, SessionBacked, RefreshRejected, CacheAuthOnSession,
        BusyInv, NewPair, NoSession
<1>9. ASSUME NEW c \in Conns, RefreshGranted(c) PROVE SessionBacked'
    BY <1>0, <1>9 DEF IInv, TypeOK, SessionBacked, RefreshGranted, IssueTokenPair,
        CacheAuthOnSession, BusyInv, NewPair, NoSession
<1>10. ASSUME NEW c \in Conns, Logout(c) \/ Disconnect(c) PROVE SessionBacked'
    BY <1>0, <1>10 DEF IInv, TypeOK, SessionBacked, Logout, Disconnect, ReturnSession,
        CacheAuthOnSession, BusyInv, NewPair, NoSession
<1>11. ASSUME Tick PROVE SessionBacked'
    BY <1>0, <1>11 DEF IInv, TypeOK, SessionBacked, Tick, CacheAuthOnSession, BusyInv,
        NewPair, NoSession
<1>12. ASSUME Restart PROVE SessionBacked'
    BY <1>0, <1>12 DEF IInv, TypeOK, SessionBacked, Restart, CacheAuthOnSession, BusyInv,
        NewPair, NoSession
<1>13. ASSUME UNCHANGED vars PROVE SessionBacked'
    BY <1>0, <1>13 DEF IInv, TypeOK, SessionBacked, vars, CacheAuthOnSession, BusyInv,
        NewPair, NoSession
<1>. QED BY <1>1, <1>2, <1>3, <1>4, <1>5, <1>6, <1>7, <1>8, <1>9, <1>10, <1>11, <1>12, <1>13
        DEF Next

(* The invariant is preserved by every step. *)
LEMMA IInvStep == IInv /\ [Next]_vars => IInv'
<1>. SUFFICES ASSUME IInv, [Next]_vars PROVE IInv'
    OBVIOUS
<1>1. TypeOK'
    BY TypeStep DEF IInv
<1>. QED BY <1>1, ControlStep, GrantStep, FamilyStep, SessionStep DEF IInv

(* The invariant holds in every state of every behaviour. *)
LEMMA IInvAlways == Spec => []IInv
BY IInvInit, IInvStep, PTL DEF Spec

(* The counters, the family store, the sessions and the histories keep their *)
(* types, and the store only holds family numbers next_family_id has given.  *)
THEOREM TypeCorrect == Spec => []TypeOK
<1>1. IInv => TypeOK
    BY DEF IInv
<1>. QED BY <1>1, IInvAlways, PTL

(* However many connections present one refresh token together,            *)
(* HandleRefreshPacket exchanges it at most once: AdvanceTokenId lets only *)
(* one of them go on to IssueTokenPair.                                    *)
THEOREM RefreshedAtMostOnce == Spec => []RefreshOnce
<1>1. IInv => RefreshOnce
    BY DEF IInv
<1>. QED BY <1>1, IInvAlways, PTL

(* HandleRefreshPacket revokes a family only after one of its tokens was   *)
(* accepted: the first use of a token is never taken for a replay.         *)
THEOREM NeverFalselyRevoked == Spec => []NoFalseRevocation
<1>1. IInv => NoFalseRevocation
    BY DEF IInv
<1>. QED BY <1>1, IInvAlways, PTL

(* The user and the expiry ValidateSessionHotPath trusts are those of an   *)
(* access token issued by this run of the server.                          *)
THEOREM SessionsBacked == Spec => []SessionBacked
<1>1. IInv => SessionBacked
    BY DEF IInv
<1>. QED BY <1>1, IInvAlways, PTL

(* While the server runs, a family record keeps its user, its counter never *)
(* goes down and its revocation is final (InsertFamily, AdvanceTokenId,     *)
(* RefreshRejected).                                                        *)
THEOREM FamiliesOnlyForward == Spec => FamiliesForward
<1>1. IInv /\ [Next]_vars => [FamilyForward]_vars
    <2>. SUFFICES ASSUME IInv, Next PROVE FamilyForward
        OBVIOUS
    <2>. USE DEF FamilyForward
    <2>0. /\ \A c \in Conns : pc[c] # "idle" => pair[c].family \in Families
          /\ \A f \in Families : families[f].current \in Int
        BY DEF IInv, BusyInv, TypeOK, Pairs
    <2>1. ASSUME families' = families PROVE FamilyForward
        BY <2>0, <2>1
    <2>2. ASSUME NEW c \in Conns, InsertFamily(c) PROVE FamilyForward
        BY <2>0, <2>2 DEF InsertFamily, IInv, TypeOK, InsertInv
    <2>3. ASSUME NEW c \in Conns, AdvanceTokenId(c) PROVE FamilyForward
        BY <2>0, <2>3 DEF AdvanceTokenId, IInv, TypeOK
    <2>4. ASSUME NEW c \in Conns, RefreshRejected(c) PROVE FamilyForward
        BY <2>0, <2>4 DEF RefreshRejected, IInv, TypeOK
    <2>5. ASSUME Restart PROVE FamilyForward
        BY <2>5 DEF Restart, IInv, TypeOK
    <2>. QED BY <2>1, <2>2, <2>3, <2>4, <2>5
            DEF Next, ProcessLogin, LoginGranted, HandleTokenPacket, TokenGranted,
                HandleRefreshPacket, RefreshGranted, Logout, Disconnect, ReturnSession, Tick
<1>. QED BY <1>1, IInvAlways, PTL DEF Spec, FamiliesForward
=============================================================================
