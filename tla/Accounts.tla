------------------------------ MODULE Accounts ------------------------------
(***************************************************************************)
(* How an account comes to be (authentication/SignUp.cpp): a one-time code *)
(* is requested, mailed and verified, the sign-up is queued for the signup *)
(* thread, written to the mapped file (datastructure/table.h) and added to *)
(* the user store that logins look in (authentication/auth_store.h).  A    *)
(* restart builds the index and the store again from the file.             *)
(*                                                                         *)
(* Worker threads run the packet handlers; the OTP thread and the signup   *)
(* thread wait on a condition variable each.  A wait is two steps, the     *)
(* test of the predicate and going to sleep, so that a notification can    *)
(* come between them unless a mutex keeps it out.  A code is the number of *)
(* its mail; different mails carry different codes.                        *)
(***************************************************************************)
EXTENDS Integers, Sequences, FiniteSets

CONSTANTS
    Workers,      \* IOCP worker threads
    Emails, Names,
    NoEmail, NoName,
    MaxAttempts,  \* verifications allowed for one code (5)
    MaxMails,     \* bound: codes mailed and requested
    MaxRecords,   \* bound: records in the file and sign-ups on their way to it
    MaxRestarts   \* bound: restarts

ASSUME AccountNullAssumption == NoEmail \notin Emails /\ NoName \notin Names
ASSUME AccountBoundAssumption ==
    /\ MaxAttempts \in Nat \ {0} /\ MaxMails \in Nat
    /\ MaxRecords \in Nat /\ MaxRestarts \in Nat

VARIABLES
    otpQueue, opc, oe,     \* the queue of the OTP thread, its place, the address it serves
    mails,                 \* codes mailed so far: the address of each
    expired,               \* the codes 1 .. expired have expired
    otpChecker,            \* the code expected from each address (otp = 0: none)
    emailVerified,
    signUpQueue, spc, se,  \* the queue of the signup thread, its place, its request
    cmutex,                \* TRUE while the signup thread holds it
    disk,                  \* the records of the file
    emailToUid,            \* the addresses isAlreadySignup finds
    users,                 \* user_store_
    wpc, we, wn, guess, otCopy, \* each worker: place, address, name, code, otCopy
    tried,                 \* comparisons made with each code once it was stored
    proved,                \* addresses whose code has been presented
    restarts

otpVars == <<otpQueue, opc, oe, mails>>
checkVars == <<expired, otpChecker, emailVerified>>
signVars == <<signUpQueue, spc, se, cmutex>>
storeVars == <<disk, emailToUid, users, restarts>>
workVars == <<wpc, we, wn, guess, otCopy>>
histVars == <<tried, proved>>
vars == <<otpVars, checkVars, signVars, storeVars, workVars, histVars>>

NoOtp == [otp |-> 0, count |-> 0, stored |-> FALSE]
NoRequest == [email |-> NoEmail, name |-> NoName]
Requests == [email : Emails, name : Names]
Records == [uid : 1 .. MaxRecords, email : Emails, name : Names]

Init ==
    /\ otpQueue = <<>> /\ opc = "check" /\ oe = NoEmail
    /\ otpChecker = [e \in Emails |-> NoOtp]
    /\ emailVerified = [e \in Emails |-> FALSE]
    /\ signUpQueue = <<>> /\ spc = "check" /\ se = NoRequest /\ cmutex = FALSE
    /\ wpc = [w \in Workers |-> "idle"]
    /\ we = [w \in Workers |-> NoEmail]
    /\ wn = [w \in Workers |-> NoName]
    /\ guess = [w \in Workers |-> 0]
    /\ otCopy = [w \in Workers |-> NoOtp]
    /\ mails = <<>> /\ expired = 0
    /\ disk = <<>> /\ emailToUid = {} /\ users = {}
    /\ tried = [n \in 1 .. MaxMails |-> 0] /\ proved = {} /\ restarts = 0

Idle(w) ==
    /\ wpc' = [wpc EXCEPT ![w] = "idle"]
    /\ we' = [we EXCEPT ![w] = NoEmail]
    /\ wn' = [wn EXCEPT ![w] = NoName]
    /\ guess' = [guess EXCEPT ![w] = 0]
    /\ otCopy' = [otCopy EXCEPT ![w] = NoOtp]

Step(w, l) == wpc' = [wpc EXCEPT ![w] = l]

-----------------------------------------------------------------------------
(* One-time codes *)

\* otpRequestHandler of an address that is not registered: push and notify
\* without a lock.  A registered one is told so and nothing changes.
OtpRequest(e) ==
    /\ e \notin emailToUid
    /\ Len(mails) + Len(otpQueue) + (IF opc = "mail" THEN 1 ELSE 0) < MaxMails
    /\ otpQueue' = Append(otpQueue, e)
    /\ opc' = IF opc = "asleep" THEN "check" ELSE opc
    /\ UNCHANGED <<oe, mails, checkVars, signVars, storeVars, workVars, histVars>>

\* otpSenderLoop: the predicate of the wait, then front and pop.
OtpTake ==
    /\ opc = "check"
    /\ otpQueue # <<>>
    /\ oe' = Head(otpQueue)
    /\ otpQueue' = Tail(otpQueue)
    /\ opc' = "mail"
    /\ UNCHANGED <<mails, checkVars, signVars, storeVars, workVars, histVars>>

OtpFindsNothing ==
    /\ opc = "check"
    /\ otpQueue = <<>>
    /\ opc' = "drowsy"
    /\ UNCHANGED <<otpQueue, oe, mails, checkVars, signVars, storeVars, workVars, histVars>>

OtpSleep ==
    /\ opc = "drowsy"
    /\ opc' = "asleep"
    /\ UNCHANGED <<otpQueue, oe, mails, checkVars, signVars, storeVars, workVars, histVars>>

\* The code is mailed and then stored, the code before the counter; no lock is
\* held, so a worker can read the entry in between.
OtpMail ==
    /\ opc = "mail"
    /\ mails' = Append(mails, oe)
    /\ otpChecker' = [otpChecker EXCEPT ![oe].otp = Len(mails) + 1, ![oe].stored = FALSE]
    /\ opc' = "store"
    /\ UNCHANGED <<otpQueue, oe, expired, emailVerified, signVars, storeVars, workVars, histVars>>

OtpStore ==
    /\ opc = "store"
    /\ otpChecker' = [otpChecker EXCEPT ![oe].count = 0, ![oe].stored = TRUE]
    /\ oe' = NoEmail
    /\ opc' = "check"
    /\ UNCHANGED <<otpQueue, mails, expired, emailVerified, signVars, storeVars, workVars, histVars>>

\* 300 seconds have passed since the oldest code that was still good.
OtpExpires ==
    /\ expired < Len(mails)
    /\ expired' = expired + 1
    /\ UNCHANGED <<otpVars, otpChecker, emailVerified, signVars, storeVars, workVars, histVars>>

-----------------------------------------------------------------------------
(* onOtpVerificationRequest *)


\* The entry is copied and counted in one critical section.  Without an entry
\* the client is told so and nothing changes.
CopyAndCount(w, e, g) ==
    /\ wpc[w] = "idle"
    /\ otpChecker[e].otp # 0
    /\ otCopy' = [otCopy EXCEPT ![w] = otpChecker[e]]
    /\ otpChecker' = [otpChecker EXCEPT ![e].count = @ + 1]
    /\ we' = [we EXCEPT ![w] = e]
    /\ guess' = [guess EXCEPT ![w] = g]
    /\ Step(w, "decide")
    /\ UNCHANGED <<otpVars, expired, emailVerified, signVars, storeVars, wn, histVars>>

\* A client sends a code it was mailed for the address, or a wrong one (0).
Guesses(e) == {0} \cup {n \in DOMAIN mails : mails[n] = e}

LimitReached(w) == otCopy[w].count >= MaxAttempts \/ otCopy[w].otp =< expired

Compared(w) ==
    tried' = IF otCopy[w].stored THEN [tried EXCEPT ![otCopy[w].otp] = @ + 1] ELSE tried

Decided(w, l) ==
    /\ Step(w, l)
    /\ guess' = [guess EXCEPT ![w] = 0]
    /\ otCopy' = [otCopy EXCEPT ![w] = NoOtp]

Refuse(w) ==
    /\ wpc[w] = "decide"
    /\ LimitReached(w)
    /\ Decided(w, "erase")
    /\ UNCHANGED <<otpVars, checkVars, signVars, storeVars, we, wn, histVars>>

Mismatch(w) ==
    /\ wpc[w] = "decide"
    /\ ~LimitReached(w)
    /\ guess[w] # otCopy[w].otp
    /\ Compared(w)
    /\ Idle(w)
    /\ UNCHANGED <<otpVars, checkVars, signVars, storeVars, proved>>

Match(w) ==
    /\ wpc[w] = "decide"
    /\ ~LimitReached(w)
    /\ guess[w] = otCopy[w].otp
    /\ Compared(w)
    /\ emailVerified' = [emailVerified EXCEPT ![we[w]] = TRUE]
    /\ proved' = proved \cup {we[w]}
    /\ Decided(w, "confirm")
    /\ UNCHANGED <<otpVars, expired, otpChecker, signVars, storeVars, we, wn>>

Erased(w) == [otpChecker EXCEPT ![we[w]] = NoOtp]

EraseRefused(w) ==
    /\ wpc[w] = "erase"
    /\ otpChecker' = Erased(w)
    /\ Idle(w)
    /\ UNCHANGED <<otpVars, expired, emailVerified, signVars, storeVars, histVars>>

\* The client is told; when it cannot be reached the verification is undone.
EraseConfirmed(w) ==
    /\ wpc[w] = "confirm"
    /\ otpChecker' = Erased(w)
    /\ emailVerified' \in {emailVerified, [emailVerified EXCEPT ![we[w]] = FALSE]}
    /\ Idle(w)
    /\ UNCHANGED <<otpVars, expired, signVars, storeVars, histVars>>

-----------------------------------------------------------------------------
(* signUpRequestHandler and the signup thread *)

SignUpUnverified(w, e, n) ==
    /\ wpc[w] = "idle"
    /\ we' = [we EXCEPT ![w] = e]
    /\ wn' = [wn EXCEPT ![w] = n]
    /\ Step(w, "push")
    /\ UNCHANGED <<otpVars, checkVars, signVars, storeVars, guess, otCopy, histVars>>

SignUpRequest(w, e, n) ==
    /\ wpc[w] = "idle"
    /\ emailVerified[e]
    /\ we' = [we EXCEPT ![w] = e]
    /\ wn' = [wn EXCEPT ![w] = n]
    /\ Step(w, "push")
    /\ UNCHANGED <<otpVars, checkVars, signVars, storeVars, guess, otCopy, histVars>>

PushWithoutLock(w) ==
    /\ wpc[w] = "push"
    /\ Len(disk) + Len(signUpQueue) + (IF spc = "write" THEN 1 ELSE 0) < MaxRecords
    /\ signUpQueue' = Append(signUpQueue, [email |-> we[w], name |-> wn[w]])
    /\ spc' = IF spc = "asleep" THEN "check" ELSE spc
    /\ Idle(w)
    /\ UNCHANGED <<otpVars, checkVars, se, cmutex, storeVars, histVars>>

PushSignUp(w) ==
    /\ wpc[w] = "push"
    /\ ~cmutex
    /\ Len(disk) + Len(signUpQueue) + (IF spc = "write" THEN 1 ELSE 0) < MaxRecords
    /\ signUpQueue' = Append(signUpQueue, [email |-> we[w], name |-> wn[w]])
    /\ spc' = IF spc = "asleep" THEN "check" ELSE spc
    /\ Idle(w)
    /\ UNCHANGED <<otpVars, checkVars, se, cmutex, storeVars, histVars>>

\* signupManager
TakeSignUp ==
    /\ spc = "check"
    /\ signUpQueue # <<>>
    /\ se' = Head(signUpQueue)
    /\ signUpQueue' = Tail(signUpQueue)
    /\ spc' = "write"
    /\ UNCHANGED <<otpVars, checkVars, cmutex, storeVars, workVars, histVars>>

NothingToSignUp ==
    /\ spc = "check"
    /\ signUpQueue = <<>>
    /\ spc' = "drowsy"
    /\ cmutex' = TRUE
    /\ UNCHANGED <<otpVars, checkVars, signUpQueue, se, storeVars, workVars, histVars>>

SignUpSleep ==
    /\ spc = "drowsy"
    /\ spc' = "asleep"
    /\ cmutex' = FALSE
    /\ UNCHANGED <<otpVars, checkVars, signUpQueue, se, storeVars, workVars, histVars>>

\* writeTheData appends the record and flushes it.  The address goes into
\* emailToUid in its encrypted form, where isAlreadySignup does not find it.
WriteTheData ==
    /\ spc = "write"
    /\ disk' = Append(disk, [uid |-> Len(disk) + 1, email |-> se.email, name |-> se.name])
    /\ spc' = "register"
    /\ UNCHANGED <<otpVars, checkVars, signUpQueue, se, cmutex, emailToUid, users, restarts,
                   workVars, histVars>>

\* The hash or the write fails: the request is dropped.
WriteFails ==
    /\ spc = "write"
    /\ spc' = "check"
    /\ se' = NoRequest
    /\ UNCHANGED <<otpVars, checkVars, signUpQueue, cmutex, storeVars, workVars, histVars>>

\* UserStore::Insert: no second account with the address or the name of another.
InsertByEmail(us, r) ==
    IF \E v \in us : v.email = r.email THEN us ELSE us \cup {r}

Insert(us, r) ==
    IF \E v \in us : v.email = r.email \/ v.name = r.name THEN us ELSE us \cup {r}

\* The result of AddUserRecord is not looked at.
AddUserRecord ==
    /\ spc = "register"
    /\ users' = Insert(users, disk[Len(disk)])
    /\ spc' = "check"
    /\ se' = NoRequest
    /\ UNCHANGED <<otpVars, checkVars, signUpQueue, cmutex, disk, emailToUid, restarts,
                   workVars, histVars>>

-----------------------------------------------------------------------------
(* The process ends at any moment and is started again *)


\* loadIndex, getAllRecords and LoadUsersFromDatabase go through the file in order.
LoadUsersFromDatabase(recs) ==
    LET load[k \in 0 .. Len(recs)] == IF k = 0 THEN {} ELSE Insert(load[k - 1], recs[k])
    IN  load[Len(recs)]

Restart ==
    /\ restarts < MaxRestarts
    /\ restarts' = restarts + 1
    /\ otpQueue' = <<>> /\ opc' = "check" /\ oe' = NoEmail
    /\ otpChecker' = [e \in Emails |-> NoOtp]
    /\ emailVerified' = [e \in Emails |-> FALSE]
    /\ signUpQueue' = <<>> /\ spc' = "check" /\ se' = NoRequest /\ cmutex' = FALSE
    /\ wpc' = [w \in Workers |-> "idle"]
    /\ we' = [w \in Workers |-> NoEmail]
    /\ wn' = [w \in Workers |-> NoName]
    /\ guess' = [w \in Workers |-> 0]
    /\ otCopy' = [w \in Workers |-> NoOtp]
    /\ emailToUid' = {disk[k].email : k \in DOMAIN disk}
    /\ users' = LoadUsersFromDatabase(disk)
    /\ UNCHANGED <<mails, expired, disk, histVars>>

-----------------------------------------------------------------------------
Next ==
    \/ \E e \in Emails : OtpRequest(e)
    \/ OtpTake \/ OtpFindsNothing \/ OtpSleep \/ OtpMail \/ OtpStore \/ OtpExpires
    \/ \E w \in Workers :
         \/ \E e \in Emails : \E g \in Guesses(e) : CopyAndCount(w, e, g)
         \/ Refuse(w) \/ Mismatch(w) \/ Match(w) \/ EraseRefused(w) \/ EraseConfirmed(w)
         \/ \E e \in Emails, n \in Names : SignUpRequest(w, e, n)
         \/ PushSignUp(w)
    \/ TakeSignUp \/ NothingToSignUp \/ SignUpSleep \/ WriteTheData \/ WriteFails \/ AddUserRecord
    \/ Restart

Spec == Init /\ [][Next]_vars

-----------------------------------------------------------------------------
(* Properties *)

\* Types; the user store never has two accounts with one address or one name.
TypeOK ==
    /\ otpQueue \in Seq(Emails) /\ oe \in Emails \cup {NoEmail}
    /\ opc \in {"check", "drowsy", "asleep", "mail", "store"}
    /\ mails \in Seq(Emails) /\ expired \in 0 .. Len(mails)
    /\ otpChecker \in [Emails -> [otp : 0 .. MaxMails, count : Nat, stored : BOOLEAN]]
    /\ emailVerified \in [Emails -> BOOLEAN]
    /\ signUpQueue \in Seq(Requests) /\ se \in Requests \cup {NoRequest} /\ cmutex \in BOOLEAN
    /\ spc \in {"check", "drowsy", "asleep", "write", "register"}
    /\ disk \in Seq(Records) /\ emailToUid \subseteq Emails /\ users \subseteq Records
    /\ wpc \in [Workers -> {"idle", "decide", "erase", "confirm", "push"}]
    /\ guess \in [Workers -> 0 .. MaxMails]
    /\ tried \in [1 .. MaxMails -> Nat] /\ proved \subseteq Emails
    /\ \A u, v \in users : u # v => u.email # v.email /\ u.name # v.name


\* Every record in the file belongs to an address whose code was presented, with
\* all the requests, verifications and withdrawals that may come between
\* onOtpVerificationRequest, signUpRequestHandler and signupManager.
AccountsProved == \A k \in DOMAIN disk : disk[k].email \in proved

\* Who can log in does not depend on restarts: the account an address logs in
\* to never changes, although a second record of the same address or the same
\* name may be written to the file (the result of AddUserRecord is ignored).
SameAccount == \A u \in users : u \in users'

\* signUpRequestHandler pushes and notifies under cmutex, so no sign-up that was
\* accepted is left in the queue with the signup thread asleep.
NotAsleepOnWork == spc = "asleep" => signUpQueue = <<>>
=============================================================================
