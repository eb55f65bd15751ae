---------------------------- MODULE AuthSessions ----------------------------
(***************************************************************************)
(* Credentials and refresh sessions of one account (AuthService,           *)
(* UsersService.setStatus, AccessTokenGuard). Accounts share no row, so    *)
(* one is enough.                                                          *)
(*                                                                         *)
(* Each request is a Call that takes several steps. Login, refresh and     *)
(* password change read and verify before they lock the User row; a bulk   *)
(* revocation is an UPDATE whose snapshot of live sessions is taken when   *)
(* the statement starts and re-checked row by row when it ends (PostgreSQL *)
(* READ COMMITTED), so a session inserted in between is not revoked.       *)
(*                                                                         *)
(* A passwordHash is the password with its salt; the salt is the           *)
(* tokenVersion the password was stored with.                              *)
(***************************************************************************)
EXTENDS Naturals, FiniteSets

CONSTANTS
    Sessions,    \* AuthSession rows
    Tokens,      \* PasswordResetToken rows
    Calls,       \* requests in flight
    Passwords,
    MaxVersion,  \* bound on tokenVersion
    None

(* What the constants must satisfy. *)
VersionAssumption == MaxVersion \in Nat
NoneAssumption == None \notin Sessions \cup Tokens \cup Calls \cup Passwords

VARIABLES
    user,      \* the User row
    lock,      \* the call that holds the row lock on User
    session,   \* AuthSession rows, each with the access token signed with it
    token,     \* PasswordResetToken rows and the mails that carry them
    call

vars == <<user, lock, session, token, call>>

-----------------------------------------------------------------------------
(* Rows *)

Versions == 0 .. MaxVersion
Hash == [pwd : Passwords, salt : Versions]
UserRow == [status : {"ACTIVE", "SUSPENDED"}, hash : Hash, version : Versions,
            must : BOOLEAN, suspensions : Versions]
NoUser == [status |-> "NONE"]

(* ver is the version signed into the access token. History: proof is the    *)
(* password hash this chain of refreshes was opened with, parent the session *)
(* it was exchanged for, after the suspensions there had been by then.       *)
SessionRow == [live : BOOLEAN, expired : BOOLEAN, ver : Versions,
               proof : Hash, parent : Sessions \cup {None}, after : Versions]
NoSession == [live |-> FALSE]

(* resets counts the passwords set with the token (history). *)
TokenRow == [used : BOOLEAN, expired : BOOLEAN, mail : {"queued", "sent", "lost"}, resets : Nat]
NoToken == [used |-> TRUE]

Idle == [op |-> "idle"]
CallRow ==
    {Idle}
    \cup [op : {"login"}, pc : {"read", "locked"}, seen : UserRow]
    \cup [op : {"refresh"}, pc : {"read", "locked"}, seen : UserRow, session : Sessions]
    \cup [op : {"forgot"}, scan : SUBSET Tokens]
    \cup [op : {"reset"}, pc : {"read", "locked", "scanned"}, token : Tokens,
          new : Passwords, scan : SUBSET Sessions]
    \cup [op : {"change"}, pc : {"read", "locked", "scanned"}, seen : UserRow,
          new : Passwords, scan : SUBSET Sessions]

(* Every variable has its type. *)
TypeOK ==
    /\ user = NoUser \/ user \in UserRow
    /\ lock \in Calls \cup {None}
    /\ \A s \in Sessions : session[s] = NoSession \/ session[s] \in SessionRow
    /\ \A t \in Tokens : token[t] = NoToken \/ token[t] \in TokenRow
    /\ call \in [Calls -> CallRow]

Init ==
    /\ user = NoUser /\ lock = None
    /\ session = [s \in Sessions |-> NoSession]
    /\ token = [t \in Tokens |-> NoToken]
    /\ call = [q \in Calls |-> Idle]

-----------------------------------------------------------------------------
(* Helpers *)

Active == user.status = "ACTIVE"
Live == {s \in Sessions : session[s].live}
FreeSessions == {s \in Sessions : session[s] = NoSession}
CanBump == user.version < MaxVersion   \* bound

NewUser(p, must) ==
    [status |-> "ACTIVE", hash |-> [pwd |-> p, salt |-> 0], version |-> 0,
     must |-> must, suspensions |-> 0]

Opened(u, proof, parent) ==
    [live |-> TRUE, expired |-> FALSE, ver |-> u.version, proof |-> proof,
     parent |-> parent, after |-> u.suspensions]

(* The user row after a reset or change sets password p. *)
Stored(p) ==
    [user EXCEPT !.hash = [pwd |-> p, salt |-> user.version + 1],
                 !.version = @ + 1, !.must = FALSE]

(* lockCurrentCredential: what was verified is still the credential. *)
Current(seen) ==
    /\ Active
    /\ user.hash = seen.hash /\ user.version = seen.version

(* AccessTokenGuard for the access token signed with session s. *)
Guard(s) ==
    /\ session[s].live /\ ~session[s].expired
    /\ Active /\ user.version = session[s].ver

Finish(q) == call' = [call EXCEPT ![q] = Idle]

(* Take the row lock on User, or wait for it. *)
Lock(q) == lock = None /\ lock' = q
Unlock(q) == lock' = IF lock = q THEN None ELSE lock

-----------------------------------------------------------------------------
(* Accounts *)

(* register: the account and its first session in one transaction. *)
Register(p) ==
    /\ user = NoUser
    /\ user' = NewUser(p, FALSE)
    /\ \E s \in FreeSessions :
           session' = [session EXCEPT ![s] = Opened(NewUser(p, FALSE), NewUser(p, FALSE).hash, None)]
    /\ UNCHANGED <<lock, token, call>>

(* createStaff: a temporary password, to be changed before anything else. *)
CreateStaff(p) ==
    /\ user = NoUser
    /\ user' = NewUser(p, TRUE)
    /\ UNCHANGED <<lock, session, token, call>>

(* setStatus: the guarded update waits for the row lock. Sessions stay.      *)
SetStatus(status) ==
    /\ user # NoUser /\ lock = None
    /\ user.status # status /\ CanBump
    /\ user' = [user EXCEPT !.status = status, !.version = @ + 1,
                    !.suspensions = IF status = "SUSPENDED" THEN @ + 1 ELSE @]
    /\ UNCHANGED <<lock, session, token, call>>

-----------------------------------------------------------------------------
(* Sessions *)

(* login: find the user and verify the password, without a lock. *)
Login(q, p) ==
    /\ call[q] = Idle
    /\ user # NoUser /\ Active /\ user.hash.pwd = p
    /\ call' = [call EXCEPT ![q] = [op |-> "login", pc |-> "read", seen |-> user]]
    /\ UNCHANGED <<user, lock, session, token>>

(* createSession: lock, compare again, insert. *)
LoginLock(q) ==
    /\ call[q].op = "login" /\ call[q].pc = "read"
    /\ IF Current(call[q].seen)
       THEN Lock(q) /\ call' = [call EXCEPT ![q].pc = "locked"]
       ELSE Finish(q) /\ lock = None /\ UNCHANGED lock
    /\ UNCHANGED <<user, session, token>>

LoginCreate(q) ==
    /\ call[q].op = "login" /\ call[q].pc = "locked"
    /\ \E s \in FreeSessions :
           session' = [session EXCEPT ![s] = Opened(user, call[q].seen.hash, None)]
    /\ Unlock(q) /\ Finish(q)
    /\ UNCHANGED <<user, token>>

(* refresh: the session and its user are read first. *)
Refresh(q, s) ==
    /\ call[q] = Idle
    /\ session[s].live /\ ~session[s].expired /\ Active
    /\ call' = [call EXCEPT ![q] = [op |-> "refresh", pc |-> "read", seen |-> user, session |-> s]]
    /\ UNCHANGED <<user, lock, session, token>>

RefreshLock(q) ==
    /\ call[q].op = "refresh" /\ call[q].pc = "read"
    /\ IF Current(call[q].seen)
       THEN Lock(q) /\ call' = [call EXCEPT ![q].pc = "locked"]
       ELSE Finish(q) /\ lock = None /\ UNCHANGED lock
    /\ UNCHANGED <<user, session, token>>

(* Revoke the old session if nobody has, insert the next one. Its expiry is  *)
(* compared with the time the call began.                                    *)
Rotate(q) ==
    /\ call[q].op = "refresh" /\ call[q].pc = "locked"
    /\ LET s == call[q].session IN
           IF session[s].live
           THEN \E n \in FreeSessions :
                    session' = [session EXCEPT ![s].live = FALSE,
                                    ![n] = Opened(user, session[s].proof, s)]
           ELSE UNCHANGED session
    /\ Unlock(q) /\ Finish(q)
    /\ UNCHANGED <<user, token>>

Logout(s) ==
    /\ session[s].live
    /\ session' = [session EXCEPT ![s].live = FALSE]
    /\ UNCHANGED <<user, lock, token, call>>

-----------------------------------------------------------------------------
(* Passwords *)

(* requestPasswordReset: the unused tokens as the bulk update sees them ... *)
Forgot(q) ==
    /\ call[q] = Idle
    /\ user # NoUser /\ Active
    /\ call' = [call EXCEPT ![q] = [op |-> "forgot", scan |-> {t \in Tokens : ~token[t].used}]]
    /\ UNCHANGED <<user, lock, session, token>>

(* ... are marked used, the new one is committed, and its mail is queued.    *)
(* The mail is lost when the queue is down; the answer is the same.          *)
ForgotCommit(q, mail) ==
    /\ call[q].op = "forgot" /\ mail \in {"queued", "lost"}
    /\ \E n \in {t \in Tokens : token[t] = NoToken} :
           token' = [t \in Tokens |->
               IF t = n THEN [used |-> FALSE, expired |-> FALSE, mail |-> mail, resets |-> 0]
               ELSE IF t \in call[q].scan THEN [token[t] EXCEPT !.used = TRUE]
               ELSE token[t]]
    /\ Finish(q)
    /\ UNCHANGED <<user, lock, session>>

(* processPasswordReset: not sent once expired; lost after the last retry. *)
MailReset(t, mail) ==
    /\ token[t] # NoToken /\ token[t].mail = "queued"
    /\ mail = "lost" \/ (mail = "sent" /\ ~token[t].expired)
    /\ token' = [token EXCEPT ![t].mail = mail]
    /\ UNCHANGED <<user, lock, session, call>>

(* resetPassword with the token of a mail; the account's status is not asked. *)
Reset(q, t, p) ==
    /\ call[q] = Idle
    /\ ~token[t].used /\ ~token[t].expired /\ token[t].mail = "sent"
    /\ call' = [call EXCEPT ![q] = [op |-> "reset", pc |-> "read", token |-> t, new |-> p,
                                    scan |-> {}]]
    /\ UNCHANGED <<user, lock, session, token>>

(* Consume the token, then update the user, which takes the row lock. *)
ResetUnchecked(q) ==  \* mutant: the count of consumed tokens is not looked at
    /\ call[q].op = "reset" /\ call[q].pc = "read" /\ CanBump
    /\ Lock(q) /\ call' = [call EXCEPT ![q].pc = "locked"]
    /\ UNCHANGED <<user, session, token>>
ResetLock(q) ==
    /\ call[q].op = "reset" /\ call[q].pc = "read" /\ CanBump
    /\ IF ~token[call[q].token].used
       THEN Lock(q) /\ call' = [call EXCEPT ![q].pc = "locked"]
       ELSE Finish(q) /\ lock = None /\ UNCHANGED lock
    /\ UNCHANGED <<user, session, token>>

(* changePassword behind the guard: verify the old, refuse the same again. *)
Change(q, s, old, new) ==
    /\ call[q] = Idle
    /\ Guard(s) /\ user.hash.pwd = old /\ new # old
    /\ call' = [call EXCEPT ![q] = [op |-> "change", pc |-> "read", seen |-> user, new |-> new,
                                    scan |-> {}]]
    /\ UNCHANGED <<user, lock, session, token>>

ChangeLock(q) ==
    /\ call[q].op = "change" /\ call[q].pc = "read" /\ CanBump
    /\ IF Current(call[q].seen)
       THEN Lock(q) /\ call' = [call EXCEPT ![q].pc = "locked"]
       ELSE Finish(q) /\ lock = None /\ UNCHANGED lock
    /\ UNCHANGED <<user, session, token>>

(* Both end with the bulk revocation: its snapshot ... *)
RevokeScan(q) ==
    /\ call[q].op \in {"reset", "change"} /\ call[q].pc = "locked"
    /\ call' = [call EXCEPT ![q].pc = "scanned", ![q].scan = Live]
    /\ UNCHANGED <<user, lock, session, token>>

(* ... and the commit of password, version, token and revocations. *)
StorePassword(q) ==
    /\ call[q].op \in {"reset", "change"} /\ call[q].pc = "scanned"
    /\ user' = Stored(call[q].new)
    /\ session' = [s \in Sessions |->
           IF s \in call[q].scan THEN [session[s] EXCEPT !.live = FALSE] ELSE session[s]]
    /\ token' = IF call[q].op = "reset"
                THEN [token EXCEPT ![call[q].token].used = TRUE, ![call[q].token].resets = @ + 1]
                ELSE token
    /\ Unlock(q) /\ Finish(q)

-----------------------------------------------------------------------------
(* Faults and time *)

(* A request dies (process stop, connection lost): its transaction rolls     *)
(* back and the lock is released.                                            *)
Abort(q) ==
    /\ call[q] # Idle
    /\ Unlock(q) /\ Finish(q)
    /\ UNCHANGED <<user, session, token>>

ExpireSession(s) ==
    /\ session[s].live /\ ~session[s].expired
    /\ session' = [session EXCEPT ![s].expired = TRUE]
    /\ UNCHANGED <<user, lock, token, call>>

ExpireToken(t) ==
    /\ ~token[t].used /\ ~token[t].expired
    /\ token' = [token EXCEPT ![t].expired = TRUE]
    /\ UNCHANGED <<user, lock, session, call>>

AccountStep ==
    \/ \E p \in Passwords : Register(p) \/ CreateStaff(p)
    \/ \E status \in {"ACTIVE", "SUSPENDED"} : SetStatus(status)
SessionStep ==
    \/ \E q \in Calls, p \in Passwords : Login(q, p)
    \/ \E q \in Calls : LoginLock(q) \/ LoginCreate(q) \/ RefreshLock(q) \/ Rotate(q)
    \/ \E q \in Calls, s \in Sessions : Refresh(q, s)
    \/ \E s \in Sessions : Logout(s)
PasswordStep ==
    \/ \E q \in Calls : Forgot(q) \/ ResetLock(q) \/ ChangeLock(q) \/ RevokeScan(q)
                        \/ StorePassword(q)
    \/ \E q \in Calls, mail \in {"queued", "lost"} : ForgotCommit(q, mail)
    \/ \E q \in Calls, t \in Tokens, p \in Passwords : Reset(q, t, p)
    \/ \E q \in Calls, s \in Sessions, old, new \in Passwords : Change(q, s, old, new)
    \/ \E t \in Tokens, mail \in {"sent", "lost"} : MailReset(t, mail)
FaultStep ==
    \/ \E q \in Calls : Abort(q)
    \/ \E s \in Sessions : ExpireSession(s)
    \/ \E t \in Tokens : ExpireToken(t)

Next == AccountStep \/ SessionStep \/ PasswordStep \/ FaultStep
Spec == Init /\ [][Next]_vars

-----------------------------------------------------------------------------
(* Properties *)

(* No session outlives the password it was opened with, nor is one opened    *)
(* after that password was changed or reset: refresh and login racing with   *)
(* a change or reset ("A reset/change that won the lock must never be        *)
(* followed by a new session").                                              *)
NoSessionOutlivesPassword == \A s \in Live : session[s].proof = user.hash

(* A refresh token is exchanged at most once, however many tabs or retries   *)
(* present it at the same time.                                              *)
ExchangedOnce ==
    \A s, t \in Sessions \ FreeSessions :
        session[s].parent = session[t].parent /\ s # t => session[s].parent = None

(* A reset token sets a password at most once, even when two requests with   *)
(* it have both been checked before either commits.                          *)
ResetOnce == \A t \in Tokens : token[t] # NoToken => token[t].resets <= 1

(* An access token signed before a suspension never passes the guard again,  *)
(* also not after the account is restored, although its session survives.    *)
SuspensionEndsAccess ==
    \A s \in Sessions : user # NoUser /\ Guard(s) => session[s].after = user.suspensions

(* A revoked or used credential opens nothing, in any order of the requests *)
(* that race: the four parts above.                                         *)
CredentialsEnd ==
    /\ NoSessionOutlivesPassword
    /\ ExchangedOnce
    /\ ResetOnce
    /\ SuspensionEndsAccess

=============================================================================
