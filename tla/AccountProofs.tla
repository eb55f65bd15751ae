--------------------------- MODULE AccountProofs ---------------------------
(***************************************************************************)
(* Proofs about an account. First its sessions and passwords, for any      *)
(* number of sessions, reset tokens, requests in flight and passwords, and *)
(* any bound on the version; then its address book, for any number of      *)
(* addresses, texts and tabs.                                              *)
(*                                                                         *)
(* What makes the races safe is the row lock on User: a call past its lock *)
(* step is the only one that can insert a session, store a password or     *)
(* change the version (Entry). A session that survives carries the current *)
(* hash, an exchanged one is dead and has one successor (SessionOK,        *)
(* ParentsApart), and a call that has its reset token locked is the only   *)
(* one that sets a password with it.                                       *)
(***************************************************************************)
EXTENDS AuthSessions, FiniteSetTheorems, TLAPS

(* An absent value is none of the values; versions are counted up to a bound. *)
Assumptions == VersionAssumption /\ NoneAssumption

-----------------------------------------------------------------------------
(* The inductive invariant *)

Known == user # NoUser

UserOK == Known => user \in UserRow /\ user.suspensions <= user.version

Opening(row) == row.op \in {"login", "refresh"}
Storing(row) == row.op \in {"reset", "change"}

(* The call is past its lock step. *)
Holding(row) == (Opening(row) \/ Storing(row)) /\ row.pc \in {"locked", "scanned"}

(* What a call in flight may rely on, l being the holder of the lock. *)
Entry(row, q, l) ==
    /\ row # Idle => Known
    /\ Holding(row) => l = q
    /\ row.op = "login" /\ Holding(row) => row.seen.hash = user.hash
    /\ Storing(row) /\ Holding(row) => CanBump
    /\ Storing(row) /\ row.pc = "scanned" => Live \subseteq row.scan
    /\ row.op = "reset" => token[row.token] # NoToken
    /\ row.op = "reset" /\ Holding(row) => token[row.token].resets = 0
    /\ row.op = "forgot" => \A t \in row.scan : token[t] # NoToken

CallsInv == /\ call \in [Calls -> CallRow] /\ lock \in Calls \cup {None}
            /\ \A q \in Calls : Entry(call[q], q, lock)

(* A session row that is in use, u being the user and f the free rows. *)
SessionOK(row, u, f) ==
    row # NoSession =>
      /\ u # NoUser
      /\ row.live => row.proof = u.hash
      /\ row.ver <= u.version
      /\ row.ver = u.version => row.after = u.suspensions
      /\ row.parent # None => row.parent \notin f

ParentsApart ==
    \A s, t \in Sessions \ FreeSessions :
      /\ session[s].parent = session[t].parent /\ s # t => session[s].parent = None
      /\ session[s].parent \notin Live

SessionsInv == /\ session \in [Sessions -> SessionRow \cup {NoSession}]
               /\ \A s \in Sessions : SessionOK(session[s], user, FreeSessions)
               /\ ParentsApart

TokenOK(row) == row # NoToken => /\ Known /\ row.resets <= 1
                                 /\ ~row.used => row.resets = 0

TokensInv == /\ token \in [Tokens -> TokenRow \cup {NoToken}]
             /\ \A t \in Tokens : TokenOK(token[t])

IInv == UserOK /\ CallsInv /\ SessionsInv /\ TokensInv

-----------------------------------------------------------------------------
(* Rows *)

LEMMA NoRows ==
    /\ NoSession \notin SessionRow /\ NoToken \notin TokenRow /\ NoUser \notin UserRow
    /\ NoSession.live = FALSE /\ NoToken.used = TRUE
<1>1. DOMAIN NoSession = {"live"} /\ DOMAIN NoToken = {"used"} /\ DOMAIN NoUser = {"status"}
  BY DEF NoSession, NoToken, NoUser
<1>2. \A row \in SessionRow : "ver" \in DOMAIN row
  BY DEF SessionRow
<1>3. \A row \in TokenRow : "mail" \in DOMAIN row
  BY DEF TokenRow
<1>4. \A row \in UserRow : "hash" \in DOMAIN row
  BY DEF UserRow
<1>5. NoSession.live = FALSE /\ NoToken.used = TRUE
  BY DEF NoSession, NoToken
<1> QED
  BY <1>1, <1>2, <1>3, <1>4, <1>5

(* A row that is written differs from the one it replaces in one field.     *)
LEMMA WrittenSession ==
    ASSUME NEW row \in SessionRow, NEW new \in SessionRow \cup {NoSession},
           \/ new = [row EXCEPT !.live = FALSE]
           \/ new = [row EXCEPT !.expired = TRUE]
    PROVE  /\ new \in SessionRow
           /\ new.live => row.live
           /\ new.proof = row.proof /\ new.ver = row.ver /\ new.parent = row.parent
           /\ new.after = row.after
BY DEF SessionRow

LEMMA ClosedRow ==
    ASSUME NEW row \in SessionRow
    PROVE  /\ [row EXCEPT !.live = FALSE] \in SessionRow
           /\ [row EXCEPT !.expired = TRUE] \in SessionRow
           /\ [row EXCEPT !.live = FALSE].live = FALSE
BY DEF SessionRow

LEMMA FreeRow == [NoSession EXCEPT !.live = FALSE] = NoSession
<1>1. NoSession \in [live : BOOLEAN] /\ NoSession.live = FALSE
  BY DEF NoSession
<1>2. ASSUME NEW row \in [live : BOOLEAN], row.live = FALSE
      PROVE  [row EXCEPT !.live = FALSE] = row
  BY <1>2
<1> QED
  BY <1>1, <1>2

LEMMA OpenedRow ==
    ASSUME NEW u \in UserRow, NEW proof \in Hash, NEW parent \in Sessions \cup {None}
    PROVE  /\ Opened(u, proof, parent) \in SessionRow
           /\ Opened(u, proof, parent).live
           /\ Opened(u, proof, parent).proof = proof
           /\ Opened(u, proof, parent).ver = u.version
           /\ Opened(u, proof, parent).parent = parent
           /\ Opened(u, proof, parent).after = u.suspensions
BY DEF Opened, SessionRow, UserRow

LEMMA IdleRow ==
    /\ Idle \in CallRow
    /\ \A q, l : Entry(Idle, q, l)
BY DEF Idle, CallRow, Entry, Holding, Opening, Storing

-----------------------------------------------------------------------------
(* Calls *)

TokensStay == \A t \in Tokens : token[t] # NoToken => token'[t] # NoToken
CountsStay == \A t \in Tokens : token[t] # NoToken => token'[t].resets = token[t].resets

(* Only the call that has the lock is past its lock step.                   *)
LEMMA Alone ==
    ASSUME Assumptions, CallsInv, NEW q \in Calls, NEW p \in Calls, p # q, lock \in {None, q}
    PROVE  ~Holding(call[p])
BY DEF CallsInv, Entry, Assumptions, NoneAssumption

LEMMA CallFields ==
    ASSUME NEW row \in CallRow
    PROVE  /\ row.op = "reset" => row.token \in Tokens
           /\ row.op = "forgot" => row.scan \subseteq Tokens
           /\ row.op = "refresh" => row.session \in Sessions
           /\ row.op = "login" => row.seen \in UserRow
           /\ Storing(row) => row.scan \subseteq Sessions /\ row.new \in Passwords
BY DEF CallRow, Idle, Storing

LEMMA EntryFree ==
    ASSUME NEW row \in CallRow, NEW p, NEW l, NEW m, Entry(row, p, l), ~Holding(row),
           Known => Known', TokensStay
    PROVE  Entry(row, p, m)'
BY CallFields DEF Entry, TokensStay, Holding

LEMMA EntryHeld ==
    ASSUME NEW row \in CallRow, NEW p, NEW l, Entry(row, p, l),
           UNCHANGED user, Live' \subseteq Live, TokensStay, CountsStay
    PROVE  Entry(row, p, l)'
BY CallFields DEF Entry, TokensStay, CountsStay, Known, CanBump

(* The lock after a step: kept, taken by a call or given back by it.        *)
Handed(q) == lock' \in Calls \cup {None} /\ (lock' = lock \/ lock \in {None, q})

LEMMA CallMoves ==
    ASSUME Assumptions, CallsInv, NEW q \in Calls, NEW row \in CallRow,
           call' = [call EXCEPT ![q] = row], Handed(q), Entry(row, q, lock'),
           UNCHANGED <<user, session, token>>
    PROVE  CallsInv'
<1>1. PICK l : l = lock'
  OBVIOUS
<1>2. UNCHANGED user /\ Live' \subseteq Live /\ TokensStay /\ CountsStay /\ (Known => Known')
  BY DEF Live, TokensStay, CountsStay, Known
<1>3. Entry(row, q, l)'
  BY <1>1, <1>2, EntryHeld
<1>4. ASSUME NEW p \in Calls, p # q
      PROVE  Entry(call[p], p, l)'
  <2>1. PICK other : other = call[p]
    OBVIOUS
  <2>2. PICK k : k = lock
    OBVIOUS
  <2>3. other \in CallRow /\ Entry(other, p, k) /\ call'[p] = other
    BY <1>4, <2>1, <2>2 DEF CallsInv
  <2>4. CASE l = k
    BY <1>2, <2>3, <2>4, EntryHeld
  <2>5. CASE l # k
    <3>1. ~Holding(other)
      BY <1>1, <1>4, <2>1, <2>2, <2>5, Alone DEF Handed
    <3> QED
      BY <1>2, <2>3, <3>1, EntryFree
  <2> QED
    BY <2>4, <2>5
<1> QED
  BY <1>1, <1>3, <1>4 DEF CallsInv, Handed

(* The call that has the lock, or needs none, ends; whatever it wrote.      *)
LEMMA CallCommits ==
    ASSUME Assumptions, CallsInv, NEW q \in Calls, lock = q, Known => Known', TokensStay,
           call' = [call EXCEPT ![q] = Idle], lock' = None
    PROVE  CallsInv'
<1>1. PICK l : l = lock'
  OBVIOUS
<1>2. ASSUME NEW p \in Calls
      PROVE  Entry(call[p], p, l)'
  <2>1. CASE p = q
    BY <2>1 DEF CallsInv, Entry, Holding, Opening, Storing, Idle
  <2>2. CASE p # q
    <3>1. PICK other : other = call[p]
      OBVIOUS
    <3>2. PICK k : k = lock
      OBVIOUS
    <3>3. other \in CallRow /\ Entry(other, p, k) /\ call'[p] = other /\ ~Holding(other)
      BY <2>2, <3>1, <3>2, Alone DEF CallsInv
    <3> QED
      BY <3>3, EntryFree
  <2> QED
    BY <2>1, <2>2
<1> QED
  BY <1>1, <1>2, IdleRow DEF CallsInv

LEMMA CallEnds ==
    ASSUME CallsInv, NEW q \in Calls, UNCHANGED <<user, lock, session>>,
           TokensStay, CountsStay, call' = [call EXCEPT ![q] = Idle]
    PROVE  CallsInv'
<1>1. PICK l : l = lock
  OBVIOUS
<1>2. UNCHANGED user /\ Live' \subseteq Live
  BY DEF Live
<1>3. ASSUME NEW p \in Calls
      PROVE  Entry(call[p], p, l)'
  <2>1. PICK row : row = call'[p]
    OBVIOUS
  <2>2. row \in CallRow /\ Entry(row, p, l)
    BY <1>1, <2>1, IdleRow DEF CallsInv
  <2>3. Entry(row, p, l)'
    BY <1>2, <2>2, EntryHeld
  <2> QED
    BY <2>1, <2>3
<1> QED
  BY <1>1, <1>3, IdleRow DEF CallsInv

LEMMA CallsAside ==
    ASSUME CallsInv, UNCHANGED <<user, lock, call>>, Live' \subseteq Live, TokensStay, CountsStay
    PROVE  CallsInv'
<1>1. PICK l : l = lock
  OBVIOUS
<1>2. ASSUME NEW p \in Calls
      PROVE  Entry(call[p], p, l)'
  <2>1. PICK row : row = call[p]
    OBVIOUS
  <2>2. row \in CallRow /\ Entry(row, p, l)
    BY <1>1, <2>1 DEF CallsInv
  <2>3. Entry(row, p, l)'
    BY <2>2, EntryHeld
  <2> QED
    BY <2>1, <2>3
<1> QED
  BY <1>1, <1>2 DEF CallsInv

(* Nobody has the lock while a status is set; an account begins without a   *)
(* call.                                                                    *)
LEMMA CallsUnlocked ==
    ASSUME Assumptions, CallsInv, lock = None, UNCHANGED <<lock, call>>, Known => Known', TokensStay
    PROVE  CallsInv'
<1>1. PICK l : l = lock
  OBVIOUS
<1>2. ASSUME NEW p \in Calls
      PROVE  Entry(call[p], p, l)'
  <2>1. PICK row : row = call[p]
    OBVIOUS
  <2>2. row \in CallRow /\ Entry(row, p, l) /\ ~Holding(row)
    BY <1>1, <2>1 DEF CallsInv, Entry, Assumptions, NoneAssumption
  <2>3. Entry(row, p, l)'
    BY <2>2, EntryFree
  <2> QED
    BY <2>1, <2>3
<1> QED
  BY <1>1, <1>2 DEF CallsInv

-----------------------------------------------------------------------------
(* Sessions *)

(* Rows stay what they are, but may be revoked.                             *)
Kept == /\ session' \in [Sessions -> SessionRow \cup {NoSession}]
        /\ \A s \in Sessions :
             /\ session'[s] = NoSession <=> session[s] = NoSession
             /\ session'[s].live => session[s].live
             /\ session[s] # NoSession =>
                  /\ session'[s].proof = session[s].proof /\ session'[s].ver = session[s].ver
                  /\ session'[s].parent = session[s].parent
                  /\ session'[s].after = session[s].after

LEMMA KeptSets ==
    ASSUME Kept
    PROVE  FreeSessions' = FreeSessions /\ Live' \subseteq Live
BY DEF Kept, FreeSessions, Live

LEMMA ParentsKept ==
    ASSUME SessionsInv, Kept
    PROVE  ParentsApart'
BY KeptSets DEF SessionsInv, ParentsApart, Kept, FreeSessions

LEMMA SessionsKept ==
    ASSUME SessionsInv, Kept, UNCHANGED user
    PROVE  SessionsInv'
<1>1. ASSUME NEW s \in Sessions
      PROVE  SessionOK(session[s], user, FreeSessions)'
  BY KeptSets DEF SessionsInv, SessionOK, Kept
<1> QED
  BY <1>1, ParentsKept DEF SessionsInv, Kept

(* The version moves on: no access token has the new one yet.               *)
LEMMA SessionsBumped ==
    ASSUME UserOK, SessionsInv, Kept, Known, Known', user'.version = user.version + 1,
           \A s \in Sessions : session'[s].live => user'.hash = user.hash
    PROVE  SessionsInv'
<1>1. ASSUME NEW s \in Sessions
      PROVE  SessionOK(session[s], user, FreeSessions)'
  <2>1. CASE session[s] = NoSession
    BY <2>1 DEF Kept, SessionOK
  <2>2. CASE session[s] # NoSession
    <3>1. session[s].ver \in Nat /\ user.version \in Nat /\ session[s].ver <= user.version
      BY <2>2 DEF SessionsInv, SessionOK, SessionRow, Versions, UserOK, UserRow
    <3>2. session'[s].ver <= user'.version /\ session'[s].ver # user'.version
      BY <2>2, <3>1 DEF Kept
    <3>3. session'[s].live => session'[s].proof = user'.hash
      BY <2>2 DEF SessionsInv, SessionOK, Kept
    <3>4. session'[s].parent # None => session'[s].parent \notin FreeSessions'
      BY <2>2, KeptSets DEF SessionsInv, SessionOK, Kept
    <3> QED
      BY <3>2, <3>3, <3>4 DEF SessionOK, Known
  <2> QED
    BY <2>1, <2>2
<1> QED
  BY <1>1, ParentsKept DEF SessionsInv, Kept

(* A session is inserted, in exchange for one that is revoked or for none.  *)
Exchanged(n, old, proof) ==
    session' = [s \in Sessions |-> IF s = n THEN Opened(user, proof, old)
                                   ELSE IF s = old THEN [session[s] EXCEPT !.live = FALSE]
                                   ELSE session[s]]

LEMMA SessionInserted ==
    ASSUME Assumptions, UserOK, SessionsInv, Known, UNCHANGED user,
           NEW n \in FreeSessions, NEW old \in Live \cup {None}, NEW proof, proof = user.hash,
           Exchanged(n, old, proof)
    PROVE  SessionsInv'
<1>1. PICK new : new = Opened(user, proof, old)
  OBVIOUS
<1>2. user \in UserRow /\ proof \in Hash /\ n \in Sessions /\ old \in Sessions \cup {None}
  BY DEF UserOK, UserRow, FreeSessions, Live
<1>3. /\ new \in SessionRow /\ new.live /\ new.proof = user.hash /\ new.ver = user.version
      /\ new.parent = old /\ new.after = user.suspensions
  BY <1>1, <1>2, OpenedRow
<1>4. /\ session' \in [Sessions -> SessionRow \cup {NoSession}]
      /\ session'[n] = new
      /\ \A s \in Sessions \ {n} :
           /\ session'[s] = NoSession <=> session[s] = NoSession
           /\ session'[s].live => session[s].live /\ s # old
           /\ session[s] # NoSession =>
                  /\ session'[s].proof = session[s].proof /\ session'[s].ver = session[s].ver
                  /\ session'[s].parent = session[s].parent
                  /\ session'[s].after = session[s].after
  <2>1. ASSUME NEW s \in Sessions \ {n}
        PROVE  /\ session'[s] \in SessionRow \cup {NoSession}
               /\ session'[s] = NoSession <=> session[s] = NoSession
               /\ session'[s].live => session[s].live /\ s # old
               /\ session[s] # NoSession =>
                    /\ session'[s].proof = session[s].proof /\ session'[s].ver = session[s].ver
                    /\ session'[s].parent = session[s].parent
                    /\ session'[s].after = session[s].after
    <3>1. CASE s = old
      <4>1. session[s] \in SessionRow
        BY <3>1, NoRows DEF SessionsInv, Live, Assumptions, NoneAssumption
      <4>2. session'[s] = [session[s] EXCEPT !.live = FALSE]
        BY <3>1, <2>1 DEF Exchanged
      <4>3. PICK row \in SessionRow : row = session[s]
        BY <4>1
      <4>4. PICK dead : dead = [row EXCEPT !.live = FALSE]
        OBVIOUS
      <4>5. dead \in SessionRow /\ dead.live = FALSE
        BY <4>4, ClosedRow
      <4>6. /\ dead.proof = row.proof /\ dead.ver = row.ver /\ dead.parent = row.parent
            /\ dead.after = row.after
        BY <4>4, <4>5, WrittenSession
      <4> QED
        BY <4>2, <4>3, <4>4, <4>5, <4>6, NoRows
    <3>2. CASE s # old
      BY <2>1, <3>2 DEF Exchanged, SessionsInv
    <3> QED
      BY <3>1, <3>2
  <2>2. session'[n] = new
    BY <1>1, <1>2 DEF Exchanged
  <2>3. session' = [s \in Sessions |-> session'[s]]
    BY DEF Exchanged
  <2>4. \A s \in Sessions : session'[s] \in SessionRow \cup {NoSession}
    BY <1>3, <2>1, <2>2
  <2> QED
    BY <2>1, <2>2, <2>3, <2>4
<1>5. FreeSessions' = FreeSessions \ {n} /\ Live' \subseteq (Live \ {old}) \cup {n}
  BY <1>3, <1>4, NoRows DEF FreeSessions, Live
<1>6. old \notin FreeSessions
  BY NoRows DEF FreeSessions, Live, Assumptions, NoneAssumption
<1>7. ASSUME NEW s \in Sessions
      PROVE  SessionOK(session[s], user, FreeSessions)'
  <2>1. CASE s = n
    <3>1. user.version \in Nat
      BY <1>2 DEF UserRow, Versions
    <3> QED
      BY <1>3, <1>4, <1>5, <1>6, <2>1, <3>1 DEF SessionOK, Known
  <2>2. CASE s # n
    BY <1>4, <1>5, <2>2 DEF SessionsInv, SessionOK
  <2> QED
    BY <2>1, <2>2
<1>8. ParentsApart'
  <2>1. ASSUME NEW s \in Sessions \ FreeSessions', NEW u \in Sessions \ FreeSessions'
        PROVE  /\ session'[s].parent = session'[u].parent /\ s # u => session'[s].parent = None
               /\ session'[s].parent \notin Live'
    <3>1. ASSUME NEW v \in Sessions \ FreeSessions', v # n
          PROVE  /\ v \notin FreeSessions /\ session'[v].parent = session[v].parent
                 /\ session[v].parent # n /\ session[v].parent \notin Live
      <4>1. v \in Sessions \ FreeSessions /\ session[v] # NoSession
        BY <1>5, <3>1 DEF FreeSessions
      <4> QED
        BY <1>2, <1>4, <3>1, <4>1 DEF SessionsInv, SessionOK, ParentsApart, Assumptions, NoneAssumption
    <3>2. session'[n].parent = old /\ old # n
      BY <1>3, <1>4, <1>6
    <3>3. old \notin Live'
      BY <1>5, <3>2
    <3>4. CASE s # n /\ u # n
      BY <1>5, <3>1, <3>4 DEF SessionsInv, ParentsApart
    <3>5. CASE s = n /\ u # n
      BY <1>5, <3>1, <3>2, <3>3, <3>5
    <3>6. CASE s # n /\ u = n
      BY <1>5, <3>1, <3>2, <3>3, <3>6
    <3>7. CASE s = n /\ u = n
      BY <3>2, <3>3, <3>7
    <3> QED
      BY <3>4, <3>5, <3>6, <3>7
  <2> QED
    BY <2>1 DEF ParentsApart
<1> QED
  BY <1>4, <1>7, <1>8 DEF SessionsInv

(* One session is revoked or expires.                                       *)
LEMMA SessionWritten ==
    ASSUME SessionsInv, NEW s \in Sessions, session[s].live,
           \/ session' = [session EXCEPT ![s].live = FALSE]
           \/ session' = [session EXCEPT ![s].expired = TRUE]
    PROVE  Kept
<1>1. session[s] \in SessionRow
  BY NoRows DEF SessionsInv
<1>2. PICK row \in SessionRow : row = session[s]
  BY <1>1
<1>3. PICK new : /\ session' = [session EXCEPT ![s] = new]
                 /\ \/ new = [row EXCEPT !.live = FALSE]
                    \/ new = [row EXCEPT !.expired = TRUE]
  BY <1>2
<1>4. new \in SessionRow
  BY <1>3, ClosedRow
<1>5. /\ new.live => row.live
      /\ new.proof = row.proof /\ new.ver = row.ver /\ new.parent = row.parent
      /\ new.after = row.after
  BY <1>3, <1>4, WrittenSession
<1>6. session'[s] = new /\ \A v \in Sessions \ {s} : session'[v] = session[v]
  BY <1>3 DEF SessionsInv
<1> QED
  BY <1>2, <1>3, <1>4, <1>5, <1>6, NoRows DEF SessionsInv, Kept

LEMMA SessionsRevoked ==
    ASSUME SessionsInv, NEW X,
           session' = [s \in Sessions |-> IF s \in X THEN [session[s] EXCEPT !.live = FALSE]
                                          ELSE session[s]]
    PROVE  Kept /\ \A s \in Sessions : session'[s].live => s \notin X
<1>1. ASSUME NEW s \in Sessions
      PROVE  /\ session'[s] \in SessionRow \cup {NoSession}
             /\ session'[s] = NoSession <=> session[s] = NoSession
             /\ session'[s].live => session[s].live /\ s \notin X
             /\ session[s] # NoSession =>
                  /\ session'[s].proof = session[s].proof /\ session'[s].ver = session[s].ver
                  /\ session'[s].parent = session[s].parent
                  /\ session'[s].after = session[s].after
  <2>1. CASE s \in X /\ session[s] # NoSession
    <3>1. PICK row \in SessionRow : row = session[s]
      BY <2>1 DEF SessionsInv
    <3>2. PICK dead : dead = [row EXCEPT !.live = FALSE]
      OBVIOUS
    <3>3. dead \in SessionRow /\ dead.live = FALSE
      BY <3>2, ClosedRow
    <3>4. /\ dead.proof = row.proof /\ dead.ver = row.ver /\ dead.parent = row.parent
          /\ dead.after = row.after
      BY <3>2, <3>3, WrittenSession
    <3> QED
      BY <2>1, <3>1, <3>2, <3>3, <3>4, NoRows
  <2>2. CASE s \in X /\ session[s] = NoSession
    BY <2>2, FreeRow, NoRows
  <2>3. CASE s \notin X
    BY <2>3 DEF SessionsInv
  <2> QED
    BY <2>1, <2>2, <2>3
<1> QED
  BY <1>1 DEF Kept

-----------------------------------------------------------------------------
(* Steps that only move a call *)

OnlyCalls == UNCHANGED <<user, session, token>>

LEMMA RowsAside ==
    ASSUME IInv, OnlyCalls
    PROVE  UserOK' /\ SessionsInv' /\ TokensInv'
BY DEF IInv, OnlyCalls, UserOK, Known, SessionsInv, SessionOK, FreeSessions, ParentsApart, Live,
       TokensInv, TokenOK

LEMMA MovesInvariant ==
    ASSUME Assumptions, IInv, NEW q \in Calls, NEW row \in CallRow,
           call' = [call EXCEPT ![q] = row], Handed(q), Entry(row, q, lock'), OnlyCalls
    PROVE  IInv'
BY CallMoves, RowsAside DEF IInv, OnlyCalls

(* A call begins by reading.                                                *)
LEMMA LoginStep ==
    ASSUME Assumptions, IInv, NEW q \in Calls, NEW p, Login(q, p)
    PROVE  IInv'
<1>1. PICK row : row = [op |-> "login", pc |-> "read", seen |-> user]
  OBVIOUS
<1>2. user \in UserRow /\ Known
  BY DEF Login, IInv, UserOK, Known
<1>3. row \in CallRow /\ Entry(row, q, lock)
  BY <1>1, <1>2 DEF CallRow, Entry, Holding, Opening, Storing
<1> QED
  BY <1>1, <1>3, MovesInvariant DEF Login, Handed, OnlyCalls, IInv, CallsInv

LEMMA RefreshStep ==
    ASSUME Assumptions, IInv, NEW q \in Calls, NEW s \in Sessions, Refresh(q, s)
    PROVE  IInv'
<1>1. PICK row : row = [op |-> "refresh", pc |-> "read", seen |-> user, session |-> s]
  OBVIOUS
<1>2. user \in UserRow /\ Known
  BY NoRows DEF Refresh, IInv, UserOK, Known, SessionsInv, SessionOK
<1>3. row \in CallRow /\ Entry(row, q, lock)
  BY <1>1, <1>2 DEF CallRow, Entry, Holding, Opening, Storing
<1> QED
  BY <1>1, <1>3, MovesInvariant DEF Refresh, Handed, OnlyCalls, IInv, CallsInv

LEMMA ForgotStep ==
    ASSUME Assumptions, IInv, NEW q \in Calls, Forgot(q)
    PROVE  IInv'
<1>1. PICK row : row = [op |-> "forgot", scan |-> {t \in Tokens : ~token[t].used}]
  OBVIOUS
<1>2. row \in CallRow /\ Entry(row, q, lock)
  BY <1>1, NoRows DEF CallRow, Entry, Holding, Opening, Storing, Forgot, Known
<1> QED
  BY <1>1, <1>2, MovesInvariant DEF Forgot, Handed, OnlyCalls, IInv, CallsInv

LEMMA ResetStep ==
    ASSUME Assumptions, IInv, NEW q \in Calls, NEW t \in Tokens, NEW p \in Passwords, Reset(q, t, p)
    PROVE  IInv'
<1>1. PICK row : row = [op |-> "reset", pc |-> "read", token |-> t, new |-> p, scan |-> {}]
  OBVIOUS
<1>2. token[t] # NoToken /\ Known
  BY NoRows DEF Reset, IInv, TokensInv, TokenOK
<1>3. row \in CallRow /\ Entry(row, q, lock)
  BY <1>1, <1>2 DEF CallRow, Entry, Holding, Opening, Storing
<1> QED
  BY <1>1, <1>3, MovesInvariant DEF Reset, Handed, OnlyCalls, IInv, CallsInv

LEMMA ChangeStep ==
    ASSUME Assumptions, IInv, NEW q \in Calls, NEW s \in Sessions, NEW old, NEW new \in Passwords,
           Change(q, s, old, new)
    PROVE  IInv'
<1>1. PICK row : row = [op |-> "change", pc |-> "read", seen |-> user, new |-> new, scan |-> {}]
  OBVIOUS
<1>2. user \in UserRow /\ Known
  BY NoRows DEF Change, Guard, IInv, UserOK, Known, SessionsInv, SessionOK
<1>3. row \in CallRow /\ Entry(row, q, lock)
  BY <1>1, <1>2 DEF CallRow, Entry, Holding, Opening, Storing
<1> QED
  BY <1>1, <1>3, MovesInvariant DEF Change, Handed, OnlyCalls, IInv, CallsInv

(* A call passes its lock step: only its program counter moves.             *)
Locked(new, row) ==
    /\ new \in CallRow /\ new.op = row.op /\ new.pc = "locked"
    /\ row.op \in {"login", "refresh"} => new.seen = row.seen
    /\ row.op = "reset" => new.token = row.token

LEMMA LockedRow ==
    ASSUME NEW row \in CallRow, Opening(row) \/ Storing(row), NEW new,
           new = [row EXCEPT !.pc = "locked"]
    PROVE  Locked(new, row)
<1>1. CASE row.op = "login"
  <2>1. row \in [op : {"login"}, pc : {"read", "locked"}, seen : UserRow]
    BY <1>1 DEF CallRow, Idle
  <2>2. new \in [op : {"login"}, pc : {"read", "locked"}, seen : UserRow]
    BY <2>1
  <2> QED
    BY <2>1, <2>2 DEF CallRow, Locked
<1>2. CASE row.op = "refresh"
  <2>1. row \in [op : {"refresh"}, pc : {"read", "locked"}, seen : UserRow, session : Sessions]
    BY <1>2 DEF CallRow, Idle
  <2>2. new \in [op : {"refresh"}, pc : {"read", "locked"}, seen : UserRow, session : Sessions]
    BY <2>1
  <2> QED
    BY <2>1, <2>2 DEF CallRow, Locked
<1>3. CASE row.op = "reset"
  <2>1. row \in [op : {"reset"}, pc : {"read", "locked", "scanned"}, token : Tokens,
                 new : Passwords, scan : SUBSET Sessions]
    BY <1>3 DEF CallRow, Idle
  <2>2. new \in [op : {"reset"}, pc : {"read", "locked", "scanned"}, token : Tokens,
                 new : Passwords, scan : SUBSET Sessions]
    BY <2>1
  <2> QED
    BY <2>1, <2>2 DEF CallRow, Locked
<1>4. CASE row.op = "change"
  <2>1. row \in [op : {"change"}, pc : {"read", "locked", "scanned"}, seen : UserRow,
                 new : Passwords, scan : SUBSET Sessions]
    BY <1>4 DEF CallRow, Idle
  <2>2. new \in [op : {"change"}, pc : {"read", "locked", "scanned"}, seen : UserRow,
                 new : Passwords, scan : SUBSET Sessions]
    BY <2>1
  <2> QED
    BY <2>1, <2>2 DEF CallRow, Locked
<1> QED
  BY <1>1, <1>2, <1>3, <1>4 DEF Opening, Storing

(* The lock step of a call whose check fails ends it.                       *)
LEMMA EndsInvariant ==
    ASSUME Assumptions, IInv, NEW q \in Calls, Finish(q), Handed(q), OnlyCalls
    PROVE  IInv'
BY IdleRow, MovesInvariant DEF Finish

LEMMA LocksInvariant ==
    ASSUME Assumptions, IInv, NEW q \in Calls, Opening(call[q]) \/ Storing(call[q]),
           call[q].pc = "read", Lock(q), call' = [call EXCEPT ![q].pc = "locked"], OnlyCalls,
           call[q].op = "login" => call[q].seen.hash = user.hash,
           Storing(call[q]) => CanBump,
           call[q].op = "reset" => ~token[call[q].token].used
    PROVE  IInv'
<1>1. PICK row : row = call[q]
  OBVIOUS
<1>2. row \in CallRow /\ Entry(row, q, lock)
  BY <1>1 DEF IInv, CallsInv
<1>3. PICK new : new = [row EXCEPT !.pc = "locked"]
  OBVIOUS
<1>4. Locked(new, row)
  BY <1>1, <1>2, <1>3, LockedRow
<1>5. row.op = "reset" => token[row.token].resets = 0
  BY <1>1, <1>2, CallFields DEF IInv, TokensInv, TokenOK, Entry
<1>6. row # Idle
  BY <1>1 DEF Idle, Opening, Storing
<1>7. Entry(new, q, lock')
  BY <1>1, <1>2, <1>4, <1>5, <1>6 DEF Entry, Locked, Holding, Opening, Storing, Lock
<1>8. call' = [call EXCEPT ![q] = new]
  BY <1>1, <1>3
<1> QED
  BY <1>4, <1>7, <1>8, MovesInvariant DEF Locked, Handed, Lock

LEMMA LoginLockStep ==
    ASSUME Assumptions, IInv, NEW q \in Calls, LoginLock(q)
    PROVE  IInv'
<1>1. CASE Current(call[q].seen)
  BY <1>1, LocksInvariant DEF LoginLock, Current, Opening, Storing, OnlyCalls
<1>2. CASE ~Current(call[q].seen)
  BY <1>2, EndsInvariant DEF LoginLock, Handed, OnlyCalls, IInv, CallsInv
<1> QED
  BY <1>1, <1>2

LEMMA RefreshLockStep ==
    ASSUME Assumptions, IInv, NEW q \in Calls, RefreshLock(q)
    PROVE  IInv'
<1>1. CASE Current(call[q].seen)
  BY <1>1, LocksInvariant DEF RefreshLock, Opening, Storing, OnlyCalls
<1>2. CASE ~Current(call[q].seen)
  BY <1>2, EndsInvariant DEF RefreshLock, Handed, OnlyCalls, IInv, CallsInv
<1> QED
  BY <1>1, <1>2

LEMMA ResetLockStep ==
    ASSUME Assumptions, IInv, NEW q \in Calls, ResetLock(q)
    PROVE  IInv'
<1>1. CASE ~token[call[q].token].used
  BY <1>1, LocksInvariant DEF ResetLock, Opening, Storing, OnlyCalls
<1>2. CASE token[call[q].token].used
  BY <1>2, EndsInvariant DEF ResetLock, Handed, OnlyCalls, IInv, CallsInv
<1> QED
  BY <1>1, <1>2

LEMMA ChangeLockStep ==
    ASSUME Assumptions, IInv, NEW q \in Calls, ChangeLock(q)
    PROVE  IInv'
<1>1. CASE Current(call[q].seen)
  BY <1>1, LocksInvariant DEF ChangeLock, Opening, Storing, OnlyCalls
<1>2. CASE ~Current(call[q].seen)
  BY <1>2, EndsInvariant DEF ChangeLock, Handed, OnlyCalls, IInv, CallsInv
<1> QED
  BY <1>1, <1>2

LEMMA AbortStep ==
    ASSUME Assumptions, IInv, NEW q \in Calls, Abort(q)
    PROVE  IInv'
BY EndsInvariant DEF Abort, Unlock, Handed, OnlyCalls, IInv, CallsInv

(* The snapshot of the bulk revocation holds every live session.            *)
Scanned(new, row, scan) ==
    /\ new \in CallRow /\ new.op = row.op /\ new.pc = "scanned" /\ new.scan = scan
    /\ row.op = "reset" => new.token = row.token

LEMMA ScannedRow ==
    ASSUME NEW row \in CallRow, Storing(row), NEW scan \in SUBSET Sessions, NEW new,
           new = [row EXCEPT !.pc = "scanned", !.scan = scan]
    PROVE  Scanned(new, row, scan)
<1>1. CASE row.op = "reset"
  <2>1. row \in [op : {"reset"}, pc : {"read", "locked", "scanned"}, token : Tokens,
                 new : Passwords, scan : SUBSET Sessions]
    BY <1>1 DEF CallRow, Idle
  <2>2. /\ new \in [op : {"reset"}, pc : {"read", "locked", "scanned"}, token : Tokens,
                    new : Passwords, scan : SUBSET Sessions]
        /\ new.op = row.op /\ new.pc = "scanned" /\ new.scan = scan /\ new.token = row.token
    BY <2>1
  <2> QED
    BY <2>2 DEF CallRow, Scanned
<1>2. CASE row.op = "change"
  <2>1. row \in [op : {"change"}, pc : {"read", "locked", "scanned"}, seen : UserRow,
                 new : Passwords, scan : SUBSET Sessions]
    BY <1>2 DEF CallRow, Idle
  <2>2. /\ new \in [op : {"change"}, pc : {"read", "locked", "scanned"}, seen : UserRow,
                    new : Passwords, scan : SUBSET Sessions]
        /\ new.op = row.op /\ new.pc = "scanned" /\ new.scan = scan
    BY <2>1
  <2> QED
    BY <1>2, <2>2 DEF CallRow, Scanned
<1> QED
  BY <1>1, <1>2 DEF Storing

LEMMA RevokeScanStep ==
    ASSUME Assumptions, IInv, NEW q \in Calls, RevokeScan(q)
    PROVE  IInv'
<1>1. PICK row : row = call[q]
  OBVIOUS
<1>2. row \in CallRow /\ Entry(row, q, lock) /\ Storing(row) /\ Holding(row)
  BY <1>1 DEF IInv, CallsInv, RevokeScan, Storing, Holding
<1>3. PICK new : new = [row EXCEPT !.pc = "scanned", !.scan = Live]
  OBVIOUS
<1>4. Scanned(new, row, Live)
  BY <1>2, <1>3, ScannedRow DEF Live
<1>5. row # Idle
  BY <1>2 DEF Idle, Storing
<1>6. Entry(new, q, lock)
  BY <1>2, <1>4, <1>5 DEF Entry, Scanned, Holding, Opening, Storing
<1>7. call' = [call EXCEPT ![q] = new]
  BY <1>1, <1>3 DEF RevokeScan
<1> QED
  BY <1>4, <1>6, <1>7, MovesInvariant DEF RevokeScan, Scanned, Handed, OnlyCalls, IInv, CallsInv

-----------------------------------------------------------------------------
(* Steps of accounts *)

NoTokenMoves == UNCHANGED token /\ (Known => Known')

LEMMA TokensAside ==
    ASSUME TokensInv, NoTokenMoves
    PROVE  TokensInv' /\ TokensStay /\ CountsStay
BY DEF TokensInv, TokenOK, NoTokenMoves, TokensStay, CountsStay

LEMMA NewUserRow ==
    ASSUME Assumptions, NEW p \in Passwords, NEW must \in BOOLEAN
    PROVE  /\ NewUser(p, must) \in UserRow
           /\ NewUser(p, must).suspensions <= NewUser(p, must).version
           /\ NewUser(p, must) # NoUser
<1>1. NewUser(p, must) \in UserRow /\ NewUser(p, must).suspensions <= NewUser(p, must).version
  BY DEF NewUser, UserRow, Hash, Versions, Assumptions, VersionAssumption
<1> QED
  BY <1>1, NoRows

(* Before the account there is nothing.                                     *)
LEMMA NothingYet ==
    ASSUME IInv, ~Known
    PROVE  /\ \A s \in Sessions : session[s] = NoSession
           /\ \A t \in Tokens : token[t] = NoToken
           /\ \A q \in Calls : call[q] = Idle
BY DEF IInv, SessionsInv, SessionOK, Known, TokensInv, TokenOK, CallsInv, Entry

LEMMA NoCallYet ==
    ASSUME IInv, ~Known, UNCHANGED <<lock, call>>
    PROVE  CallsInv'
<1>1. ASSUME NEW q \in Calls
      PROVE  Entry(call[q], q, lock)'
  BY NothingYet DEF Entry, Holding, Opening, Storing, Idle
<1> QED
  BY <1>1 DEF IInv, CallsInv

LEMMA RegisterStep ==
    ASSUME Assumptions, IInv, NEW p \in Passwords, Register(p)
    PROVE  IInv'
<1>1. PICK u : u = NewUser(p, FALSE)
  OBVIOUS
<1>2. u \in UserRow /\ u.suspensions <= u.version /\ u # NoUser /\ user' = u
  BY <1>1, NewUserRow DEF Register
<1>3. ~Known
  BY DEF Register, Known
<1>4. PICK n \in FreeSessions : session' = [session EXCEPT ![n] = Opened(u, u.hash, None)]
  BY <1>1 DEF Register
<1>5. PICK new : new = Opened(u, u.hash, None)
  OBVIOUS
<1>6. /\ new \in SessionRow /\ new.live /\ new.proof = u.hash /\ new.ver = u.version
      /\ new.parent = None /\ new.after = u.suspensions
  BY <1>2, <1>5, OpenedRow DEF UserRow
<1>7. /\ session' \in [Sessions -> SessionRow \cup {NoSession}]
      /\ session'[n] = new
      /\ \A s \in Sessions \ {n} : session'[s] = NoSession
  BY <1>3, <1>4, <1>5, <1>6, NothingYet DEF IInv, SessionsInv, FreeSessions
<1>8. SessionsInv'
  <2>1. ASSUME NEW s \in Sessions
        PROVE  SessionOK(session[s], user, FreeSessions)'
    <3>1. u.version \in Nat
      BY <1>2 DEF UserRow, Versions
    <3> QED
      BY <1>2, <1>6, <1>7, <3>1 DEF SessionOK
  <2>2. Sessions \ FreeSessions' \subseteq {n}
    BY <1>7 DEF FreeSessions
  <2>3. None \notin Live'
    BY DEF Live, Assumptions, NoneAssumption
  <2>4. ParentsApart'
    BY <1>6, <1>7, <2>2, <2>3 DEF ParentsApart
  <2> QED
    BY <1>7, <2>1, <2>4 DEF SessionsInv
<1>9. UserOK' /\ Known'
  BY <1>2 DEF UserOK, Known
<1>10. CallsInv' /\ TokensInv'
  BY <1>3, <1>9, NoCallYet, TokensAside DEF Register, IInv, NoTokenMoves
<1> QED
  BY <1>8, <1>9, <1>10 DEF IInv

LEMMA CreateStaffStep ==
    ASSUME Assumptions, IInv, NEW p \in Passwords, CreateStaff(p)
    PROVE  IInv'
<1>1. PICK u : u = NewUser(p, TRUE)
  OBVIOUS
<1>2. u \in UserRow /\ u.suspensions <= u.version /\ u # NoUser /\ user' = u
  BY <1>1, NewUserRow DEF CreateStaff
<1>3. ~Known
  BY DEF CreateStaff, Known
<1>4. UserOK' /\ Known'
  BY <1>2 DEF UserOK, Known
<1>5. CallsInv' /\ TokensInv'
  BY <1>3, <1>4, NoCallYet, TokensAside DEF CreateStaff, IInv, NoTokenMoves
<1>6. \A s \in Sessions : session'[s] = NoSession
  BY <1>3, NothingYet DEF CreateStaff
<1>7. SessionsInv'
  BY <1>6 DEF SessionsInv, SessionOK, ParentsApart, FreeSessions, IInv, CreateStaff
<1> QED
  BY <1>4, <1>5, <1>7 DEF IInv

(* What SetStatus writes: the tokens of the user end with the old version.  *)
Bumped(u, status) ==
    [u EXCEPT !.status = status, !.version = @ + 1,
              !.suspensions = IF status = "SUSPENDED" THEN @ + 1 ELSE @]

(* The user row after its version is bumped.                                *)
LEMMA BumpedUser ==
    ASSUME NEW u \in UserRow, u.suspensions <= u.version, u.version < MaxVersion, Assumptions,
           NEW status \in {"ACTIVE", "SUSPENDED"}, NEW w, w = Bumped(u, status)
    PROVE  /\ w \in UserRow /\ w.suspensions <= w.version /\ w.version = u.version + 1
           /\ w.hash = u.hash
<1>1. PICK k : k = IF status = "SUSPENDED" THEN u.suspensions + 1 ELSE u.suspensions
  OBVIOUS
<1>2. u.version + 1 \in Versions /\ k \in Versions /\ k <= u.version + 1
  BY <1>1 DEF UserRow, Versions, Assumptions, VersionAssumption
<1>3. w = [u EXCEPT !.status = status, !.version = u.version + 1, !.suspensions = k]
  BY <1>1 DEF Bumped
<1> QED
  BY <1>2, <1>3 DEF UserRow

LEMMA SetStatusStep ==
    ASSUME Assumptions, IInv, NEW status \in {"ACTIVE", "SUSPENDED"}, SetStatus(status)
    PROVE  IInv'
<1>1. PICK u : u = user
  OBVIOUS
<1>2. u \in UserRow /\ u.suspensions <= u.version /\ u.version < MaxVersion
  BY <1>1 DEF IInv, UserOK, Known, SetStatus, CanBump
<1>3. PICK w : w = user'
  OBVIOUS
<1>4. w = Bumped(u, status)
  BY <1>1, <1>3 DEF SetStatus, Bumped
<1>5. /\ w \in UserRow /\ w.suspensions <= w.version /\ w.version = u.version + 1
      /\ w.hash = u.hash
  BY <1>2, <1>4, BumpedUser
<1>6. UserOK' /\ Known /\ Known'
  BY <1>3, <1>5, NoRows DEF UserOK, Known, SetStatus
<1>7. Kept
  BY DEF Kept, SetStatus, IInv, SessionsInv
<1>8. SessionsInv'
  BY <1>1, <1>3, <1>5, <1>6, <1>7, SessionsBumped DEF IInv
<1>9. TokensInv' /\ TokensStay
  BY <1>6, TokensAside DEF SetStatus, IInv, NoTokenMoves
<1>10. CallsInv'
  BY <1>6, <1>9, CallsUnlocked DEF SetStatus, IInv
<1> QED
  BY <1>6, <1>8, <1>9, <1>10 DEF IInv

-----------------------------------------------------------------------------
(* Steps of sessions *)

LEMMA UserAside ==
    ASSUME UserOK, UNCHANGED user
    PROVE  UserOK' /\ (Known => Known')
BY DEF UserOK, Known

LEMMA LoginCreateStep ==
    ASSUME Assumptions, IInv, NEW q \in Calls, LoginCreate(q)
    PROVE  IInv'
<1>1. Known /\ lock = q /\ call[q].seen.hash = user.hash
  BY DEF LoginCreate, IInv, CallsInv, Entry, Holding, Opening, Idle
<1>2. PICK proof : proof = user.hash
  OBVIOUS
<1>3. PICK n \in FreeSessions : session' = [session EXCEPT ![n] = Opened(user, proof, None)]
  BY <1>1, <1>2 DEF LoginCreate
<1>4. Exchanged(n, None, proof)
  BY <1>3 DEF Exchanged, IInv, SessionsInv, Assumptions, NoneAssumption
<1>5. SessionsInv'
  BY <1>1, <1>2, <1>4, SessionInserted DEF LoginCreate, IInv
<1>6. UserOK' /\ TokensInv' /\ TokensStay /\ (Known => Known')
  BY UserAside, TokensAside DEF LoginCreate, IInv, NoTokenMoves
<1>7. CallsInv'
  BY <1>1, <1>6, CallCommits DEF LoginCreate, Unlock, Finish, IInv
<1> QED
  BY <1>5, <1>6, <1>7 DEF IInv

LEMMA RotateStep ==
    ASSUME Assumptions, IInv, NEW q \in Calls, Rotate(q)
    PROVE  IInv'
<1>1. Known /\ lock = q /\ call[q].session \in Sessions
  BY CallFields DEF Rotate, IInv, CallsInv, Entry, Holding, Opening, Idle
<1>2. PICK s \in Sessions : s = call[q].session
  BY <1>1
<1>3. SessionsInv'
  <2>1. CASE session[s].live
    <3>1. PICK n \in FreeSessions :
              session' = [session EXCEPT ![s].live = FALSE,
                              ![n] = Opened(user, session[s].proof, s)]
      BY <1>2, <2>1 DEF Rotate
    <3>2. PICK proof : proof = session[s].proof
      OBVIOUS
    <3>3. s \in Live /\ n # s /\ proof = user.hash
      BY <2>1, <3>2, NoRows DEF Live, FreeSessions, IInv, SessionsInv, SessionOK
    <3>4. PICK dead : dead = [session[s] EXCEPT !.live = FALSE]
      OBVIOUS
    <3>5. PICK new : new = Opened(user, proof, s)
      OBVIOUS
    <3>6. session' = [session EXCEPT ![s] = dead, ![n] = new]
      BY <3>1, <3>2, <3>4, <3>5
    <3>7. session' = [v \in Sessions |-> IF v = n THEN new ELSE IF v = s THEN dead ELSE session[v]]
      BY <3>3, <3>6 DEF IInv, SessionsInv
    <3>8. Exchanged(n, s, proof)
      BY <3>4, <3>5, <3>7 DEF Exchanged
    <3> QED
      BY <1>1, <3>3, <3>8, SessionInserted DEF Rotate, IInv
  <2>2. CASE ~session[s].live
    <3>1. UNCHANGED <<session, user>>
      BY <1>2, <2>2 DEF Rotate
    <3>2. Kept
      BY <3>1 DEF Kept, IInv, SessionsInv
    <3> QED
      BY <3>1, <3>2, SessionsKept DEF IInv
  <2> QED
    BY <2>1, <2>2
<1>4. UserOK' /\ TokensInv' /\ TokensStay /\ (Known => Known')
  BY UserAside, TokensAside DEF Rotate, IInv, NoTokenMoves
<1>5. CallsInv'
  BY <1>1, <1>4, CallCommits DEF Rotate, Unlock, Finish, IInv
<1> QED
  BY <1>3, <1>4, <1>5 DEF IInv

(* A session is only revoked or expires.                                    *)
LEMMA SessionEnds ==
    ASSUME IInv, Kept, UNCHANGED <<user, lock, token, call>>
    PROVE  IInv'
<1>1. UserOK' /\ TokensInv' /\ TokensStay /\ CountsStay
  BY UserAside, TokensAside DEF IInv, NoTokenMoves
<1>2. CallsInv'
  BY <1>1, KeptSets, CallsAside DEF IInv
<1> QED
  BY <1>1, <1>2, SessionsKept DEF IInv

LEMMA LogoutStep ==
    ASSUME IInv, NEW s \in Sessions, Logout(s)
    PROVE  IInv'
BY SessionWritten, SessionEnds DEF Logout, IInv

LEMMA ExpireSessionStep ==
    ASSUME IInv, NEW s \in Sessions, ExpireSession(s)
    PROVE  IInv'
BY SessionWritten, SessionEnds DEF ExpireSession, IInv

-----------------------------------------------------------------------------
(* Steps of passwords and their tokens *)

LEMMA WrittenToken ==
    ASSUME NEW row \in TokenRow, NEW mail \in {"sent", "lost"}
    PROVE  /\ [row EXCEPT !.mail = mail] \in TokenRow
           /\ [row EXCEPT !.mail = mail].used = row.used
           /\ [row EXCEPT !.mail = mail].resets = row.resets
           /\ [row EXCEPT !.expired = TRUE] \in TokenRow
           /\ [row EXCEPT !.expired = TRUE].used = row.used
           /\ [row EXCEPT !.expired = TRUE].resets = row.resets
           /\ [row EXCEPT !.used = TRUE] \in TokenRow
           /\ [row EXCEPT !.used = TRUE].used
           /\ [row EXCEPT !.used = TRUE].resets = row.resets
BY DEF TokenRow

LEMMA FreeToken == [NoToken EXCEPT !.used = TRUE] = NoToken
<1>1. NoToken \in [used : BOOLEAN] /\ NoToken.used = TRUE
  BY DEF NoToken
<1>2. ASSUME NEW row \in [used : BOOLEAN], row.used = TRUE
      PROVE  [row EXCEPT !.used = TRUE] = row
  BY <1>2
<1> QED
  BY <1>1, <1>2

LEMMA NewTokenRow ==
    ASSUME NEW mail \in {"queued", "lost"}, NEW row,
           row = [used |-> FALSE, expired |-> FALSE, mail |-> mail, resets |-> 0]
    PROVE  row \in TokenRow /\ row.resets = 0 /\ row # NoToken
<1>1. row \in TokenRow /\ row.resets = 0
  BY DEF TokenRow
<1> QED
  BY <1>1, NoRows

LEMMA ForgotCommitStep ==
    ASSUME Assumptions, IInv, NEW q \in Calls, NEW mail, ForgotCommit(q, mail)
    PROVE  IInv'
<1>1. Known
  BY DEF ForgotCommit, IInv, CallsInv, Entry, Idle
<1>2. PICK n \in Tokens :
          /\ token[n] = NoToken
          /\ token' = [t \in Tokens |->
               IF t = n THEN [used |-> FALSE, expired |-> FALSE, mail |-> mail, resets |-> 0]
               ELSE IF t \in call[q].scan THEN [token[t] EXCEPT !.used = TRUE]
               ELSE token[t]]
  BY DEF ForgotCommit
<1>3. PICK new : new = [used |-> FALSE, expired |-> FALSE, mail |-> mail, resets |-> 0]
  OBVIOUS
<1>4. new \in TokenRow /\ new.resets = 0 /\ new # NoToken
  BY <1>3, NewTokenRow DEF ForgotCommit
<1>5. ASSUME NEW t \in Tokens
      PROVE  /\ token'[t] \in TokenRow \cup {NoToken}
             /\ token[t] # NoToken => token'[t] # NoToken /\ token'[t].resets = token[t].resets
             /\ token'[t] # NoToken => token'[t].resets <= 1
             /\ token'[t] # NoToken /\ ~token'[t].used => token'[t].resets = 0
  <2>1. CASE t = n
    BY <1>2, <1>3, <1>4, <2>1
  <2>2. CASE t # n /\ t \in call[q].scan /\ token[t] # NoToken
    <3>1. PICK row \in TokenRow : row = token[t]
      BY <2>2 DEF IInv, TokensInv
    <3>2. token'[t] = [row EXCEPT !.used = TRUE]
      BY <1>2, <2>2, <3>1
    <3> QED
      BY <2>2, <3>1, <3>2, WrittenToken, NoRows DEF IInv, TokensInv, TokenOK
  <2>3. CASE t # n /\ (t \notin call[q].scan \/ token[t] = NoToken)
    <3>1. token'[t] = token[t]
      BY <1>2, <2>3, FreeToken
    <3> QED
      BY <3>1 DEF IInv, TokensInv, TokenOK
  <2> QED
    BY <2>1, <2>2, <2>3
<1>6. UserOK' /\ Known'
  BY <1>1, UserAside DEF ForgotCommit, IInv
<1>7. token' = [t \in Tokens |-> token'[t]]
  BY <1>2
<1>8. TokensInv' /\ TokensStay /\ CountsStay
  BY <1>5, <1>6, <1>7 DEF TokensInv, TokenOK, TokensStay, CountsStay
<1>9. CallsInv'
  BY <1>8, CallEnds DEF ForgotCommit, Finish, IInv
<1>10. SessionsInv'
  BY DEF ForgotCommit, IInv, SessionsInv, SessionOK, ParentsApart, FreeSessions, Live
<1> QED
  BY <1>6, <1>8, <1>9, <1>10 DEF IInv

(* A token row is written, but neither used nor counted.                    *)
LEMMA TokenWritten ==
    ASSUME IInv, NEW t \in Tokens, token[t] # NoToken, NEW new \in TokenRow,
           new.used = token[t].used, new.resets = token[t].resets,
           token' = [token EXCEPT ![t] = new], UNCHANGED <<user, lock, session, call>>
    PROVE  IInv'
<1>1. /\ token' \in [Tokens -> TokenRow \cup {NoToken}]
      /\ token'[t] = new /\ new # NoToken /\ \A x \in Tokens \ {t} : token'[x] = token[x]
  BY NoRows DEF IInv, TokensInv
<1>2. UserOK' /\ (Known => Known')
  BY UserAside DEF IInv
<1>3. TokensInv' /\ TokensStay /\ CountsStay
  BY <1>1, <1>2 DEF IInv, TokensInv, TokenOK, TokensStay, CountsStay
<1>4. CallsInv'
  BY <1>3, CallsAside DEF IInv, Live
<1>5. SessionsInv'
  BY DEF IInv, SessionsInv, SessionOK, ParentsApart, FreeSessions, Live
<1> QED
  BY <1>2, <1>3, <1>4, <1>5 DEF IInv

LEMMA MailResetStep ==
    ASSUME IInv, NEW t \in Tokens, NEW mail \in {"sent", "lost"}, MailReset(t, mail)
    PROVE  IInv'
<1>1. PICK row \in TokenRow : row = token[t] /\ row # NoToken
  BY DEF MailReset, IInv, TokensInv
<1>2. PICK new : new = [row EXCEPT !.mail = mail]
  OBVIOUS
<1>3. new \in TokenRow /\ new.used = row.used /\ new.resets = row.resets
  BY <1>2, WrittenToken
<1>4. token' = [token EXCEPT ![t] = new]
  BY <1>1, <1>2 DEF MailReset
<1> QED
  BY <1>1, <1>3, <1>4, TokenWritten DEF MailReset

LEMMA ExpireTokenStep ==
    ASSUME IInv, NEW t \in Tokens, ExpireToken(t)
    PROVE  IInv'
<1>1. PICK row \in TokenRow : row = token[t] /\ row # NoToken
  BY NoRows DEF ExpireToken, IInv, TokensInv
<1>2. PICK new : new = [row EXCEPT !.expired = TRUE]
  OBVIOUS
<1>3. new \in TokenRow /\ new.used = row.used /\ new.resets = row.resets
  BY <1>2, WrittenToken
<1>4. token' = [token EXCEPT ![t] = new]
  BY <1>1, <1>2 DEF ExpireToken
<1> QED
  BY <1>1, <1>3, <1>4, TokenWritten DEF ExpireToken

(* The user row with a new password.                                        *)
LEMMA StoredUser ==
    ASSUME NEW u \in UserRow, u.suspensions <= u.version, u.version < MaxVersion, Assumptions,
           NEW p \in Passwords,
           NEW w, w = [u EXCEPT !.hash = [pwd |-> p, salt |-> u.version + 1],
                           !.version = @ + 1, !.must = FALSE]
    PROVE  w \in UserRow /\ w.suspensions <= w.version /\ w.version = u.version + 1
<1>1. u.version + 1 \in Versions /\ u.version \in Nat /\ u.suspensions \in Nat
  BY DEF UserRow, Versions, Assumptions, VersionAssumption
<1>2. PICK h \in Hash : h = [pwd |-> p, salt |-> u.version + 1]
  BY <1>1 DEF Hash
<1>3. PICK k \in Versions : k = u.version + 1
  BY <1>1
<1>4. PICK v : v = [u EXCEPT !.hash = h]
  OBVIOUS
<1>5. v \in UserRow /\ v.suspensions = u.suspensions
  BY <1>4 DEF UserRow
<1>6. PICK x : x = [v EXCEPT !.version = k]
  OBVIOUS
<1>7. x \in UserRow /\ x.suspensions = v.suspensions /\ x.version = k
  BY <1>5, <1>6 DEF UserRow
<1>8. w = [x EXCEPT !.must = FALSE]
  BY <1>2, <1>3, <1>4, <1>6 DEF UserRow
<1>9. w \in UserRow /\ w.suspensions = x.suspensions /\ w.version = x.version
  BY <1>7, <1>8 DEF UserRow
<1> QED
  BY <1>1, <1>3, <1>5, <1>7, <1>9

LEMMA CountedToken ==
    ASSUME NEW row \in TokenRow, row.resets = 0, NEW new,
           new = [row EXCEPT !.used = TRUE, !.resets = @ + 1]
    PROVE  new \in TokenRow /\ new.used /\ new.resets = 1 /\ new # NoToken
<1>1. PICK used : used = [row EXCEPT !.used = TRUE]
  OBVIOUS
<1>2. used \in TokenRow /\ used.used /\ used.resets = 0
  BY <1>1 DEF TokenRow
<1>3. new = [used EXCEPT !.resets = 1]
  BY <1>1 DEF TokenRow
<1>4. new \in TokenRow /\ new.used /\ new.resets = 1
  BY <1>2, <1>3 DEF TokenRow
<1> QED
  BY <1>4, NoRows

LEMMA StorePasswordStep ==
    ASSUME Assumptions, IInv, NEW q \in Calls, StorePassword(q)
    PROVE  IInv'
<1>1. PICK row \in CallRow : row = call[q]
  BY DEF IInv, CallsInv
<1>2. /\ Storing(row) /\ row.pc = "scanned" /\ Holding(row) /\ row # Idle
      /\ Entry(row, q, lock) /\ row.new \in Passwords /\ row.scan \subseteq Sessions
  BY <1>1, CallFields DEF StorePassword, Storing, Holding, Idle, IInv, CallsInv
<1>3. lock = q /\ Known /\ CanBump /\ Live \subseteq row.scan
  BY <1>2 DEF Entry
<1>4. PICK u : u = user
  OBVIOUS
<1>5. u \in UserRow /\ u.suspensions <= u.version /\ u.version < MaxVersion
  BY <1>3, <1>4 DEF IInv, UserOK, CanBump
<1>6. PICK w : w = user'
  OBVIOUS
<1>7. w \in UserRow /\ w.suspensions <= w.version /\ w.version = u.version + 1
  BY <1>1, <1>2, <1>4, <1>5, <1>6, StoredUser DEF StorePassword, Stored
<1>8. UserOK' /\ Known'
  BY <1>6, <1>7, NoRows DEF UserOK, Known
<1>9. Kept /\ \A s \in Sessions : ~session'[s].live
  <2>1. Kept /\ \A s \in Sessions : session'[s].live => s \notin row.scan
    BY <1>1, SessionsRevoked DEF StorePassword, IInv
  <2> QED
    BY <1>3, <2>1 DEF Kept, Live
<1>10. SessionsInv'
  BY <1>3, <1>4, <1>6, <1>7, <1>8, <1>9, SessionsBumped DEF IInv
<1>11. TokensInv' /\ TokensStay
  <2>1. CASE row.op = "reset"
    <3>1. PICK t \in Tokens : t = row.token
      BY <2>1, CallFields
    <3>2. token[t] \in TokenRow /\ token[t] # NoToken /\ token[t].resets = 0
      BY <1>2, <2>1, <3>1 DEF Entry, IInv, TokensInv
    <3>3. PICK old \in TokenRow : old = token[t]
      BY <3>2
    <3>4. PICK new : new = [old EXCEPT !.used = TRUE, !.resets = @ + 1]
      OBVIOUS
    <3>5. new \in TokenRow /\ new.used /\ new.resets = 1 /\ new # NoToken
      BY <3>2, <3>3, <3>4, CountedToken
    <3>6. token' = [token EXCEPT ![t] = new]
      BY <1>1, <2>1, <3>1, <3>3, <3>4 DEF StorePassword
    <3>7. /\ token' \in [Tokens -> TokenRow \cup {NoToken}]
          /\ token'[t] = new /\ \A x \in Tokens \ {t} : token'[x] = token[x]
      BY <3>5, <3>6 DEF IInv, TokensInv
    <3> QED
      BY <1>8, <3>5, <3>7 DEF IInv, TokensInv, TokenOK, TokensStay
  <2>2. CASE row.op # "reset"
    BY <1>1, <1>8, <2>2, TokensAside DEF StorePassword, IInv, NoTokenMoves
  <2> QED
    BY <2>1, <2>2
<1>12. CallsInv'
  BY <1>3, <1>8, <1>11, CallCommits DEF StorePassword, Unlock, Finish, IInv
<1> QED
  BY <1>8, <1>10, <1>11, <1>12 DEF IInv

-----------------------------------------------------------------------------
(* The invariant is inductive *)

LEMMA InitIInv ==
    ASSUME Assumptions, Init
    PROVE  IInv
<1>1. UserOK /\ ~Known
  BY DEF Init, UserOK, Known
<1>2. CallsInv
  BY IdleRow DEF Init, CallsInv
<1>3. SessionsInv
  BY DEF Init, SessionsInv, SessionOK, ParentsApart, FreeSessions
<1>4. TokensInv
  BY DEF Init, TokensInv, TokenOK
<1> QED
  BY <1>1, <1>2, <1>3, <1>4 DEF IInv

LEMMA NextIInv ==
    ASSUME Assumptions, IInv, Next
    PROVE  IInv'
<1>1. CASE AccountStep
  BY <1>1, RegisterStep, CreateStaffStep, SetStatusStep DEF AccountStep
<1>2. CASE SessionStep
  BY <1>2, LoginStep, LoginLockStep, LoginCreateStep, RefreshLockStep, RotateStep, RefreshStep,
     LogoutStep DEF SessionStep
<1>3. CASE PasswordStep
  BY <1>3, ForgotStep, ResetLockStep, ChangeLockStep, RevokeScanStep, StorePasswordStep,
     ForgotCommitStep, ResetStep, ChangeStep, MailResetStep DEF PasswordStep
<1>4. CASE FaultStep
  BY <1>4, AbortStep, ExpireSessionStep, ExpireTokenStep DEF FaultStep
<1> QED
  BY <1>1, <1>2, <1>3, <1>4 DEF Next

LEMMA StutterIInv ==
    ASSUME IInv, UNCHANGED vars
    PROVE  IInv'
<1>1. UserOK' /\ SessionsInv' /\ TokensInv'
  BY RowsAside DEF vars, OnlyCalls
<1>2. CallsInv'
  BY CallsAside DEF IInv, vars, Live, TokensStay, CountsStay
<1> QED
  BY <1>1, <1>2 DEF IInv

LEMMA Inductive ==
    ASSUME Assumptions
    PROVE  Spec => []IInv
<1>1. Init => IInv
  BY InitIInv
<1>2. IInv /\ [Next]_vars => IInv'
  BY NextIInv, StutterIInv
<1> QED
  BY <1>1, <1>2, PTL DEF Spec

LEMMA IInvTypes ==
    ASSUME IInv
    PROVE  TypeOK
BY DEF IInv, TypeOK, UserOK, Known, CallsInv, SessionsInv, TokensInv

LEMMA IInvCredentials ==
    ASSUME IInv
    PROVE  CredentialsEnd
<1>1. \A s \in Live : session[s] # NoSession
  BY NoRows DEF Live
<1>2. NoSessionOutlivesPassword
  BY <1>1 DEF NoSessionOutlivesPassword, IInv, SessionsInv, SessionOK, Live
<1>3. ExchangedOnce
  BY DEF ExchangedOnce, IInv, SessionsInv, ParentsApart
<1>4. ResetOnce
  BY DEF ResetOnce, IInv, TokensInv, TokenOK
<1>5. SuspensionEndsAccess
  BY NoRows DEF SuspensionEndsAccess, Guard, IInv, SessionsInv, SessionOK
<1> QED
  BY <1>2, <1>3, <1>4, <1>5 DEF CredentialsEnd

-----------------------------------------------------------------------------
(* Theorems *)

(* The rows of the account, its sessions, its reset tokens and its requests *)
(* in flight are what AuthService and its tables can hold.                  *)
THEOREM TypeCorrect ==
    ASSUME Assumptions
    PROVE  Spec => []TypeOK
<1>1. IInv => TypeOK
  BY IInvTypes
<1> QED
  BY <1>1, Inductive, PTL

(* However many logins, refreshes, resets and password changes race, and    *)
(* wherever one of them dies: no live session outlives the password it was  *)
(* opened with, a refresh token is exchanged once, a reset token sets one   *)
(* password, and no access token signed before a suspension passes the      *)
(* guard again.                                                             *)
THEOREM CredentialsHold ==
    ASSUME Assumptions
    PROVE  Spec => []CredentialsEnd
<1>1. IInv => CredentialsEnd
  BY IInvCredentials
<1> QED
  BY <1>1, Inductive, PTL

-----------------------------------------------------------------------------
(***************************************************************************)
(* The address book of the account.                                        *)
(*                                                                         *)
(* A transaction that holds a default row is the only one that does and    *)
(* sees no other default (OneInv): the unique index lets nobody else write *)
(* one until it ends, and that carries the default through any             *)
(* interleaving. With one tab, what a command has still to write leaves a  *)
(* default row (BookKept), and the page and its command know the pins of   *)
(* the rows they are about (Pinned).                                       *)
(***************************************************************************)
CONSTANTS Texts, Tabs, Lossy, MaxId

VARIABLES book, tx, page

Book == INSTANCE AddressBook

(* The bounds are counts, and an absent value is none of the values. *)
BookAssumptions == Book!BookAssumption /\ Book!NoneAssumption

(* The steps of a command, the rows it has written, and the command.        *)
Pcs == {"read", "unset", "unsetting", "write", "promote", "commit", "done", "failed"}
Wrote == UNION {[D -> Book!Row \cup {None}] : D \in SUBSET Book!Ids}
Tx == [op : {"create", "update", "remove", "promote"}, id : Book!Ids \cup {None},
       text : Texts \cup {None}, pin : Texts \cup {None}, isDefault : BOOLEAN \cup {None},
       pc : Pcs, seen : SUBSET Book!Ids, wrote : Wrote]

(* A command names what it writes, and holds no row before it writes one.   *)
TxShape(c) ==
    /\ c.op = "create" => c.text \in Texts /\ c.isDefault \in BOOLEAN
    /\ c.op # "create" => c.id \in Book!Ids
    /\ c.op = "remove" => c.pc \notin {"unset", "unsetting"}
    /\ c.pc = "promote" => c.op = "remove"
    /\ c.op = "remove" /\ c.pc = "write" => c.isDefault \in BOOLEAN
    /\ c.op = "promote" => c.isDefault = TRUE
    /\ c.pc \in {"read", "unset", "unsetting", "done", "failed"} => DOMAIN c.wrote = {}

(* The rows, the commands in hand and the pages have their types.           *)
Typed ==
    /\ book \in Book!Table
    /\ tx \in [Tabs -> Tx \cup {Book!Idle}]
    /\ \A k \in Tabs : Book!Busy(k) => TxShape(tx[k])
    /\ page \in [Tabs -> Book!Page]

(* The rows a running transaction holds, and the default ones among them.   *)
Held(k) == IF Book!Working(k) THEN DOMAIN tx[k].wrote ELSE {}
DefaultHeld(k) == {i \in Held(k) : tx[k].wrote[i] # None /\ tx[k].wrote[i].isDefault}

(* Rows are held by one transaction each, and a transaction that holds a    *)
(* default row sees no other, and is the only one to hold one.              *)
OneInv ==
    /\ \A i, j \in Book!Defaults(book) : i = j
    /\ \A j, k \in Tabs : j # k => Held(j) \cap Held(k) = {}
    /\ \A k \in Tabs : \A i \in DefaultHeld(k) :
         /\ Book!Defaults(Book!Sees(k)) \subseteq {i}
         /\ \A j \in Tabs \ {k} : DefaultHeld(j) = {}

BookInv == Typed /\ OneInv

(* Tabs with their pages, or commands from pages that may show anything.    *)
BookNext == Book!Next \/ Book!CommandNext

-----------------------------------------------------------------------------
LEMMA BusyTx ==
    ASSUME Typed, NEW k \in Tabs
    PROVE  /\ Book!Busy(k) => tx[k] \in Tx
           /\ ~Book!Busy(k) => tx[k] = Book!Idle
           /\ DOMAIN tx = Tabs
BY DEF Typed, Book!Busy, Tx, Pcs, Book!Idle

LEMMA WroteIs ==
    ASSUME NEW w \in Wrote
    PROVE  /\ DOMAIN w \subseteq Book!Ids /\ w = [i \in DOMAIN w |-> w[i]]
           /\ \A i \in DOMAIN w : w[i] \in Book!Row \cup {None}
BY DEF Wrote

LEMMA WroteMade ==
    ASSUME NEW w, DOMAIN w \subseteq Book!Ids, w = [i \in DOMAIN w |-> w[i]],
           \A i \in DOMAIN w : w[i] \in Book!Row \cup {None}
    PROVE  w \in Wrote
<1>1. w \in [DOMAIN w -> Book!Row \cup {None}]
  OBVIOUS
<1> QED
  BY <1>1 DEF Wrote

LEMMA SeesTable ==
    ASSUME Typed, NEW k \in Tabs, Book!Busy(k)
    PROVE  /\ Book!Sees(k) \in Book!Table
           /\ DOMAIN tx[k].wrote = {} => Book!Sees(k) = book
<1>1. tx[k] \in Tx
  BY BusyTx
<1>2. tx[k].wrote \in Wrote
  BY <1>1 DEF Tx
<1> QED
  BY <1>2, WroteIs DEF Book!Sees, Book!Table, Typed

(* A step of one command. *)
LEMMA TxStep ==
    ASSUME Typed, NEW k \in Tabs, NEW c \in Tx \cup {Book!Idle}, tx' = [tx EXCEPT ![k] = c],
           c # Book!Idle => TxShape(c), book' \in Book!Table, page' \in [Tabs -> Book!Page]
    PROVE  Typed'
<1>1. tx' \in [Tabs -> Tx \cup {Book!Idle}] /\ tx'[k] = c /\ \A j \in Tabs \ {k} : tx'[j] = tx[j]
  BY BusyTx DEF Typed
<1>2. ASSUME NEW j \in Tabs, Book!Busy(j)'
      PROVE  TxShape(tx[j])'
  <2>1. CASE j = k
    <3>1. c # Book!Idle
      BY <1>1, <1>2, <2>1 DEF Book!Busy, Book!Idle
    <3> QED
      BY <1>1, <2>1, <3>1 DEF TxShape
  <2>2. CASE j # k
    BY <1>1, <1>2, <2>2 DEF Typed, Book!Busy, TxShape
  <2> QED
    BY <2>1, <2>2
<1> QED
  BY <1>1, <1>2 DEF Typed

(* The row of a transaction after a change of its fields. *)
Moved(c, pc) == [c EXCEPT !.pc = pc]
Defaulted(c, d, pc) == [c EXCEPT !.isDefault = d, !.pc = pc]
Seen(c, seen, pc) == [c EXCEPT !.seen = seen, !.pc = pc]
Written(c, wrote, pc) == [c EXCEPT !.wrote = wrote, !.pc = pc]
Promoting(c, id) == [c EXCEPT !.op = "promote", !.id = id, !.isDefault = TRUE, !.pc = "write"]
Ended(c, pc, wrote) == [c EXCEPT !.pc = pc, !.wrote = wrote, !.seen = {}]

LEMMA MovedTx ==
    ASSUME NEW c \in Tx, NEW pc \in Pcs
    PROVE  /\ Moved(c, pc) \in Tx
           /\ Moved(c, pc).op = c.op /\ Moved(c, pc).id = c.id
           /\ Moved(c, pc).text = c.text /\ Moved(c, pc).pin = c.pin
           /\ Moved(c, pc).isDefault = c.isDefault /\ Moved(c, pc).pc = pc
           /\ Moved(c, pc).seen = c.seen /\ Moved(c, pc).wrote = c.wrote
BY DEF Moved, Tx

LEMMA DefaultedTx ==
    ASSUME NEW c \in Tx, NEW d \in BOOLEAN, NEW pc \in Pcs
    PROVE  /\ Defaulted(c, d, pc) \in Tx
           /\ Defaulted(c, d, pc).op = c.op /\ Defaulted(c, d, pc).id = c.id
           /\ Defaulted(c, d, pc).text = c.text /\ Defaulted(c, d, pc).pin = c.pin
           /\ Defaulted(c, d, pc).isDefault = d /\ Defaulted(c, d, pc).pc = pc
           /\ Defaulted(c, d, pc).seen = c.seen /\ Defaulted(c, d, pc).wrote = c.wrote
BY DEF Defaulted, Tx

LEMMA SeenTx ==
    ASSUME NEW c \in Tx, NEW seen \in SUBSET Book!Ids, NEW pc \in Pcs
    PROVE  /\ Seen(c, seen, pc) \in Tx
           /\ Seen(c, seen, pc).op = c.op /\ Seen(c, seen, pc).id = c.id
           /\ Seen(c, seen, pc).text = c.text /\ Seen(c, seen, pc).pin = c.pin
           /\ Seen(c, seen, pc).isDefault = c.isDefault /\ Seen(c, seen, pc).pc = pc
           /\ Seen(c, seen, pc).seen = seen /\ Seen(c, seen, pc).wrote = c.wrote
BY DEF Seen, Tx

LEMMA WrittenTx ==
    ASSUME NEW c \in Tx, NEW wrote \in Wrote, NEW pc \in Pcs
    PROVE  /\ Written(c, wrote, pc) \in Tx
           /\ Written(c, wrote, pc).op = c.op /\ Written(c, wrote, pc).id = c.id
           /\ Written(c, wrote, pc).text = c.text /\ Written(c, wrote, pc).pin = c.pin
           /\ Written(c, wrote, pc).isDefault = c.isDefault /\ Written(c, wrote, pc).pc = pc
           /\ Written(c, wrote, pc).seen = c.seen /\ Written(c, wrote, pc).wrote = wrote
BY DEF Written, Tx

LEMMA PromotingTx ==
    ASSUME NEW c \in Tx, NEW id \in Book!Ids
    PROVE  /\ Promoting(c, id) \in Tx
           /\ Promoting(c, id).op = "promote" /\ Promoting(c, id).id = id
           /\ Promoting(c, id).text = c.text /\ Promoting(c, id).pin = c.pin
           /\ Promoting(c, id).isDefault = TRUE /\ Promoting(c, id).pc = "write"
           /\ Promoting(c, id).seen = c.seen /\ Promoting(c, id).wrote = c.wrote
BY DEF Promoting, Tx, Pcs

LEMMA EndedTx ==
    ASSUME NEW c \in Tx, NEW pc \in Pcs, NEW wrote \in Wrote
    PROVE  /\ Ended(c, pc, wrote) \in Tx
           /\ Ended(c, pc, wrote).op = c.op /\ Ended(c, pc, wrote).id = c.id
           /\ Ended(c, pc, wrote).text = c.text /\ Ended(c, pc, wrote).pin = c.pin
           /\ Ended(c, pc, wrote).isDefault = c.isDefault /\ Ended(c, pc, wrote).pc = pc
           /\ Ended(c, pc, wrote).seen = {} /\ Ended(c, pc, wrote).wrote = wrote
BY DEF Ended, Tx

LEMMA BusyIsTx == \A c \in Tx : c # Book!Idle
BY DEF Tx, Book!Idle, Pcs

(* What a page may send: a new address is complete, the others name a row.  *)
Arguments(op, id, t, pin, d) ==
    /\ op \in {"create", "update", "remove"} /\ id \in Book!Ids \cup {None}
    /\ t \in Texts \cup {None} /\ pin \in Texts \cup {None} /\ d \in BOOLEAN \cup {None}
    /\ op = "create" => t \in Texts /\ d \in BOOLEAN
    /\ op # "create" => id \in Book!Ids

LEMMA StartTyped ==
    ASSUME BookAssumptions, Typed, NEW k \in Tabs, NEW op, NEW id, NEW t, NEW pin, NEW d,
           Arguments(op, id, t, pin, d), Book!Start(k, Book!Command(op, id, t, pin, d)),
           UNCHANGED <<book, page>>
    PROVE  Typed'
<1> DEFINE c == Book!Command(op, id, t, pin, d)
<1>1. [i \in {} |-> None] \in Wrote /\ DOMAIN [i \in {} |-> None] = {}
  BY WroteMade
<1>2. c \in Tx /\ TxShape(c)
  BY <1>1 DEF Arguments, Book!Command, Tx, TxShape, Pcs
<1> QED
  BY <1>2, TxStep DEF Book!Start, c, Typed, Book!Command

LEMMA CountTyped ==
    ASSUME BookAssumptions, Typed, NEW k \in Tabs, Book!Count(k)
    PROVE  Typed'
<1>1. tx[k] \in Tx /\ TxShape(tx[k]) /\ tx[k].pc = "read" /\ tx[k].op = "create"
  BY BusyTx, BusyIsTx DEF Book!Count, Book!Busy, Typed, Book!Idle
<1>2. PICK d \in BOOLEAN, pc \in {"unset", "write"} : tx' = [tx EXCEPT ![k] = Defaulted(tx[k], d, pc)]
  BY <1>1, BusyTx DEF Book!Count, TxShape, Defaulted
<1> DEFINE c == Defaulted(tx[k], d, pc)
<1>p. pc \in Pcs
  BY DEF Pcs
<1>3. c \in Tx /\ c.op = "create" /\ c.text = tx[k].text /\ c.isDefault = d /\ c.wrote = tx[k].wrote
      /\ c.pc = pc
  BY <1>1, <1>p, DefaultedTx
<1>4. TxShape(c)
  BY <1>1, <1>3 DEF TxShape
<1> QED
  BY <1>2, <1>3, <1>4, TxStep DEF Book!Count, Typed

LEMMA FindTyped ==
    ASSUME BookAssumptions, Typed, NEW k \in Tabs,
           Book!FindToUpdate(k) \/ Book!FindToRemove(k) \/ Book!UnsetFind(k) \/ Book!RollBack(k) \/ Book!Commit(k)
    PROVE  Typed'
<1>1. tx[k] \in Tx /\ TxShape(tx[k]) /\ Book!Busy(k)
  BY BusyTx, BusyIsTx
    DEF Book!FindToUpdate, Book!FindToRemove, Book!UnsetFind, Book!RollBack, Book!Commit,
        Book!Working, Book!Busy, Typed, Book!Idle
<1>2. CASE Book!FindToUpdate(k)
  <2>1. PICK pc \in {"unset", "write"} : tx' = [tx EXCEPT ![k] = Moved(tx[k], pc)]
    BY <1>2, BusyTx DEF Book!FindToUpdate, Moved
  <2> DEFINE c == Moved(tx[k], pc)
  <2>2. c \in Tx /\ c.op = tx[k].op /\ c.text = tx[k].text /\ c.isDefault = tx[k].isDefault
        /\ c.id = tx[k].id /\ c.wrote = tx[k].wrote /\ c.pc = pc
    BY <1>1, MovedTx DEF Pcs
  <2>3. TxShape(c)
    BY <1>1, <1>2, <2>2 DEF TxShape, Book!FindToUpdate
  <2> QED
    BY <1>2, <2>1, <2>2, <2>3, TxStep DEF Book!FindToUpdate, Typed
<1>3. CASE Book!FindToRemove(k)
  <2> DEFINE d == book[tx[k].id].isDefault
             c == Defaulted(tx[k], d, "write")
  <2>1. d \in BOOLEAN
    BY <1>1, <1>3 DEF Book!FindToRemove, TxShape, Typed, Book!Table, Book!Row
  <2>2. tx' = [tx EXCEPT ![k] = c]
    BY <1>3, BusyTx DEF Book!FindToRemove, Defaulted
  <2> HIDE DEF d
  <2>p. "write" \in Pcs
    BY DEF Pcs
  <2>3. c \in Tx /\ c.op = "remove" /\ c.text = tx[k].text /\ c.isDefault = d
        /\ c.id = tx[k].id /\ c.wrote = tx[k].wrote /\ c.pc = "write"
    BY <1>1, <1>3, <2>1, <2>p, DefaultedTx DEF Book!FindToRemove
  <2>4. TxShape(c)
    BY <1>1, <1>3, <2>1, <2>3 DEF TxShape, Book!FindToRemove
  <2> QED
    BY <1>3, <2>2, <2>3, <2>4, TxStep DEF Book!FindToRemove, Typed
<1>4. CASE Book!UnsetFind(k)
  <2> DEFINE seen == Book!Defaults(Book!Sees(k))
             c == Seen(tx[k], seen, "unsetting")
  <2>1. seen \in SUBSET Book!Ids
    BY DEF Book!Defaults, Book!Present
  <2>2. tx' = [tx EXCEPT ![k] = c]
    BY <1>4, BusyTx DEF Book!UnsetFind, Seen
  <2> HIDE DEF seen
  <2>3. c \in Tx /\ c.op = tx[k].op /\ c.text = tx[k].text /\ c.isDefault = tx[k].isDefault
        /\ c.id = tx[k].id /\ c.wrote = tx[k].wrote /\ c.pc = "unsetting"
    BY <1>1, <2>1, SeenTx DEF Pcs
  <2>4. TxShape(c)
    BY <1>1, <1>4, <2>3 DEF TxShape, Book!UnsetFind
  <2> QED
    BY <1>4, <2>2, <2>3, <2>4, TxStep DEF Book!UnsetFind, Typed
<1>5. CASE Book!RollBack(k) \/ Book!Commit(k)
  <2>1. PICK pc \in {"done", "failed"} : tx' = [tx EXCEPT ![k] = Ended(tx[k], pc, [i \in {} |-> None])]
    BY <1>5, BusyTx DEF Book!RollBack, Book!Commit, Ended
  <2> DEFINE w == [i \in {} |-> None]
             c == Ended(tx[k], pc, w)
  <2>2. w \in Wrote /\ DOMAIN w = {}
    BY WroteMade
  <2> HIDE DEF w
  <2>p. pc \in Pcs
    BY DEF Pcs
  <2>3. c \in Tx /\ c.op = tx[k].op /\ c.text = tx[k].text /\ c.isDefault = tx[k].isDefault
        /\ c.id = tx[k].id /\ c.wrote = w /\ c.pc = pc
    BY <1>1, <2>2, <2>p, EndedTx
  <2>4. TxShape(c)
    BY <1>1, <2>2, <2>3 DEF TxShape
  <2>5. book' \in Book!Table
    BY <1>1, <1>5, SeesTable DEF Book!RollBack, Book!Commit, Typed
  <2> QED
    BY <1>5, <2>1, <2>3, <2>4, <2>5, TxStep DEF Book!RollBack, Book!Commit, Typed, w
<1> QED
  BY <1>2, <1>3, <1>4, <1>5

(* Rows written by a statement. *)
LEMMA WriteTyped ==
    ASSUME BookAssumptions, Typed, NEW k \in Tabs, Book!Busy(k), NEW rows \in Wrote,
           NEW pc \in {"write", "commit", "promote"},
           Book!Write(k, rows, pc), pc = "write" /\ tx[k].op = "remove" => tx[k].isDefault \in BOOLEAN,
           pc = "promote" => tx[k].op = "remove", UNCHANGED <<book, page>>
    PROVE  /\ Typed'
           /\ tx'[k].pc = pc /\ \A j \in Tabs \ {k} : tx'[j] = tx[j]
           /\ DOMAIN tx'[k].wrote = DOMAIN tx[k].wrote \cup DOMAIN rows
           /\ \A i \in DOMAIN tx'[k].wrote :
                tx'[k].wrote[i] = IF i \in DOMAIN rows THEN rows[i] ELSE tx[k].wrote[i]
           /\ tx'[k].op = tx[k].op /\ tx'[k].id = tx[k].id /\ tx'[k].text = tx[k].text
           /\ tx'[k].pin = tx[k].pin /\ tx'[k].isDefault = tx[k].isDefault
<1> DEFINE w == [i \in DOMAIN tx[k].wrote \cup DOMAIN rows |->
                   IF i \in DOMAIN rows THEN rows[i] ELSE tx[k].wrote[i]]
           c == Written(tx[k], w, pc)
<1>1. tx[k] \in Tx /\ TxShape(tx[k]) /\ tx[k].wrote \in Wrote
  BY BusyTx DEF Typed, Tx
<1>2. w \in Wrote
  BY <1>1, WroteIs, WroteMade
<1>3. tx' = [tx EXCEPT ![k] = c]
  BY BusyTx DEF Book!Write, Written
<1>a. /\ DOMAIN w = DOMAIN tx[k].wrote \cup DOMAIN rows
      /\ \A i \in DOMAIN w : w[i] = IF i \in DOMAIN rows THEN rows[i] ELSE tx[k].wrote[i]
  OBVIOUS
<1> HIDE DEF w
<1>p. pc \in Pcs
  BY DEF Pcs
<1>4. c \in Tx /\ c.op = tx[k].op /\ c.text = tx[k].text /\ c.isDefault = tx[k].isDefault
      /\ c.id = tx[k].id /\ c.wrote = w /\ c.pc = pc /\ c.pin = tx[k].pin
  BY <1>1, <1>2, <1>p, WrittenTx
<1>5. TxShape(c)
  BY <1>1, <1>4 DEF TxShape
<1>6. tx'[k] = c /\ \A j \in Tabs \ {k} : tx'[j] = tx[j]
  BY <1>3, BusyTx
<1>7. Typed'
  BY <1>3, <1>4, <1>5, TxStep DEF Typed
<1> QED
  BY <1>4, <1>6, <1>7, <1>a

(* What the statements write. *)
UnsetRows(k) == [i \in tx[k].seen \cap Book!Defaults(Book!Sees(k)) |-> [book[i] EXCEPT !.isDefault = FALSE]]
NewRow(k) == [text |-> tx[k].text, pin |-> tx[k].pin, isDefault |-> tx[k].isDefault]

(* One statement writes rows nobody else holds, and a default one alone.    *)
Writes(k, rows, pc) ==
    /\ Book!Working(k)
    /\ rows \in Wrote
    /\ pc \in {"write", "commit", "promote"}
    /\ Book!Write(k, rows, pc)
    /\ pc = "write" => tx[k].op # "remove" \/ tx[k].isDefault \in BOOLEAN
    /\ pc = "promote" => tx[k].op = "remove"
    /\ \A i \in DOMAIN rows :
         /\ ~Book!Locked(k, i)
         /\ rows[i] # None /\ rows[i].isDefault => DOMAIN rows = {i} /\ Book!IndexAllows(k, i, rows[i])
    /\ UNCHANGED <<book, page>>

LEMMA UnsetWrites ==
    ASSUME BookAssumptions, Typed, NEW k \in Tabs, Book!Unset(k)
    PROVE  /\ Writes(k, UnsetRows(k), "write")
           /\ \A i \in DOMAIN UnsetRows(k) : UnsetRows(k)[i] # None /\ ~UnsetRows(k)[i].isDefault
<1>1. tx[k] \in Tx /\ TxShape(tx[k]) /\ Book!Working(k) /\ Book!Busy(k)
  BY BusyTx, BusyIsTx DEF Book!Unset, Book!Working, Book!Busy, Typed, Book!Idle
<1>2. Book!Sees(k) = book
  BY <1>1, SeesTable DEF Book!Unset, TxShape
<1>3. \A i \in Book!Defaults(book) : book[i] \in Book!Row
  BY DEF Book!Defaults, Book!Present, Typed, Book!Table
<1>4. \A r \in Book!Row : [r EXCEPT !.isDefault = FALSE] \in Book!Row /\ [r EXCEPT !.isDefault = FALSE].isDefault = FALSE
  BY DEF Book!Row
<1>5. /\ DOMAIN UnsetRows(k) \subseteq Book!Ids /\ DOMAIN UnsetRows(k) \subseteq tx[k].seen
      /\ UnsetRows(k) = [i \in DOMAIN UnsetRows(k) |-> UnsetRows(k)[i]]
      /\ \A i \in DOMAIN UnsetRows(k) : UnsetRows(k)[i] \in Book!Row /\ UnsetRows(k)[i].isDefault = FALSE
  BY <1>2, <1>3, <1>4 DEF UnsetRows, Book!Defaults, Book!Present
<1>6. UnsetRows(k) \in Wrote
  BY <1>5, WroteMade
<1>7. \A i \in DOMAIN UnsetRows(k) : UnsetRows(k)[i] # None
  BY <1>5 DEF BookAssumptions, Book!NoneAssumption
<1>8. tx[k].op # "remove"
  BY <1>1 DEF Book!Unset, TxShape
<1> QED
  BY <1>1, <1>5, <1>6, <1>7, <1>8 DEF Writes, Book!Unset, UnsetRows

LEMMA OneRow ==
    ASSUME NEW i \in Book!Ids, NEW row \in Book!Row \cup {None}
    PROVE  /\ [n \in {i} |-> row] \in Wrote
           /\ DOMAIN [n \in {i} |-> row] = {i} /\ [n \in {i} |-> row][i] = row
BY WroteMade

LEMMA InsertWrites ==
    ASSUME BookAssumptions, Typed, NEW k \in Tabs, NEW i \in Book!Ids, Book!Insert(k, i)
    PROVE  Writes(k, [n \in {i} |-> NewRow(k)], "commit") /\ NewRow(k) \in Book!Row
<1>1. tx[k] \in Tx /\ TxShape(tx[k]) /\ Book!Working(k) /\ Book!Busy(k)
  BY BusyTx, BusyIsTx DEF Book!Insert, Book!Working, Book!Busy, Typed, Book!Idle
<1>2. tx[k].text \in Texts /\ tx[k].pin \in Texts \cup {None} /\ tx[k].isDefault \in BOOLEAN
  BY <1>1 DEF Book!Insert, TxShape, Tx
<1>3. NewRow(k) \in Book!Row
  BY <1>2 DEF NewRow, Book!Row
<1>4. Book!Write(k, [n \in {i} |-> NewRow(k)], "commit") /\ ~Book!Locked(k, i) /\ Book!IndexAllows(k, i, NewRow(k))
      /\ UNCHANGED <<book, page>>
  BY DEF Book!Insert, NewRow
<1> QED
  BY <1>1, <1>3, <1>4, OneRow DEF Writes

LEMMA UpdateWrites ==
    ASSUME BookAssumptions, Typed, NEW k \in Tabs, Book!Update(k)
    PROVE  LET i == tx[k].id
               row == Book!Updated(Book!Sees(k)[i], tx[k])
           IN i \in Book!Ids /\ row \in Book!Row /\ Book!Sees(k)[i] \in Book!Row /\ Writes(k, [n \in {i} |-> row], "commit")
<1> DEFINE i == tx[k].id
           row == Book!Updated(Book!Sees(k)[i], tx[k])
<1>1. tx[k] \in Tx /\ TxShape(tx[k]) /\ Book!Working(k) /\ Book!Busy(k)
  BY BusyTx, BusyIsTx DEF Book!Update, Book!Working, Book!Busy, Typed, Book!Idle
<1>2. i \in Book!Ids
  BY <1>1 DEF Book!Update, TxShape
<1>3. Book!Sees(k)[i] \in Book!Row
  BY <1>1, <1>2, SeesTable DEF Book!Update, Book!Table
<1>4. row \in Book!Row
  BY <1>1, <1>3 DEF Book!Updated, Book!Row, Tx
<1>5. Book!Write(k, [n \in {i} |-> row], "commit") /\ ~Book!Locked(k, i) /\ Book!IndexAllows(k, i, row)
      /\ UNCHANGED <<book, page>>
  BY DEF Book!Update
<1> HIDE DEF i, row
<1>6. Writes(k, [n \in {i} |-> row], "commit")
  BY <1>1, <1>2, <1>4, <1>5, OneRow DEF Writes
<1> QED
  BY <1>2, <1>3, <1>4, <1>6 DEF i, row

LEMMA DeleteWrites ==
    ASSUME BookAssumptions, Typed, NEW k \in Tabs, Book!Delete(k)
    PROVE  LET i == tx[k].id
               pc == IF tx[k].isDefault THEN "promote" ELSE "commit"
           IN i \in Book!Ids /\ tx[k].isDefault \in BOOLEAN /\ Writes(k, [n \in {i} |-> None], pc)
<1> DEFINE i == tx[k].id
           pc == IF tx[k].isDefault THEN "promote" ELSE "commit"
<1>1. tx[k] \in Tx /\ TxShape(tx[k]) /\ Book!Working(k) /\ Book!Busy(k)
  BY BusyTx, BusyIsTx DEF Book!Delete, Book!Working, Book!Busy, Typed, Book!Idle
<1>2. i \in Book!Ids /\ tx[k].isDefault \in BOOLEAN
  BY <1>1 DEF Book!Delete, TxShape
<1>3. Book!Write(k, [n \in {i} |-> None], pc) /\ ~Book!Locked(k, i) /\ UNCHANGED <<book, page>>
      /\ tx[k].op = "remove"
  BY DEF Book!Delete
<1>4. pc \in {"commit", "promote"}
  OBVIOUS
<1> HIDE DEF i, pc
<1>5. Writes(k, [n \in {i} |-> None], pc)
  BY <1>1, <1>2, <1>3, <1>4, OneRow DEF Writes
<1> QED
  BY <1>2, <1>5 DEF i, pc

LEMMA WritesTyped ==
    ASSUME BookAssumptions, Typed, NEW k \in Tabs, NEW rows, NEW pc, Writes(k, rows, pc)
    PROVE  /\ Typed'
           /\ tx'[k].pc = pc /\ \A j \in Tabs \ {k} : tx'[j] = tx[j]
           /\ DOMAIN tx'[k].wrote = DOMAIN tx[k].wrote \cup DOMAIN rows
           /\ \A i \in DOMAIN tx'[k].wrote :
                tx'[k].wrote[i] = IF i \in DOMAIN rows THEN rows[i] ELSE tx[k].wrote[i]
           /\ tx'[k].op = tx[k].op /\ tx'[k].id = tx[k].id /\ tx'[k].text = tx[k].text
           /\ tx'[k].pin = tx[k].pin /\ tx'[k].isDefault = tx[k].isDefault
<1>1. Book!Busy(k)
  BY DEF Writes, Book!Working, Book!Busy
<1> QED
  BY <1>1, WriteTyped DEF Writes

(* What a transaction sees once it has written. *)
LEMMA WritesSeen ==
    ASSUME BookAssumptions, Typed, NEW k \in Tabs, NEW rows, NEW pc, Writes(k, rows, pc)
    PROVE  /\ \A i \in Book!Ids : Book!Sees(k)'[i] = IF i \in DOMAIN rows THEN rows[i] ELSE Book!Sees(k)[i]
           /\ \A j \in Tabs \ {k} : Book!Sees(j)' = Book!Sees(j) /\ Held(j)' = Held(j) /\ DefaultHeld(j)' = DefaultHeld(j)
           /\ Held(k)' = Held(k) \cup DOMAIN rows
           /\ DefaultHeld(k)' = {i \in DefaultHeld(k) : i \notin DOMAIN rows}
                                  \cup {i \in DOMAIN rows : rows[i] # None /\ rows[i].isDefault}
           /\ \A i \in DOMAIN rows : \A j \in Tabs \ {k} : i \notin Held(j)
<1>1. /\ tx'[k].pc = pc /\ \A j \in Tabs \ {k} : tx'[j] = tx[j]
      /\ DOMAIN tx'[k].wrote = DOMAIN tx[k].wrote \cup DOMAIN rows
      /\ \A i \in DOMAIN tx'[k].wrote :
           tx'[k].wrote[i] = IF i \in DOMAIN rows THEN rows[i] ELSE tx[k].wrote[i]
  BY WritesTyped
<1>2. book' = book /\ Book!Working(k) /\ Book!Working(k)' /\ DOMAIN rows \subseteq Book!Ids
  BY <1>1, WroteIs DEF Writes, Book!Working
<1>3. \A j \in Tabs \ {k} : Book!Sees(j)' = Book!Sees(j) /\ Held(j)' = Held(j) /\ DefaultHeld(j)' = DefaultHeld(j)
  BY <1>1, <1>2 DEF Book!Sees, Held, DefaultHeld, Book!Working
<1>4. Held(k)' = Held(k) \cup DOMAIN rows
  BY <1>1, <1>2 DEF Held
<1>5. \A i \in Book!Ids : Book!Sees(k)'[i] = IF i \in DOMAIN rows THEN rows[i] ELSE Book!Sees(k)[i]
  BY <1>1, <1>2 DEF Book!Sees
<1>6. DefaultHeld(k)' = {i \in DefaultHeld(k) : i \notin DOMAIN rows}
                          \cup {i \in DOMAIN rows : rows[i] # None /\ rows[i].isDefault}
  BY <1>1, <1>2, <1>4 DEF DefaultHeld, Held
<1>7. \A i \in DOMAIN rows : \A j \in Tabs \ {k} : i \notin Held(j)
  BY DEF Writes, Book!Locked, Held
<1> QED
  BY <1>3, <1>4, <1>5, <1>6, <1>7

LEMMA WritesOne ==
    ASSUME BookAssumptions, BookInv, NEW k \in Tabs, NEW rows, NEW pc, Writes(k, rows, pc)
    PROVE  OneInv'
<1>1. /\ \A i \in Book!Ids : Book!Sees(k)'[i] = IF i \in DOMAIN rows THEN rows[i] ELSE Book!Sees(k)[i]
      /\ \A j \in Tabs \ {k} : Book!Sees(j)' = Book!Sees(j) /\ Held(j)' = Held(j) /\ DefaultHeld(j)' = DefaultHeld(j)
      /\ Held(k)' = Held(k) \cup DOMAIN rows
      /\ DefaultHeld(k)' = {i \in DefaultHeld(k) : i \notin DOMAIN rows}
                             \cup {i \in DOMAIN rows : rows[i] # None /\ rows[i].isDefault}
      /\ \A i \in DOMAIN rows : \A j \in Tabs \ {k} : i \notin Held(j)
  BY WritesSeen DEF BookInv
<1>2. book' = book
  BY DEF Writes
<1>3. \A i, j \in Book!Defaults(book)' : i = j
  BY <1>2 DEF BookInv, OneInv, Book!Defaults, Book!Present
<1>4. \A i, j \in Tabs : i # j => Held(i)' \cap Held(j)' = {}
  BY <1>1 DEF BookInv, OneInv
<1>5. \A n \in Book!Ids : n \in Book!Defaults(Book!Sees(k))' <=>
          IF n \in DOMAIN rows THEN rows[n] # None /\ rows[n].isDefault ELSE n \in Book!Defaults(Book!Sees(k))
  BY <1>1 DEF Book!Defaults, Book!Present
<1>6. ASSUME NEW i \in DefaultHeld(k)'
      PROVE  Book!Defaults(Book!Sees(k))' \subseteq {i} /\ \A j \in Tabs \ {k} : DefaultHeld(j)' = {}
  <2>1. CASE i \in DOMAIN rows
    <3>1. rows[i] # None /\ rows[i].isDefault
      BY <1>1, <1>6, <2>1
    <3>2. DOMAIN rows = {i} /\ Book!IndexAllows(k, i, rows[i])
      BY <2>1, <3>1 DEF Writes
    <3>3. Book!Defaults(Book!Sees(k)) \subseteq {i} /\ \A j \in Tabs \ {k} : DefaultHeld(j) = {}
      BY <3>1, <3>2 DEF Book!IndexAllows, DefaultHeld, Held
    <3> QED
      BY <1>1, <1>5, <3>2, <3>3 DEF Book!Defaults, Book!Present
  <2>2. CASE i \notin DOMAIN rows
    <3>1. i \in DefaultHeld(k)
      BY <1>1, <1>6, <2>2
    <3>2. Book!Defaults(Book!Sees(k)) \subseteq {i} /\ \A j \in Tabs \ {k} : DefaultHeld(j) = {}
      BY <3>1 DEF BookInv, OneInv
    <3>3. i \in Book!Ids /\ i \in Book!Defaults(Book!Sees(k))
      <4>1. tx[k].wrote \in Wrote
        BY <3>1, BusyTx DEF BookInv, DefaultHeld, Held, Book!Working, Book!Busy, Tx
      <4> QED
        BY <3>1, <4>1, WroteIs DEF DefaultHeld, Held, Book!Defaults, Book!Present, Book!Sees
    <3>4. \A n \in DOMAIN rows : ~(rows[n] # None /\ rows[n].isDefault)
      BY <2>2, <3>2, <3>3 DEF Writes, Book!IndexAllows
    <3> QED
      BY <1>1, <1>5, <3>2, <3>4 DEF Book!Defaults, Book!Present
  <2> QED
    BY <2>1, <2>2
<1>7. ASSUME NEW j \in Tabs \ {k}, NEW i \in DefaultHeld(j)'
      PROVE  Book!Defaults(Book!Sees(j))' \subseteq {i} /\ \A m \in Tabs \ {j} : DefaultHeld(m)' = {}
  <2>1. i \in DefaultHeld(j) /\ i \in DefaultHeld(j)'
    BY <1>1, <1>7
  <2>2. Book!Defaults(Book!Sees(j)) \subseteq {i} /\ \A m \in Tabs \ {j} : DefaultHeld(m) = {}
    BY <2>1 DEF BookInv, OneInv
  <2>3. Book!Defaults(Book!Sees(j))' \subseteq {i}
    BY <1>1, <2>2 DEF Book!Defaults, Book!Present
  <2>4. DefaultHeld(k)' = {}
    BY <1>6, <2>1
  <2> QED
    BY <1>1, <2>2, <2>3, <2>4
<1> QED
  BY <1>3, <1>4, <1>6, <1>7 DEF OneInv

(* A step that writes no row leaves the default ones be. *)
LEMMA QuietOne ==
    ASSUME BookInv, NEW k \in Tabs, UNCHANGED book, \A j \in Tabs \ {k} : tx'[j] = tx[j],
           \/ Held(k)' = {}
           \/ Book!Working(k) /\ Book!Working(k)' /\ tx'[k].wrote = tx[k].wrote
    PROVE  OneInv'
<1>1. \A j \in Tabs \ {k} : Held(j)' = Held(j) /\ DefaultHeld(j)' = DefaultHeld(j) /\ Book!Sees(j)' = Book!Sees(j)
  BY DEF Held, DefaultHeld, Book!Sees, Book!Working
<1>2. \/ Held(k)' = {} /\ DefaultHeld(k)' = {}
      \/ Held(k)' = Held(k) /\ DefaultHeld(k)' = DefaultHeld(k) /\ Book!Sees(k)' = Book!Sees(k)
  BY DEF Held, DefaultHeld, Book!Sees
<1>3. \A i, j \in Book!Defaults(book)' : i = j
  BY DEF BookInv, OneInv, Book!Defaults, Book!Present
<1>4. \A i, j \in Tabs : i # j => Held(i)' \cap Held(j)' = {}
  BY <1>1, <1>2 DEF BookInv, OneInv
<1>5. ASSUME NEW j \in Tabs, NEW i \in DefaultHeld(j)'
      PROVE  Book!Defaults(Book!Sees(j))' \subseteq {i} /\ \A m \in Tabs \ {j} : DefaultHeld(m)' = {}
  <2>1. i \in DefaultHeld(j) /\ Book!Sees(j)' = Book!Sees(j)
    BY <1>1, <1>2, <1>5
  <2>2. Book!Defaults(Book!Sees(j)) \subseteq {i} /\ \A m \in Tabs \ {j} : DefaultHeld(m) = {}
    BY <2>1 DEF BookInv, OneInv
  <2> QED
    BY <1>1, <1>2, <2>1, <2>2 DEF Book!Defaults, Book!Present
<1> QED
  BY <1>3, <1>4, <1>5 DEF OneInv

(* A transaction sees at most one default row. *)
LEMMA SeesOne ==
    ASSUME BookInv, NEW k \in Tabs, Book!Working(k)
    PROVE  \A i, j \in Book!Defaults(Book!Sees(k)) : i = j
<1>1. CASE DefaultHeld(k) # {}
  BY <1>1 DEF BookInv, OneInv
<1>2. CASE DefaultHeld(k) = {}
  <2>1. Book!Defaults(Book!Sees(k)) \subseteq Book!Defaults(book)
    BY <1>2 DEF Book!Defaults, Book!Present, Book!Sees, DefaultHeld, Held
  <2> QED
    BY <2>1 DEF BookInv, OneInv
<1> QED
  BY <1>1, <1>2

LEMMA CommitOne ==
    ASSUME BookAssumptions, BookInv, NEW k \in Tabs, Book!Commit(k)
    PROVE  OneInv'
<1>1. Book!Working(k) /\ ~Book!Working(k)' /\ \A j \in Tabs \ {k} : tx'[j] = tx[j]
  BY BusyTx, BusyIsTx DEF Book!Commit, Book!Working, BookInv, Typed, Tx, Book!Idle
<1>2. book' = Book!Sees(k)
  BY DEF Book!Commit
<1>3. \A i, j \in Book!Defaults(book)' : i = j
  BY <1>1, <1>2, SeesOne DEF Book!Defaults, Book!Present
<1>4. /\ Held(k)' = {} /\ DefaultHeld(k)' = {}
      /\ \A j \in Tabs \ {k} : Held(j)' = Held(j) /\ DefaultHeld(j)' = DefaultHeld(j)
  BY <1>1 DEF Held, DefaultHeld, Book!Working
<1>5. \A i, j \in Tabs : i # j => Held(i)' \cap Held(j)' = {}
  BY <1>4 DEF BookInv, OneInv
<1>6. ASSUME NEW j \in Tabs, NEW i \in DefaultHeld(j)'
      PROVE  Book!Defaults(Book!Sees(j))' \subseteq {i} /\ \A m \in Tabs \ {j} : DefaultHeld(m)' = {}
  <2>1. j # k /\ i \in DefaultHeld(j) /\ Book!Working(j)
    BY <1>4, <1>6 DEF DefaultHeld, Held
  <2>2. Book!Defaults(Book!Sees(j)) \subseteq {i} /\ \A m \in Tabs \ {j} : DefaultHeld(m) = {}
    BY <2>1 DEF BookInv, OneInv
  <2>3. ASSUME NEW n \in Book!Defaults(Book!Sees(j))'
        PROVE  n = i
    <3>1. n \in Book!Ids /\ tx'[j] = tx[j]
      BY <1>1, <2>1, <2>3 DEF Book!Defaults, Book!Present
    <3>2. CASE n \in DOMAIN tx[j].wrote
      <4>1. n \in Book!Defaults(Book!Sees(j))
        BY <2>3, <3>1, <3>2 DEF Book!Defaults, Book!Present, Book!Sees
      <4> QED
        BY <2>2, <4>1
    <3>3. CASE n \notin DOMAIN tx[j].wrote
      <4>1. n \in Book!Defaults(Book!Sees(k))
        BY <1>2, <2>3, <3>1, <3>3 DEF Book!Defaults, Book!Present, Book!Sees
      <4>2. n \notin DOMAIN tx[k].wrote
        BY <1>1, <2>1, <2>2, <3>1, <4>1 DEF DefaultHeld, Held, Book!Defaults, Book!Present, Book!Sees
      <4>3. n \in Book!Defaults(Book!Sees(j))
        BY <3>1, <3>3, <4>1, <4>2 DEF Book!Defaults, Book!Present, Book!Sees
      <4> QED
        BY <2>2, <4>3
    <3> QED
      BY <3>2, <3>3
  <2> QED
    BY <1>4, <2>2, <2>3
<1> QED
  BY <1>3, <1>5, <1>6 DEF OneInv

LEMMA ReplacementTyped ==
    ASSUME BookAssumptions, Typed, NEW k \in Tabs, Book!FindReplacement(k)
    PROVE  Typed'
<1>1. tx[k] \in Tx /\ TxShape(tx[k]) /\ Book!Busy(k)
  BY BusyTx, BusyIsTx DEF Book!FindReplacement, Book!Busy, Typed, Book!Idle
<1>2. CASE tx' = [tx EXCEPT ![k].pc = "commit"]
  <2> DEFINE c == Moved(tx[k], "commit")
  <2>1. tx' = [tx EXCEPT ![k] = c]
    BY <1>2, BusyTx DEF Moved
  <2>2. "commit" \in Pcs
    BY DEF Pcs
  <2>3. c \in Tx /\ c.op = tx[k].op /\ c.text = tx[k].text /\ c.isDefault = tx[k].isDefault
        /\ c.id = tx[k].id /\ c.wrote = tx[k].wrote /\ c.pc = "commit"
    BY <1>1, <2>2, MovedTx
  <2>4. TxShape(c)
    BY <1>1, <2>3 DEF TxShape
  <2> HIDE DEF c
  <2> QED
    BY <2>1, <2>3, <2>4, TxStep DEF Book!FindReplacement, Typed
<1>3. CASE \E i \in Book!Ids :
             tx' = [tx EXCEPT ![k].op = "promote", ![k].id = i, ![k].isDefault = TRUE, ![k].pc = "write"]
  <2>1. PICK i \in Book!Ids : tx' = [tx EXCEPT ![k] = Promoting(tx[k], i)]
    BY <1>3, BusyTx DEF Promoting
  <2> DEFINE c == Promoting(tx[k], i)
  <2>2. c \in Tx /\ c.op = "promote" /\ c.isDefault = TRUE /\ c.id = i /\ c.pc = "write"
    BY <1>1, PromotingTx
  <2>3. TxShape(c)
    BY <2>2 DEF TxShape
  <2> HIDE DEF c
  <2> QED
    BY <2>1, <2>2, <2>3, TxStep DEF Book!FindReplacement, Typed, c
<1> QED
  BY <1>2, <1>3 DEF Book!FindReplacement, Book!Present

LEMMA EndTyped ==
    ASSUME BookAssumptions, Typed, NEW k \in Tabs, tx' = [tx EXCEPT ![k] = Book!Idle], UNCHANGED book,
           page' \in [Tabs -> Book!Page]
    PROVE  Typed'
BY TxStep DEF Typed

LEMMA FormIs ==
    ASSUME BookAssumptions, Typed, NEW k \in Tabs
    PROVE  /\ DOMAIN page = Tabs /\ page[k] \in Book!Page
           /\ page[k].form # None => page[k].form \in Book!Form
BY DEF Typed, Book!Page

(* A step of the page alone. *)
LEMMA PageTyped ==
    ASSUME BookAssumptions, Typed, NEW k \in Tabs,
           \/ Book!Refetch(k) \/ Book!OpenCreate(k) \/ Book!Fill(k) \/ Book!ConfirmLocation(k) \/ Book!CloseForm(k)
           \/ \E i \in Book!Ids : Book!OpenEdit(k, i)
    PROVE  Typed' /\ UNCHANGED <<book, tx>>
<1>1. DOMAIN page = Tabs /\ page[k] \in Book!Page /\ (page[k].form # None => page[k].form \in Book!Form)
  BY FormIs
<1>2. UNCHANGED <<book, tx>>
  BY DEF Book!Refetch, Book!OpenCreate, Book!Fill, Book!ConfirmLocation, Book!CloseForm, Book!OpenEdit
<1>3. ASSUME NEW pg \in Book!Page, page' = [page EXCEPT ![k] = pg]
      PROVE  Typed'
  BY <1>2, <1>3 DEF Typed, Book!Busy, TxShape
<1>4. ASSUME NEW f \in Book!Form \cup {None}, page' = [page EXCEPT ![k].form = f]
      PROVE  Typed'
  <2>1. [page[k] EXCEPT !.form = f] \in Book!Page
    BY <1>1 DEF Book!Page
  <2> QED
    BY <1>1, <1>3, <1>4, <2>1
<1>5. CASE Book!Refetch(k)
  <2>1. [page[k] EXCEPT !.list = book] \in Book!Page
    BY <1>1 DEF Book!Page, Typed
  <2> QED
    BY <1>1, <1>2, <1>3, <1>5, <2>1 DEF Book!Refetch
<1>6. CASE Book!OpenCreate(k)
  <2>1. \A t \in Texts : [id |-> None, text |-> t, pin |-> None, fingerprint |-> None,
                          isDefault |-> FALSE] \in Book!Form
    BY DEF Book!Form
  <2> QED
    BY <1>2, <1>4, <1>6, <2>1 DEF Book!OpenCreate
<1>7. CASE Book!Fill(k)
  <2>1. page[k].form \in Book!Form
    BY <1>1, <1>7 DEF Book!Fill
  <2>2. /\ \A t \in Texts : [page[k].form EXCEPT !.text = t] \in Book!Form
        /\ [page[k].form EXCEPT !.isDefault = ~@] \in Book!Form
    BY <2>1 DEF Book!Form
  <2>3. \/ \E t \in Texts : page' = [page EXCEPT ![k].form = [page[k].form EXCEPT !.text = t]]
        \/ page' = [page EXCEPT ![k].form = [page[k].form EXCEPT !.isDefault = ~@]]
    BY <1>1, <1>7 DEF Book!Fill
  <2> QED
    BY <1>2, <1>4, <2>2, <2>3
<1>8. CASE Book!ConfirmLocation(k)
  <2>1. page[k].form \in Book!Form
    BY <1>1, <1>8 DEF Book!ConfirmLocation
  <2>2. [page[k].form EXCEPT !.pin = page[k].form.text, !.fingerprint = page[k].form.text] \in Book!Form
    BY <2>1 DEF Book!Form
  <2>3. page' = [page EXCEPT ![k].form =
                   [page[k].form EXCEPT !.pin = page[k].form.text, !.fingerprint = page[k].form.text]]
    BY <1>1, <1>8 DEF Book!ConfirmLocation
  <2> QED
    BY <1>2, <1>4, <2>2, <2>3
<1>9. CASE Book!CloseForm(k)
  BY <1>2, <1>4, <1>9 DEF Book!CloseForm
<1>10. ASSUME NEW i \in Book!Ids, Book!OpenEdit(k, i)
       PROVE  Typed'
  <2> DEFINE a == page[k].list[i]
             f == [id |-> i, text |-> a.text, pin |-> a.pin, isDefault |-> a.isDefault,
                   fingerprint |-> IF a.pin = None THEN None ELSE a.text]
  <2>1. a \in Book!Row
    BY <1>1, <1>10 DEF Book!OpenEdit, Book!Page, Book!Table
  <2>2. f \in Book!Form
    BY <2>1 DEF Book!Form, Book!Row
  <2>3. page' = [page EXCEPT ![k].form = f]
    BY <1>10 DEF Book!OpenEdit
  <2> HIDE DEF f
  <2> QED
    BY <1>2, <1>4, <2>2, <2>3
<1> QED
  BY <1>2, <1>5, <1>6, <1>7, <1>8, <1>9, <1>10

LEMMA BeginTyped ==
    ASSUME BookAssumptions, Typed, NEW k \in Tabs,
           \/ Book!Submit(k) \/ Book!Send(k)
           \/ \E i \in Book!Ids : Book!SetDefault(k, i) \/ Book!ConfirmDelete(k, i)
    PROVE  /\ Typed' /\ UNCHANGED <<book, page>> /\ ~Book!Busy(k) /\ tx'[k].pc = "read"
           /\ \A j \in Tabs \ {k} : tx'[j] = tx[j]
           /\ DOMAIN tx'[k].wrote = {}
<1>0. /\ UNCHANGED <<book, page>> /\ ~Book!Busy(k) /\ tx'[k].pc = "read"
      /\ \A j \in Tabs \ {k} : tx'[j] = tx[j]
      /\ DOMAIN tx'[k].wrote = {}
  BY BusyTx
    DEF Book!Submit, Book!Send, Book!SetDefault, Book!ConfirmDelete, Book!Start, Book!Command,
        Book!FormCommand
<1>1. CASE Book!Submit(k)
  <2> DEFINE f == page[k].form
  <2>1. f \in Book!Form
    BY <1>1, FormIs DEF Book!Submit
  <2>2. /\ f.id \in Book!Ids \cup {None} /\ f.text \in Texts /\ f.pin \in Texts \cup {None}
        /\ f.isDefault \in BOOLEAN
    BY <2>1 DEF Book!Form
  <2>3. CASE f.id = None
    <3>1. Book!Start(k, Book!Command("create", f.id, f.text, f.pin, f.isDefault))
      BY <1>1, <2>3 DEF Book!Submit, Book!FormCommand
    <3>2. Typed'
      <4>1. Arguments("create", f.id, f.text, f.pin, f.isDefault)
        BY <2>2 DEF Arguments
      <4> QED
        BY <1>0, <3>1, <4>1, StartTyped
    <3> QED
      BY <1>0, <3>2
  <2>4. CASE f.id # None
    <3>1. Book!Start(k, Book!Command("update", f.id, f.text, f.pin, f.isDefault))
      BY <1>1, <2>4 DEF Book!Submit, Book!FormCommand
    <3>2. Typed'
      <4>1. Arguments("update", f.id, f.text, f.pin, f.isDefault)
        BY <2>2, <2>4 DEF Arguments
      <4> QED
        BY <1>0, <3>1, <4>1, StartTyped
    <3> QED
      BY <1>0, <3>2
  <2> QED
    BY <2>3, <2>4
<1>2. CASE Book!Send(k)
  BY <1>0, <1>2, StartTyped DEF Arguments, Book!Send
<1>3. CASE \E i \in Book!Ids : Book!SetDefault(k, i) \/ Book!ConfirmDelete(k, i)
  BY <1>0, <1>3, StartTyped DEF Arguments, Book!SetDefault, Book!ConfirmDelete
<1> QED
  BY <1>0, <1>1, <1>2, <1>3

LEMMA AnswerTyped ==
    ASSUME BookAssumptions, Typed, NEW k \in Tabs,
           Book!OnSuccess(k) \/ Book!OnError(k) \/ Book!Answer(k)
    PROVE  Typed' /\ UNCHANGED book /\ tx' = [tx EXCEPT ![k] = Book!Idle]
<1>1. UNCHANGED book /\ tx' = [tx EXCEPT ![k] = Book!Idle]
  BY DEF Book!OnSuccess, Book!OnError, Book!Answer
<1>2. DOMAIN page = Tabs /\ page[k] \in Book!Page
  BY FormIs
<1>3. page' \in [Tabs -> Book!Page]
  <2>1. CASE Book!OnSuccess(k)
    <3> DEFINE f == IF tx[k].text # None THEN None ELSE page[k].form
    <3>1. page' = [page EXCEPT ![k] = [page[k] EXCEPT !.list = book, !.form = f]]
      BY <1>2, <2>1 DEF Book!OnSuccess
    <3>2. f \in Book!Form \cup {None}
      BY <1>2 DEF Book!Page
    <3> HIDE DEF f
    <3>3. [page[k] EXCEPT !.list = book, !.form = f] \in Book!Page
      BY <1>2, <3>2 DEF Book!Page, Typed
    <3> QED
      BY <3>1, <3>3 DEF Typed
  <2>2. CASE Book!OnError(k) \/ Book!Answer(k)
    BY <2>2 DEF Book!OnError, Book!Answer, Typed
  <2> QED
    BY <2>1, <2>2
<1> QED
  BY <1>1, <1>3, EndTyped

(* Every step of a command keeps the invariant. *)
LEMMA ServeInv ==
    ASSUME BookAssumptions, BookInv, NEW k \in Tabs, Book!Serve(k)
    PROVE  BookInv'
<1>0. Typed /\ DOMAIN tx = Tabs
  BY BusyTx DEF BookInv
<1>1. CASE \E rows, pc : Writes(k, rows, pc)
  BY <1>0, <1>1, WritesTyped, WritesOne DEF BookInv
<1>2. CASE Book!Unset(k) \/ (\E i \in Book!Ids : Book!Insert(k, i)) \/ Book!Update(k) \/ Book!Delete(k)
  BY <1>0, <1>1, <1>2, UnsetWrites, InsertWrites, UpdateWrites, DeleteWrites
<1>3. CASE Book!Commit(k)
  BY <1>0, <1>3, FindTyped, CommitOne DEF BookInv
<1>4. CASE Book!Count(k) \/ Book!FindToUpdate(k) \/ Book!FindToRemove(k) \/ Book!UnsetFind(k) \/ Book!FindReplacement(k)
  <2>1. Typed'
    BY <1>0, <1>4, CountTyped, FindTyped, ReplacementTyped
  <2>2. UNCHANGED book /\ \A j \in Tabs \ {k} : tx'[j] = tx[j]
    BY <1>0, <1>4
      DEF Book!Count, Book!FindToUpdate, Book!FindToRemove, Book!UnsetFind, Book!FindReplacement
  <2>3. tx[k] \in Tx /\ Book!Working(k)
    BY <1>0, <1>4, BusyTx, BusyIsTx
       DEF Book!Count, Book!FindToUpdate, Book!FindToRemove, Book!UnsetFind, Book!FindReplacement,
           Book!Busy, Book!Working, Typed, Book!Idle
  <2>4. tx'[k].wrote = tx[k].wrote /\ Book!Working(k)'
    <3>1. DOMAIN tx[k] = {"op", "id", "text", "pin", "isDefault", "pc", "seen", "wrote"}
      BY <2>3 DEF Tx
    <3>2. CASE Book!Count(k)
      BY <1>0, <3>1, <3>2 DEF Book!Count, Book!Working
    <3>3. CASE Book!FindToUpdate(k)
      BY <1>0, <3>1, <3>3 DEF Book!FindToUpdate, Book!Working
    <3>4. CASE Book!FindToRemove(k)
      BY <1>0, <3>1, <3>4 DEF Book!FindToRemove, Book!Working
    <3>5. CASE Book!UnsetFind(k)
      BY <1>0, <3>1, <3>5 DEF Book!UnsetFind, Book!Working
    <3>6. CASE Book!FindReplacement(k)
      <4>1. CASE tx' = [tx EXCEPT ![k].pc = "commit"]
        BY <1>0, <3>1, <4>1 DEF Book!Working
      <4>2. ASSUME NEW i \in Book!Ids, tx' = [tx EXCEPT ![k].op = "promote", ![k].id = i,
                                                   ![k].isDefault = TRUE, ![k].pc = "write"]
            PROVE  tx'[k].wrote = tx[k].wrote /\ Book!Working(k)'
        BY <1>0, <3>1, <4>2 DEF Book!Working
      <4> QED
        BY <3>6, <4>1, <4>2 DEF Book!FindReplacement, Book!Present
    <3> QED
      BY <1>4, <3>2, <3>3, <3>4, <3>5, <3>6
  <2> QED
    BY <2>1, <2>2, <2>3, <2>4, QuietOne DEF BookInv
<1>5. CASE Book!RollBack(k)
  <2>1. Typed' /\ UNCHANGED book /\ \A j \in Tabs \ {k} : tx'[j] = tx[j]
    BY <1>0, <1>5, FindTyped DEF Book!RollBack
  <2>2. tx[k] \in Tx
    BY <1>0, <1>5, BusyTx DEF Book!RollBack, Book!Working, Book!Busy
  <2>3. ~Book!Working(k)'
    BY <1>0, <1>5, <2>2 DEF Book!RollBack, Book!Working, Tx
  <2>4. Held(k)' = {}
    BY <2>3 DEF Held
  <2> QED
    BY <2>1, <2>4, QuietOne DEF BookInv
<1> QED
  BY <1>2, <1>3, <1>4, <1>5 DEF Book!Serve

LEMMA PagesInv ==
    ASSUME BookAssumptions, BookInv, NEW k \in Tabs, Book!Use(k) \/ Book!Send(k) \/ Book!Answer(k)
    PROVE  BookInv'
<1>0. Typed /\ DOMAIN tx = Tabs
  BY BusyTx DEF BookInv
<1>1. CASE Book!Submit(k) \/ Book!Send(k) \/ (\E i \in Book!Ids : Book!SetDefault(k, i) \/ Book!ConfirmDelete(k, i))
  <2>1. /\ Typed' /\ UNCHANGED <<book, page>> /\ \A j \in Tabs \ {k} : tx'[j] = tx[j]
        /\ DOMAIN tx'[k].wrote = {}
    BY <1>0, <1>1, BeginTyped
  <2>2. Held(k)' = {}
    BY <2>1 DEF Held
  <2> QED
    BY <2>1, <2>2, QuietOne DEF BookInv
<1>2. CASE Book!OnSuccess(k) \/ Book!OnError(k) \/ Book!Answer(k)
  <2>1. Typed' /\ UNCHANGED book /\ tx' = [tx EXCEPT ![k] = Book!Idle]
    BY <1>0, <1>2, AnswerTyped
  <2>2. Held(k)' = {} /\ \A j \in Tabs \ {k} : tx'[j] = tx[j]
    BY <1>0, <2>1 DEF Held, Book!Working, Book!Idle
  <2> QED
    BY <2>1, <2>2, QuietOne DEF BookInv
<1>3. CASE \/ Book!Refetch(k) \/ Book!OpenCreate(k) \/ Book!Fill(k) \/ Book!ConfirmLocation(k) \/ Book!CloseForm(k)
           \/ \E i \in Book!Ids : Book!OpenEdit(k, i)
  <2>1. Typed' /\ UNCHANGED <<book, tx>>
    BY <1>0, <1>3, PageTyped
  <2>2. Held(k)' = {} \/ (Book!Working(k) /\ Book!Working(k)' /\ tx'[k].wrote = tx[k].wrote)
    BY <2>1 DEF Held, Book!Working
  <2> QED
    BY <2>1, <2>2, QuietOne DEF BookInv
<1> QED
  BY <1>1, <1>2, <1>3 DEF Book!Use

LEMMA InitBook ==
    ASSUME BookAssumptions, Book!Init
    PROVE  BookInv
<1>1. book \in Book!Table /\ Book!Present(book) = {}
  BY DEF Book!Init, Book!Table, Book!Present
<1>2. page \in [Tabs -> Book!Page]
  BY DEF Book!Init, Book!Page, Book!Table
<1>3. \A k \in Tabs : ~Book!Busy(k) /\ ~Book!Working(k) /\ tx[k] = Book!Idle
  BY DEF Book!Init, Book!Busy, Book!Working, Book!Idle
<1>4. tx \in [Tabs -> Tx \cup {Book!Idle}]
  BY DEF Book!Init
<1> QED
  BY <1>1, <1>2, <1>3, <1>4 DEF BookInv, Typed, OneInv, Book!Defaults, Held, DefaultHeld

LEMMA NextBook ==
    ASSUME BookAssumptions, BookInv, [BookNext]_Book!vars
    PROVE  BookInv'
<1>1. CASE BookNext
  BY <1>1, ServeInv, PagesInv DEF BookNext, Book!Next, Book!CommandNext
<1>2. CASE UNCHANGED Book!vars
  BY <1>2
    DEF Book!vars, BookInv, Typed, OneInv, Book!Busy, TxShape, Held, DefaultHeld, Book!Working,
        Book!Sees, Book!Defaults, Book!Present
<1> QED
  BY <1>1, <1>2

LEMMA AtMostOne ==
    ASSUME NEW S, \A i, j \in S : i = j
    PROVE  Cardinality(S) <= 1
<1>1. CASE S = {}
  BY <1>1, FS_EmptySet
<1>2. CASE S # {}
  <2>1. PICK x : S = {x}
    BY <1>2
  <2> QED
    BY <2>1, FS_Singleton
<1> QED
  BY <1>1, <1>2

LEMMA SameSize == \A S : Book!Cardinality(S) = Cardinality(S)
BY DEF Book!Cardinality, Cardinality

LEMMA OneByInv ==
    ASSUME BookInv
    PROVE  Book!AtMostOneDefault
<1>1. Cardinality(Book!Defaults(book)) <= 1
  BY AtMostOne DEF BookInv, OneInv
<1>2. ASSUME NEW k \in Tabs, tx[k].pc = "commit"
      PROVE  Cardinality(Book!Defaults(Book!Sees(k))) <= 1
  BY <1>2, AtMostOne, SeesOne DEF Book!Working
<1> QED
  BY <1>1, <1>2, SameSize DEF Book!AtMostOneDefault

(* However the creations, updates and removals of any number of tabs        *)
(* interleave, and whichever are rolled back, at most one address is the    *)
(* default one, and none that is about to commit makes it two               *)
(* (AddressesService).                                                      *)
THEOREM DefaultIsOne ==
    ASSUME Book!BookAssumption, Book!NoneAssumption
    PROVE  Book!Init /\ [][BookNext]_Book!vars => [](Book!TypeOK /\ Book!AtMostOneDefault)
<1> USE DEF BookAssumptions
<1>1. Book!Init => BookInv
  BY InitBook
<1>2. BookInv /\ [BookNext]_Book!vars => BookInv'
  BY NextBook
<1>3. BookInv => Book!TypeOK /\ Book!AtMostOneDefault
  <2>1. BookInv => Book!TypeOK
    BY WroteIs DEF BookInv, Typed, Book!TypeOK, Tx, Pcs, Book!IsTx
  <2> QED
    BY <2>1, OneByInv
<1> QED
  BY <1>1, <1>2, <1>3, PTL

(* With one tab: what the command k is about to write leaves a default row. *)
BookKept(k) ==
    LET c == tx[k] IN
    /\ Book!Present(book) # {} => Book!Defaults(book) # {}
    /\ c.pc = "commit" => (Book!Present(Book!Sees(k)) # {} => Book!Defaults(Book!Sees(k)) # {})
    /\ c.pc \in {"unset", "unsetting"} => c.isDefault = TRUE /\ c.op \in {"create", "update"}
    /\ c.pc = "write" /\ c.op = "create" =>
         c.isDefault = TRUE \/ (DOMAIN c.wrote = {} /\ Book!Present(book) # {})
    /\ c.pc = "write" /\ c.op = "update" =>
         c.isDefault = TRUE \/ (DOMAIN c.wrote = {} /\ ~(book[c.id].isDefault /\ c.isDefault = FALSE))
    /\ c.pc = "write" /\ c.op = "remove" => DOMAIN c.wrote = {} /\ c.isDefault = book[c.id].isDefault

Fits(row) == row.pin \in {None, row.text}

(* The pin of an edit form is missing only where that of its row is.        *)
Edited(f, table) ==
    f # None /\ f.id # None /\ f.pin = None => table[f.id] = None \/ table[f.id].pin = None

(* With one tab that hears every answer: the list is the table, the pin of  *)
(* the form is that of its fingerprint, and the command of a form has what  *)
(* the form still holds.                                                    *)
Pinned(k) ==
    LET c == tx[k]
        f == page[k].form
    IN /\ Book!PinFitsAddress
       /\ c.pc # "done" => page[k].list = book
       /\ f # None => f.pin = f.fingerprint
       /\ Edited(f, book)
       /\ Book!Working(k) =>
            /\ \A i \in Book!Present(Book!Sees(k)) : Fits(Book!Sees(k)[i])
            /\ Edited(f, Book!Sees(k))
            /\ c.text = None => c.pin = None
            /\ c.text # None => c.pin \in {None, c.text} /\ c.op \in {"create", "update"}
            /\ c.text # None /\ c.op = "update" => f # None /\ f.id = c.id /\ f.pin = c.pin
            /\ c.op = "create" => f = None \/ f.id = None

-----------------------------------------------------------------------------
(* One tab *)

LEMMA SeesIs ==
    ASSUME Typed, NEW k \in Tabs, NEW i \in Book!Ids
    PROVE  /\ i \in Book!Present(book) <=> book[i] # None
           /\ i \in Book!Defaults(book) <=> book[i] # None /\ book[i].isDefault
           /\ i \in Book!Present(Book!Sees(k)) <=> Book!Sees(k)[i] # None
           /\ i \in Book!Defaults(Book!Sees(k)) <=> Book!Sees(k)[i] # None /\ Book!Sees(k)[i].isDefault
BY DEF Book!Present, Book!Defaults

LEMMA SeesBook ==
    ASSUME Typed, NEW k \in Tabs, DOMAIN tx[k].wrote = {}
    PROVE  Book!Sees(k) = book
BY DEF Book!Sees, Typed, Book!Table

LEMMA UnsetKept ==
    ASSUME BookAssumptions, Typed, NEW k \in Tabs, BookKept(k), Book!Unset(k)
    PROVE  BookKept(k)'
<1>1. Writes(k, UnsetRows(k), "write") /\ UNCHANGED book
  BY UnsetWrites DEF Writes
<1>2. tx'[k].pc = "write" /\ tx'[k].op = tx[k].op /\ tx'[k].isDefault = tx[k].isDefault
  BY <1>1, WritesTyped
<1>3. tx[k].isDefault = TRUE /\ tx[k].op \in {"create", "update"}
  BY DEF BookKept, Book!Unset
<1> QED
  BY <1>1, <1>2, <1>3 DEF BookKept, Book!Present, Book!Defaults

LEMMA InsertKept ==
    ASSUME BookAssumptions, Typed, NEW k \in Tabs, BookKept(k), NEW i \in Book!Ids, Book!Insert(k, i)
    PROVE  BookKept(k)'
<1> DEFINE rows == [n \in {i} |-> NewRow(k)]
<1>1. Writes(k, rows, "commit") /\ UNCHANGED book /\ DOMAIN rows = {i} /\ rows[i] = NewRow(k)
      /\ NewRow(k) # None
  BY InsertWrites DEF Writes, BookAssumptions, Book!NoneAssumption
<1> HIDE DEF rows
<1>2. tx'[k].pc = "commit"
  BY <1>1, WritesTyped
<1>3. \A n \in Book!Ids : Book!Sees(k)'[n] = IF n = i THEN NewRow(k) ELSE Book!Sees(k)[n]
  BY <1>1, WritesSeen
<1>4. Book!Defaults(Book!Sees(k))' # {}
  <2>1. CASE tx[k].isDefault = TRUE
    BY <1>1, <1>3, <2>1 DEF NewRow, Book!Defaults, Book!Present
  <2>2. CASE DOMAIN tx[k].wrote = {} /\ Book!Present(book) # {}
    <3>1. PICK n \in Book!Defaults(book) : TRUE
      BY <2>2 DEF BookKept
    <3>2. Book!Sees(k) = book /\ n \in Book!Ids /\ n # i
      BY <2>2, <3>1, SeesBook DEF Book!Defaults, Book!Present, Book!Insert
    <3> QED
      BY <1>3, <3>1, <3>2 DEF Book!Defaults, Book!Present
  <2> QED
    BY <2>1, <2>2 DEF BookKept, Book!Insert
<1>5. Book!Present(book)' # {} => Book!Defaults(book)' # {}
  BY <1>1 DEF BookKept, Book!Present, Book!Defaults
<1> QED
  BY <1>2, <1>4, <1>5 DEF BookKept

LEMMA UpdateKept ==
    ASSUME BookAssumptions, Typed, NEW k \in Tabs, BookKept(k), Book!Update(k)
    PROVE  BookKept(k)'
<1> DEFINE i == tx[k].id
           row == Book!Updated(Book!Sees(k)[i], tx[k])
           rows == [n \in {i} |-> row]
<1>1. /\ i \in Book!Ids /\ row \in Book!Row /\ Book!Sees(k)[i] \in Book!Row /\ Writes(k, rows, "commit") /\ UNCHANGED book
      /\ DOMAIN rows = {i} /\ rows[i] = row /\ row # None /\ Book!Sees(k)[i] # None
  BY UpdateWrites DEF Writes, BookAssumptions, Book!NoneAssumption
<1>a. row.isDefault = IF tx[k].isDefault = None THEN Book!Sees(k)[i].isDefault ELSE tx[k].isDefault
  BY DEF Book!Updated
<1> HIDE DEF rows, row
<1>2. tx'[k].pc = "commit"
  BY <1>1, WritesTyped
<1>3. \A n \in Book!Ids : Book!Sees(k)'[n] = IF n = i THEN row ELSE Book!Sees(k)[n]
  BY <1>1, WritesSeen
<1>b. tx[k] \in Tx /\ TxShape(tx[k])
  BY <1>1, BusyTx DEF Writes, Book!Working, Book!Busy, Typed
<1>4. Book!Defaults(Book!Sees(k))' # {}
  <2>1. CASE tx[k].isDefault = TRUE
    <3>1. TRUE # None
      BY DEF BookAssumptions, Book!NoneAssumption
    <3>2. row.isDefault
      BY <1>a, <2>1, <3>1
    <3> QED
      BY <1>1, <1>3, <3>2 DEF Book!Defaults, Book!Present
  <2>2. CASE DOMAIN tx[k].wrote = {} /\ ~(book[i].isDefault /\ tx[k].isDefault = FALSE)
    <3>1. Book!Sees(k) = book
      BY <2>2, SeesBook
    <3>2. PICK n \in Book!Defaults(book) : TRUE
      BY <1>1, <3>1 DEF BookKept, Book!Present
    <3>3. n = i => row.isDefault
      BY <1>a, <1>b, <2>2, <3>1, <3>2 DEF Book!Defaults, Tx
    <3> QED
      BY <1>1, <1>3, <3>1, <3>2, <3>3 DEF Book!Defaults, Book!Present
  <2> QED
    BY <1>b, <2>1, <2>2 DEF BookKept, Book!Update, TxShape
<1>5. Book!Present(book)' # {} => Book!Defaults(book)' # {}
  BY <1>1 DEF BookKept, Book!Present, Book!Defaults
<1> QED
  BY <1>2, <1>4, <1>5 DEF BookKept

LEMMA DeleteKept ==
    ASSUME BookAssumptions, Typed, NEW k \in Tabs, BookKept(k), Book!Delete(k)
    PROVE  BookKept(k)'
<1> DEFINE i == tx[k].id
           pc == IF tx[k].isDefault THEN "promote" ELSE "commit"
           rows == [n \in {i} |-> None]
<1>1. i \in Book!Ids /\ tx[k].isDefault \in BOOLEAN /\ Writes(k, rows, pc) /\ UNCHANGED book
      /\ DOMAIN rows = {i} /\ rows[i] = None
  BY DeleteWrites DEF Writes
<1>a. pc \in {"promote", "commit"} /\ (pc = "commit" => ~tx[k].isDefault)
  OBVIOUS
<1> HIDE DEF rows, pc
<1>2. tx'[k].pc = pc
  BY <1>1, WritesTyped
<1>3. \A n \in Book!Ids : Book!Sees(k)'[n] = IF n = i THEN None ELSE Book!Sees(k)[n]
  BY <1>1, WritesSeen
<1>4. Book!Sees(k) = book /\ tx[k].isDefault = book[i].isDefault
  BY SeesBook DEF BookKept, Book!Delete
<1>5. ASSUME pc = "commit", Book!Present(Book!Sees(k))' # {}
      PROVE  Book!Defaults(Book!Sees(k))' # {}
  <2>1. PICK n \in Book!Defaults(book) : TRUE
    BY <1>3, <1>4, <1>5 DEF BookKept, Book!Present
  <2>2. n # i
    BY <1>4, <1>5, <1>a, <2>1 DEF Book!Defaults
  <2> QED
    BY <1>3, <1>4, <2>1, <2>2 DEF Book!Defaults, Book!Present
<1>6. Book!Present(book)' # {} => Book!Defaults(book)' # {}
  BY <1>1 DEF BookKept, Book!Present, Book!Defaults
<1> QED
  BY <1>2, <1>5, <1>6, <1>a DEF BookKept

LEMMA FindKept ==
    ASSUME BookAssumptions, Typed, NEW k \in Tabs, BookKept(k),
           \/ Book!Count(k) \/ Book!FindToUpdate(k) \/ Book!FindToRemove(k) \/ Book!UnsetFind(k) \/ Book!FindReplacement(k)
    PROVE  BookKept(k)'
<1>1. tx[k] \in Tx /\ TxShape(tx[k]) /\ DOMAIN tx = Tabs
      /\ DOMAIN tx[k] = {"op", "id", "text", "pin", "isDefault", "pc", "seen", "wrote"}
  BY BusyTx, BusyIsTx
     DEF Book!Count, Book!FindToUpdate, Book!FindToRemove, Book!UnsetFind, Book!FindReplacement,
         Book!Busy, Typed, Book!Idle, Tx
<1>2. UNCHANGED book
  BY DEF Book!Count, Book!FindToUpdate, Book!FindToRemove, Book!UnsetFind, Book!FindReplacement
<1>3. Book!Present(book)' = Book!Present(book) /\ Book!Defaults(book)' = Book!Defaults(book)
  BY <1>2 DEF Book!Present, Book!Defaults
<1>4. CASE Book!Count(k)
  <2> DEFINE d == tx[k].isDefault \/ Book!Present(book) = {}
  <2>1. tx[k].op = "create" /\ tx[k].pc = "read" /\ tx[k].isDefault \in BOOLEAN
    BY <1>1, <1>4 DEF Book!Count, TxShape
  <2>2. d \in BOOLEAN /\ (~d => Book!Present(book) # {})
    OBVIOUS
  <2>3. /\ tx'[k].isDefault = d /\ tx'[k].op = "create" /\ tx'[k].wrote = tx[k].wrote
        /\ tx'[k].pc = IF d THEN "unset" ELSE "write"
    BY <1>1, <1>4, <2>1 DEF Book!Count
  <2>4. DOMAIN tx[k].wrote = {}
    BY <1>1, <2>1 DEF TxShape
  <2> HIDE DEF d
  <2> QED
    BY <1>3, <2>2, <2>3, <2>4 DEF BookKept
<1>5. CASE Book!FindToUpdate(k)
  <2>1. /\ tx'[k].isDefault = tx[k].isDefault /\ tx'[k].op = "update" /\ tx'[k].wrote = tx[k].wrote
        /\ tx'[k].id = tx[k].id
        /\ tx'[k].pc = IF tx[k].isDefault = TRUE /\ ~book[tx[k].id].isDefault THEN "unset" ELSE "write"
    BY <1>1, <1>5 DEF Book!FindToUpdate
  <2>2. DOMAIN tx[k].wrote = {} /\ ~(book[tx[k].id].isDefault /\ tx[k].isDefault = FALSE)
    BY <1>1, <1>5 DEF Book!FindToUpdate, TxShape
  <2> QED
    BY <1>2, <1>3, <2>1, <2>2 DEF BookKept
<1>6. CASE Book!FindToRemove(k)
  <2>1. /\ tx'[k].isDefault = book[tx[k].id].isDefault /\ tx'[k].op = "remove"
        /\ tx'[k].wrote = tx[k].wrote /\ tx'[k].id = tx[k].id /\ tx'[k].pc = "write"
    BY <1>1, <1>6 DEF Book!FindToRemove
  <2>2. DOMAIN tx[k].wrote = {}
    BY <1>1, <1>6 DEF Book!FindToRemove, TxShape
  <2> QED
    BY <1>2, <1>3, <2>1, <2>2 DEF BookKept
<1>7. CASE Book!UnsetFind(k)
  <2>1. tx'[k].pc = "unsetting" /\ tx'[k].op = tx[k].op /\ tx'[k].isDefault = tx[k].isDefault
        /\ tx[k].pc = "unset"
    BY <1>1, <1>7 DEF Book!UnsetFind
  <2> QED
    BY <1>3, <2>1 DEF BookKept
<1>8. CASE Book!FindReplacement(k)
  <2>1. CASE Book!Present(Book!Sees(k)) = {} /\ tx' = [tx EXCEPT ![k].pc = "commit"]
    <3>1. tx'[k].pc = "commit" /\ tx'[k].wrote = tx[k].wrote
      BY <1>1, <2>1
    <3>2. Book!Sees(k)' = Book!Sees(k)
      BY <1>2, <3>1 DEF Book!Sees
    <3>3. Book!Present(Book!Sees(k))' = {}
      BY <2>1, <3>2 DEF Book!Present
    <3> QED
      BY <1>3, <3>1, <3>3 DEF BookKept
  <2>2. ASSUME NEW i \in Book!Ids, tx' = [tx EXCEPT ![k].op = "promote", ![k].id = i,
                                               ![k].isDefault = TRUE, ![k].pc = "write"]
        PROVE  BookKept(k)'
    <3>1. tx'[k].pc = "write" /\ tx'[k].op = "promote" /\ tx'[k].isDefault = TRUE
      BY <1>1, <2>2
    <3> QED
      BY <1>3, <3>1 DEF BookKept
  <2> QED
    BY <1>8, <2>1, <2>2 DEF Book!FindReplacement, Book!Present
<1> QED
  BY <1>4, <1>5, <1>6, <1>7, <1>8

LEMMA EndKept ==
    ASSUME BookAssumptions, Typed, NEW k \in Tabs, BookKept(k), Book!Commit(k) \/ Book!RollBack(k)
    PROVE  BookKept(k)'
<1>1. tx[k] \in Tx /\ DOMAIN tx = Tabs
  BY BusyTx, BusyIsTx DEF Book!Commit, Book!RollBack, Book!Working, Book!Busy, Book!Idle
<1>2. tx'[k].pc \in {"done", "failed"}
  BY <1>1 DEF Book!Commit, Book!RollBack, Tx
<1>3. Book!Present(book)' # {} => Book!Defaults(book)' # {}
  BY DEF Book!Commit, Book!RollBack, BookKept, Book!Present, Book!Defaults
<1> QED
  BY <1>2, <1>3 DEF BookKept

LEMMA PageKept ==
    ASSUME BookAssumptions, Typed, NEW k \in Tabs, BookKept(k),
           Book!Use(k) \/ Book!Send(k) \/ Book!Answer(k)
    PROVE  BookKept(k)'
<1>0. DOMAIN tx = Tabs
  BY BusyTx
<1>1. CASE Book!Submit(k) \/ Book!Send(k) \/ (\E i \in Book!Ids : Book!SetDefault(k, i) \/ Book!ConfirmDelete(k, i))
  <2>1. UNCHANGED book /\ tx'[k].pc = "read"
    BY <1>1, BeginTyped
  <2> QED
    BY <2>1 DEF BookKept, Book!Present, Book!Defaults
<1>2. CASE Book!OnSuccess(k) \/ Book!OnError(k) \/ Book!Answer(k)
  <2>1. UNCHANGED book /\ tx'[k].pc = "idle"
    BY <1>0, <1>2, AnswerTyped DEF Book!Idle
  <2> QED
    BY <2>1 DEF BookKept, Book!Present, Book!Defaults
<1>3. CASE \/ Book!Refetch(k) \/ Book!OpenCreate(k) \/ Book!Fill(k) \/ Book!ConfirmLocation(k) \/ Book!CloseForm(k)
           \/ \E i \in Book!Ids : Book!OpenEdit(k, i)
  <2>1. UNCHANGED <<book, tx>>
    BY <1>3, PageTyped
  <2> QED
    BY <2>1 DEF BookKept, Book!Present, Book!Defaults, Book!Sees
<1> QED
  BY <1>1, <1>2, <1>3 DEF Book!Use

LEMMA NextKept ==
    ASSUME BookAssumptions, Typed, NEW k, Tabs = {k}, BookKept(k), [BookNext]_Book!vars
    PROVE  BookKept(k)'
<1>1. CASE Book!Serve(k)
  BY <1>1, UnsetKept, InsertKept, UpdateKept, DeleteKept, FindKept, EndKept DEF Book!Serve
<1>2. CASE Book!Use(k) \/ Book!Send(k) \/ Book!Answer(k)
  BY <1>2, PageKept
<1>3. CASE UNCHANGED Book!vars
  BY <1>3 DEF Book!vars, BookKept, Book!Present, Book!Defaults, Book!Sees
<1> QED
  BY <1>1, <1>2, <1>3 DEF BookNext, Book!Next, Book!CommandNext

(* With one tab, a customer with addresses always has a default one, though *)
(* a removal reads whether it removes the default before it promotes        *)
(* another (AddressesService).                                              *)
THEOREM DefaultIsKept ==
    ASSUME Book!BookAssumption, Book!NoneAssumption, NEW k, Tabs = {k}
    PROVE  Book!Init /\ [][BookNext]_Book!vars => []Book!HasDefault
<1> USE DEF BookAssumptions
<1>1. Book!Init => BookInv /\ BookKept(k)
  <2>1. Book!Init => Book!Present(book) = {} /\ tx[k].pc = "idle"
    BY DEF Book!Init, Book!Present, Book!Idle
  <2> QED
    BY <2>1, InitBook DEF BookKept
<1>2. BookInv /\ BookKept(k) /\ [BookNext]_Book!vars => (BookInv /\ BookKept(k))'
  BY NextBook, NextKept DEF BookInv
<1>3. BookKept(k) => Book!HasDefault
  BY DEF BookKept, Book!HasDefault
<1> QED
  BY <1>1, <1>2, <1>3, PTL

-----------------------------------------------------------------------------
(* Pins *)

(* A statement that writes rows keeps the pins when its rows fit and the     *)
(* form on the page knows those of its row.                                  *)
LEMMA WritesPinned ==
    ASSUME BookAssumptions, Typed, NEW k \in Tabs, Pinned(k), NEW rows, NEW pc, Writes(k, rows, pc),
           \A i \in DOMAIN rows :
             /\ rows[i] # None => Fits(rows[i])
             /\ page[k].form # None /\ page[k].form.id = i /\ page[k].form.pin = None =>
                  rows[i] = None \/ rows[i].pin = None
    PROVE  Pinned(k)'
<1>1. /\ tx'[k].pc = pc /\ tx'[k].op = tx[k].op /\ tx'[k].id = tx[k].id /\ tx'[k].text = tx[k].text
      /\ tx'[k].pin = tx[k].pin
  BY WritesTyped
<1>2. \A i \in Book!Ids : Book!Sees(k)'[i] = IF i \in DOMAIN rows THEN rows[i] ELSE Book!Sees(k)[i]
  BY WritesSeen
<1>3. book' = book /\ page' = page /\ Book!Working(k) /\ tx[k].pc # "done" /\ pc # "done" /\ DOMAIN rows \subseteq Book!Ids
  BY WroteIs DEF Writes, Book!Working
<1>4. \A i \in Book!Present(Book!Sees(k))' : Fits(Book!Sees(k)'[i])
  BY <1>2, <1>3 DEF Pinned, Book!Present
<1>5. Edited(page[k].form, Book!Sees(k))'
  <2>1. page[k].form # None => page[k].form.id \in Book!Ids \cup {None}
    BY FormIs DEF Book!Form
  <2> QED
    BY <1>2, <1>3, <2>1 DEF Pinned, Edited
<1>6. Book!PinFitsAddress' /\ Edited(page[k].form, book)'
  BY <1>3 DEF Pinned, Book!PinFitsAddress, Edited, Book!Present
<1> QED
  BY <1>1, <1>3, <1>4, <1>5, <1>6 DEF Pinned

LEMMA RowPinned ==
    ASSUME BookAssumptions, Typed, NEW k \in Tabs, Pinned(k), Book!Working(k), NEW i \in Book!Ids,
           Book!Sees(k)[i] # None
    PROVE  /\ Book!Sees(k)[i] \in Book!Row /\ Fits(Book!Sees(k)[i])
           /\ page[k].form # None /\ page[k].form.id = i /\ page[k].form.pin = None => Book!Sees(k)[i].pin = None
<1>1. Book!Sees(k)[i] \in Book!Row
  BY SeesTable DEF Book!Working, Book!Busy, Book!Table
<1>2. Fits(Book!Sees(k)[i])
  BY DEF Pinned, Book!Present
<1>3. None \notin Book!Ids
  BY DEF BookAssumptions, Book!NoneAssumption
<1> QED
  BY <1>1, <1>2, <1>3 DEF Pinned, Edited

LEMMA UnsetPinned ==
    ASSUME BookAssumptions, Typed, NEW k \in Tabs, Pinned(k), Book!Unset(k)
    PROVE  Pinned(k)'
<1>1. Writes(k, UnsetRows(k), "write")
  BY UnsetWrites
<1>2. Book!Working(k) /\ Book!Sees(k) = book
  BY <1>1, SeesBook, BusyTx DEF Book!Unset, Book!Working, Book!Busy, Typed, TxShape
<1>3. ASSUME NEW i \in DOMAIN UnsetRows(k)
      PROVE  /\ i \in Book!Ids /\ Book!Sees(k)[i] # None
             /\ UnsetRows(k)[i] = [Book!Sees(k)[i] EXCEPT !.isDefault = FALSE]
  BY <1>2 DEF UnsetRows, Book!Defaults, Book!Present
<1>4. ASSUME NEW r \in Book!Row
      PROVE  /\ [r EXCEPT !.isDefault = FALSE].pin = r.pin
             /\ [r EXCEPT !.isDefault = FALSE].text = r.text
  BY DEF Book!Row
<1>5. \A i \in DOMAIN UnsetRows(k) :
        /\ UnsetRows(k)[i].pin = Book!Sees(k)[i].pin /\ UnsetRows(k)[i].text = Book!Sees(k)[i].text
        /\ Fits(Book!Sees(k)[i])
        /\ page[k].form # None /\ page[k].form.id = i /\ page[k].form.pin = None => Book!Sees(k)[i].pin = None
  BY <1>2, <1>3, <1>4, RowPinned
<1> QED
  BY <1>1, <1>5, WritesPinned DEF Fits

LEMMA InsertPinned ==
    ASSUME BookAssumptions, Typed, NEW k \in Tabs, Pinned(k), NEW i \in Book!Ids, Book!Insert(k, i)
    PROVE  Pinned(k)'
<1> DEFINE rows == [n \in {i} |-> NewRow(k)]
<1>1. Writes(k, rows, "commit") /\ DOMAIN rows = {i} /\ rows[i] = NewRow(k)
  BY InsertWrites
<1> HIDE DEF rows
<1>2. Book!Working(k) /\ tx[k].op = "create" /\ tx[k].text # None
  BY <1>1, BusyTx
    DEF Book!Insert, Writes, Book!Working, Book!Busy, Typed, TxShape, BookAssumptions,
        Book!NoneAssumption
<1>3. Fits(NewRow(k)) /\ (page[k].form = None \/ page[k].form.id = None)
  BY <1>2 DEF Pinned, Fits, NewRow
<1>4. i # None
  BY DEF BookAssumptions, Book!NoneAssumption
<1> QED
  BY <1>1, <1>3, <1>4, WritesPinned

LEMMA UpdatePinned ==
    ASSUME BookAssumptions, Typed, NEW k \in Tabs, Pinned(k), Book!Update(k)
    PROVE  Pinned(k)'
<1> DEFINE i == tx[k].id
           old == Book!Sees(k)[i]
           row == Book!Updated(old, tx[k])
           rows == [n \in {i} |-> row]
           f == page[k].form
<1>1. /\ i \in Book!Ids /\ row \in Book!Row /\ old \in Book!Row /\ Writes(k, rows, "commit")
      /\ DOMAIN rows = {i} /\ rows[i] = row
  BY UpdateWrites
<1>2. /\ row.text = IF tx[k].text = None THEN old.text ELSE tx[k].text
      /\ row.pin = IF tx[k].pin = None THEN old.pin ELSE tx[k].pin
  BY DEF Book!Updated
<1>3. Book!Working(k) /\ old # None /\ tx[k].op \in {"update", "promote"}
  BY <1>1 DEF Writes, Book!Update, BookAssumptions, Book!NoneAssumption
<1>4. Fits(old) /\ (f # None /\ f.id = i /\ f.pin = None => old.pin = None)
  BY <1>1, <1>3, RowPinned
<1> HIDE DEF rows, row, old
<1>5. CASE tx[k].text = None
  <2>1. row.text = old.text /\ row.pin = old.pin
    BY <1>2, <1>3, <1>5 DEF Pinned
  <2> QED
    BY <1>1, <1>4, <2>1, WritesPinned DEF Fits
<1>6. CASE tx[k].text # None
  <2>1. tx[k].pin \in {None, tx[k].text} /\ f # None /\ f.id = i /\ f.pin = tx[k].pin
    BY <1>3, <1>6 DEF Pinned
  <2>2. CASE tx[k].pin = None
    BY <1>1, <1>2, <1>4, <2>1, <2>2, WritesPinned DEF Fits
  <2>3. CASE tx[k].pin # None
    BY <1>1, <1>2, <1>6, <2>1, <2>3, WritesPinned DEF Fits
  <2> QED
    BY <2>2, <2>3
<1> QED
  BY <1>5, <1>6

LEMMA DeletePinned ==
    ASSUME BookAssumptions, Typed, NEW k \in Tabs, Pinned(k), Book!Delete(k)
    PROVE  Pinned(k)'
<1> DEFINE i == tx[k].id
           pc == IF tx[k].isDefault THEN "promote" ELSE "commit"
           rows == [n \in {i} |-> None]
<1>1. Writes(k, rows, pc) /\ DOMAIN rows = {i} /\ rows[i] = None
  BY DeleteWrites
<1> HIDE DEF rows, pc
<1> QED
  BY <1>1, WritesPinned

(* A step of the command that writes nothing. *)
LEMMA FindPinned ==
    ASSUME BookAssumptions, Typed, NEW k \in Tabs, Pinned(k),
           \/ Book!Count(k) \/ Book!FindToUpdate(k) \/ Book!FindToRemove(k) \/ Book!UnsetFind(k) \/ Book!FindReplacement(k)
           \/ Book!RollBack(k)
    PROVE  Pinned(k)'
<1>1. tx[k] \in Tx /\ TxShape(tx[k]) /\ DOMAIN tx = Tabs /\ Book!Working(k)
      /\ DOMAIN tx[k] = {"op", "id", "text", "pin", "isDefault", "pc", "seen", "wrote"}
  BY BusyTx, BusyIsTx
    DEF Book!Count, Book!FindToUpdate, Book!FindToRemove, Book!UnsetFind, Book!FindReplacement,
        Book!RollBack, Book!Busy,
     Book!Working, Typed, Book!Idle, Tx
<1>2. UNCHANGED <<book, page>>
  BY
    DEF Book!Count, Book!FindToUpdate, Book!FindToRemove, Book!UnsetFind, Book!FindReplacement,
        Book!RollBack
<1>3. Book!PinFitsAddress' /\ Edited(page[k].form, book)' /\ tx[k].pc # "done"
  BY <1>1, <1>2 DEF Pinned, Book!PinFitsAddress, Edited, Book!Present, Book!Working
<1>4. CASE Book!RollBack(k)
  <2>1. tx'[k].pc = "failed"
    BY <1>1, <1>4 DEF Book!RollBack
  <2> QED
    BY <1>2, <1>3, <2>1 DEF Pinned, Book!Working
<1>5. ASSUME tx'[k].pc \notin {"done", "failed"}, tx'[k].wrote = tx[k].wrote,
             tx'[k].text = tx[k].text, tx'[k].pin = tx[k].pin,
             \/ tx'[k].op = tx[k].op /\ tx'[k].id = tx[k].id
             \/ tx[k].op = "remove" /\ tx'[k].op = "promote"
      PROVE  Pinned(k)'
  <2>1. Book!Sees(k)' = Book!Sees(k)
    BY <1>2, <1>5 DEF Book!Sees
  <2>2. Book!Present(Book!Sees(k))' = Book!Present(Book!Sees(k))
    BY <2>1 DEF Book!Present
  <2>3. Edited(page[k].form, Book!Sees(k))'
    BY <1>1, <1>2, <2>1 DEF Pinned, Edited
  <2> QED
    BY <1>1, <1>2, <1>3, <1>5, <2>1, <2>2, <2>3 DEF Pinned
<1>6. CASE Book!Count(k)
  BY <1>1, <1>5, <1>6 DEF Book!Count
<1>7. CASE Book!FindToUpdate(k)
  BY <1>1, <1>5, <1>7 DEF Book!FindToUpdate
<1>8. CASE Book!FindToRemove(k)
  BY <1>1, <1>5, <1>8 DEF Book!FindToRemove
<1>9. CASE Book!UnsetFind(k)
  BY <1>1, <1>5, <1>9 DEF Book!UnsetFind
<1>10. CASE Book!FindReplacement(k)
  <2>1. CASE tx' = [tx EXCEPT ![k].pc = "commit"]
    BY <1>1, <1>5, <2>1
  <2>2. ASSUME NEW i \in Book!Ids, tx' = [tx EXCEPT ![k].op = "promote", ![k].id = i,
                                               ![k].isDefault = TRUE, ![k].pc = "write"]
        PROVE  Pinned(k)'
    <3>1. tx[k].op = "remove"
      BY <1>1, <1>10 DEF Book!FindReplacement, TxShape
    <3> QED
      BY <1>1, <1>5, <2>2, <3>1
  <2> QED
    BY <1>10, <2>1, <2>2 DEF Book!FindReplacement, Book!Present
<1> QED
  BY <1>4, <1>6, <1>7, <1>8, <1>9, <1>10

LEMMA CommitPinned ==
    ASSUME BookAssumptions, Typed, NEW k \in Tabs, Pinned(k), Book!Commit(k)
    PROVE  Pinned(k)'
<1>1. tx[k] \in Tx /\ DOMAIN tx = Tabs /\ Book!Working(k)
  BY BusyTx, BusyIsTx DEF Book!Commit, Book!Busy, Book!Working, Book!Idle
<1>2. tx'[k].pc = "done" /\ page' = page /\ book' = Book!Sees(k)
  BY <1>1 DEF Book!Commit, Tx
<1>3. Book!PinFitsAddress'
  BY <1>1, <1>2 DEF Pinned, Book!PinFitsAddress, Fits, Book!Present
<1>4. Edited(page[k].form, book)'
  BY <1>1, <1>2 DEF Pinned, Edited
<1> QED
  BY <1>2, <1>3, <1>4 DEF Pinned, Book!Working

LEMMA ShownPinned ==
    ASSUME BookAssumptions, ~Lossy, Typed, NEW k \in Tabs, Pinned(k), Book!Use(k)
    PROVE  Pinned(k)'
<1>0. /\ DOMAIN tx = Tabs /\ DOMAIN page = Tabs /\ page[k] \in Book!Page
      /\ page[k].form # None => page[k].form \in Book!Form
      /\ None \notin Book!Ids /\ None \notin Texts
  BY BusyTx, FormIs DEF BookAssumptions, Book!NoneAssumption
<1> DEFINE f == page[k].form
<1>a. ~Book!Busy(k) => ~Book!Working(k) /\ tx[k].pc # "done"
  BY DEF Book!Busy, Book!Working
<1>b. ASSUME UNCHANGED <<book, tx>>, page'[k].list = page[k].list \/ page'[k].list = book,
             \/ page'[k].form = f
             \/ f = None /\ page'[k].form.id = None /\ page'[k].form.pin = page'[k].form.fingerprint
             \/ /\ ~Book!Busy(k) /\ (page'[k].form # None => page'[k].form.pin = page'[k].form.fingerprint)
                /\ Edited(page'[k].form, book)
      PROVE  Pinned(k)'
  <2>1. Book!PinFitsAddress' /\ (tx'[k].pc # "done" => page'[k].list = book')
    BY <1>b DEF Pinned, Book!PinFitsAddress, Book!Present
  <2>2. Book!Sees(k)' = Book!Sees(k) /\ (Book!Working(k)' <=> Book!Working(k))
    BY <1>b DEF Book!Sees, Book!Working
  <2>3. Book!Present(Book!Sees(k))' = Book!Present(Book!Sees(k))
    BY <2>2 DEF Book!Present
  <2>4. CASE page'[k].form = f
    BY <1>b, <2>1, <2>2, <2>3, <2>4 DEF Pinned, Edited
  <2>5. CASE f = None /\ page'[k].form.id = None /\ page'[k].form.pin = page'[k].form.fingerprint
    BY <1>b, <2>1, <2>2, <2>3, <2>5 DEF Pinned, Edited
  <2>6. CASE /\ ~Book!Busy(k) /\ (page'[k].form # None => page'[k].form.pin = page'[k].form.fingerprint)
             /\ Edited(page'[k].form, book)
    <3>1. ~Book!Working(k)'
      BY <1>a, <2>2, <2>6
    <3>2. Edited(page[k].form, book)'
      BY <1>b, <2>6 DEF Edited
    <3> QED
      BY <2>1, <2>6, <3>1, <3>2 DEF Pinned
  <2> QED
    BY <1>b, <2>4, <2>5, <2>6
<1>1. CASE Book!Refetch(k)
  BY <1>0, <1>1, <1>b DEF Book!Refetch, Book!Page
<1>2. CASE Book!OpenCreate(k)
  <2>1. PICK t \in Texts : page' = [page EXCEPT ![k].form =
          [id |-> None, text |-> t, pin |-> None, fingerprint |-> None, isDefault |-> FALSE]]
    BY <1>2 DEF Book!OpenCreate
  <2> DEFINE g == [id |-> None, text |-> t, pin |-> None, fingerprint |-> None, isDefault |-> FALSE]
  <2>2. g.id = None /\ g.pin = g.fingerprint
    OBVIOUS
  <2> HIDE DEF g
  <2>3. page'[k].form = g /\ page'[k].list = page[k].list
    BY <1>0, <2>1 DEF Book!Page, g
  <2> QED
    BY <1>2, <1>b, <2>2, <2>3 DEF Book!OpenCreate
<1>3. CASE Book!Fill(k)
  <2>1. f \in Book!Form /\ ~Book!Busy(k) /\ UNCHANGED <<book, tx>>
    BY <1>0, <1>3 DEF Book!Fill
  <2>2. \/ \E t \in Texts : page' = [page EXCEPT ![k].form = [f EXCEPT !.text = t]]
        \/ page' = [page EXCEPT ![k].form = [f EXCEPT !.isDefault = ~@]]
    BY <1>0, <1>3 DEF Book!Fill, Book!Page
  <2>3. /\ page'[k].list = page[k].list /\ page'[k].form.pin = f.pin
        /\ page'[k].form.fingerprint = f.fingerprint /\ page'[k].form.id = f.id
    BY <1>0, <2>1, <2>2 DEF Book!Page, Book!Form
  <2> QED
    BY <1>3, <1>b, <2>1, <2>3 DEF Pinned, Edited, Book!Fill
<1>4. CASE Book!ConfirmLocation(k)
  <2>1. f \in Book!Form /\ ~Book!Busy(k) /\ UNCHANGED <<book, tx>>
    BY <1>0, <1>4 DEF Book!ConfirmLocation
  <2>2. page' = [page EXCEPT ![k].form = [f EXCEPT !.pin = f.text, !.fingerprint = f.text]]
    BY <1>0, <1>4 DEF Book!ConfirmLocation, Book!Page
  <2>3. /\ page'[k].list = page[k].list /\ page'[k].form.pin = f.text
        /\ page'[k].form.fingerprint = f.text /\ f.text # None
    BY <1>0, <2>1, <2>2 DEF Book!Page, Book!Form
  <2> QED
    BY <1>b, <2>1, <2>3 DEF Edited
<1>5. CASE Book!CloseForm(k)
  BY <1>0, <1>5, <1>b DEF Book!CloseForm, Book!Page, Edited
<1>6. ASSUME NEW i \in Book!Ids, Book!OpenEdit(k, i)
      PROVE  Pinned(k)'
  <2> DEFINE a == page[k].list[i]
             g == [id |-> i, text |-> a.text, pin |-> a.pin, isDefault |-> a.isDefault,
                   fingerprint |-> IF a.pin = None THEN None ELSE a.text]
  <2>1. ~Book!Busy(k) /\ a # None /\ UNCHANGED <<book, tx>> /\ page' = [page EXCEPT ![k].form = g]
    BY <1>6 DEF Book!OpenEdit
  <2>2. a = book[i] /\ Fits(a)
    BY <1>a, <2>1 DEF Pinned, Book!PinFitsAddress, Book!Present, Fits
  <2>3. g.id = i /\ g.pin = a.pin /\ g.fingerprint = (IF a.pin = None THEN None ELSE a.text)
    OBVIOUS
  <2> HIDE DEF g
  <2>4. page'[k].form = g /\ page'[k].list = page[k].list
    BY <1>0, <2>1 DEF Book!Page
  <2> QED
    BY <1>b, <2>1, <2>2, <2>3, <2>4 DEF Fits, Edited
<1>7. CASE Book!Submit(k)
  <2>1. f \in Book!Form /\ f.pin \in {None, f.text} /\ f.text # None
    BY <1>0, <1>7 DEF Book!Submit, Pinned, Book!Form
  <2>2. /\ UNCHANGED <<book, page>> /\ DOMAIN tx'[k].wrote = {} /\ tx'[k].pc = "read" /\ ~Book!Busy(k)
        /\ tx'[k].op = IF f.id = None THEN "create" ELSE "update"
        /\ tx'[k].id = f.id /\ tx'[k].text = f.text /\ tx'[k].pin = f.pin
    BY <1>0, <1>7 DEF Book!Submit, Book!Start, Book!FormCommand, Book!Command
  <2>3. Book!Sees(k)' = book
    BY <2>2 DEF Book!Sees, Typed, Book!Table
  <2> QED
    BY <1>7, <1>a, <2>1, <2>2, <2>3
      DEF Pinned, Book!PinFitsAddress, Fits, Book!Present, Edited, Book!Submit
<1>8. CASE \E i \in Book!Ids : Book!SetDefault(k, i) \/ Book!ConfirmDelete(k, i)
  <2>1. /\ UNCHANGED <<book, page>> /\ DOMAIN tx'[k].wrote = {} /\ tx'[k].pc = "read" /\ ~Book!Busy(k)
        /\ tx'[k].op \in {"update", "remove"} /\ tx'[k].text = None /\ tx'[k].pin = None
    BY <1>0, <1>8 DEF Book!SetDefault, Book!ConfirmDelete, Book!Start, Book!Command
  <2>2. Book!Sees(k)' = book
    BY <2>1 DEF Book!Sees, Typed, Book!Table
  <2> QED
    BY <1>a, <2>1, <2>2 DEF Pinned, Book!PinFitsAddress, Fits, Book!Present, Edited
<1>9. CASE Book!OnSuccess(k)
  <2> DEFINE h == IF tx[k].text # None THEN None ELSE f
  <2>1. /\ UNCHANGED book /\ tx'[k].pc = "idle" /\ page'[k].list = book /\ page'[k].form = h
    BY <1>0, <1>9 DEF Book!OnSuccess, Book!Idle, Book!Page
  <2> QED
    BY <2>1 DEF Pinned, Book!PinFitsAddress, Book!Present, Edited, Book!Working
<1>10. CASE Book!OnError(k)
  <2>1. UNCHANGED <<book, page>> /\ tx'[k].pc = "idle" /\ tx[k].pc = "failed"
    BY <1>0, <1>10 DEF Book!OnError, Book!Idle
  <2> QED
    BY <2>1 DEF Pinned, Book!PinFitsAddress, Book!Present, Edited, Book!Working
<1> QED
  BY <1>1, <1>2, <1>3, <1>4, <1>5, <1>6, <1>7, <1>8, <1>9, <1>10 DEF Book!Use

(* With one tab that hears every answer, the place saved with an address    *)
(* was confirmed on the map for the text saved with it, whatever is edited  *)
(* while commands run (address-form.ts, update).                            *)
THEOREM PinsFit ==
    ASSUME Book!BookAssumption, Book!NoneAssumption, ~Lossy, NEW k, Tabs = {k}
    PROVE  Book!Spec => []Book!PinFitsAddress
<1> USE DEF BookAssumptions
<1>1. Book!Init => BookInv /\ Pinned(k)
  <2>1. Book!Init => /\ \A i \in Book!Ids : book[i] = None
                /\ tx[k].pc = "idle" /\ page[k].form = None /\ page[k].list = book
    BY DEF Book!Init, Book!Idle
  <2> QED
    BY <2>1, InitBook DEF Pinned, Book!PinFitsAddress, Book!Present, Edited, Book!Working
<1>2. BookInv /\ Pinned(k) /\ [Book!Next]_Book!vars => (BookInv /\ Pinned(k))'
  <2> SUFFICES ASSUME BookInv, Pinned(k), [Book!Next]_Book!vars
               PROVE  BookInv' /\ Pinned(k)'
    OBVIOUS
  <2>1. BookInv' /\ Typed
    BY NextBook DEF BookNext, BookInv
  <2>a. Book!Next => Book!Serve(k) \/ Book!Use(k)
    BY DEF Book!Next
  <2>2. CASE Book!Serve(k)
    BY <2>1, <2>2, UnsetPinned, InsertPinned, UpdatePinned, DeletePinned, FindPinned, CommitPinned
      DEF Book!Serve
  <2>3. CASE Book!Use(k)
    BY <2>1, <2>3, ShownPinned
  <2>4. CASE UNCHANGED Book!vars
    <3>1. UNCHANGED <<book, tx, page>> /\ Book!Sees(k)' = Book!Sees(k)
      BY <2>4 DEF Book!vars, Book!Sees
    <3>2. Book!Present(book)' = Book!Present(book) /\ Book!Present(Book!Sees(k))' = Book!Present(Book!Sees(k))
      BY <3>1 DEF Book!Present
    <3>3. Pinned(k)'
      BY <3>1, <3>2 DEF Pinned, Book!PinFitsAddress, Edited, Book!Working
    <3> QED
      BY <2>1, <3>3
  <2> QED
    BY <2>1, <2>2, <2>3, <2>4, <2>a
<1>3. Pinned(k) => Book!PinFitsAddress
  BY DEF Pinned
<1> QED
  BY <1>1, <1>2, <1>3, PTL DEF Book!Spec
(* The three together, for the customer's tabs: never two default           *)
(* addresses, always one with one tab, and with no answer lost the place    *)
(* that was confirmed for the text (AddressesService).                      *)
THEOREM AddressesHold ==
    ASSUME Book!BookAssumption, Book!NoneAssumption
    PROVE  Book!Spec => []Book!OneDefault
<1>1. [Book!Next]_Book!vars => [BookNext]_Book!vars
  BY DEF BookNext
<1>2. Book!Spec => [](Book!TypeOK /\ Book!AtMostOneDefault)
  BY <1>1, DefaultIsOne, PTL DEF Book!Spec
<1>3. CASE ~\E k \in Tabs : Tabs = {k}
  <2>1. Book!TypeOK /\ Book!AtMostOneDefault => Book!OneDefault
    BY <1>3 DEF Book!OneDefault
  <2> QED
    BY <1>2, <2>1, PTL
<1>4. ASSUME NEW k \in Tabs, Tabs = {k}
      PROVE  Book!Spec => []Book!OneDefault
  <2>1. Book!Spec => []Book!HasDefault
    BY <1>1, <1>4, DefaultIsKept, PTL DEF Book!Spec
  <2>2. CASE Lossy
    <3>1. Book!TypeOK /\ Book!AtMostOneDefault /\ Book!HasDefault => Book!OneDefault
      BY <2>2 DEF Book!OneDefault
    <3> QED
      BY <1>2, <2>1, <3>1, PTL
  <2>3. CASE ~Lossy
    <3>1. Book!Spec => []Book!PinFitsAddress
      BY <1>4, <2>3, PinsFit
    <3>2. /\ Book!TypeOK /\ Book!AtMostOneDefault /\ Book!HasDefault /\ Book!PinFitsAddress
          => Book!OneDefault
      BY DEF Book!OneDefault
    <3> QED
      BY <1>2, <2>1, <3>1, <3>2, PTL
  <2> QED
    BY <2>2, <2>3
<1> QED
  BY <1>3, <1>4
=============================================================================
