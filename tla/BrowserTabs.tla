----------------------------- MODULE BrowserTabs -----------------------------
(***************************************************************************)
(* The web client's side of a session (services/api.ts, auth-session.ts,   *)
(* AuthProvider): tabs of one browser share the refresh cookie, each holds *)
(* its own copy of the session, and they tell each other of a new one over *)
(* a BroadcastChannel. Refresh and logout take the Web Lock                *)
(* "logistics-auth-refresh" where the browser has Web Locks.               *)
(*                                                                         *)
(* The server is reduced to which refresh tokens are live (AuthSessions    *)
(* has the rest). The revision counter is only ever compared with its      *)
(* value at the start of a refresh: moved says that it differs.            *)
(*                                                                         *)
(* A session is the token pair and the user shown with it: refresh and     *)
(* login bring both, a profile save's answer replaces the user alone.      *)
(*                                                                         *)
(* One person uses the browser: a login is sent when no login or logout is *)
(* under way and earlier broadcasts have arrived, a logout when no login   *)
(* is under way, a profile when no other is being saved and earlier        *)
(* broadcasts have arrived.                                                *)
(***************************************************************************)
EXTENDS Naturals, Sequences, FiniteSets

CONSTANTS
    Tabs, Users,
    Tokens,     \* refresh tokens, one per login or rotation
    HasLocks,   \* navigator.locks exists
    None

(* What the constants must satisfy. *)
LocksAssumption == HasLocks \in BOOLEAN
NoneAssumption == None \notin Tabs \cup Users \cup Tokens

VARIABLES
    owner,    \* server: the user of each issued token
    live,     \* server: tokens that can be exchanged
    stray,    \* tokens of refresh requests given up on but still on the wire
    jar,      \* the refresh cookie
    holder,   \* the tab that holds the Web Lock
    tab,
    out,      \* the last thing the person did was to log out
    late      \* a save was answered when its user had left, or was leaving

server == <<owner, live, stray>>
vars == <<owner, live, stray, jar, holder, tab, out, late>>

-----------------------------------------------------------------------------
(* State *)

Maybe == Tokens \cup {None}
Session == [token : Tokens, user : Users]
NoSession == [token |-> None, user |-> None]
TabRow ==
    [sess : Session \cup {NoSession},                     \* currentSession
     restore : {"loading", "ready", "restore-error"},
     inbox : Seq(Session \cup {NoSession}),               \* broadcasts not yet handled
     refresh : {"idle", "queued", "sent", "ok", "invalid", "backoff"},
     req : Maybe, got : Maybe, again : BOOLEAN, moved : BOOLEAN,
     logout : {"idle", "waiting", "sent", "answered"}, bye : Maybe,
     form : {"idle", "login", "change"}, answered : BOOLEAN, who : Users \cup {None},
     new : Maybe,
     save : {"idle", "sent", "repeated", "saved"}, ask : Maybe, saved : Users \cup {None}]
NewTab ==
    [sess |-> NoSession, restore |-> "loading", inbox |-> <<>>,
     refresh |-> "idle", req |-> None, got |-> None, again |-> FALSE, moved |-> FALSE,
     logout |-> "idle", bye |-> None,
     form |-> "idle", answered |-> FALSE, who |-> None, new |-> None,
     save |-> "idle", ask |-> None, saved |-> None]

(* Every variable has its type. *)
TypeOK ==
    /\ owner \in [Tokens -> Users \cup {None}] /\ live \subseteq Tokens /\ stray \subseteq Tokens
    /\ jar \in Maybe /\ holder \in Tabs \cup {None} /\ out \in BOOLEAN /\ late \in BOOLEAN
    /\ tab \in [Tabs -> TabRow]

Init ==
    /\ owner = [k \in Tokens |-> None] /\ live = {} /\ stray = {}
    /\ jar = None /\ holder = None /\ out = FALSE /\ late = FALSE
    /\ tab = [t \in Tabs |-> NewTab]

SignedIn(t) == tab[t].sess # NoSession
SessionOf(k) == [token |-> k, user |-> owner[k]]    \* buildAuthResult
Fresh == {k \in Tokens : owner[k] = None}
Acquire(t) == HasLocks => holder = None
Taken(t) == IF HasLocks THEN t ELSE holder
Released(t) == IF holder = t THEN None ELSE holder

(* updateAuthSession in tab t: the new session, and a broadcast of it. *)
Publish(t, row, s) ==
    [x \in Tabs |-> IF x = t THEN [row EXCEPT !.sess = s, !.moved = row.refresh # "idle",
                                             !.restore = "ready"]
                    ELSE [tab[x] EXCEPT !.inbox = Append(@, s)]]

Settled(row) == [row EXCEPT !.refresh = "idle", !.req = None, !.got = None, !.again = FALSE,
                            !.moved = FALSE]

Shut(row) == [row EXCEPT !.form = "idle", !.answered = FALSE, !.who = None, !.new = None]

-----------------------------------------------------------------------------
(* refreshAuthSession *)

(* A save refused with 401: its token is over. *)
Refused(t) == tab[t].save \in {"sent", "repeated"} /\ tab[t].ask \notin live

(* On start of the page, after a 401, or when the socket is refused. *)
NeedsRefresh(t) == SignedIn(t) \/ tab[t].restore = "loading" \/ Refused(t)

(* Once per tab, and not while this tab logs out. *)
StartRefresh(t) ==
    /\ tab[t].refresh = "idle" /\ tab[t].logout = "idle"
    /\ NeedsRefresh(t)
    /\ tab' = [tab EXCEPT ![t].refresh = "queued"]
    /\ UNCHANGED <<server, jar, holder, out>>

(* With the lock: reuse what a broadcast brought meanwhile, or ask. *)
SendRefreshUnlocked(t) ==  \* mutant: the request is sent outside the lock
    /\ tab[t].refresh = "queued"
    /\ tab' = [tab EXCEPT ![t].refresh = "sent", ![t].req = jar]
    /\ UNCHANGED <<server, jar, holder, out>>
SendRefresh(t) ==
    /\ tab[t].refresh = "queued" /\ Acquire(t)
    /\ IF tab[t].moved
       THEN /\ tab' = [tab EXCEPT ![t] = [Settled(@) EXCEPT !.restore = "ready"]]
            /\ UNCHANGED holder
       ELSE /\ tab' = [tab EXCEPT ![t].refresh = "sent", ![t].req = jar]
            /\ holder' = Taken(t)
    /\ UNCHANGED <<server, jar, out>>

(* AuthService.refresh: exchange the token, once. *)
Exchange(k, n) ==
    /\ n \in Fresh
    /\ owner' = [owner EXCEPT ![n] = owner[k]]
    /\ live' = (live \ {k}) \cup {n}

ServeRefresh(t) ==
    /\ tab[t].refresh = "sent"
    /\ IF tab[t].req \in live
       THEN \E n \in Fresh :
                /\ Exchange(tab[t].req, n)
                /\ tab' = [tab EXCEPT ![t].refresh = "ok", ![t].req = None, ![t].got = n]
       ELSE tab' = [tab EXCEPT ![t].refresh = "invalid", ![t].req = None] /\ UNCHANGED <<owner, live>>
    /\ UNCHANGED <<stray, jar, holder, out>>

(* The answer sets the cookie; it becomes the session unless the revision    *)
(* moved meanwhile.                                                          *)
RefreshAnswered(t) ==
    /\ tab[t].refresh = "ok"
    /\ jar' = tab[t].got
    /\ tab' = IF tab[t].moved
              THEN [tab EXCEPT ![t] = [Settled(@) EXCEPT !.restore = "ready"]]
              ELSE Publish(t, Settled(tab[t]), SessionOf(tab[t].got))
    /\ holder' = Released(t)
    /\ UNCHANGED <<server, out>>

(* AUTH_REFRESH_TOKEN_INVALID: without locks wait and try once more; else    *)
(* this tab, and only this tab, becomes a guest.                             *)
RefreshRefused(t) ==
    /\ tab[t].refresh = "invalid"
    /\ IF ~HasLocks /\ ~tab[t].again
       THEN tab' = [tab EXCEPT ![t].refresh = "backoff"] /\ UNCHANGED holder
       ELSE /\ tab' = [tab EXCEPT ![t] =
                   [Settled(@) EXCEPT !.restore = "ready",
                        !.sess = IF tab[t].moved THEN @ ELSE NoSession]]
            /\ holder' = Released(t)
    /\ UNCHANGED <<server, jar, out>>

RefreshAgain(t) ==
    /\ tab[t].refresh = "backoff"
    /\ tab' = IF tab[t].moved
              THEN [tab EXCEPT ![t] = [Settled(@) EXCEPT !.restore = "ready"]]
              ELSE [tab EXCEPT ![t].refresh = "sent", ![t].req = jar, ![t].again = TRUE]
    /\ UNCHANGED <<server, jar, holder, out>>

(* Time-out or network error: the request may be lost, still on its way, or  *)
(* served already. Nothing is applied.                                       *)
RefreshFailed(t, onWire) ==
    /\ tab[t].refresh \in {"sent", "ok", "invalid"}
    /\ onWire => tab[t].refresh = "sent" /\ tab[t].req # None
    /\ stray' = IF onWire THEN stray \cup {tab[t].req} ELSE stray
    /\ tab' = [tab EXCEPT ![t] = [Settled(@) EXCEPT !.restore =
                   IF tab[t].moved \/ @ = "ready" THEN "ready" ELSE "restore-error"]]
    /\ holder' = Released(t)
    /\ UNCHANGED <<owner, live, jar, out>>

(* A request its tab has given up on is served late. *)
ServeStray(k) ==
    /\ k \in stray
    /\ IF k \in live THEN \E n \in Fresh : Exchange(k, n) ELSE UNCHANGED <<owner, live>>
    /\ stray' = stray \ {k}
    /\ UNCHANGED <<jar, holder, tab, out>>

RetryRestore(t) ==
    /\ tab[t].restore = "restore-error"
    /\ tab' = [tab EXCEPT ![t].restore = "loading"]
    /\ UNCHANGED <<server, jar, holder, out>>

-----------------------------------------------------------------------------
(* logoutAuthSession *)

StartLogout(t) ==
    /\ tab[t].logout = "idle" /\ SignedIn(t) /\ tab[t].form = "idle"
    /\ \A x \in Tabs : tab[x].form # "login"
    /\ tab' = [tab EXCEPT ![t].logout = "waiting"]
    /\ UNCHANGED <<server, jar, holder, out>>

(* After this tab's own refresh has settled, under the lock. *)
SendLogout(t) ==
    /\ tab[t].logout = "waiting" /\ tab[t].refresh = "idle" /\ Acquire(t)
    /\ tab' = [tab EXCEPT ![t].logout = "sent", ![t].bye = jar]
    /\ holder' = Taken(t)
    /\ UNCHANGED <<server, jar, out>>

ServeLogout(t) ==
    /\ tab[t].logout = "sent"
    /\ live' = live \ {tab[t].bye}
    /\ tab' = [tab EXCEPT ![t].logout = "answered", ![t].bye = None]
    /\ UNCHANGED <<owner, stray, jar, holder, out>>

LogoutAnswered(t) ==
    /\ tab[t].logout = "answered"
    /\ jar' = None /\ out' = TRUE
    /\ tab' = Publish(t, [tab[t] EXCEPT !.logout = "idle"], NoSession)
    /\ holder' = Released(t)
    /\ UNCHANGED server

(* The request or its answer is lost: the session stays, the user may retry. *)
(* The change-password page swallows the error and goes to the login page.   *)
LogoutFailed(t) ==
    /\ tab[t].logout \in {"sent", "answered"}
    /\ tab' = [tab EXCEPT ![t] = [Shut(@) EXCEPT !.logout = "idle", !.bye = None]]
    /\ holder' = Released(t)
    /\ UNCHANGED <<server, jar, out>>

-----------------------------------------------------------------------------
(* Login, registration, password change *)

(* GuestRoute shows the login form to a guest only. *)
Guest(t) == tab[t].restore = "ready" /\ ~SignedIn(t)

StartLogin(t, u) ==
    /\ Guest(t)
    /\ \A x \in Tabs : tab[x].form = "idle" /\ tab[x].logout = "idle" /\ tab[x].inbox = <<>>
    /\ tab' = [tab EXCEPT ![t].form = "login", ![t].who = u]
    /\ UNCHANGED <<server, jar, holder, out>>

ServeLogin(t) ==
    /\ tab[t].form = "login" /\ ~tab[t].answered
    /\ \E n \in Fresh :
           /\ owner' = [owner EXCEPT ![n] = tab[t].who] /\ live' = live \cup {n}
           /\ tab' = [tab EXCEPT ![t].answered = TRUE, ![t].new = n]
    /\ UNCHANGED <<stray, jar, holder, out>>

LoginAnswered(t) ==
    /\ tab[t].form = "login" /\ tab[t].answered
    /\ jar' = tab[t].new /\ out' = FALSE
    /\ tab' = Publish(t, Shut(tab[t]), SessionOf(tab[t].new))
    /\ UNCHANGED <<server, holder>>

LoginFailed(t) ==
    /\ tab[t].form = "login"
    /\ tab' = [tab EXCEPT ![t] = Shut(@)]
    /\ UNCHANGED <<server, jar, holder, out>>

(* The change-password page: the server revokes every session of the user    *)
(* and clears the cookie, then the page logs out.                            *)
Change(t) ==
    /\ tab[t].form = "idle" /\ tab[t].logout = "idle"
    /\ tab[t].sess.token \in live
    /\ LET u == owner[tab[t].sess.token]
       IN  /\ live' = {k \in live : owner[k] # u}
           /\ tab' = [tab EXCEPT ![t].form = "change", ![t].who = u]
    /\ UNCHANGED <<owner, stray, jar, holder, out>>

ChangeAnswered(t) ==
    /\ tab[t].form = "change" /\ tab[t].logout = "idle" /\ ~tab[t].answered
    /\ jar' = None
    /\ tab' = [tab EXCEPT ![t].answered = TRUE, ![t].logout = "waiting"]
    /\ UNCHANGED <<server, holder, out>>

(* The answer is lost: the page shows an error and does not log out. *)
ChangeLost(t) ==
    /\ tab[t].form = "change" /\ tab[t].logout = "idle" /\ ~tab[t].answered
    /\ tab' = [tab EXCEPT ![t] = Shut(@)]
    /\ UNCHANGED <<server, jar, holder, out>>

ChangeDone(t) ==
    /\ tab[t].form = "change" /\ tab[t].logout = "idle" /\ tab[t].answered
    /\ tab' = [tab EXCEPT ![t] = Shut(@)]
    /\ UNCHANGED <<server, jar, holder, out>>

-----------------------------------------------------------------------------
(* The profile page *)

Unsaved(row) == [row EXCEPT !.save = "idle", !.ask = None, !.saved = None]

StartSave(t) ==
    /\ SignedIn(t) /\ \A x \in Tabs : tab[x].save = "idle" /\ tab[x].inbox = <<>>
    /\ tab' = [tab EXCEPT ![t].save = "sent", ![t].ask = tab[t].sess.token]
    /\ UNCHANGED <<server, jar, holder, out, late>>

(* UsersService.updateProfile for the user of the token. *)
ServeSave(t) ==
    /\ tab[t].save \in {"sent", "repeated"} /\ tab[t].ask \in live
    /\ tab' = [tab EXCEPT ![t].save = "saved", ![t].ask = None, ![t].saved = owner[tab[t].ask]]
    /\ UNCHANGED <<server, jar, holder, out, late>>

(* After a 401, once, with whatever session the tab has by then. *)
RepeatSave(t) ==
    /\ Refused(t) /\ tab[t].save = "sent"
    /\ SignedIn(t) /\ tab[t].sess.token # tab[t].ask
    /\ tab' = [tab EXCEPT ![t].save = "repeated", ![t].ask = tab[t].sess.token]
    /\ UNCHANGED <<server, jar, holder, out, late>>

(* Someone else, or nobody, is or will soon be signed in here. *)
Leaving(t, u) ==
    \/ tab[t].sess.user # u
    \/ \E i \in DOMAIN tab[t].inbox : tab[t].inbox[i].user # u
    \/ \E x \in Tabs : tab[x].form = "login"

(* updateUser: the current session with the user of the answer, broadcast.   *)
(* A guest has no session to change.                                         *)
SaveAnswered(t) ==
    /\ tab[t].save = "saved"
    /\ IF SignedIn(t)
       THEN /\ tab' = Publish(t, Unsaved(tab[t]), [tab[t].sess EXCEPT !.user = tab[t].saved])
            /\ late' = (late \/ Leaving(t, tab[t].saved))
       ELSE tab' = [tab EXCEPT ![t] = Unsaved(@)] /\ UNCHANGED late
    /\ UNCHANGED <<server, jar, holder, out>>

(* Refused for good, or the request or its answer is lost. *)
SaveFailed(t) ==
    /\ tab[t].save # "idle"
    /\ tab' = [tab EXCEPT ![t] = Unsaved(@)]
    /\ UNCHANGED <<server, jar, holder, out, late>>

-----------------------------------------------------------------------------
(* Broadcasts and reloads *)

Deliver(t) ==
    /\ tab[t].inbox # <<>>
    /\ tab' = [tab EXCEPT ![t].sess = Head(tab[t].inbox), ![t].inbox = Tail(@),
                   ![t].moved = tab[t].refresh # "idle", ![t].restore = "ready"]
    /\ UNCHANGED <<server, jar, holder, out>>

(* A reload aborts what the tab had under way and releases its lock. *)
Reload(t, onWire) ==
    /\ tab[t].restore # "loading" \/ tab[t].refresh # "idle"
    /\ onWire => tab[t].refresh = "sent" /\ tab[t].req # None
    /\ stray' = IF onWire THEN stray \cup {tab[t].req} ELSE stray
    /\ tab' = [tab EXCEPT ![t] = NewTab]
    /\ holder' = Released(t)
    /\ UNCHANGED <<owner, live, jar, out>>

RefreshStep ==
    \/ \E t \in Tabs : \/ StartRefresh(t) \/ SendRefresh(t) \/ ServeRefresh(t)
                       \/ RefreshAnswered(t) \/ RefreshRefused(t) \/ RefreshAgain(t)
                       \/ RetryRestore(t)
    \/ \E t \in Tabs, onWire \in BOOLEAN : RefreshFailed(t, onWire)
    \/ \E k \in Tokens : ServeStray(k)
LogoutStep ==
    \E t \in Tabs : \/ StartLogout(t) \/ SendLogout(t) \/ ServeLogout(t)
                    \/ LogoutAnswered(t) \/ LogoutFailed(t)
FormStep ==
    \/ \E t \in Tabs, u \in Users : StartLogin(t, u)
    \/ \E t \in Tabs : \/ ServeLogin(t) \/ LoginAnswered(t) \/ LoginFailed(t)
                       \/ Change(t) \/ ChangeAnswered(t) \/ ChangeLost(t) \/ ChangeDone(t)
SaveStep ==
    \E t \in Tabs : \/ StartSave(t) \/ ServeSave(t) \/ RepeatSave(t) \/ SaveAnswered(t)
                    \/ SaveFailed(t)
TabStep ==
    \/ \E t \in Tabs : Deliver(t)
    \/ \E t \in Tabs, onWire \in BOOLEAN : Reload(t, onWire)

Next == \/ /\ RefreshStep \/ LogoutStep \/ FormStep \/ TabStep
           /\ UNCHANGED late
        \/ SaveStep
Spec == Init /\ [][Next]_vars

-----------------------------------------------------------------------------
(* Properties *)

Held == ({jar} \cup {tab[t].sess.token : t \in Tabs}) \ {None}

(* After a logout, and until the next login, neither the cookie nor any tab  *)
(* has a session that still works, whatever refresh or save was under way.   *)
LogoutSticks == out => Held \cap live = {}

(* A tab turns into a guest only when the cookie no longer works, or when    *)
(* the session it is about to hear of has overtaken it: tabs that refresh at *)
(* the same time do not sign each other out.                                 *)
GuestRightly ==
    \A t \in Tabs : Guest(t)' /\ ~Guest(t) => jar' \notin live' \/ tab[t].inbox # <<>>
GuestOnlyWhenOver == [][GuestRightly]_vars

(* When nothing is under way, a signed-in tab has a session of the user whom *)
(* the cookie would sign in, and shows that user - unless a profile save was *)
(* answered after its user had left (updateUser looks at no revision).       *)
IdentityAgrees ==
    (\A t \in Tabs : tab[t].refresh = "idle" /\ tab[t].logout = "idle" /\ tab[t].form = "idle"
                     /\ tab[t].inbox = <<>>)
    => \A t \in Tabs : SignedIn(t) /\ jar \in live /\ ~late
                      => owner[tab[t].sess.token] = owner[jar] /\ tab[t].sess.user = owner[jar]

=============================================================================
