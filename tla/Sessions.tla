---- MODULE Sessions ----
(***************************************************************************)
(* Sign-in sessions: the refresh-token table behind /auth/*, and a browser *)
(* that keeps one pair of tokens in local storage, sends several requests  *)
(* at once and answers a 401 by refreshing the pair and sending the        *)
(* request again.                                                          *)
(*                                                                         *)
(* A pair of tokens is one id: its refresh token is a row that can be      *)
(* revoked, its access token is not stored anywhere.  There is no clock:   *)
(* whenever the API looks at a token it may find that it has expired, and  *)
(* from then on it has.                                                    *)
(* Rotation is three steps in the API (look up, revoke and commit, issue   *)
(* and commit), which one API process runs without a pause and several     *)
(* interleave.                                                             *)
(***************************************************************************)
EXTENDS Naturals

CONSTANTS
    Users,       \* accounts
    Pairs,       \* ids of token pairs
    Calls,       \* requests the browser may have in progress at once
    OneProcess,  \* whether one API process serves every request, as shipped
    Faults,      \* "lost": a request or its response is lost; "reload": of the page
    MaxOps,      \* bound: requests begun in a behaviour
    MaxFaults,   \* bound: losses and reloads
    None         \* no pair, no user

ASSUME ProcessAssumption == OneProcess \in BOOLEAN
ASSUME FaultsAssumption == Faults \subseteq {"lost", "reload"}
ASSUME BoundsAssumption == MaxOps \in Nat /\ MaxFaults \in Nat
ASSUME NoneAssumption == None \notin Users \cup Pairs

VARIABLES
    row,     \* the pairs issued: state of the refresh token, of the access token, owner,
             \* and the sign-in they go back to
    stored,  \* the pair in local storage
    shown,   \* AuthContext's user
    call,    \* requests in progress
    ops,     \* how many requests were begun
    logins,  \* how many sign-ins the API granted
    faults   \* how many losses and reloads happened

vars == <<row, stored, shown, call, ops, logins, faults>>

Row(state, u, login) == [state |-> state, access |-> "fresh", user |-> u, login |-> login]
NoRow == Row("none", None, 0)
Rows == [state : {"none", "live", "revoked", "expired"}, access : {"fresh", "expired"},
         user : Users \cup {None}, login : Nat]

\* kind of request, where it is, account it signs in to, refresh token it revokes, pair
\* whose access token it carries, pair it refreshes with or was given.
Call(kind, at, who, ends, access, pair) ==
    [kind |-> kind, pc |-> at, who |-> who, ends |-> ends, access |-> access, pair |-> pair]
NoCall == Call("none", "idle", None, None, None, None)

Requests ==
    [kind : {"none", "fetch", "me", "login", "logout"},
     pc : {"idle", "sent", "resent", "denied", "refreshing", "checked", "rotated",
           "granted", "ok", "failed"},
     who : Users \cup {None},
     ends : Pairs \cup {None}, access : Pairs \cup {None}, pair : Pairs \cup {None}]

\* Each request has the tokens its next step uses.
Complete(m) ==
    /\ m.kind = "login" => m.who \in Users
    /\ m.kind = "logout" => m.ends \in Pairs
    /\ m.kind = "login" /\ m.pc = "ok" => m.pair \in Pairs
    /\ m.kind = "me" /\ m.pc = "ok" => m.access \in Pairs
    /\ m.pc \in {"refreshing", "checked", "rotated", "granted"} => m.pair \in Pairs

\* Type invariant: issued pairs have an owner and a sign-in, and whoever is about to
\* use a token has one (api.ts posts a refresh only with a token to post).
TypeOK ==
    /\ row \in [Pairs -> Rows]
    /\ \A r \in Pairs : row[r].state # "none" => row[r].user \in Users
    /\ stored \in Pairs \cup {None}
    /\ shown \in Users \cup {None}
    /\ call \in [Calls -> Requests]
    /\ \A c \in Calls : Complete(call[c])
    /\ ops \in 0..MaxOps /\ logins \in Nat /\ faults \in 0..MaxFaults

\* AuthContext asks who is signed in when there is a pair.
Me(pair) == Call("me", "sent", None, None, pair, None)

\* The page is opened signed out.
Init ==
    /\ row = [r \in Pairs |-> NoRow]
    /\ stored = None
    /\ shown = None
    /\ call = [c \in Calls |-> NoCall]
    /\ ops = 0 /\ logins = 0 /\ faults = 0

At(c, point) == call[c].pc = point
Goto(c, point) == call' = [call EXCEPT ![c].pc = point]
Gone(c) == call' = [call EXCEPT ![c] = NoCall]

Live(r) == row[r].state = "live"

\* Whoever could still send one of the pair's tokens.
Held(r) == r = stored \/ \E c \in Calls : r \in {call[c].ends, call[c].access, call[c].pair}

\* A pair nobody holds any more and whose row is not live cannot be told from one that
\* was never issued.
FreshPairs == {r \in Pairs : ~Live(r) /\ ~Held(r)}
NewPair == CHOOSE r \in FreshPairs : TRUE

----
(* The browser begins a request: the interceptor adds the stored access token. *)

Begin(c, kind, who, ends) ==
    /\ At(c, "idle") /\ ops < MaxOps
    /\ ops' = ops + 1
    /\ call' = [call EXCEPT ![c] = Call(kind, "sent", who, ends, stored, None)]

\* Any request of a page behind ProtectedRoute.
Fetch(c) ==
    /\ shown # None
    /\ Begin(c, "fetch", None, None)
    /\ UNCHANGED <<row, stored, shown, logins, faults>>

\* AuthContext.login, which the login page offers whoever is signed in.
Login(c, u) ==
    /\ Begin(c, "login", u, None)
    /\ UNCHANGED <<row, stored, shown, logins, faults>>

\* AuthContext.logout, with the refresh token it finds.
Logout(c) ==
    /\ shown # None /\ stored # None
    /\ Begin(c, "logout", None, stored)
    /\ UNCHANGED <<row, stored, shown, logins, faults>>

\* Without one there is nobody to ask.
LogoutHere ==
    /\ shown # None /\ stored = None
    /\ shown' = None
    /\ UNCHANGED <<row, stored, call, ops, logins, faults>>

----
(* The API. *)

\* One process does not take a request while it serves another.
Admitted == OneProcess => \A c \in Calls : call[c].pc \notin {"checked", "rotated"}

Arrived(c) == Admitted /\ call[c].pc \in {"sent", "resent"}

\* get_current_user.  The account itself is never deactivated.
MayBeAuthorized(c) == call[c].access # None /\ row[call[c].access].access = "fresh"

Serve(c) ==
    /\ Arrived(c) /\ call[c].kind \in {"fetch", "me"} /\ MayBeAuthorized(c)
    /\ Goto(c, "ok")
    /\ UNCHANGED <<row, stored, shown, ops, logins, faults>>

\* revoke_refresh_token, a no-op on a row already revoked and of no use on an expired one.
ServeLogout(c) ==
    LET r == call[c].ends IN
    /\ Arrived(c) /\ call[c].kind = "logout" /\ MayBeAuthorized(c)
    /\ row' = IF Live(r) THEN [row EXCEPT ![r].state = "revoked"] ELSE row
    /\ Goto(c, "ok")
    /\ UNCHANGED <<stored, shown, ops, logins, faults>>

\* authenticate_user and issue_tokens.
ServeLogin(c) ==
    /\ Arrived(c) /\ call[c].kind = "login"
    /\ logins' = logins + 1
    /\ FreshPairs # {}
    /\ row' = [row EXCEPT ![NewPair] = Row("live", call[c].who, logins')]
    /\ call' = [call EXCEPT ![c].pc = "ok", ![c].pair = NewPair]
    /\ UNCHANGED <<stored, shown, ops, faults>>

\* 401: the access token is missing or has expired, or the password is wrong.  The
\* interceptor lets a request that was already sent again fail.
Deny(c) ==
    /\ Arrived(c)
    /\ row' = IF call[c].kind # "login" /\ MayBeAuthorized(c)
              THEN [row EXCEPT ![call[c].access].access = "expired"] ELSE row
    /\ Goto(c, IF At(c, "sent") THEN "denied" ELSE "failed")
    /\ UNCHANGED <<stored, shown, ops, logins, faults>>

\* Mutant: `stored.revoked` is not looked at.
CheckUnrevoked(c) ==
    /\ At(c, "refreshing") /\ Admitted
    /\ row[call[c].pair].state # "expired"
    /\ Goto(c, "checked")
    /\ UNCHANGED <<row, stored, shown, ops, logins, faults>>

\* refresh_access_token up to its last check.
CheckRefresh(c) ==
    /\ At(c, "refreshing") /\ Admitted
    /\ Live(call[c].pair)
    /\ Goto(c, "checked")
    /\ UNCHANGED <<row, stored, shown, ops, logins, faults>>

\* It is revoked, or it has expired, and the access token long before it.
RefuseRefresh(c) ==
    /\ At(c, "refreshing") /\ Admitted
    /\ row' = IF Live(call[c].pair)
              THEN [row EXCEPT ![call[c].pair].state = "expired",
                               ![call[c].pair].access = "expired"]
              ELSE row
    /\ Goto(c, "failed")
    /\ UNCHANGED <<stored, shown, ops, logins, faults>>

Rotate(c) ==
    /\ At(c, "checked")
    /\ row' = [row EXCEPT ![call[c].pair].state = "revoked"]
    /\ Goto(c, "rotated")
    /\ UNCHANGED <<stored, shown, ops, logins, faults>>

\* issue_tokens: a pair of the same user, of the same sign-in.
Issue(c) ==
    LET old == row[call[c].pair] IN
    /\ At(c, "rotated")
    /\ FreshPairs # {}
    /\ row' = [row EXCEPT ![NewPair] = Row("live", old.user, old.login)]
    /\ call' = [call EXCEPT ![c].pc = "granted", ![c].pair = NewPair]
    /\ UNCHANGED <<stored, shown, ops, logins, faults>>

----
(* The browser gets an answer. *)

\* Mutant: the refresh is posted without a token to post.
AskRefreshAnyway(c) ==
    /\ At(c, "denied")
    /\ call' = [call EXCEPT ![c].pc = "refreshing", ![c].pair = stored]
    /\ UNCHANGED <<row, stored, shown, ops, logins, faults>>

\* The interceptor posts the refresh token it finds.
AskRefresh(c) ==
    /\ At(c, "denied") /\ stored # None
    /\ call' = [call EXCEPT ![c].pc = "refreshing", ![c].pair = stored]
    /\ UNCHANGED <<row, stored, shown, ops, logins, faults>>

\* Without one its request is refused as malformed, and the original one fails.
NothingToAsk(c) ==
    /\ At(c, "denied") /\ stored = None
    /\ Goto(c, "failed")
    /\ UNCHANGED <<row, stored, shown, ops, logins, faults>>

\* Mutant: the new access token is used, the new pair not stored.
ResendOnly(c) ==
    /\ At(c, "granted")
    /\ call' = [call EXCEPT ![c].pc = "resent", ![c].access = call[c].pair]
    /\ UNCHANGED <<row, stored, shown, ops, logins, faults>>

Resend(c) ==
    /\ At(c, "granted")
    /\ stored' = call[c].pair
    /\ call' = [call EXCEPT ![c].pc = "resent", ![c].access = call[c].pair]
    /\ UNCHANGED <<row, shown, ops, logins, faults>>

\* The answer, or the error, reaches whoever made the request.
Settle(c) ==
    /\ \/ At(c, "ok") /\ call[c].kind = "fetch"
       \/ At(c, "failed") /\ call[c].kind # "logout"
    /\ Gone(c)
    /\ UNCHANGED <<row, stored, shown, ops, logins, faults>>

\* setUser: the account of the access token /auth/me was asked with.
ShowUser(c) ==
    /\ At(c, "ok") /\ call[c].kind = "me"
    /\ shown' = row[call[c].access].user
    /\ Gone(c)
    /\ UNCHANGED <<row, stored, ops, logins, faults>>

\* login stores the pair and asks /auth/me with it.
SignedIn(c) ==
    /\ At(c, "ok") /\ call[c].kind = "login"
    /\ stored' = call[c].pair
    /\ call' = [call EXCEPT ![c] = Me(call[c].pair)]
    /\ UNCHANGED <<row, shown, ops, logins, faults>>

\* logout clears local storage and the user, whatever the API answered.
SignedOut(c) ==
    /\ call[c].pc \in {"ok", "failed"} /\ call[c].kind = "logout"
    /\ stored' = None
    /\ shown' = None
    /\ Gone(c)
    /\ UNCHANGED <<row, ops, logins, faults>>

----
(* Failures. *)

\* The network fails, or the API stops, anywhere between request and answer.
Lose(c) ==
    /\ "lost" \in Faults /\ faults < MaxFaults
    /\ call[c].pc \notin {"idle", "failed"}
    /\ faults' = faults + 1
    /\ Goto(c, "failed")
    /\ UNCHANGED <<row, stored, shown, ops, logins>>

\* The page is loaded anew: nobody waits for what was in progress.
Reload(c) ==
    /\ "reload" \in Faults /\ faults < MaxFaults
    /\ faults' = faults + 1
    /\ shown' = None
    /\ call' = [d \in Calls |-> IF d = c /\ stored # None THEN Me(stored) ELSE NoCall]
    /\ UNCHANGED <<row, stored, ops, logins>>

----
Served(c) ==
    \/ Serve(c) \/ ServeLogout(c) \/ ServeLogin(c) \/ Deny(c)
    \/ CheckRefresh(c) \/ RefuseRefresh(c) \/ Rotate(c) \/ Issue(c)

Answered(c) ==
    \/ AskRefresh(c) \/ NothingToAsk(c) \/ Resend(c)
    \/ Settle(c) \/ ShowUser(c) \/ SignedIn(c) \/ SignedOut(c)

CallStep(c) == Served(c) \/ Answered(c)

\* The bound on requests is used up.
AtRest ==
    /\ ops = MaxOps /\ \A c \in Calls : At(c, "idle")
    /\ UNCHANGED vars

Next ==
    \/ AtRest
    \/ \E c \in Calls : \/ Fetch(c) \/ Logout(c) \/ CallStep(c) \/ Lose(c) \/ Reload(c)
                        \/ \E u \in Users : Login(c, u)
    \/ LogoutHere

Spec == Init /\ [][Next]_vars

----
(* Safety. *)

\* A sign-in has at most one refresh token that can still be used, however its
\* requests race: refresh_access_token revokes the one it was given before it
\* issues the next.
OneLivePerLogin ==
    \A r, s \in Pairs : Live(r) /\ Live(s) /\ row[r].login = row[s].login => r = s

\* Unless something was lost, the refresh token the browser keeps has not been revoked
\* behind its back: the refresh that revoked it is about to bring its successor, or
\* the user is signing out.  So requests refused together never sign the user out.
StoredIsUsable ==
    faults = 0 /\ stored # None /\ row[stored].state = "revoked" =>
        \E c \in Calls :
            \/ call[c].kind = "logout"
            \/ At(c, "rotated") /\ call[c].pair = stored
            \/ At(c, "granted") /\ row[call[c].pair].login = row[stored].login

\* A logout that the API has answered ended its sign-in: no refresh token of it is left
\* that could be exchanged for a new pair.
LogoutEndsSession ==
    \A c \in Calls : call[c].kind = "logout" /\ At(c, "ok") =>
        ~ \E r \in Pairs : Live(r) /\ row[r].login = row[call[c].ends].login

====
