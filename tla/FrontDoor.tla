----------------------------- MODULE FrontDoor ------------------------------
(***************************************************************************)
(* What stands between a browser and the dashboard's handlers              *)
(* (web/server.py, security/access.py, security/session.py,                *)
(* security/payload.py, web/ratelimit.py): the rate limit, the access gate *)
(* and the session gate of the HTTP middleware, the login throttle, the    *)
(* tables of access tokens and E2E sessions, and the gates of /ws.         *)
(*                                                                         *)
(* The middleware awaits call_next() between its gates and the handler,    *)
(* and the handler's body may arrive late: a request is two steps, and     *)
(* other requests, ticks of the clock and sockets come between them.  A    *)
(* handler itself does not await, so that it is one step.                  *)
(*                                                                         *)
(* Time is kept relative to now: a time stamp is its age, an expiry the    *)
(* time left.  Ages stop at the length of the window they are compared     *)
(* with, so that no bound on the clock is needed.  Tokens are numbers, a   *)
(* new one the least nobody knows; a browser presents the token and the    *)
(* session it got last.  A dashboard password is set, the API gate is on   *)
(* and the mode is vps.  Bound: MaxToken tokens known at a time.           *)
(***************************************************************************)
EXTENDS Integers, Sequences, FiniteSets, Lists

CONSTANTS Client,       \* client addresses
          Loopback,     \* those the limiter and the throttle exempt
          None, MaxToken,
          FailureCap, LockoutSecs, LoginWindow,  \* LoginThrottle
          TokenTtl, MaxTokens,                    \* AccessManager
          SessionTtl,                             \* SessionManager
          RateCap, RateWindow                     \* ratelimit

ASSUME FrontDoorAssumption ==
    /\ Loopback \subseteq Client
    /\ None \notin Int /\ None \notin {"login", "logout", "handshake", "check"}
    /\ {MaxToken, FailureCap, LockoutSecs, LoginWindow, TokenTtl, MaxTokens,
        SessionTtl, RateCap, RateWindow} \subseteq Nat \ {0}

VARIABLES fails, until,   \* LoginThrottle._state: ages of the failures kept,
                          \* time left of the lockout
          hits,           \* ratelimit._hits: ages of the accepted requests
          tokens,         \* AccessManager._tokens in insertion order
          sessions,       \* SessionManager._sessions: time left of each
                          \* browser's last session, 0 for none or expired
                          \* (every use purges the table before it looks)
          access,         \* the token each browser presents
          request,        \* path of each client's request past the gates
          socket,         \* the client's /ws connection is open
          guesses,        \* ages of the failed passwords since a success,
                          \* those below GuessSpan (history)
          accepted,       \* ages of the requests let in, those below
                          \* RateWindow (history)
          promised,       \* tokens neither expired nor revoked: time left, and
                          \* the number of logins since (history)
          entered         \* clients that have given the password (history)

throttleVars == <<fails, until, guesses>>
rateVars == <<hits, accepted>>
tokenVars == <<tokens, promised, entered>>
doorVars == <<throttleVars, rateVars, tokenVars, sessions, access, request, socket>>

Route == {"login", "logout", "handshake", "check"}
\* _ACCESS_PUBLIC_PATHS and _PUBLIC_BASE; "check" stands for every other route
AccessPublic == {"login"}
SessionPublic == {"login", "logout", "handshake"}

Down(n) == IF n > 0 THEN n - 1 ELSE 0
Least(a, b) == IF a < b THEN a ELSE b
\* FailureCap + 1 refused passwords of a client span at least this.
GuessSpan == Least(LoginWindow, LockoutSecs)
Token == 1..MaxToken
Aged(s, cap) == [i \in DOMAIN s |-> Least(s[i] + 1, cap)]
Younger(s, window) == KeepAt(s, {i \in DOMAIN s : s[i] < window})
Passed(s, window) == Younger(Aged(s, window), window)

DoorInit ==
    /\ fails = [c \in Client |-> <<>>] /\ until = [c \in Client |-> 0]
    /\ hits = [c \in Client |-> <<>>]
    /\ tokens = <<>>
    /\ sessions = [c \in Client |-> 0]
    /\ access = [c \in Client |-> None]
    /\ request = [c \in Client |-> None]
    /\ socket = [c \in Client |-> FALSE]
    /\ guesses = [c \in Client |-> <<>>]
    /\ accepted = [c \in Client |-> <<>>]
    /\ promised = [t \in Token |-> None]
    /\ entered = {}

-----------------------------------------------------------------------------
(* AccessManager and SessionManager                                        *)

Unexpired == KeepAt(tokens, {i \in DOMAIN tokens : tokens[i].left > 0})
Verified(t) == \E i \in DOMAIN Unexpired : Unexpired[i].id = t
VerifiedSession(c) == sessions[c] > 0

\* Mutant: the newest token of a full table is given up.
EvictedNewest(entries) == SubSeq(entries, 1, Len(entries) - 1)

\* Mutant: the table is never bounded.
BoundedNever(entries) == entries

\* min() by expiry: tokens live equally long, so that it is the first inserted.
Evicted(entries) == Tail(entries)
Bounded(entries) == IF Len(entries) >= MaxTokens THEN Evicted(entries) ELSE entries

\* token_urlsafe() never repeats: neither known nor remembered.
Known == {t \in Token : promised[t] # None} \cup {tokens[i].id : i \in DOMAIN tokens}
           \cup {access[c] : c \in Client}
NewToken == CHOOSE t \in Token \ Known : \A u \in Token \ Known : t <= u

Issue(c) ==
    LET t == NewToken IN
    /\ Token \ Known # {}
    /\ tokens' = Append(Bounded(Unexpired), [id |-> t, left |-> TokenTtl])
    /\ promised' = [u \in Token |->
            IF u = t THEN [left |-> TokenTtl, newer |-> 0]
            ELSE IF promised[u] = None THEN None
            ELSE [promised[u] EXCEPT !.newer = Least(@ + 1, MaxTokens)]]
    /\ access' = [access EXCEPT ![c] = t]
    /\ entered' = entered \cup {c}

-----------------------------------------------------------------------------
(* ratelimit.allow_request: the list is trimmed, then measured             *)

\* Mutant: one request too many.
LetInOneMore(c) == c \in Loopback \/ Len(Younger(hits[c], RateWindow)) <= RateCap

LetIn(c) == c \in Loopback \/ Len(Younger(hits[c], RateWindow)) < RateCap
\* Mutant: a refused request is recorded as well.
TrimHitsRecords(c) ==
    IF c \in Loopback THEN hits
    ELSE [hits EXCEPT ![c] = Tail(Append(Younger(@, RateWindow), 0))]

TrimHits(c) ==
    IF c \in Loopback THEN hits ELSE [hits EXCEPT ![c] = Younger(@, RateWindow)]
RecordHit(c) ==
    IF c \in Loopback THEN hits
    ELSE [hits EXCEPT ![c] = Append(Younger(@, RateWindow), 0)]

-----------------------------------------------------------------------------
(* guardian_security_layer                                                 *)

\* 429: the refused request leaves no trace but the trimmed list.
TooMany(c) ==
    /\ request[c] = None
    /\ ~LetIn(c)
    /\ hits' = TrimHits(c)
    /\ UNCHANGED <<throttleVars, accepted, tokenVars, sessions, access, request, socket>>

\* Mutant: the handshake is on the list of public paths of both gates.
AccessGateBootstrap(c, path) ==
    path \in AccessPublic \cup {"handshake"} \/ Verified(access[c])

AccessGate(c, path) == path \in AccessPublic \/ Verified(access[c])
SessionGate(c, path) == path \in SessionPublic \/ VerifiedSession(c)

\* Let in by the limiter, then refused with 401 or passed on to the handler;
\* each verification purges its table.
Arrive(c, path) ==
    /\ request[c] = None
    /\ LetIn(c)
    /\ hits' = RecordHit(c)
    /\ accepted' = IF c \in Loopback THEN accepted
                   ELSE [accepted EXCEPT ![c] = Append(@, 0)]
    /\ tokens' = IF path \in AccessPublic THEN tokens ELSE Unexpired
    /\ request' = IF AccessGate(c, path) /\ SessionGate(c, path)
                  THEN [request EXCEPT ![c] = path] ELSE request
    /\ UNCHANGED <<throttleVars, promised, entered, sessions, access, socket>>

-----------------------------------------------------------------------------
(* Handlers                                                                *)

Handling(c, path) ==
    /\ request[c] = path
    /\ request' = [request EXCEPT ![c] = None]

\* security_login refuses before it looks at the password.
LockedOut(c) == c \notin Loopback /\ until[c] > 0
LoginLocked(c) ==
    /\ Handling(c, "login")
    /\ LockedOut(c)
    /\ UNCHANGED <<throttleVars, rateVars, tokenVars, sessions, access, socket>>

\* Mutant: the lockout runs from the first failure kept, not from the last.
RecordFailureFromFirst(c) ==
    LET kept == Append(Younger(fails[c], LoginWindow), 0)
        full == Len(kept) >= FailureCap
    IN  /\ fails' = [fails EXCEPT ![c] = IF full THEN <<>> ELSE kept]
        /\ until' = IF full THEN [until EXCEPT ![c] = LockoutSecs - Least(kept[1], LockoutSecs)] ELSE until

\* record_failure: at the limit the failures are exchanged for a lockout.
RecordFailure(c) ==
    LET kept == Append(Younger(fails[c], LoginWindow), 0)
        full == Len(kept) >= FailureCap
    IN  /\ fails' = [fails EXCEPT ![c] = IF full THEN <<>> ELSE kept]
        /\ until' = IF full THEN [until EXCEPT ![c] = LockoutSecs] ELSE until

LoginWrong(c) ==
    /\ Handling(c, "login")
    /\ ~LockedOut(c)
    /\ IF c \in Loopback THEN UNCHANGED throttleVars
       ELSE /\ RecordFailure(c)
            /\ guesses' = [guesses EXCEPT ![c] = Append(@, 0)]
    /\ UNCHANGED <<rateVars, tokenVars, sessions, access, socket>>

\* record_success forgets the client; then a token is issued.
LoginRight(c) ==
    /\ Handling(c, "login")
    /\ ~LockedOut(c)
    /\ fails' = [fails EXCEPT ![c] = <<>>]
    /\ until' = [until EXCEPT ![c] = 0]
    /\ guesses' = [guesses EXCEPT ![c] = <<>>]
    /\ Issue(c)
    /\ UNCHANGED <<rateVars, sessions, socket>>

\* security_logout; the browser (or another tab of it) may keep the token.
Logout(c) ==
    /\ Handling(c, "logout")
    /\ tokens' = KeepAt(tokens, {i \in DOMAIN tokens : tokens[i].id # access[c]})
    /\ promised' = [t \in Token |-> IF t = access[c] THEN None ELSE promised[t]]
    /\ UNCHANGED <<throttleVars, rateVars, entered, sessions, access, socket>>

Handshake(c) ==
    /\ Handling(c, "handshake")
    /\ sessions' = [sessions EXCEPT ![c] = SessionTtl]
    /\ UNCHANGED <<throttleVars, rateVars, tokenVars, access, socket>>

\* A sensitive route opens its envelope with the session or answers 401;
\* neither touches these tables.
Serve(c) ==
    /\ Handling(c, "check")
    /\ UNCHANGED <<throttleVars, rateVars, tokenVars, sessions, access, socket>>

\* websocket_endpoint: verified once, when the socket opens.
OpenSocket(c) ==
    /\ ~socket[c]
    /\ Verified(access[c]) /\ VerifiedSession(c)
    /\ tokens' = Unexpired
    /\ socket' = [socket EXCEPT ![c] = TRUE]
    /\ UNCHANGED <<throttleVars, rateVars, promised, entered, sessions, access, request>>

CloseSocket(c) ==
    /\ socket[c]
    /\ socket' = [socket EXCEPT ![c] = FALSE]
    /\ UNCHANGED <<throttleVars, rateVars, tokenVars, sessions, access, request>>

-----------------------------------------------------------------------------
Tick ==
    /\ fails' = [c \in Client |-> Aged(fails[c], LoginWindow)]
    /\ until' = [c \in Client |-> Down(until[c])]
    /\ guesses' = [c \in Client |-> Passed(guesses[c], GuessSpan)]
    /\ hits' = [c \in Client |-> Aged(hits[c], RateWindow)]
    /\ accepted' = [c \in Client |-> Passed(accepted[c], RateWindow)]
    /\ tokens' = [i \in DOMAIN tokens |-> [tokens[i] EXCEPT !.left = Down(@)]]
    /\ sessions' = [c \in Client |-> Down(sessions[c])]
    /\ promised' = [t \in Token |->
            IF promised[t] = None \/ promised[t].left = 1 THEN None
            ELSE [promised[t] EXCEPT !.left = @ - 1]]
    /\ UNCHANGED <<entered, access, request, socket>>

DoorNext ==
    \/ Tick
    \/ \E c \in Client :
        \/ TooMany(c)
        \/ \E path \in Route : Arrive(c, path)
        \/ LoginLocked(c) \/ LoginWrong(c)
        \/ LoginRight(c) \/ Logout(c) \/ Handshake(c) \/ Serve(c)
        \/ OpenSocket(c) \/ CloseSocket(c)

\* Time passes; nobody else has to do anything.
DoorSpec == DoorInit /\ [][DoorNext]_doorVars /\ WF_doorVars(Tick)

-----------------------------------------------------------------------------
(* Properties                                                              *)

Ages(window) == Seq(0..window)
TokenEntry == [id : Token, left : 0..TokenTtl]

\* Every variable has its type, the lists of the throttle and of the limiter
\* and the table of access tokens stay below their caps, and no access token
\* is stored twice.
DoorTypeOK ==
    /\ fails \in [Client -> Ages(LoginWindow)] /\ guesses \in [Client -> Ages(GuessSpan)]
    /\ hits \in [Client -> Ages(RateWindow)] /\ accepted \in [Client -> Ages(RateWindow)]
    /\ \A c \in Client : Len(fails[c]) < FailureCap /\ Len(hits[c]) <= RateCap
    /\ until \in [Client -> 0..LockoutSecs]
    /\ tokens \in Seq(TokenEntry) /\ Len(tokens) <= MaxTokens
    /\ \A i, j \in DOMAIN tokens : tokens[i].id = tokens[j].id => i = j
    /\ sessions \in [Client -> 0..SessionTtl]
    /\ access \in [Client -> Token \cup {None}]
    /\ request \in [Client -> Route \cup {None}]
    /\ socket \in [Client -> BOOLEAN]
    /\ promised \in [Token -> [left : 1..TokenTtl, newer : 0..MaxTokens] \cup {None}]
    /\ entered \subseteq Client

\* A login survives until it expires or is logged out, unless MaxTokens later
\* logins have taken its place (AccessManager.issue evicts the oldest token
\* only when the table is full of unexpired ones).
EvictionIsEarned ==
    \A t \in Token : promised[t] # None =>
        Verified(t) \/ promised[t].newer >= MaxTokens

\* The password gate runs in front of the handshake and of /ws: whoever holds
\* an E2E session or an open socket has given the password before, however
\* the requests of the clients interleave between gate and handler.
BehindLogin ==
    \A c \in Client : sessions[c] > 0 \/ socket[c] => c \in entered

\* Brute force is bounded: no client but a local one has more than
\* FailureCap passwords refused, without a success between them, in any
\* interval shorter than both the window and a lockout.
GuessesAreSpaced == \A c \in Client : Len(guesses[c]) <= FailureCap

\* The limiter bounds every sliding window, not only the minutes of a clock:
\* no more than RateCap requests are let in less than RateWindow apart.
RequestsAreSpaced == \A c \in Client : Len(accepted[c]) <= RateCap

\* A client that has used up its minute is let in again, even if it never
\* stops asking: refused requests do not count.
LimiterLetsInAgain == \A c \in Client : []<>LetIn(c)

=============================================================================
