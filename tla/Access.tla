-------------------------------- MODULE Access --------------------------------
(***************************************************************************)
(* The credentials people, scripts and screens hold: sessions and the      *)
(* password behind them, API tokens and published wallboard links          *)
(* (internal/auth/accounts.go, apitoken.go, auth.go; accountapi.go,        *)
(* sessionapi.go, wallboardapi.go of internal/server; the store's          *)
(* account and wallboard methods; web/src/app/wallboard/wallboard.ts).     *)
(*                                                                         *)
(* One account, two browsers of its operator, a script it issues tokens to *)
(* and a screen. Each has one request at a time, which goes from store     *)
(* call to store call while the others' go on; a tick is longer than a     *)
(* request. What is done in memory between two store calls is one step.    *)
(***************************************************************************)
EXTENDS Limiter, Sequences

CONSTANTS
    Browsers,           \* and the sources their sign-ins come from
    Ttl, MaxAge, RenewAfter,    \* DefaultSessionTTL, DefaultSessionMaxAge and SessionRenewAfter, in ticks
    ShareLife,          \* how long a link is published for
    Situations,         \* the [clients, kinds, words, cost, requests, faults, failures, until] explored
    MaxSessions, MaxTokens

Script == "script"
Screen == "screen"
Clients == Browsers \cup {Script, Screen}
Sessions == 0 .. MaxSessions - 1
Tokens == 0 .. MaxTokens - 1

ASSUME AccessAssumption ==
    /\ Browsers \cap {Script, Screen} = {}
    /\ \A c \in {Ttl, MaxAge, RenewAfter, ShareLife, MaxSessions, MaxTokens} : c \in Nat \ {0}
    /\ RenewAfter <= Ttl /\ Ttl <= MaxAge
    /\ \A s \in Situations : s.words \subseteq {"old", "new"} /\ s.cost \in {"past", "present"}

VARIABLES
    situation,  \* the one explored
    now,
    account,    \* its row: whether it is there, the password, and what deriving its hash cost
    sessions, tokens, share,    \* rows
    buckets,    \* signInLimiter's, by source, and passwordLimiter's, by account
    calls,      \* the request in flight of each client
    held,       \* the session or token each client presents
    screen,     \* what the screen is doing, and whether it has proved the passphrase
    gone,       \* rows that were deleted
    spent,      \* when each bucket let an attempt through
    asked, faults

store == <<account, sessions, tokens, share>>
books == <<gone, spent, asked>>
vars == <<situation, now, store, buckets, calls, held, screen, gone, spent, asked, faults>>

None == -1
Words == {"old", "new"}
Sources == Browsers \cup {"account"}

NoSession == [row |-> "none", createdAt |-> 0, lastUsed |-> None, expiresAt |-> 0, used |-> 0]
NoToken == [row |-> "none", by |-> Screen]
NoCall == [at |-> "none", kind |-> "page", cred |-> None, word |-> "old", seen |-> NoSession, read |-> "none",
           cut |-> FALSE, answer |-> "none", result |-> None]

Live(rows) == {r \in DOMAIN rows : rows[r].row = "live"}
Fresh(rows) == CHOOSE r \in DOMAIN rows : rows[r].row = "none"
Some(rows) == \E r \in DOMAIN rows : rows[r].row = "none"

\* Session.Valid and withinMaxAge.
Lapsed(s) == now >= s.expiresAt \/ now >= s.createdAt + MaxAge

ShareLive == share.row = "live" /\ now < share.expiresAt

Rows == {"none", "live", "gone"}
Session == [row : Rows, createdAt : Nat, lastUsed : Nat \cup {None}, expiresAt : Nat, used : Nat]
Token == [row : Rows, by : Clients]

Kinds == {"signin", "signout", "page", "change", "everywhere", "mint", "revoke", "publish", "withdraw", "poll", "unlock"}
Stages == {"none", "sent", "read", "in", "account", "verified", "answered"}
Answers == {"none", "ok", "unauthenticated", "wrong_password", "session_required", "rate_limited", "not_found",
            "passphrase_required", "internal"}
Credential == Sessions \cup Tokens \cup {None}
Call == [at : Stages, kind : Kinds, cred : Credential, word : Words, seen : Session, read : Words \cup {"none"},
         cut : BOOLEAN, answer : Answers, result : Credential]

TypeOK ==
    /\ situation \in Situations /\ now \in Nat /\ asked \in Nat /\ faults \in Nat
    /\ account \in [row : {"live", "gone"}, word : Words, cost : {"past", "present"}]
    /\ sessions \in [Sessions -> Session] /\ tokens \in [Tokens -> Token]
    /\ share \in [row : Rows, locked : BOOLEAN, expiresAt : Nat]
    /\ buckets \in [Sources -> Bucket \cup {NoBucket}] /\ spent \in [Sources -> Seq(Nat)]
    /\ calls \in [Clients -> Call] /\ held \in [Clients -> Credential]
    /\ screen \in [at : {"off", "showing", "stale", "locked", "dark"}, proof : BOOLEAN]
    /\ gone \subseteq {"session", "token", "share"} \X (Sessions \cup Tokens)

-----------------------------------------------------------------------------
(* A request arrives. *)

Set(c, call) == calls' = [calls EXCEPT ![c] = call]
Answer(c, answer, result) == Set(c, [calls[c] EXCEPT !.at = "answered", !.answer = answer, !.result = result])
Reply(c, answer) == Answer(c, answer, None)
Moves(c, at) == Set(c, [calls[c] EXCEPT !.at = at])

\* The rows a client's requests rest on: its session, every token that was issued to it, or the link.
Issued == {t \in Tokens : tokens[t].by \in Browsers}
CutOff(c) ==
    CASE c \in Browsers -> held[c] # None /\ <<"session", held[c]>> \in gone
      [] c = Script -> Issued # {} /\ \A t \in Issued : <<"token", t>> \in gone
      [] c = Screen -> <<"share", 0>> \in gone

Request(c, kind, word) ==
    [NoCall EXCEPT !.at = "sent", !.kind = kind, !.cred = held[c], !.word = word, !.cut = CutOff(c)]

Asks(c) == calls[c].at = "none" /\ c \in situation.clients /\ asked < situation.requests /\ asked' = asked + 1

\* One attempt at a limiter's bucket.
Charge(key) ==
    /\ buckets' = IF key = "account" THEN [buckets EXCEPT ![key] = Charged(@, now)]
                  ELSE Allow(buckets, key, now)
    /\ spent' = IF MayTry(buckets[key], now) THEN [spent EXCEPT ![key] = Append(@, now)] ELSE spent

\* handleSignIn up to the store: the limiter is keyed by source.
AskSignIn(c) ==
    /\ Asks(c) /\ "signin" \in situation.kinds /\ c \in Browsers
    /\ Charge(c)
    /\ \E w \in situation.words :
          Set(c, IF MayTry(buckets[c], now) THEN Request(c, "signin", w)
                 ELSE [Request(c, "signin", w) EXCEPT !.at = "answered", !.answer = "rate_limited"])
    /\ UNCHANGED <<situation, now, store, held, screen, gone, faults>>

Ask(c, kind) ==
    /\ Asks(c) /\ kind \in situation.kinds \ {"signin"} /\ c # Screen /\ held[c] # None
    /\ kind = "signout" => c \in Browsers          \* SignOut ends what the cookie names
    /\ \E w \in IF kind = "change" THEN situation.words ELSE {"old"} : Set(c, Request(c, kind, w))
    /\ UNCHANGED <<situation, now, store, buckets, held, screen, gone, spent, faults>>

\* The screen's next read, booked when the last one has ended.
Poll ==
    /\ calls[Screen].at = "none" /\ screen.at \in {"showing", "stale"}
    /\ Set(Screen, Request(Screen, "poll", "old"))
    /\ UNCHANGED <<situation, now, store, buckets, held, screen, books, faults>>

\* Somebody types a passphrase on it.
Unlock ==
    /\ calls[Screen].at = "none" /\ screen.at = "locked"
    /\ \E w \in situation.words : Set(Screen, Request(Screen, "unlock", w))
    /\ UNCHANGED <<situation, now, store, buckets, held, screen, books, faults>>

-----------------------------------------------------------------------------
(* Its handler, from store call to store call. *)

Outside == <<situation, now, held, screen, asked>>
Only(c, kinds, at) == calls[c].at = at /\ calls[c].kind \in kinds
Fail(kind) == kind \in situation.faults /\ faults < situation.failures /\ faults' = faults + 1

\* ErrUnavailable, and what the handlers make of a failed store call.
Unavailable(c) == Reply(c, "internal")

AccountKinds == {"change", "everywhere", "mint", "revoke"}

\* Where a request is about to call the store. The touches and the rehash, which are best effort, are below.
CallsStore(c) ==
    \/ calls[c].at \in {"sent", "verified"}
    \/ calls[c].at = "in" /\ ~(c = Script /\ calls[c].kind \in AccountKinds)
    \/ calls[c].at = "account" /\ calls[c].kind # "change"

StoreFails(c) ==
    /\ CallsStore(c)
    /\ Fail("store")
    /\ Unavailable(c)
    /\ UNCHANGED <<Outside, store, buckets, gone, spent>>

\* SignIn reads the account and verifies the password against what it read.
ReadAccount(c) ==
    /\ Only(c, {"signin"}, "sent")
    /\ IF account.row = "live" /\ account.word = calls[c].word
       THEN Set(c, [calls[c] EXCEPT !.at = IF account.cost = "past" THEN "read" ELSE "verified"])
       ELSE Reply(c, "unauthenticated")
    /\ UNCHANGED <<Outside, store, buckets, gone, spent, faults>>

\* NeedsRehash: the password that was presented is derived anew and written, or that fails and the sign-in goes on.
Rehash(c) ==
    /\ Only(c, {"signin"}, "read")
    /\ \/ /\ account' = IF account.row = "live" THEN [account EXCEPT !.word = calls[c].word, !.cost = "present"]
                        ELSE account
          /\ UNCHANGED faults
       \/ Fail("store") /\ UNCHANGED account
    /\ Moves(c, "verified")
    /\ UNCHANGED <<Outside, sessions, tokens, share, buckets, gone, spent>>

\* Mutation: the row is written whether or not the account is there.
HolderThere == TRUE

\* withAccount: a session or a token is written for an account the handle can see.
AccountThere == account.row = "live"

Swept == {s \in Live(sessions) : now >= sessions[s].expiresAt}

\* CreateSession, which clears the account's expired ones in the same transaction.
CreateSession(c) ==
    LET new == [row |-> "live", createdAt |-> now, lastUsed |-> None, expiresAt |-> now + Ttl, used |-> now]
    IN /\ Only(c, {"signin"}, "verified")
       /\ IF AccountThere
          THEN /\ Some(sessions)
               /\ sessions' = [s \in Sessions |-> IF s = Fresh(sessions) THEN new
                                                  ELSE IF s \in Swept THEN [sessions[s] EXCEPT !.row = "gone"]
                                                  ELSE sessions[s]]
               /\ gone' = gone \cup {<<"session", s>> : s \in Swept}
               /\ Answer(c, "ok", Fresh(sessions))
          ELSE Reply(c, "internal") /\ UNCHANGED <<sessions, gone>>
       /\ UNCHANGED <<Outside, account, tokens, share, buckets, spent, faults>>

NeedAuth == Kinds \ {"signin", "signout", "poll", "unlock"}

\* renew: measured from the last use recorded, or from the sign-in.
Due(s) == now - (IF s.lastUsed = None THEN s.createdAt ELSE s.lastUsed) >= RenewAfter

\* Chain.Authenticate: the session or the token, and the account it belongs to. Only the session's row is extended
\* here; a token's last use decides nothing and is left out.
Authenticate(c) ==
    LET s == sessions[calls[c].cred]
        admitted == IF c = Script THEN tokens[calls[c].cred].row = "live" ELSE s.row = "live" /\ ~Lapsed(s)
    IN /\ Only(c, NeedAuth, "sent")
       /\ IF ~admitted THEN Reply(c, "unauthenticated") /\ UNCHANGED sessions
          ELSE IF c \in Browsers /\ Due(s)
          THEN Set(c, [calls[c] EXCEPT !.at = "read", !.seen = s]) /\ UNCHANGED sessions
          ELSE /\ Moves(c, "in")
               /\ sessions' = IF c = Script THEN sessions ELSE [sessions EXCEPT ![calls[c].cred].used = now]
       /\ UNCHANGED <<Outside, account, tokens, share, buckets, gone, spent, faults>>

\* Mutation: the idle window alone.
ExtendedByIdle(s) == now + Ttl

\* renew: never past the absolute window.
Extended(s) == Least(now + Ttl, s.createdAt + MaxAge)

\* Mutation: a row that is gone is written again.
TouchWritesBack(s, seen) == [s EXCEPT !.row = "live", !.expiresAt = Extended(seen), !.lastUsed = now, !.used = now]

\* TouchSession: an UPDATE of the row, which finds nothing where it is gone.
TouchSession(s, seen) ==
    IF s.row = "live" THEN [s EXCEPT !.expiresAt = Extended(seen), !.lastUsed = now, !.used = now] ELSE s

\* A session that cannot be extended, or is no longer there, has authenticated this request all the same.
Touch(c) ==
    /\ Only(c, NeedAuth, "read")
    /\ Moves(c, "in")
    /\ \/ sessions' = [sessions EXCEPT ![calls[c].cred] = TouchSession(@, calls[c].seen)] /\ UNCHANGED faults
       \/ Fail("store") /\ UNCHANGED sessions
    /\ UNCHANGED <<Outside, account, tokens, share, buckets, gone, spent>>

\* requireAccount: what the caller holds matters as much as who they are.
HoldsSession(c) == c \in Browsers

\* requireAccount, which reads the account once more.
RequireAccount(c) ==
    /\ Only(c, AccountKinds, "in")
    /\ \/ ~HoldsSession(c) /\ Reply(c, "session_required")
       \/ HoldsSession(c) /\ account.row # "live" /\ Reply(c, "unauthenticated")
       \/ HoldsSession(c) /\ account.row = "live" /\ Set(c, [calls[c] EXCEPT !.at = "account", !.read = account.word])
    /\ UNCHANGED <<Outside, store, buckets, gone, spent, faults>>

\* handleChangePassword up to its write: the limiter, keyed by account, and the current password as it was read.
VerifyCurrent(c) ==
    /\ Only(c, {"change"}, "account")
    /\ Charge("account")
    /\ IF ~MayTry(buckets["account"], now) THEN Reply(c, "rate_limited")
       ELSE IF calls[c].read # calls[c].word THEN Reply(c, "wrong_password")
       ELSE Moves(c, "verified")
    /\ UNCHANGED <<Outside, store, gone, faults>>

Other(word) == CHOOSE w \in Words : w # word
Chosen(word) == [account EXCEPT !.word = word, !.cost = "present"]

\* UpdateAccountPassword; no session ends.
ChangePassword(c) ==
    /\ Only(c, {"change"}, "verified")
    /\ \/ account.row = "live" /\ account' = Chosen(Other(calls[c].word)) /\ Reply(c, "ok")
       \/ account.row # "live" /\ UNCHANGED account /\ Reply(c, "internal")
    /\ UNCHANGED <<Outside, sessions, tokens, share, buckets, gone, spent, faults>>

Ended(rows) == [r \in DOMAIN rows |-> IF rows[r].row = "live" THEN [rows[r] EXCEPT !.row = "gone"] ELSE rows[r]]

\* handleRevokeSessions: every session of the account, and the sign-out of the asking one, which then finds none.
RevokeSessions(c) ==
    /\ Only(c, {"everywhere"}, "account")
    /\ sessions' = Ended(sessions)
    /\ gone' = gone \cup {<<"session", s>> : s \in Live(sessions)}
    /\ Reply(c, IF account.row = "live" THEN "ok" ELSE "internal")
    /\ UNCHANGED <<Outside, account, tokens, share, buckets, spent, faults>>

CreateAPIToken(c) ==
    /\ Only(c, {"mint"}, "account")
    /\ IF AccountThere
       THEN Some(tokens) /\ tokens' = [tokens EXCEPT ![Fresh(tokens)] = [row |-> "live", by |-> c]]
            /\ Answer(c, "ok", Fresh(tokens))
       ELSE Reply(c, "internal") /\ UNCHANGED tokens
    /\ UNCHANGED <<Outside, account, sessions, share, buckets, gone, spent, faults>>

DeleteAPIToken(c) ==
    /\ Only(c, {"revoke"}, "account")
    /\ \E t \in Tokens :
          /\ tokens[t].row # "none"
          /\ tokens' = [tokens EXCEPT ![t].row = "gone"]
          /\ gone' = gone \cup {<<"token", t>>}
          /\ Reply(c, IF tokens[t].row = "live" THEN "ok" ELSE "not_found")
    /\ UNCHANGED <<Outside, account, sessions, share, buckets, spent, faults>>

\* SignOut is behind no middleware: it ends a session that no longer authenticates too.
SignOut(c) ==
    /\ Only(c, {"signout"}, "sent")
    /\ sessions' = [sessions EXCEPT ![calls[c].cred].row = "gone"]
    /\ gone' = gone \cup {<<"session", calls[c].cred>>}
    /\ Reply(c, "ok")
    /\ UNCHANGED <<Outside, account, tokens, share, buckets, spent, faults>>

\* Any route of an operator's that is read from the store and returned.
Page(c) ==
    /\ Only(c, {"page"}, "in")
    /\ Reply(c, "ok")
    /\ UNCHANGED <<Outside, store, buckets, gone, spent, faults>>

CreateShare(c) ==
    /\ Only(c, {"publish"}, "in") /\ share.row = "none"
    /\ \E locked \in BOOLEAN : share' = [row |-> "live", locked |-> locked, expiresAt |-> now + ShareLife]
    /\ Reply(c, "ok")
    /\ UNCHANGED <<Outside, account, sessions, tokens, buckets, gone, spent, faults>>

RevokeShare(c) ==
    /\ Only(c, {"withdraw"}, "in")
    /\ IF share.row = "live"
       THEN /\ share' = [share EXCEPT !.row = "gone"] /\ gone' = gone \cup {<<"share", 0>>}
            /\ Reply(c, "ok")
       ELSE Reply(c, "not_found") /\ UNCHANGED <<share, gone>>
    /\ UNCHANGED <<Outside, account, sessions, tokens, buckets, spent, faults>>

\* Mutation: a screen that has proved the passphrase is not looked up again.
KnownToScreen == ShareLive \/ screen.proof

\* WallboardShareBySecret: withdrawn and expired are one answer.
ShareFound == ShareLive

\* boardLimiter, pollLimiter or unlockLimiter, keyed by what other screens share.
ShareLimited ==
    /\ Only(Screen, {"poll", "unlock"}, "sent")
    /\ Fail("limited")
    /\ Reply(Screen, "rate_limited")
    /\ UNCHANGED <<Outside, store, buckets, gone, spent>>

\* requireShare.
RequireShare ==
    /\ Only(Screen, {"poll"}, "sent")
    /\ IF ~ShareFound THEN Reply(Screen, "not_found")
       ELSE IF share.locked /\ ~screen.proof THEN Reply(Screen, "passphrase_required")
       ELSE Moves(Screen, "in")
    /\ UNCHANGED <<Outside, store, buckets, gone, spent, faults>>

PublicWallboard ==
    /\ Only(Screen, {"poll"}, "in")
    /\ Reply(Screen, "ok")
    /\ UNCHANGED <<Outside, store, buckets, gone, spent, faults>>

\* handleUnlock: every failure is one answer. The passphrase of a protected link is the word "old".
UnlockShare ==
    /\ Only(Screen, {"unlock"}, "sent")
    /\ Reply(Screen, IF ShareLive /\ share.locked /\ calls[Screen].word = "old" THEN "ok" ELSE "not_found")
    /\ UNCHANGED <<Outside, store, buckets, gone, spent, faults>>

Serve(c) ==
    \/ StoreFails(c)
    \/ ReadAccount(c) \/ Rehash(c) \/ CreateSession(c)
    \/ Authenticate(c) \/ Touch(c) \/ RequireAccount(c)
    \/ VerifyCurrent(c) \/ ChangePassword(c) \/ RevokeSessions(c) \/ CreateAPIToken(c) \/ DeleteAPIToken(c) \/ SignOut(c)
    \/ Page(c) \/ CreateShare(c) \/ RevokeShare(c)

ServeScreen == ShareLimited \/ RequireShare \/ PublicWallboard \/ UnlockShare \/ StoreFails(Screen)

-----------------------------------------------------------------------------
(* The answer is heard, an administrator acts, time passes. *)

\* The cookie a browser is left with; a token is handed to the script, and a link is opened on the screen.
Hear(c) ==
    LET a == calls[c].answer
        k == calls[c].kind
    IN /\ c \in Browsers \cup {Script} /\ calls[c].at = "answered"
       /\ calls' = [calls EXCEPT ![c] = NoCall]
       /\ held' = CASE k = "signin" /\ a = "ok" -> [held EXCEPT ![c] = calls[c].result]
                    [] k = "mint" /\ a = "ok" -> [held EXCEPT ![Script] = calls[c].result]
                    [] k = "signout" \/ (k = "everywhere" /\ a = "ok") -> [held EXCEPT ![c] = None]
                    [] OTHER -> held
       /\ screen' = IF k = "publish" /\ a = "ok" THEN [at |-> "stale", proof |-> FALSE] ELSE screen
       /\ UNCHANGED <<situation, now, store, buckets, books, faults>>

\* absorb: a refusal ends the polling, anything else does not.
Absorb ==
    LET a == calls[Screen].answer
        next == CASE a = "ok" -> "showing" [] a = "passphrase_required" -> "locked" [] a = "not_found" -> "dark"
                  [] OTHER -> "stale"
    IN /\ Only(Screen, {"poll"}, "answered")
       /\ calls' = [calls EXCEPT ![Screen] = NoCall]
       /\ screen' = [screen EXCEPT !.at = next]
       /\ UNCHANGED <<situation, now, store, buckets, held, books, faults>>

\* unlock: polling starts again once the passphrase is proved.
HearUnlock ==
    /\ Only(Screen, {"unlock"}, "answered")
    /\ calls' = [calls EXCEPT ![Screen] = NoCall]
    /\ screen' = IF calls[Screen].answer = "ok" THEN [at |-> "stale", proof |-> TRUE] ELSE screen
    /\ UNCHANGED <<situation, now, store, buckets, held, books, faults>>

Administers(kind) == kind \in situation.kinds /\ asked < situation.requests /\ asked' = asked + 1

\* accounts passwd.
SetPassword ==
    /\ Administers("passwd") /\ account.row = "live"
    /\ account' = Chosen("new")
    /\ UNCHANGED <<situation, now, sessions, tokens, share, buckets, calls, held, screen, gone, spent, faults>>

\* accounts remove: the sessions and the tokens go with the row.
RemoveAccount ==
    /\ Administers("remove") /\ account.row = "live"
    /\ account' = [account EXCEPT !.row = "gone"]
    /\ sessions' = Ended(sessions) /\ tokens' = Ended(tokens)
    /\ gone' = gone \cup {<<"session", s>> : s \in Live(sessions)} \cup {<<"token", t>> : t \in Live(tokens)}
    /\ UNCHANGED <<situation, now, share, buckets, calls, held, screen, spent, faults>>

Tick ==
    /\ now < situation.until /\ \A c \in Clients : calls[c].at = "none"
    /\ now' = now + 1
    /\ UNCHANGED <<situation, store, buckets, calls, held, screen, books, faults>>

-----------------------------------------------------------------------------
(* Nobody is signed in and nothing has been issued. *)

Init ==
    /\ situation \in Situations
    /\ now = 0 /\ asked = 0 /\ faults = 0 /\ gone = {}
    /\ account = [row |-> "live", word |-> "old", cost |-> situation.cost]
    /\ sessions = [s \in Sessions |-> NoSession] /\ tokens = [t \in Tokens |-> NoToken]
    /\ share = [row |-> "none", locked |-> FALSE, expiresAt |-> 0]
    /\ buckets = [k \in Sources |-> NoBucket] /\ spent = [k \in Sources |-> <<>>]
    /\ calls = [c \in Clients |-> NoCall]
    /\ held = [c \in Clients |-> None]
    /\ screen = [at |-> "off", proof |-> FALSE]

Watch == Poll \/ ServeScreen \/ Absorb

Next ==
    \/ \E c \in Clients \ {Screen} : AskSignIn(c) \/ Serve(c) \/ Hear(c) \/ \E k \in NeedAuth \cup {"signout"} : Ask(c, k)
    \/ Watch \/ Unlock \/ HearUnlock
    \/ SetPassword \/ RemoveAccount \/ Tick

\* A screen goes on polling, and the control plane answers it.
Spec == Init /\ [][Next]_vars /\ WF_vars(Watch)

-----------------------------------------------------------------------------
(* Properties. *)

\* What has been ended stays ended: a cookie whose session was signed out or swept, or a link that was withdrawn, is
\* never let in again, whatever was still being done with its row at the time (SignOut, handleRevokeSessions,
\* TouchSession, handleRevokeShare).
EndedStaysEnded ==
    \A c \in Clients \ {Script} :
        calls[c].cut /\ calls[c].kind \in NeedAuth \cup {"poll", "unlock"} => calls[c].answer # "ok"

\* Once every token its owner issued to it is revoked, a script holds nothing that works: no token has issued another
\* (requireAccount, handleDeleteAPIToken).
RevokedTokenLeavesNothing == calls[Script].cut => calls[Script].answer # "ok"

\* An account that is removed leaves no credential behind, one that was being made at the time neither
\* (DeleteAccount, withAccount).
RemovalLeavesNothing == account.row = "gone" => Live(sessions) = {} /\ Live(tokens) = {}

\* However much it is used, by however many requests at once, a session ends with its absolute window, and with its
\* idle window after its last use (renew).
SessionsEndOnTime ==
    \A s \in Live(sessions) : sessions[s].expiresAt <= Least(sessions[s].used + Ttl, sessions[s].createdAt + MaxAge)

\* Somebody who goes on working is not signed out before the absolute window: a use that was recorded is worth the
\* idle window, less the writes that renew saves (SessionRenewAfter).
UsedSessionsLast ==
    \A s \in Live(sessions) :
        sessions[s].expiresAt >= Least(sessions[s].used + Ttl - (RenewAfter - 1), sessions[s].createdAt + MaxAge)

\* Nobody is told that a credential is no good because the store could not be reached, and no screen goes dark for it
\* (ErrUnavailable, Chain.Authenticate, requireShare, absorb).
RefusedForAReason ==
    /\ \A c \in Clients \ {Screen} :
          calls[c].answer = "unauthenticated" /\ calls[c].kind \in NeedAuth =>
              IF c = Script THEN <<"token", calls[c].cred>> \in gone
              ELSE <<"session", calls[c].cred>> \in gone \/ Lapsed(sessions[calls[c].cred])
    /\ screen.at = "dark" => ~ShareLive

\* So many attempts, in units.
Cost(attempts) == attempts * Refill

\* Over any stretch of time no source's sign-ins and no account's password changes exceed the burst and what came
\* back meanwhile, whether or not the map was swept in between (allow, sweep).
WithinBudget ==
    \A k \in Sources : \A i, j \in DOMAIN spent[k] :
        i <= j => Cost(j - i + 1 - Burst) <= spent[k][j] - spent[k][i]

\* A screen whose link is withdrawn stops showing the fleet (handleRevokeShare, requireShare, absorb).
WithdrawnGoesDark == (share.row = "gone" /\ screen.at \in {"showing", "stale"}) ~> screen.at \in {"dark", "locked"}

-----------------------------------------------------------------------------
(* Why: what the rows, the requests in flight and the buckets keep between them. *)

\* A row that is gone never comes back.
GoneForGood ==
    /\ \A s \in Sessions : sessions[s].row = "gone" <=> <<"session", s>> \in gone
    /\ \A t \in Tokens : tokens[t].row = "gone" <=> <<"token", t>> \in gone
    /\ share.row = "gone" <=> <<"share", 0>> \in gone

\* What names a row: a credential presented, or the one an answer hands out.
NamesSession(s) == s \in Sessions /\ sessions[s].row # "none"
NamesToken(t) == t \in Tokens /\ tokens[t].row # "none"

\* Whatever is presented was issued: a browser holds a session, a script a token that a browser had made.
HeldWasIssued ==
    /\ \A t \in Tokens : tokens[t].row = "none" \/ tokens[t].by \in Browsers
    /\ \A c \in Browsers : held[c] = None \/ NamesSession(held[c])
    /\ held[Script] = None \/ NamesToken(held[Script])
    /\ \A c \in Clients : IF calls[c].at = "none" THEN calls[c] = NoCall ELSE
          /\ c = Screen <=> calls[c].kind \in {"poll", "unlock"}
          /\ c = Script => calls[c].kind \in NeedAuth /\ NamesToken(calls[c].cred)
          /\ c \in Browsers /\ calls[c].kind \in NeedAuth \cup {"signout"} => NamesSession(calls[c].cred)
          /\ calls[c].answer # "none" <=> calls[c].at = "answered"
          /\ calls[c].kind = "signin" /\ calls[c].answer = "ok" => NamesSession(calls[c].result)
          /\ calls[c].kind = "mint" /\ calls[c].answer = "ok" => NamesToken(calls[c].result)
          /\ calls[c].at = "account" \/ (calls[c].kind \in AccountKinds /\ calls[c].at = "verified") => c \in Browsers

\* A request on something that was ended before it was sent goes no further than the look at the row.
CutIsRefused ==
    \A c \in Clients : calls[c].cut /\ calls[c].kind \in NeedAuth \cup {"poll", "unlock"} =>
        /\ calls[c].at \in {"sent", "answered"} /\ calls[c].answer # "ok"
        /\ (CASE c \in Browsers -> <<"session", calls[c].cred>> [] c = Script -> <<"token", calls[c].cred>>
              [] c = Screen -> <<"share", 0>>) \in gone

\* A session that is about to be extended has not lapsed, and its row is as old as it was when it was read.
TouchIsTimely ==
    \A c \in Clients : calls[c].at = "read" /\ calls[c].kind \in NeedAuth =>
        /\ c \in Browsers
        /\ ~Lapsed(sessions[calls[c].cred])
        /\ calls[c].seen.createdAt = sessions[calls[c].cred].createdAt

\* What a session's row says of its use, and how far the use that is not written runs ahead of it.
Recorded(s) == IF s.lastUsed = None THEN s.createdAt ELSE s.lastUsed
UseIsRecorded ==
    \A s \in Live(sessions) : LET row == sessions[s] IN
        /\ row.expiresAt = Least(Recorded(row) + Ttl, row.createdAt + MaxAge)
        /\ Recorded(row) <= row.used /\ row.used <= now /\ row.used - Recorded(row) < RenewAfter

\* A screen that has been told that its link is gone has a link, and it is.
ScreenFollowsShare ==
    /\ screen.at # "off" => share.row # "none"
    /\ calls[Screen].at # "none" => screen.at # "off"
    /\ calls[Screen].kind = "poll" /\ calls[Screen].answer = "not_found" => ~ShareLive
    /\ \A c \in Clients : calls[c].kind = "publish" /\ calls[c].answer = "ok" => share.row # "none"

\* What a bucket would let through now, in units; a forgotten one is a full one.
Left(k) == IF buckets[k] = NoBucket THEN Full ELSE Refilled(buckets[k], now).left

\* A bucket holds no more than the budget has left of any stretch that reaches up to now.
Balance ==
    \A k \in Sources :
        /\ buckets[k] # NoBucket => buckets[k].last <= now
        /\ \A i \in DOMAIN spent[k] : /\ spent[k][i] <= now
                                     /\ Cost(Len(spent[k]) - i + 1) + Left(k) <= Full + (now - spent[k][i])

\* What the requests in flight leave of the credentials: nothing for a token that was revoked, no session longer than
\* its windows allow nor shorter than its use is worth, and no refusal that is not the credential's own; with what
\* that and the budgets rest on, so that every step keeps it.
AccessInv ==
    /\ TypeOK
    /\ RevokedTokenLeavesNothing
    /\ RefusedForAReason
    /\ SessionsEndOnTime
    /\ UsedSessionsLast
    /\ GoneForGood
    /\ HeldWasIssued
    /\ CutIsRefused
    /\ TouchIsTimely
    /\ UseIsRecorded
    /\ ScreenFollowsShare
    /\ Balance
=============================================================================
