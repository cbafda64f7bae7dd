--------------------------- MODULE TokenLifecycle ---------------------------
(***************************************************************************)
(* Access JWTs and refresh tokens of one account: auth.controller.ts,      *)
(* refresh-token.service.ts, token-blacklist.service.ts, jwt-auth.guard.ts *)
(* and users.service.ts (revokeAllTokens).                                 *)
(*                                                                         *)
(* Each request issues at most one access JWT and one refresh token, which *)
(* are named after it.  An action is the code between two awaits; the      *)
(* database executes one statement, or one $transaction, at a time.        *)
(*                                                                         *)
(* Kinds of requests:                                                      *)
(*   "login"    login, login-otp, oidc/callback: proof of identity         *)
(*   "refresh"  refresh, with a refresh token                              *)
(*   "stepup"   sudo, sudo's oidc/callback, otp/enable, otp/disable        *)
(*   "logout"   logout                                                     *)
(*   "call"     any other route behind JwtAuthGuard                        *)
(*   "connect"  a socket of the SSH or RDP gateway (handleConnection)      *)
(***************************************************************************)
EXTENDS Integers, FiniteSets

CONSTANTS
    Requests,     \* HTTP requests and sockets
    MaxVersion    \* bound on tokenVersion

ASSUME MaxVersionAssumption == MaxVersion \in Nat

VARIABLES
    version,      \* User.tokenVersion
    refresh,      \* RefreshToken rows: "live" iff revokedAt is null
    blacklist,    \* BlacklistedToken rows, by the JWT
    oldRefresh,   \* refresh tokens past their expiry
    oldJwt,       \* access JWTs past their expiry
    kind, pc,     \* each request
    used,         \* the request whose token it presents
    seen,         \* tokenVersion it read with the user
    jwt,          \* version inside the JWT it signed
    \* History, for the properties only.
    root,         \* login or step-up its refresh token descends from
    birth,        \* tokenVersion when that identity was last proved
    raced,        \* was under way during a revocation, or descends from one that was
    loggedOut,    \* JWTs that have been blacklisted
    late          \* requests that came with a JWT of loggedOut

dbVars == <<version, refresh, blacklist>>
clockVars == <<oldRefresh, oldJwt>>
lineage == <<root, birth, loggedOut, late>>
tokenVars == <<dbVars, clockVars, kind, pc, used, seen, jwt, lineage, raced>>

NoVersion == -1
Versions == 0..MaxVersion
Kinds == {"login", "refresh", "stepup", "logout", "call", "connect"}
Ended == {"done", "refused", "failed"}
Steps == {"idle", "rotate", "reuse", "create", "sign", "blacklist", "user",
          "admitted", "issue", "respond", "revoke"} \cup Ended

TokenTypeOK ==
    /\ version \in Versions
    /\ refresh \in [Requests -> {"none", "live", "revoked"}]
    /\ blacklist \subseteq Requests
    /\ oldRefresh \subseteq Requests /\ oldJwt \subseteq Requests
    /\ kind \in [Requests -> Kinds]
    /\ pc \in [Requests -> Steps]
    /\ used \in [Requests -> Requests]
    /\ seen \in [Requests -> Versions]
    /\ jwt \in [Requests -> Versions \cup {NoVersion}]
    /\ root \in [Requests -> Requests]
    /\ birth \in [Requests -> Versions]
    /\ raced \subseteq Requests /\ loggedOut \subseteq Requests /\ late \subseteq Requests

TokenInit ==
    /\ version = 0
    /\ refresh = [r \in Requests |-> "none"]
    /\ blacklist = {} /\ oldRefresh = {} /\ oldJwt = {}
    /\ kind = [r \in Requests |-> "login"]
    /\ pc = [r \in Requests |-> "idle"]
    /\ used = [r \in Requests |-> r]
    /\ seen = [r \in Requests |-> 0]
    /\ jwt = [r \in Requests |-> NoVersion]
    /\ root = [r \in Requests |-> r]
    /\ birth = [r \in Requests |-> 0]
    /\ raced = {} /\ loggedOut = {} /\ late = {}

-----------------------------------------------------------------------------
(* Steps shared by the handlers *)

Goto(r, step) == pc' = [pc EXCEPT ![r] = step]

\* The browser has the tokens of a request once it has been answered.
Delivered(r) == pc[r] = "done" /\ jwt[r] # NoVersion

UnderWay(r) == pc[r] \notin {"idle"} \cup Ended

RevokeLive == [t \in Requests |-> IF refresh[t] = "live" THEN "revoked" ELSE refresh[t]]

\* The $transaction of revokeAllTokens, and of rotate on reuse.
RevokeEverything ==
    /\ version < MaxVersion
    /\ version' = version + 1
    /\ refresh' = RevokeLive
    /\ raced' = raced \cup {r \in Requests : UnderWay(r)}

\* A request that comes with the token of request g.
Inherit(r, g) ==
    /\ used' = [used EXCEPT ![r] = g]
    /\ birth' = [birth EXCEPT ![r] = birth[g]]
    /\ raced' = IF g \in raced THEN raced \cup {r} ELSE raced

-----------------------------------------------------------------------------
(* Login *)

\* The credentials are checked against the user as it is read here.
Login(r) ==
    /\ pc[r] = "idle"
    /\ Goto(r, "issue")
    /\ kind' = [kind EXCEPT ![r] = "login"]
    /\ seen' = [seen EXCEPT ![r] = version]
    /\ birth' = [birth EXCEPT ![r] = version]
    /\ UNCHANGED <<dbVars, clockVars, used, jwt, root, loggedOut, late, raced>>

\* authService.login signs what was read; refreshTokenService.create inserts.
Issue(r) ==
    /\ pc[r] = "issue"
    /\ Goto(r, "respond")
    /\ jwt' = [jwt EXCEPT ![r] = seen[r]]
    /\ refresh' = [refresh EXCEPT ![r] = "live"]
    /\ UNCHANGED <<version, blacklist, clockVars, kind, used, seen, lineage, raced>>

\* The audit event is logged and the cookies are set.
Respond(r) ==
    /\ pc[r] = "respond"
    /\ Goto(r, "done")
    /\ UNCHANGED <<dbVars, clockVars, kind, used, seen, jwt, lineage, raced>>

-----------------------------------------------------------------------------
(* Refresh *)

\* rotate verifies the token's signature and expiry.
PresentRefresh(r, t) ==
    /\ pc[r] = "idle"
    /\ Delivered(t) /\ refresh[t] # "none" /\ t \notin oldRefresh
    /\ Goto(r, "rotate")
    /\ kind' = [kind EXCEPT ![r] = "refresh"]
    /\ Inherit(r, t)
    /\ root' = [root EXCEPT ![r] = root[t]]
    /\ UNCHANGED <<dbVars, clockVars, seen, jwt, loggedOut, late>>

\* Mutant: revokedAt is not part of the condition.
RotateUnconditionally(r) ==
    /\ pc[r] = "rotate"
    /\ refresh' = [refresh EXCEPT ![used[r]] = "revoked"]
    /\ Goto(r, "create")
    /\ UNCHANGED <<version, blacklist, clockVars, kind, used, seen, jwt, lineage, raced>>

\* updateMany where the token is neither revoked nor expired.
Rotate(r) ==
    /\ pc[r] = "rotate"
    /\ IF refresh[used[r]] = "live" /\ used[r] \notin oldRefresh
         THEN /\ refresh' = [refresh EXCEPT ![used[r]] = "revoked"]
              /\ Goto(r, "create")
         ELSE /\ Goto(r, "reuse")
              /\ UNCHANGED refresh
    /\ UNCHANGED <<version, blacklist, clockVars, kind, used, seen, jwt, lineage, raced>>

\* Nothing was updated but the row is there: the family of tokens is revoked.
KillFamily(r) ==
    /\ pc[r] = "reuse"
    /\ Goto(r, "refused")
    /\ RevokeEverything
    /\ UNCHANGED <<blacklist, clockVars, kind, used, seen, jwt, lineage>>

\* The successor is inserted; rows are never deleted, so the record is found.
CreateSuccessor(r) ==
    /\ pc[r] = "create"
    /\ Goto(r, "sign")
    /\ refresh' = [refresh EXCEPT ![r] = "live"]
    /\ UNCHANGED <<version, blacklist, clockVars, kind, used, seen, jwt, lineage, raced>>

\* The user is read, the JWT signed and the answer sent.
SignAccess(r) ==
    /\ pc[r] = "sign"
    /\ Goto(r, "done")
    /\ seen' = [seen EXCEPT ![r] = version]
    /\ jwt' = [jwt EXCEPT ![r] = version]
    /\ UNCHANGED <<dbVars, clockVars, kind, used, lineage, raced>>

-----------------------------------------------------------------------------
(* JwtAuthGuard and handleConnection *)

\* The guard verifies signature and expiry first; a socket does so later.
PresentJwt(r, g, k) ==
    /\ pc[r] = "idle"
    /\ Delivered(g)
    /\ k # "connect" => g \notin oldJwt
    /\ Goto(r, "blacklist")
    /\ kind' = [kind EXCEPT ![r] = k]
    /\ Inherit(r, g)
    /\ late' = IF g \in loggedOut THEN late \cup {r} ELSE late
    /\ UNCHANGED <<dbVars, clockVars, seen, jwt, root, loggedOut>>

\* isBlacklisted, which does not count an entry past its expiry; a socket's
\* JWT is verified after it.
Blacklisted(g) == g \in blacklist /\ g \notin oldJwt

\* Mutant: a socket's JWT is not verified after it was looked up.
LookUpOnly(r) ==
    /\ pc[r] = "blacklist"
    /\ Goto(r, IF Blacklisted(used[r]) THEN "refused" ELSE "user")
    /\ UNCHANGED <<dbVars, clockVars, kind, used, seen, jwt, lineage, raced>>

LookUp(r) ==
    /\ pc[r] = "blacklist"
    /\ Goto(r, IF \/ Blacklisted(used[r])
                  \/ kind[r] = "connect" /\ used[r] \in oldJwt
                 THEN "refused" ELSE "user")
    /\ UNCHANGED <<dbVars, clockVars, kind, used, seen, jwt, lineage, raced>>

\* The user is read and its tokenVersion compared.
CheckVersion(r) ==
    /\ pc[r] = "user"
    /\ Goto(r, IF jwt[used[r]] # version THEN "refused"
               ELSE IF kind[r] \in {"call", "connect"} THEN "done" ELSE "admitted")
    /\ UNCHANGED <<dbVars, clockVars, kind, used, seen, jwt, lineage, raced>>

\* The handler of a step-up reads the user again, and issues as a login does.
StepUp(r) ==
    /\ pc[r] = "admitted" /\ kind[r] = "stepup"
    /\ Goto(r, "issue")
    /\ seen' = [seen EXCEPT ![r] = version]
    /\ UNCHANGED <<dbVars, clockVars, kind, used, jwt, lineage, raced>>

\* logout: tokenBlacklistService.add, then revokeAllForUser.
Blacklist(r) ==
    /\ pc[r] = "admitted" /\ kind[r] = "logout"
    /\ Goto(r, "revoke")
    /\ blacklist' = blacklist \cup {used[r]}
    /\ loggedOut' = loggedOut \cup {used[r]}
    /\ UNCHANGED <<version, refresh, clockVars, kind, used, seen, jwt, root, birth, late,
                   raced>>

RevokeRefresh(r) ==
    /\ pc[r] = "revoke"
    /\ Goto(r, "done")
    /\ refresh' = RevokeLive
    /\ UNCHANGED <<version, blacklist, clockVars, kind, used, seen, jwt, lineage, raced>>

-----------------------------------------------------------------------------
(* Everything else *)

\* An await rejects, or a request is refused for a reason of its own.
Fail(r) ==
    /\ UnderWay(r)
    /\ Goto(r, "failed")
    /\ UNCHANGED <<dbVars, clockVars, kind, used, seen, jwt, lineage, raced>>

\* Mutant: only the version moves.
RevokeJwtsOnly ==
    /\ version < MaxVersion
    /\ version' = version + 1
    /\ raced' = raced \cup {r \in Requests : UnderWay(r)}
    /\ UNCHANGED <<refresh, blacklist, clockVars, kind, pc, used, seen, jwt, lineage>>

\* revokeAllTokens, asked for by an administrator or by the user.
RevokeAllTokens ==
    /\ RevokeEverything
    /\ UNCHANGED <<blacklist, clockVars, kind, pc, used, seen, jwt, lineage>>

JwtExpires(g) ==
    /\ Delivered(g) /\ g \notin oldJwt
    /\ oldJwt' = oldJwt \cup {g}
    /\ UNCHANGED <<dbVars, oldRefresh, kind, pc, used, seen, jwt, lineage, raced>>

\* A refresh token outlives the access JWT it came with.
RefreshExpires(t) ==
    /\ t \in oldJwt /\ refresh[t] # "none" /\ t \notin oldRefresh
    /\ oldRefresh' = oldRefresh \cup {t}
    /\ UNCHANGED <<dbVars, oldJwt, kind, pc, used, seen, jwt, lineage, raced>>

\* cleanupExpiredTokens
CleanBlacklist ==
    /\ blacklist \cap oldJwt # {}
    /\ blacklist' = blacklist \ oldJwt
    /\ UNCHANGED <<version, refresh, clockVars, kind, pc, used, seen, jwt, lineage, raced>>

-----------------------------------------------------------------------------
Step(r) ==
    \/ Login(r) \/ Issue(r) \/ Respond(r)
    \/ Rotate(r) \/ KillFamily(r) \/ CreateSuccessor(r) \/ SignAccess(r)
    \/ LookUp(r) \/ CheckVersion(r) \/ StepUp(r) \/ Blacklist(r) \/ RevokeRefresh(r)
    \/ Fail(r) \/ JwtExpires(r) \/ RefreshExpires(r)

Present(r, g) ==
    \/ PresentRefresh(r, g)
    \/ \E k \in {"stepup", "logout", "call", "connect"} : PresentJwt(r, g, k)

TokenNext ==
    \/ \E r \in Requests : Step(r)
    \/ \E r, g \in Requests : Present(r, g)
    \/ RevokeAllTokens
    \/ CleanBlacklist

TokenSpec == TokenInit /\ [][TokenNext]_tokenVars

-----------------------------------------------------------------------------
(* Properties *)

\* A line of refresh tokens has one token that can still be exchanged, or one
\* exchange under way: of any number of simultaneous or repeated uses of a
\* refresh token at most one yields a successor (the compare-and-revoke of
\* rotate).
Holds(r) == refresh[r] = "live" \/ pc[r] = "create"
OneHolder == \A r, s \in Requests : Holds(r) /\ Holds(s) /\ root[r] = root[s] => r = s

\* A token that works: a refresh token that is live, a JWT of the version.
Works(r) == refresh[r] = "live" \/ jwt[r] = version

\* A revocation (revokeAllTokens, or a reuse seen by rotate) ends every session
\* opened before it, except for what was under way at that very moment.
RevocationHolds == \A r \in Requests : Works(r) /\ r \notin raced => birth[r] = version

\* Past the guard, or the handshake of a socket.
Admitted(r) == pc[r] \in {"admitted", "issue", "respond", "revoke", "done"}

\* A JWT that has been logged out opens no terminal, and passes the guard in
\* one case only: it expired after the guard had verified it, when its entry in
\* the blacklist no longer counts (logout, isBlacklisted, JwtAuthGuard,
\* handleConnection).
LogoutHolds ==
    \A r \in late : Admitted(r) => kind[r] # "connect" /\ used[r] \in oldJwt
=============================================================================
