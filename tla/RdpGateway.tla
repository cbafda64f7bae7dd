----------------------------- MODULE RdpGateway -----------------------------
(***************************************************************************)
(* The RDP gateway (terminal/rdp.gateway.ts): sockets of a browser on the  *)
(* one side, channels to guacd on the other.  The grain is the one of      *)
(* SshGateway.  What differs from there:                                   *)
(*   - start-session waits for the authentication of its socket            *)
(*     (authReady) instead of being refused, and goes on whatever has      *)
(*     become of the socket;                                               *)
(*   - a recording is written by guacd; its row is awaited after the       *)
(*     timers are armed and before the session enters the map;             *)
(*   - handleDisconnect logs first and finalises the row afterwards;       *)
(*   - handleData checks access, handleResize changes nothing here, and a  *)
(*     denied start leaves no audit event.                                 *)
(***************************************************************************)
EXTENDS Integers, FiniteSets

CONSTANTS
    Clients,      \* sockets, each used for one connection
    Users,        \* accounts
    Owner,        \* the account of each socket's JWT
    Sessions,     \* calls of start-session
    MaxSessions,  \* MAX_SESSIONS_PER_USER (5)
    NoSession,    \* no entry
    Environment   \* what the surroundings may do, see below

\* "early_disconnect": a socket drops while authenticateSocket awaits;
\* "audit_failure": auditService.log rejects;
\* "register_failure": the row of a recording cannot be inserted.
EnvironmentEvents == {"early_disconnect", "audit_failure", "register_failure"}

ASSUME OwnerAssumption == Owner \in [Clients -> Users]
ASSUME NoSessionAssumption == NoSession \notin Sessions
ASSUME MaxSessionsAssumption == MaxSessions \in Nat \ {0}
ASSUME EnvironmentAssumption == Environment \subseteq EnvironmentEvents

VARIABLES
    sock,       \* socket.io connection of each client
    auth,       \* authenticateSocket; client.data.user is set if "in" or "over"
    slots,      \* userSessions
    operators,  \* accounts with OPERATOR access, in the database
    stale,      \* sockets whose tokenVersion is no longer the account's
    start,      \* handleStartSession of each session
    by,         \* the socket that sent it
    active,     \* sessions: the map from sockets to sessions
    stream,     \* the channel of each session; "cut": ended for lack of access
    poll,       \* sessions whose accessPoll interval is armed
    polling,    \* session an access poll looked up before its await
    cache,      \* session.accessCache
    checking,   \* session handleData looked up before its await
    closing,    \* handleDisconnect of each socket
    closes,     \* the session it looked up
    row,        \* the session_recording row of each session
    trail       \* audit events logged for each session

connVars == <<sock, auth, slots>>
authority == <<operators, stale>>
startVars == <<start, by>>
pollVars == <<poll, polling>>
closeVars == <<closing, closes>>
vars == <<connVars, authority, startVars, active, stream, pollVars, cache,
          checking, closeVars, row, trail>>

StartStates == {"unused", "waiting", "access", "connect", "register", "announce",
                "ready", "denied", "failed"}
OptSession == Sessions \cup {NoSession}

TypeOK ==
    /\ sock \in [Clients -> {"new", "connected", "gone"}]
    /\ auth \in [Clients -> {"none", "checking", "in", "over", "failed"}]
    /\ slots \in [Users -> 0..MaxSessions]
    /\ operators \subseteq Users
    /\ stale \subseteq Clients
    /\ start \in [Sessions -> StartStates]
    /\ by \in [Sessions -> Clients]
    /\ active \in [Clients -> OptSession]
    /\ stream \in [Sessions -> {"none", "open", "ended", "cut"}]
    /\ poll \subseteq Sessions
    /\ polling \in [Sessions -> OptSession]
    /\ cache \in [Sessions -> {"none", "allowed", "denied"}]
    /\ checking \in [Clients -> OptSession]
    /\ closing \in [Clients -> {"none", "audit", "finalise", "done", "failed"}]
    /\ closes \in [Clients -> OptSession]
    /\ row \in [Sessions -> {"none", "open", "final"}]
    /\ trail \in [Sessions -> SUBSET {"STARTED", "CLOSED", "KILLED"}]

Init ==
    /\ sock = [c \in Clients |-> "new"]
    /\ auth = [c \in Clients |-> "none"]
    /\ slots = [u \in Users |-> 0]
    /\ operators = Users
    /\ stale = {}
    /\ start = [s \in Sessions |-> "unused"]
    /\ by \in [Sessions -> Clients]
    /\ active = [c \in Clients |-> NoSession]
    /\ stream = [s \in Sessions |-> "none"]
    /\ poll = {}
    /\ polling = [s \in Sessions |-> NoSession]
    /\ cache = [s \in Sessions |-> "none"]
    /\ checking = [c \in Clients |-> NoSession]
    /\ closing = [c \in Clients |-> "none"]
    /\ closes = [c \in Clients |-> NoSession]
    /\ row = [s \in Sessions |-> "none"]
    /\ trail = [s \in Sessions |-> {}]

-----------------------------------------------------------------------------
(* Disconnection: the synchronous part *)

\* The counter of the account, one less; 0 stands for no entry.
Released(u) == [slots EXCEPT ![u] = IF @ <= 1 THEN 0 ELSE @ - 1]

Connected(c) == sock[c] = "connected"
HasUser(c) == auth[c] \in {"in", "over"}

\* The disconnect event of a connected socket, up to the first await of
\* handleDisconnect; map is sessions at that moment.
HangUp(c, map, user) ==
    /\ sock' = [sock EXCEPT ![c] = "gone"]
    /\ closes' = [closes EXCEPT ![c] = map[c]]
    /\ IF map[c] # NoSession
         THEN /\ closing' = [closing EXCEPT ![c] = "audit"]
              /\ UNCHANGED slots
         ELSE /\ closing' = [closing EXCEPT ![c] = "done"]
              /\ slots' = IF user THEN Released(Owner[c]) ELSE slots

\* client.disconnect(), which does nothing on a socket that is gone.
HangUpIfConnected(c, map, user) ==
    IF Connected(c) THEN HangUp(c, map, user)
                    ELSE UNCHANGED <<sock, slots, closeVars>>

-----------------------------------------------------------------------------
(* handleConnection, authenticateSocket *)

Connect(c) ==
    /\ sock[c] = "new"
    /\ sock' = [sock EXCEPT ![c] = "connected"]
    /\ auth' = [auth EXCEPT ![c] = "checking"]
    /\ UNCHANGED <<slots, authority, startVars, active, stream, pollVars, cache,
                   checking, closeVars, row, trail>>

Reject(c) ==
    /\ auth[c] = "checking"
    /\ auth' = [auth EXCEPT ![c] = "failed"]
    /\ HangUpIfConnected(c, active, FALSE)
    /\ UNCHANGED <<authority, startVars, active, stream, pollVars, cache, checking,
                   row, trail>>

\* The user is attached to the socket, then the limit is tested.
Authenticate(c) ==
    /\ auth[c] = "checking"
    /\ c \notin stale
    /\ IF slots[Owner[c]] >= MaxSessions
         THEN /\ auth' = [auth EXCEPT ![c] = "over"]
              /\ HangUpIfConnected(c, active, TRUE)
         ELSE /\ auth' = [auth EXCEPT ![c] = "in"]
              /\ slots' = [slots EXCEPT ![Owner[c]] = @ + 1]
              /\ UNCHANGED <<sock, closeVars>>
    /\ UNCHANGED <<authority, startVars, active, stream, pollVars, cache, checking,
                   row, trail>>

-----------------------------------------------------------------------------
(* handleStartSession *)

\* Calls that have not reached sessions.set yet.
Starting == {s \in Sessions : start[s] \in {"waiting", "access", "connect", "register"}}

\* The call once authReady has settled: refused without a user, or if the socket
\* has a session.
Admission(c) == IF HasUser(c) /\ active[c] = NoSession THEN "access" ELSE "failed"

\* start-session arrives, and waits if the socket is still being authenticated.
\* The tunnel of the web client does not send it again while a call is under way.
RequestSession(s) ==
    /\ start[s] = "unused"
    /\ Connected(by[s])
    /\ \A t \in Starting : by[t] # by[s]
    /\ start' = [start EXCEPT ![s] =
                    IF auth[by[s]] = "checking" THEN "waiting" ELSE Admission(by[s])]
    /\ UNCHANGED <<connVars, authority, by, active, stream, pollVars, cache,
                   checking, closeVars, row, trail>>

\* authReady has settled, well or not.
StartSession(s) ==
    /\ start[s] = "waiting"
    /\ auth[by[s]] # "checking"
    /\ start' = [start EXCEPT ![s] = Admission(by[s])]
    /\ UNCHANGED <<connVars, authority, by, active, stream, pollVars, cache,
                   checking, closeVars, row, trail>>

HasAccess(c) == Owner[c] \in operators

CheckAccess(s) ==
    /\ start[s] = "access"
    /\ start' = [start EXCEPT ![s] = IF HasAccess(by[s]) THEN "connect" ELSE "denied"]
    /\ UNCHANGED <<connVars, authority, by, active, stream, pollVars, cache,
                   checking, closeVars, row, trail>>

\* rdpService.createStream resolves: the timers are armed; without a recording
\* the session enters the map at once.
OpenStream(s) ==
    /\ start[s] = "connect"
    /\ stream' = [stream EXCEPT ![s] = "open"]
    /\ poll' = poll \cup {s}
    /\ \/ /\ start' = [start EXCEPT ![s] = "register"]
          /\ UNCHANGED active
       \/ /\ start' = [start EXCEPT ![s] = "announce"]
          /\ active' = [active EXCEPT ![by[s]] = s]
    /\ UNCHANGED <<connVars, authority, by, polling, cache, checking, closeVars,
                   row, trail>>

\* Mutant: the entry is forgotten for a session that is recorded.
RegisterUnmapped(s) ==
    /\ start[s] = "register"
    /\ row' = [row EXCEPT ![s] = "open"]
    /\ start' = [start EXCEPT ![s] = "announce"]
    /\ UNCHANGED <<connVars, authority, by, active, stream, pollVars, cache,
                   checking, closeVars, trail>>

\* registerRdp resolves.
Register(s) ==
    /\ start[s] = "register"
    /\ row' = [row EXCEPT ![s] = "open"]
    /\ active' = [active EXCEPT ![by[s]] = s]
    /\ start' = [start EXCEPT ![s] = "announce"]
    /\ UNCHANGED <<connVars, authority, by, stream, pollVars, cache, checking,
                   closeVars, trail>>

\* SESSION_STARTED is logged, then the listeners of the channel are attached.
Announce(s) ==
    /\ start[s] = "announce"
    /\ start' = [start EXCEPT ![s] = "ready"]
    /\ trail' = [trail EXCEPT ![s] = @ \cup {"STARTED"}]
    /\ UNCHANGED <<connVars, authority, by, active, stream, pollVars, cache,
                   checking, closeVars, row>>

\* An await rejects, or the machine is no RDP machine: the catch clause reports
\* it and undoes nothing.
StartFails(s) ==
    /\ \/ start[s] \in {"access", "connect"}
       \/ start[s] = "register" /\ "register_failure" \in Environment
       \/ start[s] = "announce" /\ "audit_failure" \in Environment
    /\ start' = [start EXCEPT ![s] = "failed"]
    /\ UNCHANGED <<connVars, authority, by, active, stream, pollVars, cache,
                   checking, closeVars, row, trail>>

-----------------------------------------------------------------------------
(* The ways a session is cut off for lack of access *)

\* The channel is destroyed and the entry deleted before the socket is hung up.
Kill(c, s) ==
    /\ stream' = [stream EXCEPT ![s] = "cut"]
    /\ active' = [active EXCEPT ![c] = NoSession]
    /\ HangUpIfConnected(c, [active EXCEPT ![c] = NoSession], HasUser(c))

Verdict(c) == IF HasAccess(c) THEN "allowed" ELSE "denied"

\* handleData without a fresh answer, one at a time per socket.  With a fresh one
\* it changes nothing here: the step that caches a denial deletes the entry.
AskAccess(c) ==
    /\ Connected(c) /\ active[c] # NoSession
    /\ checking[c] = NoSession
    /\ cache[active[c]] = "none"
    /\ checking' = [checking EXCEPT ![c] = active[c]]
    /\ UNCHANGED <<connVars, authority, startVars, active, stream, pollVars, cache,
                   closeVars, row, trail>>

AccessAnswered(c) ==
    /\ checking[c] # NoSession
    /\ checking' = [checking EXCEPT ![c] = NoSession]
    /\ cache' = [cache EXCEPT ![checking[c]] = Verdict(c)]
    /\ IF HasAccess(c)
         THEN UNCHANGED <<sock, slots, active, stream, poll, closeVars>>
         ELSE /\ Kill(c, checking[c])
              /\ poll' = poll \ {checking[c]}
    /\ UNCHANGED <<auth, authority, startVars, polling, row, trail>>

\* hasAccess rejects: nothing is cached.
AccessUnknown(c) ==
    /\ checking[c] # NoSession
    /\ checking' = [checking EXCEPT ![c] = NoSession]
    /\ UNCHANGED <<connVars, authority, startVars, active, stream, pollVars, cache,
                   closeVars, row, trail>>

\* The five seconds of an access answer are over, in a session still in use.
CacheExpires(s) ==
    /\ active[by[s]] = s /\ cache[s] # "none"
    /\ cache' = [cache EXCEPT ![s] = "none"]
    /\ UNCHANGED <<connVars, authority, startVars, active, stream, pollVars,
                   checking, closeVars, row, trail>>

\* The interval of session s fires and finds a session in the map.
PollFires(s) ==
    /\ s \in poll /\ polling[s] = NoSession
    /\ active[by[s]] # NoSession
    /\ polling' = [polling EXCEPT ![s] = active[by[s]]]
    /\ UNCHANGED <<connVars, authority, startVars, active, stream, poll, cache,
                   checking, closeVars, row, trail>>

Revoked(c) == c \in stale \/ ~HasAccess(c)

\* Mutant: the poll compares access only, not the token version.
PollIgnoresTokens(s) ==
    /\ polling[s] # NoSession
    /\ polling' = [polling EXCEPT ![s] = NoSession]
    /\ cache' = [cache EXCEPT ![polling[s]] = Verdict(by[s])]
    /\ IF HasAccess(by[s])
         THEN UNCHANGED <<sock, slots, active, stream, closeVars, trail>>
         ELSE /\ Kill(by[s], polling[s])
              /\ trail' = [trail EXCEPT ![polling[s]] = @ \cup {"KILLED"}]
    /\ UNCHANGED <<auth, authority, startVars, poll, checking, row>>

\* The answers arrive.  A kill leaves the interval armed.
PollAnswered(s) ==
    /\ polling[s] # NoSession
    /\ polling' = [polling EXCEPT ![s] = NoSession]
    /\ cache' = [cache EXCEPT ![polling[s]] =
                    IF Revoked(by[s]) THEN "denied" ELSE "allowed"]
    /\ IF Revoked(by[s])
         THEN /\ Kill(by[s], polling[s])
              /\ \/ trail' = [trail EXCEPT ![polling[s]] = @ \cup {"KILLED"}]
                 \/ "audit_failure" \in Environment /\ UNCHANGED trail
         ELSE UNCHANGED <<sock, slots, active, stream, closeVars, trail>>
    /\ UNCHANGED <<auth, authority, startVars, poll, checking, row>>

PollErrs(s) ==
    /\ polling[s] # NoSession
    /\ polling' = [polling EXCEPT ![s] = NoSession]
    /\ UNCHANGED <<connVars, authority, startVars, active, stream, poll, cache,
                   checking, closeVars, row, trail>>

-----------------------------------------------------------------------------
(* handleDisconnect *)

\* The timers of the session being closed are cleared.
Drop(c) ==
    /\ HangUp(c, active, HasUser(c))
    /\ poll' = poll \ {active[c]}

\* The socket drops, or a timer or an error of the channel disconnects it.
Disconnect(c) ==
    /\ Connected(c)
    /\ auth[c] = "checking" => "early_disconnect" \in Environment
    /\ Drop(c)
    /\ UNCHANGED <<auth, authority, startVars, active, stream, polling, cache,
                   checking, row, trail>>

\* guacd closes the channel; without a listener nobody notices.
RemoteCloses(s) ==
    /\ stream[s] = "open"
    /\ stream' = [stream EXCEPT ![s] = "ended"]
    /\ IF start[s] = "ready" /\ Connected(by[s])
         THEN Drop(by[s])
         ELSE UNCHANGED <<sock, slots, closeVars, poll>>
    /\ UNCHANGED <<auth, authority, startVars, active, polling, cache, checking,
                   row, trail>>

\* The end of handleDisconnect: the channel, the entry and the slot go.
Dispose(c) ==
    /\ stream' = [stream EXCEPT ![closes[c]] =
                     IF @ = "cut" THEN "cut" ELSE "ended"]
    /\ active' = [active EXCEPT ![c] = NoSession]
    /\ slots' = Released(Owner[c])
    /\ closing' = [closing EXCEPT ![c] = "done"]

\* Mutant: the event is logged for recorded sessions only.
LogRecorded(c) ==
    /\ closing[c] = "audit"
    /\ IF row[closes[c]] # "none"
         THEN /\ trail' = [trail EXCEPT ![closes[c]] = @ \cup {"CLOSED"}]
              /\ closing' = [closing EXCEPT ![c] = "finalise"]
              /\ UNCHANGED <<stream, active, slots>>
         ELSE Dispose(c) /\ UNCHANGED trail
    /\ UNCHANGED <<sock, auth, authority, startVars, pollVars, cache, checking,
                   closes, row>>

\* SESSION_CLOSED is logged.
LogClosed(c) ==
    /\ closing[c] = "audit"
    /\ trail' = [trail EXCEPT ![closes[c]] = @ \cup {"CLOSED"}]
    /\ IF row[closes[c]] # "none"
         THEN /\ closing' = [closing EXCEPT ![c] = "finalise"]
              /\ UNCHANGED <<stream, active, slots>>
         ELSE Dispose(c)
    /\ UNCHANGED <<sock, auth, authority, startVars, pollVars, cache, checking,
                   closes, row>>

\* finalizeRdp, which reports its own failures.
Finalise(c) ==
    /\ closing[c] = "finalise"
    /\ row' \in {row, [row EXCEPT ![closes[c]] = "final"]}
    /\ Dispose(c)
    /\ UNCHANGED <<sock, auth, authority, startVars, pollVars, cache, checking,
                   closes, trail>>

\* The event cannot be logged: the handler stops there.
CloseFails(c) ==
    /\ closing[c] = "audit" /\ "audit_failure" \in Environment
    /\ closing' = [closing EXCEPT ![c] = "failed"]
    /\ UNCHANGED <<connVars, authority, startVars, active, stream, pollVars, cache,
                   checking, closes, row, trail>>

-----------------------------------------------------------------------------
(* Administration, outside the gateway *)

RevokeAccess(u) ==
    /\ u \in operators
    /\ operators' = operators \ {u}
    /\ UNCHANGED <<connVars, stale, startVars, active, stream, pollVars, cache,
                   checking, closeVars, row, trail>>

GrantAccess(u) ==
    /\ u \notin operators
    /\ operators' = operators \cup {u}
    /\ UNCHANGED <<connVars, stale, startVars, active, stream, pollVars, cache,
                   checking, closeVars, row, trail>>

\* revoke-tokens: tokenVersion moves past the one of every JWT in use.
RevokeTokens(u) ==
    /\ stale' = stale \cup {c \in Clients : Owner[c] = u /\ sock[c] # "new"}
    /\ stale' # stale
    /\ UNCHANGED <<connVars, operators, startVars, active, stream, pollVars, cache,
                   checking, closeVars, row, trail>>

-----------------------------------------------------------------------------
ClientStep(c) ==
    \/ Connect(c) \/ Reject(c) \/ Authenticate(c)
    \/ AskAccess(c) \/ AccessAnswered(c) \/ AccessUnknown(c)
    \/ Disconnect(c) \/ LogClosed(c) \/ Finalise(c) \/ CloseFails(c)

SessionStep(s) ==
    \/ RequestSession(s) \/ StartSession(s) \/ CheckAccess(s) \/ OpenStream(s)
    \/ Register(s) \/ Announce(s) \/ StartFails(s) \/ CacheExpires(s)
    \/ PollFires(s) \/ PollAnswered(s) \/ PollErrs(s) \/ RemoteCloses(s)

AdminStep(u) == RevokeAccess(u) \/ GrantAccess(u) \/ RevokeTokens(u)

Next ==
    \/ \E c \in Clients : ClientStep(c)
    \/ \E s \in Sessions : SessionStep(s)
    \/ \E u \in Users : AdminStep(u)

Spec == Init /\ [][Next]_vars

\* Promises settle and intervals fire; of the polls of a session that keeps
\* being polled, not all meet a database error ("transient").
Fairness ==
    /\ \A c \in Clients :
          /\ WF_vars(Reject(c) \/ Authenticate(c))
          /\ WF_vars(LogClosed(c) \/ Finalise(c) \/ CloseFails(c))
          /\ WF_vars(AccessAnswered(c) \/ AccessUnknown(c))
    /\ \A s \in Sessions :
          /\ WF_vars(StartSession(s) \/ CheckAccess(s) \/ OpenStream(s) \/ Register(s)
                       \/ Announce(s) \/ StartFails(s))
          /\ WF_vars(PollFires(s))
          /\ SF_vars(PollAnswered(s))

FairSpec == Spec /\ Fairness

-----------------------------------------------------------------------------
(* Properties *)

\* Every open channel whose recording is registered, or that has none, is the
\* one the map holds for its socket, where the polls, handleData and
\* handleDisconnect look - also when the socket is long gone.
StreamsReachable ==
    \A s \in Sessions :
        stream[s] = "open" /\ start[s] # "register" => active[by[s]] = s

\* Nothing is in progress.
AtRest ==
    /\ \A c \in Clients :
          /\ auth[c] # "checking" /\ checking[c] = NoSession
          /\ closing[c] \notin {"audit", "finalise"}
    /\ \A s \in Sessions :
          /\ start[s] \notin {"waiting", "access", "connect", "register", "announce"}
          /\ polling[s] = NoSession

\* A session that was announced and has left the map, other than by a denial of
\* access, has been audited as closed ("un drop reseau ferme la session et genere
\* un audit RDP: SESSION_CLOSED", docs/RDP.md).
EndsAudited ==
    AtRest => \A s \in Sessions :
        "STARTED" \in trail[s] /\ active[by[s]] # s /\ stream[s] # "cut"
            => "CLOSED" \in trail[s]

\* A disconnection that could not be logged leaves its channel open, with no
\* timer: the gateway is done with it.
GivenUp(s) == closing[by[s]] = "failed" /\ closes[by[s]] = s

\* The gateway implements SessionBroker, whose fairness asks that a session whose
\* access or tokens are revoked for good is ended - also if its socket dropped
\* while the channel was being opened, and unless it was given up.
PhaseOf(s) ==
    CASE stream[s] = "open" /\ ~GivenUp(s) -> "open"
      [] stream[s] = "open" /\ GivenUp(s) -> "ended"
      [] stream[s] \in {"ended", "cut"} -> "ended"
      [] stream[s] = "none" -> IF start[s] = "connect" THEN "cleared" ELSE "idle"
Broker == INSTANCE SessionBroker WITH phase <- [s \in Sessions |-> PhaseOf(s)]
ImplementsBroker == Broker!FairSpec
=============================================================================
