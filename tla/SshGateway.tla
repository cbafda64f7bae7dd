----------------------------- MODULE SshGateway -----------------------------
(***************************************************************************)
(* The SSH terminal gateway (terminal/ssh.gateway.ts) with the part of the *)
(* session recorder it drives (recording/session-recorder.service.ts).     *)
(*                                                                         *)
(* The server is one Node process: the code between two awaits runs        *)
(* without interruption and is one action here; everything else - other    *)
(* sockets, timers, the remote host, the database - happens in between.    *)
(* client.disconnect() on a connected socket runs the handler of the       *)
(* disconnect event, up to its first await, inside the caller: see HangUp. *)
(*                                                                         *)
(* One machine is modelled; a socket belongs to the account whose JWT it   *)
(* carries.  A session is one call of start-session that gets past its     *)
(* early returns.  The limits on connections per address and on input      *)
(* events per second only refuse, and are part of Reject and of the        *)
(* freedom not to send input.                                              *)
(***************************************************************************)
EXTENDS Integers, FiniteSets

CONSTANTS
    Clients,      \* sockets, each used for one connection
    Users,        \* accounts
    Owner,        \* the account of each socket's JWT
    Sessions,     \* calls of start-session
    MaxSessions,  \* MAX_SESSIONS_PER_USER (5)
    NoSession,    \* no entry
    Environment   \* what the surroundings may do, see below

\* "early_disconnect": a socket drops while handleConnection awaits;
\* "parallel_start": a client sends start-session again before the first has
\* opened its stream (the web client sends it once per connection);
\* "audit_failure": auditService.log rejects.
EnvironmentEvents == {"early_disconnect", "parallel_start", "audit_failure"}

ASSUME OwnerAssumption == Owner \in [Clients -> Users]
ASSUME NoSessionAssumption == NoSession \notin Sessions
ASSUME MaxSessionsAssumption == MaxSessions \in Nat \ {0}
ASSUME EnvironmentAssumption == Environment \subseteq EnvironmentEvents

VARIABLES
    sock,       \* socket.io connection of each client
    auth,       \* handleConnection; client.data.user is set in "in", "over" (past
                \* the limit) and "late" (let in when the socket had gone)
    slots,      \* userSessions: the counter of each account
    operators,  \* accounts with OPERATOR access, in the database
    stale,      \* sockets whose tokenVersion is no longer the account's
    start,      \* handleStartSession of each session
    by,         \* the socket that sent it
    active,     \* sshSessions: the map from sockets to sessions
    stream,     \* the SSH channel of each session; "cut": ended by a kill
    poll,       \* sessions whose accessPoll interval is armed
    polling,    \* session an access poll looked up before its await
    cache,      \* session.accessCache
    checking,   \* session an input or resize handler looked up before its await
    closing,    \* handleDisconnect of each socket
    closes,     \* the session it looked up
    recording,  \* SessionRecorderService.active
    row,        \* the session_recording row of each session
    trail       \* audit events logged for each session

connVars == <<sock, auth, slots>>
authority == <<operators, stale>>
startVars == <<start, by>>
pollVars == <<poll, polling>>
closeVars == <<closing, closes>>
recVars == <<recording, row>>
vars == <<connVars, authority, startVars, active, stream, pollVars, cache,
          checking, closeVars, recVars, trail>>

StartStates == {"unused", "access", "connect", "record", "announce", "ready",
                "denied", "failed"}
OptSession == Sessions \cup {NoSession}

TypeOK ==
    /\ sock \in [Clients -> {"new", "connected", "gone"}]
    /\ auth \in [Clients -> {"none", "checking", "in", "over", "late", "failed"}]
    /\ slots \in [Users -> 0..MaxSessions]
    /\ operators \subseteq Users
    /\ stale \subseteq Clients
    /\ start \in [Sessions -> StartStates]
    /\ by \in [Sessions -> Clients]
    /\ active \in [Clients -> OptSession]
    /\ stream \in [Sessions -> {"none", "open", "ended", "cut"}]
    /\ poll \subseteq Sessions
    /\ polling \in [Sessions -> OptSession]
    /\ cache \in [Sessions -> {"none", "allowed", "denied"}]
    /\ checking \in [Clients -> OptSession]
    /\ closing \in [Clients -> {"none", "recorder", "audit", "done", "failed"}]
    /\ closes \in [Clients -> OptSession]
    /\ recording \subseteq Sessions
    /\ row \in [Sessions -> {"none", "open", "final"}]
    /\ trail \in [Sessions -> SUBSET {"DENIED", "STARTED", "CLOSED", "KILLED"}]

Init ==
    /\ sock = [c \in Clients |-> "new"]
    /\ auth = [c \in Clients |-> "none"]
    /\ slots = [u \in Users |-> 0]
    /\ operators = Users
    /\ stale = {}
    /\ start = [s \in Sessions |-> "unused"]
    /\ by \in [Sessions -> Clients]
    /\ active = [c \in Clients |-> NoSession]
    /\ stream = [s \in Sessions |-> "none"]
    /\ poll = {}
    /\ polling = [s \in Sessions |-> NoSession]
    /\ cache = [s \in Sessions |-> "none"]
    /\ checking = [c \in Clients |-> NoSession]
    /\ closing = [c \in Clients |-> "none"]
    /\ closes = [c \in Clients |-> NoSession]
    /\ recording = {}
    /\ row = [s \in Sessions |-> "none"]
    /\ trail = [s \in Sessions |-> {}]

-----------------------------------------------------------------------------
(* Disconnection: the synchronous part *)

Released(u) == [slots EXCEPT ![u] = IF @ <= 1 THEN 0 ELSE @ - 1]

Connected(c) == sock[c] = "connected"

\* Mutant: without a session the slot is kept.
HangUpKeepsSlot(c, map, user) ==
    /\ sock' = [sock EXCEPT ![c] = "gone"]
    /\ closes' = [closes EXCEPT ![c] = map[c]]
    /\ closing' = [closing EXCEPT ![c] =
                      IF map[c] # NoSession THEN "recorder" ELSE "done"]
    /\ UNCHANGED slots

\* The disconnect event of a connected socket, up to the first await of
\* handleDisconnect; map is sshSessions at that moment.
HangUp(c, map, user) ==
    /\ sock' = [sock EXCEPT ![c] = "gone"]
    /\ closes' = [closes EXCEPT ![c] = map[c]]
    /\ IF map[c] # NoSession
         THEN /\ closing' = [closing EXCEPT ![c] = "recorder"]
              /\ UNCHANGED slots
         ELSE /\ closing' = [closing EXCEPT ![c] = "done"]
              /\ slots' = IF user THEN Released(Owner[c]) ELSE slots

\* client.disconnect(), which does nothing on a socket that is gone.
HangUpIfConnected(c, map, user) ==
    IF Connected(c) THEN HangUp(c, map, user)
                    ELSE UNCHANGED <<sock, slots, closeVars>>

\* Clearing the timers of the session being closed.
PollsAfterHangUp(c) == poll \ {active[c]}

-----------------------------------------------------------------------------
(* handleConnection *)

Connect(c) ==
    /\ sock[c] = "new"
    /\ sock' = [sock EXCEPT ![c] = "connected"]
    /\ auth' = [auth EXCEPT ![c] = "checking"]
    /\ UNCHANGED <<slots, authority, startVars, active, stream, pollVars, cache,
                   checking, closeVars, recVars, trail>>

\* Throttled, no or invalid or blacklisted JWT, unknown user, stale token
\* version, password to be rotated.
Reject(c) ==
    /\ auth[c] = "checking"
    /\ auth' = [auth EXCEPT ![c] = "failed"]
    /\ HangUpIfConnected(c, active, FALSE)
    /\ UNCHANGED <<authority, startVars, active, stream, pollVars, cache, checking,
                   recVars, trail>>

\* The socket is disconnected with its user attached and no slot taken.
Refuse(c) ==
    /\ auth' = [auth EXCEPT ![c] = "over"]
    /\ HangUpIfConnected(c, active, TRUE)

Admit(c) ==
    /\ auth' = [auth EXCEPT ![c] = IF Connected(c) THEN "in" ELSE "late"]
    /\ slots' = [slots EXCEPT ![Owner[c]] = @ + 1]
    /\ UNCHANGED <<sock, closeVars>>

\* Mutant: the limit is tested off by one.
AuthenticateOneTooMany(c) ==
    /\ auth[c] = "checking"
    /\ c \notin stale
    /\ IF slots[Owner[c]] > MaxSessions
         THEN Refuse(c)
         ELSE Admit(c)
    /\ UNCHANGED <<authority, startVars, active, stream, pollVars, cache, checking,
                   recVars, trail>>

\* The user is attached to the socket, then the limit is tested; neither looks
\* whether the socket is still there.
Authenticate(c) ==
    /\ auth[c] = "checking"
    /\ c \notin stale
    /\ IF slots[Owner[c]] >= MaxSessions
         THEN Refuse(c)
         ELSE Admit(c)
    /\ UNCHANGED <<authority, startVars, active, stream, pollVars, cache, checking,
                   recVars, trail>>

-----------------------------------------------------------------------------
(* handleStartSession *)

\* Calls that have not reached sshSessions.set yet.
Starting == {s \in Sessions : start[s] \in {"access", "connect"}}

StartSession(s) ==
    /\ start[s] = "unused"
    /\ Connected(by[s]) /\ auth[by[s]] = "in"
    /\ active[by[s]] = NoSession
    /\ \/ "parallel_start" \in Environment
       \/ \A t \in Starting : by[t] # by[s]
    /\ start' = [start EXCEPT ![s] = "access"]
    /\ UNCHANGED <<connVars, authority, by, active, stream, pollVars, cache,
                   checking, closeVars, recVars, trail>>

HasAccess(c) == Owner[c] \in operators

CheckAccess(s) ==
    /\ start[s] = "access"
    /\ IF HasAccess(by[s])
         THEN /\ start' = [start EXCEPT ![s] = "connect"]
              /\ UNCHANGED trail
         ELSE /\ start' = [start EXCEPT ![s] = "denied"]
              /\ \/ trail' = [trail EXCEPT ![s] = @ \cup {"DENIED"}]
                 \/ "audit_failure" \in Environment /\ UNCHANGED trail
    /\ UNCHANGED <<connVars, authority, by, active, stream, pollVars, cache,
                   checking, closeVars, recVars>>

\* Mutant: the session enters the map only after it has been announced.
OpenUnmapped(s) ==
    /\ start[s] = "connect"
    /\ stream' = [stream EXCEPT ![s] = "open"]
    /\ poll' = poll \cup {s}
    /\ start' = [start EXCEPT ![s] = "announce"]
    /\ UNCHANGED <<connVars, authority, by, active, polling, cache, checking,
                   closeVars, recVars, trail>>

\* sshService.createStream resolves: the timers are armed and the session
\* enters the map, over the one that is there; recorder.start, if recording is
\* on, adds to its map and then awaits the insertion of the row.
OpenStream(s) ==
    /\ start[s] = "connect"
    /\ stream' = [stream EXCEPT ![s] = "open"]
    /\ active' = [active EXCEPT ![by[s]] = s]
    /\ poll' = poll \cup {s}
    /\ \/ /\ start' = [start EXCEPT ![s] = "record"]
          /\ recording' = recording \cup {s}
       \/ /\ start' = [start EXCEPT ![s] = "announce"]
          /\ UNCHANGED recording
    /\ UNCHANGED <<connVars, authority, by, polling, cache, checking, closeVars,
                   row, trail>>

RowCreated(s) ==
    /\ start[s] = "record"
    /\ start' = [start EXCEPT ![s] = "announce"]
    /\ row' = [row EXCEPT ![s] = "open"]
    /\ UNCHANGED <<connVars, authority, by, active, stream, pollVars, cache,
                   checking, closeVars, recording, trail>>

\* SESSION_STARTED is logged; only now do the data and close listeners exist.
Announce(s) ==
    /\ start[s] = "announce"
    /\ start' = [start EXCEPT ![s] = "ready"]
    /\ trail' = [trail EXCEPT ![s] = @ \cup {"STARTED"}]
    /\ UNCHANGED <<connVars, authority, by, active, stream, pollVars, cache,
                   checking, closeVars, recVars>>

\* An await rejects: the catch clause reports it and undoes nothing.
StartFails(s) ==
    /\ \/ start[s] \in {"access", "connect", "record"}
       \/ start[s] = "announce" /\ "audit_failure" \in Environment
    /\ start' = [start EXCEPT ![s] = "failed"]
    /\ UNCHANGED <<connVars, authority, by, active, stream, pollVars, cache,
                   checking, closeVars, recVars, trail>>

-----------------------------------------------------------------------------
(* The ways a session is cut off for lack of access *)

\* The stream is ended and the entry deleted before the socket is hung up, so
\* that handleDisconnect finds no session.
Kill(c, s) ==
    /\ stream' = [stream EXCEPT ![s] = "cut"]
    /\ active' = [active EXCEPT ![c] = NoSession]
    /\ HangUpIfConnected(c, [active EXCEPT ![c] = NoSession], auth[c] = "in")

Verdict(c) == IF HasAccess(c) THEN "allowed" ELSE "denied"

\* handleInput and handleResize without a fresh answer look the session up, then
\* await hasAccess; one such handler at a time is modelled per socket.  With a
\* fresh one they change nothing here: a denial never stays in the map to be
\* read, since the step that caches it deletes the entry.
AskAccess(c) ==
    /\ Connected(c) /\ active[c] # NoSession
    /\ checking[c] = NoSession
    /\ cache[active[c]] = "none"
    /\ checking' = [checking EXCEPT ![c] = active[c]]
    /\ UNCHANGED <<connVars, authority, startVars, active, stream, pollVars, cache,
                   closeVars, recVars, trail>>

\* hasAccess answers.  handleInput also clears the poll, handleResize does not.
AccessAnswered(c) ==
    /\ checking[c] # NoSession
    /\ checking' = [checking EXCEPT ![c] = NoSession]
    /\ cache' = [cache EXCEPT ![checking[c]] = Verdict(c)]
    /\ IF HasAccess(c)
         THEN UNCHANGED <<sock, slots, active, stream, poll, closeVars>>
         ELSE /\ Kill(c, checking[c])
              /\ poll' \in {poll, poll \ {checking[c]}}
    /\ UNCHANGED <<auth, authority, startVars, polling, recVars, trail>>

\* hasAccess rejects: nothing is cached.
AccessUnknown(c) ==
    /\ checking[c] # NoSession
    /\ checking' = [checking EXCEPT ![c] = NoSession]
    /\ UNCHANGED <<connVars, authority, startVars, active, stream, pollVars, cache,
                   closeVars, recVars, trail>>

\* The five seconds of an access answer are over, in a session still in use.
CacheExpires(s) ==
    /\ active[by[s]] = s /\ cache[s] # "none"
    /\ cache' = [cache EXCEPT ![s] = "none"]
    /\ UNCHANGED <<connVars, authority, startVars, active, stream, pollVars,
                   checking, closeVars, recVars, trail>>

\* The interval of session s fires: it looks up whatever session the map holds
\* for the socket, then awaits the user and hasAccess.
PollFires(s) ==
    /\ s \in poll /\ polling[s] = NoSession
    /\ active[by[s]] # NoSession
    /\ polling' = [polling EXCEPT ![s] = active[by[s]]]
    /\ UNCHANGED <<connVars, authority, startVars, active, stream, poll, cache,
                   checking, closeVars, recVars, trail>>

Revoked(c) == c \in stale \/ ~HasAccess(c)

\* Mutant: the poll compares access only, not the token version.
PollIgnoresTokens(s) ==
    /\ polling[s] # NoSession
    /\ polling' = [polling EXCEPT ![s] = NoSession]
    /\ cache' = [cache EXCEPT ![polling[s]] = Verdict(by[s])]
    /\ IF HasAccess(by[s])
         THEN UNCHANGED <<sock, slots, active, stream, closeVars, trail>>
         ELSE /\ Kill(by[s], polling[s])
              /\ trail' = [trail EXCEPT ![polling[s]] = @ \cup {"KILLED"}]
    /\ UNCHANGED <<auth, authority, startVars, poll, checking, recVars>>

\* The answers arrive.  A kill leaves the interval armed; its audit event is
\* not awaited and a failure to log it is only reported.
PollAnswered(s) ==
    /\ polling[s] # NoSession
    /\ polling' = [polling EXCEPT ![s] = NoSession]
    /\ cache' = [cache EXCEPT ![polling[s]] =
                    IF Revoked(by[s]) THEN "denied" ELSE "allowed"]
    /\ IF Revoked(by[s])
         THEN /\ Kill(by[s], polling[s])
              /\ \/ trail' = [trail EXCEPT ![polling[s]] = @ \cup {"KILLED"}]
                 \/ "audit_failure" \in Environment /\ UNCHANGED trail
         ELSE UNCHANGED <<sock, slots, active, stream, closeVars, trail>>
    /\ UNCHANGED <<auth, authority, startVars, poll, checking, recVars>>

\* A database error: the session is left alone until the next poll.
PollErrs(s) ==
    /\ polling[s] # NoSession
    /\ polling' = [polling EXCEPT ![s] = NoSession]
    /\ UNCHANGED <<connVars, authority, startVars, active, stream, poll, cache,
                   checking, closeVars, recVars, trail>>

-----------------------------------------------------------------------------
(* handleDisconnect *)

\* The socket drops: the user leaves, the network fails, or one of the timers
\* of the session (4 hours, 30 minutes without traffic) disconnects it.
Disconnect(c) ==
    /\ Connected(c)
    /\ auth[c] = "checking" => "early_disconnect" \in Environment
    /\ HangUp(c, active, auth[c] = "in")
    /\ poll' = PollsAfterHangUp(c)
    /\ UNCHANGED <<auth, authority, startVars, active, stream, polling, cache,
                   checking, recVars, trail>>

\* The remote side closes the channel; without a listener nobody notices.
RemoteCloses(s) ==
    /\ stream[s] = "open"
    /\ stream' = [stream EXCEPT ![s] = "ended"]
    /\ IF start[s] = "ready" /\ Connected(by[s])
         THEN /\ HangUp(by[s], active, auth[by[s]] = "in")
              /\ poll' = PollsAfterHangUp(by[s])
         ELSE UNCHANGED <<sock, slots, closeVars, poll>>
    /\ UNCHANGED <<auth, authority, startVars, active, polling, cache, checking,
                   recVars, trail>>

\* Mutant: a recording without a row yet stays in the map.
EndKeepsRowless(c) ==
    /\ closing[c] = "recorder"
    /\ IF closes[c] \in recording /\ row[closes[c]] = "open"
         THEN /\ recording' = recording \ {closes[c]}
              /\ row' \in {row, [row EXCEPT ![closes[c]] = "final"]}
         ELSE UNCHANGED recVars
    /\ closing' = [closing EXCEPT ![c] = "audit"]
    /\ UNCHANGED <<connVars, authority, startVars, active, stream, pollVars, cache,
                   checking, closes, trail>>

\* recorder.end: out of the map, then the row is finalised if it is there;
\* a failure of that update is only reported.
EndRecording(c) ==
    /\ closing[c] = "recorder"
    /\ recording' = recording \ {closes[c]}
    /\ row' \in IF closes[c] \in recording /\ row[closes[c]] = "open"
                  THEN {row, [row EXCEPT ![closes[c]] = "final"]}
                  ELSE {row}
    /\ closing' = [closing EXCEPT ![c] = "audit"]
    /\ UNCHANGED <<connVars, authority, startVars, active, stream, pollVars, cache,
                   checking, closes, trail>>

\* SESSION_CLOSED is logged, then the stream, the entry and the slot go.
CloseSession(c) ==
    /\ closing[c] = "audit"
    /\ trail' = [trail EXCEPT ![closes[c]] = @ \cup {"CLOSED"}]
    /\ stream' = [stream EXCEPT ![closes[c]] = "ended"]
    /\ active' = [active EXCEPT ![c] = NoSession]
    /\ slots' = Released(Owner[c])
    /\ closing' = [closing EXCEPT ![c] = "done"]
    /\ UNCHANGED <<sock, auth, authority, startVars, pollVars, cache, checking,
                   closes, recVars>>

\* The event cannot be logged: the handler stops there.
CloseFails(c) ==
    /\ closing[c] = "audit" /\ "audit_failure" \in Environment
    /\ closing' = [closing EXCEPT ![c] = "failed"]
    /\ UNCHANGED <<connVars, authority, startVars, active, stream, pollVars, cache,
                   checking, closes, recVars, trail>>

-----------------------------------------------------------------------------
(* Administration, outside the gateway *)

RevokeAccess(u) ==
    /\ u \in operators
    /\ operators' = operators \ {u}
    /\ UNCHANGED <<connVars, stale, startVars, active, stream, pollVars, cache,
                   checking, closeVars, recVars, trail>>

GrantAccess(u) ==
    /\ u \notin operators
    /\ operators' = operators \cup {u}
    /\ UNCHANGED <<connVars, stale, startVars, active, stream, pollVars, cache,
                   checking, closeVars, recVars, trail>>

\* revoke-tokens: tokenVersion moves past the one of every JWT in use.
RevokeTokens(u) ==
    /\ stale' = stale \cup {c \in Clients : Owner[c] = u /\ sock[c] # "new"}
    /\ stale' # stale
    /\ UNCHANGED <<connVars, operators, startVars, active, stream, pollVars, cache,
                   checking, closeVars, recVars, trail>>

-----------------------------------------------------------------------------
ClientStep(c) ==
    \/ Connect(c) \/ Reject(c) \/ Authenticate(c)
    \/ AskAccess(c) \/ AccessAnswered(c) \/ AccessUnknown(c)
    \/ Disconnect(c) \/ EndRecording(c) \/ CloseSession(c) \/ CloseFails(c)

SessionStep(s) ==
    \/ StartSession(s) \/ CheckAccess(s) \/ OpenStream(s) \/ RowCreated(s)
    \/ Announce(s) \/ StartFails(s) \/ CacheExpires(s)
    \/ PollFires(s) \/ PollAnswered(s) \/ PollErrs(s) \/ RemoteCloses(s)

AdminStep(u) == RevokeAccess(u) \/ GrantAccess(u) \/ RevokeTokens(u)

Next ==
    \/ \E c \in Clients : ClientStep(c)
    \/ \E s \in Sessions : SessionStep(s)
    \/ \E u \in Users : AdminStep(u)

Spec == Init /\ [][Next]_vars

\* Promises settle and intervals fire; of the polls of a session that keeps
\* being polled, not all meet a database error ("transient").
Fairness ==
    /\ \A c \in Clients :
          /\ WF_vars(Reject(c) \/ Authenticate(c))
          /\ WF_vars(EndRecording(c))
          /\ WF_vars(CloseSession(c) \/ CloseFails(c))
          /\ WF_vars(AccessAnswered(c) \/ AccessUnknown(c))
    /\ \A s \in Sessions :
          /\ WF_vars(CheckAccess(s) \/ OpenStream(s) \/ RowCreated(s)
                       \/ Announce(s) \/ StartFails(s))
          /\ WF_vars(PollFires(s))
          /\ SF_vars(PollAnswered(s))

FairSpec == Spec /\ Fairness

-----------------------------------------------------------------------------
(* Properties *)

\* Every channel that is open to a machine is the one the map holds for its
\* socket, where the polls, the input handlers and handleDisconnect look.
StreamsReachable ==
    \A s \in Sessions : stream[s] = "open" => active[by[s]] = s

\* What the counter of an account (userSessions) should hold, and what comes in
\* between: sockets that were counted and are not yet done with, those whose
\* slot nobody will return (handleDisconnect had run before the slot was taken,
\* or stopped because its audit event was rejected), and those refused at the
\* limit, which return a slot they never took.
Live(u) == {c \in Clients : /\ Owner[c] = u /\ auth[c] = "in"
                            /\ Connected(c) \/ closing[c] \in {"recorder", "audit"}}
Left(u) == {c \in Clients : /\ Owner[c] = u
                            /\ \/ auth[c] = "late"
                               \/ auth[c] = "in" /\ closing[c] = "failed"}
Refused(u) == {c \in Clients : Owner[c] = u /\ auth[c] = "over"}

\* The counter drifts by these and by nothing else: it is never above the live
\* sockets and the slots left behind, and below them by at most one for each
\* refusal, whichever way (kill, disconnection, refusal) each socket ends.
SlotsExact ==
    \A u \in Users :
        LET owed == Cardinality(Live(u)) + Cardinality(Left(u))
        IN owed - Cardinality(Refused(u)) <= slots[u] /\ slots[u] <= owed

\* Nothing is in progress.
AtRest ==
    /\ \A c \in Clients :
          /\ auth[c] # "checking" /\ checking[c] = NoSession
          /\ closing[c] \notin {"recorder", "audit"}
    /\ \A s \in Sessions :
          /\ start[s] \notin {"access", "connect", "record", "announce"}
          /\ polling[s] = NoSession

\* A session that was announced and that the gateway has taken off its map.
Over(s) == "STARTED" \in trail[s] /\ active[by[s]] # s

\* With nothing left to run, a session that ended other than by a denial of
\* access has been audited as closed and has left the recorder's map, however
\* its end fell among the steps of its start (handleDisconnect, recorder.start,
\* recorder.end).
EndsAccounted ==
    AtRest => \A s \in Sessions :
        Over(s) /\ stream[s] # "cut" => "CLOSED" \in trail[s] /\ s \notin recording

\* A session that handleDisconnect tried to close and could not, because the audit
\* event was rejected: the timers are off, and nothing looks at the channel again.
GivenUp(s) == closing[by[s]] = "failed" /\ closes[by[s]] = s

\* The gateway implements SessionBroker: in particular, revoking access or
\* tokens for good ends the channel, whether its user types or only watches,
\* unless it is one that was given up.
PhaseOf(s) ==
    CASE stream[s] = "open" /\ ~GivenUp(s) -> "open"
      [] stream[s] = "open" /\ GivenUp(s) -> "ended"
      [] stream[s] \in {"ended", "cut"} -> "ended"
      [] stream[s] = "none" -> IF start[s] = "connect" THEN "cleared" ELSE "idle"
Broker == INSTANCE SessionBroker WITH phase <- [s \in Sessions |-> PhaseOf(s)]
ImplementsBroker == Broker!FairSpec
=============================================================================
