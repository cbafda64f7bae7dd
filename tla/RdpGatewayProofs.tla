-------------------------- MODULE RdpGatewayProofs --------------------------
(***************************************************************************)
(* Proofs about RdpGateway: its types and, when the rows of recordings can *)
(* be inserted, that no registered channel ever escapes the map and that   *)
(* the gateway implements SessionBroker.  Then about Channel: what passes  *)
(* between guacd and the browser in one session, which the first part      *)
(* takes for granted; the two models have no variable in common.           *)
(***************************************************************************)
EXTENDS RdpGateway, Channel, ListLemmas, TLAPS

USE DEF OptSession

\* What a step of each kind leaves to the type invariant.
LEMMA ReleasedType ==
    ASSUME TypeOK, NEW u \in Users
    PROVE  Released(u) \in [Users -> 0..MaxSessions]
<1>1. slots[u] \in 0..MaxSessions /\ MaxSessions \in Nat
    BY MaxSessionsAssumption DEF TypeOK
<1>2. (IF slots[u] <= 1 THEN 0 ELSE slots[u] - 1) \in 0..MaxSessions
    BY <1>1
<1> QED
    BY <1>2 DEF TypeOK, Released

LEMMA HangUpType ==
    ASSUME TypeOK, NEW c \in Clients, NEW map \in [Clients -> OptSession],
           NEW user \in BOOLEAN,
           HangUp(c, map, user) \/ HangUpIfConnected(c, map, user)
    PROVE  /\ sock' \in [Clients -> {"new", "connected", "gone"}]
           /\ slots' \in [Users -> 0..MaxSessions]
           /\ closing' \in [Clients -> {"none", "audit", "finalise", "done", "failed"}]
           /\ closes' \in [Clients -> OptSession]
<1>1. Owner[c] \in Users
    BY OwnerAssumption
<1>2. Released(Owner[c]) \in [Users -> 0..MaxSessions]
    BY <1>1, ReleasedType
<1>3. CASE HangUp(c, map, user)
    BY <1>2, <1>3 DEF TypeOK, HangUp
<1>4. CASE UNCHANGED <<sock, slots, closeVars>>
    BY <1>4 DEF TypeOK, closeVars
<1> QED
    BY <1>3, <1>4 DEF HangUpIfConnected

LEMMA KillType ==
    ASSUME TypeOK, NEW c \in Clients, NEW s \in Sessions, Kill(c, s)
    PROVE  /\ sock' \in [Clients -> {"new", "connected", "gone"}]
           /\ slots' \in [Users -> 0..MaxSessions]
           /\ closing' \in [Clients -> {"none", "audit", "finalise", "done", "failed"}]
           /\ closes' \in [Clients -> OptSession]
           /\ stream' \in [Sessions -> {"none", "open", "ended", "cut"}]
           /\ active' \in [Clients -> OptSession]
<1> DEFINE map == [active EXCEPT ![c] = NoSession]
<1>1. map \in [Clients -> OptSession]
    BY DEF TypeOK
<1>2. HangUpIfConnected(c, map, HasUser(c))
    BY DEF Kill
<1>3. HasUser(c) \in BOOLEAN
    BY DEF HasUser
<1>4. /\ sock' \in [Clients -> {"new", "connected", "gone"}]
      /\ slots' \in [Users -> 0..MaxSessions]
      /\ closing' \in [Clients -> {"none", "audit", "finalise", "done", "failed"}]
      /\ closes' \in [Clients -> OptSession]
    <2> HIDE DEF map
    <2> QED BY <1>1, <1>2, <1>3, HangUpType
<1> QED
    BY <1>4 DEF TypeOK, Kill

LEMMA DisposeType ==
    ASSUME TypeOK, NEW c \in Clients, Dispose(c)
    PROVE  /\ stream' \in [Sessions -> {"none", "open", "ended", "cut"}]
           /\ active' \in [Clients -> OptSession]
           /\ slots' \in [Users -> 0..MaxSessions]
           /\ closing' \in [Clients -> {"none", "audit", "finalise", "done", "failed"}]
BY OwnerAssumption, ReleasedType DEF TypeOK, Dispose

USE DEF connVars, authority, startVars, pollVars, closeVars

LEMMA TypeInit == Init => TypeOK
BY MaxSessionsAssumption DEF Init, TypeOK, StartStates

\* handleConnection, handleDisconnect and the input handlers keep the types.
LEMMA TypeClient ==
    ASSUME TypeOK, NEW c \in Clients, ClientStep(c)
    PROVE  TypeOK'
<1> DEFINE in == HasUser(c)
<1>a. active \in [Clients -> OptSession] /\ in \in BOOLEAN /\ Owner[c] \in Users
    BY OwnerAssumption DEF TypeOK, HasUser
<1>1. CASE Connect(c)
    BY <1>1 DEF TypeOK, Connect
<1>2. CASE Reject(c)
    <2>1. HangUpIfConnected(c, active, FALSE)
        BY <1>2 DEF Reject
    <2> QED
        BY <1>2, <1>a, <2>1, HangUpType DEF TypeOK, Reject
<1>3. CASE Authenticate(c)
    <2>1. CASE slots[Owner[c]] >= MaxSessions
        <3>1. HangUpIfConnected(c, active, TRUE)
            BY <1>3, <2>1 DEF Authenticate
        <3>2. auth' = [auth EXCEPT ![c] = "over"]
            BY <1>3, <2>1 DEF Authenticate
        <3>3. UNCHANGED <<authority, startVars, active, stream, pollVars, cache,
                          checking, row, trail>>
            BY <1>3 DEF Authenticate
        <3> QED
            BY <1>a, <3>1, <3>2, <3>3, HangUpType DEF TypeOK
    <2>2. CASE ~(slots[Owner[c]] >= MaxSessions)
        <3>1. slots[Owner[c]] + 1 \in 0..MaxSessions
            BY <1>a, <2>2, MaxSessionsAssumption DEF TypeOK
        <3>2. slots' = [slots EXCEPT ![Owner[c]] = slots[Owner[c]] + 1]
            BY <1>3, <2>2 DEF Authenticate
        <3>3. slots' \in [Users -> 0..MaxSessions]
            BY <3>1, <3>2 DEF TypeOK
        <3> QED
            BY <1>3, <2>2, <3>3 DEF TypeOK, Authenticate
    <2> QED
        BY <2>1, <2>2
<1>4. CASE AskAccess(c)
    BY <1>4, <1>a DEF TypeOK, AskAccess
<1>5. CASE AccessAnswered(c)
    <2>1. checking[c] \in Sessions
        BY <1>5 DEF TypeOK, AccessAnswered
    <2>2. cache' \in [Sessions -> {"none", "allowed", "denied"}]
        BY <1>5 DEF TypeOK, AccessAnswered, Verdict
    <2>3. checking' \in [Clients -> OptSession]
        BY <1>5 DEF TypeOK, AccessAnswered
    <2>4. CASE HasAccess(c)
        BY <1>5, <2>2, <2>3, <2>4 DEF TypeOK, AccessAnswered
    <2>5. CASE ~HasAccess(c)
        <3>1. Kill(c, checking[c])
            BY <1>5, <2>5 DEF AccessAnswered
        <3>2. poll' \subseteq Sessions
            BY <1>5, <2>5 DEF TypeOK, AccessAnswered
        <3> QED
            BY <1>5, <2>1, <2>2, <2>3, <3>1, <3>2, KillType DEF TypeOK, AccessAnswered
    <2> QED
        BY <2>4, <2>5
<1>6. CASE AccessUnknown(c)
    BY <1>6 DEF TypeOK, AccessUnknown
<1>7. CASE Disconnect(c)
    <2>1. HangUp(c, active, in)
        BY <1>7 DEF Disconnect, Drop
    <2>2. poll' \subseteq Sessions
        BY <1>7 DEF TypeOK, Disconnect, Drop
    <2> QED
        BY <1>7, <1>a, <2>1, <2>2, HangUpType DEF TypeOK, Disconnect
<1>8. CASE LogClosed(c)
    <2>1. trail' \in [Sessions -> SUBSET {"STARTED", "CLOSED", "KILLED"}]
        BY <1>8 DEF TypeOK, LogClosed
    <2>2. CASE row[closes[c]] # "none"
        <3>1. closing' = [closing EXCEPT ![c] = "finalise"]
            BY <1>8, <2>2 DEF LogClosed
        <3>2. UNCHANGED <<stream, active, slots>>
            BY <1>8, <2>2 DEF LogClosed
        <3> QED
            BY <1>8, <2>1, <3>1, <3>2 DEF TypeOK, LogClosed
    <2>3. CASE row[closes[c]] = "none"
        <3>1. Dispose(c)
            BY <1>8, <2>3 DEF LogClosed
        <3> QED
            BY <1>8, <2>1, <3>1, DisposeType DEF TypeOK, LogClosed
    <2> QED
        BY <2>2, <2>3
<1>9. CASE Finalise(c)
    <2>1. row' \in [Sessions -> {"none", "open", "final"}]
        BY <1>9 DEF TypeOK, Finalise
    <2> QED
        BY <1>9, <2>1, DisposeType DEF TypeOK, Finalise
<1>10. CASE CloseFails(c)
    BY <1>10 DEF TypeOK, CloseFails
<1> QED
    BY <1>1, <1>2, <1>3, <1>4, <1>5, <1>6, <1>7, <1>8, <1>9, <1>10
    DEF ClientStep

\* handleStartSession, the timers of a session and the remote host keep them.
LEMMA TypeSession ==
    ASSUME TypeOK, NEW s \in Sessions, SessionStep(s)
    PROVE  TypeOK'
<1>a. /\ active \in [Clients -> OptSession] /\ by[s] \in Clients
      /\ HasUser(by[s]) \in BOOLEAN
    BY DEF TypeOK, HasUser
<1>1. CASE RequestSession(s)
    BY <1>1 DEF TypeOK, RequestSession, Admission, StartStates
<1>2. CASE StartSession(s)
    BY <1>2 DEF TypeOK, StartSession, Admission, StartStates
<1>3. CASE CheckAccess(s)
    BY <1>3 DEF TypeOK, CheckAccess, StartStates
<1>4. CASE OpenStream(s)
    BY <1>4, <1>a DEF TypeOK, OpenStream, StartStates
<1>5. CASE Register(s)
    BY <1>5, <1>a DEF TypeOK, Register, StartStates
<1>6. CASE Announce(s)
    BY <1>6 DEF TypeOK, Announce, StartStates
<1>7. CASE StartFails(s)
    BY <1>7 DEF TypeOK, StartFails, StartStates
<1>8. CASE CacheExpires(s)
    BY <1>8 DEF TypeOK, CacheExpires
<1>9. CASE PollFires(s)
    BY <1>9, <1>a DEF TypeOK, PollFires
<1>10. CASE PollAnswered(s)
    <2>1. polling[s] \in Sessions
        BY <1>10 DEF TypeOK, PollAnswered
    <2>2. polling' \in [Sessions -> OptSession]
        BY <1>10 DEF TypeOK, PollAnswered
    <2>3. cache' \in [Sessions -> {"none", "allowed", "denied"}]
        BY <1>10 DEF TypeOK, PollAnswered
    <2>4. CASE Revoked(by[s])
        <3>1. Kill(by[s], polling[s])
            BY <1>10, <2>4 DEF PollAnswered
        <3>2. trail' \in [Sessions -> SUBSET {"STARTED", "CLOSED", "KILLED"}]
            BY <1>10, <2>4 DEF TypeOK, PollAnswered
        <3> QED
            BY <1>10, <1>a, <2>1, <2>2, <2>3, <3>1, <3>2, KillType
            DEF TypeOK, PollAnswered
    <2>5. CASE ~Revoked(by[s])
        BY <1>10, <2>2, <2>3, <2>5 DEF TypeOK, PollAnswered
    <2> QED
        BY <2>4, <2>5
<1>11. CASE PollErrs(s)
    BY <1>11 DEF TypeOK, PollErrs
<1>12. CASE RemoteCloses(s)
    <2>1. stream' \in [Sessions -> {"none", "open", "ended", "cut"}]
        BY <1>12 DEF TypeOK, RemoteCloses
    <2>2. CASE start[s] = "ready" /\ Connected(by[s])
        <3>1. HangUp(by[s], active, HasUser(by[s]))
            BY <1>12, <2>2 DEF RemoteCloses, Drop
        <3>2. poll' \subseteq Sessions
            BY <1>12, <2>2 DEF TypeOK, RemoteCloses, Drop
        <3> QED
            BY <1>12, <1>a, <2>1, <3>1, <3>2, HangUpType DEF TypeOK, RemoteCloses
    <2>3. CASE ~(start[s] = "ready" /\ Connected(by[s]))
        BY <1>12, <2>1, <2>3 DEF TypeOK, RemoteCloses
    <2> QED
        BY <2>2, <2>3
<1> QED
    BY <1>1, <1>2, <1>3, <1>4, <1>5, <1>6, <1>7, <1>8, <1>9, <1>10, <1>11, <1>12
    DEF SessionStep

LEMMA TypeNext == TypeOK /\ [Next]_vars => TypeOK'
<1> SUFFICES ASSUME TypeOK, [Next]_vars PROVE TypeOK'
    OBVIOUS
<1>1. ASSUME NEW c \in Clients, ClientStep(c) PROVE TypeOK'
    BY <1>1, TypeClient
<1>2. ASSUME NEW s \in Sessions, SessionStep(s) PROVE TypeOK'
    BY <1>2, TypeSession
<1>3. ASSUME NEW u \in Users, AdminStep(u) PROVE TypeOK'
    BY <1>3 DEF TypeOK, AdminStep, RevokeAccess, GrantAccess, RevokeTokens
<1>4. CASE UNCHANGED vars
    BY <1>4 DEF TypeOK, vars
<1> QED
    BY <1>1, <1>2, <1>3, <1>4 DEF Next

\* Every state of the gateway is well typed; in particular the counter of an
\* account never leaves 0..MAX_SESSIONS_PER_USER, whatever the surroundings do.
THEOREM TypeCorrect == Spec => []TypeOK
BY TypeInit, TypeNext, PTL DEF Spec

-----------------------------------------------------------------------------
(* Channels stay reachable                                                 *)

\* A call of start-session that may still open a channel, or has.
Busy(s) == s \in Starting \/ stream[s] # "none"

\* Before createStream resolves there is no channel; when its row is awaited
\* there is, or was, one.
Unopened == \A s \in Sessions :
    /\ start[s] \in {"unused", "waiting", "access", "connect"} => stream[s] = "none"
    /\ start[s] = "register" => stream[s] # "none"

\* A socket has one busy call: the one the map holds, or none yet.
OneBusy == \A s, t \in Sessions :
    Busy(s) /\ Busy(t) /\ by[s] = by[t] => s = t

\* What the map and the pending handlers refer to is a session of that socket
\* that is past sessions.set.
Opened(s, c) == by[s] = c /\ stream[s] # "none" /\ start[s] # "register"
MapOwn == \A c \in Clients : active[c] # NoSession => Opened(active[c], c)
CheckingOwn == \A c \in Clients : checking[c] # NoSession => Opened(checking[c], c)
PollingOwn == \A s \in Sessions : polling[s] # NoSession => Opened(polling[s], by[s])
Closing == {"audit", "finalise", "failed"}
ClosingOwn == \A c \in Clients :
    closing[c] \in Closing => closes[c] \in Sessions /\ Opened(closes[c], c)

\* A socket that is connected still has its registered session in the map, so
\* that handleStartSession refuses another one.
Mapped == \A s \in Sessions :
    stream[s] # "none" /\ start[s] # "register" /\ Connected(by[s]) => active[by[s]] = s

\* Only an authenticated socket gets past authReady.
Settled == \A s \in Sessions :
    stream[s] # "none" \/ start[s] \in {"access", "connect", "register"}
        => HasUser(by[s])

\* Handlers run on sockets that have connected, disconnections on ones gone.
Used == \A s \in Sessions : start[s] # "unused" => sock[by[s]] # "new"
Fresh == \A c \in Clients : sock[c] = "new" => auth[c] = "none"
GoneWhenClosing == \A c \in Clients : closing[c] # "none" => sock[c] = "gone"

\* What a disconnection disturbs.
Sockets == Used /\ GoneWhenClosing /\ Mapped /\ ClosingOwn
\* What an authentication does.
Identity == Settled /\ Fresh
\* What a channel does.
Channels == StreamsReachable /\ Unopened /\ OneBusy /\ MapOwn
Core == Sockets /\ Identity /\ Channels

ReachableInv == TypeOK /\ Core /\ CheckingOwn /\ PollingOwn

\* What has been opened stays so: it is the same session's, past sessions.set.
StillOpened == \A s \in Sessions :
    stream[s] # "none" => stream'[s] # "none" /\ (start'[s] = "register" => start[s] = "register")

\* What a disconnection does to the sockets, and to nothing else.
LEMMA HangUpReach ==
    ASSUME ReachableInv, NEW c \in Clients, NEW user \in BOOLEAN,
           NEW map \in [Clients -> OptSession],
           map[c] \in {NoSession, active[c]},
           HangUpIfConnected(c, map, user)
    PROVE  /\ \A d \in Clients : closing'[d] # "none" => sock'[d] = "gone"
           /\ \A d \in Clients : sock'[d] = "new" <=> sock[d] = "new"
           /\ \A d \in Clients : Connected(d)' => Connected(d) /\ d # c
           /\ \A d \in Clients :
                 closing'[d] \in Closing =>
                    \/ closing[d] \in Closing /\ closes'[d] = closes[d]
                    \/ closes'[d] = active[d] /\ active[d] # NoSession
           /\ \A d \in Clients : closing'[d] = "failed" <=> closing[d] = "failed"
           /\ \A d \in Clients : closing[d] = "failed" => closes'[d] = closes[d]
<1>t. /\ sock \in [Clients -> {"new", "connected", "gone"}]
      /\ closing \in [Clients -> {"none", "audit", "finalise", "done", "failed"}]
      /\ closes \in [Clients -> OptSession]
      /\ \A d \in Clients : closing[d] # "none" => sock[d] = "gone"
    BY DEF ReachableInv, Core, Sockets, GoneWhenClosing, TypeOK
<1>1. CASE HangUp(c, map, user) /\ Connected(c)
    <2>1. /\ closing[c] = "none" /\ sock[c] = "connected"
          /\ sock' = [sock EXCEPT ![c] = "gone"]
          /\ closes' = [closes EXCEPT ![c] = map[c]]
        BY <1>1, <1>t DEF HangUp, Connected
    <2>2. \/ map[c] # NoSession /\ closing' = [closing EXCEPT ![c] = "audit"]
          \/ closing' = [closing EXCEPT ![c] = "done"]
        BY <1>1 DEF HangUp
    <2> QED
        BY <1>t, <2>1, <2>2 DEF Closing, Connected
<1>2. CASE ~Connected(c) /\ UNCHANGED <<sock, slots, closeVars>>
    BY <1>2, <1>t DEF Connected, Closing
<1> QED
    BY <1>1, <1>2 DEF HangUpIfConnected

\* A socket that does not come back keeps what is said of sockets, if the map
\* keeps what concerns the connected ones.
LEMMA SocketsKept ==
    ASSUME ReachableInv, by' = by, start' = start, StillOpened,
           \A d \in Clients : closing'[d] # "none" => sock'[d] = "gone",
           \A d \in Clients : sock'[d] = "new" <=> sock[d] = "new",
           \A d \in Clients : Connected(d)' => Connected(d) /\ active'[d] = active[d],
           \A d \in Clients :
              closing'[d] \in Closing =>
                 \/ closing[d] \in Closing /\ closes'[d] = closes[d]
                 \/ closes'[d] = active[d] /\ active[d] # NoSession,
           \A s \in Sessions : stream[s] = "none" => stream'[s] = "none"
    PROVE  Sockets'
<1>t. /\ by \in [Sessions -> Clients] /\ active \in [Clients -> OptSession]
      /\ Sockets /\ MapOwn
    BY DEF ReachableInv, Core, Channels, TypeOK
<1>1. Used'
    BY <1>t DEF Sockets, Used
<1>2. GoneWhenClosing'
    BY DEF GoneWhenClosing
<1>3. Mapped'
    BY <1>t DEF Sockets, Mapped
<1>4. ClosingOwn'
    <2> SUFFICES ASSUME NEW d \in Clients, closing'[d] \in Closing
                 PROVE  closes'[d] \in Sessions /\ Opened(closes[d], d)'
        BY DEF ClosingOwn
    <2>1. closes'[d] \in Sessions /\ Opened(closes'[d], d)
        BY <1>t DEF Sockets, ClosingOwn, MapOwn
    <2> QED
        BY <2>1 DEF StillOpened, Opened
<1> QED
    BY <1>1, <1>2, <1>3, <1>4 DEF Sockets

\* Identities stay when nobody is authenticated and no call gets further.
LEMMA IdentityKept ==
    ASSUME ReachableInv, UNCHANGED <<auth, by>>,
           \A d \in Clients : sock'[d] = "new" => sock[d] = "new",
           \A s \in Sessions : stream[s] = "none" => stream'[s] = "none",
           \A s \in Sessions : start'[s] \in {"access", "connect", "register"} =>
                                  start[s] \in {"access", "connect", "register"}
    PROVE  Identity'
<1>1. Settled'
    BY DEF ReachableInv, Core, Identity, Settled, HasUser
<1>2. Fresh'
    BY DEF ReachableInv, Core, Identity, Fresh
<1> QED
    BY <1>1, <1>2 DEF Identity

\* A disconnection that ends no channel, or one that has ended by itself.
LEMMA HangUpKeepsCore ==
    ASSUME ReachableInv, NEW c \in Clients, NEW user \in BOOLEAN,
           HangUpIfConnected(c, active, user), UNCHANGED <<startVars, active>>,
           \A s \in Sessions : /\ stream'[s] = "open" => stream[s] = "open"
                               /\ stream'[s] = "none" <=> stream[s] = "none"
    PROVE  /\ Sockets' /\ Channels' /\ StillOpened
           /\ \A d \in Clients : sock'[d] = "new" <=> sock[d] = "new"
<1>1. active \in [Clients -> OptSession]
    BY DEF ReachableInv, TypeOK
<1>2. StillOpened
    BY DEF StillOpened
<1>3. Sockets' /\ \A d \in Clients : sock'[d] = "new" <=> sock[d] = "new"
    BY <1>1, <1>2, HangUpReach, SocketsKept
<1>4. StreamsReachable' /\ Unopened' /\ OneBusy'
    BY DEF ReachableInv, Core, Channels, StreamsReachable, Unopened, OneBusy, Busy, Starting
<1>5. MapOwn'
    BY <1>1 DEF ReachableInv, Core, Channels, MapOwn, Opened
<1> QED
    BY <1>2, <1>3, <1>4, <1>5 DEF Channels

\* Cutting off a session of the socket that handles it.
LEMMA KillKeepsCore ==
    ASSUME ReachableInv, NEW c \in Clients, NEW s \in Sessions,
           Opened(s, c), Kill(c, s), UNCHANGED <<auth, startVars>>
    PROVE  Core' /\ StillOpened
<1> DEFINE map == [active EXCEPT ![c] = NoSession]
<1>1. map \in [Clients -> OptSession] /\ map[c] = NoSession
    BY DEF ReachableInv, TypeOK
<1>2. /\ \A d \in Clients : closing'[d] # "none" => sock'[d] = "gone"
      /\ \A d \in Clients : sock'[d] = "new" <=> sock[d] = "new"
      /\ \A d \in Clients : Connected(d)' => Connected(d) /\ d # c
      /\ \A d \in Clients :
            closing'[d] \in Closing =>
               \/ closing[d] \in Closing /\ closes'[d] = closes[d]
               \/ closes'[d] = active[d] /\ active[d] # NoSession
    <2>1. HangUpIfConnected(c, map, HasUser(c)) /\ HasUser(c) \in BOOLEAN
        BY DEF Kill, HasUser
    <2> HIDE DEF map
    <2> QED
        BY <1>1, <2>1, HangUpReach
<1>3. /\ \A x \in Sessions : stream'[x] = IF x = s THEN "cut" ELSE stream[x]
      /\ \A d \in Clients : active'[d] = IF d = c THEN NoSession ELSE active[d]
    BY DEF Kill, ReachableInv, TypeOK
<1>4. by \in [Sessions -> Clients] /\ start' = start /\ by' = by
    BY DEF ReachableInv, TypeOK
<1>5. \A x \in Sessions : stream[x] # "none" /\ by[x] = c => x = s
    BY DEF ReachableInv, Core, Channels, OneBusy, Busy, Opened
<1>6. StillOpened /\ \A x \in Sessions : stream[x] = "none" => stream'[x] = "none"
    BY <1>3, <1>4 DEF StillOpened, Opened
<1>7. Sockets'
    BY <1>2, <1>3, <1>4, <1>6, SocketsKept
<1>8. Identity'
    BY <1>2, <1>4, <1>6, IdentityKept
<1>9. StreamsReachable'
    BY <1>3, <1>4, <1>5 DEF ReachableInv, Core, Channels, StreamsReachable
<1>10. Unopened' /\ OneBusy'
    BY <1>3, <1>4
    DEF ReachableInv, Core, Channels, Unopened, OneBusy, Busy, Starting, Opened
<1>11. MapOwn'
    BY <1>3, <1>4 DEF ReachableInv, Core, Channels, MapOwn, Opened, TypeOK
<1> QED
    BY <1>6, <1>7, <1>8, <1>9, <1>10, <1>11 DEF Core, Channels

\* With the look-ups of the pending handlers, the whole invariant.
LEMMA Rejoin ==
    ASSUME ReachableInv, TypeOK', Core', StillOpened, by' = by,
           \A c \in Clients : checking'[c] \in {checking[c], NoSession, active[c]},
           \A s \in Sessions : polling'[s] \in {polling[s], NoSession, active[by[s]]}
    PROVE  ReachableInv'
<1>1. /\ by \in [Sessions -> Clients] /\ active \in [Clients -> OptSession]
      /\ checking \in [Clients -> OptSession] /\ polling \in [Sessions -> OptSession]
      /\ MapOwn
    BY DEF ReachableInv, Core, Channels, TypeOK
<1>2. CheckingOwn'
    <2> SUFFICES ASSUME NEW c \in Clients, checking'[c] # NoSession
                 PROVE  Opened(checking[c], c)'
        BY DEF CheckingOwn
    <2>1. checking'[c] \in Sessions /\ Opened(checking'[c], c)
        BY <1>1 DEF ReachableInv, CheckingOwn, MapOwn
    <2> QED
        BY <2>1 DEF StillOpened, Opened
<1>3. PollingOwn'
    <2> SUFFICES ASSUME NEW s \in Sessions, polling'[s] # NoSession
                 PROVE  Opened(polling[s], by[s])'
        BY DEF PollingOwn
    <2>1. polling'[s] \in Sessions /\ Opened(polling'[s], by[s])
        BY <1>1 DEF ReachableInv, PollingOwn, MapOwn
    <2> QED
        BY <2>1 DEF StillOpened, Opened
<1> QED
    BY <1>2, <1>3 DEF ReachableInv

LEMMA ReachableInit == Init => ReachableInv
BY TypeInit, NoSessionAssumption
DEF Init, ReachableInv, Core, Sockets, Identity, Channels, StreamsReachable, Unopened,
    OneBusy, Busy, Starting, MapOwn, CheckingOwn, PollingOwn, Closing, ClosingOwn, Mapped,
    Settled, Used, Fresh, GoneWhenClosing, Opened, Connected

\* Steps that leave the sockets, the calls, the map and the channels alone.
LEMMA QuietKeepsCore ==
    ASSUME ReachableInv,
           UNCHANGED <<sock, auth, closeVars, startVars, active, stream>>
    PROVE  Core' /\ StillOpened
BY DEF ReachableInv, Core, StillOpened, Sockets, Identity, Channels, StreamsReachable,
       Unopened, OneBusy, Busy, Starting, MapOwn, Closing, ClosingOwn, Opened, Mapped,
       Settled, HasUser, Used, Fresh, GoneWhenClosing, Connected

\* Steps of a call of start-session that only change where it stands, without
\* going back to where a channel may be opened.
Progress(s) ==
    /\ start[s] \notin {"unused", "register"}
    /\ \A t \in Sessions : t # s => start'[t] = start[t]
    /\ \/ start'[s] \in {"ready", "denied", "failed"}
       \/ start[s] = "access" /\ start'[s] = "connect"
       \/ start[s] = "waiting" /\ start'[s] = "access" /\ HasUser(by[s])

LEMMA ProgressKeepsCore ==
    ASSUME ReachableInv, NEW s \in Sessions, Progress(s),
           UNCHANGED <<sock, auth, closeVars, by, active, stream>>
    PROVE  Core' /\ StillOpened
<1>1. Unopened' /\ StillOpened
    BY DEF ReachableInv, Core, Channels, Unopened, StillOpened, Progress
<1>2. OneBusy'
    BY DEF ReachableInv, Core, Channels, OneBusy, Busy, Starting, Progress
<1>3. StreamsReachable' /\ MapOwn'
    BY DEF ReachableInv, Core, Channels, StreamsReachable, MapOwn, Opened, Progress, TypeOK
<1>4. Used' /\ GoneWhenClosing'
    BY DEF ReachableInv, Core, Sockets, Used, GoneWhenClosing, Progress
<1>5. Mapped'
    BY DEF ReachableInv, Core, Sockets, Mapped, Connected, Progress
<1>6. ClosingOwn'
    BY DEF ReachableInv, Core, Sockets, ClosingOwn, Closing, Opened, Progress
<1>7. Identity'
    BY DEF ReachableInv, Core, Identity, Settled, Fresh, HasUser, Progress
<1> QED
    BY <1>1, <1>2, <1>3, <1>4, <1>5, <1>6, <1>7 DEF Core, Sockets, Channels

\* The end of handleDisconnect, for the session it looked up.
LEMMA DisposeKeepsCore ==
    ASSUME ReachableInv, NEW c \in Clients, closing[c] \in Closing, Dispose(c),
           UNCHANGED <<sock, auth, closes, startVars>>
    PROVE  Core' /\ StillOpened
<1> DEFINE s == closes[c]
<1>1. /\ s \in Sessions /\ Opened(s, c) /\ sock[c] = "gone"
    BY DEF ReachableInv, Core, Sockets, ClosingOwn, GoneWhenClosing, Closing
<1>2. /\ \A x \in Sessions :
            stream'[x] = IF x = s THEN IF stream[s] = "cut" THEN "cut" ELSE "ended"
                                  ELSE stream[x]
      /\ \A d \in Clients : active'[d] = IF d = c THEN NoSession ELSE active[d]
      /\ \A d \in Clients : closing'[d] = IF d = c THEN "done" ELSE closing[d]
    BY DEF Dispose, ReachableInv, TypeOK
<1> HIDE DEF s
<1>3. by \in [Sessions -> Clients] /\ active \in [Clients -> OptSession]
    BY DEF ReachableInv, TypeOK
<1>4. \A x \in Sessions : stream[x] # "none" /\ by[x] = c => x = s
    BY <1>1 DEF ReachableInv, Core, Channels, OneBusy, Busy, Opened
<1>5. StillOpened /\ \A x \in Sessions : stream[x] = "none" <=> stream'[x] = "none"
    BY <1>1, <1>2 DEF StillOpened, Opened
<1>6. Sockets'
    <2>1. \A d \in Clients : closing'[d] # "none" => sock'[d] = "gone"
        BY <1>1, <1>2 DEF ReachableInv, Core, Sockets, GoneWhenClosing
    <2>2. \A d \in Clients : Connected(d)' => Connected(d) /\ active'[d] = active[d]
        BY <1>1, <1>2 DEF Connected
    <2>3. \A d \in Clients :
             closing'[d] \in Closing => closing[d] \in Closing /\ closes'[d] = closes[d]
        BY <1>2 DEF Closing
    <2> QED
        BY <1>5, <2>1, <2>2, <2>3, SocketsKept
<1>7. Identity'
    BY <1>5, IdentityKept
<1>8. StreamsReachable'
    BY <1>2, <1>3, <1>4 DEF ReachableInv, Core, Channels, StreamsReachable
<1>9. Unopened' /\ OneBusy'
    BY <1>5 DEF ReachableInv, Core, Channels, Unopened, OneBusy, Busy, Starting
<1>10. MapOwn'
    BY <1>2, <1>3, <1>5 DEF ReachableInv, Core, Channels, MapOwn, Opened
<1> QED
    BY <1>5, <1>6, <1>7, <1>8, <1>9, <1>10 DEF Core, Channels

\* handleConnection, handleDisconnect and the input handlers keep the invariant.
LEMMA ReachableClient ==
    ASSUME ReachableInv, TypeOK', NEW c \in Clients, ClientStep(c)
    PROVE  ReachableInv'
<1>a. /\ TypeOK /\ startVars' = startVars /\ polling' = polling
    BY DEF ReachableInv, ClientStep, Connect, Reject, Authenticate, AskAccess,
           AccessAnswered, AccessUnknown, Disconnect, LogClosed, Finalise, CloseFails
<1>b. ASSUME Core', StillOpened, checking' = checking PROVE ReachableInv'
    BY <1>a, <1>b, Rejoin
<1>1. CASE Connect(c)
    <2>1. /\ sock[c] = "new" /\ auth[c] = "none"
          /\ sock' = [sock EXCEPT ![c] = "connected"]
          /\ auth' = [auth EXCEPT ![c] = "checking"]
          /\ UNCHANGED <<active, stream, closeVars, startVars, checking>>
        BY <1>1 DEF Connect, ReachableInv, Core, Identity, Fresh
    <2>2. \A s \in Sessions : by[s] = c =>
             /\ start[s] = "unused" /\ stream[s] = "none"
        BY <2>1 DEF ReachableInv, Core, Sockets, Used, Channels, Unopened
    <2>3. Mapped' /\ Used' /\ GoneWhenClosing'
        BY <1>a, <2>1, <2>2
        DEF ReachableInv, Core, Sockets, TypeOK, Mapped, Used, GoneWhenClosing, Connected
    <2>4. Identity'
        BY <1>a, <2>1, <2>2
        DEF ReachableInv, Core, Identity, TypeOK, Settled, Fresh, HasUser
    <2>5. Core' /\ StillOpened
        BY <2>1, <2>3, <2>4
        DEF ReachableInv, Core, StillOpened, Sockets, Channels, StreamsReachable, Unopened,
            OneBusy, Busy, Starting, MapOwn, Closing, ClosingOwn, Opened
    <2> QED
        BY <1>b, <2>1, <2>5
<1>2. CASE Reject(c)
    <2>1. /\ auth[c] = "checking" /\ auth' = [auth EXCEPT ![c] = "failed"]
          /\ HangUpIfConnected(c, active, FALSE)
          /\ UNCHANGED <<active, stream, startVars, checking>>
        BY <1>2 DEF Reject
    <2>2. /\ Sockets' /\ Channels' /\ StillOpened
          /\ \A d \in Clients : sock'[d] = "new" <=> sock[d] = "new"
        BY <2>1, HangUpKeepsCore
    <2>3. Identity'
        BY <1>a, <2>1, <2>2
        DEF ReachableInv, Core, Identity, TypeOK, Settled, Fresh, HasUser
    <2> QED
        BY <1>b, <2>1, <2>2, <2>3 DEF Core
<1>3. CASE Authenticate(c)
    <2>1. /\ auth[c] = "checking"
          /\ UNCHANGED <<active, stream, startVars, checking>>
        BY <1>3 DEF Authenticate
    <2>2. /\ Sockets' /\ Channels' /\ StillOpened
          /\ \A d \in Clients : sock'[d] = "new" <=> sock[d] = "new"
        <3>1. CASE slots[Owner[c]] >= MaxSessions
            <4>1. HangUpIfConnected(c, active, TRUE)
                BY <1>3, <3>1 DEF Authenticate
            <4> QED
                BY <2>1, <4>1, HangUpKeepsCore
        <3>2. CASE ~(slots[Owner[c]] >= MaxSessions)
            <4>1. UNCHANGED <<sock, closeVars>>
                BY <1>3, <3>2 DEF Authenticate
            <4> QED
                BY <2>1, <4>1
                DEF ReachableInv, Core, StillOpened, Sockets, Channels, StreamsReachable,
                    Unopened, OneBusy, Busy, Starting, MapOwn, Closing, ClosingOwn, Opened,
                    Mapped, Used, GoneWhenClosing, Connected
        <3> QED
            BY <3>1, <3>2
    <2>3. \/ auth' = [auth EXCEPT ![c] = "over"]
          \/ auth' = [auth EXCEPT ![c] = "in"]
        BY <1>3 DEF Authenticate
    <2>4. Identity'
        BY <1>a, <2>1, <2>2, <2>3
        DEF ReachableInv, Core, Identity, TypeOK, Settled, Fresh, HasUser
    <2> QED
        BY <1>b, <2>1, <2>2, <2>4 DEF Core
<1>4. CASE AskAccess(c)
    <2>1. Core' /\ StillOpened
        BY <1>4, QuietKeepsCore DEF AskAccess
    <2>2. \A d \in Clients : checking'[d] \in {checking[d], active[d]}
        BY <1>4, <1>a DEF AskAccess, TypeOK
    <2> QED
        BY <1>a, <2>1, <2>2, Rejoin
<1>5. CASE AccessAnswered(c)
    <2>1. checking[c] \in Sessions /\ Opened(checking[c], c)
        BY <1>5 DEF AccessAnswered, ReachableInv, TypeOK, CheckingOwn
    <2>2. Core' /\ StillOpened
        <3>1. CASE HasAccess(c)
            BY <1>5, <3>1, QuietKeepsCore DEF AccessAnswered
        <3>2. CASE ~HasAccess(c)
            BY <1>5, <2>1, <3>2, KillKeepsCore DEF AccessAnswered
        <3> QED
            BY <3>1, <3>2
    <2>3. \A d \in Clients : checking'[d] \in {checking[d], NoSession}
        BY <1>5, <1>a DEF AccessAnswered, TypeOK
    <2> QED
        BY <1>a, <2>2, <2>3, Rejoin
<1>6. CASE AccessUnknown(c)
    <2>1. Core' /\ StillOpened
        BY <1>6, QuietKeepsCore DEF AccessUnknown
    <2>2. \A d \in Clients : checking'[d] \in {checking[d], NoSession}
        BY <1>6, <1>a DEF AccessUnknown, TypeOK
    <2> QED
        BY <1>a, <2>1, <2>2, Rejoin
<1>7. CASE Disconnect(c)
    <2>1. /\ HangUpIfConnected(c, active, HasUser(c)) /\ HasUser(c) \in BOOLEAN
          /\ UNCHANGED <<auth, active, stream, startVars, checking>>
        BY <1>7 DEF Disconnect, Drop, HangUpIfConnected, HasUser
    <2>2. /\ Sockets' /\ Channels' /\ StillOpened
          /\ \A d \in Clients : sock'[d] = "new" <=> sock[d] = "new"
        BY <2>1, HangUpKeepsCore
    <2>3. Identity'
        BY <2>1, <2>2, IdentityKept
    <2> QED
        BY <1>b, <2>1, <2>2, <2>3 DEF Core
<1>8. CASE LogClosed(c)
    <2>1. /\ closing[c] = "audit" /\ checking' = checking
          /\ UNCHANGED <<sock, auth, closes, startVars>>
        BY <1>8 DEF LogClosed
    <2>2. CASE row[closes[c]] # "none"
        <3>1. /\ closing' = [closing EXCEPT ![c] = "finalise"]
              /\ UNCHANGED <<active, stream>>
            BY <1>8, <2>2 DEF LogClosed
        <3>2. GoneWhenClosing' /\ ClosingOwn'
            BY <1>a, <2>1, <3>1
            DEF ReachableInv, Core, Sockets, TypeOK, GoneWhenClosing, ClosingOwn, Closing,
                Opened
        <3>3. Core' /\ StillOpened
            BY <2>1, <3>1, <3>2
            DEF ReachableInv, Core, StillOpened, Sockets, Identity, Channels,
                StreamsReachable, Unopened, OneBusy, Busy, Starting, MapOwn, Opened, Mapped,
                Settled, HasUser, Used, Fresh, Connected
        <3> QED
            BY <1>b, <2>1, <3>3
    <2>3. CASE row[closes[c]] = "none"
        <3>1. Dispose(c)
            BY <1>8, <2>3 DEF LogClosed
        <3> QED
            BY <1>b, <2>1, <3>1, DisposeKeepsCore DEF Closing
    <2> QED
        BY <2>2, <2>3
<1>9. CASE Finalise(c)
    BY <1>9, <1>b, DisposeKeepsCore DEF Finalise, Closing
<1>10. CASE CloseFails(c)
    <2>1. /\ closing[c] = "audit" /\ closing' = [closing EXCEPT ![c] = "failed"]
          /\ UNCHANGED <<sock, auth, closes, startVars, active, stream, checking>>
        BY <1>10 DEF CloseFails
    <2>2. GoneWhenClosing' /\ ClosingOwn'
        BY <1>a, <2>1
        DEF ReachableInv, Core, Sockets, TypeOK, GoneWhenClosing, ClosingOwn, Closing, Opened
    <2>3. Core' /\ StillOpened
        BY <2>1, <2>2
        DEF ReachableInv, Core, StillOpened, Sockets, Identity, Channels,
            StreamsReachable, Unopened, OneBusy, Busy, Starting, MapOwn, Opened, Mapped,
            Settled, HasUser, Used, Fresh, Connected
    <2> QED
        BY <1>b, <2>1, <2>3
<1> QED
    BY <1>1, <1>2, <1>3, <1>4, <1>5, <1>6, <1>7, <1>8, <1>9, <1>10
    DEF ClientStep

\* A session enters the map: its channel has just opened, or its row is there.
LEMMA EnterKeepsCore ==
    ASSUME ReachableInv, NEW s \in Sessions,
           start[s] \in {"connect", "register"},
           start' = [start EXCEPT ![s] = "announce"],
           active' = [active EXCEPT ![by[s]] = s],
           \/ start[s] = "connect" /\ stream' = [stream EXCEPT ![s] = "open"]
           \/ start[s] = "register" /\ stream[s] # "none" /\ stream' = stream,
           UNCHANGED <<sock, auth, closeVars, by>>
    PROVE  Core' /\ StillOpened
<1>1. by \in [Sessions -> Clients] /\ active \in [Clients -> OptSession] /\ by[s] \in Clients
    BY DEF ReachableInv, TypeOK
<1>2. /\ \A t \in Sessions : start'[t] = IF t = s THEN "announce" ELSE start[t]
      /\ \A t \in Sessions : t # s => stream'[t] = stream[t]
      /\ stream'[s] # "none"
      /\ \A d \in Clients : active'[d] = IF d = by[s] THEN s ELSE active[d]
    BY DEF ReachableInv, TypeOK
<1>3. \A t \in Sessions : t # s /\ by[t] = by[s] => ~Busy(t)
    BY DEF ReachableInv, Core, Channels, OneBusy, Busy, Starting
<1>4. StillOpened
    BY <1>2 DEF StillOpened
<1>5. StreamsReachable' /\ Mapped'
    BY <1>1, <1>2, <1>3
    DEF ReachableInv, Core, Sockets, Channels, StreamsReachable, Mapped, Busy, Connected
<1>6. Unopened' /\ OneBusy'
    BY <1>2, <1>3 DEF ReachableInv, Core, Channels, Unopened, OneBusy, Busy, Starting
<1>7. MapOwn'
    BY <1>1, <1>2 DEF ReachableInv, Core, Channels, MapOwn, Opened
<1>8. Used' /\ GoneWhenClosing' /\ ClosingOwn'
    BY <1>2
    DEF ReachableInv, Core, Sockets, Used, GoneWhenClosing, ClosingOwn, Closing, Opened
<1>9. Identity'
    BY <1>2 DEF ReachableInv, Core, Identity, Settled, Fresh, HasUser
<1> QED
    BY <1>4, <1>5, <1>6, <1>7, <1>8, <1>9 DEF Core, Sockets, Channels

\* handleStartSession, the timers of a session and guacd keep the invariant.
LEMMA ReachableSession ==
    ASSUME ReachableInv, TypeOK', NEW s \in Sessions, SessionStep(s),
           "register_failure" \notin Environment
    PROVE  ReachableInv'
<1>a. /\ TypeOK /\ by' = by /\ checking' = checking
    BY DEF ReachableInv, SessionStep, RequestSession, StartSession, CheckAccess, OpenStream,
           Register, Announce, StartFails, CacheExpires, PollFires, PollAnswered, PollErrs,
           RemoteCloses
<1>b. ASSUME Core', StillOpened, polling' = polling PROVE ReachableInv'
    BY <1>a, <1>b, Rejoin
<1>1. CASE RequestSession(s)
    <2>1. /\ start[s] = "unused" /\ Connected(by[s])
          /\ \A t \in Starting : by[t] # by[s]
          /\ \A t \in Sessions : t # s => start'[t] = start[t]
          /\ UNCHANGED <<sock, auth, closeVars, by, active, stream, polling>>
        BY <1>1, <1>a DEF RequestSession, TypeOK
    <2>2. \/ start'[s] = "waiting" /\ auth[by[s]] = "checking"
          \/ start'[s] = "access" /\ HasUser(by[s]) /\ active[by[s]] = NoSession
          \/ start'[s] = "failed"
        BY <1>1, <1>a DEF RequestSession, Admission, TypeOK
    <2>3. stream[s] = "none"
        BY <2>1 DEF ReachableInv, Core, Channels, Unopened
    <2>4. start'[s] # "failed" => \A t \in Sessions : by[t] = by[s] => ~Busy(t)
        BY <2>1, <2>2, NoSessionAssumption
        DEF Busy, Starting, ReachableInv, Core, Sockets, Identity, Mapped, Settled, HasUser
    <2>5. Unopened' /\ StillOpened
        BY <2>1, <2>2, <2>3 DEF ReachableInv, Core, Channels, Unopened, StillOpened
    <2>6. OneBusy'
        BY <2>1, <2>2, <2>3, <2>4 DEF ReachableInv, Core, Channels, OneBusy, Busy, Starting
    <2>7. StreamsReachable' /\ MapOwn'
        BY <1>a, <2>1, <2>2, <2>3
        DEF ReachableInv, Core, Channels, StreamsReachable, MapOwn, Opened, TypeOK
    <2>8. Used' /\ GoneWhenClosing' /\ ClosingOwn'
        BY <2>1, <2>2, <2>3
        DEF ReachableInv, Core, Sockets, Used, GoneWhenClosing, ClosingOwn, Closing, Opened,
            Connected
    <2>9. Mapped'
        BY <2>1, <2>2, <2>3 DEF ReachableInv, Core, Sockets, Mapped, Connected
    <2>10. Identity'
        BY <2>1, <2>2 DEF ReachableInv, Core, Identity, Settled, Fresh, HasUser
    <2>11. Core' /\ StillOpened
        BY <2>5, <2>6, <2>7, <2>8, <2>9, <2>10 DEF Core, Sockets, Channels
    <2> QED
        BY <1>b, <2>1, <2>11
<1>2. CASE StartSession(s)
    <2>1. Progress(s)
        BY <1>2, <1>a DEF StartSession, Admission, TypeOK, Progress
    <2> QED
        BY <1>2, <1>b, <2>1, ProgressKeepsCore DEF StartSession
<1>3. CASE CheckAccess(s)
    <2>1. Progress(s)
        BY <1>3, <1>a DEF CheckAccess, TypeOK, Progress
    <2> QED
        BY <1>3, <1>b, <2>1, ProgressKeepsCore DEF CheckAccess
<1>4. CASE OpenStream(s)
    <2>1. /\ start[s] = "connect" /\ stream' = [stream EXCEPT ![s] = "open"]
          /\ UNCHANGED <<sock, auth, closeVars, by, polling>>
        BY <1>4 DEF OpenStream
    <2>2. CASE start' = [start EXCEPT ![s] = "announce"] /\ active' = [active EXCEPT ![by[s]] = s]
        BY <1>b, <2>1, <2>2, EnterKeepsCore
    <2>3. CASE start' = [start EXCEPT ![s] = "register"] /\ active' = active
        <3>1. /\ \A t \in Sessions : start'[t] = IF t = s THEN "register" ELSE start[t]
              /\ \A t \in Sessions : stream'[t] = IF t = s THEN "open" ELSE stream[t]
              /\ stream[s] = "none"
            BY <1>a, <2>1, <2>3 DEF TypeOK, ReachableInv, Core, Channels, Unopened
        <3>2. StillOpened /\ Unopened' /\ OneBusy'
            BY <2>1, <3>1
            DEF StillOpened, ReachableInv, Core, Channels, Unopened, OneBusy, Busy, Starting
        <3>3. StreamsReachable' /\ MapOwn'
            BY <1>a, <2>1, <2>3, <3>1
            DEF ReachableInv, Core, Channels, StreamsReachable, MapOwn, Opened, TypeOK
        <3>4. Sockets'
            BY <2>1, <2>3, <3>1
            DEF ReachableInv, Core, Sockets, Used, GoneWhenClosing, Mapped, ClosingOwn,
                Closing, Opened, Connected
        <3>5. Identity'
            BY <2>1, <3>1 DEF ReachableInv, Core, Identity, Settled, Fresh, HasUser
        <3> QED
            BY <1>b, <2>1, <3>2, <3>3, <3>4, <3>5 DEF Core, Channels
    <2> QED
        BY <1>4, <2>2, <2>3 DEF OpenStream
<1>5. CASE Register(s)
    <2>1. /\ start[s] = "register" /\ start' = [start EXCEPT ![s] = "announce"]
          /\ active' = [active EXCEPT ![by[s]] = s]
          /\ UNCHANGED <<sock, auth, closeVars, by, stream, polling>>
        BY <1>5 DEF Register
    <2>2. stream[s] # "none"
        BY <2>1 DEF ReachableInv, Core, Channels, Unopened
    <2> QED
        BY <1>b, <2>1, <2>2, EnterKeepsCore
<1>6. CASE Announce(s)
    <2>1. Progress(s)
        BY <1>6, <1>a DEF Announce, TypeOK, Progress
    <2> QED
        BY <1>6, <1>b, <2>1, ProgressKeepsCore DEF Announce
<1>7. CASE StartFails(s)
    <2>1. Progress(s)
        BY <1>7, <1>a DEF StartFails, TypeOK, Progress
    <2> QED
        BY <1>7, <1>b, <2>1, ProgressKeepsCore DEF StartFails
<1>8. CASE CacheExpires(s)
    BY <1>8, <1>b, QuietKeepsCore DEF CacheExpires
<1>9. CASE PollFires(s)
    <2>1. \A t \in Sessions : polling'[t] \in {polling[t], active[by[t]]}
        BY <1>9, <1>a DEF PollFires, TypeOK
    <2> QED
        BY <1>9, <1>a, <2>1, QuietKeepsCore, Rejoin DEF PollFires
<1>10. CASE PollAnswered(s)
    <2>1. /\ polling[s] \in Sessions /\ by[s] \in Clients
          /\ Opened(polling[s], by[s])
        BY <1>10 DEF PollAnswered, ReachableInv, TypeOK, PollingOwn
    <2>2. \A t \in Sessions : polling'[t] \in {polling[t], NoSession}
        BY <1>10, <1>a DEF PollAnswered, TypeOK
    <2>3. Core' /\ StillOpened
        <3>1. CASE Revoked(by[s])
            BY <1>10, <2>1, <3>1, KillKeepsCore DEF PollAnswered
        <3>2. CASE ~Revoked(by[s])
            BY <1>10, <3>2, QuietKeepsCore DEF PollAnswered
        <3> QED
            BY <3>1, <3>2
    <2> QED
        BY <1>a, <2>2, <2>3, Rejoin
<1>11. CASE PollErrs(s)
    <2>1. \A t \in Sessions : polling'[t] \in {polling[t], NoSession}
        BY <1>11, <1>a DEF PollErrs, TypeOK
    <2> QED
        BY <1>11, <1>a, <2>1, QuietKeepsCore, Rejoin DEF PollErrs
<1>12. CASE RemoteCloses(s)
    <2>1. /\ \A t \in Sessions : /\ stream'[t] = "open" => stream[t] = "open"
                                 /\ stream'[t] = "none" <=> stream[t] = "none"
          /\ by[s] \in Clients /\ HasUser(by[s]) \in BOOLEAN
          /\ UNCHANGED <<startVars, active, auth, polling>>
        BY <1>12, <1>a DEF RemoteCloses, TypeOK, HasUser
    <2>2. /\ Sockets' /\ Channels' /\ StillOpened
          /\ \A d \in Clients : sock'[d] = "new" <=> sock[d] = "new"
        <3>1. CASE start[s] = "ready" /\ Connected(by[s])
            <4>1. HangUpIfConnected(by[s], active, HasUser(by[s]))
                BY <1>12, <3>1 DEF RemoteCloses, Drop, HangUpIfConnected
            <4> QED
                BY <2>1, <4>1, HangUpKeepsCore
        <3>2. CASE ~(start[s] = "ready" /\ Connected(by[s]))
            <4>1. UNCHANGED <<sock, closeVars>>
                BY <1>12, <3>2 DEF RemoteCloses
            <4> QED
                BY <2>1, <4>1
                DEF ReachableInv, Core, StillOpened, Sockets, Channels, StreamsReachable,
                    Unopened, OneBusy, Busy, Starting, MapOwn, Closing, ClosingOwn, Opened,
                    Mapped, Used, GoneWhenClosing, Connected, TypeOK
        <3> QED
            BY <3>1, <3>2
    <2>3. Identity'
        BY <2>1, <2>2, IdentityKept
    <2> QED
        BY <1>b, <2>1, <2>2, <2>3 DEF Core
<1> QED
    BY <1>1, <1>2, <1>3, <1>4, <1>5, <1>6, <1>7, <1>8, <1>9, <1>10, <1>11, <1>12
    DEF SessionStep

LEMMA ReachableNext ==
    ASSUME ReachableInv, [Next]_vars, "register_failure" \notin Environment
    PROVE  ReachableInv'
<1>1. TypeOK'
    BY TypeNext DEF ReachableInv
<1>2. ASSUME NEW c \in Clients, ClientStep(c) PROVE ReachableInv'
    BY <1>1, <1>2, ReachableClient
<1>3. ASSUME NEW s \in Sessions, SessionStep(s) PROVE ReachableInv'
    BY <1>1, <1>3, ReachableSession
<1>4. ASSUME NEW u \in Users, AdminStep(u) PROVE ReachableInv'
    BY <1>1, <1>4, QuietKeepsCore, Rejoin
    DEF AdminStep, RevokeAccess, GrantAccess, RevokeTokens
<1>5. CASE UNCHANGED vars
    BY <1>1, <1>5, QuietKeepsCore, Rejoin DEF vars
<1> QED
    BY <1>2, <1>3, <1>4, <1>5 DEF Next

\* For any number of sockets, accounts and sessions, with sockets that drop while
\* they authenticate and audit events that cannot be logged: while the rows of
\* recordings can be inserted, every registered channel that is open is the one
\* the map holds for its socket.
THEOREM StreamsReachableHolds ==
    ASSUME "register_failure" \notin Environment
    PROVE  Spec => []StreamsReachable
<1>1. ReachableInv /\ [Next]_vars => ReachableInv'
    BY ReachableNext
<1>2. ReachableInv => StreamsReachable
    BY DEF ReachableInv, Core, Channels
<1> QED
    BY ReachableInit, <1>1, <1>2, PTL DEF Spec

-----------------------------------------------------------------------------
(* Ends are audited                                                        *)

\* What is announced, or about to be, has a channel.
Announced == \A s \in Sessions :
    start[s] = "announce" \/ "STARTED" \in trail[s] => stream[s] # "none"

\* A channel past sessions.set and off the map was cut, or logged as closed.
Accounted == \A s \in Sessions :
    stream[s] \notin {"none", "cut"} /\ start[s] # "register" /\ active[by[s]] # s
        => "CLOSED" \in trail[s]

\* handleDisconnect logs before it finalises the row.
LoggedFirst == \A c \in Clients : closing[c] = "finalise" => "CLOSED" \in trail[closes[c]]

EndsInv == ReachableInv /\ Announced /\ Accounted /\ LoggedFirst

\* The trails only grow, by announcements of sessions that are being announced.
Grows == \A t \in Sessions : /\ trail[t] \subseteq trail'[t]
                             /\ "STARTED" \in trail'[t] => "STARTED" \in trail[t]
\* No row comes to be finalised.
NoneFinalised == \A d \in Clients : closing'[d] = "finalise" => closing[d] = "finalise"
                                                                /\ closes'[d] = closes[d]

\* Sockets come and go, channels end by themselves: the map and the trails stay.
LEMMA QuietKeepsEnds ==
    ASSUME EndsInv, UNCHANGED <<startVars, active>>, Grows, NoneFinalised,
           \A s \in Sessions : \/ stream'[s] = stream[s]
                               \/ stream[s] = "open" /\ stream'[s] = "ended"
    PROVE  Announced' /\ Accounted' /\ LoggedFirst'
<1>1. \A s \in Sessions : /\ start'[s] = start[s] /\ by'[s] = by[s]
                          /\ stream[s] = "open" /\ start[s] # "register" => active[by[s]] = s
    BY DEF EndsInv, ReachableInv, Core, Channels, StreamsReachable, startVars
<1>2. \A d \in Clients : closing[d] = "finalise" => closes[d] \in Sessions
    BY DEF EndsInv, ReachableInv, Core, Sockets, ClosingOwn, Closing
<1> QED
    BY <1>1, <1>2 DEF EndsInv, Announced, Accounted, LoggedFirst, Grows, NoneFinalised

\* A session is off the map: its channel was cut, or logged as closed.  No other
\* session of the socket has one.
LEMMA LeaveKeepsEnds ==
    ASSUME EndsInv, NEW c \in Clients, NEW s \in Sessions, Opened(s, c),
           stream' \in {[stream EXCEPT ![s] = "cut"], [stream EXCEPT ![s] = "ended"]},
           active' = [active EXCEPT ![c] = NoSession],
           stream'[s] = "ended" => "CLOSED" \in trail'[s],
           UNCHANGED startVars, Grows, NoneFinalised
    PROVE  Announced' /\ Accounted' /\ LoggedFirst'
<1>1. TypeOK /\ OneBusy /\ \A d \in Clients : closing[d] = "finalise" => closes[d] \in Sessions
    BY DEF EndsInv, ReachableInv, Core, Channels, Sockets, ClosingOwn, Closing
<1>2. \A t \in Sessions : stream[t] # "none" /\ by[t] = c => t = s
    BY <1>1 DEF OneBusy, Busy, Opened
<1>3. /\ \A t \in Sessions : /\ t # s => stream'[t] = stream[t]
                             /\ start'[t] = start[t] /\ by'[t] = by[t]
      /\ stream'[s] \in {"cut", "ended"} /\ stream[s] # "none"
      /\ \A d \in Clients : d # c => active'[d] = active[d]
    BY <1>1 DEF TypeOK, startVars, Opened
<1>4. Announced'
    BY <1>3 DEF EndsInv, Announced, Grows
<1>5. Accounted'
    <2>1. \A t \in Sessions : t # s /\ stream[t] # "none" => by[t] # c /\ by[t] \in Clients
        BY <1>1, <1>2 DEF TypeOK
    <2> QED
        BY <1>3, <2>1 DEF EndsInv, Accounted, Grows
<1>6. LoggedFirst'
    BY <1>1 DEF EndsInv, LoggedFirst, Grows, NoneFinalised
<1> QED
    BY <1>4, <1>5, <1>6

LEMMA KillKeepsEnds ==
    ASSUME EndsInv, NEW c \in Clients, NEW s \in Sessions, Opened(s, c), Kill(c, s),
           UNCHANGED startVars, Grows
    PROVE  Announced' /\ Accounted' /\ LoggedFirst'
<1>1. /\ stream' = [stream EXCEPT ![s] = "cut"]
      /\ active' = [active EXCEPT ![c] = NoSession]
      /\ HangUpIfConnected(c, [active EXCEPT ![c] = NoSession], HasUser(c))
    BY DEF Kill
<1>2. TypeOK /\ stream'[s] = "cut"
    BY <1>1 DEF EndsInv, ReachableInv, TypeOK
<1>3. NoneFinalised
    BY <1>1, <1>2 DEF HangUpIfConnected, HangUp, NoneFinalised, closeVars, TypeOK
<1> QED
    BY <1>1, <1>2, <1>3, LeaveKeepsEnds

\* The end of handleDisconnect, once the event is logged.
LEMMA DisposeKeepsEnds ==
    ASSUME EndsInv, NEW c \in Clients, closing[c] \in {"audit", "finalise"}, Dispose(c),
           "CLOSED" \in trail'[closes[c]], UNCHANGED <<startVars, closes>>, Grows
    PROVE  Announced' /\ Accounted' /\ LoggedFirst'
<1>1. TypeOK /\ closes[c] \in Sessions /\ Opened(closes[c], c)
    BY DEF EndsInv, ReachableInv, Core, Sockets, ClosingOwn, Closing
<1>2. stream' \in {[stream EXCEPT ![closes[c]] = "cut"], [stream EXCEPT ![closes[c]] = "ended"]}
    BY <1>1 DEF Dispose
<1>3. NoneFinalised
    BY <1>1 DEF Dispose, NoneFinalised, TypeOK
<1>4. active' = [active EXCEPT ![c] = NoSession]
    BY DEF Dispose
<1> QED
    BY <1>1, <1>2, <1>3, <1>4, LeaveKeepsEnds

LEMMA EndsInit == Init => EndsInv
BY ReachableInit DEF Init, EndsInv, Announced, Accounted, LoggedFirst

LEMMA EndsClient ==
    ASSUME EndsInv, NEW c \in Clients, ClientStep(c)
    PROVE  Announced' /\ Accounted' /\ LoggedFirst'
<1>a. TypeOK /\ ReachableInv
    BY DEF EndsInv, ReachableInv
<1>1. CASE Connect(c) \/ AskAccess(c) \/ AccessUnknown(c) \/ CloseFails(c)
    <2>1. NoneFinalised
        BY <1>a, <1>1
        DEF Connect, AskAccess, AccessUnknown, CloseFails, TypeOK, NoneFinalised, closeVars
    <2> QED
        BY <1>1, <2>1, QuietKeepsEnds
        DEF Connect, AskAccess, AccessUnknown, CloseFails, Grows
<1>2. CASE Reject(c) \/ Authenticate(c) \/ Disconnect(c)
    <2>1. NoneFinalised
        BY <1>a, <1>2
        DEF Reject, Authenticate, Disconnect, Drop, HangUpIfConnected, HangUp, NoneFinalised,
            closeVars, TypeOK
    <2> QED
        BY <1>2, <2>1, QuietKeepsEnds DEF Reject, Authenticate, Disconnect, Grows
<1>3. CASE AccessAnswered(c)
    <2>1. Grows
        BY <1>3 DEF AccessAnswered, Grows
    <2>2. CASE HasAccess(c)
        <3>1. NoneFinalised
            BY <1>3, <2>2 DEF AccessAnswered, NoneFinalised, closeVars
        <3> QED
            BY <1>3, <2>1, <2>2, <3>1, QuietKeepsEnds DEF AccessAnswered
    <2>3. CASE ~HasAccess(c)
        <3>1. checking[c] \in Sessions /\ Opened(checking[c], c)
            BY <1>3, <1>a DEF AccessAnswered, TypeOK, ReachableInv, CheckingOwn
        <3> QED
            BY <1>3, <2>1, <2>3, <3>1, KillKeepsEnds DEF AccessAnswered
    <2> QED
        BY <2>2, <2>3
<1>4. CASE LogClosed(c)
    <2>1. /\ closing[c] = "audit" /\ closes[c] \in Sessions
          /\ trail' = [trail EXCEPT ![closes[c]] = @ \cup {"CLOSED"}]
          /\ UNCHANGED <<startVars, closes>>
        BY <1>4, <1>a DEF LogClosed, ReachableInv, Core, Sockets, ClosingOwn, Closing
    <2>2. Grows /\ "CLOSED" \in trail'[closes[c]]
        BY <1>a, <2>1 DEF Grows, TypeOK
    <2>3. CASE row[closes[c]] # "none"
        BY <1>4, <1>a, <2>1, <2>2, <2>3
        DEF LogClosed, EndsInv, Announced, Accounted, LoggedFirst, Grows, startVars, TypeOK,
            ReachableInv, Core, Sockets, ClosingOwn, Closing
    <2>4. CASE row[closes[c]] = "none"
        BY <1>4, <2>1, <2>2, <2>4, DisposeKeepsEnds DEF LogClosed
    <2> QED
        BY <2>3, <2>4
<1>5. CASE Finalise(c)
    <2>1. Grows /\ "CLOSED" \in trail'[closes[c]]
        BY <1>5 DEF Finalise, Grows, EndsInv, LoggedFirst
    <2> QED
        BY <1>5, <2>1, DisposeKeepsEnds DEF Finalise
<1> QED
    BY <1>1, <1>2, <1>3, <1>4, <1>5 DEF ClientStep

LEMMA EndsSession ==
    ASSUME EndsInv, NEW s \in Sessions, SessionStep(s), "register_failure" \notin Environment
    PROVE  Announced' /\ Accounted' /\ LoggedFirst'
<1>a. TypeOK /\ ReachableInv /\ by[s] \in Clients
    BY DEF EndsInv, ReachableInv, TypeOK
<1>b. \A d \in Clients : closing[d] = "finalise" => closes[d] \in Sessions
    BY <1>a DEF ReachableInv, Core, Sockets, ClosingOwn, Closing
<1>1. CASE RequestSession(s) \/ StartSession(s) \/ CheckAccess(s) \/ StartFails(s)
    <2>1. /\ start' = [start EXCEPT ![s] = start'[s]]
          /\ start'[s] \in {"waiting", "access", "connect", "denied", "failed"}
          /\ start[s] # "register"
          /\ UNCHANGED <<by, stream, active, trail, closeVars>>
        BY <1>1, <1>a
        DEF RequestSession, StartSession, CheckAccess, StartFails, Admission, TypeOK
    <2> QED
        BY <1>a, <2>1
        DEF EndsInv, Announced, Accounted, LoggedFirst, closeVars, TypeOK
<1>2. CASE OpenStream(s)
    <2>1. stream[s] = "none" /\ \A t \in Sessions : stream[t] # "none" => by[t] # by[s]
        BY <1>2, <1>a
        DEF OpenStream, ReachableInv, Core, Channels, Unopened, OneBusy, Busy, Starting
    <2>2. Announced'
        BY <1>2, <1>a DEF OpenStream, EndsInv, Announced, TypeOK
    <2>3. Accounted'
        BY <1>2, <1>a, <2>1 DEF OpenStream, EndsInv, Accounted, TypeOK
    <2>4. LoggedFirst'
        BY <1>2 DEF OpenStream, EndsInv, LoggedFirst, closeVars
    <2> QED
        BY <2>2, <2>3, <2>4
<1>3. CASE Register(s)
    <2>1. stream[s] # "none" /\ \A t \in Sessions : stream[t] # "none" /\ by[t] = by[s] => t = s
        BY <1>3, <1>a
        DEF Register, ReachableInv, Core, Channels, Unopened, OneBusy, Busy
    <2>2. Announced'
        BY <1>3, <1>a, <2>1 DEF Register, EndsInv, Announced, TypeOK
    <2>3. Accounted'
        BY <1>3, <1>a, <2>1 DEF Register, EndsInv, Accounted, TypeOK
    <2>4. LoggedFirst'
        BY <1>3 DEF Register, EndsInv, LoggedFirst, closeVars
    <2> QED
        BY <2>2, <2>3, <2>4
<1>4. CASE Announce(s)
    BY <1>4, <1>a, <1>b
    DEF Announce, EndsInv, Announced, Accounted, LoggedFirst, closeVars, TypeOK
<1>5. CASE CacheExpires(s) \/ PollFires(s) \/ PollErrs(s)
    <2>1. Grows /\ NoneFinalised
        BY <1>5 DEF CacheExpires, PollFires, PollErrs, Grows, NoneFinalised, closeVars
    <2> QED
        BY <1>5, <2>1, QuietKeepsEnds DEF CacheExpires, PollFires, PollErrs
<1>6. CASE PollAnswered(s)
    <2>1. Grows
        BY <1>6, <1>a DEF PollAnswered, Grows, TypeOK
    <2>2. CASE Revoked(by[s])
        <3>1. polling[s] \in Sessions /\ Opened(polling[s], by[s])
            BY <1>6, <1>a DEF PollAnswered, TypeOK, ReachableInv, PollingOwn
        <3> QED
            BY <1>6, <1>a, <2>1, <2>2, <3>1, KillKeepsEnds DEF PollAnswered
    <2>3. CASE ~Revoked(by[s])
        <3>1. NoneFinalised
            BY <1>6, <2>3 DEF PollAnswered, NoneFinalised, closeVars
        <3> QED
            BY <1>6, <2>1, <2>3, <3>1, QuietKeepsEnds DEF PollAnswered
    <2> QED
        BY <2>2, <2>3
<1>7. CASE RemoteCloses(s)
    <2>1. NoneFinalised
        BY <1>7, <1>a DEF RemoteCloses, Drop, HangUp, NoneFinalised, closeVars, TypeOK
    <2>2. \A t \in Sessions : \/ stream'[t] = stream[t]
                              \/ stream[t] = "open" /\ stream'[t] = "ended"
        BY <1>7, <1>a DEF RemoteCloses, TypeOK
    <2> QED
        BY <1>7, <2>1, <2>2, QuietKeepsEnds DEF RemoteCloses, Grows
<1> QED
    BY <1>1, <1>2, <1>3, <1>4, <1>5, <1>6, <1>7 DEF SessionStep

LEMMA EndsNext ==
    ASSUME "register_failure" \notin Environment
    PROVE  EndsInv /\ [Next]_vars => EndsInv'
<1> SUFFICES ASSUME EndsInv, [Next]_vars PROVE EndsInv'
    OBVIOUS
<1>1. ReachableInv'
    BY ReachableNext DEF EndsInv
<1>2. CASE (\E u \in Users : AdminStep(u)) \/ UNCHANGED vars
    <2>1. UNCHANGED <<startVars, active, stream, trail, closeVars>>
        BY <1>2 DEF AdminStep, RevokeAccess, GrantAccess, RevokeTokens, vars
    <2>2. Grows /\ NoneFinalised
        BY <2>1 DEF Grows, NoneFinalised, closeVars
    <2> QED
        BY <1>1, <2>1, <2>2, QuietKeepsEnds DEF EndsInv
<1> QED
    BY <1>1, <1>2, EndsClient, EndsSession DEF Next, EndsInv

\* As long as the rows of recordings can be inserted, a session that was announced
\* and is off the map was cut for lack of access or is audited as closed, at the
\* latest when nothing is in progress (handleDisconnect).
THEOREM EndsAuditedHolds ==
    ASSUME "register_failure" \notin Environment
    PROVE  Spec => []EndsAudited
<1>1. EndsInv /\ [Next]_vars => EndsInv'
    BY EndsNext
<1>2. EndsInv => EndsAudited
    BY DEF EndsInv, Announced, Accounted, EndsAudited, AtRest
<1> QED
    BY EndsInit, <1>1, <1>2, PTL DEF Spec

-----------------------------------------------------------------------------
(* The gateway implements SessionBroker                                    *)

Outside == <<by, operators, stale>>

\* No session changes its phase.
Still == \A t \in Sessions : PhaseOf(t)' = PhaseOf(t)
\* Session s does, and no other.
Moves(s, from, to) ==
    /\ PhaseOf(s) = from /\ PhaseOf(s)' = to
    /\ \A t \in Sessions \ {s} : PhaseOf(t)' = PhaseOf(t)
\* The gateway gives up no session, and takes none back.
SameGivenUp == \A t \in Sessions : GivenUp(t)' <=> GivenUp(t)

LEMMA StillMaps ==
    ASSUME Still, UNCHANGED Outside
    PROVE  UNCHANGED Broker!vars
BY DEF Still, Outside, Broker!vars

LEMMA MovesMaps ==
    ASSUME NEW s \in Sessions, NEW from, NEW to, Moves(s, from, to), UNCHANGED Outside
    PROVE  Broker!Move(s, from, to)
BY DEF Moves, Outside, Broker!Move

\* A step that opens and ends no channel and clears no call.
LEMMA QuietMaps ==
    ASSUME UNCHANGED <<stream, by, operators, stale>>, SameGivenUp,
           \A t \in Sessions : start'[t] = "connect" <=> start[t] = "connect"
    PROVE  UNCHANGED Broker!vars
<1>1. Still
    BY DEF Still, PhaseOf, SameGivenUp
<1> QED
    BY <1>1, StillMaps DEF Outside

\* A channel that ends: the session is over, or was before.
LEMMA EndMaps ==
    ASSUME TypeOK, NEW s \in Sessions, NEW how \in {"ended", "cut"},
           stream[s] # "none", stream' = [stream EXCEPT ![s] = how], SameGivenUp,
           UNCHANGED <<start, by, operators, stale>>
    PROVE  [Broker!Next]_(Broker!vars)
<1>1. CASE stream[s] = "open" /\ ~GivenUp(s)
    <2>1. Moves(s, "open", "ended")
        BY <1>1 DEF TypeOK, Moves, PhaseOf, SameGivenUp
    <2> QED
        BY <2>1, MovesMaps DEF Outside, Broker!Next, Broker!End
<1>2. CASE ~(stream[s] = "open" /\ ~GivenUp(s))
    <2>1. Still
        BY <1>2 DEF TypeOK, Still, PhaseOf, SameGivenUp
    <2> QED
        BY <2>1, StillMaps DEF Outside
<1> QED
    BY <1>1, <1>2

\* A disconnection gives up nothing: that is for handleDisconnect to do.
LEMMA HangUpSameGivenUp ==
    ASSUME ReachableInv, NEW c \in Clients, NEW user \in BOOLEAN,
           NEW map \in [Clients -> OptSession],
           map[c] \in {NoSession, active[c]},
           HangUpIfConnected(c, map, user), by' = by
    PROVE  SameGivenUp
<1>1. /\ \A d \in Clients : closing'[d] = "failed" <=> closing[d] = "failed"
      /\ \A d \in Clients : closing[d] = "failed" => closes'[d] = closes[d]
    BY HangUpReach
<1>2. by \in [Sessions -> Clients]
    BY DEF ReachableInv, TypeOK
<1> QED
    BY <1>1, <1>2 DEF SameGivenUp, GivenUp

LEMMA KillMaps ==
    ASSUME ReachableInv, NEW c \in Clients, NEW s \in Sessions, Opened(s, c), Kill(c, s),
           UNCHANGED <<start, by, operators, stale>>
    PROVE  [Broker!Next]_(Broker!vars)
<1> DEFINE map == [active EXCEPT ![c] = NoSession]
<1>1. /\ map \in [Clients -> OptSession] /\ map[c] = NoSession
      /\ HangUpIfConnected(c, map, HasUser(c)) /\ HasUser(c) \in BOOLEAN
    BY DEF ReachableInv, TypeOK, Kill, HasUser
<1>2. SameGivenUp
    <2> HIDE DEF map
    <2> QED
        BY <1>1, HangUpSameGivenUp
<1> QED
    BY <1>2, EndMaps DEF ReachableInv, Opened, Kill

LEMMA DisposeMaps ==
    ASSUME ReachableInv, NEW c \in Clients, closing[c] \in {"audit", "finalise"},
           Dispose(c), UNCHANGED <<closes, start, by, operators, stale>>
    PROVE  [Broker!Next]_(Broker!vars)
<1> DEFINE how == IF stream[closes[c]] = "cut" THEN "cut" ELSE "ended"
<1>1. closes[c] \in Sessions /\ stream[closes[c]] # "none"
    BY DEF ReachableInv, Core, Sockets, ClosingOwn, Closing, Opened
<1>2. stream' = [stream EXCEPT ![closes[c]] = how]
    BY DEF Dispose
<1>3. SameGivenUp
    BY DEF Dispose, SameGivenUp, GivenUp, ReachableInv, TypeOK
<1> QED
    BY <1>1, <1>2, <1>3, EndMaps DEF ReachableInv

LEMMA BrokerInit == Init => Broker!Init
BY DEF Init, Broker!Init, PhaseOf

LEMMA BrokerClient ==
    ASSUME ReachableInv, NEW c \in Clients, ClientStep(c)
    PROVE  [Broker!Next]_(Broker!vars)
<1>t. TypeOK /\ CheckingOwn /\ ClosingOwn /\ active \in [Clients -> OptSession]
    BY DEF ReachableInv, Core, Sockets, TypeOK
<1>1. CASE Connect(c) \/ AskAccess(c) \/ AccessUnknown(c)
    <2>1. UNCHANGED <<stream, start, closeVars, by, operators, stale>>
        BY <1>1 DEF Connect, AskAccess, AccessUnknown
    <2> QED
        BY <2>1, QuietMaps DEF SameGivenUp, GivenUp
<1>2. CASE Reject(c) \/ Authenticate(c) \/ Disconnect(c)
    <2>1. UNCHANGED <<stream, start, by, operators, stale>>
        BY <1>2 DEF Reject, Authenticate, Disconnect
    <2>2. \/ HangUpIfConnected(c, active, FALSE) \/ HangUpIfConnected(c, active, TRUE)
          \/ HangUpIfConnected(c, active, HasUser(c)) \/ UNCHANGED closeVars
        <3>1. Disconnect(c) => HangUpIfConnected(c, active, HasUser(c))
            BY DEF Disconnect, Drop, HangUpIfConnected
        <3> QED
            BY <1>2, <3>1 DEF Reject, Authenticate
    <2>3. SameGivenUp
        <3>1. HasUser(c) \in BOOLEAN
            BY DEF HasUser
        <3> QED
            BY <1>t, <2>1, <2>2, <3>1, HangUpSameGivenUp DEF SameGivenUp, GivenUp
    <2> QED
        BY <2>1, <2>3, QuietMaps
<1>3. CASE AccessAnswered(c)
    <2>1. /\ checking[c] \in Sessions /\ Opened(checking[c], c)
          /\ UNCHANGED <<start, by, operators, stale>>
        BY <1>3, <1>t DEF AccessAnswered, CheckingOwn, TypeOK
    <2>2. CASE HasAccess(c)
        <3>1. UNCHANGED <<stream, closeVars>>
            BY <1>3, <2>2 DEF AccessAnswered
        <3> QED
            BY <2>1, <3>1, QuietMaps DEF SameGivenUp, GivenUp
    <2>3. CASE ~HasAccess(c)
        BY <1>3, <2>1, <2>3, KillMaps DEF AccessAnswered
    <2> QED
        BY <2>2, <2>3
<1>4. CASE LogClosed(c)
    <2>1. closing[c] = "audit" /\ UNCHANGED <<closes, start, by, operators, stale>>
        BY <1>4 DEF LogClosed
    <2>2. CASE row[closes[c]] # "none"
        <3>1. stream' = stream /\ closing' = [closing EXCEPT ![c] = "finalise"]
            BY <1>4, <2>2 DEF LogClosed
        <3>2. SameGivenUp
            BY <1>t, <2>1, <3>1 DEF SameGivenUp, GivenUp, TypeOK
        <3> QED
            BY <2>1, <3>1, <3>2, QuietMaps
    <2>3. CASE row[closes[c]] = "none"
        BY <1>4, <2>1, <2>3, DisposeMaps DEF LogClosed
    <2> QED
        BY <2>2, <2>3
<1>5. CASE Finalise(c)
    BY <1>5, DisposeMaps DEF Finalise
<1>6. CASE CloseFails(c)
    <2>1. /\ closing[c] = "audit" /\ closing' = [closing EXCEPT ![c] = "failed"]
          /\ UNCHANGED <<stream, closes, start, by, operators, stale>>
        BY <1>6 DEF CloseFails
    <2>2. PICK s \in Sessions : s = closes[c] /\ by[s] = c /\ stream[s] # "none"
        BY <1>t, <2>1 DEF ClosingOwn, Closing, Opened
    <2>3. /\ ~GivenUp(s) /\ GivenUp(s)'
          /\ \A t \in Sessions \ {s} : GivenUp(t)' <=> GivenUp(t)
        BY <1>t, <2>1, <2>2 DEF GivenUp, TypeOK
    <2>4. CASE stream[s] = "open"
        <3>1. Moves(s, "open", "ended")
            BY <2>1, <2>2, <2>3, <2>4 DEF Moves, PhaseOf
        <3> QED
            BY <2>1, <2>2, <3>1, MovesMaps DEF Outside, Broker!Next, Broker!End
    <2>5. CASE stream[s] # "open"
        <3>1. Still
            BY <1>t, <2>1, <2>2, <2>3, <2>5 DEF Still, PhaseOf, TypeOK
        <3> QED
            BY <2>1, <3>1, StillMaps DEF Outside
    <2> QED
        BY <2>4, <2>5
<1> QED
    BY <1>1, <1>2, <1>3, <1>4, <1>5, <1>6 DEF ClientStep

LEMMA BrokerSession ==
    ASSUME ReachableInv, NEW s \in Sessions, SessionStep(s)
    PROVE  [Broker!Next]_(Broker!vars)
<1>t. /\ TypeOK /\ Unopened /\ PollingOwn /\ ClosingOwn
      /\ active \in [Clients -> OptSession] /\ by[s] \in Clients
    BY DEF ReachableInv, Core, Sockets, Channels, TypeOK
<1>1. CASE \/ RequestSession(s) \/ StartSession(s) \/ Register(s) \/ Announce(s)
           \/ CacheExpires(s) \/ PollFires(s) \/ PollErrs(s)
    <2>1. /\ UNCHANGED <<stream, closeVars, by, operators, stale>>
          /\ \A t \in Sessions : start'[t] = "connect" <=> start[t] = "connect"
        BY <1>1, <1>t DEF RequestSession, StartSession, Admission, Register, Announce,
                          CacheExpires, PollFires, PollErrs, TypeOK
    <2> QED
        BY <2>1, QuietMaps DEF SameGivenUp, GivenUp
<1>2. CASE CheckAccess(s)
    <2>1. /\ start[s] = "access" /\ stream[s] = "none"
          /\ UNCHANGED <<stream, closeVars, by, operators, stale>>
        BY <1>2, <1>t DEF CheckAccess, Unopened
    <2>2. CASE HasAccess(by[s])
        <3>1. Moves(s, "idle", "cleared")
            BY <1>2, <1>t, <2>1, <2>2 DEF CheckAccess, Moves, PhaseOf, GivenUp, TypeOK
        <3> QED
            BY <2>1, <2>2, <3>1, MovesMaps
            DEF Outside, HasAccess, Broker!Next, Broker!Clear
    <2>3. CASE ~HasAccess(by[s])
        <3>1. \A t \in Sessions : start'[t] = "connect" <=> start[t] = "connect"
            BY <1>2, <1>t, <2>1, <2>3 DEF CheckAccess, TypeOK
        <3> QED
            BY <2>1, <3>1, QuietMaps DEF SameGivenUp, GivenUp
    <2> QED
        BY <2>2, <2>3
<1>3. CASE OpenStream(s)
    <2>1. /\ start[s] = "connect" /\ stream[s] = "none"
          /\ stream' = [stream EXCEPT ![s] = "open"]
          /\ \A t \in Sessions \ {s} : start'[t] = start[t]
          /\ UNCHANGED <<closeVars, by, operators, stale>>
        BY <1>3, <1>t DEF OpenStream, Unopened, TypeOK
    <2>2. ~GivenUp(s)
        BY <1>t, <2>1 DEF GivenUp, ClosingOwn, Closing, Opened
    <2>3. Moves(s, "cleared", "open")
        BY <1>t, <2>1, <2>2 DEF Moves, PhaseOf, GivenUp, TypeOK
    <2> QED
        BY <2>1, <2>3, MovesMaps DEF Outside, Broker!Next, Broker!Open
<1>4. CASE StartFails(s)
    <2>1. /\ UNCHANGED <<stream, closeVars, by, operators, stale>>
          /\ start' = [start EXCEPT ![s] = "failed"]
        BY <1>4 DEF StartFails
    <2>2. CASE start[s] = "connect"
        <3>1. Moves(s, "cleared", "idle")
            BY <1>t, <2>1, <2>2 DEF Moves, PhaseOf, GivenUp, TypeOK, Unopened
        <3> QED
            BY <2>1, <3>1, MovesMaps DEF Outside, Broker!Next, Broker!GiveUp
    <2>3. CASE start[s] # "connect"
        <3>1. \A t \in Sessions : start'[t] = "connect" <=> start[t] = "connect"
            BY <1>t, <2>1, <2>3 DEF TypeOK
        <3> QED
            BY <2>1, <3>1, QuietMaps DEF SameGivenUp, GivenUp
    <2> QED
        BY <2>2, <2>3
<1>5. CASE PollAnswered(s)
    <2>1. /\ polling[s] \in Sessions /\ Opened(polling[s], by[s])
          /\ UNCHANGED <<start, by, operators, stale>>
        BY <1>5, <1>t DEF PollAnswered, PollingOwn, TypeOK
    <2>2. CASE Revoked(by[s])
        BY <1>5, <1>t, <2>1, <2>2, KillMaps DEF PollAnswered
    <2>3. CASE ~Revoked(by[s])
        <3>1. UNCHANGED <<stream, closeVars>>
            BY <1>5, <2>3 DEF PollAnswered
        <3> QED
            BY <2>1, <3>1, QuietMaps DEF SameGivenUp, GivenUp
    <2> QED
        BY <2>2, <2>3
<1>6. CASE RemoteCloses(s)
    <2>1. /\ stream[s] # "none" /\ stream' = [stream EXCEPT ![s] = "ended"]
          /\ UNCHANGED <<start, by, operators, stale>>
        BY <1>6 DEF RemoteCloses
    <2>2. HangUpIfConnected(by[s], active, HasUser(by[s])) \/ UNCHANGED closeVars
        BY <1>6 DEF RemoteCloses, Drop, HangUpIfConnected
    <2>3. SameGivenUp
        <3>1. HasUser(by[s]) \in BOOLEAN
            BY DEF HasUser
        <3> QED
            BY <1>t, <2>1, <2>2, <3>1, HangUpSameGivenUp DEF SameGivenUp, GivenUp
    <2> QED
        BY <1>t, <2>1, <2>3, EndMaps
<1> QED
    BY <1>1, <1>2, <1>3, <1>4, <1>5, <1>6 DEF SessionStep

LEMMA BrokerAdmin ==
    ASSUME TypeOK, NEW u \in Users, AdminStep(u)
    PROVE  Broker!Administer
<1>1. UNCHANGED <<stream, start, closeVars, by>>
    BY DEF AdminStep, RevokeAccess, GrantAccess, RevokeTokens
<1>2. operators' \in SUBSET Users
    BY DEF TypeOK, AdminStep, RevokeAccess, GrantAccess, RevokeTokens
<1>3. stale' \in {stale \cup more : more \in SUBSET Clients}
    <2>1. stale' = stale \/ RevokeTokens(u)
        BY DEF AdminStep, RevokeAccess, GrantAccess
    <2>2. stale = stale \cup {}
        OBVIOUS
    <2>3. CASE RevokeTokens(u)
        BY <2>3 DEF RevokeTokens
    <2> QED
        BY <2>1, <2>2, <2>3
<1> QED
    BY <1>1, <1>2, <1>3 DEF Broker!Administer, PhaseOf, GivenUp

LEMMA BrokerNext ==
    ASSUME ReachableInv, [Next]_vars
    PROVE  [Broker!Next]_(Broker!vars)
<1>1. ASSUME NEW c \in Clients, ClientStep(c) PROVE [Broker!Next]_(Broker!vars)
    BY <1>1, BrokerClient
<1>2. ASSUME NEW s \in Sessions, SessionStep(s) PROVE [Broker!Next]_(Broker!vars)
    BY <1>2, BrokerSession
<1>3. ASSUME NEW u \in Users, AdminStep(u) PROVE [Broker!Next]_(Broker!vars)
    BY <1>3, BrokerAdmin DEF ReachableInv, Broker!Next
<1>4. CASE UNCHANGED vars
    BY <1>4, QuietMaps DEF vars, SameGivenUp, GivenUp
<1> QED
    BY <1>1, <1>2, <1>3, <1>4 DEF Next

\* The gateway implements the safety part of SessionBroker for any number of
\* sockets and sessions: a channel opens once, after access was found, and what
\* has ended does not come back.
THEOREM ImplementsBrokerSafety ==
    ASSUME "register_failure" \notin Environment
    PROVE  Spec => Broker!Spec
<1>1. ReachableInv /\ [Next]_vars => ReachableInv'
    BY ReachableNext
<1>2. ReachableInv /\ [Next]_vars => [Broker!Next]_(Broker!vars)
    BY BrokerNext
<1> QED
    BY ReachableInit, BrokerInit, <1>1, <1>2, PTL DEF Spec, Broker!Spec

-----------------------------------------------------------------------------
(* The data path of a session                                              *)

LEMMA SizeIs == Size \in Nat \ {0} /\ Pieces \in Nat /\ Messages \in Nat
BY ChannelAssumption

-----------------------------------------------------------------------------
(* Pieces in a row                                                         *)

LEMMA RangeIs ==
    ASSUME NEW from \in Nat \ {0}, NEW to \in Nat, from <= to + 1
    PROVE  /\ Range1(from, to) \in Seq(Nat) /\ Len(Range1(from, to)) = to - from + 1
           /\ \A i \in 1 .. to - from + 1 : Range1(from, to)[i] = from + i - 1
<1>1. to - from + 1 \in Nat
    OBVIOUS
<1>2. \A i \in 1 .. to - from + 1 : from + i - 1 \in Nat
    OBVIOUS
<1> QED
    BY <1>1, <1>2 DEF Range1

LEMMA RangeJoin ==
    ASSUME NEW from \in Nat \ {0}, NEW mid \in Nat, NEW to \in Nat, from <= mid + 1, mid <= to
    PROVE  Range1(from, to) = Range1(from, mid) \o Range1(mid + 1, to)
<1> DEFINE s == Range1(from, mid)
           t == Range1(mid + 1, to)
           u == Range1(from, to)
<1>1. /\ s \in Seq(Nat) /\ Len(s) = mid - from + 1
      /\ \A i \in 1 .. mid - from + 1 : s[i] = from + i - 1
    BY RangeIs
<1>2. /\ t \in Seq(Nat) /\ Len(t) = to - mid
      /\ \A i \in 1 .. to - mid : t[i] = mid + i
    <2>1. mid + 1 \in Nat \ {0} /\ mid + 1 <= to + 1 /\ to - (mid + 1) + 1 = to - mid
        OBVIOUS
    <2>2. \A i \in 1 .. to - mid : mid + 1 + i - 1 = mid + i
        OBVIOUS
    <2>3. /\ t \in Seq(Nat) /\ Len(t) = to - (mid + 1) + 1
          /\ \A i \in 1 .. to - (mid + 1) + 1 : t[i] = mid + 1 + i - 1
        BY <2>1, RangeIs
    <2> HIDE DEF t
    <2> QED
        BY <2>1, <2>2, <2>3
<1>3. /\ u \in Seq(Nat) /\ Len(u) = to - from + 1
      /\ \A i \in 1 .. to - from + 1 : u[i] = from + i - 1
    BY RangeIs
<1> HIDE DEF s, t, u
<1>4. IsJoin(s \o t, s, t, Nat)
    BY <1>1, <1>2, Joined
<1>5. Len(s \o t) = to - from + 1 /\ s \o t \in Seq(Nat)
    BY <1>1, <1>2, <1>4 DEF IsJoin
<1>6. ASSUME NEW i \in 1 .. to - from + 1 PROVE (s \o t)[i] = u[i]
    <2>1. (s \o t)[i] = IF i <= Len(s) THEN s[i] ELSE t[i - Len(s)]
        BY <1>1, <1>2, <1>4 DEF IsJoin
    <2>2. CASE i <= Len(s)
        BY <1>1, <1>3, <2>1, <2>2
    <2>3. CASE ~(i <= Len(s))
        <3>1. i - Len(s) \in 1 .. to - mid /\ mid + (i - Len(s)) = from + i - 1
            BY <1>1, <2>3
        <3>2. t[i - Len(s)] = from + i - 1
            BY <1>2, <3>1
        <3> QED
            BY <1>3, <2>1, <2>3, <3>2
    <2> QED
        BY <2>2, <2>3
<1>7. s \o t = u
    <2> DEFINE v == s \o t
    <2>1. v \in Seq(Nat) /\ Len(v) = Len(u) /\ \A i \in 1 .. Len(u) : v[i] = u[i]
        BY <1>3, <1>5, <1>6
    <2> HIDE DEF v
    <2>2. v = u
        BY <1>3, <2>1, SameSeq
    <2> QED
        BY <2>2, Zenon DEF v
<1> QED
    BY <1>7, Zenon DEF s, t, u

-----------------------------------------------------------------------------
(* What is readable of what was read                                       *)

Spared(r, gone) == IF r < Size THEN <<>> ELSE Kept(Range1(Size + 1, r), (1 .. r) \ gone)

LEMMA ReadRange ==
    ASSUME NEW r \in Nat, Size <= r
    PROVE  /\ Range1(Size + 1, r) \in Seq(Nat) /\ Len(Range1(Size + 1, r)) = r - Size
           /\ \A i \in 1 .. r - Size : Range1(Size + 1, r)[i] = Size + i
<1>1. Size + 1 \in Nat \ {0} /\ Size + 1 <= r + 1 /\ r - (Size + 1) + 1 = r - Size
    BY SizeIs
<1>2. \A i \in 1 .. r - Size : Size + 1 + i - 1 = Size + i
    BY SizeIs
<1>3. /\ Range1(Size + 1, r) \in Seq(Nat) /\ Len(Range1(Size + 1, r)) = r - (Size + 1) + 1
      /\ \A i \in 1 .. r - (Size + 1) + 1 : Range1(Size + 1, r)[i] = Size + 1 + i - 1
    BY <1>1, RangeIs
<1> QED
    BY <1>1, <1>2, <1>3

\* The pieces spared are in the order of their numbers.
LEMMA SparedOrder ==
    ASSUME NEW r \in Nat, NEW gone
    PROVE  /\ Spared(r, gone) \in Seq(Nat)
           /\ \A i, j \in 1 .. Len(Spared(r, gone)) : i < j => Spared(r, gone)[i] < Spared(r, gone)[j]
<1>1. CASE r < Size
    <2>1. Spared(r, gone) = <<>>
        BY <1>1, Zenon DEF Spared
    <2>2. <<>> \in Seq(Nat) /\ \A i \in 1 .. Len(<<>>) : FALSE
        OBVIOUS
    <2> QED
        BY <2>1, <2>2, Zenon
<1>2. CASE ~(r < Size)
    <2> DEFINE seq == Range1(Size + 1, r)
               S == (1 .. r) \ gone
               R == {p \in Nat \X Nat : p[1] < p[2]}
    <2>1. Size <= r
        BY <1>2, SizeIs
    <2>2. seq \in Seq(Nat) /\ Len(seq) = r - Size /\ \A i \in 1 .. r - Size : seq[i] = Size + i
        BY <2>1, ReadRange
    <2>3. Spared(r, gone) = Kept(seq, S)
        BY <1>2, Zenon DEF Spared
    <2>r. \A m, n \in Nat : m < n => <<m, n>> \in R
        OBVIOUS
    <2>q. \A m, n : <<m, n>> \in R => m < n
        OBVIOUS
    <2> HIDE DEF seq, S, R
    <2>4. \A i, j \in 1 .. Len(seq) : i < j => <<seq[i], seq[j]>> \in R
        BY <2>1, <2>2, <2>r, SizeIs
    <2>5. /\ Kept(seq, S) \in Seq(Nat)
          /\ \A i, j \in 1 .. Len(Kept(seq, S)) : i < j => <<Kept(seq, S)[i], Kept(seq, S)[j]>> \in R
        BY <2>2, <2>4, KeptOrder
    <2> QED
        BY <2>3, <2>5, <2>q, Zenon
<1> QED
    BY <1>1, <1>2

\* While nothing is lost all is spared.
LEMMA SparedAll ==
    ASSUME NEW r \in Nat, Size <= r
    PROVE  Spared(r, {}) = Range1(Size + 1, r)
<1> DEFINE seq == Range1(Size + 1, r)
           S == (1 .. r) \ {}
<1>1. seq \in Seq(Nat) /\ Len(seq) = r - Size /\ \A i \in 1 .. r - Size : seq[i] = Size + i
    BY ReadRange
<1>2. ~(r < Size)
    BY SizeIs
<1>3. Spared(r, {}) = Kept(seq, S)
    BY <1>2, Zenon DEF Spared
<1> HIDE DEF seq
<1>4. \A m \in 1 .. Len(seq) : seq[m] \in S
    BY <1>1, SizeIs
<1> HIDE DEF S
<1>5. Kept(seq, S) = seq
    BY <1>1, <1>4, KeptAll
<1> QED
    BY <1>3, <1>5, Zenon DEF seq

LEMMA NextPieces ==
    ASSUME NEW r \in Nat, NEW n \in Nat
    PROVE  /\ Range1(r + 1, r + n) \in Seq(Nat) /\ Len(Range1(r + 1, r + n)) = n
           /\ \A i \in 1 .. n : Range1(r + 1, r + n)[i] = r + i
<1> DEFINE from == r + 1
           to == r + n
<1>1. /\ from \in Nat \ {0} /\ to \in Nat /\ from <= to + 1 /\ to - from + 1 = n
      /\ \A i \in 1 .. n : from + i - 1 = r + i
    OBVIOUS
<1> HIDE DEF from, to
<1>2. /\ Range1(from, to) \in Seq(Nat) /\ Len(Range1(from, to)) = to - from + 1
      /\ \A i \in 1 .. to - from + 1 : Range1(from, to)[i] = from + i - 1
    BY <1>1, RangeIs
<1>3. /\ Range1(from, to) \in Seq(Nat) /\ Len(Range1(from, to)) = n
      /\ \A i \in 1 .. n : Range1(from, to)[i] = r + i
    BY <1>1, <1>2
<1> QED
    BY <1>3 DEF from, to

\* A chunk that is read comes at the end, one that is lost changes nothing.
LEMMA SparedMore ==
    ASSUME NEW r \in Nat, NEW n \in Nat, NEW gone, Size <= r, gone \subseteq 1 .. r
    PROVE  /\ Spared(r + n, gone) = Spared(r, gone) \o Range1(r + 1, r + n)
           /\ Spared(r + n, gone \cup (r + 1 .. r + n)) = Spared(r, gone)
           /\ Range1(r + 1, r + n) \in Seq(Nat)
<1> DEFINE s == Range1(Size + 1, r)
           t == Range1(r + 1, r + n)
           u == Range1(Size + 1, r + n)
           old == (1 .. r) \ gone
           new == (1 .. r + n) \ gone
           less == (1 .. r + n) \ (gone \cup (r + 1 .. r + n))
<1>0. /\ Size + 1 \in Nat \ {0} /\ Size + 1 <= r + 1 /\ r <= r + n /\ r + n \in Nat
      /\ ~(r < Size) /\ ~(r + n < Size) /\ r + 1 \in Nat \ {0} /\ r + 1 <= r + n + 1
      /\ r + n - (r + 1) + 1 = n
    BY SizeIs
<1>1. s \in Seq(Nat) /\ Len(s) = r - Size /\ \A i \in 1 .. r - Size : s[i] = Size + i
    BY ReadRange
<1>2. t \in Seq(Nat) /\ Len(t) = n /\ \A i \in 1 .. n : t[i] = r + i
    BY NextPieces
<1>3. u = s \o t
    BY <1>0, RangeJoin
<1>4. /\ Spared(r, gone) = Kept(s, old) /\ Spared(r + n, gone) = Kept(u, new)
      /\ Spared(r + n, gone \cup (r + 1 .. r + n)) = Kept(u, less)
    BY <1>0, Zenon DEF Spared
<1>5. \A m \in 1 .. r : (m \in old <=> m \in new) /\ (m \in old <=> m \in less)
    BY <1>0
<1>6. \A m \in r + 1 .. r + n : m \in new /\ m \notin less
    BY <1>0
<1> HIDE DEF s, t, u, old, new, less
<1>7. \A m \in 1 .. Len(s) : s[m] \in 1 .. r
    BY <1>1, SizeIs
<1>8. \A m \in 1 .. Len(t) : t[m] \in r + 1 .. r + n
    BY <1>2
<1>9. Kept(s, old) = Kept(s, new) /\ Kept(s, old) = Kept(s, less)
    <2>1. \A m \in 1 .. Len(s) : (s[m] \in old <=> s[m] \in new) /\ (s[m] \in old <=> s[m] \in less)
        BY <1>5, <1>7, Zenon
    <2> QED
        BY <1>1, <2>1, KeptSame
<1>10. Kept(t, new) = t
    <2>1. \A m \in 1 .. Len(t) : t[m] \in new
        BY <1>6, <1>8, Zenon
    <2> QED
        BY <1>2, <2>1, KeptAll
<1>11. Kept(t, less) = <<>>
    <2>1. \A m \in 1 .. Len(t) : t[m] \notin less
        BY <1>6, <1>8, Zenon
    <2> QED
        BY <1>2, <2>1, KeptNone
<1>12. /\ Kept(s \o t, new) = Kept(s, new) \o Kept(t, new)
       /\ Kept(s \o t, less) = Kept(s, less) \o Kept(t, less)
       /\ Kept(s, less) \in Seq(Nat)
    <2>1. s \in Seq(Nat) /\ t \in Seq(Nat)
        BY <1>1, <1>2
    <2>2. Splits(s, t, new, Nat) /\ Splits(s, t, less, Nat)
        BY <2>1, KeptConcat, Zenon
    <2> QED
        BY <2>2 DEF Splits
<1>13. Kept(s, less) \o <<>> = Kept(s, less)
    BY <1>12
<1> QED
    BY <1>2, <1>3, <1>4, <1>9, <1>10, <1>11, <1>12, <1>13, Zenon DEF t

\* A multiple of Size is the last piece of an instruction.
LEMMA MultipleEnds ==
    ASSUME NEW q \in Nat
    PROVE  (q * Size) % Size = 0
<1> DEFINE m == q * Size
           d == m \div Size
           e == m % Size
           k == q - d
<1>1. m \in Nat
    BY SizeIs
<1>2. m = Size * d + e /\ d \in Nat /\ e \in 0 .. Size - 1
    <2> HIDE DEF m
    <2> QED
        BY <1>1, SizeIs
<1>3. k \in Int /\ Size * k = e
    <2> HIDE DEF d, e
    <2>1. Size * (q - d) = Size * q - Size * d /\ Size * q = m /\ q - d \in Int
        BY <1>2, SizeIs
    <2>2. Size * d \in Int /\ e \in Int /\ m \in Int
        BY <1>1, <1>2, SizeIs
    <2> HIDE DEF m
    <2> QED
        BY <1>2, <2>1, <2>2
<1> HIDE DEF m, d, k
<1>4. k = 0
    <2>1. ASSUME k >= 1 PROVE FALSE
        <3>1. Size * k >= Size
            BY <1>3, <2>1, SizeIs
        <3> HIDE DEF e
        <3> QED
            BY <1>2, <1>3, <3>1, SizeIs
    <2>2. ASSUME k <= -1 PROVE FALSE
        <3>1. Size * k <= -1
            BY <1>3, <2>2, SizeIs
        <3> HIDE DEF e
        <3> QED
            BY <1>2, <1>3, <3>1, SizeIs
    <2> QED
        BY <1>3, <2>1, <2>2
<1>5. e = 0
    <2> HIDE DEF e
    <2> QED
        BY <1>3, <1>4, SizeIs
<1> QED
    BY <1>5 DEF e, m

\* When the handshake is over the leftover is all that is spared.
LEMMA SparedLeftover ==
    ASSUME NEW r \in Nat, Size <= r
    PROVE  /\ Spared(r, Size + 1 .. Complete(r) * Size) = Leftover(r)
           /\ Size + 1 .. Complete(r) * Size \subseteq 1 .. r
           /\ Leftover(r) \in Seq(Nat)
<1> DEFINE q == r \div Size
           at == q * Size
<1>1. q \in Nat /\ 1 <= q
    <2>1. Size \div Size = 1
        BY SizeIs
    <2>2. q \in Nat /\ Size \div Size <= q
        <3>1. \A a, b \in Nat, n \in Nat \ {0} : a <= b => a \div n \in Nat /\ b \div n \in Nat /\ a \div n <= b \div n
            BY DivisionInOrder
        <3> QED
            BY <3>1, SizeIs
    <2> QED
        BY <2>1, <2>2
<1>2. at \in Nat /\ Size <= at /\ at <= r
    <2>1. r = Size * q + (r % Size) /\ 0 <= r % Size
        BY SizeIs
    <2> HIDE DEF q
    <2>2. Size * 1 <= Size * q /\ Size * q = q * Size /\ q * Size \in Nat
        BY <1>1, SizeIs
    <2>3. r % Size \in Nat
        BY SizeIs
    <2> QED
        BY <2>1, <2>2, <2>3, SizeIs
<1>3. Complete(r) * Size = at /\ Leftover(r) = Range1(at + 1, r)
    BY Zenon DEF Complete, Leftover
<1> HIDE DEF q, at
<1>4. at + (r - at) = r /\ r - at \in Nat /\ at - Size \in Nat /\ Size + (at - Size) = at
    BY <1>2, SizeIs
<1>5. Spared(at, Size + 1 .. at) = <<>> /\ Size + 1 .. at \subseteq 1 .. at
    <2>1. Spared(Size + (at - Size), {} \cup (Size + 1 .. Size + (at - Size))) = Spared(Size, {})
        <3>1. {} \subseteq 1 .. Size /\ Size \in Nat /\ Size <= Size
            BY SizeIs
        <3> QED
            <4> DEFINE n == at - Size
            <4>1. n \in Nat
                BY <1>4
            <4> HIDE DEF n
            <4>2. Spared(Size + n, {} \cup (Size + 1 .. Size + n)) = Spared(Size, {})
                BY <3>1, <4>1, SparedMore
            <4> QED
                BY <4>2, Zenon DEF n
    <2>2. {} \cup (Size + 1 .. Size + (at - Size)) = Size + 1 .. at
        BY <1>4
    <2>3. Spared(at, Size + 1 .. at) = Spared(Size, {})
        BY <1>4, <2>1, <2>2
    <2>4. Spared(Size, {}) = Range1(Size + 1, Size)
        BY SparedAll, SizeIs
    <2>5. Range1(Size + 1, Size) \in Seq(Nat) /\ Len(Range1(Size + 1, Size)) = 0
        <3>1. Size - Size = 0 /\ Size \in Nat /\ Size <= Size
            BY SizeIs
        <3> QED
            BY <3>1, ReadRange
    <2>6. Range1(Size + 1, Size) = <<>>
        BY <2>5
    <2> QED
        BY <1>2, <2>3, <2>4, <2>6, SizeIs
<1>6. /\ Spared(at + (r - at), Size + 1 .. at) = Spared(at, Size + 1 .. at) \o Range1(at + 1, at + (r - at))
      /\ Range1(at + 1, at + (r - at)) \in Seq(Nat)
    <2> DEFINE n == r - at
               gone == Size + 1 .. at
    <2>1. n \in Nat /\ gone \subseteq 1 .. at
        BY <1>4, <1>5
    <2> HIDE DEF n, gone
    <2>2. /\ Spared(at + n, gone) = Spared(at, gone) \o Range1(at + 1, at + n)
          /\ Range1(at + 1, at + n) \in Seq(Nat)
        BY <1>2, <2>1, SparedMore, Zenon
    <2> QED
        BY <2>2 DEF n, gone
<1>7. Range1(at + 1, r) \in Seq(Nat) /\ Spared(r, Size + 1 .. at) = <<>> \o Range1(at + 1, r)
    BY <1>4, <1>5, <1>6
<1>8. <<>> \o Range1(at + 1, r) = Range1(at + 1, r)
    BY <1>7
<1> QED
    BY <1>2, <1>3, <1>5, <1>7, <1>8

-----------------------------------------------------------------------------
(* What is on the wire                                                     *)

EventNames == {"ready", "data", "error", "closed", "disconnect"}
WireEvents == {e \in [ev : EventNames, pieces : Seq(Nat)] : e.ev # "data" => e.pieces = <<>>}
Carried(w) == FlattenSeq([i \in DOMAIN w |-> w[i].pieces])

LEMMA EventsAre ==
    /\ \A e \in WireEvents : e.pieces \in Seq(Nat)
    /\ \A ev \in EventNames : ev # "data" => Event(ev) \in WireEvents /\ Event(ev).pieces = <<>> /\ Event(ev).ev = ev
    /\ \A ps \in Seq(Nat) : Data(ps) \in WireEvents /\ Data(ps).pieces = ps /\ Data(ps).ev = "data"
<1>1. <<>> \in Seq(Nat)
    OBVIOUS
<1>2. \A e \in WireEvents : e.pieces \in Seq(Nat)
    BY DEF WireEvents
<1>3. ASSUME NEW ev \in EventNames, ev # "data"
      PROVE  Event(ev) \in WireEvents /\ Event(ev).pieces = <<>> /\ Event(ev).ev = ev
    BY <1>1, <1>3 DEF WireEvents, Event
<1>4. ASSUME NEW ps \in Seq(Nat)
      PROVE  Data(ps) \in WireEvents /\ Data(ps).pieces = ps /\ Data(ps).ev = "data"
    <2>1. Data(ps).pieces = ps /\ Data(ps).ev = "data"
        BY DEF Data
    <2> DEFINE T == Seq(Nat)
    <2>t. ps \in T
        OBVIOUS
    <2>e. "data" \in EventNames
        BY DEF EventNames
    <2> HIDE DEF T
    <2>2. Data(ps) \in [ev : EventNames, pieces : T]
        BY <2>t, <2>e DEF Data
    <2>3. Data(ps) \in [ev : EventNames, pieces : Seq(Nat)]
        BY <2>2 DEF T
    <2> HIDE DEF Data
    <2> QED
        BY <2>1, <2>3, Zenon DEF WireEvents
<1> QED
    BY <1>2, <1>3, <1>4

Loads(w) == [i \in DOMAIN w |-> w[i].pieces]

LEMMA LoadsType ==
    ASSUME NEW w \in Seq(WireEvents)
    PROVE  /\ Loads(w) \in Seq(Seq(Nat)) /\ Len(Loads(w)) = Len(w)
           /\ \A i \in 1 .. Len(w) : Loads(w)[i] = w[i].pieces
<1> DEFINE T == Seq(Nat)
<1>1. DOMAIN w = 1 .. Len(w) /\ Len(w) \in Nat /\ \A i \in 1 .. Len(w) : w[i] \in WireEvents
    OBVIOUS
<1>2. \A i \in 1 .. Len(w) : w[i].pieces \in T
    BY <1>1, EventsAre
<1>3. Loads(w) = [i \in 1 .. Len(w) |-> w[i].pieces]
    BY <1>1 DEF Loads
<1> HIDE DEF T
<1> QED
    BY <1>1, <1>2, <1>3 DEF T

LEMMA CarriedType ==
    ASSUME NEW w \in Seq(WireEvents)
    PROVE  Carried(w) \in Seq(Nat)
<1>1. Loads(w) \in Seq(Seq(Nat))
    BY LoadsType
<1>2. FlattenSeq(Loads(w)) \in Seq(Nat)
    BY <1>1, FlatType
<1> QED
    BY <1>2, Zenon DEF Carried, Loads

LEMMA CarriedNone == Carried(<<>>) = <<>>
<1>1. Loads(<<>>) = <<>>
    BY DEF Loads
<1> QED
    BY <1>1, FlatNone, Zenon DEF Carried, Loads

\* What an event carries comes last.
LEMMA CarriedAppend ==
    ASSUME NEW w \in Seq(WireEvents), NEW e \in WireEvents
    PROVE  /\ Append(w, e) \in Seq(WireEvents)
           /\ Carried(Append(w, e)) = Carried(w) \o e.pieces
<1> DEFINE more == Append(w, e)
           T == Seq(Nat)
           loads == Append(Loads(w), e.pieces)
<1>1. /\ more \in Seq(WireEvents) /\ Len(more) = Len(w) + 1 /\ Len(w) \in Nat
      /\ more[Len(w) + 1] = e /\ \A i \in 1 .. Len(w) : more[i] = w[i]
    OBVIOUS
<1>2. Loads(w) \in Seq(T) /\ Len(Loads(w)) = Len(w) /\ \A i \in 1 .. Len(w) : Loads(w)[i] = w[i].pieces
    BY LoadsType
<1>3. e.pieces \in T
    BY EventsAre
<1> HIDE DEF more
<1>4. Loads(more) \in Seq(T) /\ Len(Loads(more)) = Len(more) /\ \A i \in 1 .. Len(more) : Loads(more)[i] = more[i].pieces
    BY <1>1, LoadsType
<1>f. FlattenSeq(loads) = FlattenSeq(Loads(w)) \o e.pieces
    BY <1>2, <1>3, FlatAppend, Zenon
<1> HIDE DEF T
<1>5. /\ loads \in Seq(T) /\ Len(loads) = Len(w) + 1 /\ loads[Len(w) + 1] = e.pieces
      /\ \A i \in 1 .. Len(w) : loads[i] = w[i].pieces
    BY <1>2, <1>3
<1> HIDE DEF loads
<1>6. \A i \in 1 .. Len(w) + 1 : Loads(more)[i] = loads[i]
    <2>1. ASSUME NEW i \in 1 .. Len(w) + 1 PROVE Loads(more)[i] = loads[i]
        <3>1. Loads(more)[i] = more[i].pieces
            BY <1>1, <1>4
        <3>2. CASE i = Len(w) + 1
            BY <1>1, <1>5, <3>1, <3>2, Zenon
        <3>3. CASE i # Len(w) + 1
            <4>1. i \in 1 .. Len(w)
                BY <1>1, <3>3
            <4> QED
                BY <1>1, <1>5, <3>1, <4>1, Zenon
        <3> QED
            BY <3>2, <3>3
    <2> QED
        BY <2>1
<1>7. Loads(more) = loads
    <2>1. Len(Loads(more)) = Len(loads) /\ \A i \in 1 .. Len(Loads(more)) : Loads(more)[i] = loads[i]
        BY <1>1, <1>4, <1>5, <1>6
    <2> QED
        BY <1>4, <1>5, <2>1, SameSeq
<1>8. Carried(more) = Carried(w) \o e.pieces
    BY <1>7, <1>f, Zenon DEF Carried, Loads
<1> QED
    BY <1>1, <1>8, Zenon DEF more

\* What the first event carries comes first.
LEMMA CarriedFirst ==
    ASSUME NEW w \in Seq(WireEvents), w # <<>>
    PROVE  /\ Head(w) \in WireEvents /\ Tail(w) \in Seq(WireEvents)
           /\ Carried(w) = Head(w).pieces \o Carried(Tail(w))
<1> DEFINE rest == Tail(w)
           T == Seq(Nat)
           loads == Tail(Loads(w))
<1>1. /\ rest \in Seq(WireEvents) /\ Len(rest) = Len(w) - 1 /\ Len(w) \in Nat \ {0}
      /\ Head(w) = w[1] /\ w[1] \in WireEvents /\ \A i \in 1 .. Len(w) - 1 : rest[i] = w[i + 1]
    OBVIOUS
<1>2. Loads(w) \in Seq(T) /\ Len(Loads(w)) = Len(w) /\ \A i \in 1 .. Len(w) : Loads(w)[i] = w[i].pieces
    BY LoadsType
<1> HIDE DEF rest
<1>3. Loads(rest) \in Seq(T) /\ Len(Loads(rest)) = Len(rest) /\ \A i \in 1 .. Len(rest) : Loads(rest)[i] = rest[i].pieces
    BY <1>1, LoadsType
<1>4. Loads(w) # <<>>
    BY <1>1, <1>2
<1>f. FlattenSeq(Loads(w)) = Head(Loads(w)) \o FlattenSeq(loads)
    BY <1>2, <1>4, FlatFirst, Zenon
<1> HIDE DEF T
<1>5. /\ loads \in Seq(T) /\ Len(loads) = Len(w) - 1 /\ Head(Loads(w)) = Loads(w)[1]
      /\ \A i \in 1 .. Len(w) - 1 : loads[i] = Loads(w)[i + 1]
    BY <1>1, <1>2, <1>4
<1> HIDE DEF loads
<1>6. ASSUME NEW i \in 1 .. Len(w) - 1 PROVE Loads(rest)[i] = loads[i]
    <2>1. i + 1 \in 1 .. Len(w) /\ i \in 1 .. Len(rest)
        BY <1>1
    <2> QED
        BY <1>1, <1>2, <1>3, <1>5, <2>1, Zenon
<1>7. Loads(rest) = loads
    <2>1. Len(Loads(rest)) = Len(loads) /\ \A i \in 1 .. Len(Loads(rest)) : Loads(rest)[i] = loads[i]
        BY <1>1, <1>3, <1>5, <1>6
    <2> QED
        BY <1>3, <1>5, <2>1, SameSeq
<1>8. Head(Loads(w)) = Head(w).pieces
    BY <1>1, <1>2, <1>5
<1>9. Carried(w) = Head(w).pieces \o Carried(rest)
    BY <1>7, <1>8, <1>f, Zenon DEF Carried, Loads
<1> QED
    BY <1>1, <1>9, Zenon DEF rest

-----------------------------------------------------------------------------
(* From guacd to the browser                                               *)

Early == stage \in {"idle", "connecting", "args"}
Readable == Spared(read, lost)
OnPath == got \o Carried(wire)

\* What the browser has and will get are the pieces that were spared, the
\* leftover first; and as long as it is there, none of them is missing.
PathInv ==
    /\ stage \in Stages /\ mapped \in BOOLEAN /\ online \in BOOLEAN
    /\ read \in Nat /\ lost \subseteq 1 .. read
    /\ leftover \in Seq(Nat) /\ got \in Seq(Nat) /\ wire \in Seq(WireEvents)
    /\ online => \A i \in 1 .. Len(wire) : wire[i].ev # "disconnect"
    /\ stage \in {"announce", "piped"} /\ online => mapped
    /\ Early => lost = {}
    /\ stage # "piped" => OnPath = <<>>
    /\ InGap \/ stage = "piped" => Size <= read
    /\ InGap => leftover = Readable
    /\ stage = "piped" /\ online => OnPath = Readable
    /\ IsPrefix(OnPath, Readable)

LEMMA PathTypes ==
    ASSUME PathInv
    PROVE  /\ read \in Nat /\ lost \subseteq 1 .. read /\ Carried(wire) \in Seq(Nat)
           /\ got \in Seq(Nat) /\ OnPath \in Seq(Nat) /\ Readable \in Seq(Nat)
           /\ wire \in Seq(WireEvents)
<1>1. got \in Seq(Nat) /\ wire \in Seq(WireEvents) /\ read \in Nat /\ lost \subseteq 1 .. read
    BY DEF PathInv
<1>2. Carried(wire) \in Seq(Nat)
    BY <1>1, CarriedType
<1>3. OnPath \in Seq(Nat)
    <2>1. got \o Carried(wire) \in Seq(Nat)
        BY <1>1, <1>2, PrefixFirst
    <2> QED
        BY <2>1 DEF OnPath
<1>4. Readable \in Seq(Nat)
    BY <1>1, SparedOrder DEF Readable
<1> QED
    BY <1>1, <1>2, <1>3, <1>4

\* A step that reads nothing and does not end a stage of the start: it may cut
\* the wire only when the browser has gone.
PathStays ==
    /\ stage' \in Stages /\ mapped' \in BOOLEAN /\ online' \in BOOLEAN
    /\ UNCHANGED <<read, lost, leftover>>
    /\ got' \in Seq(Nat) /\ wire' \in Seq(WireEvents)
    /\ online' => online /\ \A i \in 1 .. Len(wire') : wire'[i].ev # "disconnect"
    /\ stage' \in {"announce", "piped"} /\ online' => mapped'
    /\ (Early' => Early) /\ (InGap' => InGap)
    /\ stage' = "piped" <=> stage = "piped"
    /\ IsPrefix(OnPath', OnPath)
    /\ online' => OnPath' = OnPath

LEMMA PathKept ==
    ASSUME PathInv, PathStays
    PROVE  PathInv'
<1>1. OnPath \in Seq(Nat) /\ Readable \in Seq(Nat) /\ Readable' = Readable
    BY PathTypes DEF PathStays, Readable
<1>2. OnPath' \in Seq(Nat)
    <2>1. got' \in Seq(Nat) /\ wire' \in Seq(WireEvents)
        BY DEF PathStays
    <2>2. Carried(wire') \in Seq(Nat)
        BY <2>1, CarriedType
    <2>3. got' \o Carried(wire') \in Seq(Nat)
        BY <2>1, <2>2, PrefixFirst
    <2> QED
        BY <2>3 DEF OnPath
<1>3. IsPrefix(OnPath', Readable')
    <2>1. IsPrefix(OnPath', OnPath) /\ IsPrefix(OnPath, Readable)
        BY DEF PathInv, PathStays
    <2> QED
        BY <1>1, <1>2, <2>1, PrefixOf
<1>4. (stage # "piped")' => OnPath' = <<>>
    <2> SUFFICES ASSUME (stage # "piped")' PROVE OnPath' = <<>>
        OBVIOUS
    <2>1. OnPath = <<>> /\ IsPrefix(OnPath', OnPath)
        BY DEF PathInv, PathStays
    <2>2. IsPrefix(OnPath', <<>>)
        BY <2>1
    <2> HIDE DEF OnPath
    <2> QED
        BY <1>2, <2>2, PrefixNone
<1>5. read' = read /\ lost' = lost /\ leftover' = leftover
    BY DEF PathStays
<1>6. (InGap \/ stage = "piped")' => Size <= read'
    BY <1>5 DEF PathStays, PathInv
<1>7. InGap' => leftover' = Readable'
    BY <1>1, <1>5 DEF PathStays, PathInv
<1>8. stage' = "piped" /\ online' => OnPath' = Readable'
    BY <1>1 DEF PathStays, PathInv
<1>9. /\ stage' \in Stages /\ mapped' \in BOOLEAN /\ online' \in BOOLEAN
      /\ read' \in Nat /\ lost' \subseteq 1 .. read'
      /\ leftover' \in Seq(Nat) /\ got' \in Seq(Nat) /\ wire' \in Seq(WireEvents)
    BY <1>5 DEF PathStays, PathInv
<1>10. /\ online' => \A i \in 1 .. Len(wire') : wire'[i].ev # "disconnect"
       /\ stage' \in {"announce", "piped"} /\ online' => mapped'
       /\ (Early' => lost' = {})
    BY <1>5 DEF PathStays, PathInv
<1> QED
    BY <1>3, <1>4, <1>6, <1>7, <1>8, <1>9, <1>10 DEF PathInv

\* An event without pieces changes nothing of what is on the path.
LEMMA EmitPath ==
    ASSUME PathInv, NEW ev \in EventNames \ {"data"},
           wire' = Append(wire, Event(ev)), got' = got
    PROVE  /\ wire' \in Seq(WireEvents) /\ OnPath' = OnPath
           /\ ev # "disconnect" /\ online => \A i \in 1 .. Len(wire') : wire'[i].ev # "disconnect"
<1>1. wire \in Seq(WireEvents) /\ Carried(wire) \in Seq(Nat)
    BY PathTypes
<1>2. Event(ev) \in WireEvents /\ Event(ev).pieces = <<>> /\ Event(ev).ev = ev
    BY EventsAre
<1>3. wire' \in Seq(WireEvents) /\ Carried(wire') = Carried(wire) \o Event(ev).pieces
    BY <1>1, <1>2, CarriedAppend, Zenon
<1>4. Carried(wire) \o <<>> = Carried(wire)
    BY <1>1
<1>5. Carried(wire') = Carried(wire)
    BY <1>2, <1>3, <1>4, Zenon
<1>6. OnPath' = OnPath
    BY <1>5, Zenon DEF OnPath
<1>7. ASSUME ev # "disconnect", online, NEW i \in 1 .. Len(wire') PROVE wire'[i].ev # "disconnect"
    <2>1. \A k \in 1 .. Len(wire) : wire[k].ev # "disconnect"
        BY <1>7 DEF PathInv
    <2>2. /\ Len(wire') = Len(wire) + 1 /\ Len(wire) \in Nat /\ wire'[Len(wire) + 1] = Event(ev)
          /\ \A k \in 1 .. Len(wire) : wire'[k] = wire[k]
        <3>1. /\ Len(Append(wire, Event(ev))) = Len(wire) + 1
              /\ Append(wire, Event(ev))[Len(wire) + 1] = Event(ev)
              /\ \A k \in 1 .. Len(wire) : Append(wire, Event(ev))[k] = wire[k]
            BY <1>1, <1>2, OneMoreIs
        <3>2. Len(wire) \in Nat
            BY <1>1, KeptLen
        <3> QED
            BY <3>1, <3>2, Zenon
    <2>3. CASE i = Len(wire) + 1
        BY <1>2, <1>7, <2>2, <2>3, Zenon
    <2>4. CASE i # Len(wire) + 1
        <3>1. i \in 1 .. Len(wire)
            BY <2>2, <2>4
        <3> QED
            BY <2>1, <2>2, <3>1, Zenon
    <2> QED
        BY <2>3, <2>4
<1> QED
    BY <1>3, <1>6, <1>7

\* A step that leaves the wire and the browser alone.
LEMMA StillPath ==
    ASSUME PathInv, UNCHANGED <<got, wire>>
    PROVE  wire' \in Seq(WireEvents) /\ got' \in Seq(Nat) /\ OnPath' = OnPath /\ IsPrefix(OnPath', OnPath)
<1>1. wire' \in Seq(WireEvents) /\ got' \in Seq(Nat) /\ OnPath' = OnPath /\ OnPath \in Seq(Nat)
    BY PathTypes DEF OnPath
<1> QED
    BY <1>1, PrefixSelf

\* client.emit of an event without pieces.
LEMMA EmittedPath ==
    ASSUME PathInv, NEW ev \in EventNames \ {"data", "disconnect"},
           wire' = Emitted(<<Event(ev)>>), got' = got
    PROVE  /\ wire' \in Seq(WireEvents) /\ OnPath' = OnPath /\ IsPrefix(OnPath', OnPath)
           /\ online => \A i \in 1 .. Len(wire') : wire'[i].ev # "disconnect"
<1>1. CASE online
    <2>1. wire \o <<Event(ev)>> = Append(wire, Event(ev))
        BY PathTypes
    <2>2. wire' = Append(wire, Event(ev))
        BY <1>1, <2>1 DEF Emitted
    <2>3. OnPath' = OnPath /\ wire' \in Seq(WireEvents)
        BY <2>2, EmitPath
    <2>4. \A i \in 1 .. Len(wire') : wire'[i].ev # "disconnect"
        BY <1>1, <2>2, EmitPath
    <2> QED
        BY <2>3, <2>4, PathTypes, PrefixSelf
<1>2. CASE ~online
    BY <1>2, StillPath DEF Emitted
<1> QED
    BY <1>1, <1>2

\* client.disconnect, with an event before it or none.
LEMMA HungUpPath ==
    ASSUME PathInv, got' = got,
           HungUp(<<>>) \/ \E ev \in {"closed", "error"} : HungUp(<<Event(ev)>>)
    PROVE  wire' \in Seq(WireEvents) /\ IsPrefix(OnPath', OnPath) /\ online' = FALSE
<1>0. /\ wire \in Seq(WireEvents) /\ Carried(wire) \in Seq(Nat)
      /\ got \in Seq(Nat) /\ OnPath \in Seq(Nat)
    BY PathTypes
<1>1. ASSUME NEW w \in Seq(WireEvents), NEW ev \in EventNames \ {"data"}, Carried(w) = Carried(wire)
      PROVE  /\ w \o <<Event(ev)>> \in Seq(WireEvents)
             /\ Carried(w \o <<Event(ev)>>) = Carried(wire)
    <2>1. Event(ev) \in WireEvents /\ Event(ev).pieces = <<>>
        BY EventsAre
    <2>2. w \o <<Event(ev)>> = Append(w, Event(ev))
        OBVIOUS
    <2>3. Append(w, Event(ev)) \in Seq(WireEvents) /\ Carried(Append(w, Event(ev))) = Carried(w) \o Event(ev).pieces
        BY <2>1, CarriedAppend, Zenon
    <2>4. Carried(wire) \o <<>> = Carried(wire)
        BY <1>0
    <2> QED
        BY <1>1, <2>1, <2>2, <2>3, <2>4, Zenon
<1>2. /\ "disconnect" \in EventNames \ {"data"}
      /\ {"closed", "error"} \subseteq EventNames \ {"data"}
    BY DEF EventNames
<1>3. wire' \in Seq(WireEvents) /\ Carried(wire') = Carried(wire)
    <2>1. CASE HungUp(<<>>)
        <3>1. <<>> \o <<Event("disconnect")>> = <<Event("disconnect")>>
            OBVIOUS
        <3>2. wire' = wire \/ wire' = wire \o <<Event("disconnect")>>
            BY <2>1, <3>1 DEF HungUp, Emitted
        <3>3. /\ wire \o <<Event("disconnect")>> \in Seq(WireEvents)
              /\ Carried(wire \o <<Event("disconnect")>>) = Carried(wire)
            BY <1>0, <1>1, <1>2
        <3> QED
            BY <1>0, <3>2, <3>3
    <2>2. CASE \E ev \in {"closed", "error"} : HungUp(<<Event(ev)>>)
        <3>1. PICK ev \in {"closed", "error"} : HungUp(<<Event(ev)>>)
            BY <2>2
        <3> DEFINE w == wire \o <<Event(ev)>>
        <3>2. w \in Seq(WireEvents) /\ Carried(w) = Carried(wire)
            BY <1>0, <1>1, <1>2, <3>1, Zenon
        <3>3. w \o <<Event("disconnect")>> = wire \o (<<Event(ev)>> \o <<Event("disconnect")>>)
            BY <1>0
        <3>4. wire' = wire \/ wire' = wire \o (<<Event(ev)>> \o <<Event("disconnect")>>)
            BY <3>1 DEF HungUp, Emitted
        <3>5. wire' = wire \/ wire' = w \o <<Event("disconnect")>>
            BY <3>3, <3>4
        <3> HIDE DEF w
        <3> QED
            <4>1. /\ w \o <<Event("disconnect")>> \in Seq(WireEvents)
                  /\ Carried(w \o <<Event("disconnect")>>) = Carried(wire)
                BY <1>1, <1>2, <3>2
            <4> QED
                BY <1>0, <3>5, <4>1
    <2> QED
        BY <2>1, <2>2
<1>4. OnPath' = OnPath
    BY <1>3, Zenon DEF OnPath
<1> QED
    BY <1>0, <1>3, <1>4, PrefixSelf DEF HungUp

\* The first of a sequence, after another.
LEMMA FirstAfter ==
    ASSUME NEW s \in Seq(Nat), NEW t \in Seq(Nat), NEW i \in 1 .. Len(t)
    PROVE  /\ s \o SubSeq(t, 1, i - 1) \in Seq(Nat)
           /\ Len(s \o SubSeq(t, 1, i - 1)) = Len(s) + (i - 1)
           /\ \A j \in 1 .. Len(s) : (s \o SubSeq(t, 1, i - 1))[j] = s[j]
           /\ \A j \in 1 .. i - 1 : (s \o SubSeq(t, 1, i - 1))[Len(s) + j] = t[j]
<1> DEFINE u == SubSeq(t, 1, i - 1)
<1>1. u \in Seq(Nat) /\ Len(u) = i - 1 /\ \A j \in 1 .. i - 1 : u[j] = t[j]
    OBVIOUS
<1>2. Len(s) \in Nat /\ i - 1 \in Nat
    OBVIOUS
<1> HIDE DEF u
<1>3. IsJoin(s \o u, s, u, Nat)
    BY <1>1, Joined
<1>4. s \o u \in Seq(Nat) /\ Len(s \o u) = Len(s) + (i - 1)
    BY <1>1, <1>3 DEF IsJoin
<1>5. \A j \in 1 .. Len(s) : (s \o u)[j] = s[j]
    BY <1>1, <1>2, <1>3 DEF IsJoin
<1>6. \A j \in 1 .. i - 1 : (s \o u)[Len(s) + j] = t[j]
    BY <1>1, <1>2, <1>3 DEF IsJoin
<1> QED
    BY <1>4, <1>5, <1>6, Zenon DEF u

\* Where what is readable is gapless, from the start of an instruction on, every
\* piece that is delivered continues the one before.
LEMMA Smooth ==
    ASSUME PathInv, wire # <<>>, NEW base \in Nat, Ends(base),
           \A j \in 1 .. Len(OnPath) : Readable[j] = base + j
    PROVE  ContinuesAll(Head(wire).pieces)
<1> DEFINE ps == Head(wire).pieces
           rest == Carried(Tail(wire))
<1>1. Head(wire) \in WireEvents /\ Tail(wire) \in Seq(WireEvents) /\ Carried(wire) = ps \o rest
    BY PathTypes, CarriedFirst, Zenon
<1>2. ps \in Seq(Nat) /\ rest \in Seq(Nat)
    BY <1>1, EventsAre, CarriedType
<1>3. got \in Seq(Nat) /\ read \in Nat /\ OnPath \in Seq(Nat) /\ Readable \in Seq(Nat)
    BY PathTypes
<1> HIDE DEF ps, rest
<1>4. OnPath = got \o (ps \o rest)
    BY <1>1, Zenon DEF OnPath
<1>5. /\ Len(OnPath) = Len(got) + Len(ps) + Len(rest)
      /\ \A j \in 1 .. Len(got) : OnPath[j] = got[j]
      /\ \A j \in 1 .. Len(ps) : OnPath[Len(got) + j] = ps[j]
    <2> DEFINE v == got \o (ps \o rest)
    <2>1. /\ Len(v) = Len(got) + Len(ps) + Len(rest)
          /\ \A j \in 1 .. Len(got) : v[j] = got[j]
          /\ \A j \in 1 .. Len(ps) : v[Len(got) + j] = ps[j]
        BY <1>2, <1>3
    <2> HIDE DEF v
    <2>2. OnPath = v
        BY <1>4, Zenon DEF v
    <2> QED
        BY <2>1, <2>2, Zenon
<1>6. IsPrefix(OnPath, Readable)
    BY DEF PathInv
<1>7. Len(OnPath) <= Len(Readable) /\ \A j \in 1 .. Len(OnPath) : OnPath[j] = Readable[j]
    BY <1>3, <1>6, PrefixGives, Zenon
<1>8. \A j \in 1 .. Len(got) + Len(ps) : OnPath[j] = base + j
    <2>1. /\ Len(got) \in Nat /\ Len(ps) \in Nat /\ Len(rest) \in Nat
          /\ Len(OnPath) \in Nat /\ Len(Readable) \in Nat
        BY <1>2, <1>3, KeptLen
    <2>2. 1 .. Len(got) + Len(ps) \subseteq 1 .. Len(OnPath) /\ 1 .. Len(OnPath) \subseteq 1 .. Len(Readable)
        <3> DEFINE a == Len(got)
                   b == Len(ps)
                   c == Len(rest)
                   d == Len(OnPath)
                   r == Len(Readable)
        <3>1. a \in Nat /\ b \in Nat /\ c \in Nat /\ d \in Nat /\ r \in Nat
            BY <2>1
        <3>2. d = a + b + c /\ d <= r
            BY <1>5, <1>7
        <3> HIDE DEF a, b, c, d, r
        <3>3. 1 .. a + b \subseteq 1 .. d /\ 1 .. d \subseteq 1 .. r
            BY <3>1, <3>2
        <3> QED
            BY <3>3 DEF a, b, d, r
    <2> QED
        BY <1>7, <2>2, Zenon
<1>9. DOMAIN ps = 1 .. Len(ps) /\ Len(ps) \in Nat /\ Len(got) \in Nat
    BY <1>2, <1>3
<1>10. ASSUME NEW i \in 1 .. Len(ps)
       PROVE  Continues(got \o SubSeq(ps, 1, i - 1), ps[i])
    <2> DEFINE k == Len(got) + i
               before == got \o SubSeq(ps, 1, i - 1)
    <2>1. /\ before \in Seq(Nat) /\ Len(before) = k - 1
          /\ \A j \in 1 .. Len(got) : before[j] = got[j]
          /\ \A j \in 1 .. i - 1 : before[Len(got) + j] = ps[j]
        <3>1. k - 1 = Len(got) + (i - 1)
            BY <1>9
        <3>2. /\ before \in Seq(Nat) /\ Len(before) = Len(got) + (i - 1)
              /\ \A j \in 1 .. Len(got) : before[j] = got[j]
              /\ \A j \in 1 .. i - 1 : before[Len(got) + j] = ps[j]
            BY <1>2, <1>3, FirstAfter, Zenon
        <3> QED
            BY <3>1, <3>2, Zenon
    <2>2. ps[i] = base + k
        <3>1. OnPath[Len(got) + i] = ps[i]
            BY <1>5, Zenon
        <3>2. k \in 1 .. Len(got) + Len(ps)
            BY <1>9
        <3>3. OnPath[k] = base + k
            BY <1>8, <3>2, Zenon
        <3> QED
            BY <3>1, <3>3, Zenon
    <2> HIDE DEF before
    <2>3. CASE k = 1
        <3>1. before = <<>> /\ ps[i] - 1 = base
            BY <2>1, <2>2, <2>3
        <3> QED
            BY <3>1 DEF Continues, Ends, before
    <2>4. CASE k # 1
        <3>1. k - 1 \in 1 .. Len(got) + Len(ps) /\ before # <<>>
            BY <1>9, <2>1, <2>4
        <3>2. before[k - 1] = OnPath[k - 1]
            <4>1. CASE i = 1
                <5>1. k - 1 \in 1 .. Len(got)
                    BY <1>9, <3>1, <4>1
                <5> QED
                    BY <1>5, <2>1, <5>1, Zenon
            <4>2. CASE i # 1
                <5>1. i - 1 \in 1 .. Len(ps) /\ i - 1 \in 1 .. i - 1 /\ k - 1 = Len(got) + (i - 1)
                    BY <1>9, <4>2
                <5>2. before[Len(got) + (i - 1)] = ps[i - 1] /\ OnPath[Len(got) + (i - 1)] = ps[i - 1]
                    BY <1>5, <2>1, <5>1, Zenon
                <5> QED
                    BY <5>1, <5>2
            <4> QED
                BY <4>1, <4>2
        <3>3. Last(before) = base + (k - 1)
            BY <1>8, <2>1, <3>1, <3>2 DEF Last
        <3>4. ps[i] - 1 = Last(before) /\ ps[i] = Last(before) + 1
            BY <2>2, <3>3, <1>9
        <3> QED
            BY <3>1, <3>4 DEF Continues, before
    <2> QED
        BY <2>3, <2>4
<1> QED
    BY <1>9, <1>10 DEF ContinuesAll, ps

LEMMA DeliverPath ==
    ASSUME PathInv, Deliver
    PROVE  PathInv'
<1> DEFINE e == Head(wire)
           rest == Tail(wire)
<1>0. /\ wire # <<>> /\ wire \in Seq(WireEvents) /\ got \in Seq(Nat)
      /\ Carried(wire) \in Seq(Nat) /\ OnPath \in Seq(Nat)
    BY PathTypes DEF Deliver
<1>1. e \in WireEvents /\ rest \in Seq(WireEvents) /\ Carried(wire) = e.pieces \o Carried(rest)
    BY <1>0, CarriedFirst, Zenon
<1>2. e.pieces \in Seq(Nat) /\ Carried(rest) \in Seq(Nat)
    BY <1>1, EventsAre, CarriedType
<1>3. /\ wire' = IF e.ev = "disconnect" THEN <<>> ELSE rest
      /\ e.ev = "data" => got' = got \o e.pieces
      /\ e.ev # "data" => got' = got
      /\ UNCHANGED <<stage, link, opening, broken, read, leftover, lost, mapped, told, online>>
    BY DEF Deliver, linkVars
<1>5. online => e.ev # "disconnect" /\ \A i \in 1 .. Len(rest) : rest[i].ev # "disconnect"
    <2>1. /\ e = wire[1] /\ 1 \in 1 .. Len(wire)
          /\ \A i \in 1 .. Len(rest) : rest[i] = wire[i + 1] /\ i + 1 \in 1 .. Len(wire)
        BY <1>0
    <2> HIDE DEF e, rest
    <2> QED
        BY <2>1, Zenon DEF PathInv
<1>h. <<>> \in Seq(WireEvents) /\ <<>> \in Seq(Nat)
    OBVIOUS
<1> HIDE DEF e, rest
<1>6. /\ wire' \in Seq(WireEvents) /\ got' \in Seq(Nat)
      /\ IsPrefix(OnPath', OnPath) /\ (e.ev # "disconnect" => OnPath' = OnPath)
    <2>1. CASE e.ev = "data"
        <3>1. got' = got \o e.pieces /\ wire' = rest
            BY <1>3, <2>1
        <3>2. got \o e.pieces \in Seq(Nat)
            BY <1>0, <1>2, PrefixFirst
        <3>3. Associate(got, e.pieces, Carried(rest))
            BY <1>0, <1>2, ConcatThree, Zenon
        <3>4. OnPath' = (got \o e.pieces) \o Carried(rest)
            BY <3>1, Zenon DEF OnPath
        <3>5. OnPath = got \o (e.pieces \o Carried(rest))
            BY <1>1, Zenon DEF OnPath
        <3>6. OnPath' = OnPath
            BY <3>3, <3>4, <3>5 DEF Associate
        <3> QED
            BY <1>0, <1>1, <3>1, <3>2, <3>6, PrefixSelf
    <2>2. CASE e.ev = "disconnect"
        <3>1. wire' = <<>> /\ got' = got
            BY <1>3, <2>2
        <3>2. OnPath' = got \o <<>>
            BY <3>1, CarriedNone, Zenon DEF OnPath
        <3>3. OnPath' = got
            BY <1>0, <3>2
        <3>4. IsPrefix(got, got \o Carried(wire))
            BY <1>0, PrefixFirst
        <3> QED
            BY <1>0, <1>h, <2>2, <3>1, <3>3, <3>4, Zenon DEF OnPath
    <2>3. CASE e.ev \notin {"data", "disconnect"}
        <3>1. wire' = rest /\ got' = got /\ e.pieces = <<>>
            BY <1>1, <1>3, <2>3 DEF WireEvents
        <3>2. <<>> \o Carried(rest) = Carried(rest)
            BY <1>2
        <3>3. Carried(wire) = Carried(rest)
            BY <1>1, <3>1, <3>2, Zenon
        <3>4. OnPath' = OnPath
            BY <3>1, <3>3, Zenon DEF OnPath
        <3> QED
            BY <1>0, <1>1, <3>1, <3>4, PrefixSelf
    <2> QED
        BY <2>1, <2>2, <2>3
<1>7. PathStays
    <2>1. /\ stage' = stage /\ mapped' = mapped /\ online' = online
          /\ UNCHANGED <<read, lost, leftover>>
        BY <1>3
    <2>2. online' => online /\ \A i \in 1 .. Len(wire') : wire'[i].ev # "disconnect"
        BY <1>3, <1>5, <2>1
    <2>3. online' => OnPath' = OnPath
        BY <1>5, <1>6, <2>1
    <2>4. /\ stage \in Stages /\ mapped \in BOOLEAN /\ online \in BOOLEAN
          /\ stage \in {"announce", "piped"} /\ online => mapped
        BY DEF PathInv
    <2>5. /\ stage' \in Stages /\ mapped' \in BOOLEAN /\ online' \in BOOLEAN
          /\ stage' \in {"announce", "piped"} /\ online' => mapped'
          /\ (Early' => Early) /\ (InGap' => InGap)
          /\ stage' = "piped" <=> stage = "piped"
        BY <2>1, <2>4 DEF Early, InGap
    <2> QED
        BY <1>6, <2>1, <2>2, <2>3, <2>5 DEF PathStays
<1> QED
    BY <1>7, PathKept

\* What PathStays asks of the stage and of the session.
StageStays ==
    /\ stage' \in Stages /\ mapped' \in BOOLEAN
    /\ UNCHANGED <<read, lost, leftover, got>>
    /\ stage' \in {"announce", "piped"} /\ online' => mapped'
    /\ (Early' => Early) /\ (InGap' => InGap)
    /\ stage' = "piped" <=> stage = "piped"

LEMMA QuietPath ==
    ASSUME PathInv, StageStays, UNCHANGED <<online, wire>>
    PROVE  PathInv'
<1>1. wire' \in Seq(WireEvents) /\ got' \in Seq(Nat) /\ OnPath' = OnPath /\ IsPrefix(OnPath', OnPath)
    BY StillPath DEF StageStays
<1>2. /\ online' \in BOOLEAN
      /\ online' => online /\ \A i \in 1 .. Len(wire') : wire'[i].ev # "disconnect"
    BY DEF PathInv, StageStays
<1>3. PathStays
    BY <1>1, <1>2 DEF PathStays, StageStays
<1> QED
    BY <1>3, PathKept

LEMMA EmittingPath ==
    ASSUME PathInv, StageStays, online' = online,
           NEW ev \in EventNames \ {"data", "disconnect"}, wire' = Emitted(<<Event(ev)>>)
    PROVE  PathInv'
<1>1. /\ wire' \in Seq(WireEvents) /\ OnPath' = OnPath /\ IsPrefix(OnPath', OnPath)
      /\ online => \A i \in 1 .. Len(wire') : wire'[i].ev # "disconnect"
    BY EmittedPath DEF StageStays
<1>2. online' \in BOOLEAN /\ got' \in Seq(Nat)
    BY DEF PathInv, StageStays
<1>3. PathStays
    BY <1>1, <1>2 DEF PathStays, StageStays, PathInv
<1> QED
    BY <1>3, PathKept

LEMMA HangingPath ==
    ASSUME PathInv, StageStays,
           HungUp(<<>>) \/ \E ev \in {"closed", "error"} : HungUp(<<Event(ev)>>)
    PROVE  PathInv'
<1>1. wire' \in Seq(WireEvents) /\ IsPrefix(OnPath', OnPath) /\ online' = FALSE
    BY HungUpPath DEF StageStays
<1>2. got' \in Seq(Nat)
    BY DEF PathInv, StageStays
<1>3. PathStays
    BY <1>1, <1>2 DEF PathStays, StageStays
<1> QED
    BY <1>3, PathKept

-----------------------------------------------------------------------------
(* The steps that keep to PathStays                                        *)

LEMMA QuietSteps ==
    ASSUME PathInv,
           \/ Start \/ Connects \/ HandshakeBreaks \/ Registered \/ EndsUnseen
           \/ Disconnected \/ Input \/ UNCHANGED channelVars
    PROVE  PathInv'
<1>0. stage \in Stages /\ mapped \in BOOLEAN /\ (stage \in {"announce", "piped"} /\ online => mapped)
    BY DEF PathInv
<1>1. StageStays /\ UNCHANGED <<online, wire>>
    <2>1. CASE Start
        BY <1>0, <2>1 DEF Start, StageStays, Stages, Early, InGap, linkVars, inputVars
    <2>2. CASE Connects
        BY <1>0, <2>2 DEF Connects, StageStays, Stages, Early, InGap, browserVars, inputVars
    <2>3. CASE HandshakeBreaks
        BY <1>0, <2>3 DEF HandshakeBreaks, StageStays, Early, InGap, browserVars, inputVars
    <2>4. CASE Registered
        BY <1>0, <2>4 DEF Registered, StageStays, Stages, Early, InGap, linkVars, browserVars, inputVars
    <2>5. CASE EndsUnseen
        BY <1>0, <2>5 DEF EndsUnseen, StageStays, Early, InGap, browserVars, inputVars
    <2>6. CASE Disconnected
        BY <1>0, <2>6 DEF Disconnected, StageStays, Early, InGap, browserVars, inputVars
    <2>7. CASE Input
        BY <1>0, <2>7 DEF Input, StageStays, Early, InGap, linkVars, browserVars
    <2>8. CASE UNCHANGED channelVars
        BY <1>0, <2>8 DEF channelVars, StageStays, Early, InGap, linkVars, browserVars
    <2> QED
        BY <2>1, <2>2, <2>3, <2>4, <2>5, <2>6, <2>7, <2>8
<1> QED
    BY <1>1, QuietPath

LEMMA FailingSteps ==
    ASSUME PathInv, ConnectFails \/ HandshakeTimeout \/ GapFails
    PROVE  PathInv'
<1>0. mapped \in BOOLEAN
    BY DEF PathInv
<1>1. StageStays /\ online' = online /\ wire' = Emitted(<<Event("error")>>)
    <2>1. CASE ConnectFails
        BY <1>0, <2>1 DEF ConnectFails, Fails, StageStays, Stages, Early, InGap, browserVars
    <2>2. CASE HandshakeTimeout
        BY <1>0, <2>2 DEF HandshakeTimeout, Fails, StageStays, Stages, Early, InGap, browserVars
    <2>3. CASE GapFails
        BY <1>0, <2>3 DEF GapFails, Fails, StageStays, Stages, Early, InGap, linkVars, browserVars
    <2> QED
        BY <2>1, <2>2, <2>3
<1>2. "error" \in EventNames \ {"data", "disconnect"}
    BY DEF EventNames
<1> QED
    BY <1>1, <1>2, EmittingPath

LEMMA HangingSteps ==
    ASSUME PathInv, Crashes \/ PipeEnds \/ Expires
    PROVE  PathInv'
<1>0. stage \in Stages /\ mapped \in BOOLEAN
    BY DEF PathInv
<1>1. StageStays /\ (HungUp(<<>>) \/ \E ev \in {"closed", "error"} : HungUp(<<Event(ev)>>))
    <2>1. CASE Crashes
        BY <1>0, <2>1 DEF Crashes, StageStays, Stages, Early, InGap, browserVars
    <2>2. CASE PipeEnds
        <3>1. online' = FALSE
            BY <2>2 DEF PipeEnds, HungUp
        <3> QED
            BY <1>0, <2>2, <3>1 DEF PipeEnds, StageStays, Early, InGap, browserVars
    <2>3. CASE Expires
        <3>1. online' = FALSE
            BY <2>3 DEF Expires, HungUp
        <3> QED
            BY <1>0, <2>3, <3>1 DEF Expires, StageStays, Early, InGap, browserVars
    <2> QED
        BY <2>1, <2>2, <2>3
<1> QED
    BY <1>1, HangingPath

LEMMA CheckedPath ==
    ASSUME PathInv, NEW m, InputChecked(m)
    PROVE  PathInv'
<1>0. stage \in Stages /\ mapped \in BOOLEAN /\ (stage \in {"announce", "piped"} /\ online => mapped)
    BY DEF PathInv
<1>1. /\ UNCHANGED <<stage, read, lost, leftover, got>>
      /\ \/ UNCHANGED <<mapped, online, wire>>
         \/ mapped' = FALSE /\ online /\ HungUp(<<Event("error")>>)
         \/ mapped' = FALSE /\ ~online /\ UNCHANGED <<wire, online>>
    BY DEF InputChecked, browserVars
<1>2. CASE UNCHANGED <<mapped, online, wire>>
    <2>1. StageStays
        BY <1>0, <1>1, <1>2 DEF StageStays, Early, InGap
    <2> QED
        BY <1>2, <2>1, QuietPath
<1>3. CASE mapped' = FALSE /\ online /\ HungUp(<<Event("error")>>)
    <2>1. StageStays
        BY <1>0, <1>1, <1>3 DEF StageStays, Early, InGap, HungUp
    <2> QED
        BY <1>3, <2>1, HangingPath
<1>4. CASE mapped' = FALSE /\ ~online /\ UNCHANGED <<wire, online>>
    <2>1. StageStays
        BY <1>0, <1>1, <1>4 DEF StageStays, Early, InGap
    <2> QED
        BY <1>4, <2>1, QuietPath
<1> QED
    BY <1>1, <1>2, <1>3, <1>4

LEMMA LeavingPath ==
    ASSUME PathInv, BrowserLeaves
    PROVE  PathInv'
<1>0. got \in Seq(Nat) /\ Carried(wire) \in Seq(Nat) /\ <<>> \in Seq(WireEvents)
    BY PathTypes
<1>1. /\ UNCHANGED <<stage, read, lost, leftover, mapped, got>>
      /\ wire' = <<>> /\ online' = FALSE
    BY DEF BrowserLeaves, linkVars
<1>2. IsPrefix(OnPath', OnPath)
    <2>1. OnPath' = got \o <<>>
        BY <1>1, CarriedNone, Zenon DEF OnPath
    <2>2. OnPath' = got
        BY <1>0, <2>1
    <2>3. IsPrefix(got, got \o Carried(wire))
        BY <1>0, PrefixFirst
    <2> QED
        BY <2>2, <2>3, Zenon DEF OnPath
<1>3. stage \in Stages /\ mapped \in BOOLEAN
    BY <1>1 DEF PathInv
<1>4. PathStays
    BY <1>0, <1>1, <1>2, <1>3 DEF PathStays, Early, InGap
<1> QED
    BY <1>4, PathKept

\* Nothing on the path: the browser has nothing, and nothing is on its way.
LEMMA NothingYet ==
    ASSUME PathInv, OnPath = <<>>
    PROVE  got = <<>> /\ Carried(wire) = <<>>
<1> DEFINE c == Carried(wire)
<1>1. got \in Seq(Nat) /\ c \in Seq(Nat)
    BY PathTypes
<1> HIDE DEF c
<1>2. got \o c = <<>>
    BY Zenon DEF OnPath, c
<1>3. Len(got) = 0 /\ Len(c) = 0
    <2>1. Len(got \o c) = Len(got) + Len(c) /\ Len(got) \in Nat /\ Len(c) \in Nat
        BY <1>1
    <2>2. Len(got \o c) = 0
        BY <1>2
    <2> QED
        BY <2>1, <2>2
<1>4. got = <<>> /\ c = <<>>
    BY <1>1, <1>3
<1> QED
    BY <1>4 DEF c

LEMMA NoHangUp ==
    ASSUME NEW w \in Seq(WireEvents), NEW e \in WireEvents, e.ev # "disconnect",
           \A i \in 1 .. Len(w) : w[i].ev # "disconnect"
    PROVE  \A i \in 1 .. Len(Append(w, e)) : Append(w, e)[i].ev # "disconnect"
<1>1. /\ Len(Append(w, e)) = Len(w) + 1 /\ Append(w, e)[Len(w) + 1] = e
      /\ \A k \in 1 .. Len(w) : Append(w, e)[k] = w[k]
    BY OneMoreIs
<1>2. Len(w) \in Nat
    BY KeptLen
<1>3. ASSUME NEW i \in 1 .. Len(Append(w, e)) PROVE Append(w, e)[i].ev # "disconnect"
    <2>1. CASE i = Len(w) + 1
        BY <1>1, <2>1, Zenon
    <2>2. CASE i # Len(w) + 1
        <3>1. i \in 1 .. Len(w)
            BY <1>1, <1>2, <2>2
        <3> QED
            BY <1>1, <3>1, Zenon
    <2> QED
        BY <2>1, <2>2
<1> QED
    BY <1>3

LEMMA GapPath ==
    ASSUME PathInv, NEW n \in 1 .. Pieces, GapChunk(n)
    PROVE  PathInv'
<1>0. /\ n \in Nat /\ read \in Nat /\ lost \subseteq 1 .. read /\ Size <= read /\ InGap
    BY SizeIs DEF PathInv, GapChunk
<1>1. /\ UNCHANGED <<stage, leftover, mapped, online, wire, got>>
      /\ read' = read + n /\ lost' = lost \cup (read + 1 .. read + n)
    BY DEF GapChunk, Arrives, browserVars
<1>2. Readable' = Readable
    <2>1. Spared(read + n, lost \cup (read + 1 .. read + n)) = Spared(read, lost)
        BY <1>0, SparedMore, Zenon
    <2> QED
        BY <1>1, <2>1, Zenon DEF Readable
<1>3. OnPath' = OnPath
    BY <1>1 DEF OnPath
<1>4. read' \in Nat /\ Size <= read' /\ lost' \subseteq 1 .. read'
    BY <1>0, <1>1, SizeIs
<1>5. /\ stage' \in Stages /\ mapped' \in BOOLEAN /\ online' \in BOOLEAN
      /\ leftover' \in Seq(Nat) /\ got' \in Seq(Nat) /\ wire' \in Seq(WireEvents)
      /\ online' => \A i \in 1 .. Len(wire') : wire'[i].ev # "disconnect"
    BY <1>1 DEF PathInv
<1>6. /\ stage' \in {"announce", "piped"} /\ online' => mapped'
      /\ ~Early' /\ InGap' /\ stage' # "piped" /\ OnPath' = <<>>
    BY <1>0, <1>1, <1>3 DEF PathInv, InGap, Early
<1>7. leftover' = Readable' /\ IsPrefix(OnPath', Readable')
    BY <1>0, <1>1, <1>2, <1>3, <1>4 DEF PathInv
<1> QED
    BY <1>4, <1>5, <1>6, <1>7 DEF PathInv

LEMMA PipePath ==
    ASSUME PathInv, NEW n \in 1 .. Pieces, PipeChunk(n)
    PROVE  PathInv'
<1> DEFINE ps == Range1(read + 1, read + n)
<1>0. /\ n \in Nat /\ read \in Nat /\ lost \subseteq 1 .. read /\ Size <= read /\ stage = "piped"
      /\ OnPath \in Seq(Nat) /\ Readable \in Seq(Nat)
    BY PathTypes, SizeIs DEF PathInv, PipeChunk
<1>1. /\ UNCHANGED <<stage, leftover, mapped, online, got>>
      /\ read' = read + n
      /\ \/ mapped /\ wire' = Emitted(<<Data(ps)>>) /\ lost' = lost
         \/ ~mapped /\ wire' = wire /\ lost' = lost \cup (read + 1 .. read + n)
    BY DEF PipeChunk, Arrives, browserVars
<1>2. /\ ps \in Seq(Nat)
      /\ Spared(read + n, lost) = Spared(read, lost) \o ps
      /\ Spared(read + n, lost \cup (read + 1 .. read + n)) = Spared(read, lost)
    BY <1>0, SparedMore, Zenon
<1> HIDE DEF ps
<1>3. read' \in Nat /\ Size <= read' /\ lost' \subseteq 1 .. read'
    <2>1. read + n \in Nat /\ Size <= read + n /\ 1 .. read \subseteq 1 .. read + n
        BY <1>0, SizeIs
    <2>2. read + 1 .. read + n \subseteq 1 .. read + n
        BY <1>0
    <2> QED
        BY <1>0, <1>1, <2>1, <2>2, Zenon
<1>4. /\ stage' \in Stages /\ mapped' \in BOOLEAN /\ online' \in BOOLEAN
      /\ leftover' \in Seq(Nat) /\ got' \in Seq(Nat)
      /\ stage' = "piped" /\ ~Early' /\ ~InGap' /\ (online' => mapped')
    BY <1>0, <1>1, <1>3 DEF PathInv, InGap, Early
<1>5. /\ wire' \in Seq(WireEvents)
      /\ online' => OnPath' = Readable' /\ \A i \in 1 .. Len(wire') : wire'[i].ev # "disconnect"
      /\ IsPrefix(OnPath', Readable')
    <2>1. CASE ~online
        <3>1. wire' = wire /\ OnPath' = OnPath /\ ~online'
            BY <1>1, <2>1 DEF Emitted, OnPath
        <3>2. Readable' = Readable \/ Readable' = Readable \o ps
            <4>1. Spared(read', lost') = Spared(read, lost) \/ Spared(read', lost') = Spared(read, lost) \o ps
                BY <1>1, <1>2, Zenon
            <4> QED
                BY <4>1, Zenon DEF Readable
        <3>3. IsPrefix(OnPath, Readable)
            BY DEF PathInv
        <3>4. IsPrefix(OnPath, Readable \o ps)
            BY <1>0, <1>2, <3>3, PrefixMore
        <3>5. wire' \in Seq(WireEvents)
            BY <3>1, PathTypes
        <3>6. IsPrefix(OnPath', Readable')
            BY <3>1, <3>2, <3>3, <3>4, Zenon
        <3> QED
            BY <3>1, <3>5, <3>6
    <2>2. CASE online
        <3>0. /\ wire \in Seq(WireEvents) /\ got \in Seq(Nat) /\ Carried(wire) \in Seq(Nat)
              /\ mapped /\ OnPath = Readable /\ \A i \in 1 .. Len(wire) : wire[i].ev # "disconnect"
            BY <1>0, <2>2, PathTypes DEF PathInv
        <3>1. Data(ps) \in WireEvents /\ Data(ps).pieces = ps /\ Data(ps).ev = "data"
            BY <1>2, EventsAre
        <3>2. wire' = Append(wire, Data(ps)) /\ lost' = lost
            <4>1. wire' = wire \o <<Data(ps)>> /\ lost' = lost
                BY <1>1, <2>2, <3>0 DEF Emitted
            <4>2. wire \o <<Data(ps)>> = Append(wire, Data(ps))
                BY <3>0
            <4> QED
                BY <4>1, <4>2
        <3>3. wire' \in Seq(WireEvents) /\ Carried(wire') = Carried(wire) \o ps
            BY <3>0, <3>1, <3>2, CarriedAppend, Zenon
        <3>4. Associate(got, Carried(wire), ps)
            BY <1>2, <3>0, ConcatThree, Zenon
        <3>5. OnPath' = got \o (Carried(wire) \o ps)
            BY <1>1, <3>3, Zenon DEF OnPath
        <3>6. OnPath' = OnPath \o ps
            BY <3>4, <3>5, Zenon DEF Associate, OnPath
        <3>7. Readable' = Readable \o ps
            <4>1. Spared(read', lost') = Spared(read, lost) \o ps
                BY <1>1, <1>2, <3>2, Zenon
            <4> QED
                BY <4>1, Zenon DEF Readable
        <3>8. OnPath' = Readable'
            BY <3>0, <3>6, <3>7, Zenon
        <3>9. Readable' \in Seq(Nat)
            <4>1. Readable \o ps \in Seq(Nat)
                BY <1>0, <1>2, PrefixFirst
            <4> QED
                BY <3>7, <4>1, Zenon
        <3>10. IsPrefix(OnPath', Readable')
            BY <3>8, <3>9, PrefixSelf
        <3>11. \A i \in 1 .. Len(wire') : wire'[i].ev # "disconnect"
            <4>1. Data(ps).ev # "disconnect"
                BY <3>1
            <4> QED
                BY <3>0, <3>1, <3>2, <4>1, NoHangUp, Zenon
        <3> QED
            BY <3>3, <3>8, <3>10, <3>11
    <2> QED
        BY <2>1, <2>2
<1> QED
    BY <1>3, <1>4, <1>5 DEF PathInv

LEMMA PipedPath ==
    ASSUME PathInv, Piped
    PROVE  PathInv'
<1> DEFINE ready == Event("ready")
           first == IF leftover = <<>> THEN wire ELSE Append(wire, Data(leftover))
<1>0. /\ wire \in Seq(WireEvents) /\ leftover \in Seq(Nat) /\ Readable \in Seq(Nat)
      /\ OnPath = <<>> /\ Size <= read /\ leftover = Readable
      /\ online => \A i \in 1 .. Len(wire) : wire[i].ev # "disconnect"
    BY PathTypes DEF PathInv, Piped, InGap
<1>1. /\ UNCHANGED <<read, lost, mapped, online, got>>
      /\ stage = "announce" /\ stage' = "piped" /\ leftover' = <<>>
      /\ wire' = Emitted((IF leftover = <<>> THEN <<>> ELSE <<Data(leftover)>>) \o <<ready>>)
    BY DEF Piped, browserVars
<1>2. got = <<>> /\ Carried(wire) = <<>>
    BY <1>0, NothingYet
<1>3. Readable' = Readable
    BY <1>1, Zenon DEF Readable
<1>4. /\ Data(leftover) \in WireEvents /\ Data(leftover).pieces = leftover /\ Data(leftover).ev # "disconnect"
      /\ ready \in WireEvents /\ ready.pieces = <<>> /\ ready.ev # "disconnect"
    BY <1>0, EventsAre DEF EventNames
<1>5. /\ first \in Seq(WireEvents) /\ Carried(first) = leftover
      /\ online => \A i \in 1 .. Len(first) : first[i].ev # "disconnect"
    <2>1. CASE leftover = <<>>
        BY <1>0, <1>2, <2>1, Zenon
    <2>2. CASE leftover # <<>>
        <3>1. first = Append(wire, Data(leftover))
            BY <2>2
        <3>2. first \in Seq(WireEvents) /\ Carried(first) = <<>> \o leftover
            BY <1>0, <1>2, <1>4, <3>1, CarriedAppend, Zenon
        <3>3. <<>> \o leftover = leftover
            BY <1>0
        <3>4. online => \A i \in 1 .. Len(first) : first[i].ev # "disconnect"
            BY <1>0, <1>4, <3>1, NoHangUp, Zenon
        <3> QED
            BY <3>2, <3>3, <3>4, Zenon
    <2> QED
        BY <2>1, <2>2
<1>6. online => wire' = Append(first, ready)
    <2> SUFFICES ASSUME online PROVE wire' = Append(first, ready)
        OBVIOUS
    <2> HIDE DEF ready
    <2>1. CASE leftover = <<>>
        <3>1. wire' = wire \o (<<>> \o <<ready>>) /\ first = wire
            BY <1>1, <2>1 DEF Emitted
        <3>2. wire \o (<<>> \o <<ready>>) = Append(wire, ready)
            BY <1>0
        <3> QED
            BY <3>1, <3>2
    <2>2. CASE leftover # <<>>
        <3> DEFINE d == Data(leftover)
        <3>1. wire' = wire \o (<<d>> \o <<ready>>) /\ first = Append(wire, d)
            BY <1>1, <2>2 DEF Emitted
        <3> HIDE DEF d
        <3>2. wire \o (<<d>> \o <<ready>>) = Append(Append(wire, d), ready)
            BY <1>0
        <3> QED
            BY <3>1, <3>2
    <2> QED
        BY <2>1, <2>2
<1> HIDE DEF first, ready
<1>7. /\ wire' \in Seq(WireEvents)
      /\ online' => \A i \in 1 .. Len(wire') : wire'[i].ev # "disconnect"
      /\ online' => OnPath' = Readable'
      /\ IsPrefix(OnPath', Readable')
    <2>1. CASE ~online
        <3>1. wire' = wire /\ ~online'
            BY <1>1, <2>1 DEF Emitted
        <3>2. OnPath' = OnPath
            BY <1>1, <3>1 DEF OnPath
        <3>3. IsPrefix(OnPath, Readable)
            BY DEF PathInv
        <3> QED
            BY <1>0, <1>3, <3>1, <3>2, <3>3, Zenon
    <2>2. CASE online
        <3>1. wire' = Append(first, ready)
            BY <1>6, <2>2
        <3>2. wire' \in Seq(WireEvents) /\ Carried(wire') = leftover \o <<>>
            BY <1>4, <1>5, <3>1, CarriedAppend, Zenon
        <3>3. leftover \o <<>> = leftover /\ <<>> \o leftover = leftover
            BY <1>0
        <3>4. \A i \in 1 .. Len(wire') : wire'[i].ev # "disconnect"
            BY <1>4, <1>5, <2>2, <3>1, NoHangUp, Zenon
        <3>5. OnPath' = got' \o Carried(wire')
            BY Zenon DEF OnPath
        <3>6. OnPath' = Readable'
            BY <1>0, <1>1, <1>2, <1>3, <3>2, <3>3, <3>5, Zenon
        <3>7. IsPrefix(Readable, Readable)
            BY <1>0, PrefixSelf
        <3> QED
            BY <1>3, <3>2, <3>4, <3>6, <3>7, Zenon
    <2> QED
        BY <2>1, <2>2
<1>8. /\ stage' \in Stages /\ mapped' \in BOOLEAN /\ online' \in BOOLEAN
      /\ read' \in Nat /\ lost' \subseteq 1 .. read' /\ Size <= read'
      /\ leftover' \in Seq(Nat) /\ got' \in Seq(Nat)
      /\ (online' => mapped') /\ ~Early' /\ ~InGap'
    <2>1. <<>> \in Seq(Nat)
        OBVIOUS
    <2> QED
        BY <1>0, <1>1, <2>1 DEF PathInv, Stages, Early, InGap
<1> QED
    BY <1>1, <1>7, <1>8 DEF PathInv

LEMMA HandshakePath ==
    ASSUME PathInv, NEW n \in 1 .. Pieces, HandshakeChunk(n)
    PROVE  PathInv'
<1>0. /\ n \in Nat \ {0} /\ read \in Nat /\ lost = {} /\ OnPath = <<>>
      /\ stage = "args" /\ Early /\ mapped \in BOOLEAN /\ online \in BOOLEAN
      /\ leftover \in Seq(Nat) /\ got \in Seq(Nat) /\ wire \in Seq(WireEvents)
      /\ online => \A i \in 1 .. Len(wire) : wire[i].ev # "disconnect"
    <2>1. stage = "args" /\ Early
        BY DEF HandshakeChunk, Early
    <2>2. n \in Nat \ {0}
        BY SizeIs
    <2>3. lost = {} /\ OnPath = <<>>
        BY <2>1 DEF PathInv
    <2>4. /\ read \in Nat /\ mapped \in BOOLEAN /\ online \in BOOLEAN
          /\ leftover \in Seq(Nat) /\ got \in Seq(Nat) /\ wire \in Seq(WireEvents)
          /\ online => \A i \in 1 .. Len(wire) : wire[i].ev # "disconnect"
        BY DEF PathInv
    <2> QED
        BY <2>1, <2>2, <2>3, <2>4
<1>1. /\ UNCHANGED <<online, got>> /\ read' = read + n /\ mapped' = (stage' = "announce")
    BY DEF HandshakeChunk, Arrives, browserVars
<1>2. read' \in Nat /\ mapped' \in BOOLEAN /\ online' \in BOOLEAN /\ got' \in Seq(Nat)
    BY <1>0, <1>1
<1>3. Readable' \in Seq(Nat)
    BY <1>2, SparedOrder DEF Readable
<1>4. CASE read' < Size
    <2>1. UNCHANGED <<stage, leftover, lost, wire>>
        BY <1>4 DEF HandshakeChunk
    <2>2. OnPath' = <<>> /\ lost' = {} /\ Early' /\ ~InGap' /\ stage' = "args"
        BY <1>0, <1>1, <2>1 DEF OnPath, Early, InGap
    <2>3. IsPrefix(<<>>, Readable')
        BY <1>3, NoneFirst
    <2>4. /\ stage' \in Stages /\ lost' \subseteq 1 .. read' /\ leftover' \in Seq(Nat) /\ wire' \in Seq(WireEvents)
          /\ online' => \A i \in 1 .. Len(wire') : wire'[i].ev # "disconnect"
        BY <1>0, <1>1, <2>1, <2>2 DEF Stages
    <2>5. IsPrefix(OnPath', Readable')
        BY <2>2, <2>3, Zenon
    <2> QED
        BY <1>2, <2>2, <2>4, <2>5 DEF PathInv
<1>5. CASE ~(read' < Size) /\ opening = "args"
    <2>1. /\ stage' \in {"register", "announce"} /\ leftover' = Leftover(read')
          /\ lost' = Size + 1 .. Complete(read') * Size /\ wire' = wire
        BY <1>5 DEF HandshakeChunk
    <2>2. Size <= read'
        BY <1>2, <1>5, SizeIs
    <2>3. /\ Spared(read', Size + 1 .. Complete(read') * Size) = Leftover(read')
          /\ Size + 1 .. Complete(read') * Size \subseteq 1 .. read'
          /\ Leftover(read') \in Seq(Nat)
        BY <1>2, <2>2, SparedLeftover, Zenon
    <2>4. leftover' = Readable' /\ lost' \subseteq 1 .. read' /\ leftover' \in Seq(Nat)
        BY <2>1, <2>3, Zenon DEF Readable
    <2>5. OnPath' = <<>>
        BY <1>0, <1>1, <2>1 DEF OnPath
    <2>6. IsPrefix(<<>>, Readable')
        BY <1>3, NoneFirst
    <2>7. IsPrefix(OnPath', Readable')
        BY <2>5, <2>6, Zenon
    <2>8. /\ stage' \in Stages /\ ~Early' /\ InGap' /\ stage' # "piped" /\ wire' \in Seq(WireEvents)
          /\ online' => \A i \in 1 .. Len(wire') : wire'[i].ev # "disconnect"
          /\ stage' \in {"announce", "piped"} /\ online' => mapped'
        BY <1>0, <1>1, <2>1 DEF Stages, Early, InGap
    <2> QED
        BY <1>2, <2>2, <2>4, <2>5, <2>7, <2>8 DEF PathInv
<1>6. CASE ~(read' < Size) /\ opening # "args"
    <2>1. stage' = "failed" /\ wire' = Emitted(<<Event("error")>>) /\ UNCHANGED <<leftover, lost>>
        BY <1>6 DEF HandshakeChunk, Fails
    <2>2. "error" \in EventNames \ {"data", "disconnect"}
        BY DEF EventNames
    <2>3. /\ wire' \in Seq(WireEvents) /\ OnPath' = OnPath
          /\ online => \A i \in 1 .. Len(wire') : wire'[i].ev # "disconnect"
        BY <1>1, <2>1, <2>2, EmittedPath
    <2>4. IsPrefix(<<>>, Readable')
        BY <1>3, NoneFirst
    <2>5. OnPath' = <<>> /\ IsPrefix(OnPath', Readable')
        BY <1>0, <2>3, <2>4, Zenon
    <2>6. /\ stage' \in Stages /\ ~Early' /\ ~InGap' /\ stage' \notin {"announce", "piped"}
          /\ lost' \subseteq 1 .. read' /\ leftover' \in Seq(Nat)
          /\ online' => \A i \in 1 .. Len(wire') : wire'[i].ev # "disconnect"
        BY <1>0, <1>1, <2>1, <2>3 DEF Stages, Early, InGap
    <2> QED
        BY <1>2, <2>3, <2>5, <2>6 DEF PathInv
<1> QED
    BY <1>4, <1>5, <1>6

LEMMA PathInit ==
    ASSUME ChannelInit
    PROVE  PathInv
<1>1. /\ stage = "idle" /\ mapped = FALSE /\ online = TRUE /\ read = 0 /\ leftover = <<>>
      /\ lost = {} /\ wire = <<>> /\ got = <<>>
    BY DEF ChannelInit
<1>2. /\ <<>> \in Seq(Nat) /\ <<>> \in Seq(WireEvents) /\ Len(<<>>) = 0 /\ <<>> \o <<>> = <<>>
    OBVIOUS
<1>3. OnPath = <<>>
    BY <1>1, <1>2, CarriedNone, Zenon DEF OnPath
<1>4. Readable \in Seq(Nat)
    BY <1>1, SparedOrder DEF Readable
<1>5. IsPrefix(OnPath, Readable)
    <2>1. IsPrefix(<<>>, Readable)
        BY <1>4, NoneFirst
    <2> QED
        BY <1>3, <2>1, Zenon
<1>6. /\ stage \in Stages /\ ~InGap /\ stage # "piped" /\ stage # "announce"
    BY <1>1 DEF Stages, InGap
<1>7. /\ read \in Nat /\ lost \subseteq 1 .. read /\ \A i \in 1 .. Len(wire) : wire[i].ev # "disconnect"
    BY <1>1, <1>2
<1>8. wire \in Seq(WireEvents) /\ got \in Seq(Nat) /\ leftover \in Seq(Nat)
    BY <1>1, <1>2, Zenon
<1> QED
    BY <1>1, <1>3, <1>5, <1>6, <1>7, <1>8 DEF PathInv

LEMMA PathNext ==
    ASSUME PathInv, [ChannelNext]_channelVars
    PROVE  PathInv'
<1>1. CASE Start \/ Connects \/ HandshakeBreaks \/ Registered \/ EndsUnseen \/ Disconnected \/ Input
    BY <1>1, QuietSteps
<1>2. CASE ConnectFails \/ HandshakeTimeout \/ GapFails
    BY <1>2, FailingSteps
<1>3. CASE Crashes \/ PipeEnds \/ Expires
    BY <1>3, HangingSteps
<1>4. CASE \E n \in 1 .. Pieces : HandshakeChunk(n) \/ GapChunk(n) \/ PipeChunk(n)
    BY <1>4, HandshakePath, GapPath, PipePath
<1>5. CASE Piped
    BY <1>5, PipedPath
<1>6. CASE Deliver
    BY <1>6, DeliverPath
<1>7. CASE BrowserLeaves
    BY <1>7, LeavingPath
<1>8. CASE \E m \in unchecked : InputChecked(m)
    BY <1>8, CheckedPath
<1>9. CASE UNCHANGED channelVars
    BY <1>9, QuietSteps
<1> QED
    BY <1>1, <1>2, <1>3, <1>4, <1>5, <1>6, <1>7, <1>8, <1>9 DEF ChannelNext

-----------------------------------------------------------------------------
(* What is lost on the way                                                 *)

Missing(n) == (Size + 1 .. Complete(shaken) * Size) \cup (shaken + 1 .. n)

\* What nobody read, as long as nobody listens and from then on; a session whose
\* stream is open is in the map, so that nothing is dropped from the pipe; and
\* pieces can only be garbled when some of them came before the gateway listened.
LossInv ==
    /\ shaken \in Nat /\ heard \in Nat
    /\ stage \in {"announce", "piped"} /\ link = "open" => mapped
    /\ InGap => Size <= shaken /\ shaken <= read /\ lost = Missing(read)
    /\ stage = "piped" =>
          Size <= shaken /\ shaken <= heard /\ heard <= read /\ lost = Missing(heard)
    /\ garbled => stage = "piped" /\ shaken < heard

\* Steps that read nothing, lose nothing and deliver nothing.
LEMMA LossKept ==
    ASSUME LossInv, UNCHANGED <<read, lost, shaken, heard, garbled>>, InGap' => InGap,
           stage' = "piped" <=> stage = "piped",
           stage' \in {"announce", "piped"} /\ link' = "open" => mapped'
    PROVE  LossInv'
BY DEF LossInv, Missing

LEMMA LossQuiet ==
    ASSUME LossInv,
           \/ Start \/ Connects \/ ConnectFails \/ HandshakeBreaks \/ HandshakeTimeout
           \/ Registered \/ GapFails \/ EndsUnseen \/ Crashes \/ PipeEnds \/ Expires
           \/ Disconnected \/ BrowserLeaves \/ Input \/ UNCHANGED channelVars
           \/ \E m \in unchecked : InputChecked(m)
    PROVE  LossInv'
<1> DEFINE Quiet == /\ UNCHANGED <<read, lost, shaken, heard, garbled>> /\ (InGap' => InGap)
                    /\ stage' = "piped" <=> stage = "piped"
                    /\ stage' \in {"announce", "piped"} /\ link' = "open" => mapped'
<1>0. stage \in {"announce", "piped"} /\ link = "open" => mapped
    BY DEF LossInv
<1>1. CASE Start \/ Connects \/ ConnectFails
    <2>1. Quiet
        BY <1>1 DEF Start, Connects, ConnectFails, Fails, InGap, linkVars, browserVars, marks
    <2> QED
        BY <2>1, LossKept
<1>2. CASE HandshakeBreaks \/ HandshakeTimeout \/ Registered \/ GapFails
    <2>1. Quiet
        BY <1>2 DEF HandshakeBreaks, HandshakeTimeout, Registered, GapFails, Fails, InGap,
                    linkVars, browserVars, marks
    <2> QED
        BY <2>1, LossKept
<1>3. CASE EndsUnseen \/ Crashes \/ PipeEnds
    <2>1. Quiet
        BY <1>3 DEF EndsUnseen, Crashes, PipeEnds, InGap, linkVars, browserVars, marks
    <2> QED
        BY <2>1, LossKept
<1>4. CASE Expires \/ Disconnected \/ BrowserLeaves \/ Input \/ UNCHANGED channelVars
    <2>1. Quiet
        BY <1>0, <1>4 DEF Expires, Disconnected, BrowserLeaves, Input, channelVars, InGap,
                    linkVars, browserVars, marks
    <2> QED
        BY <2>1, LossKept
<1>5. CASE \E m \in unchecked : InputChecked(m)
    <2>1. Quiet
        BY <1>0, <1>5 DEF InputChecked, InGap, linkVars, browserVars, marks
    <2> QED
        BY <2>1, LossKept
<1> QED
    BY <1>1, <1>2, <1>3, <1>4, <1>5

LEMMA LossHandshake ==
    ASSUME PathInv, LossInv, NEW n \in 1 .. Pieces, HandshakeChunk(n)
    PROVE  LossInv'
<1>1. /\ stage = "args" /\ read' = read + n /\ heard' = heard /\ garbled' = garbled
      /\ mapped' = (stage' = "announce") /\ n \in Nat /\ read \in Nat
    BY SizeIs DEF HandshakeChunk, Arrives, browserVars, PathInv
<1>2. ~garbled' /\ heard' \in Nat
    BY <1>1 DEF LossInv
<1>3. CASE stage' \in {"register", "announce"}
    <2>1. /\ ~(read' < Size) /\ shaken' = read'
          /\ lost' = Size + 1 .. Complete(read') * Size
        BY <1>1, <1>3 DEF HandshakeChunk, Fails
    <2>2. shaken' \in Nat /\ Size <= shaken' /\ shaken' + 1 .. read' = {}
        BY <1>1, <2>1, SizeIs
    <2>3. lost' = Missing(read)' /\ shaken' <= read'
        BY <2>1, <2>2 DEF Missing
    <2>4. stage' # "piped" /\ (stage' = "announce" => mapped')
        BY <1>1, <1>3
    <2> QED
        BY <1>2, <2>2, <2>3, <2>4 DEF LossInv
<1>4. CASE stage' \in {"args", "failed"}
    <2>1. shaken' = shaken /\ ~InGap'
        BY <1>1, <1>4 DEF HandshakeChunk, Fails, InGap
    <2> QED
        BY <1>2, <1>4, <2>1 DEF LossInv
<1>5. stage' \in {"args", "failed", "register", "announce"}
    BY <1>1 DEF HandshakeChunk, Fails
<1> QED
    BY <1>3, <1>4, <1>5

LEMMA LossGap ==
    ASSUME PathInv, LossInv, NEW n \in 1 .. Pieces, GapChunk(n)
    PROVE  LossInv'
<1>1. /\ InGap /\ UNCHANGED <<stage, link, mapped, shaken, heard, garbled>>
      /\ read' = read + n /\ lost' = lost \cup (read + 1 .. read + n)
      /\ n \in Nat /\ read \in Nat /\ stage # "piped"
    BY SizeIs DEF GapChunk, Arrives, browserVars, marks, PathInv, InGap
<1>2. /\ shaken \in Nat /\ Size <= shaken /\ shaken <= read
      /\ lost = Missing(read)
    BY <1>1 DEF LossInv
<1>3. (shaken + 1 .. read) \cup (read + 1 .. read + n) = shaken + 1 .. read + n
    BY <1>1, <1>2
<1>4. lost' = Missing(read)'
    BY <1>1, <1>2, <1>3 DEF Missing
<1>5. shaken' <= read'
    BY <1>1, <1>2
<1> QED
    BY <1>1, <1>2, <1>4, <1>5 DEF LossInv

LEMMA LossPipe ==
    ASSUME PathInv, LossInv, NEW n \in 1 .. Pieces, PipeChunk(n)
    PROVE  LossInv'
<1>1. /\ stage = "piped" /\ link = "open" /\ mapped
      /\ UNCHANGED <<stage, link, mapped, shaken, heard, garbled>>
      /\ read' = read + n /\ n \in Nat /\ read \in Nat
    BY SizeIs DEF PipeChunk, Arrives, browserVars, marks, PathInv, LossInv
<1>2. lost' = lost
    BY <1>1 DEF PipeChunk
<1>3. heard <= read' /\ Missing(heard)' = Missing(heard) /\ ~InGap'
    BY <1>1 DEF LossInv, Missing, InGap
<1> QED
    BY <1>1, <1>2, <1>3 DEF LossInv

LEMMA LossPiped ==
    ASSUME PathInv, LossInv, Piped
    PROVE  LossInv'
<1>1. /\ InGap /\ stage = "announce" /\ stage' = "piped" /\ ~InGap' /\ heard' = read
      /\ UNCHANGED <<link, mapped, shaken, read, lost, garbled>> /\ read \in Nat
    BY DEF Piped, browserVars, PathInv, InGap
<1>2. /\ shaken \in Nat /\ Size <= shaken /\ shaken <= read /\ lost = Missing(read) /\ ~garbled
      /\ link = "open" => mapped
    BY <1>1 DEF LossInv
<1>3. Missing(heard)' = Missing(read)
    BY <1>1 DEF Missing
<1> QED
    BY <1>1, <1>2, <1>3 DEF LossInv

\* Whole instructions that go leave the rest gapless.
LEMMA RestFollows ==
    ASSUME NEW r \in Nat, NEW s \in Nat, Size <= s, s <= r, NEW rest,
           rest = Spared(r, Size + 1 .. Complete(s) * Size)
    PROVE  /\ Complete(s) * Size \in Nat /\ Ends(Complete(s) * Size)
           /\ \A j \in 1 .. Len(rest) : rest[j] = Complete(s) * Size + j
<1> DEFINE q == s \div Size
           at == q * Size
<1>1. q \in Nat /\ s = Size * q + (s % Size) /\ s % Size \in Nat
    BY SizeIs
<1>2. at \in Nat /\ at <= s /\ at % Size = 0
    <2> HIDE DEF q
    <2>1. Size * q = q * Size /\ q * Size \in Nat
        BY <1>1, SizeIs
    <2>2. at <= s
        <3> HIDE DEF at
        <3> QED
            BY <1>1, <2>1, SizeIs DEF at
    <2>3. at % Size = 0
        BY <1>1, MultipleEnds, SizeIs
    <2> QED
        BY <2>1, <2>2, <2>3
<1>3. Complete(s) * Size = at /\ Leftover(s) = Range1(at + 1, s)
    BY Zenon DEF Complete, Leftover
<1> HIDE DEF q, at
<1>4. /\ Spared(s, Size + 1 .. at) = Range1(at + 1, s)
      /\ Size + 1 .. at \subseteq 1 .. s
    BY <1>3, SparedLeftover, Zenon
<1>5. r - s \in Nat /\ s + (r - s) = r
    OBVIOUS
<1>6. Spared(s + (r - s), Size + 1 .. at) = Spared(s, Size + 1 .. at) \o Range1(s + 1, s + (r - s))
    <2> DEFINE n == r - s
    <2>1. n \in Nat
        BY <1>5
    <2> HIDE DEF n
    <2>2. Spared(s + n, Size + 1 .. at) = Spared(s, Size + 1 .. at) \o Range1(s + 1, s + n)
        BY <1>4, <2>1, SparedMore, Zenon
    <2> QED
        BY <2>2 DEF n
<1>7. at + 1 \in Nat \ {0} /\ at + 1 <= s + 1
    BY <1>2
<1>8. Range1(at + 1, r) = Range1(at + 1, s) \o Range1(s + 1, r)
    BY <1>7, RangeJoin
<1>9. rest = Range1(at + 1, r)
    BY <1>3, <1>4, <1>5, <1>6, <1>8
<1>10. r - at \in Nat /\ at + (r - at) = r
    BY <1>2
<1>11. \A j \in 1 .. Len(rest) : rest[j] = at + j
    <2> DEFINE n == r - at
    <2>1. n \in Nat /\ at + n = r
        BY <1>10
    <2> HIDE DEF n
    <2>2. /\ Len(Range1(at + 1, at + n)) = n
          /\ \A i \in 1 .. n : Range1(at + 1, at + n)[i] = at + i
        BY <1>2, <2>1, NextPieces
    <2> QED
        BY <1>9, <2>1, <2>2
<1> QED
    BY <1>2, <1>3, <1>11 DEF Ends

LEMMA LossDeliver ==
    ASSUME PathInv, LossInv, Deliver
    PROVE  LossInv'
<1> DEFINE e == Head(wire)
<1>1. /\ wire # <<>> /\ UNCHANGED <<stage, link, mapped, read, lost, shaken, heard>>
      /\ garbled' => garbled \/ ~ContinuesAll(e.pieces)
    BY DEF Deliver, linkVars, marks
<1>2. read \in Nat /\ lost \subseteq 1 .. read /\ OnPath \in Seq(Nat) /\ Readable \in Seq(Nat)
    BY PathTypes
<1>3. ASSUME stage # "piped" PROVE ContinuesAll(e.pieces)
    <2>1. OnPath = <<>>
        BY <1>3 DEF PathInv
    <2>2. Len(OnPath) = 0
        BY <2>1
    <2>3. \A j \in 1 .. Len(OnPath) : Readable[j] = 0 + j
        BY <2>2
    <2>4. Ends(0)
        BY SizeIs DEF Ends
    <2> QED
        BY <1>1, <2>3, <2>4, Smooth
<1>4. ASSUME stage = "piped", ~(shaken < heard) PROVE ContinuesAll(e.pieces)
    <2> DEFINE at == Complete(shaken) * Size
    <2>1. /\ shaken \in Nat /\ heard \in Nat /\ Size <= shaken /\ shaken <= heard /\ heard <= read
          /\ lost = (Size + 1 .. at) \cup (shaken + 1 .. heard)
        BY <1>4 DEF LossInv, Missing
    <2>2. shaken = heard /\ shaken + 1 .. heard = {} /\ shaken <= read
        BY <1>2, <1>4, <2>1
    <2>3. lost = Size + 1 .. at
        BY <2>1, <2>2, Zenon
    <2>4. Readable = Spared(read, Size + 1 .. at)
        BY <2>3, Zenon DEF Readable
    <2>5. at \in Nat /\ Ends(at) /\ \A j \in 1 .. Len(Readable) : Readable[j] = at + j
        BY <1>2, <2>1, <2>2, <2>4, RestFollows
    <2>6. 1 .. Len(OnPath) \subseteq 1 .. Len(Readable)
        <3>1. IsPrefix(OnPath, Readable)
            BY DEF PathInv
        <3>2. Len(OnPath) <= Len(Readable)
            BY <1>2, <3>1, PrefixGives, Zenon
        <3>3. Len(OnPath) \in Nat /\ Len(Readable) \in Nat
            BY <1>2, KeptLen
        <3> QED
            BY <3>2, <3>3
    <2> HIDE DEF at
    <2>7. \A j \in 1 .. Len(OnPath) : Readable[j] = at + j
        BY <2>5, <2>6, Zenon
    <2> QED
        BY <1>1, <2>5, <2>7, Smooth
<1>5. garbled' => stage = "piped" /\ shaken < heard
    BY <1>1, <1>3, <1>4 DEF LossInv
<1>6. /\ (InGap' <=> InGap) /\ Missing(read)' = Missing(read) /\ Missing(heard)' = Missing(heard)
    BY <1>1 DEF InGap, Missing
<1> HIDE DEF e
<1> QED
    BY <1>1, <1>5, <1>6 DEF LossInv

LEMMA LossInit == ChannelInit => LossInv
BY DEF ChannelInit, LossInv, InGap

LEMMA LossNext ==
    ASSUME PathInv, LossInv, [ChannelNext]_channelVars
    PROVE  LossInv'
BY LossQuiet, LossHandshake, LossGap, LossPipe, LossPiped, LossDeliver DEF ChannelNext

-----------------------------------------------------------------------------
(* From the browser to guacd                                               *)

\* What guacd may be told.
Words ==
    {Told(op, <<>>) : op \in {"select", "size", "audio", "video", "image", "timezone"}}
      \cup {Told("connect", ConnectArgs)}
      \cup {Told("input", <<m>>) : m \in Nat}
Selects == <<Told("select", <<>>)>>
Greeted == IsPrefix(Greeting, told)

\* Nothing but its handshake goes to guacd before the handshake is over, and of
\* the messages that are written each is one that no longer waits, written once.
SpeechInv ==
    /\ told \in Seq(Words) /\ input \in Nat /\ unchecked \subseteq 1 .. input
    /\ Early => ~mapped /\ unchecked = {}
    /\ stage \in {"idle", "connecting"} => told = <<>>
    /\ stage = "args" => told = Selects
    /\ told = <<>> \/ told = Selects \/ Greeted
    /\ InGap \/ mapped \/ unchecked # {} => Greeted
    /\ \A i \in 1 .. Len(told) : told[i].op = "input" =>
          \E m \in (1 .. input) \ unchecked : told[i].args = <<m>>
    /\ \A i, j \in 1 .. Len(told) :
          i # j /\ told[i].op = "input" /\ told[j].op = "input" => told[i].args # told[j].args

LEMMA SevenInARow ==
    ASSUME NEW T, NEW a \in T, NEW b \in T, NEW c \in T, NEW d \in T, NEW e \in T, NEW f \in T, NEW g \in T
    PROVE  /\ <<a>> \o <<b, c, d, e, f>> \o <<g>> = <<a, b, c, d, e, f, g>>
           /\ <<a, b, c, d, e, f, g>> \in Seq(T)
<1> DEFINE s == <<b, c, d, e, f>>
           t == <<a, b, c, d, e, f>>
           u == <<a, b, c, d, e, f, g>>
<1>1. s \in Seq(T) /\ Len(s) = 5 /\ s[1] = b /\ s[2] = c /\ s[3] = d /\ s[4] = e /\ s[5] = f
    OBVIOUS
<1>2. /\ t \in Seq(T) /\ Len(t) = 6
      /\ t[1] = a /\ t[2] = b /\ t[3] = c /\ t[4] = d /\ t[5] = e /\ t[6] = f
    OBVIOUS
<1>3. /\ u \in Seq(T) /\ Len(u) = 7
      /\ u[1] = a /\ u[2] = b /\ u[3] = c /\ u[4] = d /\ u[5] = e /\ u[6] = f /\ u[7] = g
    OBVIOUS
<1>4. <<a>> \in Seq(T) /\ Len(<<a>>) = 1 /\ <<a>>[1] = a
    OBVIOUS
<1>5. <<g>> \in Seq(T) /\ Len(<<g>>) = 1 /\ <<g>>[1] = g
    OBVIOUS
<1> HIDE DEF s, t, u
<1>6. <<a>> \o s = t
    <2>1. IsJoin(<<a>> \o s, <<a>>, s, T)
        BY <1>1, <1>4, Joined
    <2>2. <<a>> \o s \in Seq(T) /\ Len(<<a>> \o s) = 6
        BY <1>1, <1>4, <2>1 DEF IsJoin
    <2>3. \A i \in 1 .. 6 : (<<a>> \o s)[i] = t[i]
        BY <1>1, <1>2, <1>4, <2>1 DEF IsJoin
    <2> QED
        BY <1>2, <2>2, <2>3, SameSeq
<1>7. t \o <<g>> = u
    <2>1. IsJoin(t \o <<g>>, t, <<g>>, T)
        BY <1>2, <1>5, Joined
    <2>2. t \o <<g>> \in Seq(T) /\ Len(t \o <<g>>) = 7
        BY <1>2, <1>5, <2>1 DEF IsJoin
    <2>3. \A i \in 1 .. 7 : (t \o <<g>>)[i] = u[i]
        BY <1>2, <1>3, <1>5, <2>1 DEF IsJoin
    <2> QED
        BY <1>3, <2>2, <2>3, SameSeq
<1> QED
    BY <1>3, <1>6, <1>7, Zenon DEF s, u

LEMMA WordsAre ==
    /\ Greeting \in Seq(Words) /\ \A i \in 1 .. Len(Greeting) : Greeting[i].op # "input"
    /\ Selects \in Seq(Words) /\ Len(Selects) = 1 /\ Selects[1].op # "input"
    /\ \A m \in Nat : Told("input", <<m>>) \in Words
<1>1. /\ \A op \in {"select", "size", "audio", "video", "image", "timezone"} : Told(op, <<>>) \in Words
      /\ Told("connect", ConnectArgs) \in Words
      /\ \A m \in Nat : Told("input", <<m>>) \in Words
    BY DEF Words
<1>2. \A op, args : Told(op, args).op = op
    BY DEF Told
<1> DEFINE a == Told("select", <<>>)
           b == Told("size", <<>>)
           c == Told("audio", <<>>)
           d == Told("video", <<>>)
           e == Told("image", <<>>)
           f == Told("timezone", <<>>)
           g == Told("connect", ConnectArgs)
<1>3. /\ a \in Words /\ b \in Words /\ c \in Words /\ d \in Words /\ e \in Words
      /\ f \in Words /\ g \in Words
    BY <1>1
<1>4. /\ a.op = "select" /\ b.op = "size" /\ c.op = "audio" /\ d.op = "video"
      /\ e.op = "image" /\ f.op = "timezone" /\ g.op = "connect"
    BY <1>2
<1>5. Greeting = <<a>> \o <<b, c, d, e, f>> \o <<g>> /\ Selects = <<a>>
    BY Zenon DEF Greeting, Capabilities, Selects
<1> HIDE DEF a, b, c, d, e, f, g
<1>6. Greeting = <<a, b, c, d, e, f, g>> /\ Greeting \in Seq(Words)
    <2>1. /\ <<a>> \o <<b, c, d, e, f>> \o <<g>> = <<a, b, c, d, e, f, g>>
          /\ <<a, b, c, d, e, f, g>> \in Seq(Words)
        BY <1>3, SevenInARow
    <2> QED
        BY <1>5, <2>1
<1>7. \A i \in 1 .. Len(Greeting) : Greeting[i].op # "input"
    <2> DEFINE s == <<a, b, c, d, e, f, g>>
    <2>1. /\ Len(s) = 7 /\ s[1] = a /\ s[2] = b /\ s[3] = c /\ s[4] = d
          /\ s[5] = e /\ s[6] = f /\ s[7] = g
        OBVIOUS
    <2> HIDE DEF s
    <2>2. \A i \in 1 .. 7 : s[i].op # "input"
        BY <1>4, <2>1
    <2> QED
        BY <1>6, <2>1, <2>2, Zenon DEF s
<1>8. <<a>> \in Seq(Words) /\ Len(<<a>>) = 1 /\ <<a>>[1] = a
    BY <1>3
<1> QED
    BY <1>1, <1>4, <1>5, <1>6, <1>7, <1>8, Zenon

LEMMA WordsNone == <<>> \in Seq(Words) /\ Len(<<>>) = 0
OBVIOUS

\* A step that tells guacd nothing.
SpeechStays ==
    /\ UNCHANGED <<told, input>> /\ unchecked' \subseteq unchecked
    /\ stage' \in {"idle", "connecting"} => stage \in {"idle", "connecting"}
    /\ stage' = "args" => stage = "args"
    /\ InGap' => InGap
    /\ mapped' => mapped \/ InGap

LEMMA SpeechKept ==
    ASSUME SpeechInv, SpeechStays
    PROVE  SpeechInv'
<1>0. told' = told /\ input' = input /\ unchecked' \subseteq unchecked /\ (Greeted' <=> Greeted)
    BY DEF SpeechStays, Greeted
<1>1. told' \in Seq(Words) /\ input' \in Nat /\ unchecked' \subseteq 1 .. input'
    BY <1>0 DEF SpeechInv
<1>2. Early' => ~mapped' /\ unchecked' = {}
    BY <1>0 DEF SpeechInv, SpeechStays, Early, InGap
<1>3. /\ stage' \in {"idle", "connecting"} => told' = <<>>
      /\ stage' = "args" => told' = Selects
      /\ told' = <<>> \/ told' = Selects \/ Greeted'
      /\ InGap' \/ mapped' \/ unchecked' # {} => Greeted'
    BY <1>0 DEF SpeechInv, SpeechStays
<1>4. \A i \in 1 .. Len(told') : told'[i].op = "input" =>
         \E m \in (1 .. input') \ unchecked' : told'[i].args = <<m>>
    BY <1>0 DEF SpeechInv
<1>5. \A i, j \in 1 .. Len(told') :
         i # j /\ told'[i].op = "input" /\ told'[j].op = "input" => told'[i].args # told'[j].args
    BY <1>0 DEF SpeechInv
<1> QED
    BY <1>1, <1>2, <1>3, <1>4, <1>5 DEF SpeechInv

LEMMA SpeechQuiet ==
    ASSUME SpeechInv,
           \/ Start \/ ConnectFails \/ HandshakeBreaks \/ HandshakeTimeout \/ Registered
           \/ GapFails \/ Piped \/ EndsUnseen \/ Crashes \/ PipeEnds \/ Expires
           \/ Disconnected \/ Deliver \/ BrowserLeaves
           \/ (\E n \in 1 .. Pieces : GapChunk(n) \/ PipeChunk(n)) \/ UNCHANGED channelVars
    PROVE  SpeechInv'
<1>1. SpeechStays
    <2>1. CASE Start
        BY <2>1 DEF Start, SpeechStays, InGap, inputVars
    <2>2. CASE ConnectFails
        BY <2>2 DEF ConnectFails, Fails, SpeechStays, InGap, inputVars
    <2>3. CASE HandshakeBreaks
        BY <2>3 DEF HandshakeBreaks, SpeechStays, InGap, inputVars
    <2>4. CASE HandshakeTimeout
        BY <2>4 DEF HandshakeTimeout, Fails, SpeechStays, InGap, inputVars
    <2>5. CASE Registered
        BY <2>5 DEF Registered, SpeechStays, InGap, inputVars
    <2>6. CASE GapFails
        BY <2>6 DEF GapFails, Fails, SpeechStays, InGap, inputVars
    <2>7. CASE Piped
        BY <2>7 DEF Piped, SpeechStays, InGap, inputVars
    <2>8. CASE EndsUnseen
        BY <2>8 DEF EndsUnseen, SpeechStays, InGap, inputVars
    <2>9. CASE Crashes
        BY <2>9 DEF Crashes, SpeechStays, InGap
    <2>10. CASE PipeEnds
        BY <2>10 DEF PipeEnds, SpeechStays, InGap, inputVars
    <2>11. CASE Expires
        BY <2>11 DEF Expires, SpeechStays, InGap, inputVars
    <2>12. CASE Disconnected
        BY <2>12 DEF Disconnected, SpeechStays, InGap, inputVars
    <2>13. CASE Deliver
        BY <2>13 DEF Deliver, SpeechStays, InGap, inputVars
    <2>14. CASE BrowserLeaves
        BY <2>14 DEF BrowserLeaves, SpeechStays, InGap, inputVars
    <2>15. CASE \E n \in 1 .. Pieces : GapChunk(n) \/ PipeChunk(n)
        BY <2>15 DEF GapChunk, PipeChunk, SpeechStays, InGap, inputVars
    <2>16. CASE UNCHANGED channelVars
        BY <2>16 DEF channelVars, SpeechStays, InGap, inputVars
    <2> QED
        BY <2>1, <2>2, <2>3, <2>4, <2>5, <2>6, <2>7, <2>8, <2>9, <2>10, <2>11, <2>12, <2>13, <2>14, <2>15, <2>16
<1> QED
    BY <1>1, SpeechKept

LEMMA SpeechConnects ==
    ASSUME SpeechInv, Connects
    PROVE  SpeechInv'
<1>1. /\ stage = "connecting" /\ stage' = "args" /\ told' = Selects
      /\ UNCHANGED <<mapped, input, unchecked>>
    BY DEF Connects, Selects, inputVars
<1>2. input \in Nat /\ unchecked = {} /\ ~mapped
    BY <1>1 DEF SpeechInv, Early
<1>3. /\ told' \in Seq(Words) /\ Len(told') = 1 /\ told'[1].op # "input"
    BY <1>1, WordsAre
<1>4. \A i \in 1 .. Len(told') : told'[i].op # "input"
    BY <1>3
<1>5. ~InGap' /\ Early' /\ stage' \notin {"idle", "connecting"}
    BY <1>1 DEF InGap, Early
<1> QED
    BY <1>1, <1>2, <1>3, <1>4, <1>5 DEF SpeechInv

LEMMA SpeechHandshake ==
    ASSUME SpeechInv, NEW n \in 1 .. Pieces, HandshakeChunk(n)
    PROVE  SpeechInv'
<1>1. /\ stage = "args" /\ UNCHANGED <<input, unchecked>> /\ mapped' = (stage' = "announce")
    BY DEF HandshakeChunk, inputVars
<1>2. input \in Nat /\ unchecked = {} /\ ~mapped
    BY <1>1 DEF SpeechInv, Early
<1>3. CASE read' < Size
    <2>1. SpeechStays
        BY <1>1, <1>3 DEF HandshakeChunk, SpeechStays, InGap
    <2> QED
        BY <2>1, SpeechKept
<1>4. CASE ~(read' < Size) /\ opening = "args"
    <2>1. stage' \in {"register", "announce"} /\ told' = Greeting
        BY <1>4 DEF HandshakeChunk
    <2>2. /\ told' \in Seq(Words) /\ \A i \in 1 .. Len(told') : told'[i].op # "input"
        BY <2>1, WordsAre
    <2>3. Greeted'
        <3>1. IsPrefix(Greeting, Greeting)
            BY WordsAre, PrefixSelf
        <3> QED
            BY <2>1, <3>1 DEF Greeted
    <2>4. ~Early' /\ stage' \notin {"idle", "connecting", "args"}
        BY <2>1 DEF Early
    <2> QED
        BY <1>1, <1>2, <2>2, <2>3, <2>4 DEF SpeechInv
<1>5. CASE ~(read' < Size) /\ opening # "args"
    <2>1. stage' = "failed" /\ told' = told
        BY <1>5 DEF HandshakeChunk, Fails
    <2>2. SpeechStays
        BY <1>1, <2>1 DEF SpeechStays, InGap
    <2> QED
        BY <2>2, SpeechKept
<1> QED
    BY <1>3, <1>4, <1>5

\* A message that was not written before may be.
LEMMA Written ==
    ASSUME SpeechInv, NEW m \in Nat, Greeted, Writes(m),
           \A i \in 1 .. Len(told) : told[i].op = "input" => told[i].args # <<m>>
    PROVE  /\ told' \in Seq(Words) /\ Greeted'
           /\ \A i \in 1 .. Len(told') : told'[i].op = "input" =>
                 \/ told'[i].args = <<m>>
                 \/ \E k \in (1 .. input) \ unchecked : told'[i].args = <<k>>
           /\ \A i, j \in 1 .. Len(told') :
                 i # j /\ told'[i].op = "input" /\ told'[j].op = "input" => told'[i].args # told'[j].args
<1> DEFINE w == Told("input", <<m>>)
<1>0. /\ told \in Seq(Words) /\ Len(told) \in Nat /\ Greeting \in Seq(Words)
      /\ w \in Words /\ w.op = "input" /\ w.args = <<m>>
    <2>1. told \in Seq(Words)
        BY DEF SpeechInv
    <2>2. Len(told) \in Nat
        BY <2>1, KeptLen
    <2>3. w.op = "input" /\ w.args = <<m>>
        BY DEF Told
    <2> QED
        BY <2>1, <2>2, <2>3, WordsAre
<1>1. CASE told' = told
    <2>1. Greeted'
        BY <1>1 DEF Greeted
    <2> QED
        BY <1>1, <2>1 DEF SpeechInv
<1>2. CASE told' = Append(told, w)
    <2> HIDE DEF w
    <2>1. /\ told' \in Seq(Words) /\ Len(told') = Len(told) + 1 /\ told'[Len(told) + 1] = w
          /\ \A i \in 1 .. Len(told) : told'[i] = told[i]
        BY <1>0, <1>2, OneMoreIs
    <2>2. Greeted'
        <3>1. /\ Len(Greeting) <= Len(told) /\ Len(Greeting) \in Nat
              /\ \A i \in 1 .. Len(Greeting) : Greeting[i] = told[i]
            BY <1>0, PrefixIs, KeptLen DEF Greeted
        <3>2. Len(Greeting) <= Len(told') /\ \A i \in 1 .. Len(Greeting) : Greeting[i] = told'[i]
            BY <1>0, <2>1, <3>1
        <3>3. IsPrefix(Greeting, told')
            BY <1>0, <2>1, <3>2, PrefixIs
        <3> QED
            BY <3>3, Zenon DEF Greeted
    <2>3. \A i \in 1 .. Len(told') : i \in 1 .. Len(told) \/ i = Len(told) + 1
        BY <1>0, <2>1
    <2>4. /\ \A i \in 1 .. Len(told) : told[i].op = "input" =>
                \E k \in (1 .. input) \ unchecked : told[i].args = <<k>>
          /\ \A i, j \in 1 .. Len(told) :
                i # j /\ told[i].op = "input" /\ told[j].op = "input" => told[i].args # told[j].args
        BY DEF SpeechInv
    <2>5. ASSUME NEW i \in 1 .. Len(told'), told'[i].op = "input"
          PROVE  \/ told'[i].args = <<m>>
                 \/ \E k \in (1 .. input) \ unchecked : told'[i].args = <<k>>
        BY <1>0, <2>1, <2>3, <2>4, <2>5, Zenon
    <2>6. ASSUME NEW i \in 1 .. Len(told'), NEW j \in 1 .. Len(told'),
                 i # j, told'[i].op = "input", told'[j].op = "input"
          PROVE  told'[i].args # told'[j].args
        <3>1. CASE i = Len(told) + 1
            <4>1. j \in 1 .. Len(told)
                BY <2>3, <2>6, <3>1
            <4>2. told'[j] = told[j] /\ told'[i] = w
                BY <2>1, <3>1, <4>1, Zenon
            <4> QED
                BY <1>0, <2>6, <4>1, <4>2, Zenon
        <3>2. CASE j = Len(told) + 1
            <4>1. i \in 1 .. Len(told)
                BY <2>3, <2>6, <3>2
            <4>2. told'[i] = told[i] /\ told'[j] = w
                BY <2>1, <3>2, <4>1, Zenon
            <4> QED
                BY <1>0, <2>6, <4>1, <4>2, Zenon
        <3>3. CASE i \in 1 .. Len(told) /\ j \in 1 .. Len(told)
            <4>1. told'[i] = told[i] /\ told'[j] = told[j]
                BY <2>1, <3>3, Zenon
            <4> QED
                BY <2>4, <2>6, <3>3, <4>1, Zenon
        <3> QED
            BY <2>3, <3>1, <3>2, <3>3
    <2> QED
        BY <2>1, <2>2, <2>5, <2>6
<1> QED
    BY <1>1, <1>2 DEF Writes

\* Messages have numbers.
LEMMA OneMessage ==
    ASSUME NEW m \in Nat, NEW k \in Nat, <<m>> = <<k>>
    PROVE  m = k
OBVIOUS

\* Of the written messages none waits and none is still to come.
LEMMA NotWritten ==
    ASSUME SpeechInv, NEW m \in Nat, m \in unchecked \/ m > input
    PROVE  \A i \in 1 .. Len(told) : told[i].op = "input" => told[i].args # <<m>>
<1> SUFFICES ASSUME NEW i \in 1 .. Len(told), told[i].op = "input", told[i].args = <<m>> PROVE FALSE
    OBVIOUS
<1>1. PICK k \in (1 .. input) \ unchecked : told[i].args = <<k>>
    BY DEF SpeechInv
<1>2. input \in Nat /\ k \in Nat
    BY DEF SpeechInv
<1>3. m = k
    BY <1>1, <1>2, OneMessage
<1> QED
    BY <1>1, <1>2, <1>3

LEMMA SpeechInput ==
    ASSUME SpeechInv, Input
    PROVE  SpeechInv'
<1>1. /\ UNCHANGED <<stage, mapped>> /\ input' = input + 1
      /\ \/ mapped /\ Writes(input') /\ UNCHANGED unchecked
         \/ mapped /\ unchecked' = unchecked \cup {input'} /\ UNCHANGED told
         \/ UNCHANGED <<told, unchecked>>
    BY DEF Input
<1>2. input \in Nat /\ unchecked \subseteq 1 .. input /\ input' \in Nat /\ 1 .. input \subseteq 1 .. input'
    BY <1>1 DEF SpeechInv
<1>3. input' \in 1 .. input' /\ input' \notin 1 .. input /\ input' > input
    BY <1>1, <1>2
<1>4. /\ told \in Seq(Words)
      /\ \A i \in 1 .. Len(told) : told[i].op = "input" =>
            \E m \in (1 .. input) \ unchecked : told[i].args = <<m>>
      /\ \A i, j \in 1 .. Len(told) :
            i # j /\ told[i].op = "input" /\ told[j].op = "input" => told[i].args # told[j].args
    BY DEF SpeechInv
<1>5. CASE mapped /\ Writes(input') /\ unchecked' = unchecked
    <2>1. Greeted /\ ~Early
        BY <1>5 DEF SpeechInv
    <2>2. \A i \in 1 .. Len(told) : told[i].op = "input" => told[i].args # <<input'>>
        BY <1>2, <1>3, NotWritten
    <2>3. /\ told' \in Seq(Words) /\ Greeted'
          /\ \A i \in 1 .. Len(told') : told'[i].op = "input" =>
                \/ told'[i].args = <<input'>>
                \/ \E k \in (1 .. input) \ unchecked : told'[i].args = <<k>>
          /\ \A i, j \in 1 .. Len(told') :
                i # j /\ told'[i].op = "input" /\ told'[j].op = "input" => told'[i].args # told'[j].args
        BY <1>2, <1>5, <2>1, <2>2, Written
    <2>4. \A i \in 1 .. Len(told') : told'[i].op = "input" =>
             \E k \in (1 .. input') \ unchecked' : told'[i].args = <<k>>
        <3>1. input' \in (1 .. input') \ unchecked' /\ (1 .. input) \ unchecked \subseteq (1 .. input') \ unchecked'
            BY <1>2, <1>3, <1>5
        <3> QED
            BY <2>3, <3>1, Zenon
    <2>5. ~Early' /\ unchecked' \subseteq 1 .. input'
        BY <1>1, <1>2, <1>5, <2>1 DEF Early
    <2>6. stage' \notin {"idle", "connecting", "args"}
        BY <2>5 DEF Early
    <2> QED
        BY <1>2, <2>3, <2>4, <2>5, <2>6 DEF SpeechInv
<1>6. CASE mapped /\ unchecked' = unchecked \cup {input'} /\ told' = told
    <2>1. Greeted' /\ ~Early'
        BY <1>1, <1>6 DEF SpeechInv, Greeted, Early
    <2>2. stage' \notin {"idle", "connecting", "args"}
        BY <2>1 DEF Early
    <2>3. unchecked' \subseteq 1 .. input' /\ (1 .. input) \ unchecked \subseteq (1 .. input') \ unchecked'
        BY <1>2, <1>3, <1>6
    <2>4. \A i \in 1 .. Len(told') : told'[i].op = "input" =>
             \E k \in (1 .. input') \ unchecked' : told'[i].args = <<k>>
        BY <1>4, <1>6, <2>3, Zenon
    <2>5. \A i, j \in 1 .. Len(told') :
             i # j /\ told'[i].op = "input" /\ told'[j].op = "input" => told'[i].args # told'[j].args
        BY <1>4, <1>6, Zenon
    <2>6. told' \in Seq(Words)
        BY <1>4, <1>6, Zenon
    <2> QED
        BY <1>2, <2>1, <2>2, <2>3, <2>4, <2>5, <2>6 DEF SpeechInv
<1>7. CASE told' = told /\ unchecked' = unchecked
    <2>1. (Early' <=> Early) /\ (InGap' <=> InGap) /\ (Greeted' <=> Greeted)
        BY <1>1, <1>7 DEF Early, InGap, Greeted
    <2>2. unchecked' \subseteq 1 .. input' /\ (1 .. input) \ unchecked \subseteq (1 .. input') \ unchecked'
        BY <1>2, <1>7
    <2>3. \A i \in 1 .. Len(told') : told'[i].op = "input" =>
             \E k \in (1 .. input') \ unchecked' : told'[i].args = <<k>>
        BY <1>4, <1>7, <2>2, Zenon
    <2>4. \A i, j \in 1 .. Len(told') :
             i # j /\ told'[i].op = "input" /\ told'[j].op = "input" => told'[i].args # told'[j].args
        BY <1>4, <1>7, Zenon
    <2>5. /\ Early' => ~mapped' /\ unchecked' = {}
          /\ stage' \in {"idle", "connecting"} => told' = <<>>
          /\ stage' = "args" => told' = Selects
          /\ told' = <<>> \/ told' = Selects \/ Greeted'
          /\ InGap' \/ mapped' \/ unchecked' # {} => Greeted'
        BY <1>1, <1>7, <2>1 DEF SpeechInv
    <2>6. told' \in Seq(Words)
        BY <1>4, <1>7, Zenon
    <2> QED
        BY <1>2, <2>2, <2>3, <2>4, <2>5, <2>6 DEF SpeechInv
<1> QED
    BY <1>1, <1>5, <1>6, <1>7

LEMMA SpeechChecked ==
    ASSUME SpeechInv, NEW m, InputChecked(m)
    PROVE  SpeechInv'
<1>1. /\ m \in unchecked /\ unchecked' = unchecked \ {m} /\ UNCHANGED <<stage, input>>
      /\ \/ Writes(m) /\ mapped' = mapped
         \/ mapped' = FALSE /\ told' = told
    BY DEF InputChecked
<1>2. input \in Nat /\ unchecked \subseteq 1 .. input /\ m \in Nat /\ m \in 1 .. input
    BY <1>1 DEF SpeechInv
<1>3. Greeted /\ ~Early
    BY <1>1 DEF SpeechInv
<1>4. CASE Writes(m) /\ mapped' = mapped
    <2>1. \A i \in 1 .. Len(told) : told[i].op = "input" => told[i].args # <<m>>
        BY <1>1, <1>2, NotWritten
    <2>2. /\ told' \in Seq(Words) /\ Greeted'
          /\ \A i \in 1 .. Len(told') : told'[i].op = "input" =>
                \/ told'[i].args = <<m>>
                \/ \E k \in (1 .. input) \ unchecked : told'[i].args = <<k>>
          /\ \A i, j \in 1 .. Len(told') :
                i # j /\ told'[i].op = "input" /\ told'[j].op = "input" => told'[i].args # told'[j].args
        BY <1>2, <1>3, <1>4, <2>1, Written
    <2>3. /\ input' \in Nat /\ unchecked' \subseteq 1 .. input' /\ m \in (1 .. input') \ unchecked'
          /\ (1 .. input) \ unchecked \subseteq (1 .. input') \ unchecked'
        BY <1>1, <1>2
    <2>4. \A i \in 1 .. Len(told') : told'[i].op = "input" =>
             \E k \in (1 .. input') \ unchecked' : told'[i].args = <<k>>
        BY <2>2, <2>3, Zenon
    <2>5. ~Early'
        BY <1>1, <1>3 DEF Early
    <2>6. stage' \notin {"idle", "connecting", "args"}
        BY <2>5 DEF Early
    <2> QED
        BY <2>2, <2>3, <2>4, <2>5, <2>6 DEF SpeechInv
<1>5. CASE mapped' = FALSE /\ told' = told
    <2>1. SpeechStays
        BY <1>1, <1>5 DEF SpeechStays, InGap
    <2> QED
        BY <2>1, SpeechKept
<1> QED
    BY <1>1, <1>4, <1>5

LEMMA SpeechInit ==
    ASSUME ChannelInit
    PROVE  SpeechInv
<1>1. stage = "idle" /\ mapped = FALSE /\ told = <<>> /\ input = 0 /\ unchecked = {}
    BY DEF ChannelInit
<1>2. told \in Seq(Words) /\ Len(told) = 0
    BY <1>1, WordsNone
<1>3. input \in Nat /\ unchecked \subseteq 1 .. input /\ 1 .. Len(told) = {}
    BY <1>1, <1>2
<1>4. ~InGap
    BY <1>1 DEF InGap
<1> QED
    BY <1>1, <1>2, <1>3, <1>4 DEF SpeechInv

LEMMA SpeechNext ==
    ASSUME SpeechInv, [ChannelNext]_channelVars
    PROVE  SpeechInv'
<1>1. CASE \/ Start \/ ConnectFails \/ HandshakeBreaks \/ HandshakeTimeout \/ Registered
           \/ GapFails \/ Piped \/ EndsUnseen \/ Crashes \/ PipeEnds \/ Expires
           \/ Disconnected \/ Deliver \/ BrowserLeaves
           \/ (\E n \in 1 .. Pieces : GapChunk(n) \/ PipeChunk(n)) \/ UNCHANGED channelVars
    BY <1>1, SpeechQuiet
<1>2. CASE Connects
    BY <1>2, SpeechConnects
<1>3. CASE \E n \in 1 .. Pieces : HandshakeChunk(n)
    BY <1>3, SpeechHandshake
<1>4. CASE Input
    BY <1>4, SpeechInput
<1>5. CASE \E m \in unchecked : InputChecked(m)
    BY <1>5, SpeechChecked
<1> QED
    BY <1>1, <1>2, <1>3, <1>4, <1>5 DEF ChannelNext

-----------------------------------------------------------------------------

\* Both ways at once.
LEMMA BothWays ==
    ASSUME PathInv, LossInv, SpeechInv
    PROVE  PipeFaithful
<1>1. (stage = "piped" /\ online) => got \o OnWire = Kept(Range1(Size + 1, read), (1 .. read) \ lost)
    <2> SUFFICES ASSUME stage = "piped", online
                 PROVE  got \o OnWire = Kept(Range1(Size + 1, read), (1 .. read) \ lost)
        OBVIOUS
    <2>1. OnPath = Readable /\ Size <= read /\ read \in Nat
        BY DEF PathInv
    <2>2. ~(read < Size)
        BY <2>1, SizeIs
    <2>3. Readable = Kept(Range1(Size + 1, read), (1 .. read) \ lost)
        BY <2>2, Zenon DEF Readable, Spared
    <2>4. OnPath = got \o OnWire
        BY Zenon DEF OnPath, OnWire, Carried
    <2> QED
        BY <2>1, <2>3, <2>4, Zenon
<1>2. (stage = "piped" => lost = Missed) /\ (garbled => shaken < heard)
    BY DEF LossInv, Missing, Missed
<1>3. \A i, j \in DOMAIN got : i < j => got[i] < got[j]
    <2>0. /\ got \in Seq(Nat) /\ Carried(wire) \in Seq(Nat) /\ OnPath \in Seq(Nat)
          /\ Readable \in Seq(Nat) /\ read \in Nat
        BY PathTypes
    <2>1. IsPrefix(got, OnPath)
        BY <2>0, PrefixFirst DEF OnPath
    <2>2. IsPrefix(OnPath, Readable)
        BY DEF PathInv
    <2>3. IsPrefix(got, Readable)
        BY <2>0, <2>1, <2>2, PrefixOf
    <2>4. Len(got) <= Len(Readable) /\ \A i \in 1 .. Len(got) : got[i] = Readable[i]
        BY <2>0, <2>3, PrefixIs
    <2>5. \A i, j \in 1 .. Len(Readable) : i < j => Readable[i] < Readable[j]
        BY <2>0, SparedOrder DEF Readable
    <2>6. 1 .. Len(got) \subseteq 1 .. Len(Readable) /\ DOMAIN got = 1 .. Len(got)
        <3>1. Len(got) \in Nat /\ Len(Readable) \in Nat /\ DOMAIN got = 1 .. Len(got)
            BY <2>0, KeptLen
        <3> QED
            BY <2>4, <3>1
    <2> QED
        <3>1. ASSUME NEW i \in DOMAIN got, NEW j \in DOMAIN got, i < j PROVE got[i] < got[j]
            <4>1. i \in 1 .. Len(Readable) /\ j \in 1 .. Len(Readable)
                BY <2>6
            <4>2. got[i] = Readable[i] /\ got[j] = Readable[j]
                BY <2>4, <2>6
            <4>3. Readable[i] < Readable[j]
                BY <2>5, <3>1, <4>1
            <4> QED
                BY <4>2, <4>3
        <3> QED
            BY <3>1
<1>4. told # <<>> => \/ told = <<Told("select", <<>>)>>
                     \/ IsPrefix(Greeting, told)
    BY DEF SpeechInv, Selects, Greeted
<1>5. \A i, j \in DOMAIN told :
         (i # j /\ told[i].op = "input" /\ told[j].op = "input") => told[i].args # told[j].args
    <2>1. DOMAIN told = 1 .. Len(told)
        BY DEF SpeechInv
    <2> QED
        BY <2>1, Zenon DEF SpeechInv
<1> QED
    BY <1>1, <1>2, <1>3, <1>4, <1>5, Zenon DEF PipeFaithful

\* For every size of an instruction, any number of pieces in chunks cut anywhere,
\* whatever guacd advertises and whenever the session fails or ends: the browser
\* gets in order and once all but the whole instructions that came on the heels
\* of the first and what came before the gateway listened, only the latter can
\* garble it, and guacd hears its handshake before the messages, each of them at
\* most once.
THEOREM PipeFaithfulHolds == ChannelSpec => []PipeFaithful
<1>1. ChannelInit => PathInv /\ LossInv /\ SpeechInv
    BY PathInit, LossInit, SpeechInit
<1>2. PathInv /\ LossInv /\ SpeechInv /\ [ChannelNext]_channelVars => PathInv' /\ LossInv' /\ SpeechInv'
    BY PathNext, LossNext, SpeechNext
<1>3. PathInv /\ LossInv /\ SpeechInv => PipeFaithful
    BY BothWays
<1> QED
    BY <1>1, <1>2, <1>3, PTL DEF ChannelSpec
=============================================================================
