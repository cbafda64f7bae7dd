-------------------------- MODULE SshGatewayProofs --------------------------
(***************************************************************************)
(* Proofs about SshGateway: its types and, when a client does not send     *)
(* start-session twice at once, that no channel escapes the map, that ends *)
(* are accounted for and that the gateway implements SessionBroker; and    *)
(* what the counter of an account is worth, whatever the environment does. *)
(***************************************************************************)
EXTENDS SshGateway, FiniteSetTheorems, TLAPS

USE DEF OptSession

\* What a step of each kind leaves to the type invariant.
LEMMA ReleasedType ==
    ASSUME TypeOK, NEW u \in Users
    PROVE  Released(u) \in [Users -> 0..MaxSessions]
<1>1. slots[u] \in 0..MaxSessions /\ MaxSessions \in Nat
    BY MaxSessionsAssumption DEF TypeOK
<1>2. (IF slots[u] <= 1 THEN 0 ELSE slots[u] - 1) \in 0..MaxSessions
    BY <1>1
<1> QED
    BY <1>2 DEF TypeOK, Released

LEMMA HangUpType ==
    ASSUME TypeOK, NEW c \in Clients, NEW map \in [Clients -> OptSession],
           NEW user \in BOOLEAN,
           HangUp(c, map, user) \/ HangUpIfConnected(c, map, user)
    PROVE  /\ sock' \in [Clients -> {"new", "connected", "gone"}]
           /\ slots' \in [Users -> 0..MaxSessions]
           /\ closing' \in [Clients -> {"none", "recorder", "audit", "done", "failed"}]
           /\ closes' \in [Clients -> OptSession]
<1>1. Owner[c] \in Users
    BY OwnerAssumption
<1>2. Released(Owner[c]) \in [Users -> 0..MaxSessions]
    BY <1>1, ReleasedType
<1>3. CASE HangUp(c, map, user)
    BY <1>2, <1>3 DEF TypeOK, HangUp
<1>4. CASE UNCHANGED <<sock, slots, closeVars>>
    BY <1>4 DEF TypeOK, closeVars
<1> QED
    BY <1>3, <1>4 DEF HangUpIfConnected

LEMMA KillType ==
    ASSUME TypeOK, NEW c \in Clients, NEW s \in Sessions, Kill(c, s)
    PROVE  /\ sock' \in [Clients -> {"new", "connected", "gone"}]
           /\ slots' \in [Users -> 0..MaxSessions]
           /\ closing' \in [Clients -> {"none", "recorder", "audit", "done", "failed"}]
           /\ closes' \in [Clients -> OptSession]
           /\ stream' \in [Sessions -> {"none", "open", "ended", "cut"}]
           /\ active' \in [Clients -> OptSession]
<1> DEFINE map == [active EXCEPT ![c] = NoSession]
<1>1. map \in [Clients -> OptSession]
    BY DEF TypeOK
<1>2. HangUpIfConnected(c, map, auth[c] = "in")
    BY DEF Kill
<1>3. (auth[c] = "in") \in BOOLEAN
    OBVIOUS
<1>4. /\ sock' \in [Clients -> {"new", "connected", "gone"}]
      /\ slots' \in [Users -> 0..MaxSessions]
      /\ closing' \in [Clients -> {"none", "recorder", "audit", "done", "failed"}]
      /\ closes' \in [Clients -> OptSession]
    <2> HIDE DEF map
    <2> QED BY <1>1, <1>2, <1>3, HangUpType
<1> QED
    BY <1>4 DEF TypeOK, Kill

USE DEF connVars, authority, startVars, pollVars, closeVars, recVars

LEMMA TypeInit == Init => TypeOK
BY MaxSessionsAssumption DEF Init, TypeOK, StartStates

\* handleConnection, handleDisconnect and the input handlers keep the types.
LEMMA TypeClient ==
    ASSUME TypeOK, NEW c \in Clients, ClientStep(c)
    PROVE  TypeOK'
<1> DEFINE in == auth[c] = "in"
<1>a. active \in [Clients -> OptSession] /\ in \in BOOLEAN /\ Owner[c] \in Users
    BY OwnerAssumption DEF TypeOK
<1>1. CASE Connect(c)
    BY <1>1 DEF TypeOK, Connect
<1>2. CASE Reject(c)
    <2>1. HangUpIfConnected(c, active, FALSE)
        BY <1>2 DEF Reject
    <2> QED
        BY <1>2, <1>a, <2>1, HangUpType DEF TypeOK, Reject
<1>3. CASE Authenticate(c)
    <2>1. CASE slots[Owner[c]] >= MaxSessions
        <3>1. HangUpIfConnected(c, active, TRUE)
            BY <1>3, <2>1 DEF Authenticate, Refuse
        <3>2. /\ sock' \in [Clients -> {"new", "connected", "gone"}]
              /\ slots' \in [Users -> 0..MaxSessions]
              /\ closing' \in [Clients -> {"none", "recorder", "audit", "done", "failed"}]
              /\ closes' \in [Clients -> OptSession]
            BY <1>a, <3>1, HangUpType
        <3>3. auth' = [auth EXCEPT ![c] = "over"]
            BY <1>3, <2>1 DEF Authenticate, Refuse
        <3> QED
            BY <1>3, <3>2, <3>3 DEF TypeOK, Authenticate
    <2>2. CASE ~(slots[Owner[c]] >= MaxSessions)
        <3>1. slots[Owner[c]] + 1 \in 0..MaxSessions
            BY <1>a, <2>2, MaxSessionsAssumption DEF TypeOK
        <3>2. slots' = [slots EXCEPT ![Owner[c]] = slots[Owner[c]] + 1]
            BY <1>3, <2>2 DEF Authenticate, Admit
        <3>3. slots' \in [Users -> 0..MaxSessions]
            BY <3>1, <3>2 DEF TypeOK
        <3> QED
            BY <1>3, <2>2, <3>3 DEF TypeOK, Authenticate, Admit
    <2> QED
        BY <2>1, <2>2
<1>4. CASE AskAccess(c)
    BY <1>4, <1>a DEF TypeOK, AskAccess
<1>5. CASE AccessAnswered(c)
    <2>1. checking[c] \in Sessions
        BY <1>5 DEF TypeOK, AccessAnswered
    <2>2. cache' \in [Sessions -> {"none", "allowed", "denied"}]
        BY <1>5 DEF TypeOK, AccessAnswered, Verdict
    <2>3. checking' \in [Clients -> OptSession]
        BY <1>5 DEF TypeOK, AccessAnswered
    <2>4. CASE HasAccess(c)
        BY <1>5, <2>2, <2>3, <2>4 DEF TypeOK, AccessAnswered
    <2>5. CASE ~HasAccess(c)
        <3>1. Kill(c, checking[c])
            BY <1>5, <2>5 DEF AccessAnswered
        <3>2. poll' \subseteq Sessions
            BY <1>5, <2>5 DEF TypeOK, AccessAnswered
        <3> QED
            BY <1>5, <2>1, <2>2, <2>3, <3>1, <3>2, KillType DEF TypeOK, AccessAnswered
    <2> QED
        BY <2>4, <2>5
<1>6. CASE AccessUnknown(c)
    BY <1>6 DEF TypeOK, AccessUnknown
<1>7. CASE Disconnect(c)
    <2>1. HangUp(c, active, in)
        BY <1>7 DEF Disconnect
    <2>2. poll' \subseteq Sessions
        BY <1>7 DEF TypeOK, Disconnect, PollsAfterHangUp
    <2> QED
        BY <1>7, <1>a, <2>1, <2>2, HangUpType DEF TypeOK, Disconnect
<1>8. CASE EndRecording(c)
    BY <1>8 DEF TypeOK, EndRecording
<1>9. CASE CloseSession(c)
    <2>1. slots' \in [Users -> 0..MaxSessions]
        BY <1>9, <1>a, ReleasedType DEF CloseSession
    <2> QED
        BY <1>9, <2>1 DEF TypeOK, CloseSession
<1>10. CASE CloseFails(c)
    BY <1>10 DEF TypeOK, CloseFails
<1> QED
    BY <1>1, <1>2, <1>3, <1>4, <1>5, <1>6, <1>7, <1>8, <1>9, <1>10
    DEF ClientStep

\* handleStartSession, the timers of a session and the remote host keep them.
LEMMA TypeSession ==
    ASSUME TypeOK, NEW s \in Sessions, SessionStep(s)
    PROVE  TypeOK'
<1>a. /\ active \in [Clients -> OptSession] /\ by[s] \in Clients
      /\ (auth[by[s]] = "in") \in BOOLEAN
    BY DEF TypeOK
<1>1. CASE StartSession(s)
    BY <1>1 DEF TypeOK, StartSession, StartStates
<1>2. CASE CheckAccess(s)
    BY <1>2 DEF TypeOK, CheckAccess, StartStates
<1>3. CASE OpenStream(s)
    BY <1>3, <1>a DEF TypeOK, OpenStream, StartStates
<1>4. CASE RowCreated(s)
    BY <1>4 DEF TypeOK, RowCreated, StartStates
<1>5. CASE Announce(s)
    BY <1>5 DEF TypeOK, Announce, StartStates
<1>6. CASE StartFails(s)
    BY <1>6 DEF TypeOK, StartFails, StartStates
<1>7. CASE CacheExpires(s)
    BY <1>7 DEF TypeOK, CacheExpires
<1>8. CASE PollFires(s)
    BY <1>8, <1>a DEF TypeOK, PollFires
<1>9. CASE PollAnswered(s)
    <2>1. polling[s] \in Sessions
        BY <1>9 DEF TypeOK, PollAnswered
    <2>2. polling' \in [Sessions -> OptSession]
        BY <1>9 DEF TypeOK, PollAnswered
    <2>3. cache' \in [Sessions -> {"none", "allowed", "denied"}]
        BY <1>9 DEF TypeOK, PollAnswered
    <2>4. CASE Revoked(by[s])
        <3>1. Kill(by[s], polling[s])
            BY <1>9, <2>4 DEF PollAnswered
        <3>2. trail' \in [Sessions -> SUBSET {"DENIED", "STARTED", "CLOSED", "KILLED"}]
            BY <1>9, <2>4 DEF TypeOK, PollAnswered
        <3> QED
            BY <1>9, <1>a, <2>1, <2>2, <2>3, <3>1, <3>2, KillType
            DEF TypeOK, PollAnswered
    <2>5. CASE ~Revoked(by[s])
        BY <1>9, <2>2, <2>3, <2>5 DEF TypeOK, PollAnswered
    <2> QED
        BY <2>4, <2>5
<1>10. CASE PollErrs(s)
    BY <1>10 DEF TypeOK, PollErrs
<1>11. CASE RemoteCloses(s)
    <2>1. stream' \in [Sessions -> {"none", "open", "ended", "cut"}]
        BY <1>11 DEF TypeOK, RemoteCloses
    <2>2. CASE start[s] = "ready" /\ Connected(by[s])
        <3>1. HangUp(by[s], active, auth[by[s]] = "in")
            BY <1>11, <2>2 DEF RemoteCloses
        <3>2. poll' \subseteq Sessions
            BY <1>11, <2>2 DEF TypeOK, RemoteCloses, PollsAfterHangUp
        <3> QED
            BY <1>11, <1>a, <2>1, <3>1, <3>2, HangUpType DEF TypeOK, RemoteCloses
    <2>3. CASE ~(start[s] = "ready" /\ Connected(by[s]))
        BY <1>11, <2>1, <2>3 DEF TypeOK, RemoteCloses
    <2> QED
        BY <2>2, <2>3
<1> QED
    BY <1>1, <1>2, <1>3, <1>4, <1>5, <1>6, <1>7, <1>8, <1>9, <1>10, <1>11
    DEF SessionStep

LEMMA TypeNext == TypeOK /\ [Next]_vars => TypeOK'
<1> SUFFICES ASSUME TypeOK, [Next]_vars PROVE TypeOK'
    OBVIOUS
<1>1. ASSUME NEW c \in Clients, ClientStep(c) PROVE TypeOK'
    BY <1>1, TypeClient
<1>2. ASSUME NEW s \in Sessions, SessionStep(s) PROVE TypeOK'
    BY <1>2, TypeSession
<1>3. ASSUME NEW u \in Users, AdminStep(u) PROVE TypeOK'
    BY <1>3 DEF TypeOK, AdminStep, RevokeAccess, GrantAccess, RevokeTokens
<1>4. CASE UNCHANGED vars
    BY <1>4 DEF TypeOK, vars
<1> QED
    BY <1>1, <1>2, <1>3, <1>4 DEF Next

\* Every state of the gateway is well typed; in particular the counter of an
\* account never leaves 0..MAX_SESSIONS_PER_USER, whatever the surroundings do.
THEOREM TypeCorrect == Spec => []TypeOK
BY TypeInit, TypeNext, PTL DEF Spec

-----------------------------------------------------------------------------
(* Channels stay reachable                                                 *)

\* A call of start-session that may still open a channel, or has.
Busy(s) == s \in Starting \/ stream[s] # "none"

\* Before sshSessions.set there is no channel.
Unopened == \A s \in Sessions :
    start[s] \in {"unused", "access", "connect"} => stream[s] = "none"

\* A socket has one busy call: the one the map holds, or none yet.
OneBusy == \A s, t \in Sessions :
    Busy(s) /\ Busy(t) /\ by[s] = by[t] => s = t

\* What the map and the pending handlers refer to is a session of that socket.
Opened(s, c) == by[s] = c /\ stream[s] # "none"
MapOwn == \A c \in Clients : active[c] # NoSession => Opened(active[c], c)
CheckingOwn == \A c \in Clients : checking[c] # NoSession => Opened(checking[c], c)
PollingOwn == \A s \in Sessions : polling[s] # NoSession => Opened(polling[s], by[s])
\* handleDisconnect has a session in hand, or stopped with it.
Closing == {"recorder", "audit", "failed"}
ClosingOwn == \A c \in Clients :
    closing[c] \in Closing =>
        closes[c] \in Sessions /\ Opened(closes[c], c)

\* A socket that is connected still has its session in the map, so that the
\* early return of handleStartSession refuses another one.
Mapped == \A s \in Sessions :
    stream[s] # "none" /\ Connected(by[s]) => active[by[s]] = s

\* Handlers run on sockets that have connected, disconnections on ones gone.
Used == \A s \in Sessions : start[s] # "unused" => sock[by[s]] # "new"
GoneWhenClosing == \A c \in Clients : closing[c] # "none" => sock[c] = "gone"

ReachableInv ==
    /\ TypeOK /\ StreamsReachable
    /\ Unopened /\ OneBusy /\ MapOwn /\ CheckingOwn /\ PollingOwn /\ ClosingOwn
    /\ Mapped /\ Used /\ GoneWhenClosing

\* What a disconnection does to the invariant: the socket goes and only that.
LEMMA HangUpReach ==
    ASSUME ReachableInv, NEW c \in Clients, NEW user \in BOOLEAN,
           NEW map \in [Clients -> OptSession],
           map[c] \in {NoSession, active[c]},
           HangUpIfConnected(c, map, user)
    PROVE  /\ GoneWhenClosing' /\ (Used' \/ start' # start \/ by' # by)
           /\ \A d \in Clients : Connected(d)' => Connected(d) /\ (d = c => FALSE)
           /\ \A d \in Clients :
                 closing'[d] \in Closing =>
                    \/ closing[d] \in Closing /\ closes'[d] = closes[d]
                    \/ closes'[d] = active[d] /\ active[d] # NoSession
           /\ \A d \in Clients :
                 /\ closing'[d] = "failed" <=> closing[d] = "failed"
                 /\ closing[d] = "failed" => closes'[d] = closes[d]
<1>1. CASE Connected(c) /\ HangUp(c, map, user)
    <2>1. GoneWhenClosing'
        BY <1>1 DEF ReachableInv, TypeOK, HangUp, GoneWhenClosing
    <2>2. Used' \/ start' # start \/ by' # by
        BY <1>1 DEF ReachableInv, TypeOK, HangUp, Used
    <2>3. \A d \in Clients : Connected(d)' => Connected(d) /\ (d = c => FALSE)
        BY <1>1 DEF ReachableInv, TypeOK, HangUp, Connected
    <2>4. ASSUME NEW d \in Clients, closing'[d] \in Closing
          PROVE  \/ closing[d] \in Closing /\ closes'[d] = closes[d]
                 \/ closes'[d] = active[d] /\ active[d] # NoSession
        BY <1>1, <2>4 DEF ReachableInv, TypeOK, HangUp, Closing
    <2>5. ASSUME NEW d \in Clients
          PROVE  /\ closing'[d] = "failed" <=> closing[d] = "failed"
                 /\ closing[d] = "failed" => closes'[d] = closes[d]
        BY <1>1 DEF ReachableInv, TypeOK, HangUp, GoneWhenClosing, Connected
    <2> QED
        BY <2>1, <2>2, <2>3, <2>4, <2>5
<1>2. CASE ~Connected(c) /\ UNCHANGED <<sock, slots, closeVars>>
    BY <1>2 DEF ReachableInv, GoneWhenClosing, Used, Connected
<1> QED
    BY <1>1, <1>2 DEF HangUpIfConnected

\* The part of the invariant that does not concern what handlers looked up.
Core == /\ StreamsReachable /\ Unopened /\ OneBusy /\ MapOwn /\ ClosingOwn
        /\ Mapped /\ Used /\ GoneWhenClosing

\* Channels that were opened stay opened or ended.
StillOpened == \A s \in Sessions : stream[s] # "none" => stream'[s] # "none"

\* A disconnection that ends no channel, or one that has ended by itself.
LEMMA HangUpKeepsCore ==
    ASSUME ReachableInv, TypeOK', NEW c \in Clients, NEW user \in BOOLEAN,
           HangUpIfConnected(c, active, user), UNCHANGED <<startVars, active>>,
           \A s \in Sessions : /\ stream'[s] = "open" => stream[s] = "open"
                               /\ stream'[s] = "none" <=> stream[s] = "none"
    PROVE  Core' /\ StillOpened
<1>1. active \in [Clients -> OptSession]
    BY DEF ReachableInv, TypeOK
<1>2. /\ GoneWhenClosing' /\ Used'
      /\ \A d \in Clients : Connected(d)' => Connected(d)
      /\ \A d \in Clients :
            closing'[d] \in Closing =>
               \/ closing[d] \in Closing /\ closes'[d] = closes[d]
               \/ closes'[d] = active[d] /\ active[d] # NoSession
    BY <1>1, HangUpReach
<1>3. StreamsReachable' /\ Unopened'
    BY DEF ReachableInv, StreamsReachable, Unopened
<1>4. OneBusy'
    BY DEF ReachableInv, OneBusy, Busy, Starting
<1>5. MapOwn'
    BY DEF ReachableInv, MapOwn, Opened, TypeOK
<1>6. ClosingOwn'
    BY <1>1, <1>2 DEF ReachableInv, ClosingOwn, MapOwn, Opened, TypeOK
<1>7. Mapped'
    BY <1>2 DEF ReachableInv, Mapped, TypeOK
<1> QED
    BY <1>2, <1>3, <1>4, <1>5, <1>6, <1>7 DEF Core, StillOpened

\* Cutting off a session of the socket that handles it.
LEMMA KillKeepsCore ==
    ASSUME ReachableInv, TypeOK', NEW c \in Clients, NEW s \in Sessions,
           Opened(s, c), Kill(c, s), UNCHANGED startVars
    PROVE  Core' /\ StillOpened
<1> DEFINE map == [active EXCEPT ![c] = NoSession]
<1>1. map \in [Clients -> OptSession] /\ map[c] = NoSession
    BY DEF ReachableInv, TypeOK
<1>2. /\ GoneWhenClosing' /\ Used'
      /\ \A d \in Clients : Connected(d)' => Connected(d) /\ (d = c => FALSE)
      /\ \A d \in Clients :
            closing'[d] \in Closing =>
               \/ closing[d] \in Closing /\ closes'[d] = closes[d]
               \/ closes'[d] = active[d] /\ active[d] # NoSession
    <2>1. HangUpIfConnected(c, map, auth[c] = "in") /\ (auth[c] = "in") \in BOOLEAN
        BY DEF Kill
    <2> HIDE DEF map
    <2> QED
        BY <1>1, <2>1, HangUpReach
<1>3. /\ \A x \in Sessions : stream'[x] = IF x = s THEN "cut" ELSE stream[x]
      /\ \A d \in Clients : active'[d] = IF d = c THEN NoSession ELSE active[d]
    BY DEF Kill, ReachableInv, TypeOK
<1>4. by \in [Sessions -> Clients] /\ start' = start /\ by' = by
    BY DEF ReachableInv, TypeOK
<1>5. \A x \in Sessions : stream[x] # "none" /\ by[x] = c => x = s
    BY DEF ReachableInv, OneBusy, Busy, Opened
<1>6. StreamsReachable'
    BY <1>3, <1>4, <1>5 DEF ReachableInv, StreamsReachable
<1>7. Unopened'
    BY <1>3, <1>4 DEF ReachableInv, Unopened, Opened
<1>8. OneBusy'
    BY <1>3, <1>4 DEF ReachableInv, OneBusy, Busy, Starting, Opened
<1>9. MapOwn'
    BY <1>3, <1>4 DEF ReachableInv, MapOwn, Opened, TypeOK
<1>10. ClosingOwn'
    BY <1>2, <1>3, <1>4 DEF ReachableInv, ClosingOwn, MapOwn, Opened, TypeOK
<1>11. Mapped'
    BY <1>2, <1>3, <1>4 DEF ReachableInv, Mapped, Opened
<1> QED
    BY <1>2, <1>3, <1>6, <1>7, <1>8, <1>9, <1>10, <1>11 DEF Core, StillOpened

\* With the look-ups of the pending handlers, the whole invariant.
LEMMA Rejoin ==
    ASSUME ReachableInv, TypeOK', Core', StillOpened, by' = by,
           \A c \in Clients : checking'[c] \in {checking[c], NoSession, active[c]},
           \A s \in Sessions : polling'[s] \in {polling[s], NoSession, active[by[s]]}
    PROVE  ReachableInv'
<1>1. by \in [Sessions -> Clients] /\ by' = by
    BY DEF ReachableInv, TypeOK
<1>2. \A c \in Clients : /\ active[c] # NoSession => active[c] \in Sessions
                         /\ checking[c] # NoSession => checking[c] \in Sessions
    BY DEF ReachableInv, TypeOK
<1>3. \A s \in Sessions : polling[s] # NoSession => polling[s] \in Sessions
    BY DEF ReachableInv, TypeOK
<1>4. CheckingOwn'
    <2> SUFFICES ASSUME NEW c \in Clients, checking'[c] # NoSession
                 PROVE  Opened(checking[c], c)'
        BY DEF CheckingOwn
    <2>1. checking'[c] \in Sessions /\ Opened(checking'[c], c)
        BY <1>2 DEF ReachableInv, CheckingOwn, MapOwn
    <2> QED
        BY <1>1, <2>1 DEF StillOpened, Opened
<1>5. PollingOwn'
    <2> SUFFICES ASSUME NEW s \in Sessions, polling'[s] # NoSession
                 PROVE  Opened(polling[s], by[s])'
        BY <1>1 DEF PollingOwn
    <2>1. polling'[s] \in Sessions /\ Opened(polling'[s], by[s])
        BY <1>1, <1>2, <1>3 DEF ReachableInv, PollingOwn, MapOwn
    <2> QED
        BY <1>1, <2>1 DEF StillOpened, Opened
<1> QED
    BY <1>4, <1>5 DEF ReachableInv, Core

LEMMA ReachableInit == Init => ReachableInv
BY TypeInit, NoSessionAssumption
DEF Init, ReachableInv, StreamsReachable, Unopened, OneBusy, Busy, Starting, MapOwn,
    CheckingOwn, PollingOwn, ClosingOwn, Closing, Mapped, Used, GoneWhenClosing, Opened, Connected

\* Steps that leave the sockets, the calls, the map and the channels alone.
LEMMA QuietKeepsCore ==
    ASSUME ReachableInv,
           UNCHANGED <<sock, closeVars, startVars, active, stream>>
    PROVE  Core' /\ StillOpened
BY DEF ReachableInv, Core, StillOpened, StreamsReachable, Unopened, OneBusy, Busy,
       Starting, MapOwn, ClosingOwn, Opened, Mapped, Used, GoneWhenClosing, Connected

\* Steps of a call of start-session that only change where it stands, without
\* going back to where a channel may be opened.
Progress(s) ==
    /\ start[s] # "unused"
    /\ \A t \in Sessions : t # s => start'[t] = start[t]
    /\ \/ start'[s] \in {"announce", "ready", "denied", "failed"}
       \/ start[s] = "access" /\ start'[s] = "connect"

LEMMA ProgressKeepsCore ==
    ASSUME ReachableInv, NEW s \in Sessions, Progress(s),
           UNCHANGED <<sock, closeVars, by, active, stream>>
    PROVE  Core' /\ StillOpened
<1>1. Unopened'
    BY DEF ReachableInv, Unopened, Progress
<1>2. OneBusy'
    BY DEF ReachableInv, OneBusy, Busy, Starting, Progress
<1>3. Used'
    BY DEF ReachableInv, Used, Progress
<1> QED
    BY <1>1, <1>2, <1>3
    DEF ReachableInv, Core, StillOpened, StreamsReachable, MapOwn, ClosingOwn, Opened,
        Mapped, GoneWhenClosing, Connected

LEMMA ReachableClient ==
    ASSUME ReachableInv, TypeOK', NEW c \in Clients, ClientStep(c)
    PROVE  ReachableInv'
<1>a. /\ TypeOK /\ startVars' = startVars /\ polling' = polling
    BY DEF ReachableInv, ClientStep, Connect, Reject, Authenticate, Refuse, Admit,
           AskAccess, AccessAnswered, AccessUnknown, Disconnect, EndRecording,
           CloseSession, CloseFails
<1>1. CASE Connect(c)
    <2>1. sock[c] = "new" /\ sock' = [sock EXCEPT ![c] = "connected"]
        BY <1>1 DEF Connect
    <2>2. \A s \in Sessions : by[s] = c => start[s] = "unused" /\ stream[s] = "none"
        BY <2>1 DEF ReachableInv, Used, Unopened
    <2>3. Mapped' /\ Used'
        BY <1>1, <2>1, <2>2 DEF ReachableInv, TypeOK, Mapped, Used, Connected, Connect
    <2>4. GoneWhenClosing'
        BY <1>1, <2>1 DEF ReachableInv, TypeOK, GoneWhenClosing, Connect
    <2>5. Core' /\ StillOpened
        BY <1>1, <2>3, <2>4
        DEF Connect, ReachableInv, Core, StillOpened, StreamsReachable, Unopened, OneBusy,
            Busy, Starting, MapOwn, ClosingOwn, Opened
    <2> QED
        BY <1>1, <1>a, <2>5, Rejoin DEF Connect
<1>2. CASE Reject(c)
    <2>1. Core' /\ StillOpened
        BY <1>2, HangUpKeepsCore DEF Reject
    <2> QED
        BY <1>2, <1>a, <2>1, Rejoin DEF Reject
<1>3. CASE Authenticate(c)
    <2>1. ASSUME HangUpIfConnected(c, active, TRUE) PROVE Core' /\ StillOpened
        BY <1>3, <2>1, HangUpKeepsCore DEF Authenticate, Refuse, Admit
    <2>2. ASSUME UNCHANGED <<sock, closeVars>> PROVE Core' /\ StillOpened
        BY <1>3, <2>2, QuietKeepsCore DEF Authenticate, Refuse, Admit
    <2>3. Core' /\ StillOpened
        BY <1>3, <2>1, <2>2 DEF Authenticate, Refuse, Admit
    <2> QED
        BY <1>3, <1>a, <2>3, Rejoin DEF Authenticate, Refuse, Admit
<1>4. CASE AskAccess(c)
    <2>1. Core' /\ StillOpened
        BY <1>4, QuietKeepsCore DEF AskAccess
    <2>2. \A d \in Clients : checking'[d] \in {checking[d], active[d]}
        BY <1>4, <1>a DEF AskAccess, TypeOK
    <2> QED
        BY <1>4, <1>a, <2>1, <2>2, Rejoin DEF AskAccess
<1>5. CASE AccessAnswered(c)
    <2>1. checking[c] \in Sessions /\ Opened(checking[c], c)
        BY <1>5 DEF AccessAnswered, ReachableInv, TypeOK, CheckingOwn
    <2>2. ASSUME HasAccess(c) PROVE Core' /\ StillOpened
        BY <1>5, <2>2, QuietKeepsCore DEF AccessAnswered
    <2>3. ASSUME Kill(c, checking[c]) PROVE Core' /\ StillOpened
        BY <1>5, <2>1, <2>3, KillKeepsCore DEF AccessAnswered
    <2>4. Core' /\ StillOpened
        BY <1>5, <2>2, <2>3 DEF AccessAnswered
    <2>5. \A d \in Clients : checking'[d] \in {checking[d], NoSession}
        BY <1>5, <1>a DEF AccessAnswered, TypeOK
    <2> QED
        BY <1>5, <1>a, <2>4, <2>5, Rejoin DEF AccessAnswered
<1>6. CASE AccessUnknown(c)
    <2>1. Core' /\ StillOpened
        BY <1>6, QuietKeepsCore DEF AccessUnknown
    <2>2. \A d \in Clients : checking'[d] \in {checking[d], NoSession}
        BY <1>6, <1>a DEF AccessUnknown, TypeOK
    <2> QED
        BY <1>6, <1>a, <2>1, <2>2, Rejoin DEF AccessUnknown
<1>7. CASE Disconnect(c)
    <2>1. HangUpIfConnected(c, active, auth[c] = "in") /\ (auth[c] = "in") \in BOOLEAN
        BY <1>7 DEF Disconnect, HangUpIfConnected
    <2>2. Core' /\ StillOpened
        BY <1>7, <2>1, HangUpKeepsCore DEF Disconnect
    <2> QED
        BY <1>7, <1>a, <2>2, Rejoin DEF Disconnect
<1>8. CASE EndRecording(c)
    <2>1. /\ GoneWhenClosing' /\ ClosingOwn'
        BY <1>8 DEF EndRecording, ReachableInv, TypeOK, GoneWhenClosing, ClosingOwn, Closing, Opened
    <2>2. Core' /\ StillOpened
        BY <1>8, <2>1
        DEF EndRecording, ReachableInv, Core, StillOpened, StreamsReachable, Unopened,
            OneBusy, Busy, Starting, MapOwn, Opened, Mapped, Used, Connected
    <2> QED
        BY <1>8, <1>a, <2>2, Rejoin DEF EndRecording
<1>9. CASE CloseSession(c)
    <2>1. /\ closes[c] \in Sessions /\ Opened(closes[c], c) /\ sock[c] = "gone"
          /\ sock' = sock /\ closes' = closes
        BY <1>9 DEF CloseSession, ReachableInv, ClosingOwn, Closing, GoneWhenClosing
    <2>2. /\ \A x \in Sessions :
                stream'[x] = IF x = closes[c] THEN "ended" ELSE stream[x]
          /\ \A d \in Clients : active'[d] = IF d = c THEN NoSession ELSE active[d]
          /\ \A d \in Clients : closing'[d] = IF d = c THEN "done" ELSE closing[d]
        BY <1>9, <1>a DEF CloseSession, TypeOK
    <2>3. by \in [Sessions -> Clients] /\ active \in [Clients -> OptSession]
        BY <1>a DEF TypeOK
    <2>4. \A x \in Sessions : stream[x] # "none" /\ by[x] = c => x = closes[c]
        BY <2>1 DEF ReachableInv, OneBusy, Busy, Opened
    <2>5. StreamsReachable'
        BY <1>a, <2>2, <2>3, <2>4 DEF ReachableInv, StreamsReachable
    <2>6. Unopened' /\ OneBusy' /\ Used'
        BY <1>a, <2>1, <2>2 DEF ReachableInv, Unopened, OneBusy, Busy, Starting, Opened, Used
    <2>7. MapOwn' /\ ClosingOwn'
        BY <1>a, <2>1, <2>2, <2>3 DEF ReachableInv, MapOwn, ClosingOwn, Opened
    <2>8. Mapped' /\ GoneWhenClosing'
        BY <1>a, <2>1, <2>2, <2>3
        DEF ReachableInv, Mapped, GoneWhenClosing, Connected, Opened
    <2>9. Core' /\ StillOpened
        BY <2>2, <2>5, <2>6, <2>7, <2>8 DEF Core, StillOpened
    <2> QED
        BY <1>9, <1>a, <2>9, Rejoin DEF CloseSession
<1>10. CASE CloseFails(c)
    <2>1. GoneWhenClosing' /\ ClosingOwn'
        BY <1>10 DEF CloseFails, ReachableInv, TypeOK, GoneWhenClosing, ClosingOwn, Closing, Opened
    <2>2. Core' /\ StillOpened
        BY <1>10, <2>1
        DEF CloseFails, ReachableInv, Core, StillOpened, StreamsReachable, Unopened,
            OneBusy, Busy, Starting, MapOwn, Opened, Mapped, Used, Connected
    <2> QED
        BY <1>10, <1>a, <2>2, Rejoin DEF CloseFails
<1> QED
    BY <1>1, <1>2, <1>3, <1>4, <1>5, <1>6, <1>7, <1>8, <1>9, <1>10
    DEF ClientStep

LEMMA ReachableSession ==
    ASSUME ReachableInv, TypeOK', NEW s \in Sessions, SessionStep(s),
           "parallel_start" \notin Environment
    PROVE  ReachableInv'
<1>a. /\ TypeOK /\ by' = by /\ checking' = checking
    BY DEF ReachableInv, SessionStep, StartSession, CheckAccess, OpenStream, RowCreated,
           Announce, StartFails, CacheExpires, PollFires, PollAnswered, PollErrs,
           RemoteCloses
<1>1. CASE StartSession(s)
    <2>1. /\ start[s] = "unused" /\ Connected(by[s]) /\ active[by[s]] = NoSession
          /\ \A t \in Starting : by[t] # by[s]
          /\ start' = [start EXCEPT ![s] = "access"]
        BY <1>1 DEF StartSession
    <2>2. \A t \in Sessions : by[t] = by[s] => ~Busy(t)
        BY <2>1, NoSessionAssumption DEF Busy, ReachableInv, Mapped
    <2>3. \A t \in Sessions : start'[t] = IF t = s THEN "access" ELSE start[t]
        BY <2>1, <1>a DEF TypeOK
    <2>4. Unopened'
        BY <1>1, <2>1, <2>3 DEF StartSession, ReachableInv, Unopened
    <2>5. OneBusy'
        BY <1>1, <1>a, <2>2, <2>3 DEF StartSession, ReachableInv, OneBusy, Busy, Starting
    <2>6. Used'
        BY <1>1, <1>a, <2>1, <2>3 DEF StartSession, ReachableInv, Used, Connected
    <2>7. Core' /\ StillOpened
        BY <1>1, <2>4, <2>5, <2>6
        DEF StartSession, ReachableInv, Core, StillOpened, StreamsReachable, MapOwn,
            ClosingOwn, Opened, Mapped, GoneWhenClosing, Connected
    <2> QED
        BY <1>1, <1>a, <2>7, Rejoin DEF StartSession
<1>2. CASE CheckAccess(s)
    <2>1. Progress(s)
        BY <1>2, <1>a DEF CheckAccess, TypeOK, Progress
    <2>2. UNCHANGED <<sock, closeVars, by, active, stream>>
        BY <1>2 DEF CheckAccess
    <2>3. Core' /\ StillOpened
        BY <2>1, <2>2, ProgressKeepsCore
    <2> QED
        BY <1>2, <1>a, <2>3, Rejoin DEF CheckAccess
<1>3. CASE OpenStream(s)
    <2>1. /\ start[s] = "connect" /\ start'[s] \in {"record", "announce"}
          /\ \A t \in Sessions : t # s => start'[t] = start[t]
          /\ \A t \in Sessions : stream'[t] = IF t = s THEN "open" ELSE stream[t]
          /\ \A d \in Clients : active'[d] = IF d = by[s] THEN s ELSE active[d]
          /\ UNCHANGED <<sock, closeVars, by>>
        BY <1>3, <1>a DEF OpenStream, TypeOK
    <2>2. \A t \in Sessions : t # s /\ by[t] = by[s] => ~Busy(t)
        BY <2>1 DEF ReachableInv, OneBusy, Busy, Starting
    <2>3. StreamsReachable' /\ Mapped'
        BY <1>a, <2>1, <2>2 DEF TypeOK, ReachableInv, StreamsReachable, Mapped, Busy, Connected
    <2>4. Unopened' /\ Used'
        BY <2>1 DEF ReachableInv, Unopened, Used
    <2>5. OneBusy'
        BY <2>1, <2>2 DEF ReachableInv, OneBusy, Busy, Starting
    <2>6. MapOwn'
        BY <2>1, <1>a DEF ReachableInv, MapOwn, Opened, TypeOK
    <2>7. ClosingOwn' /\ GoneWhenClosing'
        BY <2>1 DEF ReachableInv, ClosingOwn, GoneWhenClosing, Opened
    <2>8. Core' /\ StillOpened
        BY <2>1, <2>3, <2>4, <2>5, <2>6, <2>7 DEF Core, StillOpened
    <2> QED
        BY <1>3, <1>a, <2>8, Rejoin DEF OpenStream
<1>4. CASE RowCreated(s)
    <2>1. Progress(s)
        BY <1>4, <1>a DEF RowCreated, TypeOK, Progress
    <2>2. UNCHANGED <<sock, closeVars, by, active, stream>>
        BY <1>4 DEF RowCreated
    <2>3. Core' /\ StillOpened
        BY <2>1, <2>2, ProgressKeepsCore
    <2> QED
        BY <1>4, <1>a, <2>3, Rejoin DEF RowCreated
<1>5. CASE Announce(s)
    <2>1. Progress(s)
        BY <1>5, <1>a DEF Announce, TypeOK, Progress
    <2>2. UNCHANGED <<sock, closeVars, by, active, stream>>
        BY <1>5 DEF Announce
    <2>3. Core' /\ StillOpened
        BY <2>1, <2>2, ProgressKeepsCore
    <2> QED
        BY <1>5, <1>a, <2>3, Rejoin DEF Announce
<1>6. CASE StartFails(s)
    <2>1. Progress(s)
        BY <1>6, <1>a DEF StartFails, TypeOK, Progress
    <2>2. UNCHANGED <<sock, closeVars, by, active, stream>>
        BY <1>6 DEF StartFails
    <2>3. Core' /\ StillOpened
        BY <2>1, <2>2, ProgressKeepsCore
    <2> QED
        BY <1>6, <1>a, <2>3, Rejoin DEF StartFails
<1>7. CASE CacheExpires(s)
    BY <1>7, <1>a, QuietKeepsCore, Rejoin DEF CacheExpires
<1>8. CASE PollFires(s)
    <2>1. \A t \in Sessions : polling'[t] \in {polling[t], active[by[t]]}
        BY <1>8, <1>a DEF PollFires, TypeOK
    <2> QED
        BY <1>8, <1>a, <2>1, QuietKeepsCore, Rejoin DEF PollFires
<1>9. CASE PollAnswered(s)
    <2>1. /\ polling[s] \in Sessions /\ by[s] \in Clients
          /\ Opened(polling[s], by[s])
        BY <1>9 DEF PollAnswered, ReachableInv, TypeOK, PollingOwn
    <2>2. \A t \in Sessions : polling'[t] \in {polling[t], NoSession}
        BY <1>9, <1>a DEF PollAnswered, TypeOK
    <2>3. ASSUME Revoked(by[s]) PROVE Core' /\ StillOpened
        BY <1>9, <2>1, <2>3, KillKeepsCore DEF PollAnswered
    <2>4. ASSUME ~Revoked(by[s]) PROVE Core' /\ StillOpened
        BY <1>9, <2>4, QuietKeepsCore DEF PollAnswered
    <2> QED
        BY <1>9, <1>a, <2>2, <2>3, <2>4, Rejoin DEF PollAnswered
<1>10. CASE PollErrs(s)
    <2>1. \A t \in Sessions : polling'[t] \in {polling[t], NoSession}
        BY <1>10, <1>a DEF PollErrs, TypeOK
    <2> QED
        BY <1>10, <1>a, <2>1, QuietKeepsCore, Rejoin DEF PollErrs
<1>11. CASE RemoteCloses(s)
    <2>1. /\ \A t \in Sessions : /\ stream'[t] = "open" => stream[t] = "open"
                                 /\ stream'[t] = "none" <=> stream[t] = "none"
          /\ by[s] \in Clients /\ (auth[by[s]] = "in") \in BOOLEAN
          /\ UNCHANGED <<startVars, active>>
        BY <1>11, <1>a DEF RemoteCloses, TypeOK
    <2>2. ASSUME start[s] = "ready" /\ Connected(by[s])
          PROVE  HangUpIfConnected(by[s], active, auth[by[s]] = "in")
        BY <1>11, <2>2 DEF RemoteCloses, HangUpIfConnected
    <2>3. ASSUME start[s] = "ready" /\ Connected(by[s]) PROVE Core' /\ StillOpened
        BY <2>1, <2>2, <2>3, HangUpKeepsCore
    <2>4. ASSUME ~(start[s] = "ready" /\ Connected(by[s])) PROVE Core' /\ StillOpened
        <3>1. UNCHANGED <<sock, closeVars>>
            BY <1>11, <2>4 DEF RemoteCloses
        <3> QED
            BY <2>1, <3>1
            DEF ReachableInv, Core, StillOpened, StreamsReachable, Unopened, OneBusy, Busy,
                Starting, MapOwn, ClosingOwn, Opened, Mapped, Used, GoneWhenClosing,
                Connected, TypeOK
    <2> QED
        BY <1>11, <1>a, <2>3, <2>4, Rejoin DEF RemoteCloses
<1> QED
    BY <1>1, <1>2, <1>3, <1>4, <1>5, <1>6, <1>7, <1>8, <1>9, <1>10, <1>11
    DEF SessionStep

LEMMA ReachableNext ==
    ASSUME ReachableInv, [Next]_vars, "parallel_start" \notin Environment
    PROVE  ReachableInv'
<1>1. TypeOK'
    BY TypeNext DEF ReachableInv
<1>2. ASSUME NEW c \in Clients, ClientStep(c) PROVE ReachableInv'
    BY <1>1, <1>2, ReachableClient
<1>3. ASSUME NEW s \in Sessions, SessionStep(s) PROVE ReachableInv'
    BY <1>1, <1>3, ReachableSession
<1>4. ASSUME NEW u \in Users, AdminStep(u) PROVE ReachableInv'
    BY <1>1, <1>4, QuietKeepsCore, Rejoin
    DEF AdminStep, RevokeAccess, GrantAccess, RevokeTokens
<1>5. CASE UNCHANGED vars
    BY <1>1, <1>5, QuietKeepsCore, Rejoin DEF vars
<1> QED
    BY <1>2, <1>3, <1>4, <1>5 DEF Next

\* For any number of sockets, accounts and sessions, with sockets that drop while
\* they authenticate and audit events that cannot be logged: while no client sends
\* start-session again before the first has opened its channel, every open channel
\* is the one the map holds for its socket.
THEOREM StreamsReachableHolds ==
    ASSUME "parallel_start" \notin Environment
    PROVE  Spec => []StreamsReachable
<1>1. ReachableInv /\ [Next]_vars => ReachableInv'
    BY ReachableNext
<1>2. ReachableInv => StreamsReachable
    BY DEF ReachableInv
<1> QED
    BY ReachableInit, <1>1, <1>2, PTL DEF Spec

-----------------------------------------------------------------------------
(* Orderly ends are accounted for                                          *)

\* What has been announced has a channel.
Announced == \A s \in Sessions :
    start[s] \in {"record", "announce"} \/ "STARTED" \in trail[s] => stream[s] # "none"

\* A channel off the map was cut, or closed by handleDisconnect to its end.
Accounted == \A s \in Sessions :
    stream[s] \notin {"none", "cut"} /\ active[by[s]] # s
        => "CLOSED" \in trail[s] /\ s \notin recording

\* handleDisconnect has left the recorder before it logs.
RecorderLeft == \A c \in Clients : closing[c] = "audit" => closes[c] \notin recording

EndsInv == ReachableInv /\ Announced /\ Accounted /\ RecorderLeft

LEMMA HangUpEnds ==
    ASSUME TypeOK, NEW c \in Clients, NEW map, NEW user \in BOOLEAN,
           HangUp(c, map, user) \/ HangUpIfConnected(c, map, user)
    PROVE  \A d \in Clients : closing'[d] = "audit" => closing[d] = "audit"
                                                       /\ closes'[d] = closes[d]
BY DEF TypeOK, HangUp, HangUpIfConnected

\* Sockets come and go, channels may end: the map, the trail and the recorder stay.
LEMMA QuietKeepsEnds ==
    ASSUME EndsInv, UNCHANGED <<startVars, active, recording>>,
           \A s \in Sessions : /\ \/ stream'[s] = stream[s]
                                  \/ stream[s] = "open" /\ stream'[s] = "ended"
                               /\ trail[s] \subseteq trail'[s]
                               /\ "STARTED" \in trail'[s] => "STARTED" \in trail[s],
           \A c \in Clients : closing'[c] = "audit" => closing[c] = "audit"
                                                       /\ closes'[c] = closes[c]
    PROVE  Announced' /\ Accounted' /\ RecorderLeft'
BY DEF EndsInv, Announced, Accounted, RecorderLeft, ReachableInv, StreamsReachable

LEMMA KillKeepsEnds ==
    ASSUME EndsInv, NEW c \in Clients, NEW s \in Sessions, Opened(s, c), Kill(c, s),
           UNCHANGED <<startVars, recording>>,
           \A t \in Sessions : /\ trail[t] \subseteq trail'[t]
                               /\ "STARTED" \in trail'[t] => "STARTED" \in trail[t]
    PROVE  Announced' /\ Accounted' /\ RecorderLeft'
<1>1. /\ stream' = [stream EXCEPT ![s] = "cut"]
      /\ active' = [active EXCEPT ![c] = NoSession]
      /\ HangUpIfConnected(c, [active EXCEPT ![c] = NoSession], auth[c] = "in")
    BY DEF Kill
<1>2. TypeOK /\ OneBusy
    BY DEF EndsInv, ReachableInv
<1>3. \A d \in Clients : closing'[d] = "audit" => closing[d] = "audit"
                                                  /\ closes'[d] = closes[d]
    BY <1>1, <1>2, HangUpEnds
<1>4. \A t \in Sessions : stream[t] # "none" /\ by[t] = c => t = s
    BY <1>2 DEF OneBusy, Busy, Opened
<1>5. Announced'
    BY <1>1, <1>2 DEF EndsInv, Announced, TypeOK
<1>6. Accounted'
    BY <1>1, <1>2, <1>4 DEF EndsInv, Accounted, TypeOK
<1>7. RecorderLeft'
    BY <1>3 DEF EndsInv, RecorderLeft
<1> QED
    BY <1>5, <1>6, <1>7

LEMMA EndsInit == Init => EndsInv
BY ReachableInit DEF Init, EndsInv, Announced, Accounted, RecorderLeft

LEMMA EndsClient ==
    ASSUME EndsInv, NEW c \in Clients, ClientStep(c)
    PROVE  Announced' /\ Accounted' /\ RecorderLeft'
<1>a. TypeOK /\ ReachableInv
    BY DEF EndsInv, ReachableInv
<1>1. CASE Connect(c) \/ AskAccess(c) \/ AccessUnknown(c) \/ CloseFails(c)
    <2>1. \A d \in Clients : closing'[d] = "audit" => closing[d] = "audit"
                                                      /\ closes'[d] = closes[d]
        BY <1>a, <1>1 DEF Connect, AskAccess, AccessUnknown, CloseFails, TypeOK
    <2> QED
        BY <1>1, <2>1, QuietKeepsEnds DEF Connect, AskAccess, AccessUnknown, CloseFails
<1>2. CASE Reject(c) \/ Authenticate(c) \/ Disconnect(c)
    <2>1. \A d \in Clients : closing'[d] = "audit" => closing[d] = "audit"
                                                      /\ closes'[d] = closes[d]
        BY <1>a, <1>2, HangUpEnds DEF Reject, Authenticate, Refuse, Admit, Disconnect
    <2> QED
        BY <1>2, <2>1, QuietKeepsEnds DEF Reject, Authenticate, Refuse, Admit, Disconnect
<1>3. CASE AccessAnswered(c)
    <2>1. CASE HasAccess(c)
        BY <1>3, <2>1, QuietKeepsEnds DEF AccessAnswered
    <2>2. CASE ~HasAccess(c)
        <3>1. checking[c] \in Sessions /\ Opened(checking[c], c)
            BY <1>3, <1>a DEF AccessAnswered, TypeOK, ReachableInv, CheckingOwn
        <3> QED
            BY <1>3, <2>2, <3>1, KillKeepsEnds DEF AccessAnswered
    <2> QED
        BY <2>1, <2>2
<1>4. CASE EndRecording(c)
    BY <1>4, <1>a DEF EndRecording, EndsInv, Announced, Accounted, RecorderLeft, TypeOK
<1>5. CASE CloseSession(c)
    <2>1. closes[c] \in Sessions /\ Opened(closes[c], c) /\ closes[c] \notin recording
        BY <1>5, <1>a DEF CloseSession, EndsInv, RecorderLeft, ReachableInv, ClosingOwn, Closing
    <2>2. \A t \in Sessions : stream[t] # "none" /\ by[t] = c => t = closes[c]
        BY <1>a, <2>1 DEF ReachableInv, OneBusy, Busy, Opened
    <2>3. Announced'
        BY <1>5, <1>a, <2>1 DEF CloseSession, EndsInv, Announced, Opened, TypeOK
    <2>4. Accounted'
        BY <1>5, <1>a, <2>1, <2>2 DEF CloseSession, EndsInv, Accounted, Opened, TypeOK
    <2>5. RecorderLeft'
        BY <1>5, <1>a DEF CloseSession, EndsInv, RecorderLeft, TypeOK
    <2> QED
        BY <2>3, <2>4, <2>5
<1> QED
    BY <1>1, <1>2, <1>3, <1>4, <1>5 DEF ClientStep

LEMMA EndsSession ==
    ASSUME EndsInv, NEW s \in Sessions, SessionStep(s)
    PROVE  Announced' /\ Accounted' /\ RecorderLeft'
<1>a. TypeOK /\ ReachableInv /\ by[s] \in Clients
    BY DEF EndsInv, ReachableInv, TypeOK
<1>1. CASE StartSession(s) \/ CheckAccess(s) \/ RowCreated(s) \/ Announce(s) \/ StartFails(s)
    BY <1>1, <1>a DEF StartSession, CheckAccess, RowCreated, Announce, StartFails,
       EndsInv, Announced, Accounted, RecorderLeft, TypeOK
<1>2. CASE OpenStream(s)
    <2>1. stream[s] = "none" /\ \A t \in Sessions : stream[t] # "none" => by[t] # by[s]
        BY <1>2, <1>a DEF OpenStream, ReachableInv, Unopened, OneBusy, Busy, Starting
    <2>2. \A c \in Clients : closing[c] = "audit" => closes[c] # s
        BY <1>a, <2>1 DEF ReachableInv, ClosingOwn, Closing, Opened
    <2>3. Announced'
        BY <1>2, <1>a DEF OpenStream, EndsInv, Announced, TypeOK
    <2>4. Accounted'
        BY <1>2, <1>a, <2>1 DEF OpenStream, EndsInv, Accounted, TypeOK
    <2>5. RecorderLeft'
        BY <1>2, <2>2 DEF OpenStream, EndsInv, RecorderLeft
    <2> QED
        BY <2>3, <2>4, <2>5
<1>3. CASE CacheExpires(s) \/ PollFires(s) \/ PollErrs(s)
    BY <1>3, QuietKeepsEnds DEF CacheExpires, PollFires, PollErrs
<1>4. CASE PollAnswered(s)
    <2>1. CASE Revoked(by[s])
        <3>1. polling[s] \in Sessions /\ Opened(polling[s], by[s])
            BY <1>4, <1>a DEF PollAnswered, TypeOK, ReachableInv, PollingOwn
        <3>2. \A t \in Sessions : /\ trail[t] \subseteq trail'[t]
                                  /\ "STARTED" \in trail'[t] => "STARTED" \in trail[t]
            BY <1>4, <1>a, <2>1 DEF PollAnswered, TypeOK
        <3> QED
            BY <1>4, <1>a, <2>1, <3>1, <3>2, KillKeepsEnds DEF PollAnswered
    <2>2. CASE ~Revoked(by[s])
        BY <1>4, <2>2, QuietKeepsEnds DEF PollAnswered
    <2> QED
        BY <2>1, <2>2
<1>5. CASE RemoteCloses(s)
    <2>1. \A d \in Clients : closing'[d] = "audit" => closing[d] = "audit"
                                                      /\ closes'[d] = closes[d]
        BY <1>5, <1>a, HangUpEnds DEF RemoteCloses
    <2>2. \A t \in Sessions : \/ stream'[t] = stream[t]
                              \/ stream[t] = "open" /\ stream'[t] = "ended"
        BY <1>5, <1>a DEF RemoteCloses, TypeOK
    <2> QED
        BY <1>5, <2>1, <2>2, QuietKeepsEnds DEF RemoteCloses
<1> QED
    BY <1>1, <1>2, <1>3, <1>4, <1>5 DEF SessionStep

LEMMA EndsNext ==
    ASSUME "parallel_start" \notin Environment
    PROVE  EndsInv /\ [Next]_vars => EndsInv'
<1> SUFFICES ASSUME EndsInv, [Next]_vars PROVE EndsInv'
    OBVIOUS
<1>1. ReachableInv'
    BY ReachableNext DEF EndsInv
<1>2. ASSUME NEW u \in Users, AdminStep(u) PROVE Announced' /\ Accounted' /\ RecorderLeft'
    BY <1>2, QuietKeepsEnds DEF AdminStep, RevokeAccess, GrantAccess, RevokeTokens
<1>3. CASE UNCHANGED vars
    BY <1>1, <1>3 DEF vars, startVars, closeVars, EndsInv, Announced, Accounted, RecorderLeft
<1> QED
    BY <1>1, <1>2, <1>3, EndsClient, EndsSession DEF Next, EndsInv

\* Unless start-session is sent twice at once, a session that ended other than by
\* a denial of access is audited as closed and off the recorder's map, at the
\* latest when nothing is in progress (handleDisconnect).
THEOREM EndsAccountedHolds ==
    ASSUME "parallel_start" \notin Environment
    PROVE  Spec => []EndsAccounted
<1>1. EndsInv /\ [Next]_vars => EndsInv'
    BY EndsNext
<1>2. EndsInv => EndsAccounted
    BY DEF EndsInv, Announced, Accounted, EndsAccounted, Over
<1> QED
    BY EndsInit, <1>1, <1>2, PTL DEF Spec

-----------------------------------------------------------------------------
(* The gateway implements SessionBroker                                    *)

Outside == <<by, operators, stale>>

\* No session changes its phase.
Still == \A t \in Sessions : PhaseOf(t)' = PhaseOf(t)
\* Session s does, and no other.
Moves(s, from, to) ==
    /\ PhaseOf(s) = from /\ PhaseOf(s)' = to
    /\ \A t \in Sessions \ {s} : PhaseOf(t)' = PhaseOf(t)
\* The gateway gives up no session, and takes none back.
SameGivenUp == \A t \in Sessions : GivenUp(t)' <=> GivenUp(t)

LEMMA StillMaps ==
    ASSUME Still, UNCHANGED Outside
    PROVE  UNCHANGED Broker!vars
BY DEF Still, Outside, Broker!vars

LEMMA MovesMaps ==
    ASSUME NEW s \in Sessions, NEW from, NEW to, Moves(s, from, to), UNCHANGED Outside
    PROVE  Broker!Move(s, from, to)
BY DEF Moves, Outside, Broker!Move

\* A step that opens and ends no channel and clears no call.
LEMMA QuietMaps ==
    ASSUME UNCHANGED <<stream, by, operators, stale>>, SameGivenUp,
           \A t \in Sessions : start'[t] = "connect" <=> start[t] = "connect"
    PROVE  UNCHANGED Broker!vars
<1>1. Still
    BY DEF Still, PhaseOf, SameGivenUp
<1> QED
    BY <1>1, StillMaps DEF Outside

\* A channel that ends: the session is over, or was before.
LEMMA EndMaps ==
    ASSUME TypeOK, NEW s \in Sessions, NEW how \in {"ended", "cut"},
           stream[s] # "none", stream' = [stream EXCEPT ![s] = how], SameGivenUp,
           UNCHANGED <<start, by, operators, stale>>
    PROVE  [Broker!Next]_(Broker!vars)
<1>1. CASE stream[s] = "open" /\ ~GivenUp(s)
    <2>1. Moves(s, "open", "ended")
        BY <1>1 DEF TypeOK, Moves, PhaseOf, SameGivenUp
    <2> QED
        BY <2>1, MovesMaps DEF Outside, Broker!Next, Broker!End
<1>2. CASE ~(stream[s] = "open" /\ ~GivenUp(s))
    <2>1. Still
        BY <1>2 DEF TypeOK, Still, PhaseOf, SameGivenUp
    <2> QED
        BY <2>1, StillMaps DEF Outside
<1> QED
    BY <1>1, <1>2

\* A disconnection gives up nothing: that is for handleDisconnect to do.
LEMMA HangUpSameGivenUp ==
    ASSUME ReachableInv, NEW c \in Clients, NEW user \in BOOLEAN,
           NEW map \in [Clients -> OptSession],
           map[c] \in {NoSession, active[c]},
           HangUpIfConnected(c, map, user), by' = by
    PROVE  SameGivenUp
<1>1. /\ \A d \in Clients : closing'[d] = "failed" <=> closing[d] = "failed"
      /\ \A d \in Clients : closing[d] = "failed" => closes'[d] = closes[d]
    BY HangUpReach
<1>2. by \in [Sessions -> Clients]
    BY DEF ReachableInv, TypeOK
<1> QED
    BY <1>1, <1>2 DEF SameGivenUp, GivenUp

LEMMA KillMaps ==
    ASSUME ReachableInv, NEW c \in Clients, NEW s \in Sessions, Opened(s, c), Kill(c, s),
           UNCHANGED <<start, by, operators, stale>>
    PROVE  [Broker!Next]_(Broker!vars)
<1> DEFINE map == [active EXCEPT ![c] = NoSession]
<1>1. /\ map \in [Clients -> OptSession] /\ map[c] = NoSession
      /\ HangUpIfConnected(c, map, auth[c] = "in") /\ (auth[c] = "in") \in BOOLEAN
    BY DEF ReachableInv, TypeOK, Kill
<1>2. SameGivenUp
    <2> HIDE DEF map
    <2> QED
        BY <1>1, HangUpSameGivenUp
<1> QED
    BY <1>2, EndMaps DEF ReachableInv, Opened, Kill

LEMMA BrokerInit == Init => Broker!Init
BY DEF Init, Broker!Init, PhaseOf

LEMMA BrokerClient ==
    ASSUME ReachableInv, NEW c \in Clients, ClientStep(c)
    PROVE  [Broker!Next]_(Broker!vars)
<1>t. TypeOK /\ CheckingOwn /\ ClosingOwn /\ active \in [Clients -> OptSession]
    BY DEF ReachableInv, TypeOK
<1>1. CASE Connect(c) \/ AskAccess(c) \/ AccessUnknown(c)
    <2>1. UNCHANGED <<stream, start, closeVars, by, operators, stale>>
        BY <1>1 DEF Connect, AskAccess, AccessUnknown, startVars, closeVars, authority
    <2> QED
        BY <2>1, QuietMaps DEF SameGivenUp, GivenUp, closeVars
<1>2. CASE Reject(c) \/ Authenticate(c) \/ Disconnect(c)
    <2>1. UNCHANGED <<stream, start, by, operators, stale>>
        BY <1>2 DEF Reject, Authenticate, Refuse, Admit, Disconnect, startVars, authority
    <2>2. \/ HangUpIfConnected(c, active, FALSE) \/ HangUpIfConnected(c, active, TRUE)
          \/ HangUpIfConnected(c, active, auth[c] = "in") \/ UNCHANGED closeVars
        <3>1. Disconnect(c) => HangUpIfConnected(c, active, auth[c] = "in")
            BY DEF Disconnect, HangUpIfConnected
        <3> QED
            BY <1>2, <3>1 DEF Reject, Authenticate, Refuse, Admit
    <2>3. SameGivenUp
        <3>1. (auth[c] = "in") \in BOOLEAN
            OBVIOUS
        <3> QED
            BY <1>t, <2>1, <2>2, <3>1, HangUpSameGivenUp DEF SameGivenUp, GivenUp, closeVars
    <2> QED
        BY <2>1, <2>3, QuietMaps
<1>3. CASE AccessAnswered(c)
    <2>1. /\ checking[c] \in Sessions /\ Opened(checking[c], c)
          /\ UNCHANGED <<start, by, operators, stale>>
        BY <1>3, <1>t DEF AccessAnswered, CheckingOwn, TypeOK, startVars, authority
    <2>2. CASE HasAccess(c)
        <3>1. UNCHANGED <<stream, closeVars>>
            BY <1>3, <2>2 DEF AccessAnswered
        <3> QED
            BY <2>1, <3>1, QuietMaps DEF SameGivenUp, GivenUp, closeVars
    <2>3. CASE ~HasAccess(c)
        BY <1>3, <2>1, <2>3, KillMaps DEF AccessAnswered
    <2> QED
        BY <2>2, <2>3
<1>4. CASE EndRecording(c)
    <2>1. /\ closing[c] = "recorder" /\ closing' = [closing EXCEPT ![c] = "audit"]
          /\ UNCHANGED <<stream, closes, start, by, operators, stale>>
        BY <1>4 DEF EndRecording, startVars, authority
    <2>2. SameGivenUp
        BY <1>t, <2>1 DEF SameGivenUp, GivenUp, TypeOK
    <2> QED
        BY <2>1, <2>2, QuietMaps
<1>5. CASE CloseSession(c)
    <2>1. /\ closing[c] = "audit" /\ closing' = [closing EXCEPT ![c] = "done"]
          /\ stream' = [stream EXCEPT ![closes[c]] = "ended"]
          /\ UNCHANGED <<closes, start, by, operators, stale>>
        BY <1>5 DEF CloseSession, startVars, authority
    <2>2. closes[c] \in Sessions /\ stream[closes[c]] # "none"
        BY <1>t, <2>1 DEF ClosingOwn, Closing, Opened
    <2>3. SameGivenUp
        BY <1>t, <2>1 DEF SameGivenUp, GivenUp, TypeOK
    <2> QED
        BY <1>t, <2>1, <2>2, <2>3, EndMaps
<1>6. CASE CloseFails(c)
    <2>1. /\ closing[c] = "audit" /\ closing' = [closing EXCEPT ![c] = "failed"]
          /\ UNCHANGED <<stream, closes, start, by, operators, stale>>
        BY <1>6 DEF CloseFails, startVars, authority
    <2>2. PICK s \in Sessions : s = closes[c] /\ by[s] = c /\ stream[s] # "none"
        BY <1>t, <2>1 DEF ClosingOwn, Closing, Opened
    <2>3. /\ ~GivenUp(s) /\ GivenUp(s)'
          /\ \A t \in Sessions \ {s} : GivenUp(t)' <=> GivenUp(t)
        BY <1>t, <2>1, <2>2 DEF GivenUp, TypeOK
    <2>4. CASE stream[s] = "open"
        <3>1. Moves(s, "open", "ended")
            BY <2>1, <2>2, <2>3, <2>4 DEF Moves, PhaseOf
        <3> QED
            BY <2>1, <2>2, <3>1, MovesMaps DEF Outside, Broker!Next, Broker!End
    <2>5. CASE stream[s] # "open"
        <3>1. Still
            BY <1>t, <2>1, <2>2, <2>3, <2>5 DEF Still, PhaseOf, TypeOK
        <3> QED
            BY <2>1, <3>1, StillMaps DEF Outside
    <2> QED
        BY <2>4, <2>5
<1> QED
    BY <1>1, <1>2, <1>3, <1>4, <1>5, <1>6 DEF ClientStep

LEMMA BrokerSession ==
    ASSUME ReachableInv, NEW s \in Sessions, SessionStep(s)
    PROVE  [Broker!Next]_(Broker!vars)
<1>t. /\ TypeOK /\ Unopened /\ PollingOwn /\ ClosingOwn
      /\ active \in [Clients -> OptSession] /\ by[s] \in Clients
    BY DEF ReachableInv, TypeOK
<1>1. CASE StartSession(s) \/ RowCreated(s) \/ Announce(s)
    <2>1. /\ UNCHANGED <<stream, closing, closes, by, operators, stale>>
          /\ \A t \in Sessions : start'[t] = "connect" <=> start[t] = "connect"
        BY <1>1, <1>t DEF StartSession, RowCreated, Announce, authority, closeVars, TypeOK
    <2> QED
        BY <2>1, QuietMaps DEF SameGivenUp, GivenUp
<1>2. CASE CacheExpires(s) \/ PollFires(s) \/ PollErrs(s)
    <2>1. UNCHANGED <<stream, closing, closes, start, by, operators, stale>>
        BY <1>2 DEF CacheExpires, PollFires, PollErrs, startVars, closeVars, authority
    <2> QED
        BY <2>1, QuietMaps DEF SameGivenUp, GivenUp
<1>3. CASE CheckAccess(s)
    <2>1. /\ start[s] = "access" /\ stream[s] = "none"
          /\ UNCHANGED <<stream, closing, closes, by, operators, stale>>
        BY <1>3, <1>t DEF CheckAccess, Unopened, closeVars, authority
    <2>2. CASE HasAccess(by[s])
        <3>1. Moves(s, "idle", "cleared")
            BY <1>3, <1>t, <2>1, <2>2 DEF CheckAccess, Moves, PhaseOf, GivenUp, TypeOK
        <3> QED
            BY <2>1, <2>2, <3>1, MovesMaps
            DEF Outside, HasAccess, Broker!Next, Broker!Clear
    <2>3. CASE ~HasAccess(by[s])
        <3>1. \A t \in Sessions : start'[t] = "connect" <=> start[t] = "connect"
            BY <1>3, <1>t, <2>1, <2>3 DEF CheckAccess, TypeOK
        <3> QED
            BY <2>1, <3>1, QuietMaps DEF SameGivenUp, GivenUp
    <2> QED
        BY <2>2, <2>3
<1>4. CASE OpenStream(s)
    <2>1. /\ start[s] = "connect" /\ stream[s] = "none"
          /\ stream' = [stream EXCEPT ![s] = "open"]
          /\ \A t \in Sessions \ {s} : start'[t] = start[t]
          /\ UNCHANGED <<closing, closes, by, operators, stale>>
        BY <1>4, <1>t DEF OpenStream, Unopened, closeVars, authority, TypeOK
    <2>2. ~GivenUp(s)
        BY <1>t, <2>1 DEF GivenUp, ClosingOwn, Closing, Opened
    <2>3. Moves(s, "cleared", "open")
        BY <1>t, <2>1, <2>2 DEF Moves, PhaseOf, GivenUp, TypeOK
    <2> QED
        BY <2>1, <2>3, MovesMaps DEF Outside, Broker!Next, Broker!Open
<1>5. CASE StartFails(s)
    <2>1. /\ UNCHANGED <<stream, closing, closes, by, operators, stale>>
          /\ start' = [start EXCEPT ![s] = "failed"]
        BY <1>5 DEF StartFails, closeVars, authority
    <2>2. CASE start[s] = "connect"
        <3>1. Moves(s, "cleared", "idle")
            BY <1>t, <2>1, <2>2 DEF Moves, PhaseOf, GivenUp, TypeOK, Unopened
        <3> QED
            BY <2>1, <3>1, MovesMaps DEF Outside, Broker!Next, Broker!GiveUp
    <2>3. CASE start[s] # "connect"
        <3>1. \A t \in Sessions : start'[t] = "connect" <=> start[t] = "connect"
            BY <1>t, <2>1, <2>3 DEF TypeOK
        <3> QED
            BY <2>1, <3>1, QuietMaps DEF SameGivenUp, GivenUp
    <2> QED
        BY <2>2, <2>3
<1>6. CASE PollAnswered(s)
    <2>1. /\ polling[s] \in Sessions /\ Opened(polling[s], by[s])
          /\ UNCHANGED <<start, by, operators, stale>>
        BY <1>6, <1>t DEF PollAnswered, PollingOwn, TypeOK, startVars, authority
    <2>2. CASE Revoked(by[s])
        BY <1>6, <1>t, <2>1, <2>2, KillMaps DEF PollAnswered
    <2>3. CASE ~Revoked(by[s])
        <3>1. UNCHANGED <<stream, closing, closes>>
            BY <1>6, <2>3 DEF PollAnswered, closeVars
        <3> QED
            BY <2>1, <3>1, QuietMaps DEF SameGivenUp, GivenUp
    <2> QED
        BY <2>2, <2>3
<1>7. CASE RemoteCloses(s)
    <2>1. /\ stream[s] # "none" /\ stream' = [stream EXCEPT ![s] = "ended"]
          /\ UNCHANGED <<start, by, operators, stale>>
        BY <1>7 DEF RemoteCloses, startVars, authority
    <2>2. \/ HangUpIfConnected(by[s], active, auth[by[s]] = "in")
          \/ UNCHANGED <<closing, closes>>
        BY <1>7 DEF RemoteCloses, HangUpIfConnected, closeVars
    <2>3. SameGivenUp
        <3>1. (auth[by[s]] = "in") \in BOOLEAN
            OBVIOUS
        <3> QED
            BY <1>t, <2>1, <2>2, <3>1, HangUpSameGivenUp DEF SameGivenUp, GivenUp
    <2> QED
        BY <1>t, <2>1, <2>3, EndMaps
<1> QED
    BY <1>1, <1>2, <1>3, <1>4, <1>5, <1>6, <1>7 DEF SessionStep

LEMMA BrokerAdmin ==
    ASSUME TypeOK, NEW u \in Users, AdminStep(u)
    PROVE  Broker!Administer
<1>1. UNCHANGED <<stream, start, closing, closes, by>>
    BY DEF AdminStep, RevokeAccess, GrantAccess, RevokeTokens, startVars, closeVars
<1>2. operators' \in SUBSET Users
    BY DEF TypeOK, AdminStep, RevokeAccess, GrantAccess, RevokeTokens
<1>3. stale' \in {stale \cup more : more \in SUBSET Clients}
    <2>1. stale' = stale \/ RevokeTokens(u)
        BY DEF AdminStep, RevokeAccess, GrantAccess
    <2>2. stale = stale \cup {}
        OBVIOUS
    <2>3. CASE RevokeTokens(u)
        BY <2>3 DEF RevokeTokens
    <2> QED
        BY <2>1, <2>2, <2>3
<1> QED
    BY <1>1, <1>2, <1>3 DEF Broker!Administer, PhaseOf, GivenUp

LEMMA BrokerNext ==
    ASSUME ReachableInv, [Next]_vars
    PROVE  [Broker!Next]_(Broker!vars)
<1>1. ASSUME NEW c \in Clients, ClientStep(c) PROVE [Broker!Next]_(Broker!vars)
    BY <1>1, BrokerClient
<1>2. ASSUME NEW s \in Sessions, SessionStep(s) PROVE [Broker!Next]_(Broker!vars)
    BY <1>2, BrokerSession
<1>3. ASSUME NEW u \in Users, AdminStep(u) PROVE [Broker!Next]_(Broker!vars)
    BY <1>3, BrokerAdmin DEF ReachableInv, Broker!Next
<1>4. CASE UNCHANGED vars
    BY <1>4, QuietMaps DEF vars, startVars, closeVars, authority, SameGivenUp, GivenUp
<1> QED
    BY <1>1, <1>2, <1>3, <1>4 DEF Next

\* The gateway implements the safety part of SessionBroker for any number of
\* sockets and sessions, also when audit events are rejected: a channel opens once,
\* after access was found, and what has ended, or was given up, does not come back.
THEOREM ImplementsBrokerSafety ==
    ASSUME "parallel_start" \notin Environment
    PROVE  Spec => Broker!Spec
<1>1. ReachableInv /\ [Next]_vars => ReachableInv'
    BY ReachableNext
<1>2. ReachableInv /\ [Next]_vars => [Broker!Next]_(Broker!vars)
    BY BrokerNext
<1> QED
    BY ReachableInit, BrokerInit, <1>1, <1>2, PTL DEF Spec, Broker!Spec
-----------------------------------------------------------------------------
(* The counter of an account                                               *)

\* The three ways a socket weighs on the counter of its account.
Held(c) == auth[c] = "in" /\ (Connected(c) \/ closing[c] \in {"recorder", "audit"})
Lost(c) == auth[c] = "late" \/ (auth[c] = "in" /\ closing[c] = "failed")
TurnedAway(c) == auth[c] = "over"

\* SlotsExact for one account, over finite sets.
Balance(u) ==
    /\ IsFiniteSet(Live(u)) /\ IsFiniteSet(Left(u)) /\ IsFiniteSet(Refused(u))
    /\ (Cardinality(Live(u)) + Cardinality(Left(u))) - Cardinality(Refused(u)) <= slots[u]
    /\ slots[u] <= Cardinality(Live(u)) + Cardinality(Left(u))
Counts == \A u \in Users : Balance(u)

\* Sessions, and all that handlers look up, belong to sockets that were let in;
\* handleDisconnect runs on sockets that are gone (GoneWhenClosing).
In(c) == auth[c] = "in"
NewUnknown == \A c \in Clients : sock[c] = "new" => auth[c] = "none"
ClosingIn == \A c \in Clients : closing[c] \in {"recorder", "audit"} => In(c)
ActiveIn == \A c \in Clients : active[c] # NoSession => In(c)
CheckingIn == \A c \in Clients : checking[c] # NoSession => In(c)
StartedIn == \A s \in Sessions :
    start[s] # "unused" \/ polling[s] # NoSession => In(by[s])

SlotsInv ==
    /\ TypeOK /\ Counts /\ GoneWhenClosing
    /\ NewUnknown /\ ClosingIn /\ ActiveIn /\ CheckingIn /\ StartedIn

\* Only socket c changes its weight, and only the counter of its account moves.
Only(c) ==
    /\ \A d \in Clients \ {c} : /\ Held(d)' <=> Held(d)
                                /\ Lost(d)' <=> Lost(d)
                                /\ TurnedAway(d)' <=> TurnedAway(d)
    /\ \A u \in Users \ {Owner[c]} : slots'[u] = slots[u]

\* Then the other accounts keep their balance.
LEMMA OneAccount ==
    ASSUME Counts, NEW c \in Clients, Only(c), Balance(Owner[c])'
    PROVE  Counts'
<1> SUFFICES ASSUME NEW u \in Users, u # Owner[c] PROVE Balance(u)'
    BY DEF Counts
<1>1. \A d \in Clients : Owner[d] = u => d \in Clients \ {c}
    OBVIOUS
<1>2. /\ Live(u)' = Live(u)
      /\ Left(u)' = Left(u)
      /\ Refused(u)' = Refused(u)
    BY <1>1 DEF Only, Live, Left, Refused, Held, Lost, TurnedAway
<1>3. slots'[u] = slots[u]
    BY DEF Only
<1> QED
    BY <1>2, <1>3 DEF Counts, Balance

\* What is counted of the account of c, before and after.
LEMMA OwnerCounts ==
    ASSUME TypeOK, Counts, NEW c \in Clients, Only(c), NEW u, u = Owner[c]
    PROVE  /\ u \in Users
           /\ IsFiniteSet(Live(u)) /\ IsFiniteSet(Left(u)) /\ IsFiniteSet(Refused(u))
           /\ (Cardinality(Live(u)) + Cardinality(Left(u))) - Cardinality(Refused(u))
                  <= slots[u]
           /\ slots[u] <= Cardinality(Live(u)) + Cardinality(Left(u))
           /\ slots[u] \in Nat /\ MaxSessions \in Nat \ {0}
           /\ Cardinality(Live(u)) \in Nat
           /\ Cardinality(Left(u)) \in Nat
           /\ Cardinality(Refused(u)) \in Nat
           /\ c \in Live(u) <=> Held(c)
           /\ (Held(c)' <=> Held(c)) => Live(u)' = Live(u)
           /\ Held(c)' => Live(u)' = Live(u) \cup {c}
           /\ ~Held(c)' => Live(u)' = Live(u) \ {c}
           /\ c \in Left(u) <=> Lost(c)
           /\ (Lost(c)' <=> Lost(c)) => Left(u)' = Left(u)
           /\ Lost(c)' => Left(u)' = Left(u) \cup {c}
           /\ ~Lost(c)' => Left(u)' = Left(u) \ {c}
           /\ c \in Refused(u) <=> TurnedAway(c)
           /\ (TurnedAway(c)' <=> TurnedAway(c)) => Refused(u)' = Refused(u)
           /\ TurnedAway(c)' => Refused(u)' = Refused(u) \cup {c}
           /\ ~TurnedAway(c)' => Refused(u)' = Refused(u) \ {c}
<1>1. u \in Users
    BY OwnerAssumption
<1>2. Balance(u)
    BY <1>1 DEF Counts
<1>3. slots[u] \in Nat /\ MaxSessions \in Nat \ {0}
    BY <1>1, MaxSessionsAssumption DEF TypeOK
<1>4. /\ Cardinality(Live(u)) \in Nat
      /\ Cardinality(Left(u)) \in Nat
      /\ Cardinality(Refused(u)) \in Nat
    BY <1>2, FS_CardinalityType DEF Balance
<1>5. /\ Live(u) = {d \in Clients : Owner[d] = u /\ Held(d)}
      /\ Left(u) = {d \in Clients : Owner[d] = u /\ Lost(d)}
      /\ Refused(u) = {d \in Clients : Owner[d] = u /\ TurnedAway(d)}
    BY DEF Live, Left, Refused, Held, Lost, TurnedAway
<1>6. /\ Live(u)' = {d \in Clients : Owner[d] = u /\ Held(d)'}
      /\ Left(u)' = {d \in Clients : Owner[d] = u /\ Lost(d)'}
      /\ Refused(u)' = {d \in Clients : Owner[d] = u /\ TurnedAway(d)'}
    BY DEF Live, Left, Refused, Held, Lost, TurnedAway
<1>7. \A d \in Clients : d # c => /\ Held(d)' <=> Held(d)
                                  /\ Lost(d)' <=> Lost(d)
                                  /\ TurnedAway(d)' <=> TurnedAway(d)
    BY DEF Only
<1>8. /\ c \in Live(u) <=> Held(c)
      /\ (Held(c)' <=> Held(c)) => Live(u)' = Live(u)
      /\ Held(c)' => Live(u)' = Live(u) \cup {c}
      /\ ~Held(c)' => Live(u)' = Live(u) \ {c}
    BY <1>5, <1>6, <1>7
<1>9. /\ c \in Left(u) <=> Lost(c)
      /\ (Lost(c)' <=> Lost(c)) => Left(u)' = Left(u)
      /\ Lost(c)' => Left(u)' = Left(u) \cup {c}
      /\ ~Lost(c)' => Left(u)' = Left(u) \ {c}
    BY <1>5, <1>6, <1>7
<1>10. /\ c \in Refused(u) <=> TurnedAway(c)
       /\ (TurnedAway(c)' <=> TurnedAway(c)) => Refused(u)' = Refused(u)
       /\ TurnedAway(c)' => Refused(u)' = Refused(u) \cup {c}
       /\ ~TurnedAway(c)' => Refused(u)' = Refused(u) \ {c}
    BY <1>5, <1>6, <1>7
<1> QED
    BY <1>1, <1>2, <1>3, <1>4, <1>8, <1>9, <1>10 DEF Balance

\* Neither the weight of a socket nor a counter changes.
LEMMA CountsKept ==
    ASSUME Counts, UNCHANGED slots,
           \A c \in Clients : /\ Held(c)' <=> Held(c)
                              /\ Lost(c)' <=> Lost(c)
                              /\ TurnedAway(c)' <=> TurnedAway(c)
    PROVE  Counts'
<1>1. \A u \in Users : /\ Live(u)' = Live(u)
                       /\ Left(u)' = Left(u)
                       /\ Refused(u)' = Refused(u)
    BY DEF Live, Left, Refused, Held, Lost, TurnedAway
<1> QED
    BY <1>1 DEF Counts, Balance

\* A socket that was counted gives its slot back.
LEMMA CountsReleased ==
    ASSUME TypeOK, Counts, NEW c \in Clients, Only(c), slots' = Released(Owner[c]),
           Held(c), ~Lost(c), ~Held(c)', ~Lost(c)', TurnedAway(c)' <=> TurnedAway(c)
    PROVE  Counts'
<1> PICK u : u = Owner[c]
    OBVIOUS
<1>f. /\ u \in Users /\ slots[u] \in Nat /\ MaxSessions \in Nat \ {0}
      /\ IsFiniteSet(Live(u)) /\ IsFiniteSet(Left(u)) /\ IsFiniteSet(Refused(u))
      /\ Cardinality(Live(u)) \in Nat
      /\ Cardinality(Left(u)) \in Nat
      /\ Cardinality(Refused(u)) \in Nat
      /\ (Cardinality(Live(u)) + Cardinality(Left(u))) - Cardinality(Refused(u)) <= slots[u]
      /\ slots[u] <= Cardinality(Live(u)) + Cardinality(Left(u))
    BY OwnerCounts
<1>1. Live(u)' = Live(u) \ {c} /\ c \in Live(u) /\ Left(u)' = Left(u) /\ Refused(u)' = Refused(u)
    BY OwnerCounts
<1>2. slots'[u] = IF slots[u] <= 1 THEN 0 ELSE slots[u] - 1
    BY <1>f DEF Released, TypeOK
<1>3. IsFiniteSet(Live(u)')
    BY <1>1, <1>f, FS_RemoveElement
<1>4. Cardinality(Live(u)') = Cardinality(Live(u)) - 1
    BY <1>1, <1>f, FS_RemoveElement
<1>5. Cardinality(Live(u)') \in Nat
    BY <1>3, FS_CardinalityType
<1>6. Balance(u)'
    BY <1>1, <1>2, <1>3, <1>4, <1>5, <1>f DEF Balance
<1> QED
    BY <1>6, OneAccount

\* A socket that is let in takes a slot; one that is gone already leaves it.
LEMMA CountsTaken ==
    ASSUME TypeOK, Counts, NEW c \in Clients, Only(c),
           slots' = [slots EXCEPT ![Owner[c]] = @ + 1],
           ~Held(c), ~Lost(c), Held(c)' <=> ~Lost(c)',
           TurnedAway(c)' <=> TurnedAway(c)
    PROVE  Counts'
<1> PICK u : u = Owner[c]
    OBVIOUS
<1>f. /\ u \in Users /\ slots[u] \in Nat /\ MaxSessions \in Nat \ {0}
      /\ IsFiniteSet(Live(u)) /\ IsFiniteSet(Left(u)) /\ IsFiniteSet(Refused(u))
      /\ Cardinality(Live(u)) \in Nat
      /\ Cardinality(Left(u)) \in Nat
      /\ Cardinality(Refused(u)) \in Nat
      /\ (Cardinality(Live(u)) + Cardinality(Left(u))) - Cardinality(Refused(u)) <= slots[u]
      /\ slots[u] <= Cardinality(Live(u)) + Cardinality(Left(u))
    BY OwnerCounts
<1>1. /\ Refused(u)' = Refused(u) /\ c \notin Live(u) /\ c \notin Left(u)
      /\ \/ Live(u)' = Live(u) \cup {c} /\ Left(u)' = Left(u)
         \/ Left(u)' = Left(u) \cup {c} /\ Live(u)' = Live(u)
    BY OwnerCounts
<1>2. slots'[u] = slots[u] + 1
    BY <1>f DEF TypeOK
<1>3. CASE Live(u)' = Live(u) \cup {c} /\ Left(u)' = Left(u)
    <2>1. IsFiniteSet(Live(u)') /\ Cardinality(Live(u)') = Cardinality(Live(u)) + 1
        BY <1>1, <1>3, <1>f, FS_AddElement
    <2>2. Balance(u)'
        BY <1>1, <1>2, <1>f, <1>3, <2>1 DEF Balance
    <2> QED
        BY <2>2, OneAccount
<1>4. CASE Left(u)' = Left(u) \cup {c} /\ Live(u)' = Live(u)
    <2>1. IsFiniteSet(Left(u)') /\ Cardinality(Left(u)') = Cardinality(Left(u)) + 1
        BY <1>1, <1>4, <1>f, FS_AddElement
    <2>2. Balance(u)'
        BY <1>1, <1>2, <1>f, <1>4, <2>1 DEF Balance
    <2> QED
        BY <2>2, OneAccount
<1> QED
    BY <1>1, <1>3, <1>4

\* A socket over the limit: its disconnection gives back a slot it never had,
\* unless it is gone already.
LEMMA CountsRefused ==
    ASSUME TypeOK, Counts, NEW c \in Clients, Only(c),
           slots[Owner[c]] >= MaxSessions,
           slots' = Released(Owner[c]) \/ UNCHANGED slots,
           ~Held(c), ~Lost(c), ~Held(c)', ~Lost(c)', ~TurnedAway(c), TurnedAway(c)'
    PROVE  Counts'
<1> PICK u : u = Owner[c]
    OBVIOUS
<1>f. /\ u \in Users /\ slots[u] \in Nat /\ MaxSessions \in Nat \ {0}
      /\ IsFiniteSet(Live(u)) /\ IsFiniteSet(Left(u)) /\ IsFiniteSet(Refused(u))
      /\ Cardinality(Live(u)) \in Nat
      /\ Cardinality(Left(u)) \in Nat
      /\ Cardinality(Refused(u)) \in Nat
      /\ (Cardinality(Live(u)) + Cardinality(Left(u))) - Cardinality(Refused(u)) <= slots[u]
      /\ slots[u] <= Cardinality(Live(u)) + Cardinality(Left(u))
    BY OwnerCounts
<1>1. /\ Refused(u)' = Refused(u) \cup {c} /\ c \notin Refused(u)
      /\ Live(u)' = Live(u) /\ Left(u)' = Left(u)
    BY OwnerCounts
<1>2. slots'[u] = slots[u] \/ slots'[u] = slots[u] - 1
    <2>1. slots[u] >= MaxSessions /\ slots[u] # 0
        BY <1>f
    <2>2. CASE slots' = Released(u)
        <3>1. slots'[u] = IF slots[u] <= 1 THEN 0 ELSE slots[u] - 1
            BY <1>f, <2>2 DEF Released, TypeOK
        <3> QED
            BY <1>f, <2>1, <3>1
    <2> QED
        BY <2>2
<1>3. slots'[u] \in Nat
    BY <1>2, <1>f
<1>4. IsFiniteSet(Refused(u)') /\ Cardinality(Refused(u)') = Cardinality(Refused(u)) + 1
    BY <1>1, <1>f, FS_AddElement
<1>5. Balance(u)'
    BY <1>1, <1>2, <1>3, <1>4, <1>f DEF Balance
<1> QED
    BY <1>5, OneAccount

\* handleDisconnect stops at a rejected audit event: the slot is left behind.
LEMMA CountsLeft ==
    ASSUME TypeOK, Counts, NEW c \in Clients, Only(c), UNCHANGED slots,
           Held(c), ~Lost(c), ~Held(c)', Lost(c)', TurnedAway(c)' <=> TurnedAway(c)
    PROVE  Counts'
<1> PICK u : u = Owner[c]
    OBVIOUS
<1>f. /\ u \in Users /\ slots[u] \in Nat /\ MaxSessions \in Nat \ {0}
      /\ IsFiniteSet(Live(u)) /\ IsFiniteSet(Left(u)) /\ IsFiniteSet(Refused(u))
      /\ Cardinality(Live(u)) \in Nat
      /\ Cardinality(Left(u)) \in Nat
      /\ Cardinality(Refused(u)) \in Nat
      /\ (Cardinality(Live(u)) + Cardinality(Left(u))) - Cardinality(Refused(u)) <= slots[u]
      /\ slots[u] <= Cardinality(Live(u)) + Cardinality(Left(u))
    BY OwnerCounts
<1>1. /\ Live(u)' = Live(u) \ {c} /\ c \in Live(u) /\ Refused(u)' = Refused(u)
      /\ Left(u)' = Left(u) \cup {c} /\ c \notin Left(u)
    BY OwnerCounts
<1>2. IsFiniteSet(Live(u)')
    BY <1>1, <1>f, FS_RemoveElement
<1>3. Cardinality(Live(u)') = Cardinality(Live(u)) - 1
    BY <1>1, <1>f, FS_RemoveElement
<1>4. IsFiniteSet(Left(u)') /\ Cardinality(Left(u)') = Cardinality(Left(u)) + 1
    BY <1>1, <1>f, FS_AddElement
<1>5. Balance(u)'
    BY <1>1, <1>2, <1>3, <1>4, <1>f DEF Balance
<1> QED
    BY <1>5, OneAccount

\* A disconnection: a session to be closed keeps the slot until it is.
LEMMA CountsHangUp ==
    ASSUME SlotsInv, NEW c \in Clients, NEW map, map[c] \in {NoSession, active[c]},
           UNCHANGED auth, HangUpIfConnected(c, map, auth[c] = "in")
    PROVE  Counts'
<1>1. CASE Connected(c)
    <2>1. HangUp(c, map, auth[c] = "in") /\ closing[c] = "none" /\ TypeOK /\ Counts
        BY <1>1 DEF HangUpIfConnected, SlotsInv, GoneWhenClosing, Connected, TypeOK
    <2>2. \A d \in Clients \ {c} : sock'[d] = sock[d] /\ closing'[d] = closing[d]
        BY <2>1 DEF HangUp, TypeOK
    <2>3. \A u \in Users \ {Owner[c]} : slots'[u] = slots[u]
        BY <2>1 DEF HangUp, Released, TypeOK
    <2>4. Only(c)
        BY <2>2, <2>3 DEF Only, Held, Lost, TurnedAway, Connected
    <2>5. ~Connected(c)' /\ closing'[c] = IF map[c] # NoSession THEN "recorder" ELSE "done"
        BY <2>1 DEF HangUp, Connected, TypeOK
    <2>6. map[c] # NoSession => In(c)
        BY DEF SlotsInv, ActiveIn
    <2>7. CASE map[c] = NoSession /\ In(c)
        <3>1. Held(c) /\ ~Lost(c) /\ ~Held(c)' /\ ~Lost(c)'
            BY <1>1, <2>1, <2>5, <2>7 DEF Held, Lost, In
        <3>2. slots' = Released(Owner[c])
            BY <2>1, <2>7 DEF HangUp, In
        <3> QED
            BY <2>1, <2>4, <3>1, <3>2, CountsReleased DEF TurnedAway
    <2>8. CASE map[c] # NoSession \/ ~In(c)
        <3>1. UNCHANGED slots
            BY <2>1, <2>8 DEF HangUp, In
        <3>2. Held(c)' <=> Held(c)
            BY <1>1, <2>5, <2>6, <2>8 DEF Held, In
        <3>3. Lost(c)' <=> Lost(c)
            BY <2>1, <2>5 DEF Lost
        <3> QED
            BY <2>1, <2>4, <3>1, <3>2, <3>3, CountsKept DEF Only, TurnedAway
    <2> QED
        BY <2>7, <2>8
<1>2. CASE ~Connected(c)
    BY <1>2, CountsKept
    DEF HangUpIfConnected, SlotsInv, Held, Lost, TurnedAway, Connected
<1> QED
    BY <1>1, <1>2

\* What else a disconnection does to the invariant.
LEMMA HangUpKeepsSlots ==
    ASSUME SlotsInv, NEW c \in Clients, NEW map,
           map[c] \in {NoSession, active[c]},
           UNCHANGED <<auth, start, by>>,
           HangUpIfConnected(c, map, auth[c] = "in"),
           \A d \in Clients : active'[d] \in {active[d], NoSession},
           \A d \in Clients : checking'[d] \in {checking[d], NoSession},
           \A s \in Sessions : polling'[s] \in {polling[s], NoSession}
    PROVE  /\ Counts' /\ GoneWhenClosing' /\ NewUnknown' /\ ClosingIn'
           /\ ActiveIn' /\ CheckingIn' /\ StartedIn'
<1>1. Counts'
    BY CountsHangUp
<1>2. CASE HangUp(c, map, auth[c] = "in")
    BY <1>1, <1>2 DEF HangUp, SlotsInv, TypeOK, GoneWhenClosing, NewUnknown,
       ClosingIn, ActiveIn, CheckingIn, StartedIn, In, Connected
<1>3. CASE UNCHANGED <<sock, slots, closeVars>>
    BY <1>1, <1>3 DEF SlotsInv, GoneWhenClosing, NewUnknown,
       ClosingIn, ActiveIn, CheckingIn, StartedIn, In, Connected
<1> QED
    BY <1>2, <1>3 DEF HangUpIfConnected

\* Steps that leave sockets, users, counters and disconnections alone.
LEMMA QuietKeepsSlots ==
    ASSUME SlotsInv, TypeOK', UNCHANGED <<connVars, closeVars>>,
           \A s \in Sessions : start'[s] # "unused" => start[s] # "unused" \/ In(by[s]),
           UNCHANGED by,
           \A c \in Clients : active'[c] # NoSession => In(c),
           \A c \in Clients : checking'[c] \in {checking[c], NoSession, active[c]},
           \A s \in Sessions : polling'[s] \in {polling[s], NoSession, active[by[s]]}
    PROVE  SlotsInv'
<1>1. Counts'
    BY CountsKept DEF SlotsInv, Held, Lost, TurnedAway, Connected
<1>2. \A s \in Sessions : by[s] \in Clients
    BY DEF SlotsInv, TypeOK
<1> QED
    BY <1>1, <1>2 DEF SlotsInv, GoneWhenClosing, NewUnknown,
       ClosingIn, ActiveIn, CheckingIn, StartedIn, In, Connected

LEMMA SlotsInit == Init => SlotsInv
<1> SUFFICES ASSUME Init PROVE SlotsInv
    OBVIOUS
<1>1. \A u \in Users : Live(u) = {} /\ Left(u) = {} /\ Refused(u) = {} /\ slots[u] = 0
    BY DEF Init, Live, Left, Refused
<1>2. Counts
    BY <1>1, FS_EmptySet DEF Counts, Balance
<1> QED
    BY <1>2, TypeInit
    DEF Init, SlotsInv, GoneWhenClosing, NewUnknown, ClosingIn, ActiveIn,
        CheckingIn, StartedIn

\* The end of handleConnection: nothing but the socket, its user and the counter
\* of its account changes.
LEMMA DecidedKeepsSlots ==
    ASSUME SlotsInv, TypeOK', Counts', NEW c \in Clients, ~In(c), sock[c] # "new",
           UNCHANGED <<startVars, active, pollVars, checking>>,
           \A d \in Clients \ {c} : auth'[d] = auth[d],
           \/ UNCHANGED <<sock, closeVars>>
           \/ /\ sock' = [sock EXCEPT ![c] = "gone"]
              /\ closing' = [closing EXCEPT ![c] = "done"]
    PROVE  SlotsInv'
<1>1. \A d \in Clients : /\ sock'[d] = "new" => sock[d] = "new" /\ d # c
                         /\ closing'[d] \in {"recorder", "audit"} => closing'[d] = closing[d]
                         /\ closing'[d] # "none" => sock'[d] = "gone"
    BY DEF SlotsInv, GoneWhenClosing, TypeOK
<1>2. \A d \in Clients : In(d) => d # c /\ In(d)'
    BY DEF In
<1>3. \A s \in Sessions : by[s] \in Clients
    BY DEF SlotsInv, TypeOK
<1>4. ActiveIn' /\ CheckingIn' /\ StartedIn'
    BY <1>2, <1>3 DEF SlotsInv, ActiveIn, CheckingIn, StartedIn
<1>5. GoneWhenClosing' /\ ClosingIn'
    BY <1>1, <1>2 DEF SlotsInv, GoneWhenClosing, ClosingIn
<1>6. NewUnknown'
    BY <1>1 DEF SlotsInv, NewUnknown
<1> QED
    BY <1>4, <1>5, <1>6 DEF SlotsInv

LEMMA SlotsClient ==
    ASSUME SlotsInv, TypeOK', NEW c \in Clients, ClientStep(c)
    PROVE  SlotsInv'
<1>t. TypeOK /\ Counts
    BY DEF SlotsInv
<1>1. CASE Connect(c)
    <2>1. /\ auth[c] = "none" /\ auth' = [auth EXCEPT ![c] = "checking"]
          /\ sock' = [sock EXCEPT ![c] = "connected"] /\ UNCHANGED closing
        BY <1>1 DEF Connect, SlotsInv, NewUnknown
    <2>2. \A d \in Clients : /\ Held(d)' <=> Held(d)
                             /\ Lost(d)' <=> Lost(d)
                             /\ TurnedAway(d)' <=> TurnedAway(d)
        BY <1>t, <2>1 DEF Held, Lost, TurnedAway, Connected, TypeOK
    <2>3. Counts'
        BY <1>1, <1>t, <2>2, CountsKept DEF Connect
    <2> QED
        BY <1>1, <1>t, <2>3 DEF Connect, SlotsInv, GoneWhenClosing, NewUnknown,
           ClosingIn, ActiveIn, CheckingIn, StartedIn, In, TypeOK
<1>2. CASE Reject(c)
    <2>1. /\ active[c] = NoSession /\ ~In(c) /\ auth[c] = "checking" /\ sock[c] # "new"
          /\ auth' = [auth EXCEPT ![c] = "failed"]
        BY <1>2 DEF Reject, SlotsInv, ActiveIn, NewUnknown, In
    <2>2. /\ UNCHANGED slots
          /\ \/ UNCHANGED <<sock, closeVars>>
             \/ /\ sock' = [sock EXCEPT ![c] = "gone"]
                /\ closing' = [closing EXCEPT ![c] = "done"]
        BY <1>2, <2>1 DEF Reject, HangUpIfConnected, HangUp
    <2>3. \A d \in Clients : /\ Held(d)' <=> Held(d)
                             /\ Lost(d)' <=> Lost(d)
                             /\ TurnedAway(d)' <=> TurnedAway(d)
        BY <1>t, <2>1, <2>2 DEF Held, Lost, TurnedAway, Connected, TypeOK
    <2>4. Counts'
        BY <1>t, <2>2, <2>3, CountsKept
    <2>5. \A d \in Clients \ {c} : auth'[d] = auth[d]
        BY <1>t, <2>1 DEF TypeOK
    <2> QED
        BY <1>2, <2>1, <2>2, <2>4, <2>5, DecidedKeepsSlots DEF Reject
<1>3. CASE Authenticate(c)
    <2>1. active[c] = NoSession /\ ~In(c) /\ auth[c] = "checking" /\ sock[c] # "new"
        BY <1>3 DEF Authenticate, SlotsInv, ActiveIn, NewUnknown, In
    <2>2. ~Held(c) /\ ~Lost(c) /\ ~TurnedAway(c)
        BY <2>1 DEF Held, Lost, TurnedAway
    <2>3. CASE slots[Owner[c]] >= MaxSessions
        <3>1. /\ auth' = [auth EXCEPT ![c] = "over"]
              /\ \/ UNCHANGED <<sock, slots, closeVars>>
                 \/ /\ sock' = [sock EXCEPT ![c] = "gone"]
                    /\ closing' = [closing EXCEPT ![c] = "done"]
                    /\ slots' = Released(Owner[c])
            BY <1>3, <2>1, <2>3 DEF Authenticate, Refuse, HangUpIfConnected, HangUp
        <3>2. \A d \in Clients \ {c} : /\ auth'[d] = auth[d] /\ sock'[d] = sock[d]
                                       /\ closing'[d] = closing[d]
            BY <1>t, <3>1 DEF TypeOK
        <3>3. \A u \in Users \ {Owner[c]} : slots'[u] = slots[u]
            BY <1>t, <3>1 DEF TypeOK, Released
        <3>4. Only(c)
            BY <3>2, <3>3 DEF Only, Held, Lost, TurnedAway, Connected
        <3>5. ~Held(c)' /\ ~Lost(c)' /\ TurnedAway(c)'
            BY <1>t, <3>1 DEF Held, Lost, TurnedAway, TypeOK
        <3>6. Counts'
            BY <1>t, <2>2, <2>3, <3>1, <3>4, <3>5, CountsRefused
        <3> QED
            BY <1>3, <2>1, <3>1, <3>2, <3>6, DecidedKeepsSlots DEF Authenticate
    <2>4. CASE ~(slots[Owner[c]] >= MaxSessions)
        <3>1. /\ auth' = [auth EXCEPT ![c] = IF Connected(c) THEN "in" ELSE "late"]
              /\ UNCHANGED <<sock, closeVars>>
              /\ slots' = [slots EXCEPT ![Owner[c]] = @ + 1]
            BY <1>3, <2>4 DEF Authenticate, Admit
        <3>2. \A d \in Clients \ {c} : auth'[d] = auth[d]
            BY <1>t, <3>1 DEF TypeOK
        <3>3. \A u \in Users \ {Owner[c]} : slots'[u] = slots[u]
            BY <1>t, <3>1 DEF TypeOK
        <3>4. Only(c)
            BY <3>1, <3>2, <3>3 DEF Only, Held, Lost, TurnedAway, Connected
        <3>5. closing[c] \notin {"recorder", "audit"}
            BY <2>1 DEF SlotsInv, ClosingIn
        <3>6. Connected(c) => closing[c] = "none"
            BY DEF SlotsInv, GoneWhenClosing, Connected
        <3>7. (Held(c)' <=> ~Lost(c)') /\ ~TurnedAway(c)'
            BY <1>t, <3>1, <3>5, <3>6 DEF Held, Lost, TurnedAway, Connected, TypeOK
        <3>8. Counts'
            BY <1>t, <2>2, <3>1, <3>4, <3>7, CountsTaken
        <3> QED
            BY <1>3, <2>1, <3>1, <3>2, <3>8, DecidedKeepsSlots DEF Authenticate
    <2> QED
        BY <2>3, <2>4
<1>4. CASE AskAccess(c)
    <2>1. \A d \in Clients : checking'[d] \in {checking[d], active[d]}
        BY <1>4, <1>t DEF AskAccess, TypeOK
    <2> QED
        BY <1>4, <2>1, QuietKeepsSlots DEF AskAccess, SlotsInv, ActiveIn
<1>5. CASE AccessAnswered(c)
    <2>1. \A d \in Clients : checking'[d] \in {checking[d], NoSession}
        BY <1>5, <1>t DEF AccessAnswered, TypeOK
    <2>2. CASE HasAccess(c)
        BY <1>5, <2>1, <2>2, QuietKeepsSlots DEF AccessAnswered, SlotsInv, ActiveIn
    <2>3. CASE ~HasAccess(c)
        <3> DEFINE map == [active EXCEPT ![c] = NoSession]
        <3>1. HangUpIfConnected(c, map, auth[c] = "in") /\ active' = map
            BY <1>5, <2>3 DEF AccessAnswered, Kill
        <3>2. map[c] = NoSession /\ \A d \in Clients : map[d] \in {active[d], NoSession}
            BY <1>t DEF TypeOK
        <3>3. auth[c] = "in" /\ UNCHANGED <<auth, start, by, polling>>
            BY <1>5 DEF AccessAnswered, SlotsInv, CheckingIn, In
        <3> HIDE DEF map
        <3> QED
            BY <2>1, <3>1, <3>2, <3>3, HangUpKeepsSlots DEF SlotsInv
    <2> QED
        BY <2>2, <2>3
<1>6. CASE AccessUnknown(c)
    <2>1. \A d \in Clients : checking'[d] \in {checking[d], NoSession}
        BY <1>6, <1>t DEF AccessUnknown, TypeOK
    <2> QED
        BY <1>6, <2>1, QuietKeepsSlots DEF AccessUnknown, SlotsInv, ActiveIn
<1>7. CASE Disconnect(c)
    <2>1. HangUpIfConnected(c, active, auth[c] = "in")
        BY <1>7 DEF Disconnect, HangUpIfConnected
    <2> QED
        BY <1>7, <2>1, HangUpKeepsSlots DEF Disconnect, SlotsInv
<1>8. CASE EndRecording(c)
    <2>1. /\ closing[c] = "recorder" /\ closing' = [closing EXCEPT ![c] = "audit"]
          /\ UNCHANGED connVars
        BY <1>8 DEF EndRecording
    <2>2. Counts'
        BY <1>t, <2>1, CountsKept DEF Held, Lost, TurnedAway, Connected, TypeOK
    <2> QED
        BY <1>8, <1>t, <2>1, <2>2 DEF EndRecording, SlotsInv, GoneWhenClosing,
           NewUnknown, ClosingIn, ActiveIn, CheckingIn, StartedIn, In, TypeOK
<1>9. CASE CloseSession(c) \/ CloseFails(c)
    <2>1. /\ closing[c] = "audit" /\ UNCHANGED <<sock, auth>> /\ In(c)
          /\ sock[c] = "gone"
          /\ \/ /\ closing' = [closing EXCEPT ![c] = "done"]
                /\ slots' = Released(Owner[c])
             \/ closing' = [closing EXCEPT ![c] = "failed"] /\ UNCHANGED slots
        BY <1>9
        DEF CloseSession, CloseFails, SlotsInv, ClosingIn, GoneWhenClosing
    <2>2. \A d \in Clients \ {c} : closing'[d] = closing[d]
        BY <1>t, <2>1 DEF TypeOK
    <2>3. \A u \in Users \ {Owner[c]} : slots'[u] = slots[u]
        BY <1>t, <2>1 DEF TypeOK, Released
    <2>4. Only(c)
        BY <2>1, <2>2, <2>3 DEF Only, Held, Lost, TurnedAway, Connected
    <2>5. Held(c) /\ ~Lost(c) /\ (TurnedAway(c)' <=> TurnedAway(c))
        BY <2>1 DEF Held, Lost, In, TurnedAway
    <2>6. ASSUME closing' = [closing EXCEPT ![c] = "done"], slots' = Released(Owner[c])
          PROVE  Counts'
        <3>1. ~Held(c)' /\ ~Lost(c)'
            BY <1>t, <2>1, <2>6 DEF Held, Lost, In, Connected, TypeOK
        <3> QED
            BY <1>t, <2>4, <2>5, <2>6, <3>1, CountsReleased
    <2>7. ASSUME closing' = [closing EXCEPT ![c] = "failed"], UNCHANGED slots
          PROVE  Counts'
        <3>1. ~Held(c)' /\ Lost(c)'
            BY <1>t, <2>1, <2>7 DEF Held, Lost, In, Connected, TypeOK
        <3> QED
            BY <1>t, <2>4, <2>5, <2>7, <3>1, CountsLeft
    <2>8. Counts'
        BY <2>1, <2>6, <2>7
    <2> QED
        BY <1>9, <1>t, <2>1, <2>8
        DEF CloseSession, CloseFails, SlotsInv, GoneWhenClosing,
            NewUnknown, ClosingIn, ActiveIn, CheckingIn, StartedIn, In, TypeOK
<1> QED
    BY <1>1, <1>2, <1>3, <1>4, <1>5, <1>6, <1>7, <1>8, <1>9
    DEF ClientStep

LEMMA SlotsSession ==
    ASSUME SlotsInv, TypeOK', NEW s \in Sessions, SessionStep(s)
    PROVE  SlotsInv'
<1>t. TypeOK /\ by[s] \in Clients /\ ActiveIn
    BY DEF SlotsInv, TypeOK
<1>1. CASE StartSession(s)
    <2>1. In(by[s]) /\ \A t \in Sessions : start'[t] # "unused" => start[t] # "unused" \/ t = s
        BY <1>1, <1>t DEF StartSession, In, TypeOK
    <2> QED
        BY <1>1, <1>t, <2>1, QuietKeepsSlots DEF StartSession, ActiveIn
<1>2. CASE \/ CheckAccess(s) \/ RowCreated(s) \/ Announce(s) \/ StartFails(s)
    <2>1. \A t \in Sessions : start'[t] # "unused" => start[t] # "unused"
        BY <1>2, <1>t DEF CheckAccess, RowCreated, Announce, StartFails, TypeOK
    <2> QED
        BY <1>2, <1>t, <2>1, QuietKeepsSlots
        DEF CheckAccess, RowCreated, Announce, StartFails, ActiveIn
<1>3. CASE OpenStream(s)
    <2>1. In(by[s])
        BY <1>3 DEF OpenStream, SlotsInv, StartedIn
    <2>2. \A c \in Clients : active'[c] # NoSession => In(c)
        BY <1>3, <1>t, <2>1 DEF OpenStream, ActiveIn, TypeOK
    <2>3. \A t \in Sessions : start'[t] # "unused" => start[t] # "unused"
        BY <1>3, <1>t DEF OpenStream, TypeOK
    <2> QED
        BY <1>3, <2>2, <2>3, QuietKeepsSlots DEF OpenStream
<1>4. CASE CacheExpires(s)
    BY <1>4, <1>t, QuietKeepsSlots DEF CacheExpires, ActiveIn
<1>5. CASE PollFires(s) \/ PollErrs(s)
    <2>1. \A t \in Sessions : polling'[t] \in {polling[t], NoSession, active[by[t]]}
        BY <1>5, <1>t DEF PollFires, PollErrs, TypeOK
    <2> QED
        BY <1>5, <1>t, <2>1, QuietKeepsSlots DEF PollFires, PollErrs, ActiveIn
<1>6. CASE PollAnswered(s)
    <2> DEFINE c == by[s]
    <2>1. \A t \in Sessions : polling'[t] \in {polling[t], NoSession}
        BY <1>6, <1>t DEF PollAnswered, TypeOK
    <2>2. CASE ~Revoked(c)
        BY <1>6, <1>t, <2>1, <2>2, QuietKeepsSlots DEF PollAnswered, ActiveIn
    <2>3. CASE Revoked(c)
        <3> DEFINE map == [active EXCEPT ![c] = NoSession]
        <3>1. HangUpIfConnected(c, map, auth[c] = "in") /\ active' = map
            BY <1>6, <2>3 DEF PollAnswered, Kill
        <3>2. map[c] = NoSession /\ \A d \in Clients : map[d] \in {active[d], NoSession}
            BY <1>t DEF TypeOK
        <3>3. auth[c] = "in" /\ UNCHANGED <<auth, start, by, checking>>
            BY <1>6 DEF PollAnswered, SlotsInv, StartedIn, In
        <3> HIDE DEF map
        <3> QED
            BY <1>t, <2>1, <3>1, <3>2, <3>3, HangUpKeepsSlots DEF SlotsInv
    <2> QED
        BY <2>2, <2>3
<1>7. CASE RemoteCloses(s)
    <2>1. UNCHANGED <<auth, start, by, active, checking, polling>>
        BY <1>7 DEF RemoteCloses
    <2>2. CASE start[s] = "ready" /\ Connected(by[s])
        <3>1. HangUpIfConnected(by[s], active, auth[by[s]] = "in")
            BY <1>7, <2>2 DEF RemoteCloses, HangUpIfConnected
        <3> QED
            BY <1>t, <2>1, <3>1, HangUpKeepsSlots DEF SlotsInv
    <2>3. CASE ~(start[s] = "ready" /\ Connected(by[s]))
        BY <1>7, <1>t, <2>1, <2>3, QuietKeepsSlots DEF RemoteCloses, ActiveIn
    <2> QED
        BY <2>2, <2>3
<1> QED
    BY <1>1, <1>2, <1>3, <1>4, <1>5, <1>6, <1>7 DEF SessionStep

LEMMA SlotsNext ==
    ASSUME SlotsInv, [Next]_vars
    PROVE  SlotsInv'
<1>1. TypeOK'
    BY TypeNext DEF SlotsInv
<1>2. ASSUME NEW c \in Clients, ClientStep(c) PROVE SlotsInv'
    BY <1>1, <1>2, SlotsClient
<1>3. ASSUME NEW s \in Sessions, SessionStep(s) PROVE SlotsInv'
    BY <1>1, <1>3, SlotsSession
<1>4. ASSUME NEW u \in Users, AdminStep(u) PROVE SlotsInv'
    BY <1>1, <1>4, QuietKeepsSlots
    DEF AdminStep, RevokeAccess, GrantAccess, RevokeTokens, SlotsInv, ActiveIn
<1>5. CASE UNCHANGED vars
    BY <1>1, <1>5, QuietKeepsSlots DEF vars, SlotsInv, ActiveIn
<1> QED
    BY <1>2, <1>3, <1>4, <1>5 DEF Next

\* Whatever the environment does and for any number of sockets and sessions, the
\* counter of an account drifts from its live sockets only by the slots left
\* behind (a socket let in when it had gone, a close whose audit event was
\* rejected) and the refusals at the limit: no order of kills, disconnections and
\* refusals gives a slot back twice or keeps another.
THEOREM SlotsExactHolds == Spec => []SlotsExact
<1>1. SlotsInv /\ [Next]_vars => SlotsInv'
    BY SlotsNext
<1>2. SlotsInv => SlotsExact
    <2> SUFFICES ASSUME SlotsInv, NEW u \in Users
                 PROVE  LET owed == Cardinality(Live(u)) + Cardinality(Left(u))
                        IN owed - Cardinality(Refused(u)) <= slots[u] /\ slots[u] <= owed
        BY DEF SlotsExact
    <2>1. Balance(u)
        BY DEF SlotsInv, Counts
    <2> QED
        BY <2>1 DEF Balance
<1> QED
    BY SlotsInit, <1>1, <1>2, PTL DEF Spec
=============================================================================
