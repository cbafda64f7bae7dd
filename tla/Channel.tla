------------------------------- MODULE Channel -------------------------------
(***************************************************************************)
(* The data path of one RDP session, from guacd to the tunnel of the       *)
(* browser and back: RdpService.createStream and the parser it uses        *)
(* (rdp.service.ts, guac-protocol.ts), the part of RdpGateway that pipes   *)
(* (rdp.gateway.ts), and SocketIoTunnel (lib/guacSocketIoTunnel.ts).       *)
(*                                                                         *)
(* guacd's output is a stream of instructions of Size pieces each; a chunk *)
(* may end anywhere.  Pieces are numbered from 1: piece p is the last of   *)
(* its instruction when p % Size = 0.  The first instruction is read by    *)
(* the handshake, the others are the browser's.  Between the end of the    *)
(* handshake and the attachment of the gateway's listeners the stream      *)
(* keeps flowing and nobody reads it.                                      *)
(*                                                                         *)
(* Sockets, limits and revocation are RdpGateway's; here any of its timers *)
(* may end the session.  guacd may send anything once it was spoken to.    *)
(***************************************************************************)
EXTENDS Naturals, Sequences, SequencesExt, FiniteSets, Selection

CONSTANTS
  Size,         \* pieces of an instruction
  Pieces,       \* bound: pieces guacd sends, a multiple of Size
  Messages,     \* bound: messages of the browser, numbered from 1
  Advertised,   \* guacd's args: the protocol version, then the names
  CopyPaste     \* machine.allowCopyPaste

ASSUME ChannelAssumption ==
  /\ Size \in Nat \ {0} /\ Pieces \in Nat /\ Pieces % Size = 0
  /\ Messages \in Nat /\ CopyPaste \in BOOLEAN
  /\ Advertised \in Seq(STRING) /\ Advertised # <<>>

VARIABLES
  stage,      \* of start-session, see Stages
  link,       \* the TCP connection to guacd: "none", "open" or "closed"
  opening,    \* the opcode of guacd's first instruction: "args" or "error"
  broken,     \* the handshake cannot go on: socketError, or nobody to answer
  read,       \* pieces that have reached the process
  leftover,   \* parser.leftover() at the end of the handshake
  lost,       \* pieces nobody will read
  shaken,     \* history: read, when the handshake ended
  heard,      \* history: read, when the gateway's listener was attached
  mapped,     \* the session is in the map
  told,       \* what guacd was told, in order
  online,     \* the socket.io connection, as the server sees it
  wire,       \* events on their way to the browser: [ev, pieces]
  tunnel,     \* state of the tunnel
  got,        \* pieces its parser has received
  garbled,    \* a piece did not continue the one before
  input,      \* messages the browser has sent
  unchecked    \* messages that wait for hasAccess

linkVars == <<link, opening, broken, read, leftover, lost>>
marks == <<shaken, heard>>
browserVars == <<tunnel, got, garbled>>
inputVars == <<input, unchecked>>
channelVars == <<stage, linkVars, marks, mapped, told, online, wire, browserVars, inputVars>>

(* "register" and "announce" are the gateway's awaits after the handshake. *)
Stages == {"idle", "connecting", "args", "register", "announce", "piped", "failed", "crashed"}
InGap == stage \in {"register", "announce"}

Ends(p) == p % Size = 0
Range1(from, to) == [i \in 1 .. to - from + 1 |-> from + i - 1]

(***************************************************************************)
(* GuacInstructionParser: of the pieces fed so far, whatever the chunks,   *)
(* the complete instructions have come out and the rest is in the buffer.  *)
(***************************************************************************)
Complete(p) == p \div Size
Leftover(p) == Range1(Complete(p) * Size + 1, p)

(* resolveArgValue *)
SetNames == {"disable-audio", "disable-download", "disable-upload", "disable-gfx",
             "disable-bitmap-caching", "disable-offscreen-caching", "disable-glyph-caching",
             "force-lossless", "enable-wallpaper", "enable-theming",
             "enable-desktop-composition", "enable-font-smoothing",
             "enable-full-window-drag", "enable-menu-animations"}
UnsetNames == {"enable-audio", "enable-audio-input", "enable-printing", "enable-drive"}
Parameters == {"hostname", "port", "username", "password", "domain", "security",
               "ignore-cert", "width", "height", "dpi", "recording-path", "recording-name"}

ArgValue(name) ==
  CASE name \in SetNames -> "true"
    [] name \in UnsetNames -> "false"
    [] name \in {"disable-copy", "disable-paste"} -> IF CopyPaste THEN "false" ELSE "true"
    [] name \in Parameters -> name
    [] name = "color-depth" -> "32"
    [] name = "resize-method" -> "display-update"
    [] name = "client-name" -> "OpenBastion"
    [] name = "server-layout" -> "en-us-qwerty"
    [] OTHER -> ""

(* connect: the version comes back as it came, then a value for each name. *)
ConnectArgs == <<Head(Advertised)>> \o [i \in DOMAIN Tail(Advertised) |-> ArgValue(Tail(Advertised)[i])]

Told(op, args) == [op |-> op, args |-> args]
Capabilities == <<Told("size", <<>>), Told("audio", <<>>), Told("video", <<>>),
                  Told("image", <<>>), Told("timezone", <<>>)>>
Greeting == <<Told("select", <<>>)>> \o Capabilities \o <<Told("connect", ConnectArgs)>>

Event(ev) == [ev |-> ev, pieces |-> <<>>]
Data(pieces) == [ev |-> "data", pieces |-> pieces]

(* client.emit, which is lost on a connection that is gone. *)
Emitted(events) == IF online THEN wire \o events ELSE wire
(* ... and client.disconnect() after it. *)
HungUp(events) == wire' = Emitted(events \o <<Event("disconnect")>>) /\ online' = FALSE

ChannelInit ==
  /\ stage = "idle" /\ link = "none" /\ opening \in {"args", "error"} /\ broken = FALSE
  /\ read = 0 /\ leftover = <<>> /\ lost = {} /\ mapped = FALSE /\ told = <<>>
  /\ shaken = 0 /\ heard = 0
  /\ online = TRUE /\ wire = <<>>
  /\ tunnel = "idle" /\ got = <<>> /\ garbled = FALSE
  /\ input = 0 /\ unchecked = {}

-----------------------------------------------------------------------------
(* The handshake. *)

(* tunnel.connect: start-session reaches createStream. *)
Start ==
  /\ stage = "idle" /\ tunnel = "idle" /\ online
  /\ tunnel' = "connecting" /\ stage' = "connecting"
  /\ UNCHANGED <<linkVars, mapped, told, online, wire, got, garbled, inputVars, marks>>

(* Connected: the listeners are attached, the protocol is selected. *)
Connects ==
  /\ stage = "connecting"
  /\ stage' = "args" /\ link' = "open" /\ told' = <<Told("select", <<>>)>>
  /\ UNCHANGED <<opening, broken, read, leftover, lost, mapped, online, wire, browserVars, inputVars, marks>>

(* The catch clause of start-session. *)
Fails == stage' = "failed" /\ wire' = Emitted(<<Event("error")>>)

(* An error, or 15 seconds without an answer. *)
ConnectFails ==
  /\ stage = "connecting"
  /\ Fails /\ link' = "closed"
  /\ UNCHANGED <<opening, broken, read, leftover, lost, mapped, told, online, browserVars, inputVars, marks>>

Arrives(n) ==
  /\ link = "open" /\ n > 0 /\ read + n <= Pieces
  /\ read' = read + n

(* dataListener.  With the first instruction the handshake goes on within  *)
(* the same turn: capabilities, connect, listeners off.  What came after   *)
(* it in the same chunk: complete instructions stay in pending, the rest   *)
(* is the leftover.  Another opcode is an error, which ends the stream.    *)
HandshakeChunk(n) ==
  /\ stage = "args" /\ ~broken
  /\ Arrives(n)
  /\ IF read' < Size
     THEN UNCHANGED <<stage, link, leftover, lost, shaken, told, wire>>
     ELSE IF opening = "args"
     THEN /\ stage' \in {"register", "announce"}
          /\ told' = Greeting
          /\ leftover' = Leftover(read') /\ shaken' = read'
          /\ lost' = Size + 1 .. Complete(read') * Size
          /\ UNCHANGED <<link, wire>>
     ELSE Fails /\ link' = "closed" /\ UNCHANGED <<leftover, lost, shaken, told>>
  /\ mapped' = (stage' = "announce")
  /\ UNCHANGED <<heard, opening, broken, online, browserVars, inputVars>>

(* Something that is no instruction, or an error: socketError is looked at *)
(* by the next nextInstr, of which there is none.  guacd's end of the      *)
(* connection has no listener at all.                                      *)
HandshakeBreaks ==
  /\ stage = "args" /\ ~broken
  /\ broken' = TRUE /\ link' \in {"open", "closed"}
  /\ UNCHANGED <<stage, opening, read, leftover, lost, mapped, told, online, wire, browserVars, inputVars, marks>>

\* Mutant: the stream is destroyed and the error goes nowhere.
HandshakeTimeoutMute ==
  /\ stage = "args"
  /\ stage' = "failed" /\ link' = "closed"
  /\ UNCHANGED <<opening, broken, read, leftover, lost, mapped, told, online, wire, browserVars, inputVars, marks>>

(* 15 seconds in nextInstr. *)
HandshakeTimeout ==
  /\ stage = "args"
  /\ Fails /\ link' = "closed"
  /\ UNCHANGED <<opening, broken, read, leftover, lost, mapped, told, online, browserVars, inputVars, marks>>

-----------------------------------------------------------------------------
(* Between the handshake and the pipe. *)

(* A flowing stream without a listener drops its chunks. *)
GapChunk(n) ==
  /\ InGap /\ Arrives(n)
  /\ lost' = lost \cup (read + 1 .. read + n)
  /\ UNCHANGED <<stage, link, opening, broken, leftover, mapped, told, online, wire, browserVars, inputVars, marks>>

(* registerRdp resolves: sessions.set. *)
Registered ==
  /\ stage = "register" /\ stage' = "announce" /\ mapped' = TRUE
  /\ UNCHANGED <<linkVars, told, online, wire, browserVars, inputVars, marks>>

(* It rejects, or auditService.log does: the stream is left as it is. *)
GapFails ==
  /\ InGap /\ Fails
  /\ UNCHANGED <<linkVars, mapped, told, online, browserVars, inputVars, marks>>

\* Mutant: the leftover is not flushed.
PipedAtOnce ==
  /\ stage = "announce" /\ stage' = "piped"
  /\ wire' = Emitted(<<Event("ready")>>)
  /\ leftover' = <<>> /\ heard' = read
  /\ UNCHANGED <<shaken, link, opening, broken, read, lost, mapped, told, online, browserVars, inputVars>>

(* The start is logged: the leftover goes first, then the listeners are    *)
(* attached and the browser is told.                                       *)
Piped ==
  /\ stage = "announce" /\ stage' = "piped"
  /\ wire' = Emitted((IF leftover = <<>> THEN <<>> ELSE <<Data(leftover)>>) \o <<Event("ready")>>)
  /\ leftover' = <<>> /\ heard' = read
  /\ UNCHANGED <<shaken, link, opening, broken, read, lost, mapped, told, online, browserVars, inputVars>>

(* The connection ends and nothing listens to 'close'. *)
EndsUnseen ==
  /\ InGap \/ stage = "failed"
  /\ link = "open" /\ link' = "closed"
  /\ UNCHANGED <<stage, opening, broken, read, leftover, lost, mapped, told, online, wire, browserVars, inputVars, marks>>

(* It fails and nothing listens to 'error': Node ends the process, and     *)
(* with it every socket of the server.                                     *)
Crashes ==
  /\ InGap \/ stage = "failed"
  /\ link = "open" /\ link' = "closed" /\ stage' = "crashed"
  /\ mapped' = FALSE /\ unchecked' = {}
  /\ HungUp(<<>>)
  /\ UNCHANGED <<opening, broken, read, leftover, lost, told, browserVars, input, marks>>

-----------------------------------------------------------------------------
(* The pipe. *)

(* socket.on('data'): without a session in the map nothing is forwarded. *)
PipeChunk(n) ==
  /\ stage = "piped" /\ Arrives(n)
  /\ IF mapped THEN wire' = Emitted(<<Data(Range1(read + 1, read + n))>>) /\ UNCHANGED lost
     ELSE lost' = lost \cup (read + 1 .. read + n) /\ UNCHANGED wire
  /\ UNCHANGED <<stage, link, opening, broken, leftover, mapped, told, online, browserVars, inputVars, marks>>

(* socket.on('close'), socket.on('error') *)
PipeEnds ==
  /\ stage = "piped" /\ link = "open" /\ link' = "closed"
  /\ \E ev \in {"closed", "error"} : HungUp(<<Event(ev)>>)
  /\ UNCHANGED <<stage, opening, broken, read, leftover, lost, mapped, told, browserVars, inputVars, marks>>

(* The timers armed with the stream (4 h), with the session (inactivity)   *)
(* and the access poll: an error and a hang-up; the poll has destroyed the *)
(* stream and deleted the session first.  A failed handshake armed none.   *)
Expires ==
  /\ online /\ Len(told) > 1
  /\ HungUp(<<Event("error")>>)
  /\ \/ UNCHANGED <<link, mapped>>
     \/ mapped /\ mapped' = FALSE /\ link' = "closed"
  /\ UNCHANGED <<stage, opening, broken, read, leftover, lost, told, browserVars, inputVars, marks>>

(* handleDisconnect *)
Disconnected ==
  /\ ~online /\ mapped
  /\ mapped' = FALSE /\ link' = "closed"
  /\ UNCHANGED <<stage, opening, broken, read, leftover, lost, told, online, wire, browserVars, inputVars, marks>>

-----------------------------------------------------------------------------
(* The browser: SocketIoTunnel. *)

(* Does piece p continue what the parser has? *)
Continues(before, p) ==
  IF before = <<>> \/ Ends(Last(before)) THEN Ends(p - 1) ELSE p = Last(before) + 1

ContinuesAll(pieces) ==
  \A i \in DOMAIN pieces : Continues(got \o SubSeq(pieces, 1, i - 1), pieces[i])

(* An event arrives.  A parser that is given something else than the rest  *)
(* of an instruction may throw, or take it for a value.                    *)
Deliver ==
  /\ wire # <<>>
  /\ LET e == Head(wire)
     IN  /\ wire' = IF e.ev = "disconnect" THEN <<>> ELSE Tail(wire)
         /\ IF e.ev = "data"
            THEN /\ got' = got \o e.pieces
                 /\ garbled' = (garbled \/ ~ContinuesAll(e.pieces))
                 /\ tunnel' \in IF garbled' THEN {tunnel, "closed"} ELSE {tunnel}
            ELSE /\ tunnel' = IF e.ev = "ready" THEN "open" ELSE "closed"
                 /\ UNCHANGED <<got, garbled>>
  /\ UNCHANGED <<stage, linkVars, mapped, told, online, inputVars, marks>>

(* tunnel.disconnect, or the connection is lost. *)
BrowserLeaves ==
  /\ tunnel \in {"connecting", "open"}
  /\ tunnel' = "closed" /\ wire' = <<>> /\ online' = FALSE
  /\ UNCHANGED <<stage, linkVars, mapped, told, got, garbled, inputVars, marks>>

(* sendMessage.  Without a session the message is dropped; with a fresh    *)
(* answer about the access it is written at once, else hasAccess is asked. *)
Writes(m) == told' = IF link = "open" THEN Append(told, Told("input", <<m>>)) ELSE told

Input ==
  /\ tunnel \in {"connecting", "open"} /\ online /\ input < Messages
  /\ input' = input + 1
  /\ \/ mapped /\ Writes(input') /\ UNCHANGED unchecked
     \/ mapped /\ unchecked' = unchecked \cup {input'} /\ UNCHANGED told
     \/ ~mapped /\ UNCHANGED <<told, unchecked>>
  /\ UNCHANGED <<stage, linkVars, mapped, online, wire, browserVars, marks>>

(* hasAccess resolves, for several messages in any order.  A denial        *)
(* destroys the stream and deletes the session.                            *)
InputChecked(m) ==
  /\ m \in unchecked /\ unchecked' = unchecked \ {m}
  /\ \/ Writes(m) /\ UNCHANGED <<link, mapped, online, wire>>
     \/ /\ link' = "closed" /\ mapped' = FALSE
        /\ (IF online THEN HungUp(<<Event("error")>>) ELSE UNCHANGED <<wire, online>>)
        /\ UNCHANGED told
  /\ UNCHANGED <<stage, opening, broken, read, leftover, lost, browserVars, input, marks>>

ChannelNext ==
  \/ Start \/ Connects \/ ConnectFails \/ HandshakeBreaks \/ HandshakeTimeout
  \/ \E n \in 1 .. Pieces : HandshakeChunk(n) \/ GapChunk(n) \/ PipeChunk(n)
  \/ Registered \/ GapFails \/ Piped \/ EndsUnseen \/ Crashes
  \/ PipeEnds \/ Expires \/ Disconnected
  \/ Deliver \/ BrowserLeaves \/ Input
  \/ \E m \in unchecked : InputChecked(m)

ChannelSpec == ChannelInit /\ [][ChannelNext]_channelVars

(* Timers fire, queries are answered, and what was emitted arrives. *)
ChannelFairness ==
  /\ WF_channelVars(Deliver)
  /\ WF_channelVars(Connects \/ ConnectFails)
  /\ WF_channelVars(HandshakeTimeout)
  /\ WF_channelVars(Registered \/ GapFails)
  /\ WF_channelVars(Piped \/ GapFails)
  /\ WF_channelVars(Expires)
  /\ WF_channelVars(Disconnected)

ChannelFairSpec == ChannelSpec /\ ChannelFairness

-----------------------------------------------------------------------------
OnWire == FlattenSeq([i \in DOMAIN wire |-> wire[i].pieces])

(* What nobody reads: the instructions that were complete in the chunk     *)
(* which ended the handshake, behind the one it read, and whatever arrived *)
(* before the gateway listened.                                            *)
Missed == (Size + 1 .. Complete(shaken) * Size) \cup (shaken + 1 .. heard)

(* However guacd's output is cut into chunks, and whatever is in flight    *)
(* when the session starts: once the pipe is up the browser is given, in   *)
(* order and once, all but Missed, never more is lost, and what completed  *)
(* with the handshake is lost whole: only a chunk that arrives before the  *)
(* gateway listens can garble the rest.  In the other direction guacd      *)
(* hears the whole handshake, in order, before the first message of the    *)
(* browser, and no message twice.                                          *)
PipeFaithful ==
  /\ (stage = "piped" /\ online) =>
       got \o OnWire = Kept(Range1(Size + 1, read), (1 .. read) \ lost)
  /\ stage = "piped" => lost = Missed
  /\ garbled => shaken < heard
  /\ \A i, j \in DOMAIN got : i < j => got[i] < got[j]
  /\ told # <<>> => \/ told = <<Told("select", <<>>)>>
                    \/ IsPrefix(Greeting, told)
  /\ \A i, j \in DOMAIN told :
       (i # j /\ told[i].op = "input" /\ told[j].op = "input") => told[i].args # told[j].args

(* When the stream has ended, for whatever reason and at whatever moment   *)
(* (also in the handshake, also where nobody listens to its end), the      *)
(* tunnel of the browser gets to know.                                     *)
EndReachesBrowser == link = "closed" ~> tunnel = "closed"
=============================================================================
