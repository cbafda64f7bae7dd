----------------------------- MODULE CastPlayer -----------------------------
(***************************************************************************)
(* The player of terminal recordings (client/src/components/               *)
(* AsciinemaPlayer.tsx).                                                   *)
(*                                                                         *)
(* To play is to write at once what lies before the position and to set a  *)
(* timer for every later event and one for the end; an interval moves the  *)
(* progress bar.  Pausing, seeking and changing the speed clear the timers *)
(* and set new ones.  The export writes the events, frame by frame, to a   *)
(* terminal of its own.                                                    *)
(*                                                                         *)
(* Time is in ticks: of the recording for events and positions, of the     *)
(* wall for the run; a run at speed v covers v ticks of the recording per  *)
(* tick of the wall.  Timers may fire late, never out of the order in      *)
(* which they were set (they are set in the order of their delays).        *)
(***************************************************************************)
EXTENDS Naturals, Sequences, SequencesExt, Selection

CONSTANTS
  Events,     \* the recording: [at, output], in order of time
  Speeds,     \* SPEEDS, the second being the first in use
  Short,      \* what is left is shown at once when it is no longer than this
  SeekStep,   \* SEEK_STEP
  Frame,      \* the length of a frame of the export
  MaxLate     \* bound: ticks of the wall a run goes on after its end is due

VARIABLES
  phase,      \* "absent", "loading", "ready" or "failed"
  screen,     \* the events the terminal shows, as positions in the recording
  elapsed,    \* the position the progress bar shows
  playing, speedIdx,
  run,        \* <<>> or <<[from, speed, wall]>>: where, how fast, since when
  timers,     \* the events still to be written, then End
  frame,      \* the next frame of the export, from 1; 0 when there is none
  clip        \* what the export's terminal has been given

castVars == <<phase, screen, elapsed, playing, speedIdx, run, timers, frame, clip>>

End == 0

Earlier(a, b) == IF a < b THEN a ELSE b

(* setDuration: the time of the last event. *)
Duration == IF Events = <<>> THEN 0 ELSE Events[Len(Events)].at

Outputs == Kept([i \in DOMAIN Events |-> i], {i \in DOMAIN Events : Events[i].output})
OutputsBefore(t) == Kept(Outputs, {i \in DOMAIN Events : Events[i].at < t})
OutputsUpTo(t) == Kept(Outputs, {i \in DOMAIN Events : Events[i].at <= t})
OutputsAfter(t) == Kept(Outputs, {i \in DOMAIN Events : Events[i].at > t})

\* Mutant: an event at the position itself is taken for written.
OutputsFromNext(t) == OutputsAfter(t)

OutputsFrom(t) == Kept(Outputs, {i \in DOMAIN Events : Events[i].at >= t})

CastInit ==
  /\ phase = "absent" /\ screen = <<>> /\ elapsed = 0
  /\ playing = FALSE /\ speedIdx = 2 /\ run = <<>> /\ timers = <<>>
  /\ frame = 0 /\ clip = <<>>

(* The effects of the first render: a terminal, and the recording fetched. *)
OpenCast ==
  /\ phase = "absent" /\ phase' = "loading"
  /\ UNCHANGED <<screen, elapsed, playing, speedIdx, run, timers, frame, clip>>

CastLoaded(ok) ==
  /\ phase = "loading" /\ phase' = IF ok THEN "ready" ELSE "failed"
  /\ UNCHANGED <<screen, elapsed, playing, speedIdx, run, timers, frame, clip>>

(* The page leaves the player.  The state here is that of the instance     *)
(* which is mounted: the cleanup disposes of the terminal only, so timers  *)
(* and the export of the one that has gone run out on refs of its own,     *)
(* which no later instance shares.                                         *)
CloseCast ==
  /\ phase # "absent"
  /\ phase' = "absent" /\ screen' = <<>> /\ elapsed' = 0
  /\ playing' = FALSE /\ speedIdx' = 2 /\ run' = <<>> /\ timers' = <<>>
  /\ frame' = 0 /\ clip' = <<>>

Ready == phase = "ready" /\ Events # <<>>

(* stop: no timer is left. *)
Stopped == playing' = FALSE /\ run' = <<>> /\ timers' = <<>>

(* The timers of a run from a position, at the speed of the last render. *)
Started(from, later) ==
  /\ run' = <<[from |-> from, speed |-> Speeds[speedIdx], wall |-> 0]>>
  /\ timers' = Append(later, End)

(* play: a remainder too short to animate is shown at once. *)
Play(from) ==
  IF Duration <= from + Short
  THEN Stopped /\ screen' = Outputs /\ elapsed' = Duration
  ELSE /\ Started(from, OutputsFrom(from))
       /\ screen' = OutputsBefore(from)
       /\ playing' = TRUE /\ elapsed' = from

(* handlePlayPause: at the end, play starts over. *)
PlayPause ==
  /\ Ready /\ frame = 0
  /\ IF playing THEN Stopped /\ UNCHANGED <<screen, elapsed>>
     ELSE Play(IF elapsed >= Duration THEN 0 ELSE elapsed)
  /\ UNCHANGED <<phase, speedIdx, frame, clip>>

Restart ==
  /\ Ready /\ frame = 0
  /\ Stopped /\ elapsed' = 0 /\ screen' = <<>>
  /\ UNCHANGED <<phase, speedIdx, frame, clip>>

(* handleSpeedCycle: play is the one of the last render and still has the  *)
(* speed that was shown there.                                             *)
SpeedCycle ==
  /\ phase # "absent" /\ frame = 0
  /\ speedIdx' = IF speedIdx = Len(Speeds) THEN 1 ELSE speedIdx + 1
  /\ IF playing THEN Play(elapsed) ELSE UNCHANGED <<screen, elapsed, playing, run, timers>>
  /\ UNCHANGED <<phase, frame, clip>>

(* seekTo *)
Seek(target) ==
  /\ Ready
  /\ LET to == Earlier(target, Duration)
     IN  /\ screen' = OutputsUpTo(to)
         /\ elapsed' = to
         /\ IF playing THEN Started(to, OutputsAfter(to))
            ELSE timers' = <<>> /\ UNCHANGED run
  /\ UNCHANGED <<phase, playing, speedIdx, frame, clip>>

(* The bar can be clicked during an export, the buttons cannot. *)
SeekBar == \E target \in 0 .. Duration : Seek(target)
SeekBack == frame = 0 /\ Seek(IF elapsed < SeekStep THEN 0 ELSE elapsed - SeekStep)
SeekForward == frame = 0 /\ Seek(elapsed + SeekStep)

(* How much of the recording a run has covered. *)
Covered == run[1].wall * run[1].speed

(* setTimeout: the first timer, when its delay is over. *)
TimerFires ==
  /\ timers # <<>>
  /\ LET e == Head(timers)
     IN  /\ (IF e = End THEN Duration ELSE Events[e].at) <= run[1].from + Covered
         /\ IF e = End THEN Stopped /\ UNCHANGED screen
            ELSE /\ screen' = Append(screen, e) /\ timers' = Tail(timers)
                 /\ UNCHANGED <<playing, run>>
  /\ UNCHANGED <<phase, elapsed, speedIdx, frame, clip>>

(* setInterval: the progress bar follows the clock. *)
ProgressTick ==
  /\ run # <<>>
  /\ elapsed' = Earlier(run[1].from + Covered, Duration)
  /\ UNCHANGED <<phase, screen, playing, speedIdx, run, timers, frame, clip>>

ClockTick ==
  /\ run # <<>> /\ run[1].from + Covered < Duration + MaxLate
  /\ run' = <<[run[1] EXCEPT !.wall = @ + 1]>>
  /\ UNCHANGED <<phase, screen, elapsed, playing, speedIdx, timers, frame, clip>>

-----------------------------------------------------------------------------
(* The export. *)

TotalFrames == ((Duration + Frame - 1) \div Frame) + 1

(* frameEvents: the frame an event falls in, the last one at most. *)
FrameOf(i) == Earlier((Events[i].at \div Frame) + 1, TotalFrames)

StartExport ==
  /\ Ready /\ frame = 0
  /\ frame' = 1 /\ clip' = <<>>
  /\ UNCHANGED <<phase, screen, elapsed, playing, speedIdx, run, timers>>

(* One turn of the loop: the terminal gets the batch of the frame. *)
ExportFrame ==
  /\ frame > 0 /\ frame <= TotalFrames
  /\ clip' = clip \o Kept(Outputs, {i \in DOMAIN Events : FrameOf(i) = frame})
  /\ frame' = frame + 1
  /\ UNCHANGED <<phase, screen, elapsed, playing, speedIdx, run, timers>>

(* cleanup: the file is offered, or the export failed on the way. *)
ExportDone ==
  /\ frame > 0 /\ frame' = 0 /\ clip' = <<>>
  /\ UNCHANGED <<phase, screen, elapsed, playing, speedIdx, run, timers>>

CastNext ==
  \/ OpenCast \/ CloseCast
  \/ \E ok \in BOOLEAN : CastLoaded(ok)
  \/ PlayPause \/ Restart \/ SpeedCycle
  \/ SeekBar \/ SeekBack \/ SeekForward
  \/ TimerFires \/ ProgressTick \/ ClockTick
  \/ StartExport \/ ExportFrame \/ ExportDone

CastSpec == CastInit /\ [][CastNext]_castVars

-----------------------------------------------------------------------------
(* The replay is the recording: whatever was paused, sought and changed,   *)
(* and whichever timers were late, the screen shows a beginning of the     *)
(* output without gap, repetition or exchange; while it plays, the timers  *)
(* hold exactly the rest, so a run that is left alone ends on the whole of *)
(* it; and a finished export has all of it.                                *)
ReplayIsFaithful ==
  /\ IsPrefix(screen, Outputs)
  /\ playing => screen \o Front(timers) = Outputs
  /\ ~playing => timers = <<>>
  /\ (frame > 0 /\ frame > TotalFrames) => clip = Outputs
=============================================================================
