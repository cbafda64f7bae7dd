----------------------------- MODULE GuacPlayer -----------------------------
(***************************************************************************)
(* The player of remote desktop recordings (client/src/components/         *)
(* GuacamolePlayer.tsx).                                                   *)
(*                                                                         *)
(* The library's recording is never played: an interval seeks it to the    *)
(* place the clock asks for, and so do the buttons, the bar and the        *)
(* export.  A seek is asynchronous: the library may report frames on the   *)
(* way, and calls back when the display shows the recording at the target. *)
(* A new seek takes the place of the one under way.                        *)
(*                                                                         *)
(* Positions are ticks of the recording, Duration being its length.        *)
(***************************************************************************)
EXTENDS Naturals, Sequences

CONSTANTS Duration, Speeds, SeekStep, Frame

VARIABLES
  status,      \* "absent", "loading", "ready" or "error"
  playing,     \* playingRef and the state of the same name
  loop,        \* the interval: <<>> or <<anchor>>, [pos, wall]
  current,     \* currentTime, and with it progress
  speedIdx,
  seeking,     \* the seek under way: <<>> or <<target>>
  picture,     \* the position the display was last brought to
  exporting    \* 0, or the number of the frame the export will ask for next

guacVars == <<status, playing, loop, current, speedIdx, seeking, picture, exporting>>

Sooner(a, b) == IF a < b THEN a ELSE b

GuacInit ==
  /\ status = "absent" /\ playing = FALSE /\ loop = <<>> /\ current = 0
  /\ speedIdx = 2 /\ seeking = <<>> /\ picture = 0 /\ exporting = 0

(* The effect of the player: fetch, fake tunnel, recording. *)
OpenGuac ==
  /\ status = "absent" /\ status' = "loading"
  /\ UNCHANGED <<playing, loop, current, speedIdx, seeking, picture, exporting>>

(* onload, or the fetch failed. *)
GuacLoaded(ok) ==
  /\ status = "loading" /\ status' = IF ok THEN "ready" ELSE "error"
  /\ UNCHANGED <<playing, loop, current, speedIdx, seeking, picture, exporting>>

(* The cleanup of the effect: disposed, no interval, no recording. *)
CloseGuac ==
  /\ status # "absent"
  /\ status' = "absent" /\ playing' = FALSE /\ loop' = <<>> /\ current' = 0
  /\ speedIdx' = 2 /\ seeking' = <<>> /\ picture' = 0 /\ exporting' = 0

(* The controls are there once the recording is, and not in an export. *)
Controls == status = "ready" /\ exporting = 0

StopPlayback == loop' = <<>> /\ playing' = FALSE

(* From the end, playback starts over. *)
StartPlayback(from) ==
  /\ loop' = <<[pos |-> IF from >= Duration THEN 0 ELSE from, wall |-> 0]>>
  /\ playing' = TRUE

SeekRecording(to) == seeking' = <<to>>

GuacPlayPause ==
  /\ Controls
  /\ IF playing THEN StopPlayback ELSE StartPlayback(current)
  /\ UNCHANGED <<status, current, speedIdx, seeking, picture, exporting>>

GuacRestart ==
  /\ Controls /\ StopPlayback /\ SeekRecording(0) /\ current' = 0
  /\ UNCHANGED <<status, speedIdx, picture, exporting>>

(* handleSpeedCycle: playing, it starts over from the position shown. *)
GuacSpeedCycle ==
  /\ Controls
  /\ speedIdx' = IF speedIdx = Len(Speeds) THEN 1 ELSE speedIdx + 1
  /\ IF playing THEN StartPlayback(current) ELSE UNCHANGED <<loop, playing>>
  /\ UNCHANGED <<status, current, seeking, picture, exporting>>

(* seekToSec, from the bar and the two buttons. *)
SeekToSec(target) ==
  /\ Controls
  /\ LET to == Sooner(target, Duration)
     IN  /\ SeekRecording(to) /\ current' = to
         /\ IF playing THEN StartPlayback(to) ELSE UNCHANGED <<loop, playing>>
  /\ UNCHANGED <<status, speedIdx, picture, exporting>>

GuacSeekBar == \E target \in 0 .. Duration : SeekToSec(target)
GuacSeekBack == SeekToSec(IF current < SeekStep THEN 0 ELSE current - SeekStep)
GuacSeekForward == SeekToSec(current + SeekStep)

(* The interval: seek to where the clock is, stop at the end.  The speed   *)
(* is the one of now (speedRef).                                           *)
LoopTick ==
  /\ loop # <<>>
  /\ LET target == loop[1].pos + loop[1].wall * Speeds[speedIdx]
     IN  IF target >= Duration
         THEN SeekRecording(Duration) /\ current' = Duration /\ StopPlayback
         ELSE SeekRecording(target) /\ UNCHANGED <<current, loop, playing>>
  /\ UNCHANGED <<status, speedIdx, picture, exporting>>

GuacClock ==
  /\ loop # <<>> /\ loop[1].pos + loop[1].wall * Speeds[speedIdx] < Duration
  /\ loop' = <<[loop[1] EXCEPT !.wall = @ + 1]>>
  /\ UNCHANGED <<status, playing, current, speedIdx, seeking, picture, exporting>>

(* onseek: the time of a frame the library goes by, none past the target.  *)
OnSeek(millis) ==
  /\ seeking # <<>> /\ millis <= seeking[1]
  /\ current' = millis
  /\ UNCHANGED <<status, playing, loop, speedIdx, seeking, picture, exporting>>

(* The callback of the seek; only the export waits for it. *)
SeekDone ==
  /\ seeking # <<>>
  /\ seeking' = <<>> /\ picture' = seeking[1]
  /\ UNCHANGED <<status, playing, loop, current, speedIdx, exporting>>

\* Mutant: the export leaves playback alone.
StartExportingOver ==
  /\ Controls
  /\ SeekRecording(0) /\ exporting' = 1
  /\ UNCHANGED <<status, playing, loop, current, speedIdx, picture>>

(* handleExport: playback stops, then one seek per frame, each awaited. *)
StartExporting ==
  /\ Controls /\ StopPlayback
  /\ SeekRecording(0) /\ exporting' = 1
  /\ UNCHANGED <<status, current, speedIdx, picture>>

Frames == ((Duration + Frame - 1) \div Frame) + 1

ExportNext ==
  /\ exporting > 0 /\ seeking = <<>>
  /\ IF exporting <= Frames
     THEN /\ SeekRecording(Sooner((exporting - 1) * Frame, Duration))
          /\ exporting' = exporting + 1
     ELSE exporting' = 0 /\ UNCHANGED seeking
  /\ UNCHANGED <<status, playing, loop, current, speedIdx, picture>>

(* The encoder fails: the catch clause. *)
ExportFails ==
  /\ exporting > 0 /\ exporting' = 0
  /\ UNCHANGED <<status, playing, loop, current, speedIdx, seeking, picture>>

GuacNext ==
  \/ OpenGuac \/ CloseGuac
  \/ \E ok \in BOOLEAN : GuacLoaded(ok)
  \/ GuacPlayPause \/ GuacRestart \/ GuacSpeedCycle
  \/ GuacSeekBar \/ GuacSeekBack \/ GuacSeekForward
  \/ LoopTick \/ GuacClock
  \/ (\E millis \in 0 .. Duration : OnSeek(millis)) \/ SeekDone
  \/ StartExporting \/ ExportNext \/ ExportFails

GuacSpec == GuacInit /\ [][GuacNext]_guacVars

-----------------------------------------------------------------------------
(* One driver at a time: the interval runs exactly while the player says   *)
(* it plays, and during an export nothing but the export moves the         *)
(* recording, so what is encoded as a frame is what was asked for it.      *)
OneDriver ==
  /\ playing <=> loop # <<>>
  /\ exporting > 0 => loop = <<>>
  /\ (exporting > 1 /\ seeking = <<>>) => picture = Sooner((exporting - 2) * Frame, Duration)
=============================================================================
