-------------------------- MODULE RecordingsProofs --------------------------
(***************************************************************************)
(* Theorems about Recordings, for any sessions, administrators, policies   *)
(* and bounds.                                                             *)
(***************************************************************************)
EXTENDS Recordings, TLAPS

USE MaxChunksAssumption, SessionsAssumption, ArchivedAssumption DEF None, Unlinked, HasFile

(***************************************************************************)
(* Type correctness of what the recorder, the sweep and the pins work on.  *)
(***************************************************************************)
LEMMA TypeInit == Init => TypeOK
BY DEF Init, Initially, TypeOK, Lives

LEMMA TypeRecorder ==
  ASSUME TypeOK, NEW s \in Sessions, RecorderStep(s) PROVE TypeOK'
<1> USE DEF TypeOK, Become, Lives, fileVars, rowVars, pinVars, sweepVars
<1>1. CASE Start(s)
  BY <1>1 DEF Start
<1>2. CASE RegisterRdp(s)
  BY <1>2 DEF RegisterRdp
<1>3. CASE InsertRow(s)
  BY <1>3 DEF InsertRow
<1>4. CASE InsertRowFails(s)
  BY <1>4 DEF InsertRowFails
<1>5. CASE WriteOutput(s)
  BY <1>5 DEF WriteOutput
<1>6. CASE Drain(s)
  BY <1>6 DEF Drain
<1>7. CASE Kill(s)
  BY <1>7 DEF Kill
<1>8. CASE End(s)
  BY <1>8 DEF End
<1>9. CASE Flushed(s)
  BY <1>9 DEF Flushed
<1>10. CASE RowFound(s)
  BY <1>10 DEF RowFound
<1>11. CASE Hashed(s)
  BY <1>11 DEF Hashed
<1>12. CASE Finalise(s)
  BY <1>12 DEF Finalise
<1>13. CASE FinaliseFails(s)
  BY <1>13 DEF FinaliseFails
<1>14. CASE WriteAfterEnd(s)
  BY <1>14 DEF WriteAfterEnd, Boot, EndSweep
<1>15. CASE GuacdCreates(s)
  BY <1>15 DEF GuacdCreates
<1>16. CASE GuacdWrites(s)
  BY <1>16 DEF GuacdWrites
<1>17. CASE HashFails(s)
  BY <1>17 DEF HashFails
<1>18. QED
  BY <1>1, <1>2, <1>3, <1>4, <1>5, <1>6, <1>7, <1>8, <1>9, <1>10, <1>11, <1>12,
     <1>13, <1>14, <1>15, <1>16, <1>17 DEF RecorderStep

LEMMA TypeSweep == ASSUME TypeOK, SweepStep PROVE TypeOK'
<1> USE DEF TypeOK, fileVars, rowVars, pinVars, EndSweep
<1>1. CASE SweepStarts
  BY <1>1 DEF SweepStarts
<1>2. CASE SweepLists
  <2>1. batch' \subseteq Sessions /\ stage' \in {"idle", "unlink"} /\ sweptAt' \in Nat
    <3>1. CASE Candidates = {} /\ EndSweep
      BY <3>1
    <3>2. CASE batch' \in SUBSET Candidates /\ stage' = "unlink" /\ sweptAt' = sweptAt
      BY <3>2 DEF Candidates
    <3>3. QED
      BY <1>2, <3>1, <3>2 DEF SweepLists
  <2>2. QED
    BY <1>2, <2>1 DEF SweepLists
<1>3. ASSUME NEW s \in Sessions, Unlink(s) PROVE TypeOK'
  BY <1>3 DEF Unlink
<1>4. ASSUME NEW s \in Sessions, Proceed(s)
      PROVE  batch' \subseteq Sessions /\ stage' \in {"idle", "unlink"} /\ sweptAt' \in Nat
  <2>1. CASE batch = {s}
    BY <1>4, <2>1 DEF Proceed
  <2>2. CASE batch # {s}
    BY <1>4, <2>2 DEF Proceed
  <2>3. QED
    BY <2>1, <2>2
<1>5. ASSUME NEW s \in Sessions, UnlinkFails(s) \/ DeleteFails(s) PROVE TypeOK'
  <2>1. Proceed(s)
    BY <1>5 DEF UnlinkFails, DeleteFails
  <2>2. QED
    BY <1>4, <1>5, <2>1 DEF UnlinkFails, DeleteFails
<1>6. ASSUME NEW s \in Sessions, DeleteRow(s) PROVE TypeOK'
  <2>1. Proceed(s)
    BY <1>6 DEF DeleteRow
  <2>2. QED
    BY <1>4, <1>6, <2>1 DEF DeleteRow
<1>7. QED
  BY <1>1, <1>2, <1>3, <1>5, <1>6 DEF SweepStep

LEMMA TypeNext == TypeOK /\ [Next]_vars => TypeOK'
<1> SUFFICES ASSUME TypeOK, [Next]_vars PROVE TypeOK'
  OBVIOUS
<1> USE DEF TypeOK, fileVars, rowVars, pinVars, sweepVars, EndSweep
<1>1. ASSUME NEW s \in Sessions, RecorderStep(s) PROVE TypeOK'
  BY <1>1, TypeRecorder
<1>2. ASSUME NEW a \in Admins, NEW s \in Sessions, PinReads(a, s) PROVE TypeOK'
  BY <1>2 DEF PinReads
<1>3. ASSUME NEW a \in Admins, PinWrites(a) PROVE TypeOK'
  <2>1. pinning[a].of \subseteq Sessions
    OBVIOUS
  <2>2. pinned' \subseteq Sessions /\ pinnedAt' \in [Sessions -> Int]
    <3>1. pinned' \subseteq Sessions
      BY <1>3, <2>1 DEF PinWrites, Toggled
    <3>2. pinnedAt' = [s \in Sessions |->
             IF s \in pinning[a].of \cap rows THEN (IF pinning[a].was THEN None ELSE now)
             ELSE pinnedAt[s]]
      BY <1>3 DEF PinWrites, Toggled
    <3>3. QED
      BY <3>1, <3>2
  <2>3. pinning' \in [Admins -> [of : SUBSET Sessions, was : BOOLEAN]]
    BY <1>3 DEF PinWrites
  <2>4. QED
    BY <1>3, <2>2, <2>3 DEF PinWrites
<1>4. CASE SettingsStep
  BY <1>4 DEF SettingsStep, SetRetention, ClearRetention, Enter, WriteTable,
              WriteFails, WriteCache
<1>5. CASE SweepStep
  BY <1>5, TypeSweep
<1>6. CASE Crash
  BY <1>6 DEF Crash, Boot, Lives
<1>7. CASE Tick
  BY <1>7 DEF Tick
<1>8. CASE UNCHANGED vars
  BY <1>8 DEF vars
<1>9. QED
  BY <1>1, <1>2, <1>3, <1>4, <1>5, <1>6, <1>7, <1>8 DEF Next

\* Every variable of the recorder, the sweep and the pins keeps its type.
THEOREM TypeCorrect == Spec => []TypeOK
BY TypeInit, TypeNext, PTL DEF Spec

-----------------------------------------------------------------------------
(***************************************************************************)
(* What ties the recorder, the rows and the sweep together: a recording    *)
(* that has not begun has nothing, one that has ended is in nobody's hands *)
(* any more, and the sweep holds only recordings that have ended.          *)
(***************************************************************************)
SessionOK(s) ==
  /\ life[s] = "new" =>
        file[s] = None /\ endedAt[s] = None /\ sha256[s] = None /\ s \notin active
  /\ s \in active =>
        HasFile(s) /\ s \notin rdp /\ life[s] \in {"starting", "running", "flush", "over"}
  /\ endedAt[s] # None => life[s] = "over" /\ s \notin active
  /\ life[s] \notin {"new", "over"} => IF s \in rdp THEN file[s] # Unlinked ELSE HasFile(s)
  /\ endedAt[s] = None => sha256[s] = None
  /\ life[s] = "update" =>
        IF s \in rdp THEN digest[s] = None \/ digest[s] \in 0..file[s] ELSE digest[s] = file[s]
  /\ digest[s] # None => life[s] = "update"

Sweeping ==
  /\ \A s \in batch : endedAt[s] # None
  /\ stage = "delete" => \A s \in batch : IsNext(s) => ~HasFile(s)

ArchiveInv == TypeOK /\ (\A s \in Sessions : SessionOK(s)) /\ Sweeping

LEMMA ArchiveInit == Init => ArchiveInv
<1> SUFFICES ASSUME Init PROVE (\A s \in Sessions : SessionOK(s)) /\ Sweeping
  BY TypeInit DEF ArchiveInv
<1>1. ASSUME NEW s \in Sessions PROVE SessionOK(s)
  BY DEF Init, Initially, SessionOK
<1>2. QED
  BY <1>1 DEF Init, Sweeping

LEMMA ArchiveRecorder ==
  ASSUME ArchiveInv, NEW s \in Sessions, RecorderStep(s)
  PROVE  (\A r \in Sessions : SessionOK(r)') /\ Sweeping'
<1> USE DEF ArchiveInv, TypeOK, SessionOK, Sweeping, IsNext, Become, Lives,
            fileVars, rowVars, pinVars, sweepVars
<1>1. CASE Start(s)
  BY <1>1 DEF Start
<1>2. CASE RegisterRdp(s)
  BY <1>2 DEF RegisterRdp
<1>3. CASE InsertRow(s)
  BY <1>3 DEF InsertRow
<1>4. CASE InsertRowFails(s)
  BY <1>4 DEF InsertRowFails
<1>5. CASE WriteOutput(s)
  BY <1>5 DEF WriteOutput
<1>6. CASE Drain(s)
  BY <1>6 DEF Drain
<1>7. CASE Kill(s)
  BY <1>7 DEF Kill
<1>8. CASE End(s)
  BY <1>8 DEF End
<1>9. CASE Flushed(s)
  BY <1>9 DEF Flushed
<1>10. CASE RowFound(s)
  BY <1>10 DEF RowFound
<1>11. CASE Hashed(s)
  BY <1>11 DEF Hashed
<1>12. CASE Finalise(s)
  BY <1>12 DEF Finalise
<1>13. CASE FinaliseFails(s)
  BY <1>13 DEF FinaliseFails
<1>14. CASE WriteAfterEnd(s)
  BY <1>14 DEF WriteAfterEnd, Boot, EndSweep
<1>15. CASE GuacdCreates(s)
  BY <1>15 DEF GuacdCreates
<1>16. CASE GuacdWrites(s)
  BY <1>16 DEF GuacdWrites
<1>17. CASE HashFails(s)
  BY <1>17 DEF HashFails
<1>18. QED
  BY <1>1, <1>2, <1>3, <1>4, <1>5, <1>6, <1>7, <1>8, <1>9, <1>10, <1>11, <1>12,
     <1>13, <1>14, <1>15, <1>16, <1>17 DEF RecorderStep

LEMMA ArchiveSweep ==
  ASSUME ArchiveInv, SweepStep
  PROVE  (\A r \in Sessions : SessionOK(r)') /\ Sweeping'
<1> USE DEF ArchiveInv, TypeOK, SessionOK, Sweeping, fileVars, rowVars, pinVars
<1>1. CASE SweepStarts
  BY <1>1 DEF SweepStarts
<1>2. CASE SweepLists
  <2>1. \A s \in batch' : endedAt'[s] # None
    BY <1>2 DEF SweepLists, EndSweep, Candidates, Expired
  <2>2. stage' # "delete"
    BY <1>2 DEF SweepLists, EndSweep
  <2>3. QED
    BY <1>2, <2>1, <2>2 DEF SweepLists
<1>3. ASSUME NEW s \in Sessions, Proceed(s)
      PROVE  batch' \subseteq batch \ {s} /\ stage' # "delete"
  BY <1>3 DEF Proceed, EndSweep
<1>4. ASSUME NEW s \in Sessions, Unlink(s)
      PROVE  (\A r \in Sessions : SessionOK(r)') /\ Sweeping'
  <2>1. \A r \in batch : IsNext(r) => r = s
    BY <1>4 DEF Unlink, IsNext
  <2>2. \A r \in batch' : IsNext(r)' => ~HasFile(r)'
    BY <1>4, <2>1 DEF Unlink, IsNext
  <2>3. s \in batch /\ endedAt[s] # None
    BY <1>4 DEF Unlink, IsNext
  <2>4. QED
    BY <1>4, <2>2, <2>3 DEF Unlink
<1>5. ASSUME NEW s \in Sessions, UnlinkFails(s) \/ DeleteFails(s)
      PROVE  (\A r \in Sessions : SessionOK(r)') /\ Sweeping'
  <2>1. batch' \subseteq batch \ {s} /\ stage' # "delete"
    BY <1>3, <1>5 DEF UnlinkFails, DeleteFails
  <2>2. QED
    BY <1>5, <2>1 DEF UnlinkFails, DeleteFails
<1>6. ASSUME NEW s \in Sessions, DeleteRow(s)
      PROVE  (\A r \in Sessions : SessionOK(r)') /\ Sweeping'
  <2>1. batch' \subseteq batch \ {s} /\ stage' # "delete"
    BY <1>3, <1>6 DEF DeleteRow
  <2>2. QED
    BY <1>6, <2>1 DEF DeleteRow
<1>7. QED
  BY <1>1, <1>2, <1>4, <1>5, <1>6 DEF SweepStep

LEMMA ArchiveNext == ArchiveInv /\ [Next]_vars => ArchiveInv'
<1> SUFFICES ASSUME ArchiveInv, [Next]_vars
             PROVE  (\A r \in Sessions : SessionOK(r)') /\ Sweeping'
  BY TypeNext DEF ArchiveInv
<1> USE DEF ArchiveInv, SessionOK, Sweeping, IsNext, fileVars, rowVars, pinVars, sweepVars
<1>1. ASSUME NEW s \in Sessions, RecorderStep(s)
      PROVE  (\A r \in Sessions : SessionOK(r)') /\ Sweeping'
  BY <1>1, ArchiveRecorder
<1>2. ASSUME NEW a \in Admins, NEW s \in Sessions, PinReads(a, s)
      PROVE  (\A r \in Sessions : SessionOK(r)') /\ Sweeping'
  BY <1>2 DEF PinReads
<1>3. ASSUME NEW a \in Admins, PinWrites(a)
      PROVE  (\A r \in Sessions : SessionOK(r)') /\ Sweeping'
  BY <1>3 DEF PinWrites
<1>4. CASE SettingsStep
  BY <1>4 DEF SettingsStep, SetRetention, ClearRetention, Enter, WriteTable,
              WriteFails, WriteCache
<1>5. CASE SweepStep
  BY <1>5, ArchiveSweep
<1>6. CASE Crash
  BY <1>6 DEF Crash, Boot, EndSweep, TypeOK, Lives
<1>7. CASE Tick
  BY <1>7 DEF Tick
<1>8. CASE UNCHANGED vars
  BY <1>8 DEF vars
<1>9. QED
  BY <1>1, <1>2, <1>3, <1>4, <1>5, <1>6, <1>7, <1>8 DEF Next

-----------------------------------------------------------------------------
(***************************************************************************)
(* The recordings implement RecordingArchive.                              *)
(***************************************************************************)
Content(s) == IF HasFile(s) THEN file[s] ELSE 0
Digest(s) == IF HasFile(s) THEN sha256[s] ELSE None

Same(s) == PhaseOf(s)' = PhaseOf(s) /\ Content(s)' = Content(s) /\ Digest(s)' = Digest(s)

LEMMA SameMaps ==
  ASSUME \A s \in Sessions : Same(s), rdp' = rdp PROVE UNCHANGED Archive!vars
BY DEF Same, Content, Digest, Archive!vars

LEMMA Untouched ==
  ASSUME NEW s \in Sessions, file'[s] = file[s], endedAt'[s] = endedAt[s],
         sha256'[s] = sha256[s]
  PROVE  Same(s)
BY DEF Same, PhaseOf, Content, Digest

LEMMA ArchiveInitMaps == Init => Archive!Init
<1> SUFFICES ASSUME Init PROVE Archive!Init
  OBVIOUS
<1>1. ASSUME NEW s \in Sessions
      PROVE  /\ s \in Archived => PhaseOf(s) = "sealed" /\ Content(s) = MaxChunks
                                   /\ Digest(s) = MaxChunks
             /\ s \notin Archived => PhaseOf(s) = "none" /\ Content(s) = 0
                                      /\ Digest(s) = None
  BY DEF Init, Initially, PhaseOf, Content, Digest
<1>2. rdp \in SUBSET Sessions /\ \A s \in rdp : s \notin Archived
  BY DEF Init
<1> HIDE DEF HasFile
<1>3. QED
  BY <1>1, <1>2 DEF Archive!Init, Content, Digest

LEMMA OneChanges ==
  ASSUME TypeOK, rdp' = rdp, NEW s \in Sessions, \A r \in Sessions \ {s} : Same(r)
  PROVE  /\ (PhaseOf(s) = "none" /\ PhaseOf(s)' = "open"
                /\ Content(s)' = Content(s) /\ Digest(s)' = Digest(s)) => Archive!Begin(s)
         /\ ((PhaseOf(s) = "open" \/ (s \in rdp /\ PhaseOf(s) = "sealed"))
                /\ PhaseOf(s)' = PhaseOf(s) /\ Digest(s)' = Digest(s)
                /\ Content(s)' \in Content(s) + 1..MaxChunks) => Archive!Append(s)
         /\ (PhaseOf(s) = "open" /\ PhaseOf(s)' = "sealed" /\ Content(s)' = Content(s)
                /\ Digest(s)' \in {None} \cup 0..MaxChunks
                /\ Archive!Attests(s, Digest(s)')) => Archive!Seal(s)
         /\ (PhaseOf(s) = "sealed" /\ PhaseOf(s)' = "removed"
                /\ Content(s)' = 0 /\ Digest(s)' = None) => Archive!Remove(s)
<1>1. (PhaseOf(s) = "none" /\ PhaseOf(s)' = "open"
         /\ Content(s)' = Content(s) /\ Digest(s)' = Digest(s)) => Archive!Begin(s)
  BY DEF Same, Content, Digest, Archive!Begin
<1>2. ((PhaseOf(s) = "open" \/ (s \in rdp /\ PhaseOf(s) = "sealed"))
         /\ PhaseOf(s)' = PhaseOf(s) /\ Digest(s)' = Digest(s)
         /\ Content(s)' \in Content(s) + 1..MaxChunks) => Archive!Append(s)
  BY DEF Same, Content, Digest, Archive!Append
<1>3. (PhaseOf(s) = "open" /\ PhaseOf(s)' = "sealed" /\ Content(s)' = Content(s)
         /\ Digest(s)' \in {None} \cup 0..MaxChunks
         /\ Archive!Attests(s, Digest(s)')) => Archive!Seal(s)
  BY DEF Same, Content, Digest, Archive!Seal
<1>4. (PhaseOf(s) = "sealed" /\ PhaseOf(s)' = "removed"
         /\ Content(s)' = 0 /\ Digest(s)' = None) => Archive!Remove(s)
  BY DEF Same, Content, Digest, Archive!Remove
<1>5. QED
  BY <1>1, <1>2, <1>3, <1>4

LEMMA RecorderMaps ==
  ASSUME ArchiveInv, NEW s \in Sessions, RecorderStep(s)
  PROVE  Archive!Next \/ UNCHANGED Archive!vars
<1> USE DEF ArchiveInv, TypeOK, SessionOK, Become, Lives, fileVars, rowVars
<1>1. CASE Start(s) \/ GuacdCreates(s)
  <2>1. rdp' = rdp /\ \A r \in Sessions \ {s} : Same(r)
    BY <1>1, Untouched DEF Start, GuacdCreates
  <2>2. file[s] = None /\ HasFile(s)' /\ endedAt[s] = None /\ file'[s] = 0
        /\ endedAt'[s] = endedAt[s] /\ sha256'[s] = sha256[s]
    BY <1>1 DEF Start, GuacdCreates
  <2>3. PhaseOf(s) = "none" /\ PhaseOf(s)' = "open"
    BY <2>2 DEF PhaseOf
  <2>4. Content(s)' = Content(s) /\ Digest(s)' = Digest(s)
    BY <2>2 DEF Content, Digest
  <2>5. QED
    BY <2>1, <2>3, <2>4, OneChanges DEF Archive!Next
<1>2. CASE InsertRow(s) \/ InsertRowFails(s) \/ WriteOutput(s) \/ Kill(s) \/ End(s)
           \/ Flushed(s) \/ RegisterRdp(s) \/ RowFound(s) \/ Hashed(s) \/ HashFails(s)
           \/ FinaliseFails(s)
  <2>1. rdp' = rdp /\ \A r \in Sessions : Same(r)
    BY <1>2, Untouched DEF InsertRow, InsertRowFails, WriteOutput, Kill, End, Flushed,
                           RegisterRdp, RowFound, Hashed, HashFails, FinaliseFails
  <2>2. QED
    BY <2>1, SameMaps
<1>3. CASE Drain(s) \/ GuacdWrites(s)
  <2>1. rdp' = rdp /\ \A r \in Sessions \ {s} : Same(r)
    BY <1>3, Untouched DEF Drain, GuacdWrites
  <2>2. /\ HasFile(s) /\ HasFile(s)' /\ file'[s] = file[s] + 1
        /\ endedAt'[s] = endedAt[s] /\ sha256'[s] = sha256[s]
        /\ s \in rdp \/ endedAt[s] = None
    BY <1>3 DEF Drain, GuacdWrites
  <2>3. /\ PhaseOf(s) = "open" \/ (s \in rdp /\ PhaseOf(s) = "sealed")
        /\ PhaseOf(s)' = PhaseOf(s)
    BY <2>2 DEF PhaseOf
  <2>4. Content(s)' \in Content(s) + 1..MaxChunks /\ Digest(s)' = Digest(s)
    BY <2>2 DEF Content, Digest
  <2>5. QED
    BY <2>1, <2>3, <2>4, OneChanges DEF Archive!Next
<1>4. CASE Finalise(s)
  <2>1. rdp' = rdp /\ \A r \in Sessions \ {s} : Same(r)
    BY <1>4, Untouched DEF Finalise
  <2>2. /\ endedAt[s] = None /\ endedAt'[s] # None /\ file' = file
        /\ sha256[s] = None /\ sha256'[s] = digest[s] /\ file[s] # Unlinked
    BY <1>4 DEF Finalise
  <2>3. CASE HasFile(s)
    <3>1. PhaseOf(s) = "open" /\ PhaseOf(s)' = "sealed"
      BY <2>2, <2>3 DEF PhaseOf
    <3>2. Content(s)' = Content(s) /\ Digest(s)' = digest[s] /\ Content(s) = file[s]
      BY <2>2, <2>3 DEF Content, Digest
    <3>3. /\ digest[s] \in {None} \cup 0..MaxChunks
          /\ IF s \in rdp THEN digest[s] = None \/ digest[s] \in 0..file[s]
             ELSE digest[s] = file[s]
      BY <1>4, <2>3 DEF Finalise
    <3>4. Archive!Attests(s, Digest(s)')
      BY <2>3, <3>2, <3>3 DEF Archive!Attests
    <3>5. QED
      BY <2>1, <3>1, <3>2, <3>3, <3>4, OneChanges DEF Archive!Next
  <2>4. CASE ~HasFile(s)
    <3>1. Same(s)
      BY <2>2, <2>4 DEF Same, PhaseOf, Content, Digest
    <3>2. QED
      BY <2>1, <3>1, SameMaps
  <2>5. QED
    BY <2>3, <2>4
<1>5. CASE WriteAfterEnd(s)
  <2>1. rdp' = rdp /\ \A r \in Sessions : Same(r)
    BY <1>5, Untouched DEF WriteAfterEnd, Boot
  <2>2. QED
    BY <2>1, SameMaps
<1>6. QED
  BY <1>1, <1>2, <1>3, <1>4, <1>5 DEF RecorderStep

LEMMA SweepMaps ==
  ASSUME ArchiveInv, SweepStep PROVE Archive!Next \/ UNCHANGED Archive!vars
<1> USE DEF ArchiveInv, TypeOK, SessionOK, fileVars, rowVars
<1>1. CASE SweepStarts \/ SweepLists \/ \E s \in Sessions : UnlinkFails(s) \/ DeleteFails(s)
  <2>1. rdp' = rdp /\ \A r \in Sessions : Same(r)
    BY <1>1, Untouched DEF SweepStarts, SweepLists, UnlinkFails, DeleteFails
  <2>2. QED
    BY <2>1, SameMaps
<1>2. ASSUME NEW s \in Sessions, Unlink(s)
      PROVE  Archive!Next \/ UNCHANGED Archive!vars
  <2>1. endedAt[s] # None
    BY <1>2 DEF Unlink, IsNext, Sweeping
  <2>2. rdp' = rdp /\ \A r \in Sessions \ {s} : Same(r)
    BY <1>2, Untouched DEF Unlink
  <2>3. CASE ~HasFile(s)
    <3>1. Same(s)
      BY <1>2, <2>3, Untouched DEF Unlink
    <3>2. QED
      BY <3>1, <2>2, SameMaps
  <2>4. CASE HasFile(s)
    <3>1. PhaseOf(s) = "sealed" /\ PhaseOf(s)' = "removed"
      BY <1>2, <2>1, <2>4 DEF Unlink, PhaseOf
    <3>2. Content(s)' = 0 /\ Digest(s)' = None
      BY <1>2 DEF Unlink, Content, Digest
    <3>3. QED
      BY <3>1, <3>2, <2>2, OneChanges DEF Archive!Next
  <2>5. QED
    BY <2>3, <2>4
<1>3. ASSUME NEW s \in Sessions, DeleteRow(s)
      PROVE  Archive!Next \/ UNCHANGED Archive!vars
  <2>1. ~HasFile(s)
    BY <1>3 DEF DeleteRow, IsNext, Sweeping
  <2>2. rdp' = rdp /\ \A r \in Sessions \ {s} : Same(r)
    BY <1>3, Untouched DEF DeleteRow
  <2>3. Same(s)
    BY <1>3, <2>1 DEF DeleteRow, Same, PhaseOf, Content, Digest
  <2>4. QED
    BY <2>2, <2>3, SameMaps
<1>4. QED
  BY <1>1, <1>2, <1>3 DEF SweepStep

LEMMA NextMaps ==
  ArchiveInv /\ [Next]_vars => [Archive!Next]_(Archive!vars)
<1> SUFFICES ASSUME ArchiveInv, [Next]_vars
             PROVE  Archive!Next \/ UNCHANGED Archive!vars
  OBVIOUS
<1>1. ASSUME NEW s \in Sessions, RecorderStep(s)
      PROVE  Archive!Next \/ UNCHANGED Archive!vars
  BY <1>1, RecorderMaps
<1>2. CASE SweepStep
  BY <1>2, SweepMaps
<1>3. ASSUME UNCHANGED <<rdp, file, endedAt, sha256>> PROVE UNCHANGED Archive!vars
  BY <1>3, Untouched, SameMaps
<1>4. CASE Crash
  <2>1. rdp' = rdp /\ \A s \in Sessions : Same(s)
    BY <1>4, Untouched DEF Crash, Boot, ArchiveInv, TypeOK, fileVars, rowVars
  <2>2. QED
    BY <2>1, SameMaps
<1>5. CASE \/ \E a \in Admins, s \in Sessions : PinReads(a, s)
           \/ \E a \in Admins : PinWrites(a)
           \/ SettingsStep \/ Tick \/ UNCHANGED vars
  BY <1>5, <1>3 DEF PinReads, PinWrites, SettingsStep, SetRetention, ClearRetention,
     Enter, WriteTable, WriteFails, WriteCache, Tick, vars, fileVars, rowVars
<1>6. QED
  BY <1>1, <1>2, <1>4, <1>5 DEF Next

\* start, end, finalizeRdp and the sweep implement RecordingArchive: a stored
\* digest of an SSH session is that of the file as it stays, one of an RDP session
\* is of what guacd had written by then, and only a sealed recording goes.
THEOREM ImplementsArchiveHolds == Spec => ImplementsArchive
<1>1. ArchiveInv /\ [Next]_vars => ArchiveInv'
  BY ArchiveNext
<1>2. ArchiveInv /\ [Next]_vars => [Archive!Next]_(Archive!vars)
  BY NextMaps
<1>3. QED
  BY ArchiveInit, ArchiveInitMaps, <1>1, <1>2, PTL DEF Spec, ImplementsArchive, Archive!Spec

-----------------------------------------------------------------------------
(***************************************************************************)
(* Pins and sweeps: what a running sweep has listed and is pinned was      *)
(* pinned after that sweep began.                                          *)
(***************************************************************************)
PinInv ==
  /\ TypeOK
  /\ sweptAt <= now
  /\ stage \in {"idle", "list"} => batch = {}
  /\ \A s \in batch \cap pinned : pinnedAt[s] >= sweptAt

LEMMA PinInit == Init => PinInv
BY TypeInit DEF Init, PinInv

LEMMA PinSweep == ASSUME PinInv, SweepStep, TypeOK' PROVE PinInv'
<1> USE DEF PinInv, TypeOK, EndSweep, pinVars
<1>1. CASE SweepStarts
  BY <1>1 DEF SweepStarts
<1>2. CASE SweepLists
  BY <1>2 DEF SweepLists, Candidates
<1>3. ASSUME NEW s \in Sessions, Unlink(s) PROVE PinInv'
  BY <1>3 DEF Unlink
<1>4. ASSUME NEW s \in Sessions, Proceed(s), now' = now, pinned' \subseteq pinned,
             \A r \in Sessions \ {s} : pinnedAt'[r] = pinnedAt[r]
      PROVE  PinInv'
  BY <1>4 DEF Proceed
<1>5. ASSUME NEW s \in Sessions, UnlinkFails(s) \/ DeleteFails(s) PROVE PinInv'
  BY <1>4, <1>5 DEF UnlinkFails, DeleteFails
<1>6. ASSUME NEW s \in Sessions, DeleteRow(s) PROVE PinInv'
  BY <1>4, <1>6 DEF DeleteRow
<1>7. QED
  BY <1>1, <1>2, <1>3, <1>5, <1>6 DEF SweepStep

LEMMA PinNext == PinInv /\ [Next]_vars => PinInv'
<1> SUFFICES ASSUME PinInv, [Next]_vars PROVE PinInv'
  OBVIOUS
<1>1. TypeOK'
  BY TypeNext DEF PinInv
<1> USE <1>1 DEF PinInv, TypeOK, EndSweep, pinVars, sweepVars
<1>2. ASSUME NEW s \in Sessions, RecorderStep(s) PROVE PinInv'
  BY <1>2 DEF RecorderStep, Start, RegisterRdp, GuacdCreates, GuacdWrites, HashFails,
     InsertRow, InsertRowFails, WriteOutput,
     Drain, Kill, End, Flushed, RowFound, Hashed, Finalise, FinaliseFails,
     WriteAfterEnd, Boot
<1>3. ASSUME NEW a \in Admins, NEW s \in Sessions, PinReads(a, s) PROVE PinInv'
  BY <1>3 DEF PinReads
<1>4. ASSUME NEW a \in Admins, PinWrites(a) PROVE PinInv'
  <2>1. \A s \in pinned' : (pinnedAt'[s] = pinnedAt[s] /\ s \in pinned) \/ pinnedAt'[s] = now
    BY <1>4 DEF PinWrites, Toggled
  <2>2. UNCHANGED <<now, sweepVars>>
    BY <1>4 DEF PinWrites
  <2>3. QED
    BY <2>1, <2>2
<1>5. CASE SettingsStep
  BY <1>5 DEF SettingsStep, SetRetention, ClearRetention, Enter, WriteTable, WriteFails,
     WriteCache
<1>6. CASE SweepStep
  BY <1>6, PinSweep
<1>7. CASE Crash
  BY <1>7 DEF Crash, Boot
<1>8. CASE Tick
  BY <1>8 DEF Tick
<1>9. CASE UNCHANGED vars
  BY <1>9 DEF vars
<1>10. QED
  BY <1>2, <1>3, <1>4, <1>5, <1>6, <1>7, <1>8, <1>9 DEF Next

\* Only a sweep deletes rows, and only those of its batch.
LEMMA OnlySweepsDelete ==
  PinInv /\ [Next]_vars => [\A s \in (rows \ rows') \cap pinned : pinnedAt[s] >= sweptAt]_vars
<1> SUFFICES ASSUME PinInv, Next, NEW s \in (rows \ rows') \cap pinned
             PROVE  pinnedAt[s] >= sweptAt
  BY DEF vars
<1> USE DEF rowVars
<1>1. \E r \in Sessions : DeleteRow(r)
  BY DEF Next, RecorderStep, Start, RegisterRdp, GuacdCreates, GuacdWrites, HashFails,
     InsertRow, InsertRowFails, WriteOutput,
     Drain, Kill, End, Flushed, RowFound, Hashed, Finalise, FinaliseFails, WriteAfterEnd,
     Boot, Crash, Tick, PinReads, PinWrites, SettingsStep, SetRetention, ClearRetention,
     Enter, WriteTable, WriteFails, WriteCache, SweepStep, SweepStarts, SweepLists,
     Unlink, UnlinkFails, DeleteFails
<1>2. PICK r \in Sessions : DeleteRow(r)
  BY <1>1
<1>3. s \in batch
  BY <1>2 DEF DeleteRow, IsNext
<1>4. QED
  BY <1>3 DEF PinInv

\* The sweep deletes a pinned recording only if the pin was set after the sweep
\* had begun (sweep, togglePin), whatever the number of administrators.
THEOREM PinsHold == Spec => PinsOutlastSweeps
<1>1. PinInv /\ [Next]_vars => PinInv'
  BY PinNext
<1>2. PinInv /\ [Next]_vars
        => [\A s \in (rows \ rows') \cap pinned : pinnedAt[s] >= sweptAt]_vars
  BY OnlySweepsDelete
<1>3. QED
  BY PinInit, <1>1, <1>2, PTL DEF Spec, PinsOutlastSweeps

-----------------------------------------------------------------------------
(***************************************************************************)
(* Settings.  While not all keys are crossed, the requests still to be     *)
(* answered are one, and it meets failed ones only on crossed keys; of a   *)
(* key that is not crossed at most one write is under way, table and cache *)
(* differ only between its two steps, and the request to be answered has   *)
(* either still to write the key or has written it.                        *)
(***************************************************************************)
Asked == {NoPolicy} \cup {AsSetting(p) : p \in Policies}
Write == [req : Nat, keys : SUBSET Keys, set : Asked, at : {"table", "cache"},
          answered : BOOLEAN]
Idle(k) == \A w \in writes : k \notin w.keys

OneToAnswer ==
  crossed # Keys =>
    \A v, w \in writes : ~v.answered =>
      IF w.answered THEN w.keys \subseteq crossed ELSE w.req = v.req /\ w.set = v.set

KeyOK(k) ==
  /\ \A v, w \in writes : k \in v.keys /\ k \in w.keys => v = w
  /\ \A w \in writes : k \in w.keys =>
        IF w.at = "cache" THEN table[k] = w.set[k] ELSE cache[k] = table[k]
  /\ Idle(k) => cache[k] = table[k]
  /\ Idle(k) => \A w \in writes : ~w.answered => table[k] = w.set[k]
  /\ \A p \in promised : Idle(k) /\ table[k] = p[k]

SettingInv ==
  /\ requests \in Nat
  /\ crossed \subseteq Keys
  /\ writes \subseteq Write
  /\ OneToAnswer
  /\ \A k \in Keys \ crossed : KeyOK(k)

LEMMA SettingInit == Init => SettingInv
BY DEF Init, SettingInv, OneToAnswer, KeyOK, Idle

LEMMA EnterKeeps ==
  ASSUME SettingInv, NEW p \in Asked, NEW parts \in SUBSET (SUBSET Keys), Enter(p, parts),
         \A k \in Keys : \E ks \in parts : k \in ks,
         \A ks, ls \in parts : ks \cap ls # {} => ks = ls
  PROVE  SettingInv'
<1> DEFINE part(ks) == [req |-> requests + 1, keys |-> ks, set |-> p, at |-> "table",
                        answered |-> FALSE]
           new == {part(ks) : ks \in parts}
<1>1. /\ writes' = writes \cup new /\ crossed' = crossed \cup Contested /\ promised' = {}
      /\ requests' = requests + 1 /\ UNCHANGED <<table, cache>>
  BY DEF Enter
<1>2. new \subseteq Write
  <2>1. ASSUME NEW ks \in parts PROVE part(ks) \in Write
    BY DEF Write, SettingInv
  <2> HIDE DEF part
  <2>2. QED
    BY <2>1
<1>3. /\ \A w \in new : w.req = requests + 1 /\ w.set = p /\ w.at = "table" /\ ~w.answered
                         /\ w.keys \in parts
      /\ \A v, w \in new : v.keys = w.keys => v = w
      /\ \A ks \in parts : \E w \in new : w.keys = ks
  <2>1. \A ks \in parts : /\ part(ks).req = requests + 1 /\ part(ks).set = p
                          /\ part(ks).at = "table" /\ ~part(ks).answered
                          /\ part(ks).keys = ks
    OBVIOUS
  <2>2. \A w \in new : \E ks \in parts : w = part(ks)
    OBVIOUS
  <2>3. \A ks \in parts : part(ks) \in new
    OBVIOUS
  <2> HIDE DEF part, new
  <2>4. \A w \in new : w = part(w.keys) /\ w.keys \in parts
    BY <2>1, <2>2
  <2>5. QED
    BY <2>1, <2>3, <2>4
<1> HIDE DEF part, new
<1>4. Contested \subseteq Keys
  BY DEF Contested, SettingInv, Write
<1>5. (\E w \in writes : ~w.answered) => crossed' = Keys
  BY <1>1, <1>4 DEF Contested, SettingInv
<1>6. (\A w \in writes : w.answered) => \A w \in writes : w.keys \subseteq crossed'
  BY <1>1 DEF Contested
<1>7. OneToAnswer'
  BY <1>1, <1>3, <1>5, <1>6 DEF OneToAnswer
<1>8. ASSUME NEW k \in Keys \ crossed' PROVE KeyOK(k)'
  <2>1. k \notin crossed /\ KeyOK(k)
    BY <1>1 DEF SettingInv
  <2>2. Idle(k)
    BY <1>5, <1>6 DEF Idle
  <2>3. PICK w \in new : k \in w.keys
    BY <1>3
  <2>4. \A v \in writes' : k \in v.keys => v = w
    BY <1>1, <1>3, <2>2, <2>3 DEF Idle
  <2>5. cache[k] = table[k]
    BY <2>1, <2>2 DEF KeyOK
  <2>6. QED
    BY <1>1, <1>3, <2>3, <2>4, <2>5 DEF KeyOK, Idle
<1>9. QED
  BY <1>1, <1>2, <1>4, <1>7, <1>8 DEF SettingInv

LEMMA WriteTableKeeps ==
  ASSUME SettingInv, NEW w \in writes, WriteTable(w) PROVE SettingInv'
<1> DEFINE u == [w EXCEPT !.at = "cache"]
<1>1. w \in Write
  BY DEF SettingInv
<1>2. /\ u \in Write /\ u.at = "cache" /\ u.keys = w.keys /\ u.set = w.set
      /\ u.req = w.req /\ u.answered = w.answered
  BY <1>1 DEF Write
<1>3. /\ writes' = (writes \ {w}) \cup {u} /\ w.at = "table"
      /\ table' = Applied(table, w) /\ UNCHANGED <<cache, crossed, promised, requests>>
  BY DEF WriteTable
<1> HIDE DEF u
<1>4. OneToAnswer'
  BY <1>2, <1>3 DEF OneToAnswer, SettingInv
<1>5. ASSUME NEW k \in Keys \ crossed PROVE KeyOK(k)'
  <2>1. KeyOK(k)
    BY DEF SettingInv
  <2>2. table'[k] = IF k \in w.keys THEN w.set[k] ELSE table[k]
    BY <1>3 DEF Applied
  <2>3. Idle(k)' <=> Idle(k)
    BY <1>2, <1>3 DEF Idle
  <2>4. CASE k \in w.keys
    <3>1. \A v \in writes' : k \in v.keys => v = u
      BY <1>2, <1>3, <2>1, <2>4 DEF KeyOK
    <3>2. ~Idle(k)
      BY <2>4 DEF Idle
    <3>3. promised = {}
      BY <2>1, <3>2 DEF KeyOK
    <3>4. QED
      BY <1>2, <1>3, <2>2, <2>3, <2>4, <3>1, <3>2, <3>3 DEF KeyOK
  <2>5. CASE k \notin w.keys
    <3>1. table'[k] = table[k]
      BY <2>2, <2>5
    <3>2. \A v \in writes' : v = u \/ v \in writes
      BY <1>3
    <3>3. QED
      BY <1>2, <1>3, <2>1, <2>3, <2>5, <3>1, <3>2 DEF KeyOK
  <2>6. QED
    BY <2>4, <2>5
<1>6. QED
  BY <1>2, <1>3, <1>4, <1>5 DEF SettingInv

LEMMA WriteFailsKeeps ==
  ASSUME SettingInv, NEW w \in writes, WriteFails(w) PROVE SettingInv'
<1> DEFINE mark(v) == IF v.req = w.req THEN [v EXCEPT !.answered = TRUE] ELSE v
<1>1. \A v \in writes : v \in Write
  BY DEF SettingInv
<1>2. \A v \in Write : /\ mark(v) \in Write /\ mark(v).at = v.at /\ mark(v).keys = v.keys
                       /\ mark(v).set = v.set /\ mark(v).req = v.req
                       /\ mark(v).answered = (v.answered \/ v.req = w.req)
  BY DEF Write
<1>3. /\ writes' = {mark(v) : v \in writes \ {w}} /\ w.at = "table"
      /\ UNCHANGED <<table, cache, crossed, promised, requests>>
  BY DEF WriteFails
<1>4. \A x \in writes' : \E v \in writes \ {w} : x = mark(v)
  BY <1>3
<1>5. \A v \in writes \ {w} : mark(v) \in writes'
  BY <1>3
<1> HIDE DEF mark
<1>6. writes' \subseteq Write
  BY <1>1, <1>2, <1>4
<1>7. ASSUME crossed # Keys, NEW x \in writes', ~x.answered
      PROVE  /\ \E v \in writes \ {w} : x = mark(v) /\ x.set = v.set /\ ~v.answered
             /\ w.answered
  <2>1. PICK v \in writes \ {w} : x = mark(v)
    BY <1>4
  <2>2. ~v.answered /\ v.req # w.req /\ x.set = v.set
    BY <1>1, <1>2, <1>7, <2>1
  <2>3. w.answered
    BY <1>7, <2>2 DEF OneToAnswer, SettingInv
  <2>4. QED
    BY <2>1, <2>2, <2>3
<1>8. OneToAnswer'
  <2> SUFFICES ASSUME crossed # Keys, NEW x \in writes', NEW y \in writes', ~x.answered
               PROVE  IF y.answered THEN y.keys \subseteq crossed
                      ELSE y.req = x.req /\ y.set = x.set
    BY <1>3 DEF OneToAnswer
  <2>1. PICK v \in writes \ {w} : x = mark(v)
    BY <1>4
  <2>2. PICK z \in writes \ {w} : y = mark(z)
    BY <1>4
  <2>3. ~v.answered /\ v.req # w.req /\ x.req = v.req /\ x.set = v.set
    BY <1>1, <1>2, <2>1
  <2>4. y.keys = z.keys /\ y.req = z.req /\ y.set = z.set
        /\ y.answered = (z.answered \/ z.req = w.req)
    BY <1>1, <1>2, <2>2
  <2>5. IF z.answered THEN z.keys \subseteq crossed ELSE z.req = v.req /\ z.set = v.set
    BY <2>3 DEF OneToAnswer, SettingInv
  <2>6. QED
    BY <2>3, <2>4, <2>5
<1>9. ASSUME NEW k \in Keys \ crossed PROVE KeyOK(k)'
  <2>1. KeyOK(k) /\ crossed # Keys
    BY DEF SettingInv
  <2>2. \A x, y \in writes' : k \in x.keys /\ k \in y.keys => x = y
    <3>1. SUFFICES ASSUME NEW x \in writes', NEW y \in writes', k \in x.keys, k \in y.keys
                   PROVE  x = y
      OBVIOUS
    <3>2. PICK v \in writes \ {w} : x = mark(v)
      BY <1>4
    <3>3. PICK z \in writes \ {w} : y = mark(z)
      BY <1>4
    <3>4. k \in v.keys /\ k \in z.keys
      BY <1>1, <1>2, <3>1, <3>2, <3>3
    <3>5. QED
      BY <2>1, <3>2, <3>3, <3>4 DEF KeyOK
  <2>3. \A x \in writes' : k \in x.keys =>
           IF x.at = "cache" THEN table[k] = x.set[k] ELSE cache[k] = table[k]
    <3>1. SUFFICES ASSUME NEW x \in writes', k \in x.keys
                   PROVE  IF x.at = "cache" THEN table[k] = x.set[k] ELSE cache[k] = table[k]
      OBVIOUS
    <3>2. PICK v \in writes \ {w} : x = mark(v)
      BY <1>4
    <3>3. k \in v.keys /\ x.at = v.at /\ x.set = v.set
      BY <1>1, <1>2, <3>1, <3>2
    <3>4. QED
      BY <2>1, <3>3 DEF KeyOK
  <2>4. Idle(k) => Idle(k)'
    BY <1>1, <1>2, <1>4 DEF Idle
  <2>5. Idle(k)' => Idle(k) \/ k \in w.keys
    BY <1>1, <1>2, <1>5 DEF Idle
  <2>6. Idle(k)' => cache[k] = table[k]
    BY <1>3, <2>1, <2>5 DEF KeyOK
  <2>7. ASSUME Idle(k)', NEW x \in writes', ~x.answered PROVE table[k] = x.set[k]
    <3>1. w.answered
      BY <1>7, <2>1, <2>7
    <3>2. PICK v \in writes \ {w} : x.set = v.set /\ ~v.answered
      BY <1>7, <2>1, <2>7
    <3>3. k \notin w.keys
      BY <2>1, <3>1, <3>2 DEF OneToAnswer, SettingInv
    <3>4. QED
      BY <2>1, <2>5, <2>7, <3>2, <3>3 DEF KeyOK
  <2>8. QED
    BY <1>3, <2>1, <2>2, <2>3, <2>4, <2>6, <2>7 DEF KeyOK
<1>10. QED
  BY <1>3, <1>6, <1>8, <1>9 DEF SettingInv

LEMMA WriteCacheKeeps ==
  ASSUME SettingInv, NEW w \in writes, WriteCache(w) PROVE SettingInv'
<1> DEFINE last == ~w.answered /\ \A v \in writes \ {w} : v.req # w.req
<1>1. /\ writes' = writes \ {w} /\ w.at = "cache" /\ cache' = Applied(cache, w)
      /\ promised' = IF last THEN {w.set} ELSE promised
      /\ UNCHANGED <<table, crossed, requests>>
  BY DEF WriteCache
<1>2. OneToAnswer'
  BY <1>1 DEF OneToAnswer, SettingInv
<1>3. ASSUME NEW k \in Keys \ crossed PROVE KeyOK(k)'
  <2>1. KeyOK(k) /\ OneToAnswer /\ crossed # Keys
    BY DEF SettingInv
  <2>2. cache'[k] = IF k \in w.keys THEN w.set[k] ELSE cache[k]
    BY <1>1 DEF Applied
  <2>3. k \in w.keys => table[k] = w.set[k] /\ cache'[k] = table[k] /\ Idle(k)'
    BY <1>1, <2>1, <2>2 DEF KeyOK, Idle
  <2>4. k \notin w.keys => cache'[k] = cache[k] /\ (Idle(k)' <=> Idle(k))
    BY <1>1, <2>2 DEF Idle
  <2>5. ASSUME k \in w.keys, NEW v \in writes', ~v.answered PROVE table[k] = v.set[k]
    <3>1. ~w.answered /\ v.set = w.set
      BY <1>1, <2>1, <2>5 DEF OneToAnswer
    <3>2. QED
      BY <2>3, <2>5, <3>1
  <2>6. ASSUME last PROVE Idle(k)' /\ table[k] = w.set[k]
    <3>1. \A v \in writes' : v.answered
      BY <1>1, <2>1, <2>6 DEF OneToAnswer
    <3>2. \A v \in writes' : k \notin v.keys
      BY <1>1, <2>1, <2>6, <3>1 DEF OneToAnswer
    <3>3. Idle(k)'
      BY <3>2 DEF Idle
    <3>4. QED
      BY <2>1, <2>3, <2>4, <2>6, <3>3 DEF KeyOK
  <2> HIDE DEF last
  <2>7. \A p \in promised' : Idle(k)' /\ table[k] = p[k]
    <3>1. CASE last
      BY <1>1, <2>6, <3>1
    <3>2. CASE ~last
      <4>1. promised' = promised
        BY <1>1, <3>2
      <4>2. promised # {} => k \notin w.keys
        BY <2>1 DEF KeyOK, Idle
      <4>3. QED
        BY <2>1, <2>4, <4>1, <4>2 DEF KeyOK
    <3>3. QED
      BY <3>1, <3>2
  <2>8. \A v \in writes' : k \in v.keys => k \notin w.keys
    BY <1>1, <2>1 DEF KeyOK
  <2>9. CASE k \in w.keys
    BY <1>1, <2>1, <2>3, <2>5, <2>7, <2>8, <2>9 DEF KeyOK
  <2>10. CASE k \notin w.keys
    BY <1>1, <2>1, <2>4, <2>7, <2>10 DEF KeyOK
  <2>11. QED
    BY <2>9, <2>10
<1>4. QED
  BY <1>1, <1>2, <1>3 DEF SettingInv

LEMMA SettingKept == ASSUME SettingInv, SettingsStep PROVE SettingInv'
<1>1. ASSUME NEW p \in Policies, SetRetention(p) PROVE SettingInv'
  <2>1. AsSetting(p) \in Asked
    BY DEF Asked
  <2> DEFINE parts == {{k} : k \in Keys}
  <2>2. /\ parts \in SUBSET (SUBSET Keys)
        /\ \A k \in Keys : \E ks \in parts : k \in ks
        /\ \A ks, ls \in parts : ks \cap ls # {} => ks = ls
    OBVIOUS
  <2>3. Enter(AsSetting(p), parts)
    BY <1>1 DEF SetRetention
  <2> HIDE DEF parts
  <2>4. QED
    BY <2>1, <2>2, <2>3, EnterKeeps
<1>2. CASE ClearRetention
  BY <1>2, EnterKeeps DEF ClearRetention, Asked
<1>3. QED
  BY <1>1, <1>2, WriteTableKeeps, WriteFailsKeeps, WriteCacheKeeps DEF SettingsStep

LEMMA SettingNext == SettingInv /\ [Next]_vars => SettingInv'
<1> SUFFICES ASSUME SettingInv, [Next]_vars PROVE SettingInv'
  OBVIOUS
<1>1. CASE SettingsStep
  BY <1>1, SettingKept
<1>2. ASSUME UNCHANGED settingVars PROVE SettingInv'
  BY <1>2 DEF SettingInv, OneToAnswer, KeyOK, Idle, settingVars
<1>3. ASSUME Boot PROVE SettingInv'
  BY <1>3 DEF Boot, SettingInv, OneToAnswer, KeyOK, Idle
<1>4. ASSUME NEW s \in Sessions, RecorderStep(s) PROVE SettingInv'
  BY <1>2, <1>3, <1>4 DEF RecorderStep, Start, RegisterRdp, GuacdCreates, GuacdWrites,
     HashFails, InsertRow, InsertRowFails,
     WriteOutput, Drain, Kill, End, Flushed, RowFound, Hashed, Finalise, FinaliseFails,
     WriteAfterEnd, settingVars
<1>5. CASE SweepStep
  BY <1>2, <1>5 DEF SweepStep, SweepStarts, SweepLists, Unlink, UnlinkFails, DeleteRow,
     DeleteFails, settingVars
<1>6. QED
  BY <1>1, <1>2, <1>3, <1>4, <1>5 DEF Next, PinReads, PinWrites, Crash, Tick, vars, settingVars

\* Where requests do not meet, the sweep reads the retention the next start will
\* load once no write is under way, whichever half of a request failed, and a policy
\* answered with success is in table and cache, value and unit, until the next
\* request (set, setRecordingRetention, clearRecordingRetention).
THEOREM SettingsDurableAlways == Spec => []SettingsDurable
<1>1. SettingInv => SettingsDurable
  BY DEF SettingInv, KeyOK, Idle, SettingsDurable
<1>2. QED
  BY SettingInit, SettingNext, <1>1, PTL DEF Spec
=============================================================================
