----------------------------- MODULE Recordings -----------------------------
(***************************************************************************)
(* Session recordings from their first byte to their removal: the recorder *)
(* (terminal/recording/session-recorder.service.ts), the hourly sweep      *)
(* (recording-cleanup.service.ts), the pins (recording.controller.ts) and  *)
(* the retention settings (settings/settings.service.ts) the sweep reads.  *)
(*                                                                         *)
(* One Node process: an action is the code between two awaits.  SSH        *)
(* sessions are written by the process itself through a buffered stream,   *)
(* RDP sessions by guacd, and only registered and finalised here: guacd    *)
(* creates the file or not, and writes on until it has seen the end of its *)
(* connection.  What a file holds is the number of its chunks, the header  *)
(* being the first, and a digest is the content it was taken of.           *)
(***************************************************************************)
EXTENDS Integers, FiniteSets

CONSTANTS
    Sessions,     \* recorded sessions, numbered as they start
    Archived,     \* those recorded before the process started
    Admins,       \* administrators who pin and unpin
    Policies,     \* the retention policies <<value, unit>> administrators set
    UnitLength,   \* UNIT_TO_MS, in steps of the model's clock
    BatchSize,    \* BATCH_SIZE (200)
    MaxChunks,    \* bound: chunks of a recording
    MaxTime,      \* bound: the clock
    MaxFaults,    \* bound: crashes, refusals of the database or the file system
    MaxRequests   \* bound: requests that change the retention

ASSUME SessionsAssumption == Sessions \subseteq Nat
ASSUME ArchivedAssumption == Archived \subseteq Sessions
ASSUME BatchSizeAssumption == BatchSize \in Nat \ {0}
ASSUME MaxChunksAssumption == MaxChunks \in Nat \ {0}
ASSUME MaxTimeAssumption == MaxTime \in Nat
ASSUME MaxFaultsAssumption == MaxFaults \in Nat
ASSUME MaxRequestsAssumption == MaxRequests \in Nat
ASSUME UnitAssumption == UnitLength \in [DOMAIN UnitLength -> Nat \ {0}]
ASSUME PolicyAssumption == Policies \subseteq (Nat \ {0}) \X DOMAIN UnitLength

VARIABLES
    now,       \* the clock
    rdp,       \* sessions recorded by guacd, the others being SSH (never changes)
    life,      \* how far start, end or finalizeRdp of each session has come
    active,    \* SessionRecorderService.active
    written,   \* chunks given to each stream
    file,      \* chunks in each file; None: never created, Unlinked: removed
    digest,    \* the hash end() or finalizeRdp is about to store
    rows,      \* sessions with a session_recording row
    endedAt,   \* columns of the row; None for NULL
    sha256,
    pinned,    \* rows with pinned = true
    pinnedAt,  \* when each pin was set, as the audit log has it; else None
    pinning,   \* togglePin of each administrator: what it has read
    stage,     \* the sweep
    sweptAt,   \* when it began
    cutoff,    \* its constants
    spared,
    batch,     \* candidates it has still to delete
    table,     \* global_setting: the two retention keys
    cache,     \* SettingsService.cache
    writes,    \* calls of set and clearRecordingRetention in progress
    requests,  \* requests that changed the retention so far
    crossed,   \* keys on which two requests met (history, for SettingsDurable)
    promised,  \* the policy last answered with success, if none came since (history)
    faults     \* crashes and refusals so far

None == -1
Unlinked == -2
NoPolicy == [value |-> 0, unit |-> "none"]
Keys == DOMAIN NoPolicy

fileVars == <<active, written, file, digest>>
rowVars == <<rows, endedAt, sha256>>
pinVars == <<pinned, pinnedAt, pinning>>
sweepVars == <<stage, sweptAt, cutoff, spared, batch>>
settingVars == <<table, cache, writes, requests, crossed, promised>>
vars == <<now, rdp, life, fileVars, rowVars, pinVars, sweepVars, settingVars, faults>>

Lives == {"new", "starting", "running", "flush", "find", "hash", "update", "over"}

TypeOK ==
    /\ now \in Nat
    /\ rdp \subseteq Sessions /\ rows \subseteq Sessions /\ pinned \subseteq Sessions
    /\ active \subseteq Sessions /\ batch \subseteq Sessions
    /\ life \in [Sessions -> Lives]
    /\ written \in [Sessions -> 0..MaxChunks]
    /\ file \in [Sessions -> {None, Unlinked} \cup 0..MaxChunks]
    /\ digest \in [Sessions -> Int] /\ sha256 \in [Sessions -> Int]
    /\ endedAt \in [Sessions -> Int] /\ pinnedAt \in [Sessions -> Int]
    /\ pinning \in [Admins -> [of : SUBSET Sessions, was : BOOLEAN]]
    /\ stage \in {"idle", "list", "unlink", "delete"}
    /\ sweptAt \in Nat

AsSetting(p) == [value |-> p[1], unit |-> p[2]]

HasFile(s) == file[s] \in 0..MaxChunks

Initially(old, new) == [s \in Sessions |-> IF s \in Archived THEN old ELSE new]

Init ==
    /\ now = 0
    /\ rdp \in SUBSET (Sessions \ Archived)
    /\ life = Initially("over", "new")
    /\ active = {}
    /\ written = [s \in Sessions |-> 0]
    /\ file = Initially(MaxChunks, None)
    /\ digest = [s \in Sessions |-> None]
    /\ rows = Archived
    /\ endedAt = Initially(0, None)
    /\ sha256 = Initially(MaxChunks, None)
    /\ pinned = {}
    /\ pinnedAt = [s \in Sessions |-> None]
    /\ pinning = [a \in Admins |-> [of |-> {}, was |-> FALSE]]
    /\ stage = "idle"
    /\ sweptAt = 0
    /\ cutoff = 0
    /\ spared = {}
    /\ batch = {}
    /\ table \in {AsSetting(p) : p \in Policies}
    /\ cache = table
    /\ writes = {}
    /\ requests = 0
    /\ crossed = {}
    /\ promised = {}
    /\ faults = 0

\* The sweep returns; its constants go with it.
EndSweep ==
    /\ stage' = "idle"
    /\ batch' = {}
    /\ sweptAt' = 0
    /\ cutoff' = 0
    /\ spared' = {}

\* Sessions start in the order of their numbers.
InTurn(s) == \A r \in Sessions : r < s => life[r] # "new"

Fault ==
    /\ faults < MaxFaults
    /\ faults' = faults + 1

Become(s, from, to) ==
    /\ life[s] \in from
    /\ life' = [life EXCEPT ![s] = to]

-----------------------------------------------------------------------------
(* SSH: start, writeOutput and end *)

\* The stream is opened and the header written; the insertion of the row is
\* awaited.
Start(s) ==
    /\ s \notin rdp
    /\ InTurn(s)
    /\ Become(s, {"new"}, "starting")
    /\ active' = active \cup {s}
    /\ file' = [file EXCEPT ![s] = 0]
    /\ written' = [written EXCEPT ![s] = 1]
    /\ UNCHANGED <<now, rdp, digest, rowVars, pinVars, sweepVars, settingVars, faults>>

InsertRow(s) ==
    /\ Become(s, {"starting"}, "running")
    /\ rows' = rows \cup {s}
    /\ UNCHANGED <<now, rdp, fileVars, endedAt, sha256, pinVars, sweepVars, settingVars, faults>>

\* The caller reports a failed session; an SSH recording stays in the map.
InsertRowFails(s) ==
    /\ Fault
    /\ Become(s, {"starting"}, IF s \in rdp THEN "over" ELSE "running")
    /\ UNCHANGED <<now, rdp, fileVars, rowVars, pinVars, sweepVars, settingVars>>

\* The stream writes what it has buffered, in order.
Drain(s) ==
    /\ s \in active
    /\ file[s] < written[s]
    /\ file' = [file EXCEPT ![s] = @ + 1]
    /\ UNCHANGED <<now, rdp, life, active, written, digest, rowVars, pinVars,
                   sweepVars, settingVars, faults>>

\* Output of the remote host.
WriteOutput(s) ==
    /\ s \in active
    /\ life[s] = "running"
    /\ written[s] < MaxChunks
    /\ written' = [written EXCEPT ![s] = @ + 1]
    /\ UNCHANGED <<now, rdp, life, active, file, digest, rowVars, pinVars,
                   sweepVars, settingVars, faults>>

\* A lost permission: the gateway drops the session without calling end.
Kill(s) ==
    /\ Become(s, {"running"}, "over")
    /\ UNCHANGED <<now, rdp, active, written, file, digest, rowVars, pinVars,
                   sweepVars, settingVars, faults>>

\* end(), or the look-up of the row by finalizeRdp, is called.
End(s) ==
    /\ Become(s, {"running"}, IF s \in rdp THEN "find" ELSE "flush")
    /\ UNCHANGED <<now, rdp, fileVars, rowVars, pinVars, sweepVars, settingVars, faults>>

\* Mutant: end() does not wait for the stream.
FlushedNotAwaited(s) ==
    /\ Become(s, {"flush"}, "hash")
    /\ active' = active
    /\ UNCHANGED <<now, rdp, written, file, digest, rowVars, pinVars,
                   sweepVars, settingVars, faults>>

\* The stream has finished: the file holds all that was written.
Flushed(s) ==
    /\ Become(s, {"flush"}, "hash")
    /\ file[s] = written[s]
    /\ active' = active \ {s}
    /\ written' = [written EXCEPT ![s] = 0]
    /\ UNCHANGED <<now, rdp, file, digest, rowVars, pinVars,
                   sweepVars, settingVars, faults>>

-----------------------------------------------------------------------------
(* RDP: registerRdp and finalizeRdp *)

\* The row is awaited; the file is guacd's.
RegisterRdp(s) ==
    /\ s \in rdp
    /\ InTurn(s)
    /\ Become(s, {"new"}, "starting")
    /\ UNCHANGED <<now, rdp, fileVars, rowVars, pinVars, sweepVars, settingVars, faults>>

\* guacd creates the file while the session is there, if it can.
GuacdCreates(s) ==
    /\ s \in rdp
    /\ life[s] \notin {"new", "over"}
    /\ file[s] = None
    /\ file' = [file EXCEPT ![s] = 0]
    /\ UNCHANGED <<now, rdp, life, active, written, digest, rowVars, pinVars, sweepVars,
                   settingVars, faults>>

\* guacd writes what it draws and buffers: also while finalizeRdp hashes the
\* file, for its socket is destroyed after that, and when the backend has died.
GuacdWrites(s) ==
    /\ s \in rdp
    /\ HasFile(s)
    /\ file[s] < MaxChunks
    /\ file' = [file EXCEPT ![s] = @ + 1]
    /\ UNCHANGED <<now, rdp, life, active, written, digest, rowVars, pinVars, sweepVars,
                   settingVars, faults>>

\* finalizeRdp has its row; without one it returns.
RowFound(s) ==
    /\ Become(s, {"find"}, IF s \in rows THEN "hash" ELSE "over")
    /\ UNCHANGED <<now, rdp, fileVars, rowVars, pinVars, sweepVars, settingVars, faults>>

-----------------------------------------------------------------------------
(* The common end: hash the file, complete the row *)

\* Without a file, finalizeRdp goes on with no hash.
Hashed(s) ==
    /\ Become(s, {"hash"}, "update")
    /\ digest' = [digest EXCEPT ![s] = IF HasFile(s) THEN file[s] ELSE None]
    /\ UNCHANGED <<now, rdp, active, written, file, rowVars, pinVars,
                   sweepVars, settingVars, faults>>

\* The file cannot be read: finalizeRdp goes on with no hash, end() gives up.
HashFails(s) ==
    /\ Fault
    /\ Become(s, {"hash"}, IF s \in rdp THEN "update" ELSE "over")
    /\ UNCHANGED <<now, rdp, fileVars, rowVars, pinVars, sweepVars, settingVars>>

Finalise(s) ==
    /\ Become(s, {"update"}, "over")
    /\ s \in rows
    /\ endedAt' = [endedAt EXCEPT ![s] = now]
    /\ sha256' = [sha256 EXCEPT ![s] = digest[s]]
    /\ digest' = [digest EXCEPT ![s] = None]
    /\ UNCHANGED <<now, rdp, active, written, file, rows, pinVars,
                   sweepVars, settingVars, faults>>

\* The update is refused, for want of a row or of a database: logged only.
FinaliseFails(s) ==
    /\ Fault
    /\ Become(s, {"update"}, "over")
    /\ digest' = [digest EXCEPT ![s] = None]
    /\ UNCHANGED <<now, rdp, active, written, file, rowVars, pinVars,
                   sweepVars, settingVars>>

-----------------------------------------------------------------------------
(* Restarts *)

\* What is in memory is lost, what is on disk and in the database stays;
\* onModuleInit loads the settings.
Boot ==
    /\ life' = [s \in Sessions |-> IF life[s] = "new" THEN "new" ELSE "over"]
    /\ active' = {}
    /\ written' = [s \in Sessions |-> 0]
    /\ digest' = [s \in Sessions |-> None]
    /\ pinning' = [a \in Admins |-> [of |-> {}, was |-> FALSE]]
    /\ EndSweep
    /\ cache' = table
    /\ writes' = {}
    /\ crossed' = {}
    /\ promised' = IF crossed = {} THEN promised ELSE {}
    /\ UNCHANGED <<now, rdp, file, rowVars, pinned, pinnedAt, table, requests>>

Crash == Fault /\ Boot

\* Output that arrives while end() awaits the stream is written to a stream
\* that has ended; no listener takes the error, and the process dies of it.
WriteAfterEnd(s) ==
    /\ s \in active
    /\ life[s] = "flush"
    /\ Boot
    /\ UNCHANGED faults

-----------------------------------------------------------------------------
(* Retention settings *)

\* The keys a request that comes now may meet others on: all, if one is still
\* to be answered, else those of writes whose request has failed.
Contested ==
    IF \E w \in writes : ~w.answered THEN Keys ELSE UNION {w.keys : w \in writes}

\* A request sends its writes together.
Enter(p, parts) ==
    /\ requests < MaxRequests
    /\ requests' = requests + 1
    /\ writes' = writes \cup
          {[req |-> requests + 1, keys |-> ks, set |-> p, at |-> "table",
            answered |-> FALSE] : ks \in parts}
    /\ crossed' = crossed \cup Contested
    /\ promised' = {}
    /\ UNCHANGED <<now, rdp, life, fileVars, rowVars, pinVars, sweepVars, table, cache,
                   faults>>

\* Two upserts, each followed by its key of the cache.
SetRetention(p) == Enter(AsSetting(p), {{k} : k \in Keys})

\* One deletion of both keys.
ClearRetention == Enter(NoPolicy, {Keys})

Applied(setting, w) == [k \in Keys |-> IF k \in w.keys THEN w.set[k] ELSE setting[k]]

\* Mutant: the cache is written first.
CacheFirst(w) ==
    /\ w \in writes
    /\ w.at = "table"
    /\ cache' = Applied(cache, w)
    /\ \/ table' = Applied(table, w)
       \/ UNCHANGED table
    /\ writes' = writes \ {w}
    /\ UNCHANGED <<now, rdp, life, fileVars, rowVars, pinVars, sweepVars, requests, crossed,
                   promised, faults>>

WriteTable(w) ==
    /\ w \in writes
    /\ w.at = "table"
    /\ table' = Applied(table, w)
    /\ writes' = (writes \ {w}) \cup {[w EXCEPT !.at = "cache"]}
    /\ UNCHANGED <<now, rdp, life, fileVars, rowVars, pinVars, sweepVars, cache, requests,
                   crossed, promised, faults>>

\* The database refuses: the request is answered with the error, and the other
\* upsert, if it is still under way, goes on unattended.
WriteFails(w) ==
    /\ Fault
    /\ w \in writes
    /\ w.at = "table"
    /\ writes' = {IF v.req = w.req THEN [v EXCEPT !.answered = TRUE] ELSE v :
                     v \in writes \ {w}}
    /\ UNCHANGED <<now, rdp, life, fileVars, rowVars, pinVars, sweepVars, table, cache,
                   requests, crossed, promised>>

\* The last write of a request: it is answered with success.
WriteCache(w) ==
    /\ w \in writes
    /\ w.at = "cache"
    /\ cache' = Applied(cache, w)
    /\ writes' = writes \ {w}
    /\ promised' = IF ~w.answered /\ (\A v \in writes \ {w} : v.req # w.req)
                   THEN {w.set} ELSE promised
    /\ UNCHANGED <<now, rdp, life, fileVars, rowVars, pinVars, sweepVars, table, requests,
                   crossed, faults>>

\* getRecordingRetentionMs; 0 if none is configured.
Retention ==
    IF cache.value = 0 \/ cache.unit = "none" THEN 0
    ELSE cache.value * UnitLength[cache.unit]

-----------------------------------------------------------------------------
(* Pins *)

\* list: the page offers the recordings that have ended.
Listed == {s \in rows : endedAt[s] # None}

PinReads(a, s) ==
    /\ pinning[a].of = {}
    /\ s \in Listed
    /\ pinning' = [pinning EXCEPT ![a] = [of |-> {s}, was |-> s \in pinned]]
    /\ UNCHANGED <<now, rdp, life, fileVars, rowVars, pinned, pinnedAt, sweepVars,
                   settingVars, faults>>

\* The row gets the opposite of what was read.
Toggled(there, was) ==
    /\ pinned' = IF was THEN pinned \ there ELSE pinned \cup there
    /\ pinnedAt' = [s \in Sessions |->
          IF s \in there THEN (IF was THEN None ELSE now) ELSE pinnedAt[s]]

\* A row that is gone is an error.
PinWrites(a) ==
    /\ pinning[a].of # {}
    /\ Toggled(pinning[a].of \cap rows, pinning[a].was)
    /\ pinning' = [pinning EXCEPT ![a] = [of |-> {}, was |-> FALSE]]
    /\ UNCHANGED <<now, rdp, life, fileVars, rowVars, sweepVars, settingVars, faults>>

-----------------------------------------------------------------------------
(* The sweep *)

SweepStarts ==
    /\ stage = "idle"
    /\ Retention # 0
    /\ stage' = "list"
    /\ sweptAt' = now
    /\ cutoff' = now - Retention
    /\ spared' = active
    /\ UNCHANGED <<now, rdp, life, fileVars, rowVars, pinVars, batch, settingVars, faults>>

Expired(s) == endedAt[s] # None /\ endedAt[s] < cutoff

\* Mutant: the pins are not looked at.
CandidatesOfAll == {s \in rows \ spared : Expired(s)}
Candidates == {s \in rows \ (pinned \cup spared) : Expired(s)}

\* The oldest BatchSize candidates.
Lists(chosen) ==
    /\ Cardinality(chosen) = BatchSize
          \/ (chosen = Candidates /\ Cardinality(chosen) < BatchSize)
    /\ \A s \in chosen, r \in Candidates \ chosen : s < r

SweepLists ==
    /\ stage = "list"
    /\ \/ Candidates = {} /\ EndSweep
       \/ /\ Candidates # {}
          /\ batch' \in SUBSET Candidates
          /\ Lists(batch')
          /\ stage' = "unlink"
          /\ UNCHANGED <<sweptAt, cutoff, spared>>
    /\ UNCHANGED <<now, rdp, life, fileVars, rowVars, pinVars, settingVars, faults>>

IsNext(s) == s \in batch /\ \A r \in batch : s <= r

\* The next of the batch, or the end of the loop.
Proceed(s) ==
    IF batch = {s} THEN EndSweep
    ELSE /\ batch' = batch \ {s}
         /\ stage' = "unlink"
         /\ UNCHANGED <<sweptAt, cutoff, spared>>

\* Mutant: a missing file is an error as any other.
UnlinkNeedsFile(s) ==
    /\ stage = "unlink"
    /\ IsNext(s)
    /\ HasFile(s)
    /\ file' = [file EXCEPT ![s] = Unlinked]
    /\ stage' = "delete"
    /\ UNCHANGED <<now, rdp, life, active, written, digest, rowVars, pinVars, batch,
                   sweptAt, cutoff, spared, settingVars, faults>>

\* The file is unlinked; that there is none is tolerated.
Unlink(s) ==
    /\ stage = "unlink"
    /\ IsNext(s)
    /\ file' = [file EXCEPT ![s] = IF HasFile(s) THEN Unlinked ELSE @]
    /\ stage' = "delete"
    /\ UNCHANGED <<now, rdp, life, active, written, digest, rowVars, pinVars, batch,
                   sweptAt, cutoff, spared, settingVars, faults>>

\* The unlinking or the deletion is refused: logged, and on with the next.
UnlinkFails(s) ==
    /\ Fault
    /\ stage = "unlink"
    /\ IsNext(s)
    /\ HasFile(s)
    /\ Proceed(s)
    /\ UNCHANGED <<now, rdp, life, fileVars, rowVars, pinVars, settingVars>>

DeleteFails(s) ==
    /\ Fault
    /\ stage = "delete"
    /\ IsNext(s)
    /\ Proceed(s)
    /\ UNCHANGED <<now, rdp, life, fileVars, rowVars, pinVars, settingVars>>

\* Columns of a row that is gone are None.
DeleteRow(s) ==
    /\ stage = "delete"
    /\ IsNext(s)
    /\ Proceed(s)
    /\ rows' = rows \ {s}
    /\ pinned' = pinned \ {s}
    /\ endedAt' = [endedAt EXCEPT ![s] = None]
    /\ sha256' = [sha256 EXCEPT ![s] = None]
    /\ pinnedAt' = [pinnedAt EXCEPT ![s] = None]
    /\ UNCHANGED <<now, rdp, life, fileVars, pinning, settingVars, faults>>

-----------------------------------------------------------------------------
Tick ==
    /\ now < MaxTime
    /\ now' = now + 1
    /\ UNCHANGED <<rdp, life, fileVars, rowVars, pinVars, sweepVars, settingVars, faults>>

RecorderStep(s) ==
    \/ Start(s) \/ RegisterRdp(s) \/ InsertRow(s) \/ InsertRowFails(s)
    \/ WriteOutput(s) \/ Drain(s) \/ Kill(s) \/ End(s) \/ Flushed(s)
    \/ GuacdCreates(s) \/ GuacdWrites(s) \/ RowFound(s)
    \/ Hashed(s) \/ HashFails(s) \/ Finalise(s) \/ FinaliseFails(s) \/ WriteAfterEnd(s)

SettingsStep ==
    \/ \E p \in Policies : SetRetention(p)
    \/ ClearRetention
    \/ \E w \in writes : WriteTable(w) \/ WriteFails(w) \/ WriteCache(w)

SweepStep ==
    \/ SweepStarts
    \/ SweepLists
    \/ \E s \in Sessions : Unlink(s) \/ UnlinkFails(s) \/ DeleteRow(s) \/ DeleteFails(s)

Next ==
    \/ \E s \in Sessions : RecorderStep(s)
    \/ \E a \in Admins, s \in Sessions : PinReads(a, s)
    \/ \E a \in Admins : PinWrites(a)
    \/ SettingsStep
    \/ SweepStep
    \/ Crash
    \/ Tick

Spec == Init /\ [][Next]_vars

\* The cron fires every hour and its promises settle.
FairSpec == Spec /\ WF_vars(SweepStep)

-----------------------------------------------------------------------------
(* Properties *)

\* The recordings implement RecordingArchive: whatever arrives while end() awaits
\* the stream or the hash, and whenever the process dies or a sweep runs, a stored
\* sha256 of an SSH session is that of its file as it stays, that of an RDP session
\* is of what guacd had written by then or none, and only a finalised recording
\* loses its file.
PhaseOf(s) ==
    CASE file[s] = None -> "none"
      [] file[s] = Unlinked -> "removed"
      [] HasFile(s) -> IF endedAt[s] = None THEN "open" ELSE "sealed"
Archive == INSTANCE RecordingArchive WITH
    MaxSize <- MaxChunks,
    foreign <- rdp,
    phase <- [s \in Sessions |-> PhaseOf(s)],
    content <- [s \in Sessions |-> IF HasFile(s) THEN file[s] ELSE 0],
    digest <- [s \in Sessions |-> IF HasFile(s) THEN sha256[s] ELSE None]
ImplementsArchive == Archive!Spec

\* The sweep that deletes the row of a pinned recording had begun before the pin
\* was set (sweep, togglePin): a pin holds against every later sweep.
PinsOutlastSweeps ==
    [][\A s \in (rows \ rows') \cap pinned : pinnedAt[s] >= sweptAt]_vars

\* Where requests do not meet on a key, the cache the sweep reads is the table the
\* next start will load once no write of the key is under way, whichever half of a
\* request failed; and a policy answered with success is, value and unit, in both
\* until the next request, whenever the process dies (set, clearRecordingRetention).
SettingsDurable ==
    \A k \in Keys \ crossed :
        /\ (\A w \in writes : k \notin w.keys) => cache[k] = table[k]
        /\ \A p \in promised : table[k] = p[k] /\ cache[k] = p[k]

\* No recording stays for ever expired and unpinned under a retention policy,
\* whatever unlinks and deletions fail on the way (sweep).
Due(s) ==
    /\ s \in rows \ pinned
    /\ Retention # 0
    /\ endedAt[s] # None /\ endedAt[s] < now - Retention
ExpiredGo == \A s \in Sessions : []<>~Due(s)
=============================================================================
