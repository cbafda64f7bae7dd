---------------------------- MODULE ClientProofs ----------------------------
(***************************************************************************)
(* Proofs about Client: the guards of the pages, and the pages themselves. *)
(***************************************************************************)
EXTENDS Client, ListLemmas

USE DEF shellVars, workspaceVars, castVars, guacVars, consoleVars

-----------------------------------------------------------------------------
(* What a step of the shell does to the pages                              *)

\* A change of user or route leaves the pages alone as long as the same one is
\* shown, else it closes what was open and brings up the page shown by then.
LEMMA BecomesMoves ==
    ASSUME NEW u, NEW l, NEW r, NEW rest, Becomes(u, l, r, rest)
    PROVE  /\ user' = u /\ loading' = l /\ route' = Settled(u, l, r)
           /\ Here' = Here => UNCHANGED <<workspaceVars, castVars, guacVars, consoleVars>>
           /\ Here' # Here => Unmounted /\ Mounted(Here')
<1>1. Here' = Shown(u, l, Settled(u, l, r))
    BY DEF Becomes, Here, Shown
<1> QED
    BY <1>1 DEF Becomes

\* Each step is one of the shell, which redirects where it must, or of a page.
LEMMA Moves ==
    ASSUME [ClientNext]_vars
    PROVE  \/ /\ \E u, l, r : user' = u /\ loading' = l /\ route' = Settled(u, l, r)
              /\ Here' = Here => UNCHANGED <<workspaceVars, castVars, guacVars, consoleVars>>
              /\ Here' # Here => Unmounted /\ Mounted(Here')
           \/ UNCHANGED vars
           \/ UNCHANGED <<user, loading, route, workspaceVars, castVars, guacVars, consoleVars>>
           \/ WorkspaceStep \/ CastStep \/ GuacStep \/ ConsoleStep
<1>1. CASE ShellNext
    <2>1. ASSUME NEW op, Calls(op)
          PROVE  UNCHANGED <<user, loading, route, workspaceVars, castVars, guacVars, consoleVars>>
        BY <2>1 DEF Calls
    <2>2. CASE SubmitLogin \/ SubmitSudo \/ Logout \/ ProfileSaved
        BY <2>1, <2>2 DEF SubmitLogin, SubmitSudo, Logout, ProfileSaved
    <2>3. ASSUME NEW u, NEW l, NEW r, NEW rest, Becomes(u, l, r, rest)
          PROVE  /\ \E v, m, s : user' = v /\ loading' = m /\ route' = Settled(v, m, s)
                 /\ Here' = Here => UNCHANGED <<workspaceVars, castVars, guacVars, consoleVars>>
                 /\ Here' # Here => Unmounted /\ Mounted(Here')
        BY <2>3, BecomesMoves
    <2>4. CASE ~(SubmitLogin \/ SubmitSudo \/ Logout \/ ProfileSaved)
        BY <1>1, <2>3, <2>4
        DEF ShellNext, Navigate, Reload, MeAnswered, LoginAnswered, LoginRefused, SudoAnswered,
            LogoutAnswered, CallFails, CallUnauthorized, Unauthorized
    <2> QED
        BY <2>2, <2>4
<1> QED
    BY <1>1 DEF ClientNext

-----------------------------------------------------------------------------
(* The guards of the pages                                                 *)

Redirected == route = Settled(user, loading, route)
PageOf(here) == IF here \in ConsolePages THEN here ELSE "none"

\* What is mounted is what the guards show.
GuardInv ==
    /\ Redirected
    /\ page = PageOf(Here)
    /\ groups # <<>> => Here = "session"
    /\ phase # "absent" \/ guacStatus # "absent" => Here \in {"history", "recordings"}

LEMMA SettledTwice ==
    ASSUME NEW u, NEW l, NEW r
    PROVE  Settled(u, l, Settled(u, l, r)) = Settled(u, l, r)
BY DEF Settled, AdminRoutes, ConsolePages

LEMMA GuardInvNext == GuardInv /\ [ClientNext]_vars => GuardInv'
<1> SUFFICES ASSUME GuardInv, [ClientNext]_vars PROVE GuardInv'
    OBVIOUS
<1>h. UNCHANGED <<user, loading, route>> => Here' = Here
    BY DEF Here, Shown
<1>r. UNCHANGED <<user, loading, route>> => Redirected'
    BY DEF GuardInv, Redirected
<1>1. ASSUME NEW u, NEW l, NEW r, user' = u, loading' = l, route' = Settled(u, l, r),
             Here' = Here => UNCHANGED <<workspaceVars, castVars, guacVars, consoleVars>>,
             Here' # Here => Unmounted /\ Mounted(Here')
      PROVE  GuardInv'
    <2>1. Redirected'
        BY <1>1, SettledTwice DEF Redirected
    <2>2. CASE Here' = Here
        BY <1>1, <2>1, <2>2 DEF GuardInv, PageOf
    <2>3. CASE Here' # Here
        <3>1. groups' = <<>> /\ phase' = "absent" /\ guacStatus' = "absent"
            BY <1>1, <2>3
            DEF Unmounted, Workspace!LeavePage, Workspace!Render, Cast!CloseCast, Guac!CloseGuac
        <3>2. page' = PageOf(Here')
            BY <1>1, <2>3 DEF Mounted, PageOf, Console!ShowPage
        <3> QED
            BY <2>1, <3>1, <3>2 DEF GuardInv, PageOf
    <2> QED
        BY <2>2, <2>3
<1>2. CASE UNCHANGED <<user, loading, route, workspaceVars, castVars, guacVars, consoleVars>>
    BY <1>2, <1>h, <1>r DEF GuardInv, PageOf
<1>3. CASE UNCHANGED vars
    BY <1>3, <1>2 DEF vars
<1>4. CASE WorkspaceStep
    <2>1. /\ Here = "session" /\ UNCHANGED <<user, loading, page, phase, guacStatus>>
          /\ route' = route \/ (route' = "dashboard" /\ groups' = <<>>)
        BY <1>4 DEF WorkspaceStep
    <2>3. CASE route' = route
        BY <2>1, <2>3, <1>h, <1>r DEF GuardInv, PageOf
    <2>4. CASE route' = "dashboard" /\ groups' = <<>>
        <3>1. Redirected' /\ Here' = "dashboard"
            BY <2>1, <2>4 DEF GuardInv, Redirected, Here, Shown, Settled, AdminRoutes, ConsolePages
        <3> QED
            BY <2>1, <2>4, <3>1 DEF GuardInv, PageOf, ConsolePages
    <2> QED
        BY <2>1, <2>3, <2>4
<1>5. CASE CastStep
    <2>1. /\ UNCHANGED <<user, loading, route, page, groups, guacStatus>>
          /\ phase = "absent" => Here \in {"history", "recordings"}
        BY <1>5 DEF CastStep, Selectable
    <2> QED
        BY <2>1, <1>h, <1>r DEF GuardInv, PageOf
<1>6. CASE GuacStep
    <2>1. /\ UNCHANGED <<user, loading, route, page, groups, phase>>
          /\ guacStatus = "absent" => Here \in {"history", "recordings"}
        BY <1>6 DEF GuacStep, Selectable
    <2> QED
        BY <2>1, <1>h, <1>r DEF GuardInv, PageOf
<1>7. CASE ConsoleStep
    BY <1>7, <1>h, <1>r DEF ConsoleStep, GuardInv, PageOf
<1> QED
    BY <1>1, <1>2, <1>3, <1>4, <1>5, <1>6, <1>7, Moves

\* Whatever answers arrive in whatever order: nothing of a page outlives the
\* right to see it.
THEOREM PagesGuardedHolds == ClientSpec => []PagesGuarded
<1>1. ClientInit => GuardInv
    BY DEF ClientInit, GuardInv, Redirected, Settled, Here, Shown, PageOf, ConsolePages, AdminRoutes,
           Workspace!WorkspaceInit, Cast!CastInit, Guac!GuacInit, Console!ConsoleInit
<1>2. GuardInv => PagesGuarded
    <2> SUFFICES ASSUME GuardInv PROVE PagesGuarded
        OBVIOUS
    <2>1. ASSUME Here \in ConsolePages PROVE user = "SUDO" /\ route = Here
        BY <2>1 DEF Here, Shown, AdminRoutes, ConsolePages
    <2>2. ASSUME Here = "session" PROVE user # "none" /\ route = "session"
        BY <2>2 DEF GuardInv, Redirected, Settled, Here, Shown
    <2>3. ASSUME Here = "history" PROVE user # "none" /\ route = "history"
        BY <2>3 DEF GuardInv, Redirected, Settled, Here, Shown
    <2>4. ASSUME Here = "recordings" PROVE user = "SUDO" /\ route = "recordings"
        BY <2>4 DEF Here, Shown, AdminRoutes
    <2> QED
        BY <2>1, <2>2, <2>3, <2>4 DEF GuardInv, PagesGuarded, PageOf
<1> QED
    BY <1>1, <1>2, GuardInvNext, PTL DEF ClientSpec

-----------------------------------------------------------------------------
(* The player of desktop recordings                                        *)

FrameAt(n) == Guac!Sooner((n - 2) * Frame, GuacLength)

PlayingInv == guacPlaying \in BOOLEAN /\ (guacPlaying <=> loop # <<>>)

\* The frame an export waits for is where its seek goes, and where it has got
\* to once there is none.
ExportInv ==
    /\ exporting \in Nat
    /\ exporting > 0 => loop = <<>>
    /\ exporting > 1 /\ seeking = <<>> => picture = FrameAt(exporting)
    /\ exporting > 1 /\ seeking # <<>> => seeking[1] = FrameAt(exporting)

\* What a step of the client does to a component is a step of the component.
LEMMA GuacMoves ==
    ASSUME [ClientNext]_vars
    PROVE  UNCHANGED guacVars \/ Guac!GuacNext
<1>1. CASE Unmounted
    BY <1>1 DEF Unmounted, Guac!GuacNext
<1>2. CASE GuacStep
    BY <1>2 DEF GuacStep, Guac!GuacNext
<1> QED
    BY <1>1, <1>2, Moves DEF vars, WorkspaceStep, CastStep, ConsoleStep

LEMMA PlayingInvNext == PlayingInv /\ [ClientNext]_vars => PlayingInv'
<1> SUFFICES ASSUME PlayingInv, [ClientNext]_vars PROVE PlayingInv'
    OBVIOUS
<1> USE DEF PlayingInv
<1>1. CASE UNCHANGED <<loop, guacPlaying>> \/ Guac!StopPlayback \/ \E from : Guac!StartPlayback(from)
    <2>1. CASE UNCHANGED <<loop, guacPlaying>>
        BY <2>1, Zenon
    <2>2. CASE Guac!StopPlayback
        BY <2>2, Zenon DEF Guac!StopPlayback
    <2>3. ASSUME NEW from, Guac!StartPlayback(from) PROVE PlayingInv'
        <3>1. loop' # <<>>
            BY <2>3 DEF Guac!StartPlayback
        <3> QED
            BY <2>3, <3>1, Zenon DEF Guac!StartPlayback
    <2> QED
        BY <1>1, <2>1, <2>2, <2>3
<1>2. CASE Guac!LoopTick
    BY <1>1, <1>2, Zenon DEF Guac!LoopTick
<1>3. CASE Guac!GuacClock
    BY <1>3 DEF Guac!GuacClock
<1>4. CASE Guac!ExportNext
    BY <1>1, <1>4, Zenon DEF Guac!ExportNext
<1>5. CASE Guac!CloseGuac
    BY <1>5 DEF Guac!CloseGuac
<1>6. ASSUME NEW target, Guac!SeekToSec(target) PROVE PlayingInv'
    BY <1>1, <1>6, Zenon DEF Guac!SeekToSec
<1>7. CASE Guac!GuacSeekBar \/ Guac!GuacSeekBack \/ Guac!GuacSeekForward
    BY <1>6, <1>7, Zenon DEF Guac!GuacSeekBar, Guac!GuacSeekBack, Guac!GuacSeekForward
<1>8. CASE Guac!OpenGuac \/ Guac!StartExporting \/ Guac!ExportFails
    BY <1>1, <1>8, Zenon DEF Guac!OpenGuac, Guac!StartExporting, Guac!ExportFails
<1>9. CASE Guac!GuacPlayPause \/ Guac!GuacRestart \/ Guac!GuacSpeedCycle
    BY <1>1, <1>9, Zenon DEF Guac!GuacPlayPause, Guac!GuacRestart, Guac!GuacSpeedCycle
<1>10. ASSUME NEW ok, Guac!GuacLoaded(ok) PROVE PlayingInv'
    BY <1>1, <1>10, Zenon DEF Guac!GuacLoaded
<1>11. ASSUME NEW millis, Guac!OnSeek(millis) PROVE PlayingInv'
    BY <1>1, <1>11, Zenon DEF Guac!OnSeek
<1>14. CASE Guac!SeekDone
    BY <1>1, <1>14, Zenon DEF Guac!SeekDone
<1>12. CASE UNCHANGED guacVars
    BY <1>1, <1>12
<1> HIDE DEF PlayingInv
<1>13. CASE Guac!GuacNext
    BY <1>2, <1>3, <1>4, <1>5, <1>7, <1>8, <1>9, <1>10, <1>11, <1>13, <1>14 DEF Guac!GuacNext
<1> QED
    BY <1>12, <1>13, GuacMoves

LEMMA ExportInvNext == ExportInv /\ [ClientNext]_vars => ExportInv'
<1> SUFFICES ASSUME ExportInv, [ClientNext]_vars PROVE ExportInv'
    OBVIOUS
<1> USE DEF ExportInv
<1>1. CASE UNCHANGED <<loop, picture, seeking, exporting>>
    BY <1>1 DEF FrameAt, Guac!Sooner
<1>2. CASE Guac!CloseGuac \/ Guac!ExportFails
    BY <1>2 DEF Guac!CloseGuac, Guac!ExportFails
\* With the controls there, nothing is exported.
<1>3. CASE exporting = 0 /\ (exporting' = exporting \/ (exporting' = 1 /\ loop' = <<>>))
    BY <1>3
<1>4. ASSUME NEW target, Guac!SeekToSec(target) PROVE ExportInv'
    BY <1>3, <1>4 DEF Guac!SeekToSec, Guac!Controls
<1>5. CASE Guac!GuacSeekBar \/ Guac!GuacSeekBack \/ Guac!GuacSeekForward
    BY <1>4, <1>5 DEF Guac!GuacSeekBar, Guac!GuacSeekBack, Guac!GuacSeekForward
<1>6. CASE \/ Guac!GuacPlayPause \/ Guac!GuacRestart \/ Guac!GuacSpeedCycle
          \/ Guac!StartExporting
    BY <1>3, <1>6
    DEF Guac!GuacPlayPause, Guac!GuacRestart, Guac!GuacSpeedCycle, Guac!StartExporting,
        Guac!Controls, Guac!StopPlayback
\* The interval runs only where nothing is exported.
<1>7. CASE Guac!LoopTick \/ Guac!GuacClock
    BY <1>3, <1>7 DEF Guac!LoopTick, Guac!GuacClock
<1>8. ASSUME NEW millis, Guac!OnSeek(millis) PROVE ExportInv'
    BY <1>1, <1>8 DEF Guac!OnSeek
<1>11. CASE Guac!SeekDone
    BY <1>11 DEF Guac!SeekDone
<1>9. CASE Guac!ExportNext
    <2>1. CASE exporting <= Guac!Frames
        <3>1. exporting' = exporting + 1 /\ loop' = loop
            BY <1>9, <2>1 DEF Guac!ExportNext
        <3>0. seeking' = <<Guac!Sooner((exporting - 1) * Frame, GuacLength)>>
            BY <1>9, <2>1, Zenon DEF Guac!ExportNext, Guac!SeekRecording
        <3>2. seeking' # <<>> /\ seeking'[1] = Guac!Sooner((exporting - 1) * Frame, GuacLength)
            BY <3>0
        <3>3. (exporting + 1) - 2 = exporting - 1
            OBVIOUS
        <3>4. seeking'[1] = FrameAt(exporting + 1)
            BY <3>2, <3>3, Zenon DEF FrameAt
        <3> QED
            BY <1>9, <3>1, <3>2, <3>4 DEF Guac!ExportNext
    <2>2. CASE ~(exporting <= Guac!Frames)
        BY <1>9, <2>2 DEF Guac!ExportNext
    <2> QED
        BY <2>1, <2>2
<1>10. CASE Guac!OpenGuac \/ \E ok \in BOOLEAN : Guac!GuacLoaded(ok)
    BY <1>1, <1>10 DEF Guac!OpenGuac, Guac!GuacLoaded
<1> QED
    BY <1>1, <1>2, <1>5, <1>6, <1>7, <1>8, <1>9, <1>10, <1>11, GuacMoves DEF Guac!GuacNext

\* Of a recording of any length, with any speeds: the interval runs exactly
\* while the player says it plays, and an export gets the frames it asks for.
THEOREM OneDriverHolds == ClientSpec => []OneDriver
<1>1. ClientInit => PlayingInv
    BY Zenon DEF ClientInit, Guac!GuacInit, PlayingInv
<1>3. ClientInit => ExportInv
    BY DEF ClientInit, Guac!GuacInit, ExportInv
<1>2. PlayingInv /\ ExportInv => OneDriver
    BY DEF PlayingInv, ExportInv, OneDriver, Guac!OneDriver, FrameAt
<1> QED
    BY <1>1, <1>2, <1>3, PlayingInvNext, ExportInvNext, PTL DEF ClientSpec

-----------------------------------------------------------------------------
(* The forms of the administration                                         *)

EntityIds == Users \cup UserGroups \cup Machines \cup MachineGroups \cup Providers
Pages == {"none"} \cup ConsolePages

\* A request that touches what it was read from, and no identity that is not
\* the application's own.
HomeRequests ==
    {r \in [op : {"save", "member", "delete", "probe", "list", "grant", "withdraw", "toggle"},
            kind : Console!Kinds \cup {"permissions"},
            target : EntityIds \cup {None}, origin : EntityIds \cup {None},
            identity : BOOLEAN] :
        /\ r.op \in {"save", "member"} /\ r.kind # "machine" /\ r.target # None
             => r.origin = r.target
        /\ r.op = "save" /\ r.kind = "user" /\ r.target \in ExternalUsers => r.identity = FALSE}

\* Whatever is edited is what the open dialog shows, and whether the user
\* edited is external is known.
EditingInv ==
    /\ page \in Pages /\ tab \in Console!Kinds
    /\ editing \in EntityIds \cup {None}
    /\ forms \in [Console!Kinds -> EntityIds \cup {None}]
    /\ selected \in EntityIds \cup {None} /\ listed \in EntityIds \cup {None}
    /\ actionBusy \in EntityIds \cup {None}
    /\ dialog \in Console!Kinds \ {"machine"} /\ editing # None => forms[dialog] = editing
    /\ dialog = "user" /\ editing \in ExternalUsers => editingAuth = "EXTERNAL"

PendingInv == pending \in Seq(HomeRequests)

LEMMA ConsoleMoves ==
    ASSUME [ClientNext]_vars
    PROVE  \/ UNCHANGED consoleVars
           \/ \E p \in Pages : Console!ShowPage(p)
           \/ Console!ConsoleNext
<1>1. CASE Mounted(Here')
    BY <1>1 DEF Mounted, Pages
<1> QED
    BY <1>1, Moves DEF vars, WorkspaceStep, CastStep, GuacStep, ConsoleStep

LEMMA RemoveKeeps ==
    ASSUME NEW S, NEW s \in Seq(S), NEW i \in DOMAIN s
    PROVE  Console!RemoveAt(s, i) \in Seq(S)
<1>1. i \in 1 .. Len(s) /\ Len(s) \in Nat
    OBVIOUS
<1>2. SubSeq(s, 1, i - 1) \in Seq(S)
    BY <1>1
<1>3. SubSeq(s, i + 1, Len(s)) \in Seq(S)
    BY <1>1
<1> QED
    BY <1>2, <1>3 DEF Console!RemoveAt

LEMMA EditingInvNext == EditingInv /\ PendingInv /\ [ClientNext]_vars => EditingInv'
<1> SUFFICES ASSUME EditingInv, PendingInv, [ClientNext]_vars PROVE EditingInv'
    OBVIOUS
<1> USE DEF EditingInv
<1>e. ASSUME NEW k \in Console!Kinds PROVE Console!Entities(k) \subseteq EntityIds
    BY <1>e DEF Console!Kinds, Console!Entities, EntityIds
<1>1. CASE UNCHANGED consoleVars
    BY <1>1
<1>2. ASSUME NEW p \in Pages, Console!ShowPage(p) PROVE EditingInv'
    BY <1>2, ConsoleAssumption DEF Console!ShowPage, Console!Kinds
<1>3. ASSUME NEW kind \in Console!Kinds, Console!SwitchTab(kind) PROVE EditingInv'
    BY <1>3 DEF Console!SwitchTab, Console!Uncovered, Console!formVars, Console!guardVars,
                Console!dialogVars
<1>4. CASE Console!OpenNew
    BY <1>4, ConsoleAssumption
    DEF Console!OpenNew, Console!Uncovered, Console!guardVars, Console!dialogVars
<1>5. ASSUME NEW id, Console!OpenEdit(id) PROVE EditingInv'
    <2>1. id \in EntityIds
        BY <1>5, <1>e DEF Console!OpenEdit
    <2> QED
        BY <1>5, <2>1 DEF Console!OpenEdit, Console!guardVars, Console!dialogVars
\* What leaves alone what is edited keeps the invariant.
<1>6. ASSUME UNCHANGED <<page, tab, editing, editingAuth, forms, listed>>,
             dialog' \in {dialog, "none", "permissions", "confirm"},
             selected' \in EntityIds \cup {None}, actionBusy' \in EntityIds \cup {None}
      PROVE  EditingInv'
    BY <1>6 DEF Console!Kinds
<1>7. CASE Console!CloseDialog \/ Console!Submit \/ Console!ChangeMember
    BY <1>6, <1>7
    DEF Console!CloseDialog, Console!Submit, Console!ChangeMember, Console!formVars,
        Console!guardVars, Console!dialogVars
<1>8. CASE Console!Probe \/ Console!ChangePermission \/ Console!ConfirmDelete
    BY <1>6, <1>8
    DEF Console!Probe, Console!ChangePermission, Console!ConfirmDelete, Console!formVars,
        Console!guardVars, Console!dialogVars
<1>9. ASSUME NEW id \in UNION {Console!Entities(k) : k \in Console!Kinds},
             \/ Console!DeleteUserOrGroup(id) \/ Console!DeleteMachineOrGroup(id)
             \/ Console!OpenPermissions(id) \/ Console!Toggle(id) \/ Console!AskDelete(id)
      PROVE  EditingInv'
    <2>1. id \in EntityIds
        BY <1>9, <1>e
    <2> QED
        BY <1>6, <1>9, <2>1
        DEF Console!DeleteUserOrGroup, Console!DeleteMachineOrGroup, Console!OpenPermissions,
            Console!Toggle, Console!AskDelete, Console!formVars, Console!guardVars,
            Console!dialogVars
<1>10. ASSUME NEW kind \in Console!Kinds, Console!Saved(kind),
              UNCHANGED <<page, tab, selected, listed>>, actionBusy' \in EntityIds \cup {None}
       PROVE  EditingInv'
    BY <1>10, ConsoleAssumption DEF Console!Saved
<1>11. ASSUME NEW i, NEW ok, Console!Answered(i, ok) PROVE EditingInv'
    <2>1. pending[i] \in HomeRequests /\ pending[i].kind \in Console!Kinds
        BY <1>11 DEF Console!Answered, PendingInv, HomeRequests
    <2>2. CASE pending[i].op = "save" /\ ok
        <3>1. Console!Saved(pending[i].kind) /\ UNCHANGED <<page, tab, selected, listed, actionBusy>>
            BY <1>11, <2>2 DEF Console!Answered, Console!dialogVars
        <3> QED
            BY <1>10, <2>1, <3>1
    <2>3. CASE pending[i].op = "probe"
        <3>1. /\ forms' = [forms EXCEPT !["machine"] = pending[i].origin] \/ forms' = forms
              /\ UNCHANGED <<page, tab, dialog, editing, editingAuth, selected, listed, actionBusy>>
            BY <1>11, <2>3 DEF Console!Answered, Console!dialogVars
        <3>2. pending[i].origin \in EntityIds \cup {None}
            BY <2>1 DEF HomeRequests
        <3> QED
            BY <3>1, <3>2 DEF Console!Kinds
    <2>4. CASE ~(pending[i].op = "save" /\ ok) /\ pending[i].op # "probe"
        <3>1. UNCHANGED <<page, tab, dialog, editing, editingAuth, forms, selected, listed, actionBusy>>
            BY <1>11, <2>4 DEF Console!Answered, Console!formVars, Console!dialogVars
        <3> QED
            BY <3>1, <1>6
    <2> QED
        BY <2>2, <2>3, <2>4
<1>12. ASSUME NEW i, NEW ok, Console!PermissionsAnswered(i, ok) PROVE EditingInv'
    <2>1. pending[i] \in HomeRequests
        BY <1>12 DEF Console!PermissionsAnswered, PendingInv
    <2>2. /\ UNCHANGED <<page, tab, dialog, editing, editingAuth, forms, selected, actionBusy>>
          /\ listed' \in {pending[i].target, listed}
        BY <1>12
        DEF Console!PermissionsAnswered, Console!formVars, Console!guardVars
    <2> QED
        BY <2>1, <2>2 DEF HomeRequests
<1>13. ASSUME NEW i, NEW ok, Console!ProviderAnswered(i, ok) PROVE EditingInv'
    <2>1. UNCHANGED <<page, tab, selected, listed>> /\ actionBusy' \in {actionBusy, None}
        BY <1>13 DEF Console!ProviderAnswered, Console!dialogVars
    <2>2. CASE pending[i].op = "save" /\ ok
        <3>1. Console!Saved("provider")
            BY <1>13, <2>2 DEF Console!ProviderAnswered
        <3> QED
            BY <1>10, <2>1, <3>1 DEF Console!Kinds
    <2>3. CASE ~(pending[i].op = "save" /\ ok)
        <3>1. UNCHANGED <<editing, editingAuth, forms>> /\ dialog' \in {dialog, "none"}
            BY <1>13, <2>3 DEF Console!ProviderAnswered, Console!formVars
        <3> QED
            BY <1>6, <2>1, <3>1
    <2> QED
        BY <2>2, <2>3
<1>14. CASE Console!ConsoleNext
    BY <1>2, <1>3, <1>4, <1>5, <1>7, <1>8, <1>9, <1>11, <1>12, <1>13, <1>14
    DEF Console!ConsoleNext, Pages, ConsolePages
<1> QED
    BY <1>1, <1>2, <1>14, ConsoleMoves

LEMMA RequestHome ==
    ASSUME NEW op \in {"save", "member", "delete", "probe", "list", "grant", "withdraw", "toggle"},
           NEW kind \in Console!Kinds \cup {"permissions"},
           NEW target \in EntityIds \cup {None}, NEW origin \in EntityIds \cup {None},
           op \in {"save", "member"} /\ kind # "machine" /\ target # None => origin = target
    PROVE  Console!Request(op, kind, target, origin) \in HomeRequests
BY DEF Console!Request, HomeRequests

LEMMA PendingInvNext == EditingInv /\ PendingInv /\ [ClientNext]_vars => PendingInv'
<1> SUFFICES ASSUME EditingInv, PendingInv, [ClientNext]_vars PROVE PendingInv'
    OBVIOUS
<1> USE DEF PendingInv
<1>e. ASSUME NEW id \in UNION {Console!Entities(k) : k \in Console!Kinds} PROVE id \in EntityIds
    BY <1>e DEF Console!Kinds, Console!Entities, EntityIds
<1>1. CASE UNCHANGED pending
    BY <1>1
<1>2. ASSUME NEW r \in HomeRequests, Console!Sends(r) PROVE PendingInv'
    BY <1>2 DEF Console!Sends
<1>3. ASSUME NEW i \in DOMAIN pending, pending' = Console!RemoveAt(pending, i) PROVE PendingInv'
    BY <1>3, RemoveKeeps
<1>4. ASSUME NEW i \in DOMAIN pending, NEW r \in HomeRequests, pending' = [pending EXCEPT ![i] = r]
      PROVE  PendingInv'
    BY <1>4
<1>5. ASSUME NEW p \in Pages, Console!ShowPage(p) PROVE PendingInv'
    <2>1. Console!Request("list", "provider", None, None) \in HomeRequests
        BY RequestHome DEF Console!Kinds
    <2> QED
        BY <1>5, <2>1 DEF Console!ShowPage
<1>6. CASE Console!Submit
    <2> DEFINE r == [Console!Request("save", dialog, editing, forms[dialog]) EXCEPT
                       !.identity = ~(dialog = "user" /\ editing # None /\ editingAuth = "EXTERNAL")]
    <2>1. dialog \in Console!Kinds /\ Console!Sends(r)
        BY <1>6 DEF Console!Submit
    <2>2. editing \in EntityIds \cup {None} /\ forms[dialog] \in EntityIds \cup {None}
        BY <2>1 DEF EditingInv
    <2>3. dialog # "machine" /\ editing # None => forms[dialog] = editing
        BY <2>1 DEF EditingInv
    <2>4. Console!Request("save", dialog, editing, forms[dialog]) \in
            [op : {"save"}, kind : {dialog}, target : {editing}, origin : {forms[dialog]},
             identity : BOOLEAN]
        BY DEF Console!Request
    <2>5. r.identity \in BOOLEAN
        BY DEF Console!Request
    <2>6. /\ r.op = "save" /\ r.kind = dialog /\ r.target = editing /\ r.origin = forms[dialog]
          /\ r \in [op : {"save"}, kind : {dialog}, target : {editing}, origin : {forms[dialog]},
                    identity : BOOLEAN]
        BY <2>4, <2>5
    <2>7. dialog = "user" /\ editing \in ExternalUsers => r.identity = FALSE
        BY ConsoleAssumption DEF EditingInv, Console!Request
    <2>8. r \in HomeRequests
        BY <2>1, <2>2, <2>3, <2>6, <2>7 DEF HomeRequests
    <2> QED
        BY <1>2, <2>1, <2>8
<1>7. CASE Console!ChangeMember
    <2> DEFINE r == Console!Request("member", dialog, editing, forms[dialog])
    <2>1. Console!Sends(r) /\ dialog \in Console!Kinds \ {"machine"} /\ editing # None
        BY <1>7 DEF Console!ChangeMember, Console!GroupKinds, Console!Kinds
    <2>2. forms[dialog] = editing /\ editing \in EntityIds \cup {None}
        BY <2>1 DEF EditingInv
    <2>3. r \in HomeRequests
        BY <2>1, <2>2, RequestHome
    <2> QED
        BY <1>2, <2>1, <2>3
<1>8. ASSUME NEW id \in UNION {Console!Entities(k) : k \in Console!Kinds},
             \/ Console!DeleteUserOrGroup(id) \/ Console!DeleteMachineOrGroup(id)
             \/ Console!OpenPermissions(id) \/ Console!Toggle(id)
      PROVE  PendingInv'
    <2>1. /\ Console!Request("delete", tab, id, None) \in HomeRequests
          /\ Console!Request("list", "permissions", id, id) \in HomeRequests
          /\ Console!Request("toggle", "provider", id, id) \in HomeRequests
        BY <1>e, RequestHome DEF EditingInv, Console!Kinds
    <2>2. \E r \in HomeRequests : Console!Sends(r)
        BY <1>8, <2>1
        DEF Console!DeleteUserOrGroup, Console!DeleteMachineOrGroup, Console!OpenPermissions,
            Console!Toggle
    <2> QED
        BY <1>2, <2>2
<1>9. CASE Console!Probe \/ Console!ChangePermission \/ Console!ConfirmDelete
    <2>1. /\ Console!Request("probe", "machine", None, forms["machine"]) \in HomeRequests
          /\ Console!Request("grant", "permissions", selected, selected) \in HomeRequests
          /\ Console!Request("withdraw", "permissions", listed, selected) \in HomeRequests
          /\ Console!Request("delete", "provider", selected, selected) \in HomeRequests
        BY RequestHome DEF EditingInv, Console!Kinds
    <2>2. \E r \in HomeRequests : Console!Sends(r)
        BY <1>9, <2>1 DEF Console!Probe, Console!ChangePermission, Console!ConfirmDelete
    <2> QED
        BY <1>2, <2>2
<1>10. CASE \/ \E kind \in Console!Kinds : Console!SwitchTab(kind)
            \/ Console!OpenNew \/ Console!CloseDialog \/ \E id : Console!OpenEdit(id)
            \/ \E id : Console!AskDelete(id)
    BY <1>1, <1>10
    DEF Console!SwitchTab, Console!OpenNew, Console!CloseDialog, Console!OpenEdit,
        Console!AskDelete
<1>11. ASSUME NEW i, NEW ok, Console!Answered(i, ok) PROVE PendingInv'
    BY <1>3, <1>11 DEF Console!Answered
<1>12. ASSUME NEW i, NEW ok, Console!PermissionsAnswered(i, ok) PROVE PendingInv'
    <2>1. i \in DOMAIN pending /\ pending[i] \in HomeRequests
        BY <1>12 DEF Console!PermissionsAnswered
    <2>2. Console!Request("list", "permissions", pending[i].origin, pending[i].origin) \in HomeRequests
        BY <2>1, RequestHome DEF HomeRequests
    <2> QED
        BY <1>3, <1>4, <1>12, <2>1, <2>2 DEF Console!PermissionsAnswered
<1>13. ASSUME NEW i, NEW ok, Console!ProviderAnswered(i, ok) PROVE PendingInv'
    <2>1. i \in DOMAIN pending /\ pending[i] \in HomeRequests
        BY <1>13 DEF Console!ProviderAnswered
    <2>2. pending[i].origin \in EntityIds \cup {None}
        BY <2>1 DEF HomeRequests
    <2>3. ASSUME NEW busy \in EntityIds \cup {None}
          PROVE  Console!Request("list", "provider", None, busy) \in HomeRequests
        BY RequestHome DEF Console!Kinds
    <2> QED
        BY <1>3, <1>4, <1>13, <2>1, <2>2, <2>3 DEF Console!ProviderAnswered
<1>14. CASE Console!ConsoleNext
    BY <1>5, <1>6, <1>7, <1>8, <1>9, <1>10, <1>11, <1>12, <1>13, <1>14
    DEF Console!ConsoleNext, Pages, ConsolePages
<1> QED
    BY <1>1, <1>5, <1>14, ConsoleMoves

\* For any users, groups, machines and providers, and however many requests
\* are answered in whatever order: nothing is saved over something else, and
\* the identity of an external user is never sent.
THEOREM SavesGoHomeHolds == ClientSpec => []SavesGoHome
<1>1. ClientInit => EditingInv /\ PendingInv
    BY ConsoleAssumption
    DEF ClientInit, Console!ConsoleInit, EditingInv, PendingInv, Pages, Console!Kinds
<1>2. PendingInv => SavesGoHome
    <2> SUFFICES ASSUME PendingInv, NEW i \in DOMAIN pending
                 PROVE  LET r == pending[i]
                        IN  /\ (r.op \in {"save", "member"} /\ r.kind # "machine" /\ r.target # None)
                                 => r.origin = r.target
                            /\ (r.op = "save" /\ r.kind = "user" /\ r.target \in ExternalUsers)
                                 => ~r.identity
        BY DEF SavesGoHome, Console!SavesGoHome
    <2>1. pending[i] \in HomeRequests
        BY DEF PendingInv
    <2> QED
        BY <2>1 DEF HomeRequests
<1> QED
    BY <1>1, <1>2, EditingInvNext, PendingInvNext, PTL DEF ClientSpec

-----------------------------------------------------------------------------
(* The workspace                                                           *)

\* What the workspace does is shown at once, or is a report of a pane.
LEMMA WorkspaceMoves ==
    ASSUME [ClientNext]_vars
    PROVE  \/ UNCHANGED workspaceVars
           \/ \E gs, a : Workspace!Render(gs, a)
           \/ \E s \in Sessions, st \in Workspace!Statuses :
                Workspace!TerminalReports(s, st) \/ Workspace!RdpReports(s, st)
<1>1. CASE Unmounted
    BY <1>1 DEF Unmounted, Workspace!LeavePage
<1>2. CASE WorkspaceStep
    <2>1. ASSUME NEW s, NEW id, NEW to, NEW n,
                 \/ Workspace!AddSession(s) \/ Workspace!FocusPane(s) \/ Workspace!OpenPage(id, s)
                 \/ Workspace!CloseSession(id, s) \/ Workspace!SelectSession(id, s)
                 \/ Workspace!MergeInto(id, s, to) \/ Workspace!Reorder(id, s, to)
                 \/ Workspace!DropToZone(id, s, n, to)
                 \/ Workspace!OpenLayoutMenu(id) \/ Workspace!ChangeLayout(n)
                 \/ Workspace!LeavePage
          PROVE  \E gs, a : Workspace!Render(gs, a)
        BY <2>1, Zenon
        DEF Workspace!AddSession, Workspace!FocusPane, Workspace!OpenPage, Workspace!CloseSession,
            Workspace!SelectSession, Workspace!MergeInto, Workspace!Reorder, Workspace!DropToZone,
            Workspace!OpenLayoutMenu, Workspace!ChangeLayout, Workspace!LeavePage
    <2> QED
        BY <1>2, <2>1, Zenon DEF WorkspaceStep, Workspace!WorkspaceNext
<1> QED
    BY <1>1, <1>2, Moves DEF vars, CastStep, GuacStep, ConsoleStep

\* Only the panes of the group shown are mounted, and what the pane of a
\* terminal has reported is on its tab.
PanesInv ==
    /\ pane \in [Sessions -> {"off", "live", "ended"}]
    /\ status \in [Sessions -> Workspace!Statuses]
    /\ \A s \in Sessions : pane[s] # "off" => s \in Workspace!Members(groups, active)
    /\ \A s \in Sessions \ RdpSessions : pane[s] = "ended" => status[s] = "ended"

LEMMA MembersHeld ==
    ASSUME NEW gs, NEW id, NEW s \in Workspace!Members(gs, id)
    PROVE  s \in Workspace!Held(gs)
BY DEF Workspace!Members, Workspace!Held

LEMMA PanesInvNext == PanesInv /\ [ClientNext]_vars => PanesInv'
<1> SUFFICES ASSUME PanesInv, [ClientNext]_vars PROVE PanesInv'
    OBVIOUS
<1> USE DEF PanesInv, Workspace!Statuses
<1>1. CASE UNCHANGED workspaceVars
    BY <1>1 DEF Workspace!Members
<1>2. ASSUME NEW gs, NEW a, Workspace!Render(gs, a) PROVE PanesInv'
    <2>1. /\ groups' = gs /\ active' = a
          /\ pane' = [s \in Sessions |->
               IF s \notin Workspace!Members(gs, a) THEN "off"
               ELSE IF pane[s] = "off" THEN "live" ELSE pane[s]]
        BY <1>2 DEF Workspace!Render
    <2>2. \A s \in Sessions \ RdpSessions :
            s \in Workspace!Held(gs) /\ s \in Workspace!Held(groups) => status'[s] = status[s]
        BY <1>2 DEF Workspace!Render
    <2>3. status' \in [Sessions -> Workspace!Statuses]
        BY <1>2 DEF Workspace!Render
    <2>4. ASSUME NEW s \in Sessions \ RdpSessions, pane'[s] = "ended" PROVE status'[s] = "ended"
        <3>1. s \in Workspace!Members(gs, a) /\ pane[s] = "ended"
            BY <2>1, <2>4
        <3>2. s \in Workspace!Held(gs) /\ s \in Workspace!Held(groups)
            BY <3>1, MembersHeld
        <3> QED
            BY <2>2, <3>1, <3>2
    <2>5. Workspace!Members(groups, active)' = Workspace!Members(gs, a)
        BY <2>1
    <2> QED
        BY <2>1, <2>3, <2>4, <2>5
<1>3. ASSUME NEW s \in Sessions, NEW st \in Workspace!Statuses,
             Workspace!TerminalReports(s, st) \/ Workspace!RdpReports(s, st)
      PROVE  PanesInv'
    <2>0. /\ pane[s] = "live" /\ pane' = [pane EXCEPT ![s] = st]
          /\ status' = [status EXCEPT ![s] = st] \/ status' = status
          /\ groups' = groups /\ active' = active
        BY <1>3
        DEF Workspace!TerminalReports, Workspace!RdpReports, Workspace!ReportTo,
            Workspace!Reportable
    <2>1. s \notin RdpSessions => status' = [status EXCEPT ![s] = st]
        BY <1>3, <2>0
        DEF Workspace!TerminalReports, Workspace!RdpReports, Workspace!ReportTo,
            Workspace!Reportable
    <2>2. Workspace!Members(groups, active)' = Workspace!Members(groups, active)
        BY <2>0
    <2> QED
        BY <2>0, <2>1, <2>2
<1> QED
    BY <1>1, <1>2, <1>3, WorkspaceMoves

\* For any sessions and groups, however tabs are moved between groups while
\* their panes are mounted: the end a terminal reported is on its tab.
THEOREM TerminalReportsKeptHolds == ClientSpec => []TerminalReportsKept
<1>1. ClientInit => PanesInv
    BY DEF ClientInit, Workspace!WorkspaceInit, PanesInv, Workspace!Statuses
<1>2. PanesInv => TerminalReportsKept
    BY DEF PanesInv, TerminalReportsKept, Workspace!TerminalReportsKept
<1> QED
    BY <1>1, <1>2, PanesInvNext, PTL DEF ClientSpec

-----------------------------------------------------------------------------
(* The player of terminal recordings                                       *)

LEMMA CastKept ==
    ASSUME NEW seq, NEW S
    PROVE  Cast!Kept(seq, S) = Kept(seq, S)
BY Zenon DEF Cast!Kept, Kept

Positions == 1 .. Len(Events)

LEMMA PositionsAre ==
    /\ Len(Events) \in Nat /\ DOMAIN Events = Positions
    /\ \A i \in Positions : Events[i].at \in Nat
    /\ \A i, j \in Positions : i <= j => Events[i].at <= Events[j].at
<1>1. Len(Events) \in Nat /\ DOMAIN Events = Positions
    BY CastAssumption DEF Positions
<1>2. \A i \in Positions : Events[i] \in [at : Nat, output : BOOLEAN]
    BY CastAssumption, KeptLen DEF Positions
<1> QED
    BY <1>1, <1>2, CastAssumption

\* The output is a selection of the recording, in its order.
LEMMA OutputsInOrder ==
    /\ Cast!Outputs \in Seq(Positions)
    /\ \A i, j \in 1 .. Len(Cast!Outputs) : i <= j => Cast!Outputs[i] <= Cast!Outputs[j]
<1> DEFINE all == [i \in DOMAIN Events |-> i]
           R == {p \in Positions \X Positions : p[1] < p[2]}
           out == Kept(all, {i \in DOMAIN Events : Events[i].output})
<1>1. all \in Seq(Positions) /\ Len(all) = Len(Events) /\ \A i \in 1 .. Len(Events) : all[i] = i
    BY PositionsAre DEF Positions
<1>2. \A i, j \in 1 .. Len(all) : i < j => <<all[i], all[j]>> \in R
    <2>1. \A i, j \in Positions : i < j => <<i, j>> \in R
        OBVIOUS
    <2> HIDE DEF all, R
    <2> QED
        BY <1>1, <2>1 DEF Positions
<1>3. Cast!Outputs = out
    BY CastKept DEF Cast!Outputs
<1> HIDE DEF all, R, out
<1>4. out \in Seq(Positions) /\ \A i, j \in 1 .. Len(out) : i < j => <<out[i], out[j]>> \in R
    BY <1>1, <1>2, KeptOrder DEF out
<1>5. \A i, j \in 1 .. Len(out) : i < j => out[i] < out[j]
    BY <1>4 DEF R
<1>6. \A i, j \in 1 .. Len(out) : i <= j => out[i] <= out[j]
    BY <1>4, <1>5 DEF Positions
<1> QED
    BY <1>3, <1>4, <1>6

\* A recording cut in two is the recording.
LEMMA Cut ==
    ASSUME NEW A, NEW B, Positions \subseteq A \cup B,
           \A i, j \in Positions : i <= j /\ i \in B => j \notin A
    PROVE  /\ Cast!Kept(Cast!Outputs, A) \in Seq(Positions)
           /\ Cast!Kept(Cast!Outputs, B) \in Seq(Positions)
           /\ Cast!Kept(Cast!Outputs, A) \o Cast!Kept(Cast!Outputs, B) = Cast!Outputs
<1> DEFINE out == Cast!Outputs
<1>1. /\ out \in Seq(Positions) /\ \A i \in 1 .. Len(out) : out[i] \in Positions
      /\ \A i, j \in 1 .. Len(out) : i <= j => out[i] <= out[j]
    BY OutputsInOrder
<1> HIDE DEF out
<1>2. \A i, j \in 1 .. Len(out) : i <= j /\ out[i] \in B => out[j] \notin A
    BY <1>1
<1>3. Kept(out, A) \o Kept(out, B) = Kept(out, A \cup B)
    BY <1>1, <1>2, KeptBoth
<1>4. \A i \in 1 .. Len(out) : out[i] \in A \cup B
    BY <1>1
<1>5. Kept(out, A \cup B) = out
    BY <1>1, <1>4, KeptAll
<1>6. \A i, j \in 1 .. Len(out) : i < j => <<out[i], out[j]>> \in Positions \X Positions
    BY <1>1
<1>7. Kept(out, A) \in Seq(Positions) /\ Kept(out, B) \in Seq(Positions)
    BY <1>1, <1>6, KeptOrder
<1>8. Cast!Kept(out, A) = Kept(out, A) /\ Cast!Kept(out, B) = Kept(out, B)
    BY CastKept
<1> QED
    BY <1>3, <1>5, <1>7, <1>8, Zenon DEF out

LEMMA CutAt ==
    ASSUME NEW t \in Nat
    PROVE  /\ Cast!OutputsBefore(t) \in Seq(Positions) /\ Cast!OutputsFrom(t) \in Seq(Positions)
           /\ Cast!OutputsBefore(t) \o Cast!OutputsFrom(t) = Cast!Outputs
           /\ Cast!OutputsUpTo(t) \in Seq(Positions) /\ Cast!OutputsAfter(t) \in Seq(Positions)
           /\ Cast!OutputsUpTo(t) \o Cast!OutputsAfter(t) = Cast!Outputs
<1> DEFINE before == {i \in DOMAIN Events : Events[i].at < t}
           from == {i \in DOMAIN Events : Events[i].at >= t}
           upTo == {i \in DOMAIN Events : Events[i].at <= t}
           after == {i \in DOMAIN Events : Events[i].at > t}
<1>1. Positions \subseteq before \cup from /\ Positions \subseteq upTo \cup after
    BY PositionsAre
<1>2. \A i, j \in Positions : i <= j /\ i \in from => j \notin before
    BY PositionsAre
<1>3. \A i, j \in Positions : i <= j /\ i \in after => j \notin upTo
    BY PositionsAre
<1>4. /\ Cast!OutputsBefore(t) = Cast!Kept(Cast!Outputs, before)
      /\ Cast!OutputsFrom(t) = Cast!Kept(Cast!Outputs, from)
      /\ Cast!OutputsUpTo(t) = Cast!Kept(Cast!Outputs, upTo)
      /\ Cast!OutputsAfter(t) = Cast!Kept(Cast!Outputs, after)
    BY Zenon DEF Cast!OutputsBefore, Cast!OutputsFrom, Cast!OutputsUpTo, Cast!OutputsAfter
<1> HIDE DEF before, from, upTo, after
<1> QED
    BY <1>1, <1>2, <1>3, <1>4, Cut

\* Times are times.
TimesInv ==
    /\ elapsed \in Nat /\ castSpeed \in 1 .. Len(CastSpeeds)
    /\ run \in Seq([from : Nat, speed : Nat, wall : Nat])

\* What is on the screen is the output up to somewhere; while it plays, the
\* timers hold all that comes after.
ReplayInv ==
    /\ castPlaying \in BOOLEAN /\ screen \in Seq(Positions)
    /\ \E later \in Seq(Positions) :
         /\ screen \o later = Cast!Outputs
         /\ castPlaying = TRUE => timers = Append(later, 0)
         /\ castPlaying = FALSE => timers = <<>>

\* The export's terminal has been given the frames that are behind.
Given(n) == Cast!Kept(Cast!Outputs, {i \in Positions : Cast!FrameOf(i) < n})
ClipInv == frame \in Nat /\ (frame > 0 => clip = Given(frame))

LEMMA CastMoves ==
    ASSUME [ClientNext]_vars
    PROVE  UNCHANGED castVars \/ Cast!CastNext
<1>1. CASE Unmounted
    BY <1>1 DEF Unmounted, Cast!CastNext
<1>2. CASE CastStep
    BY <1>2 DEF CastStep, Cast!CastNext
<1> QED
    BY <1>1, <1>2, Moves DEF vars, WorkspaceStep, GuacStep, ConsoleStep

LEMMA DurationIs == Cast!Duration \in Nat
<1>1. CASE Events = <<>>
    BY <1>1 DEF Cast!Duration
<1>2. CASE Events # <<>>
    <2>1. Len(Events) \in Positions
        BY <1>2, CastAssumption DEF Positions
    <2> QED
        BY <1>2, <2>1, PositionsAre DEF Cast!Duration
<1> QED
    BY <1>1, <1>2

LEMMA RunTyped ==
    ASSUME castSpeed \in 1 .. Len(CastSpeeds), NEW from \in Nat, NEW later, Cast!Started(from, later)
    PROVE  run' \in Seq([from : Nat, speed : Nat, wall : Nat])
<1>1. CastSpeeds[castSpeed] \in Nat
    BY CastAssumption
<1> QED
    BY <1>1 DEF Cast!Started

LEMMA StoppedKeeps ==
    ASSUME Cast!Stopped, screen' \in Seq(Positions),
           \E later \in Seq(Positions) : screen' \o later = Cast!Outputs
    PROVE  ReplayInv' /\ run' \in Seq([from : Nat, speed : Nat, wall : Nat])
<1>1. castPlaying' = FALSE /\ timers' = <<>> /\ run' = <<>>
    BY Zenon DEF Cast!Stopped
<1>2. Cast!Outputs' = Cast!Outputs
    BY DEF Cast!Outputs, Cast!Kept
<1>3. run' \in Seq([from : Nat, speed : Nat, wall : Nat])
    BY <1>1
<1>4. castPlaying' \in BOOLEAN /\ castPlaying' # TRUE
    BY <1>1, Zenon
<1> QED
    BY <1>1, <1>2, <1>3, <1>4, Zenon DEF ReplayInv

LEMMA StartedKeeps ==
    ASSUME NEW from \in Nat, NEW later \in Seq(Positions), Cast!Started(from, later),
           castPlaying' = TRUE, screen' \in Seq(Positions), screen' \o later = Cast!Outputs
    PROVE  ReplayInv'
<1>1. timers' = Append(later, 0)
    BY Zenon DEF Cast!Started, Cast!End
<1>2. castPlaying' \in BOOLEAN /\ castPlaying' # FALSE
    BY Zenon
<1> QED
    BY <1>1, <1>2, Zenon DEF ReplayInv

LEMMA Bounds ==
    ASSUME NEW s \in Seq(Positions)
    PROVE  s \o <<>> = s /\ <<>> \o s = s /\ <<>> \in Seq(Positions)
OBVIOUS

LEMMA PlayKeeps ==
    ASSUME TimesInv, NEW from \in Nat, Cast!Play(from)
    PROVE  ReplayInv' /\ elapsed' \in Nat /\ run' \in Seq([from : Nat, speed : Nat, wall : Nat])
<1>1. CASE Cast!Duration <= from + Short
    <2>1. Cast!Stopped /\ screen' = Cast!Outputs /\ elapsed' = Cast!Duration
        BY <1>1, Zenon DEF Cast!Play
    <2>2. screen' \in Seq(Positions) /\ screen' \o <<>> = Cast!Outputs
        BY <2>1, OutputsInOrder, Bounds
    <2>3. ReplayInv' /\ run' \in Seq([from : Nat, speed : Nat, wall : Nat])
        BY <2>1, <2>2, Bounds, OutputsInOrder, StoppedKeeps
    <2> QED
        BY <2>1, <2>3, DurationIs
<1>2. CASE ~(Cast!Duration <= from + Short)
    <2>1. /\ Cast!Started(from, Cast!OutputsFrom(from)) /\ screen' = Cast!OutputsBefore(from)
          /\ castPlaying' = TRUE /\ elapsed' = from
        BY <1>2, Zenon DEF Cast!Play
    <2>2. ReplayInv'
        BY <2>1, CutAt, StartedKeeps
    <2> QED
        BY <2>1, <2>2, RunTyped DEF TimesInv
<1> QED
    BY <1>1, <1>2


LEMMA SeekKeeps ==
    ASSUME TimesInv, ReplayInv, NEW target \in Nat, Cast!Seek(target)
    PROVE  ReplayInv' /\ elapsed' \in Nat /\ run' \in Seq([from : Nat, speed : Nat, wall : Nat])
<1> DEFINE to == Cast!Earlier(target, Cast!Duration)
<1>1. to \in Nat
    BY DurationIs DEF Cast!Earlier
<1>2. /\ screen' = Cast!OutputsUpTo(to) /\ elapsed' = to /\ castPlaying' = castPlaying
      /\ IF castPlaying THEN Cast!Started(to, Cast!OutputsAfter(to))
         ELSE timers' = <<>> /\ UNCHANGED run
    BY Zenon DEF Cast!Seek
<1> HIDE DEF to
<1>3. /\ screen' \in Seq(Positions) /\ Cast!OutputsAfter(to) \in Seq(Positions)
      /\ screen' \o Cast!OutputsAfter(to) = Cast!Outputs
    BY <1>1, <1>2, CutAt
<1>4. CASE castPlaying = TRUE
    <2>1. Cast!Started(to, Cast!OutputsAfter(to)) /\ castPlaying' = TRUE
        BY <1>2, <1>4, Zenon
    <2>2. ReplayInv'
        BY <1>1, <1>3, <2>1, StartedKeeps
    <2> QED
        BY <1>1, <1>2, <2>1, <2>2, RunTyped DEF TimesInv
<1>5. CASE castPlaying = FALSE
    <2>1. timers' = <<>> /\ run' = run /\ castPlaying' = FALSE
        BY <1>2, <1>5, Zenon
    <2>2. castPlaying' \in BOOLEAN /\ castPlaying' # TRUE
        BY <2>1, Zenon
    <2>3. ReplayInv'
        BY <1>3, <2>1, <2>2, Zenon DEF ReplayInv
    <2> QED
        BY <1>1, <1>2, <2>1, <2>3 DEF TimesInv
<1> QED
    BY <1>4, <1>5, Zenon DEF ReplayInv

LEMMA TimerKeeps ==
    ASSUME TimesInv, ReplayInv, Cast!TimerFires
    PROVE  ReplayInv' /\ run' \in Seq([from : Nat, speed : Nat, wall : Nat])
<1>1. PICK later \in Seq(Positions) :
        /\ screen \o later = Cast!Outputs
        /\ castPlaying = TRUE => timers = Append(later, 0)
        /\ castPlaying = FALSE => timers = <<>>
    BY DEF ReplayInv
<1>2. timers # <<>>
    BY DEF Cast!TimerFires
<1>3. castPlaying = TRUE /\ timers = Append(later, 0)
    BY <1>1, <1>2, Zenon DEF ReplayInv
<1>4. /\ Head(timers) = 0 => Cast!Stopped /\ screen' = screen
      /\ Head(timers) # 0 => /\ screen' = Append(screen, Head(timers)) /\ timers' = Tail(timers)
                             /\ castPlaying' = castPlaying /\ run' = run
    BY Zenon DEF Cast!TimerFires, Cast!End
<1>5. screen \in Seq(Positions)
    BY DEF ReplayInv
<1>6. CASE later = <<>>
    <2>1. Head(timers) = 0
        BY <1>3, <1>6
    <2> QED
        BY <1>1, <1>4, <1>5, <2>1, StoppedKeeps
<1>7. CASE later # <<>>
    <2>1. /\ Head(timers) = Head(later) /\ Head(later) \in Positions
          /\ Tail(later) \in Seq(Positions)
        BY <1>3, <1>7
    <2>2. Tail(timers) = Append(Tail(later), 0)
        BY <1>3, <1>7
    <2>3. Append(screen, Head(later)) \o Tail(later) = screen \o later
        BY <1>5, <1>7
    <2>4. Head(timers) # 0
        BY <2>1 DEF Positions
    <2>9. screen' = Append(screen, Head(later))
        BY <1>4, <2>1, <2>4, Zenon
    <2>5. screen' \in Seq(Positions) /\ screen' \o Tail(later) = Cast!Outputs
        <3>1. Append(screen, Head(later)) \in Seq(Positions)
            BY <1>5, <2>1
        <3> QED
            BY <1>1, <2>3, <2>9, <3>1, Zenon
    <2>6. timers' = Append(Tail(later), 0) /\ castPlaying' = TRUE /\ run' = run
        BY <1>3, <1>4, <2>2, <2>4, Zenon
    <2>7. castPlaying' \in BOOLEAN /\ castPlaying' # FALSE
        BY <2>6, Zenon
    <2>8. ReplayInv'
        BY <2>1, <2>5, <2>6, <2>7, Zenon DEF ReplayInv
    <2> QED
        BY <2>6, <2>8 DEF TimesInv
<1> QED
    BY <1>6, <1>7

LEMMA ReplayInvNext == TimesInv /\ ReplayInv /\ [ClientNext]_vars => TimesInv' /\ ReplayInv'
<1> SUFFICES ASSUME TimesInv, ReplayInv, [ClientNext]_vars PROVE TimesInv' /\ ReplayInv'
    OBVIOUS
<1> DEFINE Runs == Seq([from : Nat, speed : Nat, wall : Nat])
\* What leaves the screen, the timers and the button alone ...
<1>1. UNCHANGED <<screen, castPlaying, timers>> => ReplayInv'
    BY Zenon DEF ReplayInv, Cast!Outputs, Cast!Kept
\* ... and what leaves the times alone.
<1>2. UNCHANGED <<elapsed, castSpeed, run>> => TimesInv'
    BY DEF TimesInv
<1>3. CASE UNCHANGED castVars
    BY <1>1, <1>2, <1>3
<1>4. CASE Cast!OpenCast \/ (\E ok \in BOOLEAN : Cast!CastLoaded(ok))
           \/ Cast!StartExport \/ Cast!ExportFrame \/ Cast!ExportDone
    BY <1>1, <1>2, <1>4, Zenon
    DEF Cast!OpenCast, Cast!CastLoaded, Cast!StartExport, Cast!ExportFrame, Cast!ExportDone
<1>5. CASE Cast!CloseCast
    <2>1. /\ screen' = <<>> /\ castPlaying' = FALSE /\ timers' = <<>> /\ elapsed' = 0
          /\ castSpeed' = 2 /\ run' = <<>>
        BY <1>5, Zenon DEF Cast!CloseCast
    <2>2. Cast!Stopped
        BY <2>1, Zenon DEF Cast!Stopped
    <2>3. ReplayInv'
        BY <2>1, <2>2, OutputsInOrder, Bounds, StoppedKeeps
    <2> QED
        BY <2>1, <2>3, CastAssumption DEF TimesInv
<1>6. CASE Cast!PlayPause
    <2>1. castSpeed' = castSpeed
        BY <1>6 DEF Cast!PlayPause
    <2>2. CASE castPlaying = TRUE
        <3>1. Cast!Stopped /\ screen' = screen /\ elapsed' = elapsed
            BY <1>6, <2>2, Zenon DEF Cast!PlayPause
        <3>2. ReplayInv' /\ run' \in Runs
            BY <3>1, StoppedKeeps DEF ReplayInv
        <3> QED
            BY <2>1, <3>1, <3>2 DEF TimesInv
    <2>3. CASE castPlaying = FALSE
        <3> DEFINE from == IF elapsed >= Cast!Duration THEN 0 ELSE elapsed
        <3>1. Cast!Play(from)
            BY <1>6, <2>3, Zenon DEF Cast!PlayPause
        <3>2. from \in Nat
            BY DEF TimesInv
        <3> HIDE DEF from
        <3>3. ReplayInv' /\ elapsed' \in Nat /\ run' \in Runs
            BY <3>1, <3>2, PlayKeeps
        <3> QED
            BY <2>1, <3>3 DEF TimesInv
    <2> QED
        BY <2>2, <2>3, Zenon DEF ReplayInv
<1>7. CASE Cast!Restart
    <2>1. Cast!Stopped /\ elapsed' = 0 /\ screen' = <<>> /\ castSpeed' = castSpeed
        BY <1>7 DEF Cast!Restart
    <2>2. ReplayInv' /\ run' \in Runs
        BY <2>1, OutputsInOrder, Bounds, StoppedKeeps
    <2> QED
        BY <2>1, <2>2 DEF TimesInv
<1>8. CASE Cast!SpeedCycle
    <2>1. castSpeed' \in 1 .. Len(CastSpeeds)
        BY <1>8, CastAssumption DEF Cast!SpeedCycle, TimesInv
    <2>2. CASE castPlaying = TRUE
        <3>1. Cast!Play(elapsed)
            BY <1>8, <2>2, Zenon DEF Cast!SpeedCycle
        <3>2. ReplayInv' /\ elapsed' \in Nat /\ run' \in Runs
            BY <3>1, PlayKeeps DEF TimesInv
        <3> QED
            BY <2>1, <3>2 DEF TimesInv
    <2>3. CASE castPlaying = FALSE
        <3>1. UNCHANGED <<screen, elapsed, castPlaying, run, timers>>
            BY <1>8, <2>3, Zenon DEF Cast!SpeedCycle
        <3> QED
            BY <1>1, <2>1, <3>1 DEF TimesInv
    <2> QED
        BY <2>2, <2>3, Zenon DEF ReplayInv
<1>9. ASSUME NEW target \in Nat, Cast!Seek(target) PROVE TimesInv' /\ ReplayInv'
    <2>1. ReplayInv' /\ elapsed' \in Nat /\ run' \in Runs
        BY <1>9, SeekKeeps
    <2>2. castSpeed' = castSpeed
        BY <1>9 DEF Cast!Seek
    <2> QED
        BY <2>1, <2>2 DEF TimesInv
<1>10. CASE Cast!SeekBar \/ Cast!SeekBack \/ Cast!SeekForward
    <2>1. \E target \in Nat : Cast!Seek(target)
        <3>1. CASE Cast!SeekBar
            BY <3>1, DurationIs DEF Cast!SeekBar
        <3>2. CASE Cast!SeekBack
            <4>1. (IF elapsed < SeekStep THEN 0 ELSE elapsed - SeekStep) \in Nat
                BY GuacAssumption DEF TimesInv
            <4> QED
                BY <3>2, <4>1 DEF Cast!SeekBack
        <3>3. CASE Cast!SeekForward
            BY <3>3, GuacAssumption DEF Cast!SeekForward, TimesInv
        <3> QED
            BY <1>10, <3>1, <3>2, <3>3
    <2> QED
        BY <1>9, <2>1
<1>11. CASE Cast!TimerFires
    <2>1. elapsed' = elapsed /\ castSpeed' = castSpeed
        BY <1>11 DEF Cast!TimerFires
    <2> QED
        BY <1>11, <2>1, TimerKeeps DEF TimesInv
<1>12. CASE Cast!ProgressTick
    <2>1. /\ run # <<>> /\ elapsed' = Cast!Earlier(run[1].from + Cast!Covered, Cast!Duration)
          /\ UNCHANGED <<screen, castPlaying, timers, castSpeed, run>>
        BY <1>12 DEF Cast!ProgressTick
    <2>2. run[1] \in [from : Nat, speed : Nat, wall : Nat]
        <3>1. 1 \in 1 .. Len(run)
            BY <2>1 DEF TimesInv
        <3> QED
            BY <3>1, KeptLen DEF TimesInv
    <2>3. Cast!Covered \in Nat
        BY <2>2 DEF Cast!Covered
    <2>4. elapsed' \in Nat
        BY <2>1, <2>2, <2>3, DurationIs DEF Cast!Earlier
    <2> QED
        BY <1>1, <2>1, <2>4 DEF TimesInv
<1>13. CASE Cast!ClockTick
    <2>1. /\ run # <<>> /\ run' = <<[run[1] EXCEPT !.wall = @ + 1]>>
          /\ UNCHANGED <<screen, castPlaying, timers, castSpeed, elapsed>>
        BY <1>13 DEF Cast!ClockTick
    <2>2. run[1] \in [from : Nat, speed : Nat, wall : Nat]
        <3>1. 1 \in 1 .. Len(run)
            BY <2>1 DEF TimesInv
        <3> QED
            BY <3>1, KeptLen DEF TimesInv
    <2>3. run' \in Runs
        BY <2>1, <2>2
    <2> QED
        BY <1>1, <2>1, <2>3 DEF TimesInv
<1>14. CASE Cast!CastNext
    BY <1>4, <1>5, <1>6, <1>7, <1>8, <1>10, <1>11, <1>12, <1>13, <1>14, Zenon DEF Cast!CastNext
<1> QED
    BY <1>3, <1>14, CastMoves


\* Each event falls in a frame, a later one in the same or a later one.
LEMMA FramesInOrder ==
    /\ Cast!TotalFrames \in Nat
    /\ \A i \in Positions : Cast!FrameOf(i) \in 1 .. Cast!TotalFrames
    /\ \A i, j \in Positions : i <= j => Cast!FrameOf(i) <= Cast!FrameOf(j)
<1>1. Cast!TotalFrames \in Nat \ {0}
    <2>1. Cast!Duration + Frame - 1 \in Nat
        BY DurationIs, GuacAssumption
    <2>2. (Cast!Duration + Frame - 1) \div Frame \in Nat
        BY <2>1, GuacAssumption, DivisionInOrder
    <2> QED
        BY <2>2 DEF Cast!TotalFrames
<1>2. \A i \in Positions : Events[i].at \div Frame \in Nat
    BY PositionsAre, GuacAssumption
<1>3. \A i, j \in Positions : i <= j => Events[i].at \div Frame <= Events[j].at \div Frame
    BY PositionsAre, GuacAssumption, DivisionInOrder
<1> QED
    BY <1>1, <1>2, <1>3 DEF Cast!FrameOf, Cast!Earlier

\* Frame by frame the terminal is given the whole output.
LEMMA GivenInFrames ==
    /\ Given(1) = <<>>
    /\ \A n \in Nat : Given(n + 1)
         = Given(n) \o Cast!Kept(Cast!Outputs, {i \in DOMAIN Events : Cast!FrameOf(i) = n})
    /\ \A n \in Nat : n > Cast!TotalFrames => Given(n) = Cast!Outputs
<1> DEFINE out == Cast!Outputs
           Below(n) == {i \in Positions : Cast!FrameOf(i) < n}
           In(n) == {i \in Positions : Cast!FrameOf(i) = n}
<1>1. /\ out \in Seq(Positions) /\ \A i \in 1 .. Len(out) : out[i] \in Positions
      /\ \A i, j \in 1 .. Len(out) : i <= j => out[i] <= out[j]
    BY OutputsInOrder
<1>2. \A n : Given(n) = Kept(out, Below(n))
    BY CastKept DEF Given
<1>3. \A n : Cast!Kept(out, {i \in DOMAIN Events : Cast!FrameOf(i) = n}) = Kept(out, In(n))
    BY CastKept, PositionsAre
<1>4. Below(1) = {}
    BY FramesInOrder
<1>5. \A n \in Nat : Below(n + 1) = Below(n) \cup In(n)
    BY FramesInOrder
<1>6. \A n \in Nat : n > Cast!TotalFrames => Positions \subseteq Below(n)
    BY FramesInOrder
<1>7. \A n \in Nat : \A i, j \in Positions : i <= j /\ i \in In(n) => j \notin Below(n)
    BY FramesInOrder
<1>8. Given(1) = <<>>
    <2>1. Kept(out, {}) = <<>>
        BY <1>1, KeptNone
    <2> QED
        BY <1>2, <1>4, <2>1, Zenon
<1> HIDE DEF out, Below, In
<1>9. ASSUME NEW n \in Nat PROVE Given(n + 1) = Given(n) \o Kept(out, In(n))
    <2>1. \A i, j \in 1 .. Len(out) : i <= j /\ out[i] \in In(n) => out[j] \notin Below(n)
        BY <1>1, <1>7
    <2>2. Kept(out, Below(n)) \o Kept(out, In(n)) = Kept(out, Below(n) \cup In(n))
        BY <1>1, <2>1, KeptBoth
    <2>3. Below(n + 1) = Below(n) \cup In(n)
        BY <1>5
    <2> QED
        BY <1>2, <2>2, <2>3, Zenon
<1>10. ASSUME NEW n \in Nat, n > Cast!TotalFrames PROVE Given(n) = out
    <2>1. \A i \in 1 .. Len(out) : out[i] \in Below(n)
        BY <1>1, <1>6, <1>10
    <2>2. Kept(out, Below(n)) = out
        BY <1>1, <2>1, KeptAll
    <2> QED
        BY <1>2, <2>2, Zenon
<1> QED
    BY <1>3, <1>8, <1>9, <1>10 DEF out

LEMMA ClipInvNext == ClipInv /\ [ClientNext]_vars => ClipInv'
<1> SUFFICES ASSUME ClipInv, [ClientNext]_vars PROVE ClipInv'
    OBVIOUS
<1>g. \A n : Given(n)' = Given(n)
    BY Zenon DEF Given, Positions, Cast!Outputs, Cast!Kept, Cast!FrameOf, Cast!Earlier,
             Cast!TotalFrames, Cast!Duration
<1>1. CASE UNCHANGED <<frame, clip>>
    BY <1>1, <1>g DEF ClipInv
<1>2. CASE Cast!CloseCast \/ Cast!ExportDone
    BY <1>2 DEF Cast!CloseCast, Cast!ExportDone, ClipInv
<1>3. CASE Cast!StartExport
    BY <1>3, <1>g, GivenInFrames DEF Cast!StartExport, ClipInv
<1>4. CASE Cast!ExportFrame
    <2>1. /\ frame > 0 /\ frame' = frame + 1 /\ frame \in Nat /\ clip = Given(frame)
          /\ clip' = clip \o Cast!Kept(Cast!Outputs, {i \in DOMAIN Events : Cast!FrameOf(i) = frame})
        BY <1>4 DEF Cast!ExportFrame, ClipInv
    <2>2. clip' = Given(frame + 1)
        BY <2>1, GivenInFrames
    <2>3. frame' \in Nat
        BY <2>1
    <2>4. Given(frame)' = Given(frame + 1)
        BY <2>1, Zenon DEF Given
    <2> QED
        BY <2>2, <2>3, <2>4, Zenon DEF ClipInv
<1>5. ASSUME NEW target, Cast!Seek(target) PROVE ClipInv'
    BY <1>1, <1>5 DEF Cast!Seek
<1>6. CASE Cast!SeekBar \/ Cast!SeekBack \/ Cast!SeekForward
    BY <1>5, <1>6 DEF Cast!SeekBar, Cast!SeekBack, Cast!SeekForward
<1>7. CASE \/ Cast!OpenCast \/ (\E ok \in BOOLEAN : Cast!CastLoaded(ok))
           \/ Cast!PlayPause \/ Cast!Restart \/ Cast!SpeedCycle
           \/ Cast!TimerFires \/ Cast!ProgressTick \/ Cast!ClockTick
    BY <1>1, <1>7
    DEF Cast!OpenCast, Cast!CastLoaded, Cast!PlayPause, Cast!Restart, Cast!SpeedCycle,
        Cast!TimerFires, Cast!ProgressTick, Cast!ClockTick
<1>8. CASE Cast!CastNext
    BY <1>2, <1>3, <1>4, <1>6, <1>7, <1>8, Zenon DEF Cast!CastNext
<1> QED
    BY <1>1, <1>8, CastMoves

\* For every recording, every speed and every length of a frame, however it is
\* paused, sought and run late: the screen shows a beginning of the output, the
\* timers hold the rest, and an export gets all of it.
THEOREM ReplayIsFaithfulHolds == ClientSpec => []ReplayIsFaithful
<1>1. ClientInit => TimesInv /\ ReplayInv /\ ClipInv
    <2> SUFFICES ASSUME ClientInit PROVE TimesInv /\ ReplayInv /\ ClipInv
        OBVIOUS
    <2>1. /\ screen = <<>> /\ elapsed = 0 /\ castPlaying = FALSE /\ castSpeed = 2 /\ run = <<>>
          /\ timers = <<>> /\ frame = 0
        BY Zenon DEF ClientInit, Cast!CastInit
    <2>2. TimesInv /\ ClipInv
        BY <2>1, CastAssumption DEF TimesInv, ClipInv
    <2>3. screen \in Seq(Positions) /\ screen \o Cast!Outputs = Cast!Outputs
        BY <2>1, OutputsInOrder, Bounds
    <2>4. castPlaying \in BOOLEAN /\ castPlaying # TRUE
        BY <2>1, Zenon
    <2> QED
        BY <2>1, <2>2, <2>3, <2>4, OutputsInOrder, Zenon DEF ReplayInv
<1>2. ReplayInv /\ ClipInv => ReplayIsFaithful
    <2> SUFFICES ASSUME ReplayInv, ClipInv PROVE Cast!ReplayIsFaithful
        BY DEF ReplayIsFaithful
    <2>1. PICK later \in Seq(Positions) :
            /\ screen \o later = Cast!Outputs
            /\ castPlaying = TRUE => timers = Append(later, 0)
            /\ castPlaying = FALSE => timers = <<>>
        BY DEF ReplayInv
    <2>2. screen \in Seq(Positions)
        BY DEF ReplayInv
    <2>3. Cast!IsPrefix(screen, screen \o later)
        BY <2>2 DEF Cast!IsPrefix
    <2>4. Cast!Front(Append(later, 0)) = later
        BY DEF Cast!Front
    <2>5. castPlaying => screen \o Cast!Front(timers) = Cast!Outputs
        BY <2>1, <2>4, Zenon
    <2>6. ~castPlaying => timers = <<>>
        BY <2>1, Zenon DEF ReplayInv
    <2>7. frame > 0 /\ frame > Cast!TotalFrames => clip = Cast!Outputs
        BY GivenInFrames DEF ClipInv
    <2> QED
        BY <2>1, <2>3, <2>5, <2>6, <2>7, Zenon DEF Cast!ReplayIsFaithful
<1> QED
    BY <1>1, <1>2, ReplayInvNext, ClipInvNext, PTL DEF ClientSpec

-----------------------------------------------------------------------------
(* The tabs of the workspace                                               *)

LEMMA Inserted ==
    ASSUME NEW T, NEW seq \in Seq(T), NEW at \in 1 .. Len(seq) + 1, NEW x \in T
    PROVE  HasOneMore(Workspace!InsertAt(seq, at, x), seq, at, x, T)
<1> DEFINE a == SubSeq(seq, 1, at - 1)
           b == <<x>>
           s == a \o b
           t == SubSeq(seq, at, Len(seq))
<1>0. /\ Len(seq) \in Nat /\ at - 1 - 1 + 1 = at - 1
      /\ 1 \in 1 .. Len(seq) + 1 /\ at - 1 \in 0 .. Len(seq)
      /\ Len(seq) \in 0 .. Len(seq) /\ 1 <= at - 1 + 1 /\ at <= Len(seq) + 1
    OBVIOUS
<1>1. IsCut(a, seq, 1, at - 1 - 1 + 1, T) /\ IsCut(t, seq, at, Len(seq) - at + 1, T)
    BY <1>0, CutOut
<1>2. IsCut(a, seq, 1, at - 1, T)
    BY <1>0, <1>1
<1>3. b \in Seq(T)
    OBVIOUS
<1>4. Workspace!InsertAt(seq, at, x) = s \o t
    BY DEF Workspace!InsertAt
<1>5. IsJoin(s, a, b, T)
    BY <1>2, <1>3, Joined DEF IsCut
<1>6. IsJoin(s \o t, s, t, T)
    <2>1. s \in Seq(T) /\ t \in Seq(T)
        BY <1>1, <1>5, Zenon DEF IsCut, IsJoin
    <2> HIDE DEF a, b, s, t
    <2> QED
        BY <2>1, Joined
<1>7. b = <<x>>
    OBVIOUS
<1>8. HasOneMore(s \o t, seq, at, x, T)
    <2> HIDE DEF a, b, s, t
    <2> QED
        BY <1>1, <1>2, <1>5, <1>6, <1>7, WithOneMore
<1> QED
    BY <1>4, <1>8, Zenon

LEMMA ElementsAre ==
    ASSUME NEW T, NEW seq \in Seq(T)
    PROVE  /\ Workspace!ToSet(seq) = Elements(seq)
           /\ DOMAIN seq = 1 .. Len(seq) /\ Len(seq) \in Nat /\ Elements(seq) \subseteq T
           /\ seq = <<>> <=> Len(seq) = 0
BY DEF Workspace!ToSet, Elements

\* The sessions of a group, and a group as WellPlaced has it.
Tabs(g) == Elements(g.sessions)

GroupRecords == [id : GroupIds, layout : 1 .. 4, sessions : Seq(Sessions), focused : Sessions]

Groups ==
    {g \in GroupRecords :
        /\ g.sessions # <<>> /\ g.focused \in Tabs(g) /\ Distinct(g.sessions)
        /\ Len(g.sessions) = 1 => g.layout = 1}

Apart(g, h) == g.id # h.id /\ Tabs(g) \cap Tabs(h) = {}

Placed(gs) ==
    /\ gs \in Seq(Groups)
    /\ \A i, j \in 1 .. Len(gs) : i # j => Apart(gs[i], gs[j])

\* A list of groups from which one disappears, which gets one more, and of
\* which one changes.
LEMMA ListLacks ==
    ASSUME NEW gs, Placed(gs), NEW at \in 1 .. Len(gs), NEW r, LacksOne(r, gs, at, Groups)
    PROVE  Placed(r) /\ Elements(r) = Elements(gs) \ {gs[at]}
<1>1. gs \in Seq(Groups) /\ r \in Seq(Groups)
    BY Zenon DEF Placed, LacksOne
<1>0. ComesLess(r, gs, at)
    BY <1>1, LacksFrom
<1>2. \A i, j \in 1 .. Len(gs) : i # j => gs[i] # gs[j]
    BY DEF Placed, Apart
<1>3. Elements(r) = Elements(gs) \ {gs[at]}
    BY <1>1, <1>2, DistinctLacks DEF Distinct
<1>4. \A i, j \in 1 .. Len(r) : i # j =>
         \E m, n \in 1 .. Len(gs) : m # n /\ r[i] = gs[m] /\ r[j] = gs[n]
    BY <1>0, Zenon DEF ComesLess
<1>5. ASSUME NEW i \in 1 .. Len(r), NEW j \in 1 .. Len(r), i # j PROVE Apart(r[i], r[j])
    <2>1. PICK m \in 1 .. Len(gs), n \in 1 .. Len(gs) : m # n /\ r[i] = gs[m] /\ r[j] = gs[n]
        BY <1>4, <1>5, Zenon
    <2>2. Apart(gs[m], gs[n])
        BY <2>1, Zenon DEF Placed
    <2> QED
        BY <2>1, <2>2, Zenon
<1> QED
    BY <1>1, <1>3, <1>5, Zenon DEF Placed

LEMMA ListHasMore ==
    ASSUME NEW gs, Placed(gs), NEW at \in 1 .. Len(gs) + 1, NEW x \in Groups,
           \A g \in Elements(gs) : Apart(g, x),
           NEW r, HasOneMore(r, gs, at, x, Groups)
    PROVE  Placed(r) /\ Elements(r) = Elements(gs) \cup {x}
<1>1. gs \in Seq(Groups) /\ r \in Seq(Groups)
    BY Zenon DEF Placed, HasOneMore
<1>0. ComesMore(r, gs, at, x)
    BY <1>1, MoreFrom
<1>2. Distinct(gs) /\ x \notin Elements(gs)
    BY DEF Placed, Apart, Distinct
<1>3. Elements(r) = Elements(gs) \cup {x}
    BY <1>1, <1>2, DistinctMore
<1>4. \A k \in 1 .. Len(r) : k # at => \E i \in 1 .. Len(gs) : r[k] = gs[i]
    BY <1>0, Zenon DEF ComesMore
<1>5. r[at] = x
    BY <1>0, Zenon DEF ComesMore
<1>6. \A k \in 1 .. Len(r) : k # at => Apart(r[k], r[at]) /\ Apart(r[at], r[k])
    BY <1>4, <1>5 DEF Apart, Elements
<1>7. \A i, j \in 1 .. Len(r) : i # j /\ i # at /\ j # at =>
         \E m, n \in 1 .. Len(gs) : m # n /\ r[i] = gs[m] /\ r[j] = gs[n]
    BY <1>0, Zenon DEF ComesMore
<1>8. \A i, j \in 1 .. Len(r) : i # j => Apart(r[i], r[j])
    BY <1>6, <1>7, Zenon DEF Placed
<1> QED
    BY <1>1, <1>3, <1>8, Zenon DEF Placed

LEMMA ListUpdated ==
    ASSUME NEW gs, Placed(gs), NEW at \in 1 .. Len(gs), NEW x \in Groups, x.id = gs[at].id,
           \A g \in Elements(gs) : g # gs[at] => Apart(g, x)
    PROVE  /\ Placed(Workspace!Updated(gs, x.id, x))
           /\ Elements(Workspace!Updated(gs, x.id, x)) = (Elements(gs) \ {gs[at]}) \cup {x}
<1> DEFINE r == Workspace!Updated(gs, x.id, x)
<1>1. gs \in Seq(Groups) /\ DOMAIN gs = 1 .. Len(gs) /\ Len(gs) \in Nat
    BY ElementsAre, Zenon DEF Placed
<1>2. \A i \in 1 .. Len(gs) : i # at => Apart(gs[i], gs[at]) /\ gs[i] # gs[at] /\ gs[i].id # x.id
    BY DEF Placed, Apart
<1>3. \A i \in 1 .. Len(gs) : gs[i] \in Groups
    BY <1>1
<1>4. r = [i \in 1 .. Len(gs) |-> IF i = at THEN x ELSE gs[i]]
    BY <1>1, <1>2 DEF Workspace!Updated
<1> HIDE DEF r
<1>5. r \in Seq(Groups) /\ Len(r) = Len(gs)
    BY <1>1, <1>3, <1>4
<1>6. \A i \in 1 .. Len(gs) : r[i] = IF i = at THEN x ELSE gs[i]
    BY <1>4
<1>8. ASSUME NEW i \in 1 .. Len(r), NEW j \in 1 .. Len(r), i # j PROVE Apart(r[i], r[j])
    <2>1. \A m \in 1 .. Len(gs) : m # at => Apart(gs[m], x) /\ Apart(x, gs[m])
        BY <1>2 DEF Apart, Elements
    <2> QED
        BY <1>5, <1>6, <1>8, <2>1, Zenon DEF Placed
<1>9. Elements(r) = (Elements(gs) \ {gs[at]}) \cup {x}
    BY <1>2, <1>5, <1>6 DEF Elements
<1>10. Placed(r)
    BY <1>5, <1>8, Zenon DEF Placed
<1> QED
    BY <1>9, <1>10, Zenon DEF r

LEMMA GroupIs ==
    ASSUME NEW g \in Groups
    PROVE  /\ g \in GroupRecords /\ g.sessions \in Seq(Sessions) /\ g.id \in GroupIds
           /\ Len(g.sessions) \in Nat \ {0} /\ DOMAIN g.sessions = 1 .. Len(g.sessions)
           /\ Workspace!ToSet(g.sessions) = Tabs(g) /\ Tabs(g) \subseteq Sessions
           /\ g.layout \in 1 .. 4 /\ g.focused \in Tabs(g) /\ Distinct(g.sessions)
           /\ Len(g.sessions) = 1 => g.layout = 1
           /\ g = [id |-> g.id, layout |-> g.layout, sessions |-> g.sessions,
                   focused |-> g.focused]
<1>1. g.sessions \in Seq(Sessions) /\ g \in GroupRecords /\ g.sessions # <<>>
    BY DEF Groups, GroupRecords
<1>2. Len(g.sessions) \in Nat /\ g.sessions = <<>> <=> Len(g.sessions) = 0
    BY <1>1, ElementsAre
<1>3. Len(g.sessions) # 0
    BY <1>1, <1>2
<1>4. DOMAIN g.sessions = 1 .. Len(g.sessions) /\ Workspace!ToSet(g.sessions) = Tabs(g)
      /\ Tabs(g) \subseteq Sessions
    BY <1>1, ElementsAre DEF Tabs
<1> QED
    BY <1>1, <1>2, <1>3, <1>4 DEF Groups, GroupRecords

\* The parts of a group, and what is made of them.
Parts(id, l, ss, f) ==
    /\ id \in GroupIds /\ l \in 1 .. 4 /\ ss \in Seq(Sessions) /\ f \in Elements(ss)
    /\ Distinct(ss) /\ (Len(ss) = 1 => l = 1)

IsMade(h, id, l, ss, f) ==
    /\ h \in Groups /\ h.id = id /\ Tabs(h) = Elements(ss)
    /\ h.layout = l /\ h.sessions = ss /\ h.focused = f

LEMMA Made ==
    ASSUME NEW id, NEW l, NEW ss, NEW f, Parts(id, l, ss, f)
    PROVE  IsMade([id |-> id, layout |-> l, sessions |-> ss, focused |-> f], id, l, ss, f)
<1> DEFINE h == [id |-> id, layout |-> l, sessions |-> ss, focused |-> f]
<1>1. h.id = id /\ h.layout = l /\ h.sessions = ss /\ h.focused = f
    OBVIOUS
<1>2. ss # <<>>
    BY DEF Elements, Parts
<1>3. f \in Sessions
    BY ElementsAre DEF Parts
<1>4. h \in GroupRecords
    BY <1>3 DEF GroupRecords, Parts
<1> HIDE DEF h
<1>5. IsMade(h, id, l, ss, f)
    BY <1>1, <1>2, <1>4 DEF Groups, Tabs, Parts, IsMade
<1> QED
    BY <1>5 DEF h

LEMMA LayoutsAre ==
    ASSUME NEW n \in Nat \ {0}, NEW l \in 1 .. 4
    PROVE  /\ Workspace!BestLayout(n) \in 1 .. 4 /\ Workspace!Upgraded(l, n) \in 1 .. 4
           /\ n <= 4 => Workspace!BestLayout(n) = n
           /\ Workspace!Upgraded(l, n) # l => Workspace!Upgraded(l, n) = Workspace!BestLayout(n)
           /\ n = 1 => Workspace!Upgraded(l, n) = l
BY DEF Workspace!BestLayout, Workspace!Upgraded, Workspace!MinOf, Workspace!MaxOf

LEMMA BestIs ==
    ASSUME NEW n \in Nat \ {0}
    PROVE  /\ Workspace!BestLayout(n) \in 1 .. 4
           /\ n <= 4 => Workspace!BestLayout(n) = n
BY DEF Workspace!BestLayout, Workspace!MinOf, Workspace!MaxOf

\* A record with some of its fields changed.
LEMMA AllFields ==
    ASSUME NEW g \in GroupRecords, NEW l, NEW ss, NEW f
    PROVE  [g EXCEPT !.sessions = ss, !.focused = f, !.layout = l]
             = [id |-> g.id, layout |-> l, sessions |-> ss, focused |-> f]
<1>1. [g EXCEPT !.sessions = ss]
        = [id |-> g.id, layout |-> g.layout, sessions |-> ss, focused |-> g.focused]
    BY DEF GroupRecords
<1>2. [[id |-> g.id, layout |-> g.layout, sessions |-> ss, focused |-> g.focused] EXCEPT !.focused = f]
        = [id |-> g.id, layout |-> g.layout, sessions |-> ss, focused |-> f]
    OBVIOUS
<1>3. [[id |-> g.id, layout |-> g.layout, sessions |-> ss, focused |-> f] EXCEPT !.layout = l]
        = [id |-> g.id, layout |-> l, sessions |-> ss, focused |-> f]
    OBVIOUS
<1>4. [g EXCEPT !.sessions = ss, !.focused = f, !.layout = l]
        = [[[g EXCEPT !.sessions = ss] EXCEPT !.focused = f] EXCEPT !.layout = l]
    OBVIOUS
<1> QED
    BY <1>1, <1>2, <1>3, <1>4, Zenon

LEMMA FocusMoves ==
    ASSUME NEW g \in GroupRecords, NEW l, NEW ss, NEW s, NEW b
    PROVE  [g EXCEPT !.sessions = ss, !.layout = l, !.focused = IF @ = s THEN b ELSE @]
             = [id |-> g.id, layout |-> l, sessions |-> ss,
                focused |-> IF g.focused = s THEN b ELSE g.focused]
<1> DEFINE r == [id |-> g.id, layout |-> l, sessions |-> ss, focused |-> g.focused]
<1>1. [g EXCEPT !.sessions = ss]
        = [id |-> g.id, layout |-> g.layout, sessions |-> ss, focused |-> g.focused]
    BY DEF GroupRecords
<1>2. [[id |-> g.id, layout |-> g.layout, sessions |-> ss, focused |-> g.focused] EXCEPT !.layout = l]
        = r
    OBVIOUS
<1>3. [g EXCEPT !.sessions = ss, !.layout = l] = r
    BY <1>1, <1>2, Zenon
<1>4. [r EXCEPT !.focused = IF @ = s THEN b ELSE @]
        = [id |-> g.id, layout |-> l, sessions |-> ss,
           focused |-> IF g.focused = s THEN b ELSE g.focused]
    OBVIOUS
<1>5. [g EXCEPT !.sessions = ss, !.layout = l, !.focused = IF @ = s THEN b ELSE @]
        = [[g EXCEPT !.sessions = ss, !.layout = l] EXCEPT !.focused = IF @ = s THEN b ELSE @]
    OBVIOUS
<1> QED
    BY <1>3, <1>4, <1>5, Zenon

LEMMA TwoFields ==
    ASSUME NEW g \in GroupRecords, NEW l, NEW ss
    PROVE  [g EXCEPT !.layout = l, !.sessions = ss]
             = [id |-> g.id, layout |-> l, sessions |-> ss, focused |-> g.focused]
<1>1. [g EXCEPT !.layout = l]
        = [id |-> g.id, layout |-> l, sessions |-> g.sessions, focused |-> g.focused]
    BY DEF GroupRecords
<1>2. [[id |-> g.id, layout |-> l, sessions |-> g.sessions, focused |-> g.focused] EXCEPT !.sessions = ss]
        = [id |-> g.id, layout |-> l, sessions |-> ss, focused |-> g.focused]
    OBVIOUS
<1>3. [g EXCEPT !.layout = l, !.sessions = ss] = [[g EXCEPT !.layout = l] EXCEPT !.sessions = ss]
    OBVIOUS
<1> QED
    BY <1>1, <1>2, <1>3, Zenon

LEMMA OneField ==
    ASSUME NEW g \in GroupRecords, NEW ss
    PROVE  [g EXCEPT !.sessions = ss]
             = [id |-> g.id, layout |-> g.layout, sessions |-> ss, focused |-> g.focused]
BY DEF GroupRecords

\* A change of layout shows the focus.
Settles(new, old) ==
    new.layout # old.layout /\ Len(new.sessions) <= 4 => Workspace!Visible(new, new.focused)

LEMMA FillsShow ==
    ASSUME NEW g \in Groups, g.layout = 1 \/ Len(g.sessions) <= g.layout
    PROVE  Workspace!Visible(g, g.focused)
<1>1. CASE g.layout = 1
    BY <1>1 DEF Workspace!Visible
<1>2. CASE g.layout # 1
    <2>1. PICK i \in 1 .. Len(g.sessions) : g.sessions[i] = g.focused
        BY GroupIs DEF Tabs, Elements
    <2>2. Workspace!MinOf(g.layout, Len(g.sessions)) = Len(g.sessions)
        BY <1>2, GroupIs DEF Workspace!MinOf
    <2> QED
        BY <1>2, <2>1, <2>2, Zenon DEF Workspace!Visible
<1> QED
    BY <1>1, <1>2

LEMMA BestSettles ==
    ASSUME NEW g, NEW h \in Groups, h.layout = g.layout \/ h.layout = Workspace!BestLayout(Len(h.sessions))
    PROVE  Settles(h, g)
<1> SUFFICES ASSUME h.layout # g.layout, Len(h.sessions) <= 4
             PROVE  Workspace!Visible(h, h.focused)
    BY DEF Settles
<1>1. h.layout = Len(h.sessions)
    BY GroupIs, LayoutsAre
<1> QED
    BY <1>1, GroupIs, FillsShow

LEMMA SoloIs ==
    ASSUME NEW id \in GroupIds, NEW s \in Sessions
    PROVE  /\ Workspace!Solo(id, s) \in Groups /\ Workspace!Solo(id, s).id = id
           /\ Tabs(Workspace!Solo(id, s)) = {s}
<1>1. <<s>> \in Seq(Sessions) /\ Elements(<<s>>) = {s} /\ Distinct(<<s>>)
    BY DEF Elements, Distinct
<1>2. Workspace!Solo(id, s) = [id |-> id, layout |-> 1, sessions |-> <<s>>, focused |-> s]
    BY DEF Workspace!Solo
<1>3. Parts(id, 1, <<s>>, s)
    BY <1>1 DEF Parts
<1>4. IsMade(Workspace!Solo(id, s), id, 1, <<s>>, s)
    BY <1>2, <1>3, Made, Zenon
<1> QED
    BY <1>1, <1>4, Zenon DEF IsMade

\* A group with one session more.
LEMMA AddedTo ==
    ASSUME NEW g \in Groups, NEW s \in Sessions, s \notin Tabs(g), NEW h,
           h = [g EXCEPT !.sessions = Append(g.sessions, s), !.focused = s,
                         !.layout = Workspace!Upgraded(@, Len(Append(g.sessions, s)))]
    PROVE  h \in Groups /\ h.id = g.id /\ Tabs(h) = Tabs(g) \cup {s} /\ Settles(h, g)
<1> DEFINE ss == Append(g.sessions, s)
           l == Workspace!Upgraded(g.layout, Len(ss))
<1>1. /\ g \in GroupRecords /\ g.sessions \in Seq(Sessions) /\ Distinct(g.sessions)
      /\ g.layout \in 1 .. 4 /\ Len(g.sessions) \in Nat \ {0} /\ g.id \in GroupIds
    BY GroupIs
<1>2. h = [id |-> g.id, layout |-> l, sessions |-> ss, focused |-> s]
    BY <1>1 DEF GroupRecords
<1>3. HasOneMore(ss, g.sessions, Len(g.sessions) + 1, s, Sessions)
    BY <1>1, AppendHasMore
<1> HIDE DEF ss
<1>4. Len(ss) \in Nat \ {0} /\ Len(ss) # 1 /\ ss \in Seq(Sessions)
    BY <1>1, <1>3 DEF HasOneMore
<1>5. l \in 1 .. 4
    BY <1>1, <1>4, LayoutsAre
<1>6. Distinct(ss) /\ Elements(ss) = Tabs(g) \cup {s}
    <2>1. s \notin Elements(g.sessions) /\ Len(g.sessions) + 1 \in 1 .. Len(g.sessions) + 1
        BY <1>1 DEF Tabs
    <2> QED
        BY <1>1, <1>3, <2>1, DistinctMore DEF Tabs
<1>7. l # g.layout => l = Workspace!BestLayout(Len(ss))
    BY <1>1, <1>4, LayoutsAre
<1> HIDE DEF l
<1>8. /\ h \in Groups /\ h.id = g.id /\ Tabs(h) = Elements(ss)
      /\ h.layout = l /\ h.sessions = ss
    <2>1. Parts(g.id, l, ss, s)
        BY <1>1, <1>4, <1>5, <1>6 DEF Parts
    <2>2. IsMade([id |-> g.id, layout |-> l, sessions |-> ss, focused |-> s], g.id, l, ss, s)
        BY <2>1, Made
    <2>3. IsMade(h, g.id, l, ss, s)
        BY <1>2, <2>2
    <2> QED
        BY <2>3, Zenon DEF IsMade
<1> QED
    BY <1>6, <1>7, <1>8, BestSettles, Zenon

LEMMA WorkspaceKept ==
    ASSUME NEW seq, NEW S
    PROVE  Workspace!Kept(seq, S) = Kept(seq, S)
BY Zenon DEF Kept, Workspace!Kept

\* What is left of the sessions of a group.
LEMMA RestIs ==
    ASSUME NEW g \in Groups, NEW at \in 1 .. Len(g.sessions), NEW s, s = g.sessions[at],
           Len(g.sessions) > 1, NEW rest, rest = Workspace!Kept(g.sessions, Sessions \ {s})
    PROVE  /\ LacksOne(rest, g.sessions, at, Sessions)
           /\ rest \in Seq(Sessions) /\ Len(rest) = Len(g.sessions) - 1 /\ Len(rest) \in Nat \ {0}
           /\ Distinct(rest) /\ Elements(rest) = Tabs(g) \ {s}
<1>1. /\ g.sessions \in Seq(Sessions) /\ Distinct(g.sessions) /\ Len(g.sessions) \in Nat
    BY GroupIs
<1>2. \A i \in 1 .. Len(g.sessions) : i # at => g.sessions[i] \in Sessions \ {s}
    BY <1>1 DEF Distinct
<1>3. LacksOne(Kept(g.sessions, Sessions \ {s}), g.sessions, at, Sessions)
    BY <1>1, <1>2, KeptLacks
<1>4. LacksOne(rest, g.sessions, at, Sessions)
    BY <1>3, WorkspaceKept, Zenon
<1>5. Distinct(rest) /\ Elements(rest) = Elements(g.sessions) \ {s}
    <2>1. Elements(rest) = Elements(g.sessions) \ {g.sessions[at]}
        BY <1>1, <1>4, DistinctLacks
    <2>2. Distinct(rest)
        BY <1>1, <1>4, DistinctLacks
    <2> QED
        BY <2>1, <2>2
<1>6. rest \in Seq(Sessions) /\ Len(rest) = Len(g.sessions) - 1
    BY <1>4 DEF LacksOne
<1>7. Len(rest) \in Nat \ {0}
    BY <1>1, <1>6
<1> QED
    BY <1>4, <1>5, <1>6, <1>7, Zenon DEF Tabs

\* The session that a group has at a position.
LEMMA PositionOf ==
    ASSUME NEW g \in Groups, NEW s \in Tabs(g),
           NEW at, at = CHOOSE i \in DOMAIN g.sessions : g.sessions[i] = s
    PROVE  at \in 1 .. Len(g.sessions) /\ g.sessions[at] = s
<1>1. DOMAIN g.sessions = 1 .. Len(g.sessions)
    BY GroupIs
<1>2. \E i \in DOMAIN g.sessions : g.sessions[i] = s
    BY <1>1, Zenon DEF Tabs, Elements
<1> QED
    BY <1>1, <1>2, Zenon

\* h is what becomes of g with these sessions.
Follows(h, g, tabs) ==
    h \in Groups /\ h.id = g.id /\ Tabs(h) = tabs /\ Settles(h, g)

LEMMA MadeFollows ==
    ASSUME NEW g, NEW h, NEW l, NEW ss, NEW f, NEW tabs, IsMade(h, g.id, l, ss, f),
           l = g.layout \/ l = Workspace!BestLayout(Len(ss)), tabs = Elements(ss)
    PROVE  Follows(h, g, tabs)
<1>1. h \in Groups /\ h.layout = l /\ h.sessions = ss /\ h.id = g.id /\ Tabs(h) = tabs
    BY Zenon DEF IsMade
<1> QED
    BY <1>1, BestSettles, Zenon DEF Follows

\* A group that loses a session to a drag, or that a session of is closed of.
LEMMA ShrunkIs ==
    ASSUME NEW g \in Groups, NEW s \in Tabs(g), Len(g.sessions) > 1
    PROVE  Follows(Workspace!Shrunk(g, s), g, Tabs(g) \ {s})
<1> DEFINE rest == Workspace!Kept(g.sessions, Sessions \ {s})
           l == Workspace!BestLayout(Len(rest))
<1>1. g \in GroupRecords /\ g.id \in GroupIds
    BY GroupIs
<1>2. PICK at \in 1 .. Len(g.sessions) : s = g.sessions[at]
    BY Zenon DEF Tabs, Elements
<1>3. Workspace!Shrunk(g, s) = [id |-> g.id, layout |-> l, sessions |-> rest, focused |-> rest[1]]
    <2>1. Workspace!Shrunk(g, s)
            = [g EXCEPT !.sessions = rest, !.focused = rest[1], !.layout = l]
        BY DEF Workspace!Shrunk
    <2> HIDE DEF rest, l
    <2> QED
        BY <1>1, <2>1, AllFields, Zenon
<1>4. /\ rest \in Seq(Sessions) /\ Len(rest) \in Nat \ {0}
      /\ Distinct(rest) /\ Elements(rest) = Tabs(g) \ {s}
    BY <1>2, RestIs
<1> HIDE DEF rest
<1>5. l \in 1 .. 4 /\ (Len(rest) = 1 => l = 1)
    <2>1. Len(rest) \in Nat \ {0}
        BY <1>4
    <2>2. Workspace!BestLayout(Len(rest)) \in 1 .. 4
        BY <2>1, BestIs
    <2>3. Len(rest) = 1 => Workspace!BestLayout(Len(rest)) = 1
        BY <2>1, BestIs
    <2> QED
        BY <2>2, <2>3
<1>6. rest[1] \in Elements(rest)
    BY <1>4 DEF Elements
<1>7. Parts(g.id, l, rest, rest[1])
    BY <1>1, <1>4, <1>5, <1>6 DEF Parts
<1> HIDE DEF l
<1>8. IsMade([id |-> g.id, layout |-> l, sessions |-> rest, focused |-> rest[1]], g.id, l, rest, rest[1])
    BY <1>7, Made
<1>9. IsMade(Workspace!Shrunk(g, s), g.id, l, rest, rest[1])
    BY <1>3, <1>8, Zenon
<1>10. l = Workspace!BestLayout(Len(rest))
    BY DEF l
<1> QED
    BY <1>4, <1>9, <1>10, MadeFollows, Zenon

LEMMA WithoutIs ==
    ASSUME NEW g \in Groups, NEW s \in Tabs(g), Len(g.sessions) > 1
    PROVE  Follows(Workspace!Without(g, s), g, Tabs(g) \ {s})
<1> DEFINE rest == Workspace!Kept(g.sessions, Sessions \ {s})
           l == Workspace!BestLayout(Len(rest))
           at == CHOOSE i \in DOMAIN g.sessions : g.sessions[i] = s
           before == rest[Workspace!MaxOf(1, at - 1)]
           f == IF g.focused = s THEN before ELSE g.focused
<1>1. g \in GroupRecords /\ g.id \in GroupIds /\ g.focused \in Tabs(g) /\ Len(g.sessions) \in Nat
    BY GroupIs
<1>2. at \in 1 .. Len(g.sessions) /\ s = g.sessions[at]
    BY PositionOf
<1>3. Workspace!Without(g, s) = [id |-> g.id, layout |-> l, sessions |-> rest, focused |-> f]
    <2>1. Workspace!Without(g, s)
            = [g EXCEPT !.sessions = rest, !.layout = l,
                        !.focused = IF @ = s THEN before ELSE @]
        BY Zenon DEF Workspace!Without
    <2> HIDE DEF rest, l, before
    <2>2. [g EXCEPT !.sessions = rest, !.layout = l, !.focused = IF @ = s THEN before ELSE @]
            = [id |-> g.id, layout |-> l, sessions |-> rest,
               focused |-> IF g.focused = s THEN before ELSE g.focused]
        BY <1>1, FocusMoves
    <2> QED
        BY <2>1, <2>2, Zenon
<1> HIDE DEF at
<1>4. /\ rest \in Seq(Sessions) /\ Len(rest) \in Nat \ {0} /\ Len(rest) = Len(g.sessions) - 1
      /\ Distinct(rest) /\ Elements(rest) = Tabs(g) \ {s}
    BY <1>2, RestIs
<1> HIDE DEF rest
<1>5. l \in 1 .. 4 /\ (Len(rest) = 1 => l = 1)
    <2>1. Len(rest) \in Nat \ {0}
        BY <1>4
    <2>2. Workspace!BestLayout(Len(rest)) \in 1 .. 4
        BY <2>1, BestIs
    <2>3. Len(rest) = 1 => Workspace!BestLayout(Len(rest)) = 1
        BY <2>1, BestIs
    <2> QED
        BY <2>2, <2>3
<1>6. before \in Elements(rest)
    <2>1. Workspace!MaxOf(1, at - 1) \in 1 .. Len(rest)
        BY <1>1, <1>2, <1>4 DEF Workspace!MaxOf
    <2> QED
        BY <2>1 DEF Elements
<1> HIDE DEF before
<1>7. f \in Elements(rest)
    BY <1>1, <1>4, <1>6
<1> HIDE DEF f, l
<1>8. Parts(g.id, l, rest, f)
    BY <1>1, <1>4, <1>5, <1>7 DEF Parts
<1>9. IsMade([id |-> g.id, layout |-> l, sessions |-> rest, focused |-> f], g.id, l, rest, f)
    BY <1>8, Made
<1>10. IsMade(Workspace!Without(g, s), g.id, l, rest, f)
    BY <1>3, <1>9, Zenon
<1>11. l = Workspace!BestLayout(Len(rest))
    BY DEF l
<1> QED
    BY <1>4, <1>10, <1>11, MadeFollows, Zenon

LEMMA FocusedIs ==
    ASSUME NEW g \in Groups, NEW s \in Tabs(g)
    PROVE  Follows([g EXCEPT !.focused = s], g, Tabs(g))
<1>1. /\ g \in GroupRecords /\ g.id \in GroupIds /\ g.layout \in 1 .. 4 /\ Distinct(g.sessions)
      /\ g.sessions \in Seq(Sessions) /\ (Len(g.sessions) = 1 => g.layout = 1)
    BY GroupIs
<1>2. [g EXCEPT !.focused = s]
        = [id |-> g.id, layout |-> g.layout, sessions |-> g.sessions, focused |-> s]
    BY <1>1 DEF GroupRecords
<1>3. Parts(g.id, g.layout, g.sessions, s)
    BY <1>1 DEF Parts, Tabs
<1>4. IsMade([id |-> g.id, layout |-> g.layout, sessions |-> g.sessions, focused |-> s],
             g.id, g.layout, g.sessions, s)
    BY <1>3, Made
<1>5. IsMade([g EXCEPT !.focused = s], g.id, g.layout, g.sessions, s)
    BY <1>2, <1>4, Zenon
<1> QED
    BY <1>5, MadeFollows, Zenon DEF Tabs

\* Two sessions change places.
IsSwap(r, seq, i, j) ==
    /\ r \in Seq(Sessions) /\ Len(r) = Len(seq) /\ r[i] = seq[j]
    /\ Distinct(r) /\ Elements(r) = Elements(seq)

LEMMA SwappedIs ==
    ASSUME NEW seq \in Seq(Sessions), Distinct(seq),
           NEW i \in 1 .. Len(seq), NEW j \in 1 .. Len(seq)
    PROVE  IsSwap(Workspace!Swapped(seq, i, j), seq, i, j)
<1> DEFINE r == Workspace!Swapped(seq, i, j)
           from(k) == IF k = i THEN j ELSE IF k = j THEN i ELSE k
<1>0. Len(seq) \in Nat /\ (\A k \in 1 .. Len(seq) : seq[k] \in Sessions) /\ DOMAIN seq = 1 .. Len(seq)
    BY KeptLen, ElementsAre
<1>1. /\ DOMAIN r = 1 .. Len(seq)
      /\ \A k \in 1 .. Len(seq) : r[k] = IF k = j THEN seq[i] ELSE IF k = i THEN seq[j] ELSE seq[k]
      /\ r = [k \in 1 .. Len(seq) |-> r[k]]
    BY <1>0, Zenon DEF Workspace!Swapped
<1> HIDE DEF r
<1>2. \A k \in 1 .. Len(seq) : from(k) \in 1 .. Len(seq) /\ from(from(k)) = k
    OBVIOUS
<1>3. from(i) = j /\ \A k \in 1 .. Len(seq) : r[k] = seq[from(k)]
    BY <1>1
<1> HIDE DEF from
<1>4. \A k \in 1 .. Len(seq) : r[k] \in Sessions
    BY <1>0, <1>2, <1>3, Zenon
<1>5. r \in Seq(Sessions) /\ Len(r) = Len(seq)
    BY <1>0, <1>1, <1>4
<1>6. Distinct(r)
    <2> SUFFICES ASSUME NEW m \in 1 .. Len(seq), NEW n \in 1 .. Len(seq), r[m] = r[n] PROVE m = n
        BY <1>5, Zenon DEF Distinct
    <2>1. from(m) = from(n)
        BY <1>2, <1>3, Zenon DEF Distinct
    <2> QED
        BY <1>2, <2>1, Zenon
<1>7. ASSUME NEW x \in Elements(r) PROVE x \in Elements(seq)
    <2>1. PICK k \in 1 .. Len(seq) : x = r[k]
        BY <1>5, Zenon DEF Elements
    <2> QED
        BY <1>2, <1>3, <2>1, Zenon DEF Elements
<1>8. ASSUME NEW x \in Elements(seq) PROVE x \in Elements(r)
    <2>1. PICK k \in 1 .. Len(seq) : x = seq[k]
        BY Zenon DEF Elements
    <2>2. r[from(k)] = x /\ from(k) \in 1 .. Len(r)
        BY <1>2, <1>3, <1>5, <2>1, Zenon
    <2> QED
        BY <2>2, Zenon DEF Elements
<1>9. Elements(r) = Elements(seq)
    BY <1>7, <1>8, Zenon
<1>10. IsSwap(r, seq, i, j)
    BY <1>3, <1>5, <1>6, <1>9, Zenon DEF IsSwap
<1> QED
    BY <1>10, Zenon DEF r

\* Another layout, and an order in which it shows the focus.
LEMMA ReshapedTo ==
    ASSUME NEW g \in Groups, NEW l \in 1 .. 4, Len(g.sessions) # 1, NEW order \in Seq(Sessions),
           Len(order) = Len(g.sessions), Distinct(order), Elements(order) = Tabs(g),
           l > 1 => \E i \in 1 .. Workspace!MinOf(l, Len(order)) : order[i] = g.focused
    PROVE  Follows([g EXCEPT !.layout = l, !.sessions = order], g, Tabs(g))
<1> DEFINE h == [g EXCEPT !.layout = l, !.sessions = order]
<1>1. /\ g \in GroupRecords /\ g.id \in GroupIds /\ g.focused \in Tabs(g)
      /\ Len(g.sessions) \in Nat \ {0}
    BY GroupIs
<1>2. h = [id |-> g.id, layout |-> l, sessions |-> order, focused |-> g.focused]
    BY <1>1, TwoFields
<1>3. Parts(g.id, l, order, g.focused)
    <2>1. Len(order) # 1
        BY Zenon
    <2> QED
        BY <1>1, <2>1, Zenon DEF Parts
<1>4. IsMade([id |-> g.id, layout |-> l, sessions |-> order, focused |-> g.focused],
             g.id, l, order, g.focused)
    BY <1>3, Made
<1> HIDE DEF h
<1>5. IsMade(h, g.id, l, order, g.focused)
    BY <1>2, <1>4, Zenon
<1>6. h \in Groups /\ h.id = g.id /\ Tabs(h) = Tabs(g) /\ h.layout = l /\ h.sessions = order
      /\ h.focused = g.focused
    BY <1>5, Zenon DEF IsMade
<1>7. Workspace!Visible(h, h.focused)
    <2>1. CASE l = 1
        BY <1>6, <2>1 DEF Workspace!Visible
    <2>2. CASE l # 1
        <3>1. l > 1
            BY <2>2
        <3> QED
            BY <1>6, <2>2, <3>1, Zenon DEF Workspace!Visible
    <2> QED
        BY <2>1, <2>2
<1>8. Follows(h, g, Tabs(g))
    BY <1>6, <1>7, Zenon DEF Follows, Settles
<1> QED
    BY <1>8, Zenon DEF h

LEMMA Several == \A n \in Nat \ {0} : n > 1 <=> n # 1
OBVIOUS

\* A focused session without a slot changes places with the first one.
Reshaped(g, l) ==
    LET at == CHOOSE i \in DOMAIN g.sessions : g.sessions[i] = g.focused
        order == IF l > 1 /\ at > l THEN Workspace!Swapped(g.sessions, 1, at) ELSE g.sessions
    IN  [g EXCEPT !.layout = l, !.sessions = order]

LEMMA ReshapedIs ==
    ASSUME NEW g \in Groups, NEW l \in 1 .. 4, Len(g.sessions) > 1
    PROVE  Follows(Reshaped(g, l), g, Tabs(g))
<1> DEFINE at == CHOOSE i \in DOMAIN g.sessions : g.sessions[i] = g.focused
           order == IF l > 1 /\ at > l THEN Workspace!Swapped(g.sessions, 1, at) ELSE g.sessions
<1>0. Reshaped(g, l) = [g EXCEPT !.layout = l, !.sessions = order]
    BY DEF Reshaped
<1>1. /\ g.focused \in Tabs(g) /\ Distinct(g.sessions)
      /\ g.sessions \in Seq(Sessions) /\ Len(g.sessions) \in Nat \ {0}
    BY GroupIs
<1>2. at \in 1 .. Len(g.sessions) /\ g.sessions[at] = g.focused
    BY <1>1, PositionOf
<1> HIDE DEF at
<1>3. /\ order \in Seq(Sessions) /\ Len(order) = Len(g.sessions) /\ Distinct(order)
      /\ Elements(order) = Tabs(g)
      /\ l > 1 => \E i \in 1 .. Workspace!MinOf(l, Len(order)) : order[i] = g.focused
    <2>1. CASE l > 1 /\ at > l
        <3>1. order = Workspace!Swapped(g.sessions, 1, at) /\ 1 \in 1 .. Len(g.sessions)
            BY <1>1, <2>1
        <3>2. /\ order \in Seq(Sessions) /\ Len(order) = Len(g.sessions) /\ Distinct(order)
              /\ Elements(order) = Tabs(g) /\ order[1] = g.focused
            <4>1. IsSwap(Workspace!Swapped(g.sessions, 1, at), g.sessions, 1, at)
                BY <1>1, <1>2, <3>1, SwappedIs
            <4> QED
                BY <1>2, <3>1, <4>1, Zenon DEF IsSwap, Tabs
        <3>3. 1 \in 1 .. Workspace!MinOf(l, Len(order))
            BY <1>1, <3>2 DEF Workspace!MinOf
        <3> QED
            BY <3>2, <3>3, Zenon
    <2>2. CASE ~(l > 1 /\ at > l)
        <3>1. order = g.sessions
            BY <2>2
        <3>2. l > 1 => at \in 1 .. Workspace!MinOf(l, Len(order))
            BY <1>1, <1>2, <2>2, <3>1 DEF Workspace!MinOf
        <3> QED
            BY <1>1, <1>2, <3>1, <3>2, Zenon DEF Tabs
    <2> QED
        BY <2>1, <2>2
<1> HIDE DEF order
<1>4. Len(g.sessions) # 1
    BY <1>1, Several, Zenon
<1>5. Follows([g EXCEPT !.layout = l, !.sessions = order], g, Tabs(g))
    BY <1>3, <1>4, ReshapedTo, Zenon
<1> QED
    BY <1>0, <1>5, Zenon

\* A session takes the place of another one.
LEMMA ReorderedIs ==
    ASSUME NEW g \in Groups, NEW s \in Tabs(g), NEW target \in Tabs(g), s # target, NEW rest, NEW to,
           rest = Workspace!Kept(g.sessions, Sessions \ {s}),
           to = CHOOSE i \in DOMAIN g.sessions : g.sessions[i] = target
    PROVE  Follows([g EXCEPT !.sessions = Workspace!InsertAt(rest, to, s)], g, Tabs(g))
<1> DEFINE ss == Workspace!InsertAt(rest, to, s)
<1>1. /\ g \in GroupRecords /\ g.id \in GroupIds /\ g.focused \in Tabs(g) /\ Distinct(g.sessions)
      /\ g.sessions \in Seq(Sessions) /\ Len(g.sessions) \in Nat \ {0} /\ g.layout \in 1 .. 4
      /\ Tabs(g) \subseteq Sessions
    BY GroupIs
<1>2. PICK at \in 1 .. Len(g.sessions) : s = g.sessions[at]
    BY Zenon DEF Tabs, Elements
<1>3. to \in 1 .. Len(g.sessions) /\ g.sessions[to] = target
    BY PositionOf
<1>4. Len(g.sessions) > 1 /\ Len(g.sessions) # 1
    <2>1. at # to
        BY <1>2, <1>3
    <2> QED
        BY <1>1, <1>2, <1>3, <2>1
<1>5. /\ rest \in Seq(Sessions) /\ Len(rest) = Len(g.sessions) - 1
      /\ Distinct(rest) /\ Elements(rest) = Tabs(g) \ {s}
    BY <1>2, <1>4, RestIs
<1>6. to \in 1 .. Len(rest) + 1 /\ s \in Sessions /\ s \notin Elements(rest)
    <2>1. to \in 1 .. Len(rest) + 1
        BY <1>1, <1>3, <1>5
    <2> QED
        BY <1>1, <1>5, <2>1, Zenon
<1>7. HasOneMore(ss, rest, to, s, Sessions)
    BY <1>5, <1>6, Inserted
<1> HIDE DEF ss
<1>8. ss \in Seq(Sessions) /\ Len(ss) = Len(g.sessions)
    BY <1>1, <1>5, <1>7 DEF HasOneMore
<1>9. Distinct(ss) /\ Elements(ss) = Tabs(g)
    <2>1. Distinct(ss) /\ Elements(ss) = Elements(rest) \cup {s}
        BY <1>5, <1>6, <1>7, DistinctMore
    <2> QED
        BY <1>5, <2>1
<1>10. [g EXCEPT !.sessions = ss]
         = [id |-> g.id, layout |-> g.layout, sessions |-> ss, focused |-> g.focused]
    BY <1>1, OneField, Zenon
<1>11. Parts(g.id, g.layout, ss, g.focused)
    <2>1. Len(ss) # 1
        BY <1>4, <1>8, Zenon
    <2> QED
        BY <1>1, <1>8, <1>9, <2>1, Zenon DEF Parts
<1>12. IsMade([id |-> g.id, layout |-> g.layout, sessions |-> ss, focused |-> g.focused],
              g.id, g.layout, ss, g.focused)
    BY <1>11, Made
<1>13. IsMade([g EXCEPT !.sessions = ss], g.id, g.layout, ss, g.focused)
    BY <1>10, <1>12, Zenon
<1>14. Follows([g EXCEPT !.sessions = ss], g, Tabs(g))
    BY <1>9, <1>13, MadeFollows, Zenon
<1> QED
    BY <1>14, Zenon DEF ss

LEMMA ListIs ==
    ASSUME NEW gs, Placed(gs)
    PROVE  /\ Workspace!ToSet(gs) = Elements(gs) /\ Elements(gs) \subseteq Groups
           /\ gs \in Seq(Groups) /\ Len(gs) \in Nat /\ DOMAIN gs = 1 .. Len(gs)
           /\ gs = <<>> <=> Elements(gs) = {}
           /\ \A g, h \in Elements(gs) : g # h => Apart(g, h)
           /\ \A id : Workspace!HasGroup(gs, id) <=> \E g \in Elements(gs) : g.id = id
           /\ \A s : s \in Workspace!Held(gs) <=> \E g \in Elements(gs) : s \in Tabs(g)
<1>1. gs \in Seq(Groups)
    BY DEF Placed
<1>2. /\ Workspace!ToSet(gs) = Elements(gs) /\ Elements(gs) \subseteq Groups
      /\ Len(gs) \in Nat /\ DOMAIN gs = 1 .. Len(gs) /\ (gs = <<>> <=> Len(gs) = 0)
    BY <1>1, ElementsAre
<1>3. gs = <<>> <=> Elements(gs) = {}
    <2>1. Len(gs) = 0 => 1 .. Len(gs) = {}
        OBVIOUS
    <2>2. Len(gs) # 0 => 1 \in 1 .. Len(gs)
        BY <1>2
    <2> QED
        BY <1>2, <2>1, <2>2, Zenon DEF Elements
<1>4. \A g, h \in Elements(gs) : g # h => Apart(g, h)
    BY Zenon DEF Placed, Elements
<1>5. \A id : Workspace!HasGroup(gs, id) <=> \E g \in Elements(gs) : g.id = id
    BY <1>2, Zenon DEF Workspace!HasGroup
<1>6. \A g \in Elements(gs) : Workspace!ToSet(g.sessions) = Tabs(g)
    BY <1>2, GroupIs
<1>7. \A s : s \in Workspace!Held(gs) <=> \E g \in Elements(gs) : s \in Tabs(g)
    BY <1>2, <1>6 DEF Workspace!Held
<1> QED
    BY <1>1, <1>2, <1>3, <1>4, <1>5, <1>7, Zenon

\* The group with an identity.
LEMMA GroupOfIs ==
    ASSUME NEW gs, Placed(gs), NEW id, Workspace!HasGroup(gs, id)
    PROVE  /\ Workspace!GroupOf(gs, id) \in Elements(gs) /\ Workspace!GroupOf(gs, id) \in Groups
           /\ Workspace!GroupOf(gs, id).id = id
           /\ Workspace!Members(gs, id) = Tabs(Workspace!GroupOf(gs, id))
           /\ \A h \in Elements(gs) : h.id = id => h = Workspace!GroupOf(gs, id)
<1> DEFINE g == Workspace!GroupOf(gs, id)
<1>1. /\ Workspace!ToSet(gs) = Elements(gs) /\ Elements(gs) \subseteq Groups
      /\ \E h \in Elements(gs) : h.id = id
    BY ListIs
<1>2. g \in Elements(gs) /\ g.id = id
    BY <1>1, Zenon DEF Workspace!GroupOf
<1> HIDE DEF g
<1>3. \A h \in Elements(gs) : h.id = id => h = g
    BY <1>2, ListIs DEF Apart
<1>4. g \in Groups /\ Workspace!ToSet(g.sessions) = Tabs(g)
    BY <1>1, <1>2, GroupIs
<1>5. {x \in Workspace!ToSet(gs) : x.id = id} = {g}
    BY <1>1, <1>2, <1>3
<1>6. Workspace!Members(gs, id) = Tabs(g)
    BY <1>4, <1>5 DEF Workspace!Members
<1> QED
    BY <1>2, <1>3, <1>4, <1>6, Zenon DEF g

LEMMA MembersOf ==
    ASSUME NEW gs, Placed(gs), NEW id, NEW s \in Workspace!Members(gs, id)
    PROVE  Workspace!HasGroup(gs, id)
BY DEF Workspace!Members, Workspace!HasGroup

\* One group changes; one disappears.
LEMMA ChangedOne ==
    ASSUME NEW gs, Placed(gs), NEW g \in Elements(gs), NEW h, NEW tabs, Follows(h, g, tabs),
           \A o \in Elements(gs) : o # g => Tabs(o) \cap tabs = {}
    PROVE  /\ Placed(Workspace!Updated(gs, g.id, h))
           /\ Elements(Workspace!Updated(gs, g.id, h)) = (Elements(gs) \ {g}) \cup {h}
<1>1. PICK at \in 1 .. Len(gs) : gs[at] = g
    BY Zenon DEF Elements
<1>2. h \in Groups /\ h.id = g.id /\ Tabs(h) = tabs
    BY Zenon DEF Follows
<1>3. \A o \in Elements(gs) : o # g => Apart(o, h)
    BY <1>2, ListIs DEF Apart
<1>4. /\ Placed(Workspace!Updated(gs, h.id, h))
      /\ Elements(Workspace!Updated(gs, h.id, h)) = (Elements(gs) \ {gs[at]}) \cup {h}
    BY <1>1, <1>2, <1>3, ListUpdated
<1> QED
    BY <1>1, <1>2, <1>4, Zenon

LEMMA RemovedOne ==
    ASSUME NEW gs, Placed(gs), NEW g \in Elements(gs)
    PROVE  LET r == Workspace!Kept(gs, {x \in Workspace!ToSet(gs) : x.id # g.id})
           IN  Placed(r) /\ Elements(r) = Elements(gs) \ {g}
<1> DEFINE S == {x \in Workspace!ToSet(gs) : x.id # g.id}
<1>1. PICK at \in 1 .. Len(gs) : gs[at] = g
    BY Zenon DEF Elements
<1>2. gs \in Seq(Groups) /\ Workspace!ToSet(gs) = Elements(gs)
    BY ListIs
<1>3. \A i \in 1 .. Len(gs) : i # at => gs[i] \in S
    BY <1>1, <1>2 DEF Placed, Apart, Elements
<1>4. gs[at] \notin S
    BY <1>1
<1> HIDE DEF S
<1>5. LacksOne(Kept(gs, S), gs, at, Groups)
    BY <1>2, <1>3, <1>4, KeptLacks
<1>6. Placed(Kept(gs, S)) /\ Elements(Kept(gs, S)) = Elements(gs) \ {gs[at]}
    BY <1>5, ListLacks
<1>7. Workspace!Kept(gs, S) = Kept(gs, S)
    BY WorkspaceKept
<1> QED
    BY <1>1, <1>6, <1>7, Zenon DEF S

-----------------------------------------------------------------------------
\* What a step makes of the groups: they stay in order, one of them is shown,
\* no session but those gone has left, and a new layout shows its focus.
WellMoved(gs, a, gone) ==
    /\ Placed(gs)
    /\ gs # <<>> => Workspace!HasGroup(gs, a)
    /\ \A s \in Workspace!Held(groups) : s \notin gone => s \in Workspace!Held(gs)
    /\ \A new \in Elements(gs), old \in Elements(groups) : new.id = old.id => Settles(new, old)

LEMMA SameSettles ==
    ASSUME NEW g
    PROVE  Settles(g, g)
BY DEF Settles

LEMMA ChangeMoves ==
    ASSUME Placed(groups), NEW g \in Elements(groups), NEW h, NEW tabs, Follows(h, g, tabs),
           \A o \in Elements(groups) : o # g => Tabs(o) \cap tabs = {},
           NEW gone, Tabs(g) \ gone \subseteq tabs, NEW a, Workspace!HasGroup(groups, a)
    PROVE  WellMoved(Workspace!Updated(groups, g.id, h), a, gone)
<1> DEFINE r == Workspace!Updated(groups, g.id, h)
<1>1. Placed(r) /\ Elements(r) = (Elements(groups) \ {g}) \cup {h}
    BY ChangedOne
<1> HIDE DEF r
<1>2. h \in Groups /\ h.id = g.id /\ Tabs(h) = tabs /\ Settles(h, g)
    BY Zenon DEF Follows
<1>3. Workspace!HasGroup(r, a)
    <2>1. PICK o \in Elements(groups) : o.id = a
        BY ListIs
    <2>2. \E n \in Elements(r) : n.id = a
        BY <1>1, <1>2, <2>1
    <2> QED
        BY <1>1, <2>2, ListIs
<1>4. ASSUME NEW s \in Workspace!Held(groups), s \notin gone PROVE s \in Workspace!Held(r)
    <2>1. PICK o \in Elements(groups) : s \in Tabs(o)
        BY ListIs
    <2>2. \E n \in Elements(r) : s \in Tabs(n)
        BY <1>1, <1>2, <1>4, <2>1
    <2> QED
        BY <1>1, <2>2, ListIs
<1>5. ASSUME NEW new \in Elements(r), NEW old \in Elements(groups), new.id = old.id
      PROVE  Settles(new, old)
    <2>1. \A x, y \in Elements(groups) : x.id = y.id => x = y
        BY ListIs DEF Apart
    <2>2. CASE new = h
        BY <1>2, <1>5, <2>1, <2>2
    <2>3. CASE new # h
        BY <1>1, <1>5, <2>1, <2>3, SameSettles
    <2> QED
        BY <2>2, <2>3
<1>6. WellMoved(r, a, gone)
    BY <1>1, <1>3, <1>4, <1>5, Zenon DEF WellMoved
<1> QED
    BY <1>6, Zenon DEF r

\* The groups without a session that is being dragged out of g.
IsReleased(r, g, s) ==
    /\ Placed(r)
    /\ \A o \in Elements(groups) : o # g => o \in Elements(r)
    /\ \A h \in Elements(r) :
         /\ s \notin Tabs(h)
         /\ \E o \in Elements(groups) : h.id = o.id /\ Settles(h, o) /\ Tabs(h) \subseteq Tabs(o)
    /\ \A t \in Tabs(g) : t # s => \E h \in Elements(r) : t \in Tabs(h)
    /\ Len(g.sessions) = 1 => Tabs(g) = {s} /\ \A h \in Elements(r) : h.id # g.id
    /\ Len(g.sessions) # 1 => \E h \in Elements(r) : h.id = g.id

LEMMA ReleasedIs ==
    ASSUME Placed(groups), NEW g \in Elements(groups), NEW s \in Tabs(g)
    PROVE  IsReleased(Workspace!Released(groups, g.id, s), g, s)
<1> DEFINE r == Workspace!Released(groups, g.id, s)
<1>1. g \in Groups /\ Workspace!GroupOf(groups, g.id) = g
    <2>1. Workspace!HasGroup(groups, g.id)
        BY ListIs
    <2> QED
        BY <2>1, GroupOfIs, ListIs
<1>2. Len(g.sessions) \in Nat \ {0}
    BY <1>1, GroupIs
<1>3. \A o \in Elements(groups) : o # g => s \notin Tabs(o) /\ o.id # g.id
    BY ListIs DEF Apart
<1>4. CASE Len(g.sessions) = 1
    <2>1. r = Workspace!Kept(groups, {x \in Workspace!ToSet(groups) : x.id # g.id})
        BY <1>1, <1>4, Zenon DEF Workspace!Released
    <2> HIDE DEF r
    <2>2. Placed(r) /\ Elements(r) = Elements(groups) \ {g}
        BY <2>1, RemovedOne
    <2>3. Tabs(g) = {s}
        BY <1>4 DEF Tabs, Elements
    <2>4. \A h \in Elements(r) : h \in Elements(groups) /\ Settles(h, h) /\ s \notin Tabs(h)
        BY <1>3, <2>2, SameSettles
    <2>5. IsReleased(r, g, s)
        BY <1>3, <1>4, <2>2, <2>3, <2>4 DEF IsReleased
    <2> QED
        BY <2>5, Zenon DEF r
<1>5. CASE Len(g.sessions) # 1
    <2> DEFINE h == Workspace!Shrunk(g, s)
    <2>1. r = Workspace!Updated(groups, g.id, h)
        BY <1>1, <1>5, Zenon DEF Workspace!Released
    <2>2. Len(g.sessions) > 1
        BY <1>2, <1>5, Several, Zenon
    <2>3. Follows(h, g, Tabs(g) \ {s})
        BY <1>1, <2>2, ShrunkIs
    <2> HIDE DEF r, h
    <2>4. \A o \in Elements(groups) : o # g => Tabs(o) \cap (Tabs(g) \ {s}) = {}
        BY ListIs DEF Apart
    <2>5. Placed(r) /\ Elements(r) = (Elements(groups) \ {g}) \cup {h}
        BY <2>1, <2>3, <2>4, ChangedOne
    <2>6. h.id = g.id /\ Tabs(h) = Tabs(g) \ {s} /\ Settles(h, g)
        BY <2>3, Zenon DEF Follows
    <2>7. \A n \in Elements(r) :
            /\ s \notin Tabs(n)
            /\ \E o \in Elements(groups) : n.id = o.id /\ Settles(n, o) /\ Tabs(n) \subseteq Tabs(o)
        BY <1>3, <2>5, <2>6, SameSettles
    <2>8. IsReleased(r, g, s)
        BY <1>5, <2>5, <2>6, <2>7 DEF IsReleased
    <2> QED
        BY <2>8, Zenon DEF r
<1> QED
    BY <1>4, <1>5

-----------------------------------------------------------------------------
\* What each operation makes of the groups.
PlacedInv == Placed(groups) /\ (groups # <<>> => Workspace!HasGroup(groups, active))

LEMMA EmptyMoves ==
    ASSUME NEW a
    PROVE  WellMoved(<<>>, a, Workspace!Held(groups))
<1>1. Placed(<<>>) /\ Elements(<<>>) = {}
    BY DEF Placed, Elements
<1> QED
    BY <1>1, Zenon DEF WellMoved

LEMMA OpenMoves ==
    ASSUME NEW id \in GroupIds, NEW s \in Sessions, Workspace!OpenPage(id, s)
    PROVE  WellMoved(<<Workspace!Solo(id, s)>>, id, {})
<1> DEFINE g == Workspace!Solo(id, s)
<1>1. g \in Groups /\ g.id = id
    BY SoloIs
<1> HIDE DEF g
<1>2. Placed(<<g>>) /\ Elements(<<g>>) = {g} /\ <<g>> # <<>>
    BY <1>1 DEF Placed, Elements
<1>3. Workspace!HasGroup(<<g>>, id)
    BY <1>1, <1>2, ListIs
<1>4. groups = <<>>
    BY Zenon DEF Workspace!OpenPage, Workspace!Open
<1>5. Placed(groups) /\ Elements(groups) = {}
    BY <1>4 DEF Placed, Elements
<1>6. \A t : t \notin Workspace!Held(groups)
    BY <1>5, ListIs
<1>7. WellMoved(<<g>>, id, {})
    BY <1>2, <1>3, <1>5, <1>6, Zenon DEF WellMoved
<1> QED
    BY <1>7, Zenon DEF g

LEMMA AddMoves ==
    ASSUME PlacedInv, NEW s \in Sessions, Workspace!AddSession(s)
    PROVE  \E gs : Workspace!Render(gs, active) /\ WellMoved(gs, active, {})
<1> DEFINE g == Workspace!GroupOf(groups, active)
           h == [g EXCEPT !.sessions = Append(g.sessions, s), !.focused = s,
                          !.layout = Workspace!Upgraded(@, Len(Append(g.sessions, s)))]
<1>1. /\ groups # <<>> /\ s \notin Workspace!Held(groups)
      /\ Workspace!Render(Workspace!Updated(groups, active, h), active)
    BY Zenon DEF Workspace!AddSession, Workspace!Open
<1>2. Placed(groups) /\ Workspace!HasGroup(groups, active)
    BY <1>1, Zenon DEF PlacedInv
<1>3. g \in Elements(groups) /\ g \in Groups /\ g.id = active
    BY <1>2, GroupOfIs
<1>4. \A o \in Elements(groups) : s \notin Tabs(o)
    BY <1>1, <1>2, ListIs
<1> HIDE DEF g
<1>5. Follows(h, g, Tabs(g) \cup {s})
    BY <1>3, <1>4, AddedTo, Zenon DEF Follows
<1> HIDE DEF h
<1>6. \A o \in Elements(groups) : o # g => Tabs(o) \cap (Tabs(g) \cup {s}) = {}
    BY <1>2, <1>3, <1>4, ListIs DEF Apart
<1>7. WellMoved(Workspace!Updated(groups, g.id, h), active, {})
    BY <1>2, <1>3, <1>5, <1>6, ChangeMoves
<1> QED
    BY <1>1, <1>3, <1>7, Zenon

LEMMA FocusMoved ==
    ASSUME PlacedInv, NEW id, NEW a, Workspace!HasGroup(groups, a), NEW s \in Workspace!Members(groups, id)
    PROVE  WellMoved(Workspace!Updated(groups, id,
                       [Workspace!GroupOf(groups, id) EXCEPT !.focused = s]), a, {})
<1> DEFINE g == Workspace!GroupOf(groups, id)
           h == [g EXCEPT !.focused = s]
<1>1. Placed(groups) /\ Workspace!HasGroup(groups, id)
    BY MembersOf DEF PlacedInv
<1>2. g \in Elements(groups) /\ g \in Groups /\ g.id = id /\ s \in Tabs(g)
    BY <1>1, GroupOfIs
<1> HIDE DEF g
<1>3. Follows(h, g, Tabs(g))
    BY <1>2, FocusedIs
<1> HIDE DEF h
<1>4. \A o \in Elements(groups) : o # g => Tabs(o) \cap Tabs(g) = {}
    BY <1>1, <1>2, ListIs DEF Apart
<1>5. WellMoved(Workspace!Updated(groups, g.id, h), a, {})
    BY <1>1, <1>2, <1>3, <1>4, ChangeMoves
<1> QED
    BY <1>2, <1>5, Zenon DEF g, h

LEMMA LayoutMoves ==
    ASSUME PlacedInv, NEW l \in 1 .. 4, Workspace!ChangeLayout(l)
    PROVE  \E gs : Workspace!Render(gs, active) /\ WellMoved(gs, active, {})
<1> DEFINE g == Workspace!GroupOf(groups, active)
           h == Reshaped(g, l)
<1>1. /\ groups # <<>> /\ Len(g.sessions) > 1
      /\ Workspace!Render(Workspace!Updated(groups, active, h), active)
    BY Zenon DEF Workspace!ChangeLayout, Workspace!Open, Reshaped
<1>2. Placed(groups) /\ Workspace!HasGroup(groups, active)
    BY <1>1, Zenon DEF PlacedInv
<1>3. g \in Elements(groups) /\ g \in Groups /\ g.id = active
    BY <1>2, GroupOfIs
<1> HIDE DEF g
<1>4. Follows(h, g, Tabs(g))
    BY <1>1, <1>3, ReshapedIs
<1> HIDE DEF h
<1>5. \A o \in Elements(groups) : o # g => Tabs(o) \cap Tabs(g) = {}
    BY <1>2, <1>3, ListIs DEF Apart
<1>6. WellMoved(Workspace!Updated(groups, g.id, h), active, {})
    BY <1>2, <1>3, <1>4, <1>5, ChangeMoves
<1> QED
    BY <1>1, <1>3, <1>6, Zenon

LEMMA MenuMoves ==
    ASSUME PlacedInv, NEW id, Workspace!HasGroup(groups, id)
    PROVE  WellMoved(groups, id, {})
<1>1. Placed(groups)
    BY DEF PlacedInv
<1>2. \A x, y \in Elements(groups) : x.id = y.id => x = y
    BY <1>1, ListIs DEF Apart
<1> QED
    BY <1>1, <1>2, SameSettles, Zenon DEF WellMoved

LEMMA ReorderMoves ==
    ASSUME PlacedInv, NEW id, NEW s, NEW target, Workspace!Reorder(id, s, target)
    PROVE  \E gs : Workspace!Render(gs, active) /\ WellMoved(gs, active, {})
<1> DEFINE g == Workspace!GroupOf(groups, id)
           rest == Workspace!Kept(g.sessions, Sessions \ {s})
           to == CHOOSE i \in DOMAIN g.sessions : g.sessions[i] = target
           h == [g EXCEPT !.sessions = Workspace!InsertAt(rest, to, s)]
<1>1. /\ s \in Workspace!Members(groups, id) /\ target \in Workspace!Members(groups, id) /\ s # target
      /\ Workspace!Render(Workspace!Updated(groups, id, h), active)
    BY Zenon DEF Workspace!Reorder
<1>2. Placed(groups) /\ Workspace!HasGroup(groups, id)
    BY <1>1, MembersOf DEF PlacedInv
<1>3. /\ g \in Elements(groups) /\ g \in Groups /\ g.id = id /\ s \in Tabs(g) /\ target \in Tabs(g)
    BY <1>1, <1>2, GroupOfIs
<1>4. Workspace!HasGroup(groups, active)
    BY <1>2, <1>3, ListIs DEF PlacedInv
<1> HIDE DEF g
<1>5. Follows(h, g, Tabs(g))
    BY <1>1, <1>3, ReorderedIs
<1> HIDE DEF h
<1>6. \A o \in Elements(groups) : o # g => Tabs(o) \cap Tabs(g) = {}
    BY <1>2, <1>3, ListIs DEF Apart
<1>7. WellMoved(Workspace!Updated(groups, g.id, h), active, {})
    BY <1>2, <1>3, <1>4, <1>5, <1>6, ChangeMoves
<1> QED
    BY <1>1, <1>3, <1>7, Zenon

LEMMA CloseMoves ==
    ASSUME PlacedInv, NEW id, NEW s, Workspace!CloseSession(id, s)
    PROVE  \/ Workspace!Render(<<>>, NoGroup)
           \/ \E gs, a : Workspace!Render(gs, a) /\ WellMoved(gs, a, {s})
<1> DEFINE g == Workspace!GroupOf(groups, id)
           others == Workspace!Kept(groups, {x \in Workspace!ToSet(groups) : x.id # id})
           h == Workspace!Without(g, s)
           a == IF active = id THEN others[1].id ELSE active
<1>1. /\ s \in Workspace!Members(groups, id)
      /\ IF Len(g.sessions) > 1
         THEN Workspace!Render(Workspace!Updated(groups, id, h), active)
         ELSE IF others = <<>> THEN Workspace!Render(<<>>, NoGroup)
         ELSE Workspace!Render(others, a)
    BY Zenon DEF Workspace!CloseSession
<1>2. Placed(groups) /\ Workspace!HasGroup(groups, id)
    BY <1>1, MembersOf DEF PlacedInv
<1>3. /\ g \in Elements(groups) /\ g \in Groups /\ g.id = id /\ s \in Tabs(g)
    BY <1>1, <1>2, GroupOfIs
<1>4. Workspace!HasGroup(groups, active)
    BY <1>2, <1>3, ListIs DEF PlacedInv
<1>5. CASE Len(g.sessions) > 1
    <2> HIDE DEF g
    <2>1. Follows(h, g, Tabs(g) \ {s})
        BY <1>3, <1>5, WithoutIs
    <2>2. Workspace!Render(Workspace!Updated(groups, id, h), active)
        BY <1>1, <1>5, Zenon
    <2> HIDE DEF h
    <2>3. \A o \in Elements(groups) : o # g => Tabs(o) \cap (Tabs(g) \ {s}) = {}
        BY <1>2, <1>3, ListIs DEF Apart
    <2>4. Tabs(g) \ {s} \subseteq Tabs(g) \ {s}
        OBVIOUS
    <2>5. WellMoved(Workspace!Updated(groups, g.id, h), active, {s})
        BY <1>2, <1>3, <1>4, <2>1, <2>3, <2>4, ChangeMoves
    <2> QED
        BY <1>3, <2>2, <2>5, Zenon
<1>6. CASE ~(Len(g.sessions) > 1) /\ others # <<>>
    <2> HIDE DEF g
    <2>1. Workspace!Render(others, a)
        BY <1>1, <1>6, Zenon
    <2>2. Placed(others) /\ Elements(others) = Elements(groups) \ {g}
        <3>1. others = Workspace!Kept(groups, {x \in Workspace!ToSet(groups) : x.id # g.id})
            BY <1>3, Zenon
        <3> HIDE DEF others
        <3> QED
            BY <1>2, <1>3, <3>1, RemovedOne
    <2> HIDE DEF others
    <2>3. Tabs(g) = {s}
        <3>1. Len(g.sessions) = 1
            BY <1>3, <1>6, GroupIs, Several, Zenon
        <3> QED
            BY <1>3, <3>1 DEF Tabs, Elements
    <2>4. Workspace!HasGroup(others, a)
        <3>1. CASE active = id
            <4>1. others[1] \in Elements(others)
                BY <1>6, <2>2, ListIs, ElementsAre DEF Elements
            <4> QED
                BY <2>2, <3>1, <4>1, ListIs
        <3>2. CASE active # id
            <4>1. PICK o \in Elements(groups) : o.id = active
                BY <1>2, <1>4, ListIs
            <4>2. o \in Elements(others)
                BY <1>3, <2>2, <3>2, <4>1
            <4> QED
                BY <2>2, <3>2, <4>1, <4>2, ListIs
        <3> QED
            BY <3>1, <3>2
    <2>5. \A t \in Workspace!Held(groups) : t \notin {s} => t \in Workspace!Held(others)
        BY <1>2, <2>2, <2>3, ListIs
    <2>6. \A x, y \in Elements(groups) : x.id = y.id => x = y
        BY <1>2, ListIs DEF Apart
    <2>7. \A new \in Elements(others), old \in Elements(groups) : new.id = old.id => Settles(new, old)
        BY <2>2, <2>6, SameSettles, Zenon
    <2>8. WellMoved(others, a, {s})
        BY <2>2, <2>4, <2>5, <2>7, Zenon DEF WellMoved
    <2> QED
        BY <2>1, <2>8, Zenon
<1> QED
    BY <1>1, <1>5, <1>6, Zenon

LEMMA MergeMoves ==
    ASSUME PlacedInv, NEW from, NEW s \in Sessions, NEW to, Workspace!MergeInto(from, s, to)
    PROVE  \E gs : Workspace!Render(gs, to) /\ WellMoved(gs, to, {})
<1> DEFINE f == Workspace!GroupOf(groups, from)
           g == Workspace!GroupOf(groups, to)
           rel == Workspace!Released(groups, from, s)
           h == [g EXCEPT !.sessions = Append(g.sessions, s), !.focused = s,
                          !.layout = Workspace!Upgraded(@, Len(Append(g.sessions, s)))]
           r == Workspace!Updated(rel, to, h)
<1>1. /\ from # to /\ s \in Workspace!Members(groups, from) /\ Workspace!HasGroup(groups, to)
      /\ Workspace!Render(r, to)
    BY Zenon DEF Workspace!MergeInto
<1>2. Placed(groups) /\ Workspace!HasGroup(groups, from)
    BY <1>1, MembersOf DEF PlacedInv
<1>3. f \in Elements(groups) /\ f \in Groups /\ f.id = from /\ s \in Tabs(f)
    BY <1>1, <1>2, GroupOfIs
<1>4. g \in Elements(groups) /\ g \in Groups /\ g.id = to
    BY <1>1, <1>2, GroupOfIs
<1> HIDE DEF f, g
<1>5. IsReleased(rel, f, s)
    BY <1>2, <1>3, ReleasedIs, Zenon
<1> HIDE DEF rel
<1>6. g # f /\ g \in Elements(rel) /\ Placed(rel)
    BY <1>1, <1>3, <1>4, <1>5, Zenon DEF IsReleased
<1>7. \A o \in Elements(rel) : s \notin Tabs(o)
    BY <1>5, Zenon DEF IsReleased
<1>8. Follows(h, g, Tabs(g) \cup {s})
    BY <1>4, <1>6, <1>7, AddedTo, Zenon DEF Follows
<1> HIDE DEF h
<1>9. \A o \in Elements(rel) : o # g => Tabs(o) \cap (Tabs(g) \cup {s}) = {}
    BY <1>6, <1>7, ListIs DEF Apart
<1>10. Placed(Workspace!Updated(rel, g.id, h))
       /\ Elements(Workspace!Updated(rel, g.id, h)) = (Elements(rel) \ {g}) \cup {h}
    BY <1>6, <1>8, <1>9, ChangedOne
<1>11. Placed(r) /\ Elements(r) = (Elements(rel) \ {g}) \cup {h}
    BY <1>4, <1>10, Zenon
<1> HIDE DEF r
<1>12. h.id = to /\ Tabs(h) = Tabs(g) \cup {s} /\ Settles(h, g)
    BY <1>4, <1>8, Zenon DEF Follows
<1>13. Workspace!HasGroup(r, to)
    BY <1>11, <1>12, ListIs
<1>14. ASSUME NEW t \in Workspace!Held(groups) PROVE t \in Workspace!Held(r)
    <2>1. PICK o \in Elements(groups) : t \in Tabs(o)
        BY <1>2, ListIs
    <2>2. \E n \in Elements(r) : t \in Tabs(n)
        <3>1. CASE t = s \/ o = g
            BY <1>11, <1>12, <2>1, <3>1
        <3>2. CASE t # s /\ o # g
            <4>1. PICK n \in Elements(rel) : t \in Tabs(n)
                BY <1>5, <2>1, <3>2, Zenon DEF IsReleased
            <4>2. n # g
                BY <1>2, <1>4, <2>1, <3>2, <4>1, ListIs DEF Apart
            <4> QED
                BY <1>11, <4>1, <4>2
        <3> QED
            BY <3>1, <3>2
    <2> QED
        BY <1>11, <2>2, ListIs
<1>15. \A x, y \in Elements(groups) : x.id = y.id => x = y
    BY <1>2, ListIs DEF Apart
<1>16. ASSUME NEW new \in Elements(r), NEW old \in Elements(groups), new.id = old.id
       PROVE  Settles(new, old)
    <2>1. CASE new = h
        BY <1>4, <1>12, <1>15, <1>16, <2>1
    <2>2. CASE new # h
        <3>1. PICK o \in Elements(groups) : new.id = o.id /\ Settles(new, o)
            BY <1>5, <1>11, <2>2, Zenon DEF IsReleased
        <3> QED
            BY <1>15, <1>16, <3>1
    <2> QED
        BY <2>1, <2>2
<1> QED
    BY <1>1, <1>11, <1>13, <1>14, <1>16, Zenon DEF WellMoved

LEMMA LoneLayout ==
    ASSUME NEW g \in Groups, Len(g.sessions) = 1
    PROVE  [g EXCEPT !.layout = 1] = g
<1>1. g \in GroupRecords /\ g.layout = 1
    BY GroupIs
<1> QED
    BY <1>1 DEF GroupRecords

\* The group dropped between two others.
LEMMA DroppedAt ==
    ASSUME PlacedInv, NEW f \in Elements(groups), NEW s \in Tabs(f), NEW rel, IsReleased(rel, f, s),
           NEW x \in Groups, Tabs(x) = {s}, \A o \in Elements(rel) : o.id # x.id,
           IF Len(f.sessions) = 1 THEN x = f ELSE \A o \in Elements(groups) : o.id # x.id,
           NEW at \in 1 .. Len(rel) + 1
    PROVE  WellMoved(Workspace!InsertAt(rel, at, x), active, {})
<1> DEFINE r == Workspace!InsertAt(rel, at, x)
<1>1. Placed(groups) /\ Placed(rel) /\ \A o \in Elements(rel) : s \notin Tabs(o)
    BY Zenon DEF PlacedInv, IsReleased
<1>2. rel \in Seq(Groups)
    BY <1>1, ListIs
<1>3. HasOneMore(r, rel, at, x, Groups)
    BY <1>2, Inserted
<1>4. \A o \in Elements(rel) : Apart(o, x)
    BY <1>1 DEF Apart
<1> HIDE DEF r
<1>5. Placed(r) /\ Elements(r) = Elements(rel) \cup {x}
    BY <1>1, <1>3, <1>4, ListHasMore
<1>6. \A o \in Elements(groups) : \E n \in Elements(r) : n.id = o.id
    <2>1. CASE Len(f.sessions) = 1
        <3>1. x = f
            BY <2>1, Zenon
        <3> QED
            BY <1>5, <3>1, Zenon DEF IsReleased
    <2>2. CASE Len(f.sessions) # 1
        <3>1. \E n \in Elements(rel) : n.id = f.id
            BY <2>2, Zenon DEF IsReleased
        <3>2. \A o \in Elements(groups) : o # f => o \in Elements(rel)
            BY Zenon DEF IsReleased
        <3> QED
            BY <1>5, <3>1, <3>2
    <2> QED
        BY <2>1, <2>2
<1>7. Workspace!HasGroup(r, active)
    <2>1. groups # <<>>
        BY <1>1, ListIs
    <2>2. PICK o \in Elements(groups) : o.id = active
        BY <1>1, <2>1, ListIs DEF PlacedInv
    <2>3. \E n \in Elements(r) : n.id = active
        BY <1>6, <2>2
    <2> QED
        BY <1>5, <2>3, ListIs
<1>8. ASSUME NEW t \in Workspace!Held(groups) PROVE t \in Workspace!Held(r)
    <2>1. PICK o \in Elements(groups) : t \in Tabs(o)
        BY <1>1, ListIs
    <2>2. \E n \in Elements(r) : t \in Tabs(n)
        <3>1. CASE t = s
            BY <1>5, <3>1
        <3>2. CASE t # s /\ o = f
            BY <1>5, <2>1, <3>2, Zenon DEF IsReleased
        <3>3. CASE t # s /\ o # f
            BY <1>5, <2>1, <3>3, Zenon DEF IsReleased
        <3> QED
            BY <3>1, <3>2, <3>3
    <2> QED
        BY <1>5, <2>2, ListIs
<1>9. \A a, b \in Elements(groups) : a.id = b.id => a = b
    BY <1>1, ListIs DEF Apart
<1>10. ASSUME NEW new \in Elements(r), NEW old \in Elements(groups), new.id = old.id
       PROVE  Settles(new, old)
    <2>1. CASE new = x
        <3>1. Len(f.sessions) = 1 /\ new = f
            BY <1>10, <2>1, Zenon
        <3>2. new = old
            BY <1>9, <1>10, <3>1
        <3> QED
            BY <3>2, SameSettles
    <2>2. CASE new # x
        <3>1. PICK o \in Elements(groups) : new.id = o.id /\ Settles(new, o)
            BY <1>5, <2>2, Zenon DEF IsReleased
        <3> QED
            BY <1>9, <1>10, <3>1
    <2> QED
        BY <2>1, <2>2
<1>11. WellMoved(r, active, {})
    BY <1>5, <1>7, <1>8, <1>10, Zenon DEF WellMoved
<1> QED
    BY <1>11, Zenon DEF r

LEMMA DropMoves ==
    ASSUME PlacedInv, NEW from, NEW s \in Sessions, NEW position \in Nat, NEW new \in GroupIds,
           Workspace!DropToZone(from, s, position, new)
    PROVE  \E gs : Workspace!Render(gs, active) /\ WellMoved(gs, active, {})
<1> DEFINE f == Workspace!GroupOf(groups, from)
           rel == Workspace!Released(groups, from, s)
           solo == Len(f.sessions) = 1
           x == IF solo THEN [f EXCEPT !.layout = 1] ELSE Workspace!Solo(new, s)
           at == Workspace!MinOf(position, Len(rel)) + 1
<1>1. /\ s \in Workspace!Members(groups, from)
      /\ IF solo THEN new = from ELSE Workspace!Fresh(new)
      /\ Workspace!Render(Workspace!InsertAt(rel, at, x), active)
    BY Zenon DEF Workspace!DropToZone
<1>2. Placed(groups) /\ Workspace!HasGroup(groups, from)
    BY <1>1, MembersOf DEF PlacedInv
<1>3. f \in Elements(groups) /\ f \in Groups /\ f.id = from /\ s \in Tabs(f)
    BY <1>1, <1>2, GroupOfIs
<1> HIDE DEF f
<1>4. IsReleased(rel, f, s)
    BY <1>2, <1>3, ReleasedIs, Zenon
<1> HIDE DEF rel
<1>5. Placed(rel)
    BY <1>4, Zenon DEF IsReleased
<1>6. at \in 1 .. Len(rel) + 1
    BY <1>5, ListIs DEF Workspace!MinOf
<1>7. /\ x \in Groups /\ Tabs(x) = {s} /\ \A o \in Elements(rel) : o.id # x.id
      /\ IF solo THEN x = f ELSE \A o \in Elements(groups) : o.id # x.id
    <2>1. CASE solo
        <3>1. x = f
            BY <1>3, <2>1, LoneLayout
        <3> QED
            <4>1. Tabs(f) = {s} /\ \A o \in Elements(rel) : o.id # f.id
                BY <1>4, <2>1, Zenon DEF IsReleased
            <4> QED
                BY <1>3, <2>1, <3>1, <4>1
    <2>2. CASE ~solo
        <3>1. x = Workspace!Solo(new, s)
            BY <2>2
        <3>2. x \in Groups /\ x.id = new /\ Tabs(x) = {s}
            BY <3>1, SoloIs
        <3>3. ~Workspace!HasGroup(groups, new)
            BY <1>1, <2>2, Zenon DEF Workspace!Fresh
        <3>4. \A o \in Elements(groups) : o.id # new
            BY <1>2, <3>3, ListIs
        <3>5. \A o \in Elements(rel) : \E p \in Elements(groups) : o.id = p.id
            BY <1>4, Zenon DEF IsReleased
        <3> QED
            BY <2>2, <3>2, <3>4, <3>5, Zenon
    <2> QED
        BY <2>1, <2>2
<1> HIDE DEF at, x
<1>8. WellMoved(Workspace!InsertAt(rel, at, x), active, {})
    BY <1>3, <1>4, <1>6, <1>7, DroppedAt, Zenon
<1> QED
    BY <1>1, <1>8, Zenon

-----------------------------------------------------------------------------
\* What holds of a step whose groups are well moved.
PlacedStep ==
    /\ PlacedInv'
    /\ Workspace!OnlyClosed
    /\ Workspace!FocusShown

LEMMA RenderPlaces ==
    ASSUME PlacedInv, NEW gs, NEW a, NEW gone, Workspace!Render(gs, a), WellMoved(gs, a, gone),
           gs = <<>> \/ \A s \in gone : \E id \in GroupIds : Workspace!CloseSession(id, s)
    PROVE  PlacedStep
<1>1. groups' = gs /\ active' = a
    BY Zenon DEF Workspace!Render
<1>2. Placed(groups) /\ Placed(gs)
    BY Zenon DEF PlacedInv, WellMoved
<1>3. PlacedInv'
    BY <1>1, Zenon DEF PlacedInv, WellMoved, Workspace!HasGroup, Workspace!ToSet, Placed
<1>4. Workspace!OnlyClosed
    BY <1>1, Zenon DEF WellMoved, Workspace!OnlyClosed
<1>5. Workspace!FocusShown
    <2> SUFFICES ASSUME NEW i \in DOMAIN gs, NEW j \in DOMAIN groups,
                        gs[i].id = groups[j].id, gs[i].layout # groups[j].layout,
                        Len(gs[i].sessions) <= 4
                 PROVE  Workspace!Visible(gs[i], gs[i].focused)
        BY <1>1, Zenon DEF Workspace!FocusShown
    <2>1. gs[i] \in Elements(gs) /\ groups[j] \in Elements(groups)
        BY <1>2, ListIs DEF Elements
    <2>2. Settles(gs[i], groups[j])
        BY <2>1, Zenon DEF WellMoved
    <2> QED
        BY <2>2, Zenon DEF Settles
<1> QED
    BY <1>3, <1>4, <1>5, Zenon DEF PlacedStep

LEMMA StillPlaces ==
    ASSUME PlacedInv, groups' = groups, active' = active
    PROVE  PlacedStep
<1>1. PlacedInv'
    BY Zenon DEF PlacedInv, Workspace!HasGroup, Workspace!ToSet, Placed
<1>2. Workspace!OnlyClosed
    BY Zenon DEF Workspace!OnlyClosed
<1>3. Workspace!FocusShown
    <2>1. \A i, j \in DOMAIN groups : groups[i].id = groups[j].id => i = j
        BY ListIs DEF PlacedInv, Placed, Apart
    <2> QED
        BY <2>1, Zenon DEF Workspace!FocusShown
<1> QED
    BY <1>1, <1>2, <1>3, Zenon DEF PlacedStep

LEMMA StepPlaces == PlacedInv /\ [ClientNext]_vars => PlacedStep
<1> SUFFICES ASSUME PlacedInv, [ClientNext]_vars PROVE PlacedStep
    OBVIOUS
<1>1. CASE UNCHANGED workspaceVars
    BY <1>1, StillPlaces
<1>2. ASSUME NEW a, Workspace!Render(<<>>, a) PROVE PlacedStep
    BY <1>2, EmptyMoves, RenderPlaces
<1>3. ASSUME NEW gs, NEW a, Workspace!Render(gs, a) /\ WellMoved(gs, a, {}) PROVE PlacedStep
    BY <1>3, RenderPlaces
<1>4. CASE Unmounted
    BY <1>1, <1>2, <1>4, Zenon DEF Unmounted, Workspace!LeavePage
<1>5. CASE WorkspaceStep
    <2>1. ASSUME NEW id \in GroupIds, NEW s \in Sessions, Workspace!OpenPage(id, s)
          PROVE  PlacedStep
        BY <1>3, <2>1, OpenMoves, Zenon DEF Workspace!OpenPage
    <2>2. ASSUME NEW s \in Sessions, Workspace!AddSession(s) PROVE PlacedStep
        BY <1>3, <2>2, AddMoves, Zenon
    <2>3. ASSUME NEW s \in Sessions, Workspace!FocusPane(s) PROVE PlacedStep
        <3>1. /\ s \in Workspace!Members(groups, active)
              /\ Workspace!Render(Workspace!Updated(groups, active,
                   [Workspace!GroupOf(groups, active) EXCEPT !.focused = s]), active)
            BY <2>3, Zenon DEF Workspace!FocusPane
        <3>2. Workspace!HasGroup(groups, active)
            BY <3>1, MembersOf DEF PlacedInv
        <3> QED
            BY <1>3, <3>1, <3>2, FocusMoved
    <2>4. ASSUME NEW id \in GroupIds, NEW s \in Sessions, Workspace!SelectSession(id, s)
          PROVE  PlacedStep
        <3>1. /\ s \in Workspace!Members(groups, id)
              /\ Workspace!Render(Workspace!Updated(groups, id,
                   [Workspace!GroupOf(groups, id) EXCEPT !.focused = s]), id)
            BY <2>4, Zenon DEF Workspace!SelectSession
        <3>2. Workspace!HasGroup(groups, id)
            BY <3>1, MembersOf DEF PlacedInv
        <3> QED
            BY <1>3, <3>1, <3>2, FocusMoved
    <2>5. ASSUME NEW id \in GroupIds, NEW s \in Sessions, Workspace!CloseSession(id, s)
          PROVE  PlacedStep
        <3>1. CASE \E gs, a : Workspace!Render(gs, a) /\ WellMoved(gs, a, {s})
            <4>1. \A t \in {s} : \E i \in GroupIds : Workspace!CloseSession(i, t)
                BY <2>5
            <4> QED
                BY <3>1, <4>1, RenderPlaces
        <3> QED
            BY <1>2, <2>5, <3>1, CloseMoves, Zenon
    <2>6. ASSUME NEW from \in GroupIds, NEW s \in Sessions, NEW to \in GroupIds,
                 Workspace!MergeInto(from, s, to)
          PROVE  PlacedStep
        BY <1>3, <2>6, MergeMoves, Zenon
    <2>7. ASSUME NEW id \in GroupIds, NEW s \in Sessions, NEW target \in Sessions,
                 Workspace!Reorder(id, s, target)
          PROVE  PlacedStep
        BY <1>3, <2>7, ReorderMoves, Zenon
    <2>8. ASSUME NEW from \in GroupIds, NEW s \in Sessions, NEW position \in 0 .. Len(groups),
                 NEW new \in GroupIds, Workspace!DropToZone(from, s, position, new)
          PROVE  PlacedStep
        <3>1. position \in Nat
            OBVIOUS
        <3> QED
            BY <1>3, <2>8, <3>1, DropMoves, Zenon
    <2>9. ASSUME NEW id \in GroupIds, Workspace!OpenLayoutMenu(id) PROVE PlacedStep
        BY <1>3, <2>9, MenuMoves, Zenon DEF Workspace!OpenLayoutMenu
    <2>10. ASSUME NEW layout \in 1 .. 4, Workspace!ChangeLayout(layout) PROVE PlacedStep
        BY <1>3, <2>10, LayoutMoves, Zenon
    <2>11. CASE Workspace!LeavePage
        BY <1>2, <2>11, Zenon DEF Workspace!LeavePage
    <2>12. ASSUME NEW s, NEW st, Workspace!TerminalReports(s, st) \/ Workspace!RdpReports(s, st)
           PROVE  PlacedStep
        BY <2>12, StillPlaces, Zenon
        DEF Workspace!TerminalReports, Workspace!RdpReports, Workspace!ReportTo
    <2>13. Workspace!WorkspaceNext
        BY <1>5 DEF WorkspaceStep
    <2> QED
        BY <2>1, <2>2, <2>3, <2>4, <2>5, <2>6, <2>7, <2>8, <2>9, <2>10, <2>11, <2>12, <2>13, Zenon
        DEF Workspace!WorkspaceNext, Workspace!Slots
<1> QED
    BY <1>1, <1>4, <1>5, Moves DEF vars, CastStep, GuacStep, ConsoleStep

LEMMA PlacedAtFirst == ClientInit => PlacedInv
BY DEF ClientInit, Workspace!WorkspaceInit, PlacedInv, Placed

LEMMA PlacedAlways == ClientSpec => []PlacedInv
<1>1. PlacedInv /\ [ClientNext]_vars => PlacedInv'
    BY StepPlaces DEF PlacedStep
<1> QED
    BY <1>1, PlacedAtFirst, PTL DEF ClientSpec

\* For any sessions and groups and however tabs are opened, closed, merged,
\* extracted and reordered: no session is twice in the sidebar, no group is
\* empty, the focus is on a tab of the group and the group shown exists.
THEOREM WellPlacedHolds == ClientSpec => []WellPlaced
<1>1. PlacedInv => WellPlaced
    <2> SUFFICES ASSUME PlacedInv PROVE Workspace!WellPlaced
        BY DEF WellPlaced
    <2>1. Placed(groups) /\ DOMAIN groups = 1 .. Len(groups)
        BY ListIs DEF PlacedInv
    <2>2. \A i \in DOMAIN groups : groups[i] \in Groups
        BY <2>1 DEF Placed
    <2>3. ASSUME NEW i \in DOMAIN groups
          PROVE  /\ groups[i].sessions # <<>> /\ Workspace!IsInjective(groups[i].sessions)
                 /\ groups[i].focused \in Workspace!ToSet(groups[i].sessions)
                 /\ Len(groups[i].sessions) = 1 => groups[i].layout = 1
                 /\ Workspace!ToSet(groups[i].sessions) = Tabs(groups[i])
        <3> DEFINE g == groups[i]
        <3>1. g \in Groups
            BY <2>2
        <3> HIDE DEF g
        <3>2. /\ DOMAIN g.sessions = 1 .. Len(g.sessions) /\ Workspace!ToSet(g.sessions) = Tabs(g)
              /\ g.focused \in Tabs(g) /\ Distinct(g.sessions) /\ g.sessions # <<>>
              /\ Len(g.sessions) = 1 => g.layout = 1
            BY <3>1, GroupIs DEF Groups
        <3>3. Workspace!IsInjective(g.sessions)
            BY <3>2, Zenon DEF Workspace!IsInjective, Distinct
        <3> QED
            BY <3>2, <3>3, Zenon DEF g
    <2>4. ASSUME NEW i \in DOMAIN groups, NEW j \in DOMAIN groups \ {i}
          PROVE  groups[j].id # groups[i].id /\ Tabs(groups[j]) \cap Tabs(groups[i]) = {}
        BY <2>1 DEF Placed, Apart
    <2>5. Workspace!Open => Workspace!HasGroup(groups, active)
        BY Zenon DEF PlacedInv, Workspace!Open
    <2> QED
        BY <2>3, <2>4, <2>5, Zenon DEF Workspace!WellPlaced
<1> QED
    BY <1>1, PlacedAlways, PTL

\* For any sessions and groups: only the cross of a tab, or leaving the page,
\* takes a session away; no merge, extraction or change of layout loses one.
THEOREM SessionsKeptHolds == ClientSpec => SessionsKept
<1>1. PlacedInv /\ [ClientNext]_vars => [Workspace!OnlyClosed]_vars
    BY StepPlaces DEF PlacedStep
<1> QED
    BY <1>1, PlacedAlways, PTL DEF ClientSpec, SessionsKept

\* For any number of sessions and groups: a change of layout, by the menu or by
\* a session that comes or goes, leaves the focused session visible.
THEOREM LayoutShowsFocusHolds == ClientSpec => LayoutShowsFocus
<1>1. PlacedInv /\ [ClientNext]_vars => [Workspace!FocusShown]_vars
    BY StepPlaces DEF PlacedStep
<1> QED
    BY <1>1, PlacedAlways, PTL DEF ClientSpec, LayoutShowsFocus
=============================================================================
