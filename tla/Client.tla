------------------------------- MODULE Client -------------------------------
(***************************************************************************)
(* The web client: who it takes the user to be, which page it shows, and   *)
(* the pages that keep state of their own.                                 *)
(*                                                                         *)
(* AuthContext.tsx keeps the user as the last answer gave it; api.ts signs *)
(* the interface out on a 401 or 403 of almost any request; ProtectedRoute *)
(* of App.tsx redirects, or asks an administrator to step up.  A page that *)
(* is no longer shown is unmounted and its state is gone: the workspace of *)
(* sessions, the administration, and the players, which the history and    *)
(* the list of recordings open for the recording that was selected.        *)
(*                                                                         *)
(* The back end is free: a request is answered at any time, in any way, or *)
(* aborted after 15 seconds.  /auth/login and /auth/login-otp are one.     *)
(***************************************************************************)
EXTENDS Naturals, Sequences, SequencesExt

CONSTANTS
  MaxCalls,                                             \* bound: auth requests under way
  Sessions, RdpSessions, GroupIds, NoGroup,             \* of the workspace
  Events, CastSpeeds, Short, MaxLate,                   \* of the terminal player
  GuacLength, GuacSpeeds,                               \* of the desktop player
  SeekStep, Frame,                                      \* of both
  Users, ExternalUsers, UserGroups, Machines, MachineGroups, Providers, None, MaxPending

ASSUME WorkspaceAssumption == RdpSessions \subseteq Sessions /\ NoGroup \notin GroupIds
ASSUME CastAssumption ==
  /\ Events \in Seq([at : Nat, output : BOOLEAN])
  /\ \A i, j \in DOMAIN Events : i <= j => Events[i].at <= Events[j].at
  /\ CastSpeeds \in Seq(Nat \ {0}) /\ Len(CastSpeeds) >= 2
ASSUME GuacAssumption ==
  /\ GuacLength \in Nat \ {0} /\ SeekStep \in Nat /\ Frame \in Nat \ {0}
  /\ GuacSpeeds \in Seq(Nat \ {0}) /\ Len(GuacSpeeds) >= 2
ASSUME ConsoleAssumption == ExternalUsers \subseteq Users \ {None} /\ MaxPending \in Nat \ {0}

VARIABLES
  user,       \* "none", "USER", "ADMIN", or "SUDO": an admin in admin mode
  loading,    \* the first /auth/me is not answered yet
  route,
  calls,      \* auth requests under way: [op, here], here: the page is still mounted
  groups, active, status, pane, home,
  phase, screen, elapsed, castPlaying, castSpeed, run, timers, frame, clip,
  guacStatus, guacPlaying, loop, current, guacSpeed, seeking, picture, exporting,
  page, tab, dialog, editing, editingAuth, forms, probing, deletingIds, actionBusy,
  selected, listed, pending

shellVars == <<user, loading, route, calls>>
workspaceVars == <<groups, active, status, pane, home>>
castVars == <<phase, screen, elapsed, castPlaying, castSpeed, run, timers, frame, clip>>
guacVars == <<guacStatus, guacPlaying, loop, current, guacSpeed, seeking, picture, exporting>>
consoleVars == <<page, tab, dialog, editing, editingAuth, forms, probing, deletingIds,
                 actionBusy, selected, listed, pending>>
vars == <<shellVars, workspaceVars, castVars, guacVars, consoleVars>>

Workspace == INSTANCE Workspace
Cast == INSTANCE CastPlayer WITH playing <- castPlaying, speedIdx <- castSpeed, Speeds <- CastSpeeds
Guac == INSTANCE GuacPlayer WITH
          status <- guacStatus, playing <- guacPlaying, speedIdx <- guacSpeed,
          Duration <- GuacLength, Speeds <- GuacSpeeds
Console == INSTANCE Console

ConsolePages == {"users", "machines", "auth"}
AdminRoutes == ConsolePages \cup {"recordings", "administration"}
Routes == AdminRoutes \cup {"login", "dashboard", "session", "profile", "history"}

(* ProtectedRoute: where its redirects end. *)
Settled(u, l, r) ==
  IF l \/ r = "login" THEN r
  ELSE IF u = "none" THEN "login"
  ELSE IF r \in AdminRoutes /\ u = "USER" THEN "dashboard" ELSE r

\* Mutant: whoever got to the route of a page is shown the page.
ShownAnyway(u, l, r) ==
  IF r = "login" THEN "login" ELSE IF l THEN "spinner" ELSE r

(* ... and what it shows there. *)
Shown(u, l, r) ==
  IF r = "login" THEN "login" ELSE IF l THEN "spinner"
  ELSE IF r \in AdminRoutes /\ u # "SUDO" THEN "sudo" ELSE r

Here == Shown(user, loading, route)

(* What is mounted no more loses its state; an administration page that    *)
(* comes up starts from its own.                                           *)
Unmounted ==
  /\ IF groups # <<>> THEN Workspace!LeavePage ELSE UNCHANGED workspaceVars
  /\ IF phase # "absent" THEN Cast!CloseCast ELSE UNCHANGED castVars
  /\ IF guacStatus # "absent" THEN Guac!CloseGuac ELSE UNCHANGED guacVars

Mounted(now) ==
  LET p == IF now \in ConsolePages THEN now ELSE "none"
  IN  IF p = page THEN UNCHANGED consoleVars ELSE Console!ShowPage(p)

(* The user or the route changes: redirects, then the pages follow. *)
Becomes(u, l, r, rest) ==
  LET to == Settled(u, l, r)
      same == Shown(u, l, to) = Here
  IN  /\ user' = u /\ loading' = l /\ route' = to
      /\ calls' = [i \in DOMAIN rest |-> [rest[i] EXCEPT !.here = @ /\ same]]
      /\ IF same THEN UNCHANGED <<workspaceVars, castVars, guacVars, consoleVars>>
         ELSE Unmounted /\ Mounted(Shown(u, l, to))

ClientInit ==
  /\ user = "none" /\ loading = TRUE /\ route = "dashboard"
  /\ calls = <<[op |-> "me", here |-> FALSE]>>
  /\ Workspace!WorkspaceInit /\ Cast!CastInit /\ Guac!GuacInit /\ Console!ConsoleInit

-----------------------------------------------------------------------------
(* The shell. *)

(* A link, the buttons of the browser, navigate(). *)
Navigate(r) ==
  /\ r # route
  /\ Becomes(user, loading, r, calls)

(* The page is loaded again: by the user, or by handleRevokeSessions. *)
Reload ==
  Becomes("none", TRUE, route, <<[op |-> "me", here |-> FALSE]>>)

Calls(op) ==
  /\ Len(calls) < MaxCalls
  /\ calls' = Append(calls, [op |-> op, here |-> TRUE])
  /\ UNCHANGED <<user, loading, route, workspaceVars, castVars, guacVars, consoleVars>>

(* While a form waits for its answer its button is disabled. *)
Waiting == \E i \in DOMAIN calls : calls[i].here /\ calls[i].op \in {"login", "sudo", "recheck"}

SubmitLogin == Here = "login" /\ ~Waiting /\ Calls("login")
SubmitSudo == Here = "sudo" /\ ~Waiting /\ Calls("sudo")
Logout == Here = "dashboard" /\ Calls("logout")

(* The profile has saved something and asks who the user is now. *)
ProfileSaved == Here = "profile" /\ Calls("me")

Without(i) == RemoveAt(calls, i)

(* checkAuth: whatever goes wrong, there is no user. *)
MeAnswered(i, u) ==
  /\ calls[i].op \in {"me", "recheck"}
  /\ Becomes(u, FALSE, route, Without(i))

(* login, loginOtp and handleSubmit: the user is set, the page is left for *)
(* the dashboard or, with an expired password, for the profile.            *)
LoginAnswered(i, u, to) ==
  /\ calls[i].op = "login"
  /\ Becomes(u, loading, to, Without(i))

(* Refused, or the second factor is asked for: the form stays. *)
LoginRefused(i) ==
  /\ calls[i].op = "login"
  /\ Becomes(user, loading, route, Without(i))

(* sudo: then /auth/me tells whether admin mode is on. *)
SudoAnswered(i) ==
  /\ calls[i].op = "sudo"
  /\ Becomes(user, loading, route, [calls EXCEPT ![i].op = "recheck"])

(* logout *)
LogoutAnswered(i) ==
  /\ calls[i].op = "logout"
  /\ Becomes("none", loading, route, Without(i))

(* A request that failed otherwise changes nothing. *)
CallFails(i) ==
  /\ calls[i].op \in {"sudo", "logout"}
  /\ Becomes(user, loading, route, Without(i))

(* A 401 or 403 of the step-up or of a logout, ... *)
CallUnauthorized(i) ==
  /\ calls[i].op \in {"sudo", "logout"}
  /\ Becomes("none", loading, route, Without(i))

(* ... or of whatever a page had asked for: auth:unauthorized. *)
Unauthorized ==
  /\ user # "none"
  /\ Becomes("none", loading, route, calls)

ShellNext ==
  \/ \E r \in Routes : Navigate(r)
  \/ Reload \/ SubmitLogin \/ SubmitSudo \/ Logout \/ ProfileSaved
  \/ \E i \in DOMAIN calls :
       \/ \E u \in {"none", "USER", "ADMIN", "SUDO"} : MeAnswered(i, u)
       \/ \E u \in {"USER", "ADMIN"}, to \in {"dashboard", "profile"} : LoginAnswered(i, u, to)
       \/ LoginRefused(i) \/ SudoAnswered(i) \/ LogoutAnswered(i)
       \/ CallFails(i) \/ CallUnauthorized(i)
  \/ Unauthorized

-----------------------------------------------------------------------------
(* The pages.  Bound: a page is used while no auth request is under way;   *)
(* an answer to one changes nothing of a page but whether it is shown.     *)
Quiet == calls = <<>>

(* Without its last session the workspace navigates to '/'. *)
WorkspaceStep ==
  /\ Quiet /\ Here = "session"
  /\ Workspace!WorkspaceNext
  /\ route' = IF groups # <<>> /\ groups' = <<>> THEN "dashboard" ELSE route
  /\ UNCHANGED <<user, loading, calls, castVars, guacVars, consoleVars>>

(* The recording selected opens the player of its protocol, over the list. *)
Selectable == Here \in {"history", "recordings"} /\ phase = "absent" /\ guacStatus = "absent"

CastStep ==
  /\ Quiet
  /\ IF phase = "absent" THEN Selectable /\ Cast!OpenCast ELSE Cast!CastNext
  /\ UNCHANGED <<shellVars, workspaceVars, guacVars, consoleVars>>

GuacStep ==
  /\ Quiet
  /\ IF guacStatus = "absent" THEN Selectable /\ Guac!OpenGuac ELSE Guac!GuacNext
  /\ UNCHANGED <<shellVars, workspaceVars, castVars, consoleVars>>

(* The administration; which of its pages is shown is the shell's. *)
ConsoleStep ==
  /\ Quiet /\ page # "none" /\ page' = page
  /\ Console!ConsoleNext
  /\ UNCHANGED <<shellVars, workspaceVars, castVars, guacVars>>

ClientNext == ShellNext \/ WorkspaceStep \/ CastStep \/ GuacStep \/ ConsoleStep

ClientSpec == ClientInit /\ [][ClientNext]_vars

-----------------------------------------------------------------------------
(* In whatever order the answers to /auth/me, to the login, to the step-up *)
(* and to the logout arrive, and whoever navigates meanwhile, nothing of a *)
(* page outlives the right to see it: forms and requests of the            *)
(* administration only in admin mode, panes and players only with a user,  *)
(* and each only on its own route.                                         *)
PagesGuarded ==
  /\ page # "none" => user = "SUDO" /\ route = page
  /\ groups # <<>> => user # "none" /\ route = "session"
  /\ (phase # "absent" \/ guacStatus # "absent") =>
       \/ route = "history" /\ user # "none"
       \/ route = "recordings" /\ user = "SUDO"

(* The tabs of the workspace stay in order (Workspace.tla, WellPlaced). *)
WellPlaced == Workspace!WellPlaced

(* Only the user takes a session away (Workspace.tla, OnlyClosed). *)
SessionsKept == [][Workspace!OnlyClosed]_vars

(* What a terminal has reported shows on its tab (Workspace.tla). *)
TerminalReportsKept == Workspace!TerminalReportsKept

(* A change of layout shows the focused session (Workspace.tla, FocusShown). *)
LayoutShowsFocus == [][Workspace!FocusShown]_vars

(* The replay of a terminal is its recording (CastPlayer.tla). *)
ReplayIsFaithful == Cast!ReplayIsFaithful

(* One thing at a time moves a desktop recording (GuacPlayer.tla). *)
OneDriver == Guac!OneDriver

(* What is saved goes to the entity it was read from (Console.tla). *)
SavesGoHome == Console!SavesGoHome
=============================================================================
