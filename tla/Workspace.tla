----------------------------- MODULE Workspace -----------------------------
(***************************************************************************)
(* The session page of the web client (client/src/pages/Session.tsx) and   *)
(* the panes it mounts (TerminalPane.tsx, RdpPane.tsx).                    *)
(*                                                                         *)
(* The page keeps a list of groups of sessions.  One group is shown; its   *)
(* panes, and no other, are mounted, and a mounted pane holds a socket.    *)
(* Tabs are opened, closed, focused, and dragged: onto another tab of the  *)
(* group (reorder), onto a tab of another group (merge, after half a       *)
(* second) or between two groups (extraction).                             *)
(*                                                                         *)
(* A layout is its number of slots (LAYOUT_SLOTS): the orientations of two *)
(* and three slots and the positions of the dividers are left out.  Of a   *)
(* status only the end matters: 'error' and 'closed' are "ended",          *)
(* 'connecting' and 'connected' "live".  The user does nothing else while  *)
(* a tab is held.  A page that is not open has no group.                   *)
(***************************************************************************)
EXTENDS Naturals, Sequences, SequencesExt, Selection

CONSTANTS
  Sessions,      \* the identities a session can have
  RdpSessions,   \* those of them whose protocol is RDP
  GroupIds,      \* the identities of groups
  NoGroup

VARIABLES
  groups,    \* [id, layout, sessions, focused], in the order of the sidebar
  active,    \* the group that is shown
  status,    \* session -> the status its tab shows
  pane,      \* session -> the status its mounted pane has, "off" if it has none
  home       \* RDP session -> the group its pane's callbacks name

workspaceVars == <<groups, active, status, pane, home>>

Statuses == {"live", "ended"}
Slots == 1 .. 4

MinOf(a, b) == IF a < b THEN a ELSE b
MaxOf(a, b) == IF a < b THEN b ELSE a

(* bestLayout: one slot for each session, as far as there are layouts. *)
BestLayout(n) == MinOf(MaxOf(n, 1), 4)

(* The layout is kept while it has a slot for every session, else it is    *)
(* the first of the list that has.                                         *)
Upgraded(layout, n) == IF n > layout THEN BestLayout(n) ELSE layout

GroupsHolding(gs, s) == {g \in ToSet(gs) : s \in ToSet(g.sessions)}
Held(gs) == UNION {ToSet(g.sessions) : g \in ToSet(gs)}
GroupOf(gs, id) == CHOOSE g \in ToSet(gs) : g.id = id
HasGroup(gs, id) == \E g \in ToSet(gs) : g.id = id
Members(gs, id) == UNION {ToSet(g.sessions) : g \in {x \in ToSet(gs) : x.id = id}}

(* A pane is visible when it has a slot; a single slot shows the focus. *)
Visible(g, s) ==
  IF g.layout = 1 THEN s = g.focused
  ELSE \E i \in 1 .. MinOf(g.layout, Len(g.sessions)) : g.sessions[i] = s

(* makeGroup draws an identity that nothing refers to. *)
Fresh(id) == ~HasGroup(groups, id) /\ \A s \in Sessions : home[s] # id

Solo(id, s) == [id |-> id, layout |-> 1, sessions |-> <<s>>, focused |-> s]

(* groups.map(g => g.id === id ? change(g) : g), change being a record. *)
Updated(gs, id, to) == [i \in DOMAIN gs |-> IF gs[i].id = id THEN to ELSE gs[i]]

\* Mutant: a session that changes groups is made anew.
RenderAnew(gs, a) ==
  LET shown == Members(gs, a)
      moved(s) == \E g \in ToSet(groups) : s \in ToSet(g.sessions) \ Members(gs, g.id)
  IN  /\ groups' = gs
      /\ active' = a
      /\ pane' = [s \in Sessions |->
           IF s \notin shown THEN "off"
           ELSE IF pane[s] = "off" THEN "live" ELSE pane[s]]
      /\ home' = [s \in Sessions |->
           IF s \notin shown \cap RdpSessions THEN NoGroup
           ELSE IF pane[s] = "off" THEN a ELSE home[s]]
      /\ status' = [s \in Sessions |->
           IF s \notin Held(gs) \/ s \notin Held(groups) \/ moved(s) THEN "live" ELSE status[s]]

(***************************************************************************)
(* What follows a state change: React mounts the panes of the group shown  *)
(* and unmounts the others.  A session that stays among the shown ones     *)
(* keeps its pane (its key), whatever group it came from.  A mounted RDP   *)
(* pane keeps the callbacks of its first render.  Unmounting one           *)
(* disconnects its client, which reports 'closed' through them; a terminal *)
(* says nothing.                                                           *)
(***************************************************************************)
Render(gs, a) ==
  LET shown == Members(gs, a)
      reports(s) == /\ s \in RdpSessions \ shown
                    /\ pane[s] \notin {"off", "ended"}
                    /\ s \in Members(gs, home[s])
  IN  /\ groups' = gs
      /\ active' = a
      /\ pane' = [s \in Sessions |->
           IF s \notin shown THEN "off"
           ELSE IF pane[s] = "off" THEN "live" ELSE pane[s]]
      /\ home' = [s \in Sessions |->
           IF s \notin shown \cap RdpSessions THEN NoGroup
           ELSE IF pane[s] = "off" THEN a ELSE home[s]]
      /\ status' = [s \in Sessions |->
           IF s \notin Held(gs) \/ s \notin Held(groups) THEN "live"
           ELSE IF reports(s) THEN "ended" ELSE status[s]]

Open == groups # <<>>

WorkspaceInit ==
  /\ groups = <<>> /\ active = NoGroup
  /\ status = [s \in Sessions |-> "live"]
  /\ pane = [s \in Sessions |-> "off"]
  /\ home = [s \in Sessions |-> NoGroup]

(* The first effect of the page: one session in one group. *)
OpenPage(id, s) ==
  /\ ~Open /\ Fresh(id)
  /\ Render(<<Solo(id, s)>>, id)

(* navigate('/'): the page unmounts and its state is gone. *)
LeavePage ==
  /\ Open
  /\ Render(<<>>, NoGroup)

(* The machine picker adds a session to the group shown. *)
AddSession(s) ==
  /\ Open /\ s \notin Held(groups)
  /\ LET g == GroupOf(groups, active)
         sessions == Append(g.sessions, s)
     IN  Render(Updated(groups, active,
                  [g EXCEPT !.sessions = sessions, !.focused = s,
                            !.layout = Upgraded(@, Len(sessions))]), active)

(* What is left of a group without one session, the focus going to the     *)
(* session before it.                                                      *)
Without(g, s) ==
  LET rest == Kept(g.sessions, Sessions \ {s})
      at == CHOOSE i \in DOMAIN g.sessions : g.sessions[i] = s
  IN  [g EXCEPT !.sessions = rest, !.layout = BestLayout(Len(rest)),
                !.focused = IF @ = s THEN rest[MaxOf(1, at - 1)] ELSE @]

(* closeSession: the cross of a tab, or of the banner over a pane.  The    *)
(* last session of the page leaves the page.                               *)
CloseSession(id, s) ==
  /\ s \in Members(groups, id)
  /\ LET g == GroupOf(groups, id)
         others == Kept(groups, {x \in ToSet(groups) : x.id # id})
     IN  IF Len(g.sessions) > 1
         THEN Render(Updated(groups, id, Without(g, s)), active)
         ELSE IF others = <<>> THEN Render(<<>>, NoGroup)
         ELSE Render(others, IF active = id THEN others[1].id ELSE active)

(* A click on a tab shows its group and focuses it. *)
SelectSession(id, s) ==
  /\ s \in Members(groups, id)
  /\ Render(Updated(groups, id, [GroupOf(groups, id) EXCEPT !.focused = s]), id)

(* A click in a visible pane of a divided layout focuses it. *)
FocusPane(s) ==
  /\ s \in Members(groups, active)
  /\ LET g == GroupOf(groups, active)
     IN  /\ g.layout > 1 /\ Visible(g, s)
         /\ Render(Updated(groups, active, [g EXCEPT !.focused = s]), active)

(* The layout button, which only a group of several sessions has, shows    *)
(* the group.                                                              *)
OpenLayoutMenu(id) ==
  /\ HasGroup(groups, id) /\ Len(GroupOf(groups, id).sessions) > 1
  /\ Render(groups, id)

Swapped(seq, i, j) == [seq EXCEPT ![i] = seq[j], ![j] = seq[i]]

\* Mutant: the order of the sessions is left alone.
ChangeLayoutOnly(layout) ==
  /\ Open
  /\ LET g == GroupOf(groups, active)
     IN  /\ Len(g.sessions) > 1
         /\ Render(Updated(groups, active, [g EXCEPT !.layout = layout]), active)

(* changeLayout: a focused session without a slot changes places with the  *)
(* first one.                                                              *)
ChangeLayout(layout) ==
  /\ Open
  /\ LET g == GroupOf(groups, active)
         at == CHOOSE i \in DOMAIN g.sessions : g.sessions[i] = g.focused
         order == IF layout > 1 /\ at > layout THEN Swapped(g.sessions, 1, at) ELSE g.sessions
     IN  /\ Len(g.sessions) > 1
         /\ Render(Updated(groups, active, [g EXCEPT !.layout = layout, !.sessions = order]), active)

-----------------------------------------------------------------------------
(***************************************************************************)
(* Dragging a tab.  A gesture (startSessionDrag, the targets the pointer   *)
(* enters and leaves, the release) is one step: while a tab is held        *)
(* nothing else moves tabs, and what the panes report commutes with it.    *)
(***************************************************************************)

\* Mutant: the focus stays where it was.
ShrunkInPlace(g, s) ==
  LET rest == Kept(g.sessions, Sessions \ {s})
  IN  [g EXCEPT !.sessions = rest, !.layout = BestLayout(Len(rest))]

(* A group that loses a session to a drag: focus and layout start over. *)
Shrunk(g, s) ==
  LET rest == Kept(g.sessions, Sessions \ {s})
  IN  [g EXCEPT !.sessions = rest, !.focused = rest[1], !.layout = BestLayout(Len(rest))]

(* The source of a drag without the session: it disappears if empty. *)
Released(gs, from, s) ==
  LET g == GroupOf(gs, from)
  IN  IF Len(g.sessions) = 1 THEN Kept(gs, {x \in ToSet(gs) : x.id # from})
      ELSE Updated(gs, from, Shrunk(g, s))

\* Mutant: the source of a merge is taken to be a group of one session.
MergeWhole(from, s, to) ==
  /\ from # to /\ s \in Members(groups, from) /\ HasGroup(groups, to)
  /\ LET g == GroupOf(groups, to)
         sessions == Append(g.sessions, s)
         others == Kept(groups, {x \in ToSet(groups) : x.id # from})
     IN  Render(Updated(others, to,
                  [g EXCEPT !.sessions = sessions, !.focused = s,
                            !.layout = Upgraded(@, Len(sessions))]), to)

(* Half a second over a tab of another group (executeMerge): the session   *)
(* goes to the end of that group, which is shown.                          *)
MergeInto(from, s, to) ==
  /\ from # to /\ s \in Members(groups, from) /\ HasGroup(groups, to)
  /\ LET g == GroupOf(groups, to)
         sessions == Append(g.sessions, s)
     IN  Render(Updated(Released(groups, from, s), to,
                  [g EXCEPT !.sessions = sessions, !.focused = s,
                            !.layout = Upgraded(@, Len(sessions))]), to)

(* Released over another tab of the group: the session takes its place. *)
Reorder(id, s, target) ==
  /\ {s, target} \subseteq Members(groups, id) /\ s # target
  /\ LET g == GroupOf(groups, id)
         rest == Kept(g.sessions, Sessions \ {s})
         to == CHOOSE i \in DOMAIN g.sessions : g.sessions[i] = target
     IN  Render(Updated(groups, id, [g EXCEPT !.sessions = InsertAt(rest, to, s)]), active)

(* Released in the gap before a group or after the last one                *)
(* (executeDropToZone): a session of its own group takes the group along;  *)
(* another one gets a new group, which is not shown.                       *)
DropToZone(from, s, position, new) ==
  /\ s \in Members(groups, from) /\ position \in 0 .. Len(groups)
  /\ LET next == Released(groups, from, s)
         solo == Len(GroupOf(groups, from).sessions) = 1
         moved == IF solo THEN [GroupOf(groups, from) EXCEPT !.layout = 1] ELSE Solo(new, s)
     IN  /\ IF solo THEN new = from ELSE Fresh(new)
         /\ Render(InsertAt(next, MinOf(position, Len(next)) + 1, moved), active)

-----------------------------------------------------------------------------
(* What the panes report. *)

(* A pane reports that it is connected or that it has ended, and after its *)
(* end nothing more.                                                       *)
Reportable(s, st) == pane[s] = "live" /\ st \in Statuses

(* updateSessionField: the tab changes if the named group holds it. *)
ReportTo(id, s, st) ==
  /\ Reportable(s, st)
  /\ pane' = [pane EXCEPT ![s] = st]
  /\ status' = IF s \in Members(groups, id) THEN [status EXCEPT ![s] = st] ELSE status
  /\ UNCHANGED <<groups, active, home>>

(* TerminalPane keeps its callbacks in refs: they name the group shown. *)
TerminalReports(s, st) == s \notin RdpSessions /\ ReportTo(active, s, st)

(* RdpPane's effect closed over the callbacks of its first render. *)
RdpReports(s, st) == s \in RdpSessions /\ ReportTo(home[s], s, st)

WorkspaceNext ==
  \/ \E s \in Sessions :
       \/ AddSession(s)
       \/ FocusPane(s)
       \/ \E st \in Statuses : TerminalReports(s, st) \/ RdpReports(s, st)
       \/ \E id \in GroupIds :
            \/ OpenPage(id, s)
            \/ CloseSession(id, s)
            \/ SelectSession(id, s)
            \/ \E to \in GroupIds : MergeInto(id, s, to)
            \/ \E target \in Sessions : Reorder(id, s, target)
            \/ \E position \in 0 .. Len(groups), new \in GroupIds :
                 DropToZone(id, s, position, new)
  \/ \E id \in GroupIds : OpenLayoutMenu(id)
  \/ \E layout \in Slots : ChangeLayout(layout)
  \/ LeavePage

WorkspaceSpec == WorkspaceInit /\ [][WorkspaceNext]_workspaceVars

-----------------------------------------------------------------------------
(* The tabs stay in order whatever is dragged where: no group is empty and *)
(* no session is twice in the sidebar, the focus is one of the group's own *)
(* sessions, the group shown exists, and a lone session (which has no      *)
(* layout menu to get out of a split) fills the area.                      *)
WellPlaced ==
  /\ \A i \in DOMAIN groups :
       LET g == groups[i]
       IN  /\ g.sessions # <<>> /\ IsInjective(g.sessions)
           /\ g.focused \in ToSet(g.sessions)
           /\ Len(g.sessions) = 1 => g.layout = 1
           /\ \A j \in DOMAIN groups \ {i} :
                groups[j].id # g.id /\ ToSet(groups[j].sessions) \cap ToSet(g.sessions) = {}
  /\ Open => HasGroup(groups, active)

(* A session leaves the page only because the user closed it or left:      *)
(* merging, extracting, reordering and changing the layout lose none.      *)
OnlyClosed ==
  groups' # <<>> =>
    \A s \in Held(groups) \ Held(groups') : \E id \in GroupIds : CloseSession(id, s)

(* The end that a terminal has reported shows on its tab, also when the    *)
(* tab was moved to another group with its pane mounted: callbacks taken   *)
(* at the mount would name a group that no longer holds it.                *)
TerminalReportsKept ==
  \A s \in Sessions \ RdpSessions :
    pane[s] = "ended" => status[s] = "ended"

(* A change of layout never hides the session the user is in: whoever asks *)
(* for fewer slots, closes, merges or extracts sees the focused pane.      *)
FocusShown ==
  \A i \in DOMAIN groups', j \in DOMAIN groups :
    LET new == groups'[i] old == groups[j]
    IN  (new.id = old.id /\ new.layout # old.layout /\ Len(new.sessions) <= 4)
          => Visible(new, new.focused)
=============================================================================
