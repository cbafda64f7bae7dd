-------------------------------- MODULE Rbac --------------------------------
(***************************************************************************)
(* Who may use and manage which machine: rbac.service.ts,                  *)
(* permissions.controller.ts, and the routes that change what they read    *)
(* (groups, machines, machine groups, users).                              *)
(*                                                                         *)
(* An action is the code between two awaits; the database executes one     *)
(* statement at a time.  The unique constraints of Permission make the     *)
(* table a function of the pair (user or group, machine or machine group). *)
(* Entities are created beforehand, identifiers are never used again, and  *)
(* nobody's role changes.                                                  *)
(***************************************************************************)
EXTENDS Integers, FiniteSets

CONSTANTS
    Users, Admins,           \* people, by their role
    Groups,                  \* groups of people
    Machines, MachineGroups,
    Requests,                \* requests under way at once
    NoGroup,                 \* machineGroupId null
    NoRequest

Subjects == Users \cup Groups
Scopes == Machines \cup MachineGroups
Entities == Subjects \cup Scopes
Cells == Subjects \X Scopes
Parents == MachineGroups \cup {NoGroup}

\* AccessLevel; 0 where there is no row.
Operator == 1
Owner == 2
Levels == {0, Operator, Owner}

\* A request: create and remove of permissions.controller.ts, and the PATCH of
\* a machine, which can put it into another group.
Steps == {"machine", "user", "target", "find", "write", "delete", "assign"}
Request == [pc : Steps, kind : {"grant", "revoke", "move"},
            actor : Users \cup Admins, subject : Subjects, scope : Scopes,
            level : Levels, to : Parents,
            found : {"none", "row", "lost"},   \* the row it read; lost: deleted since
            seen : Parents]                    \* the machine's group it read

ASSUME DistinctAssumption ==
    /\ Users \cap Admins = {} /\ Subjects \cap Scopes = {}
    /\ Users \cap Groups = {} /\ Machines \cap MachineGroups = {}
    /\ NoGroup \notin Entities
    /\ NoRequest \notin Request

VARIABLES
    live,         \* users, groups, machines and machine groups not deleted
    members,      \* users of each group
    groupOf,      \* machineGroupId of each machine
    perm,         \* Permission rows: level by (subject, scope)
    ungrouping,   \* machine groups whose removal has ungrouped the machines
    req,          \* requests under way
    \* History, for the properties only.
    raced,        \* requests whose actor joined or left a group meanwhile
    moved         \* requests whose machine changed groups meanwhile

vars == <<live, members, groupOf, perm, ungrouping, req, raced, moved>>

\* What the foreign keys of schema.prisma give: rows refer to entities that exist.
RefsLive ==
    /\ \A g \in Groups : members[g] # {} => g \in live /\ members[g] \subseteq live
    /\ \A m \in Machines : groupOf[m] # NoGroup => m \in live /\ groupOf[m] \in live
    /\ \A s \in Subjects, x \in Scopes : perm[<<s, x>>] # 0 => s \in live /\ x \in live

TypeOK ==
    /\ live \subseteq Entities
    /\ members \in [Groups -> SUBSET Users]
    /\ groupOf \in [Machines -> Parents]
    /\ perm \in [Cells -> Levels]
    /\ ungrouping \subseteq MachineGroups
    /\ req \in [Requests -> Request \cup {NoRequest}]
    /\ raced \subseteq Requests /\ moved \subseteq Requests
    /\ RefsLive

Init ==
    /\ live = Entities
    /\ members = [g \in Groups |-> {}]
    /\ groupOf = [m \in Machines |-> NoGroup]
    /\ perm = [c \in Cells |-> 0]
    /\ ungrouping = {}
    /\ req = [r \in Requests |-> NoRequest]
    /\ raced = {} /\ moved = {}

-----------------------------------------------------------------------------
(* hasAccess *)

\* The rows that speak for a user: the user's own and those of the groups.
Own(u) == {u} \cup {g \in Groups : u \in members[g]}

\* { machineGroupId: { equals: machine?.machineGroupId ?? null } } selects, for
\* a machine without a group, every row that has no machineGroupId.
Selected(m, g) == {m} \cup IF g = NoGroup THEN Machines ELSE {g}

\* Mutant: any row will do.
HasAccessAnyLevel(u, m, g, level) ==
    \E s \in Own(u), x \in Selected(m, g) : perm[<<s, x>>] > 0

\* The verdict on machine m once it was read to be in group g.
HasAccess(u, m, g, level) ==
    \E s \in Own(u), x \in Selected(m, g) : perm[<<s, x>>] >= level

\* What findAllAccessible shows the user: a row on the machine or on its group.
Entitled(u, m, level) ==
    \E s \in Own(u), x \in Scopes :
        (x = m \/ x = groupOf[m]) /\ perm[<<s, x>>] >= level

-----------------------------------------------------------------------------
(* Requests *)

At(r, step) == req[r] # NoRequest /\ req[r].pc = step
Goto(r, step) == req' = [req EXCEPT ![r].pc = step]

\* r is answered and forgotten.
Ended(r) ==
    /\ raced' = raced \ {r}
    /\ moved' = moved \ {r}
End(r) == req' = [req EXCEPT ![r] = NoRequest] /\ Ended(r)

Cell(r) == <<req[r].subject, req[r].scope>>

\* Requests that have read one of the rows in cells, when these are deleted.
Lose(cells) ==
    [r \in Requests |->
        IF req[r] # NoRequest /\ req[r].found = "row" /\ Cell(r) \in cells
          THEN [req[r] EXCEPT !.found = "lost"] ELSE req[r]]
Without(cells) == [c \in Cells |-> IF c \in cells THEN 0 ELSE perm[c]]

tables == <<live, members, groupOf, perm, ungrouping>>

\* create: one target, one scope, which exists; a scope that is a machine
\* group is for administrators.
AskGrant(r, a, s, x, level) ==
    /\ req[r] = NoRequest
    /\ a \in live \cup Admins /\ x \in live
    /\ a \in Users => x \in Machines
    /\ req' = [req EXCEPT ![r] =
           [pc |-> IF a \in Admins THEN "find" ELSE "machine", kind |-> "grant",
            actor |-> a, subject |-> s, scope |-> x, level |-> level, to |-> NoGroup,
            found |-> "none", seen |-> NoGroup]]
    /\ UNCHANGED <<tables, raced, moved>>

\* remove: the row is read first.
AskRevoke(r, a, s, x) ==
    /\ req[r] = NoRequest
    /\ a \in live \cup Admins /\ perm[<<s, x>>] # 0
    /\ a \in Users => x \in Machines
    /\ req' = [req EXCEPT ![r] =
           [pc |-> IF a \in Admins THEN "delete" ELSE "machine", kind |-> "revoke",
            actor |-> a, subject |-> s, scope |-> x, level |-> 0, to |-> NoGroup,
            found |-> "row", seen |-> NoGroup]]
    /\ UNCHANGED <<tables, raced, moved>>

\* PATCH machines/:id with a machineGroupId, by a user who is asked for OWNER.
AskMove(r, u, m, g) ==
    /\ req[r] = NoRequest
    /\ u \in live
    /\ req' = [req EXCEPT ![r] =
           [pc |-> "machine", kind |-> "move", actor |-> u, subject |-> u, scope |-> m,
            level |-> 0, to |-> g, found |-> "none", seen |-> NoGroup]]
    /\ UNCHANGED <<tables, raced, moved>>

\* hasAccess reads the machine ...
ReadMachine(r) ==
    /\ At(r, "machine")
    /\ req' = [req EXCEPT ![r].pc = "user", ![r].seen = groupOf[req[r].scope]]
    /\ moved' = moved \ {r}
    /\ UNCHANGED <<tables, raced>>

\* ... then the user with the rows; OWNER is asked for.
MayManage(r) ==
    req[r].actor \in live /\ HasAccess(req[r].actor, req[r].scope, req[r].seen, Owner)

ReadUser(r) ==
    /\ At(r, "user")
    /\ IF MayManage(r)
         THEN /\ Goto(r, IF req[r].kind = "move" THEN "assign" ELSE "target")
              /\ moved' = moved \ {r}
              /\ UNCHANGED raced
         ELSE End(r)
    /\ UNCHANGED tables

AfterTarget(r) == IF req[r].kind = "grant" THEN "find" ELSE "delete"

\* Mutant: the groups of the actor are forgotten.
CheckTargetUser(r) ==
    /\ At(r, "target")
    /\ IF req[r].subject = req[r].actor
         THEN End(r)
         ELSE /\ Goto(r, AfterTarget(r))
              /\ raced' = raced \ {r}
              /\ UNCHANGED moved
    /\ UNCHANGED tables

\* assertTargetAllowedForOwner
CheckTarget(r) ==
    /\ At(r, "target")
    /\ IF req[r].subject \in Own(req[r].actor)
         THEN End(r)
         ELSE /\ Goto(r, AfterTarget(r))
              /\ raced' = raced \ {r}
              /\ UNCHANGED moved
    /\ UNCHANGED tables

FindRow(r) ==
    /\ At(r, "find")
    /\ req' = [req EXCEPT ![r].pc = "write",
                          ![r].found = IF perm[Cell(r)] = 0 THEN "none" ELSE "row"]
    /\ UNCHANGED <<tables, raced, moved>>

\* update of the row found, or create, which a row that has come up meanwhile
\* or an entity that is gone makes fail, as a row that is gone does an update.
Writable(r) ==
    \/ req[r].found = "row"
    \/ /\ req[r].found = "none" /\ perm[Cell(r)] = 0
       /\ req[r].subject \in live /\ req[r].scope \in live

Write(r) ==
    /\ At(r, "write")
    /\ perm' = IF Writable(r) THEN [perm EXCEPT ![Cell(r)] = req[r].level] ELSE perm
    /\ End(r)
    /\ UNCHANGED <<live, members, groupOf, ungrouping>>

\* delete of the row, or an error when it is gone.
Delete(r) ==
    /\ At(r, "delete")
    /\ IF req[r].found = "row"
         THEN /\ perm' = Without({Cell(r)})
              /\ req' = [Lose({Cell(r)}) EXCEPT ![r] = NoRequest]
         ELSE /\ req' = [req EXCEPT ![r] = NoRequest]
              /\ UNCHANGED perm
    /\ Ended(r)
    /\ UNCHANGED <<live, members, groupOf, ungrouping>>

\* A database error ends the request.
Abort(r) == req[r] # NoRequest /\ End(r) /\ UNCHANGED tables

-----------------------------------------------------------------------------
(* Everything else that changes what hasAccess reads *)

\* Requests between the two reads of hasAccess, on one of these machines, and
\* requests of these users past assertTargetAllowedForOwner.
Under(ms) == {r \in Requests : At(r, "user") /\ req[r].scope \in ms}
Of(us) == {r \in Requests : /\ At(r, "find") \/ At(r, "write") \/ At(r, "delete")
                            /\ req[r].actor \in us}

\* updateMachine with a machineGroupId: the database refuses one that is gone.
Assigned(m, g) ==
    IF m \in live /\ g \in live \cup {NoGroup}
      THEN [groupOf EXCEPT ![m] = g] ELSE groupOf

\* The end of the PATCH, and assign-group, an administrator's route.
Move(r) ==
    /\ At(r, "assign")
    /\ groupOf' = Assigned(req[r].scope, req[r].to)
    /\ req' = [req EXCEPT ![r] = NoRequest]
    /\ raced' = raced \ {r}
    /\ moved' = (moved \cup Under({req[r].scope})) \ {r}
    /\ UNCHANGED <<live, members, perm, ungrouping>>

AssignMachine(m, g) ==
    /\ groupOf' = Assigned(m, g)
    /\ groupOf' # groupOf
    /\ moved' = moved \cup Under({m})
    /\ UNCHANGED <<live, members, perm, ungrouping, req, raced>>

\* addUser and removeUser of groups.controller.ts
AddMember(u, g) ==
    /\ u \in live \ members[g] /\ g \in live
    /\ members' = [members EXCEPT ![g] = @ \cup {u}]
    /\ raced' = raced \cup Of({u})
    /\ UNCHANGED <<live, groupOf, perm, ungrouping, req, moved>>

RemoveMember(u, g) ==
    /\ u \in members[g]
    /\ members' = [members EXCEPT ![g] = @ \ {u}]
    /\ raced' = raced \cup Of({u})
    /\ UNCHANGED <<live, groupOf, perm, ungrouping, req, moved>>

\* Deleting a user or a group cascades to its memberships and its rows.
DeleteSubject(s) ==
    /\ s \in Subjects \cap live
    /\ live' = live \ {s}
    /\ members' = [g \in Groups |-> IF g = s THEN {} ELSE members[g] \ {s}]
    /\ perm' = Without({s} \X Scopes)
    /\ req' = Lose({s} \X Scopes)
    /\ raced' = raced \cup Of(IF s \in Groups THEN members[s] ELSE {s})
    /\ UNCHANGED <<groupOf, ungrouping, moved>>

DeleteMachine(m) ==
    /\ m \in Machines \cap live
    /\ live' = live \ {m}
    /\ groupOf' = [groupOf EXCEPT ![m] = NoGroup]
    /\ perm' = Without(Subjects \X {m})
    /\ req' = Lose(Subjects \X {m})
    /\ moved' = moved \cup Under({m})
    /\ UNCHANGED <<members, ungrouping, raced>>

\* MachineGroupsService.remove: its two statements.
In(g) == {m \in Machines : groupOf[m] = g}
Ungrouped(g) == [m \in Machines |-> IF groupOf[m] = g THEN NoGroup ELSE groupOf[m]]

UngroupMachines(g) ==
    /\ g \in live \ ungrouping
    /\ groupOf' = Ungrouped(g)
    /\ moved' = moved \cup Under(In(g))
    /\ ungrouping' = ungrouping \cup {g}
    /\ UNCHANGED <<live, members, perm, req, raced>>

\* A machine put into the group in between is ungrouped by onDelete: SetNull.
DeleteMachineGroup(g) ==
    /\ g \in live \cap ungrouping
    /\ live' = live \ {g}
    /\ groupOf' = Ungrouped(g)
    /\ moved' = moved \cup Under(In(g))
    /\ perm' = Without(Subjects \X {g})
    /\ req' = Lose(Subjects \X {g})
    /\ ungrouping' = ungrouping \ {g}
    /\ UNCHANGED <<members, raced>>

-----------------------------------------------------------------------------
Ask(r) ==
    \/ \E a \in Users \cup Admins, s \in Subjects, x \in Scopes :
           \/ AskRevoke(r, a, s, x)
           \/ \E level \in {Operator, Owner} : AskGrant(r, a, s, x, level)
    \/ \E u \in Users, m \in Machines, g \in Parents : AskMove(r, u, m, g)

Step(r) ==
    \/ ReadMachine(r) \/ ReadUser(r) \/ CheckTarget(r) \/ FindRow(r)
    \/ Write(r) \/ Delete(r) \/ Move(r) \/ Abort(r)

Administer ==
    \/ \E m \in Machines, g \in Parents : AssignMachine(m, g)
    \/ \E u \in Users, g \in Groups : AddMember(u, g) \/ RemoveMember(u, g)
    \/ \E s \in Subjects : DeleteSubject(s)
    \/ \E m \in Machines : DeleteMachine(m)
    \/ \E g \in MachineGroups : UngroupMachines(g) \/ DeleteMachineGroup(g)

Next ==
    \/ \E r \in Requests : Ask(r) \/ Step(r)
    \/ Administer

Spec == Init /\ [][Next]_vars

-----------------------------------------------------------------------------
(* Properties *)

\* r's permission row is being written or deleted, at a user's request.
UserWrites(r) ==
    /\ At(r, "write") \/ At(r, "delete")
    /\ req'[r] = NoRequest
    /\ req[r].actor \in Users

\* A machine owner who manages the permissions of a machine changes nothing in
\* what the owner may use or manage, by whichever of the routes to it (a row, a
\* group, a machine group), unless the owner joins or leaves a group between
\* assertTargetAllowedForOwner and the write.
OwnWritesKeepOwnAccess ==
    [][\A r \in Requests, u \in Users :
        UserWrites(r) /\ req[r].actor = u /\ r \notin raced =>
            \A m \in Machines, level \in {Operator, Owner} :
                Entitled(u, m, level) <=> Entitled(u, m, level)']_vars

Granted(r) == At(r, "user") /\ req'[r] # NoRequest /\ req'[r].pc # "user"

\* hasAccess, which reads the machine and the user one after the other, finds
\* OWNER only where the list of machines shows it, for a machine that is in a
\* group and stays there meanwhile.
VerdictSound ==
    [][\A r \in Requests : Granted(r) /\ req[r].seen # NoGroup /\ r \notin moved =>
        Entitled(req[r].actor, req[r].scope, Owner)]_vars
=============================================================================
