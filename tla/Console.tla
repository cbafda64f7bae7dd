------------------------------- MODULE Console -------------------------------
(***************************************************************************)
(* The pages of the administration that edit users, groups, machines,      *)
(* machine groups and authentication providers (client/src/pages:          *)
(* AdminUsers.tsx, AdminMachines.tsx, AdminProviders.tsx).                 *)
(*                                                                         *)
(* Each page has one table per tab, one dialog per kind of entity, and one *)
(* editingId that its dialogs share.  A request is answered at any time    *)
(* after it was sent, or fails, whatever dialog is open by then; the       *)
(* handler goes on with the state setters, which act on the page as it is, *)
(* and with the values of the render it was started in.                    *)
(*                                                                         *)
(* A form is known by the entity it was filled from (None: blank), a list  *)
(* of permissions by the machine or group it was asked for.  The tables    *)
(* and the choice of whom to give a permission are left out.               *)
(***************************************************************************)
EXTENDS Naturals, Sequences, SequencesExt, FiniteSets

CONSTANTS
  Users, ExternalUsers,       \* ExternalUsers: those of LDAP or OIDC
  UserGroups, Machines, MachineGroups, Providers,
  None,
  MaxPending                  \* bound: requests under way at once

VARIABLES
  page,          \* "none", "users", "machines" or "auth"
  tab,           \* the kind of entity its table shows
  dialog,        \* "none", or the dialog that is open: that of a kind,
                 \* "permissions", or "confirm" (the removal of a provider)
  editing,       \* editingId
  editingAuth,   \* editingAuthMethod: "LOCAL" or "EXTERNAL"
  forms,         \* kind -> the entity its form was filled from
  probing, deletingIds,
  selected,      \* selectedMachine or selectedMachineGroup; deleteTarget
  listed,        \* whose permissions the permission dialog lists
  actionBusy,    \* the provider whose buttons are disabled
  pending        \* the requests under way

formVars == <<editing, editingAuth, forms>>
guardVars == <<probing, deletingIds, actionBusy>>
dialogVars == <<selected, listed>>
consoleVars == <<page, tab, dialog, formVars, guardVars, dialogVars, pending>>

Kinds == {"user", "userGroup", "machine", "machineGroup", "provider"}
KindsOf(p) == CASE p = "users" -> {"user", "userGroup"}
                [] p = "machines" -> {"machine", "machineGroup"}
                [] OTHER -> {"provider"}
GroupKinds == {"userGroup", "machineGroup"}

Entities(kind) ==
  CASE kind = "user" -> Users
    [] kind = "userGroup" -> UserGroups
    [] kind = "machine" -> Machines
    [] kind = "machineGroup" -> MachineGroups
    [] kind = "provider" -> Providers

ConsoleInit ==
  /\ page = "none" /\ tab = "user" /\ dialog = "none"
  /\ editing = None /\ editingAuth = "LOCAL"
  /\ forms = [k \in Kinds |-> None]
  /\ probing = FALSE /\ deletingIds = {} /\ actionBusy = None
  /\ selected = None /\ listed = None /\ pending = <<>>

Request(op, kind, target, origin) ==
  [op |-> op, kind |-> kind, target |-> target, origin |-> origin, identity |-> FALSE]

(* A page is mounted, or gone with its state: what is under way is then    *)
(* answered to nobody.  The page of the providers asks for them.           *)
ShowPage(p) ==
  /\ page # p /\ page' = p
  /\ tab' = CASE p = "machines" -> "machine" [] p = "auth" -> "provider" [] OTHER -> "user"
  /\ dialog' = "none" /\ editing' = None /\ editingAuth' = "LOCAL"
  /\ forms' = [k \in Kinds |-> None]
  /\ probing' = FALSE /\ deletingIds' = {} /\ actionBusy' = None
  /\ selected' = None /\ listed' = None
  /\ pending' = IF p = "auth" THEN <<Request("list", "provider", None, None)>> ELSE <<>>

(* While it asks for its list the page of the providers is a spinner.      *)
Spinning == \E i \in DOMAIN pending : pending[i].op = "list" /\ pending[i].kind = "provider"

(* An open dialog covers the page. *)
Uncovered == page # "none" /\ dialog = "none" /\ ~Spinning

SwitchTab(kind) ==
  /\ Uncovered /\ kind \in KindsOf(page) /\ tab' = kind
  /\ UNCHANGED <<page, dialog, formVars, guardVars, dialogVars, pending>>

\* Mutant: a blank form, but what was edited last stays edited.
OpenNewOver ==
  /\ Uncovered
  /\ dialog' = tab /\ forms' = [forms EXCEPT ![tab] = None]
  /\ UNCHANGED <<page, tab, editing, editingAuth, guardVars, dialogVars, pending>>

(* The button over the table, openCreate: a blank form, nothing edited.    *)
(* The authentication method of the user edited before is kept.            *)
OpenNew ==
  /\ Uncovered
  /\ dialog' = tab /\ editing' = None /\ forms' = [forms EXCEPT ![tab] = None]
  /\ UNCHANGED <<page, tab, editingAuth, guardVars, dialogVars, pending>>

(* openEditUser, openEditGroup, openEditMachine, openEdit *)
OpenEdit(id) ==
  /\ Uncovered /\ id \in Entities(tab) /\ id # actionBusy
  /\ dialog' = tab /\ editing' = id /\ forms' = [forms EXCEPT ![tab] = id]
  /\ editingAuth' = IF tab # "user" THEN editingAuth
                    ELSE IF id \in ExternalUsers THEN "EXTERNAL" ELSE "LOCAL"
  /\ UNCHANGED <<page, tab, guardVars, dialogVars, pending>>

(* The cross and the cancel button only hide the dialog. *)
CloseDialog ==
  /\ dialog # "none" /\ ~Spinning /\ dialog' = "none"
  /\ UNCHANGED <<page, tab, formVars, guardVars, dialogVars, pending>>

Sends(request) == Len(pending) < MaxPending /\ pending' = Append(pending, request)

\* The page of the providers saves one at a time.
Saving == \E i \in DOMAIN pending : pending[i].op = "save" /\ pending[i].kind = "provider"

(* A save: PATCH to the entity edited, or POST when there is none.  Of an  *)
(* external user only the role is sent.                                    *)
Submit ==
  /\ dialog \in Kinds /\ ~Spinning /\ (dialog = "provider" => ~Saving)
  /\ Sends([Request("save", dialog, editing, forms[dialog]) EXCEPT
              !.identity = ~(dialog = "user" /\ editing # None /\ editingAuth = "EXTERNAL")])
  /\ UNCHANGED <<page, tab, dialog, formVars, guardVars, dialogVars>>

(* The members of the group edited, in its dialog (which shows them only   *)
(* while something is edited).                                             *)
ChangeMember ==
  /\ dialog \in GroupKinds /\ editing # None
  /\ Sends(Request("member", dialog, editing, forms[dialog]))
  /\ UNCHANGED <<page, tab, dialog, formVars, guardVars, dialogVars>>

(* deleteUser, deleteGroup (of users): nothing keeps a second one back. *)
DeleteUserOrGroup(id) ==
  /\ Uncovered /\ page = "users" /\ id \in Entities(tab)
  /\ Sends(Request("delete", tab, id, None))
  /\ UNCHANGED <<page, tab, dialog, formVars, guardVars, dialogVars>>

(* deleteMachine, deleteGroup (of machines) *)
DeleteMachineOrGroup(id) ==
  /\ Uncovered /\ page = "machines" /\ id \in Entities(tab)
  /\ id \notin deletingIds
  /\ deletingIds' = deletingIds \cup {id}
  /\ Sends(Request("delete", tab, id, None))
  /\ UNCHANGED <<page, tab, dialog, formVars, probing, actionBusy, dialogVars>>

(* probeSshFingerprint: the answer will be put into a copy of the form as  *)
(* it is now.                                                              *)
Probe ==
  /\ dialog = "machine" /\ ~probing /\ probing' = TRUE
  /\ Sends(Request("probe", "machine", None, forms["machine"]))
  /\ UNCHANGED <<page, tab, dialog, formVars, deletingIds, actionBusy, dialogVars>>

(* handleCreateUser, handleCreateGroup, handleSubmit, handleGroupSubmit,   *)
(* after the await: the dialog of the kind closes, whichever entity it is  *)
(* open for, and nothing is edited any more.                               *)
Saved(kind) ==
  /\ dialog' = IF dialog = kind THEN "none" ELSE dialog
  /\ editing' = None
  /\ editingAuth' = IF kind = "user" THEN "LOCAL" ELSE editingAuth
  /\ forms' = [forms EXCEPT ![kind] = None]

(* The handler goes on after its await.  A failed save is an alert. *)
Answered(i, ok) ==
  /\ i \in DOMAIN pending /\ pending[i].kind \notin {"provider", "permissions"}
  /\ pending' = RemoveAt(pending, i)
  /\ LET r == pending[i]
     IN  CASE r.op = "save" /\ ok -> Saved(r.kind) /\ UNCHANGED <<probing, deletingIds>>
           [] r.op = "probe" ->
                /\ probing' = FALSE
                /\ forms' = IF ok THEN [forms EXCEPT !["machine"] = r.origin] ELSE forms
                /\ UNCHANGED <<dialog, editing, editingAuth, deletingIds>>
           [] r.op = "delete" ->
                /\ deletingIds' = deletingIds \ {r.target}
                /\ UNCHANGED <<dialog, formVars, probing>>
           [] OTHER -> UNCHANGED <<dialog, formVars, probing, deletingIds>>
  /\ UNCHANGED <<page, tab, actionBusy, dialogVars>>

-----------------------------------------------------------------------------
(* The permissions of a machine or a machine group. *)

(* openPermissions, openGroupPermissions: until the answer comes the       *)
(* dialog lists what it listed before.                                     *)
OpenPermissions(id) ==
  /\ Uncovered /\ page = "machines" /\ id \in Entities(tab)
  /\ dialog' = "permissions" /\ selected' = id
  /\ Sends(Request("list", "permissions", id, id))
  /\ UNCHANGED <<page, tab, formVars, guardVars, listed>>

(* handlePermSubmit: to what is selected; deletePermission: a row listed.  *)
ChangePermission ==
  /\ dialog = "permissions"
  /\ \/ Sends(Request("grant", "permissions", selected, selected))
     \/ listed # None /\ Sends(Request("withdraw", "permissions", listed, selected))
  /\ UNCHANGED <<page, tab, dialog, formVars, guardVars, dialogVars>>

(* A change is followed by the list of what was selected when it was sent, *)
(* and a list is shown whatever is selected by then.                       *)
PermissionsAnswered(i, ok) ==
  /\ i \in DOMAIN pending /\ pending[i].kind = "permissions"
  /\ LET r == pending[i]
     IN  /\ pending' = IF ok /\ r.op # "list"
                       THEN [pending EXCEPT ![i] = Request("list", "permissions", r.origin, r.origin)]
                       ELSE RemoveAt(pending, i)
         /\ listed' = IF ok /\ r.op = "list" THEN r.target ELSE listed
  /\ UNCHANGED <<page, tab, dialog, formVars, guardVars, selected>>

-----------------------------------------------------------------------------
(* The providers. *)

(* toggleProvider *)
Toggle(id) ==
  /\ Uncovered /\ page = "auth" /\ id \in Providers /\ id # actionBusy
  /\ actionBusy' = id
  /\ Sends(Request("toggle", "provider", id, id))
  /\ UNCHANGED <<page, tab, dialog, formVars, probing, deletingIds, dialogVars>>

AskDelete(id) ==
  /\ Uncovered /\ page = "auth" /\ id \in Providers /\ id # actionBusy
  /\ dialog' = "confirm" /\ selected' = id
  /\ UNCHANGED <<page, tab, formVars, guardVars, listed, pending>>

(* confirmDelete *)
ConfirmDelete ==
  /\ dialog = "confirm" /\ ~Spinning /\ selected # actionBusy
  /\ actionBusy' = selected
  /\ Sends(Request("delete", "provider", selected, selected))
  /\ UNCHANGED <<page, tab, dialog, formVars, probing, deletingIds, dialogVars>>

(* submitEditor, toggleProvider, confirmDelete after the await: editor and *)
(* question close, whichever provider they are open for, and the list is   *)
(* asked for, before the buttons come back: those of any provider.         *)
ProviderAnswered(i, ok) ==
  /\ i \in DOMAIN pending /\ pending[i].kind = "provider"
  /\ LET r == pending[i]
         again == ok /\ r.op # "list"
         busy  == IF r.op = "save" THEN None ELSE r.origin
     IN  /\ pending' = IF again THEN [pending EXCEPT ![i] = Request("list", "provider", None, busy)]
                       ELSE RemoveAt(pending, i)
         /\ actionBusy' = IF again \/ r.op = "save" \/ (r.op = "list" /\ r.origin = None)
                          THEN actionBusy ELSE None
         /\ CASE r.op = "save" /\ ok -> Saved("provider")
              [] r.op = "delete" /\ ok -> /\ dialog' = IF dialog = "confirm" THEN "none" ELSE dialog
                                          /\ UNCHANGED formVars
              [] OTHER -> UNCHANGED <<dialog, formVars>>
  /\ UNCHANGED <<page, tab, probing, deletingIds, dialogVars>>

ConsoleNext ==
  \/ \E p \in {"none", "users", "machines", "auth"} : ShowPage(p)
  \/ \E kind \in Kinds : SwitchTab(kind)
  \/ OpenNew
  \/ \E id \in UNION {Entities(k) : k \in Kinds} :
       \/ OpenEdit(id) \/ DeleteUserOrGroup(id) \/ DeleteMachineOrGroup(id)
       \/ OpenPermissions(id) \/ Toggle(id) \/ AskDelete(id)
  \/ CloseDialog \/ Submit \/ ChangeMember \/ Probe \/ ChangePermission \/ ConfirmDelete
  \/ \E i \in DOMAIN pending, ok \in BOOLEAN :
       Answered(i, ok) \/ PermissionsAnswered(i, ok) \/ ProviderAnswered(i, ok)

ConsoleSpec == ConsoleInit /\ [][ConsoleNext]_consoleVars

-----------------------------------------------------------------------------
(* What is saved goes to the entity it was read from: although the dialogs *)
(* share one editingId and late answers reset it under an open dialog, no  *)
(* user and no group is overwritten with another's form, no member goes to *)
(* a group other than the one shown, and the identity of an external user  *)
(* is never sent.  (Machines are left out: the answer of a probe may bring *)
(* back the form of the machine that was open when it was asked.)          *)
SavesGoHome ==
  \A i \in DOMAIN pending :
    LET r == pending[i]
    IN  /\ (r.op \in {"save", "member"} /\ r.kind # "machine" /\ r.target # None)
             => r.origin = r.target
        /\ (r.op = "save" /\ r.kind = "user" /\ r.target \in ExternalUsers) => ~r.identity
=============================================================================
