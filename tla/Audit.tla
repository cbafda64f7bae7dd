------------------------------- MODULE Audit --------------------------------
(***************************************************************************)
(* The audit log: from the operation that is audited to the verdict of     *)
(* verifyIntegrity (audit/audit.service.ts, audit.interceptor.ts and the   *)
(* controllers and gateways that call them).                               *)
(*                                                                         *)
(* A controller commits its mutation, awaits its own row, and only then    *)
(* answers; the interceptor adds a row of its own for the routes it does   *)
(* not skip, and nobody awaits that one.  Writing a row is three steps:    *)
(* read the actor, seal the row, insert it under the foreign key of the    *)
(* actor, and accounts may be deleted between any two of them.             *)
(*                                                                         *)
(* Of the metadata the model keeps what the seal can tell apart: the ids   *)
(* of its entities block, whether that block is a key without a value, and *)
(* the order of the keys.  All ids are of one kind.                        *)
(***************************************************************************)
EXTENDS Integers, Sequences, FiniteSets

CONSTANTS
    Accounts,   \* accounts
    Thing,      \* a machine, group or machine group
    Calls,      \* audited operations
    LegacyRows, \* rows sealed by the release before canonicalStringify
    BareRows,   \* rows older than the hmac column (migration 0002)
    None,       \* null
    MaxFaults,  \* bound: refusals of the database and crashes
    MaxEdits    \* bound: columns of rows edited by other means

ASSUME NoneAssumption == None \notin Accounts \cup {Thing}
ASSUME OldRowsAssumption ==
    LegacyRows \cap BareRows = {} /\ Calls \cap (LegacyRows \cup BareRows) = {}
ASSUME BoundsAssumption == MaxFaults \in Nat /\ MaxEdits \in Nat

VARIABLES
    users,     \* accounts in the database
    rows,      \* the AuditLog table
    call,      \* each operation: what it is and how far it has come
    draft,     \* the row createRow is about to insert for it
    committed, \* operations whose mutation is in the database
    answered,  \* operations whose caller has been told of success
    altered,   \* columns of rows changed in the database by other means
    faults     \* refusals and crashes so far

auditVars == <<users, rows, call, draft, committed, answered, altered, faults>>

Kinds == {"update", "addUser", "account", "remove", "createUser",
          "loginOtp", "closed"}

-----------------------------------------------------------------------------
(* What is logged of each operation, in the order it is logged.  A row of  *)
(* the controller or gateway is awaited; one of the interceptor is not.    *)

Logged(actor, ids) == [actor |-> actor, ids |-> ids, awaited |-> TRUE]
Intercepted(actor, ids) == [actor |-> actor, ids |-> ids, awaited |-> FALSE]

\* extractEntitiesFromLegacyMetadata: the ids a body has under known keys.
Extracted(c) == IF c.kind = "addUser" THEN {c.target} ELSE {}

Events(c) ==
    CASE c.kind = "update" ->
            <<Logged(c.actor, {Thing}), Intercepted(c.actor, Extracted(c))>>
      [] c.kind = "addUser" ->
            <<Logged(c.actor, {Thing, c.target}),
              Intercepted(c.actor, Extracted(c))>>
      [] c.kind \in {"account", "remove"} -> <<Logged(c.actor, {c.target})>>
      [] c.kind = "createUser" -> <<>>
      [] c.kind = "loginOtp" ->
            <<Logged(c.actor, {c.actor}), Intercepted(None, Extracted(c))>>
      [] c.kind = "closed" -> <<Logged(c.actor, {c.actor, Thing})>>

\* Mutant: the actor is not added to the entities.
WithoutActor(ids, actor) == ids

\* Auto-add the actor to the entities (log and logAction alike).
WithActor(ids, actor) == IF actor = None THEN ids ELSE ids \cup {actor}

\* `entities: finalEntitiesValue ?? undefined' over the details of the event.
Metadata(ids) == [ids   |-> ids,
                  hole  |-> IF ids = {} THEN "undefined" ELSE "none",
                  order |-> "written"]

\* What PostgreSQL gives back: no key without a value, keys in its own order.
Jsonb(meta) == [meta EXCEPT !.hole = "none", !.order = "jsonb"]

-----------------------------------------------------------------------------
(* Seals.  A digest is the text it was taken of.                           *)

\* Mutant: the keys are sealed in the order they were written in.
Unsorted(meta) == [meta EXCEPT !.hole = IF @ = "undefined" THEN "null" ELSE @]

\* canonicalStringify sorts the keys and writes a missing value as null.
Canonical(meta) == [meta EXCEPT !.hole = IF @ = "undefined" THEN "null" ELSE @,
                                !.order = "sorted"]

\* JSON.stringify keeps the order it finds and drops a missing value.
Plain(meta) == [meta EXCEPT !.hole = "none"]

\* The columns the seal is taken of: authMethod is not among them.
Covered(row, text) == [id |-> row.id, userId |-> row.userId,
                       action |-> row.action, snapshot |-> row.snapshot,
                       metadata |-> text]

Hmac(row) == [alg |-> "canonical", text |-> Covered(row, Canonical(row.meta))]
LegacyHmac(row) == [alg |-> "legacy", text |-> Covered(row, Plain(row.meta))]
NoHmac == [alg |-> "none"]

\* verifyIntegrity: a row is reported when it has a seal and both fail.
Tampered(row) == /\ row.hmac # NoHmac
                 /\ row.hmac # Hmac(row)
                 /\ row.hmac # LegacyHmac(row)

\* getLogs with entityType and entityId.
Found(id) == {row \in rows : id \in row.meta.ids}

-----------------------------------------------------------------------------
NoCall == [kind |-> "none", actor |-> None, target |-> None,
           phase |-> "idle", at |-> 1]
NoDraft == [id |-> <<None, 0>>]

OldRow(id, actor) == [id |-> <<id, 0>>, userId |-> actor, snapshot |-> TRUE,
                      action |-> "own", authMethod |-> "own", hmac |-> NoHmac,
                      meta |-> Jsonb(Metadata({}))]

\* The rows of earlier releases verified when those releases checked them.
OldTable(actor) ==
    {OldRow(b, actor) : b \in BareRows}
    \cup {[OldRow(l, actor) EXCEPT !.hmac = LegacyHmac(OldRow(l, actor))] :
             l \in LegacyRows}

AuditInit ==
  /\ users = Accounts
  /\ \E u \in Accounts : rows = OldTable(u)
  /\ call = [c \in Calls |-> NoCall]
  /\ draft = [c \in Calls |-> NoDraft]
  /\ committed = {}
  /\ answered = {}
  /\ altered = {}
  /\ faults = 0

Fault == faults < MaxFaults /\ faults' = faults + 1

\* The guards have let the request through.  A gateway's disconnect has no
\* guard: its account may have gone since the socket connected.
Arrive(c) ==
    /\ call[c].phase = "idle"
    /\ \E kind \in Kinds, actor \in Accounts, target \in Accounts :
          /\ kind # "closed" => actor \in users
          /\ kind = "remove" => target # actor
          /\ kind \in {"update", "createUser", "loginOtp", "closed"}
                => target = actor
          /\ call' = [call EXCEPT ![c] = [kind |-> kind, actor |-> actor,
                                          target |-> target, at |-> 1,
                                          phase |-> "mutating"]]
    /\ UNCHANGED <<users, rows, draft, committed, answered, altered, faults>>

\* Every mutation of an account needs the account.
TargetFound(c) == call[c].kind \in {"addUser", "account", "remove", "loginOtp"}
                    => call[c].target \in users

\* ON DELETE SET NULL.
Orphan(u) == {IF row.userId = u THEN [row EXCEPT !.userId = None] ELSE row :
                 row \in rows}

\* The row of event n is done with: on to the next, and once none of the
\* remaining ones is awaited the caller has its answer.
NextEvent(c, n) ==
    LET events == Events(call[c])
        rest   == n < Len(events)
    IN /\ call' = [call EXCEPT ![c].at = IF rest THEN n + 1 ELSE n,
                               ![c].phase = IF rest THEN "logging" ELSE "done"]
       /\ answered' = IF rest /\ events[n + 1].awaited THEN answered
                                                       ELSE answered \cup {c}

Commit(c) ==
    /\ call[c].phase = "mutating"
    /\ TargetFound(c)
    /\ committed' = committed \cup {c}
    /\ IF call[c].kind = "remove"
       THEN /\ users' = users \ {call[c].target}
            /\ rows' = Orphan(call[c].target)
       ELSE UNCHANGED <<users, rows>>
    /\ NextEvent(c, 0)
    /\ UNCHANGED <<draft, altered, faults>>

\* The mutation throws: neither the controller nor the interceptor logs.
CommitFails(c) ==
    /\ call[c].phase = "mutating"
    /\ IF TargetFound(c) THEN Fault ELSE UNCHANGED faults
    /\ call' = [call EXCEPT ![c].phase = "done"]
    /\ UNCHANGED <<users, rows, draft, committed, answered, altered>>

\* createRow: the actor is read (a failed read is no snapshot), then the row
\* is stamped and sealed in one go.
Seal(c) ==
    /\ call[c].phase = "logging"
    /\ \E snapshot \in BOOLEAN :
          LET n     == call[c].at
              event == Events(call[c])[n]
              row   == [id |-> <<c, n>>, userId |-> event.actor,
                        snapshot |-> snapshot, action |-> "own",
                        authMethod |-> "own",
                        meta |-> Metadata(WithActor(event.ids, event.actor)),
                        hmac |-> NoHmac]
          IN /\ snapshot => event.actor \in users
             /\ IF event.actor \in users /\ ~snapshot THEN Fault
                                                      ELSE UNCHANGED faults
             /\ draft' = [draft EXCEPT ![c] = [row EXCEPT !.hmac = Hmac(row)]]
    /\ call' = [call EXCEPT ![c].phase = "sealed"]
    /\ UNCHANGED <<users, rows, committed, answered, altered>>

KeyHolds(c) == draft[c].userId \in users \cup {None}

Insert(c) ==
    /\ call[c].phase = "sealed"
    /\ KeyHolds(c)
    /\ rows' = rows \cup {[draft[c] EXCEPT !.meta = Jsonb(@)]}
    /\ draft' = [draft EXCEPT ![c] = NoDraft]
    /\ NextEvent(c, call[c].at)
    /\ UNCHANGED <<users, committed, altered, faults>>

\* Mutant: the rejection of an awaited row is swallowed too.
InsertFailsQuietly(c) ==
    /\ call[c].phase = "sealed"
    /\ IF KeyHolds(c) THEN Fault ELSE UNCHANGED faults
    /\ draft' = [draft EXCEPT ![c] = NoDraft]
    /\ NextEvent(c, call[c].at)
    /\ UNCHANGED <<users, rows, committed, altered>>

\* An awaited row fails its request, whose mutation stays; the interceptor
\* only logs the error.
InsertFails(c) ==
    /\ call[c].phase = "sealed"
    /\ IF KeyHolds(c) THEN Fault ELSE UNCHANGED faults
    /\ draft' = [draft EXCEPT ![c] = NoDraft]
    /\ call' = [call EXCEPT ![c].phase = "done"]
    /\ UNCHANGED <<users, rows, committed, answered, altered>>

\* The process dies with what it was doing.
Crash ==
    /\ Fault
    /\ call' = [c \in Calls |-> IF call[c].phase = "idle" THEN call[c]
                                ELSE [call[c] EXCEPT !.phase = "done"]]
    /\ draft' = [c \in Calls |-> NoDraft]
    /\ UNCHANGED <<users, rows, committed, answered, altered>>

\* Somebody edits a row in the database: a column its seal covers, for which the
\* action stands, the one it does not, or the seal itself, which goes.
Columns == {"action", "authMethod", "hmac"}
Edited(row, column) ==
    CASE column = "action" -> [row EXCEPT !.action = "other"]
      [] column = "authMethod" -> [row EXCEPT !.authMethod = "other"]
      [] column = "hmac" -> [row EXCEPT !.hmac = NoHmac]

Alter(row, column) ==
    /\ Cardinality(altered) < MaxEdits
    /\ <<row.id, column>> \notin altered
    /\ Edited(row, column) # row
    /\ rows' = (rows \ {row}) \cup {Edited(row, column)}
    /\ altered' = altered \cup {<<row.id, column>>}
    /\ UNCHANGED <<users, call, draft, committed, answered, faults>>

AuditNext ==
  \/ \E c \in Calls : Arrive(c)
  \/ \E c \in Calls : Commit(c)
  \/ \E c \in Calls : CommitFails(c)
  \/ \E c \in Calls : Seal(c)
  \/ \E c \in Calls : Insert(c)
  \/ \E c \in Calls : InsertFails(c)
  \/ \E row \in rows, column \in Columns : Alter(row, column)
  \/ Crash

AuditSpec == AuditInit /\ [][AuditNext]_auditVars

-----------------------------------------------------------------------------
(* Properties                                                              *)

(* The log tells of nothing that did not happen: a row of an operation is  *)
(* only there when its mutation is in the database (mutation first, row    *)
(* after, in every controller; tap() only on success).                     *)
NoPhantomRow ==
    \A row \in rows : row.id[1] \in Calls => row.id[1] \in committed

(* A caller who was told of success has its row: deletion of the actor,    *)
(* refusals and crashes between the mutation and the insert can lose a row *)
(* but never behind an answer (rows are awaited before the response).      *)
AnsweredIsLogged ==
    \A c \in answered : \A n \in DOMAIN Events(call[c]) :
        Events(call[c])[n].awaited => \E row \in rows : row.id = <<c, n>>

(* Both: what the log says is what was done.                               *)
LogMatchesChanges == NoPhantomRow /\ AnsweredIsLogged

(* An operation that was answered with success is found by who did it and   *)
(* by each account and object it was done to, also when these are deleted   *)
(* afterwards and userId is null: some row of it names them (the actor is   *)
(* added to the entities of every row, the ids stay when the key goes).     *)
(* Creating a user is not: the interceptor leaves its route to a controller *)
(* that writes no row.                                                      *)
About(k) ==
    {k.actor}
    \cup (IF k.kind \in {"addUser", "account", "remove"} THEN {k.target} ELSE {})
    \cup (IF k.kind \in {"update", "addUser", "closed"} THEN {Thing} ELSE {})
FoundBy(c, id) == \E row \in Found(id) : row.id[1] = c
FilterFindsAll ==
    \A c \in answered : call[c].kind # "createUser"
        => \A id \in About(call[c]) : FoundBy(c, id)

(* A row in whose covered columns nothing was changed, of this release or   *)
(* of an earlier one, and whose actor still has its account is never        *)
(* reported as tampered, whatever order the database gives its keys back    *)
(* in.                                                                      *)
LiveRowsVerify ==
    \A row \in rows :
        row.userId # None /\ <<row.id, "action">> \notin altered => ~Tampered(row)

(* A row that still has a seal is reported when a column the seal covers    *)
(* was changed.                                                             *)
ChangeIsReported ==
    \A row \in rows :
        row.hmac # NoHmac /\ <<row.id, "action">> \in altered => Tampered(row)

(* Both: of the rows that keep their seal and whose actor has an account,   *)
(* verifyIntegrity reports those whose covered columns were changed and no  *)
(* others, whatever else was edited (a row of this or an earlier release    *)
(* whose actor is gone, or that never had one nor an entity, is reported    *)
(* although nobody touched it).                                             *)
VerdictTells == LiveRowsVerify /\ ChangeIsReported

=============================================================================
