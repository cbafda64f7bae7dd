----------------------------- MODULE AdminProofs ----------------------------
(***************************************************************************)
(* Proofs about what the administration does: the rights it gives (Rbac)   *)
(* and the log of what it did (Audit).  The two models have no variable in *)
(* common; each has its part here.                                         *)
(***************************************************************************)
EXTENDS Rbac, Audit, TLAPS

-----------------------------------------------------------------------------
(***************************************************************************)
(* Rbac, for every set of people, groups, machines, machine groups and     *)
(* requests.                                                               *)
(***************************************************************************)

\* A row that was read, and not lost since, is there.
RowFound ==
    \A r \in Requests :
        req[r] # NoRequest /\ req[r].found = "row" => perm[Cell(r)] # 0

\* hasAccess is asked about machines, and by users; a level is granted.
UserSteps == {"machine", "user", "target", "assign"}
WellFormed ==
    \A r \in Requests : req[r] # NoRequest =>
        /\ req[r].actor \in Users => req[r].scope \in Machines
        /\ req[r].pc \in UserSteps => req[r].actor \in Users
        /\ req[r].kind = "grant" => req[r].level # 0
        /\ req[r].pc \in {"find", "write"} => req[r].kind = "grant"

TypeInv == TypeOK /\ RowFound /\ WellFormed

\* Between the check of the target and the write, the target is not the actor's.
WriteSteps == {"find", "write", "delete"}
TargetApart ==
    \A r \in Requests :
        req[r] # NoRequest /\ req[r].actor \in Users /\ req[r].pc \in WriteSteps
            /\ r \notin raced =>
        req[r].subject \notin Own(req[r].actor)

\* The group a machine was read in is the one it is in.
SeenFresh ==
    \A r \in Requests :
        req[r] # NoRequest /\ req[r].pc = "user" /\ r \notin moved =>
        req[r].seen = groupOf[req[r].scope]

\* An administrator is not a user.
LEMMA Roles == \A a \in Admins : a \notin Users
  BY DistinctAssumption

\* q is p, which may have lost its row among cells.
SameBut(q, p, cells) ==
    /\ q \in Request
    /\ q.pc = p.pc /\ q.kind = p.kind /\ q.actor = p.actor /\ q.level = p.level
    /\ q.subject = p.subject /\ q.scope = p.scope /\ q.seen = p.seen
    /\ q.found = "row" => p.found = "row" /\ <<p.subject, p.scope>> \notin cells

\* Rows are only taken away from what requests have read.
LEMMA LoseType ==
    ASSUME TypeInv, NEW cells, NEW r \in Requests
    PROVE /\ req[r] = NoRequest => Lose(cells)[r] = NoRequest
          /\ req[r] # NoRequest => SameBut(Lose(cells)[r], req[r], cells)
  <1>1. CASE req[r] = NoRequest
    BY <1>1 DEF Lose
  <1>2. CASE req[r] # NoRequest
    <2>1. req[r] \in Request
      BY <1>2 DEF TypeInv, TypeOK
    <2>2. Lose(cells)[r] = IF req[r].found = "row" /\ Cell(r) \in cells
                             THEN [req[r] EXCEPT !.found = "lost"] ELSE req[r]
      BY <1>2 DEF Lose
    <2> QED
      BY <1>2, <2>1, <2>2 DEF SameBut, Request, Cell
  <1> QED
    BY <1>1, <1>2

LEMMA WithoutType ==
    ASSUME TypeInv, NEW cells
    PROVE Without(cells) \in [Cells -> Levels]
  BY DEF Without, TypeInv, TypeOK, Levels

\* A request that is accepted leaves everything as it is but itself.
LEMMA AskType ==
    ASSUME TypeInv, NEW r \in Requests, Ask(r)
    PROVE TypeInv'
  <1> USE DEF Request, Steps, Levels, Operator, Owner, Parents, Scopes, Subjects
  <1> SUFFICES ASSUME NEW q \in Request,
                      req' = [req EXCEPT ![r] = q], UNCHANGED <<tables, raced, moved>>,
                      q.found = "row" => perm[<<q.subject, q.scope>>] # 0,
                      q.actor \in Users => q.scope \in Machines,
                      q.pc \in UserSteps => q.actor \in Users,
                      q.kind = "grant" => q.level # 0,
                      q.pc \in {"find", "write"} => q.kind = "grant"
               PROVE  TypeInv'
    <2>1. ASSUME NEW a \in Users \cup Admins, NEW s \in Subjects, NEW x \in Scopes,
                 AskRevoke(r, a, s, x)
          PROVE  TypeInv'
      <3> DEFINE q == [pc |-> IF a \in Admins THEN "delete" ELSE "machine",
                       kind |-> "revoke", actor |-> a, subject |-> s, scope |-> x,
                       level |-> 0, to |-> NoGroup, found |-> "row", seen |-> NoGroup]
      <3>1. q \in Request
        OBVIOUS
      <3>2. /\ q.found = "row" => perm[<<q.subject, q.scope>>] # 0
            /\ q.actor \in Users => q.scope \in Machines
            /\ q.pc \in UserSteps => q.actor \in Users
            /\ q.kind = "grant" => q.level # 0
            /\ q.pc \in {"find", "write"} => q.kind = "grant"
        BY <2>1 DEF AskRevoke, UserSteps
      <3>3. req' = [req EXCEPT ![r] = q] /\ UNCHANGED <<tables, raced, moved>>
        BY <2>1 DEF AskRevoke
      <3> HIDE DEF q
      <3> QED
        BY <3>1, <3>2, <3>3
    <2>2. ASSUME NEW a \in Users \cup Admins, NEW s \in Subjects, NEW x \in Scopes,
                 NEW level \in {Operator, Owner}, AskGrant(r, a, s, x, level)
          PROVE  TypeInv'
      <3> DEFINE q == [pc |-> IF a \in Admins THEN "find" ELSE "machine",
                       kind |-> "grant", actor |-> a, subject |-> s, scope |-> x,
                       level |-> level, to |-> NoGroup, found |-> "none",
                       seen |-> NoGroup]
      <3>1. q \in Request
        OBVIOUS
      <3>2. /\ q.found = "row" => perm[<<q.subject, q.scope>>] # 0
            /\ q.actor \in Users => q.scope \in Machines
            /\ q.pc \in UserSteps => q.actor \in Users
            /\ q.kind = "grant" => q.level # 0
            /\ q.pc \in {"find", "write"} => q.kind = "grant"
        BY <2>2 DEF AskGrant, UserSteps
      <3>3. req' = [req EXCEPT ![r] = q] /\ UNCHANGED <<tables, raced, moved>>
        BY <2>2 DEF AskGrant
      <3> HIDE DEF q
      <3> QED
        BY <3>1, <3>2, <3>3
    <2>3. ASSUME NEW u \in Users, NEW m \in Machines, NEW g \in Parents,
                 AskMove(r, u, m, g)
          PROVE  TypeInv'
      BY <2>3, Roles, DistinctAssumption DEF AskMove, UserSteps
    <2> QED
      BY <2>1, <2>2, <2>3 DEF Ask
  <1>1. TypeOK'
    BY DEF TypeInv, TypeOK, RefsLive, tables
  <1>2. RowFound'
    BY DEF TypeInv, TypeOK, RowFound, Cell, tables
  <1>3. WellFormed'
    BY DEF TypeInv, TypeOK, WellFormed, UserSteps
  <1> QED
    BY <1>1, <1>2, <1>3 DEF TypeInv

\* The end of a request.
LEMMA EndType ==
    ASSUME TypeInv, NEW r \in Requests, End(r), UNCHANGED tables
    PROVE TypeInv'
  <1>1. TypeOK'
    BY DEF TypeInv, TypeOK, RefsLive, End, Ended, tables
  <1>2. RowFound'
    BY DEF TypeInv, TypeOK, RowFound, Cell, End, Ended, tables
  <1>3. WellFormed'
    BY DEF TypeInv, TypeOK, WellFormed, End, Ended
  <1> QED
    BY <1>1, <1>2, <1>3 DEF TypeInv

\* A request goes on: every step but the last leaves the tables alone.
LEMMA GotoType ==
    ASSUME TypeInv, NEW r \in Requests, req[r] # NoRequest,
           NEW step \in Steps, Goto(r, step), step \in UserSteps => req[r].actor \in Users,
           step \in {"find", "write"} => req[r].kind = "grant",
           UNCHANGED tables, raced' \subseteq raced, moved' \subseteq moved
    PROVE TypeInv'
  <1>1. req[r] \in Request /\ req'[r] \in Request
    BY DEF TypeInv, TypeOK, Goto, Request
  <1>2. /\ req'[r].found = req[r].found /\ req'[r].actor = req[r].actor
        /\ req'[r].kind = req[r].kind /\ req'[r].level = req[r].level
        /\ req'[r].subject = req[r].subject /\ req'[r].scope = req[r].scope
        /\ req'[r].pc = step
        /\ \A q \in Requests : q # r => req'[q] = req[q]
    BY <1>1 DEF TypeInv, TypeOK, Goto, Request
  <1>3. req' \in [Requests -> Request \cup {NoRequest}]
    BY <1>1 DEF TypeInv, TypeOK, Goto
  <1>4. TypeOK'
    BY <1>3 DEF TypeInv, TypeOK, RefsLive, tables
  <1>5. RowFound'
    BY <1>1, <1>2 DEF TypeInv, RowFound, Cell, tables
  <1>6. WellFormed'
    BY <1>1, <1>2 DEF TypeInv, WellFormed
  <1> QED
    BY <1>4, <1>5, <1>6 DEF TypeInv

\* The requests know which rows were deleted; some of them have ended.
ReqLose(cells) ==
    /\ DOMAIN req' = Requests /\ req' = [q \in Requests |-> req'[q]]
    /\ \A q \in Requests : req'[q] \in {NoRequest, Lose(cells)[q]}

\* What else is deleted with the rows leaves no reference behind.
RefsKept(cells) ==
    /\ members' \in [Groups -> SUBSET Users]
    /\ \A g \in Groups : members'[g] # {} => g \in live' /\ members'[g] \subseteq live'
    /\ groupOf' \in [Machines -> Parents]
    /\ \A m \in Machines : groupOf'[m] # NoGroup => m \in live' /\ groupOf'[m] \in live'
    /\ \A s \in Subjects, x \in Scopes :
          <<s, x>> \notin cells /\ perm[<<s, x>>] # 0 => s \in live' /\ x \in live'

\* Rows are deleted.
LEMMA DropType ==
    ASSUME TypeInv, NEW cells, perm' = Without(cells), ReqLose(cells), RefsKept(cells),
           live' \subseteq live, ungrouping' \subseteq ungrouping,
           raced' \subseteq Requests, moved' \subseteq Requests
    PROVE TypeInv'
  <1>1. perm' \in [Cells -> Levels]
    BY WithoutType
  <1>2. \A s \in Subjects, x \in Scopes :
            perm'[<<s, x>>] = IF <<s, x>> \in cells THEN 0 ELSE perm[<<s, x>>]
    BY DEF Without, Cells
  <1>3. ASSUME NEW q \in Requests, req'[q] # NoRequest
        PROVE  /\ req[q] # NoRequest /\ req[q] \in Request
               /\ SameBut(req'[q], req[q], cells)
    BY <1>3, LoseType DEF ReqLose, TypeInv, TypeOK
  <1>4. req' \in [Requests -> Request \cup {NoRequest}]
    <2>1. \A q \in Requests : req'[q] \in Request \cup {NoRequest}
      BY <1>3 DEF SameBut
    <2> QED
      BY <2>1 DEF ReqLose
  <1>5. TypeOK'
    BY <1>1, <1>2, <1>4 DEF RefsKept, TypeInv, TypeOK, RefsLive
  <1>6. RowFound'
    <2> SUFFICES ASSUME NEW q \in Requests, req'[q] # NoRequest, req'[q].found = "row"
                 PROVE  perm'[<<req'[q].subject, req'[q].scope>>] # 0
      BY DEF RowFound, Cell
    <2>1. /\ req[q] # NoRequest /\ req[q] \in Request
          /\ SameBut(req'[q], req[q], cells)
      BY <1>3
    <2>2. req[q].subject \in Subjects /\ req[q].scope \in Scopes
      BY <2>1 DEF Request
    <2> QED
      BY <1>2, <2>1, <2>2 DEF SameBut, Cell, RowFound, TypeInv
  <1>7. WellFormed'
    <2> SUFFICES ASSUME NEW q \in Requests, req'[q] # NoRequest
                 PROVE  /\ req'[q].actor \in Users => req'[q].scope \in Machines
                        /\ req'[q].pc \in UserSteps => req'[q].actor \in Users
                        /\ req'[q].kind = "grant" => req'[q].level # 0
                        /\ req'[q].pc \in {"find", "write"} => req'[q].kind = "grant"
      BY DEF WellFormed
    <2> QED
      BY <1>3 DEF TypeInv, WellFormed, SameBut
  <1> QED
    BY <1>5, <1>6, <1>7 DEF TypeInv

\* A machine is put into a group that exists, or into none.
LEMMA AssignedType ==
    ASSUME TypeInv, NEW m \in Machines, NEW g \in Parents
    PROVE /\ Assigned(m, g) \in [Machines -> Parents]
          /\ \A n \in Machines : Assigned(m, g)[n] # NoGroup =>
                n \in live /\ Assigned(m, g)[n] \in live
  BY DEF Assigned, TypeInv, TypeOK, RefsLive

LEMMA StepType ==
    ASSUME TypeInv, NEW r \in Requests, Step(r)
    PROVE TypeInv'
  <1> USE DEF At
  <1>0. req[r] # NoRequest => req[r] \in Request
    BY DEF TypeInv, TypeOK
  <1>1. CASE ReadMachine(r)
    <2>1. req[r] # NoRequest /\ req[r].scope \in Machines /\ req[r].actor \in Users
      BY <1>1 DEF ReadMachine, TypeInv, WellFormed, UserSteps
    <2>2. groupOf[req[r].scope] \in Parents
      BY <2>1 DEF TypeInv, TypeOK
    <2>3. req'[r] \in Request
      BY <1>0, <1>1, <2>1, <2>2 DEF ReadMachine, Request, Steps, TypeInv, TypeOK
    <2>4. /\ req'[r].found = req[r].found /\ req'[r].actor = req[r].actor
        /\ req'[r].kind = req[r].kind /\ req'[r].level = req[r].level
          /\ req'[r].subject = req[r].subject /\ req'[r].scope = req[r].scope
          /\ req'[r].pc = "user"
          /\ \A q \in Requests : q # r => req'[q] = req[q]
      BY <1>0, <1>1, <2>1 DEF ReadMachine, Request, TypeInv, TypeOK
    <2>5. TypeOK'
      BY <1>1, <2>1, <2>3 DEF ReadMachine, TypeInv, TypeOK, RefsLive, tables
    <2>6. RowFound'
      BY <1>1, <2>1, <2>4 DEF ReadMachine, TypeInv, RowFound, Cell, tables
    <2>7. WellFormed'
      BY <2>1, <2>4 DEF TypeInv, WellFormed
    <2> QED
      BY <2>5, <2>6, <2>7 DEF TypeInv
  <1>2. CASE ReadUser(r)
    <2>1. req[r].actor \in Users
      BY <1>2 DEF ReadUser, TypeInv, WellFormed, UserSteps
    <2> QED
      BY <1>2, <2>1, EndType, GotoType DEF ReadUser, Steps
  <1>3. CASE CheckTarget(r)
    BY <1>3, EndType, GotoType DEF CheckTarget, AfterTarget, Steps, UserSteps
  <1>4. CASE FindRow(r)
    <2>1. req[r] # NoRequest /\ req'[r] \in Request
      BY <1>0, <1>4 DEF FindRow, Request, Steps, TypeInv, TypeOK
    <2>2. /\ req'[r].found = "row" => perm[Cell(r)] # 0
          /\ req'[r].actor = req[r].actor
          /\ req'[r].kind = req[r].kind /\ req'[r].level = req[r].level
          /\ req'[r].subject = req[r].subject /\ req'[r].scope = req[r].scope
          /\ req'[r].pc = "write"
          /\ \A q \in Requests : q # r => req'[q] = req[q]
      BY <1>0, <1>4 DEF FindRow, Request, TypeInv, TypeOK
    <2>3. TypeOK'
      BY <1>4, <2>1 DEF FindRow, TypeInv, TypeOK, RefsLive, tables
    <2>4. RowFound'
      BY <1>4, <2>1, <2>2 DEF FindRow, TypeInv, RowFound, Cell, tables
    <2>5. WellFormed'
      BY <1>4, <2>1, <2>2 DEF FindRow, TypeInv, WellFormed, UserSteps
    <2> QED
      BY <2>3, <2>4, <2>5 DEF TypeInv
  <1>5. CASE Write(r)
    <2>1. /\ req[r] \in Request /\ Cell(r) \in Cells
          /\ req[r].level \in Levels /\ req[r].level # 0
      BY <1>0, <1>5 DEF Write, Cell, Cells, Request, TypeInv, WellFormed
    <2>2. perm' \in [Cells -> Levels]
      BY <1>5, <2>1 DEF Write, TypeInv, TypeOK
    <2>3. req' \in [Requests -> Request \cup {NoRequest}] /\ req'[r] = NoRequest
          /\ \A q \in Requests : q # r => req'[q] = req[q]
      BY <1>5 DEF Write, End, TypeInv, TypeOK
    <2>4. \A c \in Cells : perm[c] # 0 => perm'[c] # 0
      BY <1>5, <2>1 DEF Write, TypeInv, TypeOK
    <2>5. Writable(r) => req[r].subject \in live /\ req[r].scope \in live
      BY <1>5, <2>1 DEF Write, Writable, TypeInv, TypeOK, RefsLive, RowFound, Cell, Request
    <2>6. RefsLive'
      <3>1. ASSUME NEW s \in Subjects, NEW x \in Scopes, perm'[<<s, x>>] # 0
            PROVE  s \in live /\ x \in live
        BY <1>5, <2>1, <2>5, <3>1 DEF Write, Cell, Cells, TypeInv, TypeOK, RefsLive
      <3> QED
        BY <1>5, <3>1 DEF Write, TypeInv, TypeOK, RefsLive
    <2>7. TypeOK'
      BY <1>5, <2>2, <2>3, <2>6 DEF Write, End, Ended, TypeInv, TypeOK
    <2>8. RowFound'
      BY <2>3, <2>4 DEF TypeInv, TypeOK, RowFound, Cell, Cells, Request
    <2>9. WellFormed'
      BY <2>3 DEF TypeInv, WellFormed
    <2> QED
      BY <2>7, <2>8, <2>9 DEF TypeInv
  <1>6. CASE Delete(r)
    <2>1. CASE req[r].found = "row"
      <3> DEFINE cells == {Cell(r)}
      <3>1. /\ perm' = Without(cells)
            /\ req' = [Lose(cells) EXCEPT ![r] = NoRequest]
            /\ raced' = raced \ {r} /\ moved' = moved \ {r}
            /\ UNCHANGED <<live, members, groupOf, ungrouping>>
        BY <1>6, <2>1 DEF Delete, Ended
      <3>2. ReqLose(cells)
        BY <3>1 DEF Lose, ReqLose
      <3>3. RefsKept(cells) /\ raced' \subseteq Requests /\ moved' \subseteq Requests
        BY <3>1 DEF TypeInv, TypeOK, RefsLive, RefsKept
      <3> HIDE DEF cells
      <3> QED
        BY <3>1, <3>2, <3>3, DropType
    <2>2. CASE req[r].found # "row"
      BY <1>6, <2>2, EndType DEF Delete, End, Ended, tables
    <2> QED
      BY <2>1, <2>2
  <1>7. CASE Move(r)
    <2>1. req[r] \in Request /\ req[r].scope \in Machines
      BY <1>0, <1>7 DEF Move, TypeInv, WellFormed, UserSteps
    <2>2. groupOf' \in [Machines -> Parents] /\ RefsLive'
      BY <1>7, <2>1, AssignedType DEF Move, Request, TypeInv, TypeOK, RefsLive
    <2>3. TypeOK'
      BY <1>7, <2>2 DEF Move, TypeInv, TypeOK, Under
    <2>4. RowFound'
      BY <1>7 DEF Move, TypeInv, TypeOK, RowFound, Cell
    <2>5. WellFormed'
      BY <1>7 DEF Move, TypeInv, TypeOK, WellFormed
    <2> QED
      BY <2>3, <2>4, <2>5 DEF TypeInv
  <1>8. CASE Abort(r)
    BY <1>8, EndType DEF Abort
  <1> QED
    BY <1>1, <1>2, <1>3, <1>4, <1>5, <1>6, <1>7, <1>8 DEF Step

\* What changes neither rows nor requests.
LEMMA OtherType ==
    ASSUME TypeInv, UNCHANGED <<perm, req>>,
           live' = live, ungrouping' \in SUBSET MachineGroups,
           members' \in [Groups -> SUBSET Users], groupOf' \in [Machines -> Parents],
           RefsLive', raced' \subseteq Requests, moved' \subseteq Requests
    PROVE TypeInv'
  <1>1. TypeOK'
    BY DEF TypeInv, TypeOK
  <1>2. RowFound' /\ WellFormed'
    BY DEF TypeInv, RowFound, WellFormed, Cell
  <1> QED
    BY <1>1, <1>2 DEF TypeInv

LEMMA AdministerType ==
    ASSUME TypeInv, Administer
    PROVE TypeInv'
  <1> USE DEF TypeInv, TypeOK, RefsLive
  <1>1. ASSUME NEW m \in Machines, NEW g \in Parents, AssignMachine(m, g)
        PROVE  TypeInv'
    <2>1. groupOf' \in [Machines -> Parents] /\ RefsLive'
      BY <1>1, AssignedType DEF AssignMachine
    <2> QED
      BY <1>1, <2>1, OtherType DEF AssignMachine, Under
  <1>2. ASSUME NEW u \in Users, NEW g \in Groups, AddMember(u, g) \/ RemoveMember(u, g)
        PROVE  TypeInv'
    <2>1. members' \in [Groups -> SUBSET Users] /\ RefsLive'
      BY <1>2 DEF AddMember, RemoveMember
    <2> QED
      BY <1>2, <2>1, OtherType DEF AddMember, RemoveMember, Of
  <1>3. ASSUME NEW s \in Subjects, DeleteSubject(s)
        PROVE  TypeInv'
    <2> DEFINE cells == {s} \X Scopes
    <2>1. /\ perm' = Without(cells) /\ req' = Lose(cells)
          /\ live' = live \ {s} /\ UNCHANGED <<groupOf, ungrouping, moved>>
          /\ raced' \subseteq Requests
          /\ members' = [g \in Groups |-> IF g = s THEN {} ELSE members[g] \ {s}]
      BY <1>3 DEF DeleteSubject, Of
    <2>2. ReqLose(cells)
      BY <2>1 DEF Lose, ReqLose
    <2>3. RefsKept(cells)
      <3>1. \A m \in Machines : groupOf[m] # s /\ m # s
        BY DistinctAssumption DEF Scopes, Parents, Subjects, Entities
      <3>2. members' \in [Groups -> SUBSET Users]
        BY <2>1
      <3>3. \A g \in Groups : members'[g] # {} => g \in live' /\ members'[g] \subseteq live'
        BY <2>1
      <3>4. \A t \in Subjects, x \in Scopes :
              <<t, x>> \notin cells /\ perm[<<t, x>>] # 0 => t \in live' /\ x \in live'
        <4> SUFFICES ASSUME NEW t \in Subjects, NEW x \in Scopes,
                            <<t, x>> \notin cells, perm[<<t, x>>] # 0
                     PROVE  t \in live' /\ x \in live'
          OBVIOUS
        <4>1. t \in live /\ x \in live /\ t # s
          OBVIOUS
        <4>2. x # s
          BY DistinctAssumption
        <4> QED
          BY <2>1, <4>1, <4>2
      <3> QED
        BY <2>1, <3>1, <3>2, <3>3, <3>4 DEF RefsKept
    <2> HIDE DEF cells
    <2> QED
      BY <2>1, <2>2, <2>3, DropType
  <1>4. ASSUME NEW m \in Machines, DeleteMachine(m)
        PROVE  TypeInv'
    <2> DEFINE cells == Subjects \X {m}
    <2>1. /\ perm' = Without(cells) /\ req' = Lose(cells)
          /\ live' = live \ {m} /\ UNCHANGED <<members, ungrouping, raced>>
          /\ moved' \subseteq Requests
          /\ groupOf' = [groupOf EXCEPT ![m] = NoGroup]
      BY <1>4 DEF DeleteMachine, Under
    <2>2. ReqLose(cells)
      BY <2>1 DEF Lose, ReqLose
    <2>3. RefsKept(cells)
      <3>1. m \notin Subjects /\ m \notin MachineGroups
        BY DistinctAssumption DEF Scopes
      <3>2. \A g \in Groups : members[g] \subseteq Users /\ g # m
        BY <3>1 DEF Subjects
      <3>3. \A g \in Groups : m \notin members[g]
        BY <3>1, <3>2 DEF Subjects
      <3>4. groupOf' \in [Machines -> Parents]
        BY <2>1 DEF Parents
      <3>5. \A n \in Machines : groupOf'[n] # NoGroup =>
                n # m /\ n \in live' /\ groupOf'[n] \in live'
        BY <2>1, <3>1, <3>4 DEF Parents
      <3>6. \A t \in Subjects, x \in Scopes :
              <<t, x>> \notin cells /\ perm[<<t, x>>] # 0 => t \in live' /\ x \in live'
        BY <2>1, <3>1
      <3> QED
        BY <2>1, <3>2, <3>3, <3>4, <3>5, <3>6 DEF RefsKept
    <2> HIDE DEF cells
    <2> QED
      BY <2>1, <2>2, <2>3, DropType
  <1>5. ASSUME NEW g \in MachineGroups, UngroupMachines(g)
        PROVE  TypeInv'
    <2>1. groupOf' \in [Machines -> Parents] /\ RefsLive'
      BY <1>5 DEF UngroupMachines, Ungrouped, Parents
    <2> QED
      BY <1>5, <2>1, OtherType DEF UngroupMachines, Under
  <1>6. ASSUME NEW g \in MachineGroups, DeleteMachineGroup(g)
        PROVE  TypeInv'
    <2> DEFINE cells == Subjects \X {g}
    <2>1. /\ perm' = Without(cells) /\ req' = Lose(cells)
          /\ live' = live \ {g} /\ UNCHANGED <<members, raced>>
          /\ ungrouping' \subseteq ungrouping /\ moved' \subseteq Requests
          /\ groupOf' = Ungrouped(g)
      BY <1>6 DEF DeleteMachineGroup, Under
    <2>2. ReqLose(cells)
      BY <2>1 DEF Lose, ReqLose
    <2>3. RefsKept(cells)
      <3>1. g \notin Subjects /\ g \notin Machines
        BY DistinctAssumption DEF Scopes
      <3>2. \A h \in Groups : members[h] \subseteq Users /\ h # g
        BY <3>1 DEF Subjects
      <3>3. \A h \in Groups : g \notin members[h]
        BY <3>1, <3>2 DEF Subjects
      <3>4. groupOf' \in [Machines -> Parents]
        BY <2>1 DEF Ungrouped, Parents
      <3>5. \A m \in Machines : groupOf'[m] # NoGroup =>
                m \in live' /\ groupOf'[m] \in live'
        BY <2>1, <3>1 DEF Ungrouped
      <3>6. \A t \in Subjects, x \in Scopes :
              <<t, x>> \notin cells /\ perm[<<t, x>>] # 0 => t \in live' /\ x \in live'
        BY <2>1, <3>1
      <3> QED
        BY <2>1, <3>2, <3>3, <3>4, <3>5, <3>6 DEF RefsKept
    <2> HIDE DEF cells
    <2> QED
      BY <2>1, <2>2, <2>3, DropType
  <1> QED
    BY <1>1, <1>2, <1>3, <1>4, <1>5, <1>6 DEF Administer

LEMMA TypeInductive ==
    ASSUME TypeInv, [Next]_vars
    PROVE TypeInv'
  <1>1. CASE UNCHANGED vars
    BY <1>1 DEF vars, TypeInv, TypeOK, RefsLive, RowFound, WellFormed, Cell
  <1> QED
    BY <1>1, AskType, StepType, AdministerType DEF Next

LEMMA TypeInitial == Init => TypeInv
  BY DEF Init, TypeInv, TypeOK, RefsLive, RowFound, WellFormed, Cells, Levels, Parents

-----------------------------------------------------------------------------
\* A request that is under way is left alone, but for a row that it loses.
Kept(r) ==
    /\ req'[r] # NoRequest
    /\ req'[r].pc = req[r].pc /\ req'[r].actor = req[r].actor
    /\ req'[r].subject = req[r].subject /\ req'[r].scope = req[r].scope
    /\ req'[r].seen = req[r].seen

LEMMA LoseKeeps ==
    ASSUME TypeInv, NEW cells, NEW r \in Requests, req[r] # NoRequest,
           req'[r] = Lose(cells)[r]
    PROVE Kept(r)
  <1>1. SameBut(Lose(cells)[r], req[r], cells)
    BY LoseType
  <1> QED
    BY <1>1, DistinctAssumption DEF SameBut, Kept

\* Nobody but r takes a step of r.
LEMMA OthersKeep ==
    ASSUME TypeInv, Next, NEW r \in Requests, req[r] # NoRequest, ~Step(r)
    PROVE Kept(r)
  <1> USE DEF TypeInv, TypeOK
  <1>1. ASSUME NEW q \in Requests, Ask(q) PROVE Kept(r)
    BY <1>1 DEF Ask, AskGrant, AskRevoke, AskMove, Kept
  <1>2. ASSUME NEW q \in Requests, Step(q) PROVE Kept(r)
    <2>1. q # r
      BY <1>2
    <2>2. CASE Delete(q) /\ req[q].found = "row"
      <3>1. req'[r] = Lose({Cell(q)})[r]
        BY <2>1, <2>2 DEF Delete, Lose
      <3> QED
        BY <3>1, LoseKeeps
    <2>3. CASE ~(Delete(q) /\ req[q].found = "row")
      <3>1. req'[r] = req[r]
        BY <1>2, <2>1, <2>3
           DEF Step, ReadMachine, ReadUser, CheckTarget, FindRow, Write, Delete, Move, Abort,
               Goto, End
      <3> QED
        BY <3>1 DEF Kept
    <2> QED
      BY <2>2, <2>3
  <1>3. CASE Administer
    <2>1. CASE req' = req
      BY <2>1 DEF Kept
    <2>2. CASE req' # req
      <3>1. PICK cells : req' = Lose(cells)
        BY <1>3, <2>2
           DEF Administer, AssignMachine, AddMember, RemoveMember, DeleteSubject,
               DeleteMachine, UngroupMachines, DeleteMachineGroup
      <3> QED
        BY <3>1, LoseKeeps
    <2> QED
      BY <2>1, <2>2
  <1> QED
    BY <1>1, <1>2, <1>3 DEF Next

\* A request starts by asking, and a user's starts with hasAccess.
LEMMA Fresh ==
    ASSUME TypeInv, Next, NEW r \in Requests, req[r] = NoRequest, req'[r] # NoRequest
    PROVE req'[r].actor \in Users => req'[r].pc = "machine"
  <1> USE DEF TypeInv, TypeOK
  <1>1. ASSUME NEW q \in Requests, Ask(q)
        PROVE  req'[r].actor \in Users => req'[r].pc = "machine"
    <2>1. q = r
      BY <1>1 DEF Ask, AskGrant, AskRevoke, AskMove
    <2>2. ASSUME NEW a \in Users \cup Admins, NEW s \in Subjects, NEW x \in Scopes,
                 NEW level, AskGrant(r, a, s, x, level)
          PROVE  req'[r].actor \in Users => req'[r].pc = "machine"
      BY <2>2, Roles DEF AskGrant
    <2>3. ASSUME NEW a \in Users \cup Admins, NEW s \in Subjects, NEW x \in Scopes,
                 AskRevoke(r, a, s, x)
          PROVE  req'[r].actor \in Users => req'[r].pc = "machine"
      BY <2>3, Roles DEF AskRevoke
    <2>4. ASSUME NEW u \in Users, NEW m \in Machines, NEW g \in Parents,
                 AskMove(r, u, m, g)
          PROVE  req'[r].actor \in Users => req'[r].pc = "machine"
      BY <2>4 DEF AskMove
    <2> QED
      BY <1>1, <2>1, <2>2, <2>3, <2>4 DEF Ask
  <1>2. ASSUME NEW q \in Requests, Step(q) PROVE FALSE
    <2>1. q # r
      BY <1>2 DEF Step, ReadMachine, ReadUser, CheckTarget, FindRow, Write, Delete, Move,
                  Abort, At
    <2> QED
      BY <1>2, <2>1
         DEF Step, ReadMachine, ReadUser, CheckTarget, FindRow, Write, Delete, Move, Abort,
             Goto, End, Lose
  <1>3. CASE Administer
    BY <1>3 DEF Administer, AssignMachine, AddMember, RemoveMember, DeleteSubject,
                DeleteMachine, UngroupMachines, DeleteMachineGroup, Lose
  <1> QED
    BY <1>1, <1>2, <1>3 DEF Next

\* Whose rows are a user's grows only under requests marked as raced, past the
\* check of their target.
LEMMA OwnShrinks ==
    ASSUME TypeInv, Next, NEW r \in Requests, NEW u \in Users,
           req[r] # NoRequest, req[r].actor = u, req[r].pc \in WriteSteps, ~Step(r),
           r \notin raced'
    PROVE r \notin raced /\ Own(u)' \subseteq Own(u)
  <1> USE DEF TypeInv, TypeOK, Own
  <1>1. CASE UNCHANGED members
    <2>1. r \notin raced
      <3>1. ASSUME NEW q \in Requests, Ask(q) PROVE raced' = raced
        BY <3>1 DEF Ask, AskGrant, AskRevoke, AskMove
      <3>2. ASSUME NEW q \in Requests, Step(q), q # r
            PROVE  raced' = raced \/ raced' = raced \ {q}
        BY <3>2 DEF Step, ReadMachine, ReadUser, CheckTarget, FindRow, Write, Delete, Move,
                    Abort, End, Ended
      <3>3. CASE Administer
        BY <3>3 DEF Administer, AssignMachine, AddMember, RemoveMember, DeleteSubject,
                    DeleteMachine, UngroupMachines, DeleteMachineGroup
      <3> QED
        BY <3>1, <3>2, <3>3 DEF Next
    <2> QED
      BY <1>1, <2>1
  <1>2. CASE members' # members
    <2>1. CASE Administer
      <3>1. ASSUME NEW v \in Users, NEW g \in Groups, AddMember(v, g) \/ RemoveMember(v, g)
            PROVE  r \notin raced /\ Own(u)' \subseteq Own(u)
        BY <3>1 DEF AddMember, RemoveMember, Of, At, WriteSteps
      <3>2. ASSUME NEW s \in Subjects, DeleteSubject(s)
            PROVE  r \notin raced /\ Own(u)' \subseteq Own(u)
        BY <3>2 DEF DeleteSubject
      <3> QED
        BY <1>2, <2>1, <3>1, <3>2
           DEF Administer, AssignMachine, DeleteMachine, UngroupMachines, DeleteMachineGroup
    <2>2. ASSUME NEW q \in Requests, Ask(q) \/ Step(q) PROVE FALSE
      BY <1>2, <2>2
         DEF Ask, AskGrant, AskRevoke, AskMove, Step, ReadMachine, ReadUser, CheckTarget,
             FindRow, Write, Delete, Move, Abort, tables
    <2> QED
      BY <2>1, <2>2 DEF Next
  <1> QED
    BY <1>1, <1>2

LEMMA ApartInductive ==
    ASSUME TypeInv, TargetApart, [Next]_vars
    PROVE TargetApart'
  <1>1. CASE UNCHANGED vars
    BY <1>1 DEF vars, TargetApart, Own
  <1>2. CASE Next
    <2> SUFFICES ASSUME NEW r \in Requests, NEW u \in Users,
                        req'[r] # NoRequest, req'[r].actor = u, req'[r].pc \in WriteSteps,
                        r \notin raced'
                 PROVE  req'[r].subject \notin Own(u)'
      BY DEF TargetApart, Own
    <2>1. req[r] # NoRequest
      BY <1>2, Fresh DEF WriteSteps
    <2>2. CASE Step(r)
      <3>1. req[r] \in Request /\ r \in DOMAIN req
        BY <2>1 DEF TypeInv, TypeOK
      <3>2. CASE CheckTarget(r)
        BY <3>1, <3>2 DEF CheckTarget, End, Goto, Request, tables, Own
      <3>3. CASE FindRow(r)
        BY <3>1, <3>3 DEF FindRow, At, Request, tables, Own, TargetApart, WriteSteps
      <3>4. CASE ReadMachine(r)
        BY <3>1, <3>4 DEF ReadMachine, Request, WriteSteps
      <3>5. CASE ReadUser(r)
        BY <3>1, <3>5 DEF ReadUser, Goto, End, Request, WriteSteps
      <3>6. CASE Write(r) \/ Delete(r) \/ Move(r) \/ Abort(r)
        <4>1. req'[r] = NoRequest
          BY <3>1, <3>6 DEF Write, Delete, Move, Abort, End, Lose
        <4> QED
          BY <4>1
      <3> QED
        BY <2>2, <3>2, <3>3, <3>4, <3>5, <3>6 DEF Step
    <2>3. CASE ~Step(r)
      <3>1. Kept(r)
        BY <1>2, <2>1, <2>3, OthersKeep
      <3>2. r \notin raced /\ Own(u)' \subseteq Own(u)
        BY <1>2, <2>1, <2>3, <3>1, OwnShrinks DEF Kept
      <3> QED
        BY <2>1, <3>1, <3>2 DEF Kept, TargetApart
    <2> QED
      BY <2>2, <2>3
  <1> QED
    BY <1>1, <1>2

\* A write at a user's request touches no row that speaks for the user, and
\* changes nothing else.
LEMMA WriteKeepsOwn ==
    ASSUME TypeInv, TargetApart, [Next]_vars
    PROVE \A r \in Requests, u \in Users :
            UserWrites(r) /\ req[r].actor = u /\ r \notin raced =>
              \A m \in Machines, level \in {Operator, Owner} :
                Entitled(u, m, level) <=> Entitled(u, m, level)'
  <1> SUFFICES ASSUME NEW r \in Requests, NEW u \in Users,
                      UserWrites(r), req[r].actor = u, r \notin raced,
                      NEW m \in Machines, NEW level \in {Operator, Owner}
               PROVE  Entitled(u, m, level) <=> Entitled(u, m, level)'
    OBVIOUS
  <1>1. /\ req[r] # NoRequest /\ req[r].pc \in {"write", "delete"}
        /\ req'[r] = NoRequest
    BY DEF UserWrites, At
  <1>2. Step(r)
    BY <1>1, OthersKeep DEF Kept, vars
  <1>3. UNCHANGED <<members, groupOf>>
    BY <1>1, <1>2 DEF Step, ReadMachine, ReadUser, CheckTarget, FindRow, Write, Delete, Move,
                      Abort, At, tables
  <1>4. \A c \in Cells : c # Cell(r) => perm'[c] = perm[c]
    BY <1>1, <1>2 DEF Step, ReadMachine, ReadUser, CheckTarget, FindRow, Write, Delete, Move,
                      Abort, At, tables, Without, TypeInv, TypeOK
  <1>5. req[r].subject \notin Own(u)
    BY <1>1 DEF TargetApart, WriteSteps
  <1>6. \A s \in Own(u), x \in Scopes : perm'[<<s, x>>] = perm[<<s, x>>]
    BY <1>4, <1>5 DEF Cell, Cells, Own, Subjects
  <1> QED
    BY <1>3, <1>6 DEF Entitled, Own

\* A machine owner who manages a machine's permissions keeps exactly the access
\* the owner had, whatever else happens in between, short of the owner joining
\* or leaving a group in that time.
THEOREM OwnAccessKept == Spec => OwnWritesKeepOwnAccess
  <1>1. TypeInv /\ TargetApart /\ [Next]_vars =>
          [\A r \in Requests, u \in Users :
            UserWrites(r) /\ req[r].actor = u /\ r \notin raced =>
              \A m \in Machines, level \in {Operator, Owner} :
                Entitled(u, m, level) <=> Entitled(u, m, level)']_vars
    BY WriteKeepsOwn
  <1>2. Init => TargetApart
    BY DEF Init, TargetApart
  <1> QED
    BY <1>1, <1>2, TypeInitial, TypeInductive, ApartInductive, PTL
       DEF Spec, OwnWritesKeepOwnAccess

-----------------------------------------------------------------------------
\* A machine changes groups only under requests marked as moved, between the two
\* reads of hasAccess.
LEMMA GroupKept ==
    ASSUME TypeInv, Next, NEW r \in Requests, NEW m \in Machines,
           req[r] # NoRequest, req[r].scope = m, req[r].pc = "user", ~Step(r),
           r \notin moved'
    PROVE r \notin moved /\ groupOf'[m] = groupOf[m]
  <1> USE DEF TypeInv, TypeOK
  <1>1. ASSUME NEW q \in Requests, Ask(q)
        PROVE  r \notin moved /\ groupOf'[m] = groupOf[m]
    BY <1>1 DEF Ask, AskGrant, AskRevoke, AskMove, tables
  <1>2. ASSUME NEW q \in Requests, Step(q), q # r
        PROVE  r \notin moved /\ groupOf'[m] = groupOf[m]
    <2>1. CASE Move(q)
      BY <1>2, <2>1 DEF Move, Assigned, Under, At
    <2>2. CASE ~Move(q)
      BY <1>2, <2>2 DEF Step, ReadMachine, ReadUser, CheckTarget, FindRow, Write, Delete,
                        Abort, End, Ended, tables
    <2> QED
      BY <2>1, <2>2
  <1>3. CASE Administer
    <2>1. ASSUME NEW n \in Machines, NEW g \in Parents, AssignMachine(n, g)
          PROVE  r \notin moved /\ groupOf'[m] = groupOf[m]
      BY <2>1 DEF AssignMachine, Assigned, Under, At
    <2>2. ASSUME NEW n \in Machines, DeleteMachine(n)
          PROVE  r \notin moved /\ groupOf'[m] = groupOf[m]
      BY <2>2 DEF DeleteMachine, Under, At
    <2>3. ASSUME NEW g \in MachineGroups, UngroupMachines(g) \/ DeleteMachineGroup(g)
          PROVE  r \notin moved /\ groupOf'[m] = groupOf[m]
      BY <2>3 DEF UngroupMachines, DeleteMachineGroup, Ungrouped, Under, At, In
    <2> QED
      BY <1>3, <2>1, <2>2, <2>3 DEF Administer, AddMember, RemoveMember, DeleteSubject
  <1> QED
    BY <1>1, <1>2, <1>3 DEF Next

LEMMA FreshInductive ==
    ASSUME TypeInv, SeenFresh, [Next]_vars
    PROVE SeenFresh'
  <1>1. CASE UNCHANGED vars
    BY <1>1 DEF vars, SeenFresh
  <1>2. CASE Next
    <2> SUFFICES ASSUME NEW r \in Requests, req'[r] # NoRequest, req'[r].pc = "user",
                        r \notin moved'
                 PROVE  req'[r].seen = groupOf'[req'[r].scope]
      BY DEF SeenFresh
    <2>1. CASE req[r] = NoRequest
      <3>1. req' \in [Requests -> Request \cup {NoRequest}] /\ WellFormed'
        BY <1>2, TypeInductive DEF TypeInv, TypeOK
      <3>2. req'[r].actor \in Users
        BY <3>1 DEF WellFormed, UserSteps
      <3> QED
        BY <1>2, <2>1, <3>2, Fresh
    <2>2. CASE req[r] # NoRequest /\ Step(r)
      <3>1. req[r] \in Request /\ r \in DOMAIN req
        BY <2>2 DEF TypeInv, TypeOK
      <3>2. CASE ReadMachine(r)
        BY <3>1, <3>2 DEF ReadMachine, Request, tables
      <3>3. CASE ~ReadMachine(r)
        BY <2>2, <3>1, <3>3
           DEF Step, ReadUser, CheckTarget, AfterTarget, FindRow, Write, Delete, Move, Abort,
               At, Goto, End, Lose, Request
      <3> QED
        BY <3>2, <3>3
    <2>3. CASE req[r] # NoRequest /\ ~Step(r)
      <3>1. Kept(r)
        BY <1>2, <2>3, OthersKeep
      <3>2. req[r].scope \in Machines
        BY <2>3, <3>1 DEF Kept, TypeInv, WellFormed, UserSteps
      <3>3. r \notin moved /\ groupOf'[req[r].scope] = groupOf[req[r].scope]
        BY <1>2, <2>3, <3>1, <3>2, GroupKept DEF Kept
      <3> QED
        BY <2>3, <3>1, <3>3 DEF Kept, SeenFresh
    <2> QED
      BY <2>1, <2>2, <2>3
  <1> QED
    BY <1>1, <1>2

LEMMA GrantedIsEntitled ==
    ASSUME TypeInv, SeenFresh, [Next]_vars
    PROVE \A r \in Requests : Granted(r) /\ req[r].seen # NoGroup /\ r \notin moved =>
            Entitled(req[r].actor, req[r].scope, Owner)
  <1> SUFFICES ASSUME NEW r \in Requests, Granted(r), req[r].seen # NoGroup, r \notin moved
               PROVE  Entitled(req[r].actor, req[r].scope, Owner)
    OBVIOUS
  <1>1. /\ req[r] # NoRequest /\ req[r].pc = "user" /\ req[r] \in Request
        /\ req'[r] # NoRequest /\ req'[r].pc # "user"
    BY DEF Granted, At, TypeInv, TypeOK
  <1>2. Step(r)
    BY <1>1, OthersKeep DEF Kept, vars
  <1>3. MayManage(r)
    BY <1>1, <1>2 DEF Step, ReadMachine, ReadUser, CheckTarget, FindRow, Write, Delete, Move,
                      Abort, At, End, Lose, TypeInv, TypeOK
  <1>4. req[r].seen = groupOf[req[r].scope] /\ req[r].seen \in MachineGroups
    BY <1>1 DEF SeenFresh, Request, Parents
  <1> QED
    BY <1>1, <1>3, <1>4 DEF MayManage, HasAccess, Selected, Entitled, Scopes, Request

\* For a machine that is in a machine group and stays there while hasAccess reads
\* twice, OWNER is found only where a row on the machine or on its group says so.
THEOREM VerdictIsSound == Spec => VerdictSound
  <1>1. TypeInv /\ SeenFresh /\ [Next]_vars =>
          [\A r \in Requests : Granted(r) /\ req[r].seen # NoGroup /\ r \notin moved =>
            Entitled(req[r].actor, req[r].scope, Owner)]_vars
    BY GrantedIsEntitled
  <1>2. Init => SeenFresh
    BY DEF Init, SeenFresh
  <1> QED
    BY <1>1, <1>2, TypeInitial, TypeInductive, FreshInductive, PTL DEF Spec, VerdictSound

-----------------------------------------------------------------------------
(***************************************************************************)
(* Audit: what the log says is what was done, the filter finds every row,  *)
(* and the verdict on a row is right.                                      *)
(***************************************************************************)

USE DEF Kinds

\* What the table and the operations are made of.
Owners == Accounts \cup {None}
Ids == (Calls \cup LegacyRows \cup BareRows) \X Nat
Metas == [ids: SUBSET (Accounts \cup {Thing}), hole: {"undefined", "none", "null"},
          order: {"written", "jsonb", "sorted"}]
Texts == [id: Ids, userId: Owners, action: {"own", "other"}, snapshot: BOOLEAN,
          metadata: Metas]
Seals == {NoHmac} \cup [alg: {"canonical", "legacy"}, text: Texts]
Rows == [id: Ids, userId: Owners, snapshot: BOOLEAN, action: {"own", "other"},
         authMethod: {"own", "other"}, hmac: Seals, meta: Metas]
Phases == {"idle", "mutating", "logging", "sealed", "done"}
CallTypes == [kind: Kinds \cup {"none"}, actor: Owners, target: Owners,
              phase: Phases, at: Nat]

\* The events of an operation: at most two, of which the first is awaited and
\* the second is not.
Known(k) == k.kind \in Kinds /\ k.actor \in Accounts /\ k.target \in Accounts

EventTypes == [actor: Owners, ids: SUBSET (Accounts \cup {Thing}), awaited: BOOLEAN]

LEMMA EventsShape ==
    ASSUME NEW k, Known(k)
    PROVE  /\ Events(k) \in Seq(EventTypes) /\ Len(Events(k)) <= 2
           /\ \A n \in DOMAIN Events(k) : Events(k)[n].awaited <=> n = 1
<1> USE DEF Known, Events, Logged, Intercepted, Extracted, EventTypes, Owners
<1>1. CASE k.kind = "update"
    BY <1>1
<1>2. CASE k.kind = "addUser"
    BY <1>2
<1>3. CASE k.kind = "account"
    BY <1>3
<1>4. CASE k.kind = "remove"
    BY <1>4
<1>5. CASE k.kind = "closed"
    BY <1>5
<1>6. CASE k.kind = "createUser"
    BY <1>6
<1>7. CASE k.kind = "loginOtp"
    BY <1>7
<1> QED
    BY <1>1, <1>2, <1>3, <1>4, <1>5, <1>6, <1>7

LEMMA SameEvents ==
    ASSUME NEW k, NEW l, Known(k),
           l.kind = k.kind, l.actor = k.actor, l.target = k.target
    PROVE  Events(l) = Events(k)
BY DEF Known, Events, Extracted

-----------------------------------------------------------------------------
(* The inductive invariant                                                 *)

Has(id) == \E row \in rows : row.id = id
Logging == {"logging", "sealed"}

\* The row of event n of operation c, as createRow leaves it.
BareRow(c, n, snapshot) ==
    [id |-> <<c, n>>, userId |-> Events(call[c])[n].actor, snapshot |-> snapshot,
     action |-> "own", authMethod |-> "own",
     meta |-> Metadata(WithActor(Events(call[c])[n].ids, Events(call[c])[n].actor)),
     hmac |-> NoHmac]
SealedRow(c, n, snapshot) ==
    [BareRow(c, n, snapshot) EXCEPT !.hmac = Hmac(BareRow(c, n, snapshot))]

\* How far an operation has come agrees with what it has left behind.
CallOK(c) ==
    /\ call[c].phase # "idle" => Known(call[c])
    /\ c \in committed => call[c].phase \notin {"idle", "mutating"}
    /\ c \in answered => c \in committed
    /\ c \in answered => \A n \in DOMAIN Events(call[c]) :
          Events(call[c])[n].awaited => Has(<<c, n>>)
    /\ call[c].phase \in Logging =>
          /\ c \in committed /\ call[c].at \in DOMAIN Events(call[c])
          /\ \A n \in DOMAIN Events(call[c]) :
                n < call[c].at /\ Events(call[c])[n].awaited => Has(<<c, n>>)
    /\ call[c].phase = "sealed" =>
          \E snapshot \in BOOLEAN : draft[c] = SealedRow(c, call[c].at, snapshot)

\* A row of an operation tells of a mutation that was made, of an event that is
\* behind, and of all that had to do with it.
TellsRight(row, c, n) ==
    /\ c \in committed /\ n \in DOMAIN Events(call[c])
    /\ call[c].phase \in Logging => n < call[c].at
    /\ (Events(call[c])[n].ids \cup {Events(call[c])[n].actor}) \ {None}
         \subseteq row.meta.ids

\* Its seal was taken of what its operation did.
SealedRight(row) ==
    /\ row.hmac # NoHmac => row.hmac.text.action = "own"
    /\ <<row.id, "action">> \in altered => row.action = "other"
    /\ <<row.id, "action">> \notin altered /\ row.userId # None =>
          row.hmac \in {NoHmac, Hmac(row), LegacyHmac(row)}

RowOK(row) ==
    /\ row \in Rows
    /\ row.id[1] \in Calls => TellsRight(row, row.id[1], row.id[2])
    /\ SealedRight(row)

\* A row is known by its id, and so is what was altered.
OneRowEach == \A row, other \in rows : row.id = other.id => row = other
AlteredRows == \A edit \in altered : Has(edit[1])

AuditInv ==
    /\ call \in [Calls -> CallTypes] /\ draft \in [Calls -> Rows \cup {NoDraft}]
    /\ \A c \in Calls : CallOK(c)
    /\ \A row \in rows : RowOK(row)
    /\ OneRowEach /\ AlteredRows

-----------------------------------------------------------------------------
(* What the steps keep                                                     *)

\* An operation that does not move while no row goes.
LEMMA CallKept ==
    ASSUME NEW c \in Calls, CallOK(c), call'[c] = call[c], draft'[c] = draft[c],
           c \in committed' <=> c \in committed, c \in answered' <=> c \in answered,
           \A id : Has(id) => Has(id)'
    PROVE  CallOK(c)'
<1>1. Events(call'[c]) = Events(call[c])
    OBVIOUS
<1>2. \A n, snapshot : SealedRow(c, n, snapshot)' = SealedRow(c, n, snapshot)
    BY <1>1 DEF SealedRow, BareRow
<1>3. Known(call[c])' <=> Known(call[c])
    BY DEF Known
<1> QED
    BY <1>1, <1>2, <1>3 DEF CallOK

\* A row, while the operation it belongs to goes on.
LEMMA RowKept ==
    ASSUME NEW row, RowOK(row), UNCHANGED altered, committed \subseteq committed',
           \A c \in committed \cap Calls :
              /\ Known(call[c])
              /\ call'[c].kind = call[c].kind /\ call'[c].actor = call[c].actor
              /\ call'[c].target = call[c].target
              /\ call'[c].phase \in Logging =>
                    call[c].phase \in Logging /\ call'[c].at >= call[c].at,
           call \in [Calls -> CallTypes], call' \in [Calls -> CallTypes]
    PROVE  RowOK(row)'
<1>1. SealedRight(row)'
    BY DEF RowOK, SealedRight, Hmac, LegacyHmac
<1>2. ASSUME row.id[1] \in Calls PROVE TellsRight(row, row.id[1], row.id[2])'
    <2> DEFINE c == row.id[1]
               n == row.id[2]
    <2>1. c \in committed \cap Calls /\ TellsRight(row, c, n)
        BY <1>2 DEF RowOK, TellsRight
    <2>2. Events(call'[c]) = Events(call[c])
        BY <2>1, SameEvents
    <2>3. call[c].at \in Nat /\ call'[c].at \in Nat /\ n \in Nat
        BY <1>2 DEF CallTypes, RowOK, Rows, Ids
    <2>4. call'[c].phase \in Logging => n < call'[c].at
        BY <2>1, <2>3 DEF TellsRight
    <2> HIDE DEF c, n
    <2>5. TellsRight(row, c, n)'
        BY <2>1, <2>2, <2>4 DEF TellsRight
    <2> QED
        BY <2>5 DEF c, n
<1> QED
    BY <1>1, <1>2 DEF RowOK

\* ON DELETE SET NULL leaves a row right.
LEMMA OrphanOK ==
    ASSUME NEW row, RowOK(row)
    PROVE  RowOK([row EXCEPT !.userId = None])
<1> DEFINE orphan == [row EXCEPT !.userId = None]
<1>1. /\ orphan \in Rows /\ orphan.id = row.id /\ orphan.userId = None
      /\ orphan.hmac = row.hmac /\ orphan.meta = row.meta /\ orphan.action = row.action
    BY DEF RowOK, Rows, Owners
<1> HIDE DEF orphan
<1>2. RowOK(orphan)
    BY <1>1 DEF RowOK, TellsRight, SealedRight
<1> QED
    BY <1>2 DEF orphan

\* A row that was just sealed.
LEMMA SealedShape ==
    ASSUME NEW c \in Calls, Known(call[c]), NEW n \in DOMAIN Events(call[c]),
           NEW snapshot \in BOOLEAN
    PROVE  LET draw == SealedRow(c, n, snapshot)
               event == Events(call[c])[n]
           IN  /\ draw \in Rows /\ draw.id = <<c, n>> /\ draw.action = "own"
               /\ draw.hmac = Hmac(draw) /\ draw.hmac # NoHmac
               /\ draw.userId = event.actor
               /\ draw.meta.ids = WithActor(event.ids, event.actor)
               /\ event.ids \cup ({event.actor} \ {None}) \subseteq draw.meta.ids
               /\ event.actor # None => draw.meta.hole = "none"
<1> DEFINE event == Events(call[c])[n]
           ids == WithActor(event.ids, event.actor)
           meta == Metadata(ids)
<1>1. event \in EventTypes /\ n \in Nat
    BY EventsShape
<1>2. ids \in SUBSET (Accounts \cup {Thing}) /\ event.actor \in Owners
      /\ event.ids \cup ({event.actor} \ {None}) \subseteq ids
      /\ (event.actor # None => event.actor \in ids)
    BY <1>1 DEF EventTypes, WithActor, Owners
<1> HIDE DEF ids, event
<1>3. /\ meta \in Metas /\ meta.ids = ids
      /\ event.actor # None => meta.hole = "none"
    BY <1>2 DEF Metadata, Metas
<1>4. <<c, n>> \in Ids
    BY <1>1 DEF Ids
<1> HIDE DEF meta
<1> DEFINE bare == [id |-> <<c, n>>, userId |-> event.actor, snapshot |-> snapshot,
                    action |-> "own", authMethod |-> "own", meta |-> meta,
                    hmac |-> NoHmac]
           text == [id |-> <<c, n>>, userId |-> event.actor, action |-> "own",
                    snapshot |-> snapshot, metadata |-> Canonical(meta)]
           draw == [bare EXCEPT !.hmac = [alg |-> "canonical", text |-> text]]
<1>5. Canonical(meta) \in Metas
    BY <1>3 DEF Canonical, Metas
<1>6. text \in Texts
    BY <1>2, <1>4, <1>5 DEF Texts
<1>7. SealedRow(c, n, snapshot) = draw
    BY DEF SealedRow, BareRow, Hmac, Covered, meta, ids, event
<1>8. Hmac(draw) = [alg |-> "canonical", text |-> text]
    BY DEF Hmac, Covered
<1>9. draw.hmac \in Seals /\ draw.hmac # NoHmac
    <2> HIDE DEF text
    <2>1. [alg |-> "canonical", text |-> text] \in [alg: {"canonical", "legacy"}, text: Texts]
        BY <1>6
    <2>2. [alg |-> "canonical", text |-> text].alg # NoHmac.alg
        BY DEF NoHmac
    <2> QED
        BY <2>1, <2>2 DEF Seals
<1>10. draw \in Rows
    BY <1>2, <1>3, <1>4, <1>9 DEF Rows
<1>11. /\ draw.id = <<c, n>> /\ draw.action = "own" /\ draw.hmac = Hmac(draw)
       /\ draw.userId = event.actor /\ draw.meta = meta
    BY <1>8
<1> HIDE DEF draw
<1> QED
    BY <1>2, <1>3, <1>7, <1>9, <1>10, <1>11 DEF event, ids

\* NextEvent: the event just done with is behind the operation.
LEMMA NextEventOK ==
    ASSUME AuditInv, NEW c \in Calls, Known(call[c]), c \in committed',
           NEW n \in Nat, n <= Len(Events(call[c])), NextEvent(c, n),
           \A id : Has(id) => Has(id)',
           \A m \in DOMAIN Events(call[c]) :
              m <= n /\ Events(call[c])[m].awaited => Has(<<c, m>>)'
    PROVE  /\ call' \in [Calls -> CallTypes] /\ CallOK(c)'
           /\ Known(call[c])'
           /\ call'[c].kind = call[c].kind /\ call'[c].actor = call[c].actor
           /\ call'[c].target = call[c].target
           /\ call'[c].phase \in Logging => call'[c].at = n + 1
           /\ \A d \in Calls \ {c} : /\ call'[d] = call[d]
                                     /\ d \in answered' <=> d \in answered
<1> DEFINE events == Events(call[c])
           rest == n < Len(events)
<1>1. events \in Seq(EventTypes) /\ Len(events) \in Nat /\ DOMAIN events = 1 .. Len(events)
    BY EventsShape
<1>2. \A m \in DOMAIN events : events[m].awaited <=> m = 1
    BY EventsShape
<1>3. call[c] \in CallTypes /\ call \in [Calls -> CallTypes]
    BY DEF AuditInv
<1>4. /\ call' = [call EXCEPT ![c].at = IF rest THEN n + 1 ELSE n,
                              ![c].phase = IF rest THEN "logging" ELSE "done"]
      /\ answered' = IF rest /\ events[n + 1].awaited THEN answered ELSE answered \cup {c}
    BY DEF NextEvent
<1> HIDE DEF rest
<1>5. /\ call'[c].kind = call[c].kind /\ call'[c].actor = call[c].actor
      /\ call'[c].target = call[c].target
      /\ call'[c].at = (IF rest THEN n + 1 ELSE n)
      /\ call'[c].phase = (IF rest THEN "logging" ELSE "done")
    BY <1>3, <1>4 DEF CallTypes
<1>6. call' \in [Calls -> CallTypes] /\ \A d \in Calls \ {c} : call'[d] = call[d]
    <2> DEFINE at == IF rest THEN n + 1 ELSE n
               phase == IF rest THEN "logging" ELSE "done"
               grown == [call[c] EXCEPT !.at = at, !.phase = phase]
    <2>1. at \in Nat /\ phase \in Phases
        BY DEF Phases
    <2>2. call' = [call EXCEPT ![c] = grown]
        BY <1>3, <1>4
    <2> HIDE DEF at, phase
    <2>3. grown \in CallTypes
        BY <1>3, <2>1 DEF CallTypes
    <2> HIDE DEF grown
    <2> QED
        BY <1>3, <2>2, <2>3
<1>7. Events(call'[c]) = events /\ Known(call[c])'
    BY <1>5, SameEvents DEF Known
<1>8. \A d \in Calls \ {c} : d \in answered' <=> d \in answered
    BY <1>4
<1>9. CallOK(c)'
    <2>1. c \in answered' =>
             \A m \in DOMAIN events : events[m].awaited => Has(<<c, m>>)'
        <3>1. CASE c \in answered
            BY <3>1 DEF AuditInv, CallOK
        <3>2. CASE c \notin answered /\ c \in answered'
            <4>1. ~(rest /\ events[n + 1].awaited)
                BY <1>4, <3>2
            <4>2. \A m \in DOMAIN events : events[m].awaited => m <= n
                BY <1>1, <1>2, <4>1 DEF rest
            <4> QED
                BY <4>2
        <3> QED
            BY <3>1, <3>2
    <2>2. rest => n + 1 \in DOMAIN events
        BY <1>1 DEF rest
    <2>3. \A m \in DOMAIN events : m < n + 1 => m <= n
        BY <1>1
    <2>4. call'[c].phase \in Logging =>
             /\ call'[c].at \in DOMAIN events
             /\ \A m \in DOMAIN events : m < call'[c].at /\ events[m].awaited => Has(<<c, m>>)'
        BY <1>5, <2>2, <2>3 DEF Logging
    <2>5. c \in committed' /\ call'[c].phase \notin {"idle", "mutating", "sealed"}
        BY <1>5
    <2> HIDE DEF events
    <2> QED
        BY <1>7, <2>1, <2>4, <2>5 DEF CallOK
<1> QED
    BY <1>5, <1>6, <1>7, <1>8, <1>9 DEF rest, Logging

LEMMA AuditInvInit == AuditInit => AuditInv
<1> SUFFICES ASSUME AuditInit PROVE AuditInv
    OBVIOUS
<1>1. PICK u \in Accounts : rows = OldTable(u)
    BY DEF AuditInit
<1>2. call \in [Calls -> CallTypes] /\ draft \in [Calls -> Rows \cup {NoDraft}]
    BY DEF AuditInit, NoCall, CallTypes, Phases, Owners
<1>3. \A c \in Calls : CallOK(c)
    BY DEF AuditInit, NoCall, CallOK, Logging
<1> DEFINE old(b) == OldRow(b, u)
           meta == Jsonb(Metadata({}))
<1>4. meta \in Metas
    BY DEF Jsonb, Metadata, Metas
<1>5. ASSUME NEW b \in LegacyRows \cup BareRows
      PROVE  /\ old(b) \in Rows /\ old(b).id = <<b, 0>> /\ old(b).hmac = NoHmac
             /\ b \notin Calls
    <2>1. <<b, 0>> \in Ids
        BY DEF Ids
    <2> HIDE DEF meta
    <2> QED
        BY <1>4, <2>1, OldRowsAssumption DEF OldRow, Rows, Seals, Owners, meta
<1>6. ASSUME NEW b \in BareRows PROVE RowOK(old(b)) /\ old(b).id = <<b, 0>>
    <2> HIDE DEF old
    <2> QED
        BY <1>5 DEF RowOK, SealedRight, AuditInit
<1>7. ASSUME NEW l \in LegacyRows
      PROVE  LET sealed == [old(l) EXCEPT !.hmac = LegacyHmac(old(l))]
             IN  RowOK(sealed) /\ sealed.id = <<l, 0>>
    <2> DEFINE sealed == [old(l) EXCEPT !.hmac = LegacyHmac(old(l))]
               text == [id |-> <<l, 0>>, userId |-> u, action |-> "own",
                        snapshot |-> TRUE, metadata |-> Plain(meta)]
    <2>1. Plain(meta) \in Metas
        BY <1>4 DEF Plain, Metas
    <2>2. text \in Texts
        BY <2>1 DEF Texts, Ids, Owners
    <2>3. LegacyHmac(old(l)) = [alg |-> "legacy", text |-> text]
        BY DEF LegacyHmac, Covered, OldRow
    <2>4. /\ sealed.id = <<l, 0>> /\ sealed.hmac = [alg |-> "legacy", text |-> text]
          /\ LegacyHmac(sealed) = [alg |-> "legacy", text |-> text]
        BY <2>3 DEF LegacyHmac, Covered, OldRow
    <2>5. [alg |-> "legacy", text |-> text] \in Seals
        BY <2>2 DEF Seals
    <2>6. sealed \in Rows
        <3> HIDE DEF text
        <3> QED
            BY <1>5, <2>3, <2>5 DEF Rows
    <2>7. sealed.hmac.text.action = "own"
        BY <2>4
    <2>8. RowOK(sealed)
        <3> HIDE DEF sealed, text
        <3> QED
            BY <1>5, <2>4, <2>6, <2>7 DEF RowOK, SealedRight, AuditInit
    <2> QED
        BY <2>4, <2>8
<1> HIDE DEF old
<1>8. \A row \in rows :
         \E b \in LegacyRows \cup BareRows :
            /\ row.id = <<b, 0>> /\ RowOK(row)
            /\ row = (IF b \in BareRows THEN old(b)
                      ELSE [old(b) EXCEPT !.hmac = LegacyHmac(old(b))])
    BY <1>1, <1>6, <1>7, OldRowsAssumption DEF OldTable, old
<1>9. OneRowEach
    BY <1>8 DEF OneRowEach
<1> QED
    BY <1>2, <1>3, <1>8, <1>9 DEF AuditInv, AlteredRows, AuditInit

-----------------------------------------------------------------------------
(* The steps                                                               *)

\* Steps that leave the table and what was committed alone: all that may have
\* grown is one operation, which was not left in the middle of a row.
LEMMA QuietStep ==
    ASSUME AuditInv, UNCHANGED <<rows, committed, answered, altered>>,
           call' \in [Calls -> CallTypes], draft' \in [Calls -> Rows \cup {NoDraft}],
           \A c \in Calls :
              \/ call'[c] = call[c] /\ draft'[c] = draft[c]
              \/ /\ CallOK(c)'
                 /\ c \in committed =>
                      /\ call'[c].kind = call[c].kind /\ call'[c].actor = call[c].actor
                      /\ call'[c].target = call[c].target
                      /\ call'[c].phase \in Logging =>
                            call[c].phase \in Logging /\ call'[c].at >= call[c].at
    PROVE  AuditInv'
<1>1. \A id : Has(id)' <=> Has(id)
    BY DEF Has
<1>2. ASSUME NEW c \in Calls PROVE CallOK(c)'
    BY <1>1, CallKept DEF AuditInv
<1>3. \A c \in committed \cap Calls :
         /\ Known(call[c])
         /\ call'[c].kind = call[c].kind /\ call'[c].actor = call[c].actor
         /\ call'[c].target = call[c].target
         /\ call'[c].phase \in Logging =>
               call[c].phase \in Logging /\ call'[c].at >= call[c].at
    BY DEF AuditInv, CallOK, CallTypes
<1>4. ASSUME NEW row \in rows PROVE RowOK(row)'
    BY <1>3, RowKept DEF AuditInv
<1> QED
    BY <1>1, <1>2, <1>4 DEF AuditInv, OneRowEach, AlteredRows

LEMMA ArriveOK ==
    ASSUME AuditInv, NEW c \in Calls, Arrive(c)
    PROVE  AuditInv'
<1>1. call[c].phase = "idle" /\ UNCHANGED <<rows, draft, committed, answered, altered>>
    BY DEF Arrive
<1>2. PICK kind \in Kinds, actor \in Accounts, target \in Accounts :
        call' = [call EXCEPT ![c] = [kind |-> kind, actor |-> actor, target |-> target,
                                     at |-> 1, phase |-> "mutating"]]
    BY DEF Arrive
<1>3. call' \in [Calls -> CallTypes] /\ \A d \in Calls \ {c} : call'[d] = call[d]
    BY <1>2 DEF AuditInv, CallTypes, Phases, Owners
<1>4. call'[c].phase = "mutating" /\ Known(call[c])' /\ c \notin committed
    BY <1>1, <1>2 DEF AuditInv, CallOK, Known
<1>5. CallOK(c)'
    BY <1>1, <1>4 DEF AuditInv, CallOK, Logging
<1> QED
    BY <1>1, <1>3, <1>4, <1>5, QuietStep DEF AuditInv

LEMMA CommitOK ==
    ASSUME AuditInv, NEW c \in Calls, Commit(c)
    PROVE  AuditInv'
<1>1. /\ call[c].phase = "mutating" /\ Known(call[c]) /\ c \notin committed
      /\ committed' = committed \cup {c} /\ NextEvent(c, 0)
      /\ UNCHANGED <<draft, altered>>
    BY DEF Commit, AuditInv, CallOK
<1>2. rows' = rows \/ rows' = Orphan(call[c].target)
    BY DEF Commit
<1>3. \A row \in rows' : \E old \in rows :
         row = old \/ row = [old EXCEPT !.userId = None]
    BY <1>2 DEF Orphan
<1>4. \A row \in rows : row.id \in Ids /\ [row EXCEPT !.userId = None].id = row.id
    BY DEF AuditInv, RowOK, Rows
<1>5. \A old \in rows : \E row \in rows' : row.id = old.id
    BY <1>2, <1>4 DEF Orphan
<1>6. \A id : Has(id) => Has(id)'
    BY <1>5 DEF Has
<1>7. 0 <= Len(Events(call[c])) /\ DOMAIN Events(call[c]) = 1 .. Len(Events(call[c]))
      /\ Len(Events(call[c])) \in Nat
    BY <1>1, EventsShape
<1>8. \A m \in DOMAIN Events(call[c]) : ~(m <= 0)
    BY <1>7
<1>9. /\ call' \in [Calls -> CallTypes] /\ CallOK(c)' /\ Known(call[c])'
      /\ \A d \in Calls \ {c} : /\ call'[d] = call[d]
                                /\ d \in answered' <=> d \in answered
    BY <1>1, <1>6, <1>7, <1>8, NextEventOK
<1>10. ASSUME NEW d \in Calls PROVE CallOK(d)'
    BY <1>1, <1>6, <1>9, CallKept DEF AuditInv
<1>11. \A d \in committed \cap Calls : Known(call[d]) /\ call'[d] = call[d]
    BY <1>1, <1>9 DEF AuditInv, CallOK
<1>12. ASSUME NEW row, RowOK(row) PROVE RowOK(row)'
    <2>1. \A d \in committed \cap Calls : call'[d].at >= call[d].at
        BY <1>11 DEF AuditInv, CallTypes
    <2> QED
        BY <1>1, <1>9, <1>11, <1>12, <2>1, RowKept DEF AuditInv
<1>13. ASSUME NEW row \in rows' PROVE RowOK(row)'
    BY <1>3, <1>12, OrphanOK DEF AuditInv
<1>14. OneRowEach'
    <2>1. CASE rows' = rows
        BY <2>1 DEF AuditInv, OneRowEach
    <2>2. CASE rows' = Orphan(call[c].target)
        <3>1. \A row \in rows' : \E old \in rows :
                 /\ row.id = old.id
                 /\ row = IF old.userId = call[c].target
                          THEN [old EXCEPT !.userId = None] ELSE old
            BY <1>4, <2>2 DEF Orphan
        <3> QED
            BY <3>1 DEF AuditInv, OneRowEach
    <2> QED
        BY <1>2, <2>1, <2>2
<1> QED
    BY <1>1, <1>6, <1>9, <1>10, <1>13, <1>14 DEF AuditInv, AlteredRows

\* An operation that is over, whichever way, with its draft thrown away.
LEMMA OverOK ==
    ASSUME AuditInv, UNCHANGED <<rows, committed, answered, altered>>,
           draft' \in [Calls -> Rows \cup {NoDraft}],
           call' \in [Calls -> CallTypes],
           \A c \in Calls :
              \/ call'[c] = call[c] /\ draft'[c] = draft[c]
              \/ call[c].phase = "idle" /\ call'[c] = call[c]
              \/ call[c].phase # "idle" /\ call'[c] = [call[c] EXCEPT !.phase = "done"]
    PROVE  AuditInv'
<1>1. ASSUME NEW c \in Calls,
             call[c].phase # "idle" /\ call'[c] = [call[c] EXCEPT !.phase = "done"]
      PROVE  /\ CallOK(c)' /\ call'[c].phase = "done"
             /\ call'[c].kind = call[c].kind /\ call'[c].actor = call[c].actor
             /\ call'[c].target = call[c].target
    <2>1. call[c] \in CallTypes /\ CallOK(c) /\ Known(call[c])
        BY <1>1 DEF AuditInv, CallOK
    <2>2. /\ call'[c].phase = "done" /\ call'[c].kind = call[c].kind
          /\ call'[c].actor = call[c].actor /\ call'[c].target = call[c].target
        BY <1>1, <2>1 DEF CallTypes
    <2>3. Events(call'[c]) = Events(call[c]) /\ Known(call[c])'
        BY <2>1, <2>2, SameEvents DEF Known
    <2>4. \A id : Has(id)' <=> Has(id)
        BY DEF Has
    <2> QED
        BY <2>1, <2>2, <2>3, <2>4 DEF CallOK, Logging
<1>2. ASSUME NEW c \in Calls, call[c].phase = "idle", call'[c] = call[c]
      PROVE  CallOK(c)'
    BY <1>2 DEF AuditInv, CallOK, Logging
<1>3. \A c \in Calls : call[c].phase = "idle" => c \notin committed
    BY DEF AuditInv, CallOK
<1> QED
    BY <1>1, <1>2, <1>3, QuietStep DEF Logging

LEMMA SealOK ==
    ASSUME AuditInv, NEW c \in Calls, Seal(c)
    PROVE  AuditInv'
<1>n. PICK n : n = call[c].at
    OBVIOUS
<1>1. /\ call[c].phase = "logging" /\ call' = [call EXCEPT ![c].phase = "sealed"]
      /\ UNCHANGED <<rows, committed, answered, altered>>
    BY DEF Seal
<1>2. /\ call[c] \in CallTypes /\ Known(call[c]) /\ n \in DOMAIN Events(call[c])
      /\ CallOK(c)
    BY <1>n, <1>1 DEF AuditInv, CallOK, Logging
<1>3. PICK snapshot \in BOOLEAN : draft' = [draft EXCEPT ![c] = SealedRow(c, n, snapshot)]
    BY <1>n DEF Seal, SealedRow, BareRow
<1>4. SealedRow(c, n, snapshot) \in Rows
    BY <1>2, SealedShape
<1>5. draft' \in [Calls -> Rows \cup {NoDraft}] /\ draft'[c] = SealedRow(c, n, snapshot)
    BY <1>3, <1>4 DEF AuditInv
<1>6. /\ call'[c] = [call[c] EXCEPT !.phase = "sealed"]
      /\ \A d \in Calls \ {c} : call'[d] = call[d] /\ draft'[d] = draft[d]
    BY <1>1, <1>3 DEF AuditInv
<1>7. /\ call'[c].phase = "sealed" /\ call'[c].kind = call[c].kind
      /\ call'[c].actor = call[c].actor /\ call'[c].target = call[c].target
      /\ call'[c].at = n /\ call'[c] \in CallTypes /\ n \in Nat
    BY <1>n, <1>2, <1>6 DEF CallTypes, Phases
<1>8. call' \in [Calls -> CallTypes]
    BY <1>1, <1>6, <1>7 DEF AuditInv
<1>9. Events(call'[c]) = Events(call[c]) /\ Known(call[c])'
    BY <1>2, <1>7, SameEvents DEF Known
<1>10. SealedRow(c, n, snapshot)' = SealedRow(c, n, snapshot)
    BY <1>9 DEF SealedRow, BareRow
<1>11. \A id : Has(id)' <=> Has(id)
    BY <1>1 DEF Has
<1>12. \E sn \in BOOLEAN : draft'[c] = SealedRow(c, n, sn)'
    BY <1>5, <1>10
<1>13. CallOK(c)'
    BY <1>1, <1>2, <1>7, <1>9, <1>11, <1>12 DEF CallOK, Logging
<1>14. call[c].phase \in Logging /\ call'[c].at >= call[c].at
    BY <1>n, <1>1, <1>7 DEF Logging
<1> QED
    BY <1>1, <1>5, <1>6, <1>7, <1>8, <1>13, <1>14, QuietStep

\* The row that enters the table: what PostgreSQL makes of its metadata leaves
\* its seal valid unless the row has no actor.
LEMMA InsertedShape ==
    ASSUME NEW c \in Calls, Known(call[c]), NEW n \in DOMAIN Events(call[c]),
           NEW snapshot \in BOOLEAN
    PROVE  LET row == [SealedRow(c, n, snapshot) EXCEPT !.meta = Jsonb(@)]
               event == Events(call[c])[n]
           IN  /\ row \in Rows /\ row.id = <<c, n>>
               /\ (event.ids \cup {event.actor}) \ {None} \subseteq row.meta.ids
               /\ row.hmac # NoHmac => row.hmac.text.action = "own"
               /\ row.userId # None => row.hmac = Hmac(row)
<1> DEFINE draw == SealedRow(c, n, snapshot)
           event == Events(call[c])[n]
           row == [draw EXCEPT !.meta = Jsonb(draw.meta)]
<1>1. /\ draw \in Rows /\ draw.id = <<c, n>> /\ draw.action = "own"
      /\ draw.hmac = Hmac(draw) /\ draw.userId = event.actor
      /\ event.ids \cup ({event.actor} \ {None}) \subseteq draw.meta.ids
      /\ event.actor # None => draw.meta.hole = "none"
    BY SealedShape
<1> HIDE DEF draw, event
<1>2. Jsonb(draw.meta) \in Metas /\ Jsonb(draw.meta).ids = draw.meta.ids
    BY <1>1 DEF Rows, Metas, Jsonb
<1>3. /\ row \in Rows /\ row.id = draw.id /\ row.userId = draw.userId
      /\ row.action = draw.action /\ row.snapshot = draw.snapshot
      /\ row.hmac = draw.hmac /\ row.meta = Jsonb(draw.meta)
    BY <1>1, <1>2 DEF Rows
<1>4. draw.meta.hole = "none" => Canonical(Jsonb(draw.meta)) = Canonical(draw.meta)
    BY <1>1 DEF Rows, Metas, Canonical, Jsonb
<1>5. row.userId # None => row.hmac = Hmac(row)
    BY <1>1, <1>3, <1>4 DEF Hmac, Covered
<1>6. row.hmac.text.action = "own"
    BY <1>1, <1>3 DEF Hmac, Covered
<1> HIDE DEF row
<1>7. /\ row \in Rows /\ row.id = <<c, n>>
      /\ (event.ids \cup {event.actor}) \ {None} \subseteq row.meta.ids
      /\ row.hmac # NoHmac => row.hmac.text.action = "own"
      /\ row.userId # None => row.hmac = Hmac(row)
    BY <1>1, <1>2, <1>3, <1>5, <1>6
<1> QED
    BY <1>7 DEF row, draw, event

LEMMA InsertOK ==
    ASSUME AuditInv, NEW c \in Calls, Insert(c)
    PROVE  AuditInv'
<1>n. PICK n : n = call[c].at
    OBVIOUS
<1>1. /\ call[c].phase = "sealed" /\ NextEvent(c, n)
      /\ rows' = rows \cup {[draft[c] EXCEPT !.meta = Jsonb(@)]}
      /\ draft' = [draft EXCEPT ![c] = NoDraft]
      /\ UNCHANGED <<committed, altered>>
    BY <1>n DEF Insert
<1>2. /\ CallOK(c) /\ Known(call[c]) /\ c \in committed /\ n \in DOMAIN Events(call[c])
      /\ \A m \in DOMAIN Events(call[c]) :
            m < n /\ Events(call[c])[m].awaited => Has(<<c, m>>)
    BY <1>n, <1>1 DEF AuditInv, CallOK, Logging
<1>3. PICK snapshot \in BOOLEAN : draft[c] = SealedRow(c, n, snapshot)
    BY <1>n, <1>1, <1>2 DEF CallOK
<1>4. PICK new : new = [SealedRow(c, n, snapshot) EXCEPT !.meta = Jsonb(@)]
    OBVIOUS
<1>5. /\ new \in Rows /\ new.id = <<c, n>>
      /\ (Events(call[c])[n].ids \cup {Events(call[c])[n].actor}) \ {None}
           \subseteq new.meta.ids
      /\ new.hmac # NoHmac => new.hmac.text.action = "own"
      /\ new.userId # None => new.hmac = Hmac(new)
    BY <1>2, <1>4, InsertedShape
<1>6. rows' = rows \cup {new}
    BY <1>1, <1>3, <1>4
<1>7. /\ n \in 1 .. Len(Events(call[c])) /\ Len(Events(call[c])) \in Nat
      /\ DOMAIN Events(call[c]) = 1 .. Len(Events(call[c]))
    BY <1>2, EventsShape
<1>8. \A id : Has(id) => Has(id)'
    BY <1>6 DEF Has
<1>9. \A m \in DOMAIN Events(call[c]) :
         m <= n /\ Events(call[c])[m].awaited => Has(<<c, m>>)'
    <2> SUFFICES ASSUME NEW m \in DOMAIN Events(call[c]), m <= n,
                        Events(call[c])[m].awaited
                 PROVE  Has(<<c, m>>)'
        OBVIOUS
    <2>1. m < n \/ m = n
        BY <1>7
    <2> QED
        BY <1>2, <1>5, <1>6, <1>8, <2>1 DEF Has
<1>10. n \in Nat /\ n <= Len(Events(call[c]))
    BY <1>7
<1>11. /\ call' \in [Calls -> CallTypes] /\ CallOK(c)' /\ Known(call[c])'
       /\ call'[c].kind = call[c].kind /\ call'[c].actor = call[c].actor
       /\ call'[c].target = call[c].target
       /\ call'[c].phase \in Logging => call'[c].at = n + 1
       /\ \A d \in Calls \ {c} : /\ call'[d] = call[d]
                                 /\ d \in answered' <=> d \in answered
    BY <1>1, <1>2, <1>8, <1>9, <1>10, NextEventOK
<1>12. /\ draft' \in [Calls -> Rows \cup {NoDraft}]
       /\ \A d \in Calls \ {c} : draft'[d] = draft[d]
    BY <1>1 DEF AuditInv
<1>13. ASSUME NEW d \in Calls PROVE CallOK(d)'
    BY <1>1, <1>8, <1>11, <1>12, CallKept DEF AuditInv
<1>14. \A d \in committed \cap Calls :
          /\ Known(call[d])
          /\ call'[d].kind = call[d].kind /\ call'[d].actor = call[d].actor
          /\ call'[d].target = call[d].target
          /\ call'[d].phase \in Logging =>
                call[d].phase \in Logging /\ call'[d].at >= call[d].at
    <2>1. \A d \in Calls : call[d].at \in Nat
        BY DEF AuditInv, CallTypes
    <2> QED
        BY <1>n, <1>1, <1>2, <1>11, <2>1 DEF AuditInv, CallOK, Logging
<1>15. ASSUME NEW row \in rows PROVE RowOK(row)'
    BY <1>1, <1>11, <1>14, RowKept DEF AuditInv
<1>16. \A row \in rows : row.id # <<c, n>>
    <2> SUFFICES ASSUME NEW row \in rows, row.id = <<c, n>> PROVE FALSE
        OBVIOUS
    <2>1. TellsRight(row, c, n)
        BY DEF AuditInv, RowOK
    <2> QED
        BY <1>n, <1>1, <1>10, <2>1 DEF TellsRight, Logging
<1>17. <<<<c, n>>, "action">> \notin altered
    BY <1>16 DEF AuditInv, AlteredRows, Has
<1>18. TellsRight(new, c, n)'
    <2>1. Events(call'[c]) = Events(call[c])
        BY <1>2, <1>11, SameEvents
    <2> QED
        BY <1>1, <1>2, <1>5, <1>10, <1>11, <2>1 DEF TellsRight
<1>19. SealedRight(new)'
    <2>1. SealedRight(new)
        BY <1>5, <1>17 DEF SealedRight
    <2> QED
        BY <1>1, <2>1 DEF SealedRight, Hmac, LegacyHmac
<1>20. RowOK(new)'
    BY <1>5, <1>18, <1>19 DEF RowOK
<1>21. OneRowEach'
    BY <1>5, <1>6, <1>16 DEF AuditInv, OneRowEach
<1> QED
    BY <1>1, <1>6, <1>8, <1>11, <1>12, <1>13, <1>15, <1>20, <1>21 DEF AuditInv, AlteredRows

LEMMA AlterOK ==
    ASSUME AuditInv, NEW row \in rows, NEW column \in Columns, Alter(row, column)
    PROVE  AuditInv'
<1>1. PICK changed : changed = Edited(row, column)
    OBVIOUS
<1>2. /\ rows' = (rows \ {row}) \cup {changed}
      /\ altered' = altered \cup {<<row.id, column>>}
      /\ UNCHANGED <<call, draft, committed, answered>>
    BY <1>1 DEF Alter
<1>3. RowOK(row) /\ row \in Rows
    BY DEF AuditInv, RowOK
<1>4. /\ changed \in Rows /\ changed.id = row.id /\ changed.userId = row.userId
      /\ changed.meta = row.meta /\ changed.snapshot = row.snapshot
      /\ changed.action = (IF column = "action" THEN "other" ELSE row.action)
      /\ changed.hmac = (IF column = "hmac" THEN NoHmac ELSE row.hmac)
    BY <1>1, <1>3 DEF Rows, Columns, Edited, Seals
<1>5. \A id : Has(id)' <=> Has(id)
    BY <1>2, <1>4 DEF Has
<1>6. ASSUME NEW c \in Calls PROVE CallOK(c)'
    BY <1>2, <1>5, CallKept DEF AuditInv
<1>7. RowOK(changed)'
    <2>1. SealedRight(changed)'
        <3>1. changed.hmac # NoHmac => changed.hmac.text.action = "own"
            BY <1>3, <1>4 DEF RowOK, SealedRight
        <3>2. <<changed.id, "action">> \in altered' => changed.action = "other"
            BY <1>2, <1>3, <1>4 DEF RowOK, SealedRight
        <3>3. <<changed.id, "action">> \notin altered' =>
                 /\ column # "action" /\ changed.action = row.action
                 /\ <<row.id, "action">> \notin altered
            BY <1>2, <1>4
        <3>4. changed.action = row.action =>
                 Hmac(changed) = Hmac(row) /\ LegacyHmac(changed) = LegacyHmac(row)
            BY <1>4 DEF Hmac, LegacyHmac, Covered
        <3>5. <<changed.id, "action">> \notin altered' /\ changed.userId # None =>
                 changed.hmac \in {NoHmac, Hmac(changed), LegacyHmac(changed)}
            BY <1>3, <1>4, <3>3, <3>4 DEF RowOK, SealedRight
        <3> QED
            BY <3>1, <3>2, <3>5 DEF SealedRight, Hmac, LegacyHmac
    <2>2. ASSUME row.id[1] \in Calls PROVE TellsRight(changed, row.id[1], row.id[2])'
        BY <1>2, <1>3, <1>4, <2>2 DEF RowOK, TellsRight
    <2> QED
        BY <1>4, <2>1, <2>2 DEF RowOK
<1>8. ASSUME NEW other \in rows \ {row} PROVE RowOK(other)'
    <2>1. other.id # row.id /\ RowOK(other)
        BY DEF AuditInv, OneRowEach
    <2>2. <<other.id, "action">> \in altered' <=> <<other.id, "action">> \in altered
        BY <1>2, <2>1
    <2>3. SealedRight(other)'
        BY <2>1, <2>2 DEF RowOK, SealedRight, Hmac, LegacyHmac
    <2> QED
        BY <1>2, <2>1, <2>3 DEF RowOK, TellsRight
<1>9. OneRowEach'
    BY <1>2, <1>4 DEF AuditInv, OneRowEach
<1>10. AlteredRows'
    <2>1. Has(row.id)
        BY DEF Has
    <2> QED
        BY <1>2, <1>5, <2>1 DEF AuditInv, AlteredRows
<1> QED
    BY <1>2, <1>3, <1>4, <1>5, <1>6, <1>7, <1>8, <1>9, <1>10 DEF AuditInv

LEMMA OverSteps ==
    ASSUME AuditInv, \/ \E c \in Calls : CommitFails(c) \/ InsertFails(c)
                     \/ Crash
    PROVE  AuditInv'
<1>t. call \in [Calls -> CallTypes] /\ draft \in [Calls -> Rows \cup {NoDraft}]
    BY DEF AuditInv
<1>d. \A c \in Calls : [call[c] EXCEPT !.phase = "done"] \in CallTypes
    BY <1>t DEF CallTypes, Phases
<1>1. ASSUME NEW c \in Calls, CommitFails(c) \/ InsertFails(c) PROVE AuditInv'
    <2>1. /\ call[c].phase # "idle" /\ call' = [call EXCEPT ![c].phase = "done"]
          /\ UNCHANGED <<rows, committed, answered, altered>>
          /\ draft' = draft \/ draft' = [draft EXCEPT ![c] = NoDraft]
        BY <1>1 DEF CommitFails, InsertFails
    <2>2. draft' \in [Calls -> Rows \cup {NoDraft}] /\ call' \in [Calls -> CallTypes]
        BY <1>t, <1>d, <2>1
    <2>3. /\ call'[c] = [call[c] EXCEPT !.phase = "done"]
          /\ \A d \in Calls \ {c} : call'[d] = call[d] /\ draft'[d] = draft[d]
        BY <1>t, <2>1
    <2> QED
        BY <2>1, <2>2, <2>3, OverOK
<1>2. CASE Crash
    <2>1. /\ call' = [c \in Calls |-> IF call[c].phase = "idle" THEN call[c]
                                      ELSE [call[c] EXCEPT !.phase = "done"]]
          /\ draft' = [c \in Calls |-> NoDraft]
          /\ UNCHANGED <<rows, committed, answered, altered>>
        BY <1>2 DEF Crash
    <2>2. draft' \in [Calls -> Rows \cup {NoDraft}] /\ call' \in [Calls -> CallTypes]
        BY <1>t, <1>d, <2>1
    <2> QED
        BY <2>1, <2>2, OverOK
<1> QED
    BY <1>1, <1>2

LEMMA AuditInvNext == AuditInv /\ [AuditNext]_auditVars => AuditInv'
<1> SUFFICES ASSUME AuditInv, [AuditNext]_auditVars PROVE AuditInv'
    OBVIOUS
<1>1. CASE UNCHANGED auditVars
    BY <1>1, QuietStep DEF auditVars, AuditInv
<1>2. CASE AuditNext
    BY <1>2, ArriveOK, CommitOK, SealOK, InsertOK, AlterOK, OverSteps DEF AuditNext
<1> QED
    BY <1>1, <1>2

LEMMA AlwaysInv == AuditSpec => []AuditInv
BY AuditInvInit, AuditInvNext, PTL DEF AuditSpec

\* Only operations are answered.
AnsweredCalls == answered \subseteq Calls

LEMMA AlwaysAnsweredCalls == AuditSpec => []AnsweredCalls
<1>1. AuditInit => AnsweredCalls
    BY DEF AuditInit, AnsweredCalls
<1>2. AnsweredCalls /\ [AuditNext]_auditVars => AnsweredCalls'
    BY DEF AnsweredCalls, AuditNext, auditVars, Arrive, Commit, CommitFails, Seal, Insert,
           InsertFails, Alter, Crash, NextEvent
<1> QED
    BY <1>1, <1>2, PTL DEF AuditSpec

-----------------------------------------------------------------------------
(* The theorems                                                            *)

\* For any operations on any accounts, with any number of deletions, refusals
\* and crashes in between: the log tells only of mutations that were made, and
\* a caller who was told of success has its row.
THEOREM LogMatchesChangesHolds == AuditSpec => []LogMatchesChanges
<1>1. AuditInv => NoPhantomRow
    BY DEF AuditInv, RowOK, TellsRight, NoPhantomRow
<1>2. AuditInv /\ AnsweredCalls => AnsweredIsLogged
    BY DEF AuditInv, CallOK, Has, AnsweredIsLogged, AnsweredCalls
<1>3. AuditInv /\ AnsweredCalls => LogMatchesChanges
    BY <1>1, <1>2 DEF LogMatchesChanges
<1> QED
    BY <1>3, AlwaysInv, AlwaysAnsweredCalls, PTL

\* What an operation is about its first row tells of, except where there is none.
LEMMA FirstTells ==
    ASSUME NEW k, Known(k), k.kind # "createUser"
    PROVE  /\ 1 \in DOMAIN Events(k) /\ Events(k)[1].awaited
           /\ About(k) \subseteq (Events(k)[1].ids \cup {Events(k)[1].actor}) \ {None}
<1>0. k.actor # None /\ k.target # None /\ Thing # None
    BY NoneAssumption DEF Known
<1> USE DEF Known, Events, Logged, Intercepted, Extracted, About
<1>1. CASE k.kind = "update"
    BY <1>0, <1>1
<1>2. CASE k.kind = "addUser"
    BY <1>0, <1>2
<1>3. CASE k.kind = "account"
    BY <1>0, <1>3
<1>4. CASE k.kind = "remove"
    BY <1>0, <1>4
<1>5. CASE k.kind = "closed"
    BY <1>0, <1>5
<1>6. CASE k.kind = "loginOtp"
    BY <1>0, <1>6
<1> QED
    BY <1>1, <1>2, <1>3, <1>4, <1>5, <1>6

\* An operation that was answered with success, unless it created a user, is
\* found by who did it and by everything it was done to: its row was written
\* before the answer and keeps the ids when the accounts are gone.
THEOREM FilterFindsAllHolds == AuditSpec => []FilterFindsAll
<1>1. ASSUME AuditInv, AnsweredCalls, NEW c \in answered, call[c].kind # "createUser",
             NEW id \in About(call[c])
      PROVE  FoundBy(c, id)
    <2>1. c \in Calls /\ CallOK(c) /\ c \in committed /\ Known(call[c])
        BY <1>1 DEF AuditInv, AnsweredCalls, CallOK
    <2>2. /\ 1 \in DOMAIN Events(call[c]) /\ Events(call[c])[1].awaited
          /\ About(call[c])
               \subseteq (Events(call[c])[1].ids \cup {Events(call[c])[1].actor}) \ {None}
        BY <1>1, <2>1, FirstTells
    <2>3. PICK row \in rows : row.id = <<c, 1>>
        BY <2>1, <2>2 DEF CallOK, Has
    <2>4. row.id[1] = c /\ row.id[2] = 1
        BY <2>3
    <2>5. TellsRight(row, c, 1)
        BY <1>1, <2>1, <2>4 DEF AuditInv, RowOK
    <2>6. id \in row.meta.ids
        BY <1>1, <2>2, <2>5 DEF TellsRight
    <2> QED
        BY <2>4, <2>6 DEF FoundBy, Found
<1>2. AuditInv /\ AnsweredCalls => FilterFindsAll
    BY <1>1 DEF FilterFindsAll
<1> QED
    BY <1>2, AlwaysInv, AlwaysAnsweredCalls, PTL

\* Of the rows that keep their seal, verifyIntegrity reports each in which a
\* column the seal covers was changed, and of those whose actor has an account no
\* other, whichever release sealed them and whatever else of them was edited.
THEOREM VerdictTellsHolds == AuditSpec => []VerdictTells
<1>1. ASSUME AuditInv, NEW row \in rows, row.userId # None,
             <<row.id, "action">> \notin altered
      PROVE  ~Tampered(row)
    BY <1>1 DEF AuditInv, RowOK, SealedRight, Tampered
<1>2. ASSUME AuditInv, NEW row \in rows, row.hmac # NoHmac,
             <<row.id, "action">> \in altered
      PROVE  Tampered(row)
    <2>1. row.hmac.text.action = "own" /\ row.action = "other"
        BY <1>2 DEF AuditInv, RowOK, SealedRight
    <2>2. Hmac(row).text.action = "other" /\ LegacyHmac(row).text.action = "other"
        BY <2>1 DEF Hmac, LegacyHmac, Covered
    <2> QED
        BY <1>2, <2>1, <2>2 DEF Tampered
<1>3. AuditInv => VerdictTells
    BY <1>1, <1>2 DEF VerdictTells, LiveRowsVerify, ChangeIsReported
<1> QED
    BY <1>3, AlwaysInv, PTL
=============================================================================
