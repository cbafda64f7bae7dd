---------------------------- MODULE SessionBroker ----------------------------
(***************************************************************************)
(* What a terminal gateway promises, whatever its protocol: a channel to a *)
(* machine opens only for an account that was found to have access, once;  *)
(* it stays closed after it has ended; and it ends if access or the tokens *)
(* of its socket are revoked and stay so.  SshGateway and RdpGateway are   *)
(* shown to implement this.                                                *)
(***************************************************************************)
CONSTANTS Clients, Users, Owner, Sessions

VARIABLES
    phase,      \* "idle", "cleared" (access was found), "open" or "ended"
    by,         \* the socket of each session
    operators,  \* accounts with access
    stale       \* sockets whose tokens are revoked

vars == <<phase, by, operators, stale>>

Init ==
    /\ phase = [s \in Sessions |-> "idle"]
    /\ by \in [Sessions -> Clients]
    /\ operators = Users
    /\ stale = {}

Entitled(s) == Owner[by[s]] \in operators /\ by[s] \notin stale

Move(s, from, to) ==
    /\ phase[s] = from
    /\ phase' = [phase EXCEPT ![s] = to]
    /\ UNCHANGED <<by, operators, stale>>

\* Access is looked up; the token was when the socket connected.
Clear(s) == Owner[by[s]] \in operators /\ Move(s, "idle", "cleared")
GiveUp(s) == Move(s, "cleared", "idle")
Open(s) == Move(s, "cleared", "open")
End(s) == Move(s, "open", "ended")
Evict(s) == ~Entitled(s) /\ End(s)

Administer ==
    /\ operators' \in SUBSET Users
    /\ stale' \in {stale \cup more : more \in SUBSET Clients}
    /\ UNCHANGED <<phase, by>>

Next ==
    \/ \E s \in Sessions : Clear(s) \/ GiveUp(s) \/ Open(s) \/ End(s)
    \/ Administer

Spec == Init /\ [][Next]_vars

\* A session that stays without access or without valid tokens is ended.
FairSpec == Spec /\ \A s \in Sessions : WF_vars(Evict(s))
=============================================================================
