---------------------------- MODULE MCSshGateway ----------------------------
(* Model-checking instance of SshGateway: all sockets belong to one account, *)
(* and the sessions are those of one of them; the others compete with it for *)
(* the slots of the account.                                                 *)
EXTENDS SshGateway

CONSTANTS u1, c1
OneOwner == [c \in Clients |-> u1]
BusyInit == Init /\ by = [s \in Sessions |-> c1]
BusySpec == BusyInit /\ [][Next]_vars /\ Fairness
=============================================================================
