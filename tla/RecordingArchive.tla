-------------------------- MODULE RecordingArchive --------------------------
(***************************************************************************)
(* What the archive of recordings promises: a recording grows while it is  *)
(* open; when it is sealed its digest is that of all it holds; after that  *)
(* nothing changes it; and only a sealed recording is ever removed.  Of a  *)
(* foreign recording, which somebody else writes, less is promised: the    *)
(* digest, if there is one, is of a part it held when it was sealed, and   *)
(* it may still grow.  Recordings is shown to implement this.              *)
(***************************************************************************)
EXTENDS Integers

CONSTANTS
    Sessions,
    MaxSize,  \* how much a recording may hold
    None      \* no digest

VARIABLES
    foreign,  \* the recordings written by somebody else
    phase,    \* "none", "open", "sealed" or "removed"
    content,  \* how much each recording holds
    digest    \* the content a sealed recording attests, else None

vars == <<foreign, phase, content, digest>>

\* Some recordings, all its own, are there from before.
Init ==
    /\ foreign \in SUBSET Sessions
    /\ phase \in [Sessions -> {"none", "sealed"}]
    /\ content \in [Sessions -> 0..MaxSize]
    /\ digest = [s \in Sessions |-> IF phase[s] = "sealed" THEN content[s] ELSE None]
    /\ \A s \in Sessions : phase[s] = "none" => content[s] = 0
    /\ \A s \in foreign : phase[s] = "none"

Begin(s) ==
    /\ phase[s] = "none"
    /\ phase' = [phase EXCEPT ![s] = "open"]
    /\ UNCHANGED <<foreign, content, digest>>

Append(s) ==
    /\ phase[s] = "open" \/ (s \in foreign /\ phase[s] = "sealed")
    /\ \E n \in content[s] + 1..MaxSize : content' = [content EXCEPT ![s] = n]
    /\ UNCHANGED <<foreign, phase, digest>>

Attests(s, d) ==
    IF s \in foreign THEN d = None \/ d \in 0..content[s] ELSE d = content[s]

Seal(s) ==
    /\ phase[s] = "open"
    /\ phase' = [phase EXCEPT ![s] = "sealed"]
    /\ \E d \in {None} \cup 0..MaxSize :
          Attests(s, d) /\ digest' = [digest EXCEPT ![s] = d]
    /\ UNCHANGED <<foreign, content>>

Remove(s) ==
    /\ phase[s] = "sealed"
    /\ phase' = [phase EXCEPT ![s] = "removed"]
    /\ content' = [content EXCEPT ![s] = 0]
    /\ digest' = [digest EXCEPT ![s] = None]
    /\ UNCHANGED foreign

Next == \E s \in Sessions : Begin(s) \/ Append(s) \/ Seal(s) \/ Remove(s)

Spec == Init /\ [][Next]_vars
=============================================================================
