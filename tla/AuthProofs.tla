----------------------------- MODULE AuthProofs -----------------------------
(***************************************************************************)
(* Theorems about the authentication of one account: the verification of   *)
(* codes (OtpLockout), the setting up and removal of the second factor     *)
(* (OtpEnrolment) and the tokens (TokenLifecycle).  The three models have  *)
(* no variable in common; each has its part here.                          *)
(***************************************************************************)
EXTENDS OtpLockout, OtpEnrolment, TokenLifecycle, FiniteSetTheorems, TLAPS

-----------------------------------------------------------------------------
(***************************************************************************)
(* Theorems about OtpLockout, for every number of requests, every cap and  *)
(* every time-to-live of the replay entry that outlives a code.            *)
(***************************************************************************)

(***************************************************************************)
(* Type correctness.  lockedUntil is left out: no invariant depends on its *)
(* value, and nothing is known of the exponential the backoff is made of.  *)
(***************************************************************************)
LEMMA LockoutTypeInductive == LockoutTypeOK /\ [LockoutNext]_lockoutVars => LockoutTypeOK'
<1> SUFFICES ASSUME LockoutTypeOK, [LockoutNext]_lockoutVars PROVE LockoutTypeOK'
  OBVIOUS
<1> USE DEF LockoutTypeOK, lockoutRow, replay, history, Running, Finished, NoEntry
<1>1. ASSUME NEW r \in Verifications, Gate(r) PROVE LockoutTypeOK'
  BY <1>1 DEF Gate
<1>2. ASSUME NEW r \in Verifications, Increment(r) PROVE LockoutTypeOK'
  BY <1>2, MaxAttemptsAssumption DEF Increment
<1>3. ASSUME NEW r \in Verifications, SetLock(r) PROVE LockoutTypeOK'
  BY <1>3 DEF SetLock
<1>4. ASSUME NEW r \in Verifications, Match(r) PROVE LockoutTypeOK'
  <2>1. PICK k \in Window, earlier \in Remembered :
              /\ k > earlier
              /\ lastCounter' = k
              /\ code' = [code EXCEPT ![r] = k]
    BY <1>4 DEF Match
  <2>2. earlier \in Nat \cup {NoEntry}
    BY DEF Remembered
  <2>3. k \in Nat
    BY <2>1, <2>2 DEF Window
  <2>4. QED
    BY <1>4, <2>1, <2>3 DEF Match
<1>5. ASSUME NEW r \in Verifications, Mismatch(r) PROVE LockoutTypeOK'
  BY <1>5 DEF Mismatch, Remembered
<1>6. ASSUME NEW r \in Verifications, Reset(r) PROVE LockoutTypeOK'
  BY <1>6 DEF Reset
<1>7. CASE Tick
  BY <1>7 DEF Tick
<1>8. CASE Restart
  BY <1>8 DEF Restart
<1>9. CASE UNCHANGED lockoutVars
  BY <1>9 DEF lockoutVars
<1>10. QED
  BY <1>1, <1>2, <1>3, <1>4, <1>5, <1>6, <1>7, <1>8, <1>9 DEF LockoutNext

\* Every variable the other invariants speak of keeps its type.
THEOREM LockoutTypeCorrect == LockoutSpec => []LockoutTypeOK
<1>1. LockoutInit => LockoutTypeOK
  BY DEF LockoutInit, LockoutTypeOK, Running, Finished, NoEntry
<1>2. QED
  BY <1>1, LockoutTypeInductive, PTL DEF LockoutSpec

-----------------------------------------------------------------------------
(***************************************************************************)
(* The attempt bound.  The row of the current generation counts exactly    *)
(* the requests admitted under it until the cap is passed, and no request  *)
(* is admitted afterwards; a request that has not been counted yet has no  *)
(* generation, and none has a generation to come.                          *)
(***************************************************************************)
AdmissionInv ==
    /\ \A r \in Verifications : stage[r] \in {"idle", "gated"} => admittedIn[r] = 0
    /\ \A r \in Verifications : admittedIn[r] <= generation
    /\ \A g \in 1..generation :
          IsFiniteSet(AdmittedUnder(g)) /\ Cardinality(AdmittedUnder(g)) <= MaxAttempts
    /\ Cardinality(AdmittedUnder(generation)) <= attempts

LEMMA AdmissionInductive ==
    LockoutTypeOK /\ AdmissionInv /\ [LockoutNext]_lockoutVars => AdmissionInv'
<1> SUFFICES ASSUME LockoutTypeOK, AdmissionInv, [LockoutNext]_lockoutVars PROVE AdmissionInv'
  OBVIOUS
<1> USE DEF lockoutRow, replay, history
<1>1. ASSUME UNCHANGED <<generation, admittedIn>>, attempts' \in Nat,
             attempts' >= attempts,
             \A r \in Verifications : stage'[r] \in {"idle", "gated"}
                                   => stage[r] \in {"idle", "gated"}
      PROVE  AdmissionInv'
  <2>1. \A g : AdmittedUnder(g)' = AdmittedUnder(g)
    BY <1>1 DEF AdmittedUnder
  <2>2. Cardinality(AdmittedUnder(generation)) \in Nat
    BY FS_CardinalityType DEF AdmissionInv, LockoutTypeOK
  <2>3. QED
    BY <1>1, <2>1, <2>2 DEF AdmissionInv, LockoutTypeOK
<1>2. ASSUME NEW r \in Verifications, Gate(r) PROVE AdmissionInv'
  BY <1>1, <1>2 DEF Gate, LockoutTypeOK
<1>3. ASSUME NEW r \in Verifications, Increment(r) PROVE AdmissionInv'
  <2>1. CASE attempts + 1 > MaxAttempts
    BY <1>1, <1>3, <2>1 DEF Increment, LockoutTypeOK
  <2>2. CASE ~(attempts + 1 > MaxAttempts)
    <3>1. /\ attempts' = attempts + 1
          /\ admittedIn' = [admittedIn EXCEPT ![r] = generation]
          /\ stage' = [stage EXCEPT ![r] = "lookup"]
          /\ UNCHANGED generation
          /\ stage[r] = "gated" /\ admittedIn[r] = 0
      BY <1>3, <2>2 DEF Increment, AdmissionInv
    <3>2. AdmittedUnder(generation)' = AdmittedUnder(generation) \cup {r}
      BY <3>1 DEF AdmittedUnder, LockoutTypeOK
    <3>3. \A g \in 1..generation : g # generation => AdmittedUnder(g)' = AdmittedUnder(g)
      BY <3>1 DEF AdmittedUnder, LockoutTypeOK
    <3>4. r \notin AdmittedUnder(generation)
      BY <3>1 DEF AdmittedUnder, LockoutTypeOK
    <3>5. IsFiniteSet(AdmittedUnder(generation))
      BY DEF AdmissionInv, LockoutTypeOK
    <3>6. /\ IsFiniteSet(AdmittedUnder(generation)')
          /\ Cardinality(AdmittedUnder(generation)') = Cardinality(AdmittedUnder(generation)) + 1
      BY <3>2, <3>4, <3>5, FS_AddElement
    <3>7. Cardinality(AdmittedUnder(generation)) \in Nat
      BY <3>5, FS_CardinalityType
    <3>8. Cardinality(AdmittedUnder(generation)') <= attempts + 1
      BY <3>6, <3>7 DEF AdmissionInv, LockoutTypeOK
    <3>9. attempts + 1 <= MaxAttempts
      BY <2>2, MaxAttemptsAssumption DEF LockoutTypeOK
    <3>10. \A g \in 1..generation :
              IsFiniteSet(AdmittedUnder(g)') /\ Cardinality(AdmittedUnder(g)') <= MaxAttempts
      <4> TAKE g \in 1..generation
      <4>1. CASE g = generation
        <5>1. AdmittedUnder(g)' = AdmittedUnder(generation)'
          BY <4>1, <3>1 DEF AdmittedUnder
        <5>2. QED
          BY <5>1, <3>6, <3>7, <3>8, <3>9, MaxAttemptsAssumption DEF LockoutTypeOK
      <4>2. CASE g # generation
        BY <4>2, <3>3 DEF AdmissionInv
      <4>3. QED
        BY <4>1, <4>2
    <3>11. \A s \in Verifications : stage'[s] \in {"idle", "gated"} => admittedIn'[s] = 0
      BY <3>1 DEF AdmissionInv, LockoutTypeOK
    <3>12. \A s \in Verifications : admittedIn'[s] <= generation
      BY <3>1 DEF AdmissionInv, LockoutTypeOK
    <3>13. QED
      BY <3>1, <3>8, <3>10, <3>11, <3>12 DEF AdmissionInv, AdmittedUnder
  <2>3. QED
    BY <2>1, <2>2
<1>4. ASSUME NEW r \in Verifications, SetLock(r) PROVE AdmissionInv'
  BY <1>1, <1>4 DEF SetLock, LockoutTypeOK
<1>5. ASSUME NEW r \in Verifications, Match(r) PROVE AdmissionInv'
  BY <1>1, <1>5 DEF Match, LockoutTypeOK
<1>6. ASSUME NEW r \in Verifications, Mismatch(r) PROVE AdmissionInv'
  BY <1>1, <1>6 DEF Mismatch, LockoutTypeOK
<1>7. ASSUME NEW r \in Verifications, Reset(r) PROVE AdmissionInv'
  <2>1. /\ generation' = generation + 1
        /\ attempts' = 0
        /\ admittedIn' = admittedIn
        /\ stage' = [stage EXCEPT ![r] = "accepted"]
    BY <1>7 DEF Reset
  <2>2. \A g : AdmittedUnder(g)' = AdmittedUnder(g)
    BY <2>1 DEF AdmittedUnder
  <2>3. AdmittedUnder(generation + 1) = {}
    BY DEF AdmittedUnder, AdmissionInv, LockoutTypeOK
  <2>4. IsFiniteSet({}) /\ Cardinality({}) = 0
    BY FS_EmptySet
  <2>5. \A g \in 1..(generation + 1) :
            IsFiniteSet(AdmittedUnder(g)) /\ Cardinality(AdmittedUnder(g)) <= MaxAttempts
    <3> TAKE g \in 1..(generation + 1)
    <3>1. CASE g = generation + 1
      BY <3>1, <2>3, <2>4, MaxAttemptsAssumption
    <3>2. CASE g # generation + 1
      BY <3>2 DEF AdmissionInv, LockoutTypeOK
    <3>3. QED
      BY <3>1, <3>2
  <2>6. AdmittedUnder(generation)' = {}
    BY <2>1, <2>3 DEF AdmittedUnder
  <2>7. \A g \in 1..generation' :
            IsFiniteSet(AdmittedUnder(g)') /\ Cardinality(AdmittedUnder(g)') <= MaxAttempts
    BY <2>1, <2>2, <2>5
  <2>8. Cardinality(AdmittedUnder(generation)') <= attempts'
    BY <2>1, <2>4, <2>6
  <2>9. \A s \in Verifications : stage'[s] \in {"idle", "gated"} => admittedIn'[s] = 0
    BY <2>1 DEF AdmissionInv, LockoutTypeOK
  <2>10. \A s \in Verifications : admittedIn'[s] <= generation'
    BY <2>1 DEF AdmissionInv, LockoutTypeOK
  <2>11. QED
    BY <2>7, <2>8, <2>9, <2>10 DEF AdmissionInv
<1>8. CASE Tick
  BY <1>1, <1>8 DEF Tick, LockoutTypeOK
<1>9. CASE Restart
  BY <1>1, <1>9 DEF Restart, LockoutTypeOK, Running
<1>10. CASE UNCHANGED lockoutVars
  BY <1>1, <1>10 DEF lockoutVars, LockoutTypeOK
<1>11. QED
  BY <1>2, <1>3, <1>4, <1>5, <1>6, <1>7, <1>8, <1>9, <1>10 DEF LockoutNext

\* No interleaving of concurrent requests, expiries and restarts gets more
\* than MaxAttempts codes verified under one lockout row.
THEOREM AttemptBoundHolds == LockoutSpec => []AttemptBound
<1>1. LockoutInit => AdmissionInv
  <2>1. ASSUME LockoutInit PROVE AdmittedUnder(1) = {}
    BY <2>1 DEF LockoutInit, AdmittedUnder
  <2>2. IsFiniteSet({}) /\ Cardinality({}) = 0
    BY FS_EmptySet
  <2>3. QED
    BY <2>1, <2>2, MaxAttemptsAssumption DEF LockoutInit, AdmissionInv
<1>2. AdmissionInv => AttemptBound
  BY DEF AdmissionInv, AttemptBound
<1>3. QED
  BY <1>1, <1>2, LockoutTypeCorrect, AdmissionInductive, PTL DEF LockoutSpec

-----------------------------------------------------------------------------
(***************************************************************************)
(* Replay protection.  While the entry is there it is at least as new as   *)
(* every code this process accepted; once it is evicted, all of them have  *)
(* left the window.                                                        *)
(***************************************************************************)
ReplayInv ==
    /\ NoReplay
    /\ lastCounter # NoEntry => lastCounter <= lastTs + 1
    /\ lastTs <= now
    /\ \A r \in fresh :
          IF lastCounter = NoEntry THEN code[r] < now - 1
                                   ELSE code[r] <= lastCounter
    /\ \A r \in fresh : stage[r] \in {"resetting", "accepted"}

LEMMA EvictedIsOld ==
    ASSUME LockoutTypeOK, ReplayInv, NEW earlier \in Remembered
    PROVE  /\ earlier \in Nat \cup {NoEntry}
           /\ \A r \in fresh :
                 IF earlier = NoEntry THEN code[r] < now - 1 ELSE code[r] <= earlier
<1>1. CASE earlier = lastCounter
  BY <1>1 DEF LockoutTypeOK, ReplayInv
<1>2. CASE earlier # lastCounter
  <2>1. earlier = NoEntry /\ lastCounter # NoEntry /\ now - lastTs >= ReplayTTL
    BY <1>2, ReplayTTLAssumption DEF Remembered, LockoutTypeOK
  <2>2. QED
    BY <2>1, ReplayTTLAssumption DEF LockoutTypeOK, ReplayInv, NoEntry
<1>3. QED
  BY <1>1, <1>2

LEMMA ReplayInductive == LockoutTypeOK /\ ReplayInv /\ [LockoutNext]_lockoutVars => ReplayInv'
<1> SUFFICES ASSUME LockoutTypeOK, ReplayInv, [LockoutNext]_lockoutVars PROVE ReplayInv'
  OBVIOUS
<1> USE DEF lockoutRow, replay, history
<1>1. ASSUME UNCHANGED <<now, replay>>,
             \A r \in fresh : stage'[r] \in {"resetting", "accepted"}
      PROVE  ReplayInv'
  BY <1>1 DEF ReplayInv, NoReplay
<1>2. ASSUME NEW r \in Verifications, Gate(r) PROVE ReplayInv'
  BY <1>1, <1>2 DEF Gate, ReplayInv, LockoutTypeOK
<1>3. ASSUME NEW r \in Verifications, Increment(r) PROVE ReplayInv'
  BY <1>1, <1>3 DEF Increment, ReplayInv, LockoutTypeOK
<1>4. ASSUME NEW r \in Verifications, SetLock(r) PROVE ReplayInv'
  BY <1>1, <1>4 DEF SetLock, ReplayInv, LockoutTypeOK
<1>5. ASSUME NEW r \in Verifications, Match(r) PROVE ReplayInv'
  <2>1. PICK k \in Window, earlier \in Remembered :
              /\ k > earlier
              /\ lastCounter' = k
              /\ code' = [code EXCEPT ![r] = k]
    BY <1>5 DEF Match
  <2>2. /\ earlier \in Nat \cup {NoEntry}
        /\ \A s \in fresh :
              IF earlier = NoEntry THEN code[s] < now - 1 ELSE code[s] <= earlier
    BY EvictedIsOld
  <2>3. /\ stage[r] = "lookup" /\ lastTs' = now /\ now' = now
        /\ fresh' = fresh \cup {r}
        /\ stage' = [stage EXCEPT ![r] = "resetting"]
    BY <1>5 DEF Match
  <2>4. r \notin fresh
    BY <2>3 DEF ReplayInv
  <2>5. k \in Int /\ k >= now - 1 /\ k <= now + 1 /\ k # NoEntry
    BY <2>1, <2>2 DEF Window, LockoutTypeOK, NoEntry
  <2>6. \A s \in fresh : code'[s] = code[s] /\ code[s] < k
    BY <2>1, <2>2, <2>4, <2>5 DEF LockoutTypeOK, NoEntry
  <2>7. code'[r] = k
    BY <2>1 DEF LockoutTypeOK
  <2>8. NoReplay'
    BY <2>3, <2>5, <2>6, <2>7 DEF NoReplay, ReplayInv, LockoutTypeOK
  <2>9. \A s \in fresh' : stage'[s] \in {"resetting", "accepted"}
    BY <2>3 DEF ReplayInv, LockoutTypeOK
  <2>10. QED
    BY <2>1, <2>3, <2>5, <2>6, <2>7, <2>8, <2>9 DEF ReplayInv, LockoutTypeOK
<1>6. ASSUME NEW r \in Verifications, Mismatch(r) PROVE ReplayInv'
  <2>1. \A s \in fresh : IF lastCounter' = NoEntry THEN code[s] < now - 1
                                                   ELSE code[s] <= lastCounter'
    BY <1>6, EvictedIsOld DEF Mismatch
  <2>2. lastCounter' # NoEntry => lastCounter' = lastCounter
    BY <1>6 DEF Mismatch, Remembered
  <2>3. QED
    BY <1>6, <2>1, <2>2 DEF Mismatch, ReplayInv, NoReplay, LockoutTypeOK
<1>7. ASSUME NEW r \in Verifications, Reset(r) PROVE ReplayInv'
  BY <1>1, <1>7 DEF Reset, ReplayInv, LockoutTypeOK
<1>8. CASE Tick
  BY <1>8 DEF Tick, ReplayInv, NoReplay, LockoutTypeOK
<1>9. CASE Restart
  BY <1>9 DEF Restart, ReplayInv, NoReplay, LockoutTypeOK
<1>10. CASE UNCHANGED lockoutVars
  BY <1>1, <1>10 DEF lockoutVars, ReplayInv
<1>11. QED
  BY <1>2, <1>3, <1>4, <1>5, <1>6, <1>7, <1>8, <1>9, <1>10 DEF LockoutNext

\* One process accepts no TOTP code twice, also when the replay entry is
\* evicted between the two presentations.
THEOREM NoReplayHolds == LockoutSpec => []NoReplay
<1>1. LockoutInit => ReplayInv
  BY DEF LockoutInit, ReplayInv, NoReplay, NoEntry
<1>2. ReplayInv => NoReplay
  BY DEF ReplayInv
<1>3. QED
  BY <1>1, <1>2, LockoutTypeCorrect, ReplayInductive, PTL DEF LockoutSpec

-----------------------------------------------------------------------------
(***************************************************************************)
(* Theorems about OtpEnrolment, for every number of requests and secrets   *)
(* and all time.                                                           *)
(***************************************************************************)

(***************************************************************************)
(* Type correctness.  Goes and GoesWith are expanded everywhere: they      *)
(* change the entry of one request.                                        *)
(***************************************************************************)
LEMMA EnrolmentTypeInit == EnrolmentInit => EnrolmentTypeOK
<1> SUFFICES ASSUME EnrolmentInit PROVE EnrolmentTypeOK
  OBVIOUS
<1> USE DEF NoSecret, NoCounter
<1>1. row \in Rows
  <2>1. NoFactor \in Rows
    BY DEF NoFactor, Rows
  <2>2. ASSUME NEW old \in BOOLEAN
        PROVE  [enabled |-> TRUE, secret |-> 1, plain |-> old, pending |-> NoSecret] \in Rows
    BY DEF NoFactor, Rows
  <2>3. QED
    BY <2>1, <2>2 DEF EnrolmentInit
<1>2. made \in Nat /\ shown \subseteq Nat
  BY DEF EnrolmentInit
<1>3. req \in [FactorRequests -> Request]
  BY DEF EnrolmentInit, Request, FactorKinds, Phases
<1>4. clock \in Nat \ {0, 1} /\ last \in Nat /\ spent \subseteq Nat \X Nat
  BY DEF EnrolmentInit
<1>5. QED
  BY <1>1, <1>2, <1>3, <1>4 DEF EnrolmentInit, EnrolmentTypeOK

LEMMA WindowIsNat == ASSUME EnrolmentTypeOK PROVE CodeWindow \subseteq Nat
BY DEF EnrolmentTypeOK, CodeWindow

LEMMA TypeEnrols ==
  ASSUME EnrolmentTypeOK, NEW r \in FactorRequests, Enrols(r) PROVE EnrolmentTypeOK'
<1> USE DEF Goes, GoesWith, At, Phases, Request
<1>1. CASE Generates(r)
  BY <1>1 DEF Generates, EnrolmentTypeOK, replayVars
<1>2. CASE Generated(r)
  BY <1>2 DEF Generated, EnrolmentTypeOK, replayVars, secretVars, Rows, Request
<1>3. CASE Shows(r)
  BY <1>3 DEF Shows, EnrolmentTypeOK, replayVars, Request
<1>4. CASE ReadsPending(r)
  <2>1. row.pending \in Nat
    BY DEF EnrolmentTypeOK, Rows
  <2>2. req' \in [FactorRequests -> Request]
    <3>1. req \in [FactorRequests -> Request] /\ req[r] \in Request
      BY DEF EnrolmentTypeOK
    <3>2. CASE Goes(r, "refused")
      BY <3>1, <3>2
    <3>3. CASE GoesWith(r, "checking", row.pending, FALSE)
      BY <3>1, <3>3, <2>1
    <3>4. QED
      BY <1>4, <3>2, <3>3 DEF ReadsPending
  <2>3. QED
    BY <1>4, <2>2 DEF ReadsPending, EnrolmentTypeOK, replayVars, secretVars
<1>5. CASE PendingMatches(r)
  <2>1. PICK counter \in CodeWindow :
          last' = counter /\ spent' = spent \cup {<<req[r].secret, counter>>}
    BY <1>5 DEF PendingMatches
  <2>2. counter \in Nat
    BY <2>1, WindowIsNat
  <2>3. req[r].secret \in Nat
    BY DEF EnrolmentTypeOK, Request
  <2>4. QED
    BY <1>5, <2>1, <2>2, <2>3 DEF PendingMatches, EnrolmentTypeOK, secretVars
<1>6. CASE PendingMismatch(r)
  BY <1>6 DEF PendingMismatch, EnrolmentTypeOK, replayVars, secretVars
<1>7. CASE Enables(r)
  BY <1>7 DEF Enables, EnrolmentTypeOK, replayVars, secretVars, Rows, Request, NoSecret
<1>8. CASE Disables(r)
  BY <1>8 DEF Disables, WithoutFactor, EnrolmentTypeOK, replayVars, secretVars, Rows, NoSecret
<1>9. QED
  BY <1>1, <1>2, <1>3, <1>4, <1>5, <1>6, <1>7, <1>8 DEF Enrols

LEMMA TypeSignsIn ==
  ASSUME EnrolmentTypeOK, NEW r \in FactorRequests, SignsIn(r) PROVE EnrolmentTypeOK'
<1> USE DEF Goes, GoesWith, At, Phases, Request
<1>1. CASE ReadsUser(r)
  BY <1>1 DEF ReadsUser, EnrolmentTypeOK, replayVars, secretVars
<1>2. CASE BringsCode(r)
  BY <1>2 DEF BringsCode, EnrolmentTypeOK, replayVars, secretVars
<1>3. CASE BringsTemporaryToken(r)
  BY <1>3 DEF BringsTemporaryToken, EnrolmentTypeOK, replayVars, secretVars
<1>4. CASE Grants(r)
  BY <1>4 DEF Grants, EnrolmentTypeOK, replayVars, secretVars
<1>5. CASE StartsToVerify(r)
  BY <1>5 DEF StartsToVerify, EnrolmentTypeOK, replayVars, secretVars
<1>6. CASE LooksUp(r)
  BY <1>6 DEF LooksUp, EnrolmentTypeOK, replayVars, secretVars, Rows
<1>7. CASE Matches(r)
  <2>1. PICK counter \in CodeWindow :
          /\ last' = counter
          /\ twice' = (twice \/ <<req[r].secret, counter>> \in spent)
          /\ spent' = spent \cup {<<req[r].secret, counter>>}
    BY <1>7 DEF Matches
  <2>2. counter \in Nat
    BY <2>1, WindowIsNat
  <2>3. req[r].secret \in Nat
    BY DEF EnrolmentTypeOK, Request
  <2>4. QED
    BY <1>7, <2>1, <2>2, <2>3 DEF Matches, EnrolmentTypeOK, secretVars
<1>8. CASE Mismatches(r)
  BY <1>8 DEF Mismatches, EnrolmentTypeOK, replayVars, secretVars
<1>9. CASE Settles(r)
  BY <1>9 DEF Settles, EnrolmentTypeOK, replayVars, secretVars, Rows, Request
<1>10. QED
  BY <1>1, <1>2, <1>3, <1>4, <1>5, <1>6, <1>7, <1>8, <1>9 DEF SignsIn

LEMMA TypeNext == EnrolmentTypeOK /\ [EnrolmentNext]_enrolmentVars => EnrolmentTypeOK'
<1> SUFFICES ASSUME EnrolmentTypeOK, [EnrolmentNext]_enrolmentVars PROVE EnrolmentTypeOK'
  OBVIOUS
<1>1. ASSUME NEW r \in FactorRequests, NEW what \in FactorKinds \ {"none"}, Begin(r, what)
      PROVE  EnrolmentTypeOK'
  <2>1. [kind |-> what, phase |-> "reading", secret |-> NoSecret, plain |-> FALSE] \in Request
    BY DEF Request, Phases, NoSecret
  <2>2. req' \in [FactorRequests -> Request]
    BY <1>1, <2>1 DEF Begin, EnrolmentTypeOK
  <2>3. QED
    BY <1>1, <2>2 DEF Begin, EnrolmentTypeOK, replayVars, secretVars
<1>2. ASSUME NEW r \in FactorRequests, Enrols(r) PROVE EnrolmentTypeOK'
  BY <1>2, TypeEnrols
<1>3. ASSUME NEW r \in FactorRequests, SignsIn(r) PROVE EnrolmentTypeOK'
  BY <1>3, TypeSignsIn
<1>4. ASSUME NEW r \in FactorRequests, Fails(r) PROVE EnrolmentTypeOK'
  BY <1>4 DEF Goes, Request, Fails, EnrolmentTypeOK, replayVars, secretVars, Phases
<1>5. CASE AdminDisables
  BY <1>5 DEF AdminDisables, WithoutFactor, EnrolmentTypeOK, replayVars, secretVars, Rows, NoSecret
<1>6. CASE Restarts
  BY <1>6 DEF Restarts, EnrolmentTypeOK, secretVars, Request, Phases, NoCounter
<1>7. CASE TimePasses
  BY <1>7 DEF TimePasses, EnrolmentTypeOK, replayVars, secretVars
<1>8. CASE UNCHANGED enrolmentVars
  BY <1>8 DEF enrolmentVars, EnrolmentTypeOK, replayVars, secretVars
<1>9. QED
  BY <1>1, <1>2, <1>3, <1>4, <1>5, <1>6, <1>7, <1>8 DEF EnrolmentNext

\* Every variable keeps its type: the row, the requests and the histories.
THEOREM EnrolmentTypeCorrect == EnrolmentSpec => []EnrolmentTypeOK
BY EnrolmentTypeInit, TypeNext, PTL DEF EnrolmentSpec

-----------------------------------------------------------------------------
(***************************************************************************)
(* The secret of the factor was shown: what an enabling is about to write  *)
(* has been matched by a code, which only a secret that was shown makes;   *)
(* and what verifyOtp may write back was in the row.                       *)
(***************************************************************************)
Matched(r) ==
  \/ req[r].kind = "enable" /\ At(r, "writing")
  \/ req[r].phase = "settling"

SecretsShown ==
  /\ (row.enabled \/ row.secret # NoSecret) => row.secret \in shown
  /\ \A r \in FactorRequests :
       Matched(r) => req[r].secret \in shown

LEMMA ShownInit == EnrolmentInit => SecretsShown
BY DEF EnrolmentInit, SecretsShown, Matched, NoFactor, NoSecret, At

LEMMA ShownEnrols ==
  ASSUME EnrolmentTypeOK, SecretsShown, NEW r \in FactorRequests, Enrols(r) PROVE SecretsShown'
<1> USE DEF SecretsShown, Matched, Goes, GoesWith, At, NoSecret, EnrolmentTypeOK, Rows, Request
<1>1. CASE Generates(r)
  BY <1>1 DEF Generates, EnrolmentTypeOK
<1>2. CASE Generated(r)
  BY <1>2 DEF Generated, EnrolmentTypeOK, secretVars, Rows
<1>3. CASE Shows(r)
  BY <1>3 DEF Shows
<1>4. CASE ReadsPending(r)
  BY <1>4 DEF ReadsPending, EnrolmentTypeOK, secretVars, Rows
<1>5. CASE PendingMatches(r)
  BY <1>5 DEF PendingMatches, secretVars
<1>6. CASE PendingMismatch(r)
  BY <1>6 DEF PendingMismatch, secretVars
<1>7. CASE Enables(r)
  BY <1>7 DEF Enables, secretVars, EnrolmentTypeOK, Request
<1>8. CASE Disables(r)
  BY <1>8 DEF Disables, WithoutFactor, secretVars, EnrolmentTypeOK, Rows
<1>9. QED
  BY <1>1, <1>2, <1>3, <1>4, <1>5, <1>6, <1>7, <1>8 DEF Enrols

LEMMA ShownSignsIn ==
  ASSUME EnrolmentTypeOK, SecretsShown, NEW r \in FactorRequests, SignsIn(r) PROVE SecretsShown'
<1> USE DEF SecretsShown, Matched, Goes, GoesWith, At, NoSecret, EnrolmentTypeOK, Rows, Request
<1>1. CASE ReadsUser(r)
  BY <1>1 DEF ReadsUser, secretVars
<1>2. CASE BringsCode(r)
  BY <1>2 DEF BringsCode, secretVars
<1>3. CASE BringsTemporaryToken(r)
  BY <1>3 DEF BringsTemporaryToken, secretVars
<1>4. CASE Grants(r)
  BY <1>4 DEF Grants, secretVars
<1>5. CASE StartsToVerify(r)
  BY <1>5 DEF StartsToVerify, secretVars
<1>6. CASE LooksUp(r)
  BY <1>6 DEF LooksUp, secretVars, EnrolmentTypeOK, Rows
<1>7. CASE Matches(r)
  BY <1>7 DEF Matches, secretVars
<1>8. CASE Mismatches(r)
  BY <1>8 DEF Mismatches, secretVars
<1>9. CASE Settles(r)
  <2>1. req[r].secret \in shown /\ shown' = shown
    BY <1>9 DEF Settles, secretVars
  <2>2. row'.enabled = row.enabled /\ row'.secret \in {row.secret, req[r].secret}
    BY <1>9 DEF Settles, EnrolmentTypeOK, Rows
  <2>3. (row'.enabled \/ row'.secret # NoSecret) => row'.secret \in shown'
    BY <2>1, <2>2
  <2>4. /\ \A s \in FactorRequests \ {r} : req'[s] = req[s]
        /\ req'[r].phase \in {"writing", "granting"}
        /\ req'[r].kind = req[r].kind
        /\ req'[r].phase = "writing" => req[r].kind = "disable"
    BY <1>9 DEF Settles, EnrolmentTypeOK, Request
  <2>5. QED
    BY <2>1, <2>3, <2>4
<1>10. QED
  BY <1>1, <1>2, <1>3, <1>4, <1>5, <1>6, <1>7, <1>8, <1>9 DEF SignsIn

LEMMA ShownNext == EnrolmentTypeOK /\ SecretsShown /\ [EnrolmentNext]_enrolmentVars => SecretsShown'
<1> SUFFICES ASSUME EnrolmentTypeOK, SecretsShown, [EnrolmentNext]_enrolmentVars PROVE SecretsShown'
  OBVIOUS
<1> USE DEF SecretsShown, Matched, At, NoSecret
<1>1. ASSUME NEW r \in FactorRequests, NEW what \in FactorKinds \ {"none"}, Begin(r, what)
      PROVE  SecretsShown'
  BY <1>1 DEF Begin, EnrolmentTypeOK, secretVars, Request
<1>2. ASSUME NEW r \in FactorRequests, Enrols(r) PROVE SecretsShown'
  BY <1>2, ShownEnrols
<1>3. ASSUME NEW r \in FactorRequests, SignsIn(r) PROVE SecretsShown'
  BY <1>3, ShownSignsIn
<1>4. ASSUME NEW r \in FactorRequests, Fails(r) PROVE SecretsShown'
  BY <1>4 DEF Goes, Request, Fails, secretVars, Phases
<1>5. CASE AdminDisables
  BY <1>5 DEF AdminDisables, WithoutFactor, EnrolmentTypeOK, secretVars, Rows
<1>6. CASE Restarts
  BY <1>6 DEF Restarts, EnrolmentTypeOK, secretVars, Request
<1>7. CASE TimePasses
  BY <1>7 DEF TimePasses, secretVars
<1>8. CASE UNCHANGED enrolmentVars
  BY <1>8 DEF enrolmentVars, secretVars
<1>9. QED
  BY <1>1, <1>2, <1>3, <1>4, <1>5, <1>6, <1>7, <1>8 DEF EnrolmentNext

\* Whatever overlaps, the factor that is on has a secret the browser was
\* shown: enableOtp writes what it has checked.
THEOREM HolderHasSecretAlways == EnrolmentSpec => []HolderHasSecret
<1>1. EnrolmentTypeOK /\ SecretsShown => HolderHasSecret
  BY DEF SecretsShown, HolderHasSecret
<1>2. QED
  BY <1>1, EnrolmentTypeInit, TypeNext, ShownInit, ShownNext, PTL DEF EnrolmentSpec

-----------------------------------------------------------------------------
(***************************************************************************)
(* While the factor is off, every request under way is in lapsed; and what *)
(* is about to be granted brought a code or is in lapsed.                  *)
(***************************************************************************)
Granting(r) ==
  req[r].kind \in SignIns /\ req[r].phase \in {"settling", "granting", "granted"}

FactorKept ==
  /\ ~row.enabled => \A r \in FactorRequests : req[r].phase # "idle" => r \in lapsed
  /\ \A r \in FactorRequests : Granting(r) => r \in coded \cup lapsed

LEMMA KeptInit == EnrolmentInit => FactorKept
BY DEF EnrolmentInit, FactorKept, Granting, NoFactor

LEMMA KeptEnrols ==
  ASSUME EnrolmentTypeOK, FactorKept, NEW r \in FactorRequests, Enrols(r) PROVE FactorKept'
<1> USE DEF FactorKept, Granting, Goes, GoesWith, At, EnrolmentTypeOK, Rows, Request, SignIns
<1>1. CASE Generates(r)
  BY <1>1 DEF Generates
<1>2. CASE Generated(r)
  BY <1>2 DEF Generated
<1>3. CASE Shows(r)
  BY <1>3 DEF Shows
<1>4. CASE ReadsPending(r)
  BY <1>4 DEF ReadsPending
<1>5. CASE PendingMatches(r)
  BY <1>5 DEF PendingMatches
<1>6. CASE PendingMismatch(r)
  BY <1>6 DEF PendingMismatch
<1>7. CASE Enables(r)
  BY <1>7 DEF Enables
<1>8. CASE Disables(r)
  BY <1>8 DEF Disables, WithoutFactor
<1>9. QED
  BY <1>1, <1>2, <1>3, <1>4, <1>5, <1>6, <1>7, <1>8 DEF Enrols

LEMMA KeptSignsIn ==
  ASSUME EnrolmentTypeOK, FactorKept, NEW r \in FactorRequests, SignsIn(r) PROVE FactorKept'
<1> USE DEF FactorKept, Granting, Goes, GoesWith, At, EnrolmentTypeOK, Rows, Request, SignIns
<1>1. CASE ReadsUser(r)
  BY <1>1 DEF ReadsUser
<1>2. CASE BringsCode(r)
  BY <1>2 DEF BringsCode
<1>3. CASE BringsTemporaryToken(r)
  <2>1. ~GuardTakesTemporary
    BY DEF GuardTakesTemporary
  <2>2. Goes(r, "refused") /\ row' = row /\ coded' = coded /\ lapsed' = lapsed
    BY <1>3, <2>1 DEF BringsTemporaryToken
  <2>3. ASSUME NEW s \in FactorRequests
        PROVE  /\ req'[s].phase # "idle" => req[s].phase # "idle"
               /\ Granting(s)' => Granting(s)
    BY <1>3, <2>2 DEF BringsTemporaryToken
  <2>4. QED
    BY <2>2, <2>3
<1>4. CASE Grants(r)
  BY <1>4 DEF Grants
<1>5. CASE StartsToVerify(r)
  BY <1>5 DEF StartsToVerify
<1>6. CASE LooksUp(r)
  BY <1>6 DEF LooksUp
<1>7. CASE Matches(r)
  BY <1>7 DEF Matches
<1>8. CASE Mismatches(r)
  BY <1>8 DEF Mismatches
<1>9. CASE Settles(r)
  BY <1>9 DEF Settles
<1>10. QED
  BY <1>1, <1>2, <1>3, <1>4, <1>5, <1>6, <1>7, <1>8, <1>9 DEF SignsIn

LEMMA KeptNext == EnrolmentTypeOK /\ FactorKept /\ [EnrolmentNext]_enrolmentVars => FactorKept'
<1> SUFFICES ASSUME EnrolmentTypeOK, FactorKept, [EnrolmentNext]_enrolmentVars PROVE FactorKept'
  OBVIOUS
<1> USE DEF FactorKept, Granting, Goes, At, EnrolmentTypeOK, Rows, Request, SignIns
<1>1. ASSUME NEW r \in FactorRequests, NEW what \in FactorKinds \ {"none"}, Begin(r, what)
      PROVE  FactorKept'
  BY <1>1 DEF Begin
<1>2. ASSUME NEW r \in FactorRequests, Enrols(r) PROVE FactorKept'
  BY <1>2, KeptEnrols
<1>3. ASSUME NEW r \in FactorRequests, SignsIn(r) PROVE FactorKept'
  BY <1>3, KeptSignsIn
<1>4. ASSUME NEW r \in FactorRequests, Fails(r) PROVE FactorKept'
  BY <1>4 DEF Fails, AtRest
<1>5. CASE AdminDisables
  BY <1>5 DEF AdminDisables, WithoutFactor
<1>6. CASE Restarts
  BY <1>6 DEF Restarts, AtRest
<1>7. CASE TimePasses
  BY <1>7 DEF TimePasses
<1>8. CASE UNCHANGED enrolmentVars
  BY <1>8 DEF enrolmentVars
<1>9. QED
  BY <1>1, <1>2, <1>3, <1>4, <1>5, <1>6, <1>7, <1>8 DEF EnrolmentNext

\* No sign-in or step-up succeeds without a code of the factor, unless the
\* factor was off at some time while it was under way (login, login-otp, sudo).
THEOREM FactorHoldsAlways == EnrolmentSpec => []FactorHolds
<1>1. FactorKept => FactorHolds
  BY DEF FactorKept, Granting, FactorHolds, At
<1>2. QED
  BY <1>1, EnrolmentTypeInit, TypeNext, KeptInit, KeptNext, PTL DEF EnrolmentSpec

-----------------------------------------------------------------------------
(***************************************************************************)
(* Unless an enrolment has put it back, the remembered counter is at least *)
(* that of every code accepted.                                            *)
(***************************************************************************)
CounterCovers ==
  /\ twice => lowered
  /\ ~lowered => \A proven \in spent : proven[2] <= last

LEMMA CoversNext == EnrolmentTypeOK /\ CounterCovers /\ [EnrolmentNext]_enrolmentVars => CounterCovers'
<1> SUFFICES ASSUME EnrolmentTypeOK, CounterCovers, [EnrolmentNext]_enrolmentVars PROVE CounterCovers'
  OBVIOUS
<1>1. CASE UNCHANGED replayVars
  BY <1>1 DEF CounterCovers, replayVars
<1>2. ASSUME NEW r \in FactorRequests, PendingMatches(r) PROVE CounterCovers'
  <2>1. PICK counter \in CodeWindow :
          /\ last' = counter
          /\ lowered' = (lowered \/ counter < last)
          /\ spent' = spent \cup {<<req[r].secret, counter>>}
    BY <1>2 DEF PendingMatches
  <2>2. counter \in Nat /\ last \in Nat /\ \A proven \in spent : proven[2] \in Nat
    BY <2>1, WindowIsNat DEF EnrolmentTypeOK
  <2>3. twice' = twice
    BY <1>2 DEF PendingMatches
  <2>4. twice' => lowered'
    BY <2>1, <2>3 DEF CounterCovers
  <2>5. ASSUME ~lowered', NEW proven \in spent' PROVE proven[2] <= last'
    <3>1. ~lowered /\ last <= counter
      <4>1. ~(lowered \/ counter < last)
        BY <2>1, <2>5, Zenon
      <4>2. QED
        BY <4>1, <2>2
    <3>2. CASE proven \in spent
      BY <3>1, <3>2, <2>1, <2>2 DEF CounterCovers
    <3>3. CASE proven = <<req[r].secret, counter>>
      BY <3>3, <2>1, <2>2
    <3>4. QED
      BY <2>1, <2>5, <3>2, <3>3
  <2>6. QED
    BY <2>4, <2>5 DEF CounterCovers
<1>3. ASSUME NEW r \in FactorRequests, Matches(r) PROVE CounterCovers'
  <2>1. PICK counter \in CodeWindow :
          /\ counter > last
          /\ last' = counter
          /\ twice' = (twice \/ <<req[r].secret, counter>> \in spent)
          /\ spent' = spent \cup {<<req[r].secret, counter>>}
    BY <1>3 DEF Matches
  <2>2. counter \in Nat /\ last \in Nat /\ \A proven \in spent : proven[2] \in Nat
    BY <2>1, WindowIsNat DEF EnrolmentTypeOK
  <2>3. lowered' = lowered
    BY <1>3 DEF Matches
  <2>4. twice' => lowered'
    <3>1. SUFFICES ASSUME ~lowered PROVE <<req[r].secret, counter>> \notin spent
      BY <2>1, <2>3 DEF CounterCovers
    <3>2. SUFFICES ASSUME <<req[r].secret, counter>> \in spent PROVE FALSE
      OBVIOUS
    <3>3. <<req[r].secret, counter>>[2] <= last
      BY <3>1, <3>2 DEF CounterCovers
    <3>4. QED
      BY <3>3, <2>1, <2>2
  <2>5. ASSUME ~lowered', NEW proven \in spent' PROVE proven[2] <= last'
    <3>1. CASE proven \in spent
      BY <3>1, <2>1, <2>2, <2>3, <2>5 DEF CounterCovers
    <3>2. CASE proven = <<req[r].secret, counter>>
      BY <3>2, <2>1, <2>2
    <3>3. QED
      BY <2>1, <2>5, <3>1, <3>2
  <2>6. QED
    BY <2>4, <2>5 DEF CounterCovers
<1>4. CASE Restarts
  BY <1>4 DEF Restarts, CounterCovers
<1>5. ASSUME NEW r \in FactorRequests, Enrols(r) PROVE UNCHANGED replayVars \/ PendingMatches(r)
  BY <1>5 DEF Enrols, Generates, Generated, Shows, ReadsPending, PendingMismatch,
              Enables, Disables
<1>6. ASSUME NEW r \in FactorRequests, SignsIn(r) PROVE UNCHANGED replayVars \/ Matches(r)
  BY <1>6 DEF SignsIn, ReadsUser, BringsCode, BringsTemporaryToken, Grants,
              StartsToVerify, LooksUp, Mismatches, Settles
<1>7. QED
  BY <1>1, <1>2, <1>3, <1>4, <1>5, <1>6
     DEF EnrolmentNext, Begin, Fails, AdminDisables, TimePasses, enrolmentVars, replayVars

\* A code that enableOtp or verifyOtp has accepted proves nothing again before
\* a restart, unless an enrolment has put otpLastCounter back.
THEOREM CodesOnceAlways == EnrolmentSpec => []CodesOnce
<1>1. EnrolmentInit => CounterCovers
  BY DEF EnrolmentInit, CounterCovers
<1>2. CounterCovers => CodesOnce
  BY DEF CounterCovers, CodesOnce
<1>3. QED
  BY <1>1, <1>2, EnrolmentTypeInit, TypeNext, CoversNext, PTL DEF EnrolmentSpec

-----------------------------------------------------------------------------
(* Proofs about TokenLifecycle, for any number of requests and revocations. *)

USE DEF dbVars, clockVars, lineage, Goto

\* What requests that have not been answered do not have yet.
Unstarted == \A r \in Requests :
    pc[r] = "idle" => refresh[r] = "none" /\ jwt[r] = NoVersion /\ root[r] = r
TokenLess == \A r \in Requests :
    pc[r] \in {"idle", "rotate", "reuse", "create", "blacklist", "user", "admitted",
               "issue"} => refresh[r] = "none"

\* Where lines of tokens start.
OwnRoot == \A r \in Requests :
    pc[r] \in {"idle", "blacklist", "user", "admitted", "issue"} => root[r] = r
RootDone == \A r \in Requests : root[r] # r => pc[root[r]] = "done"
RotatesLine == \A r \in Requests : pc[r] = "rotate" => root[r] = root[used[r]]

HolderInv ==
    /\ TokenTypeOK /\ OneHolder
    /\ Unstarted /\ TokenLess /\ OwnRoot /\ RootDone /\ RotatesLine

LEMMA TypeStep ==
    ASSUME TokenTypeOK, [TokenNext]_tokenVars
    PROVE  TokenTypeOK'
<1> USE DEF Versions, Kinds, Ended, Steps
<1>1. ASSUME NEW r \in Requests, Step(r) PROVE TokenTypeOK'
    <2>1. CASE Login(r)
        BY <2>1 DEF TokenTypeOK, Login
    <2>2. CASE Issue(r)
        BY <2>2 DEF TokenTypeOK, Issue
    <2>3. CASE Respond(r)
        BY <2>3 DEF TokenTypeOK, Respond
    <2>4. CASE Rotate(r)
        BY <2>4 DEF TokenTypeOK, Rotate
    <2>5. CASE KillFamily(r)
        BY <2>5, MaxVersionAssumption
        DEF TokenTypeOK, KillFamily, RevokeEverything, RevokeLive
    <2>6. CASE CreateSuccessor(r)
        BY <2>6 DEF TokenTypeOK, CreateSuccessor
    <2>7. CASE SignAccess(r)
        BY <2>7 DEF TokenTypeOK, SignAccess
    <2>8. CASE LookUp(r)
        BY <2>8 DEF TokenTypeOK, LookUp
    <2>9. CASE CheckVersion(r)
        BY <2>9 DEF TokenTypeOK, CheckVersion
    <2>10. CASE StepUp(r)
        BY <2>10 DEF TokenTypeOK, StepUp
    <2>11. CASE Blacklist(r)
        BY <2>11 DEF TokenTypeOK, Blacklist
    <2>12. CASE RevokeRefresh(r)
        BY <2>12 DEF TokenTypeOK, RevokeRefresh, RevokeLive
    <2>13. CASE Fail(r)
        BY <2>13 DEF TokenTypeOK, Fail
    <2>14. CASE JwtExpires(r) \/ RefreshExpires(r)
        BY <2>14 DEF TokenTypeOK, JwtExpires, RefreshExpires
    <2> QED
        BY <1>1, <2>1, <2>2, <2>3, <2>4, <2>5, <2>6, <2>7, <2>8, <2>9, <2>10, <2>11,
           <2>12, <2>13, <2>14 DEF Step
<1>2. ASSUME NEW r \in Requests, NEW g \in Requests, Present(r, g) PROVE TokenTypeOK'
    <2>1. CASE PresentRefresh(r, g)
        BY <2>1 DEF TokenTypeOK, PresentRefresh, Inherit
    <2>2. ASSUME NEW k \in {"stepup", "logout", "call", "connect"}, PresentJwt(r, g, k)
          PROVE  TokenTypeOK'
        BY <2>2 DEF TokenTypeOK, PresentJwt, Inherit
    <2> QED
        BY <1>2, <2>1, <2>2 DEF Present
<1>3. CASE RevokeAllTokens
    BY <1>3, MaxVersionAssumption DEF TokenTypeOK, RevokeAllTokens, RevokeEverything, RevokeLive
<1>4. CASE CleanBlacklist
    BY <1>4 DEF TokenTypeOK, CleanBlacklist
<1>5. CASE UNCHANGED tokenVars
    BY <1>5 DEF TokenTypeOK, tokenVars
<1> QED
    BY <1>1, <1>2, <1>3, <1>4, <1>5 DEF TokenNext

LEMMA TokenTypeInit == TokenInit => TokenTypeOK
BY MaxVersionAssumption DEF TokenInit, TokenTypeOK, Versions, Kinds, Ended, Steps, NoVersion

\* Every state is well typed.
THEOREM TokenTypeCorrect == TokenSpec => []TokenTypeOK
BY TokenTypeInit, TypeStep, PTL DEF TokenSpec

-----------------------------------------------------------------------------
LEMMA HolderInit == TokenInit => HolderInv
BY TokenTypeInit
DEF TokenInit, HolderInv, OneHolder, Holds, Unstarted, TokenLess, OwnRoot, RootDone, RotatesLine

LEMMA HolderStep ==
    ASSUME HolderInv, [TokenNext]_tokenVars
    PROVE  HolderInv'
<1> USE DEF HolderInv
<1> DEFINE Parts == /\ OneHolder /\ Unstarted /\ TokenLess /\ OwnRoot /\ RootDone
                    /\ RotatesLine
<1>t. TokenTypeOK'
    BY TypeStep
<1> SUFFICES Parts'
    BY <1>t
<1>1. ASSUME NEW r \in Requests, Step(r) PROVE Parts'
    <2> USE DEF OneHolder, Holds, Unstarted, TokenLess, OwnRoot, RootDone, RotatesLine, TokenTypeOK
    <2>1. CASE Login(r)
        BY <2>1 DEF Login
    <2>2. CASE Issue(r)
        <3>1. \A s \in Requests : s # r => root[s] # r
            BY <2>2 DEF Issue
        <3> QED
            BY <2>2, <3>1 DEF Issue
    <2>3. CASE Respond(r)
        BY <2>3 DEF Respond
    <2>4. CASE Rotate(r)
        <3>1. /\ pc[r] = "rotate" /\ used[r] \in Requests /\ root[r] = root[used[r]]
              /\ \A s \in Requests : s # r => pc'[s] = pc[s]
              /\ UNCHANGED <<jwt, root, used>>
            BY <2>4 DEF Rotate
        <3>2. CASE refresh[used[r]] = "live" /\ used[r] \notin oldRefresh
            <4>1. /\ pc'[r] = "create"
                  /\ \A s \in Requests :
                        refresh'[s] = IF s = used[r] THEN "revoked" ELSE refresh[s]
                BY <2>4, <3>2 DEF Rotate
            <4>2. \A s \in Requests : Holds(s) /\ root[s] = root[r] => s = used[r]
                BY <3>1, <3>2
            <4>3. OneHolder'
                <5>1. pc[used[r]] # "create" /\ used[r] # r
                    BY <3>1, <3>2
                <5>2. \A s \in Requests : Holds(s)' => s = r \/ (Holds(s) /\ s # used[r])
                    BY <3>1, <4>1, <5>1
                <5>3. ASSUME NEW s \in Requests, NEW t \in Requests,
                             Holds(s)', Holds(t)', root[s] = root[t]
                      PROVE  s = t
                    <6> HIDE DEF Holds
                    <6> QED
                        BY <4>2, <5>2, <5>3
                <5> QED
                    BY <3>1, <5>3
            <4>4. OwnRoot' /\ RotatesLine'
                BY <3>1, <4>1
            <4>5. RootDone'
                BY <3>1, <4>1
            <4>6. Unstarted' /\ TokenLess'
                BY <3>1, <3>2, <4>1
            <4> QED
                BY <4>3, <4>4, <4>5, <4>6
        <3>3. CASE ~(refresh[used[r]] = "live" /\ used[r] \notin oldRefresh)
            <4>1. pc'[r] = "reuse" /\ refresh' = refresh
                BY <2>4, <3>3 DEF Rotate
            <4> QED
                BY <3>1, <4>1
        <3> QED
            BY <3>2, <3>3
    <2>5. CASE KillFamily(r)
        BY <2>5 DEF KillFamily, RevokeEverything, RevokeLive
    <2>6. CASE CreateSuccessor(r)
        BY <2>6 DEF CreateSuccessor
    <2>7. CASE SignAccess(r)
        BY <2>7 DEF SignAccess
    <2>8. CASE LookUp(r)
        BY <2>8 DEF LookUp
    <2>9. CASE CheckVersion(r)
        BY <2>9 DEF CheckVersion
    <2>10. CASE StepUp(r)
        <3>1. /\ pc[r] = "admitted" /\ pc'[r] = "issue" /\ refresh[r] = "none"
              /\ \A s \in Requests : s # r => pc'[s] = pc[s]
              /\ UNCHANGED <<refresh, jwt, root, used>>
            BY <2>10 DEF StepUp
        <3> QED
            BY <3>1
    <2>11. CASE Blacklist(r)
        BY <2>11 DEF Blacklist
    <2>12. CASE RevokeRefresh(r)
        BY <2>12 DEF RevokeRefresh, RevokeLive
    <2>13. CASE Fail(r)
        BY <2>13 DEF Fail, UnderWay, Ended
    <2>14. CASE JwtExpires(r) \/ RefreshExpires(r)
        BY <2>14 DEF JwtExpires, RefreshExpires
    <2> QED
        BY <1>1, <2>1, <2>2, <2>3, <2>4, <2>5, <2>6, <2>7, <2>8, <2>9, <2>10, <2>11,
           <2>12, <2>13, <2>14 DEF Step
<1>2. ASSUME NEW r \in Requests, NEW g \in Requests, Present(r, g) PROVE Parts'
    <2> USE DEF OneHolder, Holds, Unstarted, TokenLess, OwnRoot, RootDone, RotatesLine, TokenTypeOK
    <2>1. CASE PresentRefresh(r, g)
        BY <2>1 DEF PresentRefresh, Inherit, Delivered
    <2>2. ASSUME NEW k \in {"stepup", "logout", "call", "connect"}, PresentJwt(r, g, k)
          PROVE  Parts'
        BY <2>2 DEF PresentJwt, Inherit, Delivered
    <2> QED
        BY <1>2, <2>1, <2>2 DEF Present
<1>3. CASE RevokeAllTokens
    BY <1>3 DEF RevokeAllTokens, RevokeEverything, RevokeLive, OneHolder, Holds, Unstarted,
                TokenLess, OwnRoot, RootDone, RotatesLine, TokenTypeOK
<1>4. CASE CleanBlacklist \/ UNCHANGED tokenVars
    BY <1>4 DEF CleanBlacklist, tokenVars, OneHolder, Holds, Unstarted, TokenLess, OwnRoot,
                RootDone, RotatesLine
<1> QED
    BY <1>1, <1>2, <1>3, <1>4 DEF TokenNext

\* However many requests present the same refresh token, at once or one after the
\* other, its line has at most one token, or one exchange under way, that counts.
THEOREM OneHolderAlways == TokenSpec => []OneHolder
<1>1. HolderInv => OneHolder
    BY DEF HolderInv
<1> QED
    BY HolderInit, HolderStep, <1>1, PTL DEF TokenSpec

-----------------------------------------------------------------------------
\* No version runs ahead of the account's.
VersionsBelow == \A r \in Requests : seen[r] <= version /\ jwt[r] <= version

\* A request that no revocation has met still acts for the present version.
Current == \A r \in Requests : r \notin raced =>
    /\ pc[r] \in {"issue", "create", "sign", "admitted"} => birth[r] = version
    /\ pc[r] = "issue" => seen[r] = version

\* A request that presents a token is as old as that token.
AsOldAsUsed == \A r \in Requests :
    pc[r] \in {"rotate", "blacklist", "user"} =>
        /\ pc[used[r]] = "done" /\ birth[r] = birth[used[r]]
        /\ r \notin raced => used[r] \notin raced

IdleHasNone == \A r \in Requests :
    pc[r] = "idle" => refresh[r] = "none" /\ jwt[r] = NoVersion

RevocationInv ==
    /\ TokenTypeOK /\ RevocationHolds /\ IdleHasNone
    /\ VersionsBelow /\ Current /\ AsOldAsUsed

LEMMA RevocationInit == TokenInit => RevocationInv
BY TokenTypeInit
DEF TokenInit, RevocationInv, RevocationHolds, IdleHasNone, Works, VersionsBelow, Current, AsOldAsUsed,
    NoVersion

\* A revocation: whatever worked before it works no more, and what is under way
\* is marked.
OnlyRefuses ==
    \A r \in Requests : pc'[r] = pc[r] \/ (UnderWay(r) /\ pc'[r] = "refused")

LEMMA RevokeStep ==
    ASSUME RevocationInv, RevokeEverything, OnlyRefuses, UNCHANGED <<used, seen, jwt, birth>>
    PROVE  RevocationHolds' /\ IdleHasNone' /\ VersionsBelow' /\ Current' /\ AsOldAsUsed'
<1> USE DEF RevocationInv, RevokeEverything, OnlyRefuses
<1>1. /\ version \in Int /\ version' = version + 1
      /\ \A r \in Requests : seen[r] \in Int /\ jwt[r] \in Int
    BY MaxVersionAssumption DEF TokenTypeOK, Versions, NoVersion
<1>2. \A r \in Requests : /\ refresh'[r] # "live"
                          /\ refresh[r] = "none" => refresh'[r] = "none"
    BY DEF RevokeLive, TokenTypeOK
<1>3. \A r \in Requests : jwt'[r] # version' /\ seen'[r] <= version' /\ jwt'[r] <= version'
    BY <1>1 DEF VersionsBelow
<1>4. RevocationHolds' /\ VersionsBelow'
    BY <1>2, <1>3 DEF RevocationHolds, Works, VersionsBelow
<1>5. IdleHasNone'
    BY <1>2 DEF IdleHasNone, UnderWay, Ended
<1>6. Current'
    BY DEF Current, UnderWay, Ended
<1>7. AsOldAsUsed'
    BY DEF AsOldAsUsed, UnderWay, Ended, TokenTypeOK
<1> QED
    BY <1>4, <1>5, <1>6, <1>7

LEMMA RevocationStep ==
    ASSUME RevocationInv, [TokenNext]_tokenVars
    PROVE  RevocationInv'
<1> DEFINE Parts == /\ RevocationHolds /\ IdleHasNone /\ VersionsBelow
                    /\ Current /\ AsOldAsUsed
<1> USE DEF RevocationInv
<1>t. TokenTypeOK'
    BY TypeStep
<1>v. /\ version \in Int /\ version >= 0 /\ NoVersion \in Int /\ NoVersion < 0
      /\ \A r \in Requests : seen[r] \in Int /\ jwt[r] \in Int
    BY MaxVersionAssumption DEF TokenTypeOK, Versions, NoVersion
<1> SUFFICES Parts'
    BY <1>t
<1>1. ASSUME NEW r \in Requests, Step(r) PROVE Parts'
    <2> USE <1>v DEF RevocationHolds, IdleHasNone, Works, VersionsBelow, Current, AsOldAsUsed, TokenTypeOK
    <2>1. CASE Login(r)
        BY <2>1 DEF Login
    <2>2. CASE Issue(r)
        BY <2>2 DEF Issue
    <2>3. CASE Respond(r)
        BY <2>3 DEF Respond
    <2>4. CASE Rotate(r)
        <3>1. /\ pc[r] = "rotate" /\ used[r] \in Requests
              /\ \A s \in Requests : s # r => pc'[s] = pc[s]
              /\ \/ pc'[r] = "reuse"
                 \/ pc'[r] = "create" /\ refresh[used[r]] = "live"
              /\ \A s \in Requests : refresh'[s] = "live" => refresh[s] = "live"
              /\ \A s \in Requests : refresh[s] = "none" => refresh'[s] = "none"
              /\ UNCHANGED <<version, used, seen, jwt, birth, raced>>
            BY <2>4 DEF Rotate
        <3>2. RevocationHolds' /\ IdleHasNone' /\ VersionsBelow'
            BY <3>1
        <3>3. Current'
            BY <3>1
        <3>4. AsOldAsUsed'
            BY <3>1
        <3> QED
            BY <3>2, <3>3, <3>4
    <2>5. CASE KillFamily(r)
        <3>1. OnlyRefuses
            BY <2>5 DEF KillFamily, OnlyRefuses, UnderWay, Ended
        <3>2. RevokeEverything /\ UNCHANGED <<used, seen, jwt, birth>>
            BY <2>5 DEF KillFamily
        <3> QED
            BY <3>1, <3>2, RevokeStep
    <2>6. CASE CreateSuccessor(r)
        BY <2>6 DEF CreateSuccessor
    <2>7. CASE SignAccess(r)
        BY <2>7 DEF SignAccess
    <2>8. CASE LookUp(r)
        BY <2>8 DEF LookUp
    <2>9. CASE CheckVersion(r)
        BY <2>9 DEF CheckVersion
    <2>10. CASE StepUp(r)
        BY <2>10 DEF StepUp
    <2>11. CASE Blacklist(r)
        BY <2>11 DEF Blacklist
    <2>12. CASE RevokeRefresh(r)
        BY <2>12 DEF RevokeRefresh, RevokeLive
    <2>13. CASE Fail(r)
        BY <2>13 DEF Fail, UnderWay, Ended
    <2>14. CASE JwtExpires(r) \/ RefreshExpires(r)
        BY <2>14 DEF JwtExpires, RefreshExpires
    <2> QED
        BY <1>1, <2>1, <2>2, <2>3, <2>4, <2>5, <2>6, <2>7, <2>8, <2>9, <2>10, <2>11,
           <2>12, <2>13, <2>14 DEF Step
<1>2. ASSUME NEW r \in Requests, NEW g \in Requests, Present(r, g) PROVE Parts'
    <2> USE <1>v DEF RevocationHolds, IdleHasNone, Works, VersionsBelow, Current, AsOldAsUsed, TokenTypeOK
    <2>1. CASE PresentRefresh(r, g)
        BY <2>1 DEF PresentRefresh, Inherit, Delivered
    <2>2. ASSUME NEW k \in {"stepup", "logout", "call", "connect"}, PresentJwt(r, g, k)
          PROVE  Parts'
        BY <2>2 DEF PresentJwt, Inherit, Delivered
    <2> QED
        BY <1>2, <2>1, <2>2 DEF Present
<1>3. CASE RevokeAllTokens
    <2>1. RevokeEverything /\ UNCHANGED <<pc, used, seen, jwt, birth>>
        BY <1>3 DEF RevokeAllTokens
    <2> QED
        BY <2>1, RevokeStep DEF OnlyRefuses
<1>4. CASE CleanBlacklist \/ UNCHANGED tokenVars
    BY <1>4 DEF CleanBlacklist, tokenVars, RevocationHolds, IdleHasNone, Works, VersionsBelow,
                Current, AsOldAsUsed
<1> QED
    BY <1>1, <1>2, <1>3, <1>4 DEF TokenNext

\* After any number of revocations, a refresh token that is live or a JWT of the
\* present version belongs to a session whose identity was proved since the last
\* one, unless it descends from a request that a revocation found under way.
THEOREM RevocationHoldsAlways == TokenSpec => []RevocationHolds
<1>1. RevocationInv => RevocationHolds
    BY DEF RevocationInv
<1> QED
    BY RevocationInit, RevocationStep, <1>1, PTL DEF TokenSpec

-----------------------------------------------------------------------------
\* A JWT leaves the blacklist only once it has expired.
Listed == loggedOut \subseteq blacklist \cup oldJwt

\* Where a request with a JWT that was logged out can be, and when.
LateSteps == \A r \in late :
    /\ used[r] \in loggedOut
    /\ pc[r] \in {"blacklist", "user", "refused", "failed"} \/ Admitted(r)
    /\ pc[r] = "user" \/ Admitted(r) => kind[r] # "connect" /\ used[r] \in oldJwt

LogoutInv == TokenTypeOK /\ Listed /\ LateSteps

LEMMA LogoutInit == TokenInit => LogoutInv
BY TokenTypeInit DEF TokenInit, LogoutInv, Listed, LateSteps

LEMMA LogoutStep ==
    ASSUME LogoutInv, [TokenNext]_tokenVars
    PROVE  LogoutInv'
<1> USE DEF LogoutInv, Listed, LateSteps, Admitted
<1>t. TokenTypeOK'
    BY TypeStep
<1> SUFFICES Listed' /\ LateSteps'
    BY <1>t
<1>1. ASSUME NEW r \in Requests, Step(r) PROVE Listed' /\ LateSteps'
    <2> USE DEF TokenTypeOK
    <2>1. CASE Login(r) \/ Issue(r) \/ Respond(r)
        BY <2>1 DEF Login, Issue, Respond
    <2>2. CASE Rotate(r) \/ CreateSuccessor(r) \/ SignAccess(r)
        BY <2>2 DEF Rotate, CreateSuccessor, SignAccess
    <2>3. CASE KillFamily(r)
        BY <2>3 DEF KillFamily, RevokeEverything
    <2>4. CASE LookUp(r)
        BY <2>4 DEF LookUp, Blacklisted
    <2>5. CASE CheckVersion(r) \/ StepUp(r)
        BY <2>5 DEF CheckVersion, StepUp
    <2>6. CASE Blacklist(r)
        BY <2>6 DEF Blacklist
    <2>7. CASE RevokeRefresh(r) \/ Fail(r)
        BY <2>7 DEF RevokeRefresh, Fail, UnderWay, Ended
    <2>8. CASE JwtExpires(r) \/ RefreshExpires(r)
        BY <2>8 DEF JwtExpires, RefreshExpires
    <2> QED
        BY <1>1, <2>1, <2>2, <2>3, <2>4, <2>5, <2>6, <2>7, <2>8 DEF Step
<1>2. ASSUME NEW r \in Requests, NEW g \in Requests, Present(r, g)
      PROVE  Listed' /\ LateSteps'
    <2>1. CASE PresentRefresh(r, g)
        BY <2>1 DEF PresentRefresh, Inherit, TokenTypeOK
    <2>2. ASSUME NEW k \in {"stepup", "logout", "call", "connect"}, PresentJwt(r, g, k)
          PROVE  Listed' /\ LateSteps'
        BY <2>2 DEF PresentJwt, Inherit, TokenTypeOK
    <2> QED
        BY <1>2, <2>1, <2>2 DEF Present
<1>3. CASE RevokeAllTokens \/ CleanBlacklist \/ UNCHANGED tokenVars
    BY <1>3 DEF RevokeAllTokens, RevokeEverything, CleanBlacklist, tokenVars
<1> QED
    BY <1>1, <1>2, <1>3 DEF TokenNext

\* A JWT that was logged out never gets a request past the guard before it
\* expires, and never opens a terminal.
THEOREM LogoutHoldsAlways == TokenSpec => []LogoutHolds
<1>1. LogoutInv => LogoutHolds
    BY DEF LogoutInv, LateSteps, LogoutHolds
<1> QED
    BY LogoutInit, LogoutStep, <1>1, PTL DEF TokenSpec

=============================================================================
