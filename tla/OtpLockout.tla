----------------------------- MODULE OtpLockout -----------------------------
(***************************************************************************)
(* Verification of a TOTP code for one account: OtpLockoutService          *)
(* (otp-lockout.service.ts), AuthService.verifyOtp (auth.service.ts) and   *)
(* verifyWithCounter (totp.ts).  All state is keyed by the user id, so one *)
(* account is enough.  A request is one call of verifyOtp; its steps are   *)
(* the stretches of code between two awaits.  Time is counted in TOTP      *)
(* steps of 30 s, which is also the base of the backoff.                   *)
(***************************************************************************)
EXTENDS Integers, FiniteSets

CONSTANTS
    Verifications, \* calls of verifyOtp, each made once
    MaxAttempts,   \* OTP_MAX_ATTEMPTS (5)
    BackoffBase,   \* OTP_BACKOFF_BASE_MS, in TOTP steps (1)
    BackoffMax,    \* OTP_BACKOFF_MAX_MS, in TOTP steps (60)
    ReplayTTL,     \* OTP_REPLAY_TTL_MS, in TOTP steps (10)
    Horizon        \* bound on time

ASSUME MaxAttemptsAssumption == MaxAttempts \in Nat
ASSUME BackoffAssumption == BackoffBase \in Nat /\ BackoffMax \in Nat
\* A code stays valid for three steps: the replay entry must outlive them.
ASSUME ReplayTTLAssumption == ReplayTTL \in Nat /\ ReplayTTL >= 3
ASSUME HorizonAssumption == Horizon \in Nat

VARIABLES
    now,          \* the clock
    attempts,     \* otpLockout.attempts in the database; 0: no row
    lockedUntil,  \* otpLockout.lockedUntil in the database; 0: null
    stage,        \* where each request stands
    overflow,     \* attempts past the cap, of a request about to set the lock
    lastCounter,  \* otpLastCounter: last accepted TOTP counter, NoEntry if none
    lastTs,       \* when otpLastCounter was written
    code,         \* history: the counter whose code a request got accepted
    fresh,        \* history: requests accepted since the process started
    generation,   \* history: lockout rows so far
    admittedIn    \* history: row under which a request may verify its code

lockoutVars == <<now, attempts, lockedUntil, stage, overflow, lastCounter, lastTs,
                code, fresh, generation, admittedIn>>

NoEntry == -1

Running == {"gated", "overflow", "lookup", "resetting"}
Finished == {"accepted", "rejected", "refused", "lost"}

LockoutTypeOK ==
    /\ now \in Nat
    /\ attempts \in Nat
    /\ stage \in [Verifications -> {"idle"} \cup Running \cup Finished]
    /\ overflow \in [Verifications -> Nat]
    /\ lastCounter \in Nat \cup {NoEntry}
    /\ lastTs \in Nat
    /\ code \in [Verifications -> Nat]
    /\ fresh \subseteq Verifications
    /\ generation \in Nat \ {0}
    /\ admittedIn \in [Verifications -> Nat]

LockoutInit ==
    /\ now = 1
    /\ attempts = 0
    /\ lockedUntil = 0
    /\ stage = [r \in Verifications |-> "idle"]
    /\ overflow = [r \in Verifications |-> 0]
    /\ lastCounter = NoEntry
    /\ lastTs = 0
    /\ code = [r \in Verifications |-> 0]
    /\ fresh = {}
    /\ generation = 1
    /\ admittedIn = [r \in Verifications |-> 0]

-----------------------------------------------------------------------------
(* consumeAttempt *)

lockoutRow == <<attempts, lockedUntil>>
replay == <<lastCounter, lastTs, code, fresh>>
history == <<generation, admittedIn>>

Locked == attempts >= MaxAttempts /\ lockedUntil > now

\* The hard gate: a read of the row, before anything is counted.
Gate(r) ==
    /\ stage[r] = "idle"
    /\ stage' = [stage EXCEPT ![r] = IF Locked THEN "refused" ELSE "gated"]
    /\ UNCHANGED <<now, lockoutRow, overflow, replay, generation, admittedIn>>

\* Mutant: the value tested is the one from before the increment.
IncrementTestsOldValue(r) ==
    /\ stage[r] = "gated"
    /\ attempts' = attempts + 1
    /\ IF attempts > MaxAttempts
         THEN /\ stage' = [stage EXCEPT ![r] = "overflow"]
              /\ overflow' = [overflow EXCEPT ![r] = attempts - MaxAttempts]
              /\ UNCHANGED admittedIn
         ELSE /\ stage' = [stage EXCEPT ![r] = "lookup"]
              /\ admittedIn' = [admittedIn EXCEPT ![r] = generation]
              /\ UNCHANGED overflow
    /\ UNCHANGED <<now, lockedUntil, replay, generation>>

\* The atomic upsert and the test of the value it returns.
Increment(r) ==
    /\ stage[r] = "gated"
    /\ attempts' = attempts + 1
    /\ IF attempts + 1 > MaxAttempts
         THEN /\ stage' = [stage EXCEPT ![r] = "overflow"]
              /\ overflow' = [overflow EXCEPT ![r] = attempts + 1 - MaxAttempts]
              /\ UNCHANGED admittedIn
         ELSE /\ stage' = [stage EXCEPT ![r] = "lookup"]
              /\ admittedIn' = [admittedIn EXCEPT ![r] = generation]
              /\ UNCHANGED overflow
    /\ UNCHANGED <<now, lockedUntil, replay, generation>>

Least(a, b) == IF a <= b THEN a ELSE b

Backoff(n) == Least(BackoffBase * 2^(n - 1), BackoffMax)

\* The second statement: set the window, or fail because the row is gone.
SetLock(r) ==
    /\ stage[r] = "overflow"
    /\ lockedUntil' = IF attempts = 0 THEN 0 ELSE now + Backoff(overflow[r])
    /\ stage' = [stage EXCEPT ![r] = "refused"]
    /\ UNCHANGED <<now, attempts, overflow, replay, history>>

-----------------------------------------------------------------------------
(* verifyOtp, after the gate *)

Window == {now - 1, now, now + 1}

\* Mutant: the entry is kept for one step only.
RememberedOneStep ==
    {c \in {lastCounter, NoEntry} : now - lastTs >= 1 => c = NoEntry}

\* gcOtpReplayCache drops the entry once it is older than the TTL.  Within
\* the step in which the TTL runs out the entry may be there or not.
Remembered ==
    {c \in {lastCounter, NoEntry} :
        /\ lastCounter # NoEntry /\ now - lastTs > ReplayTTL => c = NoEntry
        /\ lastCounter # NoEntry /\ now - lastTs < ReplayTTL => c = lastCounter}

\* The code of counter k is in the window and newer than the last one
\* accepted: test and set of otpLastCounter happen without an await.
Match(r) ==
    /\ stage[r] = "lookup"
    /\ \E k \in Window, last \in Remembered :
          /\ k > last
          /\ lastCounter' = k
          /\ code' = [code EXCEPT ![r] = k]
    /\ lastTs' = now
    /\ fresh' = fresh \cup {r}
    /\ stage' = [stage EXCEPT ![r] = "resetting"]
    /\ UNCHANGED <<now, lockoutRow, overflow, history>>

\* A wrong, expired or replayed code, or no secret; recordFailure does nothing.
Mismatch(r) ==
    /\ stage[r] = "lookup"
    /\ lastCounter' \in Remembered
    /\ stage' = [stage EXCEPT ![r] = "rejected"]
    /\ UNCHANGED <<now, lockoutRow, overflow, lastTs, code, fresh, history>>

\* reset: deleteMany of the lockout row.
Reset(r) ==
    /\ stage[r] = "resetting"
    /\ attempts' = 0
    /\ lockedUntil' = 0
    /\ generation' = generation + 1
    /\ stage' = [stage EXCEPT ![r] = "accepted"]
    /\ UNCHANGED <<now, overflow, replay, admittedIn>>

-----------------------------------------------------------------------------
Tick ==
    /\ now < Horizon
    /\ now' = now + 1
    /\ UNCHANGED <<lockoutRow, stage, overflow, replay, history>>

\* The process restarts: the row survives, the replay map and the requests in
\* progress do not.
Restart ==
    /\ stage' = [r \in Verifications |-> IF stage[r] \in Running THEN "lost" ELSE stage[r]]
    /\ lastCounter' = NoEntry
    /\ lastTs' = 0
    /\ fresh' = {}
    /\ UNCHANGED <<now, lockoutRow, overflow, code, history>>

LockoutNext ==
    \/ \E r \in Verifications :
          \/ Gate(r)
          \/ Increment(r)
          \/ SetLock(r)
          \/ Match(r)
          \/ Mismatch(r)
          \/ Reset(r)
    \/ Tick
    \/ Restart

LockoutSpec == LockoutInit /\ [][LockoutNext]_lockoutVars

-----------------------------------------------------------------------------
(* Properties *)

AdmittedUnder(g) == {r \in Verifications : admittedIn[r] = g}

\* However the requests interleave, no more than MaxAttempts codes are
\* verified under one lockout row (the burst race of the F-04 note).
AttemptBound == \A g \in 1..generation : Cardinality(AdmittedUnder(g)) <= MaxAttempts

\* A code is accepted once: two requests that the same process accepted
\* presented codes of different counters, also around the eviction of the
\* replay entry (verifyOtp, gcOtpReplayCache).
NoReplay == \A r, s \in fresh : code[r] = code[s] => r = s
=============================================================================
