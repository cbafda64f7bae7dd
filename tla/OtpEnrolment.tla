---------------------------- MODULE OtpEnrolment ----------------------------
(***************************************************************************)
(* The second factor of one account whose password the server or an LDAP   *)
(* directory checks: how it is set up and removed (generateOtp, enableOtp, *)
(* disableOtp of auth.service.ts, the profile page that calls them), and   *)
(* who is let in with it or without it (login, login-otp and sudo of       *)
(* auth.controller.ts).                                                    *)
(*                                                                         *)
(* An action is the code between two awaits: a request works on the row as *)
(* it read it, while others write it.  Counting failures is OtpLockout's,  *)
(* tokens are TokenLifecycle's; here either may refuse at any time.        *)
(* Secrets are numbered as they are generated, time is in TOTP steps, and  *)
(* the codes of two secrets or steps differ.                               *)
(***************************************************************************)
EXTENDS Integers, FiniteSets

CONSTANTS
    FactorRequests, \* requests; a login and its second step are one
    MaxSecrets,     \* bound: secrets generated
    MaxClock        \* bound: time

ASSUME BoundsAssumption == MaxSecrets \in Nat /\ MaxClock \in Nat

VARIABLES
    clock,    \* the clock
    row,      \* the account: see Rows
    made,     \* secrets so far
    shown,    \* secrets whose QR code the browser was given
    last,     \* otpLastCounter of the account, NoCounter if none
    req,      \* each request: what it is, where it stands, what it has read
    spent,    \* history: codes accepted since the process started
    twice,    \* history: a code proved an identity after it was accepted
    lowered,  \* history: an enrolment has put otpLastCounter back
    coded,    \* history: requests that brought the code of the factor
    lapsed    \* history: requests during which the factor was off

enrolmentVars == <<clock, row, made, shown, last, req, spent, twice, lowered, coded, lapsed>>
secretVars == <<made, shown>>
replayVars == <<last, spent, twice, lowered>>

NoSecret == 0
NoCounter == 0

FactorKinds == {"none", "generate", "enable", "disable", "login", "sudo"}
SignIns == {"login", "sudo"}
Phases == {"idle", "reading", "writing", "answering", "checking", "asked", "code",
           "matching", "settling", "granting", "granted", "done", "refused"}
AtRest == {"idle", "granted", "done", "refused"}

\* plain: the secret was stored by an earlier release, not encrypted.
Rows == [enabled: BOOLEAN, secret: Nat, plain: BOOLEAN, pending: Nat]
Request == [kind: FactorKinds, phase: Phases, secret: Nat, plain: BOOLEAN]

EnrolmentTypeOK ==
    /\ clock \in Nat \ {0, 1}
    /\ row \in Rows
    /\ made \in Nat
    /\ shown \subseteq Nat
    /\ last \in Nat
    /\ req \in [FactorRequests -> Request]
    /\ spent \subseteq Nat \X Nat
    /\ twice \in BOOLEAN /\ lowered \in BOOLEAN
    /\ coded \subseteq FactorRequests /\ lapsed \subseteq FactorRequests

NoFactor == [enabled |-> FALSE, secret |-> NoSecret, plain |-> FALSE, pending |-> NoSecret]

EnrolmentInit ==
    /\ clock = 2
    /\ \/ row = NoFactor /\ made = 0 /\ shown = {}
       \/ /\ \E old \in BOOLEAN :
                row = [enabled |-> TRUE, secret |-> 1, plain |-> old, pending |-> NoSecret]
          /\ made = 1 /\ shown = {1}
    /\ last = NoCounter
    /\ req = [r \in FactorRequests |-> [kind |-> "none", phase |-> "idle",
                                  secret |-> NoSecret, plain |-> FALSE]]
    /\ spent = {} /\ twice = FALSE /\ lowered = FALSE /\ coded = {} /\ lapsed = {}

At(r, phase) == req[r].phase = phase
Goes(r, phase) == req' = [req EXCEPT ![r].phase = phase]

\* With what it has read or generated.
GoesWith(r, phase, secret, plain) ==
    req' = [req EXCEPT ![r] = [kind |-> req[r].kind, phase |-> phase,
                               secret |-> secret, plain |-> plain]]

(* A request arrives.  All but a login have passed the guard; so has, for  *)
(* the administrator's mode, the role.                                     *)
Begin(r, kind) ==
    /\ At(r, "idle")
    /\ req' = [req EXCEPT ![r] = [kind |-> kind, phase |-> "reading",
                                  secret |-> NoSecret, plain |-> FALSE]]
    /\ lapsed' = IF row.enabled THEN lapsed ELSE lapsed \cup {r}
    /\ UNCHANGED <<clock, row, secretVars, replayVars, coded>>

-----------------------------------------------------------------------------
(* generateOtp, from the profile page. *)

Generates(r) ==
    /\ At(r, "reading") /\ req[r].kind = "generate"
    /\ made < MaxSecrets
    /\ made' = made + 1
    /\ GoesWith(r, "writing", made', FALSE)
    /\ UNCHANGED <<clock, row, shown, replayVars, coded, lapsed>>

Generated(r) ==
    /\ At(r, "writing") /\ req[r].kind = "generate"
    /\ row' = [row EXCEPT !.pending = req[r].secret]
    /\ Goes(r, "answering")
    /\ UNCHANGED <<clock, secretVars, replayVars, coded, lapsed>>

(* handleGenerateOtp: the answer brings the QR code. *)
Shows(r) ==
    /\ At(r, "answering")
    /\ shown' = shown \cup {req[r].secret}
    /\ Goes(r, "done")
    /\ UNCHANGED <<clock, row, made, replayVars, coded, lapsed>>

-----------------------------------------------------------------------------
(* enableOtp. *)

ReadsPending(r) ==
    /\ At(r, "reading") /\ req[r].kind = "enable"
    /\ IF row.pending = NoSecret THEN Goes(r, "refused")
       ELSE GoesWith(r, "checking", row.pending, FALSE)
    /\ UNCHANGED <<clock, row, secretVars, replayVars, coded, lapsed>>

(* verifyWithCounter, of a code made from a secret that was shown. *)
CodeWindow == {clock - 1, clock, clock + 1}

\* Mutant: the code that enables is not remembered.
PendingMatchesUnmarked(r) ==
    /\ At(r, "checking") /\ req[r].secret \in shown
    /\ \E counter \in CodeWindow : spent' = spent \cup {<<req[r].secret, counter>>}
    /\ Goes(r, "writing")
    /\ UNCHANGED <<clock, row, secretVars, last, lowered, twice, coded, lapsed>>

(* The counter is remembered whatever was remembered before. *)
PendingMatches(r) ==
    /\ At(r, "checking") /\ req[r].secret \in shown
    /\ \E counter \in CodeWindow :
          /\ last' = counter
          /\ lowered' = (lowered \/ counter < last)
          /\ spent' = spent \cup {<<req[r].secret, counter>>}
    /\ Goes(r, "writing")
    /\ UNCHANGED <<clock, row, secretVars, twice, coded, lapsed>>

PendingMismatch(r) ==
    /\ At(r, "checking")
    /\ Goes(r, "refused")
    /\ UNCHANGED <<clock, row, secretVars, replayVars, coded, lapsed>>

\* Mutant: the update moves what is pending by now.
EnablesLatest(r) ==
    /\ At(r, "writing") /\ req[r].kind = "enable"
    /\ row' = [enabled |-> TRUE, plain |-> FALSE, pending |-> NoSecret,
               secret |-> IF row.pending = NoSecret THEN req[r].secret ELSE row.pending]
    /\ Goes(r, "done")
    /\ UNCHANGED <<clock, secretVars, replayVars, coded, lapsed>>

(* The secret the code was checked with, whatever is pending by now. *)
Enables(r) ==
    /\ At(r, "writing") /\ req[r].kind = "enable"
    /\ row' = [enabled |-> TRUE, plain |-> FALSE, pending |-> NoSecret,
               secret |-> req[r].secret]
    /\ Goes(r, "done")
    /\ UNCHANGED <<clock, secretVars, replayVars, coded, lapsed>>

-----------------------------------------------------------------------------
(* login and sudo: the password is right; is the second factor on? *)

ReadsUser(r) ==
    /\ At(r, "reading") /\ req[r].kind \in SignIns
    /\ Goes(r, IF ~row.enabled THEN "granting"
               ELSE IF req[r].kind = "login" THEN "asked" ELSE "code")
    /\ UNCHANGED <<clock, row, secretVars, replayVars, coded, lapsed>>

(* login-otp, with the temporary token login has answered with. *)
BringsCode(r) ==
    /\ At(r, "asked")
    /\ Goes(r, "code")
    /\ UNCHANGED <<clock, row, secretVars, replayVars, coded, lapsed>>

\* Mutant: the guard takes every token that was signed here.
GuardTakesAny == TRUE

(* The temporary token carries no version, and no account has version -1.  *)
GuardTakesTemporary == -1 \in Nat

(* The temporary token as the cookie of a session. *)
BringsTemporaryToken(r) ==
    /\ At(r, "asked")
    /\ Goes(r, IF GuardTakesTemporary THEN "granted" ELSE "refused")
    /\ UNCHANGED <<clock, row, secretVars, replayVars, coded, lapsed>>

Grants(r) ==
    /\ At(r, "granting")
    /\ Goes(r, "granted")
    /\ UNCHANGED <<clock, row, secretVars, replayVars, coded, lapsed>>

-----------------------------------------------------------------------------
(* verifyOtp, for login-otp, sudo and disableOtp. *)

StartsToVerify(r) ==
    /\ At(r, "reading") /\ req[r].kind = "disable"
    /\ Goes(r, "code")
    /\ UNCHANGED <<clock, row, secretVars, replayVars, coded, lapsed>>

LooksUp(r) ==
    /\ At(r, "code")
    /\ IF row.secret = NoSecret THEN Goes(r, "refused")
       ELSE GoesWith(r, "matching", row.secret, row.plain)
    /\ UNCHANGED <<clock, row, secretVars, replayVars, coded, lapsed>>

Matches(r) ==
    /\ At(r, "matching") /\ req[r].secret \in shown
    /\ \E counter \in CodeWindow :
          /\ counter > last
          /\ last' = counter
          /\ twice' = (twice \/ <<req[r].secret, counter>> \in spent)
          /\ spent' = spent \cup {<<req[r].secret, counter>>}
    /\ coded' = coded \cup {r}
    /\ Goes(r, "settling")
    /\ UNCHANGED <<clock, row, secretVars, lowered, lapsed>>

(* A login may bring another code. *)
Mismatches(r) ==
    /\ At(r, "matching")
    /\ Goes(r, IF req[r].kind = "login" THEN "asked" ELSE "refused")
    /\ UNCHANGED <<clock, row, secretVars, replayVars, coded, lapsed>>

(* After the lockout row is removed.  A plain secret is encrypted: the one *)
(* that was read is written back.                                          *)
Settles(r) ==
    /\ At(r, "settling")
    /\ row' = IF req[r].plain
              THEN [enabled |-> row.enabled, secret |-> req[r].secret, plain |-> FALSE,
                    pending |-> row.pending]
              ELSE row
    /\ Goes(r, IF req[r].kind = "disable" THEN "writing" ELSE "granting")
    /\ UNCHANGED <<clock, secretVars, replayVars, coded, lapsed>>

-----------------------------------------------------------------------------
(* The factor is removed. *)

WithoutFactor == [enabled |-> FALSE, secret |-> NoSecret, plain |-> FALSE,
                  pending |-> row.pending]

Disables(r) ==
    /\ At(r, "writing") /\ req[r].kind = "disable"
    /\ row' = WithoutFactor /\ lapsed' = FactorRequests
    /\ Goes(r, "done")
    /\ UNCHANGED <<clock, secretVars, replayVars, coded>>

(* disableUserOtp of an administrator. *)
AdminDisables ==
    /\ row' = WithoutFactor /\ lapsed' = FactorRequests
    /\ UNCHANGED <<clock, secretVars, replayVars, req, coded>>

-----------------------------------------------------------------------------
(* A statement fails, the account is locked, the token of a login expires, *)
(* the answer is lost.                                                     *)
Fails(r) ==
    /\ req[r].phase \notin AtRest
    /\ Goes(r, "refused")
    /\ UNCHANGED <<clock, row, secretVars, replayVars, coded, lapsed>>

(* Requests under way are lost; the token of a login is in the browser.    *)
Restarts ==
    /\ last' = NoCounter /\ spent' = {}
    /\ req' = [r \in FactorRequests |->
                 IF req[r].phase \in AtRest \cup {"asked"} THEN req[r]
                 ELSE [req[r] EXCEPT !.phase = "refused"]]
    /\ UNCHANGED <<clock, row, secretVars, twice, lowered, coded, lapsed>>

TimePasses ==
    /\ clock < MaxClock /\ clock' = clock + 1
    /\ UNCHANGED <<row, secretVars, replayVars, req, coded, lapsed>>

Enrols(r) ==
    \/ Generates(r) \/ Generated(r) \/ Shows(r)
    \/ ReadsPending(r) \/ PendingMatches(r) \/ PendingMismatch(r) \/ Enables(r)
    \/ Disables(r)

SignsIn(r) ==
    \/ ReadsUser(r) \/ BringsCode(r) \/ BringsTemporaryToken(r) \/ Grants(r)
    \/ StartsToVerify(r) \/ LooksUp(r) \/ Matches(r) \/ Mismatches(r) \/ Settles(r)

EnrolmentNext ==
    \/ \E r \in FactorRequests :
          \/ \E kind \in FactorKinds \ {"none"} : Begin(r, kind)
          \/ Enrols(r) \/ SignsIn(r) \/ Fails(r)
    \/ AdminDisables \/ Restarts \/ TimePasses

EnrolmentSpec == EnrolmentInit /\ [][EnrolmentNext]_enrolmentVars

-----------------------------------------------------------------------------
(* Nobody is locked out by setting the factor up: as long as it is on, its *)
(* secret is one the browser was shown, however generations, enablings and *)
(* removals overlap and whichever answers are lost.                        *)
HolderHasSecret == row.enabled => row.secret \in shown

(* Nobody is let in past the factor: a sign-in or a step-up that succeeds  *)
(* has brought a code, unless the factor was off at some time while it was *)
(* under way.                                                              *)
FactorHolds ==
    \A r \in FactorRequests :
        (req[r].kind \in SignIns /\ At(r, "granted")) => r \in coded \cup lapsed

(* A code that was accepted, be it by enableOtp, proves nothing again      *)
(* before a restart; the exception is an enrolment that puts the           *)
(* remembered counter back (two enablings at once, or one over another     *)
(* secret).                                                                *)
CodesOnce == twice => lowered
=============================================================================
