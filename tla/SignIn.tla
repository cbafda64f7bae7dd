------------------------------- MODULE SignIn -------------------------------
(***************************************************************************)
(* Signing in through a provider: the OpenID Connect handshakes for login  *)
(* and for the admin mode (auth/auth.controller.ts, oidc.service.ts), the  *)
(* LDAP login (ldap.service.ts), the account made at the first sign-in     *)
(* (users.service.ts), and the administrators who change the providers     *)
(* meanwhile (auth-providers.service.ts).                                  *)
(*                                                                         *)
(* One browser, whose tabs share its cookies: the two handshakes and the   *)
(* session are one cookie jar, written by whichever answer comes last.     *)
(* On the server an action is the code between two awaits.  The state, the *)
(* nonce and the PKCE verifier of a flow are the flow.                     *)
(***************************************************************************)
EXTENDS Integers, FiniteSets

CONSTANTS
    Flows,       \* attempts to sign in or to enter the admin mode
    People,      \* those the directories know
    Handle,      \* the user name of each, not unique
    Ids,         \* account ids, 1 being an OIDC administrator's
    Root,        \* that administrator
    Issuers,     \* issuer URLs (and TLS modes) of the OIDC provider
    None,        \* null
    MaxEdits,    \* bound: changes administrators make
    MaxFaults    \* bound: failures of an IdP, crashes

ASSUME IdsAssumption == Ids \subseteq Nat \ {0} /\ 1 \in Ids
ASSUME PeopleAssumption == None \notin People
ASSUME RootAssumption == Root \in People
ASSUME HandleAssumption == DOMAIN Handle = People
ASSUME FlowsAssumption == None \notin Flows
ASSUME IssuersAssumption == Issuers # {} /\ None \notin Issuers
ASSUME BoundsAssumption == MaxEdits \in Nat /\ MaxFaults \in Nat

VARIABLES
    provider,  \* the OIDC and the LDAP provider: there, enabled, issuer
    found,     \* a deletion that has counted the accounts of its provider
    stale,     \* an update is written and the cache not yet cleared
    cache,     \* configCache: what was discovered under each key
    accounts,  \* the User table
    flow,      \* each flow: kind, phase, and what its requests have read
    code,      \* the authorization code of each flow, by its issuer
    jar,       \* the handshake cookies
    session,   \* the jwt cookie
    proof,     \* who proved their identity in each flow, and how freshly
    edits, faults

vars == <<provider, found, stale, cache, accounts, flow, code, jar, session,
          proof, edits, faults>>

adminVars == <<provider, found, stale, edits>>
browserVars == <<jar, session>>

NoAccount == [person |-> None, at |-> "none", handle |-> None, admin |-> FALSE]
NoSudo == [flow |-> None, account |-> 0]
NoSession == [account |-> 0, admin |-> FALSE, by |-> None]
NoProof == [person |-> None, fresh |-> FALSE]

Providers == {"OIDC", "LDAP"}
Kinds == {"login", "sudo", "ldap"}
At(kind) == IF kind = "ldap" THEN "LDAP" ELSE "OIDC"

Init ==
    /\ \E i \in Issuers :
          provider = [p \in Providers |-> [there |-> TRUE, enabled |-> TRUE, issuer |-> i]]
    /\ found = [p \in Providers |-> FALSE]
    /\ stale = FALSE
    /\ cache = [i \in Issuers |-> None]
    /\ accounts = [id \in Ids |->
                      IF id = 1 THEN [person |-> Root, at |-> "OIDC",
                                      handle |-> Handle[Root], admin |-> TRUE]
                                ELSE NoAccount]
    /\ flow = [f \in Flows |-> [kind |-> "login", phase |-> "idle", reads |-> None,
                                meta |-> None, account |-> 0, handle |-> None,
                                end |-> "none"]]
    /\ code = [f \in Flows |-> "none"]
    /\ jar = [login |-> None, sudo |-> NoSudo]
    /\ session \in {NoSession, [account |-> 1, admin |-> FALSE, by |-> None]}
    /\ proof = [f \in Flows |-> NoProof]
    /\ edits = 0 /\ faults = 0

Fault == faults < MaxFaults /\ faults' = faults + 1

Goes(f, phase) == flow' = [flow EXCEPT ![f] = [@ EXCEPT !.phase = phase]]

\* The request of the flow is answered with an error.
Refused(f, why) ==
    flow' = [flow EXCEPT ![f] = [@ EXCEPT !.phase = "ended", !.end = why]]

Enabled(p) == provider[p].there /\ provider[p].enabled
Live == {id \in Ids : accounts[id].person # None}
Free == {id \in Ids : accounts[id] = NoAccount}

-----------------------------------------------------------------------------
(* getServerMetadata: the provider is read, and the discovery document     *)
(* comes from the cache or is fetched and then put there.                  *)

\* Mutant: the key is the id of the provider alone.
CacheKeyById(issuer) == CHOOSE i \in Issuers : TRUE

\* cacheKey binds the provider to its issuer and TLS mode.
CacheKey(issuer) == issuer

\* The phase a request enters when it asks, and the one it has its answer in.
Asks(f, fetching, ready) ==
    LET issuer == provider["OIDC"].issuer
        hit    == cache[CacheKey(issuer)]
    IN IF ~Enabled("OIDC") THEN Refused(f, "disabled")
       ELSE flow' = [flow EXCEPT ![f] =
                        [@ EXCEPT !.reads = issuer, !.meta = hit,
                                  !.phase = IF hit = None THEN fetching ELSE ready]]

Ready(phase) == IF phase = "discovering" THEN "redirecting" ELSE "exchanging"

Discovered(f) ==
    /\ flow[f].phase \in {"discovering", "rediscovering"}
    /\ cache' = [cache EXCEPT ![CacheKey(flow[f].reads)] = flow[f].reads]
    /\ flow' = [flow EXCEPT ![f] = [@ EXCEPT !.meta = flow[f].reads,
                                              !.phase = Ready(flow[f].phase)]]
    /\ UNCHANGED <<adminVars, browserVars, accounts, code, proof, faults>>

\* The callback of a sudo flow that fails clears its cookies.
ClearSudo(f) == jar' = IF flow[f].kind = "sudo" THEN [jar EXCEPT !.sudo = NoSudo]
                                                ELSE jar

DiscoveryFails(f) ==
    /\ flow[f].phase \in {"discovering", "rediscovering"}
    /\ Fault
    /\ Refused(f, "idp")
    /\ IF flow[f].phase = "rediscovering" THEN ClearSudo(f) ELSE UNCHANGED jar
    /\ UNCHANGED <<adminVars, cache, accounts, code, session, proof>>

-----------------------------------------------------------------------------
(* Starting.                                                               *)

Begin(f, kind, account) ==
    flow' = [flow EXCEPT ![f] = [@ EXCEPT !.kind = kind, !.account = account,
                                          !.phase = "asking"]]

StartLogin(f) ==
    /\ flow[f].phase = "idle"
    /\ Begin(f, "login", 0)
    /\ UNCHANGED <<adminVars, browserVars, cache, accounts, code, proof, faults>>

\* sudoOidcStart: an administrator, through the provider of the account.
StartSudo(f) ==
    /\ flow[f].phase = "idle"
    /\ session.account \in Live
    /\ accounts[session.account].admin
    /\ accounts[session.account].at = "OIDC"
    /\ Begin(f, "sudo", session.account)
    /\ UNCHANGED <<adminVars, browserVars, cache, accounts, code, proof, faults>>

\* login with the id of an LDAP provider: the directory is asked.
StartLdap(f) ==
    /\ flow[f].phase = "idle"
    /\ IF Enabled("LDAP")
       THEN flow' = [flow EXCEPT ![f] = [@ EXCEPT !.kind = "ldap",
                                                  !.phase = "proving"]]
       ELSE Refused(f, "disabled")
    /\ UNCHANGED <<adminVars, browserVars, cache, accounts, code, proof, faults>>

AskForRedirect(f) ==
    /\ flow[f].phase = "asking"
    /\ Asks(f, "discovering", "redirecting")
    /\ UNCHANGED <<adminVars, browserVars, cache, accounts, code, proof, faults>>

\* The cookies of a handshake, over those of another tab.
Handshake(f) ==
    IF flow[f].kind = "sudo"
    THEN [jar EXCEPT !.sudo = [flow |-> f, account |-> flow[f].account]]
    ELSE [jar EXCEPT !.login = f]

\* The provider is read once more, and the answer sets the cookies.
Redirect(f) ==
    /\ flow[f].phase = "redirecting"
    /\ IF ~Enabled("OIDC")
       THEN Refused(f, "disabled") /\ UNCHANGED jar
       ELSE /\ Goes(f, "proving")
            /\ jar' = Handshake(f)
    /\ UNCHANGED <<adminVars, cache, accounts, code, session, proof, faults>>

-----------------------------------------------------------------------------
(* The identity provider and the directory.                                *)

\* Mutant: the sudo flow asks for its code without prompt=login.
MustAskNoPrompt(kind) == kind = "ldap"

\* prompt=login of the sudo flow always asks for credentials; a login may be
\* answered from the session the browser has at the identity provider.
MustAsk(kind) == kind \in {"sudo", "ldap"}

Prove(f) ==
    /\ flow[f].phase = "proving"
    /\ \E person \in People, fresh \in BOOLEAN :
          /\ MustAsk(flow[f].kind) => fresh
          /\ proof' = [proof EXCEPT ![f] = [person |-> person, fresh |-> fresh]]
    /\ IF flow[f].kind = "ldap"
       THEN Goes(f, "provisioning") /\ UNCHANGED code
       ELSE Goes(f, "returning") /\ code' = [code EXCEPT ![f] = flow[f].meta]
    /\ UNCHANGED <<adminVars, browserVars, cache, accounts, faults>>

\* Wrong password, or an attribute the login needs is missing.
Denied(f) ==
    /\ flow[f].phase = "proving" /\ flow[f].kind = "ldap"
    /\ Fault
    /\ Refused(f, "idp")
    /\ UNCHANGED <<adminVars, browserVars, cache, accounts, code, proof>>

-----------------------------------------------------------------------------
(* The callback.  The same URL serves both handshakes: the cookie that     *)
(* matches its state says which one came back.                             *)

ToSudo(f) == jar.sudo.flow = f \/ (jar.sudo # NoSudo /\ jar.login = None)

Callback(f) ==
    /\ flow[f].phase = "returning"
    /\ IF ToSudo(f)
       THEN IF jar.sudo.flow = f
            THEN /\ flow' = [flow EXCEPT ![f] = [@ EXCEPT !.phase = "back",
                                                  !.account = jar.sudo.account]]
                 /\ UNCHANGED jar
            ELSE Refused(f, "state") /\ jar' = [jar EXCEPT !.sudo = NoSudo]
       ELSE /\ IF jar.login = f THEN Goes(f, "back") ELSE Refused(f, "state")
            /\ UNCHANGED jar
    /\ UNCHANGED <<adminVars, cache, accounts, code, session, proof, faults>>

AskForExchange(f) ==
    /\ flow[f].phase = "back"
    /\ Asks(f, "rediscovering", "exchanging")
    /\ IF Enabled("OIDC") THEN UNCHANGED jar ELSE ClearSudo(f)
    /\ UNCHANGED <<adminVars, cache, accounts, code, session, proof, faults>>

\* A code is good once, and with the issuer that made it.
Exchange(f) ==
    /\ flow[f].phase = "exchanging"
    /\ code[f] = flow[f].meta
    /\ code' = [code EXCEPT ![f] = "used"]
    /\ Goes(f, IF flow[f].kind = "sudo" THEN "confirming" ELSE "provisioning")
    /\ UNCHANGED <<adminVars, browserVars, cache, accounts, proof, faults>>

ExchangeFails(f) ==
    /\ flow[f].phase = "exchanging"
    /\ IF code[f] = flow[f].meta THEN Fault ELSE UNCHANGED faults
    /\ Refused(f, "idp")
    /\ ClearSudo(f)
    /\ UNCHANGED <<adminVars, cache, accounts, code, session, proof>>

\* Mutant: the subject that came back is not compared.
ConfirmedAnySubject(f) == /\ flow[f].account \in Live
                          /\ accounts[flow[f].account].admin

\* handleSudoOidcCallback: the account that started is still there, still an
\* administrator, and its subject is the one that came back.
Confirmed(f) == /\ flow[f].account \in Live
                /\ accounts[flow[f].account].admin
                /\ accounts[flow[f].account].person = proof[f].person

Confirm(f) ==
    /\ flow[f].phase = "confirming"
    /\ IF Confirmed(f) THEN Goes(f, "granting") /\ UNCHANGED jar
                       ELSE Refused(f, "mismatch") /\ ClearSudo(f)
    /\ UNCHANGED <<adminVars, cache, accounts, code, session, proof, faults>>

-----------------------------------------------------------------------------
(* findOrCreateExternalUser: find, pick a free handle, create.             *)

\* An account of one provider is not that of another with the same subject.
Matches(f) == {id \in Live : /\ accounts[id].person = proof[f].person
                             /\ accounts[id].at = At(flow[f].kind)}

LookUp(f) ==
    /\ flow[f].phase = "provisioning"
    /\ IF Matches(f) # {}
       THEN \E id \in Matches(f) :
               flow' = [flow EXCEPT ![f] = [@ EXCEPT !.phase = "granting",
                                                     !.account = id]]
       ELSE Goes(f, "naming")
    /\ UNCHANGED <<adminVars, browserVars, cache, accounts, code, proof, faults>>

Taken(handle) == \E id \in Live : accounts[id].handle = handle

PickHandle(f) ==
    /\ flow[f].phase = "naming"
    /\ LET handle == Handle[proof[f].person]
       IN flow' = [flow EXCEPT ![f] =
                      [@ EXCEPT !.phase = "creating",
                                !.handle = IF Taken(handle) THEN None ELSE handle]]
    /\ UNCHANGED <<adminVars, browserVars, cache, accounts, code, proof, faults>>

\* Unique e-mail (one per person), unique user name, the provider's key.
HandleClash(f) == flow[f].handle # None /\ Taken(flow[f].handle)
\* Mutant: the e-mail column is not unique.
EmailClashNever(f) == FALSE

EmailClash(f) == \E id \in Live : accounts[id].person = proof[f].person
Clash(f) == HandleClash(f) \/ EmailClash(f) \/ ~provider[At(flow[f].kind)].there

Create(f) ==
    /\ flow[f].phase = "creating"
    /\ ~Clash(f)
    /\ \E id \in Free :
          /\ \A other \in Free : id <= other
          /\ accounts' = [accounts EXCEPT ![id] =
                            [person |-> proof[f].person, at |-> At(flow[f].kind),
                             handle |-> flow[f].handle, admin |-> FALSE]]
          /\ flow' = [flow EXCEPT ![f] = [@ EXCEPT !.phase = "granting",
                                                    !.account = id]]
    /\ UNCHANGED <<adminVars, browserVars, cache, code, proof, faults>>

ServerPhases == {"asking", "discovering", "redirecting", "back", "rediscovering",
                 "exchanging", "confirming", "provisioning", "naming",
                 "creating", "granting"}

\* A directory login waits for the server too.
AtServer(f) == \/ flow[f].phase \in ServerPhases
               \/ flow[f].phase = "proving" /\ flow[f].kind = "ldap"

\* Every request in progress is lost, and so is the cache.
Down(why) ==
    /\ flow' = [f \in Flows |->
                  IF AtServer(f) THEN [flow[f] EXCEPT !.phase = "ended",
                                                      !.end = why[f]]
                                 ELSE flow[f]]
    /\ cache' = [i \in Issuers |-> None]
    /\ stale' = FALSE
    /\ found' = [p \in DOMAIN found |-> FALSE]

Why(f) == IF HandleClash(f) THEN "handle" ELSE "clash"

\* validateCallback catches the refusal.  Nobody catches that of the
\* directory's callback: the rejection is unhandled and ends the process.
CreateRefused(f) ==
    /\ flow[f].phase = "creating"
    /\ Clash(f)
    /\ IF flow[f].kind = "ldap"
       THEN Down([g \in Flows |-> IF g = f THEN Why(f) ELSE "crash"])
       ELSE Refused(f, Why(f)) /\ UNCHANGED <<cache, stale, found>>
    /\ UNCHANGED <<provider, edits, browserVars, accounts, code, proof, faults>>

-----------------------------------------------------------------------------
(* The answer: a token pair for the account, unless it has gone (the       *)
(* awaited row of the audit log refers to it), and the handshake's cookies *)
(* cleared, whichever tab set them.                                        *)

Cleared(kind) == CASE kind = "sudo"  -> [jar EXCEPT !.sudo = NoSudo]
                   [] kind = "login" -> [jar EXCEPT !.login = None]
                   [] OTHER          -> jar

\* The cookies of the token pair, over those of whoever was signed in.
SignedIn(f) == [account |-> flow[f].account, admin |-> flow[f].kind = "sudo", by |-> f]

Grant(f) ==
    /\ flow[f].phase = "granting"
    /\ IF flow[f].account \in Live
       THEN /\ session' = SignedIn(f)
            /\ jar' = Cleared(flow[f].kind)
            /\ flow' = [flow EXCEPT ![f] = [@ EXCEPT !.phase = "ended", !.end = "in"]]
       ELSE /\ Refused(f, "gone")
            /\ UNCHANGED browserVars
    /\ UNCHANGED <<adminVars, cache, accounts, code, proof, faults>>

\* The audit row or the refresh token cannot be written.
GrantFails(f) ==
    /\ flow[f].phase = "granting"
    /\ Fault
    /\ Refused(f, "error")
    /\ UNCHANGED <<adminVars, browserVars, cache, accounts, code, proof>>

-----------------------------------------------------------------------------
(* The browser and the administrators.                                     *)

\* The callback's page is loaded again.
Reload(f) ==
    /\ flow[f].phase = "ended" /\ code[f] # "none"
    /\ Fault
    /\ Goes(f, "returning")
    /\ UNCHANGED <<adminVars, browserVars, cache, accounts, code, proof>>

\* The cookies of a handshake live for five minutes.
CookiesExpire ==
    /\ \/ jar.login # None /\ jar' = [jar EXCEPT !.login = None]
       \/ jar.sudo # NoSudo /\ jar' = [jar EXCEPT !.sudo = NoSudo]
    /\ UNCHANGED <<adminVars, cache, accounts, flow, code, session, proof, faults>>

Edit == edits < MaxEdits /\ edits' = edits + 1

UpdateIssuer(i) ==
    /\ provider["OIDC"].there /\ provider["OIDC"].issuer # i
    /\ Edit
    /\ provider' = [provider EXCEPT !["OIDC"] = [@ EXCEPT !.issuer = i]]
    /\ stale' = TRUE
    /\ UNCHANGED <<found, cache, accounts, flow, code, browserVars, proof, faults>>

Toggle(p) ==
    /\ provider[p].there
    /\ Edit
    /\ provider' = [provider EXCEPT ![p] = [@ EXCEPT !.enabled = ~provider[p].enabled]]
    /\ stale' = (stale \/ p = "OIDC")
    /\ UNCHANGED <<found, cache, accounts, flow, code, browserVars, proof, faults>>

\* The controller goes on after its update or deletion.
Invalidate ==
    /\ stale
    /\ stale' = FALSE
    /\ cache' = [i \in Issuers |-> None]
    /\ UNCHANGED <<provider, found, edits, accounts, flow, code, browserVars,
                   proof, faults>>

\* delete counts the accounts of the provider, and then deletes it.
CountAccounts(p) ==
    /\ provider[p].there /\ ~found[p]
    /\ {id \in Live : accounts[id].at = p} = {}
    /\ Edit
    /\ found' = [found EXCEPT ![p] = TRUE]
    /\ UNCHANGED <<provider, stale, cache, accounts, flow, code, browserVars,
                   proof, faults>>

\* ON DELETE SET NULL: accounts made meanwhile belong to no provider.
DeleteProvider(p) ==
    /\ found[p]
    /\ found' = [found EXCEPT ![p] = FALSE]
    /\ provider' = [provider EXCEPT ![p] = [@ EXCEPT !.there = FALSE]]
    /\ accounts' = [id \in Ids |->
                      IF accounts[id].at = p THEN [accounts[id] EXCEPT !.at = "none"]
                                             ELSE accounts[id]]
    /\ stale' = (stale \/ p = "OIDC")
    /\ UNCHANGED <<cache, flow, code, browserVars, proof, edits, faults>>

\* Accounts come and go; an id is never used again.
DeleteAccount(id) ==
    /\ id \in Live
    /\ Edit
    /\ accounts' = [accounts EXCEPT ![id] = [NoAccount EXCEPT !.at = "deleted"]]
    /\ UNCHANGED <<provider, found, stale, cache, flow, code, browserVars, proof,
                   faults>>

Demote(id) ==
    /\ id \in Live /\ accounts[id].admin
    /\ Edit
    /\ accounts' = [accounts EXCEPT ![id] = [@ EXCEPT !.admin = FALSE]]
    /\ UNCHANGED <<provider, found, stale, cache, flow, code, browserVars, proof,
                   faults>>

-----------------------------------------------------------------------------
ServerStep(f) ==
    \/ AskForRedirect(f) \/ Redirect(f) \/ Discovered(f) \/ AskForExchange(f)
    \/ Exchange(f) \/ ExchangeFails(f) \/ Confirm(f) \/ LookUp(f)
    \/ PickHandle(f) \/ Create(f) \/ CreateRefused(f) \/ Grant(f)

Next ==
    \/ \E f \in Flows :
          \/ StartLogin(f) \/ StartSudo(f) \/ StartLdap(f)
          \/ Prove(f) \/ Denied(f) \/ Callback(f) \/ Reload(f)
          \/ DiscoveryFails(f) \/ GrantFails(f)
          \/ ServerStep(f)
    \/ CookiesExpire
    \/ \E i \in Issuers : UpdateIssuer(i)
    \/ \E p \in Providers : Toggle(p) \/ CountAccounts(p) \/ DeleteProvider(p)
    \/ Invalidate
    \/ \E id \in Ids : DeleteAccount(id) \/ Demote(id)

Spec == Init /\ [][Next]_vars

-----------------------------------------------------------------------------
(* Properties                                                              *)

(* The browser is signed in as the one who proved their identity in the    *)
(* flow that signed it in, at the provider of that account, however the    *)
(* answers and the cookies of two tabs cross.                              *)
SessionIsProven ==
    session.by # None /\ session.account \in Live =>
        /\ accounts[session.account].person = proof[session.by].person
        /\ accounts[session.account].at \in {At(flow[session.by].kind), "none"}

(* The admin mode was proven afresh (prompt=login), by the person whose    *)
(* account asked for it.                                                   *)
AdminModeIsFresh ==
    session.admin => /\ proof[session.by].fresh
                     /\ flow[session.by].kind = "sudo"
                     /\ flow[session.by].account = session.account

(* Two first sign-ins of one person, at the same time or again, give one   *)
(* account of that person.                                                 *)
OneAccountEach ==
    \A a, b \in Live : accounts[a].person = accounts[b].person => a = b

(* A request never uses the metadata of an issuer other than the one       *)
(* configured when it read the provider, whatever updates and discoveries  *)
(* were under way (the cache key binds the issuer).                        *)
MetadataOfIssuer ==
    \A f \in Flows : flow[f].phase \in {"redirecting", "exchanging"} =>
        flow[f].meta = flow[f].reads
=============================================================================
