---------------------------- MODULE SignInProofs ----------------------------
(***************************************************************************)
(* Theorems about SignIn, for any number of flows, people and accounts.    *)
(***************************************************************************)
EXTENDS SignIn, TLAPS

USE FlowsAssumption, IssuersAssumption, RootAssumption, HandleAssumption
    DEF Providers

Phases == ServerPhases \cup {"idle", "proving", "returning", "ended"}
Handles == {Handle[p] : p \in People} \cup {None}

Ends == {"none", "disabled", "idp", "state", "mismatch", "gone", "error", "in", "handle",
         "clash", "crash"}
FlowType == [kind : Kinds, phase : Phases, reads : Issuers \cup {None},
             meta : Issuers \cup {None}, account : Ids \cup {0}, handle : Handles,
             end : Ends]
AccountType == [person : People \cup {None}, at : Providers \cup {"none", "deleted"},
                handle : Handles, admin : BOOLEAN]
ProviderType == [there : BOOLEAN, enabled : BOOLEAN, issuer : Issuers]
JarType == [login : Flows \cup {None},
            sudo : [flow : Flows \cup {None}, account : Ids \cup {0}]]
SessionType == [account : Ids \cup {0}, admin : BOOLEAN, by : Flows \cup {None}]
ProofType == [person : People \cup {None}, fresh : BOOLEAN]

TypeOK ==
  /\ provider \in [Providers -> ProviderType]
  /\ cache \in [Issuers -> Issuers \cup {None}]
  /\ accounts \in [Ids -> AccountType]
  /\ flow \in [Flows -> FlowType]
  /\ code \in [Flows -> Issuers \cup {None, "none", "used"}]
  /\ jar \in JarType
  /\ session \in SessionType
  /\ proof \in [Flows -> ProofType]

LEMMA NullsTyped ==
  /\ NoAccount \in AccountType /\ NoSession \in SessionType
  /\ NoProof \in ProofType /\ NoSudo \in [flow : Flows \cup {None}, account : Ids \cup {0}]
BY DEF NoAccount, NoSession, NoProof, NoSudo, AccountType, SessionType, ProofType, Handles

LEMMA TypeInit == Init => TypeOK
<1> SUFFICES ASSUME Init PROVE TypeOK
  OBVIOUS
<1>1. provider \in [Providers -> ProviderType]
  BY DEF Init, ProviderType
<1>2. accounts \in [Ids -> AccountType]
  <2>1. [person |-> Root, at |-> "OIDC", handle |-> Handle[Root], admin |-> TRUE] \in AccountType
    BY DEF AccountType, Handles
  <2>2. QED
    BY <2>1, NullsTyped DEF Init
<1>3. flow \in [Flows -> FlowType]
  <2>1. [kind |-> "login", phase |-> "idle", reads |-> None, meta |-> None,
         account |-> 0, handle |-> None, end |-> "none"] \in FlowType
    BY DEF FlowType, Kinds, Phases, Handles, Ends
  <2>2. QED
    BY <2>1 DEF Init
<1>4. jar \in JarType
  BY NullsTyped DEF Init, JarType
<1>5. session \in SessionType
  <2>1. [account |-> 1, admin |-> FALSE, by |-> None] \in SessionType
    BY IdsAssumption DEF SessionType
  <2>2. QED
    BY <2>1, NullsTyped DEF Init
<1>6. QED
  BY <1>1, <1>2, <1>3, <1>4, <1>5, NullsTyped DEF Init, TypeOK

(***************************************************************************)
(* How a step changes the record of one flow: Others and the fields kept.  *)
(***************************************************************************)
Flowing == flow \in [Flows -> FlowType]
Others(f) == \A g \in Flows : g # f => flow'[g] = flow[g]
SameAsk(f) == flow'[f].kind = flow[f].kind /\ flow'[f].account = flow[f].account
SameMeta(f) == flow'[f].reads = flow[f].reads /\ flow'[f].meta = flow[f].meta

LEMMA GoesIs ==
  ASSUME Flowing, NEW f \in Flows, NEW ph \in Phases, Goes(f, ph)
  PROVE  Flowing' /\ Others(f) /\ flow'[f].phase = ph /\ SameAsk(f) /\ SameMeta(f)
BY DEF Flowing, Goes, FlowType, Others, SameAsk, SameMeta

LEMMA RefusedIs ==
  ASSUME Flowing, NEW f \in Flows, NEW why \in Ends, Refused(f, why), "ended" \in Phases
  PROVE  Flowing' /\ Others(f) /\ flow'[f].phase = "ended" /\ SameAsk(f) /\ SameMeta(f)
BY DEF Flowing, Refused, FlowType, Others, SameAsk, SameMeta

LEMMA BeginIs ==
  ASSUME Flowing, NEW f \in Flows, NEW kind \in Kinds, NEW id \in Ids \cup {0},
         Begin(f, kind, id), "asking" \in Phases
  PROVE  Flowing' /\ Others(f) /\ flow'[f].phase = "asking" /\ flow'[f].kind = kind
         /\ flow'[f].account = id
BY DEF Flowing, Begin, FlowType, Others

LEMMA LdapIs ==
  ASSUME Flowing, NEW f \in Flows, "ldap" \in Kinds, "proving" \in Phases,
         flow' = [flow EXCEPT ![f] = [@ EXCEPT !.kind = "ldap", !.phase = "proving"]]
  PROVE  Flowing' /\ Others(f) /\ flow'[f].phase = "proving" /\ flow'[f].kind = "ldap"
         /\ SameMeta(f) /\ flow'[f].account = flow[f].account
BY DEF Flowing, FlowType, Others, SameMeta

LEMMA DownIs ==
  ASSUME Flowing, NEW why \in [Flows -> Ends], Down(why), "ended" \in Phases
  PROVE  /\ Flowing'
         /\ \A f \in Flows : /\ SameAsk(f) /\ SameMeta(f)
                             /\ AtServer(f) => flow'[f].phase = "ended"
                             /\ ~AtServer(f) => flow'[f] = flow[f]
BY DEF Flowing, Down, FlowType, SameAsk, SameMeta

LEMMA DiscoveredIs ==
  ASSUME Flowing, NEW f \in Flows, NEW ph \in Phases, flow[f].reads \in Issuers,
         flow' = [flow EXCEPT ![f] = [@ EXCEPT !.meta = flow[f].reads, !.phase = ph]]
  PROVE  Flowing' /\ Others(f) /\ flow'[f].phase = ph /\ SameAsk(f)
         /\ flow'[f].reads = flow[f].reads /\ flow'[f].meta = flow[f].reads
BY DEF Flowing, FlowType, Others, SameAsk

-----------------------------------------------------------------------------
(***************************************************************************)
(* The inductive invariant.                                                *)
(***************************************************************************)
Early == {"idle", "asking", "discovering", "redirecting", "proving"}

\* A flow that came back was proven, afresh if it asks for the admin mode; what
\* it is about to be granted is an account of the one who proved it.
Proven(f) ==
  /\ proof[f].person \in People
  /\ flow[f].kind = "sudo" => proof[f].fresh

OfPerson(id, f) ==
  /\ accounts[id].person = proof[f].person
  /\ accounts[id].at \in {At(flow[f].kind), "none"}

FlowOK(f) ==
  /\ flow[f].phase = "idle" => code[f] = "none" /\ flow[f].kind = "login"
  /\ code[f] # "none" \/ flow[f].phase \notin Early \cup {"ended"} => Proven(f)
  /\ flow[f].phase \in {"provisioning", "naming", "creating"} => flow[f].kind # "sudo"
  /\ flow[f].phase = "confirming" => flow[f].kind = "sudo"
  /\ flow[f].phase \in {"discovering", "rediscovering"} => flow[f].reads \in Issuers
  /\ flow[f].phase \in {"redirecting", "exchanging"} => flow[f].meta = flow[f].reads
  /\ flow[f].account \in Ids => accounts[flow[f].account] # NoAccount
  /\ flow[f].kind = "sudo" /\ flow[f].phase # "idle" /\ flow[f].account \in Live =>
        accounts[flow[f].account].at \in {"OIDC", "none"}
  /\ flow[f].phase = "granting" /\ flow[f].account \in Live => OfPerson(flow[f].account, f)

\* The cookies of the admin mode are those of the flow they name.
JarOK ==
  \A f \in Flows : jar.sudo.flow = f =>
     flow[f].kind = "sudo" /\ flow[f].phase # "idle" /\ flow[f].account = jar.sudo.account

SessionOK ==
  /\ session.account \in Ids => accounts[session.account] # NoAccount
  /\ session.admin => session.by \in Flows
  /\ \A f \in Flows : session.by = f =>
        /\ flow[f].phase \notin Early
        /\ session.admin => /\ flow[f].kind = "sudo" /\ proof[f].fresh
                            /\ flow[f].account = session.account
        /\ session.account \in Live => OfPerson(session.account, f)

\* A deleted account is not a free one, and a person has one account.
AccountsOK ==
  /\ \A id \in Ids : accounts[id].person = None =>
        accounts[id] = NoAccount \/ accounts[id].at = "deleted"
  /\ OneAccountEach

CacheOK == \A i \in Issuers : cache[i] \in {i, None}

Inv == TypeOK /\ (\A f \in Flows : FlowOK(f)) /\ JarOK /\ SessionOK /\ AccountsOK /\ CacheOK

LEMMA PhasesAre ==
  /\ {"asking", "discovering", "redirecting", "back", "rediscovering", "exchanging",
      "confirming", "provisioning", "naming", "creating", "granting", "idle", "proving",
      "returning", "ended"} \subseteq Phases
  /\ {"none", "disabled", "idp", "state", "mismatch", "gone", "error", "in", "handle",
      "clash", "crash"} \subseteq Ends
  /\ {"login", "sudo", "ldap"} \subseteq Kinds
BY DEF Phases, ServerPhases, Ends, Kinds

LEMMA InvInit == Init => Inv
<1> SUFFICES ASSUME Init PROVE Inv
  OBVIOUS
<1>1. accounts[1].person = Root /\ accounts[1].at = "OIDC"
      /\ \A id \in Ids \ {1} : accounts[id] = NoAccount
  BY IdsAssumption DEF Init
<1>2. accounts[1] # NoAccount
  BY <1>1, PeopleAssumption DEF NoAccount
<1>3. ASSUME NEW f \in Flows PROVE FlowOK(f)
  <2>1. flow[f].phase = "idle" /\ code[f] = "none" /\ flow[f].account = 0
        /\ flow[f].kind = "login"
    BY DEF Init
  <2>2. QED
    BY <2>1, IdsAssumption DEF FlowOK, Early
<1>4. JarOK
  BY DEF Init, JarOK, NoSudo
<1>5. SessionOK
  BY <1>2, IdsAssumption DEF Init, SessionOK, NoSession
<1>6. AccountsOK
  <2>1. \A id \in Ids : accounts[id].person # None => id = 1
    BY <1>1 DEF NoAccount
  <2>2. OneAccountEach
    BY <2>1 DEF OneAccountEach, Live
  <2>3. ASSUME NEW id \in Ids, accounts[id].person = None PROVE accounts[id] = NoAccount
    BY <1>1, <2>3, PeopleAssumption
  <2>4. QED
    BY <2>2, <2>3 DEF AccountsOK
<1>7. CacheOK
  BY DEF Init, CacheOK
<1>8. QED
  BY <1>3, <1>4, <1>5, <1>6, <1>7, TypeInit DEF Inv

\* What a step of one flow leaves as it was.
LEMMA OneFlow ==
  ASSUME Inv, NEW f \in Flows, Others(f), accounts' = accounts,
         \A g \in Flows : g # f => code'[g] = code[g] /\ proof'[g] = proof[g],
         FlowOK(f)'
  PROVE  \A g \in Flows : FlowOK(g)'
BY DEF Inv, Others, FlowOK, Proven, OfPerson, Live

LEMMA SameSession ==
  ASSUME Inv, NEW f \in Flows, Others(f), accounts' = accounts, session' = session,
         \A g \in Flows : g # f => proof'[g] = proof[g],
         flow[f].phase \in Early
         \/ /\ flow'[f].phase \notin Early /\ flow'[f].kind = flow[f].kind
            /\ proof'[f] = proof[f]
            /\ flow[f].kind = "sudo" => flow'[f].account = flow[f].account
  PROVE  SessionOK'
BY DEF Inv, Others, SessionOK, OfPerson, Live

LEMMA SameJar ==
  ASSUME Inv, NEW f \in Flows, Others(f), jar'.sudo = jar.sudo \/ jar'.sudo = NoSudo,
         flow[f].phase = "idle"
         \/ /\ flow'[f].phase # "idle" /\ flow'[f].kind = flow[f].kind
            /\ flow[f].kind = "sudo" => flow'[f].account = flow[f].account
  PROVE  JarOK'
BY FlowsAssumption DEF Inv, Others, JarOK, NoSudo

\* A step of one flow that leaves the accounts alone.
LEMMA FlowStep ==
  ASSUME Inv, NEW f \in Flows, Flowing', Others(f), FlowOK(f)',
         UNCHANGED <<provider, cache, accounts, session>>,
         code' \in [Flows -> Issuers \cup {None, "none", "used"}],
         proof' \in [Flows -> ProofType],
         \A g \in Flows : g # f => code'[g] = code[g] /\ proof'[g] = proof[g],
         jar' \in JarType, JarOK',
         flow[f].phase \in Early
         \/ /\ flow'[f].phase \notin Early /\ flow'[f].kind = flow[f].kind
            /\ proof'[f] = proof[f]
            /\ flow[f].kind = "sudo" => flow'[f].account = flow[f].account
  PROVE  Inv'
<1>1. TypeOK'
  BY DEF Inv, TypeOK, Flowing
<1>2. \A g \in Flows : FlowOK(g)'
  BY OneFlow
<1>3. SessionOK'
  BY SameSession
<1>4. AccountsOK' /\ CacheOK'
  BY DEF Inv, AccountsOK, CacheOK, OneAccountEach, Live
<1>5. QED
  BY <1>1, <1>2, <1>3, <1>4 DEF Inv

\* The record stays but for what a lemma above says of the action.
LEMMA StartsKeep ==
  ASSUME Inv, NEW f \in Flows, StartLogin(f) \/ StartSudo(f) \/ StartLdap(f)
  PROVE  Inv'
<1> USE PhasesAre DEF adminVars, browserVars
<1>1. Flowing /\ flow[f].phase = "idle" /\ FlowOK(f)
  BY DEF Inv, TypeOK, Flowing, StartLogin, StartSudo, StartLdap
<1>2. Flowing' /\ Others(f) /\ FlowOK(f)'
  <2>1. CASE StartLogin(f)
    <3>1. Begin(f, "login", 0) /\ UNCHANGED <<accounts, code, proof>>
      BY <2>1 DEF StartLogin
    <3>2. Flowing' /\ Others(f) /\ flow'[f].phase = "asking" /\ flow'[f].kind = "login"
          /\ flow'[f].account = 0
      BY <1>1, <3>1, BeginIs
    <3>3. QED
      BY <1>1, <3>1, <3>2, IdsAssumption DEF FlowOK, Early, Proven
  <2>2. CASE StartSudo(f)
    <3>1. Begin(f, "sudo", session.account) /\ UNCHANGED <<accounts, code, proof>>
          /\ session.account \in Live /\ accounts[session.account].at = "OIDC"
      BY <2>2 DEF StartSudo
    <3>2. session.account \in Ids /\ accounts[session.account] # NoAccount
      BY <3>1 DEF Live, Inv, SessionOK
    <3>3. Flowing' /\ Others(f) /\ flow'[f].phase = "asking" /\ flow'[f].kind = "sudo"
          /\ flow'[f].account = session.account
      BY <1>1, <3>1, <3>2, BeginIs
    <3>4. QED
      BY <1>1, <3>1, <3>2, <3>3 DEF FlowOK, Early, Proven, Live
  <2>3. CASE StartLdap(f)
    <3>1. UNCHANGED <<accounts, code, proof>>
      BY <2>3 DEF StartLdap
    <3>2. /\ Flowing' /\ Others(f) /\ flow'[f].account = flow[f].account
          /\ flow'[f].phase \in {"ended", "proving"} /\ flow'[f].kind # "sudo"
      BY <1>1, <2>3, LdapIs, RefusedIs DEF StartLdap, SameAsk, FlowOK
    <3>3. QED
      BY <1>1, <3>1, <3>2 DEF FlowOK, Early, Proven, Live
  <2>4. QED
    BY <2>1, <2>2, <2>3
<1>3. /\ UNCHANGED <<provider, cache, accounts, code, proof, jar, session>>
      /\ flow[f].phase \in Early
  BY <1>1 DEF StartLogin, StartSudo, StartLdap, Early
<1>4. JarOK'
  BY <1>1, <1>2, <1>3, SameJar
<1>5. QED
  BY <1>1, <1>2, <1>3, <1>4, FlowStep DEF Inv, TypeOK

LEMMA AsksIs ==
  ASSUME Inv, NEW f \in Flows, NEW a \in Phases, NEW b \in Phases, Asks(f, a, b)
  PROVE  /\ Flowing' /\ Others(f) /\ SameAsk(f)
         /\ \/ ~Enabled("OIDC") /\ flow'[f].phase = "ended"
            \/ /\ Enabled("OIDC") /\ flow'[f].reads \in Issuers
               /\ flow'[f].phase \in {a, b}
               /\ flow'[f].phase = a \/ flow'[f].meta = flow'[f].reads
<1> DEFINE i == provider["OIDC"].issuer
           ph == IF cache[i] = None THEN a ELSE b
<1>1. i \in Issuers /\ cache[i] \in {i, None}
  BY DEF Inv, TypeOK, CacheOK, ProviderType
<1>2. CASE ~Enabled("OIDC")
  BY <1>2, RefusedIs, PhasesAre DEF Inv, TypeOK, Flowing, Asks
<1>3. CASE Enabled("OIDC")
  <2>1. flow' = [flow EXCEPT ![f] = [@ EXCEPT !.reads = i, !.meta = cache[i], !.phase = ph]]
    BY <1>3 DEF Asks, CacheKey
  <2>2. ph \in Phases /\ Flowing /\ i \in Issuers \cup {None}
        /\ cache[i] \in Issuers \cup {None}
    BY <1>1 DEF Inv, TypeOK, Flowing
  <2> HIDE DEF i, ph
  <2>3. Flowing' /\ Others(f) /\ flow'[f].phase = ph /\ SameAsk(f)
        /\ flow'[f].reads = i /\ flow'[f].meta = cache[i]
    BY <2>1, <2>2 DEF Flowing, FlowType, Others, SameAsk
  <2>4. QED
    BY <1>1, <1>3, <2>3, IssuersAssumption DEF ph
<1>4. QED
  BY <1>2, <1>3

LEMMA AskForRedirectKeeps ==
  ASSUME Inv, NEW f \in Flows, AskForRedirect(f) PROVE Inv'
<1> USE PhasesAre DEF adminVars, browserVars
<1>1. Flowing /\ FlowOK(f) /\ flow[f].phase = "asking" /\ flow[f].phase \in Early
  BY DEF Inv, TypeOK, Flowing, AskForRedirect, Early
<1>2. UNCHANGED <<provider, cache, accounts, session, code, proof, jar>>
  BY DEF AskForRedirect
<1>3. /\ Flowing' /\ Others(f) /\ SameAsk(f)
      /\ \/ flow'[f].phase = "ended"
         \/ flow'[f].phase = "discovering" /\ flow'[f].reads \in Issuers
         \/ flow'[f].phase = "redirecting" /\ flow'[f].meta = flow'[f].reads
  BY AsksIs DEF AskForRedirect
<1>4. FlowOK(f)'
  BY <1>1, <1>2, <1>3 DEF FlowOK, Early, Proven, SameAsk, Live
<1>5. JarOK'
  BY <1>1, <1>2, <1>3, SameJar DEF SameAsk
<1>6. QED
  BY <1>1, <1>2, <1>3, <1>4, <1>5, FlowStep DEF Inv, TypeOK

LEMMA ClearSudoIs ==
  ASSUME TypeOK, NEW f, ClearSudo(f) \/ jar' = jar
  PROVE  jar' \in JarType /\ (jar'.sudo = jar.sudo \/ jar'.sudo = NoSudo)
BY NullsTyped DEF TypeOK, ClearSudo, JarType

LEMMA AskForExchangeKeeps ==
  ASSUME Inv, NEW f \in Flows, AskForExchange(f) PROVE Inv'
<1> USE PhasesAre DEF adminVars, browserVars
<1>1. Flowing /\ FlowOK(f) /\ flow[f].phase = "back"
  BY DEF Inv, TypeOK, Flowing, AskForExchange, Early
<1>2. UNCHANGED <<provider, cache, accounts, session, code, proof>>
  BY DEF AskForExchange
<1>3. /\ Flowing' /\ Others(f) /\ SameAsk(f)
      /\ \/ flow'[f].phase = "ended"
         \/ flow'[f].phase = "rediscovering" /\ flow'[f].reads \in Issuers
         \/ flow'[f].phase = "exchanging" /\ flow'[f].meta = flow'[f].reads
  BY AsksIs DEF AskForExchange
<1>4. FlowOK(f)'
  BY <1>1, <1>2, <1>3 DEF FlowOK, Early, Proven, SameAsk, Live
<1>5. jar' \in JarType /\ (jar'.sudo = jar.sudo \/ jar'.sudo = NoSudo)
  BY ClearSudoIs DEF AskForExchange, Inv
<1>6. JarOK'
  BY <1>1, <1>3, <1>5, SameJar DEF SameAsk
<1>7. QED
  BY <1>1, <1>2, <1>3, <1>4, <1>5, <1>6, FlowStep DEF Inv, TypeOK, Early, SameAsk

LEMMA RedirectKeeps ==
  ASSUME Inv, NEW f \in Flows, Redirect(f) PROVE Inv'
<1> USE PhasesAre DEF adminVars, browserVars
<1>1. Flowing /\ FlowOK(f) /\ flow[f].phase = "redirecting" /\ flow[f].phase \in Early
      /\ jar \in JarType /\ flow[f].account \in Ids \cup {0} /\ JarOK
  BY DEF Inv, TypeOK, Flowing, Redirect, Handshake, Early, FlowType
<1>2. UNCHANGED <<provider, cache, accounts, session, code, proof>>
  BY DEF Redirect, Handshake
<1>3. Flowing' /\ Others(f) /\ SameAsk(f) /\ flow'[f].phase \in {"ended", "proving"}
  BY <1>1, RefusedIs, GoesIs DEF Redirect, Handshake
<1>4. FlowOK(f)'
  BY <1>1, <1>2, <1>3 DEF FlowOK, Early, Proven, SameAsk, Live
<1>5. jar' \in JarType
  BY <1>1 DEF Redirect, Handshake, JarType
<1>6. \/ jar'.sudo = jar.sudo
      \/ /\ flow[f].kind = "sudo"
         /\ jar'.sudo = [flow |-> f, account |-> flow[f].account]
  <2>1. jar' = jar \/ jar' = [jar EXCEPT !.login = f]
        \/ /\ flow[f].kind = "sudo"
           /\ jar' = [jar EXCEPT !.sudo = [flow |-> f, account |-> flow[f].account]]
    BY DEF Redirect, Handshake
  <2>2. QED
    BY <1>1, <2>1 DEF JarType
<1>7. JarOK'
  BY <1>1, <1>3, <1>6 DEF JarOK, SameAsk, Others
<1>8. QED
  BY <1>1, <1>2, <1>3, <1>4, <1>5, <1>7, FlowStep DEF Inv, TypeOK

LEMMA ProveKeeps ==
  ASSUME Inv, NEW f \in Flows, Prove(f) PROVE Inv'
<1> USE PhasesAre DEF adminVars, browserVars
<1>1. Flowing /\ FlowOK(f) /\ flow[f].phase = "proving" /\ flow[f].phase \in Early
      /\ flow[f].meta \in Issuers \cup {None} /\ flow[f].kind \in Kinds
  BY DEF Inv, TypeOK, Flowing, Prove, Early, FlowType
<1>2. UNCHANGED <<provider, cache, accounts, session, jar>>
  BY DEF Prove
<1>3. /\ Flowing' /\ Others(f) /\ SameAsk(f)
      /\ \/ flow'[f].phase = "provisioning" /\ flow[f].kind = "ldap"
         \/ flow'[f].phase = "returning"
  BY <1>1, GoesIs DEF Prove
<1>4. PICK person \in People, fresh \in BOOLEAN :
        /\ flow[f].kind = "sudo" => fresh
        /\ proof' = [proof EXCEPT ![f] = [person |-> person, fresh |-> fresh]]
  BY DEF Prove, MustAsk
<1>5. /\ proof' \in [Flows -> ProofType] /\ Proven(f)'
      /\ \A g \in Flows : g # f => proof'[g] = proof[g]
  BY <1>3, <1>4 DEF Inv, TypeOK, ProofType, Proven, SameAsk
<1>6. /\ code' \in [Flows -> Issuers \cup {None, "none", "used"}]
      /\ \A g \in Flows : g # f => code'[g] = code[g]
  BY <1>1 DEF Inv, TypeOK, Prove
<1>7. FlowOK(f)'
  BY <1>1, <1>2, <1>3, <1>5 DEF FlowOK, Early, SameAsk, Live
<1>8. JarOK'
  BY <1>1, <1>2, <1>3, SameJar DEF SameAsk
<1>9. QED
  BY <1>1, <1>2, <1>3, <1>5, <1>6, <1>7, <1>8, FlowStep DEF Inv, TypeOK

\* Refusals, and steps from one phase to the next that touch nothing else.
LEMMA PassingKeeps ==
  ASSUME Inv, NEW f \in Flows, Flowing', Others(f), SameAsk(f), SameMeta(f),
         UNCHANGED <<provider, cache, accounts, session, proof>>,
         code' \in [Flows -> Issuers \cup {None, "none", "used"}],
         \A g \in Flows : g # f => code'[g] = code[g],
         code'[f] # "none" => code[f] # "none" \/ Proven(f),
         ClearSudo(f) \/ UNCHANGED jar,
         flow[f].phase # "idle", FlowOK(f)',
         flow[f].phase \in Early \/ flow'[f].phase \notin Early,
         flow'[f].phase # "idle"
  PROVE  Inv'
<1>1. jar' \in JarType /\ (jar'.sudo = jar.sudo \/ jar'.sudo = NoSudo)
  BY ClearSudoIs DEF Inv
<1>2. JarOK'
  BY <1>1, SameJar DEF SameAsk
<1>3. QED
  BY <1>1, <1>2, FlowStep DEF Inv, TypeOK, SameAsk

LEMMA RefusalsKeep ==
  ASSUME Inv, NEW f \in Flows,
         Denied(f) \/ DiscoveryFails(f) \/ ExchangeFails(f) \/ GrantFails(f)
  PROVE  Inv'
<1> USE PhasesAre DEF adminVars, browserVars
<1>1. Flowing /\ FlowOK(f) /\ flow[f].phase # "idle"
  BY DEF Inv, TypeOK, Flowing, Denied, DiscoveryFails, ExchangeFails, GrantFails
<1>2. /\ UNCHANGED <<provider, cache, accounts, session, code, proof>>
      /\ ClearSudo(f) \/ UNCHANGED jar
  BY DEF Denied, DiscoveryFails, ExchangeFails, GrantFails
<1>3. Flowing' /\ Others(f) /\ SameAsk(f) /\ SameMeta(f) /\ flow'[f].phase = "ended"
  BY <1>1, RefusedIs DEF Denied, DiscoveryFails, ExchangeFails, GrantFails
<1>4. FlowOK(f)'
  BY <1>1, <1>2, <1>3 DEF FlowOK, Early, Proven, SameAsk, Live
<1>5. QED
  BY <1>1, <1>2, <1>3, <1>4, PassingKeeps DEF Inv, TypeOK, Early

LEMMA ReloadKeeps ==
  ASSUME Inv, NEW f \in Flows, Reload(f) PROVE Inv'
<1> USE PhasesAre DEF adminVars, browserVars
<1>1. Flowing /\ FlowOK(f) /\ flow[f].phase = "ended" /\ code[f] # "none"
  BY DEF Inv, TypeOK, Flowing, Reload
<1>2. UNCHANGED <<provider, cache, accounts, session, code, proof, jar>>
  BY DEF Reload
<1>3. Flowing' /\ Others(f) /\ SameAsk(f) /\ SameMeta(f) /\ flow'[f].phase = "returning"
  BY <1>1, GoesIs DEF Reload
<1>4. FlowOK(f)'
  BY <1>1, <1>2, <1>3 DEF FlowOK, Early, Proven, SameAsk, Live
<1>5. QED
  BY <1>1, <1>2, <1>3, <1>4, PassingKeeps DEF Inv, TypeOK, Early

LEMMA ExchangeKeeps ==
  ASSUME Inv, NEW f \in Flows, Exchange(f) PROVE Inv'
<1> USE PhasesAre DEF adminVars, browserVars
<1>1. Flowing /\ FlowOK(f) /\ flow[f].phase = "exchanging" /\ Proven(f)
  BY DEF Inv, TypeOK, Flowing, Exchange, FlowOK, Early
<1>2. /\ UNCHANGED <<provider, cache, accounts, session, proof, jar>>
      /\ code' \in [Flows -> Issuers \cup {None, "none", "used"}]
      /\ \A g \in Flows : g # f => code'[g] = code[g]
  BY DEF Exchange, Inv, TypeOK
<1>3. /\ Flowing' /\ Others(f) /\ SameAsk(f) /\ SameMeta(f)
      /\ \/ flow'[f].phase = "confirming" /\ flow[f].kind = "sudo"
         \/ flow'[f].phase = "provisioning" /\ flow[f].kind # "sudo"
  BY <1>1, GoesIs DEF Exchange
<1>4. FlowOK(f)'
  BY <1>1, <1>2, <1>3 DEF FlowOK, Early, Proven, SameAsk, Live
<1>5. QED
  BY <1>1, <1>2, <1>3, <1>4, PassingKeeps DEF Early

LEMMA ConfirmKeeps ==
  ASSUME Inv, NEW f \in Flows, Confirm(f) PROVE Inv'
<1> USE PhasesAre DEF adminVars, browserVars
<1>1. Flowing /\ FlowOK(f) /\ flow[f].phase = "confirming" /\ flow[f].kind = "sudo"
      /\ Proven(f)
  BY DEF Inv, TypeOK, Flowing, Confirm, FlowOK, Early
<1>2. /\ UNCHANGED <<provider, cache, accounts, session, code, proof>>
      /\ ClearSudo(f) \/ UNCHANGED jar
  BY DEF Confirm
<1>3. /\ Flowing' /\ Others(f) /\ SameAsk(f) /\ SameMeta(f)
      /\ \/ flow'[f].phase = "granting" /\ Confirmed(f)
         \/ flow'[f].phase = "ended"
  BY <1>1, GoesIs, RefusedIs DEF Confirm
<1>4. FlowOK(f)'
  BY <1>1, <1>2, <1>3 DEF FlowOK, Early, Proven, SameAsk, Live, Confirmed, OfPerson, At
<1>5. QED
  BY <1>1, <1>2, <1>3, <1>4, PassingKeeps DEF Inv, TypeOK, Early

LEMMA CallbackKeeps ==
  ASSUME Inv, NEW f \in Flows, Callback(f) PROVE Inv'
<1> USE PhasesAre DEF adminVars, browserVars
<1>1. Flowing /\ FlowOK(f) /\ flow[f].phase = "returning" /\ jar \in JarType /\ JarOK
      /\ jar.sudo.account \in Ids \cup {0} /\ Proven(f)
  BY DEF Inv, TypeOK, Flowing, Callback, JarType, FlowOK, Early
<1>2. UNCHANGED <<provider, cache, accounts, session, code, proof>>
  BY DEF Callback
<1>3. /\ Flowing' /\ Others(f) /\ SameMeta(f) /\ flow'[f].kind = flow[f].kind
      /\ flow'[f].phase \in {"back", "ended"} /\ flow'[f].account = flow[f].account
  <2>1. CASE jar.sudo.flow = f
    <3>1. flow' = [flow EXCEPT ![f] = [@ EXCEPT !.phase = "back",
                                                !.account = jar.sudo.account]]
      BY <2>1 DEF Callback, ToSudo
    <3>2. Flowing' /\ Others(f) /\ SameMeta(f) /\ flow'[f].kind = flow[f].kind
          /\ flow'[f].phase = "back" /\ flow'[f].account = jar.sudo.account
      BY <1>1, <3>1 DEF Flowing, FlowType, Others, SameMeta
    <3>3. QED
      BY <1>1, <2>1, <3>2 DEF JarOK
  <2>2. CASE jar.sudo.flow # f
    BY <1>1, <2>2, GoesIs, RefusedIs DEF Callback, SameAsk
  <2>3. QED
    BY <2>1, <2>2
<1>4. FlowOK(f)'
  BY <1>1, <1>2, <1>3 DEF FlowOK, Early, Proven, Live
<1>5. jar' \in JarType /\ (jar'.sudo = jar.sudo \/ jar'.sudo = NoSudo)
  BY <1>1, NullsTyped DEF Callback, JarType
<1>6. JarOK'
  BY <1>1, <1>3, <1>5, SameJar
<1>7. QED
  BY <1>1, <1>2, <1>3, <1>4, <1>5, <1>6, FlowStep DEF Inv, TypeOK, Early

LEMMA DiscoveredKeeps ==
  ASSUME Inv, NEW f \in Flows, Discovered(f) PROVE Inv'
<1> USE PhasesAre DEF adminVars, browserVars
<1>1. Flowing /\ FlowOK(f) /\ flow[f].phase \in {"discovering", "rediscovering"}
      /\ flow[f].reads \in Issuers /\ Ready(flow[f].phase) \in Phases
  BY DEF Inv, TypeOK, Flowing, Discovered, FlowOK, Ready
<1>2. UNCHANGED <<provider, accounts, session, code, proof, jar>>
  BY DEF Discovered
<1>3. /\ Flowing' /\ Others(f) /\ SameAsk(f)
      /\ flow'[f].meta = flow'[f].reads /\ flow'[f].phase = Ready(flow[f].phase)
  BY <1>1, DiscoveredIs DEF Discovered
<1>4. FlowOK(f)'
  BY <1>1, <1>2, <1>3 DEF FlowOK, Early, Proven, SameAsk, Live, Ready
<1>5. /\ cache' \in [Issuers -> Issuers \cup {None}] /\ CacheOK'
  BY <1>1 DEF Inv, TypeOK, CacheOK, Discovered, CacheKey
<1>6. TypeOK'
  BY <1>2, <1>3, <1>5 DEF Inv, TypeOK, Flowing
<1>7. \A g \in Flows : FlowOK(g)'
  BY <1>2, <1>3, <1>4, OneFlow
<1>8. SessionOK'
  BY <1>1, <1>2, <1>3, SameSession DEF Early, SameAsk, Ready
<1>9. JarOK'
  BY <1>1, <1>2, <1>3, SameJar DEF SameAsk, Ready
<1>10. AccountsOK'
  BY <1>2 DEF Inv, AccountsOK, OneAccountEach, Live
<1>11. QED
  BY <1>5, <1>6, <1>7, <1>8, <1>9, <1>10 DEF Inv

LEMMA LookUpKeeps ==
  ASSUME Inv, NEW f \in Flows, LookUp(f) PROVE Inv'
<1> USE PhasesAre DEF adminVars, browserVars
<1>1. Flowing /\ FlowOK(f) /\ flow[f].phase = "provisioning" /\ flow[f].kind # "sudo"
      /\ Proven(f) /\ flow[f].kind \in Kinds
  BY DEF Inv, TypeOK, Flowing, LookUp, FlowOK, Early, FlowType
<1>2. UNCHANGED <<provider, cache, accounts, session, code, proof, jar>>
  BY DEF LookUp
<1>3. /\ Flowing' /\ Others(f) /\ flow'[f].kind = flow[f].kind
      /\ \/ flow'[f].phase = "naming" /\ flow'[f].account = flow[f].account
         \/ flow'[f].phase = "granting" /\ flow'[f].account \in Matches(f)
  <2>1. CASE Matches(f) # {}
    <3>1. PICK id \in Matches(f) :
             flow' = [flow EXCEPT ![f] = [@ EXCEPT !.phase = "granting", !.account = id]]
      BY <2>1 DEF LookUp
    <3>2. id \in Ids \cup {0}
      BY DEF Matches, Live
    <3>3. QED
      BY <1>1, <3>1, <3>2 DEF Flowing, FlowType, Others
  <2>2. CASE Matches(f) = {}
    BY <1>1, <2>2, GoesIs DEF LookUp, SameAsk
  <2>3. QED
    BY <2>1, <2>2
<1>4. \A id \in Matches(f) : id \in Live /\ accounts[id] # NoAccount /\ OfPerson(id, f)
  BY DEF Matches, Live, OfPerson, NoAccount
<1>5. FlowOK(f)'
  BY <1>1, <1>2, <1>3, <1>4 DEF FlowOK, Early, Proven, Live, OfPerson
<1>6. JarOK'
  BY <1>1, <1>2, <1>3, SameJar
<1>7. QED
  BY <1>1, <1>2, <1>3, <1>5, <1>6, FlowStep DEF Inv, TypeOK, Early

LEMMA PickHandleKeeps ==
  ASSUME Inv, NEW f \in Flows, PickHandle(f) PROVE Inv'
<1> USE PhasesAre DEF adminVars, browserVars
<1>1. Flowing /\ FlowOK(f) /\ flow[f].phase = "naming" /\ Proven(f)
  BY DEF Inv, TypeOK, Flowing, PickHandle, FlowOK, Early
<1>2. UNCHANGED <<provider, cache, accounts, session, code, proof, jar>>
  BY DEF PickHandle
<1>3. /\ Flowing' /\ Others(f) /\ SameAsk(f) /\ SameMeta(f) /\ flow'[f].phase = "creating"
  <2> DEFINE name == Handle[proof[f].person]
             h == IF Taken(name) THEN None ELSE name
  <2>1. flow' = [flow EXCEPT ![f] = [@ EXCEPT !.phase = "creating", !.handle = h]]
    BY DEF PickHandle
  <2>2. h \in Handles
    BY <1>1 DEF Handles, Proven
  <2> HIDE DEF h
  <2>3. QED
    BY <1>1, <2>1, <2>2 DEF Flowing, FlowType, Others, SameAsk, SameMeta
<1>4. FlowOK(f)'
  BY <1>1, <1>2, <1>3 DEF FlowOK, Early, Proven, SameAsk, Live
<1>5. QED
  BY <1>1, <1>2, <1>3, <1>4, PassingKeeps DEF Inv, TypeOK, Early

LEMMA CreateKeeps ==
  ASSUME Inv, NEW f \in Flows, Create(f) PROVE Inv'
<1> USE PhasesAre DEF adminVars, browserVars
<1>1. Flowing /\ FlowOK(f) /\ flow[f].phase = "creating" /\ flow[f].kind # "sudo"
      /\ Proven(f) /\ ~EmailClash(f)
      /\ flow[f].kind \in Kinds /\ flow[f].handle \in Handles
  BY DEF Inv, TypeOK, Flowing, Create, Clash, FlowOK, Early, FlowType
<1>2. UNCHANGED <<provider, cache, session, code, proof, jar>>
  BY DEF Create
<1> DEFINE new == [person |-> proof[f].person, at |-> At(flow[f].kind),
                   handle |-> flow[f].handle, admin |-> FALSE]
<1>3. PICK id \in Free :
        /\ accounts' = [accounts EXCEPT ![id] = new]
        /\ flow' = [flow EXCEPT ![f] = [@ EXCEPT !.phase = "granting", !.account = id]]
  BY DEF Create
<1>4. id \in Ids /\ accounts[id] = NoAccount
  BY DEF Free
<1>5. /\ Flowing' /\ Others(f) /\ flow'[f].kind = flow[f].kind
      /\ flow'[f].phase = "granting" /\ flow'[f].account = id
  <2> HIDE DEF new
  <2>1. QED
    BY <1>1, <1>3, <1>4 DEF Flowing, FlowType, Others
<1>6. /\ new \in AccountType /\ new.person = proof[f].person /\ new.at = At(flow[f].kind)
      /\ new.person # None /\ new # NoAccount
  BY <1>1, PeopleAssumption DEF AccountType, At, Proven, NoAccount
<1> HIDE DEF new
<1>7. /\ accounts' \in [Ids -> AccountType] /\ accounts'[id] = new
      /\ \A other \in Ids : other # id => accounts'[other] = accounts[other]
  BY <1>3, <1>4, <1>6 DEF Inv, TypeOK
<1>8. \A g \in Flows : FlowOK(g)'
  <2>1. FlowOK(f)'
    BY <1>1, <1>2, <1>4, <1>5, <1>6, <1>7 DEF FlowOK, Early, Proven, Live, OfPerson
  <2>2. ASSUME NEW g \in Flows, g # f PROVE FlowOK(g)'
    <3>1. flow'[g] = flow[g] /\ FlowOK(g) /\ flow[g].account # id
      BY <1>4, <1>5, <2>2 DEF Others, Inv, FlowOK
    <3>2. flow[g].account \in Ids \cup {0}
      BY DEF Inv, TypeOK, FlowType
    <3>3. QED
      BY <1>2, <1>7, <3>1, <3>2 DEF FlowOK, Proven, Live, OfPerson
  <2>3. QED
    BY <2>1, <2>2
<1>9. SessionOK'
  <2>1. session.account # id
    BY <1>4 DEF Inv, SessionOK
  <2>2. QED
    BY <1>1, <1>2, <1>5, <1>7, <2>1 DEF Inv, SessionOK, Others, Early, OfPerson, Live
<1>10. JarOK'
  BY <1>1, <1>2, <1>5, SameJar
<1>11. AccountsOK'
  BY <1>1, <1>4, <1>6, <1>7 DEF Inv, AccountsOK, OneAccountEach, EmailClash, Live
<1>12. QED
  BY <1>2, <1>5, <1>7, <1>8, <1>9, <1>10, <1>11 DEF Inv, TypeOK, Flowing, CacheOK

LEMMA DownKeeps ==
  ASSUME Inv, NEW why \in [Flows -> Ends], Down(why),
         UNCHANGED <<provider, accounts, code, jar, session, proof>>
  PROVE  Inv'
<1> USE PhasesAre
<1>1. /\ Flowing'
      /\ \A f \in Flows : /\ SameAsk(f) /\ SameMeta(f)
                          /\ (flow'[f].phase = "ended" /\ AtServer(f)) \/ flow'[f] = flow[f]
  BY DownIs DEF Inv, TypeOK, Flowing
<1>2. cache' \in [Issuers -> Issuers \cup {None}] /\ CacheOK'
  BY DEF Down, CacheOK
<1>3. \A f \in Flows : AtServer(f) => flow[f].phase # "idle"
  BY DEF AtServer, ServerPhases
<1>4. ASSUME NEW f \in Flows PROVE FlowOK(f)'
  BY <1>1, <1>3 DEF Inv, FlowOK, Early, Proven, SameAsk, Live, OfPerson
<1>5. JarOK'
  BY <1>1 DEF Inv, JarOK, SameAsk
<1>6. SessionOK'
  BY <1>1 DEF Inv, SessionOK, SameAsk, Early, OfPerson, Live
<1>7. QED
  BY <1>1, <1>2, <1>4, <1>5, <1>6 DEF Inv, TypeOK, Flowing, AccountsOK, OneAccountEach, Live

LEMMA CreateRefusedKeeps ==
  ASSUME Inv, NEW f \in Flows, CreateRefused(f) PROVE Inv'
<1> USE PhasesAre DEF adminVars, browserVars
<1>1. Flowing /\ FlowOK(f) /\ flow[f].phase = "creating" /\ Why(f) \in Ends
  BY DEF Inv, TypeOK, Flowing, CreateRefused, Why
<1>2. UNCHANGED <<provider, accounts, session, code, proof, jar>>
  BY DEF CreateRefused
<1>3. CASE flow[f].kind = "ldap"
  <2> DEFINE why == [g \in Flows |-> IF g = f THEN Why(f) ELSE "crash"]
  <2>1. Down(why)
    BY <1>3 DEF CreateRefused
  <2>2. why \in [Flows -> Ends]
    BY <1>1
  <2> HIDE DEF why
  <2>3. QED
    BY <1>2, <2>1, <2>2, DownKeeps
<1>4. CASE flow[f].kind # "ldap"
  <2>1. Refused(f, Why(f)) /\ cache' = cache
    BY <1>4 DEF CreateRefused
  <2>2. Flowing' /\ Others(f) /\ SameAsk(f) /\ SameMeta(f) /\ flow'[f].phase = "ended"
    BY <1>1, <2>1, RefusedIs
  <2>3. FlowOK(f)'
    BY <1>1, <1>2, <2>2 DEF FlowOK, Early, Proven, SameAsk, Live
  <2>4. QED
    BY <1>1, <1>2, <2>1, <2>2, <2>3, PassingKeeps DEF Inv, TypeOK, Early
<1>5. QED
  BY <1>3, <1>4

LEMMA GrantKeeps ==
  ASSUME Inv, NEW f \in Flows, Grant(f) PROVE Inv'
<1> USE PhasesAre DEF adminVars, browserVars
<1>1. Flowing /\ FlowOK(f) /\ flow[f].phase = "granting" /\ Proven(f) /\ jar \in JarType
      /\ flow[f].account \in Ids \cup {0}
  BY DEF Inv, TypeOK, Flowing, Grant, SignedIn, FlowOK, Early, FlowType
<1>2. UNCHANGED <<provider, cache, accounts, code, proof>>
  BY DEF Grant, SignedIn
<1>3. CASE flow[f].account \notin Live
  <2>1. Refused(f, "gone") /\ UNCHANGED <<jar, session>>
    BY <1>3 DEF Grant, SignedIn
  <2>2. Flowing' /\ Others(f) /\ SameAsk(f) /\ SameMeta(f) /\ flow'[f].phase = "ended"
    BY <1>1, <2>1, RefusedIs
  <2>3. FlowOK(f)'
    BY <1>1, <1>2, <2>2 DEF FlowOK, Early, Proven, SameAsk, Live
  <2>4. QED
    BY <1>1, <1>2, <2>1, <2>2, <2>3, PassingKeeps DEF Inv, TypeOK, Early
<1>4. CASE flow[f].account \in Live
  <2>1. /\ Refused(f, "in") /\ jar' = Cleared(flow[f].kind)
        /\ session' = [account |-> flow[f].account, admin |-> flow[f].kind = "sudo", by |-> f]
    BY <1>4 DEF Grant, SignedIn, Refused
  <2>2. Flowing' /\ Others(f) /\ SameAsk(f) /\ SameMeta(f) /\ flow'[f].phase = "ended"
    BY <1>1, <2>1, RefusedIs
  <2>3. FlowOK(f)'
    BY <1>1, <1>2, <2>2 DEF FlowOK, Early, Proven, SameAsk, Live
  <2>4. \A g \in Flows : FlowOK(g)'
    BY <1>2, <2>2, <2>3, OneFlow
  <2>5. jar' \in JarType /\ (jar'.sudo = jar.sudo \/ jar'.sudo = NoSudo)
    BY <1>1, <2>1, NullsTyped DEF Cleared, JarType
  <2>6. JarOK'
    BY <1>1, <2>2, <2>5, SameJar DEF SameAsk
  <2>7. session' \in SessionType /\ session'.by = f
        /\ session'.account = flow[f].account /\ (session'.admin <=> flow[f].kind = "sudo")
    <3>1. (flow[f].kind = "sudo") \in BOOLEAN
      OBVIOUS
    <3>2. QED
      BY <1>1, <2>1, <3>1 DEF SessionType
  <2>8. OfPerson(flow[f].account, f)' /\ accounts[flow[f].account] # NoAccount
    BY <1>1, <1>2, <1>4, <2>2 DEF FlowOK, OfPerson, SameAsk, Live
  <2>9. SessionOK'
    BY <1>1, <1>2, <2>2, <2>7, <2>8 DEF SessionOK, SameAsk, Early, Proven
  <2>10. TypeOK'
    BY <1>2, <2>2, <2>5, <2>7 DEF Inv, TypeOK, Flowing
  <2>11. AccountsOK' /\ CacheOK'
    BY <1>2 DEF Inv, AccountsOK, CacheOK, OneAccountEach, Live
  <2>12. QED
    BY <2>4, <2>6, <2>9, <2>10, <2>11 DEF Inv
<1>5. QED
  BY <1>3, <1>4

LEMMA CookiesExpireKeep == ASSUME Inv, CookiesExpire PROVE Inv'
<1> USE DEF adminVars
<1>1. UNCHANGED <<provider, cache, accounts, flow, code, session, proof>>
  BY DEF CookiesExpire
<1>2. jar' \in JarType /\ (jar'.sudo = jar.sudo \/ jar'.sudo = NoSudo)
  BY NullsTyped DEF CookiesExpire, Inv, TypeOK, JarType
<1>3. JarOK'
  BY <1>1, <1>2, FlowsAssumption DEF Inv, JarOK, NoSudo
<1>4. \A f \in Flows : FlowOK(f)'
  BY <1>1 DEF Inv, FlowOK, Proven, OfPerson, Live
<1>5. SessionOK' /\ AccountsOK' /\ CacheOK' /\ TypeOK'
  BY <1>1, <1>2 DEF Inv, SessionOK, AccountsOK, CacheOK, OfPerson, Live, OneAccountEach, TypeOK
<1>6. QED
  BY <1>3, <1>4, <1>5 DEF Inv

\* Administrators take accounts and providers away, or change a provider: what
\* an account still is, it was.
LEMMA AdminsKeep ==
  ASSUME Inv, UNCHANGED <<flow, code, jar, session, proof>>,
         provider' \in [Providers -> ProviderType],
         cache' \in [Issuers -> Issuers \cup {None}], CacheOK',
         accounts' \in [Ids -> AccountType],
         \A id \in Ids :
            /\ accounts[id] # NoAccount => accounts'[id] # NoAccount
            /\ accounts'[id].person = None =>
                 accounts'[id] = NoAccount \/ accounts'[id].at = "deleted"
            /\ accounts'[id].person # None =>
                 /\ accounts'[id].person = accounts[id].person
                 /\ accounts'[id].at \in {accounts[id].at, "none"}
  PROVE  Inv'
<1>1. ASSUME NEW f \in Flows PROVE FlowOK(f)'
  BY DEF Inv, FlowOK, Proven, OfPerson, Live
<1>2. SessionOK'
  BY DEF Inv, SessionOK, OfPerson, Live
<1>3. AccountsOK'
  BY DEF Inv, AccountsOK, OneAccountEach, Live
<1>4. TypeOK' /\ JarOK'
  BY DEF Inv, TypeOK, JarOK
<1>5. QED
  BY <1>1, <1>2, <1>3, <1>4 DEF Inv

LEMMA ProviderChangesKeep ==
  ASSUME Inv,
         \/ \E i \in Issuers : UpdateIssuer(i)
         \/ \E p \in Providers : Toggle(p) \/ CountAccounts(p)
         \/ Invalidate
  PROVE  Inv'
<1> USE DEF browserVars
<1>1. UNCHANGED <<accounts, flow, code, jar, session, proof>>
  BY DEF UpdateIssuer, Toggle, CountAccounts, Invalidate
<1>2. provider' \in [Providers -> ProviderType]
  <2>1. \A i \in Issuers : UpdateIssuer(i) => provider' \in [Providers -> ProviderType]
    BY DEF UpdateIssuer, Inv, TypeOK, ProviderType
  <2>2. ASSUME NEW p \in Providers, Toggle(p) PROVE provider' \in [Providers -> ProviderType]
    <3> DEFINE on == ~provider[p].enabled
    <3>1. on \in BOOLEAN
      OBVIOUS
    <3>2. provider' = [provider EXCEPT ![p] = [@ EXCEPT !.enabled = on]]
      BY <2>2 DEF Toggle
    <3> HIDE DEF on
    <3>3. QED
      BY <3>1, <3>2 DEF Inv, TypeOK, ProviderType
  <2>3. QED
    BY <2>1, <2>2 DEF CountAccounts, Invalidate, Inv, TypeOK
<1>3. cache' \in [Issuers -> Issuers \cup {None}] /\ CacheOK'
  BY DEF UpdateIssuer, Toggle, CountAccounts, Invalidate, Inv, TypeOK, CacheOK
<1>4. QED
  BY <1>1, <1>2, <1>3, AdminsKeep DEF Inv, TypeOK, AccountsOK

LEMMA DeletionsKeep ==
  ASSUME Inv,
         \/ \E p \in Providers : DeleteProvider(p)
         \/ \E id \in Ids : DeleteAccount(id) \/ Demote(id)
  PROVE  Inv'
<1> USE PeopleAssumption DEF browserVars
<1>1. UNCHANGED <<cache, flow, code, jar, session, proof>>
  BY DEF DeleteProvider, DeleteAccount, Demote
<1>2. cache' \in [Issuers -> Issuers \cup {None}] /\ CacheOK'
  BY <1>1 DEF Inv, TypeOK, CacheOK
<1>3. ASSUME NEW p \in Providers, DeleteProvider(p) PROVE Inv'
  <2>1. provider' \in [Providers -> ProviderType]
    <3> DEFINE off == FALSE
    <3>1. off \in BOOLEAN /\ provider' = [provider EXCEPT ![p] = [@ EXCEPT !.there = off]]
      BY <1>3 DEF DeleteProvider
    <3> HIDE DEF off
    <3>2. QED
      BY <3>1 DEF Inv, TypeOK, ProviderType
  <2>2. \A id \in Ids : accounts[id].at = p => accounts[id].person # None
    BY DEF Inv, AccountsOK, NoAccount
  <2>3. ASSUME NEW id \in Ids
        PROVE  /\ accounts'[id] \in AccountType
               /\ accounts'[id].person = accounts[id].person
               /\ \/ accounts'[id] = accounts[id]
                  \/ accounts[id].at = p /\ accounts'[id].at = "none"
    <3> DEFINE cut == [accounts[id] EXCEPT !.at = "none"]
    <3>1. cut \in AccountType /\ cut.person = accounts[id].person /\ cut.at = "none"
      BY DEF Inv, TypeOK, AccountType
    <3>2. accounts'[id] = IF accounts[id].at = p THEN cut ELSE accounts[id]
      BY <1>3 DEF DeleteProvider
    <3>3. accounts[id] \in AccountType
      BY DEF Inv, TypeOK
    <3> HIDE DEF cut
    <3>4. QED
      BY <3>1, <3>2, <3>3
  <2>4. accounts' \in [Ids -> AccountType]
    BY <1>3, <2>3 DEF DeleteProvider
  <2>5. \A id \in Ids :
            /\ accounts[id] # NoAccount => accounts'[id] # NoAccount
            /\ accounts'[id].person = None =>
                 accounts'[id] = NoAccount \/ accounts'[id].at = "deleted"
            /\ accounts'[id].person # None =>
                 /\ accounts'[id].person = accounts[id].person
                 /\ accounts'[id].at \in {accounts[id].at, "none"}
    <3>1. NoAccount.person = None
      BY DEF NoAccount
    <3>2. QED
      BY <2>2, <2>3, <3>1 DEF Inv, AccountsOK
  <2>6. QED
    BY <1>1, <1>2, <2>1, <2>4, <2>5, AdminsKeep
<1>4. ASSUME NEW id \in Ids, DeleteAccount(id) PROVE Inv'
  <2> DEFINE gone == [NoAccount EXCEPT !.at = "deleted"]
  <2>1. gone \in AccountType /\ gone.person = None /\ gone.at = "deleted" /\ gone # NoAccount
    BY DEF NoAccount, AccountType, Handles
  <2>2. accounts' = [accounts EXCEPT ![id] = gone] /\ provider' = provider
    BY <1>4 DEF DeleteAccount
  <2> HIDE DEF gone
  <2>3. QED
    BY <1>1, <1>2, <2>1, <2>2, AdminsKeep DEF Inv, TypeOK, AccountsOK
<1>5. ASSUME NEW id \in Ids, Demote(id) PROVE Inv'
  <2> DEFINE plain == [accounts[id] EXCEPT !.admin = FALSE]
  <2>1. /\ plain \in AccountType /\ plain.person = accounts[id].person
        /\ plain.at = accounts[id].at /\ accounts[id].person # None
    <3>1. accounts[id] \in AccountType /\ accounts[id].person # None
      BY <1>5 DEF Demote, Live, Inv, TypeOK
    <3>2. [accounts[id] EXCEPT !.admin = FALSE] \in AccountType
      BY <3>1 DEF AccountType
    <3>3. QED
      BY <3>1, <3>2 DEF AccountType
  <2>2. accounts' = [accounts EXCEPT ![id] = plain] /\ provider' = provider
    BY <1>5 DEF Demote
  <2>3. plain # NoAccount
    BY <2>1 DEF NoAccount
  <2> HIDE DEF plain
  <2>4. QED
    BY <1>1, <1>2, <2>1, <2>2, <2>3, AdminsKeep DEF Inv, TypeOK, AccountsOK
<1>6. QED
  BY <1>3, <1>4, <1>5

LEMMA InvNext == Inv /\ [Next]_vars => Inv'
<1> SUFFICES ASSUME Inv, [Next]_vars PROVE Inv'
  OBVIOUS
<1>1. ASSUME NEW f \in Flows, ServerStep(f) PROVE Inv'
  BY <1>1, AskForRedirectKeeps, RedirectKeeps, DiscoveredKeeps, AskForExchangeKeeps,
     ExchangeKeeps, RefusalsKeep, ConfirmKeeps, LookUpKeeps, PickHandleKeeps, CreateKeeps,
     CreateRefusedKeeps, GrantKeeps DEF ServerStep
<1>2. CASE UNCHANGED vars
  BY <1>2 DEF vars, Inv, TypeOK, FlowOK, Proven, OfPerson, JarOK, SessionOK, AccountsOK,
              CacheOK, OneAccountEach, Live
<1>3. QED
  BY <1>1, <1>2, StartsKeep, ProveKeeps, RefusalsKeep, CallbackKeeps, ReloadKeeps,
     CookiesExpireKeep, ProviderChangesKeep, DeletionsKeep DEF Next

-----------------------------------------------------------------------------
\* The browser is signed in as the one who proved their identity in the flow that
\* signed it in (oidcCallback, login), for any number of tabs and accounts.
THEOREM SessionIsProvenAlways == Spec => []SessionIsProven
<1>1. Inv => SessionIsProven
  BY DEF Inv, TypeOK, SessionType, SessionOK, SessionIsProven, OfPerson
<1>2. QED
  BY InvInit, InvNext, <1>1, PTL DEF Spec

\* The admin mode was proven afresh, by a flow that its account started
\* (sudoOidcStart, handleSudoOidcCallback).
THEOREM AdminModeIsFreshAlways == Spec => []AdminModeIsFresh
<1>1. Inv => AdminModeIsFresh
  BY DEF Inv, SessionOK, AdminModeIsFresh
<1>2. QED
  BY InvInit, InvNext, <1>1, PTL DEF Spec

\* However many first sign-ins of a person run at once, one account is made
\* (findOrCreateExternalUser, against the unique e-mail).
THEOREM OneAccountEachAlways == Spec => []OneAccountEach
<1>1. Inv => OneAccountEach
  BY DEF Inv, AccountsOK
<1>2. QED
  BY InvInit, InvNext, <1>1, PTL DEF Spec

\* No request uses the metadata of an issuer other than the one configured when
\* it read the provider (getServerMetadata), whatever updates ran meanwhile.
THEOREM MetadataOfIssuerAlways == Spec => []MetadataOfIssuer
<1>1. Inv => MetadataOfIssuer
  BY DEF Inv, FlowOK, MetadataOfIssuer
<1>2. QED
  BY InvInit, InvNext, <1>1, PTL DEF Spec
=============================================================================
