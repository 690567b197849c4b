----------------------- MODULE NotificationAuthority -----------------------
(***************************************************************************)
(* Who may change what in the notification service: installations and     *)
(* their bearer credential, account links, rules and push tokens           *)
(* (apps/api/src/db/notification-store.ts), behind the HTTP handler        *)
(* (server.ts) and the error mapping of the application                    *)
(* (postgres-application.ts).                                              *)
(*                                                                         *)
(* Operations that are one database transaction are one action: register,  *)
(* rotate, issue a challenge, put or delete a price rule, rebind the token *)
(* of an installation without account authority. The three operations that *)
(* need an account proof (link an account, put an account rule, rebind the *)
(* token) run over several steps in a request slot: the attempt is counted *)
(* against the caller's address, the proof is prevalidated without a lock, *)
(* the account relationship is verified over the network, one serializable *)
(* transaction checks everything again and writes, and the attempt is      *)
(* closed. Anything may happen between two of these steps.                 *)
(*                                                                         *)
(* A digest is modelled by the operation it binds (the field object), a    *)
(* signature by whether the master account made it over the canonical      *)
(* message, a credential hash by the credential. A rate window either is   *)
(* still open or has passed as a whole (MinutePasses, HourPasses).         *)
(***************************************************************************)
EXTENDS Naturals, FiniteSets, FiniteSetsExt

CONSTANTS Insts, Creds, Accounts, LinkIds, RuleIds, Tokens,
          Ips,               \* client addresses
          Challenges,        \* every challenge the service may issue
          Slots,             \* proof requests in progress at one time
          Proofs,            \* operations requested with a proof: [object, signed]
          Nothing,           \* an absent row
          MaxLinkedAccounts, MaxActiveRules,
          IpMutationsPerMinute, InstallationMutationsPerMinute,
          TokenChangesPerHour, ChallengeIssuesPerHour,
          FailedProofsPerIpHour

VARIABLES
    installation,   \* rows by id: Nothing or [cred, token]
    link,           \* rows by id: Nothing or [inst, account, state]
    rule,           \* rows by id: Nothing or [inst, scope, link]
    challenge,      \* rows by id: Nothing or the record of IssueChallenge
    request,        \* the proof requests in progress
    failed,         \* attempts marked failed, or left pending by a crash
    admitted,       \* mutations admitted in this minute, by address and installation
    hourly          \* token changes and challenges of this hour, by installation

authorityVars == <<installation, link, rule, challenge, request, failed,
                   admitted, hourly>>

ProofKinds == {"link", "accountRule", "rebind"}

(* What a proof binds: a link id; a rule with its link; a token with the link
   whose account authorises the change.                                     *)
Objects == [kind : {"link"}, link : LinkIds]
             \cup [kind : {"accountRule"}, link : LinkIds, rule : RuleIds]
             \cup [kind : {"rebind"}, link : LinkIds, token : Tokens]

ASSUME ProofsAssumption == Proofs \subseteq [object : Objects, signed : BOOLEAN]

(* The rows of the tables.                                                  *)
Installations == [cred : Creds, token : Tokens]
Links == [inst : Insts, account : Accounts, state : {"active", "draining"}]
RuleRows == [inst : Insts, scope : {"price", "account"}, link : LinkIds \cup {Nothing}]
ChallengeRows == [inst : Insts, cred : Creds \cup {Nothing}, account : Accounts,
                  object : Objects \cup {Nothing},
                  state : {"pending", "consumed"}, expired : BOOLEAN]

ASSUME NothingAssumption ==
    Nothing \notin Installations \cup Links \cup RuleRows \cup ChallengeRows \cup LinkIds

Idle == [stage |-> "idle"]

AuthorityInit ==
    /\ installation = [i \in Insts |-> Nothing]
    /\ link = [l \in LinkIds |-> Nothing]
    /\ rule = [r \in RuleIds |-> Nothing]
    /\ challenge = [c \in Challenges |-> Nothing]
    /\ request = [s \in Slots |-> Idle]
    /\ failed = [p \in Ips |-> 0]
    /\ admitted = [a \in Ips \cup Insts |-> 0]
    /\ hourly = [i \in Insts |-> [tokens |-> 0, issued |-> 0]]

-----------------------------------------------------------------------------
(* Admission and authentication.                                            *)

(* lockAuthenticatedInstallation: the row is there and holds this credential. *)
LockAuthenticated(i, cred) ==
    installation[i] # Nothing /\ installation[i].cred = cred

(* A mutation is admitted under the limits of its address, its installation
   (when it has one) and, for a token change, of the hour.                   *)
Admissible(p, i, tokenChange) ==
    /\ admitted[p] < IpMutationsPerMinute
    /\ i \in Insts =>
          /\ admitted[i] < InstallationMutationsPerMinute
          /\ tokenChange => hourly[i].tokens < TokenChangesPerHour

Admit(p, i, tokenChange, newIssue) ==
    /\ admitted' = [a \in DOMAIN admitted |->
                      admitted[a] + IF a \in {p, i} THEN 1 ELSE 0]
    /\ hourly' = [j \in Insts |->
                    [tokens |-> hourly[j].tokens + IF j = i /\ tokenChange THEN 1 ELSE 0,
                     issued |-> hourly[j].issued + IF j = i /\ newIssue THEN 1 ELSE 0]]

LinksOf(i) == {l \in LinkIds : link[l] # Nothing /\ link[l].inst = i}
RulesOf(i) == {r \in RuleIds : rule[r] # Nothing /\ rule[r].inst = i}

(* assertRuleQuota: the rule being put does not count against itself.       *)
RuleQuota(i, r) == Cardinality(RulesOf(i) \ {r}) < MaxActiveRules

TokenTaken(i, t) ==
    \E j \in Insts \ {i} : installation[j] # Nothing /\ installation[j].token = t

-----------------------------------------------------------------------------
(* Operations of one transaction.                                           *)

RegisterInstallation(i, cred, t, p) ==
    /\ Admissible(p, Nothing, TRUE)
    /\ installation[i] = Nothing
    /\ \A j \in Insts : installation[j] # Nothing => installation[j].cred # cred
    /\ ~TokenTaken(i, t)
    /\ installation' = [installation EXCEPT ![i] = [cred |-> cred, token |-> t]]
    /\ Admit(p, Nothing, TRUE, FALSE)
    /\ UNCHANGED <<link, rule, challenge, request, failed>>

RotateInstallationCredential(i, cred, new, p) ==
    /\ cred # new
    /\ LockAuthenticated(i, cred)
    /\ Admissible(p, i, FALSE)
    /\ \A j \in Insts : installation[j] # Nothing => installation[j].cred # new
    /\ installation' = [installation EXCEPT ![i].cred = new]
    /\ Admit(p, i, FALSE, FALSE)
    /\ UNCHANGED <<link, rule, challenge, request, failed>>

(* createChallengeRecord: the challenge is bound to the credential that asked
   for it, the installation, the account and the digest of one operation.    *)
ChallengeRecord(i, cred, account, object) ==
    [inst |-> i, cred |-> cred, account |-> account, object |-> object,
     state |-> "pending", expired |-> FALSE]

IssueChallenge(c, i, cred, account, object, p) ==
    /\ challenge[c] = Nothing
    /\ LockAuthenticated(i, cred)
    /\ Admissible(p, i, FALSE)
    /\ hourly[i].issued < ChallengeIssuesPerHour
    /\ challenge' = [challenge EXCEPT ![c] = ChallengeRecord(i, cred, account, object)]
    /\ Admit(p, i, FALSE, TRUE)
    /\ UNCHANGED <<installation, link, rule, request, failed>>

(* An existing rule is replaced only within its installation and its scope. *)
SameRuleScope(r, i, scope) ==
    rule[r] # Nothing => rule[r].inst = i /\ rule[r].scope = scope

PutPriceRule(r, i, cred, p) ==
    /\ LockAuthenticated(i, cred)
    /\ Admissible(p, i, FALSE)
    /\ RuleQuota(i, r)
    /\ SameRuleScope(r, i, "price")
    /\ rule' = [rule EXCEPT ![r] = [inst |-> i, scope |-> "price", link |-> Nothing]]
    /\ Admit(p, i, FALSE, FALSE)
    /\ UNCHANGED <<installation, link, challenge, request, failed>>

RemovePriceRule(r, i, cred, p) ==
    /\ LockAuthenticated(i, cred)
    /\ Admissible(p, i, FALSE)
    /\ rule[r] # Nothing /\ rule[r].inst = i /\ rule[r].scope = "price"
    /\ rule' = [rule EXCEPT ![r] = Nothing]
    /\ Admit(p, i, FALSE, FALSE)
    /\ UNCHANGED <<installation, link, challenge, request, failed>>

(* Account authority: a link that is not gone, or an account rule.          *)
HasAccountAuthority(i) ==
    LinksOf(i) # {} \/ \E r \in RulesOf(i) : rule[r].scope = "account"

RebindPriceOnlyPushToken(i, cred, t, p) ==
    /\ LockAuthenticated(i, cred)
    /\ Admissible(p, i, TRUE)
    /\ ~HasAccountAuthority(i)
    /\ ~TokenTaken(i, t)
    /\ installation' = [installation EXCEPT ![i].token = t]
    /\ Admit(p, i, TRUE, FALSE)
    /\ UNCHANGED <<link, rule, challenge, request, failed>>

-----------------------------------------------------------------------------
(* Operations that need an account proof.                                   *)

Ended == {"refused", "dropped", "applied"}
Running == {"admitted", "prevalidated", "verified"} \cup Ended
AttemptsOf(p) == {s \in Slots : request[s].stage \in Running /\ request[s].ip = p}

(* The rows counted against an address: the attempts still running and those that
   failed or were left behind within the hour.                               *)
CountedAttempts(p) == Cardinality(AttemptsOf(p)) + failed[p]

(* withProofAttempt admits the attempt, or answers 429. The caller names the
   installation, the operation and the challenge, and has signed it or not.   *)
StartAttempt(s, i, cred, c, object, signed, p) ==
    /\ request[s] = Idle
    /\ CountedAttempts(p) < FailedProofsPerIpHour
    /\ request' = [request EXCEPT ![s] =
                     [stage |-> "admitted", inst |-> i, cred |-> cred, challenge |-> c,
                      object |-> object, signed |-> signed, ip |-> p]]
    /\ UNCHANGED <<installation, link, rule, challenge, failed, admitted, hourly>>

(* verifyAccountProof: pending, not expired, signed by the master account
   over the message this record gives.                                       *)
ProofHolds(q, record) ==
    record.state = "pending" /\ ~record.expired /\ q.signed

\* Faulty variant: the transaction trusts what prevalidation read.
ChallengeWasBound(q) ==
    LET record == challenge[q.challenge]
    IN record # Nothing /\ record.inst = q.inst /\ record.object = q.object

(* The checks both before and inside the transaction: the credential is the
   installation's, and the challenge is this installation's, was asked for with
   this credential and binds this operation.                                 *)
ChallengeBinds(q) ==
    /\ LockAuthenticated(q.inst, q.cred)
    /\ challenge[q.challenge] # Nothing
    /\ LET record == challenge[q.challenge]
       IN record.inst = q.inst /\ record.cred = q.cred /\ record.object = q.object

(* The link named by an account rule or a rebind is active, this installation's,
   and of the account the challenge is about.                                *)
LinkBinds(q) ==
    q.object.kind # "link" =>
       LET l == link[q.object.link]
       IN l # Nothing /\ l.inst = q.inst /\ l.state = "active"
          /\ l.account = challenge[q.challenge].account

(* The next stage of a request. One that has ended is closed with its address, and
   nothing else of it is read again.                                         *)
Advance(s, stage) ==
    request' = [request EXCEPT ![s] =
                  IF stage \in Ended THEN [stage |-> stage, ip |-> @.ip]
                  ELSE [@ EXCEPT !.stage = stage]]

(* prevalidateChallengeProof: no lock is held and nothing is consumed.      *)
PrevalidateChallengeProof(q) ==
    ChallengeBinds(q) /\ ProofHolds(q, challenge[q.challenge])

(* prevalidatePushTokenRebind also looks at the link.                       *)
PrevalidatePushTokenRebind(q) == PrevalidateChallengeProof(q) /\ LinkBinds(q)

Prevalidate(s) ==
    LET q == request[s]
        ok == IF q.object.kind = "rebind" THEN PrevalidatePushTokenRebind(q)
              ELSE PrevalidateChallengeProof(q)
    IN /\ q.stage = "admitted"
       /\ Advance(s, IF ok THEN "prevalidated" ELSE "refused")
       /\ UNCHANGED <<installation, link, rule, challenge, failed, admitted, hourly>>

(* verifyAccountRelationship and assertSupportedRelationship: supported, not
   supported, or failed or timed out.                                        *)
VerifyAccountRelationship(s) ==
    /\ request[s].stage = "prevalidated"
    /\ \E stage \in {"verified", "refused", "dropped"} : Advance(s, stage)
    /\ UNCHANGED <<installation, link, rule, challenge, failed, admitted, hourly>>

(* A challenge that is consumed or has expired binds nothing any more: of its row
   the model keeps what is still told apart.                                 *)
Unbound(record) == [record EXCEPT !.cred = Nothing, !.object = Nothing]

Consume(c) == challenge' = [challenge EXCEPT ![c] = [Unbound(@) EXCEPT !.state = "consumed"]]

(* The transaction of verifyAccountLinkProof.                               *)
LinkConflict(q) ==
    \/ Cardinality(LinksOf(q.inst)) >= MaxLinkedAccounts
    \/ link[q.object.link] # Nothing
    \/ \E l \in LinksOf(q.inst) : link[l].account = challenge[q.challenge].account

VerifyAccountLinkProof(q) ==
    /\ ~LinkConflict(q)
    /\ link' = [link EXCEPT ![q.object.link] =
                  [inst |-> q.inst, account |-> challenge[q.challenge].account,
                   state |-> "active"]]
    /\ UNCHANGED <<installation, rule>>

(* The transaction of putAccountRule.                                       *)
RuleConflict(q) ==
    ~RuleQuota(q.inst, q.object.rule) \/ ~SameRuleScope(q.object.rule, q.inst, "account")

PutAccountRule(q) ==
    /\ ~RuleConflict(q)
    /\ rule' = [rule EXCEPT ![q.object.rule] =
                  [inst |-> q.inst, scope |-> "account", link |-> q.object.link]]
    /\ UNCHANGED <<installation, link>>

(* The transaction of rebindPushToken.                                      *)
RebindPushTokenByProof(q) ==
    /\ ~TokenTaken(q.inst, q.object.token)
    /\ installation' = [installation EXCEPT ![q.inst].token = q.object.token]
    /\ UNCHANGED <<link, rule>>

Conflicts(q) ==
    CASE q.object.kind = "link" -> LinkConflict(q)
      [] q.object.kind = "accountRule" -> RuleConflict(q)
      [] q.object.kind = "rebind" -> TokenTaken(q.inst, q.object.token)

(* One serializable transaction: it re-reads what prevalidation read, admits the
   mutation, consumes the challenge and writes, or leaves everything as it was. *)
Transact(s) ==
    LET q == request[s]
        tokenChange == q.object.kind = "rebind"
        bound == ChallengeBinds(q) /\ LinkBinds(q) /\ ProofHolds(q, challenge[q.challenge])
    IN /\ q.stage = "verified"
       /\ UNCHANGED failed
       /\ \/ /\ bound /\ Admissible(q.ip, q.inst, tokenChange)
             /\ \/ q.object.kind = "link" /\ VerifyAccountLinkProof(q)
                \/ q.object.kind = "accountRule" /\ PutAccountRule(q)
                \/ q.object.kind = "rebind" /\ RebindPushTokenByProof(q)
             /\ Consume(q.challenge)
             /\ Admit(q.ip, q.inst, tokenChange, FALSE)
             /\ Advance(s, "applied")
          \/ /\ ~bound \/ ~Admissible(q.ip, q.inst, tokenChange) \/ Conflicts(q)
             /\ Advance(s, IF bound THEN "dropped" ELSE "refused")
             /\ UNCHANGED <<installation, link, rule, challenge, admitted, hourly>>

(* withProofAttempt: a refused proof is marked failed, any other attempt is
   deleted, and the caller is answered.                                      *)
CloseAttempt(s) ==
    /\ request[s].stage \in Ended
    /\ failed' = [failed EXCEPT ![request[s].ip] =
                    @ + IF request[s].stage = "refused" THEN 1 ELSE 0]
    /\ request' = [request EXCEPT ![s] = Idle]
    /\ UNCHANGED <<installation, link, rule, challenge, admitted, hourly>>

(* The process dies, or the statement that closes the attempt fails: the row
   stays pending and counts until its hour has passed.                       *)
AbandonAttempt(s) ==
    /\ request[s].stage \in Running
    /\ failed' = [failed EXCEPT ![request[s].ip] = @ + 1]
    /\ request' = [request EXCEPT ![s] = Idle]
    /\ UNCHANGED <<installation, link, rule, challenge, admitted, hourly>>

-----------------------------------------------------------------------------
(* Time, and the removal of links (the protocol of module Revocation).      *)

ExpireChallenge(c) ==
    /\ challenge[c] # Nothing /\ challenge[c].state = "pending" /\ ~challenge[c].expired
    /\ challenge' = [challenge EXCEPT ![c] = [Unbound(@) EXCEPT !.expired = TRUE]]
    /\ UNCHANGED <<installation, link, rule, request, failed, admitted, hourly>>

MinutePasses ==
    /\ \E a \in DOMAIN admitted : admitted[a] > 0
    /\ admitted' = [a \in DOMAIN admitted |-> 0]
    /\ UNCHANGED <<installation, link, rule, challenge, request, failed, hourly>>

(* Attempts still running are younger than an hour: the relationship check has
   a deadline of seconds.                                                    *)
HourPasses ==
    /\ (\E p \in Ips : failed[p] > 0) \/ (\E i \in Insts : hourly[i].tokens + hourly[i].issued > 0)
    /\ failed' = [p \in Ips |-> 0]
    /\ admitted' = [a \in DOMAIN admitted |-> 0]
    /\ hourly' = [i \in Insts |-> [tokens |-> 0, issued |-> 0]]
    /\ UNCHANGED <<installation, link, rule, challenge, request>>

(* An unlink drains the link, then deletes it with its rules.               *)
DrainLink(l) ==
    /\ link[l] # Nothing /\ link[l].state = "active"
    /\ link' = [link EXCEPT ![l].state = "draining"]
    /\ UNCHANGED <<installation, rule, challenge, request, failed, admitted, hourly>>

DropLink(l) ==
    /\ link[l] # Nothing /\ link[l].state = "draining"
    /\ link' = [link EXCEPT ![l] = Nothing]
    /\ rule' = [r \in RuleIds |->
                  IF rule[r] # Nothing /\ rule[r].link = l THEN Nothing ELSE rule[r]]
    /\ UNCHANGED <<installation, challenge, request, failed, admitted, hourly>>

-----------------------------------------------------------------------------
AuthorityNext ==
    \/ \E p \in Ips, i \in Insts, cred \in Creds :
         \/ \E t \in Tokens : RegisterInstallation(i, cred, t, p)
         \/ \E new \in Creds : RotateInstallationCredential(i, cred, new, p)
         \/ \E c \in Challenges, a \in Accounts, proof \in Proofs :
              IssueChallenge(c, i, cred, a, proof.object, p)
         \/ \E r \in RuleIds : PutPriceRule(r, i, cred, p) \/ RemovePriceRule(r, i, cred, p)
         \/ \E t \in Tokens : RebindPriceOnlyPushToken(i, cred, t, p)
         \/ \E s \in Slots, c \in Challenges, proof \in Proofs :
              StartAttempt(s, i, cred, c, proof.object, proof.signed, p)
    \/ \E s \in Slots :
         \/ Prevalidate(s) \/ VerifyAccountRelationship(s)
         \/ Transact(s) \/ CloseAttempt(s) \/ AbandonAttempt(s)
    \/ \E c \in Challenges : ExpireChallenge(c)
    \/ MinutePasses \/ HourPasses
    \/ \E l \in LinkIds : DrainLink(l) \/ DropLink(l)

AuthoritySpec == AuthorityInit /\ [][AuthorityNext]_authorityVars

-----------------------------------------------------------------------------
(* A challenge of installation i for this very operation, pending, in time and
   asked for with the credential the installation holds now, is spent by the step. *)
Spends(i, object) ==
    \E c \in Challenges :
       /\ challenge[c] # Nothing
       /\ challenge[c].inst = i /\ challenge[c].object = object
       /\ challenge[c].cred = installation[i].cred
       /\ challenge[c].state = "pending" /\ ~challenge[c].expired
       /\ challenge'[c].state = "consumed"

(* What a step may do to links, account rules and tokens: see ProofBeforeChange. *)
ChangesProved ==
    /\ \A l \in LinkIds :
         link[l] = Nothing /\ link'[l] # Nothing
           => Spends(link'[l].inst, [kind |-> "link", link |-> l])
    /\ \A r \in RuleIds :
         rule'[r] # rule[r] /\ rule'[r] # Nothing /\ rule'[r].scope = "account"
           => Spends(rule'[r].inst, [kind |-> "accountRule", link |-> rule'[r].link, rule |-> r])
    /\ \A i \in Insts :
         installation[i] # Nothing /\ LinksOf(i) # {}
           /\ installation'[i].token # installation[i].token
           => \E l \in LinkIds :
                Spends(i, [kind |-> "rebind", link |-> l, token |-> installation'[i].token])
    /\ \A r \in RuleIds :
         rule'[r] # Nothing /\ rule'[r].scope = "account"
           => link'[rule'[r].link] # Nothing /\ link'[rule'[r].link].inst = rule'[r].inst

(* Whatever happens between the steps of a request (the credential is rotated,
   the link is removed, another request uses the same challenge, the challenge
   expires), an account link or an account rule is written, and the token of an
   installation with account authority is replaced, only by a transaction that
   spends a proof of exactly that operation. No late request leaves an account
   rule without a link of its own installation.                              *)
ProofBeforeChange == [][ChangesProved]_authorityVars

=============================================================================
