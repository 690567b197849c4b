--------------------------- MODULE DeliveryProofs ---------------------------
(***************************************************************************)
(* Proofs about push delivery and deletion: the types of DeliveryWorkers,  *)
(* what the outbox says is true and final (OutcomeHonest, OutcomeFinal),   *)
(* nothing is sent for a deleted scope (NoSendAfterRevoke), and a reported *)
(* deletion survives the restore of an older database                      *)
(* (DeletedStaysDeleted), for any installations, links, rows, processes,   *)
(* attempts, leases and deadlines.                                         *)
(***************************************************************************)
EXTENDS Revocation, TLAPS

---------------------------------------------------------------------------
(* Types. *)

LinkStates == {"active", "draining", "absent"}
OpStates == {"none", "draining", "committed"}
Origins == {"owner", "lost"}
HandlerSteps == {"idle", "checking", "appending", "committing"}

WorkerRow == [pc: PCs, gen: 0..MaxGenerations, row: Rows \cup {NoRow}, n: 0..MaxClaims,
              result: Results, recoverIn: 0..ProviderDeadline, batch: SUBSET Rows]

BackupRow == [inst: [Installations -> InstRow], link: [Links -> LinkStates],
              rules: SUBSET Scopes, outbox: [Rows -> OutboxRow],
              permit: [Rows -> PermitRow], ticket: [Rows -> TicketRow],
              op: [Scopes -> OpStates], origin: [Scopes -> Origins], watermark: Nat]

RevocationTypeOK ==
    /\ handler \in [Scopes -> HandlerSteps]
    /\ origin \in [Scopes -> Origins]
    /\ ledger \in Seq(Scopes)
    /\ reported \subseteq Scopes
    /\ backup \in BackupRow
    /\ replay \in Nat \cup {NoReplay}

Typed == DeliveryTypeOK /\ RevocationTypeOK

---------------------------------------------------------------------------
(* The shape of a row and its permit, and what a process may hold of it.   *)

Waiting == {"absent", "pending", "leased", "cancelled"}
Submitted == {"submission_started", "finished"}

\* A row and its latest permit belong together.
Shaped(row, p) ==
    /\ p.n = row.attempts
    /\ p.state = "submission_started" <=> row.state = Started
    /\ p.state = "finished" => row.state \notin Waiting
    /\ p.state = "active" => row.state = "leased"

RowsShaped ==
    \A r \in Rows :
        /\ Shaped(outbox[r], permit[r])
        /\ Shaped(backup.outbox[r], backup.permit[r])

\* Steps at which a process works on an attempt, on a marked attempt, and on one
\* that it has not sent.
Holding == {"claimed", "abandoning", "marked", "token", "authorized", "waiting", "answered"}
Marked == {"marked", "token", "authorized", "waiting", "answered"}
Before == {"marked", "token", "authorized"}

\* An attempt at or before the latest of its row; a marked one is the latest, and
\* before the request it is in flight unless its deadline has passed.
Holds(k, p) ==
    /\ k.pc \in Holding => 1 <= k.n /\ k.n <= p.n
    /\ k.pc \in Marked => k.n = p.n /\ p.state \in Submitted
    /\ k.pc \in Before => p.state = "submission_started" \/ p.deadline = 0

HoldersFit ==
    \A w \in Workers :
        worker[w].pc \in Holding => Row(w) \in Rows /\ Holds(worker[w], permit[Row(w)])

\* No attempt is worked on by two processes.
HoldersApart ==
    \A w, v \in Workers :
        w # v /\ worker[w].pc \in Holding /\ worker[v].pc \in Holding /\ Row(w) = Row(v)
            => Attempt(w) # Attempt(v)

WorkInv == RowsShaped /\ HoldersFit /\ HoldersApart

NothingFlies ==
    \A r \in Rows : permit[r].state = "submission_started" => permit[r].deadline = 0

\* Nothing goes on while a restored database is replayed.
Suspended ==
    gates.restore = "replaying" => NothingFlies /\ \A w \in Workers : worker[w] = Stopped

---------------------------------------------------------------------------
(* What is known of the provider. *)

Truth(row, t, s, c) ==
    /\ row.state \in Waiting => s = 0
    /\ s \in {0, 1}
    /\ s = 0 <=> c = "none"
    /\ row.code = "unsent" => s = 0
    /\ row.code # "none" => row.state = "provider_rejected"
    /\ row.state = "provider_accepted" => c = "accepted"
    /\ row.code = "refused" => c \in {"refused", "unregistered"}
    /\ t.state # "none" => row.state = "provider_accepted"

Knows(k, s, c) ==
    /\ k.pc \in Before => s = 0
    /\ k.pc = "waiting" => c # "none"
    /\ k.pc = "answered" /\ k.result \in Answers => c = k.result
    /\ k.pc = "answered" /\ k.result = "unsent" => s = 0

TruthInv ==
    /\ \A r \in Rows : Truth(outbox[r], ticket[r], sent[r], wire[r])
    /\ \A w \in Workers :
          worker[w].pc \in Holding => Knows(worker[w], sent[Row(w)], wire[Row(w)])

---------------------------------------------------------------------------
(* Deletions. *)

Gone(in, li, ru, s) ==
    /\ s \in Links => li[s] = "absent"
    /\ s \in Installations => in[s].state = "inactive" /\ in[s].token = "none"
    /\ DeletedScopes({s}) \cap ru = {}

\* Nothing of the scope is in flight.
Quiet(ob, pe, s) ==
    \A r \in Rows :
        Covers(s, ob[r].scope) => pe[r].state # "submission_started" \/ pe[r].deadline = 0

Done(s) == Gone(inst, link, rules, s) /\ Quiet(outbox, permit, s)

Logged(s) == s \in ToSet(ledger)

DeletionInv ==
    /\ \A s \in Scopes : op[s] = "committed" => Done(s) /\ Logged(s)
    /\ \A s \in Scopes : backup.op[s] = "committed" =>
           Gone(backup.inst, backup.link, backup.rules, s) /\ Logged(s)
    /\ gates.restore = "ready" => \A s \in reported : Done(s)
    /\ \A s \in Scopes : handler[s] = "committing" => Logged(s)
    /\ \A s \in reported : Logged(s)
    /\ backup.watermark <= Len(ledger)
    /\ \A n \in 1..backup.watermark : backup.op[ledger[n]] = "committed"
    /\ gates.restore = "replaying" =>
          /\ gates.watermark <= Len(ledger)
          /\ \A n \in 1..gates.watermark : Gone(inst, link, rules, ledger[n])

---------------------------------------------------------------------------
(* Constants. *)

LEMMA Bounds ==
    /\ MaxClaims \in Nat /\ MaxClaims >= 1
    /\ MaxReceipts \in Nat /\ MaxReceipts >= 1
    /\ ProviderDeadline \in Nat /\ ProviderDeadline >= 1
    /\ LeaseTime \in Nat /\ LeaseTime >= 1
    /\ ReceiptDelay \in Nat /\ ReceiptDelay >= 1
    /\ MaxVersions \in Nat /\ MaxVersions >= 1
    /\ MaxGenerations \in Nat /\ MaxGenerations >= 1
    BY DeliveryAssumption

LEMMA ScopeFacts ==
    /\ \A s \in Scopes : InstOf(s) \in Installations
    /\ \A l \in Links : HomeOf[l] \in Installations /\ l \notin Installations
    /\ Installations \subseteq Scopes /\ Links \subseteq Scopes
    /\ \A s \in Scopes : s \in Installations \/ s \in Links
    /\ (CHOOSE s \in Scopes : TRUE) \in Scopes
    BY DeliveryAssumption DEF Scopes, InstOf

LEMMA DownTyped ==
    /\ \A n \in Nat : Down(n) \in Nat /\ Down(n) <= n
    /\ \A m \in Nat : \A n \in 0..m : Down(n) \in 0..m
    BY DEF Down

---------------------------------------------------------------------------
(* Rows and permits: what each store operation leaves behind. *)

RowsTyped == outbox \in [Rows -> OutboxRow] /\ permit \in [Rows -> PermitRow]

\* The other rows are left alone.
Others(r) == \A q \in Rows : q # r => outbox'[q] = outbox[q] /\ permit'[q] = permit[q]

\* The scope of a row, its generation, its attempts and its code stay.
SameRow(r) ==
    /\ outbox'[r].scope = outbox[r].scope
    /\ outbox'[r].attempts = outbox[r].attempts
    /\ outbox'[r].code = outbox[r].code

LEMMA RowFields ==
    ASSUME NEW row \in OutboxRow
    PROVE  /\ row.state \in RowStates /\ row.scope \in Scopes /\ row.gen \in Nat
           /\ row.attempts \in 0..MaxClaims /\ row.until \in Nat
           /\ row.code \in {"none", "unsent", "refused"}
    BY DEF OutboxRow

LEMMA PermitFields ==
    ASSUME NEW p \in PermitRow
    PROVE  /\ p.n \in 0..MaxClaims
           /\ p.state \in {"none", "active", "submission_started", "finished", "expired"}
           /\ p.deadline \in Nat /\ p.expires \in Nat
    BY DEF PermitRow

LEMMA CreateAlertRows ==
    ASSUME RowsTyped, inst \in [Installations -> InstRow],
           NEW r \in Rows, NEW s \in Scopes, CreateAlert(r, s)
    PROVE  /\ RowsTyped' /\ Others(r)
           /\ outbox[r].state = "absent" /\ outbox'[r].state = "pending"
           /\ outbox'[r].scope = s
           /\ outbox'[r].attempts = outbox[r].attempts /\ outbox'[r].code = outbox[r].code
           /\ permit' = permit
<1>1. inst[InstOf(s)].gen \in Nat
    BY ScopeFacts DEF InstRow
<1> DEFINE g == inst[InstOf(s)].gen
           row == [outbox[r] EXCEPT !.state = "pending", !.scope = s, !.gen = g]
<1>2. outbox[r] \in OutboxRow /\ outbox[r].state = "absent"
    BY DEF CreateAlert, RowsTyped
<1>3. row \in OutboxRow
    BY <1>1, <1>2 DEF OutboxRow, RowStates
<1>4. outbox' = [outbox EXCEPT ![r] = row]
    BY DEF CreateAlert, RowsTyped
<1>5. outbox' \in [Rows -> OutboxRow]
    BY <1>3, <1>4 DEF RowsTyped
<1>6. QED
    BY <1>2, <1>4, <1>5 DEF CreateAlert, RowsTyped, Others, OutboxRow

LEMMA ClaimRowRows ==
    ASSUME RowsTyped, NEW r \in Rows, outbox[r].attempts < MaxClaims, ClaimRow(r)
    PROVE  /\ RowsTyped' /\ Others(r)
           /\ outbox'[r].state = "leased" /\ outbox'[r].attempts = outbox[r].attempts + 1
           /\ outbox'[r].scope = outbox[r].scope /\ outbox'[r].code = outbox[r].code
           /\ permit'[r].n = outbox[r].attempts + 1 /\ permit'[r].state = "active"
<1>1. outbox[r].attempts + 1 \in 0..MaxClaims
    BY Bounds DEF RowsTyped, OutboxRow
<1>2. outbox' \in [Rows -> OutboxRow]
    BY <1>1, Bounds DEF ClaimRow, RowsTyped, OutboxRow, RowStates
<1>3. permit' \in [Rows -> PermitRow]
    BY <1>1, Bounds DEF ClaimRow, RowsTyped, PermitRow
<1>4. QED
    BY <1>2, <1>3 DEF ClaimRow, RowsTyped, Others, OutboxRow

LEMMA MarkRowRows ==
    ASSUME RowsTyped, NEW r \in Rows, MarkRow(r)
    PROVE  /\ RowsTyped' /\ Others(r) /\ SameRow(r)
           /\ outbox'[r].state = Started
           /\ permit'[r].state = "submission_started" /\ permit'[r].n = permit[r].n
           /\ permit'[r].deadline = permit[r].deadline
<1>1. outbox' \in [Rows -> OutboxRow]
    BY DEF MarkRow, RowsTyped, OutboxRow, RowStates
<1>2. permit' \in [Rows -> PermitRow]
    BY DEF MarkRow, RowsTyped, PermitRow
<1>3. QED
    BY <1>1, <1>2 DEF MarkRow, RowsTyped, Others, SameRow

LEMMA UnclaimedRow ==
    ASSUME NEW row \in OutboxRow
    PROVE  /\ Unclaimed(row) \in OutboxRow
           /\ Unclaimed(row).state \in {"pending", "cancelled"}
           /\ Unclaimed(row).scope = row.scope /\ Unclaimed(row).attempts = row.attempts
           /\ Unclaimed(row).code = row.code
    BY DEF Unclaimed, OutboxRow, RowStates

LEMMA AbandonRowRows ==
    ASSUME RowsTyped, NEW r \in Rows, NEW n, AbandonRow(r, n)
    PROVE  /\ RowsTyped' /\ Others(r) /\ SameRow(r)
           /\ \/ outbox' = outbox /\ permit' = permit
              \/ /\ permit[r].state = "active"
                 /\ permit'[r].state = "expired" /\ permit'[r].n = permit[r].n
                 /\ permit'[r].deadline = permit[r].deadline
                 /\ \/ outbox'[r] = outbox[r] /\ outbox[r].state # "leased"
                    \/ outbox[r].state = "leased" /\ outbox'[r].state \in {"pending", "cancelled"}
<1>1. CASE PermitState(r, n) = "active"
    <2>1. permit[r].state = "active"
        BY <1>1 DEF PermitState
    <2>2. permit' = [permit EXCEPT ![r].state = "expired"]
        BY <1>1 DEF AbandonRow
    <2>3. /\ permit' \in [Rows -> PermitRow]
          /\ permit'[r].state = "expired" /\ permit'[r].n = permit[r].n
          /\ permit'[r].deadline = permit[r].deadline
          /\ \A q \in Rows : q # r => permit'[q] = permit[q]
        BY <2>2 DEF RowsTyped, PermitRow
    <2>4. CASE outbox[r].state = "leased"
        <3>1. outbox' = [outbox EXCEPT ![r] = Unclaimed(outbox[r])]
            BY <1>1, <2>4 DEF AbandonRow
        <3>2. outbox[r] \in OutboxRow
            BY DEF RowsTyped
        <3>3. outbox' \in [Rows -> OutboxRow] /\ outbox'[r] = Unclaimed(outbox[r])
              /\ \A q \in Rows : q # r => outbox'[q] = outbox[q]
            BY <3>1, <3>2, UnclaimedRow DEF RowsTyped
        <3>4. QED
            BY <2>1, <2>3, <2>4, <3>2, <3>3, UnclaimedRow DEF RowsTyped, Others, SameRow
    <2>5. CASE outbox[r].state # "leased"
        <3>1. outbox' = outbox
            BY <1>1, <2>5 DEF AbandonRow
        <3>2. QED
            BY <2>1, <2>3, <2>5, <3>1 DEF RowsTyped, Others, SameRow
    <2>6. QED
        BY <2>4, <2>5
<1>2. CASE PermitState(r, n) # "active"
    <2>1. outbox' = outbox /\ permit' = permit
        BY <1>2 DEF AbandonRow
    <2>2. QED
        BY <2>1 DEF RowsTyped, Others, SameRow
<1>3. QED
    BY <1>1, <1>2

LEMMA FinishRowRows ==
    ASSUME RowsTyped, NEW r \in Rows, NEW outcome \in RowStates,
           NEW code \in {"none", "unsent", "refused"}, FinishRow(r, outcome, code)
    PROVE  /\ RowsTyped' /\ Others(r)
           /\ outbox'[r].state = outcome /\ outbox'[r].code = code
           /\ outbox'[r].scope = outbox[r].scope /\ outbox'[r].attempts = outbox[r].attempts
           /\ permit'[r].state = "finished" /\ permit'[r].n = permit[r].n
           /\ permit'[r].deadline = permit[r].deadline
<1>1. outbox' \in [Rows -> OutboxRow]
    BY DEF FinishRow, RowsTyped, OutboxRow
<1>2. permit' \in [Rows -> PermitRow]
    BY DEF FinishRow, RowsTyped, PermitRow
<1>3. QED
    BY <1>1, <1>2 DEF FinishRow, RowsTyped, Others

---------------------------------------------------------------------------
(* What every store operation but a restore keeps of a row. *)

\* An attempt is never taken back, and one that was marked stays the latest.
Onward(r) ==
    /\ permit[r].n <= permit'[r].n
    /\ permit[r].state \in Submitted => permit'[r].n = permit[r].n /\ permit'[r].state \in Submitted
    /\ permit[r].state \in Submitted /\ permit[r].deadline = 0 => permit'[r].deadline = 0

\* A marked attempt stays in flight until its deadline.
Flying(r) ==
    permit[r].state = "submission_started" =>
        permit'[r].state = "submission_started" \/ permit'[r].deadline = 0

\* The row makes no new statement about the provider.
Silent(r) ==
    /\ outbox'[r].code = outbox[r].code
    /\ outbox[r].state \in Final => outbox'[r].state = outbox[r].state
    /\ outbox'[r].state \in Waiting => outbox[r].state \in Waiting
    /\ outbox'[r].state = "provider_accepted" => outbox[r].state = "provider_accepted"

\* Nothing new is in flight.
Hushed(r) ==
    permit'[r].state = "submission_started" =>
        /\ permit[r].state = "submission_started"
        /\ permit[r].deadline = 0 => permit'[r].deadline = 0
        /\ outbox'[r].scope = outbox[r].scope

ShapedNext(r) == Shaped(outbox'[r], permit'[r])

Calm(r) == ShapedNext(r) /\ Onward(r) /\ Flying(r) /\ Silent(r) /\ Hushed(r)

LEMMA Unmoved ==
    ASSUME RowsTyped, NEW r \in Rows, Shaped(outbox[r], permit[r]),
           outbox'[r] = outbox[r], permit'[r] = permit[r]
    PROVE  Calm(r)
<1>1. permit[r].n \in Nat
    BY Bounds DEF RowsTyped, PermitRow
<1>2. Onward(r) /\ Flying(r) /\ Silent(r) /\ Hushed(r)
    BY <1>1 DEF Onward, Flying, Silent, Hushed
<1>3. QED
    BY <1>2 DEF Calm, ShapedNext

LEMMA CreateAlertCalm ==
    ASSUME RowsTyped, inst \in [Installations -> InstRow], NEW r \in Rows, NEW s \in Scopes,
           \A q \in Rows : Shaped(outbox[q], permit[q]), CreateAlert(r, s)
    PROVE  RowsTyped' /\ \A q \in Rows : Calm(q)
<1>1. /\ RowsTyped' /\ Others(r) /\ permit' = permit
      /\ outbox[r].state = "absent" /\ outbox'[r].state = "pending"
      /\ outbox'[r].attempts = outbox[r].attempts /\ outbox'[r].code = outbox[r].code
    BY CreateAlertRows
<1>2. /\ permit[r].state # "submission_started" /\ permit[r].state # "finished"
      /\ permit[r].state # "active" /\ permit[r].n = outbox[r].attempts
    BY <1>1 DEF Shaped, Started, Waiting
<1>3. ShapedNext(r)
    BY <1>1, <1>2 DEF Shaped, ShapedNext, Started, Waiting
<1>4. permit[r].n \in Nat
    BY Bounds DEF RowsTyped, PermitRow
<1>5. Calm(r)
    BY <1>1, <1>2, <1>3, <1>4
       DEF Calm, Onward, Flying, Silent, Hushed, Submitted, Final, Waiting
<1>6. ASSUME NEW q \in Rows, q # r PROVE Calm(q)
    BY <1>1, <1>6, Unmoved DEF Others
<1>7. QED
    BY <1>1, <1>5, <1>6

LEMMA ClaimRowCalm ==
    ASSUME RowsTyped, NEW r \in Rows, \A q \in Rows : Shaped(outbox[q], permit[q]),
           Claimable(r), ClaimRow(r)
    PROVE  /\ RowsTyped' /\ Others(r) /\ \A q \in Rows : Calm(q)
           /\ permit'[r].n = outbox[r].attempts + 1
<1>1. outbox[r].state = "pending" /\ outbox[r].attempts < MaxClaims
    BY DEF Claimable
<1>2. /\ RowsTyped' /\ Others(r)
      /\ outbox'[r].state = "leased" /\ outbox'[r].attempts = outbox[r].attempts + 1
      /\ outbox'[r].code = outbox[r].code
      /\ permit'[r].n = outbox[r].attempts + 1 /\ permit'[r].state = "active"
    BY <1>1, ClaimRowRows
<1>3. /\ permit[r].state # "submission_started" /\ permit[r].state # "finished"
      /\ permit[r].n = outbox[r].attempts
    BY <1>1 DEF Shaped, Started, Waiting
<1>4. permit[r].n \in Nat /\ outbox[r].attempts \in Nat
    BY Bounds DEF RowsTyped, PermitRow, OutboxRow
<1>5. ShapedNext(r)
    BY <1>2 DEF Shaped, ShapedNext, Started
<1>6. Calm(r)
    BY <1>1, <1>2, <1>3, <1>4, <1>5
       DEF Calm, Onward, Flying, Silent, Hushed, Submitted, Final, Waiting
<1>7. ASSUME NEW q \in Rows, q # r PROVE Calm(q)
    BY <1>2, <1>7, Unmoved DEF Others
<1>8. QED
    BY <1>2, <1>6, <1>7

LEMMA MarkRowCalm ==
    ASSUME RowsTyped, NEW r \in Rows, NEW n, \A q \in Rows : Shaped(outbox[q], permit[q]),
           Markable(r, n), MarkRow(r)
    PROVE  /\ RowsTyped' /\ Others(r)
           /\ \A q \in Rows : ShapedNext(q) /\ Onward(q) /\ Flying(q) /\ Silent(q)
           /\ \A q \in Rows : q # r => Hushed(q)
           /\ outbox[r].state = "leased" /\ permit[r].n = n
           /\ permit'[r].n = n /\ permit'[r].state = "submission_started"
           /\ outbox'[r].scope = outbox[r].scope
<1>1. outbox[r].state = "leased" /\ permit[r].state = "active" /\ permit[r].n = n
    BY DEF Markable, PermitState
<1>2. /\ RowsTyped' /\ Others(r) /\ SameRow(r)
      /\ outbox'[r].state = Started
      /\ permit'[r].state = "submission_started" /\ permit'[r].n = permit[r].n
      /\ permit'[r].deadline = permit[r].deadline
    BY MarkRowRows
<1>3. permit[r].n \in Nat
    BY Bounds DEF RowsTyped, PermitRow
<1>4. ShapedNext(r)
    BY <1>1, <1>2 DEF Shaped, ShapedNext, Started, SameRow
<1>5. Onward(r) /\ Flying(r) /\ Silent(r)
    BY <1>1, <1>2, <1>3
       DEF Onward, Flying, Silent, Submitted, Final, Waiting, Started, SameRow
<1>6. ASSUME NEW q \in Rows, q # r PROVE Calm(q)
    BY <1>2, <1>6, Unmoved DEF Others
<1>7. QED
    BY <1>1, <1>2, <1>4, <1>5, <1>6 DEF Calm, SameRow

LEMMA AbandonRowCalm ==
    ASSUME RowsTyped, NEW r \in Rows, NEW n, \A q \in Rows : Shaped(outbox[q], permit[q]),
           AbandonRow(r, n)
    PROVE  RowsTyped' /\ \A q \in Rows : Calm(q)
<1>1. /\ RowsTyped' /\ Others(r) /\ SameRow(r)
      /\ \/ outbox' = outbox /\ permit' = permit
         \/ /\ permit[r].state = "active"
            /\ permit'[r].state = "expired" /\ permit'[r].n = permit[r].n
            /\ permit'[r].deadline = permit[r].deadline
            /\ \/ outbox'[r] = outbox[r] /\ outbox[r].state # "leased"
               \/ outbox[r].state = "leased" /\ outbox'[r].state \in {"pending", "cancelled"}
    BY AbandonRowRows
<1>2. permit[r].n \in Nat
    BY Bounds DEF RowsTyped, PermitRow
<1>3. Calm(r)
    <2>1. CASE outbox' = outbox /\ permit' = permit
        BY <2>1, Unmoved
    <2>2. CASE /\ permit[r].state = "active"
               /\ permit'[r].state = "expired" /\ permit'[r].n = permit[r].n
               /\ permit'[r].deadline = permit[r].deadline
               /\ \/ outbox'[r] = outbox[r] /\ outbox[r].state # "leased"
                  \/ outbox[r].state = "leased" /\ outbox'[r].state \in {"pending", "cancelled"}
        <3>1. outbox[r].state = "leased" /\ outbox'[r].state \in {"pending", "cancelled"}
            BY <2>2 DEF Shaped
        <3>2. ShapedNext(r)
            BY <1>1, <2>2, <3>1 DEF Shaped, ShapedNext, Started, SameRow
        <3>3. QED
            BY <1>1, <1>2, <2>2, <3>1, <3>2
               DEF Calm, Onward, Flying, Silent, Hushed, Submitted, Final, Waiting, SameRow
    <2>3. QED
        BY <1>1, <2>1, <2>2
<1>4. ASSUME NEW q \in Rows, q # r PROVE Calm(q)
    BY <1>1, <1>4, Unmoved DEF Others
<1>5. QED
    BY <1>1, <1>3, <1>4

LEMMA FinishRowCalm ==
    ASSUME RowsTyped, NEW r \in Rows, NEW n, NEW outcome \in Final \ {"cancelled"},
           NEW code \in {"none", "unsent", "refused"},
           \A q \in Rows : Shaped(outbox[q], permit[q]),
           InFlight(r, n), FinishRow(r, outcome, code)
    PROVE  /\ RowsTyped' /\ Others(r)
           /\ \A q \in Rows : ShapedNext(q) /\ Onward(q) /\ Hushed(q)
           /\ \A q \in Rows : q # r => Calm(q)
           /\ outbox[r].state = Started /\ permit[r].n = n
           /\ outbox'[r].state = outcome /\ outbox'[r].code = code
<1>1. /\ outbox[r].state = Started /\ permit[r].state = "submission_started" /\ permit[r].n = n
    BY DEF InFlight, PermitState
<1>2. outcome \in RowStates
    BY DEF Final, RowStates
<1>3. /\ RowsTyped' /\ Others(r)
      /\ outbox'[r].state = outcome /\ outbox'[r].code = code
      /\ outbox'[r].scope = outbox[r].scope /\ outbox'[r].attempts = outbox[r].attempts
      /\ permit'[r].state = "finished" /\ permit'[r].n = permit[r].n
      /\ permit'[r].deadline = permit[r].deadline
    BY <1>2, FinishRowRows
<1>4. permit[r].n \in Nat
    BY Bounds DEF RowsTyped, PermitRow
<1>5. ShapedNext(r)
    BY <1>1, <1>3 DEF Shaped, ShapedNext, Started, Final, Waiting
<1>6. Onward(r) /\ Hushed(r)
    BY <1>1, <1>3, <1>4 DEF Onward, Hushed, Submitted
<1>7. ASSUME NEW q \in Rows, q # r PROVE Calm(q)
    BY <1>3, <1>7, Unmoved DEF Others
<1>8. QED
    BY <1>1, <1>3, <1>5, <1>6, <1>7 DEF Calm

\* The permit that a fence or a recovery leaves.
LEMMA PermitEnded ==
    ASSUME NEW p \in PermitRow
    PROVE  /\ [p EXCEPT !.state = "finished"] \in PermitRow
           /\ [p EXCEPT !.state = "expired"] \in PermitRow
    BY DEF PermitRow

LEMMA RowEnded ==
    ASSUME NEW row \in OutboxRow
    PROVE  /\ [row EXCEPT !.state = "provider_outcome_unknown", !.until = 0] \in OutboxRow
           /\ [row EXCEPT !.state = "provider_outcome_unknown"] \in OutboxRow
           /\ [row EXCEPT !.state = "cancelled"] \in OutboxRow
    BY DEF OutboxRow, RowStates

LEMMA RecoveredRow ==
    ASSUME RowsTyped, NEW r \in Rows, Shaped(outbox[r], permit[r]),
           outbox'[r] = Recovered(r).row, permit'[r] = Recovered(r).permit
    PROVE  outbox'[r] \in OutboxRow /\ permit'[r] \in PermitRow /\ Calm(r)
<1> DEFINE p == permit[r]
           row == outbox[r]
           late == p.state = "submission_started" /\ p.deadline = 0
           unused == p.state = "active" /\ p.expires = 0
           q == IF late THEN [p EXCEPT !.state = "finished"]
                ELSE IF unused THEN [p EXCEPT !.state = "expired"] ELSE p
           new == IF row.state = Started /\ q.state = "finished" /\ q.deadline = 0
                  THEN [row EXCEPT !.state = "provider_outcome_unknown", !.until = 0]
                  ELSE IF row.state = "leased" /\ row.until = 0
                          /\ q.state \notin {"active", "submission_started"}
                  THEN Unclaimed(row) ELSE row
<1>1. p \in PermitRow /\ row \in OutboxRow /\ Shaped(row, p)
    BY DEF RowsTyped
<1>2. permit'[r] = q /\ outbox'[r] = new
    BY DEF Recovered
<1>3. /\ q \in PermitRow /\ q.n = p.n /\ q.deadline = p.deadline
      /\ q.state = IF late THEN "finished" ELSE IF unused THEN "expired" ELSE p.state
    BY <1>1, PermitEnded DEF PermitRow
<1>4. /\ new \in OutboxRow /\ new.scope = row.scope /\ new.attempts = row.attempts
      /\ new.code = row.code
      /\ \/ new.state = row.state /\ ~(row.state = Started /\ q.state = "finished" /\ q.deadline = 0)
         \/ /\ row.state = Started /\ q.state = "finished" /\ q.deadline = 0
            /\ new.state = "provider_outcome_unknown"
         \/ /\ row.state = "leased" /\ q.state \notin {"active", "submission_started"}
            /\ new.state \in {"pending", "cancelled"}
    BY <1>1, RowEnded, UnclaimedRow DEF OutboxRow
<1>5. p.n \in Nat
    BY <1>1, Bounds DEF PermitRow
<1> HIDE DEF q, new
<1>6. Shaped(new, q)
    BY <1>1, <1>3, <1>4 DEF Shaped, Started, Waiting
<1>7. QED
    BY <1>1, <1>2, <1>3, <1>4, <1>5, <1>6
       DEF Calm, ShapedNext, Onward, Flying, Silent, Hushed, Submitted, Final, Waiting, Started,
           Shaped

LEMMA RecoverCalm ==
    ASSUME RowsTyped, \A q \in Rows : Shaped(outbox[q], permit[q]), RecoverExpiredDispatches
    PROVE  RowsTyped' /\ \A q \in Rows : Calm(q)
<1>1. ASSUME NEW r \in Rows
      PROVE  outbox'[r] \in OutboxRow /\ permit'[r] \in PermitRow /\ Calm(r)
    BY RecoveredRow DEF RecoverExpiredDispatches
<1>2. RowsTyped'
    BY <1>1 DEF RecoverExpiredDispatches, RowsTyped
<1>3. QED
    BY <1>1, <1>2

\* A forced fence is one of a restore, when no deadline is left.
LEMMA FencedRow ==
    ASSUME RowsTyped, NEW r \in Rows, NEW s, NEW force \in BOOLEAN,
           force /\ permit[r].state = "submission_started" => permit[r].deadline = 0,
           Shaped(outbox[r], permit[r]),
           outbox'[r] = Fenced(s, force)[r].row, permit'[r] = Fenced(s, force)[r].permit
    PROVE  outbox'[r] \in OutboxRow /\ permit'[r] \in PermitRow /\ Calm(r)
<1> DEFINE p == permit[r]
           row == outbox[r]
           over == p.state = "submission_started" /\ (force \/ p.deadline = 0)
           new == IF row.state \in {"pending", "leased"}
                  THEN [row EXCEPT !.state = "cancelled"]
                  ELSE IF row.state = Started /\ (force \/ over)
                  THEN [row EXCEPT !.state = "provider_outcome_unknown"] ELSE row
           q == IF p.state = "active" THEN [p EXCEPT !.state = "expired"]
                ELSE IF over THEN [p EXCEPT !.state = "finished"] ELSE p
<1>1. p \in PermitRow /\ row \in OutboxRow /\ Shaped(row, p)
    BY DEF RowsTyped
<1>2. CASE r \notin Of(s)
    <2>1. outbox'[r] = outbox[r] /\ permit'[r] = permit[r]
        BY <1>2 DEF Fenced
    <2>2. QED
        BY <1>1, <2>1, Unmoved
<1>3. CASE r \in Of(s)
    <2>1. permit'[r] = q /\ outbox'[r] = new
        BY <1>3 DEF Fenced
    <2>2. /\ q \in PermitRow /\ q.n = p.n /\ q.deadline = p.deadline
          /\ q.state = IF p.state = "active" THEN "expired" ELSE IF over THEN "finished" ELSE p.state
        BY <1>1, PermitEnded DEF PermitRow
    <2>3. /\ new \in OutboxRow /\ new.scope = row.scope /\ new.attempts = row.attempts
          /\ new.code = row.code
          /\ new.state = IF row.state \in {"pending", "leased"} THEN "cancelled"
                         ELSE IF row.state = Started /\ (force \/ over)
                         THEN "provider_outcome_unknown" ELSE row.state
        BY <1>1, RowEnded DEF OutboxRow
    <2>4. p.n \in Nat
        BY <1>1, Bounds DEF PermitRow
    <2> HIDE DEF q, new
    <2>5. Shaped(new, q)
        BY <1>1, <2>2, <2>3 DEF Shaped, Started, Waiting
    <2>6. over => p.deadline = 0
        OBVIOUS
    <2>7. QED
        BY <1>1, <2>1, <2>2, <2>3, <2>4, <2>5, <2>6
           DEF Calm, ShapedNext, Onward, Flying, Silent, Hushed, Submitted, Final, Waiting, Started,
               Shaped
<1>4. QED
    BY <1>2, <1>3

LEMMA FenceCalm ==
    ASSUME RowsTyped, NEW s, \A q \in Rows : Shaped(outbox[q], permit[q]), Fence(s)
    PROVE  RowsTyped' /\ \A q \in Rows : Calm(q)
<1>1. ASSUME NEW r \in Rows
      PROVE  outbox'[r] \in OutboxRow /\ permit'[r] \in PermitRow /\ Calm(r)
    BY FencedRow DEF Fence
<1>2. RowsTyped'
    BY <1>1 DEF Fence, RowsTyped
<1>3. QED
    BY <1>1, <1>2

\* What is marked and past its deadline, or not marked, is not in flight: after a
\* fence that found nothing undelivered the scope is quiet.
LEMMA FenceQuiets ==
    ASSUME RowsTyped, NEW s \in Scopes, \A q \in Rows : Shaped(outbox[q], permit[q]),
           ~Undelivered(s), \A q \in Rows : Calm(q)
    PROVE  Quiet(outbox', permit', s)
<1> SUFFICES ASSUME NEW r \in Rows, Covers(s, outbox'[r].scope),
                    permit'[r].state = "submission_started"
             PROVE  permit'[r].deadline = 0
    BY DEF Quiet
<1>1. /\ permit[r].state = "submission_started" /\ outbox'[r].scope = outbox[r].scope
      /\ permit[r].deadline = 0 => permit'[r].deadline = 0
    BY DEF Calm, Hushed
<1>2. r \in Of(s)
    BY <1>1 DEF Of, Shaped, Started
<1>3. permit[r].deadline \in Nat
    BY DEF RowsTyped, PermitRow
<1>4. QED
    BY <1>1, <1>2, <1>3 DEF Undelivered

LEMMA TickRows ==
    ASSUME RowsTyped, \A q \in Rows : Shaped(outbox[q], permit[q]), Tick
    PROVE  RowsTyped' /\ \A q \in Rows : Calm(q)
<1>1. ASSUME NEW r \in Rows
      PROVE  outbox'[r] \in OutboxRow /\ permit'[r] \in PermitRow /\ Calm(r)
    <2> DEFINE p == permit[r]
               row == outbox[r]
               u == Down(row.until)
               d == Down(p.deadline)
               e == Down(p.expires)
               new == [row EXCEPT !.until = u]
               q == [p EXCEPT !.deadline = d, !.expires = e]
    <2>1. p \in PermitRow /\ row \in OutboxRow /\ Shaped(row, p)
        BY DEF RowsTyped
    <2>2. u \in Nat /\ d \in Nat /\ e \in Nat
        BY <2>1, DownTyped DEF PermitRow, OutboxRow
    <2>3. p.deadline = 0 => d = 0
        BY DEF Down
    <2>4. outbox'[r] = new /\ permit'[r] = q
        BY DEF Tick
    <2> HIDE DEF u, d, e
    <2>5. /\ q \in PermitRow /\ q.n = p.n /\ q.state = p.state /\ q.deadline = d
        BY <2>1, <2>2 DEF PermitRow
    <2>6. /\ new \in OutboxRow /\ new.state = row.state /\ new.scope = row.scope
          /\ new.attempts = row.attempts /\ new.code = row.code
        BY <2>1, <2>2 DEF OutboxRow
    <2>7. p.n \in Nat
        BY <2>1, Bounds DEF PermitRow
    <2> HIDE DEF q, new
    <2>8. Shaped(new, q)
        BY <2>1, <2>5, <2>6 DEF Shaped
    <2>9. QED
        BY <2>3, <2>4, <2>5, <2>6, <2>7, <2>8
           DEF Calm, ShapedNext, Onward, Flying, Silent, Hushed, Submitted, Final, Waiting, Started,
               Shaped
<1>2. RowsTyped'
    BY <1>1 DEF Tick, RowsTyped
<1>3. QED
    BY <1>1, <1>2

---------------------------------------------------------------------------
(* Processes: what each step leaves of them. *)

WorkersTyped == worker \in [Workers -> WorkerRow]

\* Only process w moves.
Elsewhere(w) == \A v \in Workers : v # w => worker'[v] = worker[v]

\* It stays at its attempt.
SameAttempt(w) ==
    worker'[w].row = worker[w].row /\ worker'[w].n = worker[w].n

LEMMA WorkerFields ==
    ASSUME NEW k \in WorkerRow
    PROVE  /\ k.pc \in PCs /\ k.gen \in 0..MaxGenerations /\ k.row \in Rows \cup {NoRow}
           /\ k.n \in 0..MaxClaims /\ k.result \in Results
           /\ k.recoverIn \in 0..ProviderDeadline /\ k.batch \subseteq Rows
    BY DEF WorkerRow

LEMMA StoppedTyped ==
    /\ Stopped \in WorkerRow
    /\ \A b \in SUBSET Rows : [Stopped EXCEPT !.batch = b] \in WorkerRow
    BY Bounds DEF Stopped, WorkerRow, PCs, Results

LEMMA GoMoves ==
    ASSUME WorkersTyped, NEW w \in Workers, NEW pc \in PCs, Go(w, pc)
    PROVE  /\ WorkersTyped' /\ Elsewhere(w) /\ SameAttempt(w)
           /\ worker'[w].pc = pc /\ worker'[w].result = worker[w].result
<1>1. [worker[w] EXCEPT !.pc = pc] \in WorkerRow
    BY DEF WorkersTyped, WorkerRow
<1>2. QED
    BY <1>1 DEF Go, WorkersTyped, Elsewhere, SameAttempt, WorkerRow

LEMMA SetMoves ==
    ASSUME WorkersTyped, NEW w \in Workers, NEW k \in WorkerRow,
           worker' = [worker EXCEPT ![w] = k]
    PROVE  WorkersTyped' /\ Elsewhere(w) /\ worker'[w] = k
    BY DEF WorkersTyped, Elsewhere

LEMMA UnsentMoves ==
    ASSUME WorkersTyped, NEW w \in Workers, Unsent(w)
    PROVE  /\ WorkersTyped' /\ Elsewhere(w) /\ SameAttempt(w)
           /\ worker'[w].pc = "answered" /\ worker'[w].result = "unsent"
<1> DEFINE k == [worker[w] EXCEPT !.pc = "answered", !.result = "unsent"]
<1>1. "answered" \in PCs /\ "unsent" \in Results
    BY DEF PCs, Results
<1>2. /\ k \in WorkerRow /\ k.pc = "answered" /\ k.result = "unsent"
      /\ k.row = worker[w].row /\ k.n = worker[w].n
    BY <1>1 DEF WorkersTyped, WorkerRow
<1>3. worker' = [worker EXCEPT ![w] = k]
    BY DEF Unsent, WorkersTyped
<1> HIDE DEF k
<1>4. WorkersTyped' /\ Elsewhere(w) /\ worker'[w] = k
    BY <1>2, <1>3, SetMoves
<1>5. QED
    BY <1>2, <1>4 DEF SameAttempt

\* A lease's generation is one a process can name.
LEMMA LeaseTyped ==
    ASSUME lease \in LeaseRow, NEW w \in Workers
    PROVE  /\ AcquiredLease(w) \in LeaseRow
           /\ AcquiredLease(w).gen \in 0..MaxGenerations
           /\ RenewedLease \in LeaseRow /\ NoLease \in LeaseRow
           /\ \A g : ReleasedLease(w, g) \in LeaseRow
<1>1. lease.gen \in Nat /\ LeaseTime \in Nat /\ MaxGenerations \in Nat /\ MaxGenerations >= 1
    BY Bounds DEF LeaseRow
<1>2. lease.gen % MaxGenerations \in 0..(MaxGenerations - 1)
    BY <1>1
<1> DEFINE g == lease.gen % MaxGenerations
<1>3. g + 1 \in Nat /\ g + 1 \in 0..MaxGenerations
    <2>1. g \in 0..(MaxGenerations - 1)
        BY <1>2
    <2> HIDE DEF g
    <2>2. QED
        BY <1>1, <2>1
<1> HIDE DEF g
<1>4. [owner |-> w, gen |-> g + 1, until |-> LeaseTime] \in LeaseRow
    BY <1>1, <1>3 DEF LeaseRow
<1>5. AcquiredLease(w) = [owner |-> w, gen |-> g + 1, until |-> LeaseTime]
    BY DEF AcquiredLease, g
<1>6. RenewedLease \in LeaseRow /\ NoLease \in LeaseRow
    BY <1>1 DEF RenewedLease, LeaseRow, NoLease
<1>7. QED
    BY <1>3, <1>4, <1>5, <1>6 DEF ReleasedLease

LEMMA SupervisorMoves ==
    ASSUME WorkersTyped, lease \in LeaseRow, gates \in GateRow, NEW w \in Workers,
           SupervisorStep(w) \/ Blocked(w) \/ Crash(w)
    PROVE  /\ WorkersTyped' /\ Elsewhere(w) /\ lease' \in LeaseRow /\ gates' \in GateRow
           /\ worker'[w].pc \notin Holding
           /\ gates.restore = "ready" => gates'.restore = "ready"
           /\ UNCHANGED <<inst, link, rules, outbox, permit, ticket, op, wire, sent>>
<1>1. CASE ActivateGates(w)
    <2>1. Go(w, "gated") /\ "gated" \in PCs /\ "gated" \notin Holding
        BY <1>1 DEF ActivateGates, PCs, Holding
    <2>2. gates' \in GateRow /\ gates'.restore = gates.restore
        BY <1>1 DEF ActivateGates, GateRow
    <2>3. QED
        BY <1>1, <2>1, <2>2, GoMoves DEF ActivateGates
<1>2. CASE AcquireEgress(w)
    <2>1. UNCHANGED <<inst, link, rules, outbox, permit, ticket, gates, op, wire, sent>>
        BY <1>2 DEF AcquireEgress
    <2>2. CASE MonitorsEnabled /\ LeaseFree
        <3>1. /\ lease' = AcquiredLease(w)
              /\ worker' = [worker EXCEPT ![w].pc = "idle", ![w].gen = lease'.gen,
                                          ![w].recoverIn = 0]
            BY <1>2, <2>2 DEF AcquireEgress
        <3>2. lease' \in LeaseRow /\ lease'.gen \in 0..MaxGenerations
            BY <3>1, LeaseTyped
        <3> DEFINE h == lease'.gen
                   k == [worker[w] EXCEPT !.pc = "idle", !.gen = h, !.recoverIn = 0]
        <3>3. h \in 0..MaxGenerations
            BY <3>2
        <3>4. worker' = [worker EXCEPT ![w] = k]
            BY <3>1 DEF WorkersTyped
        <3> HIDE DEF h
        <3>5. k \in WorkerRow /\ k.pc = "idle"
            <4>1. worker[w] \in WorkerRow /\ "idle" \in PCs /\ 0 \in 0..ProviderDeadline
                BY Bounds DEF WorkersTyped, PCs
            <4>2. QED
                BY <3>3, <4>1 DEF WorkerRow
        <3> HIDE DEF k
        <3>6. WorkersTyped' /\ Elsewhere(w) /\ worker'[w] = k
            BY <3>4, <3>5, SetMoves
        <3>7. QED
            BY <2>1, <3>2, <3>5, <3>6 DEF Holding
    <2>3. CASE ~(MonitorsEnabled /\ LeaseFree)
        <3>1. Go(w, "stopped") /\ lease' = lease /\ "stopped" \in PCs /\ "stopped" \notin Holding
            BY <1>2, <2>3 DEF AcquireEgress, PCs, Holding
        <3>2. QED
            BY <2>1, <3>1, GoMoves
    <2>4. QED
        BY <2>2, <2>3
<1>3. CASE RenewOwnership(w) \/ DeactivateRenew(w)
    <2>1. /\ UNCHANGED <<inst, link, rules, outbox, permit, ticket, gates, op, wire, sent>>
          /\ lease' = lease \/ lease' = RenewedLease
          /\ \/ \E pc \in {"ready", "closing"} : Go(w, pc)
             \/ worker' = [worker EXCEPT ![w] = [worker[w] EXCEPT !.pc = "failing"]]
             \/ worker' = [worker EXCEPT ![w] = [worker[w] EXCEPT !.pc = "releasing"]]
             \/ worker' = [worker EXCEPT ![w] = Stopped]
        BY <1>3 DEF RenewOwnership, DeactivateRenew
    <2>2. lease' \in LeaseRow
        BY <2>1, LeaseTyped
    <2>3. WorkersTyped' /\ Elsewhere(w) /\ worker'[w].pc \notin Holding
        <3>1. CASE \E pc \in {"ready", "closing"} : Go(w, pc)
            <4>1. PICK pc \in {"ready", "closing"} : Go(w, pc)
                BY <3>1
            <4>2. pc \in PCs /\ pc \notin Holding
                BY <4>1 DEF PCs, Holding
            <4>3. QED
                BY <4>1, <4>2, GoMoves
        <3>2. CASE worker' = [worker EXCEPT ![w] = [worker[w] EXCEPT !.pc = "failing"]]
            <4>1. Go(w, "failing") /\ "failing" \in PCs /\ "failing" \notin Holding
                BY <3>2 DEF Go, WorkersTyped, PCs, Holding
            <4>2. QED
                BY <4>1, GoMoves
        <3>3. CASE worker' = [worker EXCEPT ![w] = [worker[w] EXCEPT !.pc = "releasing"]]
            <4>1. Go(w, "releasing") /\ "releasing" \in PCs /\ "releasing" \notin Holding
                BY <3>3 DEF Go, WorkersTyped, PCs, Holding
            <4>2. QED
                BY <4>1, GoMoves
        <3>4. CASE worker' = [worker EXCEPT ![w] = Stopped]
            <4>1. WorkersTyped' /\ Elsewhere(w) /\ worker'[w] = Stopped
                BY <3>4, StoppedTyped, SetMoves
            <4>2. QED
                BY <4>1 DEF Stopped, Holding
        <3>5. QED
            BY <2>1, <3>1, <3>2, <3>3, <3>4
    <2>4. QED
        BY <2>1, <2>2, <2>3
<1>4. CASE Blocked(w)
    <2>1. Go(w, "failing") /\ "failing" \in PCs /\ "failing" \notin Holding
        BY <1>4 DEF Blocked, PCs, Holding
    <2>2. QED
        BY <1>4, <2>1, GoMoves DEF Blocked, storeVars
<1>5. CASE CloseGates(w)
    <2>1. Go(w, "releasing") /\ "releasing" \in PCs /\ "releasing" \notin Holding
        BY <1>5 DEF CloseGates, PCs, Holding
    <2>2. gates' \in GateRow /\ gates'.restore = gates.restore
        BY <1>5 DEF CloseGates, DeactivateWorkerGates, GateRow
    <2>3. QED
        BY <1>5, <2>1, <2>2, GoMoves DEF CloseGates
<1>6. CASE ReleaseEgress(w)
    <2> DEFINE k == [Stopped EXCEPT !.batch = worker[w].batch]
    <2>1. worker[w].batch \in SUBSET Rows
        BY DEF WorkersTyped, WorkerRow
    <2>2. k \in WorkerRow /\ k.pc \notin Holding
        BY <2>1, StoppedTyped DEF Stopped, Holding
    <2>3. worker' = [worker EXCEPT ![w] = k] /\ lease' = ReleasedLease(w, worker[w].gen)
        BY <1>6 DEF ReleaseEgress
    <2> HIDE DEF k
    <2>4. WorkersTyped' /\ Elsewhere(w) /\ worker'[w] = k /\ lease' \in LeaseRow
        BY <2>2, <2>3, SetMoves, LeaseTyped
    <2>5. QED
        BY <1>6, <2>2, <2>4 DEF ReleaseEgress
<1>7. CASE Crash(w)
    <2>1. worker' = [worker EXCEPT ![w] = Stopped]
        BY <1>7 DEF Crash
    <2>2. WorkersTyped' /\ Elsewhere(w) /\ worker'[w].pc \notin Holding
        <3>1. WorkersTyped' /\ Elsewhere(w) /\ worker'[w] = Stopped
            BY <2>1, StoppedTyped, SetMoves
        <3>2. QED
            BY <3>1 DEF Stopped, Holding
    <2>3. QED
        BY <1>7, <2>2 DEF Crash, storeVars
<1>8. QED
    BY <1>1, <1>2, <1>3, <1>4, <1>5, <1>6, <1>7 DEF SupervisorStep

---------------------------------------------------------------------------
(* The shape of rows and holders is kept. *)

\* Process w takes a step that leaves it, if it still works on an attempt, with
\* the one it had or with a new one.
Acts(w) ==
    worker'[w].pc \in Holding =>
        /\ worker'[w].row \in Rows
        /\ Holds(worker'[w], permit'[worker'[w].row])
        /\ \/ worker[w].pc \in Holding /\ SameAttempt(w)
           \/ permit[worker'[w].row].n < worker'[w].n

\* Every marked attempt stays in flight, but the one w finishes.
FlyingBut(w) ==
    \A r \in Rows :
        \/ Flying(r)
        \/ worker[w].pc \in Holding /\ Row(w) = r /\ Attempt(w) = permit[r].n

LEMMA HolderKept ==
    ASSUME RowsTyped, NEW r \in Rows, NEW k \in WorkerRow, Holds(k, permit[r]),
           Onward(r), permit'[r] \in PermitRow, Flying(r) \/ k.pc \notin Before
    PROVE  Holds(k, permit'[r])
<1>1. permit[r].n \in Nat /\ permit'[r].n \in Nat /\ k.n \in Nat
    BY Bounds DEF RowsTyped, PermitRow, WorkerRow
<1>2. k.pc \in Before => k.pc \in Marked
    BY DEF Before, Marked
<1>3. QED
    BY <1>1, <1>2 DEF Holds, Onward, Flying, Submitted

LEMMA WorkKept ==
    ASSUME RowsTyped, RowsTyped', WorkersTyped, WorkersTyped', WorkInv, NEW w \in Workers,
           Elsewhere(w), backup' = backup, \A r \in Rows : ShapedNext(r) /\ Onward(r),
           FlyingBut(w), Acts(w)
    PROVE  WorkInv'
<1>1. RowsShaped'
    BY DEF WorkInv, RowsShaped, ShapedNext
<1>2. Before \subseteq Marked /\ Marked \subseteq Holding
    BY DEF Before, Marked, Holding
<1>3. ASSUME NEW v \in Workers, worker'[v].pc \in Holding
      PROVE  worker'[v].row \in Rows /\ Holds(worker'[v], permit'[worker'[v].row])
    <2>1. CASE v = w
        BY <1>3, <2>1 DEF Acts
    <2>2. CASE v # w
        <3>1. worker'[v] = worker[v] /\ worker[v] \in WorkerRow
            BY <2>2 DEF Elsewhere, WorkersTyped
        <3>2. worker[v].row \in Rows /\ Holds(worker[v], permit[worker[v].row])
            BY <1>3, <3>1 DEF WorkInv, HoldersFit, Row
        <3>3. permit'[worker[v].row] \in PermitRow
            BY <3>2 DEF RowsTyped
        <3>4. Flying(worker[v].row) \/ worker[v].pc \notin Before
            <4>1. CASE /\ worker[w].pc \in Holding /\ Row(w) = worker[v].row
                       /\ Attempt(w) = permit[worker[v].row].n
                <5>1. worker[v].n # worker[w].n
                    BY <1>3, <2>2, <3>1, <4>1 DEF WorkInv, HoldersApart, Row, Attempt
                <5>2. QED
                    BY <1>2, <3>2, <4>1, <5>1 DEF Holds, Attempt
            <4>2. QED
                BY <3>2, <4>1 DEF FlyingBut
        <3>5. QED
            BY <3>1, <3>2, <3>3, <3>4, HolderKept
    <2>3. QED
        BY <2>1, <2>2
<1>4. ASSUME NEW v \in Workers, v # w, worker'[v].pc \in Holding, worker'[w].pc \in Holding,
             worker'[v].row = worker'[w].row
      PROVE  worker'[v].n # worker'[w].n
    <2>1. worker'[v] = worker[v]
        BY <1>4 DEF Elsewhere
    <2>2. worker[v].row \in Rows /\ Holds(worker[v], permit[worker[v].row])
        BY <1>4, <2>1 DEF WorkInv, HoldersFit, Row
    <2>3. CASE worker[w].pc \in Holding /\ SameAttempt(w)
        BY <1>4, <2>1, <2>3 DEF SameAttempt, WorkInv, HoldersApart, Row, Attempt
    <2>4. CASE permit[worker'[w].row].n < worker'[w].n
        <3>1. worker[v].n <= permit[worker[v].row].n
            BY <1>4, <2>1, <2>2 DEF Holds
        <3>2. worker[v].n \in Nat /\ permit[worker[v].row].n \in Nat /\ worker'[w].n \in Nat
            BY <2>2, Bounds DEF RowsTyped, PermitRow, WorkersTyped, WorkerRow
        <3>3. QED
            BY <1>4, <2>1, <2>4, <3>1, <3>2
    <2>5. QED
        BY <1>4, <2>3, <2>4 DEF Acts
<1>5. HoldersFit'
    BY <1>3 DEF HoldersFit, Row
<1>6. HoldersApart'
    <2> SUFFICES ASSUME NEW u \in Workers, NEW v \in Workers, u # v,
                        worker'[u].pc \in Holding, worker'[v].pc \in Holding,
                        worker'[u].row = worker'[v].row
                 PROVE  worker'[u].n # worker'[v].n
        BY DEF HoldersApart, Row, Attempt
    <2>1. CASE u = w
        BY <1>4, <2>1
    <2>2. CASE v = w
        BY <1>4, <2>2
    <2>3. CASE u # w /\ v # w
        BY <2>3 DEF Elsewhere, WorkInv, HoldersApart, Row, Attempt
    <2>4. QED
        BY <2>1, <2>2, <2>3
<1>7. QED
    BY <1>1, <1>5, <1>6 DEF WorkInv

\* No process moves from its attempt.
Rests == \A w \in Workers :
    worker'[w].pc = worker[w].pc /\ worker'[w].row = worker[w].row /\ worker'[w].n = worker[w].n

LEMMA WorkRests ==
    ASSUME RowsTyped, RowsTyped', WorkersTyped, WorkInv, Rests, backup' = backup,
           \A r \in Rows : ShapedNext(r) /\ Onward(r) /\ Flying(r)
    PROVE  WorkInv'
<1>1. RowsShaped'
    BY DEF WorkInv, RowsShaped, ShapedNext
<1>2. HoldersFit'
    <2> SUFFICES ASSUME NEW v \in Workers, worker'[v].pc \in Holding
                 PROVE  worker'[v].row \in Rows /\ Holds(worker'[v], permit'[worker'[v].row])
        BY DEF HoldersFit, Row
    <2>1. /\ worker'[v].pc = worker[v].pc /\ worker'[v].row = worker[v].row
          /\ worker'[v].n = worker[v].n /\ worker[v] \in WorkerRow
        BY DEF Rests, WorkersTyped
    <2>2. worker[v].row \in Rows /\ Holds(worker[v], permit[worker[v].row])
        BY <2>1 DEF WorkInv, HoldersFit, Row
    <2>3. permit'[worker[v].row] \in PermitRow
        BY <2>2 DEF RowsTyped
    <2>4. Holds(worker[v], permit'[worker[v].row])
        BY <2>1, <2>2, <2>3, HolderKept
    <2>5. QED
        BY <2>1, <2>2, <2>4 DEF Holds
<1>3. HoldersApart'
    BY DEF HoldersApart, Row, Attempt, Rests, WorkInv
<1>4. QED
    BY <1>1, <1>2, <1>3 DEF WorkInv

AllCalm == \A r \in Rows : Calm(r)

\* A step of process w, as far as rows and processes go.
Works(w) ==
    /\ RowsTyped' /\ WorkersTyped' /\ Elsewhere(w)
    /\ \A r \in Rows : ShapedNext(r) /\ Onward(r)
    /\ FlyingBut(w) /\ Acts(w)

LEMMA CalmWorks ==
    ASSUME RowsTyped', WorkersTyped', NEW w, Elsewhere(w), AllCalm, Acts(w)
    PROVE  Works(w)
    BY DEF Works, AllCalm, Calm, FlyingBut

LEMMA RowsSame ==
    ASSUME RowsTyped, WorkInv, outbox' = outbox, permit' = permit
    PROVE  RowsTyped' /\ AllCalm
<1>1. RowsTyped'
    BY DEF RowsTyped
<1>2. QED
    BY <1>1, Unmoved DEF AllCalm, WorkInv, RowsShaped

\* A process that works on no attempt after its step.
LEMMA RestingActs ==
    ASSUME NEW w, worker'[w].pc \notin Holding
    PROVE  Acts(w)
    BY DEF Acts

LEMMA HeldAttempt ==
    ASSUME WorkInv, RowsTyped, WorkersTyped, NEW w \in Workers, worker[w].pc \in Holding
    PROVE  /\ Row(w) \in Rows /\ Holds(worker[w], permit[Row(w)])
           /\ Shaped(outbox[Row(w)], permit[Row(w)])
           /\ outbox[Row(w)] \in OutboxRow /\ permit[Row(w)] \in PermitRow
           /\ worker[w].n \in Nat /\ permit[Row(w)].n \in Nat
<1>1. Row(w) \in Rows /\ Holds(worker[w], permit[Row(w)])
    BY DEF WorkInv, HoldersFit
<1>2. outbox[Row(w)] \in OutboxRow /\ permit[Row(w)] \in PermitRow
    BY <1>1 DEF RowsTyped
<1>3. QED
    BY <1>1, <1>2, Bounds DEF WorkInv, RowsShaped, PermitRow, WorkersTyped, WorkerRow

LEMMA SupervisorWorks ==
    ASSUME RowsTyped, WorkersTyped, WorkInv, lease \in LeaseRow, gates \in GateRow,
           NEW w \in Workers, SupervisorStep(w) \/ Blocked(w) \/ Crash(w)
    PROVE  Works(w) /\ AllCalm
<1>1. /\ WorkersTyped' /\ Elsewhere(w) /\ worker'[w].pc \notin Holding
      /\ outbox' = outbox /\ permit' = permit
    BY SupervisorMoves
<1>2. QED
    BY <1>1, RowsSame, RestingActs, CalmWorks

LEMMA RecoverWorks ==
    ASSUME RowsTyped, WorkersTyped, WorkInv, NEW w \in Workers, Recover(w)
    PROVE  Works(w) /\ AllCalm /\ worker'[w].pc \notin Holding
<1>1. CASE DeliveryEnabled
    <2> DEFINE k == [worker[w] EXCEPT !.pc = "claiming", !.recoverIn = ProviderDeadline]
    <2>1. worker[w] \in WorkerRow /\ "claiming" \in PCs /\ "claiming" \notin Holding
          /\ ProviderDeadline \in 0..ProviderDeadline
        BY Bounds DEF WorkersTyped, PCs, Holding
    <2>2. k \in WorkerRow /\ k.pc \notin Holding
        BY <2>1 DEF WorkerRow
    <2>3. worker' = [worker EXCEPT ![w] = k] /\ RecoverExpiredDispatches
        BY <1>1 DEF Recover, WorkersTyped
    <2> HIDE DEF k
    <2>4. WorkersTyped' /\ Elsewhere(w) /\ worker'[w] = k
        BY <2>2, <2>3, SetMoves
    <2>5. RowsTyped' /\ AllCalm
        BY <2>3, RecoverCalm DEF AllCalm, WorkInv, RowsShaped
    <2>6. QED
        BY <2>2, <2>4, <2>5, RestingActs, CalmWorks
<1>2. CASE ~DeliveryEnabled
    <2>1. Go(w, "failing") /\ "failing" \in PCs /\ "failing" \notin Holding
          /\ outbox' = outbox /\ permit' = permit
        BY <1>2 DEF Recover, PCs, Holding
    <2>2. WorkersTyped' /\ Elsewhere(w) /\ worker'[w].pc \notin Holding
        BY <2>1, GoMoves
    <2>3. QED
        BY <2>1, <2>2, RowsSame, RestingActs, CalmWorks
<1>3. QED
    BY <1>1, <1>2

LEMMA ClaimWorks ==
    ASSUME RowsTyped, WorkersTyped, WorkInv, NEW w \in Workers, Claim(w)
    PROVE  Works(w) /\ AllCalm /\ (worker'[w].pc \in Holding => worker'[w].pc = "claimed")
<1>1. CASE \E r \in Rows :
              /\ Claimable(r) /\ ClaimRow(r)
              /\ worker' = [worker EXCEPT ![w].pc = "claimed", ![w].row = r,
                                          ![w].n = outbox[r].attempts + 1]
    <2>1. PICK r \in Rows :
              /\ Claimable(r) /\ ClaimRow(r)
              /\ worker' = [worker EXCEPT ![w].pc = "claimed", ![w].row = r,
                                          ![w].n = outbox[r].attempts + 1]
        BY <1>1
    <2>2. /\ RowsTyped' /\ Others(r) /\ AllCalm
          /\ permit'[r].n = outbox[r].attempts + 1
        BY <2>1, ClaimRowCalm DEF AllCalm, WorkInv, RowsShaped
    <2> DEFINE n == outbox[r].attempts + 1
               k == [worker[w] EXCEPT !.pc = "claimed", !.row = r, !.n = n]
    <2>3. outbox[r].attempts \in Nat /\ outbox[r].attempts < MaxClaims
          /\ permit[r].n = outbox[r].attempts
        BY <2>1, Bounds DEF Claimable, RowsTyped, OutboxRow, WorkInv, RowsShaped, Shaped
    <2>4. n \in 0..MaxClaims /\ n >= 1 /\ permit[r].n < n /\ permit'[r].n = n
        BY <2>2, <2>3, Bounds
    <2>5. worker[w] \in WorkerRow /\ "claimed" \in PCs /\ "claimed" \notin Marked
          /\ "claimed" \notin Before
        BY DEF WorkersTyped, PCs, Marked, Before
    <2>6. worker' = [worker EXCEPT ![w] = k]
        BY <2>1 DEF WorkersTyped
    <2> HIDE DEF n
    <2>7. k \in WorkerRow /\ k.pc = "claimed" /\ k.row = r /\ k.n = n
        BY <2>4, <2>5 DEF WorkerRow
    <2> HIDE DEF k
    <2>8. WorkersTyped' /\ Elsewhere(w) /\ worker'[w] = k
        BY <2>6, <2>7, SetMoves
    <2>9. Holds(k, permit'[r])
        BY <2>4, <2>5, <2>7 DEF Holds
    <2>10. Acts(w)
        BY <2>4, <2>7, <2>8, <2>9 DEF Acts
    <2>11. QED
        BY <2>2, <2>7, <2>8, <2>10, CalmWorks
<1>2. CASE Go(w, "receipts") /\ UNCHANGED <<permit, outbox>>
    <2>1. "receipts" \in PCs /\ "receipts" \notin Holding
        BY DEF PCs, Holding
    <2>2. WorkersTyped' /\ Elsewhere(w) /\ worker'[w].pc \notin Holding
        BY <1>2, <2>1, GoMoves
    <2>3. QED
        BY <1>2, <2>2, RowsSame, RestingActs, CalmWorks
<1>3. CASE Go(w, "failing") /\ UNCHANGED <<permit, outbox>>
    <2>1. "failing" \in PCs /\ "failing" \notin Holding
        BY DEF PCs, Holding
    <2>2. WorkersTyped' /\ Elsewhere(w) /\ worker'[w].pc \notin Holding
        BY <1>3, <2>1, GoMoves
    <2>3. QED
        BY <1>3, <2>2, RowsSame, RestingActs, CalmWorks
<1>4. QED
    BY <1>1, <1>2, <1>3 DEF Claim

\* Either the attempt is marked, or nothing happens to the row.
MarkedNow(w) ==
    /\ worker'[w].pc = "marked" /\ SameAttempt(w)
    /\ Markable(Row(w), Attempt(w)) /\ outbox[Row(w)].state = "leased"
    /\ \A q \in Rows : q # Row(w) => Hushed(q)
    /\ \A q \in Rows : Silent(q)
    /\ outbox'[Row(w)].scope = outbox[Row(w)].scope

LEMMA MarkWorks ==
    ASSUME RowsTyped, WorkersTyped, WorkInv, NEW w \in Workers, Mark(w)
    PROVE  /\ Works(w) /\ Row(w) \in Rows
           /\ MarkedNow(w) \/ (AllCalm /\ worker'[w].pc = "abandoning")
<1> DEFINE r == Row(w)
           n == Attempt(w)
<1>1. worker[w].pc \in Holding /\ worker[w].pc = "claimed"
    BY DEF Mark, At, Holding
<1>2. /\ r \in Rows /\ Holds(worker[w], permit[r])
      /\ worker[w].n \in Nat /\ permit[r].n \in Nat /\ Attempt(w) = worker[w].n
    BY <1>1, HeldAttempt DEF Attempt
<1>3. CASE Markable(r, n)
    <2>1. MarkRow(r) /\ Go(w, "marked") /\ "marked" \in PCs
        BY <1>3 DEF Mark, PCs
    <2>2. /\ WorkersTyped' /\ Elsewhere(w) /\ SameAttempt(w) /\ worker'[w].pc = "marked"
        BY <2>1, GoMoves
    <2>3. /\ RowsTyped' /\ Others(r)
          /\ \A q \in Rows : ShapedNext(q) /\ Onward(q) /\ Flying(q) /\ Silent(q)
          /\ \A q \in Rows : q # r => Hushed(q)
          /\ outbox[r].state = "leased" /\ permit[r].n = n
          /\ permit'[r].n = n /\ permit'[r].state = "submission_started"
          /\ outbox'[r].scope = outbox[r].scope
        BY <1>2, <1>3, <2>1, MarkRowCalm DEF WorkInv, RowsShaped
    <2>4. Holds(worker'[w], permit'[worker'[w].row])
        BY <1>1, <1>2, <2>2, <2>3 DEF Holds, SameAttempt, Row, Attempt, Submitted
    <2>5. Acts(w)
        BY <1>1, <1>2, <2>2, <2>4 DEF Acts, SameAttempt, Row
    <2>6. FlyingBut(w)
        BY <2>3 DEF FlyingBut
    <2>7. QED
        BY <1>2, <1>3, <2>2, <2>3, <2>5, <2>6 DEF Works, MarkedNow
<1>4. CASE ~Markable(r, n)
    <2>1. Go(w, "abandoning") /\ "abandoning" \in PCs /\ outbox' = outbox /\ permit' = permit
        BY <1>4 DEF Mark, PCs
    <2>2. /\ WorkersTyped' /\ Elsewhere(w) /\ SameAttempt(w) /\ worker'[w].pc = "abandoning"
        BY <2>1, GoMoves
    <2>3. Holds(worker'[w], permit'[worker'[w].row])
        BY <1>1, <1>2, <2>1, <2>2 DEF Holds, SameAttempt, Row, Marked, Before
    <2>4. Acts(w)
        BY <1>1, <1>2, <2>2, <2>3 DEF Acts, SameAttempt, Row
    <2>5. QED
        BY <1>2, <2>1, <2>2, <2>4, RowsSame, CalmWorks
<1>5. QED
    BY <1>3, <1>4

LEMMA AbandonWorks ==
    ASSUME RowsTyped, WorkersTyped, WorkInv, NEW w \in Workers, Abandon(w)
    PROVE  Works(w) /\ AllCalm /\ worker'[w].pc \notin Holding
<1>1. worker[w].pc \in Holding
    BY DEF Abandon, At, Holding
<1>2. Row(w) \in Rows
    BY <1>1, HeldAttempt
<1>3. AbandonRow(Row(w), Attempt(w)) /\ Go(w, "failing")
      /\ "failing" \in PCs /\ "failing" \notin Holding
    BY DEF Abandon, PCs, Holding
<1>4. WorkersTyped' /\ Elsewhere(w) /\ worker'[w].pc \notin Holding
    BY <1>3, GoMoves
<1>5. RowsTyped' /\ AllCalm
    BY <1>2, <1>3, AbandonRowCalm DEF AllCalm, WorkInv, RowsShaped
<1>6. QED
    BY <1>4, <1>5, RestingActs, CalmWorks

\* The next await of a marked attempt.
Proceeds(w) ==
    /\ worker[w].pc \in Marked /\ worker'[w].pc \in Marked
    /\ worker'[w].pc \in Before => worker[w].pc \in Before
    /\ SameAttempt(w)

LEMMA ProceedWorks ==
    ASSUME RowsTyped, WorkersTyped, WorkersTyped', WorkInv, NEW w \in Workers, Elsewhere(w),
           Proceeds(w), outbox' = outbox, permit' = permit
    PROVE  Works(w) /\ AllCalm
<1>1. worker[w].pc \in Holding /\ worker'[w].pc \in Holding
    BY DEF Proceeds, Marked, Holding
<1>2. Row(w) \in Rows /\ Holds(worker[w], permit[Row(w)])
    BY <1>1, HeldAttempt
<1>3. Holds(worker'[w], permit'[worker'[w].row])
    BY <1>1, <1>2 DEF Holds, Proceeds, SameAttempt, Row
<1>4. Acts(w)
    BY <1>1, <1>2, <1>3 DEF Acts, Proceeds, SameAttempt, Row
<1>5. QED
    BY <1>4, RowsSame, CalmWorks

LEMMA AuthorizeWorks ==
    ASSUME RowsTyped, WorkersTyped, WorkInv, NEW w \in Workers, ReadToken(w) \/ AuthorizeFetch(w)
    PROVE  /\ Works(w) /\ AllCalm /\ Proceeds(w) /\ worker[w].pc \in Before
           /\ \/ worker'[w].pc \in Before
              \/ worker'[w].pc = "answered" /\ worker'[w].result = "unsent"
<1>1. worker[w].pc \in Before /\ outbox' = outbox /\ permit' = permit
    BY DEF ReadToken, AuthorizeFetch, At, Before, storeVars
<1>2. \/ Go(w, "token") \/ Go(w, "authorized") \/ Unsent(w)
    BY DEF ReadToken, AuthorizeFetch
<1>3. /\ WorkersTyped' /\ Elsewhere(w) /\ SameAttempt(w)
      /\ \/ worker'[w].pc \in Before
         \/ worker'[w].pc = "answered" /\ worker'[w].result = "unsent"
    <2>1. CASE Go(w, "token")
        <3>1. "token" \in PCs
            BY DEF PCs
        <3>2. QED
            BY <2>1, <3>1, GoMoves DEF Before
    <2>2. CASE Go(w, "authorized")
        <3>1. "authorized" \in PCs
            BY DEF PCs
        <3>2. QED
            BY <2>2, <3>1, GoMoves DEF Before
    <2>3. CASE Unsent(w)
        BY <2>3, UnsentMoves
    <2>4. QED
        BY <1>2, <2>1, <2>2, <2>3
<1>4. Proceeds(w)
    BY <1>1, <1>3 DEF Proceeds, Before, Marked
<1>5. Works(w) /\ AllCalm
    BY <1>1, <1>3, <1>4, ProceedWorks
<1>6. QED
    BY <1>1, <1>3, <1>4, <1>5

\* The request is made with time left, or the attempt ends unsent.
LEMMA SendWorks ==
    ASSUME RowsTyped, WorkersTyped, WorkInv, NEW w \in Workers, Send(w)
    PROVE  /\ Works(w) /\ AllCalm /\ Proceeds(w) /\ worker[w].pc \in Before
           /\ worker[w].pc = "authorized" /\ Row(w) \in Rows
           /\ \/ /\ worker'[w].pc = "waiting"
                 /\ permit[Row(w)].deadline > 0
                 /\ wire' = [wire EXCEPT ![Row(w)] = "flying"]
                 /\ sent' = [sent EXCEPT ![Row(w)] = sent[Row(w)] + 1]
              \/ /\ worker'[w].pc = "answered" /\ worker'[w].result = "unsent"
                 /\ wire' = wire /\ sent' = sent
<1>1. /\ worker[w].pc = "authorized" /\ worker[w].pc \in Before /\ worker[w].pc \in Holding
      /\ outbox' = outbox /\ permit' = permit
    BY DEF Send, At, Before, Holding, storeVars
<1>2. Row(w) \in Rows
    BY <1>1, HeldAttempt
<1>3. CASE permit[Row(w)].deadline > 0
    <2>1. /\ Go(w, "waiting") /\ "waiting" \in PCs
          /\ wire' = [wire EXCEPT ![Row(w)] = "flying"]
          /\ sent' = [sent EXCEPT ![Row(w)] = sent[Row(w)] + 1]
        BY <1>3 DEF Send, PCs
    <2>2. WorkersTyped' /\ Elsewhere(w) /\ SameAttempt(w) /\ worker'[w].pc = "waiting"
        BY <2>1, GoMoves
    <2>3. Proceeds(w)
        BY <1>1, <2>2 DEF Proceeds, Before, Marked
    <2>4. QED
        BY <1>1, <1>2, <1>3, <2>1, <2>2, <2>3, ProceedWorks
<1>4. CASE ~(permit[Row(w)].deadline > 0)
    <2>1. Unsent(w) /\ wire' = wire /\ sent' = sent
        BY <1>4 DEF Send
    <2>2. /\ WorkersTyped' /\ Elsewhere(w) /\ SameAttempt(w)
          /\ worker'[w].pc = "answered" /\ worker'[w].result = "unsent"
        BY <2>1, UnsentMoves
    <2>3. Proceeds(w)
        BY <1>1, <2>2 DEF Proceeds, Before, Marked
    <2>4. QED
        BY <1>1, <1>2, <2>1, <2>2, <2>3, ProceedWorks
<1>5. QED
    BY <1>3, <1>4

LEMMA ReceiveWorks ==
    ASSUME RowsTyped, WorkersTyped, WorkInv, NEW w \in Workers, ReceiveAnswer(w)
    PROVE  /\ Works(w) /\ AllCalm /\ Proceeds(w)
           /\ worker'[w].pc = "answered"
           /\ worker[w].pc = "waiting" /\ worker'[w].result \in {wire[Row(w)], "lost"}
<1>1. worker[w].pc = "waiting" /\ outbox' = outbox /\ permit' = permit
    BY DEF ReceiveAnswer, At, storeVars
<1>2. PICK a \in {wire[Row(w)], "lost"} \cap Results :
          worker' = [worker EXCEPT ![w].pc = "answered", ![w].result = a]
    BY DEF ReceiveAnswer
<1> DEFINE k == [worker[w] EXCEPT !.pc = "answered", !.result = a]
<1>3. worker[w] \in WorkerRow /\ "answered" \in PCs
    BY DEF WorkersTyped, PCs
<1>4. /\ k \in WorkerRow /\ k.pc = "answered" /\ k.result = a
      /\ k.row = worker[w].row /\ k.n = worker[w].n
    BY <1>2, <1>3 DEF WorkerRow
<1>5. worker' = [worker EXCEPT ![w] = k]
    BY <1>2 DEF WorkersTyped
<1> HIDE DEF k
<1>6. WorkersTyped' /\ Elsewhere(w) /\ worker'[w] = k
    BY <1>4, <1>5, SetMoves
<1>7. Proceeds(w)
    BY <1>1, <1>4, <1>6 DEF Proceeds, SameAttempt, Marked, Before
<1>8. worker'[w].pc = "answered" /\ worker'[w].result \in {wire[Row(w)], "lost"}
    BY <1>2, <1>4, <1>6
<1>9. Works(w) /\ AllCalm
    BY <1>1, <1>6, <1>7, ProceedWorks
<1>10. QED
    BY <1>1, <1>7, <1>8, <1>9

\* The row of an attempt still in flight takes the outcome, and the process lets
\* go of it; otherwise nothing happens to any row.
Recorded(w, outcome, code) ==
    /\ InFlight(Row(w), Attempt(w))
    /\ outbox[Row(w)].state = Started
    /\ outbox'[Row(w)].state = outcome /\ outbox'[Row(w)].code = code
    /\ Others(Row(w))

LEMMA RecordWorks ==
    ASSUME RowsTyped, WorkersTyped, WorkInv, NEW w \in Workers,
           NEW outcome \in Final \ {"cancelled"}, NEW code \in {"none", "unsent", "refused"},
           Record(w, outcome, code)
    PROVE  /\ Works(w) /\ worker[w].pc = "answered" /\ Row(w) \in Rows
           /\ worker'[w].pc \notin Holding /\ \A q \in Rows : Hushed(q)
           /\ \A q \in Rows : q # Row(w) => Calm(q)
           /\ \/ Recorded(w, outcome, code)
              \/ AllCalm /\ ~InFlight(Row(w), Attempt(w))
<1> DEFINE r == Row(w)
           n == Attempt(w)
<1>1. worker[w].pc = "answered" /\ worker[w].pc \in Holding
    BY DEF Record, At, Holding
<1>2. r \in Rows
    BY <1>1, HeldAttempt
<1>3. CASE InFlight(r, n)
    <2>1. /\ FinishRow(r, outcome, code)
          /\ worker' = [worker EXCEPT ![w].pc = "receipts", ![w].row = NoRow, ![w].n = 0,
                                      ![w].result = "none"]
        BY <1>3 DEF Record
    <2>2. /\ RowsTyped' /\ Others(r)
          /\ \A q \in Rows : ShapedNext(q) /\ Onward(q) /\ Hushed(q)
          /\ \A q \in Rows : q # r => Calm(q)
          /\ outbox[r].state = Started /\ permit[r].n = n
          /\ outbox'[r].state = outcome /\ outbox'[r].code = code
        BY <1>2, <1>3, <2>1, FinishRowCalm DEF WorkInv, RowsShaped
    <2> DEFINE k == [worker[w] EXCEPT !.pc = "receipts", !.row = NoRow, !.n = 0, !.result = "none"]
    <2>3. /\ worker[w] \in WorkerRow /\ "receipts" \in PCs /\ "none" \in Results
          /\ "receipts" \notin Holding /\ 0 \in 0..MaxClaims
        BY Bounds DEF WorkersTyped, PCs, Results, Holding
    <2>4. k \in WorkerRow /\ k.pc = "receipts"
        BY <2>3 DEF WorkerRow
    <2>5. worker' = [worker EXCEPT ![w] = k]
        BY <2>1 DEF WorkersTyped
    <2> HIDE DEF k
    <2>6. WorkersTyped' /\ Elsewhere(w) /\ worker'[w] = k
        BY <2>4, <2>5, SetMoves
    <2>7. worker'[w].pc \notin Holding
        BY <2>3, <2>4, <2>6
    <2>8. FlyingBut(w)
        BY <1>1, <2>2 DEF FlyingBut, Calm
    <2>9. Works(w)
        BY <2>2, <2>6, <2>7, <2>8, RestingActs DEF Works
    <2>10. Recorded(w, outcome, code)
        BY <1>3, <2>2 DEF Recorded
    <2>11. QED
        BY <1>1, <1>2, <2>2, <2>7, <2>9, <2>10
<1>4. CASE ~InFlight(r, n)
    <2>1. /\ Go(w, "failing") /\ "failing" \in PCs /\ "failing" \notin Holding
          /\ outbox' = outbox /\ permit' = permit
        BY <1>4 DEF Record, PCs, Holding
    <2>2. WorkersTyped' /\ Elsewhere(w) /\ worker'[w].pc \notin Holding
        BY <2>1, GoMoves
    <2>3. Works(w) /\ AllCalm
        BY <2>1, <2>2, RowsSame, RestingActs, CalmWorks
    <2>4. QED
        BY <1>1, <1>2, <1>4, <2>2, <2>3 DEF AllCalm, Calm
<1>5. QED
    BY <1>3, <1>4

---------------------------------------------------------------------------
(* Receipts and tokens. *)

TicketsTyped == ticket \in [Rows -> TicketRow]
TicketStates == {"none", "pending", "delivered", "failed", "unknown"}
SettledTicket == {"delivered", "failed", "unknown"}

\* A ticket comes to be only when its row is accepted, and a settled one stays.
TicketKept(r) ==
    /\ ticket'[r].state # "none" => ticket[r].state # "none"
    /\ ticket[r].state \in SettledTicket => ticket'[r].state = ticket[r].state

TicketsKept == TicketsTyped' /\ \A r \in Rows : TicketKept(r)

LEMMA TicketSame ==
    ASSUME TicketsTyped, ticket' = ticket
    PROVE  TicketsKept
    BY DEF TicketsKept, TicketsTyped, TicketKept

LEMMA FreedTicket ==
    ASSUME NEW t \in TicketRow
    PROVE  ReceiptFreed(t) \in TicketRow /\ ReceiptFreed(t).state = t.state
    BY DEF ReceiptFreed, TicketRow

LEMMA SettledTyped ==
    ASSUME NEW t \in TicketRow, NEW status \in TicketStates
    PROVE  /\ Settled(t, status) \in TicketRow /\ Settled(t, status).state = status
           /\ Settled(t, status).next = t.next
    BY DEF Settled, TicketRow, TicketStates

LEMMA DeferredTyped ==
    ASSUME NEW t \in TicketRow, t.state = "pending"
    PROVE  Deferred(t) \in TicketRow /\ Deferred(t).state \in {"pending", "unknown"}
<1> DEFINE a == t.attempts + 1
           d == ReceiptDelay * 2 ^ a
<1>1. t.attempts \in 0..MaxReceipts /\ t.next \in Nat
    BY DEF TicketRow
<1>2. a \in Nat /\ a >= 1 /\ MaxReceipts \in Nat
    BY <1>1, Bounds
<1>3. CASE a >= MaxReceipts
    <2> DEFINE u == Settled(t, "unknown")
    <2>1. u \in TicketRow /\ u.state = "unknown"
        BY SettledTyped DEF TicketStates
    <2>2. Deferred(t) = [u EXCEPT !.attempts = MaxReceipts]
        BY <1>3 DEF Deferred
    <2>3. MaxReceipts \in 0..MaxReceipts
        BY Bounds
    <2> HIDE DEF u
    <2>4. /\ [u EXCEPT !.attempts = MaxReceipts] \in TicketRow
          /\ [u EXCEPT !.attempts = MaxReceipts].state = "unknown"
        BY <2>1, <2>3 DEF TicketRow
    <2>5. QED
        BY <2>2, <2>4
<1>4. CASE ~(a >= MaxReceipts)
    <2>1. a \in 1..MaxReceipts /\ a \in 0..MaxReceipts
        BY <1>2, <1>4
    <2>2. 2 ^ a \in Nat
        BY <2>1, DeliveryAssumption
    <2>3. d \in Nat
        <3> DEFINE e == 2 ^ a
        <3>1. e \in Nat /\ ReceiptDelay \in Nat
            BY <2>2, Bounds
        <3> HIDE DEF e
        <3>2. ReceiptDelay * e \in Nat
            BY <3>1
        <3>3. QED
            BY <3>2 DEF e
    <2>4. Deferred(t) = [t EXCEPT !.attempts = a, !.owner = NoWorker, !.until = 0, !.next = d]
        BY <1>4 DEF Deferred
    <2> HIDE DEF d, a
    <2> DEFINE u == [t EXCEPT !.attempts = a, !.owner = NoWorker, !.until = 0, !.next = d]
    <2>5. u \in TicketRow /\ u.state = "pending"
        BY <2>1, <2>3 DEF TicketRow
    <2>6. QED
        BY <2>4, <2>5
<1>5. QED
    BY <1>3, <1>4

LEMMA NewTicketTyped == NewTicket \in TicketRow /\ NewTicket.state = "pending"
    BY Bounds DEF NewTicket, TicketRow

\* An unregistered device costs an installation its token, and nothing else.
LEMMA InvalidatedTyped ==
    ASSUME inst \in [Installations -> InstRow], NEW i \in Installations
    PROVE  /\ Invalidated(i) \in [Installations -> InstRow]
           /\ \A j \in Installations :
                 /\ Invalidated(i)[j].state = inst[j].state
                 /\ inst[j].token = "none" => Invalidated(i)[j].token = "none"
<1>1. CASE inst[i].token = "active"
    <2> DEFINE row == [inst[i] EXCEPT !.token = "invalid"]
    <2>1. row \in InstRow /\ row.state = inst[i].state
        BY DEF InstRow
    <2>2. Invalidated(i) = [inst EXCEPT ![i] = row]
        BY <1>1 DEF Invalidated
    <2> HIDE DEF row
    <2>3. QED
        BY <1>1, <2>1, <2>2
<1>2. CASE inst[i].token # "active"
    BY <1>2 DEF Invalidated
<1>3. QED
    BY <1>1, <1>2

LEMMA ReceiptMoves ==
    ASSUME WorkersTyped, NEW w \in Workers, NEW pc \in PCs, NEW b \in SUBSET Rows,
           worker' = [worker EXCEPT ![w].batch = b, ![w].pc = pc]
    PROVE  /\ WorkersTyped' /\ Elsewhere(w) /\ SameAttempt(w)
           /\ worker'[w].pc = pc /\ worker'[w].result = worker[w].result
<1> DEFINE k == [worker[w] EXCEPT !.batch = b, !.pc = pc]
<1>1. worker[w] \in WorkerRow
    BY DEF WorkersTyped
<1>2. /\ k \in WorkerRow /\ k.pc = pc /\ k.result = worker[w].result
      /\ k.row = worker[w].row /\ k.n = worker[w].n
    BY <1>1 DEF WorkerRow
<1>3. worker' = [worker EXCEPT ![w] = k]
    BY DEF WorkersTyped
<1> HIDE DEF k
<1>4. WorkersTyped' /\ Elsewhere(w) /\ worker'[w] = k
    BY <1>2, <1>3, SetMoves
<1>5. QED
    BY <1>2, <1>4 DEF SameAttempt

\* A receipt step of a process leaves its delivery work where it was.
LEMMA ReceiptWorks ==
    ASSUME RowsTyped, WorkersTyped, WorkersTyped', WorkInv, NEW w \in Workers, Elsewhere(w),
           SameAttempt(w), worker'[w].pc \in Holding => worker'[w].pc = worker[w].pc,
           outbox' = outbox, permit' = permit
    PROVE  Works(w) /\ AllCalm
<1>1. CASE worker'[w].pc \in Holding
    <2>1. worker[w].pc \in Holding /\ worker'[w].pc = worker[w].pc
        BY <1>1
    <2>2. Row(w) \in Rows /\ Holds(worker[w], permit[Row(w)])
        BY <2>1, HeldAttempt
    <2>3. Holds(worker'[w], permit'[worker'[w].row])
        BY <2>1, <2>2 DEF Holds, SameAttempt, Row
    <2>4. Acts(w)
        BY <2>1, <2>2, <2>3 DEF Acts, SameAttempt, Row
    <2>5. QED
        BY <2>4, RowsSame, CalmWorks
<1>2. CASE worker'[w].pc \notin Holding
    BY <1>2, RestingActs, RowsSame, CalmWorks
<1>3. QED
    BY <1>1, <1>2

LEMMA ClaimReceiptsWorks ==
    ASSUME RowsTyped, WorkersTyped, WorkInv, TicketsTyped, NEW w \in Workers, ClaimReceipts(w)
    PROVE  Works(w) /\ AllCalm /\ worker'[w].pc \notin Holding /\ TicketsKept
<1> DEFINE freed == [r \in Rows |-> ReceiptFreed(ticket[r])]
           due == {r \in Rows : ReceiptDue(freed[r])}
<1>1. outbox' = outbox /\ permit' = permit
    BY DEF ClaimReceipts
<1>2. /\ \A r \in Rows : freed[r] \in TicketRow /\ freed[r].state = ticket[r].state
      /\ freed \in [Rows -> TicketRow]
    BY FreedTicket DEF TicketsTyped
<1>3. CASE DeliveryEnabled /\ HoldsLease(w, worker[w].gen)
    <2> DEFINE b == worker[w].batch \cup due
               pc == IF due = {} THEN "idle" ELSE "asked"
    <2>1. /\ ticket' = [r \in Rows |-> IF r \in due
                 THEN [freed[r] EXCEPT !.owner = w, !.until = LeaseTime] ELSE freed[r]]
          /\ worker' = [worker EXCEPT ![w].batch = b, ![w].pc = pc]
        BY <1>3 DEF ClaimReceipts, WorkersTyped
    <2>2. b \in SUBSET Rows /\ pc \in PCs /\ pc \notin Holding
        BY DEF WorkersTyped, WorkerRow, PCs, Holding
    <2> HIDE DEF freed
    <2>3. TicketsKept
        <3>1. ASSUME NEW r \in Rows
              PROVE  ticket'[r] \in TicketRow /\ ticket'[r].state = ticket[r].state
            <4>1. LeaseTime \in Nat
                BY Bounds
            <4>2. /\ [freed[r] EXCEPT !.owner = w, !.until = LeaseTime] \in TicketRow
                  /\ [freed[r] EXCEPT !.owner = w, !.until = LeaseTime].state = freed[r].state
                BY <1>2, <4>1 DEF TicketRow
            <4>3. QED
                BY <1>2, <2>1, <4>2
        <3>2. TicketsTyped'
            BY <2>1, <3>1 DEF TicketsTyped
        <3>3. QED
            BY <3>1, <3>2 DEF TicketsKept, TicketKept
    <2> HIDE DEF b, pc
    <2>4. WorkersTyped' /\ Elsewhere(w) /\ SameAttempt(w) /\ worker'[w].pc = pc
        BY <2>1, <2>2, ReceiptMoves
    <2>5. QED
        BY <1>1, <2>2, <2>3, <2>4, ReceiptWorks
<1>4. CASE ~(DeliveryEnabled /\ HoldsLease(w, worker[w].gen))
    <2>1. ticket' = freed /\ Go(w, "failing") /\ "failing" \in PCs /\ "failing" \notin Holding
        BY <1>4 DEF ClaimReceipts, PCs, Holding
    <2>2. WorkersTyped' /\ Elsewhere(w) /\ SameAttempt(w) /\ worker'[w].pc = "failing"
        BY <2>1, GoMoves
    <2> HIDE DEF freed
    <2>3. TicketsKept
        BY <1>2, <2>1 DEF TicketsKept, TicketKept, TicketsTyped
    <2>4. QED
        BY <1>1, <2>1, <2>2, <2>3, ReceiptWorks
<1>5. QED
    BY <1>3, <1>4

\* Either the ticket is settled or deferred, or nothing happens to any.
InstKept ==
    /\ inst' \in [Installations -> InstRow]
    /\ \A j \in Installations :
          /\ inst'[j].state = inst[j].state
          /\ inst[j].token = "none" => inst'[j].token = "none"

LEMMA SettleReceiptWorks ==
    ASSUME RowsTyped, WorkersTyped, WorkInv, TicketsTyped, inst \in [Installations -> InstRow],
           NEW w \in Workers, NEW r \in Rows, SettleReceipt(w, r)
    PROVE  /\ Works(w) /\ AllCalm /\ TicketsKept /\ InstKept
           /\ SameAttempt(w) /\ worker'[w].result = worker[w].result
           /\ worker'[w].pc \in Holding => worker'[w].pc = worker[w].pc
<1> DEFINE left == worker[w].batch \ {r}
<1>1. outbox' = outbox /\ permit' = permit
    BY DEF SettleReceipt
<1>2. left \in SUBSET Rows /\ worker[w].pc \in PCs /\ "asked" \notin Holding
    BY DEF WorkersTyped, WorkerRow, Holding
<1>3. PICK pc : /\ worker' = [worker EXCEPT ![w].batch = left, ![w].pc = pc]
                /\ pc = worker[w].pc \/ pc \in {"idle", "failing"}
    <2>1. CASE ReceiptHeld(w, r)
        <3>1. worker' = [worker EXCEPT ![w].batch = left,
                     ![w].pc = IF worker[w].pc = "asked" /\ left = {} THEN "idle" ELSE worker[w].pc]
            BY <2>1 DEF SettleReceipt, WorkersTyped, WorkerRow
        <3>2. QED
            BY <3>1
    <2>2. CASE ~ReceiptHeld(w, r)
        <3>1. worker' = [worker EXCEPT ![w].batch = left,
                     ![w].pc = IF worker[w].pc = "asked" THEN "failing" ELSE worker[w].pc]
            BY <2>2 DEF SettleReceipt, WorkersTyped, WorkerRow
        <3>2. QED
            BY <3>1
    <2>3. QED
        BY <2>1, <2>2
<1>4. pc \in PCs /\ (pc \in Holding => pc = worker[w].pc)
    BY <1>2, <1>3 DEF PCs, Holding
<1> HIDE DEF left
<1>5. /\ WorkersTyped' /\ Elsewhere(w) /\ SameAttempt(w)
      /\ worker'[w].pc = pc /\ worker'[w].result = worker[w].result
    BY <1>2, <1>3, <1>4, ReceiptMoves
<1>6. Works(w) /\ AllCalm
    BY <1>1, <1>4, <1>5, ReceiptWorks
<1>7. TicketsKept /\ InstKept
    <2>1. CASE ReceiptHeld(w, r)
        <3>1. PICK a \in {"missing", "delivered", "failed", "unregistered"} :
                  /\ ticket' = [ticket EXCEPT ![r] =
                         CASE a = "missing" -> Deferred(@)
                           [] a = "delivered" -> Settled(@, "delivered")
                           [] OTHER -> Settled(@, "failed")]
                  /\ inst' = IF a = "unregistered"
                             THEN Invalidated(InstOf(outbox[r].scope)) ELSE inst
            BY <2>1 DEF SettleReceipt
        <3>2. ticket[r] \in TicketRow /\ ticket[r].state = "pending"
            BY <2>1 DEF ReceiptHeld, TicketsTyped
        <3>3. PICK t \in TicketRow : ticket' = [ticket EXCEPT ![r] = t] /\ t.state # "none"
            <4>1. CASE a = "missing"
                <5>1. ticket' = [ticket EXCEPT ![r] = Deferred(ticket[r])]
                    BY <3>1, <4>1
                <5>2. Deferred(ticket[r]) \in TicketRow
                      /\ Deferred(ticket[r]).state \in {"pending", "unknown"}
                    BY <3>2, DeferredTyped
                <5>3. QED
                    BY <5>1, <5>2
            <4>2. CASE a = "delivered"
                <5>1. ticket' = [ticket EXCEPT ![r] = Settled(ticket[r], "delivered")]
                    BY <3>1, <4>2
                <5>2. QED
                    BY <3>2, <5>1, SettledTyped DEF TicketStates
            <4>3. CASE a \in {"failed", "unregistered"}
                <5>1. ticket' = [ticket EXCEPT ![r] = Settled(ticket[r], "failed")]
                    BY <3>1, <4>3
                <5>2. QED
                    BY <3>2, <5>1, SettledTyped DEF TicketStates
            <4>4. QED
                BY <4>1, <4>2, <4>3
        <3>4. TicketsKept
            BY <3>2, <3>3 DEF TicketsKept, TicketKept, TicketsTyped, SettledTicket
        <3>5. InstOf(outbox[r].scope) \in Installations
            BY ScopeFacts DEF RowsTyped, OutboxRow
        <3>6. InstKept
            BY <3>1, <3>5, InvalidatedTyped DEF InstKept
        <3>7. QED
            BY <3>4, <3>6
    <2>2. CASE ~ReceiptHeld(w, r)
        <3>1. ticket' = ticket /\ inst' = inst
            BY <2>2 DEF SettleReceipt
        <3>2. QED
            BY <3>1, TicketSame DEF InstKept
    <2>3. QED
        BY <2>1, <2>2
<1>8. QED
    BY <1>4, <1>5, <1>6, <1>7

---------------------------------------------------------------------------
(* Type correctness and the shape of rows, step by step. *)

StoreTyped ==
    /\ inst \in [Installations -> InstRow]
    /\ link \in [Links -> LinkStates]
    /\ rules \subseteq Scopes
    /\ lease \in LeaseRow
    /\ gates \in GateRow
    /\ op \in [Scopes -> OpStates]

ProviderTyped ==
    /\ wire \in [Rows -> Answers \cup {"none", "flying"}]
    /\ sent \in [Rows -> Nat]

LEMMA TypeParts ==
    DeliveryTypeOK <=> StoreTyped /\ RowsTyped /\ TicketsTyped /\ WorkersTyped /\ ProviderTyped
    BY DEF DeliveryTypeOK, StoreTyped, RowsTyped, TicketsTyped, WorkersTyped, ProviderTyped,
           WorkerRow, LinkStates, OpStates

LEMMA TypePartsNext ==
    StoreTyped' /\ RowsTyped' /\ TicketsTyped' /\ WorkersTyped' /\ ProviderTyped' => DeliveryTypeOK'
    BY DEF DeliveryTypeOK, StoreTyped, RowsTyped, TicketsTyped, WorkersTyped, ProviderTyped,
           WorkerRow, LinkStates, OpStates

Sound == Typed /\ WorkInv

LEMMA SoundParts ==
    ASSUME Sound
    PROVE  /\ StoreTyped /\ RowsTyped /\ TicketsTyped /\ WorkersTyped /\ ProviderTyped /\ WorkInv
           /\ inst \in [Installations -> InstRow] /\ lease \in LeaseRow /\ gates \in GateRow
           /\ \A q \in Rows : Shaped(outbox[q], permit[q])
    BY TypeParts DEF Sound, Typed, StoreTyped, WorkInv, RowsShaped

\* The conclusion of a step of process w.
LEMMA WorksSound ==
    ASSUME Sound, NEW w \in Workers, Works(w), backup' = backup,
           StoreTyped', TicketsTyped', ProviderTyped'
    PROVE  DeliveryTypeOK' /\ WorkInv'
<1>1. DeliveryTypeOK'
    BY TypePartsNext DEF Works
<1>2. WorkInv'
    BY SoundParts, WorkKept DEF Works
<1>3. QED
    BY <1>1, <1>2

LEMMA SupervisorSound ==
    ASSUME Sound, NEW w \in Workers, SupervisorStep(w) \/ Blocked(w) \/ Crash(w), backup' = backup
    PROVE  DeliveryTypeOK' /\ WorkInv'
<1>1. /\ lease' \in LeaseRow /\ gates' \in GateRow
      /\ UNCHANGED <<inst, link, rules, ticket, op, wire, sent>>
    BY SoundParts, SupervisorMoves
<1>2. Works(w)
    BY SoundParts, SupervisorWorks
<1>3. StoreTyped' /\ TicketsTyped' /\ ProviderTyped'
    BY <1>1, SoundParts DEF StoreTyped, TicketsTyped, ProviderTyped
<1>4. QED
    BY <1>2, <1>3, WorksSound

\* A row attempt up to its request leaves the rest of the store alone.
LEMMA AttemptSound ==
    ASSUME Sound, NEW w \in Workers, backup' = backup,
           Recover(w) \/ Claim(w) \/ Mark(w) \/ Abandon(w) \/ ReadToken(w) \/ AuthorizeFetch(w)
    PROVE  DeliveryTypeOK' /\ WorkInv'
<1>1. UNCHANGED <<inst, link, rules, ticket, lease, gates, op, wire, sent>>
    BY DEF Recover, Claim, Mark, Abandon, ReadToken, AuthorizeFetch, storeVars
<1>2. Works(w)
    BY SoundParts, RecoverWorks, ClaimWorks, MarkWorks, AbandonWorks, AuthorizeWorks
<1>3. StoreTyped' /\ TicketsTyped' /\ ProviderTyped'
    BY <1>1, SoundParts DEF StoreTyped, TicketsTyped, ProviderTyped
<1>4. QED
    BY <1>2, <1>3, WorksSound

LEMMA RequestSound ==
    ASSUME Sound, NEW w \in Workers, backup' = backup, Send(w) \/ ReceiveAnswer(w)
    PROVE  DeliveryTypeOK' /\ WorkInv'
<1>1. UNCHANGED <<inst, link, rules, ticket, lease, gates, op>>
    BY DEF Send, ReceiveAnswer, storeVars
<1>2. CASE Send(w)
    <2>1. /\ Works(w) /\ Row(w) \in Rows
          /\ \/ /\ wire' = [wire EXCEPT ![Row(w)] = "flying"]
                /\ sent' = [sent EXCEPT ![Row(w)] = sent[Row(w)] + 1]
             \/ wire' = wire /\ sent' = sent
        BY <1>2, SoundParts, SendWorks
    <2>2. ProviderTyped'
        BY <2>1, SoundParts DEF ProviderTyped
    <2>3. StoreTyped' /\ TicketsTyped'
        BY <1>1, SoundParts DEF StoreTyped, TicketsTyped
    <2>4. QED
        BY <2>1, <2>2, <2>3, WorksSound
<1>3. CASE ReceiveAnswer(w)
    <2>1. Works(w) /\ wire' = wire /\ sent' = sent
        BY <1>3, SoundParts, ReceiveWorks DEF ReceiveAnswer
    <2>2. StoreTyped' /\ TicketsTyped' /\ ProviderTyped'
        BY <1>1, <2>1, SoundParts DEF StoreTyped, TicketsTyped, ProviderTyped
    <2>3. QED
        BY <2>1, <2>2, WorksSound
<1>4. QED
    BY <1>2, <1>3

\* The three ways an outcome is recorded, as one.
LEMMA RecordParts ==
    ASSUME Sound, NEW w \in Workers,
           \/ RecordProviderAccepted(w) \/ RecordProviderRejected(w)
           \/ RecordProviderOutcomeUnknown(w)
    PROVE  /\ \E outcome \in Final \ {"cancelled"}, code \in {"none", "unsent", "refused"} :
                  Record(w, outcome, code)
           /\ InstKept
           /\ TicketsTyped'
           /\ UNCHANGED <<link, rules, lease, gates, op, wire, sent>>
<1>1. /\ inst \in [Installations -> InstRow] /\ TicketsTyped
    BY SoundParts
<1>2. CASE RecordProviderAccepted(w)
    <2>1. Record(w, "provider_accepted", "none") /\ inst' = inst
          /\ (ticket' = ticket \/ ticket' = [ticket EXCEPT ![Row(w)] = NewTicket])
        BY <1>2 DEF RecordProviderAccepted
    <2>2. "provider_accepted" \in Final \ {"cancelled"}
        BY DEF Final
    <2>3. TicketsTyped'
        BY <1>1, <2>1, NewTicketTyped DEF TicketsTyped
    <2>4. InstKept
        BY <1>1, <2>1 DEF InstKept
    <2>5. UNCHANGED <<link, rules, lease, gates, op, wire, sent>>
        BY <2>1 DEF Record
    <2>6. QED
        BY <2>1, <2>2, <2>3, <2>4, <2>5
<1>3. CASE RecordProviderRejected(w)
    <2> DEFINE c == IF worker[w].result = "unsent" THEN "unsent" ELSE "refused"
    <2>1. Record(w, "provider_rejected", c) /\ ticket' = ticket
          /\ (inst' = inst \/ inst' = Invalidated(InstOf(outbox[Row(w)].scope)))
        BY <1>3 DEF RecordProviderRejected
    <2>2. "provider_rejected" \in Final \ {"cancelled"} /\ c \in {"none", "unsent", "refused"}
        BY DEF Final
    <2>3. worker[w].pc \in Holding
        BY <2>1 DEF Record, At, Holding
    <2>4. Row(w) \in Rows /\ outbox[Row(w)] \in OutboxRow
        BY <2>3, SoundParts, HeldAttempt
    <2>5. InstOf(outbox[Row(w)].scope) \in Installations
        BY <2>4, ScopeFacts DEF OutboxRow
    <2>6. InstKept
        BY <1>1, <2>1, <2>5, InvalidatedTyped DEF InstKept
    <2>7. TicketsTyped'
        BY <1>1, <2>1 DEF TicketsTyped
    <2>8. UNCHANGED <<link, rules, lease, gates, op, wire, sent>>
        BY <2>1 DEF Record
    <2> HIDE DEF c
    <2>9. QED
        BY <2>1, <2>2, <2>6, <2>7, <2>8
<1>4. CASE RecordProviderOutcomeUnknown(w)
    <2>1. Record(w, "provider_outcome_unknown", "none") /\ inst' = inst /\ ticket' = ticket
        BY <1>4 DEF RecordProviderOutcomeUnknown
    <2>2. "provider_outcome_unknown" \in Final \ {"cancelled"}
        BY DEF Final
    <2>3. TicketsTyped' /\ InstKept
        BY <1>1, <2>1 DEF InstKept, TicketsTyped
    <2>4. UNCHANGED <<link, rules, lease, gates, op, wire, sent>>
        BY <2>1 DEF Record
    <2>5. QED
        BY <2>1, <2>2, <2>3, <2>4
<1>5. QED
    BY <1>2, <1>3, <1>4

LEMMA RecordSound ==
    ASSUME Sound, NEW w \in Workers, backup' = backup,
           \/ RecordProviderAccepted(w) \/ RecordProviderRejected(w)
           \/ RecordProviderOutcomeUnknown(w)
    PROVE  DeliveryTypeOK' /\ WorkInv'
<1>1. /\ InstKept /\ TicketsTyped'
      /\ UNCHANGED <<link, rules, lease, gates, op, wire, sent>>
    BY RecordParts
<1>2. PICK outcome \in Final \ {"cancelled"}, code \in {"none", "unsent", "refused"} :
          Record(w, outcome, code)
    BY RecordParts
<1>3. Works(w)
    BY <1>2, SoundParts, RecordWorks
<1>4. StoreTyped' /\ ProviderTyped'
    BY <1>1, SoundParts DEF StoreTyped, ProviderTyped, InstKept
<1>5. QED
    BY <1>1, <1>3, <1>4, WorksSound

LEMMA ReceiptSound ==
    ASSUME Sound, NEW w \in Workers, backup' = backup,
           ClaimReceipts(w) \/ \E r \in Rows : SettleReceipt(w, r)
    PROVE  DeliveryTypeOK' /\ WorkInv'
<1>1. UNCHANGED <<link, rules, lease, gates, op, wire, sent>>
    BY DEF ClaimReceipts, SettleReceipt
<1>2. Works(w) /\ TicketsKept /\ inst' \in [Installations -> InstRow]
    <2>1. CASE ClaimReceipts(w)
        <3>1. inst' = inst
            BY <2>1 DEF ClaimReceipts
        <3>2. QED
            BY <2>1, <3>1, SoundParts, ClaimReceiptsWorks
    <2>2. CASE \E r \in Rows : SettleReceipt(w, r)
        BY <2>2, SoundParts, SettleReceiptWorks DEF InstKept
    <2>3. QED
        BY <2>1, <2>2
<1>3. StoreTyped' /\ TicketsTyped' /\ ProviderTyped'
    BY <1>1, <1>2, SoundParts DEF StoreTyped, TicketsKept, ProviderTyped
<1>4. QED
    BY <1>2, <1>3, WorksSound

\* A step in which no process moves.
LEMMA RestSound ==
    ASSUME Sound, Rests, WorkersTyped', RowsTyped', AllCalm, backup' = backup,
           StoreTyped', TicketsTyped', ProviderTyped'
    PROVE  DeliveryTypeOK' /\ WorkInv'
<1>1. DeliveryTypeOK'
    BY TypePartsNext
<1>2. \A r \in Rows : ShapedNext(r) /\ Onward(r) /\ Flying(r)
    BY DEF AllCalm, Calm
<1>3. WorkInv'
    BY <1>2, SoundParts, WorkRests
<1>4. QED
    BY <1>1, <1>3

LEMMA WorkersStill ==
    ASSUME WorkersTyped, worker' = worker
    PROVE  Rests /\ WorkersTyped'
    BY DEF Rests, WorkersTyped

LEMMA TickTickets ==
    ASSUME TicketsTyped, Tick
    PROVE  TicketsKept
<1>1. ASSUME NEW r \in Rows
      PROVE  ticket'[r] \in TicketRow /\ ticket'[r].state = ticket[r].state
    <2> DEFINE t == ticket[r]
               e == Down(t.next)
               u == Down(t.until)
    <2>1. t \in TicketRow
        BY DEF TicketsTyped
    <2>2. e \in Nat /\ u \in Nat
        BY <2>1, DownTyped DEF TicketRow
    <2>3. ticket'[r] = [t EXCEPT !.next = e, !.until = u]
        BY DEF Tick
    <2> HIDE DEF e, u
    <2>4. /\ [t EXCEPT !.next = e, !.until = u] \in TicketRow
          /\ [t EXCEPT !.next = e, !.until = u].state = t.state
        BY <2>1, <2>2 DEF TicketRow
    <2>5. QED
        BY <2>3, <2>4
<1>2. TicketsTyped'
    BY <1>1 DEF Tick, TicketsTyped
<1>3. QED
    BY <1>1, <1>2 DEF TicketsKept, TicketKept

\* Time only runs the recovery interval of a process down.
LEMMA ClockWorkers ==
    ASSUME WorkersTyped, Clock
    PROVE  /\ WorkersTyped' /\ Rests
           /\ \A w \in Workers : worker'[w].result = worker[w].result
           /\ (\A w \in Workers : worker[w] = Stopped) => worker' = worker
<1>1. ASSUME NEW w \in Workers
      PROVE  /\ worker'[w] \in WorkerRow /\ worker'[w].pc = worker[w].pc
             /\ worker'[w].row = worker[w].row /\ worker'[w].n = worker[w].n
             /\ worker'[w].result = worker[w].result
             /\ worker[w] = Stopped => worker'[w] = worker[w]
    <2> DEFINE k == worker[w]
               d == Down(k.recoverIn)
    <2>1. k \in WorkerRow
        BY DEF WorkersTyped
    <2>2. d \in 0..ProviderDeadline
        BY <2>1, DownTyped, Bounds DEF WorkerRow
    <2>3. worker'[w] = [k EXCEPT !.recoverIn = d]
        BY DEF Clock
    <2>4. k = Stopped => d = k.recoverIn
        BY DEF Stopped, Down
    <2> HIDE DEF d
    <2>5. /\ [k EXCEPT !.recoverIn = d] \in WorkerRow
          /\ [k EXCEPT !.recoverIn = d].pc = k.pc /\ [k EXCEPT !.recoverIn = d].row = k.row
          /\ [k EXCEPT !.recoverIn = d].n = k.n /\ [k EXCEPT !.recoverIn = d].result = k.result
        BY <2>1, <2>2 DEF WorkerRow
    <2>6. d = k.recoverIn => [k EXCEPT !.recoverIn = d] = k
        BY <2>1 DEF WorkerRow
    <2>7. QED
        BY <2>3, <2>4, <2>5, <2>6
<1>2. WorkersTyped'
    BY <1>1 DEF Clock, WorkersTyped
<1>3. (\A w \in Workers : worker[w] = Stopped) => worker' = worker
    BY <1>1 DEF Clock, WorkersTyped
<1>4. QED
    BY <1>1, <1>2, <1>3 DEF Rests

LEMMA ClockSound ==
    ASSUME Sound, Clock, backup' = backup
    PROVE  DeliveryTypeOK' /\ WorkInv'
<1>1. Tick /\ UNCHANGED <<inst, link, rules, gates, op, wire, sent>>
    BY DEF Clock, Tick
<1>2. WorkersTyped' /\ Rests
    BY SoundParts, ClockWorkers
<1>3. RowsTyped' /\ AllCalm
    BY <1>1, SoundParts, TickRows DEF AllCalm
<1>4. TicketsTyped'
    BY <1>1, SoundParts, TickTickets DEF TicketsKept
<1>5. lease' \in LeaseRow
    <2> DEFINE d == Down(lease.until)
    <2>1. lease \in LeaseRow /\ lease' = [lease EXCEPT !.until = d]
        BY <1>1, SoundParts DEF Tick
    <2>2. d \in Nat
        BY <2>1, DownTyped DEF LeaseRow
    <2> HIDE DEF d
    <2>3. QED
        BY <2>1, <2>2 DEF LeaseRow
<1>6. StoreTyped' /\ ProviderTyped'
    BY <1>1, <1>5, SoundParts DEF StoreTyped, ProviderTyped
<1>7. QED
    BY <1>2, <1>3, <1>4, <1>6, RestSound

LEMMA AlertSound ==
    ASSUME Sound, NEW r \in Rows, NEW s \in Scopes, Alert(r, s), backup' = backup
    PROVE  DeliveryTypeOK' /\ WorkInv'
<1>1. CreateAlert(r, s) /\ UNCHANGED <<inst, link, rules, ticket, lease, gates, worker, op, wire, sent>>
    BY DEF Alert, CreateAlert, workerVars
<1>2. RowsTyped' /\ AllCalm
    BY <1>1, SoundParts, CreateAlertCalm DEF AllCalm
<1>3. WorkersTyped' /\ Rests
    BY <1>1, SoundParts, WorkersStill
<1>4. StoreTyped' /\ TicketsTyped' /\ ProviderTyped'
    BY <1>1, SoundParts DEF StoreTyped, TicketsTyped, ProviderTyped
<1>5. QED
    BY <1>2, <1>3, <1>4, RestSound

LEMMA QuietSound ==
    ASSUME Sound, backup' = backup,
           \/ \E r \in Rows : ProviderActs(r)
           \/ \E i \in Installations : Rebind(i) \/ DeleteRule(i)
           \/ RotateKeys
    PROVE  DeliveryTypeOK' /\ WorkInv'
<1>1. UNCHANGED <<link, outbox, permit, ticket, lease, worker, op, sent>>
    BY DEF ProviderActs, Rebind, RebindPushToken, DeleteRule, DeletePriceRule, RotateKeys,
           RotatePushTokenKeys, storeVars, workerVars
<1>2. RowsTyped' /\ AllCalm
    BY <1>1, SoundParts, RowsSame
<1>3. WorkersTyped' /\ Rests
    BY <1>1, SoundParts, WorkersStill
<1>4. /\ inst' \in [Installations -> InstRow] /\ rules' \subseteq Scopes /\ gates' \in GateRow
      /\ wire' \in [Rows -> Answers \cup {"none", "flying"}]
    <2>0. /\ inst \in [Installations -> InstRow] /\ rules \subseteq Scopes /\ gates \in GateRow
          /\ wire \in [Rows -> Answers \cup {"none", "flying"}]
        BY SoundParts DEF StoreTyped, ProviderTyped
    <2>1. CASE \E r \in Rows : ProviderActs(r)
        <3>1. PICK r \in Rows, a \in Answers : wire' = [wire EXCEPT ![r] = a]
            BY <2>1 DEF ProviderActs
        <3>2. inst' = inst /\ rules' = rules /\ gates' = gates
            BY <2>1 DEF ProviderActs, storeVars
        <3>3. QED
            BY <2>0, <3>1, <3>2
    <2>2. CASE \E i \in Installations : Rebind(i)
        <3>1. PICK i \in Installations : Rebind(i)
            BY <2>2
        <3> DEFINE v == inst[i].version + 1
                   row == [inst[i] EXCEPT !.token = "active", !.version = v]
        <3>2. inst[i] \in InstRow /\ v \in 1..MaxVersions
            BY <2>0, <3>1, Bounds DEF Rebind, RebindPushToken, InstRow
        <3>3. inst' = [inst EXCEPT ![i] = row]
            BY <2>0, <3>1 DEF Rebind, RebindPushToken
        <3> HIDE DEF v
        <3>4. row \in InstRow
            BY <3>2 DEF InstRow
        <3>5. rules' = rules /\ gates' = gates /\ wire' = wire
            BY <3>1 DEF Rebind, RebindPushToken, workerVars
        <3> HIDE DEF row
        <3>6. QED
            BY <2>0, <3>3, <3>4, <3>5
    <2>3. CASE \E i \in Installations : DeleteRule(i)
        BY <2>0, <2>3 DEF DeleteRule, DeletePriceRule, workerVars
    <2>4. CASE RotateKeys
        <3>1. gates' = [gates EXCEPT !.delivery = FALSE]
              /\ inst' = inst /\ rules' = rules /\ wire' = wire
            BY <2>4 DEF RotateKeys, RotatePushTokenKeys
        <3>2. gates' \in GateRow
            BY <2>0, <3>1 DEF GateRow
        <3>3. QED
            BY <2>0, <3>1, <3>2
    <2>5. QED
        BY <2>1, <2>2, <2>3, <2>4
<1>5. StoreTyped' /\ TicketsTyped' /\ ProviderTyped'
    BY <1>1, <1>4, SoundParts DEF StoreTyped, TicketsTyped, ProviderTyped
<1>6. QED
    BY <1>2, <1>3, <1>5, RestSound

LEMMA DeliverySound ==
    ASSUME Sound, DeliveryNext, backup' = backup
    PROVE  DeliveryTypeOK' /\ WorkInv'
<1>1. CASE \E w \in Workers : WorkerStep(w) \/ Blocked(w) \/ Crash(w)
    <2>1. PICK w \in Workers : WorkerStep(w) \/ Blocked(w) \/ Crash(w)
        BY <1>1
    <2>2. CASE SupervisorStep(w) \/ Blocked(w) \/ Crash(w)
        BY <2>2, SupervisorSound
    <2>3. CASE DeliveryStep(w)
        BY <2>3, AttemptSound, RequestSound, RecordSound DEF DeliveryStep
    <2>4. CASE ReceiptStep(w)
        BY <2>4, ReceiptSound DEF ReceiptStep
    <2>5. QED
        BY <2>1, <2>2, <2>3, <2>4 DEF WorkerStep
<1>2. CASE \E r \in Rows : ProviderActs(r) \/ \E s \in Scopes : Alert(r, s)
    BY <1>2, QuietSound, AlertSound
<1>3. CASE \E i \in Installations : Rebind(i) \/ DeleteRule(i)
    BY <1>3, QuietSound
<1>4. CASE RotateKeys \/ Clock
    BY <1>4, QuietSound, ClockSound
<1>5. QED
    BY <1>1, <1>2, <1>3, <1>4 DEF DeliveryNext

---------------------------------------------------------------------------
(* Deletions: what authorizes a push only ever shrinks, but for a restore. *)

Shrinks ==
    /\ rules' \subseteq rules
    /\ \A l \in Links : link[l] = "absent" => link'[l] = "absent"
    /\ \A i \in Installations :
          /\ inst[i].state = "inactive" => inst'[i].state = "inactive"
          /\ inst[i].state = "inactive" /\ inst[i].token = "none" => inst'[i].token = "none"

LEMMA GoneStays ==
    ASSUME Shrinks, NEW s, Gone(inst, link, rules, s)
    PROVE  Gone(inst', link', rules', s)
    BY DEF Shrinks, Gone

LEMMA SameShrinks ==
    ASSUME inst' = inst, link' = link, rules' \subseteq rules
    PROVE  Shrinks
    BY DEF Shrinks

LEMMA DrainedInst ==
    ASSUME inst \in [Installations -> InstRow], NEW i \in Installations, inst[i].state = "active",
           inst' = [inst EXCEPT ![i].state = "draining"]
    PROVE  /\ inst' \in [Installations -> InstRow]
           /\ \A j \in Installations :
                 /\ inst[j].state = "inactive" => inst'[j].state = "inactive"
                 /\ inst'[j].token = inst[j].token
<1> DEFINE row == [inst[i] EXCEPT !.state = "draining"]
<1>1. row \in InstRow /\ row.token = inst[i].token
    BY DEF InstRow
<1>2. inst' = [inst EXCEPT ![i] = row]
    OBVIOUS
<1> HIDE DEF row
<1>3. QED
    BY <1>1, <1>2

\* What a deletion deletes is gone, and nothing comes back.
LEMMA DeleteScopesGone ==
    ASSUME StoreTyped, NEW D \in SUBSET Scopes, DeleteScopes(D)
    PROVE  /\ inst' \in [Installations -> InstRow] /\ link' \in [Links -> LinkStates]
           /\ rules' \subseteq Scopes /\ Shrinks
           /\ \A s \in D : Gone(inst', link', rules', s)
<1>1. inst \in [Installations -> InstRow] /\ link \in [Links -> LinkStates] /\ rules \subseteq Scopes
    BY DEF StoreTyped
<1>2. ASSUME NEW i \in Installations
      PROVE  /\ inst'[i] \in InstRow
             /\ i \in D => inst'[i].state = "inactive" /\ inst'[i].token = "none"
             /\ i \notin D => inst'[i] = inst[i]
    <2> DEFINE row == [inst[i] EXCEPT !.state = "inactive", !.gen = 1, !.token = "none"]
    <2>1. row \in InstRow /\ row.state = "inactive" /\ row.token = "none"
        BY <1>1 DEF InstRow
    <2>2. inst'[i] = IF i \in D THEN row ELSE inst[i]
        BY DEF DeleteScopes
    <2> HIDE DEF row
    <2>3. QED
        BY <1>1, <2>1, <2>2
<1>3. inst' \in [Installations -> InstRow]
    BY <1>2 DEF DeleteScopes
<1>4. link' \in [Links -> LinkStates]
      /\ \A l \in Links : link'[l] = IF l \in DeletedScopes(D) THEN "absent" ELSE link[l]
    BY <1>1 DEF DeleteScopes, LinkStates
<1>5. rules' = rules \ DeletedScopes(D)
    BY DEF DeleteScopes
<1>6. Shrinks
    BY <1>2, <1>4, <1>5 DEF Shrinks
<1>7. ASSUME NEW s \in D PROVE Gone(inst', link', rules', s)
    <2>1. DeletedScopes({s}) \subseteq DeletedScopes(D)
        BY DEF DeletedScopes
    <2>2. s \in DeletedScopes(D)
        BY DEF DeletedScopes, Covers
    <2>3. QED
        BY <1>2, <1>4, <1>5, <2>1, <2>2 DEF Gone
<1>8. QED
    BY <1>1, <1>3, <1>4, <1>5, <1>6, <1>7

---------------------------------------------------------------------------
(* The handlers. *)

\* What every step of a handler is, as far as deliveries go.
HandlerStep ==
    /\ StoreTyped' /\ RowsTyped' /\ RevocationTypeOK' /\ AllCalm /\ Shrinks
    /\ UNCHANGED <<ticket, lease, gates, worker, wire, sent, backup, replay>>

LEMMA HandlerSound ==
    ASSUME Sound, HandlerStep
    PROVE  Sound'
<1>1. WorkersTyped' /\ Rests
    BY SoundParts, WorkersStill DEF HandlerStep
<1>2. TicketsTyped' /\ ProviderTyped'
    BY SoundParts DEF HandlerStep, TicketsTyped, ProviderTyped
<1>3. DeliveryTypeOK' /\ WorkInv'
    BY <1>1, <1>2, RestSound DEF HandlerStep
<1>4. QED
    BY <1>3 DEF Sound, Typed, HandlerStep

LEMMA StartInstallationStep ==
    ASSUME Sound, NEW i \in Installations, StartInstallationDrain(i) \/ RevokeLost(i)
    PROVE  /\ HandlerStep /\ ledger' = ledger /\ reported' = reported
           /\ handler' = [handler EXCEPT ![i] = "checking"]
           /\ op' = op \/ op' = [op EXCEPT ![i] = "draining"]
<1>0. /\ StoreTyped /\ RowsTyped /\ WorkInv /\ RevocationTypeOK
      /\ inst \in [Installations -> InstRow] /\ link \in [Links -> LinkStates]
      /\ op \in [Scopes -> OpStates] /\ \A q \in Rows : Shaped(outbox[q], permit[q])
    BY SoundParts DEF Sound, Typed, StoreTyped
<1>1. /\ UNCHANGED <<rules, ticket, lease, gates, worker, wire, sent, ledger, reported, backup, replay>>
      /\ handler' = [handler EXCEPT ![i] = "checking"]
    BY DEF StartInstallationDrain, RevokeLost, handlerRest
<1>2. i \in Scopes
    BY DEF Scopes
<1>3. origin' \in [Scopes -> Origins] /\ handler' \in [Scopes -> HandlerSteps]
    <2>1. origin' = origin \/ origin' = [origin EXCEPT ![i] = "lost"]
        BY DEF StartInstallationDrain, RevokeLost
    <2>2. QED
        BY <1>0, <1>1, <2>1 DEF RevocationTypeOK, Origins, HandlerSteps
<1>4. CASE /\ inst[i].state = "active" /\ inst' = [inst EXCEPT ![i].state = "draining"]
           /\ op' = [op EXCEPT ![i] = "draining"] /\ Fence(i)
           /\ \A l \in Links : link'[l] = link[l] \/ (link[l] = "active" /\ link'[l] = "draining")
           /\ link' \in [Links -> LinkStates]
    <2>1. RowsTyped' /\ AllCalm
        BY <1>0, <1>4, FenceCalm DEF AllCalm
    <2>2. /\ inst' \in [Installations -> InstRow]
          /\ \A j \in Installations :
                /\ inst[j].state = "inactive" => inst'[j].state = "inactive"
                /\ inst'[j].token = inst[j].token
        BY <1>0, <1>4, DrainedInst
    <2>3. Shrinks
        BY <1>1, <1>4, <2>2 DEF Shrinks
    <2>4. op' \in [Scopes -> OpStates]
        BY <1>0, <1>4 DEF OpStates
    <2>5. StoreTyped'
        BY <1>0, <1>1, <1>4, <2>2, <2>4 DEF StoreTyped
    <2>6. RevocationTypeOK'
        BY <1>0, <1>1, <1>3 DEF RevocationTypeOK
    <2>7. QED
        BY <1>1, <1>4, <2>1, <2>3, <2>5, <2>6 DEF HandlerStep
<1>5. CASE UNCHANGED <<inst, link, op, outbox, permit>>
    <2>1. RowsTyped' /\ AllCalm
        BY <1>0, <1>5, RowsSame
    <2>2. Shrinks
        BY <1>1, <1>5, SameShrinks
    <2>3. StoreTyped'
        BY <1>0, <1>1, <1>5 DEF StoreTyped
    <2>4. RevocationTypeOK'
        BY <1>0, <1>1, <1>3 DEF RevocationTypeOK
    <2>5. QED
        BY <1>1, <1>5, <2>1, <2>2, <2>3, <2>4 DEF HandlerStep
<1>6. CASE RevokeLost(i)
    <2>1. /\ inst[i].state = "active" /\ inst' = [inst EXCEPT ![i].state = "draining"]
          /\ op' = [op EXCEPT ![i] = "draining"] /\ Fence(i)
          /\ link' = [l \in Links |-> IF HomeOf[l] = i /\ link[l] = "active"
                                      THEN "draining" ELSE link[l]]
        BY <1>6 DEF RevokeLost
    <2>2. /\ \A l \in Links : link'[l] = link[l] \/ (link[l] = "active" /\ link'[l] = "draining")
          /\ link' \in [Links -> LinkStates]
        BY <1>0, <2>1 DEF LinkStates
    <2>3. QED
        BY <1>4, <2>1, <2>2
<1>7. CASE StartInstallationDrain(i)
    BY <1>0, <1>4, <1>5, <1>7 DEF StartInstallationDrain, RepeatDrain
<1>8. QED
    BY <1>6, <1>7

LEMMA StartLinkStep ==
    ASSUME Sound, NEW l \in Links, StartAccountLinkDrain(l)
    PROVE  /\ HandlerStep /\ ledger' = ledger /\ reported' = reported
           /\ handler' = [handler EXCEPT ![l] = "checking"]
           /\ op' = op \/ op' = [op EXCEPT ![l] = "draining"]
<1>0. /\ StoreTyped /\ RowsTyped /\ WorkInv /\ RevocationTypeOK
      /\ inst \in [Installations -> InstRow] /\ link \in [Links -> LinkStates]
      /\ op \in [Scopes -> OpStates] /\ \A q \in Rows : Shaped(outbox[q], permit[q])
    BY SoundParts DEF Sound, Typed, StoreTyped
<1>1. /\ UNCHANGED <<rules, ticket, lease, gates, worker, wire, sent, ledger, reported, backup,
                     replay, origin>>
      /\ handler' = [handler EXCEPT ![l] = "checking"]
    BY DEF StartAccountLinkDrain, handlerRest
<1>2. l \in Scopes /\ inst' = inst
    BY DEF Scopes, StartAccountLinkDrain, RepeatDrain
<1>3. RevocationTypeOK'
    BY <1>0, <1>1 DEF RevocationTypeOK, HandlerSteps
<1>4. CASE /\ link[l] = "active" /\ link' = [link EXCEPT ![l] = "draining"]
           /\ op' = [op EXCEPT ![l] = "draining"] /\ Fence(l)
    <2>1. RowsTyped' /\ AllCalm
        BY <1>0, <1>4, FenceCalm DEF AllCalm
    <2>2. Shrinks
        BY <1>0, <1>1, <1>2, <1>4 DEF Shrinks
    <2>3. StoreTyped'
        <3>1. link' \in [Links -> LinkStates]
            BY <1>0, <1>4 DEF LinkStates
        <3>2. op' \in [Scopes -> OpStates]
            BY <1>0, <1>4 DEF OpStates
        <3>3. QED
            BY <1>0, <1>1, <1>2, <3>1, <3>2 DEF StoreTyped
    <2>4. QED
        BY <1>1, <1>3, <1>4, <2>1, <2>2, <2>3 DEF HandlerStep
<1>5. CASE UNCHANGED <<inst, link, op, outbox, permit>>
    <2>1. RowsTyped' /\ AllCalm
        BY <1>0, <1>5, RowsSame
    <2>2. Shrinks
        BY <1>1, <1>5, SameShrinks
    <2>3. StoreTyped'
        BY <1>0, <1>1, <1>5 DEF StoreTyped
    <2>4. QED
        BY <1>1, <1>3, <1>5, <2>1, <2>2, <2>3 DEF HandlerStep
<1>6. QED
    BY <1>4, <1>5 DEF StartAccountLinkDrain, RepeatDrain

\* The answer of a handler, and the deletions it reports.
LEMMA CheckStep ==
    ASSUME Sound, NEW s \in Scopes,
           \/ s \in Installations /\ CheckInstallation(s)
           \/ s \in Links /\ CheckLink(s)
    PROVE  /\ HandlerStep /\ UNCHANGED <<ledger, op, outbox, permit, inst, link, rules>>
           /\ \/ handler' = [handler EXCEPT ![s] = "idle"]
              \/ handler' = [handler EXCEPT ![s] = "appending"]
           /\ reported' = reported \/ (op[s] = "committed" /\ reported' = reported \cup {s})
<1>0. StoreTyped /\ RowsTyped /\ WorkInv /\ RevocationTypeOK
    BY SoundParts DEF Sound, Typed
<1>1. /\ UNCHANGED <<inst, link, rules, outbox, permit, ticket, lease, gates, worker, op, wire,
                     sent, origin, ledger, backup, replay>>
    BY DEF CheckInstallation, CheckLink, storeVars, workerVars
<1>2. /\ \/ handler' = [handler EXCEPT ![s] = "idle"]
         \/ handler' = [handler EXCEPT ![s] = "appending"]
      /\ reported' = reported \/ (op[s] = "committed" /\ reported' = reported \cup {s})
    BY DEF CheckInstallation, CheckLink, Answer
<1>3. RevocationTypeOK'
    <2>1. handler' \in [Scopes -> HandlerSteps]
        BY <1>0, <1>2 DEF RevocationTypeOK, HandlerSteps
    <2>2. reported' \subseteq Scopes
        BY <1>0, <1>2 DEF RevocationTypeOK
    <2>3. QED
        BY <1>0, <1>1, <2>1, <2>2 DEF RevocationTypeOK
<1>4. StoreTyped'
    BY <1>0, <1>1 DEF StoreTyped
<1>5. RowsTyped' /\ AllCalm /\ Shrinks
    BY <1>0, <1>1, RowsSame, SameShrinks
<1>6. QED
    BY <1>1, <1>2, <1>3, <1>4, <1>5 DEF HandlerStep

LEMMA AppendedLog ==
    ASSUME NEW log \in Seq(Scopes), NEW s \in Scopes
    PROVE  /\ Append(log, s) \in Seq(Scopes)
           /\ Len(Append(log, s)) = Len(log) + 1 /\ Len(log) \in Nat
           /\ s \in ToSet(Append(log, s))
           /\ \A t \in ToSet(log) : t \in ToSet(Append(log, s))
           /\ \A n \in 1..Len(log) : Append(log, s)[n] = log[n]
<1>1. /\ Append(log, s) \in Seq(Scopes)
      /\ Len(Append(log, s)) = Len(log) + 1 /\ Len(log) \in Nat
      /\ \A n \in 1..Len(log) : Append(log, s)[n] = log[n]
      /\ Append(log, s)[Len(log) + 1] = s
    OBVIOUS
<1>2. DOMAIN log = 1..Len(log) /\ DOMAIN Append(log, s) = 1..(Len(log) + 1)
    BY <1>1
<1>3. s \in ToSet(Append(log, s))
    BY <1>1, <1>2 DEF ToSet
<1>4. ASSUME NEW t \in ToSet(log) PROVE t \in ToSet(Append(log, s))
    <2>1. PICK n \in 1..Len(log) : t = log[n]
        BY <1>2 DEF ToSet
    <2>2. n \in DOMAIN Append(log, s) /\ Append(log, s)[n] = t
        BY <1>1, <1>2, <2>1
    <2>3. QED
        BY <2>2 DEF ToSet
<1>5. QED
    BY <1>1, <1>3, <1>4

\* The log grows, and holds the deletion afterwards.
LogGrows ==
    /\ ledger' \in Seq(Scopes) /\ Len(ledger) \in Nat /\ Len(ledger') \in Nat
    /\ Len(ledger) <= Len(ledger')
    /\ \A n \in 1..Len(ledger) : ledger'[n] = ledger[n]
    /\ \A s \in Scopes : Logged(s) => s \in ToSet(ledger')

LEMMA SameLog ==
    ASSUME ledger \in Seq(Scopes), ledger' = ledger
    PROVE  LogGrows
    BY DEF LogGrows, Logged

LEMMA AppendStep ==
    ASSUME Sound, NEW s \in Scopes, AppendTombstone(s)
    PROVE  /\ HandlerStep /\ UNCHANGED <<op, outbox, permit, inst, link, rules, reported>>
           /\ handler' = [handler EXCEPT ![s] = "committing"]
           /\ LogGrows /\ s \in ToSet(ledger')
<1>0. StoreTyped /\ RowsTyped /\ WorkInv /\ RevocationTypeOK /\ ledger \in Seq(Scopes)
    BY SoundParts DEF Sound, Typed, RevocationTypeOK
<1>1. /\ UNCHANGED <<inst, link, rules, outbox, permit, ticket, lease, gates, worker, op, wire,
                     sent, origin, reported, backup, replay>>
      /\ handler' = [handler EXCEPT ![s] = "committing"]
    BY DEF AppendTombstone, storeVars, workerVars
<1>2. LogGrows /\ s \in ToSet(ledger')
    <2>1. CASE s \in ToSet(ledger)
        <3>1. ledger' = ledger
            BY <2>1 DEF AppendTombstone
        <3>2. QED
            BY <1>0, <2>1, <3>1, SameLog
    <2>2. CASE s \notin ToSet(ledger)
        <3>1. ledger' = Append(ledger, s)
            BY <2>2 DEF AppendTombstone
        <3>2. /\ Append(ledger, s) \in Seq(Scopes)
              /\ Len(Append(ledger, s)) = Len(ledger) + 1 /\ Len(ledger) \in Nat
              /\ s \in ToSet(Append(ledger, s))
              /\ \A t \in ToSet(ledger) : t \in ToSet(Append(ledger, s))
              /\ \A n \in 1..Len(ledger) : Append(ledger, s)[n] = ledger[n]
            BY <1>0, AppendedLog
        <3>3. Len(ledger') \in Nat /\ Len(ledger) <= Len(ledger')
            BY <3>1, <3>2
        <3>4. QED
            BY <3>1, <3>2, <3>3 DEF LogGrows, Logged
    <2>3. QED
        BY <2>1, <2>2
<1>3. RevocationTypeOK'
    BY <1>0, <1>1, <1>2 DEF RevocationTypeOK, HandlerSteps, LogGrows
<1>4. StoreTyped'
    BY <1>0, <1>1 DEF StoreTyped
<1>5. RowsTyped' /\ AllCalm /\ Shrinks
    BY <1>0, <1>1, RowsSame, SameShrinks
<1>6. QED
    BY <1>1, <1>2, <1>3, <1>4, <1>5 DEF HandlerStep

\* A commit that goes through leaves the scope gone and quiet.
LEMMA CommitStep ==
    ASSUME Sound, NEW s \in Scopes, CommitDrain(s)
    PROVE  /\ HandlerStep /\ ledger' = ledger /\ handler[s] = "committing"
           /\ handler' = [handler EXCEPT ![s] = "idle"]
           /\ \/ op' = op /\ reported' = reported
              \/ op' = op /\ reported' = reported \cup {s} /\ op[s] = "committed"
              \/ /\ reported' = reported \cup {s}
                 /\ \A t \in Scopes : t # s => op'[t] = op[t]
                 /\ Gone(inst', link', rules', s) /\ Quiet(outbox', permit', s)
<1> DEFINE commits == ScopeState(s) = "draining" /\ ~Undelivered(s)
<1>0. /\ StoreTyped /\ RowsTyped /\ WorkInv /\ RevocationTypeOK
      /\ op \in [Scopes -> OpStates] /\ \A q \in Rows : Shaped(outbox[q], permit[q])
    BY SoundParts DEF Sound, Typed, StoreTyped
<1>1. /\ UNCHANGED <<ticket, lease, gates, worker, wire, sent, origin, ledger, backup, replay>>
      /\ handler' = [handler EXCEPT ![s] = "idle"] /\ handler[s] = "committing"
      /\ reported' = IF op[s] = "committed" \/ commits THEN reported \cup {s} ELSE reported
    BY DEF CommitDrain, Answer
<1>2. RevocationTypeOK'
    <2>1. handler' \in [Scopes -> HandlerSteps]
        BY <1>0, <1>1 DEF RevocationTypeOK, HandlerSteps
    <2>2. reported' \subseteq Scopes
        BY <1>0, <1>1 DEF RevocationTypeOK
    <2>3. QED
        BY <1>0, <1>1, <2>1, <2>2 DEF RevocationTypeOK
<1>3. CASE op[s] = "committed" \/ ~commits
    <2>1. UNCHANGED <<inst, link, rules, op, outbox, permit>>
        BY <1>3 DEF CommitDrain
    <2>2. RowsTyped' /\ AllCalm /\ Shrinks
        BY <1>0, <2>1, RowsSame, SameShrinks
    <2>3. StoreTyped'
        BY <1>0, <1>1, <2>1 DEF StoreTyped
    <2>4. HandlerStep
        BY <1>1, <1>2, <2>2, <2>3 DEF HandlerStep
    <2>5. QED
        BY <1>1, <1>3, <2>1, <2>4
<1>4. CASE ~(op[s] = "committed" \/ ~commits)
    <2>1. /\ DeleteScopes({s}) /\ Fence(s) /\ commits
          /\ op' = [op EXCEPT ![s] = IF op[s] = "none" THEN "none" ELSE "committed"]
        BY <1>0, <1>4 DEF CommitDrain
    <2>2. RowsTyped' /\ AllCalm
        BY <1>0, <2>1, FenceCalm DEF AllCalm
    <2>3. Quiet(outbox', permit', s)
        BY <1>0, <2>1, <2>2, FenceQuiets DEF AllCalm
    <2>4. /\ inst' \in [Installations -> InstRow] /\ link' \in [Links -> LinkStates]
          /\ rules' \subseteq Scopes /\ Shrinks /\ Gone(inst', link', rules', s)
        BY <1>0, <2>1, DeleteScopesGone
    <2>5. op' \in [Scopes -> OpStates] /\ \A t \in Scopes : t # s => op'[t] = op[t]
        BY <1>0, <2>1 DEF OpStates
    <2>6. StoreTyped'
        BY <1>0, <1>1, <2>4, <2>5 DEF StoreTyped
    <2>7. HandlerStep
        BY <1>1, <1>2, <2>2, <2>4, <2>6 DEF HandlerStep
    <2>8. reported' = reported \cup {s}
        BY <1>1, <2>1
    <2>9. QED
        BY <1>1, <2>3, <2>4, <2>5, <2>7, <2>8
<1>5. QED
    BY <1>3, <1>4

LEMMA HandlerFailsStep ==
    ASSUME Sound, NEW s \in Scopes, HandlerFails(s)
    PROVE  /\ HandlerStep /\ UNCHANGED <<ledger, reported, op, outbox, permit, inst, link, rules>>
           /\ handler' = [handler EXCEPT ![s] = "idle"]
<1>0. StoreTyped /\ RowsTyped /\ WorkInv /\ RevocationTypeOK
    BY SoundParts DEF Sound, Typed
<1>1. /\ UNCHANGED <<inst, link, rules, outbox, permit, ticket, lease, gates, worker, op, wire,
                     sent, origin, ledger, reported, backup, replay>>
      /\ handler' = [handler EXCEPT ![s] = "idle"]
    BY DEF HandlerFails, storeVars
<1>2. RevocationTypeOK'
    BY <1>0, <1>1 DEF RevocationTypeOK, HandlerSteps
<1>3. StoreTyped'
    BY <1>0, <1>1 DEF StoreTyped
<1>4. RowsTyped' /\ AllCalm /\ Shrinks
    BY <1>0, <1>1, RowsSame, SameShrinks
<1>5. QED
    BY <1>1, <1>2, <1>3, <1>4 DEF HandlerStep

---------------------------------------------------------------------------
(* Backup and restore. *)

LEMMA DatabaseFields ==
    ASSUME NEW n
    PROVE  /\ [Database EXCEPT !.watermark = n].inst = inst
           /\ [Database EXCEPT !.watermark = n].link = link
           /\ [Database EXCEPT !.watermark = n].rules = rules
           /\ [Database EXCEPT !.watermark = n].outbox = outbox
           /\ [Database EXCEPT !.watermark = n].permit = permit
           /\ [Database EXCEPT !.watermark = n].op = op
           /\ [Database EXCEPT !.watermark = n].watermark = n
    BY DEF Database

LEMMA DatabaseTyped ==
    ASSUME StoreTyped, RowsTyped, TicketsTyped, origin \in [Scopes -> Origins]
    PROVE  /\ Database \in BackupRow
           /\ \A n \in Nat : [Database EXCEPT !.watermark = n] \in BackupRow
    BY DEF Database, BackupRow, StoreTyped, RowsTyped, TicketsTyped

\* Nothing of the service itself moves.
ServiceStill ==
    UNCHANGED <<inst, link, rules, outbox, permit, ticket, lease, gates, worker, op, wire, sent>>

LEMMA StillSound ==
    ASSUME Sound, ServiceStill,
           RevocationTypeOK', \A r \in Rows : Shaped(backup'.outbox[r], backup'.permit[r])
    PROVE  Sound'
<1>1. StoreTyped /\ RowsTyped /\ TicketsTyped /\ WorkersTyped /\ ProviderTyped /\ WorkInv
    BY SoundParts
<1>2. DeliveryTypeOK'
    <2>1. StoreTyped' /\ RowsTyped' /\ TicketsTyped' /\ WorkersTyped' /\ ProviderTyped'
        BY <1>1 DEF ServiceStill, StoreTyped, RowsTyped, TicketsTyped, WorkersTyped, ProviderTyped
    <2>2. QED
        BY <2>1, TypePartsNext
<1>3. RowsShaped'
    BY <1>1 DEF ServiceStill, WorkInv, RowsShaped
<1>4. HoldersFit' /\ HoldersApart'
    BY <1>1 DEF ServiceStill, WorkInv, HoldersFit, HoldersApart, Row, Attempt
<1>5. QED
    BY <1>2, <1>3, <1>4 DEF Sound, Typed, WorkInv

LEMMA TakeBackupStep ==
    ASSUME Sound, TakeBackup
    PROVE  /\ Sound' /\ ServiceStill /\ UNCHANGED <<handler, origin, ledger, reported, replay>>
           /\ \E n \in Watermarks :
                 /\ backup'.inst = inst /\ backup'.link = link /\ backup'.rules = rules
                 /\ backup'.op = op /\ backup'.watermark = n
<1>1. ServiceStill /\ UNCHANGED <<handler, origin, ledger, reported, replay>>
    BY DEF TakeBackup, ServiceStill, storeVars, workerVars
<1>2. PICK n \in Watermarks : backup' = [Database EXCEPT !.watermark = n]
    BY DEF TakeBackup
<1>3. n \in Nat
    BY <1>2 DEF Watermarks
<1>4. /\ StoreTyped /\ RowsTyped /\ TicketsTyped /\ origin \in [Scopes -> Origins]
      /\ RevocationTypeOK
    BY SoundParts DEF Sound, Typed, RevocationTypeOK
<1>5. backup' \in BackupRow
    BY <1>2, <1>3, <1>4, DatabaseTyped
<1>6. /\ backup'.inst = inst /\ backup'.link = link /\ backup'.rules = rules
      /\ backup'.op = op /\ backup'.watermark = n
      /\ backup'.outbox = outbox /\ backup'.permit = permit
    BY <1>2, DatabaseFields
<1>7. \A r \in Rows : Shaped(backup'.outbox[r], backup'.permit[r])
    BY <1>6, SoundParts
<1>8. RevocationTypeOK'
    BY <1>1, <1>4, <1>5 DEF RevocationTypeOK
<1>9. Sound'
    BY <1>1, <1>7, <1>8, StillSound
<1>10. QED
    BY <1>1, <1>2, <1>6, <1>9

LEMMA ReplayReadStep ==
    ASSUME Sound, ReplayRead
    PROVE  /\ Sound' /\ ServiceStill /\ UNCHANGED <<handler, origin, ledger, reported, backup>>
<1>1. /\ ServiceStill /\ UNCHANGED <<handler, origin, ledger, reported, backup>>
      /\ replay' = Len(ledger)
    BY DEF ReplayRead, ServiceStill, storeVars, workerVars
<1>2. RevocationTypeOK
    BY DEF Sound, Typed
<1>3. Len(ledger) \in Nat
    BY <1>2 DEF RevocationTypeOK
<1>4. RevocationTypeOK'
    BY <1>1, <1>2, <1>3 DEF RevocationTypeOK
<1>5. \A r \in Rows : Shaped(backup'.outbox[r], backup'.permit[r])
    BY <1>1 DEF Sound, WorkInv, RowsShaped
<1>6. QED
    BY <1>1, <1>4, <1>5, StillSound

\* A restored database: nothing is in flight and nobody works.
LEMMA RestoreStep ==
    ASSUME Sound, Restore
    PROVE  /\ Sound'
           /\ inst' = backup.inst /\ link' = backup.link /\ rules' = backup.rules
           /\ op' = backup.op
           /\ \A r \in Rows : permit'[r].deadline = 0
           /\ \A w \in Workers : worker'[w] = Stopped
           /\ gates'.restore = "replaying" /\ gates'.watermark = backup.watermark
           /\ UNCHANGED <<wire, sent, handler, ledger, reported, backup>>
<1>1. /\ inst' = backup.inst /\ link' = backup.link /\ rules' = backup.rules
      /\ op' = backup.op /\ origin' = backup.origin
      /\ outbox' = [r \in Rows |-> [backup.outbox[r] EXCEPT !.until = 0]]
      /\ permit' = [r \in Rows |-> [backup.permit[r] EXCEPT !.deadline = 0, !.expires = 0]]
      /\ ticket' = [r \in Rows |-> [backup.ticket[r] EXCEPT !.next = 0, !.until = 0]]
      /\ lease' = NoLease
      /\ gates' = [restore |-> "replaying", mutations |-> FALSE, monitors |-> FALSE,
                   delivery |-> FALSE, watermark |-> backup.watermark]
      /\ worker' = [w \in Workers |-> Stopped]
      /\ replay' = NoReplay
      /\ UNCHANGED <<wire, sent, handler, ledger, reported, backup>>
    BY DEF Restore
<1>2. RevocationTypeOK /\ lease \in LeaseRow /\ ProviderTyped
    BY SoundParts DEF Sound, Typed
<1>3. backup \in BackupRow
    BY <1>2 DEF RevocationTypeOK
<1>4. /\ backup.inst \in [Installations -> InstRow] /\ backup.link \in [Links -> LinkStates]
      /\ backup.rules \subseteq Scopes /\ backup.outbox \in [Rows -> OutboxRow]
      /\ backup.permit \in [Rows -> PermitRow] /\ backup.ticket \in [Rows -> TicketRow]
      /\ backup.op \in [Scopes -> OpStates] /\ backup.origin \in [Scopes -> Origins]
      /\ backup.watermark \in Nat
    BY <1>3 DEF BackupRow
<1>5. ASSUME NEW r \in Rows
      PROVE  /\ outbox'[r] \in OutboxRow /\ permit'[r] \in PermitRow /\ ticket'[r] \in TicketRow
             /\ permit'[r].deadline = 0 /\ Shaped(outbox'[r], permit'[r])
    <2> DEFINE row == backup.outbox[r]
               p == backup.permit[r]
               t == backup.ticket[r]
    <2>1. row \in OutboxRow /\ p \in PermitRow /\ t \in TicketRow
        BY <1>4
    <2>2. Shaped(row, p)
        BY DEF Sound, WorkInv, RowsShaped
    <2>3. /\ outbox'[r] = [row EXCEPT !.until = 0]
          /\ permit'[r] = [p EXCEPT !.deadline = 0, !.expires = 0]
          /\ ticket'[r] = [t EXCEPT !.next = 0, !.until = 0]
        BY <1>1
    <2> HIDE DEF row, p, t
    <2>4. /\ [row EXCEPT !.until = 0] \in OutboxRow
          /\ [row EXCEPT !.until = 0].state = row.state
          /\ [row EXCEPT !.until = 0].attempts = row.attempts
        BY <2>1 DEF OutboxRow
    <2>5. /\ [p EXCEPT !.deadline = 0, !.expires = 0] \in PermitRow
          /\ [p EXCEPT !.deadline = 0, !.expires = 0].n = p.n
          /\ [p EXCEPT !.deadline = 0, !.expires = 0].state = p.state
          /\ [p EXCEPT !.deadline = 0, !.expires = 0].deadline = 0
        BY <2>1 DEF PermitRow
    <2>6. [t EXCEPT !.next = 0, !.until = 0] \in TicketRow
        BY <2>1 DEF TicketRow
    <2>7. Shaped([row EXCEPT !.until = 0], [p EXCEPT !.deadline = 0, !.expires = 0])
        BY <2>2, <2>4, <2>5 DEF Shaped
    <2>8. QED
        BY <2>3, <2>4, <2>5, <2>6, <2>7
<1>6. RowsTyped' /\ TicketsTyped'
    BY <1>1, <1>5 DEF RowsTyped, TicketsTyped
<1>7. \A w \in Workers : worker'[w] = Stopped
    BY <1>1
<1>8. WorkersTyped'
    BY <1>1, StoppedTyped DEF WorkersTyped
<1>9. gates' \in GateRow /\ gates'.restore = "replaying" /\ gates'.watermark = backup.watermark
    BY <1>1, <1>4 DEF GateRow
<1>10. StoreTyped' /\ ProviderTyped'
    BY <1>1, <1>2, <1>4, <1>9, LeaseTyped, Bounds DEF StoreTyped, ProviderTyped, NoLease, LeaseRow
<1>11. RevocationTypeOK'
    BY <1>1, <1>2, <1>4 DEF RevocationTypeOK
<1>12. RowsShaped'
    BY <1>1, <1>5 DEF RowsShaped, Sound, WorkInv
<1>13. HoldersFit' /\ HoldersApart'
    <2>1. \A w \in Workers : worker'[w].pc \notin Holding
        BY <1>7 DEF Stopped, Holding
    <2>2. QED
        BY <2>1 DEF HoldersFit, HoldersApart
<1>14. Sound'
    BY <1>6, <1>8, <1>10, <1>11, <1>12, <1>13, TypePartsNext DEF Sound, Typed, WorkInv
<1>15. QED
    BY <1>1, <1>5, <1>7, <1>9, <1>14

\* The replay either changes nothing or deletes every item it read.
LEMMA ReplayApplyStep ==
    ASSUME Sound, ReplayApply, NothingFlies
    PROVE  /\ Sound' /\ AllCalm /\ Shrinks
           /\ gates.restore = "replaying"
           /\ UNCHANGED <<ticket, lease, worker, op, wire, sent, handler, origin, ledger, reported,
                          backup>>
           /\ \/ gates' = gates
              \/ /\ gates'.restore = "ready" /\ replay = Len(ledger)
                 /\ \A s \in ReplayItems : Gone(inst', link', rules', s)
<1>0. /\ StoreTyped /\ RowsTyped /\ TicketsTyped /\ WorkersTyped /\ ProviderTyped /\ WorkInv
      /\ RevocationTypeOK /\ gates \in GateRow
      /\ \A q \in Rows : Shaped(outbox[q], permit[q])
    BY SoundParts DEF Sound, Typed
<1>1. /\ UNCHANGED <<ticket, lease, worker, op, wire, sent, handler, origin, ledger, reported, backup>>
      /\ gates.restore = "replaying" /\ replay # NoReplay /\ replay' = NoReplay
    BY DEF ReplayApply
<1>2. replay \in Nat
    BY <1>0, <1>1 DEF RevocationTypeOK
<1>3. /\ RowsTyped' /\ AllCalm /\ Shrinks
      /\ inst' \in [Installations -> InstRow] /\ link' \in [Links -> LinkStates]
      /\ rules' \subseteq Scopes /\ gates' \in GateRow
      /\ \/ gates' = gates
         \/ /\ gates'.restore = "ready" /\ replay = Len(ledger)
            /\ \A s \in ReplayItems : Gone(inst', link', rules', s)
    <2>1. CASE Len(ledger) # replay
        <3>1. UNCHANGED <<inst, link, rules, outbox, permit, gates>>
            BY <2>1 DEF ReplayApply
        <3>2. RowsTyped' /\ AllCalm /\ Shrinks
            BY <1>0, <3>1, RowsSame, SameShrinks
        <3>3. QED
            BY <1>0, <3>1, <3>2 DEF StoreTyped
    <2>2. CASE Len(ledger) = replay
        <3>1. /\ DeleteScopes(ReplayItems)
              /\ outbox' = [r \in Rows |-> IF \E s \in ReplayItems : r \in Of(s)
                                THEN Fenced(outbox[r].scope, TRUE)[r].row ELSE outbox[r]]
              /\ permit' = [r \in Rows |-> IF \E s \in ReplayItems : r \in Of(s)
                                THEN Fenced(outbox[r].scope, TRUE)[r].permit ELSE permit[r]]
              /\ gates' = [restore |-> "ready", mutations |-> TRUE, monitors |-> FALSE,
                           delivery |-> FALSE, watermark |-> replay]
            BY <2>2 DEF ReplayApply
        <3>2. ReplayItems \in SUBSET Scopes
            <4> SUFFICES ASSUME NEW n \in (gates.watermark + 1)..replay PROVE ledger[n] \in Scopes
                BY DEF ReplayItems
            <4>1. ledger \in Seq(Scopes) /\ gates.watermark \in Nat
                BY <1>0 DEF RevocationTypeOK, GateRow
            <4>2. n \in 1..Len(ledger)
                BY <1>2, <2>2, <4>1
            <4>3. QED
                BY <4>1, <4>2
        <3>3. /\ inst' \in [Installations -> InstRow] /\ link' \in [Links -> LinkStates]
              /\ rules' \subseteq Scopes /\ Shrinks
              /\ \A s \in ReplayItems : Gone(inst', link', rules', s)
            BY <1>0, <3>1, <3>2, DeleteScopesGone
        <3>4. ASSUME NEW r \in Rows
              PROVE  outbox'[r] \in OutboxRow /\ permit'[r] \in PermitRow /\ Calm(r)
            <4>1. CASE \E s \in ReplayItems : r \in Of(s)
                <5>1. /\ outbox'[r] = Fenced(outbox[r].scope, TRUE)[r].row
                      /\ permit'[r] = Fenced(outbox[r].scope, TRUE)[r].permit
                    BY <3>1, <4>1
                <5>2. /\ permit[r].state = "submission_started" => permit[r].deadline = 0
                      /\ Shaped(outbox[r], permit[r])
                    BY <1>0 DEF NothingFlies
                <5>3. QED
                    BY <1>0, <5>1, <5>2, FencedRow
            <4>2. CASE ~\E s \in ReplayItems : r \in Of(s)
                <5>1. outbox'[r] = outbox[r] /\ permit'[r] = permit[r]
                    BY <3>1, <4>2
                <5>2. QED
                    BY <1>0, <5>1, Unmoved DEF RowsTyped
            <4>3. QED
                BY <4>1, <4>2
        <3>5. RowsTyped' /\ AllCalm
            BY <3>1, <3>4 DEF RowsTyped, AllCalm
        <3>6. gates' \in GateRow /\ gates'.restore = "ready"
            BY <1>2, <3>1 DEF GateRow
        <3>7. QED
            BY <2>2, <3>3, <3>4, <3>5, <3>6
    <2>3. QED
        BY <2>1, <2>2
<1>4. StoreTyped' /\ TicketsTyped' /\ ProviderTyped'
    BY <1>0, <1>1, <1>3 DEF StoreTyped, TicketsTyped, ProviderTyped
<1>5. WorkersTyped' /\ Rests
    BY <1>0, <1>1, WorkersStill
<1>6. DeliveryTypeOK' /\ WorkInv'
    BY <1>1, <1>3, <1>4, <1>5, RestSound
<1>7. RevocationTypeOK'
    BY <1>0, <1>1 DEF RevocationTypeOK
<1>8. Sound'
    BY <1>6, <1>7 DEF Sound, Typed
<1>9. QED
    BY <1>1, <1>3, <1>8

---------------------------------------------------------------------------
(* Type correctness of the whole. *)

LEMMA InitSound == ASSUME Init PROVE Sound /\ Suspended
<1>1. StoreTyped
    BY ScopeFacts, Bounds
       DEF Init, StoreInit, WorkersInit, StoreTyped, InstRow, LinkStates, OpStates, LeaseRow, NoLease,
           GateRow
<1>2. RowsTyped
    BY ScopeFacts, Bounds DEF Init, StoreInit, RowsTyped, OutboxRow, RowStates, PermitRow
<1>3. TicketsTyped
    BY Bounds DEF Init, StoreInit, TicketsTyped, NoTicket, TicketRow
<1>4. WorkersTyped /\ \A w \in Workers : worker[w] = Stopped
    BY StoppedTyped DEF Init, WorkersInit, WorkersTyped
<1>5. ProviderTyped
    BY DEF Init, WorkersInit, ProviderTyped
<1>6. RevocationTypeOK
    <2>1. origin \in [Scopes -> Origins] /\ handler \in [Scopes -> HandlerSteps]
        BY DEF Init, Origins, HandlerSteps
    <2>2. backup \in BackupRow
        BY <1>1, <1>2, <1>3, <2>1, DatabaseTyped DEF Init
    <2>3. ledger \in Seq(Scopes) /\ reported \subseteq Scopes /\ replay \in Nat \cup {NoReplay}
        BY DEF Init
    <2>4. QED
        BY <2>1, <2>2, <2>3 DEF RevocationTypeOK
<1>7. RowsShaped
    <2>1. backup.outbox = outbox /\ backup.permit = permit
        BY DEF Init, Database
    <2>2. \A r \in Rows : Shaped(outbox[r], permit[r])
        BY DEF Init, StoreInit, Shaped, Started
    <2>3. QED
        BY <2>1, <2>2 DEF RowsShaped
<1>8. HoldersFit /\ HoldersApart
    BY <1>4 DEF HoldersFit, HoldersApart, Stopped, Holding
<1>9. Suspended
    BY DEF Init, StoreInit, Suspended
<1>10. QED
    BY <1>1, <1>2, <1>3, <1>4, <1>5, <1>6, <1>7, <1>8, <1>9, TypeParts DEF Sound, Typed, WorkInv

LEMMA HushKept ==
    ASSUME NothingFlies, AllCalm
    PROVE  NothingFlies'
    BY DEF NothingFlies, AllCalm, Calm, Hushed

\* While a restored database is replayed only the provider and the clock go on.
LEMMA SuspendedDelivery ==
    ASSUME Sound, Suspended, DeliveryNext, gates.restore = "replaying"
    PROVE  (\E r \in Rows : ProviderActs(r)) \/ Clock
<1>1. \A w \in Workers : worker[w] = Stopped
    BY DEF Suspended
<1>2. ASSUME NEW w \in Workers PROVE ~(WorkerStep(w) \/ Blocked(w) \/ Crash(w))
    <2>1. /\ worker[w] = Stopped /\ worker[w].pc = "stopped" /\ worker[w].batch = {}
        BY <1>1 DEF Stopped
    <2>2. ~SupervisorStep(w) /\ ~Blocked(w) /\ ~Crash(w)
        BY <2>1 DEF SupervisorStep, ActivateGates, Activatable, AcquireEgress, RenewOwnership,
                    DeactivateRenew, CloseGates, ReleaseEgress, Blocked, Crash, At
    <2>3. ~DeliveryStep(w)
        BY <2>1 DEF DeliveryStep, Recover, Claim, Mark, Abandon, ReadToken, AuthorizeFetch, Send,
                    ReceiveAnswer, RecordProviderAccepted, RecordProviderRejected,
                    RecordProviderOutcomeUnknown, Record, At
    <2>4. ~ReceiptStep(w)
        BY <2>1 DEF ReceiptStep, ClaimReceipts, SettleReceipt, At
    <2>5. QED
        BY <2>2, <2>3, <2>4 DEF WorkerStep
<1>3. ~(\E r \in Rows, s \in Scopes : Alert(r, s))
    BY DEF Alert, CreateAlert, MonitorsEnabled
<1>4. ~(\E i \in Installations : Rebind(i) \/ DeleteRule(i)) /\ ~RotateKeys
    BY DEF Rebind, RebindPushToken, DeleteRule, DeletePriceRule, RotateKeys, RotatePushTokenKeys,
           Mutable
<1>5. QED
    BY <1>2, <1>3, <1>4 DEF DeliveryNext

LEMMA GatesKept ==
    ASSUME Sound, DeliveryNext
    PROVE  gates'.restore = gates.restore /\ gates'.watermark = gates.watermark
<1>1. gates \in GateRow
    BY SoundParts
<1>2. CASE gates' = gates
    BY <1>2
<1>3. CASE \/ gates' = [gates EXCEPT !.delivery = FALSE]
           \/ gates' = [gates EXCEPT !.monitors = TRUE, !.delivery = TRUE]
           \/ gates' = [gates EXCEPT !.monitors = FALSE, !.delivery = FALSE]
    BY <1>1, <1>3 DEF GateRow
<1>4. QED
    <2>1. ASSUME NEW w \in Workers, WorkerStep(w) \/ Blocked(w) \/ Crash(w)
          PROVE  \/ gates' = gates
                 \/ gates' = [gates EXCEPT !.monitors = TRUE, !.delivery = TRUE]
                 \/ gates' = [gates EXCEPT !.monitors = FALSE, !.delivery = FALSE]
        <3>1. CASE SupervisorStep(w) \/ Blocked(w) \/ Crash(w)
            BY <3>1 DEF SupervisorStep, ActivateGates, AcquireEgress, RenewOwnership, DeactivateRenew,
                    CloseGates, ReleaseEgress, Blocked, Crash, DeactivateWorkerGates, storeVars
        <3>2. CASE DeliveryStep(w)
            BY <3>2 DEF DeliveryStep, Recover, Claim, Mark, Abandon, ReadToken, AuthorizeFetch, Send,
                    ReceiveAnswer, RecordProviderAccepted, RecordProviderRejected,
                    RecordProviderOutcomeUnknown, Record, storeVars
        <3>3. CASE ReceiptStep(w)
            BY <3>3 DEF ReceiptStep, ClaimReceipts, SettleReceipt
        <3>4. QED
            BY <2>1, <3>1, <3>2, <3>3 DEF WorkerStep
    <2>2. ASSUME \/ \E r \in Rows : ProviderActs(r) \/ \E s \in Scopes : Alert(r, s)
                 \/ \E i \in Installations : Rebind(i) \/ DeleteRule(i)
                 \/ RotateKeys \/ Clock
          PROVE  gates' = gates \/ gates' = [gates EXCEPT !.delivery = FALSE]
        BY <2>2 DEF ProviderActs, Alert, CreateAlert, Rebind, RebindPushToken, DeleteRule,
                DeletePriceRule, RotateKeys, RotatePushTokenKeys, Clock, Tick, storeVars
    <2>3. QED
        BY <1>2, <1>3, <2>1, <2>2 DEF DeliveryNext

LEMMA DeliverySuspended ==
    ASSUME Sound, Suspended, DeliveryNext
    PROVE  Suspended'
<1>1. gates'.restore = gates.restore
    BY GatesKept
<1>2. CASE gates.restore = "replaying"
    <2>1. NothingFlies /\ \A w \in Workers : worker[w] = Stopped
        BY <1>2 DEF Suspended
    <2>2. CASE \E r \in Rows : ProviderActs(r)
        <3>1. permit' = permit /\ worker' = worker
            BY <2>2 DEF ProviderActs, storeVars
        <3>2. QED
            BY <2>1, <3>1 DEF Suspended, NothingFlies
    <2>3. CASE Clock
        <3>1. AllCalm
            BY <2>3, SoundParts, TickRows DEF Clock, AllCalm
        <3>2. worker' = worker
            BY <2>1, <2>3, SoundParts, ClockWorkers
        <3>3. QED
            BY <2>1, <3>1, <3>2, HushKept DEF Suspended
    <2>4. QED
        BY <1>2, <2>2, <2>3, SuspendedDelivery
<1>3. CASE gates.restore # "replaying"
    BY <1>1, <1>3 DEF Suspended
<1>4. QED
    BY <1>2, <1>3

\* The steps of the API handlers.
Handles ==
    \/ \E i \in Installations : StartInstallationDrain(i) \/ RevokeLost(i)
    \/ \E l \in Links : StartAccountLinkDrain(l)
    \/ \E s \in Scopes :
        \/ s \in Installations /\ CheckInstallation(s)
        \/ s \in Links /\ CheckLink(s)
        \/ AppendTombstone(s)
        \/ CommitDrain(s)
        \/ HandlerFails(s)

LEMMA DeletionSteps ==
    ASSUME DeletionNext
    PROVE  (DeliveryNext /\ UNCHANGED revocationVars) \/ Handles
    BY ScopeFacts DEF DeletionNext, Handles, CommitInstallationRevocation, CommitAccountLinkUnlink

LEMMA HandlesStep ==
    ASSUME Sound, Handles
    PROVE  HandlerStep
    BY StartInstallationStep, StartLinkStep, CheckStep, AppendStep, CommitStep, HandlerFailsStep
       DEF Handles

LEMMA NextSound ==
    ASSUME Sound, Suspended, [Next]_vars
    PROVE  Sound' /\ Suspended'
<1>1. CASE DeliveryNext /\ UNCHANGED revocationVars
    <2>1. DeliveryTypeOK' /\ WorkInv' /\ Suspended'
        BY <1>1, DeliverySound, DeliverySuspended DEF revocationVars
    <2>2. RevocationTypeOK'
        BY <1>1 DEF Sound, Typed, RevocationTypeOK, revocationVars
    <2>3. QED
        BY <2>1, <2>2 DEF Sound, Typed
<1>2. CASE Handles
    <2>1. HandlerStep
        BY <1>2, HandlesStep
    <2>2. Sound'
        BY <2>1, HandlerSound
    <2>3. Suspended'
        <3>1. gates' = gates /\ worker' = worker /\ AllCalm
            BY <2>1 DEF HandlerStep
        <3>2. QED
            BY <3>1, HushKept DEF Suspended
    <2>4. QED
        BY <2>2, <2>3
<1>3. CASE TakeBackup
    BY <1>3, TakeBackupStep DEF ServiceStill, Suspended, NothingFlies
<1>4. CASE Restore
    BY <1>4, RestoreStep DEF Suspended, NothingFlies
<1>5. CASE ReplayRead
    BY <1>5, ReplayReadStep DEF ServiceStill, Suspended, NothingFlies
<1>6. CASE ReplayApply
    <2>1. NothingFlies /\ \A w \in Workers : worker[w] = Stopped
        BY <1>6 DEF ReplayApply, Suspended
    <2>2. Sound' /\ AllCalm /\ worker' = worker
        BY <1>6, <2>1, ReplayApplyStep
    <2>3. Suspended'
        BY <2>1, <2>2, HushKept DEF Suspended
    <2>4. QED
        BY <2>2, <2>3
<1>7. CASE UNCHANGED vars
    <2>1. ServiceStill /\ UNCHANGED <<handler, origin, ledger, reported, backup, replay>>
        BY <1>7 DEF vars, storeVars, workerVars, revocationVars, ServiceStill
    <2>2. RevocationTypeOK'
        BY <2>1 DEF Sound, Typed, RevocationTypeOK
    <2>3. \A r \in Rows : Shaped(backup'.outbox[r], backup'.permit[r])
        BY <2>1 DEF Sound, WorkInv, RowsShaped
    <2>4. QED
        BY <2>1, <2>2, <2>3, StillSound DEF ServiceStill, Suspended, NothingFlies
<1>8. QED
    BY <1>1, <1>2, <1>3, <1>4, <1>5, <1>6, <1>7, DeletionSteps DEF Next, RestoreNext

(* The types of the delivery store and of its processes, and with them that   *)
(* no deadline, lease, attempt or generation leaves its range, through        *)
(* crashes, deletions and restores.                                           *)
THEOREM TypeCorrect == Spec => []DeliveryTypeOK
<1>1. Init => Sound /\ Suspended
    BY InitSound
<1>2. Sound /\ Suspended /\ [Next]_vars => Sound' /\ Suspended'
    BY NextSound
<1>3. Sound => DeliveryTypeOK
    BY DEF Sound, Typed
<1>4. QED
    BY <1>1, <1>2, <1>3, PTL DEF Spec

---------------------------------------------------------------------------
(* What is known of the provider stays true. *)

RowsTrue == \A r \in Rows : Truth(outbox[r], ticket[r], sent[r], wire[r])

LEMMA SilentTruth ==
    ASSUME NEW r \in Rows, Truth(outbox[r], ticket[r], sent[r], wire[r]), Silent(r), TicketKept(r),
           sent'[r] = sent[r], wire'[r] = wire[r]
    PROVE  Truth(outbox'[r], ticket'[r], sent'[r], wire'[r])
    BY DEF Truth, Silent, TicketKept, Final, Waiting

LEMMA CalmTruth ==
    ASSUME RowsTrue, AllCalm, \A r \in Rows : TicketKept(r), sent' = sent, wire' = wire
    PROVE  RowsTrue'
<1>1. ASSUME NEW r \in Rows PROVE Truth(outbox'[r], ticket'[r], sent'[r], wire'[r])
    BY SilentTruth DEF RowsTrue, AllCalm, Calm
<1>2. QED
    BY <1>1 DEF RowsTrue

\* The steps of a process that make no request.
LEMMA KnowsKept ==
    ASSUME TruthInv, RowsTrue', NEW w \in Workers, Elsewhere(w), sent' = sent, wire' = wire,
           worker'[w].pc \in Holding =>
               Knows(worker'[w], sent[worker'[w].row], wire[worker'[w].row])
    PROVE  TruthInv'
<1>1. ASSUME NEW v \in Workers, worker'[v].pc \in Holding
      PROVE  Knows(worker'[v], sent'[worker'[v].row], wire'[worker'[v].row])
    BY <1>1 DEF TruthInv, Elsewhere, Row
<1>2. QED
    BY <1>1 DEF TruthInv, RowsTrue, Row

\* Steps in which no process moves.
LEMMA RestTruth ==
    ASSUME TruthInv, RowsTrue', Rests, \A w \in Workers : worker'[w].result = worker[w].result,
           sent' = sent, wire' = wire
    PROVE  TruthInv'
<1>1. ASSUME NEW v \in Workers, worker'[v].pc \in Holding
      PROVE  Knows(worker'[v], sent'[worker'[v].row], wire'[worker'[v].row])
    <2>1. Knows(worker[v], sent[worker[v].row], wire[worker[v].row])
        BY <1>1 DEF TruthInv, Rests, Row
    <2>2. QED
        BY <2>1 DEF Rests, Knows
<1>2. QED
    BY <1>1 DEF TruthInv, RowsTrue, Row

LEMMA SameTickets ==
    ASSUME ticket' = ticket
    PROVE  \A r \in Rows : TicketKept(r)
    BY DEF TicketKept

LEMMA SupervisorTruth ==
    ASSUME Sound, TruthInv, NEW w \in Workers,
           \/ SupervisorStep(w) \/ Blocked(w) \/ Crash(w)
           \/ Recover(w) \/ Claim(w) \/ Abandon(w) \/ ClaimReceipts(w)
    PROVE  TruthInv'
<1>1. sent' = sent /\ wire' = wire
    BY SoundParts, SupervisorMoves DEF Recover, Claim, Abandon, ClaimReceipts
<1>2. \A r \in Rows : TicketKept(r)
    <2>1. CASE ClaimReceipts(w)
        BY <2>1, SoundParts, ClaimReceiptsWorks DEF TicketsKept
    <2>2. CASE ~ClaimReceipts(w)
        <3>1. ticket' = ticket
            BY <2>2, SoundParts, SupervisorMoves DEF Recover, Claim, Abandon
        <3>2. QED
            BY <3>1, SameTickets
    <2>3. QED
        BY <2>1, <2>2
<1>3. Elsewhere(w) /\ AllCalm /\ (worker'[w].pc \in Holding => worker'[w].pc = "claimed")
    <2>1. CASE SupervisorStep(w) \/ Blocked(w) \/ Crash(w)
        BY <2>1, SoundParts, SupervisorMoves, SupervisorWorks
    <2>2. CASE Recover(w)
        BY <2>2, SoundParts, RecoverWorks DEF Works
    <2>3. CASE Claim(w)
        BY <2>3, SoundParts, ClaimWorks DEF Works
    <2>4. CASE Abandon(w)
        BY <2>4, SoundParts, AbandonWorks DEF Works
    <2>5. CASE ClaimReceipts(w)
        BY <2>5, SoundParts, ClaimReceiptsWorks DEF Works
    <2>6. QED
        BY <2>1, <2>2, <2>3, <2>4, <2>5
<1>4. RowsTrue'
    BY <1>1, <1>2, <1>3, CalmTruth DEF TruthInv, RowsTrue
<1>5. worker'[w].pc \in Holding => Knows(worker'[w], sent[worker'[w].row], wire[worker'[w].row])
    BY <1>3 DEF Knows, Before
<1>6. QED
    BY <1>1, <1>3, <1>4, <1>5, KnowsKept

LEMMA MarkTruth ==
    ASSUME Sound, TruthInv, NEW w \in Workers, Mark(w)
    PROVE  TruthInv'
<1>1. /\ Works(w) /\ Row(w) \in Rows
      /\ MarkedNow(w) \/ (AllCalm /\ worker'[w].pc = "abandoning")
    BY SoundParts, MarkWorks
<1>2. UNCHANGED <<sent, wire, ticket>> /\ Elsewhere(w)
    BY <1>1 DEF Mark, Works
<1>3. \A r \in Rows : Silent(r) /\ TicketKept(r)
    BY <1>1, <1>2, SameTickets DEF MarkedNow, AllCalm, Calm
<1>4. RowsTrue'
    <2>1. ASSUME NEW r \in Rows PROVE Truth(outbox'[r], ticket'[r], sent'[r], wire'[r])
        BY <1>2, <1>3, SilentTruth DEF TruthInv
    <2>2. QED
        BY <2>1 DEF RowsTrue
<1>5. Knows(worker'[w], sent[worker'[w].row], wire[worker'[w].row])
    <2>1. CASE MarkedNow(w)
        <3>1. worker'[w].pc = "marked" /\ worker'[w].row = Row(w) /\ outbox[Row(w)].state = "leased"
            BY <2>1 DEF MarkedNow, SameAttempt, Row
        <3>2. sent[Row(w)] = 0
            BY <1>1, <3>1 DEF TruthInv, Truth, Waiting
        <3>3. QED
            BY <3>1, <3>2 DEF Knows, Before
    <2>2. CASE worker'[w].pc = "abandoning"
        BY <2>2 DEF Knows, Before
    <2>3. QED
        BY <1>1, <2>1, <2>2
<1>6. QED
    BY <1>2, <1>4, <1>5, KnowsKept

LEMMA HeldKnows ==
    ASSUME TruthInv, NEW w \in Workers, worker[w].pc \in Holding
    PROVE  Knows(worker[w], sent[Row(w)], wire[Row(w)])
    BY DEF TruthInv

LEMMA AuthorizeTruth ==
    ASSUME Sound, TruthInv, NEW w \in Workers, ReadToken(w) \/ AuthorizeFetch(w)
    PROVE  TruthInv'
<1>1. /\ Works(w) /\ AllCalm /\ Proceeds(w) /\ worker[w].pc \in Before
      /\ \/ worker'[w].pc \in Before
         \/ worker'[w].pc = "answered" /\ worker'[w].result = "unsent"
    BY SoundParts, AuthorizeWorks
<1>2. UNCHANGED <<sent, wire, ticket>> /\ Elsewhere(w)
    BY <1>1 DEF ReadToken, AuthorizeFetch, storeVars, Works
<1>3. RowsTrue'
    BY <1>1, <1>2, CalmTruth, SameTickets DEF TruthInv, RowsTrue
<1>4. sent[Row(w)] = 0 /\ worker'[w].row = Row(w)
    <2>1. worker[w].pc \in Holding
        BY <1>1 DEF Before, Holding
    <2>2. QED
        BY <1>1, <2>1, HeldKnows DEF Knows, Proceeds, SameAttempt, Row
<1>5. Knows(worker'[w], sent[worker'[w].row], wire[worker'[w].row])
    BY <1>1, <1>4 DEF Knows, Before, Answers
<1>6. QED
    BY <1>2, <1>3, <1>5, KnowsKept

\* The only request of a row: nobody else is about to make one, and nobody has
\* had an answer.
LEMMA SendTruth ==
    ASSUME Sound, TruthInv, NEW w \in Workers, Send(w)
    PROVE  TruthInv'
<1> DEFINE r == Row(w)
<1>1. /\ Works(w) /\ AllCalm /\ Proceeds(w) /\ worker[w].pc \in Before
      /\ worker[w].pc = "authorized" /\ r \in Rows
      /\ \/ /\ worker'[w].pc = "waiting"
            /\ permit[r].deadline > 0
            /\ wire' = [wire EXCEPT ![r] = "flying"]
            /\ sent' = [sent EXCEPT ![r] = sent[r] + 1]
         \/ /\ worker'[w].pc = "answered" /\ worker'[w].result = "unsent"
            /\ wire' = wire /\ sent' = sent
    BY SoundParts, SendWorks
<1>2. ticket' = ticket /\ Elsewhere(w)
    BY <1>1 DEF Send, storeVars, Works
<1>3. worker[w].pc \in Holding
    BY <1>1 DEF Before, Holding
<1>4. sent[r] = 0 /\ wire[r] = "none" /\ worker'[w].row = r
    BY <1>1, <1>3, HeldKnows DEF Knows, Proceeds, SameAttempt, Row, TruthInv, Truth
<1>5. CASE worker'[w].pc = "answered" /\ worker'[w].result = "unsent" /\ wire' = wire /\ sent' = sent
    <2>1. RowsTrue'
        BY <1>1, <1>2, <1>5, CalmTruth, SameTickets DEF TruthInv, RowsTrue
    <2>2. Knows(worker'[w], sent[worker'[w].row], wire[worker'[w].row])
        BY <1>4, <1>5 DEF Knows, Before, Answers
    <2>3. QED
        BY <1>2, <1>5, <2>1, <2>2, KnowsKept
<1>6. CASE /\ worker'[w].pc = "waiting" /\ permit[r].deadline > 0
           /\ wire' = [wire EXCEPT ![r] = "flying"]
           /\ sent' = [sent EXCEPT ![r] = sent[r] + 1]
    <2>1. /\ wire'[r] = "flying" /\ sent'[r] = 1
          /\ \A q \in Rows : q # r => wire'[q] = wire[q] /\ sent'[q] = sent[q]
        BY <1>1, <1>4, <1>6, SoundParts DEF ProviderTyped
    <2>2. Holds(worker[w], permit[r]) /\ Shaped(outbox[r], permit[r])
        BY <1>3, SoundParts, HeldAttempt
    <2>3. outbox[r].state \notin Waiting
        BY <1>1, <2>2 DEF Holds, Shaped, Before, Marked, Submitted, Started, Waiting
    <2>4. /\ outbox[r].state # "provider_accepted" /\ outbox[r].code # "refused"
          /\ ticket[r].state = "none"
        BY <1>1, <1>4 DEF TruthInv, Truth
    <2>5. permit[r].state = "submission_started" /\ outbox[r].state = Started
        BY <1>1, <1>6, <2>2, SoundParts DEF Holds, Shaped, RowsTyped, PermitRow
    <2>6. outbox[r].code = "none"
        BY <1>1, <2>5 DEF TruthInv, Truth, Started
    <2>7. outbox' = outbox
        BY DEF Send, storeVars
    <2>8. Truth(outbox'[r], ticket'[r], sent'[r], wire'[r])
        BY <1>2, <2>1, <2>3, <2>4, <2>5, <2>6, <2>7 DEF Truth, Waiting, Started
    <2>9. RowsTrue'
        <3>1. ASSUME NEW q \in Rows PROVE Truth(outbox'[q], ticket'[q], sent'[q], wire'[q])
            BY <1>2, <2>1, <2>7, <2>8 DEF TruthInv
        <3>2. QED
            BY <3>1 DEF RowsTrue
    <2>10. ASSUME NEW v \in Workers, worker'[v].pc \in Holding
           PROVE  Knows(worker'[v], sent'[worker'[v].row], wire'[worker'[v].row])
        <3>1. CASE v = w
            BY <1>4, <1>6, <2>1, <3>1 DEF Knows, Before
        <3>2. CASE v # w /\ worker[v].row # r
            <4>1. worker'[v] = worker[v] /\ Row(v) = worker[v].row
                BY <1>2, <3>2 DEF Elsewhere, Row
            <4>2. worker[v].row \in Rows /\ Knows(worker[v], sent[worker[v].row], wire[worker[v].row])
                BY <2>10, <4>1, SoundParts, HeldAttempt, HeldKnows
            <4>3. QED
                BY <2>1, <3>2, <4>1, <4>2
        <3>3. CASE v # w /\ worker[v].row = r
            <4>1. worker'[v] = worker[v] /\ Row(v) = worker[v].row
                BY <1>2, <3>3 DEF Elsewhere, Row
            <4>2. /\ Holds(worker[v], permit[r])
                  /\ worker[v].n # worker[w].n
                <5>1. Holds(worker[v], permit[r])
                    BY <2>10, <3>3, <4>1, SoundParts, HeldAttempt
                <5>2. worker[v].n # worker[w].n
                    BY <1>3, <2>10, <3>3, <4>1, SoundParts DEF WorkInv, HoldersApart, Row, Attempt
                <5>3. QED
                    BY <5>1, <5>2
            <4>3. worker[v].pc \notin Marked
                BY <1>1, <2>2, <4>2 DEF Holds, Before, Marked
            <4>4. QED
                BY <4>1, <4>3 DEF Knows, Before, Marked
        <3>4. QED
            BY <3>1, <3>2, <3>3
    <2>11. QED
        BY <2>9, <2>10 DEF TruthInv, RowsTrue, Row
<1>7. QED
    BY <1>1, <1>5, <1>6

LEMMA ReceiveTruth ==
    ASSUME Sound, TruthInv, NEW w \in Workers, ReceiveAnswer(w)
    PROVE  TruthInv'
<1>1. /\ Works(w) /\ AllCalm /\ Proceeds(w) /\ worker'[w].pc = "answered"
      /\ worker[w].pc = "waiting" /\ worker'[w].result \in {wire[Row(w)], "lost"}
    BY SoundParts, ReceiveWorks
<1>2. UNCHANGED <<sent, wire, ticket>> /\ Elsewhere(w)
    BY <1>1 DEF ReceiveAnswer, storeVars, Works
<1>3. RowsTrue'
    BY <1>1, <1>2, CalmTruth, SameTickets DEF TruthInv, RowsTrue
<1>4. worker'[w].row = Row(w) /\ Row(w) \in Rows
    <2>1. worker[w].pc \in Holding
        BY <1>1 DEF Holding
    <2>2. QED
        BY <1>1, <2>1, SoundParts, HeldAttempt DEF Proceeds, SameAttempt, Row
<1>5. wire[Row(w)] \in Answers \cup {"none", "flying"}
    BY <1>4, SoundParts DEF ProviderTyped
<1>6. Knows(worker'[w], sent[worker'[w].row], wire[worker'[w].row])
    BY <1>1, <1>4, <1>5 DEF Knows, Before, Answers
<1>7. QED
    BY <1>2, <1>3, <1>6, KnowsKept

\* A recorded outcome and a settled receipt stay what they are.
OutcomesKept ==
    \A r \in Rows :
        /\ outbox[r].state \in Final => outbox'[r].state = outbox[r].state
        /\ ticket[r].state \in {"delivered", "failed", "unknown"} =>
               ticket'[r].state = ticket[r].state

LEMMA CalmKeeps ==
    ASSUME AllCalm, \A r \in Rows : TicketKept(r)
    PROVE  OutcomesKept
    BY DEF OutcomesKept, AllCalm, Calm, Silent, TicketKept, SettledTicket

\* What is recorded is what the process learned.
LEMMA RecordedTruth ==
    ASSUME Sound, TruthInv, NEW w \in Workers,
           NEW outcome \in Final \ {"cancelled"}, NEW code \in {"none", "unsent", "refused"},
           Record(w, outcome, code),
           outcome = "provider_accepted" => wire[Row(w)] = "accepted",
           code = "unsent" => sent[Row(w)] = 0,
           code = "refused" => wire[Row(w)] \in {"refused", "unregistered"},
           code # "none" => outcome = "provider_rejected",
           \A q \in Rows : q # Row(w) => ticket'[q] = ticket[q],
           InFlight(Row(w), Attempt(w)) /\ outcome # "provider_accepted" =>
               ticket'[Row(w)] = ticket[Row(w)],
           ~InFlight(Row(w), Attempt(w)) => ticket' = ticket
    PROVE  TruthInv' /\ OutcomesKept
<1> DEFINE r == Row(w)
<1>1. /\ Works(w) /\ r \in Rows /\ worker'[w].pc \notin Holding
      /\ \A q \in Rows : q # r => Calm(q)
      /\ \/ Recorded(w, outcome, code)
         \/ AllCalm /\ ~InFlight(r, Attempt(w))
    BY SoundParts, RecordWorks
<1>2. UNCHANGED <<sent, wire>> /\ Elsewhere(w)
    BY <1>1 DEF Record, Works
<1>3. CASE AllCalm /\ ~InFlight(r, Attempt(w))
    <2>1. \A q \in Rows : TicketKept(q)
        BY <1>3, SameTickets
    <2>2. RowsTrue'
        BY <1>2, <1>3, <2>1, CalmTruth DEF TruthInv, RowsTrue
    <2>3. TruthInv'
        BY <1>1, <1>2, <2>2, KnowsKept
    <2>4. QED
        BY <1>3, <2>1, <2>3, CalmKeeps
<1>4. CASE Recorded(w, outcome, code)
    <2>1. /\ outbox[r].state = Started /\ outbox'[r].state = outcome /\ outbox'[r].code = code
          /\ InFlight(r, Attempt(w))
        BY <1>4 DEF Recorded
    <2>2. ticket[r].state = "none" /\ sent[r] \in {0, 1} /\ (sent[r] = 0 <=> wire[r] = "none")
        BY <1>1, <2>1 DEF TruthInv, Truth, Started
    <2>3. outcome \in {"provider_accepted", "provider_rejected", "provider_outcome_unknown"}
        BY DEF Final
    <2>4. Truth(outbox'[r], ticket'[r], sent'[r], wire'[r])
        <3>1. outbox'[r].state \notin Waiting
            BY <2>1, <2>3 DEF Waiting
        <3>2. ticket'[r].state # "none" => outcome = "provider_accepted"
            BY <2>1, <2>2
        <3>3. QED
            BY <1>2, <2>1, <2>2, <3>1, <3>2 DEF Truth
    <2>5. ASSUME NEW q \in Rows, q # r
          PROVE  /\ Truth(outbox'[q], ticket'[q], sent'[q], wire'[q])
                 /\ Silent(q) /\ TicketKept(q)
        <3>1. Silent(q) /\ TicketKept(q)
            BY <1>1, <2>5 DEF Calm, TicketKept
        <3>2. Truth(outbox[q], ticket[q], sent[q], wire[q])
            BY DEF TruthInv
        <3>3. QED
            BY <1>2, <3>1, <3>2, SilentTruth
    <2>6. RowsTrue'
        BY <2>4, <2>5 DEF RowsTrue
    <2>7. OutcomesKept
        <3>1. outbox[r].state \notin Final /\ ticket[r].state \notin {"delivered", "failed", "unknown"}
            BY <2>1, <2>2 DEF Started, Final
        <3>2. QED
            BY <2>5, <3>1 DEF OutcomesKept, Silent, TicketKept, SettledTicket
    <2>8. QED
        BY <1>1, <1>2, <2>6, <2>7, KnowsKept
<1>5. QED
    BY <1>1, <1>3, <1>4

LEMMA RecordTruth ==
    ASSUME Sound, TruthInv, NEW w \in Workers,
           \/ RecordProviderAccepted(w) \/ RecordProviderRejected(w)
           \/ RecordProviderOutcomeUnknown(w)
    PROVE  TruthInv' /\ OutcomesKept
<1>1. worker[w].pc = "answered" /\ worker[w].pc \in Holding
    BY DEF RecordProviderAccepted, RecordProviderRejected, RecordProviderOutcomeUnknown, Record, At,
           Holding
<1>2. Knows(worker[w], sent[Row(w)], wire[Row(w)]) /\ Row(w) \in Rows
    BY <1>1, SoundParts, HeldAttempt, HeldKnows
<1>3. CASE RecordProviderAccepted(w)
    <2>1. Record(w, "provider_accepted", "none") /\ worker[w].result = "accepted"
        BY <1>3 DEF RecordProviderAccepted
    <2>2. ticket' = IF InFlight(Row(w), Attempt(w)) THEN [ticket EXCEPT ![Row(w)] = NewTicket]
                    ELSE ticket
        BY <1>3 DEF RecordProviderAccepted
    <2>3. \A q \in Rows : q # Row(w) => ticket'[q] = ticket[q]
        BY <2>2, SoundParts DEF TicketsTyped
    <2>4. wire[Row(w)] = "accepted"
        BY <1>1, <1>2, <2>1 DEF Knows, Answers
    <2>5. "provider_accepted" \in Final \ {"cancelled"}
        BY DEF Final
    <2>6. QED
        BY <2>1, <2>2, <2>3, <2>4, <2>5, RecordedTruth
<1>4. CASE RecordProviderRejected(w)
    <2> DEFINE c == IF worker[w].result = "unsent" THEN "unsent" ELSE "refused"
    <2>1. /\ Record(w, "provider_rejected", c) /\ ticket' = ticket
          /\ worker[w].result \in {"unsent", "refused", "unregistered"}
        BY <1>4 DEF RecordProviderRejected
    <2>2. /\ c \in {"none", "unsent", "refused"}
          /\ "provider_rejected" \in Final \ {"cancelled"}
        BY DEF Final
    <2>3. c = "unsent" => sent[Row(w)] = 0
        BY <1>1, <1>2 DEF Knows
    <2>4. c = "refused" => wire[Row(w)] \in {"refused", "unregistered"}
        BY <1>1, <1>2, <2>1 DEF Knows, Answers
    <2> HIDE DEF c
    <2>5. QED
        BY <2>1, <2>2, <2>3, <2>4, RecordedTruth
<1>5. CASE RecordProviderOutcomeUnknown(w)
    <2>1. Record(w, "provider_outcome_unknown", "none") /\ ticket' = ticket
        BY <1>5 DEF RecordProviderOutcomeUnknown
    <2>2. "provider_outcome_unknown" \in Final \ {"cancelled"}
        BY DEF Final
    <2>3. QED
        BY <2>1, <2>2, RecordedTruth
<1>6. QED
    BY <1>3, <1>4, <1>5

LEMMA SettleTruth ==
    ASSUME Sound, TruthInv, NEW w \in Workers, NEW r \in Rows, SettleReceipt(w, r)
    PROVE  TruthInv' /\ OutcomesKept
<1>1. /\ Works(w) /\ AllCalm /\ TicketsKept
      /\ SameAttempt(w) /\ worker'[w].result = worker[w].result
      /\ worker'[w].pc \in Holding => worker'[w].pc = worker[w].pc
    BY SoundParts, SettleReceiptWorks
<1>2. UNCHANGED <<sent, wire>> /\ Elsewhere(w)
    BY <1>1 DEF SettleReceipt, Works
<1>3. RowsTrue'
    BY <1>1, <1>2, CalmTruth DEF TruthInv, RowsTrue, TicketsKept
<1>4. worker'[w].pc \in Holding => Knows(worker'[w], sent[worker'[w].row], wire[worker'[w].row])
    <2>1. HAVE worker'[w].pc \in Holding
    <2>2. Knows(worker[w], sent[Row(w)], wire[Row(w)])
        BY <1>1, <2>1, HeldKnows
    <2>3. QED
        BY <1>1, <2>1, <2>2 DEF Knows, SameAttempt, Row
<1>5. TruthInv'
    BY <1>2, <1>3, <1>4, KnowsKept
<1>6. QED
    BY <1>1, <1>5, CalmKeeps DEF TicketsKept

\* The provider answers a request that nobody has had an answer to.
LEMMA ProviderTruth ==
    ASSUME Sound, TruthInv, NEW r \in Rows, ProviderActs(r)
    PROVE  TruthInv' /\ OutcomesKept
<1>1. /\ UNCHANGED <<outbox, ticket, worker, sent>> /\ wire[r] = "flying"
      /\ \E a \in Answers : wire' = [wire EXCEPT ![r] = a]
    BY DEF ProviderActs, storeVars
<1>2. PICK a \in Answers : wire' = [wire EXCEPT ![r] = a]
    BY <1>1
<1>3. /\ wire'[r] = a /\ a # "none" /\ a \in Answers
      /\ \A q \in Rows : q # r => wire'[q] = wire[q]
    BY <1>2, SoundParts DEF ProviderTyped, Answers
<1>4. ASSUME NEW q \in Rows PROVE Truth(outbox'[q], ticket'[q], sent'[q], wire'[q])
    <2>1. Truth(outbox[q], ticket[q], sent[q], wire[q])
        BY DEF TruthInv
    <2>2. CASE q # r
        BY <1>1, <1>3, <2>1, <2>2
    <2>3. CASE q = r
        BY <1>1, <1>3, <2>1, <2>3 DEF Truth
    <2>4. QED
        BY <2>2, <2>3
<1>5. ASSUME NEW v \in Workers, worker'[v].pc \in Holding
      PROVE  Knows(worker'[v], sent'[worker'[v].row], wire'[worker'[v].row])
    <2>1. worker[v].pc \in Holding /\ worker'[v] = worker[v] /\ Row(v) = worker[v].row
        BY <1>1, <1>5 DEF Row
    <2>2. Knows(worker[v], sent[Row(v)], wire[Row(v)]) /\ Row(v) \in Rows
        BY <2>1, HeldKnows, HeldAttempt, SoundParts
    <2>3. CASE Row(v) # r
        BY <1>1, <1>3, <2>1, <2>2, <2>3
    <2>4. CASE Row(v) = r
        BY <1>1, <1>3, <2>1, <2>2, <2>4 DEF Knows, Answers
    <2>5. QED
        BY <2>3, <2>4
<1>6. QED
    BY <1>1, <1>4, <1>5 DEF TruthInv, Row, OutcomesKept

LEMMA SilentKeeps ==
    ASSUME \A r \in Rows : Silent(r) /\ TicketKept(r)
    PROVE  OutcomesKept
    BY DEF OutcomesKept, Silent, TicketKept, SettledTicket

LEMMA WorkerTruth ==
    ASSUME Sound, TruthInv, NEW w \in Workers, WorkerStep(w) \/ Blocked(w) \/ Crash(w)
    PROVE  TruthInv' /\ OutcomesKept
<1>1. CASE \/ SupervisorStep(w) \/ Blocked(w) \/ Crash(w)
           \/ Recover(w) \/ Claim(w) \/ Abandon(w)
    <2>1. ticket' = ticket
        <3>1. CASE SupervisorStep(w) \/ Blocked(w) \/ Crash(w)
            BY <3>1, SoundParts, SupervisorMoves
        <3>2. CASE Recover(w)
            BY <3>2 DEF Recover
        <3>3. CASE Claim(w)
            BY <3>3, Zenon DEF Claim
        <3>4. CASE Abandon(w)
            BY <3>4 DEF Abandon
        <3>5. QED
            BY <1>1, <3>1, <3>2, <3>3, <3>4
    <2>2. AllCalm
        BY <1>1, SoundParts, SupervisorWorks, RecoverWorks, ClaimWorks, AbandonWorks
    <2>3. QED
        BY <1>1, <2>1, <2>2, SameTickets, CalmKeeps, SupervisorTruth
<1>2. CASE ClaimReceipts(w)
    BY <1>2, SoundParts, ClaimReceiptsWorks, CalmKeeps, SupervisorTruth DEF TicketsKept
<1>3. CASE Mark(w)
    <2>1. ticket' = ticket
        BY <1>3 DEF Mark
    <2>2. \A r \in Rows : Silent(r)
        BY <1>3, SoundParts, MarkWorks DEF MarkedNow, AllCalm, Calm
    <2>3. QED
        BY <1>3, <2>1, <2>2, SameTickets, SilentKeeps, MarkTruth
<1>4. CASE ReadToken(w) \/ AuthorizeFetch(w) \/ Send(w) \/ ReceiveAnswer(w)
    <2>1. ticket' = ticket
        BY <1>4 DEF ReadToken, AuthorizeFetch, Send, ReceiveAnswer, storeVars
    <2>2. AllCalm
        BY <1>4, SoundParts, AuthorizeWorks, SendWorks, ReceiveWorks
    <2>3. TruthInv'
        BY <1>4, AuthorizeTruth, SendTruth, ReceiveTruth
    <2>4. QED
        BY <2>1, <2>2, <2>3, SameTickets, CalmKeeps
<1>5. CASE \/ RecordProviderAccepted(w) \/ RecordProviderRejected(w)
           \/ RecordProviderOutcomeUnknown(w)
    BY <1>5, RecordTruth
<1>6. CASE \E r \in Rows : SettleReceipt(w, r)
    BY <1>6, SettleTruth
<1>7. QED
    BY <1>1, <1>2, <1>3, <1>4, <1>5, <1>6 DEF WorkerStep, DeliveryStep, ReceiptStep

\* The rest of the service: the rows only grow older, or are calm.
LEMMA QuietTruth ==
    ASSUME Sound, TruthInv, Rests, \A w \in Workers : worker'[w].result = worker[w].result,
           AllCalm, \A r \in Rows : TicketKept(r), sent' = sent, wire' = wire
    PROVE  TruthInv' /\ OutcomesKept
<1>1. RowsTrue'
    BY CalmTruth DEF TruthInv, RowsTrue
<1>2. QED
    BY <1>1, RestTruth, CalmKeeps

LEMMA DeliveryTruth ==
    ASSUME Sound, TruthInv, DeliveryNext
    PROVE  TruthInv' /\ OutcomesKept
<1>1. CASE \E w \in Workers : WorkerStep(w) \/ Blocked(w) \/ Crash(w)
    BY <1>1, WorkerTruth
<1>2. CASE \E r \in Rows : ProviderActs(r)
    BY <1>2, ProviderTruth
<1>3. CASE \E r \in Rows, s \in Scopes : Alert(r, s)
    <2>1. PICK r \in Rows, s \in Scopes : Alert(r, s)
        BY <1>3
    <2>2. CreateAlert(r, s) /\ UNCHANGED <<ticket, worker, sent, wire>>
        BY <2>1 DEF Alert, CreateAlert, workerVars
    <2>3. AllCalm
        BY <2>2, SoundParts, CreateAlertCalm DEF AllCalm
    <2>4. QED
        BY <2>2, <2>3, SoundParts, WorkersStill, SameTickets, QuietTruth
<1>4. CASE (\E i \in Installations : Rebind(i) \/ DeleteRule(i)) \/ RotateKeys
    <2>1. UNCHANGED <<outbox, permit, ticket, worker, sent, wire>>
        BY <1>4 DEF Rebind, RebindPushToken, DeleteRule, DeletePriceRule, RotateKeys,
               RotatePushTokenKeys, storeVars, workerVars
    <2>2. AllCalm
        BY <2>1, SoundParts, RowsSame
    <2>3. QED
        BY <2>1, <2>2, SoundParts, WorkersStill, SameTickets, QuietTruth
<1>5. CASE Clock
    <2>1. Tick /\ UNCHANGED <<wire, sent>>
        BY <1>5 DEF Clock
    <2>2. AllCalm
        BY <2>1, SoundParts, TickRows DEF AllCalm
    <2>3. \A r \in Rows : TicketKept(r)
        BY <2>1, SoundParts, TickTickets DEF TicketsKept
    <2>4. Rests /\ \A w \in Workers : worker'[w].result = worker[w].result
        BY <1>5, SoundParts, ClockWorkers
    <2>5. QED
        BY <2>1, <2>2, <2>3, <2>4, QuietTruth
<1>6. QED
    BY <1>1, <1>2, <1>3, <1>4, <1>5 DEF DeliveryNext

\* Without a restore; a handler only fences rows.
LEMMA DeletionTruth ==
    ASSUME Sound, TruthInv, [DeletionNext]_vars
    PROVE  TruthInv' /\ OutcomesKept
<1>1. CASE DeliveryNext
    BY <1>1, DeliveryTruth
<1>2. CASE Handles
    <2>1. HandlerStep
        BY <1>2, HandlesStep
    <2>2. AllCalm /\ UNCHANGED <<ticket, worker, sent, wire>>
        BY <2>1 DEF HandlerStep
    <2>3. QED
        BY <2>2, SoundParts, WorkersStill, SameTickets, QuietTruth
<1>3. CASE UNCHANGED vars
    <2>1. UNCHANGED <<outbox, ticket, worker, sent, wire>>
        BY <1>3 DEF vars, storeVars, workerVars
    <2>2. QED
        BY <2>1 DEF TruthInv, Row, OutcomesKept
<1>4. QED
    BY <1>1, <1>2, <1>3, DeletionSteps

LEMMA InitTruth == ASSUME Init PROVE TruthInv
<1>1. ASSUME NEW r \in Rows PROVE Truth(outbox[r], ticket[r], sent[r], wire[r])
    BY DEF Init, StoreInit, WorkersInit, Truth, NoTicket, Waiting
<1>2. \A w \in Workers : worker[w].pc \notin Holding
    BY DEF Init, WorkersInit, Stopped, Holding
<1>3. QED
    BY <1>1, <1>2 DEF TruthInv

LEMMA TruthHonest == ASSUME TruthInv PROVE OutcomeHonest
    BY DEF TruthInv, Truth, OutcomeHonest, Waiting

(* What the outbox says of a message is what the provider did with it, and    *)
(* nothing is sent twice, whichever process wrote it and however late,        *)
(* through crashes, takeovers, recoveries and deletions.                      *)
THEOREM HonestOutcomes == UnrestoredSpec => []OutcomeHonest
<1>1. Init => Sound /\ Suspended /\ TruthInv
    BY InitSound, InitTruth
<1>2. Sound /\ Suspended /\ TruthInv /\ [DeletionNext]_vars => Sound' /\ Suspended' /\ TruthInv'
    BY NextSound, DeletionTruth DEF Next
<1>3. Sound /\ Suspended /\ TruthInv => OutcomeHonest
    BY TruthHonest
<1>4. QED
    BY <1>1, <1>2, <1>3, PTL DEF UnrestoredSpec

(* No later step changes a recorded outcome or a settled receipt.             *)
THEOREM FinalOutcomes == UnrestoredSpec => OutcomeFinal
<1>1. Init => Sound /\ Suspended /\ TruthInv
    BY InitSound, InitTruth
<1>2. Sound /\ Suspended /\ TruthInv /\ [DeletionNext]_vars => Sound' /\ Suspended' /\ TruthInv'
    BY NextSound, DeletionTruth DEF Next
<1>3. Sound /\ TruthInv /\ [DeletionNext]_vars => [OutcomesKept]_<<outbox, ticket>>
    BY DeletionTruth
<1>4. UnrestoredSpec => [][OutcomesKept]_<<outbox, ticket>>
    BY <1>1, <1>2, <1>3, PTL DEF UnrestoredSpec
<1>5. QED
    BY <1>4, PTL DEF OutcomeFinal, OutcomesKept

---------------------------------------------------------------------------
(* A deletion that is done stays done. *)

\* What the steps of the service leave of the operations and of what authorizes.
LEMMA KeptShrinks ==
    ASSUME InstKept, link' = link, rules' = rules
    PROVE  Shrinks
    BY DEF InstKept, Shrinks

LEMMA WorkerFrame ==
    ASSUME Sound, NEW w \in Workers, WorkerStep(w) \/ Blocked(w) \/ Crash(w)
    PROVE  op' = op /\ Shrinks /\ (sent' = sent \/ Send(w))
<1>1. CASE SupervisorStep(w) \/ Blocked(w) \/ Crash(w)
    BY <1>1, SoundParts, SupervisorMoves, SameShrinks
<1>2. CASE \/ Recover(w) \/ Claim(w) \/ Mark(w) \/ Abandon(w) \/ ReadToken(w) \/ AuthorizeFetch(w)
           \/ ReceiveAnswer(w) \/ ClaimReceipts(w)
    <2>1. UNCHANGED <<inst, link, rules, op, sent>>
        BY <1>2, Zenon DEF Recover, Claim, Mark, Abandon, ReadToken, AuthorizeFetch, ReceiveAnswer,
               ClaimReceipts, storeVars
    <2>2. QED
        BY <2>1, SameShrinks
<1>3. CASE Send(w)
    <2>1. UNCHANGED <<inst, link, rules, op>>
        BY <1>3 DEF Send, storeVars
    <2>2. QED
        BY <1>3, <2>1, SameShrinks
<1>4. CASE \/ RecordProviderAccepted(w) \/ RecordProviderRejected(w)
           \/ RecordProviderOutcomeUnknown(w)
    BY <1>4, RecordParts, KeptShrinks
<1>5. CASE \E r \in Rows : SettleReceipt(w, r)
    <2>1. InstKept
        BY <1>5, SoundParts, SettleReceiptWorks
    <2>2. UNCHANGED <<link, rules, op, sent>>
        BY <1>5 DEF SettleReceipt
    <2>3. QED
        BY <2>1, <2>2, KeptShrinks
<1>6. QED
    BY <1>1, <1>2, <1>3, <1>4, <1>5 DEF WorkerStep, DeliveryStep, ReceiptStep

LEMMA DeliveryFrame ==
    ASSUME Sound, DeliveryNext
    PROVE  op' = op /\ Shrinks /\ (sent' = sent \/ \E w \in Workers : Send(w))
<1>1. CASE \E w \in Workers : WorkerStep(w) \/ Blocked(w) \/ Crash(w)
    BY <1>1, WorkerFrame
<1>2. CASE (\E r \in Rows : ProviderActs(r)) \/ Clock \/ RotateKeys
           \/ (\E r \in Rows, s \in Scopes : Alert(r, s)) \/ (\E i \in Installations : DeleteRule(i))
    <2>1. UNCHANGED <<inst, link, op, sent>>
        BY <1>2, Zenon DEF ProviderActs, Clock, Tick, RotateKeys, RotatePushTokenKeys, Alert, CreateAlert,
               DeleteRule, DeletePriceRule, storeVars, workerVars
    <2>2. CASE \E i \in Installations : DeleteRule(i)
        <3>1. rules' \subseteq rules
            BY <2>2 DEF DeleteRule, DeletePriceRule
        <3>2. QED
            BY <2>1, <3>1, SameShrinks
    <2>3. CASE (\E r \in Rows : ProviderActs(r)) \/ Clock \/ RotateKeys
               \/ \E r \in Rows, s \in Scopes : Alert(r, s)
        <3>1. rules' = rules
            BY <2>3, Zenon DEF ProviderActs, Clock, Tick, RotateKeys, RotatePushTokenKeys, Alert,
                   CreateAlert, storeVars
        <3>2. QED
            BY <2>1, <3>1, SameShrinks
    <2>4. QED
        BY <1>2, <2>2, <2>3
<1>3. CASE \E i \in Installations : Rebind(i)
    <2>1. PICK i \in Installations : Rebind(i)
        BY <1>3
    <2>2. /\ inst[i].state = "active" /\ UNCHANGED <<link, rules, op, sent>>
          /\ inst' = [inst EXCEPT ![i].token = "active", ![i].version = inst[i].version + 1]
        BY <2>1 DEF Rebind, RebindPushToken, workerVars
    <2>3. \A j \in Installations : j # i => inst'[j] = inst[j]
        BY <2>2, SoundParts
    <2>4. QED
        BY <2>2, <2>3 DEF Shrinks
<1>4. QED
    BY <1>1, <1>2, <1>3 DEF DeliveryNext

\* Only a marker brings a row in flight.
LEMMA DeliveryHush ==
    ASSUME Sound, DeliveryNext
    PROVE  (\A q \in Rows : Hushed(q)) \/ \E w \in Workers : Row(w) \in Rows /\ MarkedNow(w)
<1>1. CASE \E w \in Workers : WorkerStep(w) \/ Blocked(w) \/ Crash(w)
    <2>1. PICK w \in Workers : WorkerStep(w) \/ Blocked(w) \/ Crash(w)
        BY <1>1
    <2>2. CASE Mark(w)
        BY <2>2, SoundParts, MarkWorks DEF AllCalm, Calm
    <2>3. CASE \/ RecordProviderAccepted(w) \/ RecordProviderRejected(w)
               \/ RecordProviderOutcomeUnknown(w)
        <3>1. PICK outcome \in Final \ {"cancelled"}, code \in {"none", "unsent", "refused"} :
                  Record(w, outcome, code)
            BY <2>3, RecordParts
        <3>2. QED
            BY <3>1, SoundParts, RecordWorks
    <2>4. CASE \/ SupervisorStep(w) \/ Blocked(w) \/ Crash(w)
               \/ Recover(w) \/ Claim(w) \/ Abandon(w)
        <3>1. AllCalm
            BY <2>4, SoundParts, SupervisorWorks, RecoverWorks, ClaimWorks, AbandonWorks
        <3>2. QED
            BY <3>1 DEF AllCalm, Calm
    <2>5. CASE ReadToken(w) \/ AuthorizeFetch(w) \/ Send(w) \/ ReceiveAnswer(w)
        <3>1. AllCalm
            BY <2>5, SoundParts, AuthorizeWorks, SendWorks, ReceiveWorks
        <3>2. QED
            BY <3>1 DEF AllCalm, Calm
    <2>6. CASE ReceiptStep(w)
        <3>1. AllCalm
            BY <2>6, SoundParts, ClaimReceiptsWorks, SettleReceiptWorks DEF ReceiptStep
        <3>2. QED
            BY <3>1 DEF AllCalm, Calm
    <2>7. QED
        BY <2>1, <2>2, <2>3, <2>4, <2>5, <2>6 DEF WorkerStep, DeliveryStep
<1>2. CASE \E r \in Rows, s \in Scopes : Alert(r, s)
    BY <1>2, SoundParts, CreateAlertCalm DEF Alert, Calm
<1>3. CASE (\E r \in Rows : ProviderActs(r)) \/ RotateKeys
           \/ \E i \in Installations : Rebind(i) \/ DeleteRule(i)
    <2>1. UNCHANGED <<outbox, permit>>
        BY <1>3 DEF ProviderActs, Rebind, RebindPushToken, DeleteRule, DeletePriceRule, RotateKeys,
               RotatePushTokenKeys, storeVars
    <2>2. QED
        BY <2>1 DEF Hushed
<1>4. CASE Clock
    BY <1>4, SoundParts, TickRows DEF Clock, Calm
<1>5. QED
    BY <1>1, <1>2, <1>3, <1>4 DEF DeliveryNext

\* Nothing is marked for a scope that is gone.
LEMMA GoneInactive ==
    ASSUME NEW s \in Scopes, NEW t \in Scopes, Covers(s, t), Gone(inst, link, rules, s)
    PROVE  ~ScopeActive(t)
    BY ScopeFacts DEF Covers, Gone, ScopeActive, InstOf

LEMMA HushQuiet ==
    ASSUME NEW s, Quiet(outbox, permit, s), \A r \in Rows : Hushed(r)
    PROVE  Quiet(outbox', permit', s)
    BY DEF Quiet, Hushed

LEMMA DoneStays ==
    ASSUME Sound, DeliveryNext, NEW s \in Scopes, Done(s)
    PROVE  Gone(inst', link', rules', s) /\ Quiet(outbox', permit', s)
<1>1. Gone(inst', link', rules', s)
    BY DeliveryFrame, GoneStays DEF Done
<1>2. Quiet(outbox', permit', s)
    <2>1. CASE \A r \in Rows : Hushed(r)
        BY <2>1, HushQuiet DEF Done
    <2>2. CASE \E w \in Workers : Row(w) \in Rows /\ MarkedNow(w)
        <3>1. PICK w \in Workers : Row(w) \in Rows /\ MarkedNow(w)
            BY <2>2
        <3>2. /\ ScopeActive(outbox[Row(w)].scope) /\ outbox[Row(w)].scope \in Scopes
              /\ outbox'[Row(w)].scope = outbox[Row(w)].scope
            BY <3>1, SoundParts DEF MarkedNow, Markable, RowsTyped, OutboxRow
        <3>3. ~Covers(s, outbox[Row(w)].scope)
            BY <3>2, GoneInactive DEF Done
        <3>4. \A q \in Rows : q # Row(w) => Hushed(q)
            BY <3>1 DEF MarkedNow
        <3>5. ASSUME NEW q \in Rows, Covers(s, outbox'[q].scope)
              PROVE  permit'[q].state # "submission_started" \/ permit'[q].deadline = 0
            <4>1. q # Row(w)
                BY <3>2, <3>3, <3>5
            <4>2. QED
                BY <3>4, <3>5, <4>1 DEF Done, Quiet, Hushed
        <3>6. QED
            BY <3>5 DEF Quiet
    <2>3. QED
        BY <2>1, <2>2, DeliveryHush
<1>3. QED
    BY <1>1, <1>2

LEMMA LedgerFacts ==
    ASSUME Sound
    PROVE  /\ ledger \in Seq(Scopes) /\ Len(ledger) \in Nat /\ reported \subseteq Scopes
           /\ \A n \in 1..Len(ledger) : ledger[n] \in Scopes
           /\ \A s : Logged(s) => \E n \in 1..Len(ledger) : s = ledger[n]
           /\ backup.watermark \in Nat /\ gates.watermark \in Nat
           /\ gates.restore \in {"ready", "replaying"}
<1>1. /\ ledger \in Seq(Scopes) /\ reported \subseteq Scopes /\ backup \in BackupRow
      /\ gates \in GateRow
    BY SoundParts DEF Sound, Typed, RevocationTypeOK
<1>2. Len(ledger) \in Nat /\ DOMAIN ledger = 1..Len(ledger)
      /\ \A n \in 1..Len(ledger) : ledger[n] \in Scopes
    BY <1>1
<1>3. \A s : Logged(s) => \E n \in 1..Len(ledger) : s = ledger[n]
    BY <1>2 DEF Logged, ToSet
<1>4. backup.watermark \in Nat /\ gates.watermark \in Nat /\ gates.restore \in {"ready", "replaying"}
    BY <1>1 DEF BackupRow, GateRow
<1>5. QED
    BY <1>1, <1>2, <1>3, <1>4

\* The deletions of a step that neither restores nor takes a backup.
LEMMA DeletionKept ==
    ASSUME Sound, DeletionInv, Shrinks, LogGrows, backup' = backup,
           gates'.restore = gates.restore, gates'.watermark = gates.watermark,
           \A s \in Scopes : Done(s) =>
               Gone(inst', link', rules', s) /\ Quiet(outbox', permit', s),
           \A s \in Scopes : op'[s] = "committed" =>
               \/ op[s] = "committed"
               \/ /\ Gone(inst', link', rules', s) /\ Quiet(outbox', permit', s)
                  /\ s \in ToSet(ledger'),
           reported' \subseteq Scopes,
           \A s \in reported' :
               \/ s \in reported
               \/ /\ Gone(inst', link', rules', s) /\ Quiet(outbox', permit', s)
                  /\ s \in ToSet(ledger'),
           \A s \in Scopes : handler'[s] = "committing" =>
               handler[s] = "committing" \/ s \in ToSet(ledger')
    PROVE  DeletionInv'
<1>0. /\ Len(ledger) \in Nat /\ Len(ledger') \in Nat /\ Len(ledger) <= Len(ledger')
      /\ \A n \in 1..Len(ledger) : ledger'[n] = ledger[n] /\ ledger[n] \in Scopes
      /\ \A s \in Scopes : s \in ToSet(ledger) => s \in ToSet(ledger')
      /\ backup.watermark \in Nat /\ gates.watermark \in Nat /\ reported \subseteq Scopes
    BY LedgerFacts DEF LogGrows, Logged
<1>1. ASSUME NEW s \in Scopes, op'[s] = "committed"
      PROVE  Gone(inst', link', rules', s) /\ Quiet(outbox', permit', s) /\ s \in ToSet(ledger')
    BY <1>0, <1>1 DEF DeletionInv, Logged
<1>2. ASSUME NEW s \in Scopes, backup'.op[s] = "committed"
      PROVE  Gone(backup'.inst, backup'.link, backup'.rules, s) /\ s \in ToSet(ledger')
    BY <1>0, <1>2 DEF DeletionInv, Logged
<1>3. ASSUME gates'.restore = "ready", NEW s \in reported'
      PROVE  Gone(inst', link', rules', s) /\ Quiet(outbox', permit', s)
    BY <1>3 DEF DeletionInv
<1>4. ASSUME NEW s \in Scopes, handler'[s] = "committing"
      PROVE  s \in ToSet(ledger')
    BY <1>0, <1>4 DEF DeletionInv, Logged
<1>5. ASSUME NEW s \in reported'
      PROVE  s \in ToSet(ledger')
    BY <1>0, <1>5 DEF DeletionInv, Logged
<1>6. backup'.watermark <= Len(ledger')
    BY <1>0 DEF DeletionInv
<1>7. ASSUME NEW n \in 1..backup'.watermark
      PROVE  backup'.op[ledger'[n]] = "committed"
    <2>1. n \in 1..backup.watermark /\ n \in 1..Len(ledger)
        BY <1>0 DEF DeletionInv
    <2>2. QED
        BY <1>0, <2>1 DEF DeletionInv
<1>8. ASSUME gates'.restore = "replaying"
      PROVE  /\ gates'.watermark <= Len(ledger')
             /\ \A n \in 1..gates'.watermark : Gone(inst', link', rules', ledger'[n])
    <2>1. gates.watermark <= Len(ledger)
        BY <1>8 DEF DeletionInv
    <2>2. ASSUME NEW n \in 1..gates.watermark
          PROVE  Gone(inst', link', rules', ledger'[n])
        <3>1. Gone(inst, link, rules, ledger[n])
            BY <1>8 DEF DeletionInv
        <3>2. n \in 1..Len(ledger)
            BY <1>0, <2>1
        <3>3. ledger'[n] = ledger[n]
            BY <1>0, <3>2
        <3>4. QED
            BY <3>1, <3>3, GoneStays
    <2>3. QED
        BY <1>0, <2>1, <2>2
<1>9. QED
    BY <1>1, <1>2, <1>3, <1>4, <1>5, <1>6, <1>7, <1>8 DEF DeletionInv, Done, Logged

LEMMA DeliveryDeletion ==
    ASSUME Sound, DeletionInv, DeliveryNext, UNCHANGED revocationVars
    PROVE  DeletionInv'
<1>1. op' = op /\ Shrinks
    BY DeliveryFrame
<1>2. /\ UNCHANGED <<handler, ledger, reported, backup>>
    BY DEF revocationVars
<1>3. LogGrows /\ reported' \subseteq Scopes
    BY <1>2, LedgerFacts, SameLog
<1>4. gates'.restore = gates.restore /\ gates'.watermark = gates.watermark
    BY GatesKept
<1>5. \A s \in Scopes : Done(s) => Gone(inst', link', rules', s) /\ Quiet(outbox', permit', s)
    BY DoneStays
<1>6. QED
    BY <1>1, <1>2, <1>3, <1>4, <1>5, DeletionKept

LEMMA HandlerDone ==
    ASSUME HandlerStep, NEW s \in Scopes, Done(s)
    PROVE  Gone(inst', link', rules', s) /\ Quiet(outbox', permit', s)
<1>1. \A r \in Rows : Hushed(r)
    BY DEF HandlerStep, AllCalm, Calm
<1>2. QED
    BY <1>1, HushQuiet, GoneStays DEF HandlerStep, Done

LEMMA HandlesDeletion ==
    ASSUME Sound, DeletionInv, Handles
    PROVE  DeletionInv'
<1>0. HandlerStep
    BY HandlesStep
<1>1. /\ Shrinks /\ gates' = gates /\ backup' = backup /\ reported' \subseteq Scopes
      /\ gates'.restore = gates.restore /\ gates'.watermark = gates.watermark
    BY <1>0 DEF HandlerStep, RevocationTypeOK
<1>2. \A s \in Scopes : Done(s) => Gone(inst', link', rules', s) /\ Quiet(outbox', permit', s)
    BY <1>0, HandlerDone
<1>3. /\ ledger \in Seq(Scopes) /\ handler \in [Scopes -> HandlerSteps]
      /\ op \in [Scopes -> OpStates]
    BY SoundParts DEF Sound, Typed, RevocationTypeOK, StoreTyped
<1>4. ASSUME NEW s \in Scopes, ledger' = ledger, reported' = reported,
             handler' = [handler EXCEPT ![s] = "checking"],
             op' = op \/ op' = [op EXCEPT ![s] = "draining"]
      PROVE  DeletionInv'
    <2>1. LogGrows
        BY <1>3, <1>4, SameLog
    <2>2. \A t \in Scopes : op'[t] = "committed" => op[t] = "committed"
        BY <1>3, <1>4 DEF OpStates
    <2>3. \A t \in Scopes : handler'[t] = "committing" => handler[t] = "committing"
        BY <1>3, <1>4
    <2>4. QED
        BY <1>1, <1>2, <1>4, <2>1, <2>2, <2>3, DeletionKept
<1>5. CASE \E i \in Installations : StartInstallationDrain(i) \/ RevokeLost(i)
    BY <1>4, <1>5, StartInstallationStep, ScopeFacts
<1>6. CASE \E l \in Links : StartAccountLinkDrain(l)
    BY <1>4, <1>6, StartLinkStep, ScopeFacts
<1>7. ASSUME NEW s \in Scopes,
             (s \in Installations /\ CheckInstallation(s)) \/ (s \in Links /\ CheckLink(s))
      PROVE  DeletionInv'
    <2>1. /\ ledger' = ledger /\ op' = op
          /\ \/ handler' = [handler EXCEPT ![s] = "idle"]
             \/ handler' = [handler EXCEPT ![s] = "appending"]
          /\ reported' = reported \/ (op[s] = "committed" /\ reported' = reported \cup {s})
        BY <1>7, CheckStep
    <2>2. LogGrows
        BY <1>3, <2>1, SameLog
    <2>3. \A t \in Scopes : handler'[t] = "committing" => handler[t] = "committing"
        BY <1>3, <2>1
    <2>4. op[s] = "committed" => /\ Gone(inst', link', rules', s) /\ Quiet(outbox', permit', s)
                                 /\ s \in ToSet(ledger')
        BY <1>2, <2>1 DEF DeletionInv, Logged
    <2>5. \A t \in reported' :
              \/ t \in reported
              \/ /\ Gone(inst', link', rules', t) /\ Quiet(outbox', permit', t)
                 /\ t \in ToSet(ledger')
        BY <2>1, <2>4
    <2>6. QED
        BY <1>1, <1>2, <2>1, <2>2, <2>3, <2>5, DeletionKept
<1>8. ASSUME NEW s \in Scopes, AppendTombstone(s)
      PROVE  DeletionInv'
    <2>1. /\ op' = op /\ reported' = reported /\ LogGrows /\ s \in ToSet(ledger')
          /\ handler' = [handler EXCEPT ![s] = "committing"]
        BY <1>8, AppendStep
    <2>2. \A t \in Scopes :
              handler'[t] = "committing" => handler[t] = "committing" \/ t \in ToSet(ledger')
        BY <1>3, <2>1
    <2>3. QED
        BY <1>1, <1>2, <2>1, <2>2, DeletionKept
<1>9. ASSUME NEW s \in Scopes, CommitDrain(s)
      PROVE  DeletionInv'
    <2>1. /\ ledger' = ledger /\ handler[s] = "committing"
          /\ handler' = [handler EXCEPT ![s] = "idle"]
          /\ \/ op' = op /\ reported' = reported
             \/ op' = op /\ reported' = reported \cup {s} /\ op[s] = "committed"
             \/ /\ reported' = reported \cup {s}
                /\ \A t \in Scopes : t # s => op'[t] = op[t]
                /\ Gone(inst', link', rules', s) /\ Quiet(outbox', permit', s)
        BY <1>9, CommitStep
    <2>2. LogGrows /\ s \in ToSet(ledger')
        BY <1>3, <2>1, SameLog DEF DeletionInv, Logged
    <2>3. \A t \in Scopes : handler'[t] = "committing" => handler[t] = "committing"
        BY <1>3, <2>1
    <2>4. /\ \A t \in Scopes : op'[t] = "committed" =>
                 \/ op[t] = "committed"
                 \/ /\ Gone(inst', link', rules', t) /\ Quiet(outbox', permit', t)
                    /\ t \in ToSet(ledger')
          /\ \A t \in reported' :
                 \/ t \in reported
                 \/ /\ Gone(inst', link', rules', t) /\ Quiet(outbox', permit', t)
                    /\ t \in ToSet(ledger')
        <3>1. CASE op' = op /\ reported' = reported
            BY <3>1
        <3>2. CASE op' = op /\ reported' = reported \cup {s} /\ op[s] = "committed"
            BY <1>2, <2>2, <3>2 DEF DeletionInv
        <3>3. CASE /\ reported' = reported \cup {s}
                   /\ \A t \in Scopes : t # s => op'[t] = op[t]
                   /\ Gone(inst', link', rules', s) /\ Quiet(outbox', permit', s)
            BY <2>2, <3>3
        <3>4. QED
            BY <2>1, <3>1, <3>2, <3>3
    <2>5. QED
        BY <1>1, <1>2, <2>2, <2>3, <2>4, DeletionKept
<1>10. ASSUME NEW s \in Scopes, HandlerFails(s)
       PROVE  DeletionInv'
    <2>1. /\ op' = op /\ reported' = reported /\ ledger' = ledger
          /\ handler' = [handler EXCEPT ![s] = "idle"]
        BY <1>10, HandlerFailsStep
    <2>2. LogGrows
        BY <1>3, <2>1, SameLog
    <2>3. \A t \in Scopes : handler'[t] = "committing" => handler[t] = "committing"
        BY <1>3, <2>1
    <2>4. QED
        BY <1>1, <1>2, <2>1, <2>2, <2>3, DeletionKept
<1>11. QED
    BY <1>5, <1>6, <1>7, <1>8, <1>9, <1>10 DEF Handles

\* A backup holds every deletion up to its watermark.
LEMMA BackupDeletion ==
    ASSUME Sound, DeletionInv, TakeBackup
    PROVE  DeletionInv'
<1>1. /\ ServiceStill /\ UNCHANGED <<handler, ledger, reported>>
      /\ \E n \in Watermarks :
            /\ backup'.inst = inst /\ backup'.link = link /\ backup'.rules = rules
            /\ backup'.op = op /\ backup'.watermark = n
    BY TakeBackupStep
<1>2. PICK n \in Watermarks :
          /\ backup'.inst = inst /\ backup'.link = link /\ backup'.rules = rules
          /\ backup'.op = op /\ backup'.watermark = n
    BY <1>1
<1>3. n \in 0..Len(ledger) /\ \A m \in 1..n : op[ledger[m]] = "committed"
    BY <1>2 DEF Watermarks, Applied
<1>4. backup'.watermark <= Len(ledger')
    BY <1>1, <1>2, <1>3, LedgerFacts
<1>5. \A m \in 1..backup'.watermark : backup'.op[ledger'[m]] = "committed"
    BY <1>1, <1>2, <1>3
<1>6. ASSUME NEW s \in Scopes, backup'.op[s] = "committed"
      PROVE  Gone(backup'.inst, backup'.link, backup'.rules, s) /\ s \in ToSet(ledger')
    BY <1>1, <1>2, <1>6 DEF DeletionInv, Done, Logged
<1>7. QED
    BY <1>1, <1>4, <1>5, <1>6 DEF DeletionInv, Done, Logged, ServiceStill

\* What the backup committed is gone; the rest waits for the replay.
LEMMA RestoreDeletion ==
    ASSUME Sound, DeletionInv, Restore
    PROVE  DeletionInv'
<1>1. /\ inst' = backup.inst /\ link' = backup.link /\ rules' = backup.rules
      /\ op' = backup.op
      /\ \A r \in Rows : permit'[r].deadline = 0
      /\ gates'.restore = "replaying" /\ gates'.watermark = backup.watermark
      /\ UNCHANGED <<handler, ledger, reported, backup>>
    BY RestoreStep
<1>2. \A s : Quiet(outbox', permit', s)
    BY <1>1 DEF Quiet
<1>3. ASSUME NEW s \in Scopes, op'[s] = "committed"
      PROVE  Gone(inst', link', rules', s) /\ Quiet(outbox', permit', s) /\ s \in ToSet(ledger')
    BY <1>1, <1>2, <1>3 DEF DeletionInv, Logged
<1>4. ASSUME NEW n \in 1..gates'.watermark PROVE Gone(inst', link', rules', ledger'[n])
    <2>1. backup.op[ledger[n]] = "committed"
        BY <1>1, <1>4 DEF DeletionInv
    <2>2. ledger[n] \in Scopes
        BY <1>1, <1>4, LedgerFacts DEF DeletionInv
    <2>3. QED
        BY <1>1, <2>1, <2>2 DEF DeletionInv
<1>5. gates'.watermark <= Len(ledger')
    BY <1>1 DEF DeletionInv
<1>6. QED
    BY <1>1, <1>3, <1>4, <1>5 DEF DeletionInv, Done, Logged

\* The replay reaches every reported deletion: it is up to the watermark and was
\* in the backup, or it is among the items.
LEMMA ReplayDeletion ==
    ASSUME Sound, DeletionInv, NothingFlies, ReplayApply
    PROVE  DeletionInv'
<1>1. /\ AllCalm /\ Shrinks /\ gates.restore = "replaying"
      /\ UNCHANGED <<op, handler, ledger, reported, backup>>
      /\ \/ gates' = gates
         \/ /\ gates'.restore = "ready" /\ replay = Len(ledger)
            /\ \A s \in ReplayItems : Gone(inst', link', rules', s)
    BY ReplayApplyStep
<1>2. NothingFlies'
    BY <1>1, HushKept
<1>3. \A s : Quiet(outbox', permit', s)
    BY <1>2 DEF Quiet, NothingFlies
<1>4. \A s \in Scopes : Done(s) => Gone(inst', link', rules', s) /\ Quiet(outbox', permit', s)
    BY <1>1, <1>3, GoneStays DEF Done
<1>5. LogGrows /\ reported' \subseteq Scopes
    BY <1>1, SameLog, LedgerFacts
<1>6. CASE gates' = gates
    <2>1. gates'.restore = gates.restore /\ gates'.watermark = gates.watermark
        BY <1>6
    <2>2. QED
        BY <1>1, <1>4, <1>5, <2>1, DeletionKept
<1>7. CASE /\ gates'.restore = "ready" /\ replay = Len(ledger)
           /\ \A s \in ReplayItems : Gone(inst', link', rules', s)
    <2>1. ASSUME NEW s \in reported PROVE Gone(inst', link', rules', s)
        <3>1. PICK n \in 1..Len(ledger) : s = ledger[n]
            BY LedgerFacts DEF DeletionInv
        <3>2. CASE n <= gates.watermark
            <4>1. Gone(inst, link, rules, ledger[n])
                BY <1>1, <3>2, LedgerFacts DEF DeletionInv
            <4>2. QED
                BY <1>1, <3>1, <4>1, GoneStays
        <3>3. CASE n > gates.watermark
            <4>1. n \in (gates.watermark + 1)..replay
                BY <1>7, <3>3, LedgerFacts
            <4>2. QED
                BY <1>7, <3>1, <4>1 DEF ReplayItems
        <3>4. QED
            BY <3>2, <3>3, LedgerFacts
    <2>2. ASSUME NEW s \in Scopes, op'[s] = "committed"
          PROVE  Gone(inst', link', rules', s) /\ Quiet(outbox', permit', s) /\ s \in ToSet(ledger')
        BY <1>1, <1>4, <2>2 DEF DeletionInv, Logged
    <2>3. QED
        BY <1>1, <1>3, <1>7, <2>1, <2>2 DEF DeletionInv, Done, Logged
<1>8. QED
    BY <1>1, <1>6, <1>7

LEMMA InitDeletion == ASSUME Init PROVE DeletionInv
<1>1. /\ \A s \in Scopes : op[s] = "none" /\ handler[s] = "idle"
      /\ reported = {} /\ gates.restore = "ready" /\ ledger = <<>>
      /\ backup.op = op /\ backup.watermark = 0
    BY DEF Init, StoreInit, WorkersInit, Database
<1>2. QED
    BY <1>1 DEF DeletionInv

LEMMA NextDeletion ==
    ASSUME Sound, Suspended, DeletionInv, [Next]_vars
    PROVE  DeletionInv'
<1>1. CASE DeliveryNext /\ UNCHANGED revocationVars
    BY <1>1, DeliveryDeletion
<1>2. CASE Handles
    BY <1>2, HandlesDeletion
<1>3. CASE TakeBackup
    BY <1>3, BackupDeletion
<1>4. CASE Restore
    BY <1>4, RestoreDeletion
<1>5. CASE ReplayRead
    <2>1. ServiceStill /\ UNCHANGED <<handler, ledger, reported, backup>>
        BY <1>5, ReplayReadStep
    <2>2. QED
        BY <2>1 DEF ServiceStill, DeletionInv, Done, Logged
<1>6. CASE ReplayApply
    BY <1>6, ReplayDeletion DEF ReplayApply, Suspended
<1>7. CASE UNCHANGED vars
    BY <1>7 DEF vars, storeVars, workerVars, revocationVars, DeletionInv, Done, Logged
<1>8. QED
    BY <1>1, <1>2, <1>3, <1>4, <1>5, <1>6, <1>7, DeletionSteps DEF Next, RestoreNext

(* A deletion the API reported is done whenever the service is open, whatever *)
(* crashed, was retried or was restored from an older backup since.           *)
THEOREM DeletionsStay == Spec => []DeletedStaysDeleted
<1>1. Init => Sound /\ Suspended /\ DeletionInv
    BY InitSound, InitDeletion
<1>2. Sound /\ Suspended /\ DeletionInv /\ [Next]_vars => Sound' /\ Suspended' /\ DeletionInv'
    BY NextSound, NextDeletion
<1>3. Sound /\ DeletionInv => DeletedStaysDeleted
    <2> SUFFICES ASSUME Sound, DeletionInv, gates.restore = "ready", NEW s \in reported
                 PROVE  Gone(inst, link, rules, s)
        BY DEF DeletedStaysDeleted, Gone
    <2>1. QED
        BY DEF DeletionInv, Done
<1>4. QED
    BY <1>1, <1>2, <1>3, PTL DEF Spec

---------------------------------------------------------------------------
(* Nothing is sent for a deleted scope. *)

SendsAuthorized ==
    \A r \in Rows : sent'[r] = sent[r] + 1 =>
        \A s \in Scopes : Covers(s, outbox[r].scope) =>
            op[s] # "committed" /\ s \notin reported

LEMMA SendAuthorized ==
    ASSUME Sound, Suspended, DeletionInv, NEW w \in Workers, Send(w)
    PROVE  SendsAuthorized
<1> DEFINE r == Row(w)
<1>1. /\ worker[w].pc = "authorized" /\ r \in Rows
      /\ \/ /\ permit[r].deadline > 0
            /\ sent' = [sent EXCEPT ![r] = sent[r] + 1]
         \/ sent' = sent
    BY SoundParts, SendWorks
<1>2. sent \in [Rows -> Nat]
    BY SoundParts DEF ProviderTyped
<1>3. CASE sent' = sent
    BY <1>2, <1>3 DEF SendsAuthorized
<1>4. CASE permit[r].deadline > 0 /\ sent' = [sent EXCEPT ![r] = sent[r] + 1]
    <2>1. Holds(worker[w], permit[r]) /\ permit[r] \in PermitRow
        BY <1>1, SoundParts, HeldAttempt DEF Holding
    <2>2. permit[r].state = "submission_started" /\ permit[r].deadline # 0
        BY <1>1, <1>4, <2>1 DEF Holds, Before, PermitRow
    <2>3. gates.restore = "ready"
        BY <1>1, LedgerFacts DEF Suspended, Stopped
    <2>4. ASSUME NEW s \in Scopes, Covers(s, outbox[r].scope)
          PROVE  op[s] # "committed" /\ s \notin reported
        <3>1. ~Done(s)
            BY <1>1, <2>2, <2>4 DEF Done, Quiet
        <3>2. QED
            BY <2>3, <3>1 DEF DeletionInv
    <2>5. \A q \in Rows : q # r => sent'[q] = sent[q]
        BY <1>2, <1>4
    <2>6. QED
        BY <1>2, <2>4, <2>5 DEF SendsAuthorized
<1>5. QED
    BY <1>1, <1>3, <1>4

LEMMA NextAuthorized ==
    ASSUME Sound, Suspended, DeletionInv, [Next]_vars
    PROVE  SendsAuthorized
<1>1. sent \in [Rows -> Nat]
    BY SoundParts DEF ProviderTyped
<1>2. CASE sent' = sent
    BY <1>1, <1>2 DEF SendsAuthorized
<1>3. CASE \E w \in Workers : Send(w)
    BY <1>3, SendAuthorized
<1>4. CASE DeliveryNext
    BY <1>2, <1>3, <1>4, DeliveryFrame
<1>5. CASE Handles
    BY <1>2, <1>5, HandlesStep DEF HandlerStep
<1>6. CASE TakeBackup \/ ReplayRead \/ UNCHANGED vars
    BY <1>2, <1>6 DEF TakeBackup, ReplayRead, vars, workerVars
<1>7. CASE Restore \/ ReplayApply
    BY <1>2, <1>7, Zenon DEF Restore, ReplayApply
<1>8. QED
    BY <1>4, <1>5, <1>6, <1>7, DeletionSteps DEF Next, RestoreNext

(* No provider request is made for a scope once its deletion is committed or  *)
(* was reported, although a process may hold a permit, a marker and an        *)
(* authorization it obtained before the drain.                                *)
THEOREM NothingSentAfterRevoke == Spec => NoSendAfterRevoke
<1>1. Init => Sound /\ Suspended /\ DeletionInv
    BY InitSound, InitDeletion
<1>2. Sound /\ Suspended /\ DeletionInv /\ [Next]_vars => Sound' /\ Suspended' /\ DeletionInv'
    BY NextSound, NextDeletion
<1>3. Sound /\ Suspended /\ DeletionInv /\ [Next]_vars => [SendsAuthorized]_vars
    BY NextAuthorized
<1>4. Spec => [][SendsAuthorized]_vars
    BY <1>1, <1>2, <1>3, PTL DEF Spec
<1>5. QED
    BY <1>4, PTL DEF NoSendAfterRevoke, SendsAuthorized

---------------------------------------------------------------------------
=============================================================================
