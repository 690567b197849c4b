----------------------------- MODULE ActionLife -----------------------------
(***************************************************************************)
(* What the journal promises of an action, without rows, leases, permits,  *)
(* clocks, processes or screens: it is reserved once, under a nonce above  *)
(* all its signer used and never beside an equivalent one that is open; it *)
(* is sent at most once, and not before it counts as submitted; it is      *)
(* given up only while it cannot have been sent, and settled once.         *)
(*                                                                         *)
(* ActionJournal and ActionFlow implement this specification (Contract).   *)
(***************************************************************************)
EXTENDS Integers

CONSTANTS Actions

VARIABLES
    life,       \* where each action stands
    request,    \* what was reserved for it: signer, account, intent, nonce
    sent        \* requests that went out for it

lifeVars == <<life, request, sent>>

Outcome == {"accepted", "rejected", "expired", "reconciled_ambiguous"}

Open(a) == life[a] \in {"reserved", "submitted"}

\* The new request's nonce is above those of its signer's earlier actions.
NonceIsNew(a) ==
    \A b \in Actions : life[b] # "none" /\ request[b].signer = request'[a].signer
                          => request[b].nonce < request'[a].nonce

\* No open action of the account has the intent of the new one.
NoneEquivalent(a) ==
    \A b \in Actions : Open(b) => \/ request[b].account # request'[a].account
                                  \/ request[b].intent # request'[a].intent

Reserve(a) ==
    /\ life[a] = "none"
    /\ life' = [life EXCEPT ![a] = "reserved"]
    /\ request' = [request EXCEPT ![a] = request'[a]]
    /\ NonceIsNew(a) /\ NoneEquivalent(a)
    /\ UNCHANGED sent

\* The one request goes out, at once when the action is submitted or later,
\* perhaps after it was settled by others.
Goes(a) == sent[a] = 0 /\ sent' = [sent EXCEPT ![a] = 1]

Submit(a) ==
    /\ life[a] = "reserved"
    /\ life' = [life EXCEPT ![a] = "submitted"]
    /\ Goes(a) \/ UNCHANGED sent
    /\ UNCHANGED request

Send(a) ==
    /\ life[a] \in Outcome \cup {"submitted"}
    /\ Goes(a)
    /\ UNCHANGED <<life, request>>

Settle(a) ==
    /\ life[a] = "submitted"
    /\ \E outcome \in Outcome : life' = [life EXCEPT ![a] = outcome]
    /\ UNCHANGED <<request, sent>>

\* A failure gives up one action, a restart all that were not submitted.
GiveUp ==
    /\ \E some \in SUBSET {a \in Actions : life[a] = "reserved"} :
          life' = [a \in Actions |-> IF a \in some THEN "abandoned" ELSE life[a]]
    /\ UNCHANGED <<request, sent>>

Init ==
    /\ life = [a \in Actions |-> "none"]
    /\ sent = [a \in Actions |-> 0]

Next ==
    \/ \E a \in Actions : Reserve(a) \/ Submit(a) \/ Send(a) \/ Settle(a)
    \/ GiveUp

Spec == Init /\ [][Next]_lifeVars

=============================================================================
