-------------------------- MODULE AccountDirectory --------------------------
(***************************************************************************)
(* The saved accounts (apps/mobile/src/features/accounts/                  *)
(* account-directory.ts): one document in AsyncStorage, changed by save,   *)
(* select and remove. Each change computes the next document from the      *)
(* snapshot the app shows, writes it, and shows it when it is written; the *)
(* changes wait for each other in a queue. A write may be refused, and the *)
(* process may be killed between the write and its confirmation.           *)
(***************************************************************************)
EXTENDS Integers, Sequences, FiniteSets

CONSTANTS AccountIds, NoAccount,
          MaxAccounts,          \* MAX_ACCOUNTS
          MaxChanges,           \* bound: changes asked for
          MaxDirectoryFaults    \* bound: refused writes and kills

ASSUME DirectoryAssumption == MaxAccounts \in Nat

VARIABLES
    document,    \* the stored document [accounts, active]
    snapshot,    \* [status, accounts, active], what the app shows
    queue,       \* changes waiting, the first one may be writing
    writing,     \* documents being written, in the order they were begun
    agreed,      \* what the changes that ended well add up to
    changes, directoryFaults

directoryVars == <<document, snapshot, queue, writing, agreed, changes, directoryFaults>>

Empty == [accounts |-> {}, active |-> NoAccount]
Loading == [status |-> "loading", accounts |-> {}, active |-> NoAccount]
Ready(doc) == [status |-> "ready", accounts |-> doc.accounts, active |-> doc.active]
Shown == [accounts |-> snapshot.accounts, active |-> snapshot.active]

DirectoryInit ==
    /\ document = Empty /\ snapshot = Loading /\ agreed = Empty
    /\ queue = <<>> /\ writing = <<>> /\ changes = 0 /\ directoryFaults = 0

(* parseDirectory.                                                          *)
Parses(doc) ==
    /\ Cardinality(doc.accounts) <= MaxAccounts
    /\ doc.active \in doc.accounts \cup {NoAccount}

(* hydrate; it is asked for first, so every change finds it done.           *)
Hydrate ==
    /\ snapshot.status # "ready" /\ Parses(document)
    /\ snapshot' = Ready(document) /\ agreed' = document
    /\ UNCHANGED <<document, queue, writing, changes, directoryFaults>>

Changes == [kind : {"save", "remove"}, id : AccountIds]
             \cup [kind : {"select"}, id : AccountIds \cup {NoAccount}]

Ask(change) ==
    /\ snapshot.status = "ready" /\ changes < MaxChanges
    /\ queue' = Append(queue, change)
    /\ changes' = changes + 1
    /\ UNCHANGED <<document, snapshot, writing, agreed, directoryFaults>>

(* A change that throws, or would change nothing, does not write.           *)
Applies(doc, change) ==
    CASE change.kind = "save" -> Cardinality(doc.accounts \cup {change.id}) <= MaxAccounts
      [] change.kind = "select" -> /\ change.id # doc.active
                                   /\ change.id \in doc.accounts \cup {NoAccount}
      [] OTHER -> change.id \in doc.accounts

Change(doc, change) ==
    CASE change.kind = "save" -> [doc EXCEPT !.accounts = @ \cup {change.id}]
      [] change.kind = "select" -> [doc EXCEPT !.active = change.id]
      [] OTHER -> [accounts |-> doc.accounts \ {change.id},
                   active |-> IF doc.active = change.id THEN NoAccount ELSE doc.active]

\* Faulty variant: a change does not wait for the one before it.
TurnAtOnce == queue # <<>>

(* serialize: the change before it has ended.                               *)
Turn == queue # <<>> /\ writing = <<>>

Begin ==
    /\ Turn
    /\ queue' = Tail(queue)
    /\ writing' = IF Applies(Shown, Head(queue))
                  THEN Append(writing, Change(Shown, Head(queue))) ELSE writing
    /\ agreed' = IF Applies(agreed, Head(queue)) THEN Change(agreed, Head(queue)) ELSE agreed
    /\ UNCHANGED <<document, snapshot, changes, directoryFaults>>

(* commit: written, then shown.                                             *)
Commit ==
    /\ writing # <<>>
    /\ document' = Head(writing)
    /\ snapshot' = Ready(Head(writing))
    /\ writing' = Tail(writing)
    /\ UNCHANGED <<queue, agreed, changes, directoryFaults>>

CommitRefused ==
    /\ writing # <<>> /\ directoryFaults < MaxDirectoryFaults
    /\ directoryFaults' = directoryFaults + 1
    /\ writing' = Tail(writing)
    /\ agreed' = Shown
    /\ UNCHANGED <<document, snapshot, queue, changes>>

(* The process is killed; a write under way may have reached the storage.   *)
Restarted(reached) ==
    /\ directoryFaults < MaxDirectoryFaults
    /\ directoryFaults' = directoryFaults + 1
    /\ document' = IF reached /\ writing # <<>> THEN Head(writing) ELSE document
    /\ snapshot' = Loading /\ queue' = <<>> /\ writing' = <<>>
    /\ agreed' = document'
    /\ UNCHANGED changes

DirectoryNext ==
    \/ Hydrate \/ Begin \/ Commit \/ CommitRefused
    \/ \E change \in Changes : Ask(change)
    \/ \E reached \in BOOLEAN : Restarted(reached)

DirectorySpec == DirectoryInit /\ [][DirectoryNext]_directoryVars

-----------------------------------------------------------------------------
(* No change is lost or undone by another: once every change has ended, what is
   shown is what is stored, and both are what the changes add up to in the order
   they were asked for; what is stored can be read again after a kill.        *)
NoLostChange ==
    /\ Parses(document)
    /\ (snapshot.status = "ready" /\ queue = <<>> /\ writing = <<>>)
         => Shown = document /\ Shown = agreed

=============================================================================
