------------------------------ MODULE Accounts ------------------------------
(***************************************************************************)
(* A user's money as the repositories keep it: the append-only ledger,     *)
(* which is the source of truth, and user_balances, a cached copy of its   *)
(* sum that never goes below zero.  Amounts are whole hundredths.          *)
(*                                                                         *)
(* ledgerSum[u] is SUM(amount) over u's ledger entries, kept as a running  *)
(* total because entries are only ever added; a user without entries has   *)
(* 0.  available[u] is available_balance; a user without a balance row     *)
(* counts as 0, which is what update_balance and get_or_create make of it. *)
(***************************************************************************)
EXTENDS Integers

CONSTANT Users

VARIABLES
    ledgerSum,      \* LedgerRepository.get_user_balance(u)
    available       \* UserBalance.available_balance

accounts == <<ledgerSum, available>>

AccountsTypeOK ==
    /\ ledgerSum \in [Users -> Int]
    /\ available \in [Users -> Nat]

\* Mutant: the cached balance may go negative.
Unclamped(n) == n

\* max(0, n): the "safety net" of update_balance.
Clamp(n) == IF n < 0 THEN 0 ELSE n

\* LedgerRepository.create_entry: one more immutable entry.
CreateEntry(u, amount) == ledgerSum' = [ledgerSum EXCEPT ![u] = @ + amount]

\* BalanceRepository.update_balance: a relative update, clamped at zero.
UpdateBalance(u, delta) == available' = [available EXCEPT ![u] = Clamp(@ + delta)]

\* Mutant: a service forgets update_balance.
EntryOnly(u, amount) == CreateEntry(u, amount) /\ UNCHANGED available

\* The pair every service writes in one transaction.
RecordMovement(u, amount) ==
    /\ CreateEntry(u, amount)
    /\ UpdateBalance(u, amount)

\* BalanceService.get_balance compares the two; this is "is_synced".
Synced(u) == available[u] = ledgerSum[u]

\* The cache never promises less than the ledger holds: the clamp can only
\* round up.  Everything the cache shows above the ledger is money the user
\* could draw although the ledger does not have it.
CacheNeverBelowLedger == \A u \in Users : available[u] >= ledgerSum[u]

\* The ledger never goes negative: nobody draws more than was credited.
NoOverspend == \A u \in Users : ledgerSum[u] >= 0

\* Cache and ledger can only part in a step that overdraws the ledger (the
\* clamp of update_balance swallows the missing part); no other movement, in
\* whatever order the transactions commit, makes them disagree.
DriftStartsWithOverdraft ==
    [][\A u \in Users : Synced(u) /\ ~Synced(u)' => ledgerSum'[u] < 0]_accounts
=============================================================================
