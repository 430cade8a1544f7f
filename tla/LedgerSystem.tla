---------------------------- MODULE LedgerSystem ----------------------------
(***************************************************************************)
(* The whole ledger: withdrawals and sales over the same accounts.  Money  *)
(* comes in through advances and final settlements (Payouts) and leaves    *)
(* through withdrawals (Withdrawals); both write ledger_entries and        *)
(* user_balances, in one transaction each, and neither looks at the        *)
(* other's tables.  Nobody has anything before the first sale.             *)
(*                                                                         *)
(* The interaction that matters: the advance of a pending sale can be      *)
(* withdrawn before the sale is rejected.  The rejection then takes back   *)
(* money that has left; the clamp of update_balance hides the debt from    *)
(* the cached balance, and reversals and later sales are credited in full. *)
(***************************************************************************)
EXTENDS Accounts, FiniteSetsExt

CONSTANTS
    Wids, Keys, Workers, Amounts, MinAmount, Threshold, ViaApi, None,
    Sales, Admins, Jobs, Earnings, GatewayKeeps,
    BatchSize       \* settings.batch_size, of every job

ASSUME SystemConstants ==
    /\ Users # {}
    /\ Amounts \subseteq Int /\ MinAmount \in Nat \ {0} /\ Threshold \in Nat
    /\ None \notin Wids
    /\ Sales \subseteq Nat /\ IsFiniteSet(Sales)
    /\ Earnings \subseteq Nat \ {0}
    /\ BatchSize \in Nat \ {0}
    /\ ViaApi \in BOOLEAN /\ GatewayKeeps \in BOOLEAN

VARIABLES
    \* of Withdrawals
    status, version, details, bookings, audit, recent, aged, task, batch, seen, item,
    \* of Payouts
    sale, info, advance, final, entries, admin, job, answers, transfers,
    takenBack       \* history: what rejections have taken from each user

NoOpening == [u \in Users |-> 0]

W == INSTANCE Withdrawals WITH Opening <- NoOpening, entries <- bookings

P == INSTANCE Payouts

withdrawalState == <<status, version, details, bookings, audit, recent, aged, task, batch, seen, item>>
payoutState == <<sale, info, advance, final, entries, admin, job, answers, transfers>>
systemVars == <<accounts, withdrawalState, payoutState, takenBack>>

\* This step rejects s.
Rejects(s) == sale[s] = "PENDING" /\ sale'[s] = "REJECTED"

\* What the step adds to the NEGATIVE_ADJUSTMENT entries of u.
TakenFrom(u) ==
    IF \E s \in Sales : Rejects(s) /\ info[s].user = u
    THEN P!AdvanceMade(CHOOSE s \in Sales : Rejects(s))
    ELSE 0

SystemInit ==
    /\ W!Init
    /\ P!PayoutsInit
    /\ takenBack = [u \in Users |-> 0]

SystemNext ==
    \/ W!Next /\ UNCHANGED <<payoutState, takenBack>>
    \/ /\ P!PayoutsNext
       /\ UNCHANGED withdrawalState
       /\ takenBack' = [u \in Users |-> takenBack[u] + TakenFrom(u)]

SystemSpec == SystemInit /\ [][SystemNext]_systemVars

\* A step of this kind is one of the withdrawals.
Withdrawing(action) == action /\ UNCHANGED <<payoutState, takenBack>>

WorkerStep(s) == W!RequestStep(s) \/ W!ChangeStep(s) \/ W!RollBack(s)

\* A request for an amount that is checked against the ledger.
AsksForLarge(s) == \E r \in W!Request : r.amount >= Threshold /\ W!CheckKey(s, r)

\* Whatever might correct a balance happens again and again: both jobs run, and
\* users keep asking for large amounts, not always in vain, so that a drift is
\* detected over and over.
SystemFairness ==
    /\ W!RecoveryFairness
    /\ \A j \in Jobs : WF_systemVars(P!JobStep(j) /\ UNCHANGED <<withdrawalState, takenBack>>)
    /\ \A s \in Workers :
        /\ WF_systemVars(Withdrawing(task[s] # W!Idle /\ WorkerStep(s)))
        /\ SF_systemVars(Withdrawing(AsksForLarge(s)))
        /\ SF_systemVars(Withdrawing(W!CheckCooldown(s)))
        /\ SF_systemVars(Withdrawing(W!CheckBalance(s)))
        /\ SF_systemVars(Withdrawing(W!DriftDetected(s)))

SystemFairSpec == SystemSpec /\ SystemFairness
-----------------------------------------------------------------------------
(* Properties                                                              *)

\* The ledger adds up across components: a user's sum is what the sales have
\* brought less what the live withdrawals hold or have paid out.
SystemBooks == \A u \in Users : ledgerSum[u] = P!Brought(u) - W!HeldFrom(u)

\* While no requests of one user overlap, rejections are the only way into
\* debt: what a user lacks, and what the cache promises too much, is at most what
\* rejections have taken back - although a rejection may come between the balance
\* check of a request and its commit, and a debt once hidden by the clamp lets the
\* user draw later credits again.
ShortfallIsAdvances ==
    \A u \in Users :
        /\ ledgerSum[u] + takenBack[u] >= 0
        /\ available[u] <= ledgerSum[u] + takenBack[u]

\* While no requests of one user overlap, withdrawals never hold or pay
\* out more than has ever been credited: rejecting a sale whose advance is drawn,
\* and hiding the debt, lets a user draw the same money twice but none that was
\* never there.
DrawnWasGranted == \A u \in Users : W!HeldFrom(u) <= P!Granted(u)

\* The withdrawals are an escrow over accounts that the sales fill: take away
\* what the sales have brought, and what is left moves only when a withdrawal
\* is set aside or given back.  A reconciliation between two steps of a
\* withdrawal, or a refused transaction of either, goes unnoticed.
Escrowed ==
    INSTANCE Escrow WITH
        Owners <- Users, Ids <- Wids, Sums <- Amounts, Opening <- NoOpening,
        hold <- [w \in Wids |-> W!HoldOf(w)],
        stake <- [w \in Wids |-> W!StakeOf(w)],
        book <- [u \in Users |-> ledgerSum[u] - P!Brought(u)]

WithdrawalsStayEscrow == Escrowed!Spec

\* The cached balance follows the ledger: whatever the clamp has swallowed, "full
\* reconciliation jobs correct any drift", a drift that check_sufficient_balance
\* detects "triggers recalculation", and so the balance comes to reflect the debt
\* of a rejected advance.
BalanceFollowsLedger == \A u \in Users : []<>(available[u] = Clamp(ledgerSum[u]))
=============================================================================
