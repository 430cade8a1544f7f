# Verification of the payout and withdrawal ledger

TLA+ modules that model the money-moving parts of the application under
`src/app`, TLC configurations that check them, and TLAPS proofs of the
properties that matter most.  Paths below are relative to `src/`.

## The system

A FastAPI server, its thread pool and an in-process scheduler share one SQLite
database.  Affiliates record sales; a job advances a tenth of the earnings of a
pending sale; administrators approve or reject the sale; affiliates withdraw
what they have.  Every movement is an immutable ledger entry and a relative
update of a cached balance.

| Component | State | Operations | Talks to |
|---|---|---|---|
| State machines (`core/state_machines.py`) | none | `can_transition`, `validate_transition` | used by every service |
| Ledger and balance (`ledger_repo`, `balance_repo`, `balance_service`) | `ledger_entries`, `user_balances` | create entry, update (clamped at 0), check, recalculate | written by all services, inside their transaction |
| Withdrawals (`withdrawal_service`) | `withdrawals` | request, process, complete, fail, reject, cancel | HTTP handlers, recovery job, ledger |
| Recovery job (`jobs.recover_stuck_withdrawals`) | its session's snapshot of a batch | fail rows PROCESSING for an hour | withdrawals |
| Sales and reconciliation (`sale_service`, `reconciliation_service`) | `sales`, FINAL payouts | create, approve, reject | reads the advance payout; ledger |
| Advance job (`jobs.process_advance_payouts`, `payout_service`) | `payouts`, page, offset | create advance, send, complete, fail | sales, ledger, gateway |
| Settlement job (`jobs.process_settlements`) | none | raises `NameError` | nothing |
| Payment gateway (`infra/payment`) | keys it has answered | `send_payout` | called by the advance job |
| Idempotency middleware (`main.py`) | `idempotency_keys` | claim, replay, conflict, store | wraps every write endpoint |
| Unit of work, base repository | session | versioned UPDATE, commit, rollback | all services |
| Audit log | `audit_logs` | append | all services |
| Users, brands, authentication, health, schemas, migrations | rows | create, read | not modelled |

What is hard here, and what makes each component correct:

* **Reads before the write transaction.**  On SQLite a `SELECT` opens no
  transaction and `FOR UPDATE` is ignored (`db/repositories/base.py:44-57`), so
  whatever a service checks may be stale when it writes.  Guarded by the
  `version` column (status changes), by UNIQUE indexes (keys, advances), or by
  nothing (balance and cooldown checks).
* **The recovery job's snapshot.**  Its session keeps rows it read at the start
  of the batch until the first commit or rollback expires them.
* **The clamp.**  `update_balance` never refuses; it rounds a negative balance
  up to zero, after which cache and ledger disagree.
* **Money that is already gone.**  The advance of a pending sale can be withdrawn
  before the sale is rejected; the rejection then takes it from nothing, or from
  what another request has just been promised.
* **Failures between two steps.**  A process may die, and "database is locked"
  may strike, between any two queries, between the gateway's answer and the
  commit, and between an endpoint's commit and the storing of its response.
* **Paging over a shrinking result**, with an offset that grows.

Correct means: a withdrawal takes its money once and returns it once if and
only if it fails, is rejected or cancelled; the ledger equals what was earned
less what is held or paid; the audit trail explains each status; an advance is
credited once; a reconciled sale has brought its user the earnings or nothing;
a payout's status is what happened at the gateway; a retried request runs once
and all its answers agree; and what is pending gets done.

## Modules

| Module | Models | Checked by |
|---|---|---|
| `StateMachines` | the three transition tables | (extended by the others) |
| `Accounts` | ledger sum, cached balance, the clamp | (extended by the others) |
| `Withdrawals` | withdrawal service, its HTTP handlers, recovery job | `MCWithdrawals` + 3 cfg files |
| `Escrow` | abstract: money is set aside, then paid or returned, once | refinement in runs `withdrawals` and `system` |
| `WithdrawalsProofs`, `RaceProofs`, `BalanceProofs` | theorems about `Withdrawals`: in general, about what only overlapping requests can do, and about the sum of its rows | tlapm |
| `SumProofs` | lemmas about sums over finite sets of rows | tlapm |
| `Payouts` | sales, reconciliation, advance job, gateway | `MCPayouts` + 5 cfg files |
| `Disbursement` | abstract: an advance is credited, decided by the gateway, reported, each once | refinement in run `payouts` |
| `PayoutsProofs`, `DisbursementProofs` | theorems about `Payouts`, and that it implements `Disbursement` | tlapm |
| `Idempotency` | the middleware around an endpoint | `MCIdempotency` + 2 cfg files |
| `IdempotencyProofs` | theorems about `Idempotency` | tlapm |
| `LedgerSystem` | `Withdrawals` and `Payouts` over the same accounts | `MCLedgerSystem` + 2 cfg files |
| `LedgerSystemProofs` | theorems about the composition | tlapm |

`Withdrawals` and `Payouts` both extend `Accounts`, the state they share, and
`StateMachines`; `LedgerSystem` instantiates both over one `Accounts`.  Operators marked "Mutant" are plausible bugs of the code
(a dropped guard, a missing index, a forgotten update); no action uses them.
`PROJECT.json` names, for each property, the mutant that breaks it.

### How the models correspond to the code

*Atomicity.*  Each read of a handler is a step of its own; from its first write
to its commit a handler is the only writer of the database, so the writes are
one step.  Any error before the commit rolls everything back and is one step
(`RollBack`, `ReconcileFails`, `SkipSale`, `SkipPayout`, `RecoveryRollBack`):
these stand for domain errors, version mismatches, UNIQUE violations, lock
timeouts and suspended users alike.  `Crash`, `AbortRun` and `ProcessDies` lose
all sessions and keep all committed rows.

*`Accounts`.*  `ledgerSum` is the SUM query of `get_user_balance`, kept as a
running total because entries are only added.  Amounts are whole hundredths.
The schema does not insist on that (`api/v1/schemas.py:111` bounds an amount but
not its decimals), and SQLite keeps a `Numeric(12, 2)` as an unrounded float and
reads it back with two decimals: 100.006 is debited as such and given back as
100.01 (`withdrawal_service.py:280-295`).  Whatever is said below about sums
holds for whole hundredths only.

*`Withdrawals`.*  A request is `CheckKey`, `CheckCooldown`, `CheckBalance`
(and for large amounts `CheckLedger`), `CommitRequest`; a refused ledger check
is `DriftDetected`, whose recalculation the caller's error rolls back.  A status
change is `Load` (read and `validate_transition`), then one of
`ProcessWithdrawal`, ..., `CancelWithdrawal`, all through `UpdateStatus`, the
versioned UPDATE of `BaseRepository.update`, which also records the audit line
with the old status that the service function has hard-coded.  The job is
`RecoveryFetch`, `RecoveryVisit`, `RecoveryFail`; `seen` is what its session
holds.  Of the clock two flags remain: `recent` (inside the 24-hour cooldown)
and `aged` (PROCESSING for an hour).  The middleware lets each key through
once, so over HTTP a repeated key does not reach `request_withdrawal`; the
module models the service below it, which must not rely on that (its tests call
it directly).  `ViaApi` says whether an administrator's action passes the
pattern of the `WithdrawalAction` schema (`api/v1/schemas.py:127`).  The safety
runs leave it out: `HandlerTargets` holds every branch of the handler, also
those only a direct caller of the service reaches (as `tests/test_services.py:212`
does), so what holds there holds for the API, whose steps are some of them.  The
runs `never_processed` and `double_spend` show what the program's own API does
and use `SchemaTargets`, the code.

*`Payouts`.*  A sale is its rank by `created_at`; creation may commit out of
that order.  A sale's and a payout's version change exactly when the status
leaves PENDING, so the versioned UPDATE succeeds exactly while it is PENDING.
`Jobs` are the server processes, each with its own scheduler.  The gateway is a
parameter: `GatewayKeeps = TRUE` is the contract of `PaymentGateway.send_payout`
(`infra/payment/base.py:63-65`: a known key gets the same answer and no second
payment); `FALSE` is what `create_gateway` builds, a mock whose memory lasts for
one run.  The safety run assumes the contract, and the run `double_payment`
shows what happens without it.

*`LedgerSystem`.*  One application mounts all routers and starts all jobs
(`main.py`); every step is a step of one component and leaves the other's tables
alone, and both write `ledger_entries` and `user_balances`.  Nobody has anything
before the first sale (`NoOpening`).  `takenBack` is a history variable: the
NEGATIVE_ADJUSTMENT amounts of each user so far.  `WithdrawalsStayEscrow` maps
the abstract book to the ledger less what the sales have brought, so that every
step of a sale must be a stutter of the escrow.

*`Escrow` and `Disbursement`* are what the components promise, without workers,
versions, sessions, pages or keys.  For `Disbursement` the stage of an advance
is its payout's status, the amount owed is what the ledger has booked for it,
the verdict is the answer some client of the gateway has, and `moved` counts the
transfers.  Crediting maps to `Grant`, a first call of the gateway to `Pay` or
`Refuse`, the commit of the answer to `Report`; everything else stutters.

*`Idempotency`.*  The endpoint is one transaction that commits (2xx), refuses
(4xx) or fails (5xx); a response is its class.

## Runs

| Run | Shows | Bounds |
|---|---|---|
| `withdrawals` | all safety properties of `Withdrawals`, the refinement of `Escrow`, `StuckIsSettled`, and that only overlapping requests lead into an overdraft (`OverdraftNeedsRace`) | 1 user, 2 withdrawals, 2 keys, 2 workers, job with batches of two, amounts 0 and 2 of an opening 3; 235 000 states |
| `double_spend` (violation) | `SecondRequestIsStopped` fails: of two overlapping requests neither the cooldown nor the balance check stops the second, even above the ledger-check threshold | 2 workers |
| `never_processed` (violation) | `PendingIsTakenUp` fails: administrators who try everything the API accepts never take a withdrawal up | 1 worker, 2 withdrawals; 117 states |
| `payouts` | all safety properties of `Payouts` and the refinement of `Disbursement` | 2 users, 2 sales, 2 administrators, 2 processes, pages of one; 657 000 states |
| `payouts_live` | `AdvanceComes` | 2 sales, 1 process, pages of one |
| `late_advance` (violation) | a sale reconciled while on a page keeps an advance too much | 1 sale |
| `double_payment` (violation) | a lost answer is paid again | mock gateway |
| `stranded_payout` (violation) | a PENDING payout is not sent by later runs unless a new sale comes | 2 sales, 1 process |
| `system` | `SystemBooks`, `ShortfallIsAdvances`, `DrawnWasGranted`, and the refinement of `Escrow` over accounts that sales fill (`WithdrawalsStayEscrow`) | 1 user, 1 worker, 2 withdrawals, 1 sale, 1 administrator, both jobs; 405 000 states |
| `debt_forgotten` (violation) | `BalanceFollowsLedger` fails: a rejected advance that was drawn is offered again, and stays offered although the drift is detected over and over | 1 user, 1 withdrawal, 2 keys, 1 sale; 36 000 states |
| `idempotency` | at most one execution, agreeing answers, final responses | 2 keys, 3 threads |
| `stuck_key` (violation) | a claim whose request failed blocks its key for ever | 1 key, 2 threads |

*Why the bounds are enough to be interesting.*  Every race in this code is
between two actors over one row, or one user's balance: two workers plus the
job give three writers for a row, and two withdrawals of one user give the
overdraft and the clamp.  Users only meet in sums over rows, which the run
`payouts` checks with two of them; the proofs cover any number.  Version
numbers and audit lines need no cap because a row passes at most three statuses.
Amount 0 exercises the minimum.  With amount 2 of
an opening 3 a second debit leaves less than nothing and meets the clamp, which
then rounds up by one.  Different amounts, and both sides of `Threshold`, meet in
`system` (amounts 1 and 2); there one worker serves all requests, so no two
overlap, and its properties say so.  In `LedgerSystem` one sale of 20
gives an advance of 2, which one or two withdrawals can draw before the sale is
rejected; a second withdrawal is what meets the forgotten debt.  In `Payouts` two sales
and pages of one make the offset jump; 25 hundredths give an advance that rounds
a half.  In `Idempotency` a third thread retries while one works and another
replays.  Nothing in a passing run is unbounded.  `double_payment` is, and ends
at its counterexample.  Users, ids, keys and threads are interchangeable, so
`payouts`, `system` and `idempotency` use symmetry; runs with a liveness property
do not.  Deadlock is not checked
where the system really stops: when all ids are used up and settled.

*Fairness.*  The scheduler starts the recovery job every five minutes and the
advance job every minute, one instance at a time (`scheduler.py:45-69`), hence
weak fairness of starting and going on.  Rollbacks and crashes may undo any one
attempt, so each step that does the work is strongly fair: not every attempt
fails.  `RecoveryFairness` asks this of the job as a whole, never of one row:
that no row is passed over for ever is a consequence.
`AdminFairness`, used by `never_processed`
only, adds requests that end and administrators who keep trying every action the
API has on every withdrawal, not always in vain; the property fails although
they do.  `SystemFairness`, used by `debt_forgotten` only, has both jobs run,
requests end, and users who keep asking for amounts large enough for the ledger
check, whose drift is then detected again and again.
`SendFairness` adds to the advance job's fairness that not all calls of the
gateway, nor all commits of its answers, fail; `stranded_payout` fails in spite of it,
because no run comes to the call.  `IdempotencyFairSpec` assumes threads that finish and clients that keep
retrying; that `KeyGetsResponse` still fails is the point of `stuck_key`.

## Where code and documentation disagree

The seven violation runs, each claim quoted in `PROJECT.json`:

* `double_spend`: two overlapping requests draw the same money despite the
  comment at `withdrawal_service.py:127`, and both pass the 24-hour cooldown of
  its docstring (line 66);
* `never_processed`: "process" is refused by the schema (`api/v1/schemas.py:127`)
  although its handler documents it (`api/v1/admin.py:118`), so over HTTP no
  withdrawal leaves PENDING except by cancellation;
* `late_advance`: an advance for a sale that is no longer pending;
* `double_payment`: payouts paid twice by a gateway that forgets its keys;
* `stranded_payout`: a payout whose run died before the gateway call is not
  retried "on the next run" (`docs/edge_cases.md:105`), because `jobs.py:76`
  makes the call depend on the run having created an advance;
* `debt_forgotten`: the clamp forgets the debt of a rejected advance that
  `reconciliation_service.py:203-207` says the balance reflects, and nothing
  corrects the drift: the recalculation that `balance_service.py:93` triggers is
  rolled back with its caller, and the periodic jobs of `balance_service.py:13`
  and `:53` do not exist;
* `stuck_key`: a claimed key without a response.

One more needs no model checker: `process_settlements` uses `PayoutType`, which
is not imported there (`jobs.py:233`), so each run ends in `NameError` before its
first query, although its docstring (`jobs.py:210-211`) has it send the
settlements.

Noted while modelling, without a run of their own:
`jobs.py:31-32` says the paging "loops until all pending sales are processed",
but rows are jumped over (a later run meets them: `AdvanceComes`);
`payout_service.py:161-163` expects failed advances to be attempted again, but
the FAILED row blocks that and its credit stays; `docs/edge_cases.md:72` says
processing re-checks the balance, and line 52 that version mismatches are
retried: neither is in the code; 4xx responses are kept for ever.

## Proofs

`WithdrawalsProofs` proves, for any finite or infinite sets of users,
withdrawals, keys and workers, any integer amounts and any limits
(`ConstantsAssumption`):

* `Inductive`: `Spec => []IInv`.  `SettledExactlyOnce` is not inductive alone: a
  reversal is right only because the row has not been reversed before, which the
  handler knows from a status it read earlier.  `SnapshotsHold` closes the gap:
  *whenever the version held is the current one, the validated transition is
  still legal*.  It is inductive because every status change increments the
  version (`UpdateStatus`).  `RowsSound` adds that existing rows have versions
  and details.  `ChangeSafe` proves all six status changes at once, `QuietSafe`
  all steps that leave the tables alone.
* `TypeCorrect`, `VersionsVouch`, `MoneySettled`, `CacheIsUpperBound` follow.
* `StatusStepsLegal` and `DriftNeedsOverdraft` (action properties) rest on
  `StepShape`: each step of `Next` is a commit of a request, a legal status
  change, or quiet.
* `KeysUnique` needs only the UNIQUE index; `AuditTrailTrue` is its own
  induction over steps with `AppendReplays`.
* `EscrowImplemented`: initial states map to initial states of `Escrow`, a
  commit to `SetAside`, a status change to `PayOut`, `GiveBack` or a stutter.

`BalanceProofs` proves `LedgerBalanced`, that is `LedgerBalancesBooks`, from
`SumProofs`.  The conserved quantity is `ledgerSum[u] + HeldFrom(u)`: a commit
takes from the ledger what its new row holds (`CommitHolds`), a status change
gives back what its row releases (`ChangeReleases`), and `HeldMoves` lifts the
one changed row to the sum.  Since `Wids` may be infinite the invariant also
says that finitely many rows exist (`FiniteRows`).

`SumProofs` is about `SumFunctionOnSet`, the fold of the community modules that
stands for the SUM queries.  The library's induction theorems for finite sets
take an operator as parameter, which the provers cannot instantiate.
`SubsetInduction` does without: the property is given as the *set* F of the
subsets that have it, and a smallest subset outside F exists because the strict
subset order on finite sets is well-founded.  From it follow the recursion
equation of the fold (`SumStep`), that any element may be taken first
(`SumTakes`), that sums of columns add up (`SumAdds`), and what one changed row
does to a sum (`SumMoves`).

`RaceProofs` is about what the reads before the write transaction can cost, for
any number of workers.  `Apart` says of a state that no two requests of one user
are past their checks at once.

* `OverdraftIsRace`: `OverdraftNeedsRace`.  As long as requests have been apart,
  administrators, the recovery job, rollbacks and restarts in every order lead no
  user into debt.  The invariant `Covered`: cache and ledger agree, and a request
  past the balance check is still covered by the cache, because only another
  request of the user could draw from it, and there is none (`DrawsAlone`;
  `MoneyMoves`: a step draws what a request was promised, gives something back,
  or moves no money).
* `CooldownIsRace`: likewise for the cooldown, `CooldownNeedsRace`.  The
  invariant `StillCooled`: a request past the cooldown check still finds no live
  row of its user, because only a request inserts one and no reversed row comes
  back to life.

Both need `Apart` only of the states before a step, so the theorems say: the step
that breaks the promise is taken from a history with an overlap.  The run
`double_spend` shows the overlap and both promises broken.  `CooldownNeedsRace` is
in no run: with the amounts that `withdrawals` can afford the money runs out
before a second withdrawal could break it, so checking it there would show
nothing.

`IdempotencyProofs` proves `ClaimsInvariant` and from it `MiddlewareTyped`, `AtMostOnce`,
`AnswersTrue` and `ResponseKept`, for any keys and threads.  The invariant says
that at most one thread serves a key and how the row, the number of executions
and the answers given relate at each stage (`KeySound`, `ThreadSound`).

`PayoutsProofs` proves, for any users, sales, administrators, jobs, earnings and
batch size (`PayoutConstants`):

* `PayoutsTypeCorrect`, `AdvanceOnce`, `ExcessBounded`, `ReconciledExactly`, all
  from the invariant `Books`.  `ExcessIsOneAdvance` says nothing of where the
  excess comes from; `SaleSound` does: what a sale has booked for its advance is
  what its payout says, and an approved or rejected sale has deducted either
  that advance or none (the advance came later).  `JobSound`
  adds that a page only holds sales that exist, so an advance always has
  earnings to be computed from (`AdvanceBounds`: it is less than they are).
* `BooksBalance`: `BooksAgree`.  The conserved quantity is
  `ledgerSum[u] - Brought(u)`: each entry is written with its movement, in one
  transaction.  It needs that the entries of a sale are added to, never changed
  or moved to another user, which `Books` provides.  Cache and ledger stay equal
  because no sale's entries sum below zero (`BroughtNat`), so the clamp never acts.
* `PayoutTrue`: `PayoutTellsTruth` under the contract `GatewayKeeps`, from
  `Truth`: all clients know the same answer for a sale, that answer is how often
  the money moved, and it is the answer a job still has to write down.  The last
  part is what makes a settlement after another process's call, or after a
  crash, come out right.

`DisbursementProofs` proves `DisbursementImplemented` from `Books` and `Truth`,
under `GatewayKeeps`: a call with a known key is a stutter because all clients
know the same answer, and the commit of an answer is a `Report` because the
answer the job holds is the gateway's verdict.

`LedgerSystemProofs` reuses all of this for the composition.  It
instantiates the components' proof modules; `SameWithdrawals` and `SamePayouts`
identify their actions with those of `LedgerSystem`, and `ComponentConstants`
derives their assumptions from `SystemConstants`.

* `ComponentsKeep`: the invariants of both components hold together.  Each
  component's own step keeps its invariant by the component's lemma; a step of
  the other one leaves its tables alone and moves the accounts by a movement,
  which keeps their types and the cache above the ledger.
* `NothingRepairsDrift`: by `SystemMoves` every step moves ledger and cache by
  the same amount up to the clamp, or not at all, so the gap between them never
  narrows.  This is no promise of the code; it is why `BalanceFollowsLedger`
  fails, for every value of the constants.
* `DebtIsAdvances`, while no two requests of one user overlap (`Apart`).  The
  invariant `Backed`: what the ledger
  holds plus what rejections have taken covers the cache and every promise of
  the balance check.  A rejection between check and commit takes from the ledger
  what it adds to `takenBack`, so the promise stays covered by the sum, not by
  the money.
* `SystemBalanced`: `SystemBooks`, from both conserved quantities: either
  component keeps its own and cannot see the other's rows.
* `EscrowInSystem` and `DisbursementInSystem`: both refinements survive the
  composition, the second under `GatewayKeeps`.  For the escrow the abstract
  book is the ledger less what the sales have brought; a step of a sale moves
  both alike and is a stutter (`PayoutsUnnoticed`).
* `RecordsKept`, `StepsKept`, `DriftNeedsDebt`, `CooldownInSystem`: the remaining
  safety and action properties of the components hold in the system too, the
  last one again about overlapping requests.
* `DrawnIsGranted`, under `Apart`: `DrawnWasGranted`.  The history `takenBack`
  is exactly the sum of the adjustment entries (`Taken`, by `AdjustmentShape`
  and `SumMoves`), so `SystemBooks` and `ShortfallIsAdvances` together bound what
  a user has drawn by all advances and settlements ever credited.

With these, every safety invariant, action property and refinement that a passing
run checks is stated by a theorem.  `Apart` and `GatewayKeeps` are the only
hypotheses besides the constants' assumptions; the violation runs `double_spend`
and `double_payment` show what happens without them.

Only model-checked: the liveness properties `StuckIsSettled` and
`AdvanceComes`.  Their fairness conditions contain ENABLED,
which the installed provers do not reason about.

## Not modelled

The PostgreSQL engine, where `FOR UPDATE` really locks; users, brands and
authentication; serialisation, health, configuration and migrations; audit
lines of sales and payouts; ledger idempotency keys (derived from request keys,
which the middleware makes unique); the recovery job's gateway branch, which no
row can reach because `gateway_reference` is only set together with COMPLETED;
`process_pending_payouts_batch` and `claim_and_store`, which have no callers.

## State of the plan

Done: `Withdrawals`, `Payouts` and `Idempotency` with their proofs, the ledger
sums included; both refinements, alone and in the composition of withdrawals and
sales.

Left:

1. `Idempotency` composed with a withdrawal request: one key, one debit, from
   the client's point of view.  Each half is proved (`AtMostOnce`, `KeysUnique`);
   the composition would say what a client may conclude from a 409 or a 5xx.
2. The PostgreSQL engine: the same actions with reads inside the transaction and
   row locks held to its end.
