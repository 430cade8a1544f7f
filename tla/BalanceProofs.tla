---------------------------- MODULE BalanceProofs ----------------------------
(***************************************************************************)
(* The ledger of Withdrawals adds up: what it has lost since the opening   *)
(* is what the live withdrawals hold back.  The amount of every single row *)
(* moves together with the ledger; SumProofs makes that a fact about the   *)
(* sum over all rows.                                                      *)
(***************************************************************************)
EXTENDS RaceProofs, SumProofs

\* Only finitely many rows have been inserted, whatever Wids is.
FiniteRows == IsFiniteSet({w \in Wids : Exists(w)})

\* A row holds an integer.
LEMMA HeldInt ==
    (ConstantsAssumption /\ IInv) => \A w \in Wids : Exists(w) => Held(w) \in Int
<1> SUFFICES ASSUME ConstantsAssumption, IInv, NEW w \in Wids, Exists(w) PROVE Held(w) \in Int
  OBVIOUS
<1>1. details[w] \in Request
  BY DEF IInv, RowsSound
<1>2. details[w].amount \in Int
  BY <1>1 DEF Request, ConstantsAssumption
<1> QED BY <1>2 DEF Held

\* What a request takes from the ledger its new row holds.
LEMMA CommitHolds ==
    ASSUME ConstantsAssumption, IInv, NEW s \in Workers, NEW w \in Wids, CommitRequest(s, w)
    PROVE  \E v \in Users, amount \in Int :
            /\ ~Exists(w) /\ Exists(w)'
            /\ details'[w].user = v /\ Held(w)' = amount
            /\ \A x \in Wids \ {w} :
                /\ Exists(x)' = Exists(x) /\ Held(x)' = Held(x) /\ details'[x] = details[x]
            /\ \A u \in Users : ledgerSum'[u] = ledgerSum[u] - (IF u = v THEN amount ELSE 0)
<1> DEFINE r == task[s].request
<1>1. /\ ~Exists(w)
      /\ status' = [status EXCEPT ![w] = "PENDING"]
      /\ details' = [details EXCEPT ![w] = r]
      /\ ledgerSum' = [ledgerSum EXCEPT ![r.user] = @ + (-r.amount)]
  BY DEF CommitRequest, RecordMovement, CreateEntry
<1>2. r \in Request
  BY RequestTaskStep DEF CommitRequest, IInv, TypeOK, TaskTypeOK
<1>3. r.user \in Users /\ r.amount \in Int
  BY <1>2 DEF Request, ConstantsAssumption
<1>4. /\ status \in [Wids -> WithdrawalStatuses \cup {"NONE"}]
      /\ details \in [Wids -> Details \cup {None}]
      /\ ledgerSum \in [Users -> Int]
  BY DEF IInv, TypeOK, AccountsTypeOK
<1> HIDE DEF r
<1>5. status'[w] = "PENDING" /\ details'[w] = r
  BY <1>1, <1>4
<1>6. \A x \in Wids \ {w} : status'[x] = status[x] /\ details'[x] = details[x]
  BY <1>1, <1>4
<1>7. \A x \in Wids \ {w} :
        Exists(x)' = Exists(x) /\ Held(x)' = Held(x) /\ details'[x] = details[x]
  BY <1>6 DEF Exists, Held
<1>8. Exists(w)' /\ details'[w].user = r.user /\ Held(w)' = r.amount
  BY <1>5 DEF Exists, Held, Live, Reversed, WithdrawalStatuses
<1>9. \A u \in Users : ledgerSum'[u] = ledgerSum[u] - (IF u = r.user THEN r.amount ELSE 0)
  BY <1>1, <1>3, <1>4
<1> QED BY <1>1, <1>3, <1>7, <1>8, <1>9

\* What a change gives back its row no longer holds.
LEMMA ChangeReleases ==
    ASSUME ConstantsAssumption, IInv, NEW w \in Wids, NEW new \in WithdrawalStatuses,
           LegalChange(w, new)
    PROVE  /\ details' = details /\ Exists(w) /\ details[w].user \in Users
           /\ \A x \in Wids : Exists(x)' = Exists(x)
           /\ \A x \in Wids \ {w} : Held(x)' = Held(x)
           /\ Held(w) \in Int /\ Held(w)' \in Int
           /\ \A u \in Users :
                ledgerSum'[u] = ledgerSum[u] + (IF u = details[w].user THEN Held(w) - Held(w)' ELSE 0)
<1>1. /\ Exists(w)
      /\ status' = [status EXCEPT ![w] = new]
      /\ details' = details
  BY DEF LegalChange, UpdateStatus
<1>2. /\ status[w] \in {"PENDING", "PROCESSING"}
      /\ new \in {"PROCESSING", "CANCELLED", "COMPLETED", "FAILED", "REJECTED"}
  BY LegalTransitions DEF LegalChange
<1>3. /\ status \in [Wids -> WithdrawalStatuses \cup {"NONE"}]
      /\ ledgerSum \in [Users -> Int]
  BY DEF IInv, TypeOK, AccountsTypeOK
<1>4. status'[w] = new /\ \A x \in Wids \ {w} : status'[x] = status[x]
  BY <1>1, <1>3
<1>5. \A x \in Wids : Exists(x)' = Exists(x)
  BY <1>1, <1>2, <1>4 DEF Exists
<1>6. \A x \in Wids \ {w} : Held(x)' = Held(x)
  BY <1>1, <1>4 DEF Held
<1>7. details[w].user \in Users /\ details[w].amount \in Int
  BY <1>1 DEF IInv, RowsSound, Request, ConstantsAssumption
<1>8. /\ Held(w) = details[w].amount
      /\ Held(w)' = IF new \in Reversed THEN 0 ELSE details[w].amount
  BY <1>1, <1>2, <1>4 DEF Held, Live, Reversed, WithdrawalStatuses
<1>9. CASE new \in Reversed
  <2>1. ledgerSum' = [ledgerSum EXCEPT ![details[w].user] = @ + details[w].amount]
    BY <1>9 DEF LegalChange, Reverse, RecordMovement, CreateEntry
  <2> QED BY <1>1, <1>3, <1>5, <1>6, <1>7, <1>8, <1>9, <2>1
<1>10. CASE new \notin Reversed
  <2>1. ledgerSum' = ledgerSum
    BY <1>10 DEF LegalChange, KeepMoney, accounts
  <2> QED BY <1>1, <1>3, <1>5, <1>6, <1>7, <1>8, <1>10, <2>1
<1> QED BY <1>9, <1>10

\* A step inserts at most one withdrawal, so the rows stay finitely many.
LEMMA FiniteRowsNext ==
    ASSUME ConstantsAssumption, IInv, FiniteRows, [Next]_vars
    PROVE  FiniteRows'
<1> DEFINE inserted == {w \in Wids : Exists(w)}
           insertedNext == {w \in Wids : Exists(w)'}
<1>1. ASSUME NEW w, insertedNext \subseteq inserted \cup {w} PROVE FiniteRows'
  <2>1. IsFiniteSet(inserted \cup {w})
    BY FS_AddElement DEF FiniteRows
  <2>2. IsFiniteSet(insertedNext)
    BY <1>1, <2>1, FS_Subset
  <2> QED BY <2>2 DEF FiniteRows
<1>2. CASE UNCHANGED <<accounts, rows>>
  <2>1. insertedNext = inserted
    BY <1>2 DEF rows, Exists
  <2> QED BY <1>1, <2>1
<1>3. ASSUME NEW s \in Workers, NEW w \in Wids, CommitRequest(s, w) PROVE FiniteRows'
  <2>1. insertedNext \subseteq inserted \cup {w}
    BY <1>3, CommitHolds
  <2> QED BY <1>1, <2>1
<1>4. ASSUME NEW w \in Wids, NEW new \in WithdrawalStatuses, LegalChange(w, new) PROVE FiniteRows'
  <2>1. insertedNext = inserted
    BY <1>4, ChangeReleases
  <2> QED BY <1>1, <2>1
<1> QED BY <1>2, <1>3, <1>4, StepShape

\* In a sound state the withdrawals of a user hold an integer amount.
LEMMA HeldFromInt ==
    (ConstantsAssumption /\ IInv /\ FiniteRows) => \A v \in Users : HeldFrom(v) \in Int
<1> SUFFICES ASSUME ConstantsAssumption, IInv, FiniteRows, NEW u \in Users
             PROVE  HeldFrom(u) \in Int
  OBVIOUS
<1> DEFINE f == [w \in Wids |-> Held(w)]
           S == {w \in Wids : Exists(w) /\ details[w].user = u}
<1>1. IsFiniteSet(S) /\ \A w \in S : f[w] \in Int
  <2>1. S \subseteq {w \in Wids : Exists(w)}
    OBVIOUS
  <2>2. IsFiniteSet(S)
    BY <2>1, FS_Subset DEF FiniteRows
  <2> QED BY <2>2, HeldInt
<1>2. HeldFrom(u) = SumFunctionOnSet(f, S)
  BY DEF HeldFrom
<1> HIDE DEF f, S
<1> QED BY <1>1, <1>2, SumInt

\* The same of the next state.
LEMMA HeldFromIntNext ==
    (ConstantsAssumption /\ IInv /\ FiniteRows)' => \A v \in Users : HeldFrom(v)' \in Int
<1>1. ((ConstantsAssumption /\ IInv /\ FiniteRows) => \A v \in Users : HeldFrom(v) \in Int)'
  BY HeldFromInt, PTL
<1> QED BY <1>1

\* No step of a withdrawal changes what a user's ledger holds together with
\* what the withdrawals hold back, whatever else is booked there.
LEMMA HeldMoves ==
    ASSUME ConstantsAssumption, IInv, FiniteRows, [Next]_vars, NEW u \in Users
    PROVE  ledgerSum'[u] + HeldFrom(u)' = ledgerSum[u] + HeldFrom(u)
<1> DEFINE f == [w \in Wids |-> Held(w)]
           S == {w \in Wids : Exists(w) /\ details[w].user = u}
           g == [w \in Wids |-> Held(w)']
           T == {w \in Wids : Exists(w)' /\ details'[w].user = u}
<1>1. IInv' /\ FiniteRows'
  BY NextSafe, FiniteRowsNext
<1>2. (\A w \in S : f[w] \in Int) /\ (\A w \in T : g[w] \in Int)
  <2>1. \A w \in Wids : Exists(w) => Held(w) \in Int
    BY HeldInt
  <2>2. \A w \in Wids : Exists(w)' => Held(w)' \in Int
    <3>1. ((ConstantsAssumption /\ IInv) => \A w \in Wids : Exists(w) => Held(w) \in Int)'
      BY HeldInt, PTL
    <3> QED BY <1>1, <3>1 DEF ConstantsAssumption
  <2> QED BY <2>1, <2>2
<1>3. IsFiniteSet(S) /\ IsFiniteSet(T)
  <2>1. S \subseteq {w \in Wids : Exists(w)} /\ T \subseteq {w \in Wids : Exists(w)'}
    OBVIOUS
  <2>2. IsFiniteSet({w \in Wids : Exists(w)}) /\ IsFiniteSet({w \in Wids : Exists(w)'})
    BY <1>1 DEF FiniteRows
  <2> HIDE DEF S, T
  <2> QED BY <2>1, <2>2, FS_Subset
<1>4. HeldFrom(u) = SumFunctionOnSet(f, S) /\ HeldFrom(u)' = SumFunctionOnSet(g, T)
  BY DEF HeldFrom
<1>5. ledgerSum[u] \in Int
  BY DEF IInv, TypeOK, AccountsTypeOK
<1>6. SumFunctionOnSet(f, S) \in Int /\ SumFunctionOnSet(g, T) \in Int
  <2> HIDE DEF f, S, g, T
  <2> QED BY <1>2, <1>3, SumInt
<1>7. ASSUME NEW w, T \ {w} = S \ {w}, \A v \in S \ {w} : g[v] = f[v]
      PROVE  SumFunctionOnSet(g, T) = SumFunctionOnSet(f, S) - Part(f, S, w) + Part(g, T, w)
  <2> HIDE DEF f, S, g, T
  <2> QED BY <1>2, <1>3, <1>7, SumMoves
<1>8. CASE UNCHANGED <<accounts, rows>>
  <2>1. f = g /\ S = T
    BY <1>8 DEF rows, Held, Exists
  <2> QED BY <1>4, <1>6, <1>8, <2>1 DEF accounts
<1>9. ASSUME NEW s \in Workers, NEW w \in Wids, CommitRequest(s, w)
      PROVE  ledgerSum'[u] + HeldFrom(u)' = ledgerSum[u] + HeldFrom(u)
  <2>1. PICK v \in Users, amount \in Int :
            /\ ~Exists(w) /\ Exists(w)'
            /\ details'[w].user = v /\ Held(w)' = amount
            /\ \A x \in Wids \ {w} :
                /\ Exists(x)' = Exists(x) /\ Held(x)' = Held(x) /\ details'[x] = details[x]
            /\ \A x \in Users : ledgerSum'[x] = ledgerSum[x] - (IF x = v THEN amount ELSE 0)
    BY <1>9, CommitHolds
  <2>2. T \ {w} = S \ {w} /\ \A x \in S \ {w} : g[x] = f[x]
    BY <2>1
  <2>3. Part(f, S, w) = 0 /\ Part(g, T, w) = IF u = v THEN amount ELSE 0
    BY <2>1 DEF Part
  <2>4. SumFunctionOnSet(g, T) = SumFunctionOnSet(f, S) - Part(f, S, w) + Part(g, T, w)
    BY <1>7, <2>2
  <2>5. ledgerSum'[u] = ledgerSum[u] - (IF u = v THEN amount ELSE 0)
    BY <2>1
  <2> HIDE DEF f, S, g, T
  <2> QED BY <1>4, <1>5, <1>6, <2>3, <2>4, <2>5
<1>10. ASSUME NEW w \in Wids, NEW new \in WithdrawalStatuses, LegalChange(w, new)
       PROVE  ledgerSum'[u] + HeldFrom(u)' = ledgerSum[u] + HeldFrom(u)
  <2>1. /\ details' = details /\ Exists(w) /\ Exists(w)'
        /\ \A x \in Wids : Exists(x)' = Exists(x)
        /\ \A x \in Wids \ {w} : Held(x)' = Held(x)
        /\ Held(w) \in Int /\ Held(w)' \in Int
        /\ ledgerSum'[u] = ledgerSum[u] + (IF u = details[w].user THEN Held(w) - Held(w)' ELSE 0)
    BY <1>10, ChangeReleases
  <2>2. T \ {w} = S \ {w} /\ \A x \in S \ {w} : g[x] = f[x]
    BY <2>1
  <2>3. /\ Part(f, S, w) = IF u = details[w].user THEN Held(w) ELSE 0
        /\ Part(g, T, w) = IF u = details[w].user THEN Held(w)' ELSE 0
    BY <2>1 DEF Part
  <2>4. SumFunctionOnSet(g, T) = SumFunctionOnSet(f, S) - Part(f, S, w) + Part(g, T, w)
    BY <1>7, <2>2
  <2> HIDE DEF f, S, g, T
  <2> QED BY <1>4, <1>5, <1>6, <2>1, <2>3, <2>4
<1> QED BY <1>8, <1>9, <1>10, StepShape

\* Before the first request nothing is held.
LEMMA NothingHeld ==
    ASSUME Init
    PROVE  FiniteRows /\ \A u \in Users : HeldFrom(u) = 0
<1>1. \A w \in Wids : ~Exists(w)
  BY DEF Init, Exists
<1>2. {w \in Wids : Exists(w)} = {}
  BY <1>1
<1>3. \A u \in Users : {w \in Wids : Exists(w) /\ details[w].user = u} = {}
  BY <1>1
<1>4. FiniteRows
  BY <1>2, FS_EmptySet DEF FiniteRows
<1>5. \A u \in Users : HeldFrom(u) = 0
  BY <1>3, SumOfNothing DEF HeldFrom
<1> QED BY <1>4, <1>5

\* Whatever order requests, handlers, the recovery job, failures and restarts
\* come in, a user's ledger is the opening less what the rows say is held or
\* paid out: no refund is lost or booked twice, and no debit is left over.
THEOREM LedgerBalanced == Spec => []LedgerBalancesBooks
<1> DEFINE Balanced == FiniteRows /\ LedgerBalancesBooks
<1>1. Init => Balanced
  BY NothingHeld, ConstantsAssumption DEF Init, LedgerBalancesBooks, ConstantsAssumption
<1>2. IInv /\ Balanced /\ [Next]_vars => Balanced'
  <2> SUFFICES ASSUME IInv, Balanced, [Next]_vars PROVE Balanced'
    OBVIOUS
  <2>1. ASSUME NEW u \in Users PROVE ledgerSum'[u] = Opening[u] - HeldFrom(u)'
    <3>1. ledgerSum'[u] + HeldFrom(u)' = ledgerSum[u] + HeldFrom(u)
      BY HeldMoves, ConstantsAssumption
    <3>2. ledgerSum[u] = Opening[u] - HeldFrom(u)
      BY DEF LedgerBalancesBooks
    <3>3. IInv' /\ FiniteRows' /\ ConstantsAssumption'
      BY NextSafe, FiniteRowsNext, ConstantsAssumption DEF ConstantsAssumption
    <3>4. HeldFrom(u) \in Int /\ HeldFrom(u)' \in Int
      BY <3>3, HeldFromInt, HeldFromIntNext, ConstantsAssumption
    <3>5. ledgerSum'[u] \in Int /\ Opening[u] \in Int
      BY <3>3, ConstantsAssumption DEF IInv, TypeOK, AccountsTypeOK, ConstantsAssumption
    <3> QED BY <3>1, <3>2, <3>4, <3>5
  <2>2. FiniteRows'
    BY FiniteRowsNext, ConstantsAssumption
  <2> QED BY <2>1, <2>2 DEF LedgerBalancesBooks
<1>3. Balanced => LedgerBalancesBooks
  OBVIOUS
<1> QED BY <1>1, <1>2, <1>3, Inductive, PTL DEF Spec
=============================================================================
