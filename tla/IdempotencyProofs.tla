-------------------------- MODULE IdempotencyProofs --------------------------
(***************************************************************************)
(* Theorems about Idempotency, for any keys and threads.                   *)
(***************************************************************************)
EXTENDS Idempotency, TLAPS

\* Thread t serves a request for k.
Serves(t, k) == request[t] # Free /\ request[t].key = k

\* What "ok" and "refused" mean for the count of commits.
Count(answer) == IF answer = "ok" THEN 1 ELSE 0

\* Only one thread serves a claimed key, nothing has happened to a key before
\* its thread commits, and a response tells what has.
OneServer ==
    \A t, u \in Threads, k \in Keys : Serves(t, k) /\ Serves(u, k) => t = u

KeySound(k) ==
    /\ record[k] = "free" => executed[k] = 0 /\ told[k] \cap Final = {}
    /\ record[k] \in Final => executed[k] = Count(record[k]) /\ told[k] \cap Final \subseteq {record[k]}

ThreadSound(t) ==
    LET k == request[t].key IN
    request[t] # Free =>
        /\ record[k] = "claimed"
        /\ told[k] \cap Final = {}
        /\ request[t].step = "endpoint" => executed[k] = 0
        /\ request[t].step = "respond" => executed[k] = Count(request[t].answer)

\* The inductive invariant.
Claims ==
    /\ IdempotencyTypeOK
    /\ OneServer
    /\ \A k \in Keys : KeySound(k)
    /\ \A t \in Threads : ThreadSound(t)
    /\ ExecutedAtMostOnce
    /\ AnswersAgree

\* A thread that is not free serves one of the keys.
LEMMA ServesAKey ==
    ASSUME IdempotencyTypeOK, NEW t \in Threads, request[t] # Free
    PROVE  /\ request[t].key \in Keys
           /\ request[t].step \in {"endpoint", "respond"}
           /\ request[t].step = "respond" => request[t].answer \in {"ok", "refused", "failed"}
<1>1. request[t] \in [step : {"endpoint"}, key : Keys]
          \cup [step : {"respond"}, key : Keys, answer : Final \cup {"failed"}]
  BY DEF IdempotencyTypeOK
<1>2. CASE request[t] \in [step : {"endpoint"}, key : Keys]
  BY <1>2
<1>3. CASE request[t] \in [step : {"respond"}, key : Keys, answer : Final \cup {"failed"}]
  BY <1>3 DEF Final
<1> QED
  BY <1>1, <1>2, <1>3

\* Nothing is claimed at the start.
LEMMA ClaimsInit ==
    ASSUME IdempotencyInit
    PROVE  Claims
BY DEF IdempotencyInit, Claims, IdempotencyTypeOK, OneServer, Serves, KeySound, ThreadSound,
       ExecutedAtMostOnce, AnswersAgree, Final, Free

\* An answer that claims nothing.
LEMMA TellKeepsClaims ==
    ASSUME Claims, NEW k \in Keys, NEW answer \in {"failed", "conflict"} \cup {record[k]},
           answer \in Final \cup {"failed", "conflict"},
           Tell(k, answer), UNCHANGED <<record, request, executed>>
    PROVE  Claims'
<1>1. told' = [told EXCEPT ![k] = told[k] \cup {answer}]
  BY DEF Tell, Claims, IdempotencyTypeOK
<1>2. \A j \in Keys :
          /\ told'[j] \cap Final \subseteq (told[j] \cap Final) \cup ({record[j]} \cap Final)
          /\ told[j] \subseteq told'[j]
  BY <1>1 DEF Claims, IdempotencyTypeOK, Final
<1>3. IdempotencyTypeOK'
  BY <1>1 DEF Claims, IdempotencyTypeOK
<1>4. OneServer'
  BY DEF Claims, OneServer, Serves
<1>5. \A j \in Keys : KeySound(j)'
  BY <1>2 DEF Claims, KeySound, Final
<1>6. ASSUME NEW t \in Threads
      PROVE  ThreadSound(t)'
  <2>1. CASE request[t] = Free
    BY <2>1 DEF ThreadSound
  <2>2. CASE request[t] # Free
    <3>1. request[t].key \in Keys
      BY <2>2, ServesAKey DEF Claims
    <3>2. ThreadSound(t)
      BY DEF Claims
    <3> QED
      BY <1>2, <2>2, <3>1, <3>2 DEF ThreadSound, Final
  <2> QED
    BY <2>1, <2>2
<1>7. ExecutedAtMostOnce'
  BY DEF Claims, ExecutedAtMostOnce
<1>8. AnswersAgree'
  <2>1. ASSUME NEW j \in Keys
        PROVE  /\ "ok" \in told'[j] => executed[j] = 1
               /\ "refused" \in told'[j] => executed[j] = 0
    BY <1>2 DEF Claims, AnswersAgree, KeySound, Count, Final
  <2> QED
    BY <2>1 DEF AnswersAgree
<1> QED
  BY <1>3, <1>4, <1>5, <1>6, <1>7, <1>8 DEF Claims

\* A thread takes a key that was free.
LEMMA ClaimSafe ==
    ASSUME Claims, NEW t \in Threads, NEW k \in Keys, Claim(t, k)
    PROVE  Claims'
<1> DEFINE r == [step |-> "endpoint", key |-> k]
<1>1. /\ request[t] = Free /\ record[k] = "free"
      /\ record' = [record EXCEPT ![k] = "claimed"]
      /\ request' = [request EXCEPT ![t] = r]
      /\ executed' = executed /\ told' = told
  BY DEF Claim, Claimable
<1>2. /\ record'[k] = "claimed" /\ \A j \in Keys : j # k => record'[j] = record[j]
      /\ request'[t] = r /\ \A u \in Threads : u # t => request'[u] = request[u]
  BY <1>1 DEF Claims, IdempotencyTypeOK
<1>3. executed[k] = 0 /\ told[k] \cap Final = {}
  BY <1>1 DEF Claims, KeySound
<1>4. \A u \in Threads : ~Serves(u, k)
  BY <1>1 DEF Claims, ThreadSound, Serves
<1>5. IdempotencyTypeOK'
  BY <1>1 DEF Claims, IdempotencyTypeOK
<1>6. r.key = k /\ r.step = "endpoint"
  OBVIOUS
<1>7. OneServer'
  BY <1>2, <1>4, <1>6 DEF Claims, OneServer, Serves
<1>8. \A j \in Keys : KeySound(j)'
  BY <1>1, <1>2 DEF Claims, KeySound, Final
<1>9. ASSUME NEW u \in Threads
      PROVE  ThreadSound(u)'
  <2>1. CASE u = t
    BY <1>1, <1>2, <1>3, <2>1 DEF ThreadSound
  <2>2. CASE u # t /\ request[u] # Free
    <3>1. request[u].key \in Keys /\ request[u].key # k
      BY <1>4, <2>2, ServesAKey DEF Claims, Serves
    <3> QED
      BY <1>1, <1>2, <2>2, <3>1 DEF Claims, ThreadSound
  <2>3. CASE u # t /\ request[u] = Free
    BY <1>2, <2>3 DEF ThreadSound
  <2> QED
    BY <2>1, <2>2, <2>3
<1>10. ExecutedAtMostOnce' /\ AnswersAgree'
  BY <1>1 DEF Claims, ExecutedAtMostOnce, AnswersAgree
<1> QED
  BY <1>5, <1>7, <1>8, <1>9, <1>10 DEF Claims

\* The endpoint commits, refuses or fails: once, since its thread then waits
\* to respond.
LEMMA EndpointSafe ==
    ASSUME Claims, NEW t \in Threads, RunEndpoint(t)
    PROVE  Claims'
<1> DEFINE k == request[t].key
<1>1. PICK answer \in {"ok", "refused", "failed"} :
          /\ executed' = [executed EXCEPT ![k] = IF answer = "ok" THEN @ + 1 ELSE @]
          /\ request' = [request EXCEPT ![t] = [step |-> "respond", key |-> k, answer |-> answer]]
  BY DEF RunEndpoint
<1> DEFINE r == [step |-> "respond", key |-> k, answer |-> answer]
<1>2. request[t].step = "endpoint" /\ record' = record /\ told' = told
  BY DEF RunEndpoint
<1>3. request[t] # Free
  BY <1>2 DEF Free
<1>4. k \in Keys
  BY <1>3, ServesAKey DEF Claims
<1>5. record[k] = "claimed" /\ told[k] \cap Final = {} /\ executed[k] = 0
  BY <1>2, <1>3 DEF Claims, ThreadSound
<1>6. /\ executed'[k] = Count(answer)
      /\ \A j \in Keys : j # k => executed'[j] = executed[j]
      /\ executed' \in [Keys -> Nat]
  BY <1>1, <1>4, <1>5 DEF Claims, IdempotencyTypeOK, Count
<1>7. request'[t] = r /\ \A u \in Threads : u # t => request'[u] = request[u]
  BY <1>1 DEF Claims, IdempotencyTypeOK
<1>8. IdempotencyTypeOK'
  <2>1. r \in [step : {"respond"}, key : Keys, answer : Final \cup {"failed"}]
    BY <1>4 DEF Final
  <2> HIDE DEF r
  <2> QED
    BY <1>1, <1>2, <1>6, <2>1 DEF Claims, IdempotencyTypeOK, r
<1>9. r.key = k /\ r.step = "respond" /\ r.answer = answer
  OBVIOUS
<1>10. \A u \in Threads : u # t /\ request[u] # Free => request[u].key # k
  BY <1>3, <1>4 DEF Claims, OneServer, Serves
<1> HIDE DEF r, k
<1>11. OneServer'
  <2>1. \A u \in Threads, j \in Keys : Serves(u, j)' => Serves(u, j)
    BY <1>3, <1>7, <1>9 DEF Serves, k
  <2> QED
    BY <2>1 DEF Claims, OneServer
<1>12. \A j \in Keys : KeySound(j)'
  BY <1>2, <1>5, <1>6 DEF Claims, KeySound, Final
<1>13. ASSUME NEW u \in Threads
       PROVE  ThreadSound(u)'
  <2>1. CASE u = t
    BY <1>2, <1>5, <1>6, <1>7, <1>9, <2>1 DEF ThreadSound
  <2>2. CASE u # t /\ request[u] # Free
    <3>1. request[u].key \in Keys /\ request[u].key # k
      BY <1>10, <2>2, ServesAKey DEF Claims
    <3> QED
      BY <1>2, <1>6, <1>7, <2>2, <3>1 DEF Claims, ThreadSound
  <2>3. CASE u # t /\ request[u] = Free
    BY <1>7, <2>3 DEF ThreadSound
  <2> QED
    BY <2>1, <2>2, <2>3
<1>14. ExecutedAtMostOnce'
  BY <1>6 DEF Claims, ExecutedAtMostOnce, Count
<1>15. AnswersAgree'
  <2>1. ASSUME NEW j \in Keys
        PROVE  /\ "ok" \in told[j] => executed'[j] = 1
               /\ "refused" \in told[j] => executed'[j] = 0
    BY <1>5, <1>6 DEF Claims, AnswersAgree, Final
  <2> QED
    BY <1>2, <2>1 DEF AnswersAgree
<1> QED
  BY <1>8, <1>11, <1>12, <1>13, <1>14, <1>15 DEF Claims

\* A thread responds and lets go of its key, which keeps its claim or gets
\* the very response.
LEMMA RespondSafe ==
    ASSUME Claims, NEW t \in Threads, request[t].step = "respond",
           Tell(request[t].key, request[t].answer),
           request' = [request EXCEPT ![t] = Free],
           executed' = executed,
           \/ record' = record
           \/ request[t].answer \in Final
              /\ record' = [record EXCEPT ![request[t].key] = request[t].answer]
    PROVE  Claims'
<1> DEFINE k == request[t].key
           answer == request[t].answer
<1>1. request[t] # Free
  BY DEF Free
<1>2. k \in Keys /\ answer \in {"ok", "refused", "failed"}
  BY <1>1, ServesAKey DEF Claims
<1>3. record[k] = "claimed" /\ told[k] \cap Final = {} /\ executed[k] = Count(answer)
  BY <1>1 DEF Claims, ThreadSound
<1>4. request'[t] = Free /\ \A u \in Threads : u # t => request'[u] = request[u]
  BY DEF Claims, IdempotencyTypeOK
<1>5. /\ told'[k] = told[k] \cup {answer}
      /\ \A j \in Keys : j # k => told'[j] = told[j] /\ record'[j] = record[j]
      /\ record'[k] = "claimed" \/ (answer \in Final /\ record'[k] = answer)
  BY <1>2, <1>3 DEF Tell, Claims, IdempotencyTypeOK
<1>6. \A u \in Threads : u # t /\ request[u] # Free => request[u].key # k
  BY <1>1, <1>2 DEF Claims, OneServer, Serves
<1>7. IdempotencyTypeOK'
  BY <1>2 DEF Claims, IdempotencyTypeOK, Tell, Final
<1> HIDE DEF k, answer
<1>8. OneServer'
  BY <1>4 DEF Claims, OneServer, Serves
<1>9. \A j \in Keys : KeySound(j)'
  <2>1. ASSUME NEW j \in Keys, j # k PROVE KeySound(j)'
    BY <1>5, <2>1 DEF Claims, KeySound
  <2>2. ASSUME NEW j \in Keys, j = k PROVE KeySound(j)'
    BY <1>3, <1>5, <2>2 DEF KeySound, Final
  <2> QED
    BY <2>1, <2>2
<1>10. ASSUME NEW u \in Threads
       PROVE  ThreadSound(u)'
  <2>1. CASE u = t \/ request[u] = Free
    BY <1>4, <2>1 DEF ThreadSound
  <2>2. CASE u # t /\ request[u] # Free
    <3>1. request[u].key \in Keys /\ request[u].key # k
      BY <1>6, <2>2, ServesAKey DEF Claims
    <3> QED
      BY <1>4, <1>5, <2>2, <3>1 DEF Claims, ThreadSound
  <2> QED
    BY <2>1, <2>2
<1>11. ExecutedAtMostOnce'
  BY DEF Claims, ExecutedAtMostOnce
<1>12. AnswersAgree'
  <2>1. ASSUME NEW j \in Keys, j # k
        PROVE  /\ "ok" \in told'[j] => executed[j] = 1
               /\ "refused" \in told'[j] => executed[j] = 0
    BY <1>5, <2>1 DEF Claims, AnswersAgree
  <2>2. /\ "ok" \in told'[k] => executed[k] = 1
        /\ "refused" \in told'[k] => executed[k] = 0
    BY <1>3, <1>5 DEF Final, Count
  <2> QED
    BY <2>1, <2>2 DEF AnswersAgree
<1> QED
  BY <1>7, <1>8, <1>9, <1>10, <1>11, <1>12 DEF Claims

\* Every step preserves the claims.
LEMMA ClaimsNext ==
    ASSUME Claims, [IdempotencyNext]_middleware
    PROVE  Claims'
<1>1. ASSUME NEW t \in Threads, NEW k \in Keys,
             Claim(t, k) \/ ClaimFails(t, k) \/ Replay(t, k) \/ Conflict(t, k)
      PROVE  Claims'
  <2>1. CASE Claim(t, k)
    BY <2>1, ClaimSafe
  <2>2. CASE ClaimFails(t, k) \/ Conflict(t, k)
    BY <2>2, TellKeepsClaims DEF ClaimFails, Conflict
  <2>3. CASE Replay(t, k)
    BY <2>3, TellKeepsClaims DEF Replay
  <2> QED
    BY <1>1, <2>1, <2>2, <2>3
<1>2. ASSUME NEW t \in Threads, ThreadStep(t)
      PROVE  Claims'
  <2>1. CASE RunEndpoint(t)
    BY <2>1, EndpointSafe
  <2>2. CASE StoreResponse(t)
    BY <2>2, RespondSafe DEF StoreResponse, Cacheable
  <2>3. CASE RespondUnstored(t)
    BY <2>3, RespondSafe DEF RespondUnstored, KeepClaim
  <2> QED
    BY <1>2, <2>1, <2>2, <2>3 DEF ThreadStep
<1>3. CASE ProcessDies
  <2>1. /\ request' = [t \in Threads |-> Free]
        /\ record' = record /\ executed' = executed /\ told' = told
    BY <1>3 DEF ProcessDies
  <2>2. \A t \in Threads : request'[t] = Free
    BY <2>1
  <2>3. IdempotencyTypeOK'
    BY <2>1 DEF Claims, IdempotencyTypeOK
  <2> QED
    BY <2>1, <2>2, <2>3
       DEF Claims, OneServer, Serves, KeySound, ThreadSound, ExecutedAtMostOnce, AnswersAgree
<1>4. CASE UNCHANGED middleware
  BY <1>4 DEF middleware, Claims, IdempotencyTypeOK, OneServer, Serves, KeySound, ThreadSound,
              ExecutedAtMostOnce, AnswersAgree
<1> QED
  BY <1>1, <1>2, <1>3, <1>4 DEF IdempotencyNext

\* The claims hold throughout.
THEOREM ClaimsInvariant == IdempotencySpec => []Claims
<1>1. IdempotencyInit => Claims
  BY ClaimsInit
<1>2. Claims /\ [IdempotencyNext]_middleware => Claims'
  BY ClaimsNext
<1> QED
  BY <1>1, <1>2, PTL DEF IdempotencySpec

\* Types: IdempotencyTypeOK.
THEOREM MiddlewareTyped == IdempotencySpec => []IdempotencyTypeOK
<1>1. Claims => IdempotencyTypeOK
  BY DEF Claims
<1> QED
  BY <1>1, ClaimsInvariant, PTL

\* Whatever the retries, crashes and failed writes, an operation is executed
\* at most once.
THEOREM AtMostOnce == IdempotencySpec => []ExecutedAtMostOnce
<1>1. Claims => ExecutedAtMostOnce
  BY DEF Claims
<1> QED
  BY <1>1, ClaimsInvariant, PTL

\* Every answer to a key is true, and stays true.
THEOREM AnswersTrue == IdempotencySpec => []AnswersAgree
<1>1. Claims => AnswersAgree
  BY DEF Claims
<1> QED
  BY <1>1, ClaimsInvariant, PTL

\* A stored response is never replaced: only a thread that serves the key
\* stores, and the key it serves has none.
THEOREM ResponseKept == IdempotencySpec => ResponseIsFinal
<1> DEFINE A == \A k \in Keys : record[k] \in Final => record'[k] = record[k]
<1>1. Claims /\ [IdempotencyNext]_middleware => [A]_record
  <2> SUFFICES ASSUME Claims, [IdempotencyNext]_middleware PROVE A \/ record' = record
    OBVIOUS
  <2>1. ASSUME NEW t \in Threads, NEW k \in Keys, Claim(t, k)
        PROVE  A
    BY <2>1 DEF Claim, Claimable, Claims, IdempotencyTypeOK, Final
  <2>2. ASSUME NEW t \in Threads, StoreResponse(t)
        PROVE  A
    <3>1. request[t] # Free
      BY <2>2 DEF StoreResponse, Free
    <3>2. record[request[t].key] = "claimed"
      BY <3>1 DEF Claims, ThreadSound
    <3> QED
      BY <2>2, <3>2 DEF StoreResponse, Claims, IdempotencyTypeOK, Final
  <2>3. CASE UNCHANGED middleware
    BY <2>3 DEF middleware
  <2> QED
    BY <2>1, <2>2, <2>3
       DEF IdempotencyNext, ThreadStep, ClaimFails, Replay, Conflict, RunEndpoint,
           RespondUnstored, KeepClaim, ProcessDies
<1> QED
  BY <1>1, ClaimsInvariant, PTL DEF IdempotencySpec, ResponseIsFinal
=============================================================================
