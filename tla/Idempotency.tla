---------------------------- MODULE Idempotency ----------------------------
(***************************************************************************)
(* idempotency_middleware: what happens to requests that carry an          *)
(* Idempotency-Key.  The endpoint behind it is one transaction that        *)
(* commits (2xx), refuses (4xx) or fails (5xx); both of the latter roll    *)
(* back.  Clients retry when they like, also while an earlier attempt is   *)
(* still running, and the process may die at any point.                    *)
(*                                                                         *)
(* A response is abstracted to its class, and response_status = 0, the     *)
(* mark of a claim without a response, to "claimed".  No endpoint fails    *)
(* between its commit and its return, except by the death of the process.  *)
(***************************************************************************)
EXTENDS Integers

CONSTANTS
    Keys,           \* Idempotency-Keys
    Threads         \* threads that serve requests

VARIABLES
    record,         \* idempotency_keys: "free", "claimed" or the response
    request,        \* what each thread is doing
    executed,       \* how often the endpoint has committed for a key
    told            \* the answers clients have received for a key

middleware == <<record, request, executed, told>>

Free == [step |-> "free"]

\* Responses the middleware stores.
Final == {"ok", "refused"}

IdempotencyInit ==
    /\ record = [k \in Keys |-> "free"]
    /\ request = [t \in Threads |-> Free]
    /\ executed = [k \in Keys |-> 0]
    /\ told = [k \in Keys |-> {}]

Tell(k, answer) == told' = [told EXCEPT ![k] = @ \cup {answer}]

\* Mutant: a claim without a response is taken over.
ClaimableUnanswered(k) == record[k] \in {"free", "claimed"}

\* INSERT OR IGNORE has inserted the row.
Claimable(k) == record[k] = "free"

\* try_claim and its commit.
Claim(t, k) ==
    /\ request[t] = Free
    /\ Claimable(k)
    /\ record' = [record EXCEPT ![k] = "claimed"]
    /\ request' = [request EXCEPT ![t] = [step |-> "endpoint", key |-> k]]
    /\ UNCHANGED <<executed, told>>

\* The INSERT or its commit fails ("database is locked"): a server error,
\* and the key is as free as before.
ClaimFails(t, k) ==
    /\ request[t] = Free
    /\ Tell(k, "failed")
    /\ UNCHANGED <<record, request, executed>>

\* The key has a response: replay it.
Replay(t, k) ==
    /\ request[t] = Free
    /\ record[k] \in Final
    /\ Tell(k, record[k])
    /\ UNCHANGED <<record, request, executed>>

\* The key is claimed and has none: 409.
Conflict(t, k) ==
    /\ request[t] = Free
    /\ record[k] = "claimed"
    /\ Tell(k, "conflict")
    /\ UNCHANGED <<record, request, executed>>

\* call_next: the endpoint, up to its commit or rollback.
RunEndpoint(t) ==
    LET k == request[t].key IN
    /\ request[t].step = "endpoint"
    /\ \E answer \in {"ok", "refused", "failed"} :
        /\ executed' = [executed EXCEPT ![k] = IF answer = "ok" THEN @ + 1 ELSE @]
        /\ request' = [request EXCEPT ![t] = [step |-> "respond", key |-> k, answer |-> answer]]
    /\ UNCHANGED <<record, told>>

\* Mutant: server errors are stored as well.
CacheableAlways(answer) == TRUE

\* response.status_code < 500
Cacheable(answer) == answer \in Final

\* store_response, commit, and the response.
StoreResponse(t) ==
    LET k == request[t].key
        answer == request[t].answer
    IN  /\ request[t].step = "respond"
        /\ Cacheable(answer)
        /\ record' = [record EXCEPT ![k] = answer]
        /\ Tell(k, answer)
        /\ request' = [request EXCEPT ![t] = Free]
        /\ UNCHANGED executed

\* Mutant: a key whose response is not stored is given up.
ReleaseClaim(k) == record' = [record EXCEPT ![k] = "free"]

\* Nothing releases a claim.
KeepClaim(k) == UNCHANGED record

\* A server error is passed on without being stored; an exception while
\* storing any other response is swallowed and the response sent.
RespondUnstored(t) ==
    LET k == request[t].key IN
    /\ request[t].step = "respond"
    /\ KeepClaim(k)
    /\ Tell(k, request[t].answer)
    /\ request' = [request EXCEPT ![t] = Free]
    /\ UNCHANGED executed

\* The process dies: clients in flight get no answer, rows stay.
ProcessDies ==
    /\ request' = [t \in Threads |-> Free]
    /\ UNCHANGED <<record, executed, told>>

ThreadStep(t) ==
    \/ RunEndpoint(t)
    \/ StoreResponse(t)
    \/ RespondUnstored(t)

IdempotencyNext ==
    \/ \E t \in Threads :
        \/ \E k \in Keys : Claim(t, k) \/ ClaimFails(t, k) \/ Replay(t, k) \/ Conflict(t, k)
        \/ ThreadStep(t)
    \/ ProcessDies

IdempotencySpec == IdempotencyInit /\ [][IdempotencyNext]_middleware

\* Threads finish their requests, and clients go on retrying.
IdempotencyFairSpec ==
    /\ IdempotencySpec
    /\ \A t \in Threads :
        /\ WF_middleware(ThreadStep(t))
        /\ \A k \in Keys : SF_middleware(Claim(t, k) \/ Replay(t, k) \/ Conflict(t, k))
-----------------------------------------------------------------------------
(* Properties                                                              *)

\* Types.
IdempotencyTypeOK ==
    /\ record \in [Keys -> {"free", "claimed"} \cup Final]
    /\ request \in [Threads -> {Free}
            \cup [step : {"endpoint"}, key : Keys]
            \cup [step : {"respond"}, key : Keys, answer : Final \cup {"failed"}]]
    /\ executed \in [Keys -> Nat]
    /\ told \in [Keys -> SUBSET (Final \cup {"failed", "conflict"})]

\* Retries, at any time and from anywhere, never run an operation twice.
ExecutedAtMostOnce == \A k \in Keys : executed[k] <= 1

\* All answers to a key agree with each other and with what has been done:
\* whoever is told "ok" can rely on it, whoever is told "refused" can rely
\* on nothing having happened, then or later.
AnswersAgree ==
    \A k \in Keys :
        /\ "ok" \in told[k] => executed[k] = 1
        /\ "refused" \in told[k] => executed[k] = 0

\* A stored response is what every later attempt gets.
ResponseIsFinal ==
    [][\A k \in Keys : record[k] \in Final => record'[k] = record[k]]_record

\* A key that has been claimed gets a response, which retries then receive.
KeyGetsResponse == \A k \in Keys : record[k] = "claimed" ~> record[k] \in Final
=============================================================================
