------------------------------- MODULE Remote -------------------------------
(***************************************************************************)
(* What the two adapters (internal/slack, internal/hubspot) make of an     *)
(* HTTP response, and what the worker makes of their errors: whether the   *)
(* attempt is repeated, and when.  Everything here is a pure operator.     *)
(*                                                                         *)
(* A response is its status, what its body holds and its Retry-After, 0 if *)
(* that is absent, past or not a number.  Status 0 is no response at all.  *)
(***************************************************************************)
EXTENDS Integers

CONSTANT
  MaxInt           \* the largest time.Duration, 2^63 - 1

Bodies == {"ok", "cut", "garbled", "message_not_found", "not_in_channel", "ratelimited",
           "service_unavailable", "user_not_found", "some_new_error"}
Response == [status: 0..599, body: Bodies, retryAfter: Nat]

(* domain.RemoteError, and no error. *)
RemoteError(code, temporary, retryAfter) == [code |-> code, temporary |-> temporary, retryAfter |-> retryAfter]
Fine == RemoteError("", FALSE, 0)

Success(status) == status \in 200..299
Transport == RemoteError("transport_error", TRUE, 0)

-----------------------------------------------------------------------------
(* Slack. *)

ResponseError(r) ==
  RemoteError(CASE r.status = 401 -> "invalid_auth"
            [] r.status = 403 -> "missing_scope"
            [] r.status = 404 -> "not_found"
            [] r.status = 429 -> "ratelimited"
            [] OTHER          -> "http_error",
          r.status = 429 \/ r.status >= 500, r.retryAfter)

(* An error that Slack reports with status 200.  An unknown one is permanent. *)
EnvelopeError(r) ==
  RemoteError(IF r.body = "some_new_error" THEN "api_error" ELSE r.body,
          r.body \in {"ratelimited", "request_timeout", "service_unavailable"}, r.retryAfter)

SlackCall(r) ==
  IF r.status = 0 THEN Transport
  ELSE IF ~Success(r.status) THEN ResponseError(r)
  ELSE CASE r.body = "ok"      -> Fine
         [] r.body = "cut"     -> RemoteError("read_error", TRUE, 0)
         [] r.body = "garbled" -> RemoteError("invalid_response", TRUE, 0)
         [] OTHER              -> EnvelopeError(r)

-----------------------------------------------------------------------------
(* HubSpot. *)

HubSpotRequest(r) ==
  IF r.status = 0 THEN Transport
  ELSE IF ~Success(r.status) THEN
    RemoteError(CASE r.status = 400 -> "invalid_request"
              [] r.status = 401 -> "invalid_auth"
              [] r.status = 403 -> "missing_scope"
              [] r.status = 404 -> "not_found"
              [] r.status = 413 -> "too_large"
              [] r.status = 423 -> "locked"
              [] r.status = 429 -> "ratelimited"
              [] OTHER          -> "http_error",
            r.status \in {408, 423, 429} \/ r.status >= 500, r.retryAfter)
  ELSE IF r.body = "ok" THEN Fine ELSE RemoteError("invalid_response", TRUE, 0)

-----------------------------------------------------------------------------
(* The worker's retries. *)

\* Mutation: every error is tried again.
RetriesAll(error) == error # Fine
Retryable(error) == error.temporary
Permanent(error, attempts, maxAttempts) == ~Retryable(error) \/ attempts >= maxAttempts

(* int64 arithmetic. *)
Wrapped(n) == IF n > MaxInt THEN n - 2 * (MaxInt + 1) ELSE n

\* Mutation: the maximum is compared only after the delay has doubled.
DoubledUnguarded(base, max, attempts) ==
  LET b[i \in 1..attempts] ==
        IF i = 1 THEN base ELSE IF b[i - 1] >= max THEN b[i - 1] ELSE Wrapped(2 * b[i - 1])
  IN  IF b[attempts] < max THEN b[attempts] ELSE max

(* retryAt's loop: the delay doubles until the maximum, by comparisons that *)
(* cannot overflow.                                                         *)
Doubled(base, max, attempts) ==
  LET b[i \in 1..attempts] ==
        IF i = 1 THEN base ELSE IF b[i - 1] > max \div 2 THEN max ELSE Wrapped(2 * b[i - 1])
  IN  IF b[attempts] < max THEN b[attempts] ELSE max

\* Mutation: what Slack or HubSpot asked for is not heeded.
DelaysUnasked(base, max, attempts, retryAfter) ==
  LET half == Doubled(base, max, attempts) \div 2
  IN  {half + random : random \in 0..(IF half > 1 THEN half - 1 ELSE 0)}

(* The delays retryAt may draw: equal jitter, and at least what was asked for. *)
Delays(base, max, attempts, retryAfter) ==
  LET half == Doubled(base, max, attempts) \div 2
      jittered == {half + random : random \in 0..(IF half > 1 THEN half - 1 ELSE 0)}
  IN  {IF d > retryAfter THEN d ELSE retryAfter : d \in jittered}
=============================================================================
