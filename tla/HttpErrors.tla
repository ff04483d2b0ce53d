----------------------------- MODULE HttpErrors -----------------------------
(***************************************************************************)
(* How internal/httpx classifies the outcome of an exchange, and what the  *)
(* error it makes of it shows to errors.As and errors.Is further up.       *)
(*                                                                         *)
(* An error is known by what is found in its chain: a Retryable wraps an   *)
(* HTTPError, so both are found in it.                                     *)
(***************************************************************************)
EXTENDS Integers

RetryableStatuses == {202, 429, 500, 502, 503, 504}

\* Any 2xx is a success.
M_KindOf(status) ==
    IF status \in 200 .. 299 THEN "ok"
    ELSE IF status \in RetryableStatuses THEN "transient" ELSE "fatal"

\* The classification of client.go:158-169, in its order.
KindOf(status) ==
    IF status \in RetryableStatuses THEN "transient"
    ELSE IF status >= 400 THEN "fatal" ELSE "ok"

-----------------------------------------------------------------------------
(* Error chains.                                                           *)

Chain(found, status) == [found |-> found, status |-> status]

\* What send() returns for a status that is not a success.
StatusError(status) ==
    Chain(IF KindOf(status) = "transient" THEN {"Retryable", "HTTPError"} ELSE {"HTTPError"}, status)

\* hc.Do or the reading of the body failed; a net.Error knows of timeouts.
NetError(cause) == Chain(IF cause = "timeout" THEN {"Timeout"} ELSE {}, 0)
=============================================================================
