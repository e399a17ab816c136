-------------------------- MODULE MCRetryTransport --------------------------
(* Two retries: the first retry, one in the middle and the last attempt    *)
(* are all different cases.                                                *)
EXTENDS RetryTransport

MCMaxRetries == 2
=============================================================================
