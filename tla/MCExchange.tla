----------------------------- MODULE MCExchange -----------------------------
(* Two attempts, so that what the first leaves behind meets the second;    *)
(* one error that is retried and one that is not.  The watchdog of a       *)
(* request body runs beside everything else, so bodies are what costs      *)
(* states: a stream is explored with one guard at a time, a body that can  *)
(* be rewound, and may fail to, without an idle timeout.                   *)
EXTENDS Exchange

MCMaxRetries == 1
MCTransportErrors == {"eof", "other"}

WithBody(b) == [retryable |-> TRUE, body |-> b, custom |-> FALSE]

MCExplored ==
         {WithBody("none")}    \X Options
    \cup {WithBody("stream")}  \X {o \in Options : ~(o.idle /\ o.limits)}
    \cup {WithBody("getBody")} \X {o \in Options : ~o.idle}
=============================================================================
