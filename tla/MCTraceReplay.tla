--------------------------- MODULE MCTraceReplay ---------------------------
(***************************************************************************)
(* Two targets: one with two invocations, which the configuration deals to *)
(* two senders, and one with a single invocation.                          *)
(***************************************************************************)
EXTENDS TraceReplay

CONSTANTS t1, t2

MCInvocations == [t \in Targets |-> IF t = t1 THEN 2 ELSE 1]
=============================================================================
