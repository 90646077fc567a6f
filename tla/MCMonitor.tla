----------------------------- MODULE MCMonitor -----------------------------
(* Instances of Monitor for TLC. *)
EXTENDS Monitor

CONSTANTS c1, c2, c3, o1, o2

(* Every context is a thread of its own ... *)
OwnHost == [c \in Contexts |-> c]
(* ... or two are Tasks of one OS thread and the third is a Thread. *)
TaskHost == [c \in Contexts |-> IF c = c2 THEN c1 ELSE c]
=============================================================================
