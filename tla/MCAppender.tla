---- MODULE MCAppender ----
(* An instance of Appender for TLC: one thread logs, another one stops. *)
EXTENDS Appender
====
