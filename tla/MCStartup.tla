----------------------------- MODULE MCStartup -----------------------------
(* A small instance of Startup for TLC. *)
EXTENDS Startup

CONSTANTS t1, t2, slack, github, telegram

ThreeInARow == <<slack, github, telegram>>
=============================================================================
