---------------------------- MODULE MCTerminalHost ----------------------------
(* A small instance of TerminalHost: one viewer, one caller, and a ring of  *)
(* one chunk for two written ones, so that publication waits, a released    *)
(* authority is overrun, and a viewer lags and is given a new picture.      *)
EXTENDS TerminalHost, TLC

CONSTANTS v1, c1
=============================================================================
