---------------------------- MODULE MCStdioLink ----------------------------
(***************************************************************************)
(* Instance of StdioLink for TLC: what close() leaves behind.               *)
(***************************************************************************)
EXTENDS StdioLink
=============================================================================
