------------------------------- MODULE MCApp -------------------------------
(***************************************************************************)
(* Instance of AuthenticatedApp, and of App in it, for TLC: the first of    *)
(* two dependencies is given twice, as when one object is the validator of  *)
(* the credentials and the store of the sessions.                           *)
(***************************************************************************)
EXTENDS AuthenticatedApp

CONSTANTS d1, d2

Given == <<d1, d2, d1>>
=============================================================================
