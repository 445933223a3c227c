---------------------------- MODULE MCExecution ----------------------------
(***************************************************************************)
(* Instance of Execution for TLC: batches whose fallbacks nearly fill a     *)
(* reply of 24 bytes, one too large to answer, one too long and one empty,  *)
(* one of notifications only, and a single call.                            *)
(***************************************************************************)
EXTENDS Execution

Call(n) == [kind |-> "call", fallback |-> n]
Bad(n) == [kind |-> "invalid", fallback |-> n]
Note == [kind |-> "notification", fallback |-> 0]
Batch(items) == [batch |-> TRUE, items |-> items]
Single(item) == [batch |-> FALSE, items |-> <<item>>]

SomeMessages ==
  {Batch(<<>>), Batch(<<Note, Note, Note, Note>>), Batch(<<Call(9), Call(9)>>),
   Batch(<<Call(4), Call(9)>>), Batch(<<Call(4), Note, Bad(5)>>), Batch(<<Note, Note>>), Single(Call(4))}
=============================================================================
