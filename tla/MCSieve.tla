------------------------------- MODULE MCSieve -------------------------------
(***************************************************************************)
(* Scripts for TLC.  "sorting" tests a header; "branching" tests the       *)
(* envelope recipient, for one the size as well, and rejects; "polite"     *)
(* quotes a header when it rejects; "common" includes a personal script.   *)
(***************************************************************************)
EXTENDS Sieve

CONSTANTS alice, bob

Same(p) == [a \in Addr |-> p]

Examples ==
  [sorting   |-> Same(<<"header", "discard", "redirect">>),
   branching |-> [a \in Addr |-> IF a = alice THEN <<"size", "reject">>
                                 ELSE <<"redirect", "vacation">>],
   polite    |-> [a \in Addr |-> IF a = alice THEN <<"rejectHeader", "reject">>
                                 ELSE <<"discard">>],
   common    |-> Same(<<"include", "fileinto", "keep">>)]

Programs == [s \in Script |-> Examples[s]]
=============================================================================
