------------------------------ MODULE MCEngine ------------------------------
(***************************************************************************)
(* Instances of Engine for TLC.  The modules are named for the shipped     *)
(* ones whose Status, Equal and Run they have in common.                   *)
(***************************************************************************)
EXTENDS Engine

CONSTANTS a1, a2   \* two addresses

Everybody == Addr \X Addr
Itself    == {<<a, a>> : a \in Addr}
Nobody    == {}

\* mod_block_sender looks at RCPT and speaks for itself only; mod_sieve is
\* shared by recipients with one default script and asks for later stages.
BlockThenSieveEqual  == <<Nobody, Itself>>
SharedThenSieveEqual == <<Everybody, Itself>>
SieveEqual           == <<Itself>>

SieveRun == {"pass", "REJECT", "needHEADERS", "needBODY"}
PlainRun == {"pass", "TEMPFAIL", "fail"}

JustRcpt       == <<{"RCPT"}>>
HeadersThenAny == <<{"HEADERS"}, {"RCPT"}>>
RcptAndBody    == <<{"RCPT", "BODY"}, {"RCPT"}>>

PlainThenSieve == <<PlainRun, SieveRun>>
JustSieve      == <<SieveRun>>

\* Clients with and without PRDR, and one without that sends a bounce.
AnyClient  == BOOLEAN \X {"address"}
AnyMessage == AnyClient \cup {<<FALSE, "null">>}
PrdrClient == {<<TRUE, "address">>}
=============================================================================
