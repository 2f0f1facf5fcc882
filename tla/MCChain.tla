------------------------------ MODULE MCChain ------------------------------
(***************************************************************************)
(* Instances of Chain for TLC: the plug-ins in the order of Makefile.am,   *)
(* with delays scaled down from 0, 10, 5 and 30 seconds.                   *)
(***************************************************************************)
EXTENDS Chain

CONSTANTS rene, office, anna   \* the blocked sender, mail@aegee.org, somebody else

Build ==
  <<"list_log", "mod_block_sender", "mod_delay", "mod_equal",
    "mod_relayed", "mod_via", "mod_x_scc_headers">>
Exports == [list_log |-> {"log"}]   \* configure.ac never enables list_odbc
Seconds == [EHLO |-> 0, MAIL |-> 2, RCPT |-> 1, BODY |-> 2]

\* The module that sleeps and the one that compares, either, both or none, alone, with
\* all the others, and with the log too.
Others == {"mod_block_sender", "mod_relayed", "mod_via", "mod_x_scc_headers"}
AnySection ==
  {s \cup t : s \in SUBSET {"mod_delay", "mod_equal"},
              t \in {{}, Others, Others \cup {"list_log"}}}
=============================================================================
