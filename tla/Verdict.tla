------------------------------- MODULE Verdict -------------------------------
(***************************************************************************)
(* What the filter promises the MTA about one message, whatever the        *)
(* modules are and however recipients share cells: recipients are accepted *)
(* one by one; at the end there is one outcome for all of them, the        *)
(* message is delivered only if no accepted recipient objects, and as long *)
(* as all accepted recipients are of one class, either all of them object  *)
(* or none does.  Engine implements this (Engine!OneVerdict).              *)
(***************************************************************************)
EXTENDS Integers

VARIABLES
  offered,    \* recipients the MTA has named
  accepted,   \* those of them the message is for
  mixed,      \* may the accepted recipients be of several opinions?
  objecting,  \* the accepted recipients that object, once this is known
  outcome     \* "rcpt" and "data" while the message comes in, then the outcome

vars == <<offered, accepted, mixed, objecting, outcome>>

Init ==
  /\ offered = 0 /\ accepted = {} /\ mixed \in BOOLEAN
  /\ objecting = {} /\ outcome = "rcpt"

\* RCPT TO: refused, or accepted, into one class or as an exception.
Offer ==
  /\ outcome = "rcpt" /\ offered' = offered + 1
  /\ \/ UNCHANGED <<accepted, mixed>>
     \/ accepted' = accepted \cup {offered'} /\ mixed' \in {mixed, TRUE}
  /\ UNCHANGED <<objecting, outcome>>

Data ==
  /\ outcome = "rcpt" /\ accepted # {} /\ outcome' = "data"
  /\ UNCHANGED <<offered, accepted, mixed, objecting>>

\* Nobody objects, and all accepted recipients get the message.
Deliver ==
  /\ outcome = "data" /\ outcome' = "delivered"
  /\ mixed' = FALSE
  /\ UNCHANGED <<offered, accepted, objecting>>

\* Everybody objects.
Reject ==
  /\ outcome = "data" /\ outcome' = "rejected"
  /\ objecting' = accepted /\ accepted' = {} /\ mixed' = FALSE
  /\ UNCHANGED offered

\* Some of the recipients object: nobody gets the message.
Split ==
  /\ outcome = "data" /\ mixed
  /\ outcome' \in {"rejected", "deferred", "died"}
  /\ objecting' \in (SUBSET accepted) \ {{}}
  /\ accepted' = {} /\ mixed' = FALSE
  /\ UNCHANGED offered

\* The MTA gives up.
GiveUp ==
  /\ outcome \in {"rcpt", "data"} /\ outcome' = "givenUp"
  /\ accepted' = {} /\ mixed' = FALSE
  /\ UNCHANGED <<offered, objecting>>

\* The daemon may die over the data of a message; nobody gets it then.
Die ==
  /\ outcome = "data" /\ outcome' = "died"
  /\ accepted' = {} /\ mixed' = FALSE
  /\ UNCHANGED <<offered, objecting>>

Next == Offer \/ Data \/ Deliver \/ Reject \/ Split \/ GiveUp \/ Die

Spec == Init /\ [][Next]_vars
=============================================================================
