------------------------------ MODULE Envelope ------------------------------
(***************************************************************************)
(* What the modules may change of a message, and what the MTA is told of   *)
(* it at the end: Privdata::AddRecipient, DelRecipient, AddHeader, the     *)
(* clean-up after a failed run, and the first half of SetResponses, which  *)
(* calls CompactHeaders and, through GetRecipients, smfi_addrcpt and       *)
(* smfi_delrcpt.                                                           *)
(*                                                                         *)
(* Recipients are numbered in the order of their RCPT commands; the cell   *)
(* <<m, k>> is the one made for module m by recipient k.  The modules run  *)
(* when the recipient arrives and again at the end of the message; runs at *)
(* the end of the headers differ from these in nothing that counts here. A *)
(* recipient that was deferred has run its modules, some of them in cells  *)
(* of others, and takes no further part; likewise one that was rejected.   *)
(***************************************************************************)
EXTENDS Integers

CONSTANTS
  Addr,       \* addresses of recipients, and those modules may add
  NMods,      \* number of modules
  NRcpt,      \* number of RCPT commands in the message
  MaxCalls    \* bound: calls of the modules' interface during the message

Mods == 1..NMods
Rcpt == 1..NRcpt
Cell == Mods \X Rcpt

ASSUME EnvelopeAssumption ==
  NMods \in Nat \ {0} /\ NRcpt \in Nat \ {0} /\ MaxCalls \in Nat

VARIABLES
  address,    \* Recipient::address
  modules,    \* Recipient::modules: the recipient that made the cell
  accepted,   \* the recipients of the vector priv.recipients
  msg,        \* Module::msg of every cell
  phase,      \* "rcpt", "eom": the modules run; "headers", "edit": SetResponses
  n, m,       \* current_recipient and current_soModule
  calls,      \* calls so far
  envelope,   \* external: the MTA's recipients of the message
  applied,    \* external: the cells whose header changes the MTA was given
  asked,      \* history: addresses added by this run
  vouched,    \* history: addresses added by runs that did not fail
  withdrawn,  \* history: addresses some run has deleted
  failed      \* history: the cells some run has failed in

fixed == <<address, modules, accepted>>
vars  == <<fixed, msg, phase, n, m, calls, envelope, applied, asked, vouched, withdrawn,
           failed>>

Message == [deletemyself : BOOLEAN, envrcpts : SUBSET Addr, headers : BOOLEAN]

-----------------------------------------------------------------------------
CellOf(r, k) == <<k, modules[r][k]>>
Now          == CellOf(n, m)

\* The recipients the loop of this phase visits.
Visited == IF phase = "rcpt" THEN Rcpt ELSE accepted
First(S) == {r \in S : \A k \in S : r <= k}

Init ==
  /\ address \in [Rcpt -> Addr]
  /\ modules \in {f \in [Rcpt -> [Mods -> Rcpt]] :
                    \A r \in Rcpt, k \in Mods :
                      f[r][k] = r \/ (f[r][k] < r /\ f[f[r][k]][k] = f[r][k])}
  /\ accepted \in SUBSET Rcpt \ {{}}
  /\ \A r \in Rcpt, k \in Mods : modules[r][k] \in accepted \cup {r}
  /\ msg = [c \in Cell |-> [deletemyself |-> FALSE, envrcpts |-> {}, headers |-> FALSE]]
  /\ phase = "rcpt" /\ n = 1 /\ m = 1 /\ calls = 0
  /\ envelope = {address[r] : r \in accepted} /\ applied = {}
  /\ asked = {} /\ vouched = {} /\ withdrawn = {} /\ failed = {}

-----------------------------------------------------------------------------
\* A module runs for recipient n; what it calls goes to the current cell.
Running == phase \in {"rcpt", "eom"}

Call(message) ==
  /\ Running /\ calls < MaxCalls /\ calls' = calls + 1
  /\ msg' = [msg EXCEPT ![Now] = message]
  /\ UNCHANGED <<fixed, phase, n, m, envelope, applied, vouched, failed>>

AddRecipient(a) ==
  /\ Call(IF a = address[n] THEN [msg[Now] EXCEPT !.deletemyself = FALSE]
          ELSE [msg[Now] EXCEPT !.envrcpts = @ \cup {a}])
  /\ asked' = IF a = address[n] THEN asked ELSE asked \cup {a}
  /\ UNCHANGED withdrawn

DelRecipient(a) ==
  /\ Call(IF a = address[n] THEN [msg[Now] EXCEPT !.deletemyself = TRUE]
          ELSE [msg[Now] EXCEPT !.envrcpts = @ \ {a}])
  /\ asked' = IF a = address[n] THEN asked ELSE asked \ {a}
  /\ withdrawn' = withdrawn \cup {a}

AddHeader ==
  /\ Call([msg[Now] EXCEPT !.headers = TRUE])
  /\ UNCHANGED <<asked, withdrawn>>

\* The loops over modules and recipients, and what follows the last one.
NextRecipient ==
  LET later == First({r \in Visited : r > n})
  IN  /\ m' = 1
      /\ IF later # {} THEN n' \in later /\ phase' = phase
         ELSE IF phase = "rcpt" THEN n' \in First(accepted) /\ phase' = "eom"
         ELSE IF phase = "eom"  THEN n' = n /\ phase' = "headers"
         ELSE n' = n /\ phase' = "done"

\* Mutant of the next operator: the loop runs one module too far.
NextModule_PastTheEnd ==
  IF m <= NMods THEN m' = m + 1 /\ UNCHANGED <<n, phase>> ELSE NextRecipient

NextModule ==
  IF m < NMods THEN m' = m + 1 /\ UNCHANGED <<n, phase>> ELSE NextRecipient

\* The module returns true, or it had not to be run at this stage.
Succeeds ==
  /\ Running
  /\ vouched' = vouched \cup asked /\ asked' = {}
  /\ NextModule
  /\ UNCHANGED <<fixed, msg, calls, envelope, applied, withdrawn, failed>>

\* Mutant: what the failed run has added is left.
Cleanup_Nothing(message) == message

\* operator(), lines 427-436.
Cleanup(message) == [message EXCEPT !.envrcpts = {}]

\* The module returns false or has called DoFail.
Fails ==
  /\ Running
  /\ msg' = [msg EXCEPT ![Now] = Cleanup(@)]
  /\ asked' = {} /\ failed' = failed \cup {Now}
  /\ NextRecipient
  /\ UNCHANGED <<fixed, calls, envelope, applied, vouched, withdrawn>>

\* A module rejects: the recipient is not accepted, and what has been called stays.
Rejects ==
  /\ phase = "rcpt" /\ n \notin accepted
  /\ vouched' = vouched \cup asked /\ asked' = {}
  /\ NextRecipient
  /\ UNCHANGED <<fixed, msg, calls, envelope, applied, withdrawn, failed>>

-----------------------------------------------------------------------------
\* Module::operator!= compares the kinds of two cells: the column, not the cell.
Differs(c, d) == c[1] # d[1]

\* Mutant: the cells themselves are compared, and the sense is inverted.
CompactHeaders_Inverted ==
  {c \in {CellOf(n, k) : k \in Mods} :
     msg[c].headers /\ \E r \in accepted : CellOf(r, c[1]) # c}

\* The cells of the current recipient whose header changes are given to the MTA.
CompactHeaders ==
  {c \in {CellOf(n, k) : k \in Mods} :
     msg[c].headers /\ \A r \in accepted : ~Differs(c, CellOf(r, c[1]))}

\* SetResponses begins; n is still the recipient of the last run.
Compact ==
  /\ phase = "headers"
  /\ applied' = applied \cup CompactHeaders
  /\ msg' = [c \in Cell |-> IF c \in CompactHeaders THEN [msg[c] EXCEPT !.headers = FALSE]
                            ELSE msg[c]]
  /\ phase' = "edit" /\ n' \in First(accepted) /\ m' = 1
  /\ UNCHANGED <<fixed, calls, envelope, asked, vouched, withdrawn, failed>>

\* Mutant of the next operator: the current module's own cell is not looked at.
Deleted_Before(r, k) == \E j \in 1..(k - 1) : msg[CellOf(r, j)].deletemyself
\* Mutant of the next operator: the cells of all recipients are looked at.
Deleted_ByAny(r, k) == \E c \in Cell : msg[c].deletemyself

Deleted(r, k) == \E j \in 1..k : msg[CellOf(r, j)].deletemyself

\* Mutant of the next operator: one module too few.
Added_Short(r, k) == UNION {msg[CellOf(r, j)].envrcpts : j \in 1..(k - 2)}

Added(r, k) == UNION {msg[CellOf(r, j)].envrcpts : j \in 1..(k - 1)}

GetRecipients ==
  (IF Deleted(n, m) THEN {} ELSE {address[n]}) \cup Added(n, m)

\* One turn of the loops of SetResponses.  smfi_delrcpt comes before smfi_addrcpt,
\* so that a recipient somebody has added stays.
Edit ==
  /\ phase = "edit"
  /\ envelope' = (IF Deleted(n, m) THEN envelope \ {address[n]} ELSE envelope)
                   \cup GetRecipients
  /\ NextModule
  /\ UNCHANGED <<fixed, msg, calls, applied, asked, vouched, withdrawn, failed>>

Finished == phase = "done" /\ UNCHANGED vars

Next ==
  \/ \E a \in Addr : AddRecipient(a) \/ DelRecipient(a)
  \/ AddHeader \/ Succeeds \/ Fails \/ Rejects \/ Compact \/ Edit \/ Finished

Spec == Init /\ [][Next]_vars

-----------------------------------------------------------------------------
(***************************************************************************)
(* Properties that the code is meant to have and has.                      *)
(***************************************************************************)
TypeOK ==
  /\ address \in [Rcpt -> Addr]
  /\ modules \in [Rcpt -> [Mods -> Rcpt]]
  /\ accepted \in SUBSET Rcpt
  /\ msg \in [Cell -> Message]
  /\ phase \in {"rcpt", "eom", "headers", "edit", "done"}
  /\ n \in Rcpt /\ m \in Mods /\ calls \in 0..MaxCalls
  /\ envelope \subseteq Addr /\ applied \subseteq Cell
  /\ asked \subseteq Addr /\ vouched \subseteq Addr
  /\ withdrawn \subseteq Addr /\ failed \subseteq Cell

\* The accepted recipients of address a; whether a module has deleted recipient r, and
\* whether one has whose runs in the cell have all succeeded; what modules 1..k have
\* added for r.
Named(a)    == {r \in accepted : address[r] = a}
Unwanted(r) == \E k \in Mods : msg[CellOf(r, k)].deletemyself
Dismissed(r) ==
  \E k \in Mods : msg[CellOf(r, k)].deletemyself /\ CellOf(r, k) \notin failed
AddedBy(r, k) == UNION {msg[CellOf(r, j)].envrcpts : j \in 1..k}

\* No mail is lost: an accepted recipient that none of its modules has deleted, nor
\* any for another RCPT command with its address, is a recipient of the message in
\* the end, whatever the others add and delete (SetResponses, lines 349-364).
NobodyElseIsDeleted ==
  phase = "done" =>
    \A r \in accepted :
      (\A k \in Named(address[r]) : ~Unwanted(k)) => address[r] \in envelope

\* A recipient deleted by a module that has not failed does not get the message, if
\* nobody has added the address and it was deleted for every RCPT command with it; the
\* last module counts too (GetRecipients, lines 84-94).  Of what failed runs have
\* deleted nothing is said: the code deletes it, the documentation does not.
DeletedAreGone ==
  phase = "done" =>
    \A r \in accepted :
      /\ \A k \in Named(address[r]) : Dismissed(k)
      /\ \A k \in accepted : address[r] \notin AddedBy(k, NMods)
      => address[r] \notin envelope

\* An address that a module before the last has added and that no module has deleted
\* gets the message, whatever becomes of the recipient it was added for; one that is a
\* recipient of its own must not have lost it by a cell it shares (GetRecipients,
\* lines 95-101).
AddedArrive ==
  phase = "done" =>
    \A r \in accepted : \A a \in AddedBy(r, NMods - 1) \ withdrawn :
      (\A k \in Named(a) : ~Unwanted(k)) => a \in envelope

\* A failed run adds nobody: every recipient of the message was accepted or was
\* added by a run that succeeded, also where cells are shared (operator(), line 433).
FailedRunsAddNobody ==
  envelope \subseteq {address[r] : r \in accepted} \cup vouched

\* When the message is over, a header change in a cell that all recipients share has
\* been given to the MTA, though only one recipient's cells are looked at
\* (CompactHeaders).
CommonHeadersAreApplied ==
  phase \in {"edit", "done"} =>
    \A c \in Cell :
      (\A r \in accepted : CellOf(r, c[1]) = c) => ~msg[c].headers

-----------------------------------------------------------------------------
(***************************************************************************)
(* What the documentation or a comment says and the code does not do.      *)
(***************************************************************************)

\* Privdata.cpp:280, 291: the headers of global modules are moved; nothing is done
\* for a module that is not global.
PrivateHeadersStayPrivate ==
  \A c \in applied : \A r \in accepted : CellOf(r, c[1]) = c
=============================================================================
