--------------------------- MODULE EnvelopeProofs ---------------------------
(***************************************************************************)
(* Theorems about Envelope for any addresses, modules, recipients, ways of *)
(* sharing cells and numbers of calls.                                     *)
(***************************************************************************)
EXTENDS Envelope, Facts

(***************************************************************************)
(* Nobody is lost: before SetResponses the envelope is that of the MTA;    *)
(* during its loops only addresses of deleted recipients are taken out.    *)
(* The cells do not change any more by then, so that Unwanted means the    *)
(* same in all turns.                                                      *)
(***************************************************************************)
NobodyIsLost ==
  \A r \in accepted :
    (phase \in {"edit", "done"} => \A k \in Named(address[r]) : ~Unwanted(k)) =>
      address[r] \in envelope

\* Whatever a cell will add has been vouched for, or is about to be.
CellsAreVouched ==
  \A c \in Cell :
    msg[c].envrcpts \subseteq
      vouched \cup (IF c = Now /\ Running THEN asked ELSE {})

\* The loop of SetResponses is over accepted recipients.
EditsAccepted == phase \in {"eom", "headers", "edit"} => n \in accepted

EnvelopeInv == TypeOK /\ EditsAccepted /\ NobodyIsLost /\ CellsAreVouched /\ FailedRunsAddNobody

-----------------------------------------------------------------------------
\* The loops over modules and recipients stay within both.
LEMMA LoopTypes ==
  ASSUME TypeOK, EditsAccepted, NextModule \/ NextRecipient, UNCHANGED fixed,
         phase \in {"rcpt", "eom", "edit"}
  PROVE  /\ phase' \in {"rcpt", "eom", "headers", "edit", "done"}
         /\ n' \in Rcpt /\ m' \in Mods
         /\ EditsAccepted'
         /\ phase # "edit" => phase' \notin {"edit", "done"}
         /\ phase = "edit" => phase' \in {"edit", "done"}
<1>1. n \in Rcpt /\ m \in Mods /\ accepted \subseteq Rcpt /\ accepted' = accepted
  BY DEF TypeOK, fixed
<1>2. 1 \in Mods
  BY EnvelopeAssumption DEF Mods
<1>3. CASE NextModule /\ m < NMods
  <2>1. m' = m + 1 /\ n' = n /\ phase' = phase
    BY <1>3 DEF NextModule
  <2>2. m' \in Mods
    BY <1>1, <1>3, <2>1, EnvelopeAssumption DEF Mods
  <2> QED
    BY <1>1, <2>1, <2>2 DEF EditsAccepted
<1>4. CASE NextRecipient
  <2> DEFINE later == First({r \in Visited : r > n})
  <2>1. CASE later # {}
    <3>1. n' \in later /\ phase' = phase /\ m' = 1
      BY <1>4, <2>1 DEF NextRecipient
    <3>2. n' \in Visited
      BY <3>1 DEF First
    <3> QED
      BY <1>1, <1>2, <3>1, <3>2 DEF Visited, EditsAccepted
  <2>2. CASE later = {} /\ phase = "rcpt"
    <3>1. n' \in First(accepted) /\ phase' = "eom" /\ m' = 1
      BY <1>4, <2>2 DEF NextRecipient
    <3>2. n' \in accepted
      BY <3>1 DEF First
    <3> QED
      BY <1>1, <1>2, <2>2, <3>1, <3>2 DEF EditsAccepted
  <2>3. CASE later = {} /\ phase # "rcpt"
    <3>1. n' = n /\ phase' = (IF phase = "eom" THEN "headers" ELSE "done") /\ m' = 1
      BY <1>4, <2>3 DEF NextRecipient
    <3> QED
      BY <1>1, <1>2, <2>3, <3>1 DEF EditsAccepted
  <2> QED BY <2>1, <2>2, <2>3
<1> QED
  BY <1>3, <1>4 DEF NextModule

\* Nothing has happened yet.
LEMMA EnvelopeInit == Init => EnvelopeInv
<1> SUFFICES ASSUME Init PROVE EnvelopeInv
  OBVIOUS
<1>1. /\ address \in [Rcpt -> Addr] /\ modules \in [Rcpt -> [Mods -> Rcpt]]
      /\ accepted \in SUBSET Rcpt
  BY DEF Init
<1>2. msg = [c \in Cell |-> [deletemyself |-> FALSE, envrcpts |-> {}, headers |-> FALSE]]
  BY DEF Init
<1>3. phase = "rcpt" /\ n = 1 /\ m = 1 /\ calls = 0
  BY DEF Init
<1>4. /\ envelope = {address[r] : r \in accepted} /\ applied = {} /\ asked = {}
      /\ vouched = {} /\ withdrawn = {} /\ failed = {}
  BY DEF Init
<1>5. msg \in [Cell -> Message]
  BY <1>2 DEF Message
<1>6. n \in Rcpt /\ m \in Mods /\ calls \in 0..MaxCalls
  BY <1>3, EnvelopeAssumption DEF Rcpt, Mods
<1>7. envelope \subseteq Addr
  BY <1>1, <1>4
<1>8. TypeOK
  BY <1>1, <1>3, <1>4, <1>5, <1>6, <1>7 DEF TypeOK
<1>9. EditsAccepted /\ NobodyIsLost
  BY <1>3, <1>4 DEF EditsAccepted, NobodyIsLost
<1>10. CellsAreVouched
  BY <1>2 DEF CellsAreVouched
<1>11. FailedRunsAddNobody
  BY <1>4 DEF FailedRunsAddNobody
<1> QED
  BY <1>8, <1>9, <1>10, <1>11 DEF EnvelopeInv

-----------------------------------------------------------------------------
\* As long as the envelope is not touched and SetResponses has not begun, nobody is
\* lost, and failed runs have added nobody.
LEMMA EnvelopeUntouched ==
  ASSUME EnvelopeInv, UNCHANGED <<fixed, envelope>>, vouched \subseteq vouched',
         phase \notin {"edit", "done"}, phase' \notin {"edit", "done"}
  PROVE  NobodyIsLost' /\ FailedRunsAddNobody'
<1>1. accepted' = accepted /\ address' = address /\ envelope' = envelope
  BY DEF fixed
<1>2. NobodyIsLost'
  BY <1>1 DEF EnvelopeInv, NobodyIsLost
<1>3. FailedRunsAddNobody'
  BY <1>1 DEF EnvelopeInv, FailedRunsAddNobody
<1> QED BY <1>2, <1>3

\* A call of the interface changes the current cell by at most an address the run is
\* noted to have added.
LEMMA CallKeeps ==
  ASSUME EnvelopeInv, NEW message \in Message, Call(message),
         asked' \subseteq Addr, withdrawn' \subseteq Addr,
         message.envrcpts \subseteq vouched \cup asked'
  PROVE  EnvelopeInv'
<1>1. TypeOK /\ EditsAccepted /\ CellsAreVouched
  BY DEF EnvelopeInv
<1>2. /\ UNCHANGED fixed /\ phase' = phase /\ n' = n /\ m' = m
      /\ envelope' = envelope /\ applied' = applied /\ vouched' = vouched
      /\ failed' = failed /\ msg' = [msg EXCEPT ![Now] = message] /\ Running
      /\ calls < MaxCalls /\ calls' = calls + 1
  BY DEF Call
<1>3. modules' = modules /\ accepted' = accepted /\ address' = address
  BY <1>2 DEF fixed
<1>4. calls' \in 0..MaxCalls
  BY <1>1, <1>2, EnvelopeAssumption DEF TypeOK
<1>5. msg' \in [Cell -> Message]
  BY <1>1, <1>2 DEF TypeOK
<1>6. TypeOK'
  BY <1>1, <1>2, <1>3, <1>4, <1>5 DEF TypeOK
<1>7. EditsAccepted'
  BY <1>1, <1>2, <1>3 DEF EditsAccepted
<1>8. NobodyIsLost' /\ FailedRunsAddNobody'
  BY <1>2, EnvelopeUntouched DEF Running
<1>9. CellsAreVouched'
  <2>1. Now' = Now /\ Running'
    BY <1>2, <1>3 DEF Now, CellOf, Running
  <2> SUFFICES ASSUME NEW c \in Cell
               PROVE  msg'[c].envrcpts \subseteq
                        vouched' \cup (IF c = Now' THEN asked' ELSE {})
    BY <2>1 DEF CellsAreVouched
  <2>2. CASE c = Now
    BY <1>1, <1>2, <2>1, <2>2 DEF TypeOK
  <2>3. CASE c # Now
    BY <1>1, <1>2, <2>1, <2>3 DEF TypeOK, CellsAreVouched
  <2> QED BY <2>2, <2>3
<1> QED
  BY <1>6, <1>7, <1>8, <1>9 DEF EnvelopeInv

\* The cell the module runs in is a cell.
LEMMA NowIsACell == ASSUME TypeOK PROVE Now \in Cell /\ msg[Now] \in Message
<1>1. n \in Rcpt /\ m \in Mods /\ modules \in [Rcpt -> [Mods -> Rcpt]]
      /\ msg \in [Cell -> Message]
  BY DEF TypeOK
<1>2. Now \in Cell
  BY <1>1 DEF Now, CellOf, Cell
<1> QED BY <1>1, <1>2

\* The calls of the modules' interface.
LEMMA CallsKeep ==
  ASSUME EnvelopeInv, NEW a \in Addr, AddRecipient(a) \/ DelRecipient(a) \/ AddHeader
  PROVE  EnvelopeInv'
<1>1. /\ msg[Now] \in Message /\ asked \subseteq Addr /\ Now \in Cell
      /\ withdrawn \subseteq Addr
  BY NowIsACell DEF EnvelopeInv, TypeOK
<1>2. Running => msg[Now].envrcpts \subseteq vouched \cup asked
  BY <1>1 DEF EnvelopeInv, CellsAreVouched
<1>3. CASE AddRecipient(a)
  <2>1. CASE a = address[n]
    <3> DEFINE message == [msg[Now] EXCEPT !.deletemyself = FALSE]
    <3>1. Call(message) /\ asked' = asked /\ withdrawn' = withdrawn
      BY <1>3, <2>1 DEF AddRecipient
    <3>2. message \in Message /\ message.envrcpts = msg[Now].envrcpts
      BY <1>1 DEF Message
    <3>3. Running
      BY <3>1 DEF Call
    <3> HIDE DEF message
    <3> QED BY <1>1, <1>2, <3>1, <3>2, <3>3, CallKeeps
  <2>2. CASE a # address[n]
    <3> DEFINE message == [msg[Now] EXCEPT !.envrcpts = @ \cup {a}]
    <3>1. Call(message) /\ asked' = asked \cup {a} /\ withdrawn' = withdrawn
      BY <1>3, <2>2 DEF AddRecipient
    <3>2. message \in Message /\ message.envrcpts = msg[Now].envrcpts \cup {a}
      BY <1>1 DEF Message
    <3>3. Running
      BY <3>1 DEF Call
    <3> HIDE DEF message
    <3> QED BY <1>1, <1>2, <3>1, <3>2, <3>3, CallKeeps
  <2> QED BY <2>1, <2>2
<1>4. CASE DelRecipient(a)
  <2>1. CASE a = address[n]
    <3> DEFINE message == [msg[Now] EXCEPT !.deletemyself = TRUE]
    <3>1. Call(message) /\ asked' = asked /\ withdrawn' = withdrawn \cup {a}
      BY <1>4, <2>1 DEF DelRecipient
    <3>2. message \in Message /\ message.envrcpts = msg[Now].envrcpts
      BY <1>1 DEF Message
    <3>3. Running
      BY <3>1 DEF Call
    <3> HIDE DEF message
    <3> QED BY <1>1, <1>2, <3>1, <3>2, <3>3, CallKeeps
  <2>2. CASE a # address[n]
    <3> DEFINE message == [msg[Now] EXCEPT !.envrcpts = @ \ {a}]
    <3>1. Call(message) /\ asked' = asked \ {a} /\ withdrawn' = withdrawn \cup {a}
      BY <1>4, <2>2 DEF DelRecipient
    <3>2. message \in Message /\ message.envrcpts = msg[Now].envrcpts \ {a}
      BY <1>1 DEF Message
    <3>3. Running
      BY <3>1 DEF Call
    <3> HIDE DEF message
    <3> QED BY <1>1, <1>2, <3>1, <3>2, <3>3, CallKeeps
  <2> QED BY <2>1, <2>2
<1>5. CASE AddHeader
  <2> DEFINE message == [msg[Now] EXCEPT !.headers = TRUE]
  <2>1. Call(message) /\ asked' = asked /\ withdrawn' = withdrawn
    BY <1>5 DEF AddHeader
  <2>2. message \in Message /\ message.envrcpts = msg[Now].envrcpts
    BY <1>1 DEF Message
  <2>3. Running
    BY <2>1 DEF Call
  <2> HIDE DEF message
  <2> QED BY <1>1, <1>2, <2>1, <2>2, <2>3, CallKeeps
<1> QED BY <1>3, <1>4, <1>5

\* A run ends, in one way or another: all that is in the cells is vouched for.
LEMMA RunEnds ==
  ASSUME EnvelopeInv, Running, NextModule \/ NextRecipient,
         UNCHANGED <<fixed, calls, envelope, applied, withdrawn>>, failed' \subseteq Cell,
         msg' \in [Cell -> Message], asked' = {},
         vouched' \in SUBSET Addr, vouched \subseteq vouched',
         \A c \in Cell : msg'[c].envrcpts \subseteq vouched'
  PROVE  EnvelopeInv'
<1>1. TypeOK /\ EditsAccepted /\ phase \in {"rcpt", "eom"}
  BY DEF EnvelopeInv, Running
<1>2. /\ phase' \in {"rcpt", "eom", "headers", "edit", "done"}
      /\ n' \in Rcpt /\ m' \in Mods
      /\ EditsAccepted' /\ phase' \notin {"edit", "done"}
  BY <1>1, LoopTypes DEF fixed
<1>3. TypeOK'
  BY <1>1, <1>2 DEF TypeOK, fixed
<1>4. NobodyIsLost' /\ FailedRunsAddNobody'
  BY <1>1, <1>2, EnvelopeUntouched DEF fixed
<1>5. CellsAreVouched'
  BY DEF CellsAreVouched
<1> QED
  BY <1>2, <1>3, <1>4, <1>5 DEF EnvelopeInv

\* A run succeeds, fails or rejects.
LEMMA RunsKeep == ASSUME EnvelopeInv, Succeeds \/ Fails \/ Rejects PROVE EnvelopeInv'
<1>1. /\ msg \in [Cell -> Message] /\ Now \in Cell /\ msg[Now] \in Message
      /\ failed \subseteq Cell /\ vouched \in SUBSET Addr /\ asked \in SUBSET Addr
  BY NowIsACell DEF EnvelopeInv, TypeOK
<1>2. Running
  BY DEF Succeeds, Fails, Rejects, Running
<1>3. \A c \in Cell :
        /\ msg[c].envrcpts \subseteq vouched \cup asked
        /\ c # Now => msg[c].envrcpts \subseteq vouched
  BY <1>2 DEF EnvelopeInv, CellsAreVouched
<1>4. CASE Succeeds \/ Rejects
  <2>1. /\ vouched' = vouched \cup asked /\ asked' = {} /\ msg' = msg
        /\ NextModule \/ NextRecipient
        /\ UNCHANGED <<fixed, calls, envelope, applied, withdrawn, failed>>
    BY <1>4 DEF Succeeds, Rejects
  <2> QED BY <1>1, <1>2, <1>3, <2>1, RunEnds
<1>5. CASE Fails
  <2>1. /\ vouched' = vouched /\ asked' = {} /\ NextRecipient
        /\ UNCHANGED <<fixed, calls, envelope, applied, withdrawn>>
        /\ failed' = failed \cup {Now} /\ msg' = [msg EXCEPT ![Now] = Cleanup(msg[Now])]
    BY <1>5 DEF Fails
  <2>2. Cleanup(msg[Now]) \in Message /\ Cleanup(msg[Now]).envrcpts = {}
    BY <1>1 DEF Cleanup, Message
  <2>3. msg' \in [Cell -> Message]
    BY <1>1, <2>1, <2>2
  <2>4. \A c \in Cell : msg'[c].envrcpts \subseteq vouched'
    BY <1>1, <1>3, <2>1, <2>2
  <2> QED BY <1>1, <1>2, <2>1, <2>3, <2>4, RunEnds
<1> QED BY <1>4, <1>5

\* The first half of SetResponses: header changes.
LEMMA CompactKeeps == ASSUME EnvelopeInv, Compact PROVE EnvelopeInv'
<1>1. TypeOK /\ phase = "headers" /\ n \in accepted
  BY DEF EnvelopeInv, EditsAccepted, Compact
<1>2. /\ applied' = applied \cup CompactHeaders /\ phase' = "edit" /\ m' = 1
      /\ n' \in First(accepted)
      /\ UNCHANGED <<fixed, calls, envelope, asked, vouched, withdrawn, failed>>
      /\ msg' = [c \in Cell |-> IF c \in CompactHeaders
                               THEN [msg[c] EXCEPT !.headers = FALSE] ELSE msg[c]]
  BY DEF Compact
<1>3. accepted' = accepted /\ address' = address /\ modules' = modules /\ n' \in accepted
  BY <1>2 DEF fixed, First
<1>4. CompactHeaders \subseteq Cell
  BY <1>1 DEF TypeOK, CompactHeaders, CellOf, Cell
<1>5. \A c \in Cell : msg'[c] \in Message /\ msg'[c].envrcpts = msg[c].envrcpts
  <2> TAKE c \in Cell
  <2>1. msg[c] \in Message
    BY <1>1 DEF TypeOK
  <2>2. msg'[c] = IF c \in CompactHeaders THEN [msg[c] EXCEPT !.headers = FALSE] ELSE msg[c]
    BY <1>2
  <2> QED BY <2>1, <2>2 DEF Message
<1>6. TypeOK'
  <2>1. m' \in Mods
    BY <1>2, EnvelopeAssumption DEF Mods
  <2>2. msg' \in [Cell -> Message]
    BY <1>2, <1>5
  <2> QED BY <1>1, <1>2, <1>3, <1>4, <2>1, <2>2 DEF TypeOK
<1>7. EditsAccepted'
  BY <1>3 DEF EditsAccepted
<1>8. NobodyIsLost' /\ FailedRunsAddNobody'
  BY <1>1, <1>2, <1>3 DEF EnvelopeInv, NobodyIsLost, FailedRunsAddNobody
<1>9. CellsAreVouched'
  BY <1>1, <1>2, <1>5 DEF EnvelopeInv, CellsAreVouched, Running
<1> QED
  BY <1>6, <1>7, <1>8, <1>9 DEF EnvelopeInv

\* One turn of the loops of SetResponses takes out, at most, a deleted recipient.
LEMMA EditKeeps == ASSUME EnvelopeInv, Edit PROVE EnvelopeInv'
<1>1. TypeOK /\ phase = "edit" /\ n \in accepted /\ EditsAccepted
  BY DEF EnvelopeInv, EditsAccepted, Edit
<1>2. /\ NextModule
      /\ UNCHANGED <<fixed, msg, calls, applied, asked, vouched, withdrawn, failed>>
      /\ envelope' = (IF Deleted(n, m) THEN envelope \ {address[n]} ELSE envelope)
                       \cup GetRecipients
  BY DEF Edit
<1>3. /\ phase' \in {"edit", "done"} /\ n' \in Rcpt /\ m' \in Mods /\ EditsAccepted'
  BY <1>1, <1>2, LoopTypes DEF fixed
<1>4. accepted' = accepted /\ address' = address /\ modules' = modules
  BY <1>2 DEF fixed
<1>5. Added(n, m) \subseteq vouched /\ Added(n, m) \subseteq Addr
  <2> SUFFICES ASSUME NEW j \in 1..(m - 1)
               PROVE  msg[CellOf(n, j)].envrcpts \subseteq vouched
    BY <1>1 DEF Added, TypeOK
  <2>1. j \in Mods
    BY <1>1, EnvelopeAssumption DEF TypeOK, Mods
  <2>2. CellOf(n, j) \in Cell
    BY <1>1, <2>1 DEF TypeOK, CellOf, Cell
  <2> QED BY <1>1, <2>2 DEF EnvelopeInv, CellsAreVouched, Running
<1>6. /\ GetRecipients \subseteq {address[n]} \cup Added(n, m)
      /\ ~Deleted(n, m) => address[n] \in GetRecipients
  BY DEF GetRecipients
<1>7. TypeOK'
  <2>1. envelope' \subseteq Addr
    BY <1>1, <1>2, <1>5, <1>6 DEF TypeOK
  <2> QED BY <1>1, <1>2, <1>3, <1>4, <2>1 DEF TypeOK
<1>8. Deleted(n, m) => Unwanted(n)
  <2>1. 1..m \subseteq Mods
    BY <1>1, EnvelopeAssumption DEF TypeOK, Mods
  <2> QED BY <2>1 DEF Deleted, Unwanted
<1>9. NobodyIsLost'
  <2> SUFFICES ASSUME NEW r \in accepted, \A k \in Named(address[r]) : ~Unwanted(k)
               PROVE  address[r] \in envelope'
    BY <1>2, <1>3, <1>4 DEF NobodyIsLost, Named, Unwanted, CellOf
  <2>1. address[r] \in envelope
    BY DEF EnvelopeInv, NobodyIsLost
  <2>2. CASE address[r] = address[n]
    <3>1. n \in Named(address[r])
      BY <1>1, <2>2 DEF Named
    <3> QED BY <1>2, <1>6, <1>8, <2>1, <3>1
  <2>3. CASE address[r] # address[n]
    BY <1>2, <2>1, <2>3
  <2> QED BY <2>2, <2>3
<1>10. FailedRunsAddNobody'
  BY <1>1, <1>2, <1>4, <1>5, <1>6 DEF EnvelopeInv, FailedRunsAddNobody
<1>11. CellsAreVouched'
  BY <1>1, <1>2, <1>3 DEF EnvelopeInv, CellsAreVouched, Running
<1> QED
  BY <1>3, <1>7, <1>9, <1>10, <1>11 DEF EnvelopeInv

-----------------------------------------------------------------------------
\* The invariant holds in every state of a message.
THEOREM EnvelopeInvariant == Spec => []EnvelopeInv
<1>1. Init => EnvelopeInv
  BY EnvelopeInit
<1>2. EnvelopeInv /\ [Next]_vars => EnvelopeInv'
  <2> SUFFICES ASSUME EnvelopeInv, [Next]_vars PROVE EnvelopeInv'
    OBVIOUS
  <2>1. CASE \E a \in Addr : AddRecipient(a) \/ DelRecipient(a)
    BY <2>1, CallsKeep
  <2>2. CASE AddHeader
    <3>1. \E a \in Addr : TRUE
      <4>1. n \in Rcpt /\ address \in [Rcpt -> Addr]
        BY DEF EnvelopeInv, TypeOK
      <4> QED BY <4>1
    <3> QED BY <2>2, <3>1, CallsKeep
  <2>3. CASE Succeeds \/ Fails \/ Rejects
    BY <2>3, RunsKeep
  <2>4. CASE Compact
    BY <2>4, CompactKeeps
  <2>5. CASE Edit
    BY <2>5, EditKeeps
  <2>6. CASE UNCHANGED vars
    <3>1. EditsAccepted'
      BY <2>6 DEF vars, fixed, EnvelopeInv, EditsAccepted
    <3>2. TypeOK'
      BY <2>6 DEF vars, fixed, EnvelopeInv, TypeOK
    <3>3. NobodyIsLost' /\ FailedRunsAddNobody'
      BY <2>6 DEF vars, fixed, EnvelopeInv, NobodyIsLost, FailedRunsAddNobody, Named,
                  Unwanted, CellOf
    <3>4. CellsAreVouched'
      BY <2>6 DEF vars, fixed, EnvelopeInv, CellsAreVouched, Now, CellOf, Running
    <3> QED BY <3>1, <3>2, <3>3, <3>4 DEF EnvelopeInv
  <2> QED
    BY <2>1, <2>2, <2>3, <2>4, <2>5, <2>6 DEF Next, Finished
<1> QED
  BY <1>1, <1>2, PTL DEF Spec

\* The types of the envelope's variables, for any bounds.
THEOREM EnvelopeTypes == Spec => []TypeOK
<1>1. EnvelopeInv => TypeOK
  BY DEF EnvelopeInv
<1> QED BY <1>1, EnvelopeInvariant, PTL

\* An accepted recipient that nobody deletes gets the message (SetResponses).
THEOREM NobodyElseDeleted == Spec => []NobodyElseIsDeleted
<1>1. EnvelopeInv => NobodyElseIsDeleted
  BY DEF EnvelopeInv, NobodyIsLost, NobodyElseIsDeleted
<1> QED BY <1>1, EnvelopeInvariant, PTL

\* Whoever gets the message was accepted or added by a run that did not fail.
THEOREM FailedRunsAddNone == Spec => []FailedRunsAddNobody
<1>1. EnvelopeInv => FailedRunsAddNobody
  BY DEF EnvelopeInv
<1> QED BY <1>1, EnvelopeInvariant, PTL
-----------------------------------------------------------------------------
(***************************************************************************)
(* What the loops of SetResponses have done when they come to module m of  *)
(* recipient n.  The turn for a module adds what the modules before it     *)
(* have added, so that before it only those up to m - 2 are through.  A    *)
(* deleted recipient is put in again by the first turns of the next one of *)
(* the same address, and taken out by a later turn of the same recipient.  *)
(***************************************************************************)
Wanted(a) == \A k \in Named(a) : ~Unwanted(k)
Gone(a)   == /\ \A k \in Named(a) : Unwanted(k)
             /\ \A k \in accepted : a \notin AddedBy(k, NMods)

AddedSoFar ==
  phase = "edit" =>
    \A r \in accepted, j \in 1..(NMods - 1) : r < n \/ (r = n /\ j + 1 < m) =>
      \A a \in msg[CellOf(r, j)].envrcpts : Wanted(a) => a \in envelope

\* The turn before this one has found the recipient deleted, if it was for this recipient.
LastDeleted == \E j \in 1..(m - 1) : msg[CellOf(n, j)].deletemyself

GoneSoFar ==
  phase = "edit" =>
    \A a \in Addr : Gone(a) =>
      IF address[n] = a /\ m > 1 THEN LastDeleted => a \notin envelope
      ELSE (\E r \in Named(a) : r < n) => a \notin envelope

\* After the last turn.
AddedThere ==
  phase = "done" =>
    \A r \in accepted : \A a \in AddedBy(r, NMods - 1) : Wanted(a) => a \in envelope
GoneThere ==
  phase = "done" => \A r \in accepted : Gone(address[r]) => address[r] \notin envelope

EditInv ==
  AddedSoFar /\ GoneSoFar /\ AddedThere /\ GoneThere /\ CommonHeadersAreApplied

\* A search that goes through the recipients in their order finds a first one.
LEMMA FirstExists == ASSUME NEW S \in SUBSET Rcpt, S # {} PROVE First(S) # {}
BY LeastExists, EnvelopeAssumption DEF First, Rcpt

\* Where the loops of SetResponses go from module m of recipient n.
LEMMA EditMoves ==
  ASSUME TypeOK, phase = "edit", NextModule
  PROVE  \/ m < NMods /\ m' = m + 1 /\ n' = n /\ phase' = "edit"
         \/ /\ m = NMods /\ m' = 1 /\ phase' = "edit" /\ n' \in accepted /\ n < n'
            /\ \A r \in accepted : r < n' => r <= n
         \/ /\ m = NMods /\ phase' = "done"
            /\ \A r \in accepted : r <= n
<1>1. n \in Nat /\ m \in Mods /\ accepted \subseteq Rcpt /\ NMods \in Nat /\ m \in Nat
  BY EnvelopeAssumption DEF TypeOK, Rcpt, Mods
<1>2. \A r \in accepted : r \in Nat
  BY <1>1, EnvelopeAssumption DEF Rcpt
<1>3. CASE m < NMods
  BY <1>3 DEF NextModule
<1>4. CASE ~(m < NMods)
  <2> DEFINE L == {r \in accepted : r > n}
             later == First(L)
  <2>1. m = NMods
    BY <1>1, <1>4 DEF Mods
  <2>2. m' = 1 /\ IF later # {} THEN n' \in later /\ phase' = phase ELSE phase' = "done"
    BY <1>4 DEF NextModule, NextRecipient, Visited
  <2>3. CASE later # {}
    <3>1. n' \in L /\ \A r \in L : n' <= r
      BY <2>2, <2>3 DEF First
    <3>2. \A r \in accepted : r < n' => r <= n
      BY <1>1, <1>2, <3>1
    <3> QED BY <1>1, <1>2, <2>1, <2>2, <2>3, <3>1, <3>2
  <2>4. CASE later = {}
    <3>1. L \in SUBSET Rcpt
      BY <1>1
    <3>2. L = {}
      <4> HIDE DEF L
      <4> QED BY <2>4, <3>1, FirstExists
    <3>3. \A r \in accepted : r <= n
      BY <1>1, <1>2, <3>2
    <3> QED BY <2>1, <2>2, <2>4, <3>3
  <2> QED BY <2>3, <2>4
<1> QED BY <1>3, <1>4

\* The first turn comes; the header changes all recipients share have been given to
\* the MTA, as the current recipient has their cells too.
LEMMA CompactEdits == ASSUME EnvelopeInv, Compact PROVE EditInv'
<1>1. /\ TypeOK /\ n \in accepted /\ phase' = "edit" /\ n' \in First(accepted) /\ m' = 1
      /\ UNCHANGED <<address, modules, accepted, envelope>>
  BY DEF EnvelopeInv, EditsAccepted, Compact, fixed
<1>2. \A r \in accepted : r \in Nat /\ n' <= r /\ n' \in Nat
  BY <1>1, EnvelopeAssumption DEF First, TypeOK, Rcpt
<1>3. AddedSoFar'
  <2>1. \A r \in accepted, j \in 1..(NMods - 1) : ~(r < n' \/ (r = n' /\ j + 1 < 1))
    BY <1>2, EnvelopeAssumption
  <2> QED BY <1>1, <2>1 DEF AddedSoFar
<1>4. GoneSoFar'
  <2>1. \A a : Named(a)' \subseteq accepted
    BY <1>1 DEF Named
  <2> QED BY <1>1, <1>2, <2>1 DEF GoneSoFar
<1>5. AddedThere' /\ GoneThere'
  BY <1>1 DEF AddedThere, GoneThere
<1>6. CommonHeadersAreApplied'
  <2> SUFFICES ASSUME NEW c \in Cell, \A r \in accepted : CellOf(r, c[1]) = c
               PROVE  ~msg'[c].headers
    BY <1>1 DEF CommonHeadersAreApplied, CellOf
  <2>1. msg'[c] = IF c \in CompactHeaders THEN [msg[c] EXCEPT !.headers = FALSE] ELSE msg[c]
    BY DEF Compact
  <2>2. msg[c] \in Message /\ c[1] \in Mods
    BY <1>1 DEF TypeOK, Cell
  <2>3. msg[c].headers => c \in CompactHeaders
    <3>1. c \in {CellOf(n, k) : k \in Mods}
      BY <1>1, <2>2
    <3>2. \A r \in accepted : ~Differs(c, CellOf(r, c[1]))
      BY DEF Differs
    <3> QED BY <3>1, <3>2 DEF CompactHeaders
  <2> QED BY <2>1, <2>2, <2>3 DEF Message
<1> QED BY <1>3, <1>4, <1>5, <1>6 DEF EditInv

\* One turn of the loops.
LEMMA EditEdits == ASSUME EnvelopeInv, EditInv, Edit PROVE EditInv'
<1>1. /\ TypeOK /\ n \in accepted /\ phase = "edit" /\ NextModule
      /\ UNCHANGED <<address, modules, accepted, msg>>
      /\ envelope' = (IF Deleted(n, m) THEN envelope \ {address[n]} ELSE envelope)
                       \cup GetRecipients
  BY DEF EnvelopeInv, EditsAccepted, Edit, fixed
<1>2. /\ n \in Nat /\ m \in Mods /\ m \in 1..NMods /\ NMods \in Nat
      /\ \A r \in accepted : r \in Nat /\ r \in Rcpt
  BY <1>1, EnvelopeAssumption DEF TypeOK, Rcpt, Mods
<1>3. /\ \A a : Wanted(a)' <=> Wanted(a)
      /\ \A a : Gone(a)' <=> Gone(a)
      /\ \A a : Named(a)' = Named(a)
      /\ \A r, k : CellOf(r, k)' = CellOf(r, k)
  BY <1>1 DEF Wanted, Gone, Named, Unwanted, AddedBy, CellOf
<1>4. n \in Named(address[n])
  BY <1>1 DEF Named
<1>5. Deleted(n, m) => Unwanted(n)
  BY <1>2 DEF Deleted, Unwanted, Mods
<1>6. \A a \in envelope : Wanted(a) => a \in envelope'
  BY <1>1, <1>4, <1>5 DEF Wanted
<1>7. \A j \in 1..(m - 1) : \A a \in msg[CellOf(n, j)].envrcpts : a \in envelope'
  <2> SUFFICES ASSUME NEW j \in 1..(m - 1), NEW a \in msg[CellOf(n, j)].envrcpts
               PROVE  a \in envelope'
    OBVIOUS
  <2>1. a \in Added(n, m)
    BY DEF Added
  <2> QED BY <1>1, <2>1 DEF GetRecipients
<1>8. \A a : a \in envelope' =>
        \/ a \in envelope /\ ~(Deleted(n, m) /\ a = address[n])
        \/ a = address[n] /\ ~Deleted(n, m)
        \/ a \in Added(n, m)
  BY <1>1 DEF GetRecipients
<1>9. \A a : Gone(a) => a \notin Added(n, m)
  <2> SUFFICES ASSUME NEW a, a \in Added(n, m) PROVE a \in AddedBy(n, NMods)
    BY <1>1 DEF Gone
  <2>1. PICK j \in 1..(m - 1) : a \in msg[CellOf(n, j)].envrcpts
    BY DEF Added
  <2>2. j \in 1..NMods
    BY <1>2
  <2> QED BY <2>1, <2>2 DEF AddedBy
<1>10. \A a : Gone(a) /\ a # address[n] /\ a \notin envelope => a \notin envelope'
  BY <1>8, <1>9
<1>11. Gone(address[n]) /\ Deleted(n, m) => address[n] \notin envelope'
  BY <1>8, <1>9
<1>12. Gone(address[n]) /\ m = NMods => Deleted(n, m)
  BY <1>4 DEF Gone, Unwanted, Deleted, Mods
\* The turn of the next module.
<1>13. CASE m < NMods /\ m' = m + 1 /\ n' = n /\ phase' = "edit"
  <2>1. AddedSoFar'
    <3> SUFFICES ASSUME NEW r \in accepted, NEW j \in 1..(NMods - 1),
                        r < n \/ (r = n /\ j + 1 < m + 1),
                        NEW a \in msg[CellOf(r, j)].envrcpts, Wanted(a)
                 PROVE  a \in envelope'
      BY <1>1, <1>3, <1>13 DEF AddedSoFar
    <3>1. CASE r < n \/ (r = n /\ j + 1 < m)
      BY <1>1, <1>6, <3>1 DEF EditInv, AddedSoFar
    <3>2. CASE r = n /\ j \in 1..(m - 1)
      BY <1>7, <3>2
    <3> QED BY <1>2, <3>1, <3>2
  <2>2. GoneSoFar'
    <3> SUFFICES ASSUME NEW a \in Addr, Gone(a)'
                 PROVE  (IF address[n] = a /\ m > 1
                         THEN LastDeleted => a \notin envelope
                         ELSE (\E r \in Named(a) : r < n) => a \notin envelope)'
      BY DEF GoneSoFar
    <3>1. LastDeleted' <=> Deleted(n, m)
      BY <1>1, <1>2, <1>13 DEF LastDeleted, Deleted, CellOf
    <3>2. CASE address[n] = a
      BY <1>1, <1>2, <1>3, <1>11, <1>13, <3>1, <3>2
    <3>3. CASE address[n] # a
      BY <1>1, <1>3, <1>10, <1>13, <3>3 DEF EditInv, GoneSoFar
    <3> QED BY <3>2, <3>3
  <2> QED BY <1>1, <1>3, <1>13, <2>1, <2>2
       DEF EditInv, AddedThere, GoneThere, CommonHeadersAreApplied
\* The turn of the next recipient, or the end.
<1>14. ASSUME m = NMods
       PROVE  /\ \A r \in accepted, j \in 1..(NMods - 1) : r <= n =>
                   \A a \in msg[CellOf(r, j)].envrcpts : Wanted(a) => a \in envelope'
              /\ \A a \in Addr : Gone(a) /\ (\E r \in Named(a) : r <= n) => a \notin envelope'
  <2>1. ASSUME NEW r \in accepted, NEW j \in 1..(NMods - 1), r <= n,
               NEW a \in msg[CellOf(r, j)].envrcpts, Wanted(a)
        PROVE  a \in envelope'
    <3>1. CASE r < n
      BY <1>1, <1>6, <2>1, <3>1 DEF EditInv, AddedSoFar
    <3>2. CASE r = n
      BY <1>7, <1>14, <2>1, <3>2
    <3> QED BY <1>2, <2>1, <3>1, <3>2
  <2>2. ASSUME NEW a \in Addr, Gone(a), NEW r \in Named(a), r <= n PROVE a \notin envelope'
    <3>1. CASE address[n] = a
      BY <1>11, <1>12, <1>14, <2>2, <3>1
    <3>2. CASE address[n] # a
      <4>1. r < n
        BY <1>2, <2>2, <3>2 DEF Named
      <4>2. a \notin envelope
        BY <1>1, <2>2, <3>2, <4>1 DEF EditInv, GoneSoFar
      <4> QED BY <1>10, <2>2, <3>2, <4>2
    <3> QED BY <3>1, <3>2
  <2> QED BY <2>1, <2>2
<1>15. CASE /\ m = NMods /\ m' = 1 /\ phase' = "edit" /\ n' \in accepted /\ n < n'
            /\ \A r \in accepted : r < n' => r <= n
  <2>1. AddedSoFar'
    <3>1. \A r \in accepted, j \in 1..(NMods - 1) : r < n' \/ (r = n' /\ j + 1 < 1) => r <= n
      BY <1>2, <1>15
    <3> QED BY <1>1, <1>3, <1>14, <1>15, <3>1 DEF AddedSoFar
  <2>2. GoneSoFar'
    <3>1. \A a : Named(a) \subseteq accepted
      BY DEF Named
    <3> QED BY <1>1, <1>3, <1>14, <1>15, <3>1 DEF GoneSoFar
  <2> QED BY <1>1, <1>15, <2>1, <2>2, <1>3
       DEF EditInv, AddedThere, GoneThere, CommonHeadersAreApplied
<1>16. CASE m = NMods /\ phase' = "done" /\ \A r \in accepted : r <= n
  <2>1. AddedThere'
    <3> SUFFICES ASSUME NEW r \in accepted, NEW a \in AddedBy(r, NMods - 1), Wanted(a)
                 PROVE  a \in envelope'
      BY <1>1, <1>3 DEF AddedThere, AddedBy, Wanted, Named, Unwanted
    <3>1. PICK j \in 1..(NMods - 1) : a \in msg[CellOf(r, j)].envrcpts
      BY DEF AddedBy
    <3> QED BY <1>14, <1>16, <3>1
  <2>2. GoneThere'
    <3> SUFFICES ASSUME NEW r \in accepted, Gone(address[r])
                 PROVE  address[r] \notin envelope'
      BY <1>1, <1>3 DEF GoneThere, AddedBy, Gone, Named, Unwanted
    <3>1. address[r] \in Addr /\ r \in Named(address[r])
      BY <1>1, <1>2 DEF TypeOK, Named
    <3> QED BY <1>14, <1>16, <3>1
  <2>3. CommonHeadersAreApplied'
    BY <1>1, <1>3 DEF EditInv, CommonHeadersAreApplied
  <2> QED BY <1>16, <2>1, <2>2, <2>3 DEF EditInv, AddedSoFar, GoneSoFar
<1> QED BY <1>1, <1>13, <1>15, <1>16, EditMoves

LEMMA EditInvariant == Spec => []EditInv
<1>1. Init => EditInv
  BY DEF Init, EditInv, AddedSoFar, GoneSoFar, AddedThere, GoneThere,
         CommonHeadersAreApplied
<1>2. EnvelopeInv /\ EditInv /\ [Next]_vars => EditInv'
  <2> SUFFICES ASSUME EnvelopeInv, EditInv, [Next]_vars PROVE EditInv'
    OBVIOUS
  <2>1. CASE phase' \notin {"edit", "done"}
    BY <2>1 DEF EditInv, AddedSoFar, GoneSoFar, AddedThere, GoneThere,
                CommonHeadersAreApplied
  <2>2. CASE \/ \E a \in Addr : AddRecipient(a) \/ DelRecipient(a)
             \/ AddHeader
    <3>1. phase' \notin {"edit", "done"}
      BY <2>2 DEF AddRecipient, DelRecipient, AddHeader, Call, Running
    <3> QED BY <2>1, <3>1
  <2>3. CASE Succeeds \/ Fails \/ Rejects
    <3>1. phase' \notin {"edit", "done"}
      BY <2>3, LoopTypes DEF Succeeds, Fails, Rejects, Running, EnvelopeInv
    <3> QED BY <2>1, <3>1
  <2>4. CASE Compact
    BY <2>4, CompactEdits
  <2>5. CASE Edit
    BY <2>5, EditEdits
  <2>6. CASE UNCHANGED vars
    BY <2>6 DEF vars, fixed, EditInv, AddedSoFar, GoneSoFar, LastDeleted, AddedThere,
                GoneThere,
       CommonHeadersAreApplied, Wanted, Gone, Named, Unwanted, AddedBy, Deleted, CellOf
  <2> QED BY <2>2, <2>3, <2>4, <2>5, <2>6 DEF Next, Finished
<1> QED BY <1>1, <1>2, EnvelopeInvariant, PTL DEF Spec

\* A recipient deleted by a module that has not failed does not get the message, for
\* any number of recipients of the same address and of modules (GetRecipients,
\* SetResponses).
THEOREM DeletedGone == Spec => []DeletedAreGone
<1>1. EditInv => DeletedAreGone
  BY DEF EditInv, GoneThere, Gone, DeletedAreGone, Dismissed, Unwanted
<1> QED BY <1>1, EditInvariant, PTL

\* What the modules before the last have added, and none has deleted, arrives.
THEOREM AddedGetIt == Spec => []AddedArrive
<1>1. EditInv => AddedArrive
  BY DEF EditInv, AddedThere, Wanted, AddedArrive
<1> QED BY <1>1, EditInvariant, PTL

\* Header changes that all recipients share are given to the MTA (CompactHeaders).
THEOREM CommonHeaders == Spec => []CommonHeadersAreApplied
<1>1. EditInv => CommonHeadersAreApplied
  BY DEF EditInv
<1> QED BY <1>1, EditInvariant, PTL

-----------------------------------------------------------------------------
(***************************************************************************)
(* How far header changes of one recipient go: others can get them only if *)
(* they are of another class, for the one recipient whose cells            *)
(* CompactHeaders looks at has been accepted.                              *)
(***************************************************************************)
AppliedOfAccepted == \A c \in applied : \E r \in accepted : c = CellOf(r, c[1])

LEMMA AppliedAlways == Spec => []AppliedOfAccepted
<1>1. Init => AppliedOfAccepted
  BY DEF Init, AppliedOfAccepted
<1>2. EnvelopeInv /\ AppliedOfAccepted /\ [Next]_vars => AppliedOfAccepted'
  <2> SUFFICES ASSUME EnvelopeInv, AppliedOfAccepted, [Next]_vars
               PROVE  AppliedOfAccepted'
    OBVIOUS
  <2>1. CASE UNCHANGED <<modules, accepted, applied>>
    BY <2>1 DEF AppliedOfAccepted, CellOf
  <2>2. CASE Compact
    <3>1. n \in accepted
      BY <2>2 DEF EnvelopeInv, EditsAccepted, Compact
    <3>2. applied' = applied \cup CompactHeaders /\ UNCHANGED <<modules, accepted>>
      BY <2>2 DEF Compact, fixed
    <3>3. \A c \in CompactHeaders : c = CellOf(n, c[1])
      BY DEF CompactHeaders, CellOf
    <3> QED BY <3>1, <3>2, <3>3 DEF AppliedOfAccepted, CellOf
  <2>3. CASE UNCHANGED vars
    BY <2>1, <2>3 DEF vars, fixed
  <2> QED
    BY <2>1, <2>2, <2>3
    DEF Next, AddRecipient, DelRecipient, AddHeader, Call, Succeeds, Fails, Rejects,
        Edit, Finished, fixed
<1> QED BY <1>1, <1>2, EnvelopeInvariant, PTL DEF Spec

\* When all accepted recipients share all their cells, as without PRDR they do unless
\* one wants no bounces (DelayedMode in EngineProofs), header changes that not all
\* recipients have are not given to the MTA (CompactHeaders).
THEOREM PrivateInOneClass ==
  Spec => []((\A r, k \in accepted : modules[r] = modules[k]) => PrivateHeadersStayPrivate)
<1>1. AppliedOfAccepted =>
        ((\A r, k \in accepted : modules[r] = modules[k]) => PrivateHeadersStayPrivate)
  BY DEF AppliedOfAccepted, PrivateHeadersStayPrivate, CellOf
<1> QED BY <1>1, AppliedAlways, PTL
=============================================================================
